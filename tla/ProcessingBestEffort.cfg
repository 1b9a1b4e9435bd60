SPECIFICATION Spec
CONSTANTS
    Posts = {p1}
    Calls = {c1}
    SkillsOf <- MCTwoSkills
    MaxAttempts = 1
    MaxReleases = 0
CHECK_DEADLOCK FALSE
INVARIANTS BestEffortRunsAll
