SPECIFICATION FairSpec
CONSTANTS
    Posts = {p1}
    Calls = {c1, c2}
    SkillsOf <- MCSkillsOf
    MaxAttempts = 2
    MaxReleases = 1
CHECK_DEADLOCK FALSE
INVARIANTS ExactlyOnce ClaimSound ReportsTruthful StageOrder
PROPERTIES SettledIsFinal ClaimedSettles
