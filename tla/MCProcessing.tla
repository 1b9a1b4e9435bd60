---------------------------- MODULE MCProcessing ----------------------------
(* Two Skills of one stage behind a later one, registered out of order: the *)
(* smallest input on which stage order, stability and fail-fast differ.     *)
EXTENDS Processing

Skill(n, k) == [name |-> n, kind |-> k]

MCSkillsOf == [p \in Posts |-> <<Skill("reply", 4), Skill("video", 0), Skill("audio", 0)>>]
MCTwoSkills == [p \in Posts |-> <<Skill("analyze", 2), Skill("reply", 4)>>]
=============================================================================
