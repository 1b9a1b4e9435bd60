---------------------------- MODULE JobLifecycle ----------------------------
(***************************************************************************)
(* What the download manager promises of each job, whatever workers,       *)
(* queues and locks are behind it (manager.go: the State constants, Config *)
(* and the comments of Enqueue, Pause, Resume and finish).                 *)
(***************************************************************************)
EXTENDS Integers

CONSTANT Jobs

VARIABLES
    state,      \* job -> State, "none" before Enqueue
    notified    \* job -> OnComplete has run

Terminal == {"succeeded", "failed", "dead"}

Init ==
    /\ state = [j \in Jobs |-> "none"]
    /\ notified = [j \in Jobs |-> FALSE]

Move(j, from, to) == state[j] \in from /\ state' = [state EXCEPT ![j] = to]

Accept(j)  == Move(j, {"none"}, "queued") /\ UNCHANGED notified
Attempt(j) == Move(j, {"queued", "retrying"}, "running") /\ UNCHANGED notified
Retry(j)   == Move(j, {"running"}, "retrying") /\ UNCHANGED notified
Suspend(j) == Move(j, {"queued", "running", "retrying"}, "paused") /\ UNCHANGED notified
Resume(j)  == Move(j, {"paused"}, "queued") /\ UNCHANGED notified
Finish(j)  == (\E t \in Terminal : Move(j, {"running"}, t)) /\ UNCHANGED notified
Notify(j)  ==
    /\ state[j] \in Terminal /\ ~notified[j]
    /\ notified' = [notified EXCEPT ![j] = TRUE]
    /\ UNCHANGED state

Next == \E j \in Jobs : \/ Accept(j) \/ Attempt(j) \/ Retry(j) \/ Suspend(j)
                        \/ Resume(j) \/ Finish(j) \/ Notify(j)

Spec == Init /\ [][Next]_<<state, notified>>
=============================================================================
