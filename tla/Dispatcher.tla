------------------------------ MODULE Dispatcher -----------------------------
(***************************************************************************)
(* The skill dispatch engine (skill_dispatch): concurrent Process calls    *)
(* claim a post, run its skills by precedence with retries, stop at the    *)
(* first dead step, settle the claim and report to one event sink.         *)
(*                                                                         *)
(* It differs from Processing in what it promises its sink: the claim, the *)
(* settlement and every Emit are steps of their own, and a post may be     *)
(* released and claimed anew before the call that settled it has reported. *)
(***************************************************************************)
EXTENDS Integers, Sequences, FiniteSets

CONSTANTS
    DPosts,
    Triggers,       \* calls of Process
    Registered,     \* post -> the kinds of its matching skills, as registered
    Attempts,       \* RetryPolicy.attempts()
    DReleases       \* bound: reprocess requests of a post

DKinds == 1 .. 5    \* download, convert, analyze, research, reply

ASSUME DispatcherAssumption ==
    Attempts \in Nat \ {0} /\ Registered \in [DPosts -> Seq(DKinds)] /\ DReleases \in Nat

VARIABLES
    states,     \* ClaimRegistry.states
    trigger,    \* by call: [at, post, alive, step, attempt, failed, canceled]
    sink,       \* history: by call, the events it emitted: [type, kind]
    early,      \* history: by post, its releases while it was being processed
    releases    \* history: by post, all its releases

dispatchVars == <<states, trigger, sink, early, releases>>

DispatchInit ==
    /\ states = [p \in DPosts |-> "unclaimed"]
    /\ trigger \in [Triggers -> [at : {"start"}, post : DPosts, alive : {TRUE}, step : {1},
                                 attempt : {0}, failed : {FALSE}, ctxText : {FALSE},
                                 canceled : {FALSE}]]
    /\ sink = [t \in Triggers |-> <<>>]
    /\ early = [p \in DPosts |-> 0] /\ releases = [p \in DPosts |-> 0]

----------------------------------------------------------------------------
Goes(t, at) == trigger' = [trigger EXCEPT ![t].at = at]
Emit(t, type, kind) == sink' = [sink EXCEPT ![t] = Append(@, [type |-> type, kind |-> kind])]

(* SliceStable by kind.                                                    *)
AsRegistered(kinds) == kinds
(* The places the skills had when they were registered.                    *)
Sorted(kinds) ==
    CHOOSE at \in [DOMAIN kinds -> DOMAIN kinds] : \A i, j \in DOMAIN kinds :
        i < j => \/ kinds[at[i]] < kinds[at[j]]
                 \/ kinds[at[i]] = kinds[at[j]] /\ at[i] < at[j]
OrderByPrecedence(kinds) == [i \in DOMAIN kinds |-> kinds[Sorted(kinds)[i]]]

StepsOf == [p \in DPosts |-> OrderByPrecedence(Registered[p])]
Steps(t) == StepsOf[trigger[t].post]
Kind(t)  == Steps(t)[trigger[t].step]

Claim(t) ==
    LET p == trigger[t].post IN
    /\ trigger[t].at = "start"
    /\ IF states[p] = "unclaimed"
       THEN states' = [states EXCEPT ![p] = "processing"] /\ Goes(t, "claimed")
       ELSE UNCHANGED states /\ Goes(t, "rejected")
    /\ UNCHANGED <<sink, early, releases>>

EmitClaim(t) ==
    /\ trigger[t].at \in {"claimed", "rejected"}
    /\ Emit(t, trigger[t].at, 0)
    /\ Goes(t, IF trigger[t].at = "claimed" THEN "step" ELSE "end")
    /\ UNCHANGED <<states, early, releases>>

(* runStep.                                                                *)
StartStep(t) ==
    /\ trigger[t].at = "step"
    /\ IF trigger[t].step > Len(Steps(t))
       THEN Goes(t, "settle") /\ UNCHANGED sink
       ELSE /\ Emit(t, "started", Kind(t))
            /\ trigger' = [trigger EXCEPT ![t].at = "attempt", ![t].attempt = 1]
    /\ UNCHANGED <<states, early, releases>>

Dies(t, ctxText) == trigger' = [trigger EXCEPT ![t].at = "dead", ![t].ctxText = ctxText]

(* The skill succeeds, or fails: for good or not, and perhaps with the     *)
(* text of a context's error.                                              *)
Run(t) ==
    /\ trigger[t].at = "attempt"
    /\ \/ ~trigger[t].alive /\ Emit(t, "failed", Kind(t)) /\ Dies(t, TRUE)
       \/ /\ trigger[t].alive
          /\ Emit(t, "succeeded", Kind(t))
          /\ trigger' = [trigger EXCEPT ![t].at = "step", ![t].step = @ + 1]
       \/ /\ trigger[t].alive
          /\ Emit(t, "failed", Kind(t))
          /\ \E permanent, ctxText \in BOOLEAN :
               IF permanent \/ trigger[t].attempt = Attempts
               THEN Dies(t, ctxText) ELSE Goes(t, "backoff")
    /\ UNCHANGED <<states, early, releases>>

Backoff(t) ==
    /\ trigger[t].at = "backoff"
    /\ \/ trigger' = [trigger EXCEPT ![t].at = "attempt", ![t].attempt = @ + 1]
       \/ ~trigger[t].alive /\ Dies(t, TRUE)
    /\ UNCHANGED <<states, sink, early, releases>>

(* The dead step's event, and Process's ctxErr: ctx.Err() if the text says *)
(* so.                                                                     *)
EmitDead(t) ==
    /\ trigger[t].at = "dead"
    /\ Emit(t, "dead", Kind(t))
    /\ trigger' = [trigger EXCEPT ![t].at = "settle", ![t].failed = TRUE,
                                  ![t].canceled = trigger[t].ctxText /\ ~trigger[t].alive,
                                  ![t].ctxText = FALSE]
    /\ UNCHANGED <<states, early, releases>>

(* MarkDone or MarkFailed: no-ops on a post that is not claimed.           *)
Settle(t) ==
    LET p == trigger[t].post IN
    /\ trigger[t].at = "settle"
    /\ states' = [states EXCEPT ![p] = IF @ = "unclaimed" THEN @
                                       ELSE IF trigger[t].failed THEN "failed" ELSE "done"]
    /\ Goes(t, "report")
    /\ UNCHANGED <<sink, early, releases>>

Report(t) ==
    /\ trigger[t].at = "report"
    /\ Emit(t, IF trigger[t].failed THEN "post_failed" ELSE "post_completed", 0)
    /\ Goes(t, "end")
    /\ UNCHANGED <<states, early, releases>>

CancelTrigger(t) ==
    /\ trigger[t].at # "end" /\ trigger[t].alive
    /\ trigger' = [trigger EXCEPT ![t].alive = FALSE]
    /\ UNCHANGED <<states, sink, early, releases>>

(* The explicit reprocess request deletes the claim, whatever its state.   *)
Release(p) ==
    /\ states[p] # "unclaimed" /\ releases[p] < DReleases
    /\ releases' = [releases EXCEPT ![p] = @ + 1]
    /\ early' = [early EXCEPT ![p] = @ + IF states[p] = "processing" THEN 1 ELSE 0]
    /\ states' = [states EXCEPT ![p] = "unclaimed"]
    /\ UNCHANGED <<trigger, sink>>

Process(t) == \/ Claim(t) \/ EmitClaim(t) \/ StartStep(t) \/ Run(t) \/ Backoff(t)
              \/ EmitDead(t) \/ Settle(t) \/ Report(t)

DispatchNext == \/ \E t \in Triggers : Process(t) \/ CancelTrigger(t)
                \/ \E p \in DPosts : Release(p)

DispatchSpec == DispatchInit /\ [][DispatchNext]_dispatchVars

----------------------------------------------------------------------------
States == {"unclaimed", "processing", "done", "failed"}
At == {"start", "claimed", "rejected", "step", "attempt", "backoff", "dead", "settle", "report", "end"}
EventTypes == {"claimed", "rejected", "started", "succeeded", "failed", "dead", "post_failed",
               "post_completed"}
DispatchTypeOK ==
    /\ states \in [DPosts -> States] /\ early \in [DPosts -> Nat] /\ releases \in [DPosts -> Nat]
    /\ trigger \in [Triggers -> [at : At, post : DPosts, alive : BOOLEAN, step : Nat, attempt : Nat,
                                 failed : BOOLEAN, ctxText : BOOLEAN, canceled : BOOLEAN]]
    /\ sink \in [Triggers -> Seq([type : EventTypes, kind : DKinds \cup {0}])]

Working(t) == trigger[t].at \in {"claimed", "step", "attempt", "backoff", "dead", "settle"}
Succeeded(t) == {i \in DOMAIN sink[t] : sink[t][i].type = "succeeded"}
Emitted(t, type) == \E i \in DOMAIN sink[t] : sink[t][i].type = type

(* How many skills of a kind succeeded in a call, and how many match.      *)
Ran(t, kind)   == Cardinality({i \in Succeeded(t) : sink[t][i].kind = kind})
Asked(t, kind) == LET matching == Registered[trigger[t].post] IN
                  Cardinality({k \in DOMAIN matching : matching[k] = kind})

(* The calls that won the claim of a post, and those that work on it.      *)
Won(t) == trigger[t].at = "claimed" \/ Emitted(t, "claimed")
Winners(p) == {t \in Triggers : Won(t) /\ trigger[t].post = p}
Workers(p) == {t \in Triggers : Working(t) /\ trigger[t].post = p}

(* However triggers and releases mix, a post is claimed once, and once     *)
(* more for each release.  While it is being processed a call works on it, *)
(* and no more work than that one and one for each release that came too   *)
(* early: the mark of the first call, which then settles another call's    *)
(* claim, lets in nobody.                                                  *)
Worked(p) ==
    LET claims    == IF states[p] = "unclaimed" THEN 0 ELSE 1
        processed == IF states[p] = "processing" THEN 1 ELSE 0 IN
    /\ Cardinality(Winners(p)) = releases[p] + claims
    /\ processed <= Cardinality(Workers(p))
    /\ Cardinality(Workers(p)) <= early[p] + processed

(* What a call tells the sink is what happened: completed when each        *)
(* matching skill succeeded once; failed when a step died, after every     *)
(* skill of an earlier stage, not every one of its own and none of a later *)
(* stage; rejected when it did nothing.                                    *)
Told(t) ==
    LET done == Succeeded(t) IN
    /\ \A i, j \in done : i < j => sink[t][i].kind <= sink[t][j].kind
    /\ Emitted(t, "post_completed") =>
         ~Emitted(t, "dead") /\ \A kind \in DKinds : Ran(t, kind) = Asked(t, kind)
    /\ Emitted(t, "post_failed") =>
         \E dead \in DOMAIN sink[t] :
           /\ sink[t][dead].type = "dead"
           /\ \A i \in done : i < dead
           /\ \A kind \in DKinds :
                /\ kind < sink[t][dead].kind => Ran(t, kind) = Asked(t, kind)
                /\ kind = sink[t][dead].kind => Ran(t, kind) < Asked(t, kind)
                /\ kind > sink[t][dead].kind => Ran(t, kind) = 0
    /\ Emitted(t, "rejected") => done = {} /\ ~Emitted(t, "started")
    /\ trigger[t].canceled => ~trigger[t].alive

(* Worked of every post and Told of every call.                            *)
DispatchedOnce == (\A p \in DPosts : Worked(p)) /\ (\A t \in Triggers : Told(t))
=============================================================================
