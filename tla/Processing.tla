----------------------------- MODULE Processing -----------------------------
(***************************************************************************)
(* The Processing Engine core (src/implementation/processing): concurrent  *)
(* Process calls claim a post, run its Skills in stage order with retry    *)
(* and backoff, mark the claim, emit lifecycle events and fire the         *)
(* completion callback.                                                    *)
(*                                                                         *)
(* A call is a process with a program counter; one action is the code      *)
(* between two points where another goroutine, the context or a Skill can  *)
(* interfere.  `epoch' and `wonAt' are history variables: the number of    *)
(* Releases of a post, and the epoch in which a call won its claim.        *)
(***************************************************************************)
EXTENDS Integers, Sequences, FiniteSets, SequencesExt

CONSTANTS
    Posts,         \* post ids
    Calls,         \* concurrent invocations of Processor.Process
    SkillsOf,      \* post -> the Skills SkillSet.Resolve returns, in its order
    MaxAttempts,   \* RetryPolicy.MaxAttempts
    MaxReleases    \* bound: explicit reprocess requests per post

Kinds == 0 .. 4    \* KindDownload .. KindReply: the integer is the precedence

ASSUME SkillsAssumption ==
    SkillsOf \in [Posts -> Seq([name : STRING, kind : Kinds])]
ASSUME AttemptsAssumption == MaxAttempts \in Int
ASSUME ReleasesAssumption == MaxReleases \in Nat

VARIABLES
    failFast,   \* Processor.failFast, fixed when the Processor is built
    claims,     \* MemoryClaimer.states; an absent id is "unclaimed"
    epoch,      \* history: how often the post's claim was Released
    early,      \* history: some Release met a run still in progress
    pc,         \* where each call is
    post,       \* the call's post
    alive,      \* ctx.Err() = nil for the call's context
    attempt,    \* runStep's loop variable
    lastCtx,    \* runStep's lastErr has the text of a context error
    results,    \* Result.Steps, as their outcomes
    canceled,   \* Process's ctxErr # nil
    wonAt,      \* history: epoch of the claim the call won, or -1
    lastEvent,  \* per call, the latest event handed to the EventEmitter
    callbacks   \* per call, the completion states handed to the Callbacker

postVars == <<failFast, claims, epoch, early>>
callVars == <<post, wonAt>>
stepVars == <<attempt, lastCtx>>
vars == <<postVars, callVars, pc, alive, stepVars, results, canceled, lastEvent,
          callbacks>>

ClaimStates == {"unclaimed", "processing", "done", "failed"}
Settled     == {"done", "failed"}
Outcomes    == {"succeeded", "dead"}
EventTypes  == {"post.claimed", "post.rejected", "step.started", "step.succeeded",
                "step.failed", "step.dead", "post.completed", "post.failed"}

(* What a Skill's error carries as far as the engine looks at it: whether  *)
(* it is wrapped by Permanent, and whether its text is that of             *)
(* context.Canceled or context.DeadlineExceeded.                           *)
RunErrors == [permanent : BOOLEAN, ctxText : BOOLEAN]

attempts == IF MaxAttempts < 1 THEN 1 ELSE MaxAttempts

(* Mutant: the order Resolve returned.                                     *)
Unordered(skills) == skills

(* The Skill at i comes before the one at j.                               *)
Ahead(skills, i, j) ==
    \/ skills[i].kind < skills[j].kind
    \/ skills[i].kind = skills[j].kind /\ i < j

(* sort.SliceStable by Kind, as the places the Skills had in the input.    *)
Sorted(skills) ==
    CHOOSE at \in [DOMAIN skills -> DOMAIN skills] :
        \A i, j \in DOMAIN skills : i < j => Ahead(skills, at[i], at[j])

OrderByPrecedence(skills) == [i \in DOMAIN skills |-> skills[Sorted(skills)[i]]]

StepsOf == [p \in Posts |-> OrderByPrecedence(SkillsOf[p])]
Steps(c) == StepsOf[post[c]]

isFailed(c) == \E i \in DOMAIN results[c] : results[c][i] = "dead"

-----------------------------------------------------------------------------

Init ==
    /\ failFast \in BOOLEAN
    /\ claims = [p \in Posts |-> "unclaimed"]
    /\ epoch = [p \in Posts |-> 0]
    /\ early = [p \in Posts |-> FALSE]
    /\ pc = [c \in Calls |-> "idle"]
    /\ post \in [Calls -> Posts]
    /\ alive = [c \in Calls |-> TRUE]
    /\ attempt = [c \in Calls |-> 0]
    /\ lastCtx = [c \in Calls |-> FALSE]
    /\ results = [c \in Calls |-> <<>>]
    /\ canceled = [c \in Calls |-> FALSE]
    /\ wonAt = [c \in Calls |-> -1]
    /\ lastEvent = [c \in Calls |-> "none"]
    /\ callbacks = [c \in Calls |-> <<>>]

Goto(c, from, to) == pc[c] = from /\ pc' = [pc EXCEPT ![c] = to]

Emit(c, type) == lastEvent' = [lastEvent EXCEPT ![c] = type]

(* Mutant: anything not in progress may be claimed again.                  *)
NotInProgress(p) == claims[p] # "processing"

Claimable(p) == claims[p] = "unclaimed"

(* Claimer.Claim under its mutex: only an absent id is claimed.            *)
Claim(c) ==
    LET p == post[c] IN
    /\ Claimable(p)
    /\ Goto(c, "idle", "step")
    /\ claims' = [claims EXCEPT ![p] = "processing"]
    /\ wonAt' = [wonAt EXCEPT ![c] = epoch[p]]
    /\ Emit(c, "post.claimed")
    /\ UNCHANGED <<failFast, epoch, early, post, alive, stepVars, results, canceled,
                   callbacks>>

Reject(c) ==
    /\ ~Claimable(post[c])
    /\ Goto(c, "idle", "returned")
    /\ Emit(c, "post.rejected")
    /\ UNCHANGED <<postVars, callVars, alive, stepVars, results, canceled, callbacks>>

(* The loop of Process: the next Skill of the ordered steps.               *)
StartStep(c) ==
    /\ Goto(c, "step", "attempt")
    /\ Len(results[c]) < Len(Steps(c))
    /\ attempt' = [attempt EXCEPT ![c] = 1]
    /\ Emit(c, "step.started")
    /\ UNCHANGED <<postVars, callVars, alive, lastCtx, results, canceled, callbacks>>

StepsDone(c) ==
    /\ Goto(c, "step", "mark")
    /\ Len(results[c]) >= Len(Steps(c))
    /\ UNCHANGED <<postVars, callVars, alive, stepVars, results, canceled, lastEvent,
                   callbacks>>

(* ctx.Err() is read before each attempt is spent.                         *)
RunSkill(c) ==
    /\ alive[c]
    /\ Goto(c, "attempt", "running")
    /\ UNCHANGED <<postVars, callVars, alive, stepVars, results, canceled, lastEvent,
                   callbacks>>

AttemptCanceled(c) ==
    /\ ~alive[c]
    /\ Goto(c, "attempt", "dead")
    /\ lastCtx' = [lastCtx EXCEPT ![c] = TRUE]
    /\ Emit(c, "step.failed")
    /\ UNCHANGED <<postVars, callVars, alive, attempt, results, canceled, callbacks>>

(* runStep returns: its locals are gone.                                   *)
EndStep(c, outcome) ==
    /\ results' = [results EXCEPT ![c] = Append(@, outcome)]
    /\ attempt' = [attempt EXCEPT ![c] = 0]
    /\ lastCtx' = [lastCtx EXCEPT ![c] = FALSE]

SkillSucceeds(c) ==
    /\ Goto(c, "running", "step")
    /\ EndStep(c, "succeeded")
    /\ Emit(c, "step.succeeded")
    /\ UNCHANGED <<postVars, callVars, alive, canceled, callbacks>>

SkillFails(c, err) ==
    /\ Goto(c, "running", IF err.permanent \/ attempt[c] >= attempts
                          THEN "dead" ELSE "backoff")
    /\ lastCtx' = [lastCtx EXCEPT ![c] = err.ctxText]
    /\ Emit(c, "step.failed")
    /\ UNCHANGED <<postVars, callVars, alive, attempt, results, canceled, callbacks>>

(* backoff: the select between the timer and ctx.Done().  With a dead      *)
(* context the timer may still win.                                        *)
BackoffElapses(c) ==
    /\ Goto(c, "backoff", "attempt")
    /\ attempt' = [attempt EXCEPT ![c] = @ + 1]
    /\ UNCHANGED <<postVars, callVars, alive, lastCtx, results, canceled, lastEvent,
                   callbacks>>

BackoffCanceled(c) ==
    /\ ~alive[c]
    /\ Goto(c, "backoff", "dead")
    /\ lastCtx' = [lastCtx EXCEPT ![c] = TRUE]
    /\ UNCHANGED <<postVars, callVars, alive, attempt, results, canceled, lastEvent,
                   callbacks>>

(* Mutant: a dead context returns from inside the loop.                    *)
AfterDeadReturning(c) ==
    IF lastCtx[c] /\ ~alive[c] THEN "returned"
    ELSE IF lastCtx[c] \/ failFast THEN "mark" ELSE "step"

AfterDead(c) == IF lastCtx[c] \/ failFast THEN "mark" ELSE "step"

(* The end of runStep for an abandoned step and what Process decides: a    *)
(* context-error text always stops the loop, and then ctxErr is whatever   *)
(* ctx.Err() says now.                                                     *)
StepDead(c) ==
    /\ Goto(c, "dead", AfterDead(c))
    /\ EndStep(c, "dead")
    /\ canceled' = [canceled EXCEPT ![c] = lastCtx[c] /\ ~alive[c]]
    /\ Emit(c, "step.dead")
    /\ UNCHANGED <<postVars, callVars, alive, callbacks>>

(* Mutant: only the last step decides.                                     *)
OutcomeOfLastStep(c) ==
    IF canceled[c] \/ (results[c] # <<>> /\ Last(results[c]) = "dead") THEN "failed" ELSE "done"

Outcome(c) == IF canceled[c] \/ isFailed(c) THEN "failed" ELSE "done"

(* MarkDone / MarkFailed: transition is a no-op on an absent id.           *)
Mark(c) ==
    LET p == post[c] IN
    /\ Goto(c, "mark", "emit")
    /\ claims' = [claims EXCEPT ![p] =
                    IF @ = "unclaimed" THEN @ ELSE Outcome(c)]
    /\ UNCHANGED <<failFast, epoch, early, callVars, alive, stepVars, results, canceled,
                   lastEvent, callbacks>>

(* Mutant: a canceled run calls back too.                                  *)
AlwaysCallback(c) == "callback"

AfterTerminal(c) == IF canceled[c] THEN "returned" ELSE "callback"

EmitTerminal(c) ==
    /\ Goto(c, "emit", AfterTerminal(c))
    /\ Emit(c, IF isFailed(c) THEN "post.failed" ELSE "post.completed")
    /\ UNCHANGED <<postVars, callVars, alive, stepVars, results, canceled, callbacks>>

(* fireCallback: one Notify whatever it returns; its error is returned to  *)
(* the caller of Process and nothing else depends on it.                   *)
FireCallback(c) ==
    /\ Goto(c, "callback", "returned")
    /\ callbacks' = [callbacks EXCEPT ![c] =
                       Append(@, IF isFailed(c) THEN "failed" ELSE "succeeded")]
    /\ UNCHANGED <<postVars, callVars, alive, stepVars, results, canceled, lastEvent>>

(* The caller's context is canceled or times out, at any moment.           *)
CancelContext(c) ==
    /\ alive[c] /\ pc[c] # "returned"
    /\ alive' = [alive EXCEPT ![c] = FALSE]
    /\ UNCHANGED <<postVars, callVars, pc, stepVars, results, canceled, lastEvent,
                   callbacks>>

(* MemoryClaimer.Release, the explicit reprocess trigger: it deletes the   *)
(* entry whatever its state.                                               *)
Release(p) ==
    /\ epoch[p] < MaxReleases
    /\ claims[p] # "unclaimed"
    /\ claims' = [claims EXCEPT ![p] = "unclaimed"]
    /\ epoch' = [epoch EXCEPT ![p] = @ + 1]
    /\ early' = [early EXCEPT ![p] = @ \/ claims[p] = "processing"]
    /\ UNCHANGED <<failFast, callVars, pc, alive, stepVars, results, canceled,
                   lastEvent, callbacks>>

(* A trigger calls Process.                                                *)
Trigger(c) == Claim(c) \/ Reject(c)

(* Everything the goroutine of a call does by itself from then on.         *)
Run(c) ==
    \/ StartStep(c) \/ StepsDone(c)
    \/ RunSkill(c) \/ AttemptCanceled(c)
    \/ SkillSucceeds(c) \/ \E err \in RunErrors : SkillFails(c, err)
    \/ BackoffElapses(c) \/ BackoffCanceled(c)
    \/ StepDead(c)
    \/ Mark(c) \/ EmitTerminal(c) \/ FireCallback(c)

Next ==
    \/ \E c \in Calls : Trigger(c) \/ Run(c) \/ CancelContext(c)
    \/ \E p \in Posts : Release(p)

Spec == Init /\ [][Next]_vars

(* The scheduler runs every goroutine and a Skill's Run, which receives    *)
(* the context, returns.  Nothing obliges anyone to trigger, cancel or     *)
(* Release.                                                                *)
Fairness == \A c \in Calls : WF_vars(Run(c))
FairSpec == Spec /\ Fairness

-----------------------------------------------------------------------------

Won(c) == wonAt[c] # -1
(* The call has passed its MarkDone/MarkFailed.                            *)
Marked(c) == Won(c) /\ pc[c] \in {"emit", "callback", "returned"}
(* Every Skill resolved for the post ran and succeeded.                    *)
RanClean(c) == ~isFailed(c) /\ Len(results[c]) >= Len(Steps(c))

PCs == {"idle", "step", "attempt", "running", "backoff", "dead", "mark", "emit",
        "callback", "returned"}

(* Every variable keeps to the values the code can store in it.            *)
TypeOK ==
    /\ failFast \in BOOLEAN
    /\ claims \in [Posts -> ClaimStates]
    /\ epoch \in [Posts -> Nat]
    /\ early \in [Posts -> BOOLEAN]
    /\ pc \in [Calls -> PCs]
    /\ post \in [Calls -> Posts]
    /\ alive \in [Calls -> BOOLEAN]
    /\ attempt \in [Calls -> Nat]
    /\ lastCtx \in [Calls -> BOOLEAN]
    /\ results \in [Calls -> Seq(Outcomes)]
    /\ canceled \in [Calls -> BOOLEAN]
    /\ wonAt \in [Calls -> Nat \cup {-1}]
    /\ lastEvent \in [Calls -> EventTypes \cup {"none"}]
    /\ callbacks \in [Calls -> Seq({"succeeded", "failed"})]

(* The exactly-once guarantee of Process: between two Releases of a post   *)
(* at most one call runs its Skills, however many triggers race.           *)
ExactlyOnce ==
    \A c, d \in Calls :
        Won(c) /\ Won(d) /\ post[c] = post[d] /\ wonAt[c] = wonAt[d] => c = d

(* What Claimer.State reports is true: a post shown as processing has a    *)
(* run of the current epoch that still has to mark it (no claim is ever    *)
(* orphaned), and one marked done or failed had a run that ended that way. *)
ClaimSound ==
    \A p \in Posts :
        /\ claims[p] = "processing" =>
             \E c \in Calls : post[c] = p /\ wonAt[c] = epoch[p] /\ ~Marked(c)
        /\ claims[p] \in Settled =>
             \E c \in Calls : /\ post[c] = p /\ Marked(c)
                              /\ (claims[p] = "done") <=> RanClean(c)

(* Whoever listens is told the truth, once, and after the claim was        *)
(* marked: post.completed and the "succeeded" callback mean that every     *)
(* resolved Skill succeeded; a run stopped by its dead context fires no    *)
(* callback, every other run that returns has fired exactly one.           *)
ReportsTruthful ==
    \A c \in Calls :
        /\ lastEvent[c] \in {"post.completed", "post.failed"} =>
             Marked(c) /\ (lastEvent[c] = "post.completed" <=> RanClean(c))
        /\ callbacks[c] # <<>> =>
             /\ lastEvent[c] \in {"post.completed", "post.failed"}
             /\ ~canceled[c] /\ Len(callbacks[c]) = 1
             /\ (callbacks[c][1] = "succeeded") <=> RanClean(c)
        /\ Won(c) /\ pc[c] = "returned" /\ ~canceled[c] => callbacks[c] # <<>>

(* Skills run in stage order, ties in the order Resolve gave them, none    *)
(* twice and none overtaken, even one registered twice; and with fail-fast *)
(* none runs after one died.  `at' are the places of those that ran.       *)
StageOrder ==
    \A c \in Calls : Won(c) =>
        LET ran == DOMAIN results[c]
            input == SkillsOf[post[c]]
        IN  /\ \E at \in [ran -> DOMAIN input] :
                 /\ \A i \in ran : Steps(c)[i] = input[at[i]]
                 /\ \A i, j \in ran : i < j => Ahead(input, at[i], at[j])
                 /\ \A i \in ran : \A k \in DOMAIN input :
                       (\A j \in ran : at[j] # k) => Ahead(input, at[i], k)
            /\ failFast => \A i \in ran : i < Len(results[c]) => results[c][i] = "succeeded"

(* A settled claim changes only by Release, as long as no Release of the   *)
(* post ever met a run in progress.  Release itself does not check: after  *)
(* an early one two runs overlap and the later mark wins.                  *)
SettledIsFinal ==
    [][\A p \in Posts : claims[p] \in Settled /\ claims'[p] # claims[p] =>
          epoch'[p] # epoch[p] \/ early[p]]_vars

(* Every claim that is won is settled or released: retries, backoff and    *)
(* cancellation never leave a post processing for ever.                    *)
ClaimedSettles ==
    \A c \in Calls : Won(c) ~> claims[post[c]] \in Settled \/ epoch[post[c]] > wonAt[c]

(* WithFailFast(false): "remaining steps still run (best-effort)": unless  *)
(* the caller's context died, every resolved Skill is started.             *)
BestEffortRunsAll ==
    \A c \in Calls :
        Marked(c) /\ ~failFast /\ alive[c] => Len(results[c]) = Len(Steps(c))
=============================================================================
