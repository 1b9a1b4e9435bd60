---------------------------- MODULE CallbackTask ----------------------------
(***************************************************************************)
(* The callback/task module (src/implementation/callback_task): a registry *)
(* of tasks changed under one lock, and the delivery of a status envelope  *)
(* after every change, outside the lock and on the caller's own path, by a *)
(* webhook sink that retries with backoff; the registry records what the   *)
(* sink could not deliver.                                                 *)
(*                                                                         *)
(* A caller is a goroutine in a call of the registry.  One action is one   *)
(* critical section, one HTTP exchange or one end of a backoff.  An        *)
(* envelope is known by its task and its number among the task's changes;  *)
(* of the progress value only that it may be NaN matters: NaN passes the   *)
(* range check of Progress and cannot be marshalled.                       *)
(***************************************************************************)
EXTENDS Integers, Sequences, FiniteSets, SequencesExt

CONSTANTS
    Tasks,
    Callers,      \* goroutines calling the registry
    MaxAttempts,  \* Registry.maxAttempts
    MaxRetries,   \* WebhookSink.MaxRetries; negative means no request at all
    MaxUpdates,   \* bound: Progress calls per task
    NoEnvelope

ASSUME ConfigAssumption ==
    /\ MaxAttempts \in Nat \ {0}
    /\ MaxRetries \in Int
    /\ MaxUpdates \in Nat

VARIABLES
    state,      \* Task.State, "none" before Submit
    tries,      \* Task.Attempts
    progress,   \* Task.Progress: "number" or "NaN"
    dead,       \* Registry.dead
    failures,   \* Registry.deliveryFailures, as the set of their envelopes
    changes,    \* history: how many changes the task has seen
    updates,    \* bound: how many of them by Progress
    pc,         \* where each caller is
    env,        \* the envelope a caller is delivering
    request,    \* deliver's loop variable
    received    \* history: the envelopes that reached the receiver

taskVars == <<state, tries, progress, dead, changes, updates>>
callVars == <<pc, env, request>>
vars == <<taskVars, failures, callVars, received>>

States   == {"none", "queued", "running", "succeeded", "failed", "retrying", "dead"}
Terminal == {"succeeded", "failed", "dead"}
Envelopes == [task : Tasks, n : Nat \ {0}]

Init ==
    /\ state = [t \in Tasks |-> "none"]
    /\ tries = [t \in Tasks |-> 0]
    /\ progress = [t \in Tasks |-> "number"]
    /\ dead = <<>>
    /\ failures = {}
    /\ changes = [t \in Tasks |-> 0]
    /\ updates = [t \in Tasks |-> 0]
    /\ pc = [c \in Callers |-> "idle"]
    /\ env = [c \in Callers |-> NoEnvelope]
    /\ request = [c \in Callers |-> 0]
    /\ received = {}

-----------------------------------------------------------------------------
(* The registry's transitions.                                             *)

(* The change under the lock, the snapshot, and the entry into Notify with *)
(* the context the caller brings.  An envelope that cannot be marshalled,  *)
(* and a sink that may not even try once, fail without a request; so does  *)
(* a sink with a malformed URL, which behaves like MaxRetries < 0.         *)
Change(c, t, to) ==
    /\ pc[c] = "idle"
    /\ state' = [state EXCEPT ![t] = to]
    /\ changes' = [changes EXCEPT ![t] = @ + 1]
    /\ env' = [env EXCEPT ![c] = [task |-> t, n |-> changes[t] + 1]]
    /\ pc' = [pc EXCEPT ![c] =
                IF progress'[t] = "NaN" \/ MaxRetries < 0 THEN "failed" ELSE "request"]
    /\ UNCHANGED <<failures, request, received>>

Submit(c, t) ==
    /\ state[t] = "none"
    /\ UNCHANGED <<tries, progress, dead, updates>>
    /\ Change(c, t, "queued")

Start(c, t) ==
    /\ state[t] \in {"queued", "retrying"}
    /\ UNCHANGED <<tries, progress, dead, updates>>
    /\ Change(c, t, "running")

(* Mutant: whatever is not succeeded yet may be completed.                 *)
CompletableUnlessDone(t) == state[t] \notin {"none", "succeeded"}

Completable(t) == state[t] = "running"

Progress(c, t, value) ==
    /\ state[t] = "running"
    /\ updates[t] < MaxUpdates
    /\ updates' = [updates EXCEPT ![t] = @ + 1]
    /\ progress' = [progress EXCEPT ![t] = value]
    /\ UNCHANGED <<tries, dead>>
    /\ Change(c, t, "running")

(* Completing a succeeded task again changes nothing and is not reported.  *)
Complete(c, t) ==
    /\ Completable(t)
    /\ progress' = [progress EXCEPT ![t] = "number"]
    /\ UNCHANGED <<tries, dead, updates>>
    /\ Change(c, t, "succeeded")

(* Mutant: one attempt beyond the ceiling.                                 *)
AttemptsLeftLate(t) == tries[t] + 1 <= MaxAttempts

(* t.Attempts < r.maxAttempts, after t.Attempts++.                         *)
AttemptsLeft(t) == tries[t] + 1 < MaxAttempts

Fail(c, t, retryable) ==
    LET to == IF ~retryable THEN "failed" ELSE IF AttemptsLeft(t) THEN "retrying" ELSE "dead"
    IN
    /\ state[t] = "running"
    /\ tries' = [tries EXCEPT ![t] = @ + 1]
    /\ dead' = IF to = "dead" THEN Append(dead, t) ELSE dead
    /\ UNCHANGED <<progress, updates>>
    /\ Change(c, t, to)

-----------------------------------------------------------------------------
(* WebhookSink.deliver and Registry.notify.                                *)

(* The call returns to the caller.                                          *)
Return(c) ==
    /\ pc' = [pc EXCEPT ![c] = "idle"]
    /\ env' = [env EXCEPT ![c] = NoEnvelope]
    /\ request' = [request EXCEPT ![c] = 0]

(* Mutant: the loop variable is never advanced.                            *)
RetryUncounted(c) ==
    /\ pc' = [pc EXCEPT ![c] = IF request[c] < MaxRetries THEN "backoff" ELSE "failed"]
    /\ UNCHANGED <<env, request>>

(* After a failed exchange: another retry, or the end of the loop.         *)
Retry(c) ==
    /\ IF request[c] < MaxRetries
       THEN /\ pc' = [pc EXCEPT ![c] = "backoff"]
            /\ request' = [request EXCEPT ![c] = @ + 1]
       ELSE /\ pc' = [pc EXCEPT ![c] = "failed"]
            /\ UNCHANGED request
    /\ UNCHANGED env

Reach(c) == received' = received \cup {env[c]}

(* A 2xx answer.                                                           *)
Accepted(c) ==
    /\ pc[c] = "request"
    /\ Reach(c)
    /\ Return(c)
    /\ UNCHANGED <<taskVars, failures>>

(* The receiver has the envelope, but the answer is lost or no 2xx.        *)
AnswerLost(c) ==
    /\ pc[c] = "request"
    /\ Reach(c)
    /\ Retry(c)
    /\ UNCHANGED <<taskVars, failures>>

Unreachable(c) ==
    /\ pc[c] = "request"
    /\ Retry(c)
    /\ UNCHANGED <<taskVars, failures, received>>

(* The select of the backoff.  The context may end at any moment, and does *)
(* not stop a request that is already answered or a timer that wins the    *)
(* select: what it can do is cancel a backoff, or fail an exchange.        *)
BackoffElapses(c) ==
    /\ pc[c] = "backoff"
    /\ pc' = [pc EXCEPT ![c] = "request"]
    /\ UNCHANGED <<taskVars, failures, env, request, received>>

(* Mutant: a cancelled backoff counts as delivered.                        *)
BackoffForgets(c) ==
    /\ pc[c] = "backoff"
    /\ Return(c)
    /\ UNCHANGED <<taskVars, failures, received>>

BackoffCanceled(c) ==
    /\ pc[c] = "backoff"
    /\ pc' = [pc EXCEPT ![c] = "failed"]
    /\ UNCHANGED <<taskVars, failures, env, request, received>>

(* recordDeliveryFailure, with the lock taken anew.                        *)
RecordFailure(c) ==
    /\ pc[c] = "failed"
    /\ failures' = failures \cup {env[c]}
    /\ Return(c)
    /\ UNCHANGED <<taskVars, received>>

-----------------------------------------------------------------------------

Call(c) ==
    \E t \in Tasks :
        \/ Submit(c, t) \/ Start(c, t) \/ Complete(c, t)
        \/ \E value \in {"number", "NaN"} : Progress(c, t, value)
        \/ \E retryable \in BOOLEAN : Fail(c, t, retryable)

Deliver(c) ==
    \/ Accepted(c) \/ AnswerLost(c) \/ Unreachable(c)
    \/ BackoffElapses(c) \/ BackoffCanceled(c)
    \/ RecordFailure(c)

Next == \E c \in Callers : Call(c) \/ Deliver(c)

Spec == Init /\ [][Next]_vars

(* A caller's goroutine goes on, timers fire, and every exchange ends: the *)
(* receiver answers, the connection fails, or the Client's Timeout or the  *)
(* context's deadline ends it (http.DefaultClient has no timeout: with it  *)
(* and no deadline this is the receiver's promise).  Nobody has to call.   *)
Fairness == \A c \in Callers : WF_vars(Deliver(c))
FairSpec == Spec /\ Fairness

-----------------------------------------------------------------------------

(* Every variable keeps to the values the code can store in it.            *)
TypeOK ==
    /\ state \in [Tasks -> States]
    /\ tries \in [Tasks -> 0 .. MaxAttempts]
    /\ progress \in [Tasks -> {"number", "NaN"}]
    /\ dead \in Seq(Tasks)
    /\ failures \subseteq Envelopes
    /\ changes \in [Tasks -> Nat]
    /\ updates \in [Tasks -> Nat]
    /\ pc \in [Callers -> {"idle", "request", "backoff", "failed"}]
    /\ env \in [Callers -> Envelopes \cup {NoEnvelope}]
    /\ request \in [Callers -> {k \in Nat : k = 0 \/ k <= MaxRetries}]
    /\ received \subseteq Envelopes

(* "observable, never silently lost": the envelope of every change is      *)
(* being delivered, or reached the receiver, or is listed in               *)
(* DeliveryFailures, however callers race and contexts end.                *)
NothingSilentlyLost ==
    \A t \in Tasks : \A n \in 1 .. changes[t] :
        \/ \E c \in Callers : pc[c] # "idle" /\ env[c] = [task |-> t, n |-> n]
        \/ [task |-> t, n |-> n] \in received \cup failures

(* The dead-letter queue holds exactly the dead tasks, each once; a task   *)
(* is dead exactly when its last allowed attempt failed for a reason that  *)
(* could be retried, and goes on only while attempts are left.             *)
DeadLettersExact ==
    /\ \A i, j \in DOMAIN dead : dead[i] = dead[j] => i = j
    /\ \A t \in Tasks :
         /\ state[t] = "dead" <=> \E i \in DOMAIN dead : dead[i] = t
         /\ state[t] = "dead" => tries[t] = MaxAttempts
         /\ state[t] \notin Terminal => tries[t] < MaxAttempts

(* A finished task neither changes nor is reported again: of racing        *)
(* Complete and Fail calls one wins and the others change nothing.         *)
TerminalIsFinal ==
    [][\A t \in Tasks :
          state[t] \in Terminal => state'[t] = state[t] /\ changes'[t] = changes[t]]_vars

(* Every call of the registry returns: its delivery succeeds or is given   *)
(* up and recorded.                                                        *)
CallReturns == \A c \in Callers : pc[c] # "idle" ~> pc[c] = "idle"
=============================================================================
