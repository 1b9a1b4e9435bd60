------------------------- MODULE CallbackTaskProofs -------------------------
(***************************************************************************)
(* Proofs about CallbackTask, for any tasks, callers, attempt ceiling and  *)
(* retry limit.  The inductive invariant is the conjunction of the three   *)
(* invariants and Held: that attempts stay within the ceiling (TypeOK)     *)
(* needs that a running task has attempts left (DeadLettersExact), and     *)
(* that only envelopes are delivered or recorded needs Held.               *)
(***************************************************************************)
EXTENDS CallbackTask, TLAPS

(* A caller that is delivering has an envelope to deliver.                 *)
Held == \A c \in Callers : pc[c] # "idle" => env[c] \in Envelopes

IInv == TypeOK /\ Held /\ NothingSilentlyLost /\ DeadLettersExact

LEMMA InitIInv == Init => IInv
<1>1. Init => TypeOK
  BY ConfigAssumption DEF Init, TypeOK, States
<1>2. Init => NothingSilentlyLost
  BY DEF Init, NothingSilentlyLost
<1>3. Init => DeadLettersExact
  BY ConfigAssumption DEF Init, DeadLettersExact
<1>4. Init => Held
  BY DEF Init, Held
<1>5. QED
  BY <1>1, <1>2, <1>3, <1>4 DEF IInv

(* What one call of a transition does to the parts Change governs.         *)
LEMMA ChangeTypes ==
    ASSUME TypeOK, Held, NEW c \in Callers, NEW t \in Tasks, NEW to \in States, Change(c, t, to)
    PROVE  /\ state' \in [Tasks -> States]
           /\ changes' \in [Tasks -> Nat]
           /\ env' \in [Callers -> Envelopes \cup {NoEnvelope}]
           /\ pc' \in [Callers -> {"idle", "request", "backoff", "failed"}]
           /\ Held'
           /\ UNCHANGED <<failures, request, received>>
<1>1. changes[t] + 1 \in Nat \ {0}
  BY DEF TypeOK
<1>2. [task |-> t, n |-> changes[t] + 1] \in Envelopes
  BY <1>1 DEF Envelopes
<1>3. Held'
  BY <1>2 DEF TypeOK, Held, Change
<1>4. QED
  BY <1>1, <1>2, <1>3 DEF TypeOK, Change

(* The new change is in its caller's hands, and every older one stays      *)
(* where it was: the caller had none.                                      *)
LEMMA ChangeLosesNothing ==
    ASSUME TypeOK, NothingSilentlyLost,
           NEW c \in Callers, NEW t \in Tasks, NEW to \in States, Change(c, t, to)
    PROVE  NothingSilentlyLost'
<1> SUFFICES ASSUME NEW u \in Tasks, NEW n \in 1 .. changes'[u]
             PROVE  \/ \E d \in Callers : pc'[d] # "idle" /\ env'[d] = [task |-> u, n |-> n]
                    \/ [task |-> u, n |-> n] \in received' \cup failures'
  BY DEF NothingSilentlyLost
<1>1. CASE u = t /\ n = changes[t] + 1
  <2>1. pc'[c] # "idle" /\ env'[c] = [task |-> u, n |-> n]
    BY <1>1 DEF TypeOK, Change
  <2>2. QED
    BY <2>1
<1>2. CASE ~(u = t /\ n = changes[t] + 1)
  <2>1. n \in 1 .. changes[u]
    BY <1>2 DEF TypeOK, Change
  <2>2. CASE [task |-> u, n |-> n] \in received \cup failures
    BY <2>2 DEF Change
  <2>3. CASE \E d \in Callers : pc[d] # "idle" /\ env[d] = [task |-> u, n |-> n]
    <3>1. PICK d \in Callers : pc[d] # "idle" /\ env[d] = [task |-> u, n |-> n]
      BY <2>3
    <3>2. d # c
      BY <3>1 DEF Change
    <3>3. pc'[d] = pc[d] /\ env'[d] = env[d]
      BY <3>2 DEF TypeOK, Change
    <3>4. QED
      BY <3>1, <3>3
  <2>4. QED
    BY <2>1, <2>2, <2>3 DEF NothingSilentlyLost
<1>3. QED
  BY <1>1, <1>2

(* A transition that does not fail the task leaves the attempts and the    *)
(* dead letters alone.                                                     *)
LEMMA QuietChange ==
    ASSUME IInv, NEW c \in Callers, NEW t \in Tasks,
           NEW to \in {"queued", "running", "succeeded"},
           state[t] \in {"none", "queued", "running", "retrying"},
           Change(c, t, to), UNCHANGED <<tries, dead>>,
           progress' \in [Tasks -> {"number", "NaN"}],
           updates' \in [Tasks -> Nat]
    PROVE  IInv'
<1>1. to \in States
  BY DEF States
<1>2. TypeOK' /\ Held'
  BY <1>1, ChangeTypes DEF IInv, TypeOK
<1>3. NothingSilentlyLost'
  BY <1>1, ChangeLosesNothing DEF IInv
<1>4. DeadLettersExact'
  <2>1. \A i, j \in DOMAIN dead' : dead'[i] = dead'[j] => i = j
    BY DEF IInv, DeadLettersExact
  <2>2. ASSUME NEW u \in Tasks
        PROVE  /\ state'[u] = "dead" <=> \E i \in DOMAIN dead' : dead'[i] = u
               /\ state'[u] = "dead" => tries'[u] = MaxAttempts
               /\ state'[u] \notin Terminal => tries'[u] < MaxAttempts
    <3>1. CASE u # t
      <4>1. state'[u] = state[u]
        BY <3>1 DEF IInv, TypeOK, Change
      <4>2. QED
        BY <4>1 DEF IInv, DeadLettersExact
    <3>2. CASE u = t
      <4>1. state'[u] = to
        BY <3>2 DEF IInv, TypeOK, Change
      <4>2. QED
        BY <3>2, <4>1 DEF IInv, DeadLettersExact, Terminal
    <3>3. QED
      BY <3>1, <3>2
  <2>3. QED
    BY <2>1, <2>2 DEF DeadLettersExact
<1>5. QED
  BY <1>2, <1>3, <1>4 DEF IInv

(* Fail: the one transition that spends an attempt, and, with the last     *)
(* one, adds a dead letter.                                                *)
LEMMA FailStep ==
    ASSUME IInv, NEW c \in Callers, NEW t \in Tasks, NEW retryable \in BOOLEAN,
           Fail(c, t, retryable)
    PROVE  IInv'
<1> DEFINE to == IF ~retryable THEN "failed" ELSE IF AttemptsLeft(t) THEN "retrying" ELSE "dead"
<1>1. /\ state[t] = "running"
      /\ tries' = [tries EXCEPT ![t] = @ + 1]
      /\ dead' = IF to = "dead" THEN Append(dead, t) ELSE dead
      /\ UNCHANGED <<progress, updates>>
      /\ Change(c, t, to)
  BY DEF Fail
<1>2. to \in States
  BY DEF States
<1>3. tries[t] < MaxAttempts /\ tries[t] \in Nat
  <2>1. state[t] \notin Terminal
    BY <1>1 DEF Terminal
  <2>2. tries[t] \in 0 .. MaxAttempts
    BY DEF IInv, TypeOK
  <2>3. QED
    BY <2>1, <2>2, ConfigAssumption DEF IInv, DeadLettersExact
<1>4. tries'[t] = tries[t] + 1 /\ state'[t] = to
  BY <1>1 DEF IInv, TypeOK, Change
<1>5. TypeOK' /\ Held'
  <2>1. tries' \in [Tasks -> 0 .. MaxAttempts]
    BY <1>1, <1>3, ConfigAssumption DEF IInv, TypeOK
  <2>2. dead' \in Seq(Tasks)
    BY <1>1 DEF IInv, TypeOK
  <2>3. QED
    BY <1>1, <1>2, <2>1, <2>2, ChangeTypes DEF IInv, TypeOK
<1>6. NothingSilentlyLost'
  BY <1>1, <1>2, ChangeLosesNothing DEF IInv
<1>7. DeadLettersExact'
  <2> HIDE DEF to
  <2>1. ~ \E i \in DOMAIN dead : dead[i] = t
    BY <1>1 DEF IInv, DeadLettersExact
  <2>0. to = "dead" => /\ DOMAIN dead' = DOMAIN dead \cup {Len(dead) + 1}
                       /\ Len(dead) + 1 \notin DOMAIN dead
                       /\ dead'[Len(dead) + 1] = t
                       /\ \A i \in DOMAIN dead : dead'[i] = dead[i]
    <3>1. dead \in Seq(Tasks) /\ (to = "dead" => dead' = Append(dead, t))
      BY <1>1 DEF IInv, TypeOK
    <3>2. QED
      BY <3>1
  <2>2. \A i, j \in DOMAIN dead' : dead'[i] = dead'[j] => i = j
    <3>1. CASE to = "dead"
      BY <2>0, <2>1, <3>1 DEF IInv, DeadLettersExact
    <3>2. CASE to # "dead"
      BY <1>1, <3>2 DEF IInv, DeadLettersExact
    <3>3. QED
      BY <3>1, <3>2
  <2>3. \A u \in Tasks : (\E i \in DOMAIN dead' : dead'[i] = u)
                           <=> (u = t /\ to = "dead") \/ \E i \in DOMAIN dead : dead[i] = u
    <3>1. CASE to = "dead"
      BY <2>0, <2>1, <3>1
    <3>2. CASE to # "dead"
      BY <1>1, <3>2
    <3>3. QED
      BY <3>1, <3>2
  <2>4. ASSUME NEW u \in Tasks
        PROVE  /\ state'[u] = "dead" <=> \E i \in DOMAIN dead' : dead'[i] = u
               /\ state'[u] = "dead" => tries'[u] = MaxAttempts
               /\ state'[u] \notin Terminal => tries'[u] < MaxAttempts
    <3>1. CASE u # t
      <4>1. state'[u] = state[u] /\ tries'[u] = tries[u]
        BY <1>1, <3>1 DEF IInv, TypeOK, Change
      <4>2. QED
        BY <2>3, <3>1, <4>1 DEF IInv, DeadLettersExact
    <3>2. CASE u = t
      <4>1. to = "dead" => tries[t] + 1 = MaxAttempts
        BY <1>3, ConfigAssumption DEF to, AttemptsLeft
      <4>2. to \notin Terminal => tries[t] + 1 < MaxAttempts
        BY <1>3 DEF to, AttemptsLeft, Terminal
      <4>3. QED
        BY <1>4, <2>1, <2>3, <3>2, <4>1, <4>2
    <3>3. QED
      BY <3>1, <3>2
  <2>5. QED
    BY <2>2, <2>4 DEF DeadLettersExact
<1>8. QED
  BY <1>5, <1>6, <1>7 DEF IInv

LEMMA CallStep ==
    ASSUME IInv, NEW c \in Callers, Call(c)
    PROVE  IInv'
<1>1. PICK t \in Tasks :
        \/ Submit(c, t) \/ Start(c, t) \/ Complete(c, t)
        \/ \E value \in {"number", "NaN"} : Progress(c, t, value)
        \/ \E retryable \in BOOLEAN : Fail(c, t, retryable)
  BY DEF Call
<1>2. CASE Submit(c, t)
  BY <1>2, QuietChange DEF Submit, IInv, TypeOK
<1>3. CASE Start(c, t)
  BY <1>3, QuietChange DEF Start, IInv, TypeOK
<1>4. CASE Complete(c, t)
  <2>1. progress' \in [Tasks -> {"number", "NaN"}]
    BY <1>4 DEF Complete, IInv, TypeOK
  <2>2. QED
    BY <1>4, <2>1, QuietChange DEF Complete, Completable, IInv, TypeOK
<1>5. ASSUME NEW value \in {"number", "NaN"}, Progress(c, t, value)
      PROVE  IInv'
  <2>1. /\ progress' \in [Tasks -> {"number", "NaN"}]
        /\ updates' \in [Tasks -> Nat]
    BY <1>5 DEF Progress, IInv, TypeOK
  <2>2. QED
    BY <1>5, <2>1, QuietChange DEF Progress
<1>6. ASSUME NEW retryable \in BOOLEAN, Fail(c, t, retryable)
      PROVE  IInv'
  BY <1>6, FailStep
<1>7. QED
  BY <1>1, <1>2, <1>3, <1>4, <1>5, <1>6

-----------------------------------------------------------------------------
(* Delivery.                                                               *)

LEMMA ReturnTypes ==
    ASSUME TypeOK, NEW c \in Callers, Return(c)
    PROVE  /\ pc' \in [Callers -> {"idle", "request", "backoff", "failed"}]
           /\ env' \in [Callers -> Envelopes \cup {NoEnvelope}]
           /\ request' \in [Callers -> {k \in Nat : k = 0 \/ k <= MaxRetries}]
BY DEF TypeOK, Return

LEMMA RetryTypes ==
    ASSUME TypeOK, NEW c \in Callers, Retry(c)
    PROVE  /\ pc' \in [Callers -> {"idle", "request", "backoff", "failed"}]
           /\ env' \in [Callers -> Envelopes \cup {NoEnvelope}]
           /\ request' \in [Callers -> {k \in Nat : k = 0 \/ k <= MaxRetries}]
<1>1. request[c] < MaxRetries => request[c] + 1 \in {k \in Nat : k = 0 \/ k <= MaxRetries}
  BY ConfigAssumption DEF TypeOK
<1>2. QED
  BY <1>1 DEF TypeOK, Retry

(* An envelope in a caller's hands is one: no other caller's is affected,  *)
(* and a caller that gives it up has delivered or recorded it.             *)
LEMMA DeliveryLosesNothing ==
    ASSUME TypeOK, NothingSilentlyLost, NEW c \in Callers,
           UNCHANGED changes,
           received \cup failures \subseteq received' \cup failures',
           \A d \in Callers \ {c} : pc'[d] = pc[d] /\ env'[d] = env[d],
           \/ pc'[c] # "idle" /\ env'[c] = env[c]
           \/ env[c] \in received' \cup failures'
    PROVE  NothingSilentlyLost'
<1> SUFFICES ASSUME NEW u \in Tasks, NEW n \in 1 .. changes[u]
             PROVE  \/ \E d \in Callers : pc'[d] # "idle" /\ env'[d] = [task |-> u, n |-> n]
                    \/ [task |-> u, n |-> n] \in received' \cup failures'
  BY DEF NothingSilentlyLost
<1>1. CASE [task |-> u, n |-> n] \in received \cup failures
  BY <1>1
<1>2. CASE \E d \in Callers : pc[d] # "idle" /\ env[d] = [task |-> u, n |-> n]
  <2>1. PICK d \in Callers : pc[d] # "idle" /\ env[d] = [task |-> u, n |-> n]
    BY <1>2
  <2>2. CASE d = c
    BY <2>1, <2>2
  <2>3. CASE d # c
    BY <2>1, <2>3
  <2>4. QED
    BY <2>2, <2>3
<1>3. QED
  BY <1>1, <1>2 DEF NothingSilentlyLost

(* A step of the delivery leaves the tasks and the other callers alone.    *)
LEMMA DeliverFrame ==
    ASSUME IInv, NEW c \in Callers, UNCHANGED taskVars,
           failures' \subseteq failures \cup {env[c]}, failures \subseteq failures',
           received' \subseteq received \cup {env[c]}, received \subseteq received',
           pc[c] # "idle",
           pc' \in [Callers -> {"idle", "request", "backoff", "failed"}],
           env' \in [Callers -> Envelopes \cup {NoEnvelope}],
           request' \in [Callers -> {k \in Nat : k = 0 \/ k <= MaxRetries}],
           \A d \in Callers \ {c} : pc'[d] = pc[d] /\ env'[d] = env[d],
           \/ pc'[c] # "idle" /\ env'[c] = env[c]
           \/ pc'[c] = "idle" /\ env[c] \in received' \cup failures'
    PROVE  IInv'
<1>1. env[c] \in Envelopes
  BY DEF IInv, Held
<1>2. TypeOK'
  BY <1>1 DEF IInv, TypeOK, taskVars
<1>3. Held'
  BY <1>1 DEF IInv, Held
<1>4. NothingSilentlyLost'
  BY DeliveryLosesNothing DEF IInv, taskVars
<1>5. DeadLettersExact'
  BY DEF IInv, DeadLettersExact, taskVars
<1>6. QED
  BY <1>2, <1>3, <1>4, <1>5 DEF IInv

LEMMA DeliverStep ==
    ASSUME IInv, NEW c \in Callers, Deliver(c)
    PROVE  IInv'
<1>0. TypeOK
  BY DEF IInv
<1>1. CASE Accepted(c)
  <2>1. \A d \in Callers \ {c} : pc'[d] = pc[d] /\ env'[d] = env[d]
    BY <1>0, <1>1 DEF Accepted, Return, TypeOK
  <2>2. pc'[c] = "idle" /\ received' = received \cup {env[c]} /\ UNCHANGED failures
    BY <1>0, <1>1 DEF Accepted, Return, Reach, TypeOK
  <2>3. QED
    BY <1>0, <1>1, <2>1, <2>2, ReturnTypes, DeliverFrame DEF Accepted
<1>2. CASE AnswerLost(c)
  <2>1. /\ \A d \in Callers \ {c} : pc'[d] = pc[d] /\ env'[d] = env[d]
        /\ pc'[c] # "idle" /\ env'[c] = env[c]
    BY <1>0, <1>2 DEF AnswerLost, Retry, TypeOK
  <2>2. received' = received \cup {env[c]} /\ UNCHANGED failures
    BY <1>2 DEF AnswerLost, Reach
  <2>3. QED
    BY <1>0, <1>2, <2>1, <2>2, RetryTypes, DeliverFrame DEF AnswerLost
<1>3. CASE Unreachable(c)
  <2>1. /\ \A d \in Callers \ {c} : pc'[d] = pc[d] /\ env'[d] = env[d]
        /\ pc'[c] # "idle" /\ env'[c] = env[c]
    BY <1>0, <1>3 DEF Unreachable, Retry, TypeOK
  <2>2. QED
    BY <1>0, <1>3, <2>1, RetryTypes, DeliverFrame DEF Unreachable
<1>4. CASE BackoffElapses(c)
  BY <1>0, <1>4, DeliverFrame DEF BackoffElapses, TypeOK
<1>5. CASE BackoffCanceled(c)
  BY <1>0, <1>5, DeliverFrame DEF BackoffCanceled, TypeOK
<1>6. CASE RecordFailure(c)
  <2>1. \A d \in Callers \ {c} : pc'[d] = pc[d] /\ env'[d] = env[d]
    BY <1>0, <1>6 DEF RecordFailure, Return, TypeOK
  <2>2. pc'[c] = "idle" /\ failures' = failures \cup {env[c]} /\ UNCHANGED received
    BY <1>0, <1>6 DEF RecordFailure, Return, TypeOK
  <2>3. QED
    BY <1>0, <1>6, <2>1, <2>2, ReturnTypes, DeliverFrame DEF RecordFailure
<1>7. QED
  BY <1>1, <1>2, <1>3, <1>4, <1>5, <1>6 DEF Deliver

LEMMA StutterIInv == IInv /\ UNCHANGED vars => IInv'
BY DEF IInv, TypeOK, Held, NothingSilentlyLost, DeadLettersExact, vars, taskVars, callVars

(* A finished task offers no transition to anybody.                        *)
LEMMA FinalStep == IInv /\ [Next]_vars =>
    \A t \in Tasks : state[t] \in Terminal => state'[t] = state[t] /\ changes'[t] = changes[t]
<1> SUFFICES ASSUME IInv, [Next]_vars, NEW t \in Tasks, state[t] \in Terminal
             PROVE  state'[t] = state[t] /\ changes'[t] = changes[t]
  OBVIOUS
<1>1. ASSUME NEW c \in Callers, Call(c)
      PROVE  state'[t] = state[t] /\ changes'[t] = changes[t]
  <2>1. PICK u \in Tasks : state[u] \notin Terminal /\ \E to \in States : Change(c, u, to)
    BY <1>1 DEF Call, Submit, Start, Progress, Complete, Completable, Fail, Terminal, States
  <2>2. QED
    BY <2>1 DEF Change, IInv, TypeOK
<1>2. ASSUME NEW c \in Callers, Deliver(c)
      PROVE  state'[t] = state[t] /\ changes'[t] = changes[t]
  BY <1>2 DEF Deliver, Accepted, AnswerLost, Unreachable, BackoffElapses, BackoffCanceled,
              RecordFailure, taskVars
<1>3. CASE UNCHANGED vars
  BY <1>3 DEF vars, taskVars
<1>4. QED
  BY <1>1, <1>2, <1>3 DEF Next

(* The invariant holds in every reachable state.                           *)
THEOREM Inductive == Spec => []IInv
<1>1. IInv /\ [Next]_vars => IInv'
  BY CallStep, DeliverStep, StutterIInv DEF Next
<1>2. QED
  BY InitIInv, <1>1, PTL DEF Spec

(* The variables keep to their types: attempts within the ceiling, retries *)
(* within the sink's limit.                                                *)
THEOREM TypeCorrect == Spec => []TypeOK
BY Inductive, PTL DEF IInv

(* No envelope is dropped on any path through the sink and the registry.   *)
THEOREM EveryChangeReported == Spec => []NothingSilentlyLost
BY Inductive, PTL DEF IInv

(* The dead-letter queue is the set of dead tasks, each once, and a task   *)
(* is dead exactly after its last attempt.                                 *)
THEOREM DeadLettersCorrect == Spec => []DeadLettersExact
BY Inductive, PTL DEF IInv

(* Among racing callers one finishes a task, and nobody touches it again.  *)
THEOREM FinishedStays == Spec => TerminalIsFinal
<1>1. IInv /\ [Next]_vars =>
        [\A t \in Tasks :
           state[t] \in Terminal => state'[t] = state[t] /\ changes'[t] = changes[t]]_vars
  BY FinalStep
<1>2. QED
  BY Inductive, <1>1, PTL DEF Spec, TerminalIsFinal
=============================================================================
