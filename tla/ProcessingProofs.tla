-------------------------- MODULE ProcessingProofs --------------------------
(***************************************************************************)
(* Exactly-once claiming, proved for any posts, calls, Skills and retry    *)
(* policy.  The inductive invariant ties each call's program counter to    *)
(* the claim it won: who holds the claim of the current epoch, who may     *)
(* still overwrite it, and what a run that reached its mark has recorded.  *)
(***************************************************************************)
EXTENDS Processing, CountingLemmas, TLAPS

(* A call is a winner exactly from its claim on, never of a later epoch.   *)
CallsInv ==
    \A c \in Calls :
        /\ Won(c) => pc[c] # "idle" /\ wonAt[c] <= epoch[post[c]]
        /\ ~Won(c) => pc[c] \in {"idle", "returned"}

(* An unclaimed post has no winner yet in its current epoch.               *)
UnclaimedInv ==
    \A c \in Calls : Won(c) /\ claims[post[c]] = "unclaimed" => wonAt[c] # epoch[post[c]]

(* Without an early Release a run in progress holds the post's claim.      *)
HolderInv ==
    \A c \in Calls : Won(c) /\ ~Marked(c) /\ ~early[post[c]] =>
        wonAt[c] = epoch[post[c]] /\ claims[post[c]] = "processing"

(* A run ends because every step was run or because one died.              *)
EndInv ==
    \A c \in Calls :
        /\ Won(c) /\ pc[c] \in {"mark", "emit", "callback", "returned"} =>
              isFailed(c) \/ Len(results[c]) >= Len(Steps(c))
        /\ canceled[c] => isFailed(c)

IInv == TypeOK /\ CallsInv /\ UnclaimedInv /\ ExactlyOnce /\ HolderInv /\ EndInv
          /\ ClaimSound

(* The terminal event and the callback of a call go with where it is.      *)
Reported(c) == lastEvent[c] \in {"post.completed", "post.failed"}
ReportSound(c) ==
    /\ Reported(c) => /\ Won(c) /\ pc[c] \in {"callback", "returned"}
                      /\ (lastEvent[c] = "post.completed") <=> ~isFailed(c)
    /\ Won(c) /\ pc[c] \in {"callback", "returned"} => Reported(c)
    /\ pc[c] = "callback" => ~canceled[c]
    /\ callbacks[c] # <<>> => /\ Won(c) /\ pc[c] = "returned" /\ ~canceled[c]
                              /\ Len(callbacks[c]) = 1
                              /\ (callbacks[c][1] = "succeeded") <=> ~isFailed(c)
    /\ Won(c) /\ pc[c] = "returned" /\ ~canceled[c] => callbacks[c] # <<>>

(* How far a call is in its steps, and that fail-fast stops at a dead one. *)
InLoop == {"step", "attempt", "running", "backoff", "dead"}
RunSound(c) ==
    /\ pc[c] = "idle" => results[c] = <<>>
    /\ Len(results[c]) <= Len(Steps(c))
    /\ pc[c] \in InLoop \ {"step"} => Len(results[c]) < Len(Steps(c))
    /\ failFast /\ pc[c] \in InLoop => ~isFailed(c)
    /\ failFast => \A i \in DOMAIN results[c] :
                      i < Len(results[c]) => results[c][i] = "succeeded"

RunsInv == \A c \in Calls : ReportSound(c) /\ RunSound(c)

-----------------------------------------------------------------------------

(* Every action keeps the variables in their types.                        *)
LEMMA TypeStep == TypeOK /\ [Next]_vars => TypeOK'
<1> SUFFICES ASSUME TypeOK, [Next]_vars PROVE TypeOK'
  OBVIOUS
<1> USE DEF TypeOK, PCs, ClaimStates, Outcomes, EventTypes, Goto, Emit, EndStep,
            postVars, callVars, stepVars, Claimable, AfterDead, Outcome, AfterTerminal
<1>1. ASSUME NEW c \in Calls, Claim(c) PROVE TypeOK'
  BY <1>1 DEF Claim
<1>2. ASSUME NEW c \in Calls, Reject(c) PROVE TypeOK'
  BY <1>2 DEF Reject
<1>3. ASSUME NEW c \in Calls, StartStep(c) PROVE TypeOK'
  BY <1>3 DEF StartStep
<1>4. ASSUME NEW c \in Calls, StepsDone(c) PROVE TypeOK'
  BY <1>4 DEF StepsDone
<1>5. ASSUME NEW c \in Calls, RunSkill(c) PROVE TypeOK'
  BY <1>5 DEF RunSkill
<1>6. ASSUME NEW c \in Calls, AttemptCanceled(c) PROVE TypeOK'
  BY <1>6 DEF AttemptCanceled
<1>7. ASSUME NEW c \in Calls, SkillSucceeds(c) PROVE TypeOK'
  BY <1>7 DEF SkillSucceeds
<1>8. ASSUME NEW c \in Calls, BackoffElapses(c) PROVE TypeOK'
  BY <1>8 DEF BackoffElapses
<1>9. ASSUME NEW c \in Calls, BackoffCanceled(c) PROVE TypeOK'
  BY <1>9 DEF BackoffCanceled
<1>10. ASSUME NEW c \in Calls, StepDead(c) PROVE TypeOK'
  BY <1>10 DEF StepDead
<1>11. ASSUME NEW c \in Calls, Mark(c) PROVE TypeOK'
  BY <1>11 DEF Mark
<1>12. ASSUME NEW c \in Calls, EmitTerminal(c) PROVE TypeOK'
  BY <1>12 DEF EmitTerminal
<1>13. ASSUME NEW c \in Calls, FireCallback(c) PROVE TypeOK'
  BY <1>13 DEF FireCallback
<1>14. ASSUME NEW c \in Calls, CancelContext(c) PROVE TypeOK'
  BY <1>14 DEF CancelContext
<1>15. ASSUME NEW c \in Calls, NEW err \in RunErrors, SkillFails(c, err) PROVE TypeOK'
  BY <1>15 DEF SkillFails, RunErrors
<1>16. ASSUME NEW p \in Posts, Release(p) PROVE TypeOK'
  BY <1>16 DEF Release
<1>17. CASE UNCHANGED vars
  BY <1>17 DEF vars
<1>18. QED
  BY <1>1, <1>2, <1>3, <1>4, <1>5, <1>6, <1>7, <1>8, <1>9, <1>10, <1>11, <1>12, <1>13, <1>14, <1>15, <1>16, <1>17 DEF Next, Trigger, Run

(* A step that leaves the claims, what each call won and which calls have   *)
(* marked alone keeps everything that relates calls to claims.              *)
Framed ==
    /\ UNCHANGED <<claims, epoch, early, post, wonAt>>
    /\ \A d \in Calls : /\ Marked(d)' <=> Marked(d)
                        /\ Marked(d) => results'[d] = results[d]

(* Such a step keeps the four invariants about claims.                     *)
LEMMA FramedStep ==
    ASSUME IInv, Framed
    PROVE  UnclaimedInv' /\ ExactlyOnce' /\ HolderInv' /\ ClaimSound'
<1> USE DEF Framed, Won
<1>1. UnclaimedInv'
  BY DEF IInv, UnclaimedInv
<1>2. ExactlyOnce'
  BY DEF IInv, ExactlyOnce
<1>3. HolderInv'
  BY DEF IInv, HolderInv
<1>4. \A d \in Calls : Marked(d) => (RanClean(d)' <=> RanClean(d))
  BY DEF RanClean, isFailed, Steps
<1>5. ClaimSound'
  BY <1>4 DEF IInv, ClaimSound, Settled
<1>6. QED
  BY <1>1, <1>2, <1>3, <1>5

(* The steps of a call between its claim and its mark, and after its mark.  *)
Local(c) ==
    \/ Reject(c)
    \/ StartStep(c)
    \/ StepsDone(c)
    \/ RunSkill(c)
    \/ AttemptCanceled(c)
    \/ SkillSucceeds(c)
    \/ BackoffElapses(c)
    \/ BackoffCanceled(c)
    \/ StepDead(c)
    \/ EmitTerminal(c)
    \/ FireCallback(c)
    \/ CancelContext(c)
    \/ \E err \in RunErrors : SkillFails(c, err)

(* Such steps are framed and keep what is said of each call by itself.      *)
LEMMA LocalStep ==
    ASSUME TypeOK, CallsInv, EndInv, NEW c \in Calls, Local(c)
    PROVE  Framed /\ CallsInv' /\ EndInv'
<1> USE DEF TypeOK, Goto, Emit, EndStep, postVars, callVars, stepVars, AfterDead,
            AfterTerminal
<1>1. Framed
  <2>1. CASE Reject(c)
    BY <2>1 DEF Reject, Framed, Marked, Won, CallsInv
  <2>2. CASE StartStep(c)
    BY <2>2 DEF StartStep, Framed, Marked, Won, CallsInv
  <2>3. CASE StepsDone(c)
    BY <2>3 DEF StepsDone, Framed, Marked, Won, CallsInv
  <2>4. CASE RunSkill(c)
    BY <2>4 DEF RunSkill, Framed, Marked, Won, CallsInv
  <2>5. CASE AttemptCanceled(c)
    BY <2>5 DEF AttemptCanceled, Framed, Marked, Won, CallsInv
  <2>6. CASE SkillSucceeds(c)
    BY <2>6 DEF SkillSucceeds, Framed, Marked, Won, CallsInv
  <2>7. CASE BackoffElapses(c)
    BY <2>7 DEF BackoffElapses, Framed, Marked, Won, CallsInv
  <2>8. CASE BackoffCanceled(c)
    BY <2>8 DEF BackoffCanceled, Framed, Marked, Won, CallsInv
  <2>9. CASE StepDead(c)
    BY <2>9 DEF StepDead, Framed, Marked, Won, CallsInv
  <2>10. CASE EmitTerminal(c)
    BY <2>10 DEF EmitTerminal, Framed, Marked, Won, CallsInv
  <2>11. CASE FireCallback(c)
    BY <2>11 DEF FireCallback, Framed, Marked, Won, CallsInv
  <2>12. CASE CancelContext(c)
    BY <2>12 DEF CancelContext, Framed, Marked, Won, CallsInv
  <2>13. ASSUME NEW err \in RunErrors, SkillFails(c, err) PROVE Framed
    BY <2>13 DEF SkillFails, Framed, Marked, Won, CallsInv
  <2>14. QED
    BY <2>1, <2>2, <2>3, <2>4, <2>5, <2>6, <2>7, <2>8, <2>9, <2>10, <2>11, <2>12, <2>13 DEF Local
<1>2. CallsInv'
  <2>1. CASE Reject(c)
    BY <2>1 DEF Reject, CallsInv, Won
  <2>2. CASE StartStep(c)
    BY <2>2 DEF StartStep, CallsInv, Won
  <2>3. CASE StepsDone(c)
    BY <2>3 DEF StepsDone, CallsInv, Won
  <2>4. CASE RunSkill(c)
    BY <2>4 DEF RunSkill, CallsInv, Won
  <2>5. CASE AttemptCanceled(c)
    BY <2>5 DEF AttemptCanceled, CallsInv, Won
  <2>6. CASE SkillSucceeds(c)
    BY <2>6 DEF SkillSucceeds, CallsInv, Won
  <2>7. CASE BackoffElapses(c)
    BY <2>7 DEF BackoffElapses, CallsInv, Won
  <2>8. CASE BackoffCanceled(c)
    BY <2>8 DEF BackoffCanceled, CallsInv, Won
  <2>9. CASE StepDead(c)
    BY <2>9 DEF StepDead, CallsInv, Won
  <2>10. CASE EmitTerminal(c)
    BY <2>10 DEF EmitTerminal, CallsInv, Won
  <2>11. CASE FireCallback(c)
    BY <2>11 DEF FireCallback, CallsInv, Won
  <2>12. CASE CancelContext(c)
    BY <2>12 DEF CancelContext, CallsInv, Won
  <2>13. ASSUME NEW err \in RunErrors, SkillFails(c, err) PROVE CallsInv'
    BY <2>13 DEF SkillFails, CallsInv, Won
  <2>14. QED
    BY <2>1, <2>2, <2>3, <2>4, <2>5, <2>6, <2>7, <2>8, <2>9, <2>10, <2>11, <2>12, <2>13 DEF Local
<1>3. EndInv'
  <2>1. CASE Reject(c)
    BY <2>1 DEF Reject, EndInv, CallsInv, Won, isFailed, Steps, Outcomes
  <2>2. CASE StartStep(c)
    BY <2>2 DEF StartStep, EndInv, CallsInv, Won, isFailed, Steps, Outcomes
  <2>3. CASE StepsDone(c)
    BY <2>3 DEF StepsDone, EndInv, CallsInv, Won, isFailed, Steps, Outcomes
  <2>4. CASE RunSkill(c)
    BY <2>4 DEF RunSkill, EndInv, CallsInv, Won, isFailed, Steps, Outcomes
  <2>5. CASE AttemptCanceled(c)
    BY <2>5 DEF AttemptCanceled, EndInv, CallsInv, Won, isFailed, Steps, Outcomes
  <2>6. CASE SkillSucceeds(c)
    <3>1. \A d \in Calls : isFailed(d) => isFailed(d)'
      <4>1. ASSUME NEW d \in Calls, NEW i \in DOMAIN results[d], results[d][i] = "dead"
            PROVE  i \in DOMAIN results'[d] /\ results'[d][i] = "dead"
        BY <2>6, <4>1 DEF SkillSucceeds
      <4>2. QED
        BY <4>1 DEF isFailed
    <3>2. \A d \in Calls : d # c => UNCHANGED results[d] /\ Steps(d)' = Steps(d)
      BY <2>6 DEF SkillSucceeds, Steps
    <3>3. QED
      BY <2>6, <3>1, <3>2 DEF SkillSucceeds, EndInv, Won
  <2>7. CASE BackoffElapses(c)
    BY <2>7 DEF BackoffElapses, EndInv, CallsInv, Won, isFailed, Steps, Outcomes
  <2>8. CASE BackoffCanceled(c)
    BY <2>8 DEF BackoffCanceled, EndInv, CallsInv, Won, isFailed, Steps, Outcomes
  <2>9. CASE StepDead(c)
    <3>1. isFailed(c)'
      <4>1. /\ Len(results[c]) + 1 \in DOMAIN results'[c]
            /\ results'[c][Len(results[c]) + 1] = "dead"
        BY <2>9 DEF StepDead
      <4>2. QED
        BY <4>1 DEF isFailed
    <3>2. \A d \in Calls : d # c => UNCHANGED <<results[d], canceled[d], pc[d]>>
      BY <2>9 DEF StepDead
    <3>3. \A d \in Calls : d # c => Steps(d)' = Steps(d) /\ isFailed(d)' = isFailed(d)
      BY <2>9, <3>2 DEF StepDead, Steps, isFailed
    <3>4. QED
      BY <2>9, <3>1, <3>2, <3>3 DEF StepDead, EndInv, Won
  <2>10. CASE EmitTerminal(c)
    BY <2>10 DEF EmitTerminal, EndInv, CallsInv, Won, isFailed, Steps, Outcomes
  <2>11. CASE FireCallback(c)
    BY <2>11 DEF FireCallback, EndInv, CallsInv, Won, isFailed, Steps, Outcomes
  <2>12. CASE CancelContext(c)
    BY <2>12 DEF CancelContext, EndInv, CallsInv, Won, isFailed, Steps, Outcomes
  <2>13. ASSUME NEW err \in RunErrors, SkillFails(c, err) PROVE EndInv'
    BY <2>13 DEF SkillFails, EndInv, Won, isFailed, Steps, Outcomes
  <2>14. QED
    BY <2>1, <2>2, <2>3, <2>4, <2>5, <2>6, <2>7, <2>8, <2>9, <2>10, <2>11, <2>12, <2>13 DEF Local
<1>4. QED
  BY <1>1, <1>2, <1>3

(* Every action keeps the invariant.                                        *)
LEMMA IInvStep == IInv /\ [Next]_vars => IInv'
<1> SUFFICES ASSUME IInv, [Next]_vars PROVE IInv'
  OBVIOUS
<1>0. TypeOK'
  BY TypeStep DEF IInv
<1>1. ASSUME NEW c \in Calls, Local(c) PROVE IInv'
  BY <1>0, <1>1, LocalStep, FramedStep DEF IInv
<1>2. ASSUME NEW c \in Calls, Claim(c) PROVE IInv'
  <2> USE <1>2 DEF Claim, Claimable, IInv, TypeOK, Goto, Won, callVars
  <2>1. CallsInv'
    BY DEF CallsInv
  <2>2. UnclaimedInv'
    BY DEF UnclaimedInv, ExactlyOnce, CallsInv
  <2>3. ExactlyOnce'
    BY DEF UnclaimedInv, ExactlyOnce, CallsInv
  <2>4. HolderInv'
    BY DEF HolderInv, Marked
  <2>5. EndInv'
    BY DEF EndInv, isFailed, Steps
  <2>6. ClaimSound'
    <3>1. \A d \in Calls : RanClean(d)' <=> RanClean(d)
      BY DEF RanClean, isFailed, Steps
    <3>2. ~Marked(c) /\ ~Marked(c)'
      BY DEF Marked
    <3>3. \A d \in Calls : d # c => (Marked(d)' <=> Marked(d)) /\ wonAt'[d] = wonAt[d]
      BY DEF Marked
    <3>4. ~Won(c)
      BY DEF CallsInv
    <3>5. wonAt'[c] = epoch[post[c]] /\ \A p \in Posts : p # post[c] => claims'[p] = claims[p]
      OBVIOUS
    <3>6. \A p \in Posts : claims[p] = "processing" /\ p # post[c] =>
             \E d \in Calls : post[d] = p /\ wonAt'[d] = epoch[p] /\ ~Marked(d)'
      <4> SUFFICES ASSUME NEW p \in Posts, claims[p] = "processing", p # post[c]
                   PROVE  \E d \in Calls : post[d] = p /\ wonAt'[d] = epoch[p] /\ ~Marked(d)'
        OBVIOUS
      <4>1. PICK d \in Calls : post[d] = p /\ wonAt[d] = epoch[p] /\ ~Marked(d)
        BY DEF ClaimSound
      <4>2. d # c
        BY <4>1
      <4>3. QED
        BY <3>3, <4>1, <4>2
    <3>7. QED
      BY <3>1, <3>2, <3>3, <3>5, <3>6 DEF ClaimSound, Settled
  <2>7. QED
    BY <1>0, <2>1, <2>2, <2>3, <2>4, <2>5, <2>6
<1>3. ASSUME NEW c \in Calls, Mark(c) PROVE IInv'
  <2> USE <1>3 DEF Mark, Outcome, IInv, TypeOK, Goto, Won, callVars
  <2>1. CallsInv'
    BY DEF CallsInv
  <2>2. UnclaimedInv'
    BY DEF UnclaimedInv
  <2>3. ExactlyOnce'
    BY DEF ExactlyOnce
  <2>0. /\ Won(c) /\ ~Marked(c) /\ Marked(c)'
        /\ \A d \in Calls : d # c => (Marked(d)' <=> Marked(d))
    BY DEF Marked, CallsInv
  <2>4. HolderInv'
    <3>1. \A d \in Calls : d # c /\ post[d] = post[c] /\ Won(d) /\ ~Marked(d) => early[post[c]]
      BY <2>0 DEF HolderInv, ExactlyOnce
    <3>2. QED
      BY <2>0, <3>1 DEF HolderInv
  <2>5. EndInv'
    BY DEF EndInv, isFailed, Steps, CallsInv
  <2>6. ClaimSound'
    <3>1. \A d \in Calls : RanClean(d)' <=> RanClean(d)
      BY DEF RanClean, isFailed, Steps
    <3>2. claims'[post[c]] \in Settled => (claims'[post[c]] = "done" <=> RanClean(c))
      BY <2>0 DEF EndInv, RanClean, Settled
    <3>3. claims'[post[c]] # "processing"
      OBVIOUS
    <3>4. ASSUME NEW p \in Posts, p # post[c]
          PROVE  /\ claims'[p] = claims[p]
                 /\ \A d \in Calls : post[d] = p => (Marked(d)' <=> Marked(d))
      BY <2>0, <3>4
    <3>5. ASSUME NEW p \in Posts
          PROVE  /\ claims'[p] = "processing" =>
                      \E d \in Calls : post[d] = p /\ wonAt[d] = epoch[p] /\ ~Marked(d)'
                 /\ claims'[p] \in Settled =>
                      \E d \in Calls : /\ post[d] = p /\ Marked(d)'
                                       /\ (claims'[p] = "done") <=> RanClean(d)
      <4>1. CASE p = post[c]
        BY <2>0, <3>2, <3>3, <4>1
      <4>2. CASE p # post[c]
        <5>1. ClaimSound /\ claims'[p] = claims[p]
          BY <3>4, <4>2
        <5>2. \A d \in Calls : post[d] = p => (Marked(d)' <=> Marked(d))
          BY <3>4, <4>2
        <5> HIDE <1>3
        <5> HIDE DEF Mark, Outcome, IInv, TypeOK, Goto, Won, callVars
        <5>3. QED
          BY <5>1, <5>2 DEF ClaimSound
      <4>3. QED
        BY <4>1, <4>2
    <3>6. post' = post /\ wonAt' = wonAt /\ epoch' = epoch
      OBVIOUS
    <3> HIDE <1>3
    <3> HIDE DEF Mark, Outcome, IInv, TypeOK, Goto, Won, callVars
    <3>7. QED
      BY <3>1, <3>5, <3>6 DEF ClaimSound
  <2>7. QED
    BY <1>0, <2>1, <2>2, <2>3, <2>4, <2>5, <2>6
<1>4. ASSUME NEW p \in Posts, Release(p) PROVE IInv'
  <2> USE <1>4 DEF Release, IInv, TypeOK, Won, callVars
  <2>1. CallsInv'
    BY DEF CallsInv
  <2>2. UnclaimedInv'
    BY DEF UnclaimedInv, CallsInv
  <2>3. ExactlyOnce'
    BY DEF ExactlyOnce
  <2>0. \A d \in Calls : (Marked(d)' <=> Marked(d)) /\ (RanClean(d)' <=> RanClean(d))
    BY DEF Marked, RanClean, isFailed, Steps
  <2>4. HolderInv'
    BY <2>0 DEF HolderInv
  <2>5. EndInv'
    BY DEF EndInv, isFailed, Steps
  <2>6. ClaimSound'
    BY <2>0 DEF ClaimSound, Settled
  <2>7. QED
    BY <1>0, <2>1, <2>2, <2>3, <2>4, <2>5, <2>6
<1>5. CASE UNCHANGED vars
  <2>1. Framed /\ CallsInv' /\ EndInv'
    BY <1>5 DEF vars, postVars, callVars, stepVars, Framed, Marked, Won, IInv, CallsInv,
                EndInv, isFailed, Steps
  <2>2. QED
    BY <1>0, <2>1, FramedStep DEF IInv
<1>6. QED
  BY <1>1, <1>2, <1>3, <1>4, <1>5 DEF Next, Trigger, Run, Local

(* The invariant holds before anything is triggered.                       *)
LEMMA IInvInit == Init => IInv
<1> SUFFICES ASSUME Init PROVE IInv
  OBVIOUS
<1> USE DEF Init
<1>1. TypeOK
  BY DEF TypeOK, ClaimStates, PCs
<1>2. CallsInv /\ UnclaimedInv /\ ExactlyOnce /\ HolderInv /\ EndInv /\ ClaimSound
  BY DEF CallsInv, UnclaimedInv, ExactlyOnce, HolderInv, EndInv, ClaimSound, Won, Settled
<1>3. QED
  BY <1>1, <1>2 DEF IInv

-----------------------------------------------------------------------------
(* The stage order of any input, however long and with Skills registered   *)
(* twice.                                                                  *)
LEMMA SortedOrder ==
    ASSUME NEW skills \in Seq([name : STRING, kind : Kinds])
    PROVE  LET n == Len(skills)
               at == Sorted(skills)
           IN  /\ n \in Nat /\ DOMAIN skills = 1 .. n
               /\ at \in [1 .. n -> 1 .. n]
               /\ \A i, j \in 1 .. n : i < j => Ahead(skills, at[i], at[j])
               /\ \A k \in 1 .. n : \E i \in 1 .. n : at[i] = k
               /\ Len(OrderByPrecedence(skills)) = n
<1> DEFINE n == Len(skills)
           key == [i \in 1 .. n |-> skills[i].kind]
           at == Sorted(skills)
<1>1. n \in Nat /\ DOMAIN skills = 1 .. n
  OBVIOUS
<1>2. \A i \in 1 .. n : key[i] = skills[i].kind /\ key[i] \in Int
  <2>1. ASSUME NEW i \in 1 .. n PROVE skills[i].kind \in Kinds
    <3>1. skills[i] \in [name : STRING, kind : Kinds]
      BY ElementOfSeq
    <3>2. QED
      BY <3>1
  <2>2. Kinds \subseteq Int
    BY DEF Kinds
  <2>3. QED
    BY <2>1, <2>2
<1>3. ASSUME NEW q \in [1 .. n -> 1 .. n]
      PROVE  StableOrder(key, n, q)
                <=> \A i, j \in 1 .. n : i < j => Ahead(skills, q[i], q[j])
  <2>1. \A i \in 1 .. n : key[q[i]] = skills[q[i]].kind
    BY <1>2, <1>3
  <2>2. ASSUME NEW i \in 1 .. n, NEW j \in 1 .. n
        PROVE  (\/ key[q[i]] < key[q[j]]
                \/ key[q[i]] = key[q[j]] /\ q[i] < q[j])
                 <=> Ahead(skills, q[i], q[j])
    <3>1. key[q[i]] = skills[q[i]].kind /\ key[q[j]] = skills[q[j]].kind
      BY <2>1
    <3> HIDE DEF n, key
    <3>2. QED
      BY <3>1 DEF Ahead
  <2> HIDE DEF n, key
  <2>3. QED
    BY <2>2, Zenon DEF StableOrder
<1>4. /\ \E q \in [1 .. n -> 1 .. n] : StableOrder(key, n, q)
      /\ \A q \in [1 .. n -> 1 .. n] :
            StableOrder(key, n, q) => \A k \in 1 .. n : \E i \in 1 .. n : q[i] = k
  <2> HIDE DEF n, key
  <2>1. QED
    BY <1>1, <1>2, StableSort, Zenon
<1>5. at \in [1 .. n -> 1 .. n] /\ \A i, j \in 1 .. n : i < j => Ahead(skills, at[i], at[j])
  <2> HIDE DEF n, key
  <2>1. \E q \in [1 .. n -> 1 .. n] : \A i, j \in 1 .. n : i < j => Ahead(skills, q[i], q[j])
    BY <1>3, <1>4
  <2>2. QED
    BY <1>1, <2>1 DEF Sorted
<1>6. \A k \in 1 .. n : \E i \in 1 .. n : at[i] = k
  <2> HIDE DEF n, key, at
  <2>1. QED
    BY <1>3, <1>4, <1>5
<1>7. Len(OrderByPrecedence(skills)) = n
  BY <1>1 DEF OrderByPrecedence
<1>8. QED
  BY <1>1, <1>5, <1>6, <1>7

(* A call's steps are the Skills of its post in that order.                *)
LEMMA StepsSorted ==
    ASSUME TypeOK, NEW c \in Calls
    PROVE  LET input == SkillsOf[post[c]]
               at == Sorted(input)
               n == Len(input)
           IN  /\ n \in Nat /\ Len(Steps(c)) = n /\ Len(Steps(c)) \in Nat /\ DOMAIN input = 1 .. n
               /\ at \in [1 .. n -> 1 .. n]
               /\ \A i, j \in 1 .. n : i < j => Ahead(input, at[i], at[j])
               /\ \A k \in 1 .. n : \E i \in 1 .. n : at[i] = k
               /\ \A i \in 1 .. n : Steps(c)[i] = input[at[i]]
<1>1. post[c] \in Posts
  BY DEF TypeOK
<1>2. PICK input \in Seq([name : STRING, kind : Kinds]) : input = SkillsOf[post[c]]
  BY <1>1, SkillsAssumption
<1>3. Steps(c) = OrderByPrecedence(input)
  BY <1>1, <1>2 DEF Steps, StepsOf
<1>4. /\ Len(input) \in Nat /\ Len(Steps(c)) = Len(input) /\ DOMAIN input = 1 .. Len(input)
      /\ Sorted(input) \in [1 .. Len(input) -> 1 .. Len(input)]
      /\ \A i, j \in 1 .. Len(input) :
            i < j => Ahead(input, Sorted(input)[i], Sorted(input)[j])
      /\ \A k \in 1 .. Len(input) : \E i \in 1 .. Len(input) : Sorted(input)[i] = k
  BY <1>3, SortedOrder
<1>5. \A i \in 1 .. Len(input) : Steps(c)[i] = input[Sorted(input)[i]]
  BY <1>3, <1>4 DEF OrderByPrecedence
<1>6. QED
  BY <1>2, <1>4, <1>5

-----------------------------------------------------------------------------
(* What each call reports, and the order its Skills run in.                *)

(* All that a call's own part of the invariant looks at.                   *)
Kept(d) ==
    UNCHANGED <<failFast, pc[d], results[d], canceled[d], wonAt[d], post[d], lastEvent[d],
                callbacks[d]>>

LEMMA KeptSound ==
    ASSUME NEW d \in Calls, ReportSound(d), RunSound(d), Kept(d)
    PROVE  ReportSound(d)' /\ RunSound(d)'
<1>1. (Won(d)' <=> Won(d)) /\ (isFailed(d)' <=> isFailed(d)) /\ Steps(d)' = Steps(d)
  BY DEF Kept, Won, isFailed, Steps
<1>2. ReportSound(d)'
  BY <1>1 DEF ReportSound, Reported, Kept
<1>3. RunSound(d)'
  BY <1>1 DEF RunSound, Kept
<1>4. QED
  BY <1>2, <1>3

(* A goroutine changes nothing of another call.                            *)
LEMMA OthersKept ==
    ASSUME TypeOK, NEW c \in Calls, Local(c) \/ Claim(c) \/ Mark(c), NEW d \in Calls, d # c
    PROVE  Kept(d)
<1> USE DEF TypeOK, Goto, Emit, EndStep, postVars, callVars, stepVars, Kept
<1>1. CASE Reject(c)
  BY <1>1 DEF Reject
<1>2. CASE StartStep(c)
  BY <1>2 DEF StartStep
<1>3. CASE StepsDone(c)
  BY <1>3 DEF StepsDone
<1>4. CASE RunSkill(c)
  BY <1>4 DEF RunSkill
<1>5. CASE AttemptCanceled(c)
  BY <1>5 DEF AttemptCanceled
<1>6. CASE SkillSucceeds(c)
  BY <1>6 DEF SkillSucceeds
<1>7. CASE BackoffElapses(c)
  BY <1>7 DEF BackoffElapses
<1>8. CASE BackoffCanceled(c)
  BY <1>8 DEF BackoffCanceled
<1>9. CASE StepDead(c)
  BY <1>9 DEF StepDead
<1>10. CASE EmitTerminal(c)
  BY <1>10 DEF EmitTerminal
<1>11. CASE FireCallback(c)
  BY <1>11 DEF FireCallback
<1>12. CASE CancelContext(c)
  BY <1>12 DEF CancelContext
<1>13. ASSUME NEW err \in RunErrors, SkillFails(c, err) PROVE Kept(d)
  BY <1>13 DEF SkillFails
<1>14. CASE Claim(c)
  BY <1>14 DEF Claim
<1>15. CASE Mark(c)
  BY <1>15 DEF Mark
<1>16. QED
  BY <1>1, <1>2, <1>3, <1>4, <1>5, <1>6, <1>7, <1>8, <1>9, <1>10, <1>11, <1>12, <1>13, <1>14, <1>15 DEF Local

(* The end of a step appends its outcome.                                  *)
LEMMA OutcomeAppended ==
    ASSUME TypeOK, NEW c \in Calls, NEW o \in Outcomes, EndStep(c, o)
    PROVE  /\ Len(results'[c]) = Len(results[c]) + 1 /\ Len(results[c]) \in Nat
           /\ DOMAIN results'[c] = 1 .. Len(results[c]) + 1
           /\ DOMAIN results[c] = 1 .. Len(results[c])
           /\ \A i \in DOMAIN results[c] : results'[c][i] = results[c][i]
           /\ results'[c][Len(results[c]) + 1] = o
           /\ isFailed(c)' <=> isFailed(c) \/ o = "dead"
<1>1. results[c] \in Seq(Outcomes) /\ results'[c] = Append(results[c], o)
  BY DEF TypeOK, EndStep
<1>2. PICK q \in Seq(Outcomes) : q = results[c]
  BY <1>1
<1>3. PICK r : r = Append(q, o)
  OBVIOUS
<1>4. /\ Len(r) = Len(q) + 1 /\ Len(q) \in Nat /\ DOMAIN q = 1 .. Len(q)
      /\ DOMAIN r = 1 .. Len(q) + 1
      /\ r[Len(q) + 1] = o /\ \A i \in DOMAIN q : r[i] = q[i]
  BY <1>2, <1>3
<1>5. (\E i \in DOMAIN r : r[i] = "dead") <=> (\E i \in DOMAIN q : q[i] = "dead") \/ o = "dead"
  BY <1>4
<1>6. isFailed(c) <=> \E i \in DOMAIN q : q[i] = "dead"
  BY <1>2 DEF isFailed
<1>7. isFailed(c)' <=> \E i \in DOMAIN r : r[i] = "dead"
  BY <1>1, <1>2, <1>3 DEF isFailed
<1>8. QED
  BY <1>1, <1>2, <1>3, <1>4, <1>5, <1>6, <1>7

LEMMA StepEnds ==
    ASSUME TypeOK, CallsInv, NEW c \in Calls, ReportSound(c), RunSound(c),
           SkillSucceeds(c) \/ StepDead(c)
    PROVE  ReportSound(c)' /\ RunSound(c)'
<1>1. PICK o \in Outcomes :
        /\ EndStep(c, o) /\ failFast' = failFast /\ post' = post /\ wonAt' = wonAt
        /\ callbacks' = callbacks /\ pc[c] \in {"running", "dead"}
        /\ lastEvent'[c] \in {"step.succeeded", "step.dead"}
        /\ pc'[c] \in {"step", "mark"}
        /\ o = "dead" /\ pc'[c] = "step" => ~failFast
  <2>1. CASE SkillSucceeds(c)
    <3>1. EndStep(c, "succeeded")
      BY <2>1 DEF SkillSucceeds
    <3>2. QED
      BY <2>1, <3>1 DEF SkillSucceeds, Outcomes, Goto, Emit, TypeOK, postVars, callVars
  <2>2. CASE StepDead(c)
    <3>1. EndStep(c, "dead")
      BY <2>2 DEF StepDead
    <3>2. QED
      BY <2>2, <3>1 DEF StepDead, Outcomes, Goto, Emit, TypeOK, postVars, callVars, AfterDead
  <2>3. QED
    BY <2>1, <2>2
<1>2. Steps(c)' = Steps(c) /\ (Won(c)' <=> Won(c)) /\ Won(c)
  BY <1>1 DEF Steps, Won, CallsInv
<1>3. ReportSound(c)'
  BY <1>1, <1>2 DEF ReportSound, Reported
<1>4. PICK n : n = Len(results[c])
  OBVIOUS
<1>5. /\ n \in Nat /\ Len(results'[c]) = n + 1 /\ DOMAIN results'[c] = 1 .. n + 1
      /\ DOMAIN results[c] = 1 .. n
      /\ \A i \in 1 .. n : results'[c][i] = results[c][i]
      /\ results'[c][n + 1] = o
      /\ isFailed(c)' <=> isFailed(c) \/ o = "dead"
  BY <1>1, <1>4, OutcomeAppended
<1>6. n < Len(Steps(c)) /\ (failFast => ~isFailed(c))
  BY <1>1, <1>4 DEF RunSound, InLoop
<1>7. failFast => \A i \in 1 .. n : results[c][i] = "succeeded"
  <2>1. \A i \in 1 .. n : results[c][i] \in {"succeeded", "dead"}
    BY <1>5 DEF TypeOK, Outcomes
  <2>2. QED
    BY <1>5, <1>6, <2>1 DEF isFailed
<1>8. RunSound(c)'
  <2>1. Len(results'[c]) <= Len(Steps(c))'
    <3>1. Len(Steps(c)) \in Nat
      BY StepsSorted
    <3>2. QED
      BY <1>2, <1>5, <1>6, <3>1
  <2>2. failFast' => \A i \in DOMAIN results'[c] :
                        i < Len(results'[c]) => results'[c][i] = "succeeded"
    BY <1>1, <1>5, <1>7
  <2>3. failFast' /\ pc'[c] \in InLoop => ~isFailed(c)'
    BY <1>1, <1>5, <1>6 DEF InLoop
  <2>4. pc'[c] # "idle" /\ pc'[c] \notin InLoop \ {"step"}
    BY <1>1 DEF InLoop
  <2>5. QED
    BY <2>1, <2>2, <2>3, <2>4 DEF RunSound
<1>9. QED
  BY <1>3, <1>8

(* The other steps of a call, each with what it leaves of the call.        *)
LEMMA OwnStep ==
    ASSUME TypeOK, CallsInv, EndInv, NEW c \in Calls, ReportSound(c), RunSound(c),
           Local(c) \/ Claim(c) \/ Mark(c)
    PROVE  ReportSound(c)' /\ RunSound(c)'
<1>1. CASE SkillSucceeds(c) \/ StepDead(c)
  BY <1>1, StepEnds
<1>2. ASSUME NEW err \in RunErrors, SkillFails(c, err) PROVE ReportSound(c)' /\ RunSound(c)'
  <2>1. /\ UNCHANGED <<failFast, results, canceled, wonAt, post, callbacks>>
        /\ pc[c] = "running" /\ pc'[c] \in {"dead", "backoff"} /\ lastEvent'[c] = "step.failed"
    BY <1>2 DEF SkillFails, Goto, Emit, TypeOK, postVars, callVars
  <2>2. (Won(c)' <=> Won(c)) /\ (isFailed(c)' <=> isFailed(c)) /\ Steps(c)' = Steps(c)
    BY <2>1 DEF Won, isFailed, Steps
  <2>3. ReportSound(c)'
    BY <2>1, <2>2 DEF ReportSound, Reported
  <2>4. RunSound(c)'
    BY <2>1, <2>2 DEF RunSound, InLoop
  <2>5. QED
    BY <2>3, <2>4
<1>3. CASE Claim(c)
  <2>1. /\ UNCHANGED <<failFast, results, canceled, post, callbacks>>
        /\ pc[c] = "idle" /\ pc'[c] = "step" /\ lastEvent'[c] = "post.claimed"
    BY <1>3 DEF Claim, Goto, Emit, TypeOK, stepVars
  <2>2. (isFailed(c)' <=> isFailed(c)) /\ Steps(c)' = Steps(c)
    BY <2>1 DEF isFailed, Steps
  <2>3. results[c] = <<>> /\ ~isFailed(c)
    BY <2>1 DEF RunSound, isFailed
  <2>4. ReportSound(c)'
    BY <2>1, <2>2 DEF ReportSound, Reported
  <2>5. RunSound(c)'
    BY <2>1, <2>2, <2>3 DEF RunSound, InLoop
  <2>6. QED
    BY <2>4, <2>5
<1>4. CASE Reject(c)
  <2>1. /\ UNCHANGED <<failFast, results, canceled, wonAt, post, callbacks>>
        /\ pc[c] = "idle" /\ pc'[c] = "returned" /\ lastEvent'[c] = "post.rejected"
    BY <1>4 DEF Reject, Goto, Emit, TypeOK, postVars, callVars
  <2>2. (isFailed(c)' <=> isFailed(c)) /\ Steps(c)' = Steps(c) /\ ~Won(c) /\ ~Won(c)'
    BY <2>1 DEF isFailed, Steps, CallsInv, Won
  <2>3. ReportSound(c)'
    BY <2>1, <2>2 DEF ReportSound, Reported
  <2>4. RunSound(c)'
    BY <2>1, <2>2 DEF RunSound, InLoop
  <2>5. QED
    BY <2>3, <2>4
<1>5. CASE StartStep(c)
  <2>1. /\ UNCHANGED <<failFast, results, canceled, wonAt, post, callbacks>>
        /\ pc[c] = "step" /\ pc'[c] = "attempt" /\ lastEvent'[c] = "step.started"
        /\ Len(results[c]) < Len(Steps(c))
    BY <1>5 DEF StartStep, Goto, Emit, TypeOK, postVars, callVars
  <2>2. (Won(c)' <=> Won(c)) /\ (isFailed(c)' <=> isFailed(c)) /\ Steps(c)' = Steps(c)
    BY <2>1 DEF Won, isFailed, Steps
  <2>3. ReportSound(c)'
    BY <2>1, <2>2 DEF ReportSound, Reported
  <2>4. RunSound(c)'
    BY <2>1, <2>2 DEF RunSound, InLoop
  <2>5. QED
    BY <2>3, <2>4
<1>6. CASE StepsDone(c) \/ RunSkill(c) \/ BackoffElapses(c) \/ BackoffCanceled(c)
  <2>1. /\ UNCHANGED <<failFast, results, canceled, wonAt, post, callbacks, lastEvent>>
        /\ \/ pc[c] = "step" /\ pc'[c] = "mark"
           \/ pc[c] \in {"attempt", "backoff"} /\ pc'[c] \in {"attempt", "running", "dead"}
    BY <1>6 DEF StepsDone, RunSkill, BackoffElapses, BackoffCanceled, Goto, TypeOK, postVars,
                callVars
  <2>2. (Won(c)' <=> Won(c)) /\ (isFailed(c)' <=> isFailed(c)) /\ Steps(c)' = Steps(c)
    BY <2>1 DEF Won, isFailed, Steps
  <2>3. ReportSound(c)'
    BY <2>1, <2>2 DEF ReportSound, Reported
  <2>4. RunSound(c)'
    BY <2>1, <2>2 DEF RunSound, InLoop
  <2>5. QED
    BY <2>3, <2>4
<1>7. CASE AttemptCanceled(c)
  <2>1. /\ UNCHANGED <<failFast, results, canceled, wonAt, post, callbacks>>
        /\ pc[c] = "attempt" /\ pc'[c] = "dead" /\ lastEvent'[c] = "step.failed"
    BY <1>7 DEF AttemptCanceled, Goto, Emit, TypeOK, postVars, callVars
  <2>2. (Won(c)' <=> Won(c)) /\ (isFailed(c)' <=> isFailed(c)) /\ Steps(c)' = Steps(c)
    BY <2>1 DEF Won, isFailed, Steps
  <2>3. ReportSound(c)'
    BY <2>1, <2>2 DEF ReportSound, Reported
  <2>4. RunSound(c)'
    BY <2>1, <2>2 DEF RunSound, InLoop
  <2>5. QED
    BY <2>3, <2>4
<1>8. CASE CancelContext(c)
  <2>1. Kept(c)
    BY <1>8 DEF CancelContext, Kept, postVars, callVars
  <2>2. QED
    BY <2>1, KeptSound
<1>9. CASE Mark(c)
  <2>1. /\ UNCHANGED <<failFast, results, canceled, wonAt, post, callbacks, lastEvent>>
        /\ pc[c] = "mark" /\ pc'[c] = "emit"
    BY <1>9 DEF Mark, Goto, TypeOK, callVars
  <2>2. (Won(c)' <=> Won(c)) /\ (isFailed(c)' <=> isFailed(c)) /\ Steps(c)' = Steps(c)
    BY <2>1 DEF Won, isFailed, Steps
  <2>3. ReportSound(c)'
    BY <2>1, <2>2 DEF ReportSound, Reported
  <2>4. RunSound(c)'
    BY <2>1, <2>2 DEF RunSound, InLoop
  <2>5. QED
    BY <2>3, <2>4
<1>10. CASE EmitTerminal(c)
  <2>1. /\ UNCHANGED <<failFast, results, canceled, wonAt, post, callbacks>>
        /\ pc[c] = "emit" /\ pc'[c] = (IF canceled[c] THEN "returned" ELSE "callback")
        /\ lastEvent'[c] = (IF isFailed(c) THEN "post.failed" ELSE "post.completed")
    BY <1>10 DEF EmitTerminal, AfterTerminal, Goto, Emit, TypeOK, postVars, callVars
  <2>2. (Won(c)' <=> Won(c)) /\ (isFailed(c)' <=> isFailed(c)) /\ Steps(c)' = Steps(c) /\ Won(c)
    BY <2>1 DEF Won, isFailed, Steps, CallsInv
  <2>3. callbacks[c] = <<>>
    BY <2>1 DEF ReportSound
  <2>4. ReportSound(c)'
    BY <2>1, <2>2, <2>3 DEF ReportSound, Reported, TypeOK
  <2>5. RunSound(c)'
    BY <2>1, <2>2 DEF RunSound, InLoop
  <2>6. QED
    BY <2>4, <2>5
<1>11. CASE FireCallback(c)
  <2>1. /\ UNCHANGED <<failFast, results, canceled, wonAt, post, lastEvent>>
        /\ pc[c] = "callback" /\ pc'[c] = "returned"
        /\ callbacks'[c] = Append(callbacks[c], IF isFailed(c) THEN "failed" ELSE "succeeded")
    BY <1>11 DEF FireCallback, Goto, TypeOK, postVars, callVars
  <2>2. (Won(c)' <=> Won(c)) /\ (isFailed(c)' <=> isFailed(c)) /\ Steps(c)' = Steps(c) /\ Won(c)
    BY <2>1 DEF Won, isFailed, Steps, CallsInv
  <2>3. callbacks[c] = <<>> /\ ~canceled[c] /\ Reported(c)
    BY <2>1, <2>2 DEF ReportSound
  <2>4. callbacks'[c] = <<IF isFailed(c) THEN "failed" ELSE "succeeded">>
    BY <2>1, <2>3
  <2>5. Len(callbacks'[c]) = 1 /\ callbacks'[c][1] = (IF isFailed(c) THEN "failed" ELSE "succeeded")
    BY <2>4
  <2>6. ReportSound(c)'
    BY <2>1, <2>2, <2>3, <2>5 DEF ReportSound, Reported
  <2>7. RunSound(c)'
    BY <2>1, <2>2 DEF RunSound, InLoop
  <2>8. QED
    BY <2>6, <2>7
<1>12. QED
  BY <1>1, <1>2, <1>3, <1>4, <1>5, <1>6, <1>7, <1>8, <1>9, <1>10, <1>11 DEF Local

(* Every step keeps what is known of every call.                           *)
LEMMA RunsStep == IInv /\ RunsInv /\ [Next]_vars => RunsInv'
<1> SUFFICES ASSUME IInv, RunsInv, [Next]_vars PROVE RunsInv'
  OBVIOUS
<1>1. ASSUME NEW c \in Calls, Local(c) \/ Claim(c) \/ Mark(c), NEW d \in Calls
      PROVE  ReportSound(d)' /\ RunSound(d)'
  <2>1. TypeOK /\ CallsInv /\ EndInv /\ ReportSound(d) /\ RunSound(d)
    BY DEF IInv, RunsInv
  <2>2. CASE d = c
    BY <1>1, <2>1, <2>2, OwnStep
  <2>3. CASE d # c
    BY <1>1, <2>1, <2>3, OthersKept, KeptSound
  <2>4. QED
    BY <2>2, <2>3
<1>2. ASSUME UNCHANGED vars \/ \E p \in Posts : Release(p), NEW d \in Calls
      PROVE  ReportSound(d)' /\ RunSound(d)'
  <2>1. Kept(d)
    BY <1>2 DEF Kept, Release, vars, postVars, callVars
  <2>2. QED
    BY <2>1, KeptSound DEF RunsInv
<1>3. QED
  BY <1>1, <1>2 DEF Next, Trigger, Run, Local, RunsInv

LEMMA RunsInit == Init => RunsInv
<1> SUFFICES ASSUME Init, NEW c \in Calls PROVE ReportSound(c) /\ RunSound(c)
  BY DEF RunsInv
<1>1. TypeOK /\ results[c] = <<>> /\ callbacks[c] = <<>> /\ pc[c] = "idle" /\ lastEvent[c] = "none"
  BY IInvInit DEF Init, IInv
<1>2. ~isFailed(c) /\ 0 <= Len(Steps(c))
  BY <1>1, StepsSorted DEF isFailed
<1>3. QED
  BY <1>1, <1>2 DEF ReportSound, Reported, RunSound, InLoop

(* The inductive invariant holds throughout.                               *)
THEOREM Inductive == Spec => []IInv
BY IInvInit, IInvStep, PTL DEF Spec

(* Type correctness of every variable of the pipeline.                     *)
THEOREM TypeCorrect == Spec => []TypeOK
BY Inductive, PTL DEF IInv

(* The exactly-once guarantee of Claimer.Claim and Processor.Process: at   *)
(* most one call runs a post's Skills between two Releases of the post.    *)
THEOREM ProcessedOnce == Spec => []ExactlyOnce
BY Inductive, PTL DEF IInv

(* Claimer.State never lies: no orphaned "processing" and no "done" that   *)
(* no clean run stands behind.                                             *)
THEOREM ClaimsSound == Spec => []ClaimSound
BY Inductive, PTL DEF IInv

(* MarkDone and MarkFailed never overwrite a settled claim while Release   *)
(* is only used on settled posts.                                          *)
THEOREM SettledStays == Spec => SettledIsFinal
<1>1. ASSUME IInv, [Next]_vars, NEW p \in Posts,
             claims[p] \in Settled, claims'[p] # claims[p], ~early[p]
      PROVE  epoch'[p] # epoch[p]
  <2>1. ASSUME NEW c \in Calls, Local(c) PROVE FALSE
    BY <1>1, <2>1, LocalStep DEF IInv, Framed
  <2>2. ASSUME NEW c \in Calls, Claim(c) PROVE FALSE
    BY <1>1, <2>2 DEF Claim, Claimable, Settled, IInv, TypeOK
  <2>3. ASSUME NEW c \in Calls, Mark(c) PROVE FALSE
    <3>1. post[c] = p /\ Won(c) /\ ~Marked(c)
      BY <1>1, <2>3 DEF Mark, Goto, IInv, TypeOK, CallsInv, Marked
    <3>2. QED
      BY <1>1, <3>1 DEF IInv, HolderInv, Settled
  <2>4. ASSUME NEW q \in Posts, Release(q) PROVE epoch'[p] # epoch[p]
    BY <1>1, <2>4 DEF Release, IInv, TypeOK
  <2>5. CASE UNCHANGED vars
    BY <1>1, <2>5 DEF vars, postVars
  <2>6. QED
    BY <1>1, <2>1, <2>2, <2>3, <2>4, <2>5 DEF Next, Trigger, Run, Local
<1>2. IInv /\ [Next]_vars =>
        [\A p \in Posts : claims[p] \in Settled /\ claims'[p] # claims[p] =>
            epoch'[p] # epoch[p] \/ early[p]]_vars
  BY <1>1
<1>3. QED
  BY <1>2, Inductive, PTL DEF Spec, SettledIsFinal

(* Whoever listens is told the truth: the terminal event and the callback  *)
(* of Process say what became of the run, once, after its mark.            *)
THEOREM ReportsAreTrue == Spec => []ReportsTruthful
<1>1. IInv /\ RunsInv => ReportsTruthful
  <2> SUFFICES ASSUME IInv, RunsInv, NEW c \in Calls
               PROVE  /\ Reported(c) => /\ Marked(c)
                                        /\ (lastEvent[c] = "post.completed") <=> RanClean(c)
                      /\ callbacks[c] # <<>> => /\ Reported(c) /\ ~canceled[c] /\ Len(callbacks[c]) = 1
                                                /\ (callbacks[c][1] = "succeeded") <=> RanClean(c)
                      /\ Won(c) /\ pc[c] = "returned" /\ ~canceled[c] => callbacks[c] # <<>>
    BY DEF ReportsTruthful, Reported
  <2>1. ReportSound(c) /\ EndInv
    BY DEF RunsInv, IInv
  <2>2. Won(c) /\ pc[c] \in {"callback", "returned"} => Marked(c) /\ (RanClean(c) <=> ~isFailed(c))
    BY <2>1 DEF EndInv, Marked, RanClean
  <2>3. QED
    BY <2>1, <2>2 DEF ReportSound
<1>2. QED
  BY <1>1, Inductive, IInvStep, RunsInit, RunsStep, PTL DEF Spec

(* OrderByPrecedence and the loop of Process: the Skills that ran are the  *)
(* first ones of the stage order, and fail-fast stops at a dead one.       *)
THEOREM StagesInOrder == Spec => []StageOrder
<1>1. TypeOK /\ RunsInv => StageOrder
  <2> SUFFICES ASSUME TypeOK, RunsInv, NEW c \in Calls
               PROVE  LET ran == DOMAIN results[c]
                          input == SkillsOf[post[c]]
                      IN  /\ \E at \in [ran -> DOMAIN input] :
                               /\ \A i \in ran : Steps(c)[i] = input[at[i]]
                               /\ \A i, j \in ran : i < j => Ahead(input, at[i], at[j])
                               /\ \A i \in ran : \A k \in DOMAIN input :
                                     (\A j \in ran : at[j] # k) => Ahead(input, at[i], k)
                          /\ failFast => \A i \in ran : i < Len(results[c]) => results[c][i] = "succeeded"
    BY DEF StageOrder
  <2>1. PICK input : input = SkillsOf[post[c]]
    OBVIOUS
  <2>2. PICK n, at : n = Len(input) /\ at = Sorted(input)
    OBVIOUS
  <2>3. PICK m : m = Len(results[c])
    OBVIOUS
  <2>4. /\ n \in Nat /\ Len(Steps(c)) = n /\ DOMAIN input = 1 .. n
        /\ at \in [1 .. n -> 1 .. n]
        /\ \A i, j \in 1 .. n : i < j => Ahead(input, at[i], at[j])
        /\ \A k \in 1 .. n : \E i \in 1 .. n : at[i] = k
        /\ \A i \in 1 .. n : Steps(c)[i] = input[at[i]]
    BY <2>1, <2>2, StepsSorted
  <2>5. m \in Nat /\ DOMAIN results[c] = 1 .. m
    BY <2>3 DEF TypeOK
  <2>6. m <= n /\ (failFast => \A i \in 1 .. m : i < m => results[c][i] = "succeeded")
    BY <2>3, <2>4, <2>5 DEF RunsInv, RunSound
  <2>7. PICK w : w = [i \in 1 .. m |-> at[i]]
    OBVIOUS
  <2>8. w \in [1 .. m -> 1 .. n] /\ \A i \in 1 .. m : i \in 1 .. n /\ w[i] = at[i]
    <3>1. \A i \in 1 .. m : i \in 1 .. n
      BY <2>4, <2>5, <2>6
    <3>2. \A i \in 1 .. m : at[i] \in 1 .. n
      BY <2>4, <3>1
    <3>3. QED
      BY <2>7, <3>1, <3>2
  <2>9. ASSUME NEW i \in 1 .. m, NEW k \in 1 .. n, \A j \in 1 .. m : w[j] # k
        PROVE  Ahead(input, w[i], k)
    <3>1. PICK j \in 1 .. n : at[j] = k
      BY <2>4
    <3>2. j \notin 1 .. m
      BY <2>8, <2>9, <3>1
    <3>3. i \in 1 .. n /\ i < j
      BY <2>4, <2>5, <2>8, <3>1, <3>2
    <3>4. QED
      BY <2>4, <2>8, <3>1, <3>3
  <2>10. \A i, j \in 1 .. m : i < j => Ahead(input, w[i], w[j])
    BY <2>4, <2>8
  <2>11. \A i \in 1 .. m : Steps(c)[i] = input[w[i]]
    BY <2>4, <2>8
  <2>12. \E x \in [1 .. m -> 1 .. n] :
            /\ \A i \in 1 .. m : Steps(c)[i] = input[x[i]]
            /\ \A i, j \in 1 .. m : i < j => Ahead(input, x[i], x[j])
            /\ \A i \in 1 .. m : \A k \in 1 .. n :
                  (\A j \in 1 .. m : x[j] # k) => Ahead(input, x[i], k)
    BY <2>8, <2>9, <2>10, <2>11
  <2>13. DOMAIN results[c] = 1 .. m /\ DOMAIN SkillsOf[post[c]] = 1 .. n
    BY <2>1, <2>4, <2>5
  <2>14. failFast => \A i \in 1 .. m : i < Len(results[c]) => results[c][i] = "succeeded"
    BY <2>3, <2>6
  <2>15. QED
    BY <2>1, <2>12, <2>13, <2>14, Zenon
<1>2. QED
  BY <1>1, Inductive, TypeCorrect, RunsInit, RunsStep, PTL DEF Spec

=============================================================================
