------------------------ MODULE DownloadManagerProofs ------------------------
(***************************************************************************)
(* What the download manager keeps for any jobs, pool, clients, capacity   *)
(* and budget: a job is in one pair of hands, is never lost, ends once,    *)
(* and lives the life of JobLifecycle.  The inductive invariant says what  *)
(* a worker's place in runJob means for the state of its job (PlaceInv),   *)
(* that hands are disjoint (Apart), and how tries, pauses and failures add *)
(* up while a pause is under way (TryInv, AttemptInv).                     *)
(***************************************************************************)
EXTENDS DownloadManager, TLAPS

Resting == {"off", "idle", "exited"}
Trying  == {"fetch", "callback", "succeeded", "transient", "permanent", "pausing", "failed",
            "dead", "retry"}

(* What a worker's place in runJob says about its job.                     *)
PlaceInv ==
    \A w \in Workers :
        /\ wpc[w] \in Resting <=> wjob[w] = NoJob
        /\ wpc[w] = "begin" => state[wjob[w]] = "queued"
        /\ wpc[w] = "attempt" => state[wjob[w]] \in {"queued", "retrying"}
        /\ wpc[w] \in Trying => state[wjob[w]] = "running"
        /\ wpc[w] = "backoff" => state[wjob[w]] = "retrying"
        /\ wpc[w] = "complete" => state[wjob[w]] \in Terminal /\ ~notified[wjob[w]]

(* A job in the queue, or on its way to it, is queued.                     *)
WaitInv ==
    /\ \A c \in Clients : sending[c] # NoJob => state[sending[c]] = "queued"
    /\ \A i \in 1..Len(queue) : state[queue[i]] = "queued"

(* A job is in one pair of hands.                                          *)
Apart ==
    /\ \A v, w \in Workers : wjob[v] = wjob[w] /\ wjob[v] # NoJob => v = w
    /\ \A i, k \in 1..Len(queue) : queue[i] = queue[k] => i = k
    /\ \A w \in Workers, i \in 1..Len(queue) : wjob[w] # queue[i]
    /\ \A w \in Workers, c \in Clients : wjob[w] = sending[c] => wjob[w] = NoJob
    /\ \A c \in Clients, i \in 1..Len(queue) : sending[c] # queue[i]

(* Only a final job was reported.                                          *)
NotifiedInv == \A j \in Jobs : notified[j] => state[j] \in Terminal

(* A job that something is still owed to is in somebody's hands.           *)
OwedTo(j) == \/ state[j] \in {"queued", "running", "retrying"}
             \/ state[j] \in Terminal /\ ~notified[j]
InHand(j) == \/ \E c \in Clients : sending[c] = j
             \/ \E i \in 1..Len(queue) : queue[i] = j
             \/ \E w \in Workers : wjob[w] = j
NoneLost == \A j \in Jobs : OwedTo(j) => InHand(j)

(* Where the jobs are, and what that says of their states.                 *)
HandsInv ==
    NoSendAfterClose /\ PlaceInv /\ WaitInv /\ Apart /\ NotifiedInv /\ NoneLost

(* The budget while a pause is under way: Pause counts at once, the try it *)
(* cuts short is repeated only after Resume, so until then one is due.     *)
Due(j) == IF pauseReq[j] THEN 1 ELSE 0
TryInv ==
    \A j \in Jobs :
        /\ pauseReq[j] => pauses[j] >= 1
        /\ attempts[j] <= MaxRetries + 1 + pauses[j]
        /\ state[j] = "running" => attempts[j] + Due(j) <= MaxRetries + 1 + pauses[j]
        /\ state[j] \in {"none", "queued", "retrying"} =>
              attempts[j] + Due(j) <= MaxRetries + pauses[j]
        /\ state[j] = "paused" => stopped \/ attempts[j] <= MaxRetries + pauses[j]
        /\ failures[j] <= attempts[j]
        /\ failures[j] <= MaxRetries + 1
        /\ state[j] \in {"none", "queued", "retrying", "paused"} => failures[j] <= MaxRetries

(* What a worker's copy of job.attempts and its place say of the budget.   *)
AttemptInv ==
    \A w \in Workers :
       /\ wpc[w] \in Trying => attempt[w] = attempts[wjob[w]]
       /\ wpc[w] \in Trying \ {"dead"} => failures[wjob[w]] <= MaxRetries
       /\ wpc[w] \in {"fetch", "callback", "transient", "permanent"} =>
             failures[wjob[w]] < attempts[wjob[w]]
       /\ wpc[w] = "pausing" => pauseReq[wjob[w]] \/ stopped
       /\ wpc[w] = "retry" => attempts[wjob[w]] <= MaxRetries

IInv == TypeOK /\ HandsInv /\ TryInv /\ AttemptInv

-----------------------------------------------------------------------------

(* Every action keeps the variables in their types.                        *)
LEMMA TypeStep == TypeOK /\ PlaceInv /\ [Next]_vars => TypeOK'
<1> SUFFICES ASSUME TypeOK, PlaceInv, [Next]_vars PROVE TypeOK'
  OBVIOUS
<1> USE ConfigAssumption DEF TypeOK, Places, States, Terminal, Goto, LeaveJob, SetState, mgrVars,
        jobVars, workerVars
<1>0. \A w \in Workers : wpc[w] \notin Resting => wjob[w] \in Jobs
  BY DEF PlaceInv
<1>1. CASE Start
  BY <1>1 DEF Start
<1>2. CASE Shutdown
  BY <1>2 DEF Shutdown
<1>3. ASSUME NEW c \in Clients, NEW j \in Jobs, Enqueue(c, j) PROVE TypeOK'
  BY <1>3 DEF Enqueue
<1>4. ASSUME NEW c \in Clients, NEW j \in Jobs, Resume(c, j) PROVE TypeOK'
  BY <1>4 DEF Resume
<1>5. ASSUME NEW j \in Jobs, Pause(j) PROVE TypeOK'
  BY <1>5, SMTT(30) DEF Pause, Pausable, RequestPause
<1>6. ASSUME NEW c \in Clients, Send(c) PROVE TypeOK'
  BY <1>6 DEF Send
<1>7. ASSUME NEW w \in Workers, Spawn(w) PROVE TypeOK'
  BY <1>7 DEF Spawn
<1>8. ASSUME NEW w \in Workers, Take(w) PROVE TypeOK'
  BY <1>8, SMTT(30) DEF Take
<1>9. ASSUME NEW w \in Workers, Exit(w) PROVE TypeOK'
  BY <1>9 DEF Exit
<1>10. ASSUME NEW w \in Workers, BeginPaused(w) PROVE TypeOK'
  BY <1>10 DEF BeginPaused
<1>11. ASSUME NEW w \in Workers, Begin(w) PROVE TypeOK'
  BY <1>11 DEF Begin
<1>12. ASSUME NEW w \in Workers, StartAttempt(w) PROVE TypeOK'
  <2>1. wjob[w] \in Jobs
    BY <1>0, <1>12 DEF StartAttempt, Resting
  <2>2. QED
    BY <2>1, <1>12 DEF StartAttempt
<1>13. ASSUME NEW w \in Workers, Progress(w) PROVE TypeOK'
  BY <1>13 DEF Progress
<1>14. ASSUME NEW w \in Workers, CallbackPause(w) PROVE TypeOK'
  <2>1. wjob[w] \in Jobs
    BY <1>0, <1>14 DEF CallbackPause, Resting
  <2>2. QED
    BY <2>1, <1>14 DEF CallbackPause, RequestPause
<1>15. ASSUME NEW w \in Workers, JudgePaused(w) PROVE TypeOK'
  BY <1>15 DEF JudgePaused
<1>16. ASSUME NEW w \in Workers, SetPaused(w) PROVE TypeOK'
  BY <1>16 DEF SetPaused
<1>17. ASSUME NEW w \in Workers, JudgePermanent(w) PROVE TypeOK'
  BY <1>17 DEF JudgePermanent
<1>18. ASSUME NEW w \in Workers, JudgeTransient(w) PROVE TypeOK'
  <2>1. wjob[w] \in Jobs
    BY <1>0, <1>18 DEF JudgeTransient, Resting
  <2>2. QED
    BY <2>1, <1>18 DEF JudgeTransient
<1>19. ASSUME NEW w \in Workers, SetRetrying(w) PROVE TypeOK'
  BY <1>19 DEF SetRetrying
<1>20. ASSUME NEW w \in Workers, BackoffElapses(w) PROVE TypeOK'
  BY <1>20 DEF BackoffElapses
<1>21. ASSUME NEW w \in Workers, BackoffInterrupted(w) PROVE TypeOK'
  BY <1>21 DEF BackoffInterrupted
<1>22. ASSUME NEW w \in Workers, Finish(w) PROVE TypeOK'
  <2>1. wjob[w] \in Jobs
    BY <1>0, <1>22 DEF Finish, Resting
  <2>2. QED
    BY <2>1, <1>22 DEF Finish
<1>23. ASSUME NEW w \in Workers, Complete(w) PROVE TypeOK'
  BY <1>23 DEF Complete
<1>24. ASSUME NEW w \in Workers, NEW to \in {"succeeded", "transient", "permanent"},
             FetchReturns(w, to) PROVE TypeOK'
  BY <1>24 DEF FetchReturns
<1>25. CASE UNCHANGED vars
  BY <1>25 DEF vars
<1>26. CASE Api
  BY <1>1, <1>2, <1>3, <1>4, <1>5, <1>26 DEF Api
<1>27. ASSUME NEW w \in Workers, Work(w) PROVE TypeOK'
  <2> HIDE <1>0, ConfigAssumption
  <2> HIDE DEF TypeOK, Places, States, Terminal, Goto, LeaveJob, SetState, mgrVars, jobVars,
               workerVars
  <2>1. QED
    BY <1>7, <1>8, <1>9, <1>10, <1>11, <1>12, <1>13, <1>14, <1>15, <1>16, <1>17, <1>18, <1>19,
       <1>20, <1>21, <1>22, <1>23, <1>24, <1>27 DEF Work
<1>28. QED
  BY <1>6, <1>25, <1>26, <1>27 DEF Next

-----------------------------------------------------------------------------

(* A step that moves no job and changes no state keeps the hands.          *)
LEMMA StillStep ==
    ASSUME TypeOK, HandsInv, UNCHANGED <<sending, queue, state, notified, wjob>>
    PROVE  WaitInv' /\ Apart' /\ NotifiedInv' /\ NoneLost'
<1> USE DEF HandsInv
<1>1. WaitInv'
  BY DEF WaitInv
<1>2. Apart'
  BY DEF Apart
<1>3. NotifiedInv'
  BY DEF NotifiedInv
<1>4. \A j \in Jobs : (OwedTo(j)' <=> OwedTo(j)) /\ (InHand(j)' <=> InHand(j))
  BY DEF OwedTo, InHand
<1>5. NoneLost'
  BY <1>4 DEF NoneLost
<1>6. QED
  BY <1>1, <1>2, <1>3, <1>5

(* So does a worker that keeps its job, not yet reported, and gives it a   *)
(* state in which the job is still owed work.                              *)
LEMMA KeepStep ==
    ASSUME TypeOK, HandsInv, NEW w \in Workers, wjob[w] \in Jobs, ~notified[wjob[w]],
           NEW s \in {"running", "retrying"} \cup Terminal,
           state' = [state EXCEPT ![wjob[w]] = s],
           UNCHANGED <<sending, queue, notified, wjob>>
    PROVE  WaitInv' /\ Apart' /\ NotifiedInv' /\ NoneLost'
<1> USE DEF HandsInv
<1>1. WaitInv'
  BY SMTT(30) DEF WaitInv, Apart, TypeOK
<1>2. Apart'
  BY DEF Apart
<1>3. NotifiedInv'
  BY DEF NotifiedInv, TypeOK
<1>4. \A j \in Jobs : InHand(j)' <=> InHand(j)
  BY DEF InHand
<1>5. InHand(wjob[w])
  BY DEF InHand
<1>6. \A j \in Jobs : j # wjob[w] => (OwedTo(j)' <=> OwedTo(j))
  BY DEF OwedTo, TypeOK
<1>7. NoneLost'
  BY <1>4, <1>5, <1>6 DEF NoneLost
<1>8. QED
  BY <1>1, <1>2, <1>3, <1>7

(* And a worker that lets go of a job which is owed nothing any more.      *)
LEMMA LetGoStep ==
    ASSUME TypeOK, HandsInv, NEW w \in Workers, NEW j \in Jobs, wjob[w] = j,
           wjob' = [wjob EXCEPT ![w] = NoJob],
           \A k \in Jobs \ {j} : state'[k] = state[k] /\ notified'[k] = notified[k],
           notified'[j] => state'[j] \in Terminal,
           ~OwedTo(j)',
           UNCHANGED <<sending, queue>>
    PROVE  WaitInv' /\ Apart' /\ NotifiedInv' /\ NoneLost'
<1> USE DEF HandsInv
<1>1. WaitInv'
  <2>1. \A c \in Clients : sending[c] # NoJob => sending[c] \in Jobs \ {j}
    BY ConfigAssumption DEF Apart, TypeOK
  <2>2. \A i \in 1..Len(queue) : queue[i] \in Jobs \ {j}
    BY SMTT(30) DEF Apart, TypeOK
  <2>3. QED
    BY <2>1, <2>2 DEF WaitInv
<1>2. Apart'
  BY ConfigAssumption, SMTT(30) DEF Apart, TypeOK
<1>3. NotifiedInv'
  BY DEF NotifiedInv
<1>4. \A k \in Jobs \ {j} : OwedTo(k)' => OwedTo(k)
  BY DEF OwedTo
<1>5. \A k \in Jobs \ {j} : InHand(k) => InHand(k)'
  <2>1. \A v \in Workers : wjob[v] # j => wjob'[v] = wjob[v]
    BY DEF TypeOK
  <2>2. QED
    BY <2>1 DEF InHand
<1>6. NoneLost'
  BY <1>4, <1>5 DEF NoneLost
<1>7. QED
  BY <1>1, <1>2, <1>3, <1>6

(* Every action keeps the hands.                                           *)
LEMMA HandsStep == TypeOK /\ HandsInv /\ [Next]_vars => HandsInv'
<1> SUFFICES ASSUME TypeOK, HandsInv, [Next]_vars PROVE HandsInv'
  OBVIOUS
<1> USE DEF Goto, LeaveJob, SetState, mgrVars, jobVars, workerVars
<1>0. \A w \in Workers : wpc[w] \notin Resting => wjob[w] \in Jobs
  BY DEF HandsInv, PlaceInv, TypeOK
<1>1. CASE Start
  <2>1. NoSendAfterClose'
    BY <1>1 DEF Start, HandsInv, NoSendAfterClose
  <2>2. PlaceInv'
    BY <1>1 DEF Start, HandsInv, PlaceInv, TypeOK, Resting, Trying, Terminal
  <2>3. UNCHANGED <<sending, queue, state, notified, wjob>>
    BY <1>1 DEF Start
  <2>4. QED
    BY <2>1, <2>2, <2>3, StillStep DEF HandsInv
<1>2. CASE Shutdown
  <2>1. NoSendAfterClose'
    BY <1>2, ConfigAssumption DEF Shutdown, HandsInv, NoSendAfterClose
  <2>2. PlaceInv'
    BY <1>2 DEF Shutdown, HandsInv, PlaceInv, TypeOK, Resting, Trying, Terminal
  <2>3. UNCHANGED <<sending, queue, state, notified, wjob>>
    BY <1>2 DEF Shutdown
  <2>4. QED
    BY <2>1, <2>2, <2>3, StillStep DEF HandsInv
<1>3. ASSUME NEW j \in Jobs, Pause(j) PROVE HandsInv'
  <2>1. NoSendAfterClose'
    BY <1>3 DEF Pause, RequestPause, HandsInv, NoSendAfterClose
  <2>2. PlaceInv'
    BY <1>3 DEF Pause, RequestPause, HandsInv, PlaceInv, TypeOK, Resting, Trying, Terminal
  <2>3. UNCHANGED <<sending, queue, state, notified, wjob>>
    BY <1>3 DEF Pause, RequestPause
  <2>4. QED
    BY <2>1, <2>2, <2>3, StillStep DEF HandsInv
<1>4. ASSUME NEW w \in Workers, Spawn(w) PROVE HandsInv'
  <2>1. NoSendAfterClose'
    BY <1>4 DEF Spawn, HandsInv, NoSendAfterClose
  <2>2. PlaceInv'
    BY <1>4 DEF Spawn, HandsInv, PlaceInv, TypeOK, Resting, Trying, Terminal
  <2>3. UNCHANGED <<sending, queue, state, notified, wjob>>
    BY <1>4 DEF Spawn
  <2>4. QED
    BY <2>1, <2>2, <2>3, StillStep DEF HandsInv
<1>5. ASSUME NEW w \in Workers, Exit(w) PROVE HandsInv'
  <2>1. NoSendAfterClose'
    BY <1>5 DEF Exit, HandsInv, NoSendAfterClose
  <2>2. PlaceInv'
    BY <1>5 DEF Exit, HandsInv, PlaceInv, TypeOK, Resting, Trying, Terminal
  <2>3. UNCHANGED <<sending, queue, state, notified, wjob>>
    BY <1>5 DEF Exit
  <2>4. QED
    BY <2>1, <2>2, <2>3, StillStep DEF HandsInv
<1>6. ASSUME NEW w \in Workers, Begin(w) PROVE HandsInv'
  <2>1. NoSendAfterClose'
    BY <1>6 DEF Begin, HandsInv, NoSendAfterClose
  <2>2. PlaceInv'
    BY <1>6 DEF Begin, HandsInv, PlaceInv, TypeOK, Resting, Trying, Terminal
  <2>3. UNCHANGED <<sending, queue, state, notified, wjob>>
    BY <1>6 DEF Begin
  <2>4. QED
    BY <2>1, <2>2, <2>3, StillStep DEF HandsInv
<1>7. ASSUME NEW w \in Workers, Progress(w) PROVE HandsInv'
  <2>1. NoSendAfterClose'
    BY <1>7 DEF Progress, HandsInv, NoSendAfterClose
  <2>2. PlaceInv'
    BY <1>7 DEF Progress, HandsInv, PlaceInv, TypeOK, Resting, Trying, Terminal
  <2>3. UNCHANGED <<sending, queue, state, notified, wjob>>
    BY <1>7 DEF Progress
  <2>4. QED
    BY <2>1, <2>2, <2>3, StillStep DEF HandsInv
<1>8. ASSUME NEW w \in Workers, CallbackPause(w) PROVE HandsInv'
  <2>1. NoSendAfterClose'
    BY <1>8 DEF CallbackPause, RequestPause, HandsInv, NoSendAfterClose
  <2>2. PlaceInv'
    BY <1>8 DEF CallbackPause, RequestPause, HandsInv, PlaceInv, TypeOK, Resting, Trying, Terminal
  <2>3. UNCHANGED <<sending, queue, state, notified, wjob>>
    BY <1>8 DEF CallbackPause, RequestPause
  <2>4. QED
    BY <2>1, <2>2, <2>3, StillStep DEF HandsInv
<1>9. ASSUME NEW w \in Workers, JudgePaused(w) PROVE HandsInv'
  <2>1. NoSendAfterClose'
    BY <1>9 DEF JudgePaused, HandsInv, NoSendAfterClose
  <2>2. PlaceInv'
    BY <1>9 DEF JudgePaused, HandsInv, PlaceInv, TypeOK, Resting, Trying, Terminal
  <2>3. UNCHANGED <<sending, queue, state, notified, wjob>>
    BY <1>9 DEF JudgePaused
  <2>4. QED
    BY <2>1, <2>2, <2>3, StillStep DEF HandsInv
<1>10. ASSUME NEW w \in Workers, JudgePermanent(w) PROVE HandsInv'
  <2>1. NoSendAfterClose'
    BY <1>10 DEF JudgePermanent, HandsInv, NoSendAfterClose
  <2>2. PlaceInv'
    BY <1>10 DEF JudgePermanent, HandsInv, PlaceInv, TypeOK, Resting, Trying, Terminal
  <2>3. UNCHANGED <<sending, queue, state, notified, wjob>>
    BY <1>10 DEF JudgePermanent
  <2>4. QED
    BY <2>1, <2>2, <2>3, StillStep DEF HandsInv
<1>11. ASSUME NEW w \in Workers, JudgeTransient(w) PROVE HandsInv'
  <2>1. NoSendAfterClose'
    BY <1>11 DEF JudgeTransient, HandsInv, NoSendAfterClose
  <2>2. PlaceInv'
    BY <1>11 DEF JudgeTransient, HandsInv, PlaceInv, TypeOK, Resting, Trying, Terminal
  <2>3. UNCHANGED <<sending, queue, state, notified, wjob>>
    BY <1>11 DEF JudgeTransient
  <2>4. QED
    BY <2>1, <2>2, <2>3, StillStep DEF HandsInv
<1>12. ASSUME NEW w \in Workers, BackoffElapses(w) PROVE HandsInv'
  <2>1. NoSendAfterClose'
    BY <1>12 DEF BackoffElapses, HandsInv, NoSendAfterClose
  <2>2. PlaceInv'
    BY <1>12 DEF BackoffElapses, HandsInv, PlaceInv, TypeOK, Resting, Trying, Terminal
  <2>3. UNCHANGED <<sending, queue, state, notified, wjob>>
    BY <1>12 DEF BackoffElapses
  <2>4. QED
    BY <2>1, <2>2, <2>3, StillStep DEF HandsInv
<1>13. ASSUME NEW w \in Workers, NEW to \in {"succeeded", "transient", "permanent"},
             FetchReturns(w, to) PROVE HandsInv'
  <2>1. NoSendAfterClose'
    BY <1>13 DEF FetchReturns, HandsInv, NoSendAfterClose
  <2>2. PlaceInv'
    BY <1>13 DEF FetchReturns, HandsInv, PlaceInv, TypeOK, Resting, Trying, Terminal
  <2>3. UNCHANGED <<sending, queue, state, notified, wjob>>
    BY <1>13 DEF FetchReturns
  <2>4. QED
    BY <2>1, <2>2, <2>3, StillStep DEF HandsInv
<1>14. CASE UNCHANGED vars
  <2>1. NoSendAfterClose' /\ PlaceInv'
    BY <1>14 DEF vars, HandsInv, NoSendAfterClose, PlaceInv
  <2>2. QED
    BY <1>14, <2>1, StillStep DEF vars, HandsInv
<1>15. ASSUME NEW w \in Workers, StartAttempt(w) PROVE HandsInv'
  <2>1. wjob[w] \in Jobs
    BY <1>0, <1>15 DEF StartAttempt, Resting
  <2>2. ~notified[wjob[w]]
    BY <2>1, <1>15 DEF StartAttempt, HandsInv, NotifiedInv, PlaceInv, Terminal, Trying
  <2>3. NoSendAfterClose'
    BY <1>15 DEF StartAttempt, HandsInv, NoSendAfterClose
  <2>4. PlaceInv'
    BY <2>1, <1>15 DEF StartAttempt, HandsInv, PlaceInv, Apart, TypeOK, Resting, Trying
  <2>5. /\ state' = [state EXCEPT ![wjob[w]] = "running"]
        /\ UNCHANGED <<sending, queue, notified, wjob>>
    BY <1>15 DEF StartAttempt
  <2>6. WaitInv' /\ Apart' /\ NotifiedInv' /\ NoneLost'
    BY <2>1, <2>2, <2>5, KeepStep
  <2>7. QED
    BY <2>3, <2>4, <2>6 DEF HandsInv
<1>16. ASSUME NEW w \in Workers, SetRetrying(w) PROVE HandsInv'
  <2>1. wjob[w] \in Jobs
    BY <1>0, <1>16 DEF SetRetrying, Resting
  <2>2. ~notified[wjob[w]]
    BY <2>1, <1>16 DEF SetRetrying, HandsInv, NotifiedInv, PlaceInv, Terminal, Trying
  <2>3. NoSendAfterClose'
    BY <1>16 DEF SetRetrying, HandsInv, NoSendAfterClose
  <2>4. PlaceInv'
    BY <2>1, <1>16 DEF SetRetrying, HandsInv, PlaceInv, Apart, TypeOK, Resting, Trying
  <2>5. /\ state' = [state EXCEPT ![wjob[w]] = "retrying"]
        /\ UNCHANGED <<sending, queue, notified, wjob>>
    BY <1>16 DEF SetRetrying
  <2>6. WaitInv' /\ Apart' /\ NotifiedInv' /\ NoneLost'
    BY <2>1, <2>2, <2>5, KeepStep
  <2>7. QED
    BY <2>3, <2>4, <2>6 DEF HandsInv
<1>17. ASSUME NEW w \in Workers, Finish(w) PROVE HandsInv'
  <2>1. PICK t \in Terminal :
          /\ Goto(w, t, "complete") /\ SetState(wjob[w], t)
          /\ UNCHANGED <<mgrVars, queue, notified, wjob>>
    BY <1>17 DEF Finish
  <2>2. wjob[w] \in Jobs
    BY <1>0, <2>1 DEF Resting, Terminal
  <2>3. ~notified[wjob[w]]
    BY <2>1, <2>2 DEF HandsInv, NotifiedInv, PlaceInv, Terminal, Trying
  <2>4. NoSendAfterClose'
    BY <2>1 DEF HandsInv, NoSendAfterClose
  <2>5. PlaceInv'
    BY <2>1, <2>2, <2>3 DEF HandsInv, PlaceInv, Apart, TypeOK, Resting, Trying, Terminal
  <2>6. WaitInv' /\ Apart' /\ NotifiedInv' /\ NoneLost'
    BY <2>1, <2>2, <2>3, KeepStep
  <2>7. QED
    BY <2>4, <2>5, <2>6 DEF HandsInv
<1>18. ASSUME NEW w \in Workers, BeginPaused(w) PROVE HandsInv'
  <2>1. PICK j \in Jobs : j = wjob[w]
    BY <1>0, <1>18 DEF BeginPaused, Resting
  <2>2. NoSendAfterClose'
    BY <1>18 DEF BeginPaused, HandsInv, NoSendAfterClose
  <2>3. PlaceInv'
    BY <2>1, <1>18 DEF BeginPaused, HandsInv, PlaceInv, Apart, TypeOK, Resting, Trying
  <2>4. /\ wjob' = [wjob EXCEPT ![w] = NoJob]
        /\ UNCHANGED <<sending, queue>>
    BY <1>18 DEF BeginPaused
  <2>5. \A k \in Jobs \ {j} : state'[k] = state[k] /\ notified'[k] = notified[k]
    BY <2>1, <1>18 DEF BeginPaused, TypeOK
  <2>6. notified'[j] => state'[j] \in Terminal
    BY <2>1, <1>18 DEF BeginPaused, TypeOK, HandsInv, PlaceInv, NotifiedInv, Trying, Terminal
  <2>7. ~OwedTo(j)'
    BY <2>1, <1>18 DEF BeginPaused, TypeOK, OwedTo, Terminal, HandsInv, PlaceInv
  <2>8. WaitInv' /\ Apart' /\ NotifiedInv' /\ NoneLost'
    BY <2>1, <2>4, <2>5, <2>6, <2>7, LetGoStep
  <2>9. QED
    BY <2>2, <2>3, <2>8 DEF HandsInv
<1>19. ASSUME NEW w \in Workers, SetPaused(w) PROVE HandsInv'
  <2>1. PICK j \in Jobs : j = wjob[w]
    BY <1>0, <1>19 DEF SetPaused, Resting
  <2>2. NoSendAfterClose'
    BY <1>19 DEF SetPaused, HandsInv, NoSendAfterClose
  <2>3. PlaceInv'
    BY <2>1, <1>19 DEF SetPaused, HandsInv, PlaceInv, Apart, TypeOK, Resting, Trying
  <2>4. /\ wjob' = [wjob EXCEPT ![w] = NoJob]
        /\ UNCHANGED <<sending, queue>>
    BY <1>19 DEF SetPaused
  <2>5. \A k \in Jobs \ {j} : state'[k] = state[k] /\ notified'[k] = notified[k]
    BY <2>1, <1>19 DEF SetPaused, TypeOK
  <2>6. notified'[j] => state'[j] \in Terminal
    BY <2>1, <1>19 DEF SetPaused, TypeOK, HandsInv, PlaceInv, NotifiedInv, Trying, Terminal
  <2>7. ~OwedTo(j)'
    BY <2>1, <1>19 DEF SetPaused, TypeOK, OwedTo, Terminal, HandsInv, PlaceInv
  <2>8. WaitInv' /\ Apart' /\ NotifiedInv' /\ NoneLost'
    BY <2>1, <2>4, <2>5, <2>6, <2>7, LetGoStep
  <2>9. QED
    BY <2>2, <2>3, <2>8 DEF HandsInv
<1>20. ASSUME NEW w \in Workers, BackoffInterrupted(w) PROVE HandsInv'
  <2>1. PICK j \in Jobs : j = wjob[w]
    BY <1>0, <1>20 DEF BackoffInterrupted, Resting
  <2>2. NoSendAfterClose'
    BY <1>20 DEF BackoffInterrupted, HandsInv, NoSendAfterClose
  <2>3. PlaceInv'
    BY <2>1, <1>20 DEF BackoffInterrupted, HandsInv, PlaceInv, Apart, TypeOK, Resting, Trying
  <2>4. /\ wjob' = [wjob EXCEPT ![w] = NoJob]
        /\ UNCHANGED <<sending, queue>>
    BY <1>20 DEF BackoffInterrupted
  <2>5. \A k \in Jobs \ {j} : state'[k] = state[k] /\ notified'[k] = notified[k]
    BY <2>1, <1>20 DEF BackoffInterrupted, TypeOK
  <2>6. notified'[j] => state'[j] \in Terminal
    BY <2>1, <1>20 DEF BackoffInterrupted, TypeOK, HandsInv, PlaceInv, NotifiedInv, Trying, Terminal
  <2>7. ~OwedTo(j)'
    BY <2>1, <1>20 DEF BackoffInterrupted, TypeOK, OwedTo, Terminal, HandsInv, PlaceInv
  <2>8. WaitInv' /\ Apart' /\ NotifiedInv' /\ NoneLost'
    BY <2>1, <2>4, <2>5, <2>6, <2>7, LetGoStep
  <2>9. QED
    BY <2>2, <2>3, <2>8 DEF HandsInv
<1>21. ASSUME NEW w \in Workers, Complete(w) PROVE HandsInv'
  <2>1. PICK j \in Jobs : j = wjob[w]
    BY <1>0, <1>21 DEF Complete, Resting
  <2>2. NoSendAfterClose'
    BY <1>21 DEF Complete, HandsInv, NoSendAfterClose
  <2>3. PlaceInv'
    BY <2>1, <1>21 DEF Complete, HandsInv, PlaceInv, Apart, TypeOK, Resting, Trying
  <2>4. /\ wjob' = [wjob EXCEPT ![w] = NoJob]
        /\ UNCHANGED <<sending, queue>>
    BY <1>21 DEF Complete
  <2>5. \A k \in Jobs \ {j} : state'[k] = state[k] /\ notified'[k] = notified[k]
    BY <2>1, <1>21 DEF Complete, TypeOK
  <2>6. notified'[j] => state'[j] \in Terminal
    BY <2>1, <1>21 DEF Complete, TypeOK, HandsInv, PlaceInv, NotifiedInv, Trying, Terminal
  <2>7. ~OwedTo(j)'
    BY <2>1, <1>21 DEF Complete, TypeOK, OwedTo, Terminal, HandsInv, PlaceInv
  <2>8. WaitInv' /\ Apart' /\ NotifiedInv' /\ NoneLost'
    BY <2>1, <2>4, <2>5, <2>6, <2>7, LetGoStep
  <2>9. QED
    BY <2>2, <2>3, <2>8 DEF HandsInv
<1>22. ASSUME NEW c \in Clients, NEW j \in Jobs, Enqueue(c, j) PROVE HandsInv'
  <2> USE <1>22 DEF Enqueue
  <2>1. ~InHand(j)
    <3>1. \A d \in Clients : sending[d] # j
      BY ConfigAssumption DEF HandsInv, WaitInv
    <3>2. \A i \in 1..Len(queue) : queue[i] # j
      BY DEF HandsInv, WaitInv
    <3>3. \A w \in Workers : wjob[w] = j => wpc[w] \in Places \ Resting
      BY ConfigAssumption DEF HandsInv, PlaceInv, TypeOK
    <3>4. \A w \in Workers : wjob[w] # j
      BY <3>3 DEF HandsInv, PlaceInv, Places, Resting, Trying, Terminal
    <3>5. QED
      BY <3>1, <3>2, <3>4 DEF InHand
  <2>2. \A d \in Clients : sending[d] = NoJob
    BY ConfigAssumption DEF HandsInv, NoSendAfterClose
  <2>3. NoSendAfterClose'
    BY <2>2 DEF NoSendAfterClose, TypeOK
  <2>4. PlaceInv'
    BY <2>1 DEF HandsInv, PlaceInv, InHand, TypeOK
  <2>5. WaitInv'
    BY <2>1, <2>2, SMTT(30) DEF HandsInv, WaitInv, InHand, TypeOK
  <2>6. Apart'
    BY <2>1, <2>2, ConfigAssumption, SMTT(30) DEF HandsInv, Apart, InHand, TypeOK
  <2>7. NotifiedInv'
    BY DEF HandsInv, NotifiedInv, TypeOK, Terminal
  <2>8. InHand(j)'
    BY DEF InHand, TypeOK
  <2>9. \A k \in Jobs \ {j} : (OwedTo(k)' <=> OwedTo(k)) /\ (InHand(k) => InHand(k)')
    BY <2>2, ConfigAssumption DEF OwedTo, InHand, TypeOK
  <2>10. NoneLost'
    BY <2>8, <2>9 DEF HandsInv, NoneLost
  <2>11. QED
    BY <2>3, <2>4, <2>5, <2>6, <2>7, <2>10 DEF HandsInv
<1>23. ASSUME NEW c \in Clients, NEW j \in Jobs, Resume(c, j) PROVE HandsInv'
  <2> USE <1>23 DEF Resume, Resumable
  <2>1. ~InHand(j)
    <3>1. \A d \in Clients : sending[d] # j
      BY ConfigAssumption DEF HandsInv, WaitInv
    <3>2. \A i \in 1..Len(queue) : queue[i] # j
      BY DEF HandsInv, WaitInv
    <3>3. \A w \in Workers : wjob[w] = j => wpc[w] \in Places \ Resting
      BY ConfigAssumption DEF HandsInv, PlaceInv, TypeOK
    <3>4. \A w \in Workers : wjob[w] # j
      BY <3>3 DEF HandsInv, PlaceInv, Places, Resting, Trying, Terminal
    <3>5. QED
      BY <3>1, <3>2, <3>4 DEF InHand
  <2>2. \A d \in Clients : sending[d] = NoJob
    BY ConfigAssumption DEF HandsInv, NoSendAfterClose
  <2>3. NoSendAfterClose'
    BY <2>2 DEF NoSendAfterClose, TypeOK
  <2>4. PlaceInv'
    BY <2>1 DEF HandsInv, PlaceInv, InHand, TypeOK
  <2>5. WaitInv'
    BY <2>1, <2>2 DEF HandsInv, WaitInv, InHand, TypeOK
  <2>6. Apart'
    BY <2>1, <2>2, ConfigAssumption DEF HandsInv, Apart, InHand, TypeOK
  <2>7. NotifiedInv'
    BY DEF HandsInv, NotifiedInv, TypeOK, Terminal
  <2>8. InHand(j)'
    BY DEF InHand, TypeOK
  <2>9. \A k \in Jobs \ {j} : (OwedTo(k)' <=> OwedTo(k)) /\ (InHand(k) => InHand(k)')
    BY <2>2, ConfigAssumption DEF OwedTo, InHand, TypeOK
  <2>10. NoneLost'
    BY <2>8, <2>9 DEF HandsInv, NoneLost
  <2>11. QED
    BY <2>3, <2>4, <2>5, <2>6, <2>7, <2>10 DEF HandsInv
<1>24. ASSUME NEW c \in Clients, Send(c) PROVE HandsInv'
  <2> USE <1>24 DEF Send
  <2>1. /\ sending[c] \in Jobs /\ Len(queue') = Len(queue) + 1 /\ Len(queue) \in Nat
        /\ queue'[Len(queue) + 1] = sending[c]
        /\ \A i \in 1..Len(queue) : queue'[i] = queue[i]
    BY DEF TypeOK
  <2>2. \A d \in Clients : sending'[d] = NoJob
    BY DEF HandsInv, NoSendAfterClose, TypeOK
  <2>3. NoSendAfterClose'
    BY <2>2 DEF NoSendAfterClose
  <2>4. PlaceInv'
    BY DEF HandsInv, PlaceInv
  <2>5. WaitInv'
    BY <2>1, <2>2 DEF HandsInv, WaitInv
  <2>6. Apart'
    <3>1. \A v, w \in Workers : wjob'[v] = wjob'[w] /\ wjob'[v] # NoJob => v = w
      BY DEF HandsInv, Apart
    <3>2. \A i, k \in 1..Len(queue') : queue'[i] = queue'[k] => i = k
      BY <2>1 DEF HandsInv, Apart
    <3>3. \A w \in Workers, i \in 1..Len(queue') : wjob'[w] # queue'[i]
      BY <2>1, ConfigAssumption DEF HandsInv, Apart
    <3>4. \A w \in Workers, d \in Clients : wjob'[w] = sending'[d] => wjob'[w] = NoJob
      BY <2>2
    <3>5. \A d \in Clients, i \in 1..Len(queue') : sending'[d] # queue'[i]
      BY <2>1, <2>2, ConfigAssumption, SMTT(30) DEF TypeOK
    <3>6. QED
      BY <3>1, <3>2, <3>3, <3>4, <3>5 DEF Apart
  <2>7. NotifiedInv'
    BY DEF HandsInv, NotifiedInv
  <2>8. \A k \in Jobs : (OwedTo(k)' <=> OwedTo(k))
    BY DEF OwedTo
  <2>9. \A k \in Jobs : InHand(k) => InHand(k)'
    <3> TAKE k \in Jobs
    <3>1. CASE \E d \in Clients : sending[d] = k
      <4>1. k = sending[c]
        BY <3>1, ConfigAssumption DEF HandsInv, NoSendAfterClose
      <4>2. QED
        BY <4>1, <2>1 DEF InHand
    <3>2. CASE \E i \in 1..Len(queue) : queue[i] = k
      BY <3>2, <2>1 DEF InHand
    <3>3. CASE \E w \in Workers : wjob[w] = k
      BY <3>3 DEF InHand
    <3>4. QED
      BY <3>1, <3>2, <3>3 DEF InHand
  <2>10. NoneLost'
    BY <2>8, <2>9 DEF HandsInv, NoneLost
  <2>11. QED
    BY <2>3, <2>4, <2>5, <2>6, <2>7, <2>10 DEF HandsInv
<1>25. ASSUME NEW w \in Workers, Take(w) PROVE HandsInv'
  <2> USE <1>25 DEF Take
  <2>1. /\ Len(queue) \in Nat \ {0} /\ Len(queue') = Len(queue) - 1
        /\ wjob'[w] = queue[1] /\ queue[1] \in Jobs /\ wjob[w] = NoJob
        /\ \A i \in 1..Len(queue') : queue'[i] = queue[i + 1] /\ i + 1 \in 1..Len(queue)
    BY DEF TypeOK, HandsInv, PlaceInv, Resting
  <2>2. \A v \in Workers \ {w} : wjob'[v] = wjob[v] /\ wpc'[v] = wpc[v]
    BY DEF TypeOK
  <2>3. NoSendAfterClose'
    BY DEF HandsInv, NoSendAfterClose
  <2>4. PlaceInv'
    BY <2>1, <2>2, ConfigAssumption DEF HandsInv, PlaceInv, WaitInv, TypeOK, Resting, Trying
  <2>5. WaitInv'
    BY <2>1 DEF HandsInv, WaitInv
  <2>6. Apart'
    <3>1. \A u, v \in Workers : wjob'[u] = wjob'[v] /\ wjob'[u] # NoJob => u = v
      BY <2>1, <2>2 DEF HandsInv, Apart
    <3>2. \A i, k \in 1..Len(queue') : queue'[i] = queue'[k] => i = k
      BY <2>1 DEF HandsInv, Apart
    <3>3. \A v \in Workers, i \in 1..Len(queue') : wjob'[v] # queue'[i]
      BY <2>1, <2>2 DEF HandsInv, Apart
    <3>4. \A v \in Workers, d \in Clients : wjob'[v] = sending'[d] => wjob'[v] = NoJob
      BY <2>1, <2>2 DEF HandsInv, Apart
    <3>5. \A d \in Clients, i \in 1..Len(queue') : sending'[d] # queue'[i]
      BY <2>1 DEF HandsInv, Apart
    <3>6. QED
      BY <3>1, <3>2, <3>3, <3>4, <3>5 DEF Apart
  <2>7. NotifiedInv'
    BY DEF HandsInv, NotifiedInv
  <2>8. \A k \in Jobs : (OwedTo(k)' <=> OwedTo(k))
    BY DEF OwedTo
  <2>9. \A k \in Jobs : InHand(k) => InHand(k)'
    <3> TAKE k \in Jobs
    <3>1. CASE \E d \in Clients : sending[d] = k
      BY <3>1 DEF InHand
    <3>2. CASE \E i \in 1..Len(queue) : queue[i] = k
      <4>1. PICK i \in 1..Len(queue) : queue[i] = k
        BY <3>2
      <4>2. CASE i = 1
        BY <4>1, <4>2, <2>1 DEF InHand
      <4>3. CASE i # 1
        <5>1. i - 1 \in 1..Len(queue')
          BY <4>3, <2>1
        <5>2. queue'[i - 1] = k
          BY <4>1, <5>1, <2>1
        <5>3. QED
          BY <5>1, <5>2 DEF InHand
      <4>4. QED
        BY <4>2, <4>3
    <3>3. CASE \E v \in Workers : wjob[v] = k
      BY <3>3, <2>1, <2>2, ConfigAssumption DEF InHand
    <3>4. QED
      BY <3>1, <3>2, <3>3 DEF InHand
  <2>10. NoneLost'
    BY <2>8, <2>9 DEF HandsInv, NoneLost
  <2>11. QED
    BY <2>3, <2>4, <2>5, <2>6, <2>7, <2>10 DEF HandsInv
<1>26. QED
  BY <1>1, <1>2, <1>3, <1>4, <1>5, <1>6, <1>7, <1>8, <1>9, <1>10, <1>11, <1>12, <1>13, <1>14, <1>15, <1>16, <1>17, <1>18, <1>19, <1>20, <1>21, <1>22, <1>23, <1>24, <1>25
     DEF Next, Api, Work

-----------------------------------------------------------------------------

(* The initial state satisfies the invariant.                              *)
LEMMA IInvInit == Init => IInv
<1> SUFFICES ASSUME Init PROVE IInv
  OBVIOUS
<1> USE ConfigAssumption DEF Init
<1>1. TypeOK
  <2>1. queue \in Seq(Jobs) /\ Len(queue) = 0
    OBVIOUS
  <2>2. /\ state \in [Jobs -> States] /\ notified \in [Jobs -> BOOLEAN]
        /\ pauseReq \in [Jobs -> BOOLEAN] /\ attempts \in [Jobs -> Nat]
        /\ pauses \in [Jobs -> Nat] /\ failures \in [Jobs -> Nat]
    BY DEF States
  <2>3. /\ wpc \in [Workers -> Places] /\ wjob \in [Workers -> Jobs \cup {NoJob}]
        /\ attempt \in [Workers -> Nat]
    BY DEF Places
  <2>4. /\ sending \in [Clients -> Jobs \cup {NoJob}] /\ mu \in Clients \cup {NoOne}
        /\ started \in BOOLEAN /\ stopped \in BOOLEAN
    OBVIOUS
  <2>5. QED
    BY <2>1, <2>2, <2>3, <2>4 DEF TypeOK
<1>2. HandsInv
  BY DEF HandsInv, NoSendAfterClose, PlaceInv, WaitInv, Apart, NotifiedInv, NoneLost, OwedTo,
         Resting, Trying, Terminal
<1>3. TryInv
  BY DEF TryInv, Due
<1>4. AttemptInv
  BY DEF AttemptInv, Trying
<1>5. QED
  BY <1>1, <1>2, <1>3, <1>4 DEF IInv

(* Every action keeps the account of tries, pauses and failures.           *)
LEMMA TryStep == IInv /\ [Next]_vars => TryInv' /\ AttemptInv'
<1> SUFFICES ASSUME IInv, [Next]_vars PROVE TryInv' /\ AttemptInv'
  OBVIOUS
<1> USE ConfigAssumption DEF Goto, LeaveJob, SetState, mgrVars, jobVars, workerVars
<1>0. \A w \in Workers : wpc[w] \notin Resting => wjob[w] \in Jobs
  BY DEF IInv, HandsInv, PlaceInv, TypeOK
<1>1. CASE Start
  <2>1. TryInv'
    BY <1>1 DEF Start, IInv, TypeOK, TryInv, Due
  <2>2. AttemptInv'
    BY <1>1 DEF Start, IInv, TypeOK, AttemptInv, Trying
  <2>3. QED
    BY <2>1, <2>2
<1>2. CASE Shutdown
  <2>1. TryInv'
    BY <1>2 DEF Shutdown, IInv, TypeOK, TryInv, Due
  <2>2. AttemptInv'
    BY <1>2 DEF Shutdown, IInv, TypeOK, AttemptInv, Trying
  <2>3. QED
    BY <2>1, <2>2
<1>3. ASSUME NEW c \in Clients, Send(c) PROVE TryInv' /\ AttemptInv'
  <2>1. TryInv'
    BY <1>3 DEF Send, IInv, TypeOK, TryInv, Due
  <2>2. AttemptInv'
    BY <1>3 DEF Send, IInv, TypeOK, AttemptInv, Trying
  <2>3. QED
    BY <2>1, <2>2
<1>4. ASSUME NEW w \in Workers, Take(w) PROVE TryInv' /\ AttemptInv'
  <2>1. TryInv'
    BY <1>4 DEF Take, IInv, TypeOK, TryInv, Due
  <2>2. AttemptInv'
    BY <1>4 DEF Take, IInv, TypeOK, AttemptInv, Trying
  <2>3. QED
    BY <2>1, <2>2
<1>5. ASSUME NEW w \in Workers, Spawn(w) PROVE TryInv' /\ AttemptInv'
  <2>1. TryInv'
    BY <1>5 DEF Spawn, IInv, TypeOK, TryInv, Due
  <2>2. AttemptInv'
    BY <1>5 DEF Spawn, IInv, TypeOK, AttemptInv, Trying
  <2>3. QED
    BY <2>1, <2>2
<1>6. ASSUME NEW w \in Workers, Exit(w) PROVE TryInv' /\ AttemptInv'
  <2>1. TryInv'
    BY <1>6 DEF Exit, IInv, TypeOK, TryInv, Due
  <2>2. AttemptInv'
    BY <1>6 DEF Exit, IInv, TypeOK, AttemptInv, Trying
  <2>3. QED
    BY <2>1, <2>2
<1>7. CASE UNCHANGED vars
  <2>1. TryInv'
    BY <1>7 DEF vars, IInv, TypeOK, TryInv, Due
  <2>2. AttemptInv'
    BY <1>7 DEF vars, IInv, TypeOK, AttemptInv, Trying
  <2>3. QED
    BY <2>1, <2>2
<1>8. ASSUME NEW j \in Jobs, Pause(j) PROVE TryInv' /\ AttemptInv'
  <2>1. TryInv'
    BY <1>8, SMTT(30) DEF Pause, RequestPause, IInv, TypeOK, TryInv, Due
  <2>2. AttemptInv'
    BY <1>8, SMTT(30) DEF Pause, RequestPause, IInv, TypeOK, AttemptInv, Trying
  <2>3. QED
    BY <2>1, <2>2
<1>9. ASSUME NEW c \in Clients, NEW j \in Jobs, Enqueue(c, j) PROVE TryInv' /\ AttemptInv'
  <2>1. TryInv'
    BY <1>9 DEF Enqueue, IInv, TypeOK, TryInv, Due
  <2>2. AttemptInv'
    BY <1>9 DEF Enqueue, IInv, TypeOK, AttemptInv, Trying
  <2>3. QED
    BY <2>1, <2>2
<1>10. ASSUME NEW c \in Clients, NEW j \in Jobs, Resume(c, j) PROVE TryInv' /\ AttemptInv'
  <2>1. TryInv'
    BY <1>10 DEF Resume, Resumable, IInv, TypeOK, TryInv, Due
  <2>2. AttemptInv'
    BY <1>10 DEF Resume, Resumable, IInv, TypeOK, AttemptInv, HandsInv, PlaceInv, Trying
  <2>3. QED
    BY <2>1, <2>2
<1>11. ASSUME NEW w \in Workers, BeginPaused(w) PROVE TryInv' /\ AttemptInv'
  <2>1. PICK j \in Jobs : j = wjob[w]
    BY <1>0, <1>11 DEF BeginPaused, Resting
  <2>2. \A v \in Workers \ {w} : wjob[v] # j /\ wjob'[v] = wjob[v] /\ wpc'[v] = wpc[v]
    BY <2>1, <1>11 DEF BeginPaused, IInv, TypeOK, HandsInv, Apart
  <2>3. \A v \in Workers : wpc[v] \in Trying => wjob[v] \in Jobs
    BY <1>0 DEF Resting, Trying
  <2>4. TryInv'
    BY <2>1, <1>11 DEF BeginPaused, IInv, TypeOK, TryInv, AttemptInv, Due, HandsInv, PlaceInv, Trying,
       Exhausted, CtxDead, Terminal
  <2>5. AttemptInv'
    BY <2>1, <2>2, <2>3, <1>11 DEF BeginPaused, IInv, TypeOK, TryInv, AttemptInv, Trying, HandsInv,
       PlaceInv, Exhausted, CtxDead, Terminal
  <2>6. QED
    BY <2>4, <2>5
<1>12. ASSUME NEW w \in Workers, Begin(w) PROVE TryInv' /\ AttemptInv'
  <2>1. PICK j \in Jobs : j = wjob[w]
    BY <1>0, <1>12 DEF Begin, Resting
  <2>2. \A v \in Workers \ {w} : wjob[v] # j /\ wjob'[v] = wjob[v] /\ wpc'[v] = wpc[v]
    BY <2>1, <1>12 DEF Begin, IInv, TypeOK, HandsInv, Apart
  <2>3. \A v \in Workers : wpc[v] \in Trying => wjob[v] \in Jobs
    BY <1>0 DEF Resting, Trying
  <2>4. TryInv'
    BY <2>1, <1>12 DEF Begin, IInv, TypeOK, TryInv, AttemptInv, Due, HandsInv, PlaceInv, Trying,
       Exhausted, CtxDead, Terminal
  <2>5. AttemptInv'
    BY <2>1, <2>2, <2>3, <1>12 DEF Begin, IInv, TypeOK, TryInv, AttemptInv, Trying, HandsInv,
       PlaceInv, Exhausted, CtxDead, Terminal
  <2>6. QED
    BY <2>4, <2>5
<1>13. ASSUME NEW w \in Workers, StartAttempt(w) PROVE TryInv' /\ AttemptInv'
  <2>1. PICK j \in Jobs : j = wjob[w]
    BY <1>0, <1>13 DEF StartAttempt, Resting
  <2>2. \A v \in Workers \ {w} : wjob[v] # j /\ wjob'[v] = wjob[v] /\ wpc'[v] = wpc[v]
    BY <2>1, <1>13 DEF StartAttempt, IInv, TypeOK, HandsInv, Apart
  <2>3. \A v \in Workers : wpc[v] \in Trying => wjob[v] \in Jobs
    BY <1>0 DEF Resting, Trying
  <2>4. TryInv'
    BY <2>1, <1>13, SMTT(30) DEF StartAttempt, IInv, TypeOK, TryInv, AttemptInv, Due, HandsInv, PlaceInv, Trying,
       Exhausted, CtxDead, Terminal
  <2>5. AttemptInv'
    <3>1. /\ wpc' = [wpc EXCEPT ![w] = "fetch"] /\ wjob' = wjob /\ failures' = failures
          /\ attempts' = [attempts EXCEPT ![j] = @ + 1]
          /\ attempt' = [attempt EXCEPT ![w] = attempts[j] + 1]
          /\ stopped' = stopped /\ pauseReq' = pauseReq
      BY <2>1, <1>13 DEF StartAttempt
    <3>2. failures[j] <= MaxRetries /\ failures[j] <= attempts[j]
      BY <2>1, <1>13 DEF StartAttempt, IInv, HandsInv, PlaceInv, TryInv
    <3>3. wpc'[w] = "fetch" /\ attempt'[w] = attempts'[j] /\ failures'[j] < attempts'[j]
      BY <3>1, <3>2 DEF IInv, TypeOK
    <3>4. \A v \in Workers \ {w} : /\ wpc'[v] = wpc[v] /\ attempt'[v] = attempt[v]
                                 /\ wpc[v] \in Trying => attempts'[wjob[v]] = attempts[wjob[v]]
      BY <2>2, <2>3, <3>1 DEF IInv, TypeOK
    <3>5. QED
      BY <2>1, <3>1, <3>2, <3>3, <3>4 DEF IInv, AttemptInv, Trying
  <2>6. QED
    BY <2>4, <2>5
<1>14. ASSUME NEW w \in Workers, Progress(w) PROVE TryInv' /\ AttemptInv'
  <2>1. PICK j \in Jobs : j = wjob[w]
    BY <1>0, <1>14 DEF Progress, Resting
  <2>2. \A v \in Workers \ {w} : wjob[v] # j /\ wjob'[v] = wjob[v] /\ wpc'[v] = wpc[v]
    BY <2>1, <1>14 DEF Progress, IInv, TypeOK, HandsInv, Apart
  <2>3. \A v \in Workers : wpc[v] \in Trying => wjob[v] \in Jobs
    BY <1>0 DEF Resting, Trying
  <2>4. TryInv'
    BY <2>1, <1>14 DEF Progress, IInv, TypeOK, TryInv, AttemptInv, Due, HandsInv, PlaceInv, Trying,
       Exhausted, CtxDead, Terminal
  <2>5. AttemptInv'
    BY <2>1, <2>2, <2>3, <1>14 DEF Progress, IInv, TypeOK, TryInv, AttemptInv, Trying, HandsInv,
       PlaceInv, Exhausted, CtxDead, Terminal
  <2>6. QED
    BY <2>4, <2>5
<1>15. ASSUME NEW w \in Workers, CallbackPause(w) PROVE TryInv' /\ AttemptInv'
  <2>1. PICK j \in Jobs : j = wjob[w]
    BY <1>0, <1>15 DEF CallbackPause, Resting
  <2>2. \A v \in Workers \ {w} : wjob[v] # j /\ wjob'[v] = wjob[v] /\ wpc'[v] = wpc[v]
    BY <2>1, <1>15 DEF CallbackPause, IInv, TypeOK, HandsInv, Apart
  <2>3. \A v \in Workers : wpc[v] \in Trying => wjob[v] \in Jobs
    BY <1>0 DEF Resting, Trying
  <2>4. TryInv'
    BY <2>1, <1>15, SMTT(30) DEF CallbackPause, RequestPause, IInv, TypeOK, TryInv, AttemptInv, Due, HandsInv, PlaceInv, Trying,
       Exhausted, CtxDead, Terminal
  <2>5. AttemptInv'
    BY <2>1, <2>2, <2>3, <1>15 DEF CallbackPause, RequestPause, IInv, TypeOK, TryInv, AttemptInv, Trying, HandsInv,
       PlaceInv, Exhausted, CtxDead, Terminal
  <2>6. QED
    BY <2>4, <2>5
<1>16. ASSUME NEW w \in Workers, JudgePaused(w) PROVE TryInv' /\ AttemptInv'
  <2>1. PICK j \in Jobs : j = wjob[w]
    BY <1>0, <1>16 DEF JudgePaused, Resting
  <2>2. \A v \in Workers \ {w} : wjob[v] # j /\ wjob'[v] = wjob[v] /\ wpc'[v] = wpc[v]
    BY <2>1, <1>16 DEF JudgePaused, IInv, TypeOK, HandsInv, Apart
  <2>3. \A v \in Workers : wpc[v] \in Trying => wjob[v] \in Jobs
    BY <1>0 DEF Resting, Trying
  <2>4. TryInv'
    BY <2>1, <1>16 DEF JudgePaused, IInv, TypeOK, TryInv, AttemptInv, Due, HandsInv, PlaceInv, Trying,
       Exhausted, CtxDead, Terminal
  <2>5. AttemptInv'
    BY <2>1, <2>2, <2>3, <1>16 DEF JudgePaused, IInv, TypeOK, TryInv, AttemptInv, Trying, HandsInv,
       PlaceInv, Exhausted, CtxDead, Terminal
  <2>6. QED
    BY <2>4, <2>5
<1>17. ASSUME NEW w \in Workers, SetPaused(w) PROVE TryInv' /\ AttemptInv'
  <2>1. PICK j \in Jobs : j = wjob[w]
    BY <1>0, <1>17 DEF SetPaused, Resting
  <2>2. \A v \in Workers \ {w} : wjob[v] # j /\ wjob'[v] = wjob[v] /\ wpc'[v] = wpc[v]
    BY <2>1, <1>17 DEF SetPaused, IInv, TypeOK, HandsInv, Apart
  <2>3. \A v \in Workers : wpc[v] \in Trying => wjob[v] \in Jobs
    BY <1>0 DEF Resting, Trying
  <2>4. TryInv'
    BY <2>1, <1>17 DEF SetPaused, IInv, TypeOK, TryInv, AttemptInv, Due, HandsInv, PlaceInv, Trying,
       Exhausted, CtxDead, Terminal
  <2>5. AttemptInv'
    BY <2>1, <2>2, <2>3, <1>17 DEF SetPaused, IInv, TypeOK, TryInv, AttemptInv, Trying, HandsInv,
       PlaceInv, Exhausted, CtxDead, Terminal
  <2>6. QED
    BY <2>4, <2>5
<1>18. ASSUME NEW w \in Workers, JudgePermanent(w) PROVE TryInv' /\ AttemptInv'
  <2>1. PICK j \in Jobs : j = wjob[w]
    BY <1>0, <1>18 DEF JudgePermanent, Resting
  <2>2. \A v \in Workers \ {w} : wjob[v] # j /\ wjob'[v] = wjob[v] /\ wpc'[v] = wpc[v]
    BY <2>1, <1>18 DEF JudgePermanent, IInv, TypeOK, HandsInv, Apart
  <2>3. \A v \in Workers : wpc[v] \in Trying => wjob[v] \in Jobs
    BY <1>0 DEF Resting, Trying
  <2>4. TryInv'
    BY <2>1, <1>18 DEF JudgePermanent, IInv, TypeOK, TryInv, AttemptInv, Due, HandsInv, PlaceInv, Trying,
       Exhausted, CtxDead, Terminal
  <2>5. AttemptInv'
    BY <2>1, <2>2, <2>3, <1>18 DEF JudgePermanent, IInv, TypeOK, TryInv, AttemptInv, Trying, HandsInv,
       PlaceInv, Exhausted, CtxDead, Terminal
  <2>6. QED
    BY <2>4, <2>5
<1>19. ASSUME NEW w \in Workers, JudgeTransient(w) PROVE TryInv' /\ AttemptInv'
  <2>1. PICK j \in Jobs : j = wjob[w]
    BY <1>0, <1>19 DEF JudgeTransient, Resting
  <2>2. \A v \in Workers \ {w} : wjob[v] # j /\ wjob'[v] = wjob[v] /\ wpc'[v] = wpc[v]
    BY <2>1, <1>19 DEF JudgeTransient, IInv, TypeOK, HandsInv, Apart
  <2>3. \A v \in Workers : wpc[v] \in Trying => wjob[v] \in Jobs
    BY <1>0 DEF Resting, Trying
  <2>4. TryInv'
    <3>1. /\ UNCHANGED <<stopped, state, attempts, pauseReq, pauses>>
          /\ failures' = [failures EXCEPT ![j] = @ + 1]
          /\ wpc[w] = "transient"
      BY <2>1, <1>19 DEF JudgeTransient
    <3>2. state[j] = "running" /\ failures[j] < attempts[j] /\ failures[j] <= MaxRetries
      BY <2>1, <3>1 DEF IInv, HandsInv, PlaceInv, AttemptInv, Trying
    <3>3. QED
      BY <3>1, <3>2, SMTT(30) DEF IInv, TypeOK, TryInv, Due
  <2>5. AttemptInv'
    BY <2>1, <2>2, <2>3, <1>19 DEF JudgeTransient, IInv, TypeOK, TryInv, AttemptInv, Trying, HandsInv,
       PlaceInv, Exhausted, CtxDead, Terminal
  <2>6. QED
    BY <2>4, <2>5
<1>20. ASSUME NEW w \in Workers, SetRetrying(w) PROVE TryInv' /\ AttemptInv'
  <2>1. PICK j \in Jobs : j = wjob[w]
    BY <1>0, <1>20 DEF SetRetrying, Resting
  <2>2. \A v \in Workers \ {w} : wjob[v] # j /\ wjob'[v] = wjob[v] /\ wpc'[v] = wpc[v]
    BY <2>1, <1>20 DEF SetRetrying, IInv, TypeOK, HandsInv, Apart
  <2>3. \A v \in Workers : wpc[v] \in Trying => wjob[v] \in Jobs
    BY <1>0 DEF Resting, Trying
  <2>4. TryInv'
    BY <2>1, <1>20 DEF SetRetrying, IInv, TypeOK, TryInv, AttemptInv, Due, HandsInv, PlaceInv, Trying,
       Exhausted, CtxDead, Terminal
  <2>5. AttemptInv'
    BY <2>1, <2>2, <2>3, <1>20 DEF SetRetrying, IInv, TypeOK, TryInv, AttemptInv, Trying, HandsInv,
       PlaceInv, Exhausted, CtxDead, Terminal
  <2>6. QED
    BY <2>4, <2>5
<1>21. ASSUME NEW w \in Workers, BackoffElapses(w) PROVE TryInv' /\ AttemptInv'
  <2>1. PICK j \in Jobs : j = wjob[w]
    BY <1>0, <1>21 DEF BackoffElapses, Resting
  <2>2. \A v \in Workers \ {w} : wjob[v] # j /\ wjob'[v] = wjob[v] /\ wpc'[v] = wpc[v]
    BY <2>1, <1>21 DEF BackoffElapses, IInv, TypeOK, HandsInv, Apart
  <2>3. \A v \in Workers : wpc[v] \in Trying => wjob[v] \in Jobs
    BY <1>0 DEF Resting, Trying
  <2>4. TryInv'
    BY <2>1, <1>21 DEF BackoffElapses, IInv, TypeOK, TryInv, AttemptInv, Due, HandsInv, PlaceInv, Trying,
       Exhausted, CtxDead, Terminal
  <2>5. AttemptInv'
    BY <2>1, <2>2, <2>3, <1>21 DEF BackoffElapses, IInv, TypeOK, TryInv, AttemptInv, Trying, HandsInv,
       PlaceInv, Exhausted, CtxDead, Terminal
  <2>6. QED
    BY <2>4, <2>5
<1>22. ASSUME NEW w \in Workers, BackoffInterrupted(w) PROVE TryInv' /\ AttemptInv'
  <2>1. PICK j \in Jobs : j = wjob[w]
    BY <1>0, <1>22 DEF BackoffInterrupted, Resting
  <2>2. \A v \in Workers \ {w} : wjob[v] # j /\ wjob'[v] = wjob[v] /\ wpc'[v] = wpc[v]
    BY <2>1, <1>22 DEF BackoffInterrupted, IInv, TypeOK, HandsInv, Apart
  <2>3. \A v \in Workers : wpc[v] \in Trying => wjob[v] \in Jobs
    BY <1>0 DEF Resting, Trying
  <2>4. TryInv'
    BY <2>1, <1>22 DEF BackoffInterrupted, IInv, TypeOK, TryInv, AttemptInv, Due, HandsInv, PlaceInv, Trying,
       Exhausted, CtxDead, Terminal
  <2>5. AttemptInv'
    BY <2>1, <2>2, <2>3, <1>22 DEF BackoffInterrupted, IInv, TypeOK, TryInv, AttemptInv, Trying, HandsInv,
       PlaceInv, Exhausted, CtxDead, Terminal
  <2>6. QED
    BY <2>4, <2>5
<1>23. ASSUME NEW w \in Workers, Finish(w) PROVE TryInv' /\ AttemptInv'
  <2>1. PICK j \in Jobs : j = wjob[w]
    BY <1>0, <1>23 DEF Finish, Resting, Terminal
  <2>2. \A v \in Workers \ {w} : wjob[v] # j /\ wjob'[v] = wjob[v] /\ wpc'[v] = wpc[v]
    BY <2>1, <1>23 DEF Finish, IInv, TypeOK, HandsInv, Apart
  <2>3. \A v \in Workers : wpc[v] \in Trying => wjob[v] \in Jobs
    BY <1>0 DEF Resting, Trying
  <2>4. TryInv'
    BY <2>1, <1>23, SMTT(30) DEF Finish, IInv, TypeOK, TryInv, AttemptInv, Due, HandsInv, PlaceInv, Trying,
       Exhausted, CtxDead, Terminal
  <2>5. AttemptInv'
    BY <2>1, <2>2, <2>3, <1>23 DEF Finish, IInv, TypeOK, TryInv, AttemptInv, Trying, HandsInv,
       PlaceInv, Exhausted, CtxDead, Terminal
  <2>6. QED
    BY <2>4, <2>5
<1>24. ASSUME NEW w \in Workers, Complete(w) PROVE TryInv' /\ AttemptInv'
  <2>1. PICK j \in Jobs : j = wjob[w]
    BY <1>0, <1>24 DEF Complete, Resting
  <2>2. \A v \in Workers \ {w} : wjob[v] # j /\ wjob'[v] = wjob[v] /\ wpc'[v] = wpc[v]
    BY <2>1, <1>24 DEF Complete, IInv, TypeOK, HandsInv, Apart
  <2>3. \A v \in Workers : wpc[v] \in Trying => wjob[v] \in Jobs
    BY <1>0 DEF Resting, Trying
  <2>4. TryInv'
    BY <2>1, <1>24 DEF Complete, IInv, TypeOK, TryInv, AttemptInv, Due, HandsInv, PlaceInv, Trying,
       Exhausted, CtxDead, Terminal
  <2>5. AttemptInv'
    BY <2>1, <2>2, <2>3, <1>24 DEF Complete, IInv, TypeOK, TryInv, AttemptInv, Trying, HandsInv,
       PlaceInv, Exhausted, CtxDead, Terminal
  <2>6. QED
    BY <2>4, <2>5
<1>25. ASSUME NEW w \in Workers, NEW to \in {"succeeded", "transient", "permanent"},
             FetchReturns(w, to) PROVE TryInv' /\ AttemptInv'
  <2>1. TryInv'
    BY <1>25 DEF FetchReturns, IInv, TypeOK, TryInv, Due
  <2>2. AttemptInv'
    BY <1>25 DEF FetchReturns, IInv, TypeOK, AttemptInv, Trying
  <2>3. QED
    BY <2>1, <2>2
<1>26. QED
  BY <1>1, <1>2, <1>3, <1>4, <1>5, <1>6, <1>7, <1>8, <1>9, <1>10, <1>11, <1>12, <1>13, <1>14, <1>15, <1>16, <1>17, <1>18, <1>19, <1>20, <1>21, <1>22, <1>23, <1>24, <1>25
     DEF Next, Api, Work

-----------------------------------------------------------------------------

(* IInv holds in every reachable state.                                    *)
THEOREM Inductive == Spec => []IInv
<1>1. IInv /\ [Next]_vars => IInv'
  BY TypeStep, HandsStep, TryStep DEF IInv, HandsInv
<1>2. QED
  BY IInvInit, <1>1, PTL DEF Spec

(* The variables keep their types and the queue its capacity.              *)
THEOREM TypeCorrect == Spec => []TypeOK
<1>1. IInv => TypeOK
  BY DEF IInv
<1>2. QED
  BY Inductive, <1>1, PTL

(* Nobody sends to the queue after Shutdown closed it.                     *)
THEOREM QueueOpenForSends == Spec => []NoSendAfterClose
<1>1. IInv => NoSendAfterClose
  BY DEF IInv, HandsInv
<1>2. QED
  BY Inductive, <1>1, PTL

(* No job is run twice at a time, or queued while it runs.                 *)
THEOREM OneRunner == Spec => []SingleRunner
<1>1. IInv => SingleRunner
  <2> SUFFICES ASSUME IInv PROVE SingleRunner
    OBVIOUS
  <2>1. DOMAIN queue = 1..Len(queue)
    BY DEF IInv, TypeOK
  <2>2. Run \cap Queued = {} /\ Run \cap Sent = {} /\ Queued \cap Sent = {}
    BY <2>1 DEF IInv, HandsInv, Apart, Run, Queued, Sent
  <2>3. QED
    BY <2>1, <2>2 DEF IInv, HandsInv, Apart, SingleRunner
<1>2. QED
  BY Inductive, <1>1, PTL

(* No job is lost: who is owed work or a report is in somebody's hands.    *)
THEOREM NoJobLost == Spec => []AccountedFor
<1>1. IInv => AccountedFor
  <2> SUFFICES ASSUME IInv, NEW j \in Jobs
               PROVE  j \in Sent \cup Queued \cup Run <=> OwedTo(j)
    BY DEF AccountedFor, OwedTo
  <2>1. j \in Sent \cup Queued \cup Run <=> InHand(j)
    <3>1. DOMAIN queue = 1..Len(queue)
      BY DEF IInv, TypeOK
    <3>2. j # NoJob
      BY ConfigAssumption
    <3>3. QED
      BY <3>1, <3>2 DEF Sent, Queued, Run, InHand
  <2>2. OwedTo(j) => InHand(j)
    BY DEF IInv, HandsInv, NoneLost
  <2>3. ASSUME NEW w \in Workers, wjob[w] = j PROVE OwedTo(j)
    <3>1. wpc[w] \in Places \ Resting
      BY <2>3, ConfigAssumption DEF IInv, TypeOK, HandsInv, PlaceInv
    <3>2. QED
      BY <2>3, <3>1 DEF IInv, HandsInv, PlaceInv, OwedTo, Places, Resting, Trying
  <2>4. InHand(j) => OwedTo(j)
    BY <2>3, ConfigAssumption DEF IInv, HandsInv, WaitInv, InHand, OwedTo
  <2>5. QED
    BY <2>1, <2>2, <2>4
<1>2. QED
  BY Inductive, <1>1, PTL

(* The retry budget bounds failures, and pauses the tries beyond it.       *)
THEOREM BudgetKept == Spec => []RetryBudget
<1>1. IInv => RetryBudget
  BY DEF IInv, TryInv, RetryBudget
<1>2. QED
  BY Inductive, <1>1, PTL

-----------------------------------------------------------------------------

(* Every step is a step in the life of one job, or none at all.            *)
LEMMA StepImplements == IInv /\ [Next]_vars => [Lifecycle!Next]_<<state, notified>>
<1> SUFFICES ASSUME IInv, [Next]_vars PROVE [Lifecycle!Next]_<<state, notified>>
  OBVIOUS
<1> USE DEF Goto, LeaveJob, SetState, mgrVars, jobVars, workerVars
<1>0. \A w \in Workers : wpc[w] \notin Resting => wjob[w] \in Jobs
  BY DEF IInv, HandsInv, PlaceInv, TypeOK
<1>1. ASSUME NEW c \in Clients, NEW j \in Jobs, Enqueue(c, j)
    PROVE [Lifecycle!Next]_<<state, notified>>
  BY <1>1 DEF Enqueue, Lifecycle!Next, Lifecycle!Accept, Lifecycle!Move
<1>2. ASSUME NEW c \in Clients, NEW j \in Jobs, Resume(c, j)
    PROVE [Lifecycle!Next]_<<state, notified>>
  BY <1>2 DEF Resume, Resumable, Lifecycle!Next, Lifecycle!Resume, Lifecycle!Move
<1>3. ASSUME NEW w \in Workers, BeginPaused(w)
    PROVE [Lifecycle!Next]_<<state, notified>>
  <2>1. PICK j \in Jobs : j = wjob[w]
    BY <1>0, <1>3 DEF BeginPaused, Resting
  <2>2. Lifecycle!Suspend(j)
    BY <2>1, <1>3 DEF BeginPaused, IInv, HandsInv, PlaceInv, Trying,
       Lifecycle!Suspend, Lifecycle!Move
  <2>3. QED
    BY <2>2 DEF Lifecycle!Next
<1>4. ASSUME NEW w \in Workers, SetPaused(w)
    PROVE [Lifecycle!Next]_<<state, notified>>
  <2>1. PICK j \in Jobs : j = wjob[w]
    BY <1>0, <1>4 DEF SetPaused, Resting
  <2>2. Lifecycle!Suspend(j)
    BY <2>1, <1>4 DEF SetPaused, IInv, HandsInv, PlaceInv, Trying,
       Lifecycle!Suspend, Lifecycle!Move
  <2>3. QED
    BY <2>2 DEF Lifecycle!Next
<1>5. ASSUME NEW w \in Workers, BackoffInterrupted(w)
    PROVE [Lifecycle!Next]_<<state, notified>>
  <2>1. PICK j \in Jobs : j = wjob[w]
    BY <1>0, <1>5 DEF BackoffInterrupted, Resting
  <2>2. Lifecycle!Suspend(j)
    BY <2>1, <1>5 DEF BackoffInterrupted, IInv, HandsInv, PlaceInv, Trying,
       Lifecycle!Suspend, Lifecycle!Move
  <2>3. QED
    BY <2>2 DEF Lifecycle!Next
<1>6. ASSUME NEW w \in Workers, StartAttempt(w)
    PROVE [Lifecycle!Next]_<<state, notified>>
  <2>1. PICK j \in Jobs : j = wjob[w]
    BY <1>0, <1>6 DEF StartAttempt, Resting
  <2>2. Lifecycle!Attempt(j)
    BY <2>1, <1>6 DEF StartAttempt, IInv, HandsInv, PlaceInv, Trying,
       Lifecycle!Attempt, Lifecycle!Move
  <2>3. QED
    BY <2>2 DEF Lifecycle!Next
<1>7. ASSUME NEW w \in Workers, SetRetrying(w)
    PROVE [Lifecycle!Next]_<<state, notified>>
  <2>1. PICK j \in Jobs : j = wjob[w]
    BY <1>0, <1>7 DEF SetRetrying, Resting
  <2>2. Lifecycle!Retry(j)
    BY <2>1, <1>7 DEF SetRetrying, IInv, HandsInv, PlaceInv, Trying,
       Lifecycle!Retry, Lifecycle!Move
  <2>3. QED
    BY <2>2 DEF Lifecycle!Next
<1>8. ASSUME NEW w \in Workers, Complete(w)
    PROVE [Lifecycle!Next]_<<state, notified>>
  <2>1. PICK j \in Jobs : j = wjob[w]
    BY <1>0, <1>8 DEF Complete, Resting
  <2>2. Lifecycle!Notify(j)
    BY <2>1, <1>8 DEF Complete, IInv, HandsInv, PlaceInv, Trying, Lifecycle!Terminal, Terminal,
       Lifecycle!Notify
  <2>3. QED
    BY <2>2 DEF Lifecycle!Next
<1>9. ASSUME NEW w \in Workers, Finish(w)
    PROVE [Lifecycle!Next]_<<state, notified>>
  <2>1. PICK j \in Jobs : j = wjob[w]
    BY <1>0, <1>9 DEF Finish, Resting, Terminal
  <2>2. Lifecycle!Finish(j)
    BY <2>1, <1>9 DEF Finish, IInv, HandsInv, PlaceInv, Trying, Lifecycle!Terminal, Terminal,
       Lifecycle!Finish, Lifecycle!Move
  <2>3. QED
    BY <2>2 DEF Lifecycle!Next
<1>10. CASE Start
  BY <1>10 DEF Start
<1>11. CASE Shutdown
  BY <1>11 DEF Shutdown
<1>12. ASSUME NEW c \in Clients, Send(c)
    PROVE [Lifecycle!Next]_<<state, notified>>
  BY <1>12 DEF Send
<1>13. ASSUME NEW j \in Jobs, Pause(j)
    PROVE [Lifecycle!Next]_<<state, notified>>
  BY <1>13 DEF Pause, RequestPause
<1>14. ASSUME NEW w \in Workers, Spawn(w)
    PROVE [Lifecycle!Next]_<<state, notified>>
  BY <1>14 DEF Spawn
<1>15. ASSUME NEW w \in Workers, Take(w)
    PROVE [Lifecycle!Next]_<<state, notified>>
  BY <1>15 DEF Take
<1>16. ASSUME NEW w \in Workers, Exit(w)
    PROVE [Lifecycle!Next]_<<state, notified>>
  BY <1>16 DEF Exit
<1>17. ASSUME NEW w \in Workers, Begin(w)
    PROVE [Lifecycle!Next]_<<state, notified>>
  BY <1>17 DEF Begin
<1>18. ASSUME NEW w \in Workers, Progress(w)
    PROVE [Lifecycle!Next]_<<state, notified>>
  BY <1>18 DEF Progress
<1>19. ASSUME NEW w \in Workers, CallbackPause(w)
    PROVE [Lifecycle!Next]_<<state, notified>>
  BY <1>19 DEF CallbackPause, RequestPause
<1>20. ASSUME NEW w \in Workers, JudgePaused(w)
    PROVE [Lifecycle!Next]_<<state, notified>>
  BY <1>20 DEF JudgePaused
<1>21. ASSUME NEW w \in Workers, JudgePermanent(w)
    PROVE [Lifecycle!Next]_<<state, notified>>
  BY <1>21 DEF JudgePermanent
<1>22. ASSUME NEW w \in Workers, JudgeTransient(w)
    PROVE [Lifecycle!Next]_<<state, notified>>
  BY <1>22 DEF JudgeTransient
<1>23. ASSUME NEW w \in Workers, BackoffElapses(w)
    PROVE [Lifecycle!Next]_<<state, notified>>
  BY <1>23 DEF BackoffElapses
<1>24. ASSUME NEW w \in Workers, NEW to \in {"succeeded", "transient", "permanent"},
             FetchReturns(w, to)
    PROVE [Lifecycle!Next]_<<state, notified>>
  BY <1>24 DEF FetchReturns
<1>25. CASE UNCHANGED vars
  BY <1>25 DEF vars
<1>26. QED
  BY <1>1, <1>2, <1>3, <1>4, <1>5, <1>6, <1>7, <1>8, <1>9, <1>10, <1>11, <1>12, <1>13, <1>14, <1>15, <1>16, <1>17, <1>18, <1>19, <1>20, <1>21, <1>22, <1>23, <1>24, <1>25
     DEF Next, Api, Work

(* The manager gives every job the life that JobLifecycle describes.       *)
THEOREM Implements == Spec => LifecycleSpec
<1>1. Init => Lifecycle!Init
  BY DEF Init, Lifecycle!Init
<1>2. QED
  BY Inductive, <1>1, StepImplements, PTL DEF Spec, LifecycleSpec, Lifecycle!Spec

(* A final state stays, because no step of that life leaves one.           *)
THEOREM FinalStays == Spec => TerminalIsFinal
<1>1. IInv /\ [Next]_vars =>
        [\A j \in Jobs : state[j] \in Terminal => state'[j] = state[j]]_vars
  <2> SUFFICES ASSUME IInv, [Next]_vars, NEW j \in Jobs, state[j] \in Terminal
               PROVE  state'[j] = state[j]
    OBVIOUS
  <2>1. CASE UNCHANGED <<state, notified>>
    BY <2>1
  <2>2. CASE Lifecycle!Next
    BY <2>2 DEF IInv, TypeOK, Terminal, Lifecycle!Next, Lifecycle!Accept, Lifecycle!Attempt,
       Lifecycle!Retry, Lifecycle!Suspend, Lifecycle!Resume, Lifecycle!Finish,
       Lifecycle!Notify, Lifecycle!Move, Lifecycle!Terminal
  <2>3. QED
    BY <2>1, <2>2, StepImplements
<1>2. QED
  BY Inductive, <1>1, PTL DEF Spec, TerminalIsFinal
=============================================================================
