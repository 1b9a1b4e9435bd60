--------------------------- MODULE DownloadManager ---------------------------
(***************************************************************************)
(* The download manager (src/implementation/download_manager/manager.go):  *)
(* a bounded queue, a pool of workers that drive jobs through attempts,    *)
(* retries and backoff, and callers that enqueue, pause, resume and shut   *)
(* down while it runs.                                                     *)
(*                                                                         *)
(* One action is one critical section of a job's lock, one channel         *)
(* operation or one return of the fetcher.  `mu' is Manager.mu, which      *)
(* Enqueue and Resume hold across a send that blocks while the queue is    *)
(* full.  A job's context is dead exactly when its pauseReq is set (they   *)
(* change together under the job's lock) or the manager is stopped (stop,  *)
(* close of the queue and cancel of the base context are one critical      *)
(* section), so it is no variable of its own.                              *)
(***************************************************************************)
EXTENDS Integers, Sequences, FiniteSets

CONSTANTS
    Jobs,        \* job ids
    Workers,     \* the pool, Config.Workers goroutines
    Clients,     \* goroutines calling the API
    QueueCap,    \* capacity of Manager.queue
    MaxRetries,  \* TaskSpec.MaxRetries, the retry budget
    MaxPauses,   \* bound: Pause calls per job
    ProgressPauses,  \* jobs whose OnProgress callback calls Pause
    NoJob, NoOne

ASSUME ConfigAssumption ==
    /\ NoJob \notin Jobs /\ NoOne \notin Clients
    /\ QueueCap \in Nat \ {0} /\ MaxRetries \in Nat /\ MaxPauses \in Nat
    /\ ProgressPauses \subseteq Jobs

VARIABLES
    started, stopped,   \* Manager.started, Manager.stopped
    mu,         \* the client holding Manager.mu, or NoOne
    sending,    \* client -> the job it is sending to the queue, or NoJob
    queue,      \* Manager.queue
    state,      \* job.state, "none" before Enqueue
    attempts,   \* job.attempts
    pauseReq,   \* job.pauseReq
    pauses,     \* history and bound: number of Pause calls that took effect
    failures,   \* history: retryable failures of the job that were judged as such
    notified,   \* completeOn: OnComplete ran and done is closed
    wpc,        \* where each worker is in runJob
    wjob,       \* the job it runs, or NoJob
    attempt     \* its local copy of job.attempts

mgrVars == <<started, stopped, mu, sending>>
jobVars == <<state, attempts, pauseReq, pauses, failures, notified>>
workerVars == <<wpc, wjob, attempt>>
vars == <<mgrVars, queue, jobVars, workerVars>>

States   == {"none", "queued", "running", "paused", "succeeded", "failed", "retrying", "dead"}
Terminal == {"succeeded", "failed", "dead"}

Init ==
    /\ started = FALSE /\ stopped = FALSE
    /\ mu = NoOne
    /\ sending = [c \in Clients |-> NoJob]
    /\ queue = <<>>
    /\ state = [j \in Jobs |-> "none"]
    /\ attempts = [j \in Jobs |-> 0]
    /\ pauseReq = [j \in Jobs |-> FALSE]
    /\ pauses = [j \in Jobs |-> 0]
    /\ failures = [j \in Jobs |-> 0]
    /\ notified = [j \in Jobs |-> FALSE]
    /\ wpc = [w \in Workers |-> "off"]
    /\ wjob = [w \in Workers |-> NoJob]
    /\ attempt = [w \in Workers |-> 0]

SetState(j, s) == state' = [state EXCEPT ![j] = s]
CtxDead(j) == pauseReq[j] \/ stopped

-----------------------------------------------------------------------------
(* The API.  Every call takes Manager.mu first.                            *)

Start ==
    /\ mu = NoOne
    /\ ~started /\ ~stopped
    /\ started' = TRUE
    /\ UNCHANGED <<stopped, mu, sending, queue, jobVars, workerVars>>

(* Enqueue up to the send: the job is registered and Manager.mu is kept.   *)
Enqueue(c, j) ==
    /\ mu = NoOne /\ sending[c] = NoJob
    /\ ~stopped
    /\ state[j] = "none"
    /\ SetState(j, "queued")
    /\ mu' = c
    /\ sending' = [sending EXCEPT ![c] = j]
    /\ UNCHANGED <<started, stopped, queue, attempts, pauseReq, pauses, failures, notified,
                   workerVars>>

(* Mutants: Resume of a job whose pause is only requested, and of any job  *)
(* that no worker runs.                                                    *)
ResumableOnRequest(j) == pauseReq[j]
ResumableUnlessActive(j) == state[j] \notin {"none", "queued", "running", "retrying"}

Resumable(j) == state[j] = "paused"

(* Resume up to the send; only a job that is paused.                       *)
Resume(c, j) ==
    /\ mu = NoOne /\ sending[c] = NoJob
    /\ ~stopped
    /\ Resumable(j)
    /\ pauseReq' = [pauseReq EXCEPT ![j] = FALSE]
    /\ SetState(j, "queued")
    /\ mu' = c
    /\ sending' = [sending EXCEPT ![c] = j]
    /\ UNCHANGED <<started, stopped, queue, attempts, pauses, failures, notified, workerVars>>

(* The send completes when the queue has room; Manager.mu is released.     *)
Send(c) ==
    /\ sending[c] # NoJob
    /\ Len(queue) < QueueCap
    /\ queue' = Append(queue, sending[c])
    /\ sending' = [sending EXCEPT ![c] = NoJob]
    /\ mu' = NoOne
    /\ UNCHANGED <<started, stopped, jobVars, workerVars>>

(* What Pause does under the job's lock: it sets pauseReq and cancels the  *)
(* context.  The state is left to the worker.                              *)
RequestPause(j) ==
    /\ pauseReq' = [pauseReq EXCEPT ![j] = TRUE]
    /\ pauses' = [pauses EXCEPT ![j] = @ + 1]
    /\ UNCHANGED <<state, attempts, failures, notified>>

(* Pause found the job under Manager.mu some time ago, so Manager.mu may   *)
(* be held again; but a job whose Enqueue still holds it (it was never     *)
(* paused, and is being sent) cannot have been found.                      *)
Pausable(j) ==
    /\ state[j] \notin Terminal \cup {"none", "paused"}
    /\ pauses[j] = 0 => \A c \in Clients : sending[c] # j

Pause(j) ==
    /\ Pausable(j)
    /\ pauses[j] < MaxPauses
    /\ RequestPause(j)
    /\ UNCHANGED <<mgrVars, queue, workerVars>>

(* Mutant: Shutdown without Manager.mu.                                    *)
ShutdownUnlocked ==
    /\ ~stopped
    /\ stopped' = TRUE
    /\ UNCHANGED <<started, mu, sending, queue, jobVars, workerVars>>

Shutdown ==
    /\ mu = NoOne
    /\ ~stopped
    /\ stopped' = TRUE
    /\ UNCHANGED <<started, mu, sending, queue, jobVars, workerVars>>

-----------------------------------------------------------------------------
(* worker and runJob.                                                      *)

Goto(w, from, to) == wpc[w] = from /\ wpc' = [wpc EXCEPT ![w] = to]

(* Leaving runJob: the worker no longer holds the job.                     *)
LeaveJob(w, from) ==
    /\ Goto(w, from, "idle")
    /\ wjob' = [wjob EXCEPT ![w] = NoJob]
    /\ attempt' = [attempt EXCEPT ![w] = 0]

(* Start spawns the workers after it released Manager.mu.                  *)
Spawn(w) ==
    /\ started
    /\ Goto(w, "off", "idle")
    /\ UNCHANGED <<mgrVars, queue, jobVars, wjob, attempt>>

(* range m.queue: a closed queue is drained before the loop ends.          *)
Take(w) ==
    /\ queue # <<>>
    /\ Goto(w, "idle", "begin")
    /\ wjob' = [wjob EXCEPT ![w] = Head(queue)]
    /\ queue' = Tail(queue)
    /\ UNCHANGED <<mgrVars, jobVars, attempt>>

(* Mutant: the queue is not closed, so the range over it goes on.          *)
ExitNever(w) == FALSE

Exit(w) ==
    /\ stopped /\ queue = <<>>
    /\ Goto(w, "idle", "exited")
    /\ UNCHANGED <<mgrVars, queue, jobVars, wjob, attempt>>

(* Mutant: the job is dropped without becoming paused.                     *)
BeginDropped(w) ==
    /\ wpc[w] = "begin" /\ pauseReq[wjob[w]]
    /\ LeaveJob(w, "begin")
    /\ UNCHANGED <<mgrVars, queue, jobVars>>

(* A job paused while still queued does not start.                         *)
BeginPaused(w) ==
    /\ wpc[w] = "begin" /\ pauseReq[wjob[w]]
    /\ SetState(wjob[w], "paused")
    /\ LeaveJob(w, "begin")
    /\ UNCHANGED <<mgrVars, queue, attempts, pauseReq, pauses, failures, notified>>

Begin(w) ==
    /\ wpc[w] = "begin" /\ ~pauseReq[wjob[w]]
    /\ Goto(w, "begin", "attempt")
    /\ UNCHANGED <<mgrVars, queue, jobVars, wjob, attempt>>

StartAttempt(w) ==
    LET j == wjob[w] IN
    /\ Goto(w, "attempt", "fetch")
    /\ SetState(j, "running")
    /\ attempts' = [attempts EXCEPT ![j] = @ + 1]
    /\ attempt' = [attempt EXCEPT ![w] = attempts[j] + 1]
    /\ UNCHANGED <<mgrVars, queue, pauseReq, pauses, failures, notified, wjob>>

(* doFetch returns: with success, even if the context died meanwhile, or   *)
(* with an error that is permanent or not.                                 *)
FetchReturns(w, to) ==
    /\ to \in {"succeeded", "transient", "permanent"}
    /\ Goto(w, "fetch", to)
    /\ UNCHANGED <<mgrVars, queue, jobVars, wjob, attempt>>

(* Within the fetch, the progress callback of the job calls Pause: the     *)
(* worker waits for Manager.mu.                                            *)
Progress(w) ==
    /\ wjob[w] \in ProgressPauses /\ pauses[wjob[w]] < MaxPauses
    /\ Goto(w, "fetch", "callback")
    /\ UNCHANGED <<mgrVars, queue, jobVars, wjob, attempt>>

CallbackPause(w) ==
    /\ mu = NoOne
    /\ Goto(w, "callback", "fetch")
    /\ RequestPause(wjob[w])
    /\ UNCHANGED <<mgrVars, queue, wjob, attempt>>

(* After an error pauseReq is read first, then the base context; each may  *)
(* still change before the job's state is set.                             *)
JudgePaused(w) ==
    /\ \E from \in {"transient", "permanent"} : Goto(w, from, "pausing")
    /\ CtxDead(wjob[w])
    /\ UNCHANGED <<mgrVars, queue, jobVars, wjob, attempt>>

SetPaused(w) ==
    /\ LeaveJob(w, "pausing")
    /\ SetState(wjob[w], "paused")
    /\ UNCHANGED <<mgrVars, queue, attempts, pauseReq, pauses, failures, notified>>

JudgePermanent(w) ==
    /\ Goto(w, "permanent", "failed")
    /\ ~CtxDead(wjob[w])
    /\ UNCHANGED <<mgrVars, queue, jobVars, wjob, attempt>>

(* Mutant: one retry too many.                                             *)
ExhaustedLate(w) == attempt[w] > MaxRetries + 1

(* attempt > budget: the budget of retries after the initial try is spent. *)
Exhausted(w) == attempt[w] > MaxRetries

JudgeTransient(w) ==
    LET j == wjob[w] IN
    /\ Goto(w, "transient", IF Exhausted(w) THEN "dead" ELSE "retry")
    /\ ~CtxDead(j)
    /\ failures' = [failures EXCEPT ![j] = @ + 1]
    /\ UNCHANGED <<mgrVars, queue, state, attempts, pauseReq, pauses, notified, wjob, attempt>>

SetRetrying(w) ==
    /\ Goto(w, "retry", "backoff")
    /\ SetState(wjob[w], "retrying")
    /\ UNCHANGED <<mgrVars, queue, attempts, pauseReq, pauses, failures, notified, wjob,
                   attempt>>

(* backoffSleep: the timer, which may win against a dead context, or the   *)
(* interruption.                                                           *)
BackoffElapses(w) ==
    /\ Goto(w, "backoff", "attempt")
    /\ UNCHANGED <<mgrVars, queue, jobVars, wjob, attempt>>

(* Mutant: the interrupted job keeps the state retrying.                   *)
BackoffAbandoned(w) ==
    /\ wpc[w] = "backoff" /\ CtxDead(wjob[w])
    /\ LeaveJob(w, "backoff")
    /\ UNCHANGED <<mgrVars, queue, jobVars>>

BackoffInterrupted(w) ==
    /\ wpc[w] = "backoff" /\ CtxDead(wjob[w])
    /\ SetState(wjob[w], "paused")
    /\ LeaveJob(w, "backoff")
    /\ UNCHANGED <<mgrVars, queue, attempts, pauseReq, pauses, failures, notified>>

(* Mutant: completion is signalled before the terminal state is set.       *)
FinishSignalled(w) ==
    \E t \in Terminal :
        /\ Goto(w, t, "complete")
        /\ notified' = [notified EXCEPT ![wjob[w]] = TRUE]
        /\ UNCHANGED <<mgrVars, queue, state, attempts, pauseReq, pauses, failures, wjob,
                       attempt>>

(* finish: the terminal state under the job's lock ...                     *)
Finish(w) ==
    \E t \in Terminal :
        /\ Goto(w, t, "complete")
        /\ SetState(wjob[w], t)
        /\ UNCHANGED <<mgrVars, queue, attempts, pauseReq, pauses, failures, notified, wjob,
                       attempt>>

(* ... then, outside it and once per job, OnComplete and close(done).      *)
Complete(w) ==
    /\ wpc[w] = "complete"
    /\ notified' = [notified EXCEPT ![wjob[w]] = TRUE]
    /\ LeaveJob(w, "complete")
    /\ UNCHANGED <<mgrVars, queue, state, attempts, pauseReq, pauses, failures>>

-----------------------------------------------------------------------------

Api ==
    \/ Start \/ Shutdown
    \/ \E c \in Clients, j \in Jobs : Enqueue(c, j) \/ Resume(c, j)
    \/ \E j \in Jobs : Pause(j)

Work(w) ==
    \/ Spawn(w) \/ Take(w) \/ Exit(w)
    \/ BeginPaused(w) \/ Begin(w) \/ StartAttempt(w)
    \/ \E to \in {"succeeded", "transient", "permanent"} : FetchReturns(w, to)
    \/ Progress(w) \/ CallbackPause(w)
    \/ JudgePaused(w) \/ SetPaused(w) \/ JudgePermanent(w) \/ JudgeTransient(w)
    \/ SetRetrying(w) \/ BackoffElapses(w) \/ BackoffInterrupted(w)
    \/ Finish(w) \/ Complete(w)

Next ==
    \/ Api
    \/ \E c \in Clients : Send(c)
    \/ \E w \in Workers : Work(w)

Spec == Init /\ [][Next]_vars

(* Every worker that can run does, a fetch returns, timers fire, a lock    *)
(* that is free is granted, and a send to a queue with room completes.     *)
(* Nobody has to call the API.                                             *)
Fairness ==
    /\ \A w \in Workers : WF_vars(Work(w))
    /\ \A c \in Clients : WF_vars(Send(c))
FairSpec == Spec /\ Fairness

-----------------------------------------------------------------------------
(* Properties.                                                             *)

Places == {"off", "idle", "begin", "attempt", "fetch", "callback", "succeeded", "transient",
           "permanent", "pausing", "failed", "dead", "retry", "backoff", "complete", "exited"}

(* Types, with the queue within its capacity.                              *)
TypeOK ==
    /\ started \in BOOLEAN /\ stopped \in BOOLEAN
    /\ mu \in Clients \cup {NoOne}
    /\ sending \in [Clients -> Jobs \cup {NoJob}]
    /\ queue \in Seq(Jobs) /\ Len(queue) <= QueueCap
    /\ state \in [Jobs -> States]
    /\ attempts \in [Jobs -> Nat]
    /\ pauseReq \in [Jobs -> BOOLEAN]
    /\ pauses \in [Jobs -> Nat]
    /\ failures \in [Jobs -> Nat]
    /\ notified \in [Jobs -> BOOLEAN]
    /\ wpc \in [Workers -> Places]
    /\ wjob \in [Workers -> Jobs \cup {NoJob}]
    /\ attempt \in [Workers -> Nat]

(* The queue is never sent to after Shutdown closed it (which would panic):*)
(* a call that is sending holds Manager.mu and the manager is not stopped. *)
NoSendAfterClose ==
    \A c \in Clients : sending[c] # NoJob => mu = c /\ ~stopped

Queued == {queue[i] : i \in DOMAIN queue}
Sent   == {sending[c] : c \in Clients} \ {NoJob}
Run    == {wjob[w] : w \in Workers} \ {NoJob}

(* No job is run by two workers, nor waits for a second run while it runs, *)
(* however Pause and Resume race with the worker that has it.              *)
SingleRunner ==
    /\ \A v, w \in Workers : wjob[v] = wjob[w] /\ wjob[v] # NoJob => v = w
    /\ \A i, k \in DOMAIN queue : queue[i] = queue[k] => i = k
    /\ Run \cap Queued = {} /\ Run \cap Sent = {} /\ Queued \cap Sent = {}

(* No job is lost: a job that is neither paused nor settled (final and     *)
(* reported) is in somebody's hands, and no other job is.                  *)
AccountedFor ==
    \A j \in Jobs :
        j \in Sent \cup Queued \cup Run
            <=> \/ state[j] \in {"queued", "running", "retrying"}
                \/ state[j] \in Terminal /\ ~notified[j]

(* The budget: a job never fails more often than once and its retries, and *)
(* is tried more often than that only for tries that a pause cut short.    *)
RetryBudget ==
    \A j \in Jobs : /\ failures[j] <= MaxRetries + 1
                    /\ attempts[j] <= MaxRetries + 1 + pauses[j]

(* A final state stays: no late worker, Pause or Resume takes it back.     *)
TerminalIsFinal ==
    [][\A j \in Jobs : state[j] \in Terminal => state'[j] = state[j]]_vars

(* The manager gives each job the life that JobLifecycle describes; in     *)
(* particular OnComplete runs once, after the job became final.            *)
Lifecycle == INSTANCE JobLifecycle WITH state <- state, notified <- notified
LifecycleSpec == Lifecycle!Spec

(* Once the workers run, a job that was accepted or resumed comes to rest. *)
JobsSettle ==
    \A j \in Jobs : started /\ state[j] \in {"queued", "running", "retrying"}
                        ~> state[j] \in Terminal \cup {"paused"}

(* Once the workers run, Enqueue and Resume return.  The comment in Enqueue*)
(* says why: "Workers drain m.queue via `range` without ever acquiring     *)
(* m.mu, so holding it across the buffered send cannot deadlock".          *)
SendReturns ==
    \A c \in Clients : started /\ sending[c] # NoJob ~> sending[c] = NoJob

(* Shutdown of a started manager ends every worker.                        *)
ShutdownDrains ==
    started /\ stopped ~> \A w \in Workers : wpc[w] = "exited"

(* State's comment: "StateDead // retries exhausted".  A job is dead only  *)
(* after it failed once and at each retry of its budget.                   *)
DeadMeansExhausted ==
    \A j \in Jobs : state[j] = "dead" => failures[j] > MaxRetries

=============================================================================
