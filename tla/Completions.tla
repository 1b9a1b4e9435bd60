------------------------------ MODULE Completions ----------------------------
(***************************************************************************)
(* The two adapters that turn a download service's terminal jobs into one  *)
(* signed callback each: the Poller of metube_webhook, which reads the     *)
(* whole job list again and again, and the Bridge of boba_adapter, whose   *)
(* Handle is called with every event, by a stream and by hooks.  Both ask  *)
(* the fired set, deliver with the retries of WebhookSink and then enter   *)
(* the job into the set: three critical sections.                          *)
(*                                                                         *)
(* A report is what a service says of a job: an event name (Boba's only),  *)
(* a status and a number for its progress, in hundredths.                  *)
(***************************************************************************)
EXTENDS Integers, FiniteSets

CONSTANTS
    Jobs,          \* the jobs, or results, of the service
    Nameless,      \* Boba's results without a result id: their search's id names them
    Reports,       \* last reports: [name, status, number]
    Pollers,       \* goroutines in Poll or Handle
    MaxDeliveryRetries   \* WebhookSink.MaxRetries

ASSUME CompletionsAssumption ==
    /\ MaxDeliveryRetries \in Nat /\ Nameless \subseteq Jobs
    /\ \A r \in Reports : r.number \in Int

VARIABLES
    adapter,   \* "metube" or "boba"
    running,   \* the context of Run and Consume is alive
    reported,  \* job -> its last report, none until it ends
    fired,     \* the fired set
    poller,    \* by goroutine: [at, todo, job, attempt]
    acked      \* history: by goroutine and job, the deliveries that returned nil

completionVars == <<adapter, running, reported, fired, poller, acked>>

NoReport == [name |-> "", status |-> "", number |-> 0]

(* Boba's words, and its event name before its status.                     *)
classify(word) ==
    CASE word \in {"result_found", "result", "found"} -> "result_found"
      [] word \in {"download_started", "started", "start", "queued"} -> "download_started"
      [] word \in {"download_progress", "progress", "downloading"} -> "download_progress"
      [] word \in {"download_complete", "complete", "completed", "finished", "done"} -> "finished"
      [] word \in {"download_error", "error", "failed", "failure"} -> "error"
      [] OTHER -> "unknown"
normalizeType(r) == IF classify(r.name) # "unknown" THEN classify(r.name) ELSE classify(r.status)
State(r) == IF adapter = "boba" THEN normalizeType(r) ELSE r.status

clamp01(n) == IF n < 0 THEN 0 ELSE IF n > 100 THEN 100 ELSE n
(* MeTube's numbers are per cent; Boba's are if they are above one.        *)
normProgress(n) == IF n > 100 THEN clamp01(n \div 100) ELSE clamp01(n)
mapWireJob(n) == clamp01(n \div 100)
EnvelopeFor(r) ==
    [success  |-> State(r) = "finished",
     progress |-> IF State(r) = "finished" THEN 100
                  ELSE IF adapter = "boba" THEN normProgress(r.number) ELSE mapWireJob(r.number)]

Terminal(job) == State(reported[job]) \in {"finished", "error"}
Resting == [at |-> "idle", todo |-> {}, job |-> CHOOSE j \in Jobs : TRUE, attempt |-> 0]

(* The ids a job goes by: none stands for Boba's one search id.            *)
Key(job) == IF adapter = "boba" /\ job \in Nameless THEN {} ELSE {job}

CompletionsInit ==
    /\ adapter \in {"metube", "boba"} /\ running = TRUE
    /\ reported = [j \in Jobs |-> NoReport] /\ fired = {}
    /\ poller = [p \in Pollers |-> Resting] /\ acked = [p \in Pollers |-> [j \in Jobs |-> 0]]

----------------------------------------------------------------------------
(* The service makes its last report of a job.                             *)
JobEnds ==
    /\ \E j \in Jobs, r \in Reports :
        reported[j] = NoReport /\ reported' = [reported EXCEPT ![j] = r]
    /\ UNCHANGED <<adapter, running, fired, poller, acked>>

(* Poll reads every job; a failed read ends the cycle.  Boba delivers the  *)
(* event of a job at least once.                                           *)
Batches == LET ended == {j \in Jobs : Terminal(j)} IN
           IF adapter = "metube" THEN {ended} ELSE {{j} : j \in ended}
Begin(p) ==
    /\ poller[p].at = "idle" /\ running
    /\ \E todo \in Batches \ {{}} :
        poller' = [poller EXCEPT ![p] = [Resting EXCEPT !.at = "check", !.todo = todo]]
    /\ UNCHANGED <<adapter, running, reported, fired, acked>>

Proceed(todo) == IF todo = {} THEN Resting ELSE [Resting EXCEPT !.at = "check", !.todo = todo]
Continue(p) == poller' = [poller EXCEPT ![p] = Proceed(poller[p].todo)]

CheckReturning(p) ==
    /\ poller[p].at = "check"
    /\ \E j \in poller[p].todo :
        LET todo == poller[p].todo \ {j} IN
        poller' = [poller EXCEPT ![p] =
                     IF Key(j) \in fired THEN Resting
                     ELSE [at |-> "post", todo |-> todo, job |-> j, attempt |-> 0]]
    /\ UNCHANGED <<adapter, running, reported, fired, acked>>
Check(p) ==
    /\ poller[p].at = "check"
    /\ \E j \in poller[p].todo :
        LET todo == poller[p].todo \ {j} IN
        poller' = [poller EXCEPT ![p] =
                     IF Key(j) \in fired THEN Proceed(todo)
                     ELSE [at |-> "post", todo |-> todo, job |-> j, attempt |-> 0]]
    /\ UNCHANGED <<adapter, running, reported, fired, acked>>

(* deliver: one POST.  An answer that is lost or not 2xx is tried again,   *)
(* and after MaxRetries, or when the context ends, the delivery fails:     *)
(* Poll goes on with the next job, Handle returns the error.               *)
Acknowledged(p) ==
    /\ poller[p].at = "post"
    /\ poller' = [poller EXCEPT ![p].at = "mark"]
    /\ acked' = [acked EXCEPT ![p][poller[p].job] = @ + 1]
    /\ UNCHANGED <<adapter, running, reported, fired>>

NotAcknowledgedMarks(p) ==
    /\ poller[p].at = "post"
    /\ poller' = [poller EXCEPT ![p].at = "mark"]
    /\ UNCHANGED <<adapter, running, reported, fired, acked>>
NotAcknowledged(p) ==
    /\ poller[p].at = "post"
    /\ IF poller[p].attempt < MaxDeliveryRetries
       THEN poller' = [poller EXCEPT ![p].attempt = @ + 1]
       ELSE Continue(p)
    /\ UNCHANGED <<adapter, running, reported, fired, acked>>

Abandon(p) ==
    /\ poller[p].at = "post" /\ poller[p].attempt > 0 /\ ~running
    /\ Continue(p)
    /\ UNCHANGED <<adapter, running, reported, fired, acked>>

Mark(p) ==
    /\ poller[p].at = "mark"
    /\ fired' = fired \cup {Key(poller[p].job)}
    /\ Continue(p)
    /\ UNCHANGED <<adapter, running, reported, acked>>

Stop ==
    /\ running /\ running' = FALSE
    /\ UNCHANGED <<adapter, reported, fired, poller, acked>>

Deliver(p) == Acknowledged(p) \/ NotAcknowledged(p) \/ Abandon(p)
CompletionsNext == JobEnds \/ Stop \/ \E p \in Pollers : Begin(p) \/ Check(p) \/ Deliver(p) \/ Mark(p)
(* Run polls on a ticker; a receiver that is tried again and again answers *)
(* at last.                                                                *)
CompletionsFairness == \A p \in Pollers :
    /\ WF_completionVars(Begin(p)) /\ WF_completionVars(Check(p)) /\ WF_completionVars(Mark(p))
    /\ WF_completionVars(NotAcknowledged(p)) /\ SF_completionVars(Acknowledged(p))

CompletionsSpec == CompletionsInit /\ [][CompletionsNext]_completionVars /\ CompletionsFairness

----------------------------------------------------------------------------
Polls == [at : {"idle", "check", "post", "mark"}, todo : SUBSET Jobs, job : Jobs,
          attempt : 0 .. MaxDeliveryRetries]
CompletionsTypeOK ==
    /\ adapter \in {"metube", "boba"} /\ running \in BOOLEAN
    /\ reported \in [Jobs -> Reports \cup {NoReport}]
    /\ fired \subseteq {Key(j) : j \in Jobs}
    /\ poller \in [Pollers -> Polls] /\ acked \in [Pollers -> [Jobs -> Nat]]

Acked(key) == \E p \in Pollers, j \in Jobs : Key(j) = key /\ acked[p][j] > 0

(* A job is marked only when a callback for its key was acknowledged, and  *)
(* an acknowledged one is marked or about to be; each goroutine has a key  *)
(* acknowledged once at most, so it is once when Run alone polls, however  *)
(* often attempts fail.  A delivered envelope is of a job that ended, and  *)
(* a successful one is whole.                                              *)
CompletedOnce ==
    /\ \A key \in {Key(j) : j \in Jobs} :
        /\ key \in fired => Acked(key)
        /\ Acked(key) => \/ key \in fired
                         \/ \E p \in Pollers : poller[p].at = "mark" /\ Key(poller[p].job) = key
    /\ \A p \in Pollers, j \in Jobs : acked[p][j] > 0 =>
        /\ acked[p][j] = 1
        /\ \A k \in Jobs : k # j /\ Key(k) = Key(j) => acked[p][k] = 0
        /\ Terminal(j) /\ EnvelopeFor(reported[j]).progress \in 0 .. 100
        /\ EnvelopeFor(reported[j]).success => EnvelopeFor(reported[j]).progress = 100

(* MeTube's terminal jobs are all reported in the end, through failed      *)
(* deliveries, overlapping cycles and jobs that were reported before, as   *)
(* long as Run goes on.                                                    *)
JobsReported ==
    \A j \in Jobs : (adapter = "metube" /\ Terminal(j)) ~> (Key(j) \in fired \/ ~running)
=============================================================================
