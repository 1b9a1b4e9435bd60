---------------------------- MODULE ServicesProofs ---------------------------
(* Proofs about five units behind the API: the adapters that call back for *)
(* the jobs of download services, the skill dispatcher, metering, the      *)
(* assembly of threads, and semantic search.                               *)
EXTENDS Completions, Dispatcher, Metering, Threads, Retrieval, CountingLemmas, TLAPS

-----------------------------------------------------------------------------
(***************************************************************************)
(* Completions, for any jobs, pollers and reports.  Between the check and  *)
(* the mark of a job its poller has the job's key acknowledged by nobody   *)
(* (post) or exactly by this delivery (mark): the fired set, which other   *)
(* pollers may fill at any time, is not enough to know that.               *)
(***************************************************************************)

SomeJob == CHOOSE j \in Jobs : TRUE
PollTypes == [at : {"idle", "check", "post", "mark"}, todo : SUBSET Jobs,
              job : Jobs \cup {SomeJob}, attempt : Nat]

CompletionsTyped ==
    /\ adapter \in {"metube", "boba"}
    /\ reported \in [Jobs -> Reports \cup {NoReport}]
    /\ poller \in [Pollers -> PollTypes]
    /\ acked \in [Pollers -> [Jobs -> Nat]]

(* A poller works on jobs that ended.                                      *)
PollsEnded(p) ==
    /\ \A j \in poller[p].todo : Terminal(j)
    /\ poller[p].at \in {"post", "mark"} => poller[p].job \in Jobs /\ Terminal(poller[p].job)

(* What a poller had acknowledged is fired, but for the job it will mark.  *)
AcksCounted(p) ==
    /\ \A j \in Jobs : acked[p][j] > 0 =>
          /\ Terminal(j) /\ acked[p][j] = 1
          /\ \A k \in Jobs : k # j /\ Key(k) = Key(j) => acked[p][k] = 0
          /\ Key(j) \in fired \/ (poller[p].at = "mark" /\ poller[p].job = j)
    /\ poller[p].at = "post" => \A k \in Jobs : Key(k) = Key(poller[p].job) => acked[p][k] = 0
    /\ poller[p].at = "mark" => acked[p][poller[p].job] > 0

FiredBacked == \A key \in fired : Acked(key)

CompletionsIInv ==
    /\ CompletionsTyped /\ FiredBacked
    /\ \A p \in Pollers : PollsEnded(p) /\ AcksCounted(p)

(* A job that has not ended is not taken for one that has.                 *)
LEMMA NotEnded == State(NoReport) \notin {"finished", "error"}
<1>1. classify("") = "unknown"
  BY DEF classify
<1>2. NoReport.name = "" /\ NoReport.status = ""
  BY DEF NoReport
<1>3. QED
  BY <1>1, <1>2 DEF State, normalizeType

(* Poller[p] becomes n, and of the acknowledgements at most its own grow.  *)
LEMMA PollerMoves ==
    ASSUME CompletionsIInv, NEW p \in Pollers, NEW n \in PollTypes,
           poller' = [poller EXCEPT ![p] = n], UNCHANGED <<adapter, reported, acked>>,
           fired \subseteq fired', FiredBacked', PollsEnded(p)', AcksCounted(p)'
    PROVE  CompletionsIInv'
<1>1. CompletionsTyped'
  BY DEF CompletionsIInv, CompletionsTyped
<1>2. ASSUME NEW q \in Pollers, q # p
      PROVE  PollsEnded(q)' /\ AcksCounted(q)'
  <2>1. poller'[q] = poller[q]
    BY <1>2 DEF CompletionsIInv, CompletionsTyped
  <2>2. PollsEnded(q) /\ AcksCounted(q)
    BY DEF CompletionsIInv
  <2>3. \A j : (Terminal(j)' <=> Terminal(j)) /\ Key(j)' = Key(j)
    BY DEF Terminal, Key, State, normalizeType, classify
  <2>4. PollsEnded(q)'
    BY <2>1, <2>2, <2>3 DEF PollsEnded
  <2>5. AcksCounted(q)'
    BY <2>1, <2>2, <2>3 DEF AcksCounted
  <2>6. QED
    BY <2>4, <2>5
<1>3. QED
  BY <1>1, <1>2 DEF CompletionsIInv

(* What stays when only a poller moves.                                    *)
LEMMA SameWorld ==
    ASSUME UNCHANGED <<adapter, reported>>
    PROVE  \A j : (Terminal(j)' <=> Terminal(j)) /\ Key(j)' = Key(j)
  BY DEF Terminal, Key, State, normalizeType, classify

LEMMA ProceedTyped ==
    ASSUME NEW todo \in SUBSET Jobs
    PROVE  /\ Proceed(todo) \in PollTypes /\ Proceed(todo).at \in {"idle", "check"}
           /\ Proceed(todo).todo \subseteq todo
           /\ Resting \in PollTypes /\ Resting.at = "idle" /\ Resting.todo = {}
<1>1. Resting \in PollTypes /\ Resting.at = "idle" /\ Resting.todo = {}
  BY DEF Resting, PollTypes, SomeJob
<1>2. QED
  BY <1>1 DEF Proceed, PollTypes

(* A poller at rest or about to check holds no open delivery.              *)
LEMMA ContinueStep ==
    ASSUME CompletionsIInv, NEW p \in Pollers, Continue(p), UNCHANGED <<adapter, reported, acked>>,
           \/ poller[p].at = "post" /\ fired' = fired
           \/ poller[p].at = "mark" /\ fired' = fired \cup {Key(poller[p].job)}
    PROVE  CompletionsIInv'
<1>1. poller[p] \in PollTypes /\ PollsEnded(p) /\ AcksCounted(p) /\ FiredBacked
  BY DEF CompletionsIInv, CompletionsTyped
<1>2. PICK n : n = Proceed(poller[p].todo)
  OBVIOUS
<1>3. n \in PollTypes /\ n.at \in {"idle", "check"} /\ n.todo \subseteq poller[p].todo
  BY <1>1, <1>2, ProceedTyped DEF PollTypes
<1>4. poller' = [poller EXCEPT ![p] = n] /\ poller'[p] = n
  BY <1>2 DEF Continue, CompletionsIInv, CompletionsTyped
<1>5. \A j : (Terminal(j)' <=> Terminal(j)) /\ Key(j)' = Key(j)
  BY SameWorld
<1>6. PollsEnded(p)'
  BY <1>1, <1>3, <1>4, <1>5 DEF PollsEnded
<1>7. AcksCounted(p)'
  BY <1>1, <1>3, <1>4, <1>5 DEF AcksCounted
<1>8. FiredBacked'
  <2>1. \A key : Acked(key)' <=> Acked(key)
    BY <1>5 DEF Acked
  <2>2. poller[p].at = "mark" => Acked(Key(poller[p].job))
    BY <1>1 DEF Acked, AcksCounted, PollsEnded
  <2>3. QED
    BY <1>1, <2>1, <2>2 DEF FiredBacked
<1>9. QED
  BY <1>3, <1>4, <1>6, <1>7, <1>8, PollerMoves

LEMMA AcknowledgedStep ==
    ASSUME CompletionsIInv, NEW p \in Pollers, Acknowledged(p)
    PROVE  CompletionsIInv'
<1>1. /\ poller[p] \in PollTypes /\ PollsEnded(p) /\ AcksCounted(p) /\ FiredBacked
      /\ acked[p] \in [Jobs -> Nat] /\ poller[p].at = "post"
      /\ UNCHANGED <<adapter, running, reported, fired>>
  BY DEF CompletionsIInv, CompletionsTyped, Acknowledged
<1>2. PICK j \in Jobs : j = poller[p].job /\ Terminal(j)
  BY <1>1 DEF PollsEnded
<1>3. /\ poller' = [poller EXCEPT ![p] = [poller[p] EXCEPT !.at = "mark"]]
      /\ acked' = [acked EXCEPT ![p] = [acked[p] EXCEPT ![j] = acked[p][j] + 1]]
  BY <1>2 DEF Acknowledged
<1>4. \A k \in Jobs : Key(k) = Key(j) => acked[p][k] = 0
  BY <1>1, <1>2 DEF AcksCounted
<1>5. /\ poller'[p].at = "mark" /\ poller'[p].job = j /\ poller'[p].todo = poller[p].todo
      /\ acked'[p][j] = 1 /\ \A k \in Jobs : k # j => acked'[p][k] = acked[p][k]
      /\ \A q \in Pollers : q # p => poller'[q] = poller[q] /\ acked'[q] = acked[q]
  BY <1>1, <1>2, <1>3, <1>4 DEF CompletionsIInv, CompletionsTyped, PollTypes
<1>6. CompletionsTyped'
  <2>1. [poller[p] EXCEPT !.at = "mark"] \in PollTypes
    BY <1>1 DEF PollTypes
  <2>2. [acked[p] EXCEPT ![j] = acked[p][j] + 1] \in [Jobs -> Nat]
    BY <1>1
  <2>3. poller' \in [Pollers -> PollTypes]
    BY <1>3, <2>1 DEF CompletionsIInv, CompletionsTyped
  <2>4. acked' \in [Pollers -> [Jobs -> Nat]]
    BY <1>3, <2>2 DEF CompletionsIInv, CompletionsTyped
  <2>5. QED
    BY <1>1, <2>3, <2>4 DEF CompletionsIInv, CompletionsTyped
<1>7. \A k : (Terminal(k)' <=> Terminal(k)) /\ Key(k)' = Key(k)
  BY <1>1, SameWorld
<1>8. PollsEnded(p)'
  BY <1>1, <1>2, <1>5, <1>7 DEF PollsEnded
<1>9. AcksCounted(p)'
  <2>1. ASSUME NEW k \in Jobs, acked'[p][k] > 0
        PROVE  /\ Terminal(k) /\ acked'[p][k] = 1
               /\ \A l \in Jobs : l # k /\ Key(l) = Key(k) => acked'[p][l] = 0
               /\ Key(k) \in fired \/ k = j
    <3>1. CASE k = j
      BY <1>2, <1>4, <1>5, <3>1
    <3>2. CASE k # j
      <4>1. acked[p][k] > 0 /\ acked'[p][k] = acked[p][k]
        BY <1>5, <2>1, <3>2
      <4>2. Key(k) # Key(j)
        BY <1>4, <4>1
      <4>3. /\ Terminal(k) /\ acked[p][k] = 1 /\ Key(k) \in fired
            /\ \A l \in Jobs : l # k /\ Key(l) = Key(k) => acked[p][l] = 0
        BY <1>1, <4>1 DEF AcksCounted
      <4>4. \A l \in Jobs : Key(l) = Key(k) => acked'[p][l] = acked[p][l]
        BY <1>5, <4>2
      <4>5. QED
        BY <4>1, <4>3, <4>4
    <3>3. QED
      BY <3>1, <3>2
  <2>2. QED
    BY <1>1, <1>5, <1>7, <2>1 DEF AcksCounted
<1>10. ASSUME NEW q \in Pollers, q # p
       PROVE  PollsEnded(q)' /\ AcksCounted(q)'
  <2>1. PollsEnded(q) /\ AcksCounted(q) /\ poller'[q] = poller[q] /\ acked'[q] = acked[q]
    BY <1>5, <1>10 DEF CompletionsIInv
  <2>2. PollsEnded(q)'
    BY <1>7, <2>1 DEF PollsEnded
  <2>3. AcksCounted(q)'
    BY <1>1, <1>7, <2>1 DEF AcksCounted
  <2>4. QED
    BY <2>2, <2>3
<1>11. FiredBacked'
  <2>1. ASSUME NEW key, Acked(key) PROVE Acked(key)'
    <3>1. PICK q \in Pollers, k \in Jobs : Key(k) = key /\ acked[q][k] > 0
      BY <2>1 DEF Acked
    <3>2. acked'[q][k] > 0
      BY <1>5, <3>1
    <3>3. QED
      BY <1>7, <3>1, <3>2 DEF Acked
  <2>2. QED
    BY <1>1, <2>1 DEF FiredBacked
<1>12. QED
  BY <1>6, <1>8, <1>9, <1>10, <1>11 DEF CompletionsIInv

LEMMA BeginStep ==
    ASSUME CompletionsIInv, NEW p \in Pollers, Begin(p)
    PROVE  CompletionsIInv'
<1>1. PICK todo \in Batches \ {{}} :
        poller' = [poller EXCEPT ![p] = [Resting EXCEPT !.at = "check", !.todo = todo]]
  BY DEF Begin
<1>2. todo \in SUBSET Jobs /\ \A j \in todo : Terminal(j)
  BY DEF Batches
<1>3. PICK n : n = [Resting EXCEPT !.at = "check", !.todo = todo]
  OBVIOUS
<1>4. n \in PollTypes /\ n.at = "check" /\ n.todo = todo
  BY <1>2, <1>3 DEF Resting, PollTypes, SomeJob
<1>5. /\ poller' = [poller EXCEPT ![p] = n] /\ poller'[p] = n /\ poller[p].at = "idle"
      /\ UNCHANGED <<adapter, reported, fired, acked>>
  BY <1>1, <1>3 DEF Begin, CompletionsIInv, CompletionsTyped
<1>6. \A j : (Terminal(j)' <=> Terminal(j)) /\ Key(j)' = Key(j)
  BY <1>5, SameWorld
<1>7. PollsEnded(p)'
  BY <1>2, <1>4, <1>5, <1>6 DEF PollsEnded
<1>8. AcksCounted(p)'
  BY <1>4, <1>5, <1>6 DEF AcksCounted, CompletionsIInv
<1>9. FiredBacked'
  BY <1>5, <1>6 DEF FiredBacked, Acked, CompletionsIInv
<1>10. QED
  BY <1>4, <1>5, <1>7, <1>8, <1>9, PollerMoves

LEMMA CheckStep ==
    ASSUME CompletionsIInv, NEW p \in Pollers, Check(p)
    PROVE  CompletionsIInv'
<1>1. poller[p] \in PollTypes /\ PollsEnded(p) /\ AcksCounted(p) /\ poller[p].at = "check"
  BY DEF CompletionsIInv, CompletionsTyped, Check
<1>2. PICK j \in poller[p].todo :
        poller' = [poller EXCEPT ![p] =
                     IF Key(j) \in fired THEN Proceed(poller[p].todo \ {j})
                     ELSE [at |-> "post", todo |-> poller[p].todo \ {j}, job |-> j, attempt |-> 0]]
  BY DEF Check
<1>3. j \in Jobs /\ Terminal(j) /\ poller[p].todo \ {j} \in SUBSET Jobs
  BY <1>1 DEF PollsEnded, PollTypes
<1>4. PICK n : n = IF Key(j) \in fired THEN Proceed(poller[p].todo \ {j})
                   ELSE [at |-> "post", todo |-> poller[p].todo \ {j}, job |-> j, attempt |-> 0]
  OBVIOUS
<1>5. /\ n \in PollTypes /\ n.todo \subseteq poller[p].todo /\ n.at # "mark"
      /\ n.at = "post" => n.job = j /\ Key(j) \notin fired
  <2>1. CASE Key(j) \in fired
    BY <1>3, <1>4, <2>1, ProceedTyped
  <2>2. CASE Key(j) \notin fired
    BY <1>3, <1>4, <2>2 DEF PollTypes
  <2>3. QED
    BY <2>1, <2>2
<1>6. /\ poller' = [poller EXCEPT ![p] = n] /\ poller'[p] = n
      /\ UNCHANGED <<adapter, reported, fired, acked>>
  BY <1>2, <1>4 DEF Check, CompletionsIInv, CompletionsTyped
<1>7. \A k : (Terminal(k)' <=> Terminal(k)) /\ Key(k)' = Key(k)
  BY <1>6, SameWorld
<1>8. PollsEnded(p)'
  BY <1>1, <1>3, <1>5, <1>6, <1>7 DEF PollsEnded
<1>9. AcksCounted(p)'
  <2>1. ASSUME n.at = "post", NEW k \in Jobs, Key(k) = Key(j)
        PROVE  acked[p][k] = 0
    <3>1. Key(k) \notin fired /\ acked[p][k] \in Nat
      BY <1>5, <2>1 DEF CompletionsIInv, CompletionsTyped
    <3>2. ~ (acked[p][k] > 0)
      BY <1>1, <3>1 DEF AcksCounted
    <3>3. QED
      BY <3>1, <3>2
  <2>2. QED
    BY <1>1, <1>5, <1>6, <1>7, <2>1 DEF AcksCounted
<1>10. FiredBacked'
  BY <1>6, <1>7 DEF FiredBacked, Acked, CompletionsIInv
<1>11. QED
  BY <1>5, <1>6, <1>8, <1>9, <1>10, PollerMoves

(* One more attempt.                                                       *)
LEMMA AttemptStep ==
    ASSUME CompletionsIInv, NEW p \in Pollers, poller[p].at = "post",
           poller' = [poller EXCEPT ![p].attempt = @ + 1],
           UNCHANGED <<adapter, reported, fired, acked>>
    PROVE  CompletionsIInv'
<1>1. poller[p] \in PollTypes /\ PollsEnded(p) /\ AcksCounted(p)
  BY DEF CompletionsIInv, CompletionsTyped
<1>2. PICK n : n = [poller[p] EXCEPT !.attempt = poller[p].attempt + 1]
  OBVIOUS
<1>3. n \in PollTypes /\ n.at = poller[p].at /\ n.todo = poller[p].todo /\ n.job = poller[p].job
  BY <1>1, <1>2 DEF PollTypes
<1>4. poller' = [poller EXCEPT ![p] = n] /\ poller'[p] = n
  BY <1>2 DEF CompletionsIInv, CompletionsTyped
<1>5. \A k : (Terminal(k)' <=> Terminal(k)) /\ Key(k)' = Key(k)
  BY SameWorld
<1>6. PollsEnded(p)'
  BY <1>1, <1>3, <1>4, <1>5 DEF PollsEnded
<1>7. AcksCounted(p)'
  BY <1>1, <1>3, <1>4, <1>5 DEF AcksCounted
<1>8. FiredBacked'
  BY <1>5 DEF FiredBacked, Acked, CompletionsIInv
<1>9. QED
  BY <1>3, <1>4, <1>6, <1>7, <1>8, PollerMoves

(* A last report is never changed.                                         *)
LEMMA JobEndsStep == ASSUME CompletionsIInv, JobEnds PROVE CompletionsIInv'
<1>1. PICK j \in Jobs, r \in Reports :
        reported[j] = NoReport /\ reported' = [reported EXCEPT ![j] = r]
  BY DEF JobEnds
<1>2. UNCHANGED <<adapter, fired, poller, acked>>
  BY DEF JobEnds
<1>3. CompletionsTyped'
  BY <1>1, <1>2 DEF CompletionsIInv, CompletionsTyped
<1>4. \A k : Key(k)' = Key(k)
  BY <1>2 DEF Key
<1>5. ASSUME NEW k \in Jobs, Terminal(k) PROVE Terminal(k)'
  <2>1. k # j
    BY <1>1, <1>5, NotEnded DEF Terminal
  <2>2. reported'[k] = reported[k]
    BY <1>1, <2>1 DEF CompletionsIInv, CompletionsTyped
  <2>3. QED
    BY <1>2, <1>5, <2>2 DEF Terminal, State, normalizeType, classify
<1>6. ASSUME NEW p \in Pollers PROVE PollsEnded(p)' /\ AcksCounted(p)'
  <2>1. PollsEnded(p) /\ AcksCounted(p) /\ poller[p] \in PollTypes
    BY DEF CompletionsIInv, CompletionsTyped
  <2>2. PollsEnded(p)'
    BY <1>2, <1>5, <2>1 DEF PollsEnded, PollTypes
  <2>3. AcksCounted(p)'
    BY <1>2, <1>4, <1>5, <2>1 DEF AcksCounted
  <2>4. QED
    BY <2>2, <2>3
<1>7. FiredBacked'
  BY <1>2, <1>4 DEF FiredBacked, Acked, CompletionsIInv
<1>8. QED
  BY <1>3, <1>6, <1>7 DEF CompletionsIInv

LEMMA CompletionsInitIInv == CompletionsInit => CompletionsIInv
<1> SUFFICES ASSUME CompletionsInit PROVE CompletionsIInv
  OBVIOUS
<1>1. CompletionsTyped
  BY ProceedTyped DEF CompletionsInit, CompletionsTyped
<1>2. ASSUME NEW p \in Pollers PROVE PollsEnded(p) /\ AcksCounted(p)
  <2>1. poller[p].at = "idle" /\ poller[p].todo = {} /\ \A j \in Jobs : acked[p][j] = 0
    BY ProceedTyped DEF CompletionsInit
  <2>2. QED
    BY <2>1 DEF PollsEnded, AcksCounted
<1>3. FiredBacked
  BY DEF CompletionsInit, FiredBacked
<1>4. QED
  BY <1>1, <1>2, <1>3 DEF CompletionsIInv

(* Every step keeps the invariant.                                         *)
LEMMA CompletionsInductive == CompletionsIInv /\ [CompletionsNext]_completionVars => CompletionsIInv'
<1> SUFFICES ASSUME CompletionsIInv, [CompletionsNext]_completionVars PROVE CompletionsIInv'
  OBVIOUS
<1>1. CASE JobEnds
  BY <1>1, JobEndsStep
<1>2. CASE Stop \/ UNCHANGED completionVars
  <2>1. UNCHANGED <<adapter, reported, fired, poller, acked>>
    BY <1>2 DEF Stop, completionVars
  <2>2. \A j : (Terminal(j)' <=> Terminal(j)) /\ Key(j)' = Key(j)
    BY <2>1, SameWorld
  <2>3. QED
    BY <2>1, <2>2 DEF CompletionsIInv, CompletionsTyped, FiredBacked, Acked, PollsEnded, AcksCounted
<1>3. ASSUME NEW p \in Pollers, Begin(p) PROVE CompletionsIInv'
  BY <1>3, BeginStep
<1>4. ASSUME NEW p \in Pollers, Check(p) PROVE CompletionsIInv'
  BY <1>4, CheckStep
<1>5. ASSUME NEW p \in Pollers, Acknowledged(p) PROVE CompletionsIInv'
  BY <1>5, AcknowledgedStep
<1>6. ASSUME NEW p \in Pollers, NotAcknowledged(p) PROVE CompletionsIInv'
  <2>1. poller[p].at = "post" /\ UNCHANGED <<adapter, reported, fired, acked>>
    BY <1>6 DEF NotAcknowledged
  <2>2. CASE poller[p].attempt < MaxDeliveryRetries
    BY <1>6, <2>1, <2>2, AttemptStep DEF NotAcknowledged
  <2>3. CASE ~ (poller[p].attempt < MaxDeliveryRetries)
    BY <1>6, <2>1, <2>3, ContinueStep DEF NotAcknowledged
  <2>4. QED
    BY <2>2, <2>3
<1>7. ASSUME NEW p \in Pollers, Abandon(p) PROVE CompletionsIInv'
  BY <1>7, ContinueStep DEF Abandon
<1>8. ASSUME NEW p \in Pollers, Mark(p) PROVE CompletionsIInv'
  BY <1>8, ContinueStep DEF Mark
<1>9. QED
  BY <1>1, <1>2, <1>3, <1>4, <1>5, <1>6, <1>7, <1>8 DEF CompletionsNext, Deliver

(* Poller.Poll and Bridge.Handle: however pollers, failed deliveries and   *)
(* repeated events interleave, a goroutine has a job's key acknowledged    *)
(* once at most, and the fired set holds what was acknowledged.            *)
THEOREM CalledBackOnce == CompletionsSpec => []CompletedOnce
<1>1. CompletionsIInv => CompletedOnce
  <2> SUFFICES ASSUME CompletionsIInv PROVE CompletedOnce
    OBVIOUS
  <2>1. ASSUME NEW key \in {Key(j) : j \in Jobs}
        PROVE  /\ key \in fired => Acked(key)
               /\ Acked(key) => \/ key \in fired
                                \/ \E p \in Pollers : poller[p].at = "mark" /\ Key(poller[p].job) = key
    <3>1. ASSUME Acked(key), key \notin fired
          PROVE  \E p \in Pollers : poller[p].at = "mark" /\ Key(poller[p].job) = key
      BY <3>1 DEF Acked, CompletionsIInv, AcksCounted
    <3>2. QED
      BY <3>1 DEF CompletionsIInv, FiredBacked
  <2>2. ASSUME NEW p \in Pollers, NEW j \in Jobs, acked[p][j] > 0
        PROVE  /\ acked[p][j] = 1
               /\ \A k \in Jobs : k # j /\ Key(k) = Key(j) => acked[p][k] = 0
               /\ Terminal(j) /\ EnvelopeFor(reported[j]).progress \in 0 .. 100
               /\ EnvelopeFor(reported[j]).success => EnvelopeFor(reported[j]).progress = 100
    <3>1. AcksCounted(p)
      BY DEF CompletionsIInv
    <3>2. reported[j].number \in Int
      <4>1. reported[j] \in Reports \/ reported[j] = NoReport
        BY DEF CompletionsIInv, CompletionsTyped
      <4>2. NoReport.number \in Int
        BY DEF NoReport
      <4>3. reported[j] \in Reports => reported[j].number \in Int
        BY CompletionsAssumption
      <4>4. QED
        BY <4>1, <4>2, <4>3
    <3>3. EnvelopeFor(reported[j]).progress \in 0 .. 100
      <4>1. PICK n \in Int : n = reported[j].number
        BY <3>2
      <4>2. clamp01(n) \in 0 .. 100 /\ clamp01(n \div 100) \in 0 .. 100
        BY DEF clamp01
      <4>3. QED
        BY <4>1, <4>2 DEF EnvelopeFor, normProgress, mapWireJob
    <3>4. EnvelopeFor(reported[j]).success => EnvelopeFor(reported[j]).progress = 100
      BY DEF EnvelopeFor
    <3>5. QED
      BY <2>2, <3>1, <3>3, <3>4 DEF AcksCounted
  <2>3. QED
    BY <2>1, <2>2, Zenon DEF CompletedOnce
<1>2. QED
  BY <1>1, CompletionsInitIInv, CompletionsInductive, PTL DEF CompletionsSpec

-----------------------------------------------------------------------------
(***************************************************************************)
(* Dispatcher, for any posts, triggers, registered kinds and attempts.     *)
(* The calls that won a post and those that work on it are counted against *)
(* its claim and its releases (WorkersInv).  Of each call the events in    *)
(* the sink go with its place in the code (Moves, SinkTells), its          *)
(* successes are those of the steps before the present one (InOrder), and  *)
(* the event of its dead step comes after them (DeadAt).                   *)
(***************************************************************************)

TriggerTypes == [at : At, post : DPosts, alive : BOOLEAN, step : Nat, attempt : Nat,
                 failed : BOOLEAN, ctxText : BOOLEAN, canceled : BOOLEAN]
Events == [type : EventTypes, kind : DKinds \cup {0}]

Held(p)      == IF states[p] = "unclaimed" THEN 0 ELSE 1
Processed(p) == IF states[p] = "processing" THEN 1 ELSE 0
Counted(p) ==
    /\ IsFiniteSet(Winners(p)) /\ IsFiniteSet(Workers(p))
    /\ Cardinality(Winners(p)) = releases[p] + Held(p)
    /\ Cardinality(Workers(p)) <= early[p] + Processed(p)
    /\ states[p] = "processing" => Workers(p) # {}
WorkersInv == \A p \in DPosts : Counted(p)

(* Where a call is and how far it got.                                     *)
Moves(t) ==
    LET c == trigger[t] IN
    /\ c.at \in {"start", "claimed", "rejected"} => sink[t] = <<>> /\ c.step = 1 /\ ~c.failed
    /\ c.step \in 1 .. Len(Steps(t)) + 1
    /\ c.at \in {"attempt", "backoff", "dead"} => c.step <= Len(Steps(t))
    /\ c.failed => c.at \in {"settle", "report", "end"} /\ c.step <= Len(Steps(t))
    /\ c.at \in {"settle", "report"} /\ ~c.failed => c.step = Len(Steps(t)) + 1
    /\ c.canceled => ~c.alive

(* What it has told the sink.                                              *)
SinkTells(t) ==
    LET c == trigger[t] IN
    /\ Emitted(t, "post_completed") => c.at = "end" /\ ~c.failed /\ c.step = Len(Steps(t)) + 1
    /\ Emitted(t, "post_failed") => c.at = "end" /\ c.failed
    /\ Emitted(t, "rejected") => c.at = "end" /\ ~c.failed /\ c.step = 1 /\ ~Emitted(t, "started")
    /\ Emitted(t, "dead") <=> c.failed

(* Its successes are those of the steps it is through with, in that order. *)
Listed(m, places, log, steps) ==
    \E its \in [1 .. m -> places] :
        /\ \A i \in places : \E k \in 1 .. m : its[k] = i
        /\ \A k, l \in 1 .. m : k < l => its[k] < its[l]
        /\ \A k \in 1 .. m : log[its[k]].kind = steps[k]
InOrder(t) == Listed(trigger[t].step - 1, Succeeded(t), sink[t], Steps(t))

(* The event of its dead step.                                             *)
DeadAt(t) ==
    trigger[t].failed =>
        \E dead \in DOMAIN sink[t] : /\ sink[t][dead].type = "dead" /\ sink[t][dead].kind = Kind(t)
                                     /\ \A i \in Succeeded(t) : i < dead

TriggerSound(t) == Moves(t) /\ SinkTells(t) /\ InOrder(t) /\ DeadAt(t)

DispatchIInv == DispatchTypeOK /\ WorkersInv /\ \A t \in Triggers : TriggerSound(t)

-----------------------------------------------------------------------------
(* The steps are a permutation of the matching kinds.                      *)
Permuted(steps, kinds, n) ==
    \E at \in [1 .. n -> 1 .. n] :
        /\ \A k \in 1 .. n : steps[k] = kinds[at[k]]
        /\ \A k \in 1 .. n : \E i \in 1 .. n : at[i] = k
        /\ \A k, l \in 1 .. n : k # l => at[k] # at[l]

(* The steps of a call are the matching kinds, sorted.                     *)
LEMMA StepsInOrder ==
    ASSUME DispatchTypeOK, NEW t \in Triggers, NEW kinds, kinds = Registered[trigger[t].post],
           NEW n, n = Len(kinds)
    PROVE  /\ n \in Nat /\ DOMAIN kinds = 1 .. n /\ Len(Steps(t)) = n
           /\ \A k \in 1 .. n : Steps(t)[k] \in DKinds
           /\ \A k, l \in 1 .. n : k < l => Steps(t)[k] <= Steps(t)[l]
           /\ Permuted(Steps(t), kinds, n)
<1>1. trigger[t].post \in DPosts
  BY DEF DispatchTypeOK
<1>2. PICK ks \in Seq(DKinds) : ks = kinds
  BY <1>1, DispatcherAssumption
<1>3. Steps(t) = OrderByPrecedence(ks)
  BY <1>1, <1>2 DEF Steps, StepsOf
<1>4. PICK m \in Nat : m = Len(ks) /\ DOMAIN ks = 1 .. m
  OBVIOUS
<1>5. \A i \in 1 .. m : ks[i] \in DKinds /\ ks[i] \in Int
  <2>1. \A i \in 1 .. m : ks[i] \in DKinds
    BY <1>4, ElementOfSeq
  <2>2. DKinds \subseteq Int
    BY DEF DKinds
  <2>3. QED
    BY <2>1, <2>2
<1>6. /\ \E at \in [1 .. m -> 1 .. m] : StableOrder(ks, m, at)
      /\ \A at \in [1 .. m -> 1 .. m] :
            StableOrder(ks, m, at) => \A k \in 1 .. m : \E i \in 1 .. m : at[i] = k
  <2>1. \A i \in 1 .. m : ks[i] \in Int
    BY <1>5
  <2>2. QED
    BY <2>1, StableSort, Zenon
<1>7. PICK at : at = Sorted(ks)
  OBVIOUS
<1>8. at \in [1 .. m -> 1 .. m] /\ StableOrder(ks, m, at)
  <2>1. \E q \in [1 .. m -> 1 .. m] : \A i, j \in 1 .. m :
            i < j => \/ ks[q[i]] < ks[q[j]]
                     \/ ks[q[i]] = ks[q[j]] /\ q[i] < q[j]
    BY <1>6 DEF StableOrder
  <2>2. /\ at \in [DOMAIN ks -> DOMAIN ks]
        /\ \A i, j \in DOMAIN ks :
              i < j => \/ ks[at[i]] < ks[at[j]]
                       \/ ks[at[i]] = ks[at[j]] /\ at[i] < at[j]
    <3>1. DOMAIN ks = 1 .. m
      BY <1>4
    <3>2. \E q \in [DOMAIN ks -> DOMAIN ks] : \A i, j \in DOMAIN ks :
              i < j => \/ ks[q[i]] < ks[q[j]]
                       \/ ks[q[i]] = ks[q[j]] /\ q[i] < q[j]
      BY <2>1, <3>1, Zenon
    <3>3. QED
      BY <1>7, <3>2, Zenon DEF Sorted
  <2>3. QED
    BY <1>4, <2>2 DEF StableOrder
<1>9. \A k \in 1 .. m : Steps(t)[k] = ks[at[k]] /\ at[k] \in 1 .. m
  BY <1>3, <1>4, <1>7, <1>8 DEF OrderByPrecedence
<1>10. Len(Steps(t)) = m
  BY <1>3, <1>4 DEF OrderByPrecedence
<1>11. ASSUME NEW k \in 1 .. m, NEW l \in 1 .. m, k < l PROVE Steps(t)[k] <= Steps(t)[l]
  <2>1. ks[at[k]] < ks[at[l]] \/ ks[at[k]] = ks[at[l]]
    BY <1>8, <1>11 DEF StableOrder
  <2>2. ks[at[k]] \in Int /\ ks[at[l]] \in Int
    BY <1>5, <1>9
  <2>3. QED
    BY <1>9, <2>1, <2>2
<1>12. \A k \in 1 .. m : Steps(t)[k] \in DKinds
  BY <1>5, <1>9
<1>13. \A k \in 1 .. m : \E i \in 1 .. m : at[i] = k
  BY <1>6, <1>8
<1>16. ASSUME NEW k \in 1 .. m, NEW l \in 1 .. m, k # l PROVE at[k] # at[l]
  <2>1. at[k] \in 1 .. m /\ at[l] \in 1 .. m /\ ks[at[k]] \in Int /\ ks[at[l]] \in Int
    BY <1>5, <1>9
  <2>2. k < l \/ l < k
    BY <1>16
  <2>3. \/ ks[at[k]] < ks[at[l]] \/ at[k] < at[l]
        \/ ks[at[l]] < ks[at[k]] \/ at[l] < at[k]
    BY <1>8, <2>2, Zenon DEF StableOrder
  <2>4. PICK x, y : x = at[k] /\ y = at[l]
    OBVIOUS
  <2>5. PICK u \in Int, v \in Int : u = ks[x] /\ v = ks[y]
    BY <2>1, <2>4
  <2>6. x \in Int /\ y \in Int /\ (u < v \/ x < y \/ v < u \/ y < x)
    BY <2>1, <2>3, <2>4, <2>5
  <2>7. x = y => u = v
    BY <2>5
  <2>8. x # y
    BY <2>5, <2>6, <2>7
  <2>9. QED
    BY <2>4, <2>8
<1>14. Permuted(Steps(t), ks, m)
  BY <1>8, <1>9, <1>13, <1>16, Zenon DEF Permuted
<1>15. QED
  <2>1. ks = kinds /\ m = n
    BY <1>2, <1>4
  <2>2. m \in Nat /\ DOMAIN ks = 1 .. m
    BY <1>4
  <2>3. n \in Nat /\ DOMAIN kinds = 1 .. n /\ Len(Steps(t)) = n
    BY <2>1, <2>2, <1>10
  <2>4. \A k \in 1 .. n : Steps(t)[k] \in DKinds
    BY <2>1, <1>12
  <2>5. \A k, l \in 1 .. n : k < l => Steps(t)[k] <= Steps(t)[l]
    BY <2>1, <1>11
  <2>6. Permuted(Steps(t), kinds, n)
    BY <2>1, <1>14, Zenon
  <2>7. QED
    BY <2>3, <2>4, <2>5, <2>6, Zenon

(* One event more.                                                         *)
Grown(t, n, type, kind) ==
    /\ n = Len(sink[t]) /\ DOMAIN sink[t] = 1 .. n /\ DOMAIN sink'[t] = 1 .. n + 1
    /\ sink' \in [Triggers -> Seq(Events)]
    /\ \A u \in Triggers : u # t => sink'[u] = sink[u]
    /\ \A i \in 1 .. n : sink'[t][i] = sink[t][i]
    /\ sink'[t][n + 1].kind = kind /\ sink'[t][n + 1].type = type

LEMMA Emits ==
    ASSUME DispatchTypeOK, NEW t \in Triggers, NEW type \in EventTypes, NEW kind \in DKinds \cup {0},
           Emit(t, type, kind)
    PROVE  \E n \in Nat : Grown(t, n, type, kind)
<1>0. [type |-> type, kind |-> kind] \in Events
  BY DEF Events
<1>1. PICK e \in Events : e = [type |-> type, kind |-> kind] /\ e.type = type /\ e.kind = kind
  BY <1>0
<1>2. sink \in [Triggers -> Seq(Events)] /\ sink' = [sink EXCEPT ![t] = Append(sink[t], e)]
  BY <1>1 DEF DispatchTypeOK, Events, Emit
<1>3. PICK q \in Seq(Events) : q = sink[t]
  BY <1>2
<1>4. PICK r \in Seq(Events) : r = Append(q, e)
  BY AppendProperties
<1>5. /\ Len(q) \in Nat /\ DOMAIN q = 1 .. Len(q) /\ DOMAIN r = 1 .. Len(q) + 1
      /\ \A i \in 1 .. Len(q) : r[i] = q[i]
      /\ r[Len(q) + 1] = e
  BY <1>4
<1>6. sink'[t] = r /\ sink' \in [Triggers -> Seq(Events)] /\ \A u \in Triggers : u # t => sink'[u] = sink[u]
  BY <1>2, <1>3, <1>4
<1>7. PICK n \in Nat : n = Len(q)
  OBVIOUS
<1>8. /\ n = Len(sink[t]) /\ DOMAIN sink[t] = 1 .. n /\ DOMAIN sink'[t] = 1 .. n + 1
      /\ \A i \in 1 .. n : sink'[t][i] = sink[t][i]
  BY <1>3, <1>5, <1>6, <1>7
<1>9. sink'[t][n + 1].kind = kind /\ sink'[t][n + 1].type = type
  BY <1>1, <1>5, <1>6, <1>7
<1>10. Grown(t, n, type, kind)
  BY <1>6, <1>8, <1>9 DEF Grown
<1>11. QED
  BY <1>10

LEMMA EmitsKeep ==
    ASSUME DispatchTypeOK, NEW t \in Triggers, NEW type \in EventTypes, NEW kind \in DKinds \cup {0},
           Emit(t, type, kind)
    PROVE  /\ sink' \in [Triggers -> Seq(Events)]
           /\ \A u \in Triggers : u # t => sink'[u] = sink[u]
<1>1. PICK n \in Nat : Grown(t, n, type, kind)
  BY Emits, Zenon
<1>2. QED
  BY <1>1, Zenon DEF Grown

(* What has been told, and which events are successes.                     *)
LEMMA Tells ==
    ASSUME NEW t \in Triggers, NEW n \in Nat, NEW type, NEW kind, Grown(t, n, type, kind)
    PROVE  /\ \A x : Emitted(t, x)' <=> (Emitted(t, x) \/ x = type)
           /\ type # "succeeded" => Succeeded(t)' = Succeeded(t)
           /\ type = "succeeded" => Succeeded(t)' = Succeeded(t) \cup {n + 1}
<1>0. /\ DOMAIN sink[t] = 1 .. n /\ DOMAIN sink'[t] = 1 .. n + 1
      /\ \A i \in 1 .. n : sink'[t][i] = sink[t][i]
      /\ sink'[t][n + 1].type = type
  BY DEF Grown
<1>1. 1 .. n + 1 = (1 .. n) \cup {n + 1}
  OBVIOUS
<1>2. ASSUME NEW x PROVE Emitted(t, x)' <=> (Emitted(t, x) \/ x = type)
  <2>1. Emitted(t, x) <=> \E i \in 1 .. n : sink[t][i].type = x
    BY <1>0 DEF Emitted
  <2>2. Emitted(t, x)' <=> \E i \in (1 .. n) \cup {n + 1} : sink'[t][i].type = x
    BY <1>0, <1>1 DEF Emitted
  <2>3. QED
    BY <1>0, <2>1, <2>2
<1>3. /\ Succeeded(t) = {i \in 1 .. n : sink[t][i].type = "succeeded"}
      /\ Succeeded(t)' = {i \in (1 .. n) \cup {n + 1} : sink'[t][i].type = "succeeded"}
  BY <1>0, <1>1 DEF Succeeded
<1>4. /\ type # "succeeded" => Succeeded(t)' = Succeeded(t)
      /\ type = "succeeded" => Succeeded(t)' = Succeeded(t) \cup {n + 1}
  BY <1>0, <1>3
<1>5. QED
  BY <1>2, <1>4

(* The record of one call changes.                                         *)
Sets(t, n) == trigger' = [trigger EXCEPT ![t] = n]
KeptTrigger(u) == trigger'[u] = trigger[u] /\ sink'[u] = sink[u]

LEMMA TriggerKept ==
    ASSUME NEW u \in Triggers, KeptTrigger(u), TriggerSound(u)
    PROVE  TriggerSound(u)'
<1>1. Steps(u)' = Steps(u) /\ Succeeded(u)' = Succeeded(u) /\ \A x : Emitted(u, x)' <=> Emitted(u, x)
  BY DEF KeptTrigger, Steps, Succeeded, Emitted
<1>2. Moves(u)'
  BY <1>1 DEF KeptTrigger, TriggerSound, Moves
<1>3. SinkTells(u)'
  BY <1>1 DEF KeptTrigger, TriggerSound, SinkTells
<1>4. InOrder(u)'
  <2>1. InOrder(u) /\ trigger'[u].step = trigger[u].step /\ sink'[u] = sink[u]
    BY DEF KeptTrigger, TriggerSound
  <2>2. QED
    BY <1>1, <2>1 DEF InOrder
<1>5. DeadAt(u)'
  BY <1>1 DEF KeptTrigger, TriggerSound, DeadAt, Kind
<1>6. QED
  BY <1>2, <1>3, <1>4, <1>5 DEF TriggerSound

(* Successes stay those of the steps before, or one more is.               *)
LEMMA OrderKept ==
    ASSUME NEW t \in Triggers, InOrder(t), trigger'[t].step = trigger[t].step,
           trigger'[t].post = trigger[t].post, Succeeded(t)' = Succeeded(t),
           \A i \in Succeeded(t) : sink'[t][i] = sink[t][i]
    PROVE  InOrder(t)'
<1>1. Steps(t)' = Steps(t)
  BY DEF Steps
<1>2. PICK m, W, log : m = trigger[t].step - 1 /\ W = Succeeded(t) /\ log = sink'[t]
  OBVIOUS
<1>3. PICK its \in [1 .. m -> W] :
        /\ \A i \in W : \E k \in 1 .. m : its[k] = i
        /\ \A k, l \in 1 .. m : k < l => its[k] < its[l]
        /\ \A k \in 1 .. m : sink[t][its[k]].kind = Steps(t)[k]
  BY <1>2 DEF InOrder, Listed
<1>4. \A k \in 1 .. m : log[its[k]].kind = Steps(t)[k]
  BY <1>2, <1>3
<1>5. Listed(m, W, log, Steps(t))
  BY <1>3, <1>4 DEF Listed
<1>6. QED
  BY <1>1, <1>2, <1>5 DEF InOrder

LEMMA OrderGrows ==
    ASSUME DispatchTypeOK, NEW t \in Triggers, InOrder(t), NEW n \in Nat, n = Len(sink[t]),
           DOMAIN sink[t] = 1 .. n, trigger[t].step \in 1 .. Len(Steps(t)),
           trigger'[t].step = trigger[t].step + 1, trigger'[t].post = trigger[t].post,
           Succeeded(t)' = Succeeded(t) \cup {n + 1},
           \A i \in 1 .. n : sink'[t][i] = sink[t][i], sink'[t][n + 1].kind = Kind(t)
    PROVE  InOrder(t)'
<1>1. Steps(t)' = Steps(t)
  BY DEF Steps
<1>2. PICK m, W : m = trigger[t].step - 1 /\ W = Succeeded(t)
  OBVIOUS
<1>3. m \in Nat /\ trigger[t].step = m + 1 /\ W \subseteq 1 .. n
  BY <1>2, StepsInOrder DEF Succeeded
<1>4. PICK its \in [1 .. m -> W] :
        /\ \A i \in W : \E k \in 1 .. m : its[k] = i
        /\ \A k, l \in 1 .. m : k < l => its[k] < its[l]
        /\ \A k \in 1 .. m : sink[t][its[k]].kind = Steps(t)[k]
  BY <1>2 DEF InOrder, Listed
<1>5. PICK more : more = [k \in 1 .. m + 1 |-> IF k = m + 1 THEN n + 1 ELSE its[k]]
  OBVIOUS
<1>6. /\ more[m + 1] = n + 1
      /\ \A k \in 1 .. m : more[k] = its[k] /\ its[k] \in W /\ its[k] \in 1 .. n
  <2>1. m + 1 \in 1 .. m + 1
    BY <1>3
  <2>2. \A k \in 1 .. m : k \in 1 .. m + 1 /\ k # m + 1
    BY <1>3
  <2>3. \A k \in 1 .. m : its[k] \in W /\ its[k] \in 1 .. n
    BY <1>3, <1>4
  <2>4. QED
    BY <1>5, <2>1, <2>2, <2>3
<1>7. more \in [1 .. m + 1 -> W \cup {n + 1}]
  <2>1. ASSUME NEW k \in 1 .. m + 1 PROVE more[k] \in W \cup {n + 1}
    <3>1. k = m + 1 \/ k \in 1 .. m
      BY <1>3
    <3>2. QED
      BY <1>6, <3>1
  <2>2. QED
    BY <1>5, <2>1
<1>8. \A i \in W \cup {n + 1} : \E k \in 1 .. m + 1 : more[k] = i
  <2>1. 1 .. m \subseteq 1 .. m + 1 /\ m + 1 \in 1 .. m + 1
    BY <1>3
  <2>2. QED
    BY <1>4, <1>6, <2>1
<1>9. ASSUME NEW k \in 1 .. m + 1, NEW l \in 1 .. m + 1, k < l PROVE more[k] < more[l]
  <2>1. k \in 1 .. m
    BY <1>3, <1>9
  <2>2. CASE l = m + 1
    BY <1>6, <2>1, <2>2
  <2>3. CASE l # m + 1
    <3>1. l \in 1 .. m
      BY <1>3, <2>3
    <3>2. QED
      BY <1>4, <1>6, <1>9, <2>1, <3>1
  <2>4. QED
    BY <2>2, <2>3
<1>10. ASSUME NEW k \in 1 .. m + 1 PROVE sink'[t][more[k]].kind = Steps(t)[k]
  <2>1. CASE k = m + 1
    BY <1>1, <1>3, <1>6, <2>1 DEF Kind
  <2>2. CASE k # m + 1
    <3>1. k \in 1 .. m
      BY <1>3, <2>2
    <3>2. QED
      BY <1>1, <1>4, <1>6, <3>1
  <2>3. QED
    BY <2>1, <2>2
<1>11. m + 1 = trigger'[t].step - 1 /\ Succeeded(t)' = W \cup {n + 1}
  BY <1>2, <1>3
<1>12. Listed(m + 1, W \cup {n + 1}, sink'[t], Steps(t))
  BY <1>7, <1>8, <1>9, <1>10, Zenon DEF Listed
<1>13. QED
  BY <1>1, <1>11, <1>12 DEF InOrder

(* A call that says nothing goes on.                                       *)
LEMMA QuietSound ==
    ASSUME DispatchTypeOK, NEW t \in Triggers, TriggerSound(t), sink'[t] = sink[t],
           trigger'[t].step = trigger[t].step, trigger'[t].post = trigger[t].post,
           trigger'[t].failed = trigger[t].failed,
           trigger[t].at # "end" \/ trigger'[t].at = "end", Moves(t)'
    PROVE  TriggerSound(t)'
<1>1. Steps(t)' = Steps(t) /\ Succeeded(t)' = Succeeded(t) /\ \A x : Emitted(t, x)' <=> Emitted(t, x)
  BY DEF Steps, Succeeded, Emitted
<1>2. SinkTells(t)'
  BY <1>1 DEF TriggerSound, SinkTells
<1>3. InOrder(t)'
  BY <1>1, OrderKept DEF TriggerSound
<1>4. DeadAt(t)'
  BY <1>1 DEF TriggerSound, DeadAt, Kind
<1>5. QED
  BY <1>2, <1>3, <1>4 DEF TriggerSound

OnlyTells(t, type) ==
    /\ \A x : Emitted(t, x)' <=> (Emitted(t, x) \/ x = type)
    /\ Succeeded(t)' = Succeeded(t)
    /\ \A i \in Succeeded(t) : sink'[t][i] = sink[t][i]

LEMMA TellsOther ==
    ASSUME DispatchTypeOK, NEW t \in Triggers, NEW type \in EventTypes, NEW kind \in DKinds \cup {0},
           Emit(t, type, kind), type # "succeeded"
    PROVE  OnlyTells(t, type)
<1>1. PICK n \in Nat : Grown(t, n, type, kind)
  BY Emits, Zenon
<1>2. /\ \A x : Emitted(t, x)' <=> (Emitted(t, x) \/ x = type)
      /\ Succeeded(t)' = Succeeded(t)
  BY <1>1, Tells, Zenon
<1>3. \A i \in Succeeded(t) : i \in 1 .. n
  BY <1>1 DEF Succeeded, Grown
<1>4. \A i \in Succeeded(t) : sink'[t][i] = sink[t][i]
  BY <1>1, <1>3, Zenon DEF Grown
<1>5. QED
  BY <1>2, <1>4, Zenon DEF OnlyTells

(* What is in the sink, by type, after one more event.                     *)
LEMMA EmitsAlso ==
    ASSUME DispatchTypeOK, NEW t \in Triggers, NEW type \in EventTypes, NEW kind \in DKinds \cup {0},
           Emit(t, type, kind)
    PROVE  \A x : Emitted(t, x)' <=> (Emitted(t, x) \/ x = type)
<1>1. PICK n \in Nat : Grown(t, n, type, kind)
  BY Emits, Zenon
<1>2. QED
  BY <1>1, Tells, Zenon

(* The dead step's event follows all successes and stays in its place.     *)
LEMMA DeadTold ==
    ASSUME DispatchTypeOK, NEW t \in Triggers, DeadAt(t), NEW type \in EventTypes,
           NEW kind \in DKinds \cup {0}, Emit(t, type, kind), type # "succeeded",
           type = "dead" => kind = Kind(t),
           trigger'[t].step = trigger[t].step, trigger'[t].post = trigger[t].post,
           trigger'[t].failed <=> trigger[t].failed \/ type = "dead"
    PROVE  DeadAt(t)'
<1>1. PICK n \in Nat : Grown(t, n, type, kind)
  BY Emits, Zenon
<1>2. /\ DOMAIN sink[t] = 1 .. n /\ DOMAIN sink'[t] = 1 .. n + 1
      /\ \A i \in 1 .. n : sink'[t][i] = sink[t][i]
      /\ sink'[t][n + 1].kind = kind /\ sink'[t][n + 1].type = type
  BY <1>1, Zenon DEF Grown
<1>3. Succeeded(t)' = Succeeded(t) /\ Kind(t)' = Kind(t)
  <2>1. Succeeded(t)' = Succeeded(t)
    BY <1>1, Tells, Zenon
  <2>2. Kind(t)' = Kind(t)
    BY DEF Kind, Steps
  <2>3. QED
    BY <2>1, <2>2
<1>4. Succeeded(t) \subseteq 1 .. n
  BY <1>2 DEF Succeeded
<1>5. PICK W, kt : W = Succeeded(t) /\ kt = Kind(t)
  OBVIOUS
<1>6. CASE type = "dead"
  <2>1. n + 1 \in 1 .. n + 1 /\ sink'[t][n + 1].type = "dead" /\ sink'[t][n + 1].kind = kt
    BY <1>2, <1>5, <1>6
  <2>2. \A i \in W : i < n + 1
    BY <1>4, <1>5
  <2>3. \E dead \in DOMAIN sink'[t] : /\ sink'[t][dead].type = "dead" /\ sink'[t][dead].kind = kt
                                       /\ \A i \in W : i < dead
    BY <1>2, <2>1, <2>2
  <2>4. QED
    BY <1>3, <1>5, <2>3 DEF DeadAt
<1>7. CASE type # "dead" /\ trigger[t].failed
  <2>1. PICK dead \in 1 .. n : /\ sink[t][dead].type = "dead" /\ sink[t][dead].kind = kt
                              /\ \A i \in W : i < dead
    BY <1>2, <1>5, <1>7 DEF DeadAt
  <2>2. dead \in 1 .. n + 1 /\ sink'[t][dead] = sink[t][dead]
    BY <1>2
  <2>3. \E q \in DOMAIN sink'[t] : /\ sink'[t][q].type = "dead" /\ sink'[t][q].kind = kt
                                    /\ \A i \in W : i < q
    BY <1>2, <2>1, <2>2
  <2>4. QED
    BY <1>3, <1>5, <2>3 DEF DeadAt
<1>8. CASE type # "dead" /\ ~trigger[t].failed
  BY <1>8 DEF DeadAt
<1>9. QED
  BY <1>6, <1>7, <1>8

(* It tells the sink something else than a success.                        *)
LEMMA TellsSound ==
    ASSUME DispatchTypeOK, NEW t \in Triggers, TriggerSound(t), NEW type \in EventTypes,
           NEW kind \in DKinds \cup {0}, Emit(t, type, kind), type # "succeeded",
           trigger'[t].step = trigger[t].step, trigger'[t].post = trigger[t].post,
           Moves(t)', trigger[t].at # "end",
           trigger'[t].failed <=> trigger[t].failed \/ type = "dead",
           type = "dead" => kind = Kind(t),
           type = "started" => trigger[t].at # "end",
           type = "post_completed" => /\ trigger'[t].at = "end" /\ ~trigger[t].failed
                                      /\ trigger[t].step = Len(Steps(t)) + 1,
           type = "post_failed" => trigger'[t].at = "end" /\ trigger[t].failed,
           type = "rejected" => /\ trigger'[t].at = "end" /\ ~trigger[t].failed
                                /\ trigger[t].step = 1 /\ sink[t] = <<>>
    PROVE  TriggerSound(t)'
<1>1. Steps(t)' = Steps(t)
  BY DEF Steps
<1>2. /\ \A x : Emitted(t, x)' <=> (Emitted(t, x) \/ x = type)
      /\ Succeeded(t)' = Succeeded(t)
      /\ \A i \in Succeeded(t) : sink'[t][i] = sink[t][i]
  <2>1. OnlyTells(t, type)
    BY TellsOther, Zenon
  <2>2. QED
    BY <2>1, Zenon DEF OnlyTells
<1>3. sink[t] = <<>> => \A x : ~Emitted(t, x)
  BY DEF Emitted
<1>4. ~Emitted(t, "post_completed") /\ ~Emitted(t, "post_failed") /\ ~Emitted(t, "rejected")
      /\ (Emitted(t, "dead") <=> trigger[t].failed)
  BY DEF TriggerSound, SinkTells
<1>5. SinkTells(t)'
  BY <1>1, <1>2, <1>3, <1>4 DEF SinkTells
<1>6. InOrder(t)'
  BY <1>2, OrderKept DEF TriggerSound
<1>7. DeadAt(t)'
  <2>1. DeadAt(t)
    BY DEF TriggerSound
  <2>2. QED
    BY <2>1, DeadTold
<1>8. QED
  BY <1>5, <1>6, <1>7 DEF TriggerSound

LEMMA TypedRecord ==
    ASSUME DispatchTypeOK, NEW t \in Triggers, NEW n \in TriggerTypes, Sets(t, n)
    PROVE  /\ trigger' \in [Triggers -> TriggerTypes] /\ trigger'[t] = n
           /\ \A u \in Triggers : u # t => trigger'[u] = trigger[u]
           /\ trigger[t] \in TriggerTypes
  BY DEF DispatchTypeOK, Sets, TriggerTypes

(* Kind(t) is one of the kinds while a step is under way.                  *)
LEMMA KindTyped ==
    ASSUME DispatchTypeOK, NEW t \in Triggers, TriggerSound(t), trigger[t].step <= Len(Steps(t))
    PROVE  Kind(t) \in DKinds \cup {0} /\ trigger[t].step \in 1 .. Len(Steps(t))
<1>1. trigger[t].step \in 1 .. Len(Steps(t)) + 1
  BY DEF TriggerSound, Moves
<1>2. Len(Steps(t)) \in Nat /\ \A k \in 1 .. Len(Steps(t)) : Steps(t)[k] \in DKinds
  BY StepsInOrder
<1>3. QED
  BY <1>1, <1>2 DEF Kind

(* What every step of the call's own goroutine keeps.                      *)
Kept(t) == /\ DispatchTypeOK' /\ TriggerSound(t)'
           /\ \A u \in Triggers : u # t => KeptTrigger(u)
           /\ trigger'[t].post = trigger[t].post

LEMMA QuietStep ==
    ASSUME DispatchTypeOK, NEW t \in Triggers, TriggerSound(t), NEW n \in TriggerTypes,
           Sets(t, n), sink' = sink, states' \in [DPosts -> States],
           early' \in [DPosts -> Nat], releases' \in [DPosts -> Nat],
           n.step = trigger[t].step, n.post = trigger[t].post, n.failed = trigger[t].failed,
           trigger[t].at # "end" \/ n.at = "end",
           n.at \in {"start", "claimed", "rejected"} => trigger[t].at \in {"start", "claimed", "rejected"},
           n.at \in {"attempt", "backoff", "dead"} => trigger[t].step <= Len(Steps(t)),
           n.failed => n.at \in {"settle", "report", "end"},
           n.at \in {"settle", "report"} /\ ~n.failed => n.step = Len(Steps(t)) + 1,
           n.canceled => ~n.alive
    PROVE  Kept(t)
<1>1. /\ trigger' \in [Triggers -> TriggerTypes] /\ trigger'[t] = n
      /\ \A u \in Triggers : u # t => trigger'[u] = trigger[u]
  BY TypedRecord
<1>2. Steps(t)' = Steps(t)
  BY <1>1 DEF Steps
<1>3. Moves(t)'
  BY <1>1, <1>2 DEF TriggerSound, Moves
<1>4. TriggerSound(t)'
  BY <1>1, <1>3, QuietSound
<1>5. DispatchTypeOK'
  BY <1>1 DEF DispatchTypeOK, TriggerTypes
<1>6. QED
  BY <1>1, <1>4, <1>5 DEF Kept, KeptTrigger

LEMMA TellStep ==
    ASSUME DispatchTypeOK, NEW t \in Triggers, TriggerSound(t), NEW n \in TriggerTypes,
           Sets(t, n), NEW type \in EventTypes, NEW kind \in DKinds \cup {0}, Emit(t, type, kind),
           type # "succeeded", UNCHANGED <<states, early, releases>>,
           n.step = trigger[t].step, n.post = trigger[t].post,
           n.failed <=> trigger[t].failed \/ type = "dead", type = "dead" => kind = Kind(t),
           trigger[t].at # "end", n.at \notin {"start", "claimed", "rejected", "report"},
           n.at \in {"attempt", "backoff", "dead"} \/ n.failed => trigger[t].step <= Len(Steps(t)),
           n.failed => n.at \in {"settle", "end"},
           n.at = "settle" => n.failed,
           n.canceled => ~n.alive,
           type = "post_completed" => /\ n.at = "end" /\ ~trigger[t].failed
                                      /\ trigger[t].step = Len(Steps(t)) + 1,
           type = "post_failed" => n.at = "end" /\ trigger[t].failed,
           type = "rejected" => /\ n.at = "end" /\ ~trigger[t].failed
                                /\ trigger[t].step = 1 /\ sink[t] = <<>>
    PROVE  Kept(t)
<1>1. /\ trigger' \in [Triggers -> TriggerTypes] /\ trigger'[t] = n
      /\ \A u \in Triggers : u # t => trigger'[u] = trigger[u]
  BY TypedRecord
<1>2. Steps(t)' = Steps(t)
  BY <1>1 DEF Steps
<1>3. /\ sink' \in [Triggers -> Seq(Events)]
      /\ \A u \in Triggers : u # t => sink'[u] = sink[u]
  BY EmitsKeep, Zenon
<1>4. Moves(t)'
  BY <1>1, <1>2 DEF TriggerSound, Moves
<1>5. TriggerSound(t)'
  BY <1>1, <1>4, TellsSound
<1>6. DispatchTypeOK'
  BY <1>1, <1>3 DEF DispatchTypeOK, TriggerTypes, Events
<1>7. QED
  BY <1>1, <1>3, <1>5, <1>6 DEF Kept, KeptTrigger

LEMMA SuccessStep ==
    ASSUME DispatchTypeOK, NEW t \in Triggers, TriggerSound(t), trigger[t].at = "attempt",
           Emit(t, "succeeded", Kind(t)), UNCHANGED <<states, early, releases>>,
           trigger' = [trigger EXCEPT ![t].at = "step", ![t].step = @ + 1]
    PROVE  Kept(t)
<1>1. /\ trigger[t] \in TriggerTypes /\ Moves(t) /\ SinkTells(t) /\ InOrder(t)
      /\ Len(Steps(t)) \in Nat
  BY StepsInOrder DEF DispatchTypeOK, TriggerSound, TriggerTypes
<1>2. Kind(t) \in DKinds \cup {0} /\ trigger[t].step \in 1 .. Len(Steps(t))
  BY <1>1, KindTyped DEF Moves
<1>3. PICK r : r = [trigger[t] EXCEPT !.at = "step", !.step = trigger[t].step + 1]
  OBVIOUS
<1>4. /\ r \in TriggerTypes /\ r.at = "step" /\ r.step = trigger[t].step + 1
      /\ r.post = trigger[t].post /\ r.failed = trigger[t].failed
      /\ r.canceled = trigger[t].canceled /\ r.alive = trigger[t].alive
  <2>1. PICK s \in Nat : s = trigger[t].step + 1
    BY <1>1 DEF TriggerTypes
  <2>2. r = [trigger[t] EXCEPT !.at = "step", !.step = s]
    BY <1>3, <2>1
  <2>3. QED
    BY <1>1, <2>1, <2>2 DEF TriggerTypes, At
<1>5. Sets(t, r)
  BY <1>1, <1>3 DEF Sets, DispatchTypeOK, TriggerTypes
<1>6. /\ trigger' \in [Triggers -> TriggerTypes] /\ trigger'[t] = r
      /\ \A u \in Triggers : u # t => trigger'[u] = trigger[u]
  BY <1>4, <1>5, TypedRecord
<1>7. PICK n \in Nat : Grown(t, n, "succeeded", Kind(t))
  <2>1. "succeeded" \in EventTypes
    BY DEF EventTypes
  <2>2. QED
    BY <1>2, <2>1, Emits, Zenon
<1>16. /\ n = Len(sink[t]) /\ DOMAIN sink[t] = 1 .. n
       /\ sink' \in [Triggers -> Seq(Events)]
       /\ \A u \in Triggers : u # t => sink'[u] = sink[u]
       /\ \A i \in 1 .. n : sink'[t][i] = sink[t][i]
       /\ sink'[t][n + 1].kind = Kind(t)
  BY <1>7, Zenon DEF Grown
<1>8. Succeeded(t)' = Succeeded(t) \cup {n + 1}
  BY <1>7, Tells, Zenon
<1>9. \A x : Emitted(t, x)' <=> (Emitted(t, x) \/ x = "succeeded")
  BY <1>7, Tells, Zenon
<1>10. InOrder(t)'
  BY <1>1, <1>2, <1>4, <1>6, <1>16, <1>8, OrderGrows
<1>11. Steps(t)' = Steps(t)
  BY <1>4, <1>6 DEF Steps
<1>12. Moves(t)'
  BY <1>1, <1>2, <1>4, <1>6, <1>11 DEF Moves
<1>13. SinkTells(t)'
  BY <1>1, <1>4, <1>6, <1>9 DEF SinkTells, Moves
<1>14. DispatchTypeOK'
  BY <1>6, <1>16 DEF DispatchTypeOK, TriggerTypes, Events
<1>15. DeadAt(t)'
  <2>1. ~trigger[t].failed
    BY <1>1 DEF Moves
  <2>2. QED
    BY <1>4, <1>6, <2>1 DEF DeadAt
<1>17. QED
  BY <1>4, <1>6, <1>16, <1>10, <1>12, <1>13, <1>14, <1>15 DEF Kept, KeptTrigger, TriggerSound

(* What an action writes into the call's record.                           *)
Same(n, t) == n.step = trigger[t].step /\ n.post = trigger[t].post
Changed(t, n, at, alive, failed, canceled) ==
    /\ n \in TriggerTypes /\ Sets(t, n) /\ Same(n, t)
    /\ n.at = at /\ n.alive = alive /\ n.failed = failed /\ n.canceled = canceled

LEMMA GoesOn ==
    ASSUME DispatchTypeOK, NEW t \in Triggers, NEW at \in At, Goes(t, at)
    PROVE  \E n : Changed(t, n, at, trigger[t].alive, trigger[t].failed, trigger[t].canceled)
<1>1. PICK n : n = [trigger[t] EXCEPT !.at = at]
  OBVIOUS
<1>2. trigger[t] \in TriggerTypes /\ n \in TriggerTypes
  BY <1>1 DEF DispatchTypeOK, TriggerTypes
<1>3. Sets(t, n)
  BY <1>1 DEF Sets, Goes, DispatchTypeOK
<1>4. Changed(t, n, at, trigger[t].alive, trigger[t].failed, trigger[t].canceled)
  BY <1>1, <1>2, <1>3 DEF Changed, Same, TriggerTypes
<1>5. QED
  BY <1>4

LEMMA NextAttempt ==
    ASSUME DispatchTypeOK, NEW t \in Triggers, NEW attempt \in Nat,
           trigger' = [trigger EXCEPT ![t].at = "attempt", ![t].attempt = attempt]
    PROVE  \E n : Changed(t, n, "attempt", trigger[t].alive, trigger[t].failed, trigger[t].canceled)
<1>1. PICK n : n = [trigger[t] EXCEPT !.at = "attempt", !.attempt = attempt]
  OBVIOUS
<1>2. trigger[t] \in TriggerTypes /\ n \in TriggerTypes
  BY <1>1 DEF DispatchTypeOK, TriggerTypes, At
<1>3. Sets(t, n)
  BY <1>1 DEF Sets, DispatchTypeOK
<1>4. Changed(t, n, "attempt", trigger[t].alive, trigger[t].failed, trigger[t].canceled)
  BY <1>1, <1>2, <1>3 DEF Changed, Same, TriggerTypes
<1>5. QED
  BY <1>4

LEMMA DiesOff ==
    ASSUME DispatchTypeOK, NEW t \in Triggers, NEW ctxText \in BOOLEAN, Dies(t, ctxText)
    PROVE  \E n : Changed(t, n, "dead", trigger[t].alive, trigger[t].failed, trigger[t].canceled)
<1>1. PICK n : n = [trigger[t] EXCEPT !.at = "dead", !.ctxText = ctxText]
  OBVIOUS
<1>2. trigger[t] \in TriggerTypes /\ n \in TriggerTypes
  BY <1>1 DEF DispatchTypeOK, TriggerTypes, At
<1>3. Sets(t, n)
  BY <1>1 DEF Sets, Dies, DispatchTypeOK
<1>4. Changed(t, n, "dead", trigger[t].alive, trigger[t].failed, trigger[t].canceled)
  BY <1>1, <1>2, <1>3 DEF Changed, Same, TriggerTypes
<1>5. QED
  BY <1>4

(* A change of the record, without a word or with one.                     *)
LEMMA QuietChange ==
    ASSUME DispatchTypeOK, NEW t \in Triggers, TriggerSound(t), NEW at, NEW n,
           Changed(t, n, at, trigger[t].alive, trigger[t].failed, trigger[t].canceled),
           sink' = sink, states' \in [DPosts -> States], early' = early, releases' = releases,
           trigger[t].at # "end", at # "start",
           at \in {"claimed", "rejected"} => trigger[t].at = "start",
           at \in {"attempt", "backoff", "dead"} => trigger[t].step <= Len(Steps(t)),
           trigger[t].failed => at \in {"settle", "report", "end"},
           at \in {"settle", "report"} /\ ~trigger[t].failed => trigger[t].step = Len(Steps(t)) + 1
    PROVE  Kept(t) /\ trigger'[t].at = at
<1>1. /\ n \in TriggerTypes /\ Sets(t, n) /\ n.at = at /\ n.step = trigger[t].step
      /\ n.post = trigger[t].post /\ n.failed = trigger[t].failed
      /\ (n.canceled => ~n.alive)
  BY DEF Changed, Same, TriggerSound, Moves
<1>2. early' \in [DPosts -> Nat] /\ releases' \in [DPosts -> Nat]
  BY DEF DispatchTypeOK
<1>3. Kept(t)
  BY <1>1, <1>2, QuietStep
<1>4. QED
  BY <1>1, <1>3, TypedRecord

LEMMA SaysChange ==
    ASSUME DispatchTypeOK, NEW t \in Triggers, TriggerSound(t), NEW at, NEW n, NEW alive, NEW failed,
           NEW canceled, Changed(t, n, at, alive, failed, canceled),
           NEW type \in EventTypes, NEW kind \in DKinds \cup {0}, Emit(t, type, kind),
           type # "succeeded", UNCHANGED <<states, early, releases>>,
           failed <=> trigger[t].failed \/ type = "dead", type = "dead" => kind = Kind(t),
           trigger[t].at # "end", at \notin {"start", "claimed", "rejected", "report"},
           at \in {"attempt", "backoff", "dead"} \/ failed => trigger[t].step <= Len(Steps(t)),
           failed => at \in {"settle", "end"}, at = "settle" => failed, canceled => ~alive,
           type = "post_completed" => /\ at = "end" /\ ~trigger[t].failed
                                      /\ trigger[t].step = Len(Steps(t)) + 1,
           type = "post_failed" => at = "end" /\ trigger[t].failed,
           type = "rejected" => /\ at = "end" /\ ~trigger[t].failed
                                /\ trigger[t].step = 1 /\ sink[t] = <<>>
    PROVE  Kept(t) /\ trigger'[t].at = at
<1>1. /\ n \in TriggerTypes /\ Sets(t, n) /\ n.at = at /\ n.step = trigger[t].step
      /\ n.post = trigger[t].post /\ n.failed = failed /\ n.canceled = canceled /\ n.alive = alive
  BY DEF Changed, Same
<1>2. Kept(t)
  BY <1>1, TellStep
<1>3. QED
  BY <1>1, <1>2, TypedRecord

LEMMA FailsFor ==
    ASSUME DispatchTypeOK, NEW t \in Triggers, EmitDead(t)
    PROVE  \E n \in TriggerTypes : /\ Sets(t, n) /\ Same(n, t) /\ n.at = "settle" /\ n.failed
                                   /\ n.alive = trigger[t].alive /\ (n.canceled => ~n.alive)
<1>1. PICK canceled \in BOOLEAN : canceled = (trigger[t].ctxText /\ ~trigger[t].alive)
  OBVIOUS
<1>2. PICK n : n = [trigger[t] EXCEPT !.at = "settle", !.failed = TRUE, !.canceled = canceled,
                                      !.ctxText = FALSE]
  OBVIOUS
<1>3. trigger[t] \in TriggerTypes /\ n \in TriggerTypes
  BY <1>2 DEF DispatchTypeOK, TriggerTypes, At
<1>4. trigger' = [trigger EXCEPT ![t].at = "settle", ![t].failed = TRUE, ![t].canceled = canceled,
                                 ![t].ctxText = FALSE]
  BY <1>1 DEF EmitDead
<1>5. Sets(t, n)
  BY <1>2, <1>4 DEF Sets, DispatchTypeOK
<1>6. /\ Same(n, t) /\ n.at = "settle" /\ n.failed
      /\ n.alive = trigger[t].alive /\ (n.canceled => ~n.alive)
  BY <1>1, <1>2, <1>3 DEF Same, TriggerTypes
<1>7. QED
  BY <1>3, <1>5, <1>6

LEMMA Cancels ==
    ASSUME DispatchTypeOK, NEW t \in Triggers, CancelTrigger(t)
    PROVE  \E n : Changed(t, n, trigger[t].at, FALSE, trigger[t].failed, trigger[t].canceled)
<1>1. PICK n : n = [trigger[t] EXCEPT !.alive = FALSE]
  OBVIOUS
<1>2. trigger[t] \in TriggerTypes /\ n \in TriggerTypes
  BY <1>1 DEF DispatchTypeOK, TriggerTypes, At
<1>3. Sets(t, n)
  BY <1>1 DEF Sets, DispatchTypeOK, CancelTrigger
<1>4. Changed(t, n, trigger[t].at, FALSE, trigger[t].failed, trigger[t].canceled)
  BY <1>1, <1>2, <1>3 DEF Changed, Same, TriggerTypes
<1>5. QED
  BY <1>4

(* The actions of one call.                                                *)
LEMMA ClaimKept ==
    ASSUME DispatchTypeOK, NEW t \in Triggers, TriggerSound(t), Claim(t)
    PROVE  /\ Kept(t)
           /\ trigger'[t].at = (IF states[trigger[t].post] = "unclaimed" THEN "claimed" ELSE "rejected")
<1>1. PICK at \in {"claimed", "rejected"} :
        at = (IF states[trigger[t].post] = "unclaimed" THEN "claimed" ELSE "rejected")
  OBVIOUS
<1>2. at \in At /\ Goes(t, at) /\ trigger[t].at = "start" /\ UNCHANGED <<sink, early, releases>>
  BY <1>1 DEF Claim, At
<1>3. PICK n : Changed(t, n, at, trigger[t].alive, trigger[t].failed, trigger[t].canceled)
  BY <1>2, GoesOn, Zenon
<1>4. ~trigger[t].failed /\ (trigger[t].canceled => ~trigger[t].alive)
  BY <1>2 DEF TriggerSound, Moves
<1>5. states' \in [DPosts -> States]
  BY DEF Claim, DispatchTypeOK, States
<1>6. /\ sink' = sink /\ early' = early /\ releases' = releases
      /\ at \notin {"start", "attempt", "backoff", "dead", "settle", "report"}
  BY <1>1, <1>2
<1>7. Kept(t) /\ trigger'[t].at = at
  BY <1>2, <1>3, <1>4, <1>5, <1>6, QuietChange
<1>8. QED
  BY <1>1, <1>7

LEMMA EmitClaimKept ==
    ASSUME DispatchTypeOK, NEW t \in Triggers, TriggerSound(t), EmitClaim(t)
    PROVE  Kept(t) /\ (Working(t)' <=> Working(t))
<1>1. PICK at \in {"step", "end"} : at = (IF trigger[t].at = "claimed" THEN "step" ELSE "end")
  OBVIOUS
<1>2. /\ at \in At /\ Goes(t, at) /\ trigger[t].at \in {"claimed", "rejected"}
      /\ Emit(t, trigger[t].at, 0) /\ UNCHANGED <<states, early, releases>>
  BY <1>1 DEF EmitClaim, At
<1>3. PICK n : Changed(t, n, at, trigger[t].alive, trigger[t].failed, trigger[t].canceled)
  BY <1>2, GoesOn, Zenon
<1>4. /\ ~trigger[t].failed /\ (trigger[t].canceled => ~trigger[t].alive)
      /\ sink[t] = <<>> /\ trigger[t].step = 1
  BY <1>2 DEF TriggerSound, Moves
<1>5. PICK type \in EventTypes : type = trigger[t].at
  BY <1>2 DEF EventTypes
<1>6. Emit(t, type, 0) /\ 0 \in DKinds \cup {0}
  BY <1>2, <1>5
<1>7. Kept(t) /\ trigger'[t].at = at
  BY <1>1, <1>2, <1>3, <1>4, <1>5, <1>6, SaysChange
<1>8. QED
  BY <1>1, <1>2, <1>7 DEF Working

LEMMA StartStepKept ==
    ASSUME DispatchTypeOK, NEW t \in Triggers, TriggerSound(t), StartStep(t)
    PROVE  Kept(t) /\ (Working(t)' <=> Working(t))
<1>1. /\ trigger[t].at = "step" /\ ~trigger[t].failed /\ (trigger[t].canceled => ~trigger[t].alive)
      /\ trigger[t].step \in 1 .. Len(Steps(t)) + 1 /\ Len(Steps(t)) \in Nat
      /\ UNCHANGED <<states, early, releases>>
  BY StepsInOrder DEF TriggerSound, Moves, StartStep
<1>2. CASE trigger[t].step > Len(Steps(t))
  <2>1. Goes(t, "settle") /\ sink' = sink /\ "settle" \in At
    BY <1>2 DEF StartStep, At
  <2>2. PICK n : Changed(t, n, "settle", trigger[t].alive, trigger[t].failed, trigger[t].canceled)
    BY <2>1, GoesOn, Zenon
  <2>3. states' \in [DPosts -> States] /\ early' = early /\ releases' = releases
    BY <1>1 DEF DispatchTypeOK
  <2>6. trigger[t].step = Len(Steps(t)) + 1
    <3>1. PICK len \in Nat : len = Len(Steps(t))
      BY <1>1
    <3>2. PICK at \in 1 .. len + 1 : at = trigger[t].step
      BY <1>1, <3>1
    <3>3. at > len
      BY <1>2, <3>1, <3>2
    <3>4. at = len + 1
      BY <3>3
    <3>5. QED
      BY <3>1, <3>2, <3>4
  <2>4. Kept(t) /\ trigger'[t].at = "settle"
    BY <1>1, <2>1, <2>2, <2>3, <2>6, QuietChange
  <2>5. QED
    BY <1>1, <2>4 DEF Working
<1>3. CASE ~(trigger[t].step > Len(Steps(t)))
  <2>1. /\ Emit(t, "started", Kind(t))
        /\ trigger' = [trigger EXCEPT ![t].at = "attempt", ![t].attempt = 1]
    BY <1>3 DEF StartStep
  <2>2. PICK n : Changed(t, n, "attempt", trigger[t].alive, trigger[t].failed, trigger[t].canceled)
    BY <2>1, NextAttempt
  <2>5. trigger[t].step <= Len(Steps(t))
    <3>1. PICK len \in Nat : len = Len(Steps(t))
      BY <1>1
    <3>2. PICK at \in 1 .. len + 1 : at = trigger[t].step
      BY <1>1, <3>1
    <3>3. ~(at > len)
      BY <1>3, <3>1, <3>2
    <3>4. at <= len
      BY <3>3
    <3>5. QED
      BY <3>1, <3>2, <3>4
  <2>3. trigger[t].step <= Len(Steps(t)) /\ Kind(t) \in DKinds \cup {0} /\ "started" \in EventTypes
    <3>1. Kind(t) \in DKinds \cup {0}
      BY <2>5, KindTyped, Zenon
    <3>2. QED
      BY <2>5, <3>1 DEF EventTypes
  <2>7. /\ trigger[t].at = "step" /\ ~trigger[t].failed /\ (trigger[t].canceled => ~trigger[t].alive)
        /\ UNCHANGED <<states, early, releases>> /\ Emit(t, "started", Kind(t))
    BY <1>1, <2>1
  <2>4. Kept(t) /\ trigger'[t].at = "attempt"
    BY <2>2, <2>3, <2>7, SaysChange
  <2>6. QED
    BY <1>1, <2>4 DEF Working
<1>4. QED
  BY <1>2, <1>3

LEMMA RunKept ==
    ASSUME DispatchTypeOK, NEW t \in Triggers, TriggerSound(t), Run(t)
    PROVE  Kept(t) /\ (Working(t)' <=> Working(t))
<1>1. /\ trigger[t].at = "attempt" /\ ~trigger[t].failed
      /\ (trigger[t].canceled => ~trigger[t].alive)
      /\ trigger[t].step <= Len(Steps(t))
      /\ UNCHANGED <<states, early, releases>>
  BY DEF TriggerSound, Moves, Run
<1>2. Kind(t) \in DKinds \cup {0} /\ "failed" \in EventTypes
  BY <1>1, KindTyped DEF EventTypes
<1>3. \/ Emit(t, "failed", Kind(t)) /\ \E ctxText \in BOOLEAN : Dies(t, ctxText)
      \/ Emit(t, "failed", Kind(t)) /\ Goes(t, "backoff")
      \/ /\ Emit(t, "succeeded", Kind(t))
         /\ trigger' = [trigger EXCEPT ![t].at = "step", ![t].step = @ + 1]
  BY DEF Run
<1>4. CASE Emit(t, "failed", Kind(t)) /\ \E ctxText \in BOOLEAN : Dies(t, ctxText)
  <2>1. PICK n : Changed(t, n, "dead", trigger[t].alive, trigger[t].failed, trigger[t].canceled)
    BY <1>4, DiesOff
  <2>2. Kept(t) /\ trigger'[t].at = "dead"
    BY <1>1, <1>2, <1>4, <2>1, SaysChange
  <2>3. QED
    BY <1>1, <2>2 DEF Working
<1>5. CASE Emit(t, "failed", Kind(t)) /\ Goes(t, "backoff")
  <2>0. "backoff" \in At
    BY DEF At
  <2>1. PICK n : Changed(t, n, "backoff", trigger[t].alive, trigger[t].failed, trigger[t].canceled)
    BY <1>5, <2>0, GoesOn
  <2>2. Kept(t) /\ trigger'[t].at = "backoff"
    BY <1>1, <1>2, <1>5, <2>1, SaysChange
  <2>3. QED
    BY <1>1, <2>2 DEF Working
<1>6. CASE /\ Emit(t, "succeeded", Kind(t))
           /\ trigger' = [trigger EXCEPT ![t].at = "step", ![t].step = @ + 1]
  <2>1. Kept(t)
    BY <1>1, <1>6, SuccessStep
  <2>2. trigger'[t].at = "step"
    BY <1>6 DEF DispatchTypeOK
  <2>3. QED
    BY <1>1, <2>1, <2>2 DEF Working
<1>7. QED
  BY <1>3, <1>4, <1>5, <1>6

LEMMA BackoffKept ==
    ASSUME DispatchTypeOK, NEW t \in Triggers, TriggerSound(t), Backoff(t)
    PROVE  Kept(t) /\ (Working(t)' <=> Working(t))
<1>1. /\ trigger[t].at = "backoff" /\ ~trigger[t].failed
      /\ (trigger[t].canceled => ~trigger[t].alive)
      /\ trigger[t].step <= Len(Steps(t))
      /\ sink' = sink /\ early' = early /\ releases' = releases /\ states' \in [DPosts -> States]
  BY DEF TriggerSound, Moves, Backoff, DispatchTypeOK
<1>2. PICK attempt \in Nat : attempt = trigger[t].attempt + 1
  BY DEF DispatchTypeOK
<1>3. \/ trigger' = [trigger EXCEPT ![t].at = "attempt", ![t].attempt = attempt]
      \/ Dies(t, TRUE)
  BY <1>2 DEF Backoff
<1>4. PICK at, n :
        /\ at \in {"attempt", "dead"}
        /\ Changed(t, n, at, trigger[t].alive, trigger[t].failed, trigger[t].canceled)
  <2>1. CASE trigger' = [trigger EXCEPT ![t].at = "attempt", ![t].attempt = attempt]
    <3>1. \E n : Changed(t, n, "attempt", trigger[t].alive, trigger[t].failed, trigger[t].canceled)
      BY <2>1, NextAttempt, Zenon
    <3>2. QED
      BY <3>1
  <2>2. CASE Dies(t, TRUE)
    <3>1. TRUE \in BOOLEAN
      OBVIOUS
    <3>2. \E n : Changed(t, n, "dead", trigger[t].alive, trigger[t].failed, trigger[t].canceled)
      BY <2>2, <3>1, DiesOff, Zenon
    <3>3. QED
      BY <3>2
  <2>3. QED
    BY <1>3, <2>1, <2>2
<1>5. Kept(t) /\ trigger'[t].at = at
  BY <1>1, <1>4, QuietChange
<1>6. QED
  BY <1>1, <1>4, <1>5 DEF Working

LEMMA EmitDeadKept ==
    ASSUME DispatchTypeOK, NEW t \in Triggers, TriggerSound(t), EmitDead(t)
    PROVE  Kept(t) /\ (Working(t)' <=> Working(t))
<1>1. /\ trigger[t].at = "dead" /\ ~trigger[t].failed /\ trigger[t].step <= Len(Steps(t))
      /\ Emit(t, "dead", Kind(t)) /\ UNCHANGED <<states, early, releases>>
  BY DEF TriggerSound, Moves, EmitDead
<1>2. Kind(t) \in DKinds \cup {0} /\ "dead" \in EventTypes
  BY <1>1, KindTyped DEF EventTypes
<1>3. PICK n \in TriggerTypes : /\ Sets(t, n) /\ Same(n, t) /\ n.at = "settle" /\ n.failed
                                /\ n.alive = trigger[t].alive /\ (n.canceled => ~n.alive)
  BY FailsFor, Zenon
<1>4. Kept(t) /\ trigger'[t].at = "settle"
  <2>1. n.step = trigger[t].step /\ n.post = trigger[t].post
    BY <1>3 DEF Same
  <2>2. Kept(t)
    BY <1>1, <1>2, <1>3, <2>1, TellStep
  <2>3. QED
    BY <1>3, <2>2, TypedRecord
<1>5. QED
  BY <1>1, <1>4 DEF Working

LEMMA SettleKept ==
    ASSUME DispatchTypeOK, NEW t \in Triggers, TriggerSound(t), Settle(t)
    PROVE  Kept(t) /\ trigger'[t].at = "report"
<1>1. /\ trigger[t].at = "settle" /\ (trigger[t].canceled => ~trigger[t].alive)
      /\ (~trigger[t].failed => trigger[t].step = Len(Steps(t)) + 1)
      /\ Goes(t, "report") /\ sink' = sink /\ early' = early /\ releases' = releases
  BY DEF TriggerSound, Moves, Settle
<1>2. states' \in [DPosts -> States] /\ "report" \in At
  BY DEF Settle, DispatchTypeOK, States, At
<1>3. PICK n : Changed(t, n, "report", trigger[t].alive, trigger[t].failed, trigger[t].canceled)
  BY <1>1, <1>2, GoesOn, Zenon
<1>4. QED
  BY <1>1, <1>2, <1>3, QuietChange

LEMMA ReportKept ==
    ASSUME DispatchTypeOK, NEW t \in Triggers, TriggerSound(t), Report(t)
    PROVE  Kept(t) /\ (Working(t)' <=> Working(t))
<1>1. /\ trigger[t].at = "report" /\ (trigger[t].canceled => ~trigger[t].alive)
      /\ (trigger[t].failed => trigger[t].step <= Len(Steps(t)))
      /\ (~trigger[t].failed => trigger[t].step = Len(Steps(t)) + 1)
      /\ Goes(t, "end") /\ "end" \in At /\ UNCHANGED <<states, early, releases>>
  BY DEF TriggerSound, Moves, Report, At
<1>2. PICK type \in EventTypes :
        /\ type = (IF trigger[t].failed THEN "post_failed" ELSE "post_completed")
        /\ Emit(t, type, 0) /\ 0 \in DKinds \cup {0}
  BY DEF EventTypes, Report
<1>3. PICK n : Changed(t, n, "end", trigger[t].alive, trigger[t].failed, trigger[t].canceled)
  BY <1>1, GoesOn, Zenon
<1>4. /\ trigger[t].failed \in BOOLEAN /\ type \notin {"succeeded", "dead", "rejected"}
      /\ (type = "post_completed" => ~trigger[t].failed) /\ (type = "post_failed" => trigger[t].failed)
  BY <1>2 DEF DispatchTypeOK
<1>5. Kept(t) /\ trigger'[t].at = "end"
  BY <1>1, <1>2, <1>3, <1>4, SaysChange
<1>6. QED
  BY <1>1, <1>5 DEF Working

LEMMA CancelKept ==
    ASSUME DispatchTypeOK, NEW t \in Triggers, TriggerSound(t), CancelTrigger(t)
    PROVE  Kept(t) /\ (Working(t)' <=> Working(t))
<1>1. /\ trigger[t].at # "end" /\ sink' = sink /\ UNCHANGED <<states, early, releases>>
  BY DEF CancelTrigger
<1>2. PICK n : Changed(t, n, trigger[t].at, FALSE, trigger[t].failed, trigger[t].canceled)
  BY Cancels, Zenon
<1>3. /\ n \in TriggerTypes /\ Sets(t, n) /\ n.at = trigger[t].at /\ n.step = trigger[t].step
      /\ n.post = trigger[t].post /\ n.failed = trigger[t].failed /\ ~n.alive
  BY <1>2 DEF Changed, Same
<1>4. /\ early' \in [DPosts -> Nat] /\ releases' \in [DPosts -> Nat]
      /\ states' \in [DPosts -> States]
  BY <1>1 DEF DispatchTypeOK
<1>5. Moves(t)
  BY DEF TriggerSound
<1>6. Kept(t)
  BY <1>1, <1>3, <1>4, <1>5, QuietStep DEF Moves
<1>7. trigger'[t].at = trigger[t].at
  BY <1>3, TypedRecord
<1>8. QED
  BY <1>6, <1>7 DEF Working

-----------------------------------------------------------------------------
(* Who won and who works on which post.                                    *)
LEMMA WonKept ==
    ASSUME DispatchTypeOK, NEW t \in Triggers, TriggerSound(t),
           EmitClaim(t) \/ StartStep(t) \/ Run(t) \/ Backoff(t) \/ EmitDead(t) \/ Settle(t)
           \/ Report(t) \/ CancelTrigger(t)
    PROVE  Won(t)' <=> Won(t)
<1>1. CASE EmitClaim(t)
  <2>1. PICK type \in EventTypes : type = trigger[t].at /\ type \in {"claimed", "rejected"}
    BY <1>1 DEF EmitClaim, EventTypes
  <2>2. Emit(t, type, 0) /\ trigger'[t].at \in {"step", "end"}
    BY <1>1, <2>1 DEF EmitClaim, Goes, DispatchTypeOK
  <2>3. \A x : Emitted(t, x)' <=> (Emitted(t, x) \/ x = type)
    <3>1. 0 \in DKinds \cup {0}
      OBVIOUS
    <3>2. QED
      BY <2>2, <3>1, EmitsAlso, Zenon
  <2>4. QED
    BY <2>1, <2>2, <2>3 DEF Won
<1>2. CASE StartStep(t) \/ Run(t) \/ Backoff(t) \/ EmitDead(t) \/ Settle(t) \/ Report(t)
  <2>1. trigger[t].at # "claimed"
    BY <1>2 DEF StartStep, Run, Backoff, EmitDead, Settle, Report
  <2>2. trigger'[t].at # "claimed"
    <3>1. CASE StartStep(t)
      BY <3>1 DEF StartStep, Goes, DispatchTypeOK
    <3>2. CASE Run(t)
      BY <3>2 DEF Run, Dies, Goes, DispatchTypeOK
    <3>3. CASE Backoff(t)
      BY <3>3 DEF Backoff, Dies, DispatchTypeOK
    <3>4. CASE EmitDead(t)
      BY <3>4 DEF EmitDead, DispatchTypeOK
    <3>5. CASE Settle(t)
      BY <3>5 DEF Settle, Goes, DispatchTypeOK
    <3>6. CASE Report(t)
      BY <3>6 DEF Report, Goes, DispatchTypeOK
    <3>7. QED
      BY <1>2, <3>1, <3>2, <3>3, <3>4, <3>5, <3>6
  <2>3. Emitted(t, "claimed")' <=> Emitted(t, "claimed")
    <3>1. CASE sink' = sink
      BY <3>1 DEF Emitted
    <3>2. CASE \E type \in EventTypes, kind \in DKinds \cup {0} :
                  Emit(t, type, kind) /\ type # "claimed"
      BY <3>2, EmitsAlso
    <3>3. CASE trigger[t].step <= Len(Steps(t)) /\ ~(sink' = sink)
      <4>1. Kind(t) \in DKinds \cup {0}
        BY <3>3, KindTyped
      <4>2. \/ \E type \in {"started", "failed", "succeeded", "dead"} : Emit(t, type, Kind(t))
            \/ \E type \in {"post_failed", "post_completed"} : Emit(t, type, 0)
        BY <1>2, <3>3 DEF StartStep, Run, Backoff, EmitDead, Settle, Report
      <4>3. 0 \in DKinds \cup {0}
        OBVIOUS
      <4>4. QED
        BY <3>2, <4>1, <4>2, <4>3 DEF EventTypes
    <3>4. CASE ~(trigger[t].step <= Len(Steps(t))) /\ ~(sink' = sink)
      <4>1. trigger[t].at \notin {"attempt", "dead"}
        BY <3>4 DEF TriggerSound, Moves
      <4>2. ~StartStep(t)
        <5>1. trigger[t].step \in 1 .. Len(Steps(t)) + 1 /\ Len(Steps(t)) \in Nat
          BY StepsInOrder DEF TriggerSound, Moves
        <5>2. trigger[t].step > Len(Steps(t))
          BY <3>4, <5>1
        <5>3. QED
          BY <3>4, <5>2 DEF StartStep
      <4>3. \E type \in {"post_failed", "post_completed"} : Emit(t, type, 0)
        BY <1>2, <3>4, <4>1, <4>2 DEF Run, Backoff, EmitDead, Settle, Report
      <4>4. 0 \in DKinds \cup {0}
        OBVIOUS
      <4>5. QED
        BY <3>2, <4>3, <4>4 DEF EventTypes
    <3>5. QED
      BY <3>1, <3>3, <3>4
  <2>4. QED
    BY <2>1, <2>2, <2>3 DEF Won
<1>3. CASE CancelTrigger(t)
  <2>1. trigger'[t].at = trigger[t].at /\ sink' = sink
    BY <1>3 DEF CancelTrigger, DispatchTypeOK
  <2>2. QED
    BY <2>1 DEF Won, Emitted
<1>4. QED
  BY <1>1, <1>2, <1>3

LEMMA WorkersSame ==
    ASSUME WorkersInv, NEW t \in Triggers, Kept(t), Working(t)' <=> Working(t), Won(t)' <=> Won(t),
           UNCHANGED <<states, early, releases>>
    PROVE  WorkersInv'
<1>1. ASSUME NEW p \in DPosts PROVE Workers(p)' = Workers(p) /\ Winners(p)' = Winners(p)
  <2>1. \A u \in Triggers : /\ Working(u)' <=> Working(u)
                            /\ Won(u)' <=> Won(u)
                            /\ trigger'[u].post = trigger[u].post
    BY DEF Kept, KeptTrigger, Working, Won, Emitted
  <2>2. QED
    BY <2>1 DEF Workers, Winners
<1>2. QED
  BY <1>1 DEF WorkersInv, Counted, Held, Processed

LEMMA WorkersOfOthers ==
    ASSUME NEW t \in Triggers, Kept(t), NEW p \in DPosts
    PROVE  /\ p # trigger[t].post => Workers(p)' = Workers(p) /\ Winners(p)' = Winners(p)
           /\ p = trigger[t].post /\ Working(t) /\ ~Working(t)' => Workers(p)' = Workers(p) \ {t}
           /\ p = trigger[t].post /\ ~Working(t) /\ Working(t)' => Workers(p)' = Workers(p) \cup {t}
           /\ (Won(t)' <=> Won(t)) => Winners(p)' = Winners(p)
           /\ p = trigger[t].post /\ ~Won(t) /\ Won(t)' => Winners(p)' = Winners(p) \cup {t}
<1>1. /\ \A u \in Triggers : u # t => (Working(u)' <=> Working(u)) /\ (Won(u)' <=> Won(u))
      /\ \A u \in Triggers : trigger'[u].post = trigger[u].post
  BY DEF Kept, KeptTrigger, Working, Won, Emitted
<1>2. QED
  BY <1>1 DEF Workers, Winners

(* A post whose claim, releases, winners and workers are what they were.   *)
LEMMA CountedSame ==
    ASSUME NEW p \in DPosts, Counted(p), Workers(p)' = Workers(p), Winners(p)' = Winners(p),
           states'[p] = states[p], early'[p] = early[p], releases'[p] = releases[p]
    PROVE  Counted(p)'
  BY DEF Counted, Held, Processed

LEMMA OneMore ==
    ASSUME NEW S, IsFiniteSet(S), NEW x, x \notin S
    PROVE  /\ IsFiniteSet(S \cup {x}) /\ Cardinality(S) \in Nat
           /\ Cardinality(S \cup {x}) = Cardinality(S) + 1
  BY FS_AddElement, FS_CardinalityType

LEMMA ClaimWorkers ==
    ASSUME DispatchTypeOK, WorkersInv, NEW t \in Triggers, TriggerSound(t), Claim(t), Kept(t),
           trigger'[t].at = (IF states[trigger[t].post] = "unclaimed" THEN "claimed" ELSE "rejected")
    PROVE  WorkersInv'
<1>1. /\ ~Working(t) /\ ~Won(t) /\ early' = early /\ releases' = releases /\ sink' = sink
      /\ trigger[t].post \in DPosts
  BY DEF Claim, Working, Won, Emitted, TriggerSound, Moves, DispatchTypeOK
<1>2. CASE states[trigger[t].post] # "unclaimed"
  <2>1. states' = states /\ ~Working(t)' /\ ~Won(t)'
    BY <1>1, <1>2 DEF Claim, Working, Won, Emitted
  <2>2. QED
    BY <1>1, <2>1, WorkersSame
<1>3. CASE states[trigger[t].post] = "unclaimed"
  <2>1. Working(t)' /\ Won(t)' /\ states' = [states EXCEPT ![trigger[t].post] = "processing"]
    BY <1>3 DEF Claim, Working, Won
  <2>2. ASSUME NEW q \in DPosts, q # trigger[t].post PROVE Counted(q)'
    <3>1. Workers(q)' = Workers(q) /\ Winners(q)' = Winners(q) /\ states'[q] = states[q] /\ Counted(q)
      BY <2>1, <2>2, WorkersOfOthers DEF DispatchTypeOK, WorkersInv
    <3>2. early'[q] = early[q] /\ releases'[q] = releases[q]
      BY <1>1
    <3>3. QED
      BY <3>1, <3>2, CountedSame, Zenon
  <2>3. PICK p \in DPosts : p = trigger[t].post
    BY <1>1
  <2>4. /\ states[p] = "unclaimed" /\ states'[p] = "processing"
        /\ Workers(p)' = Workers(p) \cup {t} /\ Winners(p)' = Winners(p) \cup {t}
    BY <1>1, <1>3, <2>1, <2>3, WorkersOfOthers DEF DispatchTypeOK
  <2>5. t \notin Workers(p) /\ t \notin Winners(p)
    BY <1>1 DEF Workers, Winners
  <2>6. PICK e \in Nat, r \in Nat : e = early[p] /\ r = releases[p]
    BY DEF DispatchTypeOK
  <2>7. PICK W, N : W = Workers(p) /\ N = Winners(p)
    OBVIOUS
  <2>8. Counted(p) /\ Held(p) = 0 /\ Processed(p) = 0 /\ Held(p)' = 1 /\ Processed(p)' = 1
    BY <2>4 DEF WorkersInv, Held, Processed
  <2>9. /\ IsFiniteSet(W) /\ IsFiniteSet(N) /\ Cardinality(N) = r + 0 /\ Cardinality(W) <= e + 0
    BY <2>6, <2>7, <2>8 DEF Counted
  <2>10. /\ IsFiniteSet(W \cup {t}) /\ Cardinality(W) \in Nat
         /\ Cardinality(W \cup {t}) = Cardinality(W) + 1
    BY <2>5, <2>7, <2>9, OneMore
  <2>11. /\ IsFiniteSet(N \cup {t}) /\ Cardinality(N) \in Nat
         /\ Cardinality(N \cup {t}) = Cardinality(N) + 1
    BY <2>5, <2>7, <2>9, OneMore
  <2>12. /\ IsFiniteSet(N \cup {t}) /\ IsFiniteSet(W \cup {t})
         /\ Cardinality(N \cup {t}) = r + 1 /\ Cardinality(W \cup {t}) <= e + 1
    BY <2>9, <2>10, <2>11
  <2>13. Workers(p)' = W \cup {t} /\ Winners(p)' = N \cup {t} /\ early'[p] = e /\ releases'[p] = r
    BY <1>1, <2>4, <2>6, <2>7
  <2>14. Workers(p)' # {}
    BY <2>13
  <2>15. Counted(p)'
    BY <2>8, <2>12, <2>13, <2>14 DEF Counted
  <2>16. ASSUME NEW q \in DPosts PROVE Counted(q)'
    BY <2>2, <2>3, <2>15
  <2>17. QED
    BY <2>16 DEF WorkersInv
<1>4. QED
  BY <1>2, <1>3

LEMMA SettleWorkers ==
    ASSUME DispatchTypeOK, WorkersInv, NEW t \in Triggers, TriggerSound(t), Settle(t), Kept(t),
           trigger'[t].at = "report"
    PROVE  WorkersInv'
<1>1. /\ Working(t) /\ ~Working(t)' /\ (Won(t)' <=> Won(t)) /\ early' = early /\ releases' = releases
      /\ trigger[t].post \in DPosts
  BY WonKept DEF Settle, Working, DispatchTypeOK
<1>2. ASSUME NEW q \in DPosts, q # trigger[t].post PROVE Counted(q)'
  <2>1. Workers(q)' = Workers(q) /\ Winners(q)' = Winners(q) /\ states'[q] = states[q] /\ Counted(q)
    BY <1>2, WorkersOfOthers DEF DispatchTypeOK, WorkersInv, Settle
  <2>2. early'[q] = early[q] /\ releases'[q] = releases[q]
    BY <1>1
  <2>3. QED
    BY <2>1, <2>2, CountedSame, Zenon
<1>3. PICK p \in DPosts : p = trigger[t].post
  BY <1>1
<1>4. Workers(p)' = Workers(p) \ {t} /\ t \in Workers(p) /\ Winners(p)' = Winners(p)
  BY <1>1, <1>3, WorkersOfOthers DEF Workers
<1>5. /\ states'[p] \in {"unclaimed", "failed", "done"}
      /\ states'[p] = "unclaimed" <=> states[p] = "unclaimed"
  BY <1>3 DEF Settle, DispatchTypeOK
<1>6. PICK e \in Nat, r \in Nat : e = early[p] /\ r = releases[p]
  BY DEF DispatchTypeOK
<1>7. PICK W, N : W = Workers(p) /\ N = Winners(p)
  OBVIOUS
<1>8. Counted(p) /\ Held(p)' = Held(p) /\ Processed(p)' = 0
  BY <1>5 DEF WorkersInv, Held, Processed
<1>9. /\ IsFiniteSet(W) /\ IsFiniteSet(N) /\ Cardinality(N) = r + Held(p)
      /\ Cardinality(W) <= e + Processed(p)
  BY <1>6, <1>7, <1>8 DEF Counted
<1>10. /\ IsFiniteSet(W \ {t}) /\ Cardinality(W \ {t}) = Cardinality(W) - 1
       /\ Cardinality(W) \in Nat
  BY <1>4, <1>7, <1>9, FS_RemoveElement, FS_CardinalityType
<1>11. Cardinality(W \ {t}) <= e + 0
  <2>1. Processed(p) \in 0 .. 1
    BY DEF Processed
  <2>2. QED
    BY <1>9, <1>10, <2>1
<1>12. /\ Workers(p)' = W \ {t} /\ Winners(p)' = N /\ early'[p] = e /\ releases'[p] = r
       /\ states'[p] # "processing"
  BY <1>1, <1>4, <1>5, <1>6, <1>7
<1>13. Counted(p)'
  BY <1>8, <1>9, <1>10, <1>11, <1>12 DEF Counted
<1>14. ASSUME NEW q \in DPosts PROVE Counted(q)'
  BY <1>2, <1>3, <1>13
<1>15. QED
  BY <1>14 DEF WorkersInv

LEMMA ReleaseStep ==
    ASSUME DispatchIInv, NEW p \in DPosts, Release(p)
    PROVE  DispatchIInv'
<1>0. DispatchTypeOK /\ WorkersInv
  BY DEF DispatchIInv
<1>1. /\ states[p] # "unclaimed" /\ trigger' = trigger /\ sink' = sink
      /\ states' = [states EXCEPT ![p] = "unclaimed"]
      /\ releases' = [releases EXCEPT ![p] = @ + 1]
      /\ early' = [early EXCEPT ![p] = @ + Processed(p)]
  BY DEF Release, Processed
<1>2. PICK e \in Nat, r \in Nat, x \in 0 .. 1 : e = early[p] /\ r = releases[p] /\ x = Processed(p)
  BY <1>0 DEF DispatchTypeOK, Processed
<1>3. /\ releases' \in [DPosts -> Nat] /\ releases'[p] = r + 1
      /\ early' \in [DPosts -> Nat] /\ early'[p] = e + x
      /\ \A q \in DPosts : q # p => releases'[q] = releases[q] /\ early'[q] = early[q]
  <2>1. /\ releases' = [releases EXCEPT ![p] = r + 1] /\ early' = [early EXCEPT ![p] = e + x]
        /\ releases \in [DPosts -> Nat] /\ early \in [DPosts -> Nat]
    BY <1>0, <1>1, <1>2 DEF DispatchTypeOK
  <2>2. r + 1 \in Nat /\ e + x \in Nat
    OBVIOUS
  <2>3. QED
    BY <2>1, <2>2
<1>4. /\ states' \in [DPosts -> States] /\ states'[p] = "unclaimed"
      /\ \A q \in DPosts : q # p => states'[q] = states[q]
  BY <1>0, <1>1 DEF DispatchTypeOK, States
<1>5. DispatchTypeOK'
  BY <1>0, <1>1, <1>3, <1>4 DEF DispatchTypeOK
<1>6. \A t \in Triggers : TriggerSound(t)'
  <2>1. \A t \in Triggers : KeptTrigger(t) /\ TriggerSound(t)
    BY <1>1 DEF KeptTrigger, DispatchIInv
  <2>2. QED
    BY <2>1, TriggerKept
<1>7. \A q \in DPosts : Workers(q)' = Workers(q) /\ Winners(q)' = Winners(q)
  BY <1>1 DEF Workers, Working, Winners, Won, Emitted
<1>8. Counted(p)'
  <2>1. Counted(p) /\ Held(p) = 1 /\ Held(p)' = 0 /\ Processed(p)' = 0 /\ states'[p] # "processing"
    BY <1>0, <1>1, <1>4 DEF WorkersInv, Held, Processed
  <2>2. PICK W, N : W = Workers(p) /\ N = Winners(p)
    OBVIOUS
  <2>3. IsFiniteSet(W) /\ IsFiniteSet(N) /\ Cardinality(N) = r + 1 /\ Cardinality(W) <= e + x
    BY <1>2, <2>1, <2>2 DEF Counted
  <2>4. Cardinality(N) = (r + 1) + 0 /\ Cardinality(W) <= (e + x) + 0
    BY <2>3
  <2>5. Workers(p)' = W /\ Winners(p)' = N
    BY <1>7, <2>2
  <2>6. QED
    BY <1>3, <2>1, <2>3, <2>4, <2>5 DEF Counted
<1>9. ASSUME NEW q \in DPosts, q # p PROVE Counted(q)'
  <2>1. Counted(q)
    BY <1>0 DEF WorkersInv
  <2>2. QED
    BY <1>3, <1>4, <1>7, <1>9, <2>1, CountedSame
<1>10. WorkersInv'
  BY <1>8, <1>9 DEF WorkersInv
<1>11. QED
  BY <1>5, <1>6, <1>10 DEF DispatchIInv

(* Every step of a call keeps the invariant.                               *)
LEMMA CallStep ==
    ASSUME DispatchIInv, NEW t \in Triggers, Process(t) \/ CancelTrigger(t)
    PROVE  DispatchIInv'
<1>1. DispatchTypeOK /\ WorkersInv /\ TriggerSound(t)
  BY DEF DispatchIInv
<1>2. Kept(t) /\ WorkersInv'
  <2>1. CASE Claim(t)
    BY <1>1, <2>1, ClaimKept, ClaimWorkers
  <2>2. CASE Settle(t)
    BY <1>1, <2>2, SettleKept, SettleWorkers
  <2>3. CASE EmitClaim(t) \/ StartStep(t) \/ Run(t) \/ Backoff(t) \/ EmitDead(t) \/ Report(t)
             \/ CancelTrigger(t)
    <3>1. Kept(t) /\ (Working(t)' <=> Working(t))
      BY <1>1, <2>3, EmitClaimKept, StartStepKept, RunKept, BackoffKept, EmitDeadKept, ReportKept,
         CancelKept
    <3>2. UNCHANGED <<states, early, releases>>
      BY <2>3 DEF EmitClaim, StartStep, Run, Backoff, EmitDead, Report, CancelTrigger
    <3>3. Won(t)' <=> Won(t)
      BY <1>1, <2>3, WonKept
    <3>4. QED
      BY <1>1, <3>1, <3>2, <3>3, WorkersSame
  <2>4. QED
    BY <2>1, <2>2, <2>3 DEF Process
<1>3. ASSUME NEW u \in Triggers PROVE TriggerSound(u)'
  <2>1. CASE u = t
    BY <1>2, <2>1 DEF Kept
  <2>2. CASE u # t
    BY <1>2, <2>2, TriggerKept DEF Kept, DispatchIInv
  <2>3. QED
    BY <2>1, <2>2
<1>4. QED
  BY <1>2, <1>3 DEF Kept, DispatchIInv

LEMMA DispatchInitIInv == DispatchInit => DispatchIInv
<1> SUFFICES ASSUME DispatchInit PROVE DispatchIInv
  OBVIOUS
<1>1. /\ \A t \in Triggers : /\ trigger[t].at = "start" /\ trigger[t].step = 1
                             /\ trigger[t].failed = FALSE /\ trigger[t].canceled = FALSE
                             /\ sink[t] = <<>>
      /\ \A p \in DPosts : states[p] = "unclaimed"
      /\ \A p \in DPosts : early[p] = 0 /\ releases[p] = 0
      /\ early \in [DPosts -> Nat] /\ releases \in [DPosts -> Nat]
  BY DEF DispatchInit
<1>2. DispatchTypeOK
  <2>1. trigger \in [Triggers -> TriggerTypes]
    <3>1. PICK Starts : Starts = [at : {"start"}, post : DPosts, alive : {TRUE}, step : {1},
                                  attempt : {0}, failed : {FALSE}, ctxText : {FALSE},
                                  canceled : {FALSE}]
      OBVIOUS
    <3>2. Starts \subseteq TriggerTypes
      <4>1. "start" \in At /\ TRUE \in BOOLEAN /\ FALSE \in BOOLEAN /\ 0 \in Nat /\ 1 \in Nat
        BY DEF At
      <4>2. QED
        BY <3>1, <4>1 DEF TriggerTypes
    <3>3. trigger \in [Triggers -> Starts]
      BY <3>1, Zenon DEF DispatchInit
    <3>4. QED
      BY <3>2, <3>3
  <2>2. sink \in [Triggers -> Seq(Events)] /\ states \in [DPosts -> States]
    BY DEF DispatchInit, States
  <2>3. QED
    BY <1>1, <2>1, <2>2 DEF DispatchTypeOK, TriggerTypes, Events
<1>3. WorkersInv
  <2>1. ASSUME NEW p \in DPosts PROVE Workers(p) = {} /\ Winners(p) = {}
    BY <1>1 DEF Workers, Winners, Working, Won, Emitted
  <2>2. IsFiniteSet({}) /\ Cardinality({}) = 0
    BY FS_EmptySet
  <2>3. ASSUME NEW p \in DPosts PROVE Held(p) = 0 /\ Processed(p) = 0 /\ states[p] # "processing"
    BY <1>1 DEF Held, Processed
  <2>4. ASSUME NEW p \in DPosts PROVE Counted(p)
    <3>1. /\ IsFiniteSet(Winners(p)) /\ IsFiniteSet(Workers(p))
          /\ Cardinality(Winners(p)) = 0 /\ Cardinality(Workers(p)) = 0
      BY <2>1, <2>2
    <3>2. releases[p] + Held(p) = 0 /\ early[p] + Processed(p) = 0
      BY <1>1, <2>3
    <3>3. QED
      BY <2>3, <3>1, <3>2 DEF Counted
  <2>5. QED
    BY <2>4 DEF WorkersInv
<1>4. ASSUME NEW t \in Triggers PROVE TriggerSound(t)
  <2>1. (\A x : ~Emitted(t, x)) /\ Succeeded(t) = {}
    BY <1>1 DEF Emitted, Succeeded
  <2>2. Moves(t)
    <3>1. Len(Steps(t)) \in Nat
      BY <1>2, StepsInOrder
    <3>2. 1 \in 1 .. Len(Steps(t)) + 1
      BY <3>1
    <3>3. QED
      BY <1>1, <3>2 DEF Moves
  <2>3. SinkTells(t)
    BY <1>1, <2>1 DEF SinkTells
  <2>4. InOrder(t)
    <3>1. PICK m \in Nat : m = 0 /\ m = trigger[t].step - 1
      BY <1>1
    <3>2. \A k \in 1 .. m : FALSE
      BY <3>1
    <3>3. \E its : its \in [1 .. m -> {}]
      <4>1. [k \in 1 .. m |-> 0] \in [1 .. m -> {}]
        BY <3>2
      <4>2. QED
        BY <4>1, Zenon
    <3>4. Listed(m, {}, sink[t], Steps(t))
      BY <3>2, <3>3 DEF Listed
    <3>5. QED
      BY <2>1, <3>1, <3>4 DEF InOrder
  <2>5. DeadAt(t)
    BY <1>1 DEF DeadAt
  <2>6. QED
    BY <2>2, <2>3, <2>4, <2>5 DEF TriggerSound
<1>5. QED
  BY <1>2, <1>3, <1>4 DEF DispatchIInv

LEMMA DispatchInductive == DispatchIInv /\ [DispatchNext]_dispatchVars => DispatchIInv'
<1> SUFFICES ASSUME DispatchIInv, [DispatchNext]_dispatchVars PROVE DispatchIInv'
  OBVIOUS
<1>1. CASE \E t \in Triggers : Process(t) \/ CancelTrigger(t)
  BY <1>1, CallStep
<1>2. CASE \E p \in DPosts : Release(p)
  BY <1>2, ReleaseStep
<1>3. CASE UNCHANGED dispatchVars
  <2>1. UNCHANGED <<states, trigger, sink, early, releases>>
    BY <1>3 DEF dispatchVars
  <2>2. DispatchTypeOK'
    BY <2>1 DEF DispatchIInv, DispatchTypeOK
  <2>3. WorkersInv'
    <3>1. \A p \in DPosts : Workers(p)' = Workers(p) /\ Winners(p)' = Winners(p)
      BY <2>1 DEF Workers, Working, Winners, Won, Emitted
    <3>2. QED
      BY <2>1, <3>1 DEF DispatchIInv, WorkersInv, Counted, Held, Processed
  <2>4. \A t \in Triggers : KeptTrigger(t) /\ TriggerSound(t)
    BY <2>1 DEF KeptTrigger, DispatchIInv
  <2>5. QED
    BY <2>2, <2>3, <2>4, TriggerKept DEF DispatchIInv
<1>4. QED
  BY <1>1, <1>2, <1>3 DEF DispatchNext

(* How many of the places S of g hold d.                                   *)
Number(S, g, d) == Cardinality({i \in S : g[i] = d})

(* A one-to-one correspondence keeps this number.                          *)
OneToOne(m, A, f, g, h) ==
    /\ f \in [1 .. m -> A]
    /\ \A i \in A : \E k \in 1 .. m : f[k] = i
    /\ \A k, l \in 1 .. m : k # l => f[k] # f[l]
    /\ \A k \in 1 .. m : g[f[k]] = h[k]

LEMMA Matched ==
    ASSUME NEW m \in Nat, NEW A, NEW f, NEW g, NEW h, NEW d, OneToOne(m, A, f, g, h)
    PROVE  Number(A, g, d) = Number(1 .. m, h, d)
<1>0. /\ f \in [1 .. m -> A]
      /\ \A i \in A : \E k \in 1 .. m : f[k] = i
      /\ \A k, l \in 1 .. m : k # l => f[k] # f[l]
      /\ \A k \in 1 .. m : g[f[k]] = h[k]
  BY Zenon DEF OneToOne
<1>1. PICK S, T : S = {k \in 1 .. m : h[k] = d} /\ T = {i \in A : g[i] = d}
  OBVIOUS
<1>2. IsFiniteSet(S)
  <2>1. IsFiniteSet(1 .. m) /\ S \in SUBSET (1 .. m)
    BY <1>1, FS_Interval
  <2>2. QED
    BY <2>1, FS_Subset
<1>3. PICK b : b = [k \in S |-> f[k]]
  OBVIOUS
<1>4. \A k \in S : k \in 1 .. m /\ b[k] = f[k] /\ f[k] \in T
  BY <1>0, <1>1, <1>3
<1>5. b \in [S -> T]
  BY <1>3, <1>4
<1>6. \A i \in T : \E k \in S : b[k] = i
  <2>1. ASSUME NEW i \in T PROVE \E k \in S : b[k] = i
    <3>1. i \in A /\ g[i] = d
      BY <1>1
    <3>2. PICK k \in 1 .. m : f[k] = i
      BY <1>0, <3>1
    <3>3. h[k] = d
      BY <1>0, <3>1, <3>2
    <3>4. k \in S
      BY <1>1, <3>3
    <3>5. QED
      BY <1>4, <3>2, <3>4
  <2>2. QED
    BY <2>1
<1>7. \A k, l \in S : b[k] = b[l] => k = l
  BY <1>0, <1>4
<1>8. b \in Bijection(S, T)
  BY <1>5, <1>6, <1>7, Zenon DEF Bijection, Injection, Surjection, IsInjective
<1>9. ExistsBijection(S, T)
  BY <1>8, Zenon DEF ExistsBijection
<1>10. Cardinality(T) = Cardinality(S)
  BY <1>2, <1>9, FS_Bijection
<1>11. QED
  BY <1>1, <1>10 DEF Number

(* Its successes come in the order of the stages, and of each kind as many *)
(* succeeded as there were steps of it before the present one.             *)
Before(t, m, d) == Cardinality({k \in 1 .. m : Steps(t)[k] = d})

LEMMA SuccessesCounted ==
    ASSUME DispatchIInv, NEW t \in Triggers, NEW n, n = Len(Registered[trigger[t].post])
    PROVE  /\ n \in Nat /\ Len(Steps(t)) = n /\ trigger[t].step \in 1 .. n + 1
           /\ \A d : Ran(t, d) = Before(t, trigger[t].step - 1, d)
           /\ \A d : Asked(t, d) = Before(t, n, d)
           /\ \A i, j \in Succeeded(t) : i < j => sink[t][i].kind <= sink[t][j].kind
<1>1. DispatchTypeOK /\ Moves(t) /\ InOrder(t)
  BY DEF DispatchIInv, TriggerSound
<1>2. PICK kinds : kinds = Registered[trigger[t].post] /\ n = Len(kinds)
  OBVIOUS
<1>3. /\ n \in Nat /\ Len(Steps(t)) = n /\ DOMAIN kinds = 1 .. n
      /\ \A k \in 1 .. n : Steps(t)[k] \in DKinds
      /\ \A k, l \in 1 .. n : k < l => Steps(t)[k] <= Steps(t)[l]
  BY <1>1, <1>2, StepsInOrder
<1>12. Permuted(Steps(t), kinds, n)
  BY <1>1, <1>2, StepsInOrder, Zenon
<1>13. trigger[t].step \in 1 .. n + 1
  BY <1>1, <1>3 DEF Moves
<1>4. PICK m \in Nat : m = trigger[t].step - 1 /\ m <= n
  <2>1. trigger[t].step - 1 \in Nat /\ trigger[t].step - 1 <= n
    BY <1>3, <1>13
  <2>2. QED
    BY <2>1
<1>5. PICK W, log, steps : W = Succeeded(t) /\ log = sink[t] /\ steps = Steps(t)
  OBVIOUS
<1>6. Listed(m, W, log, steps)
  BY <1>1, <1>4, <1>5 DEF InOrder
<1>7. PICK its \in [1 .. m -> W] :
        /\ \A i \in W : \E k \in 1 .. m : its[k] = i
        /\ \A k, l \in 1 .. m : k < l => its[k] < its[l]
        /\ \A k \in 1 .. m : log[its[k]].kind = steps[k]
  BY <1>6 DEF Listed
<1>8. W \subseteq Int
  <2>1. PICK q \in Seq(Events) : q = sink[t]
    BY <1>1 DEF DispatchTypeOK, Events
  <2>2. W \subseteq 1 .. Len(q) /\ Len(q) \in Nat
    BY <1>5, <2>1 DEF Succeeded
  <2>3. QED
    BY <2>2
<1>9. ASSUME NEW d PROVE Ran(t, d) = Before(t, m, d)
  <2>1. ASSUME NEW k \in 1 .. m, NEW l \in 1 .. m, k # l PROVE its[k] # its[l]
    <3>1. its[k] \in Int /\ its[l] \in Int
      BY <1>7, <1>8
    <3>2. k < l \/ l < k
      BY <2>1
    <3>3. its[k] < its[l] \/ its[l] < its[k]
      BY <1>7, <3>2
    <3>4. QED
      BY <3>1, <3>3
  <2>2. PICK g : g = [i \in W |-> log[i].kind]
    OBVIOUS
  <2>3. \A k \in 1 .. m : g[its[k]] = steps[k]
    BY <1>7, <2>2
  <2>4. Number(W, g, d) = Number(1 .. m, steps, d)
    <3>1. \A i \in W : \E k \in 1 .. m : its[k] = i
      BY <1>7
    <3>2. \A k, l \in 1 .. m : k # l => its[k] # its[l]
      BY <2>1
    <3>3. QED
      <4>1. OneToOne(m, W, its, g, steps)
        BY <1>7, <2>3, <3>1, <3>2, Zenon DEF OneToOne
      <4>2. QED
        BY <1>4, <4>1, Matched
  <2>5. {i \in W : g[i] = d} = {i \in W : log[i].kind = d}
    BY <2>2
  <2>6. QED
    BY <1>5, <2>4, <2>5 DEF Ran, Before, Number
<1>10. ASSUME NEW i \in W, NEW j \in W, i < j PROVE log[i].kind <= log[j].kind
  <2>1. PICK k \in 1 .. m, l \in 1 .. m : its[k] = i /\ its[l] = j
    BY <1>7
  <2>2. k < l
    <3>1. ~(l < k) /\ k # l
      BY <1>7, <1>8, <1>10, <2>1
    <3>2. QED
      BY <3>1
  <2>3. steps[k] <= steps[l]
    <3>1. k \in 1 .. n /\ l \in 1 .. n
      BY <1>3, <1>4
    <3>2. QED
      BY <1>3, <1>5, <2>2, <3>1
  <2>4. QED
    BY <1>7, <2>1, <2>3
<1>14. ASSUME NEW d PROVE Asked(t, d) = Before(t, n, d)
  <2>1. PICK at \in [1 .. n -> 1 .. n] :
          /\ \A k \in 1 .. n : steps[k] = kinds[at[k]]
          /\ \A k \in 1 .. n : \E i \in 1 .. n : at[i] = k
          /\ \A k, l \in 1 .. n : k # l => at[k] # at[l]
    <3>1. Permuted(steps, kinds, n)
      BY <1>5, <1>12
    <3>2. QED
      BY <3>1, Zenon DEF Permuted
  <2>2. \A k \in 1 .. n : kinds[at[k]] = steps[k]
    BY <2>1
  <2>3. Number(1 .. n, kinds, d) = Number(1 .. n, steps, d)
    <3>1. OneToOne(n, 1 .. n, at, kinds, steps)
      BY <2>1, <2>2, Zenon DEF OneToOne
    <3>2. n \in Nat
      BY <1>3
    <3>3. QED
      BY <3>1, <3>2, Matched
  <2>4. QED
    BY <1>2, <1>3, <1>5, <2>3 DEF Asked, Before, Number
<1>11. QED
  BY <1>3, <1>4, <1>5, <1>9, <1>10, <1>13, <1>14

(* With the first m steps done and the next one dead: every earlier kind   *)
(* is through, its own is not, a later one has not begun.                  *)
LEMMA StagesBefore ==
    ASSUME DispatchTypeOK, NEW t \in Triggers, NEW n \in Nat, n = Len(Registered[trigger[t].post]),
           NEW m \in Nat, m + 1 <= n, NEW own, own = Steps(t)[m + 1], NEW d \in DKinds
    PROVE  /\ d < own => Before(t, m, d) = Before(t, n, d)
           /\ d = own => Before(t, m, d) < Before(t, n, d)
           /\ d > own => Before(t, m, d) = 0
<1>1. PICK kinds : kinds = Registered[trigger[t].post]
  OBVIOUS
<1>2. /\ \A k \in 1 .. n : Steps(t)[k] \in DKinds
      /\ \A k, l \in 1 .. n : k < l => Steps(t)[k] <= Steps(t)[l]
  BY <1>1, StepsInOrder
<1>3. PICK steps : steps = Steps(t)
  OBVIOUS
<1>4. /\ \A k \in 1 .. n : steps[k] \in Int
      /\ \A k, l \in 1 .. n : k < l => steps[k] <= steps[l]
      /\ own = steps[m + 1] /\ m + 1 \in 1 .. n /\ own \in Int /\ d \in Int
  <2>1. DKinds \subseteq Int
    BY DEF DKinds
  <2>2. m + 1 \in 1 .. n
    OBVIOUS
  <2>3. QED
    BY <1>2, <1>3, <2>1, <2>2
<1>5. PICK S, T : S = {k \in 1 .. m : steps[k] = d} /\ T = {k \in 1 .. n : steps[k] = d}
  OBVIOUS
<1>6. Before(t, m, d) = Cardinality(S) /\ Before(t, n, d) = Cardinality(T)
  BY <1>3, <1>5 DEF Before
<1>7. 1 .. m \subseteq 1 .. n /\ S \subseteq T
  <2>1. 1 .. m \subseteq 1 .. n
    OBVIOUS
  <2>2. QED
    BY <1>5, <2>1
<1>8. ASSUME d < own PROVE S = T
  <2>1. ASSUME NEW k \in T PROVE k \in S
    <3>1. k \in 1 .. n /\ steps[k] = d
      BY <1>5
    <3>2. ~(m + 1 < k) /\ k # m + 1
      BY <1>4, <1>8, <3>1
    <3>3. k \in 1 .. m
      BY <3>1, <3>2
    <3>4. QED
      BY <1>5, <3>1, <3>3
  <2>2. QED
    BY <1>7, <2>1
<1>9. ASSUME d = own PROVE Cardinality(S) < Cardinality(T)
  <2>1. m + 1 \in T /\ m + 1 \notin S
    BY <1>4, <1>5, <1>9
  <2>2. IsFiniteSet(T)
    <3>1. IsFiniteSet(1 .. n) /\ T \in SUBSET (1 .. n)
      BY <1>5, FS_Interval
    <3>2. QED
      BY <3>1, FS_Subset
  <2>3. /\ IsFiniteSet(S) /\ Cardinality(S) <= Cardinality(T)
        /\ Cardinality(T) = Cardinality(S) => T = S
    BY <1>7, <2>2, FS_Subset
  <2>4. Cardinality(S) \in Nat /\ Cardinality(T) \in Nat
    BY <2>2, <2>3, FS_CardinalityType
  <2>5. QED
    BY <2>1, <2>3, <2>4
<1>10. ASSUME d > own PROVE S = {}
  <2>1. ASSUME NEW k \in S PROVE FALSE
    <3>1. k \in 1 .. m /\ steps[k] = d /\ k \in 1 .. n /\ k < m + 1
      BY <1>5, <1>7
    <3>2. steps[k] <= steps[m + 1]
      BY <1>4, <3>1
    <3>3. QED
      BY <1>4, <1>10, <3>1, <3>2
  <2>2. QED
    BY <2>1
<1>11. QED
  BY <1>6, <1>8, <1>9, <1>10, FS_EmptySet

LEMMA NothingDone ==
    ASSUME DispatchIInv, NEW t \in Triggers, trigger[t].step = 1
    PROVE  Succeeded(t) = {}
<1>1. PICK m, W, log, steps : /\ m = trigger[t].step - 1 /\ W = Succeeded(t)
                              /\ log = sink[t] /\ steps = Steps(t)
  OBVIOUS
<1>2. Listed(m, W, log, steps)
  BY <1>1 DEF DispatchIInv, TriggerSound, InOrder
<1>3. \A i \in W : \E k \in 1 .. m : TRUE
  BY <1>2 DEF Listed
<1>4. m = 0
  BY <1>1
<1>5. \A k \in 1 .. m : FALSE
  BY <1>4
<1>6. QED
  BY <1>1, <1>3, <1>5

LEMMA WorkedOn == ASSUME DispatchIInv, NEW p \in DPosts PROVE Worked(p)
<1>1. Counted(p) /\ DispatchTypeOK
  BY DEF DispatchIInv, WorkersInv
<1>2. PICK W : W = Workers(p)
  OBVIOUS
<1>3. IsFiniteSet(W) /\ Cardinality(W) \in Nat
  BY <1>1, <1>2, FS_CardinalityType DEF Counted
<1>4. Processed(p) <= Cardinality(W)
  <2>1. CASE states[p] = "processing"
    <3>1. W # {} /\ Processed(p) = 1
      BY <1>1, <1>2, <2>1 DEF Counted, Processed
    <3>2. Cardinality(W) # 0
      BY <1>3, <3>1, FS_EmptySet
    <3>3. QED
      BY <1>3, <3>1, <3>2
  <2>2. CASE states[p] # "processing"
    BY <1>3, <2>2 DEF Processed
  <2>3. QED
    BY <2>1, <2>2
<1>5. QED
  BY <1>1, <1>2, <1>4 DEF Counted, Worked, Held, Processed

LEMMA ToldRight == ASSUME DispatchIInv, NEW t \in Triggers PROVE Told(t)
<1>1. DispatchTypeOK /\ Moves(t) /\ SinkTells(t) /\ DeadAt(t)
  BY DEF DispatchIInv, TriggerSound
<1>2. PICK n : n = Len(Registered[trigger[t].post])
  OBVIOUS
<1>3. /\ n \in Nat /\ Len(Steps(t)) = n /\ trigger[t].step \in 1 .. n + 1
      /\ \A d : Ran(t, d) = Before(t, trigger[t].step - 1, d)
      /\ \A d : Asked(t, d) = Before(t, n, d)
      /\ \A i, j \in Succeeded(t) : i < j => sink[t][i].kind <= sink[t][j].kind
  BY <1>2, SuccessesCounted
<1>4. PICK m \in Nat : m = trigger[t].step - 1 /\ trigger[t].step = m + 1
  <2>1. trigger[t].step - 1 \in Nat /\ trigger[t].step = (trigger[t].step - 1) + 1
    BY <1>3
  <2>2. QED
    BY <2>1
<1>5. ASSUME Emitted(t, "post_completed")
      PROVE  ~Emitted(t, "dead") /\ \A kind \in DKinds : Ran(t, kind) = Asked(t, kind)
  <2>1. ~trigger[t].failed /\ trigger[t].step = Len(Steps(t)) + 1 /\ ~Emitted(t, "dead")
    BY <1>1, <1>5 DEF SinkTells
  <2>2. trigger[t].step - 1 = n
    BY <1>3, <2>1
  <2>3. QED
    BY <1>3, <2>1, <2>2
<1>6. ASSUME Emitted(t, "post_failed")
      PROVE  \E dead \in DOMAIN sink[t] :
               /\ sink[t][dead].type = "dead"
               /\ \A i \in Succeeded(t) : i < dead
               /\ \A kind \in DKinds :
                    /\ kind < sink[t][dead].kind => Ran(t, kind) = Asked(t, kind)
                    /\ kind = sink[t][dead].kind => Ran(t, kind) < Asked(t, kind)
                    /\ kind > sink[t][dead].kind => Ran(t, kind) = 0
  <2>1. trigger[t].failed /\ trigger[t].step <= Len(Steps(t))
    BY <1>1, <1>6 DEF SinkTells, Moves
  <2>2. PICK dead \in DOMAIN sink[t] : /\ sink[t][dead].type = "dead" /\ sink[t][dead].kind = Kind(t)
                                       /\ \A i \in Succeeded(t) : i < dead
    BY <1>1, <2>1 DEF DeadAt
  <2>3. m + 1 <= n
    BY <1>3, <1>4, <2>1
  <2>4. PICK own : own = Steps(t)[m + 1] /\ own = sink[t][dead].kind
    BY <1>4, <2>2 DEF Kind
  <2>5. ASSUME NEW kind \in DKinds
        PROVE  /\ kind < own => Before(t, m, kind) = Before(t, n, kind)
               /\ kind = own => Before(t, m, kind) < Before(t, n, kind)
               /\ kind > own => Before(t, m, kind) = 0
    <3>1. n = Len(Registered[trigger[t].post]) /\ own = Steps(t)[m + 1]
      BY <1>2, <2>4
    <3>2. QED
      BY <1>1, <1>3, <2>3, <3>1, StagesBefore
  <2>6. \A kind \in DKinds : Ran(t, kind) = Before(t, m, kind) /\ Asked(t, kind) = Before(t, n, kind)
    BY <1>3, <1>4
  <2>7. \A kind \in DKinds : /\ kind < own => Ran(t, kind) = Asked(t, kind)
                             /\ kind = own => Ran(t, kind) < Asked(t, kind)
                             /\ kind > own => Ran(t, kind) = 0
    BY <2>5, <2>6
  <2>8. QED
    BY <2>2, <2>4, <2>7
<1>7. ASSUME Emitted(t, "rejected") PROVE Succeeded(t) = {} /\ ~Emitted(t, "started")
  BY <1>1, <1>7, NothingDone DEF SinkTells
<1>8. trigger[t].canceled => ~trigger[t].alive
  BY <1>1 DEF Moves
<1>9. QED
  BY <1>3, <1>5, <1>6, <1>7, <1>8, Zenon DEF Told

LEMMA DispatchSound == DispatchIInv => DispatchedOnce
  BY WorkedOn, ToldRight DEF DispatchedOnce

(* Whatever the posts, the calls, the registered skills, the attempts and  *)
(* the releases: a post is claimed once and once more for each release, it *)
(* is worked on by one call while it is being processed and by one more    *)
(* for each release that came too early, and what a call told its sink is  *)
(* what its skills did, stage after stage.                                 *)
THEOREM DispatchedAsTold == DispatchSpec => []DispatchedOnce
<1>1. DispatchSpec => []DispatchIInv
  BY DispatchInitIInv, DispatchInductive, PTL DEF DispatchSpec
<1>2. QED
  BY <1>1, DispatchSound, PTL

-----------------------------------------------------------------------------
(***************************************************************************)
(* Metering, for any plan, callers, limits and number of reservations      *)
(* whose sums stay within int64.  What a metric shows as used is the sum   *)
(* of what its callers hold and of what they consumed, which is the sum of *)
(* the recorded events; the folds of the model are such sums.              *)
(***************************************************************************)

People == SetToSeq(Reservers)
Share(h, m) == IF h.metric = m THEN h.units ELSE 0
HeldBy(m)   == [k \in 1 .. Len(People) |-> Share(held[People[k]], m)]
Recorded(m) == [k \in 1 .. Len(events) |-> IF events[k].metric = m THEN events[k].quantity ELSE 0]

(* No sum of what callers may ask for, w units at most each, overflows.    *)
SumsFit(w) == w \in Nat /\ (\A want \in Wants : want <= w) /\ MaxReservations * w < Half

HeldIn(m) == Total(HeldBy(m), Len(People))
RecordedIn(m) == Total(Recorded(m), Len(events))
MeteringIInv(w) ==
    /\ MeteringTypeOK
    /\ \A m \in Metrics : /\ used[m] = HeldIn(m) + consumed[m] /\ consumed[m] = RecordedIn(m)
                          /\ used[m] <= highest[m] /\ used[m] <= reservations * w

(* The callers in some order, each once.                                   *)
LEMMA PeopleListed ==
    /\ Len(People) \in Nat /\ DOMAIN People = 1 .. Len(People)
    /\ \A k \in 1 .. Len(People) : People[k] \in Reservers
    /\ \A j, k \in 1 .. Len(People) : People[j] = People[k] => j = k
    /\ \A r \in Reservers : \E k \in 1 .. Len(People) : People[k] = r
<1>1. PICK n \in Nat : n = Cardinality(Reservers)
  BY MeteringAssumption, FS_CardinalityType
<1>2. PICK b : b \in Bijection(1 .. n, Reservers)
  <2>1. IsFiniteSet(Reservers)
    BY MeteringAssumption
  <2>2. \E k \in Nat : ExistsBijection(1 .. k, Reservers)
    BY <2>1, FS_NatBijection
  <2>3. PICK k \in Nat : ExistsBijection(1 .. k, Reservers)
    BY <2>2
  <2>4. k = n
    BY <1>1, <2>1, <2>3, FS_CountingElements
  <2>5. QED
    BY <2>3, <2>4 DEF ExistsBijection
<1>3. b \in [1 .. n -> Reservers] /\ IsInjective(b)
  BY <1>2 DEF Bijection, Injection
<1>4. PICK p \in [1 .. n -> Reservers] : p = People /\ IsInjective(p)
  <2>1. People = CHOOSE f \in [1 .. n -> Reservers] : IsInjective(f)
    BY <1>1 DEF People, SetToSeq
  <2>2. QED
    BY <1>3, <2>1
<1>5. \A j, k \in 1 .. n : p[j] = p[k] => j = k
  BY <1>4 DEF IsInjective
<1>6. Len(People) = n /\ DOMAIN People = 1 .. n
  BY <1>4
<1>7. ASSUME NEW r \in Reservers PROVE \E k \in 1 .. n : p[k] = r
  <2> DEFINE Seen == {p[k] : k \in 1 .. n}
  <2>1. p \in Bijection(1 .. n, Seen)
    BY <1>4, <1>5 DEF Bijection, Injection, Surjection, IsInjective
  <2>2. IsFiniteSet(1 .. n) /\ Cardinality(1 .. n) = n
    BY <1>1, FS_Interval
  <2>3. Cardinality(Seen) = n /\ Seen \in SUBSET Reservers
    BY <1>4, <2>1, <2>2, FS_Bijection DEF ExistsBijection
  <2>4. Seen = Reservers
    <3> HIDE DEF Seen
    <3>1. QED
      BY <1>1, <2>3, MeteringAssumption, FS_Subset
  <2>5. QED
    BY <2>4
<1>8. QED
  BY <1>4, <1>5, <1>6, <1>7

(* One caller holds something else.                                        *)
LEMMA HeldChanges ==
    ASSUME MeteringTypeOK, NEW r \in Reservers, NEW h \in [metric : Metrics, units : Nat],
           held' = [held EXCEPT ![r] = h], NEW m \in Metrics
    PROVE  HeldIn(m)' = HeldIn(m) + (Share(h, m) - Share(held[r], m))
<1>1. PICK n \in Nat : n = Len(People) /\ \E k \in 1 .. n : People[k] = r
  BY PeopleListed
<1>2. PICK i \in 1 .. n : People[i] = r
  BY <1>1
<1>3. PICK d, e : d = HeldBy(m) /\ e = HeldBy(m)'
  OBVIOUS
<1>4. /\ held \in [Reservers -> [metric : Metrics, units : Nat]]
      /\ \A k \in 1 .. n : People[k] \in Reservers /\ (k # i => People[k] # r)
  BY <1>1, <1>2, PeopleListed DEF MeteringTypeOK
<1>5. held'[r] = h /\ \A q \in Reservers : q # r => held'[q] = held[q]
  BY <1>4
<1>6. \A k \in 1 .. n : d[k] = Share(held[People[k]], m) /\ e[k] = Share(held'[People[k]], m)
  BY <1>1, <1>3 DEF HeldBy
<1>7. \A q \in Reservers : Share(held[q], m) \in Int /\ Share(h, m) \in Int
  BY <1>4 DEF Share
<1>8. /\ Numbers(d, n) /\ e[i] = Share(h, m) /\ d[i] = Share(held[r], m) /\ e[i] \in Int
      /\ \A k \in 1 .. n : k # i => e[k] = d[k]
  BY <1>2, <1>4, <1>5, <1>6, <1>7 DEF Numbers
<1>9. Total(e, n) = Total(d, n) + (e[i] - d[i])
  BY <1>8, TotalChange
<1>10. HeldIn(m)' = Total(e, n) /\ HeldIn(m) = Total(d, n)
  BY <1>1, <1>3 DEF HeldIn
<1>11. QED
  BY <1>8, <1>9, <1>10

LEMMA HeldTotal ==
    ASSUME MeteringTypeOK, NEW m \in Metrics
    PROVE  /\ HeldIn(m) \in Nat
           /\ \A r \in Reservers : Share(held[r], m) \in Nat /\ Share(held[r], m) <= HeldIn(m)
<1>1. PICK n \in Nat : n = Len(People)
  BY PeopleListed
<1>2. PICK d : d = HeldBy(m)
  OBVIOUS
<1>3. \A r \in Reservers : Share(held[r], m) \in Nat
  BY DEF MeteringTypeOK, Share
<1>4. \A k \in 1 .. n : d[k] = Share(held[People[k]], m) /\ d[k] \in Nat
  BY <1>1, <1>2, <1>3, PeopleListed DEF HeldBy
<1>5. Total(d, n) \in Nat /\ \A k \in 0 .. n : Total(d, k) \in Nat /\ Total(d, k) <= Total(d, n)
  BY <1>4, TotalGrows
<1>6. ASSUME NEW r \in Reservers PROVE Share(held[r], m) <= Total(d, n)
  <2>1. PICK i \in 1 .. n : People[i] = r
    BY <1>1, PeopleListed
  <2>2. PICK j \in Nat : i = j + 1 /\ j \in 0 .. n /\ j + 1 \in 0 .. n
    <3>1. i - 1 \in Nat /\ i = (i - 1) + 1 /\ i - 1 \in 0 .. n
      OBVIOUS
    <3>2. QED
      BY <3>1
  <2>3. Numbers(d, j + 1)
    BY <1>4, <2>2 DEF Numbers
  <2>4. Total(d, j + 1) = Total(d, j) + d[j + 1]
    BY <2>3, TotalStep
  <2>5. d[j + 1] = Share(held[r], m) /\ d[j + 1] \in Nat
    BY <1>4, <2>1, <2>2
  <2>6. QED
    BY <1>5, <2>2, <2>4, <2>5
<1>7. QED
  BY <1>1, <1>2, <1>3, <1>5, <1>6 DEF HeldIn

LEMMA TotalZero == ASSUME NEW n \in Nat, NEW d, \A k \in 1 .. n : d[k] = 0 PROVE Total(d, n) = 0
<1>1. PICK g : g = [k \in 0 .. n |-> 0]
  OBVIOUS
<1>2. Running(g, d, n) /\ Numbers(d, n) /\ g[n] = 0
  BY <1>1 DEF Running, Numbers
<1>3. QED
  BY <1>2, TotalIs

LEMMA Int64Same == ASSUME NEW n \in Nat, n < Half PROVE Int64(n) = n
<1>1. PICK h \in Nat \ {0} : h = Half
  BY MeteringAssumption
<1>2. PICK x \in Nat, y \in Nat \ {0} : x = n + h /\ y = 2 * h
  OBVIOUS
<1>3. x < y
  BY <1>1, <1>2
<1>4. x % y = x
  BY <1>3
<1>5. QED
  BY <1>1, <1>2, <1>4 DEF Int64

LEMMA NothingHeld ==
    /\ NoReservation \in [metric : Metrics, units : Nat]
    /\ \A m : Share(NoReservation, m) = 0
  BY MeteringAssumption DEF NoReservation, Share

LEMMA MeteringInitIInv == ASSUME NEW w, SumsFit(w), MeteringInit PROVE MeteringIInv(w)
<1>1. MeteringTypeOK
  <2>1. events \in Seq([metric : Metrics, quantity : Nat, ts : 0 .. MaxTimestamp])
    BY DEF MeteringInit
  <2>2. held \in [Reservers -> [metric : Metrics, units : Nat]]
    BY NothingHeld DEF MeteringInit
  <2>3. DOMAIN limits = {}
    BY DEF MeteringInit
  <2>4. QED
    BY <2>1, <2>2, <2>3, MeteringAssumption DEF MeteringInit, MeteringTypeOK, Zero
<1>2. ASSUME NEW m \in Metrics PROVE HeldIn(m) = 0
  <2>1. PICK n \in Nat : n = Len(People)
    BY PeopleListed
  <2>2. \A k \in 1 .. n : HeldBy(m)[k] = 0
    BY <2>1, PeopleListed, NothingHeld DEF HeldBy, MeteringInit
  <2>3. QED
    BY <2>1, <2>2, TotalZero DEF HeldIn
<1>3. \A m \in Metrics : RecordedIn(m) = 0
  BY TotalNone DEF RecordedIn, MeteringInit
<1>4. \A m \in Metrics : used[m] = 0 /\ consumed[m] = 0 /\ highest[m] = 0
  BY DEF MeteringInit, Zero
<1>5. reservations * w = 0
  BY DEF MeteringInit, SumsFit
<1>6. QED
  BY <1>1, <1>2, <1>3, <1>4, <1>5 DEF MeteringIInv

LEMMA SetLimitStep == ASSUME NEW w, MeteringIInv(w), SetLimit PROVE MeteringIInv(w)'
<1>1. UNCHANGED <<used, events, held, consumed, highest, reservations>>
  BY DEF SetLimit
<1>2. PICK m \in Metrics, limit \in Limits :
        limits' = [k \in DOMAIN limits \cup {m} |-> IF k = m THEN limit ELSE limits[k]]
  BY DEF SetLimit
<1>3. DOMAIN limits' \subseteq Metrics /\ \A k \in DOMAIN limits' : limits'[k] \in Limits
  BY <1>2 DEF MeteringIInv, MeteringTypeOK
<1>4. MeteringTypeOK'
  BY <1>1, <1>3 DEF MeteringIInv, MeteringTypeOK
<1>5. \A k \in Metrics : HeldIn(k)' = HeldIn(k) /\ RecordedIn(k)' = RecordedIn(k)
  BY <1>1 DEF HeldIn, RecordedIn, HeldBy, Recorded
<1>6. QED
  BY <1>1, <1>4, <1>5 DEF MeteringIInv

(* Nothing but the books of one metric and one caller change.              *)
LEMMA RecordedStays == ASSUME UNCHANGED events PROVE \A m \in Metrics : RecordedIn(m)' = RecordedIn(m)
  BY DEF RecordedIn, Recorded

LEMMA HeldStays == ASSUME UNCHANGED held PROVE \A m \in Metrics : HeldIn(m)' = HeldIn(m)
  BY DEF HeldIn, HeldBy

(* One reservation more keeps the sums within int64.                       *)
LEMMA StillFits ==
    ASSUME NEW w, SumsFit(w), NEW n \in Nat, n < MaxReservations, NEW u \in Nat, u <= n * w,
           NEW want \in Nat, want <= w
    PROVE  u + want < Half /\ u + want <= (n + 1) * w /\ u <= (n + 1) * w
<1>1. PICK max \in Nat : max = MaxReservations /\ n + 1 <= max
  BY MeteringAssumption
<1>2. w \in Nat /\ max * w < Half /\ Half \in Nat
  BY <1>1, MeteringAssumption DEF SumsFit
<1>3. (n + 1) * w = n * w + w /\ n * w \in Nat
  BY <1>2
<1>4. PICK d \in Nat : max = (n + 1) + d
  <2>1. max - (n + 1) \in Nat /\ max = (n + 1) + (max - (n + 1))
    BY <1>1
  <2>2. QED
    BY <2>1
<1>5. max * w = (n + 1) * w + d * w /\ d * w \in Nat
  BY <1>2, <1>4
<1>6. PICK a \in Nat, b \in Nat, c \in Nat : a = n * w /\ b = (n + 1) * w /\ c = d * w
  BY <1>2
<1>7. QED
  BY <1>2, <1>3, <1>5, <1>6

LEMMA AllowStep ==
    ASSUME NEW w, SumsFit(w), MeteringIInv(w), NEW r \in Reservers, Allow(r) PROVE MeteringIInv(w)'
<1>1. /\ held[r].units = 0 /\ reservations < MaxReservations /\ reservations' = reservations + 1
      /\ UNCHANGED <<limits, events, consumed>> /\ MeteringTypeOK
  BY DEF Allow, MeteringIInv
<1>2. PICK m \in Metrics, want \in Wants :
        /\ used' = [used EXCEPT ![m] = Reserved(m, want)]
        /\ IF Fits(m, want)
           THEN /\ held' = [held EXCEPT ![r] = [metric |-> m, units |-> want]]
                /\ highest' = [highest EXCEPT ![m] =
                                 LET limit == IF Limited(m) THEN limits[m] ELSE Half - 1
                                 IN IF limit > @ THEN limit ELSE @]
           ELSE UNCHANGED <<held, highest>>
  BY DEF Allow
<1>3. PICK n \in Nat : n = reservations /\ n < MaxReservations /\ reservations' = n + 1
  BY <1>1 DEF MeteringTypeOK
<1>4. /\ used \in [Metrics -> Nat] /\ consumed \in [Metrics -> Nat] /\ highest \in [Metrics -> Int]
      /\ held \in [Reservers -> [metric : Metrics, units : Nat]]
      /\ reservations' \in 0 .. MaxReservations
  <2>1. n + 1 \in 0 .. MaxReservations
    BY <1>3, MeteringAssumption
  <2>2. reservations' \in 0 .. MaxReservations
    BY <1>3, <2>1
  <2>3. QED
    BY <1>1, <2>2 DEF MeteringTypeOK
<1>5. \A k \in Metrics : /\ used[k] = HeldIn(k) + consumed[k] /\ consumed[k] = RecordedIn(k)
                         /\ used[k] <= highest[k] /\ used[k] <= n * w
                         /\ HeldIn(k) \in Nat /\ RecordedIn(k)' = RecordedIn(k)
  BY <1>1, <1>3, HeldTotal, RecordedStays DEF MeteringIInv
<1>6. w \in Nat /\ \A k \in Metrics : used[k] <= (n + 1) * w
  BY <1>4, <1>5, <1>3, <1>1, StillFits DEF SumsFit
<1>7. CASE Fits(m, want)
  <2>1. PICK u \in Nat : u = used[m] /\ want \in Nat /\ want <= w
    BY <1>4, <1>7, MeteringAssumption DEF Fits, SumsFit
  <2>2. u + want < Half /\ u + want <= (n + 1) * w /\ u + want \in Nat
    BY <1>3, <1>5, <2>1, StillFits
  <2>3. Int64(used[m] + want) = u + want
    BY <2>1, <2>2, Int64Same
  <2>4. used' = [used EXCEPT ![m] = u + want]
    BY <1>2, <1>7, <2>3 DEF Reserved
  <2>5. PICK limit \in Int : u + want <= limit /\ highest' = [highest EXCEPT ![m] = IF limit > highest[m] THEN limit ELSE highest[m]]
    <3>1. CASE Limited(m)
      <4>1. limits[m] \in Int /\ u + want <= limits[m]
        BY <1>1, <1>7, <2>3, <3>1, MeteringAssumption DEF Limited, Fits, MeteringTypeOK
      <4>2. QED
        BY <1>2, <1>7, <3>1, <4>1
    <3>2. CASE ~Limited(m)
      <4>1. Half - 1 \in Int /\ u + want <= Half - 1
        BY <2>1, <2>2, MeteringAssumption
      <4>2. QED
        BY <1>2, <1>7, <3>2, <4>1
    <3>3. QED
      BY <3>1, <3>2
  <2>6. PICK h \in [metric : Metrics, units : Nat] : h = [metric |-> m, units |-> want]
    BY <2>1
  <2>7. held' = [held EXCEPT ![r] = h]
    BY <1>2, <1>7, <2>6
  <2>8. \A k \in Metrics : HeldIn(k)' = HeldIn(k) + (Share(h, k) - Share(held[r], k))
    BY <1>1, <2>7, HeldChanges
  <2>9. \A k \in Metrics : Share(held[r], k) = 0 /\ Share(h, k) = IF k = m THEN want ELSE 0
    BY <1>1, <2>6 DEF Share
  <2>10. MeteringTypeOK'
    BY <1>1, <1>4, <2>2, <2>4, <2>5, <2>7 DEF MeteringTypeOK
  <2>11. ASSUME NEW k \in Metrics
         PROVE  /\ used'[k] = HeldIn(k)' + consumed[k]
                /\ used'[k] <= highest'[k] /\ used'[k] <= (n + 1) * w
    <3>1. CASE k = m
      <4>1. HeldIn(k)' = HeldIn(k) + want
        BY <1>5, <2>1, <2>8, <2>9, <3>1
      <4>2. used'[k] = u + want /\ highest'[k] >= u + want
        BY <1>4, <2>1, <2>2, <2>4, <2>5, <3>1
      <4>3. QED
        BY <1>4, <1>5, <2>1, <2>2, <3>1, <4>1, <4>2
    <3>2. CASE k # m
      <4>1. HeldIn(k)' = HeldIn(k) /\ used'[k] = used[k] /\ highest'[k] = highest[k]
        BY <1>4, <1>5, <2>4, <2>5, <2>8, <2>9, <3>2
      <4>2. QED
        BY <1>5, <1>6, <4>1
    <3>3. QED
      BY <3>1, <3>2
  <2>12. QED
    BY <1>1, <1>3, <1>5, <2>10, <2>11 DEF MeteringIInv
<1>8. CASE ~Fits(m, want)
  <2>1. UNCHANGED <<used, held, highest>>
    BY <1>2, <1>4, <1>8 DEF Reserved
  <2>2. MeteringTypeOK'
    BY <1>1, <1>4, <2>1 DEF MeteringTypeOK
  <2>3. \A k \in Metrics : HeldIn(k)' = HeldIn(k)
    BY <2>1, HeldStays
  <2>4. QED
    BY <1>1, <1>3, <1>5, <1>6, <2>1, <2>2, <2>3 DEF MeteringIInv
<1>9. QED
  BY <1>7, <1>8

LEMMA ReleaseUnitsStep ==
    ASSUME NEW w, SumsFit(w), MeteringIInv(w), NEW r \in Reservers, ReleaseUnits(r)
    PROVE  MeteringIInv(w)'
<1>1. PICK m \in Metrics, amount \in Nat :
        /\ m = held[r].metric /\ amount = held[r].units /\ amount > 0
        /\ used' = [used EXCEPT ![m] = IF used[m] <= amount THEN 0 ELSE used[m] - amount]
        /\ held' = [held EXCEPT ![r] = NoReservation]
        /\ UNCHANGED <<limits, events, consumed, highest, reservations>>
  BY DEF ReleaseUnits, MeteringIInv, MeteringTypeOK
<1>2. /\ used \in [Metrics -> Nat] /\ consumed \in [Metrics -> Nat] /\ MeteringTypeOK
      /\ held \in [Reservers -> [metric : Metrics, units : Nat]] /\ highest \in [Metrics -> Int]
  BY DEF MeteringIInv, MeteringTypeOK
<1>3. \A k \in Metrics : /\ used[k] = HeldIn(k) + consumed[k] /\ consumed[k] = RecordedIn(k)
                         /\ used[k] <= highest[k] /\ used[k] <= reservations * w
                         /\ HeldIn(k) \in Nat /\ RecordedIn(k)' = RecordedIn(k)
                         /\ Share(held[r], k) <= HeldIn(k)
  BY <1>1, <1>2, HeldTotal, RecordedStays DEF MeteringIInv
<1>4. \A k \in Metrics : HeldIn(k)' = HeldIn(k) + (0 - Share(held[r], k))
  BY <1>1, <1>2, HeldChanges, NothingHeld
<1>5. \A k \in Metrics : Share(held[r], k) = IF k = m THEN amount ELSE 0
  BY <1>1 DEF Share
<1>6. PICK u \in Nat : u = used[m] /\ u >= amount
  <2>1. used[m] = HeldIn(m) + consumed[m] /\ HeldIn(m) \in Nat /\ amount <= HeldIn(m)
        /\ consumed[m] \in Nat /\ used[m] \in Nat
    BY <1>2, <1>3, <1>5
  <2>2. used[m] >= amount
    BY <2>1
  <2>3. QED
    BY <2>1, <2>2
<1>7. used' = [used EXCEPT ![m] = u - amount] /\ u - amount \in Nat
  <2>1. (IF u <= amount THEN 0 ELSE u - amount) = u - amount
    BY <1>6
  <2>2. used' = [used EXCEPT ![m] = IF u <= amount THEN 0 ELSE u - amount]
    BY <1>1, <1>6
  <2>3. u - amount \in Nat
    BY <1>6
  <2>4. QED
    BY <2>1, <2>2, <2>3, Zenon
<1>8. MeteringTypeOK'
  BY <1>1, <1>2, <1>7, NothingHeld DEF MeteringTypeOK
<1>9. ASSUME NEW k \in Metrics PROVE used'[k] = HeldIn(k)' + consumed[k] /\ used'[k] <= used[k] /\ used'[k] \in Nat
  <2>1. CASE k = m
    <3>1. used'[k] = u - amount /\ HeldIn(k)' = HeldIn(k) + (0 - amount)
      BY <1>2, <1>4, <1>5, <1>7, <2>1
    <3>2. u = HeldIn(k) + consumed[k] /\ HeldIn(k) \in Nat /\ consumed[k] \in Nat
      BY <1>2, <1>3, <1>6, <2>1
    <3>3. QED
      BY <1>6, <1>7, <2>1, <3>1, <3>2
  <2>2. CASE k # m
    BY <1>2, <1>3, <1>4, <1>5, <1>7, <2>2
  <2>3. QED
    BY <2>1, <2>2
<1>10. ASSUME NEW k \in Metrics PROVE used'[k] <= highest[k] /\ used'[k] <= reservations * w
  <2>1. PICK x \in Nat, y \in Nat, z \in Int : x = used'[k] /\ y = used[k] /\ z = highest[k]
    BY <1>2, <1>9
  <2>2. PICK v \in Nat : v = reservations * w
    <3>1. reservations \in Nat /\ w \in Nat
      BY <1>2, MeteringAssumption DEF MeteringTypeOK, SumsFit
    <3>2. QED
      BY <3>1
  <2>3. x <= y /\ y <= z /\ y <= v
    BY <1>3, <1>9, <2>1, <2>2
  <2>4. x <= v /\ x <= z
    BY <2>3
  <2>5. QED
    BY <2>1, <2>2, <2>4
<1>11. QED
  BY <1>1, <1>3, <1>8, <1>9, <1>10 DEF MeteringIInv

LEMMA RecordStep ==
    ASSUME NEW w, MeteringIInv(w), NEW r \in Reservers, RecordUsage(r) PROVE MeteringIInv(w)'
<1>1. PICK m \in Metrics, units \in Nat :
        /\ m = held[r].metric /\ units = held[r].units
        /\ consumed' = [consumed EXCEPT ![m] = consumed[m] + units]
        /\ held' = [held EXCEPT ![r] = NoReservation]
        /\ UNCHANGED <<limits, used, highest, reservations>>
  BY DEF RecordUsage, MeteringIInv, MeteringTypeOK
<1>2. PICK ts \in 0 .. MaxTimestamp : events' = Append(events, [metric |-> m, quantity |-> units, ts |-> ts])
  BY <1>1 DEF RecordUsage
<1>3. PICK e \in [metric : Metrics, quantity : Nat, ts : 0 .. MaxTimestamp] :
        e.metric = m /\ e.quantity = units /\ events' = Append(events, e)
  BY <1>2
<1>4. /\ used \in [Metrics -> Nat] /\ consumed \in [Metrics -> Nat] /\ MeteringTypeOK
      /\ held \in [Reservers -> [metric : Metrics, units : Nat]]
      /\ events \in Seq([metric : Metrics, quantity : Nat, ts : 0 .. MaxTimestamp])
  BY DEF MeteringIInv, MeteringTypeOK
<1>5. \A k \in Metrics : /\ used[k] = HeldIn(k) + consumed[k] /\ consumed[k] = RecordedIn(k)
                         /\ used[k] <= highest[k] /\ used[k] <= reservations * w
                         /\ HeldIn(k) \in Nat
  BY <1>4, HeldTotal DEF MeteringIInv
<1>6. \A k \in Metrics : HeldIn(k)' = HeldIn(k) + (0 - Share(held[r], k))
  BY <1>1, <1>4, HeldChanges, NothingHeld
<1>7. \A k \in Metrics : Share(held[r], k) = IF k = m THEN units ELSE 0
  BY <1>1 DEF Share
<1>8. ASSUME NEW k \in Metrics PROVE RecordedIn(k)' = RecordedIn(k) + (IF k = m THEN units ELSE 0)
  <2>1. PICK n \in Nat : n = Len(events) /\ n + 1 = Len(events')
    BY <1>3, <1>4
  <2>2. PICK d, f : d = Recorded(k) /\ f = Recorded(k)'
    OBVIOUS
  <2>3. /\ \A i \in 1 .. n : events'[i] = events[i] /\ events[i].quantity \in Nat
        /\ events'[n + 1] = e
    <3>1. PICK S : S = [metric : Metrics, quantity : Nat, ts : 0 .. MaxTimestamp]
      OBVIOUS
    <3>2. PICK s \in Seq(S) : s = events /\ e \in S /\ n = Len(s) /\ events' = Append(s, e)
      BY <1>3, <1>4, <2>1, <3>1
    <3>3. \A i \in 1 .. n : s[i] \in S /\ Append(s, e)[i] = s[i]
      BY <3>2
    <3>4. Append(s, e)[n + 1] = e
      BY <3>2
    <3>5. \A x \in S : x.quantity \in Nat
      BY <3>1
    <3>6. QED
      BY <3>2, <3>3, <3>4, <3>5
  <2>4. /\ \A i \in 1 .. n : d[i] = (IF events[i].metric = k THEN events[i].quantity ELSE 0)
        /\ \A i \in 1 .. n + 1 : f[i] = (IF events'[i].metric = k THEN events'[i].quantity ELSE 0)
    BY <2>1, <2>2 DEF Recorded
  <2>5. /\ \A i \in 1 .. n : d[i] = f[i] /\ d[i] \in Int
        /\ f[n + 1] = IF k = m THEN units ELSE 0
    <3>1. ASSUME NEW i \in 1 .. n PROVE d[i] = f[i] /\ d[i] \in Int
      <4>1. i \in 1 .. n + 1 /\ events'[i] = events[i] /\ events[i].quantity \in Int
        BY <2>1, <2>3
      <4>2. d[i] = f[i]
        BY <2>4, <4>1
      <4>3. QED
        BY <2>4, <4>1, <4>2
    <3>2. n + 1 \in 1 .. n + 1
      BY <2>1
    <3>3. f[n + 1] = IF e.metric = k THEN e.quantity ELSE 0
      BY <2>3, <2>4, <3>2
    <3>4. f[n + 1] = IF k = m THEN units ELSE 0
      BY <1>3, <3>3
    <3>5. QED
      BY <3>1, <3>4
  <2>6. Numbers(d, n) /\ Numbers(f, n + 1)
    <3>1. \A i \in 1 .. n + 1 : i \in 1 .. n \/ i = n + 1
      OBVIOUS
    <3>2. QED
      BY <2>5, <3>1 DEF Numbers
  <2>7. Total(f, n + 1) = Total(f, n) + f[n + 1] /\ Total(d, n) = Total(f, n)
    BY <2>5, <2>6, TotalStep, TotalSame
  <2>8. RecordedIn(k)' = Total(f, n + 1) /\ RecordedIn(k) = Total(d, n)
    BY <2>1, <2>2 DEF RecordedIn
  <2>9. QED
    BY <2>5, <2>7, <2>8
<1>9. MeteringTypeOK'
  <2>1. events' \in Seq([metric : Metrics, quantity : Nat, ts : 0 .. MaxTimestamp])
    BY <1>3, <1>4
  <2>2. held' \in [Reservers -> [metric : Metrics, units : Nat]]
    BY <1>1, <1>4, NothingHeld
  <2>3. consumed' \in [Metrics -> Nat]
    BY <1>1, <1>4
  <2>4. QED
    BY <1>1, <1>4, <2>1, <2>2, <2>3 DEF MeteringTypeOK
<1>10. ASSUME NEW k \in Metrics PROVE used[k] = HeldIn(k)' + consumed'[k] /\ consumed'[k] = RecordedIn(k)'
  <2>1. used[k] = HeldIn(k) + consumed[k] /\ consumed[k] = RecordedIn(k) /\ HeldIn(k) \in Nat /\ consumed[k] \in Nat
    BY <1>4, <1>5
  <2>2. CASE k = m
    <3>1. consumed'[k] = consumed[k] + units /\ HeldIn(k)' = HeldIn(k) + (0 - units)
          /\ RecordedIn(k)' = RecordedIn(k) + units
      BY <1>1, <1>4, <1>6, <1>7, <1>8, <2>2
    <3>2. QED
      BY <2>1, <3>1
  <2>3. CASE k # m
    BY <1>1, <1>4, <1>6, <1>7, <1>8, <2>1, <2>3
  <2>4. QED
    BY <2>2, <2>3
<1>11. QED
  BY <1>1, <1>5, <1>9, <1>10 DEF MeteringIInv

LEMMA MeteringInductive ==
    ASSUME NEW w, SumsFit(w), MeteringIInv(w), [MeteringNext]_meteringVars PROVE MeteringIInv(w)'
<1>1. CASE UNCHANGED meteringVars
  <2>1. UNCHANGED <<limits, used, events, held, consumed, highest, reservations>>
    BY <1>1 DEF meteringVars
  <2>2. \A k \in Metrics : HeldIn(k)' = HeldIn(k) /\ RecordedIn(k)' = RecordedIn(k)
    BY <2>1, HeldStays, RecordedStays
  <2>3. MeteringTypeOK'
    BY <2>1 DEF MeteringIInv, MeteringTypeOK
  <2>4. QED
    BY <2>1, <2>2, <2>3 DEF MeteringIInv
<1>2. QED
  BY <1>1, SetLimitStep, AllowStep, ReleaseUnitsStep, RecordStep DEF MeteringNext

----------------------------------------------------------------------------
(* The folds are sums.                                                     *)

LEMMA FoldedTotal ==
    ASSUME NEW n \in Nat, NEW d, Numbers(d, n), NEW it, it[1 .. 0] = 0,
           \A k \in 1 .. n : it[1 .. (k - 1)] = Total(d, k - 1) => it[1 .. k] = Total(d, k - 1) + d[k]
    PROVE  it[1 .. n] = Total(d, n)
<1> DEFINE T == {m \in Nat : m <= n => it[1 .. m] = Total(d, m)}
<1>1. 0 \in T
  BY TotalNone
<1>2. ASSUME NEW m \in Nat, m \in T PROVE m + 1 \in T
  <2> SUFFICES ASSUME m + 1 <= n PROVE it[1 .. (m + 1)] = Total(d, m + 1)
    OBVIOUS
  <2>1. it[1 .. m] = Total(d, m)
    BY <1>2
  <2>2. PICK k \in 1 .. n : k = m + 1 /\ k - 1 = m
    OBVIOUS
  <2>3. it[1 .. k] = Total(d, m) + d[k]
    BY <2>1, <2>2
  <2>4. Numbers(d, m + 1)
    BY DEF Numbers
  <2>5. Total(d, m + 1) = Total(d, m) + d[m + 1]
    BY <2>4, TotalStep
  <2>6. QED
    BY <2>2, <2>3, <2>5
<1>3. n \in T
  <2> HIDE DEF T
  <2>1. Nat \subseteq T
    BY <1>1, <1>2, NatInduct
  <2>2. QED
    BY <2>1
<1>4. n <= n
  OBVIOUS
<1>5. QED
  BY <1>3, <1>4

(* The fold of HeldOf, as the library unfolds it.                          *)
HeldFold(it, m) ==
    it = [s \in SUBSET DOMAIN People |->
            IF s = {} THEN 0
            ELSE IF held[People[Max(s)]].metric = m THEN it[s \ {Max(s)}] + held[People[Max(s)]].units
                 ELSE it[s \ {Max(s)}]]

LEMMA HeldOfIs == ASSUME MeteringTypeOK, NEW m \in Metrics PROVE HeldOf(m) = HeldIn(m)
<1>1. PICK n \in Nat : n = Len(People) /\ DOMAIN People = 1 .. n /\ \A k \in 1 .. n : People[k] \in Reservers
  BY PeopleListed
<1>2. PICK d : d = HeldBy(m)
  OBVIOUS
<1>3. \A k \in 1 .. n : held[People[k]].units \in Nat
  BY <1>1 DEF MeteringTypeOK
<1>4. \A k \in 1 .. n : d[k] = (IF held[People[k]].metric = m THEN held[People[k]].units ELSE 0) /\ d[k] \in Int
  BY <1>1, <1>2, <1>3 DEF HeldBy, Share
<1>5. PICK step : step = [p \in Int \X (1 .. n) |->
        IF held[People[p[2]]].metric = m THEN p[1] + held[People[p[2]]].units ELSE p[1]]
  OBVIOUS
<1>6. \A x \in Int, k \in 1 .. n :
        /\ step[<<x, k>>] = (IF held[People[k]].metric = m THEN x + held[People[k]].units ELSE x)
        /\ step[<<x, k>>] \in Int
  BY <1>3, <1>5
<1>7. PICK it \in [SUBSET (1 .. n) -> Int] : Folding(it, n, 0, step)
  <2>1. \A x \in Int, k \in 1 .. n : step[<<x, k>>] \in Int
    BY <1>6
  <2>2. 0 \in Int
    OBVIOUS
  <2>3. QED
    BY <2>1, <2>2, FoldingExists
<1>8. HeldFold(it, m)
  <2>1. \A s \in SUBSET (1 .. n) : s # {} => Max(s) \in 1 .. n /\ it[s \ {Max(s)}] \in Int
    BY <1>7, LargestIs
  <2>2. PICK f : f = [s \in SUBSET (1 .. n) |->
            IF s = {} THEN 0
            ELSE IF held[People[Max(s)]].metric = m THEN it[s \ {Max(s)}] + held[People[Max(s)]].units
                 ELSE it[s \ {Max(s)}]]
    OBVIOUS
  <2>3. ASSUME NEW s \in SUBSET (1 .. n) PROVE it[s] = f[s]
    <3>1. it[s] = IF s = {} THEN 0 ELSE step[<<it[s \ {Max(s)}], Max(s)>>]
      BY <1>7 DEF Folding
    <3>2. s # {} => step[<<it[s \ {Max(s)}], Max(s)>>] =
             IF held[People[Max(s)]].metric = m THEN it[s \ {Max(s)}] + held[People[Max(s)]].units
             ELSE it[s \ {Max(s)}]
      BY <1>6, <2>1
    <3>3. QED
      BY <2>2, <3>1, <3>2
  <2>4. it = f
    BY <1>7, <2>2, <2>3
  <2>5. QED
    BY <1>1, <2>2, <2>4 DEF HeldFold
<1>9. HeldOf(m) = (CHOOSE jt : HeldFold(jt, m))[DOMAIN People]
  BY DEF HeldOf, FoldLeft, MapThenFoldSet, HeldFold, People
<1>10. PICK jt : HeldFold(jt, m) /\ HeldOf(m) = jt[1 .. n]
  BY <1>1, <1>8, <1>9
<1>11. jt[1 .. 0] = 0
  <2>1. 1 .. 0 = {} /\ {} \in SUBSET (1 .. n)
    OBVIOUS
  <2>2. QED
    BY <1>1, <1>10, <2>1 DEF HeldFold
<1>12. ASSUME NEW k \in 1 .. n, jt[1 .. (k - 1)] = Total(d, k - 1)
       PROVE  jt[1 .. k] = Total(d, k - 1) + d[k]
  <2>1. 1 .. k \in SUBSET (1 .. n) /\ 1 .. k # {} /\ Max(1 .. k) = k /\ (1 .. k) \ {k} = 1 .. (k - 1)
    BY UpTo
  <2>2. jt[1 .. k] = IF held[People[k]].metric = m THEN jt[1 .. (k - 1)] + held[People[k]].units
                     ELSE jt[1 .. (k - 1)]
    BY <1>1, <1>10, <2>1 DEF HeldFold
  <2>3. Numbers(d, k - 1) /\ k - 1 \in Nat
    BY <1>4 DEF Numbers
  <2>4. Total(d, k - 1) \in Int
    BY <2>3, TotalIs
  <2>5. QED
    BY <1>4, <1>12, <2>2, <2>4
<1>13. Numbers(d, n)
  BY <1>4 DEF Numbers
<1>14. jt[1 .. n] = Total(d, n)
  BY <1>11, <1>12, <1>13, FoldedTotal
<1>15. QED
  BY <1>1, <1>2, <1>10, <1>14 DEF HeldIn

(* What a period bills of each event.                                      *)
Billed(m, period) ==
    [k \in 1 .. Len(events) |->
        IF events[k].metric = m /\ InPeriod(period, events[k].ts) THEN events[k].quantity ELSE 0]
BilledIn(m, period) == Total(Billed(m, period), Len(events))

(* The fold of Aggregate, as the library unfolds it.                       *)
AggregateFold(it, m, period) ==
    it = [s \in SUBSET DOMAIN events |->
            IF s = {} THEN 0
            ELSE IF events[Max(s)].metric = m /\ InPeriod(period, events[Max(s)].ts)
                 THEN Int64(it[s \ {Max(s)}] + events[Max(s)].quantity)
                 ELSE it[s \ {Max(s)}]]

LEMMA Int64Int == \A x \in Int : Int64(x) \in Int
<1>1. PICK h \in Nat \ {0}, y \in Nat \ {0} : h = Half /\ y = 2 * h
  BY MeteringAssumption
<1>2. \A z \in Int : z % y \in Int
  BY <1>1
<1>3. ASSUME NEW x \in Int PROVE Int64(x) \in Int
  <2>1. x + h \in Int
    OBVIOUS
  <2>2. (x + h) % y \in Int
    BY <1>2, <2>1
  <2>3. QED
    BY <1>1, <2>2 DEF Int64
<1>4. QED
  BY <1>3

LEMMA EventsTyped ==
    ASSUME MeteringTypeOK
    PROVE  /\ Len(events) \in Nat /\ DOMAIN events = 1 .. Len(events)
           /\ \A k \in 1 .. Len(events) : /\ events[k].metric \in Metrics /\ events[k].quantity \in Nat
                                         /\ events[k].ts \in 0 .. MaxTimestamp
<1>1. PICK S : S = [metric : Metrics, quantity : Nat, ts : 0 .. MaxTimestamp]
  OBVIOUS
<1>2. PICK s \in Seq(S) : s = events
  BY <1>1 DEF MeteringTypeOK
<1>3. Len(s) \in Nat /\ DOMAIN s = 1 .. Len(s) /\ \A k \in 1 .. Len(s) : s[k] \in S
  OBVIOUS
<1>4. \A e \in S : e.metric \in Metrics /\ e.quantity \in Nat /\ e.ts \in 0 .. MaxTimestamp
  BY <1>1
<1>5. QED
  BY <1>2, <1>3, <1>4

LEMMA RecordedNat == ASSUME MeteringTypeOK, NEW m \in Metrics PROVE RecordedIn(m) \in Nat
<1>1. PICK n \in Nat : n = Len(events)
  BY DEF MeteringTypeOK
<1>2. \A k \in 1 .. n : events[k].quantity \in Nat
  BY <1>1, EventsTyped
<1>3. \A k \in 1 .. n : Recorded(m)[k] \in Nat
  BY <1>1, <1>2 DEF Recorded
<1>4. QED
  BY <1>1, <1>3, TotalGrows DEF RecordedIn

(* A period bills no more than is recorded, at any event.                  *)
LEMMA BilledFits ==
    ASSUME MeteringTypeOK, NEW m \in Metrics, NEW period
    PROVE  \A k \in 0 .. Len(events) : /\ Total(Billed(m, period), k) \in Nat
                                       /\ Total(Billed(m, period), k) <= RecordedIn(m)
<1>1. PICK n \in Nat : n = Len(events)
  BY DEF MeteringTypeOK
<1>2. PICK d, e : d = Billed(m, period) /\ e = Recorded(m)
  OBVIOUS
<1>3. PICK c : c = [k \in 1 .. n |-> e[k] - d[k]]
  OBVIOUS
<1>4. \A k \in 1 .. n : events[k].quantity \in Nat
  BY <1>1, EventsTyped
<1>5. \A k \in 1 .. n : d[k] \in Nat /\ e[k] \in Nat /\ c[k] \in Nat /\ e[k] = c[k] + d[k]
  BY <1>1, <1>2, <1>3, <1>4 DEF Billed, Recorded
<1>6. Numbers(c, n) /\ Numbers(d, n)
  BY <1>5 DEF Numbers
<1>7. Total(e, n) = Total(c, n) + Total(d, n)
  BY <1>5, <1>6, TotalSum
<1>8. /\ Total(c, n) \in Nat /\ Total(d, n) \in Nat
      /\ \A k \in 0 .. n : Total(d, k) \in Nat /\ Total(d, k) <= Total(d, n)
  BY <1>5, TotalGrows
<1>9. Total(d, n) <= Total(e, n) /\ Total(e, n) \in Nat
  BY <1>7, <1>8
<1>10. \A k \in 0 .. n : Total(d, k) \in Nat /\ Total(d, k) <= Total(e, n)
  BY <1>8, <1>9
<1>11. QED
  BY <1>1, <1>2, <1>10 DEF RecordedIn

LEMMA AggregateIs ==
    ASSUME MeteringTypeOK, NEW m \in Metrics, NEW period, RecordedIn(m) < Half
    PROVE  Aggregate(m, period) = BilledIn(m, period)
<1>1. PICK n \in Nat : n = Len(events) /\ DOMAIN events = 1 .. n
  BY DEF MeteringTypeOK
<1>2. PICK d : d = Billed(m, period)
  OBVIOUS
<1>3. \A k \in 1 .. n : events[k].quantity \in Nat
  BY <1>1, EventsTyped
<1>4. \A k \in 1 .. n : /\ d[k] \in Int
                        /\ d[k] = IF events[k].metric = m /\ InPeriod(period, events[k].ts)
                                  THEN events[k].quantity ELSE 0
  BY <1>1, <1>2, <1>3 DEF Billed
<1>5. PICK step : step = [p \in Int \X (1 .. n) |->
        IF events[p[2]].metric = m /\ InPeriod(period, events[p[2]].ts)
        THEN Int64(p[1] + events[p[2]].quantity) ELSE p[1]]
  OBVIOUS
<1>6. \A x \in Int, k \in 1 .. n :
        /\ step[<<x, k>>] = (IF events[k].metric = m /\ InPeriod(period, events[k].ts)
                             THEN Int64(x + events[k].quantity) ELSE x)
        /\ step[<<x, k>>] \in Int
  <2>1. \A x \in Int, k \in 1 .. n : x + events[k].quantity \in Int
    BY <1>3
  <2>2. \A x \in Int, k \in 1 .. n : Int64(x + events[k].quantity) \in Int
    BY <2>1, Int64Int
  <2>3. QED
    BY <1>5, <2>2
<1>7. PICK it \in [SUBSET (1 .. n) -> Int] : Folding(it, n, 0, step)
  <2>1. \A x \in Int, k \in 1 .. n : step[<<x, k>>] \in Int
    BY <1>6
  <2>2. 0 \in Int
    OBVIOUS
  <2>3. QED
    BY <2>1, <2>2, FoldingExists
<1>8. AggregateFold(it, m, period)
  <2>1. \A s \in SUBSET (1 .. n) : s # {} => Max(s) \in 1 .. n /\ it[s \ {Max(s)}] \in Int
    BY <1>7, LargestIs
  <2>2. PICK f : f = [s \in SUBSET (1 .. n) |->
            IF s = {} THEN 0
            ELSE IF events[Max(s)].metric = m /\ InPeriod(period, events[Max(s)].ts)
                 THEN Int64(it[s \ {Max(s)}] + events[Max(s)].quantity)
                 ELSE it[s \ {Max(s)}]]
    OBVIOUS
  <2>3. ASSUME NEW s \in SUBSET (1 .. n) PROVE it[s] = f[s]
    <3>1. it[s] = IF s = {} THEN 0 ELSE step[<<it[s \ {Max(s)}], Max(s)>>]
      BY <1>7 DEF Folding
    <3>2. s # {} => step[<<it[s \ {Max(s)}], Max(s)>>] =
             IF events[Max(s)].metric = m /\ InPeriod(period, events[Max(s)].ts)
             THEN Int64(it[s \ {Max(s)}] + events[Max(s)].quantity)
             ELSE it[s \ {Max(s)}]
      BY <1>6, <2>1
    <3>3. QED
      BY <2>2, <3>1, <3>2
  <2>4. it = f
    BY <1>7, <2>2, <2>3
  <2>5. QED
    BY <1>1, <2>2, <2>4 DEF AggregateFold
<1>9. Aggregate(m, period) = (CHOOSE jt : AggregateFold(jt, m, period))[DOMAIN events]
  BY DEF Aggregate, FoldLeft, MapThenFoldSet, AggregateFold
<1>10. PICK jt : AggregateFold(jt, m, period) /\ Aggregate(m, period) = jt[1 .. n]
  BY <1>1, <1>8, <1>9
<1>11. jt[1 .. 0] = 0
  <2>1. 1 .. 0 = {} /\ {} \in SUBSET (1 .. n)
    OBVIOUS
  <2>2. QED
    BY <1>1, <1>10, <2>1 DEF AggregateFold
<1>12. ASSUME NEW k \in 1 .. n, jt[1 .. (k - 1)] = Total(d, k - 1)
       PROVE  jt[1 .. k] = Total(d, k - 1) + d[k]
  <2>1. 1 .. k \in SUBSET (1 .. n) /\ 1 .. k # {} /\ Max(1 .. k) = k /\ (1 .. k) \ {k} = 1 .. (k - 1)
    BY UpTo
  <2>2. jt[1 .. k] = IF events[k].metric = m /\ InPeriod(period, events[k].ts)
                     THEN Int64(jt[1 .. (k - 1)] + events[k].quantity)
                     ELSE jt[1 .. (k - 1)]
    BY <1>1, <1>10, <2>1 DEF AggregateFold
  <2>3. PICK j \in Nat : j = k - 1 /\ k = j + 1 /\ j \in 0 .. n /\ k \in 0 .. n
    <3>1. k - 1 \in Nat /\ k = (k - 1) + 1 /\ k - 1 \in 0 .. n /\ k \in 0 .. n
      OBVIOUS
    <3>2. QED
      BY <3>1
  <2>4. Total(d, j) \in Nat /\ Total(d, k) \in Nat /\ Total(d, k) <= RecordedIn(m)
    BY <1>1, <1>2, <2>3, BilledFits
  <2>5. Numbers(d, j + 1)
    BY <1>4, <2>3 DEF Numbers
  <2>6. Total(d, k) = Total(d, j) + d[k]
    BY <2>3, <2>5, TotalStep
  <2>7. Total(d, k) < Half
    <3>1. RecordedIn(m) \in Nat /\ Half \in Nat
      BY MeteringAssumption, RecordedNat
    <3>2. QED
      BY <2>4, <3>1
  <2>8. Int64(Total(d, k)) = Total(d, k)
    BY <2>4, <2>7, Int64Same
  <2>9. CASE events[k].metric = m /\ InPeriod(period, events[k].ts)
    BY <1>4, <1>12, <2>2, <2>3, <2>6, <2>8, <2>9
  <2>10. CASE ~(events[k].metric = m /\ InPeriod(period, events[k].ts))
    BY <1>4, <1>12, <2>2, <2>3, <2>4, <2>10
  <2>11. QED
    BY <2>9, <2>10
<1>13. Numbers(d, n)
  BY <1>4 DEF Numbers
<1>14. jt[1 .. n] = Total(d, n)
  BY <1>11, <1>12, <1>13, FoldedTotal
<1>15. QED
  BY <1>1, <1>2, <1>10, <1>14 DEF BilledIn

(* Two periods that meet bill every event in one of them.                  *)
LEMMA PeriodsAddUp ==
    ASSUME MeteringTypeOK, NEW m \in Metrics, NEW t \in 0 .. MaxTimestamp + 1
    PROVE  BilledIn(m, <<0, t>>) + BilledIn(m, <<t, MaxTimestamp + 1>>) = RecordedIn(m)
<1>1. PICK n \in Nat : n = Len(events)
  BY EventsTyped
<1>2. PICK c, d, e : c = Recorded(m) /\ d = Billed(m, <<0, t>>) /\ e = Billed(m, <<t, MaxTimestamp + 1>>)
  OBVIOUS
<1>3. ASSUME NEW k \in 1 .. n PROVE d[k] \in Int /\ e[k] \in Int /\ c[k] = d[k] + e[k]
  <2>1. events[k].quantity \in Nat /\ events[k].ts \in 0 .. MaxTimestamp
    BY <1>1, EventsTyped
  <2>2. PICK ts \in Nat, max \in Nat, q \in Nat :
          ts = events[k].ts /\ max = MaxTimestamp /\ q = events[k].quantity /\ ts <= max
    BY <2>1, MeteringAssumption
  <2>3. /\ InPeriod(<<0, t>>, events[k].ts) <=> ts < t
        /\ InPeriod(<<t, MaxTimestamp + 1>>, events[k].ts) <=> t <= ts
    BY <2>2 DEF InPeriod
  <2>4. ts < t <=> ~(t <= ts)
    BY <2>2
  <2>5. /\ c[k] = (IF events[k].metric = m THEN q ELSE 0)
        /\ d[k] = (IF events[k].metric = m /\ ts < t THEN q ELSE 0)
        /\ e[k] = (IF events[k].metric = m /\ t <= ts THEN q ELSE 0)
    BY <1>1, <1>2, <2>2, <2>3 DEF Recorded, Billed
  <2>6. QED
    BY <2>2, <2>4, <2>5
<1>4. Numbers(d, n) /\ Numbers(e, n)
  BY <1>3 DEF Numbers
<1>5. Total(c, n) = Total(d, n) + Total(e, n)
  BY <1>3, <1>4, TotalSum
<1>6. QED
  BY <1>1, <1>2, <1>5 DEF BilledIn, RecordedIn

(* Whole blocks, and no block too many.                                    *)
LEMMA CeilDiv ==
    ASSUME NEW a \in Nat, a > 0, NEW b \in Nat, b > 0
    PROVE  /\ ceilDiv(a, b) \in Nat
           /\ ceilDiv(a, b) * b >= a /\ ceilDiv(a, b) * b < a + b
<1>1. PICK q \in Nat, r \in Nat : q = a \div b /\ r = a % b
  <2>1. a \div b \in Nat /\ a % b \in Nat
    OBVIOUS
  <2>2. QED
    BY <2>1
<1>2. a = b * q + r /\ r < b
  BY <1>1
<1>3. ceilDiv(a, b) = IF r = 0 THEN q ELSE q + 1
  BY <1>1 DEF ceilDiv
<1>4. PICK x \in Nat : x = b * q /\ x = q * b
  OBVIOUS
<1>5. (q + 1) * b = x + b
  BY <1>4
<1>6. QED
  BY <1>2, <1>3, <1>4, <1>5

LEMMA AmountIs ==
    ASSUME NEW m \in Metrics, NEW units \in Nat, NEW over, over = units - Rates[m].included
    PROVE  IF over <= 0 \/ Rates[m].cents = 0 THEN Amount(m, units) = 0
           ELSE /\ Amount(m, units) * blockUnits(m) >= over * Rates[m].cents
                /\ Amount(m, units) * blockUnits(m) < (over + blockUnits(m)) * Rates[m].cents
<1>1. PICK c \in Nat, i \in Nat : c = Rates[m].cents /\ i = Rates[m].included
  BY MeteringAssumption
<1>2. PICK b \in Nat : b = blockUnits(m) /\ b > 0
  <2>1. Rates[m].block \in Int
    BY MeteringAssumption
  <2>2. QED
    BY <2>1 DEF blockUnits
<1>3. over \in Int
  BY <1>1
<1>4. CASE over <= 0
  BY <1>4 DEF Amount
<1>5. CASE ~(over <= 0)
  <2>1. PICK a \in Nat : a = over /\ a > 0
    BY <1>3, <1>5
  <2>2. PICK q \in Nat : q = ceilDiv(a, b) /\ q * b >= a /\ q * b < a + b
    BY <1>2, <2>1, CeilDiv
  <2>3. Amount(m, units) = q * c
    BY <1>1, <1>2, <1>5, <2>1, <2>2 DEF Amount
  <2>4. PICK x \in Nat, d \in Nat : x = q * b /\ x = a + d /\ d < b
    <3>1. q * b \in Nat /\ (q * b) - a \in Nat /\ q * b = a + ((q * b) - a) /\ (q * b) - a < b
      <4>1. PICK y \in Nat : y = q * b
        OBVIOUS
      <4>2. y >= a /\ y < a + b
        BY <2>2, <4>1
      <4>3. y - a \in Nat /\ y = a + (y - a) /\ y - a < b
        BY <4>2
      <4>4. QED
        BY <4>1, <4>3
    <3>2. QED
      BY <3>1
  <2>5. (q * c) * b = x * c
    BY <2>4
  <2>6. x * c = a * c + d * c /\ (a + b) * c = a * c + b * c
    BY <2>4
  <2>7. a * c \in Nat /\ d * c \in Nat /\ b * c \in Nat
    OBVIOUS
  <2>8. CASE c = 0
    BY <1>1, <2>3, <2>8
  <2>9. CASE c > 0
    <3>1. d * c < b * c
      <4>1. PICK e \in Nat : b = d + e /\ e > 0
        <5>1. b - d \in Nat /\ b = d + (b - d) /\ b - d > 0
          BY <2>4
        <5>2. QED
          BY <5>1
      <4>2. b * c = d * c + e * c
        BY <4>1
      <4>3. e * c > 0 /\ e * c \in Nat
        BY <2>9, <4>1
      <4>4. QED
        BY <2>7, <4>2, <4>3
    <3>2. PICK y \in Nat, u \in Nat, v \in Nat, z \in Nat :
            y = (q * c) * b /\ u = a * c /\ v = d * c /\ z = b * c
      BY <2>7
    <3>3. y = u + v /\ v < z /\ (a + b) * c = u + z
      BY <2>5, <2>6, <3>1, <3>2
    <3>4. y >= u /\ y < u + z
      BY <3>3
    <3>5. (q * c) * b >= a * c /\ (q * c) * b < (a + b) * c
      BY <3>2, <3>3, <3>4
    <3>6. c # 0
      BY <2>9
    <3>7. QED
      BY <1>1, <1>2, <1>5, <2>1, <2>3, <3>5, <3>6
  <2>10. QED
    BY <2>8, <2>9
<1>6. QED
  BY <1>4, <1>5

(* The charges of Bill, as its recursion unfolds.                          *)
Charges(charge, period) ==
    charge = [M \in SUBSET Metrics |->
        IF M = {} THEN BaseFee
        ELSE charge[M \ {CHOOSE m \in M : TRUE}]
               + Amount(CHOOSE m \in M : TRUE, Aggregate(CHOOSE m \in M : TRUE, period))]

(* Where nothing is charged for a metric, the bill is the base fee.        *)
LEMMA NothingCharged ==
    ASSUME NEW period, \A m \in Metrics : Amount(m, Aggregate(m, period)) = 0
    PROVE  Bill(period) = BaseFee
<1>1. PICK fee \in Nat : fee = BaseFee
  BY MeteringAssumption
<1>2. PICK f : f = [M \in SUBSET Metrics |-> fee]
  OBVIOUS
<1>3. \A M \in SUBSET Metrics : M # {} => (CHOOSE m \in M : TRUE) \in M
  OBVIOUS
<1>4. Charges(f, period)
  <2>1. ASSUME NEW M \in SUBSET Metrics, M # {}
        PROVE  fee = f[M \ {CHOOSE m \in M : TRUE}]
                       + Amount(CHOOSE m \in M : TRUE, Aggregate(CHOOSE m \in M : TRUE, period))
    <3>1. PICK x \in M : x = CHOOSE m \in M : TRUE
      BY <1>3, <2>1
    <3>2. f[M \ {x}] = fee /\ Amount(x, Aggregate(x, period)) = 0
      BY <1>2
    <3>3. fee = f[M \ {x}] + Amount(x, Aggregate(x, period))
      BY <1>1, <3>2
    <3>4. QED
      BY <3>1, <3>3
  <2>2. PICK g : g = [M \in SUBSET Metrics |->
        IF M = {} THEN BaseFee
        ELSE f[M \ {CHOOSE m \in M : TRUE}]
               + Amount(CHOOSE m \in M : TRUE, Aggregate(CHOOSE m \in M : TRUE, period))]
    OBVIOUS
  <2>3. \A M \in SUBSET Metrics : g[M] = fee
    BY <1>1, <2>1, <2>2
  <2>4. f = g
    BY <1>2, <2>2, <2>3
  <2>5. QED
    BY <2>2, <2>4 DEF Charges
<1>5. Bill(period) = (CHOOSE charge : Charges(charge, period))[Metrics]
  BY DEF Bill, Charges
<1>6. PICK charge : Charges(charge, period) /\ Bill(period) = charge[Metrics]
  BY <1>4, <1>5
<1>7. /\ charge[{}] = fee
      /\ \A M \in SUBSET Metrics : M # {} => \E x \in M : charge[M] = charge[M \ {x}] + 0
  <2>1. ASSUME NEW M \in SUBSET Metrics, M # {}
        PROVE  \E x \in M : charge[M] = charge[M \ {x}] + 0
    <3>1. PICK x \in M : x = CHOOSE m \in M : TRUE
      BY <1>3, <2>1
    <3>2. charge[M] = charge[M \ {CHOOSE m \in M : TRUE}]
                       + Amount(CHOOSE m \in M : TRUE, Aggregate(CHOOSE m \in M : TRUE, period))
      BY <1>6, <2>1 DEF Charges
    <3>3. Amount(x, Aggregate(x, period)) = 0
      OBVIOUS
    <3>4. QED
      BY <3>1, <3>2, <3>3
  <2>2. charge[{}] = fee
    BY <1>1, <1>6 DEF Charges
  <2>3. QED
    BY <2>1, <2>2
<1> DEFINE T == {n \in Nat : \A M \in SUBSET Metrics : Cardinality(M) = n => charge[M] = fee}
<1>8. 0 \in T
  <2>1. ASSUME NEW M \in SUBSET Metrics, Cardinality(M) = 0 PROVE charge[M] = fee
    <3>1. IsFiniteSet(M)
      BY MeteringAssumption, FS_Subset
    <3>2. M = {}
      BY <2>1, <3>1, FS_EmptySet
    <3>3. QED
      BY <1>7, <3>2
  <2>2. QED
    BY <2>1
<1>9. ASSUME NEW n \in Nat, n \in T PROVE n + 1 \in T
  <2>1. ASSUME NEW M \in SUBSET Metrics, Cardinality(M) = n + 1 PROVE charge[M] = fee
    <3>1. IsFiniteSet(M)
      BY MeteringAssumption, FS_Subset
    <3>2. M # {}
      BY <2>1, <3>1, FS_EmptySet
    <3>3. PICK x \in M : charge[M] = charge[M \ {x}] + 0
      BY <1>7, <3>2
    <3>4. Cardinality(M \ {x}) = Cardinality(M) - 1
      BY <3>1, FS_RemoveElement
    <3>5. Cardinality(M \ {x}) = n /\ M \ {x} \in SUBSET Metrics
      BY <2>1, <3>4
    <3>6. charge[M \ {x}] = fee
      BY <1>9, <3>5
    <3>7. QED
      BY <1>1, <3>3, <3>6
  <2>2. QED
    BY <2>1
<1>10. charge[Metrics] = fee
  <2>1. Cardinality(Metrics) \in Nat
    BY MeteringAssumption, FS_CardinalityType
  <2>2. Cardinality(Metrics) \in T
    <3> HIDE DEF T
    <3>1. Nat \subseteq T
      BY <1>8, <1>9, NatInduct
    <3>2. QED
      BY <2>1, <3>1
  <2>3. QED
    BY <2>2
<1>11. QED
  BY <1>1, <1>6, <1>10

(* What MeteredOnce says follows from the sums.                            *)
LEMMA MeteredFollows == ASSUME NEW w, SumsFit(w), MeteringIInv(w) PROVE MeteredOnce
<1>1. MeteringTypeOK
  BY DEF MeteringIInv
<1>2. ASSUME NEW m \in Metrics PROVE RecordedIn(m) \in Nat /\ consumed[m] = RecordedIn(m) /\ RecordedIn(m) < Half
  <2>1. PICK n \in Nat, max \in Nat : n = reservations /\ max = MaxReservations /\ n <= max
    BY <1>1, MeteringAssumption DEF MeteringTypeOK
  <2>2. w \in Nat /\ max * w < Half /\ Half \in Nat
    BY <2>1, MeteringAssumption DEF SumsFit
  <2>3. n * w <= max * w
    <3>1. PICK d \in Nat : max = n + d
      <4>1. max - n \in Nat /\ max = n + (max - n)
        BY <2>1
      <4>2. QED
        BY <4>1
    <3>2. max * w = n * w + d * w /\ d * w \in Nat /\ n * w \in Nat
      BY <2>2, <3>1
    <3>3. QED
      BY <3>2
  <2>4. /\ HeldIn(m) \in Nat /\ RecordedIn(m) \in Nat
        /\ used[m] = HeldIn(m) + consumed[m] /\ consumed[m] = RecordedIn(m) /\ used[m] <= n * w
    BY <1>1, <2>1, HeldTotal, RecordedNat DEF MeteringIInv
  <2>5. n * w \in Nat /\ max * w \in Nat
    BY <2>2
  <2>6. PICK a \in Nat, b \in Nat : a = n * w /\ b = max * w
    BY <2>5
  <2>7. PICK x \in Nat, y \in Nat : x = HeldIn(m) /\ y = RecordedIn(m)
    BY <2>4
  <2>8. x + y <= a /\ a <= b /\ b < Half
    BY <2>2, <2>3, <2>4, <2>6, <2>7
  <2>9. y < Half
    BY <2>2, <2>8
  <2>10. QED
    BY <2>4, <2>7, <2>9
<1>3. ASSUME NEW m \in Metrics, NEW period PROVE Aggregate(m, period) = BilledIn(m, period)
  BY <1>1, <1>2, AggregateIs
<1>4. ASSUME NEW m \in Metrics
      PROVE  /\ used[m] = HeldOf(m) + consumed[m] /\ used[m] <= highest[m]
             /\ \A t \in 0 .. MaxTimestamp + 1 :
                   Aggregate(m, <<0, t>>) + Aggregate(m, <<t, MaxTimestamp + 1>>) = consumed[m]
             /\ IF consumed[m] - Rates[m].included <= 0 \/ Rates[m].cents = 0
                THEN Amount(m, consumed[m]) = 0
                ELSE /\ Amount(m, consumed[m]) * blockUnits(m)
                          >= (consumed[m] - Rates[m].included) * Rates[m].cents
                     /\ Amount(m, consumed[m]) * blockUnits(m)
                          < ((consumed[m] - Rates[m].included) + blockUnits(m)) * Rates[m].cents
  <2>1. used[m] = HeldOf(m) + consumed[m] /\ used[m] <= highest[m]
    BY <1>1, HeldOfIs DEF MeteringIInv
  <2>2. \A t \in 0 .. MaxTimestamp + 1 :
           Aggregate(m, <<0, t>>) + Aggregate(m, <<t, MaxTimestamp + 1>>) = consumed[m]
    BY <1>1, <1>2, <1>3, PeriodsAddUp
  <2>3. consumed[m] \in Nat
    BY <1>2
  <2>4. QED
    BY <2>1, <2>2, <2>3, AmountIs
<1>5. ASSUME events = <<>> PROVE Bill(<<0, MaxTimestamp + 1>>) = BaseFee
  <2>1. ASSUME NEW m \in Metrics PROVE Amount(m, Aggregate(m, <<0, MaxTimestamp + 1>>)) = 0
    <3>1. PICK i \in Nat : i = Rates[m].included
      BY MeteringAssumption
    <3>2. Len(events) = 0
      BY <1>5
    <3>3. Aggregate(m, <<0, MaxTimestamp + 1>>) = 0
      BY <1>3, <3>2, TotalNone DEF BilledIn
    <3>4. 0 - i <= 0
      OBVIOUS
    <3>5. QED
      BY <3>1, <3>3, <3>4 DEF Amount
  <2>2. QED
    BY <2>1, NothingCharged
<1>6. QED
  BY <1>4, <1>5 DEF MeteredOnce

(* MeteredOnce, while the sums of what callers may ask for stay in int64.  *)
THEOREM MeteredRight == ASSUME NEW w, SumsFit(w) PROVE MeteringSpec => []MeteredOnce
<1>1. MeteringInit => MeteringIInv(w)
  BY MeteringInitIInv
<1>2. MeteringIInv(w) /\ [MeteringNext]_meteringVars => MeteringIInv(w)'
  BY MeteringInductive
<1>3. MeteringIInv(w) => MeteredOnce
  BY MeteredFollows
<1>4. QED
  BY <1>1, <1>2, <1>3, PTL DEF MeteringSpec

-----------------------------------------------------------------------------
(***************************************************************************)
(* Threads, for threads and texts of any length.  Each fold of the module  *)
(* is unfolded once, as the course of its values over the first k members  *)
(* (KeepFirstCourse and the like); what it computes follows by induction   *)
(* over k.  Lists(q, S), that q has each member of S once and nothing      *)
(* else, is what Dedupe, Organic, Chronological, ExtractHashtags and       *)
(* HashtagsOf hand on to each other.                                       *)
(***************************************************************************)
(* Dedupe, as its fold unfolds: what is kept of the first k posts.         *)
KeepFirstFold(it, s) ==
    it = [S \in SUBSET DOMAIN s |->
            IF S = {} THEN <<>> ELSE KeepFirst(it[S \ {Max(S)}], s[Max(S)])]

KeepFirstKeeps(A, n, s) ==
    /\ DOMAIN s = 1 .. n /\ <<>> \in A
    /\ \A x \in A, k \in 1 .. n : KeepFirst(x, s[k]) \in A

LEMMA KeepFirstCourse ==
    ASSUME NEW n \in Nat, NEW s, NEW A, KeepFirstKeeps(A, n, s)
    PROVE  \E g : /\ g \in [0 .. n -> A] /\ g[0] = <<>>
                  /\ \A k \in 1 .. n : g[k] = KeepFirst(g[k - 1], s[k])
                  /\ Dedupe(s) = g[n]
<1>0. DOMAIN s = 1 .. n /\ <<>> \in A /\ \A x \in A, k \in 1 .. n : KeepFirst(x, s[k]) \in A
  BY DEF KeepFirstKeeps
<1>1. PICK step : step = [p \in A \X (1 .. n) |-> KeepFirst(p[1], s[p[2]])]
  OBVIOUS
<1>2. \A x \in A, k \in 1 .. n : step[<<x, k>>] = KeepFirst(x, s[k]) /\ step[<<x, k>>] \in A
  BY <1>0, <1>1
<1>3. PICK it \in [SUBSET (1 .. n) -> A] : Folding(it, n, <<>>, step)
  <2>1. \A x \in A, k \in 1 .. n : step[<<x, k>>] \in A
    BY <1>2
  <2>2. QED
    BY <1>0, <2>1, FoldingExists, Zenon
<1>4. KeepFirstFold(it, s)
  <2>1. \A S \in SUBSET (1 .. n) : S # {} => Max(S) \in 1 .. n /\ it[S \ {Max(S)}] \in A
    BY <1>0, <1>3, LargestIs
  <2>2. PICK f : f = [S \in SUBSET (1 .. n) |->
                        IF S = {} THEN <<>> ELSE KeepFirst(it[S \ {Max(S)}], s[Max(S)])]
    OBVIOUS
  <2>3. ASSUME NEW S \in SUBSET (1 .. n) PROVE it[S] = f[S]
    <3>1. it[S] = IF S = {} THEN <<>> ELSE step[<<it[S \ {Max(S)}], Max(S)>>]
      BY <1>3 DEF Folding
    <3>2. S # {} => step[<<it[S \ {Max(S)}], Max(S)>>] = KeepFirst(it[S \ {Max(S)}], s[Max(S)])
      BY <1>2, <2>1
    <3>3. QED
      BY <2>2, <3>1, <3>2
  <2>4. it = f
    BY <1>3, <2>2, <2>3
  <2>5. QED
    BY <1>0, <2>2, <2>4 DEF KeepFirstFold
<1>5. Dedupe(s) = (CHOOSE jt : KeepFirstFold(jt, s))[DOMAIN s]
  BY DEF Dedupe, FoldLeft, MapThenFoldSet, KeepFirstFold
<1>6. PICK jt : KeepFirstFold(jt, s) /\ Dedupe(s) = jt[1 .. n]
  BY <1>0, <1>4, <1>5
<1>7. jt[1 .. 0] = <<>>
  <2>1. 1 .. 0 = {} /\ {} \in SUBSET (1 .. n)
    OBVIOUS
  <2>2. QED
    BY <1>0, <1>6, <2>1 DEF KeepFirstFold
<1>8. ASSUME NEW k \in 1 .. n, jt[1 .. (k - 1)] \in A PROVE jt[1 .. k] = step[<<jt[1 .. (k - 1)], k>>]
  <2>1. 1 .. k \in SUBSET (1 .. n) /\ 1 .. k # {} /\ Max(1 .. k) = k /\ (1 .. k) \ {k} = 1 .. (k - 1)
    BY UpTo
  <2>2. jt[1 .. k] = KeepFirst(jt[1 .. (k - 1)], s[k])
    BY <1>0, <1>6, <2>1 DEF KeepFirstFold
  <2>3. QED
    BY <1>2, <1>8, <2>2
<1>9. PICK g : Course(g, n, A, <<>>, step) /\ g[n] = jt[1 .. n]
  <2>1. Unfolds(jt, n, A, <<>>, step)
    BY <1>0, <1>2, <1>7, <1>8 DEF Unfolds
  <2>2. QED
    BY <2>1, CourseExists
<1>10. g \in [0 .. n -> A] /\ g[0] = <<>> /\ \A k \in 1 .. n : g[k] = step[<<g[k - 1], k>>]
  BY <1>9 DEF Course
<1>11. ASSUME NEW k \in 1 .. n PROVE g[k] = KeepFirst(g[k - 1], s[k])
  <2>1. g[k - 1] \in A
    BY <1>10
  <2>2. QED
    BY <1>2, <1>10, <2>1
<1>12. QED
  BY <1>6, <1>9, <1>10, <1>11

(* FirstRoot: the best of the first k posts.                               *)
BetterRootFold(it, s) ==
    it = [S \in SUBSET DOMAIN s |->
            IF S = {} THEN NoRoot ELSE BetterRoot(it[S \ {Max(S)}], s[Max(S)])]

BetterRootKeeps(A, n, s) ==
    /\ DOMAIN s = 1 .. n /\ NoRoot \in A
    /\ \A x \in A, k \in 1 .. n : BetterRoot(x, s[k]) \in A

LEMMA BetterRootCourse ==
    ASSUME NEW n \in Nat, NEW s, NEW A, BetterRootKeeps(A, n, s)
    PROVE  \E g : /\ g \in [0 .. n -> A] /\ g[0] = NoRoot
                  /\ \A k \in 1 .. n : g[k] = BetterRoot(g[k - 1], s[k])
                  /\ FirstRoot(s) = g[n]
<1>0. DOMAIN s = 1 .. n /\ NoRoot \in A /\ \A x \in A, k \in 1 .. n : BetterRoot(x, s[k]) \in A
  BY DEF BetterRootKeeps
<1>1. PICK step : step = [p \in A \X (1 .. n) |-> BetterRoot(p[1], s[p[2]])]
  OBVIOUS
<1>2. \A x \in A, k \in 1 .. n : step[<<x, k>>] = BetterRoot(x, s[k]) /\ step[<<x, k>>] \in A
  BY <1>0, <1>1
<1>3. PICK it \in [SUBSET (1 .. n) -> A] : Folding(it, n, NoRoot, step)
  <2>1. \A x \in A, k \in 1 .. n : step[<<x, k>>] \in A
    BY <1>2
  <2>2. QED
    BY <1>0, <2>1, FoldingExists, Zenon
<1>4. BetterRootFold(it, s)
  <2>1. \A S \in SUBSET (1 .. n) : S # {} => Max(S) \in 1 .. n /\ it[S \ {Max(S)}] \in A
    BY <1>0, <1>3, LargestIs
  <2>2. PICK f : f = [S \in SUBSET (1 .. n) |->
                        IF S = {} THEN NoRoot ELSE BetterRoot(it[S \ {Max(S)}], s[Max(S)])]
    OBVIOUS
  <2>3. ASSUME NEW S \in SUBSET (1 .. n) PROVE it[S] = f[S]
    <3>1. it[S] = IF S = {} THEN NoRoot ELSE step[<<it[S \ {Max(S)}], Max(S)>>]
      BY <1>3 DEF Folding
    <3>2. S # {} => step[<<it[S \ {Max(S)}], Max(S)>>] = BetterRoot(it[S \ {Max(S)}], s[Max(S)])
      BY <1>2, <2>1
    <3>3. QED
      BY <2>2, <3>1, <3>2
  <2>4. it = f
    BY <1>3, <2>2, <2>3
  <2>5. QED
    BY <1>0, <2>2, <2>4 DEF BetterRootFold
<1>5. FirstRoot(s) = (CHOOSE jt : BetterRootFold(jt, s))[DOMAIN s]
  BY DEF FirstRoot, FoldLeft, MapThenFoldSet, BetterRootFold
<1>6. PICK jt : BetterRootFold(jt, s) /\ FirstRoot(s) = jt[1 .. n]
  BY <1>0, <1>4, <1>5
<1>7. jt[1 .. 0] = NoRoot
  <2>1. 1 .. 0 = {} /\ {} \in SUBSET (1 .. n)
    OBVIOUS
  <2>2. QED
    BY <1>0, <1>6, <2>1 DEF BetterRootFold
<1>8. ASSUME NEW k \in 1 .. n, jt[1 .. (k - 1)] \in A PROVE jt[1 .. k] = step[<<jt[1 .. (k - 1)], k>>]
  <2>1. 1 .. k \in SUBSET (1 .. n) /\ 1 .. k # {} /\ Max(1 .. k) = k /\ (1 .. k) \ {k} = 1 .. (k - 1)
    BY UpTo
  <2>2. jt[1 .. k] = BetterRoot(jt[1 .. (k - 1)], s[k])
    BY <1>0, <1>6, <2>1 DEF BetterRootFold
  <2>3. QED
    BY <1>2, <1>8, <2>2
<1>9. PICK g : Course(g, n, A, NoRoot, step) /\ g[n] = jt[1 .. n]
  <2>1. Unfolds(jt, n, A, NoRoot, step)
    BY <1>0, <1>2, <1>7, <1>8 DEF Unfolds
  <2>2. QED
    BY <2>1, CourseExists
<1>10. g \in [0 .. n -> A] /\ g[0] = NoRoot /\ \A k \in 1 .. n : g[k] = step[<<g[k - 1], k>>]
  BY <1>9 DEF Course
<1>11. ASSUME NEW k \in 1 .. n PROVE g[k] = BetterRoot(g[k - 1], s[k])
  <2>1. g[k - 1] \in A
    BY <1>10
  <2>2. QED
    BY <1>2, <1>10, <2>1
<1>12. QED
  BY <1>6, <1>9, <1>10, <1>11

(* Organic: those of the first k posts.                                    *)
KeepOrganicFold(it, root, s) ==
    it = [S \in SUBSET DOMAIN s |->
            IF S = {} THEN <<>> ELSE KeepOrganic(root, it[S \ {Max(S)}], s[Max(S)])]

KeepOrganicKeeps(A, n, root, s) ==
    /\ DOMAIN s = 1 .. n /\ <<>> \in A
    /\ \A x \in A, k \in 1 .. n : KeepOrganic(root, x, s[k]) \in A

KeepOrganicSteps(g, A, n, root, s) ==
    /\ g \in [0 .. n -> A] /\ g[0] = <<>>
    /\ \A k \in 1 .. n : g[k] = KeepOrganic(root, g[k - 1], s[k])
    /\ Organic(s, root) = g[n]

LEMMA KeepOrganicCourse ==
    ASSUME NEW root, NEW n \in Nat, NEW s, NEW A, KeepOrganicKeeps(A, n, root, s)
    PROVE  \E g : KeepOrganicSteps(g, A, n, root, s)
<1>0. DOMAIN s = 1 .. n /\ <<>> \in A /\ \A x \in A, k \in 1 .. n : KeepOrganic(root, x, s[k]) \in A
  BY DEF KeepOrganicKeeps
<1>1. PICK step : step = [p \in A \X (1 .. n) |-> KeepOrganic(root, p[1], s[p[2]])]
  OBVIOUS
<1>2. \A x \in A, k \in 1 .. n : step[<<x, k>>] = KeepOrganic(root, x, s[k]) /\ step[<<x, k>>] \in A
  BY <1>0, <1>1
<1>3. PICK it \in [SUBSET (1 .. n) -> A] : Folding(it, n, <<>>, step)
  <2>1. \A x \in A, k \in 1 .. n : step[<<x, k>>] \in A
    BY <1>2
  <2>2. QED
    BY <1>0, <2>1, FoldingExists, Zenon
<1>4. KeepOrganicFold(it, root, s)
  <2>1. \A S \in SUBSET (1 .. n) : S # {} => Max(S) \in 1 .. n /\ it[S \ {Max(S)}] \in A
    BY <1>0, <1>3, LargestIs
  <2>2. PICK f : f = [S \in SUBSET (1 .. n) |->
                        IF S = {} THEN <<>> ELSE KeepOrganic(root, it[S \ {Max(S)}], s[Max(S)])]
    OBVIOUS
  <2>3. ASSUME NEW S \in SUBSET (1 .. n) PROVE it[S] = f[S]
    <3>1. it[S] = IF S = {} THEN <<>> ELSE step[<<it[S \ {Max(S)}], Max(S)>>]
      BY <1>3 DEF Folding
    <3>2. S # {} => step[<<it[S \ {Max(S)}], Max(S)>>] = KeepOrganic(root, it[S \ {Max(S)}], s[Max(S)])
      BY <1>2, <2>1
    <3>3. QED
      BY <2>2, <3>1, <3>2
  <2>4. it = f
    BY <1>3, <2>2, <2>3
  <2>5. QED
    BY <1>0, <2>2, <2>4 DEF KeepOrganicFold
<1>5. Organic(s, root) = (CHOOSE jt : KeepOrganicFold(jt, root, s))[DOMAIN s]
  BY DEF Organic, KeepOrganic, FoldLeft, MapThenFoldSet, KeepOrganicFold
<1>6. PICK jt : KeepOrganicFold(jt, root, s) /\ Organic(s, root) = jt[1 .. n]
  BY <1>0, <1>4, <1>5
<1>7. jt[1 .. 0] = <<>>
  <2>1. 1 .. 0 = {} /\ {} \in SUBSET (1 .. n)
    OBVIOUS
  <2>2. QED
    BY <1>0, <1>6, <2>1 DEF KeepOrganicFold
<1>8. ASSUME NEW k \in 1 .. n, jt[1 .. (k - 1)] \in A PROVE jt[1 .. k] = step[<<jt[1 .. (k - 1)], k>>]
  <2>1. 1 .. k \in SUBSET (1 .. n) /\ 1 .. k # {} /\ Max(1 .. k) = k /\ (1 .. k) \ {k} = 1 .. (k - 1)
    BY UpTo
  <2>2. jt[1 .. k] = KeepOrganic(root, jt[1 .. (k - 1)], s[k])
    BY <1>0, <1>6, <2>1 DEF KeepOrganicFold
  <2>3. QED
    BY <1>2, <1>8, <2>2
<1>9. PICK g : Course(g, n, A, <<>>, step) /\ g[n] = jt[1 .. n]
  <2>1. Unfolds(jt, n, A, <<>>, step)
    BY <1>0, <1>2, <1>7, <1>8 DEF Unfolds
  <2>2. QED
    BY <2>1, CourseExists
<1>10. g \in [0 .. n -> A] /\ g[0] = <<>> /\ \A k \in 1 .. n : g[k] = step[<<g[k - 1], k>>]
  BY <1>9 DEF Course
<1>11. ASSUME NEW k \in 1 .. n PROVE g[k] = KeepOrganic(root, g[k - 1], s[k])
  <2>1. g[k - 1] \in A
    BY <1>10
  <2>2. QED
    BY <1>2, <1>10, <2>1
<1>12. QED
  BY <1>6, <1>9, <1>10, <1>11 DEF KeepOrganicSteps

(* AddTags: what the first k tags add.                                     *)
AddTagFold(it, out, s) ==
    it = [S \in SUBSET DOMAIN s |->
            IF S = {} THEN out ELSE AddTag(it[S \ {Max(S)}], s[Max(S)])]

AddTagKeeps(A, n, out, s) ==
    /\ DOMAIN s = 1 .. n /\ out \in A
    /\ \A x \in A, k \in 1 .. n : AddTag(x, s[k]) \in A

LEMMA AddTagCourse ==
    ASSUME NEW out, NEW n \in Nat, NEW s, NEW A, AddTagKeeps(A, n, out, s)
    PROVE  \E g : /\ g \in [0 .. n -> A] /\ g[0] = out
                  /\ \A k \in 1 .. n : g[k] = AddTag(g[k - 1], s[k])
                  /\ AddTags(out, s) = g[n]
<1>0. DOMAIN s = 1 .. n /\ out \in A /\ \A x \in A, k \in 1 .. n : AddTag(x, s[k]) \in A
  BY DEF AddTagKeeps
<1>1. PICK step : step = [p \in A \X (1 .. n) |-> AddTag(p[1], s[p[2]])]
  OBVIOUS
<1>2. \A x \in A, k \in 1 .. n : step[<<x, k>>] = AddTag(x, s[k]) /\ step[<<x, k>>] \in A
  BY <1>0, <1>1
<1>3. PICK it \in [SUBSET (1 .. n) -> A] : Folding(it, n, out, step)
  <2>1. \A x \in A, k \in 1 .. n : step[<<x, k>>] \in A
    BY <1>2
  <2>2. QED
    BY <1>0, <2>1, FoldingExists, Zenon
<1>4. AddTagFold(it, out, s)
  <2>1. \A S \in SUBSET (1 .. n) : S # {} => Max(S) \in 1 .. n /\ it[S \ {Max(S)}] \in A
    BY <1>0, <1>3, LargestIs
  <2>2. PICK f : f = [S \in SUBSET (1 .. n) |->
                        IF S = {} THEN out ELSE AddTag(it[S \ {Max(S)}], s[Max(S)])]
    OBVIOUS
  <2>3. ASSUME NEW S \in SUBSET (1 .. n) PROVE it[S] = f[S]
    <3>1. it[S] = IF S = {} THEN out ELSE step[<<it[S \ {Max(S)}], Max(S)>>]
      BY <1>3 DEF Folding
    <3>2. S # {} => step[<<it[S \ {Max(S)}], Max(S)>>] = AddTag(it[S \ {Max(S)}], s[Max(S)])
      BY <1>2, <2>1
    <3>3. QED
      BY <2>2, <3>1, <3>2
  <2>4. it = f
    BY <1>3, <2>2, <2>3
  <2>5. QED
    BY <1>0, <2>2, <2>4 DEF AddTagFold
<1>5. AddTags(out, s) = (CHOOSE jt : AddTagFold(jt, out, s))[DOMAIN s]
  BY DEF AddTags, FoldLeft, MapThenFoldSet, AddTagFold
<1>6. PICK jt : AddTagFold(jt, out, s) /\ AddTags(out, s) = jt[1 .. n]
  BY <1>0, <1>4, <1>5
<1>7. jt[1 .. 0] = out
  <2>1. 1 .. 0 = {} /\ {} \in SUBSET (1 .. n)
    OBVIOUS
  <2>2. QED
    BY <1>0, <1>6, <2>1 DEF AddTagFold
<1>8. ASSUME NEW k \in 1 .. n, jt[1 .. (k - 1)] \in A PROVE jt[1 .. k] = step[<<jt[1 .. (k - 1)], k>>]
  <2>1. 1 .. k \in SUBSET (1 .. n) /\ 1 .. k # {} /\ Max(1 .. k) = k /\ (1 .. k) \ {k} = 1 .. (k - 1)
    BY UpTo
  <2>2. jt[1 .. k] = AddTag(jt[1 .. (k - 1)], s[k])
    BY <1>0, <1>6, <2>1 DEF AddTagFold
  <2>3. QED
    BY <1>2, <1>8, <2>2
<1>9. PICK g : Course(g, n, A, out, step) /\ g[n] = jt[1 .. n]
  <2>1. Unfolds(jt, n, A, out, step)
    BY <1>0, <1>2, <1>7, <1>8 DEF Unfolds
  <2>2. QED
    BY <2>1, CourseExists
<1>10. g \in [0 .. n -> A] /\ g[0] = out /\ \A k \in 1 .. n : g[k] = step[<<g[k - 1], k>>]
  BY <1>9 DEF Course
<1>11. ASSUME NEW k \in 1 .. n PROVE g[k] = AddTag(g[k - 1], s[k])
  <2>1. g[k - 1] \in A
    BY <1>10
  <2>2. QED
    BY <1>2, <1>10, <2>1
<1>12. QED
  BY <1>6, <1>9, <1>10, <1>11

(* HashtagsOf: the tags of the first k posts.                              *)
AddTagsOfFold(it, s) ==
    it = [S \in SUBSET DOMAIN s |->
            IF S = {} THEN <<>> ELSE AddTags(it[S \ {Max(S)}], ExtractHashtags(Text[s[Max(S)]]))]

AddTagsOfKeeps(A, n, s) ==
    /\ DOMAIN s = 1 .. n /\ <<>> \in A
    /\ \A x \in A, k \in 1 .. n : AddTags(x, ExtractHashtags(Text[s[k]])) \in A

AddTagsOfSteps(g, A, n, s) ==
    /\ g \in [0 .. n -> A] /\ g[0] = <<>>
    /\ \A k \in 1 .. n : g[k] = AddTags(g[k - 1], ExtractHashtags(Text[s[k]]))
    /\ HashtagsOf(s) = g[n]

LEMMA AddTagsOfCourse ==
    ASSUME NEW n \in Nat, NEW s, NEW A, AddTagsOfKeeps(A, n, s)
    PROVE  \E g : AddTagsOfSteps(g, A, n, s)
<1>0. DOMAIN s = 1 .. n /\ <<>> \in A /\ \A x \in A, k \in 1 .. n : AddTags(x, ExtractHashtags(Text[s[k]])) \in A
  BY DEF AddTagsOfKeeps
<1>1. PICK step : step = [p \in A \X (1 .. n) |-> AddTags(p[1], ExtractHashtags(Text[s[p[2]]]))]
  OBVIOUS
<1>2. \A x \in A, k \in 1 .. n : step[<<x, k>>] = AddTags(x, ExtractHashtags(Text[s[k]])) /\ step[<<x, k>>] \in A
  BY <1>0, <1>1
<1>3. PICK it \in [SUBSET (1 .. n) -> A] : Folding(it, n, <<>>, step)
  <2>1. \A x \in A, k \in 1 .. n : step[<<x, k>>] \in A
    BY <1>2
  <2>2. QED
    BY <1>0, <2>1, FoldingExists, Zenon
<1>4. AddTagsOfFold(it, s)
  <2>1. \A S \in SUBSET (1 .. n) : S # {} => Max(S) \in 1 .. n /\ it[S \ {Max(S)}] \in A
    BY <1>0, <1>3, LargestIs
  <2>2. PICK f : f = [S \in SUBSET (1 .. n) |->
                        IF S = {} THEN <<>> ELSE AddTags(it[S \ {Max(S)}], ExtractHashtags(Text[s[Max(S)]]))]
    OBVIOUS
  <2>3. ASSUME NEW S \in SUBSET (1 .. n) PROVE it[S] = f[S]
    <3>1. it[S] = IF S = {} THEN <<>> ELSE step[<<it[S \ {Max(S)}], Max(S)>>]
      BY <1>3 DEF Folding
    <3>2. S # {} => step[<<it[S \ {Max(S)}], Max(S)>>] = AddTags(it[S \ {Max(S)}], ExtractHashtags(Text[s[Max(S)]]))
      BY <1>2, <2>1
    <3>3. QED
      BY <2>2, <3>1, <3>2
  <2>4. it = f
    BY <1>3, <2>2, <2>3
  <2>5. QED
    BY <1>0, <2>2, <2>4 DEF AddTagsOfFold
<1>5. HashtagsOf(s) = (CHOOSE jt : AddTagsOfFold(jt, s))[DOMAIN s]
  BY DEF HashtagsOf, FoldLeft, MapThenFoldSet, AddTagsOfFold
<1>6. PICK jt : AddTagsOfFold(jt, s) /\ HashtagsOf(s) = jt[1 .. n]
  BY <1>0, <1>4, <1>5
<1>7. jt[1 .. 0] = <<>>
  <2>1. 1 .. 0 = {} /\ {} \in SUBSET (1 .. n)
    OBVIOUS
  <2>2. QED
    BY <1>0, <1>6, <2>1 DEF AddTagsOfFold
<1>8. ASSUME NEW k \in 1 .. n, jt[1 .. (k - 1)] \in A PROVE jt[1 .. k] = step[<<jt[1 .. (k - 1)], k>>]
  <2>1. 1 .. k \in SUBSET (1 .. n) /\ 1 .. k # {} /\ Max(1 .. k) = k /\ (1 .. k) \ {k} = 1 .. (k - 1)
    BY UpTo
  <2>2. jt[1 .. k] = AddTags(jt[1 .. (k - 1)], ExtractHashtags(Text[s[k]]))
    BY <1>0, <1>6, <2>1 DEF AddTagsOfFold
  <2>3. QED
    BY <1>2, <1>8, <2>2
<1>9. PICK g : Course(g, n, A, <<>>, step) /\ g[n] = jt[1 .. n]
  <2>1. Unfolds(jt, n, A, <<>>, step)
    BY <1>0, <1>2, <1>7, <1>8 DEF Unfolds
  <2>2. QED
    BY <2>1, CourseExists
<1>10. g \in [0 .. n -> A] /\ g[0] = <<>> /\ \A k \in 1 .. n : g[k] = step[<<g[k - 1], k>>]
  BY <1>9 DEF Course
<1>11. ASSUME NEW k \in 1 .. n PROVE g[k] = AddTags(g[k - 1], ExtractHashtags(Text[s[k]]))
  <2>1. g[k - 1] \in A
    BY <1>10
  <2>2. QED
    BY <1>2, <1>10, <2>1
<1>12. QED
  BY <1>6, <1>9, <1>10, <1>11 DEF AddTagsOfSteps

(* ExtractHashtags: the scan after the first k runes.                      *)
ScanFold(it, text, s) ==
    it = [S \in SUBSET DOMAIN s |->
            IF S = {} THEN ScanStart ELSE Scan(text, it[S \ {Max(S)}], s[Max(S)])]

ScanKeeps(A, n, text) ==
    /\ DOMAIN Places(text) = 1 .. n /\ ScanStart \in A
    /\ \A x \in A, k \in 1 .. n : Scan(text, x, Places(text)[k]) \in A

ScanSteps(g, A, n, text) ==
    /\ g \in [0 .. n -> A] /\ g[0] = ScanStart
    /\ \A k \in 1 .. n : g[k] = Scan(text, g[k - 1], Places(text)[k])
    /\ ExtractHashtags(text) = (g[n]).tags

LEMMA ScanCourse ==
    ASSUME NEW text, NEW n \in Nat, NEW A, ScanKeeps(A, n, text)
    PROVE  \E g : ScanSteps(g, A, n, text)
<1>0. DOMAIN Places(text) = 1 .. n /\ ScanStart \in A /\ \A x \in A, k \in 1 .. n : Scan(text, x, Places(text)[k]) \in A
  BY DEF ScanKeeps
<1>1. PICK step : step = [p \in A \X (1 .. n) |-> Scan(text, p[1], Places(text)[p[2]])]
  OBVIOUS
<1>2. \A x \in A, k \in 1 .. n : step[<<x, k>>] = Scan(text, x, Places(text)[k]) /\ step[<<x, k>>] \in A
  BY <1>0, <1>1
<1>3. PICK it \in [SUBSET (1 .. n) -> A] : Folding(it, n, ScanStart, step)
  <2>1. \A x \in A, k \in 1 .. n : step[<<x, k>>] \in A
    BY <1>2
  <2>2. QED
    BY <1>0, <2>1, FoldingExists, Zenon
<1>4. ScanFold(it, text, Places(text))
  <2>1. \A S \in SUBSET (1 .. n) : S # {} => Max(S) \in 1 .. n /\ it[S \ {Max(S)}] \in A
    BY <1>0, <1>3, LargestIs
  <2>2. PICK f : f = [S \in SUBSET (1 .. n) |->
                        IF S = {} THEN ScanStart ELSE Scan(text, it[S \ {Max(S)}], Places(text)[Max(S)])]
    OBVIOUS
  <2>3. ASSUME NEW S \in SUBSET (1 .. n) PROVE it[S] = f[S]
    <3>1. it[S] = IF S = {} THEN ScanStart ELSE step[<<it[S \ {Max(S)}], Max(S)>>]
      BY <1>3 DEF Folding
    <3>2. S # {} => step[<<it[S \ {Max(S)}], Max(S)>>] = Scan(text, it[S \ {Max(S)}], Places(text)[Max(S)])
      BY <1>2, <2>1
    <3>3. QED
      BY <2>2, <3>1, <3>2
  <2>4. it = f
    BY <1>3, <2>2, <2>3
  <2>5. QED
    BY <1>0, <2>2, <2>4 DEF ScanFold
<1>5. ExtractHashtags(text) = ((CHOOSE jt : ScanFold(jt, text, Places(text)))[DOMAIN Places(text)]).tags
  BY DEF ExtractHashtags, FoldLeft, MapThenFoldSet, ScanFold
<1>6. PICK jt : ScanFold(jt, text, Places(text)) /\ ExtractHashtags(text) = (jt[1 .. n]).tags
  BY <1>0, <1>4, <1>5
<1>7. jt[1 .. 0] = ScanStart
  <2>1. 1 .. 0 = {} /\ {} \in SUBSET (1 .. n)
    OBVIOUS
  <2>2. QED
    BY <1>0, <1>6, <2>1 DEF ScanFold
<1>8. ASSUME NEW k \in 1 .. n, jt[1 .. (k - 1)] \in A PROVE jt[1 .. k] = step[<<jt[1 .. (k - 1)], k>>]
  <2>1. 1 .. k \in SUBSET (1 .. n) /\ 1 .. k # {} /\ Max(1 .. k) = k /\ (1 .. k) \ {k} = 1 .. (k - 1)
    BY UpTo
  <2>2. jt[1 .. k] = Scan(text, jt[1 .. (k - 1)], Places(text)[k])
    BY <1>0, <1>6, <2>1 DEF ScanFold
  <2>3. QED
    BY <1>2, <1>8, <2>2
<1>9. PICK g : Course(g, n, A, ScanStart, step) /\ g[n] = jt[1 .. n]
  <2>1. Unfolds(jt, n, A, ScanStart, step)
    BY <1>0, <1>2, <1>7, <1>8 DEF Unfolds
  <2>2. QED
    BY <2>1, CourseExists
<1>10. g \in [0 .. n -> A] /\ g[0] = ScanStart /\ \A k \in 1 .. n : g[k] = step[<<g[k - 1], k>>]
  BY <1>9 DEF Course
<1>11. ASSUME NEW k \in 1 .. n PROVE g[k] = Scan(text, g[k - 1], Places(text)[k])
  <2>1. g[k - 1] \in A
    BY <1>10
  <2>2. QED
    BY <1>2, <1>10, <2>1
<1>12. QED
  BY <1>6, <1>9, <1>10, <1>11 DEF ScanSteps
-----------------------------------------------------------------------------
(* q has each member of S once and nothing else.                           *)
Lists(q, S) ==
    /\ q \in Seq(S)
    /\ \A i, j \in DOMAIN q : q[i] = q[j] => i = j
    /\ \A x \in S : \E i \in DOMAIN q : q[i] = x

LEMMA ListsNone == Lists(<<>>, {})
  BY DEF Lists

LEMMA ListsAppend ==
    ASSUME NEW S, NEW q, Lists(q, S), NEW e, e \notin S
    PROVE  Lists(Append(q, e), S \cup {e})
<1>1. PICK n \in Nat : n = Len(q) /\ DOMAIN q = 1 .. n /\ q \in Seq(S) /\ \A i \in 1 .. n : q[i] \in S
  BY DEF Lists
<1>2. PICK r : r = Append(q, e)
  OBVIOUS
<1>3. q \in Seq(S \cup {e})
  BY <1>1
<1>4. /\ r \in Seq(S \cup {e}) /\ DOMAIN r = 1 .. n + 1 /\ r[n + 1] = e
      /\ \A i \in 1 .. n : r[i] = q[i]
  BY <1>1, <1>2, <1>3
<1>5. \A i \in 1 .. n + 1 : i \in 1 .. n \/ i = n + 1
  BY <1>1
<1>6. \A i, j \in 1 .. n : q[i] = q[j] => i = j
  BY <1>1 DEF Lists
<1>7. ASSUME NEW i \in 1 .. n + 1, NEW j \in 1 .. n + 1, r[i] = r[j] PROVE i = j
  BY <1>1, <1>4, <1>5, <1>6, <1>7
<1>8. ASSUME NEW x \in S \cup {e} PROVE \E i \in 1 .. n + 1 : r[i] = x
  <2>1. CASE x = e
    BY <1>1, <1>4, <2>1
  <2>2. CASE x \in S
    <3>1. PICK i \in 1 .. n : q[i] = x
      BY <1>1, <2>2 DEF Lists
    <3>2. i \in 1 .. n + 1 /\ r[i] = x
      BY <1>4, <3>1
    <3>3. QED
      BY <3>2
  <2>3. QED
    BY <2>1, <2>2
<1>9. QED
  BY <1>2, <1>4, <1>7, <1>8 DEF Lists

(* The first k of a sequence's members.                                    *)
First(s, k) == {s[i] : i \in 1 .. k}

LEMMA FirstGrows ==
    ASSUME NEW s, NEW k \in Nat PROVE First(s, 0) = {} /\ First(s, k + 1) = First(s, k) \cup {s[k + 1]}
<1>1. First(s, 0) = {}
  BY DEF First
<1>2. \A i \in 1 .. k + 1 : i \in 1 .. k \/ i = k + 1
  OBVIOUS
<1>3. \A i \in 1 .. k : i \in 1 .. k + 1
  OBVIOUS
<1>4. k + 1 \in 1 .. k + 1
  OBVIOUS
<1>5. QED
  BY <1>1, <1>2, <1>3, <1>4 DEF First

(* Posts of a thread: their ids tell them apart.                           *)
ArePosts(T) == \A p \in T : /\ p.id \in Nat \ {0} /\ p.ts \in Int
                            /\ \A q \in T : p.id = q.id => p = q

(* Dedupe keeps each post once.                                          *)
LEMMA DedupeIs ==
    ASSUME NEW T, ArePosts(T), NEW n \in Nat, NEW s, DOMAIN s = 1 .. n, \A k \in 1 .. n : s[k] \in T
    PROVE  Lists(Dedupe(s), First(s, n))
<1>1. <<>> \in Seq(T) /\ \A x \in Seq(T), k \in 1 .. n : KeepFirst(x, s[k]) \in Seq(T)
  BY DEF KeepFirst
<1>2. PICK g : /\ g \in [0 .. n -> Seq(T)] /\ g[0] = <<>>
               /\ \A k \in 1 .. n : g[k] = KeepFirst(g[k - 1], s[k])
               /\ Dedupe(s) = g[n]
  <2>1. <<>> \in Seq(T)
    BY <1>1
  <2>2. \A x \in Seq(T), k \in 1 .. n : KeepFirst(x, s[k]) \in Seq(T)
    BY <1>1
  <2>3. KeepFirstKeeps(Seq(T), n, s)
    BY <2>1, <2>2 DEF KeepFirstKeeps
  <2>4. QED
    BY <2>3, KeepFirstCourse
<1> DEFINE Done == {m \in Nat : m <= n => Lists(g[m], First(s, m))}
<1>3. 0 \in Done
  BY <1>2, ListsNone, FirstGrows
<1>4. ASSUME NEW m \in Nat, m \in Done PROVE m + 1 \in Done
  <2> SUFFICES ASSUME m + 1 <= n PROVE Lists(g[m + 1], First(s, m + 1))
    OBVIOUS
  <2>1. Lists(g[m], First(s, m))
    BY <1>4
  <2>2. PICK k \in 1 .. n : k = m + 1 /\ k - 1 = m
    OBVIOUS
  <2>3. g[k] = KeepFirst(g[m], s[k])
    BY <1>2, <2>2
  <2>4. First(s, k) = First(s, m) \cup {s[k]}
    BY <2>2, FirstGrows
  <2>5. First(s, m) \subseteq T /\ s[k] \in T
    BY <2>2 DEF First
  <2>6. (\E i \in DOMAIN g[m] : g[m][i].id = s[k].id) <=> s[k] \in First(s, m)
    <3>1. PICK q : q = g[m]
      OBVIOUS
    <3>2. /\ \A i \in DOMAIN q : q[i] \in First(s, m)
          /\ \A x \in First(s, m) : \E i \in DOMAIN q : q[i] = x
      BY <2>1, <3>1 DEF Lists
    <3>3. \A x \in First(s, m) : x.id = s[k].id => x = s[k]
      BY <2>5 DEF ArePosts
    <3>4. (\E i \in DOMAIN q : q[i].id = s[k].id) => s[k] \in First(s, m)
      BY <3>2, <3>3
    <3>5. s[k] \in First(s, m) => \E i \in DOMAIN q : q[i].id = s[k].id
      BY <3>2
    <3>6. QED
      BY <3>1, <3>4, <3>5
  <2>7. CASE s[k] \in First(s, m)
    <3>1. g[k] = g[m]
      BY <2>3, <2>6, <2>7 DEF KeepFirst
    <3>2. First(s, k) = First(s, m)
      BY <2>4, <2>7
    <3>3. QED
      BY <2>1, <2>2, <3>1, <3>2
  <2>8. CASE s[k] \notin First(s, m)
    <3>1. g[k] = Append(g[m], s[k])
      BY <2>3, <2>6, <2>8 DEF KeepFirst
    <3>2. Lists(Append(g[m], s[k]), First(s, m) \cup {s[k]})
      BY <2>1, <2>8, ListsAppend
    <3>3. QED
      BY <2>2, <2>4, <3>1, <3>2
  <2>9. QED
    BY <2>7, <2>8
<1>5. n \in Done
  <2> HIDE DEF Done
  <2>1. Nat \subseteq Done
    BY <1>3, <1>4, NatInduct
  <2>2. QED
    BY <2>1
<1>6. n <= n
  OBVIOUS
<1>7. QED
  BY <1>2, <1>5, <1>6

(* The root is the least of the posts that may be one.                     *)
IsFirstRoot(p, S) ==
    /\ p \in S /\ isRootPost(p)
    /\ \A q \in S : isRootPost(q) => q = p \/ rootLess(p, q)

LEMMA rootLessOrders ==
    ASSUME NEW T, ArePosts(T)
    PROVE  /\ \A p, q \in T : p # q => rootLess(p, q) \/ rootLess(q, p)
           /\ \A p, q \in T : ~ (rootLess(p, q) /\ rootLess(q, p))
           /\ \A p, q, r \in T : rootLess(p, q) /\ rootLess(q, r) => rootLess(p, r)
<1>1. \A p \in T : p.id \in Int /\ p.ts \in Int
  BY DEF ArePosts
<1>2. \A p, q \in T : p.id = q.id => p = q
  BY DEF ArePosts
<1>3. ASSUME NEW p \in T, NEW q \in T PROVE (p # q => rootLess(p, q) \/ rootLess(q, p)) /\ ~ (rootLess(p, q) /\ rootLess(q, p))
  <2>1. PICK a \in Int, b \in Int, c \in Int, d \in Int : a = p.id /\ b = q.id /\ c = p.ts /\ d = q.ts
    BY <1>1
  <2>2. (rootLess(p, q) <=> c < d \/ (c = d /\ a < b)) /\ (rootLess(q, p) <=> d < c \/ (d = c /\ b < a))
    BY <2>1 DEF rootLess
  <2>3. p # q => a # b
    BY <1>2, <2>1
  <2>4. QED
    BY <2>2, <2>3
<1>4. ASSUME NEW p \in T, NEW q \in T, NEW r \in T, rootLess(p, q), rootLess(q, r) PROVE rootLess(p, r)
  <2>1. PICK a \in Int, b \in Int, c \in Int : a = p.id /\ b = q.id /\ c = r.id
    BY <1>1
  <2>2. PICK x \in Int, y \in Int, z \in Int : x = p.ts /\ y = q.ts /\ z = r.ts
    BY <1>1
  <2>3. (x < y \/ (x = y /\ a < b)) /\ (y < z \/ (y = z /\ b < c))
    BY <1>4, <2>1, <2>2 DEF rootLess
  <2>4. x < z \/ (x = z /\ a < c)
    BY <2>3
  <2>5. QED
    BY <2>1, <2>2, <2>4 DEF rootLess
<1>5. QED
  BY <1>3, <1>4

(* FirstRoot finds the least root, if there is one.                      *)
LEMMA FirstRootIs ==
    ASSUME NEW T, ArePosts(T), NEW n \in Nat, NEW s, DOMAIN s = 1 .. n, \A k \in 1 .. n : s[k] \in T
    PROVE  IF \E p \in First(s, n) : isRootPost(p)
           THEN IsFirstRoot(FirstRoot(s), First(s, n))
           ELSE FirstRoot(s) = NoRoot
<1>1. NoRoot \in T \cup {NoRoot} /\ \A x \in T \cup {NoRoot}, k \in 1 .. n : BetterRoot(x, s[k]) \in T \cup {NoRoot}
  BY DEF BetterRoot
<1>2. PICK g : /\ g \in [0 .. n -> T \cup {NoRoot}] /\ g[0] = NoRoot
               /\ \A k \in 1 .. n : g[k] = BetterRoot(g[k - 1], s[k])
               /\ FirstRoot(s) = g[n]
  <2>1. NoRoot \in T \cup {NoRoot}
    OBVIOUS
  <2>2. \A x \in T \cup {NoRoot}, k \in 1 .. n : BetterRoot(x, s[k]) \in T \cup {NoRoot}
    BY <1>1
  <2>3. BetterRootKeeps(T \cup {NoRoot}, n, s)
    BY <2>1, <2>2 DEF BetterRootKeeps
  <2>4. QED
    BY <2>3, BetterRootCourse
<1> DEFINE Best(p, S) == IF \E q \in S : isRootPost(q) THEN IsFirstRoot(p, S) ELSE p = NoRoot
           Done == {m \in Nat : m <= n => Best(g[m], First(s, m))}
<1>3. 0 \in Done
  <2>1. First(s, 0) = {}
    BY FirstGrows
  <2>2. QED
    BY <1>2, <2>1
<1>4. ASSUME NEW m \in Nat, m \in Done PROVE m + 1 \in Done
  <2> SUFFICES ASSUME m + 1 <= n PROVE Best(g[m + 1], First(s, m + 1))
    OBVIOUS
  <2>1. Best(g[m], First(s, m))
    BY <1>4
  <2>2. PICK k \in 1 .. n : k = m + 1 /\ k - 1 = m
    OBVIOUS
  <2>3. g[k] = BetterRoot(g[m], s[k])
    BY <1>2, <2>2
  <2>4. First(s, k) = First(s, m) \cup {s[k]}
    BY <2>2, FirstGrows
  <2>5. First(s, m) \subseteq T /\ s[k] \in T
    BY <2>2 DEF First
  <2>6. NoRoot.id = 0 /\ \A p \in T : p.id # 0
    BY DEF NoRoot, ArePosts
  <2>7. CASE ~isRootPost(s[k])
    <3>1. g[k] = g[m]
      BY <2>3, <2>7 DEF BetterRoot
    <3>2. Best(g[m], First(s, k))
      BY <2>1, <2>4, <2>7 DEF IsFirstRoot
    <3>3. QED
      BY <2>2, <3>1, <3>2
  <2>8. CASE isRootPost(s[k]) /\ ~ \E q \in First(s, m) : isRootPost(q)
    <3>1. g[m] = NoRoot /\ g[m].id = 0
      BY <2>1, <2>6, <2>8
    <3>2. g[k] = s[k]
      BY <2>3, <2>8, <3>1 DEF BetterRoot
    <3>3. IsFirstRoot(s[k], First(s, k))
      BY <2>4, <2>8 DEF IsFirstRoot
    <3>4. QED
      BY <2>2, <2>4, <2>8, <3>2, <3>3
  <2>9. CASE isRootPost(s[k]) /\ \E q \in First(s, m) : isRootPost(q)
    <3>1. PICK p \in T : p = g[m] /\ IsFirstRoot(p, First(s, m)) /\ p.id # 0
      BY <2>1, <2>5, <2>6, <2>9 DEF IsFirstRoot
    <3>2. g[k] = IF rootLess(s[k], p) THEN s[k] ELSE p
      BY <2>3, <2>9, <3>1 DEF BetterRoot
    <3>3. CASE rootLess(s[k], p)
      <4>1. \A q \in First(s, m) : isRootPost(q) => rootLess(s[k], q)
        BY <2>5, <3>1, <3>3, rootLessOrders DEF IsFirstRoot
      <4>2. IsFirstRoot(s[k], First(s, k))
        BY <2>4, <2>9, <4>1 DEF IsFirstRoot
      <4>3. QED
        BY <2>2, <2>4, <2>9, <3>2, <3>3, <4>2
    <3>4. CASE ~rootLess(s[k], p)
      <4>1. s[k] = p \/ rootLess(p, s[k])
        BY <2>5, <3>4, rootLessOrders
      <4>2. IsFirstRoot(p, First(s, k))
        BY <2>4, <3>1, <4>1 DEF IsFirstRoot
      <4>3. QED
        BY <2>2, <2>4, <2>9, <3>2, <3>4, <4>2
    <3>5. QED
      BY <3>3, <3>4
  <2>10. QED
    BY <2>7, <2>8, <2>9
<1>5. n \in Done
  <2> HIDE DEF Done
  <2>1. Nat \subseteq Done
    BY <1>3, <1>4, NatInduct
  <2>2. QED
    BY <2>1
<1>6. n <= n
  OBVIOUS
<1>7. QED
  BY <1>2, <1>5, <1>6

(* Organic keeps the people's posts, the root excepted.                  *)
LEMMA OrganicIs ==
    ASSUME NEW S, NEW n \in Nat, NEW s, Lists(s, S), DOMAIN s = 1 .. n, NEW root
    PROVE  Lists(Organic(s, root), {p \in S : p.id # root.id /\ ~IsSystemAuthor(p)})
<1> DEFINE Humans(P) == {p \in P : p.id # root.id /\ ~IsSystemAuthor(p)}
<1>1. DOMAIN s = 1 .. n /\ (\A k \in 1 .. n : s[k] \in S) /\ \A i, j \in 1 .. n : s[i] = s[j] => i = j
  BY DEF Lists
<1>2. PICK A : A = Seq(S)
  OBVIOUS
<1>3. PICK g : /\ g \in [0 .. n -> A] /\ g[0] = <<>>
               /\ \A k \in 1 .. n : g[k] = KeepOrganic(root, g[k - 1], s[k])
               /\ Organic(s, root) = g[n]
  <2>1. <<>> \in A
    BY <1>2
  <2>2. \A x \in A, k \in 1 .. n : KeepOrganic(root, x, s[k]) \in A
    BY <1>1, <1>2 DEF KeepOrganic
  <2>3. KeepOrganicKeeps(A, n, root, s)
    BY <1>1, <2>1, <2>2 DEF KeepOrganicKeeps
  <2>4. PICK g : KeepOrganicSteps(g, A, n, root, s)
    BY <2>3, KeepOrganicCourse
  <2>5. QED
    BY <2>4 DEF KeepOrganicSteps
<1> DEFINE Done == {m \in Nat : m <= n => Lists(g[m], Humans(First(s, m)))}
<1>4. 0 \in Done
  <2>1. Humans(First(s, 0)) = {}
    BY FirstGrows
  <2>2. QED
    BY <1>3, <2>1, ListsNone
<1>5. ASSUME NEW m \in Nat, m \in Done PROVE m + 1 \in Done
  <2> SUFFICES ASSUME m + 1 <= n PROVE Lists(g[m + 1], Humans(First(s, m + 1)))
    OBVIOUS
  <2>1. Lists(g[m], Humans(First(s, m)))
    BY <1>5
  <2>2. PICK k \in 1 .. n : k = m + 1 /\ k - 1 = m
    OBVIOUS
  <2>3. g[k] = KeepOrganic(root, g[m], s[k])
    BY <1>3, <2>2
  <2>4. First(s, k) = First(s, m) \cup {s[k]}
    BY <2>2, FirstGrows
  <2>5. s[k] \notin First(s, m)
    BY <1>1, <2>2 DEF First
  <2>6. CASE s[k].id = root.id \/ IsSystemAuthor(s[k])
    <3>1. g[k] = g[m]
      BY <2>3, <2>6 DEF KeepOrganic
    <3>2. Humans(First(s, k)) = Humans(First(s, m))
      BY <2>4, <2>6
    <3>3. QED
      BY <2>1, <2>2, <3>1, <3>2
  <2>7. CASE ~(s[k].id = root.id \/ IsSystemAuthor(s[k]))
    <3>1. g[k] = Append(g[m], s[k])
      BY <2>3, <2>7 DEF KeepOrganic
    <3>2. Humans(First(s, k)) = Humans(First(s, m)) \cup {s[k]} /\ s[k] \notin Humans(First(s, m))
      BY <2>4, <2>5, <2>7
    <3>3. Lists(Append(g[m], s[k]), Humans(First(s, m)) \cup {s[k]})
      BY <2>1, <3>2, ListsAppend
    <3>4. QED
      BY <2>2, <3>1, <3>2, <3>3
  <2>8. QED
    BY <2>6, <2>7
<1>6. n \in Done
  <2> HIDE DEF Done
  <2>1. Nat \subseteq Done
    BY <1>4, <1>5, NatInduct
  <2>2. QED
    BY <2>1
<1>7. First(s, n) = S
  BY <1>1 DEF First, Lists
<1>8. n <= n
  OBVIOUS
<1>9. QED
  BY <1>3, <1>6, <1>7, <1>8

LEMMA CountPlaces == ASSUME NEW n \in Nat PROVE IsFiniteSet(1 .. n) /\ Cardinality(1 .. n) = n
  BY FS_Interval

(* As many different places as there are: every place.                     *)
LEMMA PlacesAll ==
    ASSUME NEW n \in Nat, NEW at \in [1 .. n -> 1 .. n], \A i, j \in 1 .. n : i < j => at[i] # at[j]
    PROVE  \A k \in 1 .. n : \E i \in 1 .. n : at[i] = k
<1>1. \A i, j \in 1 .. n : at[i] = at[j] => i = j
  <2>1. ASSUME NEW i \in 1 .. n, NEW j \in 1 .. n, i # j PROVE at[i] # at[j]
    <3>1. i < j \/ j < i
      BY <2>1
    <3>2. QED
      BY <3>1
  <2>2. QED
    BY <2>1
<1>2. PICK Seen : Seen = {at[i] : i \in 1 .. n}
  OBVIOUS
<1>3. at \in Bijection(1 .. n, Seen) /\ Seen \in SUBSET (1 .. n)
  BY <1>1, <1>2 DEF Bijection, Injection, Surjection, IsInjective
<1>4. IsFiniteSet(1 .. n) /\ Cardinality(1 .. n) = n
  BY CountPlaces
<1>5. Cardinality(Seen) = n
  BY <1>3, <1>4, FS_Bijection DEF ExistsBijection
<1>6. Seen = 1 .. n
  BY <1>3, <1>4, <1>5, FS_Subset
<1>7. QED
  BY <1>2, <1>6

(* at names the places of s in an order that sort.Slice may choose.        *)
InOrderOf(at, s) == \A i, j \in DOMAIN s : i < j => at[i] # at[j] /\ ~rootLess(s[at[j]], s[at[i]])

(* Chronological keeps the posts and puts them in order.                 *)
LEMMA ChronologicalIs ==
    ASSUME NEW T, ArePosts(T), NEW S \in SUBSET T, NEW n \in Nat, NEW s, Lists(s, S), n = Len(s)
    PROVE  /\ Lists(Chronological(s), S)
           /\ \A i, j \in DOMAIN Chronological(s) :
                 i < j => rootLess(Chronological(s)[i], Chronological(s)[j])
<1>1. /\ DOMAIN s = 1 .. n /\ s \in Seq(S) /\ (\A k \in 1 .. n : s[k] \in T /\ s[k] \in S)
      /\ \A i, j \in 1 .. n : s[i] = s[j] => i = j
      /\ \A x \in S : \E i \in 1 .. n : s[i] = x
  BY DEF Lists
<1>2. \E at \in [1 .. n -> 1 .. n] : InOrderOf(at, s)
  <2>1. PICK Less : Less = {p \in (1 .. n) \X (1 .. n) : rootLess(s[p[1]], s[p[2]])}
    OBVIOUS
  <2>2. \A i, j \in 1 .. n : <<i, j>> \in Less <=> rootLess(s[i], s[j])
    BY <2>1
  <2>3. \A i, j \in 1 .. n : i # j => <<i, j>> \in Less \/ <<j, i>> \in Less
    BY <1>1, <2>2, rootLessOrders
  <2>4. \A i, j \in 1 .. n : ~ (<<i, j>> \in Less /\ <<j, i>> \in Less)
    BY <1>1, <2>2, rootLessOrders
  <2>5. \A i, j, k \in 1 .. n : <<i, j>> \in Less /\ <<j, k>> \in Less => <<i, k>> \in Less
    <3>1. ASSUME NEW i \in 1 .. n, NEW j \in 1 .. n, NEW k \in 1 .. n, <<i, j>> \in Less, <<j, k>> \in Less
          PROVE  <<i, k>> \in Less
      <4>1. rootLess(s[i], s[j]) /\ rootLess(s[j], s[k])
        BY <2>2, <3>1
      <4>2. rootLess(s[i], s[k])
        BY <1>1, <4>1, rootLessOrders
      <4>3. QED
        BY <2>2, <4>2
    <3>2. QED
      BY <3>1
  <2>6. IsFiniteSet(1 .. n) /\ Cardinality(1 .. n) = n
    BY CountPlaces
  <2>7. PICK at \in [1 .. n -> 1 .. n] : \A i, j \in 1 .. n : i < j => <<at[i], at[j]>> \in Less
    BY <2>3, <2>4, <2>5, <2>6, ListingExists
  <2>8. ASSUME NEW i \in 1 .. n, NEW j \in 1 .. n, i < j PROVE at[i] # at[j] /\ ~rootLess(s[at[j]], s[at[i]])
    <3>1. <<at[i], at[j]>> \in Less /\ at[i] \in 1 .. n /\ at[j] \in 1 .. n
      BY <2>7, <2>8
    <3>2. <<at[j], at[i]>> \notin Less
      BY <2>4, <3>1
    <3>3. at[i] # at[j]
      BY <3>1, <3>2
    <3>4. QED
      BY <2>2, <3>1, <3>2, <3>3
  <2>9. QED
    BY <1>1, <2>8 DEF InOrderOf
<1>3. PICK at \in [1 .. n -> 1 .. n] : InOrderOf(at, s) /\ Chronological(s) = [i \in 1 .. n |-> s[at[i]]]
  <2>1. PICK at : at = CHOOSE b \in [1 .. n -> 1 .. n] : InOrderOf(b, s)
    OBVIOUS
  <2>2. at \in [1 .. n -> 1 .. n] /\ InOrderOf(at, s)
    BY <1>2, <2>1
  <2>3. Chronological(s) = [i \in 1 .. n |-> s[at[i]]]
    BY <1>1, <2>1 DEF Chronological, InOrderOf
  <2>4. QED
    BY <2>2, <2>3
<1>3a. /\ \A i, j \in 1 .. n : i < j => at[i] # at[j]
       /\ \A i, j \in 1 .. n : i < j => ~rootLess(s[at[j]], s[at[i]])
  BY <1>1, <1>3 DEF InOrderOf
<1>4. PICK r : r = Chronological(s) /\ DOMAIN r = 1 .. n /\ \A i \in 1 .. n : r[i] = s[at[i]]
  BY <1>3
<1>5. r \in Seq(S)
  <2>1. r \in [1 .. n -> S]
    BY <1>1, <1>3, <1>4
  <2>2. QED
    BY <2>1
<1>6. \A k \in 1 .. n : \E i \in 1 .. n : at[i] = k
  <2>1. at \in [1 .. n -> 1 .. n]
    BY <1>3
  <2>2. \A i, j \in 1 .. n : i < j => at[i] # at[j]
    BY <1>3a
  <2>3. QED
    BY <2>1, <2>2, PlacesAll
<1>7. \A i, j \in 1 .. n : r[i] = r[j] => i = j
  <2>1. ASSUME NEW i \in 1 .. n, NEW j \in 1 .. n, r[i] = r[j], i # j PROVE FALSE
    <3>1. at[i] = at[j]
      BY <1>1, <1>4, <2>1
    <3>2. i < j \/ j < i
      BY <2>1
    <3>3. QED
      BY <1>3a, <3>1, <3>2
  <2>2. QED
    BY <2>1
<1>8. \A x \in S : \E i \in 1 .. n : r[i] = x
  <2>1. ASSUME NEW x \in S PROVE \E i \in 1 .. n : r[i] = x
    <3>1. PICK k \in 1 .. n : s[k] = x
      BY <1>1
    <3>2. PICK i \in 1 .. n : at[i] = k
      BY <1>6
    <3>3. QED
      BY <1>4, <3>1, <3>2
  <2>2. QED
    BY <2>1
<1>9. ASSUME NEW i \in 1 .. n, NEW j \in 1 .. n, i < j PROVE rootLess(r[i], r[j])
  <2>1. at[i] # at[j] /\ ~rootLess(s[at[j]], s[at[i]]) /\ at[i] \in 1 .. n /\ at[j] \in 1 .. n
    BY <1>3, <1>3a, <1>9
  <2>2. s[at[i]] # s[at[j]] /\ s[at[i]] \in T /\ s[at[j]] \in T
    BY <1>1, <2>1
  <2>3. rootLess(s[at[i]], s[at[j]])
    BY <2>1, <2>2, rootLessOrders
  <2>4. QED
    BY <1>4, <2>3
<1>10. QED
  BY <1>4, <1>5, <1>7, <1>8, <1>9 DEF Lists

(* AddTag adds one tag.                                                  *)
LEMMA AddTagIs ==
    ASSUME NEW S, NEW q, Lists(q, S), NEW t
    PROVE  Lists(AddTag(q, t), S \cup {t})
<1>1. /\ \A i \in DOMAIN q : q[i] \in S
      /\ \A x \in S : \E i \in DOMAIN q : q[i] = x
  BY DEF Lists
<1>2. CASE t \in S
  <2>1. AddTag(q, t) = q /\ S \cup {t} = S
    BY <1>1, <1>2 DEF AddTag
  <2>2. QED
    BY <2>1
<1>3. CASE t \notin S
  <2>1. AddTag(q, t) = Append(q, t)
    BY <1>1, <1>3 DEF AddTag
  <2>2. QED
    BY <1>3, <2>1, ListsAppend
<1>4. QED
  BY <1>2, <1>3

(* AddTags adds all of them.                                             *)
LEMMA AddTagsIs ==
    ASSUME NEW S, NEW out, Lists(out, S), NEW n \in Nat, NEW s, DOMAIN s = 1 .. n
    PROVE  Lists(AddTags(out, s), S \cup First(s, n))
<1> DEFINE A == Seq(S \cup First(s, n))
<1>1. out \in A /\ \A k \in 1 .. n : s[k] \in First(s, n)
  BY DEF Lists, First
<1>2. \A x \in A, k \in 1 .. n : AddTag(x, s[k]) \in A
  BY <1>1 DEF AddTag
<1>3. PICK g : /\ g \in [0 .. n -> A] /\ g[0] = out
               /\ \A k \in 1 .. n : g[k] = AddTag(g[k - 1], s[k])
               /\ AddTags(out, s) = g[n]
  <2>1. AddTagKeeps(A, n, out, s)
    BY <1>1, <1>2 DEF AddTagKeeps
  <2>2. QED
    BY <2>1, AddTagCourse
<1> DEFINE Done == {m \in Nat : m <= n => Lists(g[m], S \cup First(s, m))}
<1>4. 0 \in Done
  <2>1. S \cup First(s, 0) = S
    BY FirstGrows
  <2>2. QED
    BY <1>3, <2>1
<1>5. ASSUME NEW m \in Nat, m \in Done PROVE m + 1 \in Done
  <2> SUFFICES ASSUME m + 1 <= n PROVE Lists(g[m + 1], S \cup First(s, m + 1))
    OBVIOUS
  <2>1. PICK Q : Q = S \cup First(s, m) /\ Lists(g[m], Q)
    BY <1>5
  <2>2. PICK k \in 1 .. n : k = m + 1 /\ k - 1 = m
    OBVIOUS
  <2>3. g[k] = AddTag(g[m], s[k])
    BY <1>3, <2>2
  <2>4. S \cup First(s, k) = Q \cup {s[k]}
    BY <2>1, <2>2, FirstGrows
  <2>5. Lists(AddTag(g[m], s[k]), Q \cup {s[k]})
    BY <2>1, AddTagIs
  <2>6. QED
    BY <2>2, <2>3, <2>4, <2>5
<1>6. n \in Done
  <2> HIDE DEF Done
  <2>1. Nat \subseteq Done
    BY <1>4, <1>5, NatInduct
  <2>2. QED
    BY <2>1
<1>7. n <= n
  OBVIOUS
<1>8. QED
  BY <1>3, <1>6, <1>7
-----------------------------------------------------------------------------
(* The tags of a text, by the place of their #.                            *)
Starts(text, i) == text[i] = "#" /\ (i > 1 => ~isTagChar(text[i - 1]))
Tagged(text, k) == {i \in 1 .. k : Starts(text, i) /\ TagEnd(text, i) > i}
TagAt(text, i) == SubSeq(text, i + 1, TagEnd(text, i))
TagsTo(text, k) == {TagAt(text, i) : i \in Tagged(text, k)}

(* Every tag character after the rune at i, and no rune more.              *)
LEMMA TagEndIs ==
    ASSUME NEW text, NEW n \in Nat, DOMAIN text = 1 .. n, Len(text) = n, NEW i \in 1 .. n
    PROVE  /\ TagEnd(text, i) \in i .. n
           /\ \A k \in i + 1 .. TagEnd(text, i) : isTagChar(text[k])
           /\ TagEnd(text, i) < n => ~isTagChar(text[TagEnd(text, i) + 1])
<1>1. PICK stops : stops = {j \in i + 1 .. n : ~isTagChar(text[j])}
  OBVIOUS
<1>2. CASE stops = {}
  <2>1. TagEnd(text, i) = n
    BY <1>1, <1>2 DEF TagEnd
  <2>2. QED
    BY <1>1, <1>2, <2>1
<1>3. CASE stops # {}
  <2>1. \E j \in stops : \A k \in stops : j <= k
    <3>1. stops \subseteq Nat
      BY <1>1
    <3>2. QED
      BY <1>3, <3>1, LeastNat
  <2>2. PICK j : j = CHOOSE h \in stops : \A k \in stops : h <= k
    OBVIOUS
  <2>3. j \in stops /\ \A k \in stops : j <= k
    BY <2>1, <2>2
  <2>4. TagEnd(text, i) = j - 1
    BY <1>1, <1>3, <2>2 DEF TagEnd
  <2>5. j \in i + 1 .. n /\ ~isTagChar(text[j])
    BY <1>1, <2>3
  <2>6. PICK e \in Int : e = j - 1 /\ e + 1 = j
    BY <2>5
  <2>7. ASSUME NEW k \in i + 1 .. e PROVE isTagChar(text[k])
    <3>1. k \in i + 1 .. n /\ ~ (j <= k)
      BY <2>5, <2>6
    <3>2. QED
      BY <1>1, <2>3, <3>1
  <2>8. e \in i .. n
    BY <2>5, <2>6
  <2>9. QED
    BY <2>4, <2>5, <2>6, <2>7, <2>8
<1>4. QED
  BY <1>2, <1>3

(* The tags the scan reads are the intervals that the definition names.    *)
LEMMA TagsInAre ==
    ASSUME NEW text, NEW n \in Nat, DOMAIN text = 1 .. n, Len(text) = n
    PROVE  TagsIn(text) = TagsTo(text, n)
<1> DEFINE IsTag(b, e) ==
             /\ text[b] = "#" /\ (b > 1 => ~isTagChar(text[b - 1])) /\ b < e
             /\ \A k \in b + 1 .. e : isTagChar(text[k])
             /\ e < n => ~isTagChar(text[e + 1])
<1>1. ASSUME NEW b \in 1 .. n, NEW e \in 1 .. n
      PROVE  IsTag(b, e) <=> b \in Tagged(text, n) /\ e = TagEnd(text, b)
  <2>1. PICK f \in Int : f = TagEnd(text, b) /\ f \in b .. n
    BY TagEndIs
  <2>2. (\A k \in b + 1 .. f : isTagChar(text[k])) /\ (f < n => ~isTagChar(text[f + 1]))
    BY <2>1, TagEndIs
  <2>3. ASSUME IsTag(b, e) PROVE e = f
    <3>1. \A k \in b + 1 .. e : isTagChar(text[k])
      BY <2>3
    <3>2. e < n => ~isTagChar(text[e + 1])
      BY <2>3
    <3>3. b < e
      BY <2>3
    <3>4. ~ (e < f)
      <4>1. SUFFICES ASSUME e < f PROVE FALSE
        OBVIOUS
      <4>2. e + 1 \in b + 1 .. f /\ e < n
        BY <2>1, <3>3, <4>1
      <4>3. QED
        BY <2>2, <3>2, <4>2
    <3>5. ~ (f < e)
      <4>1. SUFFICES ASSUME f < e PROVE FALSE
        OBVIOUS
      <4>2. f + 1 \in b + 1 .. e /\ f < n
        BY <2>1, <4>1
      <4>3. QED
        BY <2>2, <3>1, <4>2
    <3>6. QED
      BY <2>1, <3>4, <3>5
  <2>4. IsTag(b, e) => Starts(text, b) /\ b < e
    BY DEF Starts
  <2>5. Starts(text, b) /\ b < f => IsTag(b, f)
    BY <2>2 DEF Starts
  <2>6. b \in Tagged(text, n) <=> Starts(text, b) /\ b < f
    BY <2>1 DEF Tagged
  <2>7. QED
    BY <2>1, <2>3, <2>4, <2>5, <2>6
<1>2. PICK Pairs : Pairs = {be \in (1 .. n) \X (1 .. n) : IsTag(be[1], be[2])}
  OBVIOUS
<1>3. TagsIn(text) = {SubSeq(text, be[1] + 1, be[2]) : be \in Pairs}
  BY <1>2 DEF TagsIn
<1> HIDE DEF IsTag
<1>4. ASSUME NEW t \in TagsIn(text) PROVE t \in TagsTo(text, n)
  <2>1. PICK be \in Pairs : t = SubSeq(text, be[1] + 1, be[2])
    BY <1>3, <1>4
  <2>2. PICK b \in 1 .. n, e \in 1 .. n : b = be[1] /\ e = be[2] /\ IsTag(b, e)
    BY <1>2, <2>1
  <2>3. b \in Tagged(text, n) /\ e = TagEnd(text, b)
    BY <1>1, <2>2
  <2>4. QED
    BY <2>1, <2>2, <2>3 DEF TagsTo, TagAt
<1>5. ASSUME NEW t \in TagsTo(text, n) PROVE t \in TagsIn(text)
  <2>1. PICK b \in Tagged(text, n) : t = TagAt(text, b)
    BY <1>5 DEF TagsTo
  <2>2. b \in 1 .. n
    BY DEF Tagged
  <2>3. PICK e \in 1 .. n : e = TagEnd(text, b)
    BY <2>2, TagEndIs
  <2>4. IsTag(b, e)
    BY <1>1, <2>1, <2>2, <2>3
  <2>5. PICK be \in Pairs : be = <<b, e>>
    BY <1>2, <2>2, <2>4
  <2>6. t = SubSeq(text, be[1] + 1, be[2])
    BY <2>1, <2>3, <2>5 DEF TagAt
  <2>7. QED
    BY <1>3, <2>5, <2>6
<1>6. QED
  BY <1>4, <1>5

LEMMA TagsToGrow ==
    ASSUME NEW text, NEW k \in Nat
    PROVE  /\ TagsTo(text, 0) = {}
           /\ TagsTo(text, k + 1) = TagsTo(text, k) \cup
                (IF Starts(text, k + 1) /\ TagEnd(text, k + 1) > k + 1 THEN {TagAt(text, k + 1)} ELSE {})
<1>1. Tagged(text, 0) = {}
  BY DEF Tagged
<1>2. Tagged(text, k + 1) = Tagged(text, k) \cup
        (IF Starts(text, k + 1) /\ TagEnd(text, k + 1) > k + 1 THEN {k + 1} ELSE {})
  <2>1. \A i : i \in 1 .. k + 1 <=> i \in 1 .. k \/ i = k + 1
    OBVIOUS
  <2>2. QED
    BY <2>1 DEF Tagged
<1>3. QED
  BY <1>1, <1>2 DEF TagsTo

(* Where the scan is after k runes, and what it has found.                 *)
ScanSound(st, text, k) ==
    /\ Lists(st.tags, TagsTo(text, k))
    /\ \A p \in k + 1 .. st.at - 1 : isTagChar(text[p])

(* One rune of the scan.                                                 *)
LEMMA ScanStep ==
    ASSUME NEW text, NEW n \in Nat, DOMAIN text = 1 .. n, Len(text) = n, "#" \notin TagChars,
           NEW k \in Nat, k + 1 \in 1 .. n, NEW st, st.at \in 1 .. n + 1, ScanSound(st, text, k)
    PROVE  ScanSound(Scan(text, st, k + 1), text, k + 1)
<1>1. PICK i \in 1 .. n : i = k + 1
  OBVIOUS
<1>2. Lists(st.tags, TagsTo(text, k)) /\ \A p \in i .. st.at - 1 : isTagChar(text[p])
  BY <1>1 DEF ScanSound
<1>3. PICK a \in 1 .. n + 1 : a = st.at
  OBVIOUS
<1>4. TagsTo(text, i) = TagsTo(text, k) \cup (IF Starts(text, i) /\ TagEnd(text, i) > i THEN {TagAt(text, i)} ELSE {})
  BY <1>1, TagsToGrow
<1>5. CASE i < a \/ ~Starts(text, i)
  <2>1. ~Starts(text, i)
    <3>1. CASE i < a
      <4>1. i \in i .. a - 1
        BY <3>1
      <4>2. isTagChar(text[i])
        BY <1>2, <1>3, <4>1
      <4>3. QED
        BY <4>2 DEF isTagChar, Starts
    <3>2. QED
      BY <1>5, <3>1
  <2>2. Scan(text, st, i) = st
    BY <1>3, <1>5 DEF Scan, Starts
  <2>3. TagsTo(text, i) = TagsTo(text, k)
    BY <1>4, <2>1
  <2>4. \A p \in i + 1 .. st.at - 1 : isTagChar(text[p])
    BY <1>2, <1>3
  <2>5. ScanSound(st, text, i)
    BY <1>2, <2>3, <2>4 DEF ScanSound
  <2>6. QED
    BY <1>1, <2>2, <2>5
<1>6. CASE ~ (i < a) /\ Starts(text, i)
  <2>1. PICK j \in Int : j = TagEnd(text, i) /\ j \in i .. n /\ \A p \in i + 1 .. j : isTagChar(text[p])
    <3>1. TagEnd(text, i) \in i .. n
      BY TagEndIs
    <3>2. \A p \in i + 1 .. TagEnd(text, i) : isTagChar(text[p])
      BY TagEndIs
    <3>3. QED
      BY <3>1, <3>2
  <2>2. PICK next : next = Scan(text, st, i)
    OBVIOUS
  <2>3. next.at = j + 1 /\ next.tags = IF j > i THEN AddTag(st.tags, TagAt(text, i)) ELSE st.tags
    BY <1>3, <1>6, <2>1, <2>2 DEF Scan, Starts, TagAt
  <2>4. next.at - 1 = j
    BY <2>1, <2>3
  <2>5. \A p \in i + 1 .. next.at - 1 : isTagChar(text[p])
    BY <2>1, <2>4
  <2>6. Lists(next.tags, TagsTo(text, i))
    <3>1. CASE j > i
      <4>1. TagsTo(text, i) = TagsTo(text, k) \cup {TagAt(text, i)} /\ next.tags = AddTag(st.tags, TagAt(text, i))
        BY <1>4, <1>6, <2>1, <2>3, <3>1
      <4>2. QED
        BY <1>2, <4>1, AddTagIs
    <3>2. CASE ~ (j > i)
      BY <1>2, <1>4, <2>1, <2>3, <3>2
    <3>3. QED
      BY <3>1, <3>2
  <2>7. QED
    BY <1>1, <2>2, <2>5, <2>6 DEF ScanSound
<1>7. QED
  BY <1>5, <1>6

(* ExtractHashtags finds the tags of a text, each once.                  *)
LEMMA ExtractHashtagsIs ==
    ASSUME NEW text, NEW n \in Nat, DOMAIN text = 1 .. n, Len(text) = n, "#" \notin TagChars
    PROVE  Lists(ExtractHashtags(text), TagsIn(text))
<1>1. PICK Ends : Ends = [at : 1 .. n + 1, tags : Seq(TagsTo(text, n))]
  OBVIOUS
<1>2. \A k \in 1 .. n : Places(text)[k] = k /\ DOMAIN Places(text) = 1 .. n
  BY DEF Places
<1>3. ScanStart \in Ends
  BY <1>1 DEF ScanStart
<1>4. ASSUME NEW st \in Ends, NEW i \in 1 .. n PROVE Scan(text, st, i) \in Ends
  <2>1. st.at \in 1 .. n + 1 /\ st.tags \in Seq(TagsTo(text, n)) 
    BY <1>1
  <2>2. CASE i < st.at \/ ~Starts(text, i)
    BY <2>2 DEF Scan, Starts
  <2>3. CASE ~ (i < st.at) /\ Starts(text, i)
    <3>1. PICK j \in i .. n : j = TagEnd(text, i)
      BY TagEndIs
    <3>2. Scan(text, st, i) = [at |-> j + 1, tags |-> IF j > i THEN AddTag(st.tags, TagAt(text, i)) ELSE st.tags]
      BY <2>3, <3>1 DEF Scan, Starts, TagAt
    <3>3. j > i => TagAt(text, i) \in TagsTo(text, n)
      BY <2>3, <3>1 DEF TagsTo, Tagged
    <3>4. j > i => AddTag(st.tags, TagAt(text, i)) \in Seq(TagsTo(text, n))
      BY <2>1, <3>3 DEF AddTag
    <3>5. j + 1 \in 1 .. n + 1
      BY <3>1
    <3>6. PICK tags \in Seq(TagsTo(text, n)) : Scan(text, st, i) = [at |-> j + 1, tags |-> tags]
      BY <2>1, <3>2, <3>4
    <3>7. QED
      BY <1>1, <3>5, <3>6
  <2>4. QED
    BY <2>2, <2>3
<1>5. PICK g : /\ g \in [0 .. n -> Ends] /\ g[0] = ScanStart
               /\ \A k \in 1 .. n : g[k] = Scan(text, g[k - 1], k)
               /\ ExtractHashtags(text) = (g[n]).tags
  <2>1. DOMAIN Places(text) = 1 .. n
    BY DEF Places
  <2>2. ScanKeeps(Ends, n, text)
    BY <1>2, <1>3, <1>4, <2>1 DEF ScanKeeps
  <2>3. PICK g : ScanSteps(g, Ends, n, text)
    BY <2>2, ScanCourse
  <2>4. QED
    BY <1>2, <2>3 DEF ScanSteps
<1> DEFINE Done == {m \in Nat : m <= n => ScanSound(g[m], text, m)}
<1>6. 0 \in Done
  <2>1. g[0].at = 1 /\ g[0].tags = <<>>
    BY <1>5 DEF ScanStart
  <2>2. TagsTo(text, 0) = {}
    BY TagsToGrow
  <2>3. Lists(g[0].tags, TagsTo(text, 0))
    BY <2>1, <2>2, ListsNone
  <2>4. QED
    BY <2>1, <2>3 DEF ScanSound
<1>7. ASSUME NEW m \in Nat, m \in Done PROVE m + 1 \in Done
  <2> SUFFICES ASSUME m + 1 <= n PROVE ScanSound(g[m + 1], text, m + 1)
    OBVIOUS
  <2>1. ScanSound(g[m], text, m)
    BY <1>7
  <2>2. m + 1 \in 1 .. n /\ (m + 1) - 1 = m /\ m \in 0 .. n
    OBVIOUS
  <2>3. g[m + 1] = Scan(text, g[m], m + 1)
    BY <1>5, <2>2
  <2>4. g[m].at \in 1 .. n + 1
    BY <1>1, <1>5, <2>2
  <2>5. ScanSound(Scan(text, g[m], m + 1), text, m + 1)
    BY <2>1, <2>2, <2>4, ScanStep
  <2>6. QED
    BY <2>3, <2>5
<1>8. n \in Done
  <2> HIDE DEF Done
  <2>1. Nat \subseteq Done
    BY <1>6, <1>7, NatInduct
  <2>2. QED
    BY <2>1
<1>9. n <= n
  OBVIOUS
<1>10. QED
  BY <1>5, <1>8, <1>9, TagsInAre DEF ScanSound

(* The tags of the first k posts.                                          *)
TagsOf(s, k) == UNION {TagsIn(Text[s[i]]) : i \in 1 .. k}

LEMMA TagsOfGrow ==
    ASSUME NEW s, NEW k \in Nat
    PROVE  TagsOf(s, 0) = {} /\ TagsOf(s, k + 1) = TagsOf(s, k) \cup TagsIn(Text[s[k + 1]])
<1>1. TagsOf(s, 0) = {}
  BY DEF TagsOf
<1>2. \A i : i \in 1 .. k + 1 <=> i \in 1 .. k \/ i = k + 1
  OBVIOUS
<1>3. QED
  BY <1>1, <1>2 DEF TagsOf

LEMMA ListsAll ==
    ASSUME NEW q, NEW S, Lists(q, S)
    PROVE  /\ First(q, Len(q)) = S /\ DOMAIN q = 1 .. Len(q) /\ Len(q) \in Nat
           /\ ToSet(q) = S /\ Cardinality(S) = Len(q)
<1>1. PICK n \in Nat : n = Len(q) /\ DOMAIN q = 1 .. n
  BY DEF Lists
<1>2. /\ \A i \in 1 .. n : q[i] \in S
      /\ \A i, j \in 1 .. n : q[i] = q[j] => i = j
      /\ \A x \in S : \E i \in 1 .. n : q[i] = x
  BY <1>1 DEF Lists
<1>3. First(q, n) = S
  BY <1>2 DEF First
<1>4. ToSet(q) = S
  BY <1>1, <1>2 DEF ToSet
<1>5. q \in Bijection(1 .. n, S)
  <2>1. q \in [1 .. n -> S]
    BY <1>1, <1>2 DEF Lists
  <2>2. QED
    BY <1>2, <2>1 DEF Bijection, Injection, Surjection, IsInjective
<1>6. Cardinality(S) = n
  <2>1. IsFiniteSet(1 .. n) /\ Cardinality(1 .. n) = n
    BY CountPlaces
  <2>2. QED
    BY <1>5, <2>1, FS_Bijection DEF ExistsBijection
<1>7. QED
  BY <1>1, <1>3, <1>4, <1>6

(* HashtagsOf unites the tags of the posts.                              *)
LEMMA HashtagsOfIs ==
    ASSUME NEW n \in Nat, NEW s, DOMAIN s = 1 .. n, "#" \notin TagChars,
           \A k \in 1 .. n : Text[s[k]] \in Seq(Runes)
    PROVE  Lists(HashtagsOf(s), TagsOf(s, n))
<1>1. PICK All : All = TagsOf(s, n)
  OBVIOUS
<1>2. PICK A : A = {q \in Seq(All) : \E S \in SUBSET All : Lists(q, S)}
  OBVIOUS
<1>3. ASSUME NEW k \in 1 .. n PROVE Lists(ExtractHashtags(Text[s[k]]), TagsIn(Text[s[k]]))
  <2>0. PICK text : text = Text[s[k]] /\ text \in Seq(Runes)
    OBVIOUS
  <2>1. PICK m \in Nat : DOMAIN text = 1 .. m /\ Len(text) = m
    BY <2>0
  <2>2. Lists(ExtractHashtags(text), TagsIn(text))
    BY <2>1, ExtractHashtagsIs
  <2>3. QED
    BY <2>0, <2>2
<1>4. ASSUME NEW k \in 1 .. n, NEW q, NEW S, Lists(q, S)
      PROVE  Lists(AddTags(q, ExtractHashtags(Text[s[k]])), S \cup TagsIn(Text[s[k]]))
  <2>1. PICK e, Q : e = ExtractHashtags(Text[s[k]]) /\ Q = TagsIn(Text[s[k]]) /\ Lists(e, Q)
    BY <1>3
  <2>2. PICK m \in Nat : m = Len(e) /\ DOMAIN e = 1 .. m /\ First(e, m) = Q
    BY <2>1, ListsAll
  <2>3. Lists(AddTags(q, e), S \cup First(e, m))
    BY <1>4, <2>2, AddTagsIs
  <2>4. QED
    BY <2>1, <2>2, <2>3
<1>5. \A k \in 1 .. n : TagsIn(Text[s[k]]) \subseteq All
  BY <1>1 DEF TagsOf
<1>6. <<>> \in A
  <2>1. Lists(<<>>, {}) /\ {} \in SUBSET All /\ <<>> \in Seq(All)
    BY ListsNone
  <2>2. QED
    BY <1>2, <2>1
<1>7. ASSUME NEW x \in A, NEW k \in 1 .. n PROVE AddTags(x, ExtractHashtags(Text[s[k]])) \in A
  <2>1. PICK S \in SUBSET All : Lists(x, S)
    BY <1>2
  <2>2. PICK q, Q : q = AddTags(x, ExtractHashtags(Text[s[k]])) /\ Q = S \cup TagsIn(Text[s[k]]) /\ Lists(q, Q)
    BY <1>4, <2>1
  <2>3. Q \in SUBSET All
    BY <1>5, <2>2
  <2>4. q \in Seq(All)
    BY <2>2, <2>3 DEF Lists
  <2>5. QED
    BY <1>2, <2>2, <2>3, <2>4
<1>8. PICK g : AddTagsOfSteps(g, A, n, s)
  <2>1. AddTagsOfKeeps(A, n, s)
    BY <1>6, <1>7 DEF AddTagsOfKeeps
  <2>2. QED
    BY <2>1, AddTagsOfCourse
<1>9. /\ g[0] = <<>> /\ HashtagsOf(s) = g[n]
      /\ \A k \in 1 .. n : g[k] = AddTags(g[k - 1], ExtractHashtags(Text[s[k]]))
  BY <1>8 DEF AddTagsOfSteps
<1> DEFINE Done == {m \in Nat : m <= n => Lists(g[m], TagsOf(s, m))}
<1>10. 0 \in Done
  BY <1>9, ListsNone, TagsOfGrow
<1>11. ASSUME NEW m \in Nat, m \in Done PROVE m + 1 \in Done
  <2> SUFFICES ASSUME m + 1 <= n PROVE Lists(g[m + 1], TagsOf(s, m + 1))
    OBVIOUS
  <2>1. Lists(g[m], TagsOf(s, m))
    BY <1>11
  <2>2. PICK k \in 1 .. n : k = m + 1 /\ k - 1 = m
    OBVIOUS
  <2>3. g[k] = AddTags(g[m], ExtractHashtags(Text[s[k]]))
    BY <1>9, <2>2
  <2>4. TagsOf(s, k) = TagsOf(s, m) \cup TagsIn(Text[s[k]])
    BY <2>2, TagsOfGrow
  <2>5. Lists(AddTags(g[m], ExtractHashtags(Text[s[k]])), TagsOf(s, m) \cup TagsIn(Text[s[k]]))
    BY <1>4, <2>1
  <2>6. QED
    BY <2>2, <2>3, <2>4, <2>5
<1>12. n \in Done
  <2> HIDE DEF Done
  <2>1. Nat \subseteq Done
    BY <1>10, <1>11, NatInduct
  <2>2. QED
    BY <2>1
<1>13. n <= n
  OBVIOUS
<1>14. QED
  BY <1>9, <1>12, <1>13

-----------------------------------------------------------------------------
(* What Assemble makes of posts.                                           *)
Replies(seen, root) == {p \in seen : p.id # root.id /\ ~IsSystemAuthor(p)}
Built(t, root, replies, seen) ==
    /\ IsFirstRoot(root, seen)
    /\ Lists(replies, Replies(seen, root))
    /\ \A i, j \in DOMAIN replies : i < j => rootLess(replies[i], replies[j])
    /\ t = [root |-> root.id, replies |-> [i \in DOMAIN replies |-> replies[i].id], error |-> "none"]

LEMMA AssembleIs ==
    ASSUME NEW T, ArePosts(T), NEW posts \in Seq(T), NEW seen, seen = First(posts, Len(posts))
    PROVE  \/ Assemble(posts) = Failed("no_posts") /\ seen = {}
           \/ Assemble(posts) = Failed("missing_root") /\ seen # {} /\ ~ \E p \in seen : isRootPost(p)
           \/ \E root, replies : Built(Assemble(posts), root, replies, seen)
<1>1. PICK n \in Nat : n = Len(posts) /\ DOMAIN posts = 1 .. n /\ \A k \in 1 .. n : posts[k] \in T
  OBVIOUS
<1>2. seen \in SUBSET T /\ seen = First(posts, n) /\ (posts = <<>> <=> seen = {})
  <2>1. seen = First(posts, n)
    BY <1>1
  <2>2. seen \in SUBSET T
    BY <1>1, <2>1 DEF First
  <2>3. posts = <<>> <=> n = 0
    BY <1>1
  <2>4. n = 0 => seen = {}
    BY <2>1 DEF First
  <2>5. n # 0 => posts[1] \in seen
    BY <2>1 DEF First
  <2>6. QED
    BY <2>1, <2>2, <2>3, <2>4, <2>5
<1>3. PICK deduped : deduped = Dedupe(posts) /\ Lists(deduped, seen)
  BY <1>1, <1>2, DedupeIs
<1>4. PICK m \in Nat : m = Len(deduped) /\ DOMAIN deduped = 1 .. m /\ First(deduped, m) = seen
  BY <1>3, ListsAll
<1>5. PICK root : root = FirstRoot(deduped)
  OBVIOUS
<1>6. IF \E p \in seen : isRootPost(p) THEN IsFirstRoot(root, seen) ELSE root = NoRoot
  <2>1. \A k \in 1 .. m : deduped[k] \in T
    BY <1>2, <1>3, <1>4 DEF Lists
  <2>2. QED
    BY <1>4, <1>5, <2>1, FirstRootIs
<1>7. IsFirstRoot(root, seen) => root # NoRoot
  <2>1. NoRoot.id = 0 /\ \A p \in seen : p.id # 0
    BY <1>2 DEF NoRoot, ArePosts
  <2>2. QED
    BY <2>1 DEF IsFirstRoot
<1>8. PICK organic : organic = Organic(deduped, root) /\ Lists(organic, Replies(seen, root))
  BY <1>3, <1>4, OrganicIs DEF Replies
<1>9. PICK replies : replies = Chronological(organic)
  OBVIOUS
<1>10. /\ Lists(replies, Replies(seen, root))
       /\ \A i, j \in DOMAIN replies : i < j => rootLess(replies[i], replies[j])
  <2>1. Replies(seen, root) \in SUBSET T
    BY <1>2 DEF Replies
  <2>2. Len(organic) \in Nat
    BY <1>8, ListsAll
  <2>3. QED
    BY <1>8, <1>9, <2>1, <2>2, ChronologicalIs
<1>11. Assemble(posts) = IF posts = <<>> THEN Failed("no_posts")
                         ELSE IF root = NoRoot THEN Failed("missing_root")
                         ELSE [root |-> root.id, replies |-> [i \in DOMAIN replies |-> replies[i].id], error |-> "none"]
  BY <1>3, <1>5, <1>8, <1>9 DEF Assemble
<1>12. CASE posts = <<>>
  BY <1>2, <1>11, <1>12
<1>13. CASE posts # <<>> /\ root = NoRoot
  BY <1>2, <1>6, <1>7, <1>11, <1>13
<1>14. CASE posts # <<>> /\ root # NoRoot
  <2>1. Built(Assemble(posts), root, replies, seen)
    BY <1>6, <1>10, <1>11, <1>14 DEF Built
  <2>2. QED
    BY <2>1
<1>15. QED
  BY <1>12, <1>13, <1>14

-----------------------------------------------------------------------------
(* What the reader answers is a function of what it was delivered.         *)
ThreadsIInv ==
    /\ posted \in Messages /\ fetched \in Seq({posted[i] : i \in PostIds})
    /\ thread = Failed("not_fetched") \/ thread = Assemble(fetched)

LEMMA PostsOfThread ==
    ASSUME posted \in Messages
    PROVE  /\ ArePosts({posted[i] : i \in PostIds})
           /\ \A p \in {posted[i] : i \in PostIds} : p.id \in PostIds /\ posted[p.id] = p
<1>1. \A i \in PostIds : i \in Nat \ {0} /\ posted[i].id = i /\ posted[i].ts \in Int
  BY ThreadsAssumption
<1>2. QED
  BY <1>1 DEF ArePosts

LEMMA FailedIs ==
    \A e, f : /\ Failed(e).error = e /\ (Failed(e) = Failed(f) <=> e = f)
              /\ Failed(e).root = 0 /\ Failed(e).replies = <<>>
  BY DEF Failed

LEMMA ChainTagged ==
    ASSUME thread.error = "none", thread.root \in PostIds, thread.replies \in Seq(PostIds)
    PROVE  /\ Cardinality(ToSet(Hashtags)) = Len(Hashtags)
           /\ ToSet(Hashtags) = UNION {TagsIn(Text[Chain[i]]) : i \in DOMAIN Chain}
<1>1. PICK chain : chain = Chain /\ chain \in Seq(PostIds)
  <2>1. <<thread.root>> \in Seq(PostIds)
    OBVIOUS
  <2>2. Chain = <<thread.root>> \o thread.replies
    BY DEF Chain
  <2>3. Chain \in Seq(PostIds)
    BY <2>1, <2>2
  <2>4. QED
    BY <2>3
<1>2. PICK n \in Nat : DOMAIN chain = 1 .. n /\ \A k \in 1 .. n : chain[k] \in PostIds
  BY <1>1
<1>3. \A k \in 1 .. n : Text[chain[k]] \in Seq(Runes)
  <2>1. \A i \in PostIds : Text[i] \in Seq(Runes)
    BY ThreadsAssumption
  <2>2. QED
    BY <1>2, <2>1
<1>4. "#" \notin TagChars
  BY ThreadsAssumption
<1>5. Lists(HashtagsOf(chain), TagsOf(chain, n))
  BY <1>2, <1>3, <1>4, HashtagsOfIs
<1>6. PICK tags, S : tags = Hashtags /\ S = TagsOf(chain, n) /\ Lists(tags, S)
  BY <1>1, <1>5 DEF Hashtags
<1>7. ToSet(tags) = S /\ Cardinality(S) = Len(tags)
  BY <1>6, ListsAll
<1>8. S = UNION {TagsIn(Text[chain[i]]) : i \in DOMAIN chain}
  BY <1>2, <1>6 DEF TagsOf
<1>9. QED
  BY <1>1, <1>6, <1>7, <1>8

(* The invariant is enough.                                              *)
LEMMA AssembledFollows == ASSUME ThreadsIInv PROVE Assembled
<1>1. PICK T : T = {posted[i] : i \in PostIds}
  OBVIOUS
<1>2. ArePosts(T) /\ fetched \in Seq(T) /\ \A p \in T : p.id \in PostIds /\ posted[p.id] = p
  BY <1>1, PostsOfThread DEF ThreadsIInv
<1>3. PICK seen : seen = {fetched[i] : i \in DOMAIN fetched} /\ seen = First(fetched, Len(fetched)) /\ seen \in SUBSET T
  <2>1. PICK n \in Nat : n = Len(fetched) /\ DOMAIN fetched = 1 .. n /\ \A i \in 1 .. n : fetched[i] \in T
    BY <1>2
  <2>2. {fetched[i] : i \in DOMAIN fetched} = First(fetched, n)
    BY <2>1 DEF First
  <2>3. First(fetched, n) \in SUBSET T
    BY <2>1 DEF First
  <2>4. QED
    BY <2>1, <2>2, <2>3
<1>4. PICK roots : roots = {p \in seen : p.parent = NoParent \/ p.parent = p.id}
  OBVIOUS
<1>5. \A p \in seen : p \in roots <=> isRootPost(p)
  BY <1>4 DEF isRootPost
<1> DEFINE Precedes(p, q) == p.ts < q.ts \/ (p.ts = q.ts /\ p.id < q.id)
           reply(i) == posted[thread.replies[i]]
           Fails == thread.error # "not_fetched" =>
                      /\ (thread.error = "no_posts") <=> (seen = {})
                      /\ (thread.error = "missing_root") <=> (seen # {} /\ roots = {})
           Right == thread.error = "none" =>
                      /\ posted[thread.root] \in roots
                      /\ \A p \in roots : p.id = thread.root \/ Precedes(posted[thread.root], p)
                      /\ {reply(i) : i \in DOMAIN thread.replies} =
                           {p \in seen : p.id # thread.root /\ p.author \notin SystemAuthors}
                      /\ \A i, j \in DOMAIN thread.replies : i < j => Precedes(reply(i), reply(j))
                      /\ Cardinality(ToSet(Hashtags)) = Len(Hashtags)
                      /\ ToSet(Hashtags) = UNION {TagsIn(Text[Chain[i]]) : i \in DOMAIN Chain}
<1>6. Assembled <=> Fails /\ Right
  BY <1>3, <1>4 DEF Assembled
<1>7. CASE thread = Failed("not_fetched")
  <2>1. thread.error = "not_fetched"
    BY <1>7, FailedIs
  <2>2. QED
    BY <1>6, <2>1
<1>8. CASE thread = Failed("no_posts") /\ seen = {}
  <2>1. thread.error = "no_posts"
    BY <1>8, FailedIs
  <2>2. QED
    BY <1>6, <1>8, <2>1
<1>9. CASE thread = Failed("missing_root") /\ seen # {} /\ ~ \E p \in seen : isRootPost(p)
  <2>1. thread.error = "missing_root"
    BY <1>9, FailedIs
  <2>2. roots = {}
    BY <1>4, <1>5, <1>9
  <2>3. QED
    BY <1>6, <1>9, <2>1, <2>2
<1>10. CASE \E root, replies : Built(thread, root, replies, seen)
  <2>1. PICK root, replies : Built(thread, root, replies, seen)
    BY <1>10
  <2>2. /\ IsFirstRoot(root, seen)
        /\ Lists(replies, Replies(seen, root))
        /\ \A i, j \in DOMAIN replies : i < j => rootLess(replies[i], replies[j])
        /\ thread.root = root.id /\ thread.error = "none"
        /\ thread.replies = [i \in DOMAIN replies |-> replies[i].id]
    BY <2>1 DEF Built
  <2>3. root \in T /\ root \in seen /\ root \in roots
    BY <1>3, <1>5, <2>2 DEF IsFirstRoot
  <2>4. PICK n \in Nat : n = Len(replies) /\ DOMAIN replies = 1 .. n
    BY <2>2, ListsAll
  <2>5. \A i \in 1 .. n : replies[i] \in T /\ replies[i] \in Replies(seen, root)
    BY <1>3, <2>2, <2>4 DEF Lists, Replies
  <2>6. PICK ids : ids = thread.replies /\ DOMAIN ids = 1 .. n /\ \A i \in 1 .. n : ids[i] = replies[i].id
    BY <2>2, <2>4
  <2>7. posted[thread.root] = root /\ thread.root \in PostIds
    BY <1>2, <2>2, <2>3
  <2>8. \A i \in 1 .. n : reply(i) = replies[i] /\ ids[i] \in PostIds
    BY <1>2, <2>5, <2>6
  <2>9. thread.replies \in Seq(PostIds)
    <3>1. ids \in [1 .. n -> PostIds]
      BY <2>2, <2>4, <2>6, <2>8
    <3>2. QED
      BY <2>6, <3>1
  <2>10. \A p \in roots : p.id = thread.root \/ Precedes(posted[thread.root], p)
    <3>1. ASSUME NEW p \in roots PROVE p.id = thread.root \/ Precedes(root, p)
      <4>1. p \in seen /\ isRootPost(p)
        BY <1>4, <1>5
      <4>2. p = root \/ rootLess(root, p)
        BY <2>2, <4>1 DEF IsFirstRoot
      <4>3. QED
        BY <2>2, <4>2 DEF rootLess
    <3>2. QED
      BY <2>7, <3>1
  <2>11. {reply(i) : i \in DOMAIN thread.replies} = {p \in seen : p.id # thread.root /\ p.author \notin SystemAuthors}
    <3>1. {reply(i) : i \in DOMAIN thread.replies} = {replies[i] : i \in 1 .. n}
      BY <2>6, <2>8
    <3>2. {replies[i] : i \in 1 .. n} = Replies(seen, root)
      BY <2>2, <2>4 DEF Lists
    <3>3. Replies(seen, root) = {p \in seen : p.id # thread.root /\ p.author \notin SystemAuthors}
      BY <2>2 DEF Replies, IsSystemAuthor
    <3>4. QED
      BY <3>1, <3>2, <3>3
  <2>12. \A i, j \in DOMAIN thread.replies : i < j => Precedes(reply(i), reply(j))
    <3>1. ASSUME NEW i \in 1 .. n, NEW j \in 1 .. n, i < j PROVE Precedes(reply(i), reply(j))
      <4>1. rootLess(replies[i], replies[j])
        BY <2>2, <2>4, <3>1
      <4>2. reply(i) = replies[i] /\ reply(j) = replies[j]
        BY <2>8
      <4>3. QED
        BY <4>1, <4>2 DEF rootLess
    <3>2. QED
      BY <2>6, <3>1
  <2>13. /\ Cardinality(ToSet(Hashtags)) = Len(Hashtags)
         /\ ToSet(Hashtags) = UNION {TagsIn(Text[Chain[i]]) : i \in DOMAIN Chain}
    BY <2>2, <2>7, <2>9, ChainTagged
  <2>14. Right
    BY <2>3, <2>7, <2>10, <2>11, <2>12, <2>13
  <2>15. Fails
    BY <2>2, <2>3
  <2>16. QED
    BY <1>6, <2>14, <2>15
<1>11. QED
  <2>1. thread = Failed("not_fetched") \/ thread = Assemble(fetched)
    BY DEF ThreadsIInv
  <2>2. \/ Assemble(fetched) = Failed("no_posts") /\ seen = {}
        \/ Assemble(fetched) = Failed("missing_root") /\ seen # {} /\ ~ \E p \in seen : isRootPost(p)
        \/ \E root, replies : Built(Assemble(fetched), root, replies, seen)
    BY <1>2, <1>3, AssembleIs
  <2> HIDE DEF Fails, Right
  <2>3. QED
    BY <1>7, <1>8, <1>9, <1>10, <2>1, <2>2

LEMMA ThreadsInitIInv == ThreadsInit => ThreadsIInv
<1> SUFFICES ASSUME ThreadsInit PROVE ThreadsIInv
  OBVIOUS
<1>1. fetched = <<>> /\ posted \in Messages /\ thread = Failed("no_posts")
  BY DEF ThreadsInit
<1>2. Assemble(<<>>) = Failed("no_posts")
  BY DEF Assemble
<1>3. QED
  BY <1>1, <1>2 DEF ThreadsIInv

LEMMA ThreadsIInvInductive == ThreadsIInv /\ [ThreadsNext]_threadVars => ThreadsIInv'
<1> SUFFICES ASSUME ThreadsIInv, [ThreadsNext]_threadVars PROVE ThreadsIInv'
  OBVIOUS
<1>1. posted \in Messages /\ fetched \in Seq({posted[i] : i \in PostIds})
  BY DEF ThreadsIInv
<1>2. posted' = posted
  BY DEF ThreadsNext, Read, threadVars
<1>3. CASE UNCHANGED threadVars
  BY <1>3 DEF ThreadsIInv, threadVars
<1>4. CASE /\ \E i \in PostIds : fetched' = Append(fetched, posted[i])
           /\ thread' = Assemble(fetched')
  <2>1. fetched' \in Seq({posted[i] : i \in PostIds})
    BY <1>1, <1>4
  <2>2. QED
    BY <1>1, <1>2, <1>4, <2>1 DEF ThreadsIInv
<1>5. CASE thread' = Failed("not_fetched") /\ UNCHANGED fetched
  BY <1>1, <1>2, <1>5 DEF ThreadsIInv
<1>6. QED
  BY <1>3, <1>4, <1>5 DEF ThreadsNext, Read

(* Whatever is delivered, in whatever order and however often, the thread  *)
(* is that of the set of posts: the earliest root, the organic replies     *)
(* once each in the order of time, and the tags of its texts (threadreader *)
(* Assemble, ExtractHashtags, HashtagsOf), also for texts and threads of   *)
(* any length.                                                             *)
THEOREM ThreadsAssembled == ThreadsSpec => []Assembled
<1>1. ThreadsIInv => Assembled
  BY AssembledFollows
<1>2. QED
  BY <1>1, ThreadsInitIInv, ThreadsIInvInductive, PTL DEF ThreadsSpec

-----------------------------------------------------------------------------
(***************************************************************************)
(* Semantic search, for any files, contents, similarities and cut.  A cut  *)
(* of a content gives chunks that do not meet (CutSound); the index has    *)
(* one chunk under an id (RetrievalIInv); Ranked lists each hit once, best *)
(* first (RankedList); and after each hit that mergeOverlaps folds, every  *)
(* result is the interval of the hits it took in, under the score of the   *)
(* best, and comes no later than a lower score (MergeSound).               *)
(***************************************************************************)
(* The lines of a content.                                                 *)
IsText(lines, n) ==
    n \in Nat /\ DOMAIN lines = 1 .. n /\ Len(lines) = n /\ \A i \in 1 .. n : lines[i] \in Int

(* From i on there is a first place in E, when the last one is in it.      *)
LEMMA FirstPlace ==
    ASSUME NEW n \in Nat, NEW i \in 1 .. n, NEW E, n \in E
    PROVE  \E k \in i .. n : k \in E /\ \A j \in i .. k - 1 : j \notin E
<1>1. PICK S : S = {k \in i .. n : k \in E}
  OBVIOUS
<1>2. PICK k \in S : \A j \in S : k <= j
  <2>1. S \subseteq Nat /\ S # {}
    BY <1>1
  <2>2. QED
    BY <2>1, LeastNat
<1>3. k \in i .. n /\ k \in E
  BY <1>1
<1>4. ASSUME NEW j \in i .. k - 1 PROVE j \notin E
  <2>1. j \in i .. n /\ ~ (k <= j)
    BY <1>3
  <2>2. QED
    BY <1>1, <1>2, <2>1
<1>5. QED
  BY <1>3, <1>4

LEMMA ParagraphEnds ==
    ASSUME NEW lines, NEW n, IsText(lines, n), NEW i \in 1 .. n
    PROVE  /\ LastLine(lines, i, EndsParagraph) \in i .. n
           /\ \A j \in i .. LastLine(lines, i, EndsParagraph) - 1 : ~EndsParagraph(lines, j)
<1>1. n \in Nat /\ Len(lines) = n
  BY DEF IsText
<1>2. PICK E : E = {k \in 1 .. n : EndsParagraph(lines, k)}
  OBVIOUS
<1>3. n \in E
  BY <1>1, <1>2 DEF EndsParagraph
<1>4. \E k \in i .. n : k \in E /\ \A j \in i .. k - 1 : j \notin E
  BY <1>1, <1>3, FirstPlace
<1>5. \E k \in i .. n : EndsParagraph(lines, k) /\ \A j \in i .. k - 1 : ~EndsParagraph(lines, j)
  <2>1. PICK k \in i .. n : k \in E /\ \A j \in i .. k - 1 : j \notin E
    BY <1>4
  <2>2. \A j \in i .. k - 1 : j \in 1 .. n
    BY <1>1
  <2>3. QED
    BY <1>2, <2>1, <2>2
<1>6. QED
  BY <1>1, <1>5 DEF LastLine

LEMMA DeclarationEnds ==
    ASSUME NEW lines, NEW n, IsText(lines, n), NEW i \in 1 .. n
    PROVE  /\ LastLine(lines, i, EndsDeclaration) \in i .. n
           /\ \A j \in i .. LastLine(lines, i, EndsDeclaration) - 1 : ~EndsDeclaration(lines, j)
<1>1. n \in Nat /\ Len(lines) = n
  BY DEF IsText
<1>2. PICK E : E = {k \in 1 .. n : EndsDeclaration(lines, k)}
  OBVIOUS
<1>3. n \in E
  BY <1>1, <1>2 DEF EndsDeclaration
<1>4. \E k \in i .. n : k \in E /\ \A j \in i .. k - 1 : j \notin E
  BY <1>1, <1>3, FirstPlace
<1>5. \E k \in i .. n : EndsDeclaration(lines, k) /\ \A j \in i .. k - 1 : ~EndsDeclaration(lines, j)
  <2>1. PICK k \in i .. n : k \in E /\ \A j \in i .. k - 1 : j \notin E
    BY <1>4
  <2>2. \A j \in i .. k - 1 : j \in 1 .. n
    BY <1>1
  <2>3. QED
    BY <1>2, <2>1, <2>2
<1>6. QED
  BY <1>1, <1>5 DEF LastLine

ChunkTypes == [file : Files, symbol : Nat, from : Nat, to : Nat]
ChunkSound(c) == c \in ChunkTypes /\ 1 <= c.from /\ c.from <= c.to

(* Chunks that start at different lines and do not meet.                   *)
Apart(c, d) == c # d => c.from # d.from /\ (c.from < d.from => c.to < d.from)

(* What one cut of a file's lines gives.                                   *)
CutSound(C, f) ==
    /\ IsFiniteSet(C)
    /\ \A c \in C : ChunkSound(c) /\ c.file = f
    /\ \A c, d \in C : Apart(c, d)

LEMMA PlacesFinite ==
    ASSUME NEW n \in Nat, NEW S \in SUBSET (1 .. n), NEW c
    PROVE  IsFiniteSet({c[i] : i \in S})
<1>1. IsFiniteSet(1 .. n)
  BY FS_Interval
<1>2. IsFiniteSet(S)
  BY <1>1, FS_Subset
<1>3. PICK d : d = [i \in S |-> c[i]]
  OBVIOUS
<1>4. d \in Surjection(S, {c[i] : i \in S})
  BY <1>3 DEF Surjection
<1>5. QED
  BY <1>2, <1>4, FS_Surjection

LEMMA GoChunksSound ==
    ASSUME NEW f \in Files, NEW lines, NEW n, IsText(lines, n)
    PROVE  CutSound(ChunkGo(f, lines), f)
<1>1. n \in Nat /\ Len(lines) = n /\ DOMAIN lines = 1 .. n /\ \A i \in 1 .. n : lines[i] \in Int
  BY DEF IsText
<1>2. PICK end : end = [i \in 1 .. n |-> LastLine(lines, i, EndsDeclaration)]
  OBVIOUS
<1>3. ASSUME NEW i \in 1 .. n
      PROVE  end[i] \in i .. n /\ \A j \in i .. end[i] - 1 : ~EndsDeclaration(lines, j)
  BY <1>2, DeclarationEnds
<1>4. PICK S \in SUBSET (1 .. n) : S = {i \in 1 .. n : IsName(lines[i])}
  OBVIOUS
<1>5. PICK c : c = [i \in 1 .. n |-> [file |-> f, symbol |-> lines[i], from |-> i, to |-> end[i]]]
  OBVIOUS
<1>6. ChunkGo(f, lines) = {c[i] : i \in S}
  BY <1>1, <1>2, <1>4, <1>5 DEF ChunkGo
<1>7. ASSUME NEW i \in S PROVE ChunkSound(c[i]) /\ c[i].file = f /\ c[i].from = i /\ c[i].to = end[i]
  <2>1. lines[i] \in Nat
    BY <1>1, <1>4 DEF IsName, NoSymbol
  <2>2. end[i] \in Nat /\ i \in Nat /\ 1 <= i /\ i <= end[i]
    BY <1>1, <1>3
  <2>3. c[i] = [file |-> f, symbol |-> lines[i], from |-> i, to |-> end[i]]
    BY <1>5
  <2>4. QED
    BY <2>1, <2>2, <2>3 DEF ChunkSound, ChunkTypes
<1>8. ASSUME NEW i \in S, NEW j \in S, i < j PROVE end[i] < j
  <2>1. i \in 1 .. n /\ j \in 1 .. n /\ end[i] \in i .. n
    BY <1>3
  <2>2. SUFFICES ASSUME ~ (end[i] < j) PROVE FALSE
    OBVIOUS
  <2>3. PICK k \in Int : k = j - 1 /\ k + 1 = j
    BY <2>1
  <2>4. k \in i .. end[i] - 1
    BY <1>8, <2>1, <2>2, <2>3
  <2>5. lines[j] # Prose
    BY <1>4 DEF IsName, NoSymbol, Prose
  <2>6. EndsDeclaration(lines, k)
    BY <2>3, <2>5 DEF EndsDeclaration
  <2>7. QED
    BY <1>3, <2>4, <2>6
<1>9. ASSUME NEW i \in S, NEW j \in S PROVE Apart(c[i], c[j])
  BY <1>7, <1>8 DEF Apart
<1>10. IsFiniteSet({c[i] : i \in S})
  BY <1>1, PlacesFinite
<1>11. QED
  BY <1>6, <1>7, <1>9, <1>10 DEF CutSound

LEMMA HeadingIs ==
    ASSUME NEW lines, NEW n, IsText(lines, n), NEW i \in 1 .. n
    PROVE  HeadingAt(lines, i) \in Nat
<1>1. n \in Nat /\ \A k \in 1 .. n : lines[k] \in Int
  BY DEF IsText
<1>2. PICK above \in SUBSET (1 .. n) : above = {h \in 1 .. i : OpensParagraph(lines, h) /\ IsName(lines[h])}
  <2>1. \A h \in 1 .. i : h \in 1 .. n
    BY <1>1
  <2>2. QED
    BY <2>1
<1>3. CASE above = {}
  BY <1>2, <1>3 DEF HeadingAt, NoSymbol
<1>4. CASE above # {}
  <2>1. \E h \in above : \A g \in above : g <= h
    <3>1. Max(above) \in above /\ \A g \in above : Max(above) >= g
      BY <1>1, <1>4, LargestIs
    <3>2. \A g \in above : g \in 1 .. n
      OBVIOUS
    <3>3. PICK m \in above : m = Max(above)
      BY <3>1
    <3>4. \A g \in above : m >= g /\ m \in Int /\ g \in Int
      BY <1>1, <3>1, <3>2, <3>3
    <3>5. \A g \in above : g <= m
      BY <3>4
    <3>6. QED
      BY <3>5
  <2>2. PICK h : h = CHOOSE k \in above : \A g \in above : g <= k
    OBVIOUS
  <2>3. h \in above
    BY <2>1, <2>2
  <2>4. HeadingAt(lines, i) = lines[h]
    BY <1>2, <1>4, <2>2 DEF HeadingAt
  <2>5. IsName(lines[h]) /\ lines[h] \in Int
    BY <1>1, <1>2, <2>3
  <2>6. QED
    BY <2>4, <2>5 DEF IsName, NoSymbol
<1>5. QED
  BY <1>3, <1>4

LEMMA MarkdownChunksSound ==
    ASSUME NEW f \in Files, NEW lines, NEW n, IsText(lines, n)
    PROVE  CutSound(ChunkMarkdown(f, lines), f)
<1>1. n \in Nat /\ Len(lines) = n /\ DOMAIN lines = 1 .. n /\ \A i \in 1 .. n : lines[i] \in Int
  BY DEF IsText
<1>2. PICK end : end = [i \in 1 .. n |-> LastLine(lines, i, EndsParagraph)]
  OBVIOUS
<1>3. ASSUME NEW i \in 1 .. n
      PROVE  end[i] \in i .. n /\ \A j \in i .. end[i] - 1 : ~EndsParagraph(lines, j)
  BY <1>2, ParagraphEnds
<1>4. PICK S \in SUBSET (1 .. n) : S = {i \in 1 .. n : OpensParagraph(lines, i)}
  OBVIOUS
<1>5. PICK c : c = [i \in 1 .. n |-> [file |-> f, symbol |-> HeadingAt(lines, i), from |-> i, to |-> end[i]]]
  OBVIOUS
<1>6. ChunkMarkdown(f, lines) = {c[i] : i \in S}
  BY <1>1, <1>2, <1>4, <1>5 DEF ChunkMarkdown
<1>7. ASSUME NEW i \in S PROVE ChunkSound(c[i]) /\ c[i].file = f /\ c[i].from = i /\ c[i].to = end[i]
  <2>1. HeadingAt(lines, i) \in Nat
    BY HeadingIs
  <2>2. end[i] \in Nat /\ i \in Nat /\ 1 <= i /\ i <= end[i]
    BY <1>1, <1>3
  <2>3. c[i] = [file |-> f, symbol |-> HeadingAt(lines, i), from |-> i, to |-> end[i]]
    BY <1>5
  <2>4. QED
    BY <2>1, <2>2, <2>3 DEF ChunkSound, ChunkTypes
<1>8. ASSUME NEW i \in S, NEW j \in S, i < j PROVE end[i] < j
  <2>1. i \in 1 .. n /\ j \in 1 .. n /\ end[i] \in i .. n
    BY <1>3
  <2>2. SUFFICES ASSUME ~ (end[i] < j) PROVE FALSE
    OBVIOUS
  <2>3. lines[j - 1] = Blank /\ lines[i] # Blank
    BY <1>4, <1>8, <2>1 DEF OpensParagraph
  <2>4. PICK k \in Int : k + 2 = j /\ k + 1 = j - 1 /\ k = j - 2
    BY <2>1
  <2>5. i # j - 1
    BY <2>3
  <2>6. k \in i .. end[i] - 1
    BY <1>8, <2>1, <2>2, <2>4, <2>5
  <2>7. EndsParagraph(lines, k)
    BY <2>3, <2>4 DEF EndsParagraph
  <2>8. QED
    BY <1>3, <2>6, <2>7
<1>9. ASSUME NEW i \in S, NEW j \in S PROVE Apart(c[i], c[j])
  BY <1>7, <1>8 DEF Apart
<1>10. IsFiniteSet({c[i] : i \in S})
  BY <1>1, PlacesFinite
<1>11. QED
  BY <1>6, <1>7, <1>9, <1>10 DEF CutSound

LEMMA ChunksSound ==
    ASSUME NEW f \in Files, NEW v \in 1 .. Len(Versions[f])
    PROVE  CutSound(ChunksOf(f, Versions[f][v]), f)
<1>1. Versions[f] \in Seq(Seq(Lines))
  BY RetrievalAssumption
<1>2. PICK lines \in Seq(Lines) : lines = Versions[f][v]
  BY <1>1
<1>3. \A l \in Lines : l \in Int
  BY DEF Lines, Blank, Prose, NoSymbol
<1>4. PICK n \in Nat : n = Len(lines) /\ DOMAIN lines = 1 .. n /\ \A i \in 1 .. n : lines[i] \in Lines
  BY <1>2
<1>5. IsText(lines, n)
  BY <1>3, <1>4 DEF IsText
<1>6. QED
  BY <1>2, <1>5, GoChunksSound, MarkdownChunksSound DEF ChunksOf

-----------------------------------------------------------------------------
(* Every chunk there can be is sound.                                      *)
LEMMA ChunksAreSound == \A c \in Chunks : ChunkSound(c)
<1> SUFFICES ASSUME NEW c \in Chunks PROVE ChunkSound(c)
  OBVIOUS
<1>1. PICK f \in Files : c \in UNION {ChunksOf(f, lines) : lines \in ToSet(Versions[f])}
  BY DEF Chunks
<1>2. PICK lines \in ToSet(Versions[f]) : c \in ChunksOf(f, lines)
  BY <1>1
<1>3. PICK v \in 1 .. Len(Versions[f]) : lines = Versions[f][v]
  <2>1. PICK vs : vs = Versions[f] /\ vs \in Seq(Seq(Lines))
    BY RetrievalAssumption
  <2>2. DOMAIN vs = 1 .. Len(vs)
    BY <2>1
  <2>3. \E v \in 1 .. Len(vs) : lines = vs[v]
    BY <1>2, <2>1, <2>2 DEF ToSet
  <2>4. QED
    BY <2>1, <2>3
<1>4. CutSound(ChunksOf(f, Versions[f][v]), f)
  BY ChunksSound
<1>5. QED
  BY <1>2, <1>3, <1>4 DEF CutSound

LEMMA ChunksAre ==
    ASSUME NEW f \in Files, NEW v \in 1 .. Len(Versions[f])
    PROVE  ChunksOf(f, Versions[f][v]) \subseteq Chunks
<1>1. Versions[f][v] \in ToSet(Versions[f])
  BY RetrievalAssumption DEF ToSet
<1>2. QED
  BY <1>1 DEF Chunks

(* The index has sound chunks, one under an id; of a clean file those it   *)
(* has are of one version.                                                 *)
OneCut(f) == \E v \in 1 .. Len(Versions[f]) :
    \A c \in index : c.file = f => c \in ChunksOf(f, Versions[f][v])

RetrievalIInv ==
    /\ version \in [Files -> Nat] /\ \A f \in Files : version[f] \in 1 .. Len(Versions[f])
    /\ IsFiniteSet(index) /\ index \subseteq Chunks
    /\ \A c, d \in index : ChunkID(c) = ChunkID(d) => c = d
    /\ clean \subseteq Files /\ \A f \in clean : OneCut(f)

LEMMA RetrievalInitIInv == RetrievalInit => RetrievalIInv
<1> SUFFICES ASSUME RetrievalInit PROVE RetrievalIInv
  OBVIOUS
<1>1. version = [f \in Files |-> 1] /\ index = {} /\ clean = Files
  BY DEF RetrievalInit
<1>2. ASSUME NEW f \in Files PROVE 1 \in 1 .. Len(Versions[f])
  <2>1. PICK vs : vs = Versions[f] /\ vs \in Seq(Seq(Lines)) /\ vs # <<>>
    BY RetrievalAssumption
  <2>2. Len(vs) \in Nat /\ Len(vs) # 0
    BY <2>1
  <2>3. QED
    BY <2>1, <2>2
<1>3. ASSUME NEW f \in clean PROVE OneCut(f)
  BY <1>1, <1>2 DEF OneCut
<1>4. IsFiniteSet(index)
  BY <1>1, FS_EmptySet
<1>5. QED
  BY <1>1, <1>2, <1>3, <1>4 DEF RetrievalIInv

LEMMA EditStep == ASSUME RetrievalIInv, NEW f \in Files, Edit(f) PROVE RetrievalIInv'
<1>1. /\ version[f] < Len(Versions[f])
      /\ version' = [version EXCEPT ![f] = @ + 1] /\ index' = index /\ clean' = clean
  BY DEF Edit
<1>2. version \in [Files -> Nat] /\ \A g \in Files : version[g] \in 1 .. Len(Versions[g])
  BY DEF RetrievalIInv
<1>3. version' \in [Files -> Nat]
  BY <1>1, <1>2
<1>4. ASSUME NEW g \in Files PROVE version'[g] \in 1 .. Len(Versions[g])
  <2>1. PICK n \in Nat : n = Len(Versions[g])
    BY RetrievalAssumption
  <2>2. CASE g = f
    <3>1. version'[g] = version[f] + 1 /\ version[f] < n
      BY <1>1, <1>2, <2>1, <2>2
    <3>2. version[f] \in 1 .. n
      BY <1>2, <2>1, <2>2
    <3>3. QED
      BY <2>1, <3>1, <3>2
  <2>3. CASE g # f
    BY <1>1, <1>2, <2>3
  <2>4. QED
    BY <2>2, <2>3
<1>5. \A g \in clean : OneCut(g) => OneCut(g)'
  BY <1>1 DEF OneCut
<1>6. QED
  BY <1>1, <1>3, <1>4, <1>5 DEF RetrievalIInv

LEMMA IndexStep == ASSUME RetrievalIInv, NEW f \in Files, Index(f) PROVE RetrievalIInv'
<1>1. version[f] \in 1 .. Len(Versions[f]) /\ version' = version
  BY DEF RetrievalIInv, Index
<1>2. PICK C : C = Chunk(f) /\ CutSound(C, f) /\ C = ChunksOf(f, Versions[f][version[f]])
  BY <1>1, ChunksSound DEF Chunk, Content
<1>3. PICK new \in SUBSET C : index' = Upsert(new)
  BY <1>2 DEF Index
<1>4. clean' = IF \A c \in index' : c.file = f => c \in C THEN clean ELSE clean \ {f}
  BY <1>2 DEF Index
<1>5. PICK kept \in SUBSET index : /\ index' = kept \cup new
                                   /\ \A c \in kept, d \in new : ChunkID(d) # ChunkID(c)
  <2>1. PICK kept : kept = {c \in index : \A d \in new : ChunkID(d) # ChunkID(c)}
    OBVIOUS
  <2>2. index' = kept \cup new
    BY <1>3, <2>1 DEF Upsert
  <2>3. QED
    BY <2>1, <2>2
<1>6. IsFiniteSet(index')
  <2>1. IsFiniteSet(kept)
    BY FS_Subset DEF RetrievalIInv
  <2>2. IsFiniteSet(new)
    BY <1>2, FS_Subset DEF CutSound
  <2>3. QED
    BY <1>5, <2>1, <2>2, FS_Union
<1>7. index' \subseteq Chunks
  <2>1. C \subseteq Chunks
    BY <1>1, <1>2, ChunksAre
  <2>2. QED
    BY <1>3, <1>5, <2>1 DEF RetrievalIInv
<1>8. \A c \in new : c.file = f
  BY <1>2 DEF CutSound
<1>9. ASSUME NEW c \in index', NEW d \in index', ChunkID(c) = ChunkID(d) PROVE c = d
  <2>1. \A x, y \in kept : ChunkID(x) = ChunkID(y) => x = y
    BY DEF RetrievalIInv
  <2>2. \A x, y \in new : ChunkID(x) = ChunkID(y) => x = y
    <3>1. \A x, y \in new : Apart(x, y)
      BY <1>2 DEF CutSound
    <3>2. QED
      BY <3>1 DEF Apart, ChunkID
  <2>3. QED
    BY <1>5, <1>9, <2>1, <2>2
<1>10. clean' \subseteq clean /\ clean \subseteq Files
  BY <1>4 DEF RetrievalIInv
<1>11. ASSUME NEW g \in clean' PROVE OneCut(g)'
  <2>1. CASE g = f
    <3>1. \A c \in index' : c.file = f => c \in C
      BY <1>4, <1>11, <2>1
    <3>2. QED
      BY <1>1, <1>2, <2>1, <3>1 DEF OneCut
  <2>2. CASE g # f
    <3>1. OneCut(g)
      BY <1>10, <1>11 DEF RetrievalIInv
    <3>2. \A c \in index' : c.file = g => c \in index
      BY <1>5, <1>8, <2>2
    <3>3. QED
      BY <3>1, <3>2 DEF OneCut
  <2>3. QED
    BY <2>1, <2>2
<1>12. QED
  BY <1>1, <1>6, <1>7, <1>9, <1>10, <1>11 DEF RetrievalIInv

LEMMA RetrievalIInvInductive == RetrievalIInv /\ [RetrievalNext]_retrievalVars => RetrievalIInv'
<1>1. CASE UNCHANGED retrievalVars
  BY <1>1 DEF retrievalVars, RetrievalIInv, OneCut
<1>2. QED
  BY <1>1, EditStep, IndexStep DEF RetrievalNext

-----------------------------------------------------------------------------
(* Hits: one for each chunk above the floor.                               *)
HitTypes == [chunk : ChunkTypes, score : Int, ids : SUBSET (Files \X Nat \X Nat)]
HitSound(h) == /\ h \in HitTypes /\ h.ids = {ChunkID(h.chunk)}
               /\ h.chunk \in index /\ ChunkSound(h.chunk)

HitsSound(H) ==
    /\ IsFiniteSet(H)
    /\ \A h \in H : HitSound(h)
    /\ \A g, h \in H : g.chunk = h.chunk => g = h

LEMMA HitsAre ==
    ASSUME RetrievalIInv, NEW similarity \in [index -> Similarities]
    PROVE  HitsSound(Hits(similarity))
<1>1. \A f \in Files : Boost(f) \in Int
  BY DEF Boost
<1>2. /\ IsFiniteSet(index) /\ index \subseteq Chunks /\ \A c \in index : ChunkSound(c)
      /\ \A c \in index : c \in ChunkTypes /\ c.file \in Files
  <2>1. IsFiniteSet(index) /\ index \subseteq Chunks
    BY DEF RetrievalIInv
  <2>2. \A c \in index : ChunkSound(c)
    BY <2>1, ChunksAreSound
  <2>3. QED
    BY <2>1, <2>2 DEF ChunkSound, ChunkTypes
<1>3. PICK hit : hit = [c \in index |-> [chunk |-> c, score |-> similarity[c] * Boost(c.file), ids |-> {ChunkID(c)}]]
  OBVIOUS
<1>4. Hits(similarity) \subseteq {hit[c] : c \in index}
  BY <1>3 DEF Hits
<1>5. ASSUME NEW c \in index PROVE HitSound(hit[c]) /\ hit[c].chunk = c
  <2>1. hit[c] = [chunk |-> c, score |-> similarity[c] * Boost(c.file), ids |-> {ChunkID(c)}]
    BY <1>3
  <2>2. similarity[c] * Boost(c.file) \in Int
    <3>1. PICK a \in Int, b \in Int : a = similarity[c] /\ b = Boost(c.file)
      BY <1>1, <1>2, RetrievalAssumption
    <3>2. QED
      BY <3>1
  <2>3. ChunkID(c) \in Files \X Nat \X Nat
    BY <1>2 DEF ChunkID, ChunkTypes
  <2>4. QED
    BY <1>2, <2>1, <2>2, <2>3 DEF HitSound, HitTypes
<1>6. IsFiniteSet({hit[c] : c \in index})
  <2>1. hit \in Surjection(index, {hit[c] : c \in index})
    BY <1>3 DEF Surjection
  <2>2. QED
    BY <1>2, <2>1, FS_Surjection
<1>7. IsFiniteSet(Hits(similarity))
  BY <1>4, <1>6, FS_Subset
<1>8. \A h \in Hits(similarity) : h.chunk \in index /\ h = hit[h.chunk]
  BY <1>4, <1>5
<1>9. QED
  BY <1>5, <1>7, <1>8 DEF HitsSound

(* An id stands for one chunk of the index, a chunk for one hit.           *)
LEMMA IdsIdentify ==
    ASSUME RetrievalIInv, NEW H, HitsSound(H), NEW g \in H, NEW h \in H, ChunkID(g.chunk) = ChunkID(h.chunk)
    PROVE  g = h
<1>1. g.chunk \in index /\ h.chunk \in index
  BY DEF HitsSound, HitSound
<1>2. \A c, d \in index : ChunkID(c) = ChunkID(d) => c = d
  BY DEF RetrievalIInv
<1>3. g.chunk = h.chunk
  BY <1>1, <1>2
<1>4. QED
  BY <1>3 DEF HitsSound

(* By score and then by id: hits of different chunks are ordered.          *)
LEMMA AboveOrders ==
    ASSUME RetrievalIInv, NEW H, HitsSound(H)
    PROVE  /\ \A g, h \in H : g # h => Above(g, h) \/ Above(h, g)
           /\ \A g, h \in H : ~ (Above(g, h) /\ Above(h, g))
           /\ \A f, g, h \in H : Above(f, g) /\ Above(g, h) => Above(f, h)
<1>1. PICK s, t : s = [h \in H |-> h.score] /\ t = [h \in H |-> Hash(ChunkID(h.chunk))]
  OBVIOUS
<1>2. ASSUME NEW h \in H PROVE s[h] \in Int /\ t[h] \in Int /\ h.chunk \in Chunks
  <2>1. h.score \in Int
    BY DEF HitsSound, HitSound, HitTypes
  <2>2. h.chunk \in Chunks
    BY DEF HitsSound, HitSound, RetrievalIInv
  <2>3. Hash(ChunkID(h.chunk)) \in Int
    BY <2>2, HashAssumption
  <2>4. QED
    BY <1>1, <2>1, <2>2, <2>3
<1>3. ASSUME NEW g \in H, NEW h \in H, t[g] = t[h] PROVE g = h
  <2>1. PICK c \in Chunks, d \in Chunks : c = g.chunk /\ d = h.chunk
    BY <1>2
  <2>2. Hash(ChunkID(c)) = Hash(ChunkID(d))
    BY <1>1, <1>3, <2>1
  <2>3. ChunkID(g.chunk) = ChunkID(h.chunk)
    BY <2>1, <2>2, HashAssumption
  <2>4. QED
    BY <2>3, IdsIdentify
<1>4. \A g, h \in H : Above(g, h) <=> s[g] > s[h] \/ (s[g] = s[h] /\ t[g] < t[h])
  BY <1>1 DEF Above, IdBefore
<1>5. ASSUME NEW g \in H, NEW h \in H
      PROVE  (g # h => Above(g, h) \/ Above(h, g)) /\ ~ (Above(g, h) /\ Above(h, g))
  <2>1. s[g] \in Int /\ s[h] \in Int /\ t[g] \in Int /\ t[h] \in Int
    BY <1>2
  <2>2. QED
    BY <1>3, <1>4, <2>1
<1>6. ASSUME NEW f \in H, NEW g \in H, NEW h \in H, Above(f, g), Above(g, h) PROVE Above(f, h)
  <2>1. s[g] \in Int /\ s[h] \in Int /\ t[g] \in Int /\ t[h] \in Int /\ s[f] \in Int /\ t[f] \in Int
    BY <1>2
  <2>2. QED
    BY <1>4, <1>6, <2>1
<1>7. QED
  BY <1>5, <1>6

(* The ranked hits: each once, none above one before it.                   *)
RankedList(s, n, H) ==
    /\ n \in Nat /\ DOMAIN s = 1 .. n /\ Len(s) = n
    /\ \A i \in 1 .. n : s[i] \in H /\ HitSound(s[i])
    /\ \A i, j \in 1 .. n : i < j => s[i].score >= s[j].score
    /\ \A i, j \in 1 .. n : i # j => s[i].ids # s[j].ids
    /\ \A h \in H : \E i \in 1 .. n : s[i] = h

LEMMA RankedIs ==
    ASSUME RetrievalIInv, NEW similarity \in [index -> Similarities]
    PROVE  \E n : RankedList(Ranked(similarity), n, Hits(similarity))
<1>1. PICK H : H = Hits(similarity) /\ HitsSound(H) /\ IsFiniteSet(H)
  BY HitsAre DEF HitsSound
<1>2. PICK n \in Nat : n = Cardinality(H)
  BY <1>1, FS_CardinalityType
<1>3. PICK Less : Less = {p \in H \X H : Above(p[1], p[2])}
  OBVIOUS
<1>4. \A g, h \in H : <<g, h>> \in Less <=> Above(g, h)
  BY <1>3
<1>5. /\ \A g, h \in H : g # h => <<g, h>> \in Less \/ <<h, g>> \in Less
      /\ \A g, h \in H : ~ (<<g, h>> \in Less /\ <<h, g>> \in Less)
      /\ \A f, g, h \in H : <<f, g>> \in Less /\ <<g, h>> \in Less => <<f, h>> \in Less
  BY <1>1, <1>4, AboveOrders
<1>6. PICK q \in [1 .. n -> H] : \A j, k \in 1 .. n : j < k => <<q[j], q[k]>> \in Less
  <2>1. \A g, h \in H : g # h => <<g, h>> \in Less \/ <<h, g>> \in Less
    BY <1>5
  <2>2. \A g, h \in H : ~ (<<g, h>> \in Less /\ <<h, g>> \in Less)
    BY <1>5
  <2>3. \A f, g, h \in H : <<f, g>> \in Less /\ <<g, h>> \in Less => <<f, h>> \in Less
    BY <1>5
  <2>4. QED
    BY <1>1, <1>2, <2>1, <2>2, <2>3, ListingExists
<1>7. \A j, k \in 1 .. n : q[j] = q[k] => j = k
  <2>1. ASSUME NEW j \in 1 .. n, NEW k \in 1 .. n, j # k PROVE q[j] # q[k]
    <3>1. j < k \/ k < j
      BY <2>1
    <3>2. <<q[j], q[k]>> \in Less \/ <<q[k], q[j]>> \in Less
      BY <1>6, <3>1
    <3>3. QED
      BY <1>5, <1>6, <3>2
  <2>2. QED
    BY <2>1
<1>8. \A h \in H : \E i \in 1 .. n : q[i] = h
  <2>1. PICK R \in SUBSET H : R = {q[i] : i \in 1 .. n}
    BY <1>6
  <2>2. q \in Bijection(1 .. n, R)
    BY <1>6, <1>7, <2>1 DEF Bijection, Injection, Surjection, IsInjective
  <2>3. IsFiniteSet(1 .. n) /\ Cardinality(1 .. n) = n
    BY FS_Interval
  <2>4. Cardinality(R) = n
    BY <2>2, <2>3, FS_Bijection DEF ExistsBijection
  <2>5. R = H
    BY <1>1, <1>2, <2>4, FS_Subset
  <2>6. QED
    BY <2>1, <2>5
<1>9. ASSUME NEW i \in 1 .. n PROVE Cardinality({g \in H : Above(g, q[i])}) = i - 1
  <2>1. PICK m \in Nat : m = i - 1 /\ \A j \in 1 .. n : j \in 1 .. m <=> j < i
    BY <1>2
  <2>2. PICK R : R = {q[j] : j \in 1 .. m}
    OBVIOUS
  <2>3. \A j \in 1 .. n : Above(q[j], q[i]) <=> j < i
    <3>1. ASSUME NEW j \in 1 .. n PROVE Above(q[j], q[i]) <=> j < i
      <4>1. j < i => Above(q[j], q[i])
        BY <1>4, <1>6
      <4>2. i < j => Above(q[i], q[j])
        BY <1>4, <1>6
      <4>3. ~ (Above(q[j], q[i]) /\ Above(q[i], q[j])) /\ ~ (i = j /\ Above(q[j], q[i]))
        BY <1>4, <1>5, <1>6
      <4>4. j < i \/ i = j \/ i < j
        OBVIOUS
      <4>5. ~ (j < i /\ i < j) /\ ~ (j < i /\ i = j)
        OBVIOUS
      <4>6. QED
        BY <4>1, <4>2, <4>3, <4>4, <4>5
    <3>2. QED
      BY <3>1
  <2>4. {g \in H : Above(g, q[i])} = R
    <3>1. ASSUME NEW g \in H, Above(g, q[i]) PROVE g \in R
      <4>1. PICK j \in 1 .. n : q[j] = g
        BY <1>8
      <4>2. j \in 1 .. m
        BY <2>1, <2>3, <3>1, <4>1
      <4>3. QED
        BY <2>2, <4>1, <4>2
    <3>2. ASSUME NEW g \in R PROVE g \in H /\ Above(g, q[i])
      <4>1. PICK j \in 1 .. m : q[j] = g
        BY <2>2
      <4>2. j \in 1 .. n
        BY <1>2, <2>1
      <4>3. QED
        BY <1>6, <2>1, <2>3, <4>1, <4>2
    <3>3. QED
      BY <3>1, <3>2
  <2>5. \A j \in 1 .. m : j \in 1 .. n
    BY <1>2, <2>1
  <2>6. PICK p : p = [j \in 1 .. m |-> q[j]]
    OBVIOUS
  <2>7. p \in Bijection(1 .. m, R)
    BY <1>7, <2>2, <2>5, <2>6 DEF Bijection, Injection, Surjection, IsInjective
  <2>8. IsFiniteSet(1 .. m) /\ Cardinality(1 .. m) = m
    BY FS_Interval
  <2>9. Cardinality(R) = m
    BY <2>7, <2>8, FS_Bijection DEF ExistsBijection
  <2>10. QED
    BY <2>1, <2>4, <2>9
<1>10. ASSUME NEW i \in 1 .. n
       PROVE  (CHOOSE h \in H : Cardinality({g \in H : Above(g, h)}) = i - 1) = q[i]
  <2>1. ASSUME NEW h \in H, Cardinality({g \in H : Above(g, h)}) = i - 1 PROVE h = q[i]
    <3>1. PICK j \in 1 .. n : q[j] = h
      BY <1>8
    <3>2. j - 1 = i - 1
      BY <1>9, <2>1, <3>1
    <3>3. QED
      BY <3>1, <3>2
  <2>2. q[i] \in H /\ Cardinality({g \in H : Above(g, q[i])}) = i - 1
    BY <1>6, <1>9
  <2>3. PICK h : h = CHOOSE h0 \in H : Cardinality({g \in H : Above(g, h0)}) = i - 1
    OBVIOUS
  <2>4. h \in H /\ Cardinality({g \in H : Above(g, h)}) = i - 1
    BY <2>2, <2>3
  <2>5. QED
    BY <2>1, <2>3, <2>4
<1>11. Ranked(similarity) = q
  <2>1. Ranked(similarity) = [i \in 1 .. n |-> CHOOSE h \in H : Cardinality({g \in H : Above(g, h)}) = i - 1]
    BY <1>1, <1>2 DEF Ranked
  <2>2. QED
    BY <1>6, <1>10, <2>1
<1>12. ASSUME NEW i \in 1 .. n, NEW j \in 1 .. n, i < j PROVE q[i].score >= q[j].score
  <2>1. Above(q[i], q[j]) /\ q[i] \in H /\ q[j] \in H
    BY <1>4, <1>6, <1>12
  <2>2. q[i].score \in Int /\ q[j].score \in Int
    BY <1>1, <2>1 DEF HitsSound, HitSound, HitTypes
  <2>3. QED
    BY <2>1, <2>2 DEF Above
<1>13. ASSUME NEW i \in 1 .. n, NEW j \in 1 .. n, i # j PROVE q[i].ids # q[j].ids
  <2>1. q[i] \in H /\ q[j] \in H /\ q[i] # q[j]
    BY <1>6, <1>7, <1>13
  <2>2. PICK a \in H, b \in H : a = q[i] /\ b = q[j]
    BY <2>1
  <2>3. ChunkID(a.chunk) # ChunkID(b.chunk)
    BY <1>1, <2>1, <2>2, IdsIdentify
  <2>4. a.ids = {ChunkID(a.chunk)} /\ b.ids = {ChunkID(b.chunk)}
    BY <1>1 DEF HitsSound, HitSound
  <2>5. QED
    BY <2>2, <2>3, <2>4
<1>14. Len(q) = n /\ DOMAIN q = 1 .. n
  BY <1>2, <1>6
<1>15. \A i \in 1 .. n : q[i] \in H /\ HitSound(q[i])
  BY <1>1, <1>6 DEF HitsSound
<1>16. RankedList(q, n, H)
  BY <1>2, <1>8, <1>12, <1>13, <1>14, <1>15 DEF RankedList
<1>17. QED
  BY <1>1, <1>11, <1>16

(* mergeOverlaps, as its fold unfolds: the results of the first k hits.    *)
MergeFold(it, s) ==
    it = [S \in SUBSET DOMAIN s |->
            IF S = {} THEN <<>> ELSE MergeInto(it[S \ {Max(S)}], s[Max(S)])]

MergeKeeps(A, n, s) == DOMAIN s = 1 .. n /\ <<>> \in A /\ \A x \in A, k \in 1 .. n : MergeInto(x, s[k]) \in A

MergeSteps(g, A, n, s) ==
    /\ g \in [0 .. n -> A] /\ g[0] = <<>>
    /\ \A k \in 1 .. n : g[k] = MergeInto(g[k - 1], s[k])
    /\ mergeOverlaps(s) = g[n]

LEMMA MergeCourse ==
    ASSUME NEW n \in Nat, NEW s, NEW A, MergeKeeps(A, n, s)
    PROVE  \E g : MergeSteps(g, A, n, s)
<1>0. DOMAIN s = 1 .. n /\ <<>> \in A /\ \A x \in A, k \in 1 .. n : MergeInto(x, s[k]) \in A
  BY DEF MergeKeeps
<1>1. PICK step : step = [p \in A \X (1 .. n) |-> MergeInto(p[1], s[p[2]])]
  OBVIOUS
<1>2. \A x \in A, k \in 1 .. n : step[<<x, k>>] = MergeInto(x, s[k]) /\ step[<<x, k>>] \in A
  BY <1>0, <1>1
<1>3. PICK it \in [SUBSET (1 .. n) -> A] : Folding(it, n, <<>>, step)
  <2>1. \A x \in A, k \in 1 .. n : step[<<x, k>>] \in A
    BY <1>2
  <2>2. QED
    BY <1>0, <2>1, FoldingExists, Zenon
<1>4. MergeFold(it, s)
  <2>1. \A S \in SUBSET (1 .. n) : S # {} => Max(S) \in 1 .. n /\ it[S \ {Max(S)}] \in A
    BY <1>0, <1>3, LargestIs
  <2>2. PICK f : f = [S \in SUBSET (1 .. n) |->
                        IF S = {} THEN <<>> ELSE MergeInto(it[S \ {Max(S)}], s[Max(S)])]
    OBVIOUS
  <2>3. ASSUME NEW S \in SUBSET (1 .. n) PROVE it[S] = f[S]
    <3>1. it[S] = IF S = {} THEN <<>> ELSE step[<<it[S \ {Max(S)}], Max(S)>>]
      BY <1>3 DEF Folding
    <3>2. S # {} => step[<<it[S \ {Max(S)}], Max(S)>>] = MergeInto(it[S \ {Max(S)}], s[Max(S)])
      BY <1>2, <2>1
    <3>3. QED
      BY <2>2, <3>1, <3>2
  <2>4. it = f
    BY <1>3, <2>2, <2>3
  <2>5. QED
    BY <1>0, <2>2, <2>4 DEF MergeFold
<1>5. mergeOverlaps(s) = (CHOOSE jt : MergeFold(jt, s))[DOMAIN s]
  BY DEF mergeOverlaps, FoldLeft, MapThenFoldSet, MergeFold
<1>6. PICK jt : MergeFold(jt, s) /\ mergeOverlaps(s) = jt[1 .. n]
  BY <1>0, <1>4, <1>5
<1>7. jt[1 .. 0] = <<>>
  <2>1. 1 .. 0 = {} /\ {} \in SUBSET (1 .. n)
    OBVIOUS
  <2>2. QED
    BY <1>0, <1>6, <2>1 DEF MergeFold
<1>8. ASSUME NEW k \in 1 .. n, jt[1 .. (k - 1)] \in A PROVE jt[1 .. k] = step[<<jt[1 .. (k - 1)], k>>]
  <2>1. 1 .. k \in SUBSET (1 .. n) /\ 1 .. k # {} /\ Max(1 .. k) = k /\ (1 .. k) \ {k} = 1 .. (k - 1)
    BY UpTo
  <2>2. jt[1 .. k] = MergeInto(jt[1 .. (k - 1)], s[k])
    BY <1>0, <1>6, <2>1 DEF MergeFold
  <2>3. QED
    BY <1>2, <1>8, <2>2
<1>9. PICK g : Course(g, n, A, <<>>, step) /\ g[n] = jt[1 .. n]
  <2>1. Unfolds(jt, n, A, <<>>, step)
    BY <1>0, <1>2, <1>7, <1>8 DEF Unfolds
  <2>2. QED
    BY <2>1, CourseExists
<1>10. g \in [0 .. n -> A] /\ g[0] = <<>> /\ \A k \in 1 .. n : g[k] = step[<<g[k - 1], k>>]
  BY <1>9 DEF Course
<1>11. ASSUME NEW k \in 1 .. n PROVE g[k] = MergeInto(g[k - 1], s[k])
  <2>1. g[k - 1] \in A
    BY <1>10
  <2>2. QED
    BY <1>2, <1>10, <2>1
<1>12. QED
  BY <1>6, <1>9, <1>10, <1>11 DEF MergeSteps

(* What a result r stands for, once the first k hits are folded.           *)
IdOf(s, p) == ChunkID(s[p].chunk)
Within(h, r) == /\ h.chunk.file = r.chunk.file /\ h.score <= r.score
                /\ r.chunk.from <= h.chunk.from /\ h.chunk.to <= r.chunk.to
Spans(h, x) == h.chunk.from <= x /\ x <= h.chunk.to

ResultOf(r, k, s) ==
    /\ r \in HitTypes /\ r.chunk.from <= r.chunk.to
    /\ \A id \in r.ids : \E p \in 1 .. k : IdOf(s, p) = id
    /\ \A p \in 1 .. k : IdOf(s, p) \in r.ids => Within(s[p], r)
    /\ \E p \in 1 .. k : IdOf(s, p) \in r.ids /\ s[p].score = r.score
    /\ \A x \in Nat : Spans(r, x) => \E p \in 1 .. k : IdOf(s, p) \in r.ids /\ Spans(s[p], x)

(* The hits as a list: what RankedIs gives.                                *)
HitList(s, n) ==
    /\ n \in Nat
    /\ \A i \in 1 .. n : s[i] \in HitTypes /\ s[i].ids = {IdOf(s, i)} /\ s[i].chunk.from <= s[i].chunk.to
    /\ \A i, j \in 1 .. n : i < j => s[i].score >= s[j].score
    /\ \A i, j \in 1 .. n : i # j => IdOf(s, i) # IdOf(s, j)

LEMMA HitNumbers ==
    ASSUME NEW h \in HitTypes
    PROVE  h.chunk.from \in Nat /\ h.chunk.to \in Nat /\ h.score \in Int /\ h.chunk \in ChunkTypes
BY DEF HitTypes, ChunkTypes

LEMMA ResultKeeps ==
    ASSUME NEW s, NEW n, HitList(s, n), NEW k \in 0 .. n, NEW m \in 1 .. n, m = k + 1, NEW r, ResultOf(r, k, s)
    PROVE  ResultOf(r, m, s) /\ IdOf(s, m) \notin r.ids
<1>1. n \in Nat /\ \A p \in 1 .. k : p \in 1 .. n /\ p \in 1 .. m /\ p # m
  BY DEF HitList
<1>2. \A p \in 1 .. m : p \in 1 .. k \/ p = m
  OBVIOUS
<1>3. \A p \in 1 .. k : IdOf(s, p) # IdOf(s, m)
  BY <1>1 DEF HitList
<1>4. IdOf(s, m) \notin r.ids
  BY <1>3 DEF ResultOf
<1>5. \A id \in r.ids : \E p \in 1 .. m : IdOf(s, p) = id
  BY <1>1 DEF ResultOf
<1>6. \A p \in 1 .. m : IdOf(s, p) \in r.ids => Within(s[p], r)
  BY <1>2, <1>4 DEF ResultOf
<1>7. \E p \in 1 .. m : IdOf(s, p) \in r.ids /\ s[p].score = r.score
  BY <1>1 DEF ResultOf
<1>8. \A x \in Nat : Spans(r, x) => \E p \in 1 .. m : IdOf(s, p) \in r.ids /\ Spans(s[p], x)
  BY <1>1 DEF ResultOf
<1>9. r \in HitTypes /\ r.chunk.from <= r.chunk.to
  BY DEF ResultOf
<1>10. QED
  BY <1>4, <1>5, <1>6, <1>7, <1>8, <1>9 DEF ResultOf

LEMMA ResultNew ==
    ASSUME NEW s, NEW n, HitList(s, n), NEW m \in 1 .. n
    PROVE  ResultOf(s[m], m, s)
<1>1. /\ n \in Nat /\ s[m] \in HitTypes /\ s[m].ids = {IdOf(s, m)} /\ s[m].chunk.from <= s[m].chunk.to
      /\ m \in 1 .. m
  BY DEF HitList
<1>2. /\ s[m].chunk.from \in Nat /\ s[m].chunk.to \in Nat /\ s[m].score \in Int
  BY <1>1, HitNumbers
<1>3. \A p \in 1 .. m : p \in 1 .. n
  BY <1>1
<1>4. \A p \in 1 .. m : IdOf(s, p) \in s[m].ids => p = m
  BY <1>1, <1>3 DEF HitList
<1>5. Within(s[m], s[m])
  BY <1>2 DEF Within
<1>6. \A p \in 1 .. m : IdOf(s, p) \in s[m].ids => Within(s[p], s[m])
  BY <1>4, <1>5
<1>7. IdOf(s, m) \in s[m].ids
  BY <1>1
<1>8. \A id \in s[m].ids : \E p \in 1 .. m : IdOf(s, p) = id
  BY <1>1
<1>9. QED
  BY <1>1, <1>6, <1>7, <1>8 DEF ResultOf

(* What mergeTwo makes of two hits.                                        *)
MergedOf(r, a, b) ==
    /\ r \in HitTypes /\ r.ids = a.ids \cup b.ids /\ r.score = a.score /\ r.chunk.file = a.chunk.file
    /\ r.chunk.from = Lower(a.chunk.from, b.chunk.from) /\ r.chunk.to = Upper(a.chunk.to, b.chunk.to)

LEMMA mergeTwoIs ==
    ASSUME NEW a \in HitTypes, NEW b \in HitTypes
    PROVE  MergedOf(mergeTwo(a, b), a, b)
<1>1. PICK lo \in Nat, hi \in Nat, ids \in SUBSET (Files \X Nat \X Nat) :
        lo = Lower(a.chunk.from, b.chunk.from) /\ hi = Upper(a.chunk.to, b.chunk.to) /\ ids = a.ids \cup b.ids
  <2>1. Lower(a.chunk.from, b.chunk.from) \in Nat /\ Upper(a.chunk.to, b.chunk.to) \in Nat
    BY HitNumbers DEF Lower, Upper
  <2>2. a.ids \cup b.ids \in SUBSET (Files \X Nat \X Nat)
    BY DEF HitTypes
  <2>3. QED
    BY <2>1, <2>2
<1>2. PICK c : c = [a.chunk EXCEPT !.from = lo, !.to = hi]
  OBVIOUS
<1>3. c \in ChunkTypes /\ c.from = lo /\ c.to = hi /\ c.file = a.chunk.file
  BY <1>2, HitNumbers DEF ChunkTypes
<1>4. PICK r : r = [a EXCEPT !.chunk = c, !.ids = ids]
  OBVIOUS
<1>5. r \in HitTypes /\ r.chunk = c /\ r.ids = ids /\ r.score = a.score
  BY <1>3, <1>4 DEF HitTypes
<1>6. mergeTwo(a, b) = r
  <2>1. mergeTwo(a, b) = [a EXCEPT !.chunk.from = lo, !.chunk.to = hi, !.ids = ids]
    BY <1>1 DEF mergeTwo, HitTypes, ChunkTypes
  <2>2. QED
    BY <1>2, <1>4, <2>1 DEF HitTypes, ChunkTypes
<1>7. QED
  BY <1>1, <1>3, <1>5, <1>6 DEF MergedOf

(* A hit that touches a result makes one interval with it.                 *)
LEMMA TouchingJoin ==
    ASSUME NEW a \in Nat, NEW b \in Nat, NEW c \in Nat, NEW d \in Nat, a <= b, c <= d, a <= d + 1, c <= b + 1,
           NEW x \in Nat, Lower(a, c) <= x, x <= Upper(b, d)
    PROVE  (a <= x /\ x <= b) \/ (c <= x /\ x <= d)
BY DEF Lower, Upper

LEMMA LowerUpper ==
    ASSUME NEW a \in Int, NEW b \in Int
    PROVE  Lower(a, b) <= a /\ Lower(a, b) <= b /\ a <= Upper(a, b) /\ b <= Upper(a, b)
BY DEF Lower, Upper

LEMMA ResultMerged ==
    ASSUME NEW s, NEW n, HitList(s, n), NEW k \in 0 .. n, NEW m \in 1 .. n, m = k + 1, NEW r, ResultOf(r, k, s),
           s[m].chunk.file = r.chunk.file, spansTouch(r.chunk, s[m].chunk), s[m].score <= r.score,
           NEW u, MergedOf(u, r, s[m])
    PROVE  ResultOf(u, m, s)
<1>1. n \in Nat /\ \A p \in 1 .. k : p \in 1 .. n /\ p \in 1 .. m
  BY DEF HitList
<1>2. \A p \in 1 .. m : p \in 1 .. k \/ p = m
  OBVIOUS
<1>3. /\ s[m] \in HitTypes /\ s[m].ids = {IdOf(s, m)} /\ s[m].chunk.from <= s[m].chunk.to /\ m \in 1 .. m
      /\ r \in HitTypes /\ r.chunk.from <= r.chunk.to
  BY DEF HitList, ResultOf
<1>4. PICK a \in Nat, b \in Nat, c \in Nat, d \in Nat :
        a = r.chunk.from /\ b = r.chunk.to /\ c = s[m].chunk.from /\ d = s[m].chunk.to
  BY <1>3, HitNumbers
<1>5. /\ u \in HitTypes /\ u.ids = r.ids \cup {IdOf(s, m)} /\ u.score = r.score /\ u.chunk.file = r.chunk.file
      /\ u.chunk.from = Lower(a, c) /\ u.chunk.to = Upper(b, d)
  BY <1>3, <1>4 DEF MergedOf
<1>6. a <= b /\ c <= d /\ a <= d + 1 /\ c <= b + 1
  BY <1>3, <1>4 DEF spansTouch
<1>7. Lower(a, c) \in Nat /\ Upper(b, d) \in Nat /\ Lower(a, c) <= Upper(b, d)
  BY <1>6 DEF Lower, Upper
<1>8. Lower(a, c) <= a /\ Lower(a, c) <= c /\ b <= Upper(b, d) /\ d <= Upper(b, d)
  BY LowerUpper
<1>9. \A id \in u.ids : \E p \in 1 .. m : IdOf(s, p) = id
  BY <1>1, <1>3, <1>5 DEF ResultOf
<1>10. ASSUME NEW p \in 1 .. m, IdOf(s, p) \in u.ids PROVE Within(s[p], u)
  <2>1. p \in 1 .. n
    BY <1>1
  <2>2. PICK h \in HitTypes : h = s[p]
    BY <2>1 DEF HitList
  <2>3. h.chunk.from \in Nat /\ h.chunk.to \in Nat /\ h.score \in Int /\ r.score \in Int
    BY <1>3, <2>2, HitNumbers
  <2>4. CASE p = m
    <3>1. h.chunk.file = r.chunk.file /\ h.score <= r.score /\ h.chunk.from = c /\ h.chunk.to = d
      BY <1>4, <2>2, <2>4
    <3>2. QED
      BY <1>5, <1>8, <2>2, <3>1 DEF Within
  <2>5. CASE p # m
    <3>1. p \in 1 .. k /\ IdOf(s, p) # IdOf(s, m)
      BY <1>2, <2>1, <2>5 DEF HitList
    <3>2. IdOf(s, p) \in r.ids
      BY <1>5, <1>10, <3>1
    <3>3. Within(h, r)
      BY <2>2, <3>1, <3>2 DEF ResultOf
    <3>4. h.chunk.file = r.chunk.file /\ h.score <= r.score /\ a <= h.chunk.from /\ h.chunk.to <= b
      BY <1>4, <3>3 DEF Within
    <3>5. Lower(a, c) <= h.chunk.from /\ h.chunk.to <= Upper(b, d)
      BY <1>7, <1>8, <2>3, <3>4
    <3>6. QED
      BY <1>5, <2>2, <3>4, <3>5 DEF Within
  <2>6. QED
    BY <2>4, <2>5
<1>11. \E p \in 1 .. m : IdOf(s, p) \in u.ids /\ s[p].score = u.score
  BY <1>1, <1>5 DEF ResultOf
<1>12. ASSUME NEW x \in Nat, Spans(u, x) PROVE \E p \in 1 .. m : IdOf(s, p) \in u.ids /\ Spans(s[p], x)
  <2>1. Lower(a, c) <= x /\ x <= Upper(b, d)
    BY <1>5, <1>12 DEF Spans
  <2>2. (a <= x /\ x <= b) \/ (c <= x /\ x <= d)
    BY <1>6, <2>1, TouchingJoin
  <2>3. CASE a <= x /\ x <= b
    <3>1. Spans(r, x)
      BY <1>4, <2>3 DEF Spans
    <3>2. PICK p \in 1 .. k : IdOf(s, p) \in r.ids /\ Spans(s[p], x)
      BY <3>1 DEF ResultOf
    <3>3. QED
      BY <1>1, <1>5, <3>2
  <2>4. CASE c <= x /\ x <= d
    <3>1. Spans(s[m], x)
      BY <1>4, <2>4 DEF Spans
    <3>2. QED
      BY <1>3, <1>5, <3>1
  <2>5. QED
    BY <2>2, <2>3, <2>4
<1>13. QED
  BY <1>5, <1>7, <1>9, <1>10, <1>11, <1>12 DEF ResultOf

(* The first result that a hit touches takes it in.                        *)
LEMMA MergeIntoIs ==
    ASSUME NEW out \in Seq(HitTypes), NEW r \in HitTypes
    PROVE  \/ MergeInto(out, r) = Append(out, r)
           \/ \E t \in 1 .. Len(out) :
                /\ out[t].chunk.file = r.chunk.file /\ spansTouch(out[t].chunk, r.chunk)
                /\ MergeInto(out, r) = [out EXCEPT ![t] = mergeTwo(out[t], r)]
<1>1. PICK T : T = {i \in 1 .. Len(out) : out[i].chunk.file = r.chunk.file /\ spansTouch(out[i].chunk, r.chunk)}
  OBVIOUS
<1>2. DOMAIN out = 1 .. Len(out) /\ Len(out) \in Nat
  OBVIOUS
<1>3. MergeInto(out, r) = IF T = {} THEN Append(out, r)
                          ELSE [out EXCEPT ![CHOOSE i \in T : \A j \in T : i <= j] =
                                   mergeTwo(out[CHOOSE i \in T : \A j \in T : i <= j], r)]
  BY <1>1, <1>2 DEF MergeInto
<1>4. ASSUME T # {} PROVE (CHOOSE i \in T : \A j \in T : i <= j) \in T
  <2>1. T \subseteq Nat
    BY <1>1
  <2>2. \E i \in T : \A j \in T : i <= j
    BY <1>4, <2>1, LeastNat
  <2>3. QED
    BY <2>2
<1>5. PICK t : t = CHOOSE i \in T : \A j \in T : i <= j
  OBVIOUS
<1>6. CASE T = {}
  BY <1>3, <1>6
<1>7. CASE T # {}
  <2>1. t \in T
    BY <1>4, <1>5, <1>7
  <2>2. t \in 1 .. Len(out) /\ out[t].chunk.file = r.chunk.file /\ spansTouch(out[t].chunk, r.chunk)
    BY <1>1, <2>1
  <2>3. MergeInto(out, r) = [out EXCEPT ![t] = mergeTwo(out[t], r)]
    BY <1>3, <1>5, <1>7
  <2>4. QED
    BY <2>2, <2>3
<1>8. QED
  BY <1>6, <1>7

(* The results of the first k hits.                                        *)
MergeSound(out, k, s) ==
    /\ out \in Seq(HitTypes)
    /\ \A i \in 1 .. Len(out) : ResultOf(out[i], k, s)
    /\ \A i, j \in 1 .. Len(out) : i < j => out[i].score >= out[j].score
    /\ \A i, j \in 1 .. Len(out) : i # j => out[i].ids \cap out[j].ids = {}
    /\ \A p \in 1 .. k : \E i \in 1 .. Len(out) : IdOf(s, p) \in out[i].ids

(* Every hit still to come is no better than a result.                     *)
LEMMA ResultsLead ==
    ASSUME NEW s, NEW n, HitList(s, n), NEW k \in 0 .. n, NEW m \in 1 .. n, m = k + 1, NEW r, ResultOf(r, k, s)
    PROVE  s[m].score <= r.score
<1>1. PICK p \in 1 .. k : s[p].score = r.score
  BY DEF ResultOf
<1>2. p \in 1 .. n /\ p < m
  BY DEF HitList
<1>3. s[p].score >= s[m].score
  BY <1>2 DEF HitList
<1>4. s[p].score \in Int /\ s[m].score \in Int
  BY <1>2, HitNumbers DEF HitList
<1>5. QED
  BY <1>1, <1>3, <1>4

LEMMA MergeAppends ==
    ASSUME NEW s, NEW n, HitList(s, n), NEW k \in 0 .. n, NEW m \in 1 .. n, m = k + 1,
           NEW out, MergeSound(out, k, s)
    PROVE  MergeSound(Append(out, s[m]), m, s)
<1>1. PICK L \in Nat : L = Len(out)
  BY DEF MergeSound
<1>2. PICK new : new = Append(out, s[m])
  OBVIOUS
<1>3. s[m] \in HitTypes /\ s[m].ids = {IdOf(s, m)}
  BY DEF HitList
<1>4. new \in Seq(HitTypes) /\ Len(new) = L + 1 /\ new[L + 1] = s[m] /\ \A i \in 1 .. L : new[i] = out[i]
  BY <1>1, <1>2, <1>3 DEF MergeSound
<1>5. \A i \in 1 .. L + 1 : i \in 1 .. L \/ i = L + 1
  OBVIOUS
<1>6. \A i \in 1 .. L : ResultOf(out[i], k, s)
  BY <1>1 DEF MergeSound
<1>7. ASSUME NEW i \in 1 .. L PROVE ResultOf(out[i], m, s) /\ IdOf(s, m) \notin out[i].ids
  BY <1>6, ResultKeeps
<1>8. ResultOf(s[m], m, s)
  BY ResultNew
<1>9. \A i \in 1 .. L + 1 : ResultOf(new[i], m, s)
  BY <1>4, <1>5, <1>7, <1>8
<1>10. ASSUME NEW i \in 1 .. L PROVE out[i].score >= s[m].score
  <2>1. s[m].score <= out[i].score
    BY <1>6, ResultsLead
  <2>2. s[m].score \in Int /\ out[i].score \in Int
    BY <1>3, <1>6, HitNumbers DEF ResultOf
  <2>3. QED
    BY <2>1, <2>2
<1>11. ASSUME NEW i \in 1 .. L + 1, NEW j \in 1 .. L + 1, i < j PROVE new[i].score >= new[j].score
  <2>1. i \in 1 .. L
    BY <1>11
  <2>2. CASE j \in 1 .. L
    <3>1. out[i].score >= out[j].score
      BY <1>1, <1>11, <2>1, <2>2 DEF MergeSound
    <3>2. QED
      BY <1>4, <2>1, <2>2, <3>1
  <2>3. CASE j = L + 1
    BY <1>4, <1>10, <2>1, <2>3
  <2>4. QED
    BY <1>5, <2>2, <2>3
<1>12. ASSUME NEW i \in 1 .. L + 1, NEW j \in 1 .. L + 1, i # j PROVE new[i].ids \cap new[j].ids = {}
  <2>1. \A a, b \in 1 .. L : a # b => out[a].ids \cap out[b].ids = {}
    BY <1>1 DEF MergeSound
  <2>2. CASE i \in 1 .. L /\ j \in 1 .. L
    BY <1>4, <1>12, <2>1, <2>2
  <2>3. CASE i \in 1 .. L /\ j = L + 1
    BY <1>3, <1>4, <1>7, <2>3
  <2>4. CASE i = L + 1 /\ j \in 1 .. L
    BY <1>3, <1>4, <1>7, <2>4
  <2>5. QED
    BY <1>5, <1>12, <2>2, <2>3, <2>4
<1>13. ASSUME NEW p \in 1 .. m PROVE \E i \in 1 .. L + 1 : IdOf(s, p) \in new[i].ids
  <2>1. CASE p = m
    <3>1. L + 1 \in 1 .. L + 1
      OBVIOUS
    <3>2. QED
      BY <1>3, <1>4, <2>1, <3>1
  <2>2. CASE p # m
    <3>1. p \in 1 .. k
      BY <2>2
    <3>2. PICK i \in 1 .. L : IdOf(s, p) \in out[i].ids
      BY <1>1, <3>1 DEF MergeSound
    <3>3. i \in 1 .. L + 1
      OBVIOUS
    <3>4. QED
      BY <1>4, <3>2, <3>3
  <2>3. QED
    BY <2>1, <2>2
<1>14. QED
  BY <1>2, <1>4, <1>9, <1>11, <1>12, <1>13 DEF MergeSound

LEMMA MergeAbsorbs ==
    ASSUME NEW s, NEW n, HitList(s, n), NEW k \in 0 .. n, NEW m \in 1 .. n, m = k + 1,
           NEW out, MergeSound(out, k, s), NEW t \in 1 .. Len(out),
           out[t].chunk.file = s[m].chunk.file, spansTouch(out[t].chunk, s[m].chunk)
    PROVE  MergeSound([out EXCEPT ![t] = mergeTwo(out[t], s[m])], m, s)
<1>1. PICK L \in Nat : L = Len(out)
  BY DEF MergeSound
<1>2. s[m] \in HitTypes /\ s[m].ids = {IdOf(s, m)}
  BY DEF HitList
<1>3. \A i \in 1 .. L : ResultOf(out[i], k, s) /\ out[i] \in HitTypes
  BY <1>1 DEF MergeSound, ResultOf
<1>4. PICK u : u = mergeTwo(out[t], s[m]) /\ MergedOf(u, out[t], s[m])
  BY <1>1, <1>2, <1>3, mergeTwoIs
<1>5. PICK new : new = [out EXCEPT ![t] = u]
  OBVIOUS
<1>6. u \in HitTypes /\ u.ids = out[t].ids \cup {IdOf(s, m)} /\ u.score = out[t].score
  BY <1>2, <1>4 DEF MergedOf
<1>7. /\ new \in Seq(HitTypes) /\ Len(new) = L /\ new[t] = u
      /\ \A i \in 1 .. L : i # t => new[i] = out[i]
  BY <1>1, <1>5, <1>6 DEF MergeSound
<1>8. ASSUME NEW i \in 1 .. L PROVE ResultOf(out[i], m, s) /\ IdOf(s, m) \notin out[i].ids
  BY <1>3, ResultKeeps
<1>9. s[m].score <= out[t].score
  BY <1>1, <1>3, ResultsLead
<1>10. ResultOf(u, m, s)
  BY <1>1, <1>3, <1>4, <1>9, ResultMerged
<1>11. \A i \in 1 .. L : ResultOf(new[i], m, s)
  BY <1>7, <1>8, <1>10
<1>12. \A i \in 1 .. L : new[i].score = out[i].score
  BY <1>6, <1>7
<1>13. \A i, j \in 1 .. L : i < j => new[i].score >= new[j].score
  BY <1>1, <1>12 DEF MergeSound
<1>14. ASSUME NEW i \in 1 .. L, NEW j \in 1 .. L, i # j PROVE new[i].ids \cap new[j].ids = {}
  <2>1. \A a, b \in 1 .. L : a # b => out[a].ids \cap out[b].ids = {}
    BY <1>1 DEF MergeSound
  <2>2. CASE i = t
    BY <1>1, <1>6, <1>7, <1>8, <1>14, <2>1, <2>2
  <2>3. CASE j = t
    BY <1>1, <1>6, <1>7, <1>8, <1>14, <2>1, <2>3
  <2>4. CASE i # t /\ j # t
    BY <1>7, <1>14, <2>1, <2>4
  <2>5. QED
    BY <2>2, <2>3, <2>4
<1>15. \A i \in 1 .. L : out[i].ids \subseteq new[i].ids
  BY <1>6, <1>7
<1>16. ASSUME NEW p \in 1 .. m PROVE \E i \in 1 .. L : IdOf(s, p) \in new[i].ids
  <2>1. CASE p = m
    BY <1>1, <1>6, <1>7, <2>1
  <2>2. CASE p # m
    <3>1. p \in 1 .. k
      BY <2>2
    <3>2. PICK i \in 1 .. L : IdOf(s, p) \in out[i].ids
      BY <1>1, <3>1 DEF MergeSound
    <3>3. QED
      BY <1>15, <3>2
  <2>3. QED
    BY <2>1, <2>2
<1>17. QED
  BY <1>4, <1>5, <1>7, <1>11, <1>13, <1>14, <1>16 DEF MergeSound

LEMMA MergeFollows ==
    ASSUME NEW s, NEW n, HitList(s, n), DOMAIN s = 1 .. n
    PROVE  MergeSound(mergeOverlaps(s), n, s)
<1>1. n \in Nat /\ \A i \in 1 .. n : s[i] \in HitTypes
  BY DEF HitList
<1>2. PICK A : A = Seq(HitTypes)
  OBVIOUS
<1>3. <<>> \in A
  BY <1>2
<1>4. ASSUME NEW x \in A, NEW r \in HitTypes PROVE MergeInto(x, r) \in A
  <2>1. CASE MergeInto(x, r) = Append(x, r)
    BY <1>2, <2>1
  <2>2. ASSUME NEW t \in 1 .. Len(x), MergeInto(x, r) = [x EXCEPT ![t] = mergeTwo(x[t], r)]
        PROVE  MergeInto(x, r) \in A
    <3>1. x[t] \in HitTypes
      BY <1>2
    <3>2. mergeTwo(x[t], r) \in HitTypes
      BY <3>1, mergeTwoIs DEF MergedOf
    <3>3. QED
      BY <1>2, <2>2, <3>2
  <2>3. QED
    BY <1>2, <2>1, <2>2, MergeIntoIs
<1>5. MergeKeeps(A, n, s)
  BY <1>1, <1>3, <1>4 DEF MergeKeeps
<1>6. PICK g : MergeSteps(g, A, n, s)
  BY <1>1, <1>5, MergeCourse
<1>7. /\ g \in [0 .. n -> A] /\ g[0] = <<>> /\ mergeOverlaps(s) = g[n]
      /\ \A k \in 1 .. n : g[k] = MergeInto(g[k - 1], s[k])
  BY <1>6 DEF MergeSteps
<1> DEFINE Done == {k \in Nat : k <= n => MergeSound(g[k], k, s)}
<1>8. 0 \in Done
  <2>1. MergeSound(<<>>, 0, s)
    BY DEF MergeSound
  <2>2. QED
    BY <1>7, <2>1
<1>9. ASSUME NEW k \in Done PROVE k + 1 \in Done
  <2>1. SUFFICES ASSUME k + 1 <= n PROVE MergeSound(g[k + 1], k + 1, s)
    OBVIOUS
  <2>2. PICK m \in 1 .. n : m = k + 1
    BY <1>1, <2>1
  <2>3. k \in 0 .. n /\ MergeSound(g[k], k, s)
    BY <1>1, <2>1
  <2>4. PICK out : out = g[k] /\ MergeSound(out, k, s) /\ out \in Seq(HitTypes)
    BY <2>3 DEF MergeSound
  <2>5. g[m] = MergeInto(out, s[m]) /\ s[m] \in HitTypes
    <3>1. m - 1 = k
      BY <2>2
    <3>2. QED
      BY <1>1, <1>7, <2>4, <3>1
  <2>6. CASE MergeInto(out, s[m]) = Append(out, s[m])
    <3>1. MergeSound(Append(out, s[m]), m, s)
      BY <2>2, <2>3, <2>4, MergeAppends
    <3>2. QED
      BY <2>2, <2>5, <2>6, <3>1
  <2>7. ASSUME NEW t \in 1 .. Len(out), out[t].chunk.file = s[m].chunk.file, spansTouch(out[t].chunk, s[m].chunk),
               MergeInto(out, s[m]) = [out EXCEPT ![t] = mergeTwo(out[t], s[m])]
        PROVE  MergeSound(g[k + 1], k + 1, s)
    <3>1. MergeSound([out EXCEPT ![t] = mergeTwo(out[t], s[m])], m, s)
      BY <2>2, <2>3, <2>4, <2>7, MergeAbsorbs
    <3>2. QED
      BY <2>2, <2>5, <2>7, <3>1
  <2>8. QED
    BY <2>4, <2>5, <2>6, <2>7, MergeIntoIs
<1>10. n \in Done
  <2>1. \A k \in Done : k + 1 \in Done
    BY <1>9
  <2>2. Done \subseteq Nat
    OBVIOUS
  <2> HIDE DEF Done
  <2>3. QED
    BY <1>1, <1>8, <2>1, <2>2, NatInduct
<1>11. QED
  BY <1>1, <1>7, <1>10

(* The hits a result stands for, and what Searched says of each result.    *)
InResult(hits, r) == {h \in hits : h.ids \subseteq r.ids}
Stands(r, hits) ==
    /\ \A c \in {h.chunk : h \in InResult(hits, r)} : c.file = r.chunk.file
    /\ UNION {c.from .. c.to : c \in {h.chunk : h \in InResult(hits, r)}} = r.chunk.from .. r.chunk.to
    /\ \A h \in InResult(hits, r) : h.score <= r.score
    /\ \E h \in InResult(hits, r) : h.score = r.score

LEMMA RankedHits ==
    ASSUME NEW s, NEW n, NEW H, RankedList(s, n, H)
    PROVE  HitList(s, n)
<1>1. n \in Nat /\ \A i, j \in 1 .. n : i < j => s[i].score >= s[j].score
  BY DEF RankedList
<1>2. ASSUME NEW i \in 1 .. n
      PROVE  s[i] \in HitTypes /\ s[i].ids = {IdOf(s, i)} /\ s[i].chunk.from <= s[i].chunk.to
  BY DEF RankedList, HitSound, ChunkSound, IdOf
<1>3. ASSUME NEW i \in 1 .. n, NEW j \in 1 .. n, i # j PROVE IdOf(s, i) # IdOf(s, j)
  <2>1. s[i].ids # s[j].ids
    BY <1>3 DEF RankedList
  <2>2. QED
    BY <1>2, <2>1
<1>4. QED
  BY <1>1, <1>2, <1>3 DEF HitList

LEMMA ResultStands ==
    ASSUME NEW s, NEW n, HitList(s, n), DOMAIN s = 1 .. n, NEW r, ResultOf(r, n, s)
    PROVE  Stands(r, ToSet(s))
<1>1. PICK hits : hits = ToSet(s) /\ hits = {s[p] : p \in 1 .. n}
  BY DEF ToSet
<1>2. PICK I : I = InResult(hits, r)
  OBVIOUS
<1>3. \A p \in 1 .. n : s[p] \in HitTypes /\ s[p].ids = {IdOf(s, p)}
  BY DEF HitList
<1>4. \A p \in 1 .. n : s[p] \in I <=> IdOf(s, p) \in r.ids
  BY <1>1, <1>2, <1>3 DEF InResult
<1>5. \A h \in I : \E p \in 1 .. n : s[p] = h
  BY <1>1, <1>2 DEF InResult
<1>6. ASSUME NEW h \in I PROVE Within(h, r) /\ h \in HitTypes
  <2>1. PICK p \in 1 .. n : s[p] = h
    BY <1>5
  <2>2. IdOf(s, p) \in r.ids
    BY <1>4, <2>1
  <2>3. QED
    BY <1>3, <2>1, <2>2 DEF ResultOf
<1>7. r \in HitTypes
  BY DEF ResultOf
<1>8. PICK lo \in Nat, hi \in Nat : lo = r.chunk.from /\ hi = r.chunk.to
  BY <1>7, HitNumbers
<1>9. ASSUME NEW h \in I, NEW x \in h.chunk.from .. h.chunk.to PROVE x \in lo .. hi
  <2>1. PICK a \in Nat, b \in Nat : a = h.chunk.from /\ b = h.chunk.to
    BY <1>6, HitNumbers
  <2>2. lo <= a /\ b <= hi /\ x \in a .. b
    BY <1>6, <1>8, <1>9, <2>1 DEF Within
  <2>3. QED
    BY <2>1, <2>2
<1>10. ASSUME NEW x \in lo .. hi PROVE \E h \in I : x \in h.chunk.from .. h.chunk.to
  <2>1. x \in Nat /\ Spans(r, x)
    BY <1>8 DEF Spans
  <2>2. PICK p \in 1 .. n : IdOf(s, p) \in r.ids /\ Spans(s[p], x)
    BY <2>1 DEF ResultOf
  <2>3. PICK h \in I : h = s[p]
    BY <1>4, <2>2
  <2>4. h.chunk.from \in Nat /\ h.chunk.to \in Nat
    BY <1>6, HitNumbers
  <2>5. h.chunk.from <= x /\ x <= h.chunk.to
    BY <2>2, <2>3 DEF Spans
  <2>6. QED
    BY <2>1, <2>4, <2>5
<1>11. UNION {c.from .. c.to : c \in {h.chunk : h \in I}} = lo .. hi
  <2>1. PICK U : U = UNION {c.from .. c.to : c \in {h.chunk : h \in I}}
    OBVIOUS
  <2>2. ASSUME NEW x \in U PROVE x \in lo .. hi
    <3>1. PICK h \in I : x \in h.chunk.from .. h.chunk.to
      BY <2>1
    <3>2. QED
      BY <1>9, <3>1
  <2>3. ASSUME NEW x \in lo .. hi PROVE x \in U
    BY <1>10, <2>1
  <2>4. QED
    BY <2>1, <2>2, <2>3
<1>12. \A c \in {h.chunk : h \in I} : c.file = r.chunk.file
  BY <1>6 DEF Within
<1>13. \A h \in I : h.score <= r.score
  BY <1>6 DEF Within
<1>14. \E h \in I : h.score = r.score
  <2>1. PICK p \in 1 .. n : IdOf(s, p) \in r.ids /\ s[p].score = r.score
    BY DEF ResultOf
  <2>2. QED
    BY <1>4, <2>1
<1>15. QED
  BY <1>1, <1>2, <1>8, <1>11, <1>12, <1>13, <1>14 DEF Stands

(* Of a clean file the chunks are of one cut, so no line is in two of them. *)
LEMMA CleanApart ==
    ASSUME RetrievalIInv, NEW s, NEW n, NEW H, RankedList(s, n, H), HitList(s, n),
           NEW q, NEW r, ResultOf(q, n, s), ResultOf(r, n, s), q.ids \cap r.ids = {}, q.chunk.file \in clean
    PROVE  ~Overlap(q.chunk, r.chunk)
<1> SUFFICES ASSUME Overlap(q.chunk, r.chunk) PROVE FALSE
  OBVIOUS
<1>1. q \in HitTypes /\ r \in HitTypes /\ q.chunk.from <= q.chunk.to /\ r.chunk.from <= r.chunk.to
  BY DEF ResultOf
<1>2. PICK f \in clean : q.chunk.file = f /\ r.chunk.file = f
  BY DEF Overlap
<1>3. PICK x \in Nat : Spans(q, x) /\ Spans(r, x)
  <2>1. PICK a \in Nat, b \in Nat, c \in Nat, d \in Nat :
          a = q.chunk.from /\ b = q.chunk.to /\ c = r.chunk.from /\ d = r.chunk.to
    BY <1>1, HitNumbers
  <2>2. a <= b /\ c <= d /\ a <= d /\ c <= b
    BY <1>1, <2>1 DEF Overlap
  <2>3. \E x \in Nat : a <= x /\ x <= b /\ c <= x /\ x <= d
    <3>1. CASE a <= c
      BY <2>2, <3>1
    <3>2. CASE c <= a
      BY <2>2, <3>2
    <3>3. QED
      BY <3>1, <3>2
  <2>4. QED
    BY <2>1, <2>3 DEF Spans
<1>4. PICK i \in 1 .. n : IdOf(s, i) \in q.ids /\ Spans(s[i], x)
  BY <1>3 DEF ResultOf
<1>5. PICK j \in 1 .. n : IdOf(s, j) \in r.ids /\ Spans(s[j], x)
  BY <1>3 DEF ResultOf
<1>6. Within(s[i], q) /\ Within(s[j], r)
  BY <1>4, <1>5 DEF ResultOf
<1>7. PICK c \in index, d \in index : c = s[i].chunk /\ d = s[j].chunk
  BY DEF RankedList, HitSound
<1>8. c.file = f /\ d.file = f
  BY <1>2, <1>6, <1>7 DEF Within
<1>9. ChunkID(c) # ChunkID(d)
  BY <1>4, <1>5, <1>7 DEF IdOf
<1>10. PICK C : CutSound(C, f) /\ c \in C /\ d \in C
  <2>1. f \in Files /\ OneCut(f)
    BY DEF RetrievalIInv
  <2>2. PICK v \in 1 .. Len(Versions[f]) : \A e \in index : e.file = f => e \in ChunksOf(f, Versions[f][v])
    BY <2>1 DEF OneCut
  <2>3. CutSound(ChunksOf(f, Versions[f][v]), f)
    BY <2>1, ChunksSound
  <2>4. QED
    BY <1>8, <2>2, <2>3
<1>11. Apart(c, d) /\ Apart(d, c) /\ ChunkSound(c) /\ ChunkSound(d) /\ c # d
  BY <1>9, <1>10 DEF CutSound
<1>12. c.from \in Nat /\ c.to \in Nat /\ d.from \in Nat /\ d.to \in Nat
  BY <1>11 DEF ChunkSound, ChunkTypes
<1>13. c.from <= x /\ x <= c.to /\ d.from <= x /\ x <= d.to
  BY <1>4, <1>5, <1>7 DEF Spans
<1>14. (c.from < d.from /\ c.to < d.from) \/ (d.from < c.from /\ d.to < c.from)
  BY <1>11, <1>12 DEF Apart
<1>15. QED
  BY <1>12, <1>13, <1>14

LEMMA SearchedFollows == RetrievalIInv => Searched
<1> SUFFICES ASSUME RetrievalIInv, NEW similarity \in [index -> Similarities]
             PROVE  LET hits    == ToSet(Ranked(similarity))
                        results == Search(similarity)
                    IN /\ Len(results) <= TopK
                       /\ \A i, j \in DOMAIN results : i < j =>
                            /\ InResult(hits, results[i]) \cap InResult(hits, results[j]) = {}
                            /\ results[i].score >= results[j].score
                            /\ results[i].chunk.file \in clean => ~Overlap(results[i].chunk, results[j].chunk)
                       /\ Len(results) < TopK => UNION {InResult(hits, r) : r \in ToSet(results)} = hits
                       /\ \A r \in ToSet(results) : Stands(r, hits)
  BY DEF Searched, InResult, Stands
<1>1. PICK n, H, s : s = Ranked(similarity) /\ RankedList(s, n, H) /\ H = Hits(similarity)
  <2>1. PICK n : RankedList(Ranked(similarity), n, Hits(similarity))
    BY RankedIs
  <2>2. QED
    BY <2>1
<1>2. HitList(s, n) /\ DOMAIN s = 1 .. n /\ n \in Nat
  <2>1. HitList(s, n)
    BY <1>1, RankedHits
  <2>2. QED
    BY <1>1, <2>1 DEF RankedList
<1>3. PICK hits : hits = ToSet(s) /\ hits = {s[p] : p \in 1 .. n}
  BY <1>2 DEF ToSet
<1>4. PICK out : out = mergeOverlaps(s) /\ MergeSound(out, n, s) /\ out \in Seq(HitTypes)
  BY <1>2, MergeFollows DEF MergeSound
<1>5. PICK L \in Nat, m \in Nat : L = Len(out) /\ m = Lower(TopK, L) /\ m <= L /\ m <= TopK /\ (m < TopK => m = L)
  <2>1. PICK L \in Nat : L = Len(out)
    BY <1>4
  <2>2. Lower(TopK, L) \in Nat /\ Lower(TopK, L) <= L /\ Lower(TopK, L) <= TopK
        /\ (Lower(TopK, L) < TopK => Lower(TopK, L) = L)
    BY <2>1, RetrievalAssumption DEF Lower
  <2>3. QED
    BY <2>1, <2>2
<1>6. PICK res : res = Search(similarity) /\ res = SubSeq(out, 1, m)
  BY <1>1, <1>4, <1>5 DEF Search
<1>7. DOMAIN res = 1 .. m /\ Len(res) = m /\ \A i \in 1 .. m : res[i] = out[i] /\ i \in 1 .. L
  BY <1>4, <1>5, <1>6
<1>8. \A i \in 1 .. m : ResultOf(res[i], n, s)
  BY <1>4, <1>5, <1>7 DEF MergeSound
<1>9. ASSUME NEW i \in 1 .. m, NEW j \in 1 .. m, i < j
      PROVE  res[i].score >= res[j].score /\ res[i].ids \cap res[j].ids = {}
  BY <1>4, <1>5, <1>7, <1>9 DEF MergeSound
<1>10. \A h \in hits : h.ids # {}
  BY <1>2, <1>3 DEF HitList
<1>11. ASSUME NEW i \in 1 .. m, NEW j \in 1 .. m, i < j
       PROVE  InResult(hits, res[i]) \cap InResult(hits, res[j]) = {}
  BY <1>9, <1>10, <1>11 DEF InResult
<1>12. ASSUME NEW i \in 1 .. m, NEW j \in 1 .. m, i < j, res[i].chunk.file \in clean
       PROVE  ~Overlap(res[i].chunk, res[j].chunk)
  BY <1>1, <1>2, <1>8, <1>9, <1>12, CleanApart
<1>13. ToSet(res) = {res[i] : i \in 1 .. m}
  BY <1>7 DEF ToSet
<1>14. \A r \in ToSet(res) : Stands(r, hits)
  BY <1>2, <1>3, <1>8, <1>13, ResultStands
<1>15. ASSUME m < TopK PROVE UNION {InResult(hits, r) : r \in ToSet(res)} = hits
  <2>1. ASSUME NEW h \in hits PROVE \E i \in 1 .. m : h \in InResult(hits, res[i])
    <3>1. PICK p \in 1 .. n : h = s[p]
      BY <1>3
    <3>2. m = L
      BY <1>5, <1>15
    <3>3. PICK i \in 1 .. m : IdOf(s, p) \in out[i].ids
      BY <1>4, <1>5, <3>2 DEF MergeSound
    <3>4. h.ids = {IdOf(s, p)}
      BY <1>2, <3>1 DEF HitList
    <3>5. QED
      BY <1>7, <3>3, <3>4 DEF InResult
  <2>2. \A r : InResult(hits, r) \subseteq hits
    BY DEF InResult
  <2>3. QED
    BY <1>13, <2>1, <2>2
<1>16. Len(res) <= TopK /\ (Len(res) < TopK => m < TopK)
  BY <1>5, <1>7
<1>17. \A i, j \in DOMAIN res : i < j =>
         /\ InResult(hits, res[i]) \cap InResult(hits, res[j]) = {}
         /\ res[i].score >= res[j].score
         /\ res[i].chunk.file \in clean => ~Overlap(res[i].chunk, res[j].chunk)
  BY <1>7, <1>9, <1>11, <1>12
<1>18. Len(res) < TopK => UNION {InResult(hits, r) : r \in ToSet(res)} = hits
  BY <1>15, <1>16
<1>19. hits = ToSet(Ranked(similarity)) /\ res = Search(similarity) /\ Len(res) <= TopK
  BY <1>1, <1>3, <1>6, <1>16
<1>20. QED
  BY <1>14, <1>17, <1>18, <1>19

(* Searched, for any files, contents, similarities and cut.                *)
THEOREM SearchedSafe == RetrievalSpec => []Searched
<1>1. RetrievalInit => RetrievalIInv
  BY RetrievalInitIInv
<1>2. RetrievalIInv /\ [RetrievalNext]_retrievalVars => RetrievalIInv'
  BY RetrievalIInvInductive
<1>3. RetrievalIInv => Searched
  BY SearchedFollows
<1>4. QED
  BY <1>1, <1>2, <1>3, PTL DEF RetrievalSpec

(* The index has one chunk under an id, each of a line at least.           *)
THEOREM RetrievalTypeCorrect == RetrievalSpec => []RetrievalTypeOK
<1>1. RetrievalInit => RetrievalIInv
  BY RetrievalInitIInv
<1>2. RetrievalIInv /\ [RetrievalNext]_retrievalVars => RetrievalIInv'
  BY RetrievalIInvInductive
<1>3. RetrievalIInv => RetrievalTypeOK
  <2> SUFFICES ASSUME RetrievalIInv PROVE RetrievalTypeOK
    OBVIOUS
  <2>1. version \in [Files -> Nat] /\ \A f \in Files : version[f] \in 1 .. Len(Versions[f])
    BY DEF RetrievalIInv
  <2>2. version \in [Files -> Nat \ {0}] /\ clean \subseteq Files
    BY <2>1 DEF RetrievalIInv
  <2>3. ASSUME NEW c \in index PROVE c.file \in Files /\ c.symbol \in Nat /\ 1 <= c.from /\ c.from <= c.to
    <3>1. ChunkSound(c)
      BY ChunksAreSound DEF RetrievalIInv
    <3>2. QED
      BY <3>1 DEF ChunkSound, ChunkTypes
  <2>4. \A c, d \in index : ChunkID(c) = ChunkID(d) => c = d
    BY DEF RetrievalIInv
  <2>5. QED
    BY <2>2, <2>3, <2>4 DEF RetrievalTypeOK
<1>4. QED
  BY <1>1, <1>2, <1>3, PTL DEF RetrievalSpec
=============================================================================
