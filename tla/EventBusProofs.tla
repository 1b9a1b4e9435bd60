--------------------------- MODULE EventBusProofs ---------------------------
(* The safety of the event bus, for any number of goroutines, subjects and *)
(* subscriptions and for all buffer sizes: every event a subscription is   *)
(* owed is in exactly one place, each publisher's order reaches the        *)
(* subscribers, snapshots come first, and asyncPending counts right.       *)
EXTENDS EventBus, CountingLemmas, TLAPS

-----------------------------------------------------------------------------
(* The inductive invariant.                                                *)

(* Whose publication a journalled event is.                                *)
Owner(i) == IF log[i].async THEN dispatcher ELSE log[i].by

Senders == {c \in Clients : pc[c] = "send"}
Busy == {p \in Publishers : pc[p] # "idle"}
AtWork == IF pc[dispatcher] \in {"deliver", "settle"} THEN 1 ELSE 0

(* Each goroutine keeps to its own part of the program, and only finitely  *)
(* many are inside a call.                                                 *)
ControlInv ==
    /\ \A c \in Clients : pc[c] \in {"idle", "deliver", "send", "shutdown", "drain", "mark",
                                     "stop", "wait", "panicked"}
    /\ pc[dispatcher] \in {"select", "flush", "deliver", "settle", "exited"}
    /\ IsFiniteSet(Busy)

(* What is being delivered is the newest event of its publisher; nothing   *)
(* older than a subscription is on its way to it.                          *)
DeliveryInv ==
    \A p \in Publishers : pc[p] = "deliver" =>
        /\ event[p].seq \in 0 .. Len(log)
        /\ event[p].subject \in Subjects
        /\ event[p].seq # 0 =>
             /\ Owner(event[p].seq) = p
             /\ \A i \in 1 .. Len(log) : Owner(i) = p => i <= event[p].seq
             /\ \A s \in targets[p] : joined[s] < event[p].seq

(* A registered subscription is open, one that is still to be made has     *)
(* received nothing, and who is to shut one down has unregistered it.      *)
SubscriptionInv ==
    /\ \A s \in subs : state[s] = "open"
    /\ \A p \in Publishers : \A s \in targets[p] : state[s] # "new"
    /\ \A c \in Clients : pc[c] \in {"stop", "wait", "shutdown"} => targets[c] \cap subs = {}
    /\ \A s \in Subs :
         /\ state[s] = "new" => Stream(s) = <<>> /\ dropped[s] = {}
         /\ joined[s] \in 0 .. Len(log)

(* Nothing that was not journalled reaches a subscription, in its stream   *)
(* or dropped; the two disciplines use different channels.                 *)
StreamInv ==
    \A s \in Subs :
        /\ \A k \in DOMAIN Stream(s) : Stream(s)[k].seq <= Len(log)
        /\ dropped[s] \subseteq 0 .. Len(log)
        /\ Len(hand[s]) <= 1
        /\ s \in Durable => buffer[s] = <<>>
        /\ s \in Live => queue[s] = <<>> /\ hand[s] = <<>>

StickyInv == \A x \in Subjects : sticky[x] # 0 => log[sticky[x]].subject = x

(* Each publication is in the journal, in the channel or in its caller's   *)
(* hands, and its call number is in use only once it has been made.        *)
CountInv ==
    /\ asyncPending = Cardinality(Senders) + Len(asyncCh) + AtWork
    /\ Len(log) + Cardinality(Senders) + Len(asyncCh) <= calls /\ asyncPending <= calls
    /\ \A i \in DOMAIN log : log[i].call <= calls
    /\ \A k \in DOMAIN asyncCh : asyncCh[k].async /\ asyncCh[k].call <= calls
    /\ \A c \in Senders : event[c].seq \in 1 .. calls /\ event[c].subject \in Subjects

(* The asynchronous publications of one caller pass through its hands,     *)
(* the channel and the journal without overtaking.                         *)
CallOrder ==
    /\ \A i, j \in DOMAIN log :
         i < j /\ log[i].by = log[j].by /\ log[i].async = log[j].async
            => log[i].call < log[j].call
    /\ \A i, j \in DOMAIN asyncCh :
         i < j /\ asyncCh[i].by = asyncCh[j].by => asyncCh[i].call < asyncCh[j].call
    /\ \A i \in DOMAIN log, j \in DOMAIN asyncCh :
         log[i].async /\ log[i].by = asyncCh[j].by => log[i].call < asyncCh[j].call
    /\ \A c \in Senders :
         /\ \A i \in DOMAIN log : log[i].async /\ log[i].by = c => log[i].call < event[c].seq
         /\ \A j \in DOMAIN asyncCh : asyncCh[j].by = c => asyncCh[j].call < event[c].seq

(* Along every stream, and not only in what was received, the events of    *)
(* one publisher are in their order.                                       *)
Before(s, i, j) ==
    \E k, l \in DOMAIN Stream(s) : k < l /\ Stream(s)[k].seq = i /\ Stream(s)[l].seq = j

StreamOrder ==
    \A s \in Subs : \A i, j \in 1 .. Len(log) :
        Before(s, i, j) /\ Owner(i) = Owner(j) => i < j

AcceptedKept ==
    ~closed => \A n \in accepted :
        \/ \E i \in DOMAIN log : log[i].async /\ log[i].call = n
        \/ \E i \in DOMAIN asyncCh : asyncCh[i].call = n

IInv ==
    /\ TypeOK /\ ControlInv /\ DeliveryInv /\ SubscriptionInv /\ StreamInv /\ StickyInv
    /\ CountInv /\ CallOrder /\ StreamOrder /\ AcceptedKept
    /\ ExactlyOnePlace /\ SnapshotFirst

-----------------------------------------------------------------------------
(* Events in publish order.                                                *)

(* A set of events with Seqs of their own.                                 *)
Distinct(S) ==
    /\ \A e \in S : e.seq \in Nat
    /\ \A e, f \in S : e.seq = f.seq => e = f

Increasing(q, n) == \A j, k \in 1 .. n : j < k => q[j].seq < q[k].seq

LEMMA OrderExists ==
    ASSUME NEW S, Distinct(S), NEW n \in Nat, \A e \in S : e.seq <= n
    PROVE  /\ IsFiniteSet(S)
           /\ \E q \in [1 .. Cardinality(S) -> S] : Increasing(q, Cardinality(S))
<1> DEFINE Upto(m) == {e \in S : e.seq <= m}
           Good(T) == /\ IsFiniteSet(T)
                      /\ \E q \in [1 .. Cardinality(T) -> T] : Increasing(q, Cardinality(T))
           Bad == {m \in Nat : ~ Good(Upto(m))}
<1>1. Bad = {}
  <2> SUFFICES ASSUME Bad # {}
               PROVE  FALSE
    OBVIOUS
  <2>1. PICK m \in Bad : \A k \in Bad : m <= k
    <3>1. Bad \subseteq Nat
      OBVIOUS
    <3>2. QED
      <4> HIDE DEF Bad
      <4>1. QED
        BY <3>1, LeastNat
  <2>2. m \in Nat /\ ~ Good(Upto(m))
    BY <2>1
  <2> DEFINE Below == {e \in S : e.seq < m}
  <2>3. Good(Below)
    <3>1. CASE m = 0
      <4>1. Below = {}
        BY <3>1 DEF Distinct
      <4>2. IsFiniteSet(Below) /\ Cardinality(Below) = 0
        BY <4>1, FS_EmptySet
      <4>3. <<>> \in [1 .. 0 -> Below]
        OBVIOUS
      <4>4. Increasing(<<>>, 0)
        BY DEF Increasing
      <4>5. QED
        BY <4>2, <4>3, <4>4
    <3>2. CASE m # 0
      <4>1. m - 1 \in Nat /\ m - 1 \notin Bad
        <5>1. m - 1 \in Nat /\ ~ (m <= m - 1)
          BY <2>2, <3>2
        <5> HIDE DEF Bad
        <5>2. QED
          BY <2>1, <5>1
      <4>2. Upto(m - 1) = Below
        BY <2>2, <3>2 DEF Distinct
      <4>3. Good(Upto(m - 1))
        BY <4>1
      <4>4. QED
        BY <4>2, <4>3
    <3>3. QED
      BY <3>1, <3>2
  <2>4. PICK q \in [1 .. Cardinality(Below) -> Below] : Increasing(q, Cardinality(Below))
    BY <2>3
  <2>5. IsFiniteSet(Below) /\ Cardinality(Below) \in Nat
    BY <2>3, FS_CardinalityType
  <2>6. CASE \E e \in S : e.seq = m
    <3>1. PICK e \in S : e.seq = m
      BY <2>6
    <3>2. Upto(m) = Below \cup {e} /\ e \notin Below
      BY <2>2, <3>1 DEF Distinct
    <3>3. IsFiniteSet(Upto(m)) /\ Cardinality(Upto(m)) = Cardinality(Below) + 1
      <4> HIDE DEF Below, Upto
      <4>1. IsFiniteSet(Below \cup {e}) /\ Cardinality(Below \cup {e}) = Cardinality(Below) + 1
        BY <3>2, <2>5, FS_AddElement
      <4>2. QED
        BY <3>2, <4>1
    <3> DEFINE c == Cardinality(Below)
               r == [k \in 1 .. c + 1 |-> IF k = c + 1 THEN e ELSE q[k]]
    <3>4. r \in [1 .. c + 1 -> Upto(m)]
      <4>1. ASSUME NEW k \in 1 .. c + 1
            PROVE  r[k] \in Upto(m)
        <5>1. CASE k = c + 1
          BY <5>1, <3>2
        <5>2. CASE k # c + 1
          BY <5>2, <3>2, <2>4, <2>5
        <5>3. QED
          BY <5>1, <5>2
      <4>2. QED
        BY <4>1
    <3>5. Increasing(r, c + 1)
      <4>1. ASSUME NEW j \in 1 .. c + 1, NEW k \in 1 .. c + 1, j < k
            PROVE  r[j].seq < r[k].seq
        <5>1. j \in 1 .. c /\ r[j] = q[j] /\ q[j] \in Below
          BY <4>1, <2>4, <2>5
        <5>2. CASE k = c + 1
          BY <5>1, <5>2, <3>1
        <5>3. CASE k # c + 1
          BY <5>1, <5>3, <4>1, <2>4, <2>5 DEF Increasing
        <5>4. QED
          BY <5>2, <5>3
      <4>2. QED
        BY <4>1 DEF Increasing
    <3>6. QED
      BY <3>3, <3>4, <3>5, <2>2
  <2>7. CASE \A e \in S : e.seq # m
    <3>1. Upto(m) = Below
      BY <2>2, <2>7 DEF Distinct
    <3>2. QED
      BY <3>1, <2>3, <2>2
  <2>8. QED
    BY <2>6, <2>7
<1>2. Good(Upto(n)) /\ Upto(n) = S
  BY <1>1
<1>3. QED
  BY <1>2

(* InOrder lists the events of a set, each once, by Seq.                   *)
LEMMA InOrderLists ==
    ASSUME NEW S, Distinct(S), NEW n \in Nat, \A e \in S : e.seq <= n
    PROVE  /\ InOrder(S) \in Seq(S)
           /\ Increasing(InOrder(S), Len(InOrder(S)))
           /\ \A e \in S : \E k \in 1 .. Len(InOrder(S)) : InOrder(S)[k] = e
<1> DEFINE c == Cardinality(S)
           q == InOrder(S)
           Listed == {q[k] : k \in 1 .. c}
<1>1. IsFiniteSet(S) /\ c \in Nat
  BY OrderExists, FS_CardinalityType
<1>2. q \in [1 .. c -> S] /\ Increasing(q, c)
  BY OrderExists DEF InOrder, Increasing
<1>3. q \in Seq(S) /\ Len(q) = c
  BY <1>1, <1>2
<1>4. Listed = S
  <2>1. \A j, k \in 1 .. c : q[j] = q[k] => j = k
    <3>1. ASSUME NEW j \in 1 .. c, NEW k \in 1 .. c, q[j] = q[k], j # k
          PROVE  FALSE
      <4>1. q[j].seq \in Nat /\ q[k].seq \in Nat
        BY <1>2 DEF Distinct
      <4>2. j < k \/ k < j
        BY <1>1, <3>1
      <4>3. QED
        BY <1>2, <3>1, <4>1, <4>2 DEF Increasing
    <3>2. QED
      BY <3>1
  <2>2. q \in Bijection(1 .. c, Listed)
    BY <1>2, <2>1 DEF Bijection, Injection, Surjection, IsInjective
  <2>3. Cardinality(1 .. c) = c /\ IsFiniteSet(1 .. c)
    BY <1>1, FS_Interval
  <2>4. Cardinality(Listed) = c
    BY <2>2, <2>3, FS_Bijection DEF ExistsBijection
  <2>5. Listed \in SUBSET S
    BY <1>2
  <2>6. QED
    BY <2>4, <2>5, <1>1, FS_Subset
<1>5. QED
  BY <1>2, <1>3, <1>4

-----------------------------------------------------------------------------
(* What a new subscription starts with.                                    *)

LEMMA SendersFinite ==
    ASSUME ControlInv
    PROVE  /\ IsFiniteSet(Senders) /\ Cardinality(Senders) \in Nat
           /\ \A c \in Senders : Cardinality(Senders) >= 1
<1>1. Senders \in SUBSET Busy
  BY DEF Senders, Busy, Publishers
<1>2. IsFiniteSet(Senders) /\ Cardinality(Senders) \in Nat
  BY <1>1, FS_Subset, FS_CardinalityType DEF ControlInv
<1>3. QED
  BY <1>2, FS_EmptySet

(* The journal stays within the bound on calls.                            *)
LEMMA LogBounded ==
    ASSUME BusType, ControlInv, CountInv
    PROVE  /\ Len(log) \in Nat /\ Len(asyncCh) \in Nat /\ calls \in Nat
           /\ MaxCalls \in Nat /\ calls <= MaxCalls
           /\ Len(log) + Len(asyncCh) <= calls
           /\ asyncPending \in Nat /\ asyncPending <= calls
           /\ \A c \in Senders : asyncPending >= 1 /\ Len(log) + Len(asyncCh) < calls
           /\ pc[dispatcher] \in {"deliver", "settle"} => asyncPending >= 1
<1>1. Len(log) \in Nat /\ Len(asyncCh) \in Nat
  BY LenProperties DEF BusType
<1>2. calls \in Nat /\ calls <= MaxCalls /\ MaxCalls \in Nat /\ asyncPending \in Nat
  BY ConfigAssumption DEF BusType
<1>3. /\ Len(log) + Cardinality(Senders) + Len(asyncCh) <= calls
      /\ asyncPending = Cardinality(Senders) + Len(asyncCh) + AtWork
      /\ asyncPending <= calls
  BY DEF CountInv
<1>4. AtWork \in Nat /\ (pc[dispatcher] \in {"deliver", "settle"} => AtWork = 1)
  BY DEF AtWork
<1>5. QED
  BY <1>1, <1>2, <1>3, <1>4, SendersFinite

LEMMA Counts ==
    ASSUME BusType, ControlInv, CountInv
    PROVE  /\ Cardinality(Senders) \in Nat /\ AtWork \in Nat
           /\ Len(log) \in Nat /\ Len(asyncCh) \in Nat /\ calls \in Nat
           /\ Len(log) + Cardinality(Senders) + Len(asyncCh) <= calls
           /\ asyncPending <= calls
           /\ asyncPending = Cardinality(Senders) + Len(asyncCh) + AtWork
<1>1. /\ Len(log) + Cardinality(Senders) + Len(asyncCh) <= calls
      /\ asyncPending = Cardinality(Senders) + Len(asyncCh) + AtWork
      /\ asyncPending <= calls
  BY DEF CountInv
<1>2. AtWork \in Nat
  BY DEF AtWork
<1>3. QED
  BY <1>1, <1>2, SendersFinite, LogBounded

(* A journalled entry is well typed.                                       *)
LEMMA EntryTyped ==
    ASSUME BusType, NEW i \in 1 .. Len(log)
    PROVE  /\ DOMAIN log = 1 .. Len(log)
           /\ log[i] \in Entries
           /\ log[i].subject \in Subjects /\ log[i].by \in Clients
           /\ log[i].call \in 1 .. MaxCalls /\ log[i].async \in BOOLEAN
           /\ Logged(i).seq = i /\ Logged(i).subject = log[i].subject
<1>1. log[i] \in Entries /\ DOMAIN log = 1 .. Len(log)
  BY ElementOfSeq, LenProperties DEF BusType
<1>2. QED
  BY <1>1 DEF Entries, Logged

LEMMA CallTyped ==
    ASSUME BusType
    PROVE  /\ \A i \in DOMAIN log : log[i].call \in Nat
           /\ \A k \in DOMAIN asyncCh : asyncCh[k].call \in Nat
<1>1. \A i \in DOMAIN log : log[i] \in Entries
  BY ElementOfSeq, LenProperties DEF BusType
<1>2. \A k \in DOMAIN asyncCh : asyncCh[k] \in Entries
  BY ElementOfSeq, LenProperties DEF BusType
<1>3. \A e \in Entries : e.call \in Nat
  BY DEF Entries
<1>4. QED
  BY <1>1, <1>2, <1>3

LEMMA RetainedDistinct ==
    ASSUME BusType, ControlInv, CountInv, StickyInv, NEW s \in Subs
    PROVE  /\ Distinct(RetainedFor(s))
           /\ RetainedFor(s) \subseteq Items
           /\ \A e \in RetainedFor(s) : e.seq \in 1 .. Len(log)
<1>1. \A x \in Wants[s] : x \in Subjects /\ sticky[x] \in 0 .. Len(log)
  BY ConfigAssumption DEF BusType
<1>2. \A e \in RetainedFor(s) :
         /\ e.seq \in 1 .. Len(log) /\ e.subject \in Subjects
         /\ e = [seq |-> e.seq, subject |-> e.subject] /\ log[e.seq].subject = e.subject
  BY <1>1, LogBounded DEF RetainedFor, StickyInv
<1>3. RetainedFor(s) \subseteq Items
  BY <1>2, LogBounded DEF Items
<1>4. QED
  BY <1>2, <1>3, LogBounded DEF Distinct

LEMMA BacklogDistinct ==
    ASSUME BusType, ControlInv, CountInv, NEW P, P \subseteq DOMAIN log,
           NEW B, B = {Logged(i) : i \in P}
    PROVE  /\ Distinct(B)
           /\ B \subseteq Items
           /\ \A e \in B : e.seq \in 1 .. Len(log)
<1>1. \A e \in B : /\ e.seq \in 1 .. Len(log) /\ e = Logged(e.seq)
                   /\ e.subject \in Subjects
  BY EntryTyped, LogBounded
<1>2. \A e \in B : e.seq \in 0 .. MaxCalls /\ e = [seq |-> e.seq, subject |-> e.subject]
  BY <1>1, LogBounded DEF Logged
<1>3. B \subseteq Items
  BY <1>1, <1>2 DEF Items
<1>4. QED
  BY <1>1, <1>3, LogBounded DEF Distinct

-----------------------------------------------------------------------------
(* The kinds of steps the proofs distinguish.                              *)

(* A goroutine goes from one point of its call to the next.                *)
Move(p) == Delivered(p) \/ ShutdownDone(p) \/ Drained(p) \/ CloseStop(p) \/ DispatcherGone(p)

LEMMA StepKinds ==
    ASSUME ControlInv, ProcType, [Next]_vars
    PROVE  \/ \E c \in Clients : \E x \in Subjects : \E b \in BOOLEAN : Publish(c, x, b)
           \/ \E c \in Clients : \E x \in Subjects : Invalidate(c, x) \/ PublishAsync(c, x)
           \/ \E c \in Clients : \E s \in Subs : Subscribe(c, s) \/ Unsubscribe(c, s)
           \/ \E c \in Clients : \E s \in Subs : \E n \in 0 .. Len(log) : SubscribeDurable(c, s, n)
           \/ \E c \in Clients : AsyncSend(c) \/ AsyncRefused(c) \/ Close(c) \/ MarkClosed(c)
           \/ \E p \in Publishers : Move(p)
           \/ \E p \in Publishers : \E s \in Subs : Deliver(p, s)
           \/ \E c \in Clients : \E s \in Subs : Shutdown(c, s)
           \/ Dispatch \/ Settle \/ SeeStop \/ DispatcherExit
           \/ \E s \in Subs : PumpTake(s) \/ PumpSend(s) \/ PumpQuit(s) \/ Receive(s)
           \/ UNCHANGED vars
<1>1. /\ Posters \subseteq Clients /\ AsyncPosters \subseteq Clients
      /\ Owners \subseteq Clients /\ Closers \subseteq Clients
  BY ConfigAssumption
<1>2. ASSUME NEW c \in Clients, Request(c)
      PROVE  \/ \E x \in Subjects : \E b \in BOOLEAN : Publish(c, x, b)
             \/ \E x \in Subjects : Invalidate(c, x) \/ PublishAsync(c, x)
             \/ \E s \in Subs : Subscribe(c, s) \/ Unsubscribe(c, s)
             \/ \E s \in Subs : \E n \in 0 .. Len(log) : SubscribeDurable(c, s, n)
             \/ Close(c)
  BY <1>2 DEF Request
<1>3. ASSUME NEW p \in Publishers, Continue(p)
      PROVE  \/ Move(p)
             \/ p \in Clients /\ (AsyncSend(p) \/ AsyncRefused(p) \/ MarkClosed(p))
             \/ \E s \in Subs : Deliver(p, s)
             \/ p \in Clients /\ \E s \in Subs : Shutdown(p, s)
  <2>1. pc[p] \in {"send", "mark", "shutdown"} => p \in Clients
    BY DEF ControlInv, Publishers
  <2>2. AsyncSend(p) \/ AsyncRefused(p) \/ MarkClosed(p) => pc[p] \in {"send", "mark"}
    BY DEF AsyncSend, AsyncRefused, MarkClosed, Goto
  <2>3. \A s \in Subs : Shutdown(p, s) => pc[p] = "shutdown"
    BY DEF Shutdown
  <2>4. QED
    BY <1>3, <2>1, <2>2, <2>3 DEF Continue, Move
<1>4. CASE UNCHANGED vars
  BY <1>4
<1>5. CASE \E c \in Clients : Request(c)
  BY <1>2, <1>5
<1>6. CASE \E p \in Publishers : Continue(p)
  BY <1>3, <1>6
<1>7. CASE Dispatcher
  BY <1>7 DEF Dispatcher
<1>8. CASE \E s \in Subs : Consume(s)
  BY <1>8 DEF Consume
<1>9. QED
  BY <1>4, <1>5, <1>6, <1>7, <1>8 DEF Next

(* What is said of the journal and of the asynchronous publications.       *)
BusInv == BusType /\ CountInv /\ CallOrder /\ StickyInv /\ AcceptedKept

(* A step that leaves them alone.                                          *)
BusFrame ==
    /\ UNCHANGED <<log, sticky, calls, asyncCh, asyncPending, accepted>>
    /\ closed' \in BOOLEAN /\ stopped' \in BOOLEAN /\ (closed => closed')
    /\ Senders' = Senders /\ AtWork' = AtWork
    /\ \A c \in Senders : event'[c] = event[c]

LEMMA BusFrameStep ==
    ASSUME BusInv, BusFrame
    PROVE  BusInv'
<1> USE DEF BusFrame
<1>1. BusType'
  BY DEF BusInv, BusType
<1>2. CountInv'
  BY DEF BusInv, CountInv
<1>3. CallOrder'
  BY DEF BusInv, CallOrder
<1>4. StickyInv' /\ AcceptedKept'
  BY DEF BusInv, StickyInv, AcceptedKept, BusType
<1>5. QED
  BY <1>1, <1>2, <1>3, <1>4 DEF BusInv

LEMMA GotoFrame ==
    ASSUME ProcType, NEW p \in Publishers, NEW from, NEW to, Goto(p, from, to),
           from # "send", to # "send",
           p = dispatcher => (from \in {"deliver", "settle"} <=> to \in {"deliver", "settle"})
    PROVE  Senders' = Senders /\ AtWork' = AtWork
<1>1. pc' = [pc EXCEPT ![p] = to] /\ pc[p] = from /\ DOMAIN pc = Publishers
  BY DEF Goto, ProcType
<1>2. \A c \in Clients : pc'[c] = "send" <=> pc[c] = "send"
  BY <1>1 DEF Publishers
<1>3. AtWork' = AtWork
  BY <1>1 DEF AtWork, Publishers
<1>4. QED
  BY <1>2, <1>3 DEF Senders

(* Subscribing, delivering, consuming and closing touch neither.           *)
LEMMA QuietStep ==
    ASSUME BusType, ProcType, ControlInv,
           \/ \E c \in Clients : \E s \in Subs : Subscribe(c, s) \/ Unsubscribe(c, s)
           \/ \E c \in Clients : \E s \in Subs : \E n \in 0 .. Len(log) : SubscribeDurable(c, s, n)
           \/ \E c \in Clients : Close(c) \/ MarkClosed(c)
           \/ \E p \in Publishers : Move(p)
           \/ \E p \in Publishers : \E s \in Subs : Deliver(p, s)
           \/ \E c \in Clients : \E s \in Subs : Shutdown(c, s)
           \/ SeeStop \/ DispatcherExit
           \/ \E s \in Subs : PumpTake(s) \/ PumpSend(s) \/ PumpQuit(s) \/ Receive(s)
           \/ UNCHANGED vars
    PROVE  BusFrame
<1> USE DEF BusFrame, busVars, logVars, asyncVars, procVars
<1>0. /\ dispatcher \notin Clients /\ dispatcher \in Publishers /\ Clients \subseteq Publishers
      /\ closed \in BOOLEAN /\ stopped \in BOOLEAN
  BY ConfigAssumption DEF Publishers, BusType
<1>1. ASSUME UNCHANGED <<closed, stopped, log, sticky, calls, asyncCh, asyncPending, accepted, pc, event>>
      PROVE  BusFrame
  BY <1>0, <1>1 DEF Senders, AtWork
<1>2. ASSUME NEW c \in Clients, NEW s \in Subs, Subscribe(c, s)
      PROVE  BusFrame
  BY <1>1, <1>2 DEF Subscribe
<1>3. ASSUME NEW c \in Clients, NEW s \in Subs, Unsubscribe(c, s)
      PROVE  BusFrame
  <2>1. Senders' = Senders /\ AtWork' = AtWork
    BY <1>3, <1>0, GotoFrame DEF Unsubscribe
  <2>2. QED
    BY <2>1, <1>0, <1>3 DEF Unsubscribe
<1>4. ASSUME NEW c \in Clients, NEW s \in Subs, NEW n \in 0 .. Len(log), SubscribeDurable(c, s, n)
      PROVE  BusFrame
  BY <1>1, <1>4 DEF SubscribeDurable
<1>5. ASSUME NEW c \in Clients, Close(c) \/ MarkClosed(c)
      PROVE  BusFrame
  <2>1. Senders' = Senders /\ AtWork' = AtWork
    BY <1>5, <1>0, GotoFrame DEF Close, MarkClosed
  <2>2. QED
    BY <2>1, <1>0, <1>5 DEF Close, MarkClosed
<1>6. ASSUME NEW p \in Publishers, Move(p)
      PROVE  BusFrame
  <2>1. p = dispatcher => ~ ShutdownDone(p) /\ ~ Drained(p) /\ ~ CloseStop(p) /\ ~ DispatcherGone(p)
    BY DEF ControlInv, ShutdownDone, Drained, CloseStop, DispatcherGone, Goto
  <2>2. Senders' = Senders /\ AtWork' = AtWork
    <3>1. CASE Delivered(p)
      BY <3>1, GotoFrame DEF Delivered
    <3>2. CASE ShutdownDone(p)
      BY <3>2, <2>1, GotoFrame DEF ShutdownDone
    <3>3. CASE Drained(p)
      BY <3>3, <2>1, GotoFrame DEF Drained
    <3>4. CASE CloseStop(p)
      BY <3>4, <2>1, GotoFrame DEF CloseStop
    <3>5. CASE DispatcherGone(p)
      BY <3>5, <2>1, GotoFrame DEF DispatcherGone
    <3>6. QED
      BY <1>6, <3>1, <3>2, <3>3, <3>4, <3>5 DEF Move
  <2>3. \A c \in Senders : event'[c] = event[c]
    BY <1>6 DEF Move, Delivered, ShutdownDone, Drained, CloseStop, DispatcherGone, Goto, Senders,
                ProcType, Publishers
  <2>4. QED
    BY <2>2, <2>3, <1>0, <1>6 DEF Move, Delivered, ShutdownDone, Drained, CloseStop, DispatcherGone
<1>7. ASSUME NEW p \in Publishers, NEW s \in Subs, Deliver(p, s)
      PROVE  BusFrame
  BY <1>1, <1>7 DEF Deliver
<1>8. ASSUME NEW c \in Clients, NEW s \in Subs, Shutdown(c, s)
      PROVE  BusFrame
  BY <1>1, <1>8 DEF Shutdown
<1>9. CASE SeeStop \/ DispatcherExit
  <2>1. Senders' = Senders /\ AtWork' = AtWork
    BY <1>9, <1>0, GotoFrame DEF SeeStop, DispatcherExit
  <2>2. QED
    BY <2>1, <1>0, <1>9 DEF SeeStop, DispatcherExit
<1>10. ASSUME NEW s \in Subs, PumpTake(s) \/ PumpSend(s) \/ PumpQuit(s) \/ Receive(s)
       PROVE  BusFrame
  BY <1>1, <1>10 DEF PumpTake, PumpSend, PumpQuit, Receive
<1>11. CASE UNCHANGED vars
  BY <1>1, <1>11 DEF vars
<1>12. QED
  BY <1>2, <1>3, <1>4, <1>5, <1>6, <1>7, <1>8, <1>9, <1>10, <1>11

-----------------------------------------------------------------------------
(* The steps that do touch the journal, the channel or their counters.     *)

LEMMA PublishKeepsBus ==
    ASSUME BusInv, ProcType, ControlInv,
           NEW c \in Clients, NEW x \in Subjects, NEW b \in BOOLEAN, Publish(c, x, b)
    PROVE  BusInv'
<1> DEFINE entry == [subject |-> x, by |-> c, call |-> calls + 1, async |-> FALSE]
<1> USE DEF BusInv
<1>0. /\ log' = Append(log, entry) /\ calls' = calls + 1 /\ calls < MaxCalls
      /\ sticky' = IF b THEN [sticky EXCEPT ![x] = Len(log) + 1] ELSE sticky
      /\ event' = [event EXCEPT ![c] = [seq |-> Len(log) + 1, subject |-> x]]
      /\ UNCHANGED <<closed, stopped, asyncCh, asyncPending, accepted>>
      /\ Goto(c, "idle", "deliver")
  BY DEF Publish, Call, Journal, busVars, asyncVars
<1>1. Senders' = Senders /\ AtWork' = AtWork
  BY <1>0, GotoFrame, ConfigAssumption DEF Publishers
<1>2. \A d \in Senders : event'[d] = event[d]
  BY <1>0 DEF Goto, Senders, ProcType, Publishers
<1>3. entry \in Entries
  BY <1>0, LogBounded DEF Entries
<1> HIDE DEF entry
<1>4. /\ log' \in Seq(Entries) /\ Len(log') = Len(log) + 1
      /\ DOMAIN log = 1 .. Len(log) /\ DOMAIN log' = 1 .. Len(log) + 1
      /\ \A i \in DOMAIN log : log'[i] = log[i]
      /\ log'[Len(log) + 1] = entry
  BY <1>0, <1>3, AppendProperties, LenProperties DEF BusType
<1>5. entry.call = calls + 1 /\ ~ entry.async /\ entry.by = c /\ entry.subject = x
  BY DEF entry
<1>6. BusType'
  BY <1>0, <1>4, LogBounded DEF BusType
<1>7. CountInv'
  <2>1. \A i \in DOMAIN log' : log'[i].call <= calls'
    BY <1>0, <1>4, <1>5, LogBounded, EntryTyped DEF CountInv
  <2>2. \A k \in DOMAIN asyncCh : asyncCh[k].async /\ asyncCh[k].call <= calls'
    BY <1>0, CallTyped, LogBounded DEF CountInv
  <2>3. Len(log') + Cardinality(Senders) + Len(asyncCh) <= calls' /\ asyncPending <= calls'
    BY <1>0, <1>4, LogBounded, SendersFinite DEF CountInv
  <2>4. QED
    BY <2>1, <2>2, <2>3, <1>0, <1>1, <1>2, LogBounded DEF CountInv
<1>8. CallOrder'
  <2>1. ASSUME NEW i \in DOMAIN log', NEW j \in DOMAIN log', i < j, log'[i].by = log'[j].by,
               log'[i].async = log'[j].async
        PROVE  log'[i].call < log'[j].call
    <3>1. i \in DOMAIN log
      BY <2>1, <1>4, LogBounded
    <3>2. log[i].call <= calls /\ log[i].call \in Nat
      BY <3>1, <1>4, EntryTyped DEF CountInv
    <3>3. CASE j = Len(log) + 1
      BY <3>1, <3>2, <3>3, <1>4, <1>5, LogBounded
    <3>4. CASE j # Len(log) + 1
      BY <3>1, <3>4, <2>1, <1>4 DEF CallOrder
    <3>5. QED
      BY <3>3, <3>4
  <2>2. \A i \in DOMAIN log' : log'[i].async => i \in DOMAIN log /\ log'[i] = log[i]
    BY <1>4, <1>5
  <2>3. QED
    BY <2>1, <2>2, <1>0, <1>1, <1>2 DEF CallOrder
<1>9. StickyInv'
  BY <1>0, <1>4, <1>5, LogBounded DEF StickyInv, BusType
<1>10. AcceptedKept'
  BY <1>0, <1>4, <1>5, LogBounded DEF AcceptedKept
<1>11. QED
  BY <1>6, <1>7, <1>8, <1>9, <1>10

LEMMA InvalidateKeepsBus ==
    ASSUME BusInv, ProcType, ControlInv, NEW c \in Clients, NEW x \in Subjects, Invalidate(c, x)
    PROVE  BusInv'
<1> USE DEF BusInv
<1>0. /\ calls' = calls + 1 /\ calls < MaxCalls
      /\ sticky' = [sticky EXCEPT ![x] = 0]
      /\ UNCHANGED <<closed, stopped, log, asyncCh, asyncPending, accepted>>
      /\ Goto(c, "idle", "deliver")
  BY DEF Invalidate, Call, busVars, asyncVars
<1>1. Senders' = Senders /\ AtWork' = AtWork
  BY <1>0, GotoFrame, ConfigAssumption DEF Publishers
<1>2. \A d \in Senders : event'[d] = event[d]
  BY DEF Invalidate, Goto, Senders, ProcType, Publishers
<1>3. BusType'
  BY <1>0, LogBounded DEF BusType
<1>4. CountInv'
  <2>1. \A i \in DOMAIN log : log[i].call <= calls'
    BY <1>0, CallTyped, LogBounded DEF CountInv
  <2>2. \A k \in DOMAIN asyncCh : asyncCh[k].async /\ asyncCh[k].call <= calls'
    BY <1>0, CallTyped, LogBounded DEF CountInv
  <2>3. /\ Len(log) + Cardinality(Senders) + Len(asyncCh) <= calls'
        /\ asyncPending <= calls'
    BY <1>0, LogBounded, SendersFinite DEF CountInv
  <2>4. \A d \in Senders : event[d].seq \in 1 .. calls'
    BY <1>0, LogBounded DEF CountInv
  <2>5. QED
    BY <2>1, <2>2, <2>3, <2>4, <1>0, <1>1, <1>2 DEF CountInv
<1>5. CallOrder'
  BY <1>0, <1>1, <1>2 DEF CallOrder
<1>6. StickyInv' /\ AcceptedKept'
  BY <1>0 DEF StickyInv, AcceptedKept, BusType
<1>7. QED
  BY <1>3, <1>4, <1>5, <1>6

LEMMA PublishAsyncKeepsBus ==
    ASSUME BusInv, ProcType, ControlInv, NEW c \in Clients, NEW x \in Subjects, PublishAsync(c, x)
    PROVE  BusInv'
<1> USE DEF BusInv
<1>0. /\ calls' = calls + 1 /\ calls < MaxCalls /\ asyncPending' = asyncPending + 1
      /\ event' = [event EXCEPT ![c] = [seq |-> calls + 1, subject |-> x]]
      /\ UNCHANGED <<closed, stopped, log, sticky, asyncCh, accepted>>
      /\ pc[c] = "idle" /\ pc' = [pc EXCEPT ![c] = "send"]
  BY DEF PublishAsync, Call, busVars, Goto
<1>1. /\ Senders' = Senders \cup {c} /\ c \notin Senders /\ AtWork' = AtWork
      /\ event'[c] = [seq |-> calls + 1, subject |-> x]
      /\ \A d \in Senders : event'[d] = event[d]
  BY <1>0, ConfigAssumption DEF Senders, AtWork, ProcType, Publishers
<1>2. Cardinality(Senders') = Cardinality(Senders) + 1
  BY <1>1, SendersFinite, FS_AddElement
<1>3. BusType'
  BY <1>0, LogBounded DEF BusType
<1>4. CountInv'
  <2>1. \A i \in DOMAIN log : log[i].call <= calls'
    BY <1>0, CallTyped, LogBounded DEF CountInv
  <2>2. \A k \in DOMAIN asyncCh : asyncCh[k].async /\ asyncCh[k].call <= calls'
    BY <1>0, CallTyped, LogBounded DEF CountInv
  <2>3. /\ Len(log) + Cardinality(Senders') + Len(asyncCh) <= calls'
        /\ asyncPending' <= calls'
    BY <1>0, <1>2, Counts
  <2>4. asyncPending' = Cardinality(Senders') + Len(asyncCh) + AtWork
    BY <1>0, <1>2, Counts
  <2>5. \A d \in Senders' : event'[d].seq \in 1 .. calls' /\ event'[d].subject \in Subjects
    BY <1>0, <1>1, LogBounded DEF CountInv
  <2>6. QED
    BY <2>1, <2>2, <2>3, <2>4, <2>5, <1>0, <1>1 DEF CountInv
<1>5. CallOrder'
  <2>1. \A i \in DOMAIN log : log[i].call < event'[c].seq
    BY <1>1, CallTyped, LogBounded DEF CountInv
  <2>2. \A j \in DOMAIN asyncCh : asyncCh[j].call < event'[c].seq
    BY <1>1, CallTyped, LogBounded DEF CountInv
  <2>3. QED
    BY <2>1, <2>2, <1>0, <1>1 DEF CallOrder
<1>6. StickyInv' /\ AcceptedKept'
  BY <1>0 DEF StickyInv, AcceptedKept
<1>7. QED
  BY <1>3, <1>4, <1>5, <1>6

(* The sender leaves its select, with or without its event in the channel. *)
LEMMA SenderGone ==
    ASSUME ProcType, ControlInv, NEW c \in Clients, Goto(c, "send", "idle"),
           event' = [event EXCEPT ![c] = Idle]
    PROVE  /\ c \in Senders /\ Senders' = Senders \ {c} /\ AtWork' = AtWork
           /\ Cardinality(Senders') = Cardinality(Senders) - 1
           /\ \A d \in Senders' : event'[d] = event[d]
<1>1. c \in Senders /\ Senders' = Senders \ {c} /\ AtWork' = AtWork
  BY ConfigAssumption DEF Goto, Senders, AtWork, ProcType, Publishers
<1>2. Cardinality(Senders') = Cardinality(Senders) - 1
  BY <1>1, SendersFinite, FS_RemoveElement
<1>3. \A d \in Senders' : event'[d] = event[d]
  BY <1>1 DEF ProcType
<1>4. QED
  BY <1>1, <1>2, <1>3

LEMMA AsyncRefusedKeepsBus ==
    ASSUME BusInv, ProcType, ControlInv, NEW c \in Clients, AsyncRefused(c)
    PROVE  BusInv'
<1> USE DEF BusInv
<1>0. /\ asyncPending' = asyncPending - 1
      /\ UNCHANGED <<closed, stopped, log, sticky, calls, asyncCh, accepted>>
      /\ Goto(c, "send", "idle") /\ event' = [event EXCEPT ![c] = Idle]
  BY DEF AsyncRefused, busVars, logVars
<1>1. BusType'
  <2>1. asyncPending' \in 0 .. MaxCalls
    <3>1. c \in Senders
      BY <1>0, SenderGone
    <3>2. QED
      BY <3>1, <1>0, LogBounded
  <2>2. QED
    BY <1>0, <2>1 DEF BusType
<1>2. CountInv'
  <2>1. /\ Len(log) + Cardinality(Senders') + Len(asyncCh) <= calls
        /\ asyncPending' <= calls
        /\ asyncPending' = Cardinality(Senders') + Len(asyncCh) + AtWork
    <3>1. Cardinality(Senders') = Cardinality(Senders) - 1
      BY <1>0, SenderGone
    <3>2. QED
      BY <3>1, <1>0, Counts
  <2>2. QED
    BY <2>1, <1>0, SenderGone DEF CountInv
<1>3. CallOrder'
  BY <1>0, SenderGone DEF CallOrder
<1>4. StickyInv' /\ AcceptedKept'
  BY <1>0 DEF StickyInv, AcceptedKept
<1>5. QED
  BY <1>1, <1>2, <1>3, <1>4

LEMMA AsyncSendKeepsBus ==
    ASSUME BusInv, ProcType, ControlInv, NEW c \in Clients, AsyncSend(c)
    PROVE  BusInv'
<1> DEFINE entry == [subject |-> event[c].subject, by |-> c, call |-> event[c].seq, async |-> TRUE]
<1> USE DEF BusInv
<1>0. /\ asyncCh' = Append(asyncCh, entry)
      /\ accepted' = accepted \cup {event[c].seq}
      /\ UNCHANGED <<closed, stopped, log, sticky, calls, asyncPending>>
      /\ Goto(c, "send", "idle") /\ event' = [event EXCEPT ![c] = Idle]
  BY DEF AsyncSend, busVars, logVars
<1>1. /\ c \in Senders /\ Senders' = Senders \ {c} /\ AtWork' = AtWork
      /\ Cardinality(Senders') = Cardinality(Senders) - 1
      /\ \A d \in Senders' : event'[d] = event[d]
  BY <1>0, SenderGone
<1>2. event[c].seq \in 1 .. calls /\ event[c].subject \in Subjects
  BY <1>1 DEF CountInv
<1>3. entry \in Entries
  BY <1>2, LogBounded DEF Entries
<1>4. /\ entry.by = c /\ entry.call = event[c].seq /\ entry.async
  OBVIOUS
<1> HIDE DEF entry
<1>5. /\ asyncCh' \in Seq(Entries) /\ Len(asyncCh') = Len(asyncCh) + 1
      /\ DOMAIN asyncCh = 1 .. Len(asyncCh) /\ DOMAIN asyncCh' = 1 .. Len(asyncCh) + 1
      /\ \A i \in DOMAIN asyncCh : asyncCh'[i] = asyncCh[i]
      /\ asyncCh'[Len(asyncCh) + 1] = entry
  BY <1>0, <1>3, AppendProperties, LenProperties DEF BusType
<1>6. BusType'
  <2>1. accepted' \subseteq 1 .. MaxCalls
    <3>1. event[c].seq \in 1 .. MaxCalls
      BY <1>2, LogBounded
    <3>2. QED
      BY <1>0, <3>1 DEF BusType
  <2>2. QED
    BY <1>0, <1>5, <2>1 DEF BusType
<1>7. CountInv'
  <2>1. /\ Len(log) + Cardinality(Senders') + Len(asyncCh') <= calls
        /\ asyncPending <= calls
        /\ asyncPending = Cardinality(Senders') + Len(asyncCh') + AtWork
    BY <1>1, <1>5, Counts
  <2>2. \A k \in DOMAIN asyncCh' : asyncCh'[k].async /\ asyncCh'[k].call <= calls
    BY <1>2, <1>4, <1>5, LogBounded DEF CountInv
  <2>3. QED
    BY <2>1, <2>2, <1>0, <1>1 DEF CountInv
<1>8. CallOrder'
  <2>1. ASSUME NEW i \in DOMAIN asyncCh', NEW j \in DOMAIN asyncCh', i < j,
               asyncCh'[i].by = asyncCh'[j].by
        PROVE  asyncCh'[i].call < asyncCh'[j].call
    <3>1. i \in DOMAIN asyncCh
      BY <2>1, <1>5, LogBounded
    <3>2. CASE j = Len(asyncCh) + 1
      BY <3>1, <3>2, <2>1, <1>1, <1>4, <1>5 DEF CallOrder
    <3>3. CASE j # Len(asyncCh) + 1
      BY <3>1, <3>3, <2>1, <1>5 DEF CallOrder
    <3>4. QED
      BY <3>2, <3>3
  <2>2. ASSUME NEW i \in DOMAIN log, NEW j \in DOMAIN asyncCh', log[i].async, log[i].by = asyncCh'[j].by
        PROVE  log[i].call < asyncCh'[j].call
    <3>1. CASE j = Len(asyncCh) + 1
      BY <3>1, <2>2, <1>1, <1>4, <1>5 DEF CallOrder
    <3>2. CASE j # Len(asyncCh) + 1
      BY <3>2, <2>2, <1>5 DEF CallOrder
    <3>3. QED
      BY <3>1, <3>2
  <2>3. ASSUME NEW d \in Senders', NEW j \in DOMAIN asyncCh', asyncCh'[j].by = d
        PROVE  asyncCh'[j].call < event'[d].seq
    <3>1. j \in DOMAIN asyncCh
      BY <2>3, <1>1, <1>4, <1>5
    <3>2. QED
      BY <3>1, <2>3, <1>1, <1>5 DEF CallOrder
  <2>4. QED
    BY <2>1, <2>2, <2>3, <1>0, <1>1 DEF CallOrder
<1>9. StickyInv'
  BY <1>0 DEF StickyInv
<1>10. AcceptedKept'
  <2>1. Len(asyncCh) + 1 \in DOMAIN asyncCh' /\ asyncCh'[Len(asyncCh) + 1].call = event[c].seq
    BY <1>4, <1>5, LogBounded
  <2>2. \A i \in DOMAIN asyncCh : i \in DOMAIN asyncCh'
    BY <1>5, LogBounded
  <2>3. QED
    BY <2>1, <2>2, <1>0, <1>5 DEF AcceptedKept
<1>11. QED
  BY <1>6, <1>7, <1>8, <1>9, <1>10

LEMMA SettleKeepsBus ==
    ASSUME BusInv, ProcType, ControlInv, Settle
    PROVE  BusInv'
<1> USE DEF BusInv
<1>0. /\ asyncPending' = asyncPending - 1
      /\ UNCHANGED <<closed, stopped, log, sticky, calls, asyncCh, accepted, event>>
      /\ Goto(dispatcher, "settle", "select")
  BY DEF Settle, busVars, logVars
<1>1. Senders' = Senders /\ AtWork = 1 /\ AtWork' = 0
  BY <1>0, ConfigAssumption DEF Goto, Senders, AtWork, ProcType, Publishers
<1>2. asyncPending' \in 0 .. MaxCalls
  <2>1. pc[dispatcher] = "settle"
    BY <1>0 DEF Goto
  <2>2. QED
    BY <1>0, <2>1, LogBounded
<1>3. BusType'
  BY <1>0, <1>2 DEF BusType
<1>4. CountInv'
  <2>1. /\ Len(log) + Cardinality(Senders) + Len(asyncCh) <= calls
        /\ asyncPending' <= calls
        /\ asyncPending' = Cardinality(Senders) + Len(asyncCh) + 0
    BY <1>0, <1>1, Counts
  <2>2. QED
    BY <2>1, <1>0, <1>1 DEF CountInv
<1>5. CallOrder' /\ StickyInv' /\ AcceptedKept'
  BY <1>0, <1>1 DEF CallOrder, StickyInv, AcceptedKept
<1>6. QED
  BY <1>3, <1>4, <1>5

(* The head of the channel, and what is left of it.                        *)
LEMMA DispatchTakes ==
    ASSUME BusType, Dispatch
    PROVE  /\ asyncCh' \in Seq(Entries) /\ Len(asyncCh') = Len(asyncCh) - 1 /\ Len(asyncCh) >= 1
           /\ Head(asyncCh) = asyncCh[1] /\ 1 \in DOMAIN asyncCh /\ Head(asyncCh) \in Entries
           /\ \A k \in DOMAIN asyncCh' : k + 1 \in DOMAIN asyncCh /\ asyncCh'[k] = asyncCh[k + 1]
           /\ \A k \in DOMAIN asyncCh : k = 1 \/ k - 1 \in DOMAIN asyncCh'
           /\ DOMAIN asyncCh' \subseteq Nat /\ DOMAIN asyncCh \subseteq Nat
           /\ Head(asyncCh).subject \in Subjects
<1>1. asyncCh \in Seq(Entries) /\ asyncCh # <<>> /\ asyncCh' = Tail(asyncCh)
  BY DEF Dispatch, BusType
<1>2. /\ Tail(asyncCh) \in Seq(Entries) /\ Len(Tail(asyncCh)) = Len(asyncCh) - 1
      /\ Head(asyncCh) = asyncCh[1] /\ Head(asyncCh) \in Entries
      /\ \A k \in 1 .. Len(Tail(asyncCh)) : Tail(asyncCh)[k] = asyncCh[k + 1]
  BY <1>1, HeadTailProperties
<1>3. /\ DOMAIN asyncCh = 1 .. Len(asyncCh) /\ Len(asyncCh) \in Nat /\ Len(asyncCh) >= 1
      /\ DOMAIN asyncCh' = 1 .. Len(asyncCh) - 1
  BY <1>1, <1>2, LenProperties
<1>4. Head(asyncCh).subject \in Subjects
  BY <1>2 DEF Entries
<1>5. QED
  BY <1>1, <1>2, <1>3, <1>4

LEMMA DispatchKeepsBus ==
    ASSUME BusInv, ProcType, ControlInv, Dispatch
    PROVE  BusInv'
<1> DEFINE entry == Head(asyncCh)
<1> USE DEF BusInv
<1>0. /\ UNCHANGED <<closed, stopped, calls, asyncPending, accepted>>
      /\ pc[dispatcher] \in {"select", "flush"}
      /\ closed => UNCHANGED <<log, sticky, event>> /\ pc' = [pc EXCEPT ![dispatcher] = "settle"]
      /\ ~closed => /\ log' = Append(log, entry) /\ UNCHANGED sticky
                    /\ \A c \in Clients : event'[c] = event[c]
                    /\ pc' = [pc EXCEPT ![dispatcher] = "deliver"]
  BY ConfigAssumption DEF Dispatch, Journal, busVars, ProcType, Publishers
<1>1. /\ Senders' = Senders /\ AtWork = 0 /\ AtWork' = 1
      /\ \A c \in Senders : event'[c] = event[c]
  BY <1>0, ConfigAssumption DEF Senders, AtWork, ProcType, Publishers
<1>2. /\ entry \in Entries /\ entry = asyncCh[1] /\ entry.async
  BY DispatchTakes DEF CountInv
<1>3. ASSUME ~closed
      PROVE  /\ log' \in Seq(Entries) /\ Len(log') = Len(log) + 1
             /\ DOMAIN log = 1 .. Len(log) /\ DOMAIN log' = 1 .. Len(log) + 1
             /\ \A i \in DOMAIN log : log'[i] = log[i]
             /\ log'[Len(log) + 1] = entry
  <2>1. log' = Append(log, entry) /\ log \in Seq(Entries)
    BY <1>0, <1>3 DEF BusType
  <2> HIDE DEF entry
  <2>2. QED
    BY <2>1, <1>2, AppendProperties, LenProperties
<1> HIDE DEF entry
<1>4. BusType'
  <2>1. CASE closed
    BY <2>1, <1>0, DispatchTakes DEF BusType
  <2>2. CASE ~closed
    BY <2>2, <1>0, <1>3, DispatchTakes, LogBounded DEF BusType
  <2>3. QED
    BY <2>1, <2>2
<1>5. CountInv'
  <2>0. Len(asyncCh') = Len(asyncCh) - 1 /\ (Len(log') = Len(log) \/ Len(log') = Len(log) + 1)
    BY <1>0, <1>3, DispatchTakes
  <2>1. /\ asyncPending = Cardinality(Senders) + Len(asyncCh') + 1 /\ asyncPending <= calls
        /\ Len(log) + 1 + Cardinality(Senders) + Len(asyncCh') <= calls
    <3> DEFINE m == Len(asyncCh)
               n == Cardinality(Senders)
               g == Len(log)
    <3>1. /\ m \in Nat /\ n \in Nat /\ g \in Nat /\ g + n + m <= calls /\ calls \in Nat
          /\ asyncPending <= calls /\ asyncPending = n + m + 0
      BY <1>1, Counts
    <3>2. Len(asyncCh') = m - 1
      BY <2>0
    <3> HIDE DEF m, n, g
    <3>3. /\ asyncPending = n + (m - 1) + 1 /\ asyncPending <= calls
          /\ g + 1 + n + (m - 1) <= calls
      BY <3>1
    <3>4. QED
      BY <3>2, <3>3 DEF n, g
  <2>2. Len(log') + Cardinality(Senders) + Len(asyncCh') <= calls
    <3> DEFINE m == Len(asyncCh')
               n == Cardinality(Senders)
               g == Len(log)
    <3>1. m \in Int /\ n \in Nat /\ g \in Nat /\ calls \in Nat /\ g + 1 + n + m <= calls
      BY <2>0, <2>1, Counts
    <3>2. Len(log') = g \/ Len(log') = g + 1
      BY <2>0
    <3> HIDE DEF m, n, g
    <3>3. Len(log') + n + m <= calls
      BY <3>1, <3>2
    <3>4. QED
      BY <3>3 DEF m, n
  <2>3. \A k \in DOMAIN asyncCh' : asyncCh'[k].async /\ asyncCh'[k].call <= calls
    BY DispatchTakes DEF CountInv
  <2>4. \A i \in DOMAIN log' : log'[i].call <= calls
    BY <1>0, <1>2, <1>3, DispatchTakes DEF CountInv
  <2>5. QED
    BY <2>1, <2>2, <2>3, <2>4, <1>0, <1>1 DEF CountInv
<1>6. CallOrder'
  <2>1. ASSUME NEW i \in DOMAIN log', NEW j \in DOMAIN log', i < j, log'[i].by = log'[j].by,
               log'[i].async = log'[j].async
        PROVE  log'[i].call < log'[j].call
    <3>1. CASE closed
      BY <3>1, <2>1, <1>0 DEF CallOrder
    <3>2. CASE ~closed
      <4>1. i \in DOMAIN log
        BY <3>2, <2>1, <1>3, LogBounded
      <4>2. CASE j = Len(log) + 1
        <5>1. log'[i] = log[i] /\ log'[j] = asyncCh[1] /\ log[i].async
          BY <4>1, <4>2, <3>2, <2>1, <1>2, <1>3
        <5>2. QED
          BY <4>1, <5>1, <2>1, DispatchTakes DEF CallOrder
      <4>3. CASE j # Len(log) + 1
        BY <4>1, <4>3, <3>2, <2>1, <1>3 DEF CallOrder
      <4>4. QED
        BY <4>2, <4>3
    <3>3. QED
      BY <3>1, <3>2
  <2>2. ASSUME NEW i \in DOMAIN asyncCh', NEW j \in DOMAIN asyncCh', i < j,
               asyncCh'[i].by = asyncCh'[j].by
        PROVE  asyncCh'[i].call < asyncCh'[j].call
    <3>1. i + 1 < j + 1
      BY <2>2, DispatchTakes
    <3>2. QED
      BY <3>1, <2>2, DispatchTakes DEF CallOrder
  <2>3. ASSUME NEW i \in DOMAIN log', NEW j \in DOMAIN asyncCh', log'[i].async, log'[i].by = asyncCh'[j].by
        PROVE  log'[i].call < asyncCh'[j].call
    <3>1. CASE i \in DOMAIN log
      <4>1. log'[i] = log[i]
        BY <3>1, <1>0, <1>3
      <4>2. QED
        BY <3>1, <4>1, <2>3, DispatchTakes DEF CallOrder
    <3>2. CASE i \notin DOMAIN log
      <4>1. log'[i] = asyncCh[1]
        BY <3>2, <2>3, <1>0, <1>2, <1>3
      <4>2. 1 < j + 1
        BY <2>3, DispatchTakes, LenProperties
      <4>3. QED
        BY <4>1, <4>2, <2>3, DispatchTakes DEF CallOrder
    <3>3. QED
      BY <3>1, <3>2
  <2>4. ASSUME NEW c \in Senders, NEW i \in DOMAIN log', log'[i].async, log'[i].by = c
        PROVE  log'[i].call < event'[c].seq
    <3>1. CASE i \in DOMAIN log
      <4>1. log'[i] = log[i]
        BY <3>1, <1>0, <1>3
      <4>2. QED
        BY <3>1, <4>1, <2>4, <1>1 DEF CallOrder
    <3>2. CASE i \notin DOMAIN log
      <4>1. log'[i] = asyncCh[1]
        BY <3>2, <2>4, <1>0, <1>2, <1>3
      <4>2. QED
        BY <4>1, <2>4, <1>1, DispatchTakes DEF CallOrder
    <3>3. QED
      BY <3>1, <3>2
  <2>5. ASSUME NEW c \in Senders, NEW j \in DOMAIN asyncCh', asyncCh'[j].by = c
        PROVE  asyncCh'[j].call < event'[c].seq
    BY <2>5, <1>1, DispatchTakes DEF CallOrder
  <2>6. QED
    BY <2>1, <2>2, <2>3, <2>4, <2>5, <1>1 DEF CallOrder
<1>7. StickyInv'
  BY <1>0, <1>3, LogBounded DEF StickyInv, BusType
<1>8. AcceptedKept'
  <2> SUFFICES ASSUME ~closed, NEW n \in accepted
               PROVE  \/ \E i \in DOMAIN log' : log'[i].async /\ log'[i].call = n
                      \/ \E i \in DOMAIN asyncCh' : asyncCh'[i].call = n
    BY <1>0 DEF AcceptedKept
  <2>1. CASE \E i \in DOMAIN log : log[i].async /\ log[i].call = n
    BY <2>1, <1>3, LogBounded
  <2>2. ASSUME NEW i \in DOMAIN asyncCh, asyncCh[i].call = n
        PROVE  \/ \E k \in DOMAIN log' : log'[k].async /\ log'[k].call = n
               \/ \E k \in DOMAIN asyncCh' : asyncCh'[k].call = n
    <3>1. CASE i = 1
      <4>1. Len(log) + 1 \in DOMAIN log' /\ log'[Len(log) + 1] = asyncCh[1]
        BY <1>2, <1>3, LogBounded
      <4>2. QED
        BY <4>1, <3>1, <2>2, <1>2
    <3>2. CASE i # 1
      <4>1. i - 1 \in DOMAIN asyncCh' /\ (i - 1) + 1 = i
        BY <3>2, DispatchTakes
      <4>2. asyncCh'[i - 1] = asyncCh[i]
        BY <4>1, DispatchTakes
      <4>3. QED
        BY <4>1, <4>2, <2>2
    <3>3. QED
      BY <3>1, <3>2
  <2>3. QED
    BY <2>1, <2>2 DEF AcceptedKept
<1>9. QED
  BY <1>4, <1>5, <1>6, <1>7, <1>8

LEMMA BusStep ==
    ASSUME BusInv, ProcType, ControlInv, [Next]_vars
    PROVE  BusInv'
<1> USE DEF BusInv
<1>1. CASE \E c \in Clients : \E x \in Subjects : \E b \in BOOLEAN : Publish(c, x, b)
  BY <1>1, PublishKeepsBus
<1>2. CASE \E c \in Clients : \E x \in Subjects : Invalidate(c, x) \/ PublishAsync(c, x)
  BY <1>2, InvalidateKeepsBus, PublishAsyncKeepsBus
<1>3. CASE \E c \in Clients : AsyncSend(c) \/ AsyncRefused(c)
  BY <1>3, AsyncSendKeepsBus, AsyncRefusedKeepsBus
<1>4. CASE Dispatch \/ Settle
  BY <1>4, DispatchKeepsBus, SettleKeepsBus
<1>5. CASE BusFrame
  BY <1>5, BusFrameStep
<1> HIDE DEF BusInv
<1>6. BusType
  BY DEF BusInv
<1>7. QED
  BY <1>1, <1>2, <1>3, <1>4, <1>5, <1>6, StepKinds, QuietStep

-----------------------------------------------------------------------------
(* Where each goroutine is, and what it is delivering.                     *)

ClientPCs == {"idle", "deliver", "send", "shutdown", "drain", "mark", "stop", "wait", "panicked"}
DispatcherPCs == {"select", "flush", "deliver", "settle", "exited"}

(* At most one goroutine moves, and it stays in its own part.              *)
Moves(p, to) == /\ pc' = [pc EXCEPT ![p] = to]
                /\ p \in Clients => to \in ClientPCs
                /\ p = dispatcher => to \in DispatcherPCs

LEMMA OneMoves ==
    ASSUME ControlInv, ProcType, [Next]_vars
    PROVE  pc' = pc \/ \E p \in Publishers : \E to \in ClientPCs \cup DispatcherPCs : Moves(p, to)
<1> USE DEF ClientPCs, DispatcherPCs, Goto, Moves
<1>0. /\ dispatcher \notin Clients /\ dispatcher \in Publishers /\ Clients \subseteq Publishers
      /\ Publishers = Clients \cup {dispatcher}
  BY ConfigAssumption DEF Publishers
<1>1. ASSUME NEW c \in Clients, NEW to \in ClientPCs, pc' = [pc EXCEPT ![c] = to]
      PROVE  \E p \in Publishers : \E l \in ClientPCs \cup DispatcherPCs : Moves(p, l)
  BY <1>0, <1>1
<1>2. ASSUME NEW to \in DispatcherPCs, pc' = [pc EXCEPT ![dispatcher] = to]
      PROVE  \E p \in Publishers : \E l \in ClientPCs \cup DispatcherPCs : Moves(p, l)
  BY <1>0, <1>2
<1>3. ASSUME NEW p \in Publishers, Move(p)
      PROVE  \/ p \in Clients /\ \E to \in ClientPCs : pc' = [pc EXCEPT ![p] = to]
             \/ p = dispatcher /\ \E to \in DispatcherPCs : pc' = [pc EXCEPT ![dispatcher] = to]
  <2>1. p = dispatcher => ~ ShutdownDone(p) /\ ~ Drained(p) /\ ~ CloseStop(p) /\ ~ DispatcherGone(p)
    BY DEF ControlInv, ShutdownDone, Drained, CloseStop, DispatcherGone
  <2>2. CASE Delivered(p)
    BY <2>2, <1>0 DEF Delivered
  <2>3. CASE ShutdownDone(p) \/ Drained(p) \/ CloseStop(p) \/ DispatcherGone(p)
    BY <2>1, <2>3, <1>0 DEF ShutdownDone, Drained, CloseStop, DispatcherGone
  <2>4. QED
    BY <1>3, <2>2, <2>3 DEF Move
<1>4. ASSUME NEW c \in Clients,
             \/ \E x \in Subjects : \E b \in BOOLEAN : Publish(c, x, b)
             \/ \E x \in Subjects : Invalidate(c, x) \/ PublishAsync(c, x)
             \/ \E s \in Subs : Unsubscribe(c, s)
             \/ AsyncSend(c) \/ AsyncRefused(c) \/ Close(c) \/ MarkClosed(c)
      PROVE  \E to \in ClientPCs : pc' = [pc EXCEPT ![c] = to]
  BY <1>4 DEF Publish, Invalidate, PublishAsync, Unsubscribe, AsyncSend, AsyncRefused, Close, MarkClosed
<1>5. ASSUME Dispatch \/ Settle \/ SeeStop \/ DispatcherExit
      PROVE  \E to \in DispatcherPCs : pc' = [pc EXCEPT ![dispatcher] = to]
  BY <1>5 DEF Dispatch, Settle, SeeStop, DispatcherExit
<1>6. ASSUME \/ \E c \in Clients : \E s \in Subs : Subscribe(c, s) \/ Shutdown(c, s)
             \/ \E c \in Clients : \E s \in Subs : \E n \in 0 .. Len(log) : SubscribeDurable(c, s, n)
             \/ \E p \in Publishers : \E s \in Subs : Deliver(p, s)
             \/ \E s \in Subs : PumpTake(s) \/ PumpSend(s) \/ PumpQuit(s) \/ Receive(s)
             \/ UNCHANGED vars
      PROVE  pc' = pc
  BY <1>6 DEF Subscribe, Shutdown, SubscribeDurable, Deliver, PumpTake, PumpSend, PumpQuit, Receive,
              vars, procVars
<1> HIDE DEF ClientPCs, DispatcherPCs, Goto, Moves
<1>7. QED
  BY <1>1, <1>2, <1>3, <1>4, <1>5, <1>6, StepKinds

LEMMA ControlStep ==
    ASSUME ControlInv, ProcType, [Next]_vars
    PROVE  ControlInv' /\ pc' \in [Publishers -> ClientPCs \cup DispatcherPCs]
<1>0. /\ dispatcher \notin Clients /\ dispatcher \in Publishers
      /\ Publishers = Clients \cup {dispatcher}
  BY ConfigAssumption DEF Publishers
<1>1. CASE pc' = pc
  BY <1>1 DEF ControlInv, Busy, ProcType, ClientPCs, DispatcherPCs
<1>2. ASSUME NEW p \in Publishers, NEW to \in ClientPCs \cup DispatcherPCs, Moves(p, to)
      PROVE  ControlInv' /\ pc' \in [Publishers -> ClientPCs \cup DispatcherPCs]
  <2>0. pc \in [Publishers -> ClientPCs \cup DispatcherPCs]
    BY DEF ProcType, ClientPCs, DispatcherPCs
  <2>1. /\ pc' \in [Publishers -> ClientPCs \cup DispatcherPCs]
        /\ pc'[p] = to /\ \A q \in Publishers : q # p => pc'[q] = pc[q]
    BY <1>2, <2>0 DEF Moves
  <2>2. (\A c \in Clients : pc'[c] \in ClientPCs) /\ pc'[dispatcher] \in DispatcherPCs
    BY <1>0, <1>2, <2>1 DEF ControlInv, ClientPCs, DispatcherPCs, Moves
  <2>3. IsFiniteSet(Busy \cup {p})
    BY FS_AddElement DEF ControlInv
  <2>4. Busy' \in SUBSET (Busy \cup {p})
    BY <2>1 DEF Busy
  <2>5. IsFiniteSet(Busy')
    BY <2>3, <2>4, FS_Subset
  <2>6. QED
    BY <2>1, <2>2, <2>5 DEF ControlInv, ClientPCs, DispatcherPCs
<1>3. QED
  BY <1>1, <1>2, OneMoves

LEMMA ProcTypeStep ==
    ASSUME BusInv, ProcType, SubType, ControlInv, [Next]_vars
    PROVE  ProcType'
<1>a. BusType /\ CountInv
  BY DEF BusInv
<1> DEFINE Targets == [Publishers -> SUBSET Subs]
           Events == [Publishers -> Items]
<1>0. /\ event \in Events /\ targets \in Targets /\ subs \in SUBSET Subs
      /\ Clients \subseteq Publishers /\ dispatcher \in Publishers
      /\ \A x : Matching(x) \in SUBSET Subs
  BY DEF ProcType, SubType, Publishers, Matching
<1>1. Idle \in Items /\ \A i \in 0 .. MaxCalls : \A x \in Subjects : [seq |-> i, subject |-> x] \in Items
  BY ConfigAssumption DEF Items, Idle
<1>2. \A p \in Publishers : \A e \in Items : \A T \in SUBSET Subs :
         /\ [event EXCEPT ![p] = e] \in Events
         /\ [targets EXCEPT ![p] = T] \in Targets
  BY <1>0
<1>3. \A p \in Publishers : \A T \in SUBSET Subs : [targets EXCEPT ![p] = T] \in Targets
  BY <1>0
<1> HIDE DEF Targets, Events
<1>4. ASSUME NEW p \in Publishers, NEW entry, entry.subject \in Subjects, NEW b \in BOOLEAN,
             Journal(p, entry, b), Len(log) < MaxCalls
      PROVE  event' \in Events /\ targets' \in Targets
  <2>1. Len(log) + 1 \in 0 .. MaxCalls
    BY <1>4, <1>a, LogBounded
  <2>2. [seq |-> Len(log) + 1, subject |-> entry.subject] \in Items
    BY <1>1, <1>4, <2>1
  <2>3. QED
    BY <1>0, <1>2, <1>3, <1>4, <2>2 DEF Journal
<1>5. ASSUME NEW c \in Clients, NEW x \in Subjects, NEW b \in BOOLEAN, Publish(c, x, b)
      PROVE  event' \in Events /\ targets' \in Targets
  <2>1. Len(log) < MaxCalls
    BY <1>5, <1>a, LogBounded DEF Publish, Call
  <2>2. QED
    BY <1>0, <1>4, <1>5, <2>1 DEF Publish
<1>6. ASSUME NEW c \in Clients, NEW x \in Subjects, Invalidate(c, x) \/ PublishAsync(c, x)
      PROVE  event' \in Events /\ targets' \in Targets
  <2>1. CASE Invalidate(c, x)
    <3>1. [seq |-> 0, subject |-> x] \in Items
      BY <1>1, <1>a, LogBounded
    <3>2. (IF sticky[x] # 0 THEN Matching(x) ELSE {}) \in SUBSET Subs
      BY <1>0
    <3>3. QED
      BY <1>0, <1>2, <1>3, <2>1, <3>1, <3>2 DEF Invalidate
  <2>2. CASE PublishAsync(c, x)
    <3>1. calls' \in 0 .. MaxCalls /\ UNCHANGED targets
          /\ event' = [event EXCEPT ![c] = [seq |-> calls', subject |-> x]]
      BY <2>2, <1>a, LogBounded DEF PublishAsync, Call
    <3>2. QED
      BY <1>0, <1>1, <1>2, <3>1
  <2>3. QED
    BY <1>6, <2>1, <2>2
<1>7. ASSUME Dispatch
      PROVE  event' \in Events /\ targets' \in Targets
  <2>1. CASE closed
    <3>1. UNCHANGED <<event, targets>>
      BY <1>7, <2>1 DEF Dispatch
    <3>2. QED
      BY <1>0, <3>1
  <2>2. CASE ~closed
    <3>1. Len(log) < MaxCalls
      BY <1>7, <1>a, DispatchTakes, LogBounded
    <3>2. Head(asyncCh).subject \in Subjects
      BY <1>7, <1>a, DispatchTakes
    <3>3. Journal(dispatcher, Head(asyncCh), FALSE)
      BY <1>7, <2>2 DEF Dispatch
    <3>4. QED
      BY <1>0, <1>4, <3>1, <3>2, <3>3
  <2>3. QED
    BY <2>1, <2>2
<1>8. ASSUME NEW p \in Publishers, Move(p)
      PROVE  event' \in Events /\ targets' \in Targets
  BY <1>0, <1>1, <1>2, <1>8 DEF Move, Delivered, ShutdownDone, Drained, CloseStop, DispatcherGone
<1>9. ASSUME NEW c \in Clients, AsyncSend(c) \/ AsyncRefused(c) \/ Close(c) \/ MarkClosed(c)
      PROVE  event' \in Events /\ targets' \in Targets
  BY <1>0, <1>1, <1>2, <1>3, <1>9 DEF AsyncSend, AsyncRefused, Close, MarkClosed
<1>10. ASSUME NEW c \in Clients, NEW s \in Subs,
              \/ Subscribe(c, s) \/ Unsubscribe(c, s) \/ Shutdown(c, s)
              \/ \E n \in 0 .. Len(log) : SubscribeDurable(c, s, n)
       PROVE  event' \in Events /\ targets' \in Targets
  <2>1. targets[c] \ {s} \in SUBSET Subs /\ {s} \in SUBSET Subs
    BY <1>0 DEF Targets
  <2>2. QED
    BY <1>0, <1>3, <1>10, <2>1 DEF Subscribe, Unsubscribe, Shutdown, SubscribeDurable, procVars
<1>11. ASSUME NEW p \in Publishers, NEW s \in Subs, Deliver(p, s)
       PROVE  event' \in Events /\ targets' \in Targets
  <2>1. targets[p] \ {s} \in SUBSET Subs
    BY <1>0 DEF Targets
  <2>2. QED
    BY <1>0, <1>3, <1>11, <2>1 DEF Deliver
<1>12. ASSUME \/ Settle \/ SeeStop \/ DispatcherExit
              \/ \E s \in Subs : PumpTake(s) \/ PumpSend(s) \/ PumpQuit(s) \/ Receive(s)
              \/ UNCHANGED vars
       PROVE  event' \in Events /\ targets' \in Targets
  BY <1>0, <1>12 DEF Settle, SeeStop, DispatcherExit, PumpTake, PumpSend, PumpQuit, Receive, vars, procVars
<1>13. event' \in Events /\ targets' \in Targets
  <2>1. CASE \E c \in Clients : \E x \in Subjects : \E b \in BOOLEAN : Publish(c, x, b)
    BY <1>5, <2>1
  <2>2. CASE \E c \in Clients : \E x \in Subjects : Invalidate(c, x) \/ PublishAsync(c, x)
    BY <1>6, <2>2
  <2>3. CASE \E c \in Clients : \E s \in Subs : Subscribe(c, s) \/ Unsubscribe(c, s)
    BY <1>10, <2>3
  <2>4. CASE \E c \in Clients : \E s \in Subs : \E n \in 0 .. Len(log) : SubscribeDurable(c, s, n)
    BY <1>10, <2>4
  <2>5. CASE \E c \in Clients : AsyncSend(c) \/ AsyncRefused(c) \/ Close(c) \/ MarkClosed(c)
    BY <1>9, <2>5
  <2>6. CASE \E p \in Publishers : Move(p)
    BY <1>8, <2>6
  <2>7. CASE \E p \in Publishers : \E s \in Subs : Deliver(p, s)
    BY <1>11, <2>7
  <2>8. CASE \E c \in Clients : \E s \in Subs : Shutdown(c, s)
    BY <1>10, <2>8
  <2>9. CASE Dispatch
    BY <1>7, <2>9
  <2>10. CASE \/ Settle \/ SeeStop \/ DispatcherExit
              \/ \E s \in Subs : PumpTake(s) \/ PumpSend(s) \/ PumpQuit(s) \/ Receive(s)
              \/ UNCHANGED vars
    BY <1>12, <2>10
  <2>11. QED
    BY <2>1, <2>2, <2>3, <2>4, <2>5, <2>6, <2>7, <2>8, <2>9, <2>10, StepKinds
<1>14. QED
  BY <1>13, ControlStep DEF ProcType, Events, Targets, ClientPCs, DispatcherPCs

-----------------------------------------------------------------------------
(* What each step does to the streams.                                     *)

SubFrame == UNCHANGED <<subs, state, joined, queue, hand, buffer, got, dropped>>

LEMMA SubFrameSteps ==
    ASSUME \/ \E c \in Clients : \E x \in Subjects : \E b \in BOOLEAN : Publish(c, x, b)
           \/ \E c \in Clients : \E x \in Subjects : Invalidate(c, x) \/ PublishAsync(c, x)
           \/ \E c \in Clients : AsyncSend(c) \/ AsyncRefused(c) \/ Close(c)
           \/ \E p \in Publishers : Move(p)
           \/ Dispatch \/ Settle \/ SeeStop \/ DispatcherExit
           \/ UNCHANGED vars
    PROVE  SubFrame
<1> USE DEF SubFrame, subVars
<1>1. CASE \E c \in Clients : \E x \in Subjects : \E b \in BOOLEAN : Publish(c, x, b)
  BY <1>1 DEF Publish
<1>2. CASE \E c \in Clients : \E x \in Subjects : Invalidate(c, x) \/ PublishAsync(c, x)
  BY <1>2 DEF Invalidate, PublishAsync
<1>3. CASE \E c \in Clients : AsyncSend(c) \/ AsyncRefused(c) \/ Close(c)
  BY <1>3 DEF AsyncSend, AsyncRefused, Close
<1>4. CASE \E p \in Publishers : Move(p)
  BY <1>4 DEF Move, Delivered, ShutdownDone, Drained, CloseStop, DispatcherGone
<1>5. CASE Dispatch \/ Settle \/ SeeStop \/ DispatcherExit
  BY <1>5 DEF Dispatch, Settle, SeeStop, DispatcherExit
<1>6. CASE UNCHANGED vars
  BY <1>6 DEF vars
<1>7. QED
  BY <1>1, <1>2, <1>3, <1>4, <1>5, <1>6

(* The channels of one subscription.                                       *)
LEMMA ChannelTypes ==
    ASSUME SubType, NEW s \in Subs
    PROVE  /\ got[s] \in Seq(Items) /\ hand[s] \in Seq(Items)
           /\ queue[s] \in Seq(Items) /\ buffer[s] \in Seq(Items)
           /\ Stream(s) \in Seq(Items) /\ dropped[s] \in SUBSET (0 .. MaxCalls)
<1>1. /\ got[s] \in Seq(Items) /\ hand[s] \in Seq(Items)
      /\ queue[s] \in Seq(Items) /\ buffer[s] \in Seq(Items)
      /\ dropped[s] \in SUBSET (0 .. MaxCalls)
  BY DEF SubType
<1>2. got[s] \o hand[s] \in Seq(Items)
  BY <1>1, ConcatProperties
<1>3. (got[s] \o hand[s]) \o queue[s] \in Seq(Items)
  BY <1>1, <1>2, ConcatProperties
<1>4. QED
  BY <1>1, <1>3, ConcatProperties DEF Stream

LEMMA HeadThenTail ==
    ASSUME NEW S, NEW q \in Seq(S), q # <<>>
    PROVE  /\ <<Head(q)>> \in Seq(S) /\ Tail(q) \in Seq(S)
           /\ q = <<Head(q)>> \o Tail(q)
<1>1. /\ Head(q) \in S /\ Tail(q) \in Seq(S) /\ Len(Tail(q)) = Len(q) - 1 /\ Head(q) = q[1]
      /\ \A i \in 1 .. Len(Tail(q)) : Tail(q)[i] = q[i + 1]
  BY HeadTailProperties
<1>2. <<Head(q)>> \in Seq(S) /\ Len(<<Head(q)>>) = 1 /\ <<Head(q)>>[1] = Head(q)
  BY <1>1
<1>3. /\ <<Head(q)>> \o Tail(q) \in Seq(S)
      /\ Len(<<Head(q)>> \o Tail(q)) = 1 + Len(Tail(q))
      /\ \A i \in 1 .. 1 + Len(Tail(q)) : (<<Head(q)>> \o Tail(q))[i] =
            IF i <= 1 THEN <<Head(q)>>[1] ELSE Tail(q)[i - 1]
  BY <1>1, <1>2, ConcatProperties
<1>4. Len(q) \in Nat /\ Len(q) = 1 + Len(Tail(q))
  BY <1>1, LenProperties
<1>5. \A i \in 1 .. Len(q) : q[i] = (<<Head(q)>> \o Tail(q))[i]
  <2> TAKE i \in 1 .. Len(q)
  <2>1. CASE i = 1
    BY <2>1, <1>1, <1>2, <1>3, <1>4
  <2>2. CASE i # 1
    <3>1. i - 1 \in 1 .. Len(Tail(q)) /\ (i - 1) + 1 = i
      BY <2>2, <1>4
    <3>2. QED
      BY <3>1, <2>2, <1>1, <1>3, <1>4
  <2>3. QED
    BY <2>1, <2>2
<1>6. QED
  BY <1>1, <1>2, <1>3, <1>4, <1>5, SeqEqual

LEMMA HeadMoves ==
    ASSUME NEW S, NEW g \in Seq(S), NEW q \in Seq(S), q # <<>>
    PROVE  (g \o <<Head(q)>>) \o Tail(q) = g \o q
<1> DEFINE h == <<Head(q)>>
           u == Tail(q)
<1>1. h \in Seq(S) /\ u \in Seq(S)
  BY HeadThenTail
<1>2. q = h \o u
  BY HeadThenTail
<1> HIDE DEF h, u
<1>3. (g \o h) \o u = g \o (h \o u)
  BY <1>1, ConcatAssociative
<1>4. (g \o h) \o u = g \o q
  BY <1>2, <1>3
<1>5. QED
  BY <1>4 DEF h, u

(* A consumer's steps move events along the stream; only the end of a pump *)
(* takes any from it, those behind what was received.                      *)
LEMMA ConsumeStep ==
    ASSUME SubType, StreamInv, NEW s \in Subs,
           PumpTake(s) \/ PumpSend(s) \/ Receive(s)
    PROVE  \A r \in Subs : Stream(r)' = Stream(r)
<1>0. /\ got[s] \in Seq(Items) /\ hand[s] \in Seq(Items)
      /\ queue[s] \in Seq(Items) /\ buffer[s] \in Seq(Items) /\ <<>> \in Seq(Items)
      /\ got[s] \o hand[s] \in Seq(Items)
  BY ChannelTypes, ConcatProperties
<1>1. \A r \in Subs : r # s => Stream(r)' = Stream(r)
  BY DEF PumpTake, PumpSend, Receive, Stream, SubType
<1>2. CASE PumpTake(s)
  <2>1. /\ hand[s] = <<>> /\ queue[s] # <<>>
        /\ got'[s] = got[s] /\ hand'[s] = <<Head(queue[s])>>
        /\ queue'[s] = Tail(queue[s]) /\ buffer'[s] = buffer[s]
    BY <1>2 DEF PumpTake, SubType
  <2>2. /\ <<Head(queue[s])>> \in Seq(Items) /\ Tail(queue[s]) \in Seq(Items)
        /\ queue[s] = <<Head(queue[s])>> \o Tail(queue[s])
    BY <1>0, <2>1, HeadThenTail
  <2>3. (got[s] \o <<Head(queue[s])>>) \o Tail(queue[s]) = got[s] \o queue[s]
    BY <1>0, <2>1, HeadMoves
  <2>4. got[s] \o <<>> = got[s]
    BY <1>0, ConcatEmptySeq
  <2>5. Stream(s)' = Stream(s)
    BY <2>1, <2>3, <2>4 DEF Stream
  <2>6. QED
    BY <1>1, <2>5
<1>3. CASE PumpSend(s)
  <2>1. /\ got'[s] = got[s] \o hand[s] /\ hand'[s] = <<>>
        /\ queue'[s] = queue[s] /\ buffer'[s] = buffer[s]
    BY <1>3 DEF PumpSend, SubType
  <2>2. (got[s] \o hand[s]) \o <<>> = got[s] \o hand[s]
    BY <1>0, ConcatEmptySeq
  <2>3. Stream(s)' = Stream(s)
    BY <2>1, <2>2 DEF Stream
  <2>4. QED
    BY <1>1, <2>3
<1>4. CASE Receive(s)
  <2>1. /\ buffer[s] # <<>> /\ hand'[s] = hand[s] /\ queue'[s] = queue[s]
        /\ got'[s] = Append(got[s], Head(buffer[s])) /\ buffer'[s] = Tail(buffer[s])
    BY <1>4 DEF Receive, SubType
  <2>2. queue[s] = <<>> /\ hand[s] = <<>>
    BY <2>1 DEF StreamInv, Subs
  <2>3. /\ <<Head(buffer[s])>> \in Seq(Items) /\ Tail(buffer[s]) \in Seq(Items)
        /\ Head(buffer[s]) \in Items
        /\ buffer[s] = <<Head(buffer[s])>> \o Tail(buffer[s])
    BY <1>0, <2>1, HeadThenTail, HeadTailProperties
  <2>4. Append(got[s], Head(buffer[s])) = got[s] \o <<Head(buffer[s])>>
    BY <1>0, <2>3, AppendIsConcat
  <2>5. (got[s] \o <<Head(buffer[s])>>) \o Tail(buffer[s]) = got[s] \o buffer[s]
    BY <1>0, <2>1, HeadMoves
  <2>6. /\ got[s] \o <<>> = got[s]
        /\ (got[s] \o <<Head(buffer[s])>>) \o <<>> = got[s] \o <<Head(buffer[s])>>
    BY <1>0, <2>3, ConcatEmptySeq, ConcatProperties
  <2>7. Stream(s)' = Stream(s)
    BY <2>1, <2>2, <2>4, <2>5, <2>6 DEF Stream
  <2>8. QED
    BY <1>1, <2>7
<1>5. QED
  BY <1>2, <1>3, <1>4

LEMMA ConcatMembers ==
    ASSUME NEW S, NEW u \in Seq(S), NEW v \in Seq(S)
    PROVE  ToSet(u \o v) = ToSet(u) \cup ToSet(v)
<1>1. /\ DOMAIN u = 1 .. Len(u) /\ DOMAIN v = 1 .. Len(v) /\ Len(u) \in Nat /\ Len(v) \in Nat
      /\ DOMAIN (u \o v) = 1 .. Len(u) + Len(v)
      /\ \A i \in 1 .. Len(u) + Len(v) :
           (u \o v)[i] = IF i <= Len(u) THEN u[i] ELSE v[i - Len(u)]
  BY ConcatProperties, LenProperties
<1>2. ASSUME NEW k \in DOMAIN v
      PROVE  \E i \in DOMAIN (u \o v) : (u \o v)[i] = v[k]
  <2>1. /\ Len(u) + k \in DOMAIN (u \o v) /\ ~ (Len(u) + k <= Len(u))
        /\ (Len(u) + k) - Len(u) = k
    BY <1>1, <1>2
  <2>2. (u \o v)[Len(u) + k] = v[k]
    BY <1>1, <2>1
  <2>3. QED
    BY <2>1, <2>2
<1>3. ASSUME NEW k \in DOMAIN u
      PROVE  \E i \in DOMAIN (u \o v) : (u \o v)[i] = u[k]
  BY <1>1, <1>3
<1>4. ASSUME NEW i \in DOMAIN (u \o v)
      PROVE  \/ \E k \in DOMAIN u : (u \o v)[i] = u[k]
             \/ \E k \in DOMAIN v : (u \o v)[i] = v[k]
  <2>1. CASE i <= Len(u)
    BY <2>1, <1>1, <1>4
  <2>2. CASE ~ (i <= Len(u))
    <3>1. i - Len(u) \in DOMAIN v
      BY <2>2, <1>1, <1>4
    <3>2. QED
      BY <2>2, <3>1, <1>1, <1>4
  <2>3. QED
    BY <2>1, <2>2
<1>5. ToSet(u) \cup ToSet(v) \subseteq ToSet(u \o v)
  BY <1>2, <1>3 DEF ToSet
<1>6. ToSet(u \o v) \subseteq ToSet(u) \cup ToSet(v)
  BY <1>4 DEF ToSet
<1>7. QED
  BY <1>5, <1>6

(* The end of a pump loses what it has not handed to the consumer.         *)
LEMMA QuitStep ==
    ASSUME SubType, StreamInv, NEW s \in Subs, PumpQuit(s)
    PROVE  /\ s \in Durable /\ state[s] = "closed"
           /\ Stream(s) = got[s] \o (hand[s] \o queue[s]) /\ Stream(s)' = got[s]
           /\ hand[s] \o queue[s] \in Seq(Items) /\ got[s] \in Seq(Items)
           /\ dropped'[s] = dropped[s] \cup {e.seq : e \in ToSet(hand[s] \o queue[s])}
           /\ \A r \in Subs : r # s => Stream(r)' = Stream(r) /\ dropped'[r] = dropped[r]
<1>0. /\ got[s] \in Seq(Items) /\ hand[s] \in Seq(Items) /\ queue[s] \in Seq(Items)
      /\ <<>> \in Seq(Items) /\ got[s] \o hand[s] \in Seq(Items)
      /\ hand[s] \o queue[s] \in Seq(Items) /\ (got[s] \o hand[s]) \o queue[s] \in Seq(Items)
  BY ChannelTypes, ConcatProperties
<1>1. /\ hand[s] # <<>> /\ state[s] = "closed"
      /\ got' = got /\ buffer' = buffer /\ hand'[s] = <<>> /\ queue'[s] = <<>>
      /\ dropped'[s] = dropped[s] \cup {e.seq : e \in ToSet(hand[s]) \cup ToSet(queue[s])}
      /\ \A r \in Subs : r # s => /\ hand'[r] = hand[r] /\ queue'[r] = queue[r]
                                 /\ dropped'[r] = dropped[r]
  BY DEF PumpQuit, SubType
<1>2. s \in Durable /\ buffer[s] = <<>>
  BY <1>1 DEF StreamInv, Subs
<1>3. Stream(s) = got[s] \o (hand[s] \o queue[s])
  <2>1. Stream(s) = ((got[s] \o hand[s]) \o queue[s]) \o <<>>
    BY <1>2 DEF Stream
  <2>2. Stream(s) = (got[s] \o hand[s]) \o queue[s]
    BY <2>1, <1>0, ConcatEmptySeq
  <2> DEFINE u == got[s]
             v == hand[s]
             w == queue[s]
  <2>3. u \in Seq(Items) /\ v \in Seq(Items) /\ w \in Seq(Items)
    BY <1>0
  <2>4. Stream(s) = (u \o v) \o w
    BY <2>2
  <2> HIDE DEF u, v, w
  <2>5. (u \o v) \o w = u \o (v \o w)
    BY <2>3, ConcatAssociative
  <2>6. Stream(s) = u \o (v \o w)
    BY <2>4, <2>5
  <2>7. QED
    BY <2>6 DEF u, v, w
<1>4. Stream(s)' = got[s]
  <2>1. Stream(s)' = ((got[s] \o <<>>) \o <<>>) \o <<>>
    BY <1>1, <1>2 DEF Stream
  <2>2. QED
    BY <2>1, <1>0, ConcatEmptySeq
<1>5. ToSet(hand[s] \o queue[s]) = ToSet(hand[s]) \cup ToSet(queue[s])
  BY <1>0, ConcatMembers
<1>6. \A r \in Subs : r # s => Stream(r)' = Stream(r)
  BY <1>1 DEF Stream
<1>7. QED
  BY <1>0, <1>1, <1>2, <1>3, <1>4, <1>5, <1>6

LEMMA StreamParts ==
    ASSUME SubType, NEW s \in Subs, Stream(s) = <<>>
    PROVE  got[s] = <<>> /\ hand[s] = <<>> /\ queue[s] = <<>> /\ buffer[s] = <<>>
<1>1. /\ got[s] \in Seq(Items) /\ hand[s] \in Seq(Items) /\ queue[s] \in Seq(Items)
      /\ buffer[s] \in Seq(Items)
  BY ChannelTypes
<1>2. got[s] \o hand[s] \in Seq(Items) /\ Len(got[s] \o hand[s]) = Len(got[s]) + Len(hand[s])
  BY <1>1, ConcatProperties
<1>3. /\ (got[s] \o hand[s]) \o queue[s] \in Seq(Items)
      /\ Len((got[s] \o hand[s]) \o queue[s]) = Len(got[s] \o hand[s]) + Len(queue[s])
  BY <1>1, <1>2, ConcatProperties
<1>4. Len(Stream(s)) = Len((got[s] \o hand[s]) \o queue[s]) + Len(buffer[s])
  BY <1>1, <1>3, ConcatProperties DEF Stream
<1>5. /\ Len(got[s]) \in Nat /\ Len(hand[s]) \in Nat /\ Len(queue[s]) \in Nat
      /\ Len(buffer[s]) \in Nat /\ Len(Stream(s)) = 0
  BY <1>1, LenProperties
<1> DEFINE a == Len(got[s])
           b == Len(hand[s])
           c == Len(queue[s])
           d == Len(buffer[s])
<1>6. a \in Nat /\ b \in Nat /\ c \in Nat /\ d \in Nat /\ ((a + b) + c) + d = 0
  BY <1>2, <1>3, <1>4, <1>5
<1> HIDE DEF a, b, c, d
<1>7. a = 0 /\ b = 0 /\ c = 0 /\ d = 0
  BY <1>6
<1>8. QED
  BY <1>1, <1>7, EmptySeq DEF a, b, c, d

LEMMA AppendBehind ==
    ASSUME NEW S, NEW u \in Seq(S), NEW v \in Seq(S), NEW e \in S
    PROVE  u \o Append(v, e) = Append(u \o v, e)
<1> DEFINE w == <<e>>
<1>1. w \in Seq(S) /\ u \o v \in Seq(S)
  BY ConcatProperties
<1>2. Append(v, e) = v \o w /\ Append(u \o v, e) = (u \o v) \o w
  BY <1>1, AppendIsConcat
<1> HIDE DEF w
<1>3. (u \o v) \o w = u \o (v \o w)
  BY <1>1, ConcatAssociative
<1>4. QED
  BY <1>2, <1>3

(* A delivery is refused, or ends up last in the stream.                   *)
LEMMA DeliverEffect ==
    ASSUME SubType, StreamInv, ProcType, NEW p \in Publishers, NEW s \in Subs, Deliver(p, s)
    PROVE  /\ event[p] \in Items
           /\ \/ /\ state[s] = "closed" \/ s \in Live
                 /\ Stream(s)' = Stream(s) /\ dropped'[s] = dropped[s] \cup {event[p].seq}
              \/ /\ Stream(s)' = Append(Stream(s), event[p])
                 /\ dropped'[s] = dropped[s]
           /\ \A r \in Subs : r # s => Stream(r)' = Stream(r) /\ dropped'[r] = dropped[r]
<1>0. /\ got[s] \in Seq(Items) /\ hand[s] \in Seq(Items) /\ queue[s] \in Seq(Items)
      /\ buffer[s] \in Seq(Items) /\ <<>> \in Seq(Items) /\ event[p] \in Items
      /\ got[s] \o hand[s] \in Seq(Items)
      /\ (got[s] \o hand[s]) \o queue[s] \in Seq(Items)
  BY ChannelTypes, ConcatProperties DEF ProcType
<1>1. got' = got /\ hand' = hand /\ Durable \cap Live = {}
  BY ConfigAssumption DEF Deliver
<1>2. \A r \in Subs : r # s =>
        /\ queue'[r] = queue[r] /\ buffer'[r] = buffer[r] /\ dropped'[r] = dropped[r]
  BY DEF Deliver, SubType
<1>3. \A r \in Subs : r # s => Stream(r)' = Stream(r) /\ dropped'[r] = dropped[r]
  BY <1>1, <1>2 DEF Stream
<1>4. CASE state[s] = "closed" \/ Full(s)
  <2>1. queue' = queue /\ buffer' = buffer /\ dropped'[s] = dropped[s] \cup {event[p].seq}
    BY <1>4 DEF Deliver, SubType
  <2>2. state[s] = "closed" \/ s \in Live
    BY <1>4 DEF Full
  <2>3. Stream(s)' = Stream(s)
    BY <1>1, <2>1 DEF Stream
  <2>4. QED
    BY <1>0, <1>3, <2>1, <2>2, <2>3
<1>5. CASE ~ (state[s] = "closed" \/ Full(s)) /\ s \in Durable
  <2>1. /\ queue'[s] = Append(queue[s], event[p]) /\ buffer' = buffer
        /\ dropped' = dropped
    BY <1>5 DEF Deliver, SubType, Enqueued
  <2>2. buffer[s] = <<>>
    BY <1>5 DEF StreamInv
  <2>3. (got[s] \o hand[s]) \o Append(queue[s], event[p])
          = Append((got[s] \o hand[s]) \o queue[s], event[p])
    <3> DEFINE u == got[s] \o hand[s]
               v == queue[s]
    <3>1. u \in Seq(Items) /\ v \in Seq(Items)
      BY <1>0
    <3> HIDE DEF u, v
    <3>2. u \o Append(v, event[p]) = Append(u \o v, event[p])
      BY <1>0, <3>1, AppendBehind
    <3>3. QED
      BY <3>2 DEF u, v
  <2>4. Append((got[s] \o hand[s]) \o queue[s], event[p]) \in Seq(Items)
    BY <1>0, AppendProperties
  <2>5. Stream(s) = (got[s] \o hand[s]) \o queue[s]
    BY <1>0, <2>2, ConcatEmptySeq DEF Stream
  <2>6. Stream(s)' = ((got[s] \o hand[s]) \o Append(queue[s], event[p])) \o <<>>
    BY <1>1, <2>1, <2>2 DEF Stream
  <2>7. Stream(s)' = Append((got[s] \o hand[s]) \o queue[s], event[p])
    BY <2>3, <2>4, <2>6, ConcatEmptySeq
  <2>8. Stream(s)' = Append(Stream(s), event[p])
    BY <2>5, <2>7
  <2>9. QED
    BY <1>0, <1>3, <2>1, <2>8
<1>6. CASE ~ (state[s] = "closed" \/ Full(s)) /\ s \notin Durable
  <2>1. /\ buffer'[s] = Append(buffer[s], event[p]) /\ queue' = queue
        /\ dropped' = dropped
    BY <1>6 DEF Deliver, SubType
  <2>2. ((got[s] \o hand[s]) \o queue[s]) \o Append(buffer[s], event[p])
          = Append(((got[s] \o hand[s]) \o queue[s]) \o buffer[s], event[p])
    <3> DEFINE u == (got[s] \o hand[s]) \o queue[s]
               v == buffer[s]
    <3>1. u \in Seq(Items) /\ v \in Seq(Items)
      BY <1>0
    <3> HIDE DEF u, v
    <3>2. u \o Append(v, event[p]) = Append(u \o v, event[p])
      BY <1>0, <3>1, AppendBehind
    <3>3. QED
      BY <3>2 DEF u, v
  <2>3. Stream(s)' = Append(Stream(s), event[p])
    BY <1>1, <2>1, <2>2 DEF Stream
  <2>4. QED
    BY <1>0, <1>3, <2>1, <2>3
<1>7. QED
  BY <1>4, <1>5, <1>6

(* A new durable subscription starts with its backlog.                     *)
LEMMA SubscribeDurableEffect ==
    ASSUME SubType, StreamInv, SubscriptionInv, BusType, ControlInv, CountInv,
           NEW c \in Clients, NEW s \in Subs, NEW n \in 0 .. Len(log), SubscribeDurable(c, s, n)
    PROVE  /\ Backlog(s, n) \in Seq(Items)
           /\ Increasing(Backlog(s, n), Len(Backlog(s, n)))
           /\ \A k \in 1 .. Len(Backlog(s, n)) : /\ Backlog(s, n)[k].seq \in n + 1 .. Len(log)
                 /\ log[Backlog(s, n)[k].seq].subject \in Wants[s]
           /\ \A i \in n + 1 .. Len(log) : log[i].subject \in Wants[s] =>
                 \E k \in 1 .. Len(Backlog(s, n)) : Backlog(s, n)[k].seq = i
           /\ Stream(s) = <<>> /\ dropped[s] = {}
           /\ Stream(s)' = Backlog(s, n) /\ dropped' = dropped
           /\ \A r \in Subs : r # s => Stream(r)' = Stream(r)
<1> DEFINE P == {j \in DOMAIN log : j > n /\ log[j].subject \in Wants[s]}
           B == {Logged(i) : i \in P}
<1>0. state[s] = "new" /\ s \in Durable
  BY DEF SubscribeDurable, NewSubscription
<1>1. Distinct(B) /\ B \subseteq Items /\ \A e \in B : e.seq \in 1 .. Len(log)
  BY BacklogDistinct
<1>2. Len(log) \in Nat /\ \A e \in B : e.seq <= Len(log)
  BY <1>1, LogBounded
<1>3. \A e \in B : e.seq \in P
  BY EntryTyped, LogBounded
<1>4. \A i \in P : i \in 1 .. Len(log) /\ Logged(i) \in B /\ Logged(i).seq = i
  BY EntryTyped, LogBounded DEF BusType
<1>5. \A i \in P : i \in n + 1 .. Len(log) /\ log[i].subject \in Wants[s]
  BY <1>2, <1>4
<1>6. \A i \in n + 1 .. Len(log) : log[i].subject \in Wants[s] => i \in P
  BY <1>2, LenProperties DEF BusType
<1> HIDE DEF P
<1> DEFINE q == InOrder(B)
<1>7. Backlog(s, n) = q
  BY DEF Backlog, P
<1> HIDE DEF B
<1>8. /\ q \in Seq(B) /\ Increasing(q, Len(q))
      /\ \A e \in B : \E k \in 1 .. Len(q) : q[k] = e
  BY <1>1, <1>2, InOrderLists
<1> HIDE DEF q
<1>9. q \in Seq(Items) /\ \A k \in 1 .. Len(q) : q[k] \in B
  BY <1>1, <1>8, ElementOfSeq, SeqMonotonic
<1>10. \A k \in 1 .. Len(q) : q[k].seq \in n + 1 .. Len(log) /\ log[q[k].seq].subject \in Wants[s]
  BY <1>3, <1>5, <1>9
<1>11. \A i \in n + 1 .. Len(log) : log[i].subject \in Wants[s] => \E k \in 1 .. Len(q) : q[k].seq = i
  <2> SUFFICES ASSUME NEW i \in n + 1 .. Len(log), log[i].subject \in Wants[s]
               PROVE  \E k \in 1 .. Len(q) : q[k].seq = i
    OBVIOUS
  <2>1. Logged(i) \in B /\ Logged(i).seq = i
    BY <1>4, <1>6
  <2>2. QED
    BY <1>8, <2>1
<1>12. /\ got' = got /\ hand' = hand /\ buffer' = buffer /\ dropped' = dropped
       /\ queue'[s] = Backlog(s, n) /\ \A r \in Subs : r # s => queue'[r] = queue[r]
  BY DEF SubscribeDurable, SubType
<1>13. \A r \in Subs : r # s => Stream(r)' = Stream(r)
  BY <1>12 DEF Stream
<1>14. Stream(s) = <<>> /\ dropped[s] = {}
  BY <1>0 DEF SubscriptionInv
<1>15. got[s] = <<>> /\ hand[s] = <<>> /\ buffer[s] = <<>>
  BY <1>14, ChannelTypes, StreamParts
<1>16. Stream(s)' = ((<<>> \o <<>>) \o q) \o <<>>
  BY <1>12, <1>15, <1>7 DEF Stream
<1>17. (<<>> \o <<>>) \o q = q /\ q \o <<>> = q
  BY <1>9, ConcatEmptySeq
<1>18. Stream(s)' = q
  BY <1>16, <1>17
<1>19. QED
  BY <1>7, <1>8, <1>9, <1>10, <1>11, <1>12, <1>13, <1>14, <1>18

(* A new live subscription starts with the retained values, in order; what *)
(* does not fit is dropped.                                                *)
LEMMA SubscribeEffect ==
    ASSUME SubType, StreamInv, SubscriptionInv, BusType, ControlInv, CountInv, StickyInv,
           NEW c \in Clients, NEW s \in Subs, Subscribe(c, s)
    PROVE  /\ Stream(s) = <<>> /\ dropped[s] = {}
           /\ \A r \in Subs : r # s => Stream(r)' = Stream(r) /\ dropped'[r] = dropped[r]
           /\ \E q \in Seq(Items) : \E f \in 0 .. Len(q) :
                /\ Increasing(q, Len(q))
                /\ \A k \in 1 .. Len(q) : q[k].seq \in 1 .. Len(log)
                /\ f <= BufferSize /\ buffer' = [buffer EXCEPT ![s] = SubSeq(q, 1, f)]
                /\ Stream(s)' = SubSeq(q, 1, f)
                /\ Stream(s)' \in Seq(Items) /\ Len(Stream(s)') = f
                /\ \A k \in 1 .. f : Stream(s)'[k] = q[k]
                /\ dropped'[s] = {q[i].seq : i \in f + 1 .. Len(q)}
<1> DEFINE R == RetainedFor(s)
           q == Snapshots(s)
           f == IF Len(q) <= BufferSize THEN Len(q) ELSE BufferSize
<1>0. state[s] = "new" /\ s \in Live
  BY DEF Subscribe, NewSubscription
<1>1. Distinct(R) /\ R \subseteq Items /\ \A e \in R : e.seq \in 1 .. Len(log)
  BY RetainedDistinct
<1>2. Len(log) \in Nat /\ \A e \in R : e.seq <= Len(log)
  BY <1>1, LogBounded
<1>3. q = InOrder(R)
  BY DEF Snapshots
<1> HIDE DEF R
<1>4. q \in Seq(R) /\ Increasing(q, Len(q))
  BY <1>1, <1>2, <1>3, InOrderLists
<1>5. q \in Seq(Items) /\ \A k \in 1 .. Len(q) : q[k].seq \in 1 .. Len(log)
  BY <1>1, <1>4, ElementOfSeq, SeqMonotonic
<1>6. /\ got' = got /\ hand' = hand /\ queue' = queue
      /\ buffer' = [buffer EXCEPT ![s] = SubSeq(q, 1, f)]
      /\ dropped' = [dropped EXCEPT ![s] = {q[i].seq : i \in f + 1 .. Len(q)}]
  BY DEF Subscribe
<1> HIDE DEF q
<1>7. f \in 0 .. Len(q) /\ f <= BufferSize
  BY <1>5, LenProperties, ConfigAssumption
<1> HIDE DEF f
<1>8. /\ SubSeq(q, 1, f) \in Seq(Items) /\ Len(SubSeq(q, 1, f)) = f
      /\ \A k \in 1 .. f : SubSeq(q, 1, f)[k] = q[k]
  <2>1. f \in Nat /\ Len(q) \in Nat /\ 1 \in 1 .. Len(q) + 1 /\ f \in 0 .. Len(q)
    BY <1>5, <1>7, LenProperties
  <2>2. \A k \in 1 .. f : k \in 1 .. Len(q)
    BY <2>1
  <2>3. QED
    BY <1>5, <2>1, <2>2
<1>9. buffer'[s] = SubSeq(q, 1, f) /\ \A r \in Subs : r # s => buffer'[r] = buffer[r]
  BY <1>6 DEF SubType
<1>10. /\ dropped'[s] = {q[i].seq : i \in f + 1 .. Len(q)}
       /\ \A r \in Subs : r # s => dropped'[r] = dropped[r]
  BY <1>6 DEF SubType
<1>11. \A r \in Subs : r # s => Stream(r)' = Stream(r)
  BY <1>6, <1>9 DEF Stream
<1>12. Stream(s) = <<>> /\ dropped[s] = {}
  BY <1>0 DEF SubscriptionInv
<1>13. got[s] = <<>> /\ hand[s] = <<>> /\ queue[s] = <<>>
  BY <1>12, StreamParts
<1>14. Stream(s)' = ((<<>> \o <<>>) \o <<>>) \o SubSeq(q, 1, f)
  BY <1>6, <1>9, <1>13 DEF Stream
<1>15. Stream(s)' = SubSeq(q, 1, f)
  <2> DEFINE v == SubSeq(q, 1, f)
  <2>1. v \in Seq(Items) /\ Stream(s)' = ((<<>> \o <<>>) \o <<>>) \o v
    BY <1>8, <1>14
  <2> HIDE DEF v
  <2>2. <<>> \o <<>> = <<>> /\ <<>> \o v = v
    BY <2>1, ConcatEmptySeq, EmptySeq
  <2>3. Stream(s)' = v
    BY <2>1, <2>2
  <2>4. QED
    BY <2>3 DEF v
<1>16. QED
  BY <1>4, <1>5, <1>6, <1>7, <1>8, <1>10, <1>11, <1>12, <1>15

LEMMA SubTypeStep ==
    ASSUME BusInv, ProcType, SubType, ControlInv, StreamInv, SubscriptionInv, [Next]_vars
    PROVE  SubType'
<1> USE DEF BusInv
<1>0. /\ subs \subseteq Subs
      /\ state \in [Subs -> {"new", "open", "closed"}]
      /\ joined \in [Subs -> 0 .. MaxCalls]
      /\ queue \in [Subs -> Seq(Items)] /\ hand \in [Subs -> Seq(Items)]
      /\ buffer \in [Subs -> Seq(Items)] /\ got \in [Subs -> Seq(Items)]
      /\ \A s \in Subs : Len(buffer[s]) <= BufferSize
      /\ dropped \in [Subs -> SUBSET (0 .. MaxCalls)]
  BY DEF SubType
<1>1. Len(log) \in Nat /\ MaxCalls \in Nat /\ Len(log) <= MaxCalls
  BY LogBounded
<1>2. ASSUME UNCHANGED <<joined, queue, hand, buffer, got, dropped>>,
             subs' \subseteq Subs, state' \in [Subs -> {"new", "open", "closed"}]
      PROVE  SubType'
  BY <1>0, <1>2 DEF SubType
<1>3. ASSUME SubFrame
      PROVE  SubType'
  BY <1>0, <1>3 DEF SubFrame, SubType
<1>4. ASSUME NEW c \in Clients, NEW s \in Subs, Unsubscribe(c, s) \/ Shutdown(c, s)
      PROVE  SubType'
  BY <1>0, <1>2, <1>4 DEF Unsubscribe, Shutdown, subVars
<1>5. ASSUME NEW c \in Clients, MarkClosed(c)
      PROVE  SubType'
  BY <1>0, <1>2, <1>5 DEF MarkClosed, subVars
<1>6. ASSUME NEW c \in Clients, NEW s \in Subs, Subscribe(c, s)
      PROVE  SubType'
  <2>0. PICK q \in Seq(Items) : \E f \in 0 .. Len(q) :
          /\ \A k \in 1 .. Len(q) : q[k].seq \in 1 .. Len(log)
          /\ f <= BufferSize /\ buffer' = [buffer EXCEPT ![s] = SubSeq(q, 1, f)]
          /\ Stream(s)' = SubSeq(q, 1, f)
          /\ Stream(s)' \in Seq(Items) /\ Len(Stream(s)') = f
          /\ dropped'[s] = {q[i].seq : i \in f + 1 .. Len(q)}
    BY <1>6, SubscribeEffect
  <2>1. PICK f \in 0 .. Len(q) :
          /\ \A k \in 1 .. Len(q) : q[k].seq \in 1 .. Len(log)
          /\ f <= BufferSize /\ buffer' = [buffer EXCEPT ![s] = SubSeq(q, 1, f)]
          /\ Stream(s)' = SubSeq(q, 1, f)
          /\ Stream(s)' \in Seq(Items) /\ Len(Stream(s)') = f
          /\ dropped'[s] = {q[i].seq : i \in f + 1 .. Len(q)}
    BY <2>0
  <2>2. buffer' \in [Subs -> Seq(Items)] /\ \A r \in Subs : Len(buffer'[r]) <= BufferSize
    BY <1>0, <2>1
  <2>3. f + 1 .. Len(q) \subseteq 1 .. Len(q)
    BY LenProperties
  <2>4. dropped'[s] \in SUBSET (0 .. MaxCalls)
    BY <1>1, <2>1, <2>3
  <2>5. dropped' = [dropped EXCEPT ![s] = dropped'[s]]
    BY <1>0, <1>6 DEF Subscribe
  <2>6. dropped' \in [Subs -> SUBSET (0 .. MaxCalls)]
    BY <1>0, <2>4, <2>5
  <2>7. /\ subs' \subseteq Subs /\ state' \in [Subs -> {"new", "open", "closed"}]
        /\ joined' \in [Subs -> 0 .. MaxCalls] /\ UNCHANGED <<queue, hand, got>>
    BY <1>0, <1>1, <1>6 DEF Subscribe, NewSubscription
  <2>8. QED
    BY <1>0, <2>2, <2>6, <2>7 DEF SubType
<1>7. ASSUME NEW c \in Clients, NEW s \in Subs, NEW n \in 0 .. Len(log), SubscribeDurable(c, s, n)
      PROVE  SubType'
  <2>1. Backlog(s, n) \in Seq(Items)
    BY <1>7, SubscribeDurableEffect
  <2>2. /\ subs' \subseteq Subs /\ state' \in [Subs -> {"new", "open", "closed"}]
        /\ joined' \in [Subs -> 0 .. MaxCalls] /\ UNCHANGED <<hand, buffer, got, dropped>>
        /\ queue' = [queue EXCEPT ![s] = Backlog(s, n)]
    BY <1>0, <1>1, <1>7 DEF SubscribeDurable, NewSubscription
  <2>3. QED
    BY <1>0, <2>1, <2>2 DEF SubType
<1>8. ASSUME NEW p \in Publishers, NEW s \in Subs, Deliver(p, s)
      PROVE  SubType'
  <2>1. event[p] \in Items /\ event[p].seq \in 0 .. MaxCalls
    BY DEF ProcType, Items
  <2>2. /\ Append(queue[s], event[p]) \in Seq(Items) /\ Append(buffer[s], event[p]) \in Seq(Items)
        /\ Len(Append(buffer[s], event[p])) = Len(buffer[s]) + 1
        /\ Len(buffer[s]) \in Nat
    BY <1>0, <2>1, AppendProperties, LenProperties
  <2>3. UNCHANGED <<subs, state, joined, hand, got>>
    BY <1>8 DEF Deliver
  <2>4. /\ queue' = queue \/ queue' = [queue EXCEPT ![s] = Append(queue[s], event[p])]
        /\ \/ dropped' = dropped
           \/ dropped' = [dropped EXCEPT ![s] = dropped[s] \cup {event[p].seq}]
    BY <1>8 DEF Deliver, Enqueued
  <2>5. queue' \in [Subs -> Seq(Items)] /\ dropped' \in [Subs -> SUBSET (0 .. MaxCalls)]
    <3>1. dropped[s] \cup {event[p].seq} \in SUBSET (0 .. MaxCalls)
      BY <1>0, <2>1
    <3>2. dropped' \in [Subs -> SUBSET (0 .. MaxCalls)]
      BY <1>0, <2>4, <3>1
    <3>3. queue' \in [Subs -> Seq(Items)]
      BY <1>0, <2>2, <2>4
    <3>4. QED
      BY <3>2, <3>3
  <2>6. \/ buffer' = buffer
        \/ /\ buffer' = [buffer EXCEPT ![s] = Append(buffer[s], event[p])]
           /\ s \in Live /\ ~ (Len(buffer[s]) >= BufferSize)
    BY <1>8 DEF Deliver, Full, Subs
  <2>7. buffer' \in [Subs -> Seq(Items)] /\ \A r \in Subs : Len(buffer'[r]) <= BufferSize
    <3>1. CASE buffer' = buffer
      BY <3>1, <1>0
    <3>2. CASE /\ buffer' = [buffer EXCEPT ![s] = Append(buffer[s], event[p])]
               /\ s \in Live /\ ~ (Len(buffer[s]) >= BufferSize)
      <4>1. Len(Append(buffer[s], event[p])) <= BufferSize
        BY <3>2, <2>2, ConfigAssumption
      <4>2. QED
        BY <3>2, <4>1, <1>0, <2>2
    <3>3. QED
      BY <2>6, <3>1, <3>2
  <2>8. QED
    BY <1>0, <2>3, <2>5, <2>7 DEF SubType
<1>9. ASSUME NEW s \in Subs, PumpTake(s) \/ PumpSend(s)
      PROVE  SubType'
  <2>1. /\ got[s] \o hand[s] \in Seq(Items) /\ <<>> \in Seq(Items)
        /\ queue[s] # <<>> => <<Head(queue[s])>> \in Seq(Items) /\ Tail(queue[s]) \in Seq(Items)
    BY <1>0, ConcatProperties, HeadThenTail
  <2>2. UNCHANGED <<subs, state, joined, buffer, dropped>>
    BY <1>9 DEF PumpTake, PumpSend
  <2>3. /\ hand' \in [Subs -> Seq(Items)] /\ queue' \in [Subs -> Seq(Items)]
        /\ got' \in [Subs -> Seq(Items)]
    BY <1>0, <1>9, <2>1 DEF PumpTake, PumpSend
  <2>4. QED
    BY <1>0, <2>2, <2>3 DEF SubType
<1>10. ASSUME NEW s \in Subs, PumpQuit(s)
       PROVE  SubType'
  <2>1. \A e \in ToSet(hand[s]) \cup ToSet(queue[s]) : e \in Items
    BY <1>0, ElementOfSeq, LenProperties DEF ToSet
  <2>2. {e.seq : e \in ToSet(hand[s]) \cup ToSet(queue[s])} \in SUBSET (0 .. MaxCalls)
    BY <2>1 DEF Items
  <2> DEFINE lost == {e.seq : e \in ToSet(hand[s]) \cup ToSet(queue[s])}
  <2>3. /\ UNCHANGED <<subs, state, joined, buffer, got>>
        /\ hand' = [hand EXCEPT ![s] = <<>>] /\ queue' = [queue EXCEPT ![s] = <<>>]
        /\ dropped' = [dropped EXCEPT ![s] = dropped[s] \cup lost]
    BY <1>10 DEF PumpQuit
  <2> HIDE DEF lost
  <2>4. lost \in SUBSET (0 .. MaxCalls)
    BY <2>2 DEF lost
  <2>5. dropped[s] \cup lost \in SUBSET (0 .. MaxCalls)
    BY <1>0, <2>4
  <2>6. dropped' \in [Subs -> SUBSET (0 .. MaxCalls)]
    BY <1>0, <2>3, <2>5
  <2>7. hand' \in [Subs -> Seq(Items)] /\ queue' \in [Subs -> Seq(Items)]
    BY <1>0, <2>3
  <2>8. QED
    BY <1>0, <2>3, <2>6, <2>7 DEF SubType
<1>11. ASSUME NEW s \in Subs, Receive(s)
       PROVE  SubType'
  <2>1. buffer[s] # <<>> /\ buffer[s] \in Seq(Items) /\ got[s] \in Seq(Items)
    BY <1>0, <1>11 DEF Receive
  <2>2. /\ Append(got[s], Head(buffer[s])) \in Seq(Items) /\ Tail(buffer[s]) \in Seq(Items)
        /\ Len(Tail(buffer[s])) = Len(buffer[s]) - 1 /\ Len(buffer[s]) \in Nat
    BY <2>1, HeadTailProperties, AppendProperties, LenProperties
  <2>3. Len(Tail(buffer[s])) <= BufferSize
    BY <1>0, <2>2, ConfigAssumption
  <2>4. /\ UNCHANGED <<subs, state, joined, queue, hand, dropped>>
        /\ got' = [got EXCEPT ![s] = Append(got[s], Head(buffer[s]))]
        /\ buffer' = [buffer EXCEPT ![s] = Tail(buffer[s])]
    BY <1>11 DEF Receive
  <2>5. QED
    BY <1>0, <2>2, <2>3, <2>4 DEF SubType
<1>12. QED
  <2>1. CASE \E c \in Clients : \E s \in Subs : Subscribe(c, s) \/ Unsubscribe(c, s)
    BY <1>4, <1>6, <2>1
  <2>2. CASE \E c \in Clients : \E s \in Subs : \E n \in 0 .. Len(log) : SubscribeDurable(c, s, n)
    BY <1>7, <2>2
  <2>3. CASE \E c \in Clients : MarkClosed(c)
    BY <1>5, <2>3
  <2>4. CASE \E p \in Publishers : \E s \in Subs : Deliver(p, s)
    BY <1>8, <2>4
  <2>5. CASE \E c \in Clients : \E s \in Subs : Shutdown(c, s)
    BY <1>4, <2>5
  <2>6. CASE \E s \in Subs : PumpTake(s) \/ PumpSend(s) \/ PumpQuit(s) \/ Receive(s)
    BY <1>9, <1>10, <1>11, <2>6
  <2>7. QED
    BY <1>3, <2>1, <2>2, <2>3, <2>4, <2>5, <2>6, SubFrameSteps, StepKinds

-----------------------------------------------------------------------------
(* What each step does to the journal and to the deliveries under way.     *)

Journalled(p) ==
    LET n == Len(log) + 1 IN
    /\ pc[p] # "deliver" /\ pc' = [pc EXCEPT ![p] = "deliver"]
    /\ Len(log') = n /\ \A i \in 1 .. Len(log) : log'[i] = log[i]
    /\ log'[n].subject \in Subjects
    /\ event' = [event EXCEPT ![p] = [seq |-> n, subject |-> log'[n].subject]]
    /\ targets' = [targets EXCEPT ![p] = Matching(log'[n].subject)]
    /\ p = (IF log'[n].async THEN dispatcher ELSE log'[n].by)
    /\ SubFrame

(* The deliveries of q go on, or it has none to make.                      *)
Steady(q) ==
    /\ pc'[q] = "deliver" =>
         \/ pc[q] = "deliver" /\ event'[q] = event[q] /\ targets'[q] = targets[q]
         \/ event'[q].seq = 0 /\ event'[q].subject \in Subjects
    /\ pc[q] = "deliver" /\ targets[q] # {} =>
         pc'[q] = "deliver" /\ event'[q] = event[q] /\ targets'[q] = targets[q]

LEMMA SteadySteps ==
    ASSUME ProcType, ControlInv,
           \/ \E c \in Clients : \E x \in Subjects : Invalidate(c, x) \/ PublishAsync(c, x)
           \/ \E c \in Clients : \E s \in Subs : Subscribe(c, s) \/ Unsubscribe(c, s)
           \/ \E c \in Clients : \E s \in Subs : \E n \in 0 .. Len(log) : SubscribeDurable(c, s, n)
           \/ \E c \in Clients : AsyncSend(c) \/ AsyncRefused(c) \/ Close(c) \/ MarkClosed(c)
           \/ \E p \in Publishers : Move(p)
           \/ \E c \in Clients : \E s \in Subs : Shutdown(c, s)
           \/ (Dispatch /\ closed) \/ Settle \/ SeeStop \/ DispatcherExit
           \/ \E s \in Subs : PumpTake(s) \/ PumpSend(s) \/ PumpQuit(s) \/ Receive(s)
           \/ UNCHANGED vars
    PROVE  log' = log /\ \A q \in Publishers : Steady(q)
<1>0. /\ dispatcher \notin Clients /\ dispatcher \in Publishers /\ Clients \subseteq Publishers
      /\ DOMAIN pc = Publishers /\ DOMAIN event = Publishers /\ DOMAIN targets = Publishers
  BY ConfigAssumption DEF Publishers, ProcType
<1>1. ASSUME UNCHANGED <<log, pc, event, targets>>
      PROVE  log' = log /\ \A q \in Publishers : Steady(q)
  BY <1>1 DEF Steady
<1>2. ASSUME NEW p \in Publishers, UNCHANGED log, pc[p] # "deliver" \/ targets[p] = {},
             pc'[p] # "deliver" \/ (event'[p].seq = 0 /\ event'[p].subject \in Subjects),
             \A q \in Publishers : q # p =>
                pc'[q] = pc[q] /\ event'[q] = event[q] /\ targets'[q] = targets[q]
      PROVE  log' = log /\ \A q \in Publishers : Steady(q)
  BY <1>2 DEF Steady
<1>3. ASSUME NEW c \in Clients, NEW x \in Subjects, Invalidate(c, x)
      PROVE  log' = log /\ \A q \in Publishers : Steady(q)
  <2>1. /\ UNCHANGED log /\ pc[c] # "deliver"
        /\ event'[c].seq = 0 /\ event'[c].subject \in Subjects
        /\ \A q \in Publishers : q # c =>
             pc'[q] = pc[q] /\ event'[q] = event[q] /\ targets'[q] = targets[q]
    BY <1>0, <1>3 DEF Invalidate, Goto
  <2>2. QED
    BY <1>0, <1>2, <2>1
<1>4. ASSUME NEW c \in Clients, NEW x \in Subjects, PublishAsync(c, x)
      PROVE  log' = log /\ \A q \in Publishers : Steady(q)
  BY <1>0, <1>2, <1>4 DEF PublishAsync, Goto
<1>5. ASSUME NEW c \in Clients, NEW s \in Subs,
             \/ Subscribe(c, s)
             \/ \E n \in 0 .. Len(log) : SubscribeDurable(c, s, n)
      PROVE  log' = log /\ \A q \in Publishers : Steady(q)
  BY <1>1, <1>5 DEF Subscribe, SubscribeDurable, logVars, procVars
<1>6. ASSUME NEW c \in Clients, NEW s \in Subs, Unsubscribe(c, s)
      PROVE  log' = log /\ \A q \in Publishers : Steady(q)
  BY <1>0, <1>2, <1>6 DEF Unsubscribe, Goto, logVars
<1>7. ASSUME NEW c \in Clients, NEW s \in Subs, Shutdown(c, s)
      PROVE  log' = log /\ \A q \in Publishers : Steady(q)
  BY <1>0, <1>2, <1>7 DEF Shutdown, logVars
<1>8. ASSUME NEW c \in Clients, AsyncSend(c) \/ AsyncRefused(c) \/ Close(c) \/ MarkClosed(c)
      PROVE  log' = log /\ \A q \in Publishers : Steady(q)
  <2>1. /\ UNCHANGED log /\ pc[c] # "deliver" /\ pc'[c] # "deliver"
        /\ \A q \in Publishers : q # c =>
             pc'[q] = pc[q] /\ event'[q] = event[q] /\ targets'[q] = targets[q]
    BY <1>0, <1>8 DEF AsyncSend, AsyncRefused, Close, MarkClosed, Goto, logVars
  <2>2. QED
    BY <1>0, <1>2, <2>1
<1>9. ASSUME NEW p \in Publishers, Move(p)
      PROVE  log' = log /\ \A q \in Publishers : Steady(q)
  <2>1. /\ UNCHANGED log
        /\ pc[p] # "deliver" \/ targets[p] = {}
        /\ pc'[p] # "deliver"
        /\ \A q \in Publishers : q # p =>
             pc'[q] = pc[q] /\ event'[q] = event[q] /\ targets'[q] = targets[q]
    BY <1>0, <1>9 DEF Move, Delivered, ShutdownDone, Drained, CloseStop, DispatcherGone, Goto, logVars
  <2>2. QED
    BY <1>2, <2>1
<1>10. CASE (Dispatch /\ closed) \/ Settle \/ SeeStop \/ DispatcherExit
  <2>1. /\ UNCHANGED log /\ pc[dispatcher] # "deliver" /\ pc'[dispatcher] # "deliver"
        /\ \A q \in Publishers : q # dispatcher =>
             pc'[q] = pc[q] /\ event'[q] = event[q] /\ targets'[q] = targets[q]
    BY <1>0, <1>10 DEF Dispatch, Settle, SeeStop, DispatcherExit, Goto, logVars
  <2>2. QED
    BY <1>0, <1>2, <2>1
<1>11. ASSUME NEW s \in Subs, PumpTake(s) \/ PumpSend(s) \/ PumpQuit(s) \/ Receive(s)
       PROVE  log' = log /\ \A q \in Publishers : Steady(q)
  BY <1>1, <1>11 DEF PumpTake, PumpSend, PumpQuit, Receive, logVars, procVars
<1>12. CASE UNCHANGED vars
  BY <1>1, <1>12 DEF vars, logVars, procVars
<1>13. QED
  BY <1>3, <1>4, <1>5, <1>6, <1>7, <1>8, <1>9, <1>10, <1>11, <1>12

(* Publishing, and dispatching on an open bus, journal an event.           *)
LEMMA Journals ==
    ASSUME BusInv, ProcType, ControlInv,
           \/ \E c \in Clients : \E x \in Subjects : \E b \in BOOLEAN : Publish(c, x, b)
           \/ Dispatch /\ ~ closed
    PROVE  \E p \in Publishers : Journalled(p)
<1>0. /\ dispatcher \notin Clients /\ dispatcher \in Publishers /\ Clients \subseteq Publishers
      /\ DOMAIN pc = Publishers /\ DOMAIN event = Publishers /\ DOMAIN targets = Publishers
  BY ConfigAssumption DEF Publishers, ProcType
<1>1. ASSUME NEW p \in Publishers, NEW entry \in Entries, NEW b \in BOOLEAN, Journal(p, entry, b),
             SubFrame, pc[p] # "deliver", pc' = [pc EXCEPT ![p] = "deliver"],
             p = (IF entry.async THEN dispatcher ELSE entry.by)
      PROVE  Journalled(p)
  <2>1. /\ Len(log') = Len(log) + 1 /\ \A i \in 1 .. Len(log) : log'[i] = log[i]
        /\ log'[Len(log) + 1] = entry
    BY <1>1, AppendProperties DEF Journal, BusInv, BusType
  <2>2. entry.subject \in Subjects
    BY DEF Entries
  <2>3. /\ event' = [event EXCEPT ![p] = [seq |-> Len(log) + 1, subject |-> entry.subject]]
        /\ targets' = [targets EXCEPT ![p] = Matching(entry.subject)]
    BY <1>1 DEF Journal
  <2>4. QED
    BY <1>1, <2>1, <2>2, <2>3 DEF Journalled
<1>2. ASSUME NEW c \in Clients, NEW x \in Subjects, NEW b \in BOOLEAN, Publish(c, x, b)
      PROVE  Journalled(c)
  <2> DEFINE entry == [subject |-> x, by |-> c, call |-> calls', async |-> FALSE]
  <2>1. calls' = calls + 1 /\ calls < MaxCalls
    BY <1>2 DEF Publish, Call
  <2>2. entry \in Entries
    BY <2>1, LogBounded DEF Entries, BusInv
  <2>3. Journal(c, entry, b) /\ pc[c] # "deliver" /\ pc' = [pc EXCEPT ![c] = "deliver"]
    BY <1>2 DEF Publish, Goto
  <2>4. SubFrame
    BY <1>2, SubFrameSteps
  <2>5. c = (IF entry.async THEN dispatcher ELSE entry.by)
    OBVIOUS
  <2> HIDE DEF entry
  <2>6. QED
    BY <1>0, <1>1, <2>2, <2>3, <2>4, <2>5
<1>3. ASSUME Dispatch, ~ closed
      PROVE  Journalled(dispatcher)
  <2>1. Head(asyncCh) \in Entries /\ 1 \in DOMAIN asyncCh /\ Head(asyncCh) = asyncCh[1]
    BY <1>3, DispatchTakes DEF BusInv
  <2>2. Head(asyncCh).async
    BY <2>1 DEF BusInv, CountInv
  <2>3. /\ Journal(dispatcher, Head(asyncCh), FALSE) /\ pc[dispatcher] # "deliver"
        /\ pc' = [pc EXCEPT ![dispatcher] = "deliver"]
    BY <1>3 DEF Dispatch
  <2>4. SubFrame
    BY <1>3, SubFrameSteps
  <2>5. QED
    BY <1>0, <1>1, <2>1, <2>2, <2>3, <2>4
<1>4. QED
  BY <1>0, <1>2, <1>3

(* Every step journals an event, makes one delivery, or does neither.      *)
LEMMA Flights ==
    ASSUME BusInv, ProcType, ControlInv, [Next]_vars
    PROVE  \/ \E p \in Publishers : Journalled(p)
           \/ \E p \in Publishers : \E s \in Subs : Deliver(p, s)
           \/ log' = log /\ \A q \in Publishers : Steady(q)
<1>1. CASE \/ \E c \in Clients : \E x \in Subjects : \E b \in BOOLEAN : Publish(c, x, b)
           \/ Dispatch /\ ~ closed
  BY <1>1, Journals
<1>2. QED
  BY <1>1, SteadySteps, StepKinds

(* The journal only grows, so what it says of an event stays true.         *)
LEMMA LogGrows ==
    ASSUME BusInv, ProcType, ControlInv, [Next]_vars
    PROVE  /\ Len(log) \in Nat /\ Len(log') \in Nat /\ Len(log) <= Len(log')
           /\ \A i \in 1 .. Len(log) : log'[i] = log[i] /\ Owner(i)' = Owner(i)
<1>1. Len(log) \in Nat /\ Len(log) <= Len(log') /\ \A i \in 1 .. Len(log) : log'[i] = log[i]
  <2>1. Len(log) \in Nat
    BY LogBounded DEF BusInv
  <2>2. CASE \E p \in Publishers : Journalled(p)
    BY <2>1, <2>2 DEF Journalled
  <2>3. CASE log' = log
    BY <2>1, <2>3
  <2>4. CASE \E p \in Publishers : \E s \in Subs : Deliver(p, s)
    BY <2>1, <2>4 DEF Deliver, logVars
  <2>5. QED
    BY <2>2, <2>3, <2>4, Flights
<1>2. Len(log') \in Nat
  BY BusStep, LenProperties DEF BusInv, BusType
<1>3. QED
  BY <1>1, <1>2 DEF Owner

SameStream(s) ==
    /\ Stream(s)' = Stream(s) /\ dropped'[s] = dropped[s] /\ joined'[s] = joined[s]
    /\ s \in subs' => s \in subs
    /\ state'[s] = state[s] \/ (state[s] # "new" /\ state'[s] = "closed")

(* Which steps change what a subscription has received or is to receive.   *)
LEMMA StreamSteps ==
    ASSUME ProcType, SubType, ControlInv, StreamInv, SubscriptionInv, [Next]_vars, NEW s \in Subs
    PROVE  \/ SameStream(s)
           \/ \E p \in Publishers : Deliver(p, s)
           \/ \E c \in Clients : Subscribe(c, s)
           \/ \E c \in Clients : \E n \in 0 .. Len(log) : SubscribeDurable(c, s, n)
           \/ PumpQuit(s)
<1>1. ASSUME SubFrame
      PROVE  SameStream(s)
  BY <1>1 DEF SubFrame, SameStream, Stream
<1>2. ASSUME UNCHANGED <<joined, queue, hand, buffer, got, dropped>>, subs' \subseteq subs,
             state'[s] = state[s] \/ (state[s] # "new" /\ state'[s] = "closed")
      PROVE  SameStream(s)
  BY <1>2 DEF SameStream, Stream
<1>3. ASSUME NEW c \in Clients, NEW r \in Subs, Unsubscribe(c, r)
      PROVE  SameStream(s)
  BY <1>2, <1>3 DEF Unsubscribe, subVars
<1>4. ASSUME NEW c \in Clients, MarkClosed(c)
      PROVE  SameStream(s)
  BY <1>2, <1>4 DEF MarkClosed, subVars
<1>5. ASSUME NEW c \in Clients, NEW r \in Subs, Shutdown(c, r)
      PROVE  SameStream(s)
  <2>1. state[r] # "new"
    BY <1>5 DEF Shutdown, SubscriptionInv, Publishers
  <2>2. state' = [state EXCEPT ![r] = "closed"] /\ DOMAIN state = Subs
    BY <1>5 DEF Shutdown, SubType
  <2>3. state'[s] = state[s] \/ (state[s] # "new" /\ state'[s] = "closed")
    BY <2>1, <2>2
  <2>4. QED
    BY <1>2, <1>5, <2>3 DEF Shutdown
<1>6. ASSUME NEW r \in Subs, r # s,
             \/ \E c \in Clients : Subscribe(c, r)
             \/ \E c \in Clients : \E n \in 0 .. Len(log) : SubscribeDurable(c, r, n)
      PROVE  SameStream(s)
  <2>1. /\ state'[s] = state[s] /\ joined'[s] = joined[s] /\ dropped'[s] = dropped[s]
        /\ queue'[s] = queue[s] /\ buffer'[s] = buffer[s] /\ hand' = hand /\ got' = got
        /\ s \in subs' => s \in subs
    BY <1>6 DEF Subscribe, SubscribeDurable, NewSubscription, SubType
  <2>2. QED
    BY <2>1 DEF SameStream, Stream
<1>7. ASSUME NEW p \in Publishers, NEW r \in Subs, r # s, Deliver(p, r)
      PROVE  SameStream(s)
  BY <1>7, DeliverEffect DEF SameStream, Deliver
<1>8. ASSUME NEW r \in Subs, PumpTake(r) \/ PumpSend(r) \/ Receive(r)
      PROVE  SameStream(s)
  BY <1>8, ConsumeStep DEF SameStream, PumpTake, PumpSend, Receive
<1>9. ASSUME NEW r \in Subs, r # s, PumpQuit(r)
      PROVE  SameStream(s)
  BY <1>9, QuitStep DEF SameStream, PumpQuit
<1>10. QED
  <2>1. CASE \E c \in Clients : \E r \in Subs : Subscribe(c, r) \/ Unsubscribe(c, r)
    BY <1>3, <1>6, <2>1
  <2>2. CASE \E c \in Clients : \E r \in Subs : \E n \in 0 .. Len(log) : SubscribeDurable(c, r, n)
    BY <1>6, <2>2
  <2>3. CASE \E c \in Clients : MarkClosed(c)
    BY <1>4, <2>3
  <2>4. CASE \E p \in Publishers : \E r \in Subs : Deliver(p, r)
    BY <1>7, <2>4
  <2>5. CASE \E c \in Clients : \E r \in Subs : Shutdown(c, r)
    BY <1>5, <2>5
  <2>6. CASE \E r \in Subs : PumpTake(r) \/ PumpSend(r) \/ PumpQuit(r) \/ Receive(r)
    BY <1>8, <1>9, <2>6
  <2>7. QED
    BY <1>1, <2>1, <2>2, <2>3, <2>4, <2>5, <2>6, SubFrameSteps, StepKinds

LEMMA DeliveryStep ==
    ASSUME BusInv, ProcType, SubType, ControlInv, DeliveryInv, SubscriptionInv, StreamInv,
           [Next]_vars
    PROVE  DeliveryInv'
<1>1. /\ Len(log) \in Nat /\ Len(log') \in Nat /\ Len(log) <= Len(log')
      /\ \A i \in 1 .. Len(log) : log'[i] = log[i] /\ Owner(i)' = Owner(i)
  BY LogGrows
<1> DEFINE Newest(q) ==
             /\ event[q].seq \in 0 .. Len(log)
             /\ event[q].subject \in Subjects
             /\ event[q].seq # 0 =>
                  /\ Owner(event[q].seq) = q
                  /\ \A i \in 1 .. Len(log) : Owner(i) = q => i <= event[q].seq
                  /\ \A s \in targets[q] : joined[s] < event[q].seq
<1>2. \A q \in Publishers : pc[q] = "deliver" => Newest(q)
  BY DEF DeliveryInv
<1>3. /\ DOMAIN pc = Publishers /\ DOMAIN event = Publishers /\ DOMAIN targets = Publishers
      /\ targets \in [Publishers -> SUBSET Subs]
  BY DEF ProcType
<1>4. \A q \in Publishers : \A s \in targets[q] : state[s] # "new" /\ s \in Subs
  BY <1>3 DEF SubscriptionInv
<1>5. \A s \in Subs : state[s] # "new" => joined'[s] = joined[s]
  <2>1. \A s \in Subs : SameStream(s) => joined'[s] = joined[s]
    BY DEF SameStream
  <2>2. \A s \in Subs : \A p \in Publishers : Deliver(p, s) => joined'[s] = joined[s]
    BY DEF Deliver
  <2>3. \A s \in Subs : PumpQuit(s) => joined'[s] = joined[s]
    BY DEF PumpQuit
  <2>4. \A s \in Subs : \A c \in Clients : Subscribe(c, s) => state[s] = "new"
    BY DEF Subscribe, NewSubscription
  <2>5. \A s \in Subs : \A c \in Clients : \A n \in 0 .. Len(log) :
          SubscribeDurable(c, s, n) => state[s] = "new"
    BY DEF SubscribeDurable, NewSubscription
  <2>6. QED
    BY <2>1, <2>2, <2>3, <2>4, <2>5, StreamSteps
<1>6. CASE \E p \in Publishers : Journalled(p)
  <2>1. PICK p \in Publishers : Journalled(p)
    BY <1>6
  <2>2. /\ Len(log') = Len(log) + 1 /\ log'[Len(log) + 1].subject \in Subjects
        /\ pc' = [pc EXCEPT ![p] = "deliver"]
        /\ event' = [event EXCEPT ![p] = [seq |-> Len(log) + 1,
                                          subject |-> log'[Len(log) + 1].subject]]
        /\ targets' = [targets EXCEPT ![p] = Matching(log'[Len(log) + 1].subject)]
        /\ p = (IF log'[Len(log) + 1].async THEN dispatcher ELSE log'[Len(log) + 1].by)
        /\ joined' = joined
    BY <2>1 DEF Journalled, SubFrame
  <2>3. \A i \in Nat : i = Len(log) + 1 => Owner(i)' = p
    BY <2>2 DEF Owner
  <2>4. Newest(p)'
    <3>1. /\ event'[p].seq = Len(log) + 1 /\ event'[p].subject \in Subjects
          /\ targets'[p] \subseteq subs
      BY <1>3, <2>2 DEF Matching
    <3>2. Owner(event[p].seq)' = p
      BY <2>2, <3>1 DEF Owner
    <3>3. \A s \in subs : joined[s] \in 0 .. Len(log)
      BY DEF SubscriptionInv, SubType
    <3>4. \A s \in targets'[p] : joined'[s] < event'[p].seq
      BY <1>1, <2>2, <3>1, <3>3
    <3>5. QED
      BY <1>1, <2>2, <3>1, <3>2, <3>4
  <2>5. ASSUME NEW q \in Publishers, q # p, pc'[q] = "deliver"
        PROVE  Newest(q)'
    <3>1. Newest(q) /\ event'[q] = event[q] /\ targets'[q] = targets[q]
      BY <1>2, <1>3, <2>2, <2>5
    <3>2. \A i \in 1 .. Len(log') : Owner(i)' = q => i \in 1 .. Len(log) /\ Owner(i) = q
      BY <1>1, <2>2, <2>3, <2>5
    <3>3. event'[q].seq # 0 => Owner(event[q].seq)' = q
      BY <1>1, <3>1 DEF Owner
    <3>4. QED
      BY <1>1, <2>2, <3>1, <3>2, <3>3
  <2>6. QED
    BY <2>4, <2>5 DEF DeliveryInv
<1>7. ASSUME NEW q \in Publishers, log' = log, pc[q] = "deliver", event'[q] = event[q],
             targets'[q] \subseteq targets[q]
      PROVE  Newest(q)'
  <2>1. Newest(q)
    BY <1>2, <1>7
  <2>2. \A s \in targets'[q] : joined'[s] = joined[s]
    BY <1>4, <1>5, <1>7
  <2>3. Owner(event[q].seq)' = Owner(event[q].seq) /\ \A i \in 1 .. Len(log) : Owner(i)' = Owner(i)
    BY <1>7 DEF Owner
  <2>4. QED
    BY <1>7, <2>1, <2>2, <2>3
<1>8. CASE \E p \in Publishers : \E s \in Subs : Deliver(p, s)
  <2>1. /\ log' = log /\ pc' = pc /\ event' = event
        /\ \A q \in Publishers : targets'[q] \subseteq targets[q]
    BY <1>3, <1>8 DEF Deliver, logVars
  <2>2. QED
    BY <1>7, <2>1 DEF DeliveryInv
<1>9. CASE log' = log /\ \A q \in Publishers : Steady(q)
  <2>1. ASSUME NEW q \in Publishers, pc'[q] = "deliver"
        PROVE  Newest(q)'
    <3>1. CASE pc[q] = "deliver" /\ event'[q] = event[q] /\ targets'[q] = targets[q]
      BY <1>7, <1>9, <3>1
    <3>2. CASE event'[q].seq = 0 /\ event'[q].subject \in Subjects
      BY <1>1, <3>2
    <3>3. QED
      BY <1>9, <2>1, <3>1, <3>2 DEF Steady
  <2>2. QED
    BY <2>1 DEF DeliveryInv
<1>10. QED
  BY <1>6, <1>8, <1>9, Flights

(* Nothing is to be delivered to, or shut down in, an unmade subscription. *)
LEMMA SubscriptionStep ==
    ASSUME BusInv, ProcType, SubType, ControlInv, SubscriptionInv, StreamInv, [Next]_vars
    PROVE  SubscriptionInv'
<1>0. /\ Publishers = Clients \cup {dispatcher} /\ subs \subseteq Subs
      /\ DOMAIN pc = Publishers /\ DOMAIN state = Subs
      /\ targets \in [Publishers -> SUBSET Subs]
  BY DEF ProcType, SubType, Publishers
<1>1. /\ \A s \in subs : state[s] = "open"
      /\ \A p \in Publishers : \A s \in targets[p] : state[s] # "new" /\ s \in Subs
      /\ \A c \in Clients : pc[c] \in {"stop", "wait", "shutdown"} => targets[c] \cap subs = {}
  BY <1>0 DEF SubscriptionInv
<1> DEFINE Registered ==
             /\ \A s \in subs : state[s] = "open"
             /\ \A p \in Publishers : \A s \in targets[p] : state[s] # "new"
             /\ \A c \in Clients : pc[c] \in {"stop", "wait", "shutdown"}
                                     => targets[c] \cap subs = {}
<1>2. ASSUME UNCHANGED <<subs, state>>, NEW p \in Publishers,
             \A q \in Publishers : q # p => pc'[q] = pc[q] /\ targets'[q] = targets[q],
             \A s \in targets'[p] : state[s] # "new",
             \/ targets'[p] = targets[p] /\ pc[p] \in {"stop", "wait", "shutdown"}
             \/ pc'[p] \notin {"stop", "wait", "shutdown"}
      PROVE  Registered'
  BY <1>0, <1>1, <1>2
<1>3. ASSUME UNCHANGED <<subs, state, pc, targets>>
      PROVE  Registered'
  BY <1>0, <1>1, <1>3
<1>4. ASSUME NEW p \in Publishers, Journalled(p)
      PROVE  Registered'
  BY <1>0, <1>1, <1>2, <1>4 DEF Journalled, Matching, SubFrame
<1>5. ASSUME NEW c \in Clients, NEW x \in Subjects, Invalidate(c, x) \/ PublishAsync(c, x)
      PROVE  Registered'
  <2>1. /\ targets'[c] = targets[c] \/ targets'[c] \subseteq subs
        /\ \A q \in Publishers : q # c => pc'[q] = pc[q] /\ targets'[q] = targets[q]
        /\ pc'[c] \notin {"stop", "wait", "shutdown"} /\ UNCHANGED <<subs, state>>
    BY <1>0, <1>5 DEF Invalidate, PublishAsync, Goto, Matching, subVars
  <2>2. QED
    BY <1>0, <1>1, <1>2, <2>1
<1>6. ASSUME NEW c \in Clients, NEW s \in Subs,
             \/ Subscribe(c, s)
             \/ \E n \in 0 .. Len(log) : SubscribeDurable(c, s, n)
      PROVE  Registered'
  <2>1. /\ state' = [state EXCEPT ![s] = "open"] /\ state[s] = "new"
        /\ subs' = subs \cup {s} /\ UNCHANGED <<pc, targets>>
    BY <1>6 DEF Subscribe, SubscribeDurable, NewSubscription, procVars
  <2>2. QED
    BY <1>0, <1>1, <2>1
<1>7. ASSUME NEW c \in Clients, NEW s \in Subs, Unsubscribe(c, s)
      PROVE  Registered'
  <2>1. /\ state[s] = "open" /\ pc' = [pc EXCEPT ![c] = "shutdown"]
        /\ subs' = subs \ {s} /\ targets' = [targets EXCEPT ![c] = {s}] /\ state' = state
    BY <1>7 DEF Unsubscribe, Goto, subVars
  <2>2. QED
    BY <1>0, <1>1, <2>1
<1>8. ASSUME NEW c \in Clients, MarkClosed(c)
      PROVE  Registered'
  <2>1. /\ pc' = [pc EXCEPT ![c] = "stop"] /\ state' = state
        /\ subs' = {} /\ targets' = [targets EXCEPT ![c] = subs]
    BY <1>8 DEF MarkClosed, Goto, subVars
  <2>2. QED
    BY <1>0, <1>1, <2>1
<1>9. ASSUME NEW c \in Clients, NEW s \in Subs, Shutdown(c, s)
      PROVE  Registered'
  <2>1. /\ pc[c] = "shutdown" /\ s \in targets[c] /\ UNCHANGED <<pc, subs>>
        /\ targets' = [targets EXCEPT ![c] = targets[c] \ {s}]
        /\ state' = [state EXCEPT ![s] = "closed"]
    BY <1>9 DEF Shutdown
  <2>2. s \notin subs
    BY <1>1, <2>1
  <2>3. QED
    BY <1>0, <1>1, <2>1, <2>2
<1>10. ASSUME NEW p \in Publishers, Move(p)
       PROVE  Registered'
  <2>1. /\ UNCHANGED <<subs, state, targets>>
        /\ \A q \in Publishers : q # p => pc'[q] = pc[q]
        /\ pc[p] \in {"stop", "wait", "shutdown"} \/ pc'[p] \notin {"stop", "wait", "shutdown"}
    BY <1>0, <1>10 DEF Move, Delivered, ShutdownDone, Drained, CloseStop, DispatcherGone, Goto, subVars
  <2>2. QED
    BY <1>0, <1>1, <1>2, <2>1
<1>11. ASSUME NEW p \in Publishers, NEW s \in Subs, Deliver(p, s)
       PROVE  Registered'
  <2>1. /\ UNCHANGED <<subs, state, pc>> /\ pc[p] = "deliver"
        /\ targets' = [targets EXCEPT ![p] = targets[p] \ {s}]
    BY <1>11 DEF Deliver
  <2>2. QED
    BY <1>0, <1>1, <1>2, <2>1
<1>12. ASSUME NEW c \in Clients, AsyncSend(c) \/ AsyncRefused(c) \/ Close(c)
       PROVE  Registered'
  <2>1. /\ UNCHANGED <<subs, state, targets>>
        /\ \A q \in Publishers : q # c => pc'[q] = pc[q]
        /\ pc'[c] \notin {"stop", "wait", "shutdown"}
    BY <1>0, <1>12 DEF AsyncSend, AsyncRefused, Close, Goto, subVars
  <2>2. QED
    BY <1>0, <1>1, <1>2, <2>1
<1>13. ASSUME (Dispatch /\ closed) \/ Settle \/ SeeStop \/ DispatcherExit
       PROVE  Registered'
  <2>1. /\ UNCHANGED <<subs, state, targets>>
        /\ \A q \in Publishers : q # dispatcher => pc'[q] = pc[q]
        /\ pc'[dispatcher] \notin {"stop", "wait", "shutdown"}
    BY <1>0, <1>13 DEF Dispatch, Settle, SeeStop, DispatcherExit, Goto, subVars
  <2>2. QED
    BY <1>0, <1>1, <1>2, <2>1
<1>14. ASSUME \/ \E s \in Subs : PumpTake(s) \/ PumpSend(s) \/ PumpQuit(s) \/ Receive(s)
              \/ UNCHANGED vars
       PROVE  Registered'
  BY <1>3, <1>14 DEF PumpTake, PumpSend, PumpQuit, Receive, vars, procVars, subVars
<1>15. Registered'
  <2>1. CASE \E p \in Publishers : Journalled(p)
    BY <1>4, <2>1
  <2>2. CASE \E c \in Clients : \E x \in Subjects : Invalidate(c, x) \/ PublishAsync(c, x)
    BY <1>5, <2>2
  <2>3. CASE \E c \in Clients : \E s \in Subs : Subscribe(c, s) \/ Unsubscribe(c, s)
    BY <1>6, <1>7, <2>3
  <2>4. CASE \E c \in Clients : \E s \in Subs : \E n \in 0 .. Len(log) : SubscribeDurable(c, s, n)
    BY <1>6, <2>4
  <2>5. CASE \E c \in Clients : AsyncSend(c) \/ AsyncRefused(c) \/ Close(c) \/ MarkClosed(c)
    BY <1>8, <1>12, <2>5
  <2>6. CASE \E p \in Publishers : Move(p)
    BY <1>10, <2>6
  <2>7. CASE \E p \in Publishers : \E s \in Subs : Deliver(p, s)
    BY <1>11, <2>7
  <2>8. CASE \E c \in Clients : \E s \in Subs : Shutdown(c, s)
    BY <1>9, <2>8
  <2>9. CASE (Dispatch /\ closed) \/ Settle \/ SeeStop \/ DispatcherExit
    BY <1>13, <2>9
  <2>10. CASE \/ \E s \in Subs : PumpTake(s) \/ PumpSend(s) \/ PumpQuit(s) \/ Receive(s)
              \/ UNCHANGED vars
    BY <1>14, <2>10
  <2>11. CASE \/ \E c \in Clients : \E x \in Subjects : \E b \in BOOLEAN : Publish(c, x, b)
              \/ Dispatch /\ ~ closed
    BY <2>1, <2>11, Journals
  <2>12. QED
    BY <2>2, <2>3, <2>4, <2>5, <2>6, <2>7, <2>8, <2>9, <2>10, <2>11, StepKinds
<1>16. ASSUME NEW s \in Subs
       PROVE  /\ state'[s] = "new" => Stream(s)' = <<>> /\ dropped'[s] = {}
              /\ joined'[s] \in 0 .. Len(log')
  <2>1. /\ state[s] = "new" => Stream(s) = <<>> /\ dropped[s] = {}
        /\ joined[s] \in 0 .. Len(log)
    BY DEF SubscriptionInv
  <2>2. Len(log) \in Nat /\ Len(log') \in Nat /\ Len(log) <= Len(log')
    BY LogGrows
  <2>3. CASE SameStream(s)
    BY <2>1, <2>2, <2>3 DEF SameStream
  <2>4. CASE \E p \in Publishers : Deliver(p, s)
    BY <1>1, <2>1, <2>2, <2>4 DEF Deliver
  <2>5. CASE \/ \E c \in Clients : Subscribe(c, s)
             \/ \E c \in Clients : \E n \in 0 .. Len(log) : SubscribeDurable(c, s, n)
    <3>1. DOMAIN state = Subs /\ DOMAIN joined = Subs
      BY DEF SubType
    <3>2. state'[s] = "open"
      BY <2>5, <3>1 DEF Subscribe, SubscribeDurable, NewSubscription
    <3>3. joined'[s] \in 0 .. Len(log)
      BY <2>2, <2>5, <3>1 DEF Subscribe, SubscribeDurable
    <3>4. QED
      BY <2>2, <3>2, <3>3
  <2>6. CASE PumpQuit(s)
    BY <2>1, <2>2, <2>6 DEF PumpQuit
  <2>7. QED
    BY <2>3, <2>4, <2>5, <2>6, StreamSteps
<1>17. QED
  BY <1>15, <1>16 DEF SubscriptionInv

LEMMA ConcatParts ==
    ASSUME NEW S, NEW u \in Seq(S), NEW v \in Seq(S)
    PROVE  /\ \A k \in DOMAIN u : k \in DOMAIN (u \o v) /\ (u \o v)[k] = u[k]
           /\ \A e \in ToSet(v) : \E k \in DOMAIN (u \o v) : (u \o v)[k] = e /\ k > Len(u)
<1>1. /\ DOMAIN u = 1 .. Len(u) /\ DOMAIN v = 1 .. Len(v) /\ Len(u) \in Nat /\ Len(v) \in Nat
      /\ DOMAIN (u \o v) = 1 .. Len(u) + Len(v)
      /\ \A i \in 1 .. Len(u) + Len(v) :
           (u \o v)[i] = IF i <= Len(u) THEN u[i] ELSE v[i - Len(u)]
  BY ConcatProperties, LenProperties
<1>2. ASSUME NEW k \in DOMAIN v
      PROVE  \E i \in DOMAIN (u \o v) : (u \o v)[i] = v[k] /\ i > Len(u)
  <2>1. /\ Len(u) + k \in DOMAIN (u \o v) /\ ~ (Len(u) + k <= Len(u))
        /\ (Len(u) + k) - Len(u) = k
    BY <1>1, <1>2
  <2>2. (u \o v)[Len(u) + k] = v[k]
    BY <1>1, <2>1
  <2>3. Len(u) + k > Len(u)
    BY <1>1, <1>2
  <2>4. QED
    BY <2>1, <2>2, <2>3
<1>3. \A e \in ToSet(v) : \E k \in DOMAIN (u \o v) : (u \o v)[k] = e /\ k > Len(u)
  BY <1>2 DEF ToSet
<1>4. \A k \in DOMAIN u : k \in DOMAIN (u \o v) /\ (u \o v)[k] = u[k]
  BY <1>1
<1>5. QED
  BY <1>3, <1>4

(* Each discipline keeps to its own channels.                              *)
LEMMA ChannelStep ==
    ASSUME SubType, ControlInv, ProcType, StreamInv, [Next]_vars, NEW s \in Subs
    PROVE  /\ Len(hand'[s]) <= 1
           /\ s \in Durable => buffer'[s] = <<>>
           /\ s \in Live => queue'[s] = <<>> /\ hand'[s] = <<>>
<1>0. /\ Len(hand[s]) <= 1
      /\ s \in Durable => buffer[s] = <<>>
      /\ s \in Live => queue[s] = <<>> /\ hand[s] = <<>>
      /\ Durable \cap Live = {} /\ Len(<<>>) = 0
      /\ s \in Durable \/ s \in Live
  BY ConfigAssumption DEF StreamInv, Subs
<1>1. DOMAIN hand = Subs /\ DOMAIN queue = Subs /\ DOMAIN buffer = Subs
  BY DEF SubType
<1> DEFINE Goal == /\ Len(hand'[s]) <= 1
                   /\ s \in Durable => buffer'[s] = <<>>
                   /\ s \in Live => queue'[s] = <<>> /\ hand'[s] = <<>>
<1>2. ASSUME hand'[s] = hand[s], buffer'[s] = buffer[s], queue'[s] = queue[s]
      PROVE  Goal
  BY <1>0, <1>2
<1>3. ASSUME SubFrame
      PROVE  Goal
  BY <1>2, <1>3 DEF SubFrame
<1>4. ASSUME NEW c \in Clients, NEW r \in Subs, Subscribe(c, r)
      PROVE  Goal
  <2>1. /\ hand' = hand /\ queue' = queue /\ r \in Live
        /\ \A t \in Subs : t # r => buffer'[t] = buffer[t]
    BY <1>1, <1>4 DEF Subscribe
  <2>2. QED
    BY <1>0, <2>1
<1>5. ASSUME NEW c \in Clients, NEW r \in Subs, NEW n \in 0 .. Len(log), SubscribeDurable(c, r, n)
      PROVE  Goal
  <2>1. /\ hand' = hand /\ buffer' = buffer /\ r \in Durable
        /\ \A t \in Subs : t # r => queue'[t] = queue[t]
    BY <1>1, <1>5 DEF SubscribeDurable
  <2>2. QED
    BY <1>0, <2>1
<1>6. ASSUME NEW p \in Publishers, NEW r \in Subs, Deliver(p, r)
      PROVE  Goal
  <2>1. /\ hand' = hand
        /\ \A t \in Subs : t # r => queue'[t] = queue[t] /\ buffer'[t] = buffer[t]
        /\ r \in Live => queue' = queue
        /\ r \in Durable => buffer' = buffer
    BY <1>0, <1>1, <1>6, ConfigAssumption DEF Deliver
  <2>2. QED
    BY <1>0, <2>1
<1>7. ASSUME NEW r \in Subs, PumpTake(r) \/ PumpSend(r) \/ PumpQuit(r)
      PROVE  Goal
  <2>1. /\ hand'[r] = <<>> \/ hand'[r] = <<Head(queue[r])>>
        /\ \A t \in Subs : t # r => hand'[t] = hand[t] /\ queue'[t] = queue[t]
    BY <1>1, <1>7 DEF PumpTake, PumpSend, PumpQuit
  <2>2. r = s => s \notin Live
    BY <1>0, <1>7 DEF PumpTake, PumpSend, PumpQuit
  <2>3. Len(<<Head(queue[r])>>) = 1 /\ Len(<<>>) = 0
    OBVIOUS
  <2>4. buffer' = buffer
    BY <1>7 DEF PumpTake, PumpSend, PumpQuit
  <2>5. CASE r = s
    <3>1. Len(hand'[s]) <= 1
      <4>1. CASE hand'[r] = <<>>
        BY <4>1, <2>3, <2>5
      <4>2. CASE hand'[r] = <<Head(queue[r])>>
        <5> DEFINE h == hand'[r]
        <5>1. Len(h) = 1
          BY <4>2, <2>3
        <5> HIDE DEF h
        <5>2. Len(h) <= 1
          BY <5>1
        <5>3. QED
          BY <5>2, <2>5 DEF h
      <4>3. QED
        BY <2>1, <4>1, <4>2
    <3>2. QED
      BY <2>2, <2>4, <2>5, <3>1, <1>0
  <2>6. CASE r # s
    BY <2>1, <2>4, <2>6, <1>0
  <2>7. QED
    BY <2>5, <2>6
<1>8. ASSUME NEW r \in Subs, Receive(r)
      PROVE  Goal
  <2>1. /\ hand' = hand /\ queue' = queue /\ buffer[r] # <<>>
        /\ \A t \in Subs : t # r => buffer'[t] = buffer[t]
    BY <1>1, <1>8 DEF Receive
  <2>2. QED
    BY <1>0, <2>1
<1>9. ASSUME NEW c \in Clients, NEW r \in Subs, Unsubscribe(c, r) \/ Shutdown(c, r)
      PROVE  Goal
  BY <1>2, <1>9 DEF Unsubscribe, Shutdown, subVars
<1>10. ASSUME NEW c \in Clients, MarkClosed(c)
       PROVE  Goal
  BY <1>2, <1>10 DEF MarkClosed, subVars
<1> HIDE DEF Goal
<1>11. Goal
  <2>1. CASE \E c \in Clients : \E r \in Subs : Subscribe(c, r) \/ Unsubscribe(c, r)
    BY <1>4, <1>9, <2>1
  <2>2. CASE \E c \in Clients : \E r \in Subs : \E n \in 0 .. Len(log) : SubscribeDurable(c, r, n)
    BY <1>5, <2>2
  <2>3. CASE \E c \in Clients : MarkClosed(c)
    BY <1>10, <2>3
  <2>4. CASE \E p \in Publishers : \E r \in Subs : Deliver(p, r)
    BY <1>6, <2>4
  <2>5. CASE \E c \in Clients : \E r \in Subs : Shutdown(c, r)
    BY <1>9, <2>5
  <2>6. CASE \E r \in Subs : PumpTake(r) \/ PumpSend(r) \/ PumpQuit(r) \/ Receive(r)
    BY <1>7, <1>8, <2>6
  <2>7. QED
    BY <1>3, <2>1, <2>2, <2>3, <2>4, <2>5, <2>6, SubFrameSteps, StepKinds
<1>12. QED
  BY <1>11 DEF Goal

(* What a delivery carries, a backlog or a snapshot is journalled.         *)
LEMMA StreamInvStep ==
    ASSUME BusInv, ProcType, SubType, ControlInv, DeliveryInv, SubscriptionInv, StreamInv,
           [Next]_vars
    PROVE  StreamInv'
<1>1. Len(log) \in Nat /\ Len(log') \in Nat /\ Len(log) <= Len(log')
  BY LogGrows
<1>2. ASSUME NEW s \in Subs
      PROVE  /\ \A k \in DOMAIN Stream(s)' : Stream(s)'[k].seq <= Len(log')
             /\ dropped'[s] \subseteq 0 .. Len(log')
  <2>1. /\ \A k \in DOMAIN Stream(s) : Stream(s)[k] \in Items /\ Stream(s)[k].seq <= Len(log)
        /\ dropped[s] \subseteq 0 .. Len(log)
        /\ Stream(s) \in Seq(Items)
    BY ChannelTypes, ElementOfSeq, LenProperties DEF StreamInv
  <2>2. \A e \in Items : e.seq \in Nat
    BY DEF Items
  <2>3. ASSUME \A k \in DOMAIN Stream(s)' : /\ Stream(s)'[k].seq \in Nat
                                           /\ Stream(s)'[k].seq <= Len(log),
               dropped'[s] \subseteq 0 .. Len(log)
        PROVE  /\ \A k \in DOMAIN Stream(s)' : Stream(s)'[k].seq <= Len(log')
               /\ dropped'[s] \subseteq 0 .. Len(log')
    BY <1>1, <2>3
  <2>4. CASE SameStream(s)
    BY <2>1, <2>2, <2>3, <2>4 DEF SameStream
  <2>5. CASE \E p \in Publishers : Deliver(p, s)
    <3>1. PICK p \in Publishers : Deliver(p, s)
      BY <2>5
    <3>2. event[p] \in Items /\ event[p].seq \in 0 .. Len(log)
      BY <3>1 DEF Deliver, DeliveryInv, ProcType
    <3>3. CASE Stream(s)' = Stream(s) /\ dropped'[s] = dropped[s] \cup {event[p].seq}
      BY <1>1, <2>1, <2>2, <2>3, <3>2, <3>3
    <3>4. CASE Stream(s)' = Append(Stream(s), event[p]) /\ dropped'[s] = dropped[s]
      <4>1. /\ DOMAIN Append(Stream(s), event[p]) = 1 .. Len(Stream(s)) + 1
            /\ DOMAIN Stream(s) = 1 .. Len(Stream(s)) /\ Len(Stream(s)) \in Nat
            /\ \A i \in 1 .. Len(Stream(s)) : Append(Stream(s), event[p])[i] = Stream(s)[i]
            /\ Append(Stream(s), event[p])[Len(Stream(s)) + 1] = event[p]
        BY <2>1, <3>2, AppendProperties, LenProperties
      <4>2. \A k \in DOMAIN Append(Stream(s), event[p]) :
               /\ Append(Stream(s), event[p])[k].seq \in Nat
               /\ Append(Stream(s), event[p])[k].seq <= Len(log)
        BY <1>1, <2>1, <2>2, <3>2, <4>1
      <4>3. QED
        BY <2>1, <2>3, <3>4, <4>2
    <3>5. QED
      BY <3>1, <3>3, <3>4, DeliverEffect
  <2>6. CASE \E c \in Clients : Subscribe(c, s)
    <3>0. PICK q \in Seq(Items) : \E f \in 0 .. Len(q) :
            /\ \A k \in 1 .. Len(q) : q[k].seq \in 1 .. Len(log)
            /\ Stream(s)' \in Seq(Items) /\ Len(Stream(s)') = f
            /\ \A k \in 1 .. f : Stream(s)'[k] = q[k]
            /\ dropped'[s] = {q[i].seq : i \in f + 1 .. Len(q)}
      BY <2>6, SubscribeEffect DEF BusInv
    <3>1. PICK f \in 0 .. Len(q) :
            /\ \A k \in 1 .. Len(q) : q[k].seq \in 1 .. Len(log)
            /\ Stream(s)' \in Seq(Items) /\ Len(Stream(s)') = f
            /\ \A k \in 1 .. f : Stream(s)'[k] = q[k]
            /\ dropped'[s] = {q[i].seq : i \in f + 1 .. Len(q)}
      BY <3>0
    <3>2. Len(q) \in Nat /\ 1 .. f \subseteq 1 .. Len(q) /\ f + 1 .. Len(q) \subseteq 1 .. Len(q)
      BY LenProperties
    <3>3. DOMAIN Stream(s)' = 1 .. f
      BY <3>1, LenProperties
    <3>4. QED
      BY <1>1, <2>3, <3>1, <3>2, <3>3
  <2>7. CASE \E c \in Clients : \E n \in 0 .. Len(log) : SubscribeDurable(c, s, n)
    <3>1. PICK n \in 0 .. Len(log) : \E c \in Clients : SubscribeDurable(c, s, n)
      BY <2>7
    <3>2. /\ Stream(s)' = Backlog(s, n) /\ dropped'[s] = dropped[s]
          /\ Backlog(s, n) \in Seq(Items)
          /\ \A k \in 1 .. Len(Backlog(s, n)) : Backlog(s, n)[k].seq \in n + 1 .. Len(log)
      BY <3>1, SubscribeDurableEffect DEF BusInv
    <3>3. DOMAIN Backlog(s, n) = 1 .. Len(Backlog(s, n))
      BY <3>2, LenProperties
    <3>4. QED
      BY <1>1, <2>1, <2>3, <3>2, <3>3
  <2>8. CASE PumpQuit(s)
    <3>1. PICK v \in Seq(Items) : /\ Stream(s) = got[s] \o v /\ Stream(s)' = got[s]
                                  /\ dropped'[s] = dropped[s] \cup {e.seq : e \in ToSet(v)}
                                  /\ got[s] \in Seq(Items)
      BY <2>8, QuitStep
    <3>2. /\ \A k \in DOMAIN got[s] : k \in DOMAIN Stream(s) /\ Stream(s)[k] = got[s][k]
          /\ \A e \in ToSet(v) : \E k \in DOMAIN Stream(s) : Stream(s)[k] = e
      <4> DEFINE u == got[s]
      <4>1. u \in Seq(Items) /\ Stream(s) = u \o v
        BY <3>1
      <4> HIDE DEF u
      <4>2. /\ \A k \in DOMAIN u : k \in DOMAIN (u \o v) /\ (u \o v)[k] = u[k]
            /\ \A e \in ToSet(v) : \E k \in DOMAIN (u \o v) : (u \o v)[k] = e
        BY <4>1, ConcatParts
      <4>3. QED
        BY <4>1, <4>2 DEF u
    <3>3. \A e \in ToSet(v) : e.seq \in 0 .. Len(log)
      BY <1>1, <2>1, <2>2, <3>2
    <3>4. QED
      BY <2>1, <2>2, <2>3, <3>1, <3>2, <3>3
  <2>9. QED
    BY <2>4, <2>5, <2>6, <2>7, <2>8, StreamSteps DEF BusInv
<1>3. QED
  BY <1>2, ChannelStep DEF StreamInv

-----------------------------------------------------------------------------
(* Where an event is.                                                      *)

Slot(i) == {e \in Items : e.seq = i}
Flying(s, i) == {p \in Publishers : pc[p] = "deliver" /\ s \in targets[p] /\ event[p].seq = i}
Lost(s, i) == IF i \in dropped[s] THEN 1 ELSE 0

LEMMA OccurrencesCount ==
    ASSUME NEW q \in Seq(Items), NEW i
    PROVE  Occurrences(q, i) = Count(q, Slot(i))
<1>1. \A k \in DOMAIN q : q[k] \in Items
  BY ElementOfSeq, LenProperties
<1>2. {k \in DOMAIN q : q[k].seq = i} = Spots(q, Slot(i))
  BY <1>1 DEF Spots, Slot
<1>3. QED
  BY <1>2 DEF Occurrences, Count

LEMMA PlacesSum ==
    ASSUME SubType, ControlInv, NEW s \in Subs, NEW i
    PROVE  /\ IsFiniteSet(Flying(s, i)) /\ Cardinality(Flying(s, i)) \in Nat
           /\ Count(Stream(s), Slot(i)) \in Nat
           /\ Places(s, i) = Cardinality(Flying(s, i)) + Count(Stream(s), Slot(i)) + Lost(s, i)
<1>1. Flying(s, i) \in SUBSET Busy /\ IsFiniteSet(Busy)
  BY DEF Flying, Busy, ControlInv
<1>2. IsFiniteSet(Flying(s, i)) /\ Cardinality(Flying(s, i)) \in Nat
  BY <1>1, FS_Subset, FS_CardinalityType
<1>3. /\ Count(Stream(s), Slot(i)) \in Nat
      /\ Occurrences(Stream(s), i) = Count(Stream(s), Slot(i))
  BY ChannelTypes, SpotsFinite, OccurrencesCount
<1>4. QED
  BY <1>2, <1>3 DEF Places, InFlight, Flying, Lost

LEMMA PlacesSumNext ==
    ASSUME SubType', ControlInv', NEW s \in Subs, NEW i
    PROVE  /\ Stream(s)' \in Seq(Items)
           /\ Places(s, i)' = Cardinality(Flying(s, i)') + Count(Stream(s)', Slot(i)) + Lost(s, i)'
<1>1. /\ got'[s] \in Seq(Items) /\ hand'[s] \in Seq(Items)
      /\ queue'[s] \in Seq(Items) /\ buffer'[s] \in Seq(Items)
  BY DEF SubType
<1>2. got'[s] \o hand'[s] \in Seq(Items)
  BY <1>1, ConcatProperties
<1>3. (got'[s] \o hand'[s]) \o queue'[s] \in Seq(Items)
  BY <1>1, <1>2, ConcatProperties
<1>4. Stream(s)' \in Seq(Items)
  BY <1>1, <1>3, ConcatProperties DEF Stream
<1>5. Occurrences(Stream(s)', i) = Count(Stream(s)', Slot(i))
  BY <1>4, OccurrencesCount
<1>6. Places(s, i)' = Cardinality(Flying(s, i)') + Occurrences(Stream(s)', i) + Lost(s, i)'
  BY DEF Places, InFlight, Flying, Lost, Occurrences
<1>7. QED
  BY <1>4, <1>5, <1>6

(* The deliveries of an event to one subscription change only when one of  *)
(* them is made.                                                           *)
LEMMA FlyingStep ==
    ASSUME BusInv, ProcType, SubType, ControlInv, [Next]_vars,
           NEW s \in Subs, NEW i \in 1 .. Len(log)
    PROVE  Flying(s, i)' = Flying(s, i) \/ \E p \in Publishers : Deliver(p, s)
<1>0. /\ DOMAIN pc = Publishers /\ DOMAIN event = Publishers /\ DOMAIN targets = Publishers
      /\ Len(log) \in Nat /\ i # 0 /\ i # Len(log) + 1
  BY LogBounded DEF ProcType, BusInv
<1>1. CASE \E p \in Publishers : Journalled(p)
  <2>1. PICK p \in Publishers : Journalled(p)
    BY <1>1
  <2>2. pc[p] # "deliver" /\ event'[p].seq # i
    BY <1>0, <2>1 DEF Journalled
  <2>3. \A q \in Publishers : q # p =>
          pc'[q] = pc[q] /\ event'[q] = event[q] /\ targets'[q] = targets[q]
    BY <1>0, <2>1 DEF Journalled
  <2>4. QED
    BY <2>2, <2>3 DEF Flying
<1>2. ASSUME NEW p \in Publishers, NEW r \in Subs, r # s, Deliver(p, r)
      PROVE  Flying(s, i)' = Flying(s, i)
  <2>1. UNCHANGED <<pc, event>> /\ targets' = [targets EXCEPT ![p] = targets[p] \ {r}]
    BY <1>2 DEF Deliver
  <2>2. \A q \in Publishers : s \in targets'[q] <=> s \in targets[q]
    BY <1>0, <1>2, <2>1
  <2>3. QED
    BY <2>1, <2>2 DEF Flying
<1>3. CASE \A q \in Publishers : Steady(q)
  <2>1. ASSUME NEW q \in Publishers
        PROVE  (pc'[q] = "deliver" /\ s \in targets'[q] /\ event'[q].seq = i)
                 <=> (pc[q] = "deliver" /\ s \in targets[q] /\ event[q].seq = i)
    BY <1>0, <1>3 DEF Steady
  <2>2. QED
    BY <2>1 DEF Flying
<1>4. QED
  BY <1>1, <1>2, <1>3, Flights

(* A delivery moves its event from the publisher to the stream or drops it.*)
LEMMA DeliverPlaces ==
    ASSUME BusInv, ProcType, SubType, ControlInv, StreamInv, SubType', ControlInv',
           NEW p \in Publishers, NEW s \in Subs, Deliver(p, s),
           NEW i, Places(s, i) <= 1
    PROVE  Places(s, i)' = Places(s, i)
<1>0. /\ DOMAIN targets = Publishers
      /\ pc' = pc /\ event' = event /\ pc[p] = "deliver" /\ s \in targets[p]
      /\ targets' = [targets EXCEPT ![p] = targets[p] \ {s}]
  BY DEF Deliver, ProcType
<1> DEFINE F == Cardinality(Flying(s, i))
           F1 == Cardinality(Flying(s, i)')
           O == Count(Stream(s), Slot(i))
           O1 == Count(Stream(s)', Slot(i))
           D == Lost(s, i)
           D1 == Lost(s, i)'
<1>1. IsFiniteSet(Flying(s, i)) /\ F \in Nat /\ O \in Nat /\ Places(s, i) = F + O + D
  BY PlacesSum
<1>2. Places(s, i)' = F1 + O1 + D1
  BY PlacesSumNext
<1>3. event[p] \in Items /\ Stream(s) \in Seq(Items)
  BY ChannelTypes DEF ProcType
<1>4. Count(Append(Stream(s), event[p]), Slot(i)) = O + (IF event[p].seq = i THEN 1 ELSE 0)
  <2>1. event[p] \in Slot(i) <=> event[p].seq = i
    BY <1>3 DEF Slot
  <2>2. QED
    BY <1>3, <2>1, CountAppend
<1>5. \/ Stream(s)' = Stream(s) /\ dropped'[s] = dropped[s] \cup {event[p].seq}
      \/ Stream(s)' = Append(Stream(s), event[p]) /\ dropped'[s] = dropped[s]
  BY DeliverEffect
<1>6. CASE event[p].seq = i
  <2>1. Flying(s, i)' = Flying(s, i) \ {p} /\ p \in Flying(s, i)
    BY <1>0, <1>6 DEF Flying
  <2>2. F1 = F - 1 /\ F >= 1
    <3> DEFINE A == Flying(s, i)
    <3>1. IsFiniteSet(A) /\ p \in A /\ Flying(s, i)' = A \ {p} /\ Cardinality(A) \in Nat
      BY <1>1, <2>1
    <3> HIDE DEF A
    <3>2. Cardinality(A \ {p}) = Cardinality(A) - 1
      BY <3>1, FS_RemoveElement
    <3>3. Cardinality(A \ {p}) \in Nat
      BY <3>1, FS_RemoveElement, FS_CardinalityType
    <3>4. F1 = Cardinality(A \ {p}) /\ F = Cardinality(A)
      BY <3>1 DEF A
    <3>5. QED
      BY <3>1, <3>2, <3>3, <3>4
  <2> HIDE DEF F, F1, O, O1
  <2>3. D \in {0, 1} /\ D1 \in {0, 1}
    BY DEF Lost
  <2>4. F = 1 /\ O = 0 /\ D = 0
    BY <1>1, <2>2, <2>3
  <2>5. i \notin dropped[s]
    BY <2>4 DEF Lost
  <2>6. O1 + D1 = 1
    <3>1. CASE Stream(s)' = Stream(s) /\ dropped'[s] = dropped[s] \cup {event[p].seq}
      <4>1. O1 = O
        BY <3>1 DEF O, O1
      <4>2. D1 = 1
        BY <3>1, <1>6 DEF Lost
      <4>3. QED
        BY <2>4, <4>1, <4>2
    <3>2. CASE Stream(s)' = Append(Stream(s), event[p]) /\ dropped'[s] = dropped[s]
      <4>1. O1 = O + 1
        BY <3>2, <1>4, <1>6 DEF O1
      <4>2. D1 = 0
        BY <3>2, <2>5 DEF Lost
      <4>3. QED
        BY <2>4, <4>1, <4>2
    <3>3. QED
      BY <1>5, <3>1, <3>2
  <2> HIDE DEF D, D1
  <2>7. O1 \in Nat
    BY PlacesSumNext, SpotsFinite DEF O1
  <2>8. Places(s, i) = 1
    BY <1>1, <2>4
  <2>9. F1 = 0
    BY <2>2, <2>4
  <2>10. Places(s, i)' = 0 + O1 + D1
    BY <1>2, <2>9
  <2>11. D1 \in Nat
    BY DEF D1, Lost
  <2>12. Places(s, i)' = 1
    BY <2>6, <2>7, <2>10, <2>11
  <2>13. QED
    BY <2>8, <2>12
<1>7. CASE event[p].seq # i
  <2>1. Flying(s, i)' = Flying(s, i)
    BY <1>0, <1>7 DEF Flying
  <2>2. Count(Stream(s)', Slot(i)) = O
    <3>1. Count(Append(Stream(s), event[p]), Slot(i)) = O
      BY <1>1, <1>4, <1>7
    <3>2. CASE Stream(s)' = Stream(s)
      BY <3>2
    <3>3. CASE Stream(s)' = Append(Stream(s), event[p])
      BY <3>1, <3>3
    <3>4. QED
      BY <1>5, <3>2, <3>3
  <2>3. D1 = D
    BY <1>5, <1>7 DEF Lost
  <2>4. QED
    BY <1>1, <1>2, <2>1, <2>2, <2>3
<1>8. QED
  BY <1>6, <1>7

(* What a pump gives up is dropped.                                        *)
LEMMA QuitPlaces ==
    ASSUME BusInv, ProcType, SubType, ControlInv, StreamInv, SubType', ControlInv',
           NEW s \in Subs, PumpQuit(s),
           NEW i, Places(s, i) <= 1
    PROVE  Places(s, i)' = Places(s, i)
<1> DEFINE F == Cardinality(Flying(s, i))
           O == Count(Stream(s), Slot(i))
           O1 == Count(Stream(s)', Slot(i))
           D == Lost(s, i)
           D1 == Lost(s, i)'
<1>1. F \in Nat /\ O \in Nat /\ Places(s, i) = F + O + D
  BY PlacesSum
<1>2. UNCHANGED <<pc, event, targets>>
  BY DEF PumpQuit, procVars
<1>3. Places(s, i)' = F + O1 + D1
  <2>1. Flying(s, i)' = Flying(s, i)
    BY <1>2 DEF Flying
  <2>2. QED
    BY <2>1, PlacesSumNext
<1>4. PICK v \in Seq(Items) : /\ Stream(s) = got[s] \o v /\ Stream(s)' = got[s]
                              /\ dropped'[s] = dropped[s] \cup {e.seq : e \in ToSet(v)}
                              /\ got[s] \in Seq(Items)
  BY QuitStep
<1> DEFINE V == Count(v, Slot(i))
<1>5. O = O1 + V /\ O1 \in Nat /\ V \in Nat
  <2> DEFINE u == got[s]
  <2>1. u \in Seq(Items) /\ O = Count(u \o v, Slot(i)) /\ O1 = Count(u, Slot(i))
    BY <1>4
  <2> HIDE DEF u, O, O1
  <2>2. Count(u \o v, Slot(i)) = Count(u, Slot(i)) + Count(v, Slot(i))
    BY <2>1, CountConcat
  <2>3. Count(u, Slot(i)) \in Nat /\ Count(v, Slot(i)) \in Nat
    BY <2>1, SpotsFinite
  <2>4. QED
    BY <2>1, <2>2, <2>3
<1>6. \A e \in ToSet(v) : e \in Items
  BY ElementOfSeq, LenProperties DEF ToSet
<1>7. V = 0 <=> ~ \E e \in ToSet(v) : e.seq = i
  <2>1. V = 0 <=> \A k \in DOMAIN v : v[k] \notin Slot(i)
    BY SpotsFinite
  <2>2. \A k \in DOMAIN v : v[k] \in Items
    BY <1>6 DEF ToSet
  <2>3. QED
    BY <2>1, <2>2 DEF Slot, ToSet
<1>8. D1 = IF D = 1 \/ V # 0 THEN 1 ELSE 0
  BY <1>4, <1>7 DEF Lost
<1>9. D \in {0, 1}
  BY DEF Lost
<1> HIDE DEF F, O, O1, D, D1, V
<1>10. CASE V = 0
  BY <1>1, <1>3, <1>5, <1>8, <1>9, <1>10
<1>11. CASE V # 0
  <2>1. F = 0 /\ D = 0 /\ O1 = 0 /\ V = 1
    <3>1. F + (O1 + V) + D <= 1
      BY <1>1, <1>5
    <3>2. QED
      BY <3>1, <1>1, <1>5, <1>9, <1>11
  <2>2. QED
    BY <2>1, <1>1, <1>3, <1>5, <1>8
<1>12. QED
  BY <1>10, <1>11

(* An unmade subscription has no delivery under way.                       *)
LEMMA NewFlying ==
    ASSUME ProcType, SubscriptionInv, NEW s \in Subs, state[s] = "new", NEW i
    PROVE  Flying(s, i) = {} /\ Cardinality(Flying(s, i)) = 0
<1>1. Flying(s, i) = {}
  BY DEF Flying, SubscriptionInv, ProcType
<1>2. QED
  BY <1>1, FS_EmptySet

(* A list in publish order holds an event once.                            *)
LEMMA IncreasingOnce ==
    ASSUME NEW q \in Seq(Items), Increasing(q, Len(q)), NEW i
    PROVE  /\ Count(q, Slot(i)) \in Nat /\ Count(q, Slot(i)) <= 1
           /\ (\E k \in 1 .. Len(q) : q[k].seq = i) => Count(q, Slot(i)) = 1
           /\ (\A k \in 1 .. Len(q) : q[k].seq # i) => Count(q, Slot(i)) = 0
<1>1. DOMAIN q = 1 .. Len(q) /\ Len(q) \in Nat
  BY LenProperties
<1>2. \A k \in 1 .. Len(q) : /\ q[k] \in Items /\ q[k].seq \in Nat
                            /\ (q[k] \in Slot(i) <=> q[k].seq = i)
  <2>1. \A k \in 1 .. Len(q) : q[k] \in Items
    BY ElementOfSeq
  <2>2. \A e \in Items : e.seq \in Nat /\ (e \in Slot(i) <=> e.seq = i)
    BY DEF Slot, Items
  <2>3. QED
    BY <2>1, <2>2
<1>3. ASSUME NEW k \in DOMAIN q, NEW l \in DOMAIN q, q[k] \in Slot(i), q[l] \in Slot(i)
      PROVE  k = l
  <2>1. q[k].seq = q[l].seq /\ q[k].seq \in Nat
    BY <1>1, <1>2, <1>3
  <2>2. ~ (k < l) /\ ~ (l < k)
    BY <1>1, <2>1 DEF Increasing
  <2>3. QED
    BY <1>1, <2>2
<1>4. /\ Count(q, Slot(i)) <= 1
      /\ (\E k \in DOMAIN q : q[k] \in Slot(i)) => Count(q, Slot(i)) = 1
  BY <1>3, CountUnique
<1>5. /\ Count(q, Slot(i)) \in Nat
      /\ Count(q, Slot(i)) = 0 <=> \A k \in DOMAIN q : q[k] \notin Slot(i)
  BY SpotsFinite
<1>6. QED
  BY <1>1, <1>2, <1>4, <1>5

LEMMA SubscribePlaces ==
    ASSUME BusInv, ProcType, SubType, ControlInv, StreamInv, SubscriptionInv, SubType', ControlInv',
           NEW s \in Subs, NEW c \in Clients, Subscribe(c, s),
           NEW i
    PROVE  Places(s, i)' <= 1
<1>1. PICK q \in Seq(Items) : \E f \in 0 .. Len(q) :
         /\ Increasing(q, Len(q))
         /\ Stream(s)' \in Seq(Items) /\ Len(Stream(s)') = f
         /\ \A k \in 1 .. f : Stream(s)'[k] = q[k]
         /\ dropped'[s] = {q[j].seq : j \in f + 1 .. Len(q)}
  BY SubscribeEffect DEF BusInv
<1>2. PICK f \in 0 .. Len(q) :
         /\ Increasing(q, Len(q))
         /\ Stream(s)' \in Seq(Items) /\ Len(Stream(s)') = f
         /\ \A k \in 1 .. f : Stream(s)'[k] = q[k]
         /\ dropped'[s] = {q[j].seq : j \in f + 1 .. Len(q)}
  BY <1>1
<1> DEFINE u == Stream(s)'
           O1 == Count(Stream(s)', Slot(i))
           D1 == Lost(s, i)'
<1>3. Places(s, i)' = O1 + D1 /\ O1 \in Nat
  <2>1. UNCHANGED <<pc, event, targets>> /\ state[s] = "new"
    BY DEF Subscribe, NewSubscription, procVars
  <2>2. Flying(s, i)' = Flying(s, i)
    BY <2>1 DEF Flying
  <2>3. Cardinality(Flying(s, i)') = 0
    BY <2>1, <2>2, NewFlying
  <2>4. O1 \in Nat
    BY <1>2, SpotsFinite
  <2>5. Lost(s, i)' \in Nat
    BY DEF Lost
  <2>6. Places(s, i)' = 0 + O1 + D1
    BY <2>3, PlacesSumNext
  <2> HIDE DEF O1, D1
  <2>7. QED
    BY <2>4, <2>5, <2>6 DEF D1
<1>4. Len(q) \in Nat /\ f \in Nat /\ f <= Len(q) /\ 1 .. f \subseteq 1 .. Len(q)
  BY LenProperties
<1>5. u \in Seq(Items) /\ Len(u) = f /\ \A k \in 1 .. f : u[k] = q[k]
  BY <1>2
<1>6. Increasing(u, Len(u))
  <2> HIDE DEF u
  <2>1. QED
    BY <1>2, <1>4, <1>5 DEF Increasing
<1>7. O1 <= 1
  BY <1>5, <1>6, IncreasingOnce
<1>8. D1 = 1 => O1 = 0
  <2> SUFFICES ASSUME D1 = 1
               PROVE  O1 = 0
    OBVIOUS
  <2>1. PICK j \in f + 1 .. Len(q) : q[j].seq = i
    BY <1>2 DEF Lost
  <2>2. \A k \in 1 .. f : k \in 1 .. Len(q) /\ j \in 1 .. Len(q) /\ k < j
    BY <1>4
  <2>3. \A k \in 1 .. f : q[k].seq < i /\ q[k].seq \in Nat /\ i \in Nat
    <3>1. \A k \in 1 .. Len(q) : q[k].seq \in Nat
      <4>1. \A k \in 1 .. Len(q) : q[k] \in Items
        BY ElementOfSeq
      <4>2. \A e \in Items : e.seq \in Nat
        BY DEF Items
      <4>3. QED
        BY <4>1, <4>2
    <3>2. QED
      BY <1>2, <2>1, <2>2, <3>1 DEF Increasing
  <2>4. \A k \in 1 .. Len(u) : u[k].seq # i
    BY <1>5, <2>3
  <2>5. QED
    BY <1>5, <1>6, <2>4, IncreasingOnce
<1>9. D1 \in {0, 1}
  BY DEF Lost
<1> HIDE DEF O1, D1
<1>10. O1 + D1 <= 1
  BY <1>3, <1>7, <1>8, <1>9
<1>11. QED
  BY <1>3, <1>10

LEMMA SubscribeDurablePlaces ==
    ASSUME BusInv, ProcType, SubType, ControlInv, StreamInv, SubscriptionInv, SubType', ControlInv',
           NEW s \in Subs, NEW c \in Clients, NEW n \in 0 .. Len(log), SubscribeDurable(c, s, n),
           NEW i \in 1 .. Len(log)
    PROVE  /\ Places(s, i)' <= 1
           /\ i <= n => Places(s, i)' = 0
           /\ i > n /\ log[i].subject \in Wants[s] => Places(s, i)' = 1
<1> DEFINE q == Stream(s)'
           O1 == Count(Stream(s)', Slot(i))
<1>1. /\ q \in Seq(Items) /\ Increasing(q, Len(q))
      /\ \A k \in 1 .. Len(q) : q[k].seq \in n + 1 .. Len(log)
      /\ \A j \in n + 1 .. Len(log) : log[j].subject \in Wants[s] =>
            \E k \in 1 .. Len(q) : q[k].seq = j
      /\ dropped' = dropped /\ dropped[s] = {}
  BY SubscribeDurableEffect DEF BusInv
<1>2. Places(s, i)' = O1
  <2>1. UNCHANGED <<pc, event, targets>> /\ state[s] = "new"
    BY DEF SubscribeDurable, NewSubscription, procVars
  <2>2. Flying(s, i)' = Flying(s, i)
    BY <2>1 DEF Flying
  <2>3. Cardinality(Flying(s, i)') = 0
    BY <2>1, <2>2, NewFlying
  <2>4. O1 \in Nat
    BY <1>1, SpotsFinite
  <2>5. Lost(s, i)' = 0
    BY <1>1 DEF Lost
  <2>6. Places(s, i)' = 0 + O1 + 0
    BY <2>3, <2>5, PlacesSumNext
  <2> HIDE DEF O1
  <2>7. QED
    BY <2>4, <2>6
<1>3. /\ O1 <= 1
      /\ (\E k \in 1 .. Len(q) : q[k].seq = i) => O1 = 1
      /\ (\A k \in 1 .. Len(q) : q[k].seq # i) => O1 = 0
  BY <1>1, IncreasingOnce
<1> HIDE DEF q, O1
<1>4. Len(log) \in Nat /\ n \in Nat
  BY LogBounded DEF BusInv
<1>5. i <= n => \A k \in 1 .. Len(q) : q[k].seq # i
  BY <1>1, <1>4
<1>6. i > n => i \in n + 1 .. Len(log)
  BY <1>4
<1>7. QED
  BY <1>1, <1>2, <1>3, <1>5, <1>6

Owed(s, i) ==
    /\ Places(s, i) <= 1
    /\ s \in Durable /\ i <= joined[s] => Places(s, i) = 0
    /\ s \in subs /\ i > joined[s] /\ log[i].subject \in Wants[s] => Places(s, i) = 1

(* The event journalled by a step is on its way to the subscriptions that  *)
(* match it, and nowhere else.                                             *)
LEMMA NewPlaces ==
    ASSUME BusInv, ProcType, SubType, ControlInv, DeliveryInv, SubscriptionInv, StreamInv,
           SubType', ControlInv',
           NEW p \in Publishers, Journalled(p), NEW s \in Subs, NEW i, i = Len(log) + 1
    PROVE  Owed(s, i)'
<1>1. /\ DOMAIN pc = Publishers /\ DOMAIN event = Publishers /\ DOMAIN targets = Publishers
      /\ Len(log) \in Nat
  BY LogBounded DEF ProcType, BusInv
<1>2. /\ pc' = [pc EXCEPT ![p] = "deliver"]
      /\ event' = [event EXCEPT ![p] = [seq |-> i, subject |-> log'[i].subject]]
      /\ targets' = [targets EXCEPT ![p] = Matching(log'[i].subject)]
      /\ Stream(s)' = Stream(s) /\ dropped' = dropped /\ subs' = subs /\ joined' = joined
  BY DEF Journalled, SubFrame, Stream
<1>3. Flying(s, i)' = IF s \in Matching(log'[i].subject) THEN {p} ELSE {}
  <2>1. \A q \in Publishers : q # p /\ pc'[q] = "deliver" => event'[q].seq # i
    BY <1>1, <1>2 DEF DeliveryInv
  <2>2. pc'[p] = "deliver" /\ event'[p].seq = i /\ targets'[p] = Matching(log'[i].subject)
    BY <1>1, <1>2
  <2>3. QED
    BY <2>1, <2>2 DEF Flying
<1>4. Cardinality(Flying(s, i)') = IF s \in Matching(log'[i].subject) THEN 1 ELSE 0
  BY <1>3, FS_EmptySet, FS_Singleton
<1>5. Count(Stream(s)', Slot(i)) = 0
  <2>1. Stream(s) \in Seq(Items) /\ \A k \in DOMAIN Stream(s) : Stream(s)[k].seq <= Len(log)
    BY ChannelTypes DEF StreamInv
  <2>2. \A k \in DOMAIN Stream(s) : Stream(s)[k] \notin Slot(i)
    BY <1>1, <2>1 DEF Slot
  <2>3. QED
    BY <1>2, <2>1, <2>2, SpotsFinite
<1>6. Lost(s, i)' = 0
  BY <1>1, <1>2 DEF Lost, StreamInv
<1>7. Places(s, i)' = IF s \in Matching(log'[i].subject) THEN 1 ELSE 0
  BY <1>4, <1>5, <1>6, PlacesSumNext
<1>8. joined'[s] <= Len(log)
  BY <1>1, <1>2 DEF SubscriptionInv
<1>9. s \in subs /\ log'[i].subject \in Wants[s] => s \in Matching(log'[i].subject)
  BY DEF Matching
<1>a. joined'[s] \in Nat
  BY <1>1, <1>2 DEF SubscriptionInv
<1>10. QED
  BY <1>1, <1>2, <1>7, <1>8, <1>9, <1>a DEF Owed

LEMMA OldPlaces ==
    ASSUME BusInv, ProcType, SubType, ControlInv, StreamInv, SubscriptionInv,
           SubType', ControlInv', [Next]_vars,
           NEW s \in Subs, NEW i \in 1 .. Len(log), Owed(s, i)
    PROVE  Owed(s, i)'
<1>0. log'[i] = log[i] /\ Len(log) \in Nat
  BY LogGrows
<1>1. /\ Places(s, i) <= 1
      /\ s \in Durable /\ i <= joined[s] => Places(s, i) = 0
      /\ s \in subs /\ i > joined[s] /\ log[i].subject \in Wants[s] => Places(s, i) = 1
  BY DEF Owed
<1>2. ASSUME Places(s, i)' = Places(s, i), joined'[s] = joined[s], s \in subs' => s \in subs
      PROVE  Owed(s, i)'
  BY <1>0, <1>1, <1>2 DEF Owed
<1>3. CASE \E p \in Publishers : Deliver(p, s)
  <2>1. joined' = joined /\ subs' = subs
    BY <1>3 DEF Deliver
  <2>2. QED
    BY <1>1, <1>2, <1>3, <2>1, DeliverPlaces
<1>4. CASE PumpQuit(s)
  <2>1. joined' = joined /\ subs' = subs
    BY <1>4 DEF PumpQuit
  <2>2. QED
    BY <1>1, <1>2, <1>4, <2>1, QuitPlaces
<1>5. CASE \E c \in Clients : Subscribe(c, s)
  <2>1. Places(s, i)' <= 1
    BY <1>5, SubscribePlaces
  <2>2. s \in Live /\ joined' = [joined EXCEPT ![s] = Len(log)] /\ DOMAIN joined = Subs
    BY <1>5 DEF Subscribe, SubType
  <2>3. s \notin Durable /\ ~ (i > joined'[s])
    BY <1>0, <2>2, ConfigAssumption
  <2>4. QED
    BY <2>1, <2>3 DEF Owed
<1>6. CASE \E c \in Clients : \E n \in 0 .. Len(log) : SubscribeDurable(c, s, n)
  <2>1. PICK c \in Clients : \E n \in 0 .. Len(log) : SubscribeDurable(c, s, n)
    BY <1>6
  <2>2. PICK n \in 0 .. Len(log) : SubscribeDurable(c, s, n)
    BY <2>1
  <2>3. /\ Places(s, i)' <= 1
        /\ i <= n => Places(s, i)' = 0
        /\ i > n /\ log[i].subject \in Wants[s] => Places(s, i)' = 1
    BY <2>2, SubscribeDurablePlaces
  <2>4. joined'[s] = n
    BY <2>2 DEF SubscribeDurable, SubType
  <2>5. QED
    BY <1>0, <2>3, <2>4 DEF Owed
<1>7. CASE SameStream(s) /\ Flying(s, i)' = Flying(s, i)
  <2>1. Lost(s, i)' = Lost(s, i)
    BY <1>7 DEF SameStream, Lost
  <2>2. Places(s, i)' = Cardinality(Flying(s, i)') + Count(Stream(s)', Slot(i)) + Lost(s, i)'
    BY PlacesSumNext
  <2>3. Places(s, i) = Cardinality(Flying(s, i)) + Count(Stream(s), Slot(i)) + Lost(s, i)
    BY PlacesSum
  <2>4. Places(s, i)' = Places(s, i)
    BY <1>7, <2>1, <2>2, <2>3 DEF SameStream
  <2>5. QED
    BY <1>2, <1>7, <2>4 DEF SameStream
<1>8. QED
  BY <1>3, <1>4, <1>5, <1>6, <1>7, StreamSteps, FlyingStep

(* A registered durable subscription drops nothing.                        *)
LEMMA DurableKeeps ==
    ASSUME BusInv, ProcType, SubType, ControlInv, StreamInv, SubscriptionInv, [Next]_vars,
           NEW s \in Durable, s \in subs => dropped[s] = {}, s \in subs'
    PROVE  dropped'[s] = {}
<1>1. s \in Subs /\ s \notin Live
  BY ConfigAssumption DEF Subs
<1>2. CASE SameStream(s)
  BY <1>2 DEF SameStream
<1>3. CASE \E p \in Publishers : Deliver(p, s)
  <2>1. subs' = subs
    BY <1>3 DEF Deliver
  <2>2. state[s] # "closed"
    BY <2>1 DEF SubscriptionInv
  <2>3. QED
    BY <1>1, <1>3, <2>1, <2>2, DeliverEffect
<1>4. CASE \E c \in Clients : Subscribe(c, s)
  BY <1>1, <1>4 DEF Subscribe
<1>5. CASE \E c \in Clients : \E n \in 0 .. Len(log) : SubscribeDurable(c, s, n)
  BY <1>1, <1>5, SubscribeDurableEffect DEF BusInv
<1>6. CASE PumpQuit(s)
  BY <1>6 DEF PumpQuit, SubscriptionInv
<1>7. QED
  BY <1>1, <1>2, <1>3, <1>4, <1>5, <1>6, StreamSteps

LEMMA PlacesStep ==
    ASSUME BusInv, ProcType, SubType, ControlInv, DeliveryInv, SubscriptionInv, StreamInv,
           SubType', ControlInv', ExactlyOnePlace, [Next]_vars
    PROVE  ExactlyOnePlace'
<1>0. Len(log) \in Nat
  BY LogGrows
<1>1. ASSUME NEW s \in Subs, NEW i \in 1 .. Len(log')
      PROVE  Owed(s, i)'
  <2>1. CASE i \in 1 .. Len(log)
    <3>1. Owed(s, i)
      BY <2>1 DEF ExactlyOnePlace, Owed
    <3>2. QED
      BY <2>1, <3>1, OldPlaces
  <2>2. CASE i \notin 1 .. Len(log)
    <3>1. CASE \E p \in Publishers : Journalled(p)
      <4>1. PICK p \in Publishers : Journalled(p)
        BY <3>1
      <4>2. i = Len(log) + 1
        BY <1>0, <2>2, <4>1 DEF Journalled
      <4>3. QED
        BY <4>1, <4>2, NewPlaces
    <3>2. CASE log' = log \/ \E p \in Publishers : \E r \in Subs : Deliver(p, r)
      BY <2>2, <3>2 DEF Deliver, logVars
    <3>3. QED
      BY <3>1, <3>2, Flights
  <2>3. QED
    BY <2>1, <2>2
<1>2. ASSUME NEW s \in Subs, s \in subs' \cap Durable
      PROVE  dropped'[s] = {}
  BY <1>2, DurableKeeps DEF ExactlyOnePlace
<1>3. QED
  BY <1>1, <1>2 DEF ExactlyOnePlace, Owed

-----------------------------------------------------------------------------
(* The order of the streams.                                               *)

(* What is being delivered to a subscription is not in its stream yet.     *)
LEMMA NotYetThere ==
    ASSUME SubType, ControlInv, DeliveryInv, BusInv, ExactlyOnePlace,
           NEW p \in Publishers, NEW s \in Subs, Deliver(p, s), event[p].seq # 0
    PROVE  \A k \in DOMAIN Stream(s) : Stream(s)[k].seq # event[p].seq
<1> DEFINE i == event[p].seq
           F == Cardinality(Flying(s, i))
           O == Count(Stream(s), Slot(i))
<1>1. i \in 1 .. Len(log) /\ pc[p] = "deliver" /\ s \in targets[p]
  BY LogBounded DEF Deliver, DeliveryInv, BusInv
<1>2. Places(s, i) <= 1
  BY <1>1 DEF ExactlyOnePlace
<1>3. /\ IsFiniteSet(Flying(s, i)) /\ F \in Nat /\ O \in Nat
      /\ Places(s, i) = F + O + Lost(s, i)
  BY PlacesSum
<1>4. F # 0
  <2>1. p \in Flying(s, i)
    BY <1>1 DEF Flying
  <2>2. QED
    BY <1>3, <2>1, FS_EmptySet
<1>5. Lost(s, i) \in {0, 1}
  BY DEF Lost
<1>6. Stream(s) \in Seq(Items)
  BY ChannelTypes
<1>7. O = 0 <=> \A k \in DOMAIN Stream(s) : Stream(s)[k] \notin Slot(i)
  BY <1>6, SpotsFinite
<1>8. O = 0
  <2> HIDE DEF F, O, i
  <2>1. QED
    BY <1>2, <1>3, <1>4, <1>5
<1>9. \A k \in DOMAIN Stream(s) : Stream(s)[k] \in Items
  BY <1>6, ElementOfSeq, LenProperties
<1>10. QED
  BY <1>7, <1>8, <1>9 DEF Slot

(* In a stream one event comes before another because it already did, or   *)
(* because both were in the backlog or the snapshots, or because the other *)
(* came last.                                                              *)
LEMMA BeforeStep ==
    ASSUME BusInv, ProcType, SubType, ControlInv, SubscriptionInv, StreamInv, [Next]_vars,
           NEW s \in Subs, NEW i, NEW j, Before(s, i, j)'
    PROVE  \/ Before(s, i, j)
           \/ i < j
           \/ \E p \in Publishers :
                 /\ Deliver(p, s) /\ event[p].seq = j
                 /\ \E k \in DOMAIN Stream(s) : Stream(s)[k].seq = i
<1>0. Stream(s) \in Seq(Items)
  BY ChannelTypes
<1>1. PICK k \in DOMAIN Stream(s)', l \in DOMAIN Stream(s)' :
         k < l /\ Stream(s)'[k].seq = i /\ Stream(s)'[l].seq = j
  BY DEF Before
<1>2. CASE Stream(s)' = Stream(s)
  BY <1>1, <1>2 DEF Before
<1>3. CASE \E p \in Publishers : Deliver(p, s)
  <2>1. PICK p \in Publishers : Deliver(p, s)
    BY <1>3
  <2>2. CASE Stream(s)' = Append(Stream(s), event[p])
    <3>1. event[p] \in Items
      BY DEF ProcType
    <3> DEFINE q == Stream(s)
               e == event[p]
    <3>2. /\ q \in Seq(Items) /\ e \in Items /\ Stream(s)' = Append(q, e)
          /\ e.seq = event[p].seq
      BY <1>0, <2>2, <3>1
    <3>3. Before(s, i, j) <=> \E m, n \in DOMAIN q : m < n /\ q[m].seq = i /\ q[n].seq = j
      BY DEF Before
    <3> HIDE DEF q, e
    <3>4. /\ DOMAIN Append(q, e) = 1 .. Len(q) + 1 /\ DOMAIN q = 1 .. Len(q) /\ Len(q) \in Nat
          /\ \A m \in 1 .. Len(q) : Append(q, e)[m] = q[m]
          /\ Append(q, e)[Len(q) + 1] = e
      BY <3>2, AppendProperties, LenProperties
    <3>5. /\ k \in 1 .. Len(q) + 1 /\ l \in 1 .. Len(q) + 1 /\ k < l
          /\ Append(q, e)[k].seq = i /\ Append(q, e)[l].seq = j
      BY <1>1, <3>2, <3>4
    <3>6. k \in DOMAIN q /\ q[k].seq = i
      BY <3>4, <3>5
    <3>7. CASE l = Len(q) + 1
      <4>1. e.seq = j
        BY <3>4, <3>5, <3>7
      <4>2. QED
        BY <2>1, <3>2, <3>6, <4>1 DEF q
    <3>8. CASE l # Len(q) + 1
      <4>1. l \in DOMAIN q /\ q[l].seq = j
        BY <3>4, <3>5, <3>8
      <4>2. QED
        BY <3>3, <3>5, <3>6, <4>1
    <3>9. QED
      BY <3>7, <3>8
  <2>3. QED
    BY <1>0, <1>2, <2>1, <2>2, DeliverEffect
<1>4. CASE \E c \in Clients : \E n \in 0 .. Len(log) : SubscribeDurable(c, s, n)
  <2>1. PICK n \in 0 .. Len(log) : \E c \in Clients : SubscribeDurable(c, s, n)
    BY <1>4
  <2>2. /\ Stream(s)' \in Seq(Items)
        /\ Increasing(Stream(s)', Len(Stream(s)'))
    BY <1>0, <2>1, SubscribeDurableEffect DEF BusInv
  <2>3. DOMAIN Stream(s)' = 1 .. Len(Stream(s)')
    BY <2>2, LenProperties
  <2>4. QED
    BY <1>1, <2>2, <2>3 DEF Increasing
<1>5. CASE PumpQuit(s)
  <2>1. PICK v \in Seq(Items) : /\ Stream(s) = got[s] \o v /\ Stream(s)' = got[s]
                                /\ got[s] \in Seq(Items)
    BY <1>0, <1>5, QuitStep
  <2> DEFINE u == got[s]
  <2>2. u \in Seq(Items) /\ Stream(s) = u \o v /\ Stream(s)' = u
    BY <2>1
  <2> HIDE DEF u
  <2>3. \A m \in DOMAIN u : m \in DOMAIN (u \o v) /\ (u \o v)[m] = u[m]
    BY <2>2, ConcatParts
  <2>4. \A m \in DOMAIN u : m \in DOMAIN Stream(s) /\ Stream(s)[m] = u[m]
    BY <2>2, <2>3
  <2>5. QED
    BY <1>1, <2>2, <2>4 DEF Before
<1>6. CASE SameStream(s)
  BY <1>2, <1>6 DEF SameStream
<1>7. CASE \E c \in Clients : Subscribe(c, s)
  <2>1. PICK q \in Seq(Items) : \E f \in 0 .. Len(q) :
           /\ Increasing(q, Len(q))
           /\ Stream(s)' \in Seq(Items) /\ Len(Stream(s)') = f
           /\ \A m \in 1 .. f : Stream(s)'[m] = q[m]
    BY <1>0, <1>7, SubscribeEffect DEF BusInv
  <2>2. PICK f \in 0 .. Len(q) :
           /\ Increasing(q, Len(q))
           /\ Stream(s)' \in Seq(Items) /\ Len(Stream(s)') = f
           /\ \A m \in 1 .. f : Stream(s)'[m] = q[m]
    BY <2>1
  <2>3. DOMAIN Stream(s)' = 1 .. f /\ 1 .. f \subseteq 1 .. Len(q)
    BY <2>2, LenProperties
  <2>4. /\ k \in 1 .. Len(q) /\ l \in 1 .. Len(q) /\ k < l
        /\ q[k].seq = i /\ q[l].seq = j
    BY <1>1, <2>2, <2>3
  <2>5. QED
    BY <2>2, <2>4 DEF Increasing
<1>8. QED
  BY <1>0, <1>3, <1>4, <1>5, <1>6, <1>7, StreamSteps

LEMMA StreamOrderStep ==
    ASSUME BusInv, ProcType, SubType, ControlInv, DeliveryInv, SubscriptionInv, StreamInv,
           ExactlyOnePlace, StreamOrder, [Next]_vars
    PROVE  StreamOrder'
<1> SUFFICES ASSUME NEW s \in Subs, NEW i \in 1 .. Len(log'), NEW j \in 1 .. Len(log'),
                    Before(s, i, j)', Owner(i)' = Owner(j)'
             PROVE  i < j
  BY DEF StreamOrder
<1>0. /\ Len(log) \in Nat /\ Len(log') \in Nat
      /\ \A n \in 1 .. Len(log) : Owner(n)' = Owner(n)
  BY LogGrows
<1>1. \A k \in DOMAIN Stream(s) : Stream(s)[k].seq <= Len(log)
  BY <1>0 DEF StreamInv
<1>2. CASE Before(s, i, j)
  <2>1. i <= Len(log) /\ j <= Len(log)
    BY <1>1, <1>2 DEF Before
  <2>2. i \in 1 .. Len(log) /\ j \in 1 .. Len(log)
    BY <1>0, <2>1
  <2>3. QED
    BY <1>0, <1>2, <2>2 DEF StreamOrder
<1>3. CASE \E p \in Publishers :
              /\ Deliver(p, s) /\ event[p].seq = j
              /\ \E k \in DOMAIN Stream(s) : Stream(s)[k].seq = i
  <2>1. PICK p \in Publishers :
              /\ Deliver(p, s) /\ event[p].seq = j
              /\ \E k \in DOMAIN Stream(s) : Stream(s)[k].seq = i
    BY <1>3
  <2>2. log' = log /\ i <= Len(log)
    BY <1>1, <2>1 DEF Deliver, logVars
  <2>3. i \in 1 .. Len(log) /\ j \in 1 .. Len(log) /\ j # 0
    BY <1>0, <2>2
  <2>4. i # j
    BY <1>0, <2>1, <2>3, NotYetThere
  <2>5. Owner(j) = p /\ \A n \in 1 .. Len(log) : Owner(n) = p => n <= j
    BY <2>1, <2>3 DEF DeliveryInv, Deliver
  <2>6. i <= j
    BY <1>0, <2>3, <2>5
  <2>7. QED
    BY <2>3, <2>4, <2>6
<1>4. QED
  BY <1>2, <1>3, BeforeStep

LEMMA SnapshotStep ==
    ASSUME BusInv, ProcType, SubType, ControlInv, DeliveryInv, SubscriptionInv, StreamInv,
           SnapshotFirst, [Next]_vars
    PROVE  SnapshotFirst'
<1> DEFINE First(q, n) == \A k, l \in DOMAIN q :
             k < l /\ q[l].seq # 0 /\ q[l].seq <= n => q[k].seq # 0 /\ q[k].seq < q[l].seq
<1> SUFFICES ASSUME NEW s \in Live
             PROVE  First(Stream(s)', joined'[s])
  BY DEF SnapshotFirst
<1>0. s \in Subs /\ s \notin Durable /\ Stream(s) \in Seq(Items)
  BY ConfigAssumption, ChannelTypes DEF Subs
<1>1. First(Stream(s), joined[s])
  BY DEF SnapshotFirst
<1>2. CASE Stream(s)' = Stream(s) /\ joined'[s] = joined[s]
  BY <1>1, <1>2
<1>3. CASE \E p \in Publishers : Deliver(p, s)
  <2>1. PICK p \in Publishers : Deliver(p, s)
    BY <1>3
  <2>2. joined'[s] = joined[s] /\ joined[s] \in Nat /\ event[p].seq \in Nat
    <3>1. \A e \in Items : e.seq \in Nat
      BY DEF Items
    <3>2. QED
      BY <1>0, <2>1, <3>1 DEF Deliver, SubType, ProcType
  <2>3. event[p].seq # 0 => joined[s] < event[p].seq
    BY <2>1 DEF Deliver, DeliveryInv
  <2>4. CASE Stream(s)' = Append(Stream(s), event[p])
    <3> DEFINE q == Stream(s)
               e == event[p]
               n == joined[s]
    <3>1. /\ q \in Seq(Items) /\ e \in Items /\ Stream(s)' = Append(q, e) /\ n \in Nat
          /\ joined'[s] = n /\ First(q, n) /\ e.seq \in Nat /\ (e.seq # 0 => n < e.seq)
      BY <1>0, <1>1, <2>2, <2>3, <2>4 DEF ProcType
    <3> HIDE DEF q, e, n
    <3>2. /\ DOMAIN Append(q, e) = 1 .. Len(q) + 1 /\ DOMAIN q = 1 .. Len(q) /\ Len(q) \in Nat
          /\ \A m \in 1 .. Len(q) : Append(q, e)[m] = q[m]
          /\ Append(q, e)[Len(q) + 1] = e
      BY <3>1, AppendProperties, LenProperties
    <3>3. ASSUME NEW k \in DOMAIN Append(q, e), NEW l \in DOMAIN Append(q, e), k < l,
                 Append(q, e)[l].seq # 0, Append(q, e)[l].seq <= n
          PROVE  Append(q, e)[k].seq # 0 /\ Append(q, e)[k].seq < Append(q, e)[l].seq
      <4>1. l # Len(q) + 1
        BY <3>1, <3>2, <3>3
      <4>2. k \in DOMAIN q /\ l \in DOMAIN q
        BY <3>2, <3>3, <4>1
      <4>3. Append(q, e)[k] = q[k] /\ Append(q, e)[l] = q[l]
        BY <3>2, <4>2
      <4>4. QED
        BY <3>1, <3>3, <4>2, <4>3
    <3>4. First(Append(q, e), n)
      BY <3>3
    <3>5. QED
      BY <3>1, <3>4
  <2>5. QED
    BY <1>0, <1>2, <2>1, <2>2, <2>4, DeliverEffect
<1>4. CASE \E c \in Clients : Subscribe(c, s)
  <2>1. PICK q \in Seq(Items) : \E f \in 0 .. Len(q) :
           /\ Increasing(q, Len(q))
           /\ \A k \in 1 .. Len(q) : q[k].seq \in 1 .. Len(log)
           /\ Stream(s)' \in Seq(Items) /\ Len(Stream(s)') = f
           /\ \A k \in 1 .. f : Stream(s)'[k] = q[k]
    BY <1>0, <1>4, SubscribeEffect DEF BusInv
  <2>2. PICK f \in 0 .. Len(q) :
           /\ Increasing(q, Len(q))
           /\ \A k \in 1 .. Len(q) : q[k].seq \in 1 .. Len(log)
           /\ Stream(s)' \in Seq(Items) /\ Len(Stream(s)') = f
           /\ \A k \in 1 .. f : Stream(s)'[k] = q[k]
    BY <2>1
  <2>3. DOMAIN Stream(s)' = 1 .. f /\ 1 .. f \subseteq 1 .. Len(q)
    BY <2>2, LenProperties
  <2>4. \A k, l \in 1 .. f : k < l => q[k].seq # 0 /\ q[k].seq < q[l].seq
    BY <2>2, <2>3 DEF Increasing
  <2>5. QED
    BY <2>2, <2>3, <2>4
<1>5. CASE \E c \in Clients : \E n \in 0 .. Len(log) : SubscribeDurable(c, s, n)
  BY <1>0, <1>5 DEF SubscribeDurable
<1>6. CASE PumpQuit(s)
  BY <1>0, <1>6, QuitStep
<1>7. CASE SameStream(s)
  BY <1>2, <1>7 DEF SameStream
<1>8. QED
  BY <1>0, <1>3, <1>4, <1>5, <1>6, <1>7, StreamSteps

-----------------------------------------------------------------------------
(* The invariant holds at the start and is kept.                           *)

LEMMA InitIInv ==
    ASSUME Init
    PROVE  IInv
<1>0. /\ dispatcher \notin Clients /\ Publishers = Clients \cup {dispatcher}
      /\ MaxCalls \in Nat /\ BufferSize \in Nat
  BY ConfigAssumption DEF Publishers
<1>1. /\ closed = FALSE /\ stopped = FALSE
      /\ log = <<>> /\ calls = 0
      /\ sticky = [x \in Subjects |-> 0]
      /\ subs = {}
      /\ asyncCh = <<>> /\ asyncPending = 0 /\ accepted = {}
      /\ Len(log) = 0 /\ Len(asyncCh) = 0 /\ DOMAIN log = {} /\ DOMAIN asyncCh = {}
  BY DEF Init
<1>2. /\ pc = [p \in Publishers |-> IF p = dispatcher THEN "select" ELSE "idle"]
      /\ event = [p \in Publishers |-> Idle]
      /\ targets = [p \in Publishers |-> {}]
  BY DEF Init
<1>3. /\ state = [s \in Subs |-> "new"]
      /\ joined = [s \in Subs |-> 0]
      /\ queue = [s \in Subs |-> <<>>]
      /\ hand = [s \in Subs |-> <<>>]
      /\ buffer = [s \in Subs |-> <<>>]
      /\ got = [s \in Subs |-> <<>>]
      /\ dropped = [s \in Subs |-> {}]
  BY DEF Init
<1>4. <<>> \in Seq(Items) /\ <<>> \in Seq(Entries) /\ Len(<<>>) = 0
  OBVIOUS
<1>5. BusType
  <2>1. 0 \in 0 .. MaxCalls /\ 0 \in 0 .. Len(log)
    BY <1>0, <1>1
  <2>2. sticky \in [Subjects -> 0 .. Len(log)]
    BY <1>1, <2>1
  <2>3. log \in Seq(Entries) /\ asyncCh \in Seq(Entries)
    BY <1>1, <1>4
  <2>4. closed \in BOOLEAN /\ stopped \in BOOLEAN /\ accepted \subseteq 1 .. MaxCalls
    BY <1>1
  <2>5. calls \in 0 .. MaxCalls /\ asyncPending \in 0 .. MaxCalls
    BY <1>1, <2>1
  <2>6. QED
    BY <2>2, <2>3, <2>4, <2>5 DEF BusType
<1>6. ProcType
  BY <1>0, <1>2 DEF ProcType, Idle, Items
<1>7. SubType
  BY <1>0, <1>1, <1>3, <1>4 DEF SubType
<1>8. /\ \A c \in Clients : pc[c] = "idle"
      /\ pc[dispatcher] = "select"
  BY <1>0, <1>2
<1>9. ControlInv
  <2>1. Busy = {dispatcher}
    BY <1>0, <1>8 DEF Busy
  <2>2. IsFiniteSet(Busy)
    BY <2>1, FS_Singleton
  <2>3. QED
    BY <1>8, <2>2 DEF ControlInv
<1>10. DeliveryInv
  BY <1>0, <1>8 DEF DeliveryInv
<1>11. \A s \in Subs : Stream(s) = <<>>
  <2>1. <<>> \o <<>> = <<>>
    BY <1>4, ConcatEmptySeq
  <2>2. QED
    BY <1>3, <2>1 DEF Stream
<1>12. SubscriptionInv
  <2>1. \A p \in Publishers : targets[p] = {}
    BY <1>2
  <2>2. \A c \in Clients : targets[c] \cap subs = {}
    BY <1>1
  <2>3. \A s \in Subs : dropped[s] = {} /\ joined[s] = 0 /\ 0 \in 0 .. Len(log)
    BY <1>1, <1>3
  <2>4. QED
    BY <1>1, <1>11, <2>1, <2>2, <2>3 DEF SubscriptionInv
<1>13. StreamInv
  BY <1>3, <1>4, <1>11, ConfigAssumption DEF StreamInv, Subs
<1>14. StickyInv
  BY <1>1 DEF StickyInv
<1>15. CountInv
  <2>1. Senders = {} /\ AtWork = 0
    BY <1>8 DEF Senders, AtWork
  <2>2. Cardinality(Senders) = 0
    BY <2>1, FS_EmptySet
  <2>3. QED
    BY <1>1, <2>1, <2>2 DEF CountInv
<1>16. CallOrder
  BY <1>1, <1>8 DEF CallOrder, Senders
<1>17. StreamOrder /\ AcceptedKept
  BY <1>1 DEF StreamOrder, AcceptedKept
<1>18. ExactlyOnePlace
  BY <1>1 DEF ExactlyOnePlace
<1>19. SnapshotFirst
  <2>1. \A s \in Live : Stream(s) = <<>>
    BY <1>11 DEF Subs
  <2>2. QED
    BY <2>1 DEF SnapshotFirst
<1>20. QED
  BY <1>5, <1>6, <1>7, <1>9, <1>10, <1>12, <1>13, <1>14, <1>15, <1>16, <1>17, <1>18, <1>19
     DEF IInv, TypeOK

LEMMA InvStep ==
    ASSUME IInv, [Next]_vars
    PROVE  IInv'
<1>1. /\ BusInv /\ ProcType /\ SubType /\ ControlInv /\ DeliveryInv /\ SubscriptionInv
      /\ StreamInv /\ StreamOrder /\ ExactlyOnePlace /\ SnapshotFirst
  BY DEF IInv, TypeOK, BusInv
<1>2. BusInv'
  BY <1>1, BusStep
<1>3. ControlInv'
  BY <1>1, ControlStep
<1>4. ProcType'
  BY <1>1, ProcTypeStep
<1>5. SubType'
  BY <1>1, SubTypeStep
<1>6. DeliveryInv'
  BY <1>1, DeliveryStep
<1>7. SubscriptionInv'
  BY <1>1, SubscriptionStep
<1>8. StreamInv'
  BY <1>1, StreamInvStep
<1>9. ExactlyOnePlace'
  BY <1>1, <1>3, <1>5, PlacesStep
<1>10. StreamOrder'
  BY <1>1, StreamOrderStep
<1>11. SnapshotFirst'
  BY <1>1, SnapshotStep
<1>12. QED
  BY <1>2, <1>3, <1>4, <1>5, <1>6, <1>7, <1>8, <1>9, <1>10, <1>11 DEF IInv, TypeOK, BusInv

LEMMA Inductive == Spec => []IInv
<1>1. Init => IInv
  BY InitIInv
<1>2. IInv /\ [Next]_vars => IInv'
  BY InvStep
<1>3. QED
  BY <1>1, <1>2, PTL DEF Spec

-----------------------------------------------------------------------------
(* The theorems.                                                           *)

(* Every variable of the bus keeps its type; in particular Seq numbers are *)
(* those of the journal, and no live channel outgrows its capacity.        *)
THEOREM TypeCorrect == Spec => []TypeOK
<1>1. IInv => TypeOK
  BY DEF IInv
<1>2. QED
  BY <1>1, Inductive, PTL

(* SubscribeDurable's backlog cut, publish's choice of targets and deliver *)
(* leave neither a gap nor an overlap: each event a subscription is owed   *)
(* is in exactly one place, whatever the number of goroutines and events.  *)
THEOREM OnePlaceEach == Spec => []ExactlyOnePlace
<1>1. IInv => ExactlyOnePlace
  BY DEF IInv
<1>2. QED
  BY <1>1, Inductive, PTL

(* A live subscriber sees the retained values first, in publish order.     *)
THEOREM SnapshotsComeFirst == Spec => []SnapshotFirst
<1>1. IInv => SnapshotFirst
  BY DEF IInv
<1>2. QED
  BY <1>1, Inductive, PTL

(* What has been received is the front of the stream.                      *)
LEMMA ReceivedFirst ==
    ASSUME SubType, NEW s \in Subs, NEW k \in DOMAIN got[s]
    PROVE  k \in DOMAIN Stream(s) /\ Stream(s)[k] = got[s][k]
<1>1. /\ got[s] \in Seq(Items) /\ hand[s] \in Seq(Items) /\ queue[s] \in Seq(Items)
      /\ buffer[s] \in Seq(Items)
  BY ChannelTypes
<1> DEFINE u == got[s] \o hand[s]
           v == u \o queue[s]
<1>2. u \in Seq(Items) /\ k \in DOMAIN u /\ u[k] = got[s][k]
  BY <1>1, ConcatParts, ConcatProperties
<1> HIDE DEF u
<1>3. v \in Seq(Items) /\ k \in DOMAIN v /\ v[k] = u[k]
  BY <1>1, <1>2, ConcatParts, ConcatProperties
<1>4. Stream(s) = v \o buffer[s]
  BY DEF Stream, u
<1> HIDE DEF v
<1>5. k \in DOMAIN (v \o buffer[s]) /\ (v \o buffer[s])[k] = v[k]
  BY <1>1, <1>3, ConcatParts
<1>6. QED
  BY <1>2, <1>3, <1>4, <1>5

LEMMA PublisherOrderFollows ==
    ASSUME IInv
    PROVE  PublisherOrder
<1> DEFINE samePublisher(i, j) == \/ log[i].async /\ log[j].async
                                  \/ /\ log[i].async = log[j].async
                                     /\ log[i].by = log[j].by
<1>1. SubType /\ StreamInv /\ StreamOrder /\ CallOrder /\ BusInv /\ ControlInv
  BY DEF IInv, TypeOK, BusInv
<1>2. ASSUME NEW s \in Subs, NEW k \in DOMAIN got[s], NEW l \in DOMAIN got[s], k < l,
             got[s][k].seq # 0, got[s][l].seq # 0,
             samePublisher(got[s][k].seq, got[s][l].seq)
      PROVE  got[s][k].seq < got[s][l].seq
  <2> DEFINE i == got[s][k].seq
             j == got[s][l].seq
  <2>2. /\ k \in DOMAIN Stream(s) /\ Stream(s)[k] = got[s][k]
        /\ l \in DOMAIN Stream(s) /\ Stream(s)[l] = got[s][l]
    BY <1>1, ReceivedFirst
  <2>3. i <= Len(log) /\ j <= Len(log) /\ Len(log) \in Nat
    BY <1>1, <2>2, LogBounded DEF StreamInv, BusInv
  <2>4. i \in Nat /\ j \in Nat
    <3>1. Stream(s) \in Seq(Items)
      BY <1>1, ChannelTypes
    <3>2. Stream(s)[k] \in Items /\ Stream(s)[l] \in Items
      BY <2>2, <3>1, ElementOfSeq, LenProperties
    <3>3. \A e \in Items : e.seq \in Nat
      BY DEF Items
    <3>4. QED
      BY <2>2, <3>2, <3>3
  <2>5. i \in 1 .. Len(log) /\ j \in 1 .. Len(log)
    BY <1>2, <2>3, <2>4
  <2>6. Owner(i) = Owner(j)
    BY <1>2 DEF Owner
  <2>7. Before(s, i, j)
    BY <1>2, <2>2 DEF Before
  <2> HIDE DEF i, j
  <2>8. i < j
    BY <1>1, <2>5, <2>6, <2>7 DEF StreamOrder
  <2>9. QED
    BY <2>8 DEF i, j
<1>3. \A i, j \in DOMAIN log :
         i < j /\ log[i].by = log[j].by /\ log[i].async = log[j].async
            => log[i].call < log[j].call
  BY <1>1 DEF CallOrder
<1>4. \A s \in Subs : \A k, l \in DOMAIN got[s] :
         LET i == got[s][k].seq
             j == got[s][l].seq
         IN  k < l /\ i # 0 /\ j # 0 /\ samePublisher(i, j) => i < j
  BY <1>2
<1>5. QED
  BY <1>3, <1>4 DEF PublisherOrder

(* What reaches a subscriber of one goroutine's publications does so in    *)
(* their order, whatever its discipline; those of one caller of            *)
(* PublishAsync pass the channel and the dispatcher as well.               *)
THEOREM PublishersInOrder == Spec => []PublisherOrder
<1>1. IInv => PublisherOrder
  BY PublisherOrderFollows
<1>2. QED
  BY <1>1, Inductive, PTL

(* asyncPending is exact, and an accepted publication is in the channel or *)
(* the journal as long as the bus is open.                                 *)
THEOREM AsyncCounted == Spec => []AsyncAccounted
<1>1. IInv => AsyncAccounted
  BY DEF IInv, CountInv, AcceptedKept, AsyncAccounted, Senders, AtWork
<1>2. QED
  BY <1>1, Inductive, PTL
=============================================================================
