------------------------------ MODULE EventBus ------------------------------
(***************************************************************************)
(* The in-process event bus (src/implementation/event_bus_service): a      *)
(* durable log, sticky last values, live and durable subscriptions, an     *)
(* asynchronous publisher with one dispatcher goroutine, and Close.        *)
(*                                                                         *)
(* The bus lock covers the bookkeeping of a call only; deliveries to the   *)
(* subscriptions, the channel send of PublishAsync and the stages of Close *)
(* happen after it is released.  One action is one critical section or one *)
(* channel operation, so every interleaving the locks permit is explored.  *)
(*                                                                         *)
(* A logged event is known by its Seq, the index in `log'.  What a         *)
(* subscription receives is [seq, subject]; seq 0 is the unlogged sticky-  *)
(* invalidation notification.                                              *)
(***************************************************************************)
EXTENDS Integers, Sequences, FiniteSets, SequencesExt

CONSTANTS
    Clients,          \* goroutines calling the bus
    Posters,          \* those that call Publish, PublishSticky and Invalidate
    AsyncPosters,     \* those that call PublishAsync
    Owners,           \* those that subscribe and unsubscribe
    Closers,          \* those that call Close
    Subjects,
    Uses,             \* subject -> how callers publish on it, see Styles
    Durable, Live,    \* ids of subscriptions to be made, by discipline
    Wants,            \* subscription id -> the subjects its Filter matches
    BufferSize,       \* Config.BufferSize
    AsyncBufferSize,  \* Config.AsyncBufferSize
    MaxCalls,         \* bound: publishing calls (Publish.., PublishAsync, Invalidate)
    MaxSubscriptions  \* bound: subscriptions made

Subs == Durable \cup Live
dispatcher == "dispatcher"
Styles == {"once", "sticky", "async"}
Publishers == Clients \cup {dispatcher}

ASSUME ConfigAssumption ==
    /\ Posters \subseteq Clients /\ AsyncPosters \subseteq Clients
    /\ Owners \subseteq Clients /\ Closers \subseteq Clients
    /\ dispatcher \notin Clients
    /\ Uses \in [Subjects -> SUBSET Styles]
    /\ Durable \cap Live = {}
    /\ Wants \in [Subs -> SUBSET Subjects]
    /\ BufferSize \in Nat \ {0} /\ AsyncBufferSize \in Nat \ {0} /\ MaxCalls \in Nat
    /\ MaxSubscriptions \in Nat

VARIABLES
    closed,     \* Bus.closed
    stopped,    \* the channel stop is closed
    log,        \* Bus.log, each entry [subject, by, call, async]
    sticky,     \* Bus.sticky: subject -> Seq of the retained event, 0 when none
    subs,       \* Bus.subs: the registered subscriptions
    calls,      \* number of publishing calls so far
    asyncCh, asyncPending,
    pc,         \* where each publisher is
    event,      \* the event a publisher is delivering, or the PublishAsync argument
    targets,    \* the subscriptions it still has to deliver to (or shut down)
    state,      \* subscription id -> "new" | "open" | "closed" (Subscription.closed)
    joined,     \* history: afterSeq for a durable subscription, seq at joining for a live one
    queue,      \* durable: Subscription.queue
    hand,       \* durable: what pump took from the queue, as a sequence of at most one
    buffer,     \* live: the buffered channel
    got,        \* history: what the consumer received, in order
    dropped,    \* history: Seqs dropped on overflow or because the subscription closed
    accepted    \* history: call numbers of PublishAsync calls that returned nil

busVars == <<closed, stopped>>
logVars == <<log, sticky, calls>>
asyncVars == <<asyncCh, asyncPending, accepted>>
procVars == <<pc, event, targets>>
subVars == <<state, joined, queue, hand, buffer, got, dropped>>
vars == <<busVars, logVars, asyncVars, procVars, subs, subVars>>

Idle == [seq |-> 0, subject |-> "none"]
Matching(subject) == {s \in subs : subject \in Wants[s]}

-----------------------------------------------------------------------------

Init ==
    /\ closed = FALSE /\ stopped = FALSE
    /\ log = <<>> /\ calls = 0
    /\ sticky = [x \in Subjects |-> 0]
    /\ subs = {}
    /\ asyncCh = <<>> /\ asyncPending = 0 /\ accepted = {}
    /\ pc = [p \in Publishers |-> IF p = dispatcher THEN "select" ELSE "idle"]
    /\ event = [p \in Publishers |-> Idle]
    /\ targets = [p \in Publishers |-> {}]
    /\ state = [s \in Subs |-> "new"]
    /\ joined = [s \in Subs |-> 0]
    /\ queue = [s \in Subs |-> <<>>]
    /\ hand = [s \in Subs |-> <<>>]
    /\ buffer = [s \in Subs |-> <<>>]
    /\ got = [s \in Subs |-> <<>>]
    /\ dropped = [s \in Subs |-> {}]

Goto(p, from, to) == pc[p] = from /\ pc' = [pc EXCEPT ![p] = to]

Call == calls < MaxCalls /\ calls' = calls + 1

(* The critical section of publish: assign Seq, journal, retain, choose    *)
(* the targets.  Deliveries come after the unlock.                         *)
Journal(p, entry, isSticky) ==
    /\ log' = Append(log, entry)
    /\ sticky' = IF isSticky THEN [sticky EXCEPT ![entry.subject] = Len(log) + 1]
                             ELSE sticky
    /\ event' = [event EXCEPT ![p] = [seq |-> Len(log) + 1, subject |-> entry.subject]]
    /\ targets' = [targets EXCEPT ![p] = Matching(entry.subject)]

Publish(c, subject, isSticky) ==
    /\ ~closed
    /\ Call
    /\ Goto(c, "idle", "deliver")
    /\ Journal(c, [subject |-> subject, by |-> c, call |-> calls', async |-> FALSE], isSticky)
    /\ UNCHANGED <<busVars, asyncVars, subs, subVars>>

Invalidate(c, subject) ==
    /\ ~closed
    /\ Call
    /\ Goto(c, "idle", "deliver")
    /\ sticky' = [sticky EXCEPT ![subject] = 0]
    /\ event' = [event EXCEPT ![c] = [seq |-> 0, subject |-> subject]]
    /\ targets' = [targets EXCEPT ![c] = IF sticky[subject] # 0 THEN Matching(subject) ELSE {}]
    /\ UNCHANGED <<busVars, log, asyncVars, subs, subVars>>

(* Mutant: one event more than the channel's capacity.                     *)
FullOffByOne(s) == s \in Live /\ Len(buffer[s]) > BufferSize

(* Mutant: durable subscriptions are bounded as well.                      *)
FullAnyDiscipline(s) == Len(buffer[s]) >= BufferSize \/ Len(queue[s]) >= BufferSize

(* trySend finds the channel of a live subscription full.                  *)
Full(s) == s \in Live /\ Len(buffer[s]) >= BufferSize

(* Mutant: the newest event overtakes the queued ones.                     *)
Prepended(events, e) == <<e>> \o events

Enqueued(events, e) == Append(events, e)

(* Subscription.deliver under the subscription's own lock: a closed one    *)
(* discards, a durable one queues, a live one drops when its buffer is     *)
(* full.  The targets were collected from a map: any order.                *)
Deliver(p, s) ==
    /\ pc[p] = "deliver" /\ s \in targets[p]
    /\ targets' = [targets EXCEPT ![p] = @ \ {s}]
    /\ IF state[s] = "closed" \/ Full(s)
       THEN /\ dropped' = [dropped EXCEPT ![s] = @ \cup {event[p].seq}]
            /\ UNCHANGED <<queue, buffer>>
       ELSE IF s \in Durable
       THEN /\ queue' = [queue EXCEPT ![s] = Enqueued(@, event[p])]
            /\ UNCHANGED <<buffer, dropped>>
       ELSE /\ buffer' = [buffer EXCEPT ![s] = Append(@, event[p])]
            /\ UNCHANGED <<queue, dropped>>
    /\ UNCHANGED <<busVars, logVars, asyncVars, pc, event, subs, state, joined, hand, got>>

Delivered(p) ==
    /\ targets[p] = {}
    /\ Goto(p, "deliver", IF p = dispatcher THEN "settle" ELSE "idle")
    /\ event' = [event EXCEPT ![p] = Idle]
    /\ UNCHANGED <<busVars, logVars, asyncVars, targets, subs, subVars>>

-----------------------------------------------------------------------------
(* PublishAsync and the dispatcher goroutine.                              *)

PublishAsync(c, subject) ==
    /\ ~closed
    /\ Call
    /\ Goto(c, "idle", "send")
    /\ event' = [event EXCEPT ![c] = [seq |-> calls', subject |-> subject]]
    /\ asyncPending' = asyncPending + 1
    /\ UNCHANGED <<busVars, log, sticky, asyncCh, accepted, targets, subs, subVars>>

(* The select of PublishAsync; with stop closed and room in the channel    *)
(* either branch may be taken.                                             *)
AsyncSend(c) ==
    /\ Len(asyncCh) < AsyncBufferSize
    /\ Goto(c, "send", "idle")
    /\ asyncCh' = Append(asyncCh, [subject |-> event[c].subject, by |-> c,
                                   call |-> event[c].seq, async |-> TRUE])
    /\ accepted' = accepted \cup {event[c].seq}
    /\ event' = [event EXCEPT ![c] = Idle]
    /\ UNCHANGED <<busVars, logVars, asyncPending, targets, subs, subVars>>

(* Mutant: the refused publication stays counted.                          *)
AsyncRefusedUncounted(c) ==
    /\ stopped
    /\ Goto(c, "send", "idle")
    /\ event' = [event EXCEPT ![c] = Idle]
    /\ UNCHANGED <<busVars, logVars, asyncVars, targets, subs, subVars>>

AsyncRefused(c) ==
    /\ stopped
    /\ Goto(c, "send", "idle")
    /\ asyncPending' = asyncPending - 1
    /\ event' = [event EXCEPT ![c] = Idle]
    /\ UNCHANGED <<busVars, logVars, asyncCh, accepted, targets, subs, subVars>>

(* The dispatcher takes the head of the channel and publishes it; on a     *)
(* closed bus publish returns ErrClosed, which handle ignores.             *)
Dispatch ==
    /\ pc[dispatcher] \in {"select", "flush"} /\ asyncCh # <<>>
    /\ asyncCh' = Tail(asyncCh)
    /\ IF closed
       THEN /\ pc' = [pc EXCEPT ![dispatcher] = "settle"]
            /\ UNCHANGED <<log, sticky, event, targets>>
       ELSE /\ pc' = [pc EXCEPT ![dispatcher] = "deliver"]
            /\ Journal(dispatcher, Head(asyncCh), FALSE)
    /\ UNCHANGED <<busVars, calls, asyncPending, accepted, subs, subVars>>

(* asyncPending--, and back to the loop; once stop is closed the outer     *)
(* loop's select may still take events or turn to flushing.                *)
Settle ==
    /\ Goto(dispatcher, "settle", "select")
    /\ asyncPending' = asyncPending - 1
    /\ UNCHANGED <<busVars, logVars, asyncCh, accepted, event, targets, subs, subVars>>

SeeStop ==
    /\ stopped
    /\ Goto(dispatcher, "select", "flush")
    /\ UNCHANGED <<busVars, logVars, asyncVars, event, targets, subs, subVars>>

DispatcherExit ==
    /\ asyncCh = <<>>
    /\ Goto(dispatcher, "flush", "exited")
    /\ UNCHANGED <<busVars, logVars, asyncVars, event, targets, subs, subVars>>

-----------------------------------------------------------------------------
(* Subscriptions.                                                          *)

NewSubscription(c, s) ==
    /\ pc[c] = "idle" /\ state[s] = "new"
    /\ Cardinality({r \in Subs : state[r] # "new"}) < MaxSubscriptions
    /\ state' = [state EXCEPT ![s] = "open"]
    /\ subs' = subs \cup {s}

(* The events of a set, in publish order.                                  *)
InOrder(S) ==
    CHOOSE q \in [1 .. Cardinality(S) -> S] :
        \A j, k \in 1 .. Cardinality(S) : j < k => q[j].seq < q[k].seq

Logged(i) == [seq |-> i, subject |-> log[i].subject]

(* Mutant: the event at the cursor is replayed too.                        *)
BacklogFromCursor(s, afterSeq) ==
    InOrder({Logged(i) : i \in {j \in DOMAIN log : j >= afterSeq /\ log[j].subject \in Wants[s]}})

(* Every journalled event past the cursor that matches.                    *)
Backlog(s, afterSeq) ==
    InOrder({Logged(i) : i \in {j \in DOMAIN log : j > afterSeq /\ log[j].subject \in Wants[s]}})

(* SubscribeDurable: the backlog and the registration are one critical     *)
(* section.                                                                *)
SubscribeDurable(c, s, afterSeq) ==
    /\ s \in Durable
    /\ NewSubscription(c, s)
    /\ joined' = [joined EXCEPT ![s] = afterSeq]
    /\ queue' = [queue EXCEPT ![s] = Backlog(s, afterSeq)]
    /\ UNCHANGED <<busVars, logVars, asyncVars, procVars, hand, buffer, got, dropped>>

RetainedFor(s) ==
    {[seq |-> sticky[x], subject |-> x] : x \in {y \in Wants[s] : sticky[y] # 0}}

(* Mutant: newest first.                                                   *)
SnapshotsReversed(s) == Reverse(InOrder(RetainedFor(s)))

(* The retained values a subscription matches, in publish order.           *)
Snapshots(s) == InOrder(RetainedFor(s))

(* Subscribe: the snapshots first, as far as the buffer takes them.        *)
Subscribe(c, s) ==
    LET snaps == Snapshots(s)
        fits == IF Len(snaps) <= BufferSize THEN Len(snaps) ELSE BufferSize
    IN
    /\ s \in Live
    /\ NewSubscription(c, s)
    /\ joined' = [joined EXCEPT ![s] = Len(log)]
    /\ buffer' = [buffer EXCEPT ![s] = SubSeq(snaps, 1, fits)]
    /\ dropped' = [dropped EXCEPT ![s] = {snaps[i].seq : i \in fits + 1 .. Len(snaps)}]
    /\ UNCHANGED <<busVars, logVars, asyncVars, procVars, queue, hand, got>>

Unsubscribe(c, s) ==
    /\ state[s] = "open"
    /\ Goto(c, "idle", "shutdown")
    /\ subs' = subs \ {s}
    /\ targets' = [targets EXCEPT ![c] = {s}]
    /\ UNCHANGED <<busVars, logVars, asyncVars, event, subVars>>

(* Subscription.shutdown.                                                  *)
Shutdown(c, s) ==
    /\ pc[c] = "shutdown" /\ s \in targets[c]
    /\ targets' = [targets EXCEPT ![c] = @ \ {s}]
    /\ state' = [state EXCEPT ![s] = "closed"]
    /\ UNCHANGED <<busVars, logVars, asyncVars, pc, event, subs, joined, queue, hand,
                   buffer, got, dropped>>

ShutdownDone(c) ==
    /\ targets[c] = {}
    /\ Goto(c, "shutdown", "idle")
    /\ UNCHANGED <<busVars, logVars, asyncVars, event, targets, subs, subVars>>

(* pump: take the head under the lock, then offer it; a shutdown may win   *)
(* the select and lose what is in hand and queued.                         *)
PumpTake(s) ==
    /\ hand[s] = <<>> /\ queue[s] # <<>>
    /\ hand' = [hand EXCEPT ![s] = <<Head(queue[s])>>]
    /\ queue' = [queue EXCEPT ![s] = Tail(@)]
    /\ UNCHANGED <<busVars, logVars, asyncVars, procVars, subs, state, joined, buffer, got,
                   dropped>>

PumpSend(s) ==
    /\ hand[s] # <<>>
    /\ got' = [got EXCEPT ![s] = @ \o hand[s]]
    /\ hand' = [hand EXCEPT ![s] = <<>>]
    /\ UNCHANGED <<busVars, logVars, asyncVars, procVars, subs, state, joined, queue, buffer,
                   dropped>>

PumpQuit(s) ==
    /\ state[s] = "closed" /\ hand[s] # <<>>
    /\ dropped' = [dropped EXCEPT ![s] =
                     @ \cup {e.seq : e \in ToSet(hand[s]) \cup ToSet(queue[s])}]
    /\ hand' = [hand EXCEPT ![s] = <<>>]
    /\ queue' = [queue EXCEPT ![s] = <<>>]
    /\ UNCHANGED <<busVars, logVars, asyncVars, procVars, subs, state, joined, buffer, got>>

(* A consumer reads its live channel; a closed channel still drains.       *)
Receive(s) ==
    /\ buffer[s] # <<>>
    /\ got' = [got EXCEPT ![s] = Append(@, Head(buffer[s]))]
    /\ buffer' = [buffer EXCEPT ![s] = Tail(@)]
    /\ UNCHANGED <<busVars, logVars, asyncVars, procVars, subs, state, joined, queue, hand,
                   dropped>>

-----------------------------------------------------------------------------
(* Close: check, Drain, mark closed, close(stop), wait for the dispatcher, *)
(* shut the subscriptions down.  The lock is released in between.          *)

Close(c) ==
    /\ ~closed
    /\ Goto(c, "idle", "drain")
    /\ UNCHANGED <<busVars, logVars, asyncVars, event, targets, subs, subVars>>

Drained(c) ==
    /\ asyncPending <= 0
    /\ Goto(c, "drain", "mark")
    /\ UNCHANGED <<busVars, logVars, asyncVars, event, targets, subs, subVars>>

MarkClosed(c) ==
    /\ Goto(c, "mark", "stop")
    /\ closed' = TRUE
    /\ targets' = [targets EXCEPT ![c] = subs]
    /\ subs' = {}
    /\ UNCHANGED <<stopped, logVars, asyncVars, event, subVars>>

(* Mutant: stop is never closed.                                           *)
CloseStopForgotten(c) ==
    /\ Goto(c, "stop", "wait")
    /\ UNCHANGED <<busVars, logVars, asyncVars, event, targets, subs, subVars>>

(* Closing stop a second time panics: the process ends, and nothing the    *)
(* model does after that is a behaviour of the program.                    *)
CloseStop(c) ==
    /\ Goto(c, "stop", IF stopped THEN "panicked" ELSE "wait")
    /\ stopped' = TRUE
    /\ UNCHANGED <<closed, logVars, asyncVars, event, targets, subs, subVars>>

DispatcherGone(c) ==
    /\ pc[dispatcher] = "exited"
    /\ Goto(c, "wait", "shutdown")
    /\ UNCHANGED <<busVars, logVars, asyncVars, event, targets, subs, subVars>>

-----------------------------------------------------------------------------

(* What a client may call next.                                            *)
Request(c) ==
    \/ c \in Posters /\ \E x \in Subjects :
         \/ \E style \in Uses[x] \ {"async"} : Publish(c, x, style = "sticky")
         \/ "sticky" \in Uses[x] /\ Invalidate(c, x)
    \/ c \in AsyncPosters /\ \E x \in Subjects : "async" \in Uses[x] /\ PublishAsync(c, x)
    \/ c \in Owners /\ \E s \in Subs :
         \/ Subscribe(c, s) \/ Unsubscribe(c, s)
         \/ \E n \in 0 .. Len(log) : SubscribeDurable(c, s, n)
    \/ c \in Closers /\ Close(c)

(* What a goroutine inside a call does next.                               *)
Continue(p) ==
    \/ \E s \in Subs : Deliver(p, s) \/ Shutdown(p, s)
    \/ Delivered(p) \/ ShutdownDone(p)
    \/ AsyncSend(p) \/ AsyncRefused(p)
    \/ Drained(p) \/ MarkClosed(p) \/ CloseStop(p) \/ DispatcherGone(p)

Dispatcher == Dispatch \/ Settle \/ SeeStop \/ DispatcherExit
Consume(s) == PumpTake(s) \/ PumpSend(s) \/ PumpQuit(s) \/ Receive(s)

Next ==
    \/ \E c \in Clients : Request(c)
    \/ \E p \in Publishers : Continue(p)
    \/ Dispatcher
    \/ \E s \in Subs : Consume(s)

Spec == Init /\ [][Next]_vars

(* The Go scheduler runs every goroutine that can run, and consumers keep  *)
(* reading.  Nobody has to call the bus.                                   *)
Fairness ==
    /\ \A p \in Publishers : WF_vars(Continue(p))
    /\ WF_vars(Dispatcher)
    /\ \A s \in Subs : WF_vars(Consume(s))
FairSpec == Spec /\ Fairness

-----------------------------------------------------------------------------

Items == [seq : 0 .. MaxCalls, subject : Subjects \cup {"none"}]
Entries == [subject : Subjects, by : Clients, call : 1 .. MaxCalls, async : BOOLEAN]

BusType ==
    /\ closed \in BOOLEAN /\ stopped \in BOOLEAN
    /\ log \in Seq(Entries) /\ asyncCh \in Seq(Entries)
    /\ sticky \in [Subjects -> 0 .. Len(log)]
    /\ calls \in 0 .. MaxCalls /\ asyncPending \in 0 .. MaxCalls
    /\ accepted \subseteq 1 .. MaxCalls

ProcType ==
    /\ pc \in [Publishers -> {"idle", "deliver", "send", "shutdown", "drain", "mark", "stop",
                              "wait", "select", "flush", "settle", "exited", "panicked"}]
    /\ event \in [Publishers -> Items]
    /\ targets \in [Publishers -> SUBSET Subs]

SubType ==
    /\ subs \subseteq Subs
    /\ state \in [Subs -> {"new", "open", "closed"}]
    /\ joined \in [Subs -> 0 .. MaxCalls]
    /\ queue \in [Subs -> Seq(Items)] /\ hand \in [Subs -> Seq(Items)]
    /\ buffer \in [Subs -> Seq(Items)] /\ got \in [Subs -> Seq(Items)]
    /\ \A s \in Subs : Len(buffer[s]) <= BufferSize
    /\ dropped \in [Subs -> SUBSET (0 .. MaxCalls)]

(* Every variable keeps to the values the code can store in it.            *)
TypeOK == BusType /\ ProcType /\ SubType

(* What a subscription has received, and what it holds for its consumer.   *)
Stream(s) == got[s] \o hand[s] \o queue[s] \o buffer[s]

Occurrences(items, i) == Cardinality({k \in DOMAIN items : items[k].seq = i})
InFlight(s, i) ==
    Cardinality({p \in Publishers : pc[p] = "deliver" /\ s \in targets[p] /\ event[p].seq = i})

(* In how many places an event is on its way to, or with, a subscriber.    *)
Places(s, i) ==
    InFlight(s, i) + Occurrences(Stream(s), i)
      + (IF i \in dropped[s] THEN 1 ELSE 0)

(* Each logged event a subscription is owed is in exactly one place, from  *)
(* the moment it is journalled: the backlog cut and the registration leave *)
(* neither a gap nor an overlap, nothing at or before the cursor comes     *)
(* again, and a registered durable subscription drops nothing.  After the  *)
(* end of a subscription still nothing comes twice.                        *)
ExactlyOnePlace ==
    \A s \in Subs :
        /\ \A i \in 1 .. Len(log) :
             LET places == Places(s, i) IN
             /\ places <= 1
             /\ s \in Durable /\ i <= joined[s] => places = 0
             /\ s \in subs /\ i > joined[s] /\ log[i].subject \in Wants[s] => places = 1
        /\ s \in subs \cap Durable => dropped[s] = {}

(* Of what one goroutine published, every subscriber, durable or live,     *)
(* receives what it receives in the order it was published: the backlog    *)
(* and the snapshots before what follows them, and nothing twice.  The     *)
(* dispatcher is one such goroutine for all asynchronous publications,     *)
(* whose journal order is each caller's order.                             *)
PublisherOrder ==
    LET samePublisher(i, j) == \/ log[i].async /\ log[j].async
                               \/ /\ log[i].async = log[j].async
                                  /\ log[i].by = log[j].by
    IN
    /\ \A s \in Subs : \A k, l \in DOMAIN got[s] :
         LET i == got[s][k].seq
             j == got[s][l].seq
         IN  k < l /\ i # 0 /\ j # 0 /\ samePublisher(i, j) => i < j
    /\ \A i, j \in DOMAIN log :
         i < j /\ log[i].by = log[j].by /\ log[i].async = log[j].async
            => log[i].call < log[j].call

(* A live subscriber sees what was retained when it joined before anything *)
(* newer, in publish order.                                                *)
SnapshotFirst ==
    \A s \in Live :
        LET seen == Stream(s)
        IN  \A k, l \in DOMAIN seen :
              k < l /\ seen[l].seq # 0 /\ seen[l].seq <= joined[s] =>
                 seen[k].seq # 0 /\ seen[k].seq < seen[l].seq

(* asyncPending counts exactly the publications between PublishAsync and   *)
(* the end of handle; while the bus is open none of the accepted ones is   *)
(* lost.                                                                   *)
AsyncAccounted ==
    /\ asyncPending = Cardinality({c \in Clients : pc[c] = "send"}) + Len(asyncCh)
                        + (IF pc[dispatcher] \in {"deliver", "settle"} THEN 1 ELSE 0)
    /\ ~closed => \A n \in accepted :
         \/ \E i \in DOMAIN log : log[i].async /\ log[i].call = n
         \/ \E i \in DOMAIN asyncCh : asyncCh[i].call = n

(* A durable subscriber that stays subscribed never falls behind for good: *)
(* it is always going to hold every event after its cursor.                *)
DurableDelivered ==
    \A s \in Durable : []<>
        \/ s \notin subs
        \/ \A i \in DOMAIN log : i > joined[s] /\ log[i].subject \in Wants[s] =>
              \E k \in DOMAIN got[s] : got[s][k].seq = i

(* Close returns: draining, stopping and waiting never deadlock with the   *)
(* publishers, the dispatcher or slow consumers.                           *)
CloseReturns == \A c \in Closers : (pc[c] = "drain") ~> (pc[c] = "idle")

(* "then delivers live events, all in publish order".                      *)
DurableInPublishOrder ==
    \A s \in Durable : \A k, l \in DOMAIN got[s] :
        k < l /\ got[s][k].seq # 0 /\ got[s][l].seq # 0 => got[s][k].seq < got[s][l].seq

(* "Drain queued async work while the bus is still open so nothing is      *)
(* lost": once the dispatcher has ended, what PublishAsync accepted is in  *)
(* the journal.                                                            *)
CloseLosesNothing ==
    pc[dispatcher] = "exited" =>
        \A n \in accepted : \E i \in DOMAIN log : log[i].async /\ log[i].call = n

=============================================================================
