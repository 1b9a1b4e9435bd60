----------------------------- MODULE EventStream -----------------------------
(***************************************************************************)
(* One stream of GET /v1/events: the handler (rest_gateway), the           *)
(* subscription behind it and, with the real services (server), the bridge *)
(* goroutine between the bus's subscription and the stream's channel.  The *)
(* client may go away and the bus may be closed at any moment.             *)
(*                                                                         *)
(* An event is its number in publish order.  The bus is EventBus: here it  *)
(* is the buffer of one live subscription, which drops when it is full.    *)
(***************************************************************************)
EXTENDS Integers, Sequences

CONSTANTS
    BusBuffer,   \* capacity of Subscription.C
    OutBuffer,   \* capacity of the stream's channel, 16 in the code
    MaxEvents    \* bound

ASSUME StreamAssumption == BusBuffer \in Nat \ {0} /\ OutBuffer \in Nat \ {0} /\ MaxEvents \in Nat

VARIABLES
    real,       \* the real services: with a bus and a bridge
    published,  \* events published so far
    busOpen,
    sub,        \* the subscription: [live, queue]; live until its channel is closed
    bridge,     \* the bridge goroutine: [at, hand]
    out,        \* the stream's channel: [open, queue]
    ctx,        \* the request's context is alive
    done,       \* cancel was called: close(done), Unsubscribe
    handler,    \* handleEvents: [at, ev]
    received    \* what the client was sent

streamVars == <<real, published, busOpen, sub, bridge, out, ctx, done, handler, received>>

NoEvent == 0
StreamInit ==
    /\ real \in BOOLEAN
    /\ published = 0 /\ busOpen = TRUE
    /\ sub = [live |-> FALSE, queue |-> <<>>]
    /\ bridge = [at |-> "none", hand |-> NoEvent]
    /\ out = [open |-> FALSE, queue |-> <<>>]
    /\ ctx = TRUE /\ done = FALSE
    /\ handler = [at |-> "start", ev |-> NoEvent]
    /\ received = <<>>

----------------------------------------------------------------------------
(* The publisher and the bus.                                              *)

(* Offered to a full buffer the event is dropped.                          *)
Offered(ch, size, ev) == IF Len(ch.queue) < size THEN [ch EXCEPT !.queue = Append(@, ev)] ELSE ch

Publish ==
    /\ published < MaxEvents /\ busOpen
    /\ published' = published + 1
    /\ sub' = IF sub.live THEN Offered(sub, BusBuffer, published') ELSE sub
    /\ out' = IF ~real /\ out.open THEN Offered(out, OutBuffer, published') ELSE out
    /\ UNCHANGED <<real, busOpen, bridge, ctx, done, handler, received>>

CloseBus ==
    /\ real /\ busOpen
    /\ busOpen' = FALSE /\ sub' = [sub EXCEPT !.live = FALSE]
    /\ UNCHANGED <<real, published, bridge, out, ctx, done, handler, received>>

(* Subscribe, and the comment that tells the client so.  The bus accepts a *)
(* subscription after its Close too, and never closes it.                  *)
Subscribe ==
    /\ handler.at = "start"
    /\ handler' = [handler EXCEPT !.at = "select"]
    /\ out' = [out EXCEPT !.open = TRUE]
    /\ IF real THEN /\ sub' = [live |-> TRUE, queue |-> <<>>]
                    /\ bridge' = [bridge EXCEPT !.at = "select"]
               ELSE UNCHANGED <<sub, bridge>>
    /\ UNCHANGED <<real, published, busOpen, ctx, done, received>>

----------------------------------------------------------------------------
(* The bridge goroutine of realEvents.Subscribe: its deferred close(out)   *)
(* runs when it returns.                                                   *)

BridgeReturns ==
    /\ bridge' = [at |-> "ended", hand |-> NoEvent]
    /\ out' = [out EXCEPT !.open = FALSE]

BridgeTakes ==
    /\ bridge.at = "select" /\ sub.queue # <<>>
    /\ bridge' = [at |-> "send", hand |-> Head(sub.queue)]
    /\ sub' = [sub EXCEPT !.queue = Tail(@)]
    /\ UNCHANGED <<real, published, busOpen, out, ctx, done, handler, received>>

BridgeSends ==
    /\ bridge.at = "send" /\ Len(out.queue) < OutBuffer
    /\ out' = [out EXCEPT !.queue = Append(@, bridge.hand)]
    /\ bridge' = [at |-> "select", hand |-> NoEvent]
    /\ UNCHANGED <<real, published, busOpen, sub, ctx, done, handler, received>>

(* The channel is closed and empty.                                        *)
BridgeSeesClose ==
    /\ bridge.at = "select" /\ ~sub.live /\ sub.queue = <<>>
    /\ BridgeReturns
    /\ UNCHANGED <<real, published, busOpen, sub, ctx, done, handler, received>>

BridgeQuitsIdle ==
    /\ bridge.at = "select" /\ (done \/ ~ctx)
    /\ BridgeReturns
    /\ UNCHANGED <<real, published, busOpen, sub, ctx, done, handler, received>>
BridgeQuits ==
    /\ bridge.at \in {"select", "send"} /\ (done \/ ~ctx)
    /\ BridgeReturns
    /\ UNCHANGED <<real, published, busOpen, sub, ctx, done, handler, received>>

----------------------------------------------------------------------------
(* handleEvents.                                                           *)

Take ==
    /\ handler.at = "select" /\ out.queue # <<>>
    /\ handler' = [at |-> "write", ev |-> Head(out.queue)]
    /\ out' = [out EXCEPT !.queue = Tail(@)]
    /\ UNCHANGED <<real, published, busOpen, sub, bridge, ctx, done, received>>

(* Fprintf and Flush: they return when the client has read, or is gone.    *)
Write ==
    /\ handler.at = "write"
    /\ handler' = [at |-> "select", ev |-> NoEvent]
    /\ received' = IF ctx THEN Append(received, handler.ev) ELSE received
    /\ UNCHANGED <<real, published, busOpen, sub, bridge, out, ctx, done>>

Leave == handler' = [handler EXCEPT !.at = "cancel"]

SeeClosed ==
    /\ handler.at = "select" /\ ~out.open /\ out.queue = <<>>
    /\ Leave
    /\ UNCHANGED <<real, published, busOpen, sub, bridge, out, ctx, done, received>>

SeeDone ==
    /\ handler.at = "select" /\ ~ctx
    /\ Leave
    /\ UNCHANGED <<real, published, busOpen, sub, bridge, out, ctx, done, received>>

(* The deferred cancel: in memory it removes and closes the channel, else  *)
(* it ends the bridge and unsubscribes.                                    *)
Cancel ==
    /\ handler.at = "cancel"
    /\ handler' = [handler EXCEPT !.at = "gone"]
    /\ done' = TRUE
    /\ IF real THEN sub' = [sub EXCEPT !.live = FALSE] /\ UNCHANGED out
               ELSE out' = [out EXCEPT !.open = FALSE] /\ UNCHANGED sub
    /\ UNCHANGED <<real, published, busOpen, bridge, ctx, received>>

ClientLeaves ==
    /\ ctx /\ ctx' = FALSE
    /\ UNCHANGED <<real, published, busOpen, sub, bridge, out, done, handler, received>>

----------------------------------------------------------------------------
Bridge  == BridgeTakes \/ BridgeSends \/ BridgeSeesClose \/ BridgeQuits
Handler == Subscribe \/ Take \/ Write \/ SeeClosed \/ SeeDone \/ Cancel

StreamNext == Publish \/ CloseBus \/ ClientLeaves \/ Bridge \/ Handler

(* Goroutines that can run do.  A select draws among its ready cases at    *)
(* random, so a case that is ready again and again is taken at last.       *)
StreamFairness ==
    /\ WF_streamVars(BridgeTakes) /\ WF_streamVars(BridgeSends)
    /\ WF_streamVars(BridgeSeesClose) /\ SF_streamVars(BridgeQuits)
    /\ WF_streamVars(Take) /\ WF_streamVars(Write) /\ WF_streamVars(SeeClosed)
    /\ SF_streamVars(SeeDone) /\ WF_streamVars(Cancel)

StreamSpec == StreamInit /\ [][StreamNext]_streamVars /\ StreamFairness

----------------------------------------------------------------------------
Events == 1 .. MaxEvents
StreamTypeOK ==
    /\ real \in BOOLEAN /\ published \in 0 .. MaxEvents /\ busOpen \in BOOLEAN
    /\ sub \in [live : BOOLEAN, queue : Seq(Events)] /\ Len(sub.queue) <= BusBuffer
    /\ out \in [open : BOOLEAN, queue : Seq(Events)] /\ Len(out.queue) <= OutBuffer
    /\ bridge \in [at : {"none", "select", "send", "ended"}, hand : Events \cup {NoEvent}]
    /\ ctx \in BOOLEAN /\ done \in BOOLEAN
    /\ handler \in [at : {"start", "select", "write", "cancel", "gone"}, ev : Events \cup {NoEvent}]
    /\ received \in Seq(Events)

(* When the client of a stream has gone away, or the bus was closed under  *)
(* it, the handler returns, the subscription is given back and the bridge  *)
(* ends, also one that holds an event for a full channel nobody reads.     *)
StreamEnds ==
    (handler.at # "start" /\ (~ctx \/ (real /\ ~sub.live))) ~>
        (handler.at = "gone" /\ bridge.at \in {"none", "ended"} /\ ~sub.live)
=============================================================================
