------------------------------- MODULE Metering ------------------------------
(***************************************************************************)
(* Quotas, usage records and invoices of one account (metering): callers   *)
(* reserve units of a metric, then record what they used or give the       *)
(* reservation back; limits change under them; an invoice bills a period   *)
(* of the records.  QuotaPolicy and Recorder are one critical section per  *)
(* call.                                                                   *)
(*                                                                         *)
(* Integers are those of int64, here of a width that Half gives.           *)
(***************************************************************************)
EXTENDS Integers, Sequences, FiniteSets, SequencesExt

CONSTANTS
    Metrics,
    Reservers,    \* callers that reserve
    Wants,        \* units callers ask for
    Limits,       \* limits an operator sets
    Rates,        \* the plan: metric -> [included, block, cents]
    BaseFee,      \* the plan's base fee
    Half,         \* int64 holds -Half .. Half - 1
    MaxTimestamp, MaxReservations   \* bounds

ASSUME MeteringAssumption ==
    /\ Metrics # {} /\ IsFiniteSet(Metrics) /\ IsFiniteSet(Reservers)
    /\ Wants \subseteq Int /\ Limits \subseteq Int
    /\ Rates \in [Metrics -> [included : Nat, block : Int, cents : Nat]] /\ BaseFee \in Nat
    /\ Half \in Nat \ {0} /\ MaxTimestamp \in Nat /\ MaxReservations \in Nat

VARIABLES
    limits,    \* QuotaPolicy.limits
    used,      \* QuotaPolicy.used
    events,    \* Recorder.buckets: [metric, quantity, ts]
    held,      \* by caller: its reservation
    consumed,  \* history: units reserved and then recorded
    highest,   \* history: the largest limit a reservation was granted under
    reservations

meteringVars == <<limits, used, events, held, consumed, highest, reservations>>

Int64(n) == ((n + Half) % (2 * Half)) - Half

NoReservation == [metric |-> CHOOSE m \in Metrics : TRUE, units |-> 0]
Zero == [m \in Metrics |-> 0]

MeteringInit ==
    /\ limits = <<>> /\ used = Zero /\ events = <<>>
    /\ held = [r \in Reservers |-> NoReservation]
    /\ consumed = Zero /\ highest = Zero /\ reservations = 0

----------------------------------------------------------------------------
(* QuotaPolicy.                                                            *)

SetLimit ==
    /\ \E m \in Metrics, limit \in Limits :
        limits' = [k \in DOMAIN limits \cup {m} |-> IF k = m THEN limit ELSE limits[k]]
    /\ UNCHANGED <<used, events, held, consumed, highest, reservations>>

Limited(m) == m \in DOMAIN limits
Fits(m, want) == want >= 0 /\ (Limited(m) => Int64(used[m] + want) <= limits[m])

ReservedAnyway(m, want) == IF want >= 0 THEN Int64(used[m] + want) ELSE used[m]
Reserved(m, want) == IF Fits(m, want) THEN Int64(used[m] + want) ELSE used[m]

Allow(r) ==
    /\ held[r].units = 0 /\ reservations < MaxReservations
    /\ reservations' = reservations + 1
    /\ \E m \in Metrics, want \in Wants :
        /\ used' = [used EXCEPT ![m] = Reserved(m, want)]
        /\ IF Fits(m, want)
           THEN /\ held' = [held EXCEPT ![r] = [metric |-> m, units |-> want]]
                /\ highest' = [highest EXCEPT ![m] =
                                 LET limit == IF Limited(m) THEN limits[m] ELSE Half - 1
                                 IN IF limit > @ THEN limit ELSE @]
           ELSE UNCHANGED <<held, highest>>
    /\ UNCHANGED <<limits, events, consumed>>

(* Release floors at zero.                                                 *)
ReleaseUnits(r) ==
    LET m == held[r].metric
        amount == held[r].units IN
    /\ amount > 0
    /\ used' = [used EXCEPT ![m] = IF @ <= amount THEN 0 ELSE @ - amount]
    /\ held' = [held EXCEPT ![r] = NoReservation]
    /\ UNCHANGED <<limits, events, consumed, highest, reservations>>

(* Recorder.Record, of what was reserved.                                  *)
RecordUsage(r) ==
    /\ held[r].units > 0
    /\ \E ts \in 0 .. MaxTimestamp :
        events' = Append(events, [metric |-> held[r].metric, quantity |-> held[r].units, ts |-> ts])
    /\ consumed' = [consumed EXCEPT ![held[r].metric] = @ + held[r].units]
    /\ held' = [held EXCEPT ![r] = NoReservation]
    /\ UNCHANGED <<limits, used, highest, reservations>>

MeteringNext == SetLimit \/ \E r \in Reservers : Allow(r) \/ ReleaseUnits(r) \/ RecordUsage(r)

MeteringSpec == MeteringInit /\ [][MeteringNext]_meteringVars

----------------------------------------------------------------------------
(* Recorder.Aggregate and the invoice.                                     *)

InPeriod(period, ts) == period[1] <= ts /\ ts < period[2]

Aggregate(m, period) ==
    FoldLeft(LAMBDA n, e : IF e.metric = m /\ InPeriod(period, e.ts) THEN Int64(n + e.quantity) ELSE n,
             0, events)

ceilDiv(a, b) == IF a <= 0 THEN 0 ELSE (a \div b) + (IF a % b = 0 THEN 0 ELSE 1)

blockUnits(m) == IF Rates[m].block <= 0 THEN 1 ELSE Rates[m].block

Amount(m, units) ==
    LET overage == units - Rates[m].included IN
    IF overage <= 0 THEN 0 ELSE ceilDiv(overage, blockUnits(m)) * Rates[m].cents

Bill(period) ==
    LET charge[M \in SUBSET Metrics] ==
          IF M = {} THEN BaseFee
          ELSE LET m == CHOOSE m \in M : TRUE IN charge[M \ {m}] + Amount(m, Aggregate(m, period))
    IN charge[Metrics]

----------------------------------------------------------------------------
MeteringTypeOK ==
    /\ DOMAIN limits \subseteq Metrics /\ \A m \in DOMAIN limits : limits[m] \in Limits
    /\ used \in [Metrics -> Nat] /\ consumed \in [Metrics -> Nat] /\ highest \in [Metrics -> Int]
    /\ held \in [Reservers -> [metric : Metrics, units : Nat]] /\ reservations \in 0 .. MaxReservations
    /\ events \in Seq([metric : Metrics, quantity : Nat, ts : 0 .. MaxTimestamp])

HeldOf(m) == FoldLeft(LAMBDA n, r : IF held[r].metric = m THEN n + held[r].units ELSE n, 0,
                      SetToSeq(Reservers))

(* While sums stay within the integers' width, what a metric shows as used *)
(* is what its callers hold and what they consumed, never more than the    *)
(* largest limit somebody was admitted under; cutting a time span into     *)
(* periods bills every recorded unit in one of them; and an invoice        *)
(* charges the base fee and, for units above those included, whole blocks. *)
MeteredOnce ==
    /\ \A m \in Metrics :
        /\ used[m] = HeldOf(m) + consumed[m] /\ used[m] <= highest[m]
        /\ \A t \in 0 .. MaxTimestamp + 1 :
            Aggregate(m, <<0, t>>) + Aggregate(m, <<t, MaxTimestamp + 1>>) = consumed[m]
        /\ LET over == consumed[m] - Rates[m].included
               due == Amount(m, consumed[m]) IN
           IF over <= 0 \/ Rates[m].cents = 0 THEN due = 0
           ELSE /\ due * blockUnits(m) >= over * Rates[m].cents
                /\ due * blockUnits(m) < (over + blockUnits(m)) * Rates[m].cents
    /\ events = <<>> => Bill(<<0, MaxTimestamp + 1>>) = BaseFee
=============================================================================
