------------------------------- MODULE Sessions -------------------------------
(***************************************************************************)
(* The sessions of the user service (user_service): token pairs signed by  *)
(* Manager and kept in MemoryTokenStore, rotation of refresh tokens,       *)
(* logout of one session or of all, and Purge.                             *)
(* Every call of the store is one critical section; Issue and Refresh make *)
(* several of them.                                                        *)
(*                                                                         *)
(* A token is a pair's number and its type, which stand for its jti.       *)
(* Signatures are sound: nobody presents a token that was not returned.    *)
(***************************************************************************)
EXTENDS Integers, Sequences, FiniteSets

CONSTANTS
    Subjects,
    Callers,              \* calls in flight at once
    AccessTTL, RefreshTTL,
    MaxTime, MaxPairs     \* bounds

ASSUME SessionsAssumption ==
    /\ Subjects # {}
    /\ AccessTTL \in Nat \ {0} /\ RefreshTTL \in Nat \ {0}
    /\ MaxTime \in Nat /\ MaxPairs \in Nat

VARIABLES
    now,
    records,  \* MemoryTokenStore.records: token -> [user, expires, revoked]
    pairs,    \* the pairs signed so far: [user, since, parent]
    returned, \* the pairs some caller has
    caller    \* the calls of Login and Refresh

sessionVars == <<now, records, pairs, returned, caller>>

TokenTypes  == {"access", "refresh"}
JTIs == (1 .. MaxPairs) \X TokenTypes
TTL(type) == IF type = "access" THEN AccessTTL ELSE RefreshTTL
Expires(t) == pairs[t[1]].since + TTL(t[2])

NoCall == [at |-> "idle", user |-> CHOOSE u \in Subjects : TRUE, parent |-> 0, since |-> 0, pair |-> 0]

SessionsInit ==
    /\ now = 0 /\ records = <<>> /\ pairs = <<>> /\ returned = {}
    /\ caller = [c \in Callers |-> NoCall]

----------------------------------------------------------------------------
(* The store.                                                              *)

Active(t) == t \in DOMAIN records /\ ~records[t].revoked

Register(t, user, expires) ==
    records' = [x \in DOMAIN records \cup {t} |->
                  IF x = t THEN [user |-> user, expires |-> expires, revoked |-> FALSE]
                           ELSE records[x]]

Revoked(S) == records' = [t \in DOMAIN records |->
                            IF t \in S THEN [records[t] EXCEPT !.revoked = TRUE] ELSE records[t]]

(* Validate: the signed expiry and the store.                              *)
Valid(t) == now < Expires(t) /\ Active(t)

Presentable == returned \X TokenTypes

----------------------------------------------------------------------------
(* Issue, for a user whose credentials the caller has checked.             *)
Login(c) ==
    /\ caller[c].at = "idle"
    /\ \E user \in Subjects :
        caller' = [caller EXCEPT ![c] = [NoCall EXCEPT !.at = "issue", !.user = user, !.since = now]]
    /\ UNCHANGED <<now, records, pairs, returned>>

(* Refresh: Validate and the type of the token; a refused call returns.    *)
Refresh(c) ==
    /\ caller[c].at = "idle"
    /\ \E t \in Presentable :
        /\ Valid(t) /\ t[2] = "refresh"
        /\ caller' = [caller EXCEPT ![c] =
                        [NoCall EXCEPT !.at = "gate", !.user = pairs[t[1]].user, !.parent = t[1]]]
    /\ UNCHANGED <<now, records, pairs, returned>>

(* RevokeIfActive: only one caller passes.                                 *)
GateUnlocked(c) ==
    /\ caller[c].at = "gate"
    /\ Revoked({<<caller[c].parent, "refresh">>})
    /\ caller' = [caller EXCEPT ![c].at = "issue", ![c].since = now]
    /\ UNCHANGED <<now, pairs, returned>>

Gate(c) ==
    LET t == <<caller[c].parent, "refresh">> IN
    /\ caller[c].at = "gate"
    /\ IF Active(t)
       THEN Revoked({t}) /\ caller' = [caller EXCEPT ![c].at = "issue", ![c].since = now]
       ELSE UNCHANGED records /\ caller' = [caller EXCEPT ![c] = NoCall]
    /\ UNCHANGED <<now, pairs, returned>>

(* Issue signs the pair and registers its tokens one after the other.      *)
RegisterAccess(c) ==
    /\ caller[c].at = "issue" /\ Len(pairs) < MaxPairs
    /\ pairs' = Append(pairs, [user |-> caller[c].user, since |-> caller[c].since,
                               parent |-> caller[c].parent])
    /\ Register(<<Len(pairs'), "access">>, caller[c].user, caller[c].since + AccessTTL)
    /\ caller' = [caller EXCEPT ![c].at = "register", ![c].pair = Len(pairs')]
    /\ UNCHANGED <<now, returned>>

RegisterRefresh(c) ==
    /\ caller[c].at = "register"
    /\ Register(<<caller[c].pair, "refresh">>, caller[c].user, caller[c].since + RefreshTTL)
    /\ returned' = returned \cup {caller[c].pair}
    /\ caller' = [caller EXCEPT ![c] = NoCall]
    /\ UNCHANGED <<now, pairs>>

(* Revoke needs only the signature: an expired token can be revoked.       *)
Revoke ==
    /\ \E t \in Presentable : t \in DOMAIN records /\ Revoked({t})
    /\ UNCHANGED <<now, pairs, returned, caller>>

RevokeAllForUser ==
    /\ \E user \in Subjects : Revoked({t \in DOMAIN records : records[t].user = user})
    /\ UNCHANGED <<now, pairs, returned, caller>>

Purge ==
    /\ records' = [t \in {x \in DOMAIN records : now < records[x].expires} |-> records[t]]
    /\ UNCHANGED <<now, pairs, returned, caller>>

Tick ==
    /\ now < MaxTime /\ now' = now + 1
    /\ UNCHANGED <<records, pairs, returned, caller>>

SessionsNext ==
    \/ \E c \in Callers : \/ Login(c) \/ Refresh(c) \/ Gate(c)
                          \/ RegisterAccess(c) \/ RegisterRefresh(c)
    \/ Revoke \/ RevokeAllForUser \/ Purge \/ Tick

SessionsSpec == SessionsInit /\ [][SessionsNext]_sessionVars

----------------------------------------------------------------------------
Pairs   == [user : Subjects, since : Nat, parent : 0 .. MaxPairs]
Records == [user : Subjects, expires : Nat, revoked : BOOLEAN]
Callings == [at : {"idle", "gate", "issue", "register"}, user : Subjects, parent : 0 .. MaxPairs,
             since : Nat, pair : 0 .. MaxPairs]
SessionsTypeOK ==
    /\ now \in Nat
    /\ pairs \in Seq(Pairs) /\ Len(pairs) <= MaxPairs
    /\ DOMAIN records \subseteq JTIs /\ \A t \in DOMAIN records : records[t] \in Records
    /\ returned \subseteq DOMAIN pairs
    /\ caller \in [Callers -> Callings]

(* A refresh token yields one new pair at most, however many callers       *)
(* present it at once, and is never valid again once it has: not after a   *)
(* logout, a purge of the store or any other call.                         *)
RotatedOnce == \A i, j \in DOMAIN pairs :
    pairs[i].parent # 0 => /\ i # j => pairs[i].parent # pairs[j].parent
                           /\ ~Active(<<pairs[i].parent, "refresh">>)
=============================================================================
