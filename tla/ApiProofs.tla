----------------------------- MODULE ApiProofs -----------------------------
(* Proofs about the three units of the HTTP API: the gateway, the user      *)
(* service's sessions and the SDK's client.                                 *)
EXTENDS Gateway, Sessions, SdkClient, TLAPS

-----------------------------------------------------------------------------
(***************************************************************************)
(* Proof about Gateway, for any principals, clients and keys, that an      *)
(* answer given before a request arrived is replayed to it.  The ledger    *)
(* and the answers given agree (LedgerTrue, LedgerComplete); a repeated    *)
(* request finds its slot in the ledger, where entries are never removed   *)
(* (RepeatsFind); and only keyed requests pass through the ledger          *)
(* (OnlyKeyed).                                                            *)
(***************************************************************************)

Fields == {"at", "route", "token", "id", "key", "body", "status", "result", "ran", "repeats"}
Shape(q) == q = [f \in Fields |-> q[f]] /\ q.status \in Int

(* The answer an entry of the ledger repeats.                              *)
Entry(s) == [user |-> s[1], route |-> s[2], id |-> s[3], key |-> s[4], body |-> ledger[s].body,
             status |-> ledger[s].status, result |-> ledger[s].result]
LedgerTrue == \A s \in DOMAIN ledger : ledger[s].status \in Int /\ Entry(s) \in answered

SlotOf(a) == <<a.user, a.route, a.id, a.key>>
LedgerComplete == \A a \in answered : /\ SlotOf(a) \in DOMAIN ledger
                                      /\ routes[a.route].idem /\ a.key # NoKey

(* Of one request: what it does with the ledger.                           *)
KeyedSound(q) == /\ q.at \in {"lookup", "store"} => Keyed(q)
                 /\ q.at = "store" => q.ran
RepeatSound(q) == q.repeats => /\ ~q.ran /\ q.at \in {"lookup", "done"}
                               /\ q.at = "lookup" => Slot(q) \in DOMAIN ledger
Replayed(q) == q.at = "done" /\ Keyed(q) /\ ~q.ran /\ q.status \in 200 .. 299 => Answered(q) \in answered
RequestSound(q) == Shape(q) /\ KeyedSound(q) /\ RepeatSound(q) /\ Replayed(q)

GatewayIInv == /\ request = [c \in Clients |-> request[c]]
               /\ LedgerTrue /\ LedgerComplete
               /\ \A c \in Clients : RequestSound(request[c])

LEMMA EmptyRequest ==
    /\ Shape(NoRequest) /\ NoRequest.at = "done" /\ ~NoRequest.repeats /\ ~NoRequest.ran
    /\ ~Keyed(NoRequest) /\ NoRequest.key = NoKey
  BY DEF Shape, Fields, NoRequest, Keyed

(* The others keep what they know while the ledger and the answers grow.   *)
LEMMA OneRequest ==
    ASSUME GatewayIInv, NEW c \in Clients, NEW n, request' = [request EXCEPT ![c] = n], RequestSound(n)',
           DOMAIN ledger \subseteq DOMAIN ledger', answered \subseteq answered'
    PROVE  request' = [d \in Clients |-> request'[d]] /\ \A d \in Clients : RequestSound(request[d])'
<1>1. request'[c] = n /\ \A d \in Clients : d # c => request'[d] = request[d]
  BY DEF GatewayIInv
<1>2. request' = [d \in Clients |-> request'[d]]
  BY DEF GatewayIInv
<1>3. ASSUME NEW d \in Clients PROVE RequestSound(request[d])'
  <2>1. CASE d = c
    BY <1>1, <2>1
  <2>2. CASE d # c
    <3>1. RequestSound(request[d])
      BY DEF GatewayIInv
    <3>2. QED
      BY <1>1, <2>2, <3>1 DEF RequestSound, Shape, KeyedSound, RepeatSound, Replayed, Keyed, Slot, Answered
  <2>3. QED
    BY <2>1, <2>2
<1> QED
  BY <1>2, <1>3

LEMMA GatewayInitIInv == GatewayInit => GatewayIInv
<1> SUFFICES ASSUME GatewayInit PROVE GatewayIInv
  OBVIOUS
<1>1. request = [c \in Clients |-> request[c]] /\ \A c \in Clients : request[c] = NoRequest
  BY DEF GatewayInit
<1>2. RequestSound(NoRequest)
  BY EmptyRequest DEF RequestSound, KeyedSound, RepeatSound, Replayed
<1>3. LedgerTrue /\ LedgerComplete
  BY DEF GatewayInit, LedgerTrue, LedgerComplete
<1> QED
  BY <1>1, <1>2, <1>3 DEF GatewayIInv

(* A handler has answered: into the ledger's hands, or to the client.      *)
LEMMA HandledStep ==
    ASSUME GatewayIInv, NEW c \in Clients, request[c].at = "handle",
           NEW status \in Int, NEW result, Handled(c, status, result), UNCHANGED <<ledger, answered>>
    PROVE  GatewayIInv'
<1>1. PICK q : q = request[c]
  OBVIOUS
<1>2. RequestSound(q)
  BY <1>1 DEF GatewayIInv
<1>3. CASE Keyed(q)
  <2>1. PICK n : n = [q EXCEPT !.at = "store", !.status = status, !.result = result, !.ran = TRUE]
    OBVIOUS
  <2>2. request' = [request EXCEPT ![c] = n]
    BY <1>1, <1>3, <2>1 DEF Handled, GatewayIInv
  <2>3. /\ Shape(n) /\ n.at = "store" /\ n.ran /\ n.route = q.route /\ n.key = q.key
        /\ n.repeats = q.repeats
    BY <1>2, <2>1 DEF RequestSound, Shape, Fields
  <2>4. ~q.repeats
    BY <1>1, <1>2 DEF RequestSound, RepeatSound
  <2>5. RequestSound(n)'
    BY <1>3, <2>3, <2>4 DEF RequestSound, KeyedSound, RepeatSound, Replayed, Keyed
  <2>6. QED
    BY <2>2, <2>5, OneRequest DEF GatewayIInv, LedgerTrue, LedgerComplete, Entry
<1>4. CASE ~Keyed(q)
  <2>1. PICK n : n = [NoRequest EXCEPT !.at = "done", !.status = status, !.result = result]
    OBVIOUS
  <2>2. request' = [request EXCEPT ![c] = n]
    BY <1>1, <1>4, <2>1 DEF Handled, Reply, GatewayIInv
  <2>3. /\ Shape(n) /\ n.at = "done" /\ n.key = NoKey /\ ~n.repeats
    BY <2>1 DEF NoRequest, Shape, Fields
  <2>4. RequestSound(n)'
    BY <2>3 DEF RequestSound, KeyedSound, RepeatSound, Replayed, Keyed
  <2>5. QED
    BY <2>2, <2>4, OneRequest DEF GatewayIInv, LedgerTrue, LedgerComplete, Entry
<1> QED
  BY <1>3, <1>4

LEMMA ArriveStep == ASSUME GatewayIInv, NEW c \in Clients, Arrive(c) PROVE GatewayIInv'
<1>1. UNCHANGED <<ledger, answered>>
  BY DEF Arrive
<1>2. PICK route \in DOMAIN routes, bears \in tokens \cup {NoToken} :
      \E id \in IdsOf(route), key \in KeysOf(route), body \in BodiesOf(route) :
        LET q == [NoRequest EXCEPT !.route = route, !.token = bears, !.id = id, !.key = key,
                                   !.body = body]
            refused == Refused(route, bears) IN
        request' = [request EXCEPT ![c] =
            IF refused # 0 THEN [NoRequest EXCEPT !.status = refused]
            ELSE [q EXCEPT !.at = IF Keyed(q) THEN "lookup" ELSE "handle",
                           !.repeats = Repeats(q)]]
  BY DEF Arrive
<1>3. PICK refused : refused = Refused(route, bears)
  OBVIOUS
<1>4. PICK q : /\ \E id, key, body :
                    q = [NoRequest EXCEPT !.route = route, !.token = bears, !.id = id, !.key = key,
                                          !.body = body]
               /\ request' = [request EXCEPT ![c] =
                    IF refused # 0 THEN [NoRequest EXCEPT !.status = refused]
                    ELSE [q EXCEPT !.at = IF Keyed(q) THEN "lookup" ELSE "handle",
                                   !.repeats = Repeats(q)]]
  BY <1>2, <1>3
<1>5. refused \in Int
  BY <1>3 DEF Refused
<1>6. Shape(q) /\ ~q.ran /\ ~q.repeats
  <2>1. PICK id, key, body : q = [NoRequest EXCEPT !.route = route, !.token = bears, !.id = id,
                                                   !.key = key, !.body = body]
    BY <1>4
  <2>2. Shape(NoRequest) /\ ~NoRequest.ran /\ ~NoRequest.repeats
    BY EmptyRequest
  <2>3. /\ q = [f \in Fields |-> q[f]] /\ q.status = NoRequest.status
        /\ q.ran = NoRequest.ran /\ q.repeats = NoRequest.repeats
    BY <2>1, <2>2 DEF Shape, Fields
  <2>4. QED
    BY <2>2, <2>3 DEF Shape
<1>7. CASE refused # 0
  <2>1. PICK n : n = [NoRequest EXCEPT !.status = refused]
    OBVIOUS
  <2>2. request' = [request EXCEPT ![c] = n]
    BY <1>4, <1>7, <2>1
  <2>3. Shape(n) /\ n.at = "done" /\ n.key = NoKey /\ ~n.repeats
    BY <1>5, <2>1 DEF NoRequest, Shape, Fields
  <2>4. RequestSound(n)'
    BY <2>3 DEF RequestSound, KeyedSound, RepeatSound, Replayed, Keyed
  <2>5. QED
    BY <1>1, <2>2, <2>4, OneRequest DEF GatewayIInv, LedgerTrue, LedgerComplete, Entry
<1>8. CASE refused = 0
  <2>1. PICK again \in BOOLEAN : again = Repeats(q)
    BY DEF Repeats
  <2>2. PICK n : n = [q EXCEPT !.at = IF Keyed(q) THEN "lookup" ELSE "handle", !.repeats = again]
    OBVIOUS
  <2>3. request' = [request EXCEPT ![c] = n]
    BY <1>4, <1>8, <2>1, <2>2
  <2>4. /\ Shape(n) /\ n.at = (IF Keyed(q) THEN "lookup" ELSE "handle") /\ n.repeats = again /\ ~n.ran
        /\ n.route = q.route /\ n.token = q.token /\ n.id = q.id /\ n.key = q.key
    BY <1>6, <2>1, <2>2 DEF Shape, Fields
  <2>5. again => Keyed(q) /\ Slot(q) \in DOMAIN ledger
    BY <2>1 DEF Repeats, GatewayIInv, LedgerComplete, SlotOf, Keyed, Slot
  <2>6. Keyed(n) = Keyed(q) /\ Slot(n) = Slot(q)
    BY <2>4 DEF Keyed, Slot
  <2>7. RequestSound(n)'
    BY <1>1, <2>4, <2>5, <2>6 DEF RequestSound, KeyedSound, RepeatSound, Replayed, Keyed, Slot
  <2>8. QED
    BY <1>1, <2>3, <2>7, OneRequest DEF GatewayIInv, LedgerTrue, LedgerComplete, Entry
<1> QED
  BY <1>7, <1>8

LEMMA LookUpStep == ASSUME GatewayIInv, NEW c \in Clients, LookUp(c) PROVE GatewayIInv'
<1>1. UNCHANGED <<ledger, answered>>
  BY DEF LookUp
<1>2. PICK q : q = request[c]
  OBVIOUS
<1>3. RequestSound(q) /\ q.at = "lookup" /\ Keyed(q)
  BY <1>2 DEF LookUp, GatewayIInv, RequestSound, KeyedSound
<1>4. CASE Slot(q) \notin DOMAIN ledger
  <2>1. PICK n : n = [q EXCEPT !.at = "handle"]
    OBVIOUS
  <2>2. request' = [request EXCEPT ![c] = n]
    BY <1>2, <1>4, <2>1 DEF LookUp
  <2>3. Shape(n) /\ n.at = "handle" /\ n.repeats = q.repeats /\ ~q.repeats
    BY <1>3, <1>4, <2>1 DEF RequestSound, RepeatSound, Shape, Fields
  <2>4. RequestSound(n)'
    BY <2>3 DEF RequestSound, KeyedSound, RepeatSound, Replayed
  <2>5. QED
    BY <1>1, <2>2, <2>4, OneRequest DEF GatewayIInv, LedgerTrue, LedgerComplete, Entry
<1>5. CASE Slot(q) \in DOMAIN ledger
  <2>1. PICK rec : rec = ledger[Slot(q)]
    OBVIOUS
  <2>2. /\ rec.status \in Int
        /\ [user |-> q.token.user, route |-> q.route, id |-> q.id, key |-> q.key, body |-> rec.body,
            status |-> rec.status, result |-> rec.result] \in answered
    BY <1>5, <2>1 DEF GatewayIInv, LedgerTrue, Entry, Slot
  <2>3. PICK status, result :
          /\ status \in Int
          /\ \/ status = 409
             \/ status = rec.status /\ result = rec.result /\ rec.body = q.body
          /\ Reply(c, status, result)
    BY <1>2, <1>3, <1>5, <2>1, <2>2 DEF LookUp
  <2>4. PICK n : n = [q EXCEPT !.at = "done", !.status = status, !.result = result]
    OBVIOUS
  <2>5. request' = [request EXCEPT ![c] = n]
    BY <1>2, <1>3, <2>3, <2>4 DEF Reply, GatewayIInv
  <2>6. /\ Shape(n) /\ n.at = "done" /\ n.status = status /\ n.result = result
        /\ n.route = q.route /\ n.token = q.token /\ n.id = q.id /\ n.key = q.key
        /\ n.body = q.body /\ n.ran = q.ran /\ n.repeats = q.repeats
    BY <1>3, <2>3, <2>4 DEF RequestSound, Shape, Fields
  <2>7. n.status \in 200 .. 299 => Answered(n) \in answered
    BY <2>2, <2>3, <2>6 DEF Answered
  <2>8. RequestSound(n)'
    BY <1>1, <1>3, <2>6, <2>7 DEF RequestSound, KeyedSound, RepeatSound, Replayed, Answered
  <2>9. QED
    BY <1>1, <2>5, <2>8, OneRequest DEF GatewayIInv, LedgerTrue, LedgerComplete, Entry
<1> QED
  BY <1>4, <1>5

LEMMA StoreStep == ASSUME GatewayIInv, NEW c \in Clients, Store(c) PROVE GatewayIInv'
<1>1. PICK q : q = request[c]
  OBVIOUS
<1>2. RequestSound(q) /\ q.at = "store" /\ Keyed(q) /\ q.ran /\ q.status \in Int
  BY <1>1 DEF Store, GatewayIInv, RequestSound, KeyedSound, Shape
<1>3. PICK n : n = [q EXCEPT !.at = "done", !.status = q.status, !.result = q.result]
  OBVIOUS
<1>4. request' = [request EXCEPT ![c] = n]
  BY <1>1, <1>2, <1>3 DEF Store, Reply, GatewayIInv
<1>5. Shape(n) /\ n.at = "done" /\ n.ran = q.ran /\ n.repeats = q.repeats
  BY <1>2, <1>3 DEF RequestSound, Shape, Fields
<1>6. RequestSound(n)'
  BY <1>2, <1>5 DEF RequestSound, KeyedSound, RepeatSound, Replayed
<1>7. CASE q.status \in 200 .. 299
  <2>1. ledger' = [s \in DOMAIN ledger \cup {Slot(q)} |->
                     IF s = Slot(q) THEN [body |-> q.body, status |-> q.status, result |-> q.result]
                                    ELSE ledger[s]]
    BY <1>1, <1>2, <1>7 DEF Store, Cacheable
  <2>2. answered' = answered \cup {Answered(q)}
    BY <1>1, <1>7 DEF Store
  <2>3. LedgerTrue'
    <3> SUFFICES ASSUME NEW s \in DOMAIN ledger' PROVE (ledger[s].status \in Int /\ Entry(s) \in answered)'
      BY DEF LedgerTrue
    <3>1. CASE s = Slot(q)
      BY <1>2, <2>1, <2>2, <3>1 DEF Entry, Answered, Slot
    <3>2. CASE s # Slot(q)
      BY <2>1, <2>2, <3>2 DEF GatewayIInv, LedgerTrue, Entry
    <3>3. QED
      BY <3>1, <3>2
  <2>4. LedgerComplete'
    <3>1. SlotOf(Answered(q)) = Slot(q) /\ routes[Answered(q).route].idem /\ Answered(q).key # NoKey
      BY <1>2 DEF SlotOf, Answered, Slot, Keyed
    <3>2. QED
      BY <2>1, <2>2, <3>1 DEF GatewayIInv, LedgerComplete, SlotOf
  <2>5. QED
    BY <1>4, <1>6, <2>1, <2>2, <2>3, <2>4, OneRequest DEF GatewayIInv
<1>8. CASE q.status \notin 200 .. 299
  <2>1. UNCHANGED <<ledger, answered>>
    BY <1>1, <1>2, <1>8 DEF Store, Cacheable
  <2>2. QED
    BY <1>4, <1>6, <2>1, OneRequest DEF GatewayIInv, LedgerTrue, LedgerComplete, Entry
<1> QED
  BY <1>7, <1>8

(* Every handler gives one answer and leaves the ledger alone.             *)
LEMMA HandlerAnswers ==
    ASSUME NEW c \in Clients,
           handleLogin(c) \/ handleCreateChannel(c) \/ handleReprocess(c) \/ handleListChannels(c) \/ HandleRead(c)
    PROVE  /\ request[c].at = "handle" /\ UNCHANGED <<ledger, answered>>
           /\ \E status \in Int : \E result : Handled(c, status, result)
<1>1. CASE handleLogin(c)
  BY <1>1 DEF handleLogin, Handles
<1>2. CASE handleCreateChannel(c)
  BY <1>2 DEF handleCreateChannel, Handles
<1>3. CASE handleReprocess(c)
  BY <1>3 DEF handleReprocess, Handles
<1>4. CASE handleListChannels(c)
  BY <1>4 DEF handleListChannels, Handles
<1>5. CASE HandleRead(c)
  <2>1. ReadStatuses(request[c]) \subseteq Int
    BY DEF ReadStatuses, SearchStatuses
  <2>2. PICK status \in ReadStatuses(request[c]) :
          Handled(c, status, IF request[c].route = "listAccounts"
                             THEN Cardinality(AccountsOf(request[c].token.user)) ELSE 0)
    BY <1>5 DEF HandleRead
  <2>3. status \in Int
    BY <2>1, <2>2
  <2>4. QED
    BY <1>5, <2>2, <2>3 DEF HandleRead
<1> QED
  BY <1>1, <1>2, <1>3, <1>4, <1>5

LEMMA GatewayInductive == GatewayIInv /\ [GatewayNext]_gatewayVars => GatewayIInv'
<1> SUFFICES ASSUME GatewayIInv, [GatewayNext]_gatewayVars PROVE GatewayIInv'
  OBVIOUS
<1>1. ASSUME NEW c \in Clients, Serve(c) PROVE GatewayIInv'
  <2>1. CASE Arrive(c) \/ LookUp(c) \/ Store(c)
    BY <2>1, ArriveStep, LookUpStep, StoreStep
  <2>2. CASE ~(Arrive(c) \/ LookUp(c) \/ Store(c))
    <3>1. /\ request[c].at = "handle" /\ UNCHANGED <<ledger, answered>>
          /\ \E status \in Int : \E result : Handled(c, status, result)
      BY <1>1, <2>2, HandlerAnswers DEF Serve
    <3>2. PICK status, result : status \in Int /\ Handled(c, status, result)
      BY <3>1
    <3>3. QED
      BY <3>1, <3>2, HandledStep
  <2>3. QED
    BY <2>1, <2>2
<1>2. CASE Expire \/ UNCHANGED gatewayVars
  <2>1. UNCHANGED <<request, ledger, answered>>
    BY <1>2 DEF Expire, gatewayVars
  <2>2. QED
    BY <2>1 DEF GatewayIInv, LedgerTrue, LedgerComplete, Entry, RequestSound, Shape, KeyedSound, RepeatSound,
                Replayed, Keyed, Slot, Answered
<1> QED
  BY <1>1, <1>2 DEF GatewayNext

(* The idempotency ledger of the gateway: a request whose key was answered *)
(* with success before it arrived runs no handler, and what is replayed to *)
(* it was given to the same user for the same key and body.                *)
THEOREM AnsweredIsReplayed == GatewaySpec => []ReplayAfterAnswer
<1>1. GatewayIInv => ReplayAfterAnswer
  BY DEF GatewayIInv, ReplayAfterAnswer, RequestSound, RepeatSound, Replayed
<1> QED
  BY <1>1, GatewayInitIInv, GatewayInductive, PTL DEF GatewaySpec

-----------------------------------------------------------------------------
(***************************************************************************)
(* Proof about Sessions, for any users, callers, lifetimes and bounds,     *)
(* that a refresh token is rotated once.  RotatedOnce is not inductive:    *)
(* between the gate and the signing of the new pair the token is spent     *)
(* although no pair names it yet (Spent), and a refresh token registered   *)
(* late must not revive a spent one, which holds because only returned     *)
(* tokens can be spent (Known) and a pair is returned once its refresh     *)
(* token is registered (Unreturned).                                       *)
(***************************************************************************)

Issuing(c, p) == caller[c].at = "issue" /\ caller[c].parent = p /\ p # 0

(* A token that passed the gate is not active, and nobody else's.          *)
Spent == \A c \in Callers, p \in 1 .. MaxPairs : Issuing(c, p) =>
    /\ ~Active(<<p, "refresh">>)
    /\ \A i \in DOMAIN pairs : pairs[i].parent # p
    /\ \A d \in Callers : Issuing(d, p) => d = c

(* Only returned tokens are presented, and so spent.                       *)
Known ==
    /\ \A c \in Callers : caller[c].at \in {"gate", "issue"} /\ caller[c].parent # 0 =>
                            caller[c].parent \in returned
    /\ \A c \in Callers : caller[c].at = "gate" => caller[c].parent # 0
    /\ \A i \in DOMAIN pairs : pairs[i].parent # 0 => pairs[i].parent \in returned

(* A pair whose refresh token is still to be registered is one caller's.   *)
Unreturned == \A c \in Callers : caller[c].at = "register" =>
    /\ caller[c].pair \in DOMAIN pairs /\ caller[c].pair \notin returned
    /\ \A d \in Callers : caller[d].at = "register" /\ caller[d].pair = caller[c].pair => d = c

SessionsIInv == SessionsTypeOK /\ RotatedOnce /\ Spent /\ Known /\ Unreturned

LEMMA NoCallType == NoCall \in Callings
  BY SessionsAssumption DEF NoCall, Callings

LEMMA SessionsInitIInv == SessionsInit => SessionsIInv
<1> SUFFICES ASSUME SessionsInit PROVE SessionsIInv
  OBVIOUS
<1>1. SessionsTypeOK
  BY NoCallType, SessionsAssumption DEF SessionsInit, SessionsTypeOK, JTIs, Pairs
<1>2. RotatedOnce /\ Spent /\ Known /\ Unreturned
  BY DEF SessionsInit, RotatedOnce, Spent, Known, Unreturned, Issuing, NoCall
<1> QED
  BY <1>1, <1>2 DEF SessionsIInv

LEMMA PairsTyped ==
    ASSUME SessionsTypeOK, NEW i \in DOMAIN pairs
    PROVE  pairs[i] \in Pairs /\ i \in 1 .. MaxPairs
<1>1. i \in 1 .. Len(pairs) /\ Len(pairs) \in Nat /\ Len(pairs) <= MaxPairs
  BY DEF SessionsTypeOK
<1> QED
  BY <1>1, SessionsAssumption DEF SessionsTypeOK

LEMMA RevokedTyped ==
    ASSUME SessionsTypeOK, NEW S, Revoked(S)
    PROVE  DOMAIN records' = DOMAIN records /\ \A t \in DOMAIN records' : records'[t] \in Records
<1>1. \A t \in DOMAIN records : [records[t] EXCEPT !.revoked = TRUE] \in Records
  BY DEF SessionsTypeOK, Records
<1> QED
  BY <1>1 DEF SessionsTypeOK, Revoked

LEMMA TypeStep == SessionsIInv /\ [SessionsNext]_sessionVars => SessionsTypeOK'
<1> SUFFICES ASSUME SessionsIInv, [SessionsNext]_sessionVars PROVE SessionsTypeOK'
  OBVIOUS
<1> USE NoCallType, SessionsAssumption DEF SessionsIInv, SessionsTypeOK
<1>1. ASSUME NEW c \in Callers, Login(c) PROVE SessionsTypeOK'
  <2>1. PICK user \in Subjects :
          caller' = [caller EXCEPT ![c] = [NoCall EXCEPT !.at = "issue", !.user = user, !.since = now]]
    BY <1>1 DEF Login
  <2>2. [NoCall EXCEPT !.at = "issue", !.user = user, !.since = now] \in Callings
    BY DEF Callings
  <2>3. QED
    BY <1>1, <2>1, <2>2 DEF Login
<1>2. ASSUME NEW c \in Callers, Refresh(c) PROVE SessionsTypeOK'
  <2>1. PICK t \in Presentable : caller' = [caller EXCEPT ![c] =
                        [NoCall EXCEPT !.at = "gate", !.user = pairs[t[1]].user, !.parent = t[1]]]
    BY <1>2 DEF Refresh
  <2>2. t[1] \in DOMAIN pairs
    BY DEF Presentable
  <2>3. t[1] \in 0 .. MaxPairs /\ pairs[t[1]].user \in Subjects
    BY <2>2, PairsTyped DEF Pairs
  <2>4. [NoCall EXCEPT !.at = "gate", !.user = pairs[t[1]].user, !.parent = t[1]] \in Callings
    BY <2>3 DEF Callings
  <2>5. QED
    BY <1>2, <2>1, <2>4 DEF Refresh
<1>3. ASSUME NEW c \in Callers, Gate(c) PROVE SessionsTypeOK'
  <2>1. [caller[c] EXCEPT !.at = "issue", !.since = now] \in Callings
    BY DEF Callings
  <2>2. caller' \in [Callers -> Callings]
    <3>1. caller' = [caller EXCEPT ![c] = [caller[c] EXCEPT !.at = "issue", !.since = now]]
          \/ caller' = [caller EXCEPT ![c] = NoCall]
      BY <1>3 DEF Gate
    <3>2. QED
      BY <2>1, <3>1
  <2>3. DOMAIN records' \subseteq JTIs /\ \A t \in DOMAIN records' : records'[t] \in Records
    <3>1. CASE UNCHANGED records
      BY <3>1
    <3>2. CASE Revoked({<<caller[c].parent, "refresh">>})
      BY <3>2, RevokedTyped
    <3>3. QED
      BY <1>3, <3>1, <3>2 DEF Gate
  <2>4. QED
    BY <1>3, <2>2, <2>3 DEF Gate
<1>4. ASSUME NEW c \in Callers, RegisterAccess(c) PROVE SessionsTypeOK'
  <2> DEFINE new == [user |-> caller[c].user, since |-> caller[c].since, parent |-> caller[c].parent]
  <2>0. new \in Pairs
    BY DEF Pairs, Callings
  <2>1. /\ Len(pairs) + 1 \in 1 .. MaxPairs /\ pairs' \in Seq(Pairs) /\ Len(pairs') = Len(pairs) + 1
        /\ DOMAIN pairs \subseteq DOMAIN pairs'
    <3> HIDE DEF new
    <3>1. pairs' = Append(pairs, new) /\ Len(pairs) < MaxPairs
      BY <1>4 DEF RegisterAccess, new
    <3>2. QED
      BY <2>0, <3>1
  <2>2. <<Len(pairs'), "access">> \in JTIs /\ caller[c].since + AccessTTL \in Nat /\ caller[c].user \in Subjects
    BY <2>1 DEF JTIs, TokenTypes, Callings
  <2>3. DOMAIN records' \subseteq JTIs /\ \A t \in DOMAIN records' : records'[t] \in Records
    BY <1>4, <2>2 DEF RegisterAccess, Register, Records
  <2>4. caller' \in [Callers -> Callings]
    <3>1. Len(pairs') \in 0 .. MaxPairs
      BY <2>1
    <3>2. \A n \in 0 .. MaxPairs : [caller[c] EXCEPT !.at = "register", !.pair = n] \in Callings
      BY DEF Callings
    <3>3. caller' = [caller EXCEPT ![c] = [caller[c] EXCEPT !.at = "register", !.pair = Len(pairs')]]
      BY <1>4 DEF RegisterAccess
    <3>4. QED
      BY <3>1, <3>2, <3>3
  <2>5. QED
    BY <1>4, <2>1, <2>3, <2>4 DEF RegisterAccess
<1>5. ASSUME NEW c \in Callers, RegisterRefresh(c) PROVE SessionsTypeOK'
  <2>1. caller[c].pair \in DOMAIN pairs
    BY <1>5 DEF RegisterRefresh, Unreturned
  <2>2. /\ <<caller[c].pair, "refresh">> \in JTIs /\ caller[c].since + RefreshTTL \in Nat
        /\ caller[c].user \in Subjects
    BY <2>1 DEF JTIs, TokenTypes, Callings
  <2>3. DOMAIN records' \subseteq JTIs /\ \A t \in DOMAIN records' : records'[t] \in Records
    BY <1>5, <2>2 DEF RegisterRefresh, Register, Records
  <2>4. QED
    BY <1>5, <2>1, <2>3 DEF RegisterRefresh
<1>6. CASE Revoke
  <2>1. PICK t \in Presentable : Revoked({t})
    BY <1>6 DEF Revoke
  <2>2. QED
    BY <1>6, <2>1, RevokedTyped DEF Revoke
<1>7. CASE RevokeAllForUser
  BY <1>7, RevokedTyped DEF RevokeAllForUser
<1>8. CASE Purge
  BY <1>8 DEF Purge
<1>9. CASE Tick
  BY <1>9 DEF Tick
<1>10. CASE UNCHANGED sessionVars
  BY <1>10 DEF sessionVars
<1> QED
  BY <1>1, <1>2, <1>3, <1>4, <1>5, <1>6, <1>7, <1>8, <1>9, <1>10 DEF SessionsNext

(* Tokens in numbers that occur.                                           *)
LEMMA ParentsTyped ==
    ASSUME SessionsIInv
    PROVE  /\ \A p \in 1 .. MaxPairs : <<p, "refresh">> \in JTIs
           /\ \A i \in DOMAIN pairs : pairs[i].parent # 0 => pairs[i].parent \in 1 .. MaxPairs
           /\ \A c \in Callers : caller[c].parent # 0 => caller[c].parent \in 1 .. MaxPairs
<1>1. \A p \in 1 .. MaxPairs : <<p, "refresh">> \in JTIs
  BY DEF JTIs, TokenTypes
<1>2. \A i \in DOMAIN pairs : pairs[i].parent # 0 => pairs[i].parent \in 1 .. MaxPairs
  BY PairsTyped, SessionsAssumption DEF SessionsIInv, Pairs
<1>3. \A c \in Callers : caller[c].parent # 0 => caller[c].parent \in 1 .. MaxPairs
  BY SessionsAssumption DEF SessionsIInv, SessionsTypeOK, Callings
<1> QED
  BY <1>1, <1>2, <1>3

(* As long as no pair is signed and no token revived, no pair is rotated a *)
(* second time.                                                            *)
LEMMA RotatedStays ==
    ASSUME SessionsIInv, UNCHANGED pairs, \A p \in returned : Active(<<p, "refresh">>)' => Active(<<p, "refresh">>)
    PROVE  RotatedOnce'
  BY DEF SessionsIInv, RotatedOnce, Known

(* The calls that only take tokens away, or let time pass.                 *)
LEMMA NothingRevived ==
    ASSUME SessionsIInv, UNCHANGED <<pairs, returned, caller>>,
           \A t \in JTIs : Active(t)' => Active(t)
    PROVE  (RotatedOnce /\ Spent /\ Known /\ Unreturned)'
<1>1. RotatedOnce'
  BY ParentsTyped DEF SessionsIInv, RotatedOnce
<1>2. Spent'
  BY ParentsTyped DEF SessionsIInv, Spent, Issuing
<1> QED
  BY <1>1, <1>2 DEF SessionsIInv, Known, Unreturned

LEMMA RevokedNotActive ==
    ASSUME SessionsIInv, NEW S, Revoked(S)
    PROVE  \A t \in JTIs : /\ Active(t)' => Active(t) /\ t \notin S
                           /\ Active(t) /\ t \notin S => Active(t)'
  BY DEF Revoked, Active, SessionsIInv, SessionsTypeOK, Records

LEMMA GateStep ==
    ASSUME SessionsIInv, NEW c \in Callers, Gate(c)
    PROVE  (RotatedOnce /\ Spent /\ Known /\ Unreturned)'
<1> DEFINE p == caller[c].parent
           t == <<p, "refresh">>
<1>0. /\ p \in returned /\ p \in 1 .. MaxPairs /\ t \in JTIs /\ caller[c].at = "gate"
      /\ UNCHANGED <<pairs, returned>> /\ caller \in [Callers -> Callings]
  BY ParentsTyped DEF Gate, SessionsIInv, Known, SessionsTypeOK
<1>1. CASE ~Active(t)
  <2>1. UNCHANGED records /\ caller' = [caller EXCEPT ![c] = NoCall]
    BY <1>1 DEF Gate
  <2>2. RotatedOnce'
    BY <1>0, <2>1 DEF SessionsIInv, RotatedOnce, Active
  <2>3. Spent' /\ Known' /\ Unreturned'
    BY <1>0, <2>1 DEF SessionsIInv, Spent, Known, Unreturned, Issuing, NoCall, Active
  <2>4. QED
    BY <2>2, <2>3
<1>2. CASE Active(t)
  <2>1. Revoked({t}) /\ caller' = [caller EXCEPT ![c] = [caller[c] EXCEPT !.at = "issue", !.since = now]]
    BY <1>2 DEF Gate
  <2>2. \A x \in JTIs : (Active(x)' => Active(x)) /\ ~Active(t)'
    BY <1>0, <2>1, RevokedNotActive
  <2>3. /\ \A d \in Callers : d # c => caller'[d] = caller[d]
        /\ caller'[c].at = "issue" /\ caller'[c].parent = p
    BY <1>0, <2>1 DEF Callings
  <2>4. /\ \A i \in DOMAIN pairs : pairs[i].parent # p
        /\ \A d \in Callers : ~Issuing(d, p)
    BY <1>0, <1>2 DEF SessionsIInv, RotatedOnce, Spent
  <2>5. RotatedOnce'
    BY <1>0, <2>2, ParentsTyped DEF SessionsIInv, RotatedOnce
  <2>6. Spent'
    <3> SUFFICES ASSUME NEW d \in Callers, NEW q \in 1 .. MaxPairs, Issuing(d, q)'
                 PROVE  /\ ~Active(<<q, "refresh">>)'
                        /\ \A i \in DOMAIN pairs' : pairs'[i].parent # q
                        /\ \A e \in Callers : Issuing(e, q)' => e = d
      BY DEF Spent
    <3>1. CASE d = c
      <4>1. q = p
        BY <2>3, <3>1 DEF Issuing
      <4>2. QED
        BY <1>0, <2>2, <2>3, <2>4, <3>1, <4>1 DEF Issuing
    <3>2. CASE d # c
      <4>1. Issuing(d, q)
        BY <2>3, <3>2 DEF Issuing
      <4>2. q # p
        BY <2>4, <4>1
      <4>3. ~Active(<<q, "refresh">>)'
        BY <2>2, <4>1, ParentsTyped DEF SessionsIInv, Spent
      <4>4. QED
        BY <1>0, <2>3, <4>1, <4>2, <4>3 DEF SessionsIInv, Spent, Issuing
    <3>3. QED
      BY <3>1, <3>2
  <2>7. Known' /\ Unreturned'
    BY <1>0, <2>3 DEF SessionsIInv, Known, Unreturned
  <2>8. QED
    BY <2>5, <2>6, <2>7
<1>3. QED
  BY <1>1, <1>2

LEMMA RegisterAccessStep ==
    ASSUME SessionsIInv, NEW c \in Callers, RegisterAccess(c)
    PROVE  (RotatedOnce /\ Spent /\ Known /\ Unreturned)'
<1> DEFINE n == Len(pairs) + 1
           p == caller[c].parent
           new == [user |-> caller[c].user, since |-> caller[c].since, parent |-> p]
<1>1. /\ pairs' = Append(pairs, new) /\ caller[c].at = "issue" /\ UNCHANGED returned
      /\ pairs \in Seq(Pairs) /\ caller \in [Callers -> Callings] /\ new \in Pairs
  BY DEF RegisterAccess, SessionsIInv, SessionsTypeOK, Pairs, Callings
<1>2. /\ DOMAIN pairs' = DOMAIN pairs \cup {n} /\ n \notin DOMAIN pairs /\ Len(pairs') = n
      /\ \A i \in DOMAIN pairs : pairs'[i] = pairs[i]
      /\ pairs'[n].parent = p
  <2>1. Len(pairs) \in Nat /\ DOMAIN pairs = 1 .. Len(pairs)
    BY <1>1
  <2>2. QED
    BY <1>1, <2>1
<1>3. /\ \A d \in Callers : d # c => caller'[d] = caller[d]
      /\ caller'[c].at = "register" /\ caller'[c].pair = n
  BY <1>1, <1>2 DEF RegisterAccess, Callings
<1>4. \A q : Active(<<q, "refresh">>)' => Active(<<q, "refresh">>)
  BY DEF RegisterAccess, Register, Active
<1>5. p # 0 => /\ p \in returned /\ ~Active(<<p, "refresh">>)
               /\ \A i \in DOMAIN pairs : pairs[i].parent # p
               /\ \A d \in Callers : Issuing(d, p) => d = c
  BY <1>1, ParentsTyped DEF SessionsIInv, Known, Spent, Issuing
<1>6. RotatedOnce'
  <2> SUFFICES ASSUME NEW i \in DOMAIN pairs', NEW j \in DOMAIN pairs', pairs'[i].parent # 0
               PROVE  /\ i # j => pairs'[i].parent # pairs'[j].parent
                      /\ ~Active(<<pairs[i].parent, "refresh">>)'
    BY DEF RotatedOnce
  <2>1. CASE i = n
    BY <1>2, <1>4, <1>5, <2>1
  <2>2. CASE i # n
    BY <1>2, <1>4, <1>5, <2>2 DEF SessionsIInv, RotatedOnce
  <2>3. QED
    BY <2>1, <2>2
<1>7. Spent'
  <2> SUFFICES ASSUME NEW d \in Callers, NEW q \in 1 .. MaxPairs, Issuing(d, q)'
               PROVE  /\ ~Active(<<q, "refresh">>)'
                      /\ \A i \in DOMAIN pairs' : pairs'[i].parent # q
                      /\ \A e \in Callers : Issuing(e, q)' => e = d
    BY DEF Spent
  <2>1. d # c /\ Issuing(d, q)
    BY <1>3 DEF Issuing
  <2>2. p # q
    BY <1>5, <2>1 DEF Issuing
  <2>3. \A e \in Callers : Issuing(e, q)' => Issuing(e, q)
    BY <1>3 DEF Issuing
  <2>4. QED
    BY <1>2, <1>4, <2>1, <2>2, <2>3 DEF SessionsIInv, Spent
<1>8. Known'
  BY <1>1, <1>2, <1>3, <1>5 DEF SessionsIInv, Known
<1>9. Unreturned'
  BY <1>1, <1>2, <1>3 DEF SessionsIInv, Unreturned, SessionsTypeOK
<1> QED
  BY <1>6, <1>7, <1>8, <1>9

LEMMA RegisterRefreshStep ==
    ASSUME SessionsIInv, NEW c \in Callers, RegisterRefresh(c)
    PROVE  (RotatedOnce /\ Spent /\ Known /\ Unreturned)'
<1> DEFINE k == caller[c].pair
<1>1. /\ caller[c].at = "register" /\ k \in DOMAIN pairs /\ k \notin returned
      /\ returned' = returned \cup {k} /\ UNCHANGED pairs /\ caller \in [Callers -> Callings]
  BY DEF RegisterRefresh, SessionsIInv, Unreturned, SessionsTypeOK
<1>2. /\ \A d \in Callers : d # c => caller'[d] = caller[d]
      /\ caller'[c].at = "idle"
  BY <1>1 DEF RegisterRefresh, NoCall
<1>3. \A q \in returned : Active(<<q, "refresh">>)' => Active(<<q, "refresh">>)
  BY <1>1 DEF RegisterRefresh, Register, Active
<1>4. RotatedOnce'
  BY <1>1, <1>3, RotatedStays
<1>5. Spent'
  BY <1>1, <1>2, <1>3 DEF SessionsIInv, Spent, Known, Issuing
<1>6. Known'
  BY <1>1, <1>2 DEF SessionsIInv, Known
<1>7. Unreturned'
  BY <1>1, <1>2 DEF SessionsIInv, Unreturned
<1> QED
  BY <1>4, <1>5, <1>6, <1>7

LEMMA LoginStep ==
    ASSUME SessionsIInv, NEW c \in Callers, Login(c)
    PROVE  (RotatedOnce /\ Spent /\ Known /\ Unreturned)'
<1>1. /\ UNCHANGED <<records, pairs, returned>> /\ caller \in [Callers -> Callings]
      /\ \A d \in Callers : d # c => caller'[d] = caller[d]
      /\ caller'[c].at = "issue" /\ caller'[c].parent = 0
  BY DEF Login, SessionsIInv, SessionsTypeOK, NoCall
<1> QED
  BY <1>1 DEF SessionsIInv, RotatedOnce, Spent, Known, Unreturned, Issuing, Active

LEMMA RefreshStep ==
    ASSUME SessionsIInv, NEW c \in Callers, Refresh(c)
    PROVE  (RotatedOnce /\ Spent /\ Known /\ Unreturned)'
<1>1. /\ UNCHANGED <<records, pairs, returned>> /\ caller \in [Callers -> Callings]
      /\ \A d \in Callers : d # c => caller'[d] = caller[d]
      /\ caller'[c].at = "gate" /\ caller'[c].parent \in returned
  BY DEF Refresh, Presentable, SessionsIInv, SessionsTypeOK, NoCall
<1>2. 0 \notin returned
  BY PairsTyped DEF SessionsIInv, SessionsTypeOK
<1> QED
  BY <1>1, <1>2 DEF SessionsIInv, RotatedOnce, Spent, Known, Unreturned, Issuing, Active

LEMMA SessionsInductive == SessionsIInv /\ [SessionsNext]_sessionVars => SessionsIInv'
<1> SUFFICES ASSUME SessionsIInv, [SessionsNext]_sessionVars
             PROVE  (RotatedOnce /\ Spent /\ Known /\ Unreturned)'
  BY TypeStep DEF SessionsIInv
<1>1. ASSUME NEW c \in Callers,
             Login(c) \/ Refresh(c) \/ Gate(c) \/ RegisterAccess(c) \/ RegisterRefresh(c)
      PROVE  (RotatedOnce /\ Spent /\ Known /\ Unreturned)'
  BY <1>1, LoginStep, RefreshStep, GateStep, RegisterAccessStep, RegisterRefreshStep
<1>2. CASE Revoke
  <2>1. PICK t \in Presentable : Revoked({t})
    BY <1>2 DEF Revoke
  <2>2. QED
    BY <1>2, <2>1, RevokedNotActive, NothingRevived DEF Revoke
<1>3. CASE RevokeAllForUser
  <2>1. PICK user \in Subjects : Revoked({t \in DOMAIN records : records[t].user = user})
    BY <1>3 DEF RevokeAllForUser
  <2>2. QED
    BY <1>3, <2>1, RevokedNotActive, NothingRevived DEF RevokeAllForUser
<1>4. CASE Purge
  BY <1>4, NothingRevived DEF Purge, Active
<1>5. CASE Tick
  BY <1>5, NothingRevived DEF Tick, Active
<1>6. CASE UNCHANGED sessionVars
  BY <1>6, NothingRevived DEF sessionVars, Active
<1> QED
  BY <1>1, <1>2, <1>3, <1>4, <1>5, <1>6 DEF SessionsNext

(* The user service: whatever logins, refreshes of one token at once,      *)
(* logouts and purges interleave, a refresh token yields one new pair at   *)
(* most and is not valid again afterwards.                                 *)
THEOREM RotatedOnceHolds == SessionsSpec => []RotatedOnce
<1>1. SessionsIInv => RotatedOnce
  BY DEF SessionsIInv
<1> QED
  BY <1>1, SessionsInitIInv, SessionsInductive, PTL DEF SessionsSpec

(* The records, pairs and calls of the user service stay well formed.      *)
THEOREM SessionsTyped == SessionsSpec => []SessionsTypeOK
<1>1. SessionsIInv => SessionsTypeOK
  BY DEF SessionsIInv
<1> QED
  BY <1>1, SessionsInitIInv, SessionsInductive, PTL DEF SessionsSpec

-----------------------------------------------------------------------------
(***************************************************************************)
(* Proof about SdkClient, for any calls, targets and limits, that calls    *)
(* are accounted for.  The strengthening (Ready): while the server may act *)
(* on a request again, each of its answers so far allows that, and there   *)
(* is none to a POST without a key; an answer under way is not lost.       *)
(***************************************************************************)

CallAt == {"start", "sent", "answered", "backoff", "end"}
Making == [at : CallAt, method : Methods, attempt : 0 .. MaxRetries, replays : 0 .. MaxReplays,
           ctx : BOOLEAN, result : Results \cup {"none"}]
Exchange == [answer : Answers, lost : BOOLEAN]

Typed == /\ call \in [Calls -> Making] /\ handled \in [Calls -> Seq(Exchange)]
         /\ token \in BOOLEAN /\ wire \subseteq {"bearer", "key", "none"}
         /\ client \in [target : Targets, apiKey : BOOLEAN, insecure : BOOLEAN]

(* By one call k with the server's answers h.                              *)
MayAsk(k, e) == e.lost \/ (k.method = "GET" /\ e.answer = "unavailable")
Ready(k, h) ==
    /\ k.at \in {"start", "sent", "backoff"} =>
         /\ \A i \in 1 .. Len(h) : MayAsk(k, h[i])
         /\ k.method \in {"POST", "LOGIN"} => h = <<>>
    /\ k.at = "answered" => h # <<>> /\ h[Len(h)].lost = FALSE
CallSound(k, h) == ActsOnce(k, h) /\ Ready(k, h) /\ TellsTruth(k, h)

SdkIInv == /\ Typed /\ \A c \in Calls : CallSound(call[c], handled[c])
           /\ wire \subseteq {"none"} \/ transportAllowed

LEMMA SdkInitIInv == SdkInit => SdkIInv
<1> SUFFICES ASSUME SdkInit PROVE SdkIInv
  OBVIOUS
<1>1. Typed
  <2>1. [at : {"start"}, method : Methods, attempt : {0}, replays : {0}, ctx : {TRUE},
         result : {"none"}] \subseteq Making
    <3>1. {"start"} \subseteq CallAt /\ {0} \subseteq 0 .. MaxRetries /\ {0} \subseteq 0 .. MaxReplays
          /\ {TRUE} \subseteq BOOLEAN
      BY SdkAssumption DEF CallAt
    <3>2. QED
      BY <3>1 DEF Making
  <2>2. call \in [Calls -> Making]
    BY <2>1 DEF SdkInit
  <2>3. handled \in [Calls -> Seq(Exchange)]
    BY DEF SdkInit
  <2>4. QED
    BY <2>2, <2>3 DEF SdkInit, Typed
<1>2. ASSUME NEW c \in Calls PROVE CallSound(call[c], handled[c])
  <2>1. call[c].at = "start" /\ handled[c] = <<>>
    BY DEF SdkInit
  <2>2. QED
    BY <2>1 DEF CallSound, ActsOnce, Ready, TellsTruth
<1> QED
  BY <1>1, <1>2 DEF SdkIInv, SdkInit

(* A step of one call, told by what it leaves.                             *)
LEMMA OneCall ==
    ASSUME SdkIInv, NEW c \in Calls, NEW k \in Making, NEW h \in Seq(Exchange),
           call' = [call EXCEPT ![c] = k], handled' = [handled EXCEPT ![c] = h],
           UNCHANGED client, token' \in BOOLEAN, CallSound(k, h),
           wire' = wire \/ (wire' = wire \cup {Credential} /\ (Credential = "none" \/ transportAllowed))
    PROVE  SdkIInv'
<1>1. Typed'
  BY DEF SdkIInv, Typed, Credential
<1>2. /\ call'[c] = k /\ handled'[c] = h
      /\ \A d \in Calls : d # c => call'[d] = call[d] /\ handled'[d] = handled[d]
  BY DEF SdkIInv, Typed
<1>3. \A d \in Calls : CallSound(call'[d], handled'[d])
  BY <1>2 DEF SdkIInv
<1>4. (wire \subseteq {"none"} \/ transportAllowed)'
  BY DEF SdkIInv, transportAllowed
<1> QED
  BY <1>1, <1>3, <1>4 DEF SdkIInv

(* What a call's state and history are, to begin each step.                *)
LEMMA OfCall ==
    ASSUME SdkIInv, NEW c \in Calls
    PROVE  /\ call[c] \in Making /\ handled[c] \in Seq(Exchange) /\ CallSound(call[c], handled[c])
           /\ call[c].attempt \in Nat /\ call[c].attempt <= MaxRetries
           /\ handled = [handled EXCEPT ![c] = handled[c]] /\ token \in BOOLEAN
<1>1. call[c] \in Making /\ handled[c] \in Seq(Exchange) /\ CallSound(call[c], handled[c]) /\ token \in BOOLEAN
  BY DEF SdkIInv, Typed
<1>2. call[c].attempt \in 0 .. MaxRetries
  BY <1>1 DEF Making
<1>3. call[c].attempt \in Nat /\ call[c].attempt <= MaxRetries
  BY <1>2, SdkAssumption
<1>4. handled = [handled EXCEPT ![c] = handled[c]]
  BY DEF SdkIInv, Typed
<1> QED
  BY <1>1, <1>3, <1>4

(* A history whose last answer is lost allows another request.             *)
LEMMA LostAllows ==
    ASSUME NEW k, NEW h \in Seq(Exchange), h # <<>>, ActsOnce(k, h)
    PROVE  LET g == [h EXCEPT ![Len(h)].lost = TRUE] IN
           /\ g \in Seq(Exchange) /\ ActsOnce(k, g)
           /\ \A i \in 1 .. Len(g) : MayAsk(k, g[i])
<1>0. PICK n : n = Len(h)
  OBVIOUS
<1> DEFINE g == [h EXCEPT ![n].lost = TRUE]
<1>1. n \in Nat /\ n >= 1 /\ n \in 1 .. n /\ DOMAIN h = 1 .. n
  BY <1>0
<1>2. [h[n] EXCEPT !.lost = TRUE] \in Exchange
  <2>1. h[n] \in Exchange
    BY <1>1
  <2>2. QED
    BY <2>1 DEF Exchange
<1>3. g \in Seq(Exchange) /\ Len(g) = n
  BY <1>0, <1>1, <1>2
<1>4. g[n].lost = TRUE
  <2>1. PICK e : e = [h[n] EXCEPT !.lost = TRUE]
    OBVIOUS
  <2>2. h[n] \in Exchange
    BY <1>0, <1>1
  <2>3. e.lost = TRUE
    BY <2>1, <2>2 DEF Exchange
  <2>4. g = [h EXCEPT ![n] = e]
    BY <2>1
  <2>5. g[n] = e
    BY <1>1, <2>4
  <2>6. QED
    BY <2>3, <2>5
<1>5. ASSUME NEW i \in 1 .. n - 1 PROVE g[i] = h[i] /\ MayAsk(k, h[i])
  <2>1. i \in 1 .. n /\ i # n
    BY <1>1
  <2>2. g[i] = h[i]
    BY <1>1, <2>1
  <2>3. MayAsk(k, h[i])
    BY <1>0, <1>5 DEF ActsOnce, MayAsk
  <2>4. QED
    BY <2>2, <2>3
<1> HIDE DEF g
<1>6. \A i \in 1 .. n : MayAsk(k, g[i])
  <2>1. \A i \in 1 .. n - 1 : MayAsk(k, g[i])
    BY <1>5
  <2>2. MayAsk(k, g[n])
    BY <1>4 DEF MayAsk
  <2>3. \A i \in 1 .. n : i = n \/ i \in 1 .. n - 1
    BY <1>1
  <2>4. QED
    BY <2>1, <2>2, <2>3
<1>7. ActsOnce(k, g)
  <2>1. k.method \in {"POST", "LOGIN"} => n <= 1
    BY <1>0 DEF ActsOnce
  <2>2. \A i \in 1 .. n - 1 : MayAsk(k, g[i])
    BY <1>5
  <2>3. QED
    BY <1>3, <2>1, <2>2 DEF ActsOnce, MayAsk
<1> QED
  BY <1>0, <1>3, <1>6, <1>7 DEF g

(* Loses, of a call whose request is on its way or answered.               *)
LEMMA LosesSound ==
    ASSUME SdkIInv, NEW c \in Calls, call[c].at \in {"sent", "answered"}, Loses(c)
    PROVE  \E h \in Seq(Exchange) :
             /\ handled' = [handled EXCEPT ![c] = h] /\ ActsOnce(call[c], h)
             /\ \A i \in 1 .. Len(h) : MayAsk(call[c], h[i])
             /\ call[c].at = "sent" => h = handled[c]
<1>1. PICK k0, h0 : k0 = call[c] /\ h0 = handled[c]
  OBVIOUS
<1>2. h0 \in Seq(Exchange) /\ CallSound(k0, h0) /\ handled = [handled EXCEPT ![c] = h0]
  BY <1>1, OfCall
<1>3. CASE call[c].at = "answered"
  <2>1. h0 # <<>> /\ ActsOnce(k0, h0)
    BY <1>1, <1>2, <1>3 DEF CallSound, Ready
  <2>2. PICK g : g = [h0 EXCEPT ![Len(h0)].lost = TRUE]
    OBVIOUS
  <2>3. g \in Seq(Exchange) /\ ActsOnce(k0, g) /\ \A i \in 1 .. Len(g) : MayAsk(k0, g[i])
    BY <1>2, <2>1, <2>2, LostAllows
  <2>4. handled' = [handled EXCEPT ![c] = g]
    BY <1>1, <1>3, <2>2 DEF Loses
  <2>5. QED
    BY <1>1, <1>3, <2>3, <2>4
<1>4. CASE call[c].at = "sent"
  <2>1. ActsOnce(k0, h0) /\ \A i \in 1 .. Len(h0) : MayAsk(k0, h0[i])
    BY <1>1, <1>2, <1>4 DEF CallSound, Ready
  <2>2. handled' = [handled EXCEPT ![c] = h0]
    BY <1>1, <1>2, <1>4 DEF Loses
  <2>3. QED
    BY <1>1, <1>2, <2>1, <2>2
<1> QED
  BY <1>3, <1>4

(* Another attempt, of a GET alone: every answer so far allows it.         *)
LEMMA RetrySound ==
    ASSUME SdkIInv, NEW c \in Calls, call[c].at # "end", Again(c), Retry(c),
           UNCHANGED <<client, token, wire>>, NEW h \in Seq(Exchange),
           handled' = [handled EXCEPT ![c] = h], ActsOnce(call[c], h),
           \A i \in 1 .. Len(h) : MayAsk(call[c], h[i])
    PROVE  SdkIInv'
<1>1. PICK k0 : k0 = call[c]
  OBVIOUS
<1>2. k0 \in Making /\ token' \in BOOLEAN /\ k0.attempt \in Nat /\ k0.attempt <= MaxRetries
  BY <1>1, OfCall
<1>3. k0.method = "GET" /\ k0.attempt + 1 <= MaxRetries
  BY <1>1, <1>2, SdkAssumption DEF Again, Attempts
<1>4. PICK k : k = [k0 EXCEPT !.at = "backoff", !.attempt = k0.attempt + 1, !.replays = 0]
  OBVIOUS
<1>5. call' = [call EXCEPT ![c] = k]
  BY <1>1, <1>4 DEF Retry
<1>6. k \in Making /\ k.at = "backoff" /\ k.method = "GET"
  <2>1. "backoff" \in CallAt /\ k0.attempt + 1 \in 0 .. MaxRetries /\ 0 \in 0 .. MaxReplays
    BY <1>2, <1>3, SdkAssumption DEF CallAt
  <2>2. \A n \in 0 .. MaxRetries : \A r \in 0 .. MaxReplays :
            [k0 EXCEPT !.at = "backoff", !.attempt = n, !.replays = r] \in Making
    BY <1>2, <2>1, Zenon DEF Making
  <2>3. k.at = "backoff" /\ k.method = k0.method
    BY <1>2, <1>4 DEF Making
  <2>4. QED
    BY <1>3, <1>4, <2>1, <2>2, <2>3
<1>7. CallSound(k, h)
  <2>1. ActsOnce(k, h)
    BY <1>1, <1>3, <1>6 DEF ActsOnce
  <2>2. Ready(k, h) /\ TellsTruth(k, h)
    BY <1>1, <1>3, <1>6 DEF Ready, TellsTruth, MayAsk
  <2>3. QED
    BY <2>1, <2>2 DEF CallSound
<1> QED
  BY <1>2, <1>5, <1>6, <1>7, OneCall

(* The call returns: a result of the server's, or one after all attempts.  *)
LEMMA ReturnSound ==
    ASSUME SdkIInv, NEW c \in Calls, call[c].at # "end", NEW result \in Results, Returns(c, result),
           NEW h \in Seq(Exchange), handled' = [handled EXCEPT ![c] = h], ActsOnce(call[c], h),
           result \in Answers => h # <<>> /\ h[Len(h)] = [answer |-> result, lost |-> FALSE],
           result = "decode"  => h # <<>> /\ h[Len(h)] = [answer |-> "ok", lost |-> FALSE],
           result \in {"unavailable", "transport"} => ~Again(c),
           UNCHANGED <<client, wire>>, token' \in BOOLEAN
    PROVE  SdkIInv'
<1>1. PICK k0 : k0 = call[c]
  OBVIOUS
<1>2. k0 \in Making /\ k0.attempt \in Nat /\ k0.attempt <= MaxRetries
  BY <1>1, OfCall
<1>3. k0.method = "GET" /\ result \in {"unavailable", "transport"} => k0.attempt = MaxRetries
  BY <1>1, <1>2, SdkAssumption DEF Again, Attempts
<1>4. PICK k : k = [k0 EXCEPT !.at = "end", !.result = result]
  OBVIOUS
<1>5. call' = [call EXCEPT ![c] = k]
  BY <1>1, <1>4 DEF Returns
<1>6. k \in Making /\ k.at = "end" /\ k.result = result /\ k.attempt = k0.attempt /\ k.method = k0.method
  BY <1>2, <1>4 DEF Making, CallAt
<1>7. CallSound(k, h)
  <2>1. ActsOnce(k, h)
    BY <1>1, <1>6 DEF ActsOnce
  <2>2. Ready(k, h)
    BY <1>6 DEF Ready
  <2>3. TellsTruth(k, h)
    BY <1>3, <1>6 DEF TellsTruth
  <2>4. QED
    BY <2>1, <2>2, <2>3 DEF CallSound
<1> QED
  BY <1>2, <1>5, <1>6, <1>7, OneCall

(* Fails: another attempt or the transport's error.                        *)
LEMMA FailsSound ==
    ASSUME SdkIInv, NEW c \in Calls, call[c].at # "end", Fails(c), UNCHANGED <<client, token, wire>>,
           NEW h \in Seq(Exchange), handled' = [handled EXCEPT ![c] = h], ActsOnce(call[c], h),
           \A i \in 1 .. Len(h) : MayAsk(call[c], h[i])
    PROVE  SdkIInv'
<1>1. CASE Again(c)
  <2>1. Retry(c)
    BY <1>1 DEF Fails
  <2>2. QED
    BY <1>1, <2>1, RetrySound
<1>2. CASE ~Again(c)
  <2>1. Returns(c, "transport")
    BY <1>2 DEF Fails
  <2>2. "transport" \in Results /\ "transport" \notin Answers
    BY DEF Results, Answers
  <2>3. token' \in BOOLEAN
    BY OfCall
  <2>4. QED
    BY <1>2, <2>1, <2>2, <2>3, ReturnSound
<1> QED
  BY <1>1, <1>2

LEMMA AttemptStep == ASSUME SdkIInv, NEW c \in Calls, Attempt(c) PROVE SdkIInv'
<1>1. PICK k0, h : k0 = call[c] /\ h = handled[c]
  OBVIOUS
<1>2. /\ k0 \in Making /\ h \in Seq(Exchange) /\ CallSound(k0, h) /\ k0.at = "start"
      /\ handled' = [handled EXCEPT ![c] = h] /\ UNCHANGED <<client, token>> /\ token \in BOOLEAN
  <2>1. call[c].at = "start" /\ UNCHANGED <<client, token, handled>>
    BY DEF Attempt
  <2>2. QED
    BY <1>1, <2>1, OfCall
<1>3. ActsOnce(k0, h) /\ \A i \in 1 .. Len(h) : MayAsk(k0, h[i])
  BY <1>2 DEF CallSound, Ready
<1>4. CASE Credential # "none" /\ ~transportAllowed /\ Returns(c, "insecure") /\ UNCHANGED wire
  <2>1. "insecure" \in Results /\ "insecure" \notin Answers
    BY DEF Results, Answers
  <2>2. QED
    BY <1>1, <1>2, <1>3, <1>4, <2>1, ReturnSound
<1>5. CASE Fails(c) /\ UNCHANGED wire
  BY <1>1, <1>2, <1>3, <1>5, FailsSound
<1>6. CASE /\ Credential = "none" \/ transportAllowed
           /\ call' = [call EXCEPT ![c].at = "sent"] /\ wire' = wire \cup {Credential}
  <2>1. PICK k : k = [k0 EXCEPT !.at = "sent"]
    OBVIOUS
  <2>2. call' = [call EXCEPT ![c] = k]
    BY <1>1, <1>6, <2>1
  <2>3. k \in Making /\ k.at = "sent" /\ k.method = k0.method
    BY <1>2, <2>1 DEF Making, CallAt
  <2>4. CallSound(k, h)
    BY <1>2, <2>3 DEF CallSound, ActsOnce, Ready, TellsTruth, MayAsk
  <2>5. QED
    BY <1>2, <1>6, <2>2, <2>3, <2>4, OneCall
<1> QED
  BY <1>4, <1>5, <1>6 DEF Attempt

LEMMA AnswerStep == ASSUME SdkIInv, NEW c \in Calls, Answer(c) PROVE SdkIInv'
<1>1. PICK k0, h0 : k0 = call[c] /\ h0 = handled[c]
  OBVIOUS
<1>2. PICK answer \in Answers :
        handled' = [handled EXCEPT ![c] = Append(h0, [answer |-> answer, lost |-> FALSE])]
  BY <1>1 DEF Answer
<1>3. /\ k0 \in Making /\ h0 \in Seq(Exchange) /\ CallSound(k0, h0) /\ k0.at = "sent"
      /\ UNCHANGED <<client, token, wire>> /\ token \in BOOLEAN
  <2>1. call[c].at = "sent" /\ UNCHANGED <<client, token, wire>>
    BY DEF Answer
  <2>2. QED
    BY <1>1, <2>1, OfCall
<1>4. PICK k : k = [k0 EXCEPT !.at = "answered"]
  OBVIOUS
<1>5. call' = [call EXCEPT ![c] = k]
  BY <1>1, <1>4 DEF Answer
<1>6. k \in Making /\ k.at = "answered" /\ k.method = k0.method
  BY <1>3, <1>4 DEF Making, CallAt
<1>7. PICK e, h : e = [answer |-> answer, lost |-> FALSE] /\ h = Append(h0, e)
  OBVIOUS
<1>8. e \in Exchange /\ e.lost = FALSE
  BY <1>7 DEF Exchange
<1>9. /\ h \in Seq(Exchange) /\ Len(h) = Len(h0) + 1 /\ h[Len(h)] = e /\ h # <<>> /\ Len(h0) \in Nat
      /\ \A i \in 1 .. Len(h0) : h[i] = h0[i]
  BY <1>3, <1>7, <1>8
<1>10. /\ \A i \in 1 .. Len(h0) : MayAsk(k0, h0[i])
       /\ k0.method \in {"POST", "LOGIN"} => h0 = <<>>
  BY <1>3 DEF CallSound, Ready
<1>11. ActsOnce(k, h)
  <2>1. k.method \in {"POST", "LOGIN"} => Len(h) <= 1
    BY <1>6, <1>9, <1>10
  <2>2. \A i \in 1 .. Len(h) - 1 : MayAsk(k, h[i])
    BY <1>6, <1>9, <1>10 DEF MayAsk
  <2>3. QED
    BY <2>1, <2>2 DEF ActsOnce, MayAsk
<1>12. CallSound(k, h)
  BY <1>6, <1>8, <1>9, <1>11 DEF CallSound, Ready, TellsTruth
<1> QED
  BY <1>2, <1>3, <1>5, <1>6, <1>7, <1>9, <1>12, OneCall

LEMMA TransportErrorStep == ASSUME SdkIInv, NEW c \in Calls, TransportError(c) PROVE SdkIInv'
<1>1. call[c].at \in {"sent", "answered"} /\ Fails(c) /\ Loses(c) /\ UNCHANGED <<client, token, wire>>
  BY DEF TransportError
<1>2. PICK h \in Seq(Exchange) :
        /\ handled' = [handled EXCEPT ![c] = h] /\ ActsOnce(call[c], h)
        /\ \A i \in 1 .. Len(h) : MayAsk(call[c], h[i])
  BY <1>1, LosesSound
<1> QED
  BY <1>1, <1>2, FailsSound

LEMMA ReplayStep == ASSUME SdkIInv, NEW c \in Calls, Replay(c) PROVE SdkIInv'
<1>1. PICK k0 : k0 = call[c]
  OBVIOUS
<1>2. /\ k0.at \in {"sent", "answered"} /\ k0.method \in Replayable /\ k0.replays < MaxReplays
      /\ Loses(c) /\ UNCHANGED <<client, token, wire>>
      /\ call' = [call EXCEPT ![c].at = "sent", ![c].replays = @ + 1]
  BY <1>1 DEF Replay
<1>3. k0 \in Making /\ token' \in BOOLEAN
  BY <1>1, <1>2, OfCall
<1>4. PICK h \in Seq(Exchange) :
        /\ handled' = [handled EXCEPT ![c] = h] /\ ActsOnce(k0, h)
        /\ \A i \in 1 .. Len(h) : MayAsk(k0, h[i])
  BY <1>1, <1>2, LosesSound
<1>5. PICK k : k = [k0 EXCEPT !.at = "sent", !.replays = k0.replays + 1]
  OBVIOUS
<1>6. call' = [call EXCEPT ![c] = k]
  BY <1>1, <1>2, <1>5
<1>7. k \in Making /\ k.at = "sent" /\ k.method = k0.method
  <2>1. k0.replays \in 0 .. MaxReplays
    BY <1>3 DEF Making
  <2>2. "sent" \in CallAt /\ k0.replays + 1 \in 0 .. MaxReplays
    BY <1>2, <2>1, SdkAssumption DEF CallAt
  <2>3. \A r \in 0 .. MaxReplays : [k0 EXCEPT !.at = "sent", !.replays = r] \in Making
    BY <1>3, <2>2, Zenon DEF Making
  <2>4. k.at = "sent" /\ k.method = k0.method
    BY <1>3, <1>5 DEF Making
  <2>5. QED
    BY <1>5, <2>2, <2>3, <2>4
<1>8. k.method \notin {"POST", "LOGIN"}
  BY <1>2, <1>7 DEF Replayable
<1>9. CallSound(k, h)
  <2>1. ActsOnce(k, h)
    BY <1>4, <1>7 DEF ActsOnce
  <2>2. Ready(k, h) /\ TellsTruth(k, h)
    BY <1>4, <1>7, <1>8 DEF Ready, TellsTruth, MayAsk
  <2>3. QED
    BY <2>1, <2>2 DEF CallSound
<1> QED
  BY <1>2, <1>3, <1>4, <1>6, <1>7, <1>9, OneCall

LEMMA ResponseStep == ASSUME SdkIInv, NEW c \in Calls, Response(c) PROVE SdkIInv'
<1>1. PICK k0, h : k0 = call[c] /\ h = handled[c]
  OBVIOUS
<1>2. /\ k0.at = "answered" /\ UNCHANGED <<client, wire>> /\ h \in Seq(Exchange) /\ CallSound(k0, h)
      /\ handled' = [handled EXCEPT ![c] = h] /\ token \in BOOLEAN
  <2>1. call[c].at = "answered" /\ UNCHANGED <<client, handled, wire>>
    BY DEF Response
  <2>2. QED
    BY <1>1, <2>1, OfCall
<1>3. ActsOnce(k0, h) /\ h # <<>> /\ h[Len(h)].lost = FALSE
  BY <1>2 DEF CallSound, Ready
<1>4. PICK answer : answer = h[Len(h)].answer
  OBVIOUS
<1>5. answer \in Answers /\ h[Len(h)] = [answer |-> answer, lost |-> FALSE]
  <2>1. h[Len(h)] \in Exchange
    BY <1>2, <1>3
  <2>2. QED
    BY <1>3, <1>4, <2>1 DEF Exchange
<1>6. CASE answer = "unavailable" /\ Again(c) /\ Retry(c) /\ UNCHANGED token
  <2>1. k0.method = "GET"
    <3>1. call[c].attempt \in Nat
      BY OfCall
    <3>2. QED
      BY <1>1, <1>6, <3>1 DEF Again, Attempts
  <2>2. \A i \in 1 .. Len(h) : MayAsk(k0, h[i])
    <3>1. \A i \in 1 .. Len(h) - 1 : MayAsk(k0, h[i])
      BY <1>3 DEF ActsOnce, MayAsk
    <3>2. MayAsk(k0, h[Len(h)])
      BY <1>4, <1>6, <2>1 DEF MayAsk
    <3>3. \A i \in 1 .. Len(h) : i = Len(h) \/ i \in 1 .. Len(h) - 1
      BY <1>2
    <3>4. QED
      BY <3>1, <3>2, <3>3
  <2>3. QED
    BY <1>1, <1>2, <1>3, <1>6, <2>2, RetrySound
<1>7. CASE ~(answer = "unavailable" /\ Again(c)) /\ Returns(c, answer) /\ token' \in BOOLEAN
  <2>1. answer \in Results /\ answer # "decode" /\ answer # "transport"
    BY <1>5 DEF Results, Answers
  <2>2. QED
    BY <1>1, <1>2, <1>3, <1>5, <1>7, <2>1, ReturnSound
<1>8. CASE answer = "ok" /\ Returns(c, "decode") /\ UNCHANGED token
  <2>1. "decode" \in Results /\ "decode" \notin Answers
    BY DEF Results, Answers
  <2>2. QED
    BY <1>1, <1>2, <1>3, <1>5, <1>8, <2>1, ReturnSound
<1>9. \/ answer = "unavailable" /\ Again(c) /\ Retry(c) /\ UNCHANGED token
      \/ ~(answer = "unavailable" /\ Again(c)) /\ Returns(c, answer) /\ token' \in BOOLEAN
      \/ answer = "ok" /\ Returns(c, "decode") /\ UNCHANGED token
  BY <1>1, <1>2, <1>4 DEF Response
<1> QED
  BY <1>6, <1>7, <1>8, <1>9

LEMMA BackoffStep ==
    ASSUME SdkIInv, NEW c \in Calls, BackoffOver(c) \/ BackoffCancelled(c) PROVE SdkIInv'
<1>1. PICK k0, h : k0 = call[c] /\ h = handled[c]
  OBVIOUS
<1>2. /\ k0 \in Making /\ h \in Seq(Exchange) /\ CallSound(k0, h) /\ token' \in BOOLEAN
      /\ k0.at = "backoff" /\ handled' = [handled EXCEPT ![c] = h] /\ UNCHANGED <<client, wire>>
  <2>1. call[c].at = "backoff" /\ UNCHANGED <<client, token, handled, wire>>
    BY DEF BackoffOver, BackoffCancelled
  <2>2. QED
    BY <1>1, <2>1, OfCall
<1>3. CASE BackoffCancelled(c)
  <2>1. "cancelled" \in Results /\ "cancelled" \notin Answers
    BY DEF Results, Answers
  <2>2. Returns(c, "cancelled")
    BY <1>3 DEF BackoffCancelled
  <2>3. ActsOnce(k0, h)
    BY <1>2 DEF CallSound
  <2>4. QED
    BY <1>1, <1>2, <2>1, <2>2, <2>3, ReturnSound
<1>4. CASE BackoffOver(c)
  <2>1. PICK k : k = [k0 EXCEPT !.at = "start"]
    OBVIOUS
  <2>2. call' = [call EXCEPT ![c] = k]
    BY <1>1, <1>4, <2>1 DEF BackoffOver
  <2>3. k \in Making /\ k.at = "start" /\ k.method = k0.method
    BY <1>2, <2>1 DEF Making, CallAt
  <2>4. CallSound(k, h)
    BY <1>2, <2>3 DEF CallSound, ActsOnce, Ready, TellsTruth, MayAsk
  <2>5. QED
    BY <1>2, <2>2, <2>3, <2>4, OneCall
<1> QED
  BY <1>3, <1>4

LEMMA CancelStep == ASSUME SdkIInv, NEW c \in Calls, CancelCall(c) PROVE SdkIInv'
<1>1. PICK k0, h : k0 = call[c] /\ h = handled[c]
  OBVIOUS
<1>2. /\ k0 \in Making /\ h \in Seq(Exchange) /\ CallSound(k0, h) /\ token' \in BOOLEAN /\ k0.at # "end"
      /\ handled' = [handled EXCEPT ![c] = h] /\ UNCHANGED <<client, wire>>
  <2>1. call[c].at # "end" /\ UNCHANGED <<client, token, handled, wire>>
    BY DEF CancelCall
  <2>2. QED
    BY <1>1, <2>1, OfCall
<1>3. PICK k : k = [k0 EXCEPT !.ctx = FALSE]
  OBVIOUS
<1>4. call' = [call EXCEPT ![c] = k]
  BY <1>1, <1>3 DEF CancelCall
<1>5. k \in Making /\ k.at = k0.at /\ k.method = k0.method
  BY <1>2, <1>3 DEF Making
<1>6. CallSound(k, h)
  BY <1>2, <1>5 DEF CallSound, ActsOnce, Ready, TellsTruth, MayAsk
<1> QED
  BY <1>2, <1>4, <1>5, <1>6, OneCall

LEMMA SdkInductive == SdkIInv /\ [SdkNext]_sdkVars => SdkIInv'
<1>1. ASSUME SdkIInv, SdkNext PROVE SdkIInv'
  BY <1>1, AttemptStep, AnswerStep, TransportErrorStep, ReplayStep, ResponseStep, BackoffStep, CancelStep
     DEF SdkNext
<1>2. ASSUME SdkIInv, UNCHANGED sdkVars PROVE SdkIInv'
  BY <1>2 DEF SdkIInv, Typed, transportAllowed, sdkVars
<1> QED
  BY <1>1, <1>2

(* The SDK's calls, whatever is lost, replayed or cancelled and however    *)
(* often a GET is tried: a POST without a key is acted on once at most,    *)
(* any other request again only after an answer that was lost or asked for *)
(* it, results are the server's, a GET fails only after its attempts, and  *)
(* no credential goes in the clear.                                        *)
THEOREM AccountsHold == SdkSpec => []CallsAccounted
<1>1. SdkIInv => CallsAccounted
  BY DEF SdkIInv, CallSound, CallsAccounted
<1> QED
  BY <1>1, SdkInitIInv, SdkInductive, PTL DEF SdkSpec

=============================================================================
