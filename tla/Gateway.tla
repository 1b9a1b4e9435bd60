------------------------------- MODULE Gateway -------------------------------
(***************************************************************************)
(* The REST gateway (rest_gateway) in front of its services, in memory or  *)
(* the real ones (server): routes, the chain authentication - role -       *)
(* scopes - idempotency, and the handlers.  A request is one goroutine;    *)
(* the lookup in the idempotency ledger, the handler and the entry into    *)
(* the ledger are separate critical sections.                              *)
(*                                                                         *)
(* A token is the user and type it was signed for; `tokens' are those that *)
(* verify now.  A body is known by its kind.  Ids are the numbers the      *)
(* services draw.                                                          *)
(***************************************************************************)
EXTENDS Integers, Sequences, FiniteSets

CONSTANTS
    Principals,   \* user -> [role, account, scopes, totp], AuthService's users: Seeds
    Clients,      \* requests in flight at once
    Keys,         \* Idempotency-Keys clients send
    NoKey,        \* the header is missing
    MaxRequests   \* bound

ASSUME GatewayAssumption == NoKey \notin Keys

VARIABLES
    services,   \* "memory" or "real": the services behind the handlers
    tokens,     \* signed tokens that have not expired
    channels,   \* ChannelService's channels
    jobs,       \* PostService's jobs: [post, precedence]; the index is the id
    ledger,     \* idemStore.entries
    request,    \* by client: its request, or the last one
    answered,   \* history: the keyed requests answered with 2xx
    requests

storeVars == <<channels, jobs>>
gatewayVars == <<services, tokens, storeVars, ledger, request, answered, requests>>

Users     == DOMAIN Principals
NoUser    == "nobody"
NoToken   == [user |-> NoUser, type |-> "access"]
Tokens    == [user : Users, type : {"access", "refresh"}]
Bodies    == {"good", "other", "invalid"}   \* invalid: malformed, or a field missing or out of range

(* What the services are seeded with.                                      *)
scopesUser  == {"posts:read", "posts:write", "assets:read", "search:read", "skills:read", "events:read"}
scopesAdmin == scopesUser \cup {"accounts:admin", "billing:read", "skills:write"}
scopesRoot  == scopesAdmin \cup {"root:admin"}

Identity(role, scopes, totp) == [role |-> role, account |-> "acct-a", scopes |-> scopes, totp |-> totp]
Seeds == [root  |-> Identity("root", scopesRoot, TRUE),
          admin |-> Identity("account_admin", scopesAdmin, TRUE),
          std   |-> Identity("user", scopesUser, FALSE)]

SeedAccounts == {"acct-a", "acct-b"}
SeedChannel  == [id |-> 1, account |-> "acct-a"]
Posts == {"post-1"}
PostTags == [p \in Posts |-> {"#research", "#vectordb"}]

(* By precedence; a skill without tags matches every post.                 *)
Skills == << [kind |-> "download", tags |-> {"#video", "#download", "#torrent"}],
             [kind |-> "convert",  tags |-> {"#video", "#convert"}],
             [kind |-> "analyze",  tags |-> {"#image", "#ocr", "#analyze"}],
             [kind |-> "research", tags |-> {"#research", "#vectordb"}],
             [kind |-> "reply",    tags |-> {}] >>

roleRank(role) == CASE role = "root" -> 3 [] role = "account_admin" -> 2
                    [] role = "user" -> 1 [] OTHER -> 0

Secure(role, scope, idem) == [public |-> FALSE, role |-> role, scope |-> scope, idem |-> idem]
Public == [public |-> TRUE, role |-> "none", scope |-> "none", idem |-> FALSE]

routes == [health         |-> Public,
           login          |-> Public,
           unknown        |-> Public,
           listChannels   |-> Secure("user", "posts:read", FALSE),
           channelThreads |-> Secure("user", "posts:read", FALSE),
           getPost        |-> Secure("user", "posts:read", FALSE),
           search         |-> Secure("user", "search:read", FALSE),
           listSkills     |-> Secure("user", "skills:read", FALSE),
           createChannel  |-> Secure("account_admin", "posts:write", TRUE),
           reprocess      |-> Secure("account_admin", "posts:write", TRUE),
           listAccounts   |-> Secure("account_admin", "accounts:admin", FALSE)]

(* What a client may send: bodies and ids where the handler looks at them. *)
BodiesOf(route) == CASE route \in {"createChannel", "reprocess"} -> Bodies
                     [] route \in {"login", "search"} -> {"good", "invalid"}
                     [] OTHER -> {"good"}
IdsOf(route) == IF route \in {"channelThreads", "getPost", "reprocess"} THEN {"post-1", "absent"} ELSE {"none"}
KeysOf(route) == IF routes[route].idem THEN Keys \cup {NoKey} ELSE {NoKey}

NoRequest == [at |-> "done", route |-> "health", token |-> NoToken, id |-> "none", key |-> NoKey,
              body |-> "good", status |-> 200, result |-> 0, ran |-> FALSE, repeats |-> FALSE]

GatewayInit ==
    /\ services \in {"memory", "real"}
    /\ tokens = {}
    /\ channels = <<SeedChannel>> /\ jobs = <<>>
    /\ ledger = <<>> /\ answered = {}
    /\ request = [c \in Clients |-> NoRequest] /\ requests = 0

----------------------------------------------------------------------------
(* The middleware.                                                         *)

(* authn and Verify, requireRole, requireScopes: 0 lets the request pass.  *)
Refused(route, token) ==
    LET r == routes[route] IN
    IF r.public THEN 0
    ELSE IF token \notin tokens \/ token.type = "refresh" THEN 401
    ELSE LET p == Principals[token.user] IN
         IF roleRank(p.role) < roleRank(r.role) \/ r.scope \notin p.scopes THEN 403 ELSE 0

(* storeKey: principal, method and path, key.                              *)
SlotOfKey(q) == <<q.route, q.id, q.key>>
Slot(q) == <<q.token.user, q.route, q.id, q.key>>
(* The history keeps what was asked and answered in full.                  *)
Answered(q) == [user |-> q.token.user, route |-> q.route, id |-> q.id, key |-> q.key,
                body |-> q.body, status |-> q.status, result |-> q.result]
Repeats(q) == \E a \in answered : <<a.user, a.route, a.id, a.key>> = <<q.token.user, q.route, q.id, q.key>>

Keyed(q) == routes[q.route].idem /\ q.key # NoKey

(* Of a request that is over only the answer is kept, and what was asked   *)
(* with a key.                                                             *)
Reply(c, status, result) ==
    request' = [request EXCEPT ![c] = [(IF Keyed(@) THEN @ ELSE NoRequest) EXCEPT
                    !.at = "done", !.status = status, !.result = result]]

Arrive(c) ==
    /\ request[c].at = "done" /\ requests < MaxRequests
    /\ requests' = requests + 1
    /\ \E route \in DOMAIN routes, token \in tokens \cup {NoToken} :
       \E id \in IdsOf(route), key \in KeysOf(route), body \in BodiesOf(route) :
        LET q == [NoRequest EXCEPT !.route = route, !.token = token, !.id = id, !.key = key,
                                   !.body = body]
            refused == Refused(route, token) IN
        request' = [request EXCEPT ![c] =
            IF refused # 0 THEN [NoRequest EXCEPT !.status = refused]
            ELSE [q EXCEPT !.at = IF Keyed(q) THEN "lookup" ELSE "handle",
                           !.repeats = Repeats(q)]]
    /\ UNCHANGED <<services, tokens, storeVars, ledger, answered>>

(* idempotency: replay, 409 for another body, or the handler.              *)
LookUp(c) ==
    LET q == request[c] IN
    /\ q.at = "lookup"
    /\ IF Slot(q) \notin DOMAIN ledger
       THEN request' = [request EXCEPT ![c].at = "handle"]
       ELSE LET rec == ledger[Slot(q)] IN
            IF rec.body # q.body THEN Reply(c, 409, 0) ELSE Reply(c, rec.status, rec.result)
    /\ UNCHANGED <<services, tokens, storeVars, ledger, answered, requests>>

(* The handler's answer; with a key it passes through captureWriter, and   *)
(* leaves with the end of the chain: it is smaller than net/http's buffer. *)
Handled(c, status, result) ==
    IF Keyed(request[c])
    THEN request' = [request EXCEPT ![c].at = "store", ![c].status = status,
                                    ![c].result = result, ![c].ran = TRUE]
    ELSE Reply(c, status, result)

Cacheable(status) == status >= 200 /\ status < 300

Store(c) ==
    LET q == request[c] IN
    /\ q.at = "store"
    /\ IF Cacheable(q.status)
       THEN ledger' = [s \in DOMAIN ledger \cup {Slot(q)} |->
                         IF s = Slot(q)
                         THEN [body |-> q.body, status |-> q.status, result |-> q.result]
                         ELSE ledger[s]]
       ELSE UNCHANGED ledger
    /\ answered' = IF q.status \in 200 .. 299
                   THEN answered \cup {Answered(q)} ELSE answered
    /\ Reply(c, q.status, q.result)
    /\ UNCHANGED <<services, tokens, storeVars, requests>>

----------------------------------------------------------------------------
(* The handlers.                                                           *)

Handles(c, route) == request[c].at = "handle" /\ request[c].route = route

Invalid(q) == q.body = "invalid"

(* The password is right, and so is the TOTP code where one is enrolled.   *)
Authenticate(user, password, totp) == password /\ (totp \/ ~Principals[user].totp)

(* Two tokens are signed.                                                  *)
handleLogin(c) ==
    /\ Handles(c, "login")
    /\ IF Invalid(request[c]) THEN Handled(c, 400, 0) /\ UNCHANGED tokens
       ELSE \E user \in Users, password, totp \in BOOLEAN :
            IF Authenticate(user, password, totp)
            THEN /\ tokens' = tokens \cup [user : {user}, type : {"access", "refresh"}]
                 /\ Handled(c, 200, 0)
            ELSE Handled(c, 401, 0) /\ UNCHANGED tokens
    /\ UNCHANGED <<services, storeVars, ledger, answered, requests>>

handleCreateChannel(c) ==
    LET q == request[c] IN
    /\ Handles(c, "createChannel")
    /\ IF Invalid(q) THEN Handled(c, 400, 0) /\ UNCHANGED channels
       ELSE /\ channels' = Append(channels, [id      |-> Len(channels) + 1,
                                             account |-> Principals[q.token.user].account])
            /\ Handled(c, 201, Len(channels'))
    /\ UNCHANGED <<services, tokens, jobs, ledger, answered, requests>>

(* In memory the job names every stage, else those of the matching skills. *)
Precedence(post) ==
    LET matching == SelectSeq(Skills, LAMBDA s : s.tags = {} \/ s.tags \cap PostTags[post] # {})
        named == IF services = "real" THEN matching ELSE Skills
    IN [i \in DOMAIN named |-> named[i].kind]

handleReprocess(c) ==
    LET q == request[c] IN
    /\ Handles(c, "reprocess")
    /\ IF q.id \notin Posts THEN Handled(c, 404, 0) /\ UNCHANGED jobs
       ELSE /\ jobs' = Append(jobs, [post |-> q.id, precedence |-> Precedence(q.id)])
            /\ Handled(c, 202, Len(jobs'))
    /\ UNCHANGED <<services, tokens, channels, ledger, answered, requests>>

(* List: of the account, or of every account for root.                     *)
Listed(user) == LET p == Principals[user] IN
    SelectSeq(channels, LAMBDA ch : p.role = "root" \/ ch.account = p.account)

handleListChannels(c) ==
    /\ Handles(c, "listChannels")
    /\ Handled(c, 200, Len(Listed(request[c].token.user)))
    /\ UNCHANGED <<services, tokens, storeVars, ledger, answered, requests>>

AccountsOf(user) == LET p == Principals[user] IN
    IF p.role = "root" THEN SeedAccounts ELSE SeedAccounts \cap {p.account}

(* In memory a search fails loudly with 503 under a stub embedder.         *)
SearchStatuses(q) == IF Invalid(q) THEN {400} ELSE IF services = "memory" THEN {200, 503} ELSE {200}

(* The handlers that read what never changes, and what they may answer.    *)
ReadStatuses(q) ==
    CASE q.route = "unknown"                                    -> {404}
      [] q.route \in {"getPost", "channelThreads"}              -> {IF q.id \in Posts THEN 200 ELSE 404}
      [] q.route = "search"                                     -> SearchStatuses(q)
      [] q.route \in {"health", "listSkills", "listAccounts"}   -> {200}
      [] OTHER                                                  -> {}

HandleRead(c) ==
    /\ request[c].at = "handle"
    /\ \E status \in ReadStatuses(request[c]) :
        Handled(c, status, IF request[c].route = "listAccounts"
                           THEN Cardinality(AccountsOf(request[c].token.user)) ELSE 0)
    /\ UNCHANGED <<services, tokens, storeVars, ledger, answered, requests>>

(* Time passes: a token is no longer accepted.                             *)
Expire ==
    /\ \E t \in tokens : tokens' = tokens \ {t}
    /\ UNCHANGED <<services, storeVars, ledger, request, answered, requests>>

Serve(c) == \/ Arrive(c) \/ LookUp(c) \/ Store(c)
            \/ handleLogin(c) \/ handleCreateChannel(c) \/ handleReprocess(c)
            \/ handleListChannels(c) \/ HandleRead(c)

GatewayNext == (\E c \in Clients : Serve(c)) \/ Expire

GatewaySpec == GatewayInit /\ [][GatewayNext]_gatewayVars

----------------------------------------------------------------------------
Requests == [at : {"done", "lookup", "handle", "store"}, route : DOMAIN routes,
             token : Tokens \cup {NoToken}, id : Posts \cup {"absent", "none"},
             key : Keys \cup {NoKey}, body : Bodies,
             status : {200, 201, 202, 400, 401, 403, 404, 409, 503},
             result : Nat, ran : BOOLEAN, repeats : BOOLEAN]
GatewayTypeOK ==
    /\ services \in {"memory", "real"} /\ tokens \subseteq Tokens
    /\ channels \in Seq([id : Nat, account : {Principals[u].account : u \in Users} \cup SeedAccounts])
    /\ jobs \in Seq([post : Posts, precedence : Seq({Skills[i].kind : i \in DOMAIN Skills})])
    /\ request \in [Clients -> Requests] /\ requests \in Nat

(* A request whose key was answered with success before it arrived runs no *)
(* handler, whatever other requests are in flight; and an answer that is   *)
(* replayed is one that was given to the same user for the same key and    *)
(* body.                                                                   *)
ReplayAfterAnswer ==
    \A c \in Clients : LET q == request[c] IN
        /\ q.repeats => ~q.ran
        /\ q.at = "done" /\ Keyed(q) /\ ~q.ran /\ q.status \in 200 .. 299 =>
             Answered(q) \in answered
=============================================================================
