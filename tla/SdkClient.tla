------------------------------ MODULE SdkClient ------------------------------
(***************************************************************************)
(* The Go SDK's client (sdk_go): the calls of several goroutines that      *)
(* share one client, the credential each attempt carries, the retries of a *)
(* GET and the backoff between them, against a network that loses requests *)
(* and answers, a transport that sends a request again by itself, and      *)
(* contexts that are cancelled.                                            *)
(*                                                                         *)
(* A call is a GET, a POST without an Idempotency-Key (Search), a POST     *)
(* that carries one (KEYED: CreateChannel, Reprocess) or the LOGIN, a POST *)
(* without a key whose answer sets the token.  The gateway redirects no    *)
(* request, and so the client follows no redirect here.                    *)
(***************************************************************************)
EXTENDS Integers, Sequences

CONSTANTS
    Calls,        \* the calls, each made once
    MaxRetries,   \* Client.maxRetries
    MaxReplays,   \* bound: idle connections that may fail in one attempt
    Targets       \* base URLs: [http, loopback]

ASSUME SdkAssumption == MaxRetries \in Nat /\ MaxReplays \in Nat

VARIABLES
    client,   \* what New was given: [target, apiKey, insecure]
    token,    \* accessToken is set
    call,     \* by call: [at, method, attempt, replays, ctx, result]
    handled,  \* history: by call, the server's answers: [answer, lost]
    wire      \* history: the credentials that were sent

sdkVars == <<client, token, call, handled, wire>>

Methods   == {"GET", "POST", "KEYED", "LOGIN"}
Answers   == {"ok", "refused", "unavailable"}   \* unavailable: 429 or 503

SdkInit ==
    /\ client \in [target : Targets, apiKey : BOOLEAN, insecure : BOOLEAN]
    /\ token \in BOOLEAN
    /\ call \in [Calls -> [at : {"start"}, method : Methods, attempt : {0}, replays : {0},
                           ctx : {TRUE}, result : {"none"}]]
    /\ handled = [c \in Calls |-> <<>>] /\ wire = {}

----------------------------------------------------------------------------
transportAllowed == client.insecure \/ ~client.target.http \/ client.target.loopback

Credential == IF token THEN "bearer" ELSE IF client.apiKey THEN "key" ELSE "none"

Returns(c, result) == call' = [call EXCEPT ![c].at = "end", ![c].result = result]

(* The loop's bound and its test for another attempt.                      *)
Attempts(c) == IF call[c].method = "GET" THEN MaxRetries + 1 ELSE 1
AgainAnyMethod(c) == call[c].attempt < MaxRetries
Again(c) == call[c].attempt + 1 < Attempts(c)

Retry(c) == call' = [call EXCEPT ![c].at = "backoff", ![c].attempt = @ + 1, ![c].replays = 0]
Fails(c) == IF Again(c) THEN Retry(c) ELSE Returns(c, "transport")

(* applyAuth, then Do: it sends nothing under a context that is dead.      *)
Attempt(c) ==
    /\ call[c].at = "start"
    /\ \/ /\ Credential # "none" /\ ~transportAllowed
          /\ Returns(c, "insecure") /\ UNCHANGED wire
       \/ /\ Credential = "none" \/ transportAllowed
          /\ IF call[c].ctx
             THEN /\ call' = [call EXCEPT ![c].at = "sent"]
                  /\ wire' = wire \cup {Credential}
             ELSE Fails(c) /\ UNCHANGED wire
    /\ UNCHANGED <<client, token, handled>>

(* The server acts on the request.                                         *)
Answer(c) ==
    /\ call[c].at = "sent"
    /\ \E answer \in Answers :
         handled' = [handled EXCEPT ![c] = Append(@, [answer |-> answer, lost |-> FALSE])]
    /\ call' = [call EXCEPT ![c].at = "answered"]
    /\ UNCHANGED <<client, token, wire>>

(* No byte of the answer, if there is one, reaches the client.             *)
Loses(c) ==
    handled' = IF call[c].at = "answered"
               THEN [handled EXCEPT ![c][Len(handled[c])].lost = TRUE]
               ELSE handled

(* httpClient.Do fails: the request or its answer is lost, or the context  *)
(* is cancelled.                                                           *)
TransportError(c) ==
    /\ call[c].at \in {"sent", "answered"}
    /\ Fails(c) /\ Loses(c)
    /\ UNCHANGED <<client, token, wire>>

(* Inside the one Do, net/http's Transport sends a request again when the  *)
(* idle connection it took ends before the answer begins: a GET, and by    *)
(* its Idempotency-Key a POST.                                             *)
Replayable == {"GET", "KEYED"}
Replay(c) ==
    /\ call[c].at \in {"sent", "answered"} /\ call[c].method \in Replayable
    /\ call[c].ctx /\ call[c].replays < MaxReplays
    /\ call' = [call EXCEPT ![c].at = "sent", ![c].replays = @ + 1]
    /\ Loses(c)
    /\ UNCHANGED <<client, token, wire>>

(* The status has arrived: a GET is tried again, or decodeResponse returns *)
(* a 2xx, the failure to read and decode its body, or parseAPIError's      *)
(* error, which needs the status alone.                                    *)
Response(c) ==
    LET answer == handled[c][Len(handled[c])].answer IN
    /\ call[c].at = "answered"
    /\ \/ /\ answer = "unavailable" /\ Again(c)
          /\ Retry(c) /\ UNCHANGED token
       \/ /\ ~(answer = "unavailable" /\ Again(c))
          /\ Returns(c, answer)
          /\ token' = (token \/ (call[c].method = "LOGIN" /\ answer = "ok"))
       \/ /\ answer = "ok"
          /\ Returns(c, "decode") /\ UNCHANGED token
    /\ UNCHANGED <<client, handled, wire>>

(* backoff: the timer or the context, whichever the select draws.          *)
BackoffOver(c) ==
    /\ call[c].at = "backoff"
    /\ call' = [call EXCEPT ![c].at = "start"]
    /\ UNCHANGED <<client, token, handled, wire>>

BackoffCancelled(c) ==
    /\ call[c].at = "backoff" /\ ~call[c].ctx
    /\ Returns(c, "cancelled")
    /\ UNCHANGED <<client, token, handled, wire>>

CancelCall(c) ==
    /\ call[c].at # "end" /\ call[c].ctx
    /\ call' = [call EXCEPT ![c].ctx = FALSE]
    /\ UNCHANGED <<client, token, handled, wire>>

SdkNext == \E c \in Calls :
    \/ Attempt(c) \/ Answer(c) \/ TransportError(c) \/ Replay(c) \/ Response(c)
    \/ BackoffOver(c) \/ BackoffCancelled(c) \/ CancelCall(c)

SdkSpec == SdkInit /\ [][SdkNext]_sdkVars

----------------------------------------------------------------------------
Results == Answers \cup {"decode", "insecure", "transport", "cancelled"}
SdkTypeOK ==
    /\ token \in BOOLEAN
    /\ client \in [target : Targets, apiKey : BOOLEAN, insecure : BOOLEAN]
    /\ \A c \in Calls :
        /\ call[c].at \in {"start", "sent", "answered", "backoff", "end"}
        /\ call[c].at = "end" => call[c].result \in Results
        /\ call[c].method \in Methods
        /\ call[c].attempt \in 0 .. MaxRetries /\ call[c].replays \in 0 .. MaxReplays
    /\ handled \in [Calls -> Seq([answer : Answers, lost : BOOLEAN])]
    /\ wire \subseteq {"bearer", "key", "none"}

(* The server acts at most once on a Login and on a POST without a key.    *)
(* On the other requests it acts again only after an answer the client did *)
(* not get or, of a GET, one that asks for another try: an answer the      *)
(* client has, a 2xx it cannot decode among them, is never asked for       *)
(* again.                                                                  *)
ActsOnce(k, h) ==
    /\ k.method \in {"POST", "LOGIN"} => Len(h) <= 1
    /\ \A i \in 1 .. Len(h) - 1 : h[i].lost \/ (k.method = "GET" /\ h[i].answer = "unavailable")

(* What a call returns is true: the server's answer is its last one and    *)
(* has arrived, a decode failure is that of a 2xx, and a GET that nobody   *)
(* cancelled reports a transient failure only after all its attempts.      *)
TellsTruth(k, h) == k.at = "end" =>
    /\ k.result \in Answers => h # <<>> /\ h[Len(h)] = [answer |-> k.result, lost |-> FALSE]
    /\ k.result = "decode"  => h # <<>> /\ h[Len(h)] = [answer |-> "ok", lost |-> FALSE]
    /\ k.method = "GET" /\ k.ctx /\ k.result \in {"unavailable", "transport"} =>
         k.attempt = MaxRetries

(* However requests and answers are lost, calls cancelled and requests     *)
(* sent again by do and by the transport: ActsOnce and TellsTruth of every *)
(* call; and no credential goes out in the clear, also when a Login sets   *)
(* the token between two attempts of another call.                         *)
CallsAccounted ==
    /\ \A c \in Calls : ActsOnce(call[c], handled[c]) /\ TellsTruth(call[c], handled[c])
    /\ wire \subseteq {"none"} \/ transportAllowed
=============================================================================
