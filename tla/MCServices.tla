------------------------------ MODULE MCServices -----------------------------
(* Five units that share no state: an event stream, the completions of the  *)
(* download services, metering, thread reading and retrieval.  `unit' says  *)
(* from the start which one runs.                                           *)
EXTENDS EventStream, Completions, Metering, Threads, Retrieval, TLC

CONSTANTS j1, j2, o1, o2, m1, m2, v1, v2
VARIABLE unit

MCReports == {[name |-> "done", status |-> "finished", number |-> 50],
              [name |-> "", status |-> "error", number |-> 15000],
              [name |-> "downloading", status |-> "finished", number |-> 9900]}

MCWants == {-1, 1, 2}
MCRates == m1 :> [included |-> 1, block |-> 2, cents |-> 3] @@ m2 :> [included |-> 0, block |-> 0, cents |-> 1]

MCText == <<<<"#", "a">>, <<"a", "#", "b", " ", "#", "b", "#", "a">>, <<"#", "#", "a", " ", "#">>>>
MCMessages ==
    {[i \in PostIds |-> [id |-> i, parent |-> parent[i], author |-> author[i], ts |-> ts[i]]] :
        parent \in {<<0, 1, 1>>, <<0, 0, 1>>, <<1, 1, 2>>, <<2, 3, 1>>},
        author \in {<<"human", "human", "human">>, <<"human", "bot", "human">>, <<"bot", "human", "bot">>},
        ts \in {<<1, 1, 2>>, <<2, 1, 1>>, <<1, 1, 1>>}}

MCLanguage == "engine.go" :> "go" @@ "guide.md" :> "markdown" @@ "engine_test.go" :> "test"
MCVersions == "engine.go" :> <<<<1, 2, 3>>, <<1, Prose, 2>>>> @@
              "guide.md"  :> <<<<Prose, 2, Blank, 1, Blank, Prose>>>> @@
              "engine_test.go" :> <<<<1>>>>

MCHash(id) == (CASE id[1] = "engine.go" -> 1 [] id[1] = "guide.md" -> 2 [] OTHER -> 3) + 10 * id[2] + 100 * id[3]

Units == {"stream", "completions", "metering", "threads", "retrieval"}

(* Units that do not run stay in one of their initial states.               *)
Init == /\ unit \in Units
        /\ StreamInit /\ CompletionsInit /\ MeteringInit /\ ThreadsInit /\ RetrievalInit
        /\ unit # "stream" => ~real
        /\ unit # "completions" => adapter = "boba"
        /\ unit # "threads" => posted = CHOOSE w \in Messages : TRUE

NotStream      == UNCHANGED streamVars
NotCompletions == UNCHANGED completionVars
NotMetering    == UNCHANGED meteringVars
NotThreads     == UNCHANGED threadVars
NotRetrieval   == UNCHANGED retrievalVars

StreamRuns ==
    /\ unit = "stream" /\ StreamNext
    /\ NotCompletions /\ NotMetering /\ NotThreads /\ NotRetrieval
CompletionsRun ==
    /\ unit = "completions" /\ CompletionsNext
    /\ NotStream /\ NotMetering /\ NotThreads /\ NotRetrieval
MeteringRuns ==
    /\ unit = "metering" /\ MeteringNext
    /\ NotStream /\ NotCompletions /\ NotThreads /\ NotRetrieval
ThreadsRun ==
    /\ unit = "threads" /\ ThreadsNext
    /\ NotStream /\ NotCompletions /\ NotMetering /\ NotRetrieval
RetrievalRuns ==
    /\ unit = "retrieval" /\ RetrievalNext
    /\ NotStream /\ NotCompletions /\ NotMetering /\ NotThreads

Next == (StreamRuns \/ CompletionsRun \/ MeteringRuns \/ ThreadsRun \/ RetrievalRuns)
        /\ UNCHANGED unit

vars == <<unit, streamVars, completionVars, meteringVars, threadVars, retrievalVars>>

Spec == Init /\ [][Next]_vars /\ StreamFairness /\ CompletionsFairness
=============================================================================
