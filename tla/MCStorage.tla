------------------------------ MODULE MCStorage ------------------------------
(* Three units that do not meet: a behaviour is one of the fetcher's, of    *)
(* the asset service's or of the dispatch engine's, as `unit' says from the *)
(* start.                                                                   *)
EXTENDS HttpFetcher, AssetStore, Dispatcher, TLC

CONSTANTS c1, c2, a1, a2, w1, w2, t1, t2, t3, post
VARIABLE unit

Server(ranges, sized, etag, whole, steady, checksum) ==
    [ranges |-> ranges, sized |-> sized, etag |-> etag, whole |-> whole,
     steady |-> steady, checksum |-> checksum]

MCServers == {Server(TRUE, TRUE, FALSE, TRUE, TRUE, FALSE),
              Server(TRUE, FALSE, FALSE, TRUE, TRUE, FALSE),
              Server(FALSE, TRUE, FALSE, TRUE, TRUE, FALSE),
              Server(FALSE, FALSE, FALSE, FALSE, FALSE, TRUE),
              Server(TRUE, TRUE, TRUE, TRUE, FALSE, TRUE),
              Server(TRUE, TRUE, TRUE, FALSE, TRUE, TRUE)}
MCContents == {c1, c2}
MCAccounts == {a1, a2}
MCPutters  == {w1, w2}
MCIds      == {"video"}
MCCalls    == <<t1, t2, t3>>
MCTriggers == {t1, t2, t3}
MCRegistered == post :> <<4, 1, 4>>   \* as registered
MCSymmetry == Permutations(MCPutters)

Init == /\ unit \in {"fetcher", "assets", "dispatch"}
        /\ FetcherInit /\ AssetInit /\ DispatchInit
        /\ unit # "fetcher" => server = CHOOSE s \in Servers : TRUE
        /\ unit # "assets" => ~encrypted

FetcherRuns  == unit = "fetcher" /\ FetcherNext /\ UNCHANGED <<unit, assetVars, dispatchVars>>
AssetsRun    == unit = "assets" /\ AssetNext /\ UNCHANGED <<unit, fetcherVars, dispatchVars>>
DispatchRuns ==
    /\ unit = "dispatch" /\ DispatchNext
    \* The calls are alike: it is enough that they begin in one order.
    /\ \A i \in 2 .. 3 : trigger'[MCCalls[i]].at # "start" => trigger'[MCCalls[i - 1]].at # "start"
    /\ UNCHANGED <<unit, fetcherVars, assetVars>>

Next == FetcherRuns \/ AssetsRun \/ DispatchRuns

Spec == Init /\ [][Next]_<<unit, fetcherVars, assetVars, dispatchVars>>
=============================================================================
