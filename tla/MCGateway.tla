------------------------------ MODULE MCGateway ------------------------------
(* Three units about the HTTP API that share no state: the gateway, the     *)
(* user service's sessions and the SDK's client.  `unit' says from the      *)
(* start which one runs.                                                    *)
EXTENDS Gateway, Sessions, SdkClient, TLC

CONSTANTS r1, r2, s1, s2, g1, g2
VARIABLE unit

MCClients == {r1, r2}
MCCallers == {s1, s2}
MCCalls   == {g1, g2}
MCTargets == {[http |-> TRUE, loopback |-> FALSE], [http |-> TRUE, loopback |-> TRUE]}
MCSymmetry == Permutations(MCClients) \cup Permutations(MCCallers)

(* Units that do not run stay in one of their initial states.               *)
Init == /\ unit \in {"gateway", "sessions", "sdk"}
        /\ GatewayInit /\ SessionsInit /\ SdkInit
        /\ unit # "gateway" => services = "real"
        \* One of the calls is the Login: no other changes what a call reads.
        /\ call[g1].method = "LOGIN"
        /\ unit # "sdk" => /\ ~token /\ call[g2].method = "GET"
                           /\ client = [target |-> CHOOSE t \in Targets : TRUE,
                                        apiKey |-> FALSE, insecure |-> FALSE]

GatewayRuns  == unit = "gateway" /\ GatewayNext /\ UNCHANGED <<unit, sessionVars, sdkVars>>
SessionsRun  == unit = "sessions" /\ SessionsNext /\ UNCHANGED <<unit, gatewayVars, sdkVars>>
SdkRuns      == unit = "sdk" /\ SdkNext /\ UNCHANGED <<unit, gatewayVars, sessionVars>>

Next == GatewayRuns \/ SessionsRun \/ SdkRuns

Spec == Init /\ [][Next]_<<unit, gatewayVars, sessionVars, sdkVars>>
=============================================================================
