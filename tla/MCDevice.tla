------------------------------- MODULE MCDevice -------------------------------
(***************************************************************************)
(* What one device does, on small instances: the runtime of a world, the   *)
(* supervisor's session with its Minecraft server, and the discovery       *)
(* endpoint's sessions.  A behaviour runs one of them, the others stay in  *)
(* an initial state.                                                       *)
(***************************************************************************)
EXTENDS WorldRuntime, FabricBridge

VARIABLES
    component,      \* the component this behaviour runs
    dialer, wire, news, seen, active, pending, authed, packets

Session == INSTANCE DiscoverySession WITH Nodes <- {1, 2}, MaxConnections <- 2, PerPeer <- 2

sessionVars == <<dialer, wire, news, seen, active, pending, authed, packets>>
suiteVars == <<component, vars, bridgeVars, sessionVars>>

SuiteInit ==
    /\ component \in {"runtime", "bridge", "session"}
    /\ Init
    /\ component # "runtime" => members = 1
    /\ BridgeInit
    /\ Session!Init

SuiteNext ==
    \/ /\ component = "runtime" /\ Next
       /\ UNCHANGED <<component, bridgeVars, sessionVars>>
    \/ /\ component = "bridge" /\ BridgeNext
       /\ UNCHANGED <<component, vars, sessionVars>>
    \/ /\ component = "session" /\ Session!DiscoveryNext
       /\ UNCHANGED <<component, vars, bridgeVars>>

\* The fairness of the component at work; the others take no step.
Fairness ==
    /\ component = "bridge" => BridgeFairness
    /\ component = "session" => Session!DiscoveryFairness

SuiteSpec == SuiteInit /\ [][SuiteNext]_suiteVars /\ Fairness

-----------------------------------------------------------------------------
(* Every variable of every component has its type. *)
SuiteTypeOK == TypeOK /\ BridgeTypeOK /\ Session!TypeOK

(* Once dials and failures stop, the discovery endpoints are authenticated   *)
(* with each other or not connected (discovery.rs).                          *)
SessionsSettle == component = "session" => Session!SessionsSettle
=============================================================================
