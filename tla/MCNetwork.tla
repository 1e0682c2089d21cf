------------------------------ MODULE MCNetwork ------------------------------
(***************************************************************************)
(* What peers learn of each other, on small instances: two nodes that      *)
(* authenticate each other while their connections come and go, a search   *)
(* for a world whose authority is being replaced, or whose membership is   *)
(* being changed, a host that asks whether another peer could take over,   *)
(* and the repository's own simulation of a world under failures.          *)
(***************************************************************************)
EXTENDS PeerSession, HostReadiness, FailureSimulator, WorldDiscovery

CONSTANTS Alice, Bob, Charlie, Dana

VARIABLE component

suiteVars == <<component, sessionVars, discoveryVars, readinessVars, simVars>>

\* The search of the configuration sees a recovery; this one sees a peer join.
Joining == INSTANCE WorldDiscovery WITH
    Joiners <- {Dana}, Recoverers <- {}, MaxGeneration <- 0, MaxRevision <- 0, MaxRefresh <- 2

\* The host's observation of the eligible member, and that member's own.
MCWatch == {<<Alice, Bob>>, <<Bob, Charlie>>}

SuiteInit ==
    /\ component \in {"session", "recovering", "joining", "readiness", "simulation"}
    /\ SimInit
    /\ ReadinessInit
    /\ Init
    /\ IF component = "joining" THEN Joining!DiscoveryInit ELSE DiscoveryInit

SuiteNext ==
    \/ /\ component = "session" /\ Next
       /\ UNCHANGED <<component, discoveryVars, readinessVars, simVars>>
    \/ /\ component = "recovering" /\ DiscoveryNext
       /\ UNCHANGED <<component, sessionVars, readinessVars, simVars>>
    \/ /\ component = "joining" /\ Joining!DiscoveryNext
       /\ UNCHANGED <<component, sessionVars, readinessVars, simVars>>
    \/ /\ component = "readiness" /\ ReadinessNext
       /\ UNCHANGED <<component, sessionVars, discoveryVars, simVars>>
    \/ /\ component = "simulation" /\ SimNext
       /\ UNCHANGED <<component, sessionVars, discoveryVars, readinessVars>>

SuiteSpec == SuiteInit /\ [][SuiteNext]_suiteVars

-----------------------------------------------------------------------------
\* Every component's state has its type (node.rs, discovery.rs), and a search
\* holds votes only for the candidate it is proving.
SuiteTypeOK ==
    /\ component = "session" => TypeOK
    /\ component = "recovering" => DiscoveryTypeOK
    /\ component = "joining" => Joining!DiscoveryTypeOK
    /\ search.votes # {} => search.phase = "prove"
    /\ component = "readiness" => ReadinessTypeOK
    /\ component = "simulation" => SimTypeOK
=============================================================================
