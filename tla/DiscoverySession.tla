--------------------------- MODULE DiscoverySession ---------------------------
(***************************************************************************)
(* The session layer of the discovery endpoint                             *)
(* (crates/swarm-network/src/discovery.rs).  Challenge, proof and timeout  *)
(* are those of PeerSession; what differs is how two connections of one    *)
(* pair become one.  Both ends prefer the connection that the smaller      *)
(* transport peer dialled, close the other, and challenge only when        *)
(* exactly one connection is left.                                         *)
(***************************************************************************)
EXTENDS PeerSession

\* dial_peer, add_bootstrap_address and the mDNS handler: no dial while a
\* connection is live or an own dial is pending.
dial_peer(n) ==
    /\ seen[n] = {}
    /\ \A c \in news[n] : dialer[c] # n
    /\ Open(n)

\* The direction both ends prefer: prefer_dialer is local < peer.
Preferred(n, c) == (dialer[c] = n) <=> (n < Peer(n))

ensure_auth_challenge(n, c, known, rest) ==
    IF c \in {authed[n], pending[n]}
    THEN packets' = rest /\ UNCHANGED <<authed, pending>>
    ELSE issue_auth_challenge(n, c, known, rest)

\* A second live connection: the preferred one is kept and the other closed.
Duplicate(n, c) ==
    LET old == active[n] IN
    IF Preferred(n, c) /\ ~Preferred(n, old)
    THEN /\ Unbound(n, old)
         /\ active' = [active EXCEPT ![n] = c]
         /\ wire' = wire \ {old}
         /\ UNCHANGED packets
    ELSE wire' = wire \ {c} /\ UNCHANGED <<active, authed, pending, packets>>

DiscoveryEstablished(n, c) ==
    LET known == seen[n] \cup {c} IN
    /\ c \in news[n] /\ Cardinality(seen[n]) < PerPeer
    /\ news' = [news EXCEPT ![n] = @ \ {c}]
    /\ seen' = [seen EXCEPT ![n] = known]
    /\ IF active[n] # None /\ active[n] \in seen[n]
       THEN Duplicate(n, c)
       ELSE /\ active' = [active EXCEPT ![n] = c]
            /\ UNCHANGED wire
            /\ IF known = {c}
               THEN ensure_auth_challenge(n, c, known, packets)
               ELSE UNCHANGED <<authed, pending, packets>>
    /\ UNCHANGED dialer

\* The connection that carries on when the active one is gone.
survivor(n, known) ==
    IF \E c \in known : Preferred(n, c) THEN {c \in known : Preferred(n, c)} ELSE known

DiscoveryClosed(n, c) ==
    LET known == seen[n] \ {c}
        rest == packets \ Undelivered(n, c)
    IN  /\ c \in seen[n] \ wire
        /\ seen' = [seen EXCEPT ![n] = known]
        /\ IF known = {}
           THEN Forgotten(n) /\ packets' = rest
           ELSE \E next \in IF active[n] \in known THEN {active[n]} ELSE survivor(n, known) :
                    /\ active' = [active EXCEPT ![n] = next]
                    /\ IF Cardinality(known) = 1 /\ next \notin {authed[n], pending[n]}
                       THEN issue_auth_challenge(n, next, known, rest)
                       ELSE Unbound(n, c) /\ packets' = rest
        /\ UNCHANGED <<dialer, wire, news>>

\* The handlers of the two endpoints are the same code twice.
DiscoveryChallenge(n, p) == HelloChallenge(n, p)

DiscoveryProof(n, p) == HelloProof(n, p)

\* A mutated form: the challenge is forgotten, its connection stays open.
ExpiryForgets(n) ==
    /\ pending[n] # None
    /\ pending' = [pending EXCEPT ![n] = None]
    /\ UNCHANGED <<dialer, wire, news, seen, active, authed, packets>>

DiscoveryExpire(n) == expire_stale_auth_challenges(n)

DiscoveryHandled(n) ==
    \/ \E c \in news[n] : Refuse(n, c) \/ DiscoveryEstablished(n, c)
    \/ \E c \in seen[n] : DiscoveryClosed(n, c)
    \/ \E p \in packets : DiscoveryChallenge(n, p) \/ DiscoveryProof(n, p)

DiscoveryNext ==
    \/ \E n \in Nodes : dial_peer(n) \/ DiscoveryHandled(n) \/ DiscoveryExpire(n)
    \/ \E c \in wire : Break(c)
    \/ \E p \in packets : Lose(p)

DiscoveryFairness ==
    \A n \in Nodes : WF_sessionVars(DiscoveryHandled(n)) /\ WF_sessionVars(DiscoveryExpire(n))
=============================================================================
