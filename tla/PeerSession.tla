----------------------------- MODULE PeerSession -----------------------------
(***************************************************************************)
(* The connection-bound authentication of swarm-network: two nodes, the    *)
(* physical connections that either of them opens to the other, and the    *)
(* challenge and proof each demands of its peer before it hands an         *)
(* application request to the daemon (crates/swarm-network/src/node.rs).   *)
(*                                                                         *)
(* The transport (libp2p) is external.  A connection is opened by a dial   *)
(* and each end learns of it, and of its close, by an event of its own, so *)
(* the two ends may learn of two connections in opposite orders.  A        *)
(* request goes to a peer, not to a connection: the transport picks one of *)
(* the connections the sender knows.                                       *)
(***************************************************************************)
EXTENDS Naturals, Sequences, FiniteSets

CONSTANTS
    Nodes,           \* the two transport peers, as numbers: libp2p orders them
    MaxConnections,  \* bound: connections opened in one behaviour
    PerPeer,         \* MAX_ESTABLISHED_CONNECTIONS_PER_PEER
    None             \* no connection, no challenge

VARIABLES
    dialer,    \* the node that opened each connection; a connection is an index
    wire,      \* the connections that are physically open
    news,      \* per node: connections whose ConnectionEstablished is not polled yet
    seen,      \* per node: established_connections of the peer; its size is connection_counts
    active,    \* per node: active_connections
    pending,   \* per node: the connection of the peer's entry in pending_challenges
    authed,    \* per node: the connection in authenticated
    packets    \* challenges and proofs under way; `fresh` until their challenge is redrawn

sessionVars == <<dialer, wire, news, seen, active, pending, authed, packets>>

Connections == 1 .. MaxConnections

\* What the constants stand for: two nodes, and None is no connection.
SessionConstants ==
    /\ \E a, b \in Nodes : a # b /\ Nodes = {a, b}
    /\ MaxConnections \in Nat /\ None \notin Connections

ASSUME SessionAssumption == SessionConstants

Peer(n) == CHOOSE m \in Nodes : m # n

TypeOK ==
    /\ dialer \in Seq(Nodes) /\ Len(dialer) <= MaxConnections
    /\ wire \subseteq DOMAIN dialer
    /\ news \in [Nodes -> SUBSET DOMAIN dialer]
    /\ seen \in [Nodes -> SUBSET DOMAIN dialer]
    /\ active \in [Nodes -> Connections \cup {None}]
    /\ pending \in [Nodes -> Connections \cup {None}]
    /\ authed \in [Nodes -> Connections \cup {None}]
    /\ packets \subseteq [to : Nodes, on : Connections, kind : {"challenge", "proof"}, fresh : BOOLEAN]

Init ==
    /\ dialer = <<>>
    /\ wire = {}
    /\ news = [n \in Nodes |-> {}]
    /\ seen = [n \in Nodes |-> {}]
    /\ active = [n \in Nodes |-> None]
    /\ pending = [n \in Nodes |-> None]
    /\ authed = [n \in Nodes |-> None]
    /\ packets = {}

-----------------------------------------------------------------------------
(* The transport. *)

\* A connection to the peer opens: the dialer and the listener will both be told.
Open(n) ==
    /\ Len(dialer) < MaxConnections
    /\ dialer' = Append(dialer, n)
    /\ wire' = wire \cup {Len(dialer) + 1}
    /\ news' = [m \in Nodes |-> news[m] \cup {Len(dialer) + 1}]
    /\ UNCHANGED <<seen, active, pending, authed, packets>>

\* dial, dial_known_peer and the mDNS handler: none of them is refused because
\* the other end is dialling at the same time.
dial(n) == Open(n)

\* primary_connection_limits: the transport itself refuses one connection too many.
Refuse(n, c) ==
    /\ c \in news[n] /\ Cardinality(seen[n]) >= PerPeer
    /\ wire' = wire \ {c}
    /\ news' = [news EXCEPT ![n] = @ \ {c}]
    /\ UNCHANGED <<dialer, seen, active, pending, authed, packets>>

\* A connection fails by itself.
Break(c) ==
    /\ c \in wire
    /\ wire' = wire \ {c}
    /\ UNCHANGED <<dialer, news, seen, active, pending, authed, packets>>

\* A request is answered RATE_LIMITED by admit_request, or times out unanswered.
Lose(p) ==
    /\ p \in packets
    /\ packets' = packets \ {p}
    /\ UNCHANGED <<dialer, wire, news, seen, active, pending, authed>>

\* send_request: the peer is given, the transport chooses among the connections.
Send(n, known, kind, fresh, rest) ==
    \E on \in known : packets' = rest \cup {[to |-> Peer(n), on |-> on, kind |-> kind, fresh |-> fresh]}

\* The challenges of n and the proofs that answer them.
OfChallengeBy(n, p) == IF p.kind = "challenge" THEN p.to = Peer(n) ELSE p.to = n

\* Every challenge is drawn at random: what belongs to an older one is stale.
Redrawn(n, rest) == {IF OfChallengeBy(n, p) THEN [p EXCEPT !.fresh = FALSE] ELSE p : p \in rest}

-----------------------------------------------------------------------------
(* The node. *)

\* issue_auth_challenge: a fresh challenge, bound to one connection, replaces
\* what was known of the peer.
issue_auth_challenge(n, c, known, rest) ==
    /\ authed' = [authed EXCEPT ![n] = None]
    /\ pending' = [pending EXCEPT ![n] = c]
    /\ Send(n, known, "challenge", TRUE, Redrawn(n, rest))

\* A mutated form: the newest connection takes the place of the old one, which
\* is not waited for, and the peer stays authenticated meanwhile.
ReplacedInPlace(n, c) ==
    /\ c \in news[n] /\ Cardinality(seen[n]) < PerPeer
    /\ news' = [news EXCEPT ![n] = @ \ {c}]
    /\ seen' = [seen EXCEPT ![n] = {c}]
    /\ active' = [active EXCEPT ![n] = c]
    /\ pending' = [pending EXCEPT ![n] = c]
    /\ wire' = wire \ (seen[n] \ {c})
    /\ Send(n, {c}, "challenge", TRUE, Redrawn(n, packets))
    /\ UNCHANGED <<dialer, authed>>

\* The newest connection is the canonical one: the one it replaces is closed
\* first, and its challenge waits for that close.
ConnectionEstablished(n, c) ==
    LET previous == active[n]
        known == seen[n] \cup {c}
        defer_challenge == previous # None /\ previous \in seen[n] /\ Cardinality(known) > 1
    IN  /\ c \in news[n] /\ Cardinality(seen[n]) < PerPeer
        /\ news' = [news EXCEPT ![n] = @ \ {c}]
        /\ seen' = [seen EXCEPT ![n] = known]
        /\ active' = [active EXCEPT ![n] = c]
        /\ IF defer_challenge
           THEN /\ wire' = wire \ {previous}
                /\ authed' = [authed EXCEPT ![n] = None]
                /\ pending' = [pending EXCEPT ![n] = None]
                /\ UNCHANGED packets
           ELSE issue_auth_challenge(n, c, known, packets) /\ UNCHANGED wire
        /\ UNCHANGED dialer

\* What a close leaves of the entries bound to the closed connection.
Unbound(n, c) ==
    /\ authed' = [authed EXCEPT ![n] = IF @ = c THEN None ELSE @]
    /\ pending' = [pending EXCEPT ![n] = IF @ = c THEN None ELSE @]

Forgotten(n) ==
    /\ active' = [active EXCEPT ![n] = None]
    /\ authed' = [authed EXCEPT ![n] = None]
    /\ pending' = [pending EXCEPT ![n] = None]

Undelivered(n, c) == {p \in packets : p.to = n /\ p.on = c}

ConnectionClosed(n, c) ==
    LET known == seen[n] \ {c}
        rest == packets \ Undelivered(n, c)
    IN  /\ c \in seen[n] \ wire
        /\ seen' = [seen EXCEPT ![n] = known]
        /\ IF known = {}
           THEN Forgotten(n) /\ packets' = rest
           ELSE IF active[n] \notin {None, c}
           THEN issue_auth_challenge(n, active[n], known, rest) /\ UNCHANGED active
           ELSE Unbound(n, c) /\ packets' = rest /\ UNCHANGED active
        /\ UNCHANGED <<dialer, wire, news>>

\* A challenge is answered only on the canonical connection, when it is the
\* only one; elsewhere the answer is AUTH_CONNECTION_RETRY, which nobody handles.
HelloChallenge(n, p) ==
    /\ p \in packets /\ p.to = n /\ p.kind = "challenge" /\ p.on \in seen[n]
    /\ IF active[n] = p.on /\ Cardinality(seen[n]) = 1
       THEN Send(n, seen[n], "proof", p.fresh, packets \ {p})
       ELSE packets' = packets \ {p}
    /\ UNCHANGED <<dialer, wire, news, seen, active, pending, authed>>

\* The pending challenge is spent by any proof, the right one or not.
proof_accepted(n, p) ==
    /\ pending[n] = p.on /\ active[n] = p.on /\ Cardinality(seen[n]) = 1
    /\ p.fresh

HelloProof(n, p) ==
    /\ p \in packets /\ p.to = n /\ p.kind = "proof" /\ p.on \in seen[n]
    /\ packets' = packets \ {p}
    /\ pending' = [pending EXCEPT ![n] = None]
    /\ authed' = [authed EXCEPT ![n] = IF proof_accepted(n, p) THEN p.on ELSE @]
    /\ UNCHANGED <<dialer, wire, news, seen, active>>

\* A challenge nobody answers in AUTH_CHALLENGE_TIMEOUT closes its connection.
expire_stale_auth_challenges(n) ==
    /\ pending[n] # None
    /\ wire' = wire \ {pending[n]}
    /\ pending' = [pending EXCEPT ![n] = None]
    /\ authed' = [authed EXCEPT ![n] = None]
    /\ active' = [active EXCEPT ![n] = IF @ = pending[n] THEN None ELSE @]
    /\ UNCHANGED <<dialer, news, seen, packets>>

Handled(n) ==
    \/ \E c \in news[n] : Refuse(n, c) \/ ConnectionEstablished(n, c)
    \/ \E c \in seen[n] : ConnectionClosed(n, c)
    \/ \E p \in packets : HelloChallenge(n, p) \/ HelloProof(n, p)

Next ==
    \/ \E n \in Nodes : dial(n) \/ Handled(n) \/ expire_stale_auth_challenges(n)
    \/ \E c \in wire : Break(c)
    \/ \E p \in packets : Lose(p)

Spec == Init /\ [][Next]_sessionVars

\* A node polls its events, and the timeout is checked at every poll.
Fairness ==
    \A n \in Nodes : WF_sessionVars(Handled(n)) /\ WF_sessionVars(expire_stale_auth_challenges(n))

FairSpec == Spec /\ Fairness

-----------------------------------------------------------------------------
\* The two ends never hold each other authenticated on different connections:
\* requests that one admits never come from a session the other has replaced.
\* And a peer is authenticated on its canonical connection only, which its node
\* still counts as established.
SessionsAgree ==
    \A n \in Nodes : authed[n] # None =>
        /\ authed[Peer(n)] # None => authed[n] = authed[Peer(n)]
        /\ active[n] = authed[n] /\ authed[n] \in seen[n]

\* No session stays half open: once dials and failures stop, both ends are
\* authenticated on one connection or no connection is left.
SessionsSettle ==
    <>[](\/ \A n \in Nodes : authed[n] # None
         \/ \A n \in Nodes : seen[n] = {})
=============================================================================
