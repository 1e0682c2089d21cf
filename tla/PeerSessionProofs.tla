-------------------------- MODULE PeerSessionProofs --------------------------
(***************************************************************************)
(* The two ends of a peer connection agree on the session they hold, for   *)
(* any number of connections, opened, broken and replaced in any order.    *)
(* Then what peers learn from each other over it: whom the simulator lets  *)
(* recover and host, that a committed snapshot is held by the peers that   *)
(* acknowledged it, and that a search for a world ends at its newest state.*)
(***************************************************************************)
EXTENDS PeerSession, HostReadiness, FailureSimulator, ReplicaPush, WorldDiscovery,
        FiniteSetTheorems, TLAPS

(* A step that does not name the SMT solver is left to Zenon. *)
USE ZenonT(20)

-----------------------------------------------------------------------------
(* The inductive invariant                                                 *)

(* A proof that still answers the challenge its receiver waits on. *)
Answers(p, n) == p \in packets /\ p.to = n /\ p.kind = "proof" /\ p.fresh /\ pending[n] = p.on

(* What a node waits on, and what it accepted, is bound to its canonical   *)
(* connection.                                                             *)
Bound ==
    \A n \in Nodes :
        /\ pending[n] # None => active[n] = pending[n]
        /\ authed[n] # None => active[n] = authed[n] /\ authed[n] \in seen[n]

(* A proof is sent on the canonical connection of its sender, so one that  *)
(* will be accepted belongs to the session its sender holds, or to the one *)
(* its sender is about to accept.                                          *)
ProofsAgree ==
    \A n \in Nodes, p \in packets : Answers(p, n) =>
        /\ authed[Peer(n)] # None => authed[Peer(n)] = p.on
        /\ \A q \in packets : Answers(q, Peer(n)) => q.on = p.on

SessionInv == TypeOK /\ Bound /\ ProofsAgree /\ SessionsAgree

-----------------------------------------------------------------------------
(* Lemmas                                                                  *)

LEMMA PeerOfPeer ==
    ASSUME SessionConstants, NEW n \in Nodes
    PROVE  /\ Peer(n) \in Nodes /\ Peer(n) # n /\ Peer(Peer(n)) = n
           /\ \A m \in Nodes : m = n \/ m = Peer(n)
<1>1. PICK a, b \in Nodes : a # b /\ Nodes = {a, b}
  BY DEF SessionConstants
<1>2. \A m \in Nodes : Peer(m) \in Nodes /\ Peer(m) # m
  BY <1>1 DEF Peer
<1>. QED
  BY <1>1, <1>2

(* A node that counts one connection and knows its canonical one has no    *)
(* other to send on.                                                       *)
LEMMA OnlyConnection ==
    ASSUME NEW S, Cardinality(S) = 1, IsFiniteSet(S), NEW c \in S, NEW d \in S
    PROVE  c = d
  BY SMTT(30), FS_Singleton

LEMMA SeenFinite ==
    ASSUME SessionConstants, TypeOK, NEW n \in Nodes
    PROVE  IsFiniteSet(seen[n])
<1>1. DOMAIN dialer = 1..Len(dialer) /\ Len(dialer) \in Nat
  BY SMTT(30) DEF TypeOK
<1>2. IsFiniteSet(DOMAIN dialer)
  BY SMTT(30), <1>1, FS_Interval
<1>. QED
  BY <1>2, FS_Subset DEF TypeOK

LEMMA ConnectionTypes ==
    ASSUME SessionConstants, TypeOK
    PROVE  DOMAIN dialer \subseteq Connections /\ None \notin DOMAIN dialer
  BY SMTT(30) DEF TypeOK, Connections, SessionConstants

(* A fresh challenge of n leaves no older proof that n would accept, and   *)
(* the packets of its peer's challenges as they were.                      *)
LEMMA RedrawnPackets ==
    ASSUME SessionConstants, NEW n \in Nodes,
           NEW rest, rest \subseteq [to : Nodes, on : Connections, kind : {"challenge", "proof"}, fresh : BOOLEAN]
    PROVE  /\ Redrawn(n, rest) \subseteq [to : Nodes, on : Connections,
                                          kind : {"challenge", "proof"}, fresh : BOOLEAN]
           /\ \A p \in Redrawn(n, rest) : p.kind = "proof" /\ p.fresh => p \in rest /\ p.to # n
<1>1. ASSUME NEW q \in rest
      PROVE  LET p == IF OfChallengeBy(n, q) THEN [q EXCEPT !.fresh = FALSE] ELSE q
             IN  /\ p \in [to : Nodes, on : Connections, kind : {"challenge", "proof"}, fresh : BOOLEAN]
                 /\ p.kind = "proof" /\ p.fresh => p \in rest /\ p.to # n
  <2>1. CASE OfChallengeBy(n, q)
    <3>1. [q EXCEPT !.fresh = FALSE] \in [to : Nodes, on : Connections,
                                          kind : {"challenge", "proof"}, fresh : BOOLEAN]
          /\ [q EXCEPT !.fresh = FALSE].fresh = FALSE
      OBVIOUS
    <3>. QED
      BY <2>1, <3>1
  <2>2. CASE ~OfChallengeBy(n, q)
    BY <2>2 DEF OfChallengeBy
  <2>. QED
    BY <2>1, <2>2
<1>. QED
  BY <1>1 DEF Redrawn

(* No proof is sent and none is accepted: what was agreed stays agreed. *)
LEMMA FadingKeeps ==
    ASSUME SessionConstants, SessionInv, TypeOK', Bound',
           \A m \in Nodes : authed'[m] \in {None, authed[m]},
           \A p \in packets' : p.kind = "proof" /\ p.fresh =>
               p \in packets /\ pending'[p.to] \in {None, pending[p.to]}
    PROVE  SessionInv'
<1>1. ASSUME NEW n \in Nodes, NEW p \in packets', Answers(p, n)'
      PROVE  p \in packets /\ Answers(p, n)
  <2>1. p.on # None
    BY DEF TypeOK, SessionConstants
  <2>. QED
    BY <1>1, <2>1 DEF Answers
<1>2. ProofsAgree'
  <2>. SUFFICES ASSUME NEW n \in Nodes, NEW p \in packets', Answers(p, n)'
                PROVE  /\ authed'[Peer(n)] # None => authed'[Peer(n)] = p.on
                       /\ \A q \in packets' : Answers(q, Peer(n))' => q.on = p.on
    BY DEF ProofsAgree
  <2>. QED
    BY SMTT(30), <1>1, PeerOfPeer DEF SessionInv, ProofsAgree
<1>3. SessionsAgree'
  BY PeerOfPeer DEF SessionInv, SessionsAgree, Bound
<1>. QED
  BY <1>2, <1>3 DEF SessionInv

-----------------------------------------------------------------------------
(* The transport                                                           *)

LEMMA OpenKeeps ==
    ASSUME SessionConstants, SessionInv, NEW n \in Nodes, dial(n)
    PROVE  SessionInv'
<1>1. TypeOK
  BY DEF SessionInv
<1>2. /\ dialer' \in Seq(Nodes) /\ Len(dialer') = Len(dialer) + 1 /\ Len(dialer') <= MaxConnections
      /\ DOMAIN dialer' = DOMAIN dialer \cup {Len(dialer) + 1}
  BY SMTT(30), <1>1 DEF dial, Open, TypeOK, SessionConstants
<1>3. TypeOK'
  BY <1>1, <1>2 DEF dial, Open, TypeOK
<1>4. Bound'
  BY DEF dial, Open, SessionInv, Bound
<1>. QED
  BY <1>3, <1>4, FadingKeeps DEF dial, Open

LEMMA TransportKeeps ==
    ASSUME SessionConstants, SessionInv,
           \/ \E n \in Nodes, c \in Connections : Refuse(n, c)
           \/ \E c \in wire : Break(c)
           \/ \E p \in packets : Lose(p)
           \/ UNCHANGED sessionVars
    PROVE  SessionInv'
<1>1. /\ UNCHANGED <<dialer, seen, active, pending, authed>> /\ packets' \subseteq packets
      /\ wire' \subseteq wire
      /\ news' = news \/ \E n \in Nodes, c \in Connections : news' = [news EXCEPT ![n] = @ \ {c}]
  BY DEF Refuse, Break, Lose, sessionVars
<1>2. news' \in [Nodes -> SUBSET DOMAIN dialer]
  BY <1>1 DEF SessionInv, TypeOK
<1>3. TypeOK'
  BY <1>1, <1>2 DEF SessionInv, TypeOK
<1>4. Bound'
  BY <1>1 DEF SessionInv, Bound
<1>. QED
  BY <1>1, <1>3, <1>4, FadingKeeps

-----------------------------------------------------------------------------
(* The node                                                                *)

(* A challenge is bound to the canonical connection. *)
LEMMA IssueKeeps ==
    ASSUME SessionConstants, SessionInv, NEW n \in Nodes, NEW c, NEW known, NEW rest,
           c \in Connections, known \subseteq DOMAIN dialer, rest \subseteq packets,
           seen' = [seen EXCEPT ![n] = known], active' \in [Nodes -> Connections \cup {None}],
           active'[n] = c, \A m \in Nodes : m # n => active'[m] = active[m],
           news' \in [Nodes -> SUBSET DOMAIN dialer], UNCHANGED <<dialer, wire>>,
           issue_auth_challenge(n, c, known, rest)
    PROVE  SessionInv'
<1>0. TypeOK /\ Bound
  BY DEF SessionInv
<1>1. known \subseteq Connections
  BY <1>0, ConnectionTypes
<1>2. PICK on \in known : packets' = Redrawn(n, rest) \cup
                             {[to |-> Peer(n), on |-> on, kind |-> "challenge", fresh |-> TRUE]}
  BY DEF issue_auth_challenge, Send
<1>3. rest \subseteq [to : Nodes, on : Connections, kind : {"challenge", "proof"}, fresh : BOOLEAN]
  BY <1>0 DEF TypeOK
<1>4. /\ packets' \subseteq [to : Nodes, on : Connections, kind : {"challenge", "proof"}, fresh : BOOLEAN]
      /\ \A p \in packets' : p.kind = "proof" /\ p.fresh => p \in packets /\ p.to # n
  <2>1. [to |-> Peer(n), on |-> on, kind |-> "challenge", fresh |-> TRUE]
          \in [to : Nodes, on : Connections, kind : {"challenge", "proof"}, fresh : BOOLEAN]
    BY <1>1, PeerOfPeer
  <2>2. /\ Redrawn(n, rest) \subseteq [to : Nodes, on : Connections,
                                        kind : {"challenge", "proof"}, fresh : BOOLEAN]
        /\ \A p \in Redrawn(n, rest) : p.kind = "proof" /\ p.fresh => p \in rest /\ p.to # n
    BY <1>3, RedrawnPackets
  <2>. QED
    BY <1>2, <2>1, <2>2
<1>5. /\ pending' = [pending EXCEPT ![n] = c] /\ authed' = [authed EXCEPT ![n] = None]
  BY DEF issue_auth_challenge
<1>6. TypeOK'
  BY <1>0, <1>1, <1>4, <1>5 DEF TypeOK
<1>7. Bound'
  BY <1>0, <1>5 DEF Bound, TypeOK
<1>8. \A p \in packets' : p.kind = "proof" /\ p.fresh =>
               p \in packets /\ pending'[p.to] \in {None, pending[p.to]}
  BY <1>0, <1>4, <1>5 DEF TypeOK
<1>9. \A m \in Nodes : authed'[m] \in {None, authed[m]}
  BY <1>0, <1>5 DEF TypeOK
<1>. QED
  BY <1>6, <1>7, <1>8, <1>9, FadingKeeps

LEMMA ConnectionEstablishedKeeps ==
    ASSUME SessionConstants, SessionInv, NEW n \in Nodes, NEW c, ConnectionEstablished(n, c)
    PROVE  SessionInv'
<1> DEFINE known == seen[n] \cup {c}
<1>0. TypeOK /\ Bound
  BY DEF SessionInv
<1>1. c \in DOMAIN dialer /\ c \in Connections /\ known \subseteq DOMAIN dialer /\ c # None
  BY <1>0, ConnectionTypes DEF ConnectionEstablished, TypeOK
<1>2. /\ news' = [news EXCEPT ![n] = @ \ {c}] /\ seen' = [seen EXCEPT ![n] = known]
      /\ active' = [active EXCEPT ![n] = c] /\ UNCHANGED dialer
  BY DEF ConnectionEstablished
<1>3. news' \in [Nodes -> SUBSET DOMAIN dialer] /\ active' \in [Nodes -> Connections \cup {None}]
      /\ active'[n] = c /\ \A m \in Nodes : m # n => active'[m] = active[m]
  BY <1>0, <1>1, <1>2 DEF TypeOK
<1>4. CASE issue_auth_challenge(n, c, known, packets) /\ UNCHANGED wire
  BY <1>1, <1>2, <1>3, <1>4, IssueKeeps
<1>5. CASE /\ wire' = wire \ {active[n]} /\ authed' = [authed EXCEPT ![n] = None]
           /\ pending' = [pending EXCEPT ![n] = None] /\ UNCHANGED packets
  <2>1. TypeOK'
    BY <1>0, <1>1, <1>2, <1>3, <1>5 DEF TypeOK
  <2>2. Bound'
    BY <1>0, <1>2, <1>3, <1>5 DEF Bound, TypeOK
  <2>3. \A m \in Nodes : authed'[m] \in {None, authed[m]} /\ pending'[m] \in {None, pending[m]}
    BY <1>0, <1>5 DEF TypeOK
  <2>. QED
    BY <1>0, <1>5, <2>1, <2>2, <2>3, FadingKeeps DEF TypeOK
<1>. QED
  BY <1>4, <1>5 DEF ConnectionEstablished

LEMMA ConnectionClosedKeeps ==
    ASSUME SessionConstants, SessionInv, NEW n \in Nodes, NEW c, ConnectionClosed(n, c)
    PROVE  SessionInv'
<1> DEFINE known == seen[n] \ {c}
           rest == packets \ Undelivered(n, c)
<1>0. TypeOK /\ Bound
  BY DEF SessionInv
<1>1. /\ seen' = [seen EXCEPT ![n] = known] /\ UNCHANGED <<dialer, wire, news>>
      /\ rest \subseteq packets /\ known \subseteq DOMAIN dialer
  BY <1>0 DEF ConnectionClosed, TypeOK
<1>2. CASE /\ active[n] \notin {None, c}
           /\ issue_auth_challenge(n, active[n], known, rest) /\ UNCHANGED active
  <2>. HIDE DEF known, rest
  <2>1. /\ active[n] \in Connections /\ active' \in [Nodes -> Connections \cup {None}]
        /\ active'[n] = active[n] /\ (\A m \in Nodes : m # n => active'[m] = active[m])
        /\ news' \in [Nodes -> SUBSET DOMAIN dialer]
    BY <1>0, <1>1, <1>2 DEF TypeOK
  <2>. QED
    BY <1>1, <1>2, <2>1, IssueKeeps
<1>3. CASE /\ Forgotten(n) \/ (Unbound(n, c) /\ UNCHANGED active) 
           /\ packets' = rest
  <2>0. c # None
    BY <1>0, ConnectionTypes DEF ConnectionClosed, TypeOK
  <2>1. /\ \A m \in Nodes : authed'[m] \in {None, authed[m]} /\ pending'[m] \in {None, pending[m]}
        /\ authed'[n] # c
        /\ authed' \in [Nodes -> Connections \cup {None}]
        /\ pending' \in [Nodes -> Connections \cup {None}]
        /\ active' \in [Nodes -> Connections \cup {None}]
    BY SMTT(30), <1>0, <1>3, <2>0 DEF Forgotten, Unbound, TypeOK
  <2>2. TypeOK'
    BY <1>0, <1>1, <1>3, <2>1 DEF TypeOK
  <2>3. Bound'
    BY <1>0, <1>1, <1>3, <2>1 DEF Bound, Forgotten, Unbound, TypeOK
  <2>. QED
    BY <1>0, <1>3, <2>1, <2>2, <2>3, FadingKeeps DEF TypeOK
<1>. QED
  BY <1>2, <1>3 DEF ConnectionClosed

(* The answer goes out on the canonical connection: its sender holds that  *)
(* session or waits for it, or holds and waits for none.                   *)
LEMMA HelloChallengeKeeps ==
    ASSUME SessionConstants, SessionInv, NEW n \in Nodes, NEW p \in packets, HelloChallenge(n, p)
    PROVE  SessionInv'
<1>0. TypeOK /\ Bound /\ ProofsAgree /\ SessionsAgree
  BY DEF SessionInv
<1>1. UNCHANGED <<dialer, wire, news, seen, active, pending, authed>>
  BY DEF HelloChallenge
<1>2. CASE packets' = packets \ {p}
  <2>1. TypeOK'
    BY <1>0, <1>1, <1>2 DEF TypeOK
  <2>2. Bound'
    BY <1>0, <1>1 DEF Bound
  <2>. QED
    BY <1>1, <1>2, <2>1, <2>2, FadingKeeps
<1>3. CASE /\ active[n] = p.on /\ Cardinality(seen[n]) = 1
           /\ Send(n, seen[n], "proof", p.fresh, packets \ {p})
  <2>1. PICK on \in seen[n] :
           packets' = (packets \ {p}) \cup {[to |-> Peer(n), on |-> on, kind |-> "proof", fresh |-> p.fresh]}
    BY <1>3 DEF Send
  <2> DEFINE new == [to |-> Peer(n), on |-> on, kind |-> "proof", fresh |-> p.fresh]
  <2>2. on = p.on
    BY <1>0, <1>3, SeenFinite, OnlyConnection DEF HelloChallenge
  <2>3. new \in [to : Nodes, on : Connections, kind : {"challenge", "proof"}, fresh : BOOLEAN]
        /\ new.to = Peer(n) /\ new.on = active[n]
    BY <1>0, <1>3, <2>2, PeerOfPeer DEF TypeOK
  <2>4. packets' \subseteq packets \cup {new}
    BY <2>1
  <2>. HIDE DEF new
  <2>5. TypeOK'
    BY <1>0, <1>1, <2>3, <2>4 DEF TypeOK
  <2>6. Bound' /\ SessionsAgree'
    BY <1>0, <1>1 DEF Bound, SessionsAgree
  <2>7. ProofsAgree'
    <3>. SUFFICES ASSUME NEW m \in Nodes, NEW q \in packets', Answers(q, m)'
                  PROVE  /\ authed[Peer(m)] # None => authed[Peer(m)] = q.on
                         /\ \A r \in packets' : Answers(r, Peer(m))' => r.on = q.on
      BY <1>1 DEF ProofsAgree
    <3>1. \A r \in packets', k \in Nodes : Answers(r, k)' =>
             \/ r \in packets /\ Answers(r, k)
             \/ r = new /\ k = Peer(n) /\ r.on = active[n]
      BY <1>1, <2>3, <2>4 DEF Answers
    <3>2. \A k \in Nodes, r \in packets' : Answers(r, k)' => pending[k] = r.on /\ r.on # None
      BY <1>1, <2>5 DEF Answers, TypeOK, SessionConstants
    <3>3. CASE q \in packets /\ Answers(q, m)
      <4>1. authed[Peer(m)] # None => authed[Peer(m)] = q.on
        BY <1>0, <3>3 DEF ProofsAgree
      <4>2. ASSUME NEW r \in packets', Answers(r, Peer(m))' PROVE r.on = q.on
        <5>1. CASE r \in packets /\ Answers(r, Peer(m))
          BY <1>0, <3>3, <5>1 DEF ProofsAgree
        <5>2. CASE r = new /\ Peer(m) = Peer(n) /\ r.on = active[n]
          <6>1. m = n
            BY <5>2, PeerOfPeer
          <6>2. pending[m] = q.on /\ q.on # None
            BY <3>2
          <6>. QED
            BY <1>0, <5>2, <6>1, <6>2 DEF Bound
        <5>. QED
          BY <3>1, <4>2, <5>1, <5>2, PeerOfPeer
      <4>. QED
        BY <4>1, <4>2
    <3>4. CASE q = new /\ m = Peer(n) /\ q.on = active[n]
      <4>1. Peer(m) = n
        BY <3>4, PeerOfPeer
      <4>2. authed[n] # None => authed[n] = q.on
        BY <1>0, <3>4 DEF Bound
      <4>3. ASSUME NEW r \in packets', Answers(r, n)' PROVE r.on = q.on
        <5>1. pending[n] = r.on /\ r.on # None
          BY <3>2, <4>3
        <5>. QED
          BY <1>0, <3>4, <5>1 DEF Bound
      <4>. QED
        BY <4>1, <4>2, <4>3
    <3>. QED
      BY <3>1, <3>3, <3>4
  <2>. QED
    BY <2>5, <2>6, <2>7 DEF SessionInv
<1>. QED
  BY <1>2, <1>3 DEF HelloChallenge

(* The session a proof opens is the one its sender holds or will accept. *)
LEMMA HelloProofKeeps ==
    ASSUME SessionConstants, SessionInv, NEW n \in Nodes, NEW p \in packets, HelloProof(n, p)
    PROVE  SessionInv'
<1>0. TypeOK /\ Bound /\ ProofsAgree /\ SessionsAgree
  BY DEF SessionInv
<1>1. /\ UNCHANGED <<dialer, wire, news, seen, active>> /\ packets' = packets \ {p}
      /\ pending' = [pending EXCEPT ![n] = None] /\ p.on \in seen[n]
  BY DEF HelloProof
<1>2. \A m \in Nodes : pending'[m] \in {None, pending[m]}
  BY <1>0, <1>1 DEF TypeOK
<1>3. CASE ~proof_accepted(n, p)
  <2>1. authed' = authed
    BY <1>0, <1>3 DEF HelloProof, TypeOK
  <2>2. TypeOK'
    BY <1>0, <1>1, <2>1 DEF TypeOK
  <2>3. Bound'
    BY <1>0, <1>1, <2>1 DEF Bound, TypeOK
  <2>. QED
    BY <1>0, <1>1, <1>2, <2>1, <2>2, <2>3, FadingKeeps DEF TypeOK
<1>4. CASE proof_accepted(n, p)
  <2>1. authed' = [authed EXCEPT ![n] = p.on] /\ Answers(p, n) /\ active[n] = p.on
    BY <1>4 DEF HelloProof, proof_accepted, Answers
  <2>2. authed'[n] = p.on /\ \A m \in Nodes : m # n => authed'[m] = authed[m]
    BY <1>0, <2>1 DEF TypeOK
  <2>3. TypeOK'
    BY <1>0, <1>1, <2>1 DEF TypeOK
  <2>4. Bound'
    BY <1>0, <1>1, <2>1, <2>2 DEF Bound, TypeOK
  <2>5. /\ authed[Peer(n)] # None => authed[Peer(n)] = p.on
        /\ \A q \in packets : Answers(q, Peer(n)) => q.on = p.on
    BY <1>0, <2>1 DEF ProofsAgree
  <2>6. SessionsAgree'
    <3>1. \A m \in Nodes : authed'[m] # None => active'[m] = authed'[m] /\ authed'[m] \in seen'[m]
      BY <2>4 DEF Bound
    <3>2. ASSUME NEW m \in Nodes, authed'[m] # None, authed'[Peer(m)] # None
          PROVE  authed'[m] = authed'[Peer(m)]
      BY <2>2, <2>5, <3>2, PeerOfPeer
    <3>. QED
      BY <3>1, <3>2 DEF SessionsAgree
  <2>7. ProofsAgree'
    <3>. SUFFICES ASSUME NEW m \in Nodes, NEW q \in packets', Answers(q, m)'
                  PROVE  /\ authed'[Peer(m)] # None => authed'[Peer(m)] = q.on
                         /\ \A r \in packets' : Answers(r, Peer(m))' => r.on = q.on
      BY DEF ProofsAgree
    <3>1. ASSUME NEW k \in Nodes, NEW r \in packets', Answers(r, k)'
          PROVE  r \in packets /\ k = Peer(n) /\ Answers(r, k)
      <4>1. r.on # None
        BY <2>3 DEF TypeOK, SessionConstants
      <4>2. k # n
        BY <1>0, <1>1, <3>1, <4>1 DEF Answers, TypeOK
      <4>. QED
        BY <1>0, <1>1, <3>1, <4>2, PeerOfPeer DEF Answers, TypeOK
    <3>2. m = Peer(n) /\ Peer(m) = n /\ Answers(q, m) /\ q \in packets
      BY <3>1, PeerOfPeer
    <3>3. authed'[Peer(m)] = q.on
      BY <2>2, <2>5, <3>2
    <3>4. \A r \in packets' : ~Answers(r, Peer(m))'
      BY <3>1, <3>2, PeerOfPeer
    <3>. QED
      BY <3>3, <3>4
  <2>. QED
    BY <2>3, <2>4, <2>6, <2>7 DEF SessionInv
<1>. QED
  BY <1>3, <1>4

LEMMA ExpireKeeps ==
    ASSUME SessionConstants, SessionInv, NEW n \in Nodes, expire_stale_auth_challenges(n)
    PROVE  SessionInv'
<1>0. TypeOK /\ Bound
  BY DEF SessionInv
<1>1. /\ pending' = [pending EXCEPT ![n] = None] /\ authed' = [authed EXCEPT ![n] = None]
      /\ UNCHANGED <<dialer, news, seen, packets>> /\ wire' \subseteq wire
      /\ active' = [active EXCEPT ![n] = IF @ = pending[n] THEN None ELSE @]
  BY DEF expire_stale_auth_challenges
<1>2. TypeOK'
  BY <1>0, <1>1 DEF TypeOK
<1>3. Bound'
  BY <1>0, <1>1 DEF Bound, TypeOK
<1>4. \A m \in Nodes : authed'[m] \in {None, authed[m]} /\ pending'[m] \in {None, pending[m]}
  BY <1>0, <1>1 DEF TypeOK
<1>. QED
  BY <1>0, <1>1, <1>2, <1>3, <1>4, FadingKeeps DEF TypeOK

-----------------------------------------------------------------------------
(* The theorems                                                            *)

LEMMA InitSession ==
    ASSUME SessionConstants, Init
    PROVE  SessionInv
<1>1. TypeOK
  BY SMTT(30) DEF Init, TypeOK, SessionConstants
<1>2. Bound /\ SessionsAgree /\ ProofsAgree
  BY DEF Init, Bound, SessionsAgree, ProofsAgree
<1>. QED
  BY <1>1, <1>2 DEF SessionInv

LEMMA NextSession ==
    ASSUME SessionConstants, SessionInv, [Next]_sessionVars
    PROVE  SessionInv'
<1>1. ASSUME NEW n \in Nodes, Handled(n) PROVE SessionInv'
  <2>1. ASSUME NEW c \in news[n], Refuse(n, c) PROVE SessionInv'
    <3>1. c \in Connections
      BY ConnectionTypes DEF SessionInv, TypeOK
    <3>. QED
      BY <2>1, <3>1, TransportKeeps
  <2>. QED
    BY <1>1, <2>1, ConnectionEstablishedKeeps, ConnectionClosedKeeps, HelloChallengeKeeps,
       HelloProofKeeps DEF Handled
<1>2. ASSUME NEW n \in Nodes, dial(n) \/ expire_stale_auth_challenges(n) PROVE SessionInv'
  BY <1>2, OpenKeeps, ExpireKeeps
<1>3. CASE (\E c \in wire : Break(c)) \/ (\E p \in packets : Lose(p)) \/ UNCHANGED sessionVars
  BY <1>3, TransportKeeps
<1>. QED
  BY <1>1, <1>2, <1>3 DEF Next

(* The inductive invariant: a proof that a node will accept was sent on    *)
(* the connection its sender holds canonical, and a challenge drawn again  *)
(* leaves no older proof that would be accepted.                           *)
THEOREM SessionInvCorrect == Spec => []SessionInv
<1>1. Init => SessionInv
  BY InitSession, SessionAssumption
<1>2. SessionInv /\ [Next]_sessionVars => SessionInv'
  BY NextSession, SessionAssumption
<1>. QED
  BY <1>1, <1>2, PTL DEF Spec

(* Type correctness: every connection an entry of the node names was       *)
(* opened.                                                                 *)
THEOREM SessionTypeCorrect == Spec => []TypeOK
<1>1. SessionInv => TypeOK
  BY DEF SessionInv
<1>. QED
  BY <1>1, SessionInvCorrect, PTL

(* Two nodes that hold each other authenticated do so on one connection,   *)
(* which both count as established and canonical, however many connections *)
(* were dialled, replaced, expired or lost and whatever                    *)
(* MAX_ESTABLISHED_CONNECTIONS_PER_PEER is.                                *)
THEOREM SessionsAgreeCorrect == Spec => []SessionsAgree
<1>1. SessionInv => SessionsAgree
  BY DEF SessionInv
<1>. QED
  BY <1>1, SessionInvCorrect, PTL

-----------------------------------------------------------------------------
(* The simulator: one authority per generation                             *)

(* Every generation that was active is at most the current one; below it   *)
(* while a recovery has opened a new one; and a sleeping world is not      *)
(* being recovered.                                                        *)
SimInv ==
    /\ epoch \in Nat
    /\ \A g \in granted : g[1] \in Nat /\ g[1] <= epoch
    /\ \A g, h \in granted : g[1] = h[1] => g = h
    /\ recovery \in Progress \cup {Nil}
    /\ recovery # Nil /\ recovery.committed => \A g \in granted : g[1] < epoch
    /\ state.kind = "Sleeping" => recovery = Nil

LEMMA SimInvInit ==
    ASSUME SimInit
    PROVE  SimInv
<1> DEFINE m == Min(SimPeers)
<1>1. granted = {<<1, m>>} /\ epoch = 1 /\ recovery = Nil
  BY DEF SimInit
<1> HIDE DEF m
<1> QED
  BY <1>1, SMTT(30) DEF SimInv

(* The world moves to a generation of its own. *)
LEMMA GrantNew ==
    ASSUME SimInv, NEW p, epoch' = epoch + 1, granted' = granted \cup {<<epoch + 1, p>>}
    PROVE  /\ \A g \in granted' : g[1] \in Nat /\ g[1] <= epoch'
           /\ \A g, h \in granted' : g[1] = h[1] => g = h
  BY SMTT(30) DEF SimInv

LEMMA GrantCommitted ==
    ASSUME SimInv, NEW p, \A g \in granted : g[1] < epoch,
           granted' = granted \cup {<<epoch, p>>}, UNCHANGED epoch
    PROVE  /\ \A g \in granted' : g[1] \in Nat /\ g[1] <= epoch'
           /\ \A g, h \in granted' : g[1] = h[1] => g = h
  BY SMTT(30) DEF SimInv

(* Everything but the recovery, the state and the grants. *)
LEMMA SimInvQuiet ==
    ASSUME SimInv, UNCHANGED <<epoch, granted, recovery, state>>
    PROVE  SimInv'
  BY DEF SimInv

LEMMA SimInvRecovery ==
    ASSUME SimInv, NEW p \in SimPeers,
           \/ begin_recovery(p) \/ acknowledge_reservation(p) \/ acknowledge_epoch(p)
           \/ acknowledge_live_lease(p)
    PROVE  SimInv'
<1>1. CASE begin_recovery(p)
  <2>1. /\ recovery' = [candidate |-> p, reserved |-> {p}, accepted |-> {}, leases |-> {},
                        committed |-> FALSE]
        /\ state.kind = "Active" /\ UNCHANGED <<state, epoch, granted>>
    BY <1>1 DEF begin_recovery
  <2>2. recovery' \in Progress /\ ~recovery'.committed
    BY <2>1 DEF Progress
  <2>3. state'.kind # "Sleeping"
    BY <2>1
  <2> QED
    BY <2>1, <2>2, <2>3 DEF SimInv
<1>2. CASE acknowledge_reservation(p) \/ acknowledge_epoch(p) \/ acknowledge_live_lease(p)
  <2>1. recovery # Nil /\ recovery \in Progress /\ UNCHANGED <<state, epoch, granted>>
    BY <1>2 DEF acknowledge_reservation, acknowledge_epoch, acknowledge_live_lease, SimInv
  <2>2. recovery' \in Progress /\ recovery'.committed = recovery.committed
    BY <1>2, <2>1, SMTT(30)
      DEF acknowledge_reservation, acknowledge_epoch, acknowledge_live_lease, Progress
  <2> QED
    BY <2>1, <2>2 DEF SimInv
<1> QED
  BY <1>1, <1>2

LEMMA SimInvCommit ==
    ASSUME SimInv, commit_recovery_epoch
    PROVE  SimInv'
<1>1. /\ recovery # Nil /\ recovery \in Progress /\ epoch' = epoch + 1 /\ UNCHANGED granted
      /\ recovery' = [recovery EXCEPT !.committed = TRUE, !.accepted = @ \cup {recovery.candidate}]
      /\ state' = [kind |-> "Recovering", peer |-> recovery.candidate]
  BY DEF commit_recovery_epoch, SimInv
<1>2. recovery' \in Progress
  <2>1. /\ recovery.candidate \in SimPeers
        /\ recovery.accepted \cup {recovery.candidate} \in SUBSET SimPeers
    BY <1>1, SMTT(30) DEF Progress
  <2>2. TRUE \in BOOLEAN
    OBVIOUS
  <2> QED
    BY <1>1, <2>1, <2>2 DEF Progress
<1>3. state'.kind # "Sleeping"
  BY <1>1, SMTT(30)
<1>4. epoch' \in Nat /\ \A g \in granted : g[1] \in Nat /\ g[1] < epoch' /\ g[1] <= epoch'
  BY <1>1, SMTT(30) DEF SimInv
<1> QED
  BY <1>1, <1>2, <1>3, <1>4 DEF SimInv

LEMMA SimInvGrant ==
    ASSUME SimInv, activate_recovery \/ \E p \in SimPeers : wake(p)
    PROVE  SimInv'
<1>1. CASE activate_recovery
  <2>1. /\ recovery # Nil /\ recovery.committed /\ UNCHANGED epoch /\ recovery' = Nil
        /\ granted' = granted \cup {<<epoch, recovery.candidate>>}
    BY <1>1 DEF activate_recovery
  <2>2. /\ \A g \in granted' : g[1] \in Nat /\ g[1] <= epoch'
        /\ \A g, h \in granted' : g[1] = h[1] => g = h
    BY <2>1, GrantCommitted DEF SimInv
  <2> QED
    BY <2>1, <2>2 DEF SimInv
<1>2. ASSUME NEW p \in SimPeers, wake(p) PROVE SimInv'
  <2>1. /\ state = Sleeping /\ UNCHANGED recovery /\ epoch' = epoch + 1
        /\ granted' = granted \cup {<<epoch + 1, p>>}
    BY <1>2 DEF wake
  <2>2. recovery = Nil
    BY <2>1 DEF SimInv, Sleeping
  <2>3. /\ \A g \in granted' : g[1] \in Nat /\ g[1] <= epoch'
        /\ \A g, h \in granted' : g[1] = h[1] => g = h
    BY <2>1, GrantNew
  <2>4. epoch' \in Nat
    BY <2>1, SMTT(30) DEF SimInv
  <2> QED
    BY <2>1, <2>2, <2>3, <2>4 DEF SimInv
<1> QED
  BY <1>1, <1>2

LEMMA SimInvStep ==
    ASSUME SimInv, [SimNext]_simVars
    PROVE  SimInv'
<1>1. ASSUME NEW p \in SimPeers, GoOffline(p) PROVE SimInv'
  <2>1. /\ UNCHANGED <<epoch, granted>>
        /\ (state' = Sleeping /\ recovery' = Nil) \/ UNCHANGED <<state, recovery>>
    BY <1>1 DEF GoOffline
  <2> QED
    BY <2>1 DEF SimInv
<1>2. ASSUME NEW p \in SimPeers,
             \/ GoOnline(p) \/ corrupt_snapshot(p) \/ install_snapshot(p) \/ publish_snapshot(p)
             \/ \E cut \in BOOLEAN : set_partitioned(p, cut)
             \/ \E used \in 1..MaxEpoch : renew_authority_lease(p, used)
      PROVE  UNCHANGED <<epoch, granted, recovery, state>>
  BY <1>2 DEF GoOnline, corrupt_snapshot, install_snapshot, publish_snapshot, set_partitioned,
    renew_authority_lease
<1>3. CASE LeaseExpires \/ UNCHANGED simVars
  BY <1>3, SimInvQuiet DEF LeaseExpires, simVars
<1> QED
  BY <1>1, <1>2, <1>3, SimInvQuiet, SimInvRecovery, SimInvCommit, SimInvGrant DEF SimNext

(* Whatever fails between the steps of recoveries, sleeps and wakes, a     *)
(* generation of the simulated world has one authority: for any peers and  *)
(* any quorum, because opening a generation and activating it are ordered  *)
(* by the recovery itself (simulator.rs).                                  *)
THEOREM OneAuthorityCorrect == SimSpec => []OneAuthorityPerGeneration
<1>1. SimInit => SimInv
  BY SimInvInit
<1>2. SimInv /\ [SimNext]_simVars => SimInv'
  BY SimInvStep
<1>3. SimInv => OneAuthorityPerGeneration
  BY DEF SimInv, OneAuthorityPerGeneration
<1> QED
  BY <1>1, <1>2, <1>3, PTL DEF SimSpec

-----------------------------------------------------------------------------
(* "May this computer be shut down?": what the host knows is not too new   *)

StatusCalls == {<<"none">>, <<"asked">>} \cup {"answer"} \X (1..MaxHead)

Reports == [state : {"unknown", "safe", "blocked_by_quorum", "blocked_by_runtime",
                     "blocked_by_mods", "syncing", "world_will_stop"},
            safe : BOOLEAN, successor : Eligible \cup {Absent}, head : 0..MaxHead]

(* Heads only grow, so a status, however old, and an answer, however late, *)
(* are at most the head of the peer they are about.                        *)
ReadinessInv ==
    /\ head \in [Members -> 1..MaxHead]
    /\ linked \subseteq Watch
    /\ statusCall \in [Watch -> StatusCalls]
    /\ status \in [Watch -> 0..MaxHead]
    /\ \A w \in Watch : status[w] <= head[w[2]]
    /\ \A w \in Watch : statusCall[w][1] = "answer" => statusCall[w][2] <= head[w[2]]
    /\ report.safe => report.successor \in Eligible /\ report.head <= head[report.successor]
    /\ report \in Reports

LEMMA WatchTyped ==
    ASSUME ReadinessConstants, NEW w \in Watch
    PROVE  w[1] \in Members /\ w[2] \in Members /\ w = <<w[1], w[2]>>
  BY SMTT(30) DEF ReadinessConstants

LEMMA CallsDiffer ==
    /\ <<"none">> \in StatusCalls /\ <<"asked">> \in StatusCalls
    /\ <<"none">>[1] # "answer" /\ <<"asked">>[1] # "answer"
    /\ \A n \in 1..MaxHead : /\ <<"answer", n>> \in StatusCalls
                             /\ <<"answer", n>>[1] = "answer" /\ <<"answer", n>>[2] = n
  BY SMTT(30) DEF StatusCalls

LEMMA ReportTyped ==
    ASSUME NEW r \in Reports
    PROVE  /\ r.head \in 0..MaxHead /\ r.safe \in BOOLEAN
           /\ LET e == [r EXCEPT !.state = "unknown", !.safe = FALSE, !.successor = Absent]
              IN  e \in Reports /\ ~e.safe
<1>1. FALSE \in BOOLEAN
  OBVIOUS
<1> QED
  BY <1>1 DEF Reports

LEMMA ReadinessInvInit ==
    ASSUME ReadinessInit, ReadinessConstants
    PROVE  ReadinessInv
<1>1. /\ 1 \in 1..MaxHead /\ 0 \in 0..MaxHead /\ 0 <= 1
  BY SMTT(30) DEF ReadinessConstants
<1>2. Unknown.safe = FALSE /\ Unknown \in Reports
  BY <1>1 DEF Unknown, Reports
<1>3. /\ head \in [Members -> 1..MaxHead] /\ status \in [Watch -> 0..MaxHead]
      /\ statusCall \in [Watch -> StatusCalls] /\ linked \subseteq Watch
  BY <1>1, CallsDiffer DEF ReadinessInit
<1>4. ASSUME NEW w \in Watch PROVE status[w] <= head[w[2]] /\ statusCall[w][1] # "answer"
  BY <1>1, WatchTyped, CallsDiffer DEF ReadinessInit
<1> QED
  BY <1>1, <1>2, <1>3, <1>4 DEF ReadinessInit, ReadinessInv

(* A head moves up, everything else stays. *)
LEMMA HeadGrows ==
    ASSUME ReadinessInv, ReadinessConstants, NEW p \in Members, NEW n \in 1..MaxHead, head[p] <= n,
           head' = [head EXCEPT ![p] = n], UNCHANGED <<linked, statusCall, status, report>>
    PROVE  ReadinessInv'
<1>1. head' \in [Members -> 1..MaxHead]
  BY DEF ReadinessInv
<1>2. ASSUME NEW q \in Members PROVE head[q] <= head'[q] /\ head[q] \in Nat /\ head'[q] \in Nat
  BY SMTT(30) DEF ReadinessInv
<1>3. ASSUME NEW w \in Watch
      PROVE  /\ status[w] <= head'[w[2]]
             /\ statusCall[w][1] = "answer" => statusCall[w][2] <= head'[w[2]]
  <2>1. w[2] \in Members /\ status[w] \in 0..MaxHead /\ status[w] <= head[w[2]]
    BY WatchTyped DEF ReadinessInv
  <2>2. status[w] <= head'[w[2]]
    BY <1>2, <2>1, SMTT(30)
  <2>3. ASSUME statusCall[w][1] = "answer" PROVE statusCall[w][2] <= head'[w[2]]
    <3>1. statusCall[w] \in StatusCalls /\ statusCall[w][2] <= head[w[2]]
      BY <2>3 DEF ReadinessInv
    <3>2. statusCall[w][2] \in 1..MaxHead
      BY <2>3, <3>1, SMTT(30) DEF StatusCalls
    <3> QED
      BY <1>2, <2>1, <3>1, <3>2, SMTT(30)
  <2> QED
    BY <2>2, <2>3
<1>4. ASSUME report.safe PROVE report.head <= head'[report.successor]
  <2>1. report.successor \in Members /\ report.head <= head[report.successor] /\ report.head \in 0..MaxHead
    BY <1>4, ReportTyped DEF ReadinessInv, ReadinessConstants
  <2> QED
    BY <1>2, <2>1, SMTT(30)
<1> QED
  BY <1>1, <1>3, <1>4 DEF ReadinessInv

(* One observation changes: to a status its peer told, or to none; its     *)
(* request is answered with the head of the moment, or is over.            *)
LEMMA ObservationChanges ==
    ASSUME ReadinessInv, ReadinessConstants, NEW w \in Watch, NEW n \in 0..MaxHead, n <= head[w[2]],
           NEW c \in StatusCalls, c[1] = "answer" => c[2] <= head[w[2]],
           status' = [status EXCEPT ![w] = n], statusCall' = [statusCall EXCEPT ![w] = c],
           linked' \subseteq Watch, UNCHANGED <<head, report>>
    PROVE  ReadinessInv'
<1>1. status' \in [Watch -> 0..MaxHead] /\ statusCall' \in [Watch -> StatusCalls]
  BY DEF ReadinessInv
<1>2. ASSUME NEW v \in Watch
      PROVE  /\ status'[v] <= head[v[2]]
             /\ statusCall'[v][1] = "answer" => statusCall'[v][2] <= head[v[2]]
  <2>1. CASE v = w
    BY <2>1 DEF ReadinessInv
  <2>2. CASE v # w
    BY <2>2 DEF ReadinessInv
  <2> QED
    BY <2>1, <2>2
<1> QED
  BY <1>1, <1>2 DEF ReadinessInv

(* A green verdict names a peer whose status is the host's own head. *)
LEMMA VerdictCurrent ==
    ASSUME ReadinessInv, ReadinessConstants
    PROVE  LET r == evaluate_host_readiness
           IN  /\ r \in Reports
               /\ r.safe => r.successor \in Eligible /\ r.head <= head[r.successor]
<1>1. head[Host] \in 0..MaxHead
  BY SMTT(30) DEF ReadinessInv, ReadinessConstants
<1>2. ASSUME NEW q \in Eligible \cup {Absent},
             NEW s \in {"safe", "blocked_by_quorum", "blocked_by_runtime", "blocked_by_mods", "syncing",
                        "world_will_stop"}
      PROVE  LET v == Verdict(s, q)
             IN  v \in Reports /\ v.successor = q /\ v.head = head[Host] /\ (v.safe => s = "safe")
  <2>1. (s = "safe") \in BOOLEAN
    OBVIOUS
  <2> QED
    BY <1>1, <2>1 DEF Verdict, Reports
<1>3. CASE Successors # {}
  <2> DEFINE q == CHOOSE q \in Successors : TRUE
  <2>1. q \in Successors
    BY <1>3
  <2> HIDE DEF q
  <2>2. q \in Eligible /\ <<Host, q>> \in linked /\ status[<<Host, q>>] = head[Host]
    BY <2>1 DEF Successors, Candidates, Reachable, Current
  <2>3. <<Host, q>> \in Watch /\ <<Host, q>>[2] = q
    BY <2>2, SMTT(30) DEF ReadinessInv
  <2>4. head[Host] <= head[q]
    BY <2>2, <2>3 DEF ReadinessInv
  <2>5. evaluate_host_readiness = Verdict("safe", q)
    BY <1>3 DEF evaluate_host_readiness, q
  <2>6. Verdict("safe", q) \in Reports /\ Verdict("safe", q).successor = q /\ Verdict("safe", q).head = head[Host]
    BY <1>2, <2>2
  <2> QED
    BY <2>2, <2>4, <2>5, <2>6
<1>4. CASE Successors = {}
  <2>1. \E s \in {"blocked_by_quorum", "blocked_by_runtime", "blocked_by_mods", "syncing", "world_will_stop"} :
          evaluate_host_readiness = Verdict(s, Absent)
    BY <1>4 DEF evaluate_host_readiness
  <2>2. PICK s \in {"blocked_by_quorum", "blocked_by_runtime", "blocked_by_mods", "syncing", "world_will_stop"} :
          evaluate_host_readiness = Verdict(s, Absent)
    BY <2>1
  <2>3. Verdict(s, Absent) \in Reports /\ (Verdict(s, Absent).safe => s = "safe")
    BY <1>2
  <2>4. s # "safe"
    OBVIOUS
  <2> QED
    BY <2>2, <2>3, <2>4
<1> QED
  BY <1>3, <1>4

LEMMA ReadinessInvStep ==
    ASSUME ReadinessInv, ReadinessConstants, [ReadinessNext]_readinessVars
    PROVE  ReadinessInv'
<1>1. CASE UNCHANGED <<head, linked, statusCall, status, report>>
  BY <1>1 DEF ReadinessInv
<1>2. CASE PublishSnapshot
  <2>1. /\ Host \in Members /\ head[Host] + 1 \in 1..MaxHead /\ head[Host] <= head[Host] + 1
    BY <1>2, SMTT(30) DEF PublishSnapshot, ReadinessInv, ReadinessConstants
  <2> QED
    BY <1>2, <2>1, HeadGrows DEF PublishSnapshot
<1>3. ASSUME NEW q \in Members, Replicate(q) PROVE ReadinessInv'
  <2>1. head[Host] \in 1..MaxHead /\ head[q] <= head[Host]
    BY <1>3, SMTT(30) DEF Replicate, ReadinessInv, ReadinessConstants
  <2> QED
    BY <1>3, <2>1, HeadGrows DEF Replicate
<1>4. ASSUME NEW w \in Watch, Connect(w) PROVE ReadinessInv'
  BY <1>4 DEF Connect, ReadinessInv
<1>5. ASSUME NEW w \in Watch, Disconnect(w) \/ StatusLost(w) PROVE ReadinessInv'
  <2>1. 0 \in 0..MaxHead /\ 0 <= head[w[2]]
    <3>1. head[w[2]] \in 1..MaxHead
      BY WatchTyped DEF ReadinessInv
    <3> QED
      BY <3>1, SMTT(30) DEF ReadinessConstants
  <2>2. /\ status' = [status EXCEPT ![w] = 0] /\ statusCall' = [statusCall EXCEPT ![w] = <<"none">>]
        /\ linked' \subseteq Watch /\ UNCHANGED <<head, report>>
    BY <1>5 DEF Disconnect, StatusLost, ReadinessInv
  <2> QED
    BY <2>1, <2>2, CallsDiffer, ObservationChanges
<1>6. ASSUME NEW w \in Watch, WorldStatus(w) PROVE ReadinessInv'
  <2>1. head[w[2]] \in 1..MaxHead /\ status[w] \in 0..MaxHead /\ status[w] <= head[w[2]]
    BY WatchTyped DEF ReadinessInv
  <2>2. status' = [status EXCEPT ![w] = status[w]]
    BY <1>6 DEF WorldStatus, ReadinessInv
  <2>3. /\ statusCall' = [statusCall EXCEPT ![w] = <<"answer", head[w[2]]>>]
        /\ linked' \subseteq Watch /\ UNCHANGED <<head, report>>
    BY <1>6 DEF WorldStatus, ReadinessInv
  <2>4. /\ <<"answer", head[w[2]]>> \in StatusCalls /\ <<"answer", head[w[2]]>>[2] <= head[w[2]]
    BY <2>1, CallsDiffer, SMTT(30)
  <2> QED
    BY <2>1, <2>2, <2>3, <2>4, ObservationChanges
<1>7. ASSUME NEW w \in Watch, StatusArrives(w) PROVE ReadinessInv'
  <2>1. statusCall[w] \in StatusCalls /\ statusCall[w][1] = "answer" /\ statusCall[w][2] <= head[w[2]]
    BY <1>7 DEF StatusArrives, ReadinessInv
  <2>2. statusCall[w][2] \in 0..MaxHead
    BY <2>1, SMTT(30) DEF StatusCalls, ReadinessConstants
  <2>3. /\ status' = [status EXCEPT ![w] = statusCall[w][2]]
        /\ statusCall' = [statusCall EXCEPT ![w] = <<"none">>]
        /\ linked' \subseteq Watch /\ UNCHANGED <<head, report>>
    BY <1>7 DEF StatusArrives, ReadinessInv
  <2> QED
    BY <2>1, <2>2, <2>3, CallsDiffer, ObservationChanges
<1>8. ASSUME NEW w \in Watch, HostCapability(w) \/ CapabilityArrives(w) \/ CapabilityLost(w) PROVE ReadinessInv'
  BY <1>1, <1>8 DEF HostCapability, CapabilityArrives, CapabilityLost
<1>9. ASSUME NEW q \in Eligible, MachineChanges(q) PROVE ReadinessInv'
  BY <1>1, <1>9 DEF MachineChanges
<1>10. ASSUME NEW p \in Members, Tick(p) PROVE ReadinessInv'
  <2>1. /\ report' = IF p = Host THEN evaluate_host_readiness ELSE report
        /\ statusCall' = request_world_statuses(p)
        /\ UNCHANGED <<head, linked, status>>
    BY <1>10 DEF Tick
  <2>2. /\ report' \in Reports
        /\ report'.safe => report'.successor \in Eligible /\ report'.head <= head[report'.successor]
    BY <2>1, VerdictCurrent DEF ReadinessInv
  <2>3. ASSUME NEW w \in Watch PROVE statusCall'[w] \in {<<"asked">>, statusCall[w]}
    BY <2>1 DEF request_world_statuses, Asked
  <2>4. statusCall' \in [Watch -> StatusCalls]
    BY <2>1, CallsDiffer DEF request_world_statuses, Asked, ReadinessInv
  <2>5. ASSUME NEW w \in Watch, statusCall'[w][1] = "answer" PROVE statusCall'[w][2] <= head[w[2]]
    BY <2>3, <2>5, CallsDiffer DEF ReadinessInv
  <2> QED
    BY <2>1, <2>2, <2>4, <2>5 DEF ReadinessInv
<1>11. CASE ReportExpires
  <2>1. /\ report' = [report EXCEPT !.state = "unknown", !.safe = FALSE, !.successor = Absent]
        /\ UNCHANGED <<head, linked, statusCall, status>>
    BY <1>11 DEF ReportExpires
  <2>2. report' \in Reports /\ ~report'.safe
    BY <2>1, ReportTyped DEF ReadinessInv
  <2> QED
    BY <2>1, <2>2 DEF ReadinessInv
<1>12. CASE UNCHANGED readinessVars
  BY <1>1, <1>12 DEF readinessVars
<1> QED
  BY <1>2, <1>3, <1>4, <1>5, <1>6, <1>7, <1>8, <1>9, <1>10, <1>11, <1>12 DEF ReadinessNext

(* A green report names a successor whose disk holds the snapshot the host *)
(* had when it wrote the report, however late statuses and capabilities    *)
(* arrive, for any members and observations (evaluate_host_readiness).     *)
THEOREM SafeSuccessorCorrect == ReadinessSpec => []SafeSuccessorCurrent
<1>1. ReadinessInit => ReadinessInv
  BY ReadinessInvInit, ReadinessAssumption
<1>2. ReadinessInv /\ [ReadinessNext]_readinessVars => ReadinessInv'
  BY ReadinessInvStep, ReadinessAssumption
<1>3. ReadinessInv => SafeSuccessorCurrent
  <2>1. ASSUME ReadinessInv, report.safe PROVE head[report.successor] >= report.head
    <3>1. /\ report.successor \in Members /\ head \in [Members -> 1..MaxHead]
          /\ report.head \in 0..MaxHead /\ report.head <= head[report.successor]
      BY <2>1, ReadinessAssumption, ReportTyped DEF ReadinessInv, ReadinessConstants
    <3> QED
      BY <3>1, SMTT(30)
  <2> QED
    BY <2>1 DEF SafeSuccessorCurrent
<1> QED
  BY <1>1, <1>2, <1>3, PTL DEF ReadinessSpec

-----------------------------------------------------------------------------
(* The push of a snapshot to one receiver.  Only the receiver's own steps   *)
(* touch what it keeps, whatever the sender and the network do.             *)

(* A manifest is pending only while a blob is missing, so that nothing is   *)
(* written, and no complete blob replaced, once the snapshot is committed.  *)
PushInv ==
    /\ negotiated \in BOOLEAN /\ committed \in BOOLEAN
    /\ have \subseteq Offered
    /\ negotiated => have # Offered
    /\ committed => have = Offered

LEMMA SenderKeepsReceiver ==
    ASSUME \/ LinkUp \/ push_known_worlds \/ ManifestAccepted \/ BlobChunkAccepted \/ RateLimited
           \/ retry_due_replication \/ OutboundFailure \/ BlobChunkRejected
           \/ LinkDown \/ Admission \/ TimeOut
    PROVE  UNCHANGED receiver
<1>1. CASE LinkUp \/ push_known_worlds \/ LinkDown
  BY <1>1 DEF LinkUp, push_known_worlds, LinkDown
<1>2. CASE ManifestAccepted \/ BlobChunkAccepted \/ RateLimited
  BY <1>2 DEF ManifestAccepted, BlobChunkAccepted, RateLimited
<1>3. CASE retry_due_replication \/ OutboundFailure
  BY <1>3 DEF retry_due_replication, OutboundFailure
<1>4. CASE BlobChunkRejected \/ Admission \/ TimeOut
  BY <1>4 DEF BlobChunkRejected, Admission, TimeOut
<1> QED
  BY <1>1, <1>2, <1>3, <1>4

LEMMA PushInvStep ==
    ASSUME PushInv, [PushNext]_pushVars
    PROVE  PushInv'
<1>1. CASE UNCHANGED receiver
  BY <1>1 DEF receiver, PushInv
<1>2. CASE SnapshotManifest
  <2>1. /\ negotiated' = (missing_blobs(have) # {})
        /\ committed' = (committed \/ missing_blobs(have) = {})
        /\ have' = have
    BY <1>2 DEF SnapshotManifest
  <2>2. missing_blobs(have) = {} <=> have = Offered
    BY DEF PushInv, missing_blobs
  <2>3. negotiated' \in BOOLEAN /\ committed' \in BOOLEAN
    BY <2>1 DEF PushInv
  <2> QED
    BY <2>1, <2>2, <2>3 DEF PushInv
<1>3. CASE BlobChunk
  <2>1. PICK m \in Messages({"chunk"}) :
          /\ Writable(m)
          /\ have' = IF Finished(m) THEN have \cup {m.hash} ELSE have
          /\ committed' = (committed \/ (Finished(m) /\ missing_blobs(have') = {}))
          /\ negotiated' = ~(Finished(m) /\ missing_blobs(have') = {})
    BY <1>3 DEF BlobChunk
  <2>2. m.hash \in Offered /\ have # Offered /\ ~committed
    BY <2>1 DEF Writable, PushInv
  <2>3. have' \subseteq Offered
    BY <2>1, <2>2 DEF PushInv
  <2>4. missing_blobs(have') = {} <=> have' = Offered
    BY <2>3 DEF missing_blobs
  <2>5. negotiated' \in BOOLEAN /\ committed' \in BOOLEAN
    BY <2>1 DEF PushInv
  <2> QED
    BY <2>1, <2>2, <2>3, <2>4, <2>5 DEF PushInv
<1>4. CASE ReceiverStops
  <2>1. PICK m \in Messages({"chunk"}) :
          Writable(m) /\ have' \in {have, have \ {m.hash}} /\ negotiated' = FALSE /\ committed' = committed
    BY <1>4 DEF ReceiverStops
  <2>2. ~committed
    BY <2>1 DEF Writable, PushInv
  <2> QED
    BY <2>1, <2>2 DEF PushInv
<1>5. CASE UNCHANGED pushVars
  BY <1>1, <1>5 DEF pushVars, receiver
<1> QED
  BY <1>1, <1>2, <1>3, <1>4, <1>5, SenderKeepsReceiver DEF PushNext, PushProgress

(* A receiver acknowledges a snapshot only with every blob complete, and   *)
(* keeps it complete, for any sizes of the blobs and any number of links,   *)
(* losses, refusals and stops (receive_blob_chunk, finalize_and_ack).       *)
THEOREM CommittedHeldCorrect == PushSpec => []CommittedHeld
<1>1. PushInit => PushInv
  BY DEF PushInit, PushInv, Offered
<1>2. PushInv /\ [PushNext]_pushVars => PushInv'
  BY PushInvStep
<1>3. PushInv => CommittedHeld
  BY DEF PushInv, CommittedHeld
<1> QED
  BY <1>1, <1>2, <1>3, PTL DEF PushSpec

-----------------------------------------------------------------------------
(* A search for a world: the inductive invariant                           *)

(* The world has moved past the announcement in the records of a peer. *)
RecoveredPast(q, a) == accepted[q] > a.gen \/ promised[q] > a.gen
EnrolledPast(q, a) == roll[q].no > a.roll.no
RevisedPast(q, a) == revision[q].no > a.revision.no

(* The peer has not signed the challenge in hand. *)
Unsigned(q) == search.nonce \notin signed[q]

(* What Superseded says of the moment the challenge is drawn, kept until    *)
(* the answer: the records of a peer only move forward, and a peer that is *)
(* past the announcement does not sign for it.                             *)
StaysSuperseded(a) ==
    \/ Majority({q \in Peers : RecoveredPast(q, a) /\ Unsigned(q)}, a.roll.voters)
    \/ Majority({q \in Peers : EnrolledPast(q, a) /\ Unsigned(q)}, a.roll.voters)
    \/ Majority({q \in Peers : RevisedPast(q, a) /\ Unsigned(q)}, a.roll.voters)

(* A challenge is signed after it is drawn, and a vote that counts was     *)
(* signed by its voter.                                                    *)
SignedInTurn ==
    /\ \A p \in Peers : \A n \in signed[p] : n <= search.nonce
    /\ \A r \in search.replies : r.kind = "vote" => r.nonce \in signed[r.from]
    /\ \A v \in search.votes : search.nonce \in signed[v.from]

(* The candidate in hand is one of those collected, and the membership     *)
(* that was proved is the one it announces.                                *)
InHand ==
    /\ search.phase = "prove" => search.nonce \in DOMAIN search.candidates
    /\ search.phase = "prove" /\ search.proof # Nothing => search.proof.roll = Candidate.roll
    /\ search.phase = "prove" /\ search.superseded => StaysSuperseded(Candidate)

DiscoveryInv == DiscoveryTypeOK /\ SignedInTurn /\ InHand /\ ProvenCurrent

-----------------------------------------------------------------------------
(* Majorities of the voters                                                *)

LEMMA VotersFinite ==
    ASSUME DiscoveryConstants, NEW a \in Announcements
    PROVE  a.roll.voters \subseteq Peers /\ IsFiniteSet(a.roll.voters)
<1>1. IsFiniteSet(Peers)
  BY FS_Union DEF DiscoveryConstants, Peers
<1>2. a.roll.voters \subseteq Peers
  BY DEF Announcements, Rolls
<1> QED
  BY <1>1, <1>2, FS_Subset

(* Two majorities of the voters share one. *)
LEMMA VotersMeet ==
    ASSUME NEW V, IsFiniteSet(V), NEW A, NEW B, Majority(A, V), Majority(B, V)
    PROVE  \E q \in V : q \in A /\ q \in B
<1>1. /\ IsFiniteSet(A \cap V) /\ IsFiniteSet(B \cap V)
      /\ A \cap V \subseteq V /\ B \cap V \subseteq V
  BY FS_Subset
<1>2. /\ Cardinality(V) \in Nat /\ Cardinality(A \cap V) \in Nat
      /\ Cardinality(B \cap V) \in Nat
  BY <1>1, FS_CardinalityType
<1>3. Cardinality(A \cap V) + Cardinality(B \cap V) > Cardinality(V)
  BY SMTT(30), <1>2 DEF Majority
<1>4. (A \cap V) \cap (B \cap V) # {}
  BY <1>1, <1>3, FS_MajoritiesIntersect
<1> QED
  BY <1>4

(* A set that holds the voters of a majority is one. *)
LEMMA MajorityHeld ==
    ASSUME NEW V, IsFiniteSet(V), NEW A, NEW B, A \cap V \subseteq B, Majority(A, V)
    PROVE  Majority(B, V)
<1>1. IsFiniteSet(B \cap V) /\ A \cap V \subseteq B \cap V
  BY FS_Subset
<1>2. Cardinality(A \cap V) <= Cardinality(B \cap V) /\ IsFiniteSet(A \cap V)
  BY <1>1, FS_Subset
<1>3. /\ Cardinality(V) \in Nat /\ Cardinality(A \cap V) \in Nat
      /\ Cardinality(B \cap V) \in Nat
  BY <1>1, <1>2, FS_CardinalityType
<1> QED
  BY SMTT(30), <1>2, <1>3 DEF Majority

-----------------------------------------------------------------------------
(* The members' records move forward                                       *)

Forward ==
    \A q \in Peers : /\ accepted'[q] >= accepted[q] /\ promised'[q] >= promised[q]
                     /\ roll'[q].no >= roll[q].no /\ revision'[q].no >= revision[q].no

LEMMA RecordFields ==
    ASSUME DiscoveryConstants, DiscoveryTypeOK, NEW q \in Peers
    PROVE  /\ accepted[q] \in 0 .. MaxGeneration /\ promised[q] \in 0 .. MaxGeneration
           /\ roll[q] \in Rolls /\ roll[q].no \in Nat /\ roll[q].gen \in 0 .. MaxGeneration
           /\ roll[q].voters \in SUBSET Peers
           /\ revision[q] \in Revisions /\ revision[q].no \in 0 .. MaxRevision
           /\ accepted[q] \in Nat /\ promised[q] \in Nat /\ revision[q].no \in Nat
           /\ MaxGeneration \in Nat /\ MaxRevision \in Nat
<1>1. /\ accepted[q] \in 0 .. MaxGeneration /\ promised[q] \in 0 .. MaxGeneration
      /\ roll[q] \in Rolls /\ revision[q] \in Revisions
  BY DEF DiscoveryTypeOK
<1>2. /\ roll[q].no \in Nat /\ roll[q].gen \in 0 .. MaxGeneration
      /\ roll[q].voters \in SUBSET Peers /\ revision[q].no \in 0 .. MaxRevision
  BY <1>1 DEF Rolls, Revisions
<1> QED
  BY SMTT(30), <1>1, <1>2 DEF DiscoveryConstants

(* A daemon that writes one record writes a later one. *)
LEMMA RollAdvances ==
    ASSUME DiscoveryConstants, DiscoveryTypeOK, NEW p \in Peers, NEW new \in Rolls,
           roll' = [roll EXCEPT ![p] = new], new.no >= roll[p].no
    PROVE  roll' \in [Peers -> Rolls] /\ \A q \in Peers : roll'[q].no >= roll[q].no
<1>1. roll' \in [Peers -> Rolls] /\ roll'[p] = new
      /\ \A q \in Peers \ {p} : roll'[q] = roll[q]
  BY DEF DiscoveryTypeOK
<1>2. \A q \in Peers : roll[q].no \in Nat
  BY RecordFields
<1>3. \A q \in Peers : roll[q].no >= roll[q].no
  BY SMTT(30), <1>2
<1> QED
  BY <1>1, <1>3

LEMMA StillNow ==
    ASSUME DiscoveryConstants, DiscoveryTypeOK
    PROVE  \A q \in Peers : /\ accepted[q] >= accepted[q] /\ promised[q] >= promised[q]
                            /\ roll[q].no >= roll[q].no /\ revision[q].no >= revision[q].no
<1>1. \A q \in Peers : /\ accepted[q] \in Nat /\ promised[q] \in Nat
                       /\ roll[q].no \in Nat /\ revision[q].no \in Nat
  BY RecordFields
<1> QED
  BY SMTT(30), <1>1

(* Every step of a member's daemon keeps the types and moves forward. *)
LEMMA WorldMoves ==
    ASSUME DiscoveryConstants, DiscoveryTypeOK, World
    PROVE  DiscoveryTypeOK' /\ Forward /\ UNCHANGED <<announced, signed, search>>
<1> USE DEF DiscoveryTypeOK, Forward
<1>1. ASSUME NEW p \in Peers, RecoveryBallot(p)
      PROVE  DiscoveryTypeOK' /\ Forward /\ UNCHANGED <<announced, signed, search>>
  <2>1. accepted[p] + 1 \in 0 .. MaxGeneration /\ accepted[p] + 1 >= promised[p]
    BY SMTT(30), <1>1, RecordFields DEF RecoveryBallot
  <2> QED
    BY <1>1, <2>1, StillNow DEF RecoveryBallot
<1>2. ASSUME NEW p \in Peers, Recovered(p)
      PROVE  DiscoveryTypeOK' /\ Forward /\ UNCHANGED <<announced, signed, search>>
  <2>1. accepted[p] + 1 \in 0 .. MaxGeneration /\ accepted[p] + 1 >= accepted[p]
    BY SMTT(30), <1>2, RecordFields DEF Recovered
  <2> QED
    BY <1>2, <2>1, StillNow DEF Recovered
<1>3. ASSUME NEW p \in Peers, Promoted(p)
      PROVE  DiscoveryTypeOK' /\ Forward /\ UNCHANGED <<announced, signed, search>>
  <2>1. PICK new : new = [no |-> roll[p].no + 1, by |-> p, gen |-> accepted[p],
                          voters |-> roll[p].voters]
    OBVIOUS
  <2>2. new \in Rolls /\ new.no >= roll[p].no
    BY SMTT(30), <2>1, RecordFields DEF Rolls
  <2>3. roll' \in [Peers -> Rolls] /\ \A q \in Peers : roll'[q].no >= roll[q].no
    BY <1>3, <2>1, <2>2, RollAdvances DEF Promoted
  <2> QED
    BY <1>3, <2>3, StillNow DEF Promoted
<1>4. ASSUME NEW p \in Peers, Proposed(p)
      PROVE  DiscoveryTypeOK' /\ Forward /\ UNCHANGED <<announced, signed, search>>
  <2>1. roll[p].voters \cup Joiners \in Drafts
    BY <1>4, RecordFields DEF Drafts, Peers
  <2> QED
    BY <1>4, <2>1, StillNow DEF Proposed
<1>5. ASSUME NEW p \in Peers, Activated(p)
      PROVE  DiscoveryTypeOK' /\ Forward /\ UNCHANGED <<announced, signed, search>>
  <2>1. PICK new : new = [no |-> roll[p].no + 1, by |-> p, gen |-> roll[p].gen,
                          voters |-> draft[p]]
    OBVIOUS
  <2>2. draft[p] \in SUBSET Peers
    <3>1. draft[p] # Nothing /\ draft[p] \in Drafts
      BY <1>5 DEF Activated
    <3> QED
      BY <3>1 DEF Drafts
  <2>3. new \in Rolls /\ new.no >= roll[p].no
    BY SMTT(30), <2>1, <2>2, RecordFields DEF Rolls
  <2>4. roll' \in [Peers -> Rolls] /\ \A q \in Peers : roll'[q].no >= roll[q].no
    BY <1>5, <2>1, <2>3, RollAdvances DEF Activated
  <2>5. draft' \in [Peers -> Drafts]
    BY <1>5 DEF Activated, Drafts
  <2> QED
    BY <1>5, <2>4, <2>5, StillNow DEF Activated
<1>6. ASSUME NEW p \in Peers, Published(p)
      PROVE  DiscoveryTypeOK' /\ Forward /\ UNCHANGED <<announced, signed, search>>
  <2>1. PICK new : new = [no |-> revision[p].no + 1, by |-> p]
    OBVIOUS
  <2>2. new \in Revisions /\ new.no >= revision[p].no
    BY SMTT(30), <1>6, <2>1, RecordFields DEF Revisions, Published
  <2> QED
    BY <1>6, <2>1, <2>2, StillNow DEF Published
<1>7. ASSUME NEW p \in Peers, NEW q \in Peers, MembershipPromise(p, q)
      PROVE  DiscoveryTypeOK' /\ Forward /\ UNCHANGED <<announced, signed, search>>
  BY <1>7, StillNow DEF MembershipPromise
<1>8. ASSUME NEW p \in Peers, NEW q \in Peers, FollowEpoch(p, q)
      PROVE  DiscoveryTypeOK' /\ Forward /\ UNCHANGED <<announced, signed, search>>
  <2>1. accepted[q] >= accepted[p]
    BY SMTT(30), <1>8, RecordFields DEF FollowEpoch
  <2> QED
    BY <1>8, <2>1, StillNow DEF FollowEpoch
<1>9. ASSUME NEW p \in Peers, NEW q \in Peers, FollowRoll(p, q)
      PROVE  DiscoveryTypeOK' /\ Forward /\ UNCHANGED <<announced, signed, search>>
  <2>1. roll[q] \in Rolls /\ roll[q].no >= roll[p].no
    <3>1. roll[p].no \in Nat /\ roll[q].no \in Nat
      BY RecordFields
    <3> QED
      BY SMTT(30), <1>9, <3>1 DEF FollowRoll
  <2>2. roll' \in [Peers -> Rolls] /\ \A x \in Peers : roll'[x].no >= roll[x].no
    BY <1>9, <2>1, RollAdvances DEF FollowRoll
  <2>3. draft' \in [Peers -> Drafts]
    BY <1>9 DEF FollowRoll, Drafts
  <2> QED
    BY <1>9, <2>2, <2>3, StillNow DEF FollowRoll
<1>10. ASSUME NEW p \in Peers, NEW q \in Peers, FollowRevision(p, q)
       PROVE  DiscoveryTypeOK' /\ Forward /\ UNCHANGED <<announced, signed, search>>
  <2>1. revision[q].no >= revision[p].no
    BY SMTT(30), <1>10, RecordFields DEF FollowRevision
  <2> QED
    BY <1>10, <2>1, StillNow DEF FollowRevision
<1> QED
  BY <1>1, <1>2, <1>3, <1>4, <1>5, <1>6, <1>7, <1>8, <1>9, <1>10 DEF World

-----------------------------------------------------------------------------
(* The steps that keep the invariant                                       *)

(* A search that is superseded stays so while the records move forward and *)
(* only peers sign that are not past the announcement.                     *)
LEMMA StaysSupersededKept ==
    ASSUME DiscoveryConstants, DiscoveryTypeOK, DiscoveryTypeOK', Forward,
           NEW a \in Announcements, StaysSuperseded(a),
           \A q \in Peers : /\ RecoveredPast(q, a) \/ EnrolledPast(q, a) \/ RevisedPast(q, a)
                            /\ Unsigned(q)
                            => Unsigned(q)'
    PROVE  \/ Majority({q \in Peers : RecoveredPast(q, a)' /\ Unsigned(q)'}, a.roll.voters)
           \/ Majority({q \in Peers : EnrolledPast(q, a)' /\ Unsigned(q)'}, a.roll.voters)
           \/ Majority({q \in Peers : RevisedPast(q, a)' /\ Unsigned(q)'}, a.roll.voters)
<1>1. a.gen \in Nat /\ a.roll.no \in Nat /\ a.revision.no \in Nat
  BY SMTT(30) DEF Announcements, Rolls, Revisions, DiscoveryConstants
<1>2. ASSUME NEW q \in Peers
      PROVE  /\ RecoveredPast(q, a) => RecoveredPast(q, a)'
             /\ EnrolledPast(q, a) => EnrolledPast(q, a)'
             /\ RevisedPast(q, a) => RevisedPast(q, a)'
  <2>1. /\ accepted[q] \in Nat /\ promised[q] \in Nat
        /\ roll[q].no \in Nat /\ revision[q].no \in Nat
    BY RecordFields
  <2>2. /\ accepted'[q] \in Nat /\ promised'[q] \in Nat
        /\ roll'[q].no \in Nat /\ revision'[q].no \in Nat
    BY SMTT(30) DEF DiscoveryTypeOK, Rolls, Revisions, DiscoveryConstants
  <2> QED
    BY SMTT(30), <1>1, <2>1, <2>2 DEF RecoveredPast, EnrolledPast, RevisedPast, Forward
<1>3. IsFiniteSet(a.roll.voters)
  BY VotersFinite
<1>4. /\ {q \in Peers : RecoveredPast(q, a) /\ Unsigned(q)}
           \subseteq {q \in Peers : RecoveredPast(q, a)' /\ Unsigned(q)'}
      /\ {q \in Peers : EnrolledPast(q, a) /\ Unsigned(q)}
           \subseteq {q \in Peers : EnrolledPast(q, a)' /\ Unsigned(q)'}
      /\ {q \in Peers : RevisedPast(q, a) /\ Unsigned(q)}
           \subseteq {q \in Peers : RevisedPast(q, a)' /\ Unsigned(q)'}
  BY <1>2
<1>5. ASSUME NEW A, NEW B, A \subseteq B, Majority(A, a.roll.voters)
      PROVE  Majority(B, a.roll.voters)
  BY <1>3, <1>5, MajorityHeld
<1> HIDE DEF RecoveredPast, EnrolledPast, RevisedPast, Unsigned
<1> QED
  BY <1>4, <1>5 DEF StaysSuperseded

LEMMA CandidateTyped ==
    ASSUME DiscoveryInv, search.phase = "prove"
    PROVE  Candidate \in Announcements
<1>1. search.candidates \in Seq(Announcements) /\ search.nonce \in DOMAIN search.candidates
  BY DEF DiscoveryInv, DiscoveryTypeOK, Searches, InHand
<1> QED
  BY SMTT(30), <1>1 DEF Candidate

LEMMA WorldKeepsInv ==
    ASSUME DiscoveryConstants, DiscoveryInv, World
    PROVE  DiscoveryInv'
<1>1. DiscoveryTypeOK' /\ Forward /\ search' = search /\ signed' = signed
  BY WorldMoves DEF DiscoveryInv
<1>2. SignedInTurn' /\ ProvenCurrent'
  BY <1>1 DEF DiscoveryInv, SignedInTurn, ProvenCurrent
<1>3. Candidate' = Candidate
  BY <1>1 DEF Candidate
<1>4. ASSUME search.phase = "prove", search.superseded
      PROVE  StaysSuperseded(Candidate)'
  <2>1. Candidate \in Announcements /\ StaysSuperseded(Candidate)
    BY <1>4, CandidateTyped DEF DiscoveryInv, InHand
  <2>2. \A q \in Peers : Unsigned(q)' = Unsigned(q)
    BY <1>1 DEF Unsigned
  <2> QED
    BY <1>1, <1>3, <2>1, <2>2, StaysSupersededKept DEF StaysSuperseded, DiscoveryInv
<1>5. InHand'
  BY <1>1, <1>3, <1>4 DEF DiscoveryInv, InHand
<1> QED
  BY <1>1, <1>2, <1>5 DEF DiscoveryInv

(* What holds of the replies, the votes and the results of a search,       *)
(* whatever candidate it has in hand.                                      *)
Sound(s) ==
    /\ s \in Searches
    /\ \A r \in s.replies : r.kind = "vote" => r.nonce \in signed[r.from]
    /\ \A v \in s.votes : s.nonce \in signed[v.from]
    /\ \A k \in DOMAIN s.proven : ~s.proven[k].superseded

LEMMA SearchSound ==
    ASSUME DiscoveryInv
    PROVE  Sound(search)
BY DEF DiscoveryInv, DiscoveryTypeOK, SignedInTurn, ProvenCurrent, Sound

(* The candidate in hand stays in hand. *)
LEMMA SameCandidateKeepsInv ==
    ASSUME DiscoveryInv, UNCHANGED <<worldVars, signed>>,
           announced' \in [Peers -> Announcements \cup {Nothing}], Sound(search'),
           search'.phase = search.phase, search'.nonce = search.nonce,
           search'.candidates = search.candidates, search'.superseded = search.superseded,
           search.phase = "prove" /\ search'.proof # Nothing =>
               search'.proof.roll = Candidate.roll
    PROVE  DiscoveryInv'
<1> USE DEF worldVars
<1>1. DiscoveryTypeOK' /\ SignedInTurn' /\ ProvenCurrent'
  BY DEF DiscoveryInv, DiscoveryTypeOK, SignedInTurn, ProvenCurrent, Sound
<1>2. Candidate' = Candidate
  BY DEF Candidate
<1>3. StaysSuperseded(Candidate)' = StaysSuperseded(Candidate)
  BY <1>2 DEF StaysSuperseded, RecoveredPast, EnrolledPast, RevisedPast, Unsigned
<1>4. InHand'
  BY <1>2, <1>3 DEF DiscoveryInv, InHand
<1> QED
  BY <1>1, <1>4 DEF DiscoveryInv

(* No candidate is in hand. *)
LEMMA NoCandidateKeepsInv ==
    ASSUME DiscoveryInv, UNCHANGED <<worldVars, announced, signed>>, Sound(search'),
           search'.phase # "prove", search'.nonce = search.nonce
    PROVE  DiscoveryInv'
<1> USE DEF worldVars
<1>1. DiscoveryTypeOK' /\ SignedInTurn' /\ ProvenCurrent'
  BY DEF DiscoveryInv, DiscoveryTypeOK, SignedInTurn, ProvenCurrent, Sound
<1> QED
  BY <1>1 DEF DiscoveryInv, InHand

(* The next candidate is taken: nobody has signed its challenge yet. *)
LEMMA NextCandidateKeepsInv ==
    ASSUME DiscoveryConstants, DiscoveryInv, UNCHANGED <<worldVars, announced, signed>>,
           Sound(search'), search'.phase = "prove", search'.candidates = search.candidates,
           search'.nonce = search.nonce + 1, search.nonce < Len(search.candidates),
           search'.proof = Nothing,
           search'.superseded = Superseded(search.candidates[search.nonce + 1])
    PROVE  DiscoveryInv'
<1> USE DEF worldVars
<1>1. search.nonce \in Nat /\ search.candidates \in Seq(Announcements)
  BY DEF DiscoveryInv, DiscoveryTypeOK, Searches
<1>2. \A p \in Peers : \A n \in signed[p] : n \in Nat /\ n <= search.nonce
  BY DEF DiscoveryInv, DiscoveryTypeOK, SignedInTurn
<1>3. \A p \in Peers : Unsigned(p)' /\ \A n \in signed[p] : n <= search.nonce + 1
  BY SMTT(30), <1>1, <1>2 DEF Unsigned
<1>4. DiscoveryTypeOK' /\ SignedInTurn' /\ ProvenCurrent'
  BY <1>3 DEF DiscoveryInv, DiscoveryTypeOK, SignedInTurn, ProvenCurrent, Sound
<1>5. search'.nonce \in DOMAIN search'.candidates
  BY SMTT(30), <1>1
<1>6. Candidate' = search.candidates[search.nonce + 1]
  BY DEF Candidate
<1>7. ASSUME search'.superseded
      PROVE  StaysSuperseded(Candidate)'
  <2>1. PICK a : a = Candidate' /\ Superseded(a)
    BY <1>6, <1>7
  <2>2. /\ {q \in Peers : accepted[q] > a.gen \/ promised[q] > a.gen}
             = {q \in Peers : RecoveredPast(q, a)' /\ Unsigned(q)'}
        /\ {q \in Peers : roll[q].no > a.roll.no}
             = {q \in Peers : EnrolledPast(q, a)' /\ Unsigned(q)'}
        /\ {q \in Peers : revision[q].no > a.revision.no}
             = {q \in Peers : RevisedPast(q, a)' /\ Unsigned(q)'}
    BY <1>3 DEF RecoveredPast, EnrolledPast, RevisedPast
  <2> QED
    BY <2>1, <2>2 DEF Superseded, StaysSuperseded
<1> QED
  BY <1>4, <1>5, <1>7 DEF DiscoveryInv, InHand

(* search_public_worlds goes on, or has seen the last candidate. *)
LEMMA AdvanceKeepsInv ==
    ASSUME DiscoveryConstants, DiscoveryInv, UNCHANGED <<worldVars, announced, signed>>,
           NEW found, Sound(found), found.phase = "prove", found.nonce = search.nonce,
           found.candidates = search.candidates, search' = Advance(found)
    PROVE  DiscoveryInv'
<1>1. found \in Searches /\ found.nonce \in Nat
  BY DEF Sound, Searches
<1>2. CASE found.nonce < Len(found.candidates)
  <2>1. PICK n, b : n = found.nonce + 1 /\ b = Superseded(found.candidates[found.nonce + 1])
    OBVIOUS
  <2>2. n \in Nat /\ b \in BOOLEAN
    <3>1. n \in Nat
      BY SMTT(30), <1>1, <2>1
    <3>2. b \in BOOLEAN
      BY <2>1 DEF Superseded
    <3> QED
      BY <3>1, <3>2
  <2>3. search' = [found EXCEPT !.nonce = n, !.proof = Nothing, !.asked = {}, !.votes = {},
                                !.superseded = b]
    BY <1>2, <2>1 DEF Advance
  <2>4. /\ search' \in Searches /\ search'.phase = "prove"
        /\ search'.candidates = search.candidates /\ search'.nonce = n
        /\ search'.proof = Nothing /\ search'.superseded = b /\ search'.votes = {}
        /\ search'.replies = found.replies /\ search'.proven = found.proven
    BY <1>1, <2>2, <2>3 DEF Searches
  <2>5. Sound(search')
    BY <2>4 DEF Sound
  <2> QED
    BY <1>2, <2>1, <2>4, <2>5, NextCandidateKeepsInv
<1>3. CASE ~(found.nonce < Len(found.candidates))
  <2>1. search' = [found EXCEPT !.phase = "done", !.proof = Nothing, !.asked = {}, !.votes = {}]
    BY <1>3 DEF Advance
  <2>2. /\ search' \in Searches /\ search'.phase = "done" /\ search'.nonce = search.nonce
        /\ search'.votes = {}
        /\ search'.replies = found.replies /\ search'.proven = found.proven
    BY <1>1, <2>1 DEF Searches
  <2>3. Sound(search')
    BY <2>2 DEF Sound
  <2> QED
    BY <2>2, <2>3, NoCandidateKeepsInv
<1> QED
  BY <1>2, <1>3

(* resolve_world is done. *)
LEMMA ResolvedKeepsInv ==
    ASSUME DiscoveryInv, UNCHANGED <<worldVars, announced, signed>>,
           NEW found, Sound(found), found.nonce = search.nonce, search' = resolve_world(found)
    PROVE  DiscoveryInv'
<1>1. found \in Searches
  BY DEF Sound
<1>2. /\ search' \in Searches /\ search'.phase = "done" /\ search'.nonce = search.nonce
      /\ search'.votes = {}
      /\ search'.replies = found.replies /\ search'.proven = found.proven
  BY <1>1 DEF Searches, resolve_world
<1>3. Sound(search')
  BY <1>2 DEF Sound
<1> QED
  BY <1>2, <1>3, NoCandidateKeepsInv

LEMMA RefreshKeepsInv ==
    ASSUME DiscoveryConstants, DiscoveryInv, NEW p \in Peers, refresh_publications(p)
    PROVE  DiscoveryInv'
<1> USE DEF refresh_publications
<1>1. PICK new : new = [by |-> p, gen |-> accepted[p], roll |-> roll[p],
                        revision |-> revision[p], sequence |-> NextSequence(p)]
  OBVIOUS
<1>2. /\ accepted[p] \in 0 .. MaxGeneration /\ roll[p] \in Rolls /\ revision[p] \in Revisions
      /\ announced[p] \in Announcements \cup {Nothing}
  BY DEF DiscoveryInv, DiscoveryTypeOK
<1>3. announced[p] \in Announcements => announced[p].sequence \in Nat
  BY SMTT(30) DEF Announcements, DiscoveryConstants
<1>4. NextSequence(p) \in 1 .. MaxRefresh
  BY SMTT(30), <1>2, <1>3 DEF NextSequence, DiscoveryConstants
<1>5. new \in Announcements
  BY <1>1, <1>2, <1>4 DEF Announcements
<1>6. announced' \in [Peers -> Announcements \cup {Nothing}]
  BY <1>1, <1>5 DEF DiscoveryInv, DiscoveryTypeOK
<1>7. search.phase = "prove" /\ search.proof # Nothing => search.proof.roll = Candidate.roll
  BY DEF DiscoveryInv, InHand
<1> QED
  BY <1>6, <1>7, SearchSound, SameCandidateKeepsInv

LEMMA ContextKeepsInv ==
    ASSUME DiscoveryInv, NEW p \in Peers, DiscoveryFreshnessContext(p)
    PROVE  DiscoveryInv'
<1> USE DEF DiscoveryFreshnessContext
<1>1. PICK r : r = [kind |-> "context", from |-> p, roll |-> roll[p], draft |-> draft[p]]
  OBVIOUS
<1>2. r \in Contexts /\ r.kind # "vote"
  BY <1>1 DEF Contexts, DiscoveryInv, DiscoveryTypeOK
<1>3. Sound(search) /\ search \in Searches
  BY SearchSound DEF Sound
<1>4. search' = [search EXCEPT !.replies = search.replies \cup {r}]
  BY <1>1
<1>5. search.replies \cup {r} \in SUBSET (Contexts \cup Votes)
  BY <1>2, <1>3 DEF Searches
<1>6. search' \in Searches
  BY <1>3, <1>4, <1>5 DEF Searches
<1>7. /\ search'.phase = search.phase /\ search'.nonce = search.nonce
      /\ search'.candidates = search.candidates /\ search'.superseded = search.superseded
      /\ search'.proof = search.proof /\ search'.votes = search.votes
      /\ search'.proven = search.proven /\ search'.replies = search.replies \cup {r}
  BY <1>3, <1>4 DEF Searches
<1>8. Sound(search')
  BY <1>2, <1>3, <1>6, <1>7 DEF Sound
<1>9. search.phase = "prove" /\ search.proof # Nothing => search.proof.roll = Candidate.roll
  BY DEF DiscoveryInv, InHand
<1>10. announced' \in [Peers -> Announcements \cup {Nothing}]
  BY DEF DiscoveryInv, DiscoveryTypeOK
<1> QED
  BY <1>7, <1>8, <1>9, <1>10, SameCandidateKeepsInv

(* A peer that signs is not past the announcement, so the peers that are   *)
(* stay unsigned.                                                          *)
LEMMA VoteKeepsInv ==
    ASSUME DiscoveryConstants, DiscoveryInv, NEW p \in Peers, DiscoveryFreshnessVote(p)
    PROVE  DiscoveryInv'
<1> USE DEF DiscoveryFreshnessVote, worldVars
<1>1. PICK r : r = [kind |-> "vote", from |-> p, nonce |-> search.nonce,
                    draft |-> search.proof.draft]
  OBVIOUS
<1>2. Sound(search) /\ search \in Searches /\ search.nonce \in Nat
  BY SearchSound DEF Sound, Searches
<1>3. draft[p] = search.proof.draft
  BY DEF local_state_matches_freshness_challenge
<1>4. r \in Votes
  BY <1>1, <1>2, <1>3 DEF Votes, DiscoveryInv, DiscoveryTypeOK
<1>5. search' = [search EXCEPT !.replies = search.replies \cup {r}]
  BY <1>1
<1>6. search.replies \cup {r} \in SUBSET (Contexts \cup Votes)
  BY <1>2, <1>4 DEF Searches
<1>7. search' \in Searches
  BY <1>2, <1>5, <1>6 DEF Searches
<1>8. /\ search'.phase = search.phase /\ search'.nonce = search.nonce
      /\ search'.candidates = search.candidates /\ search'.superseded = search.superseded
      /\ search'.proof = search.proof /\ search'.votes = search.votes
      /\ search'.proven = search.proven /\ search'.replies = search.replies \cup {r}
  BY <1>2, <1>5 DEF Searches
<1>9. /\ signed' \in [Peers -> SUBSET Nat] /\ signed'[p] = signed[p] \cup {search.nonce}
      /\ \A q \in Peers \ {p} : signed'[q] = signed[q]
  BY <1>2 DEF DiscoveryInv, DiscoveryTypeOK
<1>10. DiscoveryTypeOK' /\ ProvenCurrent'
  BY <1>7, <1>8, <1>9 DEF DiscoveryInv, DiscoveryTypeOK, ProvenCurrent
<1>11. SignedInTurn'
  <2>1. \A q \in Peers : signed[q] \subseteq signed'[q]
    BY <1>9
  <2>2. \A q \in Peers : \A n \in signed'[q] : n \in signed[q] \/ n = search.nonce
    BY <1>9
  <2>3. search.nonce <= search.nonce
    BY SMTT(30), <1>2
  <2>4. \A x \in search.replies : x.from \in Peers
    BY <1>2 DEF Searches, Contexts, Votes
  <2>5. \A v \in search.votes : v.from \in Peers
    BY <1>2 DEF Searches
  <2>6. \A q \in Peers : \A n \in signed'[q] : n <= search'.nonce
    BY <1>8, <2>2, <2>3 DEF DiscoveryInv, SignedInTurn
  <2>7. \A x \in search'.replies : x.kind = "vote" => x.nonce \in signed'[x.from]
    <3>1. r.nonce \in signed'[r.from]
      BY <1>1, <1>9
    <3> QED
      BY <1>8, <2>1, <2>4, <3>1 DEF DiscoveryInv, SignedInTurn
  <2>8. \A v \in search'.votes : search'.nonce \in signed'[v.from]
    BY <1>8, <2>1, <2>5 DEF DiscoveryInv, SignedInTurn
  <2> QED
    BY <2>6, <2>7, <2>8 DEF SignedInTurn
<1>12. Candidate' = Candidate /\ Candidate \in Announcements
  BY <1>8, CandidateTyped DEF Candidate
<1>13. ~RecoveredPast(p, Candidate) /\ ~EnrolledPast(p, Candidate) /\ ~RevisedPast(p, Candidate)
  <2>1. /\ accepted[p] \in Nat /\ promised[p] \in Nat
        /\ roll[p].no \in Nat /\ revision[p].no \in Nat
    BY RecordFields DEF DiscoveryInv
  <2>2. /\ roll[p] = Candidate.roll /\ accepted[p] = Candidate.gen
        /\ promised[p] <= Candidate.gen /\ revision[p] = Candidate.revision
    BY DEF local_state_matches_freshness_challenge
  <2> QED
    BY SMTT(30), <2>1, <2>2 DEF RecoveredPast, EnrolledPast, RevisedPast
<1>14. \A q \in Peers : /\ \/ RecoveredPast(q, Candidate) \/ EnrolledPast(q, Candidate)
                           \/ RevisedPast(q, Candidate)
                        /\ Unsigned(q)
                        => Unsigned(q)'
  BY <1>8, <1>9, <1>13 DEF Unsigned
<1>15. Forward
  BY StillNow DEF Forward, DiscoveryInv
<1>16. search.superseded => StaysSuperseded(Candidate)'
  <2>1. search.superseded => StaysSuperseded(Candidate)
    BY DEF DiscoveryInv, InHand
  <2> QED
    BY <1>10, <1>12, <1>14, <1>15, <2>1, StaysSupersededKept DEF StaysSuperseded, DiscoveryInv
<1>17. InHand'
  BY <1>8, <1>12, <1>16 DEF DiscoveryInv, InHand
<1> QED
  BY <1>10, <1>11, <1>17 DEF DiscoveryInv

LEMMA CollectKeepsInv ==
    ASSUME DiscoveryInv, NEW p \in Peers, Collect(p)
    PROVE  DiscoveryInv'
<1> USE DEF Collect
<1>1. Sound(search) /\ search \in Searches /\ announced[p] \in Announcements
  BY SearchSound DEF Sound, Responds, DiscoveryInv, DiscoveryTypeOK
<1>2. PICK list : list = Append(search.candidates, announced[p])
  OBVIOUS
<1>3. search.candidates \in Seq(Announcements)
  BY <1>1 DEF Searches
<1>4. list \in Seq(Announcements)
  BY SMTT(30), <1>1, <1>2, <1>3
<1>5. search' = [search EXCEPT !.candidates = list]
  BY <1>2
<1>6. /\ search' \in Searches /\ search'.phase = search.phase /\ search'.nonce = search.nonce
      /\ search'.votes = search.votes /\ search'.proven = search.proven
      /\ search'.replies = search.replies
  BY <1>1, <1>4, <1>5 DEF Searches
<1>7. Sound(search')
  BY <1>1, <1>6 DEF Sound
<1> QED
  BY <1>6, <1>7, NoCandidateKeepsInv

LEMMA CollectedKeepsInv ==
    ASSUME DiscoveryConstants, DiscoveryInv, Collected
    PROVE  DiscoveryInv'
<1>1. PICK found : found = [search EXCEPT !.phase = "prove"]
  OBVIOUS
<1>2. Sound(search) /\ search \in Searches
  BY SearchSound DEF Sound
<1>3. /\ found \in Searches /\ found.phase = "prove" /\ found.nonce = search.nonce
      /\ found.candidates = search.candidates /\ found.votes = search.votes
      /\ found.proven = search.proven /\ found.replies = search.replies
  BY <1>1, <1>2 DEF Searches
<1>4. Sound(found)
  BY <1>2, <1>3 DEF Sound
<1> QED
  BY <1>1, <1>3, <1>4, AdvanceKeepsInv DEF Collected

LEMMA TimeoutKeepsInv ==
    ASSUME DiscoveryConstants, DiscoveryInv, FreshnessTimeout
    PROVE  DiscoveryInv'
<1>1. PICK found : found = [search EXCEPT !.rejected = search.rejected \cup {"stale"}]
  OBVIOUS
<1>2. Sound(search) /\ search \in Searches /\ search.phase = "prove"
  BY SearchSound DEF Sound, FreshnessTimeout
<1>3. /\ found \in Searches /\ found.phase = "prove" /\ found.nonce = search.nonce
      /\ found.candidates = search.candidates /\ found.votes = search.votes
      /\ found.proven = search.proven /\ found.replies = search.replies
  BY <1>1, <1>2 DEF Searches
<1>4. Sound(found)
  BY <1>2, <1>3 DEF Sound
<1> QED
  BY <1>1, <1>3, <1>4, AdvanceKeepsInv DEF FreshnessTimeout

LEMMA ReceiveContextKeepsInv ==
    ASSUME DiscoveryConstants, DiscoveryInv, NEW r \in search.replies, ReceiveContext(r)
    PROVE  DiscoveryInv'
<1> USE DEF ReceiveContext
<1>1. Sound(search) /\ search \in Searches /\ search.phase = "prove"
  BY SearchSound DEF Sound
<1>2. r \in Contexts
  BY <1>1 DEF Searches, Votes
<1>3. PICK rest : rest = [search EXCEPT !.replies = search.replies \ {r}]
  OBVIOUS
<1>4. /\ rest \in Searches /\ rest.phase = "prove" /\ rest.nonce = search.nonce
      /\ rest.candidates = search.candidates /\ rest.votes = search.votes
      /\ rest.superseded = search.superseded /\ rest.proven = search.proven
      /\ rest.replies = search.replies \ {r} /\ rest.rejected = search.rejected
      /\ rest.asked = search.asked
  BY <1>1, <1>3 DEF Searches
<1>5. CASE verify_discovery_membership_proof(Candidate, r)
  <2>1. PICK asked : /\ asked \in SUBSET Peers
                     /\ asked = IF search.proof = Nothing THEN Peers ELSE rest.asked
    BY <1>1, <1>4 DEF Searches
  <2>2. search' = [rest EXCEPT !.proof = r, !.asked = asked]
    BY <1>3, <1>5, <2>1
  <2>3. /\ search' \in Searches /\ search'.phase = "prove" /\ search'.nonce = search.nonce
        /\ search'.candidates = search.candidates /\ search'.votes = search.votes
        /\ search'.superseded = search.superseded /\ search'.proven = search.proven
        /\ search'.replies = search.replies \ {r} /\ search'.proof = r
    BY <1>2, <1>4, <2>1, <2>2 DEF Searches
  <2>4. Sound(search')
    BY <1>1, <2>3 DEF Sound
  <2>5. r.roll = Candidate.roll
    BY <1>5 DEF verify_discovery_membership_proof
  <2>6. announced' \in [Peers -> Announcements \cup {Nothing}]
    BY DEF DiscoveryInv, DiscoveryTypeOK
  <2> QED
    BY <1>1, <2>3, <2>4, <2>5, <2>6, SameCandidateKeepsInv
<1>6. CASE ~verify_discovery_membership_proof(Candidate, r)
  <2>1. PICK found : found = [rest EXCEPT !.rejected = rest.rejected \cup {"invalid"}]
    OBVIOUS
  <2>2. /\ found \in Searches /\ found.phase = "prove" /\ found.nonce = search.nonce
        /\ found.candidates = search.candidates /\ found.votes = search.votes
        /\ found.proven = search.proven /\ found.replies = search.replies \ {r}
    BY <1>4, <2>1 DEF Searches
  <2>3. Sound(found)
    BY <1>1, <2>2 DEF Sound
  <2>4. search' = Advance(found)
    BY <1>3, <1>6, <2>1
  <2> QED
    BY <2>2, <2>3, <2>4, AdvanceKeepsInv
<1> QED
  BY <1>5, <1>6

(* A quorum of signatures meets every majority of the voters, so the world *)
(* had not moved past the candidate when its challenge was drawn.          *)
LEMMA QuorumIsCurrent ==
    ASSUME DiscoveryConstants, DiscoveryInv, search.phase = "prove", search.proof # Nothing,
           NEW signers, \A q \in signers : search.nonce \in signed[q],
           validate_discovery_freshness_quorum(search.proof, signers)
    PROVE  ~search.superseded
<1>1. Majority(signers, Candidate.roll.voters)
  BY DEF DiscoveryInv, InHand, validate_discovery_freshness_quorum
<1>2. IsFiniteSet(Candidate.roll.voters)
  BY CandidateTyped, VotersFinite
<1>3. SUFFICES ASSUME StaysSuperseded(Candidate)
               PROVE  FALSE
  BY DEF DiscoveryInv, InHand
<1>4. PICK A : Majority(A, Candidate.roll.voters) /\ \A q \in A : Unsigned(q)
  <2>1. /\ \A q \in {x \in Peers : RecoveredPast(x, Candidate) /\ Unsigned(x)} : Unsigned(q)
        /\ \A q \in {x \in Peers : EnrolledPast(x, Candidate) /\ Unsigned(x)} : Unsigned(q)
        /\ \A q \in {x \in Peers : RevisedPast(x, Candidate) /\ Unsigned(x)} : Unsigned(q)
    OBVIOUS
  <2> QED
    BY <1>3, <2>1 DEF StaysSuperseded
<1>5. \E q \in Candidate.roll.voters : q \in A /\ q \in signers
  BY <1>1, <1>2, <1>4, VotersMeet
<1> QED
  BY <1>4, <1>5 DEF Unsigned

(* The replay guard only touches the result and the rejections. *)
LEMMA AcceptSound ==
    ASSUME NEW found, Sound(found), found.nonce \in DOMAIN found.candidates
    PROVE  /\ Sound(accept(found)) /\ accept(found).phase = found.phase
           /\ accept(found).nonce = found.nonce /\ accept(found).candidates = found.candidates
<1>1. found \in Searches
  BY DEF Sound
<1>2. found.candidates[found.nonce] \in Announcements
  <2>1. found.candidates \in Seq(Announcements)
    BY <1>1 DEF Searches
  <2> QED
    BY SMTT(30), <2>1
<1>3. PICK new : new = accept(found)
  OBVIOUS
<1>4. /\ new \in Searches /\ new.phase = found.phase /\ new.nonce = found.nonce
      /\ new.candidates = found.candidates /\ new.votes = found.votes
      /\ new.proven = found.proven /\ new.replies = found.replies
  <2>1. CASE new = [found EXCEPT !.result = found.candidates[found.nonce]]
    BY <1>1, <1>2, <2>1 DEF Searches
  <2>2. CASE new = [found EXCEPT !.rejected = found.rejected \cup {"stale"}]
    BY <1>1, <2>2 DEF Searches
  <2> QED
    BY <1>3, <2>1, <2>2 DEF accept
<1>5. Sound(new)
  BY <1>4 DEF Sound
<1> QED
  BY <1>3, <1>4, <1>5

(* What is recorded of a candidate whose quorum is complete. *)
LEMMA FreshSound ==
    ASSUME NEW found, Sound(found), found.nonce \in DOMAIN found.candidates,
           Candidate \in Announcements, ~found.superseded
    PROVE  LET new == validate_fresh_discovery_candidate(found)
           IN  /\ Sound(new) /\ new.phase = found.phase
               /\ new.nonce = found.nonce /\ new.candidates = found.candidates
<1>1. found \in Searches /\ found.superseded = FALSE
  BY DEF Sound, Searches
<1>2. CASE \A v \in found.votes : v.draft = found.proof.draft
  <2>1. PICK list : list = Append(found.proven, [of |-> Candidate, superseded |-> FALSE])
    OBVIOUS
  <2>2. found.proven \in Seq([of : Announcements, superseded : BOOLEAN])
    BY <1>1 DEF Searches
  <2>3. /\ list \in Seq([of : Announcements, superseded : BOOLEAN])
        /\ \A k \in DOMAIN list : \/ k \in DOMAIN found.proven /\ list[k] = found.proven[k]
                                  \/ ~list[k].superseded
    BY SMTT(30), <2>1, <2>2
  <2>4. PICK new : new = [found EXCEPT !.proven = list]
    OBVIOUS
  <2>5. /\ new \in Searches /\ new.phase = found.phase /\ new.nonce = found.nonce
        /\ new.candidates = found.candidates /\ new.votes = found.votes
        /\ new.proven = list /\ new.replies = found.replies
    BY <1>1, <2>3, <2>4 DEF Searches
  <2>6. Sound(new)
    BY <2>3, <2>5 DEF Sound
  <2>7. validate_fresh_discovery_candidate(found) = accept(new)
    BY <1>1, <1>2, <2>1, <2>4 DEF validate_fresh_discovery_candidate
  <2> QED
    BY <2>5, <2>6, <2>7, AcceptSound
<1>3. CASE ~\A v \in found.votes : v.draft = found.proof.draft
  <2>1. PICK new : new = [found EXCEPT !.rejected = found.rejected \cup {"invalid"}]
    OBVIOUS
  <2>2. /\ new \in Searches /\ new.phase = found.phase /\ new.nonce = found.nonce
        /\ new.candidates = found.candidates /\ new.votes = found.votes
        /\ new.proven = found.proven /\ new.replies = found.replies
    BY <1>1, <2>1 DEF Searches
  <2>3. Sound(new)
    BY <2>2 DEF Sound
  <2>4. validate_fresh_discovery_candidate(found) = new
    BY <1>3, <2>1 DEF validate_fresh_discovery_candidate
  <2> QED
    BY <2>2, <2>3, <2>4
<1> QED
  BY <1>2, <1>3

LEMMA ReceiveVoteKeepsInv ==
    ASSUME DiscoveryConstants, DiscoveryInv, NEW r \in search.replies, ReceiveVote(r)
    PROVE  DiscoveryInv'
<1>1. Sound(search) /\ search \in Searches /\ search.phase = "prove" /\ search.proof # Nothing
  BY SearchSound DEF Sound, ReceiveVote
<1>2. /\ r \in Votes /\ r.nonce = search.nonce /\ r.from \in Peers /\ r.draft \in Drafts
      /\ search.nonce \in signed[r.from]
  BY <1>1 DEF Searches, Votes, Contexts, Sound, ReceiveVote
<1>3. PICK v : v = [from |-> r.from, draft |-> r.draft]
  OBVIOUS
<1>4. PICK found : found = [search EXCEPT !.replies = search.replies \ {r},
                                          !.votes = search.votes \cup {v}]
  OBVIOUS
<1>5. /\ found.phase = "prove" /\ found.nonce = search.nonce
      /\ found.candidates = search.candidates /\ found.superseded = search.superseded
      /\ found.proof = search.proof /\ found.votes = search.votes \cup {v}
      /\ found.proven = search.proven /\ found.replies = search.replies \ {r}
  BY <1>1, <1>4 DEF Searches
<1>6. found \in Searches
  <2>1. v \in [from : Peers, draft : Drafts]
    BY <1>2, <1>3
  <2>2. search.votes \cup {v} \in SUBSET [from : Peers, draft : Drafts]
    BY <1>1, <2>1 DEF Searches
  <2> QED
    BY <1>1, <1>4, <2>2 DEF Searches
<1>7. Sound(found)
  <2>1. \A x \in found.votes : found.nonce \in signed[x.from]
    <3>1. v.from = r.from
      BY <1>3
    <3> QED
      BY <1>1, <1>2, <1>5, <3>1 DEF Sound
  <2>2. \A x \in found.replies : x.kind = "vote" => x.nonce \in signed[x.from]
    BY <1>1, <1>5 DEF Sound
  <2>3. \A k \in DOMAIN found.proven : ~found.proven[k].superseded
    BY <1>1, <1>5 DEF Sound
  <2> QED
    BY <1>6, <2>1, <2>2, <2>3 DEF Sound
<1>8. UNCHANGED <<worldVars, announced, signed>>
  BY DEF ReceiveVote
<1>9. CASE validate_discovery_freshness_quorum(found.proof, {x.from : x \in found.votes})
  <2>1. \A q \in {x.from : x \in found.votes} : search.nonce \in signed[q]
    BY <1>5, <1>7 DEF Sound
  <2>2. ~found.superseded
    BY <1>1, <1>5, <1>9, <2>1, QuorumIsCurrent
  <2>3. found.nonce \in DOMAIN found.candidates /\ Candidate \in Announcements
    BY <1>1, <1>5, CandidateTyped DEF DiscoveryInv, InHand
  <2>4. PICK proven : /\ proven = validate_fresh_discovery_candidate(found)
                      /\ Sound(proven) /\ proven.phase = "prove"
                      /\ proven.nonce = search.nonce /\ proven.candidates = search.candidates
    BY <1>5, <1>7, <2>2, <2>3, FreshSound
  <2>5. search' = Advance(proven) \/ search' = resolve_world(proven)
    BY <1>3, <1>4, <1>9, <2>4 DEF ReceiveVote, search_public_worlds
  <2> QED
    BY <1>8, <2>4, <2>5, AdvanceKeepsInv, ResolvedKeepsInv
<1>10. CASE ~validate_discovery_freshness_quorum(found.proof, {x.from : x \in found.votes})
  <2>1. search' = found
    BY <1>3, <1>4, <1>10 DEF ReceiveVote
  <2>2. search.proof.roll = Candidate.roll
    BY <1>1 DEF DiscoveryInv, InHand
  <2>3. announced' \in [Peers -> Announcements \cup {Nothing}]
    BY <1>8 DEF DiscoveryInv, DiscoveryTypeOK
  <2> QED
    BY <1>1, <1>5, <1>7, <1>8, <2>1, <2>2, <2>3, SameCandidateKeepsInv
<1> QED
  BY <1>9, <1>10

-----------------------------------------------------------------------------
(* A search for a world: the theorems                                      *)

LEMMA DiscoveryInvInit ==
    ASSUME DiscoveryConstants, DiscoveryInit
    PROVE  DiscoveryInv
<1> USE DEF DiscoveryInit
<1>1. Creator \in Peers /\ Founders \in SUBSET Peers
  BY DEF DiscoveryConstants, Peers
<1>2. 0 \in 0 .. MaxGeneration /\ 0 \in 0 .. MaxRevision /\ 0 \in Nat
  BY SMTT(30) DEF DiscoveryConstants
<1>3. /\ [no |-> 0, by |-> Creator, gen |-> 0, voters |-> Founders] \in Rolls
      /\ [no |-> 0, by |-> Creator] \in Revisions
  BY <1>1, <1>2 DEF Rolls, Revisions
<1>4. search \in Searches
  BY SMTT(30) DEF Idle, Searches
<1>5. DiscoveryTypeOK
  BY <1>1, <1>2, <1>3, <1>4 DEF DiscoveryTypeOK, Drafts
<1>6. search.replies = {} /\ search.votes = {} /\ search.phase = "collect" /\ search.proven = <<>>
  BY DEF Idle
<1>7. ProvenCurrent
  BY SMTT(30), <1>6 DEF ProvenCurrent
<1>8. SignedInTurn /\ InHand
  BY <1>6 DEF SignedInTurn, InHand
<1> QED
  BY <1>5, <1>7, <1>8 DEF DiscoveryInv

LEMMA DiscoveryInvStep ==
    ASSUME DiscoveryConstants, DiscoveryInv, [DiscoveryNext]_discoveryVars
    PROVE  DiscoveryInv'
<1>1. CASE DiscoveryNext
  BY <1>1, WorldKeepsInv, RefreshKeepsInv, ContextKeepsInv, VoteKeepsInv, CollectKeepsInv,
     CollectedKeepsInv, TimeoutKeepsInv, ReceiveContextKeepsInv, ReceiveVoteKeepsInv
     DEF DiscoveryNext, Served
<1>2. CASE UNCHANGED discoveryVars
  <2>1. search.phase = "prove" /\ search.proof # Nothing => search.proof.roll = Candidate.roll
    BY DEF DiscoveryInv, InHand
  <2>2. announced' \in [Peers -> Announcements \cup {Nothing}] /\ search' = search
        /\ UNCHANGED <<worldVars, signed>>
    BY <1>2 DEF DiscoveryInv, DiscoveryTypeOK, discoveryVars
  <2> QED
    BY <2>1, <2>2, SearchSound, SameCandidateKeepsInv
<1> QED
  BY <1>1, <1>2

(* What a search, its candidates and its answers are, whatever the members *)
(* write meanwhile (discovery.rs, prove_candidate_freshness).              *)
THEOREM DiscoveryInvCorrect == DiscoverySpec => []DiscoveryInv
<1>1. DiscoveryConstants
  BY DiscoveryAssumption
<1>2. DiscoveryInit => DiscoveryInv
  BY <1>1, DiscoveryInvInit
<1>3. DiscoveryInv /\ [DiscoveryNext]_discoveryVars => DiscoveryInv'
  BY <1>1, DiscoveryInvStep
<1> QED
  BY <1>2, <1>3, PTL DEF DiscoverySpec

(* A search believes no announcement that a majority of its voters had     *)
(* left behind when the challenge was drawn (prove_candidate_freshness),   *)
(* for any number of voters, joiners, candidates and recoveries.           *)
THEOREM ProvenCurrentCorrect == DiscoverySpec => []ProvenCurrent
<1>1. DiscoveryInv => ProvenCurrent
  BY DEF DiscoveryInv
<1> QED
  BY <1>1, DiscoveryInvCorrect, PTL
=============================================================================
