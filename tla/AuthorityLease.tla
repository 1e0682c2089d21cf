--------------------------- MODULE AuthorityLease ---------------------------
(***************************************************************************)
(* The real-time side of an authority change: leases and their             *)
(* acknowledgements, the recovery window of the followers, the             *)
(* authority.permit file with its heartbeat, and the guard inside the      *)
(* Minecraft server that stops the game when the heartbeat stops           *)
(* (crates/swarm-cli/src/daemon.rs, authority_permit.rs, migration.rs and  *)
(* the Fabric mod).                                                        *)
(*                                                                         *)
(* One hand-over is followed: Holder is the authority of generation 1,     *)
(* Successor recovers generation 2.  AuthorityRecovery treats rivals,      *)
(* rounds and crashes; here every event happens at a whole second, in any  *)
(* order within it, and every daemon ticks once a second.                  *)
(***************************************************************************)
EXTENDS Integers, FiniteSets, SwarmQuorum

CONSTANTS
    Peers,          \* the members
    Holder,         \* the authority at the start
    Successor,      \* the member that recovers the authority
    LeaseDuration,  \* AUTHORITY_LEASE_DURATION_MS, in seconds
    SettleDelay,    \* RECOVERY_SETTLE_DELAY
    PermitTimeout,  \* PERMIT_TIMEOUT of the supervisor and of the guard
    StartTimeout,   \* PERMIT_START_TIMEOUT
    MaxDelay,       \* bound on the time an acknowledgement travels
    MaxReconnects   \* bound on links that come back

ASSUME LeaseAssumption ==
    /\ IsFiniteSet(Peers) /\ {Holder, Successor} \subseteq Peers /\ Holder # Successor
    /\ {LeaseDuration, SettleDelay, PermitTimeout, StartTimeout} \subseteq Nat \ {0}
    /\ PermitTimeout <= StartTimeout
    /\ MaxDelay \in Nat /\ MaxReconnects \in Nat

VARIABLES
    generation, \* the accepted generation of each member
    sees,       \* authenticated_peers of each daemon
    window,     \* seconds until a member's recovery window opens
    lease,      \* the lease request of an authority to a member, and its answer
    fresh,      \* seconds for which an authority counts a member's answer
    votes,      \* votes for the Successor's ballot; empty without a ballot
    asked,      \* ballot requests on their way
    announced,  \* RecoveryEpoch requests on their way
    epochAcks,  \* members that acknowledged generation 2 to the Successor
    file,       \* whether authority.permit exists
    beats,      \* heartbeats the supervisor saw since it waits: none, one, more
    game,       \* the Minecraft server of an authority and its guard
    ticked,     \* daemons whose lease tick of this second is over
    reconnects, \* links that came back
    moved       \* history: seconds since a member accepted generation 2

vars == <<generation, sees, window, lease, fresh, votes, asked, announced, epochAcks,
          file, beats, game, ticked, reconnects, moved>>

Authorities == {Holder, Successor}
N == Cardinality(Peers)

NoLease == [stage |-> "idle", age |-> 0]
NoGame == [stage |-> "off", left |-> 0]

GenerationOf(p) == IF p = Holder THEN 1 ELSE 2
IsAuthority(p) == generation[p] = GenerationOf(p)
Majority(others) == has_quorum(N, 1 + Cardinality(others))

(* Bound on the history variable: the first value past the longest time    *)
(* for which an acknowledgement of a member that has moved on can count.   *)
MovedLimit == LeaseDuration + MaxDelay + 1

(* From a lease grant to the end of the settle delay behind its expiry.    *)
RecoveryDelay == LeaseDuration + SettleDelay

TypeOK ==
    /\ generation \in [Peers -> 1..2]
    /\ sees \in [Peers -> SUBSET Peers]
    /\ window \in [Peers -> 0..(LeaseDuration + SettleDelay)]
    /\ lease \in [Authorities -> [Peers -> [stage : {"idle", "asked", "granted"}, age : 0..MaxDelay]]]
    /\ fresh \in [Authorities -> [Peers -> 0..LeaseDuration]]
    /\ votes \subseteq Peers /\ asked \subseteq Peers
    /\ announced \subseteq Peers /\ epochAcks \subseteq Peers
    /\ file \in [Authorities -> BOOLEAN]
    /\ beats \in [Authorities -> 0..2]
    /\ game \in [Authorities -> [stage : {"off", "booting", "started", "seen", "live"}, left : 0..StartTimeout]]
    /\ ticked \subseteq Authorities
    /\ reconnects \in 0..MaxReconnects
    /\ moved \in [Peers -> 0..MovedLimit]

(* All members are connected and the daemons have just started.            *)
Init ==
    /\ generation = [p \in Peers |-> 1]
    /\ sees = [p \in Peers |-> Peers \ {p}]
    /\ window = [p \in Peers |-> RecoveryDelay]
    /\ lease = [p \in Authorities |-> [q \in Peers |-> NoLease]]
    /\ fresh = [p \in Authorities |-> [q \in Peers |-> 0]]
    /\ votes = {} /\ asked = {} /\ announced = {} /\ epochAcks = {}
    /\ file = [p \in Authorities |-> FALSE]
    /\ beats = [p \in Authorities |-> 0]
    /\ game = [p \in Authorities |-> NoGame]
    /\ ticked = {} /\ reconnects = 0
    /\ moved = [q \in Peers |-> 0]
-----------------------------------------------------------------------------
(* NetworkEvent::Disconnected at p: what q acknowledged or voted is gone,  *)
(* and so is what p asked of q.  The other end notices on its own.         *)
Disconnected(p, q) ==
    /\ q \in sees[p]
    /\ sees' = [sees EXCEPT ![p] = @ \ {q}]
    /\ lease' = [a \in Authorities |-> IF a = p THEN [lease[a] EXCEPT ![q] = NoLease] ELSE lease[a]]
    /\ fresh' = [a \in Authorities |-> IF a = p THEN [fresh[a] EXCEPT ![q] = 0] ELSE fresh[a]]
    /\ IF p = Successor
       THEN /\ votes' = votes \ {q} /\ epochAcks' = epochAcks \ {q}
            /\ asked' = asked \ {q} /\ announced' = announced \ {q}
       ELSE /\ asked' = IF q = Successor THEN asked \ {p} ELSE asked
            /\ announced' = IF q = Successor THEN announced \ {p} ELSE announced
            /\ UNCHANGED <<votes, epochAcks>>
    /\ UNCHANGED <<generation, window, file, beats, game, ticked, reconnects, moved>>

(* NetworkEvent::Authenticated at both ends of a new connection.           *)
Authenticated(p, q) ==
    /\ p # q /\ q \notin sees[p] /\ p \notin sees[q]
    /\ reconnects < MaxReconnects
    /\ reconnects' = reconnects + 1
    /\ sees' = [sees EXCEPT ![p] = @ \cup {q}, ![q] = @ \cup {p}]
    /\ UNCHANGED <<generation, window, lease, fresh, votes, asked, announced, epochAcks,
                   file, beats, game, ticked, moved>>

(* A slip: a lease is granted to the authority of any generation.          *)
GrantsAnyGeneration(p, q) ==
    /\ lease[p][q].stage = "asked" /\ p \in sees[q]
    /\ window' = [window EXCEPT ![q] = RecoveryDelay]
    /\ lease' = [lease EXCEPT ![p][q] = [stage |-> "granted", age |-> 0]]
    /\ UNCHANGED <<generation, sees, fresh, votes, asked, announced, epochAcks,
                   file, beats, game, ticked, reconnects, moved>>

(* WireRequest::LeaseGrant at q: only the authority of the accepted        *)
(* generation is granted a lease; any other request gets no answer and     *)
(* fails at the sender.                                                    *)
LeaseGrant(p, q) ==
    /\ lease[p][q].stage = "asked" /\ p \in sees[q]
    /\ generation[q] = GenerationOf(p)
    /\ window' = [window EXCEPT ![q] = RecoveryDelay]
    /\ lease' = [lease EXCEPT ![p][q] = [stage |-> "granted", age |-> 0]]
    /\ UNCHANGED <<generation, sees, fresh, votes, asked, announced, epochAcks,
                   file, beats, game, ticked, reconnects, moved>>

(* WireResponse::LeaseAccepted: counted from the moment it arrives.        *)
LeaseAccepted(p, q) ==
    /\ lease[p][q].stage = "granted"
    /\ fresh' = [fresh EXCEPT ![p][q] = LeaseDuration]
    /\ lease' = [lease EXCEPT ![p][q] = NoLease]
    /\ UNCHANGED <<generation, sees, window, votes, asked, announced, epochAcks,
                   file, beats, game, ticked, reconnects, moved>>

(* NetworkEvent::OutboundFailure of a lease request: q refuses it or has   *)
(* closed the connection.                                                  *)
LeaseFails(p, q) ==
    /\ lease[p][q].stage # "idle"
    /\ p \in sees[q] => lease[p][q].stage = "asked" /\ generation[q] # GenerationOf(p)
    /\ lease' = [lease EXCEPT ![p][q] = NoLease]
    /\ fresh' = [fresh EXCEPT ![p][q] = 0]
    /\ UNCHANGED <<generation, sees, window, votes, asked, announced, epochAcks,
                   file, beats, game, ticked, reconnects, moved>>
-----------------------------------------------------------------------------
(* observePermit of the guard when the heartbeat in the file changes.      *)
Observed(g) ==
    CASE g.stage = "started" -> [stage |-> "seen", left |-> g.left]
      [] g.stage \in {"seen", "live"} -> [stage |-> "live", left |-> PermitTimeout]
      [] OTHER -> g

(* refresh_permit writes the next heartbeat; supervisor and guard see it.  *)
refresh_permit(p) ==
    /\ file' = [file EXCEPT ![p] = TRUE]
    /\ beats' = [beats EXCEPT ![p] = IF @ = 2 THEN 2 ELSE @ + 1]
    /\ game' = [game EXCEPT ![p] = Observed(@)]

(* clear_permit removes the file; nobody is told.                          *)
clear_permit(p) ==
    /\ file' = [file EXCEPT ![p] = FALSE]
    /\ UNCHANGED <<beats, game>>

FreshAcks(p) == {q \in sees[p] : fresh[p][q] > 0}
EpochQuorum(p) == p = Holder \/ Majority(epochAcks \cap sees[p])

(* The tick of the accepted authority (maintain_local_authority, behind    *)
(* maintain_recovery_epoch_quorum for a Recovery epoch).                   *)
AuthorityTick(p) ==
    /\ p \notin ticked /\ IsAuthority(p)
    /\ announced' = IF p = Holder THEN announced ELSE announced \cup (sees[p] \ epochAcks)
    /\ lease' = [lease EXCEPT ![p] =
                    [q \in Peers |-> IF EpochQuorum(p) /\ q \in sees[p] /\ @[q].stage = "idle"
                                     THEN [stage |-> "asked", age |-> 0] ELSE @[q]]]
    /\ IF EpochQuorum(p) /\ Majority(FreshAcks(p)) THEN refresh_permit(p) ELSE clear_permit(p)
    /\ ticked' = ticked \cup {p}
    /\ UNCHANGED <<generation, sees, window, fresh, votes, asked, epochAcks, reconnects, moved>>

(* A slip: a member campaigns and votes without waiting for the lease.     *)
LostAtOnce(q) == generation[q] = 1 /\ Holder \notin sees[q]

(* What lets a member act on the loss of its authority: it is not          *)
(* connected to it and its recovery window is open.                        *)
HolderLost(q) == generation[q] = 1 /\ Holder \notin sees[q] /\ window[q] = 0
Campaigns == HolderLost(Successor) /\ Majority(sees[Successor])

(* drive_recovery_ballot without a majority of votes: open the ballot with *)
(* the own vote if there is none, and ask the connected members.           *)
BallotTick ==
    /\ Successor \notin ticked /\ Campaigns
    /\ ~has_quorum(N, Cardinality(votes))
    /\ votes' = votes \cup {Successor}
    /\ asked' = asked \cup sees[Successor]
    /\ file' = [file EXCEPT ![Successor] = FALSE]
    /\ ticked' = ticked \cup {Successor}
    /\ UNCHANGED <<generation, sees, window, lease, fresh, announced, epochAcks,
                   beats, game, reconnects, moved>>

(* drive_recovery_ballot with a majority of votes: the Recovery epoch.     *)
PromoteTick ==
    /\ Successor \notin ticked /\ Campaigns
    /\ has_quorum(N, Cardinality(votes))
    /\ generation' = [generation EXCEPT ![Successor] = 2]
    /\ announced' = announced \cup sees[Successor]
    /\ votes' = {} /\ epochAcks' = {}
    /\ fresh' = [fresh EXCEPT ![Successor] = [q \in Peers |-> 0]]
    /\ beats' = [beats EXCEPT ![Successor] = 0]
    /\ file' = [file EXCEPT ![Successor] = FALSE]
    /\ ticked' = ticked \cup {Successor}
    /\ UNCHANGED <<sees, window, lease, asked, game, reconnects, moved>>

(* The tick of a follower that has nothing to recover.                     *)
FollowerTick(p) ==
    /\ p \notin ticked /\ ~IsAuthority(p)
    /\ p = Successor => ~Campaigns
    /\ clear_permit(p)
    /\ ticked' = ticked \cup {p}
    /\ UNCHANGED <<generation, sees, window, lease, fresh, votes, asked, announced,
                   epochAcks, reconnects, moved>>
-----------------------------------------------------------------------------
(* WireRequest::RecoveryBallot at q and the RecoveryVote it answers with.  *)
RecoveryBallot(q) ==
    /\ q \in asked /\ Successor \in sees[q]
    /\ asked' = asked \ {q}
    /\ votes' = IF HolderLost(q) /\ votes # {} THEN votes \cup {q} ELSE votes
    /\ UNCHANGED <<generation, sees, window, lease, fresh, announced, epochAcks,
                   file, beats, game, ticked, reconnects, moved>>

(* WireRequest::RecoveryEpoch at q: the epoch extends what q accepted, or  *)
(* repeats it.  A repeat may be refused.                                   *)
RecoveryEpoch(q) ==
    /\ q \in announced /\ Successor \in sees[q]
    /\ announced' = announced \ {q}
    /\ generation' = [generation EXCEPT ![q] = 2]
    /\ \/ epochAcks' = epochAcks \cup {q}
       \/ generation[q] = 2 /\ epochAcks' = epochAcks
    /\ UNCHANGED <<sees, window, lease, fresh, votes, asked,
                   file, beats, game, ticked, reconnects, moved>>

(* A request to a member that has closed the connection fails.             *)
RequestFails(q) ==
    /\ q \in asked \cup announced /\ Successor \notin sees[q]
    /\ asked' = asked \ {q} /\ announced' = announced \ {q}
    /\ votes' = votes \ {q} /\ epochAcks' = epochAcks \ {q}
    /\ UNCHANGED <<generation, sees, window, lease, fresh,
                   file, beats, game, ticked, reconnects, moved>>
-----------------------------------------------------------------------------
(* wait_until_launch_safe: the permit of this generation is there and its  *)
(* heartbeat has changed; then the server is launched and boots.           *)
Launch(p) ==
    /\ game[p].stage = "off" /\ IsAuthority(p)
    /\ file[p] /\ beats[p] = 2
    /\ game' = [game EXCEPT ![p] = [stage |-> "booting", left |-> 0]]
    /\ UNCHANGED <<generation, sees, window, lease, fresh, votes, asked, announced,
                   epochAcks, file, beats, ticked, reconnects, moved>>

(* The server has started: the world ticks and the guard begins to watch.  *)
serverStarted(p) ==
    /\ game[p].stage = "booting"
    /\ game' = [game EXCEPT ![p] = [stage |-> IF file[p] THEN "seen" ELSE "started",
                                    left |-> StartTimeout]]
    /\ UNCHANGED <<generation, sees, window, lease, fresh, votes, asked, announced,
                   epochAcks, file, beats, ticked, reconnects, moved>>

Superseded(p) == game[p].stage \notin {"off", "booting"} /\ ~IsAuthority(p)
Expired(p) == game[p].stage \notin {"off", "booting"} /\ game[p].left = 0

(* The guard's watchLoop expires, or ensure_authority_generation fails.    *)
GameStops(p) ==
    /\ Superseded(p) \/ Expired(p)
    /\ game' = [game EXCEPT ![p] = NoGame]
    /\ beats' = [beats EXCEPT ![p] = 0]
    /\ UNCHANGED <<generation, sees, window, lease, fresh, votes, asked, announced,
                   epochAcks, file, ticked, reconnects, moved>>

Less(n) == IF n = 0 THEN 0 ELSE n - 1

(* A second passes once everything due in it has happened.                 *)
Second ==
    /\ ticked = Authorities /\ asked = {} /\ announced = {}
    /\ \A p \in Authorities : ~Superseded(p) /\ ~Expired(p)
    /\ \A p \in Authorities, q \in Peers : lease[p][q].age = MaxDelay => lease[p][q].stage # "granted"
    /\ ticked' = {}
    /\ window' = [q \in Peers |-> Less(window[q])]
    /\ fresh' = [p \in Authorities |-> [q \in Peers |-> Less(fresh[p][q])]]
    /\ lease' = [p \in Authorities |-> [q \in Peers |->
                    IF lease[p][q].stage = "granted"
                    THEN [stage |-> "granted", age |-> lease[p][q].age + 1]
                    ELSE lease[p][q]]]
    /\ game' = [p \in Authorities |-> [stage |-> game[p].stage, left |-> Less(game[p].left)]]
    /\ moved' = [q \in Peers |-> IF generation[q] = 2 /\ moved[q] < MovedLimit
                                 THEN moved[q] + 1 ELSE moved[q]]
    /\ UNCHANGED <<generation, sees, votes, asked, announced, epochAcks, file, beats, reconnects>>

Next ==
    \/ Second
    \/ BallotTick \/ PromoteTick
    \/ \E p \in Authorities : \/ AuthorityTick(p) \/ FollowerTick(p)
                              \/ Launch(p) \/ serverStarted(p) \/ GameStops(p)
    \/ \E p \in Authorities, q \in Peers : \/ LeaseGrant(p, q) \/ LeaseAccepted(p, q)
                                           \/ LeaseFails(p, q)
    \/ \E q \in Peers : RecoveryBallot(q) \/ RecoveryEpoch(q) \/ RequestFails(q)
    \/ \E p, q \in Peers : Disconnected(p, q) \/ Authenticated(p, q)

Spec == Init /\ [][Next]_vars
-----------------------------------------------------------------------------
(* At no time do authority.permit files of two generations exist: the      *)
(* lease of the old authority has run out, by the clock of every member    *)
(* whose vote elects the new one, before the new one can gather its        *)
(* acknowledgements (recovery_window_open against the freshness test of    *)
(* maintain_local_authority).                                              *)
OnePermit == ~(file[Holder] /\ file[Successor])

(* Two Minecraft servers whose guards have seen a living heartbeat never   *)
(* run together: PERMIT_TIMEOUT stops the old one before the new one has   *)
(* been recovered, permitted, launched and confirmed.                      *)
OneLiveSimulation == ~(game[Holder].stage = "live" /\ game[Successor].stage = "live")

(* However links fail and return, the permit file of a deposed authority   *)
(* is gone once a majority has been in the new generation for longer than  *)
(* an acknowledgement can travel and count: LeaseGrant answers only the    *)
(* accepted generation, and maintain_local_authority forgets old answers.  *)
StalePermitBounded ==
    file[Holder] =>
        ~has_quorum(N, Cardinality({q \in Peers : moved[q] > LeaseDuration + MaxDelay}))
-----------------------------------------------------------------------------
(* q no longer takes part in the Holder's lease.                           *)
Released(q) ==
    /\ q # Holder /\ Holder \notin sees[q]
    /\ fresh[Holder][q] = 0 /\ lease[Holder][q].stage # "granted"

(* The Holder counts the answer of a member for a shorter time than that   *)
(* member waits before it acts on the loss of the Holder: observed_at is   *)
(* later than the grant by at most MaxDelay, and RECOVERY_SETTLE_DELAY     *)
(* makes up for it.                                                        *)
AckWithinWindow(q) ==
    /\ lease[Holder][q].stage = "granted" =>
          window[q] + lease[Holder][q].age >= LeaseDuration + SettleDelay
    /\ fresh[Holder][q] > 0 => window[q] + MaxDelay >= SettleDelay + fresh[Holder][q]

(* The members that cannot vote in this second.                            *)
Waiting == {q \in Peers : q = Holder \/ (window[q] > 0 /\ q \notin votes)}

(* Why OnePermit holds while links do not return.  Whoever votes has left  *)
(* the Holder's lease for good, so the majority that elects the Successor  *)
(* meets every majority the Holder could count; a permit the Holder        *)
(* renewed in this second (refresh_permit) rests on members that cannot    *)
(* vote in it.                                                             *)
HandoverInv ==
    /\ \A p \in Peers : p \notin sees[p]
    /\ \A q \in Peers : generation[q] = 1 => AckWithinWindow(q)
    /\ Holder \notin asked
    /\ \A q \in votes : Released(q)
    /\ generation[Successor] = 1 => announced = {} /\ \A q \in Peers : generation[q] = 1
    /\ generation[Successor] = 1 /\ file[Holder] /\ Holder \in ticked =>
          has_quorum(N, Cardinality(Waiting))
    /\ generation[Successor] = 2 => has_quorum(N, Cardinality({q \in Peers : Released(q)}))
    /\ generation[Successor] = 2 /\ file[Holder] =>
          Holder \notin ticked /\ Successor \in ticked /\ ~file[Successor]
    /\ file[Successor] => generation[Successor] = 2

(* The Holder's server is not live, or its last heartbeat is k seconds old. *)
Beyond(k) == game[Holder].stage = "live" => game[Holder].left + k <= PermitTimeout

(* The shortest time from a heartbeat of the Holder to a vote for the      *)
(* Successor, which counts at its next tick.                               *)
Reprieve == SettleDelay + 1 - MaxDelay

(* The members that have outwaited that time and voted in this second, or  *)
(* whose window outlives it, counted from the Holder's last heartbeat.     *)
Shielded ==
    {q \in Peers : \/ q = Holder
                   \/ /\ window[q] + PermitTimeout >= Reprieve + game[Holder].left
                      /\ q \in votes => Beyond(Reprieve) /\ Successor \in ticked}

(* The Successor has reached the stage of its start that takes k ticks     *)
(* after the votes.                                                        *)
Due(k) ==
    /\ generation[Successor] = 2
    /\ Beyond(Reprieve + k)
    /\ Successor \notin ticked => Beyond(Reprieve + k + 1)

Counts(q) == lease[Successor][q].stage # "idle" \/ fresh[Successor][q] > 0

(* Why OneLiveSimulation holds.  A heartbeat of the Holder keeps a         *)
(* majority from voting for a while, and from the votes the Successor      *)
(* needs one tick for each of: the promotion, asking for leases, the first *)
(* and the second permit, and the heartbeat its guard sees.                *)
LiveInv ==
    /\ asked # {} => Successor \in ticked
    /\ generation[Successor] = 1 /\ ~Beyond(Reprieve + 1) => has_quorum(N, Cardinality(Shielded))
    /\ generation[Successor] = 2 => Due(1)
    /\ \A q \in Peers : Counts(q) => Due(2)
    /\ beats[Successor] > 0 => Due(3)
    /\ beats[Successor] = 2 \/ game[Successor].stage # "off" => Due(4)
    /\ game[Successor].stage = "live" => Due(5)

(* An answer of a member that has moved on was given before it moved.      *)
MovedAck(q) ==
    /\ generation[q] = 1 => moved[q] = 0
    /\ lease[Holder][q].stage = "granted" => moved[q] <= lease[Holder][q].age
    /\ fresh[Holder][q] > 0 => moved[q] + fresh[Holder][q] <= LeaseDuration + MaxDelay

(* The members whose answers can still have counted at the last tick.      *)
StillCounting ==
    {q \in Peers : moved[q] + (IF Holder \in ticked THEN 1 ELSE 0) <= LeaseDuration + MaxDelay}

(* Why StalePermitBounded holds.  The answer of a member that has moved on *)
(* travels and counts on borrowed time, and a permit (the file written by  *)
(* refresh_permit) rests on a majority of answers that still counted at    *)
(* the Holder's last tick.                                                 *)
StaleInv ==
    /\ \A p \in Peers : p \notin sees[p]
    /\ \A q \in Peers : MovedAck(q)
    /\ file[Holder] => has_quorum(N, Cardinality(StillCounting))
=============================================================================
