------------------------- MODULE AuthorityRecovery -------------------------
(***************************************************************************)
(* Crash recovery of a world's authority, as the peer daemons run it       *)
(* (crates/swarm-cli/src/daemon.rs): authority leases and the local permit, *)
(* observation of the other members, durable recovery ballots, promises and *)
(* certificates, the recovery epoch and its acceptance, and the snapshot    *)
(* that the new authority promotes and replicates.                         *)
(*                                                                         *)
(* The membership is fixed and the world is awake.  Clocks are left out:   *)
(* a timer is a step that may be taken once what it waits for may have     *)
(* happened.  Epoch number and fencing token always advance together, so   *)
(* a generation is one number.                                             *)
(***************************************************************************)
EXTENDS Integers, Sequences, FiniteSets, SwarmQuorum

CONSTANTS
    Peers,          \* the non-banned members; ordered by their ids
    Eligible,       \* those that may hold authority
    Ready,          \* those whose host capability is ready
    Lineage,        \* the epochs every member has accepted at the start
    MaxGeneration,  \* bound on generations
    MaxRound,       \* bound on ballot rounds
    MaxCrashes,     \* bound on daemon crashes between handlers
    MaxTornWrites,  \* bound on crashes between two writes of a handler
    MaxDrops        \* bound on lost requests, lapsed leases, broken links

ASSUME PeersAssumption ==
    /\ Peers \subseteq Nat /\ IsFiniteSet(Peers) /\ Cardinality(Peers) > 1
    /\ Ready \subseteq Eligible /\ Eligible \subseteq Peers
    /\ Lineage \in Seq(Eligible) /\ Len(Lineage) > 0

ASSUME BoundsAssumption ==
    /\ MaxGeneration \in Nat \ {0} /\ MaxRound \in Nat
    /\ MaxCrashes \in Nat /\ MaxTornWrites \in Nat /\ MaxDrops \in Nat

VARIABLES
    disk,       \* what each peer has stored durably
    rt,         \* the LeaseRuntime of each daemon, lost when it stops
    up,         \* which daemons run
    ballotReqs, \* RecoveryBallot requests in flight
    replies,    \* RecoveryVote and RecoveryRejected responses in flight
    epochReqs,  \* RecoveryEpoch requests in flight
    pushes,     \* SnapshotManifest requests in flight
    signed,     \* history: every vote ever signed
    faults      \* how much of each fault bound is used

vars == <<disk, rt, up, ballotReqs, replies, epochReqs, pushes, signed, faults>>
network == <<ballotReqs, replies, epochReqs, pushes>>

N == Cardinality(Peers)

(* RecoveryBallotV1: the canonical base (generation and snapshot) and the  *)
(* candidate and round that want to extend it.  The target generation is   *)
(* base + 1.  A snapshot is named by the generation that promoted it.      *)
Ballot == [base : Nat, snap : Nat, cand : Peers, round : Nat]
NoBallot == [base |-> 0, snap |-> 0, cand |-> Lineage[1], round |-> 0]

Certificate == [ballot : Ballot, voters : SUBSET Peers]
NoCertificate == [ballot |-> NoBallot, voters |-> {}]

(* epoch: the chain of accepted epoch records; element g is the authority  *)
(* of generation g, and the prefix is what previous_epoch_hash commits to. *)
(* Generation 1 is the founder's Quorum epoch, later ones are Recovery.    *)
(* permit: the generation in the authority.permit file, 0 when absent.     *)
Disk == [epoch : Seq(Peers), snap : Nat, promise : Ballot,
         cert : Certificate, permit : Nat]

(* conn: authenticated_peers.  window: the recovery window is open.        *)
(* status: members with a fresh WorldStatus equal to this peer's own       *)
(* generation and snapshot.  capability: members with a fresh ready        *)
(* HostCapability.  epochAcks, leaseAcks: acks of the current generation.  *)
(* replicated: recovery_replication_sent.                                  *)
Runtime == [conn : SUBSET Peers, window : BOOLEAN, status : SUBSET Peers,
            capability : SUBSET Peers, ballot : Ballot, votes : SUBSET Peers,
            floor : Nat, epochAcks : SUBSET Peers, leaseAcks : SUBSET Peers,
            replicated : SUBSET Peers]
FreshRuntime == [conn |-> {}, window |-> FALSE, status |-> {},
                 capability |-> {}, ballot |-> NoBallot, votes |-> {},
                 floor |-> 0, epochAcks |-> {}, leaseAcks |-> {},
                 replicated |-> {}]

(* tracked: the sender keeps an OutboundContext for the request, so that   *)
(* the answer, or the failure, counts.                                     *)
BallotReq == [to : Peers, ballot : Ballot]
Reply == [voter : Peers, ballot : Ballot, refused : BOOLEAN, highest : Nat]
EpochReq == [to : Peers, epoch : Seq(Peers), cert : Certificate, tracked : BOOLEAN]
Push == [from : Peers, to : Peers, snap : Nat]
Vote == [voter : Peers, ballot : Ballot]
Faults == [crash : Nat, torn : Nat, drop : Nat]
-----------------------------------------------------------------------------
Generation(p) == Len(disk[p].epoch)
Authority(p) == disk[p].epoch[Generation(p)]
IsAuthority(p) == up[p] /\ Authority(p) = p
InRecoveryMode(p) == Generation(p) > 1

Linked(p, q) == p # q /\ q \in rt[p].conn /\ p \in rt[q].conn
Links(p) == {q \in Peers : Linked(p, q)}

(* A slip: the authority is counted twice.                                 *)
SelfCountedTwice(p, acks) == has_quorum(N, 2 + Cardinality(acks \cap rt[p].conn))

(* 1 + the authenticated members in a set of acknowledgements.             *)
AckQuorum(p, acks) == has_quorum(N, 1 + Cardinality(acks \cap rt[p].conn))

(* The sender of a RecoveryEpoch is the authority it names.                *)
EpochSender(m) == m.epoch[Len(m.epoch)]

(* Requests and responses between two peers die with their connection.     *)
Between(p, others, a, b) == (a = p /\ b \in others) \/ (b = p /\ a \in others)
DropTraffic(p, others) ==
    /\ ballotReqs' = {m \in ballotReqs : ~Between(p, others, m.ballot.cand, m.to)}
    /\ replies' = {m \in replies : ~Between(p, others, m.voter, m.ballot.cand)}
    /\ epochReqs' = {m \in epochReqs : ~Between(p, others, EpochSender(m), m.to)}
    /\ pushes' = {m \in pushes : ~Between(p, others, m.from, m.to)}

(* The daemon of p ends: its runtime is gone, its files stay.              *)
Down(p) ==
    /\ up' = [up EXCEPT ![p] = FALSE]
    /\ rt' = [rt EXCEPT ![p] = FreshRuntime]
    /\ DropTraffic(p, Peers)

(* clear_recovery_promise_after_epoch_advance                              *)
ClearedPromise(promise, generation) ==
    IF generation >= promise.base + 1 THEN NoBallot ELSE promise

(* Everything observed about, or acknowledged for, an older generation or  *)
(* snapshot of p no longer matches p's own.                                *)
Advanced(runtime) ==
    [runtime EXCEPT !.status = {}, !.epochAcks = {}, !.leaseAcks = {}]
-----------------------------------------------------------------------------
(* Every member has accepted Lineage, the certificate of its last recovery *)
(* (if it has one) and its snapshot, and the daemons have just started.    *)
InitialCertificate ==
    LET base == Len(Lineage) - 1
    IN  IF base = 0 THEN NoCertificate
        ELSE [ballot |-> [base |-> base, snap |-> base, cand |-> Lineage[base + 1],
                          round |-> 1],
              voters |-> Peers \ {Lineage[base]}]

Init ==
    /\ disk = [p \in Peers |-> [epoch |-> Lineage, snap |-> Len(Lineage),
                                promise |-> NoBallot, cert |-> InitialCertificate,
                                permit |-> 0]]
    /\ rt = [p \in Peers |-> [FreshRuntime EXCEPT !.conn = Peers \ {p}]]
    /\ up = [p \in Peers |-> TRUE]
    /\ ballotReqs = {} /\ replies = {} /\ epochReqs = {} /\ pushes = {}
    /\ signed = {}
    /\ faults = [crash |-> 0, torn |-> 0, drop |-> 0]
-----------------------------------------------------------------------------
(* Connections and observations                                            *)

(* The handshake of two running daemons completes.  A peer that holds the  *)
(* authority pushes the world: push_known_worlds.  A founder's epoch push  *)
(* is refused or a repeat, so only a recovery authority's has an effect.   *)
EpochsTo(epoch, cert, tracked, others) ==
    {[to |-> q, epoch |-> epoch, cert |-> cert, tracked |-> tracked] : q \in others}
PushedEpochs(p, tracked, others) ==
    EpochsTo(disk[p].epoch, disk[p].cert, tracked, others)
PushedSnapshots(p, others) ==
    {[from |-> p, to |-> q, snap |-> disk[p].snap] : q \in others}
KnownWorldPushers(p, q) ==
    {r \in {p, q} : Authority(r) = r /\ InRecoveryMode(r)}

Authenticated(p, q) ==
    /\ p < q /\ up[p] /\ up[q] /\ ~Linked(p, q)
    /\ rt' = [rt EXCEPT ![p].conn = @ \cup {q}, ![q].conn = @ \cup {p}]
    /\ epochReqs' = epochReqs \cup
          UNION {PushedEpochs(r, FALSE, {p, q} \ {r}) : r \in KnownWorldPushers(p, q)}
    /\ pushes' = pushes \cup
          UNION {PushedSnapshots(r, {p, q} \ {r}) : r \in KnownWorldPushers(p, q)}
    /\ UNCHANGED <<disk, up, ballotReqs, replies, signed, faults>>

(* Something fails because of an earlier event, or as a fault of its own.  *)
DropUnless(caused) ==
    \/ caused /\ UNCHANGED faults
    \/ ~caused /\ faults.drop < MaxDrops /\ faults' = [faults EXCEPT !.drop = @ + 1]

(* p's side of a connection closes: a fault of the link, or the other side *)
(* is gone.  Outstanding requests to q fail with it.                       *)
Disconnected(p, q) ==
    /\ up[p] /\ q \in rt[p].conn
    /\ DropUnless(~up[q] \/ p \notin rt[q].conn)
    /\ rt' = [rt EXCEPT ![p].conn = @ \ {q}, ![p].votes = @ \ {q},
                        ![p].epochAcks = @ \ {q}, ![p].leaseAcks = @ \ {q},
                        ![p].status = @ \ {q}, ![p].capability = @ \ {q}]
    /\ DropTraffic(p, {q})
    /\ UNCHANGED <<disk, up, signed>>

(* A request is lost while both daemons run: OutboundFailure at the sender. *)
BallotReqLost(m) ==
    /\ ballotReqs' = ballotReqs \ {m}
    /\ DropUnless(FALSE)
    /\ rt' = [rt EXCEPT ![m.ballot.cand].votes = @ \ {m.to}]
    /\ UNCHANGED <<disk, up, replies, epochReqs, pushes, signed>>

EpochUnacknowledged(m) ==
    IF m.tracked THEN [rt EXCEPT ![EpochSender(m)].epochAcks = @ \ {m.to}] ELSE rt

EpochReqLost(m) ==
    /\ epochReqs' = epochReqs \ {m}
    /\ DropUnless(FALSE)
    /\ rt' = EpochUnacknowledged(m)
    /\ UNCHANGED <<disk, up, ballotReqs, replies, pushes, signed>>

PushLost(m) ==
    /\ pushes' = pushes \ {m}
    /\ DropUnless(FALSE)
    /\ UNCHANGED <<disk, rt, up, ballotReqs, replies, epochReqs, signed>>

(* Eligible members ask every tick.  An answer is read only by a member    *)
(* that is not the authority, about a member that is not its authority.    *)
Observes(p, q) ==
    /\ p \in Eligible /\ Linked(p, q)
    /\ Authority(p) \notin {p, q}

(* p learns q's WorldStatus, which it keeps as a match or not a match.     *)
StatusObserved(p, q) ==
    LET matches == Generation(q) = Generation(p) /\ disk[q].snap = disk[p].snap
    IN  /\ Observes(p, q)
        /\ rt' = [rt EXCEPT ![p].status = IF matches THEN @ \cup {q} ELSE @ \ {q}]
        /\ UNCHANGED <<disk, up, network, signed, faults>>

CapabilityObserved(p, q) ==
    /\ Observes(p, q) /\ q \in Ready
    /\ rt' = [rt EXCEPT ![p].capability = @ \cup {q}]
    /\ UNCHANGED <<disk, up, network, signed, faults>>

(* STATUS_FRESHNESS passes without a new answer.                           *)
ObservationExpires(p, q) ==
    /\ \/ /\ q \in rt[p].status
          /\ rt' = [rt EXCEPT ![p].status = @ \ {q}]
       \/ /\ q \in rt[p].capability
          /\ rt' = [rt EXCEPT ![p].capability = @ \ {q}]
    /\ DropUnless(~Linked(p, q))
    /\ UNCHANGED <<disk, up, network, signed>>

(* The lease duration and the settle delay pass without a lease grant.     *)
(* The window is only read while the authority is not connected.           *)
RecoveryWindowOpens(p) ==
    /\ up[p] /\ ~rt[p].window
    /\ Authority(p) # p /\ Authority(p) \notin rt[p].conn
    /\ rt' = [rt EXCEPT ![p].window = TRUE]
    /\ UNCHANGED <<disk, up, network, signed, faults>>
-----------------------------------------------------------------------------
(* The authority's tick: maintain_authority_leases for the local authority *)

(* A slip: the founder is asked for acknowledgements of a recovery epoch.  *)
EpochQuorumInEveryMode(p) == AckQuorum(p, rt[p].epochAcks)

EpochQuorum(p) == InRecoveryMode(p) => AckQuorum(p, rt[p].epochAcks)

(* ensure_recovery_artifacts promotes only the snapshot of the previous    *)
(* generation; maintain_recovery_epoch_quorum needs the certificate of     *)
(* this one.  Either error ends the daemon.                                *)
SnapshotPromotable(p) == disk[p].snap + 1 >= Generation(p)
CertificateMatches(p) ==
    /\ disk[p].cert.ballot.base + 1 = Generation(p)
    /\ disk[p].cert.ballot.cand = p
TickFails(p) ==
    InRecoveryMode(p) /\ (~SnapshotPromotable(p) \/ ~CertificateMatches(p))

PromotedSnapshot(p) ==
    IF InRecoveryMode(p) /\ SnapshotPromotable(p) THEN Generation(p) ELSE disk[p].snap

(* The observations p holds were compared with the snapshot p had before.  *)
AfterPromotion(p) ==
    IF PromotedSnapshot(p) = disk[p].snap THEN rt[p] ELSE [rt[p] EXCEPT !.status = {}]

AuthorityTickFails(p) ==
    /\ IsAuthority(p) /\ TickFails(p)
    /\ disk' = [disk EXCEPT ![p].snap = PromotedSnapshot(p)]
    /\ Down(p)
    /\ UNCHANGED <<signed, faults>>

(* epoch_request_pending.  A push of the same epoch that is still in       *)
(* flight is taken to arrive before the tick sends another request.        *)
EpochPending(p, q) == \E m \in epochReqs : m.to = q /\ m.epoch = disk[p].epoch

(* Promote the snapshot, re-send the recovery epoch to members that have   *)
(* not acknowledged it, and refresh or clear the permit.  The grants the   *)
(* tick sends are LeaseGrant steps.                                        *)
AuthorityTick(p) ==
    /\ IsAuthority(p) /\ ~TickFails(p)
    /\ disk' = [disk EXCEPT
          ![p].snap = PromotedSnapshot(p),
          ![p].permit = IF EpochQuorum(p) /\ AckQuorum(p, rt[p].leaseAcks)
                        THEN Generation(p) ELSE 0,
          ![p].promise = IF EpochQuorum(p)
                         THEN ClearedPromise(@, Generation(p)) ELSE @]
    /\ rt' = [rt EXCEPT ![p] = AfterPromotion(p)]
    /\ epochReqs' = epochReqs \cup
          IF InRecoveryMode(p)
          THEN PushedEpochs(p, TRUE, {q \in Links(p) \ rt[p].epochAcks : ~EpochPending(p, q)})
          ELSE {}
    /\ UNCHANGED <<up, ballotReqs, replies, pushes, signed, faults>>

(* p's signed lease reaches q, which accepts it only from the authority of *)
(* exactly its own generation, and the LeaseAccepted comes back.  The      *)
(* first ack of a recovery generation pushes the promoted snapshot.        *)
LeaseGrant(p, q) ==
    /\ IsAuthority(p) /\ Linked(p, q) /\ ~TickFails(p) /\ EpochQuorum(p)
    /\ Generation(q) = Generation(p) /\ Authority(q) = p
    /\ rt' = [rt EXCEPT ![q].window = FALSE,
                        ![p].leaseAcks = @ \cup {q},
                        ![p].replicated = IF InRecoveryMode(p) THEN @ \cup {q} ELSE @]
    /\ pushes' = pushes \cup
          IF InRecoveryMode(p) /\ q \notin rt[p].replicated /\ disk[p].snap = Generation(p)
          THEN PushedSnapshots(p, {q}) ELSE {}
    /\ UNCHANGED <<disk, up, ballotReqs, replies, epochReqs, signed, faults>>

(* An ack grows older than the lease duration, or its renewal is lost.     *)
LeaseLapses(p, q) ==
    /\ q \in rt[p].leaseAcks
    /\ rt' = [rt EXCEPT ![p].leaseAcks = @ \ {q}]
    /\ DropUnless(~Linked(p, q) \/ Generation(q) # Generation(p))
    /\ UNCHANGED <<disk, up, network, signed>>

(* SnapshotManifest: the manifest must belong to the accepted authority    *)
(* epoch and extend the local history by one.  Its blobs are all present.  *)
AcceptsSnapshot(m) ==
    /\ m.snap = Generation(m.to) /\ m.from = Authority(m.to)
    /\ m.snap = disk[m.to].snap + 1

HandleSnapshot(m) ==
    /\ up[m.to]
    /\ pushes' = pushes \ {m}
    /\ IF AcceptsSnapshot(m)
       THEN /\ disk' = [disk EXCEPT ![m.to].snap = m.snap]
            /\ rt' = [rt EXCEPT ![m.to].status = {}]
       ELSE UNCHANGED <<disk, rt>>
    /\ UNCHANGED <<up, ballotReqs, replies, epochReqs, signed, faults>>
-----------------------------------------------------------------------------
(* The tick of any other member: campaign for the authority                *)

(* Authenticated members with a fresh status equal to p's canonical base.  *)
Visible(p) == rt[p].status \cap rt[p].conn

Candidates(p) ==
    {[peer_id |-> q, accepted_epoch |-> Generation(p), canonical_sequence |-> disk[p].snap] :
        q \in (Ready \cap {p}) \cup (Visible(p) \cap Eligible \cap rt[p].capability)}

(* Every early return of the tick before drive_recovery_ballot.            *)
Campaigns(p) ==
    /\ up[p] /\ Authority(p) # p /\ p \in Eligible
    /\ Authority(p) \notin rt[p].conn
    /\ rt[p].window
    /\ has_quorum(N, 1 + Cardinality(Visible(p)))
    /\ Candidates(p) # {} /\ elect_authority(Candidates(p)) = p
    /\ Generation(p) < MaxGeneration

(* A tick that does not campaign still withdraws a permit p held before.   *)
FollowerTick(p) ==
    /\ up[p] /\ Authority(p) # p /\ ~Campaigns(p)
    /\ disk[p].permit # 0
    /\ disk' = [disk EXCEPT ![p].permit = 0]
    /\ UNCHANGED <<rt, up, network, signed, faults>>

RoundFloor(p) ==
    IF rt[p].floor >= disk[p].promise.round THEN rt[p].floor ELSE disk[p].promise.round

ActiveIsUsable(p) ==
    /\ rt[p].ballot # NoBallot
    /\ rt[p].ballot.base = Generation(p) /\ rt[p].ballot.snap = disk[p].snap
    /\ rt[p].ballot.round >= RoundFloor(p)

NextBallot(p) ==
    [base |-> Generation(p), snap |-> disk[p].snap, cand |-> p, round |-> RoundFloor(p) + 1]

(* promise_recovery_ballot: a stored promise gives way only to a higher    *)
(* round of the same candidate on the same base.                           *)
same_recovery_base(a, b) == a.base = b.base /\ a.snap = b.snap /\ a.cand = b.cand
(* A slip: a stored promise does not bind.                                 *)
AnyBallot(promise, b) == TRUE
PromiseAccepts(promise, b) ==
    \/ promise = NoBallot
    \/ b.round > promise.round /\ same_recovery_base(promise, b)

BallotsTo(b, others) == {[to |-> q, ballot |-> b] : q \in others}

(* recovery_ballot_request_pending                                         *)
Pending(b, q) ==
    \/ [to |-> q, ballot |-> b] \in ballotReqs
    \/ \E r \in replies : r.voter = q /\ r.ballot = b

StartBallot(p) ==
    LET b == NextBallot(p)
    IN  /\ Campaigns(p) /\ ~ActiveIsUsable(p) /\ b.round <= MaxRound
        /\ PromiseAccepts(disk[p].promise, b)
        /\ disk' = [disk EXCEPT ![p].promise = b, ![p].permit = 0]
        /\ rt' = [rt EXCEPT ![p].ballot = b, ![p].votes = {p}]
        /\ signed' = signed \cup {[voter |-> p, ballot |-> b]}
        /\ ballotReqs' = ballotReqs \cup BallotsTo(b, Visible(p) \cap Links(p))
        /\ UNCHANGED <<up, replies, epochReqs, pushes, faults>>

(* p has promised another candidate or base: it only raises its floor.     *)
BallotRefusedLocally(p) ==
    /\ Campaigns(p) /\ ~ActiveIsUsable(p)
    /\ ~PromiseAccepts(disk[p].promise, NextBallot(p))
    /\ disk' = [disk EXCEPT ![p].permit = 0]
    /\ rt' = [rt EXCEPT ![p].floor = disk[p].promise.round]
    /\ UNCHANGED <<up, network, signed, faults>>

(* A slip: a ballot is sent once and never again.                          *)
NoResends(p) == {}

Resends(p) ==
    BallotsTo(rt[p].ballot, {q \in Visible(p) \cap Links(p) : ~Pending(rt[p].ballot, q)})
(* A slip: the candidate's own vote is counted twice.                      *)
OwnVoteCountedTwice(p) == has_quorum(N, 1 + Cardinality(rt[p].votes))

VoteQuorum(p) == has_quorum(N, Cardinality(rt[p].votes))

RetryBallot(p) ==
    /\ Campaigns(p) /\ ActiveIsUsable(p) /\ ~VoteQuorum(p)
    /\ disk' = [disk EXCEPT ![p].permit = 0]
    /\ ballotReqs' = ballotReqs \cup Resends(p)
    /\ UNCHANGED <<rt, up, replies, epochReqs, pushes, signed, faults>>

(* The durable writes of an epoch change, in their order: the certificate, *)
(* the epoch record, the cleared promise.                                  *)
EpochWrites == 3

(* A slip: the epoch record is stored before its certificate.              *)
EpochBeforeCertificate(d, record, cert, k) ==
    [d EXCEPT !.epoch = IF k >= 1 THEN record ELSE @,
              !.cert = IF k >= 2 THEN cert ELSE @,
              !.promise = IF k >= 3 THEN ClearedPromise(@, Len(record)) ELSE @]

AfterWrites(d, record, cert, k) ==
    [d EXCEPT !.cert = IF k >= 1 THEN cert ELSE @,
              !.epoch = IF k >= 2 THEN record ELSE @,
              !.promise = IF k >= 3 THEN ClearedPromise(@, Len(record)) ELSE @]

CanPromote(p) == Campaigns(p) /\ ActiveIsUsable(p) /\ VoteQuorum(p)
OwnCertificate(p) == [ballot |-> rt[p].ballot, voters |-> rt[p].votes]
(* A slip: the candidate replaces the current epoch instead of the next.   *)
RecordOfSameGeneration(p) == [disk[p].epoch EXCEPT ![Generation(p)] = p]

RecoveryRecord(p) == Append(disk[p].epoch, p)

PromoteRecovery(p) ==
    LET done == AfterWrites(disk[p], RecoveryRecord(p), OwnCertificate(p), EpochWrites)
    IN  /\ CanPromote(p)
        /\ disk' = [disk EXCEPT ![p] = [done EXCEPT !.permit = 0]]
        /\ rt' = [rt EXCEPT ![p] = [Advanced(@) EXCEPT !.ballot = NoBallot, !.votes = {},
                                                       !.replicated = {}]]
        /\ ballotReqs' = ballotReqs \cup Resends(p)
        /\ epochReqs' = epochReqs \cup
              EpochsTo(RecoveryRecord(p), OwnCertificate(p), TRUE, Visible(p) \cap Links(p))
        /\ UNCHANGED <<up, replies, pushes, signed, faults>>

(* The daemon dies between two of those writes.                            *)
TornPromotion(p, k) ==
    LET done == AfterWrites(disk[p], RecoveryRecord(p), OwnCertificate(p), k)
    IN  /\ CanPromote(p) /\ faults.torn < MaxTornWrites
        /\ disk' = [disk EXCEPT ![p] = [done EXCEPT !.permit = 0]]
        /\ Down(p)
        /\ faults' = [faults EXCEPT !.torn = @ + 1]
        /\ UNCHANGED signed
-----------------------------------------------------------------------------
(* Requests and responses of a ballot                                      *)

(* The voter's checks before promise_recovery_ballot.                      *)
Admissible(v, b) ==
    /\ b.cand \in Eligible
    /\ b.base = Generation(v) /\ b.snap = disk[v].snap
    /\ Authority(v) \notin rt[v].conn
    /\ rt[v].window
    /\ b.cand \in rt[v].status
    /\ b.cand \in rt[v].capability \cap rt[v].conn

VoteReply(v, b) == [voter |-> v, ballot |-> b, refused |-> FALSE, highest |-> 0]
RefusalReply(v, b) ==
    [voter |-> v, ballot |-> b, refused |-> TRUE, highest |-> disk[v].promise.round]

(* A new promise is written and its vote returned; a repeated ballot gets  *)
(* the stored vote again; any other promise refuses with its round.        *)
HandleBallot(m) ==
    LET v == m.to
        b == m.ballot
        held == disk[v].promise
    IN  /\ up[v] /\ Admissible(v, b)
        /\ ballotReqs' = ballotReqs \ {m}
        /\ \/ /\ PromiseAccepts(held, b)
              /\ disk' = [disk EXCEPT ![v].promise = b]
              /\ signed' = signed \cup {[voter |-> v, ballot |-> b]}
              /\ replies' = replies \cup {VoteReply(v, b)}
           \/ /\ held = b
              /\ replies' = replies \cup {VoteReply(v, b)}
              /\ UNCHANGED <<disk, signed>>
           \/ /\ ~PromiseAccepts(held, b) /\ held # b
              /\ replies' = replies \cup {RefusalReply(v, b)}
              /\ UNCHANGED <<disk, signed>>
        /\ UNCHANGED <<rt, up, epochReqs, pushes, faults>>

(* The handler returns an error: no answer, and the request fails.         *)
RejectBallot(m) ==
    /\ up[m.to] /\ ~Admissible(m.to, m.ballot)
    /\ ballotReqs' = ballotReqs \ {m}
    /\ rt' = [rt EXCEPT ![m.ballot.cand].votes = @ \ {m.to}]
    /\ UNCHANGED <<disk, up, replies, epochReqs, pushes, signed, faults>>

(* RecoveryVote at the candidate.  Without an active ballot it is ignored; *)
(* a vote for another ballot than the active one ends the daemon.          *)
HandleVote(m) ==
    LET p == m.ballot.cand
    IN  /\ up[p] /\ ~m.refused
        /\ rt[p].ballot \in {NoBallot, m.ballot}
        /\ replies' = replies \ {m}
        /\ rt' = [rt EXCEPT ![p].votes =
                     IF rt[p].ballot = m.ballot THEN @ \cup {m.voter} ELSE @]
        /\ UNCHANGED <<disk, up, ballotReqs, epochReqs, pushes, signed, faults>>

LateVoteStopsDaemon(m) ==
    LET p == m.ballot.cand
    IN  /\ up[p] /\ ~m.refused
        /\ rt[p].ballot \notin {NoBallot, m.ballot}
        /\ Down(p)
        /\ UNCHANGED <<disk, signed, faults>>

(* RecoveryRejected: a refusal at or above the round of the ballot it      *)
(* answers (0 if that is not the active one) abandons the active ballot.   *)
HandleRefusal(m) ==
    LET p == m.ballot.cand
        activeRound == IF rt[p].ballot = m.ballot THEN m.ballot.round ELSE 0
    IN  /\ up[p] /\ m.refused
        /\ replies' = replies \ {m}
        /\ rt' = IF m.highest >= activeRound
                 THEN [rt EXCEPT ![p].floor = IF @ >= m.highest THEN @ ELSE m.highest,
                                 ![p].ballot = NoBallot, ![p].votes = {}]
                 ELSE rt
        /\ UNCHANGED <<disk, up, ballotReqs, epochReqs, pushes, signed, faults>>
-----------------------------------------------------------------------------
(* RecoveryEpoch: accept a certified generation                            *)

(* validate_recovery_epoch: the record matches its ballot, the ballot's    *)
(* base is the receiver's latest snapshot, and a majority voted for it.    *)
ValidRecoveryEpoch(m) ==
    LET b == m.cert.ballot
    IN  /\ b.cand = EpochSender(m) /\ b.cand \in Eligible
        /\ Len(m.epoch) = b.base + 1
        /\ disk[m.to].snap = b.snap
        /\ has_quorum(N, Cardinality(m.cert.voters))

IsRepeat(m) == m.epoch = disk[m.to].epoch
ExtendsAccepted(m) ==
    /\ Len(m.epoch) = Generation(m.to) + 1
    /\ SubSeq(m.epoch, 1, Generation(m.to)) = disk[m.to].epoch
PromisePermits(m) ==
    LET held == disk[m.to].promise
    IN  /\ held.round <= m.cert.ballot.round
        /\ held.round = m.cert.ballot.round => held = m.cert.ballot

AcceptsEpoch(m) ==
    ValidRecoveryEpoch(m) /\ (IsRepeat(m) \/ (ExtendsAccepted(m) /\ PromisePermits(m)))

(* EpochAccepted reaches the sender.  An ack of a generation the sender    *)
(* has left behind overwrites one of its current generation.               *)
AckEpoch(runtimes, m) ==
    LET p == EpochSender(m)
    IN  IF ~m.tracked THEN runtimes
        ELSE [runtimes EXCEPT ![p].epochAcks =
                 IF disk[p].epoch = m.epoch THEN @ \cup {m.to} ELSE @ \ {m.to}]

HandleRecoveryEpoch(m) ==
    /\ up[m.to] /\ AcceptsEpoch(m)
    /\ epochReqs' = epochReqs \ {m}
    /\ disk' = [disk EXCEPT ![m.to] = AfterWrites(@, m.epoch, m.cert, EpochWrites)]
    /\ rt' = AckEpoch([rt EXCEPT ![m.to] = IF IsRepeat(m) THEN @ ELSE Advanced(@)], m)
    /\ UNCHANGED <<up, ballotReqs, replies, pushes, signed, faults>>

TornRecoveryEpoch(m, k) ==
    /\ up[m.to] /\ AcceptsEpoch(m) /\ faults.torn < MaxTornWrites
    /\ disk' = [disk EXCEPT ![m.to] = AfterWrites(@, m.epoch, m.cert, k)]
    /\ Down(m.to)
    /\ faults' = [faults EXCEPT !.torn = @ + 1]
    /\ UNCHANGED signed

RejectRecoveryEpoch(m) ==
    /\ up[m.to] /\ ~AcceptsEpoch(m)
    /\ epochReqs' = epochReqs \ {m}
    /\ rt' = EpochUnacknowledged(m)
    /\ UNCHANGED <<disk, up, ballotReqs, replies, pushes, signed, faults>>
-----------------------------------------------------------------------------
Crash(p) ==
    /\ up[p] /\ faults.crash < MaxCrashes
    /\ Down(p)
    /\ faults' = [faults EXCEPT !.crash = @ + 1]
    /\ UNCHANGED <<disk, signed>>

Restart(p) ==
    /\ ~up[p]
    /\ up' = [up EXCEPT ![p] = TRUE]
    /\ UNCHANGED <<disk, rt, network, signed, faults>>

Tick(p) ==
    \/ AuthorityTick(p) \/ AuthorityTickFails(p) \/ FollowerTick(p)
    \/ StartBallot(p) \/ BallotRefusedLocally(p) \/ RetryBallot(p) \/ PromoteRecovery(p)

Deliver ==
    \/ \E m \in ballotReqs : HandleBallot(m) \/ RejectBallot(m)
    \/ \E m \in replies : HandleVote(m) \/ LateVoteStopsDaemon(m) \/ HandleRefusal(m)
    \/ \E m \in epochReqs : HandleRecoveryEpoch(m) \/ RejectRecoveryEpoch(m)
    \/ \E m \in pushes : HandleSnapshot(m)

Observe(p, q) == StatusObserved(p, q) \/ CapabilityObserved(p, q)

Fault ==
    \/ \E m \in ballotReqs : BallotReqLost(m)
    \/ \E m \in epochReqs : EpochReqLost(m)
    \/ \E m \in pushes : PushLost(m)
    \/ \E p, q \in Peers : ObservationExpires(p, q) \/ LeaseLapses(p, q)
    \/ \E p \in Peers, k \in 1 .. EpochWrites - 1 : TornPromotion(p, k)
    \/ \E m \in epochReqs, k \in 1 .. EpochWrites - 1 : TornRecoveryEpoch(m, k)
    \/ \E p \in Peers : Crash(p)

Next ==
    \/ \E p \in Peers : Tick(p) \/ RecoveryWindowOpens(p) \/ Restart(p)
    \/ \E p, q \in Peers : Authenticated(p, q) \/ Disconnected(p, q)
                           \/ Observe(p, q) \/ LeaseGrant(p, q)
    \/ Deliver
    \/ Fault

Spec == Init /\ [][Next]_vars

(* What the daemons' scheduling guarantees: the one-second tick, timers,   *)
(* the reconnecting transport, and the event loop that takes every request *)
(* and response off the network.  Nothing obliges a crashed daemon to      *)
(* return.                                                                 *)
NoticesGone(p, q) == Disconnected(p, q) /\ (~up[q] \/ p \notin rt[q].conn)
BallotReqTo(p) == \E m \in ballotReqs : m.to = p /\ (HandleBallot(m) \/ RejectBallot(m))
ReplyTo(p) ==
    \E m \in replies :
        m.ballot.cand = p /\ (HandleVote(m) \/ LateVoteStopsDaemon(m) \/ HandleRefusal(m))
EpochReqTo(p) ==
    \E m \in epochReqs : m.to = p /\ (HandleRecoveryEpoch(m) \/ RejectRecoveryEpoch(m))
PushTo(p) == \E m \in pushes : m.to = p /\ HandleSnapshot(m)

Fairness ==
    /\ \A p \in Peers :
          /\ WF_vars(Tick(p)) /\ WF_vars(RecoveryWindowOpens(p))
          /\ WF_vars(BallotReqTo(p)) /\ WF_vars(ReplyTo(p))
          /\ WF_vars(EpochReqTo(p)) /\ WF_vars(PushTo(p))
    /\ \A p, q \in Peers :
          /\ WF_vars(Authenticated(p, q)) /\ WF_vars(NoticesGone(p, q))
          /\ WF_vars(StatusObserved(p, q)) /\ WF_vars(CapabilityObserved(p, q))
          /\ WF_vars(LeaseGrant(p, q))

FairSpec == Spec /\ Fairness
-----------------------------------------------------------------------------
TypeOK ==
    /\ disk \in [Peers -> Disk]
    /\ rt \in [Peers -> Runtime]
    /\ up \in [Peers -> BOOLEAN]
    /\ ballotReqs \subseteq BallotReq
    /\ replies \subseteq Reply
    /\ epochReqs \subseteq EpochReq
    /\ pushes \subseteq Push
    /\ signed \subseteq Vote
    /\ faults \in Faults
    /\ \A p \in Peers : disk[p].epoch # << >>

(* Majority intersection and durable promises: two peers never accept      *)
(* different authorities for one generation, whatever ballots compete,     *)
(* crash or are retried (promise_recovery_ballot, RecoveryEpoch handler).  *)
Agreement ==
    \A p, q \in Peers : \A g \in 1 .. Generation(p) :
        g <= Generation(q) => disk[p].epoch[g] = disk[q].epoch[g]

(* No two daemons hold a permit for the same generation, including a stale *)
(* authority that has not noticed that it was replaced (refresh_permit in  *)
(* maintain_local_authority).                                              *)
PermitUnique ==
    \A p, q \in Peers :
        disk[p].permit # 0 /\ disk[p].permit = disk[q].permit => p = q

(* A permit of a generation exists only once a majority has durably        *)
(* accepted that generation with this holder as its authority, so no later *)
(* recovery can start from before it (lease and epoch acknowledgements).   *)
AcceptedBy(g, p) ==
    {q \in Peers : Generation(q) >= g /\ disk[q].epoch[g] = p}
PermitBacked ==
    \A p \in Peers :
        disk[p].permit # 0 => has_quorum(N, Cardinality(AcceptedBy(disk[p].permit, p)))

(* A peer that has accepted a recovery generation holds a certificate at   *)
(* least as new, also when its daemon died in the middle of the handler:   *)
(* the certificate is stored before the epoch on both sides.               *)
CertificateBeforeEpoch ==
    \A p \in Peers :
        InRecoveryMode(p) => disk[p].cert.ballot.base + 1 >= Generation(p)

(* save_epoch_record never replaces accepted history: an accepted epoch    *)
(* chain is only ever extended, by one generation at a time.               *)
EpochsOnlyExtend ==
    [][\A p \in Peers :
          disk'[p].epoch # disk[p].epoch =>
              /\ Len(disk'[p].epoch) = Len(disk[p].epoch) + 1
              /\ SubSeq(disk'[p].epoch, 1, Len(disk[p].epoch)) = disk[p].epoch]_vars

(* Recovery implements the single log of authorities, permits included.    *)
Majorities == {Q \in SUBSET Peers : has_quorum(N, Cardinality(Q))}
Log == INSTANCE AuthorityLog
          WITH Quorums <- Majorities,
               accepted <- [p \in Peers |-> disk[p].epoch],
               permit <- [p \in Peers |-> disk[p].permit]
ImplementsLog == Log!Spec

(* If the authority is gone for good and the surviving majority keeps      *)
(* running, some survivor ends up as the authority of a new generation     *)
(* with a permit: ballots, certificate, epoch and leases all complete.     *)
RecoveryCompletes ==
    <>[](~up[Lineage[Len(Lineage)]])
        => <>(\E p \in Peers : disk[p].permit > Len(Lineage))

(* docs/AUTHORITY_RECOVERY.md says that when an attempt is abandoned "a    *)
(* later valid candidate can propose a strictly higher round on the same   *)
(* canonical base and collect a new majority certificate".  RoundsLeft     *)
(* leaves out the behaviours that the bound on rounds cuts short.          *)
RoundsLeft == \A p \in Peers : RoundFloor(p) < MaxRound
HigherRoundSupersedes == []RoundsLeft => RecoveryCompletes

(* docs/AUTHORITY_RECOVERY.md: a recovery authority must "obtain fresh     *)
(* current-generation lease acknowledgements before the local authority    *)
(* permit remains live".  An authority that stays connected to a majority  *)
(* of its own generation has its permit again and again.                   *)
LeaseQuorumPresent(p) ==
    /\ IsAuthority(p)
    /\ has_quorum(N, 1 + Cardinality({q \in Links(p) : disk[q].epoch = disk[p].epoch}))
PermitFollowsQuorum ==
    \A p \in Peers :
        <>[]LeaseQuorumPresent(p) => []<>(disk[p].permit = Generation(p))
=============================================================================
