----------------------- MODULE RecoverySafetyProofs ------------------------
(***************************************************************************)
(* What AuthorityRecovery guarantees for every set of peers, every lineage *)
(* and every number of crashes, lost requests and torn writes.  Its types  *)
(* are kept; VotesBindChains is inductive, and from it: agreement on the   *)
(* authority of every generation, unique and majority-backed permits, and  *)
(* that AuthorityRecovery implements AuthorityLog.                         *)
(***************************************************************************)
EXTENDS RecoveryInvariant, FiniteSetTheorems, SequenceTheorems, TLAPS

(* A step that does not name the SMT solver is left to Zenon. *)
USE ZenonT(20)

-----------------------------------------------------------------------------
(* Types                                                                   *)

(* The peers are a finite set and the placeholder records are well typed.  *)
LEMMA Basics ==
    /\ IsFiniteSet(Peers) /\ N \in Nat /\ N > 1
    /\ Lineage \in Seq(Peers) /\ Len(Lineage) \in Nat \ {0}
    /\ Lineage[1] \in Peers
    /\ NoBallot \in Ballot /\ NoCertificate \in Certificate
    /\ FreshRuntime \in Runtime
    /\ InitialCertificate \in Certificate
<1>1. IsFiniteSet(Peers) /\ N \in Nat /\ N > 1
  BY PeersAssumption, FS_CardinalityType DEF N
<1>2. Lineage \in Seq(Peers) /\ Len(Lineage) \in Nat \ {0}
  <2>1. Lineage \in Seq(Eligible) /\ Eligible \subseteq Peers /\ Len(Lineage) > 0
    BY PeersAssumption
  <2>2. Lineage \in Seq(Peers)
    BY <2>1, SeqMonotonic
  <2> QED
    BY SMTT(30), <2>1, <2>2, LenProperties
<1>3. Lineage[1] \in Peers
  BY SMTT(30), <1>2
<1>4. NoBallot \in Ballot /\ NoCertificate \in Certificate
  BY <1>3 DEF NoBallot, Ballot, NoCertificate, Certificate
<1>5. FreshRuntime \in Runtime
  BY <1>4 DEF FreshRuntime, Runtime
<1>6. InitialCertificate \in Certificate
  BY SMTT(30), <1>2, <1>4 DEF InitialCertificate, Certificate, Ballot
<1> QED
  BY <1>1, <1>2, <1>3, <1>4, <1>5, <1>6

LEMMA InitTypeOK == Init => TypeOK
<1> SUFFICES ASSUME Init PROVE TypeOK
  OBVIOUS
<1>1. disk \in [Peers -> Disk]
  BY Basics DEF Init, Disk
<1>2. rt \in [Peers -> Runtime]
  BY Basics DEF Init, Runtime, FreshRuntime
<1>3. faults \in Faults
  BY DEF Init, Faults
<1>4. \A p \in Peers : disk[p].epoch # << >>
  BY SMTT(30), Basics DEF Init
<1> QED
  BY <1>1, <1>2, <1>3, <1>4 DEF Init, TypeOK
-----------------------------------------------------------------------------
(* Type correctness                                                        *)

LEMMA DropTrafficTypeOK ==
    ASSUME TypeOK, NEW p \in Peers, NEW others, DropTraffic(p, others)
    PROVE  /\ ballotReqs' \subseteq BallotReq /\ replies' \subseteq Reply
           /\ epochReqs' \subseteq EpochReq /\ pushes' \subseteq Push
  BY DEF TypeOK, DropTraffic

LEMMA DownTypeOK ==
    ASSUME TypeOK, NEW p \in Peers, Down(p)
    PROVE  /\ up' \in [Peers -> BOOLEAN] /\ rt' \in [Peers -> Runtime]
           /\ ballotReqs' \subseteq BallotReq /\ replies' \subseteq Reply
           /\ epochReqs' \subseteq EpochReq /\ pushes' \subseteq Push
<1>1. DropTraffic(p, Peers)
  BY DEF Down
<1>2. up' \in [Peers -> BOOLEAN] /\ rt' \in [Peers -> Runtime]
  BY Basics DEF TypeOK, Down
<1> QED
  BY <1>1, <1>2, DropTrafficTypeOK

LEMMA AfterWritesTypeOK ==
    ASSUME NEW d \in Disk, NEW record \in Seq(Peers), record # << >>,
           NEW cert \in Certificate, NEW k \in Nat, d.epoch # << >>
    PROVE  /\ AfterWrites(d, record, cert, k) \in Disk
           /\ AfterWrites(d, record, cert, k).epoch \in {d.epoch, record}
           /\ AfterWrites(d, record, cert, k).permit = d.permit
<1>1. ClearedPromise(d.promise, Len(record)) \in Ballot
  BY Basics DEF ClearedPromise, Disk
<1> QED
  BY <1>1 DEF AfterWrites, Disk

LEMMA DropUnlessTypeOK ==
    ASSUME TypeOK, NEW caused, DropUnless(caused)
    PROVE  faults' \in Faults
  BY SMTT(30) DEF TypeOK, DropUnless, Faults

LEMMA EpochsToTypeOK ==
    ASSUME NEW epoch \in Seq(Peers), NEW cert \in Certificate,
           NEW tracked \in BOOLEAN, NEW others \in SUBSET Peers
    PROVE  EpochsTo(epoch, cert, tracked, others) \subseteq EpochReq
  BY SMTT(30) DEF EpochsTo, EpochReq

LEMMA PushedTypeOK ==
    ASSUME TypeOK, NEW p \in Peers, NEW tracked \in BOOLEAN, NEW others \in SUBSET Peers
    PROVE  /\ PushedEpochs(p, tracked, others) \subseteq EpochReq
           /\ PushedSnapshots(p, others) \subseteq Push
<1>1. disk[p].epoch \in Seq(Peers) /\ disk[p].cert \in Certificate /\ disk[p].snap \in Nat
  BY SMTT(30) DEF TypeOK, Disk
<1> QED
  BY SMTT(30), <1>1, EpochsToTypeOK DEF PushedEpochs, PushedSnapshots, Push

LEMMA RuntimeFields ==
    ASSUME NEW r \in Runtime
    PROVE  /\ r.conn \in SUBSET Peers /\ r.window \in BOOLEAN
           /\ r.status \in SUBSET Peers /\ r.capability \in SUBSET Peers
           /\ r.ballot \in Ballot /\ r.votes \in SUBSET Peers /\ r.floor \in Nat
           /\ r.epochAcks \in SUBSET Peers /\ r.leaseAcks \in SUBSET Peers
           /\ r.replicated \in SUBSET Peers
  BY DEF Runtime

LEMMA RuntimeUpdates ==
    ASSUME NEW r \in Runtime
    PROVE  /\ \A S \in SUBSET Peers :
                 /\ [r EXCEPT !.conn = S] \in Runtime
                 /\ [r EXCEPT !.status = S] \in Runtime
                 /\ [r EXCEPT !.capability = S] \in Runtime
                 /\ [r EXCEPT !.votes = S] \in Runtime
                 /\ [r EXCEPT !.epochAcks = S] \in Runtime
                 /\ [r EXCEPT !.leaseAcks = S] \in Runtime
                 /\ [r EXCEPT !.replicated = S] \in Runtime
           /\ \A w \in BOOLEAN : [r EXCEPT !.window = w] \in Runtime
           /\ \A b \in Ballot : [r EXCEPT !.ballot = b] \in Runtime
           /\ \A n \in Nat : [r EXCEPT !.floor = n] \in Runtime
  BY DEF Runtime

LEMMA ConnectionTypeOK ==
    ASSUME TypeOK, NEW p \in Peers, NEW q \in Peers,
           \/ Authenticated(p, q) \/ Disconnected(p, q) \/ Observe(p, q)
           \/ ObservationExpires(p, q) \/ RecoveryWindowOpens(p)
    PROVE  TypeOK'
<1>0. rt \in [Peers -> Runtime] /\ rt[p] \in Runtime /\ rt[q] \in Runtime
  BY DEF TypeOK
<1>1. CASE Authenticated(p, q)
  <2>1. rt' \in [Peers -> Runtime]
    <3> DEFINE rp == [rt[p] EXCEPT !.conn = @ \cup {q}]
               rq == [rt[q] EXCEPT !.conn = @ \cup {p}]
    <3>1. p # q
      BY SMTT(30), <1>1, PeersAssumption DEF Authenticated
    <3>2. rt' = [rt EXCEPT ![p] = rp, ![q] = rq]
      BY <1>0, <1>1, <3>1 DEF Authenticated
    <3>3. rp \in Runtime /\ rq \in Runtime
      BY <1>0, RuntimeFields, RuntimeUpdates
    <3> QED
      BY <1>0, <3>2, <3>3
  <2>2. epochReqs' \subseteq EpochReq
    <3>1. \A r \in KnownWorldPushers(p, q) : PushedEpochs(r, FALSE, {p, q} \ {r}) \subseteq EpochReq
      BY PushedTypeOK DEF KnownWorldPushers
    <3> QED
      BY <1>1, <3>1 DEF TypeOK, Authenticated
  <2>3. pushes' \subseteq Push
    <3>1. \A r \in KnownWorldPushers(p, q) : PushedSnapshots(r, {p, q} \ {r}) \subseteq Push
      BY PushedTypeOK DEF KnownWorldPushers
    <3> QED
      BY <1>1, <3>1 DEF TypeOK, Authenticated
  <2> QED
    BY <1>1, <2>1, <2>2, <2>3 DEF TypeOK, Authenticated
<1>2. CASE Disconnected(p, q)
  <2>1. rt' \in [Peers -> Runtime]
    <3> DEFINE r == [rt[p] EXCEPT !.conn = @ \ {q}, !.votes = @ \ {q},
                                  !.epochAcks = @ \ {q}, !.leaseAcks = @ \ {q},
                                  !.status = @ \ {q}, !.capability = @ \ {q}]
    <3>1. rt' = [rt EXCEPT ![p] = r]
      BY <1>0, <1>2 DEF Disconnected
    <3>2. r \in Runtime
      BY <1>0, RuntimeFields, RuntimeUpdates
    <3> QED
      BY <1>0, <3>1, <3>2
  <2>2. faults' \in Faults
    BY <1>2, DropUnlessTypeOK DEF Disconnected
  <2> QED
    BY <1>2, <2>1, <2>2, DropTrafficTypeOK DEF TypeOK, Disconnected
<1>3. CASE Observe(p, q)
  <2>1. rt' \in [Peers -> Runtime]
    <3>1. PICK S \in SUBSET Peers :
             \/ rt' = [rt EXCEPT ![p] = [rt[p] EXCEPT !.status = S]]
             \/ rt' = [rt EXCEPT ![p] = [rt[p] EXCEPT !.capability = S]]
      BY <1>0, <1>3, RuntimeFields DEF Observe, StatusObserved, CapabilityObserved
    <3> QED
      BY <1>0, <3>1, RuntimeUpdates
  <2> QED
    BY <1>3, <2>1 DEF TypeOK, Observe, StatusObserved, CapabilityObserved, network
<1>4. CASE ObservationExpires(p, q)
  <2>1. rt' \in [Peers -> Runtime]
    <3>1. PICK S \in SUBSET Peers :
             \/ rt' = [rt EXCEPT ![p] = [rt[p] EXCEPT !.status = S]]
             \/ rt' = [rt EXCEPT ![p] = [rt[p] EXCEPT !.capability = S]]
      BY <1>0, <1>4, RuntimeFields DEF ObservationExpires
    <3> QED
      BY <1>0, <3>1, RuntimeUpdates
  <2>2. faults' \in Faults
    BY <1>4, DropUnlessTypeOK DEF ObservationExpires
  <2> QED
    BY <1>4, <2>1, <2>2 DEF TypeOK, ObservationExpires, network
<1>5. CASE RecoveryWindowOpens(p)
  <2>1. rt' \in [Peers -> Runtime]
    <3>1. rt' = [rt EXCEPT ![p] = [rt[p] EXCEPT !.window = TRUE]]
      BY <1>5 DEF RecoveryWindowOpens
    <3>2. [rt[p] EXCEPT !.window = TRUE] \in Runtime
      BY <1>0, RuntimeUpdates, Zenon
    <3> QED
      BY <1>0, <3>1, <3>2
  <2> QED
    BY <1>5, <2>1 DEF TypeOK, RecoveryWindowOpens, network
<1> QED
  BY <1>1, <1>2, <1>3, <1>4, <1>5

LEMMA EpochUnacknowledgedTypeOK ==
    ASSUME TypeOK, NEW m \in epochReqs
    PROVE  EpochUnacknowledged(m) \in [Peers -> Runtime]
<1>0. rt \in [Peers -> Runtime] /\ \A p \in Peers : rt[p] \in Runtime
  BY DEF TypeOK
<1> DEFINE e == EpochSender(m)
           r == [rt[e] EXCEPT !.epochAcks = @ \ {m.to}]
<1>1. EpochUnacknowledged(m) \in {rt, [rt EXCEPT ![e] = r]}
  BY DEF EpochUnacknowledged
<1>2. e \in Peers => r \in Runtime
  BY <1>0, RuntimeFields, RuntimeUpdates
<1> QED
  BY <1>0, <1>1, <1>2

LEMMA LossTypeOK ==
    ASSUME TypeOK,
           \/ \E m \in ballotReqs : BallotReqLost(m)
           \/ \E m \in epochReqs : EpochReqLost(m)
           \/ \E m \in pushes : PushLost(m)
           \/ \E p, q \in Peers : LeaseLapses(p, q)
    PROVE  TypeOK'
<1>0. rt \in [Peers -> Runtime] /\ \A p \in Peers : rt[p] \in Runtime
  BY DEF TypeOK
<1>1. ASSUME NEW m \in ballotReqs, BallotReqLost(m) PROVE TypeOK'
  <2>1. faults' \in Faults
    BY <1>1, DropUnlessTypeOK DEF BallotReqLost
  <2>2. rt' \in [Peers -> Runtime]
    <3>1. m.ballot.cand \in Peers
      BY <1>1 DEF TypeOK, BallotReq, Ballot
    <3>2. rt' = [rt EXCEPT ![m.ballot.cand] =
                    [rt[m.ballot.cand] EXCEPT !.votes = @ \ {m.to}]]
      BY <1>1 DEF BallotReqLost
    <3> QED
      BY <1>0, <3>1, <3>2, RuntimeFields, RuntimeUpdates
  <2> QED
    BY <1>1, <2>1, <2>2 DEF TypeOK, BallotReqLost
<1>2. ASSUME NEW m \in epochReqs, EpochReqLost(m) PROVE TypeOK'
  <2>1. faults' \in Faults
    BY <1>2, DropUnlessTypeOK DEF EpochReqLost
  <2> QED
    BY <1>2, <2>1, EpochUnacknowledgedTypeOK DEF TypeOK, EpochReqLost
<1>3. ASSUME NEW m \in pushes, PushLost(m) PROVE TypeOK'
  <2>1. faults' \in Faults
    BY <1>3, DropUnlessTypeOK DEF PushLost
  <2> QED
    BY <1>3, <2>1 DEF TypeOK, PushLost
<1>4. ASSUME NEW p \in Peers, NEW q \in Peers, LeaseLapses(p, q) PROVE TypeOK'
  <2>1. faults' \in Faults
    BY <1>4, DropUnlessTypeOK DEF LeaseLapses
  <2>2. rt' \in [Peers -> Runtime]
    <3>1. rt' = [rt EXCEPT ![p] = [rt[p] EXCEPT !.leaseAcks = @ \ {q}]]
      BY <1>4 DEF LeaseLapses
    <3> QED
      BY <1>0, <3>1, RuntimeFields, RuntimeUpdates
  <2> QED
    BY <1>4, <2>1, <2>2 DEF TypeOK, LeaseLapses, network
<1> QED
  BY <1>1, <1>2, <1>3, <1>4

LEMMA LeaseGrantTypeOK ==
    ASSUME TypeOK, NEW p \in Peers, NEW q \in Peers, LeaseGrant(p, q)
    PROVE  TypeOK'
<1>0. rt \in [Peers -> Runtime] /\ rt[p] \in Runtime /\ rt[q] \in Runtime
  BY DEF TypeOK
<1>1. rt' \in [Peers -> Runtime]
  <2> DEFINE rq == [rt[q] EXCEPT !.window = FALSE]
             acked == rt[p].leaseAcks \cup {q}
             sent == IF InRecoveryMode(p) THEN rt[p].replicated \cup {q} ELSE rt[p].replicated
             rp == [rt[p] EXCEPT !.leaseAcks = acked, !.replicated = sent]
  <2>1. p # q
    BY DEF LeaseGrant, Linked
  <2>2. rt' = [rt EXCEPT ![q] = rq, ![p] = rp]
    BY <1>0, <2>1 DEF LeaseGrant
  <2>3. rq \in Runtime
    BY <1>0, RuntimeUpdates, Zenon
  <2>4. acked \in SUBSET Peers /\ sent \in SUBSET Peers
    BY <1>0, RuntimeFields
  <2>5. rp \in Runtime
    BY <1>0, <2>4, RuntimeUpdates
  <2> QED
    BY <1>0, <2>2, <2>3, <2>5
<1>2. pushes' \subseteq Push
  BY PushedTypeOK DEF TypeOK, LeaseGrant
<1> QED
  BY <1>1, <1>2 DEF TypeOK, LeaseGrant

LEMMA DiskFields ==
    ASSUME NEW d \in Disk
    PROVE  /\ d.epoch \in Seq(Peers) /\ d.snap \in Nat /\ d.promise \in Ballot
           /\ d.cert \in Certificate /\ d.permit \in Nat
  BY DEF Disk

(* A step that changes the files of one peer keeps them well typed.        *)
LEMMA DiskStepTypeOK ==
    ASSUME TypeOK, NEW p \in Peers, NEW d \in Disk, d.epoch # << >>,
           disk' = [disk EXCEPT ![p] = d]
    PROVE  disk' \in [Peers -> Disk] /\ \A q \in Peers : disk'[q].epoch # << >>
  BY DEF TypeOK

LEMMA AuthorityTickTypeOK ==
    ASSUME TypeOK, NEW p \in Peers, AuthorityTick(p) \/ AuthorityTickFails(p)
    PROVE  TypeOK'
<1>0. /\ rt \in [Peers -> Runtime] /\ rt[p] \in Runtime
      /\ disk \in [Peers -> Disk] /\ disk[p] \in Disk
  BY DEF TypeOK
<1>1. Generation(p) \in Nat /\ disk[p].epoch # << >>
  BY <1>0, DiskFields, LenProperties DEF Generation, TypeOK
<1>2. PromotedSnapshot(p) \in Nat
  BY <1>0, <1>1, DiskFields DEF PromotedSnapshot
<1>3. CASE AuthorityTick(p)
  <2> DEFINE pm == IF EpochQuorum(p) /\ AckQuorum(p, rt[p].leaseAcks) THEN Generation(p) ELSE 0
             pr == IF EpochQuorum(p) THEN ClearedPromise(disk[p].promise, Generation(p))
                   ELSE disk[p].promise
             d == [disk[p] EXCEPT !.snap = PromotedSnapshot(p), !.permit = pm, !.promise = pr]
  <2>1. pm \in Nat /\ pr \in Ballot
    BY <1>0, <1>1, DiskFields, Basics DEF ClearedPromise
  <2>2. d \in Disk /\ d.epoch = disk[p].epoch
    BY <1>0, <1>2, <2>1 DEF Disk
  <2>3. disk' = [disk EXCEPT ![p] = d]
    BY <1>0, <1>3 DEF AuthorityTick
  <2>4. disk' \in [Peers -> Disk] /\ \A q \in Peers : disk'[q].epoch # << >>
    BY <1>1, <2>2, <2>3, DiskStepTypeOK
  <2>5. rt' \in [Peers -> Runtime]
    BY <1>0, <1>3, RuntimeUpdates DEF AuthorityTick, AfterPromotion
  <2>6. epochReqs' \subseteq EpochReq
    <3> DEFINE others == {q \in Links(p) \ rt[p].epochAcks : ~EpochPending(p, q)}
    <3>1. others \in SUBSET Peers
      BY DEF Links
    <3>2. PushedEpochs(p, TRUE, others) \subseteq EpochReq
      BY <3>1, PushedTypeOK
    <3> QED
      BY <1>3, <3>2 DEF TypeOK, AuthorityTick
  <2> QED
    BY <1>3, <2>4, <2>5, <2>6 DEF TypeOK, AuthorityTick
<1>4. CASE AuthorityTickFails(p)
  <2> DEFINE d == [disk[p] EXCEPT !.snap = PromotedSnapshot(p)]
  <2>1. d \in Disk /\ d.epoch = disk[p].epoch
    BY <1>0, <1>2 DEF Disk
  <2>2. disk' = [disk EXCEPT ![p] = d]
    BY <1>0, <1>4 DEF AuthorityTickFails
  <2>3. disk' \in [Peers -> Disk] /\ \A q \in Peers : disk'[q].epoch # << >>
    BY <1>1, <2>1, <2>2, DiskStepTypeOK
  <2> QED
    BY <1>4, <2>3, DownTypeOK DEF TypeOK, AuthorityTickFails
<1> QED
  BY <1>3, <1>4

LEMMA CampaignTypeOK ==
    ASSUME TypeOK, NEW p \in Peers,
           \/ FollowerTick(p) \/ StartBallot(p) \/ BallotRefusedLocally(p)
           \/ RetryBallot(p)
    PROVE  TypeOK'
<1>0. /\ rt \in [Peers -> Runtime] /\ rt[p] \in Runtime
      /\ disk \in [Peers -> Disk] /\ disk[p] \in Disk /\ disk[p].epoch # << >>
      /\ ballotReqs \subseteq BallotReq
  BY DEF TypeOK
<1>1. [disk[p] EXCEPT !.permit = 0] \in Disk /\ [disk[p] EXCEPT !.permit = 0].epoch # << >>
  BY <1>0 DEF Disk
<1>2. disk[p].promise.round \in Nat /\ rt[p].floor \in Nat /\ rt[p].ballot \in Ballot
  BY <1>0, DiskFields, RuntimeFields DEF Ballot
<1>3. \A b \in Ballot, S \in SUBSET Peers : BallotsTo(b, S) \subseteq BallotReq
  BY SMTT(30) DEF BallotsTo, BallotReq
<1>4. CASE FollowerTick(p)
  <2>1. disk' = [disk EXCEPT ![p] = [disk[p] EXCEPT !.permit = 0]]
    BY <1>4 DEF FollowerTick
  <2> QED
    BY <1>1, <1>4, <2>1, DiskStepTypeOK DEF TypeOK, FollowerTick, network
<1>5. CASE StartBallot(p)
  <2> DEFINE b == NextBallot(p)
             d == [disk[p] EXCEPT !.promise = b, !.permit = 0]
             r == [rt[p] EXCEPT !.ballot = b, !.votes = {p}]
  <2>1. b \in Ballot
    <3>1. Generation(p) \in Nat /\ disk[p].snap \in Nat
      BY <1>0, DiskFields, LenProperties DEF Generation
    <3> QED
      BY SMTT(30), <1>2, <3>1 DEF NextBallot, RoundFloor, Ballot
  <2>2. d \in Disk /\ d.epoch = disk[p].epoch
    BY <1>0, <2>1 DEF Disk
  <2>3. disk' = [disk EXCEPT ![p] = d]
    BY <1>0, <1>5 DEF StartBallot
  <2>4. disk' \in [Peers -> Disk] /\ \A q \in Peers : disk'[q].epoch # << >>
    BY <1>0, <2>2, <2>3, DiskStepTypeOK
  <2>5. r \in Runtime
    BY <1>0, <2>1, RuntimeUpdates
  <2>6. rt' = [rt EXCEPT ![p] = r]
    BY <1>0, <1>5 DEF StartBallot
  <2>7. rt' \in [Peers -> Runtime]
    BY <1>0, <2>5, <2>6
  <2>8. signed' \subseteq Vote
    BY SMTT(30), <1>5, <2>1 DEF TypeOK, StartBallot, Vote
  <2>9. ballotReqs' \subseteq BallotReq
    BY <1>0, <1>3, <1>5, <2>1 DEF StartBallot, Links
  <2> QED
    BY <1>5, <2>4, <2>7, <2>8, <2>9 DEF TypeOK, StartBallot
<1>6. CASE BallotRefusedLocally(p)
  <2>1. disk' = [disk EXCEPT ![p] = [disk[p] EXCEPT !.permit = 0]]
    BY <1>6 DEF BallotRefusedLocally
  <2>2. rt' = [rt EXCEPT ![p] = [rt[p] EXCEPT !.floor = disk[p].promise.round]]
    BY <1>6 DEF BallotRefusedLocally
  <2>3. rt' \in [Peers -> Runtime]
    BY <1>0, <1>2, <2>2, RuntimeUpdates
  <2> QED
    BY <1>1, <1>6, <2>1, <2>3, DiskStepTypeOK DEF TypeOK, BallotRefusedLocally, network
<1>7. CASE RetryBallot(p)
  <2>1. disk' = [disk EXCEPT ![p] = [disk[p] EXCEPT !.permit = 0]]
    BY <1>7 DEF RetryBallot
  <2>2. ballotReqs' \subseteq BallotReq
    BY <1>0, <1>2, <1>3, <1>7 DEF RetryBallot, Resends, Links
  <2> QED
    BY <1>1, <1>7, <2>1, <2>2, DiskStepTypeOK DEF TypeOK, RetryBallot
<1> QED
  BY <1>4, <1>5, <1>6, <1>7

LEMMA AdvancedTypeOK ==
    ASSUME NEW r \in Runtime
    PROVE  Advanced(r) \in Runtime
  BY RuntimeUpdates DEF Advanced

LEMMA RecoveryRecordTypeOK ==
    ASSUME TypeOK, NEW p \in Peers
    PROVE  /\ RecoveryRecord(p) \in Seq(Peers) /\ RecoveryRecord(p) # << >>
           /\ OwnCertificate(p) \in Certificate
<1>1. disk[p].epoch \in Seq(Peers)
  BY DEF TypeOK, Disk
<1>2. rt[p].ballot \in Ballot /\ rt[p].votes \in SUBSET Peers
  BY RuntimeFields DEF TypeOK
<1> QED
  BY SMTT(30), <1>1, <1>2, AppendProperties DEF RecoveryRecord, OwnCertificate, Certificate

LEMMA PromotionTypeOK ==
    ASSUME TypeOK, NEW p \in Peers,
           PromoteRecovery(p) \/ \E k \in 1 .. EpochWrites - 1 : TornPromotion(p, k)
    PROVE  TypeOK'
<1>0. /\ rt \in [Peers -> Runtime] /\ rt[p] \in Runtime
      /\ disk \in [Peers -> Disk] /\ disk[p] \in Disk /\ disk[p].epoch # << >>
  BY DEF TypeOK
<1> DEFINE done(k) == AfterWrites(disk[p], RecoveryRecord(p), OwnCertificate(p), k)
           d(k) == [done(k) EXCEPT !.permit = 0]
<1>1. ASSUME NEW k \in Nat PROVE d(k) \in Disk /\ d(k).epoch # << >>
  <2>1. done(k) \in Disk /\ done(k).epoch # << >>
    BY <1>0, RecoveryRecordTypeOK, AfterWritesTypeOK
  <2> HIDE DEF done
  <2> QED
    BY <2>1 DEF Disk
<1>2. CASE PromoteRecovery(p)
  <2>1. disk' = [disk EXCEPT ![p] = d(EpochWrites)]
    BY <1>2 DEF PromoteRecovery
  <2>2. disk' \in [Peers -> Disk] /\ \A q \in Peers : disk'[q].epoch # << >>
    <3> HIDE DEF d
    <3> QED
      BY <1>1, <2>1, DiskStepTypeOK DEF EpochWrites
  <2> DEFINE a == Advanced(rt[p])
             r == [a EXCEPT !.ballot = NoBallot, !.votes = {}, !.replicated = {}]
  <2>3. r \in Runtime
    <3>1. a \in Runtime
      BY <1>0, AdvancedTypeOK
    <3> HIDE DEF a
    <3> QED
      BY <3>1, Basics, RuntimeUpdates
  <2>4. rt' = [rt EXCEPT ![p] = r]
    BY <1>2 DEF PromoteRecovery
  <2>5. rt' \in [Peers -> Runtime]
    <3> HIDE DEF r
    <3> QED
      BY <1>0, <2>3, <2>4
  <2>6. ballotReqs' \subseteq BallotReq
    <3>1. rt[p].ballot \in Ballot
      BY <1>0, RuntimeFields
    <3> QED
      BY SMTT(30), <1>2, <3>1 DEF TypeOK, PromoteRecovery, Resends, BallotsTo, BallotReq, Links
  <2>7. epochReqs' \subseteq EpochReq
    <3> DEFINE others == Visible(p) \cap Links(p)
    <3>1. others \in SUBSET Peers
      BY DEF Links
    <3>2. EpochsTo(RecoveryRecord(p), OwnCertificate(p), TRUE, others) \subseteq EpochReq
      BY <3>1, RecoveryRecordTypeOK, EpochsToTypeOK
    <3> QED
      BY <1>2, <3>2 DEF TypeOK, PromoteRecovery
  <2> QED
    BY <1>2, <2>2, <2>5, <2>6, <2>7 DEF TypeOK, PromoteRecovery
<1>3. ASSUME NEW k \in 1 .. EpochWrites - 1, TornPromotion(p, k) PROVE TypeOK'
  <2>1. disk' = [disk EXCEPT ![p] = d(k)]
    BY <1>3 DEF TornPromotion
  <2>2. disk' \in [Peers -> Disk] /\ \A q \in Peers : disk'[q].epoch # << >>
    <3> HIDE DEF d
    <3>1. k \in Nat
      BY SMTT(30) DEF EpochWrites
    <3>2. d(k) \in Disk /\ d(k).epoch # << >>
      BY <1>1, <3>1
    <3> QED
      BY <2>1, <3>2, DiskStepTypeOK
  <2>3. faults' \in Faults
    BY SMTT(30), <1>3 DEF TypeOK, TornPromotion, Faults
  <2> QED
    BY <1>3, <2>2, <2>3, DownTypeOK DEF TypeOK, TornPromotion
<1> QED
  BY <1>2, <1>3

LEMMA BallotTypeOK ==
    ASSUME TypeOK, NEW m \in ballotReqs, HandleBallot(m) \/ RejectBallot(m)
    PROVE  TypeOK'
<1>0. /\ rt \in [Peers -> Runtime] /\ disk \in [Peers -> Disk]
      /\ m.to \in Peers /\ m.ballot \in Ballot /\ m.ballot.cand \in Peers
      /\ disk[m.to] \in Disk /\ disk[m.to].epoch # << >>
      /\ rt[m.ballot.cand] \in Runtime
  BY DEF TypeOK, BallotReq, Ballot
<1>1. CASE HandleBallot(m)
  <2>1. VoteReply(m.to, m.ballot) \in Reply /\ RefusalReply(m.to, m.ballot) \in Reply
    <3>1. disk[m.to].promise.round \in Nat
      BY <1>0, DiskFields DEF Ballot
    <3> QED
      BY <1>0, <3>1 DEF VoteReply, RefusalReply, Reply
  <2>2. replies' \subseteq Reply
    BY <1>1, <2>1 DEF TypeOK, HandleBallot
  <2>3. signed' \subseteq Vote
    BY SMTT(30), <1>0, <1>1 DEF TypeOK, HandleBallot, Vote
  <2>4. disk' = disk \/ disk' = [disk EXCEPT ![m.to] = [disk[m.to] EXCEPT !.promise = m.ballot]]
    BY <1>1 DEF HandleBallot
  <2>5. disk' \in [Peers -> Disk] /\ \A q \in Peers : disk'[q].epoch # << >>
    <3> DEFINE d == [disk[m.to] EXCEPT !.promise = m.ballot]
    <3>1. d \in Disk /\ d.epoch # << >>
      BY <1>0 DEF Disk
    <3>2. CASE disk' = [disk EXCEPT ![m.to] = d]
      <4> HIDE DEF d
      <4> QED
        BY <1>0, <3>1, <3>2, DiskStepTypeOK
    <3>3. CASE disk' = disk
      BY <1>0, <3>3 DEF TypeOK
    <3> QED
      BY <2>4, <3>2, <3>3
  <2> QED
    BY <1>1, <2>2, <2>3, <2>5 DEF TypeOK, HandleBallot
<1>2. CASE RejectBallot(m)
  <2>1. rt' = [rt EXCEPT ![m.ballot.cand] =
                  [rt[m.ballot.cand] EXCEPT !.votes = @ \ {m.to}]]
    BY <1>2 DEF RejectBallot
  <2>2. rt' \in [Peers -> Runtime]
    BY <1>0, <2>1, RuntimeFields, RuntimeUpdates
  <2> QED
    BY <1>2, <2>2 DEF TypeOK, RejectBallot
<1> QED
  BY <1>1, <1>2

LEMMA ReplyTypeOK ==
    ASSUME TypeOK, NEW m \in replies,
           HandleVote(m) \/ LateVoteStopsDaemon(m) \/ HandleRefusal(m)
    PROVE  TypeOK'
<1> DEFINE p == m.ballot.cand
<1>0. /\ rt \in [Peers -> Runtime] /\ p \in Peers /\ rt[p] \in Runtime
      /\ m.voter \in Peers /\ m.highest \in Nat
  BY DEF TypeOK, Reply, Ballot
<1>1. CASE HandleVote(m)
  <2> DEFINE S == IF rt[p].ballot = m.ballot THEN rt[p].votes \cup {m.voter} ELSE rt[p].votes
  <2>1. rt' = [rt EXCEPT ![p] = [rt[p] EXCEPT !.votes = S]]
    BY <1>1 DEF HandleVote
  <2>2. S \in SUBSET Peers
    BY <1>0, RuntimeFields
  <2>3. rt' \in [Peers -> Runtime]
    BY <1>0, <2>1, <2>2, RuntimeUpdates
  <2> QED
    BY <1>1, <2>3 DEF TypeOK, HandleVote
<1>2. CASE LateVoteStopsDaemon(m)
  BY <1>0, <1>2, DownTypeOK DEF TypeOK, LateVoteStopsDaemon
<1>3. CASE HandleRefusal(m)
  <2> DEFINE n == IF rt[p].floor >= m.highest THEN rt[p].floor ELSE m.highest
             r == [rt[p] EXCEPT !.floor = n, !.ballot = NoBallot, !.votes = {}]
  <2>1. rt' = rt \/ rt' = [rt EXCEPT ![p] = r]
    BY <1>0, <1>3 DEF HandleRefusal
  <2>2. n \in Nat
    BY <1>0, RuntimeFields
  <2>3. r \in Runtime
    <3> HIDE DEF n
    <3> QED
      BY <1>0, <2>2, Basics, RuntimeUpdates
  <2>4. rt' \in [Peers -> Runtime]
    <3> HIDE DEF r
    <3> QED
      BY <1>0, <2>1, <2>3
  <2> QED
    BY <1>3, <2>4 DEF TypeOK, HandleRefusal
<1> QED
  BY <1>1, <1>2, <1>3

LEMMA EpochTypeOK ==
    ASSUME TypeOK, NEW m \in epochReqs,
           \/ HandleRecoveryEpoch(m) \/ RejectRecoveryEpoch(m)
           \/ \E k \in 1 .. EpochWrites - 1 : TornRecoveryEpoch(m, k)
    PROVE  TypeOK'
<1>0. /\ rt \in [Peers -> Runtime] /\ disk \in [Peers -> Disk]
      /\ m.to \in Peers /\ m.epoch \in Seq(Peers) /\ m.cert \in Certificate
      /\ disk[m.to] \in Disk /\ disk[m.to].epoch # << >> /\ rt[m.to] \in Runtime
  BY DEF TypeOK, EpochReq
<1> DEFINE d(k) == AfterWrites(disk[m.to], m.epoch, m.cert, k)
<1>1. ASSUME AcceptsEpoch(m), NEW k \in Nat PROVE d(k) \in Disk /\ d(k).epoch # << >>
  <2>1. m.epoch # << >>
    <3>1. Len(m.epoch) = m.cert.ballot.base + 1 /\ m.cert.ballot.base \in Nat
      BY <1>0, <1>1 DEF AcceptsEpoch, ValidRecoveryEpoch, Certificate, Ballot
    <3> QED
      BY SMTT(30), <3>1, EmptySeq
  <2> QED
    BY <1>0, <2>1, AfterWritesTypeOK
<1>2. CASE HandleRecoveryEpoch(m)
  <2>1. disk' = [disk EXCEPT ![m.to] = d(EpochWrites)]
    BY <1>2 DEF HandleRecoveryEpoch
  <2>2. disk' \in [Peers -> Disk] /\ \A q \in Peers : disk'[q].epoch # << >>
    <3>1. d(EpochWrites) \in Disk /\ d(EpochWrites).epoch # << >>
      BY <1>1, <1>2 DEF HandleRecoveryEpoch, EpochWrites
    <3> HIDE DEF d
    <3> QED
      BY <1>0, <2>1, <3>1, DiskStepTypeOK
  <2> DEFINE mid == [rt EXCEPT ![m.to] = IF IsRepeat(m) THEN @ ELSE Advanced(@)]
             p == EpochSender(m)
             S == IF disk[p].epoch = m.epoch THEN mid[p].epochAcks \cup {m.to}
                  ELSE mid[p].epochAcks \ {m.to}
             r == [mid[p] EXCEPT !.epochAcks = S]
  <2>3. mid \in [Peers -> Runtime]
    BY <1>0, AdvancedTypeOK
  <2>4. rt' = mid \/ rt' = [mid EXCEPT ![p] = r]
    BY <1>2 DEF HandleRecoveryEpoch, AckEpoch
  <2>5. p \in Peers => r \in Runtime
    <3> HIDE DEF mid
    <3> SUFFICES ASSUME p \in Peers PROVE r \in Runtime
      OBVIOUS
    <3>1. mid[p] \in Runtime
      BY <2>3
    <3>2. S \in SUBSET Peers
      BY <1>0, <3>1, RuntimeFields
    <3> HIDE DEF S
    <3> QED
      BY <3>1, <3>2, RuntimeUpdates
  <2>6. rt' \in [Peers -> Runtime]
    <3> HIDE DEF mid, r, p
    <3> QED
      BY <2>3, <2>4, <2>5
  <2> QED
    BY <1>2, <2>2, <2>6 DEF TypeOK, HandleRecoveryEpoch
<1>3. CASE RejectRecoveryEpoch(m)
  BY <1>3, EpochUnacknowledgedTypeOK DEF TypeOK, RejectRecoveryEpoch
<1>4. ASSUME NEW k \in 1 .. EpochWrites - 1, TornRecoveryEpoch(m, k) PROVE TypeOK'
  <2>1. disk' = [disk EXCEPT ![m.to] = d(k)]
    BY <1>4 DEF TornRecoveryEpoch
  <2>2. disk' \in [Peers -> Disk] /\ \A q \in Peers : disk'[q].epoch # << >>
    <3>1. d(k) \in Disk /\ d(k).epoch # << >>
      BY SMTT(30), <1>1, <1>4 DEF TornRecoveryEpoch, EpochWrites
    <3> HIDE DEF d
    <3> QED
      BY <1>0, <2>1, <3>1, DiskStepTypeOK
  <2>3. faults' \in Faults
    BY SMTT(30), <1>4 DEF TypeOK, TornRecoveryEpoch, Faults
  <2> QED
    BY <1>0, <1>4, <2>2, <2>3, DownTypeOK DEF TypeOK, TornRecoveryEpoch
<1> QED
  BY <1>2, <1>3, <1>4

LEMMA SnapshotTypeOK ==
    ASSUME TypeOK, NEW m \in pushes, HandleSnapshot(m)
    PROVE  TypeOK'
<1>0. /\ rt \in [Peers -> Runtime] /\ disk \in [Peers -> Disk]
      /\ m.to \in Peers /\ m.snap \in Nat
      /\ disk[m.to] \in Disk /\ disk[m.to].epoch # << >> /\ rt[m.to] \in Runtime
  BY DEF TypeOK, Push
<1>1. CASE AcceptsSnapshot(m)
  <2> DEFINE d == [disk[m.to] EXCEPT !.snap = m.snap]
  <2>1. d \in Disk /\ d.epoch # << >>
    BY <1>0 DEF Disk
  <2>2. disk' = [disk EXCEPT ![m.to] = d]
    BY <1>1 DEF HandleSnapshot
  <2>3. disk' \in [Peers -> Disk] /\ \A q \in Peers : disk'[q].epoch # << >>
    <3> HIDE DEF d
    <3> QED
      BY <1>0, <2>1, <2>2, DiskStepTypeOK
  <2>4. rt' = [rt EXCEPT ![m.to] = [rt[m.to] EXCEPT !.status = {}]]
    BY <1>1 DEF HandleSnapshot
  <2>5. rt' \in [Peers -> Runtime]
    BY <1>0, <2>4, RuntimeUpdates
  <2> QED
    BY <2>3, <2>5 DEF TypeOK, HandleSnapshot
<1>2. CASE ~AcceptsSnapshot(m)
  BY <1>2 DEF TypeOK, HandleSnapshot
<1> QED
  BY <1>1, <1>2

LEMMA HostTypeOK ==
    ASSUME TypeOK, NEW p \in Peers, Crash(p) \/ Restart(p)
    PROVE  TypeOK'
<1>1. CASE Crash(p)
  <2>1. faults' \in Faults
    BY SMTT(30), <1>1 DEF TypeOK, Crash, Faults
  <2> QED
    BY <1>1, <2>1, DownTypeOK DEF TypeOK, Crash
<1>2. CASE Restart(p)
  BY <1>2 DEF TypeOK, Restart, network
<1> QED
  BY <1>1, <1>2

LEMMA TypeStep == TypeOK /\ [Next]_vars => TypeOK'
<1> SUFFICES ASSUME TypeOK, [Next]_vars PROVE TypeOK'
  OBVIOUS
<1>1. CASE UNCHANGED vars
  BY <1>1 DEF TypeOK, vars
<1>2. CASE \E p \in Peers : Tick(p) \/ RecoveryWindowOpens(p) \/ Restart(p)
  BY <1>2, AuthorityTickTypeOK, CampaignTypeOK, PromotionTypeOK, ConnectionTypeOK,
     HostTypeOK DEF Tick
<1>3. CASE \E p, q \in Peers : \/ Authenticated(p, q) \/ Disconnected(p, q)
                               \/ Observe(p, q) \/ LeaseGrant(p, q)
  BY <1>3, ConnectionTypeOK, LeaseGrantTypeOK
<1>4. CASE Deliver
  BY <1>4, BallotTypeOK, ReplyTypeOK, EpochTypeOK, SnapshotTypeOK DEF Deliver
<1>5. CASE Fault
  BY <1>5, LossTypeOK, ConnectionTypeOK, PromotionTypeOK, EpochTypeOK, HostTypeOK DEF Fault
<1> QED
  BY <1>1, <1>2, <1>3, <1>4, <1>5 DEF Next

(* Every reachable state is well typed: what the daemons store, remember   *)
(* and send always has the shape the handlers rely on.                     *)
THEOREM TypeCorrect == Spec => []TypeOK
<1>1. Init => TypeOK
  BY InitTypeOK
<1>2. TypeOK /\ [Next]_vars => TypeOK'
  BY TypeStep
<1> QED
  BY <1>1, <1>2, PTL DEF Spec

-----------------------------------------------------------------------------
(* What one step can do to the files of a peer                             *)

SameEpoch(p) == disk'[p].epoch = disk[p].epoch /\ disk'[p].cert = disk[p].cert

Keeps(p) ==
    /\ SameEpoch(p) /\ disk'[p].promise = disk[p].promise
    /\ disk'[p].permit \in {0, disk[p].permit}
    /\ signed' = signed
Refreshes(p) ==
    /\ SameEpoch(p)
    /\ disk'[p].promise \in {disk[p].promise, ClearedPromise(disk[p].promise, Generation(p))}
    /\ \/ disk'[p].permit = 0
       \/ /\ disk'[p].permit = Generation(p)
          /\ Authority(p) = p /\ AckQuorum(p, rt[p].leaseAcks)
    /\ signed' = signed
Signs(p) ==
    /\ SameEpoch(p)
    /\ disk'[p].promise.base = Generation(p)
    /\ PromiseAccepts(disk[p].promise, disk'[p].promise)
    /\ disk'[p].permit \in {0, disk[p].permit}
    /\ signed' = signed \cup {[voter |-> p, ballot |-> disk'[p].promise]}
Promotes(p) ==
    /\ CanPromote(p)
    /\ \E k \in 1 .. EpochWrites :
          disk'[p] = [AfterWrites(disk[p], RecoveryRecord(p), OwnCertificate(p), k)
                        EXCEPT !.permit = 0]
    /\ signed' = signed
Accepts(p) ==
    /\ \E m \in epochReqs, k \in 1 .. EpochWrites :
          /\ m.to = p /\ AcceptsEpoch(m)
          /\ disk'[p] = AfterWrites(disk[p], m.epoch, m.cert, k)
    /\ signed' = signed

DiskStep(p) ==
    /\ \A q \in Peers \ {p} : disk'[q] = disk[q]
    /\ Keeps(p) \/ Refreshes(p) \/ Signs(p) \/ Promotes(p) \/ Accepts(p)

LEMMA OtherDisks ==
    ASSUME TypeOK, NEW p \in Peers, NEW d, disk' = [disk EXCEPT ![p] = d]
    PROVE  disk'[p] = d /\ \A q \in Peers \ {p} : disk'[q] = disk[q]
  BY DEF TypeOK

LEMMA KeepsDisk ==
    ASSUME TypeOK, NEW p \in Peers, disk' = disk, signed' = signed
    PROVE  DiskStep(p)
  BY DEF DiskStep, Keeps, SameEpoch

LEMMA TickDiskStep ==
    ASSUME TypeOK, NEW p \in Peers, Tick(p)
    PROVE  DiskStep(p)
<1>0. disk \in [Peers -> Disk] /\ disk[p] \in Disk
  BY DEF TypeOK
<1>1. CASE AuthorityTick(p)
  <2> DEFINE d == [disk[p] EXCEPT
                     !.snap = PromotedSnapshot(p),
                     !.permit = IF EpochQuorum(p) /\ AckQuorum(p, rt[p].leaseAcks)
                                THEN Generation(p) ELSE 0,
                     !.promise = IF EpochQuorum(p)
                                 THEN ClearedPromise(@, Generation(p)) ELSE @]
  <2>1. disk' = [disk EXCEPT ![p] = d] /\ Authority(p) = p /\ signed' = signed
    BY <1>0, <1>1 DEF AuthorityTick, IsAuthority
  <2>2. /\ d.epoch = disk[p].epoch /\ d.cert = disk[p].cert
        /\ d.promise \in {disk[p].promise, ClearedPromise(disk[p].promise, Generation(p))}
        /\ d.permit = 0 \/ (d.permit = Generation(p) /\ AckQuorum(p, rt[p].leaseAcks))
    BY <1>0 DEF Disk
  <2> HIDE DEF d
  <2> QED
    BY <2>1, <2>2, OtherDisks DEF DiskStep, Refreshes, SameEpoch
<1>2. CASE AuthorityTickFails(p) \/ FollowerTick(p) \/ BallotRefusedLocally(p) \/ RetryBallot(p)
  BY <1>0, <1>2 DEF AuthorityTickFails, FollowerTick, BallotRefusedLocally, RetryBallot,
     DiskStep, Keeps, SameEpoch, Disk
<1>3. CASE StartBallot(p)
  <2> DEFINE d == [disk[p] EXCEPT !.promise = NextBallot(p), !.permit = 0]
  <2>1. /\ disk' = [disk EXCEPT ![p] = d]
        /\ PromiseAccepts(disk[p].promise, NextBallot(p))
        /\ signed' = signed \cup {[voter |-> p, ballot |-> NextBallot(p)]}
    BY <1>0, <1>3 DEF StartBallot
  <2>2. /\ d.epoch = disk[p].epoch /\ d.cert = disk[p].cert /\ d.permit = 0
        /\ d.promise = NextBallot(p) /\ NextBallot(p).base = Generation(p)
    BY <1>0 DEF Disk, NextBallot
  <2> HIDE DEF d
  <2> QED
    BY <2>1, <2>2, OtherDisks DEF DiskStep, Signs, SameEpoch
<1>4. CASE PromoteRecovery(p)
  <2>1. EpochWrites \in 1 .. EpochWrites
    BY SMTT(30) DEF EpochWrites
  <2> QED
    BY <1>4, <2>1, OtherDisks DEF PromoteRecovery, DiskStep, Promotes
<1> QED
  BY <1>1, <1>2, <1>3, <1>4 DEF Tick

LEMMA BallotDiskStep ==
    ASSUME TypeOK, NEW m \in ballotReqs, HandleBallot(m)
    PROVE  DiskStep(m.to)
<1>0. /\ m.to \in Peers /\ disk \in [Peers -> Disk] /\ disk[m.to] \in Disk
  BY DEF TypeOK, BallotReq
<1>1. CASE disk' = disk /\ signed' = signed
  BY <1>0, <1>1, KeepsDisk
<1>2. CASE ~(disk' = disk /\ signed' = signed)
  <2> DEFINE d == [disk[m.to] EXCEPT !.promise = m.ballot]
  <2>1. /\ disk' = [disk EXCEPT ![m.to] = d] /\ PromiseAccepts(disk[m.to].promise, m.ballot)
        /\ m.ballot.base = Generation(m.to)
        /\ signed' = signed \cup {[voter |-> m.to, ballot |-> m.ballot]}
    BY <1>2 DEF HandleBallot, Admissible
  <2>2. /\ d.epoch = disk[m.to].epoch /\ d.cert = disk[m.to].cert
        /\ d.permit = disk[m.to].permit /\ d.promise = m.ballot
    BY <1>0 DEF Disk
  <2> HIDE DEF d
  <2> QED
    BY <1>0, <2>1, <2>2, OtherDisks DEF DiskStep, Signs, SameEpoch
<1> QED
  BY <1>1, <1>2

LEMMA EpochDiskStep ==
    ASSUME TypeOK, NEW m \in epochReqs,
           \/ HandleRecoveryEpoch(m)
           \/ \E k \in 1 .. EpochWrites - 1 : TornRecoveryEpoch(m, k)
    PROVE  DiskStep(m.to)
<1>0. m.to \in Peers
  BY DEF TypeOK, EpochReq
<1>1. PICK k \in 1 .. EpochWrites :
         /\ disk' = [disk EXCEPT ![m.to] = AfterWrites(disk[m.to], m.epoch, m.cert, k)]
         /\ AcceptsEpoch(m) /\ signed' = signed
  BY SMTT(30) DEF HandleRecoveryEpoch, TornRecoveryEpoch, EpochWrites
<1>2. /\ disk'[m.to] = AfterWrites(disk[m.to], m.epoch, m.cert, k)
      /\ \A q \in Peers \ {m.to} : disk'[q] = disk[q]
  BY <1>0, <1>1, OtherDisks
<1>3. Accepts(m.to)
  BY <1>1, <1>2 DEF Accepts
<1> QED
  BY <1>2, <1>3 DEF DiskStep

LEMMA TornDiskStep ==
    ASSUME TypeOK, NEW p \in Peers, NEW k \in 1 .. EpochWrites - 1, TornPromotion(p, k)
    PROVE  DiskStep(p)
<1>1. k \in 1 .. EpochWrites
  BY SMTT(30) DEF EpochWrites
<1> QED
  BY <1>1, OtherDisks DEF TornPromotion, DiskStep, Promotes

LEMMA SnapshotDiskStep ==
    ASSUME TypeOK, NEW m \in pushes, HandleSnapshot(m)
    PROVE  DiskStep(m.to)
<1>0. m.to \in Peers /\ disk[m.to] \in Disk /\ signed' = signed
  BY DEF TypeOK, Push, HandleSnapshot
<1>1. CASE disk' = disk
  BY <1>0, <1>1, KeepsDisk
<1>2. CASE disk' # disk
  <2> DEFINE d == [disk[m.to] EXCEPT !.snap = m.snap]
  <2>1. disk' = [disk EXCEPT ![m.to] = d]
    BY <1>2 DEF HandleSnapshot
  <2>2. /\ d.epoch = disk[m.to].epoch /\ d.cert = disk[m.to].cert
        /\ d.permit = disk[m.to].permit /\ d.promise = disk[m.to].promise
    BY <1>0 DEF Disk
  <2> HIDE DEF d
  <2> QED
    BY <1>0, <2>1, <2>2, OtherDisks DEF DiskStep, Keeps, SameEpoch
<1> QED
  BY <1>1, <1>2

(* Every step changes the files of at most one peer, in one of five ways.  *)
LEMMA SomeDiskStep ==
    ASSUME TypeOK, [Next]_vars
    PROVE  \E p \in Peers : DiskStep(p)
<1>0. PICK somebody \in Peers : TRUE
  BY Basics
<1>1. CASE disk' = disk /\ signed' = signed
  BY <1>0, <1>1, KeepsDisk
<1>2. CASE \E p \in Peers : Tick(p)
  BY <1>2, TickDiskStep
<1>3. CASE \E m \in ballotReqs : HandleBallot(m)
  BY <1>3, BallotDiskStep DEF TypeOK, BallotReq
<1>4. CASE \E m \in epochReqs : \/ HandleRecoveryEpoch(m)
                                \/ \E k \in 1 .. EpochWrites - 1 : TornRecoveryEpoch(m, k)
  BY <1>4, EpochDiskStep DEF TypeOK, EpochReq
<1>5. CASE \E p \in Peers, k \in 1 .. EpochWrites - 1 : TornPromotion(p, k)
  BY <1>5, TornDiskStep
<1>6. CASE \E m \in pushes : HandleSnapshot(m)
  BY <1>6, SnapshotDiskStep DEF TypeOK, Push
<1>7. CASE UNCHANGED vars
  BY <1>1, <1>7 DEF vars
<1>8. CASE \E p \in Peers : RecoveryWindowOpens(p) \/ Restart(p) \/ Crash(p)
  BY <1>1, <1>8 DEF RecoveryWindowOpens, Restart, Crash
<1>9. CASE \E p, q \in Peers : \/ Authenticated(p, q) \/ Disconnected(p, q) \/ Observe(p, q)
                               \/ LeaseGrant(p, q) \/ ObservationExpires(p, q)
                               \/ LeaseLapses(p, q)
  <2>1. ASSUME NEW p \in Peers, NEW q \in Peers,
               Authenticated(p, q) \/ Disconnected(p, q) \/ Observe(p, q)
        PROVE  disk' = disk /\ signed' = signed
    BY <2>1 DEF Authenticated, Disconnected, Observe, StatusObserved, CapabilityObserved
  <2>2. ASSUME NEW p \in Peers, NEW q \in Peers,
               LeaseGrant(p, q) \/ ObservationExpires(p, q) \/ LeaseLapses(p, q)
        PROVE  disk' = disk /\ signed' = signed
    BY <2>2 DEF LeaseGrant, ObservationExpires, LeaseLapses
  <2> QED
    BY SMTT(30), <1>1, <1>9, <2>1, <2>2
<1>10. CASE \/ \E m \in ballotReqs : RejectBallot(m) \/ BallotReqLost(m)
            \/ \E m \in replies : HandleVote(m) \/ LateVoteStopsDaemon(m) \/ HandleRefusal(m)
            \/ \E m \in epochReqs : RejectRecoveryEpoch(m) \/ EpochReqLost(m)
            \/ \E m \in pushes : PushLost(m)
  BY <1>1, <1>10 DEF RejectBallot, BallotReqLost, HandleVote, LateVoteStopsDaemon,
     HandleRefusal, RejectRecoveryEpoch, EpochReqLost, PushLost
<1> QED
  BY <1>2, <1>3, <1>4, <1>5, <1>6, <1>7, <1>8, <1>9, <1>10 DEF Next, Deliver, Fault
-----------------------------------------------------------------------------
(* Accepted epochs                                                         *)

LEMMA DiskTypes ==
    ASSUME TypeOK, NEW p \in Peers
    PROVE  /\ disk[p] \in Disk /\ disk[p].epoch \in Seq(Peers)
           /\ disk[p].promise \in Ballot /\ disk[p].cert \in Certificate
           /\ disk[p].permit \in Nat
           /\ Generation(p) \in Nat \ {0} /\ disk[p].promise.base \in Nat
           /\ disk[p].cert.ballot.base \in Nat
<1>1. disk[p] \in Disk /\ disk[p].epoch # << >>
  BY DEF TypeOK
<1>2. disk[p].epoch \in Seq(Peers) /\ disk[p].promise \in Ballot /\ disk[p].cert \in Certificate
      /\ disk[p].permit \in Nat
  BY <1>1 DEF Disk
<1>3. Generation(p) \in Nat \ {0}
  BY <1>1, <1>2, EmptySeq, LenProperties DEF Generation
<1> QED
  BY <1>1, <1>2, <1>3 DEF Ballot, Certificate

(* What AfterWrites leaves on disk, whichever write was the last.          *)
LEMMA WritesFields ==
    ASSUME NEW d \in Disk, NEW record, NEW cert, NEW k \in 1 .. EpochWrites
    PROVE  LET w == AfterWrites(d, record, cert, k)
           IN  /\ w.epoch \in {d.epoch, record} /\ w.cert = cert
               /\ w.permit = d.permit
               /\ w.promise \in {d.promise, ClearedPromise(d.promise, Len(record))}
               /\ w.promise # d.promise => w.epoch = record
  BY SMTT(30) DEF AfterWrites, Disk, EpochWrites

LEMMA PromotedFields ==
    ASSUME TypeOK, NEW p \in Peers, Promotes(p)
    PROVE  /\ disk'[p].epoch \in {disk[p].epoch, RecoveryRecord(p)}
           /\ disk'[p].cert = OwnCertificate(p) /\ disk'[p].permit = 0
           /\ disk'[p].promise \in
                 {disk[p].promise, ClearedPromise(disk[p].promise, Len(RecoveryRecord(p)))}
           /\ disk'[p].promise # disk[p].promise => disk'[p].epoch = RecoveryRecord(p)
<1>1. PICK k \in 1 .. EpochWrites :
         disk'[p] = [AfterWrites(disk[p], RecoveryRecord(p), OwnCertificate(p), k)
                       EXCEPT !.permit = 0]
  BY DEF Promotes
<1> DEFINE w == AfterWrites(disk[p], RecoveryRecord(p), OwnCertificate(p), k)
<1>2. w \in Disk
  <2>1. k \in Nat
    BY SMTT(30) DEF EpochWrites
  <2> QED
    BY <2>1, DiskTypes, RecoveryRecordTypeOK, AfterWritesTypeOK DEF TypeOK
<1>3. /\ w.epoch \in {disk[p].epoch, RecoveryRecord(p)} /\ w.cert = OwnCertificate(p)
      /\ w.promise \in
            {disk[p].promise, ClearedPromise(disk[p].promise, Len(RecoveryRecord(p)))}
      /\ w.promise # disk[p].promise => w.epoch = RecoveryRecord(p)
  BY SMTT(30), DiskTypes, WritesFields
<1> HIDE DEF w
<1>4. /\ disk'[p].epoch = w.epoch /\ disk'[p].cert = w.cert /\ disk'[p].permit = 0
      /\ disk'[p].promise = w.promise
  <2>1. disk'[p] = [w EXCEPT !.permit = 0]
    BY <1>1 DEF w
  <2> QED
    BY <1>2, <2>1 DEF Disk
<1> QED
  BY <1>3, <1>4

LEMMA AcceptedFields ==
    ASSUME TypeOK, NEW p \in Peers, Accepts(p)
    PROVE  \E m \in epochReqs :
              /\ m.to = p /\ AcceptsEpoch(m)
              /\ disk'[p].epoch \in {disk[p].epoch, m.epoch}
              /\ disk'[p].cert = m.cert /\ disk'[p].permit = disk[p].permit
              /\ disk'[p].promise \in
                    {disk[p].promise, ClearedPromise(disk[p].promise, Len(m.epoch))}
              /\ disk'[p].promise # disk[p].promise => disk'[p].epoch = m.epoch
<1>1. PICK m \in epochReqs, k \in 1 .. EpochWrites :
         /\ m.to = p /\ AcceptsEpoch(m)
         /\ disk'[p] = AfterWrites(disk[p], m.epoch, m.cert, k)
  BY DEF Accepts
<1> QED
  BY SMTT(30), <1>1, DiskTypes, WritesFields

Extends(p) ==
    /\ Len(disk'[p].epoch) = Generation(p) + 1
    /\ SubSeq(disk'[p].epoch, 1, Generation(p)) = disk[p].epoch

LEMMA AppendExtends ==
    ASSUME NEW S, NEW s \in Seq(S), NEW x \in S
    PROVE  Len(Append(s, x)) = Len(s) + 1 /\ SubSeq(Append(s, x), 1, Len(s)) = s
  BY SMTT(30), AppendProperties, SubSeqProperties

(* A step either keeps p's accepted chain, or extends it by one: with p's  *)
(* own certified record, or with a chain that reached p as a request.      *)
LEMMA EpochStep ==
    ASSUME TypeOK, [Next]_vars, NEW p \in Peers
    PROVE  \/ disk'[p].epoch = disk[p].epoch
           \/ Extends(p) /\ Promotes(p) /\ disk'[p].epoch = RecoveryRecord(p)
           \/ Extends(p) /\ \E m \in epochReqs : disk'[p].epoch = m.epoch
<1>1. PICK q \in Peers : DiskStep(q)
  BY SomeDiskStep
<1>2. CASE q # p \/ Keeps(q) \/ Refreshes(q) \/ Signs(q)
  BY <1>1, <1>2 DEF DiskStep, Keeps, Refreshes, Signs, SameEpoch
<1>3. CASE q = p /\ Promotes(p)
  <2>1. Len(RecoveryRecord(p)) = Generation(p) + 1
        /\ SubSeq(RecoveryRecord(p), 1, Generation(p)) = disk[p].epoch
    BY DiskTypes, AppendExtends DEF RecoveryRecord, Generation
  <2> QED
    BY <1>3, <2>1, PromotedFields DEF Extends
<1>4. CASE q = p /\ Accepts(p)
  <2>1. PICK m \in epochReqs : m.to = p /\ AcceptsEpoch(m)
                               /\ disk'[p].epoch \in {disk[p].epoch, m.epoch}
    BY <1>4, AcceptedFields
  <2> QED
    BY <2>1 DEF AcceptsEpoch, IsRepeat, ExtendsAccepted, Extends
<1> QED
  BY <1>1, <1>2, <1>3, <1>4 DEF DiskStep

(* save_epoch_record never rewrites accepted history, for every number of  *)
(* peers, ballots, crashes and torn writes.                                *)
THEOREM EpochsOnlyExtendCorrect == Spec => EpochsOnlyExtend
<1>1. TypeOK /\ [Next]_vars =>
         [\A p \in Peers :
             disk'[p].epoch # disk[p].epoch =>
                 /\ Len(disk'[p].epoch) = Len(disk[p].epoch) + 1
                 /\ SubSeq(disk'[p].epoch, 1, Len(disk[p].epoch)) = disk[p].epoch]_vars
  BY EpochStep DEF Extends, Generation
<1> QED
  BY <1>1, TypeCorrect, PTL DEF Spec, EpochsOnlyExtend

(* The certificate of a recovery generation is stored before its epoch,    *)
(* also across torn writes.                                                *)
THEOREM CertificateBeforeEpochCorrect == Spec => []CertificateBeforeEpoch
<1>1. Init => CertificateBeforeEpoch
  <2> SUFFICES ASSUME Init, NEW p \in Peers, InRecoveryMode(p)
               PROVE  disk[p].cert.ballot.base + 1 >= Generation(p)
    BY DEF CertificateBeforeEpoch
  <2>1. disk[p].epoch = Lineage /\ disk[p].cert = InitialCertificate
    BY DEF Init
  <2> QED
    BY SMTT(30), <2>1, Basics DEF InRecoveryMode, Generation, InitialCertificate
<1>2. TypeOK /\ CertificateBeforeEpoch /\ [Next]_vars => CertificateBeforeEpoch'
  <2> SUFFICES ASSUME TypeOK, CertificateBeforeEpoch, [Next]_vars,
                      NEW p \in Peers, Len(disk'[p].epoch) > 1
               PROVE  disk'[p].cert.ballot.base + 1 >= Len(disk'[p].epoch)
    BY DEF CertificateBeforeEpoch, InRecoveryMode, Generation
  <2>1. PICK q \in Peers : DiskStep(q)
    BY SomeDiskStep
  <2>2. CASE q # p \/ Keeps(q) \/ Refreshes(q) \/ Signs(q)
    <3>1. disk'[p].epoch = disk[p].epoch /\ disk'[p].cert = disk[p].cert
      BY <2>1, <2>2 DEF DiskStep, Keeps, Refreshes, Signs, SameEpoch
    <3> QED
      BY <3>1 DEF CertificateBeforeEpoch, InRecoveryMode, Generation
  <2>3. CASE q = p /\ Promotes(p)
    <3>1. disk'[p].cert.ballot.base = Generation(p)
      <4>1. disk'[p].cert = OwnCertificate(p)
        BY <2>3, PromotedFields
      <4>2. rt[p].ballot.base = Generation(p)
        BY <2>3 DEF Promotes, CanPromote, ActiveIsUsable
      <4> QED
        BY SMTT(30), <4>1, <4>2 DEF OwnCertificate
    <3>2. Len(disk'[p].epoch) <= Generation(p) + 1
      BY SMTT(30), DiskTypes, EpochStep DEF Extends, Generation
    <3> QED
      BY <3>1, <3>2, DiskTypes
  <2>4. CASE q = p /\ Accepts(p)
    <3>1. PICK m \in epochReqs : /\ m.to = p /\ AcceptsEpoch(m)
                                 /\ disk'[p].epoch \in {disk[p].epoch, m.epoch}
                                 /\ disk'[p].cert = m.cert
      BY <2>4, AcceptedFields
    <3>2. Len(m.epoch) = m.cert.ballot.base + 1
      BY <3>1 DEF AcceptsEpoch, ValidRecoveryEpoch
    <3>3. Len(disk'[p].epoch) <= Len(m.epoch)
      BY SMTT(30), <3>1, DiskTypes DEF AcceptsEpoch, IsRepeat, ExtendsAccepted, Generation
    <3> QED
      BY <3>1, <3>2, <3>3
  <2> QED
    BY <2>1, <2>2, <2>3, <2>4 DEF DiskStep
<1> QED
  BY <1>1, <1>2, TypeCorrect, PTL DEF Spec
-----------------------------------------------------------------------------
(* Quorums                                                                 *)

LEMMA QuorumsMeet ==
    ASSUME NEW A \in SUBSET Peers, NEW B \in SUBSET Peers,
           has_quorum(N, Cardinality(A)), has_quorum(N, Cardinality(B))
    PROVE  A \cap B # {}
<1>1. /\ IsFiniteSet(Peers) /\ IsFiniteSet(A) /\ IsFiniteSet(B)
      /\ N \in Nat /\ Cardinality(A) \in Nat /\ Cardinality(B) \in Nat
  BY Basics, FS_Subset, FS_CardinalityType
<1>2. Cardinality(A) + Cardinality(B) > N
  BY SMTT(30), <1>1 DEF has_quorum, quorum_size
<1> QED
  BY <1>1, <1>2, FS_MajoritiesIntersect DEF N

LEMMA BiggerQuorum ==
    ASSUME NEW A \in SUBSET Peers, NEW B \in SUBSET Peers, A \subseteq B,
           has_quorum(N, Cardinality(A))
    PROVE  has_quorum(N, Cardinality(B))
<1>1. /\ IsFiniteSet(B) /\ N \in Nat /\ Cardinality(A) \in Nat /\ Cardinality(B) \in Nat
      /\ Cardinality(A) <= Cardinality(B)
  BY Basics, FS_Subset, FS_CardinalityType
<1> QED
  BY SMTT(30), <1>1 DEF has_quorum, quorum_size

(* The count of AckQuorum, 1 + |S|, is the size of S with p added.         *)
LEMMA CountedWithSelf ==
    ASSUME NEW p \in Peers, NEW S \in SUBSET Peers, p \notin S
    PROVE  Cardinality(S \cup {p}) = 1 + Cardinality(S)
<1>1. IsFiniteSet(S) /\ Cardinality(S) \in Nat
  BY Basics, FS_Subset, FS_CardinalityType
<1>2. Cardinality(S \cup {p}) = Cardinality(S) + 1
  BY <1>1, FS_AddElement
<1> QED
  BY SMTT(30), <1>1, <1>2
-----------------------------------------------------------------------------
(* What one step can do to ballots, votes and lease acknowledgements       *)

LEMMA RuntimeDomain ==
    ASSUME NEW r \in Runtime
    PROVE  /\ "ballot" \in DOMAIN r /\ "votes" \in DOMAIN r /\ "leaseAcks" \in DOMAIN r
  BY DEF Runtime

NewVote(p) ==
    \E m \in replies :
        /\ ~m.refused /\ m.ballot = rt[p].ballot
        /\ rt'[p].ballot = rt[p].ballot /\ rt'[p].votes = rt[p].votes \cup {m.voter}
        /\ rt'[p].leaseAcks = rt[p].leaseAcks /\ disk' = disk
NewBallot(p) ==
    /\ Signs(p) /\ rt'[p].ballot = disk'[p].promise /\ disk'[p].promise.cand = p
    /\ rt'[p].votes = {p} /\ rt'[p].leaseAcks = rt[p].leaseAcks
NoNewVote(p) ==
    /\ \/ rt'[p].ballot = rt[p].ballot /\ rt'[p].votes \subseteq rt[p].votes
       \/ rt'[p].ballot = NoBallot /\ rt'[p].votes = {}
    /\ rt'[p].leaseAcks \subseteq rt[p].leaseAcks
    /\ disk'[p].epoch # disk[p].epoch => rt'[p].leaseAcks = {}
NewLeaseAck(p) ==
    \E q \in Peers :
        /\ q # p /\ Generation(q) = Generation(p) /\ Authority(q) = p /\ Authority(p) = p
        /\ rt'[p].ballot = rt[p].ballot /\ rt'[p].votes = rt[p].votes
        /\ rt'[p].leaseAcks = rt[p].leaseAcks \cup {q} /\ disk' = disk
RuntimeStep(p) == NoNewVote(p) \/ NewVote(p) \/ NewBallot(p) \/ NewLeaseAck(p)

LEMMA DownRuntime ==
    ASSUME TypeOK, NEW p \in Peers, NEW q \in Peers, Down(p),
           q # p => disk'[q].epoch = disk[q].epoch
    PROVE  RuntimeStep(q)
<1>1. CASE q = p
  <2>1. rt'[q] = FreshRuntime
    BY <1>1 DEF TypeOK, Down
  <2> QED
    BY SMTT(30), <2>1 DEF FreshRuntime, RuntimeStep, NoNewVote
<1>2. CASE q # p
  BY <1>2 DEF TypeOK, Down, RuntimeStep, NoNewVote
<1> QED
  BY <1>1, <1>2

LEMMA SameRuntime ==
    ASSUME NEW q \in Peers, rt'[q] = rt[q], disk'[q].epoch = disk[q].epoch
    PROVE  RuntimeStep(q)
  BY DEF RuntimeStep, NoNewVote

LEMMA ConnectionRuntime ==
    ASSUME TypeOK, NEW p \in Peers, NEW q \in Peers, NEW r \in Peers,
           \/ Authenticated(p, q) \/ Disconnected(p, q) \/ Observe(p, q)
           \/ ObservationExpires(p, q) \/ RecoveryWindowOpens(p) \/ LeaseLapses(p, q)
    PROVE  RuntimeStep(r)
<1>0. rt \in [Peers -> Runtime] /\ rt[p] \in Runtime /\ rt[q] \in Runtime
  BY DEF TypeOK
<1>1. CASE Authenticated(p, q)
  BY SMTT(30), <1>0, <1>1, RuntimeDomain DEF Authenticated, RuntimeStep, NoNewVote
<1>2. CASE Disconnected(p, q)
  BY <1>0, <1>2, RuntimeDomain DEF Disconnected, RuntimeStep, NoNewVote
<1>3. CASE Observe(p, q)
  BY SMTT(30), <1>0, <1>3, RuntimeDomain
     DEF Observe, StatusObserved, CapabilityObserved, RuntimeStep, NoNewVote
<1>4. CASE ObservationExpires(p, q)
  BY SMTT(30), <1>0, <1>4, RuntimeDomain DEF ObservationExpires, RuntimeStep, NoNewVote
<1>5. CASE RecoveryWindowOpens(p)
  BY <1>0, <1>5, RuntimeDomain DEF RecoveryWindowOpens, RuntimeStep, NoNewVote
<1>6. CASE LeaseLapses(p, q)
  BY <1>0, <1>6, RuntimeDomain DEF LeaseLapses, RuntimeStep, NoNewVote
<1> QED
  BY <1>1, <1>2, <1>3, <1>4, <1>5, <1>6

LEMMA TickRuntime ==
    ASSUME TypeOK, NEW p \in Peers, NEW q \in Peers, Tick(p)
    PROVE  RuntimeStep(q)
<1>0. rt \in [Peers -> Runtime] /\ rt[p] \in Runtime
  BY DEF TypeOK
<1>a. DiskStep(p)
  BY TickDiskStep
<1>1. CASE AuthorityTick(p)
  <2>1. disk'[q].epoch = disk[q].epoch
    BY <1>1 DEF AuthorityTick, TypeOK, Disk
  <2> QED
    BY <1>0, <1>1, <2>1, RuntimeDomain DEF AuthorityTick, AfterPromotion, RuntimeStep, NoNewVote
<1>2. CASE AuthorityTickFails(p)
  BY <1>2, <1>a, DownRuntime DEF AuthorityTickFails, DiskStep
<1>3. CASE FollowerTick(p) \/ RetryBallot(p)
  <2>1. disk'[q].epoch = disk[q].epoch /\ rt' = rt
    BY <1>3 DEF FollowerTick, RetryBallot, TypeOK, Disk
  <2> QED
    BY <2>1, SameRuntime
<1>4. CASE BallotRefusedLocally(p)
  <2>1. disk'[q].epoch = disk[q].epoch
    BY <1>4 DEF BallotRefusedLocally, TypeOK, Disk
  <2> QED
    BY <1>0, <1>4, <2>1, RuntimeDomain DEF BallotRefusedLocally, RuntimeStep, NoNewVote
<1>5. CASE StartBallot(p)
  <2> DEFINE b == NextBallot(p)
  <2>1. /\ disk'[p].promise = b /\ disk'[p].epoch = disk[p].epoch /\ disk'[p].permit = 0
        /\ disk'[p].cert = disk[p].cert
        /\ \A r \in Peers \ {p} : disk'[r] = disk[r]
    BY <1>5 DEF StartBallot, TypeOK, Disk
  <2>2. b.cand = p /\ b.base = Generation(p)
    BY DEF NextBallot
  <2>3. /\ rt'[p].ballot = b /\ rt'[p].votes = {p} /\ rt'[p].leaseAcks = rt[p].leaseAcks
        /\ \A r \in Peers \ {p} : rt'[r] = rt[r]
    <3> HIDE DEF b
    <3>1. rt' = [rt EXCEPT ![p].ballot = b, ![p].votes = {p}]
      BY <1>5 DEF StartBallot, b
    <3> QED
      BY <1>0, <3>1, RuntimeDomain
  <2>4. Signs(p)
    BY <1>5, <2>1, <2>2 DEF StartBallot, Signs, SameEpoch
  <2>5. CASE q = p
    BY <2>1, <2>2, <2>3, <2>4, <2>5 DEF RuntimeStep, NewBallot
  <2>6. CASE q # p
    BY <2>1, <2>3, <2>6, SameRuntime
  <2> QED
    BY <2>5, <2>6
<1>6. CASE PromoteRecovery(p)
  <2>1. CASE q = p
    <3>1. rt'[p] = [Advanced(rt[p]) EXCEPT !.ballot = NoBallot, !.votes = {}, !.replicated = {}]
      BY <1>0, <1>6 DEF PromoteRecovery
    <3>2. rt'[p].ballot = NoBallot /\ rt'[p].votes = {} /\ rt'[p].leaseAcks = {}
      BY <1>0, <3>1, RuntimeDomain DEF Advanced
    <3> QED
      BY <2>1, <3>2 DEF RuntimeStep, NoNewVote
  <2>2. CASE q # p
    BY <1>0, <1>6, <1>a, <2>2, SameRuntime DEF PromoteRecovery, DiskStep
  <2> QED
    BY <2>1, <2>2
<1> QED
  BY <1>1, <1>2, <1>3, <1>4, <1>5, <1>6 DEF Tick

LEMMA LeaseRuntime ==
    ASSUME TypeOK, NEW p \in Peers, NEW q \in Peers, NEW r \in Peers, LeaseGrant(p, q)
    PROVE  RuntimeStep(r)
<1>0. rt \in [Peers -> Runtime] /\ rt[p] \in Runtime /\ rt[q] \in Runtime /\ p # q
      /\ disk' = disk
  BY DEF TypeOK, LeaseGrant, Linked
<1>1. CASE r = p
  <2>1. /\ rt'[p].ballot = rt[p].ballot /\ rt'[p].votes = rt[p].votes
        /\ rt'[p].leaseAcks = rt[p].leaseAcks \cup {q}
    BY <1>0, RuntimeDomain DEF LeaseGrant
  <2> QED
    BY <1>0, <1>1, <2>1 DEF LeaseGrant, IsAuthority, RuntimeStep, NewLeaseAck
<1>2. CASE r # p
  BY <1>0, <1>2, RuntimeDomain DEF LeaseGrant, RuntimeStep, NoNewVote
<1> QED
  BY <1>1, <1>2

LEMMA ReplyRuntime ==
    ASSUME TypeOK, NEW m \in replies, NEW q \in Peers,
           HandleVote(m) \/ LateVoteStopsDaemon(m) \/ HandleRefusal(m)
    PROVE  RuntimeStep(q)
<1> DEFINE p == m.ballot.cand
<1>0. rt \in [Peers -> Runtime] /\ p \in Peers /\ rt[p] \in Runtime /\ disk' = disk
  BY DEF TypeOK, Reply, Ballot, HandleVote, LateVoteStopsDaemon, HandleRefusal
<1>1. CASE HandleVote(m)
  <2>1. CASE q = p /\ rt[p].ballot = m.ballot
    BY SMTT(30), <1>0, <1>1, <2>1, RuntimeDomain DEF HandleVote, RuntimeStep, NewVote
  <2>2. CASE q # p \/ rt[p].ballot # m.ballot
    BY <1>0, <1>1, <2>2, RuntimeDomain DEF HandleVote, RuntimeStep, NoNewVote
  <2> QED
    BY <2>1, <2>2
<1>2. CASE LateVoteStopsDaemon(m)
  BY SMTT(30), <1>0, <1>2, DownRuntime DEF LateVoteStopsDaemon
<1>3. CASE HandleRefusal(m)
  BY <1>0, <1>3, RuntimeDomain DEF HandleRefusal, RuntimeStep, NoNewVote
<1> QED
  BY SMTT(30), <1>1, <1>2, <1>3

LEMMA RequestRuntime ==
    ASSUME TypeOK, NEW q \in Peers,
           \E m \in ballotReqs : HandleBallot(m) \/ RejectBallot(m) \/ BallotReqLost(m)
    PROVE  RuntimeStep(q)
<1>1. PICK m \in ballotReqs : HandleBallot(m) \/ RejectBallot(m) \/ BallotReqLost(m)
  OBVIOUS
<1>0. /\ rt \in [Peers -> Runtime] /\ m.ballot.cand \in Peers
      /\ rt[m.ballot.cand] \in Runtime /\ m.to \in Peers
  BY DEF TypeOK, BallotReq, Ballot
<1>2. CASE HandleBallot(m)
  <2>1. rt' = rt
    BY <1>2 DEF HandleBallot
  <2>2. disk' = disk \/ disk' = [disk EXCEPT ![m.to].promise = m.ballot]
    BY <1>2 DEF HandleBallot
  <2>3. disk \in [Peers -> Disk] /\ disk[q] \in Disk
    BY DEF TypeOK
  <2>4. disk'[q].epoch = disk[q].epoch
    <3>1. disk'[q] = disk[q] \/ disk'[q] = [disk[q] EXCEPT !.promise = m.ballot]
      BY <2>2, <2>3
    <3>2. "epoch" \in DOMAIN disk[q]
      BY <2>3 DEF Disk
    <3> QED
      BY <3>1, <3>2
  <2> QED
    BY <2>1, <2>4, SameRuntime
<1>3. CASE RejectBallot(m) \/ BallotReqLost(m)
  <2>1. /\ rt' = [rt EXCEPT ![m.ballot.cand].votes = @ \ {m.to}] /\ disk' = disk
    BY <1>3 DEF RejectBallot, BallotReqLost
  <2> QED
    BY <1>0, <2>1, RuntimeDomain DEF RuntimeStep, NoNewVote
<1> QED
  BY <1>1, <1>2, <1>3

LEMMA EpochRuntime ==
    ASSUME TypeOK, NEW m \in epochReqs, NEW q \in Peers,
           \/ HandleRecoveryEpoch(m) \/ RejectRecoveryEpoch(m) \/ EpochReqLost(m)
           \/ \E k \in 1 .. EpochWrites - 1 : TornRecoveryEpoch(m, k)
    PROVE  RuntimeStep(q)
<1> DEFINE p == EpochSender(m)
<1>0. rt \in [Peers -> Runtime] /\ m.to \in Peers /\ rt[q] \in Runtime
  BY DEF TypeOK, EpochReq
<1>1. CASE HandleRecoveryEpoch(m)
  <2> DEFINE mid == [rt EXCEPT ![m.to] = IF IsRepeat(m) THEN @ ELSE Advanced(@)]
  <2>1. mid \in [Peers -> Runtime]
    BY <1>0, AdvancedTypeOK
  <2>2. \/ rt' = mid
        \/ \E S : rt' = [mid EXCEPT ![p].epochAcks = S]
    BY <1>1 DEF HandleRecoveryEpoch, AckEpoch
  <2>3. /\ rt'[q].ballot = mid[q].ballot /\ rt'[q].votes = mid[q].votes
        /\ rt'[q].leaseAcks = mid[q].leaseAcks
    <3> HIDE DEF mid
    <3>1. mid[q] \in Runtime
      BY <2>1
    <3> QED
      BY SMTT(30), <2>1, <2>2, <3>1, RuntimeDomain
  <2>4. /\ mid[q].ballot = rt[q].ballot /\ mid[q].votes = rt[q].votes
        /\ mid[q].leaseAcks = IF q = m.to /\ ~IsRepeat(m) THEN {} ELSE rt[q].leaseAcks
    BY <1>0, RuntimeDomain DEF Advanced
  <2>5. disk'[q].epoch # disk[q].epoch => q = m.to /\ ~IsRepeat(m)
    <3>1. disk' = [disk EXCEPT ![m.to] = AfterWrites(disk[m.to], m.epoch, m.cert, EpochWrites)]
      BY <1>1 DEF HandleRecoveryEpoch
    <3>2. EpochWrites \in 1 .. EpochWrites
      BY SMTT(30) DEF EpochWrites
    <3>3. AfterWrites(disk[m.to], m.epoch, m.cert, EpochWrites).epoch
             \in {disk[m.to].epoch, m.epoch}
      BY <1>0, <3>2, WritesFields, DiskTypes
    <3> QED
      BY <1>0, <3>1, <3>3, OtherDisks DEF IsRepeat
  <2> HIDE DEF mid
  <2> QED
    BY <2>3, <2>4, <2>5 DEF RuntimeStep, NoNewVote
<1>2. CASE RejectRecoveryEpoch(m) \/ EpochReqLost(m)
  <2>1. rt' = rt \/ \E S : rt' = [rt EXCEPT ![p].epochAcks = S]
    BY <1>2 DEF RejectRecoveryEpoch, EpochReqLost, EpochUnacknowledged
  <2>2. disk' = disk
    BY <1>2 DEF RejectRecoveryEpoch, EpochReqLost
  <2> QED
    BY SMTT(30), <1>0, <2>1, <2>2, RuntimeDomain DEF RuntimeStep, NoNewVote
<1>3. CASE \E k \in 1 .. EpochWrites - 1 : TornRecoveryEpoch(m, k)
  <2>1. Down(m.to)
    BY <1>3 DEF TornRecoveryEpoch
  <2>2. q # m.to => disk'[q].epoch = disk[q].epoch
    BY <1>3, EpochDiskStep DEF DiskStep
  <2> QED
    BY <1>0, <2>1, <2>2, DownRuntime
<1> QED
  BY <1>1, <1>2, <1>3

(* Every step leaves each daemon's ballot, votes and lease acks as they    *)
(* were or smaller, or adds to them in one of three ways.                  *)
LEMMA AllRuntimeSteps ==
    ASSUME TypeOK, [Next]_vars, NEW q \in Peers
    PROVE  RuntimeStep(q)
<1>1. CASE UNCHANGED vars
  BY <1>1, SameRuntime DEF vars
<1>2. CASE \E p \in Peers : Tick(p)
  BY <1>2, TickRuntime
<1>3. CASE \E p, r \in Peers : \/ Authenticated(p, r) \/ Disconnected(p, r) \/ Observe(p, r)
                               \/ ObservationExpires(p, r) \/ RecoveryWindowOpens(p)
                               \/ LeaseLapses(p, r)
  BY <1>3, ConnectionRuntime
<1>4. CASE \E p, r \in Peers : LeaseGrant(p, r)
  BY <1>4, LeaseRuntime
<1>5. CASE \E m \in replies : HandleVote(m) \/ LateVoteStopsDaemon(m) \/ HandleRefusal(m)
  BY <1>5, ReplyRuntime
<1>6. CASE \E m \in ballotReqs : HandleBallot(m) \/ RejectBallot(m) \/ BallotReqLost(m)
  BY <1>6, RequestRuntime
<1>7. CASE \E m \in epochReqs : \/ HandleRecoveryEpoch(m) \/ RejectRecoveryEpoch(m)
                                \/ EpochReqLost(m)
                                \/ \E k \in 1 .. EpochWrites - 1 : TornRecoveryEpoch(m, k)
  BY <1>7, EpochRuntime
<1>8. CASE \E m \in pushes : PushLost(m)
  BY <1>8, SameRuntime DEF PushLost
<1>9. CASE \E m \in pushes : HandleSnapshot(m)
  <2>1. PICK m \in pushes : HandleSnapshot(m)
    BY <1>9
  <2>0. rt \in [Peers -> Runtime] /\ m.to \in Peers /\ rt[m.to] \in Runtime
    BY DEF TypeOK, Push
  <2>2. disk'[q].epoch = disk[q].epoch
    <3>2. CASE disk' = disk
      BY <3>2
    <3>3. CASE disk' = [disk EXCEPT ![m.to].snap = m.snap]
      BY <2>0, <3>3, DiskTypes DEF Disk, TypeOK
    <3> QED
      BY <2>1, <3>2, <3>3 DEF HandleSnapshot
  <2> QED
    BY SMTT(30), <2>0, <2>1, <2>2, RuntimeDomain DEF HandleSnapshot, RuntimeStep, NoNewVote
<1>10. CASE \E p \in Peers, k \in 1 .. EpochWrites - 1 : TornPromotion(p, k)
  BY <1>10, TornDiskStep, DownRuntime DEF TornPromotion, DiskStep
<1>11. CASE \E p \in Peers : Crash(p)
  BY <1>11, DownRuntime DEF Crash
<1>12. CASE \E p \in Peers : Restart(p)
  BY <1>12, SameRuntime DEF Restart
<1> QED
  BY SMTT(30), <1>1, <1>2, <1>3, <1>4, <1>5, <1>6, <1>7, <1>8, <1>9, <1>10, <1>11, <1>12
     DEF Next, Deliver, Fault
-----------------------------------------------------------------------------
(* What one step can add to the network                                    *)

LEMMA DownTraffic ==
    ASSUME NEW p, NEW others, DropTraffic(p, others)
    PROVE  replies' \subseteq replies /\ epochReqs' \subseteq epochReqs
  BY DEF DropTraffic

Answers(m) ==
    \/ m \in replies \/ m.refused
    \/ Signs(m.voter) /\ m.ballot = disk'[m.voter].promise
    \/ /\ m.ballot = disk[m.voter].promise /\ m.ballot.base = Generation(m.voter)
       /\ signed' = signed
Announces(m) == m \in epochReqs \/ \E p \in Peers : m.epoch = disk'[p].epoch

LEMMA HandleBallotTraffic ==
    ASSUME TypeOK, NEW m \in ballotReqs, HandleBallot(m), NEW r \in replies'
    PROVE  Answers(r)
<1> DEFINE v == m.to
<1>0. v \in Peers /\ disk[v] \in Disk
  BY DEF TypeOK, BallotReq
<1>1. CASE r \in replies \/ r = RefusalReply(v, m.ballot)
  BY SMTT(30), <1>1 DEF Answers, RefusalReply
<1>2. CASE r = VoteReply(v, m.ballot) /\ disk[v].promise = m.ballot /\ signed' = signed
  <2>1. m.ballot.base = Generation(v)
    BY DEF HandleBallot, Admissible
  <2>2. r.voter = v /\ r.ballot = m.ballot
    BY <1>2 DEF VoteReply
  <2> QED
    BY <1>2, <2>1, <2>2 DEF Answers
<1>3. CASE /\ r = VoteReply(v, m.ballot) /\ PromiseAccepts(disk[v].promise, m.ballot)
           /\ disk' = [disk EXCEPT ![v].promise = m.ballot]
           /\ signed' = signed \cup {[voter |-> v, ballot |-> m.ballot]}
  <2>1. m.ballot.base = Generation(v)
    BY DEF HandleBallot, Admissible
  <2>2. r.voter = v /\ r.ballot = m.ballot
    BY <1>3 DEF VoteReply
  <2>3. /\ disk'[v].promise = m.ballot /\ disk'[v].epoch = disk[v].epoch
        /\ disk'[v].cert = disk[v].cert /\ disk'[v].permit = disk[v].permit
    BY <1>0, <1>3 DEF TypeOK, Disk
  <2> QED
    BY <1>3, <2>1, <2>2, <2>3 DEF Answers, Signs, SameEpoch
<1> QED
  BY <1>1, <1>2, <1>3 DEF HandleBallot

LEMMA TickTraffic ==
    ASSUME TypeOK, NEW p \in Peers, Tick(p)
    PROVE  replies' \subseteq replies /\ \A m \in epochReqs' : Announces(m)
<1>1. CASE AuthorityTick(p)
  <2>1. disk'[p].epoch = disk[p].epoch
    BY <1>1 DEF AuthorityTick, TypeOK, Disk
  <2>2. \A S : \A m \in PushedEpochs(p, TRUE, S) : m.epoch = disk[p].epoch
    BY SMTT(30) DEF PushedEpochs, EpochsTo
  <2>3. \E S : epochReqs' \subseteq epochReqs \cup PushedEpochs(p, TRUE, S)
    BY <1>1 DEF AuthorityTick
  <2> QED
    BY <1>1, <2>1, <2>2, <2>3 DEF AuthorityTick, Announces
<1>2. CASE AuthorityTickFails(p)
  BY <1>2, DownTraffic DEF AuthorityTickFails, Down, Announces
<1>3. CASE FollowerTick(p) \/ BallotRefusedLocally(p) \/ StartBallot(p) \/ RetryBallot(p)
  BY <1>3 DEF FollowerTick, BallotRefusedLocally, StartBallot, RetryBallot, network, Announces
<1>4. CASE PromoteRecovery(p)
  <2> DEFINE w == AfterWrites(disk[p], RecoveryRecord(p), OwnCertificate(p), EpochWrites)
  <2>1. w.epoch = RecoveryRecord(p) /\ w \in Disk
    <3>1. EpochWrites \in Nat /\ disk[p] \in Disk /\ disk[p].epoch # << >>
      BY DEF EpochWrites, TypeOK
    <3>2. w \in Disk
      BY <3>1, RecoveryRecordTypeOK, AfterWritesTypeOK
    <3>3. w.epoch = RecoveryRecord(p)
      BY SMTT(30), <3>1 DEF AfterWrites, EpochWrites, Disk
    <3> QED
      BY <3>2, <3>3
  <2>2. disk'[p].epoch = RecoveryRecord(p)
    <3>1. disk'[p] = [w EXCEPT !.permit = 0]
      BY <1>4 DEF PromoteRecovery, TypeOK
    <3> HIDE DEF w
    <3> QED
      BY <2>1, <3>1 DEF Disk
  <2> QED
    BY SMTT(30), <1>4, <2>2 DEF PromoteRecovery, EpochsTo, Announces
<1> QED
  BY <1>1, <1>2, <1>3, <1>4 DEF Tick

LEMMA Traffic ==
    ASSUME TypeOK, [Next]_vars
    PROVE  /\ \A m \in replies' : Answers(m)
           /\ \A m \in epochReqs' : Announces(m)
<1>0. ASSUME replies' \subseteq replies, epochReqs' \subseteq epochReqs
      PROVE  /\ \A m \in replies' : Answers(m)
             /\ \A m \in epochReqs' : Announces(m)
  BY <1>0 DEF Answers, Announces
<1>1. CASE \E p \in Peers : Tick(p)
  BY <1>1, TickTraffic DEF Answers
<1>2. CASE \E p, q \in Peers : Authenticated(p, q)
  BY SMTT(30), <1>2 DEF Authenticated, KnownWorldPushers, PushedEpochs, EpochsTo, Answers, Announces
<1>3. CASE \E m \in ballotReqs : HandleBallot(m)
  BY <1>3, HandleBallotTraffic DEF HandleBallot, Announces
<1>4. CASE UNCHANGED vars
  BY <1>0, <1>4 DEF vars
<1>5. CASE \E p \in Peers : RecoveryWindowOpens(p) \/ Restart(p) \/ Crash(p)
  BY <1>0, <1>5, DownTraffic DEF RecoveryWindowOpens, Restart, Crash, Down, network
<1>6. CASE \E p, q \in Peers : \/ Disconnected(p, q) \/ Observe(p, q)
                               \/ LeaseGrant(p, q) \/ ObservationExpires(p, q)
                               \/ LeaseLapses(p, q)
  <2>1. ASSUME NEW p \in Peers, NEW q \in Peers, Disconnected(p, q) \/ Observe(p, q)
        PROVE  replies' \subseteq replies /\ epochReqs' \subseteq epochReqs
    BY <2>1, DownTraffic DEF Disconnected, Observe, StatusObserved, CapabilityObserved, network
  <2>2. ASSUME NEW p \in Peers, NEW q \in Peers,
               LeaseGrant(p, q) \/ ObservationExpires(p, q) \/ LeaseLapses(p, q)
        PROVE  replies' \subseteq replies /\ epochReqs' \subseteq epochReqs
    BY <2>2 DEF LeaseGrant, ObservationExpires, LeaseLapses, network
  <2> QED
    BY SMTT(30), <1>0, <1>6, <2>1, <2>2
<1>7. CASE \E m \in ballotReqs : RejectBallot(m) \/ BallotReqLost(m)
  BY <1>0, <1>7 DEF RejectBallot, BallotReqLost
<1>8. CASE \E m \in replies : HandleVote(m) \/ LateVoteStopsDaemon(m) \/ HandleRefusal(m)
  BY <1>0, <1>8, DownTraffic DEF HandleVote, LateVoteStopsDaemon, HandleRefusal, Down
<1>9. CASE \E m \in epochReqs : \/ HandleRecoveryEpoch(m) \/ RejectRecoveryEpoch(m)
                                \/ EpochReqLost(m)
                                \/ \E k \in 1 .. EpochWrites - 1 : TornRecoveryEpoch(m, k)
  BY <1>0, <1>9, DownTraffic DEF HandleRecoveryEpoch, RejectRecoveryEpoch, EpochReqLost,
     TornRecoveryEpoch, Down
<1>10. CASE \E m \in pushes : HandleSnapshot(m) \/ PushLost(m)
  BY <1>0, <1>10 DEF HandleSnapshot, PushLost
<1>11. CASE \E p \in Peers, k \in 1 .. EpochWrites - 1 : TornPromotion(p, k)
  BY <1>0, <1>11, DownTraffic DEF TornPromotion, Down
<1> QED
  BY SMTT(30), <1>1, <1>2, <1>3, <1>4, <1>5, <1>6, <1>7, <1>8, <1>9, <1>10, <1>11
     DEF Next, Deliver, Fault
-----------------------------------------------------------------------------
(* The invariant is inductive                                              *)

LEMMA InitVotesBindChains == Init => VotesBindChains
<1> SUFFICES ASSUME Init PROVE VotesBindChains
  OBVIOUS
<1>1. SignedInRange /\ PromiseKept /\ OneCandidate
  BY DEF Init, SignedInRange, PromiseKept, OneCandidate
<1>2. PromiseSigned
  BY DEF Init, PromiseSigned
<1>3. VotesSigned /\ AcksAccepted
  <2>1. \A p \in Peers : /\ rt[p].ballot = NoBallot /\ rt[p].votes = {}
                         /\ rt[p].leaseAcks = {}
    BY DEF Init, FreshRuntime
  <2> QED
    BY <2>1 DEF Init, VotesSigned, AcksAccepted
<1>4. ChainsChosen
  <2>1. \A p \in Peers : disk[p].epoch = Lineage
    BY DEF Init
  <2> QED
    BY SMTT(30), <2>1, Basics DEF Init, ChainsChosen, ChainChosen
<1> QED
  BY <1>1, <1>2, <1>3, <1>4 DEF VotesBindChains

(* Accepted generations stay accepted.                                     *)
LEMMA EpochsGrow ==
    ASSUME TypeOK, [Next]_vars, NEW p \in Peers
    PROVE  /\ Len(disk'[p].epoch) \in Nat /\ Len(disk'[p].epoch) >= Generation(p)
           /\ \A g \in 1 .. Generation(p) : disk'[p].epoch[g] = disk[p].epoch[g]
<1>1. disk[p].epoch \in Seq(Peers) /\ disk'[p].epoch \in Seq(Peers)
  <2>1. TypeOK'
    BY TypeStep
  <2> QED
    BY <2>1 DEF TypeOK, Disk
<1>2. CASE disk'[p].epoch = disk[p].epoch
  BY SMTT(30), <1>1, <1>2 DEF Generation
<1>3. CASE Extends(p)
  <2>1. \A g \in 1 .. Generation(p) :
           SubSeq(disk'[p].epoch, 1, Generation(p))[g] = disk'[p].epoch[g]
    BY SMTT(30), <1>1, <1>3, SubSeqProperties DEF Extends, Generation
  <2> QED
    BY SMTT(30), <1>1, <1>3, <2>1 DEF Extends, Generation
<1> QED
  BY <1>2, <1>3, EpochStep

LEMMA SignedTypes ==
    ASSUME TypeOK, NEW s \in signed
    PROVE  /\ s.voter \in Peers /\ s.ballot \in Ballot
           /\ s.ballot.base \in Nat /\ s.ballot.cand \in Peers
           /\ s = [voter |-> s.voter, ballot |-> s.ballot]
  BY DEF TypeOK, Vote, Ballot

(* A voter's new promise, or a cleared one, keeps faith with its votes.    *)
LEMMA VotingStep ==
    ASSUME TypeOK, VotesBindChains, [Next]_vars
    PROVE  /\ SignedInRange' /\ PromiseKept' /\ OneCandidate' /\ PromiseSigned'
           /\ signed \subseteq signed'
<1>1. PICK p \in Peers : DiskStep(p)
  BY SomeDiskStep
<1>0. /\ SignedInRange /\ PromiseKept /\ OneCandidate /\ PromiseSigned
  BY DEF VotesBindChains
<1>a. disk[p].promise \in Ballot /\ Generation(p) \in Nat
  BY DiskTypes
<1>b. signed \subseteq signed'
  BY <1>1 DEF DiskStep, Keeps, Refreshes, Signs, Promotes, Accepts
<1>2. CASE signed' = signed
           /\ \/ disk'[p].promise = disk[p].promise
              \/ disk'[p].promise = NoBallot /\ Len(disk'[p].epoch) > disk[p].promise.base
  <2>1. SignedInRange' /\ OneCandidate'
    BY SMTT(30), <1>0, <1>2, EpochsGrow, SignedTypes, DiskTypes, Basics
       DEF SignedInRange, OneCandidate, Generation
  <2>2. PromiseKept'
    BY SMTT(30), <1>0, <1>1, <1>2, EpochsGrow, SignedTypes, DiskTypes DEF PromiseKept, DiskStep, Generation
  <2>3. PromiseSigned'
    BY <1>0, <1>1, <1>2 DEF PromiseSigned, DiskStep
  <2> QED
    BY <1>b, <2>1, <2>2, <2>3
<1>3. CASE Signs(p)
  <2> DEFINE b == disk'[p].promise
             new == [voter |-> p, ballot |-> b]
  <2>1. /\ b.base = Generation(p) /\ signed' = signed \cup {new}
        /\ PromiseAccepts(disk[p].promise, b) /\ disk'[p].epoch = disk[p].epoch
    BY <1>3 DEF Signs, SameEpoch
  <2>2. \A s \in signed : s.voter = p /\ s.ballot.base = Generation(p) => s.ballot.cand = b.cand
    <3> SUFFICES ASSUME NEW s \in signed, s.voter = p, s.ballot.base = Generation(p)
                 PROVE  s.ballot.cand = b.cand
      OBVIOUS
    <3>1. disk[p].promise.base = s.ballot.base /\ disk[p].promise.cand = s.ballot.cand
      BY SMTT(30), <1>0, <1>a DEF PromiseKept
    <3>2. disk[p].promise # NoBallot
      BY SMTT(30), <3>1, DiskTypes DEF NoBallot
    <3> QED
      BY <2>1, <3>1, <3>2 DEF PromiseAccepts, same_recovery_base
  <2>3. \A q \in Peers : disk'[q].epoch = disk[q].epoch
    BY <1>1, <2>1 DEF DiskStep
  <2>4. new.voter = p /\ new.ballot = b
    OBVIOUS
  <2>5. Len(Lineage) <= Generation(p)
    BY DEF VotesBindChains, ChainsChosen, ChainChosen, Generation
  <2> HIDE DEF new, b
  <2>6. SignedInRange'
    <3> SUFFICES ASSUME NEW s \in signed'
                 PROVE  /\ Len(Lineage) <= s.ballot.base
                        /\ s.ballot.base <= Len(disk'[s.voter].epoch)
      BY DEF SignedInRange, Generation
    <3>1. CASE s = new
      BY SMTT(30), <1>a, <2>1, <2>4, <2>5, <3>1 DEF Generation
    <3>2. CASE s \in signed
      BY <1>0, <2>3, <3>2, SignedTypes DEF SignedInRange, Generation
    <3> QED
      BY <2>1, <3>1, <3>2
  <2>7. OneCandidate'
    BY SMTT(30), <1>0, <2>1, <2>2, <2>4 DEF OneCandidate
  <2>8. PromiseKept'
    <3> SUFFICES ASSUME NEW s \in signed'
                 PROVE  \/ s.ballot.base < Len(disk'[s.voter].epoch)
                        \/ /\ disk'[s.voter].promise.base = s.ballot.base
                           /\ disk'[s.voter].promise.cand = s.ballot.cand
      BY DEF PromiseKept, Generation
    <3>1. CASE s = new
      BY <2>4, <3>1 DEF b
    <3>2. CASE s \in signed /\ s.voter # p
      BY <1>0, <1>1, <2>3, <3>2, SignedTypes DEF PromiseKept, DiskStep, Generation
    <3>3. CASE s \in signed /\ s.voter = p
      <4>1. s.ballot.base <= Generation(p) /\ s.ballot.base \in Nat
        BY <1>0, <3>3, SignedTypes DEF SignedInRange
      <4> QED
        BY SMTT(30), <1>a, <2>1, <2>2, <3>3, <4>1 DEF b, Generation
    <3> QED
      BY <2>1, <3>1, <3>2, <3>3
  <2>9. PromiseSigned'
    BY SMTT(30), <1>0, <1>1, <2>1 DEF PromiseSigned, DiskStep, new, b
  <2> QED
    BY SMTT(30), <1>b, <2>6, <2>7, <2>8, <2>9
<1>4. CASE Keeps(p) \/ Refreshes(p)
  <2>1. Keeps(p) => disk'[p].promise = disk[p].promise /\ signed' = signed
    BY DEF Keeps
  <2>2. Refreshes(p) => /\ signed' = signed
                        /\ \/ disk'[p].promise = disk[p].promise
                           \/ disk'[p].promise = NoBallot
                              /\ Len(disk'[p].epoch) > disk[p].promise.base
    BY SMTT(30), DiskTypes DEF Refreshes, ClearedPromise, SameEpoch, Generation
  <2> QED
    BY <1>2, <1>4, <2>1, <2>2
<1>5. CASE Promotes(p)
  <2>1. \/ disk'[p].promise = disk[p].promise
        \/ disk'[p].promise = NoBallot /\ Len(disk'[p].epoch) > disk[p].promise.base
    <3>1. Len(RecoveryRecord(p)) \in Nat
      BY RecoveryRecordTypeOK, LenProperties
    <3> QED
      BY SMTT(30), <1>5, <3>1, DiskTypes, PromotedFields DEF ClearedPromise
  <2> QED
    BY <1>2, <1>5, <2>1 DEF Promotes
<1>6. CASE Accepts(p)
  <2>1. PICK m \in epochReqs :
           /\ disk'[p].promise \in
                 {disk[p].promise, ClearedPromise(disk[p].promise, Len(m.epoch))}
           /\ disk'[p].promise # disk[p].promise => disk'[p].epoch = m.epoch
    BY <1>6, AcceptedFields
  <2>2. Len(m.epoch) \in Nat
    BY LenProperties DEF TypeOK, EpochReq
  <2>3. \/ disk'[p].promise = disk[p].promise
        \/ disk'[p].promise = NoBallot /\ Len(disk'[p].epoch) > disk[p].promise.base
    BY SMTT(30), <2>1, <2>2, DiskTypes DEF ClearedPromise
  <2> QED
    BY <1>2, <1>6, <2>3 DEF Accepts
<1> QED
  BY <1>1, <1>3, <1>4, <1>5, <1>6 DEF DiskStep

LEMMA VotesSignedStep ==
    ASSUME TypeOK, VotesBindChains, [Next]_vars
    PROVE  VotesSigned'
<1>0. VotesSigned /\ PromiseSigned /\ signed \subseteq signed'
  BY VotingStep DEF VotesBindChains
<1>1. ASSUME NEW m \in replies'
      PROVE  m.refused \/ [voter |-> m.voter, ballot |-> m.ballot] \in signed'
  <2>0. m.voter \in Peers /\ m.ballot \in Ballot
    BY TypeStep DEF TypeOK, Reply
  <2>1. CASE m \in replies \/ m.refused
    BY <1>0, <2>1 DEF VotesSigned
  <2>2. CASE Signs(m.voter) /\ m.ballot = disk'[m.voter].promise
    BY <2>2 DEF Signs
  <2>3. CASE m.ballot = disk[m.voter].promise /\ m.ballot.base = Generation(m.voter)
    <3>1. m.ballot # NoBallot
      BY SMTT(30), <2>0, <2>3, DiskTypes DEF NoBallot
    <3> QED
      BY <1>0, <2>0, <2>3, <3>1 DEF PromiseSigned
  <2> QED
    BY <2>1, <2>2, <2>3, Traffic DEF Answers
<1>2. ASSUME NEW p \in Peers
      PROVE  /\ rt'[p].ballot = NoBallot \/ rt'[p].ballot.cand = p
             /\ \A v \in rt'[p].votes : [voter |-> v, ballot |-> rt'[p].ballot] \in signed'
  <2>1. CASE NoNewVote(p) \/ NewLeaseAck(p)
    BY SMTT(30), <1>0, <2>1 DEF NoNewVote, NewLeaseAck, VotesSigned
  <2>2. CASE NewVote(p)
    BY <1>0, <2>2 DEF NewVote, VotesSigned
  <2>3. CASE NewBallot(p)
    BY <2>3 DEF NewBallot, Signs
  <2> QED
    BY SMTT(30), <2>1, <2>2, <2>3, AllRuntimeSteps DEF RuntimeStep
<1> QED
  BY <1>1, <1>2 DEF VotesSigned

LEMMA ChosenStays ==
    ASSUME NEW V, NEW W, V \subseteq W, NEW g, NEW a, Chosen(V, g, a)
    PROVE  Chosen(W, g, a)
  BY DEF Chosen, VotedFor

LEMMA ChainsChosenStep ==
    ASSUME TypeOK, VotesBindChains, [Next]_vars
    PROVE  ChainsChosen'
<1>0. /\ ChainsChosen /\ VotesSigned /\ signed \subseteq signed'
  BY VotingStep DEF VotesBindChains
<1>1. ASSUME NEW c, ChainChosen(signed, c) PROVE ChainChosen(signed', c)
  BY <1>0, <1>1, ChosenStays DEF ChainChosen
<1>2. ASSUME NEW p \in Peers PROVE ChainChosen(signed', disk'[p].epoch)
  <2>1. CASE disk'[p].epoch = disk[p].epoch \/ \E m \in epochReqs : disk'[p].epoch = m.epoch
    BY <1>0, <1>1, <2>1 DEF ChainsChosen
  <2>2. CASE Promotes(p) /\ disk'[p].epoch = RecoveryRecord(p)
    <3> DEFINE g == Generation(p) + 1
    <3>1. Chosen(signed, g, p)
      <4>1. /\ rt[p].votes \in SUBSET Peers /\ has_quorum(N, Cardinality(rt[p].votes))
            /\ rt[p].ballot.base = Generation(p) /\ rt[p].ballot # NoBallot
        BY <2>2, RuntimeFields
           DEF TypeOK, Promotes, CanPromote, VoteQuorum, ActiveIsUsable
      <4>2. rt[p].ballot.cand = p
        BY <1>0, <4>1 DEF VotesSigned
      <4>3. ASSUME NEW v \in rt[p].votes PROVE VotedFor(signed, v, g, p)
        <5> DEFINE s == [voter |-> v, ballot |-> rt[p].ballot]
        <5>1. s \in signed
          BY <1>0, <4>3 DEF VotesSigned
        <5>2. s.voter = v /\ s.ballot = rt[p].ballot
          OBVIOUS
        <5> HIDE DEF s
        <5> QED
          BY <4>1, <4>2, <5>1, <5>2 DEF VotedFor
      <4> QED
        BY <4>1, <4>3 DEF Chosen
    <3>2. /\ Len(RecoveryRecord(p)) = g /\ RecoveryRecord(p)[g] = p
          /\ \A h \in 1 .. Generation(p) : RecoveryRecord(p)[h] = disk[p].epoch[h]
      BY SMTT(30), DiskTypes, AppendProperties DEF RecoveryRecord, Generation
    <3>3. ChainChosen(signed, disk[p].epoch) /\ Generation(p) \in Nat /\ Len(Lineage) \in Nat
      BY <1>0, DiskTypes, Basics DEF ChainsChosen
    <3>4. ChainChosen(signed, RecoveryRecord(p))
      BY SMTT(30), <3>1, <3>2, <3>3 DEF ChainChosen, Generation
    <3> QED
      BY <1>1, <2>2, <3>4
  <2> QED
    BY <2>1, <2>2, EpochStep
<1>3. ASSUME NEW m \in epochReqs' PROVE ChainChosen(signed', m.epoch)
  <2>1. CASE m \in epochReqs
    BY <1>0, <1>1, <2>1 DEF ChainsChosen
  <2>2. CASE \E p \in Peers : m.epoch = disk'[p].epoch
    BY <1>2, <2>2
  <2> QED
    BY <2>1, <2>2, Traffic DEF Announces
<1> QED
  BY <1>2, <1>3 DEF ChainsChosen

LEMMA AcksAcceptedStep ==
    ASSUME TypeOK, VotesBindChains, [Next]_vars
    PROVE  AcksAccepted'
<1>0. AcksAccepted
  BY DEF VotesBindChains
<1> SUFFICES ASSUME NEW p \in Peers, NEW q \in rt'[p].leaseAcks
             PROVE  /\ q # p /\ Len(disk'[q].epoch) >= Len(disk'[p].epoch)
                    /\ disk'[q].epoch[Len(disk'[p].epoch)]
                          = disk'[p].epoch[Len(disk'[p].epoch)]
  BY SMTT(30) DEF AcksAccepted, Generation, Authority
<1>a. q \in Peers
  BY TypeStep, RuntimeFields DEF TypeOK
<1>b. Generation(p) \in Nat \ {0} /\ Generation(q) \in Nat
  BY <1>a, DiskTypes
<1>1. CASE q \in rt[p].leaseAcks /\ disk'[p].epoch = disk[p].epoch
  <2>1. /\ q # p /\ Generation(q) >= Generation(p)
        /\ disk[q].epoch[Generation(p)] = disk[p].epoch[Generation(p)]
    BY <1>0, <1>1 DEF AcksAccepted, Authority
  <2>2. /\ Len(disk'[q].epoch) >= Generation(q) /\ Len(disk'[q].epoch) \in Nat
        /\ disk'[q].epoch[Generation(p)] = disk[q].epoch[Generation(p)]
    BY SMTT(30), <1>a, <1>b, <2>1, EpochsGrow
  <2> QED
    BY SMTT(30), <1>1, <1>b, <2>1, <2>2 DEF Generation
<1>2. CASE NoNewVote(p) \/ NewVote(p) \/ NewBallot(p)
  BY <1>1, <1>2 DEF NoNewVote, NewVote, NewBallot, Signs, SameEpoch
<1>3. CASE NewLeaseAck(p)
  <2>1. PICK r \in Peers :
           /\ r # p /\ Generation(r) = Generation(p) /\ Authority(r) = p /\ Authority(p) = p
           /\ rt'[p].leaseAcks = rt[p].leaseAcks \cup {r} /\ disk' = disk
    BY <1>3 DEF NewLeaseAck
  <2>2. CASE q = r
    BY SMTT(30), <1>b, <2>1, <2>2 DEF Generation, Authority
  <2>3. CASE q # r
    BY <1>1, <2>1, <2>3
  <2> QED
    BY <2>2, <2>3
<1> QED
  BY <1>2, <1>3, AllRuntimeSteps DEF RuntimeStep

LEMMA VotesBindChainsStep == TypeOK /\ VotesBindChains /\ [Next]_vars => VotesBindChains'
  BY SMTT(30), VotingStep, VotesSignedStep, ChainsChosenStep, AcksAcceptedStep DEF VotesBindChains

(* Durable votes bind every chain a daemon stores or sends.                *)
THEOREM VotesBindChainsCorrect == Spec => []VotesBindChains
<1>1. Init => VotesBindChains
  BY InitVotesBindChains
<1>2. TypeOK /\ VotesBindChains /\ [Next]_vars => VotesBindChains'
  BY VotesBindChainsStep
<1> QED
  BY <1>1, <1>2, TypeCorrect, PTL DEF Spec
-----------------------------------------------------------------------------
(* Agreement and permits                                                   *)

LEMMA AgreementFromInvariant == TypeOK /\ VotesBindChains => Agreement
<1> SUFFICES ASSUME TypeOK, VotesBindChains, NEW p \in Peers, NEW q \in Peers,
                    NEW g \in 1 .. Generation(p), g <= Generation(q)
             PROVE  disk[p].epoch[g] = disk[q].epoch[g]
  BY DEF Agreement
<1>0. ChainChosen(signed, disk[p].epoch) /\ ChainChosen(signed, disk[q].epoch) /\ OneCandidate
  BY DEF VotesBindChains, ChainsChosen
<1>1. g \in 1 .. Len(disk[p].epoch) /\ g \in 1 .. Len(disk[q].epoch)
  BY SMTT(30), DiskTypes DEF Generation
<1>2. CASE g <= Len(Lineage)
  BY <1>0, <1>1, <1>2 DEF ChainChosen
<1>3. CASE ~(g <= Len(Lineage))
  <2> DEFINE a == disk[p].epoch[g]
             b == disk[q].epoch[g]
  <2>1. Chosen(signed, g, a) /\ Chosen(signed, g, b)
    BY SMTT(30), <1>0, <1>1, <1>3 DEF ChainChosen
  <2>2. PICK A \in SUBSET Peers :
           has_quorum(N, Cardinality(A)) /\ \A v \in A : VotedFor(signed, v, g, a)
    BY <2>1 DEF Chosen
  <2>3. PICK B \in SUBSET Peers :
           has_quorum(N, Cardinality(B)) /\ \A v \in B : VotedFor(signed, v, g, b)
    BY <2>1 DEF Chosen
  <2>4. PICK v \in Peers : v \in A /\ v \in B
    BY <2>2, <2>3, QuorumsMeet
  <2>5. PICK s \in signed : s.voter = v /\ s.ballot.base + 1 = g /\ s.ballot.cand = a
    BY <2>2, <2>4 DEF VotedFor
  <2>6. PICK t \in signed : t.voter = v /\ t.ballot.base + 1 = g /\ t.ballot.cand = b
    BY <2>3, <2>4 DEF VotedFor
  <2>7. s.ballot.base = t.ballot.base
    BY SMTT(30), <2>5, <2>6, SignedTypes
  <2> HIDE DEF a, b
  <2>8. a = b
    BY <1>0, <2>5, <2>6, <2>7 DEF OneCandidate
  <2> QED
    BY <2>8 DEF a, b
<1> QED
  BY <1>2, <1>3

(* Two peers never accept different authorities for one generation, for    *)
(* every set of peers, however many ballots compete, crash or are retried. *)
THEOREM AgreementCorrect == Spec => []Agreement
  BY AgreementFromInvariant, TypeCorrect, VotesBindChainsCorrect, PTL

(* The members counted for a permit have accepted its generation.          *)
LEMMA AckedByMajority ==
    ASSUME TypeOK, VotesBindChains, NEW p \in Peers,
           Authority(p) = p, AckQuorum(p, rt[p].leaseAcks)
    PROVE  has_quorum(N, Cardinality(AcceptedBy(Generation(p), p)))
<1> DEFINE S == rt[p].leaseAcks \cap rt[p].conn
<1>1. rt[p].leaseAcks \in SUBSET Peers
  BY RuntimeFields DEF TypeOK
<1>2. p \notin S
  BY DEF VotesBindChains, AcksAccepted
<1>3. Cardinality(S \cup {p}) = 1 + Cardinality(S)
  BY <1>1, <1>2, CountedWithSelf
<1>4. S \cup {p} \subseteq AcceptedBy(Generation(p), p)
  <2>1. p \in AcceptedBy(Generation(p), p)
    BY SMTT(30), DiskTypes DEF AcceptedBy, Authority
  <2>2. rt[p].leaseAcks \subseteq AcceptedBy(Generation(p), p)
    BY <1>1 DEF VotesBindChains, AcksAccepted, AcceptedBy, Authority
  <2> QED
    BY <2>1, <2>2
<1>5. has_quorum(N, Cardinality(S \cup {p}))
  BY <1>3 DEF AckQuorum
<1>6. /\ S \cup {p} \in SUBSET Peers
      /\ AcceptedBy(Generation(p), p) \in SUBSET Peers
  BY <1>1 DEF AcceptedBy
<1> QED
  BY SMTT(30), <1>4, <1>5, <1>6, BiggerQuorum

LEMMA AcceptedByGrows ==
    ASSUME TypeOK, [Next]_vars, NEW g \in Nat \ {0}, NEW a,
           has_quorum(N, Cardinality(AcceptedBy(g, a)))
    PROVE  has_quorum(N, Cardinality(AcceptedBy(g, a)'))
<1>1. AcceptedBy(g, a) \subseteq AcceptedBy(g, a)'
  <2> SUFFICES ASSUME NEW q \in Peers, Generation(q) >= g, disk[q].epoch[g] = a
               PROVE  Len(disk'[q].epoch) >= g /\ disk'[q].epoch[g] = a
    BY DEF AcceptedBy, Generation
  <2> QED
    BY SMTT(30), EpochsGrow, DiskTypes
<1>2. AcceptedBy(g, a) \in SUBSET Peers /\ AcceptedBy(g, a)' \in SUBSET Peers
  BY DEF AcceptedBy
<1> QED
  BY <1>1, <1>2, BiggerQuorum

LEMMA PermitBackedStep ==
    ASSUME TypeOK, VotesBindChains, PermitBacked, [Next]_vars
    PROVE  PermitBacked'
<1> SUFFICES ASSUME NEW p \in Peers, disk'[p].permit # 0
             PROVE  has_quorum(N, Cardinality(AcceptedBy(disk[p].permit, p)'))
  BY DEF PermitBacked
<1>1. CASE disk'[p].permit = disk[p].permit
  <2>1. disk[p].permit \in Nat \ {0}
    BY <1>1, DiskTypes
  <2>2. has_quorum(N, Cardinality(AcceptedBy(disk[p].permit, p)))
    BY <2>1 DEF PermitBacked
  <2>3. PICK g \in Nat \ {0} : g = disk[p].permit
    BY <2>1
  <2>4. has_quorum(N, Cardinality(AcceptedBy(g, p)'))
    BY <2>2, <2>3, AcceptedByGrows
  <2> QED
    BY <1>1, <2>3, <2>4 DEF AcceptedBy
<1>2. CASE disk'[p].permit = Generation(p) /\ Authority(p) = p /\ AckQuorum(p, rt[p].leaseAcks)
  <2>1. PICK g \in Nat \ {0} : g = Generation(p)
    BY DiskTypes
  <2>2. has_quorum(N, Cardinality(AcceptedBy(g, p)))
    BY <1>2, <2>1, AckedByMajority
  <2>3. has_quorum(N, Cardinality(AcceptedBy(g, p)'))
    BY <2>2, AcceptedByGrows
  <2> QED
    BY <1>2, <2>1, <2>3 DEF AcceptedBy
<1>3. PICK q \in Peers : DiskStep(q)
  BY SomeDiskStep
<1>4. CASE q # p
  BY SMTT(30), <1>1, <1>3, <1>4 DEF DiskStep
<1>5. CASE q = p
  <2>1. Promotes(p) => disk'[p].permit = 0
    BY PromotedFields
  <2>2. Accepts(p) => disk'[p].permit = disk[p].permit
    BY AcceptedFields
  <2> QED
    BY SMTT(30), <1>1, <1>2, <1>3, <1>5, <2>1, <2>2 DEF DiskStep, Keeps, Refreshes, Signs
<1> QED
  BY <1>4, <1>5

(* A permit exists only for a generation that a majority has durably       *)
(* accepted with its holder as the authority.                              *)
THEOREM PermitBackedCorrect == Spec => []PermitBacked
<1>1. Init => PermitBacked
  BY SMTT(30) DEF Init, PermitBacked
<1>2. TypeOK /\ VotesBindChains /\ PermitBacked /\ [Next]_vars => PermitBacked'
  BY PermitBackedStep
<1> QED
  BY <1>1, <1>2, TypeCorrect, VotesBindChainsCorrect, PTL DEF Spec

(* No two daemons hold a permit for the same generation.                   *)
THEOREM PermitUniqueCorrect == Spec => []PermitUnique
<1>1. TypeOK /\ PermitBacked => PermitUnique
  <2> SUFFICES ASSUME TypeOK, PermitBacked, NEW p \in Peers, NEW q \in Peers,
                      disk[p].permit # 0, disk[p].permit = disk[q].permit
               PROVE  p = q
    BY DEF PermitUnique
  <2> DEFINE g == disk[p].permit
  <2>1. /\ has_quorum(N, Cardinality(AcceptedBy(g, p)))
        /\ has_quorum(N, Cardinality(AcceptedBy(g, q)))
    BY DEF PermitBacked
  <2>2. AcceptedBy(g, p) \in SUBSET Peers /\ AcceptedBy(g, q) \in SUBSET Peers
    BY DEF AcceptedBy
  <2>3. AcceptedBy(g, p) \cap AcceptedBy(g, q) # {}
    BY <2>1, <2>2, QuorumsMeet
  <2> QED
    BY <2>3 DEF AcceptedBy
<1> QED
  BY <1>1, TypeCorrect, PermitBackedCorrect, PTL
-----------------------------------------------------------------------------
(* AuthorityRecovery implements AuthorityLog                               *)

LEMMA OneMoreElement ==
    ASSUME NEW S, NEW s \in Seq(S), NEW t \in Seq(S), Len(t) = Len(s) + 1,
           SubSeq(t, 1, Len(s)) = s
    PROVE  t = Append(s, t[Len(t)]) /\ t[Len(t)] \in S
<1>1. \A i \in 1 .. Len(s) : t[i] = s[i]
  <2>1. \A i \in 1 .. Len(s) : SubSeq(t, 1, Len(s))[i] = t[i]
    BY SMTT(30), SubSeqProperties
  <2> QED
    BY <2>1
<1>2. t[Len(t)] \in S
  BY SMTT(30), LenProperties
<1>3. Append(s, t[Len(t)]) \in Seq(S)
  BY <1>2, AppendProperties
<1>4. /\ Len(Append(s, t[Len(t)])) = Len(t)
      /\ \A i \in 1 .. Len(t) : Append(s, t[Len(t)])[i] = t[i]
  BY SMTT(30), <1>1, <1>2, AppendProperties, LenProperties
<1> QED
  BY <1>2, <1>3, <1>4, SeqEqual

(* The permit of p is gone, or as it was.                                  *)
LEMMA WithdrawStep ==
    ASSUME TypeOK, NEW p \in Peers, disk'[p].permit \in {0, disk[p].permit},
           \A q \in Peers : disk'[q].epoch = disk[q].epoch,
           \A q \in Peers \ {p} : disk'[q] = disk[q]
    PROVE  [Log!Next]_(Log!logVars)
<1>1. CASE disk'[p].permit = disk[p].permit
  BY <1>1 DEF Log!logVars
<1>2. CASE disk'[p].permit = 0
  BY <1>2 DEF Log!Next, Log!Withdraw
<1> QED
  BY <1>1, <1>2

LEMMA GrantStep ==
    ASSUME TypeOK, VotesBindChains, NEW p \in Peers,
           disk'[p].permit = Generation(p), Authority(p) = p,
           AckQuorum(p, rt[p].leaseAcks),
           \A q \in Peers : disk'[q].epoch = disk[q].epoch,
           \A q \in Peers \ {p} : disk'[q] = disk[q]
    PROVE  Log!Next
<1>1. Log!Holders(Generation(p), p) = AcceptedBy(Generation(p), p)
  BY DEF Log!Holders, Generation, AcceptedBy
<1>2. Log!Holders(Generation(p), p) \in Majorities
  BY <1>1, AckedByMajority DEF Majorities, AcceptedBy
<1>3. Len([q \in Peers |-> disk[q].epoch][p]) = Generation(p)
  BY DEF Generation
<1>4. /\ [q \in Peers |-> disk'[q].permit]
            = [[q \in Peers |-> disk[q].permit] EXCEPT ![p] = Generation(p)]
      /\ [q \in Peers |-> disk'[q].epoch] = [q \in Peers |-> disk[q].epoch]
  OBVIOUS
<1>5. Log!Grant(p)
  BY <1>2, <1>3, <1>4 DEF Log!Grant
<1> QED
  BY <1>5 DEF Log!Next

LEMMA AcceptStep ==
    ASSUME TypeOK, TypeOK', Agreement', NEW p \in Peers, Extends(p),
           disk'[p].permit \in {0, disk[p].permit},
           \A q \in Peers \ {p} : disk'[q] = disk[q]
    PROVE  Log!Next
<1>1. disk[p].epoch \in Seq(Peers) /\ disk'[p].epoch \in Seq(Peers)
  BY DEF TypeOK, Disk
<1>2. PICK a \in Peers : /\ a = disk'[p].epoch[Len(disk'[p].epoch)]
                         /\ disk'[p].epoch = Append(disk[p].epoch, a)
  BY <1>1, OneMoreElement DEF Extends, Generation
<1>3. ASSUME NEW q \in Peers, Len(disk[q].epoch) > Len(disk[p].epoch)
      PROVE  disk[q].epoch[Len(disk[p].epoch) + 1] = a
  <2>1. q # p /\ disk'[q] = disk[q]
    BY SMTT(30), <1>1, <1>3
  <2>2. Len(disk'[p].epoch) = Len(disk[p].epoch) + 1 /\ Len(disk'[p].epoch) \in Nat
    BY SMTT(30), <1>1 DEF Extends, Generation
  <2>3. Len(disk'[q].epoch) >= Len(disk'[p].epoch)
    BY SMTT(30), <1>1, <1>3, <2>1, <2>2, DiskTypes DEF Generation
  <2>4. \A g \in 1 .. Len(disk'[p].epoch) :
           g <= Len(disk'[q].epoch) => disk'[p].epoch[g] = disk'[q].epoch[g]
    BY DEF Agreement, Generation
  <2>5. Len(disk'[p].epoch) \in 1 .. Len(disk'[p].epoch)
    BY SMTT(30), <1>1, <2>2
  <2> QED
    BY SMTT(30), <1>2, <2>1, <2>2, <2>3, <2>4, <2>5
<1>4. [q \in Peers |-> disk'[q].epoch]
         = [[q \in Peers |-> disk[q].epoch] EXCEPT ![p] = Append(@, a)]
  BY <1>2
<1>5. [q \in Peers |-> disk'[q].permit]
         \in {[q \in Peers |-> disk[q].permit],
              [[q \in Peers |-> disk[q].permit] EXCEPT ![p] = 0]}
  OBVIOUS
<1>6. Log!Accept(p, a)
  BY <1>3, <1>4, <1>5 DEF Log!Accept
<1> QED
  BY <1>6 DEF Log!Next

LEMMA LogStep ==
    ASSUME TypeOK, TypeOK', VotesBindChains, Agreement', [Next]_vars
    PROVE  [Log!Next]_(Log!logVars)
<1>1. PICK p \in Peers : DiskStep(p)
  BY SomeDiskStep
<1>2. \A q \in Peers \ {p} : disk'[q] = disk[q]
  BY <1>1 DEF DiskStep
<1>3. CASE Keeps(p) \/ Signs(p)
  BY SMTT(30), <1>2, <1>3, WithdrawStep DEF Keeps, Signs, SameEpoch
<1>4. CASE Refreshes(p)
  <2>1. \A q \in Peers : disk'[q].epoch = disk[q].epoch
    BY <1>2, <1>4 DEF Refreshes, SameEpoch
  <2> QED
    BY SMTT(30), <1>2, <1>4, <2>1, WithdrawStep, GrantStep DEF Refreshes
<1>5. CASE Promotes(p) \/ Accepts(p)
  <2>1. disk'[p].permit \in {0, disk[p].permit}
    BY <1>5, PromotedFields, AcceptedFields
  <2>2. CASE disk'[p].epoch = disk[p].epoch
    BY SMTT(30), <1>2, <2>1, <2>2, WithdrawStep
  <2>3. CASE Extends(p)
    BY <1>2, <2>1, <2>3, AcceptStep
  <2> QED
    BY SMTT(30), <2>2, <2>3, EpochStep
<1> QED
  BY <1>1, <1>3, <1>4, <1>5 DEF DiskStep

(* Every behaviour of the daemons, with all their faults, is a behaviour   *)
(* of the single log of authorities.                                       *)
THEOREM ImplementsLogCorrect == Spec => ImplementsLog
<1>1. Init => Log!Init
  BY SMTT(30) DEF Init, Log!Init
<1>2. /\ TypeOK /\ TypeOK' /\ VotesBindChains /\ Agreement' /\ [Next]_vars
      => [Log!Next]_(Log!logVars)
  BY LogStep
<1> QED
  BY <1>1, <1>2, TypeCorrect, VotesBindChainsCorrect, AgreementCorrect, PTL
     DEF Spec, ImplementsLog, Log!Spec
=============================================================================
