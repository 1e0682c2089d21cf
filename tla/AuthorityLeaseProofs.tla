------------------------ MODULE AuthorityLeaseProofs ------------------------
(***************************************************************************)
(* For every membership, every choice of the timers and every bound: the   *)
(* types of AuthorityLease, the bound on a deposed authority's permit, and *)
(* that two generations never hold permits together, nor run living        *)
(* servers together, when links do not return and answers travel no longer *)
(* than the settle delay.                                                  *)
(***************************************************************************)
EXTENDS AuthorityLease, FiniteSetTheorems, TLAPS

-----------------------------------------------------------------------------
(* What the majorities of quorum_size and has_quorum guarantee             *)

(* Two majorities of the same members (has_quorum) share a member.         *)
LEMMA MajoritiesMeet ==
    ASSUME NEW M, IsFiniteSet(M), NEW A \in SUBSET M, NEW B \in SUBSET M,
           has_quorum(Cardinality(M), Cardinality(A)),
           has_quorum(Cardinality(M), Cardinality(B))
    PROVE  A \cap B # {}
<1>1. /\ IsFiniteSet(A) /\ IsFiniteSet(B) /\ Cardinality(M) \in Nat
      /\ Cardinality(A) \in Nat /\ Cardinality(B) \in Nat
  BY FS_Subset, FS_CardinalityType
<1>2. Cardinality(A) + Cardinality(B) > Cardinality(M)
  BY <1>1 DEF has_quorum, quorum_size
<1> QED
  BY <1>1, <1>2, FS_MajoritiesIntersect

(* A set that contains a majority is one (has_quorum is monotone).         *)
LEMMA LargerMajority ==
    ASSUME NEW M, IsFiniteSet(M), NEW A \in SUBSET M, NEW B \in SUBSET M, A \subseteq B,
           has_quorum(Cardinality(M), Cardinality(A))
    PROVE  has_quorum(Cardinality(M), Cardinality(B))
<1>1. /\ IsFiniteSet(B) /\ Cardinality(M) \in Nat
      /\ Cardinality(A) \in Nat /\ Cardinality(B) \in Nat
      /\ Cardinality(A) <= Cardinality(B)
  BY FS_Subset, FS_CardinalityType
<1> QED
  BY <1>1 DEF has_quorum, quorum_size

(* The counts 1 + |S| of the daemon are sizes of S with the counting peer  *)
(* added.                                                                  *)
LEMMA CountingPeer ==
    ASSUME NEW M, IsFiniteSet(M), NEW p \in M, NEW S \in SUBSET M, p \notin S
    PROVE  Cardinality(S \cup {p}) = 1 + Cardinality(S)
<1>1. IsFiniteSet(S) /\ Cardinality(S) \in Nat
  BY FS_Subset, FS_CardinalityType
<1>2. Cardinality(S \cup {p}) = Cardinality(S) + 1
  BY <1>1, FS_AddElement
<1> QED
  BY <1>1, <1>2

-----------------------------------------------------------------------------
(* Types                                                                   *)

(* A step that does not name the SMT solver is left to Zenon. *)
USE ZenonT(20)

USE DEF Authorities

LEMMA Constants ==
    /\ IsFiniteSet(Peers) /\ Holder \in Peers /\ Successor \in Peers /\ Holder # Successor
    /\ LeaseDuration \in Nat \ {0} /\ SettleDelay \in Nat \ {0}
    /\ PermitTimeout \in Nat \ {0} /\ StartTimeout \in Nat \ {0}
    /\ PermitTimeout <= StartTimeout /\ MaxDelay \in Nat /\ MaxReconnects \in Nat
  BY LeaseAssumption

Lease == [stage : {"idle", "asked", "granted"}, age : 0..MaxDelay]
Game == [stage : {"off", "booting", "started", "seen", "live"}, left : 0..StartTimeout]

LEMMA TypeInit == Init => TypeOK
  BY SMTT(30), Constants DEF Init, TypeOK, RecoveryDelay, NoLease, NoGame, MovedLimit

LEMMA ObservedType ==
    ASSUME NEW g \in Game
    PROVE  Observed(g) \in Game
  BY SMTT(30), Constants DEF Observed, Game

LEMMA TypeNext == TypeOK /\ [Next]_vars => TypeOK'
<1> SUFFICES ASSUME TypeOK, [Next]_vars
             PROVE  TypeOK'
  OBVIOUS
<1> USE Constants
<1>0. /\ lease \in [Authorities -> [Peers -> Lease]]
      /\ game \in [Authorities -> Game]
  BY DEF TypeOK, Lease, Game
<1>1. CASE Second
  <2>1. lease' \in [Authorities -> [Peers -> Lease]]
    <3> SUFFICES ASSUME NEW p \in Authorities, NEW q \in Peers
                 PROVE  (IF lease[p][q].stage = "granted"
                         THEN [stage |-> "granted", age |-> lease[p][q].age + 1]
                         ELSE lease[p][q]) \in Lease
      BY <1>1 DEF Second
    <3>1. lease[p][q] \in Lease
      BY <1>0
    <3>2. lease[p][q].stage = "granted" => lease[p][q].age # MaxDelay
      BY <1>1 DEF Second
    <3> QED
      BY SMTT(30), <3>1, <3>2 DEF Lease
  <2>2. game' \in [Authorities -> Game]
    BY SMTT(30), <1>0, <1>1 DEF Second, Less, Game
  <2>3. moved' \in [Peers -> 0..MovedLimit]
    BY SMTT(30), <1>1 DEF TypeOK, Second, MovedLimit
  <2>4. window' \in [Peers -> 0..(LeaseDuration + SettleDelay)]
    <3>1. ASSUME NEW q \in Peers
          PROVE  Less(window[q]) \in 0..(LeaseDuration + SettleDelay)
      <4>1. window[q] \in 0..(LeaseDuration + SettleDelay)
        BY DEF TypeOK
      <4> QED
        BY SMTT(30), <4>1 DEF Less
    <3> QED
      BY <1>1, <3>1 DEF Second
  <2>5. fresh' \in [Authorities -> [Peers -> 0..LeaseDuration]]
    <3>1. ASSUME NEW p \in Authorities, NEW q \in Peers
          PROVE  Less(fresh[p][q]) \in 0..LeaseDuration
      <4>1. fresh[p][q] \in 0..LeaseDuration
        BY DEF TypeOK
      <4> QED
        BY SMTT(30), <4>1 DEF Less
    <3> QED
      BY <1>1, <3>1 DEF Second
  <2> QED
    BY <1>1, <2>1, <2>2, <2>3, <2>4, <2>5 DEF TypeOK, Second, Lease, Game
<1>2. CASE BallotTick \/ PromoteTick
  <2>1. CASE BallotTick
    BY <2>1 DEF TypeOK, BallotTick
  <2>2. CASE PromoteTick
    <3>1. /\ generation' \in [Peers -> 1..2]
          /\ fresh' \in [Authorities -> [Peers -> 0..LeaseDuration]]
          /\ beats' \in [Authorities -> 0..2] /\ file' \in [Authorities -> BOOLEAN]
      BY SMTT(30), <2>2 DEF TypeOK, PromoteTick
    <3> QED
      BY <2>2, <3>1 DEF TypeOK, PromoteTick
  <2> QED
    BY <1>2, <2>1, <2>2
<1>3. ASSUME NEW p \in Authorities, AuthorityTick(p)
      PROVE  TypeOK'
  <2>1. lease' \in [Authorities -> [Peers -> Lease]]
    BY SMTT(30), <1>0, <1>3 DEF AuthorityTick, Lease
  <2>2. file' \in [Authorities -> BOOLEAN] /\ beats' \in [Authorities -> 0..2]
    <3>1. refresh_permit(p) \/ clear_permit(p)
      BY <1>3 DEF AuthorityTick
    <3>2. file \in [Authorities -> BOOLEAN] /\ beats \in [Authorities -> 0..2]
      BY DEF TypeOK
    <3>3. CASE refresh_permit(p)
      BY SMTT(30), <3>2, <3>3 DEF refresh_permit
    <3>4. CASE clear_permit(p)
      BY <3>2, <3>4 DEF clear_permit
    <3> QED
      BY <3>1, <3>3, <3>4
  <2>3. game' \in [Authorities -> Game]
    BY SMTT(30), <1>0, <1>3, ObservedType DEF AuthorityTick, refresh_permit, clear_permit
  <2>4. announced' \subseteq Peers
    BY <1>3 DEF TypeOK, AuthorityTick
  <2> QED
    BY <1>3, <2>1, <2>2, <2>3, <2>4 DEF TypeOK, AuthorityTick, Lease, Game
<1>4. ASSUME NEW p \in Authorities, FollowerTick(p)
      PROVE  TypeOK'
  BY <1>4 DEF TypeOK, FollowerTick, clear_permit
<1>5. ASSUME NEW p \in Authorities, Launch(p) \/ serverStarted(p) \/ GameStops(p)
      PROVE  TypeOK'
  <2>1. game' \in [Authorities -> Game] /\ beats' \in [Authorities -> 0..2]
    BY SMTT(30), <1>0, <1>5 DEF TypeOK, Launch, serverStarted, GameStops, NoGame, Game
  <2> QED
    BY <1>5, <2>1 DEF TypeOK, Launch, serverStarted, GameStops, Game
<1>6. ASSUME NEW p \in Authorities, NEW q \in Peers,
             LeaseGrant(p, q) \/ LeaseAccepted(p, q) \/ LeaseFails(p, q)
      PROVE  TypeOK'
  <2>1. NoLease \in Lease /\ [stage |-> "granted", age |-> 0] \in Lease
    BY SMTT(30) DEF NoLease, Lease
  <2>2. lease' \in [Authorities -> [Peers -> Lease]]
    <3>1. PICK l \in Lease : lease' = [lease EXCEPT ![p][q] = l]
      BY <1>6, <2>1 DEF LeaseGrant, LeaseAccepted, LeaseFails
    <3> QED
      BY <1>0, <3>1
  <2>4. fresh' \in [Authorities -> [Peers -> 0..LeaseDuration]]
    <3>1. PICK n \in 0..LeaseDuration : fresh' = fresh \/ fresh' = [fresh EXCEPT ![p][q] = n]
      BY SMTT(30), <1>6 DEF LeaseGrant, LeaseAccepted, LeaseFails
    <3>2. fresh \in [Authorities -> [Peers -> 0..LeaseDuration]]
      BY DEF TypeOK
    <3> QED
      BY SMTT(30), <3>1, <3>2
  <2>5. window' \in [Peers -> 0..(LeaseDuration + SettleDelay)]
    BY SMTT(30), <1>6 DEF TypeOK, LeaseGrant, LeaseAccepted, LeaseFails, RecoveryDelay
  <2> QED
    BY <1>6, <2>2, <2>4, <2>5 DEF TypeOK, LeaseGrant, LeaseAccepted, LeaseFails, Lease
<1>7. ASSUME NEW q \in Peers, RecoveryBallot(q) \/ RecoveryEpoch(q) \/ RequestFails(q)
      PROVE  TypeOK'
  BY SMTT(30), <1>7 DEF TypeOK, RecoveryBallot, RecoveryEpoch, RequestFails
<1>8. ASSUME NEW p \in Peers, NEW q \in Peers, Disconnected(p, q)
      PROVE  TypeOK'
  <2>1. /\ lease' \in [Authorities -> [Peers -> Lease]]
        /\ fresh' \in [Authorities -> [Peers -> 0..LeaseDuration]]
    BY SMTT(30), <1>0, <1>8 DEF TypeOK, Disconnected, NoLease, Lease
  <2>2. /\ sees' \in [Peers -> SUBSET Peers] /\ votes' \subseteq Peers
        /\ epochAcks' \subseteq Peers /\ asked' \subseteq Peers /\ announced' \subseteq Peers
    BY <1>8 DEF TypeOK, Disconnected
  <2> QED
    BY <1>8, <2>1, <2>2 DEF TypeOK, Disconnected, Lease
<1>9. ASSUME NEW p \in Peers, NEW q \in Peers, Authenticated(p, q)
      PROVE  TypeOK'
  BY SMTT(30), <1>9 DEF TypeOK, Authenticated
<1>10. CASE UNCHANGED vars
  BY <1>10 DEF TypeOK, vars
<1> QED
  BY <1>1, <1>2, <1>3, <1>4, <1>5, <1>6, <1>7, <1>8, <1>9, <1>10 DEF Next

(* Every reachable state of the hand-over is well typed, for any timers:   *)
(* no answer is counted for longer than the lease, no window is longer     *)
(* than lease and settle delay.                                            *)
THEOREM LeaseTypeCorrect == Spec => []TypeOK
  BY TypeInit, TypeNext, PTL DEF Spec
-----------------------------------------------------------------------------
(* Which steps change what                                                 *)

Tick(p) == AuthorityTick(p) \/ FollowerTick(p)
Guard(p) == Launch(p) \/ serverStarted(p) \/ GameStops(p)
Answer(q) == RecoveryBallot(q) \/ RecoveryEpoch(q) \/ RequestFails(q)

LEMMA TimeFrame ==
    ASSUME Second
    PROVE  generation' = generation /\ sees' = sees /\ votes' = votes /\ asked' = asked
           /\ announced' = announced /\ file' = file
  BY DEF Second

LEMMA BallotFrame ==
    ASSUME BallotTick
    PROVE  generation' = generation /\ sees' = sees /\ window' = window /\ moved' = moved
           /\ lease' = lease /\ fresh' = fresh /\ announced' = announced
  BY DEF BallotTick

LEMMA PromoteFrame ==
    ASSUME PromoteTick
    PROVE  sees' = sees /\ window' = window /\ moved' = moved /\ asked' = asked
  BY DEF PromoteTick

LEMMA TickFrame ==
    ASSUME NEW p \in Authorities, Tick(p)
    PROVE  generation' = generation /\ sees' = sees /\ window' = window /\ moved' = moved
           /\ votes' = votes /\ asked' = asked
<1>1. CASE AuthorityTick(p)
  BY <1>1 DEF AuthorityTick
<1>2. CASE FollowerTick(p)
  BY <1>2 DEF FollowerTick
<1> QED
  BY <1>1, <1>2 DEF Tick

LEMMA FollowerFrame ==
    ASSUME NEW p \in Authorities, FollowerTick(p)
    PROVE  lease' = lease /\ fresh' = fresh /\ announced' = announced
  BY DEF FollowerTick

LEMMA GuardFrame ==
    ASSUME NEW p \in Authorities, Guard(p)
    PROVE  generation' = generation /\ sees' = sees /\ window' = window /\ moved' = moved
           /\ lease' = lease /\ fresh' = fresh /\ votes' = votes /\ asked' = asked
           /\ announced' = announced /\ file' = file /\ ticked' = ticked
<1>1. CASE Launch(p)
  BY <1>1 DEF Launch
<1>2. CASE serverStarted(p)
  BY <1>2 DEF serverStarted
<1>3. CASE GameStops(p)
  BY <1>3 DEF GameStops
<1> QED
  BY <1>1, <1>2, <1>3 DEF Guard

LEMMA LeaseFrame ==
    ASSUME NEW p \in Authorities, NEW q \in Peers,
           LeaseGrant(p, q) \/ LeaseAccepted(p, q) \/ LeaseFails(p, q)
    PROVE  generation' = generation /\ sees' = sees /\ moved' = moved
           /\ votes' = votes /\ asked' = asked
           /\ announced' = announced /\ file' = file /\ ticked' = ticked
           /\ (window' = window \/ LeaseGrant(p, q))
<1>1. CASE LeaseGrant(p, q)
  <2>1. generation' = generation /\ sees' = sees /\ moved' = moved /\ votes' = votes
        /\ asked' = asked /\ announced' = announced /\ file' = file /\ ticked' = ticked
    BY <1>1 DEF LeaseGrant
  <2> QED
    BY <1>1, <2>1
<1>2. CASE LeaseAccepted(p, q)
  BY <1>2 DEF LeaseAccepted
<1>3. CASE LeaseFails(p, q)
  BY <1>3 DEF LeaseFails
<1> QED
  BY <1>1, <1>2, <1>3

LEMMA AnswerFrame ==
    ASSUME NEW q \in Peers, Answer(q)
    PROVE  sees' = sees /\ window' = window /\ moved' = moved /\ lease' = lease
           /\ fresh' = fresh /\ file' = file /\ ticked' = ticked
           /\ (generation' = generation \/ RecoveryEpoch(q))
<1>1. CASE RecoveryBallot(q)
  BY <1>1 DEF RecoveryBallot
<1>2. CASE RecoveryEpoch(q)
  <2>1. sees' = sees /\ window' = window /\ moved' = moved /\ lease' = lease
        /\ fresh' = fresh /\ file' = file /\ ticked' = ticked
    BY <1>2 DEF RecoveryEpoch
  <2> QED
    BY <1>2, <2>1
<1>3. CASE RequestFails(q)
  BY <1>3 DEF RequestFails
<1> QED
  BY <1>1, <1>2, <1>3 DEF Answer

LEMMA DisconnectedFrame ==
    ASSUME NEW p \in Peers, NEW q \in Peers, Disconnected(p, q)
    PROVE  generation' = generation /\ window' = window /\ moved' = moved
           /\ file' = file /\ ticked' = ticked
  BY DEF Disconnected

LEMMA AuthenticatedFrame ==
    ASSUME NEW p \in Peers, NEW q \in Peers, Authenticated(p, q)
    PROVE  generation' = generation /\ window' = window /\ moved' = moved /\ lease' = lease
           /\ fresh' = fresh /\ votes' = votes /\ asked' = asked
           /\ announced' = announced /\ file' = file /\ ticked' = ticked
  BY DEF Authenticated

LEMMA StutterFrame ==
    ASSUME UNCHANGED vars
    PROVE  generation' = generation /\ sees' = sees /\ window' = window /\ moved' = moved
           /\ lease' = lease /\ fresh' = fresh /\ votes' = votes /\ asked' = asked
           /\ announced' = announced /\ file' = file /\ ticked' = ticked
  BY DEF vars

(* A step of Next, by the frame it leaves alone.                           *)
LEMMA Kinds ==
    ASSUME [Next]_vars
    PROVE  \/ Second \/ BallotTick \/ PromoteTick \/ UNCHANGED vars
           \/ \E p \in Authorities : Tick(p) \/ Guard(p)
           \/ \E p \in Authorities, q \in Peers :
                 LeaseGrant(p, q) \/ LeaseAccepted(p, q) \/ LeaseFails(p, q)
           \/ \E q \in Peers : Answer(q)
           \/ \E p, q \in Peers : Disconnected(p, q) \/ Authenticated(p, q)
  BY DEF Next, Tick, Guard, Answer

LEMMA SeesChange ==
    ASSUME [Next]_vars
    PROVE  \/ sees' = sees
           \/ \E a, b \in Peers : Disconnected(a, b) \/ Authenticated(a, b)
  BY Kinds, TimeFrame, BallotFrame, PromoteFrame, TickFrame, GuardFrame,
     LeaseFrame, AnswerFrame, StutterFrame

LEMMA GenerationChange ==
    ASSUME [Next]_vars
    PROVE  generation' = generation \/ PromoteTick \/ \E r \in Peers : RecoveryEpoch(r)
  BY Kinds, TimeFrame, BallotFrame, TickFrame, GuardFrame,
     LeaseFrame, AnswerFrame, DisconnectedFrame, AuthenticatedFrame, StutterFrame

LEMMA GenerationSet ==
    ASSUME [Next]_vars
    PROVE  generation' = generation \/ \E r \in Peers : generation' = [generation EXCEPT ![r] = 2]
<1>1. CASE PromoteTick
  <2>1. generation' = [generation EXCEPT ![Successor] = 2]
    BY <1>1 DEF PromoteTick
  <2> QED
    BY <2>1, Constants
<1>2. ASSUME NEW r \in Peers, RecoveryEpoch(r)
      PROVE  generation' = [generation EXCEPT ![r] = 2]
  BY <1>2 DEF RecoveryEpoch
<1> QED
  BY <1>1, <1>2, GenerationChange

LEMMA MovedChange ==
    ASSUME [Next]_vars
    PROVE  moved' = moved \/ Second
  BY Kinds, BallotFrame, PromoteFrame, TickFrame, GuardFrame,
     LeaseFrame, AnswerFrame, DisconnectedFrame, AuthenticatedFrame, StutterFrame

LEMMA WindowChange ==
    ASSUME [Next]_vars
    PROVE  window' = window \/ Second \/ \E p \in Authorities, r \in Peers : LeaseGrant(p, r)
  BY Kinds, BallotFrame, PromoteFrame, TickFrame, GuardFrame,
     LeaseFrame, AnswerFrame, DisconnectedFrame, AuthenticatedFrame, StutterFrame

LEMMA PermitChange ==
    ASSUME [Next]_vars
    PROVE  \/ file' = file /\ ticked' = ticked
           \/ file' = file /\ Second
           \/ BallotTick \/ PromoteTick \/ \E p \in Authorities : Tick(p)
  BY Kinds, TimeFrame, GuardFrame, LeaseFrame, AnswerFrame, DisconnectedFrame,
     AuthenticatedFrame, StutterFrame

LEMMA AckChange ==
    ASSUME [Next]_vars
    PROVE  \/ lease' = lease /\ fresh' = fresh
           \/ Second \/ PromoteTick
           \/ \E p \in Authorities : AuthorityTick(p)
           \/ \E p \in Authorities, r \in Peers :
                 LeaseGrant(p, r) \/ LeaseAccepted(p, r) \/ LeaseFails(p, r)
           \/ \E p, r \in Peers : Disconnected(p, r)
<1>1. ASSUME NEW p \in Authorities, Tick(p)
      PROVE  AuthorityTick(p) \/ (lease' = lease /\ fresh' = fresh)
  BY <1>1, FollowerFrame DEF Tick
<1> QED
  BY <1>1, Kinds, BallotFrame, GuardFrame, AnswerFrame, AuthenticatedFrame, StutterFrame

LEMMA AnnouncedChange ==
    ASSUME [Next]_vars
    PROVE  \/ announced' = announced \/ PromoteTick
           \/ \E p \in Authorities : AuthorityTick(p)
           \/ \E q \in Peers : Answer(q)
           \/ \E p, q \in Peers : Disconnected(p, q)
<1>1. ASSUME NEW p \in Authorities, Tick(p)
      PROVE  AuthorityTick(p) \/ announced' = announced
  BY <1>1, FollowerFrame DEF Tick
<1> QED
  BY <1>1, Kinds, TimeFrame, BallotFrame, GuardFrame, LeaseFrame, AuthenticatedFrame,
     StutterFrame

LEMMA VotesChange ==
    ASSUME [Next]_vars
    PROVE  \/ votes' = votes /\ asked' = asked
           \/ BallotTick \/ PromoteTick
           \/ \E q \in Peers : Answer(q)
           \/ \E p, q \in Peers : Disconnected(p, q)
  BY Kinds, TimeFrame, TickFrame, GuardFrame, LeaseFrame, AuthenticatedFrame, StutterFrame
-----------------------------------------------------------------------------
(* The bound on a deposed authority's permit                               *)

LEMMA NobodySeesItself ==
    ASSUME TypeOK, \A p \in Peers : p \notin sees[p], [Next]_vars, NEW p \in Peers
    PROVE  p \notin sees'[p]
<1> USE Constants
<1>1. ASSUME NEW a \in Peers, NEW b \in Peers, Disconnected(a, b)
      PROVE  p \notin sees'[p]
  BY <1>1 DEF Disconnected, TypeOK
<1>2. ASSUME NEW a \in Peers, NEW b \in Peers, Authenticated(a, b)
      PROVE  p \notin sees'[p]
  BY <1>2 DEF Authenticated, TypeOK
<1>3. \/ sees' = sees
      \/ \E a, b \in Peers : Disconnected(a, b) \/ Authenticated(a, b)
  BY SeesChange
<1> QED
  BY <1>1, <1>2, <1>3

(* What the steps do to the acknowledgement of q that the Holder counts.   *)
AckKept(q) == lease'[Holder][q] = lease[Holder][q] /\ fresh'[Holder][q] = fresh[Holder][q]
AckAsked(q) == lease'[Holder][q].stage # "granted" /\ fresh'[Holder][q] = fresh[Holder][q]
AckDropped(q) == lease'[Holder][q].stage # "granted" /\ fresh'[Holder][q] = 0
AckGiven(q) ==
    /\ generation[q] = 1 /\ Holder \in sees[q]
    /\ lease'[Holder][q] = [stage |-> "granted", age |-> 0]
    /\ fresh'[Holder][q] = fresh[Holder][q] /\ window'[q] = LeaseDuration + SettleDelay
AckArrives(q) ==
    /\ lease[Holder][q].stage = "granted"
    /\ lease'[Holder][q].stage # "granted" /\ fresh'[Holder][q] = LeaseDuration

LEMMA AckStep ==
    ASSUME TypeOK, Next, ~Second, NEW q \in Peers
    PROVE  AckKept(q) \/ AckAsked(q) \/ AckDropped(q) \/ AckGiven(q) \/ AckArrives(q)
<1> USE Constants
<1> DEFINE Goal == AckKept(q) \/ AckAsked(q) \/ AckDropped(q) \/ AckGiven(q) \/ AckArrives(q)
<1>0. /\ lease \in [Authorities -> [Peers -> Lease]]
      /\ fresh \in [Authorities -> [Peers -> 0..LeaseDuration]]
  BY DEF TypeOK, Lease
<1>1. CASE UNCHANGED <<lease, fresh>>
  BY SMTT(30), <1>1 DEF AckKept
<1>2. CASE PromoteTick
  BY <1>0, <1>2 DEF PromoteTick, AckKept
<1>3. ASSUME NEW p \in Authorities, AuthorityTick(p)
      PROVE  Goal
  <2>1. CASE p = Holder
    <3>1. fresh' = fresh
      BY <1>3 DEF AuthorityTick
    <3>2. lease'[Holder][q] \in {lease[Holder][q], [stage |-> "asked", age |-> 0]}
      BY <1>0, <1>3, <2>1 DEF AuthorityTick
    <3> QED
      BY SMTT(30), <3>1, <3>2 DEF AckKept, AckAsked
  <2>2. CASE p # Holder
    BY <1>0, <1>3, <2>2 DEF AuthorityTick, AckKept
  <2> QED
    BY <2>1, <2>2
<1>4. ASSUME NEW p \in Authorities, NEW r \in Peers, LeaseGrant(p, r)
      PROVE  Goal
  <2>1. CASE p = Holder /\ r = q
    BY <1>0, <1>4, <2>1 DEF LeaseGrant, AckGiven, GenerationOf, RecoveryDelay, TypeOK
  <2>2. CASE ~(p = Holder /\ r = q)
    BY <1>0, <1>4, <2>2 DEF LeaseGrant, AckKept
  <2> QED
    BY <2>1, <2>2
<1>5. ASSUME NEW p \in Authorities, NEW r \in Peers, LeaseAccepted(p, r)
      PROVE  Goal
  <2>1. CASE p = Holder /\ r = q
    BY <1>0, <1>5, <2>1 DEF LeaseAccepted, AckArrives, NoLease
  <2>2. CASE ~(p = Holder /\ r = q)
    BY <1>0, <1>5, <2>2 DEF LeaseAccepted, AckKept
  <2> QED
    BY <2>1, <2>2
<1>6. ASSUME NEW p \in Authorities, NEW r \in Peers, LeaseFails(p, r)
      PROVE  Goal
  <2>1. CASE p = Holder /\ r = q
    BY <1>0, <1>6, <2>1 DEF LeaseFails, AckDropped, NoLease
  <2>2. CASE ~(p = Holder /\ r = q)
    BY <1>0, <1>6, <2>2 DEF LeaseFails, AckKept
  <2> QED
    BY <2>1, <2>2
<1>7. ASSUME NEW p \in Peers, NEW r \in Peers, Disconnected(p, r)
      PROVE  Goal
  <2>1. CASE p = Holder /\ r = q
    BY <1>0, <1>7, <2>1 DEF Disconnected, AckDropped, NoLease
  <2>2. CASE ~(p = Holder /\ r = q)
    BY <1>0, <1>7, <2>2 DEF Disconnected, AckKept
  <2> QED
    BY <2>1, <2>2
<1>8. \/ UNCHANGED <<lease, fresh>> \/ PromoteTick
      \/ \E p \in Authorities : AuthorityTick(p)
      \/ \E p \in Authorities, r \in Peers :
            LeaseGrant(p, r) \/ LeaseAccepted(p, r) \/ LeaseFails(p, r)
      \/ \E p, r \in Peers : Disconnected(p, r)
  BY AckChange
<1> QED
  BY <1>1, <1>2, <1>3, <1>4, <1>5, <1>6, <1>7, <1>8

(* Generations never go back, and only time changes moved.                 *)
LEMMA GenerationStep ==
    ASSUME TypeOK, Next, ~Second, NEW q \in Peers
    PROVE  moved' = moved /\ (generation'[q] = 1 => generation[q] = 1)
<1> USE Constants
<1>1. moved' = moved
  BY MovedChange
<1>2. generation' = generation \/ \E r \in Peers : generation' = [generation EXCEPT ![r] = 2]
  BY GenerationSet
<1>3. generation \in [Peers -> 1..2]
  BY DEF TypeOK
<1>4. generation'[q] = 1 => generation[q] = 1
  BY SMTT(30), <1>2, <1>3
<1> QED
  BY SMTT(30), <1>1, <1>4

LEMMA SecondAck ==
    ASSUME TypeOK, Second, NEW q \in Peers
    PROVE  /\ lease'[Holder][q].stage = lease[Holder][q].stage
           /\ lease[Holder][q].stage = "granted" =>
                 lease'[Holder][q].age = lease[Holder][q].age + 1
           /\ fresh'[Holder][q] = Less(fresh[Holder][q])
           /\ window'[q] = Less(window[q]) /\ generation' = generation
           /\ moved'[q] \in {moved[q], moved[q] + 1}
           /\ generation[q] = 1 => moved'[q] = moved[q]
<1> USE Constants
<1>1. lease'[Holder][q] = IF lease[Holder][q].stage = "granted"
                          THEN [stage |-> "granted", age |-> lease[Holder][q].age + 1]
                          ELSE lease[Holder][q]
  BY DEF Second
<1>2. /\ fresh'[Holder][q] = Less(fresh[Holder][q])
      /\ window'[q] = Less(window[q]) /\ generation' = generation
  BY DEF Second
<1>3. moved'[q] = IF generation[q] = 2 /\ moved[q] < MovedLimit THEN moved[q] + 1 ELSE moved[q]
  BY DEF Second
<1> QED
  BY SMTT(30), <1>1, <1>2, <1>3

LEMMA AckTypes ==
    ASSUME TypeOK, NEW q \in Peers
    PROVE  /\ lease[Holder][q].age \in 0..MaxDelay /\ fresh[Holder][q] \in 0..LeaseDuration
           /\ window[q] \in 0..(LeaseDuration + SettleDelay)
           /\ moved[q] \in 0..MovedLimit /\ generation[q] \in 1..2
  BY DEF TypeOK

LEMMA MovedAckStep ==
    ASSUME TypeOK, [Next]_vars, NEW q \in Peers, MovedAck(q)
    PROVE  MovedAck(q)'
<1> USE Constants
<1>0. TypeOK'
  BY TypeNext
<1>1. CASE Second
  BY SMTT(30), <1>1, SecondAck, AckTypes DEF MovedAck, Less, MovedLimit
<1>2. CASE UNCHANGED vars
  BY <1>2 DEF vars, MovedAck
<1>3. CASE Next /\ ~Second
  <2>1. moved' = moved /\ (generation'[q] = 1 => generation[q] = 1)
    BY <1>3, GenerationStep
  <2>2. AckKept(q) \/ AckAsked(q) \/ AckDropped(q) \/ AckGiven(q) \/ AckArrives(q)
    BY <1>3, AckStep
  <2>3. CASE AckKept(q) \/ AckAsked(q) \/ AckDropped(q)
    BY SMTT(30), <2>1, <2>3, AckTypes DEF AckKept, AckAsked, AckDropped, MovedAck
  <2>4. CASE AckGiven(q)
    BY SMTT(30), <2>1, <2>4, AckTypes DEF AckGiven, MovedAck
  <2>5. CASE AckArrives(q)
    BY SMTT(30), <2>1, <2>5, AckTypes DEF AckArrives, MovedAck, MovedLimit
  <2> QED
    BY <2>2, <2>3, <2>4, <2>5
<1> QED
  BY <1>1, <1>2, <1>3

(* What the steps do to the Holder's permit.                               *)
LEMMA PermitStep ==
    ASSUME TypeOK, Next, ~Second
    PROVE  \/ AuthorityTick(Holder) \/ FollowerTick(Holder)
           \/ /\ file'[Holder] = file[Holder]
              /\ (Holder \in ticked') = (Holder \in ticked)
<1> USE Constants
<1>1. file \in [Authorities -> BOOLEAN]
  BY DEF TypeOK
<1>2. CASE UNCHANGED <<file, ticked>>
  BY <1>2
<1>3. CASE BallotTick \/ PromoteTick
  BY SMTT(30), <1>1, <1>3 DEF BallotTick, PromoteTick
<1>4. CASE AuthorityTick(Successor) \/ FollowerTick(Successor)
  BY SMTT(30), <1>1, <1>4 DEF AuthorityTick, FollowerTick, refresh_permit, clear_permit
<1>5. \/ UNCHANGED <<file, ticked>> \/ BallotTick \/ PromoteTick
      \/ AuthorityTick(Successor) \/ FollowerTick(Successor)
      \/ AuthorityTick(Holder) \/ FollowerTick(Holder)
  BY PermitChange DEF Tick
<1> QED
  BY <1>2, <1>3, <1>4, <1>5

(* The Holder renews its permit only with a majority that it hears from.   *)
Heard == {Holder} \cup {q \in Peers : fresh[Holder][q] > 0}

LEMMA RenewalNeedsMajority ==
    ASSUME TypeOK, \A p \in Peers : p \notin sees[p], AuthorityTick(Holder), file'[Holder]
    PROVE  generation[Holder] = 1 /\ has_quorum(N, Cardinality(Heard))
<1> USE Constants
<1>1. Majority(FreshAcks(Holder))
  <2>1. file \in [Authorities -> BOOLEAN]
    BY DEF TypeOK
  <2> QED
    BY <2>1 DEF AuthorityTick, clear_permit
<1>2. FreshAcks(Holder) \in SUBSET Peers /\ Holder \notin FreshAcks(Holder)
  BY DEF FreshAcks, TypeOK
<1>3. Cardinality(FreshAcks(Holder) \cup {Holder}) = 1 + Cardinality(FreshAcks(Holder))
  BY SMTT(30), <1>2, CountingPeer
<1>4. has_quorum(N, Cardinality(FreshAcks(Holder) \cup {Holder}))
  BY <1>1, <1>3 DEF Majority
<1>5. FreshAcks(Holder) \cup {Holder} \subseteq Heard /\ Heard \in SUBSET Peers
  BY <1>2 DEF FreshAcks, Heard
<1>6. has_quorum(N, Cardinality(Heard))
  BY <1>2, <1>4, <1>5, LargerMajority DEF N
<1> QED
  BY <1>6 DEF AuthorityTick, IsAuthority, GenerationOf

LEMMA StaleStep == TypeOK /\ StaleInv /\ [Next]_vars => StaleInv'
<1> SUFFICES ASSUME TypeOK, StaleInv, [Next]_vars
             PROVE  StaleInv'
  OBVIOUS
<1> USE Constants
<1>0. \A p \in Peers : p \notin sees[p]
  BY DEF StaleInv
<1>1. \A p \in Peers : p \notin sees'[p]
  BY <1>0, NobodySeesItself
<1>2. \A q \in Peers : MovedAck(q)'
  BY MovedAckStep DEF StaleInv
<1>3. file'[Holder] => has_quorum(N, Cardinality(StillCounting'))
  <2> SUFFICES ASSUME file'[Holder]
               PROVE  has_quorum(N, Cardinality(StillCounting'))
    OBVIOUS
  <2>0. StillCounting' \in SUBSET Peers /\ StillCounting \in SUBSET Peers
    BY DEF StillCounting
  <2>1. CASE Second
    <3>1. file[Holder] /\ Holder \in ticked /\ Holder \notin ticked'
      BY <2>1 DEF Second
    <3>2. StillCounting \subseteq StillCounting'
      <4> SUFFICES ASSUME NEW q \in StillCounting
                   PROVE  q \in StillCounting'
        OBVIOUS
      <4>1. q \in Peers /\ moved[q] + 1 <= LeaseDuration + MaxDelay
        BY <3>1 DEF StillCounting
      <4>2. moved'[q] \in {moved[q], moved[q] + 1} /\ moved[q] \in Nat
        BY SMTT(30), <2>1, <4>1, SecondAck, AckTypes DEF MovedLimit
      <4>3. moved'[q] <= LeaseDuration + MaxDelay /\ moved'[q] \in Nat
        BY SMTT(30), <4>1, <4>2
      <4> QED
        BY SMTT(30), <3>1, <4>1, <4>3 DEF StillCounting
    <3> QED
      BY SMTT(30), <2>0, <3>1, <3>2, LargerMajority DEF StaleInv, N
  <2>2. CASE AuthorityTick(Holder)
    <3>1. generation[Holder] = 1 /\ has_quorum(N, Cardinality(Heard))
      BY <1>0, <2>2, RenewalNeedsMajority
    <3>2. moved' = moved /\ Holder \in ticked'
      BY <2>2 DEF AuthorityTick
    <3>3. ASSUME NEW q \in Heard
          PROVE  q \in StillCounting'
      <4>1. q \in Peers /\ MovedAck(q) /\ moved[q] \in Nat
        BY SMTT(30), AckTypes DEF Heard, StaleInv, MovedLimit
      <4>2. moved[q] + 1 <= LeaseDuration + MaxDelay
        BY SMTT(30), <3>1, <4>1, AckTypes DEF Heard, MovedAck
      <4> QED
        BY <3>2, <4>1, <4>2 DEF StillCounting
    <3>4. Heard \in SUBSET Peers /\ Heard \subseteq StillCounting'
      BY <3>3 DEF Heard
    <3> QED
      BY <2>0, <3>1, <3>4, LargerMajority DEF N
  <2>3. CASE FollowerTick(Holder)
    BY <2>3 DEF FollowerTick, clear_permit, TypeOK
  <2>4. CASE Next /\ ~Second /\ ~AuthorityTick(Holder) /\ ~FollowerTick(Holder)
    <3>1. file[Holder] /\ (Holder \in ticked') = (Holder \in ticked) /\ moved' = moved
      BY <2>4, PermitStep, GenerationStep
    <3>2. StillCounting' = StillCounting
      BY <3>1 DEF StillCounting
    <3> QED
      BY <3>1, <3>2 DEF StaleInv
  <2>5. CASE UNCHANGED vars
    BY <2>5 DEF vars, StaleInv, StillCounting
  <2> QED
    BY <2>1, <2>2, <2>3, <2>4, <2>5
<1> QED
  BY <1>1, <1>2, <1>3 DEF StaleInv, N

(* The inductive invariant behind the bound, for any number of links that  *)
(* come back.                                                              *)
THEOREM StaleInvCorrect == Spec => []StaleInv
<1>1. Init => StaleInv
  BY SMTT(30), Constants DEF Init, StaleInv, MovedAck, NoLease
<1> QED
  BY <1>1, StaleStep, LeaseTypeCorrect, PTL DEF Spec

(* The permit of a deposed authority is removed, by its own tick, at most  *)
(* LeaseDuration + MaxDelay seconds after a majority accepted its          *)
(* successor, whatever links fail and return meanwhile.                    *)
THEOREM StalePermitBoundedCorrect == Spec => []StalePermitBounded
<1>1. TypeOK /\ StaleInv => StalePermitBounded
  <2> SUFFICES ASSUME TypeOK, StaleInv, file[Holder],
                      has_quorum(N, Cardinality({q \in Peers : moved[q] > LeaseDuration + MaxDelay}))
               PROVE  FALSE
    BY DEF StalePermitBounded
  <2> DEFINE Gone == {q \in Peers : moved[q] > LeaseDuration + MaxDelay}
  <2>1. StillCounting \in SUBSET Peers /\ Gone \in SUBSET Peers
    BY DEF StillCounting
  <2>2. has_quorum(N, Cardinality(StillCounting))
    BY DEF StaleInv
  <2>3. PICK q \in Peers : q \in StillCounting /\ q \in Gone
    BY <2>1, <2>2, Constants, MajoritiesMeet DEF N
  <2>4. moved[q] \in Nat
    BY SMTT(30), AckTypes, Constants DEF MovedLimit
  <2> QED
    BY SMTT(30), <2>3, <2>4, Constants DEF StillCounting
<1> QED
  BY <1>1, StaleInvCorrect, LeaseTypeCorrect, PTL
-----------------------------------------------------------------------------
(* One permit at a time, when links do not return                          *)

Prompt == MaxReconnects = 0 /\ MaxDelay <= SettleDelay

LEMMA WindowStep ==
    ASSUME TypeOK, Next, ~Second, NEW q \in Peers
    PROVE  window'[q] = window[q] \/ window'[q] = LeaseDuration + SettleDelay
<1>1. \/ window' = window
      \/ \E r \in Peers : window' = [window EXCEPT ![r] = LeaseDuration + SettleDelay]
  <2>1. ASSUME NEW p \in Authorities, NEW r \in Peers, LeaseGrant(p, r)
        PROVE  window' = [window EXCEPT ![r] = LeaseDuration + SettleDelay]
    BY <2>1 DEF LeaseGrant, RecoveryDelay
  <2> QED
    BY <2>1, WindowChange
<1> QED
  BY SMTT(30), <1>1 DEF TypeOK

LEMMA AckWithinWindowStep ==
    ASSUME TypeOK, [Next]_vars, NEW q \in Peers,
           generation[q] = 1 => AckWithinWindow(q), generation'[q] = 1
    PROVE  AckWithinWindow(q)'
<1> USE Constants
<1>0. TypeOK'
  BY TypeNext
<1>t. /\ lease'[Holder][q].age \in 0..MaxDelay /\ fresh'[Holder][q] \in 0..LeaseDuration
      /\ window'[q] \in 0..(LeaseDuration + SettleDelay)
  BY SMTT(30), <1>0 DEF TypeOK
<1>1. CASE Second
  BY SMTT(30), <1>1, SecondAck, AckTypes DEF AckWithinWindow, Less
<1>2. CASE UNCHANGED vars
  BY <1>2 DEF vars, AckWithinWindow
<1>3. CASE Next /\ ~Second
  <2>1. AckWithinWindow(q)
    BY <1>3, GenerationStep
  <2>2. AckKept(q) \/ AckAsked(q) \/ AckDropped(q) \/ AckGiven(q) \/ AckArrives(q)
    BY <1>3, AckStep
  <2>3. CASE window'[q] = LeaseDuration + SettleDelay
    BY SMTT(30), <2>3, <1>t DEF AckWithinWindow
  <2>4. CASE window'[q] = window[q] /\ ~AckGiven(q)
    <3>1. CASE AckKept(q) \/ AckAsked(q) \/ AckDropped(q)
      BY SMTT(30), <2>1, <2>4, <3>1, <1>t DEF AckKept, AckAsked, AckDropped, AckWithinWindow
    <3>2. CASE AckArrives(q)
      BY SMTT(30), <2>1, <2>4, <3>2, AckTypes DEF AckArrives, AckWithinWindow
    <3> QED
      BY SMTT(30), <2>2, <2>4, <3>1, <3>2
  <2>5. CASE AckGiven(q)
    BY <2>3, <2>5 DEF AckGiven
  <2> QED
    BY <1>3, <2>3, <2>4, <2>5, WindowStep
<1> QED
  BY <1>1, <1>2, <1>3

(* Without reconnects a member that left the Holder's lease stays out.     *)
LEMMA ReleasedStable ==
    ASSUME TypeOK, MaxReconnects = 0, [Next]_vars, NEW q \in Peers, Released(q)
    PROVE  Released(q)'
<1> USE Constants
<1>1. Holder \notin sees'[q]
  <2>1. ASSUME NEW a \in Peers, NEW b \in Peers, Disconnected(a, b)
        PROVE  sees'[q] \subseteq sees[q]
    BY <2>1 DEF Disconnected, TypeOK
  <2>2. ~ \E a, b \in Peers : Authenticated(a, b)
    BY SMTT(30) DEF Authenticated, TypeOK
  <2>3. sees' = sees \/ \E a, b \in Peers : Disconnected(a, b)
    BY <2>2, SeesChange
  <2> QED
    BY <2>1, <2>3 DEF Released
<1>2. CASE Second
  BY <1>1, <1>2, SecondAck DEF Released, Less
<1>3. CASE UNCHANGED vars
  BY <1>3 DEF vars, Released
<1>4. CASE Next /\ ~Second
  BY <1>1, <1>4, AckStep
     DEF Released, AckKept, AckAsked, AckDropped, AckGiven, AckArrives
<1> QED
  BY <1>2, <1>3, <1>4

(* Whoever may vote has left the lease of the Holder: its window outlived  *)
(* everything the Holder could still count.                                *)
LEMMA LostIsReleased ==
    ASSUME TypeOK, MaxDelay <= SettleDelay, NEW q \in Peers, q # Holder,
           generation[q] = 1 => AckWithinWindow(q), HolderLost(q)
    PROVE  Released(q)
<1> USE Constants
<1>1. AckWithinWindow(q) /\ window[q] = 0 /\ Holder \notin sees[q]
  BY DEF HolderLost
<1>2. lease[Holder][q].age \in 0..MaxDelay /\ fresh[Holder][q] \in 0..LeaseDuration
  BY AckTypes
<1>3. fresh[Holder][q] = 0
  BY SMTT(30), <1>1, <1>2 DEF AckWithinWindow
<1>4. lease[Holder][q].stage # "granted"
  BY SMTT(30), <1>1, <1>2 DEF AckWithinWindow
<1> QED
  BY <1>1, <1>3, <1>4 DEF Released

LEMMA AskedStep ==
    ASSUME TypeOK, [Next]_vars, Holder \notin asked
    PROVE  Holder \notin asked'
<1>1. CASE BallotTick
  BY <1>1 DEF BallotTick, Campaigns, HolderLost
<1>2. ASSUME NEW q \in Peers, Answer(q)
      PROVE  asked' \subseteq asked
  BY <1>2 DEF Answer, RecoveryBallot, RecoveryEpoch, RequestFails
<1>3. ASSUME NEW p \in Peers, NEW q \in Peers, Disconnected(p, q)
      PROVE  asked' \subseteq asked
  BY <1>3 DEF Disconnected
<1> QED
  BY <1>1, <1>2, <1>3, VotesChange, PromoteFrame

(* A new vote is that of a member that has lost the Holder.                *)
LEMMA VoteStep ==
    ASSUME TypeOK, [Next]_vars, Holder \notin asked, NEW q \in votes', q \notin votes
    PROVE  q \in Peers /\ q # Holder /\ HolderLost(q)
<1> USE Constants
<1>1. \/ votes' \subseteq votes
      \/ votes' = votes \cup {Successor} /\ HolderLost(Successor)
      \/ \E r \in asked : votes' = votes \cup {r} /\ HolderLost(r)
  <2>1. CASE BallotTick
    BY <2>1 DEF BallotTick, Campaigns
  <2>2. CASE PromoteTick
    BY <2>2 DEF PromoteTick
  <2>3. ASSUME NEW r \in Peers, RecoveryBallot(r)
        PROVE  votes' \subseteq votes \/ (r \in asked /\ votes' = votes \cup {r} /\ HolderLost(r))
    BY <2>3 DEF RecoveryBallot
  <2>4. ASSUME NEW r \in Peers, RecoveryEpoch(r) \/ RequestFails(r)
        PROVE  votes' \subseteq votes
    BY <2>4 DEF RecoveryEpoch, RequestFails
  <2>5. ASSUME NEW p \in Peers, NEW r \in Peers, Disconnected(p, r)
        PROVE  votes' \subseteq votes
    BY <2>5 DEF Disconnected
  <2> QED
    BY <2>1, <2>2, <2>3, <2>4, <2>5, VotesChange DEF Answer
<1> QED
  BY SMTT(30), <1>1 DEF TypeOK

(* Nobody is told of a promotion that has not happened.                    *)
LEMMA PromotionStep ==
    ASSUME TypeOK, [Next]_vars, generation'[Successor] = 1,
           generation[Successor] = 1 => announced = {} /\ \A q \in Peers : generation[q] = 1
    PROVE  announced' = {} /\ \A q \in Peers : generation'[q] = 1
<1> USE Constants
<1>0. generation \in [Peers -> 1..2]
  BY DEF TypeOK
<1>1. generation[Successor] = 1
  <2>1. generation' = generation \/ \E r \in Peers : generation' = [generation EXCEPT ![r] = 2]
    BY GenerationSet
  <2> QED
    BY SMTT(30), <1>0, <2>1
<1>2. announced = {} /\ \A q \in Peers : generation[q] = 1
  BY <1>1
<1>3. generation' = generation
  <2>1. ~PromoteTick
    BY SMTT(30), <1>0 DEF PromoteTick
  <2> QED
    BY <1>2, <2>1, GenerationChange DEF RecoveryEpoch
<1>4. announced' = {}
  <2>1. ~PromoteTick /\ ~AuthorityTick(Successor)
    BY SMTT(30), <1>0, <1>1 DEF PromoteTick, AuthorityTick, IsAuthority, GenerationOf
  <2>2. ASSUME AuthorityTick(Holder) PROVE announced' = announced
    BY <2>2 DEF AuthorityTick
  <2>3. ASSUME NEW q \in Peers, Answer(q)
        PROVE  announced' \subseteq announced
    BY <2>3 DEF Answer, RecoveryBallot, RecoveryEpoch, RequestFails
  <2>4. ASSUME NEW p \in Peers, NEW q \in Peers, Disconnected(p, q)
        PROVE  announced' \subseteq announced
    BY <2>4 DEF Disconnected
  <2>5. announced' \subseteq announced
    BY <2>1, <2>2, <2>3, <2>4, AnnouncedChange
  <2> QED
    BY <1>2, <2>5
<1> QED
  BY <1>2, <1>3, <1>4

(* The members that left the lease, as a set.                              *)
Away == {q \in Peers : Released(q)}

(* The permit the Holder renewed in this second keeps its backing.         *)
LEMMA WaitingStep ==
    ASSUME TypeOK, HandoverInv, MaxDelay <= SettleDelay, [Next]_vars,
           generation'[Successor] = 1, file'[Holder], Holder \in ticked'
    PROVE  has_quorum(N, Cardinality(Waiting'))
<1> USE Constants
<1>0. Waiting' \in SUBSET Peers /\ Waiting \in SUBSET Peers /\ Heard \in SUBSET Peers
  BY SMTT(30) DEF Waiting, Heard
<1>1. CASE Second
  BY <1>1 DEF Second
<1>2. CASE UNCHANGED vars
  <2>1. Waiting' = Waiting
    BY <1>2 DEF vars, Waiting
  <2> QED
    BY <1>2, <2>1 DEF vars, HandoverInv
<1>3. CASE FollowerTick(Holder)
  BY <1>3 DEF FollowerTick, clear_permit, TypeOK
<1>4. CASE AuthorityTick(Holder)
  <2>1. has_quorum(N, Cardinality(Heard))
    BY SMTT(30), <1>4, RenewalNeedsMajority DEF HandoverInv
  <2>2. UNCHANGED <<generation, window, votes>>
    BY <1>4 DEF AuthorityTick
  <2>3. ASSUME NEW q \in Heard, q # Holder
        PROVE  q \in Waiting'
    <3>1. q \in Peers /\ fresh[Holder][q] > 0
      BY <2>3 DEF Heard
    <3>2. AckWithinWindow(q)
      BY <2>2, <3>1 DEF HandoverInv
    <3>3. window[q] > 0
      BY SMTT(30), <3>1, <3>2, AckTypes DEF AckWithinWindow
    <3>4. q \notin votes
      BY SMTT(30), <3>1 DEF HandoverInv, Released
    <3> QED
      BY <2>2, <3>1, <3>3, <3>4 DEF Waiting
  <2>4. Heard \subseteq Waiting'
    BY <2>3 DEF Waiting
  <2> QED
    BY <1>0, <2>1, <2>4, LargerMajority DEF N
<1>5. CASE Next /\ ~Second /\ ~AuthorityTick(Holder) /\ ~FollowerTick(Holder)
  <2>1. file[Holder] /\ Holder \in ticked
    BY <1>5, PermitStep
  <2>2. generation[Successor] = 1
    BY <1>5, GenerationStep
  <2>3. has_quorum(N, Cardinality(Waiting))
    BY <2>1, <2>2 DEF HandoverInv
  <2>4. ASSUME NEW q \in Waiting, q # Holder
        PROVE  q \in Waiting'
    <3>1. q \in Peers /\ window[q] > 0 /\ q \notin votes
      BY <2>4 DEF Waiting
    <3>2. window'[q] > 0
      BY SMTT(30), <1>5, <3>1, WindowStep, AckTypes
    <3>3. q \notin votes'
      BY SMTT(30), <3>1, VoteStep DEF HandoverInv, HolderLost
    <3> QED
      BY <3>1, <3>2, <3>3 DEF Waiting
  <2>5. Waiting \subseteq Waiting'
    BY <2>4 DEF Waiting
  <2> QED
    BY <1>0, <2>3, <2>5, LargerMajority DEF N
<1> QED
  BY <1>1, <1>2, <1>3, <1>4, <1>5

(* Only a majority of votes starts the new generation.                     *)
LEMMA OnlyPromotion ==
    ASSUME TypeOK, HandoverInv, [Next]_vars, generation[Successor] = 1, generation'[Successor] = 2
    PROVE  PromoteTick
<1> USE Constants
<1>1. announced = {}
  BY SMTT(30) DEF HandoverInv
<1>2. PromoteTick \/ generation' = generation
  BY <1>1, GenerationChange DEF RecoveryEpoch
<1> QED
  BY SMTT(30), <1>2

(* The majority that elected the Successor stays away from the Holder.     *)
LEMMA AwayStep ==
    ASSUME TypeOK, HandoverInv, Prompt, [Next]_vars, generation'[Successor] = 2
    PROVE  has_quorum(N, Cardinality(Away'))
<1> USE Constants
<1>1. Away \in SUBSET Peers /\ Away' \in SUBSET Peers /\ Away \subseteq Away'
  BY ReleasedStable DEF Away, Prompt
<1>2. has_quorum(N, Cardinality(Away))
  <2>1. CASE generation[Successor] = 2
    BY <2>1 DEF HandoverInv, Away
  <2>2. CASE generation[Successor] # 2
    <3>1. generation[Successor] = 1
      BY SMTT(30), <2>2 DEF TypeOK
    <3>2. has_quorum(N, Cardinality(votes))
      BY <3>1, OnlyPromotion DEF PromoteTick
    <3>3. votes \in SUBSET Peers /\ votes \subseteq Away
      BY SMTT(30) DEF HandoverInv, Away, TypeOK
    <3> QED
      BY <1>1, <3>2, <3>3, LargerMajority DEF N
  <2> QED
    BY <2>1, <2>2
<1> QED
  BY <1>1, <1>2, LargerMajority DEF N

(* After the promotion the Holder's file, if it is still there, is one     *)
(* that its next tick removes, and the Successor has none in that second.  *)
LEMMA LastPermitStep ==
    ASSUME TypeOK, HandoverInv, [Next]_vars, generation'[Successor] = 2, file'[Holder]
    PROVE  Holder \notin ticked' /\ Successor \in ticked' /\ ~file'[Successor]
<1> USE Constants
<1>0. file \in [Authorities -> BOOLEAN] /\ votes \in SUBSET Peers
  BY DEF TypeOK
<1>1. CASE PromoteTick
  <2>1. generation[Successor] = 1 /\ has_quorum(N, Cardinality(votes)) /\ file[Holder]
    BY SMTT(30), <1>0, <1>1 DEF PromoteTick, Campaigns, HolderLost
  <2>2. ASSUME Holder \in ticked PROVE FALSE
    <3>1. has_quorum(N, Cardinality(Waiting)) /\ Waiting \in SUBSET Peers
      BY <2>1, <2>2 DEF HandoverInv, Waiting
    <3>2. votes \cap Waiting # {}
      BY <1>0, <2>1, <3>1, MajoritiesMeet DEF N
    <3> QED
      BY <3>2 DEF Waiting, HandoverInv, Released
  <2> QED
    BY <1>0, <1>1, <2>2 DEF PromoteTick
<1>2. CASE ~PromoteTick
  <2>1. generation[Successor] = 2
    BY SMTT(30), <1>2, OnlyPromotion DEF TypeOK
  <2>2. ~AuthorityTick(Holder)
    <3> SUFFICES ASSUME AuthorityTick(Holder) PROVE FALSE
      OBVIOUS
    <3>1. has_quorum(N, Cardinality(Heard)) /\ Heard \in SUBSET Peers
      BY RenewalNeedsMajority DEF HandoverInv, Heard
    <3>2. has_quorum(N, Cardinality(Away)) /\ Away \in SUBSET Peers
      BY <2>1 DEF HandoverInv, Away
    <3>3. Heard \cap Away # {}
      BY SMTT(30), <3>1, <3>2, MajoritiesMeet DEF N
    <3>4. PICK q \in Peers : q \in Heard /\ q \in Away
      BY <3>3 DEF Away
    <3>5. q # Holder /\ fresh[Holder][q] = 0
      BY <3>4 DEF Away, Released
    <3>6. q = Holder \/ fresh[Holder][q] > 0
      BY <3>4 DEF Heard
    <3> QED
      BY SMTT(30), <3>5, <3>6
  <2>3. ~FollowerTick(Holder)
    BY SMTT(30), <1>0 DEF FollowerTick, clear_permit
  <2>4. CASE Second
    BY <2>1, <2>4 DEF Second, HandoverInv
  <2>5. CASE UNCHANGED vars
    BY <2>1, <2>5 DEF vars, HandoverInv
  <2>6. CASE Next /\ ~Second
    <3>1. file[Holder]
      BY <2>2, <2>3, <2>6, PermitStep
    <3>2. Holder \notin ticked /\ Successor \in ticked /\ ~file[Successor]
      BY <2>1, <3>1 DEF HandoverInv
    <3>3. ~BallotTick /\ ~AuthorityTick(Successor) /\ ~FollowerTick(Successor)
      BY <3>2 DEF BallotTick, AuthorityTick, FollowerTick
    <3>4. \/ UNCHANGED <<file, ticked>> \/ BallotTick \/ PromoteTick
          \/ AuthorityTick(Successor) \/ FollowerTick(Successor)
          \/ AuthorityTick(Holder) \/ FollowerTick(Holder)
      BY <2>6, PermitChange DEF Tick
    <3>5. UNCHANGED <<file, ticked>>
      BY SMTT(30), <1>2, <2>2, <2>3, <3>3, <3>4
    <3> QED
      BY <3>2, <3>5
  <2> QED
    BY <2>4, <2>5, <2>6
<1> QED
  BY <1>1, <1>2

LEMMA SuccessorPermitStep ==
    ASSUME TypeOK, HandoverInv, [Next]_vars, file'[Successor]
    PROVE  generation'[Successor] = 2
<1> USE Constants
<1>0. file \in [Authorities -> BOOLEAN] /\ generation \in [Peers -> 1..2]
  BY DEF TypeOK
<1>1. generation[Successor] = 2 => generation'[Successor] = 2
  <2>1. generation' = generation \/ \E r \in Peers : generation' = [generation EXCEPT ![r] = 2]
    BY GenerationSet
  <2> QED
    BY SMTT(30), <1>0, <2>1
<1>2. CASE AuthorityTick(Successor)
  BY <1>1, <1>2 DEF AuthorityTick, IsAuthority, GenerationOf
<1>3. CASE BallotTick \/ PromoteTick \/ FollowerTick(Successor)
  BY <1>0, <1>3 DEF BallotTick, PromoteTick, FollowerTick, clear_permit
<1>4. CASE AuthorityTick(Holder) \/ FollowerTick(Holder)
  <2>1. file'[Successor] = file[Successor]
    BY <1>0, <1>4 DEF AuthorityTick, FollowerTick, refresh_permit, clear_permit
  <2> QED
    BY SMTT(30), <1>1, <2>1 DEF HandoverInv
<1>5. CASE file' = file
  BY <1>1, <1>5 DEF HandoverInv
<1>6. \/ file' = file \/ BallotTick \/ PromoteTick
      \/ AuthorityTick(Successor) \/ FollowerTick(Successor)
      \/ AuthorityTick(Holder) \/ FollowerTick(Holder)
  BY PermitChange DEF Tick
<1> QED
  BY <1>2, <1>3, <1>4, <1>5, <1>6

LEMMA HandoverStep == Prompt /\ TypeOK /\ HandoverInv /\ [Next]_vars => HandoverInv'
<1> SUFFICES ASSUME Prompt, TypeOK, HandoverInv, [Next]_vars
             PROVE  HandoverInv'
  OBVIOUS
<1> USE Constants
<1>1. \A p \in Peers : p \notin sees'[p]
  BY SMTT(30), NobodySeesItself DEF HandoverInv
<1>2. ASSUME NEW q \in Peers, generation'[q] = 1
      PROVE  AckWithinWindow(q)'
  BY SMTT(30), <1>2, AckWithinWindowStep DEF HandoverInv
<1>3. Holder \notin asked'
  BY AskedStep DEF HandoverInv
<1>4. ASSUME NEW q \in votes' PROVE Released(q)'
  <2>1. q \in Peers /\ Released(q)
    <3>1. CASE q \in votes
      BY SMTT(30), <3>1 DEF HandoverInv, TypeOK
    <3>2. CASE q \notin votes
      <4>1. q \in Peers /\ q # Holder /\ HolderLost(q)
        BY <1>4, <3>2, VoteStep DEF HandoverInv
      <4> QED
        BY <4>1, LostIsReleased DEF HandoverInv, Prompt
    <3> QED
      BY <3>1, <3>2
  <2> QED
    BY <2>1, ReleasedStable DEF Prompt
<1>5. ASSUME generation'[Successor] = 1
      PROVE  announced' = {} /\ \A q \in Peers : generation'[q] = 1
  BY <1>5, PromotionStep DEF HandoverInv
<1>6. ASSUME generation'[Successor] = 1, file'[Holder], Holder \in ticked'
      PROVE  has_quorum(N, Cardinality(Waiting'))
  BY <1>6, WaitingStep DEF Prompt
<1>7. ASSUME generation'[Successor] = 2
      PROVE  has_quorum(N, Cardinality(Away'))
  BY <1>7, AwayStep
<1>8. ASSUME generation'[Successor] = 2, file'[Holder]
      PROVE  Holder \notin ticked' /\ Successor \in ticked' /\ ~file'[Successor]
  BY <1>8, LastPermitStep
<1>9. file'[Successor] => generation'[Successor] = 2
  BY SuccessorPermitStep
<1> QED
  BY <1>1, <1>2, <1>3, <1>4, <1>5, <1>6, <1>7, <1>8, <1>9 DEF HandoverInv, Away, N

(* The invariant of the hand-over, for any members and any timers with     *)
(* answers no slower than RECOVERY_SETTLE_DELAY, while no link returns.    *)
THEOREM HandoverInvCorrect ==
    ASSUME Prompt
    PROVE  Spec => []HandoverInv
<1>1. Init => HandoverInv
  BY SMTT(30), Constants DEF Init, HandoverInv, AckWithinWindow, NoLease
<1>2. TypeOK /\ HandoverInv /\ [Next]_vars => HandoverInv'
  BY HandoverStep
<1> QED
  BY <1>1, <1>2, LeaseTypeCorrect, PTL DEF Spec

(* No two generations hold authority.permit at once, for any members and   *)
(* any timers, while no link returns and lease answers take at most        *)
(* RECOVERY_SETTLE_DELAY.                                                  *)
THEOREM OnePermitCorrect ==
    ASSUME Prompt
    PROVE  Spec => []OnePermit
<1>1. HandoverInv => OnePermit
  BY DEF HandoverInv, OnePermit
<1> QED
  BY <1>1, HandoverInvCorrect, PTL
-----------------------------------------------------------------------------
(* One living server at a time                                             *)

(* The guard outlasts its last heartbeat by less than the Successor needs  *)
(* from there to its first living server: the settle delay less the travel *)
(* of an answer, then one tick each for the vote, the promotion, asking    *)
(* for leases, two permits and the heartbeat its guard sees.               *)
Timely == PermitTimeout + MaxDelay < SettleDelay + 6

LEMMA GameTypes ==
    ASSUME TypeOK, NEW p \in Authorities
    PROVE  /\ game[p].left \in Nat /\ beats[p] \in 0..2 /\ game \in [Authorities -> Game]
           /\ game[p] \in Game
<1>1. game \in [Authorities -> Game]
  BY DEF TypeOK, Game
<1> QED
  BY SMTT(30), <1>1, Constants DEF TypeOK, Game

(* A second makes the last heartbeat older, unless the guard stopped.      *)
LEMMA BeyondSecond ==
    ASSUME TypeOK, Second, NEW k \in Nat, Beyond(k)
    PROVE  Beyond(k + 1)'
<1> USE Constants
<1>1. game'[Holder].stage = game[Holder].stage /\ game'[Holder].left = Less(game[Holder].left)
  BY DEF Second
<1>2. game[Holder].stage = "live" => game[Holder].left # 0
  BY DEF Second, Expired
<1> QED
  BY SMTT(30), <1>1, <1>2, GameTypes DEF Beyond, Less

(* The Holder's server becomes live or stays so only by a renewed permit.  *)
LEMMA HolderGameStep ==
    ASSUME TypeOK, Next, ~Second
    PROVE  \/ game'[Holder] = game[Holder]
           \/ game'[Holder].stage # "live"
           \/ AuthorityTick(Holder) /\ file'[Holder] /\ game'[Holder].left = PermitTimeout
<1> USE Constants, GameTypes
<1> DEFINE Goal == \/ game'[Holder] = game[Holder]
                   \/ game'[Holder].stage # "live"
                   \/ AuthorityTick(Holder) /\ file'[Holder] /\ game'[Holder].left = PermitTimeout
<1>1. CASE AuthorityTick(Holder)
  <2>1. CASE clear_permit(Holder)
    BY <2>1 DEF clear_permit
  <2>2. CASE refresh_permit(Holder)
    <3>1. file'[Holder] /\ game'[Holder] = Observed(game[Holder])
      BY <2>2 DEF refresh_permit, TypeOK
    <3> QED
      BY SMTT(30), <1>1, <3>1 DEF Observed
  <2> QED
    BY <1>1, <2>1, <2>2 DEF AuthorityTick
<1>2. CASE AuthorityTick(Successor)
  BY <1>2 DEF AuthorityTick, refresh_permit, clear_permit
<1>3. ASSUME NEW p \in Authorities, FollowerTick(p)
      PROVE  game' = game
  BY <1>3 DEF FollowerTick, clear_permit
<1>4. ASSUME NEW p \in Authorities, Guard(p)
      PROVE  game'[Holder] = game[Holder] \/ game'[Holder].stage # "live"
  <2>1. CASE Launch(p)
    BY <2>1 DEF Launch
  <2>2. CASE serverStarted(p)
    BY <2>2 DEF serverStarted
  <2>3. CASE GameStops(p)
    BY <2>3 DEF GameStops, NoGame
  <2> QED
    BY <1>4, <2>1, <2>2, <2>3 DEF Guard
<1>5. CASE BallotTick \/ PromoteTick
  BY <1>5 DEF BallotTick, PromoteTick
<1>6. ASSUME NEW p \in Authorities, NEW q \in Peers,
             LeaseGrant(p, q) \/ LeaseAccepted(p, q) \/ LeaseFails(p, q)
      PROVE  game' = game
  BY <1>6 DEF LeaseGrant, LeaseAccepted, LeaseFails
<1>7. ASSUME NEW q \in Peers, Answer(q)
      PROVE  game' = game
  BY <1>7 DEF Answer, RecoveryBallot, RecoveryEpoch, RequestFails
<1>8. ASSUME NEW p \in Peers, NEW q \in Peers, Disconnected(p, q) \/ Authenticated(p, q)
      PROVE  game' = game
  BY <1>8 DEF Disconnected, Authenticated
<1> QED
  BY <1>1, <1>2, <1>3, <1>4, <1>5, <1>6, <1>7, <1>8 DEF Next, Guard, Answer

(* Once the Successor is promoted, the Holder's heartbeat only gets older. *)
LEMMA BeyondStep ==
    ASSUME TypeOK, HandoverInv, Next, ~Second, generation'[Successor] = 2,
           NEW k \in Nat, Beyond(k)
    PROVE  Beyond(k)'
<1>1. ~(AuthorityTick(Holder) /\ file'[Holder])
  <2>1. AuthorityTick(Holder) => Holder \in ticked'
    BY DEF AuthorityTick
  <2> QED
    BY <2>1, LastPermitStep
<1> QED
  BY <1>1, HolderGameStep DEF Beyond

LEMMA ReprieveType ==
    ASSUME Prompt
    PROVE  Reprieve \in Nat /\ Reprieve > 0
  BY SMTT(30), Constants DEF Prompt, Reprieve

(* Daemons tick once in a second.                                          *)
LEMMA TickedStep ==
    ASSUME Next, ~Second, Successor \notin ticked'
    PROVE  Successor \notin ticked
<1>1. ASSUME NEW p \in Authorities, Tick(p)
      PROVE  ticked \subseteq ticked'
  BY <1>1 DEF Tick, AuthorityTick, FollowerTick
<1>2. CASE BallotTick \/ PromoteTick
  BY <1>2 DEF BallotTick, PromoteTick
<1> QED
  BY <1>1, <1>2, PermitChange

(* What the Successor's start has taken stays taken.                       *)
LEMMA DueStep ==
    ASSUME TypeOK, HandoverInv, Prompt, [Next]_vars, NEW k \in Nat, Due(k)
    PROVE  Due(k)'
<1> USE Constants, ReprieveType
<1>1. generation'[Successor] = 2
  <2>1. generation' = generation \/ \E r \in Peers : generation' = [generation EXCEPT ![r] = 2]
    BY GenerationSet
  <2> QED
    BY SMTT(30), <2>1 DEF Due, TypeOK
<1>2. Reprieve + k \in Nat /\ Reprieve + k + 1 \in Nat
  BY SMTT(30)
<1>3. CASE Second
  <2>1. Beyond(Reprieve + k + 1)'
    BY <1>2, <1>3, BeyondSecond DEF Due
  <2>2. Beyond(Reprieve + k)'
    <3>1. game'[Holder].left \in Nat
      <4>1. TypeOK'
        BY TypeNext
      <4> QED
        BY SMTT(30), <4>1 DEF TypeOK
    <3> QED
      BY SMTT(30), <2>1, <3>1 DEF Beyond, Reprieve
  <2> QED
    BY <1>1, <2>1, <2>2 DEF Due, Reprieve
<1>4. CASE UNCHANGED vars
  BY <1>4 DEF vars, Due, Beyond, Reprieve
<1>5. CASE Next /\ ~Second
  <2>1. Beyond(Reprieve + k)'
    BY <1>1, <1>2, <1>5, BeyondStep DEF Due
  <2>2. ASSUME Successor \notin ticked'
        PROVE  Beyond(Reprieve + k + 1)'
    <3>1. Beyond(Reprieve + k + 1)
      BY <1>5, <2>2, TickedStep DEF Due
    <3> QED
      BY <1>1, <1>2, <1>5, <3>1, BeyondStep
  <2> QED
    BY <1>1, <2>1, <2>2 DEF Due, Reprieve
<1> QED
  BY <1>3, <1>4, <1>5

(* A tick of the Successor takes it one stage further.                     *)
LEMMA DueTick ==
    ASSUME TypeOK, HandoverInv, Prompt, AuthorityTick(Successor), NEW k \in Nat, Due(k)
    PROVE  Due(k + 1)'
<1> USE Constants, ReprieveType
<1>1. Next /\ ~Second
  BY DEF Next, AuthorityTick, Second
<1>2. Beyond(Reprieve + k + 1) /\ generation'[Successor] = 2 /\ Successor \in ticked'
  BY DEF AuthorityTick, Due
<1>3. Reprieve + k + 1 \in Nat
  BY SMTT(30)
<1>4. Beyond(Reprieve + k + 1)'
  BY <1>1, <1>2, <1>3, BeyondStep
<1>5. Reprieve + (k + 1) = Reprieve + k + 1
  BY SMTT(30)
<1> QED
  BY <1>2, <1>4, <1>5 DEF Due, Reprieve

(* Ballots are asked for and answered in the second of the Successor's     *)
(* tick.                                                                   *)
LEMMA AskedInTick ==
    ASSUME TypeOK, [Next]_vars, asked # {} => Successor \in ticked, asked' # {}
    PROVE  Successor \in ticked'
<1>1. CASE Second
  BY <1>1 DEF Second
<1>2. CASE BallotTick
  BY <1>2 DEF BallotTick
<1>3. CASE Next /\ ~Second /\ ~BallotTick
  <2>1. ASSUME NEW q \in Peers, Answer(q)
        PROVE  asked' \subseteq asked
    BY <2>1 DEF Answer, RecoveryBallot, RecoveryEpoch, RequestFails
  <2>2. ASSUME NEW p \in Peers, NEW q \in Peers, Disconnected(p, q)
        PROVE  asked' \subseteq asked
    BY <2>2 DEF Disconnected
  <2>3. asked' \subseteq asked
    BY <1>3, <2>1, <2>2, VotesChange, PromoteFrame
  <2> QED
    BY <1>3, <2>3, TickedStep
<1>4. CASE UNCHANGED vars
  BY <1>4 DEF vars
<1> QED
  BY <1>1, <1>2, <1>3, <1>4

(* A vote is given in the second of the Successor's tick.                  *)
LEMMA VoteInTick ==
    ASSUME TypeOK, [Next]_vars, asked # {} => Successor \in ticked,
           NEW q \in votes', q \notin votes
    PROVE  Successor \in ticked'
<1>1. CASE BallotTick
  BY <1>1 DEF BallotTick
<1>2. CASE PromoteTick
  BY <1>2 DEF PromoteTick
<1>3. ASSUME NEW r \in Peers, RecoveryBallot(r)
      PROVE  Successor \in ticked'
  BY <1>3 DEF RecoveryBallot
<1>4. ASSUME NEW r \in Peers, RecoveryEpoch(r) \/ RequestFails(r)
      PROVE  votes' \subseteq votes
  BY <1>4 DEF RecoveryEpoch, RequestFails
<1>5. ASSUME NEW p \in Peers, NEW r \in Peers, Disconnected(p, r)
      PROVE  votes' \subseteq votes
  BY <1>5 DEF Disconnected
<1> QED
  BY <1>1, <1>2, <1>3, <1>4, <1>5, VotesChange DEF Answer

(* The heartbeat the Holder wrote last keeps a majority from voting, or    *)
(* from being counted.                                                     *)
LEMMA ShieldStep ==
    ASSUME TypeOK, HandoverInv, LiveInv, Prompt, [Next]_vars,
           generation'[Successor] = 1, ~Beyond(Reprieve + 1)'
    PROVE  has_quorum(N, Cardinality(Shielded'))
<1> USE Constants, ReprieveType, GameTypes, AckTypes
<1>0. Shielded' \in SUBSET Peers /\ Shielded \in SUBSET Peers /\ Heard \in SUBSET Peers
  BY SMTT(30) DEF Shielded, Heard
<1>1. generation[Successor] = 1
  <2>1. generation' = generation \/ \E r \in Peers : generation' = [generation EXCEPT ![r] = 2]
    BY GenerationSet
  <2> QED
    BY SMTT(30), <2>1 DEF TypeOK
<1>2. CASE Second
  <2>1. /\ game[Holder].stage = "live" /\ game[Holder].left # 0
        /\ game'[Holder].left = game[Holder].left - 1
    BY <1>2 DEF Second, Beyond, Less, Expired
  <2>2. ~Beyond(Reprieve + 1) /\ ~Beyond(Reprieve)
    BY SMTT(30), <1>2, <2>1, BeyondSecond DEF Beyond, Reprieve
  <2>3. Shielded \subseteq Shielded'
    <3> SUFFICES ASSUME NEW q \in Shielded PROVE q \in Shielded'
      OBVIOUS
    <3>1. q \in Peers /\ window'[q] = Less(window[q]) /\ votes' = votes
      BY <1>2 DEF Second, Shielded
    <3>2. window[q] \in Nat
      BY SMTT(30), <3>1
    <3>3. q = Holder \/ (/\ q \notin votes
                        /\ window[q] + PermitTimeout >= Reprieve + game[Holder].left)
      BY <2>2 DEF Shielded
    <3> QED
      BY SMTT(30), <2>1, <3>1, <3>2, <3>3 DEF Shielded, Less, Reprieve
  <2> QED
    BY <1>0, <1>1, <2>2, <2>3, LargerMajority DEF LiveInv, N
<1>3. CASE UNCHANGED vars
  <2>1. Shielded' = Shielded /\ ~Beyond(Reprieve + 1)
    BY <1>3 DEF vars, Shielded, Beyond, Reprieve
  <2> QED
    BY <1>1, <2>1 DEF LiveInv, N
<1>4. CASE AuthorityTick(Holder) /\ file'[Holder] /\ game'[Holder].left = PermitTimeout
  <2>1. has_quorum(N, Cardinality(Heard))
    BY SMTT(30), <1>4, RenewalNeedsMajority DEF HandoverInv
  <2>2. UNCHANGED <<generation, window, votes>>
    BY <1>4 DEF AuthorityTick
  <2>3. ASSUME NEW q \in Heard, q # Holder
        PROVE  q \in Shielded'
    <3>1. q \in Peers /\ fresh[Holder][q] > 0
      BY <2>3 DEF Heard
    <3>2. AckWithinWindow(q)
      BY <1>1, <3>1 DEF HandoverInv
    <3>3. window[q] >= Reprieve
      BY SMTT(30), <3>1, <3>2 DEF AckWithinWindow, Reprieve
    <3>4. q \notin votes
      BY SMTT(30), <3>1 DEF HandoverInv, Released
    <3> QED
      BY SMTT(30), <1>4, <2>2, <3>1, <3>3, <3>4 DEF Shielded, Reprieve
  <2>4. Heard \subseteq Shielded'
    BY <2>3 DEF Shielded
  <2> QED
    BY <1>0, <2>1, <2>4, LargerMajority DEF N
<1>5. CASE Next /\ ~Second /\ game'[Holder] = game[Holder]
  <2>1. ~Beyond(Reprieve + 1) /\ (Beyond(Reprieve)' <=> Beyond(Reprieve))
    BY <1>5 DEF Beyond, Reprieve
  <2>2. ASSUME NEW q \in Shielded, q # Holder
        PROVE  q \in Shielded'
    <3>1. /\ q \in Peers
          /\ q \in votes => Beyond(Reprieve) /\ Successor \in ticked
          /\ window[q] + PermitTimeout >= Reprieve + game[Holder].left
      BY <2>2 DEF Shielded
    <3>2. window'[q] >= window[q] /\ window'[q] \in Nat
      BY SMTT(30), <1>5, <3>1, WindowStep
    <3>3. ASSUME q \in votes' PROVE Beyond(Reprieve) /\ Successor \in ticked'
      <4>1. CASE q \in votes
        BY <1>5, <3>1, <4>1, TickedStep
      <4>2. CASE q \notin votes
        <5>1. Successor \in ticked'
          BY <3>3, <4>2, VoteInTick DEF LiveInv
        <5>2. window[q] = 0
          BY <3>3, <4>2, VoteStep DEF HandoverInv, HolderLost
        <5> QED
          BY SMTT(30), <3>1, <5>1, <5>2 DEF Beyond
      <4> QED
        BY <4>1, <4>2
    <3>4. window'[q] + PermitTimeout >= Reprieve + game'[Holder].left
      BY SMTT(30), <1>5, <3>1, <3>2
    <3> QED
      BY <2>1, <3>1, <3>3, <3>4 DEF Shielded, Reprieve
  <2>3. Shielded \subseteq Shielded'
    BY <2>2 DEF Shielded
  <2> QED
    BY <1>0, <1>1, <2>1, <2>3, LargerMajority DEF LiveInv, N
<1> QED
  BY <1>2, <1>3, <1>4, <1>5, HolderGameStep DEF Beyond

(* The promotion comes only after the majority of the last heartbeat.      *)
LEMMA PromotedBeyond ==
    ASSUME TypeOK, HandoverInv, LiveInv, Prompt, [Next]_vars,
           generation[Successor] = 1, generation'[Successor] = 2
    PROVE  Due(1)'
<1> USE Constants, ReprieveType
<1>1. PromoteTick
  BY OnlyPromotion
<1>2. /\ has_quorum(N, Cardinality(votes)) /\ votes \in SUBSET Peers
      /\ Successor \notin ticked
  BY <1>1 DEF PromoteTick, TypeOK
<1>3. ASSUME ~Beyond(Reprieve + 1) PROVE FALSE
  <2>1. has_quorum(N, Cardinality(Shielded)) /\ Shielded \in SUBSET Peers
    BY <1>3 DEF LiveInv, Shielded
  <2>2. PICK q \in Peers : q \in votes /\ q \in Shielded
    BY <1>2, <2>1, MajoritiesMeet DEF N
  <2> QED
    BY <1>2, <2>2 DEF Shielded, HandoverInv, Released
<1>4. game' = game /\ Successor \in ticked'
  BY <1>1 DEF PromoteTick
<1>5. Beyond(Reprieve + 1)'
  BY <1>3, <1>4 DEF Beyond, Reprieve
<1> QED
  BY <1>4, <1>5 DEF Due, Reprieve

(* The Successor asks for leases and counts their answers only from its    *)
(* first tick as the authority.                                            *)
LEMMA CountsStep ==
    ASSUME TypeOK, [Next]_vars, NEW q \in Peers, Counts(q)'
    PROVE  Counts(q) \/ AuthorityTick(Successor)
<1> USE Constants
<1>0. /\ lease \in [Authorities -> [Peers -> Lease]]
      /\ fresh \in [Authorities -> [Peers -> 0..LeaseDuration]]
  BY DEF TypeOK, Lease
<1>1. CASE Second
  BY SMTT(30), <1>0, <1>1 DEF Second, Counts, Less
<1>2. CASE UNCHANGED <<lease, fresh>>
  BY <1>2 DEF Counts
<1>3. CASE PromoteTick
  BY SMTT(30), <1>0, <1>3 DEF PromoteTick, Counts
<1>4. CASE AuthorityTick(Holder)
  <2>1. lease'[Successor] = lease[Successor] /\ fresh' = fresh
    BY <1>0, <1>4 DEF AuthorityTick
  <2> QED
    BY <2>1 DEF Counts
<1>5. ASSUME NEW p \in Authorities, NEW r \in Peers, LeaseGrant(p, r)
      PROVE  Counts(q)
  BY <1>0, <1>5 DEF LeaseGrant, Counts
<1>6. ASSUME NEW p \in Authorities, NEW r \in Peers, LeaseAccepted(p, r)
      PROVE  Counts(q)
  BY <1>0, <1>6 DEF LeaseAccepted, Counts, NoLease
<1>7. ASSUME NEW p \in Authorities, NEW r \in Peers, LeaseFails(p, r)
      PROVE  Counts(q)
  BY <1>0, <1>7 DEF LeaseFails, Counts, NoLease
<1>8. ASSUME NEW p \in Peers, NEW r \in Peers, Disconnected(p, r)
      PROVE  Counts(q)
  BY SMTT(30), <1>0, <1>8 DEF Disconnected, Counts, NoLease
<1>9. \/ UNCHANGED <<lease, fresh>> \/ Second \/ PromoteTick
      \/ AuthorityTick(Holder) \/ AuthorityTick(Successor)
      \/ \E p \in Authorities, r \in Peers :
            LeaseGrant(p, r) \/ LeaseAccepted(p, r) \/ LeaseFails(p, r)
      \/ \E p, r \in Peers : Disconnected(p, r)
  BY AckChange
<1> QED
  BY <1>1, <1>2, <1>3, <1>4, <1>5, <1>6, <1>7, <1>8, <1>9

(* A permit of the Successor needs an answer it counts.                    *)
LEMMA RenewalCounts ==
    ASSUME TypeOK, Majority(FreshAcks(Successor))
    PROVE  \E q \in Peers : Counts(q)
<1> USE Constants
<1>1. SUFFICES ASSUME FreshAcks(Successor) = {} PROVE FALSE
  BY <1>1 DEF FreshAcks, Counts, TypeOK
<1>2. Cardinality({}) = 0
  BY FS_EmptySet
<1>3. N \in Nat /\ N >= 2
  <2>1. Cardinality({Holder, Successor}) = 2
    <3>1. Cardinality({Holder}) = 1 /\ IsFiniteSet({Holder})
      BY FS_Singleton
    <3>2. {Holder, Successor} = {Holder} \cup {Successor}
      OBVIOUS
    <3> QED
      BY SMTT(30), <3>1, <3>2, FS_AddElement
  <2>2. {Holder, Successor} \subseteq Peers
    OBVIOUS
  <2> QED
    BY SMTT(30), <2>1, <2>2, FS_Subset, FS_CardinalityType DEF N
<1> QED
  BY SMTT(30), <1>1, <1>2, <1>3 DEF Majority, has_quorum, quorum_size

(* What the steps do to the Successor's permit and server.                 *)
LEMMA StartStep ==
    ASSUME TypeOK, [Next]_vars
    PROVE  \/ /\ beats'[Successor] = beats[Successor]
              /\ game'[Successor].stage = game[Successor].stage
           \/ beats'[Successor] = 0 /\ game'[Successor].stage \in {"off", game[Successor].stage}
           \/ /\ beats[Successor] = 2 /\ beats'[Successor] = 2
              /\ game'[Successor].stage # "live"
           \/ /\ beats'[Successor] = beats[Successor] /\ game[Successor].stage # "off"
              /\ game'[Successor].stage # "live"
           \/ /\ AuthorityTick(Successor) /\ Majority(FreshAcks(Successor))
              /\ beats'[Successor] = (IF beats[Successor] = 2 THEN 2 ELSE beats[Successor] + 1)
              /\ game[Successor].stage = "off" <=> game'[Successor].stage = "off"
<1> USE Constants, GameTypes
<1> DEFINE Still == /\ beats'[Successor] = beats[Successor]
                    /\ game'[Successor].stage = game[Successor].stage
<1>1. CASE Second
  BY <1>1 DEF Second
<1>2. CASE UNCHANGED <<beats, game>>
  BY <1>2
<1>3. CASE PromoteTick
  BY <1>3 DEF PromoteTick, TypeOK
<1>4. CASE AuthorityTick(Holder)
  <2>1. Still
    BY <1>4 DEF AuthorityTick, refresh_permit, clear_permit, TypeOK
  <2> QED
    BY <2>1
<1>5. CASE AuthorityTick(Successor)
  <2>1. CASE clear_permit(Successor)
    BY <2>1 DEF clear_permit
  <2>2. CASE Majority(FreshAcks(Successor)) /\ refresh_permit(Successor)
    <3>1. beats'[Successor] = IF beats[Successor] = 2 THEN 2 ELSE beats[Successor] + 1
      BY <2>2 DEF refresh_permit, TypeOK
    <3>2. game'[Successor] = Observed(game[Successor])
      BY <2>2 DEF refresh_permit
    <3>3. game[Successor].stage = "off" <=> game'[Successor].stage = "off"
      BY SMTT(30), <3>2 DEF Observed
    <3> QED
      BY <1>5, <2>2, <3>1, <3>3
  <2> QED
    BY <1>5, <2>1, <2>2 DEF AuthorityTick
<1>6. ASSUME NEW p \in Authorities, FollowerTick(p)
      PROVE  UNCHANGED <<beats, game>>
  BY <1>6 DEF FollowerTick, clear_permit
<1>7. CASE Guard(Holder)
  <2>1. CASE Launch(Holder) \/ serverStarted(Holder)
    BY <2>1 DEF Launch, serverStarted
  <2>2. CASE GameStops(Holder)
    BY <2>2 DEF GameStops, TypeOK
  <2> QED
    BY <1>7, <2>1, <2>2 DEF Guard
<1>8. CASE Guard(Successor)
  <2>1. CASE Launch(Successor)
    BY <2>1 DEF Launch
  <2>2. CASE serverStarted(Successor)
    BY <2>2 DEF serverStarted
  <2>3. CASE GameStops(Successor)
    BY <2>3 DEF GameStops, NoGame, TypeOK
  <2> QED
    BY <1>8, <2>1, <2>2, <2>3 DEF Guard
<1>9. ASSUME NEW p \in Authorities, NEW q \in Peers,
             LeaseGrant(p, q) \/ LeaseAccepted(p, q) \/ LeaseFails(p, q)
      PROVE  UNCHANGED <<beats, game>>
  BY <1>9 DEF LeaseGrant, LeaseAccepted, LeaseFails
<1>10. ASSUME NEW q \in Peers, Answer(q)
       PROVE  UNCHANGED <<beats, game>>
  BY <1>10 DEF Answer, RecoveryBallot, RecoveryEpoch, RequestFails
<1>11. ASSUME NEW p \in Peers, NEW q \in Peers, Disconnected(p, q) \/ Authenticated(p, q)
       PROVE  UNCHANGED <<beats, game>>
  BY <1>11 DEF Disconnected, Authenticated
<1>12. CASE BallotTick \/ UNCHANGED vars
  BY <1>2, <1>12 DEF BallotTick, vars
<1> QED
  BY <1>1, <1>2, <1>3, <1>4, <1>5, <1>6, <1>7, <1>8, <1>9, <1>10, <1>11, <1>12, Kinds
     DEF Tick

LEMMA LiveStep ==
    ASSUME Prompt, TypeOK, HandoverInv, LiveInv, [Next]_vars
    PROVE  LiveInv'
<1> USE Constants, GameTypes
<1>0. {1, 2, 3, 4, 5} \subseteq Nat
  BY SMTT(30)
<1>k. ASSUME NEW k \in {1, 2, 3, 4, 5}, Due(k) PROVE Due(k)'
  BY <1>0, <1>k, DueStep
<1>n. ASSUME NEW k \in {1, 2, 3, 4}, Due(k), AuthorityTick(Successor) PROVE Due(k + 1)'
  BY <1>0, <1>n, DueTick
<1>1. asked' # {} => Successor \in ticked'
  BY AskedInTick DEF LiveInv
<1>2. generation'[Successor] = 1 /\ ~Beyond(Reprieve + 1)' => has_quorum(N, Cardinality(Shielded'))
  BY ShieldStep
<1>3. ASSUME generation'[Successor] = 2 PROVE Due(1)'
  <2>1. CASE generation[Successor] = 2
    BY <1>k, <2>1 DEF LiveInv
  <2>2. CASE generation[Successor] = 1
    BY <1>3, <2>2, PromotedBeyond
  <2> QED
    BY SMTT(30), <2>1, <2>2 DEF TypeOK
<1>4. ASSUME NEW q \in Peers, Counts(q)' PROVE Due(2)'
  <2>1. CASE Counts(q)
    BY <1>k, <2>1 DEF LiveInv
  <2>2. CASE AuthorityTick(Successor)
    <3>1. Due(1)
      BY <2>2 DEF LiveInv, AuthorityTick, IsAuthority, GenerationOf
    <3>2. Due(1 + 1)'
      BY <1>n, <2>2, <3>1
    <3> QED
      BY SMTT(30), <3>2
  <2> QED
    BY <1>4, <2>1, <2>2, CountsStep
<1>5. ASSUME beats'[Successor] > 0, beats[Successor] = 0 PROVE Due(3)'
  <2>1. AuthorityTick(Successor) /\ Majority(FreshAcks(Successor))
    BY SMTT(30), <1>5, StartStep
  <2>2. Due(2)
    BY <2>1, RenewalCounts DEF LiveInv
  <2>3. Due(2 + 1)'
    BY <1>n, <2>1, <2>2
  <2> QED
    BY SMTT(30), <2>3
<1>6. beats'[Successor] > 0 => Due(3)'
  BY SMTT(30), <1>k, <1>5 DEF LiveInv
<1>7. ASSUME beats'[Successor] = 2 \/ game'[Successor].stage # "off" PROVE Due(4)'
  <2>1. CASE beats[Successor] = 2 \/ game[Successor].stage # "off"
    BY <1>k, <2>1 DEF LiveInv
  <2>2. CASE beats[Successor] # 2 /\ game[Successor].stage = "off"
    <3>1. AuthorityTick(Successor) /\ beats[Successor] = 1
      BY SMTT(30), <1>7, <2>2, StartStep
    <3>2. Due(3)
      BY SMTT(30), <3>1 DEF LiveInv
    <3>3. Due(3 + 1)'
      BY <1>n, <3>1, <3>2
    <3> QED
      BY SMTT(30), <3>3
  <2> QED
    BY <2>1, <2>2
<1>8. ASSUME game'[Successor].stage = "live" PROVE Due(5)'
  <2>1. CASE game[Successor].stage = "live"
    BY <1>k, <2>1 DEF LiveInv
  <2>2. CASE game[Successor].stage # "live"
    <3>1. AuthorityTick(Successor) /\ game[Successor].stage # "off"
      BY <1>8, <2>2, StartStep
    <3>2. Due(4)
      BY <3>1 DEF LiveInv
    <3>3. Due(4 + 1)'
      BY <1>n, <3>1, <3>2
    <3> QED
      BY SMTT(30), <3>3
  <2> QED
    BY <2>1, <2>2
<1> QED
  BY <1>1, <1>2, <1>3, <1>4, <1>6, <1>7, <1>8 DEF LiveInv, N, Reprieve

(* The invariant of the two servers, for any members and timers with       *)
(* answers no slower than RECOVERY_SETTLE_DELAY, while no link returns.    *)
THEOREM LiveInvCorrect ==
    ASSUME Prompt
    PROVE  Spec => []LiveInv
<1>1. Init => LiveInv
  BY SMTT(30), Constants DEF Init, LiveInv, Beyond, Counts, NoLease, NoGame
<1>2. TypeOK /\ HandoverInv /\ LiveInv /\ [Next]_vars => LiveInv'
  BY LiveStep
<1> QED
  BY <1>1, <1>2, LeaseTypeCorrect, HandoverInvCorrect, PTL DEF Spec

(* Two servers whose guards have seen a living heartbeat never run         *)
(* together when PERMIT_TIMEOUT and the travel of an answer stay below     *)
(* RECOVERY_SETTLE_DELAY and the six ticks from the last heartbeat to the  *)
(* successor's first.                                                      *)
THEOREM OneLiveSimulationCorrect ==
    ASSUME Prompt, Timely
    PROVE  Spec => []OneLiveSimulation
<1>1. TypeOK /\ LiveInv => OneLiveSimulation
  BY SMTT(30), Constants, GameTypes DEF LiveInv, Due, Beyond, Reprieve, OneLiveSimulation, Timely
<1> QED
  BY <1>1, LiveInvCorrect, LeaseTypeCorrect, PTL
=============================================================================
