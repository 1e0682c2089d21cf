-------------------------- MODULE MembershipProofs --------------------------
(***************************************************************************)
(* A voter set is activated behind majorities of the old and of the new    *)
(* voters, for any peers, any number of changes, recoveries, lost messages *)
(* and daemons that stop between two writes of a commit.                   *)
(***************************************************************************)
EXTENDS MembershipConsensus, FiniteSetTheorems, TLAPS

(* A step that does not name the SMT solver is left to Zenon. *)
USE ZenonT(20)

-----------------------------------------------------------------------------
(* The inductive invariant                                                 *)

(* A record closes its history, so it is never empty. *)
RecordsOf == {r \in Seq(Revisions) : r # <<>>}
Certificates == [record : RecordsOf, votes : SUBSET Peers]

(* The types of the files and of the votes counted in memory. *)
StateTyped ==
    /\ record \in [Peers -> RecordsOf \cup {None}]
    /\ promise \in [Peers -> RecordsOf \cup {None}]
    /\ descriptor \in [Peers -> SUBSET Peers]
    /\ latest \in [Peers -> Certificates \cup {None}]
    /\ pendingJoin \in [Peers -> BOOLEAN]
    /\ pendingLeave \in [Peers -> RecordsOf \cup {None}]
    /\ votes \in [Peers -> SUBSET Peers]
    /\ accepted \in [Peers -> [number : Nat, authority : Peers] \cup {None}]

(* A message names peers and carries records; an epoch comes from a peer   *)
(* that has a record to send after it.                                     *)
MessageTyped(m) ==
    /\ m.from \in Peers /\ m.to \in Peers
    /\ m.type \in {"proposal", "vote", "commit", "membership"} => m.record \in RecordsOf
    /\ m.type = "commit" => m.votes \subseteq Peers
    /\ m.type = "leave" => m.hash \in RecordsOf
    /\ m.type = "epoch" => record[m.from] # None

(* Nobody asks itself: a proposal comes from the authority of its record   *)
(* and goes to another peer, as do the requests that lead to it.           *)
MessageAsksOthers(m) ==
    /\ m.type = "leave" => Authority(m.hash) # m.from
    /\ m.type = "join" => m.from # Founder
    /\ m.type = "proposal" => Authority(m.record) = m.from /\ m.to # m.from

StagedAsksOthers ==
    \A p \in Peers : /\ pendingLeave[p] # None => Authority(pendingLeave[p]) # p
                     /\ pendingJoin[p] => p # Founder

(* Every vote stands for a peer that prepared the record and has not let   *)
(* it go: in a message, in a certificate and in the proposer's memory.     *)
HeldBy(voters, r) == \A q \in voters : Holds(q, r)

MessageHeld(m) ==
    /\ m.type = "vote" => HeldBy({m.from}, m.record)
    /\ m.type = "commit" => HeldBy(m.votes, m.record)

CountHeld(a) == promise[a] # None /\ Authority(promise[a]) = a => HeldBy(votes[a], promise[a])
LatestHeld(p) == latest[p] # None => HeldBy(latest[p].votes, latest[p].record)

(* A record that changes the voters is held by both majorities. *)
Backing(r) ==
    Changed(r) => LET holders == {q \in Peers : Holds(q, r)}
                  IN  Majority(holders, Members(Front(r))) /\ Majority(holders, Members(r))

Activated(p) == record[p] # None => Backing(record[p])

MessageInv == \A m \in wire : MessageTyped(m) /\ MessageAsksOthers(m) /\ MessageHeld(m)

MembershipInv ==
    /\ StateTyped /\ MessageInv /\ StagedAsksOthers
    /\ \A p \in Peers : CountHeld(p) /\ LatestHeld(p) /\ Activated(p)

-----------------------------------------------------------------------------
(* Facts about records, their histories and majorities                     *)

(* The last revision of a record names a peer and a set of peers. *)
LEMMA RecordFields ==
    ASSUME NEW r \in RecordsOf
    PROVE  /\ Last(r) \in Revisions
           /\ Authority(r) \in Peers /\ Members(r) \subseteq Peers
           /\ Last(r).epoch \in Nat
<1>1. r \in Seq(Revisions) /\ Len(r) \in Nat /\ Len(r) >= 1
  BY SMTT(30) DEF RecordsOf
<1>2. Last(r) \in Revisions
  BY SMTT(30), <1>1 DEF Last
<1> QED
  BY <1>2 DEF Revisions, Authority, Members

(* A record after its first one is one revision longer than its front. *)
LEMMA FrontRecord ==
    ASSUME NEW r \in RecordsOf, Len(r) > 1
    PROVE  Front(r) \in RecordsOf
<1>1. r \in Seq(Revisions) /\ Len(r) \in Nat
  BY SMTT(30) DEF RecordsOf
<1>2. Front(r) \in Seq(Revisions) /\ Len(Front(r)) = Len(r) - 1
  BY SMTT(30), <1>1 DEF Front
<1> QED
  BY SMTT(30), <1>1, <1>2 DEF RecordsOf

(* Every record extends itself. *)
LEMMA PrefixSelf ==
    ASSUME NEW r \in RecordsOf
    PROVE  IsPrefix(r, r)
  BY SMTT(30) DEF IsPrefix, RecordsOf

(* A record extends its front. *)
LEMMA PrefixFront ==
    ASSUME NEW r \in RecordsOf, Front(r) \in RecordsOf
    PROVE  IsPrefix(Front(r), r)
<1>1. r \in Seq(Revisions) /\ Len(r) \in Nat
  BY SMTT(30) DEF RecordsOf
<1>2. Front(r) = SubSeq(r, 1, Len(r) - 1)
  BY DEF Front
<1> QED
  BY SMTT(30), <1>1, <1>2 DEF IsPrefix, RecordsOf

(* Extending is transitive. *)
LEMMA PrefixTrans ==
    ASSUME NEW r \in RecordsOf, NEW s \in RecordsOf, NEW t \in RecordsOf,
           IsPrefix(r, s), IsPrefix(s, t)
    PROVE  IsPrefix(r, t)
  BY SMTT(30) DEF IsPrefix, RecordsOf

(* A record with one more revision extends it, and has it as its front. *)
LEMMA AppendRecord ==
    ASSUME NEW r \in RecordsOf, NEW v \in Revisions
    PROVE  /\ Append(r, v) \in RecordsOf
           /\ Last(Append(r, v)) = v /\ Front(Append(r, v)) = r
           /\ IsPrefix(r, Append(r, v))
<1>1. r \in Seq(Revisions) /\ Len(r) \in Nat
  BY SMTT(30) DEF RecordsOf
<1>2. /\ Append(r, v) \in Seq(Revisions) /\ Len(Append(r, v)) = Len(r) + 1
      /\ Append(r, v)[Len(r) + 1] = v
      /\ \A i \in 1 .. Len(r) : Append(r, v)[i] = r[i]
  BY SMTT(30), <1>1
<1>3. Append(r, v) # <<>>
  BY SMTT(30), <1>1, <1>2
<1>4. SubSeq(Append(r, v), 1, Len(r)) = r
  BY SMTT(30), <1>1, <1>2
<1> QED
  BY SMTT(30), <1>1, <1>2, <1>3, <1>4 DEF RecordsOf, Last, Front, IsPrefix

(* More voters keep a majority. *)
LEMMA MajorityGrows ==
    ASSUME NEW A, NEW B, NEW V, A \subseteq B, IsFiniteSet(V), Majority(A, V)
    PROVE  Majority(B, V)
<1>1. A \cap V \subseteq B \cap V
  OBVIOUS
<1>2. IsFiniteSet(B \cap V) /\ B \cap V \subseteq V
  BY FS_Subset
<1>3. IsFiniteSet(A \cap V)
  BY FS_Subset
<1>4. Cardinality(A \cap V) <= Cardinality(B \cap V)
  BY <1>1, <1>2, FS_Subset
<1>5. /\ Cardinality(A \cap V) \in Nat /\ Cardinality(B \cap V) \in Nat
      /\ Cardinality(V) \in Nat
  BY <1>2, <1>3, FS_CardinalityType
<1> QED
  BY SMTT(30), <1>4, <1>5 DEF Majority

(* The steps of the protocol only extend records, and a prepare is let go  *)
(* only for a record that carries it.                                      *)
Grows ==
    \A q \in Peers :
        /\ record[q] # None => record'[q] # None /\ IsPrefix(record[q], record'[q])
        /\ promise[q] # None => \/ promise'[q] = promise[q]
                                \/ record'[q] # None /\ IsPrefix(promise[q], record'[q])

(* A peer that holds a record goes on holding it. *)
LEMMA HoldsKept ==
    ASSUME MembershipConstants, StateTyped, StateTyped', Grows,
           NEW q \in Peers, NEW r \in RecordsOf, Holds(q, r)
    PROVE  Holds(q, r)'
<1>1. r # None
  BY DEF MembershipConstants, RecordsOf
<1>2. CASE promise[q] = r
  BY <1>1, <1>2 DEF Grows, Holds
<1>3. CASE record[q] # None /\ IsPrefix(r, record[q])
  <2>1. record[q] \in RecordsOf /\ record'[q] \in RecordsOf
    BY <1>3 DEF StateTyped, Grows
  <2>2. IsPrefix(record[q], record'[q])
    BY <1>3 DEF Grows
  <2>3. IsPrefix(r, record'[q])
    BY <1>3, <2>1, <2>2, PrefixTrans
  <2> QED
    BY <1>3, <2>3 DEF Grows, Holds
<1> QED
  BY <1>2, <1>3 DEF Holds

(* So does a set of voters. *)
LEMMA HeldKept ==
    ASSUME MembershipConstants, StateTyped, StateTyped', Grows,
           NEW voters \in SUBSET Peers, NEW r \in RecordsOf, HeldBy(voters, r)
    PROVE  HeldBy(voters, r)'
<1>1. \A q \in voters : Holds(q, r)'
  <2> TAKE q \in voters
  <2>1. q \in Peers /\ Holds(q, r)
    BY DEF HeldBy
  <2> QED
    BY <2>1, HoldsKept
<1> QED
  BY <1>1 DEF HeldBy

(* And a change of the voters stays backed by both majorities. *)
LEMMA BackingKept ==
    ASSUME MembershipConstants, StateTyped, StateTyped', Grows,
           NEW r \in RecordsOf, Backing(r)
    PROVE  Backing(r)'
<1> DEFINE before == {q \in Peers : Holds(q, r)}
           after == {q \in Peers : Holds(q, r)'}
<1>1. before \subseteq after
  BY HoldsKept
<1>2. SUFFICES ASSUME Changed(r)
               PROVE  Majority(after, Members(Front(r))) /\ Majority(after, Members(r))
  BY DEF Backing
<1>3. Majority(before, Members(Front(r))) /\ Majority(before, Members(r))
  BY <1>2 DEF Backing
<1>4. Front(r) \in RecordsOf
  BY <1>2, FrontRecord DEF Changed
<1>5. IsFiniteSet(Members(Front(r))) /\ IsFiniteSet(Members(r))
  BY <1>4, RecordFields, FS_Subset DEF MembershipConstants
<1> HIDE DEF before, after
<1> QED
  BY <1>1, <1>3, <1>5, MajorityGrows

(* Certified voters back a record. *)
LEMMA CertificateBacks ==
    ASSUME MembershipConstants, NEW c \in Certificates, certificate_valid(c),
           HeldBy(c.votes, c.record)
    PROVE  Backing(c.record)
<1> DEFINE holders == {q \in Peers : Holds(q, c.record)}
<1>1. c.record \in RecordsOf /\ c.votes \subseteq Peers
  BY DEF Certificates
<1>2. c.votes \subseteq holders
  BY <1>1 DEF HeldBy
<1>3. SUFFICES ASSUME Changed(c.record)
               PROVE  /\ Majority(holders, Members(Front(c.record)))
                      /\ Majority(holders, Members(c.record))
  BY DEF Backing
<1>4. Front(c.record) \in RecordsOf
  BY <1>1, <1>3, FrontRecord DEF Changed
<1>5. IsFiniteSet(Members(Front(c.record))) /\ IsFiniteSet(Members(c.record))
  BY <1>1, <1>4, RecordFields, FS_Subset DEF MembershipConstants
<1>6. Majority(c.votes, Members(Front(c.record))) /\ Majority(c.votes, Members(c.record))
  BY DEF certificate_valid
<1> HIDE DEF holders
<1> QED
  BY <1>2, <1>5, <1>6, MajorityGrows

-----------------------------------------------------------------------------
(* What a step has to show: the messages it sends, the votes it counts,    *)
(* the certificate and the record it writes.                               *)

(* A step that extends records keeps everything it does not write. *)
LEMMA StepKeeps ==
    ASSUME MembershipConstants, MembershipInv, StateTyped', StagedAsksOthers', Grows,
           \A m \in wire' : \/ m \in wire
                            \/ MessageTyped(m)' /\ MessageAsksOthers(m) /\ MessageHeld(m)',
           \A p \in Peers : /\ CountHeld(p)' \/ (promise'[p] = promise[p] /\ votes'[p] = votes[p])
                            /\ LatestHeld(p)' \/ latest'[p] = latest[p]
                            /\ Activated(p)' \/ record'[p] = record[p]
    PROVE  MembershipInv'
<1> USE DEF MembershipInv
<1>1. MessageInv'
  <2> SUFFICES ASSUME NEW m \in wire'
               PROVE  MessageTyped(m)' /\ MessageAsksOthers(m)' /\ MessageHeld(m)'
    BY DEF MessageInv
  <2>1. CASE m \in wire
    <3>1. MessageTyped(m) /\ MessageAsksOthers(m) /\ MessageHeld(m)
      BY <2>1 DEF MessageInv
    <3>2. MessageTyped(m)'
      BY <3>1 DEF MessageTyped, Grows
    <3>3. ASSUME m.type = "vote" PROVE HeldBy({m.from}, m.record)'
      <4>1. {m.from} \in SUBSET Peers /\ m.record \in RecordsOf /\ HeldBy({m.from}, m.record)
        BY <3>1, <3>3 DEF MessageTyped, MessageHeld
      <4> QED
        BY <4>1, HeldKept
    <3>4. ASSUME m.type = "commit" PROVE HeldBy(m.votes, m.record)'
      <4>1. m.votes \in SUBSET Peers /\ m.record \in RecordsOf /\ HeldBy(m.votes, m.record)
        BY <3>1, <3>4 DEF MessageTyped, MessageHeld
      <4> QED
        BY <4>1, HeldKept
    <3> QED
      BY <3>1, <3>2, <3>3, <3>4 DEF MessageHeld, MessageAsksOthers
  <2>2. CASE m \notin wire
    BY <2>2 DEF MessageAsksOthers
  <2> QED
    BY <2>1, <2>2
<1>2. ASSUME NEW p \in Peers PROVE CountHeld(p)'
  <2> SUFFICES ASSUME promise'[p] = promise[p], votes'[p] = votes[p],
                      promise[p] # None, Authority(promise[p]) = p
               PROVE  CountHeld(p)'
    BY DEF CountHeld
  <2>1. PICK r \in RecordsOf, V \in SUBSET Peers :
          r = promise[p] /\ V = votes[p] /\ HeldBy(V, r)
    BY DEF StateTyped, CountHeld
  <2>2. HeldBy(V, r)'
    BY <2>1, HeldKept
  <2> QED
    BY <2>1, <2>2 DEF CountHeld, HeldBy, Holds
<1>3. ASSUME NEW p \in Peers PROVE LatestHeld(p)'
  <2> SUFFICES ASSUME latest'[p] = latest[p], latest[p] # None
               PROVE  LatestHeld(p)'
    BY DEF LatestHeld
  <2>1. PICK c \in Certificates : c = latest[p] /\ HeldBy(c.votes, c.record)
    BY DEF StateTyped, LatestHeld
  <2>2. PICK r \in RecordsOf, V \in SUBSET Peers : r = c.record /\ V = c.votes
    BY DEF Certificates
  <2>3. HeldBy(V, r)'
    BY <2>1, <2>2, HeldKept
  <2> QED
    BY <2>1, <2>2, <2>3 DEF LatestHeld, HeldBy, Holds
<1>4. ASSUME NEW p \in Peers PROVE Activated(p)'
  <2> SUFFICES ASSUME record'[p] = record[p], record[p] # None
               PROVE  Activated(p)'
    BY DEF Activated
  <2>1. PICK r \in RecordsOf : r = record[p] /\ Backing(r)
    BY DEF StateTyped, Activated
  <2>2. Backing(r)'
    BY <2>1, BackingKept
  <2> QED
    BY <2>1, <2>2 DEF Activated, Backing, Holds
<1> QED
  BY <1>1, <1>2, <1>3, <1>4

-----------------------------------------------------------------------------
(* The steps that leave records, prepares, votes and certificates alone    *)

LEMMA QuietKeeps ==
    ASSUME MembershipConstants, MembershipInv,
           UNCHANGED <<record, promise, votes, latest>>,
           StateTyped', StagedAsksOthers',
           \A m \in wire' : \/ m \in wire
                            \/ /\ MessageTyped(m)' /\ MessageAsksOthers(m)
                               /\ m.type \notin {"vote", "commit"}
    PROVE  MembershipInv'
<1>1. Grows
  <2> SUFFICES ASSUME NEW q \in Peers, record[q] # None PROVE IsPrefix(record[q], record[q])
    BY DEF Grows
  <2>1. record[q] \in RecordsOf
    BY DEF MembershipInv, StateTyped
  <2> QED
    BY <2>1, PrefixSelf
<1>2. \A m \in wire' : \/ m \in wire
                       \/ MessageTyped(m)' /\ MessageAsksOthers(m) /\ MessageHeld(m)'
  BY DEF MessageHeld
<1> QED
  BY <1>1, <1>2, StepKeeps

LEMMA JoinKeeps ==
    ASSUME MembershipConstants, MembershipInv, NEW p \in Peers, Join(p)
    PROVE  MembershipInv'
<1> USE DEF Join, recovery
<1>1. p # Founder /\ Founder \in Peers
  BY DEF MembershipConstants
<1>2. StateTyped'
  BY <1>1 DEF MembershipInv, StateTyped
<1>3. StagedAsksOthers'
  BY <1>1 DEF MembershipInv, StateTyped, StagedAsksOthers
<1> QED
  BY <1>2, <1>3, QuietKeeps

LEMMA LeaveKeeps ==
    ASSUME MembershipConstants, MembershipInv, NEW p \in Peers, Leave(p)
    PROVE  MembershipInv'
<1> USE DEF Leave, recovery
<1>1. StateTyped'
  BY DEF MembershipInv, StateTyped
<1>2. StagedAsksOthers'
  BY DEF MembershipInv, StateTyped, StagedAsksOthers
<1> QED
  BY <1>1, <1>2, QuietKeeps

LEMMA PushKeeps ==
    ASSUME MembershipConstants, MembershipInv, NEW p \in Peers,
           push_pending_membership_requests(p)
    PROVE  MembershipInv'
<1> USE DEF push_pending_membership_requests, recovery, staged
<1>1. StateTyped' /\ StagedAsksOthers'
  BY DEF MembershipInv, StateTyped, StagedAsksOthers
<1>2. ASSUME NEW m \in wire', m \notin wire
      PROVE  /\ MessageTyped(m)' /\ MessageAsksOthers(m)
             /\ m.type \notin {"vote", "commit"}
  <2>1. CASE pendingJoin[p] /\ m = [type |-> "join", from |-> p, to |-> Founder]
    <3>1. p # Founder /\ Founder \in Peers
      BY <2>1 DEF MembershipConstants, MembershipInv, StagedAsksOthers
    <3> QED
      BY <2>1, <3>1 DEF MessageTyped, MessageAsksOthers
  <2>2. CASE /\ pendingLeave[p] # None /\ record[p] # None
             /\ m = [type |-> "leave", from |-> p, to |-> Authority(record[p]),
                     hash |-> pendingLeave[p]]
    <3>1. record[p] \in RecordsOf /\ pendingLeave[p] \in RecordsOf
      BY <2>2 DEF MembershipInv, StateTyped
    <3>2. Authority(record[p]) \in Peers /\ Authority(pendingLeave[p]) # p
      BY <2>2, <3>1, RecordFields DEF MembershipInv, StagedAsksOthers
    <3> QED
      BY <2>2, <3>1, <3>2 DEF MessageTyped, MessageAsksOthers
  <2> QED
    BY <1>2, <2>1, <2>2 DEF Send
<1> QED
  BY <1>1, <1>2, QuietKeeps

LEMMA EpochKeeps ==
    ASSUME MembershipConstants, MembershipInv, NEW p \in Peers, Epoch(p)
    PROVE  MembershipInv'
<1> USE DEF Epoch, staged
<1>1. record[p] \in RecordsOf
  BY DEF MembershipInv, StateTyped
<1>2. Last(record[p]).epoch \in Nat /\ Authority(record[p]) \in Peers
  BY <1>1, RecordFields
<1>3. StateTyped'
  BY <1>2 DEF MembershipInv, StateTyped
<1>4. StagedAsksOthers'
  BY DEF MembershipInv, StagedAsksOthers
<1> QED
  BY <1>3, <1>4, QuietKeeps

LEMMA RecoveryBallotKeeps ==
    ASSUME MembershipConstants, MembershipInv, NEW p \in Peers, NEW c \in Peers,
           RecoveryBallot(p, c)
    PROVE  MembershipInv'
<1> USE DEF RecoveryBallot, staged
<1>1. StateTyped' /\ StagedAsksOthers'
  BY DEF MembershipInv, StateTyped, StagedAsksOthers
<1> QED
  BY <1>1, QuietKeeps

LEMMA LoseKeeps ==
    ASSUME MembershipConstants, MembershipInv, NEW m \in wire, Lose(m)
    PROVE  MembershipInv'
<1> USE DEF Lose, Reply, recovery, staged
<1>1. StateTyped' /\ StagedAsksOthers'
  BY DEF MembershipInv, StateTyped, StagedAsksOthers
<1> QED
  BY <1>1, QuietKeeps

LEMMA RecoveryEpochKeeps ==
    ASSUME MembershipConstants, MembershipInv, NEW m \in wire, RecoveryEpoch(m)
    PROVE  MembershipInv'
<1> USE DEF RecoveryEpoch, recovery, staged
<1> DEFINE p == m.to
<1>1. /\ m.type = "epoch" /\ m.from \in Peers /\ p \in Peers
      /\ record[m.from] \in RecordsOf
  BY DEF Received, MembershipInv, MessageInv, MessageTyped, StateTyped
<1>2. StateTyped'
  <2>1. CASE accepted' = accepted
    BY <2>1 DEF MembershipInv, StateTyped
  <2>2. CASE CanVote(p) /\ accepted' = [accepted EXCEPT ![p] = [number |-> @.number + 1,
                                                                authority |-> m.from]]
    <3>1. accepted[p] \in [number : Nat, authority : Peers]
      BY <1>1, <2>2 DEF MembershipInv, StateTyped, CanVote
    <3>2. [number |-> accepted[p].number + 1, authority |-> m.from]
            \in [number : Nat, authority : Peers]
      BY SMTT(30), <1>1, <3>1
    <3> QED
      BY <1>1, <2>2, <3>2 DEF MembershipInv, StateTyped
  <2> QED
    BY <2>1, <2>2
<1>3. StagedAsksOthers'
  BY DEF MembershipInv, StagedAsksOthers
<1>4. PICK answer : answer = [type |-> "membership", from |-> m.from, to |-> p,
                              record |-> record[m.from]]
  OBVIOUS
<1>5. MessageTyped(answer)' /\ MessageAsksOthers(answer) /\ answer.type \notin {"vote", "commit"}
  BY <1>1, <1>4 DEF MessageTyped, MessageAsksOthers
<1>6. wire' \subseteq wire \cup {answer}
  BY <1>4 DEF Reply
<1> QED
  BY <1>2, <1>3, <1>5, <1>6, QuietKeeps

-----------------------------------------------------------------------------
(* The steps that prepare and vote                                         *)

(* A step of one peer grows when that peer's files do. *)
LEMMA GrowsAt ==
    ASSUME StateTyped, NEW p \in Peers,
           \A q \in Peers \ {p} : record'[q] = record[q] /\ promise'[q] = promise[q],
           record'[p] = record[p] \/ record'[p] \in RecordsOf,
           None \notin RecordsOf,
           record[p] # None /\ record'[p] # record[p] => IsPrefix(record[p], record'[p]),
           promise[p] # None /\ promise'[p] # promise[p] =>
               record'[p] # None /\ IsPrefix(promise[p], record'[p])
    PROVE  Grows
<1> SUFFICES ASSUME NEW q \in Peers, record[q] # None
             PROVE  record'[q] # None /\ IsPrefix(record[q], record'[q])
  BY DEF Grows
<1>1. record[q] \in RecordsOf
  BY DEF StateTyped
<1>2. IsPrefix(record[q], record[q])
  BY <1>1, PrefixSelf
<1> QED
  BY <1>2

LEMMA MembershipVoteKeeps ==
    ASSUME MembershipConstants, MembershipInv, NEW m \in wire, MembershipVote(m)
    PROVE  MembershipInv'
<1> USE DEF MembershipVote, recovery, staged
<1> DEFINE a == m.to
<1>1. /\ m.type = "vote" /\ m.from \in Peers /\ a \in Peers
      /\ Holds(m.from, m.record)
  BY DEF Received, MembershipInv, MessageInv, MessageTyped, MessageHeld, HeldBy
<1>2. StateTyped' /\ StagedAsksOthers'
  BY <1>1 DEF MembershipInv, StateTyped, StagedAsksOthers
<1>3. Grows
  BY <1>1, GrowsAt DEF MembershipInv, MembershipConstants, RecordsOf
<1>4. CountHeld(a)'
  BY <1>1 DEF MembershipInv, StateTyped, CountHeld, HeldBy, Holds
<1>5. \A q \in Peers \ {a} : votes'[q] = votes[q]
  BY DEF MembershipInv, StateTyped
<1>6. wire' \subseteq wire
  BY DEF Reply
<1> QED
  BY <1>2, <1>3, <1>4, <1>5, <1>6, StepKeeps

(* A proposal prepares a record of the proposer's own, for another peer. *)
LEMMA ProposeKeeps ==
    ASSUME MembershipConstants, MembershipInv, NEW m \in wire, NEW a \in Peers,
           NEW members \in SUBSET Peers,
           record[a] # None, Authority(record[a]) = a, m.from # a,
           Propose(a, m, members),
           UNCHANGED <<record, descriptor, latest, staged, recovery>>
    PROVE  MembershipInv'
<1> USE DEF recovery, staged
<1>1. m.from \in Peers /\ record[a] \in RecordsOf
  BY DEF MembershipInv, MessageInv, MessageTyped, StateTyped
<1>2. PICK r : r = Next_record(record[a], members)
  OBVIOUS
<1>3. r \in RecordsOf /\ Authority(r) = a
  <2>1. PICK v : v = [Last(record[a]) EXCEPT !.members = members]
    OBVIOUS
  <2>2. v \in Revisions /\ v.authority = a
    BY <1>1, <2>1, RecordFields DEF Revisions, Authority
  <2>3. r = Append(record[a], v)
    BY <1>2, <2>1 DEF Next_record
  <2> QED
    BY <1>1, <2>2, <2>3, AppendRecord DEF Authority
<1>4. /\ promise[a] \in {None, r}
      /\ promise' = [promise EXCEPT ![a] = r]
      /\ votes' = [votes EXCEPT ![a] = IF promise[a] = None THEN {a} ELSE @]
      /\ wire' = (wire \ {m}) \cup {Proposal(a, m.from, r)}
  BY <1>2 DEF Propose, CanPromise, promise_membership_proposal, Reply
<1>5. StateTyped' /\ StagedAsksOthers'
  BY <1>3, <1>4 DEF MembershipInv, StateTyped, StagedAsksOthers
<1>6. Grows
  <2>1. promise[a] # None => promise'[a] = promise[a]
    BY <1>4 DEF MembershipInv, StateTyped
  <2>2. \A q \in Peers \ {a} : promise'[q] = promise[q]
    BY <1>4 DEF MembershipInv, StateTyped
  <2> QED
    BY <2>1, <2>2, GrowsAt DEF MembershipInv, MembershipConstants, RecordsOf
<1>7. \A q \in Peers : CountHeld(q)' \/ (promise'[q] = promise[q] /\ votes'[q] = votes[q])
  <2>1. CASE promise[a] = None
    <3>1. promise'[a] = r /\ votes'[a] = {a}
      BY <1>4, <2>1 DEF MembershipInv, StateTyped
    <3>2. CountHeld(a)'
      BY <3>1 DEF CountHeld, HeldBy, Holds
    <3> QED
      BY <1>4, <3>2 DEF MembershipInv, StateTyped
  <2>2. CASE promise[a] # None
    BY <1>4, <2>2 DEF MembershipInv, StateTyped
  <2> QED
    BY <2>1, <2>2
<1>8. PICK n : n = Proposal(a, m.from, r)
  OBVIOUS
<1>9. MessageTyped(n)' /\ MessageAsksOthers(n) /\ MessageHeld(n)'
  BY <1>1, <1>3, <1>8 DEF Proposal, MessageTyped, MessageAsksOthers, MessageHeld
<1>10. \A x \in wire' : \/ x \in wire
                        \/ MessageTyped(x)' /\ MessageAsksOthers(x) /\ MessageHeld(x)'
  BY <1>4, <1>8, <1>9
<1> QED
  BY <1>5, <1>6, <1>7, <1>10, StepKeeps

LEMMA JoinRequestKeeps ==
    ASSUME MembershipConstants, MembershipInv, NEW m \in wire, JoinRequest(m)
    PROVE  MembershipInv'
<1> USE DEF JoinRequest
<1> DEFINE a == m.to
<1>1. m.type = "join" /\ m.from \in Peers /\ a \in Peers /\ m.from # Founder
  BY DEF Received, MembershipInv, MessageInv, MessageTyped, MessageAsksOthers
<1>2. CASE /\ record[a] # None /\ Authority(record[a]) = a /\ a = Founder
           /\ Propose(a, m, descriptor[a] \cup {m.from})
  <2>1. descriptor[a] \cup {m.from} \in SUBSET Peers
    BY <1>1 DEF MembershipInv, StateTyped
  <2> QED
    BY <1>1, <1>2, <2>1, ProposeKeeps
<1>3. CASE wire' = wire \ {m} /\ UNCHANGED <<promise, votes>>
  <2>1. StateTyped' /\ StagedAsksOthers'
    BY <1>3 DEF MembershipInv, StateTyped, StagedAsksOthers, recovery, staged
  <2> QED
    BY <1>3, <2>1, QuietKeeps
<1> QED
  BY <1>2, <1>3 DEF Reply

LEMMA LeaveRequestKeeps ==
    ASSUME MembershipConstants, MembershipInv, NEW m \in wire, LeaveRequest(m)
    PROVE  MembershipInv'
<1> USE DEF LeaveRequest
<1> DEFINE a == m.to
<1>1. m.type = "leave" /\ m.from \in Peers /\ a \in Peers /\ Authority(m.hash) # m.from
  BY DEF Received, MembershipInv, MessageInv, MessageTyped, MessageAsksOthers
<1>2. CASE /\ record[a] # None /\ Authority(record[a]) = a /\ m.hash = record[a]
           /\ Propose(a, m, descriptor[a] \ {m.from})
  <2>1. descriptor[a] \ {m.from} \in SUBSET Peers
    BY <1>1 DEF MembershipInv, StateTyped
  <2>2. m.from # a
    BY <1>1, <1>2
  <2> QED
    BY <1>1, <1>2, <2>1, <2>2, ProposeKeeps
<1>3. CASE wire' = wire \ {m} /\ UNCHANGED <<promise, votes>>
  <2>1. StateTyped' /\ StagedAsksOthers'
    BY <1>3 DEF MembershipInv, StateTyped, StagedAsksOthers, recovery, staged
  <2> QED
    BY <1>3, <2>1, QuietKeeps
<1> QED
  BY <1>2, <1>3 DEF Reply

(* A voter prepares the proposal of another peer before its vote goes out. *)
LEMMA MembershipProposalKeeps ==
    ASSUME MembershipConstants, MembershipInv, NEW m \in wire, MembershipProposal(m)
    PROVE  MembershipInv'
<1> USE DEF MembershipProposal, recovery, staged
<1> DEFINE p == m.to
<1>1. /\ m.type = "proposal" /\ m.from \in Peers /\ p \in Peers /\ m.record \in RecordsOf
      /\ Authority(m.record) = m.from /\ p # m.from
  BY DEF Received, MembershipInv, MessageInv, MessageTyped, MessageAsksOthers
<1>2. CASE wire' = wire \ {m} /\ UNCHANGED promise
  <2>1. StateTyped' /\ StagedAsksOthers'
    BY <1>2 DEF MembershipInv, StateTyped, StagedAsksOthers
  <2> QED
    BY <1>2, <2>1, QuietKeeps
<1>3. CASE /\ promise[p] \in {None, m.record}
           /\ promise' = [promise EXCEPT ![p] = m.record]
           /\ wire' = (wire \ {m}) \cup {[type |-> "vote", from |-> p, to |-> m.from,
                                          record |-> m.record]}
  <2>1. promise'[p] = m.record /\ \A q \in Peers \ {p} : promise'[q] = promise[q]
    BY <1>1, <1>3 DEF MembershipInv, StateTyped
  <2>2. StateTyped' /\ StagedAsksOthers'
    BY <1>1, <1>3 DEF MembershipInv, StateTyped, StagedAsksOthers
  <2>3. Grows
    BY <1>1, <1>3, <2>1, GrowsAt DEF MembershipInv, MembershipConstants, RecordsOf
  <2>4. CountHeld(p)'
    BY <1>1, <2>1 DEF CountHeld
  <2>5. PICK n : n = [type |-> "vote", from |-> p, to |-> m.from, record |-> m.record]
    OBVIOUS
  <2>6. MessageTyped(n)' /\ MessageAsksOthers(n)
    BY <1>1, <2>5 DEF MessageTyped, MessageAsksOthers
  <2>7. MessageHeld(n)'
    BY <1>1, <2>1, <2>5 DEF MessageHeld, HeldBy, Holds
  <2>8. \A x \in wire' : \/ x \in wire
                         \/ MessageTyped(x)' /\ MessageAsksOthers(x) /\ MessageHeld(x)'
    BY <1>3, <2>5, <2>6, <2>7
  <2> QED
    BY <2>1, <2>2, <2>3, <2>4, <2>8, StepKeeps
<1> QED
  BY <1>2, <1>3 DEF CanPromise, promise_membership_proposal, Reply

-----------------------------------------------------------------------------
(* The steps of a recovery                                                 *)

(* The promoted record keeps the voters of the one it extends. *)
LEMMA PromoteKeeps ==
    ASSUME MembershipConstants, MembershipInv, NEW c \in Peers, Promote(c)
    PROVE  MembershipInv'
<1> USE DEF Promote, staged
<1>1. /\ record[c] \in RecordsOf
      /\ accepted[c] \in [number : Nat, authority : Peers]
      /\ None \notin RecordsOf
  BY DEF CanVote, MembershipInv, StateTyped, MembershipConstants, RecordsOf
<1>2. PICK v : v = [epoch |-> accepted[c].number + 1, authority |-> c,
                    members |-> Last(record[c]).members]
  OBVIOUS
<1>3. v \in Revisions
  <2>1. Last(record[c]).members \in SUBSET Peers
    BY <1>1, RecordFields DEF Members
  <2>2. accepted[c].number + 1 \in Nat
    BY SMTT(30), <1>1
  <2> QED
    BY <1>2, <2>1, <2>2 DEF Revisions
<1>4. PICK r : r = Append(record[c], v)
  OBVIOUS
<1>5. /\ r \in RecordsOf /\ IsPrefix(record[c], r)
      /\ Front(r) = record[c] /\ Members(r) = Members(record[c])
  BY SMTT(30), <1>1, <1>2, <1>3, <1>4, AppendRecord DEF Members
<1>6. record' = [record EXCEPT ![c] = r]
  BY <1>2, <1>4
<1>7. record'[c] = r /\ \A q \in Peers \ {c} : record'[q] = record[q]
  BY <1>6 DEF MembershipInv, StateTyped
<1>8. StateTyped'
  <2>1. [number |-> accepted[c].number + 1, authority |-> c] \in [number : Nat, authority : Peers]
    BY SMTT(30), <1>1
  <2>2. accepted' \in [Peers -> [number : Nat, authority : Peers] \cup {None}]
    BY <2>1 DEF MembershipInv, StateTyped
  <2>3. record' \in [Peers -> RecordsOf \cup {None}]
    BY <1>5, <1>6 DEF MembershipInv, StateTyped
  <2> QED
    BY <2>2, <2>3 DEF MembershipInv, StateTyped
<1>9. StagedAsksOthers'
  BY DEF MembershipInv, StagedAsksOthers
<1>10. Grows
  BY <1>1, <1>5, <1>7, GrowsAt DEF MembershipInv
<1>11. Activated(c)'
  BY <1>5, <1>7 DEF Activated, Backing, Changed
<1>12. PICK b, u : b = Base(c) /\ u = BallotVotes(c)
  OBVIOUS
<1>13. ASSUME NEW q \in Members(record[c]), NEW n,
              n = [type |-> "epoch", from |-> c, to |-> q, base |-> b, voters |-> u]
       PROVE  MessageTyped(n)' /\ MessageAsksOthers(n) /\ MessageHeld(n)'
  <2>1. q \in Peers /\ record'[c] # None
    BY <1>1, <1>5, <1>7, RecordFields
  <2> QED
    BY <1>13, <2>1 DEF MessageTyped, MessageAsksOthers, MessageHeld
<1>14. \A x \in wire' : \/ x \in wire
                        \/ MessageTyped(x)' /\ MessageAsksOthers(x) /\ MessageHeld(x)'
  BY <1>12, <1>13 DEF Send
<1> QED
  BY <1>7, <1>8, <1>9, <1>10, <1>11, <1>14, StepKeeps

(* A peer follows a promoted record only with the voters it has. *)
LEMMA MembershipKeeps ==
    ASSUME MembershipConstants, MembershipInv, NEW m \in wire, Membership(m)
    PROVE  MembershipInv'
<1> USE DEF Membership, recovery, staged
<1> DEFINE p == m.to
<1>1. m.type = "membership" /\ p \in Peers /\ m.record \in RecordsOf /\ None \notin RecordsOf
  BY DEF Received, MembershipInv, MessageInv, MessageTyped, MembershipConstants, RecordsOf
<1>2. Members(m.record) \subseteq Peers
  BY <1>1, RecordFields
<1>3. StateTyped'
  BY <1>1, <1>2 DEF MembershipInv, StateTyped
<1>4. StagedAsksOthers'
  BY DEF MembershipInv, StagedAsksOthers
<1>5. \A q \in Peers \ {p} : record'[q] = record[q]
  BY DEF MembershipInv, StateTyped
<1>6. \/ record'[p] = record[p]
      \/ /\ record'[p] = m.record /\ record[p] # None
         /\ record[p] = Front(m.record) /\ Members(m.record) = Members(record[p])
  BY <1>1 DEF MembershipInv, StateTyped, RecordAllows
<1>7. Grows
  <2>1. record[p] # None /\ record'[p] # record[p] => IsPrefix(record[p], record'[p])
    BY <1>1, <1>6, PrefixFront DEF MembershipInv, StateTyped
  <2> QED
    BY <1>1, <1>5, <1>6, <2>1, GrowsAt DEF MembershipInv
<1>8. Activated(p)' \/ record'[p] = record[p]
  BY <1>6 DEF Activated, Backing, Changed
<1>9. wire' \subseteq wire
  BY DEF Reply
<1> QED
  BY <1>3, <1>4, <1>5, <1>7, <1>8, <1>9, StepKeeps

-----------------------------------------------------------------------------
(* The writes of a commit, complete or cut short                           *)

(* What the first k writes leave in the files of the peer. *)
LEMMA WrittenFiles ==
    ASSUME MembershipInv, NEW p \in Peers, NEW c \in Certificates, NEW k \in Nat,
           Written(p, c, k)
    PROVE  /\ record' \in [Peers -> RecordsOf \cup {None}]
           /\ promise' \in [Peers -> RecordsOf \cup {None}]
           /\ descriptor' \in [Peers -> SUBSET Peers]
           /\ latest' \in [Peers -> Certificates \cup {None}]
           /\ pendingJoin' \in [Peers -> BOOLEAN]
           /\ pendingLeave' \in [Peers -> RecordsOf \cup {None}]
           /\ StagedAsksOthers'
           /\ \A q \in Peers \ {p} : /\ record'[q] = record[q] /\ promise'[q] = promise[q]
                                     /\ latest'[q] = latest[q]
           /\ latest'[p] = IF k >= 2 THEN c ELSE latest[p]
           /\ record'[p] = IF k >= 3 THEN c.record ELSE record[p]
           /\ promise'[p] = IF k >= 5 /\ promise[p] = c.record THEN None ELSE promise[p]
<1> USE DEF Written, MembershipInv, StateTyped
<1>1. c.record \in RecordsOf /\ Members(c.record) \subseteq Peers
  BY RecordFields DEF Certificates
<1>2. record' \in [Peers -> RecordsOf \cup {None}]
  BY <1>1
<1>3. promise' \in [Peers -> RecordsOf \cup {None}]
  OBVIOUS
<1>4. descriptor' \in [Peers -> SUBSET Peers]
  BY <1>1
<1>5. latest' \in [Peers -> Certificates \cup {None}]
  OBVIOUS
<1>6. pendingJoin' \in [Peers -> BOOLEAN] /\ \A q \in Peers : pendingJoin'[q] => pendingJoin[q]
  OBVIOUS
<1>7. /\ pendingLeave' \in [Peers -> RecordsOf \cup {None}]
      /\ \A q \in Peers : pendingLeave'[q] \in {None, pendingLeave[q]}
  OBVIOUS
<1>8. StagedAsksOthers'
  BY <1>6, <1>7 DEF StagedAsksOthers
<1>9. /\ \A q \in Peers \ {p} : /\ record'[q] = record[q] /\ promise'[q] = promise[q]
                                /\ latest'[q] = latest[q]
      /\ latest'[p] = IF k >= 2 THEN c ELSE latest[p]
      /\ record'[p] = IF k >= 3 THEN c.record ELSE record[p]
      /\ promise'[p] = IF k >= 5 /\ promise[p] = c.record THEN None ELSE promise[p]
  OBVIOUS
<1> QED
  BY <1>2, <1>3, <1>4, <1>5, <1>6, <1>7, <1>8, <1>9

(* A valid certificate whose voters hold its record may be written up to   *)
(* any of its writes, over the record before it or over no record.         *)
LEMMA WrittenKeeps ==
    ASSUME MembershipConstants, MembershipInv, NEW p \in Peers, NEW c \in Certificates,
           NEW k \in Nat, Written(p, c, k),
           certificate_valid(c), HeldBy(c.votes, c.record),
           k >= 3 => record[p] \in {None, c.record, Front(c.record)},
           votes' \in [Peers -> SUBSET Peers], \A q \in Peers : votes'[q] \subseteq votes[q],
           UNCHANGED accepted,
           \A x \in wire' : x \in wire \/ (x \in Commits(p, c) /\ Front(c.record) \in RecordsOf)
    PROVE  MembershipInv'
<1>1. c.record \in RecordsOf /\ c.votes \in SUBSET Peers /\ None \notin RecordsOf
  BY DEF Certificates, MembershipConstants, RecordsOf
<1>2. StateTyped' /\ StagedAsksOthers'
  BY WrittenFiles DEF MembershipInv, StateTyped
<1>3. /\ \A q \in Peers \ {p} : /\ record'[q] = record[q] /\ promise'[q] = promise[q]
                                /\ latest'[q] = latest[q]
      /\ latest'[p] = IF k >= 2 THEN c ELSE latest[p]
      /\ record'[p] = IF k >= 3 THEN c.record ELSE record[p]
      /\ promise'[p] = IF k >= 5 /\ promise[p] = c.record THEN None ELSE promise[p]
  BY WrittenFiles
<1>4. Grows
  <2>1. record[p] # None /\ record'[p] # record[p] => IsPrefix(record[p], record'[p])
    BY SMTT(30), <1>1, <1>3, PrefixFront DEF MembershipInv, StateTyped
  <2>2. promise[p] # None /\ promise'[p] # promise[p] =>
            record'[p] # None /\ IsPrefix(promise[p], record'[p])
    BY SMTT(30), <1>1, <1>3, PrefixSelf
  <2> QED
    BY <1>1, <1>3, <2>1, <2>2, GrowsAt DEF MembershipInv
<1>5. HeldBy(c.votes, c.record)'
  BY <1>1, <1>2, <1>4, HeldKept DEF MembershipInv
<1>6. LatestHeld(p)' \/ latest'[p] = latest[p]
  BY <1>3, <1>5 DEF LatestHeld, HeldBy, Holds
<1>7. Activated(p)' \/ record'[p] = record[p]
  <2>1. Backing(c.record)
    BY CertificateBacks
  <2>2. PICK r \in RecordsOf : r = c.record
    BY <1>1
  <2>3. Backing(r)'
    BY <1>2, <1>4, <2>1, <2>2, BackingKept DEF MembershipInv
  <2> QED
    BY <1>3, <2>2, <2>3 DEF Activated, Backing, Holds
<1>8. ASSUME NEW q \in Peers PROVE CountHeld(q)'
  <2> SUFFICES ASSUME promise'[q] = promise[q], promise[q] # None, Authority(promise[q]) = q
               PROVE  CountHeld(q)'
    BY <1>3 DEF CountHeld
  <2>1. PICK r \in RecordsOf, V \in SUBSET Peers :
          r = promise[q] /\ V = votes[q] /\ HeldBy(V, r)
    BY DEF MembershipInv, StateTyped, CountHeld
  <2>2. HeldBy(V, r)'
    BY <1>2, <1>4, <2>1, HeldKept DEF MembershipInv
  <2> QED
    BY <2>1, <2>2 DEF CountHeld, HeldBy, Holds
<1>9. ASSUME NEW x \in Commits(p, c), Front(c.record) \in RecordsOf
      PROVE  MessageTyped(x)' /\ MessageAsksOthers(x) /\ MessageHeld(x)'
  <2>1. PICK q \in Members(Front(c.record)) \cup Members(c.record) :
          x = [type |-> "commit", from |-> p, to |-> q, record |-> c.record, votes |-> c.votes]
    BY DEF Commits
  <2>2. q \in Peers
    BY <1>1, <1>9, RecordFields
  <2> QED
    BY <1>1, <1>5, <2>1, <2>2 DEF MessageTyped, MessageAsksOthers, MessageHeld
<1> QED
  BY <1>2, <1>3, <1>4, <1>6, <1>7, <1>8, <1>9, StepKeeps

(* Where a certificate finds the record it extends. *)
LEMMA AllowedOver ==
    ASSUME NEW p, NEW r, RecordAllows(p, r)
    PROVE  record[p] \in {None, r, Front(r)}
  BY DEF RecordAllows

LEMMA RecoverCommittedKeeps ==
    ASSUME MembershipConstants, MembershipInv, NEW p \in Peers, recover_committed_membership(p)
    PROVE  MembershipInv'
<1> USE DEF recover_committed_membership, recovery, staged
<1>1. PICK c \in Certificates : c = latest[p] /\ HeldBy(c.votes, c.record)
  BY DEF MembershipInv, StateTyped, LatestHeld
<1>2. CASE /\ record[p] = c.record /\ promise[p] = c.record
           /\ promise' = [promise EXCEPT ![p] = None]
           /\ UNCHANGED <<record, descriptor, latest, pendingJoin, pendingLeave>>
  <2>1. c.record \in RecordsOf /\ None \notin RecordsOf
    BY DEF Certificates, MembershipConstants, RecordsOf
  <2>2. StateTyped' /\ StagedAsksOthers'
    BY <1>2 DEF MembershipInv, StateTyped, StagedAsksOthers
  <2>3. promise'[p] = None /\ \A q \in Peers \ {p} : promise'[q] = promise[q]
    BY <1>2 DEF MembershipInv, StateTyped
  <2>4. Grows
    BY <1>2, <2>1, <2>3, PrefixSelf, GrowsAt DEF MembershipInv
  <2>5. CountHeld(p)'
    BY <2>3 DEF CountHeld
  <2> QED
    BY <1>2, <2>2, <2>3, <2>4, <2>5, StepKeeps
<1>3. CASE CertificateForLocal(p, c) /\ RecordAllows(p, c.record) /\ Written(p, c, Writes)
  <2>1. record[p] \in {None, c.record, Front(c.record)} /\ certificate_valid(c)
    BY <1>3, AllowedOver DEF CertificateForLocal
  <2>2. votes' \in [Peers -> SUBSET Peers] /\ Writes \in Nat
    BY DEF MembershipInv, StateTyped, Writes
  <2> QED
    BY <1>1, <1>3, <2>1, <2>2, WrittenKeeps
<1>4. CASE UNCHANGED <<record, descriptor, promise, latest, pendingJoin, pendingLeave>>
  <2>1. StateTyped' /\ StagedAsksOthers'
    BY <1>4 DEF MembershipInv, StateTyped, StagedAsksOthers
  <2> QED
    BY <1>4, <2>1, QuietKeeps
<1> QED
  BY <1>1, <1>2, <1>3, <1>4

(* The proposer's tick: it counts itself, asks the others again, or        *)
(* commits with the votes it counted.                                      *)
LEMMA MaintainKeeps ==
    ASSUME MembershipConstants, MembershipInv, NEW a \in Peers, maintain_membership_transition(a)
    PROVE  MembershipInv'
<1> USE DEF recovery, staged
<1>1. PICK r \in RecordsOf : r = promise[a] /\ Authority(r) = a
  BY DEF maintain_membership_transition, MembershipInv, StateTyped
<1>2. PICK c : c = [record |-> r, votes |-> votes[a] \cup {a}]
  OBVIOUS
<1>3. c \in Certificates
  BY <1>1, <1>2 DEF Certificates, MembershipInv, StateTyped
<1>4. HeldBy(c.votes, c.record)
  <2>1. r # None /\ Holds(a, r)
    BY <1>1 DEF MembershipConstants, RecordsOf, Holds
  <2> QED
    BY <1>1, <1>2, <2>1 DEF MembershipInv, CountHeld, HeldBy
<1>5. record[a] = Front(r) => Front(r) \in RecordsOf
  <2>1. Front(r) \in Seq(Revisions)
    BY SMTT(30) DEF Front, RecordsOf
  <2> QED
    BY <2>1 DEF MembershipConstants, MembershipInv, StateTyped
<1>6. UNCHANGED accepted
  BY DEF maintain_membership_transition
<1>7. CASE UNCHANGED <<record, descriptor, promise, latest, pendingJoin, pendingLeave, votes, wire>>
  <2>1. StateTyped' /\ StagedAsksOthers'
    BY <1>6, <1>7 DEF MembershipInv, StateTyped, StagedAsksOthers
  <2> QED
    BY <1>7, <2>1, QuietKeeps
<1>8. CASE /\ record[a] = Front(r)
           /\ wire' = wire \cup {Proposal(a, p, r) : p \in Asked(a, r)}
           /\ votes' = [votes EXCEPT ![a] = c.votes]
           /\ UNCHANGED <<record, descriptor, promise, latest, pendingJoin, pendingLeave>>
  <2>1. StateTyped' /\ StagedAsksOthers'
    BY <1>3, <1>6, <1>8 DEF Certificates, MembershipInv, StateTyped, StagedAsksOthers
  <2>2. Grows
    BY <1>8, GrowsAt DEF MembershipInv, MembershipConstants, RecordsOf
  <2>3. CountHeld(a)' /\ \A q \in Peers \ {a} : votes'[q] = votes[q]
    <3>1. votes'[a] = c.votes /\ \A q \in Peers \ {a} : votes'[q] = votes[q]
      BY <1>8 DEF MembershipInv, StateTyped
    <3>2. HeldBy(c.votes, c.record)'
      BY <1>4, <1>8 DEF HeldBy, Holds
    <3> QED
      BY <1>1, <1>2, <1>8, <3>1, <3>2 DEF CountHeld, HeldBy, Holds
  <2>4. ASSUME NEW p \in Asked(a, r), NEW n, n = Proposal(a, p, r)
        PROVE  MessageTyped(n)' /\ MessageAsksOthers(n) /\ MessageHeld(n)'
    <3>1. p \in Peers /\ p # a
      BY <1>5, <1>8, RecordFields DEF Asked
    <3> QED
      BY <1>1, <2>4, <3>1 DEF Proposal, MessageTyped, MessageAsksOthers, MessageHeld
  <2>5. \A x \in wire' : \/ x \in wire
                         \/ MessageTyped(x)' /\ MessageAsksOthers(x) /\ MessageHeld(x)'
    BY <1>8, <2>4
  <2> QED
    BY <1>8, <2>1, <2>2, <2>3, <2>5, StepKeeps
<1>9. ASSUME NEW k \in Nat, Written(a, c, k), record[a] = Front(r), certificate_valid(c),
             votes' = [votes EXCEPT ![a] = {}], wire' \subseteq wire \cup Commits(a, c)
      PROVE  MembershipInv'
  <2>1. votes' \in [Peers -> SUBSET Peers] /\ \A q \in Peers : votes'[q] \subseteq votes[q]
    BY <1>9 DEF MembershipInv, StateTyped
  <2>2. record[a] \in {None, c.record, Front(c.record)} /\ Front(c.record) \in RecordsOf
    BY <1>2, <1>5, <1>9
  <2> QED
    BY <1>3, <1>4, <1>6, <1>9, <2>1, <2>2, WrittenKeeps
<1>10. CASE /\ record[a] = Front(r) /\ certificate_valid(c)
            /\ \/ /\ Written(a, c, Writes)
                  /\ votes' = [votes EXCEPT ![a] = {}] /\ wire' = wire \cup Commits(a, c)
               \/ /\ \E k \in 1 .. Writes - 1 : Written(a, c, k)
                  /\ votes' = [votes EXCEPT ![a] = {}] /\ wire' = wire
  <2>1. Writes \in Nat /\ 1 .. Writes - 1 \subseteq Nat
    BY SMTT(30) DEF Writes
  <2> QED
    BY <1>9, <1>10, <2>1
<1> QED
  BY <1>1, <1>2, <1>7, <1>8, <1>10 DEF maintain_membership_transition, Send, Stops

LEMMA MembershipCommitKeeps ==
    ASSUME MembershipConstants, MembershipInv, NEW m \in wire, MembershipCommit(m)
    PROVE  MembershipInv'
<1> USE DEF recovery, staged
<1> DEFINE p == m.to
           c == [record |-> m.record, votes |-> m.votes]
<1>1. /\ m.type = "commit" /\ p \in Peers /\ m.record \in RecordsOf /\ m.votes \subseteq Peers
      /\ HeldBy(c.votes, c.record)
  BY DEF MembershipCommit, Received, MembershipInv, MessageInv, MessageTyped, MessageHeld
<1>2. c \in Certificates
  BY <1>1 DEF Certificates
<1>3. wire' \subseteq wire /\ UNCHANGED accepted
  BY DEF MembershipCommit, Reply
<1> HIDE DEF c
<1>4. CASE UNCHANGED <<record, descriptor, promise, latest, pendingJoin, pendingLeave, votes>>
  <2>1. StateTyped' /\ StagedAsksOthers'
    BY <1>3, <1>4 DEF MembershipInv, StateTyped, StagedAsksOthers
  <2> QED
    BY <1>3, <1>4, <2>1, QuietKeeps
<1>5. ASSUME NEW k \in Nat, k <= LastWrite(p, c), Written(p, c, k), CertificateForLocal(p, c),
             \/ votes' = [votes EXCEPT ![p] = {}]
             \/ votes' = [votes EXCEPT ![p] = IF LastWrite(p, c) = Writes THEN {} ELSE @]
      PROVE  MembershipInv'
  <2>1. votes' \in [Peers -> SUBSET Peers] /\ \A q \in Peers : votes'[q] \subseteq votes[q]
    BY <1>5 DEF MembershipInv, StateTyped
  <2>2. k >= 3 => record[p] \in {None, c.record, Front(c.record)}
    <3>1. k >= 3 => RecordAllows(p, c.record)
      BY SMTT(30), <1>5 DEF LastWrite
    <3> QED
      BY <3>1, AllowedOver
  <2>3. certificate_valid(c)
    BY <1>5 DEF CertificateForLocal
  <2> QED
    BY <1>1, <1>2, <1>3, <1>5, <2>1, <2>2, <2>3, WrittenKeeps
<1>6. CASE /\ CertificateForLocal(p, c)
           /\ \/ /\ Written(p, c, LastWrite(p, c))
                 /\ votes' = [votes EXCEPT ![p] = IF LastWrite(p, c) = Writes THEN {} ELSE @]
              \/ /\ \E k \in 1 .. LastWrite(p, c) - 1 : Written(p, c, k)
                 /\ votes' = [votes EXCEPT ![p] = {}]
  <2>1. LastWrite(p, c) \in Nat
    BY DEF LastWrite, Writes
  <2>2. \A k \in 1 .. LastWrite(p, c) - 1 : k \in Nat /\ k <= LastWrite(p, c)
    BY SMTT(30), <2>1
  <2>3. LastWrite(p, c) <= LastWrite(p, c)
    BY SMTT(30), <2>1
  <2> QED
    BY <1>5, <1>6, <2>1, <2>2, <2>3
<1> QED
  BY <1>4, <1>6 DEF MembershipCommit, Stops, c

-----------------------------------------------------------------------------
(* The theorems                                                            *)

LEMMA InitMembership ==
    ASSUME MembershipConstants, Init
    PROVE  MembershipInv
<1> USE DEF Init
<1> DEFINE first == [epoch |-> 1, authority |-> Founder, members |-> Founders]
<1>1. Founder \in Peers /\ Founders \subseteq Peers
  BY DEF MembershipConstants
<1>2. first \in Revisions
  BY <1>1 DEF Revisions
<1>3. <<first>> \in RecordsOf /\ Len(<<first>>) = 1
  BY SMTT(30), <1>2 DEF RecordsOf
<1>4. StateTyped
  <2>1. record \in [Peers -> RecordsOf \cup {None}]
    BY <1>3
  <2>2. accepted \in [Peers -> [number : Nat, authority : Peers] \cup {None}]
    BY <1>1
  <2> QED
    BY <1>1, <2>1, <2>2 DEF StateTyped
<1>5. MessageInv /\ StagedAsksOthers
  BY DEF MessageInv, StagedAsksOthers
<1>6. ASSUME NEW p \in Peers PROVE Activated(p)
  <2>1. record[p] # None => record[p] = <<first>>
    OBVIOUS
  <2>2. ~Changed(<<first>>)
    BY SMTT(30), <1>3 DEF Changed
  <2> QED
    BY <2>1, <2>2 DEF Activated, Backing
<1>7. ASSUME NEW p \in Peers PROVE CountHeld(p) /\ LatestHeld(p)
  BY DEF CountHeld, LatestHeld
<1> QED
  BY <1>4, <1>5, <1>6, <1>7 DEF MembershipInv

LEMMA NextMembership ==
    ASSUME MembershipConstants, MembershipInv, [Next]_vars
    PROVE  MembershipInv'
<1>1. CASE UNCHANGED vars
  <2>1. StateTyped' /\ StagedAsksOthers'
    BY <1>1 DEF vars, recovery, MembershipInv, StateTyped, StagedAsksOthers
  <2> QED
    BY <1>1, <2>1, QuietKeeps DEF vars
<1>2. ASSUME NEW p \in Peers,
             \/ Join(p) \/ Leave(p)
             \/ push_pending_membership_requests(p)
             \/ recover_committed_membership(p)
             \/ maintain_membership_transition(p)
             \/ Promote(p) \/ Epoch(p)
             \/ \E c \in Peers : RecoveryBallot(p, c)
      PROVE  MembershipInv'
  BY <1>2, JoinKeeps, LeaveKeeps, PushKeeps, RecoverCommittedKeeps, MaintainKeeps, PromoteKeeps,
     EpochKeeps, RecoveryBallotKeeps
<1>3. ASSUME NEW m \in wire,
             \/ JoinRequest(m) \/ LeaveRequest(m)
             \/ MembershipProposal(m) \/ MembershipVote(m) \/ MembershipCommit(m)
             \/ RecoveryEpoch(m) \/ Membership(m)
             \/ Lose(m)
      PROVE  MembershipInv'
  BY <1>3, JoinRequestKeeps, LeaveRequestKeeps, MembershipProposalKeeps, MembershipVoteKeeps,
     MembershipCommitKeeps, RecoveryEpochKeeps, MembershipKeeps, LoseKeeps
<1> QED
  BY <1>1, <1>2, <1>3 DEF Next

(* The inductive invariant of the voter-set protocol: every vote counted,  *)
(* sent or certified stands for a peer that durably prepared the record    *)
(* and has let the prepare go only for a record that carries it.           *)
THEOREM MembershipInvCorrect == Spec => []MembershipInv
<1>1. Init => MembershipInv
  BY InitMembership, MembershipAssumption
<1>2. MembershipInv /\ [Next]_vars => MembershipInv'
  BY NextMembership, MembershipAssumption
<1> QED
  BY <1>1, <1>2, PTL DEF Spec

(* A changed voter set is activated by apply_membership_certificate only   *)
(* behind majorities of the old and of the new voters that hold it, for    *)
(* any peers, any number of changes and of daemons stopped inside a commit.*)
THEOREM ActivatedByBothMajoritiesCorrect == Spec => []ActivatedByBothMajorities
<1>1. MembershipInv => ActivatedByBothMajorities
  BY DEF MembershipInv, Activated, Backing, ActivatedByBothMajorities
<1> QED
  BY <1>1, MembershipInvCorrect, PTL
=============================================================================
