-------------------------- MODULE MembershipConsensus --------------------------
(***************************************************************************)
(* How the voter set of a world changes: the authority turns a join or a   *)
(* leave into a proposal, every voter of the old and the new set prepares  *)
(* it durably, a majority of both sets certifies it, and each peer saves   *)
(* the certificate, the record and the descriptor, in that order.  The     *)
(* authority itself changes by recovery, reduced here to what it shares    *)
(* with the voter set: one durable vote per base, the promoted epoch and   *)
(* the promoted membership record.                                         *)
(*                                                                         *)
(* A membership record names its predecessor by hash, so it is modelled by *)
(* the history it closes: a sequence of [epoch, authority, members].       *)
(***************************************************************************)
EXTENDS Naturals, Sequences, FiniteSets, SequencesExt

CONSTANTS
    Peers,
    Founders,       \* the members of the first record
    Founder,        \* their authority
    Joiners,        \* peers that may ask to join
    Leavers,        \* members that may ask to leave
    MaxSequence,    \* bound on membership sequence numbers
    MaxEpoch,       \* bound on authority epochs
    MaxStops,       \* bound on daemons that stop inside a commit
    None

(* One membership record without its predecessor. *)
Revisions == [epoch : Nat, authority : Peers, members : SUBSET Peers]

(* What the constants stand for: finitely many peers, founded by some of   *)
(* them, and an absent file that is no record.                             *)
MembershipConstants ==
    /\ IsFiniteSet(Peers)
    /\ Founder \in Founders /\ Founders \subseteq Peers
    /\ None \notin Seq(Revisions)

ASSUME MembershipAssumption == MembershipConstants

VARIABLES
    record,         \* membership.postcard
    descriptor,     \* the members of descriptor.json
    promise,        \* membership-promise.postcard: the prepared record
    history,        \* membership-certificates/, one file per sequence
    latest,         \* membership-certificate.postcard
    pendingJoin,    \* pending-join.postcard
    pendingLeave,   \* pending-leave.postcard: the record it refers to
    votes,          \* membership_votes of the daemon's memory
    accepted,       \* epoch.postcard: the number and the authority
    ballot,         \* recovery-promise.postcard: the vote and its base
    wire,           \* requests and responses under way
    ended,          \* daemons whose tick returned an error
    stopped         \* daemons stopped so far

vars == <<record, descriptor, promise, history, latest, pendingJoin, pendingLeave,
          votes, accepted, ballot, wire, ended, stopped>>

recovery == <<accepted, ballot>>
staged == <<pendingJoin, pendingLeave>>

Authority(r) == Last(r).authority
Members(r) == Last(r).members
Next_record(r, members) == Append(r, [Last(r) EXCEPT !.members = members])

(* Mutated form of Majority: half of the voters suffices. *)
Half(of, voters) == 2 * Cardinality(of \cap voters) >= Cardinality(voters)

Majority(of, voters) == 2 * Cardinality(of \cap voters) > Cardinality(voters)

Send(ms) == wire' = wire \cup ms
Reply(m, ms) == wire' = (wire \ {m}) \cup ms
Received(t) == {m \in wire : m.type = t /\ m.to \notin ended}

Alive(p) == p \notin ended

(***************************************************************************)
(* Storage: the durable prepare and the commit of a certificate.           *)
(***************************************************************************)
(* An equal prepare is idempotent, a conflicting one is refused. *)
CanPromise(p, r) == promise[p] \in {None, r}

promise_membership_proposal(p, r) == [promise EXCEPT ![p] = r]

(* save_membership_certificate creates the history file once. *)
HistoryAllows(p, c) == \A d \in history[p] : Len(d.record) = Len(c.record) => d = c

(* save_membership_record: the record extends the saved one in the         *)
(* accepted epoch, or bootstraps a peer whose join the certificate holds.  *)
RecordAllows(p, r) ==
    IF record[p] = None
    THEN /\ pendingJoin[p] /\ p \in Members(r)
         /\ Authority(Front(r)) = Founder
    ELSE \/ record[p] = r
         \/ /\ record[p] = Front(r)
            /\ LET now == IF accepted[p] = None
                          THEN [number |-> Last(record[p]).epoch, authority |-> Authority(record[p])]
                          ELSE accepted[p]
               IN  Last(r).epoch = now.number /\ Authority(r) = now.authority

(* Mutated form of certificate_valid: the voters of the old set alone. *)
OldQuorumOnly(c) ==
    /\ c.votes \subseteq Members(Front(c.record)) \cup Members(c.record)
    /\ Majority(c.votes, Members(Front(c.record)))

(* validate_membership_certificate_shape: majorities of both voter sets. *)
certificate_valid(c) ==
    /\ Authority(c.record) \in Members(Front(c.record)) \cap Members(c.record)
    /\ c.votes \subseteq Members(Front(c.record)) \cup Members(c.record)
    /\ Majority(c.votes, Members(Front(c.record)))
    /\ Majority(c.votes, Members(c.record))

(* proposal_member and the pending join of a peer without a record. *)
ProposalForLocal(p, r) ==
    /\ p \in Members(Front(r)) \cup Members(r)
    /\ IF record[p] # None THEN record[p] = Front(r)
       ELSE pendingJoin[p] /\ p \in Members(r) /\ Authority(Front(r)) = Founder

CertificateForLocal(p, c) ==
    /\ certificate_valid(c)
    /\ record[p] = c.record \/ ProposalForLocal(p, c.record)
    /\ CanPromise(p, c.record)

(* The writes of a commit in their order: the history file, the latest     *)
(* certificate, the record, the descriptor, the removal of the prepare and *)
(* of the satisfied requests.  A daemon that stops has done the first k.   *)
Writes == 6
LastWrite(p, c) == IF RecordAllows(p, c.record) THEN Writes ELSE 2

Written(p, c, k) ==
    /\ history' = [history EXCEPT ![p] = IF k >= 1 THEN @ \cup {c} ELSE @]
    /\ latest' = [latest EXCEPT ![p] = IF k >= 2 THEN c ELSE @]
    /\ record' = [record EXCEPT ![p] = IF k >= 3 THEN c.record ELSE @]
    /\ descriptor' = [descriptor EXCEPT ![p] = IF k >= 4 THEN Members(c.record) ELSE @]
    /\ promise' = [promise EXCEPT ![p] = IF k >= 5 /\ @ = c.record THEN None ELSE @]
    /\ pendingJoin' = [pendingJoin EXCEPT ![p] = @ /\ ~(k >= 6 /\ p \in Members(c.record))]
    /\ pendingLeave' = [pendingLeave EXCEPT ![p] =
                          IF k >= 6 /\ p \notin Members(c.record) THEN None ELSE @]

Stops(p) ==
    /\ stopped < MaxStops
    /\ stopped' = stopped + 1
    /\ votes' = [votes EXCEPT ![p] = {}]

(***************************************************************************)
(* The commands and the requests they stage.                               *)
(***************************************************************************)
(* world join: the invite names its inviter, here always the founder. *)
Join(p) ==
    /\ Alive(p)
    /\ p \in Joiners \ Founders /\ record[p] = None /\ ~pendingJoin[p]
    /\ pendingJoin' = [pendingJoin EXCEPT ![p] = TRUE]
    /\ descriptor' = [descriptor EXCEPT ![p] = {Founder}]
    /\ UNCHANGED <<record, promise, history, latest, pendingLeave, votes, recovery, wire,
                   ended, stopped>>

(* Mutated form of Leave: the authority may ask as well. *)
AuthorityLeaves(p) ==
    /\ Alive(p)
    /\ p \in Leavers /\ record[p] # None /\ p \in descriptor[p]
    /\ pendingLeave[p] # record[p]
    /\ pendingLeave' = [pendingLeave EXCEPT ![p] = record[p]]
    /\ UNCHANGED <<record, descriptor, promise, history, latest, pendingJoin, votes, recovery,
                   wire, ended, stopped>>

Leave(p) ==
    /\ Alive(p)
    /\ p \in Leavers /\ record[p] # None /\ p \in descriptor[p]
    /\ Authority(record[p]) # p
    /\ pendingLeave[p] # record[p]
    /\ pendingLeave' = [pendingLeave EXCEPT ![p] = record[p]]
    /\ UNCHANGED <<record, descriptor, promise, history, latest, pendingJoin, votes, recovery,
                   wire, ended, stopped>>

(* Each time a connection is authenticated. *)
push_pending_membership_requests(p) ==
    /\ Alive(p)
    /\ \/ /\ pendingJoin[p]
          /\ Send({[type |-> "join", from |-> p, to |-> Founder]})
       \/ /\ pendingLeave[p] # None /\ record[p] # None
          /\ Send({[type |-> "leave", from |-> p, to |-> Authority(record[p]),
                    hash |-> pendingLeave[p]]})
    /\ wire' # wire
    /\ UNCHANGED <<record, descriptor, promise, history, latest, staged, votes, recovery,
                   ended, stopped>>

Proposal(a, p, r) == [type |-> "proposal", from |-> a, to |-> p, record |-> r]

(* JoinRequest and LeaveRequest with the members they lead to: a new       *)
(* prepare, or the one that already says so sent again.                    *)
Propose(a, m, members) ==
    LET r == Next_record(record[a], members)
    IN  /\ Len(r) <= MaxSequence
        /\ CanPromise(a, r)
        /\ promise' = promise_membership_proposal(a, r)
        /\ votes' = [votes EXCEPT ![a] = IF promise[a] = None THEN {a} ELSE @]
        /\ Reply(m, {Proposal(a, m.from, r)})

JoinRequest(m) ==
    LET a == m.to
    IN  /\ m \in Received("join")
        /\ IF /\ record[a] # None /\ Authority(record[a]) = a
              /\ a = Founder
              /\ m.from \notin descriptor[a]
              /\ CanPromise(a, Next_record(record[a], descriptor[a] \cup {m.from}))
           THEN Propose(a, m, descriptor[a] \cup {m.from})
           ELSE Reply(m, {}) /\ UNCHANGED <<promise, votes>>
        /\ UNCHANGED <<record, descriptor, history, latest, staged, recovery, ended, stopped>>

LeaveRequest(m) ==
    LET a == m.to
    IN  /\ m \in Received("leave")
        /\ IF /\ record[a] # None /\ Authority(record[a]) = a
              /\ m.hash = record[a]
              /\ m.from \in descriptor[a]
              /\ CanPromise(a, Next_record(record[a], descriptor[a] \ {m.from}))
           THEN Propose(a, m, descriptor[a] \ {m.from})
           ELSE Reply(m, {}) /\ UNCHANGED <<promise, votes>>
        /\ UNCHANGED <<record, descriptor, history, latest, staged, recovery, ended, stopped>>

(***************************************************************************)
(* Prepare, vote, commit.                                                  *)
(***************************************************************************)
MembershipProposal(m) ==
    LET p == m.to
        ok == ProposalForLocal(p, m.record) /\ CanPromise(p, m.record)
    IN  /\ m \in Received("proposal")
        /\ IF ok
           THEN /\ promise' = promise_membership_proposal(p, m.record)
                /\ Reply(m, {[type |-> "vote", from |-> p, to |-> m.from, record |-> m.record]})
           ELSE Reply(m, {}) /\ UNCHANGED promise
        /\ UNCHANGED <<record, descriptor, history, latest, staged, votes, recovery, ended, stopped>>

(* A vote without a prepare is late; one for another proposal is an error  *)
(* that ends the daemon.                                                   *)
MembershipVote(m) ==
    LET a == m.to
    IN  /\ m \in Received("vote")
        /\ Reply(m, {})
        /\ votes' = [votes EXCEPT ![a] = IF promise[a] = m.record THEN @ \cup {m.from} ELSE @]
        /\ ended' = IF promise[a] \in {None, m.record} THEN ended ELSE ended \cup {a}
        /\ UNCHANGED <<record, descriptor, promise, history, latest, staged, recovery, stopped>>

Asked(a, r) == {p \in (Members(Front(r)) \cup Members(r)) \ {a} :
                  ~\E m \in wire : /\ m.type \in {"proposal", "vote"} /\ m.record = r
                                   /\ {m.from, m.to} = {a, p}}

Commits(a, c) ==
    {[type |-> "commit", from |-> a, to |-> p, record |-> c.record, votes |-> c.votes] :
        p \in (Members(Front(c.record)) \cup Members(c.record)) \ {a}}

(* The certificate on disk is not applied yet, and the tick applies it     *)
(* before anything else.                                                   *)
Unapplied(p) ==
    /\ latest[p] # None
    /\ record[p] # latest[p].record
    /\ record[p] # None => Len(record[p]) <= Len(latest[p].record)

(* recover_committed_membership: an applied certificate only clears the    *)
(* prepare; one that cannot be applied ends the daemon.                    *)
recover_committed_membership(p) ==
    LET c == latest[p]
    IN  /\ Alive(p)
        /\ c # None
        /\ \/ /\ record[p] = c.record /\ promise[p] = c.record
              /\ promise' = [promise EXCEPT ![p] = None]
              /\ UNCHANGED <<record, descriptor, history, latest, staged, ended>>
           \/ /\ Unapplied(p)
              /\ IF CertificateForLocal(p, c) /\ RecordAllows(p, c.record)
                 THEN Written(p, c, Writes) /\ UNCHANGED ended
                 ELSE /\ ended' = ended \cup {p}
                      /\ UNCHANGED <<record, descriptor, promise, history, latest, staged>>
        /\ UNCHANGED <<votes, recovery, wire, stopped>>

(* maintain_membership_transition, the proposer's tick: ask again, and     *)
(* commit when both majorities are there.                                  *)
maintain_membership_transition(a) ==
    LET r == promise[a]
        c == [record |-> r, votes |-> votes[a] \cup {a}]
    IN  /\ Alive(a) /\ r # None
        /\ Authority(r) = a
        /\ ~Unapplied(a) /\ record[a] # r
        /\ IF record[a] # Front(r)
           THEN /\ ended' = ended \cup {a}
                /\ UNCHANGED <<record, descriptor, promise, history, latest, staged, votes,
                               wire, stopped>>
           ELSE IF ~certificate_valid(c)
           THEN /\ Send({Proposal(a, p, r) : p \in Asked(a, r)})
                /\ votes' = [votes EXCEPT ![a] = c.votes]
                /\ UNCHANGED <<record, descriptor, promise, history, latest, staged, ended, stopped>>
           ELSE IF ~HistoryAllows(a, c)
           THEN /\ ended' = ended \cup {a}
                /\ UNCHANGED <<record, descriptor, promise, history, latest, staged, votes,
                               wire, stopped>>
           ELSE \/ /\ Written(a, c, Writes)
                   /\ votes' = [votes EXCEPT ![a] = {}]
                   /\ Send(Commits(a, c))
                   /\ UNCHANGED <<ended, stopped>>
                \/ /\ \E k \in 1 .. Writes - 1 : Written(a, c, k)
                   /\ Stops(a)
                   /\ UNCHANGED <<wire, ended>>
        /\ UNCHANGED recovery

MembershipCommit(m) ==
    LET p == m.to
        c == [record |-> m.record, votes |-> m.votes]
    IN  /\ m \in Received("commit")
        /\ Reply(m, {})
        /\ IF CertificateForLocal(p, c) /\ HistoryAllows(p, c)
           THEN \/ /\ Written(p, c, LastWrite(p, c))
                   /\ votes' = [votes EXCEPT ![p] = IF LastWrite(p, c) = Writes THEN {} ELSE @]
                   /\ UNCHANGED stopped
                \/ /\ \E k \in 1 .. LastWrite(p, c) - 1 : Written(p, c, k)
                   /\ Stops(p)
           ELSE UNCHANGED <<record, descriptor, promise, history, latest, staged, votes, stopped>>
        /\ UNCHANGED <<recovery, ended>>

(* A request or a response is lost with its connection. *)
Lose(m) ==
    /\ m \in wire
    /\ Reply(m, {})
    /\ UNCHANGED <<record, descriptor, promise, history, latest, staged, votes, recovery,
                   ended, stopped>>

(***************************************************************************)
(* Recovery of the authority over the same records.                        *)
(***************************************************************************)
Base(p) == [epoch |-> accepted[p].number, record |-> record[p]]

CanVote(p) == Alive(p) /\ promise[p] = None /\ record[p] # None /\ accepted[p] # None

(* drive_recovery_ballot of the candidate and RecoveryBallot of a voter:   *)
(* one durable vote per base, on the exact membership hash.                *)
RecoveryBallot(p, c) ==
    /\ accepted[c] # None /\ accepted[c].number < MaxEpoch /\ Len(record[c]) < MaxSequence
    /\ CanVote(p) /\ CanVote(c)
    /\ Base(p) = Base(c)
    /\ p \in descriptor[c] /\ c \in descriptor[p]
    /\ accepted[p].authority \notin {p, c}
    /\ ballot[p] # None => ballot[p].base # Base(p)
    /\ p # c => ballot[c] # None /\ ballot[c] = [for |-> c, base |-> Base(c)]
    /\ ballot' = [ballot EXCEPT ![p] = [for |-> c, base |-> Base(c)]]
    /\ UNCHANGED <<record, descriptor, promise, history, latest, staged, votes, accepted, wire,
                   ended, stopped>>

BallotVotes(c) == {p \in Peers : ballot[p] # None /\ ballot[p] = [for |-> c, base |-> Base(c)]}

(* A majority of the members voted, and nobody else did. *)
validate_recovery_certificate_shape(voters, members) ==
    voters \subseteq members /\ Majority(voters, members)

(* The votes reach the candidate, which promotes itself and extends the    *)
(* membership record in its own name (ensure_recovery_artifacts).          *)
Promote(c) ==
    /\ CanVote(c)
    /\ validate_recovery_certificate_shape(BallotVotes(c), descriptor[c])
    /\ accepted' = [accepted EXCEPT ![c] = [number |-> @.number + 1, authority |-> c]]
    /\ record' = [record EXCEPT ![c] = Append(@, [epoch |-> accepted[c].number + 1,
                                                  authority |-> c, members |-> Last(@).members])]
    /\ ballot' = [ballot EXCEPT ![c] = None]
    /\ Send({[type |-> "epoch", from |-> c, to |-> p, base |-> Base(c), voters |-> BallotVotes(c)] :
               p \in Members(record[c]) \ {c}})
    /\ UNCHANGED <<descriptor, promise, history, latest, staged, votes, ended, stopped>>

(* validate_recovery_epoch: the certificate is for the local base, and     *)
(* counts against the members of the local record.                         *)
validate_recovery_epoch(p, m) ==
    /\ m.from \in descriptor[p]
    /\ Base(p) = m.base
    /\ validate_recovery_certificate_shape(m.voters, Members(record[p]))

(* RecoveryEpoch and, once its lease is acknowledged, the promoted record  *)
(* (Membership).                                                           *)
RecoveryEpoch(m) ==
    LET p == m.to
        ok == CanVote(p) /\ validate_recovery_epoch(p, m)
    IN  /\ m \in Received("epoch")
        /\ IF ok
           THEN /\ accepted' = [accepted EXCEPT ![p] = [number |-> @.number + 1, authority |-> m.from]]
                /\ ballot' = [ballot EXCEPT ![p] = None]
                /\ Reply(m, {[type |-> "membership", from |-> m.from, to |-> p,
                              record |-> record[m.from]]})
           ELSE Reply(m, {}) /\ UNCHANGED recovery
        /\ UNCHANGED <<record, descriptor, promise, history, latest, staged, votes, ended, stopped>>

Membership(m) ==
    LET p == m.to
        ok == /\ record[p] # None
              /\ Members(m.record) = Members(record[p])
              /\ RecordAllows(p, m.record)
    IN  /\ m \in Received("membership")
        /\ Reply(m, {})
        /\ record' = [record EXCEPT ![p] = IF ok THEN m.record ELSE @]
        /\ descriptor' = [descriptor EXCEPT ![p] = IF ok THEN Members(m.record) ELSE @]
        /\ UNCHANGED <<promise, history, latest, staged, votes, recovery, ended, stopped>>

(* A new member accepts the epoch its authority pushes after the commit. *)
Epoch(p) ==
    /\ Alive(p) /\ record[p] # None /\ accepted[p] = None /\ promise[p] = None
    /\ accepted' = [accepted EXCEPT ![p] = [number |-> Last(record[p]).epoch,
                                            authority |-> Authority(record[p])]]
    /\ UNCHANGED <<record, descriptor, promise, history, latest, staged, votes, ballot, wire,
                   ended, stopped>>

Init ==
    /\ record = [p \in Peers |-> IF p \in Founders
                   THEN <<[epoch |-> 1, authority |-> Founder, members |-> Founders]>> ELSE None]
    /\ descriptor = [p \in Peers |-> IF p \in Founders THEN Founders ELSE {}]
    /\ promise = [p \in Peers |-> None]
    /\ history = [p \in Peers |-> {}]
    /\ latest = [p \in Peers |-> None]
    /\ pendingJoin = [p \in Peers |-> FALSE]
    /\ pendingLeave = [p \in Peers |-> None]
    /\ votes = [p \in Peers |-> {}]
    /\ accepted = [p \in Peers |-> IF p \in Founders THEN [number |-> 1, authority |-> Founder]
                                   ELSE None]
    /\ ballot = [p \in Peers |-> None]
    /\ wire = {} /\ ended = {} /\ stopped = 0

Next ==
    \/ \E p \in Peers :
        \/ Join(p) \/ Leave(p)
        \/ push_pending_membership_requests(p)
        \/ recover_committed_membership(p)
        \/ maintain_membership_transition(p)
        \/ Promote(p) \/ Epoch(p)
        \/ \E c \in Peers : RecoveryBallot(p, c)
    \/ \E m \in wire :
        \/ JoinRequest(m) \/ LeaveRequest(m)
        \/ MembershipProposal(m) \/ MembershipVote(m) \/ MembershipCommit(m)
        \/ RecoveryEpoch(m) \/ Membership(m)
        \/ Lose(m)

Spec == Init /\ [][Next]_vars

-----------------------------------------------------------------------------
Records == UNION {{record[p], promise[p]} : p \in Peers} \ {None}

(* The type of the state. *)
TypeOK ==
    /\ \A r \in Records : /\ Len(r) \in 1 .. MaxSequence
                          /\ \A i \in DOMAIN r : /\ r[i].epoch \in 1 .. MaxEpoch
                                                 /\ r[i].members \subseteq Peers
                                                 /\ r[i].authority \in r[i].members
    /\ \A p \in Peers : /\ descriptor[p] \subseteq Peers /\ votes[p] \subseteq Peers
                        /\ Cardinality(history[p]) < MaxSequence
    /\ ended \subseteq Peers /\ stopped \in 0 .. MaxStops

Changed(r) == Len(r) > 1 /\ Members(r) # Members(Front(r))

Holds(q, r) == promise[q] = r \/ (record[q] # None /\ IsPrefix(r, record[q]))

(* A voter set that any peer activated is prepared or held by a majority   *)
(* of the voters before it and of its own voters, through crashes between  *)
(* any two writes of the commit.                                           *)
ActivatedByBothMajorities ==
    \A p \in Peers : record[p] # None /\ Changed(record[p]) =>
        LET holders == {q \in Peers : Holds(q, record[p])}
        IN  Majority(holders, Members(Front(record[p]))) /\ Majority(holders, Members(record[p]))

(* The peers that could grant p its permit. *)
Backers(p) == {q \in descriptor[p] : accepted[q] = accepted[p] /\ promise[q] = None}

Backed(p) ==
    /\ Alive(p) /\ accepted[p] # None /\ accepted[p].authority = p /\ promise[p] = None
    /\ Majority(Backers(p), descriptor[p])

(* Two authorities are never backed by a majority of their own voter sets  *)
(* at once, whatever voter sets they have reached.                         *)
OneBacked == \A p, q \in Peers : Backed(p) /\ Backed(q) => p = q
=============================================================================
