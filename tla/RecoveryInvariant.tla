------------------------- MODULE RecoveryInvariant -------------------------
(***************************************************************************)
(* Why AuthorityRecovery keeps one log of authorities: the inductive       *)
(* invariant that its proofs rest on.                                      *)
(***************************************************************************)
EXTENDS AuthorityRecovery

(* A vote is for the generation its voter is at, or one it has left.       *)
SignedInRange ==
    \A s \in signed :
        Len(Lineage) <= s.ballot.base /\ s.ballot.base <= Generation(s.voter)

(* Until its generation advances, a voter's promise stays with the         *)
(* candidate it voted for.                                                 *)
PromiseKept ==
    \A s \in signed :
        \/ s.ballot.base < Generation(s.voter)
        \/ /\ disk[s.voter].promise.base = s.ballot.base
           /\ disk[s.voter].promise.cand = s.ballot.cand

(* A member never votes for two candidates on one base.                    *)
OneCandidate ==
    \A s, t \in signed :
        s.voter = t.voter /\ s.ballot.base = t.ballot.base => s.ballot.cand = t.ballot.cand

PromiseSigned ==
    \A p \in Peers :
        disk[p].promise # NoBallot => [voter |-> p, ballot |-> disk[p].promise] \in signed

(* Votes on their way to, or counted by, a candidate have been signed.     *)
VotesSigned ==
    /\ \A m \in replies : m.refused \/ [voter |-> m.voter, ballot |-> m.ballot] \in signed
    /\ \A p \in Peers :
          /\ rt[p].ballot = NoBallot \/ rt[p].ballot.cand = p
          /\ \A v \in rt[p].votes : [voter |-> v, ballot |-> rt[p].ballot] \in signed

(* A majority voted for a as the authority of generation g.                *)
VotedFor(votes, v, g, a) ==
    \E s \in votes : s.voter = v /\ s.ballot.base + 1 = g /\ s.ballot.cand = a
Chosen(votes, g, a) ==
    \E Q \in SUBSET Peers :
        has_quorum(N, Cardinality(Q)) /\ \A v \in Q : VotedFor(votes, v, g, a)

(* An accepted chain is the lineage followed by chosen authorities.        *)
ChainChosen(votes, chain) ==
    /\ Len(chain) >= Len(Lineage)
    /\ \A g \in 1 .. Len(chain) :
          IF g <= Len(Lineage) THEN chain[g] = Lineage[g] ELSE Chosen(votes, g, chain[g])
ChainsChosen ==
    /\ \A p \in Peers : ChainChosen(signed, disk[p].epoch)
    /\ \A m \in epochReqs : ChainChosen(signed, m.epoch)

(* A member whose lease acknowledgement counts has accepted the authority. *)
AcksAccepted ==
    \A p \in Peers : \A q \in rt[p].leaseAcks :
        /\ q # p /\ Generation(q) >= Generation(p)
        /\ disk[q].epoch[Generation(p)] = Authority(p)

(* Durable votes bind every chain a daemon stores or sends: each signed    *)
(* vote is backed by the voter's stored promise until its generation       *)
(* advances (promise_recovery_ballot, clear_recovery_promise), every       *)
(* generation past the lineage was voted for by a majority, and what an    *)
(* authority counts as acknowledged has really been accepted.              *)
VotesBindChains ==
    /\ SignedInRange /\ PromiseKept /\ OneCandidate /\ PromiseSigned
    /\ VotesSigned /\ ChainsChosen /\ AcksAccepted
=============================================================================
