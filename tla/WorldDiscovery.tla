---------------------------- MODULE WorldDiscovery ----------------------------
(***************************************************************************)
(* Finding a world without knowing its members                             *)
(* (crates/swarm-cli/src/discovery.rs, the record checks of                *)
(* crates/swarm-core/src/discovery.rs and the freshness quorum of          *)
(* crates/swarm-consensus/src/membership.rs).                              *)
(*                                                                         *)
(* Every member's discovery service answers from the records its daemon    *)
(* stores, and those move while a search runs: a recovery is promised and  *)
(* installed, the membership changes, the authority publishes a revision.  *)
(* A stranger collects announcements from whoever provides the world, and  *)
(* believes one only when a quorum of voters signs a challenge drawn after *)
(* it was received.                                                        *)
(***************************************************************************)
EXTENDS Naturals, Sequences, FiniteSets

CONSTANTS
    Founders,       \* the voters of the initial membership
    Creator,        \* the founder that is the authority of generation 0
    Joiners,        \* peers a membership change may add
    Recoverers,     \* bound: the founders that start a recovery
    MaxGeneration,  \* bound: recoveries
    MaxRevision,    \* bound: world configs published
    MaxRefresh,     \* bound: times each authority refreshes its announcement
    MaxCandidates,  \* bound: announcements one search collects
    Nothing

DiscoveryConstants ==
    /\ IsFiniteSet(Founders) /\ IsFiniteSet(Joiners) /\ Creator \in Founders
    /\ MaxGeneration \in Nat /\ MaxRevision \in Nat /\ MaxRefresh \in Nat

ASSUME DiscoveryAssumption == DiscoveryConstants

VARIABLES
    holder,     \* the authority of each generation, Nothing before it is installed
    accepted,   \* per peer: the generation of load_epoch_record
    promised,   \* per peer: the target generation of load_recovery_promise
    roll,       \* per peer: load_membership_record
    draft,      \* per peer: the voter set proposed in load_membership_promise
    revision,   \* per peer: load_world_config, its number and its signer
    announced,  \* per peer: PublishedDiscoveryState.announcements
    signed,     \* per peer: signed_freshness_challenges
    search      \* the search of one stranger

worldVars == <<holder, accepted, promised, roll, draft, revision>>
discoveryVars == <<worldVars, announced, signed, search>>

Peers == Founders \cup Joiners

Rolls == [no : Nat, by : Peers, gen : 0 .. MaxGeneration, voters : SUBSET Peers]
Revisions == [no : 0 .. MaxRevision, by : Peers]
Announcements == [by : Peers, gen : 0 .. MaxGeneration, roll : Rolls, revision : Revisions,
                  sequence : 1 .. MaxRefresh]

Drafts == {Nothing} \cup SUBSET Peers
Contexts == [kind : {"context"}, from : Peers, roll : Rolls, draft : Drafts]
Votes == [kind : {"vote"}, from : Peers, nonce : Nat, draft : Drafts]

\* candidates are proved in order, number nonce being the one in hand; superseded
\* records whether the world had moved past it when its nonce was drawn.
Searches ==
    [phase : {"collect", "prove", "done"}, candidates : Seq(Announcements), nonce : Nat,
     superseded : BOOLEAN, proof : Contexts \cup {Nothing}, asked : SUBSET Peers,
     replies : SUBSET (Contexts \cup Votes), votes : SUBSET [from : Peers, draft : Drafts],
     rejected : SUBSET {"invalid", "stale"},
     proven : Seq([of : Announcements, superseded : BOOLEAN]),
     result : Announcements \cup {Nothing}]

Idle == [phase |-> "collect", candidates |-> <<>>, nonce |-> 0, superseded |-> FALSE,
         proof |-> Nothing, asked |-> {}, replies |-> {}, votes |-> {}, rejected |-> {},
         proven |-> <<>>, result |-> Nothing]

DiscoveryTypeOK ==
    /\ holder \in [0 .. MaxGeneration -> Peers \cup {Nothing}]
    /\ accepted \in [Peers -> 0 .. MaxGeneration]
    /\ promised \in [Peers -> 0 .. MaxGeneration]
    /\ roll \in [Peers -> Rolls]
    /\ draft \in [Peers -> Drafts]
    /\ revision \in [Peers -> Revisions]
    /\ announced \in [Peers -> Announcements \cup {Nothing}]
    /\ signed \in [Peers -> SUBSET Nat]
    /\ search \in Searches

DiscoveryInit ==
    /\ holder = [g \in 0 .. MaxGeneration |-> IF g = 0 THEN Creator ELSE Nothing]
    /\ accepted = [p \in Peers |-> 0]
    /\ promised = [p \in Peers |-> 0]
    /\ roll = [p \in Peers |-> [no |-> 0, by |-> Creator, gen |-> 0, voters |-> Founders]]
    /\ draft = [p \in Peers |-> Nothing]
    /\ revision = [p \in Peers |-> [no |-> 0, by |-> Creator]]
    /\ announced = [p \in Peers |-> Nothing]
    /\ signed = [p \in Peers |-> {}]
    /\ search = Idle

\* The majority rule every certificate of the swarm uses.
Majority(set, of) == 2 * Cardinality(set \cap of) > Cardinality(of)

IsAuthority(p) == holder[accepted[p]] = p

-----------------------------------------------------------------------------
(* What the members' daemons write.  The protocols behind these steps are   *)
(* AuthorityRecovery and MembershipConsensus; here they are what discovery  *)
(* reads of them.                                                           *)

RecoveryBallot(p) ==
    /\ promised[p] <= accepted[p] /\ accepted[p] < MaxGeneration /\ draft[p] = Nothing
    /\ promised' = [promised EXCEPT ![p] = accepted[p] + 1]
    /\ UNCHANGED <<holder, accepted, roll, draft, revision, announced, signed, search>>

Recovered(p) ==
    LET g == accepted[p] + 1 IN
    /\ g <= MaxGeneration /\ holder[g] = Nothing /\ p \in Recoverers \cap roll[p].voters
    /\ Majority({q \in Peers : promised[q] >= g}, roll[p].voters)
    /\ holder' = [holder EXCEPT ![g] = p]
    /\ accepted' = [accepted EXCEPT ![p] = g]
    /\ UNCHANGED <<promised, roll, draft, revision, announced, signed, search>>

\* The new authority signs the membership again before it hosts.
Promoted(p) ==
    /\ IsAuthority(p) /\ roll[p].gen < accepted[p]
    /\ roll' = [roll EXCEPT ![p] = [no |-> @.no + 1, by |-> p, gen |-> accepted[p],
                                         voters |-> @.voters]]
    /\ UNCHANGED <<holder, accepted, promised, draft, revision, announced, signed, search>>

Proposed(p) ==
    /\ IsAuthority(p) /\ draft[p] = Nothing /\ Joiners \ roll[p].voters # {}
    /\ draft' = [draft EXCEPT ![p] = roll[p].voters \cup Joiners]
    /\ UNCHANGED <<holder, accepted, promised, roll, revision, announced, signed, search>>

\* promise_membership_proposal on another voter.
MembershipPromise(p, q) ==
    /\ draft[q] # Nothing /\ draft[p] = Nothing /\ roll[p] = roll[q] /\ p \in draft[q]
    /\ draft' = [draft EXCEPT ![p] = draft[q]]
    /\ UNCHANGED <<holder, accepted, promised, roll, revision, announced, signed, search>>

Activated(p) ==
    LET backing == {q \in Peers : draft[q] = draft[p] /\ roll[q] = roll[p]} IN
    /\ IsAuthority(p) /\ draft[p] # Nothing
    /\ Majority(backing, roll[p].voters) /\ Majority(backing, draft[p])
    /\ roll' = [roll EXCEPT ![p] = [no |-> @.no + 1, by |-> p, gen |-> @.gen, voters |-> draft[p]]]
    /\ draft' = [draft EXCEPT ![p] = Nothing]
    /\ UNCHANGED <<holder, accepted, promised, revision, announced, signed, search>>

Published(p) ==
    /\ IsAuthority(p) /\ revision[p].no < MaxRevision
    /\ revision' = [revision EXCEPT ![p] = [no |-> @.no + 1, by |-> p]]
    /\ UNCHANGED <<holder, accepted, promised, roll, draft, announced, signed, search>>

\* A member catches up with another, one record at a time: a membership
\* prepare fences the epoch, and a config must extend the stored one and be
\* signed by the authority of the stored epoch.
FollowEpoch(p, q) ==
    /\ accepted[q] > accepted[p] /\ draft[p] = Nothing
    /\ accepted' = [accepted EXCEPT ![p] = accepted[q]]
    /\ UNCHANGED <<holder, promised, roll, draft, revision, announced, signed, search>>

FollowRoll(p, q) ==
    /\ roll[q].no > roll[p].no
    /\ roll' = [roll EXCEPT ![p] = roll[q]]
    /\ draft' = [draft EXCEPT ![p] = Nothing]
    /\ UNCHANGED <<holder, accepted, promised, revision, announced, signed, search>>

FollowRevision(p, q) ==
    /\ revision[q].no = revision[p].no + 1
    /\ revision[q].by = q /\ holder[accepted[p]] = q
    /\ revision' = [revision EXCEPT ![p] = revision[q]]
    /\ UNCHANGED <<holder, accepted, promised, roll, draft, announced, signed, search>>

World ==
    \/ \E p \in Peers : \/ RecoveryBallot(p) \/ Recovered(p) \/ Promoted(p)
                        \/ Proposed(p) \/ Activated(p) \/ Published(p)
    \/ \E p, q \in Peers : \/ MembershipPromise(p, q) \/ FollowEpoch(p, q)
                           \/ FollowRoll(p, q) \/ FollowRevision(p, q)

-----------------------------------------------------------------------------
(* The discovery service of a member. *)

\* next_discovery_sequence: above the previous one of this authority.
NextSequence(p) == IF announced[p] = Nothing THEN 1 ELSE announced[p].sequence + 1

\* refresh_publications: the authority announces what it has stored; everyone
\* else withdraws.
refresh_publications(p) ==
    /\ NextSequence(p) <= MaxRefresh
    /\ announced' = [announced EXCEPT ![p] =
           IF p \in roll[p].voters /\ IsAuthority(p)
           THEN [by |-> p, gen |-> accepted[p], roll |-> roll[p], revision |-> revision[p],
                 sequence |-> NextSequence(p)]
           ELSE Nothing]
    /\ announced' # announced
    /\ UNCHANGED <<worldVars, signed, search>>

Candidate == search.candidates[search.nonce]

\* DiscoveryFreshnessContext: the announcer proves the membership it has now,
\* which need not be the one it announced.  The answer carries no nonce.
DiscoveryFreshnessContext(p) ==
    /\ search.phase = "prove" /\ p = Candidate.by /\ announced[p] = Candidate
    /\ search' = [search EXCEPT !.replies =
           @ \cup {[kind |-> "context", from |-> p, roll |-> roll[p], draft |-> draft[p]]}]
    /\ search' # search
    /\ UNCHANGED <<worldVars, announced, signed>>

\* A mutated form: a voter looks at what is installed, not at what it promised.
InstalledOnly(p) ==
    /\ roll[p] = Candidate.roll
    /\ accepted[p] = Candidate.gen /\ holder[accepted[p]] = Candidate.by
    /\ revision[p] = Candidate.revision /\ draft[p] = search.proof.draft

local_state_matches_freshness_challenge(p) ==
    /\ roll[p] = Candidate.roll
    /\ promised[p] <= Candidate.gen
    /\ accepted[p] = Candidate.gen /\ holder[accepted[p]] = Candidate.by
    /\ revision[p] = Candidate.revision /\ revision[p].by = Candidate.by
    /\ draft[p] = search.proof.draft
    /\ p \in roll[p].voters \/ (draft[p] # Nothing /\ p \in draft[p])

DiscoveryFreshnessVote(p) ==
    /\ search.phase = "prove" /\ p \in search.asked /\ search.nonce \notin signed[p]
    /\ local_state_matches_freshness_challenge(p)
    /\ signed' = [signed EXCEPT ![p] = @ \cup {search.nonce}]
    /\ search' = [search EXCEPT !.replies =
           @ \cup {[kind |-> "vote", from |-> p, nonce |-> search.nonce, draft |-> search.proof.draft]}]
    /\ UNCHANGED <<worldVars, announced>>

-----------------------------------------------------------------------------
(* The stranger. *)

\* What a candidate would have to answer for at the moment its nonce is drawn:
\* a majority of its voters is promised to a later generation, or holds a later
\* membership or config.
Superseded(a) ==
    \/ Majority({q \in Peers : accepted[q] > a.gen \/ promised[q] > a.gen}, a.roll.voters)
    \/ Majority({q \in Peers : roll[q].no > a.roll.no}, a.roll.voters)
    \/ Majority({q \in Peers : revision[q].no > a.revision.no}, a.roll.voters)

\* A mutated form: the votes of one candidate are kept for the next.
VotesKept(found) ==
    IF found.nonce < Len(found.candidates)
    THEN [found EXCEPT !.nonce = @ + 1, !.proof = Nothing, !.asked = {},
                       !.superseded = Superseded(found.candidates[found.nonce + 1])]
    ELSE [found EXCEPT !.phase = "done", !.proof = Nothing, !.asked = {}]

\* The next candidate gets a fresh nonce; after the last one the search reports.
Advance(found) ==
    IF found.nonce < Len(found.candidates)
    THEN [found EXCEPT !.nonce = @ + 1, !.proof = Nothing, !.asked = {}, !.votes = {},
                       !.superseded = Superseded(found.candidates[found.nonce + 1])]
    ELSE [found EXCEPT !.phase = "done", !.proof = Nothing, !.asked = {}, !.votes = {}]

\* DiscoveryPublic and DiscoveryResolve: a provider answers with what it announces.
Responds(p) == announced[p] # Nothing

Collect(p) ==
    /\ search.phase = "collect" /\ Responds(p)
    /\ Len(search.candidates) < MaxCandidates
    /\ \A k \in DOMAIN search.candidates : search.candidates[k] # announced[p]
    /\ search' = [search EXCEPT !.candidates = Append(@, announced[p])]
    /\ UNCHANGED <<worldVars, announced, signed>>

\* DISCOVERY_QUERY_TIMEOUT, or every provider has answered.
Collected ==
    /\ search.phase = "collect"
    /\ search' = Advance([search EXCEPT !.phase = "prove"])
    /\ UNCHANGED <<worldVars, announced, signed>>

verify_discovery_membership_proof(a, proof) ==
    /\ proof.roll = a.roll
    /\ proof.roll.by = a.by /\ proof.roll.gen = a.gen /\ a.by \in proof.roll.voters

\* The answer that does not fit the candidate ends its proof, even when it
\* answers the request of an earlier candidate.
ReceiveContext(r) ==
    /\ search.phase = "prove" /\ r \in search.replies /\ r.kind = "context" /\ r.from = Candidate.by
    /\ LET rest == [search EXCEPT !.replies = @ \ {r}] IN
       search' = IF verify_discovery_membership_proof(Candidate, r)
                 THEN [rest EXCEPT !.proof = r, !.asked = IF search.proof = Nothing THEN Peers ELSE @]
                 ELSE Advance([rest EXCEPT !.rejected = @ \cup {"invalid"}])
    /\ UNCHANGED <<worldVars, announced, signed>>

validate_discovery_freshness_quorum(proof, signers) ==
    IF proof.draft = Nothing
    THEN signers \subseteq proof.roll.voters /\ Majority(signers, proof.roll.voters)
    ELSE /\ signers \subseteq proof.roll.voters \cup proof.draft
         /\ Majority(signers, proof.roll.voters) /\ Majority(signers, proof.draft)

\* AnnouncementReplayGuard: only a later announcement replaces the result.
accept(found) ==
    LET a == found.candidates[found.nonce] IN
    IF found.result = Nothing \/ a.gen > found.result.gen
       \/ (a.gen = found.result.gen /\ a.sequence > found.result.sequence)
    THEN [found EXCEPT !.result = a]
    ELSE [found EXCEPT !.rejected = @ \cup {"stale"}]

\* validate_fresh_discovery_candidate: every vote must be for the challenge in
\* force, which a second context answer may have replaced.
validate_fresh_discovery_candidate(found) ==
    IF \A v \in found.votes : v.draft = found.proof.draft
    THEN accept([found EXCEPT !.proven = Append(@, [of |-> Candidate, superseded |-> found.superseded])])
    ELSE [found EXCEPT !.rejected = @ \cup {"invalid"}]

\* What follows a proven candidate: search_public_worlds goes on to the next
\* one, resolve_world, which collects in the same way, is done.
search_public_worlds(found) == Advance(found)

resolve_world(found) == [found EXCEPT !.phase = "done", !.proof = Nothing, !.asked = {}, !.votes = {}]

ReceiveVote(r) ==
    /\ search.phase = "prove" /\ search.proof # Nothing
    /\ r \in search.replies /\ r.kind = "vote" /\ r.nonce = search.nonce /\ r.draft = search.proof.draft
    /\ LET found == [search EXCEPT !.replies = @ \ {r},
                                   !.votes = @ \cup {[from |-> r.from, draft |-> r.draft]}] IN
       IF validate_discovery_freshness_quorum(found.proof, {v.from : v \in found.votes})
       THEN LET proven == validate_fresh_discovery_candidate(found) IN
            search' \in {search_public_worlds(proven), resolve_world(proven)}
       ELSE search' = found
    /\ UNCHANGED <<worldVars, announced, signed>>

\* DISCOVERY_FRESHNESS_TIMEOUT.
FreshnessTimeout ==
    /\ search.phase = "prove"
    /\ search' = Advance([search EXCEPT !.rejected = @ \cup {"stale"}])
    /\ UNCHANGED <<worldVars, announced, signed>>

\* The behaviour ends with the search: nothing it could see happens later.
Served(p) ==
    \/ refresh_publications(p)
    \/ DiscoveryFreshnessContext(p)
    \/ DiscoveryFreshnessVote(p)
    \/ Collect(p)

DiscoveryNext ==
    /\ search.phase # "done"
    /\ \/ World
       \/ \E p \in Peers : Served(p)
       \/ Collected \/ FreshnessTimeout
       \/ \E r \in search.replies : ReceiveContext(r) \/ ReceiveVote(r)

DiscoverySpec == DiscoveryInit /\ [][DiscoveryNext]_discoveryVars

-----------------------------------------------------------------------------
\* What a search believes was still current when it drew the challenge: no
\* majority of the voters it names had by then promised a later generation or
\* stored a later membership or config.  A stale authority that goes on
\* announcing is never believed.
ProvenCurrent == \A k \in DOMAIN search.proven : ~search.proven[k].superseded

\* And one search never believes two (prove_candidate_freshness): not those
\* of an old and a new authority, and not two of one authority, because a voter
\* that could back both would have to hold two records at once.
FreshWhenChallenged == ProvenCurrent /\ Len(search.proven) <= 1
=============================================================================
