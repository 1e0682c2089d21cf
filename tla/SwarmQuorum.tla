---------------------------- MODULE SwarmQuorum ----------------------------
(***************************************************************************)
(* The pure rules every authority decision of SwarmCraft rests on: majority *)
(* quorums over the non-banned members of a world, and the deterministic   *)
(* ranking of recovery candidates (crates/swarm-consensus/src/lib.rs).     *)
(***************************************************************************)
EXTENDS Integers, FiniteSets

(* A slip that lets exactly half of the members decide.                    *)
HalfOfMembers(members) == members \div 2

(* A strict majority of the members; zero members have no majority.        *)
quorum_size(members) == IF members = 0 THEN 0 ELSE members \div 2 + 1

has_quorum(members, votes) == members # 0 /\ votes >= quorum_size(members)

(* The ranking of elect_authority: the freshest epoch, then the freshest   *)
(* snapshot sequence, then the lowest peer id.  A candidate is a record    *)
(* [peer_id, accepted_epoch, canonical_sequence].                          *)
Outranks(a, b) ==
    \/ a.accepted_epoch > b.accepted_epoch
    \/ /\ a.accepted_epoch = b.accepted_epoch
       /\ \/ a.canonical_sequence > b.canonical_sequence
          \/ /\ a.canonical_sequence = b.canonical_sequence
             /\ a.peer_id < b.peer_id

(* The candidates are already the compatible, eligible, complete and       *)
(* non-banned ones: the caller builds no other kind.                       *)
elect_authority(candidates) ==
    (CHOOSE c \in candidates : \A d \in candidates \ {c} : Outranks(c, d)).peer_id
=============================================================================
