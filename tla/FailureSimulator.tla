-------------------------- MODULE FailureSimulator --------------------------
(***************************************************************************)
(* The deterministic failure simulator of swarm-consensus (simulator.rs):  *)
(* the project's own executable statement of what recovery may do.  Peers     *)
(* go offline, are cut off, lose or receive a snapshot, in any order       *)
(* between the steps of a recovery; each operation is one action and an    *)
(* operation that returns an error changes nothing.                        *)
(*                                                                         *)
(* A snapshot is its number, 0 a corrupt one.  The clock is abstracted to  *)
(* whether the authority's lease has expired.  Peers are numbers because      *)
(* the simulator picks the smallest candidate.                             *)
(***************************************************************************)
EXTENDS Naturals, FiniteSets, FiniteSetsExt

CONSTANTS SimPeers, Quorum,
          MaxEpoch,      \* bound: generations
          MaxSnapshot,   \* bound: snapshots published
          Nil

VARIABLES online, isolated,
          snapshot,     \* snapshot[p]
          latest,       \* latest_snapshot_hash
          state,        \* [kind, peer] : Active, Recovering or Sleeping
          epoch, token,
          leased,       \* the clock is before lease_expires_ms
          recovery,     \* Nil, or the RecoveryProgress
          granted       \* history: every <<epoch, authority>> that was Active

simVars == <<online, isolated, snapshot, latest, state, epoch, token, leased, recovery, granted>>

Progress == [candidate : SimPeers, reserved : SUBSET SimPeers, accepted : SUBSET SimPeers,
             leases : SUBSET SimPeers, committed : BOOLEAN]

SimTypeOK ==
  /\ online \subseteq SimPeers /\ isolated \subseteq SimPeers
  /\ snapshot \in [SimPeers -> 0..MaxSnapshot] /\ latest \in 1..MaxSnapshot
  /\ state.kind \in {"Active", "Recovering", "Sleeping"}
  /\ epoch \in 1..MaxEpoch /\ token \in 1..MaxEpoch
  /\ leased \in BOOLEAN
  /\ recovery = Nil \/ recovery \in Progress
  /\ granted \subseteq (1..MaxEpoch) \X SimPeers

SimInit ==
  /\ online = SimPeers /\ isolated = {}
  /\ snapshot = [p \in SimPeers |-> 1] /\ latest = 1
  /\ state = [kind |-> "Active", peer |-> Min(SimPeers)]
  /\ epoch = 1 /\ token = 1 /\ leased = TRUE
  /\ recovery = Nil
  /\ granted = {<<1, Min(SimPeers)>>}

is_visible(p) == p \in online /\ p \notin isolated

visible_canonical_peers == {p \in SimPeers : is_visible(p) /\ snapshot[p] = latest}

Active(p) == state = [kind |-> "Active", peer |-> p]

Sleeping == [kind |-> "Sleeping", peer |-> Nil]

-----------------------------------------------------------------------------
\* set_online(peer, false): the last peer to leave puts the world to sleep.
GoOffline(p) ==
  /\ p \in online
  /\ online' = online \ {p}
  /\ IF online' = {} THEN state' = Sleeping /\ recovery' = Nil
                     ELSE UNCHANGED <<state, recovery>>
  /\ UNCHANGED <<isolated, snapshot, latest, epoch, token, leased, granted>>

GoOnline(p) ==
  /\ p \notin online
  /\ online' = online \cup {p}
  /\ UNCHANGED <<isolated, snapshot, latest, state, epoch, token, leased, recovery, granted>>

set_partitioned(p, cut) ==
  /\ isolated' = IF cut THEN isolated \cup {p} ELSE isolated \ {p}
  /\ UNCHANGED <<online, snapshot, latest, state, epoch, token, leased, recovery, granted>>

corrupt_snapshot(p) ==
  /\ snapshot' = [snapshot EXCEPT ![p] = 0]
  /\ UNCHANGED <<online, isolated, latest, state, epoch, token, leased, recovery, granted>>

install_snapshot(p) ==
  /\ snapshot' = [snapshot EXCEPT ![p] = latest]
  /\ UNCHANGED <<online, isolated, latest, state, epoch, token, leased, recovery, granted>>

publish_snapshot(p) ==
  /\ Active(p) /\ latest < MaxSnapshot
  /\ latest' = latest + 1
  /\ snapshot' = [snapshot EXCEPT ![p] = latest + 1]
  /\ UNCHANGED <<online, isolated, state, epoch, token, leased, recovery, granted>>

\* A write with the current token; a stale one is refused.
renew_authority_lease(p, used) ==
  /\ Active(p) /\ used = token
  /\ leased' = TRUE
  /\ UNCHANGED <<online, isolated, snapshot, latest, state, epoch, token, recovery, granted>>

LeaseExpires ==
  /\ leased' = FALSE
  /\ UNCHANGED <<online, isolated, snapshot, latest, state, epoch, token, recovery, granted>>

-----------------------------------------------------------------------------
\* The visible peer with the smallest identity that holds the latest snapshot.
begin_recovery(p) ==
  /\ ~leased /\ recovery = Nil /\ state.kind = "Active"
  /\ ~is_visible(state.peer)
  /\ p \in visible_canonical_peers
  /\ Cardinality(visible_canonical_peers) >= Quorum
  /\ p = Min(visible_canonical_peers)
  /\ recovery' = [candidate |-> p, reserved |-> {p}, accepted |-> {}, leases |-> {},
                  committed |-> FALSE]
  /\ UNCHANGED <<online, isolated, snapshot, latest, state, epoch, token, leased, granted>>

acknowledge_reservation(p) ==
  /\ p \in visible_canonical_peers /\ recovery # Nil
  /\ recovery' = [recovery EXCEPT !.reserved = @ \cup {p}]
  /\ UNCHANGED <<online, isolated, snapshot, latest, state, epoch, token, leased, granted>>

\* A plausible slip: the generation is only opened on activation.
CommitLater ==
  /\ recovery # Nil /\ Cardinality(recovery.reserved) >= Quorum /\ ~recovery.committed
  /\ recovery' = [recovery EXCEPT !.committed = TRUE, !.accepted = @ \cup {recovery.candidate}]
  /\ state' = [kind |-> "Recovering", peer |-> recovery.candidate]
  /\ UNCHANGED <<online, isolated, snapshot, latest, epoch, token, leased, granted>>

\* checked_next fails at the end of the range, which MaxEpoch stands for.
commit_recovery_epoch ==
  /\ recovery # Nil /\ Cardinality(recovery.reserved) >= Quorum /\ ~recovery.committed
  /\ epoch < MaxEpoch
  /\ epoch' = epoch + 1 /\ token' = token + 1
  /\ recovery' = [recovery EXCEPT !.committed = TRUE, !.accepted = @ \cup {recovery.candidate}]
  /\ state' = [kind |-> "Recovering", peer |-> recovery.candidate]
  /\ UNCHANGED <<online, isolated, snapshot, latest, leased, granted>>

acknowledge_epoch(p) ==
  /\ p \in visible_canonical_peers /\ recovery # Nil
  /\ recovery.committed
  /\ recovery' = [recovery EXCEPT !.accepted = @ \cup {p}]
  /\ UNCHANGED <<online, isolated, snapshot, latest, state, epoch, token, leased, granted>>

acknowledge_live_lease(p) ==
  /\ p \in visible_canonical_peers /\ recovery # Nil
  /\ recovery.committed /\ Cardinality(recovery.accepted) >= Quorum
  /\ recovery' = [recovery EXCEPT !.leases = @ \cup {p}]
  /\ UNCHANGED <<online, isolated, snapshot, latest, state, epoch, token, leased, granted>>

activate_recovery ==
  /\ recovery # Nil /\ recovery.committed
  /\ Cardinality(recovery.accepted) >= Quorum
  /\ Cardinality(recovery.leases) + 1 >= Quorum
  /\ state' = [kind |-> "Active", peer |-> recovery.candidate]
  /\ granted' = granted \cup {<<epoch, recovery.candidate>>}
  /\ leased' = TRUE
  /\ recovery' = Nil
  /\ UNCHANGED <<online, isolated, snapshot, latest, epoch, token>>

\* A peer that holds the latest snapshot wakes a sleeping world.
wake(p) ==
  /\ state = Sleeping
  /\ p \in online /\ snapshot[p] = latest
  /\ epoch < MaxEpoch
  /\ epoch' = epoch + 1 /\ token' = token + 1
  /\ state' = [kind |-> "Active", peer |-> p]
  /\ granted' = granted \cup {<<epoch + 1, p>>}
  /\ leased' = TRUE
  /\ UNCHANGED <<online, isolated, snapshot, latest, recovery>>

\* attempt_takeover is begin_recovery, the acknowledgements, commit and
\* activation in this order, without anything happening in between.
SimNext ==
  \/ LeaseExpires \/ commit_recovery_epoch \/ activate_recovery
  \/ \E p \in SimPeers :
       \/ GoOffline(p) \/ GoOnline(p) \/ corrupt_snapshot(p) \/ install_snapshot(p)
       \/ publish_snapshot(p) \/ begin_recovery(p) \/ acknowledge_reservation(p)
       \/ acknowledge_epoch(p) \/ acknowledge_live_lease(p) \/ wake(p)
       \/ \E cut \in BOOLEAN : set_partitioned(p, cut)
       \/ \E used \in 1..MaxEpoch : renew_authority_lease(p, used)

SimSpec == SimInit /\ [][SimNext]_simVars

-----------------------------------------------------------------------------
\* partition_and_crash_never_create_two_authorities: whatever fails between the
\* steps of recoveries, sleeps and wakes, a generation has one authority.
OneAuthorityPerGeneration ==
  \A g, h \in granted : g[1] = h[1] => g = h
=============================================================================
