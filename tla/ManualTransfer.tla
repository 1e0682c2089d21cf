---------------------------- MODULE ManualTransfer ----------------------------
(***************************************************************************)
(* The manual transfer of authority: the source checkpoints and prepares,  *)
(* the target accepts, the source commits, the target activates the next   *)
(* epoch and the others observe it.  Operators carry the signed tokens by  *)
(* hand, as late as they like; the daemons push transfer records, epochs   *)
(* and snapshots whenever two of them connect, in any order; and the       *)
(* other members may recover the world meanwhile.                          *)
(*                                                                         *)
(* An epoch names its predecessor by hash, so what a peer has accepted is  *)
(* a sequence of epochs; a snapshot names its predecessor, so a replica is *)
(* a sequence of snapshots.  The fencing token moves with the epoch.       *)
(***************************************************************************)
EXTENDS Naturals, Sequences, SequencesExt, FiniteSets

CONSTANTS
    Hosts,          \* all eligible, none banned
    Source,         \* the authority at the start
    MaxGeneration,  \* bound on epochs
    MaxSessions,    \* bound on checkpoints of a running world
    NoRecord

Epochs == [auth : Hosts, mode : {"Quorum", "Recovery"}, base : Hosts \X Nat]
Snapshots == [no : Nat, gen : 1 .. MaxGeneration, auth : Hosts, root : Hosts \X Nat]
Transfers == [from : Hosts, to : Hosts, base : Snapshots, next : 2 .. MaxGeneration + 1,
              phase : {"Prepared", "Accepted", "Committed"}]
Promises == [gen : 1 .. MaxGeneration, cand : Hosts]

(* What the constants stand for: an authority to start with, at least one  *)
(* epoch, and an absent file that is neither a transfer nor a promise.     *)
TransferConstants ==
    /\ Source \in Hosts
    /\ MaxGeneration \in Nat \ {0}
    /\ NoRecord \notin Transfers \union Promises

ASSUME TransferAssumption == TransferConstants

VARIABLES
    chain,          \* epoch.postcard with its ancestry, of each peer
    snaps,          \* the canonical snapshots of each peer
    serving,        \* the generation a peer's runtime serves, or 0
    asleep,         \* sleep.postcard for the current epoch and snapshot
    moving,         \* transfer.postcard
    promised,       \* recovery-promise.postcard
    voters,         \* the votes a candidate holds for its ballot
    tokens,         \* transfer and epoch tokens handed to operators
    sessions        \* checkpoints so far

transferVars == <<chain, snaps, serving, asleep, moving, promised, voters, tokens, sessions>>

Majorities == {Q \in SUBSET Hosts : 2 * Cardinality(Q) > Cardinality(Hosts)}

generation(p) == Len(chain[p])
authority(p) == Last(chain[p]).auth
latest_snapshot(p) == Last(snaps[p])

(***************************************************************************)
(* What a transfer record must satisfy.                                    *)
(***************************************************************************)
transfer_is_source_generation(t, p) == t.from = authority(p) /\ t.next = generation(p) + 1

validate_transfer_record(t, p) == transfer_is_source_generation(t, p) /\ t.base = latest_snapshot(p)

(* A record that does not belong to the accepted epoch is history.         *)
active(p) == moving[p] # NoRecord /\ transfer_is_source_generation(moving[p], p)

same_transfer(t, u) == [t EXCEPT !.phase = "Prepared"] = [u EXCEPT !.phase = "Prepared"]

(* active_transfer_for_current_generation validates the record it returns. *)
Continues(t, p, phases) ==
    active(p) => /\ validate_transfer_record(moving[p], p)
                 /\ same_transfer(moving[p], t)
                 /\ moving[p].phase \in phases

(* Mutated form: a second transfer may be prepared in one generation.      *)
PreparedAgain(p, t) == t # p

validate_transfer_target(p, t) == t # p /\ ~active(p)

create_prepared_transfer(p, t, base) ==
    [from |-> p, to |-> t, base |-> base, next |-> generation(p) + 1, phase |-> "Prepared"]

Issue(ts) == tokens' = tokens \union ts

(***************************************************************************)
(* The runtime of the authority: one session ends in one checkpoint.       *)
(***************************************************************************)
Accepted(p) == {q \in Hosts : chain[q] = chain[p]}

snapshot(p, g, root) == [no |-> Len(snaps[p]) + 1, gen |-> g, auth |-> p, root |-> root]

Promoted(p) ==
    IF latest_snapshot(p).gen < generation(p)
    THEN Append(snaps[p], snapshot(p, generation(p), latest_snapshot(p).root))
    ELSE snaps[p]

ensure_authority_artifacts(p) ==
    /\ latest_snapshot(p).root = Last(chain[p]).base
    /\ \/ latest_snapshot(p).gen + 1 = generation(p)
       \/ latest_snapshot(p).gen = generation(p) /\ latest_snapshot(p).auth = p

(* Mutated form: a prepared transfer does not keep its source from         *)
(* running the world again.                                                *)
NothingMoves(p) == authority(p) = p /\ serving[p] = 0 /\ ~asleep[p]

launch_allowed(p) == authority(p) = p /\ serving[p] = 0 /\ ~asleep[p] /\ ~active(p)

Launch(p) ==
    /\ launch_allowed(p)
    /\ Accepted(p) \in Majorities          \* the permit
    /\ ensure_authority_artifacts(p)
    /\ snaps' = [snaps EXCEPT ![p] = Promoted(p)]
    /\ serving' = [serving EXCEPT ![p] = generation(p)]
    /\ UNCHANGED <<chain, asleep, moving, promised, voters, tokens, sessions>>

ensure_authority_generation(p) == authority(p) = p /\ serving[p] = generation(p)

(* A session may leave the world as it was. *)
checkpoints(p) ==
    {snapshot(p, generation(p), root) : root \in {latest_snapshot(p).root, <<p, Len(snaps[p]) + 1>>}}

(* The final checkpoint of a session, and the sleep or the transfer record *)
(* that says why it ended.  A superseded generation commits nothing.       *)
Ends(p) ==
    /\ serving[p] # 0
    /\ sessions' = IF ensure_authority_generation(p) THEN sessions + 1 ELSE sessions
    /\ sessions' <= MaxSessions
    /\ serving' = [serving EXCEPT ![p] = 0]
    /\ IF ensure_authority_generation(p)
       THEN \E s \in checkpoints(p) : snaps' = [snaps EXCEPT ![p] = Append(@, s)]
       ELSE UNCHANGED snaps
    /\ UNCHANGED <<chain, promised, voters>>

request_world_stop(p) ==
    /\ Ends(p)
    /\ asleep' = IF ensure_authority_generation(p) THEN [asleep EXCEPT ![p] = TRUE] ELSE asleep
    /\ UNCHANGED <<moving, tokens>>

(* A world that runs is checkpointed first; one that sleeps is handed over *)
(* at the snapshot it sleeps on.                                           *)
prepare_running(p, t) ==
    /\ ensure_authority_generation(p) /\ validate_transfer_target(p, t)
    /\ Ends(p)
    /\ LET prepared == create_prepared_transfer(p, t, Last(snaps'[p])) IN
          moving' = [moving EXCEPT ![p] = prepared] /\ Issue({prepared})
    /\ UNCHANGED asleep

prepare_asleep(p, t) ==
    /\ authority(p) = p /\ asleep[p] /\ validate_transfer_target(p, t)
    /\ LET prepared == create_prepared_transfer(p, t, latest_snapshot(p)) IN
          moving' = [moving EXCEPT ![p] = prepared] /\ Issue({prepared})
    /\ UNCHANGED <<chain, snaps, serving, asleep, promised, voters, sessions>>

(***************************************************************************)
(* The stages the operators drive.                                         *)
(***************************************************************************)
Stage(p, t) ==
    /\ moving' = [moving EXCEPT ![p] = t]
    /\ Issue({t})
    /\ UNCHANGED <<chain, snaps, serving, asleep, promised, voters, sessions>>

accept_manual_transfer(p) == \E t \in tokens :
    /\ t.phase = "Prepared" /\ t.to = p
    /\ validate_transfer_record(t, p)
    /\ Continues(t, p, {"Prepared"})
    /\ Stage(p, [t EXCEPT !.phase = "Accepted"])

commit_manual_transfer(p) == \E t \in tokens :
    /\ t.phase = "Accepted" /\ t.from = p
    /\ validate_transfer_record(t, p)
    /\ Continues(t, p, {"Prepared", "Accepted"})
    /\ Stage(p, [t EXCEPT !.phase = "Committed"])

epoch_record(auth, mode, base) == [auth |-> auth, mode |-> mode, base |-> base]

(* The next epoch is saved after the committed record; nothing compares it *)
(* with a recovery promise this peer has made.                             *)
activate_manual_transfer(p) == \E t \in tokens :
    /\ t.phase = "Committed" /\ t.to = p
    /\ validate_transfer_record(t, p)
    /\ Continues(t, p, {"Accepted", "Committed"})
    /\ generation(p) < MaxGeneration
    /\ LET next == Append(chain[p], epoch_record(p, "Quorum", latest_snapshot(p).root)) IN
          /\ chain' = [chain EXCEPT ![p] = next]
          /\ Issue({[phase |-> "Epoch", chain |-> next]})
    /\ moving' = [moving EXCEPT ![p] = t]
    /\ asleep' = [asleep EXCEPT ![p] = FALSE]
    /\ UNCHANGED <<snaps, serving, promised, voters, sessions>>

(* An epoch of another authority needs the committed transfer to it.       *)
validate_non_recovery_epoch_transition(p, next) ==
    /\ moving[p] # NoRecord
    /\ moving[p].phase = "Committed"
    /\ moving[p].from = authority(p) /\ moving[p].to = Last(next).auth
    /\ moving[p].next = Len(next)

Follows(p, next) ==
    /\ Len(next) = generation(p) + 1
    /\ Front(next) = chain[p]
    /\ Last(next).base = latest_snapshot(p).root
    /\ validate_non_recovery_epoch_transition(p, next)
    /\ chain' = [chain EXCEPT ![p] = next]
    /\ asleep' = [asleep EXCEPT ![p] = FALSE]
    /\ UNCHANGED <<snaps, serving, moving, promised, voters, tokens, sessions>>

observe_manual_transfer_epoch(p) == \E t \in tokens :
    /\ t.phase = "Epoch"
    /\ moving[p] # NoRecord /\ validate_transfer_record(moving[p], p)
    /\ Follows(p, t.chain)

(***************************************************************************)
(* What the daemon of q pushes to the daemon of p when they connect.       *)
(***************************************************************************)
EpochTo(q, p) == \E g \in 2 .. Len(chain[q]) :
    /\ chain[q][g].mode = "Quorum"
    /\ Follows(p, SubSeq(chain[q], 1, g))

(* Unlike the stages above, the daemon compares a record with whatever     *)
(* record is there, of this generation or of an old one.                   *)
validate_transfer(p, t) ==
    /\ t.base = latest_snapshot(p)
    /\ t.next = generation(p) + 1
    /\ IF moving[p] = NoRecord THEN t.phase = "Prepared"
       ELSE /\ same_transfer(moving[p], t)
            /\ <<moving[p].phase, t.phase>>
                  \in {<<"Prepared", "Accepted">>, <<"Accepted", "Committed">>}

AuthorityTransfer(q, p) ==
    /\ moving[q] # NoRecord /\ validate_transfer(p, moving[q])
    /\ moving' = [moving EXCEPT ![p] = moving[q]]
    /\ UNCHANGED <<chain, snaps, serving, asleep, promised, voters, tokens, sessions>>

(* A replica takes the direct extension of its history by the authority of *)
(* its own epoch.                                                          *)
SnapshotManifest(q, p) ==
    /\ Len(snaps[q]) = Len(snaps[p]) + 1 /\ Front(snaps[q]) = snaps[p]
    /\ latest_snapshot(q).gen = generation(p) /\ latest_snapshot(q).auth = authority(p)
    /\ snaps' = [snaps EXCEPT ![p] = snaps[q]]
    /\ UNCHANGED <<chain, serving, asleep, moving, promised, voters, tokens, sessions>>

(***************************************************************************)
(* Recovery, in one round: AuthorityRecovery has the rounds, the leases    *)
(* and the lost messages.                                                  *)
(***************************************************************************)
promise_recovery_ballot(p, c) ==
    /\ promised[p] \in {NoRecord, [gen |-> generation(c), cand |-> c]}
    /\ promised' = [promised EXCEPT ![p] = [gen |-> generation(c), cand |-> c]]

drive_recovery_ballot(c) ==
    /\ authority(c) # c /\ generation(c) < MaxGeneration
    /\ voters[c] = {}
    /\ promise_recovery_ballot(c, c)
    /\ voters' = [voters EXCEPT ![c] = {c}]
    /\ UNCHANGED <<chain, snaps, serving, asleep, moving, tokens, sessions>>

(* A peer votes when the authority is not connected and its lease is over; *)
(* the candidate asks only while it does not see the authority.            *)
RecoveryBallotTo(p, c) ==
    /\ p # c /\ p \notin voters[c] /\ voters[c] # {}
    /\ authority(c) # p
    /\ generation(p) = generation(c) /\ latest_snapshot(p) = latest_snapshot(c)
    /\ promise_recovery_ballot(p, c)
    /\ voters' = [voters EXCEPT ![c] = @ \union {p}]
    /\ UNCHANGED <<chain, snaps, serving, asleep, moving, tokens, sessions>>

clear_recovery_promise_after_epoch_advance(p) ==
    promised' = [promised EXCEPT ![p] = NoRecord]

(* The tick of an authority forgets a promise of an earlier generation; a   *)
(* peer that merely followed a transfer keeps it.                          *)
maintain_local_authority(p) ==
    /\ authority(p) = p
    /\ promised[p] # NoRecord /\ promised[p].gen < generation(p)
    /\ clear_recovery_promise_after_epoch_advance(p)
    /\ UNCHANGED <<chain, snaps, serving, asleep, moving, voters, tokens, sessions>>

Recovered(c) ==
    /\ voters[c] \in Majorities
    /\ promised[c] = [gen |-> generation(c), cand |-> c]
    /\ LET base == latest_snapshot(c).root IN
          /\ chain' = [chain EXCEPT ![c] = Append(@, epoch_record(c, "Recovery", base))]
          /\ snaps' = [snaps EXCEPT ![c] = Append(@, snapshot(c, generation(c) + 1, base))]
    /\ asleep' = [asleep EXCEPT ![c] = FALSE]
    /\ clear_recovery_promise_after_epoch_advance(c)
    /\ voters' = [voters EXCEPT ![c] = {}]
    /\ UNCHANGED <<serving, moving, tokens, sessions>>

RecoveryEpochTo(c, p) ==
    /\ Last(chain[c]).mode = "Recovery" /\ authority(c) = c
    /\ Front(chain[c]) = chain[p]
    /\ snaps[p] = SelectSeq(snaps[c], LAMBDA s : s.gen < generation(c))
    /\ promised[p] \in {NoRecord, [gen |-> generation(p), cand |-> c]}
    /\ chain' = [chain EXCEPT ![p] = chain[c]]
    /\ asleep' = [asleep EXCEPT ![p] = FALSE]
    /\ clear_recovery_promise_after_epoch_advance(p)
    /\ UNCHANGED <<snaps, serving, moving, voters, tokens, sessions>>

TransferInit ==
    /\ LET base == [no |-> 1, gen |-> 1, auth |-> Source, root |-> <<Source, 1>>] IN
          /\ snaps = [p \in Hosts |-> <<base>>]
          /\ chain = [p \in Hosts |-> <<epoch_record(Source, "Quorum", base.root)>>]
    /\ serving = [p \in Hosts |-> 0]
    /\ asleep = [p \in Hosts |-> FALSE]
    /\ moving = [p \in Hosts |-> NoRecord]
    /\ promised = [p \in Hosts |-> NoRecord]
    /\ voters = [p \in Hosts |-> {}]
    /\ tokens = {} /\ sessions = 0

TransferNext ==
    \E p \in Hosts :
        \/ Launch(p)
        \/ request_world_stop(p)
        \/ accept_manual_transfer(p)
        \/ commit_manual_transfer(p)
        \/ activate_manual_transfer(p)
        \/ observe_manual_transfer_epoch(p)
        \/ drive_recovery_ballot(p)
        \/ Recovered(p)
        \/ maintain_local_authority(p)
        \/ \E q \in Hosts :
              \/ prepare_running(p, q)
              \/ prepare_asleep(p, q)
              \/ EpochTo(q, p)
              \/ AuthorityTransfer(q, p)
              \/ SnapshotManifest(q, p)
              \/ RecoveryBallotTo(p, q)
              \/ RecoveryEpochTo(q, p)

TransferSpec == TransferInit /\ [][TransferNext]_transferVars

(***************************************************************************)
(* Properties.                                                             *)
(***************************************************************************)
(* The records of every peer stay well formed: a snapshot never belongs to *)
(* a generation its holder has not accepted.                               *)
TransferTypeOK == \A p \in Hosts :
    /\ chain[p] \in Seq(Epochs) /\ generation(p) \in 1 .. MaxGeneration
    /\ snaps[p] \in Seq(Snapshots)
    /\ latest_snapshot(p).gen <= generation(p)
    /\ serving[p] \in 0 .. MaxGeneration
    /\ moving[p] \in Transfers \union {NoRecord}

Committed == {t \in tokens \union {moving[p] : p \in Hosts} :
                 t # NoRecord /\ t.phase = "Committed"}

(* One generation is handed over at most once and loses no progress: the   *)
(* committed transfers out of it, in records or in tokens, are one,        *)
(* however late they are presented, and its source commits no snapshot     *)
(* after the one it names.                                                 *)
HandoverIsFinal ==
    \A t \in Committed :
        /\ \A u \in Committed : (t.next = u.next /\ t.from = u.from) => t = u
        /\ \A n \in 1 .. Len(snaps[t.from]) :
             LET s == snaps[t.from][n] IN
             (s.gen = t.next - 1 /\ s.auth = t.from) =>
                 n <= CHOOSE i \in 1 .. Len(snaps[t.from]) : snaps[t.from][i] = t.base

(* Two peers that accepted different epochs of one generation cannot both  *)
(* have it from a transfer.                                                *)
ForkAt(p, q, g) == chain[p][g] # chain[q][g] /\ SubSeq(chain[p], 1, g - 1) = SubSeq(chain[q], 1, g - 1)
HandoversAgree == \A p, q \in Hosts : \A g \in 1 .. generation(p) :
    (g <= generation(q) /\ ForkAt(p, q, g)) => "Recovery" \in {chain[p][g].mode, chain[q][g].mode}

(* Two peers never accept different epochs of one generation: an           *)
(* interrupted transfer does not produce a divergent world.                *)
NoDivergence == \A p, q \in Hosts : IsPrefix(chain[p], chain[q]) \/ IsPrefix(chain[q], chain[p])
=============================================================================
