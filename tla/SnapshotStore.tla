---------------------------- MODULE SnapshotStore ----------------------------
(***************************************************************************)
(* The snapshot store of one world on one disk: content-addressed blobs,   *)
(* numbered manifests, the canonical head, and the processes that share    *)
(* the directory (publications, replica reconstructions, the blob          *)
(* collector, the manifest pruner).  Every durable write of a commit is a  *)
(* step of its own and a process may stop between any two of them.         *)
(*                                                                         *)
(* A manifest names its parent by hash, so a manifest is modelled by the   *)
(* history it closes: the sequence of the snapshots up to it, its number   *)
(* being its length.  A blob is its hash; a file in the blob directory     *)
(* that does not verify counts as absent.                                  *)
(***************************************************************************)
EXTENDS Naturals, Sequences, FiniteSets, SequencesExt

CONSTANTS
    Blobs,          \* blob hashes, numbered in the order of the files they hold
    Contents,       \* the sets of blobs a world directory may consist of
    Uses,           \* subsets of {"publish", "replicate", "retain"}
    Publications,   \* processes that publish a snapshot of a local directory
    Replicas,       \* processes that reconstruct a snapshot from other peers
    MaxNumber,      \* bound on snapshot numbers
    MaxEpoch,       \* bound on authority epochs
    MaxCrashes,     \* bound on processes that stop inside an operation
    None            \* no file, or no owner

VARIABLES
    blobs,      \* complete, verified files of the blob directory
    manifests,  \* the numbered slots of the snapshot directory
    head,       \* canonical-snapshot-head.postcard
    required,   \* canonical-snapshot-head.required exists
    intent,     \* snapshot-commit.intent.postcard
    epoch,      \* epoch.postcard
    control,    \* the snapshot a transfer, sleep or recovery record names
    gcLock,     \* owner of .blob-gc.lock
    worldLock,  \* owner of .storage-control.lock
    slot,       \* the publications and reconstructions
    collector,  \* garbage_collect_blobs in progress
    pruner,     \* prune_snapshots in progress
    use,        \* what this store is used for: a member of Uses
    crashes     \* processes stopped so far

vars == <<blobs, manifests, head, required, intent, epoch, control, gcLock,
          worldLock, slot, collector, pruner, use, crashes>>

Slots == Publications \cup Replicas
Numbers == 1 .. MaxNumber
Snapshot == [epoch : 1 .. MaxEpoch, entries : Contents]

History == UNION {[1 .. n -> Snapshot] : n \in 0 .. MaxNumber}

(* What the constants stand for.  A store that other peers replicate into  *)
(* is not pruned and collected by the same processes: the daemon           *)
(* replicates and never applies retention, which only the library's        *)
(* callers do.                                                             *)
StoreConstants ==
    /\ MaxNumber \in Nat /\ MaxEpoch \in Nat \ {0} /\ MaxCrashes \in Nat
    /\ Blobs \subseteq Nat /\ \A es \in Contents : es \subseteq Blobs
    /\ Publications \cap Replicas = {}
    /\ "collector" \notin Slots
    /\ None # "collector" /\ None \notin Slots
    /\ \A h \in History : h # None
    /\ \A ns \in SUBSET Numbers : ns # None
    /\ \A u \in Uses : ~({"replicate", "retain"} \subseteq u)

ASSUME StoreAssumption == StoreConstants

Free == [pc |-> "free", target |-> <<>>, pins |-> {}, done |-> {}]

Slot(s, r) == slot' = [slot EXCEPT ![s] = r]
Moved(s, pc) == Slot(s, [slot[s] EXCEPT !.pc = pc])

(***************************************************************************)
(* The canonical head.                                                     *)
(***************************************************************************)
Present == {n \in Numbers : manifests[n] # None}

highest_legacy_manifest ==
    IF Present = {} THEN <<>> ELSE manifests[CHOOSE n \in Present : \A k \in Present : k <= n]

TargetValid(h) == IF h = <<>> THEN TRUE ELSE manifests[Len(h)] = h

(* Mutated form of Loadable: an interrupted commit is not looked for. *)
LoadableOverIntent == IF head # None THEN TargetValid(head) ELSE ~required

Loadable ==
    IF intent # None THEN head = intent /\ TargetValid(head)
    ELSE IF head # None THEN TargetValid(head)
    ELSE ~required

Loaded == IF head = None THEN highest_legacy_manifest ELSE head

(* load_or_initialize_canonical_head_locked, with what it writes. *)
load_or_initialize ==
    /\ worldLock = None
    /\ Loadable
    /\ head' = Loaded
    /\ required' = TRUE
    /\ intent' = None

(* validate_canonical_snapshot_namespace: no manifest above the head. *)
NamespaceValid == Loadable /\ \A n \in Present : n <= Len(Loaded)

validate_direct_extension(previous, manifest) == Front(manifest) = previous

LoadHead ==
    /\ load_or_initialize
    /\ UNCHANGED <<blobs, manifests, epoch, control, gcLock, worldLock, slot,
                   collector, pruner, use, crashes>>

(* The process stops between the adopted head and the required marker. *)
LoadTorn ==
    /\ crashes < MaxCrashes
    /\ worldLock = None /\ intent = None /\ head = None /\ ~required
    /\ head' = highest_legacy_manifest
    /\ crashes' = crashes + 1
    /\ UNCHANGED <<blobs, manifests, required, intent, epoch, control, gcLock,
                   worldLock, slot, collector, pruner, use>>

(***************************************************************************)
(* Publications and reconstructions up to the commit.                      *)
(***************************************************************************)
Frame == UNCHANGED <<epoch, control, collector, pruner, use>>

(* snapshot_directory_streaming: the caller read the head and the epoch,   *)
(* begin_snapshot_publication creates the publication directory under the  *)
(* collection lock.                                                        *)
begin_snapshot_publication(p, entries) ==
    /\ "publish" \in use
    /\ slot[p].pc = "free"
    /\ gcLock = None
    /\ load_or_initialize
    /\ Len(Loaded) < MaxNumber
    /\ Slot(p, [Free EXCEPT !.pc = "building",
                   !.target = Append(Loaded, [epoch |-> epoch, entries |-> entries])])
    /\ Frame
    /\ UNCHANGED <<blobs, manifests, gcLock, worldLock, crashes>>

Wanted(s) == Last(slot[s].target).entries \ slot[s].done

(* The files of a directory are taken in the order of their paths. *)
NextFile(p) == CHOOSE b \in Wanted(p) : \A c \in Wanted(p) : b <= c

(* pin_hash takes the collection lock for the pin file alone. *)
pin_hash(p) ==
    /\ slot[p].pc = "building"
    /\ Wanted(p) # {}
    /\ NextFile(p) \notin slot[p].pins
    /\ gcLock = None
    /\ Slot(p, [slot[p] EXCEPT !.pins = @ \cup {NextFile(p)}])
    /\ Frame
    /\ UNCHANGED <<blobs, manifests, head, required, intent, gcLock, worldLock, crashes>>

(* put_file_blob_streaming after the pin: a verified file is reused, any   *)
(* other is replaced by the rename.                                        *)
put_file_blob(p) ==
    /\ slot[p].pc = "building"
    /\ Wanted(p) # {}
    /\ NextFile(p) \in slot[p].pins
    /\ blobs' = blobs \cup {NextFile(p)}
    /\ Slot(p, [slot[p] EXCEPT !.done = @ \cup {NextFile(p)}])
    /\ Frame
    /\ UNCHANGED <<manifests, head, required, intent, gcLock, worldLock, crashes>>

(* reconstruct: the blobs missing now are pinned, unless the collector     *)
(* holds the lock, and only these are transferred.                         *)
reconstruct(r, entries) ==
    /\ "replicate" \in use
    /\ slot[r].pc = "free"
    /\ gcLock = None
    /\ load_or_initialize
    /\ Len(Loaded) < MaxNumber
    /\ LET missing == entries \ blobs
       IN  Slot(r, [pc |-> "building", pins |-> missing, done |-> entries \ missing,
                    target |-> Append(Loaded, [epoch |-> epoch, entries |-> entries])])
    /\ Frame
    /\ UNCHANGED <<blobs, manifests, gcLock, worldLock, crashes>>

(* receive_blob_chunk, last chunk: the verified partial becomes the blob. *)
receive_blob(r, b) ==
    /\ slot[r].pc = "building"
    /\ b \in Wanted(r)
    /\ blobs' = blobs \cup {b}
    /\ Slot(r, [slot[r] EXCEPT !.done = @ \cup {b}])
    /\ Frame
    /\ UNCHANGED <<manifests, head, required, intent, gcLock, worldLock, crashes>>

(***************************************************************************)
(* commit_snapshot_streaming_inner, one durable write per step.            *)
(***************************************************************************)
Complete(m) == Last(m).entries \subseteq blobs
OwnsPins(p) == Last(slot[p].target).entries \subseteq slot[p].pins

(* The pins and the blobs are verified before any lock is taken. *)
verify_snapshot(p) ==
    /\ slot[p].pc = "building"
    /\ Wanted(p) = {}
    /\ Moved(p, IF OwnsPins(p) /\ Complete(slot[p].target) THEN "verified" ELSE "failed")
    /\ Frame
    /\ UNCHANGED <<blobs, manifests, head, required, intent, gcLock, worldLock, crashes>>

(* finalize_replica repeats the history gate, then the blobs are verified  *)
(* the same way.                                                           *)
finalize_replica(r) ==
    LET m == slot[r].target
    IN  /\ slot[r].pc = "building"
        /\ Wanted(r) = {}
        /\ worldLock = None
        /\ IF Loadable THEN load_or_initialize ELSE UNCHANGED <<head, required, intent>>
        /\ Moved(r, IF ~(NamespaceValid /\ Complete(m)) THEN "failed"
                    ELSE IF m = Loaded THEN "done"
                    ELSE IF validate_direct_extension(Loaded, m) THEN "verified"
                    ELSE "failed")
        /\ Frame
        /\ UNCHANGED <<blobs, manifests, gcLock, worldLock, crashes>>

lock_blob_gc(s) ==
    /\ slot[s].pc = "verified"
    /\ gcLock = None
    /\ gcLock' = s
    /\ Moved(s, "locked")
    /\ Frame
    /\ UNCHANGED <<blobs, manifests, head, required, intent, worldLock, crashes>>

(* A slot that is taken: the exact manifest is an idempotent success, any  *)
(* other a conflict, and a namespace that does not validate is an error.   *)
commit_existing(s) ==
    /\ slot[s].pc = "locked"
    /\ manifests[Len(slot[s].target)] # None
    /\ worldLock = None
    /\ IF Loadable THEN load_or_initialize ELSE UNCHANGED <<head, required, intent>>
    /\ Slot(s, IF NamespaceValid /\ manifests[Len(slot[s].target)] = slot[s].target
               THEN [slot[s] EXCEPT !.pc = "done",
                       !.pins = IF s \in Publications THEN {} ELSE @]
               ELSE [slot[s] EXCEPT !.pc = "failed"])
    /\ gcLock' = None
    /\ Frame
    /\ UNCHANGED <<blobs, manifests, worldLock, crashes>>

(* Mutated form of EpochAllows: the fence is not checked. *)
AnyEpoch(m) == TRUE

EpochAllows(m) == Last(m).epoch = epoch

begin_snapshot_commit(s) ==
    LET m == slot[s].target
        ok == /\ Loadable
              /\ validate_direct_extension(Loaded, m)
              /\ EpochAllows(m)
    IN  /\ slot[s].pc = "locked"
        /\ manifests[Len(m)] = None
        /\ worldLock = None
        /\ head' = IF Loadable THEN Loaded ELSE head
        /\ required' = (Loadable \/ required)
        /\ intent' = IF ok THEN m ELSE IF Loadable THEN None ELSE intent
        /\ worldLock' = IF ok THEN s ELSE None
        /\ gcLock' = IF ok THEN s ELSE None
        /\ Moved(s, IF ok THEN "intent" ELSE "failed")
        /\ Frame
        /\ UNCHANGED <<blobs, manifests, crashes>>

publish_immutable_manifest(s) ==
    /\ slot[s].pc = "intent"
    /\ manifests' = [manifests EXCEPT ![Len(slot[s].target)] = slot[s].target]
    /\ Moved(s, "manifest")
    /\ Frame
    /\ UNCHANGED <<blobs, head, required, intent, gcLock, worldLock, crashes>>

write_head(s) ==
    /\ slot[s].pc = "manifest"
    /\ head' = slot[s].target
    /\ Moved(s, "head")
    /\ Frame
    /\ UNCHANGED <<blobs, manifests, required, intent, gcLock, worldLock, crashes>>

(* The required marker exists before the intent goes; the world lock is    *)
(* released with the transaction.                                          *)
finish_snapshot_commit(s) ==
    /\ slot[s].pc = "head"
    /\ required' = TRUE
    /\ intent' = None
    /\ worldLock' = None
    /\ Moved(s, "finished")
    /\ Frame
    /\ UNCHANGED <<blobs, manifests, head, gcLock, crashes>>

release_publication_pins(s) ==
    /\ slot[s].pc = "finished"
    /\ Slot(s, [slot[s] EXCEPT !.pc = "done",
                  !.pins = IF s \in Publications THEN {} ELSE @])
    /\ gcLock' = None
    /\ Frame
    /\ UNCHANGED <<blobs, manifests, head, required, intent, worldLock, crashes>>

(***************************************************************************)
(* The end of a process.  A publication directory outlives its owner; a    *)
(* reconstruction removes its pins when it returns and leaks them when it  *)
(* stops.                                                                  *)
(***************************************************************************)
Drop(s) ==
    /\ slot[s].pc \in {"done", "failed"}
    /\ Slot(s, IF s \in Publications THEN [slot[s] EXCEPT !.pc = "stale"] ELSE Free)
    /\ Frame
    /\ UNCHANGED <<blobs, manifests, head, required, intent, gcLock, worldLock, crashes>>

(* Kernel locks are released with the process; files stay as they are. *)
Crash(s) ==
    /\ slot[s].pc \notin {"free", "stale", "leaked"}
    /\ crashes < MaxCrashes
    /\ crashes' = crashes + 1
    /\ gcLock' = IF gcLock = s THEN None ELSE gcLock
    /\ worldLock' = IF worldLock = s THEN None ELSE worldLock
    /\ Moved(s, IF s \in Publications THEN "stale" ELSE "leaked")
    /\ Frame
    /\ UNCHANGED <<blobs, manifests, head, required, intent>>

(* Mutated form of Recovered: the owner locks are not probed. *)
RecoveredWithLiveOwners ==
    [s \in Slots |-> IF s \in Publications THEN [slot[s] EXCEPT !.pins = {}] ELSE slot[s]]

(* read_live_snapshot_publication_hashes removes the directories whose     *)
(* owner lock can be taken.                                                *)
Recovered == [s \in Slots |-> IF slot[s].pc = "stale" THEN Free ELSE slot[s]]

recover_abandoned_publications ==
    /\ gcLock = None
    /\ \E s \in Slots : slot[s].pc = "stale"
    /\ slot' = Recovered
    /\ Frame
    /\ UNCHANGED <<blobs, manifests, head, required, intent, gcLock, worldLock, crashes>>

(***************************************************************************)
(* Retention: prune_snapshots takes no lock beyond the reads of its start, *)
(* garbage_collect_blobs holds the collection lock from reading its roots  *)
(* to the last removal.                                                    *)
(***************************************************************************)
(* Mutated form of retention_roots: the snapshots of control records are   *)
(* not roots.                                                              *)
RootsWithoutControl(keep) == {n \in Present : \A k \in Present : k <= n}

retention_roots(keep) ==
    LET latest == CHOOSE n \in Present : \A k \in Present : k <= n
    IN  {latest} \cup {n \in Present : Cardinality({k \in Present : k > n}) < keep}
            \cup {n \in Present : control # None /\ manifests[n] = control}

prune_snapshots(keep) ==
    /\ "retain" \in use
    /\ pruner = None
    /\ NamespaceValid
    /\ load_or_initialize
    /\ Present # {}
    /\ control # None => \E n \in Present : manifests[n] = control
    /\ pruner' = Present \ retention_roots(keep)
    /\ UNCHANGED <<blobs, manifests, epoch, control, gcLock, worldLock, slot,
                   collector, use, crashes>>

(* One manifest removed; the pass may also end early. *)
prune_step ==
    /\ pruner # None
    /\ \/ \E n \in pruner :
            /\ manifests' = [manifests EXCEPT ![n] = None]
            /\ pruner' = pruner \ {n}
       \/ pruner' = None /\ UNCHANGED manifests
    /\ UNCHANGED <<blobs, head, required, intent, epoch, control, gcLock, worldLock,
                   slot, collector, use, crashes>>

Referenced == UNION {Last(manifests[n]).entries : n \in Present}

garbage_collect_blobs ==
    /\ "retain" \in use
    /\ gcLock = None
    /\ NamespaceValid
    /\ load_or_initialize
    /\ gcLock' = "collector"
    /\ slot' = Recovered
    /\ collector' = Referenced \cup UNION {Recovered[s].pins : s \in Slots}
    /\ UNCHANGED <<blobs, manifests, epoch, control, worldLock, pruner, use, crashes>>

collect_step ==
    /\ gcLock = "collector"
    /\ \/ \E b \in blobs \ collector :
            /\ blobs' = blobs \ {b}
            /\ UNCHANGED <<gcLock, collector>>
       \/ gcLock' = None /\ collector' = {} /\ UNCHANGED blobs
    /\ UNCHANGED <<manifests, head, required, intent, epoch, control, worldLock, slot,
                   pruner, use, crashes>>

(***************************************************************************)
(* The other writers of the world directory.                               *)
(***************************************************************************)
save_epoch_record ==
    /\ worldLock = None
    /\ epoch < MaxEpoch
    /\ epoch' = epoch + 1
    /\ UNCHANGED <<blobs, manifests, head, required, intent, control, gcLock, worldLock,
                   slot, collector, pruner, use, crashes>>

(* A transfer, sleep or recovery record names the latest snapshot. *)
save_control_record ==
    /\ head # None /\ head # <<>>
    /\ NamespaceValid
    /\ worldLock = None
    /\ control' = head
    /\ UNCHANGED <<blobs, manifests, head, required, intent, epoch, gcLock, worldLock,
                   slot, collector, pruner, use, crashes>>

clear_control_record ==
    /\ worldLock = None
    /\ control # None
    /\ control' = None
    /\ UNCHANGED <<blobs, manifests, head, required, intent, epoch, gcLock, worldLock,
                   slot, collector, pruner, use, crashes>>

(* A new world, or one written before head records existed. *)
Legacy == {[n \in Numbers |-> None]} \cup
          {[n \in Numbers |-> IF n = 1 THEN <<[epoch |-> 1, entries |-> es]>> ELSE None] :
              es \in Contents}

Init ==
    /\ manifests \in Legacy
    /\ blobs = UNION {Last(manifests[n]).entries : n \in Present}
    /\ head = None /\ required = FALSE /\ intent = None
    /\ epoch = 1 /\ control = None
    /\ gcLock = None /\ worldLock = None
    /\ slot = [s \in Slots |-> Free]
    /\ collector = {} /\ pruner = None
    /\ use \in Uses /\ crashes = 0

Next ==
    \/ LoadHead
    \/ LoadTorn
    \/ \E p \in Publications :
        \/ \E entries \in Contents : begin_snapshot_publication(p, entries)
        \/ pin_hash(p)
        \/ put_file_blob(p)
        \/ verify_snapshot(p)
    \/ \E r \in Replicas :
        \/ \E entries \in Contents : reconstruct(r, entries)
        \/ \E b \in Blobs : receive_blob(r, b)
        \/ finalize_replica(r)
    \/ \E s \in Slots :
        \/ lock_blob_gc(s)
        \/ commit_existing(s)
        \/ begin_snapshot_commit(s)
        \/ publish_immutable_manifest(s)
        \/ write_head(s)
        \/ finish_snapshot_commit(s)
        \/ release_publication_pins(s)
        \/ Drop(s)
        \/ Crash(s)
    \/ recover_abandoned_publications
    \/ \E keep \in 0 .. 1 : prune_snapshots(keep)
    \/ prune_step
    \/ garbage_collect_blobs
    \/ collect_step
    \/ save_epoch_record
    \/ save_control_record
    \/ clear_control_record

Spec == Init /\ [][Next]_vars

-----------------------------------------------------------------------------
PCs == {"free", "building", "verified", "locked", "intent", "manifest", "head",
        "finished", "done", "failed", "stale", "leaked"}

(* Every variable has the shape of the file or lock it stands for. *)
TypeOK ==
    /\ blobs \subseteq Blobs
    /\ manifests \in [Numbers -> History \cup {None}]
    /\ head \in History \cup {None} /\ intent \in History \cup {None}
    /\ control \in History \cup {None}
    /\ required \in BOOLEAN /\ use \in Uses
    /\ epoch \in 1 .. MaxEpoch
    /\ gcLock \in Slots \cup {None, "collector"} /\ worldLock \in Slots \cup {None}
    /\ slot \in [Slots -> [pc : PCs, target : History, pins : SUBSET Blobs, done : SUBSET Blobs]]
    /\ collector \subseteq Blobs
    /\ pruner \in (SUBSET Numbers) \cup {None}
    /\ crashes \in 0 .. MaxCrashes

(* A committed snapshot can be restored: every blob that a manifest in the *)
(* snapshot directory names is complete, however publications, collection, *)
(* pruning and crashes interleave.  The pins of a publication cover all of *)
(* its blobs from before the collector could see them until the manifest   *)
(* that names them is a root of the collection.  So the canonical head can *)
(* be restored: it names a manifest that is on disk and equal to it.       *)
CommittedComplete ==
    /\ \A n \in Present : Complete(manifests[n])
    /\ head # None => TargetValid(head)

(* A manifest above the head is one an interrupted commit left, and the    *)
(* intent that commit wrote is still there, so that every later load of    *)
(* the head fails closed instead of adopting it.                           *)
OrphanFailsClosed ==
    \A n \in Present :
        (IF head = None THEN required ELSE n > Len(head)) => intent = manifests[n]

(* A snapshot named by a transfer, sleep or recovery record survives       *)
(* pruning for as long as the record is there.                             *)
ControlRetained == control # None => manifests[Len(control)] = control

(* The head only grows by one snapshot at a time, made by the authority of *)
(* the epoch that is durable at that moment: a deposed publisher that      *)
(* prepared its snapshot before the epoch moved never becomes canonical.   *)
HeadExtendsInEpoch ==
    [][head' # head /\ head # None =>
          /\ Front(head') = head
          /\ Last(head').epoch = epoch]_vars
=============================================================================
