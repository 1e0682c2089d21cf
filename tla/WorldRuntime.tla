----------------------------- MODULE WorldRuntime -----------------------------
(***************************************************************************)
(* One device and one world: who may launch Minecraft, when the running    *)
(* world is checkpointed, put to sleep, woken or handed over.  Two         *)
(* controllers share the device: the supervisor task of the daemon and the *)
(* process of an explicit launch.  The daemon's tick and the requests of   *)
(* other peers change the accepted epoch under them; any process may be    *)
(* killed between two durable writes, and the Java child survives it.      *)
(*                                                                         *)
(* Every step advances the fencing token with the epoch, so the epoch      *)
(* number stands for both.  A state root is named by the number of the     *)
(* first snapshot that had it.                                             *)
(***************************************************************************)
EXTENDS Naturals, FiniteSets

CONSTANTS
    MemberCounts,   \* how many members the world may have
    MaxEpoch,       \* bound on authority epochs
    MaxSnapshot,    \* bound on snapshot numbers
    MaxLaunches,    \* bound on Java processes
    MaxStops,       \* bound on killed processes
    MaxErrors,      \* bound on failed calls
    None

VARIABLES
    members,        \* members of the descriptor that are not banned
    epoch,          \* epoch.postcard
    head,           \* the latest canonical snapshot
    membership,     \* the epoch of membership.postcard
    sleep,          \* sleep.postcard
    transfer,       \* transfer.postcard, outbound
    intents,        \* stop.intent, wake.intent, transfer.intent
    permit,         \* the generation of a live authority.permit, or 0
    status,         \* migration-status.json
    proc,           \* runtime-process.json: a Java process, Pending or None
    dir,            \* runtime/<world>: the process that owns it, the root restored
    alive,          \* living Java processes
    launched,       \* Java processes so far
    lock,           \* the holder of authority-runtime.lock
    pc,             \* where each controller is
    run,            \* its generation, base snapshot, child, disposition
    daemon,         \* the daemon process: "up", "killed", "ended" by an error
    stops, errors

vars == <<members, epoch, head, membership, sleep, transfer, intents, permit, status,
          proc, dir, alive, launched, lock, pc, run, daemon, stops, errors>>

Controllers == {"supervisor", "launch"}

(* What the constants stand for: None is no process, controller or root. *)
RuntimeConstants ==
    /\ MaxEpoch \in Nat \ {0} /\ MaxSnapshot \in Nat \ {0} /\ MaxLaunches \in Nat
    /\ None \notin 0..MaxLaunches /\ None \notin Controllers

ASSUME RuntimeAssumption == RuntimeConstants

records == <<epoch, head, membership, sleep, transfer>>
machine == <<proc, dir, alive, launched>>
bounds == <<members, stops, errors>>

Pending == 0        \* a launch whose Java process is not recorded
Idle == [gen |-> 0, base |-> None, child |-> None, to |-> "sleep"]
Local == epoch.auth = "local"

publish_status(phase) == status' = [phase |-> phase, ready |-> phase = "Ready"]

At(c, label) == pc[c] = label /\ (c = "supervisor" => daemon = "up")
Goto(c, label) == pc' = [pc EXCEPT ![c] = label]

(***************************************************************************)
(* What the records allow.                                                 *)
(***************************************************************************)
active_outbound_transfer == transfer # None /\ transfer.source = epoch.n /\ Local

(* Mutated form: the generation a controller started with is not compared. *)
AnyGeneration(c) == Local

ensure_authority_generation(c) == Local /\ epoch.n = run[c].gen

(* An epoch is promoted from the snapshot it was granted on, once. *)
Promotes(e, h) == h.epoch + 1 = e.n /\ h.root = e.base
Continues(e, h) == h.epoch = e.n /\ h.auth = "local" /\ h.root = e.base

ensure_authority_artifacts(e, h) == Promotes(e, h) \/ Continues(e, h)

Promoted(e, h) ==
    IF h.epoch < e.n THEN [no |-> h.no + 1, epoch |-> e.n, auth |-> "local", root |-> h.root] ELSE h

NextEpoch(auth, mode) == [n |-> epoch.n + 1, auth |-> auth, base |-> head.root, mode |-> mode]

(***************************************************************************)
(* Killed, failed, finished: what a controller leaves behind.              *)
(***************************************************************************)
(* Drop of RuntimeProcessGuard: the record outlives a living child. *)
Dropped(c, living) ==
    IF run[c].child \in living \/ pc[c] \notin {"restore", "spawn", "record", "verify", "ready",
                                                "checkpoint", "commit", "finish"}
    THEN proc ELSE None

Unlock(c) == lock' = IF lock = c THEN None ELSE lock

(* The error path of run_authority_runtime_inner: the child is terminated  *)
(* where the code does so, the guards are dropped, and the supervisor      *)
(* alone publishes the failure.                                            *)
Aborted(c, terminate) ==
    /\ alive' = IF terminate THEN alive \ {run[c].child} ELSE alive
    /\ proc' = Dropped(c, alive')
    /\ Unlock(c)
    /\ Goto(c, "idle") /\ run' = [run EXCEPT ![c] = Idle]

Failed(c, terminate) ==
    /\ Aborted(c, terminate)
    /\ IF c = "supervisor" THEN publish_status("Failed") ELSE UNCHANGED status

(* A kill drops nothing: the advisory lock goes with the process. *)
Killed(c) ==
    /\ stops < MaxStops /\ stops' = stops + 1
    /\ Unlock(c)
    /\ Goto(c, "idle") /\ run' = [run EXCEPT ![c] = Idle]
    /\ daemon' = IF c = "supervisor" THEN "killed" ELSE daemon

Kill(c) ==
    /\ pc[c] # "idle" /\ Killed(c)
    /\ UNCHANGED <<members, records, intents, permit, status, machine, errors>>

(* A call of the launch pipeline returns an error.  Between the spawn and  *)
(* the ready state a status that cannot be written leaves the child alive. *)
Fail(c) ==
    /\ errors < MaxErrors /\ errors' = errors + 1
    /\ \E l \in {"select", "begin", "restore", "spawn", "verify", "ready", "checkpoint"} : At(c, l)
    /\ \E terminate \in BOOLEAN : (~terminate => At(c, "verify")) /\ Failed(c, terminate)
    /\ UNCHANGED <<members, records, intents, permit, dir, launched, daemon, stops>>

(***************************************************************************)
(* The supervisor's loop and the explicit launch, up to the hosting slot.  *)
(***************************************************************************)
Hosts == sleep = None /\ Local /\ ~active_outbound_transfer

Tick ==
    IF active_outbound_transfer THEN "AwaitingTransferAcceptance"
    ELSE IF sleep # None THEN IF ~intents.wake THEN "Sleeping" ELSE "Blocked"
    ELSE IF ~Local THEN "WaitingForAuthority" ELSE "WaitingForQuorum"

(* The tick of a world that this device has nothing to launch for. *)
supervise_world ==
    /\ At("supervisor", "idle")
    /\ ~Hosts /\ (sleep # None /\ intents.wake => members > 1 \/ active_outbound_transfer)
    /\ publish_status(Tick)
    /\ UNCHANGED <<bounds, records, intents, permit, machine, lock, pc, run, daemon>>

(* run_authority_runtime: a sleeping world of several members is refused. *)
Requested(c) ==
    \/ c = "launch" /\ (members > 1 => sleep = None /\ Local)
    \/ c = "supervisor" /\ Hosts
    \/ c = "supervisor" /\ sleep # None /\ intents.wake /\ members = 1 /\ ~active_outbound_transfer

(* A single member needs no permit and goes straight for the slot. *)
Launch(c) ==
    /\ At(c, "idle") /\ Requested(c) /\ launched < MaxLaunches
    /\ IF members > 1 THEN /\ publish_status("WaitingForQuorum") /\ Goto(c, "quorum")
                      ELSE /\ UNCHANGED status /\ Goto(c, "slot")
    /\ run' = [run EXCEPT ![c].gen = epoch.n]
    /\ UNCHANGED <<bounds, records, intents, permit, machine, lock, daemon>>

wait_until_launch_safe(c) ==
    /\ At(c, "quorum")
    /\ IF ~ensure_authority_generation(c) \/ active_outbound_transfer
       THEN Goto(c, "idle") /\ run' = [run EXCEPT ![c] = Idle]
       ELSE permit = run[c].gen /\ Goto(c, "slot") /\ UNCHANGED run
    /\ UNCHANGED <<bounds, records, intents, permit, status, machine, lock, daemon>>

(* try_acquire: a held slot sends the controller back without a word. *)
try_acquire(c) ==
    /\ At(c, "slot")
    /\ IF lock = None THEN lock' = c /\ Goto(c, "select") /\ UNCHANGED run
       ELSE Goto(c, "idle") /\ run' = [run EXCEPT ![c] = Idle] /\ UNCHANGED lock
    /\ UNCHANGED <<bounds, records, intents, permit, status, machine, daemon>>

(***************************************************************************)
(* The pipeline of run_authority_runtime_inner.                            *)
(***************************************************************************)
(* prepare_authority_epoch: a sleeping world is woken by a solo epoch.     *)
(* The writes in their order: the epoch, the removal of the sleep record,  *)
(* the promoted snapshot, the promoted membership.                         *)
WakeEpoch == IF sleep = None THEN epoch ELSE NextEpoch("local", "Solo")
CanPrepare == IF sleep = None THEN Local ELSE sleep.no = head.no

Prepared(k) ==
    /\ epoch' = IF k >= 1 THEN WakeEpoch ELSE epoch
    /\ sleep' = IF k >= 2 THEN None ELSE sleep
    /\ head' = IF k >= 3 THEN Promoted(WakeEpoch, head) ELSE head
    /\ membership' = IF k >= 4 THEN WakeEpoch.n ELSE membership
    /\ UNCHANGED transfer

prepare_authority_epoch(c) ==
    /\ At(c, "select") /\ CanPrepare /\ ensure_authority_artifacts(WakeEpoch, head)
    /\ WakeEpoch.n <= MaxEpoch /\ head.no < MaxSnapshot
    /\ Prepared(4)
    /\ publish_status("PreparingRuntime") /\ Goto(c, "begin")
    /\ run' = [run EXCEPT ![c].gen = WakeEpoch.n, ![c].base = head']
    /\ UNCHANGED <<bounds, intents, permit, machine, lock, daemon>>

(* Killed after some of the writes. *)
PrepareKilled(c) ==
    /\ At(c, "select") /\ CanPrepare /\ ensure_authority_artifacts(WakeEpoch, head)
    /\ WakeEpoch.n <= MaxEpoch /\ head.no < MaxSnapshot
    /\ \E k \in 1..3 : Prepared(k)
    /\ Killed(c)
    /\ UNCHANGED <<members, intents, permit, status, machine, errors>>

(* Refused: the replica is stale, another peer holds the epoch, or the     *)
(* latest snapshot conflicts with it.  The wake epoch is then saved.       *)
PrepareRefused(c) ==
    /\ At(c, "select") /\ WakeEpoch.n <= MaxEpoch
    /\ ~(CanPrepare /\ ensure_authority_artifacts(WakeEpoch, head))
    /\ Prepared(IF CanPrepare THEN 2 ELSE 0)
    /\ Failed(c, TRUE)
    /\ UNCHANGED <<bounds, intents, permit, dir, launched, daemon>>

(* Mutated form: a launch that left no process identifier is forgotten. *)
PendingForgotten == proc \notin alive

(* inspect_previous_record fails closed on a launch it cannot account for. *)
inspect_previous_record == proc # Pending /\ proc \notin alive

(* RuntimeProcessGuard::begin, then reset_runtime_directory. *)
begin(c) ==
    /\ At(c, "begin")
    /\ IF inspect_previous_record
       THEN /\ proc' = Pending /\ dir' = [owner |-> None, root |-> None]
            /\ Goto(c, "restore") /\ publish_status("RestoringWorld")
            /\ UNCHANGED <<run, lock, alive>>
       ELSE Failed(c, TRUE) /\ UNCHANGED dir
    /\ UNCHANGED <<bounds, records, intents, permit, launched, daemon>>

restore(c) ==
    /\ At(c, "restore")
    /\ dir' = [owner |-> None, root |-> run[c].base.root]
    /\ IF ensure_authority_generation(c)
       THEN /\ Goto(c, "spawn") /\ publish_status("LaunchingRuntime")
            /\ UNCHANGED <<run, lock, alive, proc>>
       ELSE Failed(c, TRUE)
    /\ UNCHANGED <<bounds, records, intents, permit, launched, daemon>>

launch_server(c) ==
    /\ At(c, "spawn") /\ launched < MaxLaunches
    /\ launched' = launched + 1 /\ alive' = alive \cup {launched'}
    /\ dir' = [dir EXCEPT !.owner = launched']
    /\ run' = [run EXCEPT ![c].child = launched'] /\ Goto(c, "record")
    /\ UNCHANGED <<bounds, records, intents, permit, status, proc, lock, daemon>>

record_java(c) ==
    /\ At(c, "record")
    /\ proc' = run[c].child
    /\ Goto(c, "verify") /\ publish_status("VerifyingFabric")
    /\ UNCHANGED <<bounds, records, intents, permit, dir, alive, launched, lock, run, daemon>>

(* The Fabric session, its world information, the generation once more. *)
Verify(c) ==
    /\ At(c, "verify")
    /\ IF run[c].child \in alive /\ ensure_authority_generation(c)
       THEN /\ Goto(c, "ready") /\ publish_status("Ready")
            /\ UNCHANGED <<alive, proc, run, lock>>
       ELSE IF run[c].child \in alive
       THEN Aborted(c, TRUE) /\ publish_status(IF c = "launch" THEN "Superseded" ELSE "Failed")
       ELSE Failed(c, TRUE)
    /\ UNCHANGED <<bounds, records, intents, permit, dir, launched, daemon>>

(***************************************************************************)
(* wait_for_runtime_exit: one poll of the running world.                   *)
(***************************************************************************)
(* The child is gone: a clean exit is checkpointed like a stop. *)
Exited(c) ==
    /\ At(c, "ready") /\ run[c].child \notin alive
    /\ \/ /\ Goto(c, "checkpoint") /\ publish_status("Checkpointing")
          /\ run' = [run EXCEPT ![c].to = "sleep"]
          /\ UNCHANGED <<alive, proc, lock>>
       \/ Failed(c, TRUE)
    /\ UNCHANGED <<bounds, records, intents, permit, dir, launched, daemon>>

Superseded(c) ==
    /\ At(c, "ready") /\ run[c].child \in alive /\ ~ensure_authority_generation(c)
    /\ Failed(c, TRUE)
    /\ UNCHANGED <<bounds, records, intents, permit, dir, launched, daemon>>

(* The save barrier of a stop: when it fails the world keeps running, and  *)
(* the intent is cleared either way.                                       *)
StopIntent(c) ==
    /\ At(c, "ready") /\ run[c].child \in alive /\ ensure_authority_generation(c)
    /\ intents.stop /\ intents' = [intents EXCEPT !.stop = FALSE]
    /\ \/ /\ alive' = alive \ {run[c].child}
          /\ Goto(c, "checkpoint") /\ publish_status("Checkpointing")
          /\ run' = [run EXCEPT ![c].to = "sleep"]
       \/ UNCHANGED <<alive, pc, status, run>>
    /\ UNCHANGED <<bounds, records, permit, proc, dir, launched, lock, daemon>>

(* The save barrier of a transfer: when it fails the run ends in an error. *)
TransferIntent(c) ==
    /\ At(c, "ready") /\ run[c].child \in alive /\ ensure_authority_generation(c)
    /\ ~intents.stop /\ intents.transfer
    /\ \/ /\ alive' = alive \ {run[c].child}
          /\ Goto(c, "checkpoint") /\ publish_status("Checkpointing")
          /\ run' = [run EXCEPT ![c].to = "transfer"]
          /\ UNCHANGED <<proc, lock>>
       \/ Failed(c, TRUE)
    /\ UNCHANGED <<bounds, records, intents, permit, dir, launched, daemon>>

(***************************************************************************)
(* The final checkpoint.                                                   *)
(***************************************************************************)
(* The directory is hashed; the head it must extend is read before. *)
snapshot_directory(c) ==
    /\ At(c, "checkpoint")
    /\ IF ensure_authority_generation(c)
       THEN Goto(c, "commit") /\ UNCHANGED <<status, alive, proc, run, lock>>
       ELSE Failed(c, TRUE)
    /\ UNCHANGED <<bounds, records, intents, permit, dir, launched, daemon>>

(* commit_snapshot_fenced: the generation, the head and the predecessor. *)
CanCommit(c) == ensure_authority_generation(c) /\ head.no = run[c].base.no

commit_snapshot_fenced(c) ==
    /\ At(c, "commit") /\ head.no < MaxSnapshot
    /\ IF CanCommit(c)
       THEN /\ \E root \in {dir.root, head.no + 1} :
                 head' = [no |-> head.no + 1, epoch |-> run[c].gen, auth |-> "local", root |-> root]
            /\ Goto(c, "finish") /\ UNCHANGED <<status, alive, proc, run, lock>>
       ELSE Failed(c, TRUE) /\ UNCHANGED head
    /\ UNCHANGED <<bounds, epoch, membership, sleep, transfer, intents, permit, dir, launched, daemon>>

(* The disposition: a prepared transfer or a sleep record for the snapshot *)
(* just committed, then the intent it answers.                             *)
Disposed(c, k) ==
    /\ IF run[c].to = "transfer"
       THEN /\ transfer' = [source |-> run[c].gen, base |-> run[c].base.no + 1]
            /\ intents' = IF k >= 2 THEN [intents EXCEPT !.transfer = FALSE] ELSE intents
            /\ UNCHANGED sleep
       ELSE /\ sleep' = [no |-> run[c].base.no + 1, epoch |-> run[c].gen]
            /\ intents' = IF k >= 2 THEN [intents EXCEPT !.wake = FALSE] ELSE intents
            /\ UNCHANGED transfer
    /\ UNCHANGED <<epoch, head, membership>>

Finish(c) ==
    /\ At(c, "finish") /\ Disposed(c, 2)
    /\ Aborted(c, TRUE)
    /\ publish_status(IF run[c].to = "transfer" THEN "AwaitingTransferAcceptance" ELSE "Sleeping")
    /\ UNCHANGED <<bounds, permit, dir, launched, daemon>>

FinishKilled(c) ==
    /\ At(c, "finish") /\ Disposed(c, 1)
    /\ Killed(c)
    /\ UNCHANGED <<members, permit, status, machine, errors>>

(***************************************************************************)
(* The commands of the player.                                             *)
(***************************************************************************)
request_world_stop ==
    /\ sleep = None /\ Local
    /\ intents' = [intents EXCEPT !.stop = TRUE]
    /\ UNCHANGED <<bounds, records, permit, status, machine, lock, pc, run, daemon>>

request_world_wake ==
    /\ sleep # None /\ sleep.no = head.no
    /\ intents' = [intents EXCEPT !.wake = TRUE]
    /\ publish_status("WaitingForAuthority")
    /\ UNCHANGED <<bounds, records, permit, machine, lock, pc, run, daemon>>

(* A running world is asked for its checkpoint; a sleeping one whose       *)
(* record is aligned is handed over as it is.                              *)
prepare_manual_transfer ==
    /\ members > 1 /\ Local /\ ~active_outbound_transfer
    /\ IF sleep = None
       THEN /\ intents' = [intents EXCEPT !.transfer = TRUE]
            /\ publish_status("Checkpointing") /\ UNCHANGED transfer
       ELSE /\ sleep = [no |-> head.no, epoch |-> epoch.n]
            /\ transfer' = [source |-> epoch.n, base |-> head.no]
            /\ publish_status("AwaitingTransferAcceptance") /\ UNCHANGED intents
    /\ UNCHANGED <<bounds, epoch, head, membership, sleep, permit, machine, lock, pc, run, daemon>>

(***************************************************************************)
(* The daemon: its tick, and the epochs of other peers.                    *)
(***************************************************************************)
(* An error of the tick ends the daemon; its supervisor task is dropped.   *)
Ends ==
    /\ daemon' = "ended"
    /\ Unlock("supervisor")
    /\ proc' = Dropped("supervisor", alive)
    /\ Goto("supervisor", "idle") /\ run' = [run EXCEPT !["supervisor"] = Idle]

Stays == UNCHANGED <<proc, lock, pc, run, daemon>>

(* A world asleep or held by another peer has no permit. *)
TickClears ==
    /\ daemon = "up" /\ permit' = 0
    /\ IF sleep # None THEN ~intents.wake ELSE ~Local
    /\ Stays
    /\ UNCHANGED <<bounds, records, intents, status, dir, alive, launched>>

(* A single member is a quorum; with more, the lease acknowledgements say. *)
has_quorum == IF members = 1 THEN {TRUE} ELSE BOOLEAN

(* The branch record a solo epoch extends.  Only a branch that is there is *)
(* ever refreshed, adopted from a peer or preserved, and no step writes    *)
(* the first one: a solo epoch always fails here.                          *)
refresh_solo_branch == epoch.mode # "Solo"

(* The authority's tick: a recovery epoch promotes its snapshot and its    *)
(* membership, then the acknowledgements decide on the permit.             *)
TickAuthority ==
    /\ daemon = "up" /\ sleep = None /\ Local /\ head.no < MaxSnapshot
    /\ \E quorum \in has_quorum :
         IF \/ epoch.mode = "Recovery" /\ ~ensure_authority_artifacts(epoch, head)
            \/ quorum /\ ~refresh_solo_branch
         THEN Ends /\ UNCHANGED <<head, membership, permit>>
         ELSE /\ Stays /\ permit' = IF quorum THEN epoch.n ELSE 0
              /\ IF epoch.mode = "Recovery"
                 THEN head' = Promoted(epoch, head) /\ membership' = epoch.n
                 ELSE UNCHANGED <<head, membership>>
    /\ UNCHANGED <<bounds, epoch, sleep, transfer, intents, status, dir, alive, launched>>

validate_sleep_recovery_base == sleep = [no |-> head.no, epoch |-> epoch.n]

(* A quorum promotes this device: after a crash of the authority, or from  *)
(* the exact sleep record when a wake was requested.                       *)
Recovers == members > 1 /\ epoch.n < MaxEpoch /\ (sleep = None => ~Local) /\ (sleep # None => intents.wake)

TickRecovers ==
    /\ daemon = "up" /\ Recovers
    /\ IF sleep # None /\ ~validate_sleep_recovery_base
       THEN Ends /\ UNCHANGED <<epoch, sleep, intents>>
       ELSE /\ Stays /\ epoch' = NextEpoch("local", "Recovery") /\ sleep' = None
            /\ intents' = [intents EXCEPT !.wake = FALSE]
    /\ permit' = 0
    /\ UNCHANGED <<bounds, head, membership, transfer, status, dir, alive, launched>>

(* Killed between the epoch and the removal of the sleep record. *)
RecoverKilled ==
    /\ daemon = "up" /\ Recovers /\ sleep # None /\ validate_sleep_recovery_base
    /\ epoch' = NextEpoch("local", "Recovery")
    /\ Killed("supervisor")
    /\ UNCHANGED <<members, head, membership, sleep, transfer, intents, permit, status, machine, errors>>

(* The player starts the daemon again. *)
DaemonStart ==
    /\ daemon # "up" /\ daemon' = "up"
    /\ UNCHANGED <<bounds, records, intents, permit, status, machine, lock, pc, run>>

(* The request RecoveryEpoch: a quorum of the others promoted a peer. *)
RecoveryEpoch ==
    /\ daemon = "up" /\ members > 1 /\ epoch.n < MaxEpoch
    /\ epoch' = NextEpoch("other", "Recovery") /\ sleep' = None
    /\ intents' = [intents EXCEPT !.wake = FALSE]
    /\ UNCHANGED <<bounds, head, membership, transfer, permit, status, machine, lock, pc, run, daemon>>

(* The epoch of the peer that activated this device's transfer. *)
observe_manual_transfer_epoch ==
    /\ active_outbound_transfer /\ transfer.base = head.no /\ epoch.n < MaxEpoch
    /\ epoch' = NextEpoch("other", "Quorum") /\ sleep' = None
    /\ publish_status("WaitingForAuthority")
    /\ UNCHANGED <<bounds, head, membership, transfer, intents, permit, machine, lock, pc, run, daemon>>

(* A snapshot of the other authority is replicated to this device. *)
Replicate ==
    /\ daemon = "up" /\ ~Local /\ head.no < MaxSnapshot
    /\ \E root \in {head.root, head.no + 1} :
         head' = [no |-> head.no + 1, epoch |-> epoch.n, auth |-> "other", root |-> root]
    /\ UNCHANGED <<bounds, epoch, membership, sleep, transfer, intents, permit, status, machine,
                   lock, pc, run, daemon>>

(* Minecraft stops: a player's command, a crash, or the lost session. *)
JavaExit ==
    /\ \E p \in alive : alive' = alive \ {p}
    /\ UNCHANGED <<bounds, records, intents, permit, status, proc, dir, launched, lock, pc, run, daemon>>

-----------------------------------------------------------------------------
(* This device holds the authority and committed the head.  A world of one *)
(* member has a solo epoch; with more, the epoch may also be the one of an *)
(* accepted transfer.  Epochs and snapshots are counted from here.         *)
Init ==
    /\ members \in MemberCounts
    /\ \E mode \in {"Solo", "Quorum"} :
         /\ members = 1 => mode = "Solo"
         /\ epoch = [n |-> 1, auth |-> "local", base |-> 1, mode |-> mode]
    /\ head = [no |-> 1, epoch |-> 1, auth |-> "local", root |-> 1]
    /\ membership = 1 /\ sleep = None /\ transfer = None
    /\ intents = [stop |-> FALSE, wake |-> FALSE, transfer |-> FALSE]
    /\ permit = 0 /\ status = [phase |-> "Dormant", ready |-> FALSE]
    /\ proc = None /\ dir = [owner |-> None, root |-> None]
    /\ alive = {} /\ launched = 0 /\ lock = None
    /\ pc = [c \in Controllers |-> "idle"] /\ run = [c \in Controllers |-> Idle]
    /\ daemon = "up" /\ stops = 0 /\ errors = 0

Step(c) ==
    \/ Launch(c) \/ wait_until_launch_safe(c) \/ try_acquire(c)
    \/ prepare_authority_epoch(c) \/ PrepareRefused(c) \/ begin(c) \/ restore(c)
    \/ launch_server(c) \/ record_java(c) \/ Verify(c)
    \/ Exited(c) \/ Superseded(c) \/ StopIntent(c) \/ TransferIntent(c)
    \/ snapshot_directory(c) \/ commit_snapshot_fenced(c) \/ Finish(c)

Fault(c) == Kill(c) \/ Fail(c) \/ PrepareKilled(c) \/ FinishKilled(c)

Next ==
    \/ \E c \in Controllers : Step(c) \/ Fault(c)
    \/ supervise_world
    \/ request_world_stop \/ request_world_wake \/ prepare_manual_transfer
    \/ TickClears \/ TickAuthority \/ TickRecovers \/ RecoverKilled \/ DaemonStart
    \/ RecoveryEpoch \/ observe_manual_transfer_epoch \/ Replicate
    \/ JavaExit

Spec == Init /\ [][Next]_vars

-----------------------------------------------------------------------------
TypeOK ==
    /\ members \in MemberCounts
    /\ epoch \in [n : 1..MaxEpoch, auth : {"local", "other"}, base : 1..MaxSnapshot,
                  mode : {"Solo", "Quorum", "Recovery"}]
    /\ head \in [no : 1..MaxSnapshot, epoch : 1..MaxEpoch, auth : {"local", "other"},
                 root : 1..MaxSnapshot]
    /\ membership \in 1..MaxEpoch
    /\ sleep = None \/ sleep \in [no : 1..MaxSnapshot, epoch : 1..MaxEpoch]
    /\ transfer = None \/ transfer \in [source : 1..MaxEpoch, base : 1..MaxSnapshot]
    /\ proc \in {None, Pending} \cup 1..MaxLaunches
    /\ alive \subseteq 1..launched /\ lock \in Controllers \cup {None}
    /\ daemon \in {"up", "killed", "ended"}

(* reset_runtime_directory never runs under a living Minecraft: a Java     *)
(* process owns the runtime directory until it is gone, so there is at     *)
(* most one, whoever was killed between the spawn and the durable record.  *)
(* A controller that got past the slot still holds authority-runtime.lock. *)
OneRuntime ==
    /\ \A p \in alive : dir.owner = p
    /\ \A c \in Controllers : pc[c] \notin {"idle", "quorum", "slot"} => lock = c

(* A snapshot of this device is committed in the epoch it holds at that    *)
(* moment, and its content continues the head: promoted unchanged, or      *)
(* taken from a directory that was restored from that head.                *)
WorldContinues ==
    [][head' # head /\ head'.auth = "local" =>
         /\ epoch'.auth = "local" /\ head'.epoch = epoch'.n
         /\ head'.root = head.root \/ dir.root = head.root]_vars
=============================================================================
