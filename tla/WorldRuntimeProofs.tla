-------------------------- MODULE WorldRuntimeProofs --------------------------
(***************************************************************************)
(* One device and one world, for any number of epochs, snapshots, Java     *)
(* processes, kills and failed calls: a living Minecraft owns the runtime  *)
(* directory, and what this device commits continues the head.  Then what  *)
(* surrounds the process: the checkpoint the Fabric bridge reports is      *)
(* complete, and a world, its mods and its runtime are installed whole.    *)
(***************************************************************************)
EXTENDS WorldRuntime, FabricBridge, WorldImport, ServerMods, RuntimeInstall, TLAPS

(* A step that does not name the SMT solver is left to Zenon. *)
USE ZenonT(20)

-----------------------------------------------------------------------------
(* The inductive invariant                                                 *)

Early == {"idle", "quorum", "slot"}
Childless == Early \cup {"select", "begin", "restore", "spawn"}
Recorded == {"verify", "ready", "checkpoint", "commit", "finish"}
Working == {"restore", "spawn", "record"} \cup Recorded
Based == {"begin"} \cup Working
Restored == {"spawn", "record", "verify", "ready", "checkpoint", "commit"}

Heads == [no : 1..MaxSnapshot, epoch : 1..MaxEpoch, auth : {"local", "other"},
          root : 1..MaxSnapshot]
Runs == [gen : 0..MaxEpoch, base : Heads \cup {None}, child : 1..MaxLaunches \cup {None},
         to : {"sleep", "transfer"}]

(* The controllers, which TypeOK leaves open. *)
ControllersTyped ==
    /\ pc \in [Controllers -> Childless \cup Based] /\ run \in [Controllers -> Runs]
    /\ dir \in [owner : 1..MaxLaunches \cup {None}, root : 1..MaxSnapshot \cup {None}]
    /\ intents \in [stop : BOOLEAN, wake : BOOLEAN, transfer : BOOLEAN]
    /\ launched \in 0..MaxLaunches

(* Past the slot a controller holds the lock, so at most one is there. *)
SlotHeld == \A c \in Controllers : pc[c] \notin Early => lock = c

(* What a controller knows of the living processes: none before the spawn, *)
(* none but its child after it.                                            *)
ChildKnown(c) ==
    /\ pc[c] \in Childless => run[c].child = None
    /\ pc[c] \in {"restore", "spawn"} => alive = {} /\ proc = Pending
    /\ pc[c] \in {"record"} \cup Recorded => run[c].child # None /\ alive \subseteq {run[c].child}
    /\ pc[c] = "record" => proc = Pending
    /\ pc[c] \in Recorded => proc = run[c].child

(* A living process owns the directory and is on record, or the record     *)
(* says that a launch is under way.                                        *)
Owned == \A p \in alive : dir.owner = p /\ proc \in {p, Pending}
ProcessesKnown == Owned /\ \A c \in Controllers : ChildKnown(c)

(* The snapshot a run started from is the head or an earlier one, and the  *)
(* directory was restored from it.                                         *)
BaseOf(c) ==
    /\ pc[c] # "idle" => run[c].gen \in 1..MaxEpoch
    /\ pc[c] \in Based =>
          /\ run[c].base \in Heads /\ run[c].base.no <= head.no
          /\ run[c].base.no = head.no => run[c].base.root = head.root
    /\ pc[c] \in Restored => dir.root = run[c].base.root
    /\ pc[c] = "finish" => run[c].base.no < head.no
BaseKnown == \A c \in Controllers : BaseOf(c)

RuntimeInv == TypeOK /\ ControllersTyped /\ SlotHeld /\ ProcessesKnown /\ BaseKnown

-----------------------------------------------------------------------------
(* The shapes of a step                                                    *)

(* The head stays or the next number is committed. *)
HeadGrows == head' \in Heads /\ (head' # head => head'.no = head.no + 1)

(* The records and the bounds stay well typed. *)
RecordsTyped ==
    /\ members' \in MemberCounts
    /\ epoch' \in [n : 1..MaxEpoch, auth : {"local", "other"}, base : 1..MaxSnapshot,
                   mode : {"Solo", "Quorum", "Recovery"}]
    /\ membership' \in 1..MaxEpoch
    /\ sleep' = None \/ sleep' \in [no : 1..MaxSnapshot, epoch : 1..MaxEpoch]
    /\ transfer' = None \/ transfer' \in [source : 1..MaxEpoch, base : 1..MaxSnapshot]
    /\ daemon' \in {"up", "killed", "ended"}
    /\ intents' \in [stop : BOOLEAN, wake : BOOLEAN, transfer : BOOLEAN]
    /\ HeadGrows

LEMMA RecordsStay ==
    ASSUME RuntimeConstants, RuntimeInv
    PROVE  /\ members' = members => members' \in MemberCounts
           /\ epoch' = epoch =>
                epoch' \in [n : 1..MaxEpoch, auth : {"local", "other"}, base : 1..MaxSnapshot,
                            mode : {"Solo", "Quorum", "Recovery"}]
           /\ membership' = membership => membership' \in 1..MaxEpoch
           /\ sleep' = sleep => sleep' = None \/ sleep' \in [no : 1..MaxSnapshot, epoch : 1..MaxEpoch]
           /\ transfer' = transfer =>
                transfer' = None \/ transfer' \in [source : 1..MaxEpoch, base : 1..MaxSnapshot]
           /\ daemon' = daemon => daemon' \in {"up", "killed", "ended"}
           /\ intents' = intents => intents' \in [stop : BOOLEAN, wake : BOOLEAN, transfer : BOOLEAN]
           /\ head' = head => HeadGrows
  BY SMTT(30) DEF RuntimeInv, TypeOK, ControllersTyped, HeadGrows, Heads

(* Nothing but the records moves. *)
LEMMA RecordStepKeeps ==
    ASSUME RuntimeConstants, RuntimeInv, RecordsTyped, UNCHANGED <<machine, lock, pc, run>>
    PROVE  RuntimeInv'
<1>1. TypeOK'
  BY DEF RuntimeInv, TypeOK, RecordsTyped, HeadGrows, Heads, machine
<1>2. ControllersTyped'
  BY DEF RuntimeInv, ControllersTyped, RecordsTyped, machine
<1>3. SlotHeld' /\ ProcessesKnown'
  BY DEF RuntimeInv, SlotHeld, ProcessesKnown, Owned, ChildKnown, machine
<1>4. BaseKnown'
  <2>1. head.no \in Nat
    BY SMTT(30) DEF RuntimeInv, TypeOK, RuntimeConstants
  <2>2. ASSUME NEW c \in Controllers, run[c].base \in Heads, run[c].base.no <= head.no
        PROVE  /\ run[c].base.no <= head'.no
               /\ run[c].base.no < head.no => run[c].base.no < head'.no
               /\ run[c].base.no = head'.no => head' = head
    BY SMTT(30), <2>1, <2>2 DEF RecordsTyped, HeadGrows, Heads, RuntimeConstants
  <2>. QED
    BY <2>2 DEF RuntimeInv, BaseKnown, BaseOf, machine, Based, Restored, Working, Recorded
<1>. QED
  BY <1>1, <1>2, <1>3, <1>4 DEF RuntimeInv

LEMMA ControllerMoves ==
    ASSUME ControllersTyped, NEW c \in Controllers, NEW l, Goto(c, l)
    PROVE  pc'[c] = l /\ \A d \in Controllers : d # c => pc'[d] = pc[d]
  BY DEF ControllersTyped, Goto

(* A controller goes back to idle.  Its child may be terminated; the       *)
(* process record goes, and the directory changes, only when no process is *)
(* left.                                                                   *)
Leaves(c) ==
    /\ Unlock(c) /\ Goto(c, "idle") /\ run' = [run EXCEPT ![c] = Idle]
    /\ alive' \subseteq alive
    /\ proc' = proc \/ (proc' = None /\ alive' = {} /\ pc[c] \in Working)
    /\ \/ dir' = dir
       \/ /\ pc[c] \notin Early /\ alive' = {}
          /\ dir' \in [owner : 1..MaxLaunches \cup {None}, root : 1..MaxSnapshot \cup {None}]
    /\ UNCHANGED launched

LEMMA LeavesKeeps ==
    ASSUME RuntimeConstants, RuntimeInv, RecordsTyped, NEW c \in Controllers, Leaves(c)
    PROVE  RuntimeInv'
<1>0. TypeOK /\ ControllersTyped /\ SlotHeld /\ ProcessesKnown /\ BaseKnown
  BY DEF RuntimeInv
<1>1. pc'[c] = "idle" /\ \A d \in Controllers : d # c => pc'[d] = pc[d]
  BY <1>0, ControllerMoves DEF Leaves
<1>2. /\ run'[c] = Idle /\ (\A d \in Controllers : d # c => run'[d] = run[d])
      /\ Idle \in Runs /\ Idle.child = None
  BY SMTT(30), <1>0 DEF Leaves, ControllersTyped, Idle, Runs, RuntimeConstants
<1>3. TypeOK'
  BY SMTT(30), <1>0 DEF TypeOK, RecordsTyped, HeadGrows, Heads, Leaves, Unlock
<1>4. ControllersTyped'
  BY <1>0, <1>1, <1>2 DEF ControllersTyped, RecordsTyped, Leaves, Goto, Childless, Early
<1>5. \A d \in Controllers : d # c /\ pc[c] \notin Early => pc[d] \in Early
  BY <1>0 DEF SlotHeld
<1>6. SlotHeld'
  BY <1>0, <1>1, <1>5 DEF SlotHeld, Leaves, Unlock, Early
<1>7. ProcessesKnown'
  <2>1. \A p \in alive' : dir'.owner = p /\ proc' \in {p, Pending}
    BY <1>0 DEF ProcessesKnown, Owned, ChildKnown, Leaves
  <2>2. ASSUME NEW d \in Controllers PROVE ChildKnown(d)'
    <3>1. CASE d = c
      BY <1>1, <1>2, <3>1 DEF ChildKnown, Recorded
    <3>2. CASE d # c /\ pc[d] \in Early
      BY <1>0, <1>1, <1>2, <3>2 DEF ProcessesKnown, Owned, ChildKnown, Childless, Early, Recorded
    <3>3. CASE d # c /\ pc[d] \notin Early
      <4>1. pc[c] \in Early
        BY <1>5, <3>3
      <4>2. proc' = proc
        BY <4>1 DEF Leaves, Early, Working, Recorded
      <4>. QED
        BY <1>0, <1>1, <1>2, <3>3, <4>2 DEF ProcessesKnown, Owned, ChildKnown, Leaves
    <3>. QED
      BY <3>1, <3>2, <3>3
  <2>. QED
    BY <2>1, <2>2 DEF ProcessesKnown, Owned, ChildKnown
<1>8. BaseKnown'
  <2>1. head.no \in Nat
    BY SMTT(30), <1>0 DEF TypeOK, RuntimeConstants
  <2>2. ASSUME NEW d \in Controllers, run[d].base \in Heads, run[d].base.no <= head.no
        PROVE  /\ run[d].base.no <= head'.no
               /\ run[d].base.no < head.no => run[d].base.no < head'.no
               /\ run[d].base.no = head'.no => head' = head
    BY SMTT(30), <2>1, <2>2 DEF RecordsTyped, HeadGrows, Heads, RuntimeConstants
  <2>3. ASSUME NEW d \in Controllers PROVE BaseOf(d)'
    <3>1. CASE d = c
      BY <1>1, <3>1 DEF BaseOf, Based, Restored, Working, Recorded
    <3>2. CASE d # c /\ dir' = dir
      BY <1>0, <1>1, <1>2, <2>2, <3>2 DEF BaseKnown, BaseOf, Based, Restored, Working, Recorded
    <3>3. CASE d # c /\ dir' # dir
      <4>1. pc[d] \in Early /\ pc'[d] = pc[d] /\ run'[d] = run[d]
        BY <1>1, <1>2, <1>5, <3>3 DEF Leaves
      <4>. QED
        BY <1>0, <4>1 DEF BaseKnown, BaseOf, Early, Based, Restored, Working, Recorded
    <3>. QED
      BY <3>1, <3>2, <3>3
  <2>. QED
    BY <2>3 DEF BaseKnown, BaseOf
<1>. QED
  BY <1>3, <1>4, <1>6, <1>7, <1>8 DEF RuntimeInv

(* Aborted, and the way the daemon's end drops its supervisor. *)
LEMMA AbortLeaves ==
    ASSUME RuntimeConstants, RuntimeInv, NEW c \in Controllers, NEW terminate \in BOOLEAN,
           Aborted(c, terminate), UNCHANGED <<dir, launched>>
    PROVE  Leaves(c)
<1>0. ProcessesKnown /\ SlotHeld
  BY DEF RuntimeInv
<1>1. alive' \subseteq alive /\ proc' = Dropped(c, alive')
  BY DEF Aborted
<1>2. CASE run[c].child \in alive' \/ pc[c] \notin Working
  BY <1>1, <1>2 DEF Dropped, Working, Recorded, Leaves, Aborted
<1>3. CASE run[c].child \notin alive' /\ pc[c] \in Working
  <2>1. alive' = {}
    BY <1>0, <1>1, <1>3 DEF ProcessesKnown, Owned, ChildKnown, Working
  <2>. QED
    BY <1>1, <1>3, <2>1 DEF Dropped, Working, Recorded, Leaves, Aborted
<1>. QED
  BY <1>2, <1>3

(* One controller moves on: before the slot it touches nothing else, past  *)
(* it the other controller is not there.                                   *)
Alone(c) == lock' = c /\ \A d \in Controllers : d # c => pc[d] \in Early
Apart(c) == pc'[c] \in Early /\ UNCHANGED <<machine, lock>>

MachineTyped ==
    /\ proc \in {None, Pending} \cup 1..MaxLaunches
    /\ alive \subseteq 1..launched /\ launched \in 0..MaxLaunches
    /\ dir \in [owner : 1..MaxLaunches \cup {None}, root : 1..MaxSnapshot \cup {None}]

LEMMA ControllerStepKeeps ==
    ASSUME RuntimeConstants, RuntimeInv, RecordsTyped, NEW c \in Controllers,
           NEW l \in Childless \cup Based, Goto(c, l),
           NEW r \in Runs, run' = [run EXCEPT ![c] = r],
           Alone(c) \/ Apart(c),
           MachineTyped', Owned', ChildKnown(c)', BaseOf(c)'
    PROVE  RuntimeInv'
<1>0. TypeOK /\ ControllersTyped /\ SlotHeld /\ ProcessesKnown /\ BaseKnown
  BY DEF RuntimeInv
<1>1. pc'[c] = l /\ \A d \in Controllers : d # c => pc'[d] = pc[d]
  BY <1>0, ControllerMoves
<1>2. run'[c] = r /\ \A d \in Controllers : d # c => run'[d] = run[d]
  BY <1>0 DEF ControllersTyped
<1>3. TypeOK'
  BY SMTT(30), <1>0 DEF TypeOK, RecordsTyped, HeadGrows, Heads, MachineTyped, Alone, Apart
<1>4. ControllersTyped'
  BY <1>0 DEF ControllersTyped, RecordsTyped, Goto, MachineTyped
<1>5. SlotHeld'
  BY <1>0, <1>1 DEF SlotHeld, Alone, Apart
<1>6. ASSUME NEW d \in Controllers PROVE ChildKnown(d)'
  <2>1. CASE d = c
    BY <2>1
  <2>2. CASE d # c /\ Alone(c)
    <3>1. pc[d] \in Early /\ pc'[d] = pc[d] /\ run'[d] = run[d]
      BY <1>1, <1>2, <2>2 DEF Alone
    <3>. QED
      BY <1>0, <3>1 DEF ProcessesKnown, ChildKnown, Early, Childless, Recorded
  <2>3. CASE d # c /\ Apart(c)
    BY <1>0, <1>1, <1>2, <2>3 DEF ProcessesKnown, ChildKnown, Apart, machine
  <2>. QED
    BY <2>1, <2>2, <2>3
<1>7. ASSUME NEW d \in Controllers PROVE BaseOf(d)'
  <2>1. CASE d = c
    BY <2>1
  <2>2. CASE d # c /\ Alone(c)
    <3>1. pc[d] \in Early /\ pc'[d] = pc[d] /\ run'[d] = run[d]
      BY <1>1, <1>2, <2>2 DEF Alone
    <3>. QED
      BY <1>0, <3>1 DEF BaseKnown, BaseOf, Early, Based, Restored, Working, Recorded
  <2>3. CASE d # c /\ Apart(c)
    <3>1. head.no \in Nat
      BY SMTT(30), <1>0 DEF TypeOK, RuntimeConstants
    <3>2. ASSUME run[d].base \in Heads, run[d].base.no <= head.no
          PROVE  /\ run[d].base.no <= head'.no
                 /\ run[d].base.no < head.no => run[d].base.no < head'.no
                 /\ run[d].base.no = head'.no => head' = head
      BY SMTT(30), <3>1, <3>2 DEF RecordsTyped, HeadGrows, Heads, RuntimeConstants
    <3>3. BaseOf(d)
      BY <1>0 DEF BaseKnown
    <3>4. pc'[d] = pc[d] /\ run'[d] = run[d] /\ dir' = dir
      BY <1>1, <1>2, <2>3 DEF Apart, machine
    <3>. QED
      BY <3>2, <3>3, <3>4 DEF BaseOf, Based, Restored, Working, Recorded
  <2>. QED
    BY <2>1, <2>2, <2>3
<1>. QED
  BY <1>3, <1>4, <1>5, <1>6, <1>7 DEF RuntimeInv, ProcessesKnown, BaseKnown

(* Past the slot a controller is alone. *)
LEMMA PastSlotAlone ==
    ASSUME RuntimeInv, NEW c \in Controllers, pc[c] \notin Early, UNCHANGED lock
    PROVE  Alone(c)
  BY DEF RuntimeInv, SlotHeld, Alone

LEMMA MachineStands ==
    ASSUME RuntimeConstants, RuntimeInv
    PROVE  MachineTyped /\ Owned
  BY DEF RuntimeInv, TypeOK, ControllersTyped, MachineTyped, ProcessesKnown

(* The types of what the actions compute. *)
LEMMA RunTypes ==
    ASSUME RuntimeConstants, RuntimeInv, NEW c \in Controllers
    PROVE  /\ run[c] \in Runs /\ ChildKnown(c) /\ BaseOf(c)
           /\ epoch.n \in 1..MaxEpoch /\ head \in Heads
           /\ \A auth \in {"local", "other"}, mode \in {"Solo", "Quorum", "Recovery"} :
                epoch.n < MaxEpoch => 
                  NextEpoch(auth, mode) \in [n : 1..MaxEpoch, auth : {"local", "other"},
                       base : 1..MaxSnapshot, mode : {"Solo", "Quorum", "Recovery"}]
  BY SMTT(30) DEF RuntimeInv, TypeOK, ControllersTyped, ProcessesKnown, BaseKnown, Heads, NextEpoch,
         RuntimeConstants

-----------------------------------------------------------------------------
(* The steps that touch the records only                                   *)

LEMMA PlayerKeeps ==
    ASSUME RuntimeConstants, RuntimeInv,
           \/ supervise_world \/ request_world_stop \/ request_world_wake
           \/ prepare_manual_transfer \/ DaemonStart
    PROVE  RuntimeInv'
<1>1. RecordsTyped /\ UNCHANGED <<machine, lock, pc, run>>
  <2>1. CASE supervise_world
    BY <2>1, RecordsStay DEF supervise_world, bounds, records, RecordsTyped
  <2>2. CASE request_world_stop
    <3>1. intents' \in [stop : BOOLEAN, wake : BOOLEAN, transfer : BOOLEAN]
      BY <2>2 DEF request_world_stop, RuntimeInv, ControllersTyped
    <3>. QED
      BY <2>2, <3>1, RecordsStay DEF request_world_stop, bounds, records, RecordsTyped
  <2>3. CASE request_world_wake
    <3>1. intents' \in [stop : BOOLEAN, wake : BOOLEAN, transfer : BOOLEAN]
      BY <2>3 DEF request_world_wake, RuntimeInv, ControllersTyped
    <3>. QED
      BY <2>3, <3>1, RecordsStay DEF request_world_wake, bounds, records, RecordsTyped
  <2>4. CASE prepare_manual_transfer
    <3>1. intents' \in [stop : BOOLEAN, wake : BOOLEAN, transfer : BOOLEAN]
      BY <2>4 DEF prepare_manual_transfer, RuntimeInv, ControllersTyped
    <3>2. transfer' = None \/ transfer' \in [source : 1..MaxEpoch, base : 1..MaxSnapshot]
      BY SMTT(30), <2>4 DEF prepare_manual_transfer, RuntimeInv, TypeOK
    <3>. QED
      BY <2>4, <3>1, <3>2, RecordsStay DEF prepare_manual_transfer, bounds, RecordsTyped
  <2>5. CASE DaemonStart
    BY <2>5, RecordsStay DEF DaemonStart, bounds, records, RecordsTyped
  <2>. QED
    BY <2>1, <2>2, <2>3, <2>4, <2>5
<1>. QED
  BY <1>1, RecordStepKeeps

LEMMA PeersKeep ==
    ASSUME RuntimeConstants, RuntimeInv,
           TickClears \/ RecoveryEpoch \/ observe_manual_transfer_epoch \/ Replicate
    PROVE  RuntimeInv'
<1>1. RecordsTyped /\ UNCHANGED <<machine, lock, pc, run>>
  <2>1. CASE TickClears
    BY <2>1, RecordsStay DEF TickClears, Stays, bounds, records, machine, RecordsTyped
  <2>2. CASE RecoveryEpoch
    <3>1. intents' \in [stop : BOOLEAN, wake : BOOLEAN, transfer : BOOLEAN]
      BY <2>2 DEF RecoveryEpoch, RuntimeInv, ControllersTyped
    <3>. QED
      BY <2>2, <3>1, RecordsStay, RunTypes DEF RecoveryEpoch, bounds, RecordsTyped, Controllers
  <2>3. CASE observe_manual_transfer_epoch
    BY <2>3, RecordsStay, RunTypes
       DEF observe_manual_transfer_epoch, bounds, RecordsTyped, Controllers
  <2>4. CASE Replicate
    <3>1. HeadGrows
      BY SMTT(30), <2>4 DEF Replicate, HeadGrows, Heads, RuntimeInv, TypeOK, RuntimeConstants
    <3>. QED
      BY <2>4, <3>1, RecordsStay DEF Replicate, bounds, RecordsTyped
  <2>. QED
    BY <2>1, <2>2, <2>3, <2>4
<1>. QED
  BY <1>1, RecordStepKeeps

(* The tick ends the daemon: the supervisor is dropped, a living child and *)
(* its record stay.                                                        *)
LEMMA EndsLeaves ==
    ASSUME RuntimeConstants, RuntimeInv, Ends, UNCHANGED <<dir, alive, launched>>
    PROVE  "supervisor" \in Controllers /\ Leaves("supervisor")
<1>1. "supervisor" \in Controllers
  BY DEF Controllers
<1>2. CASE proc' = proc
  BY <1>1, <1>2 DEF Ends, Leaves
<1>3. CASE proc' # proc
  <2>1. proc' = None /\ pc["supervisor"] \in Working /\ run["supervisor"].child \notin alive
    BY <1>3 DEF Ends, Dropped, Working, Recorded
  <2>2. alive = {}
    BY <1>1, <2>1 DEF RuntimeInv, ProcessesKnown, ChildKnown, Working
  <2>. QED
    BY <1>1, <2>1, <2>2 DEF Ends, Leaves
<1>. QED
  BY <1>2, <1>3

LEMMA PromotedGrows ==
    ASSUME RuntimeConstants, RuntimeInv, NEW e, e.n \in 1..MaxEpoch, head.no < MaxSnapshot,
           head' = Promoted(e, head)
    PROVE  HeadGrows
  BY SMTT(30) DEF Promoted, HeadGrows, Heads, RuntimeInv, TypeOK, RuntimeConstants

LEMMA TickAuthorityKeeps ==
    ASSUME RuntimeConstants, RuntimeInv, TickAuthority
    PROVE  RuntimeInv'
<1>0. epoch.n \in 1..MaxEpoch
  BY DEF RuntimeInv, TypeOK
<1>1. CASE Ends /\ UNCHANGED <<head, membership, permit>>
  <2>1. RecordsTyped
    BY <1>1, RecordsStay DEF TickAuthority, Ends, bounds, RecordsTyped
  <2>2. "supervisor" \in Controllers /\ Leaves("supervisor")
    BY <1>1, EndsLeaves DEF TickAuthority
  <2>. QED
    BY <2>1, <2>2, LeavesKeeps
<1>2. CASE /\ Stays
           /\ \/ head' = Promoted(epoch, head) /\ membership' = epoch.n
              \/ UNCHANGED <<head, membership>>
  <2>1. HeadGrows /\ membership' \in 1..MaxEpoch
    BY <1>0, <1>2, PromotedGrows, RecordsStay DEF TickAuthority
  <2>2. RecordsTyped /\ UNCHANGED <<machine, lock, pc, run>>
    BY <1>2, <2>1, RecordsStay DEF TickAuthority, Stays, bounds, machine, RecordsTyped
  <2>. QED
    BY <2>2, RecordStepKeeps
<1>. QED
  BY <1>1, <1>2 DEF TickAuthority

LEMMA TickRecoversKeeps ==
    ASSUME RuntimeConstants, RuntimeInv, TickRecovers
    PROVE  RuntimeInv'
<1>1. CASE Ends /\ UNCHANGED <<epoch, sleep, intents>>
  <2>1. RecordsTyped
    BY <1>1, RecordsStay DEF TickRecovers, Ends, bounds, RecordsTyped
  <2>2. "supervisor" \in Controllers /\ Leaves("supervisor")
    BY <1>1, EndsLeaves DEF TickRecovers
  <2>. QED
    BY <2>1, <2>2, LeavesKeeps
<1>2. CASE /\ Stays /\ epoch' = NextEpoch("local", "Recovery") /\ sleep' = None
           /\ intents' = [intents EXCEPT !.wake = FALSE]
  <2>1. intents' \in [stop : BOOLEAN, wake : BOOLEAN, transfer : BOOLEAN]
    BY <1>2 DEF RuntimeInv, ControllersTyped
  <2>2. RecordsTyped /\ UNCHANGED <<machine, lock, pc, run>>
    BY <1>2, <2>1, RecordsStay, RunTypes
       DEF TickRecovers, Recovers, Stays, bounds, machine, RecordsTyped, Controllers
  <2>. QED
    BY <2>2, RecordStepKeeps
<1>. QED
  BY <1>1, <1>2 DEF TickRecovers

(* A process that exits stays on record. *)
LEMMA JavaExitKeeps ==
    ASSUME RuntimeConstants, RuntimeInv, JavaExit
    PROVE  RuntimeInv'
<1>1. /\ alive' \subseteq alive
      /\ UNCHANGED <<members, epoch, head, membership, sleep, transfer, intents, proc, dir,
                     launched, lock, pc, run, daemon>>
  BY DEF JavaExit, bounds, records
<1>2. TypeOK'
  BY <1>1 DEF RuntimeInv, TypeOK
<1>3. ControllersTyped' /\ SlotHeld'
  BY <1>1 DEF RuntimeInv, ControllersTyped, SlotHeld
<1>4. ProcessesKnown'
  BY <1>1 DEF RuntimeInv, ProcessesKnown, Owned, ChildKnown
<1>5. BaseKnown'
  BY <1>1 DEF RuntimeInv, BaseKnown, BaseOf
<1>. QED
  BY <1>2, <1>3, <1>4, <1>5 DEF RuntimeInv

-----------------------------------------------------------------------------
(* The steps that send a controller back to idle                           *)

LEMMA KilledLeaves ==
    ASSUME NEW c \in Controllers, Killed(c), UNCHANGED machine
    PROVE  Leaves(c)
  BY DEF Killed, Leaves, machine

LEMMA FailedLeaves ==
    ASSUME RuntimeConstants, RuntimeInv, NEW c \in Controllers, NEW terminate \in BOOLEAN,
           Failed(c, terminate), UNCHANGED <<dir, launched>>
    PROVE  Leaves(c)
  BY AbortLeaves DEF Failed

LEMMA KillKeeps ==
    ASSUME RuntimeConstants, RuntimeInv, NEW c \in Controllers, Kill(c)
    PROVE  RuntimeInv'
<1>1. daemon' \in {"up", "killed", "ended"}
  BY DEF Kill, Killed, RuntimeInv, TypeOK
<1>2. RecordsTyped
  BY <1>1, RecordsStay DEF Kill, records, RecordsTyped
<1>3. Leaves(c)
  BY KilledLeaves DEF Kill
<1>. QED
  BY <1>2, <1>3, LeavesKeeps

LEMMA FailKeeps ==
    ASSUME RuntimeConstants, RuntimeInv, NEW c \in Controllers, Fail(c)
    PROVE  RuntimeInv'
<1>1. RecordsTyped
  BY RecordsStay DEF Fail, records, RecordsTyped
<1>2. Leaves(c)
  BY FailedLeaves DEF Fail
<1>. QED
  BY <1>1, <1>2, LeavesKeeps

LEMMA RecoverKilledKeeps ==
    ASSUME RuntimeConstants, RuntimeInv, RecoverKilled
    PROVE  RuntimeInv'
<1>1. "supervisor" \in Controllers
  BY DEF Controllers
<1>2. daemon' \in {"up", "killed", "ended"}
  BY DEF RecoverKilled, Killed
<1>3. RecordsTyped
  BY <1>1, <1>2, RecordsStay, RunTypes DEF RecoverKilled, Recovers, RecordsTyped
<1>4. Leaves("supervisor")
  BY <1>1, KilledLeaves DEF RecoverKilled
<1>. QED
  BY <1>1, <1>3, <1>4, LeavesKeeps

(* The writes of prepare_authority_epoch, up to any of them. *)
LEMMA PreparedTyped ==
    ASSUME RuntimeConstants, RuntimeInv, NEW k \in 0..4, Prepared(k), WakeEpoch.n <= MaxEpoch,
           k >= 3 => head.no < MaxSnapshot
    PROVE  /\ WakeEpoch.n \in 1..MaxEpoch
           /\ epoch' \in [n : 1..MaxEpoch, auth : {"local", "other"}, base : 1..MaxSnapshot,
                          mode : {"Solo", "Quorum", "Recovery"}]
           /\ membership' \in 1..MaxEpoch
           /\ sleep' = None \/ sleep' \in [no : 1..MaxSnapshot, epoch : 1..MaxEpoch]
           /\ transfer' = None \/ transfer' \in [source : 1..MaxEpoch, base : 1..MaxSnapshot]
           /\ HeadGrows
<1>0. TypeOK
  BY DEF RuntimeInv
<1>1. WakeEpoch \in [n : 1..MaxEpoch, auth : {"local", "other"}, base : 1..MaxSnapshot,
                     mode : {"Solo", "Quorum", "Recovery"}]
  BY SMTT(30), <1>0 DEF TypeOK, WakeEpoch, NextEpoch, RuntimeConstants
<1>2. HeadGrows
  <2>1. CASE k >= 3
    BY <1>1, <2>1, PromotedGrows DEF Prepared
  <2>2. CASE ~(k >= 3)
    BY <2>2, RecordsStay DEF Prepared
  <2>. QED
    BY <2>1, <2>2
<1>3. transfer' = transfer /\ sleep' \in {None, sleep} /\ epoch' \in {WakeEpoch, epoch}
      /\ membership' \in {WakeEpoch.n, membership}
  BY DEF Prepared
<1>. QED
  BY <1>0, <1>1, <1>2, <1>3 DEF TypeOK

LEMMA PrepareKilledKeeps ==
    ASSUME RuntimeConstants, RuntimeInv, NEW c \in Controllers, PrepareKilled(c)
    PROVE  RuntimeInv'
<1>1. PICK k \in 0..4 : Prepared(k)
  BY SMTT(30) DEF PrepareKilled
<1>2. daemon' \in {"up", "killed", "ended"}
  BY DEF PrepareKilled, Killed, RuntimeInv, TypeOK
<1>3. RecordsTyped
  BY <1>1, <1>2, PreparedTyped, RecordsStay DEF PrepareKilled, RecordsTyped
<1>4. Leaves(c)
  BY KilledLeaves DEF PrepareKilled
<1>. QED
  BY <1>3, <1>4, LeavesKeeps

LEMMA PrepareRefusedKeeps ==
    ASSUME RuntimeConstants, RuntimeInv, NEW c \in Controllers, PrepareRefused(c)
    PROVE  RuntimeInv'
<1>1. PICK k \in 0..2 : Prepared(k)
  BY SMTT(30) DEF PrepareRefused
<1>2. RecordsTyped
  BY SMTT(30), <1>1, PreparedTyped, RecordsStay DEF PrepareRefused, bounds, RecordsTyped
<1>3. Leaves(c)
  BY FailedLeaves DEF PrepareRefused
<1>. QED
  BY <1>2, <1>3, LeavesKeeps

(* The records of a disposition: the snapshot just committed is the head   *)
(* or an earlier one, so its number is within the bound.                   *)
LEMMA DisposedTyped ==
    ASSUME RuntimeConstants, RuntimeInv, NEW c \in Controllers, pc[c] = "finish",
           NEW k \in 1..2, Disposed(c, k)
    PROVE  /\ sleep' = None \/ sleep' \in [no : 1..MaxSnapshot, epoch : 1..MaxEpoch]
           /\ transfer' = None \/ transfer' \in [source : 1..MaxEpoch, base : 1..MaxSnapshot]
           /\ intents' \in [stop : BOOLEAN, wake : BOOLEAN, transfer : BOOLEAN]
           /\ UNCHANGED <<epoch, head, membership>>
<1>1. run[c].base.no + 1 \in 1..MaxSnapshot /\ run[c].gen \in 1..MaxEpoch
  BY SMTT(30) DEF RuntimeInv, TypeOK, BaseKnown, BaseOf, Based, Working, Recorded, Heads,
     RuntimeConstants
<1>2. intents' \in [stop : BOOLEAN, wake : BOOLEAN, transfer : BOOLEAN]
  BY DEF Disposed, RuntimeInv, ControllersTyped
<1>3. sleep' = sleep \/ sleep' = [no |-> run[c].base.no + 1, epoch |-> run[c].gen]
  BY DEF Disposed
<1>4. transfer' = transfer \/ transfer' = [source |-> run[c].gen, base |-> run[c].base.no + 1]
  BY DEF Disposed
<1>. QED
  BY SMTT(30), <1>1, <1>2, <1>3, <1>4 DEF Disposed, RuntimeInv, TypeOK

LEMMA FinishKeeps ==
    ASSUME RuntimeConstants, RuntimeInv, NEW c \in Controllers, Finish(c) \/ FinishKilled(c)
    PROVE  RuntimeInv'
<1>0. 1 \in 1..2 /\ 2 \in 1..2
  BY SMTT(30)
<1>1. pc[c] = "finish" /\ (Disposed(c, 1) \/ Disposed(c, 2))
  BY DEF Finish, FinishKilled, At
<1>2. daemon' \in {"up", "killed", "ended"} /\ members' = members
  BY DEF Finish, FinishKilled, Killed, bounds, RuntimeInv, TypeOK
<1>3. RecordsTyped
  BY <1>0, <1>1, <1>2, DisposedTyped, RecordsStay DEF RecordsTyped
<1>4. Leaves(c)
  BY AbortLeaves, KilledLeaves DEF Finish, FinishKilled
<1>. QED
  BY <1>3, <1>4, LeavesKeeps

-----------------------------------------------------------------------------
(* The steps of a controller                                               *)

LEMMA LaunchKeeps ==
    ASSUME RuntimeConstants, RuntimeInv, NEW c \in Controllers, Launch(c)
    PROVE  RuntimeInv'
<1> DEFINE r == [run[c] EXCEPT !.gen = epoch.n]
<1>0. ControllersTyped /\ run[c] \in Runs /\ ChildKnown(c) /\ epoch.n \in 1..MaxEpoch
  BY RunTypes DEF RuntimeInv
<1>1. RecordsTyped
  BY RecordsStay DEF Launch, bounds, records, RecordsTyped
<1>2. PICK l \in {"quorum", "slot"} : Goto(c, l)
  BY DEF Launch
<1>3. r \in Runs /\ r.gen \in 1..MaxEpoch /\ r.child = run[c].child
  BY SMTT(30), <1>0 DEF Runs
<1>4. run' = [run EXCEPT ![c] = r]
  BY <1>0 DEF Launch, ControllersTyped, Runs
<1>. HIDE DEF r
<1>5. pc'[c] = l /\ run'[c] = r
  BY <1>0, <1>2, <1>4, ControllerMoves DEF ControllersTyped
<1>6. r.child = None
  BY <1>0, <1>3 DEF Launch, At, ChildKnown, Childless, Early
<1>7. UNCHANGED <<machine, lock>>
  BY DEF Launch
<1>8. MachineTyped' /\ Owned'
  BY <1>7, MachineStands DEF MachineTyped, Owned, machine
<1>9. ChildKnown(c)' /\ BaseOf(c)' /\ Apart(c)
  BY <1>3, <1>5, <1>6, <1>7
     DEF ChildKnown, BaseOf, Apart, Early, Based, Restored, Working, Recorded
<1>10. l \in Childless \cup Based
  BY <1>2 DEF Childless, Early
<1>. QED
  BY <1>1, <1>2, <1>3, <1>4, <1>8, <1>9, <1>10, ControllerStepKeeps

(* A controller gives up before it has the slot. *)
LEMMA TurnsBack ==
    ASSUME RuntimeConstants, RuntimeInv, RecordsTyped, NEW c \in Controllers, pc[c] \in Early,
           Goto(c, "idle"), run' = [run EXCEPT ![c] = Idle], UNCHANGED <<machine, lock>>
    PROVE  RuntimeInv'
<1>1. ControllersTyped /\ Idle \in Runs /\ Idle.child = None
  BY SMTT(30) DEF RuntimeInv, ControllersTyped, Runs, Idle, RuntimeConstants
<1>2. pc'[c] = "idle" /\ run'[c] = Idle
  BY <1>1, ControllerMoves DEF ControllersTyped
<1>3. MachineTyped' /\ Owned'
  BY MachineStands DEF MachineTyped, Owned, machine
<1>4. ChildKnown(c)' /\ BaseOf(c)' /\ Apart(c)
  BY <1>1, <1>2 DEF ChildKnown, BaseOf, Apart, Early, Based, Restored, Working, Recorded
<1>5. "idle" \in Childless \cup Based
  BY DEF Childless, Early
<1>. QED
  BY <1>1, <1>3, <1>4, <1>5, ControllerStepKeeps

(* Only the place of the controller changes; the run stands. *)
LEMMA RunStands ==
    ASSUME RuntimeInv, NEW c \in Controllers, UNCHANGED run
    PROVE  run[c] \in Runs /\ run' = [run EXCEPT ![c] = run[c]]
  BY DEF RuntimeInv, ControllersTyped

LEMMA wait_until_launch_safeKeeps ==
    ASSUME RuntimeConstants, RuntimeInv, NEW c \in Controllers, wait_until_launch_safe(c)
    PROVE  RuntimeInv'
<1>0. ControllersTyped /\ run[c] \in Runs /\ ChildKnown(c) /\ BaseOf(c)
  BY RunTypes DEF RuntimeInv
<1>1. RecordsTyped
  BY RecordsStay DEF wait_until_launch_safe, bounds, records, RecordsTyped
<1>2. pc[c] = "quorum" /\ UNCHANGED <<machine, lock>>
  BY DEF wait_until_launch_safe, At
<1>3. CASE Goto(c, "idle") /\ run' = [run EXCEPT ![c] = Idle]
  BY <1>1, <1>2, <1>3, TurnsBack DEF Early
<1>4. CASE Goto(c, "slot") /\ UNCHANGED run
  <2>1. pc'[c] = "slot" /\ run' = [run EXCEPT ![c] = run[c]]
    BY <1>0, <1>4, ControllerMoves, RunStands
  <2>2. MachineTyped' /\ Owned'
    BY <1>2, MachineStands DEF MachineTyped, Owned, machine
  <2>3. ChildKnown(c)' /\ BaseOf(c)' /\ Apart(c)
    BY <1>0, <1>2, <1>4, <2>1
       DEF ChildKnown, BaseOf, Apart, Childless, Early, Based, Restored, Working, Recorded
  <2>4. "slot" \in Childless \cup Based
    BY DEF Childless, Early
  <2>. QED
    BY <1>0, <1>1, <1>4, <2>1, <2>2, <2>3, <2>4, ControllerStepKeeps
<1>. QED
  BY <1>3, <1>4 DEF wait_until_launch_safe

LEMMA try_acquireKeeps ==
    ASSUME RuntimeConstants, RuntimeInv, NEW c \in Controllers, try_acquire(c)
    PROVE  RuntimeInv'
<1>0. ControllersTyped /\ run[c] \in Runs /\ ChildKnown(c) /\ BaseOf(c)
  BY RunTypes DEF RuntimeInv
<1>1. RecordsTyped
  BY RecordsStay DEF try_acquire, bounds, records, RecordsTyped
<1>2. pc[c] = "slot" /\ UNCHANGED machine
  BY DEF try_acquire, At
<1>3. CASE Goto(c, "idle") /\ run' = [run EXCEPT ![c] = Idle] /\ UNCHANGED lock
  BY <1>1, <1>2, <1>3, TurnsBack DEF Early
<1>4. CASE lock = None /\ lock' = c /\ Goto(c, "select") /\ UNCHANGED run
  <2>1. pc'[c] = "select" /\ run' = [run EXCEPT ![c] = run[c]]
    BY <1>0, <1>4, ControllerMoves, RunStands
  <2>2. MachineTyped' /\ Owned'
    BY <1>2, MachineStands DEF MachineTyped, Owned, machine
  <2>3. Alone(c)
    BY <1>4 DEF Alone, RuntimeInv, SlotHeld, RuntimeConstants
  <2>4. ChildKnown(c)' /\ BaseOf(c)'
    BY <1>0, <1>2, <1>4, <2>1
       DEF ChildKnown, BaseOf, Childless, Early, Based, Restored, Working, Recorded
  <2>5. "select" \in Childless \cup Based
    BY DEF Childless
  <2>. QED
    BY <1>0, <1>1, <1>4, <2>1, <2>2, <2>3, <2>4, <2>5, ControllerStepKeeps
<1>. QED
  BY <1>3, <1>4 DEF try_acquire

LEMMA NewBase ==
    ASSUME RuntimeConstants, NEW f \in [Controllers -> Runs], NEW c \in Controllers,
           NEW g \in 1..MaxEpoch, NEW h \in Heads
    PROVE  LET r == [gen |-> g, base |-> h, child |-> f[c].child, to |-> f[c].to]
           IN  r \in Runs /\ [f EXCEPT ![c].gen = g, ![c].base = h] = [f EXCEPT ![c] = r]
<1> DEFINE r == [gen |-> g, base |-> h, child |-> f[c].child, to |-> f[c].to]
           q == [f[c] EXCEPT !.gen = g]
<1>1. /\ f[c] = [gen |-> f[c].gen, base |-> f[c].base, child |-> f[c].child, to |-> f[c].to]
      /\ f[c].child \in 1..MaxLaunches \cup {None} /\ f[c].to \in {"sleep", "transfer"}
  BY DEF Runs
<1>2. q = [gen |-> g, base |-> f[c].base, child |-> f[c].child, to |-> f[c].to]
  BY SMTT(30), <1>1
<1>3. [f EXCEPT ![c].gen = g] = [f EXCEPT ![c] = q]
  OBVIOUS
<1>4. r \in Runs
  BY SMTT(30), <1>1 DEF Runs, RuntimeConstants
<1>. HIDE DEF q
<1>5. [q EXCEPT !.base = h] = r
  BY SMTT(30), <1>2
<1>6. [f EXCEPT ![c] = q][c] = q /\ DOMAIN [f EXCEPT ![c] = q] = Controllers
  OBVIOUS
<1>. HIDE DEF r
<1>7. [[f EXCEPT ![c] = q] EXCEPT ![c].base = h] = [f EXCEPT ![c] = r]
  BY <1>5, <1>6
<1>. QED
  BY <1>3, <1>4, <1>7 DEF r

LEMMA prepare_authority_epochKeeps ==
    ASSUME RuntimeConstants, RuntimeInv, NEW c \in Controllers, prepare_authority_epoch(c)
    PROVE  RuntimeInv'
<1> DEFINE r == [gen |-> WakeEpoch.n, base |-> head', child |-> run[c].child, to |-> run[c].to]
<1>0. ControllersTyped /\ run[c] \in Runs /\ ChildKnown(c)
  BY RunTypes DEF RuntimeInv
<1>1. pc[c] = "select" /\ Goto(c, "begin") /\ UNCHANGED <<machine, lock>>
  BY DEF prepare_authority_epoch, At
<1>2. RecordsTyped /\ WakeEpoch.n \in 1..MaxEpoch
  <2>1. 4 \in 0..4 /\ Prepared(4)
    BY SMTT(30) DEF prepare_authority_epoch
  <2>. QED
    BY <2>1, PreparedTyped, RecordsStay DEF prepare_authority_epoch, bounds, RecordsTyped
<1>3. head' \in Heads
  BY <1>2 DEF RecordsTyped, HeadGrows
<1>4. r \in Runs /\ r.gen \in 1..MaxEpoch /\ r.base = head' /\ r.child = run[c].child
  BY <1>0, <1>2, <1>3, NewBase DEF ControllersTyped
<1>5. run' = [run EXCEPT ![c] = r]
  BY <1>0, <1>2, <1>3, NewBase DEF prepare_authority_epoch, ControllersTyped
<1>. HIDE DEF r
<1>6. pc'[c] = "begin" /\ run'[c] = r
  BY <1>0, <1>1, <1>5, ControllerMoves DEF ControllersTyped
<1>7. MachineTyped' /\ Owned'
  BY <1>1, MachineStands DEF MachineTyped, Owned, machine
<1>8. Alone(c)
  BY <1>1, PastSlotAlone DEF Early
<1>9. ChildKnown(c)'
  BY <1>0, <1>1, <1>4, <1>6 DEF ChildKnown, Childless, Recorded
<1>10. BaseOf(c)'
  BY SMTT(30), <1>3, <1>4, <1>6 DEF BaseOf, Restored, Heads, RuntimeConstants
<1>11. "begin" \in Childless \cup Based
  BY DEF Childless
<1>. QED
  BY <1>1, <1>2, <1>4, <1>5, <1>7, <1>8, <1>9, <1>10, <1>11, ControllerStepKeeps

(* The record of a launch under way is only written over one that accounts *)
(* for its process, so nothing is alive then.                              *)
LEMMA beginKeeps ==
    ASSUME RuntimeConstants, RuntimeInv, NEW c \in Controllers, begin(c)
    PROVE  RuntimeInv'
<1>0. ControllersTyped /\ run[c] \in Runs /\ ChildKnown(c) /\ BaseOf(c) /\ MachineTyped /\ Owned
  BY RunTypes, MachineStands DEF RuntimeInv
<1>1. RecordsTyped
  BY RecordsStay DEF begin, bounds, records, RecordsTyped
<1>2. pc[c] = "begin" /\ launched' = launched
  BY DEF begin, At
<1>3. CASE Failed(c, TRUE) /\ UNCHANGED dir
  BY <1>1, <1>2, <1>3, FailedLeaves, LeavesKeeps
<1>4. CASE /\ inspect_previous_record /\ proc' = Pending
           /\ dir' = [owner |-> None, root |-> None]
           /\ Goto(c, "restore") /\ UNCHANGED <<run, lock, alive>>
  <2>1. alive = {}
    BY <1>0, <1>4 DEF inspect_previous_record, Owned
  <2>2. pc'[c] = "restore" /\ run' = [run EXCEPT ![c] = run[c]]
    BY <1>0, <1>4, ControllerMoves, RunStands
  <2>3. MachineTyped' /\ Owned'
    BY <1>0, <1>2, <1>4, <2>1 DEF MachineTyped, Owned
  <2>4. Alone(c)
    BY <1>2, <1>4, PastSlotAlone DEF Early
  <2>5. ChildKnown(c)'
    BY <1>0, <1>2, <1>4, <2>1, <2>2 DEF ChildKnown, Childless, Recorded
  <2>6. BaseOf(c)'
    BY <1>0, <1>2, <1>4, <2>2 DEF begin, records, BaseOf, Based, Restored
  <2>7. "restore" \in Childless \cup Based
    BY DEF Childless
  <2>. QED
    BY <1>0, <1>1, <1>4, <2>2, <2>3, <2>4, <2>5, <2>6, <2>7, ControllerStepKeeps
<1>. QED
  BY <1>3, <1>4 DEF begin

LEMMA restoreKeeps ==
    ASSUME RuntimeConstants, RuntimeInv, NEW c \in Controllers, restore(c)
    PROVE  RuntimeInv'
<1>0. ControllersTyped /\ run[c] \in Runs /\ ChildKnown(c) /\ BaseOf(c) /\ MachineTyped
  BY RunTypes, MachineStands DEF RuntimeInv
<1>1. RecordsTyped
  BY RecordsStay DEF restore, bounds, records, RecordsTyped
<1>2. /\ pc[c] = "restore" /\ launched' = launched /\ UNCHANGED head
      /\ dir' = [owner |-> None, root |-> run[c].base.root]
  BY DEF restore, At, records
<1>3. alive = {} /\ proc = Pending /\ run[c].child = None /\ run[c].base \in Heads
  BY <1>0, <1>2 DEF ChildKnown, BaseOf, Childless, Based, Working
<1>4. dir' \in [owner : 1..MaxLaunches \cup {None}, root : 1..MaxSnapshot \cup {None}]
  BY <1>2, <1>3 DEF Heads
<1>5. CASE Goto(c, "spawn") /\ UNCHANGED <<run, lock, alive, proc>>
  <2>1. pc'[c] = "spawn" /\ run' = [run EXCEPT ![c] = run[c]]
    BY <1>0, <1>5, ControllerMoves, RunStands
  <2>2. MachineTyped' /\ Owned'
    BY <1>0, <1>2, <1>3, <1>4, <1>5 DEF MachineTyped, Owned
  <2>3. Alone(c)
    BY <1>2, <1>5, PastSlotAlone DEF Early
  <2>4. ChildKnown(c)'
    BY <1>3, <1>5, <2>1 DEF ChildKnown, Recorded
  <2>5. BaseOf(c)'
    BY <1>0, <1>2, <1>5, <2>1 DEF BaseOf, Based, Working
  <2>6. "spawn" \in Childless \cup Based
    BY DEF Childless
  <2>. QED
    BY <1>0, <1>1, <1>5, <2>1, <2>2, <2>3, <2>4, <2>5, <2>6, ControllerStepKeeps
<1>6. CASE Failed(c, TRUE)
  <2>1. alive' = {} /\ proc' = None
    BY <1>2, <1>3, <1>6 DEF Failed, Aborted, Dropped
  <2>2. pc[c] \notin Early /\ pc[c] \in Working
    BY <1>2 DEF Early, Working, Recorded
  <2>3. Leaves(c)
    BY <1>2, <1>4, <1>6, <2>1, <2>2 DEF Failed, Aborted, Leaves
  <2>. QED
    BY <1>1, <2>3, LeavesKeeps
<1>. QED
  BY <1>5, <1>6 DEF restore

LEMMA launch_serverKeeps ==
    ASSUME RuntimeConstants, RuntimeInv, NEW c \in Controllers, launch_server(c)
    PROVE  RuntimeInv'
<1> DEFINE r == [run[c] EXCEPT !.child = launched']
<1>0. ControllersTyped /\ run[c] \in Runs /\ ChildKnown(c) /\ BaseOf(c) /\ MachineTyped
  BY RunTypes, MachineStands DEF RuntimeInv
<1>1. RecordsTyped
  BY RecordsStay DEF launch_server, bounds, records, RecordsTyped
<1>2. /\ pc[c] = "spawn" /\ Goto(c, "record") /\ UNCHANGED <<head, proc, lock>>
      /\ launched' = launched + 1 /\ alive' = alive \cup {launched'}
      /\ dir' = [dir EXCEPT !.owner = launched']
  BY DEF launch_server, At, records
<1>3. launched' \in 1..MaxLaunches
  BY SMTT(30), <1>0 DEF launch_server, MachineTyped, RuntimeConstants
<1>4. alive = {} /\ proc = Pending
  BY <1>0, <1>2 DEF ChildKnown
<1>5. /\ dir' \in [owner : 1..MaxLaunches \cup {None}, root : 1..MaxSnapshot \cup {None}]
      /\ dir'.owner = launched' /\ dir'.root = dir.root
  BY <1>0, <1>2, <1>3 DEF MachineTyped
<1>6. r \in Runs /\ r.gen = run[c].gen /\ r.base = run[c].base /\ r.child = launched'
  BY <1>0, <1>3 DEF Runs
<1>7. run' = [run EXCEPT ![c] = r]
  BY <1>0 DEF launch_server, ControllersTyped, Runs
<1>. HIDE DEF r
<1>8. pc'[c] = "record" /\ run'[c] = r
  BY <1>0, <1>2, <1>7, ControllerMoves DEF ControllersTyped
<1>9. MachineTyped'
  BY SMTT(30), <1>0, <1>2, <1>3, <1>4, <1>5 DEF MachineTyped, RuntimeConstants
<1>10. Owned'
  BY <1>2, <1>4, <1>5 DEF Owned
<1>11. Alone(c)
  BY <1>2, PastSlotAlone DEF Early
<1>12. ChildKnown(c)'
  <2>1. launched' # None
    BY SMTT(30), <1>3 DEF RuntimeConstants
  <2>. QED
    BY <1>2, <1>4, <1>6, <1>8, <2>1 DEF ChildKnown, Childless, Early, Recorded
<1>13. BaseOf(c)'
  BY <1>0, <1>2, <1>5, <1>6, <1>8 DEF BaseOf, Based, Working, Restored
<1>14. "record" \in Childless \cup Based
  BY DEF Based, Working
<1>. QED
  BY <1>1, <1>2, <1>6, <1>7, <1>9, <1>10, <1>11, <1>12, <1>13, <1>14, ControllerStepKeeps

LEMMA record_javaKeeps ==
    ASSUME RuntimeConstants, RuntimeInv, NEW c \in Controllers, record_java(c)
    PROVE  RuntimeInv'
<1>0. /\ ControllersTyped /\ run[c] \in Runs /\ ChildKnown(c) /\ BaseOf(c)
      /\ MachineTyped /\ Owned
  BY RunTypes, MachineStands DEF RuntimeInv
<1>1. RecordsTyped
  BY RecordsStay DEF record_java, bounds, records, RecordsTyped
<1>2. /\ pc[c] = "record" /\ Goto(c, "verify") /\ proc' = run[c].child
      /\ UNCHANGED <<head, dir, alive, launched, lock, run>>
  BY DEF record_java, At, records
<1>3. pc'[c] = "verify" /\ run' = [run EXCEPT ![c] = run[c]]
  BY <1>0, <1>2, ControllerMoves, RunStands
<1>4. run[c].child \in 1..MaxLaunches /\ run[c].child # None /\ alive \subseteq {run[c].child}
  BY <1>0, <1>2 DEF ChildKnown, Runs
<1>5. MachineTyped' /\ Owned'
  BY <1>0, <1>2, <1>4 DEF MachineTyped, Owned
<1>6. Alone(c)
  BY <1>2, PastSlotAlone DEF Early
<1>7. ChildKnown(c)'
  BY <1>2, <1>3, <1>4 DEF ChildKnown, Childless, Early, Recorded
<1>8. BaseOf(c)'
  BY <1>0, <1>2, <1>3 DEF BaseOf, Based, Working, Recorded, Restored
<1>9. "verify" \in Childless \cup Based
  BY DEF Based, Working, Recorded
<1>. QED
  BY <1>0, <1>1, <1>2, <1>3, <1>5, <1>6, <1>7, <1>8, <1>9, ControllerStepKeeps

(* A run moves on with its child recorded; the child may have gone. *)
LEMMA AdvanceKeeps ==
    ASSUME RuntimeConstants, RuntimeInv, RecordsTyped, UNCHANGED head, NEW c \in Controllers,
           pc[c] \in {"verify", "ready", "checkpoint"},
           NEW l \in {"ready", "checkpoint", "commit"}, Goto(c, l),
           NEW to \in {"sleep", "transfer"}, run' = [run EXCEPT ![c].to = to],
           alive' \subseteq alive, UNCHANGED <<proc, dir, launched, lock>>
    PROVE  RuntimeInv'
<1> DEFINE r == [run[c] EXCEPT !.to = to]
<1>0. /\ ControllersTyped /\ run[c] \in Runs /\ ChildKnown(c) /\ BaseOf(c)
      /\ MachineTyped /\ Owned
  BY RunTypes, MachineStands DEF RuntimeInv
<1>1. r \in Runs /\ r.gen = run[c].gen /\ r.base = run[c].base /\ r.child = run[c].child
  BY <1>0 DEF Runs
<1>2. run' = [run EXCEPT ![c] = r]
  BY <1>0 DEF ControllersTyped, Runs
<1>. HIDE DEF r
<1>3. pc'[c] = l /\ run'[c] = r
  BY <1>0, <1>2, ControllerMoves DEF ControllersTyped
<1>4. MachineTyped' /\ Owned'
  BY <1>0 DEF MachineTyped, Owned
<1>5. Alone(c)
  BY PastSlotAlone DEF Early
<1>6. ChildKnown(c)'
  BY <1>0, <1>1, <1>3 DEF ChildKnown, Childless, Early, Recorded
<1>7. BaseOf(c)'
  BY <1>0, <1>1, <1>3 DEF BaseOf, Based, Working, Recorded, Restored
<1>8. l \in Childless \cup Based
  BY DEF Based, Working, Recorded
<1>. QED
  BY <1>1, <1>2, <1>4, <1>5, <1>6, <1>7, <1>8, ControllerStepKeeps

LEMMA SameDisposition ==
    ASSUME RuntimeInv, NEW c \in Controllers, UNCHANGED run
    PROVE  run[c].to \in {"sleep", "transfer"} /\ run' = [run EXCEPT ![c].to = run[c].to]
  BY DEF RuntimeInv, ControllersTyped, Runs

LEMMA VerifyKeeps ==
    ASSUME RuntimeConstants, RuntimeInv, NEW c \in Controllers, Verify(c)
    PROVE  RuntimeInv'
<1>1. RecordsTyped
  BY RecordsStay DEF Verify, bounds, records, RecordsTyped
<1>2. pc[c] = "verify" /\ UNCHANGED <<head, dir, launched>>
  BY DEF Verify, At, records
<1>3. CASE Goto(c, "ready") /\ UNCHANGED <<alive, proc, run, lock>>
  BY <1>1, <1>2, <1>3, SameDisposition, AdvanceKeeps
<1>4. CASE Aborted(c, TRUE)
  BY <1>1, <1>2, <1>4, AbortLeaves, LeavesKeeps
<1>. QED
  BY <1>3, <1>4 DEF Verify, Failed

LEMMA ExitedKeeps ==
    ASSUME RuntimeConstants, RuntimeInv, NEW c \in Controllers, Exited(c) \/ Superseded(c)
    PROVE  RuntimeInv'
<1>1. RecordsTyped
  BY RecordsStay DEF Exited, Superseded, bounds, records, RecordsTyped
<1>2. pc[c] = "ready" /\ UNCHANGED <<head, dir, launched>>
  BY DEF Exited, Superseded, At, records
<1>3. CASE Goto(c, "checkpoint") /\ run' = [run EXCEPT ![c].to = "sleep"] /\ UNCHANGED <<alive, proc, lock>>
  BY <1>1, <1>2, <1>3, AdvanceKeeps
<1>4. CASE Failed(c, TRUE)
  BY <1>1, <1>2, <1>4, FailedLeaves, LeavesKeeps
<1>. QED
  BY <1>3, <1>4 DEF Exited, Superseded

LEMMA StopIntentKeeps ==
    ASSUME RuntimeConstants, RuntimeInv, NEW c \in Controllers, StopIntent(c)
    PROVE  RuntimeInv'
<1>1. intents' \in [stop : BOOLEAN, wake : BOOLEAN, transfer : BOOLEAN]
  BY DEF StopIntent, RuntimeInv, ControllersTyped
<1>2. RecordsTyped
  BY <1>1, RecordsStay DEF StopIntent, bounds, records, RecordsTyped
<1>3. pc[c] = "ready" /\ UNCHANGED <<head, proc, dir, launched, lock>>
  BY DEF StopIntent, At, records
<1>4. CASE /\ alive' = alive \ {run[c].child} /\ Goto(c, "checkpoint")
           /\ run' = [run EXCEPT ![c].to = "sleep"]
  BY <1>2, <1>3, <1>4, AdvanceKeeps
<1>5. CASE UNCHANGED <<alive, pc, status, run>>
  BY <1>2, <1>3, <1>5, RecordStepKeeps DEF machine
<1>. QED
  BY <1>4, <1>5 DEF StopIntent

LEMMA TransferIntentKeeps ==
    ASSUME RuntimeConstants, RuntimeInv, NEW c \in Controllers, TransferIntent(c)
    PROVE  RuntimeInv'
<1>1. RecordsTyped
  BY RecordsStay DEF TransferIntent, bounds, records, RecordsTyped
<1>2. pc[c] = "ready" /\ UNCHANGED <<head, dir, launched>>
  BY DEF TransferIntent, At, records
<1>3. CASE /\ alive' = alive \ {run[c].child} /\ Goto(c, "checkpoint")
           /\ run' = [run EXCEPT ![c].to = "transfer"] /\ UNCHANGED <<proc, lock>>
  BY <1>1, <1>2, <1>3, AdvanceKeeps
<1>4. CASE Failed(c, TRUE)
  BY <1>1, <1>2, <1>4, FailedLeaves, LeavesKeeps
<1>. QED
  BY <1>3, <1>4 DEF TransferIntent

LEMMA snapshot_directoryKeeps ==
    ASSUME RuntimeConstants, RuntimeInv, NEW c \in Controllers, snapshot_directory(c)
    PROVE  RuntimeInv'
<1>1. RecordsTyped
  BY RecordsStay DEF snapshot_directory, bounds, records, RecordsTyped
<1>2. pc[c] = "checkpoint" /\ UNCHANGED <<head, dir, launched>>
  BY DEF snapshot_directory, At, records
<1>3. CASE Goto(c, "commit") /\ UNCHANGED <<status, alive, proc, run, lock>>
  BY <1>1, <1>2, <1>3, SameDisposition, AdvanceKeeps
<1>4. CASE Failed(c, TRUE)
  BY <1>1, <1>2, <1>4, FailedLeaves, LeavesKeeps
<1>. QED
  BY <1>3, <1>4 DEF snapshot_directory

(* The head moves past the base of the run. *)
LEMMA commit_snapshot_fencedKeeps ==
    ASSUME RuntimeConstants, RuntimeInv, NEW c \in Controllers, commit_snapshot_fenced(c)
    PROVE  RuntimeInv'
<1>0. /\ ControllersTyped /\ run[c] \in Runs /\ ChildKnown(c) /\ BaseOf(c)
      /\ MachineTyped /\ Owned /\ head \in Heads
  BY RunTypes, MachineStands DEF RuntimeInv
<1>1. pc[c] = "commit" /\ UNCHANGED <<dir, launched>> /\ head.no < MaxSnapshot
  BY DEF commit_snapshot_fenced, At
<1>2. CASE Failed(c, TRUE) /\ UNCHANGED head
  <2>1. RecordsTyped
    BY <1>2, RecordsStay DEF commit_snapshot_fenced, bounds, RecordsTyped
  <2>. QED
    BY <1>1, <1>2, <2>1, FailedLeaves, LeavesKeeps
<1>3. CASE /\ \E root \in {dir.root, head.no + 1} :
                head' = [no |-> head.no + 1, epoch |-> run[c].gen, auth |-> "local", root |-> root]
           /\ Goto(c, "finish") /\ UNCHANGED <<status, alive, proc, run, lock>>
  <2>1. /\ run[c].base \in Heads /\ run[c].base.no <= head.no /\ dir.root = run[c].base.root
        /\ run[c].gen \in 1..MaxEpoch
    BY <1>0, <1>1 DEF BaseOf, Based, Working, Recorded, Restored
  <2>2. HeadGrows /\ head'.no = head.no + 1
    BY SMTT(30), <1>0, <1>1, <1>3, <2>1 DEF HeadGrows, Heads, RuntimeConstants
  <2>3. RecordsTyped
    BY <1>3, <2>2, RecordsStay DEF commit_snapshot_fenced, bounds, RecordsTyped
  <2>4. pc'[c] = "finish" /\ run' = [run EXCEPT ![c] = run[c]]
    BY <1>0, <1>3, ControllerMoves, RunStands
  <2>5. MachineTyped' /\ Owned'
    BY <1>0, <1>1, <1>3 DEF MachineTyped, Owned
  <2>6. Alone(c)
    BY <1>1, <1>3, PastSlotAlone DEF Early
  <2>7. ChildKnown(c)'
    BY <1>0, <1>1, <1>3, <2>4 DEF ChildKnown, Childless, Early, Recorded
  <2>8. BaseOf(c)'
    <3>1. /\ run[c].base.no < head'.no /\ run[c].base.no <= head'.no
          /\ run[c].base.no # head'.no
      BY SMTT(30), <1>0, <2>1, <2>2 DEF Heads, RuntimeConstants
    <3>. QED
      BY SMTT(30), <1>3, <2>1, <2>4, <3>1 DEF BaseOf, Restored
  <2>9. "finish" \in Childless \cup Based
    BY DEF Based, Working, Recorded
  <2>. QED
    BY <1>0, <1>3, <2>3, <2>4, <2>5, <2>6, <2>7, <2>8, <2>9, ControllerStepKeeps
<1>. QED
  BY <1>2, <1>3 DEF commit_snapshot_fenced

-----------------------------------------------------------------------------
(* The theorems                                                            *)

LEMMA InitRuntime ==
    ASSUME RuntimeConstants, Init
    PROVE  RuntimeInv
<1>1. Idle \in Runs /\ Idle.child = None
  BY SMTT(30) DEF Runs, Idle, RuntimeConstants
<1>2. \A c \in Controllers : pc[c] = "idle" /\ run[c] = Idle
  BY DEF Init
<1>3. TypeOK
  BY SMTT(30) DEF Init, TypeOK, RuntimeConstants
<1>4. ControllersTyped
  BY SMTT(30), <1>1 DEF Init, ControllersTyped, Childless, Early, RuntimeConstants
<1>5. SlotHeld
  BY <1>2 DEF SlotHeld, Early
<1>6. ProcessesKnown
  BY <1>1, <1>2 DEF Init, ProcessesKnown, Owned, ChildKnown, Recorded
<1>7. BaseKnown
  BY <1>2 DEF BaseKnown, BaseOf, Based, Working, Recorded, Restored
<1>. QED
  BY <1>3, <1>4, <1>5, <1>6, <1>7 DEF RuntimeInv

LEMMA NextRuntime ==
    ASSUME RuntimeConstants, RuntimeInv, [Next]_vars
    PROVE  RuntimeInv'
<1>1. ASSUME NEW c \in Controllers, Step(c) PROVE RuntimeInv'
  BY <1>1, LaunchKeeps, wait_until_launch_safeKeeps, try_acquireKeeps,
     prepare_authority_epochKeeps, PrepareRefusedKeeps, beginKeeps, restoreKeeps,
     launch_serverKeeps, record_javaKeeps, VerifyKeeps, ExitedKeeps, StopIntentKeeps,
     TransferIntentKeeps, snapshot_directoryKeeps, commit_snapshot_fencedKeeps, FinishKeeps
     DEF Step
<1>2. ASSUME NEW c \in Controllers, Fault(c) PROVE RuntimeInv'
  BY <1>2, KillKeeps, FailKeeps, PrepareKilledKeeps, FinishKeeps DEF Fault
<1>3. CASE \/ supervise_world \/ request_world_stop \/ request_world_wake
           \/ prepare_manual_transfer \/ DaemonStart
  BY <1>3, PlayerKeeps
<1>4. CASE TickClears \/ RecoveryEpoch \/ observe_manual_transfer_epoch \/ Replicate
  BY <1>4, PeersKeep
<1>5. CASE TickAuthority \/ TickRecovers \/ RecoverKilled \/ JavaExit
  BY <1>5, TickAuthorityKeeps, TickRecoversKeeps, RecoverKilledKeeps, JavaExitKeeps
<1>6. CASE UNCHANGED vars
  <2>1. RecordsTyped /\ UNCHANGED <<machine, lock, pc, run>>
    BY <1>6, RecordsStay DEF vars, machine, RecordsTyped
  <2>. QED
    BY <2>1, RecordStepKeeps
<1>. QED
  BY <1>1, <1>2, <1>3, <1>4, <1>5, <1>6 DEF Next

(* The inductive invariant: the slot, the process record, the runtime      *)
(* directory and the base snapshot of a run agree, whatever is killed or   *)
(* fails between two durable writes of run_authority_runtime_inner.        *)
THEOREM RuntimeInvCorrect == Spec => []RuntimeInv
<1>1. Init => RuntimeInv
  BY InitRuntime, RuntimeAssumption
<1>2. RuntimeInv /\ [Next]_vars => RuntimeInv'
  BY NextRuntime, RuntimeAssumption
<1>. QED
  BY <1>1, <1>2, PTL DEF Spec

(* Type correctness: the epochs, snapshots and processes the records of    *)
(* one world name are ones that exist.                                     *)
THEOREM RuntimeTypeCorrect == Spec => []TypeOK
<1>1. RuntimeInv => TypeOK
  BY DEF RuntimeInv
<1>. QED
  BY <1>1, RuntimeInvCorrect, PTL

(* One Minecraft per world and device: a living Java process owns the      *)
(* runtime directory, so reset_runtime_directory and launch_server never   *)
(* run beside one, and a controller past the slot holds the lock.          *)
THEOREM OneRuntimeCorrect == Spec => []OneRuntime
<1>1. RuntimeInv => OneRuntime
  BY DEF RuntimeInv, OneRuntime, ProcessesKnown, Owned, SlotHeld, Early
<1>. QED
  BY <1>1, RuntimeInvCorrect, PTL

(* What this device commits continues the head: a snapshot promoted by     *)
(* prepare_authority_epoch or the tick keeps its root, and one committed   *)
(* by commit_snapshot_fenced comes from a directory restored from the head *)
(* it follows, in the epoch the device holds.                              *)
THEOREM WorldContinuesCorrect == Spec => WorldContinues
<1> DEFINE Continued == head' # head /\ head'.auth = "local" =>
                          /\ epoch'.auth = "local" /\ head'.epoch = epoch'.n
                          /\ head'.root = head.root \/ dir.root = head.root
<1>1. ASSUME RuntimeInv, [Next]_vars PROVE Continued
  <2>1. ASSUME NEW c \in Controllers, Step(c) \/ Fault(c) PROVE Continued
    <3>1. CASE commit_snapshot_fenced(c) /\ head' # head
      <4>1. pc[c] = "commit" /\ CanCommit(c) /\ epoch' = epoch
        BY <3>1 DEF commit_snapshot_fenced, At
      <4>2. head'.epoch = run[c].gen
        <5>1. PICK root \in {dir.root, head.no + 1} :
                 head' = [no |-> head.no + 1, epoch |-> run[c].gen, auth |-> "local", root |-> root]
          BY <3>1, <4>1 DEF commit_snapshot_fenced
        <5>. QED
          BY <5>1
      <4>3. dir.root = head.root
        BY SMTT(30), <1>1, <4>1, RunTypes, RuntimeAssumption DEF CanCommit, BaseOf, Based, Working,
           Recorded, Restored
      <4>. QED
        BY <4>1, <4>2, <4>3 DEF CanCommit, ensure_authority_generation, Local
    <3>2. CASE (prepare_authority_epoch(c) \/ PrepareKilled(c)) /\ head' # head
      <4>1. epoch' = WakeEpoch /\ WakeEpoch.auth = "local" /\ head' = Promoted(WakeEpoch, head)
        <5>1. CanPrepare
          BY <3>2 DEF prepare_authority_epoch, PrepareKilled
        <5>2. PICK k \in 1..4 : Prepared(k)
          BY SMTT(30), <3>2 DEF prepare_authority_epoch, PrepareKilled
        <5>3. k >= 3
          BY <3>2, <5>2 DEF Prepared
        <5>. QED
          BY SMTT(30), <5>1, <5>2, <5>3 DEF Prepared, CanPrepare, WakeEpoch, NextEpoch, Local
      <4>. QED
        BY <3>2, <4>1 DEF Promoted
    <3>3. CASE PrepareRefused(c)
      BY SMTT(30), <3>3 DEF PrepareRefused, Prepared
    <3>4. CASE Finish(c) \/ FinishKilled(c)
      BY <3>4 DEF Finish, FinishKilled, Disposed
    <3>5. CASE \/ Launch(c) \/ wait_until_launch_safe(c) \/ try_acquire(c) \/ begin(c)
               \/ restore(c) \/ launch_server(c) \/ record_java(c) \/ Verify(c) \/ Exited(c)
               \/ Superseded(c) \/ StopIntent(c) \/ TransferIntent(c) \/ snapshot_directory(c)
               \/ Kill(c) \/ Fail(c)
      BY <3>5 DEF Launch, wait_until_launch_safe, try_acquire, begin, restore, launch_server,
         record_java, Verify, Exited, Superseded, StopIntent, TransferIntent,
         snapshot_directory, Kill, Fail, records
    <3>. QED
      BY <2>1, <3>1, <3>2, <3>3, <3>4, <3>5 DEF Step, Fault
  <2>2. CASE TickAuthority
    BY SMTT(30), <2>2 DEF TickAuthority, Promoted, Local
  <2>3. CASE Replicate
    BY SMTT(30), <2>3 DEF Replicate
  <2>4. CASE \/ supervise_world \/ request_world_stop \/ request_world_wake
             \/ prepare_manual_transfer \/ DaemonStart \/ TickClears \/ RecoveryEpoch
             \/ observe_manual_transfer_epoch \/ TickRecovers \/ RecoverKilled \/ JavaExit
             \/ UNCHANGED vars
    BY <2>4 DEF supervise_world, request_world_stop, request_world_wake,
       prepare_manual_transfer, DaemonStart, TickClears, RecoveryEpoch,
       observe_manual_transfer_epoch, TickRecovers, RecoverKilled, JavaExit, vars, records
  <2>. QED
    BY <1>1, <2>1, <2>2, <2>3, <2>4 DEF Next
<1>2. RuntimeInv /\ [Next]_vars => [Continued]_vars
  BY <1>1
<1>. QED
  BY <1>2, RuntimeInvCorrect, PTL DEF Spec, WorldContinues

-----------------------------------------------------------------------------
(* The supervisor's session with the server: the last checkpoint           *)

Saved == disk = played

Answers == [ok : BOOLEAN, id : 0..2]
Supervisors == [pc : {"watch", "asked", "exiting", "checkpoint", "failed", "killed"},
                id : 0..2, stay : BOOLEAN]

BridgeTyped ==
    /\ sup \in Supervisors
    /\ jvm \in {"up", "stopping", "exited", "dead"}
    /\ toGame \in Seq(1..2)
    /\ toSup \in Seq(Answers)
    /\ tasks \in Seq([do : {"barrier", "fail", "exit"}, id : 0..2])
    /\ played \in Nat /\ disk \in Nat /\ disk <= played

(* A server that acknowledged a barrier saved everything and plays no more; *)
(* the supervisor waits for the exit only of such a server.                 *)
BridgeInv ==
    /\ BridgeTyped
    /\ \A i \in 1..Len(toSup) : toSup[i].ok => jvm # "up" /\ Saved
    /\ sup.pc = "exiting" => jvm # "up" /\ Saved
    /\ jvm = "exited" => Saved
    /\ sup.pc = "checkpoint" => jvm # "up" /\ Saved

LEMMA BridgeInvInit ==
    ASSUME BridgeInit
    PROVE  BridgeInv
<1>1. BridgeTyped
  BY SMTT(30) DEF BridgeInit, BridgeTyped, Watching, Supervisors
<1>2. Len(toSup) = 0 /\ sup.pc = "watch" /\ jvm = "up"
  BY SMTT(30) DEF BridgeInit, Watching
<1> QED
  BY <1>1, <1>2, SMTT(30) DEF BridgeInv

(* The actions that leave the supervisor alone and save or play nothing. *)
LEMMA BridgeInvServer ==
    ASSUME BridgeInv,
           \/ Play \/ StopCommand \/ closeRuntimeGuards \/ StopFinishes \/ JvmDies
           \/ handle \/ controllerLost \/ PermitExpires
    PROVE  BridgeInv'
<1>1. CASE Play
  BY <1>1, SMTT(30) DEF Play, BridgeInv, BridgeTyped, Saved
<1>2. CASE StopCommand
  BY <1>2, SMTT(30) DEF StopCommand, BridgeInv, BridgeTyped, Saved
<1>3. CASE closeRuntimeGuards
  BY <1>3, SMTT(30) DEF closeRuntimeGuards, BridgeInv, BridgeTyped, Saved
<1>4. CASE StopFinishes
  BY <1>4, SMTT(30) DEF StopFinishes, BridgeInv, BridgeTyped, Saved
<1>5. CASE JvmDies
  BY <1>5, SMTT(30) DEF JvmDies, BridgeInv, BridgeTyped, Saved
<1>6. CASE handle
  <2>1. toGame' \in Seq(1..2) /\ tasks' \in Seq([do : {"barrier", "fail", "exit"}, id : 0..2])
    BY <1>6, SMTT(30) DEF handle, BridgeInv, BridgeTyped
  <2> QED
    BY <1>6, <2>1 DEF handle, BridgeInv, BridgeTyped, Saved
<1>7. CASE controllerLost
  <2>1. tasks' \in Seq([do : {"barrier", "fail", "exit"}, id : 0..2])
    BY <1>7, SMTT(30) DEF controllerLost, BridgeInv, BridgeTyped
  <2> QED
    BY <1>7, <2>1 DEF controllerLost, BridgeInv, BridgeTyped, Saved
<1>8. CASE PermitExpires
  <2>1. tasks' \in Seq([do : {"barrier", "fail", "exit"}, id : 0..2])
    BY <1>8, SMTT(30) DEF PermitExpires, BridgeInv, BridgeTyped
  <2> QED
    BY <1>8, <2>1 DEF PermitExpires, BridgeInv, BridgeTyped, Saved
<1> QED
  BY <1>1, <1>2, <1>3, <1>4, <1>5, <1>6, <1>7, <1>8

(* The server thread: only a barrier that saved is acknowledged as saved,  *)
(* and nothing is played after it.                                         *)
LEMMA BridgeInvThread ==
    ASSUME BridgeInv, NEW saved \in BOOLEAN,
           runSaveBarrier(saved) \/ failClosedRuntime(saved) \/ ExitWithoutPermit(saved)
    PROVE  BridgeInv'
<1>0. jvm = "up" /\ \A i \in 1..Len(toSup) : ~toSup[i].ok
  BY DEF BridgeInv, runSaveBarrier, failClosedRuntime, ExitWithoutPermit
<1>1. tasks # <<>> /\ tasks' = Tail(tasks)
  BY DEF runSaveBarrier, failClosedRuntime, ExitWithoutPermit
<1>2. /\ tasks' \in Seq([do : {"barrier", "fail", "exit"}, id : 0..2])
      /\ Head(tasks).id \in 0..2
  <2> DEFINE T == [do : {"barrier", "fail", "exit"}, id : 0..2]
  <2>1. tasks \in Seq(T)
    BY DEF BridgeInv, BridgeTyped
  <2>2. \A e \in T : e.id \in 0..2
    BY SMTT(30)
  <2> HIDE DEF T
  <2>3. Tail(tasks) \in Seq(T) /\ Head(tasks) \in T
    BY <1>1, <2>1, SMTT(30)
  <2> QED
    BY <1>1, <2>2, <2>3 DEF T
<1>3. /\ disk' \in Nat /\ disk' <= played /\ UNCHANGED <<sup, toGame, played>>
      /\ jvm' \in {"up", "stopping", "exited", "dead"} /\ jvm' # "exited"
      /\ saved => disk' = played
  BY <1>0, SMTT(30) DEF runSaveBarrier, failClosedRuntime, ExitWithoutPermit, BridgeInv, BridgeTyped
<1>4. sup.pc \notin {"exiting", "checkpoint"}
  BY <1>0 DEF BridgeInv
<1>5. CASE UNCHANGED toSup
  BY <1>0, <1>2, <1>3, <1>4, <1>5 DEF BridgeInv, BridgeTyped
<1>6. CASE /\ toSup' = Append(toSup, [ok |-> saved, id |-> Head(tasks).id])
           /\ saved => jvm' = "stopping"
  <2> DEFINE a == [ok |-> saved, id |-> Head(tasks).id]
  <2>1. a \in Answers /\ a.ok = saved
    BY <1>2 DEF Answers
  <2> HIDE DEF a
  <2>2. /\ toSup' \in Seq(Answers) /\ Len(toSup') = Len(toSup) + 1
        /\ \A i \in 1..Len(toSup') : toSup'[i] = IF i \in 1..Len(toSup) THEN toSup[i] ELSE a
    BY <1>6, <2>1, SMTT(30) DEF BridgeInv, BridgeTyped, a
  <2>3. ASSUME NEW i \in 1..Len(toSup'), toSup'[i].ok PROVE saved
    BY <1>0, <2>1, <2>2, <2>3
  <2>4. saved => jvm' # "up" /\ Saved'
    BY <1>3, <1>6 DEF Saved
  <2> QED
    BY <1>2, <1>3, <1>4, <2>2, <2>3, <2>4 DEF BridgeInv, BridgeTyped
<1>7. \/ UNCHANGED toSup
      \/ /\ toSup' = Append(toSup, [ok |-> saved, id |-> Head(tasks).id])
         /\ saved => jvm' = "stopping"
  BY DEF runSaveBarrier, failClosedRuntime, ExitWithoutPermit
<1> QED
  BY <1>5, <1>6, <1>7

(* A request that failed: the supervisor watches again or gives up. *)
LEMMA FailureOutcome ==
    ASSUME BridgeInv, Failure
    PROVE  /\ sup' \in Supervisors /\ sup'.pc \in {"watch", "failed"}
           /\ jvm' \in {"up", "stopping", "exited", "dead"}
           /\ jvm' = "up" => jvm = "up"
           /\ jvm' = "exited" => jvm = "exited"
<1>0. sup \in Supervisors /\ jvm \in {"up", "stopping", "exited", "dead"}
  BY DEF BridgeInv, BridgeTyped
<1>1. CASE sup.stay
  <2>1. sup' = Watching /\ jvm' = jvm
    BY <1>1 DEF Failure
  <2> QED
    BY <1>0, <2>1, SMTT(30) DEF Watching, Supervisors
<1>2. CASE ~sup.stay
  <2>1. sup' = [sup EXCEPT !.pc = "failed"] /\ jvm' = IF jvm = "exited" THEN jvm ELSE "dead"
    BY <1>2 DEF Failure
  <2> QED
    BY <1>0, <2>1, SMTT(30) DEF Supervisors
<1> QED
  BY <1>1, <1>2

LEMMA BridgeInvSupervisor ==
    ASSUME BridgeInv,
           \/ ServerExited \/ GenerationLost
           \/ \E id \in 1..2, stay \in BOOLEAN : prepare_shutdown(id, stay)
           \/ Answer \/ AnswerMissing \/ ChildGone \/ ChildStays
           \/ LaunchAbandoned \/ SupervisorKilled
    PROVE  BridgeInv'
<1>0. /\ sup \in Supervisors /\ toSup \in Seq(Answers)
      /\ jvm \in {"up", "stopping", "exited", "dead"}
  BY DEF BridgeInv, BridgeTyped
<1>1. CASE ServerExited
  <2>1. /\ sup' \in Supervisors
        /\ sup'.pc = IF jvm = "exited" THEN "checkpoint" ELSE "failed"
    BY <1>0, <1>1, SMTT(30) DEF ServerExited, Supervisors
  <2>2. UNCHANGED <<toGame, toSup, jvm, tasks, played, disk>>
    BY <1>1 DEF ServerExited
  <2>3. "failed" # "exiting" /\ "failed" # "checkpoint" /\ "checkpoint" # "exiting" /\ "exited" # "up"
    BY SMTT(30)
  <2> QED
    BY <2>1, <2>2, <2>3 DEF BridgeInv, BridgeTyped, Saved
<1>2. CASE GenerationLost
  <2>1. /\ sup' \in Supervisors /\ sup'.pc = "failed"
        /\ jvm' \in {"up", "stopping", "exited", "dead"} /\ jvm' # "up"
        /\ jvm' = "exited" => jvm = "exited"
    BY <1>0, <1>2, SMTT(30) DEF GenerationLost, Supervisors
  <2>2. UNCHANGED <<toGame, toSup, tasks, played, disk>>
    BY <1>2 DEF GenerationLost
  <2> QED
    BY <2>1, <2>2 DEF BridgeInv, BridgeTyped, Saved
<1>3. ASSUME NEW id \in 1..2, NEW stay \in BOOLEAN, prepare_shutdown(id, stay) PROVE BridgeInv'
  <2>1. sup' \in Supervisors /\ sup'.pc = "asked"
    <3>1. id \in 0..2 /\ sup' = [pc |-> "asked", id |-> id, stay |-> stay]
      BY <1>3, SMTT(30) DEF prepare_shutdown
    <3> QED
      BY <3>1 DEF Supervisors
  <2>2. toGame' \in Seq(1..2)
    BY <1>3, SMTT(30) DEF prepare_shutdown, BridgeInv, BridgeTyped
  <2>3. UNCHANGED <<toSup, jvm, tasks, played, disk>>
    BY <1>3 DEF prepare_shutdown
  <2> QED
    BY <2>1, <2>2, <2>3 DEF BridgeInv, BridgeTyped, Saved
<1>4. CASE AnswerMissing \/ ChildStays
  <2>1. Failure /\ UNCHANGED <<toGame, toSup, tasks, played, disk>>
    BY <1>4 DEF AnswerMissing, ChildStays
  <2>2. /\ sup' \in Supervisors /\ sup'.pc \in {"watch", "failed"}
        /\ jvm' \in {"up", "stopping", "exited", "dead"}
        /\ jvm' = "up" => jvm = "up"
        /\ jvm' = "exited" => jvm = "exited"
    BY <2>1, FailureOutcome
  <2> QED
    BY <2>1, <2>2 DEF BridgeInv, BridgeTyped, Saved
<1>5. CASE Answer
  <2>1. /\ toSup # <<>> /\ toSup' = Tail(toSup) /\ UNCHANGED <<toGame, tasks, played, disk>>
    BY <1>5 DEF Answer
  <2>2. /\ toSup' \in Seq(Answers) /\ Len(toSup) >= 1 /\ Head(toSup) = toSup[1]
        /\ \A i \in 1..Len(toSup') : i + 1 \in 1..Len(toSup) /\ toSup'[i] = toSup[i + 1]
    BY <1>0, <2>1, SMTT(30)
  <2>3. CASE Head(toSup) = [ok |-> TRUE, id |-> sup.id]
    <3>1. sup' = [sup EXCEPT !.pc = "exiting"] /\ UNCHANGED jvm
      BY <1>5, <2>3 DEF Answer
    <3>2. sup' \in Supervisors /\ sup'.pc = "exiting"
      BY <1>0, <3>1, SMTT(30) DEF Supervisors
    <3>3. 1 \in 1..Len(toSup) /\ toSup[1].ok
      BY <1>0, <2>2, <2>3, SMTT(30)
    <3>4. jvm # "up" /\ Saved
      BY <3>3 DEF BridgeInv
    <3> QED
      BY <2>1, <2>2, <3>1, <3>2, <3>4 DEF BridgeInv, BridgeTyped, Saved
  <2>4. CASE Head(toSup) # [ok |-> TRUE, id |-> sup.id]
    <3>1. Failure
      BY <1>5, <2>4 DEF Answer
    <3>2. /\ sup' \in Supervisors /\ sup'.pc \in {"watch", "failed"}
          /\ jvm' \in {"up", "stopping", "exited", "dead"}
          /\ jvm' = "up" => jvm = "up"
          /\ jvm' = "exited" => jvm = "exited"
      BY <3>1, FailureOutcome
    <3> QED
      BY <2>1, <2>2, <3>2 DEF BridgeInv, BridgeTyped, Saved
  <2> QED
    BY <2>3, <2>4
<1>6. CASE ChildGone
  <2>1. /\ sup' \in Supervisors /\ sup'.pc = "checkpoint" /\ sup.pc = "exiting"
        /\ UNCHANGED <<toGame, toSup, jvm, tasks, played, disk>>
    BY <1>0, <1>6, SMTT(30) DEF ChildGone, Supervisors
  <2> QED
    BY <2>1 DEF BridgeInv, BridgeTyped, Saved
<1>7. CASE LaunchAbandoned \/ SupervisorKilled
  <2>1. /\ sup' \in Supervisors /\ sup'.pc \in {"failed", "killed"}
        /\ UNCHANGED <<toGame, toSup, jvm, tasks, played, disk>>
    BY <1>0, <1>7, SMTT(30) DEF LaunchAbandoned, SupervisorKilled, Supervisors
  <2> QED
    BY <2>1 DEF BridgeInv, BridgeTyped, Saved
<1> QED
  BY <1>1, <1>2, <1>3, <1>4, <1>5, <1>6, <1>7

LEMMA BridgeInvStep ==
    ASSUME BridgeInv, [BridgeNext]_bridgeVars
    PROVE  BridgeInv'
<1>1. CASE UNCHANGED bridgeVars
  BY <1>1 DEF bridgeVars, BridgeInv, BridgeTyped, Saved
<1>2. CASE ServerThread
  BY <1>2, BridgeInvThread DEF ServerThread
<1>3. CASE ReaderEof \/ WatchdogExpires \/ HeartbeatsLate
  BY <1>3, BridgeInvServer DEF ReaderEof, WatchdogExpires, HeartbeatsLate
<1>4. CASE prepare_shutdown(1, TRUE) \/ prepare_shutdown(1, FALSE) \/ prepare_shutdown(2, FALSE)
  <2>1. 1 \in 1..2 /\ 2 \in 1..2 /\ TRUE \in BOOLEAN /\ FALSE \in BOOLEAN
    BY SMTT(30)
  <2> QED
    BY <1>4, <2>1, BridgeInvSupervisor
<1> QED
  BY <1>1, <1>2, <1>3, <1>4, BridgeInvServer, BridgeInvSupervisor DEF BridgeNext

(* The checkpoint the supervisor takes holds everything that was played,   *)
(* for any number of requests that time out and are answered late, and     *)
(* however the server ended (wait_for_runtime_exit and runSaveBarrier).    *)
THEOREM CheckpointCompleteCorrect == BridgeSpec => []CheckpointComplete
<1>1. BridgeInit => BridgeInv
  BY BridgeInvInit
<1>2. BridgeInv /\ [BridgeNext]_bridgeVars => BridgeInv'
  BY BridgeInvStep
<1>3. BridgeInv => CheckpointComplete
  BY DEF BridgeInv, CheckpointComplete, Saved
<1> QED
  BY <1>1, <1>2, <1>3, PTL DEF BridgeSpec

-----------------------------------------------------------------------------
(* The import of a save.                                                    *)

ImportStates == [pc : {"idle", "stage", "read", "commit", "mods", "publish", "sync", "cleanup"},
                 parts : Nat, read : Nat, image : [SaveFiles -> Nat], found : [SaveFiles -> Nat],
                 committed : BOOLEAN, mods : BOOLEAN]

(* session.lock is not among the first n files that are read. *)
LockUnread(n) == \A j \in 1..n : SaveOrder[j] # LockFile

(* The files of an image that were read before the lock could be lost are  *)
(* the ones the importer found.                                             *)
AsFound(image, found, n) ==
    \A i \in 1..n : LockUnread(i - 1) => image[SaveOrder[i]] = found[SaveOrder[i]]

Whole(w) == w.parts = Len(Parts) /\ w.committed /\ w.mods /\ AsFound(w.image, w.found, Len(SaveOrder))

(* The lock and the game exclude each other.  The lock is held until       *)
(* session.lock itself is read, and while it is held the save is the one    *)
(* the importer found.  Every phase has done the work of those before it.   *)
ImportInv ==
    /\ import \in ImportStates
    /\ save \in [SaveFiles -> Nat] /\ game \in BOOLEAN /\ shared \in BOOLEAN
    /\ shared => ~game
    /\ import.pc # "idle" /\ shared => save = import.found
    /\ import.pc \in {"stage", "read"} /\ LockUnread(import.read) => shared
    /\ import.pc = "stage" => import.parts < Len(Parts) /\ import.read = 0
    /\ import.pc \in {"read", "commit", "mods", "publish", "sync"} =>
         /\ import.parts = Len(Parts)
         /\ AsFound(import.image, import.found, import.read)
    /\ import.pc = "read" => import.read < Len(SaveOrder)
    /\ import.pc \in {"commit", "mods", "publish", "sync"} => import.read = Len(SaveOrder)
    /\ import.pc \in {"mods", "publish", "sync"} => import.committed
    /\ import.pc \in {"publish", "sync"} => import.mods
    /\ \A w \in visible : Whole(w)

LEMMA ImportedWholeIsWhole ==
    ImportedWhole <=> \A w \in visible : Whole(w)
<1>1. \A i \in 1..Len(SaveOrder) : LockUnread(i - 1) <=> \A j \in 1..(i - 1) : SaveOrder[j] # LockFile
  BY DEF LockUnread
<1> QED
  BY <1>1 DEF ImportedWhole, Whole, AsFound

LEMMA NoImportTyped ==
    /\ NoImport \in ImportStates /\ NoImport.pc = "idle"
    /\ \A found \in [SaveFiles -> Nat] :
         LET i == [NoImport EXCEPT !.pc = "stage", !.found = found]
         IN  i \in ImportStates /\ i.pc = "stage" /\ i.parts = 0 /\ i.read = 0 /\ i.found = found
<1>1. FALSE \in BOOLEAN /\ 0 \in Nat
  OBVIOUS
<1> QED
  BY <1>1 DEF NoImport, ImportStates

LEMMA ImportInvInit ==
    ASSUME ImportInit
    PROVE  ImportInv
<1>1. save \in [SaveFiles -> Nat] /\ game = FALSE /\ shared = FALSE /\ visible = {}
  BY DEF ImportInit
<1> QED
  BY <1>1, NoImportTyped DEF ImportInit, ImportInv

LEMMA ImportInvGame ==
    ASSUME ImportInv, GameStarts \/ GameStops \/ \E f \in SaveFiles : GameWrites(f)
    PROVE  ImportInv'
<1>1. UNCHANGED <<import, visible, shared>>
  BY DEF GameStarts, GameStops, GameWrites
<1>2. save' \in [SaveFiles -> Nat] /\ (shared => save' = save)
  <2>1. CASE \E f \in SaveFiles : GameWrites(f)
    <3>1. PICK f \in SaveFiles : game /\ save' = [save EXCEPT ![f] = @ + 1]
      BY <2>1 DEF GameWrites
    <3>2. ~shared
      BY <3>1 DEF ImportInv
    <3>3. save[f] \in Nat
      BY DEF ImportInv
    <3>4. save[f] + 1 \in Nat
      BY <3>3, SMTT(30)
    <3> QED
      BY <3>1, <3>2, <3>4 DEF ImportInv
  <2> QED
    BY <2>1 DEF GameStarts, GameStops, ImportInv
<1>3. game' \in BOOLEAN /\ (shared => ~game')
  BY DEF GameStarts, GameStops, GameWrites, ImportInv
<1> QED
  BY <1>1, <1>2, <1>3 DEF ImportInv, LockUnread, AsFound, Whole

(* Reading the next file keeps the files read before it: every file is     *)
(* read once.                                                               *)
LEMMA ReadFileKeeps ==
    ASSUME NEW image \in [SaveFiles -> Nat], NEW found \in [SaveFiles -> Nat], NEW n \in Nat,
           n < Len(SaveOrder), AsFound(image, found, n), NEW v \in Nat,
           LockUnread(n) => v = found[SaveOrder[n + 1]]
    PROVE  AsFound([image EXCEPT ![SaveOrder[n + 1]] = v], found, n + 1)
<1>0. Len(SaveOrder) \in Nat /\ n + 1 \in 1..Len(SaveOrder) /\ 1..n \subseteq 1..Len(SaveOrder)
  BY ImportAssumption, SMTT(30) DEF ImportConstants
<1>1. \A i \in 1..Len(SaveOrder) : SaveOrder[i] \in SaveFiles
  BY DEF SaveFiles
<1> DEFINE read == [image EXCEPT ![SaveOrder[n + 1]] = v]
<1> SUFFICES ASSUME NEW i \in 1..(n + 1), LockUnread(i - 1)
             PROVE  read[SaveOrder[i]] = found[SaveOrder[i]]
  BY DEF AsFound
<1>2. CASE i = n + 1
  <2>1. i - 1 = n
    BY <1>2, SMTT(30)
  <2> QED
    BY <1>0, <1>1, <1>2, <2>1
<1>3. CASE i # n + 1
  <2>1. i \in 1..n
    BY <1>3, SMTT(30)
  <2>2. SaveOrder[i] # SaveOrder[n + 1]
    BY <1>0, <1>3, <2>1, ImportAssumption DEF ImportConstants
  <2>3. read[SaveOrder[i]] = image[SaveOrder[i]]
    BY <1>0, <1>1, <2>1, <2>2
  <2> QED
    BY <2>1, <2>3 DEF AsFound
<1> QED
  BY <1>2, <1>3

LEMMA ImportInvReads ==
    ASSUME ImportInv, ReadFile
    PROVE  ImportInv'
<1> DEFINE n == import.read
           f == SaveOrder[n + 1]
<1>0. /\ import.pc = "read" /\ import \in ImportStates
      /\ shared' = (shared /\ ~(platform = "posix" /\ f = LockFile))
      /\ UNCHANGED <<save, game, visible>>
  BY DEF ReadFile, ImportInv
<1>1. /\ import.image \in [SaveFiles -> Nat] /\ import.found \in [SaveFiles -> Nat]
      /\ n \in Nat /\ n < Len(SaveOrder)
      /\ AsFound(import.image, import.found, n)
  BY <1>0 DEF ImportInv, ImportStates
<1>2. Len(SaveOrder) \in Nat /\ n + 1 \in 1..Len(SaveOrder)
  BY <1>1, ImportAssumption, SMTT(30) DEF ImportConstants
<1>3. f \in SaveFiles /\ save[f] \in Nat
  BY <1>2 DEF SaveFiles, ImportInv
<1>4. LockUnread(n) => save[f] = import.found[f]
  BY <1>0 DEF ImportInv
<1>5. AsFound([import.image EXCEPT ![f] = save[f]], import.found, n + 1)
  BY <1>1, <1>3, <1>4, ReadFileKeeps
<1>6. [import.image EXCEPT ![f] = save[f]] \in [SaveFiles -> Nat]
  BY <1>1, <1>3
<1>7. /\ import' \in ImportStates
      /\ import'.pc = IF n + 1 = Len(SaveOrder) THEN "commit" ELSE "read"
      /\ import'.read = n + 1 /\ import'.image = [import.image EXCEPT ![f] = save[f]]
      /\ import'.found = import.found /\ import'.parts = import.parts
  <2>1. n + 1 \in Nat
    BY <1>1, SMTT(30)
  <2>2. import' = [import EXCEPT !.read = n + 1, !.image = [import.image EXCEPT ![f] = save[f]],
                                 !.pc = IF n + 1 = Len(SaveOrder) THEN "commit" ELSE "read"]
    BY <1>0 DEF ReadFile, ImportStates
  <2> HIDE DEF f, n
  <2> QED
    BY <1>0, <1>6, <2>1, <2>2 DEF ImportStates
<1>8. LockUnread(n + 1) => LockUnread(n) /\ f # LockFile
  BY <1>1, SMTT(30) DEF LockUnread
<1>9. LockUnread(n + 1) => shared'
  BY <1>0, <1>8 DEF ImportInv
<1>10. shared' \in BOOLEAN /\ (shared' => shared)
  BY <1>0 DEF ImportInv
<1>11. n + 1 # Len(SaveOrder) => n + 1 < Len(SaveOrder)
  BY <1>1, <1>2, SMTT(30)
<1>12. \A w \in visible' : Whole(w)
  BY <1>0 DEF ImportInv
<1>13. import'.parts = Len(Parts)
  BY <1>0, <1>7 DEF ImportInv
<1> HIDE DEF f, n
<1>14. import'.pc \in {"read", "commit"}
  BY <1>7
<1>15. AsFound(import'.image, import'.found, import'.read)
  BY <1>5, <1>7
<1> QED
  BY <1>0, <1>7, <1>9, <1>10, <1>11, <1>12, <1>13, <1>14, <1>15
  DEF ImportInv, LockUnread, AsFound, Whole

LEMMA ImportInvStages ==
    ASSUME ImportInv, acquire_source_quiescence \/ StagePart
    PROVE  ImportInv'
<1>1. CASE acquire_source_quiescence
  <2>1. /\ ~game /\ shared' = TRUE /\ UNCHANGED <<save, game, visible>>
        /\ import' = [NoImport EXCEPT !.pc = "stage", !.found = save]
    BY <1>1 DEF acquire_source_quiescence
  <2>2. /\ import' \in ImportStates /\ import'.pc = "stage"
        /\ import'.parts = 0 /\ import'.read = 0 /\ import'.found = save
    BY <2>1, NoImportTyped DEF ImportInv
  <2>3. 0 < Len(Parts)
    BY ImportAssumption, SMTT(30) DEF ImportConstants
  <2> QED
    BY <2>1, <2>2, <2>3 DEF ImportInv, LockUnread, AsFound, Whole
<1>2. CASE StagePart
  <2>0. /\ import.pc = "stage" /\ import \in ImportStates /\ UNCHANGED <<save, game, shared, visible>>
        /\ import' = [import EXCEPT !.parts = @ + 1,
                                    !.pc = IF import.parts + 1 = Len(Parts) THEN "read" ELSE @]
    BY <1>2 DEF StagePart, ImportInv
  <2>1. /\ import' \in ImportStates
        /\ import'.pc = IF import.parts + 1 = Len(Parts) THEN "read" ELSE "stage"
        /\ import'.parts = import.parts + 1 /\ import'.read = import.read
        /\ import'.image = import.image /\ import'.found = import.found
    <3>1. import.parts + 1 \in Nat
      BY <2>0, SMTT(30) DEF ImportStates
    <3> QED
      BY <2>0, <3>1 DEF ImportStates
  <2>2. import.read = 0 /\ 0 < Len(SaveOrder)
    BY <2>0, ImportAssumption, SMTT(30) DEF ImportConstants, ImportInv
  <2>3. import.parts + 1 # Len(Parts) => import.parts + 1 < Len(Parts)
    BY <2>0, ImportAssumption, SMTT(30) DEF ImportConstants, ImportInv, ImportStates
  <2>4. AsFound(import'.image, import'.found, import'.read)
    BY <2>1, <2>2, SMTT(30) DEF AsFound
  <2>5. LockUnread(import'.read) => shared'
    BY <2>0, <2>1 DEF ImportInv
  <2>6. import'.pc \in {"stage", "read"}
    BY <2>1
  <2> QED
    BY <2>0, <2>1, <2>2, <2>3, <2>4, <2>5, <2>6 DEF ImportInv, LockUnread, AsFound, Whole
<1> QED
  BY <1>1, <1>2

(* From the commit on, only the phase and its flag change. *)
LEMMA ImportInvCommits ==
    ASSUME ImportInv, CommitSnapshot \/ (\E ok \in BOOLEAN : AddMods(ok)) \/ ImportFails
    PROVE  ImportInv'
<1>0. /\ UNCHANGED <<save, game, shared, visible>> /\ import.pc # "idle" /\ import \in ImportStates
  BY DEF CommitSnapshot, AddMods, ImportFails, ImportInv
<1>1. /\ import' \in ImportStates /\ import'.parts = import.parts /\ import'.read = import.read
      /\ import'.image = import.image /\ import'.found = import.found
      /\ \/ import.pc = "commit" /\ import'.pc = "mods" /\ import'.committed
         \/ /\ import.pc = "mods" /\ import'.pc = "publish" /\ import'.mods
            /\ import'.committed = import.committed
         \/ import'.pc = "cleanup"
  <2>1. CASE CommitSnapshot
    <3>1. TRUE \in BOOLEAN
      OBVIOUS
    <3> QED
      BY <1>0, <2>1, <3>1 DEF CommitSnapshot, ImportStates
  <2>2. CASE \E ok \in BOOLEAN : AddMods(ok)
    BY <1>0, <2>2 DEF AddMods, ImportStates
  <2>3. CASE ImportFails
    BY <1>0, <2>3 DEF ImportFails, ImportStates
  <2> QED
    BY <2>1, <2>2, <2>3
<1>2. CASE import'.pc = "cleanup"
  BY <1>0, <1>1, <1>2 DEF ImportInv, LockUnread, AsFound, Whole
<1>3. CASE import'.pc # "cleanup"
  <2>1. import.pc \in {"commit", "mods"} /\ import'.pc \in {"mods", "publish"}
    BY <1>1, <1>3
  <2>2. /\ import'.parts = Len(Parts) /\ import'.read = Len(SaveOrder)
        /\ AsFound(import'.image, import'.found, import'.read)
    BY <1>1, <2>1 DEF ImportInv
  <2>3. import'.committed /\ (import'.pc = "publish" => import'.mods)
    BY <1>1, <1>3 DEF ImportInv
  <2>4. \A w \in visible' : Whole(w)
    BY <1>0 DEF ImportInv
  <2>5. shared' => ~game' /\ save' = import'.found
    BY <1>0, <1>1 DEF ImportInv
  <2>6. save' \in [SaveFiles -> Nat] /\ game' \in BOOLEAN /\ shared' \in BOOLEAN
    BY <1>0 DEF ImportInv
  <2> QED
    BY <1>1, <2>1, <2>2, <2>3, <2>4, <2>5, <2>6 DEF ImportInv, LockUnread, AsFound, Whole
<1> QED
  BY <1>2, <1>3

LEMMA ImportInvPublishes ==
    ASSUME ImportInv, Publish \/ \E synced, undone \in BOOLEAN : SyncDirectory(synced, undone)
    PROVE  ImportInv'
<1>0. /\ UNCHANGED <<save, game, shared>> /\ import \in ImportStates
      /\ import.pc \in {"publish", "sync"}
      /\ import' = [import EXCEPT !.pc = IF import.pc = "publish" THEN "sync" ELSE "cleanup"]
      /\ \A w \in visible' : w \in visible \/ (w = World /\ import.pc = "publish")
  BY DEF Publish, SyncDirectory, ImportInv
<1>1. /\ import' \in ImportStates /\ import'.parts = import.parts /\ import'.read = import.read
      /\ import'.image = import.image /\ import'.found = import.found
      /\ import'.committed = import.committed /\ import'.mods = import.mods
      /\ import'.pc = IF import.pc = "publish" THEN "sync" ELSE "cleanup"
  BY <1>0 DEF ImportStates
<1>2. ASSUME import.pc = "publish" PROVE Whole(World)
  <2>1. /\ import.parts = Len(Parts) /\ import.committed /\ import.mods
        /\ AsFound(import.image, import.found, Len(SaveOrder))
    BY <1>2 DEF ImportInv
  <2>2. /\ World.parts = import.parts /\ World.committed = import.committed /\ World.mods = import.mods
        /\ World.image = import.image /\ World.found = import.found
    BY DEF World
  <2> QED
    BY <2>1, <2>2 DEF Whole
<1>3. \A w \in visible' : Whole(w)
  BY <1>0, <1>2 DEF ImportInv
<1>4. /\ import'.parts = Len(Parts) /\ import'.read = Len(SaveOrder) /\ import'.committed /\ import'.mods
      /\ AsFound(import'.image, import'.found, import'.read)
  BY <1>0, <1>1 DEF ImportInv
<1>5. /\ save' \in [SaveFiles -> Nat] /\ game' \in BOOLEAN /\ shared' \in BOOLEAN
      /\ shared' => ~game' /\ save' = import'.found
  BY <1>0, <1>1 DEF ImportInv
<1>6. import'.pc \in {"sync", "cleanup"}
  BY <1>1
<1> QED
  BY <1>1, <1>3, <1>4, <1>5, <1>6 DEF ImportInv, LockUnread, AsFound, Whole

LEMMA ImportInvEnds ==
    ASSUME ImportInv, Cleanup \/ ImporterKilled
    PROVE  ImportInv'
<1>1. import' = NoImport /\ shared' = FALSE /\ UNCHANGED <<save, game, visible>>
  BY DEF Cleanup, ImporterKilled
<1> QED
  BY <1>1, NoImportTyped DEF ImportInv, LockUnread, AsFound, Whole

LEMMA ImportInvStep ==
    ASSUME ImportInv, [ImportNext]_importVars
    PROVE  ImportInv'
<1>1. CASE UNCHANGED importVars
  BY <1>1 DEF importVars, ImportInv, LockUnread, AsFound, Whole
<1> QED
  BY <1>1, ImportInvGame, ImportInvStages, ImportInvReads, ImportInvCommits, ImportInvPublishes,
     ImportInvEnds DEF ImportNext

(* A world that an import made visible has all its records, its snapshot   *)
(* and its mods, and the files up to session.lock are those the importer    *)
(* found: for a save of any size, wherever session.lock sorts in it, any    *)
(* number of imports and of writes of the game (import_world). *)
THEOREM ImportedWholeCorrect == ImportSpec => []ImportedWhole
<1>1. ImportInit => ImportInv
  BY ImportInvInit
<1>2. ImportInv /\ [ImportNext]_importVars => ImportInv'
  BY ImportInvStep
<1>3. ImportInv => ImportedWhole
  BY ImportedWholeIsWhole DEF ImportInv
<1> QED
  BY <1>1, <1>2, <1>3, PTL DEF ImportSpec

-----------------------------------------------------------------------------
(* The server mods of a launch.                                             *)

ToolPhases == {"idle", "next", "modrinth", "curseforge", "lookup", "fetch", "verify", "exists",
               "open", "write", "publish", "remove"}
ToolStates == [pc : ToolPhases, job : {NoFile, "add", "acquire", "remove"}, target : Names \cup {NoFile},
               seen : SUBSET Files, todo : SUBSET Required, part : Files]
LaunchStates == [pc : {"idle", "reset", "evaluate", "copy", "running"}, list : SUBSET Names]

Profile == {Canonical(id) : id \in Required}

(* What the copy of a listed name will put into the runtime. *)
StagedAs(n) == IF n = Foreign THEN modsDir[Foreign] ELSE Canonical(n)

ForeignGone == Foreign \in launch.list /\ modsDir[Foreign] = NoFile

(* A canonical name holds the profile's JAR or nothing, because every file *)
(* written there is canonical.  What a launch has copied and what it still  *)
(* has to copy make up the profile, unless a file that nothing can bring    *)
(* back is gone.                                                            *)
ModsInv ==
    /\ tool \in ToolStates /\ launch \in LaunchStates
    /\ modsDir \in [Names -> Files] /\ tmp \in [Required -> Files]
    /\ \A n \in Required : modsDir[n] \in {NoFile, Canonical(n)}
    /\ tool.pc \notin {"idle", "next", "remove"} => tool.target \in Required
    /\ tool.pc = "publish" => tmp[tool.target] = Canonical(tool.target)
    /\ launch.pc = "evaluate" => runtime = {}
    /\ launch.pc = "copy" => ForeignGone \/ runtime \cup {StagedAs(n) : n \in launch.list} = Profile
    /\ RunsCanonicalMods

LEMMA CanonicalFile ==
    ASSUME NEW id \in Required
    PROVE  /\ Canonical(id) \in Jar /\ Canonical(id) \in Files
           /\ Canonical(id) # NoFile /\ Canonical(id) # Torn
           /\ Canonical(id).id = id /\ Canonical(id).bytes = 1 /\ ~Canonical(id).client
<1>1. id \in Ids \cup Managed /\ NoFile \notin Jar
  BY ModsAssumption DEF ModsConstants
<1>2. Canonical(id) \in Jar /\ Canonical(id).id = id /\ Canonical(id).bytes = 1 /\ ~Canonical(id).client
  <2>1. FALSE \in BOOLEAN /\ 1 \in {1, 2}
    OBVIOUS
  <2> QED
    BY <1>1, <2>1 DEF Canonical, Jar
<1>3. Canonical(id) # Torn
  <2>1. Torn.bytes = 0 /\ 0 # 1
    BY SMTT(30) DEF Torn
  <2> QED
    BY <1>2, <2>1
<1> QED
  BY <1>1, <1>2, <1>3 DEF Files

LEMMA JarIsCanonical ==
    ASSUME NEW jar \in Jar, jar.bytes = 1, ~jar.client
    PROVE  jar = Canonical(jar.id)
<1>1. jar.client = FALSE
  BY DEF Jar
<1> QED
  BY <1>1, SMTT(30) DEF Jar, Canonical

LEMMA ToolIdleTyped ==
    /\ ToolIdle \in ToolStates /\ ToolIdle.pc = "idle"
    /\ LaunchIdle \in LaunchStates /\ LaunchIdle.pc = "idle"
<1>1. {} \in SUBSET Files /\ {} \in SUBSET Required /\ {} \in SUBSET Names /\ NoFile \in Files
  BY DEF Files
<1>2. ToolIdle \in ToolStates /\ ToolIdle.pc = "idle"
  BY <1>1 DEF ToolIdle, ToolStates, ToolPhases
<1>3. LaunchIdle \in LaunchStates /\ LaunchIdle.pc = "idle"
  BY <1>1 DEF LaunchIdle, LaunchStates
<1> QED
  BY <1>2, <1>3

LEMMA ModsInvInit ==
    ASSUME ModsInit
    PROVE  ModsInv
<1>1. PICK file \in Files : modsDir = [n \in Names |-> IF n = Foreign THEN file ELSE NoFile]
  BY DEF ModsInit
<1>2. NoFile \in Files /\ Required \subseteq Names /\ Foreign \notin Required
  BY ModsAssumption DEF ModsConstants, Files, Names
<1>3. modsDir \in [Names -> Files] /\ \A n \in Required : modsDir[n] = NoFile
  BY <1>1, <1>2
<1>4. tmp \in [Required -> Files]
  BY <1>2 DEF ModsInit
<1> QED
  BY <1>3, <1>4, ToolIdleTyped DEF ModsInit, ModsInv, RunsCanonicalMods

(* A step of the tool that leaves the directory and the launch alone. *)
LEMMA ToolFrame ==
    ASSUME ModsInv, UNCHANGED <<modsDir, launch, runtime>>,
           tool' \in ToolStates, tmp' \in [Required -> Files],
           tool'.pc \notin {"idle", "next", "remove"} => tool'.target \in Required,
           tool'.pc = "publish" => tmp'[tool'.target] = Canonical(tool'.target)
    PROVE  ModsInv'
<1>1. \A n \in Required : modsDir'[n] \in {NoFile, Canonical(n)}
  BY DEF ModsInv
<1>2. launch'.pc = "copy" => (ForeignGone \/ runtime \cup {StagedAs(n) : n \in launch.list} = Profile)'
  BY DEF ModsInv, ForeignGone, StagedAs, Profile, Canonical
<1>3. RunsCanonicalMods'
  BY DEF ModsInv, RunsCanonicalMods, Canonical
<1> QED
  BY <1>1, <1>2, <1>3 DEF ModsInv, Canonical

(* A step that gives the tool up, or moves it on with the same target. *)
LEMMA ToolMoves ==
    ASSUME ModsInv, NEW next \in ToolPhases, NEW file \in Files
    PROVE  LET moved == [tool EXCEPT !.pc = next]
               taken == [tool EXCEPT !.pc = next, !.part = file]
           IN  /\ moved \in ToolStates /\ moved.pc = next /\ moved.target = tool.target
               /\ taken \in ToolStates /\ taken.pc = next /\ taken.target = tool.target
  BY DEF ModsInv, ToolStates

LEMMA DoneTyped ==
    ASSUME ModsInv
    PROVE  Done \in ToolStates /\ Done.pc \in {"idle", "next"}
<1>1. tool.todo \ {tool.target} \in SUBSET Required
  BY DEF ModsInv, ToolStates
<1> QED
  BY <1>1, ToolIdleTyped DEF Done, ModsInv, ToolStates, ToolPhases

LEMMA ToolStarts ==
    ASSUME ModsInv,
           \/ \E jar \in Jar : ModsAdd(jar)
           \/ \E id \in Ids : ModsRemove(id)
           \/ Acquire
    PROVE  ModsInv'
<1>0. UNCHANGED <<modsDir, tmp, launch, runtime>>
  BY DEF ModsAdd, ModsRemove, Acquire
<1>1. CASE \E jar \in Jar : ModsAdd(jar)
  <2>1. PICK jar \in Jar : /\ jar.id \in Required
                           /\ tool' = [ToolIdle EXCEPT !.pc = "exists", !.job = "add", !.target = jar.id]
    BY <1>1 DEF ModsAdd, AcceptedJar
  <2>2. tool' \in ToolStates /\ tool'.pc = "exists" /\ tool'.target \in Required
    BY <2>1, ToolIdleTyped DEF ToolStates, ToolPhases, Names
  <2> QED
    BY <1>0, <2>2, ToolFrame DEF ModsInv
<1>2. CASE \E id \in Ids : ModsRemove(id)
  <2>1. PICK n \in Installed :
          tool' = [ToolIdle EXCEPT !.pc = "remove", !.job = "remove", !.target = n]
    BY <1>2 DEF ModsRemove
  <2>2. n \in Names
    BY DEF Installed, PresentNames
  <2>3. tool' \in ToolStates /\ tool'.pc = "remove"
    BY <2>1, <2>2, ToolIdleTyped DEF ToolStates, ToolPhases
  <2> QED
    BY <1>0, <2>3, ToolFrame DEF ModsInv
<1>3. CASE Acquire
  <2> DEFINE seen == {modsDir[n] : n \in Installed}
  <2>1. tool' = [ToolIdle EXCEPT !.pc = "next", !.job = "acquire", !.todo = Required, !.seen = seen]
    BY <1>3 DEF Acquire
  <2>2. seen \in SUBSET Files
    BY DEF Installed, PresentNames, ModsInv
  <2> HIDE DEF seen
  <2>3. tool' \in ToolStates /\ tool'.pc = "next"
    BY <2>1, <2>2, ToolIdleTyped DEF ToolStates, ToolPhases
  <2> QED
    BY <1>0, <2>3, ToolFrame DEF ModsInv
<1> QED
  BY <1>1, <1>2, <1>3

LEMMA ToolAcquires ==
    ASSUME ModsInv,
           \/ \E id \in Ids : NextPackage(id)
           \/ \E served \in Files : \/ download_curseforge_artifact(served)
                                    \/ acquire_modrinth(served, FALSE) \/ acquire_modrinth(served, TRUE)
           \/ \E answered \in BOOLEAN, meta \in FileMetadata : curseforge_json(answered, meta)
           \/ \E permitted \in BOOLEAN : curseforge_download_url(permitted)
           \/ VerifyDownload \/ AcquireEnds \/ ToolKilled \/ CheckExists
    PROVE  ModsInv'
<1>0. UNCHANGED <<modsDir, tmp, launch, runtime>>
  BY DEF NextPackage, download_curseforge_artifact, acquire_modrinth, curseforge_json,
         curseforge_download_url, VerifyDownload, AcquireEnds, ToolKilled, CheckExists
<1> SUFFICES /\ tool' \in ToolStates /\ tool'.pc # "publish"
             /\ tool'.pc \notin {"idle", "next", "remove"} => tool'.target \in Required
  BY <1>0, ToolFrame DEF ModsInv
<1>1. CASE tool' = ToolIdle
  BY <1>1, ToolIdleTyped
<1>2. CASE \E id \in Ids : NextPackage(id)
  <2>1. PICK id \in tool.todo :
          /\ tool.pc = "next"
          /\ \/ tool' = ToolIdle
             \/ tool' = [tool EXCEPT !.todo = tool.todo \ {id}]
             \/ id \notin ByHand /\ tool' = [tool EXCEPT !.pc = Provider[id], !.target = id]
    BY <1>2 DEF NextPackage
  <2>2. id \in Required /\ tool.todo \ {id} \in SUBSET Required
    BY DEF ModsInv, ToolStates
  <2>3. ASSUME tool' = [tool EXCEPT !.todo = tool.todo \ {id}]
        PROVE  tool' \in ToolStates /\ tool'.pc = "next"
    BY <2>1, <2>2, <2>3 DEF ModsInv, ToolStates
  <2>4. ASSUME id \notin ByHand, tool' = [tool EXCEPT !.pc = Provider[id], !.target = id]
        PROVE  tool' \in ToolStates /\ tool'.pc # "publish" /\ tool'.target \in Required
    <3>1. Provider[id] \in {"modrinth", "curseforge"}
      BY <2>2, <2>4, ModsAssumption DEF ModsConstants
    <3>2. Provider[id] \in ToolPhases /\ Provider[id] # "publish" /\ id \in Names
      BY <2>2, <3>1 DEF ToolPhases, Names
    <3> QED
      BY <2>2, <2>4, <3>2 DEF ModsInv, ToolStates
  <2> QED
    BY <1>1, <2>1, <2>3, <2>4
<1>3. CASE \E served \in Files : \/ download_curseforge_artifact(served)
                                 \/ acquire_modrinth(served, FALSE) \/ acquire_modrinth(served, TRUE)
  <2>1. PICK served \in Files : /\ tool.pc \in {"fetch", "modrinth"}
                                /\ \/ tool' = ToolIdle
                                   \/ tool' = [tool EXCEPT !.pc = "verify", !.part = served]
    BY <1>3 DEF download_curseforge_artifact, acquire_modrinth
  <2>2. tool.target \in Required /\ "verify" \in ToolPhases
    BY <2>1 DEF ModsInv, ToolPhases
  <2>3. LET taken == [tool EXCEPT !.pc = "verify", !.part = served]
        IN  taken \in ToolStates /\ taken.pc = "verify" /\ taken.target = tool.target
    BY <2>2, ToolMoves
  <2> QED
    BY <1>1, <2>1, <2>2, <2>3
<1>4. CASE \/ \E answered \in BOOLEAN, meta \in FileMetadata : curseforge_json(answered, meta)
           \/ \E permitted \in BOOLEAN : curseforge_download_url(permitted)
  <2>1. PICK next \in {"fetch", "lookup"} : /\ tool.pc \in {"curseforge", "lookup"}
                                            /\ tool' = ToolIdle \/ tool' = [tool EXCEPT !.pc = next]
    BY <1>4 DEF curseforge_json, curseforge_download_url
  <2>2. tool.target \in Required /\ next \in ToolPhases /\ NoFile \in Files
    BY <2>1 DEF ModsInv, ToolPhases, Files
  <2> QED
    BY <1>1, <2>1, <2>2, ToolMoves
<1>5. CASE VerifyDownload
  <2>1. /\ tool.pc = "verify"
        /\ tool' = ToolIdle \/ tool' = [tool EXCEPT !.pc = "exists", !.part = NoFile]
    BY <1>5 DEF VerifyDownload
  <2>2. tool.target \in Required /\ "exists" \in ToolPhases /\ NoFile \in Files
    BY <2>1 DEF ModsInv, ToolPhases, Files
  <2>3. LET taken == [tool EXCEPT !.pc = "exists", !.part = NoFile]
        IN  taken \in ToolStates /\ taken.pc = "exists" /\ taken.target = tool.target
    BY <2>2, ToolMoves
  <2> QED
    BY <1>1, <2>1, <2>2, <2>3
<1>6. CASE CheckExists
  <2>1. /\ tool.pc = "exists"
        /\ tool' = ToolIdle \/ tool' = Done \/ tool' = [tool EXCEPT !.pc = "open"]
    BY <1>6, SMTT(30) DEF CheckExists
  <2>2. tool.target \in Required /\ "open" \in ToolPhases /\ NoFile \in Files
    BY <2>1 DEF ModsInv, ToolPhases, Files
  <2> QED
    BY <1>1, <2>1, <2>2, ToolMoves, DoneTyped
<1> QED
  BY <1>1, <1>2, <1>3, <1>4, <1>5, <1>6 DEF AcquireEnds, ToolKilled

LEMMA ToolWrites ==
    ASSUME ModsInv, OpenTmp \/ WriteTmp
    PROVE  ModsInv'
<1>0. UNCHANGED <<modsDir, launch, runtime>> /\ tool.pc \in {"open", "write"}
  BY DEF OpenTmp, WriteTmp
<1>1. tool.target \in Required /\ NoFile \in Files
  BY <1>0 DEF ModsInv, Files
<1>2. Torn \in Files /\ Canonical(tool.target) \in Files
  BY <1>1, CanonicalFile DEF Files
<1>3. CASE OpenTmp
  <2>1. tmp' = [tmp EXCEPT ![tool.target] = Torn] /\ tool' = [tool EXCEPT !.pc = "write"]
    BY <1>3 DEF OpenTmp
  <2>2. tool' \in ToolStates /\ tool'.pc = "write" /\ tool'.target = tool.target
    BY <1>1, <2>1, ToolMoves DEF ToolPhases
  <2>3. tmp' \in [Required -> Files]
    BY <1>2, <2>1 DEF ModsInv
  <2> QED
    BY <1>0, <1>1, <2>2, <2>3, ToolFrame
<1>4. CASE WriteTmp
  <2>1. tmp' = [tmp EXCEPT ![tool.target] = Canonical(tool.target)] /\ tool' = [tool EXCEPT !.pc = "publish"]
    BY <1>4 DEF WriteTmp
  <2>2. tool' \in ToolStates /\ tool'.pc = "publish" /\ tool'.target = tool.target
    BY <1>1, <2>1, ToolMoves DEF ToolPhases
  <2>3. tmp' \in [Required -> Files] /\ tmp'[tool.target] = Canonical(tool.target)
    BY <1>1, <1>2, <2>1 DEF ModsInv
  <2> QED
    BY <1>0, <1>1, <2>2, <2>3, ToolFrame
<1> QED
  BY <1>3, <1>4

(* A write to or a removal of one name of the directory. *)
LEMMA DirectoryFrame ==
    ASSUME ModsInv, UNCHANGED <<launch, runtime>>, NEW name \in Names, NEW file \in Files,
           modsDir' = [modsDir EXCEPT ![name] = file],
           file = NoFile \/ (name \in Required /\ file = Canonical(name)),
           tool' \in ToolStates, tool'.pc \in {"idle", "next"}, tmp' \in [Required -> Files]
    PROVE  ModsInv'
<1>0. Foreign \in Names /\ Foreign \notin Required /\ Required \subseteq Names
  BY ModsAssumption DEF ModsConstants, Names
<1>1. modsDir' \in [Names -> Files]
  BY DEF ModsInv
<1>2. \A n \in Required : modsDir'[n] \in {NoFile, Canonical(n)}
  BY <1>0 DEF ModsInv
<1>3. ASSUME launch'.pc = "copy"
      PROVE  (ForeignGone \/ runtime \cup {StagedAs(n) : n \in launch.list} = Profile)'
  <2>1. CASE Foreign \in launch.list /\ modsDir'[Foreign] = NoFile
    BY <2>1 DEF ForeignGone
  <2>2. CASE Foreign \notin launch.list \/ modsDir'[Foreign] # NoFile
    <3>1. Foreign \in launch.list => modsDir'[Foreign] = modsDir[Foreign]
      BY <1>0, <2>2 DEF ModsInv
    <3>2. ~ForeignGone
      BY <2>2, <3>1 DEF ForeignGone
    <3>3. runtime \cup {StagedAs(n) : n \in launch.list} = Profile
      BY <1>3, <3>2 DEF ModsInv
    <3>4. \A n \in launch.list : (IF n = Foreign THEN modsDir'[Foreign] ELSE Canonical(n)) = StagedAs(n)
      BY <3>1 DEF StagedAs
    <3>5. {IF n = Foreign THEN modsDir'[Foreign] ELSE Canonical(n) : n \in launch.list}
            = {StagedAs(n) : n \in launch.list}
      BY <3>4
    <3> QED
      BY <3>3, <3>5 DEF StagedAs, Profile, Canonical
  <2> QED
    BY <2>1, <2>2
<1>4. RunsCanonicalMods'
  BY DEF ModsInv, RunsCanonicalMods, Canonical
<1> QED
  BY <1>1, <1>2, <1>3, <1>4 DEF ModsInv, Canonical

LEMMA ToolPublishes ==
    ASSUME ModsInv, PublishTmp \/ UnlinkJar
    PROVE  ModsInv'
<1>1. CASE PublishTmp
  <2>1. /\ tool.pc = "publish" /\ modsDir' = [modsDir EXCEPT ![tool.target] = tmp[tool.target]]
        /\ tmp' = [tmp EXCEPT ![tool.target] = NoFile] /\ tool' = Done /\ UNCHANGED <<launch, runtime>>
    BY <1>1 DEF PublishTmp
  <2>2. tool.target \in Required /\ tmp[tool.target] = Canonical(tool.target) /\ tool.target \in Names
    BY <2>1 DEF ModsInv, Names
  <2>3. Canonical(tool.target) \in Files /\ NoFile \in Files
    BY <2>2, CanonicalFile DEF Files
  <2>4. tmp' \in [Required -> Files]
    BY <2>1, <2>3 DEF ModsInv
  <2>5. modsDir' = [modsDir EXCEPT ![tool.target] = Canonical(tool.target)]
    BY <2>1, <2>2
  <2> QED
    BY <2>1, <2>2, <2>3, <2>4, <2>5, DoneTyped, DirectoryFrame
<1>2. CASE UnlinkJar
  <2>1. /\ modsDir' = [modsDir EXCEPT ![tool.target] = NoFile]
        /\ tool' = ToolIdle /\ UNCHANGED <<tmp, launch, runtime>>
    BY <1>2 DEF UnlinkJar
  <2>2. NoFile \in Files /\ tmp' \in [Required -> Files]
    BY <2>1 DEF ModsInv, Files
  <2>3. CASE tool.target \in Names
    BY <2>1, <2>2, <2>3, ToolIdleTyped, DirectoryFrame
  <2>4. CASE tool.target \notin Names
    <3>1. modsDir' = modsDir
      BY <2>1, <2>4 DEF ModsInv
    <3> QED
      BY <2>1, <2>2, <3>1, ToolIdleTyped, ToolFrame
  <2> QED
    BY <2>3, <2>4
<1> QED
  BY <1>1, <1>2

(* In a ready directory every required mod is there once, with the         *)
(* profile's bytes, and the names of the required mods make up the profile. *)
LEMMA ReadyIsProfile ==
    ASSUME ModsInv, evaluate_world_mods
    PROVE  {StagedAs(n) : n \in {m \in Installed : modsDir[m].id \in Required}} = Profile
<1> DEFINE L == {m \in Installed : modsDir[m].id \in Required}
<1>1. ASSUME NEW n \in L
      PROVE  modsDir[n] = Canonical(modsDir[n].id) /\ StagedAs(n) = modsDir[n]
  <2>1. n \in Names /\ modsDir[n] \in Jar /\ modsDir[n].id \in Required /\ n \in Installed
    BY DEF Installed, PresentNames, ModsInv, Files
  <2>2. PICK m \in Installed : modsDir[m].id = modsDir[n].id /\ modsDir[m].bytes = 1
    BY <2>1 DEF evaluate_world_mods, Mismatch
  <2>3. m = n /\ ~modsDir[n].client
    BY <2>1, <2>2 DEF evaluate_world_mods, DuplicateModId, ClientOnly
  <2>4. modsDir[n] = Canonical(modsDir[n].id)
    BY <2>1, <2>2, <2>3, JarIsCanonical
  <2>5. n # Foreign => modsDir[n] = Canonical(n)
    BY <2>1 DEF ModsInv, Names, Installed, PresentNames
  <2> QED
    BY <2>4, <2>5 DEF StagedAs
<1>2. ASSUME NEW id \in Required
      PROVE  \E n \in L : StagedAs(n) = Canonical(id)
  <2>1. PICK n \in Installed : modsDir[n].id = id
    BY DEF evaluate_world_mods, MissingRequired
  <2> QED
    BY <1>1, <2>1
<1>3. \A n \in L : StagedAs(n) \in Profile
  BY <1>1 DEF Profile
<1>4. \A f \in Profile : \E n \in L : StagedAs(n) = f
  BY <1>2 DEF Profile
<1> QED
  BY <1>3, <1>4

LEMMA LaunchSteps ==
    ASSUME ModsInv,
           \/ LaunchStarts \/ reset_runtime_directory \/ VerifyAgain \/ LaunchRuns
           \/ \E n \in Names : CopyMod(n)
    PROVE  ModsInv'
<1>0. UNCHANGED <<modsDir, tmp, tool>>
  BY DEF LaunchStarts, reset_runtime_directory, VerifyAgain, LaunchRuns, CopyMod
<1> SUFFICES /\ launch' \in LaunchStates
             /\ launch'.pc = "evaluate" => runtime' = {}
             /\ launch'.pc = "copy" =>
                  (ForeignGone \/ runtime \cup {StagedAs(n) : n \in launch.list} = Profile)'
             /\ RunsCanonicalMods'
  BY <1>0 DEF ModsInv, Canonical
<1>1. CASE launch' = LaunchIdle
  BY <1>1, ToolIdleTyped DEF RunsCanonicalMods
<1>2. CASE LaunchStarts
  <2>1. launch' \in LaunchStates /\ launch'.pc = "reset"
    BY <1>2, ToolIdleTyped DEF LaunchStarts, LaunchStates
  <2> QED
    BY <2>1 DEF RunsCanonicalMods
<1>3. CASE reset_runtime_directory
  <2>1. launch' \in LaunchStates /\ launch'.pc = "evaluate" /\ runtime' = {}
    BY <1>3 DEF reset_runtime_directory, LaunchStates, ModsInv
  <2> QED
    BY <2>1 DEF RunsCanonicalMods
<1>4. CASE VerifyAgain /\ launch' # LaunchIdle
  <2> DEFINE L == {n \in Installed : modsDir[n].id \in Required}
  <2>1. /\ evaluate_world_mods /\ launch.pc = "evaluate" /\ runtime' = runtime
        /\ launch' = [pc |-> "copy", list |-> L]
    BY <1>4 DEF VerifyAgain
  <2>2. {StagedAs(n) : n \in L} = Profile
    BY <2>1, ReadyIsProfile
  <2>3. runtime' = {}
    BY <2>1 DEF ModsInv
  <2>4. L \in SUBSET Names
    BY DEF Installed, PresentNames
  <2> HIDE DEF L
  <2>5. launch' \in LaunchStates /\ launch'.pc = "copy" /\ launch'.list = L
    BY <2>1, <2>4 DEF LaunchStates
  <2>6. (runtime \cup {StagedAs(n) : n \in launch.list} = Profile)'
    BY <1>0, <2>2, <2>3, <2>5 DEF StagedAs, Profile, Canonical
  <2> QED
    BY <2>5, <2>6 DEF RunsCanonicalMods
<1>5. CASE (\E n \in Names : CopyMod(n)) /\ launch' # LaunchIdle
  <2>1. PICK n \in launch.list :
          /\ launch.pc = "copy" /\ modsDir[n] # NoFile
          /\ runtime' = runtime \cup {modsDir[n]} /\ launch' = [launch EXCEPT !.list = launch.list \ {n}]
    BY <1>5 DEF CopyMod
  <2>2. /\ launch' \in LaunchStates /\ launch'.pc = "copy" /\ launch'.list = launch.list \ {n}
        /\ n \in Names
    BY <2>1 DEF ModsInv, LaunchStates
  <2>3. modsDir[n] = StagedAs(n)
    BY <2>1, <2>2 DEF StagedAs, ModsInv, Names
  <2>4. CASE ForeignGone
    <3>1. n # Foreign
      BY <2>1, <2>4 DEF ForeignGone
    <3>2. ForeignGone'
      BY <1>0, <2>2, <2>4, <3>1 DEF ForeignGone
    <3> QED
      BY <2>2, <3>2 DEF RunsCanonicalMods
  <2>5. CASE ~ForeignGone
    <3>1. runtime \cup {StagedAs(m) : m \in launch.list} = Profile
      BY <2>1, <2>5 DEF ModsInv
    <3>2. runtime' \cup {StagedAs(m) : m \in launch'.list} = Profile
      BY <2>1, <2>2, <2>3, <3>1
    <3>3. (runtime \cup {StagedAs(m) : m \in launch.list} = Profile)'
      BY <1>0, <3>2 DEF StagedAs, Profile, Canonical
    <3> QED
      BY <2>2, <3>3 DEF RunsCanonicalMods
  <2> QED
    BY <2>4, <2>5
<1>6. CASE LaunchRuns
  <2>1. /\ launch.pc = "copy" /\ launch.list = {} /\ runtime' = runtime
        /\ launch' = [LaunchIdle EXCEPT !.pc = "running"]
    BY <1>6 DEF LaunchRuns
  <2>2. launch' \in LaunchStates /\ launch'.pc = "running"
    BY <2>1, ToolIdleTyped DEF LaunchStates
  <2>3. runtime = Profile
    BY <2>1 DEF ModsInv, ForeignGone
  <2> QED
    BY <2>1, <2>2, <2>3 DEF RunsCanonicalMods, Profile, Canonical
<1> QED
  BY <1>1, <1>2, <1>3, <1>4, <1>5, <1>6

LEMMA ModsInvStep ==
    ASSUME ModsInv, [ModsNext]_modVars
    PROVE  ModsInv'
<1>1. CASE UNCHANGED modVars
  <2>1. UNCHANGED <<modsDir, tmp, tool, launch, runtime>>
    BY <1>1 DEF modVars
  <2>2. /\ tool' \in ToolStates /\ tmp' \in [Required -> Files]
        /\ tool'.pc \notin {"idle", "next", "remove"} => tool'.target \in Required
        /\ tool'.pc = "publish" => tmp'[tool'.target] = Canonical(tool'.target)
    BY <2>1 DEF ModsInv
  <2> QED
    BY <2>1, <2>2, ToolFrame
<1> QED
  BY <1>1, ToolStarts, ToolAcquires, ToolWrites, ToolPublishes, LaunchSteps DEF ModsNext

(* A running authority has loaded exactly the mods of the signed profile,  *)
(* for any profile, any file the player left behind and any number of tool  *)
(* runs beside the launches (install_verified_user_mods).                   *)
THEOREM RunsCanonicalModsCorrect == ModsSpec => []RunsCanonicalMods
<1>1. ModsInit => ModsInv
  BY ModsInvInit
<1>2. ModsInv /\ [ModsNext]_modVars => ModsInv'
  BY ModsInvStep
<1>3. ModsInv => RunsCanonicalMods
  BY DEF ModsInv
<1> QED
  BY <1>1, <1>2, <1>3, PTL DEF ModsSpec

-----------------------------------------------------------------------------
(* The installed runtime.                                                   *)

SetupStates == [pc : Phases, world : Worlds, force : BOOLEAN, inode : Nat, step : Nat, part : Content,
                kept : {0, 1}, got : [Artifacts -> Content]]

Fetching == {"check", "fetch", "exists", "preserve", "rename", "drop", "copy"}
Publishing == {"exists", "preserve", "rename", "drop"}

(* With the shared files m, the one of k is the published one, or away. *)
Clean(m, k) == k \in Pinned => m[k] # Bad

AllClean(m) == \A k \in Pinned : Clean(m, k)

(* What an installation has done by a phase: the pinned artifacts before   *)
(* the one in hand are clean, and so is that one once it is published.      *)
Sound(s, m) ==
    /\ s.pc \in Fetching =>
         /\ s.step \in 1..Len(ArtifactOrder)
         /\ \A i \in 1..(s.step - 1) : Clean(m, ArtifactOrder[i])
         /\ s.kept = 1 \/ s.pc = "drop" => Clean(m, ArtifactOrder[s.step])
         /\ ArtifactOrder[s.step] \in Pinned /\ s.kept = 0 /\ s.pc \in Publishing => s.part = Good
         /\ s.pc = "copy" => s.kept = 1
    /\ s.pc \in {"idle", "opened", "inspect", "check"} => s.kept = 0
    /\ \A k \in Pinned : s.got[k] \in {0, Good}
    /\ s.pc \in {"record", "write", "configure"} => AllClean(m)

(* A runtime lock holds only published hashes of pinned artifacts, and a   *)
(* world is configured only when every pinned file is clean.  No file gets  *)
(* other bytes afterwards: every installer publishes what it verified.      *)
SetupInv ==
    /\ managed \in [Artifacts -> Content] /\ lockfile \in [Worlds -> Nat] /\ inodes \in Nat
    /\ setup \in [Installers -> SetupStates]
    /\ record \in [Worlds -> [Artifacts -> Content]] /\ config \in [Worlds -> BOOLEAN]
    /\ \A p \in Installers : Sound(setup[p], managed)
    /\ \A w \in Worlds : config[w] => AllClean(managed)
    /\ \A w \in Worlds : \A k \in Pinned : record[w][k] \in {0, Good}

LEMMA ContentsDiffer ==
    0 # Good /\ 0 # Bad /\ Good # Bad /\ 0 # 1 /\ Good \in Content /\ 0 \in Content /\ 1 \in {0, 1}
  BY SMTT(30) DEF Good, Bad, Content

LEMMA SetupMoves ==
    ASSUME NEW s \in SetupStates, NEW next \in Phases, NEW file \in Content
    PROVE  LET t == [s EXCEPT !.pc = next]
               u == [s EXCEPT !.pc = next, !.part = file]
           IN  /\ t \in SetupStates /\ t.pc = next /\ t.step = s.step /\ t.part = s.part
               /\ t.kept = s.kept /\ t.got = s.got
               /\ u \in SetupStates /\ u.pc = next /\ u.step = s.step /\ u.part = file
               /\ u.kept = s.kept /\ u.got = s.got
  BY DEF SetupStates

LEMMA IdleTyped ==
    /\ InstallerIdle \in SetupStates /\ InstallerIdle.pc = "idle" /\ InstallerIdle.kept = 0
    /\ InstallerIdle.got = NoHashes
    /\ \A k \in Pinned : NoHashes[k] \in {0, Good}
    /\ NoHashes \in [Artifacts -> Content]
<1>1. PICK w \in Worlds : w = CHOOSE v \in Worlds : TRUE
  BY InstallAssumption DEF InstallConstants
<1>2. 0 \in Nat /\ 0 \in {0, 1} /\ FALSE \in BOOLEAN /\ "idle" \in Phases
  BY DEF Phases
<1>3. NoHashes \in [Artifacts -> Content] /\ \A k \in Pinned : NoHashes[k] \in {0, Good}
  BY ContentsDiffer, InstallAssumption DEF NoHashes, InstallConstants
<1> QED
  BY <1>1, <1>2, <1>3, ContentsDiffer DEF InstallerIdle, SetupStates

(* The shared files may change as long as the clean ones stay clean. *)
LEMMA SoundStays ==
    ASSUME NEW s \in SetupStates, NEW m, NEW n, Sound(s, m),
           \A k \in Pinned : Clean(m, k) => Clean(n, k)
    PROVE  Sound(s, n)
<1>1. AllClean(m) => AllClean(n)
  BY DEF AllClean
<1>2. \A k : Clean(m, k) => Clean(n, k)
  BY DEF Clean
<1> QED
  BY <1>1, <1>2 DEF Sound

LEMMA SetupFrame ==
    ASSUME SetupInv, NEW p \in Installers, NEW s \in SetupStates, setup' = [setup EXCEPT ![p] = s],
           managed' \in [Artifacts -> Content], lockfile' \in [Worlds -> Nat], inodes' \in Nat,
           record' \in [Worlds -> [Artifacts -> Content]], config' \in [Worlds -> BOOLEAN],
           \A k \in Pinned : Clean(managed, k) => Clean(managed', k),
           Sound(s, managed'),
           \A w \in Worlds : config'[w] => AllClean(managed'),
           \A w \in Worlds : \A k \in Pinned : record'[w][k] \in {0, Good}
    PROVE  SetupInv'
<1>1. setup' \in [Installers -> SetupStates]
  BY DEF SetupInv
<1>2. ASSUME NEW q \in Installers PROVE Sound(setup'[q], managed')
  <2>1. CASE q = p
    BY <2>1 DEF SetupInv
  <2>2. CASE q # p
    <3>1. setup'[q] = setup[q] /\ setup[q] \in SetupStates /\ Sound(setup[q], managed)
      BY <2>2 DEF SetupInv
    <3> QED
      BY <3>1, SoundStays
  <2> QED
    BY <2>1, <2>2
<1> QED
  BY <1>1, <1>2 DEF SetupInv

LEMMA SetupOnly ==
    ASSUME SetupInv, NEW p \in Installers, NEW s \in SetupStates, setup' = [setup EXCEPT ![p] = s],
           UNCHANGED <<managed, record, config>>, lockfile' \in [Worlds -> Nat], inodes' \in Nat,
           Sound(s, managed)
    PROVE  SetupInv'
<1>1. /\ managed' \in [Artifacts -> Content] /\ record' \in [Worlds -> [Artifacts -> Content]]
      /\ config' \in [Worlds -> BOOLEAN]
      /\ \A k \in Pinned : Clean(managed, k) => Clean(managed', k)
      /\ Sound(s, managed')
      /\ \A w \in Worlds : config'[w] => AllClean(managed')
      /\ \A w \in Worlds : \A k \in Pinned : record'[w][k] \in {0, Good}
  BY DEF SetupInv
<1> QED
  BY <1>1, SetupFrame

LEMMA GoOnIs ==
    ASSUME SetupInv, NEW p \in Installers, NEW next \in Phases, GoOn(p, next)
    PROVE  \E s \in SetupStates :
             /\ setup' = [setup EXCEPT ![p] = s] /\ s.pc = next /\ s.step = setup[p].step
             /\ s.part = setup[p].part /\ s.kept = setup[p].kept /\ s.got = setup[p].got
<1>1. setup[p] \in SetupStates /\ 0 \in Content
  BY ContentsDiffer DEF SetupInv
<1>2. setup' = [setup EXCEPT ![p] = [setup[p] EXCEPT !.pc = next]]
  BY DEF GoOn
<1> QED
  BY <1>1, <1>2, SetupMoves

LEMMA SetupLocks ==
    ASSUME SetupInv, NEW p \in Installers,
           \/ \E w \in Worlds, force \in BOOLEAN : Open(p, w, force)
           \/ \E w \in Worlds : VerifyRuntime(p, w)
           \/ TryLock(p) \/ UnlockFile(p) \/ UnlinkLockFile(p) \/ InstallerKilled(p)
           \/ record_runtime_verified(p)
    PROVE  SetupInv'
<1>0. /\ UNCHANGED <<managed, record, config>>
      /\ setup[p] \in SetupStates /\ Sound(setup[p], managed)
  BY DEF SetupInv, Open, VerifyRuntime, TryLock, UnlockFile, UnlinkLockFile, InstallerKilled,
         record_runtime_verified
<1>1. CASE \E w \in Worlds, force \in BOOLEAN : Open(p, w, force)
  <2>1. PICK w \in Worlds, force \in BOOLEAN : Open(p, w, force)
    BY <1>1
  <2> DEFINE i == IF lockfile[w] = 0 THEN inodes + 1 ELSE lockfile[w]
  <2>2. i \in Nat /\ inodes + 1 \in Nat /\ lockfile[w] \in Nat
    BY SMTT(30) DEF SetupInv
  <2>3. lockfile' = [lockfile EXCEPT ![w] = i] /\ inodes' \in {inodes, inodes + 1}
    BY <2>1 DEF Open
  <2> HIDE DEF i
  <2>4. lockfile' \in [Worlds -> Nat] /\ inodes' \in Nat /\ lockfile'[w] = i
    BY <2>2, <2>3 DEF SetupInv
  <2> DEFINE s == [InstallerIdle EXCEPT !.pc = "opened", !.world = w, !.force = force, !.inode = i]
  <2>5. setup' = [setup EXCEPT ![p] = s]
    BY <2>1, <2>4 DEF Open
  <2>6. s \in SetupStates /\ s.pc = "opened" /\ s.kept = 0 /\ s.got = NoHashes
    BY <2>2, IdleTyped DEF SetupStates, Phases
  <2> HIDE DEF s
  <2>7. Sound(s, managed)
    BY <2>6, IdleTyped DEF Sound, Fetching
  <2> QED
    BY <1>0, <2>4, <2>5, <2>6, <2>7, SetupOnly
<1>2. CASE \E w \in Worlds : VerifyRuntime(p, w)
  <2>1. PICK w \in Worlds : VerifyRuntime(p, w)
    BY <1>2
  <2> DEFINE s == [InstallerIdle EXCEPT !.pc = "prove", !.world = w]
  <2>2. setup' = [setup EXCEPT ![p] = s] /\ UNCHANGED <<lockfile, inodes>>
    BY <2>1 DEF VerifyRuntime
  <2>3. s \in SetupStates /\ s.pc = "prove" /\ s.got = NoHashes
    BY IdleTyped DEF SetupStates, Phases
  <2> HIDE DEF s
  <2>4. Sound(s, managed)
    BY <2>3, IdleTyped DEF Sound, Fetching
  <2>5. lockfile' \in [Worlds -> Nat] /\ inodes' \in Nat
    BY <2>2 DEF SetupInv
  <2> QED
    BY <1>0, <2>2, <2>3, <2>4, <2>5, SetupOnly
<1>3. ASSUME setup' = [setup EXCEPT ![p] = InstallerIdle],
             lockfile' \in [Worlds -> Nat], inodes' \in Nat
      PROVE  SetupInv'
  <2>1. Sound(InstallerIdle, managed)
    BY IdleTyped DEF Sound, Fetching
  <2> QED
    BY <1>0, <1>3, <2>1, IdleTyped, SetupOnly
<1>4. CASE UnlinkLockFile(p) \/ InstallerKilled(p) \/ record_runtime_verified(p)
  <2>1. setup' = [setup EXCEPT ![p] = InstallerIdle] /\ inodes' = inodes
    BY <1>4 DEF UnlinkLockFile, InstallerKilled, record_runtime_verified
  <2>2. lockfile' \in [Worlds -> Nat]
    <3>1. 0 \in Nat
      OBVIOUS
    <3> QED
      BY <1>4, <3>1 DEF UnlinkLockFile, InstallerKilled, record_runtime_verified, SetupInv
  <2> QED
    BY <1>3, <2>1, <2>2 DEF SetupInv
<1>5. CASE TryLock(p) \/ UnlockFile(p)
  <2>1. lockfile' \in [Worlds -> Nat] /\ inodes' \in Nat
    BY <1>5 DEF TryLock, UnlockFile, SetupInv
  <2>2. \/ setup' = [setup EXCEPT ![p] = InstallerIdle]
        \/ setup[p].pc = "opened" /\ GoOn(p, "inspect")
        \/ GoOn(p, "unlink")
    BY <1>5 DEF TryLock, UnlockFile
  <2>3. ASSUME setup[p].pc = "opened", GoOn(p, "inspect")
        PROVE  SetupInv'
    <3>1. PICK s \in SetupStates : /\ setup' = [setup EXCEPT ![p] = s] /\ s.pc = "inspect"
                                   /\ s.kept = setup[p].kept /\ s.got = setup[p].got
      <4>1. "inspect" \in Phases
        BY DEF Phases
      <4> QED
        BY <2>3, <4>1, GoOnIs
    <3>2. Sound(s, managed)
      <4>1. s.kept = 0 /\ \A k \in Pinned : s.got[k] \in {0, Good}
        BY <1>0, <2>3, <3>1 DEF Sound
      <4> QED
        BY <3>1, <4>1 DEF Sound, Fetching
    <3> QED
      BY <1>0, <2>1, <3>1, <3>2, SetupOnly
  <2>4. ASSUME GoOn(p, "unlink")
        PROVE  SetupInv'
    <3>1. PICK s \in SetupStates : setup' = [setup EXCEPT ![p] = s] /\ s.pc = "unlink" /\ s.got = setup[p].got
      <4>1. "unlink" \in Phases
        BY DEF Phases
      <4> QED
        BY <2>4, <4>1, GoOnIs
    <3>2. Sound(s, managed)
      <4>1. \A k \in Pinned : s.got[k] \in {0, Good}
        BY <1>0, <3>1 DEF Sound
      <4> QED
        BY <3>1, <4>1 DEF Sound, Fetching
    <3> QED
      BY <1>0, <2>1, <3>1, <3>2, SetupOnly
  <2> QED
    BY <1>3, <2>1, <2>2, <2>3, <2>4
<1> QED
  BY <1>1, <1>2, <1>4, <1>5

(* Going on to the next artifact once the one in hand is clean. *)
LEMMA ProceedSound ==
    ASSUME SetupInv, NEW p \in Installers, NEW hash \in Content, setup[p].pc \in Fetching,
           Proceed(p, hash), UNCHANGED <<managed, record, config, lockfile, inodes>>,
           Clean(managed, Kind(p)),
           Kind(p) \in Pinned /\ setup[p].kept = 0 => hash = Good
    PROVE  SetupInv'
<1> DEFINE o == setup[p]
           got == IF o.kept = 0 THEN [o.got EXCEPT ![Kind(p)] = hash] ELSE o.got
           copies == [o EXCEPT !.pc = "copy", !.kept = 1, !.part = 0, !.got = got]
           next == [o EXCEPT !.pc = "check", !.step = o.step + 1, !.kept = 0, !.part = 0, !.got = got]
           last == [o EXCEPT !.pc = "record", !.kept = 0, !.part = 0, !.got = got]
<1>0. o \in SetupStates /\ Sound(o, managed)
  BY DEF SetupInv
<1>1. /\ o.step \in 1..Len(ArtifactOrder) /\ Len(ArtifactOrder) \in Nat /\ o.step + 1 \in Nat
      /\ o.step \in Nat
  <2>1. o.step \in 1..Len(ArtifactOrder) /\ Len(ArtifactOrder) \in Nat
    BY <1>0, InstallAssumption DEF Sound, InstallConstants
  <2> QED
    BY <2>1, SMTT(30)
<1>2. Kind(p) = ArtifactOrder[o.step]
  BY DEF Kind
<1>3. got \in [Artifacts -> Content] /\ \A k \in Pinned : got[k] \in {0, Good}
  <2>1. o.got \in [Artifacts -> Content] /\ \A k \in Pinned : o.got[k] \in {0, Good}
    BY <1>0 DEF SetupStates, Sound
  <2>2. Pinned \subseteq Artifacts
    BY InstallAssumption DEF InstallConstants
  <2> QED
    BY <2>1, <2>2
<1>4. \A i \in 1..o.step : Clean(managed, ArtifactOrder[i])
  <2>1. \A i \in 1..(o.step - 1) : Clean(managed, ArtifactOrder[i])
    BY <1>0 DEF Sound
  <2>2. \A i \in 1..o.step : i = o.step \/ i \in 1..(o.step - 1)
    BY <1>1, SMTT(30)
  <2> QED
    BY <1>2, <2>1, <2>2
<1>5. /\ lockfile' \in [Worlds -> Nat] /\ inodes' \in Nat
  BY DEF SetupInv
<1>6. setup' = [setup EXCEPT ![p] = IF o.kept = 0 /\ Kind(p) \in Staged THEN copies
                                     ELSE IF o.step < Len(ArtifactOrder) THEN next ELSE last]
  BY DEF Proceed
<1>7. ~(o.step < Len(ArtifactOrder)) => o.step = Len(ArtifactOrder)
  BY <1>1, SMTT(30)
<1> HIDE DEF got
<1>8. ASSUME setup' = [setup EXCEPT ![p] = copies]
      PROVE  SetupInv'
  <2>1. copies \in SetupStates /\ copies.pc = "copy" /\ copies.step = o.step /\ copies.got = got
        /\ copies.kept = 1
    BY <1>0, <1>3, ContentsDiffer DEF SetupStates, Phases
  <2>2. \A i \in 1..(o.step - 1) : Clean(managed, ArtifactOrder[i])
    BY <1>0 DEF Sound
  <2> HIDE DEF copies
  <2>3. Sound(copies, managed)
    BY <1>1, <1>2, <1>3, <2>1, <2>2 DEF Sound, Publishing
  <2> QED
    BY <1>5, <1>8, <2>1, <2>3, SetupOnly
<1>9. ASSUME o.step < Len(ArtifactOrder), setup' = [setup EXCEPT ![p] = next]
      PROVE  SetupInv'
  <2>1. next \in SetupStates /\ next.pc = "check" /\ next.step = o.step + 1 /\ next.got = got /\ next.kept = 0
    BY <1>0, <1>1, <1>3, ContentsDiffer DEF SetupStates, Phases
  <2>2. o.step + 1 \in 1..Len(ArtifactOrder) /\ (o.step + 1) - 1 = o.step
    BY <1>1, <1>9, SMTT(30)
  <2> HIDE DEF next
  <2>3. Sound(next, managed)
    BY <1>3, <1>4, <2>1, <2>2, ContentsDiffer DEF Sound, Publishing
  <2> QED
    BY <1>5, <1>9, <2>1, <2>3, SetupOnly
<1>10. ASSUME o.step = Len(ArtifactOrder), setup' = [setup EXCEPT ![p] = last]
       PROVE  SetupInv'
  <2>1. last \in SetupStates /\ last.pc = "record" /\ last.got = got
    BY <1>0, <1>3, ContentsDiffer DEF SetupStates, Phases
  <2> HIDE DEF last
  <2>2. AllClean(managed)
    BY <1>4, <1>10, InstallAssumption DEF AllClean, InstallConstants, Artifacts
  <2>3. Sound(last, managed)
    BY <1>3, <2>1, <2>2 DEF Sound, Fetching
  <2> QED
    BY <1>5, <1>10, <2>1, <2>3, SetupOnly
<1> QED
  BY <1>6, <1>7, <1>8, <1>9, <1>10

(* A step that only moves the installer on. *)
LEMMA SetupAdvances ==
    ASSUME SetupInv, NEW p \in Installers, NEW next \in Phases, NEW file \in Content,
           UNCHANGED <<managed, record, config, lockfile, inodes>>,
           LET t == [setup[p] EXCEPT !.pc = next]
               u == [setup[p] EXCEPT !.pc = next, !.part = file]
           IN  \/ setup' = [setup EXCEPT ![p] = t] /\ file = setup[p].part
               \/ setup' = [setup EXCEPT ![p] = u],
           \/ next = "unlock"
           \/ setup[p].pc \in Fetching /\ next = "fetch"
           \/ setup[p].pc \in Fetching /\ next \in {"exists", "preserve", "rename"}
              /\ (ArtifactOrder[setup[p].step] \in Pinned /\ setup[p].kept = 0 => file = Good)
    PROVE  SetupInv'
<1>0. setup[p] \in SetupStates /\ Sound(setup[p], managed)
  BY DEF SetupInv
<1>1. PICK s \in SetupStates :
        /\ setup' = [setup EXCEPT ![p] = s] /\ s.pc = next /\ s.step = setup[p].step
        /\ s.part = file /\ s.kept = setup[p].kept /\ s.got = setup[p].got
  <2>1. LET t == [setup[p] EXCEPT !.pc = next]
            u == [setup[p] EXCEPT !.pc = next, !.part = file]
        IN  /\ t \in SetupStates /\ t.pc = next /\ t.step = setup[p].step /\ t.part = setup[p].part
            /\ t.kept = setup[p].kept /\ t.got = setup[p].got
            /\ u \in SetupStates /\ u.pc = next /\ u.step = setup[p].step /\ u.part = file
            /\ u.kept = setup[p].kept /\ u.got = setup[p].got
    BY <1>0 DEF SetupStates
  <2> QED
    BY <2>1
<1>2. CASE next = "unlock"
  <2>1. Sound(s, managed)
    BY <1>0, <1>1, <1>2 DEF Sound, Fetching
  <2> QED
    BY <1>1, <2>1, SetupOnly DEF SetupInv
<1>3. CASE setup[p].pc \in Fetching /\ next = "fetch"
  <2>1. Sound(s, managed)
    BY <1>0, <1>1, <1>3 DEF Sound, Fetching, Publishing
  <2> QED
    BY <1>1, <2>1, SetupOnly DEF SetupInv
<1>4. CASE /\ setup[p].pc \in Fetching /\ next \in {"exists", "preserve", "rename"}
           /\ ArtifactOrder[setup[p].step] \in Pinned /\ setup[p].kept = 0 => file = Good
  <2>1. s.pc \in Fetching /\ s.pc # "drop" /\ s.pc \notin {"idle", "opened", "inspect", "check"}
        /\ s.pc \notin {"record", "write", "configure"}
    BY <1>1, <1>4 DEF Fetching
  <2>2. Sound(s, managed)
    BY <1>0, <1>1, <1>4, <2>1 DEF Sound
  <2> QED
    BY <1>1, <2>2, SetupOnly DEF SetupInv
<1> QED
  BY <1>2, <1>3, <1>4

LEMMA SetupFetches ==
    ASSUME SetupInv, NEW p \in Installers,
           Refetch(p) \/ Fetch(p) \/ FetchJava(p) \/ Copy(p) \/ Exists(p)
    PROVE  SetupInv'
<1>0. /\ UNCHANGED <<managed, record, config, lockfile, inodes>>
      /\ setup[p].pc \in {"check", "fetch", "copy", "exists"}
  BY DEF Refetch, Fetch, FetchJava, Copy, Exists
<1>1. /\ setup[p] \in SetupStates /\ Sound(setup[p], managed) /\ setup[p].pc \in Fetching
      /\ setup[p].part \in Content /\ Kind(p) = ArtifactOrder[setup[p].step]
  BY <1>0 DEF SetupInv, SetupStates, Fetching, Kind
<1>2. "unlock" \in Phases /\ "fetch" \in Phases /\ "exists" \in Phases /\ "preserve" \in Phases
      /\ "rename" \in Phases
  BY DEF Phases
<1>3. ASSUME NEW next \in {"fetch", "unlock"}, GoOn(p, next)
      PROVE  SetupInv'
  <2>1. setup' = [setup EXCEPT ![p] = [setup[p] EXCEPT !.pc = next]] /\ next \in Phases
    BY <1>2, <1>3 DEF GoOn
  <2> QED
    BY <1>0, <1>1, <2>1, SetupAdvances
<1>4. ASSUME NEW file \in Content, ArtifactOrder[setup[p].step] \in Pinned /\ setup[p].kept = 0 => file = Good,
             setup' = [setup EXCEPT ![p].pc = "exists", ![p].part = file]
      PROVE  SetupInv'
  <2>1. setup' = [setup EXCEPT ![p] = [setup[p] EXCEPT !.pc = "exists", !.part = file]]
    BY <1>1, <1>4 DEF SetupInv
  <2> QED
    BY <1>0, <1>1, <1>2, <1>4, <2>1, SetupAdvances
<1>5. CASE Refetch(p)
  BY <1>3, <1>5 DEF Refetch
<1>6. CASE Fetch(p)
  <2>1. PICK served \in Content :
          \/ GoOn(p, "unlock")
          \/ /\ Kind(p) \in Pinned => served = Good
             /\ setup' = [setup EXCEPT ![p].pc = "exists", ![p].part = served]
    BY <1>6 DEF Fetch
  <2> QED
    BY <1>1, <1>3, <1>4, <2>1
<1>7. CASE FetchJava(p)
  <2>1. \/ setup' = [setup EXCEPT ![p].pc = "exists", ![p].part = Good]
        \/ setup' = [setup EXCEPT ![p].pc = "unlock"]
    BY <1>7 DEF FetchJava
  <2> QED
    BY <1>3, <1>4, <2>1, ContentsDiffer DEF GoOn
<1>8. CASE Copy(p)
  <2>1. \/ GoOn(p, "unlock")
        \/ setup' = [setup EXCEPT ![p].pc = "exists", ![p].part = managed[Kind(p)]]
    BY <1>8 DEF Copy
  <2>2. managed[Kind(p)] \in Content
    BY <1>1 DEF Sound, SetupInv, Artifacts
  <2>3. setup[p].kept = 1
    BY <1>1, <1>8 DEF Copy, Sound
  <2> QED
    BY <1>3, <1>4, <2>1, <2>2, <2>3, ContentsDiffer
<1>9. CASE Exists(p)
  <2>1. PICK next \in {"rename", "preserve"} : GoOn(p, next)
    BY <1>9 DEF Exists
  <2>2. setup' = [setup EXCEPT ![p] = [setup[p] EXCEPT !.pc = next]]
    BY <2>1 DEF GoOn
  <2>3. ArtifactOrder[setup[p].step] \in Pinned /\ setup[p].kept = 0 => setup[p].part = Good
    BY <1>1, <1>9 DEF Exists, Sound, Fetching, Publishing
  <2> QED
    BY <1>0, <1>1, <1>2, <2>1, <2>2, <2>3, SetupAdvances
<1> QED
  BY <1>5, <1>6, <1>7, <1>8, <1>9

LEMMA SetupInspects ==
    ASSUME SetupInv, NEW p \in Installers, InspectFirst(p)
    PROVE  SetupInv'
<1> DEFINE w == setup[p].world
<1>0. /\ UNCHANGED <<managed, record, config, lockfile, inodes>> /\ setup[p].pc = "inspect"
      /\ setup[p] \in SetupStates /\ Sound(setup[p], managed) /\ setup[p].part \in Content /\ w \in Worlds
  BY DEF InspectFirst, SetupInv, SetupStates
<1>1. \/ setup' = [setup EXCEPT ![p] = [setup[p] EXCEPT !.pc = "configure"]] /\ ComponentsReady(w) /\ ~config[w]
      \/ setup' = [setup EXCEPT ![p] = [setup[p] EXCEPT !.pc = "check", !.step = 1]]
      \/ setup' = [setup EXCEPT ![p] = [setup[p] EXCEPT !.pc = "unlock"]]
  BY DEF InspectFirst
<1>2. lockfile' \in [Worlds -> Nat] /\ inodes' \in Nat
  BY <1>0 DEF SetupInv
<1>3. ASSUME setup' = [setup EXCEPT ![p] = [setup[p] EXCEPT !.pc = "unlock"]]
      PROVE  SetupInv'
  <2>1. "unlock" \in Phases
    BY DEF Phases
  <2> QED
    BY <1>0, <1>3, <2>1, SetupAdvances
<1>4. ASSUME setup' = [setup EXCEPT ![p] = [setup[p] EXCEPT !.pc = "check", !.step = 1]]
      PROVE  SetupInv'
  <2> DEFINE s == [setup[p] EXCEPT !.pc = "check", !.step = 1]
  <2>1. 1 \in Nat /\ 1 \in 1..Len(ArtifactOrder) /\ \A i \in 1..(1 - 1) : FALSE
    BY InstallAssumption, SMTT(30) DEF InstallConstants
  <2>2. s \in SetupStates /\ s.pc = "check" /\ s.step = 1 /\ s.kept = setup[p].kept /\ s.got = setup[p].got
    BY <1>0, <2>1 DEF SetupStates, Phases
  <2>3. s.kept = 0 /\ \A k \in Pinned : s.got[k] \in {0, Good}
    BY <1>0, <2>2 DEF Sound
  <2> HIDE DEF s
  <2>4. Sound(s, managed)
    BY <2>1, <2>2, <2>3, ContentsDiffer DEF Sound, Publishing
  <2> QED
    BY <1>0, <1>2, <1>4, <2>2, <2>4, SetupOnly DEF s
<1>5. ASSUME ComponentsReady(w), ~config[w],
             setup' = [setup EXCEPT ![p] = [setup[p] EXCEPT !.pc = "configure"]]
      PROVE  SetupInv'
  <2> DEFINE s == [setup[p] EXCEPT !.pc = "configure"]
  <2>1. \A k \in Artifacts : artifact_status(w, k)
    BY <1>5 DEF ComponentsReady, Manual
  <2>2. \A k \in Pinned : k \in Artifacts
    BY InstallAssumption DEF InstallConstants
  <2>3. AllClean(managed)
    BY <1>0, <2>1, <2>2, ContentsDiffer DEF AllClean, Clean, artifact_status, SetupInv
  <2>4. s \in SetupStates /\ s.pc = "configure" /\ s.got = setup[p].got
    BY <1>0 DEF SetupStates, Phases
  <2> HIDE DEF s
  <2>5. Sound(s, managed)
    BY <1>0, <2>3, <2>4 DEF Sound, Fetching
  <2> QED
    BY <1>0, <1>2, <1>5, <2>4, <2>5, SetupOnly DEF s
<1> QED
  BY <1>1, <1>3, <1>4, <1>5

LEMMA SetupReuses ==
    ASSUME SetupInv, NEW p \in Installers, Reuse(p) \/ ReuseJava(p) \/ DropBackup(p)
    PROVE  SetupInv'
<1>0. /\ UNCHANGED <<managed, record, config, lockfile, inodes>> /\ setup[p].pc \in {"check", "drop"}
      /\ setup[p] \in SetupStates /\ Sound(setup[p], managed)
  BY DEF Reuse, ReuseJava, DropBackup, SetupInv
<1>1. setup[p].pc \in Fetching /\ Kind(p) = ArtifactOrder[setup[p].step]
  BY <1>0 DEF Fetching, Kind
<1>2. Kind(p) \in Artifacts
  BY <1>0, <1>1 DEF Sound, Artifacts
<1>3. managed[Kind(p)] \in Content
  BY <1>2 DEF SetupInv
<1>4. CASE Reuse(p)
  <2>1. Proceed(p, managed[Kind(p)]) /\ (Kind(p) \in Pinned => managed[Kind(p)] = Good)
    BY <1>4 DEF Reuse
  <2>2. Clean(managed, Kind(p))
    BY <2>1, ContentsDiffer DEF Clean
  <2> QED
    BY <1>0, <1>1, <1>3, <2>1, <2>2, ProceedSound
<1>5. CASE ReuseJava(p)
  <2>1. Proceed(p, Good) /\ managed[Kind(p)] = Good /\ Good \in Content
    BY <1>5, ContentsDiffer DEF ReuseJava
  <2>2. Clean(managed, Kind(p))
    BY <2>1, ContentsDiffer DEF Clean
  <2> QED
    BY <1>0, <1>1, <2>1, <2>2, ProceedSound
<1>6. CASE DropBackup(p)
  <2>1. Proceed(p, setup[p].part) /\ setup[p].pc = "drop" /\ setup[p].part \in Content
    BY <1>0, <1>6 DEF DropBackup, SetupStates
  <2>2. Clean(managed, Kind(p)) /\ (Kind(p) \in Pinned /\ setup[p].kept = 0 => setup[p].part = Good)
    BY <1>0, <1>1, <2>1 DEF Sound, Publishing
  <2> QED
    BY <1>0, <1>1, <2>1, <2>2, ProceedSound
<1> QED
  BY <1>4, <1>5, <1>6

LEMMA PutTarget ==
    ASSUME SetupInv, NEW p \in Installers, NEW file \in Content, Put(Target(p), file)
    PROVE  /\ setup[p].kept = 0 => managed' = [managed EXCEPT ![Kind(p)] = file]
           /\ setup[p].kept # 0 => managed' = managed
<1>1. /\ setup[p].kept = 0 => Target(p)[1] = "managed" /\ Target(p)[2] = Kind(p)
      /\ setup[p].kept # 0 => Target(p)[1] = "staged"
  BY SMTT(30) DEF Target
<1>2. "staged" # "managed"
  OBVIOUS
<1> QED
  BY <1>1, <1>2 DEF Put

LEMMA SetupRenames ==
    ASSUME SetupInv, NEW p \in Installers, Preserve(p) \/ Rename(p)
    PROVE  SetupInv'
<1>0. /\ UNCHANGED <<record, config, lockfile, inodes>> /\ setup[p].pc \in {"preserve", "rename"}
      /\ setup[p] \in SetupStates /\ Sound(setup[p], managed) /\ setup[p].part \in Content
  BY DEF Preserve, Rename, SetupInv, SetupStates
<1>1. /\ setup[p].pc \in Fetching /\ setup[p].pc \in Publishing /\ Kind(p) = ArtifactOrder[setup[p].step]
      /\ Kind(p) \in Pinned /\ setup[p].kept = 0 => setup[p].part = Good
  BY <1>0 DEF Sound, Fetching, Publishing, Kind
<1>2. CASE GoOn(p, "unlock") /\ UNCHANGED managed
  <2>1. setup' = [setup EXCEPT ![p] = [setup[p] EXCEPT !.pc = "unlock"]] /\ "unlock" \in Phases
    BY <1>2 DEF GoOn, Phases
  <2> QED
    BY <1>0, <1>2, <2>1, SetupAdvances
<1>3. ASSUME NEW file \in Content, Put(Target(p), file),
             Kind(p) \in Pinned /\ setup[p].kept = 0 => file # Bad,
             NEW next \in {"rename", "drop"}, GoOn(p, next),
             next = "drop" => file = setup[p].part
      PROVE  SetupInv'
  <2>0. next \in Phases
    BY DEF Phases
  <2>1. PICK s \in SetupStates :
          /\ setup' = [setup EXCEPT ![p] = s] /\ s.pc = next /\ s.step = setup[p].step
          /\ s.part = setup[p].part /\ s.kept = setup[p].kept /\ s.got = setup[p].got
    BY <1>3, <2>0, GoOnIs
  <2>2. /\ setup[p].kept = 0 => managed' = [managed EXCEPT ![Kind(p)] = file]
        /\ setup[p].kept # 0 => managed' = managed
    BY <1>3, PutTarget
  <2>3. managed \in [Artifacts -> Content] /\ managed' \in [Artifacts -> Content]
    BY <1>3, <2>2 DEF SetupInv
  <2>4. \A k \in Pinned : Clean(managed, k) => Clean(managed', k)
    <3>1. Pinned \subseteq Artifacts
      BY InstallAssumption DEF InstallConstants
    <3> QED
      BY <1>3, <2>2, <2>3, <3>1 DEF Clean
  <2>5. Sound(setup[p], managed')
    BY <1>0, <2>4, SoundStays
  <2>6. Clean(managed', Kind(p))
    <3>1. Kind(p) \in Artifacts
      BY <1>0, <1>1 DEF Sound, Artifacts
    <3>2. CASE setup[p].kept = 0
      BY <1>3, <2>2, <2>3, <3>1, <3>2 DEF Clean
    <3>3. CASE setup[p].kept # 0
      <4>1. setup[p].kept = 1
        BY <1>0, <3>3 DEF SetupStates
      <4> QED
        BY <1>1, <2>5, <4>1 DEF Sound
    <3> QED
      BY <3>2, <3>3
  <2>7. s.pc \in Fetching /\ s.pc # "copy" /\ s.pc \notin {"idle", "opened", "inspect", "check"}
        /\ s.pc \notin {"record", "write", "configure"}
    BY <2>1 DEF Fetching
  <2>8. Sound(s, managed')
    BY <1>1, <2>1, <2>5, <2>6, <2>7 DEF Sound
  <2>9. /\ lockfile' \in [Worlds -> Nat] /\ inodes' \in Nat
        /\ record' \in [Worlds -> [Artifacts -> Content]] /\ config' \in [Worlds -> BOOLEAN]
        /\ \A w \in Worlds : \A k \in Pinned : record'[w][k] \in {0, Good}
    BY <1>0 DEF SetupInv
  <2>10. \A w \in Worlds : config'[w] => AllClean(managed')
    BY <1>0, <2>4 DEF SetupInv, AllClean
  <2> QED
    BY <2>1, <2>3, <2>4, <2>8, <2>9, <2>10, SetupFrame
<1>4. CASE Preserve(p)
  BY <1>2, <1>3, <1>4, ContentsDiffer DEF Preserve
<1>5. CASE Rename(p)
  <2>1. Put(Target(p), setup[p].part) /\ GoOn(p, "drop")
    BY <1>5 DEF Rename
  <2> QED
    BY <1>0, <1>1, <1>3, <2>1, ContentsDiffer
<1> QED
  BY <1>4, <1>5

LEMMA SetupRecords ==
    ASSUME SetupInv, NEW p \in Installers, PreserveRecord(p) \/ WriteRecord(p) \/ save_launch_config(p)
    PROVE  SetupInv'
<1> DEFINE w == setup[p].world
<1>0. /\ UNCHANGED <<managed, lockfile, inodes>> /\ setup[p].pc \in {"record", "write", "configure"}
      /\ setup[p] \in SetupStates /\ Sound(setup[p], managed) /\ setup[p].got \in [Artifacts -> Content]
  BY DEF PreserveRecord, WriteRecord, save_launch_config, SetupInv, SetupStates
<1>1. AllClean(managed) /\ \A k \in Pinned : setup[p].got[k] \in {0, Good}
  BY <1>0 DEF Sound
<1>2. /\ record' \in [Worlds -> [Artifacts -> Content]]
      /\ \A v \in Worlds : \A k \in Pinned : record'[v][k] \in {0, Good}
  <2>1. \/ record' = [record EXCEPT ![w] = NoHashes] \/ record' = [record EXCEPT ![w] = setup[p].got]
        \/ record' = record
    BY DEF PreserveRecord, WriteRecord, save_launch_config
  <2> QED
    BY <1>0, <1>1, <2>1, IdleTyped DEF SetupInv
<1>3. config' \in [Worlds -> BOOLEAN]
  <2>1. TRUE \in BOOLEAN
    OBVIOUS
  <2> QED
    BY <2>1 DEF PreserveRecord, WriteRecord, save_launch_config, SetupInv
<1>4. PICK next \in {"write", "configure", "unlock"} : GoOn(p, next)
  BY DEF PreserveRecord, WriteRecord, save_launch_config
<1>5. next \in Phases
  BY <1>4 DEF Phases
<1>6. PICK s \in SetupStates : setup' = [setup EXCEPT ![p] = s] /\ s.pc = next /\ s.got = setup[p].got
  BY <1>4, <1>5, GoOnIs
<1>7. Sound(s, managed')
  BY <1>0, <1>1, <1>4, <1>6 DEF Sound, Fetching
<1>8. /\ managed' \in [Artifacts -> Content] /\ lockfile' \in [Worlds -> Nat] /\ inodes' \in Nat
      /\ \A k \in Pinned : Clean(managed, k) => Clean(managed', k)
      /\ \A v \in Worlds : config'[v] => AllClean(managed')
  BY <1>0, <1>1 DEF SetupInv
<1> QED
  BY <1>2, <1>3, <1>6, <1>7, <1>8, SetupFrame

LEMMA SetupInvStep ==
    ASSUME SetupInv, [InstallNext]_installVars
    PROVE  SetupInv'
<1>1. CASE UNCHANGED installVars
  BY <1>1 DEF installVars, SetupInv
<1> QED
  BY <1>1, SetupLocks, SetupInspects, SetupReuses, SetupFetches, SetupRenames, SetupRecords
  DEF InstallNext

LEMMA SetupInvInit ==
    ASSUME InstallInit
    PROVE  SetupInv
<1>1. Sound(InstallerIdle, managed)
  BY IdleTyped DEF Sound, Fetching
<1>2. 0 \in Nat /\ FALSE \in BOOLEAN
  OBVIOUS
<1> QED
  BY <1>1, <1>2, IdleTyped DEF InstallInit, SetupInv

(* A world that is reported ready launches pinned artifacts with the       *)
(* published bytes, for any plan of artifacts, any number of worlds,        *)
(* installers, lock files and kills, and although the lock that is meant to *)
(* keep a second installer out does not (install_artifact, inspect).        *)
THEOREM ReadyIsPublishedCorrect == InstallSpec => []ReadyIsPublished
<1>1. InstallInit => SetupInv
  BY SetupInvInit
<1>2. SetupInv /\ [InstallNext]_installVars => SetupInv'
  BY SetupInvStep
<1>3. SetupInv => ReadyIsPublished
  <2> SUFFICES ASSUME SetupInv, NEW w \in Worlds,
                      (config[w] /\ ComponentsReady(w)) \/ local_runtime_readiness(w),
                      NEW k \in Launched \cap Pinned
               PROVE  managed[k] = Good
    BY DEF ReadyIsPublished
  <2>1. Launched \subseteq Artifacts /\ managed[k] \in Content
    BY InstallAssumption DEF InstallConstants, SetupInv
  <2>2. managed[k] # Bad
    BY DEF SetupInv, AllClean, Clean, local_runtime_readiness
  <2>3. managed[k] # 0
    BY <2>1 DEF ComponentsReady, local_runtime_readiness, manual_file_status, artifact_status
  <2> QED
    BY <2>1, <2>2, <2>3 DEF Content
<1> QED
  BY <1>1, <1>2, <1>3, PTL DEF InstallSpec
=============================================================================
