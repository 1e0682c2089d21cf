---------------------------- MODULE FabricBridge ----------------------------
(***************************************************************************)
(* The link between the runtime supervisor and the Minecraft server it     *)
(* launched: FabricSession of swarm-ipc (transport.rs) with its heartbeat  *)
(* task, wait_for_runtime_exit (migration.rs), and the Fabric mod          *)
(* (SwarmCraftMod.java) with its reader, watchdog and permit threads, each *)
(* of which can only ask the server thread to do something.  A request of  *)
(* the supervisor may time out and its answer arrive later, either process *)
(* may die at any point, and saves may fail.                               *)
(*                                                                         *)
(* The world is the number of changes played and the number on disk.  That *)
(* an orderly stop of the server saves is a property of Minecraft.         *)
(***************************************************************************)
EXTENDS Naturals, Sequences

CONSTANTS MaxPlayed,   \* bound: changes to the world
          MaxAsked,    \* bound: requests of the supervisor
          Guarded      \* more than one member: the permit guard is running

ASSUME BridgeAssumption == MaxPlayed \in Nat /\ MaxAsked \in Nat /\ Guarded \in BOOLEAN

VARIABLES sup,       \* [pc, id, stay] : the supervisor, the outstanding request, and
                     \* whether the server is kept running should the request fail
          socket,    \* the supervisor's end of the connection is open
          beating,   \* the heartbeat task is running
          toGame,    \* requests on their way to the mod
          toSup,     \* answers on their way to the supervisor
          jvm,       \* "up", "stopping", "exited" (status 0) or "dead"
          tasks,     \* what the server thread was asked to do
          lost,      \* controllerFailureStarted
          closed,    \* the bridge is closed
          guard,     \* the permit guard is watching
          played, disk,
          asked

bridgeVars == <<sup, socket, beating, toGame, toSup, jvm, tasks, lost, closed, guard,
                played, disk, asked>>

BridgeTypeOK ==
  /\ sup.pc \in {"watch", "asked", "exiting", "checkpoint", "failed", "killed"}
  /\ sup.id \in 0..2 /\ sup.stay \in BOOLEAN
  /\ socket \in BOOLEAN /\ beating \in BOOLEAN
  /\ jvm \in {"up", "stopping", "exited", "dead"}
  /\ lost \in BOOLEAN /\ closed \in BOOLEAN /\ guard \in BOOLEAN
  /\ disk <= played /\ played \in 0..MaxPlayed
  /\ asked \in 0..MaxAsked
  /\ Len(toGame) <= asked /\ Len(toSup) <= asked

Watching == [pc |-> "watch", id |-> 0, stay |-> FALSE]

\* The session is authenticated and the world information was validated.
BridgeInit ==
  /\ sup = Watching
  /\ socket = TRUE /\ beating = TRUE
  /\ toGame = <<>> /\ toSup = <<>> /\ tasks = <<>>
  /\ jvm = "up"
  /\ lost = FALSE /\ closed = FALSE /\ guard = Guarded
  /\ played = 0 /\ disk = 0 /\ asked = 0

-----------------------------------------------------------------------------
(* The game *)

Play ==
  /\ jvm = "up" /\ played < MaxPlayed
  /\ played' = played + 1
  /\ UNCHANGED <<sup, socket, beating, toGame, toSup, jvm, tasks, lost, closed, guard, disk, asked>>

\* An operator's /stop.
StopCommand ==
  /\ jvm = "up"
  /\ jvm' = "stopping"
  /\ UNCHANGED <<sup, socket, beating, toGame, toSup, tasks, lost, closed, guard, played, disk, asked>>

\* SERVER_STOPPING: closeRuntimeGuards.
closeRuntimeGuards ==
  /\ jvm = "stopping" /\ ~closed
  /\ closed' = TRUE /\ guard' = FALSE
  /\ UNCHANGED <<sup, socket, beating, toGame, toSup, jvm, tasks, lost, played, disk, asked>>

StopFinishes ==
  /\ jvm = "stopping" /\ closed
  /\ jvm' = "exited" /\ disk' = played
  /\ UNCHANGED <<sup, socket, beating, toGame, toSup, tasks, lost, closed, guard, played, asked>>

JvmDies ==
  /\ jvm \in {"up", "stopping"}
  /\ jvm' = "dead"
  /\ UNCHANGED <<sup, socket, beating, toGame, toSup, tasks, lost, closed, guard, played, disk, asked>>

-----------------------------------------------------------------------------
(* The mod *)

\* readerLoop, handle: a command is put on the server thread.
handle ==
  /\ jvm \in {"up", "stopping"} /\ ~closed /\ toGame # <<>>
  /\ tasks' = Append(tasks, [do |-> "barrier", id |-> Head(toGame)])
  /\ toGame' = Tail(toGame)
  /\ UNCHANGED <<sup, socket, beating, toSup, jvm, lost, closed, guard, played, disk, asked>>

controllerLost ==
  /\ jvm \in {"up", "stopping"} /\ ~closed /\ ~lost
  /\ lost' = TRUE
  /\ tasks' = Append(tasks, [do |-> "fail", id |-> 0])
  /\ UNCHANGED <<sup, socket, beating, toGame, toSup, jvm, closed, guard, played, disk, asked>>

\* readerLoop: the controller closed the connection.
ReaderEof == ~socket /\ toGame = <<>> /\ controllerLost

\* controllerWatchLoop: no heartbeat for CONTROLLER_TIMEOUT.
WatchdogExpires == ~beating /\ controllerLost

\* The same when the supervisor's process stalls for that long.
HeartbeatsLate == beating /\ controllerLost

\* PermitGuard.expire.
PermitExpires ==
  /\ jvm \in {"up", "stopping"} /\ guard
  /\ guard' = FALSE
  /\ tasks' = Append(tasks, [do |-> "exit", id |-> 0])
  /\ UNCHANGED <<sup, socket, beating, toGame, toSup, jvm, lost, closed, played, disk, asked>>

\* A plausible slip: the barrier is acknowledged before the world is saved.
AcknowledgedFirst(saved) ==
  /\ jvm = "up" /\ tasks # <<>> /\ Head(tasks).do = "barrier"
  /\ tasks' = Tail(tasks)
  /\ toSup' = Append(toSup, [ok |-> TRUE, id |-> Head(tasks).id])
  /\ jvm' = "stopping"
  /\ UNCHANGED <<sup, socket, beating, toGame, lost, closed, guard, played, disk, asked>>

\* A plausible slip: a barrier whose save failed is reported and tried again.
SaveRetried(saved) ==
  /\ jvm = "up" /\ tasks # <<>> /\ Head(tasks).do = "barrier"
  /\ tasks' = IF saved THEN Tail(tasks) ELSE tasks
  /\ disk' = IF saved THEN played ELSE disk
  /\ toSup' = IF closed \/ ~socket THEN toSup
              ELSE Append(toSup, [ok |-> saved, id |-> Head(tasks).id])
  /\ jvm' = IF saved /\ ~closed /\ socket THEN "stopping" ELSE jvm
  /\ UNCHANGED <<sup, socket, beating, toGame, lost, closed, guard, played, asked>>

\* PREPARE_SHUTDOWN on the server thread: save, acknowledge, stop; a failed
\* save is reported and stops nothing.  A connection that is gone stops nothing
\* either: the acknowledgement throws before the stop.
runSaveBarrier(saved) ==
  /\ jvm = "up" /\ tasks # <<>> /\ Head(tasks).do = "barrier"
  /\ tasks' = Tail(tasks)
  /\ disk' = IF saved THEN played ELSE disk
  /\ toSup' = IF closed \/ ~socket THEN toSup
              ELSE Append(toSup, [ok |-> saved, id |-> Head(tasks).id])
  /\ jvm' = IF saved /\ ~closed /\ socket THEN "stopping" ELSE jvm
  /\ UNCHANGED <<sup, socket, beating, toGame, lost, closed, guard, played, asked>>

\* Save if possible, then stop.
failClosedRuntime(saved) ==
  /\ jvm = "up" /\ tasks # <<>> /\ Head(tasks).do = "fail"
  /\ tasks' = Tail(tasks)
  /\ disk' = IF saved THEN played ELSE disk
  /\ jvm' = "stopping"
  /\ UNCHANGED <<sup, socket, beating, toGame, toSup, lost, closed, guard, played, asked>>

\* The permit is lost: save if possible, then exit with status 75.
ExitWithoutPermit(saved) ==
  /\ jvm = "up" /\ tasks # <<>> /\ Head(tasks).do = "exit"
  /\ tasks' = Tail(tasks)
  /\ disk' = IF saved THEN played ELSE disk
  /\ jvm' = "dead"
  /\ UNCHANGED <<sup, socket, beating, toGame, toSup, lost, closed, guard, played, asked>>

-----------------------------------------------------------------------------
(* The supervisor *)

Over == sup.pc \in {"checkpoint", "failed", "killed"}

\* A plausible slip: dropping the session leaves the heartbeat task running, and
\* with it the socket's write half.
HeartbeatOutlives == UNCHANGED <<socket, beating>>

\* Drop for FabricSession.
DropSession == socket' = FALSE /\ beating' = FALSE

\* wait_for_runtime_exit: try_wait.
ServerExited ==
  /\ sup.pc = "watch" /\ jvm \in {"exited", "dead"}
  /\ sup' = [sup EXCEPT !.pc = IF jvm = "exited" THEN "checkpoint" ELSE "failed"]
  /\ DropSession
  /\ UNCHANGED <<toGame, toSup, jvm, tasks, lost, closed, guard, played, disk, asked>>

\* ensure_authority_generation failed: the child is terminated.
GenerationLost ==
  /\ sup.pc = "watch"
  /\ sup' = [sup EXCEPT !.pc = "failed"]
  /\ jvm' = IF jvm = "exited" THEN jvm ELSE "dead"
  /\ DropSession
  /\ UNCHANGED <<toGame, toSup, tasks, lost, closed, guard, played, disk, asked>>

\* prepare_shutdown, with id 1 for a stop and 2 for a transfer; only a failed
\* stop intent leaves the server running, a failed Ctrl+C does not.
prepare_shutdown(id, stay) ==
  /\ sup.pc = "watch" /\ asked < MaxAsked
  /\ toGame' = Append(toGame, id)
  /\ sup' = [pc |-> "asked", id |-> id, stay |-> stay]
  /\ asked' = asked + 1
  /\ UNCHANGED <<socket, beating, toSup, jvm, tasks, lost, closed, guard, played, disk>>

Failure ==
  IF sup.stay
  THEN sup' = Watching /\ UNCHANGED <<jvm, socket, beating>>
  ELSE /\ sup' = [sup EXCEPT !.pc = "failed"]
       /\ jvm' = IF jvm = "exited" THEN jvm ELSE "dead"
       /\ DropSession

\* request: one line is read, whatever request it answers.
Answer ==
  /\ sup.pc = "asked" /\ toSup # <<>>
  /\ toSup' = Tail(toSup)
  /\ IF Head(toSup) = [ok |-> TRUE, id |-> sup.id]
     THEN sup' = [sup EXCEPT !.pc = "exiting"] /\ UNCHANGED <<jvm, socket, beating>>
     ELSE Failure
  /\ UNCHANGED <<toGame, tasks, lost, closed, guard, played, disk, asked>>

\* No line in time, or the connection is closed.
AnswerMissing ==
  /\ sup.pc = "asked"
  /\ Failure
  /\ UNCHANGED <<toGame, toSup, tasks, lost, closed, guard, played, disk, asked>>

\* wait_for_child returns a status that nobody looks at.
ChildGone ==
  /\ sup.pc = "exiting" /\ jvm \in {"exited", "dead"}
  /\ sup' = [sup EXCEPT !.pc = "checkpoint"]
  /\ DropSession
  /\ UNCHANGED <<toGame, toSup, jvm, tasks, lost, closed, guard, played, disk, asked>>

ChildStays ==
  /\ sup.pc = "exiting" /\ jvm \in {"up", "stopping"}
  /\ Failure
  /\ UNCHANGED <<toGame, toSup, tasks, lost, closed, guard, played, disk, asked>>

\* run_authority_runtime returns on an error between the handshake and the wait
\* (the launch proof or a status cannot be written): the child is not terminated.
LaunchAbandoned ==
  /\ sup.pc = "watch" /\ asked = 0
  /\ sup' = [sup EXCEPT !.pc = "failed"]
  /\ DropSession
  /\ UNCHANGED <<toGame, toSup, jvm, tasks, lost, closed, guard, played, disk, asked>>

\* The supervisor's process is killed and the system closes its socket.
SupervisorKilled ==
  /\ ~Over
  /\ sup' = [sup EXCEPT !.pc = "killed"]
  /\ socket' = FALSE /\ beating' = FALSE
  /\ UNCHANGED <<toGame, toSup, jvm, tasks, lost, closed, guard, played, disk, asked>>

ServerThread ==
  \E saved \in BOOLEAN : runSaveBarrier(saved) \/ failClosedRuntime(saved) \/ ExitWithoutPermit(saved)

BridgeNext ==
  \/ Play \/ StopCommand \/ closeRuntimeGuards \/ StopFinishes \/ JvmDies
  \/ handle \/ ReaderEof \/ WatchdogExpires \/ HeartbeatsLate \/ PermitExpires \/ ServerThread
  \/ ServerExited \/ GenerationLost \/ prepare_shutdown(1, TRUE) \/ prepare_shutdown(1, FALSE) \/ prepare_shutdown(2, FALSE)
  \/ Answer \/ AnswerMissing \/ ChildGone \/ ChildStays
  \/ LaunchAbandoned \/ SupervisorKilled

\* The mod's threads and the server thread keep running while the process does;
\* the operating system runs no other thread forever.
BridgeFairness ==
  /\ WF_bridgeVars(handle) /\ WF_bridgeVars(ReaderEof) /\ WF_bridgeVars(WatchdogExpires)
  /\ WF_bridgeVars(ServerThread) /\ WF_bridgeVars(closeRuntimeGuards) /\ WF_bridgeVars(StopFinishes)

BridgeSpec == BridgeInit /\ [][BridgeNext]_bridgeVars
FairBridgeSpec == BridgeSpec /\ BridgeFairness

-----------------------------------------------------------------------------
\* The checkpoint the supervisor takes holds everything that was played, however
\* late the answers of earlier requests and however the server ended.
CheckpointComplete ==
  sup.pc = "checkpoint" => disk = played

\* "The Fabric side treats that EOF as a fail-closed save/stop signal": a server
\* whose supervisor is gone, or gave up without terminating it, stops by itself.
OrphanStops ==
  sup.pc \in {"failed", "killed"} ~> jvm \in {"exited", "dead"}
=============================================================================
