---------------------------- MODULE WorldImport -----------------------------
(***************************************************************************)
(* Importing an existing Minecraft save (world_import.rs).  The importer   *)
(* takes a shared lock on the save's session.lock, which a running game    *)
(* holds exclusively; assembles the whole world under a staging root; and  *)
(* makes it visible by one rename.  It can be killed at any point, and the *)
(* player may start the game at any point at which the lock allows it.     *)
(*                                                                         *)
(* On Linux and macOS the lock is a POSIX record lock: a process loses its *)
(* record locks on a file when it closes ANY descriptor of that file, and  *)
(* the snapshot opens, reads and closes every file of the save, in sorted  *)
(* order, session.lock included.  On Windows the lock belongs to the       *)
(* handle.  A file of the save is the number of the last write to it.      *)
(***************************************************************************)
EXTENDS Naturals, Sequences, FiniteSets

CONSTANTS SaveOrder,        \* the files of the save in the order they are read
          LockFile,     \* session.lock
          Parts,        \* the records of a world written before the snapshot, in order
          MaxImports,   \* bound: imports started
          MaxWrites     \* bound: writes of the game to a file

VARIABLES platform,  \* "posix" or "windows"
          save,      \* save[f] : last write to file f
          game,      \* the game runs and holds session.lock exclusively
          shared,    \* the importer's shared lock on session.lock is in force
          import,    \* what the importer is doing
          visible,   \* worlds in the worlds directory
          imports

importVars == <<platform, save, game, shared, import, visible, imports>>

SaveFiles == {SaveOrder[i] : i \in 1..Len(SaveOrder)}

\* The walk of the save lists every file once; a world has some record.
ImportConstants ==
  /\ SaveOrder \in Seq(SaveFiles)
  /\ \A i, j \in 1..Len(SaveOrder) : SaveOrder[i] = SaveOrder[j] => i = j
  /\ Len(Parts) \in Nat \ {0} /\ Len(SaveOrder) \in Nat \ {0}

ASSUME ImportAssumption == ImportConstants

NoImport == [pc |-> "idle", parts |-> 0, read |-> 0, image |-> [f \in SaveFiles |-> 0],
             found |-> [f \in SaveFiles |-> 0], committed |-> FALSE, mods |-> FALSE]

ImportTypeOK ==
  /\ platform \in {"posix", "windows"}
  /\ save \in [SaveFiles -> 0..MaxWrites]
  /\ game \in BOOLEAN /\ shared \in BOOLEAN
  /\ import.pc \in {"idle", "stage", "read", "commit", "mods", "publish", "sync", "cleanup"}
  /\ import.parts \in 0..Len(Parts) /\ import.read \in 0..Len(SaveOrder)
  /\ Cardinality(visible) <= MaxImports
  /\ imports \in 0..MaxImports

ImportInit ==
  /\ platform \in {"posix", "windows"}
  /\ save = [f \in SaveFiles |-> 0]
  /\ game = FALSE /\ shared = FALSE
  /\ import = NoImport
  /\ visible = {}
  /\ imports = 0

-----------------------------------------------------------------------------
(* The game *)

GameStarts ==
  /\ ~game /\ ~shared
  /\ game' = TRUE
  /\ UNCHANGED <<platform, save, shared, import, visible, imports>>

GameWrites(f) ==
  /\ game /\ save[f] < MaxWrites
  /\ save' = [save EXCEPT ![f] = @ + 1]
  /\ UNCHANGED <<platform, game, shared, import, visible, imports>>

GameStops ==
  /\ game
  /\ game' = FALSE
  /\ UNCHANGED <<platform, save, shared, import, visible, imports>>

-----------------------------------------------------------------------------
(* The importer *)

\* A plausible slip: session.lock is looked at and not locked.
QuiescenceUnlocked ==
  /\ import.pc = "idle" /\ imports < MaxImports
  /\ ~game
  /\ shared' = FALSE
  /\ import' = [NoImport EXCEPT !.pc = "stage", !.found = save]
  /\ imports' = imports + 1
  /\ UNCHANGED <<platform, save, game, visible>>

\* validate_request has accepted the request; a held session.lock refuses it.
\* The world's identity is fresh, so its staging root and its destination are too.
acquire_source_quiescence ==
  /\ import.pc = "idle" /\ imports < MaxImports
  /\ ~game
  /\ shared' = TRUE
  /\ import' = [NoImport EXCEPT !.pc = "stage", !.found = save]
  /\ imports' = imports + 1
  /\ UNCHANGED <<platform, save, game, visible>>

\* stage_and_publish: the world's metadata, descriptor, membership and config.
StagePart ==
  /\ import.pc = "stage"
  /\ import' = [import EXCEPT !.parts = @ + 1,
                              !.pc = IF import.parts + 1 = Len(Parts) THEN "read" ELSE @]
  /\ UNCHANGED <<platform, save, game, shared, visible, imports>>

\* snapshot_directory opens, reads and closes the next file.
ReadFile ==
  LET f == SaveOrder[import.read + 1] IN
  /\ import.pc = "read"
  /\ import' = [import EXCEPT !.read = @ + 1, !.image[f] = save[f],
                              !.pc = IF import.read + 1 = Len(SaveOrder) THEN "commit" ELSE @]
  /\ shared' = (shared /\ ~(platform = "posix" /\ f = LockFile))
  /\ UNCHANGED <<platform, save, game, visible, imports>>

\* The snapshot is signed, committed and verified under the staging root.
CommitSnapshot ==
  /\ import.pc = "commit"
  /\ import' = [import EXCEPT !.pc = "mods", !.committed = TRUE]
  /\ UNCHANGED <<platform, save, game, shared, visible, imports>>

\* add_local_mod for every JAR of the request.
AddMods(ok) ==
  /\ import.pc = "mods"
  /\ import' = [import EXCEPT !.pc = IF ok THEN "publish" ELSE "cleanup", !.mods = ok]
  /\ UNCHANGED <<platform, save, game, shared, visible, imports>>

\* What a reader of the worlds directory finds at the new name.
World == [parts |-> import.parts, image |-> import.image, found |-> import.found,
          committed |-> import.committed, mods |-> import.mods, number |-> imports]

Publish ==
  /\ import.pc = "publish"
  /\ visible' = visible \cup {World}
  /\ import' = [import EXCEPT !.pc = "sync"]
  /\ UNCHANGED <<platform, save, game, shared, imports>>

\* sync_directory; if it fails the world is renamed back out, if that works.
SyncDirectory(synced, undone) ==
  /\ import.pc = "sync"
  /\ visible' = IF ~synced /\ undone THEN visible \ {World} ELSE visible
  /\ import' = [import EXCEPT !.pc = "cleanup"]
  /\ UNCHANGED <<platform, save, game, shared, imports>>

\* The staging root is removed and the quiescence dropped.
Cleanup ==
  /\ import.pc = "cleanup"
  /\ import' = NoImport
  /\ shared' = FALSE
  /\ UNCHANGED <<platform, save, game, visible, imports>>

\* Any error of a step before the publication, or the process is killed.
ImportFails ==
  /\ import.pc \in {"stage", "read", "commit", "mods", "publish"}
  /\ import' = [import EXCEPT !.pc = "cleanup"]
  /\ UNCHANGED <<platform, save, game, shared, visible, imports>>

ImporterKilled ==
  /\ import.pc # "idle"
  /\ import' = NoImport
  /\ shared' = FALSE
  /\ UNCHANGED <<platform, save, game, visible, imports>>

ImportNext ==
  \/ GameStarts \/ GameStops \/ \E f \in SaveFiles : GameWrites(f)
  \/ acquire_source_quiescence \/ StagePart \/ ReadFile \/ CommitSnapshot
  \/ \E ok \in BOOLEAN : AddMods(ok)
  \/ Publish \/ \E synced, undone \in BOOLEAN : SyncDirectory(synced, undone)
  \/ Cleanup \/ ImportFails \/ ImporterKilled

ImportSpec == ImportInit /\ [][ImportNext]_importVars

-----------------------------------------------------------------------------
\* "interrupted import never exposes half world": whenever the importer fails or
\* is killed, a world in the worlds directory has its records, its committed
\* snapshot and its mods.  And up to the lock file, it is the save as the
\* importer found it: no game has written between two of the files it read.
ImportedWhole ==
  \A w \in visible :
    /\ w.parts = Len(Parts) /\ w.committed /\ w.mods
    /\ \A i \in 1..Len(SaveOrder) :
         (\A j \in 1..(i - 1) : SaveOrder[j] # LockFile) => w.image[SaveOrder[i]] = w.found[SaveOrder[i]]
=============================================================================
