--------------------------- MODULE RuntimeInstall ---------------------------
(***************************************************************************)
(* The managed runtime of a device (runtime_installer.rs).  `install` and  *)
(* `repair` fetch the artifacts of a world's runtime into managed paths    *)
(* that ALL worlds of the device share, copy some of them into the world's *)
(* own directories, record their hashes in the world's runtime lock, and   *)
(* configure the launch.  Every file is replaced by publish_replace: the   *)
(* old file is renamed to a backup, the new one is renamed into place, the *)
(* backup is removed; the process may be killed between any two of these.  *)
(* One lock file per world is meant to keep a second installer out; it is  *)
(* unlocked and then unlinked when the guard is dropped.  `verify` inspects *)
(* the files and then writes the proof that host_readiness.rs asks for.    *)
(*                                                                         *)
(* A file is 0 (absent), Good (the published bytes) or Bad (other bytes).  *)
(* The artifacts with a published hash are in Pinned, the ones that are    *)
(* also copied into the world in Staged, the ones the launch configuration *)
(* names in Launched.  Managed Java, if the system has no fitting one, is  *)
(* the artifact "java": a directory published by the same three renames.   *)
(***************************************************************************)
EXTENDS Naturals, Sequences, FiniteSets

CONSTANTS Worlds,
          Installers,    \* the processes that run the installer
          ArtifactOrder,         \* the artifacts, in the order they are installed
          Pinned,        \* artifacts with a published hash
          Staged,        \* artifacts copied into the world's directories
          Launched,      \* artifacts named in the launch configuration
          MaxInodes,     \* bound: lock files ever created
          MaxKills       \* bound: processes killed

VARIABLES managed,   \* managed[k] : the shared file of artifact k
          staged,    \* staged[w, k] : the copy in world w
          backups,   \* files <<path, content>> renamed away and not yet removed
          lockfile,  \* lockfile[w] : the inode at runtime_install_lock_path, 0 none
          lockedBy,  \* lockedBy[i] : the process holding the advisory lock on inode i
          inodes,    \* inodes created so far
          record,    \* record[w][k] : the hash in w's runtime lock, 0 without a lock
          config,    \* config[w] : runtime.json is on disk, the EULA accepted
          proof,     \* proof[w][k] : the hash in runtime-verification.json, 0 without
          setup,     \* what every installer is doing
          kills

installVars == <<managed, staged, backups, lockfile, lockedBy, inodes, record, config, proof, setup, kills>>

Good == 1
Bad  == 2
Content == {0, Good, Bad}

Artifacts == {ArtifactOrder[i] : i \in 1..Len(ArtifactOrder)}

\* The plan of an installation is not empty; what is pinned, copied or launched
\* is part of it, and it is for some world.
InstallConstants ==
  /\ ArtifactOrder \in Seq(Artifacts) /\ Len(ArtifactOrder) \in Nat \ {0}
  /\ Pinned \subseteq Artifacts /\ Staged \subseteq Artifacts /\ Launched \subseteq Artifacts
  /\ Worlds # {}

ASSUME InstallAssumption == InstallConstants

\* The paths publish_replace writes, and their content.
Path == {<<"managed", k>> : k \in Artifacts} \cup {<<"staged", w, k>> : w \in Worlds, k \in Staged}

FileAt(path) == IF path[1] = "managed" THEN managed[path[2]] ELSE staged[path[2]][path[3]]

NoHashes == [k \in Artifacts |-> 0]

InstallerIdle == [pc |-> "idle", world |-> CHOOSE w \in Worlds : TRUE, force |-> FALSE,
                  inode |-> 0, step |-> 0, part |-> 0, kept |-> 0, got |-> NoHashes]

Phases == {"idle", "opened", "inspect", "prove", "check", "fetch", "exists", "preserve", "rename", "drop",
           "copy", "record", "write", "configure", "unlock", "unlink"}

InstallTypeOK ==
  /\ managed \in [Artifacts -> Content]
  /\ staged \in [Worlds -> [Staged -> Content]]
  /\ \A b \in backups : b[1] \in Path /\ b[2] \in {Good, Bad} /\ b[3] \in Installers
  /\ lockfile \in [Worlds -> 0..MaxInodes]
  /\ lockedBy \in [1..MaxInodes -> Installers \cup {0}]
  /\ inodes \in 0..MaxInodes
  /\ record \in [Worlds -> [Artifacts -> Content]] /\ config \in [Worlds -> BOOLEAN]
  /\ proof \in [Worlds -> [Artifacts -> Content]]
  /\ \A p \in Installers : setup[p].pc \in Phases /\ setup[p].step \in 0..Len(ArtifactOrder)

\* Earlier versions, other tools and the player may have left any file behind.
InstallInit ==
  /\ managed \in [Artifacts -> Content]
  /\ staged = [w \in Worlds |-> [k \in Staged |-> 0]]
  /\ backups = {}
  /\ lockfile = [w \in Worlds |-> 0]
  /\ lockedBy = [i \in 1..MaxInodes |-> 0]
  /\ inodes = 0
  /\ record = [w \in Worlds |-> NoHashes]
  /\ config = [w \in Worlds |-> FALSE]
  /\ proof = [w \in Worlds |-> NoHashes]
  /\ setup = [p \in Installers |-> InstallerIdle]
  /\ kills = 0

Kind(p) == ArtifactOrder[setup[p].step]

\* publish_replace writes the managed path first, then, from atomic_copy, the
\* world's copy; `kept` remembers which of the two is being written.
Target(p) ==
  IF setup[p].kept = 0 THEN <<"managed", Kind(p)>> ELSE <<"staged", setup[p].world, Kind(p)>>

GoOn(p, pc) == setup' = [setup EXCEPT ![p].pc = pc]

Put(path, content) ==
  IF path[1] = "managed"
  THEN managed' = [managed EXCEPT ![path[2]] = content] /\ UNCHANGED staged
  ELSE staged' = [staged EXCEPT ![path[2]][path[3]] = content] /\ UNCHANGED managed

-----------------------------------------------------------------------------
(* inspect *)

\* java_status, artifact_status, swarmcraft_status: the recorded bytes are at the
\* shared path and, where the artifact is copied, in the world.
artifact_status(w, k) ==
  /\ record[w][k] # 0
  /\ managed[k] = record[w][k]
  /\ k \in Staged => staged[w][k] = record[w][k]

\* A configuration without a runtime lock counts as the player's own.
Manual(w) == config[w] /\ record[w] = NoHashes

manual_file_status(k) == managed[k] # 0

\* Everything but the EULA and the server mods.
ComponentsReady(w) ==
  \/ Manual(w) /\ \A k \in Launched : manual_file_status(k)
  \/ ~Manual(w) /\ \A k \in Artifacts : artifact_status(w, k)

\* local_runtime_readiness of host_readiness.rs.
local_runtime_readiness(w) ==
  /\ config[w]
  /\ \A k \in Launched : managed[k] # 0 /\ proof[w][k] = managed[k]

-----------------------------------------------------------------------------
(* InstallGuard *)

\* acquire: the file at the path is opened, or created.
Open(p, w, force) ==
  /\ setup[p].pc = "idle"
  /\ lockfile[w] = 0 => inodes < MaxInodes
  /\ inodes' = IF lockfile[w] = 0 THEN inodes + 1 ELSE inodes
  /\ lockfile' = [lockfile EXCEPT ![w] = IF lockfile[w] = 0 THEN inodes + 1 ELSE @]
  /\ setup' = [setup EXCEPT ![p] = [InstallerIdle EXCEPT !.pc = "opened", !.world = w, !.force = force,
                                                         !.inode = lockfile'[w]]]
  /\ UNCHANGED <<managed, staged, backups, lockedBy, record, config, proof, kills>>

\* acquire: try_lock_exclusive on the opened file.
TryLock(p) ==
  /\ setup[p].pc = "opened"
  /\ IF lockedBy[setup[p].inode] = 0
     THEN /\ lockedBy' = [lockedBy EXCEPT ![setup[p].inode] = p]
          /\ GoOn(p, "inspect")
     ELSE setup' = [setup EXCEPT ![p] = InstallerIdle] /\ UNCHANGED lockedBy
  /\ UNCHANGED <<managed, staged, backups, lockfile, inodes, record, config, proof, kills>>

\* Drop: the lock is released, and then whatever is at the path is removed.
UnlockFile(p) ==
  /\ setup[p].pc = "unlock"
  /\ lockedBy' = [lockedBy EXCEPT ![setup[p].inode] = 0]
  /\ GoOn(p, "unlink")
  /\ UNCHANGED <<managed, staged, backups, lockfile, inodes, record, config, proof, kills>>

UnlinkLockFile(p) ==
  /\ setup[p].pc = "unlink"
  /\ lockfile' = [lockfile EXCEPT ![setup[p].world] = 0]
  /\ setup' = [setup EXCEPT ![p] = InstallerIdle]
  /\ UNCHANGED <<managed, staged, backups, lockedBy, inodes, record, config, proof, kills>>

\* The kernel releases the advisory lock of a killed process; files stay.
InstallerKilled(p) ==
  /\ setup[p].pc \notin {"idle"} /\ kills < MaxKills
  /\ kills' = kills + 1
  /\ lockedBy' = [i \in DOMAIN lockedBy |-> IF lockedBy[i] = p THEN 0 ELSE lockedBy[i]]
  /\ setup' = [setup EXCEPT ![p] = InstallerIdle]
  /\ UNCHANGED <<managed, staged, backups, lockfile, inodes, record, config, proof>>

-----------------------------------------------------------------------------
(* install_inner and verify *)

\* install_inner: what is ready is not installed again, except by a repair, and
\* the EULA may still be accepted; otherwise the sources are resolved.
InspectFirst(p) ==
  LET w == setup[p].world IN
  /\ setup[p].pc = "inspect"
  /\ \E modsReady, eula, resolved \in BOOLEAN :
       setup' = [setup EXCEPT ![p] =
         IF ~setup[p].force /\ ComponentsReady(w) /\ modsReady
         THEN [@ EXCEPT !.pc = IF eula /\ ~config[w] THEN "configure" ELSE "unlock"]
         ELSE IF resolved THEN [@ EXCEPT !.pc = "check", !.step = 1]
         ELSE [@ EXCEPT !.pc = "unlock"]]
  /\ UNCHANGED <<managed, staged, backups, lockfile, lockedBy, inodes, record, config, proof, kills>>

\* VerifyRuntime takes no lock: it inspects the runtime, ...
VerifyRuntime(p, w) ==
  /\ setup[p].pc = "idle"
  /\ config[w] /\ ComponentsReady(w) /\ ~Manual(w)
  /\ setup' = [setup EXCEPT ![p] = [InstallerIdle EXCEPT !.pc = "prove", !.world = w]]
  /\ UNCHANGED <<managed, staged, backups, lockfile, lockedBy, inodes, record, config, proof, kills>>

\* ... and then hashes the files of the launch configuration for the proof.
record_runtime_verified(p) ==
  LET w == setup[p].world IN
  /\ setup[p].pc = "prove"
  /\ proof' = IF \A k \in Launched : managed[k] # 0
              THEN [proof EXCEPT ![w] = [k \in Artifacts |-> IF k \in Launched THEN managed[k] ELSE 0]]
              ELSE proof
  /\ setup' = [setup EXCEPT ![p] = InstallerIdle]
  /\ UNCHANGED <<managed, staged, backups, lockfile, lockedBy, inodes, record, config, kills>>

-----------------------------------------------------------------------------
(* install_artifact, atomic_copy and publish_replace *)

\* After the file at Target(p) is in place: the copy, the next artifact, or
\* the runtime lock.  `hash` is the ArtifactRecord install_artifact returned.
Proceed(p, hash) ==
  LET got == IF setup[p].kept = 0 THEN [setup[p].got EXCEPT ![Kind(p)] = hash] ELSE setup[p].got
  IN setup' = [setup EXCEPT ![p] =
       IF setup[p].kept = 0 /\ Kind(p) \in Staged
       THEN [@ EXCEPT !.pc = "copy", !.kept = 1, !.part = 0, !.got = got]
       ELSE IF setup[p].step < Len(ArtifactOrder)
            THEN [@ EXCEPT !.pc = "check", !.step = setup[p].step + 1, !.kept = 0, !.part = 0, !.got = got]
            ELSE [@ EXCEPT !.pc = "record", !.kept = 0, !.part = 0, !.got = got]]

\* A plausible slip: a file that is there is reused.
ReuseAny(p) ==
  /\ setup[p].pc = "check" /\ ~setup[p].force
  /\ managed[Kind(p)] # 0 /\ Kind(p) # "java"
  /\ Proceed(p, managed[Kind(p)])
  /\ UNCHANGED <<managed, staged, backups, lockfile, lockedBy, inodes, record, config, proof, kills>>

\* install_artifact: a file that is there and has the published hash is reused
\* unless the installation is a repair.
Reuse(p) ==
  /\ setup[p].pc = "check" /\ ~setup[p].force
  /\ managed[Kind(p)] # 0 /\ Kind(p) # "java"
  /\ Kind(p) \in Pinned => managed[Kind(p)] = Good
  /\ Proceed(p, managed[Kind(p)])
  /\ UNCHANGED <<managed, staged, backups, lockfile, lockedBy, inodes, record, config, proof, kills>>

\* install_java: a Java that answers the probe with the required major version.
ReuseJava(p) ==
  /\ setup[p].pc = "check" /\ ~setup[p].force
  /\ Kind(p) = "java" /\ managed["java"] = Good
  /\ Proceed(p, Good)
  /\ UNCHANGED <<managed, staged, backups, lockfile, lockedBy, inodes, record, config, proof, kills>>

Refetch(p) ==
  /\ setup[p].pc = "check"
  /\ setup[p].force \/ managed[Kind(p)] = 0 \/ (Kind(p) \in Pinned /\ managed[Kind(p)] # Good)
  /\ GoOn(p, "fetch")
  /\ UNCHANGED <<managed, staged, backups, lockfile, lockedBy, inodes, record, config, proof, kills>>

\* The source serves some bytes; what has a published hash is hashed before it
\* is published, and any failure ends the installation.
Fetch(p) ==
  /\ setup[p].pc = "fetch" /\ Kind(p) # "java"
  /\ \E served \in Content :
       IF served = 0 \/ (Kind(p) \in Pinned /\ served # Good)
       THEN GoOn(p, "unlock")
       ELSE setup' = [setup EXCEPT ![p].pc = "exists", ![p].part = served]
  /\ UNCHANGED <<managed, staged, backups, lockfile, lockedBy, inodes, record, config, proof, kills>>

\* install_java: the archive is hashed, extracted and probed in a directory of
\* its own; any failure ends the installation.
FetchJava(p) ==
  /\ setup[p].pc = "fetch" /\ Kind(p) = "java"
  /\ \E served \in Content, extracted, probed \in BOOLEAN :
       setup' = IF served = Good /\ extracted /\ probed
               THEN [setup EXCEPT ![p].pc = "exists", ![p].part = Good]
               ELSE [setup EXCEPT ![p].pc = "unlock"]
  /\ UNCHANGED <<managed, staged, backups, lockfile, lockedBy, inodes, record, config, proof, kills>>

\* atomic_copy: the managed file may be away, being replaced by another world.
Copy(p) ==
  /\ setup[p].pc = "copy"
  /\ IF managed[Kind(p)] = 0 THEN GoOn(p, "unlock")
     ELSE setup' = [setup EXCEPT ![p].pc = "exists", ![p].part = managed[Kind(p)]]
  /\ UNCHANGED <<managed, staged, backups, lockfile, lockedBy, inodes, record, config, proof, kills>>

Exists(p) ==
  /\ setup[p].pc = "exists"
  /\ GoOn(p, IF FileAt(Target(p)) = 0 THEN "rename" ELSE "preserve")
  /\ UNCHANGED <<managed, staged, backups, lockfile, lockedBy, inodes, record, config, proof, kills>>

\* publish_replace: the old file becomes a backup; if it is gone by now the
\* installation fails.
Preserve(p) ==
  /\ setup[p].pc = "preserve"
  /\ IF FileAt(Target(p)) = 0
     THEN GoOn(p, "unlock") /\ UNCHANGED <<managed, staged, backups>>
     ELSE /\ backups' = backups \cup {<<Target(p), FileAt(Target(p)), p>>}
          /\ Put(Target(p), 0)
          /\ GoOn(p, "rename")
  /\ UNCHANGED <<lockfile, lockedBy, inodes, record, config, proof, kills>>

\* publish_replace: rename(2) replaces whatever is at the destination by now.
Rename(p) ==
  /\ setup[p].pc = "rename"
  /\ Put(Target(p), setup[p].part)
  /\ GoOn(p, "drop")
  /\ UNCHANGED <<backups, lockfile, lockedBy, inodes, record, config, proof, kills>>

DropBackup(p) ==
  /\ setup[p].pc = "drop"
  /\ backups' = {b \in backups : b[1] # Target(p) \/ b[3] # p}
  /\ Proceed(p, setup[p].part)
  /\ UNCHANGED <<managed, staged, lockfile, lockedBy, inodes, record, config, proof, kills>>

-----------------------------------------------------------------------------
(* The runtime lock and the launch configuration *)

\* atomic_json moves the old runtime lock away before the new one is renamed in.
PreserveRecord(p) ==
  /\ setup[p].pc = "record"
  /\ record' = [record EXCEPT ![setup[p].world] = NoHashes]
  /\ GoOn(p, "write")
  /\ UNCHANGED <<managed, staged, backups, lockfile, lockedBy, inodes, config, proof, kills>>

\* The lock is written whether or not the player accepted the EULA; only then
\* is the launch configured.
WriteRecord(p) ==
  /\ setup[p].pc = "write"
  /\ record' = [record EXCEPT ![setup[p].world] = setup[p].got]
  /\ \E eula \in BOOLEAN : GoOn(p, IF eula THEN "configure" ELSE "unlock")
  /\ UNCHANGED <<managed, staged, backups, lockfile, lockedBy, inodes, config, proof, kills>>

\* save_launch_config fails unless the server mods are ready; save_runtime_config
\* removes the proof before it writes the configuration.
save_launch_config(p) ==
  /\ setup[p].pc = "configure"
  /\ \E modsReady \in BOOLEAN :
       IF modsReady
       THEN /\ config' = [config EXCEPT ![setup[p].world] = TRUE]
            /\ proof' = [proof EXCEPT ![setup[p].world] = NoHashes]
       ELSE UNCHANGED <<config, proof>>
  /\ GoOn(p, "unlock")
  /\ UNCHANGED <<managed, staged, backups, lockfile, lockedBy, inodes, record, kills>>

InstallNext ==
  \E p \in Installers :
    \/ \E w \in Worlds, force \in BOOLEAN : Open(p, w, force)
    \/ \E w \in Worlds : VerifyRuntime(p, w)
    \/ InspectFirst(p) \/ record_runtime_verified(p)
    \/ TryLock(p) \/ UnlockFile(p) \/ UnlinkLockFile(p) \/ InstallerKilled(p)
    \/ Reuse(p) \/ ReuseJava(p) \/ Refetch(p) \/ Fetch(p) \/ FetchJava(p) \/ Copy(p)
    \/ Exists(p) \/ Preserve(p) \/ Rename(p) \/ DropBackup(p)
    \/ PreserveRecord(p) \/ WriteRecord(p) \/ save_launch_config(p)

InstallSpec == InstallInit /\ [][InstallNext]_installVars

-----------------------------------------------------------------------------
\* A world that is reported ready, by its runtime lock or, after a kill has lost
\* the lock, by its files alone, launches artifacts with the published bytes:
\* whatever was at the shared path before, whatever the source served, and
\* whichever other world is installing (install_artifact, inspect, verify).
ReadyIsPublished ==
  \A w \in Worlds :
    (config[w] /\ ComponentsReady(w)) \/ local_runtime_readiness(w) =>
      \A k \in Launched \cap Pinned : managed[k] = Good
=============================================================================
