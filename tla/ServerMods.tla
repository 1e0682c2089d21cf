----------------------------- MODULE ServerMods -----------------------------
(***************************************************************************)
(* The server mods of a world on one device (server_mods.rs), their        *)
(* acquisition from a provider (provider_runtime.rs) and their staging for *)
(* a launch (migration.rs).  The signed profile of the world names every   *)
(* required mod with its exact bytes.  JARs get into the world's mods      *)
(* directory by `mods add`, by `mods remove`'s absence, by acquisition and *)
(* by the player's own hand; a launch copies the required ones into a      *)
(* fresh runtime directory while a tool may still be changing the source.  *)
(*                                                                         *)
(* A JAR is its Fabric id, its bytes (version and hash included: bytes 1   *)
(* are the published ones, bytes 2 any others) and whether it is           *)
(* client-only; reading its ZIP entry is abstracted to getting these, and  *)
(* a truncated one (Torn) cannot be read at all.  A tool's temporary file  *)
(* has no .jar extension and is never enumerated.                          *)
(***************************************************************************)
EXTENDS Naturals, FiniteSets

CONSTANTS Ids,        \* ids of user server mods
          Managed,    \* ids of components the runtime installer manages
          Required,   \* the ids of the signed profile
          ByHand,      \* the required ones that no provider serves automatically
          Provider,   \* Provider[id] : "modrinth" or "curseforge"
          MaxTools,   \* bound: tool invocations
          NoFile

VARIABLES modsDir,       \* modsDir[name] : the JAR at a name of the mods directory, or NoFile
          tmp,       \* tmp[id] : the temporary file of that mod's canonical name
          tool,      \* what the mods tool or the acquisition is doing
          launch,    \* what the launch is doing
          runtime,   \* JARs copied into the runtime's mods directory
          tools

modVars == <<modsDir, tmp, tool, launch, runtime, tools>>

\* A file name is the canonical one of a required mod or one the player chose.
Foreign == "foreign"
Names   == Required \cup {Foreign}

Jar   == [id : Ids \cup Managed, bytes : {1, 2}, client : BOOLEAN]
Torn  == [id |-> NoFile, bytes |-> 0, client |-> FALSE]
Files == Jar \cup {Torn, NoFile}

\* No file is no JAR, a chosen name is not a canonical one, and a required mod
\* comes from one of the two providers or by hand.
ModsConstants ==
  /\ Required \subseteq Ids /\ Foreign \notin Required
  /\ NoFile \notin Jar /\ NoFile # Torn
  /\ Provider \in [Required \ ByHand -> {"modrinth", "curseforge"}]

ASSUME ModsAssumption == ModsConstants

\* canonical_user_requirements: the profile's JAR of an id.
Canonical(id) == [id |-> id, bytes |-> 1, client |-> FALSE]

ToolIdle   == [pc |-> "idle", job |-> NoFile, target |-> NoFile, seen |-> {}, todo |-> {},
               part |-> NoFile]
LaunchIdle == [pc |-> "idle", list |-> {}]

ModsTypeOK ==
  /\ modsDir \in [Names -> Files]
  /\ tmp \in [Required -> Files]
  /\ tool.pc \in {"idle", "next", "modrinth", "curseforge", "lookup", "fetch", "verify",
                "exists", "open", "write", "publish", "remove"}
  /\ launch.pc \in {"idle", "reset", "evaluate", "copy", "running"}
  /\ runtime \subseteq Files
  /\ tools \in 0..MaxTools

\* The player may have put any file into the directory before.
ModsInit ==
  /\ \E file \in Files : modsDir = [n \in Names |-> IF n = Foreign THEN file ELSE NoFile]
  /\ tmp = [id \in Required |-> NoFile]
  /\ tool = ToolIdle
  /\ launch = LaunchIdle
  /\ runtime = {}
  /\ tools = 0

-----------------------------------------------------------------------------
(* evaluate_mod_directory and evaluate_inventory *)

PresentNames   == {n \in Names : modsDir[n] # NoFile}
InvalidJar == \E n \in PresentNames : modsDir[n] = Torn
Installed == {n \in PresentNames : modsDir[n] # Torn}

ClientOnly      == \E n \in Installed : modsDir[n].client
DuplicateModId  == \E m, n \in Installed : m # n /\ modsDir[m].id = modsDir[n].id
MissingRequired == \E id \in Required : \A n \in Installed : modsDir[n].id # id
\* HashMismatch and VersionMismatch.
Mismatch        == \E id \in Required : /\ \E n \in Installed : modsDir[n].id = id
                                        /\ \A n \in Installed : modsDir[n].id = id => modsDir[n].bytes # 1
UnexpectedMod   == \E n \in Installed : modsDir[n].id \notin Managed \cup Required

\* A plausible slip: a required id that is present counts as installed.
ReadyById ==
  ~InvalidJar /\ ~ClientOnly /\ ~DuplicateModId /\ ~MissingRequired /\ ~UnexpectedMod

evaluate_world_mods ==
  ~InvalidJar /\ ~ClientOnly /\ ~DuplicateModId /\ ~MissingRequired /\ ~Mismatch /\ ~UnexpectedMod

-----------------------------------------------------------------------------
(* add_local_mod, remove_local_mod *)

\* add_local_mod refuses every JAR but the profile's own.
AcceptedJar(jar) ==
  /\ jar # Torn /\ ~jar.client
  /\ jar.id \notin Managed /\ jar.id \in Required
  /\ jar.bytes = 1

ModsAdd(jar) ==
  /\ tool.pc = "idle" /\ tools < MaxTools
  /\ AcceptedJar(jar)
  /\ tool' = [ToolIdle EXCEPT !.pc = "exists", !.job = "add", !.target = jar.id]
  /\ tools' = tools + 1
  /\ UNCHANGED <<modsDir, tmp, launch, runtime>>

\* What follows when one file is in place: `mods add` ends, acquisition goes on.
Done == IF tool.job = "add" THEN ToolIdle
        ELSE [tool EXCEPT !.pc = "next", !.todo = @ \ {tool.target}]

\* atomic_write: a file already there is accepted if equal, never replaced.
CheckExists ==
  /\ tool.pc = "exists"
  /\ tool' = CASE modsDir[tool.target] = NoFile -> [tool EXCEPT !.pc = "open"]
               [] modsDir[tool.target] = Canonical(tool.target) -> Done
               [] OTHER -> ToolIdle
  /\ UNCHANGED <<modsDir, tmp, launch, runtime, tools>>

OpenTmp ==
  /\ tool.pc = "open"
  /\ tmp' = [tmp EXCEPT ![tool.target] = Torn]
  /\ tool' = [tool EXCEPT !.pc = "write"]
  /\ UNCHANGED <<modsDir, launch, runtime, tools>>

WriteTmp ==
  /\ tool.pc = "write"
  /\ tmp' = [tmp EXCEPT ![tool.target] = Canonical(tool.target)]
  /\ tool' = [tool EXCEPT !.pc = "publish"]
  /\ UNCHANGED <<modsDir, launch, runtime, tools>>

PublishTmp ==
  /\ tool.pc = "publish"
  /\ modsDir' = [modsDir EXCEPT ![tool.target] = tmp[tool.target]]
  /\ tmp' = [tmp EXCEPT ![tool.target] = NoFile]
  /\ tool' = Done
  /\ UNCHANGED <<launch, runtime, tools>>

\* remove_local_mod: the readable JARs that claim the id; more than one is an
\* error, and so is a file that is gone when it is unlinked.
ModsRemove(id) ==
  /\ tool.pc = "idle" /\ tools < MaxTools
  /\ \E n \in Installed :
       /\ {m \in Installed : modsDir[m].id = id} = {n}
       /\ tool' = [ToolIdle EXCEPT !.pc = "remove", !.job = "remove", !.target = n]
  /\ tools' = tools + 1
  /\ UNCHANGED <<modsDir, tmp, launch, runtime>>

UnlinkJar ==
  /\ tool.pc = "remove"
  /\ modsDir' = [modsDir EXCEPT ![tool.target] = NoFile]
  /\ tool' = ToolIdle
  /\ UNCHANGED <<tmp, launch, runtime, tools>>

-----------------------------------------------------------------------------
(* acquire_missing_server_mods *)

\* What CurseForge answers about the file: project, file, name and size are the
\* profile's, the provider's own hashes do not contradict it, and a URL is given.
FileMetadata == [identity : BOOLEAN, named : BOOLEAN, sized : BOOLEAN, hashed : BOOLEAN,
                 url : BOOLEAN]

validate_curseforge_file(meta) == meta.identity /\ meta.named /\ meta.sized /\ meta.hashed

\* The provider's hashes are of the file's bytes.
verify_canonical_hashes(jar, id) == jar = Canonical(id)

\* What was installed is read once, before anything is downloaded.
Acquire ==
  /\ tool.pc = "idle" /\ tools < MaxTools
  /\ tool' = [ToolIdle EXCEPT !.pc = "next", !.job = "acquire", !.todo = Required,
                              !.seen = {modsDir[n] : n \in Installed}]
  /\ tools' = tools + 1
  /\ UNCHANGED <<modsDir, tmp, launch, runtime>>

\* The next package: skipped if it was installed, an error if another JAR claims
\* its id or if it is not to be downloaded.
NextPackage(id) ==
  /\ tool.pc = "next" /\ id \in tool.todo
  /\ tool' = CASE Canonical(id) \in tool.seen -> [tool EXCEPT !.todo = @ \ {id}]
               [] Canonical(id) \notin tool.seen /\ \E jar \in tool.seen : jar.id = id -> ToolIdle
               [] OTHER -> IF id \in ByHand THEN ToolIdle
                           ELSE [tool EXCEPT !.pc = Provider[id], !.target = id]
  /\ UNCHANGED <<modsDir, tmp, launch, runtime, tools>>

\* acquire_modrinth: the client's download, which must keep the profile's name.
acquire_modrinth(served, sameName) ==
  /\ tool.pc = "modrinth"
  /\ tool' = IF served \in {NoFile, Torn} \/ ~sameName THEN ToolIdle
             ELSE [tool EXCEPT !.pc = "verify", !.part = served]
  /\ UNCHANGED <<modsDir, tmp, launch, runtime, tools>>

\* acquire_curseforge: the file's metadata, from a request that needs the
\* machine's API key; a missing, failed or oversized answer is an error.
curseforge_json(answered, meta) ==
  /\ tool.pc = "curseforge"
  /\ tool' = IF answered /\ validate_curseforge_file(meta)
             THEN [tool EXCEPT !.pc = IF meta.url THEN "fetch" ELSE "lookup"] ELSE ToolIdle
  /\ UNCHANGED <<modsDir, tmp, launch, runtime, tools>>

\* The metadata named no URL: it is asked for; 403 and 404 mean "by hand".
curseforge_download_url(permitted) ==
  /\ tool.pc = "lookup"
  /\ tool' = IF permitted THEN [tool EXCEPT !.pc = "fetch"] ELSE ToolIdle
  /\ UNCHANGED <<modsDir, tmp, launch, runtime, tools>>

\* A stream that breaks off or is too long removes what it wrote.
download_curseforge_artifact(served) ==
  /\ tool.pc = "fetch"
  /\ tool' = IF served \in {NoFile, Torn} THEN ToolIdle
             ELSE [tool EXCEPT !.pc = "verify", !.part = served]
  /\ UNCHANGED <<modsDir, tmp, launch, runtime, tools>>

\* The downloaded file must have the profile's hashes and size, and then pass
\* add_local_mod like any other JAR.
VerifyDownload ==
  /\ tool.pc = "verify"
  /\ tool' = IF verify_canonical_hashes(tool.part, tool.target) /\ AcceptedJar(tool.part)
             THEN [tool EXCEPT !.pc = "exists", !.part = NoFile] ELSE ToolIdle
  /\ UNCHANGED <<modsDir, tmp, launch, runtime, tools>>

\* The directory is evaluated again; an error changes nothing.
AcquireEnds ==
  /\ tool.pc = "next" /\ tool.todo = {}
  /\ tool' = ToolIdle
  /\ UNCHANGED <<modsDir, tmp, launch, runtime, tools>>

\* The tool is killed: what it wrote stays.
ToolKilled ==
  /\ tool.pc # "idle"
  /\ tool' = ToolIdle
  /\ UNCHANGED <<modsDir, tmp, launch, runtime, tools>>

-----------------------------------------------------------------------------
(* run_authority_runtime *)

\* Refused unless the directory is ready now; the runtime directory is rebuilt.
LaunchStarts ==
  /\ launch.pc \in {"idle", "running"}
  /\ evaluate_world_mods
  /\ launch' = [LaunchIdle EXCEPT !.pc = "reset"]
  /\ UNCHANGED <<modsDir, tmp, tool, runtime, tools>>

reset_runtime_directory ==
  /\ launch.pc = "reset"
  /\ runtime' = {}
  /\ launch' = [launch EXCEPT !.pc = "evaluate"]
  /\ UNCHANGED <<modsDir, tmp, tool, tools>>

\* install_verified_user_mods evaluates again and then copies name by name.
VerifyAgain ==
  /\ launch.pc = "evaluate"
  /\ launch' = IF evaluate_world_mods
               THEN [pc |-> "copy", list |-> {n \in Installed : modsDir[n].id \in Required}]
               ELSE LaunchIdle
  /\ UNCHANGED <<modsDir, tmp, tool, runtime, tools>>

CopyMod(n) ==
  /\ launch.pc = "copy" /\ n \in launch.list
  /\ IF modsDir[n] = NoFile THEN launch' = LaunchIdle /\ UNCHANGED runtime
     ELSE /\ runtime' = runtime \cup {modsDir[n]}
          /\ launch' = [launch EXCEPT !.list = @ \ {n}]
  /\ UNCHANGED <<modsDir, tmp, tool, tools>>

LaunchRuns ==
  /\ launch.pc = "copy" /\ launch.list = {}
  /\ launch' = [LaunchIdle EXCEPT !.pc = "running"]
  /\ UNCHANGED <<modsDir, tmp, tool, runtime, tools>>

ModsNext ==
  \/ \E jar \in Jar : ModsAdd(jar)
  \/ \E served \in Files : download_curseforge_artifact(served) \/ acquire_modrinth(served, FALSE)
                                                              \/ acquire_modrinth(served, TRUE)
  \/ \E answered \in BOOLEAN, meta \in FileMetadata : curseforge_json(answered, meta)
  \/ \E permitted \in BOOLEAN : curseforge_download_url(permitted)
  \/ VerifyDownload \/ Acquire \/ AcquireEnds \/ ToolKilled
  \/ CheckExists \/ OpenTmp \/ WriteTmp \/ PublishTmp \/ UnlinkJar
  \/ \E id \in Ids : ModsRemove(id) \/ NextPackage(id)
  \/ LaunchStarts \/ reset_runtime_directory \/ VerifyAgain \/ LaunchRuns
  \/ \E n \in Names : CopyMod(n)

ModsSpec == ModsInit /\ [][ModsNext]_modVars

-----------------------------------------------------------------------------
\* A running authority has loaded every required mod with its published bytes
\* and no other user mod, however the directory changed while it was staged.
RunsCanonicalMods ==
  launch.pc = "running" => runtime = {Canonical(id) : id \in Required}
=============================================================================
