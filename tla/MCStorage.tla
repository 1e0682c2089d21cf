------------------------------- MODULE MCStorage -------------------------------
(***************************************************************************)
(* What is kept on disk, on small instances: the snapshots of a world, the *)
(* replicas pushed to other peers, the installed runtime, the server mods  *)
(* and an imported save.  They do not interact: a behaviour runs one of    *)
(* them, the others stay in an initial state.                              *)
(***************************************************************************)
EXTENDS SnapshotStore, ReplicaPush, RuntimeInstall, ServerMods, WorldImport

VARIABLE component      \* the component this behaviour runs

suiteVars == <<component, vars, pushVars, installVars, modVars, importVars>>

\* Three blobs, the first of two chunks.
MCSize == <<2, 1, 1>>

MCArtifacts == <<"java", "bridge">>

MCProvider == [lithium |-> "modrinth", carpet |-> "curseforge"]

MCSave == <<"level.dat", "region", "session.lock", "stats">>

MCParts == <<"metadata", "descriptor", "membership", "config">>

\* The two installers run the same code.
InstallerSymmetry == Permutations(Installers)

SuiteInit ==
    /\ component \in {"store", "push", "install", "mods", "import"}
    /\ Init
    /\ component # "store" => use = {"publish"} /\ blobs = {}
    /\ PushInit
    /\ InstallInit
    /\ component # "install" => \A k \in DOMAIN managed : managed[k] = 0
    /\ ModsInit
    /\ component # "mods" => \A n \in DOMAIN modsDir : modsDir[n] = NoFile
    /\ ImportInit
    /\ component # "import" => platform = "posix"

SuiteNext ==
    \/ /\ component = "store" /\ Next
       /\ UNCHANGED <<component, pushVars, installVars, modVars, importVars>>
    \/ /\ component = "push" /\ PushNext
       /\ UNCHANGED <<component, vars, installVars, modVars, importVars>>
    \/ /\ component = "install" /\ InstallNext
       /\ UNCHANGED <<component, vars, pushVars, modVars, importVars>>
    \/ /\ component = "mods" /\ ModsNext
       /\ UNCHANGED <<component, vars, pushVars, installVars, importVars>>
    \/ /\ component = "import" /\ ImportNext
       /\ UNCHANGED <<component, vars, pushVars, installVars, modVars>>

SuiteSpec == SuiteInit /\ [][SuiteNext]_suiteVars

-----------------------------------------------------------------------------
(* Every variable of the chosen component has its type. *)
SuiteTypeOK ==
    /\ component = "store" => TypeOK
    /\ component = "push" => PushTypeOK
    /\ component = "install" => InstallTypeOK
    /\ component = "mods" => ModsTypeOK
    /\ component = "import" => ImportTypeOK
=============================================================================
