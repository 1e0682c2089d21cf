--------------------------- MODULE ModrinthClient ---------------------------
(***************************************************************************)
(* Choosing and fetching mods from Modrinth                                *)
(* (crates/swarm-cli/src/package_provider/modrinth.rs, called by the       *)
(* desktop's launcher_commands.rs and launcher-controller.js): a project   *)
(* is resolved to one version, the required dependencies are walked depth  *)
(* first, one request to the provider each, and every selected file is     *)
(* downloaded, verified and published in the staging directory of its      *)
(* version.  Between two requests the provider may publish a version or    *)
(* withdraw one.                                                           *)
(*                                                                         *)
(* A version's metadata is its project, whether it fits the world          *)
(* (Minecraft version, loader, environment and release type) and its       *)
(* dependencies; Unset stands for an absent project or version id.          *)
(***************************************************************************)
EXTENDS Naturals, Sequences, FiniteSets

CONSTANTS Listing,     \* Listing[p] : the versions of project p, newest first
          Fitting,     \* the versions that fit the world
          Graphs,      \* the dependency lists considered: sequences by version
          Root,        \* the project the player selected
          MaxChanges,  \* bound: publications and withdrawals
          Unset

VARIABLES deps,         \* deps[v] : the dependencies of version v
          available,    \* the versions the provider serves
          phase,
          fetched,      \* the version resolve_version is called with, or Unset
          visiting,     \* the versions being walked, with their next dependency
          versions,     \* ResolutionState.versions
          selected,     \* ResolutionState.selected_by_project
          incompatible, \* ResolutionState.incompatibilities
          part,         \* the download at work: its version and temporary file
          packages,     \* files handed back: packages[v] or Unset
          changes

clientVars == <<deps, available, phase, fetched, visiting, versions, selected, incompatible,
                part, packages, changes>>

Projects == DOMAIN Listing
Versions == UNION {{Listing[p][i] : i \in DOMAIN Listing[p]} : p \in Projects}
ProjectOf(v) == CHOOSE p \in Projects : \E i \in DOMAIN Listing[p] : Listing[p][i] = v

Dependency == [kind : {"required", "optional", "incompatible", "embedded"},
               project : Projects \cup {Unset}, version : Versions \cup {Unset}]

Contents == {"whole", "short", "wrong"}
NoPart   == [version |-> Unset, file |-> Unset]

ClientConstants ==
  /\ \A p \in Projects : Listing[p] \in Seq(Versions)
  /\ \A p, q \in Projects : \A i \in DOMAIN Listing[p], j \in DOMAIN Listing[q] :
       Listing[p][i] = Listing[q][j] => p = q
  /\ Graphs \subseteq [Versions -> Seq(Dependency)]
  /\ Root \in Projects /\ MaxChanges \in Nat /\ Unset \notin Projects \cup Versions \cup Contents

ASSUME ClientAssumption == ClientConstants

ClientTypeOK ==
  /\ deps \in [Versions -> Seq(Dependency)]
  /\ available \in SUBSET Versions
  /\ phase \in {"idle", "root", "resolving", "resolved", "done", "failed"}
  /\ fetched \in Versions \cup {Unset}
  /\ visiting \in Seq([version : Versions, next : Nat])
  /\ versions \in SUBSET Versions
  /\ selected \in [Projects -> Versions \cup {Unset}]
  /\ incompatible \in SUBSET Dependency
  /\ part \in [version : Versions \cup {Unset}, file : Contents \cup {Unset}]
  /\ packages \in [Versions -> Contents \cup {Unset}]
  /\ changes \in 0..MaxChanges

ClientInit ==
  /\ deps \in Graphs
  /\ available = Versions
  /\ phase = "idle" /\ fetched = Unset /\ visiting = <<>>
  /\ versions = {} /\ selected = [p \in Projects |-> Unset] /\ incompatible = {}
  /\ part = NoPart /\ packages = [v \in Versions |-> Unset]
  /\ changes = 0

-----------------------------------------------------------------------------
(* ModrinthClient::versions and version: one request each *)

version_compatible(v) == v \in Fitting

\* The positions of a project's compatible versions in its listing.
versionsOf(p) ==
  {i \in DOMAIN Listing[p] : Listing[p][i] \in available /\ version_compatible(Listing[p][i])}

\* The first of them is the newest, if there is one.
Newest(p) == {Listing[p][i] : i \in {i \in versionsOf(p) : \A j \in versionsOf(p) : i <= j}}

ClientFails == phase' = "failed"

\* The newest compatible version of the selected project becomes the root.
modrinth_resolve_project ==
  /\ phase = "idle"
  /\ IF Newest(Root) = {} THEN ClientFails /\ UNCHANGED fetched
     ELSE phase' = "root" /\ fetched' \in Newest(Root)
  /\ UNCHANGED <<deps, available, visiting, versions, selected, incompatible, part, packages,
                 changes>>

\* resolve asks for the root version again by its id.
resolve ==
  /\ phase = "root"
  /\ IF fetched \in available THEN phase' = "resolving" ELSE ClientFails
  /\ UNCHANGED <<deps, available, fetched, visiting, versions, selected, incompatible, part,
                 packages, changes>>

-----------------------------------------------------------------------------
(* resolve_version *)

Visited(v) == \E i \in DOMAIN visiting : visiting[i].version = v

Enter(v) ==
  /\ selected' = [selected EXCEPT ![ProjectOf(v)] = v]
  /\ visiting' = Append(visiting, [version |-> v, next |-> 1])

\* A plausible slip: a project that has a version already is settled.
SettleProject ==
  /\ phase = "resolving" /\ fetched # Unset
  /\ fetched' = Unset
  /\ IF Visited(fetched) \/ ~version_compatible(fetched)
     THEN ClientFails /\ UNCHANGED <<visiting, selected>>
     ELSE IF selected[ProjectOf(fetched)] # Unset
          THEN UNCHANGED <<phase, visiting, selected>>
          ELSE Enter(fetched) /\ UNCHANGED phase
  /\ UNCHANGED <<deps, available, versions, incompatible, part, packages, changes>>

\* A version on the path is a cycle, a finished one is shared, an unfitting
\* one or a second one of its project fails; any other is entered.
resolve_version ==
  /\ phase = "resolving" /\ fetched # Unset
  /\ fetched' = Unset
  /\ \/ /\ Visited(fetched)
        /\ ClientFails /\ UNCHANGED <<visiting, selected>>
     \/ /\ ~Visited(fetched) /\ fetched \in versions
        /\ UNCHANGED <<phase, visiting, selected>>
     \/ /\ ~Visited(fetched) /\ fetched \notin versions
        /\ IF version_compatible(fetched) /\ selected[ProjectOf(fetched)] \in {Unset, fetched}
           THEN Enter(fetched) /\ UNCHANGED phase
           ELSE ClientFails /\ UNCHANGED <<visiting, selected>>
  /\ UNCHANGED <<deps, available, versions, incompatible, part, packages, changes>>

Walking == phase = "resolving" /\ fetched = Unset /\ visiting # <<>>
Top     == visiting[Len(visiting)]
Passed  == [visiting EXCEPT ![Len(visiting)] = [version |-> @.version, next |-> @.next + 1]]

\* resolve_required_dependency: an exact version, or the newest fitting one,
\* if the provider has it.
resolve_required_dependency(d) ==
  IF d.version # Unset
  THEN {v \in available : v = d.version /\ d.project \in {Unset, ProjectOf(v)}}
  ELSE IF d.project # Unset THEN Newest(d.project) ELSE {}

\* The next dependency of the version on top of the path.
WalkDependency ==
  /\ Walking /\ Top.next <= Len(deps[Top.version])
  /\ visiting' = Passed
  /\ LET d     == deps[Top.version][Top.next]
         found == resolve_required_dependency(d)
     IN \/ /\ d.kind = "required"
           /\ IF found = {} THEN ClientFails /\ UNCHANGED fetched
              ELSE fetched' \in found /\ UNCHANGED phase
           /\ UNCHANGED incompatible
        \/ /\ d.kind = "incompatible"
           /\ incompatible' = incompatible \cup {d}
           /\ UNCHANGED <<phase, fetched>>
        \/ /\ d.kind \in {"optional", "embedded"}
           /\ UNCHANGED <<phase, fetched, incompatible>>
  /\ UNCHANGED <<deps, available, versions, selected, part, packages, changes>>

\* All dependencies walked: the version is done.
LeaveVersion ==
  /\ Walking /\ Top.next > Len(deps[Top.version])
  /\ versions' = versions \cup {Top.version}
  /\ visiting' = SubSeq(visiting, 1, Len(visiting) - 1)
  /\ UNCHANGED <<deps, available, phase, fetched, selected, incompatible, part, packages, changes>>

validate_incompatibilities ==
  \A d \in incompatible :
    IF d.version # Unset THEN d.version \notin versions
    ELSE d.project # Unset => selected[d.project] = Unset

Resolved ==
  /\ phase = "resolving" /\ fetched = Unset /\ visiting = <<>>
  /\ IF validate_incompatibilities THEN phase' = "resolved" ELSE ClientFails
  /\ UNCHANGED <<deps, available, fetched, visiting, versions, selected, incompatible, part,
                 packages, changes>>

-----------------------------------------------------------------------------
(* download *)

\* The version is asked for once more; its file arrives whole, cut short or
\* altered, or the transfer fails and the temporary file is removed.
download(v) ==
  /\ phase = "resolved" /\ part = NoPart
  /\ v \in versions /\ packages[v] = Unset
  /\ IF v \in available
     THEN \/ \E file \in Contents : part' = [version |-> v, file |-> file] /\ UNCHANGED phase
          \/ ClientFails /\ UNCHANGED part
     ELSE ClientFails /\ UNCHANGED part
  /\ UNCHANGED <<deps, available, fetched, visiting, versions, selected, incompatible, packages,
                 changes>>

\* metadata.len() against the size, verify_provider_hashes against the digest.
verification == part.file = "whole"

publish_replace ==
  /\ phase = "resolved" /\ part # NoPart
  /\ IF verification
     THEN packages' = [packages EXCEPT ![part.version] = part.file] /\ UNCHANGED phase
     ELSE ClientFails /\ UNCHANGED packages
  /\ part' = NoPart
  /\ UNCHANGED <<deps, available, fetched, visiting, versions, selected, incompatible, changes>>

\* prepareModrinth returns the packages of the whole graph.
prepareModrinth ==
  /\ phase = "resolved" /\ part = NoPart
  /\ \A v \in versions : packages[v] # Unset
  /\ phase' = "done"
  /\ UNCHANGED <<deps, available, fetched, visiting, versions, selected, incompatible, part,
                 packages, changes>>

\* The provider publishes a version or withdraws one.
Change(v) ==
  /\ changes < MaxChanges /\ phase \notin {"done", "failed"}
  /\ available' = IF v \in available THEN available \ {v} ELSE available \cup {v}
  /\ changes' = changes + 1
  /\ UNCHANGED <<deps, phase, fetched, visiting, versions, selected, incompatible, part, packages>>

ClientNext ==
  \/ modrinth_resolve_project \/ resolve \/ resolve_version
  \/ WalkDependency \/ LeaveVersion \/ Resolved
  \/ \E v \in Versions : download(v) \/ Change(v)
  \/ publish_replace \/ prepareModrinth

ClientSpec == ClientInit /\ [][ClientNext]_clientVars

-----------------------------------------------------------------------------
Satisfies(v, d) ==
  /\ d.version # Unset => v = d.version
  /\ d.project # Unset => ProjectOf(v) = d.project

\* A graph that resolve returns is consistent, whatever the provider changed
\* while it was walked: every version fits, every required dependency is met
\* by a version of the graph, no project has two versions, and no version is
\* in the graph with one it calls incompatible (resolve_version and
\* validate_incompatibilities).  What is handed over in the end is that whole
\* graph, each file complete and unaltered (ModrinthClient::download).
VersionsConsistent ==
  /\ phase = "done" => \A v \in Versions : packages[v] = IF v \in versions THEN "whole" ELSE Unset
  /\ phase \in {"resolved", "done"} =>
    /\ versions \subseteq Fitting
    /\ \A v, w \in versions : ProjectOf(v) = ProjectOf(w) => v = w
    /\ \A v \in versions : \A i \in DOMAIN deps[v] :
         /\ deps[v][i].kind = "required" => \E w \in versions : Satisfies(w, deps[v][i])
         /\ deps[v][i].kind = "incompatible" =>
              \A w \in versions : Satisfies(w, deps[v][i]) =>
                deps[v][i].project = Unset /\ deps[v][i].version = Unset
=============================================================================
