-------------------------- MODULE CurseForgeClient --------------------------
(***************************************************************************)
(* Choosing and fetching mods from CurseForge                              *)
(* (apps/desktop/src-tauri/src/curseforge.rs, called by the desktop's      *)
(* launcher_commands.rs and launcher-controller.js).  Unlike Modrinth the  *)
(* dependencies name projects only, the graph is walked breadth first with *)
(* one choice per project, a dependency that is chosen already is never    *)
(* asked for again, and a file that is there already is not replaced.  The *)
(* provider may offer, hide or remove a file between any two requests.     *)
(*                                                                         *)
(* A file is its id; the newest is the one of the latest date, then of the *)
(* highest id.  The filter of the provider's listing and the tags of a     *)
(* file are two things: the client compares the tags itself.               *)
(***************************************************************************)
EXTENDS Naturals, Sequences, FiniteSets

CONSTANTS Catalog,      \* Catalog[f] : project, date, whether listed, tagged and named for a jar
          Relations,    \* the relations considered: sequences by file
          RootLists,    \* the projects one submit of the create form selects, in order
          MaxPackages,  \* MAX_DEPENDENCY_PACKAGES
          MaxMoves,     \* bound: changes of what the provider offers
          Missing

VARIABLES relations,    \* relations[f] : the dependencies of file f
          offer,        \* offer[f] : "available", "hidden" (isAvailable is false) or "removed"
          step,
          roots,        \* the selected projects that are left
          root,         \* the file curseforge_resolve is called with
          queue,        \* the files to expand
          current,      \* the file being expanded, or Missing, and its next relation
          chosen,       \* selected: the file of each project
          expanded,
          temp,         \* the partial file of the download at work
          stagedMods,       \* stagedMods[f] : the content of its destination, or Missing
          ready,        \* the files of this graph that were downloaded
          handed,       \* the graphs whose packages were handed back
          moves

forgeVars == <<relations, offer, step, roots, root, queue, current, chosen, expanded, temp,
               stagedMods, ready, handed, moves>>

Files    == DOMAIN Catalog
ModIds == {Catalog[f].project : f \in Files}
Kinds    == {"required", "optional", "incompatible", "embedded"}
Streams == {"whole", "short", "altered"}
NoFile   == [file |-> Missing, next |-> 0]
NoTemp   == [file |-> Missing, content |-> Missing]
Nothing  == [p \in ModIds |-> Missing]

Relation == [kind : Kinds, project : ModIds]

ForgeConstants ==
  /\ Relations \subseteq [Files -> Seq(Relation)] /\ RootLists \subseteq Seq(ModIds)
  /\ MaxMoves \in Nat /\ Missing \notin Files /\ Missing \notin Streams

ASSUME ForgeAssumption == ForgeConstants

Chosen == {f \in Files : \E p \in ModIds : chosen[p] = f}

ForgeTypeOK ==
  /\ relations \in [Files -> Seq(Relation)]
  /\ offer \in [Files -> {"available", "hidden", "removed"}]
  /\ step \in {"idle", "root", "resolving", "resolved", "done", "failed"}
  /\ roots \in Seq(ModIds) /\ root \in Files \cup {Missing} /\ queue \in Seq(Files)
  /\ current \in [file : Files \cup {Missing}, next : Nat]
  /\ chosen \in [ModIds -> Files \cup {Missing}] /\ expanded \in SUBSET Files
  /\ temp \in [file : Files \cup {Missing}, content : Streams \cup {Missing}]
  /\ stagedMods \in [Files -> Streams \cup {Missing}]
  /\ ready \in SUBSET Files /\ handed \in SUBSET (SUBSET Files) /\ moves \in 0..MaxMoves

ForgeInit ==
  /\ relations \in Relations /\ roots \in RootLists
  /\ offer = [f \in Files |-> "available"]
  /\ step = "idle" /\ root = Missing /\ queue = <<>> /\ current = NoFile
  /\ chosen = Nothing /\ expanded = {}
  /\ temp = NoTemp /\ stagedMods = [f \in Files |-> Missing]
  /\ ready = {} /\ handed = {} /\ moves = 0

-----------------------------------------------------------------------------
(* The requests *)

ForgeFails == step' = "failed"

\* The file being expanded has relations left.
Unrelated == current # NoFile /\ current.next <= Len(relations[current.file])

\* A request is refused, limited, malformed or not answered.
parse_json_response ==
  /\ \/ step \in {"idle", "root"}
     \/ step = "resolving" /\ Unrelated
     \/ step = "resolved" /\ ready # Chosen
  /\ ForgeFails /\ temp' = NoTemp
  /\ UNCHANGED <<relations, offer, roots, root, queue, current, chosen, expanded, stagedMods, ready,
                 handed, moves>>

files_for_project(p) ==
  {f \in Files : Catalog[f].project = p /\ Catalog[f].listed /\ offer[f] # "removed"}

\* An empty listing is asked for again without the loader, to name the gap:
\* it is an error either way.
compatible_files(p) == files_for_project(p)

fetch_file(f) == offer[f] # "removed"

safe_jar_filename(f) == Catalog[f].named

\* The tags of the file itself: the Minecraft version and Fabric.
validate_selected_file(f) == Catalog[f].tagged

\* The available file of the latest date, then of the highest id, if any.
select_best_file(fs) ==
  LET kept == {f \in fs : offer[f] = "available"}
  IN  {f \in kept : \A g \in kept :
         Catalog[g].date < Catalog[f].date \/ (Catalog[g].date = Catalog[f].date /\ g <= f)}

-----------------------------------------------------------------------------
(* resolve_dependency_graph *)

\* curseforge_resolve_project: every listed file is mapped, which its name may
\* prevent, and the best one becomes the root.
curseforge_resolve_project ==
  /\ step = "idle" /\ roots # <<>>
  /\ LET listed == compatible_files(Head(roots))
         best   == select_best_file(listed)
     IN  IF best = {} \/ \E f \in listed : ~safe_jar_filename(f)
         THEN ForgeFails /\ UNCHANGED root
         ELSE step' = "root" /\ root' \in best
  /\ UNCHANGED <<relations, offer, roots, queue, current, chosen, expanded, temp, stagedMods, ready,
                 handed, moves>>

\* curseforge_resolve asks for the root again by its id.
curseforge_resolve ==
  /\ step = "root"
  /\ IF fetch_file(root) /\ validate_selected_file(root)
     THEN /\ step' = "resolving"
          /\ chosen' = [chosen EXCEPT ![Catalog[root].project] = root]
          /\ queue' = <<root>>
     ELSE ForgeFails /\ UNCHANGED <<chosen, queue>>
  /\ UNCHANGED <<relations, offer, roots, root, current, expanded, temp, stagedMods, ready, handed, moves>>

pop_front ==
  /\ step = "resolving" /\ current = NoFile /\ queue # <<>>
  /\ queue' = Tail(queue)
  /\ IF Head(queue) \in expanded THEN UNCHANGED <<current, expanded>>
     ELSE /\ current' = [file |-> Head(queue), next |-> 1]
          /\ expanded' = expanded \cup {Head(queue)}
  /\ UNCHANGED <<relations, offer, step, roots, root, chosen, temp, stagedMods, ready, handed, moves>>

should_select_required_dependency(p) == chosen[p] = Missing

\* One relation: a required project without a file is asked for.
Relate ==
  /\ step = "resolving" /\ Unrelated
  /\ current' = [current EXCEPT !.next = @ + 1]
  /\ LET d    == relations[current.file][current.next]
         best == select_best_file(compatible_files(d.project))
     IN  IF d.kind # "required" \/ ~should_select_required_dependency(d.project)
         THEN UNCHANGED <<step, chosen, queue>>
         ELSE IF \/ Cardinality(Chosen) >= MaxPackages
                 \/ best = {}
                 \/ \E f \in best : ~validate_selected_file(f)
         THEN ForgeFails /\ UNCHANGED <<chosen, queue>>
         ELSE \E f \in best : /\ chosen' = [chosen EXCEPT ![d.project] = f]
                              /\ queue' = Append(queue, f)
                              /\ UNCHANGED step
  /\ UNCHANGED <<relations, offer, roots, root, expanded, temp, stagedMods, ready, handed, moves>>

detect_impossible_relations ==
  \A f \in Chosen : \A i \in DOMAIN relations[f] :
    relations[f][i].kind = "incompatible" => chosen[relations[f][i].project] = Missing

\* All relations of a file are walked.
Expanded ==
  /\ step = "resolving" /\ current # NoFile /\ ~Unrelated
  /\ current' = NoFile
  /\ IF detect_impossible_relations THEN UNCHANGED step ELSE ForgeFails
  /\ UNCHANGED <<relations, offer, roots, root, queue, chosen, expanded, temp, stagedMods, ready,
                 handed, moves>>

\* The graph is mapped, which the name of a file may prevent.
map_file ==
  /\ step = "resolving" /\ current = NoFile /\ queue = <<>>
  /\ IF detect_impossible_relations /\ \A f \in Chosen : safe_jar_filename(f)
     THEN step' = "resolved" ELSE ForgeFails
  /\ UNCHANGED <<relations, offer, roots, root, queue, current, chosen, expanded, temp, stagedMods,
                 ready, handed, moves>>

-----------------------------------------------------------------------------
(* curseforge_download, one file of the graph after the other *)

Next_file ==
  {f \in Chosen \ ready : \A g \in Chosen \ ready : Catalog[f].project <= Catalog[g].project}

\* The file is asked for by its id and streamed to a temporary file, never past
\* its declared size.  Without a URL, or with a forbidden one, the player is
\* asked for the file (manual_artifact_required) and the form does not go on.
download_artifact ==
  /\ step = "resolved" /\ temp = NoTemp /\ ready # Chosen
  /\ \/ \E f \in Next_file, content \in Streams :
           /\ fetch_file(f) /\ stagedMods[f] = Missing
           /\ temp' = [file |-> f, content |-> content]
           /\ UNCHANGED step
     \/ ForgeFails /\ UNCHANGED temp
  /\ UNCHANGED <<relations, offer, roots, root, queue, current, chosen, expanded, stagedMods, ready,
                 handed, moves>>

verify_download_size == temp.content # "short"

\* Without a published hash the size is all there is; hashes of algorithms the
\* client does not know are refused.
verify_provider_hashes ==
  \/ Catalog[temp.file].hashes = "none"
  \/ Catalog[temp.file].hashes = "known" /\ temp.content = "whole"

publish_verified_artifact ==
  /\ step = "resolved" /\ temp # NoTemp
  /\ IF verify_download_size /\ verify_provider_hashes
     THEN /\ stagedMods' = [stagedMods EXCEPT ![temp.file] = temp.content]
          /\ ready' = ready \cup {temp.file}
          /\ UNCHANGED step
     ELSE ForgeFails /\ UNCHANGED <<stagedMods, ready>>
  /\ temp' = NoTemp
  /\ UNCHANGED <<relations, offer, roots, root, queue, current, chosen, expanded, handed, moves>>

\* prepareCurseForge returns the packages; the next selected project is resolved
\* afresh, in the same staging session.
prepareCurseForge ==
  /\ step = "resolved" /\ temp = NoTemp /\ ready = Chosen
  /\ handed' = handed \cup {Chosen}
  /\ roots' = Tail(roots) /\ step' = IF Tail(roots) = <<>> THEN "done" ELSE "idle"
  /\ root' = Missing /\ chosen' = Nothing /\ expanded' = {} /\ ready' = {}
  /\ UNCHANGED <<relations, offer, queue, current, temp, stagedMods, moves>>

\* The provider offers, hides or removes a file.
Move(f) ==
  /\ moves < MaxMoves /\ step \notin {"done", "failed"}
  /\ \E o \in {"available", "hidden", "removed"} \ {offer[f]} : offer' = [offer EXCEPT ![f] = o]
  /\ moves' = moves + 1
  /\ UNCHANGED <<relations, step, roots, root, queue, current, chosen, expanded, temp, stagedMods,
                 ready, handed>>

ForgeNext ==
  \/ parse_json_response
  \/ curseforge_resolve_project \/ curseforge_resolve
  \/ pop_front \/ Relate \/ Expanded \/ map_file
  \/ download_artifact \/ publish_verified_artifact \/ prepareCurseForge
  \/ \E f \in Files : Move(f)

ForgeSpec == ForgeInit /\ [][ForgeNext]_forgeVars

-----------------------------------------------------------------------------
Whole(f) == stagedMods[f] = "whole" \/ (stagedMods[f] = "altered" /\ Catalog[f].hashes = "none")

\* A graph that resolve_dependency_graph returns is consistent, whatever the
\* provider changed while it was walked: every file is tagged for the world, the
\* project of every required relation has a file in it and the project of an
\* incompatible one has not.  What is handed back is that graph, every file as
\* long as declared and, where the provider publishes a hash, unaltered; a file
\* of an earlier graph is never replaced under it.
FilesConsistent ==
  \A graph \in handed \cup (IF step = "resolved" THEN {Chosen} ELSE {}) :
    /\ (graph \in handed \/ ready = graph) => \A f \in graph : Whole(f)
    /\ \A f \in graph :
         /\ Catalog[f].tagged
         /\ \A g \in graph : Catalog[f].project = Catalog[g].project => f = g
         /\ \A i \in DOMAIN relations[f] :
              LET met == \E g \in graph : Catalog[g].project = relations[f][i].project
              IN  /\ relations[f][i].kind = "required" => met
                  /\ relations[f][i].kind = "incompatible" => ~met
=============================================================================
