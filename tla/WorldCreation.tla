--------------------------- MODULE WorldCreation ----------------------------
(***************************************************************************)
(* Creating a world with mods from the desktop: the create form of         *)
(* launcher-controller.js, the canonical profile                           *)
(* (canonical_commands.rs, swarm-protocol/canonical_modpack.rs), the       *)
(* records create_canonical_world writes (canonical_world_commands.rs) and *)
(* the installation of the mods into the new world, with its retry.  The   *)
(* player clicks whenever a control lets them; every call of the form is   *)
(* awaited, and any of them may fail.                                      *)
(*                                                                         *)
(* A root is a mod the player selected; a provider answers with the        *)
(* packages of its resolved graph (ModrinthClient), each a project, a      *)
(* version and the dependencies kept for it.  The form is left by          *)
(* reloading the page.                                                     *)
(***************************************************************************)
EXTENDS Naturals, Sequences, FiniteSets

CONSTANTS Roots,       \* the mods on offer, in the order they are sorted
          Offers,      \* Offers[r] : the graphs a provider may answer with
          RecordOrder, \* the records of a world, in the order they are written
          MaxWorlds,   \* bound: worlds begun
          Null         \* a project or a version the provider did not state

\* A provider answers with a finite graph.
CreationConstants ==
  \A i \in DOMAIN Roots : \A graph \in Offers[Roots[i]] : IsFiniteSet(graph)
ASSUME CreationAssumption == CreationConstants

VARIABLES selection,  \* roots: the mods selected in the form
          submit,     \* whether the submit button is enabled
          notice,     \* what the form shows: the result of the last attempt
          flow,       \* the handler at work: its step, what it holds
          worlds,     \* worlds[i] : the records written and the profile of world i
          mods,       \* mods[i] : packages installed in world i
          loads       \* history: worlds finished since the page was loaded

creationVars == <<selection, submit, notice, flow, worlds, mods, loads>>

RootSet == {Roots[i] : i \in DOMAIN Roots}
RecordSet == {RecordOrder[i] : i \in DOMAIN RecordOrder}
Idle == [pc |-> "idle", todo |-> {}, packages |-> {}, world |-> 0, pending |-> <<>>]

Key(p)  == <<p.project, p.version>>
Package == UNION {UNION {g : g \in Offers[r]} : r \in RootSet}

CreationTypeOK ==
  /\ selection \subseteq RootSet
  /\ submit \in BOOLEAN
  /\ notice \in {"none", "working", "error", "repair", "created"}
  /\ flow.pc \in {"idle", "staging", "resolve", "create", "write", "install", "reload"}
  /\ \A p \in flow.packages : Key(p) \in {Key(q) : q \in Package}
  /\ flow.world \in 0..MaxWorlds
  /\ Len(worlds) = Len(mods) /\ Len(worlds) <= MaxWorlds
  /\ loads \subseteq DOMAIN worlds

CreationInit ==
  /\ selection = {} /\ submit = TRUE /\ notice = "none" /\ flow = Idle
  /\ worlds = <<>> /\ mods = <<>> /\ loads = {}

-----------------------------------------------------------------------------
(* The form *)

\* addRoot and the Remove button; neither is disabled while a world is made.
addRoot(r) ==
  /\ r \notin selection
  /\ selection' = selection \cup {r}
  /\ UNCHANGED <<submit, notice, flow, worlds, mods, loads>>

removeRoot(r) ==
  /\ r \in selection
  /\ selection' = selection \ {r}
  /\ UNCHANGED <<submit, notice, flow, worlds, mods, loads>>

\* The submit handler up to its first await.
Submit ==
  /\ submit /\ Len(worlds) < MaxWorlds
  /\ submit' = FALSE /\ notice' = "working"
  /\ flow' = [Idle EXCEPT !.pc = "staging"]
  /\ UNCHANGED <<selection, worlds, mods, loads>>

\* Its catch: the message, and the button again.
Refuse ==
  /\ notice' = "error" /\ submit' = TRUE /\ flow' = Idle
  /\ UNCHANGED <<selection, worlds, mods, loads>>

\* The steps before a world exists can fail: no staging directory, no answer.
CallFails == flow.pc \in {"staging", "resolve", "create"} /\ Refuse

\* provider_staging_dir; then the selected roots are taken over, sorted.
provider_staging_dir ==
  /\ flow.pc = "staging"
  /\ flow' = [flow EXCEPT !.pc = "resolve", !.todo = {i \in DOMAIN Roots : Roots[i] \in selection}]
  /\ UNCHANGED <<selection, submit, notice, worlds, mods, loads>>

\* new Map(...): of two packages with one key the later one stays.
Merge(old, new) == new \cup {p \in old : \A q \in new : Key(q) # Key(p)}

\* dependencyTargets: a dependency is kept with an exact version, given or
\* selected in the same graph; a required one without it fails the attempt.
dependencyTargets(p, graph) ==
  {d \in p.deps : /\ d.project # Null
                  /\ d.version # Null \/ \E q \in graph : q.project = d.project}

Unresolved(graph) ==
  \E p \in graph : \E d \in p.deps :
    d.kind = "required" /\ d.project # Null /\ d \notin dependencyTargets(p, graph)

\* canonicalPackageFromDownloaded for each package of the graph.
canonicalPackageFromDownloaded(p, graph) ==
  [p EXCEPT !.deps = {[d EXCEPT !.version =
                         IF @ # Null THEN @
                         ELSE (CHOOSE q \in graph : q.project = d.project).version] :
                      d \in dependencyTargets(p, graph)}]

Prepared(graph) == {canonicalPackageFromDownloaded(p, graph) : p \in graph}

\* prepareModrinth or prepareCurseForge for the next root.
prepareRoot ==
  /\ flow.pc = "resolve"
  /\ \E i \in flow.todo : \E graph \in Offers[Roots[i]] :
       /\ \A j \in flow.todo : i <= j
       /\ IF Unresolved(graph) \/ \E p \in graph : p.side = "client" THEN Refuse
          ELSE /\ flow' = [flow EXCEPT !.todo = @ \ {i}, !.packages = Merge(@, Prepared(graph))]
               /\ UNCHANGED <<selection, submit, notice, worlds, mods, loads>>

AllPrepared ==
  /\ flow.pc = "resolve" /\ flow.todo = {}
  /\ flow' = [flow EXCEPT !.pc = "create"]
  /\ UNCHANGED <<selection, submit, notice, worlds, mods, loads>>

-----------------------------------------------------------------------------
(* create_canonical_world *)

\* The form's dependencies carry no provider; DependencyRequest demands one.
Deserializes(packages) == \A p \in packages : p.deps = {}

\* CanonicalModpackV1::validate: one package per identity, a closed graph.
validate(packages) ==
  /\ \A p, q \in packages : Key(p) = Key(q) => p = q
  /\ \A p \in packages : \A d \in p.deps :
       LET met == \E q \in packages : Key(q) = <<d.project, d.version>>
       IN (d.kind = "required" => met) /\ (d.kind = "incompatible" => ~met)

create_canonical_world ==
  /\ flow.pc = "create"
  /\ IF Deserializes(flow.packages) /\ validate(flow.packages)
     THEN /\ worlds' = Append(worlds, [records |-> {}, profile |-> flow.packages])
          /\ mods' = Append(mods, {})
          /\ flow' = [flow EXCEPT !.pc = "write", !.world = Len(worlds) + 1]
          /\ UNCHANGED <<selection, submit, notice, loads>>
     ELSE Refuse

Unwritten == {i \in DOMAIN RecordOrder : RecordOrder[i] \notin worlds[flow.world].records}

\* The records are saved one after the other; the last one finishes the world.
SaveRecord ==
  /\ flow.pc = "write"
  /\ \E i \in Unwritten :
       /\ \A j \in Unwritten : i <= j
       /\ worlds' = [worlds EXCEPT ![flow.world].records = @ \cup {RecordOrder[i]}]
  /\ UNCHANGED <<selection, submit, notice, flow, mods, loads>>

\* A save fails: what was written stays, the form may be submitted again.
SaveFails ==
  /\ flow.pc = "write" /\ Unwritten # {}
  /\ Refuse

\* The packages in the order of their Map, which is that of the graphs.
Orders(packages) ==
  {s \in [1..Cardinality(packages) -> packages] : \A p \in packages : \E i \in DOMAIN s : s[i] = p}

Created ==
  /\ flow.pc = "write" /\ Unwritten = {}
  /\ loads' = loads \cup {flow.world}
  /\ \E s \in Orders(flow.packages) :
       flow' = [flow EXCEPT !.pc = "install", !.pending = s]
  /\ UNCHANGED <<selection, submit, notice, worlds, mods>>

-----------------------------------------------------------------------------
(* finishLocalModSetup and its retry *)

world_mods_add ==
  /\ flow.pc = "install" /\ flow.pending # <<>>
  /\ mods' = [mods EXCEPT ![flow.world] = @ \cup {Head(flow.pending)}]
  /\ flow' = [flow EXCEPT !.pending = Tail(@)]
  /\ UNCHANGED <<selection, submit, notice, worlds, loads>>

\* A plausible slip: an interrupted setup ends like any other failure.
OfferCreate ==
  /\ flow.pc = "install" /\ flow.pending # <<>>
  /\ notice' = "repair" /\ submit' = TRUE
  /\ flow' = [flow EXCEPT !.pc = "idle"]
  /\ UNCHANGED <<selection, worlds, mods, loads>>

\* An installation fails, before or after the file got there:
\* renderCreateRepairState offers to go on with what is left for this world;
\* the submit button stays disabled.
renderCreateRepairState ==
  /\ flow.pc = "install" /\ flow.pending # <<>>
  /\ notice' = "repair"
  /\ flow' = [flow EXCEPT !.pc = "idle"]
  /\ \E there \in {{}, {Head(flow.pending)}} :
       mods' = [mods EXCEPT ![flow.world] = @ \cup there]
  /\ UNCHANGED <<selection, submit, worlds, loads>>

\* A plausible slip: the package that failed is taken to be settled.
RetryAfterFailed ==
  /\ notice = "repair" /\ flow.pc = "idle"
  /\ flow' = [flow EXCEPT !.pc = "install", !.pending = Tail(@)]
  /\ notice' = "working"
  /\ UNCHANGED <<selection, submit, worlds, mods, loads>>

\* The retry button, disabled by its own click.
retry ==
  /\ notice = "repair" /\ flow.pc = "idle"
  /\ flow' = [flow EXCEPT !.pc = "install"]
  /\ notice' = "working"
  /\ UNCHANGED <<selection, submit, worlds, mods, loads>>

finishLocalModSetup ==
  /\ flow.pc = "install" /\ flow.pending = <<>>
  /\ notice' = "created" /\ submit' = FALSE
  /\ flow' = [flow EXCEPT !.pc = "reload"]
  /\ UNCHANGED <<selection, worlds, mods, loads>>

\* window.location.reload, or the player closes the window: a new page.
Reload ==
  /\ flow.pc = "reload" \/ (flow.pc = "idle" /\ notice = "repair")
  /\ selection' = {} /\ submit' = TRUE /\ notice' = "none" /\ flow' = Idle
  /\ loads' = {}
  /\ UNCHANGED <<worlds, mods>>

CreationNext ==
  \/ \E r \in RootSet : addRoot(r) \/ removeRoot(r)
  \/ Submit \/ CallFails \/ provider_staging_dir \/ prepareRoot \/ AllPrepared
  \/ create_canonical_world \/ SaveRecord \/ SaveFails \/ Created
  \/ world_mods_add \/ renderCreateRepairState \/ retry \/ finishLocalModSetup
  \/ Reload

CreationSpec == CreationInit /\ [][CreationNext]_creationVars

-----------------------------------------------------------------------------
\* "Retrying continues setup for this existing world and will not create a
\* second world": however setups fail and are retried, one page finishes at
\* most one world, and while that world is unfinished locally no other is
\* begun (the submit button in the inner catch of the submit handler).
OneWorldPerPage ==
  /\ Cardinality(loads) <= 1
  /\ loads # {} => ~submit /\ loads = {flow.world}

\* When the form reports the world as created, its signed profile, its
\* records and its local mods agree: every record is written and exactly the
\* profile's packages are installed, after any number of failures and retries
\* and whatever the player selected meanwhile (pendingPackages).
CreatedIsComplete ==
  notice = "created" =>
    /\ worlds[flow.world].records = RecordSet
    /\ mods[flow.world] = worlds[flow.world].profile
=============================================================================
