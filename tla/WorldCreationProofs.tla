------------------------- MODULE WorldCreationProofs -------------------------
(***************************************************************************)
(* The create form stands for one world however often it is submitted, and *)
(* a world it reports created has all its records and mods, for any        *)
(* selection and whatever call fails.  The mods the providers' clients     *)
(* hand it are a consistent graph, for any listing and any dependencies,   *)
(* whatever the providers change while it is walked.                       *)
(***************************************************************************)
EXTENDS WorldCreation, ModProviders, FiniteSetTheorems, TLAPS

(* A step that does not name the SMT solver is left to Zenon. *)
USE ZenonT(20)

-----------------------------------------------------------------------------
(* Creating a world.  The inductive invariant                              *)

Profiled == UNION {UNION {Prepared(g) : g \in Offers[Roots[i]]} : i \in DOMAIN Roots}
CreateSteps == {"idle", "staging", "resolve", "create", "write", "install", "reload"}

Handlers == [pc : CreateSteps, todo : SUBSET DOMAIN Roots, packages : SUBSET Profiled,
             world : Nat, pending : Seq(Profiled)]
StoredWorlds == [records : SUBSET RecordSet, profile : SUBSET Profiled]

CreationTyped ==
    /\ flow \in Handlers
    /\ IsFiniteSet(flow.packages)
    /\ worlds \in Seq(StoredWorlds)
    /\ mods \in Seq(SUBSET Profiled)
    /\ Len(mods) = Len(worlds)
    /\ submit \in BOOLEAN

(* The form offers to go on with a setup that failed. *)
Repairing == flow.pc = "idle" /\ notice = "repair"
Begun == flow.pc \in {"write", "install", "reload"} \/ Repairing
Finished == flow.pc \in {"install", "reload"} \/ Repairing
Pending == {flow.pending[i] : i \in DOMAIN flow.pending}

(* While its records are written the world has no mods and the profile     *)
(* that was resolved; once they are, what is installed and what is pending *)
(* make up the profile, and the form cannot be submitted again.            *)
CreationInv ==
    /\ CreationTyped
    /\ Begun => flow.world \in 1 .. Len(worlds)
    /\ flow.pc = "write" => mods[flow.world] = {} /\ worlds[flow.world].profile = flow.packages
    /\ Finished => /\ worlds[flow.world].records = RecordSet
                   /\ mods[flow.world] \cup Pending = worlds[flow.world].profile
                   /\ loads = {flow.world}
    /\ ~Finished => loads = {}
    /\ flow.pc = "reload" => flow.pending = <<>>
    /\ notice = "created" => flow.pc = "reload"
    /\ submit => flow.pc = "idle" /\ ~Repairing

-----------------------------------------------------------------------------
(* Lemmas                                                                  *)

(* A graph is prepared package by package, so the result is finite. *)
LEMMA PreparedFinite ==
    ASSUME CreationConstants, NEW i \in DOMAIN Roots, NEW g \in Offers[Roots[i]]
    PROVE  IsFiniteSet(Prepared(g)) /\ Prepared(g) \subseteq Profiled
<1> DEFINE f == [p \in g |-> canonicalPackageFromDownloaded(p, g)]
<1>1. IsFiniteSet(g)
  BY DEF CreationConstants
<1>2. f \in Surjection(g, Prepared(g))
  BY DEF Surjection, Prepared
<1>3. IsFiniteSet(Prepared(g))
  BY <1>1, <1>2, FS_Surjection
<1>4. Prepared(g) \subseteq Profiled
  BY SMTT(30) DEF Profiled
<1> QED
  BY <1>3, <1>4

(* Of two finite sets of packages, what stays of both is finite. *)
LEMMA MergeFinite ==
    ASSUME NEW S \in SUBSET Profiled, NEW T \in SUBSET Profiled, IsFiniteSet(S), IsFiniteSet(T)
    PROVE  IsFiniteSet(Merge(S, T)) /\ Merge(S, T) \subseteq Profiled
<1>1. Merge(S, T) \in SUBSET (S \cup T)
  BY DEF Merge
<1>2. IsFiniteSet(S \cup T)
  BY FS_Union
<1> QED
  BY <1>1, <1>2, FS_Subset

(* An order of the packages lists each of them and nothing else. *)
LEMMA OrderListsAll ==
    ASSUME NEW S \in SUBSET Profiled, IsFiniteSet(S), NEW s \in Orders(S)
    PROVE  s \in Seq(Profiled) /\ {s[i] : i \in DOMAIN s} = S
<1>1. Cardinality(S) \in Nat
  BY FS_CardinalityType
<1>2. /\ s \in [1 .. Cardinality(S) -> S]
      /\ \A p \in S : \E i \in DOMAIN s : s[i] = p
  BY DEF Orders
<1>3. s \in Seq(Profiled)
  BY <1>1, <1>2, SMTT(30)
<1>4. {s[i] : i \in DOMAIN s} = S
  BY <1>2
<1> QED
  BY <1>3, <1>4

(* Installing the first pending package leaves the others pending. *)
LEMMA FirstInstalled ==
    ASSUME NEW s \in Seq(Profiled), s # <<>>
    PROVE  /\ Head(s) \in Profiled /\ Tail(s) \in Seq(Profiled)
           /\ {s[i] : i \in DOMAIN s} = {Head(s)} \cup {Tail(s)[i] : i \in DOMAIN Tail(s)}
<1>1. /\ Len(s) \in Nat /\ Len(s) >= 1 /\ DOMAIN s = 1 .. Len(s)
      /\ Head(s) = s[1] /\ Head(s) \in Profiled
      /\ Tail(s) \in Seq(Profiled) /\ DOMAIN Tail(s) = 1 .. Len(s) - 1
      /\ \A i \in 1 .. Len(s) - 1 : Tail(s)[i] = s[i + 1]
  BY SMTT(30)
<1>2. ASSUME NEW i \in DOMAIN s
      PROVE  s[i] \in {Head(s)} \cup {Tail(s)[j] : j \in DOMAIN Tail(s)}
  <2>1. CASE i = 1
    BY <1>1, <2>1
  <2>2. CASE i # 1
    <3>1. i - 1 \in DOMAIN Tail(s) /\ Tail(s)[i - 1] = s[i]
      BY <1>1, <2>2, SMTT(30)
    <3> QED
      BY <3>1
  <2> QED
    BY <2>1, <2>2
<1>3. Head(s) \in {s[i] : i \in DOMAIN s}
  BY <1>1, SMTT(30)
<1>4. \A j \in DOMAIN Tail(s) : Tail(s)[j] \in {s[i] : i \in DOMAIN s}
  BY <1>1, SMTT(30)
<1>5. {s[i] : i \in DOMAIN s} \subseteq {Head(s)} \cup {Tail(s)[i] : i \in DOMAIN Tail(s)}
  BY <1>2
<1>6. {Head(s)} \cup {Tail(s)[i] : i \in DOMAIN Tail(s)} \subseteq {s[i] : i \in DOMAIN s}
  BY <1>3, <1>4
<1> QED
  BY <1>1, <1>5, <1>6

-----------------------------------------------------------------------------
(* Every step preserves the invariant                                      *)

(* An attempt refused before its world is finished leaves nothing behind   *)
(* in the form.                                                            *)
LEMMA RefusalKeepsInv ==
    ASSUME CreationInv, Refuse, ~Finished
    PROVE  CreationInv'
<1>1. /\ flow' = Idle /\ notice' = "error" /\ submit' = TRUE
      /\ UNCHANGED <<worlds, mods, loads>>
  BY DEF Refuse
<1>2. /\ flow'.pc = "idle" /\ flow'.pending = <<>> /\ flow'.packages = {}
      /\ flow' \in Handlers
  BY <1>1, SMTT(30) DEF Idle, Handlers, CreateSteps
<1>3. CreationTyped'
  BY <1>1, <1>2, FS_EmptySet DEF CreationInv, CreationTyped
<1>4. ~Repairing' /\ ~Begun' /\ ~Finished' /\ loads' = {}
  BY <1>1, <1>2, SMTT(30) DEF CreationInv, Repairing, Begun, Finished
<1> QED
  BY <1>1, <1>2, <1>3, <1>4, SMTT(30) DEF CreationInv

(* Before the world exists the handler only fills in what it holds. *)
LEMMA PreparingKeepsInv ==
    ASSUME CreationInv, ~Begun, UNCHANGED <<submit, notice, worlds, mods, loads>>,
           flow.pc # "idle", flow'.pc \in {"staging", "resolve", "create"},
           flow' \in Handlers,
           IsFiniteSet(flow'.packages)
    PROVE  CreationInv'
<1>1. CreationTyped'
  BY DEF CreationInv, CreationTyped
<1>2. ~Repairing' /\ ~Begun' /\ ~Finished' /\ ~Finished /\ ~submit /\ notice # "created"
  BY SMTT(30) DEF CreationInv, Repairing, Begun, Finished
<1> QED
  BY <1>1, <1>2, SMTT(30) DEF CreationInv

LEMMA FormKeepsInv ==
    ASSUME CreationInv,
           \/ \E r \in RootSet : addRoot(r) \/ removeRoot(r)
           \/ Submit \/ CallFails \/ SaveFails \/ provider_staging_dir \/ AllPrepared
    PROVE  CreationInv'
<1>1. CASE \E r \in RootSet : addRoot(r) \/ removeRoot(r)
  BY <1>1, SMTT(30) DEF CreationInv, CreationTyped, Repairing, Begun, Finished, Pending,
     addRoot, removeRoot
<1>2. CASE Submit
  <2>1. /\ submit /\ flow' = [Idle EXCEPT !.pc = "staging"] /\ notice' = "working"
        /\ submit' = FALSE /\ UNCHANGED <<worlds, mods, loads>>
    BY <1>2 DEF Submit
  <2>2. Idle \in Handlers
    BY SMTT(30) DEF Idle, Handlers, CreateSteps
  <2>3. /\ flow'.pc = "staging" /\ flow'.packages = {}
    BY <2>1, SMTT(30) DEF Idle
  <2>4. flow' \in Handlers
    BY <2>1, <2>2 DEF Handlers, CreateSteps
  <2>5. CreationTyped'
    BY <2>1, <2>3, <2>4, FS_EmptySet DEF CreationInv, CreationTyped
  <2>6. ~Repairing' /\ ~Begun' /\ ~Finished' /\ loads' = {}
    BY <2>1, <2>3, SMTT(30) DEF CreationInv, Repairing, Begun, Finished
  <2> QED
    BY <2>1, <2>5, <2>6, <2>3, SMTT(30) DEF CreationInv
<1>3. CASE CallFails \/ SaveFails
  <2>1. Refuse /\ ~Finished
    BY <1>3, SMTT(30) DEF CallFails, SaveFails, Finished, Repairing
  <2> QED
    BY <2>1, RefusalKeepsInv
<1>4. CASE provider_staging_dir
  <2> DEFINE ticked == {i \in DOMAIN Roots : Roots[i] \in selection}
  <2>1. /\ flow.pc = "staging" /\ UNCHANGED <<submit, notice, worlds, mods, loads>>
        /\ flow' = [flow EXCEPT !.pc = "resolve", !.todo = ticked]
        /\ ticked \in SUBSET DOMAIN Roots
    BY <1>4 DEF provider_staging_dir
  <2> HIDE DEF ticked
  <2>2. flow \in Handlers /\ IsFiniteSet(flow.packages)
    BY DEF CreationInv, CreationTyped
  <2>3. flow'.pc = "resolve" /\ flow'.packages = flow.packages /\ flow' \in Handlers
    BY <2>1, <2>2 DEF Handlers, CreateSteps
  <2>4. ~Begun /\ flow.pc # "idle"
    BY <2>1, SMTT(30) DEF Begun, Repairing
  <2> QED
    BY <2>1, <2>2, <2>3, <2>4, PreparingKeepsInv
<1>5. CASE AllPrepared
  <2>1. /\ flow.pc = "resolve" /\ UNCHANGED <<submit, notice, worlds, mods, loads>>
        /\ flow' = [flow EXCEPT !.pc = "create"]
    BY <1>5 DEF AllPrepared
  <2>2. flow \in Handlers /\ IsFiniteSet(flow.packages)
    BY DEF CreationInv, CreationTyped
  <2>3. flow'.pc = "create" /\ flow'.packages = flow.packages /\ flow' \in Handlers
    BY <2>1, <2>2 DEF Handlers, CreateSteps
  <2>4. ~Begun /\ flow.pc # "idle"
    BY <2>1, SMTT(30) DEF Begun, Repairing
  <2> QED
    BY <2>1, <2>2, <2>3, <2>4, PreparingKeepsInv
<1> QED
  BY <1>1, <1>2, <1>3, <1>4, <1>5

LEMMA PrepareKeepsInv ==
    ASSUME CreationConstants, CreationInv, prepareRoot
    PROVE  CreationInv'
<1>1. flow.pc = "resolve" /\ ~Finished /\ ~Begun /\ flow.pc # "idle"
  BY SMTT(30) DEF prepareRoot, Finished, Begun, Repairing
<1>2. PICK i \in flow.todo : \E graph \in Offers[Roots[i]] :
        \/ Refuse
        \/ /\ flow' = [flow EXCEPT !.todo = @ \ {i}, !.packages = Merge(@, Prepared(graph))]
           /\ UNCHANGED <<selection, submit, notice, worlds, mods, loads>>
  BY DEF prepareRoot
<1>3. PICK graph \in Offers[Roots[i]] :
        \/ Refuse
        \/ /\ flow' = [flow EXCEPT !.todo = @ \ {i}, !.packages = Merge(@, Prepared(graph))]
           /\ UNCHANGED <<selection, submit, notice, worlds, mods, loads>>
  BY <1>2
<1>4. CASE Refuse
  BY <1>1, <1>4, RefusalKeepsInv
<1>5. CASE /\ flow' = [flow EXCEPT !.todo = @ \ {i}, !.packages = Merge(@, Prepared(graph))]
           /\ UNCHANGED <<selection, submit, notice, worlds, mods, loads>>
  <2>1. flow \in Handlers /\ IsFiniteSet(flow.packages)
    BY DEF CreationInv, CreationTyped
  <2>2. flow.packages \in SUBSET Profiled /\ i \in DOMAIN Roots
    BY <2>1, SMTT(30) DEF Handlers
  <2>3. Prepared(graph) \in SUBSET Profiled /\ IsFiniteSet(Prepared(graph))
    BY <2>2, PreparedFinite
  <2>4. Merge(flow.packages, Prepared(graph)) \in SUBSET Profiled
        /\ IsFiniteSet(Merge(flow.packages, Prepared(graph)))
    BY <2>1, <2>2, <2>3, MergeFinite
  <2>5. /\ flow'.pc = "resolve" /\ flow'.packages = Merge(flow.packages, Prepared(graph))
        /\ flow' \in Handlers
    BY <1>1, <1>5, <2>1, <2>4 DEF Handlers
  <2> QED
    BY <1>1, <1>5, <2>4, <2>5, PreparingKeepsInv
<1> QED
  BY <1>3, <1>4, <1>5

(* A new world has no record and no mod yet. *)
LEMMA CreateKeepsInv ==
    ASSUME CreationInv, create_canonical_world
    PROVE  CreationInv'
<1>1. flow.pc = "create" /\ ~Finished /\ ~Begun
  BY SMTT(30) DEF create_canonical_world, Finished, Begun, Repairing
<1>2. CASE Refuse
  BY <1>1, <1>2, RefusalKeepsInv
<1>3. CASE /\ worlds' = Append(worlds, [records |-> {}, profile |-> flow.packages])
           /\ mods' = Append(mods, {})
           /\ flow' = [flow EXCEPT !.pc = "write", !.world = Len(worlds) + 1]
           /\ UNCHANGED <<selection, submit, notice, loads>>
  <2> DEFINE new == [records |-> {}, profile |-> flow.packages]
  <2>1. /\ flow \in Handlers /\ IsFiniteSet(flow.packages) /\ worlds \in Seq(StoredWorlds)
        /\ mods \in Seq(SUBSET Profiled) /\ Len(mods) = Len(worlds) /\ submit \in BOOLEAN
    BY DEF CreationInv, CreationTyped
  <2>2. new \in StoredWorlds /\ new.profile = flow.packages
    BY <2>1, SMTT(30) DEF Handlers, StoredWorlds
  <2>10. Len(worlds) + 1 \in Nat
    BY <2>1, SMTT(30)
  <2>3. /\ flow'.pc = "write" /\ flow'.packages = flow.packages
        /\ flow'.world = Len(worlds) + 1 /\ flow' \in Handlers
    BY <1>3, <2>1, <2>10 DEF Handlers, CreateSteps
  <2> HIDE DEF new
  <2>4. /\ worlds' \in Seq(StoredWorlds) /\ Len(worlds') = Len(worlds) + 1
        /\ worlds'[Len(worlds) + 1] = new
        /\ Len(worlds) + 1 \in 1 .. Len(worlds')
    BY <1>3, <2>1, <2>2, SMTT(30) DEF new
  <2>5. /\ mods' \in Seq(SUBSET Profiled) /\ Len(mods') = Len(worlds')
        /\ mods'[Len(worlds) + 1] = {}
    BY <1>3, <2>1, <2>4, SMTT(30)
  <2>6. CreationTyped'
    BY <1>3, <2>1, <2>3, <2>4, <2>5 DEF CreationTyped
  <2>7. ~Repairing' /\ ~Finished' /\ loads' = {} /\ ~submit' /\ notice' # "created"
    BY <1>1, <1>3, <2>3, SMTT(30) DEF CreationInv, Repairing, Finished
  <2>8. mods'[flow'.world] = {} /\ worlds'[flow'.world].profile = flow'.packages
    BY <2>2, <2>3, <2>4, <2>5
  <2>9. flow'.world \in 1 .. Len(worlds') /\ flow'.pc # "reload"
    BY <2>3, <2>4
  <2> QED
    BY <2>6, <2>7, <2>8, <2>9, SMTT(30) DEF CreationInv
<1> QED
  BY <1>2, <1>3 DEF create_canonical_world

(* A record is added to the world at hand and to no other. *)
LEMMA SaveKeepsInv ==
    ASSUME CreationInv, SaveRecord
    PROVE  CreationInv'
<1> DEFINE w == flow.world
<1>1. PICK i \in DOMAIN RecordOrder :
        worlds' = [worlds EXCEPT ![w].records = @ \cup {RecordOrder[i]}]
  BY DEF SaveRecord, Unwritten
<1>2. flow.pc = "write" /\ UNCHANGED <<submit, notice, flow, mods, loads>>
  BY DEF SaveRecord
<1>3. /\ worlds \in Seq(StoredWorlds) /\ w \in 1 .. Len(worlds) /\ RecordOrder[i] \in RecordSet
      /\ mods[w] = {} /\ worlds[w].profile = flow.packages
  BY <1>1, <1>2 DEF CreationInv, CreationTyped, Begun, RecordSet
<1> DEFINE new == [worlds[w] EXCEPT !.records = @ \cup {RecordOrder[i]}]
<1>4. worlds[w] \in StoredWorlds
  BY <1>3, SMTT(30)
<1>5. new \in StoredWorlds /\ new.profile = worlds[w].profile
  BY <1>3, <1>4 DEF StoredWorlds
<1>6. worlds' = [worlds EXCEPT ![w] = new]
  BY <1>1
<1> HIDE DEF new
<1>9. worlds' \in Seq(StoredWorlds) /\ Len(worlds') = Len(worlds) /\ worlds'[w] = new
  <2>1. /\ [worlds EXCEPT ![w] = new] \in Seq(StoredWorlds)
        /\ Len([worlds EXCEPT ![w] = new]) = Len(worlds) /\ [worlds EXCEPT ![w] = new][w] = new
    BY <1>3, <1>5, SMTT(30)
  <2> QED
    BY <1>6, <2>1
<1>10. CreationTyped'
  BY <1>2, <1>9 DEF CreationInv, CreationTyped
<1>11. worlds'[w].profile = flow.packages
  BY <1>3, <1>5, <1>9
<1>12. /\ ~Repairing /\ ~Repairing' /\ ~Finished /\ ~Finished' /\ loads' = {}
       /\ notice' # "created" /\ ~submit'
  BY <1>2, SMTT(30) DEF CreationInv, Repairing, Finished
<1> QED
  BY <1>2, <1>3, <1>9, <1>10, <1>11, <1>12, SMTT(30) DEF CreationInv

(* With its last record the world is finished, and every package of its    *)
(* profile is pending.                                                     *)
LEMMA FinishKeepsInv ==
    ASSUME CreationInv, Created
    PROVE  CreationInv'
<1>1. PICK s \in Orders(flow.packages) : flow' = [flow EXCEPT !.pc = "install", !.pending = s]
  BY DEF Created
<1>2. /\ flow.pc = "write" /\ Unwritten = {} /\ loads' = loads \cup {flow.world}
      /\ UNCHANGED <<submit, notice, worlds, mods>>
  BY DEF Created
<1>3. /\ flow \in Handlers /\ IsFiniteSet(flow.packages)
      /\ worlds \in Seq(StoredWorlds) /\ flow.world \in 1 .. Len(worlds)
      /\ mods[flow.world] = {} /\ worlds[flow.world].profile = flow.packages
  BY <1>2 DEF CreationInv, CreationTyped, Begun
<1>4. flow.packages \in SUBSET Profiled
  BY <1>3 DEF Handlers
<1>5. s \in Seq(Profiled) /\ {s[i] : i \in DOMAIN s} = flow.packages
  BY <1>1, <1>3, <1>4, OrderListsAll
<1>6. /\ flow'.pc = "install" /\ flow'.packages = flow.packages /\ flow'.world = flow.world
      /\ flow'.pending = s /\ flow' \in Handlers
  BY <1>1, <1>3, <1>5 DEF Handlers, CreateSteps
<1>7. worlds[flow.world].records = RecordSet
  <2>3. worlds[flow.world] \in StoredWorlds
    BY <1>3, SMTT(30)
  <2>1. worlds[flow.world].records \subseteq RecordSet
    BY <2>3 DEF StoredWorlds
  <2>2. RecordSet \subseteq worlds[flow.world].records
    BY <1>2 DEF Unwritten, RecordSet
  <2> QED
    BY <2>1, <2>2
<1>8. CreationTyped'
  BY <1>2, <1>3, <1>6 DEF CreationInv, CreationTyped
<1>9. mods'[flow'.world] \cup Pending' = worlds'[flow'.world].profile
  BY <1>2, <1>3, <1>5, <1>6 DEF Pending
<1>10. /\ ~Finished /\ Finished' /\ ~Repairing /\ ~Repairing' /\ loads' = {flow'.world}
       /\ notice' # "created" /\ ~submit'
  BY <1>2, <1>6, SMTT(30) DEF CreationInv, Repairing, Finished
<1> QED
  BY <1>2, <1>3, <1>6, <1>7, <1>8, <1>9, <1>10, SMTT(30) DEF CreationInv

(* The local setup moves packages from the pending ones to the world's     *)
(* mods, and loses none when it fails.                                     *)
LEMMA SetupKeepsInv ==
    ASSUME CreationInv, world_mods_add \/ renderCreateRepairState
    PROVE  CreationInv'
<1> DEFINE w == flow.world
           first == Head(flow.pending)
<1>1. /\ flow.pc = "install" /\ flow.pending # <<>>
      /\ UNCHANGED <<submit, worlds, loads>>
  BY DEF world_mods_add, renderCreateRepairState
<1>2. Finished /\ Begun /\ ~submit /\ notice # "created"
  BY <1>1, SMTT(30) DEF CreationInv, Finished, Begun
<1>3. /\ flow \in Handlers /\ w \in 1 .. Len(worlds) /\ mods \in Seq(SUBSET Profiled)
      /\ Len(mods) = Len(worlds) /\ worlds[w].records = RecordSet
      /\ mods[w] \cup Pending = worlds[w].profile /\ loads = {w}
  BY <1>2 DEF CreationInv, CreationTyped
<1>4. flow.pending \in Seq(Profiled)
  BY <1>3 DEF Handlers
<1>5. /\ first \in Profiled /\ Tail(flow.pending) \in Seq(Profiled)
      /\ Pending = {first} \cup {Tail(flow.pending)[i] : i \in DOMAIN Tail(flow.pending)}
  BY <1>1, <1>4, FirstInstalled DEF Pending
<1>6. mods[w] \in SUBSET Profiled /\ w \in 1 .. Len(mods)
  BY <1>3, SMTT(30)
<1>7. CASE world_mods_add
  <2>1. /\ mods' = [mods EXCEPT ![w] = mods[w] \cup {first}]
        /\ flow' = [flow EXCEPT !.pending = Tail(flow.pending)] /\ notice' = notice
    BY <1>7 DEF world_mods_add
  <2>2. mods[w] \cup {first} \in SUBSET Profiled
    BY <1>5, <1>6
  <2>3. /\ [mods EXCEPT ![w] = mods[w] \cup {first}] \in Seq(SUBSET Profiled)
        /\ Len([mods EXCEPT ![w] = mods[w] \cup {first}]) = Len(mods)
        /\ [mods EXCEPT ![w] = mods[w] \cup {first}][w] = mods[w] \cup {first}
    BY <1>3, <1>6, <2>2, SMTT(30)
  <2>4. /\ flow'.pc = "install" /\ flow'.world = w /\ flow'.packages = flow.packages
        /\ flow'.pending = Tail(flow.pending) /\ flow' \in Handlers
    BY <1>1, <1>3, <1>5, <2>1 DEF Handlers
  <2>5. CreationTyped'
    BY <1>1, <1>3, <2>1, <2>3, <2>4 DEF CreationInv, CreationTyped
  <2>6. mods'[flow'.world] \cup Pending' = worlds'[flow'.world].profile
    <3> DEFINE rest == {Tail(flow.pending)[i] : i \in DOMAIN Tail(flow.pending)}
    <3>1. Pending' = rest
      BY <2>4 DEF Pending
    <3>2. (mods[w] \cup {first}) \cup rest = worlds[w].profile
      BY <1>3, <1>5
    <3> HIDE DEF rest
    <3> QED
      BY <1>1, <2>1, <2>3, <2>4, <3>1, <3>2
  <2>7. Finished' /\ ~Repairing' /\ notice' # "created" /\ ~submit'
    BY <1>1, <1>2, <2>1, <2>4, SMTT(30) DEF Finished, Repairing
  <2> QED
    BY <1>1, <1>3, <2>4, <2>5, <2>6, <2>7, SMTT(30) DEF CreationInv
<1>8. CASE renderCreateRepairState
  <2>1. PICK there \in {{}, {first}} : mods' = [mods EXCEPT ![w] = mods[w] \cup there]
    BY <1>8 DEF renderCreateRepairState
  <2>2. flow' = [flow EXCEPT !.pc = "idle"] /\ notice' = "repair"
    BY <1>8 DEF renderCreateRepairState
  <2>3. mods[w] \cup there \in SUBSET Profiled /\ there \subseteq Pending
    BY <1>5, <1>6
  <2>4. /\ [mods EXCEPT ![w] = mods[w] \cup there] \in Seq(SUBSET Profiled)
        /\ Len([mods EXCEPT ![w] = mods[w] \cup there]) = Len(mods)
        /\ [mods EXCEPT ![w] = mods[w] \cup there][w] = mods[w] \cup there
    BY <1>3, <1>6, <2>3, SMTT(30)
  <2>5. /\ flow'.pc = "idle" /\ flow'.world = w /\ flow'.packages = flow.packages
        /\ flow'.pending = flow.pending /\ flow' \in Handlers
    BY <1>3, <2>2 DEF Handlers, CreateSteps
  <2>6. CreationTyped'
    BY <1>1, <1>3, <2>1, <2>4, <2>5 DEF CreationInv, CreationTyped
  <2>7. mods'[flow'.world] \cup Pending' = worlds'[flow'.world].profile
    BY <1>1, <1>3, <2>1, <2>3, <2>4, <2>5 DEF Pending
  <2>8. Finished' /\ notice' # "created" /\ ~submit'
    BY <1>1, <1>2, <2>2, <2>5, SMTT(30) DEF Finished, Repairing
  <2> QED
    BY <1>1, <1>3, <2>5, <2>6, <2>7, <2>8, SMTT(30) DEF CreationInv
<1> QED
  BY <1>7, <1>8

LEMMA OutcomeKeepsInv ==
    ASSUME CreationInv, retry \/ finishLocalModSetup \/ Reload
    PROVE  CreationInv'
<1>1. CASE retry
  <2>1. /\ Repairing /\ flow' = [flow EXCEPT !.pc = "install"] /\ notice' = "working"
        /\ UNCHANGED <<submit, worlds, mods, loads>>
    BY <1>1 DEF retry, Repairing
  <2>2. Finished /\ Begun /\ flow \in Handlers
    BY <2>1 DEF Finished, Begun, CreationInv, CreationTyped
  <2>3. /\ flow'.pc = "install" /\ flow'.world = flow.world /\ flow'.packages = flow.packages
        /\ flow'.pending = flow.pending /\ flow' \in Handlers
    BY <2>1, <2>2 DEF Handlers, CreateSteps
  <2>4. CreationTyped' /\ Pending' = Pending
    BY <2>1, <2>3 DEF CreationInv, CreationTyped, Pending
  <2>5. Finished' /\ ~Repairing' /\ ~submit'
    BY <2>1, <2>3, SMTT(30) DEF CreationInv, Finished, Repairing
  <2> QED
    BY <2>1, <2>2, <2>3, <2>4, <2>5, SMTT(30) DEF CreationInv
<1>2. CASE finishLocalModSetup
  <2>1. /\ flow.pc = "install" /\ flow.pending = <<>> /\ flow' = [flow EXCEPT !.pc = "reload"]
        /\ notice' = "created" /\ submit' = FALSE /\ UNCHANGED <<worlds, mods, loads>>
    BY <1>2 DEF finishLocalModSetup
  <2>2. Finished /\ Begun /\ flow \in Handlers
    BY <2>1, SMTT(30) DEF Finished, Begun, CreationInv, CreationTyped
  <2>3. /\ flow'.pc = "reload" /\ flow'.world = flow.world /\ flow'.packages = flow.packages
        /\ flow'.pending = flow.pending /\ flow' \in Handlers
    BY <2>1, <2>2 DEF Handlers, CreateSteps
  <2>4. CreationTyped' /\ Pending' = Pending
    BY <2>1, <2>3 DEF CreationInv, CreationTyped, Pending
  <2>5. Finished' /\ ~Repairing'
    BY <2>3, SMTT(30) DEF Finished, Repairing
  <2> QED
    BY <2>1, <2>2, <2>3, <2>4, <2>5, SMTT(30) DEF CreationInv
<1>3. CASE Reload
  <2>1. /\ flow' = Idle /\ notice' = "none" /\ submit' = TRUE /\ loads' = {}
        /\ UNCHANGED <<worlds, mods>>
    BY <1>3 DEF Reload
  <2>2. flow'.pc = "idle" /\ flow'.packages = {} /\ flow' \in Handlers
    BY <2>1, SMTT(30) DEF Idle, Handlers, CreateSteps
  <2>3. CreationTyped'
    BY <2>1, <2>2, FS_EmptySet DEF CreationInv, CreationTyped
  <2>4. ~Repairing' /\ ~Begun' /\ ~Finished'
    BY <2>1, <2>2, SMTT(30) DEF Repairing, Begun, Finished
  <2> QED
    BY <2>1, <2>2, <2>3, <2>4, SMTT(30) DEF CreationInv
<1> QED
  BY <1>1, <1>2, <1>3

LEMMA CreationInvStep ==
    ASSUME CreationConstants, CreationInv, [CreationNext]_creationVars
    PROVE  CreationInv'
<1>1. CASE UNCHANGED creationVars
  BY <1>1, SMTT(30) DEF creationVars, CreationInv, CreationTyped, Repairing, Begun, Finished, Pending
<1>2. CASE prepareRoot
  BY <1>2, PrepareKeepsInv
<1>3. CASE create_canonical_world
  BY <1>3, CreateKeepsInv
<1>4. CASE SaveRecord
  BY <1>4, SaveKeepsInv
<1>5. CASE Created
  BY <1>5, FinishKeepsInv
<1>6. CASE world_mods_add \/ renderCreateRepairState
  BY <1>6, SetupKeepsInv
<1>7. CASE retry \/ finishLocalModSetup \/ Reload
  BY <1>7, OutcomeKeepsInv
<1>8. CASE \/ \E r \in RootSet : addRoot(r) \/ removeRoot(r)
           \/ Submit \/ CallFails \/ SaveFails \/ provider_staging_dir \/ AllPrepared
  BY <1>8, FormKeepsInv
<1> QED
  BY <1>1, <1>2, <1>3, <1>4, <1>5, <1>6, <1>7, <1>8 DEF CreationNext

LEMMA CreationInvInit == CreationInit => CreationInv
<1> SUFFICES ASSUME CreationInit PROVE CreationInv
  OBVIOUS
<1>1. /\ submit = TRUE /\ notice = "none" /\ flow = Idle
      /\ worlds = <<>> /\ mods = <<>> /\ loads = {}
  BY DEF CreationInit
<1>2. flow.pc = "idle" /\ flow.packages = {} /\ flow \in Handlers
  BY <1>1, SMTT(30) DEF Idle, Handlers, CreateSteps
<1>3. /\ worlds \in Seq(StoredWorlds) /\ mods \in Seq(SUBSET Profiled)
      /\ Len(mods) = Len(worlds)
  BY <1>1, SMTT(30)
<1>4. CreationTyped
  BY <1>1, <1>2, <1>3, FS_EmptySet DEF CreationTyped
<1>5. ~Repairing /\ ~Begun /\ ~Finished
  BY <1>1, <1>2, SMTT(30) DEF Repairing, Begun, Finished
<1> QED
  BY <1>1, <1>2, <1>4, <1>5, SMTT(30) DEF CreationInv

(* However often the setup of a world fails and is retried, and whatever   *)
(* the player selects meanwhile, one page of the create form finishes at   *)
(* most one world: the submit button stays disabled from the moment        *)
(* create_canonical_world returned (the submit handler of                  *)
(* launcher-controller.js).                                                *)
THEOREM OneWorldPerPageCorrect == CreationSpec => []OneWorldPerPage
<1>1. CreationInv => OneWorldPerPage
  <2> SUFFICES ASSUME CreationInv PROVE OneWorldPerPage
    OBVIOUS
  <2>1. CASE Finished
    <3>1. loads = {flow.world} /\ ~submit
      BY <2>1, SMTT(30) DEF CreationInv, Finished
    <3>2. Cardinality(loads) = 1
      BY <3>1, FS_Singleton
    <3> QED
      BY <3>1, <3>2, SMTT(30) DEF OneWorldPerPage
  <2>2. CASE ~Finished
    <3>1. loads = {}
      BY <2>2 DEF CreationInv
    <3>2. Cardinality(loads) = 0
      BY <3>1, FS_EmptySet
    <3> QED
      BY <3>1, <3>2, SMTT(30) DEF OneWorldPerPage
  <2> QED
    BY <2>1, <2>2
<1> QED
  BY <1>1, CreationInvInit, CreationInvStep, CreationAssumption, PTL DEF CreationSpec

(* A world reported as created has every record create_canonical_world     *)
(* writes, and finishLocalModSetup installed exactly the packages of its   *)
(* profile: the pending packages and the installed ones always make up the *)
(* profile, so nothing is pending means everything is installed.           *)
THEOREM CreatedIsCompleteCorrect == CreationSpec => []CreatedIsComplete
<1>1. CreationInv => CreatedIsComplete
  <2> SUFFICES ASSUME CreationInv, notice = "created"
               PROVE  /\ worlds[flow.world].records = RecordSet
                      /\ mods[flow.world] = worlds[flow.world].profile
    BY DEF CreatedIsComplete
  <2>1. flow.pc = "reload" /\ flow.pending = <<>> /\ Finished
    BY SMTT(30) DEF CreationInv, Finished
  <2>2. Pending = {}
    BY <2>1, SMTT(30) DEF Pending
  <2> QED
    BY <2>1, <2>2 DEF CreationInv
<1> QED
  BY <1>1, CreationInvInit, CreationInvStep, CreationAssumption, PTL DEF CreationSpec

-----------------------------------------------------------------------------
(* CurseForge: the inductive invariant                                     *)

(* What FilesConsistent asks of the files of a graph and their relations. *)
RelationsMet(graph) ==
    \A f \in graph :
        /\ Catalog[f].tagged
        /\ \A g \in graph : Catalog[f].project = Catalog[g].project => f = g
        /\ \A i \in DOMAIN relations[f] :
             LET met == \E g \in graph : Catalog[g].project = relations[f][i].project
             IN  /\ relations[f][i].kind = "required" => met
                 /\ relations[f][i].kind = "incompatible" => ~met

(* A project is given one of its own files, tagged for the world. *)
ChosenFits ==
    \A p \in ModIds : chosen[p] # Missing =>
        Catalog[chosen[p]].project = p /\ Catalog[chosen[p]].tagged

(* The required relations of a file before the n-th have a file. *)
RelatedBefore(f, n) ==
    \A i \in DOMAIN relations[f] :
        i < n /\ relations[f][i].kind = "required" => chosen[relations[f][i].project] # Missing

RelatedAll(f) ==
    \A i \in DOMAIN relations[f] :
        relations[f][i].kind = "required" => chosen[relations[f][i].project] # Missing

(* Breadth first: a chosen file waits in the queue, is being expanded, or  *)
(* has all its required relations.                                         *)
Expanding ==
    /\ \A f \in Chosen : f \in expanded \/ \E i \in DOMAIN queue : queue[i] = f
    /\ \A f \in expanded : f # current.file => RelatedAll(f)
    /\ current # NoFile => RelatedBefore(current.file, current.next)

Fresh ==
    chosen = Nothing /\ expanded = {} /\ current = NoFile /\ queue = <<>>

ForgeInv ==
    /\ ForgeTypeOK /\ ChosenFits
    /\ step \in {"idle", "root"} => Fresh
    /\ step = "root" => root \in Files
    /\ step \in {"root", "resolving", "resolved"} => roots # <<>>
    /\ step = "resolving" => Expanding
    /\ current # NoFile => current.file \in Files /\ current.next >= 1
    /\ step = "resolved" => RelationsMet(Chosen) /\ current = NoFile /\ queue = <<>>
    /\ \A graph \in handed : RelationsMet(graph) /\ \A f \in graph : Whole(f)
    /\ \A f \in ready : Whole(f)
    /\ temp # NoTemp =>
         temp.file \in Files /\ temp.content \in Streams /\ stagedMods[temp.file] = Missing

-----------------------------------------------------------------------------
(* CurseForge: the steps                                                   *)

LEMMA MetStays ==
    ASSUME UNCHANGED relations
    PROVE  \A graph : RelationsMet(graph)' = RelationsMet(graph)
<1> SUFFICES ASSUME NEW CONSTANT graph
             PROVE  RelationsMet(graph)' = RelationsMet(graph)
  OBVIOUS
<1> QED
  BY SMTT(30) DEF RelationsMet

(* A step that neither chooses nor stages a file keeps what was chosen,    *)
(* handed back and downloaded.                                             *)
LEMMA ForgeQuiet ==
    ASSUME ForgeInv, UNCHANGED <<relations, chosen, stagedMods>>
    PROVE  /\ ChosenFits' /\ Chosen' = Chosen
           /\ \A graph : RelationsMet(graph)' = RelationsMet(graph)
           /\ \A f : Whole(f)' = Whole(f)
<1>1. ChosenFits' /\ Chosen' = Chosen
  BY DEF ForgeInv, ChosenFits, Chosen
<1>2. \A graph : RelationsMet(graph)' = RelationsMet(graph)
  BY MetStays
<1>3. \A f : Whole(f)' = Whole(f)
  BY DEF Whole
<1> QED
  BY <1>1, <1>2, <1>3

(* A step that fails leaves the graphs that were handed back. *)
LEMMA ForgeFailed ==
    ASSUME ForgeInv, step' = "failed", ForgeTypeOK',
           UNCHANGED <<relations, chosen, stagedMods, ready, handed>>,
           current' # NoFile => current'.file \in Files /\ current'.next >= 1,
           temp' = temp \/ temp' = NoTemp
    PROVE  ForgeInv'
<1>1. /\ ChosenFits' /\ \A graph : RelationsMet(graph)' = RelationsMet(graph)
      /\ \A f : Whole(f)' = Whole(f)
  BY ForgeQuiet
<1>2. /\ \A graph \in handed' : RelationsMet(graph)' /\ \A f \in graph : Whole(f)'
      /\ \A f \in ready' : Whole(f)'
  BY <1>1 DEF ForgeInv
<1>3. temp' # NoTemp' => /\ temp'.file \in Files /\ temp'.content \in Streams
                         /\ stagedMods'[temp'.file] = Missing
  BY DEF ForgeInv, NoTemp
<1>4. current' # NoFile' => current'.file \in Files /\ current'.next >= 1
  BY DEF NoFile
<1> QED
  BY <1>1, <1>2, <1>3, <1>4 DEF ForgeInv

LEMMA NoFileTyped ==
    NoFile \in [file : Files \cup {Missing}, next : Nat]
BY SMTT(30) DEF NoFile

LEMMA NoTempTyped ==
    NoTemp \in [file : Files \cup {Missing}, content : Streams \cup {Missing}]
BY SMTT(30) DEF NoTemp

LEMMA ParseKeepsInv ==
    ASSUME ForgeInv, parse_json_response
    PROVE  ForgeInv'
<1> USE DEF parse_json_response, ForgeFails
<1>1. ForgeTypeOK'
  BY NoTempTyped DEF ForgeInv, ForgeTypeOK
<1>2. current' # NoFile => current'.file \in Files /\ current'.next >= 1
  BY DEF ForgeInv
<1> QED
  BY <1>1, <1>2, ForgeFailed

LEMMA ResolveProjectKeepsInv ==
    ASSUME ForgeInv, curseforge_resolve_project
    PROVE  ForgeInv'
<1> USE DEF curseforge_resolve_project
<1>1. current' # NoFile => current'.file \in Files /\ current'.next >= 1
  BY DEF ForgeInv
<1>2. CASE step' = "failed" /\ root' = root
  <2>1. ForgeTypeOK'
    BY <1>2 DEF ForgeInv, ForgeTypeOK
  <2> QED
    BY <1>1, <1>2, <2>1, ForgeFailed
<1>3. CASE step' = "root" /\ root' \in select_best_file(compatible_files(Head(roots)))
  <2>1. root' \in Files
    BY <1>3 DEF select_best_file, compatible_files, files_for_project
  <2>2. ForgeTypeOK'
    BY <1>3, <2>1 DEF ForgeInv, ForgeTypeOK
  <2>3. Fresh'
    BY DEF ForgeInv, Fresh, NoFile
  <2> QED
    BY <1>1, <1>3, <2>1, <2>2, <2>3, ForgeQuiet DEF ForgeInv, NoFile, NoTemp
<1> QED
  BY <1>2, <1>3 DEF ForgeFails

(* The root is the first file of its project. *)
LEMMA ResolveKeepsInv ==
    ASSUME ForgeConstants, ForgeInv, curseforge_resolve
    PROVE  ForgeInv'
<1> USE DEF curseforge_resolve
<1>1. Fresh /\ root \in Files /\ current' = current /\ current = NoFile
  BY DEF ForgeInv, Fresh
<1>2. CASE step' = "failed" /\ UNCHANGED <<chosen, queue>>
  <2>1. ForgeTypeOK'
    BY <1>2 DEF ForgeInv, ForgeTypeOK
  <2> QED
    BY <1>1, <1>2, <2>1, ForgeFailed
<1>3. CASE /\ validate_selected_file(root) /\ step' = "resolving"
           /\ chosen' = [chosen EXCEPT ![Catalog[root].project] = root]
           /\ queue' = <<root>>
  <2>1. Catalog[root].project \in ModIds
    BY <1>1 DEF ModIds
  <2>2. /\ chosen \in [ModIds -> Files \cup {Missing}]
        /\ \A p \in ModIds : chosen[p] = Missing
    BY <1>1 DEF Fresh, Nothing, ForgeInv, ForgeTypeOK
  <2>3. /\ chosen'[Catalog[root].project] = root
        /\ \A p \in ModIds \ {Catalog[root].project} : chosen'[p] = Missing
        /\ chosen' \in [ModIds -> Files \cup {Missing}]
    BY <1>1, <1>3, <2>1, <2>2
  <2>4. ChosenFits'
    BY <1>3, <2>3 DEF ChosenFits, validate_selected_file
  <2>5. queue' \in Seq(Files) /\ \E i \in DOMAIN queue' : queue'[i] = root
    BY SMTT(30), <1>1, <1>3
  <2>6. \A f \in Chosen' : f = root
    BY <2>3 DEF Chosen, ForgeConstants
  <2>7. Expanding'
    <3>1. expanded' = {}
      BY <1>1 DEF Fresh
    <3> QED
      BY <1>1, <2>5, <2>6, <3>1 DEF Expanding, NoFile
  <2>8. ForgeTypeOK'
    BY <1>3, <2>3, <2>5 DEF ForgeInv, ForgeTypeOK
  <2>9. /\ \A graph : RelationsMet(graph)' = RelationsMet(graph)
        /\ \A f : Whole(f)' = Whole(f)
    BY MetStays DEF Whole
  <2> QED
    BY <1>1, <1>3, <2>4, <2>7, <2>8, <2>9 DEF ForgeInv, NoFile, NoTemp
<1> QED
  BY <1>2, <1>3 DEF ForgeFails

LEMMA PopKeepsInv ==
    ASSUME ForgeConstants, ForgeInv, pop_front
    PROVE  ForgeInv'
<1> USE DEF pop_front
<1>1. Expanding /\ step' = "resolving" /\ current = NoFile
  BY DEF ForgeInv
<1>2. queue \in Seq(Files) /\ queue # <<>>
  BY DEF ForgeInv, ForgeTypeOK
<1>3. /\ Head(queue) \in Files /\ Tail(queue) \in Seq(Files)
      /\ \A i \in DOMAIN queue : \/ queue[i] = Head(queue)
                                 \/ \E j \in DOMAIN Tail(queue) : Tail(queue)[j] = queue[i]
  <2>1. Head(queue) = queue[1] /\ Head(queue) \in Files /\ Tail(queue) \in Seq(Files)
    BY SMTT(30), <1>2
  <2>2. ASSUME NEW i \in DOMAIN queue, i # 1
        PROVE  i - 1 \in DOMAIN Tail(queue) /\ Tail(queue)[i - 1] = queue[i]
    BY SMTT(30), <1>2, <2>2
  <2> QED
    BY <2>1, <2>2
<1>4. /\ ChosenFits' /\ Chosen' = Chosen
      /\ \A graph : RelationsMet(graph)' = RelationsMet(graph)
      /\ \A f : Whole(f)' = Whole(f)
  BY ForgeQuiet
<1>5. \A f : RelatedAll(f)' = RelatedAll(f)
  BY DEF RelatedAll
<1>6. CASE Head(queue) \in expanded /\ UNCHANGED <<current, expanded>>
  <2>1. ForgeTypeOK'
    BY <1>3, <1>6 DEF ForgeInv, ForgeTypeOK
  <2>2. Expanding'
    BY <1>1, <1>3, <1>4, <1>5, <1>6 DEF Expanding, NoFile
  <2> QED
    BY <1>1, <1>4, <1>6, <2>1, <2>2 DEF ForgeInv, NoFile, NoTemp
<1>7. CASE /\ current' = [file |-> Head(queue), next |-> 1]
           /\ expanded' = expanded \cup {Head(queue)}
  <2>1. ForgeTypeOK'
    <3>1. current' \in [file : Files \cup {Missing}, next : Nat]
      BY SMTT(30), <1>3, <1>7
    <3> QED
      BY <1>3, <1>7, <3>1 DEF ForgeInv, ForgeTypeOK
  <2>2. current'.file = Head(queue) /\ current'.next = 1
    BY <1>7
  <2>3. RelatedBefore(current.file, current.next)'
    <3>1. \A i \in DOMAIN relations[Head(queue)] : i \in Nat /\ i >= 1
      BY SMTT(30), <1>3 DEF ForgeInv, ForgeTypeOK
    <3>2. \A i \in DOMAIN relations[Head(queue)] : ~(i < 1)
      BY SMTT(30), <3>1
    <3> QED
      BY <2>2, <3>2 DEF RelatedBefore
  <2>4. \A f \in expanded : RelatedAll(f)
    <3>1. current.file = Missing
      BY SMTT(30), <1>1 DEF NoFile
    <3>2. \A f \in expanded : f # current.file
      BY <3>1 DEF ForgeConstants, ForgeInv, ForgeTypeOK
    <3> QED
      BY <1>1, <3>2 DEF Expanding
  <2>5. Expanding'
    BY <1>1, <1>3, <1>4, <1>5, <1>7, <2>2, <2>3, <2>4 DEF Expanding
  <2> QED
    <3>1. current'.file \in Files /\ current'.next >= 1
      BY SMTT(30), <1>3, <2>2
    <3> QED
      BY <1>1, <1>4, <2>1, <2>5, <3>1 DEF ForgeInv, NoTemp
<1> QED
  BY <1>6, <1>7

LEMMA RelateKeepsInv ==
    ASSUME ForgeConstants, ForgeInv, Relate
    PROVE  ForgeInv'
<1>1. /\ step = "resolving" /\ Expanding /\ current # NoFile /\ current.file \in Files
      /\ current.next \in Nat /\ current.next <= Len(relations[current.file])
      /\ current' = [current EXCEPT !.next = current.next + 1]
      /\ UNCHANGED <<relations, offer, roots, root, expanded, temp, stagedMods, ready, handed, moves>>
  BY DEF Relate, Unrelated, ForgeInv, ForgeTypeOK
<1>2. PICK f, n : f = current.file /\ n = current.next
  OBVIOUS
<1>3. /\ current'.file = f /\ current'.next = n + 1
      /\ current' \in [file : Files \cup {Missing}, next : Nat]
  <2>1. current.next + 1 \in Nat
    BY SMTT(30), <1>1
  <2>2. current \in [file : Files \cup {Missing}, next : Nat]
    BY DEF ForgeInv, ForgeTypeOK
  <2> QED
    BY <1>1, <1>2, <2>1, <2>2
<1>4. n \in DOMAIN relations[f] /\ relations[f] \in Seq(Relation) /\ relations[f][n] \in Relation
  <2>0. relations[f] \in Seq(Relation)
    BY <1>1, <1>2 DEF ForgeInv, ForgeTypeOK
  <2>1. n >= 1
    <3>1. current.next >= 1
      BY <1>1 DEF ForgeInv
    <3> QED
      BY <1>2, <3>1
  <2> QED
    BY SMTT(30), <1>1, <1>2, <2>0, <2>1
<1>5. PICK d : d = relations[f][n] /\ d.project \in ModIds
  BY <1>4 DEF Relation
<1>6. \A i \in DOMAIN relations[f] : i < n + 1 => i < n \/ i = n
  BY SMTT(30), <1>1, <1>2, <1>4
<1>7. \A graph : RelationsMet(graph)' = RelationsMet(graph)
  BY <1>1, MetStays
<1>8. \A g : Whole(g)' = Whole(g)
  BY <1>1 DEF Whole
<1>9. current' # NoFile => current'.file \in Files /\ current'.next >= 1
  <2>1. n + 1 >= 1
    BY SMTT(30), <1>1, <1>2
  <2> QED
    BY <1>1, <1>2, <1>3, <2>1
<1>10. CASE step' = "failed" /\ UNCHANGED <<chosen, queue>>
  <2>1. ForgeTypeOK'
    BY <1>1, <1>3, <1>10 DEF ForgeInv, ForgeTypeOK
  <2> QED
    BY <1>1, <1>9, <1>10, <2>1, ForgeFailed
<1>11. CASE /\ d.kind # "required" \/ chosen[d.project] # Missing
            /\ UNCHANGED <<step, chosen, queue>>
  <2>1. ForgeTypeOK'
    BY <1>1, <1>3, <1>11 DEF ForgeInv, ForgeTypeOK
  <2>2. RelatedBefore(f, n + 1)
    BY <1>1, <1>2, <1>5, <1>6, <1>11 DEF Expanding, RelatedBefore
  <2>3. RelatedBefore(current.file, current.next)'
    BY <1>1, <1>3, <1>11, <2>2 DEF RelatedBefore
  <2>4. \A g : RelatedAll(g)' = RelatedAll(g)
    BY <1>1, <1>11 DEF RelatedAll
  <2>5. ChosenFits' /\ Chosen' = Chosen
    BY <1>1, <1>11, ForgeQuiet
  <2>6. Expanding'
    BY <1>1, <1>2, <1>3, <1>11, <2>3, <2>4, <2>5 DEF Expanding
  <2> QED
    BY <1>1, <1>7, <1>8, <1>9, <1>11, <2>1, <2>5, <2>6 DEF ForgeInv, NoFile, NoTemp
<1>12. ASSUME NEW g \in select_best_file(compatible_files(d.project)), validate_selected_file(g),
              chosen' = [chosen EXCEPT ![d.project] = g], queue' = Append(queue, g),
              step' = step
       PROVE  ForgeInv'
  <2>1. g \in Files /\ Catalog[g].project = d.project /\ Catalog[g].tagged
    BY <1>12 DEF select_best_file, compatible_files, files_for_project, validate_selected_file
  <2>2. g # Missing
    BY <2>1 DEF ForgeConstants
  <2>3. /\ chosen' \in [ModIds -> Files \cup {Missing}] /\ chosen'[d.project] = g
        /\ \A p \in ModIds \ {d.project} : chosen'[p] = chosen[p]
    BY <1>5, <1>12, <2>1 DEF ForgeInv, ForgeTypeOK
  <2>4. ChosenFits'
    BY <2>1, <2>3 DEF ForgeInv, ChosenFits
  <2>5. /\ queue' \in Seq(Files) /\ \E i \in DOMAIN queue' : queue'[i] = g
        /\ \A i \in DOMAIN queue : i \in DOMAIN queue' /\ queue'[i] = queue[i]
    <3>1. queue \in Seq(Files)
      BY DEF ForgeInv, ForgeTypeOK
    <3>2. Len(queue) + 1 \in DOMAIN queue' /\ queue'[Len(queue) + 1] = g
      BY SMTT(30), <1>12, <2>1, <3>1
    <3> QED
      BY SMTT(30), <1>12, <2>1, <3>1, <3>2
  <2>6. \A x \in Chosen' : x \in Chosen \/ x = g
    BY <2>3 DEF Chosen
  <2>7. \A p \in ModIds : chosen[p] # Missing => chosen'[p] # Missing
    BY <2>2, <2>3
  <2>8. \A x \in Files : \A i \in DOMAIN relations[x] : relations[x][i].project \in ModIds
    <3>1. \A x \in Files : relations[x] \in Seq(Relation)
      BY DEF ForgeInv, ForgeTypeOK
    <3>2. \A x \in Files : \A i \in DOMAIN relations[x] : relations[x][i] \in Relation
      BY SMTT(30), <3>1
    <3> QED
      BY <3>2 DEF Relation
  <2>9. \A x \in Files : RelatedAll(x) => RelatedAll(x)'
    BY <1>1, <2>7, <2>8 DEF RelatedAll
  <2>10. RelatedBefore(current.file, current.next)'
    <3>1. \A i \in DOMAIN relations[f] : i < n /\ relations[f][i].kind = "required" =>
            chosen'[relations[f][i].project] # Missing
      BY <1>1, <1>2, <2>7, <2>8 DEF Expanding, RelatedBefore
    <3>2. chosen'[relations[f][n].project] # Missing
      BY <1>5, <2>2, <2>3
    <3> QED
      BY <1>1, <1>3, <1>6, <3>1, <3>2 DEF RelatedBefore
  <2>11. Expanding'
    <3>1. \A x \in expanded' : x \in Files
      BY <1>1 DEF ForgeInv, ForgeTypeOK
    <3>2. \A x \in expanded' : x # current'.file => RelatedAll(x)'
      BY <1>1, <1>2, <1>3, <2>9, <3>1 DEF Expanding
    <3>3. \A x \in Chosen' : x \in expanded' \/ \E i \in DOMAIN queue' : queue'[i] = x
      BY <1>1, <2>5, <2>6 DEF Expanding
    <3> QED
      BY <2>10, <3>2, <3>3 DEF Expanding
  <2>12. ForgeTypeOK'
    BY <1>1, <1>3, <1>12, <2>3, <2>5 DEF ForgeInv, ForgeTypeOK
  <2> QED
    BY <1>1, <1>7, <1>8, <1>9, <1>12, <2>4, <2>11, <2>12 DEF ForgeInv, NoFile, NoTemp
<1> QED
  <2>1. d = relations[current.file][current.next]
    BY <1>2, <1>5
  <2> QED
    BY <1>10, <1>11, <1>12, <2>1 DEF Relate, ForgeFails, should_select_required_dependency

LEMMA ExpandedKeepsInv ==
    ASSUME ForgeConstants, ForgeInv, Expanded
    PROVE  ForgeInv'
<1> USE DEF Expanded
<1>1. Expanding /\ current # NoFile /\ ~Unrelated /\ current' = NoFile
  BY DEF ForgeInv
<1>2. ForgeTypeOK'
  BY NoFileTyped DEF ForgeInv, ForgeTypeOK, ForgeFails
<1>3. CASE step' = "failed"
  BY <1>1, <1>2, <1>3, ForgeFailed
<1>4. CASE step' = step
  <2>1. /\ ChosenFits' /\ Chosen' = Chosen
        /\ \A graph : RelationsMet(graph)' = RelationsMet(graph)
        /\ \A f : Whole(f)' = Whole(f)
    BY ForgeQuiet
  <2>2. RelatedAll(current.file)
    <3>1. relations[current.file] \in Seq(Relation) /\ current.next \in Nat
      BY <1>1 DEF ForgeInv, ForgeTypeOK
    <3>2. \A i \in DOMAIN relations[current.file] : i < current.next
      BY SMTT(30), <1>1, <3>1 DEF Unrelated
    <3> QED
      BY <1>1, <3>2 DEF Expanding, RelatedBefore, RelatedAll
  <2>3. \A f : RelatedAll(f)' = RelatedAll(f)
    BY DEF RelatedAll
  <2>4. Expanding'
    BY <1>1, <2>1, <2>2, <2>3 DEF Expanding, NoFile
  <2> QED
    BY <1>1, <1>2, <1>4, <2>1, <2>4 DEF ForgeInv, NoFile, NoTemp
<1> QED
  BY <1>3, <1>4 DEF ForgeFails

LEMMA ChosenStaysMet ==
    ASSUME UNCHANGED <<relations, chosen>>, RelationsMet(Chosen)
    PROVE  RelationsMet(Chosen)'
<1>1. Chosen' = Chosen
  BY DEF Chosen
<1> QED
  BY SMTT(30), <1>1 DEF RelationsMet

(* When the queue is empty every chosen file has been expanded, and the    *)
(* last look at the incompatible relations sees all of them.               *)
LEMMA MapKeepsInv ==
    ASSUME ForgeConstants, ForgeInv, map_file
    PROVE  ForgeInv'
<1> USE DEF map_file
<1>1. Expanding /\ current = NoFile /\ queue = <<>>
  BY DEF ForgeInv
<1>2. ForgeTypeOK'
  BY DEF ForgeInv, ForgeTypeOK, ForgeFails
<1>3. CASE step' = "failed"
  BY <1>1, <1>2, <1>3, ForgeFailed DEF NoFile
<1>4. CASE step' = "resolved" /\ detect_impossible_relations
  <2>1. \A f \in Chosen : RelatedAll(f)
    <3>1. DOMAIN queue = {}
      BY SMTT(30), <1>1
    <3>2. current.file = Missing
      BY SMTT(30), <1>1 DEF NoFile
    <3>3. \A f \in Chosen : f # Missing /\ f \in expanded
      BY <1>1, <3>1 DEF Expanding, Chosen, ForgeConstants
    <3> QED
      BY <1>1, <3>2, <3>3 DEF Expanding
  <2>2. \A f \in Chosen : f \in Files /\ \E p \in ModIds : chosen[p] = f /\ Catalog[f].project = p
                                                           /\ Catalog[f].tagged
    BY DEF Chosen, ForgeInv, ChosenFits, ForgeConstants
  <2>3. \A f \in Chosen : \A i \in DOMAIN relations[f] : relations[f][i].project \in ModIds
    <3>1. \A f \in Chosen : relations[f] \in Seq(Relation)
      BY <2>2 DEF ForgeInv, ForgeTypeOK
    <3>2. \A f \in Chosen : \A i \in DOMAIN relations[f] : relations[f][i] \in Relation
      BY SMTT(30), <3>1
    <3> QED
      BY <3>2 DEF Relation
  <2>4. \A p \in ModIds : chosen[p] # Missing => chosen[p] \in Chosen /\ Catalog[chosen[p]].project = p
    BY DEF Chosen, ForgeInv, ForgeTypeOK, ChosenFits
  <2>5. ASSUME NEW f \in Chosen
        PROVE  /\ Catalog[f].tagged
               /\ \A g \in Chosen : Catalog[f].project = Catalog[g].project => f = g
    <3>1. \A g \in Chosen : chosen[Catalog[g].project] = g /\ Catalog[g].tagged
      BY <2>2
    <3> QED
      BY <3>1
  <2>6. ASSUME NEW f \in Chosen, NEW i \in DOMAIN relations[f]
        PROVE  /\ relations[f][i].kind = "required" =>
                    \E g \in Chosen : Catalog[g].project = relations[f][i].project
               /\ relations[f][i].kind = "incompatible" =>
                    ~\E g \in Chosen : Catalog[g].project = relations[f][i].project
    <3>1. relations[f][i].project \in ModIds
      BY <2>3
    <3>2. CASE relations[f][i].kind = "required"
      <4>1. chosen[relations[f][i].project] # Missing
        BY <2>1, <3>2 DEF RelatedAll
      <4> QED
        BY <2>4, <3>1, <3>2, <4>1
    <3>3. CASE relations[f][i].kind = "incompatible"
      <4>1. chosen[relations[f][i].project] = Missing
        BY <1>4, <3>3 DEF detect_impossible_relations
      <4>2. \A g \in Chosen : chosen[Catalog[g].project] = g /\ g # Missing
        BY <2>2 DEF ForgeConstants
      <4> QED
        BY <3>3, <4>1, <4>2
    <3> QED
      BY <3>2, <3>3
  <2>7. RelationsMet(Chosen)
    BY <2>5, <2>6 DEF RelationsMet
  <2>8. /\ ChosenFits' /\ Chosen' = Chosen
        /\ \A graph : RelationsMet(graph)' = RelationsMet(graph)
        /\ \A f : Whole(f)' = Whole(f)
    BY ForgeQuiet
  <2>9. RelationsMet(Chosen)'
    BY <2>7, ChosenStaysMet
  <2> QED
    BY <1>1, <1>2, <1>4, <2>8, <2>9 DEF ForgeInv, NoFile, NoTemp
<1> QED
  BY <1>3, <1>4 DEF ForgeFails

(* A step of the downloads keeps the graph it downloads. *)
LEMMA DownloadQuiet ==
    ASSUME ForgeInv, ForgeTypeOK', step' = step,
           UNCHANGED <<relations, roots, root, queue, current, chosen, expanded, handed>>,
           \A f \in Files : Whole(f) => Whole(f)',
           \A f \in ready' : Whole(f)',
           temp' # NoTemp => /\ temp'.file \in Files /\ temp'.content \in Streams
                             /\ stagedMods'[temp'.file] = Missing
    PROVE  ForgeInv'
<1>1. ChosenFits' /\ (step' \in {"idle", "root"} => Fresh') /\ (step' = "root" => root' \in Files)
  BY DEF ForgeInv, ChosenFits, Fresh, NoFile, Nothing
<1>2. step' = "resolving" => Expanding'
  BY DEF ForgeInv, Expanding, Chosen, RelatedAll, RelatedBefore, NoFile
<1>3. step' = "resolved" => RelationsMet(Chosen)' /\ current' = NoFile' /\ queue' = <<>>
  BY ChosenStaysMet DEF ForgeInv, NoFile
<1>4. \A graph \in handed' : RelationsMet(graph)' /\ \A f \in graph : Whole(f)'
  <2>1. \A graph : RelationsMet(graph)' = RelationsMet(graph)
    BY MetStays
  <2>2. \A graph \in handed : graph \subseteq Files
    BY DEF ForgeInv, ForgeTypeOK
  <2> QED
    BY <2>1, <2>2 DEF ForgeInv
<1> QED
  BY <1>1, <1>2, <1>3, <1>4 DEF ForgeInv, NoFile, NoTemp

LEMMA DownloadKeepsInv ==
    ASSUME ForgeInv, download_artifact
    PROVE  ForgeInv'
<1> USE DEF download_artifact
<1>1. CASE step' = "failed" /\ temp' = temp
  <2>1. ForgeTypeOK'
    BY <1>1 DEF ForgeInv, ForgeTypeOK
  <2>2. current' # NoFile => current'.file \in Files /\ current'.next >= 1
    BY DEF ForgeInv
  <2> QED
    BY <1>1, <2>1, <2>2, ForgeFailed
<1>2. ASSUME NEW f \in Next_file, NEW content \in Streams, stagedMods[f] = Missing,
             temp' = [file |-> f, content |-> content], step' = step
      PROVE  ForgeInv'
  <2>1. f \in Files
    BY DEF Next_file, Chosen
  <2>2. temp'.file = f /\ temp'.content = content
    BY <1>2
  <2>3. ForgeTypeOK'
    <3>1. temp' \in [file : Files \cup {Missing}, content : Streams \cup {Missing}]
      BY <1>2, <2>1
    <3> QED
      BY <1>2, <3>1 DEF ForgeInv, ForgeTypeOK
  <2>4. \A g : Whole(g)' = Whole(g)
    BY DEF Whole
  <2>5. \A g \in ready' : Whole(g)'
    BY <2>4 DEF ForgeInv
  <2> QED
    BY <1>2, <2>1, <2>2, <2>3, <2>4, <2>5, DownloadQuiet
<1> QED
  BY <1>1, <1>2 DEF ForgeFails

(* A verified file is new at its destination, so no file that was handed   *)
(* back before is replaced.                                                *)
LEMMA PublishKeepsInv ==
    ASSUME ForgeConstants, ForgeInv, publish_verified_artifact
    PROVE  ForgeInv'
<1> USE DEF publish_verified_artifact
<1>1. /\ temp' = NoTemp /\ temp.file \in Files /\ temp.content \in Streams
      /\ stagedMods[temp.file] = Missing
  BY DEF ForgeInv
<1>2. CASE step' = "failed" /\ UNCHANGED <<stagedMods, ready>>
  <2>1. ForgeTypeOK'
    BY <1>1, <1>2, NoTempTyped DEF ForgeInv, ForgeTypeOK
  <2>2. current' # NoFile => current'.file \in Files /\ current'.next >= 1
    BY DEF ForgeInv
  <2> QED
    BY <1>1, <1>2, <2>1, <2>2, ForgeFailed
<1>3. CASE /\ verify_download_size /\ verify_provider_hashes /\ step' = step
           /\ stagedMods' = [stagedMods EXCEPT ![temp.file] = temp.content]
           /\ ready' = ready \cup {temp.file}
  <2>1. /\ stagedMods' \in [Files -> Streams \cup {Missing}]
        /\ stagedMods'[temp.file] = temp.content
        /\ \A f \in Files \ {temp.file} : stagedMods'[f] = stagedMods[f]
    BY <1>1, <1>3 DEF ForgeInv, ForgeTypeOK
  <2>2. ForgeTypeOK'
    BY <1>1, <1>3, <2>1, NoTempTyped DEF ForgeInv, ForgeTypeOK
  <2>3. ~Whole(temp.file)
    BY <1>1 DEF Whole, ForgeConstants, Streams
  <2>4. \A f \in Files : Whole(f) => Whole(f)'
    BY <2>1, <2>3 DEF Whole
  <2>5. \/ stagedMods'[temp.file] = "whole"
        \/ stagedMods'[temp.file] = "altered" /\ Catalog[temp.file].hashes = "none"
    BY <1>1, <1>3, <2>1 DEF Streams, verify_download_size, verify_provider_hashes
  <2>6. \A f \in ready' : Whole(f)'
    <3>1. \A f \in ready : f \in Files /\ Whole(f)
      BY DEF ForgeInv, ForgeTypeOK
    <3> QED
      BY <1>3, <2>4, <2>5, <3>1 DEF Whole
  <2> QED
    BY <1>1, <1>3, <2>2, <2>4, <2>6, DownloadQuiet
<1> QED
  BY <1>2, <1>3 DEF ForgeFails

LEMMA MoveKeepsInv ==
    ASSUME ForgeConstants, ForgeInv, NEW f \in Files, Move(f)
    PROVE  ForgeInv'
<1> USE DEF Move
<1>1. offer' \in [Files -> {"available", "hidden", "removed"}]
  BY DEF ForgeInv, ForgeTypeOK
<1>2. moves' \in 0 .. MaxMoves
  BY SMTT(30) DEF ForgeInv, ForgeTypeOK, ForgeConstants
<1>3. ForgeTypeOK'
  BY <1>1, <1>2 DEF ForgeInv, ForgeTypeOK
<1>4. \A g : Whole(g)' = Whole(g)
  BY DEF Whole
<1>5. \A g \in ready' : Whole(g)'
  BY <1>4 DEF ForgeInv
<1>6. temp' # NoTemp => /\ temp'.file \in Files /\ temp'.content \in Streams
                        /\ stagedMods'[temp'.file] = Missing
  BY DEF ForgeInv
<1> QED
  BY <1>3, <1>4, <1>5, <1>6, DownloadQuiet

(* The graph is handed back whole, and the next project starts afresh. *)
LEMMA PrepareForgeKeepsInv ==
    ASSUME ForgeConstants, ForgeInv, prepareCurseForge
    PROVE  ForgeInv'
<1> USE DEF prepareCurseForge
<1>1. RelationsMet(Chosen) /\ current = NoFile /\ queue = <<>> /\ \A f \in Chosen : Whole(f)
  BY DEF ForgeInv
<1>2. \A f : Whole(f)' = Whole(f)
  BY DEF Whole
<1>3. \A graph : RelationsMet(graph)' = RelationsMet(graph)
  BY MetStays
<1>4. \A graph \in handed' : RelationsMet(graph)' /\ \A f \in graph : Whole(f)'
  <2>1. PICK G : G = Chosen
    OBVIOUS
  <2>2. handed' = handed \cup {G} /\ RelationsMet(G) /\ \A f \in G : Whole(f)
    BY <1>1, <2>1
  <2> QED
    BY <1>2, <1>3, <2>2 DEF ForgeInv
<1>5. ChosenFits'
  BY DEF ChosenFits, Nothing
<1>6. Fresh'
  BY <1>1 DEF Fresh, Nothing, NoFile
<1>7. ForgeTypeOK'
  <2>1. roots' \in Seq(ModIds)
    <3>1. roots \in Seq(ModIds)
      BY DEF ForgeInv, ForgeTypeOK
    <3>2. roots # <<>> /\ roots' = Tail(roots)
      BY DEF ForgeInv
    <3> QED
      BY SMTT(30), <3>1, <3>2
  <2>2. Chosen \in SUBSET Files
    BY DEF Chosen
  <2>3. step' \in {"idle", "done"}
    OBVIOUS
  <2>4. Nothing \in [ModIds -> Files \cup {Missing}]
    BY DEF Nothing
  <2> QED
    BY <2>1, <2>2, <2>3, <2>4 DEF ForgeInv, ForgeTypeOK
<1>8. step' \in {"idle", "done"}
  OBVIOUS
<1> QED
  BY <1>1, <1>4, <1>5, <1>6, <1>7, <1>8 DEF ForgeInv, NoFile, NoTemp

-----------------------------------------------------------------------------
(* CurseForge: the theorem                                                 *)

LEMMA ForgeInvInit ==
    ASSUME ForgeConstants, ForgeInit
    PROVE  ForgeInv
<1> USE DEF ForgeInit
<1>1. queue \in Seq(Files) /\ roots \in Seq(ModIds) /\ moves \in 0 .. MaxMoves
  BY SMTT(30) DEF ForgeConstants
<1>2. relations \in [Files -> Seq(Relation)]
  BY DEF ForgeConstants
<1>3. chosen \in [ModIds -> Files \cup {Missing}]
  BY DEF Nothing
<1>4. ForgeTypeOK
  BY <1>1, <1>2, <1>3, NoFileTyped, NoTempTyped DEF ForgeTypeOK
<1>5. ChosenFits
  BY DEF ChosenFits, Nothing
<1>6. Fresh
  BY DEF Fresh
<1> QED
  BY <1>4, <1>5, <1>6 DEF ForgeInv

LEMMA ForgeInvStep ==
    ASSUME ForgeConstants, ForgeInv, [ForgeNext]_forgeVars
    PROVE  ForgeInv'
<1>1. CASE ForgeNext
  BY <1>1, ParseKeepsInv, ResolveProjectKeepsInv, ResolveKeepsInv, PopKeepsInv, RelateKeepsInv,
     ExpandedKeepsInv, MapKeepsInv, DownloadKeepsInv, PublishKeepsInv, PrepareForgeKeepsInv,
     MoveKeepsInv DEF ForgeNext
<1>2. CASE UNCHANGED forgeVars
  <2> USE <1>2 DEF forgeVars
  <2>1. ForgeTypeOK'
    BY DEF ForgeInv, ForgeTypeOK
  <2>2. \A f : Whole(f)' = Whole(f)
    BY DEF Whole
  <2>3. \A f \in ready' : Whole(f)'
    BY <2>2 DEF ForgeInv
  <2>4. temp' # NoTemp => /\ temp'.file \in Files /\ temp'.content \in Streams
                          /\ stagedMods'[temp'.file] = Missing
    BY DEF ForgeInv
  <2> QED
    BY <2>1, <2>2, <2>3, <2>4, DownloadQuiet
<1> QED
  BY <1>1, <1>2

LEMMA ForgeInvConsistent ==
    ASSUME ForgeInv
    PROVE  FilesConsistent
<1>1. ASSUME NEW graph \in handed \cup (IF step = "resolved" THEN {Chosen} ELSE {})
      PROVE  /\ RelationsMet(graph)
             /\ graph \in handed \/ ready = graph => \A f \in graph : Whole(f)
  <2>1. CASE graph \in handed
    BY <2>1 DEF ForgeInv
  <2>2. CASE step = "resolved" /\ graph = Chosen
    BY <2>2 DEF ForgeInv
  <2> QED
    BY <2>1, <2>2
<1> QED
  BY <1>1 DEF FilesConsistent, RelationsMet

-----------------------------------------------------------------------------
(* Modrinth: the inductive invariant                                       *)

(* The dependencies of a version before the n-th are accounted for: a      *)
(* required one is met by a finished version or by one still to come, an   *)
(* incompatible one is noted.                                              *)
AccountedBefore(v, n, coming) ==
    \A j \in DOMAIN deps[v] : j < n =>
        /\ deps[v][j].kind = "required" =>
             \E w \in versions \cup coming : Satisfies(w, deps[v][j])
        /\ deps[v][j].kind = "incompatible" => deps[v][j] \in incompatible

AccountedFor(v) ==
    \A j \in DOMAIN deps[v] :
        /\ deps[v][j].kind = "required" => \E w \in versions : Satisfies(w, deps[v][j])
        /\ deps[v][j].kind = "incompatible" => deps[v][j] \in incompatible

(* What the i-th version of the path waits for: the one above it, or the   *)
(* one just fetched.                                                       *)
Coming(i) ==
    IF i < Len(visiting) THEN {visiting[i + 1].version}
    ELSE IF fetched = Unset THEN {} ELSE {fetched}

(* A version that was entered fits and is the one of its project. *)
SelectedOnce ==
    \A v \in Versions : v \in versions \/ Visited(v) =>
        v \in Fitting /\ selected[ProjectOf(v)] = v

(* Depth first. *)
WalkedSoFar ==
    /\ SelectedOnce
    /\ \A i \in DOMAIN visiting :
         /\ visiting[i].next >= 1
         /\ AccountedBefore(visiting[i].version, visiting[i].next, Coming(i))
    /\ \A v \in versions : AccountedFor(v)

(* What VersionsConsistent asks of a graph. *)
DependenciesMet ==
    /\ versions \subseteq Fitting
    /\ \A v, w \in versions : ProjectOf(v) = ProjectOf(w) => v = w
    /\ \A v \in versions : \A i \in DOMAIN deps[v] :
         /\ deps[v][i].kind = "required" => \E w \in versions : Satisfies(w, deps[v][i])
         /\ deps[v][i].kind = "incompatible" =>
              \A w \in versions : Satisfies(w, deps[v][i]) =>
                deps[v][i].project = Unset /\ deps[v][i].version = Unset

ClientInv ==
    /\ ClientTypeOK
    /\ phase \in {"idle", "root"} => visiting = <<>> /\ versions = {}
    /\ phase = "root" => fetched \in Versions
    /\ phase = "resolving" => WalkedSoFar
    /\ phase \in {"resolved", "done"} => DependenciesMet
    /\ \A v \in Versions : packages[v] # Unset => v \in versions /\ packages[v] = "whole"
    /\ part # NoPart => part.version \in versions /\ part.file \in Contents
    /\ phase = "done" => \A v \in versions : packages[v] # Unset

-----------------------------------------------------------------------------
(* Modrinth: lemmas about the listing                                      *)

LEMMA ProjectListed ==
    ASSUME NEW v \in Versions
    PROVE  ProjectOf(v) \in Projects /\ \E i \in DOMAIN Listing[ProjectOf(v)] :
                                           Listing[ProjectOf(v)][i] = v
<1>1. \E p \in Projects : \E i \in DOMAIN Listing[p] : Listing[p][i] = v
  BY DEF Versions
<1> QED
  BY <1>1 DEF ProjectOf

LEMMA ListedProject ==
    ASSUME ClientConstants, NEW p \in Projects, NEW i \in DOMAIN Listing[p]
    PROVE  Listing[p][i] \in Versions /\ ProjectOf(Listing[p][i]) = p
<1>1. Listing[p][i] \in Versions
  BY SMTT(30) DEF Versions
<1>2. PICK j \in DOMAIN Listing[ProjectOf(Listing[p][i])] :
         Listing[ProjectOf(Listing[p][i])][j] = Listing[p][i]
  BY <1>1, ProjectListed
<1>3. ProjectOf(Listing[p][i]) \in Projects
  BY <1>1, ProjectListed
<1> QED
  BY <1>1, <1>2, <1>3 DEF ClientConstants

LEMMA NewestListed ==
    ASSUME ClientConstants, NEW p \in Projects, NEW v \in Newest(p)
    PROVE  v \in Versions /\ ProjectOf(v) = p
BY ListedProject DEF Newest, versionsOf

(* What a dependency is resolved to satisfies it. *)
LEMMA ResolvedSatisfies ==
    ASSUME ClientConstants, ClientTypeOK, NEW d \in Dependency,
           NEW v \in resolve_required_dependency(d)
    PROVE  v \in Versions /\ Satisfies(v, d)
<1>1. CASE d.version # Unset
  BY <1>1 DEF resolve_required_dependency, Satisfies, ClientTypeOK
<1>2. CASE d.version = Unset
  <2>1. d.project # Unset /\ v \in Newest(d.project)
    BY <1>2 DEF resolve_required_dependency
  <2>2. d.project \in Projects
    BY <2>1 DEF Dependency
  <2> QED
    BY <1>2, <2>1, <2>2, NewestListed DEF Satisfies
<1> QED
  BY <1>1, <1>2

LEMMA DependencyTyped ==
    ASSUME ClientTypeOK, NEW v \in Versions, NEW j \in DOMAIN deps[v]
    PROVE  /\ deps[v][j] \in Dependency /\ j \in Nat /\ j >= 1
           /\ j <= Len(deps[v]) /\ Len(deps[v]) \in Nat
<1>1. deps[v] \in Seq(Dependency)
  BY DEF ClientTypeOK
<1> QED
  BY SMTT(30), <1>1

LEMMA UnsetIsNone ==
    ASSUME ClientConstants
    PROVE  Unset \notin Versions /\ Unset \notin Projects /\ Unset \notin Contents
BY DEF ClientConstants

LEMMA NoPartTyped ==
    NoPart \in [version : Versions \cup {Unset}, file : Contents \cup {Unset}]
BY SMTT(30) DEF NoPart

LEMMA PathTop ==
    ASSUME NEW S, NEW path \in Seq(S), path # <<>>
    PROVE  /\ Len(path) \in DOMAIN path /\ Len(path) \in Nat /\ DOMAIN path = 1 .. Len(path)
           /\ path[Len(path)] \in S
BY SMTT(30)

LEMMA PathLeft ==
    ASSUME NEW S, NEW path \in Seq(S), path # <<>>
    PROVE  LET left == SubSeq(path, 1, Len(path) - 1)
           IN  /\ left \in Seq(S) /\ Len(left) = Len(path) - 1
               /\ DOMAIN left = 1 .. (Len(path) - 1)
               /\ \A i \in DOMAIN left : left[i] = path[i]
<1>1. Len(path) \in Nat /\ Len(path) >= 1 /\ 1 \in 1 .. Len(path) + 1 /\ Len(path) - 1 \in Nat
      /\ Len(path) - 1 \in (1 - 1) .. Len(path)
  BY SMTT(30)
<1>2. SubSeq(path, 1, Len(path) - 1) = [i \in 1 .. (Len(path) - 1) |-> path[i]]
  BY SMTT(30), <1>1
<1>3. \A i \in 1 .. (Len(path) - 1) : path[i] \in S
  BY SMTT(30), <1>1
<1>4. [i \in 1 .. (Len(path) - 1) |-> path[i]] \in Seq(S)
  BY SMTT(30), <1>1, <1>3
<1>5. Len([i \in 1 .. (Len(path) - 1) |-> path[i]]) = Len(path) - 1
  BY SMTT(30), <1>1
<1> QED
  BY <1>2, <1>4, <1>5

-----------------------------------------------------------------------------
(* Modrinth: every step keeps the invariant                                *)

(* A step that leaves the walk alone. *)
LEMMA WalkUntouched ==
    ASSUME UNCHANGED <<deps, fetched, visiting, versions, selected, incompatible>>
    PROVE  WalkedSoFar' = WalkedSoFar /\ DependenciesMet' = DependenciesMet
<1>1. SelectedOnce' = SelectedOnce
  BY DEF SelectedOnce, Visited
<1>2. \A v : AccountedFor(v)' = AccountedFor(v)
  BY DEF AccountedFor
<1>3. \A i : Coming(i)' = Coming(i)
  BY DEF Coming
<1>4. \A v, n, c : AccountedBefore(v, n, c)' = AccountedBefore(v, n, c)
  BY DEF AccountedBefore
<1>5. WalkedSoFar' = WalkedSoFar
  BY <1>1, <1>2, <1>3, <1>4 DEF WalkedSoFar
<1>6. DependenciesMet' = DependenciesMet
  BY DEF DependenciesMet
<1> QED
  BY <1>5, <1>6

(* A step that ends in failure while nothing is being downloaded. *)
LEMMA ClientFailed ==
    ASSUME ClientInv, ClientTypeOK', phase' = "failed", UNCHANGED <<part, packages>>,
           versions \subseteq versions'
    PROVE  ClientInv'
BY DEF ClientInv, NoPart

LEMMA ResolveProjectModrinthKeepsInv ==
    ASSUME ClientConstants, ClientInv, modrinth_resolve_project
    PROVE  ClientInv'
<1> USE DEF modrinth_resolve_project
<1>1. CASE phase' = "failed" /\ UNCHANGED fetched
  <2>1. ClientTypeOK'
    BY <1>1 DEF ClientInv, ClientTypeOK
  <2> QED
    BY <1>1, <2>1, ClientFailed
<1>2. CASE phase' = "root" /\ fetched' \in Newest(Root)
  <2>1. fetched' \in Versions
    BY <1>2, NewestListed DEF ClientConstants
  <2>2. ClientTypeOK'
    BY <1>2, <2>1 DEF ClientInv, ClientTypeOK
  <2> QED
    BY <1>2, <2>1, <2>2 DEF ClientInv, NoPart
<1> QED
  BY <1>1, <1>2 DEF ClientFails

LEMMA ResolveModrinthKeepsInv ==
    ASSUME ClientInv, resolve
    PROVE  ClientInv'
<1> USE DEF resolve
<1>1. ClientTypeOK'
  BY DEF ClientInv, ClientTypeOK, ClientFails
<1>2. CASE phase' = "failed"
  BY <1>1, <1>2, ClientFailed
<1>3. CASE phase' = "resolving"
  <2>1. DOMAIN visiting' = {} /\ versions' = {}
    BY SMTT(30) DEF ClientInv
  <2>2. WalkedSoFar'
    BY <2>1 DEF WalkedSoFar, SelectedOnce, Visited
  <2> QED
    BY <1>1, <1>3, <2>2 DEF ClientInv, NoPart
<1> QED
  BY <1>2, <1>3 DEF ClientFails

(* The fetched version is entered, or shared, or the resolution fails. *)
LEMMA ResolveVersionKeepsInv ==
    ASSUME ClientConstants, ClientInv, resolve_version
    PROVE  ClientInv'
<1> USE DEF resolve_version
<1>1. fetched \in Versions /\ WalkedSoFar /\ ClientTypeOK
  BY DEF ClientInv, ClientTypeOK
<1>2. CASE phase' = "failed" /\ UNCHANGED <<visiting, selected>>
  <2>1. ClientTypeOK'
    BY <1>2 DEF ClientInv, ClientTypeOK
  <2> QED
    BY <1>2, <2>1, ClientFailed
<1>3. CASE fetched \in versions /\ UNCHANGED <<phase, visiting, selected>>
  <2>1. ClientTypeOK'
    BY <1>3 DEF ClientInv, ClientTypeOK
  <2>2. SelectedOnce'
    BY <1>1, <1>3 DEF WalkedSoFar, SelectedOnce, Visited
  <2>3. \A v \in versions' : AccountedFor(v)'
    BY <1>1, <1>3 DEF WalkedSoFar, AccountedFor
  <2>4. ASSUME NEW i \in DOMAIN visiting'
        PROVE  /\ visiting'[i].next >= 1
               /\ AccountedBefore(visiting[i].version, visiting[i].next, Coming(i))'
    <3>1. Coming(i) \subseteq versions \cup Coming(i)'
      BY <1>3 DEF Coming
    <3>2. i \in DOMAIN visiting /\ visiting'[i] = visiting[i]
      BY <1>3
    <3> QED
      BY <1>1, <1>3, <3>1, <3>2 DEF WalkedSoFar, AccountedBefore
  <2>5. WalkedSoFar'
    BY <2>2, <2>3, <2>4 DEF WalkedSoFar
  <2> QED
    BY <1>3, <2>1, <2>5 DEF ClientInv, NoPart
<1>4. CASE /\ fetched \in Fitting /\ selected[ProjectOf(fetched)] \in {Unset, fetched}
           /\ Enter(fetched) /\ UNCHANGED phase
  <2>1. /\ Len(visiting') = Len(visiting) + 1 /\ Len(visiting) \in Nat
        /\ \A i \in DOMAIN visiting : visiting'[i] = visiting[i]
        /\ visiting'[Len(visiting')] = [version |-> fetched, next |-> 1]
        /\ DOMAIN visiting' = DOMAIN visiting \cup {Len(visiting')}
        /\ visiting' \in Seq([version : Versions, next : Nat])
        /\ DOMAIN visiting = 1 .. Len(visiting)
    BY SMTT(30), <1>1, <1>4 DEF Enter, ClientTypeOK
  <2>2. ProjectOf(fetched) \in Projects
    BY <1>1, ProjectListed
  <2>3. /\ selected'[ProjectOf(fetched)] = fetched
        /\ \A p \in Projects : p # ProjectOf(fetched) => selected'[p] = selected[p]
        /\ selected' \in [Projects -> Versions \cup {Unset}]
    BY <1>1, <1>4, <2>2 DEF Enter, ClientTypeOK
  <2>4. ClientTypeOK'
    BY <1>4, <2>1, <2>3 DEF ClientInv, ClientTypeOK
  <2>5. visiting'[Len(visiting')].version = fetched /\ visiting'[Len(visiting')].next = 1
    BY SMTT(30), <2>1
  <2>6. SelectedOnce'
    <3> SUFFICES ASSUME NEW v \in Versions, v \in versions \/ Visited(v)'
                 PROVE  v \in Fitting /\ selected'[ProjectOf(v)] = v
      BY DEF SelectedOnce
    <3>1. CASE v = fetched
      BY <1>4, <2>3, <3>1
    <3>2. CASE v # fetched
      <4>1. v \in versions \/ Visited(v)
        BY <2>1, <2>5, <3>2 DEF Visited
      <4>2. v \in Fitting /\ selected[ProjectOf(v)] = v
        BY <1>1, <4>1 DEF WalkedSoFar, SelectedOnce
      <4>3. ProjectOf(v) # ProjectOf(fetched)
        BY <1>4, <3>2, <4>2, UnsetIsNone
      <4> QED
        BY <2>3, <4>2, <4>3, ProjectListed
    <3> QED
      BY <3>1, <3>2
  <2>7. \A v \in versions' : AccountedFor(v)'
    BY <1>1 DEF WalkedSoFar, AccountedFor
  <2>8. ASSUME NEW i \in DOMAIN visiting
        PROVE  Coming(i)' = Coming(i)
    <3>1. CASE i < Len(visiting)
      <4>1. i < Len(visiting') /\ i + 1 \in DOMAIN visiting
        BY SMTT(30), <2>1, <3>1
      <4> QED
        BY <2>1, <3>1, <4>1 DEF Coming
    <3>2. CASE ~(i < Len(visiting))
      <4>1. i < Len(visiting') /\ i + 1 = Len(visiting')
        BY SMTT(30), <2>1, <3>2
      <4> QED
        BY <2>5, <3>2, <4>1 DEF Coming
    <3> QED
      BY <3>1, <3>2
  <2>9. ASSUME NEW i \in DOMAIN visiting'
        PROVE  /\ visiting'[i].next >= 1
               /\ AccountedBefore(visiting[i].version, visiting[i].next, Coming(i))'
    <3>1. CASE i \in DOMAIN visiting
      BY <1>1, <2>1, <2>8, <3>1 DEF WalkedSoFar, AccountedBefore
    <3>2. CASE i = Len(visiting')
      <4>1. 1 >= 1
        BY SMTT(30)
      <4>2. \A j \in DOMAIN deps[fetched] : ~(j < 1)
        BY SMTT(30), <1>1, DependencyTyped
      <4> QED
        BY <2>5, <3>2, <4>1, <4>2 DEF AccountedBefore
    <3> QED
      BY <2>1, <3>1, <3>2
  <2>10. WalkedSoFar'
    BY <2>6, <2>7, <2>9 DEF WalkedSoFar
  <2> QED
    BY <1>4, <2>4, <2>10 DEF ClientInv, NoPart
<1> QED
  BY <1>2, <1>3, <1>4 DEF ClientFails, version_compatible

(* The next dependency is fetched, noted or passed over. *)
LEMMA WalkDependencyKeepsInv ==
    ASSUME ClientConstants, ClientInv, WalkDependency
    PROVE  ClientInv'
<1> USE DEF WalkDependency, Walking
<1>1. ClientTypeOK /\ WalkedSoFar /\ phase = "resolving" /\ fetched = Unset
  BY DEF ClientInv
<1>2. /\ Len(visiting) \in DOMAIN visiting /\ Len(visiting) \in Nat
      /\ DOMAIN visiting = 1 .. Len(visiting)
      /\ Top \in [version : Versions, next : Nat]
      /\ visiting \in Seq([version : Versions, next : Nat])
  BY <1>1, PathTop DEF ClientTypeOK, Top
<1>3. /\ visiting' \in Seq([version : Versions, next : Nat])
      /\ DOMAIN visiting' = DOMAIN visiting /\ Len(visiting') = Len(visiting)
      /\ \A i \in DOMAIN visiting : i # Len(visiting) => visiting'[i] = visiting[i]
      /\ visiting'[Len(visiting)].version = Top.version
      /\ visiting'[Len(visiting)].next = Top.next + 1
  BY SMTT(30), <1>2 DEF Passed, Top
<1> DEFINE d == deps[Top.version][Top.next]
<1>4. Top.version \in Versions /\ Top.next \in Nat /\ Top.next >= 1
  BY <1>1, <1>2 DEF WalkedSoFar, Top
<1>5. Top.next \in DOMAIN deps[Top.version] /\ d \in Dependency
  <2>1. deps[Top.version] \in Seq(Dependency)
    BY <1>1, <1>4 DEF ClientTypeOK
  <2> QED
    BY SMTT(30), <1>4, <2>1
<1>6. /\ incompatible' \in SUBSET Dependency /\ incompatible \subseteq incompatible'
      /\ fetched' \in Versions \cup {Unset}
      /\ phase' \in {"resolving", "failed"}
      /\ phase' = "resolving" =>
           /\ d.kind = "required" => fetched' \in Versions /\ Satisfies(fetched', d)
           /\ d.kind = "incompatible" => d \in incompatible'
  <2>1. incompatible \in SUBSET Dependency
    BY <1>1 DEF ClientTypeOK
  <2>2. CASE d.kind = "required"
    BY <1>1, <1>5, <2>1, <2>2, ResolvedSatisfies DEF ClientFails
  <2>3. CASE d.kind = "incompatible"
    BY <1>1, <1>5, <2>1, <2>3
  <2>4. CASE d.kind \in {"optional", "embedded"}
    BY <1>1, <1>5, <2>1, <2>4
  <2> QED
    BY <2>2, <2>3, <2>4
<1>7. ClientTypeOK'
  BY <1>1, <1>3, <1>6 DEF ClientTypeOK
<1>8. CASE phase' = "failed"
  BY <1>7, <1>8, ClientFailed
<1>9. CASE phase' = "resolving"
  <2>1. \A i \in DOMAIN visiting : visiting'[i].version = visiting[i].version
    BY <1>3 DEF Top
  <2>2. SelectedOnce'
    BY <1>1, <1>3, <2>1 DEF WalkedSoFar, SelectedOnce, Visited
  <2>3. \A v \in versions' : AccountedFor(v)'
    BY <1>1, <1>6 DEF WalkedSoFar, AccountedFor
  <2>4. ASSUME NEW i \in DOMAIN visiting', i # Len(visiting)
        PROVE  /\ visiting'[i].next >= 1
               /\ AccountedBefore(visiting[i].version, visiting[i].next, Coming(i))'
    <3>1. i < Len(visiting) /\ i + 1 \in DOMAIN visiting /\ i \in DOMAIN visiting
      BY SMTT(30), <1>2, <1>3, <2>4
    <3>2. Coming(i)' = Coming(i)
      BY <1>3, <2>1, <3>1 DEF Coming
    <3>3. visiting'[i] = visiting[i]
      BY <1>3, <2>4, <3>1
    <3>4. /\ visiting[i].next >= 1
          /\ AccountedBefore(visiting[i].version, visiting[i].next, Coming(i))
      BY <1>1, <3>1 DEF WalkedSoFar
    <3> QED
      BY <1>6, <3>2, <3>3, <3>4 DEF AccountedBefore
  <2>5. visiting'[Len(visiting)].next >= 1
    BY SMTT(30), <1>3, <1>4
  <2>6. AccountedBefore(visiting[Len(visiting)].version, visiting[Len(visiting)].next,
                        Coming(Len(visiting)))'
    <3>1. /\ ~(Len(visiting) < Len(visiting))
          /\ Coming(Len(visiting)) = {}
      BY SMTT(30), <1>1, <1>2 DEF Coming
    <3>2. Coming(Len(visiting))' = IF fetched' = Unset THEN {} ELSE {fetched'}
      BY <1>3, <3>1 DEF Coming
    <3>3. AccountedBefore(Top.version, Top.next, {})
      BY <1>1, <1>2, <3>1 DEF WalkedSoFar, Top
    <3>4. ASSUME NEW j \in DOMAIN deps[Top.version], j < Top.next + 1
          PROVE  /\ deps[Top.version][j].kind = "required" =>
                      \E w \in versions' \cup Coming(Len(visiting))' :
                        Satisfies(w, deps[Top.version][j])
                 /\ deps[Top.version][j].kind = "incompatible" =>
                      deps[Top.version][j] \in incompatible'
      <4>1. j \in Nat
        BY <1>1, <1>4, DependencyTyped
      <4>2. j < Top.next \/ j = Top.next
        BY SMTT(30), <1>4, <3>4, <4>1
      <4>3. CASE j < Top.next
        BY <1>6, <3>3, <4>3 DEF AccountedBefore
      <4>4. CASE j = Top.next
        BY <1>6, <1>9, <3>2, <4>4, UnsetIsNone
      <4> QED
        BY <4>2, <4>3, <4>4
    <3>5. deps' = deps
      OBVIOUS
    <3>6. visiting'[Len(visiting')].version = Top.version /\ Len(visiting') = Len(visiting)
          /\ visiting'[Len(visiting')].next = Top.next + 1
      BY <1>3
    <3> QED
      BY <3>4, <3>5, <3>6 DEF AccountedBefore, Satisfies
  <2>7. WalkedSoFar'
    BY <1>3, <2>2, <2>3, <2>4, <2>5, <2>6 DEF WalkedSoFar
  <2> QED
    BY <1>7, <1>9, <2>7 DEF ClientInv, NoPart
<1> QED
  BY <1>6, <1>8, <1>9

(* The version on top is finished: what waited for it has it. *)
LEMMA LeaveVersionKeepsInv ==
    ASSUME ClientConstants, ClientInv, LeaveVersion
    PROVE  ClientInv'
<1> USE DEF LeaveVersion, Walking
<1>1. ClientTypeOK /\ WalkedSoFar /\ phase' = "resolving" /\ fetched = Unset
  BY DEF ClientInv
<1>2. /\ Len(visiting) \in DOMAIN visiting /\ Len(visiting) \in Nat
      /\ Top \in [version : Versions, next : Nat]
      /\ DOMAIN visiting = 1 .. Len(visiting)
  BY <1>1, PathTop DEF ClientTypeOK, Top
<1>3. /\ visiting' \in Seq([version : Versions, next : Nat])
      /\ Len(visiting') = Len(visiting) - 1
      /\ DOMAIN visiting' = 1 .. (Len(visiting) - 1)
      /\ \A i \in DOMAIN visiting' : visiting'[i] = visiting[i]
  BY <1>1, PathLeft DEF ClientTypeOK
<1>4. Top.version \in Versions /\ Visited(Top.version)
  BY <1>2 DEF Visited, Top
<1>5. ClientTypeOK'
  BY <1>1, <1>3, <1>4 DEF ClientTypeOK
<1>6. DOMAIN visiting' \subseteq DOMAIN visiting
  BY SMTT(30), <1>2, <1>3
<1>7. SelectedOnce'
  BY <1>1, <1>3, <1>4, <1>6 DEF WalkedSoFar, SelectedOnce, Visited
<1>8. AccountedFor(Top.version)
  <2>1. Coming(Len(visiting)) = {}
    BY SMTT(30), <1>1, <1>2 DEF Coming
  <2>2. AccountedBefore(Top.version, Top.next, {})
    BY <1>1, <1>2, <2>1 DEF WalkedSoFar, Top
  <2>3. \A j \in DOMAIN deps[Top.version] : j < Top.next
    <3>1. deps[Top.version] \in Seq(Dependency) /\ Top.next \in Nat
      BY <1>1, <1>2, <1>4 DEF ClientTypeOK
    <3> QED
      BY SMTT(30), <3>1
  <2> QED
    BY <2>2, <2>3 DEF AccountedBefore, AccountedFor
<1>9. \A v \in versions' : AccountedFor(v)'
  BY <1>1, <1>8 DEF WalkedSoFar, AccountedFor
<1>10. ASSUME NEW i \in DOMAIN visiting'
       PROVE  /\ visiting'[i].next >= 1
              /\ AccountedBefore(visiting[i].version, visiting[i].next, Coming(i))'
  <2>1. Coming(i) \subseteq versions' \cup Coming(i)'
    <3>1. CASE i < Len(visiting')
      <4>1. i < Len(visiting) /\ i + 1 \in DOMAIN visiting'
        BY SMTT(30), <1>2, <1>3, <3>1
      <4> QED
        BY <1>3, <3>1, <4>1 DEF Coming
    <3>2. CASE ~(i < Len(visiting'))
      <4>1. i < Len(visiting) /\ i + 1 = Len(visiting)
        BY SMTT(30), <1>2, <1>3, <3>2
      <4> QED
        BY <4>1 DEF Coming, Top
    <3> QED
      BY <3>1, <3>2
  <2>2. /\ visiting[i].next >= 1
        /\ AccountedBefore(visiting[i].version, visiting[i].next, Coming(i))
    BY <1>1, <1>6 DEF WalkedSoFar
  <2> QED
    BY <1>3, <2>1, <2>2 DEF AccountedBefore
<1>11. WalkedSoFar'
  BY <1>7, <1>9, <1>10 DEF WalkedSoFar
<1> QED
  BY <1>1, <1>5, <1>11 DEF ClientInv, NoPart

(* The path is empty: what was noted as incompatible is looked up. *)
LEMMA ResolvedVersionsKeepsInv ==
    ASSUME ClientConstants, ClientInv, Resolved
    PROVE  ClientInv'
<1> USE DEF Resolved
<1>1. ClientTypeOK'
  BY DEF ClientInv, ClientTypeOK, ClientFails
<1>2. CASE phase' = "failed"
  BY <1>1, <1>2, ClientFailed
<1>3. CASE phase' = "resolved" /\ validate_incompatibilities
  <2>1. WalkedSoFar /\ versions \subseteq Versions
    BY DEF ClientInv, ClientTypeOK
  <2>2. \A v \in versions : v \in Fitting /\ selected[ProjectOf(v)] = v
    BY <2>1 DEF WalkedSoFar, SelectedOnce
  <2>3. ASSUME NEW v \in versions, NEW i \in DOMAIN deps[v],
               deps[v][i].kind = "incompatible",
               NEW w \in versions, Satisfies(w, deps[v][i])
        PROVE  deps[v][i].project = Unset /\ deps[v][i].version = Unset
    <3>1. deps[v][i] \in incompatible
      BY <2>1, <2>3 DEF WalkedSoFar, AccountedFor
    <3>2. deps[v][i].version = Unset
      BY <1>3, <2>3, <3>1 DEF validate_incompatibilities, Satisfies
    <3>3. deps[v][i].project # Unset => selected[ProjectOf(w)] = Unset
      BY <1>3, <2>3, <3>1, <3>2 DEF validate_incompatibilities, Satisfies
    <3> QED
      BY <2>1, <2>2, <3>2, <3>3, UnsetIsNone
  <2>4. \A v \in versions : \A i \in DOMAIN deps[v] :
          deps[v][i].kind = "required" => \E w \in versions : Satisfies(w, deps[v][i])
    BY <2>1 DEF WalkedSoFar, AccountedFor
  <2>5. DependenciesMet
    BY <2>2, <2>3, <2>4 DEF DependenciesMet
  <2> QED
    BY <1>1, <1>3, <2>5, WalkUntouched DEF ClientInv, NoPart
<1> QED
  BY <1>2, <1>3 DEF ClientFails

LEMMA DownloadVersionKeepsInv ==
    ASSUME ClientConstants, ClientInv, NEW v \in Versions, download(v)
    PROVE  ClientInv'
<1> USE DEF download
<1>1. CASE phase' = "failed" /\ UNCHANGED part
  <2>1. ClientTypeOK'
    BY <1>1 DEF ClientInv, ClientTypeOK
  <2> QED
    BY <1>1, <2>1, ClientFailed
<1>2. ASSUME NEW file \in Contents, part' = [version |-> v, file |-> file], UNCHANGED phase
      PROVE  ClientInv'
  <2>1. /\ part' \in [version : Versions \cup {Unset}, file : Contents \cup {Unset}]
        /\ part'.version = v /\ part'.file = file
    BY SMTT(30), <1>2
  <2>2. ClientTypeOK'
    BY <1>2, <2>1 DEF ClientInv, ClientTypeOK
  <2> QED
    BY <1>2, <2>1, <2>2, WalkUntouched DEF ClientInv
<1> QED
  BY <1>1, <1>2 DEF ClientFails

(* Only a verified file becomes a package. *)
LEMMA PublishVersionKeepsInv ==
    ASSUME ClientConstants, ClientInv, publish_replace
    PROVE  ClientInv'
<1> USE DEF publish_replace
<1>1. part.version \in versions /\ part.version \in Versions /\ part.file \in Contents
  BY DEF ClientInv, ClientTypeOK
<1>2. packages' \in [Versions -> Contents \cup {Unset}]
  BY <1>1 DEF ClientInv, ClientTypeOK, ClientFails
<1>3. ClientTypeOK'
  BY <1>2, NoPartTyped DEF ClientInv, ClientTypeOK, ClientFails
<1>4. \A v \in Versions : packages'[v] # Unset => v \in versions' /\ packages'[v] = "whole"
  <2>1. packages \in [Versions -> Contents \cup {Unset}]
    BY DEF ClientInv, ClientTypeOK
  <2>2. CASE UNCHANGED packages
    BY <2>2 DEF ClientInv
  <2>3. CASE verification /\ packages' = [packages EXCEPT ![part.version] = part.file]
    BY <1>1, <2>1, <2>3 DEF ClientInv, verification
  <2> QED
    BY <2>2, <2>3
<1>5. phase' \in {"resolved", "failed"}
  BY DEF ClientFails
<1> QED
  BY <1>3, <1>4, <1>5, WalkUntouched DEF ClientInv

LEMMA PrepareModrinthKeepsInv ==
    ASSUME ClientInv, prepareModrinth
    PROVE  ClientInv'
<1>1. ClientTypeOK'
  BY DEF ClientInv, ClientTypeOK, prepareModrinth
<1> QED
  BY <1>1, WalkUntouched DEF ClientInv, prepareModrinth

(* The invariant does not look at what the provider serves. *)
LEMMA ChangeKeepsInv ==
    ASSUME ClientConstants, ClientInv, NEW v \in Versions, Change(v)
    PROVE  ClientInv'
<1> USE DEF Change
<1>1. changes' \in 0 .. MaxChanges
  BY SMTT(30) DEF ClientInv, ClientTypeOK, ClientConstants
<1>2. ClientTypeOK'
  BY <1>1 DEF ClientInv, ClientTypeOK
<1> QED
  BY <1>2, WalkUntouched DEF ClientInv, NoPart

-----------------------------------------------------------------------------
(* Modrinth: the invariant, and the theorem about both providers           *)

LEMMA ClientInvInit ==
    ASSUME ClientConstants, ClientInit
    PROVE  ClientInv
<1> USE DEF ClientInit
<1>1. visiting \in Seq([version : Versions, next : Nat]) /\ changes \in 0 .. MaxChanges
  BY SMTT(30) DEF ClientConstants
<1>2. deps \in [Versions -> Seq(Dependency)]
  BY DEF ClientConstants
<1>3. ClientTypeOK
  BY <1>1, <1>2, NoPartTyped DEF ClientTypeOK
<1> QED
  BY <1>3 DEF ClientInv

LEMMA ClientInvStep ==
    ASSUME ClientConstants, ClientInv, [ClientNext]_clientVars
    PROVE  ClientInv'
<1>1. CASE ClientNext
  BY <1>1, ResolveProjectModrinthKeepsInv, ResolveModrinthKeepsInv, ResolveVersionKeepsInv,
     WalkDependencyKeepsInv, LeaveVersionKeepsInv, ResolvedVersionsKeepsInv,
     DownloadVersionKeepsInv, PublishVersionKeepsInv, PrepareModrinthKeepsInv,
     ChangeKeepsInv DEF ClientNext
<1>2. CASE UNCHANGED clientVars
  <2>1. ClientTypeOK'
    BY <1>2 DEF ClientInv, ClientTypeOK, clientVars
  <2> QED
    BY <1>2, <2>1, WalkUntouched DEF ClientInv, clientVars, NoPart
<1> QED
  BY <1>1, <1>2

LEMMA ClientInvConsistent ==
    ASSUME ClientInv
    PROVE  VersionsConsistent
<1>1. phase = "done" =>
        \A v \in Versions : packages[v] = IF v \in versions THEN "whole" ELSE Unset
  BY DEF ClientInv
<1> QED
  BY <1>1 DEF ClientInv, VersionsConsistent, DependenciesMet

(* Whatever the two providers publish and withdraw while the dependencies  *)
(* are walked, a graph that ModrinthClient::resolve or                     *)
(* resolve_dependency_graph returns is consistent: every required          *)
(* dependency is met, no project has two files, nothing declared           *)
(* incompatible is in it, and what is handed back is the whole graph.      *)
THEOREM GraphConsistentCorrect == ProvidersSpec => []GraphConsistent
<1>1. ProvidersInit => ClientInv /\ ForgeInv
  BY ClientInvInit, ForgeInvInit, ClientAssumption, ForgeAssumption DEF ProvidersInit
<1>2. (ClientInv /\ ForgeInv) /\ [ProvidersNext]_providersVars => (ClientInv /\ ForgeInv)'
  BY ClientInvStep, ForgeInvStep, ClientAssumption, ForgeAssumption
     DEF ProvidersNext, providersVars
<1>3. ClientInv /\ ForgeInv => GraphConsistent
  BY ClientInvConsistent, ForgeInvConsistent DEF GraphConsistent
<1> QED
  BY <1>1, <1>2, <1>3, PTL DEF ProvidersSpec
=============================================================================
