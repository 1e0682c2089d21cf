-------------------------------- MODULE MCWorld --------------------------------
(***************************************************************************)
(* The life of one world on small instances: mods fetched from Modrinth    *)
(* and from CurseForge, the world created with them, its voter set and the *)
(* hand-over of its authority.  A behaviour runs one of them, the others   *)
(* stay in an initial state.  The voter set is checked twice: with a       *)
(* member that leaves while the authority is recovered, and with a peer    *)
(* that joins.                                                             *)
(***************************************************************************)
EXTENDS MembershipConsensus, ManualTransfer, WorldCreation, ModProviders

CONSTANTS Alice, Bob, Charlie, Dana

VARIABLE component      \* the component this behaviour runs

Joining == INSTANCE MembershipConsensus WITH
    Joiners <- {Dana}, Leavers <- {}, MaxSequence <- 2, MaxEpoch <- 1

\* A dependency, as the provider publishes it.
Dep(kind, project, version) == [kind |-> kind, project |-> project, version |-> version]

\* Mod R is asked for; it and B may need or exclude A, whose newest version
\* may need B or R in turn, and whose oldest does not fit the world.
Library == {Dep("required", "A", Unset), Dep("required", Unset, "a1"), Dep("required", Unset, "a0"),
            Dep("required", "B", Unset), Dep("incompatible", "A", Unset),
            Dep("incompatible", Unset, "a2")}
UpToOne == {<<>>} \cup {<<d>> : d \in Library}
UpToTwo == UpToOne \cup {<<d, e>> : d \in Library, e \in Library}
OfNewestA == {<<>>, <<Dep("required", "B", Unset)>>, <<Dep("optional", "B", Unset)>>,
              <<Dep("required", "R", Unset)>>}

MCListing == [A |-> <<"a2", "a1", "a0">>, B |-> <<"b1">>, R |-> <<"r1">>]
MCGraphs ==
    {[v \in {"a2", "a1", "a0", "b1", "r1"} |->
        CASE v = "r1" -> ofR [] v = "b1" -> ofB [] v = "a2" -> ofA [] OTHER -> <<>>] :
     ofR \in UpToTwo, ofB \in UpToOne, ofA \in OfNewestA}

\* Mods 1 and 2 are asked for; they may need or exclude each other and the
\* library 3, whose newest file is listed for the world but not tagged for it.
Needs(kind, project) == [kind |-> kind, project |-> project]
OfMod(other) == {<<>>, <<Needs("required", 3)>>, <<Needs("incompatible", other)>>,
                 <<Needs("required", 3), Needs("required", other)>>,
                 <<Needs("optional", 3), Needs("required", other)>>}
OfLibrary == {<<>>, <<Needs("required", 1)>>, <<Needs("incompatible", 2)>>}
Release(project, date, tagged, named, hashes) ==
    [project |-> project, date |-> date, listed |-> TRUE, tagged |-> tagged, named |-> named,
     hashes |-> hashes]

MCCatalog == <<Release(1, 1, TRUE, TRUE, "known"), Release(2, 1, TRUE, TRUE, "none"),
               Release(3, 1, TRUE, FALSE, "known"), Release(3, 1, TRUE, TRUE, "known"),
               Release(3, 2, FALSE, TRUE, "known"), Release(2, 0, TRUE, TRUE, "unknown")>>
MCRelations == {<<ofOne, ofTwo, ofLibrary, <<>>, <<>>, <<>> >> :
                  ofOne \in OfMod(2), ofTwo \in OfMod(1), ofLibrary \in OfLibrary}
MCRootLists == {<<1>>, <<1, 2>>, <<3>>}

\* A package, as its resolution is handed to the create form.
Pack(project, version, kept, side) ==
    [project |-> project, version |-> version, deps |-> kept, side |-> side]

MCRoots == <<"lithium", "carpet">>
MCOffers ==
    [lithium |-> {{Pack("lithium", 1, {}, "server")},
                  {Pack("lithium", 1, {}, "server"), Pack("lib", 1, {}, "server")},
                  {Pack("lithium", 1, {Dep("required", "lib", Null)}, "server"),
                   Pack("lib", 1, {}, "server")},
                  {Pack("lithium", 2, {Dep("optional", "menu", Null)}, "server")}},
     carpet |-> {{Pack("carpet", 1, {Dep("incompatible", "lithium", Null)}, "server")},
                 {Pack("carpet", 1, {}, "server"), Pack("lib", 1, {}, "server")},
                 {Pack("carpet", 1, {}, "client")},
                 {Pack("carpet", 1, {Dep("required", "lib", Null)}, "server")}}]
MCRecords == <<"metadata", "descriptor", "membership", "config", "snapshot">>

suiteVars == <<component, vars, transferVars, clientVars, forgeVars, creationVars>>

SuiteInit ==
    /\ component \in {"leaving", "joining", "handover", "client", "forge", "creation"}
    /\ Init
    /\ TransferInit
    /\ ClientInit
    /\ component # "client" => \A v \in DOMAIN deps : deps[v] = <<>>
    /\ ForgeInit
    /\ component # "forge" => roots = <<1>> /\ \A f \in DOMAIN relations : relations[f] = <<>>
    /\ CreationInit

SuiteNext ==
    \/ /\ component = "leaving" /\ Next
       /\ UNCHANGED <<component, transferVars, clientVars, forgeVars, creationVars>>
    \/ /\ component = "joining" /\ Joining!Next
       /\ UNCHANGED <<component, transferVars, clientVars, forgeVars, creationVars>>
    \/ /\ component = "handover" /\ TransferNext
       /\ UNCHANGED <<component, vars, clientVars, forgeVars, creationVars>>
    \/ /\ component = "client" /\ ClientNext
       /\ UNCHANGED <<component, vars, transferVars, forgeVars, creationVars>>
    \/ /\ component = "forge" /\ ForgeNext
       /\ UNCHANGED <<component, vars, transferVars, clientVars, creationVars>>
    \/ /\ component = "creation" /\ CreationNext
       /\ UNCHANGED <<component, vars, transferVars, clientVars, forgeVars>>

SuiteSpec == SuiteInit /\ [][SuiteNext]_suiteVars

-----------------------------------------------------------------------------
(* Every variable of the chosen component has its type. *)
SuiteTypeOK ==
    /\ component = "leaving" => TypeOK
    /\ component = "joining" => Joining!TypeOK
    /\ TransferTypeOK /\ ClientTypeOK /\ ForgeTypeOK /\ CreationTypeOK
=============================================================================
