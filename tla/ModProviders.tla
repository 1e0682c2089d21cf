----------------------------- MODULE ModProviders -----------------------------
(***************************************************************************)
(* The two providers of the create form (its submit handler in            *)
(* apps/desktop/src/launcher-controller.js): the mods a player selects     *)
(* from Modrinth and from CurseForge are prepared by two clients that      *)
(* share nothing.  The form prepares one mod after the other; here the two *)
(* may also overlap.                                                       *)
(***************************************************************************)
EXTENDS ModrinthClient, CurseForgeClient

providersVars == <<clientVars, forgeVars>>

ProvidersInit == ClientInit /\ ForgeInit

ProvidersNext ==
  \/ ClientNext /\ UNCHANGED forgeVars
  \/ ForgeNext /\ UNCHANGED clientVars

ProvidersSpec == ProvidersInit /\ [][ProvidersNext]_providersVars

-----------------------------------------------------------------------------
\* A graph that ModrinthClient::resolve or, for CurseForge,
\* resolve_dependency_graph returns is consistent, whatever the provider
\* changed while it was walked, and what is handed back is that graph.
GraphConsistent == VersionsConsistent /\ FilesConsistent
=============================================================================
