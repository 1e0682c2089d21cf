------------------------ MODULE MCAuthorityRecovery ------------------------
(* Instances of AuthorityRecovery for TLC.  Peers are numbers because the  *)
(* election prefers the lowest id, so the peers are not symmetric.         *)
EXTENDS RecoveryInvariant

Founded == <<1>>
Recovered == <<1, 2>>
=============================================================================
