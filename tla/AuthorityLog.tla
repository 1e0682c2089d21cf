---------------------------- MODULE AuthorityLog ----------------------------
(***************************************************************************)
(* What authority recovery promises, without ballots, leases or messages:  *)
(* one log of authorities, of which every member has accepted a prefix,    *)
(* and permits that only the authority of a generation accepted by a       *)
(* majority can hold.  AuthorityRecovery implements it.                    *)
(***************************************************************************)
EXTENDS Integers, Sequences

CONSTANTS
    Peers,    \* the non-banned members
    Quorums,  \* the sets of members that form a majority
    Lineage   \* the authorities every member has accepted at the start

VARIABLES
    accepted, \* the authorities each member has accepted, oldest first
    permit    \* the generation each member holds a permit for, or 0

logVars == <<accepted, permit>>

Init ==
    /\ accepted = [p \in Peers |-> Lineage]
    /\ permit = [p \in Peers |-> 0]

(* p accepts a as the authority of its next generation: the one that any   *)
(* member has already accepted there, if there is one.  p may lose a       *)
(* permit it held before.                                                  *)
Accept(p, a) ==
    /\ \A q \in Peers :
          Len(accepted[q]) > Len(accepted[p]) => accepted[q][Len(accepted[p]) + 1] = a
    /\ accepted' = [accepted EXCEPT ![p] = Append(@, a)]
    /\ permit' \in {permit, [permit EXCEPT ![p] = 0]}

(* The authority of a generation gets its permit from a majority.          *)
Holders(g, p) == {q \in Peers : Len(accepted[q]) >= g /\ accepted[q][g] = p}
Grant(p) ==
    /\ Holders(Len(accepted[p]), p) \in Quorums
    /\ permit' = [permit EXCEPT ![p] = Len(accepted[p])]
    /\ UNCHANGED accepted

Withdraw(p) ==
    /\ permit' = [permit EXCEPT ![p] = 0]
    /\ UNCHANGED accepted

Next ==
    \E p \in Peers : Grant(p) \/ Withdraw(p) \/ \E a \in Peers : Accept(p, a)

Spec == Init /\ [][Next]_logVars
=============================================================================
