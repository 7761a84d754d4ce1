---------------------------------- MODULE Acl ----------------------------------
(***************************************************************************)
(* The access-control values of perimeter/core: principals, the nested-    *)
(* group graph and permission sets.  They are immutable in the code        *)
(* (frozen dataclasses), so each method is an operator.                    *)
(*                                                                         *)
(* Identifiers are model values.  Groups are principals; EVERYONE is the   *)
(* public principal, which parse_principal_id and parse_group_id refuse,   *)
(* so it is neither a user nor a group.                                    *)
(***************************************************************************)
EXTENDS FiniteSets

CONSTANTS Users,     \* principal ids of callers
          Groups,    \* group ids
          EVERYONE   \* the reserved public principal

ASSUME PrincipalsAssumption ==
  /\ IsFiniteSet(Groups)
  /\ EVERYONE \notin Users \cup Groups

Principals == Users \cup Groups \cup {EVERYONE}

-----------------------------------------------------------------------------
(* GroupGraph: for each group, the groups it is directly a member of.      *)
(* parents_of falls back to the empty set, so the partial dictionary of    *)
(* the code is a total function here.                                      *)

GroupGraph == [Groups -> SUBSET Groups]

Closed(graph, S) == \A g \in S : graph[g] \subseteq S

(* What effective_principals promises of the groups: the least set that    *)
(* holds the direct memberships and is closed under parents_of.  The loop  *)
(* that computes it is module EffectivePrincipals.                         *)
Closure(graph, direct) ==
  {g \in Groups : \A S \in SUBSET Groups :
                     direct \subseteq S /\ Closed(graph, S) => g \in S}

(* PermissionSet.resolve: the caller's id, EVERYONE and the closure.       *)
Effective(id, direct, graph) == {id, EVERYONE} \cup Closure(graph, direct)

(* PermissionSet.without *)
without(permissions, ids) == permissions \ ids
=============================================================================
