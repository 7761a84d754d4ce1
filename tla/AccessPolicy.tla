------------------------------ MODULE AccessPolicy ------------------------------
(***************************************************************************)
(* PermissionSet and AccessPolicy (perimeter/core/acl.py).  Both are       *)
(* immutable in the code, so every method is an operator; a permission set *)
(* is the set of its principals.                                           *)
(***************************************************************************)
EXTENDS Acl

PermissionSets == SUBSET Principals
Policies == [grants : SUBSET Principals, denies : SUBSET Principals]

(* A rule is a Grant or a Deny of one principal. *)
Rules == [effect : {"grant", "deny"}, principal : Principals]
Named(rules, effect) == {r.principal : r \in {q \in rules : q.effect = effect}}
from_rules(rules) == [grants |-> Named(rules, "grant"), denies |-> Named(rules, "deny")]

public == [grants |-> {EVERYONE}, denies |-> {}]
nobody == [grants |-> {}, denies |-> {}]

admits(policy, S) ==
  /\ S # {}
  /\ policy.denies \cap S = {}
  /\ policy.grants \cap S # {}

(* Decision.reason, without the names it lists. *)
Reason(policy, S) ==
  IF S = {} THEN "empty permission set"
  ELSE IF policy.denies \cap S # {} THEN "denied"
  ELSE IF policy.grants = {} THEN "no grants"
  ELSE IF policy.grants \cap S # {} THEN "granted" ELSE "no matching grant"

(* Mutant of explain: a matching grant is enough. *)
explain_GrantsOnly(policy, S) ==
  [admitted       |-> policy.grants \cap S # {},
   matched_grants |-> policy.grants \cap S,
   matched_denies |-> policy.denies \cap S,
   reason         |-> Reason(policy, S)]

explain(policy, S) ==
  [admitted       |-> admits(policy, S),
   matched_grants |-> policy.grants \cap S,
   matched_denies |-> policy.denies \cap S,
   reason         |-> Reason(policy, S)]

revoke(policy, p)     == [policy EXCEPT !.grants = @ \ {p}]
with_grant(policy, p) == [policy EXCEPT !.grants = @ \cup {p}]
with_deny(policy, p)  == [policy EXCEPT !.denies = @ \cup {p}]
=============================================================================
