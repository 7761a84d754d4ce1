-------------------------- MODULE EffectivePrincipals --------------------------
(***************************************************************************)
(* effective_principals (perimeter/core/principal.py): the worklist loop   *)
(* that expands a caller's direct groups over a nested-group graph that    *)
(* may contain cycles.  One action per iteration outcome of the loop.      *)
(*                                                                         *)
(* list.pop() takes the last element.  list(frozenset) and                 *)
(* list.extend(frozenset) append in an order Python does not specify, so   *)
(* the order is chosen nondeterministically.                               *)
(***************************************************************************)
EXTENDS Acl, Integers, Sequences

VARIABLES
  graph,     \* the GroupGraph of this call
  caller,    \* the Principal: its id and its direct groups
  seen,      \* groups already expanded
  frontier,  \* the worklist, a list
  result     \* what the call returned; None until it does

vars == <<graph, caller, seen, frontier, result>>

None == [returned |-> FALSE]
Returned(S) == [returned |-> TRUE, principals |-> S]

(* Every way Python may list the members of a set: each once. *)
Listings(S) ==
  {s \in [1..Cardinality(S) -> S] : \A x \in S : \E i \in DOMAIN s : s[i] = x}

InSeq(s) == {s[i] : i \in DOMAIN s}

Init ==
  /\ graph \in GroupGraph
  /\ caller \in [id : Users, groups : SUBSET Groups]
  /\ seen = {}
  /\ frontier \in Listings(caller.groups)
  /\ result = None

Popped == frontier[Len(frontier)]
Rest   == SubSeq(frontier, 1, Len(frontier) - 1)

(* Mutants of SkipSeen: the worklist is peeked at instead of popped; a seen *)
(* group is expanded again.                                                *)
SkipSeen_Peeks ==
  /\ ~result.returned
  /\ frontier # <<>>
  /\ Popped \in seen
  /\ UNCHANGED vars

SkipSeen_ExpandsAgain ==
  /\ ~result.returned
  /\ frontier # <<>>
  /\ Popped \in seen
  /\ \E parents \in Listings(graph[Popped]) : frontier' = Rest \o parents
  /\ UNCHANGED <<graph, caller, seen, result>>

(* `if group in seen: continue` *)
SkipSeen ==
  /\ ~result.returned
  /\ frontier # <<>>
  /\ Popped \in seen
  /\ frontier' = Rest
  /\ UNCHANGED <<graph, caller, seen, result>>

(* Mutant of Visit: parents are not followed. *)
Visit_DirectOnly ==
  /\ ~result.returned
  /\ frontier # <<>>
  /\ Popped \notin seen
  /\ seen' = seen \cup {Popped}
  /\ frontier' = Rest
  /\ UNCHANGED <<graph, caller, result>>

(* The body of the loop for a group met for the first time. *)
Visit ==
  /\ ~result.returned
  /\ frontier # <<>>
  /\ Popped \notin seen
  /\ seen' = seen \cup {Popped}
  /\ \E parents \in Listings(graph[Popped]) : frontier' = Rest \o parents
  /\ UNCHANGED <<graph, caller, result>>

Return ==
  /\ ~result.returned
  /\ frontier = <<>>
  /\ result' = Returned({caller.id, EVERYONE} \cup seen)
  /\ UNCHANGED <<graph, caller, seen, frontier>>

Next == SkipSeen \/ Visit \/ Return

Spec == Init /\ [][Next]_vars

(* The loop runs in one thread with nothing to wait for: while a step is   *)
(* possible Python takes it.                                               *)
FairSpec == Spec /\ WF_vars(Next)

-----------------------------------------------------------------------------
TypeOK ==
  /\ graph \in GroupGraph
  /\ caller \in [id : Users, groups : SUBSET Groups]
  /\ seen \subseteq Groups
  /\ frontier \in Seq(Groups)
  /\ \/ result = None
     \/ result = Returned({caller.id, EVERYONE} \cup seen)

(* Nothing is lost from the worklist: a direct group, or a parent of an    *)
(* expanded group, is expanded or still queued.                            *)
NothingDropped ==
  /\ caller.groups \subseteq seen \cup InSeq(frontier)
  /\ \A g \in seen : graph[g] \subseteq seen \cup InSeq(frontier)

(* Nothing is invented: what is expanded or queued lies in every closed    *)
(* set that holds the direct groups.                                       *)
NothingInvented ==
  \A S \in SUBSET Groups :
     caller.groups \subseteq S /\ Closed(graph, S)
        => seen \cup InSeq(frontier) \subseteq S

DoneMeansEmpty == result.returned => frontier = <<>>

(* The loop invariant the proof is built on: together the parts squeeze    *)
(* what is returned between "nothing dropped" and "nothing invented".      *)
LoopInvariant == NothingDropped /\ NothingInvented /\ DoneMeansEmpty

(* effective_principals returns exactly the caller, EVERYONE and the       *)
(* transitive closure of the memberships, whatever order the lists take    *)
(* and whatever cycles the graph has (docstring at principal.py:91-96).    *)
ReturnsClosure ==
  result.returned =>
     result.principals = Effective(caller.id, caller.groups, graph)

(* "each group is visited at most once": an expanded group stays expanded  *)
(* and no group is expanded twice, so the pushes are bounded by the edges. *)
(* The worklist never holds more than the direct groups and one entry per  *)
(* edge that leaves an expanded group.                                     *)
EdgesOut(S) == Cardinality({e \in Groups \X Groups : e[1] \in S /\ e[2] \in graph[e[1]]})
WorkBounded == Len(frontier) <= Cardinality(caller.groups) + EdgesOut(seen)

(* What is left to do at most: what is queued, and the edges of the groups *)
(* not expanded yet.  Every iteration of the loop has less of it left, on  *)
(* any graph: no cycle keeps it going.                                     *)
Remaining == Len(frontier) + EdgesOut(Groups \ seen)
IterationsRunOut == [][~result'.returned => Remaining' \in 0..(Remaining - 1)]_vars

(* The loop ends, on cyclic graphs too. *)
Terminates == <>result.returned
=============================================================================
