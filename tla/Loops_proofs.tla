------------------------------ MODULE Loops_proofs ------------------------------
(***************************************************************************)
(* Proofs about the three loops that everything rests on: the walk over a  *)
(* graph of groups (EffectivePrincipals), the table of the policies        *)
(* (AclTable) and the splitting of a text (SplitText).                     *)
(***************************************************************************)
EXTENDS EffectivePrincipals, AclTable, SplitText, FiniteSetTheorems, TLAPS

(***************************************************************************)
(* effective_principals is correct for every finite set of groups, every   *)
(* graph and every listing order.  The inductive invariant says that the   *)
(* expanded and queued groups together hold everything they must           *)
(* (NothingDropped) and nothing that some closed set could leave out       *)
(* (NothingInvented); when the queue is empty the two squeeze seen to the  *)
(* least closed set.                                                       *)
(***************************************************************************)

(* A listing of a set of groups is a list of groups that holds exactly its *)
(* members.                                                                *)
LEMMA ListingOfGroups ==
  ASSUME NEW S \in SUBSET Groups, NEW s \in Listings(S)
  PROVE  s \in Seq(Groups) /\ InSeq(s) = S
<1>1. IsFiniteSet(S)
  BY PrincipalsAssumption, FS_Subset
<1>2. Cardinality(S) \in Nat
  BY <1>1, FS_CardinalityType
<1>3. s \in [1..Cardinality(S) -> S] /\ DOMAIN s = 1..Cardinality(S)
  BY DEF Listings
<1>4. s \in Seq(Groups)
  <2>1. s \in [1..Cardinality(S) -> Groups]
    BY <1>3
  <2>2. QED
    BY <2>1, <1>2
<1>5. InSeq(s) \subseteq S
  BY <1>3 DEF InSeq
<1>6. S \subseteq InSeq(s)
  BY DEF InSeq, Listings
<1>7. QED
  BY <1>4, <1>5, <1>6

(* Popping the last element of a non-empty worklist splits its contents.   *)
LEMMA PopSplits ==
  ASSUME frontier \in Seq(Groups), frontier # <<>>
  PROVE  /\ Popped \in Groups
         /\ Rest \in Seq(Groups)
         /\ Len(Rest) = Len(frontier) - 1 /\ Len(frontier) \in Nat
         /\ InSeq(frontier) = InSeq(Rest) \cup {Popped}
<1>1. Len(frontier) \in Nat \ {0} /\ DOMAIN frontier = 1..Len(frontier)
  OBVIOUS
<1>2. Popped \in Groups
  BY <1>1 DEF Popped
<1>3. Rest \in Seq(Groups) /\ Len(Rest) = Len(frontier) - 1
  BY <1>1 DEF Rest
<1>4. \A i \in 1..(Len(frontier) - 1) : Rest[i] = frontier[i]
  BY <1>1 DEF Rest
<1>5. DOMAIN Rest = 1..(Len(frontier) - 1)
  BY <1>3, <1>1
<1>6. InSeq(frontier) \subseteq InSeq(Rest) \cup {Popped}
  <2> SUFFICES ASSUME NEW i \in 1..Len(frontier)
               PROVE  frontier[i] \in InSeq(Rest) \cup {Popped}
    BY <1>1 DEF InSeq
  <2>1. CASE i = Len(frontier)
    BY <2>1 DEF Popped
  <2>2. CASE i \in 1..(Len(frontier) - 1)
    BY <2>2, <1>4, <1>5 DEF InSeq
  <2>3. i = Len(frontier) \/ i \in 1..(Len(frontier) - 1)
    <3>1. Len(frontier) \in Nat
      BY <1>1
    <3>2. \A m \in Nat : \A j \in 1..m : j = m \/ j \in 1..(m - 1)
      OBVIOUS
    <3>3. QED
      BY <3>1, <3>2
  <2>4. QED
    BY <2>1, <2>2, <2>3
<1>7. InSeq(Rest) \cup {Popped} \subseteq InSeq(frontier)
  <2>1. Popped \in InSeq(frontier)
    BY <1>1 DEF Popped, InSeq
  <2>2. InSeq(Rest) \subseteq InSeq(frontier)
    BY <1>1, <1>4, <1>5 DEF InSeq
  <2>3. QED
    BY <2>1, <2>2
<1>8. QED
  BY <1>1, <1>2, <1>3, <1>6, <1>7

(* list.extend puts the two lists' contents together.                      *)
LEMMA ConcatContents ==
  ASSUME NEW s \in Seq(Groups), NEW t \in Seq(Groups)
  PROVE  s \o t \in Seq(Groups) /\ InSeq(s \o t) = InSeq(s) \cup InSeq(t)
<1>1. s \o t \in Seq(Groups) /\ Len(s \o t) = Len(s) + Len(t)
  OBVIOUS
<1>2. DOMAIN (s \o t) = 1..(Len(s) + Len(t)) /\ DOMAIN s = 1..Len(s) /\ DOMAIN t = 1..Len(t)
  BY <1>1
<1>3. \A i \in 1..Len(s) : (s \o t)[i] = s[i]
  OBVIOUS
<1>4. \A i \in 1..Len(t) : (s \o t)[i + Len(s)] = t[i]
  OBVIOUS
<1>5. InSeq(s \o t) \subseteq InSeq(s) \cup InSeq(t)
  <2> SUFFICES ASSUME NEW i \in 1..(Len(s) + Len(t))
               PROVE  (s \o t)[i] \in InSeq(s) \cup InSeq(t)
    BY <1>2 DEF InSeq
  <2>1. CASE i \in 1..Len(s)
    BY <2>1, <1>2, <1>3 DEF InSeq
  <2>2. CASE i \notin 1..Len(s)
    <3>1. i - Len(s) \in 1..Len(t) /\ (i - Len(s)) + Len(s) = i
      BY <2>2
    <3>2. (s \o t)[i] = t[i - Len(s)]
      BY <3>1, <1>4
    <3>3. QED
      BY <3>1, <3>2, <1>2 DEF InSeq
  <2>3. QED
    BY <2>1, <2>2
<1>6. InSeq(s) \cup InSeq(t) \subseteq InSeq(s \o t)
  <2>1. InSeq(s) \subseteq InSeq(s \o t)
    BY <1>2, <1>3 DEF InSeq
  <2>2. ASSUME NEW i \in 1..Len(t)
        PROVE  t[i] \in InSeq(s \o t)
    <3>1. i + Len(s) \in 1..(Len(s) + Len(t))
      OBVIOUS
    <3>2. QED
      BY <3>1, <1>2, <1>4 DEF InSeq
  <2>3. QED
    BY <2>1, <2>2, <1>2 DEF InSeq
<1>7. QED
  BY <1>1, <1>5, <1>6

-----------------------------------------------------------------------------
(* The strengthened invariant and its three facts. *)
Inv == TypeOK /\ LoopInvariant

LEMMA InitInv == Init => Inv
<1> SUFFICES ASSUME Init PROVE Inv
  OBVIOUS
<1>1. caller.groups \in SUBSET Groups /\ frontier \in Listings(caller.groups)
  BY DEF Init
<1>2. frontier \in Seq(Groups) /\ InSeq(frontier) = caller.groups
  BY <1>1, ListingOfGroups
<1>3. TypeOK
  BY <1>2 DEF Init, TypeOK
<1>4. NothingDropped /\ NothingInvented
  BY <1>2 DEF Init, NothingDropped, NothingInvented
<1>5. DoneMeansEmpty
  BY DEF Init, None, DoneMeansEmpty
<1>6. QED
  BY <1>3, <1>4, <1>5 DEF Inv, LoopInvariant

LEMMA StepInv == Inv /\ [Next]_vars => Inv'
<1> SUFFICES ASSUME Inv, [Next]_vars PROVE Inv'
  OBVIOUS
<1> USE DEF Inv, LoopInvariant
<1>1. CASE SkipSeen
  <2>1. Rest \in Seq(Groups) /\ InSeq(frontier) = InSeq(Rest) \cup {Popped}
    BY <1>1, PopSplits DEF SkipSeen, TypeOK
  <2>2. seen' \cup InSeq(frontier') = seen \cup InSeq(frontier)
    BY <1>1, <2>1 DEF SkipSeen
  <2>3. TypeOK'
    BY <1>1, <2>1 DEF SkipSeen, TypeOK
  <2>4. NothingDropped' /\ NothingInvented'
    BY <1>1, <2>2 DEF SkipSeen, NothingDropped, NothingInvented, Closed
  <2>5. QED
    BY <1>1, <2>3, <2>4 DEF SkipSeen, DoneMeansEmpty
<1>2. CASE Visit
  <2>1. /\ Popped \in Groups
        /\ Rest \in Seq(Groups)
        /\ InSeq(frontier) = InSeq(Rest) \cup {Popped}
    BY <1>2, PopSplits DEF Visit, TypeOK
  <2>2. PICK parents \in Listings(graph[Popped]) : frontier' = Rest \o parents
    BY <1>2 DEF Visit
  <2>3. graph[Popped] \in SUBSET Groups
    BY <2>1 DEF TypeOK, GroupGraph
  <2>4. parents \in Seq(Groups) /\ InSeq(parents) = graph[Popped]
    BY <2>2, <2>3, ListingOfGroups
  <2>5. frontier' \in Seq(Groups) /\ InSeq(frontier') = InSeq(Rest) \cup graph[Popped]
    BY <2>1, <2>2, <2>4, ConcatContents
  <2>6. seen' \cup InSeq(frontier') = (seen \cup InSeq(frontier)) \cup graph[Popped]
    BY <1>2, <2>1, <2>5 DEF Visit
  <2>7. TypeOK'
    <3>1. result = None
      BY <1>2 DEF Visit, TypeOK, Returned
    <3>2. QED
      BY <1>2, <2>1, <2>5, <3>1 DEF Visit, TypeOK
  <2>8. NothingDropped'
    BY <1>2, <2>6 DEF Visit, NothingDropped
  <2>9. NothingInvented'
    <3> SUFFICES ASSUME NEW S \in SUBSET Groups,
                        caller.groups \subseteq S, Closed(graph, S)
                 PROVE  seen' \cup InSeq(frontier') \subseteq S
      BY <1>2 DEF Visit, NothingInvented, Closed
    <3>1. seen \cup InSeq(frontier) \subseteq S
      BY DEF NothingInvented
    <3>2. graph[Popped] \subseteq S
      BY <3>1, <2>1 DEF Closed
    <3>3. QED
      BY <3>1, <3>2, <2>6
  <2>10. QED
    BY <1>2, <2>7, <2>8, <2>9 DEF Visit, DoneMeansEmpty
<1>3. CASE Return
  <2>1. TypeOK'
    BY <1>3 DEF Return, TypeOK
  <2>2. NothingDropped' /\ NothingInvented'
    BY <1>3 DEF Return, NothingDropped, NothingInvented, Closed
  <2>3. QED
    BY <1>3, <2>1, <2>2 DEF Return, DoneMeansEmpty
<1>4. CASE UNCHANGED vars
  BY <1>4 DEF vars, TypeOK, NothingDropped, NothingInvented, DoneMeansEmpty, Closed
<1>5. QED
  BY <1>1, <1>2, <1>3, <1>4 DEF Next

(* With an empty worklist, seen is the least closed set. *)
LEMMA SqueezedToClosure ==
  ASSUME Inv, frontier = <<>>
  PROVE  seen = Closure(graph, caller.groups)
<1> USE DEF Inv, LoopInvariant
<1>1. InSeq(frontier) = {}
  BY DEF InSeq
<1>2. seen \in SUBSET Groups /\ caller.groups \subseteq seen /\ Closed(graph, seen)
  BY <1>1 DEF TypeOK, NothingDropped, Closed
<1>3. Closure(graph, caller.groups) \subseteq seen
  BY <1>2 DEF Closure
<1>4. seen \subseteq Closure(graph, caller.groups)
  BY <1>2 DEF NothingInvented, Closure
<1>5. QED
  BY <1>3, <1>4

LEMMA InvReturnsClosure == Inv => ReturnsClosure
<1> SUFFICES ASSUME Inv, result.returned
             PROVE  result.principals = Effective(caller.id, caller.groups, graph)
  BY DEF ReturnsClosure
<1>1. frontier = <<>>
  BY DEF Inv, LoopInvariant, DoneMeansEmpty
<1>2. result = Returned({caller.id, EVERYONE} \cup seen)
  BY DEF Inv, TypeOK, None
<1>3. QED
  BY <1>1, <1>2, SqueezedToClosure DEF Returned, Effective

(* The strengthened invariant holds throughout every call. *)
THEOREM Invariance == Spec => []Inv
  BY InitInv, StepInv, PTL DEF Spec

(* TypeOK: the state of the loop keeps its types.  *)
THEOREM TypeCorrect == Spec => []TypeOK
<1>1. Inv => TypeOK
  BY DEF Inv, LoopInvariant
<1>2. QED
  BY <1>1, Invariance, PTL

(* ReturnsClosure: whatever the graph and the order of the lists, the call *)
(* returns the caller, EVERYONE and the transitive closure, no principal   *)
(* more and none less.                                                     *)
THEOREM ResolvesTransitiveClosure == Spec => []ReturnsClosure
  BY Invariance, InvReturnsClosure, PTL

(* A listing is as long as its set is large. *)
LEMMA ListingLength ==
  ASSUME NEW S \in SUBSET Groups, NEW s \in Listings(S)
  PROVE  IsFiniteSet(S) /\ Cardinality(S) \in Nat /\ Len(s) = Cardinality(S)
<1>1. IsFiniteSet(S)
  BY PrincipalsAssumption, FS_Subset
<1>2. Cardinality(S) \in Nat
  BY <1>1, FS_CardinalityType
<1>3. s \in [1..Cardinality(S) -> S]
  BY DEF Listings
<1>4. QED BY <1>1, <1>2, <1>3

(* The edges that leave a set of groups are finitely many, and one more    *)
(* group adds its own parents to their number.                             *)
LEMMA EdgesAreCounted ==
  ASSUME graph \in GroupGraph, NEW S \in SUBSET Groups
  PROVE  /\ EdgesOut(S) \in Nat
         /\ \A p \in Groups \ S : EdgesOut(S \cup {p}) = EdgesOut(S) + Cardinality(graph[p])
<1> DEFINE Edges(T) == {e \in Groups \X Groups : e[1] \in T /\ e[2] \in graph[e[1]]}
<1>1. IsFiniteSet(Groups \X Groups)
  BY PrincipalsAssumption, FS_Product
<1>2. \A T : IsFiniteSet(Edges(T)) /\ Cardinality(Edges(T)) \in Nat
  <2> SUFFICES ASSUME NEW T PROVE IsFiniteSet(Edges(T)) /\ Cardinality(Edges(T)) \in Nat
    OBVIOUS
  <2> DEFINE A == Edges(T)
  <2>1. A \in SUBSET (Groups \X Groups)
    OBVIOUS
  <2> HIDE DEF A
  <2>2. IsFiniteSet(A)
    BY <1>1, <2>1, FS_Subset
  <2>3. QED BY <2>2, FS_CardinalityType DEF A
<1>3. ASSUME NEW p \in Groups, p \notin S
      PROVE  EdgesOut(S \cup {p}) = EdgesOut(S) + Cardinality(graph[p])
  <2> DEFINE G == graph[p]
             A == Edges(S)
             B == {p} \X G
  <2>1. G \in SUBSET Groups
    BY DEF GroupGraph
  <2>2. Edges(S \cup {p}) = A \cup B
    BY <2>1
  <2>3. A \cap B = {}
    BY <1>3
  <2>4. IsFiniteSet(G) /\ Cardinality(G) \in Nat
    <3> HIDE DEF G
    <3>1. IsFiniteSet(G)
      BY <2>1, PrincipalsAssumption, FS_Subset
    <3>2. QED BY <3>1, FS_CardinalityType
  <2>5. IsFiniteSet(A) /\ Cardinality(A) \in Nat
    BY <1>2
  <2>6. IsFiniteSet(B) /\ Cardinality(B) = Cardinality(G)
    <3> HIDE DEF G
    <3>1. IsFiniteSet({p}) /\ Cardinality({p}) = 1
      BY FS_Singleton
    <3>2. IsFiniteSet({p} \X G) /\ Cardinality({p} \X G) = Cardinality({p}) * Cardinality(G)
      BY <2>4, <3>1, FS_Product
    <3>3. 1 * Cardinality(G) = Cardinality(G)
      BY <2>4
    <3>4. QED BY <3>1, <3>2, <3>3
  <2>7. Cardinality(A \cup B) = Cardinality(A) + Cardinality(B)
    <3> HIDE DEF A, B
    <3>1. Cardinality(A \cup B) = Cardinality(A) + Cardinality(B) - Cardinality(A \cap B)
      BY <2>5, <2>6, FS_Union
    <3>2. Cardinality(A \cap B) = 0
      BY <2>3, FS_EmptySet
    <3>3. Cardinality(A) \in Nat /\ Cardinality(B) \in Nat
      BY <2>4, <2>5, <2>6
    <3>4. QED BY <3>1, <3>2, <3>3
  <2>8. QED BY <2>2, <2>6, <2>7 DEF EdgesOut
<1>4. QED BY <1>2, <1>3 DEF EdgesOut

(* A visit takes one entry off the worklist and queues the parents. *)
LEMMA VisitQueues ==
  ASSUME graph \in GroupGraph, frontier \in Seq(Groups), Visit
  PROVE  /\ Popped \in Groups \ seen /\ Len(frontier) \in Nat /\ Cardinality(graph[Popped]) \in Nat
         /\ Len(frontier') = Len(frontier) - 1 + Cardinality(graph[Popped])
<1>1. Popped \in Groups \ seen
  BY PopSplits DEF Visit
<1>2. PICK parents \in Listings(graph[Popped]) : frontier' = Rest \o parents
  BY DEF Visit
<1>3. graph[Popped] \in SUBSET Groups
  BY <1>1 DEF GroupGraph
<1>4. parents \in Seq(Groups) /\ Len(parents) = Cardinality(graph[Popped])
      /\ Cardinality(graph[Popped]) \in Nat
  BY <1>2, <1>3, ListingOfGroups, ListingLength
<1>5. Rest \in Seq(Groups) /\ Len(Rest) = Len(frontier) - 1 /\ Len(frontier) \in Nat
  BY PopSplits DEF Visit
<1>6. Len(Rest \o parents) = Len(Rest) + Len(parents)
  BY <1>4, <1>5
<1>7. QED BY <1>1, <1>2, <1>4, <1>5, <1>6

(* WorkBounded: what is queued is paid for by the direct groups and the    *)
(* edges of the groups expanded, because no group is expanded twice.  It   *)
(* is inductive.                                                           *)
THEOREM WorkIsBounded == Spec => []WorkBounded
<1>1. Init => WorkBounded
  <2> SUFFICES ASSUME Init PROVE WorkBounded
    OBVIOUS
  <2>1. graph \in GroupGraph /\ seen = {} /\ caller.groups \in SUBSET Groups
    BY DEF Init
  <2>2. Len(frontier) = Cardinality(caller.groups) /\ Cardinality(caller.groups) \in Nat
    BY <2>1, ListingLength DEF Init
  <2>3. EdgesOut(seen) \in Nat
    BY <2>1, EdgesAreCounted
  <2>4. QED BY <2>2, <2>3 DEF WorkBounded
<1>2. TypeOK /\ WorkBounded /\ [Next]_vars => WorkBounded'
  <2> SUFFICES ASSUME TypeOK, WorkBounded, [Next]_vars PROVE WorkBounded'
    OBVIOUS
  <2>1. graph \in GroupGraph /\ seen \in SUBSET Groups /\ frontier \in Seq(Groups)
    BY DEF TypeOK
  <2>2. EdgesOut(seen) \in Nat /\ Cardinality(caller.groups) \in Nat
    <3>1. IsFiniteSet(caller.groups)
      BY PrincipalsAssumption, FS_Subset DEF TypeOK
    <3>2. QED BY <2>1, <3>1, EdgesAreCounted, FS_CardinalityType
  <2>3. ASSUME frontier # <<>>
        PROVE  Rest \in Seq(Groups) /\ Len(Rest) = Len(frontier) - 1 /\ Len(frontier) \in Nat
    BY <2>1, <2>3, PopSplits
  <2>4. CASE SkipSeen
    <3>1. Len(frontier') = Len(frontier) - 1 /\ Len(frontier) \in Nat
      BY <2>3, <2>4 DEF SkipSeen
    <3>2. EdgesOut(seen)' = EdgesOut(seen) /\ caller' = caller
      BY <2>4 DEF SkipSeen, EdgesOut
    <3>3. QED BY <2>2, <3>1, <3>2 DEF WorkBounded
  <2>5. CASE Visit
    <3>1. /\ Popped \in Groups \ seen /\ Len(frontier) \in Nat /\ Cardinality(graph[Popped]) \in Nat
          /\ Len(frontier') = Len(frontier) - 1 + Cardinality(graph[Popped])
      BY <2>1, <2>5, VisitQueues
    <3>2. EdgesOut(seen)' = EdgesOut(seen) + Cardinality(graph[Popped]) /\ caller' = caller
      <4>1. EdgesOut(seen)' = EdgesOut(seen \cup {Popped}) /\ caller' = caller
        BY <2>5 DEF Visit, EdgesOut
      <4>2. QED BY <2>1, <3>1, <4>1, EdgesAreCounted
    <3>3. QED BY <2>2, <3>1, <3>2 DEF WorkBounded
  <2>6. CASE Return \/ UNCHANGED vars
    BY <2>6 DEF Return, vars, WorkBounded, EdgesOut
  <2>7. QED BY <2>4, <2>5, <2>6 DEF Next
<1>3. QED BY <1>1, <1>2, TypeCorrect, PTL DEF Spec

(* The variant of the loop: what Terminates rests on, for every graph.     *)
THEOREM IterationsAreFinite == Spec => IterationsRunOut
<1>1. ASSUME TypeOK, [Next]_vars
      PROVE  [~result'.returned => Remaining' \in 0..(Remaining - 1)]_vars
  <2>1. graph \in GroupGraph /\ seen \in SUBSET Groups /\ frontier \in Seq(Groups)
    BY <1>1 DEF TypeOK
  <2>2. Groups \ seen \in SUBSET Groups
    OBVIOUS
  <2> DEFINE unseen == Groups \ seen
  <2>3. EdgesOut(unseen) \in Nat
    BY <2>1, <2>2, EdgesAreCounted
  <2>4. CASE SkipSeen
    <3>1. /\ Len(frontier') = Len(frontier) - 1 /\ Len(frontier) \in Nat \ {0}
      <4>1. frontier # <<>> /\ frontier' = Rest
        BY <2>4 DEF SkipSeen
      <4>2. Len(frontier) \in Nat \ {0}
        BY <2>1, <4>1
      <4>3. QED BY <2>1, <4>1, <4>2, PopSplits
    <3>2. EdgesOut(Groups \ seen)' = EdgesOut(Groups \ seen)
      BY <2>4 DEF SkipSeen, EdgesOut
    <3>3. QED BY <2>3, <3>1, <3>2 DEF Remaining
  <2>5. CASE Visit
    <3>1. /\ Popped \in Groups \ seen /\ Len(frontier) \in Nat /\ Cardinality(graph[Popped]) \in Nat
          /\ Len(frontier') = Len(frontier) - 1 + Cardinality(graph[Popped])
      BY <2>1, <2>5, VisitQueues
    <3> DEFINE after == Groups \ (seen \cup {Popped})
    <3>2. after \in SUBSET Groups /\ Popped \in Groups \ after /\ after \cup {Popped} = unseen
      BY <3>1
    <3> HIDE DEF after, unseen
    <3>3. /\ EdgesOut(after) \in Nat
          /\ EdgesOut(unseen) = EdgesOut(after) + Cardinality(graph[Popped])
      BY <2>1, <3>2, EdgesAreCounted
    <3>4. EdgesOut(Groups \ seen)' = EdgesOut(after)
      BY <2>5 DEF Visit, EdgesOut, after
    <3>5. Len(frontier') \in Nat
      <4>1. frontier # <<>>
        BY <2>5 DEF Visit
      <4>2. Len(frontier) # 0
        BY <2>1, <4>1
      <4>3. QED BY <3>1, <4>2
    <3>6. Remaining' = Len(frontier') + EdgesOut(after) /\ Remaining = Len(frontier) + EdgesOut(unseen)
      BY <3>4 DEF Remaining, unseen
    <3>7. QED BY <2>3, <3>1, <3>3, <3>5, <3>6
  <2>6. CASE Return \/ UNCHANGED vars
    BY <2>6 DEF Return, Returned, vars
  <2>7. QED BY <1>1, <2>4, <2>5, <2>6 DEF Next
<1>2. QED BY <1>1, TypeCorrect, PTL DEF Spec, IterationsRunOut

-----------------------------------------------------------------------------
(***************************************************************************)
(* Proofs about AclTable, for any set of principals and any list of        *)
(* policies: the table lists what the policies grant and deny, and the     *)
(* mask computed on it admits exactly the rows whose policy does.          *)
(***************************************************************************)

(* The parts of the invariant for one list, csr, over a vocabulary V. *)
CsrOK(csr, V) ==
  /\ csr \in [indptr : Seq(Nat), indices : Seq(DOMAIN V)]
  /\ csr.indptr # <<>>
  /\ \A r \in DOMAIN csr.indptr : csr.indptr[r] <= Len(csr.indices)

ListedIn(csr, V, r) == {V[csr.indices[j]] : j \in Segment(csr, r)}
OpenIn(csr, V) == {V[csr.indices[j]] : j \in (Cut(csr) + 1)..Len(csr.indices)}
RowsOf(csr) == 1..(Len(csr.indptr) - 1)

Extends(W, V) == Len(V) <= Len(W) /\ \A i \in DOMAIN V : W[i] = V[i]

-----------------------------------------------------------------------------
(* A principal that is learned gets a number, and no number changes. *)
LEMMA LearnedNumbers ==
  ASSUME NEW V \in Seq(Principals), NEW p \in Principals
  PROVE  /\ Learned(V, p) \in Seq(Principals)
         /\ Extends(Learned(V, p), V)
         /\ \A i \in Numbers(Learned(V, p), p) : i \in DOMAIN Learned(V, p) /\ Learned(V, p)[i] = p
BY DEF Learned, Numbers, Extends

(* The entries of a closed row, and the open ones, are positions of the list. *)
LEMMA SegmentInside ==
  ASSUME NEW V, V \in Seq(Principals), NEW csr, CsrOK(csr, V)
  PROVE  /\ Cut(csr) \in Nat /\ Cut(csr) <= Len(csr.indices)
         /\ \A r \in RowsOf(csr) : Segment(csr, r) \subseteq DOMAIN csr.indices
         /\ \A j \in DOMAIN csr.indices : csr.indices[j] \in DOMAIN V
<1>1. Len(csr.indptr) \in Nat \ {0} /\ DOMAIN csr.indptr = 1..Len(csr.indptr)
  BY DEF CsrOK
<1>2. DOMAIN csr.indices = 1..Len(csr.indices) /\ Len(csr.indices) \in Nat
  BY DEF CsrOK
<1>3. \A r \in DOMAIN csr.indptr : csr.indptr[r] \in Nat /\ csr.indptr[r] <= Len(csr.indices)
  BY <1>1 DEF CsrOK
<1>4. \A j \in DOMAIN csr.indices : csr.indices[j] \in DOMAIN V
  BY <1>2 DEF CsrOK
<1>5. Cut(csr) \in Nat /\ Cut(csr) <= Len(csr.indices)
  BY <1>1, <1>3 DEF Cut
<1>6. ASSUME NEW r \in RowsOf(csr) PROVE Segment(csr, r) \subseteq DOMAIN csr.indices
  <2>1. r \in DOMAIN csr.indptr /\ r + 1 \in DOMAIN csr.indptr
    BY <1>1 DEF RowsOf
  <2>2. QED BY <2>1, <1>2, <1>3 DEF Segment
<1>7. QED BY <1>4, <1>5, <1>6

(* A longer vocabulary leaves a list as it is. *)
LEMMA GrowVocabulary ==
  ASSUME NEW V \in Seq(Principals), NEW W \in Seq(Principals), Extends(W, V),
         NEW csr, CsrOK(csr, V)
  PROVE  /\ CsrOK(csr, W)
         /\ \A r \in RowsOf(csr) : ListedIn(csr, W, r) = ListedIn(csr, V, r)
         /\ OpenIn(csr, W) = OpenIn(csr, V)
<1>1. DOMAIN V \subseteq DOMAIN W /\ \A i \in DOMAIN V : W[i] = V[i]
  BY DEF Extends
<1>2. CsrOK(csr, W)
  <2>1. csr.indices \in Seq(DOMAIN W)
    BY <1>1 DEF CsrOK
  <2>2. csr \in [indptr : Seq(Nat), indices : Seq(DOMAIN W)]
    BY <2>1 DEF CsrOK
  <2>3. QED BY <2>2 DEF CsrOK
<1>3. ASSUME NEW r \in RowsOf(csr) PROVE ListedIn(csr, W, r) = ListedIn(csr, V, r)
  BY <1>1, SegmentInside DEF ListedIn
<1>4. OpenIn(csr, W) = OpenIn(csr, V)
  <2>1. (Cut(csr) + 1)..Len(csr.indices) \subseteq DOMAIN csr.indices
    BY SegmentInside DEF CsrOK
  <2>2. QED BY <2>1, <1>1, SegmentInside DEF OpenIn
<1>5. QED BY <1>2, <1>3, <1>4

(* An entry that is appended joins the open row and no closed one. *)
LEMMA AppendEntry ==
  ASSUME NEW V \in Seq(Principals), NEW csr, CsrOK(csr, V), NEW i \in DOMAIN V
  PROVE  /\ CsrOK(List(csr, i), V)
         /\ List(csr, i).indptr = csr.indptr
         /\ \A r \in RowsOf(csr) : ListedIn(List(csr, i), V, r) = ListedIn(csr, V, r)
         /\ OpenIn(List(csr, i), V) = OpenIn(csr, V) \cup {V[i]}
<1> DEFINE new == List(csr, i)
<1>0. csr \in [indptr : Seq(Nat), indices : Seq(DOMAIN V)]
  BY DEF CsrOK
<1>1. /\ new.indptr = csr.indptr
      /\ new.indices = Append(csr.indices, i)
      /\ new \in [indptr : Seq(Nat), indices : Seq(DOMAIN V)]
  <2>1. Append(csr.indices, i) \in Seq(DOMAIN V)
    BY <1>0
  <2>2. new = [csr EXCEPT !.indices = Append(csr.indices, i)]
    BY DEF List
  <2>3. QED BY <1>0, <2>1, <2>2
<1>2. /\ csr.indices \in Seq(DOMAIN V)
      /\ Len(new.indices) = Len(csr.indices) + 1
      /\ \A j \in DOMAIN csr.indices : new.indices[j] = csr.indices[j]
      /\ new.indices[Len(csr.indices) + 1] = i
      /\ Len(csr.indices) \in Nat /\ DOMAIN csr.indices = 1..Len(csr.indices)
  BY <1>1 DEF CsrOK
<1>3. CsrOK(new, V)
  <2>1. \A r \in DOMAIN csr.indptr : csr.indptr[r] \in Nat
    BY DEF CsrOK
  <2>2. \A r \in DOMAIN new.indptr : new.indptr[r] <= Len(new.indices)
    BY <1>1, <1>2, <2>1 DEF CsrOK
  <2>3. QED BY <1>1, <2>2 DEF CsrOK
<1>4. ASSUME NEW r \in RowsOf(csr) PROVE ListedIn(new, V, r) = ListedIn(csr, V, r)
  <2>1. Segment(new, r) = Segment(csr, r)
    BY <1>1 DEF Segment
  <2>2. QED BY <2>1, <1>2, SegmentInside DEF ListedIn
<1>5. OpenIn(new, V) = OpenIn(csr, V) \cup {V[i]}
  <2>1. Cut(new) = Cut(csr) /\ Cut(csr) \in Nat /\ Cut(csr) <= Len(csr.indices)
    BY <1>1, SegmentInside DEF Cut
  <2>2. (Cut(csr) + 1)..(Len(csr.indices) + 1)
           = ((Cut(csr) + 1)..Len(csr.indices)) \cup {Len(csr.indices) + 1}
    BY <2>1, <1>2
  <2>3. (Cut(csr) + 1)..Len(csr.indices) \subseteq DOMAIN csr.indices
    BY <2>1, <1>2
  <2>4. OpenIn(new, V) = {V[new.indices[j]] : j \in (Cut(csr) + 1)..(Len(csr.indices) + 1)}
    BY <2>1, <1>2 DEF OpenIn
  <2>5. \A j \in (Cut(csr) + 1)..Len(csr.indices) : new.indices[j] = csr.indices[j]
    BY <2>3, <1>2
  <2>6. OpenIn(new, V) = {V[new.indices[j]] : j \in (Cut(csr) + 1)..Len(csr.indices)}
                            \cup {V[new.indices[Len(csr.indices) + 1]]}
    BY <2>2, <2>4
  <2>7. {V[new.indices[j]] : j \in (Cut(csr) + 1)..Len(csr.indices)} = OpenIn(csr, V)
    BY <2>5 DEF OpenIn
  <2>8. QED BY <2>6, <2>7, <1>2
<1>6. QED BY <1>1, <1>3, <1>4, <1>5

(* A row that is closed holds what was open. *)
LEMMA CloseRow ==
  ASSUME NEW V \in Seq(Principals), NEW csr, CsrOK(csr, V)
  PROVE  /\ CsrOK(Close(csr), V)
         /\ Len(Close(csr).indptr) = Len(csr.indptr) + 1
         /\ Close(csr).indices = csr.indices
         /\ Cut(Close(csr)) = Len(csr.indices)
         /\ \A r \in RowsOf(csr) : ListedIn(Close(csr), V, r) = ListedIn(csr, V, r)
         /\ ListedIn(Close(csr), V, Len(csr.indptr)) = OpenIn(csr, V)
         /\ OpenIn(Close(csr), V) = {}
<1> DEFINE new == Close(csr)
           len == Len(csr.indptr)
<1>0. csr \in [indptr : Seq(Nat), indices : Seq(DOMAIN V)]
  BY DEF CsrOK
<1>1. /\ csr.indptr \in Seq(Nat) /\ len \in Nat \ {0} /\ DOMAIN csr.indptr = 1..len
      /\ Len(csr.indices) \in Nat
  BY DEF CsrOK
<1>2. /\ new.indices = csr.indices
      /\ new.indptr = Append(csr.indptr, Len(csr.indices))
      /\ new \in [indptr : Seq(Nat), indices : Seq(DOMAIN V)]
  <2>1. Append(csr.indptr, Len(csr.indices)) \in Seq(Nat)
    BY <1>1
  <2>2. new = [csr EXCEPT !.indptr = Append(csr.indptr, Len(csr.indices))]
    BY DEF Close
  <2>3. QED BY <1>0, <2>1, <2>2
<1>3. /\ Len(new.indptr) = len + 1 /\ DOMAIN new.indptr = 1..(len + 1)
      /\ \A r \in 1..len : new.indptr[r] = csr.indptr[r]
      /\ new.indptr[len + 1] = Len(csr.indices)
  BY <1>1, <1>2
<1>4. CsrOK(new, V)
  <2>1. \A r \in 1..len : csr.indptr[r] \in Nat /\ csr.indptr[r] <= Len(csr.indices)
    BY <1>1 DEF CsrOK
  <2>2. ASSUME NEW r \in 1..(len + 1) PROVE new.indptr[r] <= Len(new.indices)
    <3>1. CASE r = len + 1
      BY <3>1, <1>1, <1>2, <1>3
    <3>2. CASE r \in 1..len
      BY <3>2, <2>1, <1>2, <1>3
    <3>3. QED BY <3>1, <3>2, <1>1
  <2>3. new.indptr # <<>>
    BY <1>1, <1>3
  <2>4. \A r \in DOMAIN new.indptr : new.indptr[r] <= Len(new.indices)
    BY <1>3, <2>2
  <2>5. QED BY <1>2, <2>3, <2>4 DEF CsrOK
<1>5. Cut(new) = Len(csr.indices)
  BY <1>1, <1>2, <1>3 DEF Cut
<1>6. ASSUME NEW r \in RowsOf(csr) PROVE ListedIn(new, V, r) = ListedIn(csr, V, r)
  <2>1. r \in 1..len /\ r + 1 \in 1..len
    BY <1>1 DEF RowsOf
  <2>2. QED BY <2>1, <1>2, <1>3 DEF ListedIn, Segment
<1>7. ListedIn(new, V, len) = OpenIn(csr, V)
  BY <1>1, <1>2, <1>3 DEF ListedIn, OpenIn, Segment, Cut
<1>8. OpenIn(new, V) = {}
  BY <1>1, <1>2, <1>5 DEF OpenIn
<1>9. QED BY <1>2, <1>3, <1>4, <1>5, <1>6, <1>7, <1>8

-----------------------------------------------------------------------------
LEMMA PolicyOfRow ==
  ASSUME TableTypeOK
  PROVE  /\ policies \in Seq(Policies) /\ Len(policies) \in Nat
         /\ \A r \in 1..Len(policies) :
              policies[r].grants \subseteq Principals /\ policies[r].denies \subseteq Principals
<1>1. policies \in Seq(Policies)
  BY PolicyListsAssumption DEF TableTypeOK
<1>2. ASSUME NEW r \in 1..Len(policies)
      PROVE  policies[r].grants \subseteq Principals /\ policies[r].denies \subseteq Principals
  <2>1. policies[r] \in Policies
    BY <1>1
  <2>2. QED BY <2>1 DEF Policies
<1>3. QED BY <1>1, <1>2

LEMMA EmptyTable ==
  ASSUME vocabulary = <<>>
  PROVE  /\ CsrOK(EmptyCsr, vocabulary)
         /\ RowsOf(EmptyCsr) = {} /\ Len(EmptyCsr.indptr) = 1 /\ Cut(EmptyCsr) = Len(EmptyCsr.indices)
         /\ OpenIn(EmptyCsr, vocabulary) = {}
<1>1. EmptyCsr.indptr = <<0>> /\ EmptyCsr.indices = <<>>
  BY DEF EmptyCsr
<1>2. <<0>> \in Seq(Nat) /\ <<0>> # <<>> /\ Len(<<0>>) = 1 /\ DOMAIN <<0>> = {1} /\ <<0>>[1] = 0
  OBVIOUS
<1>3. EmptyCsr \in [indptr : Seq(Nat), indices : Seq(DOMAIN vocabulary)]
  BY <1>2 DEF EmptyCsr
<1>4. CsrOK(EmptyCsr, vocabulary)
  BY <1>1, <1>2, <1>3 DEF CsrOK
<1>5. Cut(EmptyCsr) = 0
  BY <1>1, <1>2 DEF Cut
<1>6. QED BY <1>1, <1>2, <1>4, <1>5 DEF RowsOf, OpenIn

LEMMA InitTable == BuildInit => TableInvariant
<1> SUFFICES ASSUME BuildInit PROVE TableInvariant
  OBVIOUS
<1>1. policies \in Seq(Policies) /\ Len(policies) \in Nat
  BY PolicyListsAssumption DEF BuildInit
<1>2. allow = EmptyCsr /\ deny = EmptyCsr /\ vocabulary = <<>> /\ part = "grants"
  BY DEF BuildInit
<1>3. unlisted = IF 0 < Len(policies) THEN policies[1].grants ELSE {}
  BY <1>1 DEF BuildInit
<1>4. unlisted \subseteq Principals
  <2>1. CASE 0 < Len(policies)
    <3>1. policies[1] \in Policies
      BY <1>1, <2>1
    <3>2. QED BY <1>3, <2>1, <3>1 DEF Policies
  <2>2. CASE ~(0 < Len(policies))
    BY <1>3, <2>2
  <2>3. QED BY <2>1, <2>2
<1>5. TableTypeOK
  BY <1>2, <1>4, EmptyTable DEF BuildInit, TableTypeOK, CsrOK
<1>6. rows = 0
  BY <1>2, EmptyTable DEF rows
<1>7. Halves
  BY <1>1, <1>2, <1>3, <1>6, EmptyTable DEF Halves, OpenRow, OpenIn
<1>8. ClosedRows
  <2>1. 1..rows = {} /\ 1..(Len(deny.indptr) - 1) = {}
    BY <1>2, <1>6, EmptyTable DEF RowsOf
  <2>2. QED BY <2>1 DEF ClosedRows
<1>9. QED BY <1>5, <1>7, <1>8 DEF TableInvariant

(* A principal is listed. *)
LEMMA ListPrincipalKeeps ==
  ASSUME TableInvariant, NEW p \in Principals, ListPrincipal(p)
  PROVE  TableInvariant'
<1> DEFINE W == vocabulary'
<1>1. /\ p \in unlisted /\ unlisted' = unlisted \ {p}
      /\ W = Learned(vocabulary, p) /\ policies' = policies /\ part' = part
  BY DEF ListPrincipal
<1>2. /\ CsrOK(allow, vocabulary) /\ CsrOK(deny, vocabulary) /\ vocabulary \in Seq(Principals)
      /\ unlisted \subseteq Principals /\ part \in {"grants", "denies"} /\ policies \in PolicyLists
  BY DEF TableInvariant, TableTypeOK, CsrOK
<1>3. W \in Seq(Principals) /\ Extends(W, vocabulary)
  BY <1>1, <1>2, LearnedNumbers
<1>4. PICK i \in Numbers(W, p) :
        \/ part = "grants" /\ allow' = List(allow, i) /\ deny' = deny
        \/ part = "denies" /\ deny' = List(deny, i) /\ allow' = allow
  BY DEF ListPrincipal
<1>5. i \in DOMAIN W /\ W[i] = p
  BY <1>1, <1>2, LearnedNumbers
<1>6. /\ CsrOK(allow, W) /\ CsrOK(deny, W)
      /\ OpenIn(allow, W) = OpenRow(allow) /\ OpenIn(deny, W) = OpenRow(deny)
      /\ \A r \in RowsOf(allow) : ListedIn(allow, W, r) = Listed(allow, r)
      /\ \A r \in RowsOf(deny) : ListedIn(deny, W, r) = Listed(deny, r)
  <2>1. \A csr : CsrOK(csr, vocabulary) =>
          /\ CsrOK(csr, W) /\ OpenIn(csr, W) = OpenIn(csr, vocabulary)
          /\ \A r \in RowsOf(csr) : ListedIn(csr, W, r) = ListedIn(csr, vocabulary, r)
    BY <1>2, <1>3, GrowVocabulary
  <2>2. \A csr : OpenIn(csr, vocabulary) = OpenRow(csr)
    BY DEF OpenIn, OpenRow
  <2>3. \A csr, r : ListedIn(csr, vocabulary, r) = Listed(csr, r)
    BY DEF ListedIn, Listed
  <2>4. QED BY <1>2, <2>1, <2>2, <2>3
<1>7. /\ rows = Len(allow.indptr) - 1 /\ rows' = Len(allow'.indptr) - 1
      /\ OpenRow(allow)' = OpenIn(allow', W) /\ OpenRow(deny)' = OpenIn(deny', W)
      /\ \A r : Listed(allow, r)' = ListedIn(allow', W, r) /\ Listed(deny, r)' = ListedIn(deny', W, r)
  BY DEF rows, OpenRow, OpenIn, Listed, ListedIn, Segment, Cut
<1>8. Halves /\ ClosedRows
  BY DEF TableInvariant
<1>9. CASE part = "grants"
  <2>1. allow' = List(allow, i) /\ deny' = deny
    BY <1>4, <1>9
  <2>2. /\ CsrOK(allow', W) /\ allow'.indptr = allow.indptr
        /\ \A r \in RowsOf(allow) : ListedIn(allow', W, r) = ListedIn(allow, W, r)
        /\ OpenIn(allow', W) = OpenIn(allow, W) \cup {p}
    BY <1>3, <1>5, <1>6, <2>1, AppendEntry
  <2>3. TableTypeOK'
    BY <1>1, <1>2, <1>3, <1>6, <2>1, <2>2 DEF TableTypeOK, CsrOK
  <2>4. OpenRow(allow)' \cup unlisted' = OpenRow(allow) \cup unlisted
    BY <1>1, <1>6, <1>7, <2>2
  <2>5. Halves'
    BY <1>1, <1>7, <1>8, <1>9, <2>1, <2>2, <2>4 DEF Halves, Cut
  <2>6. ClosedRows'
    BY <1>1, <1>6, <1>7, <1>8, <2>1, <2>2 DEF ClosedRows, RowsOf
  <2>7. QED BY <2>3, <2>5, <2>6 DEF TableInvariant
<1>10. CASE part = "denies"
  <2>1. deny' = List(deny, i) /\ allow' = allow
    BY <1>4, <1>10
  <2>2. /\ CsrOK(deny', W) /\ deny'.indptr = deny.indptr
        /\ \A r \in RowsOf(deny) : ListedIn(deny', W, r) = ListedIn(deny, W, r)
        /\ OpenIn(deny', W) = OpenIn(deny, W) \cup {p}
    BY <1>3, <1>5, <1>6, <2>1, AppendEntry
  <2>3. TableTypeOK'
    BY <1>1, <1>2, <1>3, <1>6, <2>1, <2>2 DEF TableTypeOK, CsrOK
  <2>4. OpenRow(deny)' \cup unlisted' = OpenRow(deny) \cup unlisted
    BY <1>1, <1>6, <1>7, <2>2
  <2>5. Halves'
    BY <1>1, <1>7, <1>8, <1>10, <2>1, <2>2, <2>4 DEF Halves, Cut
  <2>6. ClosedRows'
    BY <1>1, <1>6, <1>7, <1>8, <2>1, <2>2 DEF ClosedRows, RowsOf
  <2>7. QED BY <2>3, <2>5, <2>6 DEF TableInvariant
<1>11. QED BY <1>2, <1>9, <1>10

(* The grants of a row are closed, and its denies come next. *)
LEMMA CloseGrantsKeeps ==
  ASSUME TableInvariant, CloseGrants
  PROVE  TableInvariant'
<1>1. /\ part = "grants" /\ part' = "denies" /\ unlisted = {} /\ rows < Len(policies)
      /\ unlisted' = policies[rows + 1].denies /\ allow' = Close(allow)
      /\ policies' = policies /\ vocabulary' = vocabulary /\ deny' = deny
  BY DEF CloseGrants
<1>2. /\ CsrOK(allow, vocabulary) /\ CsrOK(deny, vocabulary) /\ vocabulary \in Seq(Principals)
      /\ policies \in PolicyLists /\ Len(policies) \in Nat
  BY PolicyOfRow DEF TableInvariant, TableTypeOK, CsrOK
<1>3. /\ rows \in Nat /\ Len(deny.indptr) = rows + 1 /\ Len(allow.indptr) = rows + 1
      /\ OpenRow(allow) = policies[rows + 1].grants /\ Cut(deny) = Len(deny.indices)
  BY <1>1, <1>2 DEF TableInvariant, Halves, rows
<1>4. /\ CsrOK(allow', vocabulary) /\ Len(allow'.indptr) = rows + 2
      /\ Cut(allow') = Len(allow'.indices)
      /\ \A r \in 1..rows : ListedIn(allow', vocabulary, r) = ListedIn(allow, vocabulary, r)
      /\ ListedIn(allow', vocabulary, rows + 1) = OpenIn(allow, vocabulary)
  BY <1>1, <1>2, <1>3, CloseRow DEF RowsOf
<1>5. /\ \A csr : OpenIn(csr, vocabulary) = OpenRow(csr)
      /\ \A csr, r : ListedIn(csr, vocabulary, r) = Listed(csr, r)
      /\ \A r : Listed(allow, r)' = ListedIn(allow', vocabulary, r)
      /\ \A r : Listed(deny, r)' = Listed(deny, r)
      /\ OpenRow(deny)' = OpenRow(deny) /\ rows' = rows + 1
  BY <1>1, <1>3, <1>4 DEF OpenIn, OpenRow, ListedIn, Listed, Segment, Cut, rows
<1>6. unlisted' \subseteq Principals
  BY <1>1, <1>3, PolicyOfRow DEF TableInvariant
<1>7. TableTypeOK'
  BY <1>1, <1>2, <1>4, <1>6 DEF TableTypeOK, CsrOK
<1>8. OpenRow(deny) = {}
  BY <1>2, <1>3 DEF OpenRow, CsrOK
<1>9. Halves'
  BY <1>1, <1>2, <1>3, <1>4, <1>5, <1>8 DEF Halves, Cut
<1>10. ClosedRows'
  <2>1. \A r \in 1..(rows + 1) : Listed(allow, r)' = policies[r].grants
    <3> SUFFICES ASSUME NEW r \in 1..(rows + 1) PROVE Listed(allow, r)' = policies[r].grants
      OBVIOUS
    <3>1. CASE r = rows + 1
      BY <3>1, <1>3, <1>4, <1>5
    <3>2. CASE r \in 1..rows
      BY <3>2, <1>4, <1>5 DEF TableInvariant, ClosedRows
    <3>3. QED BY <3>1, <3>2, <1>3
  <2>2. \A r \in 1..(Len(deny.indptr) - 1) : Listed(deny, r)' = policies[r].denies
    BY <1>5 DEF TableInvariant, ClosedRows
  <2>3. QED BY <2>1, <2>2, <1>1, <1>5 DEF ClosedRows
<1>11. QED BY <1>7, <1>9, <1>10 DEF TableInvariant

(* The denies of a row are closed, and the next row begins. *)
LEMMA CloseDeniesKeeps ==
  ASSUME TableInvariant, CloseDenies
  PROVE  TableInvariant'
<1>1. /\ part = "denies" /\ part' = "grants" /\ unlisted = {}
      /\ unlisted' = IF rows < Len(policies) THEN policies[rows + 1].grants ELSE {}
      /\ deny' = Close(deny)
      /\ policies' = policies /\ vocabulary' = vocabulary /\ allow' = allow
  BY DEF CloseDenies
<1>2. /\ CsrOK(allow, vocabulary) /\ CsrOK(deny, vocabulary) /\ vocabulary \in Seq(Principals)
      /\ policies \in PolicyLists /\ Len(policies) \in Nat
  BY PolicyOfRow DEF TableInvariant, TableTypeOK, CsrOK
<1>3. /\ rows \in 0..Len(policies) /\ Len(deny.indptr) = rows /\ Len(allow.indptr) = rows + 1
      /\ OpenRow(deny) = policies[rows].denies /\ Cut(allow) = Len(allow.indices)
  BY <1>1, <1>2 DEF TableInvariant, Halves, rows, CsrOK
<1>4. /\ CsrOK(deny', vocabulary) /\ Len(deny'.indptr) = rows + 1
      /\ Cut(deny') = Len(deny'.indices)
      /\ \A r \in 1..(rows - 1) : ListedIn(deny', vocabulary, r) = ListedIn(deny, vocabulary, r)
      /\ ListedIn(deny', vocabulary, rows) = OpenIn(deny, vocabulary)
  <2>1. RowsOf(deny) = 1..(rows - 1)
    BY <1>3 DEF RowsOf
  <2>2. QED BY <1>1, <1>2, <1>3, <2>1, CloseRow
<1>5. /\ \A csr : OpenIn(csr, vocabulary) = OpenRow(csr)
      /\ \A csr, r : ListedIn(csr, vocabulary, r) = Listed(csr, r)
      /\ \A r : Listed(deny, r)' = ListedIn(deny', vocabulary, r)
      /\ \A r : Listed(allow, r)' = Listed(allow, r)
      /\ OpenRow(allow)' = OpenRow(allow) /\ rows' = rows
  BY <1>1 DEF OpenIn, OpenRow, ListedIn, Listed, Segment, Cut, rows
<1>6. unlisted' \subseteq Principals
  BY <1>1, <1>2, <1>3, PolicyOfRow DEF TableInvariant
<1>7. TableTypeOK'
  BY <1>1, <1>2, <1>4, <1>6 DEF TableTypeOK, CsrOK
<1>8. OpenRow(allow) = {}
  BY <1>2, <1>3 DEF OpenRow, CsrOK
<1>9. Halves'
  BY <1>1, <1>2, <1>3, <1>4, <1>5, <1>8 DEF Halves, Cut
<1>10. ClosedRows'
  <2>1. \A r \in 1..rows : Listed(deny, r)' = policies[r].denies
    <3> SUFFICES ASSUME NEW r \in 1..rows PROVE Listed(deny, r)' = policies[r].denies
      OBVIOUS
    <3>1. CASE r = rows
      BY <3>1, <1>3, <1>4, <1>5
    <3>2. CASE r \in 1..(rows - 1)
      BY <3>2, <1>3, <1>4, <1>5 DEF TableInvariant, ClosedRows
    <3>3. QED BY <3>1, <3>2, <1>3
  <2>2. \A r \in 1..rows : Listed(allow, r)' = policies[r].grants
    BY <1>5 DEF TableInvariant, ClosedRows
  <2>3. Len(deny'.indptr) - 1 = rows
    BY <1>3, <1>4
  <2>4. QED BY <2>1, <2>2, <2>3, <1>1, <1>5 DEF ClosedRows
<1>11. QED BY <1>7, <1>9, <1>10 DEF TableInvariant

(* The loop invariant of build. *)
THEOREM TableIsKept == BuildSpec => []TableInvariant
<1>1. BuildInit => TableInvariant
  BY InitTable
<1>2. TableInvariant /\ [BuildNext]_tableVars => TableInvariant'
  <2> SUFFICES ASSUME TableInvariant, [BuildNext]_tableVars PROVE TableInvariant'
    OBVIOUS
  <2>1. ASSUME NEW p \in Principals, ListPrincipal(p) PROVE TableInvariant'
    BY <2>1, ListPrincipalKeeps
  <2>2. CASE CloseGrants
    BY <2>2, CloseGrantsKeeps
  <2>3. CASE CloseDenies
    BY <2>3, CloseDeniesKeeps
  <2>4. CASE UNCHANGED tableVars
    <3>1. /\ policies' = policies /\ part' = part /\ unlisted' = unlisted
          /\ vocabulary' = vocabulary /\ allow' = allow /\ deny' = deny
      BY <2>4 DEF tableVars
    <3>2. TableTypeOK'
      BY <3>1 DEF TableInvariant, TableTypeOK
    <3>3. /\ rows' = rows /\ OpenRow(allow)' = OpenRow(allow) /\ OpenRow(deny)' = OpenRow(deny)
          /\ \A r : Listed(allow, r)' = Listed(allow, r) /\ Listed(deny, r)' = Listed(deny, r)
      BY <3>1 DEF rows, OpenRow, Listed
    <3>4. Halves'
      BY <3>1, <3>3 DEF TableInvariant, Halves
    <3>5. ClosedRows'
      BY <3>1, <3>3 DEF TableInvariant, ClosedRows
    <3>6. QED BY <3>2, <3>4, <3>5 DEF TableInvariant
  <2>5. QED BY <2>1, <2>2, <2>3, <2>4 DEF BuildNext
<1>3. QED BY <1>1, <1>2, PTL DEF BuildSpec

-----------------------------------------------------------------------------
(* A row has a hit exactly when it lists one of the wanted principals. *)
LEMMA HitsAreListed ==
  ASSUME NEW csr, CsrOK(csr, vocabulary), vocabulary \in Seq(Principals),
         rows = Len(csr.indptr) - 1, NEW P
  PROVE  RowsWithAnyHit(csr, Wanted(P)) = {r \in 1..rows : Listed(csr, r) \cap P # {}}
<1> SUFFICES ASSUME NEW r \in 1..rows
             PROVE  (\E j \in Segment(csr, r) : csr.indices[j] \in Wanted(P)) <=> Listed(csr, r) \cap P # {}
  BY DEF RowsWithAnyHit
<1>1. \A j \in Segment(csr, r) : csr.indices[j] \in DOMAIN vocabulary
  BY SegmentInside DEF RowsOf
<1>2. QED BY <1>1 DEF Wanted, Listed

LEMMA BuiltTable ==
  ASSUME TableInvariant, Built
  PROVE  /\ CsrOK(allow, vocabulary) /\ CsrOK(deny, vocabulary) /\ vocabulary \in Seq(Principals)
         /\ rows = Len(allow.indptr) - 1 /\ rows = Len(deny.indptr) - 1
         /\ DOMAIN policies = 1..rows
         /\ \A r \in 1..rows : Listed(allow, r) = policies[r].grants /\ Listed(deny, r) = policies[r].denies
<1>1. /\ CsrOK(allow, vocabulary) /\ CsrOK(deny, vocabulary) /\ vocabulary \in Seq(Principals)
  BY DEF TableInvariant, TableTypeOK, CsrOK
<1>2. policies \in Seq(Policies)
  BY PolicyOfRow DEF TableInvariant
<1>3. rows = Len(allow.indptr) - 1 /\ rows = Len(deny.indptr) - 1
  BY DEF TableInvariant, Halves, Built, rows
<1>4. DOMAIN policies = 1..rows
  BY <1>2 DEF Built
<1>5. QED BY <1>1, <1>3, <1>4 DEF TableInvariant, ClosedRows

(* permitted_rows on the table is admits on the policies. *)
LEMMA MaskAdmits == TableInvariant => PermittedRowsAdmit
<1> SUFFICES ASSUME TableInvariant, Built, NEW P \in PermissionSets
             PROVE  permitted_rows(P) = {r \in DOMAIN policies : admits(policies[r], P)}
  BY DEF PermittedRowsAdmit
<1>1. /\ RowsWithAnyHit(allow, Wanted(P)) = {r \in 1..rows : policies[r].grants \cap P # {}}
      /\ RowsWithAnyHit(deny, Wanted(P)) = {r \in 1..rows : policies[r].denies \cap P # {}}
  BY BuiltTable, HitsAreListed
<1>2. CASE P = {} \/ rows = 0
  BY <1>2, BuiltTable DEF permitted_rows, admits
<1>3. CASE P # {} /\ rows # 0 /\ Wanted(P) = {}
  <2>1. RowsWithAnyHit(allow, Wanted(P)) = {}
    BY <1>3 DEF RowsWithAnyHit
  <2>2. QED BY <1>1, <1>3, <2>1, BuiltTable DEF permitted_rows, admits
<1>4. CASE P # {} /\ rows # 0 /\ Wanted(P) # {}
  BY <1>1, <1>4, BuiltTable DEF permitted_rows, admits
<1>5. QED BY <1>2, <1>3, <1>4

(* The rows a search may scan are exactly those whose policy admits the    *)
(* caller, for every caller and every list of policies.                    *)
THEOREM PermittedRowsAreExact == BuildSpec => []PermittedRowsAdmit
<1>1. QED BY TableIsKept, MaskAdmits, PTL

(* A policy with the fields of a policy, and no others. *)
LEMMA PolicyFields ==
  ASSUME NEW q \in Policies
  PROVE  [grants |-> q.grants, denies |-> q.denies] = q
BY DEF Policies

LEMMA TableRoundTrips == TableInvariant => PoliciesRoundTrip
<1> SUFFICES ASSUME TableInvariant, Built, NEW r \in DOMAIN policies
             PROVE  policy_at(r) = policies[r]
  BY DEF PoliciesRoundTrip
<1>1. policies[r] \in Policies
  BY PolicyOfRow DEF TableInvariant
<1>2. Listed(allow, r) = policies[r].grants /\ Listed(deny, r) = policies[r].denies
  BY BuiltTable
<1>3. QED BY <1>1, <1>2, PolicyFields DEF policy_at

(* A flush that rebuilds the table from its policies loses none of them. *)
THEOREM PoliciesSurviveRebuild == BuildSpec => []PoliciesRoundTrip
<1>1. QED BY TableIsKept, TableRoundTrips, PTL

-----------------------------------------------------------------------------
(***************************************************************************)
(* Proofs about SplitText, for any text and any configuration: no          *)
(* character is lost and every step advances.                              *)
(***************************************************************************)

(* The bounds of the arguments and of the loop's variables. *)
SplitTypeOK ==
  /\ n \in Nat
  /\ config.max_chars \in Nat /\ config.overlap_chars \in Nat
  /\ 0 < config.max_chars
  /\ pos \in Nat
  /\ spans \in Seq([start : Nat, end : Nat])
  /\ splitting \in BOOLEAN
  /\ spans = <<>> => pos = 0

SplitInvariant == SplitTypeOK /\ SpansCover /\ SpansAdvance

(* Wherever a mark is found, the cut is after the start and not past the   *)
(* end, because the search begins after the start.                         *)
LEMMA BoundaryInside ==
  ASSUME NEW start \in Nat, NEW end \in Nat, start < end, NEW cut \in boundary(start, end)
  PROVE  cut \in Nat /\ start < cut /\ cut <= end
<1> DEFINE floor == start + Greatest(1, (end - start) \div 4)
<1>1. floor \in Nat /\ start + 1 <= floor
  <2>1. (end - start) \div 4 \in Int
    OBVIOUS
  <2>2. QED BY <2>1 DEF Greatest
<1> HIDE DEF floor
<1>2. \A i \in AfterParagraph(floor, end) : i \in Nat /\ start < i /\ i <= end
  BY <1>1 DEF AfterParagraph
<1>3. \A i \in AfterSentence(floor, end) : i \in Nat /\ start < i /\ i <= end
  BY <1>1 DEF AfterSentence
<1>4. \A i \in AfterSpace(floor, end) : i \in Nat /\ start < i /\ i <= end
  BY <1>1 DEF AfterSpace
<1>5. cut \in AfterParagraph(floor, end) \cup AfterSentence(floor, end)
               \cup AfterSpace(floor, end) \cup {end}
  BY DEF boundary, Latest, floor
<1>6. QED BY <1>2, <1>3, <1>4, <1>5

(* The end of a span. *)
LEMMA EndInside ==
  ASSUME SplitTypeOK, pos < n, NEW end \in Ends(pos)
  PROVE  end \in Nat /\ end - pos \in 1..config.max_chars /\ end <= n
<1> DEFINE most == Least(pos + config.max_chars, n)
<1>1. most \in Nat /\ pos < most /\ most <= n /\ most <= pos + config.max_chars
  BY DEF SplitTypeOK, Least
<1> HIDE DEF most
<1>2. end \in boundary(pos, most) \/ end = most
  BY DEF Ends, most
<1>3. end \in Nat /\ pos < end /\ end <= most
  BY <1>1, <1>2, BoundaryInside DEF SplitTypeOK
<1>4. QED BY <1>1, <1>3 DEF SplitTypeOK

LEMMA SplitInitInvariant == SplitInit => SplitInvariant
<1> SUFFICES ASSUME SplitInit PROVE SplitInvariant
  OBVIOUS
<1>1. text \in Seq(Characters) /\ n \in Nat
  BY SplitAssumption DEF SplitInit, n
<1>2. config.max_chars \in Nat /\ config.overlap_chars \in Nat /\ 0 < config.max_chars
  BY SplitAssumption DEF SplitInit
<1>3. pos = 0 /\ spans = <<>> /\ splitting \in BOOLEAN /\ (splitting => 0 < n)
  BY <1>1 DEF SplitInit
<1>4. SplitTypeOK
  BY <1>1, <1>2, <1>3 DEF SplitTypeOK
<1>5. QED BY <1>3, <1>4 DEF SplitInvariant, SpansCover, SpansAdvance

(* One span is cut. *)
LEMMA SplitStepInvariant == SplitInvariant /\ SplitStep => SplitInvariant'
<1> SUFFICES ASSUME SplitInvariant, SplitStep PROVE SplitInvariant'
  OBVIOUS
<1>1. /\ n \in Nat /\ config.max_chars \in Nat /\ config.overlap_chars \in Nat
      /\ pos \in Nat /\ spans \in Seq([start : Nat, end : Nat]) /\ splitting /\ pos < n
      /\ n' = n /\ config' = config
  BY DEF SplitInvariant, SplitTypeOK, SplitStep, n
<1>2. PICK end \in Ends(pos) :
        /\ spans' = Append(spans, [start |-> pos, end |-> end])
        /\ splitting' = (end < n)
        /\ pos' = IF end < n THEN NextPos(end) ELSE pos
  BY DEF SplitStep
<1>3. end \in Nat /\ end - pos \in 1..config.max_chars /\ end <= n
  BY <1>1, EndInside DEF SplitInvariant
<1>4. /\ NextPos(end) \in Nat /\ pos < NextPos(end) /\ NextPos(end) <= end
      /\ end - NextPos(end) <= config.overlap_chars
  BY <1>1, <1>3 DEF NextPos, Greatest
<1> DEFINE len == Len(spans)
           last == spans'[Len(spans')]
<1>5. /\ len \in Nat /\ DOMAIN spans = 1..len /\ DOMAIN spans' = 1..(len + 1)
      /\ Len(spans') = len + 1 /\ spans' # <<>>
      /\ spans' \in Seq([start : Nat, end : Nat])
      /\ \A k \in 1..len : spans'[k] = spans[k]
      /\ spans'[len + 1] = [start |-> pos, end |-> end]
  <2>1. [start |-> pos, end |-> end] \in [start : Nat, end : Nat]
    BY <1>1, <1>3
  <2>2. spans' \in Seq([start : Nat, end : Nat]) /\ Len(spans') = len + 1
    BY <1>1, <1>2, <2>1
  <2>3. QED BY <1>1, <1>2, <2>1, <2>2
<1>6. last.start = pos /\ last.end = end
  BY <1>5
<1>7. SplitTypeOK'
  BY <1>1, <1>2, <1>3, <1>4, <1>5 DEF SplitInvariant, SplitTypeOK
<1>8. ASSUME len > 0
      PROVE  /\ pos <= spans[len].end
             /\ spans[len].start < pos
             /\ spans[len].end - pos <= config.overlap_chars
  BY <1>1, <1>5, <1>8 DEF SplitInvariant, SpansCover, SpansAdvance
<1>9. SpansCover'
  <2>1. ASSUME NEW k \in 1..(len + 1)
        PROVE  /\ spans'[k].end - spans'[k].start \in 1..config.max_chars
               /\ spans'[k].end <= n
               /\ k = 1 => spans'[k].start = 0
               /\ k > 1 => spans'[k].start <= spans'[k - 1].end
    <3>1. CASE k \in 1..len
      <4>1. k > 1 => k - 1 \in 1..len
        BY <3>1, <1>5
      <4>2. QED BY <3>1, <4>1, <1>1, <1>5 DEF SplitInvariant, SpansCover
    <3>2. CASE k = len + 1
      <4>1. k = 1 => pos = 0
        BY <3>2, <1>1, <1>5 DEF SplitInvariant, SplitTypeOK
      <4>2. k > 1 => len > 0 /\ k - 1 = len /\ len \in 1..len
        BY <3>2, <1>5
      <4>3. spans'[k].start = pos /\ spans'[k].end = end
        BY <3>2, <1>5
      <4>4. k > 1 => pos <= spans'[k - 1].end
        BY <4>2, <1>5, <1>8
      <4>5. QED BY <4>1, <4>3, <4>4, <1>3
    <3>3. QED BY <3>1, <3>2, <1>5
  <2>2. ~splitting' => last.end = n'
    <3>1. ASSUME ~splitting' PROVE ~(end < n)
      BY <3>1, <1>2, Zenon
    <3>2. QED BY <3>1, <1>1, <1>3, <1>6
  <2>3. splitting' => pos' < n' /\ pos' <= last.end
    BY <1>1, <1>2, <1>3, <1>4, <1>6
  <2>4. QED BY <2>1, <2>2, <2>3, <1>1, <1>5 DEF SpansCover
<1>10. SpansAdvance'
  <2>1. ASSUME NEW k \in 1..(len + 1), k > 1
        PROVE  /\ spans'[k - 1].start < spans'[k].start
               /\ spans'[k - 1].end - spans'[k].start <= config.overlap_chars
    <3>1. CASE k \in 1..len
      <4>1. k - 1 \in 1..len
        BY <2>1, <3>1, <1>5
      <4>2. QED BY <2>1, <3>1, <4>1, <1>5 DEF SplitInvariant, SpansAdvance
    <3>2. CASE k = len + 1
      <4>1. len > 0 /\ k - 1 = len /\ len \in 1..len
        BY <2>1, <3>2, <1>5
      <4>2. QED BY <3>2, <4>1, <1>5, <1>8
    <3>3. QED BY <3>1, <3>2, <1>5
  <2>2. splitting' => last.start < pos' /\ last.end - pos' <= config.overlap_chars
    BY <1>1, <1>2, <1>4, <1>6
  <2>3. QED BY <2>1, <2>2, <1>1, <1>5 DEF SpansAdvance
<1>11. QED BY <1>7, <1>9, <1>10 DEF SplitInvariant

LEMMA SplitInvariance == SplitSpec => []SplitInvariant
<1>1. SplitInvariant /\ [SplitStep]_splitVars => SplitInvariant'
  <2>1. SplitInvariant /\ UNCHANGED splitVars => SplitInvariant'
    BY DEF splitVars, SplitInvariant, SplitTypeOK, SpansCover, SpansAdvance, n
  <2>2. QED BY <2>1, SplitStepInvariant
<1>2. QED BY <1>1, SplitInitInvariant, PTL DEF SplitSpec

(* No character of a document is left out of its chunks, for every text,   *)
(* every max_chars and every overlap below it.                             *)
THEOREM NothingLost == SplitSpec => []SpansCover
<1>1. SplitInvariant => SpansCover
  BY DEF SplitInvariant
<1>2. QED BY <1>1, SplitInvariance, PTL

(* Every span starts after the one before it, so the loop makes progress   *)
(* whatever the boundaries and the overlap.                                *)
THEOREM AlwaysAdvances == SplitSpec => []SpansAdvance
<1>1. SplitInvariant => SpansAdvance
  BY DEF SplitInvariant
<1>2. QED BY <1>1, SplitInvariance, PTL
=============================================================================
