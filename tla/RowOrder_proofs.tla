----------------------------- MODULE RowOrder_proofs -----------------------------
(***************************************************************************)
(* InOrder lists every member of a finite set of integers once, from the   *)
(* least to the greatest.                                                  *)
(***************************************************************************)
EXTENDS RowOrder, FiniteSetsExt, FiniteSetTheorems, TLAPS

(* How many members come before one tells the members apart. *)
LEMMA RanksDiffer ==
  ASSUME NEW S \in SUBSET Int, IsFiniteSet(S), NEW a \in S, NEW b \in Int, a < b
  PROVE  Cardinality({j \in S : j < a}) < Cardinality({j \in S : j < b})
<1> DEFINE A == {j \in S : j < a}
           B == {j \in S : j < b}
<1>1. IsFiniteSet(A) /\ IsFiniteSet(B)
  <2>1. A \in SUBSET S /\ B \in SUBSET S
    OBVIOUS
  <2>2. QED BY <2>1, FS_Subset
<1>2. A \cup {a} \in SUBSET B /\ a \notin A
  <2>1. S \subseteq Int
    OBVIOUS
  <2>2. \A j \in S : j < a => j < b
    BY <2>1
  <2>3. a \in B /\ a \notin A
    BY <2>1
  <2>4. A \subseteq B
    BY <2>2
  <2>5. QED BY <2>3, <2>4, Zenon
<1> HIDE DEF A, B
<1>3. Cardinality(A) \in Nat /\ Cardinality(B) \in Nat
  BY <1>1, FS_CardinalityType
<1>4. Cardinality(A \cup {a}) = Cardinality(A) + 1
  BY <1>1, <1>2, FS_AddElement
<1>5. Cardinality(A \cup {a}) <= Cardinality(B)
  BY <1>1, <1>2, FS_Subset
<1>6. Cardinality(A) < Cardinality(B)
  BY <1>3, <1>4, <1>5
<1>7. QED BY <1>6 DEF A, B

LEMMA RanksFill ==
  ASSUME NEW S \in SUBSET Int, IsFiniteSet(S)
  PROVE  /\ Cardinality(S) \in Nat
         /\ \A i \in S : Cardinality({j \in S : j < i}) \in 0..(Cardinality(S) - 1)
         /\ \A k \in 1..Cardinality(S) : \E i \in S : Cardinality({j \in S : j < i}) = k - 1
<1> DEFINE n == Cardinality(S)
           rank == [i \in S |-> Cardinality({j \in S : j < i})]
<1>1. n \in Nat
  BY FS_CardinalityType
<1>2. ASSUME NEW i \in S PROVE rank[i] \in 0..(n - 1)
  <2> DEFINE A == {j \in S : j < i}
  <2>1. A \in SUBSET S /\ A # S
    OBVIOUS
  <2> HIDE DEF A
  <2>2. IsFiniteSet(A) /\ Cardinality(A) <= n /\ Cardinality(A) # n
    BY <2>1, FS_Subset
  <2>3. Cardinality(A) \in Nat
    BY <2>2, FS_CardinalityType
  <2>4. Cardinality(A) \in 0..(n - 1)
    BY <1>1, <2>2, <2>3
  <2>5. QED BY <2>4 DEF A
<1>3. ASSUME NEW i \in S, NEW j \in S, rank[i] = rank[j] PROVE i = j
  <2>1. CASE i < j
    <3>1. Cardinality({h \in S : h < i}) < Cardinality({h \in S : h < j})
      BY <2>1, RanksDiffer
    <3>2. QED BY <1>1, <1>2, <1>3, <3>1
  <2>2. CASE j < i
    <3>1. Cardinality({h \in S : h < j}) < Cardinality({h \in S : h < i})
      BY <2>2, RanksDiffer
    <3>2. QED BY <1>1, <1>2, <1>3, <3>1
  <2>3. QED BY <2>1, <2>2
<1> HIDE DEF n
<1>4. rank \in Injection(S, 0..(n - 1))
  BY <1>2, <1>3 DEF Injection, IsInjective
<1>5. IsFiniteSet(0..(n - 1)) /\ Cardinality(0..(n - 1)) = n
  <2>1. 0 \in Int /\ n - 1 \in Int
    BY <1>1
  <2>2. QED BY <1>1, <2>1, FS_Interval
<1>6. rank \in Surjection(S, 0..(n - 1))
  BY <1>4, <1>5, FS_Injection DEF n
<1>7. ASSUME NEW k \in 1..n PROVE \E i \in S : rank[i] = k - 1
  <2>1. k - 1 \in 0..(n - 1)
    BY <1>1
  <2>2. QED BY <1>6, <2>1 DEF Surjection
<1>8. QED BY <1>1, <1>2, <1>7 DEF n

LEMMA InOrderLists ==
  ASSUME NEW S \in SUBSET Int, IsFiniteSet(S)
  PROVE  /\ Cardinality(S) \in Nat
         /\ InOrder(S) \in [1..Cardinality(S) -> S]
         /\ \A j, k \in 1..Cardinality(S) : j < k => InOrder(S)[j] < InOrder(S)[k]
         /\ \A i \in S : \E k \in 1..Cardinality(S) : InOrder(S)[k] = i
<1> DEFINE n == Cardinality(S)
           rank(i) == Cardinality({j \in S : j < i})
<1>1. n \in Nat /\ \A i \in S : rank(i) \in 0..(n - 1)
  BY RanksFill
<1>2. \A k \in 1..n : \E i \in S : rank(i) = k - 1
  BY RanksFill
<1>3. \A a, b \in S : a < b => rank(a) < rank(b)
  BY RanksDiffer
<1>4. ASSUME NEW k \in 1..n PROVE InOrder(S)[k] \in S /\ rank(InOrder(S)[k]) = k - 1
  <2>1. PICK i \in S : rank(i) = k - 1
    BY <1>2
  <2>2. InOrder(S)[k] = CHOOSE h \in S : rank(h) = k - 1
    BY DEF InOrder
  <2> HIDE DEF rank
  <2>3. QED BY <2>1, <2>2
<1> HIDE DEF n, rank
<1>5. InOrder(S) \in [1..n -> S]
  BY <1>4 DEF InOrder, n
<1>6. ASSUME NEW j \in 1..n, NEW k \in 1..n, j < k PROVE InOrder(S)[j] < InOrder(S)[k]
  <2> DEFINE a == InOrder(S)[j]
             b == InOrder(S)[k]
  <2>1. a \in S /\ b \in S /\ rank(a) = j - 1 /\ rank(b) = k - 1
    BY <1>4
  <2> HIDE DEF a, b
  <2>2. ~(b < a) /\ b # a
    BY <1>1, <1>3, <1>6, <2>1
  <2>3. a < b
    BY <2>1, <2>2
  <2>4. QED BY <2>3 DEF a, b
<1>7. ASSUME NEW i \in S PROVE \E k \in 1..n : InOrder(S)[k] = i
  <2> DEFINE k == rank(i) + 1
             a == InOrder(S)[k]
  <2>1. rank(i) \in 0..(n - 1)
    BY <1>1
  <2>2. k \in 1..n /\ k - 1 = rank(i)
    BY <1>1, <2>1
  <2>3. a \in S /\ rank(a) = k - 1
    BY <1>4, <2>2
  <2>4. rank(a) = rank(i)
    BY <2>2, <2>3
  <2> HIDE DEF a, k
  <2>5. ~(a < i) /\ ~(i < a)
    BY <1>1, <1>3, <2>3, <2>4
  <2>6. a = i
    BY <2>3, <2>5
  <2>7. QED BY <2>2, <2>6 DEF a
<1>8. QED BY <1>1, <1>5, <1>6, <1>7 DEF n

(* A member that has all the positions before it in the set is in its own  *)
(* place.                                                                  *)
LEMMA InOrderKeepsPlace ==
  ASSUME NEW S \in SUBSET (Nat \ {0}), IsFiniteSet(S), NEW m \in Nat, 1..m \subseteq S,
         NEW k \in 1..m
  PROVE  k \in 1..Cardinality(S) /\ InOrder(S)[k] = k
<1> DEFINE n == Cardinality(S)
           rank(i) == Cardinality({j \in S : j < i})
<1>1. S \in SUBSET Int /\ k \in S
  OBVIOUS
<1>2. n \in Nat /\ \A i \in S : rank(i) \in 0..(n - 1)
  BY <1>1, RanksFill
<1>3. \A a, b \in S : a < b => rank(a) < rank(b)
  BY <1>1, RanksDiffer
<1>4. rank(k) = k - 1
  <2>1. {j \in S : j < k} = 1..(k - 1)
    <3>1. ASSUME NEW j \in S, j < k PROVE j \in 1..(k - 1)
      <4>1. j \in Nat \ {0}
        OBVIOUS
      <4>2. QED BY <3>1, <4>1
    <3>2. ASSUME NEW j \in 1..(k - 1) PROVE j \in S /\ j < k
      <4>1. j \in 1..m /\ j < k
        OBVIOUS
      <4>2. QED BY <4>1
    <3>3. QED BY <3>1, <3>2
  <2>2. Cardinality(1..(k - 1)) = k - 1
    <3>1. 1 \in Int /\ k - 1 \in Int
      OBVIOUS
    <3>2. QED BY <3>1, FS_Interval
  <2>3. QED BY <2>1, <2>2
<1>5. k \in 1..n
  <2>1. rank(k) \in 0..(n - 1)
    BY <1>1, <1>2
  <2> HIDE DEF rank, n
  <2>2. QED BY <1>2, <1>4, <2>1
<1>6. InOrder(S)[k] = CHOOSE i \in S : rank(i) = k - 1
  BY <1>5 DEF InOrder
<1>7. \A i \in S : rank(i) = k - 1 => i = k
  <2> HIDE DEF rank
  <2>1. ASSUME NEW i \in S, rank(i) = k - 1 PROVE i = k
    <3>1. ~(i < k) /\ ~(k < i)
      BY <1>1, <1>2, <1>3, <1>4, <2>1
    <3>2. QED BY <1>1, <3>1
  <2>2. QED BY <2>1
<1> HIDE DEF rank
<1>8. InOrder(S)[k] = k
  BY <1>1, <1>4, <1>6, <1>7
<1>9. QED BY <1>5, <1>8

(* A finite set of integers that is not empty has a greatest and a least   *)
(* member.                                                                 *)
LEMMA HasEnds ==
  ASSUME NEW S \in SUBSET Int, IsFiniteSet(S), S # {}
  PROVE  /\ \E g \in S : \A i \in S : i <= g
         /\ \E l \in S : \A i \in S : l <= i
<1> DEFINE n == Cardinality(S)
           s == InOrder(S)
<1>1. /\ n \in Nat /\ s \in [1..n -> S]
      /\ \A j, k \in 1..n : j < k => s[j] < s[k]
      /\ \A i \in S : \E k \in 1..n : s[k] = i
  BY InOrderLists
<1> HIDE DEF n, s
<1>2. n \in 1..n /\ 1 \in 1..n
  <2>1. PICK i \in S : TRUE
    OBVIOUS
  <2>2. PICK k \in 1..n : s[k] = i
    BY <1>1
  <2>3. QED BY <1>1, <2>2
<1>3. s[n] \in S /\ s[1] \in S
  BY <1>1, <1>2
<1>4. ASSUME NEW i \in S PROVE s[1] <= i /\ i <= s[n]
  <2>1. PICK k \in 1..n : s[k] = i
    BY <1>1
  <2>2. i \in Int /\ s[1] \in Int /\ s[n] \in Int
    BY <1>3
  <2>3. k = n \/ s[k] < s[n]
    BY <1>1, <1>2
  <2>4. k = 1 \/ s[1] < s[k]
    BY <1>1, <1>2
  <2>5. QED BY <2>1, <2>2, <2>3, <2>4
<1>5. QED BY <1>3, <1>4

(* The lesser and the greater of two numbers. *)
LEMMA MinMaxOfTwo ==
  ASSUME NEW a \in Int, NEW b \in Int
  PROVE  /\ Min({a, b}) = IF a <= b THEN a ELSE b
         /\ Max({a, b}) = IF a >= b THEN a ELSE b
<1> DEFINE l == IF a <= b THEN a ELSE b
           g == IF a >= b THEN a ELSE b
<1>1. l \in {a, b} /\ \A y \in {a, b} : l <= y
  OBVIOUS
<1>2. g \in {a, b} /\ \A y \in {a, b} : g >= y
  OBVIOUS
<1>3. \A x \in {a, b} : (\A y \in {a, b} : x <= y) => x = l
  OBVIOUS
<1>4. \A x \in {a, b} : (\A y \in {a, b} : x >= y) => x = g
  OBVIOUS
<1> DEFINE S == {a, b}
<1>5. Min(S) = l
  <2> HIDE DEF S, l
  <2>1. l \in S /\ (\A y \in S : l <= y) /\ \A x \in S : (\A y \in S : x <= y) => x = l
    BY <1>1, <1>3 DEF S
  <2>2. QED BY <2>1 DEF Min
<1>6. Max(S) = g
  <2> HIDE DEF S, g
  <2>1. g \in S /\ (\A y \in S : g >= y) /\ \A x \in S : (\A y \in S : x >= y) => x = g
    BY <1>2, <1>4 DEF S
  <2>2. QED BY <2>1 DEF Max
<1>7. QED BY <1>5, <1>6
=============================================================================
