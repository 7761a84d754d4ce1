---------------------------- MODULE Ingestion_proofs ----------------------------
(***************************************************************************)
(* Proofs about Ingestion, for any documents, versions, batch size, faults *)
(* and number of runs.                                                     *)
(*                                                                         *)
(* A row that an id will have is decided in three places: a chunk that     *)
(* waits to be embedded overrides a staged row, and a staged row the       *)
(* flushed one, which a removal drops.  The invariants speak of the        *)
(* outcome of the three, so that embedding and flushing change nothing,    *)
(* and say where that outcome is lost: in a failed embedding, whose        *)
(* documents must leave the store, and when a process ends.                *)
(***************************************************************************)
EXTENDS Ingestion, SequenceTheorems, WellFoundedInduction, TLAPS

Chunk == [id : ChunkIds, version : Versions]

LEMMA HasLeast ==
  ASSUME NEW T, T \subseteq Nat, T # {}
  PROVE  \E n \in T : \A m \in T : n <= m
<1>1. PICK n \in T : \A m \in T : ~ (<<m, n>> \in OpToRel(<, Nat))
  BY WFMin, NatLessThanWellFounded, Zenon
<1>2. ASSUME NEW m \in T PROVE n <= m
  <2>1. <<m, n>> \in Nat \X Nat
    OBVIOUS
  <2>2. ~(m < n)
    BY <1>1, <2>1, Zenon DEF OpToRel
  <2>3. QED BY <2>2
<1>3. QED BY <1>2

-----------------------------------------------------------------------------
(* The last entry of a list for a chunk id. *)
IsLast(list, c, i) ==
  /\ i \in DOMAIN list /\ list[i].id = c
  /\ \A j \in DOMAIN list : j > i => list[j].id # c

LEMMA LastExists ==
  ASSUME NEW list \in Seq(Chunk), NEW c, Listed(list, c)
  PROVE  \E i : IsLast(list, c, i)
<1> DEFINE T == {n \in Nat : \E i \in DOMAIN list : list[i].id = c /\ n = Len(list) - i}
<1>1. T # {}
  BY LenProperties DEF Listed
<1>2. PICK n \in T : \A m \in T : n <= m
  BY <1>1, HasLeast
<1>3. PICK i \in DOMAIN list : list[i].id = c /\ n = Len(list) - i
  OBVIOUS
<1>4. ASSUME NEW j \in DOMAIN list, j > i PROVE list[j].id # c
  <2>1. Len(list) - j \in Nat /\ Len(list) - j < n
    BY <1>3, <1>4, LenProperties
  <2>2. QED BY <1>2, <2>1
<1>5. QED BY <1>3, <1>4 DEF IsLast

LEMMA LastIs ==
  ASSUME NEW list \in Seq(Chunk), NEW c, NEW i, IsLast(list, c, i)
  PROVE  Listed(list, c) /\ LastOf(list, c) = list[i]
<1> DEFINE P(k) == list[k].id = c /\ \A j \in DOMAIN list : j > k => list[j].id # c
           l == CHOOSE k \in DOMAIN list : P(k)
<1>1. l \in DOMAIN list /\ P(l)
  BY DEF IsLast
<1>2. DOMAIN list \subseteq Int
  BY LenProperties
<1>3. l = i
  BY <1>1, <1>2 DEF IsLast
<1>4. QED BY <1>3 DEF LastOf, IsLast, Listed

LEMMA LastType ==
  ASSUME NEW list \in Seq(Chunk), NEW c, Listed(list, c)
  PROVE  LastOf(list, c) \in Chunk /\ LastOf(list, c).id = c
<1>1. PICK i : IsLast(list, c, i)
  BY LastExists
<1>2. QED BY <1>1, LastIs, ElementOfSeq, LenProperties DEF IsLast

LEMMA ChunksType ==
  ASSUME NEW d \in Docs, NEW v \in Versions
  PROVE  /\ Chunks(d, v) \in Seq(Chunk) /\ Len(Chunks(d, v)) = SpanCount[v]
         /\ SpanCount[v] \in Nat
         /\ \A i \in 1..SpanCount[v] :
               Chunks(d, v)[i] = [id |-> <<d, i>>, version |-> v] /\ <<d, i>> \in ChunkIds
<1>1. SpanCount[v] \in Nat /\ SpanCount[v] <= MaxSpans /\ MaxSpans \in Nat
  BY IngestionAssumption
<1>2. \A i \in 1..SpanCount[v] : <<d, i>> \in ChunkIds
  BY <1>1 DEF ChunkIds
<1>3. Chunks(d, v) \in Seq(Chunk) /\ Len(Chunks(d, v)) = SpanCount[v]
  <2>1. \A i \in 1..SpanCount[v] : [id |-> <<d, i>>, version |-> v] \in Chunk
    BY <1>2 DEF Chunk
  <2>2. Chunks(d, v) \in [1..SpanCount[v] -> Chunk]
    BY <2>1 DEF Chunks
  <2>3. Chunks(d, v) \in Seq(Chunk)
    BY <1>1, <2>2, SeqDef
  <2>4. QED BY <1>1, <2>2, <2>3, LenProperties
<1>4. QED BY <1>1, <1>2, <1>3 DEF Chunks

(* put appends the chunks of d: they are the last for their ids, and the   *)
(* ids of other documents keep their last entry.                           *)
LEMMA AppendedChunks ==
  ASSUME NEW list \in Seq(Chunk), NEW d \in Docs, NEW v \in Versions
  PROVE  /\ list \o Chunks(d, v) \in Seq(Chunk)
         /\ \A i \in 1..SpanCount[v] :
               /\ Listed(list \o Chunks(d, v), <<d, i>>)
               /\ LastOf(list \o Chunks(d, v), <<d, i>>).version = v
         /\ \A c : Listed(list \o Chunks(d, v), c) <=>
                     Listed(list, c) \/ \E i \in 1..SpanCount[v] : c = <<d, i>>
         /\ \A c : c[1] # d /\ Listed(list, c) =>
                     LastOf(list \o Chunks(d, v), c) = LastOf(list, c)
<1> DEFINE new == Chunks(d, v)
           longer == list \o new
           n == Len(list)
           m == SpanCount[v]
<1>1. /\ new \in Seq(Chunk) /\ Len(new) = m /\ m \in Nat /\ n \in Nat
      /\ \A i \in 1..m : new[i] = [id |-> <<d, i>>, version |-> v]
  BY ChunksType, LenProperties
<1> HIDE DEF new, m
<1>2. /\ longer \in Seq(Chunk) /\ Len(longer) = n + m
      /\ \A i \in 1..(n + m) : longer[i] = IF i <= n THEN list[i] ELSE new[i - n]
  BY <1>1, ConcatProperties
<1>3. DOMAIN longer = 1..(n + m) /\ DOMAIN list = 1..n
  BY <1>2, LenProperties
<1> HIDE DEF longer, n
<1>4. \A i \in 1..n : i \in 1..(n + m) /\ longer[i] = list[i]
  BY <1>1, <1>2
<1>5. \A i \in (n + 1)..(n + m) :
         i - n \in 1..m /\ longer[i].id = <<d, i - n>> /\ longer[i].version = v
  <2>1. ASSUME NEW i \in (n + 1)..(n + m)
        PROVE  i - n \in 1..m /\ longer[i] = new[i - n]
    BY <1>1, <1>2
  <2>2. \A i \in 1..m : new[i].id = <<d, i>> /\ new[i].version = v
    BY <1>1
  <2>3. QED BY <2>1, <2>2
<1>6. ASSUME NEW i \in 1..m
      PROVE  Listed(longer, <<d, i>>) /\ LastOf(longer, <<d, i>>).version = v
  <2>1. n + i \in (n + 1)..(n + m) /\ n + i \in 1..(n + m) /\ (n + i) - n = i
    BY <1>1
  <2>2. longer[n + i].id = <<d, i>> /\ longer[n + i].version = v
    BY <1>5, <2>1
  <2>3. ASSUME NEW j \in 1..(n + m), j > n + i PROVE longer[j].id # <<d, i>>
    <3>1. j \in (n + 1)..(n + m) /\ j - n # i
      BY <1>1, <2>3
    <3>2. longer[j].id = <<d, j - n>>
      BY <1>5, <3>1
    <3>3. QED BY <3>1, <3>2
  <2>4. IsLast(longer, <<d, i>>, n + i)
    BY <1>3, <2>1, <2>2, <2>3 DEF IsLast
  <2>5. QED BY <1>2, <2>2, <2>4, LastIs
<1>7. ASSUME NEW c
      PROVE  Listed(longer, c) <=> Listed(list, c) \/ \E i \in 1..m : c = <<d, i>>
  <2>1. ASSUME NEW j \in 1..(n + m), longer[j].id = c
        PROVE  Listed(list, c) \/ \E i \in 1..m : c = <<d, i>>
    <3>1. CASE j <= n
      <4>1. j \in 1..n
        BY <1>1, <3>1
      <4>2. list[j].id = c
        BY <1>4, <2>1, <4>1
      <4>3. QED BY <1>3, <4>1, <4>2 DEF Listed
    <3>2. CASE j > n
      <4>1. j \in (n + 1)..(n + m)
        BY <1>1, <3>2
      <4>2. c = <<d, j - n>> /\ j - n \in 1..m
        BY <1>5, <2>1, <4>1
      <4>3. QED BY <4>2
    <3>3. QED BY <1>1, <3>1, <3>2
  <2>2. QED BY <1>3, <1>4, <1>6, <2>1 DEF Listed
<1>8. ASSUME NEW c, c[1] # d, Listed(list, c)
      PROVE  LastOf(longer, c) = LastOf(list, c)
  <2>1. PICK i : IsLast(list, c, i)
    BY <1>8, LastExists
  <2>2. i \in 1..n /\ list[i].id = c /\ longer[i] = list[i] /\ i \in 1..(n + m)
    BY <1>3, <1>4, <2>1 DEF IsLast
  <2>3. ASSUME NEW j \in 1..(n + m), j > i PROVE longer[j].id # c
    <3>1. CASE j <= n
      <4>1. j \in 1..n
        BY <1>1, <3>1
      <4>2. list[j].id # c
        BY <1>3, <2>1, <2>3, <4>1 DEF IsLast
      <4>3. QED BY <1>4, <4>1, <4>2
    <3>2. CASE j > n
      <4>1. j \in (n + 1)..(n + m)
        BY <1>1, <3>2
      <4>2. QED BY <1>5, <1>8, <4>1
    <3>3. QED BY <1>1, <3>1, <3>2
  <2>4. IsLast(longer, c, i)
    BY <1>3, <2>2, <2>3 DEF IsLast
  <2>5. QED BY <1>2, <2>1, <2>2, <2>4, LastIs
<1>9. QED BY <1>2, <1>6, <1>7, <1>8 DEF longer, new, m

-----------------------------------------------------------------------------
LEMMA OfferedTypes ==
  ASSUME TypeOK, NEW d, NEW v, Offered(d, v)
  PROVE  pc = "next" /\ d \in Docs /\ todo' \subseteq Docs /\ upsets' \in 0..MaxUpsets
BY IngestionAssumption DEF TypeOK, Offered, Upset

LEMMA FlushType ==
  ASSUME TypeOK
  PROVE  /\ Flushed(staged, removed, rows) \in [ChunkIds -> Versions \cup {None}]
         /\ NoRows \in [ChunkIds -> Versions \cup {None}]
BY DEF TypeOK, Flushed, NoRows

(* A write leaves files of the same type, whatever becomes of it. *)
LEMMA WriteType ==
  ASSUME TypeOK, NEW new \in [ChunkIds -> Versions \cup {None}], write_all(new)
  PROVE  disk' \in [ChunkIds -> Versions \cup {None}] /\ upsets' \in 0..MaxUpsets
<1>1. NoRows \in [ChunkIds -> Versions \cup {None}]
  BY DEF NoRows
<1>2. QED BY <1>1, IngestionAssumption DEF write_all, WriteFails, Upset, TypeOK

LEMMA TypeStep == TypeOK /\ [Next]_vars => TypeOK'
<1> SUFFICES ASSUME TypeOK, [Next]_vars PROVE TypeOK'
  OBVIOUS
<1> USE IngestionAssumption
<1>0. ASSUME NEW fault, Upset(fault) PROVE upsets' \in 0..MaxUpsets
  BY <1>0 DEF Upset, TypeOK
<1>1. CASE Start
  BY <1>1, EmptySeq DEF Start, indexVars, TypeOK
<1>2. CASE SourceFails \/ Exhausted \/ \E d \in Docs : Refused(d) \/ PutFails(d)
  BY <1>0, <1>2 DEF SourceFails, Exhausted, Refused, PutFails, Finally, indexVars, TypeOK
<1>3. ASSUME NEW d \in Docs, Unreadable(d) \/ Repeated(d) PROVE TypeOK'
  BY <1>0, <1>3 DEF Unreadable, Repeated, indexVars, TypeOK
<1>4. ASSUME NEW d \in Docs, NEW v \in Versions, Skip(d, v) PROVE TypeOK'
  <2>1. todo' \subseteq Docs /\ upsets' \in 0..MaxUpsets
    BY <1>4, OfferedTypes DEF Skip
  <2>2. QED BY <1>4, <2>1 DEF Skip, indexVars, TypeOK
<1>5. ASSUME NEW d \in Docs, NEW v \in Versions, Put(d, v) PROVE TypeOK'
  <2>1. todo' \subseteq Docs /\ upsets' \in 0..MaxUpsets
    BY <1>5, OfferedTypes DEF Put
  <2>2. pending' \in Seq(Chunk)
    BY <1>5, AppendedChunks DEF Put, TypeOK, Chunk
  <2>3. affected' \in Seq(Docs)
    BY <1>5, AppendProperties DEF Put, TypeOK
  <2>4. mishaps' \subseteq {"twice", "embed", "delete", "cut"}
    BY <1>5 DEF Put, PutTwice, TypeOK
  <2>5. QED BY <1>5, <2>1, <2>2, <2>3, <2>4 DEF Put, TypeOK, Chunk
<1>6. CASE EmbedAndIndex
  <2>1. \A c \in ChunkIds : Listed(pending, c) => LastOf(pending, c).version \in Versions
    BY LastType DEF TypeOK, Chunk
  <2>2. staged' \in [ChunkIds -> Versions \cup {None}]
    BY <1>6, <2>1 DEF EmbedAndIndex, add, TypeOK
  <2>3. QED BY <1>6, <2>2, EmptySeq DEF EmbedAndIndex, TypeOK
<1>7. CASE EmbedFails \/ DeleteFails
  <2>1. \A docs : Removed(docs) \in [Docs -> Versions \cup {None}]
    BY DEF Removed, TypeOK
  <2>2. mishaps' \subseteq {"twice", "embed", "delete", "cut"}
    BY <1>7 DEF EmbedFails, DeleteFails, TypeOK
  <2>3. store' \in [Docs -> Versions \cup {None}] /\ upsets' \in 0..MaxUpsets /\ EmbeddingRaises
    BY <1>0, <1>7, <2>1 DEF EmbedFails, DeleteFails
  <2>4. QED BY <2>2, <2>3 DEF EmbeddingRaises, indexVars, TypeOK
<1>8. CASE NothingPending
  BY <1>8 DEF NothingPending, indexVars, TypeOK
<1>9. CASE ServerDone \/ SearchFlushes
  <2>1. Flush /\ UNCHANGED <<site, source, store, taken, mishaps>>
    BY <1>9 DEF ServerDone, SearchFlushes
  <2>2. RunOver \/ UNCHANGED runVars
    BY <1>9 DEF ServerDone, SearchFlushes
  <2>3. <<>> \in Seq([id : ChunkIds, version : Versions]) /\ <<>> \in Seq(Docs)
    BY EmptySeq
  <2>4. disk' \in [ChunkIds -> Versions \cup {None}] /\ upsets' \in 0..MaxUpsets
    BY <2>1, FlushType, WriteType DEF Flush
  <2>5. QED BY <2>1, <2>2, <2>3, <2>4, FlushType DEF Flush, RunOver, runVars, TypeOK
<1>10. CASE CliDone \/ Crash
  <2>1. ProcessOver /\ mishaps' \subseteq {"twice", "embed", "delete", "cut"}
    BY <1>10 DEF CliDone, Crash, Cut, TypeOK
  <2>2. store' \in [Docs -> Versions \cup {None}]
    BY <2>1 DEF ProcessOver, TypeOK
  <2>3. disk' \in [ChunkIds -> Versions \cup {None}] /\ upsets' \in 0..MaxUpsets
    <3>1. CASE Crash
      BY <1>0, <3>1 DEF Crash, TypeOK
    <3>2. CASE CliDone
      BY <3>2, FlushType, WriteType DEF CliDone, TypeOK
    <3>3. QED BY <1>10, <3>1, <3>2
  <2>4. rows' \in [ChunkIds -> Versions \cup {None}]
    BY <2>1, <2>3 DEF ProcessOver
  <2>5. pending' \in Seq([id : ChunkIds, version : Versions]) /\ affected' \in Seq(Docs)
    BY <2>1, EmptySeq DEF ProcessOver, RunOver
  <2>6. QED
    BY <1>10, <2>1, <2>2, <2>3, <2>4, <2>5, FlushType
    DEF CliDone, Crash, ProcessOver, RunOver, TypeOK
<1>11. ASSUME NEW d \in Docs, NEW v \in Revisions[d] \cup {None}, Edit(d, v) PROVE TypeOK'
  <2>1. source' \in Sources
    BY <1>11 DEF Edit, TypeOK, Sources
  <2>2. QED BY <1>11, <2>1 DEF Edit, indexVars, runVars, TypeOK
<1>12. CASE UNCHANGED vars
  BY <1>12 DEF vars, indexVars, runVars, TypeOK
<1>13. QED
  BY <1>1, <1>2, <1>3, <1>4, <1>5, <1>6, <1>7, <1>8, <1>9, <1>10, <1>11, <1>12
  DEF Next, RunStep

(* TypeOK: every part of the ingestor, the store and the index keeps its   *)
(* type; in particular what add takes from the pending list is a version.  *)
THEOREM TypeCorrect == Spec => []TypeOK
<1>1. Init => TypeOK
  <2>1. <<>> \in Seq([id : ChunkIds, version : Versions]) /\ <<>> \in Seq(Docs)
    BY EmptySeq
  <2>2. 0 \in 0..MaxUpsets
    BY IngestionAssumption
  <2>3. QED BY <2>1, <2>2 DEF Init, TypeOK, NoRows
<1>2. QED BY <1>1, TypeStep, PTL DEF Spec

-----------------------------------------------------------------------------
(* StoredIsLatest: what is skipped is what is stored, so a change of text  *)
(* or of policy always gets in.  The assumption is the one policy_fingerprint *)
(* makes of sha256: versions with one fingerprint are one version.         *)
THEOREM StoredVersionIsLatest ==
  ASSUME \A v, w \in Versions : Fingerprint[v] = Fingerprint[w] => v = w
  PROVE  Spec => []StoredIsLatest
<1>1. Init => StoredIsLatest
  BY DEF Init, StoredIsLatest
<1>2. TypeOK /\ StoredIsLatest /\ [Next]_vars => StoredIsLatest'
  <2> SUFFICES ASSUME TypeOK, StoredIsLatest, [Next]_vars PROVE StoredIsLatest'
    OBVIOUS
  <2>1. ASSUME NEW d \in Docs, NEW v \in Versions, Skip(d, v) PROVE StoredIsLatest'
    <3>1. store[d] = v
      BY <2>1 DEF Skip, Unchanged, TypeOK
    <3>2. QED BY <2>1, <3>1 DEF Skip, StoredIsLatest, TypeOK
  <2>2. ASSUME NEW d \in Docs, NEW v \in Versions, Put(d, v) PROVE StoredIsLatest'
    BY <2>2 DEF Put, StoredIsLatest, TypeOK
  <2>3. CASE EmbedFails \/ DeleteFails
    BY <2>3 DEF EmbedFails, DeleteFails, EmbeddingRaises, Removed, StoredIsLatest
  <2>4. CASE CliDone \/ Crash
    BY <2>4 DEF CliDone, Crash, ProcessOver, StoredIsLatest
  <2>5. CASE UNCHANGED <<store, taken>>
    BY <2>5 DEF StoredIsLatest
  <2>6. QED
    BY <2>1, <2>2, <2>3, <2>4, <2>5
    DEF Next, RunStep, Start, SourceFails, Exhausted, Unreadable, Repeated, Refused,
        PutFails, EmbedAndIndex, NothingPending, ServerDone, SearchFlushes, Edit, vars
<1>3. QED BY <1>1, <1>2, TypeCorrect, PTL DEF Spec

-----------------------------------------------------------------------------
(* The row that chunk c has after a flush, and after embedding what is     *)
(* pending and then a flush.                                               *)
Kept(c) == Flushed(staged, removed, rows)[c]
Outcome(c) == IF Listed(pending, c) THEN LastOf(pending, c).version ELSE Kept(c)

(* What is pending belongs to an affected document: if it cannot be        *)
(* embedded, its document leaves the store.                                *)
PendingAreAffected ==
  \A i \in DOMAIN pending : \E j \in DOMAIN affected : affected[j] = pending[i].id[1]

IdleIsFlushed ==
  pc = "idle" => pending = <<>> /\ affected = <<>> /\ staged = NoRows /\ removed = {}

(* What the run ends without having embedded is of no stored document. *)
DroppedAreGone ==
  pc = "end" => \A i \in DOMAIN pending : store[pending[i].id[1]] = None

OutcomeIsStored ==
  \A d \in Docs : store[d] # None =>
     \A i \in 1..SpanCount[store[d]] : Outcome(<<d, i>>) = store[d]

IndexInvariant ==
  PendingAreAffected /\ IdleIsFlushed /\ (Repaired => DroppedAreGone /\ OutcomeIsStored)

LEMMA KeptIs ==
  ASSUME NEW c \in ChunkIds
  PROVE  Kept(c) = IF staged[c] # None THEN staged[c]
                   ELSE IF c[1] \in removed THEN None ELSE rows[c]
BY DEF Kept, Flushed

LEMMA SpansAreIds ==
  ASSUME TypeOK, NEW d \in Docs, store[d] # None
  PROVE  \A i \in 1..SpanCount[store[d]] : <<d, i>> \in ChunkIds
<1>1. store[d] \in Versions
  BY DEF TypeOK
<1>2. QED BY <1>1, ChunksType

LEMMA EmptyLists ==
  \A c : ~Listed(<<>>, c)
BY DEF Listed

(* A flush makes of a row what it was bound to become. *)
LEMMA FlushKeeps ==
  ASSUME rows' = Flushed(staged, removed, rows), staged' = NoRows, removed' = {},
         NEW c \in ChunkIds
  PROVE  Kept(c)' = Kept(c) /\ rows'[c] = Kept(c)
<1>1. rows'[c] = Kept(c) /\ staged'[c] = None /\ removed' = {}
  BY DEF Kept, Flushed, NoRows
<1>2. Kept(c)' = rows'[c]
  BY <1>1 DEF Kept, Flushed
<1>3. QED BY <1>1, <1>2

(* So does embedding what is pending. *)
LEMMA EmbeddingKeeps ==
  ASSUME TypeOK, EmbedAndIndex, NEW c \in ChunkIds
  PROVE  Outcome(c)' = Outcome(c)
<1>1. ~Listed(pending', c)
  BY EmptyLists DEF EmbedAndIndex
<1>2. Outcome(c)' = Kept(c)'
  BY <1>1 DEF Outcome
<1>3. CASE Listed(pending, c)
  <2>1. staged'[c] = LastOf(pending, c).version
    BY <1>3 DEF EmbedAndIndex, add
  <2>2. LastOf(pending, c) \in Chunk
    BY <1>3, LastType DEF TypeOK, Chunk
  <2>3. staged'[c] # None
    BY <2>1, <2>2, IngestionAssumption DEF Chunk
  <2>4. QED BY <1>2, <1>3, <2>1, <2>3 DEF Outcome, Kept, Flushed
<1>4. CASE ~Listed(pending, c)
  BY <1>2, <1>4 DEF Outcome, Kept, Flushed, EmbedAndIndex, add
<1>5. QED BY <1>3, <1>4

LEMMA IndexInit == Init => IndexInvariant
BY DEF Init, IndexInvariant, PendingAreAffected, IdleIsFlushed, DroppedAreGone, OutcomeIsStored

LEMMA RepairedStays ==
  ASSUME TypeOK, [Next]_vars, Repaired'
  PROVE  Repaired
BY DEF Next, RunStep, Start, SourceFails, Exhausted, Unreadable, Repeated, Refused, PutFails,
       Skip, Put, PutTwice, EmbedAndIndex, EmbedFails, DeleteFails, EmbeddingRaises,
       NothingPending, ServerDone, CliDone, Cut, ProcessOver, SearchFlushes, Crash, Edit, vars, Repaired

(* A step that touches neither the store nor an index list.                *)
LEMMA IndexIdle ==
  ASSUME IndexInvariant, UNCHANGED <<store, indexVars, pending, affected>>,
         pc' # "idle", pc' = "end" => pending = <<>>, Repaired' => Repaired
  PROVE  IndexInvariant'
<1>1. \A c : Outcome(c)' = Outcome(c)
  BY DEF Outcome, Kept, indexVars
<1>2. PendingAreAffected' /\ IdleIsFlushed'
  BY DEF IndexInvariant, PendingAreAffected, IdleIsFlushed
<1>3. Repaired' => DroppedAreGone'
  BY DEF DroppedAreGone
<1>4. Repaired' => OutcomeIsStored'
  BY <1>1 DEF IndexInvariant, OutcomeIsStored
<1>5. QED BY <1>2, <1>3, <1>4 DEF IndexInvariant

LEMMA IndexPut ==
  ASSUME TypeOK, IndexInvariant, Repaired' => Repaired,
         NEW d \in Docs, NEW v \in Versions, Put(d, v)
  PROVE  IndexInvariant'
<1>1. /\ pc' \in {"embed", "next"} /\ store' = [store EXCEPT ![d] = v]
      /\ pending' = pending \o Chunks(d, v) /\ affected' = Append(affected, d)
      /\ removed' = removed \cup {d} /\ UNCHANGED <<rows, staged>>
  BY DEF Put
<1>2. pending \in Seq(Chunk) /\ affected \in Seq(Docs)
  BY DEF TypeOK, Chunk
<1>3. PendingAreAffected'
  <2>1. ASSUME NEW i \in DOMAIN pending'
        PROVE  \E j \in DOMAIN affected' : affected'[j] = pending'[i].id[1]
    <3>1. /\ DOMAIN affected' = 1..(Len(affected) + 1) /\ Len(affected) \in Nat
          /\ affected'[Len(affected) + 1] = d
          /\ \A j \in 1..Len(affected) : affected'[j] = affected[j]
      BY <1>1, <1>2, AppendProperties, LenProperties
    <3>2. /\ Listed(pending', pending'[i].id)
          /\ Listed(pending, pending'[i].id) \/ \E k \in 1..SpanCount[v] : pending'[i].id = <<d, k>>
      <4>1. Listed(pending', pending'[i].id)
        BY DEF Listed
      <4>2. \A c : Listed(pending', c) =>
                    Listed(pending, c) \/ \E k \in 1..SpanCount[v] : c = <<d, k>>
        BY <1>1, <1>2, AppendedChunks
      <4>3. QED BY <4>1, <4>2
    <3>3. CASE Listed(pending, pending'[i].id)
      <4>1. PICK j \in DOMAIN affected : affected[j] = pending'[i].id[1]
        BY <3>3 DEF Listed, IndexInvariant, PendingAreAffected
      <4>2. DOMAIN affected = 1..Len(affected)
        BY <1>2, LenProperties
      <4>3. QED BY <3>1, <4>1, <4>2
    <3>4. ASSUME NEW k \in 1..SpanCount[v], pending'[i].id = <<d, k>>
          PROVE  \E j \in DOMAIN affected' : affected'[j] = pending'[i].id[1]
      <4>1. pending'[i].id[1] = d
        BY <3>4
      <4>2. QED BY <3>1, <4>1
    <3>5. QED BY <3>2, <3>3, <3>4
  <2>2. QED BY <2>1 DEF PendingAreAffected
<1>4. ASSUME Repaired' PROVE OutcomeIsStored'
  <2>1. ASSUME NEW e \in Docs, store'[e] # None, NEW i \in 1..SpanCount[store'[e]]
        PROVE  Outcome(<<e, i>>)' = store'[e]
    <3>1. CASE e = d
      <4>1. store'[e] = v
        BY <1>1, <3>1 DEF TypeOK
      <4>2. Listed(pending', <<d, i>>) /\ LastOf(pending', <<d, i>>).version = v
        BY <1>1, <1>2, <2>1, <4>1, AppendedChunks
      <4>3. QED BY <3>1, <4>1, <4>2 DEF Outcome
    <3>2. CASE e # d
      <4>1. store'[e] = store[e]
        BY <1>1, <3>2 DEF TypeOK
      <4>2. Outcome(<<e, i>>) = store[e] /\ <<e, i>> \in ChunkIds
        BY <1>4, <2>1, <4>1, SpansAreIds DEF IndexInvariant, OutcomeIsStored
      <4>3. Kept(<<e, i>>)' = Kept(<<e, i>>)
        BY <1>1, <3>2, <4>2 DEF Kept, Flushed
      <4>4. <<e, i>>[1] # d /\ \A k : <<e, i>> # <<d, k>>
        BY <3>2
      <4>5. /\ Listed(pending', <<e, i>>) <=> Listed(pending, <<e, i>>)
            /\ Listed(pending, <<e, i>>) => LastOf(pending', <<e, i>>) = LastOf(pending, <<e, i>>)
        BY <1>1, <1>2, <4>4, AppendedChunks
      <4>6. QED BY <4>1, <4>2, <4>3, <4>5 DEF Outcome
    <3>3. QED BY <3>1, <3>2
  <2>2. QED BY <2>1 DEF OutcomeIsStored
<1>5. IdleIsFlushed' /\ DroppedAreGone'
  BY <1>1 DEF IdleIsFlushed, DroppedAreGone
<1>6. QED BY <1>3, <1>4, <1>5 DEF IndexInvariant

LEMMA AffectedAll ==
  ASSUME TypeOK
  PROVE  \A j \in DOMAIN affected : affected[j] \in Affected(Len(affected))
BY LenProperties DEF TypeOK, Affected

(* The documents of a failed embedding leave the store; what is pending is *)
(* theirs.                                                                 *)
LEMMA IndexEmbedFails ==
  ASSUME TypeOK, IndexInvariant, Repaired' => Repaired, EmbedFails
  PROVE  IndexInvariant'
<1>1. /\ UNCHANGED <<indexVars, pending, affected>> /\ pc' \in {"finally", "end"}
      /\ store' = Removed(Affected(Len(affected)))
  BY DEF EmbedFails, EmbeddingRaises, Embedding
<1>2. \A i \in DOMAIN pending : store'[pending[i].id[1]] = None
  <2>1. ASSUME NEW i \in DOMAIN pending PROVE store'[pending[i].id[1]] = None
    <3>1. PICK j \in DOMAIN affected : affected[j] = pending[i].id[1]
      BY DEF IndexInvariant, PendingAreAffected
    <3>2. affected[j] \in Docs /\ affected[j] \in Affected(Len(affected))
      BY AffectedAll, LenProperties, ElementOfSeq DEF TypeOK
    <3>3. QED BY <1>1, <3>1, <3>2 DEF Removed
  <2>2. QED BY <2>1
<1>3. \A d \in Docs : store'[d] # None => store'[d] = store[d]
  BY <1>1 DEF Removed
<1>4. \A c : Outcome(c)' = Outcome(c)
  BY <1>1 DEF Outcome, Kept, indexVars
<1>5. PendingAreAffected' /\ IdleIsFlushed'
  BY <1>1 DEF IndexInvariant, PendingAreAffected, IdleIsFlushed
<1>6. DroppedAreGone'
  BY <1>1, <1>2 DEF DroppedAreGone
<1>7. Repaired' => OutcomeIsStored'
  BY <1>3, <1>4 DEF IndexInvariant, OutcomeIsStored
<1>8. QED BY <1>5, <1>6, <1>7 DEF IndexInvariant

LEMMA IndexEmbed ==
  ASSUME TypeOK, IndexInvariant, Repaired' => Repaired, EmbedAndIndex
  PROVE  IndexInvariant'
<1>1. UNCHANGED store /\ pending' = <<>> /\ pc' \in {"next", "end"}
  BY DEF EmbedAndIndex
<1>2. PendingAreAffected' /\ IdleIsFlushed' /\ DroppedAreGone'
  BY <1>1 DEF PendingAreAffected, IdleIsFlushed, DroppedAreGone
<1>3. ASSUME Repaired' PROVE OutcomeIsStored'
  <2>1. ASSUME NEW d \in Docs, store[d] # None, NEW i \in 1..SpanCount[store[d]]
        PROVE  Outcome(<<d, i>>)' = store[d]
    <3>1. <<d, i>> \in ChunkIds /\ Outcome(<<d, i>>) = store[d]
      BY <1>3, <2>1, SpansAreIds DEF IndexInvariant, OutcomeIsStored
    <3>2. QED BY <3>1, EmbeddingKeeps
  <2>2. QED BY <1>1, <2>1 DEF OutcomeIsStored
<1>4. QED BY <1>2, <1>3 DEF IndexInvariant

(* At the end of a run no stored document waits, so the flush gives every  *)
(* stored chunk its row.                                                   *)
LEMMA EndOutcome ==
  ASSUME TypeOK, pc = "end", DroppedAreGone,
         NEW d \in Docs, store[d] # None, NEW i
  PROVE  Outcome(<<d, i>>) = Kept(<<d, i>>)
<1>1. ~Listed(pending, <<d, i>>)
  <2> SUFFICES ASSUME NEW j \in DOMAIN pending, pending[j].id = <<d, i>> PROVE FALSE
    BY DEF Listed
  <2>1. pending[j].id[1] = d
    OBVIOUS
  <2>2. QED BY <2>1 DEF DroppedAreGone
<1>2. QED BY <1>1 DEF Outcome

LEMMA IndexRunFlushed ==
  ASSUME TypeOK, IndexInvariant, Repaired' => Repaired, pc = "end", RunOver,
         rows' = Flushed(staged, removed, rows), staged' = NoRows, removed' = {},
         \A d \in Docs : store'[d] # None => store'[d] = store[d]
  PROVE  IndexInvariant'
<1>1. pc' = "idle" /\ pending' = <<>> /\ affected' = <<>>
  BY DEF RunOver
<1>2. PendingAreAffected' /\ IdleIsFlushed' /\ DroppedAreGone'
  BY <1>1 DEF PendingAreAffected, IdleIsFlushed, DroppedAreGone
<1>3. ASSUME Repaired' PROVE OutcomeIsStored'
  <2>1. ASSUME NEW d \in Docs, store'[d] # None, NEW i \in 1..SpanCount[store'[d]]
        PROVE  Outcome(<<d, i>>)' = store'[d]
    <3>1. store'[d] = store[d]
      BY <2>1
    <3>2. <<d, i>> \in ChunkIds /\ Outcome(<<d, i>>) = store[d]
      BY <1>3, <2>1, <3>1, SpansAreIds DEF IndexInvariant, OutcomeIsStored
    <3>3. Outcome(<<d, i>>) = Kept(<<d, i>>)
      BY <1>3, <2>1, <3>1, EndOutcome DEF IndexInvariant
    <3>4. Kept(<<d, i>>)' = Kept(<<d, i>>)
      BY <3>2, FlushKeeps
    <3>5. Outcome(<<d, i>>)' = Kept(<<d, i>>)'
      BY <1>1, EmptyLists DEF Outcome
    <3>6. QED BY <3>1, <3>2, <3>3, <3>4, <3>5
  <2>2. QED BY <2>1 DEF OutcomeIsStored
<1>4. QED BY <1>2, <1>3 DEF IndexInvariant

LEMMA IndexSearch ==
  ASSUME TypeOK, IndexInvariant, Repaired' => Repaired, SearchFlushes
  PROVE  IndexInvariant'
<1>1. Flush /\ UNCHANGED <<store, pending, affected, pc>>
  BY DEF SearchFlushes, runVars
<1>2. PendingAreAffected' /\ (Repaired' => DroppedAreGone')
  BY <1>1 DEF IndexInvariant, PendingAreAffected, DroppedAreGone
<1>3. IdleIsFlushed'
  BY <1>1 DEF IndexInvariant, IdleIsFlushed, Flush
<1>4. ASSUME Repaired' PROVE OutcomeIsStored'
  <2>1. ASSUME NEW d \in Docs, store[d] # None, NEW i \in 1..SpanCount[store[d]]
        PROVE  Outcome(<<d, i>>)' = store[d]
    <3>1. <<d, i>> \in ChunkIds /\ Outcome(<<d, i>>) = store[d]
      BY <1>4, <2>1, SpansAreIds DEF IndexInvariant, OutcomeIsStored
    <3>2. Kept(<<d, i>>)' = Kept(<<d, i>>)
      BY <1>1, <3>1, FlushKeeps DEF Flush
    <3>3. QED BY <1>1, <3>1, <3>2 DEF Outcome
  <2>2. QED BY <1>1, <2>1 DEF OutcomeIsStored
<1>5. QED BY <1>2, <1>3, <1>4 DEF IndexInvariant

(* A process that ends with work in hand, or with rows that are not on the *)
(* disk, loses them: then either the store is lost too, or the property no *)
(* longer claims anything.                                                 *)
LEMMA IndexCut ==
  ASSUME TypeOK, IndexInvariant, Repaired' => Repaired, ProcessOver,
         UNCHANGED site, (pc = "idle" /\ UNCHANGED rows) \/ "cut" \in mishaps'
  PROVE  IndexInvariant'
<1>1. pc' = "idle" /\ pending' = <<>> /\ affected' = <<>> /\ staged' = NoRows /\ removed' = {}
  BY DEF ProcessOver, RunOver
<1>2. PendingAreAffected' /\ IdleIsFlushed' /\ DroppedAreGone'
  BY <1>1 DEF PendingAreAffected, IdleIsFlushed, DroppedAreGone
<1>3. ASSUME Repaired' PROVE OutcomeIsStored'
  <2>1. CASE ~site.durable
    BY <2>1 DEF ProcessOver, OutcomeIsStored
  <2>2. CASE site.durable
    <3>1. pc = "idle" /\ UNCHANGED <<store, rows>>
      BY <1>3, <2>2 DEF Repaired, ProcessOver
    <3>2. UNCHANGED <<pending, staged, removed>>
      BY <1>1, <3>1 DEF IndexInvariant, IdleIsFlushed
    <3>3. \A c : Outcome(c)' = Outcome(c)
      BY <3>1, <3>2 DEF Outcome, Kept
    <3>4. QED BY <1>3, <3>1, <3>3 DEF IndexInvariant, OutcomeIsStored
  <2>3. QED BY <2>1, <2>2
<1>4. QED BY <1>2, <1>3 DEF IndexInvariant

LEMMA IndexStep == TypeOK /\ IndexInvariant /\ [Next]_vars => IndexInvariant'
<1> SUFFICES ASSUME TypeOK, IndexInvariant, [Next]_vars PROVE IndexInvariant'
  OBVIOUS
<1>0. Repaired' => Repaired
  BY RepairedStays
<1>1. CASE \/ SourceFails \/ Exhausted \/ NothingPending
           \/ \E d \in Docs :
                 \/ Unreadable(d) \/ Repeated(d) \/ Refused(d) \/ PutFails(d)
                 \/ \E v \in Versions : Skip(d, v)
  <2>1. UNCHANGED <<store, indexVars, pending, affected>> /\ pc' \in {"next", "finally", "end"}
    BY <1>1
    DEF SourceFails, Exhausted, NothingPending, Unreadable, Repeated, Refused, PutFails, Finally,
        Skip, Offered
  <2>2. pc' = "end" => pending = <<>>
    BY <1>1
    DEF SourceFails, Exhausted, NothingPending, Unreadable, Repeated, Refused, PutFails, Finally,
        Skip, Offered
  <2>3. QED BY <1>0, <2>1, <2>2, IndexIdle
<1>2. CASE Start
  <2>1. UNCHANGED <<store, indexVars, pending, affected>> /\ pc' = "next"
    BY <1>2 DEF Start, IndexInvariant, IdleIsFlushed
  <2>2. QED BY <1>0, <2>1, IndexIdle
<1>3. CASE ServerDone
  BY <1>0, <1>3, IndexRunFlushed DEF ServerDone, Flush
<1>4. CASE CliDone
  <2>1. CASE failed \/ disk' # Flushed(staged, removed, rows)
    <3>1. "cut" \in mishaps' /\ ProcessOver /\ UNCHANGED site
      BY <1>4, <2>1 DEF CliDone, Cut
    <3>2. QED BY <1>0, <3>1, IndexCut
  <2>2. CASE disk' = Flushed(staged, removed, rows)
    <3>1. /\ \A d \in Docs : store'[d] # None => store'[d] = store[d]
          /\ pc = "end" /\ RunOver /\ staged' = NoRows /\ removed' = {} /\ rows' = disk'
      BY <1>4 DEF CliDone, ProcessOver
    <3>2. QED BY <1>0, <2>2, <3>1, IndexRunFlushed
  <2>3. QED BY <2>1, <2>2
<1>5. CASE Crash
  <2>1. ProcessOver /\ UNCHANGED <<site, disk>> /\ rows' = disk'
    BY <1>5 DEF Crash, ProcessOver
  <2>2. (pc = "idle" /\ disk = rows) \/ "cut" \in mishaps'
    BY <1>5 DEF Crash, Cut
  <2>3. QED BY <1>0, <2>1, <2>2, IndexCut
<1>6. CASE DeleteFails
  <2>1. UNCHANGED <<indexVars, pending, affected>> /\ pc' \in {"finally", "end"}
    BY <1>6 DEF DeleteFails, EmbeddingRaises, Embedding
  <2>2. ~Repaired'
    BY <1>6 DEF DeleteFails, Repaired
  <2>3. QED
    BY <2>1, <2>2 DEF IndexInvariant, PendingAreAffected, IdleIsFlushed
<1>7. CASE UNCHANGED vars \/ \E d \in Docs : \E v \in Revisions[d] \cup {None} : Edit(d, v)
  <2>1. UNCHANGED <<store, indexVars, runVars>>
    BY <1>7 DEF vars, Edit
  <2>2. \A c : Outcome(c)' = Outcome(c)
    BY <2>1 DEF Outcome, Kept, indexVars, runVars
  <2>3. PendingAreAffected' /\ IdleIsFlushed' /\ (Repaired' => DroppedAreGone')
    BY <1>0, <2>1
    DEF IndexInvariant, PendingAreAffected, IdleIsFlushed, DroppedAreGone, indexVars, runVars
  <2>4. Repaired' => OutcomeIsStored'
    BY <1>0, <2>1, <2>2 DEF IndexInvariant, OutcomeIsStored
  <2>5. QED BY <2>3, <2>4 DEF IndexInvariant
<1>8. QED
  BY <1>0, <1>1, <1>2, <1>3, <1>4, <1>5, <1>6, <1>7,
     IndexPut, IndexEmbed, IndexEmbedFails, IndexSearch
  DEF Next, RunStep

(* StoredIsIndexed: between runs every chunk of a stored document has a    *)
(* row of the stored version, whatever fails or stops, a flush that cannot *)
(* write included, except where a process ends before what it did is       *)
(* written while the store keeps what it was given, or the store fails in  *)
(* the middle of the repair (ingest.py:121-125).                           *)
THEOREM StoredDocumentsAreIndexed == Spec => []StoredIsIndexed
<1>1. TypeOK /\ IndexInvariant => StoredIsIndexed
  <2> SUFFICES ASSUME TypeOK, IndexInvariant, Repaired, pc = "idle",
                      NEW d \in Docs, store[d] # None, NEW i \in 1..SpanCount[store[d]]
               PROVE  rows[<<d, i>>] = store[d]
    BY DEF StoredIsIndexed, StoredHasRows, Indexed
  <2>1. Outcome(<<d, i>>) = store[d] /\ <<d, i>> \in ChunkIds
    BY SpansAreIds DEF IndexInvariant, OutcomeIsStored
  <2>2. pending = <<>> /\ staged = NoRows /\ removed = {}
    BY DEF IndexInvariant, IdleIsFlushed
  <2>3. QED BY <2>1, <2>2, EmptyLists DEF Outcome, Kept, Flushed, NoRows
<1>2. QED BY <1>1, IndexInit, IndexStep, TypeCorrect, PTL DEF Spec

-----------------------------------------------------------------------------
(* The chunk is one the store has. *)
Fits(c) == store[c[1]] # None /\ c[2] <= SpanCount[store[c[1]]]

(* A document that waits to be embedded has nothing staged, and its        *)
(* earlier rows are dropped: none is left if its embedding fails.          *)
AffectedAreDropped ==
  \A j \in DOMAIN affected : \A c \in ChunkIds :
     c[1] = affected[j] => Kept(c) = None /\ staged[c] = None

KeptFits == \A c \in ChunkIds : Kept(c) # None => Fits(c)
PendingFits == \A c \in ChunkIds : Listed(pending, c) /\ pc # "end" => Fits(c)

RowsInvariant ==
  site.durable /\ mishaps = {} => KeptFits /\ PendingFits /\ AffectedAreDropped

LEMMA RowsInit == Init => RowsInvariant
BY EmptyLists
DEF Init, RowsInvariant, KeptFits, PendingFits, AffectedAreDropped, Kept, Flushed, NoRows

LEMMA MishapsStay ==
  ASSUME [Next]_vars, mishaps' = {}, site'.durable
  PROVE  mishaps = {} /\ site.durable
BY DEF Next, RunStep, Start, SourceFails, Exhausted, Unreadable, Repeated, Refused, PutFails,
       Skip, Put, PutTwice, EmbedAndIndex, EmbedFails, DeleteFails, EmbeddingRaises,
       NothingPending, ServerDone, CliDone, Cut, SearchFlushes, Crash, Edit, vars

(* A step that leaves what rows will be, and takes up nothing new. *)
LEMMA RowsIdle ==
  ASSUME KeptFits, PendingFits, AffectedAreDropped, UNCHANGED store,
         \A c \in ChunkIds : Kept(c)' = Kept(c) /\ (staged'[c] # None => staged'[c] = staged[c]),
         \/ UNCHANGED <<pending, affected>> /\ (pc = "end" => pc' = "end")
         \/ pending' = <<>> /\ affected' = <<>>
  PROVE  KeptFits' /\ PendingFits' /\ AffectedAreDropped'
<1>1. \A c : Fits(c)' = Fits(c)
  BY DEF Fits
<1>2. KeptFits'
  BY <1>1 DEF KeptFits
<1>3. PendingFits'
  BY <1>1, EmptyLists DEF PendingFits
<1>4. AffectedAreDropped'
  BY DEF AffectedAreDropped
<1>5. QED BY <1>2, <1>3, <1>4

LEMMA RowsPut ==
  ASSUME TypeOK, KeptFits, PendingFits, AffectedAreDropped, mishaps' = {},
         NEW d \in Docs, NEW v \in Versions, Put(d, v)
  PROVE  KeptFits' /\ PendingFits' /\ AffectedAreDropped'
<1>1. /\ pc = "next" /\ pc' \in {"embed", "next"} /\ store' = [store EXCEPT ![d] = v]
      /\ pending' = pending \o Chunks(d, v) /\ affected' = Append(affected, d)
      /\ removed' = removed \cup {d} /\ UNCHANGED <<rows, staged>>
  BY DEF Put, Offered
<1>2. /\ \A c \in ChunkIds : c[1] = d => staged[c] = None
      /\ \A i \in DOMAIN pending : pending[i].id[1] # d
  BY DEF Put, PutTwice
<1>3. pending \in Seq(Chunk) /\ affected \in Seq(Docs) /\ v # None
  BY IngestionAssumption DEF TypeOK, Chunk
<1>4. \A c \in ChunkIds : c[1] \in Docs
  BY DEF ChunkIds
<1>5. \A c \in ChunkIds : IF c[1] = d THEN Kept(c)' = None ELSE Kept(c)' = Kept(c)
  BY <1>1, <1>2 DEF Kept, Flushed
<1>6. \A c \in ChunkIds : c[1] # d => Fits(c)' = Fits(c)
  BY <1>1, <1>4 DEF Fits, TypeOK
<1>7. KeptFits'
  BY <1>5, <1>6 DEF KeptFits
<1>8. ASSUME NEW c \in ChunkIds, Listed(pending', c) PROVE Fits(c)'
  <2>1. Listed(pending, c) \/ \E i \in 1..SpanCount[v] : c = <<d, i>>
    <3>1. \A b : Listed(pending', b) => Listed(pending, b) \/ \E i \in 1..SpanCount[v] : b = <<d, i>>
      BY <1>1, <1>3, AppendedChunks
    <3>2. QED BY <1>8, <3>1
  <2>2. CASE Listed(pending, c)
    <3>1. c[1] # d
      BY <1>2, <2>2 DEF Listed
    <3>2. QED BY <1>1, <1>6, <2>2, <3>1 DEF PendingFits
  <2>3. ASSUME NEW i \in 1..SpanCount[v], c = <<d, i>> PROVE Fits(c)'
    <3>1. store'[d] = v /\ c[1] = d /\ c[2] = i
      BY <1>1, <2>3 DEF TypeOK
    <3>2. i <= SpanCount[v]
      BY ChunksType
    <3>3. QED BY <1>3, <3>1, <3>2 DEF Fits
  <2>4. QED BY <2>1, <2>2, <2>3
<1>9. AffectedAreDropped'
  <2>1. ASSUME NEW j \in DOMAIN affected', NEW c \in ChunkIds, c[1] = affected'[j]
        PROVE  Kept(c)' = None /\ staged'[c] = None
    <3>1. /\ DOMAIN affected' = 1..(Len(affected) + 1) /\ Len(affected) \in Nat
          /\ DOMAIN affected = 1..Len(affected)
          /\ affected'[Len(affected) + 1] = d
          /\ \A i \in 1..Len(affected) : affected'[i] = affected[i]
      BY <1>1, <1>3, AppendProperties, LenProperties
    <3>2. CASE c[1] = d
      BY <1>1, <1>2, <1>5, <3>2
    <3>3. CASE c[1] # d
      <4>1. j \in DOMAIN affected /\ c[1] = affected[j]
        BY <2>1, <3>1, <3>3
      <4>2. QED BY <1>1, <1>5, <3>3, <4>1 DEF AffectedAreDropped
    <3>4. QED BY <3>2, <3>3
  <2>2. QED BY <2>1 DEF AffectedAreDropped
<1>10. QED BY <1>7, <1>8, <1>9 DEF PendingFits

LEMMA RowsEmbed ==
  ASSUME TypeOK, KeptFits, PendingFits, AffectedAreDropped, EmbedAndIndex
  PROVE  KeptFits' /\ PendingFits' /\ AffectedAreDropped'
<1>1. UNCHANGED store /\ pending' = <<>> /\ affected' = <<>> /\ pc # "end"
  BY DEF EmbedAndIndex, Embedding
<1>2. ASSUME NEW c \in ChunkIds, Kept(c)' # None PROVE Fits(c)
  <2>1. Kept(c)' = Outcome(c)
    BY <1>1, EmbeddingKeeps, EmptyLists DEF Outcome
  <2>2. QED BY <1>1, <1>2, <2>1 DEF Outcome, KeptFits, PendingFits
<1>3. \A c : Fits(c)' = Fits(c)
  BY <1>1 DEF Fits
<1>4. KeptFits' /\ PendingFits'
  BY <1>1, <1>2, <1>3, EmptyLists DEF KeptFits, PendingFits
<1>5. AffectedAreDropped'
  BY <1>1 DEF AffectedAreDropped
<1>6. QED BY <1>4, <1>5

(* An embedding that fails in the finally clause is the last: no row is    *)
(* left of the documents that leave the store.                             *)
LEMMA RowsEmbedFails ==
  ASSUME TypeOK, KeptFits, PendingFits, AffectedAreDropped, EmbedFails, mishaps' = {}
  PROVE  KeptFits' /\ PendingFits' /\ AffectedAreDropped'
<1>1. /\ pc' = "end" /\ UNCHANGED <<rows, staged, removed, pending, affected>>
      /\ store' = Removed(Affected(Len(affected)))
  BY DEF EmbedFails, EmbeddingRaises, Embedding, indexVars
<1>2. \A c : Kept(c)' = Kept(c)
  BY <1>1 DEF Kept
<1>3. ASSUME NEW c \in ChunkIds, Kept(c) # None PROVE Fits(c)'
  <2>1. c[1] \in Docs /\ Fits(c)
    BY <1>3 DEF ChunkIds, KeptFits
  <2>2. c[1] \notin Affected(Len(affected))
    BY <1>3, LenProperties DEF Affected, AffectedAreDropped, TypeOK
  <2>3. store'[c[1]] = store[c[1]]
    BY <1>1, <2>1, <2>2 DEF Removed
  <2>4. QED BY <2>1, <2>3 DEF Fits
<1>4. QED BY <1>1, <1>2, <1>3 DEF KeptFits, PendingFits, AffectedAreDropped

LEMMA RowsStep == TypeOK /\ IndexInvariant /\ RowsInvariant /\ [Next]_vars => RowsInvariant'
<1> SUFFICES ASSUME TypeOK, IndexInvariant, RowsInvariant, [Next]_vars,
                    site'.durable, mishaps' = {}
             PROVE  KeptFits' /\ PendingFits' /\ AffectedAreDropped'
  BY DEF RowsInvariant
<1>0. KeptFits /\ PendingFits /\ AffectedAreDropped /\ site.durable /\ mishaps = {}
  BY MishapsStay DEF RowsInvariant
<1>1. ASSUME UNCHANGED <<store, indexVars, pending, affected>>, pc = "end" => pc' = "end"
      PROVE  KeptFits' /\ PendingFits' /\ AffectedAreDropped'
  <2>1. \A c : Kept(c)' = Kept(c)
    BY <1>1 DEF Kept, indexVars
  <2>2. QED BY <1>0, <1>1, <2>1, RowsIdle DEF indexVars
<1>2. ASSUME rows' = Flushed(staged, removed, rows), staged' = NoRows, removed' = {},
             UNCHANGED store,
             \/ UNCHANGED <<pending, affected, pc>>
             \/ pending' = <<>> /\ affected' = <<>>
      PROVE  KeptFits' /\ PendingFits' /\ AffectedAreDropped'
  <2>1. \A c \in ChunkIds : Kept(c)' = Kept(c) /\ staged'[c] = None
    BY <1>2, FlushKeeps DEF NoRows
  <2>2. QED BY <1>0, <1>2, <2>1, RowsIdle
<1>3. CASE \/ SourceFails \/ Exhausted \/ NothingPending
           \/ \E d \in Docs :
                 \/ Unreadable(d) \/ Repeated(d) \/ Refused(d) \/ PutFails(d)
                 \/ \E v \in Versions : Skip(d, v)
  <2>1. UNCHANGED <<store, indexVars, pending, affected>> /\ pc # "end"
    BY <1>3
    DEF SourceFails, Exhausted, NothingPending, Unreadable, Repeated, Refused, PutFails,
        Skip, Offered
  <2>2. QED BY <1>1, <2>1
<1>4. CASE Start
  BY <1>1, <1>4 DEF Start, IndexInvariant, IdleIsFlushed
<1>5. CASE ServerDone \/ SearchFlushes
  BY <1>2, <1>5 DEF ServerDone, SearchFlushes, Flush, RunOver, runVars
<1>6. CASE CliDone
  <2>1. disk' = Flushed(staged, removed, rows)
    BY <1>6 DEF CliDone, Cut
  <2>2. /\ rows' = disk' /\ staged' = NoRows /\ removed' = {}
        /\ UNCHANGED store /\ pending' = <<>> /\ affected' = <<>>
    BY <1>0, <1>6 DEF CliDone, ProcessOver, RunOver
  <2>3. QED BY <1>2, <2>1, <2>2
<1>7. CASE Crash
  <2>1. pc = "idle" /\ UNCHANGED <<store, rows, disk>>
    BY <1>0, <1>7 DEF Crash, Cut, ProcessOver
  <2>2. UNCHANGED <<staged, removed, pending, affected>>
    BY <1>7, <2>1 DEF Crash, ProcessOver, RunOver, IndexInvariant, IdleIsFlushed
  <2>3. QED BY <1>1, <2>1, <2>2 DEF indexVars
<1>8. CASE DeleteFails
  BY <1>8 DEF DeleteFails
<1>9. CASE UNCHANGED vars \/ \E d \in Docs : \E v \in Revisions[d] \cup {None} : Edit(d, v)
  BY <1>1, <1>9 DEF vars, Edit, runVars
<1>10. QED
  BY <1>0, <1>3, <1>4, <1>5, <1>6, <1>7, <1>8, <1>9, RowsPut, RowsEmbed, RowsEmbedFails
  DEF Next, RunStep

(* NoOrphanRows: with a store that stays, as long as nothing is embedded   *)
(* twice and no process ends before what it did is written, the index has  *)
(* between runs no row of a chunk that the store does not have, whichever  *)
(* documents shrink, become blank or fail to be embedded at the end of a   *)
(* run, and whichever flush fails to write.                                *)
THEOREM RowsAreOfStoredChunks == Spec => []NoOrphanRows
<1>1. IndexInvariant /\ RowsInvariant => NoOrphanRows
  <2> SUFFICES ASSUME IndexInvariant, RowsInvariant, site.durable, mishaps = {}, pc = "idle",
                      NEW c \in ChunkIds, rows[c] # None
               PROVE  Fits(c)
    BY DEF NoOrphanRows, RowsAreStored, Fits
  <2>1. Kept(c) = rows[c]
    BY DEF IndexInvariant, IdleIsFlushed, Kept, Flushed, NoRows
  <2>2. QED BY <2>1 DEF RowsInvariant, KeptFits
<1>2. QED BY <1>1, IndexInit, IndexStep, RowsInit, RowsStep, TypeCorrect, PTL DEF Spec
=============================================================================
