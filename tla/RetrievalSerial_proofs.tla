------------------------- MODULE RetrievalSerial_proofs -------------------------
(***************************************************************************)
(* Proofs about Retrieval, for any documents, versions, policies, callers  *)
(* and limits: the types in every mode, what retrievals are owed that do   *)
(* not overlap an ingestion, and what several ingestions at once keep.     *)
(***************************************************************************)
EXTENDS Retrieval_proofs, RowOrder_proofs, SequenceTheorems

Few(list) == DOMAIN list \subseteq 1..Cardinality(ChunkIds)

IndexTyped ==
  /\ index \in [codes : Seq(Versions), ids : Seq(ChunkIds), acl : Seq(Policies)]
  /\ Few(index.codes) /\ Few(index.ids) /\ Few(index.acl)
  /\ staged \in Staged /\ removed \subseteq Docs

FlushesTyped ==
  /\ DOMAIN flushing = Threads
  /\ \A t \in Threads :
       flushing[t] \in {None} \cup Taken \cup {f \in Built : Few(f.ids) /\ Few(f.acl)}

Places == {"idle", "put", "delete", "drop", "document", "chunks", "remove", "embed",
           "vectors", "ids", "policies", "flush"}
Adding == {"vectors", "ids", "policies"}

WriterTyped ==
  /\ writer \in [at : Places, doc : Docs \cup {None}, version : Versions \cup {None}, todo : Seq(ChunkIds)]
  /\ writer.at # "idle" => writer.doc \in Docs /\ writer.version \in Versions
  /\ writer.at = "embed" => Length[writer.version] > 0
  /\ writer.at \in Adding => writer.todo # <<>>
  /\ flushing["writer"] # None => writer.at = "idle"

StoreTyped ==
  /\ documents \in [Docs -> Versions \cup {None}] /\ listed \in [Docs -> Seq(ChunkIds)]
  /\ during \subseteq Chunk
  /\ call.permitted \in Callers \cup {{}}

TypesInvariant == IndexTyped /\ FlushesTyped /\ WriterTyped /\ StoreTyped

-----------------------------------------------------------------------------
(* The store, document by document.  The one that is being put is another  *)
(* matter until its put has ended.                                         *)
Of(d) == {c \in ChunkIds : c.doc = d}
StoredAs(d, v) ==
  \A c \in Of(d) : chunks[c] = IF v # None /\ c.ordinal <= Length[v] THEN ChunkOf(v) ELSE None

PutEnded == writer.at \in Adding \cup {"put", "remove", "embed", "flush"}

StoreSteps ==
  /\ \A d \in Docs : writer.at = "idle" \/ d # writer.doc \/ PutEnded => StoredAs(d, documents[d])
  /\ writer.at \in {"delete", "drop"} =>
       /\ \A i \in DOMAIN writer.todo : writer.todo[i].doc = writer.doc
       /\ \A c \in Of(writer.doc) : chunks[c] # None => c \in ToSet(writer.todo)
  /\ writer.at = "document" => \A c \in Of(writer.doc) : chunks[c] = None
  /\ writer.at = "chunks" =>
       /\ \A i \in DOMAIN writer.todo :
            writer.todo[i].doc = writer.doc /\ writer.todo[i].ordinal <= Length[writer.version]
       /\ \A c \in Of(writer.doc) :
            IF c.ordinal <= Length[writer.version]
            THEN c \in ToSet(writer.todo) \/ chunks[c] = ChunkOf(writer.version)
            ELSE chunks[c] = None
  /\ writer.at \in Adding \cup {"chunks", "remove", "embed"} => documents[writer.doc] = writer.version
  /\ writer.at = "flush" => documents[writer.doc] \in {None, writer.version}

(* The memory store lists every chunk of a document, but for the one that  *)
(* is being put or deleted.                                                *)
Lists ==
  kind = "memory" =>
    \A d \in Docs :
      /\ \A i \in DOMAIN listed[d] : listed[d][i].doc = d
      /\ writer.at = "idle" \/ d # writer.doc \/ PutEnded =>
           \A c \in Of(d) : chunks[c] # None => c \in ToSet(listed[d])

-----------------------------------------------------------------------------
(* The index beside the store, when retrievals are serial.                 *)
Holds(codes, ids, c, v) == \E r \in DOMAIN ids : ids[r] = c /\ codes[r] = v

Good(codes, ids, acl) ==
  /\ DOMAIN codes = DOMAIN ids /\ DOMAIN acl = DOMAIN ids
  /\ \A r \in DOMAIN ids : acl[r] = PolicyOf[codes[r]]
  /\ \A q, r \in DOMAIN ids : ids[q] = ids[r] => q = r

(* What a flush is to make of the index. *)
Will(s, gone, c, v) ==
  \/ Holds(s.vectors, s.ids, c, v)
  \/ Holds(index.codes, index.ids, c, v) /\ c.doc \notin gone /\ c \notin ToSet(s.ids)

StoredVersion(c, v) == chunks[c] # None /\ chunks[c].text = v
Current(c, v) == StoredVersion(c, v) /\ ~Waits(c.doc)

(* Between flushes: the rows of the other documents are those of the       *)
(* store; the rows of this one are to go, and its chunks are being staged. *)
Own(c) == writer.at # "idle" /\ c.doc = writer.doc

RowsAtRest ==
  /\ Good(index.codes, index.ids, index.acl)
  /\ \A c \in ChunkIds, v \in Versions :
       ~Own(c) => (Holds(index.codes, index.ids, c, v) <=> StoredVersion(c, v))
  /\ writer.at \in Adding \cup {"embed", "drop", "flush"} =>
       \A r \in DOMAIN index.ids : index.ids[r].doc = writer.doc => writer.doc \in removed
  /\ \A d \in removed : writer.at # "idle" /\ d = writer.doc

Batch ==
  LET n == Len(staged.policies) IN
  /\ writer.at \notin Adding \cup {"flush"} => staged = NoStaged
  /\ writer.at \in Adding \cup {"flush"} =>
       /\ \A i \in DOMAIN staged.ids : staged.ids[i] = [doc |-> writer.doc, ordinal |-> i]
       /\ \A i \in DOMAIN staged.vectors : staged.vectors[i] = writer.version
       /\ \A i \in DOMAIN staged.policies : staged.policies[i] = PolicyOf[writer.version]
       /\ Len(staged.vectors) = IF writer.at \in {"ids", "policies"} THEN n + 1 ELSE n
       /\ Len(staged.ids) = IF writer.at = "policies" THEN n + 1 ELSE n
  /\ writer.at \in Adding =>
       /\ n + Len(writer.todo) = Length[writer.version]
       /\ \A i \in DOMAIN writer.todo : writer.todo[i] = [doc |-> writer.doc, ordinal |-> n + i]
  /\ writer.at = "flush" =>
       n = IF documents[writer.doc] = None THEN 0 ELSE Length[writer.version]

FlushGoesRight(f) ==
  /\ f.stage = "build" =>
       /\ Good(index.codes, index.ids, index.acl) /\ Good(f.staged.vectors, f.staged.ids, f.staged.policies)
       /\ \A c \in ChunkIds, v \in Versions : Will(f.staged, f.removed, c, v) <=> Current(c, v)
  /\ f.stage = "ids" =>
       /\ Good(index.codes, f.ids, f.acl)
       /\ \A c \in ChunkIds, v \in Versions : Holds(index.codes, f.ids, c, v) <=> Current(c, v)
  /\ f.stage = "acl" =>
       /\ Good(index.codes, index.ids, f.acl)
       /\ \A c \in ChunkIds, v \in Versions : Holds(index.codes, index.ids, c, v) <=> Current(c, v)

SerialIndex ==
  /\ call.at # "idle" => Resting /\ flushing["writer"] = None
  /\ flushing["reader"] # None => call.at = "rows"
  /\ \/ (\A t \in Threads : flushing[t] = None) /\ RowsAtRest /\ Batch
     \/ /\ \E t \in Threads : flushing[t] # None /\ FlushGoesRight(flushing[t])
        /\ staged = NoStaged /\ removed = {}

-----------------------------------------------------------------------------
(* A serial retrieval. *)
Wanted == {c \in ChunkIds : chunks[c] # None /\ MayRead(chunks[c].text) /\ ~Waits(c.doc)}
Enough(H) == H \subseteq Wanted /\ (H = Wanted \/ Cardinality(H) >= call.k)
Listed == {d \in Docs : documents[d] # None /\ explain(PolicyOf[documents[d]], S).admitted}
IdsOf(X) == {x.id : x \in X}
Before == {"catalog", "embed", "search", "rows", "scan", "scanning"}
Searching == {"rows", "scan", "scanning", "translate", "translating"}

SerialCall ==
  /\ call.k \in Nat \ {0}
  /\ call.fetched \cup call.shown \subseteq Stored(chunks)
  /\ call.at \in Searching => staged = NoStaged /\ removed = {}
  /\ call.at \in {"scan", "scanning"} => call.rows = PermittedRows /\ call.rows # {}
  /\ call.at \in Before => call.hits = <<>>
  /\ call.at \in Before \cup Searching \/ (call.at = "fetch" /\ kind = "postgres") => call.fetched = {}
  /\ call.at \in {"translate", "translating"} =>
       /\ call.todo \in Seq(DOMAIN index.ids) /\ call.todo # <<>> /\ call.hits \in Seq(ChunkIds)
       /\ Enough(ToSet(call.hits) \cup {index.ids[r] : r \in ToSet(call.todo)})
  /\ call.at = "fetch" =>
       /\ call.hits \in Seq(ChunkIds) /\ call.hits # <<>>
       /\ Enough(ToSet(call.hits) \cup IdsOf(call.fetched))
  /\ call.at = "check" => Enough(IdsOf(call.fetched))
  /\ call.at = "rank" => Enough(IdsOf(call.shown))
  /\ call.at = "done" => Cardinality(call.result) = call.k \/ Wanted \subseteq IdsOf(call.result)
  /\ \A v \in call.scanned : v \in Versions /\ MayRead(v)
  /\ call.visible # None => call.visible = Listed

Leaky == call.at \notin Searching /\ call.scanned = {}

ModeTyped == mode \in {"serial", "leaky", "threads"}
SerialInvariant == mode = "serial" => SerialIndex /\ SerialCall
LeakyInvariant == mode = "leaky" => Leaky

-----------------------------------------------------------------------------
(* Chunk ids: of finitely many documents, up to the length of the longest  *)
(* version.                                                                *)
Longest == Max({Length[v] : v \in Versions})

LEMMA LongestIs == Longest \in Nat /\ \A v \in Versions : Length[v] \in Nat /\ Length[v] <= Longest
<1> DEFINE L == {Length[v] : v \in Versions}
<1>1. L \in SUBSET Int /\ L # {} /\ L \subseteq Nat
  BY RetrievalAssumption
<1>2. IsFiniteSet(L)
  <2> DEFINE f == [v \in Versions |-> Length[v]]
  <2>1. f \in Surjection(Versions, L)
    BY DEF Surjection
  <2> HIDE DEF L, f
  <2>2. QED BY <2>1, RetrievalAssumption, FS_Surjection
<1>3. \A v \in Versions : Length[v] \in L
  OBVIOUS
<1>4. Longest = CHOOSE x \in L : \A y \in L : x >= y
  BY DEF Longest, Max
<1> HIDE DEF L
<1>5. PICK g \in L : \A i \in L : i <= g
  BY <1>1, <1>2, HasEnds
<1>6. \A y \in L : g >= y
  BY <1>1, <1>5
<1>7. Longest \in L /\ \A y \in L : Longest >= y
  BY <1>4, <1>6
<1>8. \A v \in Versions : Length[v] \in Nat /\ Length[v] <= Longest
  BY <1>1, <1>3, <1>7
<1>9. QED BY <1>1, <1>7, <1>8

LEMMA ChunkIdsAre ==
  /\ ChunkIds = [doc : Docs, ordinal : 1..Longest]
  /\ IsFiniteSet(ChunkIds) /\ Cardinality(ChunkIds) \in Nat
<1>1. ChunkIds = [doc : Docs, ordinal : 1..Longest]
  BY DEF ChunkIds, Longest
<1> DEFINE n == Longest
           P == Docs \X (1..n)
           f == [p \in P |-> [doc |-> p[1], ordinal |-> p[2]]]
<1>2. IsFiniteSet(1..n)
  <2>1. 1 \in Int /\ n \in Int
    BY LongestIs
  <2> HIDE DEF n
  <2>2. QED BY <2>1, FS_Interval
<1>3. IsFiniteSet(P)
  <2> DEFINE I == 1..n
  <2>1. IsFiniteSet(Docs) /\ IsFiniteSet(I)
    BY <1>2, RetrievalAssumption
  <2> HIDE DEF I
  <2>2. IsFiniteSet(Docs \X I)
    BY <2>1, FS_Product
  <2>3. QED BY <2>2 DEF I
<1>4. f \in Surjection(P, ChunkIds)
  <2>1. \A p \in P : f[p] \in ChunkIds
    BY <1>1
  <2>2. ASSUME NEW c \in ChunkIds PROVE \E p \in P : f[p] = c
    <3>1. c = [doc |-> c.doc, ordinal |-> c.ordinal] /\ <<c.doc, c.ordinal>> \in P
      BY <1>1
    <3>2. f[<<c.doc, c.ordinal>>] = [doc |-> c.doc, ordinal |-> c.ordinal]
      BY <3>1
    <3>3. QED BY <3>1, <3>2
  <2> HIDE DEF f, P
  <2>3. f \in [P -> ChunkIds]
    BY <2>1 DEF f
  <2>4. QED BY <2>2, <2>3 DEF Surjection
<1> HIDE DEF f, P
<1>5. IsFiniteSet(ChunkIds)
  BY <1>3, <1>4, FS_Surjection
<1>6. Cardinality(ChunkIds) \in Nat
  BY <1>5, FS_CardinalityType
<1>7. QED BY <1>1, <1>5, <1>6

LEMMA ChunksOfAre ==
  ASSUME NEW d \in Docs, NEW v \in Versions
  PROVE  /\ ChunksOf(d, v) \in Seq(ChunkIds)
         /\ Len(ChunksOf(d, v)) = Length[v] /\ DOMAIN ChunksOf(d, v) = 1..Length[v]
         /\ \A i \in 1..Length[v] : ChunksOf(d, v)[i] = [doc |-> d, ordinal |-> i]
         /\ \A c \in ChunkIds : c \in ToSet(ChunksOf(d, v)) <=> c.doc = d /\ c.ordinal <= Length[v]
<1> DEFINE s == ChunksOf(d, v)
           n == Length[v]
<1>1. n \in Nat /\ n <= Longest /\ Longest \in Nat
  BY LongestIs
<1>2. DOMAIN s = 1..n /\ \A i \in 1..n : s[i] = [doc |-> d, ordinal |-> i]
  BY DEF ChunksOf
<1>3. \A i \in 1..n : [doc |-> d, ordinal |-> i] \in ChunkIds
  <2>1. \A i \in 1..n : i \in 1..Longest
    BY <1>1
  <2>2. QED BY <2>1, ChunkIdsAre
<1>4. s \in [1..n -> ChunkIds]
  BY <1>3 DEF ChunksOf
<1> HIDE DEF s, n
<1>5. s \in Seq(ChunkIds) /\ Len(s) = n
  BY <1>1, <1>4, SeqDef, LenProperties
<1>6. ASSUME NEW c \in ChunkIds
      PROVE  c \in ToSet(s) <=> c.doc = d /\ c.ordinal <= n
  <2>1. c = [doc |-> c.doc, ordinal |-> c.ordinal] /\ c.ordinal \in 1..Longest
    BY ChunkIdsAre
  <2>2. ASSUME c \in ToSet(s) PROVE c.doc = d /\ c.ordinal <= n
    <3>1. PICK i \in DOMAIN s : c = s[i]
      BY <2>2 DEF ToSet
    <3>2. i \in 1..n /\ c = [doc |-> d, ordinal |-> i]
      BY <1>2, <3>1
    <3>3. QED BY <1>1, <3>2
  <2>3. ASSUME c.doc = d, c.ordinal <= n PROVE c \in ToSet(s)
    <3>1. c.ordinal \in 1..n
      BY <1>1, <2>1, <2>3
    <3>2. s[c.ordinal] = c
      BY <1>2, <2>1, <2>3, <3>1
    <3>3. QED BY <1>2, <3>1, <3>2 DEF ToSet
  <2>4. QED BY <2>2, <2>3
<1>7. QED BY <1>2, <1>5, <1>6 DEF s, n

LEMMA NewChunksAre ==
  ASSUME writer.doc \in Docs, writer.version \in Versions
  PROVE  NewChunks = ChunksOf(writer.doc, writer.version)
BY DEF NewChunks, ChunksOf

(* None is none of what it stands beside. *)
LEMMA NoneIsNone ==
  /\ None \notin Versions /\ None \notin Taken /\ None \notin Built
  /\ \A v \in Versions : ChunkOf(v) # None /\ ChunkOf(v) \in [text : Versions, policy : Policies]
<1>1. /\ None \notin Versions /\ None \notin Taken /\ None \notin Built
      /\ None \notin [text : Versions, policy : Policies]
  BY RetrievalAssumption
<1>2. \A v \in Versions : PolicyOf[v] \in Policies
  BY RetrievalAssumption
<1>3. QED BY <1>1, <1>2 DEF ChunkOf

-----------------------------------------------------------------------------
(* The positions a flush keeps: of each chunk id the last one, if it is    *)
(* staged or its document is not to go.                                    *)
Keep(f, i) ==
  /\ \A j \in DOMAIN AllIds(f.staged) : j > i => AllIds(f.staged)[j] # AllIds(f.staged)[i]
  /\ ~(OldRow(i) /\ AllIds(f.staged)[i].doc \in f.removed)
KeptSet(f) == {i \in DOMAIN AllIds(f.staged) : Keep(f, i)}

LEMMA AllIdsAre ==
  ASSUME index.ids \in Seq(ChunkIds), NEW s \in Staged
  PROVE  LET all == AllIds(s)
             old == Len(index.ids)
             new == Len(s.ids) IN
         /\ old \in Nat /\ new \in Nat /\ all \in Seq(ChunkIds)
         /\ DOMAIN all = 1..(old + new) /\ DOMAIN index.ids = 1..old /\ DOMAIN s.ids = 1..new
         /\ \A i \in DOMAIN all : i \in Int /\ (OldRow(i) <=> i <= old)
         /\ \A i \in 1..old : i \in DOMAIN all /\ all[i] = index.ids[i]
         /\ \A i \in 1..new : old + i \in DOMAIN all /\ ~OldRow(old + i) /\ all[old + i] = s.ids[i]
                              /\ (old + i) - old = i
         /\ \A i \in DOMAIN all : ~OldRow(i) =>
              i - old \in 1..new /\ all[i] = s.ids[i - old] /\ old + (i - old) = i
<1> DEFINE olds == index.ids
           news == s.ids
           old == Len(index.ids)
           new == Len(s.ids)
           all == AllIds(s)
<1>1. olds \in Seq(ChunkIds) /\ news \in Seq(ChunkIds) /\ all = olds \o news
  BY DEF Staged, AllIds
<1>2. old \in Nat /\ new \in Nat /\ DOMAIN olds = 1..old /\ DOMAIN news = 1..new
  BY <1>1, LenProperties
<1>3. /\ all \in Seq(ChunkIds) /\ Len(all) = old + new
      /\ \A i \in 1..(old + new) : all[i] = IF i <= old THEN olds[i] ELSE news[i - old]
  <2> HIDE DEF olds, news
  <2>1. /\ olds \o news \in Seq(ChunkIds) /\ Len(olds \o news) = Len(olds) + Len(news)
        /\ \A i \in 1..(Len(olds) + Len(news)) :
             (olds \o news)[i] = IF i <= Len(olds) THEN olds[i] ELSE news[i - Len(olds)]
    BY <1>1, ConcatProperties
  <2>2. QED BY <1>1, <2>1 DEF olds, news
<1>4. DOMAIN all = 1..(old + new)
  BY <1>3, LenProperties
<1>5. \A i : OldRow(i) <=> i <= old
  BY DEF OldRow
<1> HIDE DEF all, old, new, olds, news
<1>6. \A i \in DOMAIN all : i \in Int /\ (OldRow(i) <=> i <= old)
  BY <1>2, <1>4, <1>5
<1>7. ASSUME NEW i \in 1..old PROVE i \in DOMAIN all /\ all[i] = olds[i]
  <2>1. i \in 1..(old + new) /\ i <= old
    BY <1>2
  <2>2. QED BY <1>3, <1>4, <2>1
<1>8. ASSUME NEW i \in 1..new
      PROVE  /\ old + i \in DOMAIN all /\ ~OldRow(old + i) /\ all[old + i] = news[i]
             /\ (old + i) - old = i
  <2>1. old + i \in 1..(old + new) /\ ~(old + i <= old) /\ (old + i) - old = i
    BY <1>2
  <2>2. all[old + i] = news[(old + i) - old]
    BY <1>3, <2>1
  <2>3. QED BY <1>4, <1>5, <2>1, <2>2
<1>9. ASSUME NEW i \in DOMAIN all, ~OldRow(i)
      PROVE  i - old \in 1..new /\ all[i] = news[i - old] /\ old + (i - old) = i
  <2>1. i \in 1..(old + new) /\ ~(i <= old)
    BY <1>4, <1>5, <1>9
  <2>2. QED BY <1>2, <1>3, <2>1
<1>10. QED BY <1>2, <1>3, <1>4, <1>6, <1>7, <1>8, <1>9 DEF all, old, new, olds, news

LEMMA KeptLists ==
  ASSUME index.ids \in Seq(ChunkIds), NEW f, f.staged \in Staged
  PROVE  /\ Cardinality(KeptSet(f)) \in Nat /\ DOMAIN Kept(f) = 1..Cardinality(KeptSet(f))
         /\ \A i \in KeptSet(f) : \E n \in DOMAIN Kept(f) : Kept(f)[n] = i
         /\ \A n \in DOMAIN Kept(f) : Kept(f)[n] \in DOMAIN AllIds(f.staged) /\ Keep(f, Kept(f)[n])
         /\ \A m, n \in DOMAIN Kept(f) :
              AllIds(f.staged)[Kept(f)[m]] = AllIds(f.staged)[Kept(f)[n]] => m = n
<1> DEFINE K == KeptSet(f)
           kept == Kept(f)
           all == AllIds(f.staged)
           len == Len(index.ids) + Len(f.staged.ids)
<1>1. DOMAIN all = 1..len /\ len \in Nat
  <2> DEFINE new == f.staged
  <2>1. new \in Staged
    OBVIOUS
  <2> HIDE DEF new
  <2>2. DOMAIN AllIds(new) = 1..(Len(index.ids) + Len(new.ids))
    BY <2>1, AllIdsAre
  <2>3. Len(index.ids) \in Nat /\ Len(new.ids) \in Nat
    BY <2>1, AllIdsAre
  <2>4. DOMAIN all = 1..len
    BY <2>2, Zenon DEF new
  <2>5. len \in Nat
    <3> DEFINE a == Len(index.ids)
               b == Len(new.ids)
    <3> HIDE DEF a, b
    <3>1. a \in Nat /\ b \in Nat
      BY <2>3 DEF a, b
    <3>2. a + b \in Nat
      BY <3>1
    <3>3. QED BY <3>2, Zenon DEF a, b, new
  <2>6. QED BY <2>4, <2>5
<1>2. IsFiniteSet(DOMAIN all)
  <2>1. 1 \in Int /\ len \in Int
    BY <1>1
  <2> HIDE DEF len
  <2>2. QED BY <1>1, <2>1, FS_Interval
<1>3. K \in SUBSET (DOMAIN all)
  BY DEF KeptSet
<1>4. K \in SUBSET Int /\ IsFiniteSet(K)
  <2> HIDE DEF K, all, len
  <2>1. DOMAIN all \subseteq Int
    BY <1>1
  <2>2. QED BY <1>2, <1>3, <2>1, FS_Subset
<1>5. kept = InOrder(K)
  BY DEF Kept, KeptSet, Keep
<1> DEFINE n == Cardinality(K)
<1>6. /\ n \in Nat /\ kept \in [1..n -> K]
      /\ \A j, k \in 1..n : j < k => kept[j] < kept[k]
      /\ \A i \in K : \E k \in 1..n : kept[k] = i
  <2> HIDE DEF K
  <2>1. QED BY <1>4, <1>5, InOrderLists
<1>7. \A k \in 1..n : kept[k] \in DOMAIN all /\ Keep(f, kept[k])
  <2> HIDE DEF n, kept
  <2>1. QED BY <1>6 DEF KeptSet
<1>8. ASSUME NEW j \in 1..n, NEW k \in 1..n, all[kept[j]] = all[kept[k]]
      PROVE  j = k
  <2>1. /\ \A i \in DOMAIN all : i > kept[j] => all[i] # all[kept[j]]
        /\ \A i \in DOMAIN all : i > kept[k] => all[i] # all[kept[k]]
    BY <1>7 DEF Keep
  <2> HIDE DEF K, all, kept, len, n
  <2>2. kept[j] \in DOMAIN all /\ kept[k] \in DOMAIN all /\ kept[j] \in Int /\ kept[k] \in Int
    BY <1>1, <1>7
  <2>3. kept[j] = kept[k]
    BY <1>8, <2>1, <2>2
  <2>4. ~(j < k) /\ ~(k < j)
    BY <1>6, <2>2, <2>3
  <2>5. QED BY <1>6, <2>4
<1> HIDE DEF n
<1>9. DOMAIN kept = 1..n
  BY <1>6
<1>10. QED BY <1>6, <1>7, <1>8, <1>9 DEF n

(* What a flush makes of the arrays. *)
KeptIds(f) == [n \in DOMAIN Kept(f) |-> AllIds(f.staged)[Kept(f)[n]]]

LEMMA KeptIdsAre ==
  ASSUME index.ids \in Seq(ChunkIds), NEW f, f.staged \in Staged
  PROVE  /\ KeptIds(f) \in Seq(ChunkIds) /\ Few(KeptIds(f)) /\ DOMAIN KeptIds(f) = DOMAIN Kept(f)
         /\ DOMAIN Kept(f) \subseteq 1..Cardinality(ChunkIds)
         /\ \A m, n \in DOMAIN KeptIds(f) : KeptIds(f)[m] = KeptIds(f)[n] => m = n
<1> DEFINE n == Cardinality(KeptSet(f))
           all == AllIds(f.staged)
           ids == KeptIds(f)
<1>1. n \in Nat /\ DOMAIN Kept(f) = 1..n /\ DOMAIN ids = 1..n
  BY KeptLists DEF KeptIds
<1>2. \A k \in 1..n : Kept(f)[k] \in DOMAIN all /\ all \in Seq(ChunkIds)
  BY <1>1, KeptLists, AllIdsAre
<1>3. \A k \in 1..n : all[Kept(f)[k]] \in ChunkIds
  <2> HIDE DEF all, n
  <2>1. ASSUME NEW k \in 1..n PROVE all[Kept(f)[k]] \in ChunkIds
    <3>1. Kept(f)[k] \in 1..Len(all) /\ all \in Seq(ChunkIds)
      BY <1>2, LenProperties
    <3>2. QED BY <3>1, ElementOfSeq
  <2>2. QED BY <2>1
<1>4. ids \in [1..n -> ChunkIds]
  BY <1>1, <1>3 DEF KeptIds
<1>5. \A j, k \in 1..n : ids[j] = ids[k] => j = k
  <2>1. \A j, k \in DOMAIN Kept(f) : all[Kept(f)[j]] = all[Kept(f)[k]] => j = k
    BY KeptLists
  <2>2. \A k \in 1..n : ids[k] = all[Kept(f)[k]]
    BY <1>1 DEF KeptIds
  <2>3. QED BY <1>1, <2>1, <2>2
<1> HIDE DEF n, ids
<1>6. ids \in Seq(ChunkIds)
  BY <1>1, <1>4, SeqDef
<1>7. n <= Cardinality(ChunkIds)
  <2>1. ids \in Injection(1..n, ChunkIds)
    BY <1>4, <1>5 DEF Injection, IsInjective
  <2>2. IsFiniteSet(1..n) /\ Cardinality(1..n) = n
    <3>1. 1 \in Int /\ n \in Int /\ (1 > n => n = 0)
      BY <1>1
    <3>2. QED BY <1>1, <3>1, FS_Interval
  <2>3. Cardinality(1..n) <= Cardinality(ChunkIds)
    BY <2>1, <2>2, ChunkIdsAre, FS_Injection
  <2>4. QED BY <2>2, <2>3
<1>8. 1..n \subseteq 1..Cardinality(ChunkIds)
  BY <1>1, <1>7, ChunkIdsAre
<1>9. QED BY <1>1, <1>5, <1>6, <1>8 DEF Few, n, ids

LEMMA RebuiltTyped ==
  ASSUME index.ids \in Seq(ChunkIds), NEW f, f.staged \in Staged,
         NEW X, NEW old \in Seq(X), NEW new \in Seq(X),
         \A n \in DOMAIN Kept(f) :
            IF OldRow(Kept(f)[n]) THEN Kept(f)[n] <= Len(old)
            ELSE Kept(f)[n] - Len(index.ids) <= Len(new)
  PROVE  /\ Rebuilt(f, old, new) \in Seq(X) /\ DOMAIN Rebuilt(f, old, new) = DOMAIN Kept(f)
         /\ Few(Rebuilt(f, old, new))
<1> DEFINE kept == Kept(f)
           n == Cardinality(KeptSet(f))
           len == Len(index.ids)
<1>1. n \in Nat /\ DOMAIN kept = 1..n /\ DOMAIN kept \subseteq 1..Cardinality(ChunkIds)
  BY KeptLists, KeptIdsAre
<1>2. \A k \in 1..n : /\ kept[k] \in DOMAIN AllIds(f.staged)
                      /\ kept[k] \in Int /\ kept[k] >= 1
                      /\ ~OldRow(kept[k]) => kept[k] - len >= 1
                      /\ len \in Nat
  <2>1. \A k \in 1..n : kept[k] \in DOMAIN AllIds(f.staged)
    BY <1>1, KeptLists
  <2>2. \A i \in DOMAIN AllIds(f.staged) : i \in Int /\ i >= 1 /\ (~OldRow(i) => i - len >= 1) /\ len \in Nat
    <3> DEFINE s == f.staged
    <3>1. s \in Staged
      OBVIOUS
    <3> HIDE DEF s, n, kept, len
    <3>2. /\ DOMAIN AllIds(s) = 1..(Len(index.ids) + Len(s.ids))
          /\ \A i \in DOMAIN AllIds(s) : i \in Int /\ (~OldRow(i) => i - Len(index.ids) \in 1..Len(s.ids))
          /\ Len(index.ids) \in Nat /\ Len(s.ids) \in Nat
      BY <3>1, AllIdsAre
    <3>3. \A i \in DOMAIN AllIds(s) : i \in Int /\ i >= 1 /\ (~OldRow(i) => i - len >= 1) /\ len \in Nat
      <4> DEFINE D == DOMAIN AllIds(s)
                 b == Len(s.ids)
      <4>1. /\ D = 1..(len + b) /\ len \in Nat /\ b \in Nat
            /\ \A i \in D : i \in Int /\ (~OldRow(i) => i - len \in 1..b)
        BY <3>2 DEF len
      <4> HIDE DEF D, b
      <4>2. \A i \in D : i >= 1 /\ (~OldRow(i) => i - len >= 1)
        BY <4>1
      <4>3. QED BY <4>1, <4>2 DEF D
    <3>4. QED BY <3>3 DEF s
  <2> HIDE DEF kept, n, len
  <2>3. QED BY <2>1, <2>2
<1> HIDE DEF kept, n, len
<1>3. Len(old) \in Nat /\ Len(new) \in Nat
  BY LenProperties
<1>4. ASSUME NEW k \in 1..n
      PROVE  IF OldRow(kept[k]) THEN old[kept[k]] \in X ELSE new[kept[k] - len] \in X
  <2>1. CASE OldRow(kept[k])
    <3>1. kept[k] \in 1..Len(old)
      BY <1>1, <1>2, <1>3, <2>1 DEF kept
    <3>2. QED BY <2>1, <3>1, ElementOfSeq
  <2>2. CASE ~OldRow(kept[k])
    <3>1. kept[k] - len <= Len(new)
      BY <1>1, <2>2 DEF kept, len
    <3>2. kept[k] - len \in 1..Len(new)
      BY <1>2, <1>3, <2>2, <3>1
    <3>3. QED BY <2>2, <3>2, ElementOfSeq
  <2>3. QED BY <2>1, <2>2
<1>5. Rebuilt(f, old, new) \in [1..n -> X]
  BY <1>1, <1>4 DEF Rebuilt, kept, len
<1>6. QED BY <1>1, <1>5, SeqDef DEF Few, kept

-----------------------------------------------------------------------------
(* The types. *)
LEMMA StoredAreChunks ==
  ASSUME StoreOK
  PROVE  Stored(chunks) \subseteq Chunk
<1> SUFFICES ASSUME NEW x \in Stored(chunks) PROVE x \in Chunk
  OBVIOUS
<1>1. PICK c \in ChunkIds : chunks[c] # None /\ x = [id |-> c, text |-> chunks[c].text, policy |-> chunks[c].policy]
  BY DEF Stored
<1>2. PICK v \in Versions : chunks[c] = ChunkOf(v)
  BY <1>1 DEF StoreOK
<1>3. chunks[c].text = v /\ chunks[c].policy = PolicyOf[v] /\ PolicyOf[v] \in Policies
  BY <1>2, RetrievalAssumption DEF ChunkOf
<1>4. QED BY <1>1, <1>3 DEF Chunk

LEMMA Stages ==
  ASSUME FlushesTyped, NEW t \in Threads, flushing[t] # None
  PROVE  /\ flushing[t].stage = "build" \/ flushing[t].stage = "ids" \/ flushing[t].stage = "acl"
         /\ flushing[t].stage = "build" => flushing[t] \in Taken
         /\ flushing[t].stage # "build" =>
              flushing[t] \in Built /\ Few(flushing[t].ids) /\ Few(flushing[t].acl)
<1>1. flushing[t] \in Taken \/ (flushing[t] \in Built /\ Few(flushing[t].ids) /\ Few(flushing[t].acl))
  BY DEF FlushesTyped
<1>2. \A f \in Taken : f.stage = "build"
  BY DEF Taken
<1>3. \A f \in Built : f.stage = "ids" \/ f.stage = "acl"
  BY DEF Built
<1>4. QED BY <1>1, <1>2, <1>3

LEMMA NoStagedTyped ==
  /\ NoStaged \in Staged
  /\ NoStaged.ids = <<>> /\ NoStaged.vectors = <<>> /\ NoStaged.policies = <<>>
  /\ DOMAIN NoStaged.ids = {} /\ DOMAIN NoStaged.vectors = {} /\ DOMAIN NoStaged.policies = {}
<1>1. <<>> \in Seq(Versions) /\ <<>> \in Seq(ChunkIds) /\ <<>> \in Seq(Policies) /\ DOMAIN <<>> = {}
  OBVIOUS
<1>2. QED BY <1>1 DEF NoStaged, Staged

LEMMA TakeTyped ==
  ASSUME IndexTyped, FlushesTyped, NEW t \in Threads, FlushTake(t)
  PROVE  /\ IndexTyped' /\ FlushesTyped'
         /\ \A u \in Threads : u # t => flushing'[u] = flushing[u]
         /\ flushing'[t] = [stage |-> "build", staged |-> staged, removed |-> removed]
         /\ flushing'[t] \in Taken /\ flushing'[t] # None
<1>1. [stage |-> "build", staged |-> staged, removed |-> removed] \in Taken
  BY DEF IndexTyped, Taken
<1>2. IndexTyped'
  <2>1. index' = index /\ staged' \in Staged /\ removed' \subseteq Docs
    BY NoStagedTyped DEF FlushTake
  <2>2. QED BY <2>1 DEF IndexTyped, Few
<1>3. flushing' = [flushing EXCEPT ![t] = [stage |-> "build", staged |-> staged, removed |-> removed]]
  BY DEF FlushTake
<1>4. FlushesTyped'
  BY <1>1, <1>3 DEF FlushesTyped, Few
<1>5. QED BY <1>1, <1>2, <1>3, <1>4, NoneIsNone DEF FlushesTyped

LEMMA FlushTyped ==
  ASSUME IndexTyped, FlushesTyped, NEW t \in Threads, FlushStep(t) \/ FlushRaises(t)
  PROVE  /\ IndexTyped' /\ FlushesTyped' /\ flushing[t] # None
         /\ \A u \in Threads : u # t => flushing'[u] = flushing[u]
<1> DEFINE f == flushing[t]
<1>1. CASE FlushBuild(t)
  <2>1. f # None /\ f \in Taken /\ Buildable(f) /\ UNCHANGED <<staged, removed>>
    BY <1>1, Stages DEF FlushBuild
  <2>2. f.staged \in Staged /\ f.staged.vectors \in Seq(Versions) /\ f.staged.policies \in Seq(Policies)
    BY <2>1 DEF Taken, Staged
  <2>3. index.codes \in Seq(Versions) /\ index.acl \in Seq(Policies) /\ index.ids \in Seq(ChunkIds)
    BY DEF IndexTyped
  <2> DEFINE codes == Rebuilt(f, index.codes, f.staged.vectors)
             acl == Rebuilt(f, index.acl, f.staged.policies)
  <2>4. codes \in Seq(Versions) /\ Few(codes)
    <3>1. \A n \in DOMAIN Kept(f) :
            IF OldRow(Kept(f)[n]) THEN Kept(f)[n] <= Len(index.codes)
            ELSE Kept(f)[n] - Len(index.ids) <= Len(f.staged.vectors)
      BY <2>1 DEF Buildable
    <3> HIDE DEF f
    <3>2. QED BY <2>2, <2>3, <3>1, RebuiltTyped
  <2>5. acl \in Seq(Policies) /\ Few(acl)
    <3>1. \A n \in DOMAIN Kept(f) :
            IF OldRow(Kept(f)[n]) THEN Kept(f)[n] <= Len(index.acl)
            ELSE Kept(f)[n] - Len(index.ids) <= Len(f.staged.policies)
      BY <2>1 DEF Buildable
    <3> HIDE DEF f
    <3>2. QED BY <2>2, <2>3, <3>1, RebuiltTyped
  <2>6. KeptIds(f) \in Seq(ChunkIds) /\ Few(KeptIds(f))
    BY <2>2, <2>3, KeptIdsAre
  <2> DEFINE g == [stage |-> "ids", ids |-> KeptIds(f), acl |-> acl]
  <2>7. flushing' = [flushing EXCEPT ![t] = g] /\ index' = [index EXCEPT !.codes = codes]
    BY <1>1 DEF FlushBuild, KeptIds
  <2> HIDE DEF codes, acl
  <2>8. g \in Built /\ Few(g.ids) /\ Few(g.acl)
    BY <2>5, <2>6 DEF Built
  <2>9. IndexTyped'
    BY <2>1, <2>4, <2>7 DEF IndexTyped, Few
  <2> HIDE DEF g, f
  <2>10. FlushesTyped' /\ \A u \in Threads : u # t => flushing'[u] = flushing[u]
    BY <2>7, <2>8 DEF FlushesTyped, Few
  <2>11. QED BY <2>1, <2>9, <2>10 DEF f
<1>2. CASE FlushIds(t)
  <2>1. f # None /\ f \in Built /\ Few(f.ids) /\ Few(f.acl) /\ UNCHANGED <<staged, removed>>
    BY <1>2, Stages DEF FlushIds
  <2>2. index' = [index EXCEPT !.ids = f.ids] /\ flushing' = [flushing EXCEPT ![t].stage = "acl"]
    BY <1>2 DEF FlushIds
  <2> DEFINE g == [f EXCEPT !.stage = "acl"]
  <2>3. g \in Built /\ Few(g.ids) /\ Few(g.acl)
    BY <2>1 DEF Built
  <2>4. f.ids \in Seq(ChunkIds)
    BY <2>1 DEF Built
  <2>5. IndexTyped'
    BY <2>1, <2>2, <2>4 DEF IndexTyped, Few
  <2>6. flushing' = [flushing EXCEPT ![t] = g]
    BY <2>2
  <2> HIDE DEF g, f
  <2>7. FlushesTyped' /\ \A u \in Threads : u # t => flushing'[u] = flushing[u]
    BY <2>3, <2>6 DEF FlushesTyped, Few
  <2>8. QED BY <2>1, <2>5, <2>7 DEF f
<1>3. CASE FlushAcl(t)
  <2>1. f # None /\ f \in Built /\ Few(f.acl) /\ UNCHANGED <<staged, removed>>
    BY <1>3, Stages DEF FlushAcl
  <2>2. index' = [index EXCEPT !.acl = f.acl] /\ flushing' = [flushing EXCEPT ![t] = None]
    BY <1>3 DEF FlushAcl
  <2>3. f.acl \in Seq(Policies)
    BY <2>1 DEF Built
  <2>4. IndexTyped'
    BY <2>1, <2>2, <2>3 DEF IndexTyped, Few
  <2>5. FlushesTyped' /\ \A u \in Threads : u # t => flushing'[u] = flushing[u]
    BY <2>2 DEF FlushesTyped, Few
  <2>6. QED BY <2>1, <2>4, <2>5
<1>4. CASE FlushRaises(t)
  <2>1. f # None /\ flushing' = [flushing EXCEPT ![t] = None] /\ UNCHANGED <<index, staged, removed>>
    BY <1>4 DEF FlushRaises
  <2>2. IndexTyped'
    BY <2>1 DEF IndexTyped, Few
  <2>3. FlushesTyped' /\ \A u \in Threads : u # t => flushing'[u] = flushing[u]
    BY <2>1 DEF FlushesTyped, Few
  <2>4. QED BY <2>1, <2>2, <2>3
<1>5. QED BY <1>1, <1>2, <1>3, <1>4 DEF FlushStep

(* What is left of a list. *)
LEMMA TailIs ==
  ASSUME NEW X, NEW s \in Seq(X), s # <<>>
  PROVE  /\ Len(s) \in Nat \ {0} /\ DOMAIN s = 1..Len(s) /\ Head(s) = s[1] /\ Head(s) \in X
         /\ Tail(s) \in Seq(X) /\ Len(Tail(s)) = Len(s) - 1 /\ DOMAIN Tail(s) = 1..(Len(s) - 1)
         /\ \A i \in 1..(Len(s) - 1) : i + 1 \in 1..Len(s) /\ Tail(s)[i] = s[i + 1]
         /\ Tail(s) = <<>> <=> Len(s) = 1
         /\ ToSet(s) = {Head(s)} \cup ToSet(Tail(s))
<1> DEFINE n == Len(s)
           q == Tail(s)
<1>1. n \in Nat \ {0} /\ DOMAIN s = 1..n
  BY EmptySeq, LenProperties
<1>2. Head(s) = s[1] /\ Head(s) \in X
  BY <1>1, ElementOfSeq
<1>3. q \in Seq(X) /\ Len(q) = n - 1 /\ \A i \in 1..(n - 1) : q[i] = s[i + 1]
  BY <1>1, HeadTailProperties
<1> HIDE DEF n, q
<1>4. DOMAIN q = 1..(n - 1) /\ \A i \in 1..(n - 1) : i + 1 \in 1..n
  BY <1>1, <1>3, LenProperties
<1>5. q = <<>> <=> n = 1
  BY <1>1, <1>3, EmptySeq
<1>6. ToSet(s) = {Head(s)} \cup ToSet(q)
  <2>1. ASSUME NEW x \in ToSet(s) PROVE x = Head(s) \/ x \in ToSet(q)
    <3>1. PICK i \in 1..n : x = s[i]
      BY <1>1, <2>1 DEF ToSet
    <3>2. CASE i # 1
      <4>1. i - 1 \in 1..(n - 1) /\ (i - 1) + 1 = i
        BY <1>1, <3>2
      <4>2. q[i - 1] = x
        BY <1>3, <3>1, <4>1
      <4>3. QED BY <1>4, <4>1, <4>2 DEF ToSet
    <3>3. QED BY <1>2, <3>1, <3>2
  <2>2. ASSUME NEW x \in ToSet(q) PROVE x \in ToSet(s)
    <3>1. PICK i \in 1..(n - 1) : x = q[i]
      BY <1>4, <2>2 DEF ToSet
    <3>2. i + 1 \in 1..n /\ s[i + 1] = x
      BY <1>3, <1>4, <3>1
    <3>3. QED BY <1>1, <3>2 DEF ToSet
  <2>3. Head(s) \in ToSet(s)
    BY <1>1, <1>2 DEF ToSet
  <2>4. QED BY <2>1, <2>2, <2>3
<1>7. QED BY <1>1, <1>2, <1>3, <1>4, <1>5, <1>6 DEF n, q

LEMMA SameIndex ==
  ASSUME IndexTyped, FlushesTyped, UNCHANGED indexVars
  PROVE  IndexTyped' /\ FlushesTyped'
BY DEF IndexTyped, FlushesTyped, indexVars, Few

(* What a step of the writer may make of it. *)
LEMMA TypesOfWriter ==
  ASSUME TypesInvariant, StoreOK, StoreOK', WriterStep
  PROVE  TypesInvariant'
<1>0. /\ IndexTyped /\ FlushesTyped /\ WriterTyped /\ StoreTyped
      /\ "writer" \in Threads /\ "reader" \in Threads
  BY DEF TypesInvariant, Threads
<1>1. call' = call
  BY DEF WriterStep, NewDocument, Put, Delete, PutDelete, PutDocument, PutChunk, remove_document,
         Embed, add, AddTo, WriterFlush, WriterFlushes, AsIfWriter
<1>2. during' \subseteq Chunk /\ listed' \in [Docs -> Seq(ChunkIds)]
  <2>1. during' = during \/ NoteStored
    BY DEF WriterStep, NewDocument, Put, Delete, PutDelete, PutDocument, PutChunk, remove_document,
           Embed, add, AddTo, WriterFlush, WriterFlushes, storeVars
  <2>2. Stored(chunks)' \subseteq Chunk
    <3>1. (StoreOK => Stored(chunks) \subseteq Chunk)'
      BY StoredAreChunks, PTL
    <3>2. QED BY <3>1 DEF Chunk
  <2>3. during' \subseteq Chunk
    BY <1>0, <2>1, <2>2 DEF StoreTyped, NoteStored, Stored
  <2>4. \/ listed' = listed \/ listed' = [listed EXCEPT ![writer.doc] = <<>>]
        \/ writer.at = "chunks" /\ listed' = [listed EXCEPT ![writer.doc] = NewChunks]
    BY DEF WriterStep, NewDocument, Put, Delete, PutDelete, PutDocument, PutChunk, remove_document,
           Embed, add, AddTo, WriterFlush, WriterFlushes, storeVars, At
  <2>5. <<>> \in Seq(ChunkIds) /\ (writer.at = "chunks" => NewChunks \in Seq(ChunkIds))
    <3>1. <<>> \in Seq(ChunkIds)
      OBVIOUS
    <3>2. QED BY <1>0, <3>1, NewChunksAre, ChunksOfAre DEF WriterTyped
  <2>6. listed' \in [Docs -> Seq(ChunkIds)]
    BY <1>0, <2>4, <2>5 DEF StoreTyped
  <2>7. QED BY <2>3, <2>6
<1>3. /\ writer.at \in Places /\ writer.todo \in Seq(ChunkIds)
      /\ writer \in [at : Places, doc : Docs \cup {None}, version : Versions \cup {None}, todo : Seq(ChunkIds)]
  BY <1>0 DEF WriterTyped
<1>4. writer.at # "idle" =>
        /\ writer.doc \in Docs /\ writer.version \in Versions
        /\ NewChunks = ChunksOf(writer.doc, writer.version)
        /\ NewChunks \in Seq(ChunkIds) /\ Len(NewChunks) = Length[writer.version]
        /\ Length[writer.version] \in Nat
  BY <1>0, NewChunksAre, ChunksOfAre, LongestIs DEF WriterTyped
<1>5. /\ documents \in [Docs -> Versions \cup {None}] /\ call.permitted \in Callers \cup {{}}
  BY <1>0 DEF StoreTyped
<1> USE DEF At, WriterMay, Goto, AsIfWriter
<1>6. CASE NewDocument
  <2>1. PICK d \in Docs, v \in Versions :
          writer' = [at |-> "put", doc |-> d, version |-> v, todo |-> <<>>]
    BY <1>6 DEF NewDocument
  <2>2. flushing["writer"] = None /\ UNCHANGED <<documents, indexVars>>
    BY <1>6 DEF NewDocument, storeVars
  <2>3. WriterTyped'
    <3>1. <<>> \in Seq(ChunkIds)
      OBVIOUS
    <3>2. QED BY <2>1, <2>2, <3>1 DEF WriterTyped, Places, Adding, indexVars
  <2>4. IndexTyped' /\ FlushesTyped'
    BY <1>0, <2>2, SameIndex
  <2>5. QED BY <1>1, <1>2, <1>5, <2>2, <2>3, <2>4 DEF TypesInvariant, StoreTyped
<1>7. CASE Put
  <2>1. /\ writer.at = "put" /\ UNCHANGED indexVars /\ flushing["writer"] = None
        /\ documents' = documents \/ documents' = [documents EXCEPT ![writer.doc] = None]
        /\ \/ writer' = [writer EXCEPT !.at = "delete", !.todo = listed[writer.doc]]
           \/ writer' = [writer EXCEPT !.at = "document"]
    BY <1>7 DEF Put, Delete
  <2>2. listed[writer.doc] \in Seq(ChunkIds)
    BY <1>0, <1>4, <2>1 DEF StoreTyped
  <2>3. WriterTyped'
    BY <1>3, <1>4, <2>1, <2>2 DEF WriterTyped, Places, Adding, indexVars
  <2>4. IndexTyped' /\ FlushesTyped' /\ documents' \in [Docs -> Versions \cup {None}]
    BY <1>0, <1>5, <2>1, SameIndex
  <2>5. QED BY <1>1, <1>2, <1>5, <2>3, <2>4 DEF TypesInvariant, StoreTyped
<1>8. CASE PutDelete
  <2>1. /\ writer.at \in {"delete", "drop"} /\ UNCHANGED indexVars /\ flushing["writer"] = None
        /\ documents' = documents \/ documents' = [documents EXCEPT ![writer.doc] = None]
        /\ \/ writer.todo # <<>> /\ writer' = [writer EXCEPT !.todo = Tail(@)]
           \/ \E place \in {"document", "flush"} : writer' = [writer EXCEPT !.at = place]
    BY <1>8 DEF PutDelete
  <2>2. writer.todo # <<>> => Tail(writer.todo) \in Seq(ChunkIds)
    BY <1>3
  <2>3. WriterTyped'
    BY <1>3, <1>4, <2>1, <2>2 DEF WriterTyped, Places, Adding, indexVars
  <2>4. IndexTyped' /\ FlushesTyped' /\ documents' \in [Docs -> Versions \cup {None}]
    BY <1>0, <1>5, <2>1, SameIndex
  <2>5. QED BY <1>1, <1>2, <1>5, <2>3, <2>4 DEF TypesInvariant, StoreTyped
<1>9. CASE PutDocument
  <2>1. /\ writer.at = "document" /\ UNCHANGED indexVars /\ flushing["writer"] = None
        /\ documents' = [documents EXCEPT ![writer.doc] = writer.version]
        /\ writer' = [writer EXCEPT !.at = "chunks", !.todo = NewChunks]
    BY <1>9 DEF PutDocument
  <2>2. WriterTyped'
    BY <1>3, <1>4, <2>1 DEF WriterTyped, Places, Adding, indexVars
  <2>3. IndexTyped' /\ FlushesTyped' /\ documents' \in [Docs -> Versions \cup {None}]
    BY <1>0, <1>4, <1>5, <2>1, SameIndex
  <2>4. QED BY <1>1, <1>2, <1>5, <2>2, <2>3 DEF TypesInvariant, StoreTyped
<1>10. CASE PutChunk
  <2>1. /\ writer.at = "chunks" /\ UNCHANGED <<documents, indexVars>> /\ flushing["writer"] = None
        /\ \/ writer.todo # <<>> /\ writer' = [writer EXCEPT !.todo = Tail(@)]
           \/ \E place \in {"remove", "flush"} : writer' = [writer EXCEPT !.at = place]
    BY <1>10 DEF PutChunk
  <2>2. writer.todo # <<>> => Tail(writer.todo) \in Seq(ChunkIds)
    BY <1>3
  <2>3. WriterTyped'
    BY <1>3, <1>4, <2>1, <2>2 DEF WriterTyped, Places, Adding, indexVars
  <2>4. IndexTyped' /\ FlushesTyped'
    BY <1>0, <2>1, SameIndex
  <2>5. QED BY <1>1, <1>2, <1>5, <2>1, <2>3, <2>4 DEF TypesInvariant, StoreTyped
<1>11. CASE remove_document
  <2>1. /\ writer.at = "remove" /\ UNCHANGED <<documents, index, staged, flushing>> /\ flushing["writer"] = None
        /\ removed' = removed \cup {writer.doc}
        /\ writer' = [writer EXCEPT !.at = IF NewChunks = <<>> THEN "flush" ELSE "embed"]
    BY <1>11 DEF remove_document, storeVars
  <2>2. NewChunks # <<>> => Length[writer.version] > 0
    BY <1>4, <2>1
  <2>3. WriterTyped'
    BY <1>3, <1>4, <2>1, <2>2 DEF WriterTyped, Places, Adding
  <2>4. IndexTyped' /\ FlushesTyped'
    BY <1>0, <1>4, <2>1 DEF IndexTyped, FlushesTyped, Few
  <2>5. QED BY <1>1, <1>2, <1>5, <2>1, <2>3, <2>4 DEF TypesInvariant, StoreTyped
<1>12. CASE Embed
  <2>1. /\ writer.at = "embed" /\ UNCHANGED indexVars /\ flushing["writer"] = None
        /\ documents' = documents \/ documents' = [documents EXCEPT ![writer.doc] = None]
        /\ \/ writer' = [writer EXCEPT !.at = "vectors", !.todo = NewChunks]
           \/ writer' = [writer EXCEPT !.at = "drop", !.todo = listed[writer.doc]]
           \/ writer' = [writer EXCEPT !.at = "flush"]
    BY <1>12 DEF Embed, Delete, storeVars
  <2>2. NewChunks # <<>> /\ listed[writer.doc] \in Seq(ChunkIds)
    <3>1. Length[writer.version] > 0
      BY <1>0, <2>1 DEF WriterTyped
    <3>2. listed[writer.doc] \in Seq(ChunkIds)
      BY <1>0, <1>4, <2>1 DEF StoreTyped
    <3>3. QED BY <1>4, <2>1, <3>1, <3>2
  <2>3. WriterTyped'
    BY <1>3, <1>4, <2>1, <2>2 DEF WriterTyped, Places, Adding, indexVars
  <2>4. IndexTyped' /\ FlushesTyped' /\ documents' \in [Docs -> Versions \cup {None}]
    BY <1>0, <1>5, <2>1, SameIndex
  <2>5. QED BY <1>1, <1>2, <1>5, <2>3, <2>4 DEF TypesInvariant, StoreTyped
<1>13. CASE add
  <2>1. /\ writer.at \in Adding /\ UNCHANGED <<documents, index, removed, flushing>> /\ flushing["writer"] = None
        /\ \/ staged' = [staged EXCEPT !.vectors = Append(@, writer.version)]
           \/ staged' = [staged EXCEPT !.ids = Append(@, Head(writer.todo))]
           \/ staged' = [staged EXCEPT !.policies = Append(@, PolicyOf[writer.version])]
        /\ \/ \E place \in {"ids", "policies"} : writer' = [writer EXCEPT !.at = place]
           \/ writer' = [writer EXCEPT !.at = IF Len(writer.todo) = 1 THEN "flush" ELSE "vectors", !.todo = Tail(@)]
    BY <1>13 DEF add, AddTo, storeVars, Adding
  <2>2. writer.todo # <<>>
    BY <1>0, <2>1 DEF WriterTyped
  <2>3. /\ Head(writer.todo) \in ChunkIds /\ Tail(writer.todo) \in Seq(ChunkIds)
        /\ Len(writer.todo) # 1 => Tail(writer.todo) # <<>>
    BY <1>3, <2>2, TailIs
  <2>4. writer.version \in Versions /\ PolicyOf[writer.version] \in Policies /\ writer.at # "idle"
    BY <1>4, <2>1, RetrievalAssumption DEF Adding
  <2>5. WriterTyped'
    BY <1>3, <1>4, <2>1, <2>2, <2>3, <2>4 DEF WriterTyped, Places, Adding
  <2>6. staged' \in Staged
    <3>1. staged.vectors \in Seq(Versions) /\ staged.ids \in Seq(ChunkIds) /\ staged.policies \in Seq(Policies)
          /\ staged \in Staged
      BY <1>0 DEF IndexTyped, Staged
    <3>2. /\ Append(staged.vectors, writer.version) \in Seq(Versions)
          /\ Append(staged.ids, Head(writer.todo)) \in Seq(ChunkIds)
          /\ Append(staged.policies, PolicyOf[writer.version]) \in Seq(Policies)
      BY <2>3, <2>4, <3>1, AppendProperties
    <3>3. QED BY <2>1, <3>1, <3>2 DEF Staged
  <2>7. IndexTyped' /\ FlushesTyped'
    BY <1>0, <2>1, <2>6 DEF IndexTyped, FlushesTyped, Few
  <2>8. QED BY <1>1, <1>2, <1>5, <2>1, <2>5, <2>7 DEF TypesInvariant, StoreTyped
<1>14. CASE WriterFlush
  <2>1. FlushTake("writer") /\ writer' = Idle /\ UNCHANGED documents
    BY <1>14 DEF WriterFlush, storeVars
  <2>2. IndexTyped' /\ FlushesTyped'
    BY <1>0, <2>1, TakeTyped
  <2>3. WriterTyped'
    <3>1. <<>> \in Seq(ChunkIds)
      OBVIOUS
    <3>2. QED BY <2>1, <3>1 DEF WriterTyped, Idle, Places, Adding
  <2>4. QED BY <1>1, <1>2, <1>5, <2>1, <2>2, <2>3 DEF TypesInvariant, StoreTyped
<1>15. CASE WriterFlushes
  <2>1. (FlushStep("writer") \/ FlushRaises("writer")) /\ writer' = writer /\ UNCHANGED documents
    BY <1>15 DEF WriterFlushes, storeVars
  <2>2. IndexTyped' /\ FlushesTyped' /\ flushing["writer"] # None
    BY <1>0, <2>1, FlushTyped
  <2>3. WriterTyped'
    BY <1>0, <2>1, <2>2 DEF WriterTyped
  <2>4. QED BY <1>1, <1>2, <1>5, <2>1, <2>2, <2>3 DEF TypesInvariant, StoreTyped
<1>16. QED
  BY <1>6, <1>7, <1>8, <1>9, <1>10, <1>11, <1>12, <1>13, <1>14, <1>15 DEF WriterStep

LEMMA TypesOfReader ==
  ASSUME TypesInvariant, ReadInvariant, ReaderStep
  PROVE  TypesInvariant'
<1>0. /\ IndexTyped /\ FlushesTyped /\ WriterTyped /\ StoreTyped
      /\ "writer" \in Threads /\ "reader" \in Threads /\ DOMAIN call = DOMAIN NoCall /\ StoreOK
  BY DEF TypesInvariant, Threads, ReadInvariant, CallOK
<1>1. writer' = writer /\ documents' = documents /\ listed' = listed
  BY DEF ReaderStep, Begin, simulate, EmbedQuery, FlushIfStaged, SearchLeaky, Rows, Scan, chunk_id_at,
         get_chunks, Recheck, Rank, Answered, ReaderFlushes, Asks, storeVars
<1>2. \/ UNCHANGED indexVars \/ FlushTake("reader") \/ FlushStep("reader") \/ FlushRaises("reader")
  BY DEF ReaderStep, Begin, simulate, EmbedQuery, FlushIfStaged, SearchLeaky, Rows, Scan, chunk_id_at,
         get_chunks, Recheck, Rank, Answered, ReaderFlushes, AsIfReader
<1>3. IndexTyped' /\ FlushesTyped' /\ flushing'["writer"] = flushing["writer"]
  <2>1. CASE UNCHANGED indexVars
    BY <1>0, <2>1, SameIndex DEF indexVars
  <2>2. CASE FlushTake("reader")
    BY <1>0, <2>2, TakeTyped
  <2>3. CASE FlushStep("reader") \/ FlushRaises("reader")
    BY <1>0, <2>3, FlushTyped
  <2>4. QED BY <1>2, <2>1, <2>2, <2>3
<1>4. WriterTyped'
  BY <1>0, <1>1, <1>3 DEF WriterTyped
<1>5. during' \subseteq Chunk
  <2>1. during' = during \/ during' = {} \/ during' = Stored(chunks)
    BY DEF ReaderStep, Begin, simulate, EmbedQuery, FlushIfStaged, SearchLeaky, Rows, Scan, chunk_id_at,
           get_chunks, Recheck, Rank, Answered, ReaderFlushes, AsIfReader, storeVars
  <2>2. QED BY <1>0, <2>1, StoredAreChunks DEF StoreTyped
<1>6. call'.permitted \in Callers \cup {{}}
  <2>1. CASE Begin
    BY <2>1 DEF Begin, NoCall
  <2>2. CASE Answered
    BY <2>2 DEF Answered, NoCall
  <2>3. ASSUME ~Begin, ~Answered PROVE call'.permitted = call.permitted
    BY <1>0, <2>3
       DEF ReaderStep, simulate, EmbedQuery, FlushIfStaged, SearchLeaky, Rows, Scan, chunk_id_at,
           get_chunks, Recheck, Rank, ReaderFlushes, NoCall
  <2>4. QED BY <1>0, <2>1, <2>2, <2>3 DEF StoreTyped
<1>7. QED BY <1>0, <1>1, <1>3, <1>4, <1>5, <1>6 DEF TypesInvariant, StoreTyped

LEMMA InitTyped == Init => TypesInvariant
<1> SUFFICES ASSUME Init PROVE TypesInvariant
  OBVIOUS
<1>1. <<>> \in Seq(ChunkIds) /\ <<>> \in Seq(Versions) /\ <<>> \in Seq(Policies) /\ DOMAIN <<>> = {}
  OBVIOUS
<1>2. IndexTyped
  BY <1>1, NoStagedTyped DEF Init, IndexTyped, NoRows, Few
<1>3. FlushesTyped
  BY DEF Init, FlushesTyped
<1>4. WriterTyped
  BY <1>1 DEF Init, WriterTyped, Idle, Places, Adding, Threads
<1>5. StoreTyped
  BY <1>1 DEF Init, StoreTyped, NoCall
<1>6. QED BY <1>2, <1>3, <1>4, <1>5 DEF TypesInvariant

LEMMA TypesAreKept == Spec => []TypesInvariant
<1>1. Init => TypesInvariant
  BY InitTyped
<1>2. TypesInvariant /\ ReadInvariant /\ ReadInvariant' /\ [Next]_rvars => TypesInvariant'
  <2>1. TypesInvariant /\ UNCHANGED rvars => TypesInvariant'
    BY DEF rvars, TypesInvariant, IndexTyped, FlushesTyped, WriterTyped, StoreTyped, Few
  <2>2. QED BY <2>1, TypesOfWriter, TypesOfReader DEF Next, ReadInvariant
<1>3. QED BY <1>1, <1>2, ReadInvariance, PTL DEF Spec

LEMMA TypesSuffice == TypesInvariant /\ ReadInvariant => TypeOK
<1> SUFFICES ASSUME TypesInvariant, ReadInvariant PROVE TypeOK
  OBVIOUS
<1>1. /\ documents \in [Docs -> Versions \cup {None}] /\ removed \subseteq Docs
      /\ listed \in [Docs -> Seq(ChunkIds)]
      /\ call.permitted \in Callers \cup {{}} /\ during \subseteq Chunk
      /\ \A t \in {"codes", "ids", "acl"} : DOMAIN index[t] \subseteq 1..Cardinality(ChunkIds)
  BY DEF TypesInvariant, IndexTyped, StoreTyped, Few
<1>2. call.fetched \subseteq during /\ call.shown \subseteq during /\ call.result \subseteq call.shown
  BY DEF ReadInvariant, CallOK, Checked
<1>3. QED BY <1>1, <1>2 DEF TypeOK

(* The types, in every mode: the index has no more rows than there are     *)
(* chunk ids, whatever two flushes at once make of it.                     *)
THEOREM TypeCorrect == Spec => []TypeOK
BY TypesSuffice, TypesAreKept, ReadInvariance, PTL

-----------------------------------------------------------------------------
(* The store. *)
LEMMA StoreStepsOfWriter ==
  ASSUME TypesInvariant, StoreOK, StoreSteps, Lists, WriterStep
  PROVE  StoreSteps'
<1>0. /\ WriterTyped /\ documents \in [Docs -> Versions \cup {None}] /\ DOMAIN chunks = ChunkIds
      /\ writer.todo \in Seq(ChunkIds) /\ DOMAIN writer = {"at", "doc", "version", "todo"}
  BY DEF TypesInvariant, StoreTyped, StoreOK, WriterTyped
<1>1. writer.at # "idle" =>
        /\ writer.doc \in Docs /\ writer.version \in Versions /\ writer.version # None
        /\ NewChunks \in Seq(ChunkIds) /\ DOMAIN NewChunks = 1..Length[writer.version]
        /\ \A i \in DOMAIN NewChunks : NewChunks[i].doc = writer.doc /\ NewChunks[i].ordinal <= Length[writer.version]
        /\ \A c \in ChunkIds : c \in ToSet(NewChunks) <=> c.doc = writer.doc /\ c.ordinal <= Length[writer.version]
  <2> SUFFICES ASSUME writer.at # "idle" PROVE
        /\ writer.doc \in Docs /\ writer.version \in Versions /\ writer.version # None
        /\ NewChunks \in Seq(ChunkIds) /\ DOMAIN NewChunks = 1..Length[writer.version]
        /\ \A i \in DOMAIN NewChunks : NewChunks[i].doc = writer.doc /\ NewChunks[i].ordinal <= Length[writer.version]
        /\ \A c \in ChunkIds : c \in ToSet(NewChunks) <=> c.doc = writer.doc /\ c.ordinal <= Length[writer.version]
    OBVIOUS
  <2>1. writer.doc \in Docs /\ writer.version \in Versions /\ writer.version # None
    BY <1>0, NoneIsNone DEF WriterTyped
  <2>2. NewChunks = ChunksOf(writer.doc, writer.version)
    BY <2>1, NewChunksAre
  <2>3. Length[writer.version] \in Nat
    BY <2>1, LongestIs
  <2> DEFINE d == writer.doc
             v == writer.version
  <2>4. d \in Docs /\ v \in Versions
    BY <2>1
  <2> HIDE DEF d, v
  <2>5. /\ ChunksOf(d, v) \in Seq(ChunkIds) /\ DOMAIN ChunksOf(d, v) = 1..Length[v]
        /\ \A i \in 1..Length[v] : ChunksOf(d, v)[i] = [doc |-> d, ordinal |-> i]
        /\ \A c \in ChunkIds : c \in ToSet(ChunksOf(d, v)) <=> c.doc = d /\ c.ordinal <= Length[v]
    BY <2>4, ChunksOfAre
  <2>6. \A i \in 1..Length[v] : i <= Length[v]
    BY <2>3 DEF v
  <2>7. \A i \in DOMAIN ChunksOf(d, v) : ChunksOf(d, v)[i].doc = d /\ ChunksOf(d, v)[i].ordinal <= Length[v]
    <3> DEFINE s == ChunksOf(d, v)
               n == Length[v]
    <3>1. DOMAIN s = 1..n /\ (\A i \in 1..n : i <= n) /\ \A i \in 1..n : s[i] = [doc |-> d, ordinal |-> i]
      BY <2>5, <2>6
    <3> HIDE DEF s, n
    <3>2. ASSUME NEW i \in DOMAIN s PROVE s[i].doc = d /\ s[i].ordinal <= n
      <4>1. s[i] = [doc |-> d, ordinal |-> i] /\ i <= n
        BY <3>1
      <4>2. QED BY <4>1
    <3>3. QED BY <3>2 DEF s, n
  <2>8. NewChunks = ChunksOf(d, v)
    BY <2>2 DEF d, v
  <2>9. QED BY <2>1, <2>5, <2>7, <2>8 DEF d, v
<1>2. writer.todo # <<>> =>
        /\ Tail(writer.todo) \in Seq(ChunkIds) /\ Head(writer.todo) \in ChunkIds
        /\ Head(writer.todo) = writer.todo[1] /\ 1 \in DOMAIN writer.todo
        /\ \A i \in DOMAIN Tail(writer.todo) : i + 1 \in DOMAIN writer.todo /\ Tail(writer.todo)[i] = writer.todo[i + 1]
        /\ ToSet(writer.todo) = {Head(writer.todo)} \cup ToSet(Tail(writer.todo))
  <2> DEFINE todo == writer.todo
  <2>1. todo \in Seq(ChunkIds)
    BY <1>0
  <2> HIDE DEF todo
  <2>2. ASSUME todo # <<>>
        PROVE  /\ Tail(todo) \in Seq(ChunkIds) /\ Head(todo) \in ChunkIds
               /\ Head(todo) = todo[1] /\ 1 \in DOMAIN todo
               /\ \A i \in DOMAIN Tail(todo) : i + 1 \in DOMAIN todo /\ Tail(todo)[i] = todo[i + 1]
               /\ ToSet(todo) = {Head(todo)} \cup ToSet(Tail(todo))
    <3>1. Len(todo) \in Nat \ {0} /\ DOMAIN todo = 1..Len(todo)
      BY <2>1, <2>2, TailIs
    <3>2. 1 \in DOMAIN todo
      BY <3>1
    <3>3. QED BY <2>1, <2>2, <3>1, <3>2, TailIs
  <2>3. QED BY <2>2 DEF todo
<1>3. \A d \in Docs : writer.at = "idle" \/ d # writer.doc \/ PutEnded => StoredAs(d, documents[d])
  BY DEF StoreSteps
<1> USE DEF At, WriterMay, Goto, AsIfWriter
<1>4. CASE NewDocument
  <2>1. /\ writer.at = "idle" /\ writer'.at = "put" /\ UNCHANGED <<documents, chunks>>
    BY <1>4 DEF NewDocument, storeVars
  <2>2. \A e \in Docs : StoredAs(e, documents[e])'
    BY <1>3, <2>1 DEF StoredAs
  <2>3. QED BY <2>1, <2>2 DEF StoreSteps, Adding
<1>5. ASSUME PutEnded, writer.doc \in Docs, NEW deleting \in {"delete", "drop"},
             NEW deleted \in {"document", "flush"}, Delete(deleting, deleted)
      PROVE  StoreSteps'
  <2>1. CASE kind = "memory"
    <3>1. /\ writer' = [writer EXCEPT !.at = deleting, !.todo = listed[writer.doc]]
          /\ UNCHANGED <<documents, chunks>>
      BY <1>5, <2>1 DEF Delete
    <3>2. writer'.at = deleting /\ writer'.doc = writer.doc /\ writer'.todo = listed[writer.doc]
      BY <1>0, <3>1
    <3>3. \A d \in Docs : StoredAs(d, documents[d])'
      BY <1>3, <1>5, <3>1 DEF StoredAs
    <3>4. /\ \A i \in DOMAIN listed[writer.doc] : listed[writer.doc][i].doc = writer.doc
          /\ \A c \in Of(writer.doc) : chunks[c] # None => c \in ToSet(listed[writer.doc])
      BY <1>5, <2>1 DEF Lists
    <3>5. QED BY <3>1, <3>2, <3>3, <3>4 DEF StoreSteps, Adding
  <2>2. CASE kind = "postgres"
    <3>1. /\ writer' = [writer EXCEPT !.at = deleted] /\ documents' = [documents EXCEPT ![writer.doc] = None]
          /\ chunks' = WithoutDoc(chunks, writer.doc)
      BY <1>5, <2>2 DEF Delete
    <3>2. writer'.at = deleted /\ writer'.doc = writer.doc /\ documents'[writer.doc] = None
      BY <1>0, <1>5, <3>1
    <3>3. ASSUME NEW d \in Docs, d # writer.doc PROVE StoredAs(d, documents[d])'
      <4>1. documents'[d] = documents[d] /\ \A c \in Of(d) : chunks'[c] = chunks[c]
        BY <1>0, <3>1, <3>3 DEF WithoutDoc, Of
      <4>2. QED BY <1>3, <3>3, <4>1 DEF StoredAs
    <3>4. \A c \in Of(writer.doc) : chunks'[c] = None
      BY <3>1 DEF WithoutDoc, Of
    <3>5. StoredAs(writer.doc, documents[writer.doc])'
      BY <3>2, <3>4 DEF StoredAs
    <3>6. QED BY <3>2, <3>3, <3>4, <3>5 DEF StoreSteps, Adding
  <2>3. QED BY <1>5, <2>1, <2>2 DEF Delete
<1>15. CASE Put
  <2>1. PutEnded /\ writer.doc \in Docs /\ Delete("delete", "document")
    BY <1>1, <1>15 DEF Put, PutEnded
  <2>2. QED BY <1>5, <2>1
<1>6. CASE PutDelete
  <2>1. /\ writer.at \in {"delete", "drop"}
        /\ \A i \in DOMAIN writer.todo : writer.todo[i].doc = writer.doc
        /\ \A c \in Of(writer.doc) : chunks[c] # None => c \in ToSet(writer.todo)
        /\ writer.at \notin {"idle"} \cup Adding \cup {"put", "remove", "embed", "flush"}
    BY <1>6 DEF PutDelete, StoreSteps, Adding
  <2>2. CASE writer.todo # <<>>
    <3>1. /\ chunks' = [chunks EXCEPT ![Head(writer.todo)] = None] /\ documents' = documents
          /\ writer' = [writer EXCEPT !.todo = Tail(writer.todo)]
      BY <1>6, <2>2 DEF PutDelete
    <3>2. Head(writer.todo).doc = writer.doc
      BY <1>2, <2>1, <2>2
    <3>3. ASSUME NEW d \in Docs, d # writer.doc PROVE StoredAs(d, documents[d])'
      <4>1. \A c \in Of(d) : chunks'[c] = chunks[c]
        BY <1>0, <3>1, <3>2, <3>3 DEF Of
      <4>2. QED BY <1>3, <3>1, <3>3, <4>1 DEF StoredAs
    <3>4. /\ \A i \in DOMAIN Tail(writer.todo) : Tail(writer.todo)[i].doc = writer.doc
          /\ \A c \in Of(writer.doc) : chunks'[c] # None => c \in ToSet(Tail(writer.todo))
      BY <1>0, <1>2, <2>1, <2>2, <3>1 DEF Of
    <3>5. writer'.at = writer.at /\ writer'.doc = writer.doc /\ writer'.todo = Tail(writer.todo)
      BY <1>0, <3>1
    <3>6. QED BY <2>1, <3>3, <3>4, <3>5 DEF StoreSteps, PutEnded, Adding
  <2>3. CASE writer.todo = <<>>
    <3>1. /\ chunks' = chunks /\ documents' = [documents EXCEPT ![writer.doc] = None]
          /\ writer' = [writer EXCEPT !.at = IF writer.at = "delete" THEN "document" ELSE "flush"]
      BY <1>6, <2>3 DEF PutDelete
    <3>2. writer.doc \in Docs /\ documents'[writer.doc] = None
      BY <1>0, <1>1, <2>1, <3>1
    <3>3. \A c \in Of(writer.doc) : chunks'[c] = None
      <4>1. ToSet(writer.todo) = {}
        BY <2>3 DEF ToSet
      <4>2. QED BY <2>1, <3>1, <4>1
    <3>4. ASSUME NEW d \in Docs, d # writer.doc PROVE StoredAs(d, documents[d])'
      <4>1. documents'[d] = documents[d]
        BY <1>0, <3>1, <3>4
      <4>2. QED BY <1>3, <3>1, <3>4, <4>1 DEF StoredAs
    <3>5. StoredAs(writer.doc, documents[writer.doc])'
      BY <3>1, <3>2, <3>3 DEF StoredAs
    <3>6. writer'.at \in {"document", "flush"} /\ writer'.doc = writer.doc /\ writer'.version = writer.version
      BY <1>0, <3>1
    <3>7. QED BY <3>2, <3>3, <3>4, <3>5, <3>6 DEF StoreSteps, Adding
  <2>4. QED BY <2>2, <2>3
<1>7. CASE PutDocument
  <2>1. /\ writer.at = "document" /\ writer' = [writer EXCEPT !.at = "chunks", !.todo = NewChunks]
        /\ documents' = [documents EXCEPT ![writer.doc] = writer.version] /\ chunks' = chunks
    BY <1>7 DEF PutDocument
  <2>2. \A c \in Of(writer.doc) : chunks[c] = None
    BY <2>1 DEF StoreSteps
  <2>3. /\ writer'.at = "chunks" /\ writer'.doc = writer.doc /\ writer'.version = writer.version
        /\ writer'.todo = NewChunks /\ documents'[writer.doc] = writer.version
    BY <1>0, <1>1, <2>1
  <2>4. ASSUME NEW d \in Docs, d # writer.doc PROVE StoredAs(d, documents[d])'
    <3>1. documents'[d] = documents[d]
      BY <1>0, <2>1, <2>4
    <3>2. QED BY <1>3, <2>1, <2>4, <3>1 DEF StoredAs
  <2>5. \A c \in Of(writer.doc) : c.ordinal <= Length[writer.version] => c \in ToSet(NewChunks)
    BY <1>1, <2>1 DEF Of
  <2>6. QED BY <1>1, <2>1, <2>2, <2>3, <2>4, <2>5 DEF StoreSteps, Adding, PutEnded
<1>8. CASE PutChunk
  <2>1. /\ writer.at = "chunks" /\ documents' = documents /\ documents[writer.doc] = writer.version
        /\ \A i \in DOMAIN writer.todo :
             writer.todo[i].doc = writer.doc /\ writer.todo[i].ordinal <= Length[writer.version]
        /\ \A c \in Of(writer.doc) :
             IF c.ordinal <= Length[writer.version]
             THEN c \in ToSet(writer.todo) \/ chunks[c] = ChunkOf(writer.version)
             ELSE chunks[c] = None
    BY <1>8 DEF PutChunk, StoreSteps
  <2>2. CASE kind = "memory" /\ writer.todo # <<>>
    <3>1. /\ chunks' = [chunks EXCEPT ![Head(writer.todo)] = ChunkOf(writer.version)]
          /\ writer' = [writer EXCEPT !.todo = Tail(writer.todo)]
      BY <1>8, <2>2 DEF PutChunk
    <3>2. Head(writer.todo).doc = writer.doc /\ Head(writer.todo).ordinal <= Length[writer.version]
      BY <1>2, <2>1, <2>2
    <3>3. ASSUME NEW d \in Docs, d # writer.doc PROVE StoredAs(d, documents[d])'
      <4>1. \A c \in Of(d) : chunks'[c] = chunks[c]
        BY <1>0, <3>1, <3>2, <3>3 DEF Of
      <4>2. QED BY <1>3, <2>1, <3>3, <4>1 DEF StoredAs
    <3>4. \A i \in DOMAIN Tail(writer.todo) :
            Tail(writer.todo)[i].doc = writer.doc /\ Tail(writer.todo)[i].ordinal <= Length[writer.version]
      BY <1>2, <2>1, <2>2
    <3>5. \A c \in Of(writer.doc) :
            IF c.ordinal <= Length[writer.version]
            THEN c \in ToSet(Tail(writer.todo)) \/ chunks'[c] = ChunkOf(writer.version)
            ELSE chunks'[c] = None
      BY <1>0, <1>2, <2>1, <2>2, <3>1, <3>2 DEF Of
    <3>6. /\ writer'.at = "chunks" /\ writer'.doc = writer.doc /\ writer'.todo = Tail(writer.todo)
          /\ writer'.version = writer.version
      BY <1>0, <2>1, <3>1
    <3>7. QED BY <2>1, <3>3, <3>4, <3>5, <3>6 DEF StoreSteps, PutEnded, Adding
  <2>3. CASE kind = "memory" /\ writer.todo = <<>>
    <3>1. chunks' = chunks /\ writer' = [writer EXCEPT !.at = "remove"] /\ ToSet(writer.todo) = {}
      BY <1>8, <2>3 DEF PutChunk, ToSet
    <3>2. writer'.at = "remove" /\ writer'.doc = writer.doc /\ writer'.version = writer.version
      BY <1>0, <3>1
    <3>3. StoredAs(writer.doc, documents[writer.doc])'
      BY <1>1, <2>1, <3>1 DEF StoredAs
    <3>4. \A d \in Docs : d # writer.doc => StoredAs(d, documents[d])'
      BY <1>3, <2>1, <3>1 DEF StoredAs
    <3>5. QED BY <2>1, <3>2, <3>3, <3>4 DEF StoreSteps, Adding
  <2>4. CASE kind = "postgres"
    <3>1. /\ chunks' = [c \in ChunkIds |-> IF c \in ToSet(NewChunks) THEN ChunkOf(writer.version) ELSE chunks[c]]
          /\ \E place \in {"remove", "flush"} : writer' = [writer EXCEPT !.at = place]
      BY <1>8, <2>4 DEF PutChunk
    <3>2. /\ writer'.at \in {"remove", "flush"} /\ writer'.doc = writer.doc /\ writer'.version = writer.version
      BY <1>0, <3>1
    <3>3. ASSUME NEW d \in Docs, d # writer.doc PROVE StoredAs(d, documents[d])'
      <4>1. \A c \in Of(d) : chunks'[c] = chunks[c]
        BY <1>1, <2>1, <3>1, <3>3 DEF Of
      <4>2. QED BY <1>3, <2>1, <3>3, <4>1 DEF StoredAs
    <3>4. \A c \in Of(writer.doc) :
            chunks'[c] = IF c.ordinal <= Length[writer.version] THEN ChunkOf(writer.version) ELSE None
      BY <1>1, <2>1, <3>1 DEF Of
    <3>5. StoredAs(writer.doc, documents[writer.doc])'
      <4>1. documents'[writer'.doc] = writer.version /\ writer.version # None /\ writer'.doc = writer.doc
        BY <1>1, <2>1, <3>2
      <4> DEFINE d == writer.doc
                 v == writer.version
      <4>2. /\ documents'[writer'.doc] = v /\ v # None /\ writer'.doc = d
            /\ \A c \in Of(d) : chunks'[c] = IF c.ordinal <= Length[v] THEN ChunkOf(v) ELSE None
        BY <3>4, <4>1
      <4> HIDE DEF d, v
      <4>3. QED BY <4>2 DEF StoredAs, Of
    <3>6. QED BY <2>1, <3>2, <3>3, <3>5 DEF StoreSteps, Adding
  <2>5. QED BY <1>8, <2>2, <2>3, <2>4 DEF PutChunk
<1>9. ASSUME UNCHANGED <<documents, chunks>>,
             PutEnded \/ writer.at = "idle", writer'.at \in Adding \cup {"embed", "flush"},
             writer'.doc = writer.doc, writer'.version = writer.version, writer.doc \in Docs,
             documents[writer.doc] = writer.version
      PROVE  StoreSteps'
  <2>1. \A d \in Docs : StoredAs(d, documents[d])'
    BY <1>3, <1>9 DEF StoredAs
  <2>2. writer'.at \notin {"delete", "drop", "document", "chunks"}
    BY <1>9 DEF Adding
  <2>3. QED BY <1>9, <2>1, <2>2 DEF StoreSteps
<1>10. CASE remove_document
  <2>1. /\ writer.at = "remove" /\ UNCHANGED <<documents, chunks>>
        /\ writer' = [writer EXCEPT !.at = IF NewChunks = <<>> THEN "flush" ELSE "embed"]
    BY <1>10 DEF remove_document, storeVars
  <2>2. documents[writer.doc] = writer.version /\ writer.doc \in Docs /\ PutEnded
    BY <1>1, <2>1 DEF StoreSteps, PutEnded
  <2>3. writer'.at \in {"flush", "embed"} /\ writer'.doc = writer.doc /\ writer'.version = writer.version
    BY <1>0, <2>1
  <2>4. QED BY <1>9, <2>1, <2>2, <2>3
<1>11. CASE Embed
  <2>1. writer.at = "embed" /\ documents[writer.doc] = writer.version /\ writer.doc \in Docs /\ PutEnded
    BY <1>1, <1>11 DEF Embed, StoreSteps, PutEnded
  <2>2. CASE writer' = [writer EXCEPT !.at = "vectors", !.todo = NewChunks] /\ UNCHANGED storeVars
    <3>1. writer'.at = "vectors" /\ writer'.doc = writer.doc /\ writer'.version = writer.version
      BY <1>0, <2>2
    <3>2. QED BY <1>9, <2>1, <2>2, <3>1 DEF storeVars, Adding
  <2>3. CASE Delete("drop", "flush")
    BY <1>5, <2>1, <2>3
  <2>4. QED BY <1>11, <2>2, <2>3 DEF Embed
<1>12. CASE add
  <2>1. writer.at \in Adding /\ UNCHANGED <<documents, chunks>>
    BY <1>12 DEF add, AddTo, storeVars, Adding
  <2>2. documents[writer.doc] = writer.version /\ writer.doc \in Docs /\ PutEnded
    BY <1>1, <2>1 DEF StoreSteps, PutEnded, Adding
  <2>3. writer'.at \in Adding \cup {"flush"} /\ writer'.doc = writer.doc /\ writer'.version = writer.version
    BY <1>0, <1>12 DEF add, AddTo, Adding
  <2>4. QED BY <1>9, <2>1, <2>2, <2>3
<1>13. CASE WriterFlush
  <2>1. writer' = Idle /\ UNCHANGED <<documents, chunks>> /\ writer.at = "flush" /\ Idle.at = "idle"
    BY <1>13 DEF WriterFlush, storeVars, Idle
  <2>2. \A d \in Docs : StoredAs(d, documents[d])'
    BY <1>3, <2>1 DEF StoredAs, PutEnded
  <2>3. QED BY <2>1, <2>2 DEF StoreSteps, Adding
<1>14. CASE WriterFlushes
  BY <1>14 DEF WriterFlushes, StoreSteps, StoredAs, PutEnded, storeVars
<1>16. QED
  BY <1>4, <1>6, <1>7, <1>8, <1>10, <1>11, <1>12, <1>13, <1>14, <1>15 DEF WriterStep

LEMMA ListsOfWriter ==
  ASSUME TypesInvariant, StoreOK, StoreSteps, Lists, WriterStep
  PROVE  Lists'
<1>0. /\ WriterTyped /\ listed \in [Docs -> Seq(ChunkIds)] /\ DOMAIN chunks = ChunkIds
      /\ DOMAIN writer = {"at", "doc", "version", "todo"}
      /\ writer.at # "idle" => writer.doc \in Docs /\ writer.version \in Versions
  BY DEF TypesInvariant, StoreTyped, StoreOK, WriterTyped
<1>1. kind' = kind
  BY DEF WriterStep, NewDocument, Put, Delete, PutDelete, PutDocument, PutChunk, remove_document,
         Embed, add, AddTo, WriterFlush, WriterFlushes, AsIfWriter, fixed
<1>2. SUFFICES ASSUME kind = "memory"
               PROVE  \A d \in Docs :
                        /\ \A i \in DOMAIN listed'[d] : listed'[d][i].doc = d
                        /\ writer'.at = "idle" \/ d # writer'.doc \/ PutEnded' =>
                             \A c \in Of(d) : chunks'[c] # None => c \in ToSet(listed'[d])
  BY <1>1 DEF Lists, Of, ToSet
<1>3. \A d \in Docs :
        /\ \A i \in DOMAIN listed[d] : listed[d][i].doc = d
        /\ writer.at = "idle" \/ d # writer.doc \/ PutEnded =>
             \A c \in Of(d) : chunks[c] # None => c \in ToSet(listed[d])
  BY <1>2 DEF Lists
<1> USE DEF At, WriterMay, Goto, AsIfWriter
<1>4. CASE UNCHANGED <<listed, chunks>> /\ (writer.at = "idle" \/ PutEnded)
  BY <1>3, <1>4
<1>5. ASSUME writer.doc \in Docs, writer.at # "idle", NEW deleting \in {"delete", "drop"}, NEW deleted,
             Delete(deleting, deleted)
      PROVE  \A d \in Docs :
               /\ \A i \in DOMAIN listed'[d] : listed'[d][i].doc = d
               /\ writer'.at = "idle" \/ d # writer'.doc \/ PutEnded' =>
                    \A c \in Of(d) : chunks'[c] # None => c \in ToSet(listed'[d])
  <2>1. /\ writer' = [writer EXCEPT !.at = deleting, !.todo = listed[writer.doc]]
        /\ listed' = [listed EXCEPT ![writer.doc] = <<>>] /\ chunks' = chunks
    BY <1>2, <1>5 DEF Delete
  <2>2. writer'.at \in {"delete", "drop"} /\ writer'.doc = writer.doc /\ ~PutEnded'
    BY <1>0, <2>1 DEF PutEnded, Adding
  <2>3. listed'[writer.doc] = <<>> /\ DOMAIN <<>> = {} /\ \A d \in Docs : d # writer.doc => listed'[d] = listed[d]
    BY <1>0, <1>5, <2>1
  <2>4. QED BY <1>3, <2>1, <2>2, <2>3
<1>6. CASE NewDocument
  BY <1>4, <1>6 DEF NewDocument, storeVars
<1>7. CASE Put
  BY <1>0, <1>5, <1>7 DEF Put
<1>8. CASE PutDelete
  <2>1. /\ writer.at \in {"delete", "drop"} /\ listed' = listed /\ writer.doc \in Docs /\ writer.at # "idle"
        /\ \A c \in Of(writer.doc) : chunks[c] # None => c \in ToSet(writer.todo)
    BY <1>0, <1>8 DEF PutDelete, StoreSteps
  <2>2. \A d \in Docs : \A c \in Of(d) : d # writer.doc /\ chunks[c] # None => c \in ToSet(listed[d])
    BY <1>3
  <2>3. CASE writer.todo # <<>>
    <3>1. /\ chunks' = [chunks EXCEPT ![Head(writer.todo)] = None]
          /\ writer'.at = writer.at /\ writer'.doc = writer.doc
      BY <1>0, <1>8, <2>3 DEF PutDelete
    <3>2. \A c \in ChunkIds : chunks'[c] # None => chunks[c] # None
      BY <1>0, <3>1
    <3>3. ~PutEnded' /\ writer'.at # "idle"
      BY <2>1, <3>1 DEF PutEnded, Adding
    <3>4. QED BY <1>3, <2>1, <2>2, <3>1, <3>2, <3>3 DEF Of
  <2>4. CASE writer.todo = <<>>
    <3>1. chunks' = chunks /\ writer'.doc = writer.doc /\ writer'.at # "idle"
      BY <1>0, <1>8, <2>4 DEF PutDelete
    <3>2. \A c \in Of(writer.doc) : chunks'[c] = None
      <4>1. ToSet(writer.todo) = {}
        BY <2>4 DEF ToSet
      <4>2. QED BY <2>1, <3>1, <4>1
    <3>3. QED BY <1>3, <2>1, <2>2, <3>1, <3>2
  <2>5. QED BY <2>3, <2>4
<1>9. CASE PutDocument
  <2>1. /\ UNCHANGED <<listed, chunks>> /\ writer'.at = "chunks" /\ writer'.doc = writer.doc
        /\ writer.at = "document"
    BY <1>0, <1>9 DEF PutDocument
  <2>2. ~PutEnded'
    BY <2>1 DEF PutEnded, Adding
  <2>3. QED BY <1>3, <2>1, <2>2
<1>10. CASE PutChunk
  <2>1. /\ writer.at = "chunks" /\ writer.doc \in Docs /\ writer.version \in Versions
        /\ \A i \in DOMAIN writer.todo :
             writer.todo[i].doc = writer.doc /\ writer.todo[i].ordinal <= Length[writer.version]
        /\ \A c \in Of(writer.doc) : ~(c.ordinal <= Length[writer.version]) => chunks[c] = None
    BY <1>0, <1>10 DEF PutChunk, StoreSteps
  <2>2. \A d \in Docs : \A c \in Of(d) : d # writer.doc /\ chunks[c] # None => c \in ToSet(listed[d])
    BY <1>3, <2>1
  <2>3. CASE writer.todo # <<>>
    <3>1. /\ chunks' = [chunks EXCEPT ![Head(writer.todo)] = ChunkOf(writer.version)]
          /\ writer'.at = writer.at /\ writer'.doc = writer.doc /\ listed' = listed
      BY <1>0, <1>2, <1>10, <2>3 DEF PutChunk
    <3>2. Head(writer.todo).doc = writer.doc
      <4> DEFINE todo == writer.todo
      <4>1. todo \in Seq(ChunkIds) /\ todo # <<>>
        BY <1>0, <2>3 DEF WriterTyped
      <4> HIDE DEF todo
      <4>2. Len(todo) \in Nat \ {0} /\ DOMAIN todo = 1..Len(todo) /\ Head(todo) = todo[1]
        BY <4>1, TailIs
      <4>3. 1 \in DOMAIN todo
        BY <4>2
      <4>4. QED BY <2>1, <4>2, <4>3 DEF todo
    <3>3. ASSUME NEW d \in Docs, NEW c \in Of(d), d # writer.doc PROVE chunks'[c] = chunks[c]
      BY <1>0, <3>1, <3>2, <3>3 DEF Of
    <3>4. ~PutEnded' /\ writer'.at # "idle"
      BY <2>1, <3>1 DEF PutEnded, Adding
    <3>5. QED BY <1>3, <2>1, <2>2, <3>1, <3>3, <3>4
  <2>4. CASE writer.todo = <<>>
    <3> DEFINE e == writer.doc
               v == writer.version
    <3>1. /\ chunks' = chunks /\ writer'.doc = e /\ writer'.at # "idle"
          /\ listed' = [listed EXCEPT ![e] = NewChunks]
      BY <1>0, <1>2, <1>10, <2>4 DEF PutChunk
    <3>2. NewChunks = ChunksOf(e, v)
      BY <2>1, NewChunksAre
    <3>3. e \in Docs /\ v \in Versions /\ \A c \in Of(e) : ~(c.ordinal <= Length[v]) => chunks[c] = None
      BY <2>1
    <3> HIDE DEF e, v
    <3>4. \A c \in ChunkIds : c \in ToSet(ChunksOf(e, v)) <=> c.doc = e /\ c.ordinal <= Length[v]
      BY <3>3, ChunksOfAre
    <3>5. \A i \in DOMAIN ChunksOf(e, v) : ChunksOf(e, v)[i].doc = e
      BY DEF ChunksOf
    <3>6. listed'[e] = ChunksOf(e, v) /\ \A d \in Docs : d # e => listed'[d] = listed[d]
      BY <1>0, <3>1, <3>2, <3>3
    <3>7. \A c \in Of(e) : chunks'[c] # None => c \in ToSet(listed'[e])
      BY <3>1, <3>3, <3>4, <3>6 DEF Of
    <3>8. \A d \in Docs : \A c \in Of(d) : d # e /\ chunks'[c] # None => c \in ToSet(listed'[d])
      BY <2>2, <3>1, <3>6 DEF e
    <3>9. QED BY <1>3, <3>5, <3>6, <3>7, <3>8
  <2>5. QED BY <2>3, <2>4
<1>11. CASE remove_document
  BY <1>4, <1>11 DEF remove_document, PutEnded, storeVars
<1>12. CASE Embed
  <2>1. writer.at = "embed" /\ PutEnded
    BY <1>12 DEF Embed, PutEnded
  <2>2. CASE UNCHANGED storeVars
    BY <1>4, <2>1, <2>2 DEF storeVars
  <2>3. CASE Delete("drop", "flush")
    BY <1>0, <1>5, <2>1, <2>3
  <2>4. QED BY <1>12, <2>2, <2>3 DEF Embed
<1>13. CASE add
  BY <1>4, <1>13 DEF add, AddTo, PutEnded, Adding, storeVars
<1>14. CASE WriterFlush
  BY <1>4, <1>14 DEF WriterFlush, PutEnded, storeVars
<1>15. CASE WriterFlushes
  <2>1. UNCHANGED <<listed, chunks, writer>>
    BY <1>15 DEF WriterFlushes, storeVars
  <2>2. QED BY <1>3, <2>1 DEF PutEnded
<1>16. QED
  BY <1>6, <1>7, <1>8, <1>9, <1>10, <1>11, <1>12, <1>13, <1>14, <1>15 DEF WriterStep

LEMMA StoreIsKept == Spec => [](StoreSteps /\ Lists)
<1>1. Init => StoreSteps /\ Lists
  <2>1. Init => StoreSteps
    BY DEF Init, StoreSteps, StoredAs, Idle, Of, Adding
  <2>2. DOMAIN <<>> = {}
    OBVIOUS
  <2>3. Init => Lists
    BY <2>2 DEF Init, Lists, Of
  <2>4. QED BY <2>1, <2>3
<1>2. TypesInvariant /\ ReadInvariant /\ StoreSteps /\ Lists /\ [Next]_rvars => StoreSteps' /\ Lists'
  <2> SUFFICES ASSUME TypesInvariant, ReadInvariant, StoreSteps, Lists, [Next]_rvars
               PROVE  StoreSteps' /\ Lists'
    OBVIOUS
  <2>1. CASE WriterStep
    BY <2>1, StoreStepsOfWriter, ListsOfWriter DEF ReadInvariant
  <2>2. CASE ~WriterStep
    <3>1. UNCHANGED <<writer, documents, chunks, listed, kind>>
      BY <2>2
         DEF Next, rvars, ReaderStep, Begin, simulate, EmbedQuery, FlushIfStaged, SearchLeaky, Rows, Scan,
             chunk_id_at, get_chunks, Recheck, Rank, Answered, ReaderFlushes, Asks, storeVars, fixed
    <3>2. StoreSteps'
      BY <3>1 DEF StoreSteps, StoredAs, PutEnded
    <3>3. Lists'
      BY <3>1 DEF Lists, PutEnded
    <3>4. QED BY <3>2, <3>3
  <2>3. QED BY <2>1, <2>2
<1>3. QED BY <1>1, <1>2, TypesAreKept, ReadInvariance, PTL DEF Spec

(* Unless one is being put or deleted, the store has each document whole,  *)
(* over either store and whatever retrievals do.                           *)
THEOREM StoreStaysWhole == Spec => []StoreIsWhole
<1>1. TypesInvariant /\ StoreSteps => StoreIsWhole
  <2> SUFFICES ASSUME TypesInvariant, StoreSteps,
                      writer.at \notin {"delete", "drop", "document", "chunks"}, NEW c \in ChunkIds
               PROVE  LET v == documents[c.doc] IN
                      chunks[c] = IF v # None /\ c.ordinal <= Length[v] THEN ChunkOf(v) ELSE None
    BY DEF StoreIsWhole
  <2>1. writer.at \in Places
    BY DEF TypesInvariant, WriterTyped
  <2>2. writer.at = "idle" \/ PutEnded
    BY <2>1 DEF Places, PutEnded, Adding
  <2>3. c.doc \in Docs /\ c \in Of(c.doc)
    BY ChunkIdsAre DEF Of
  <2>4. StoredAs(c.doc, documents[c.doc])
    BY <2>2, <2>3 DEF StoreSteps
  <2>5. QED BY <2>3, <2>4 DEF StoredAs
<1>2. QED BY <1>1, TypesAreKept, StoreIsKept, PTL

-----------------------------------------------------------------------------
(* A flush of a good index and a good stage builds a good index, of the    *)
(* rows that it is to have.                                                *)
LEMMA FlushBuilds ==
  ASSUME IndexTyped, NEW f \in Taken,
         Good(index.codes, index.ids, index.acl),
         Good(f.staged.vectors, f.staged.ids, f.staged.policies)
  PROVE  LET codes == Rebuilt(f, index.codes, f.staged.vectors)
             acl   == Rebuilt(f, index.acl, f.staged.policies) IN
         /\ Buildable(f) /\ Good(codes, KeptIds(f), acl)
         /\ \A c \in ChunkIds, v \in Versions :
              Holds(codes, KeptIds(f), c, v) <=> Will(f.staged, f.removed, c, v)
<1> DEFINE s == f.staged
           olds == index.ids
           all == AllIds(f.staged)
           old == Len(index.ids)
           new == Len(s.ids)
           kept == Kept(f)
           codes == Rebuilt(f, index.codes, s.vectors)
           acl == Rebuilt(f, index.acl, s.policies)
           ids == KeptIds(f)
           code(i) == IF OldRow(i) THEN index.codes[i] ELSE s.vectors[i - old]
           policy(i) == IF OldRow(i) THEN index.acl[i] ELSE s.policies[i - old]
<1>1. /\ s \in Staged /\ f.staged = s /\ f.removed \subseteq Docs
      /\ index.ids \in Seq(ChunkIds) /\ index.codes \in Seq(Versions) /\ index.acl \in Seq(Policies)
      /\ s.vectors \in Seq(Versions) /\ s.ids \in Seq(ChunkIds) /\ s.policies \in Seq(Policies)
  BY DEF IndexTyped, Taken, Staged
<1>2. /\ old \in Nat /\ new \in Nat
      /\ DOMAIN all = 1..(old + new) /\ DOMAIN index.ids = 1..old /\ DOMAIN s.ids = 1..new
      /\ \A i \in DOMAIN all : i \in Int /\ (OldRow(i) <=> i <= old)
      /\ \A i \in 1..old : i \in DOMAIN all /\ all[i] = index.ids[i]
      /\ \A i \in 1..new : old + i \in DOMAIN all /\ ~OldRow(old + i) /\ all[old + i] = s.ids[i]
                           /\ (old + i) - old = i
      /\ \A i \in DOMAIN all : ~OldRow(i) =>
           i - old \in 1..new /\ all[i] = s.ids[i - old] /\ old + (i - old) = i
  <2> HIDE DEF s
  <2>1. /\ Len(index.ids) \in Nat /\ Len(s.ids) \in Nat
        /\ DOMAIN AllIds(s) = 1..(Len(index.ids) + Len(s.ids))
        /\ DOMAIN index.ids = 1..Len(index.ids) /\ DOMAIN s.ids = 1..Len(s.ids)
        /\ \A i \in DOMAIN AllIds(s) : i \in Int /\ (OldRow(i) <=> i <= Len(index.ids))
        /\ \A i \in 1..Len(index.ids) : i \in DOMAIN AllIds(s) /\ AllIds(s)[i] = index.ids[i]
        /\ \A i \in 1..Len(s.ids) :
             /\ Len(index.ids) + i \in DOMAIN AllIds(s) /\ ~OldRow(Len(index.ids) + i)
             /\ AllIds(s)[Len(index.ids) + i] = s.ids[i] /\ (Len(index.ids) + i) - Len(index.ids) = i
        /\ \A i \in DOMAIN AllIds(s) : ~OldRow(i) =>
             /\ i - Len(index.ids) \in 1..Len(s.ids) /\ AllIds(s)[i] = s.ids[i - Len(index.ids)]
             /\ Len(index.ids) + (i - Len(index.ids)) = i
    BY <1>1, AllIdsAre
  <2> HIDE DEF old, new
  <2>2. QED BY <2>1 DEF s, old, new
<1>3. /\ DOMAIN index.codes = 1..old /\ DOMAIN index.acl = 1..old
      /\ DOMAIN s.vectors = 1..new /\ DOMAIN s.policies = 1..new
      /\ \A i \in 1..old : index.acl[i] = PolicyOf[index.codes[i]]
      /\ \A i \in 1..new : s.policies[i] = PolicyOf[s.vectors[i]]
      /\ \A i, j \in 1..old : index.ids[i] = index.ids[j] => i = j
      /\ \A i, j \in 1..new : s.ids[i] = s.ids[j] => i = j
  BY <1>2 DEF Good
<1>4. /\ Len(index.codes) = old /\ Len(index.acl) = old
      /\ Len(s.vectors) = new /\ Len(s.policies) = new
  <2> DEFINE a == index.codes
             b == index.acl
             p == s.vectors
             q == s.policies
  <2>1. /\ a \in Seq(Versions) /\ b \in Seq(Policies) /\ p \in Seq(Versions) /\ q \in Seq(Policies)
        /\ DOMAIN a = 1..old /\ DOMAIN b = 1..old /\ DOMAIN p = 1..new /\ DOMAIN q = 1..new
        /\ old \in Nat /\ new \in Nat
    BY <1>1, <1>2, <1>3
  <2> HIDE DEF a, b, p, q, old, new
  <2>2. Len(a) = old /\ Len(b) = old /\ Len(p) = new /\ Len(q) = new
    BY <2>1, LenProperties
  <2>3. QED BY <2>2 DEF a, b, p, q
<1>5. /\ \A n \in DOMAIN kept : kept[n] \in DOMAIN all /\ Keep(f, kept[n])
      /\ \A i \in DOMAIN all : Keep(f, i) => \E n \in DOMAIN kept : kept[n] = i
      /\ DOMAIN ids = DOMAIN kept /\ \A n \in DOMAIN kept : ids[n] = all[kept[n]]
      /\ \A m, n \in DOMAIN ids : ids[m] = ids[n] => m = n
  BY <1>1, KeptLists, KeptIdsAre DEF KeptSet, KeptIds
<1>6. /\ DOMAIN codes = DOMAIN kept /\ \A n \in DOMAIN kept : codes[n] = code(kept[n])
      /\ DOMAIN acl = DOMAIN kept /\ \A n \in DOMAIN kept : acl[n] = policy(kept[n])
  BY DEF Rebuilt
<1>7. \A i \in DOMAIN all : Keep(f, i) <=>
         /\ \A j \in DOMAIN all : j > i => all[j] # all[i]
         /\ ~(OldRow(i) /\ all[i].doc \in f.removed)
  BY DEF Keep
<1>8. Buildable(f)
  <2>1. ASSUME NEW i \in DOMAIN all
        PROVE  IF OldRow(i) THEN i <= old /\ i <= old ELSE i - old <= new /\ i - old <= new
    <3>1. CASE OldRow(i)
      BY <1>2, <3>1
    <3>2. CASE ~OldRow(i)
      <4>1. i - old \in 1..new
        BY <1>2, <3>2
      <4> HIDE DEF old, new
      <4>2. QED BY <1>2, <3>2, <4>1
    <3>3. QED BY <3>1, <3>2
  <2>2. \A n \in DOMAIN kept : LET i == kept[n] IN
          IF OldRow(i) THEN i <= Len(index.codes) /\ i <= Len(index.acl)
          ELSE i - old <= Len(s.vectors) /\ i - old <= Len(s.policies)
    BY <1>4, <1>5, <2>1
  <2>3. QED BY <2>2 DEF Buildable
<1>9. \A i \in DOMAIN all : policy(i) = PolicyOf[code(i)]
  <2>1. \A i \in DOMAIN all : OldRow(i) => i \in 1..old
    <3> HIDE DEF old, new, all
    <3>1. QED BY <1>2
  <2> HIDE DEF all, old, new, s
  <2>2. QED BY <1>2, <1>3, <2>1
<1>10. Good(codes, ids, acl)
  <2> HIDE DEF codes, ids, acl, all, kept, code, policy
  <2>1. QED BY <1>5, <1>6, <1>9 DEF Good
<1> DEFINE Kept2(c, v) == \E i \in DOMAIN all : Keep(f, i) /\ all[i] = c /\ code(i) = v
<1>11. ASSUME NEW c, NEW v PROVE Holds(codes, ids, c, v) <=> Kept2(c, v)
  <2> HIDE DEF codes, ids, all, kept, code
  <2>1. QED BY <1>5, <1>6 DEF Holds
<1>12. ASSUME NEW c \in ChunkIds, NEW v \in Versions, Kept2(c, v)
       PROVE  Will(s, f.removed, c, v)
  <2>1. PICK i \in DOMAIN all : Keep(f, i) /\ all[i] = c /\ code(i) = v
    BY <1>12
  <2>2. /\ \A j \in DOMAIN all : j > i => all[j] # c
        /\ OldRow(i) => c.doc \notin f.removed
    BY <1>7, <2>1
  <2>3. CASE OldRow(i)
    <3>1. i \in 1..old /\ i \in Int /\ i <= old
      <4> HIDE DEF old, new, all
      <4>1. QED BY <1>2, <2>3
    <3>2. Holds(index.codes, index.ids, c, v)
      <4>1. index.ids[i] = c /\ index.codes[i] = v
        BY <1>2, <2>1, <2>3, <3>1
      <4>2. QED BY <1>2, <3>1, <4>1 DEF Holds
    <3>3. ASSUME c \in ToSet(s.ids) PROVE FALSE
      <4>1. PICK j \in 1..new : s.ids[j] = c
        BY <1>2, <3>3 DEF ToSet
      <4>2. old + j \in DOMAIN all /\ all[old + j] = c
        BY <1>2, <4>1
      <4>3. old + j > i
        <5> HIDE DEF old, new
        <5>1. QED BY <1>2, <3>1
      <4>4. QED BY <2>2, <4>2, <4>3
    <3>4. QED BY <2>2, <2>3, <3>2, <3>3 DEF Will
  <2>4. CASE ~OldRow(i)
    <3>1. i - old \in 1..new /\ s.ids[i - old] = c /\ s.vectors[i - old] = v
      BY <1>2, <2>1, <2>4
    <3>2. Holds(s.vectors, s.ids, c, v)
      BY <1>2, <3>1 DEF Holds
    <3>3. QED BY <3>2 DEF Will
  <2>5. QED BY <2>3, <2>4
<1>13. ASSUME NEW c \in ChunkIds, NEW v \in Versions, Holds(s.vectors, s.ids, c, v)
       PROVE  Kept2(c, v)
  <2>1. PICK r \in 1..new : s.ids[r] = c /\ s.vectors[r] = v
    BY <1>2, <1>13 DEF Holds
  <2> DEFINE i == old + r
  <2>2. i \in DOMAIN all /\ ~OldRow(i) /\ all[i] = c /\ code(i) = v
    BY <1>2, <2>1
  <2>3. ASSUME NEW j \in DOMAIN all, j > i, all[j] = c PROVE FALSE
    <3>1. ~OldRow(j)
      <4>1. r \in Int /\ r >= 1 /\ old \in Int
        BY <1>2
      <4>2. j \in Int /\ (OldRow(j) <=> j <= old)
        BY <1>2, Zenon
      <4> HIDE DEF old
      <4>3. QED BY <2>3, <4>1, <4>2
    <3>2. j - old \in 1..new /\ s.ids[j - old] = c
      BY <1>2, <2>3, <3>1
    <3>3. j - old = r
      BY <1>3, <2>1, <3>2
    <3>4. j \in Int /\ r \in Int /\ old \in Int
      BY <1>2
    <3> HIDE DEF old
    <3>5. QED BY <2>3, <3>3, <3>4
  <2>4. Keep(f, i)
    <3> HIDE DEF i, all
    <3>1. QED BY <1>7, <2>2, <2>3
  <2> HIDE DEF i
  <2>5. QED BY <2>2, <2>4
<1>14. ASSUME NEW c \in ChunkIds, NEW v \in Versions,
              Holds(index.codes, index.ids, c, v), c.doc \notin f.removed, c \notin ToSet(s.ids)
       PROVE  Kept2(c, v)
  <2>1. PICK r \in 1..old : index.ids[r] = c /\ index.codes[r] = v
    BY <1>2, <1>14 DEF Holds
  <2>2. r \in DOMAIN all /\ OldRow(r) /\ all[r] = c /\ code(r) = v
    <3>1. r \in DOMAIN all /\ all[r] = c
      BY <1>2, <2>1
    <3>2. r \in Int /\ r <= old
      <4> HIDE DEF old, new, all
      <4>1. QED BY <1>2
    <3>3. OldRow(r)
      BY <1>2, <3>1, <3>2
    <3>4. QED BY <2>1, <3>1, <3>3
  <2>3. ASSUME NEW j \in DOMAIN all, j > r, all[j] = c PROVE FALSE
    <3>1. CASE OldRow(j)
      <4>1. j \in 1..old /\ j \in Int /\ r \in Int
        <5> HIDE DEF old, new, all
        <5>1. QED BY <1>2, <3>1
      <4>2. index.ids[j] = c
        BY <1>2, <2>3, <4>1
      <4>3. j = r
        BY <1>3, <2>1, <4>1, <4>2
      <4>4. QED BY <2>3, <4>1, <4>3
    <3>2. CASE ~OldRow(j)
      <4>1. j - old \in DOMAIN s.ids /\ s.ids[j - old] = c
        BY <1>2, <2>3, <3>2
      <4>2. QED BY <1>14, <4>1 DEF ToSet
    <3>3. QED BY <3>1, <3>2
  <2>4. Keep(f, r)
    <3> HIDE DEF all
    <3>1. QED BY <1>7, <1>14, <2>2, <2>3
  <2>5. QED BY <2>2, <2>4
<1>15. \A c \in ChunkIds, v \in Versions : Holds(codes, ids, c, v) <=> Will(s, f.removed, c, v)
  <2> HIDE DEF Kept2, codes, ids
  <2>1. QED BY <1>11, <1>12, <1>13, <1>14 DEF Will
<1>16. QED BY <1>8, <1>10, <1>15

(* Of which version the store has a chunk.                                 *)
LEMMA StoredVersionIs ==
  ASSUME NEW c \in ChunkIds, NEW w \in Versions \cup {None}, StoredAs(c.doc, w), NEW v \in Versions
  PROVE  StoredVersion(c, v) <=> w = v /\ c.ordinal <= Length[v]
<1>1. chunks[c] = IF w # None /\ c.ordinal <= Length[w] THEN ChunkOf(w) ELSE None
  BY DEF StoredAs, Of
<1>2. None # v /\ \A u \in Versions : ChunkOf(u) # None /\ ChunkOf(u).text = u
  BY NoneIsNone DEF ChunkOf
<1>3. QED BY <1>1, <1>2 DEF StoredVersion

(* What is staged and removed beside an index at rest goes right.          *)
LEMMA TakeGoesRight ==
  ASSUME TypesInvariant, StoreSteps, RowsAtRest, Batch, writer.at \in {"idle", "embed", "flush"}
  PROVE  /\ Good(staged.vectors, staged.ids, staged.policies)
         /\ \A c \in ChunkIds, v \in Versions : Will(staged, removed, c, v) <=> Current(c, v)
<1>0. WriterTyped /\ StoreTyped /\ IndexTyped
  BY DEF TypesInvariant
<1>1. ASSUME NEW c \in ChunkIds, NEW v \in Versions, ~Own(c)
      PROVE  /\ c.doc \notin removed /\ ~Waits(c.doc)
             /\ Holds(index.codes, index.ids, c, v) <=> StoredVersion(c, v)
  BY <1>1 DEF RowsAtRest, Own, Waits
<1>2. ASSUME writer.at # "idle", NEW c \in ChunkIds, NEW v \in Versions, Own(c),
             Holds(index.codes, index.ids, c, v)
      PROVE  c.doc \in removed
  <2>1. PICK r \in DOMAIN index.ids : index.ids[r] = c
    BY <1>2 DEF Holds
  <2>2. index.ids[r].doc = writer.doc
    BY <1>2, <2>1 DEF Own
  <2>3. writer.doc \in removed
    BY <1>2, <2>2 DEF RowsAtRest
  <2>4. QED BY <1>2, <2>3 DEF Own
<1>3. CASE writer.at # "flush"
  <2>1. staged = NoStaged /\ writer.at \in {"idle", "embed"}
    BY <1>3 DEF Batch, Adding
  <2>2. DOMAIN staged.ids = {} /\ DOMAIN staged.vectors = {} /\ DOMAIN staged.policies = {}
    BY <2>1, NoStagedTyped
  <2>3. Good(staged.vectors, staged.ids, staged.policies)
    BY <2>2 DEF Good
  <2>4. ASSUME NEW c \in ChunkIds, NEW v \in Versions
        PROVE  Will(staged, removed, c, v) <=> Current(c, v)
    <3>1. ~Holds(staged.vectors, staged.ids, c, v) /\ c \notin ToSet(staged.ids)
      BY <2>2 DEF Holds, ToSet
    <3>2. CASE Own(c)
      <4>1. writer.at # "idle" /\ Waits(c.doc)
        BY <2>1, <3>2 DEF Own, Waits
      <4>2. QED BY <1>2, <3>1, <3>2, <4>1 DEF Will, Current
    <3>3. CASE ~Own(c)
      BY <1>1, <3>1, <3>3 DEF Will, Current
    <3>4. QED BY <3>2, <3>3
  <2>5. QED BY <2>3, <2>4
<1>4. CASE writer.at = "flush"
  <2> DEFINE n == Len(staged.policies)
             w == writer.version
             d == writer.doc
  <2>1. /\ w \in Versions /\ d \in Docs /\ documents[d] \in {None, w} /\ StoredAs(d, documents[d])
        /\ Length[w] \in Nat /\ None # w
    <3>1. w \in Versions /\ d \in Docs
      BY <1>0, <1>4 DEF WriterTyped
    <3>2. documents[d] \in {None, w} /\ StoredAs(d, documents[d])
      BY <1>4, <3>1 DEF StoreSteps, PutEnded
    <3>3. QED BY <3>1, <3>2, LongestIs, NoneIsNone
  <2>2. /\ Len(staged.vectors) = n /\ Len(staged.ids) = n /\ n \in Nat
        /\ DOMAIN staged.vectors = 1..n /\ DOMAIN staged.ids = 1..n /\ DOMAIN staged.policies = 1..n
    <3> DEFINE p == staged.policies
               q == staged.vectors
               i == staged.ids
    <3>1. p \in Seq(Policies) /\ q \in Seq(Versions) /\ i \in Seq(ChunkIds)
      BY <1>0 DEF IndexTyped, Staged
    <3>2. Len(q) = Len(p) /\ Len(i) = Len(p)
      BY <1>4 DEF Batch
    <3> HIDE DEF p, q, i
    <3>3. Len(p) \in Nat /\ DOMAIN p = 1..Len(p) /\ DOMAIN q = 1..Len(q) /\ DOMAIN i = 1..Len(i)
      BY <3>1, LenProperties
    <3>4. QED BY <3>2, <3>3 DEF p, q, i
  <2>3. /\ \A i \in 1..n : staged.ids[i] = [doc |-> d, ordinal |-> i]
        /\ \A i \in 1..n : staged.vectors[i] = w /\ staged.policies[i] = PolicyOf[w]
        /\ n = IF documents[d] = None THEN 0 ELSE Length[w]
    <3> HIDE DEF n
    <3>1. QED BY <1>4, <2>2 DEF Batch, n
  <2> HIDE DEF n, d, w
  <2>4. \A i \in 1..n : staged.ids[i].doc = d /\ staged.ids[i].ordinal = i
    <3> DEFINE ids == staged.ids
    <3>1. \A i \in 1..n : ids[i] = [doc |-> d, ordinal |-> i]
      BY <2>3
    <3> HIDE DEF ids
    <3>2. ASSUME NEW i \in 1..n PROVE ids[i].doc = d /\ ids[i].ordinal = i
      <4>1. ids[i] = [doc |-> d, ordinal |-> i]
        BY <3>1
      <4>2. QED BY <4>1
    <3>3. QED BY <3>2 DEF ids
  <2>5. Good(staged.vectors, staged.ids, staged.policies)
    <3>1. \A q, r \in 1..n : staged.ids[q] = staged.ids[r] => q = r
      BY <2>4
    <3>2. QED BY <2>2, <2>3, <3>1 DEF Good
  <2>6. ASSUME NEW c \in ChunkIds
        PROVE  c = [doc |-> c.doc, ordinal |-> c.ordinal] /\ c.ordinal \in Nat \ {0}
    <3>1. c = [doc |-> c.doc, ordinal |-> c.ordinal] /\ c.ordinal \in 1..Longest
      BY ChunkIdsAre
    <3>2. QED BY <3>1, LongestIs
  <2>7. ASSUME NEW c \in ChunkIds, NEW v \in Versions
        PROVE  Holds(staged.vectors, staged.ids, c, v) <=> c.doc = d /\ c.ordinal <= n /\ v = w
    <3>1. ASSUME NEW r \in 1..n, staged.ids[r] = c, staged.vectors[r] = v
          PROVE  c.doc = d /\ c.ordinal <= n /\ v = w
      <4>1. c.doc = d /\ c.ordinal = r /\ v = w
        BY <2>3, <2>4, <3>1
      <4>2. QED BY <2>2, <4>1
    <3>2. ASSUME c.doc = d, c.ordinal <= n, v = w
          PROVE  \E r \in 1..n : staged.ids[r] = c /\ staged.vectors[r] = v
      <4>1. c.ordinal \in 1..n
        BY <2>2, <2>6, <3>2
      <4>2. staged.ids[c.ordinal] = c /\ staged.vectors[c.ordinal] = v
        BY <2>3, <2>6, <3>2, <4>1
      <4>3. QED BY <4>1, <4>2
    <3>3. QED BY <2>2, <3>1, <3>2 DEF Holds
  <2>8. ASSUME NEW c \in ChunkIds, NEW v \in Versions
        PROVE  Will(staged, removed, c, v) <=> Current(c, v)
    <3>1. ~Waits(c.doc)
      BY <1>4 DEF Waits
    <3>2. CASE c.doc # d
      <4>1. ~Own(c) /\ c \notin ToSet(staged.ids)
        BY <2>2, <2>4, <3>2 DEF Own, ToSet, d
      <4>2. QED BY <1>1, <2>7, <3>1, <3>2, <4>1 DEF Will, Current
    <3>3. CASE c.doc = d
      <4>1. Own(c)
        BY <1>4, <3>3 DEF Own, d
      <4>2. Will(staged, removed, c, v) <=> c.ordinal <= n /\ v = w
        BY <1>2, <1>4, <2>7, <3>3, <4>1 DEF Will
      <4>3. StoredVersion(c, v) <=> documents[d] = v /\ c.ordinal <= Length[v]
        BY <2>1, <3>3, StoredVersionIs
      <4>4. (c.ordinal <= n /\ v = w) <=> (documents[d] = v /\ c.ordinal <= Length[v])
        <5>1. CASE documents[d] = None
          BY <2>3, <2>6, <5>1, NoneIsNone
        <5>2. CASE documents[d] = w
          BY <2>1, <2>3, <5>2
        <5>3. QED BY <2>1, <5>1, <5>2
      <4>5. QED BY <3>1, <4>2, <4>3, <4>4 DEF Current
    <3>4. QED BY <3>2, <3>3
  <2>9. QED BY <2>5, <2>8
<1>5. QED BY <1>3, <1>4

(* The steps of a flush that goes right.                                   *)
LEMMA FlushStepGoesRight ==
  ASSUME TypesInvariant, NEW t \in Threads, flushing[t] # None, FlushGoesRight(flushing[t]),
         FlushStep(t) \/ FlushRaises(t), UNCHANGED <<documents, chunks, writer>>,
         staged = NoStaged, removed = {}, writer.at \in {"idle", "embed"}
  PROVE  /\ staged' = NoStaged /\ removed' = {}
         /\ \/ flushing'[t] # None /\ FlushGoesRight(flushing[t])'
            \/ flushing'[t] = None /\ RowsAtRest' /\ Batch'
<1> DEFINE f == flushing[t]
           h == flushing'[t]
<1>0. IndexTyped /\ FlushesTyped /\ DOMAIN flushing = Threads /\ DOMAIN index = {"codes", "ids", "acl"}
  BY DEF TypesInvariant, FlushesTyped, IndexTyped
<1>1. \A c : \A v : Current(c, v)' <=> Current(c, v)
  BY DEF Current, StoredVersion, Waits
<1>2. FlushBuild(t) \/ FlushRaises(t) => f.stage = "build" /\ f \in Taken
  BY <1>0, Stages DEF FlushBuild, FlushRaises
<1>3. f.stage = "build" => Buildable(f)
  <2> HAVE f.stage = "build"
  <2>1. /\ Good(index.codes, index.ids, index.acl)
        /\ Good(f.staged.vectors, f.staged.ids, f.staged.policies) /\ f \in Taken
    BY <1>0, Stages DEF FlushGoesRight
  <2> HIDE DEF f
  <2>2. QED BY <1>0, <2>1, FlushBuilds
<1>4. staged' = NoStaged /\ removed' = {} /\ ~FlushRaises(t)
  BY <1>3 DEF FlushStep, FlushBuild, FlushIds, FlushAcl, FlushRaises
<1>5. CASE FlushBuild(t)
  <2> DEFINE codes == Rebuilt(f, index.codes, f.staged.vectors)
             acl == Rebuilt(f, index.acl, f.staged.policies)
  <2>1. /\ Good(index.codes, index.ids, index.acl)
        /\ Good(f.staged.vectors, f.staged.ids, f.staged.policies) /\ f \in Taken
        /\ \A c \in ChunkIds, v \in Versions : Will(f.staged, f.removed, c, v) <=> Current(c, v)
    BY <1>2, <1>5 DEF FlushGoesRight
  <2>2. /\ Good(codes, KeptIds(f), acl)
        /\ \A c \in ChunkIds, v \in Versions : Holds(codes, KeptIds(f), c, v) <=> Will(f.staged, f.removed, c, v)
    <3> HIDE DEF f
    <3>1. QED BY <1>0, <2>1, FlushBuilds
  <2>3. h = [stage |-> "ids", ids |-> KeptIds(f), acl |-> acl] /\ index' = [index EXCEPT !.codes = codes]
    BY <1>0, <1>5 DEF FlushBuild, KeptIds
  <2> HIDE DEF f, codes, acl
  <2>4. index'.codes = codes /\ h.stage = "ids" /\ h.ids = KeptIds(f) /\ h.acl = acl /\ h # None
    <3>1. index'.codes = codes
      BY <1>0, <2>3
    <3> HIDE DEF h
    <3>2. h.stage = "ids" /\ h.ids = KeptIds(f) /\ h.acl = acl
      BY <2>3
    <3>3. h # None
      <4>1. h \in Built
        <5>1. TypesInvariant /\ FlushesTyped' /\ IndexTyped'
          BY <1>0, <1>5, FlushTyped DEF FlushStep
        <5>2. h \in {None} \cup Taken \cup Built
          BY <5>1 DEF FlushesTyped, h
        <5>3. KeptIds(f) \in Seq(ChunkIds) /\ acl \in Seq(Policies)
          <6>1. /\ f.staged \in Staged /\ index.ids \in Seq(ChunkIds)
                /\ index.acl \in Seq(Policies) /\ f.staged.policies \in Seq(Policies)
            BY <1>0, <2>1 DEF Taken, Staged, IndexTyped
          <6>2. KeptIds(f) \in Seq(ChunkIds)
            BY <6>1, KeptIdsAre
          <6>3. Buildable(f) /\ Len(index.ids) = Len(index.ids)
            BY <1>5 DEF FlushBuild, f
          <6>4. \A n \in DOMAIN Kept(f) :
                   IF OldRow(Kept(f)[n]) THEN Kept(f)[n] <= Len(index.acl)
                   ELSE Kept(f)[n] - Len(index.ids) <= Len(f.staged.policies)
            BY <6>3 DEF Buildable
          <6>5. QED BY <6>1, <6>2, <6>4, RebuiltTyped DEF acl
        <5>4. QED BY <2>3, <5>3 DEF Built
      <4>2. QED BY <4>1, NoneIsNone
    <3>4. QED BY <3>1, <3>2, <3>3
  <2>5. /\ Good(index'.codes, h.ids, h.acl)
        /\ \A c \in ChunkIds, v \in Versions : Holds(index'.codes, h.ids, c, v) <=> Current(c, v)
    <3> HIDE DEF h
    <3>1. QED BY <2>1, <2>2, <2>4
  <2>6. FlushGoesRight(flushing[t])'
    <3>1. Good(index.codes, flushing[t].ids, flushing[t].acl)'
      BY <2>5 DEF Good
    <3>2. \A c \in ChunkIds, v \in Versions : Holds(index'.codes, h.ids, c, v) <=> Current(c, v)'
      BY <1>1, <2>5
    <3>3. QED BY <2>4, <3>1, <3>2 DEF FlushGoesRight, Holds
  <2>7. QED BY <1>4, <2>4, <2>6
<1>6. CASE FlushIds(t)
  <2>1. /\ f.stage = "ids" /\ index' = [index EXCEPT !.ids = f.ids]
        /\ h = [f EXCEPT !.stage = "acl"] /\ f \in Built
        /\ Good(index.codes, f.ids, f.acl)
        /\ \A c \in ChunkIds, v \in Versions : Holds(index.codes, f.ids, c, v) <=> Current(c, v)
    BY <1>0, <1>6, Stages DEF FlushIds, FlushGoesRight
  <2>2. DOMAIN f = {"stage", "ids", "acl"} /\ f.ids \in Seq(ChunkIds) /\ f.acl \in Seq(Policies)
    BY <2>1 DEF Built
  <2> HIDE DEF f
  <2>3. /\ index'.codes = index.codes /\ index'.ids = f.ids
        /\ h.stage = "acl" /\ h.acl = f.acl
    BY <1>0, <2>1, <2>2
  <2>4. h # None
    <3>1. h \in Built
      BY <2>1 DEF Built
    <3>2. QED BY <3>1, NoneIsNone
  <2>5. FlushGoesRight(flushing[t])'
    <3>1. Good(index'.codes, index'.ids, h.acl)
      <4> HIDE DEF h
      <4>1. QED BY <2>1, <2>3
    <3>2. \A c \in ChunkIds, v \in Versions : Holds(index'.codes, index'.ids, c, v) <=> Current(c, v)'
      BY <1>1, <2>1, <2>3
    <3>3. QED BY <2>3, <3>1, <3>2 DEF FlushGoesRight, Holds, Good
  <2>6. QED BY <1>4, <2>4, <2>5
<1>7. CASE FlushAcl(t)
  <2>1. /\ f.stage = "acl" /\ index' = [index EXCEPT !.acl = f.acl] /\ h = None
        /\ Good(index.codes, index.ids, f.acl)
        /\ \A c \in ChunkIds, v \in Versions : Holds(index.codes, index.ids, c, v) <=> Current(c, v)
    BY <1>0, <1>7 DEF FlushAcl, FlushGoesRight
  <2>2. index'.codes = index.codes /\ index'.ids = index.ids /\ index'.acl = f.acl
    BY <1>0, <2>1
  <2>3. Good(index'.codes, index'.ids, index'.acl)
    BY <2>1, <2>2
  <2>4. ASSUME NEW c \in ChunkIds, NEW v \in Versions, ~Own(c)
        PROVE  Holds(index.codes, index.ids, c, v) <=> StoredVersion(c, v)
    BY <2>1, <2>4 DEF Current, Own, Waits
  <2>5. ASSUME writer.at = "embed", NEW r \in DOMAIN index.ids
        PROVE  index.ids[r].doc # writer.doc
    <3>1. index.ids[r] \in ChunkIds /\ index.codes[r] \in Versions
      <4> DEFINE ids == index.ids
                 codes == index.codes
      <4>1. ids \in Seq(ChunkIds) /\ codes \in Seq(Versions) /\ r \in DOMAIN ids /\ DOMAIN codes = DOMAIN ids
        BY <1>0, <2>1, <2>5 DEF IndexTyped, Good
      <4> HIDE DEF ids, codes
      <4>2. r \in 1..Len(ids) /\ r \in 1..Len(codes)
        BY <4>1, LenProperties
      <4>3. ids[r] \in ChunkIds /\ codes[r] \in Versions
        BY <4>1, <4>2, ElementOfSeq
      <4>4. QED BY <4>3 DEF ids, codes
    <3>2. Holds(index.codes, index.ids, index.ids[r], index.codes[r])
      BY <2>5 DEF Holds
    <3>3. ~Waits(index.ids[r].doc)
      BY <2>1, <3>1, <3>2 DEF Current
    <3>4. QED BY <2>5, <3>3 DEF Waits
  <2>6. RowsAtRest'
    <3>1. \A c \in ChunkIds, v \in Versions :
            ~Own(c)' => (Holds(index'.codes, index'.ids, c, v) <=> StoredVersion(c, v)')
      BY <2>2, <2>4 DEF Own, StoredVersion
    <3>2. writer'.at \in Adding \cup {"embed", "drop", "flush"} => writer.at = "embed"
      BY DEF Adding
    <3>3. QED BY <1>4, <2>2, <2>3, <2>5, <3>1, <3>2 DEF RowsAtRest, Holds, Good
  <2>7. Batch'
    <3>1. writer'.at \notin Adding \cup {"flush"}
      BY DEF Adding
    <3>2. QED BY <1>4, <3>1 DEF Batch, Adding
  <2>8. QED BY <1>4, <2>1, <2>6, <2>7
<1>8. QED BY <1>4, <1>5, <1>6, <1>7 DEF FlushStep

-----------------------------------------------------------------------------
(* Between flushes: the ingestion changes the chunks of its own document.  *)
Busy == Adding \cup {"embed", "drop", "flush"}

LEMMA PutKeepsRest ==
  ASSUME RowsAtRest, UNCHANGED <<index, removed>>, writer.at # "idle", writer'.at # "idle",
         writer'.doc = writer.doc, writer'.at \in Busy => writer.at \in Busy,
         \A c \in ChunkIds : c.doc # writer.doc => chunks'[c] = chunks[c]
  PROVE  RowsAtRest'
<1>1. \A c : Own(c)' <=> Own(c)
  BY DEF Own
<1>2. ASSUME NEW c \in ChunkIds, NEW v \in Versions, ~Own(c)'
      PROVE  Holds(index.codes, index.ids, c, v)' <=> StoredVersion(c, v)'
  <2>1. ~Own(c) /\ chunks'[c] = chunks[c]
    BY <1>1, <1>2 DEF Own
  <2>2. Holds(index.codes, index.ids, c, v) <=> StoredVersion(c, v)
    BY <2>1 DEF RowsAtRest
  <2>3. QED BY <2>1, <2>2 DEF Holds, StoredVersion
<1>3. writer'.at \in Busy =>
        \A r \in DOMAIN index.ids : index.ids[r].doc = writer.doc => writer.doc \in removed
  BY DEF RowsAtRest, Busy
<1>4. Good(index.codes, index.ids, index.acl)' /\ \A d \in removed : d = writer.doc
  BY DEF RowsAtRest, Good
<1>5. QED BY <1>2, <1>3, <1>4 DEF RowsAtRest, Busy

(* A list that is appended to. *)
LEMMA AppendIs ==
  ASSUME NEW X, NEW s \in Seq(X), NEW e \in X
  PROVE  /\ Len(s) \in Nat /\ DOMAIN s = 1..Len(s) /\ Len(Append(s, e)) = Len(s) + 1
         /\ \A k \in DOMAIN Append(s, e) :
              \/ k \in DOMAIN s /\ Append(s, e)[k] = s[k]
              \/ k = Len(s) + 1 /\ Append(s, e)[k] = e
<1> DEFINE n == Len(s)
           q == Append(s, e)
<1>1. n \in Nat /\ DOMAIN s = 1..n
  BY LenProperties
<1>2. q \in Seq(X) /\ Len(q) = n + 1 /\ (\A k \in 1..n : q[k] = s[k]) /\ q[n + 1] = e
  BY AppendProperties
<1>3. DOMAIN q = 1..(n + 1)
  BY <1>2, LenProperties
<1> HIDE DEF n, q
<1>4. \A k \in 1..(n + 1) : k \in 1..n \/ k = n + 1
  BY <1>1
<1>5. QED BY <1>1, <1>2, <1>3, <1>4 DEF n, q

(* add: one list of the three at a time. *)
LEMMA AddKeepsBatch ==
  ASSUME IndexTyped, WriterTyped, StoreSteps, Batch, add
  PROVE  Batch'
<1> DEFINE d == writer.doc
           w == writer.version
           todo == writer.todo
           vs == staged.vectors
           is == staged.ids
           ps == staged.policies
           n == Len(ps)
           size == Length[w]
<1>1. /\ writer.at \in Adding /\ d \in Docs /\ w \in Versions /\ todo \in Seq(ChunkIds) /\ todo # <<>>
      /\ vs \in Seq(Versions) /\ is \in Seq(ChunkIds) /\ ps \in Seq(Policies)
      /\ DOMAIN writer = {"at", "doc", "version", "todo"} /\ DOMAIN staged = {"vectors", "ids", "policies"}
      /\ documents' = documents /\ documents[d] = w /\ w # None /\ PolicyOf[w] \in Policies
  <2>1. writer.at \in Adding /\ documents' = documents
    BY DEF add, AddTo, At, Adding, storeVars
  <2>2. d \in Docs /\ w \in Versions /\ todo \in Seq(ChunkIds) /\ todo # <<>> /\ DOMAIN writer = {"at", "doc", "version", "todo"}
    BY <2>1 DEF WriterTyped, Adding
  <2>3. documents[d] = w /\ w # None /\ PolicyOf[w] \in Policies
    BY <2>1, <2>2, NoneIsNone, RetrievalAssumption DEF StoreSteps
  <2>4. QED BY <2>1, <2>2, <2>3 DEF IndexTyped, Staged
<1>2. /\ \A i \in DOMAIN is : is[i] = [doc |-> d, ordinal |-> i]
      /\ \A i \in DOMAIN vs : vs[i] = w
      /\ \A i \in DOMAIN ps : ps[i] = PolicyOf[w]
      /\ Len(vs) = IF writer.at \in {"ids", "policies"} THEN n + 1 ELSE n
      /\ Len(is) = IF writer.at = "policies" THEN n + 1 ELSE n
      /\ n + Len(todo) = size
      /\ \A i \in DOMAIN todo : todo[i] = [doc |-> d, ordinal |-> n + i]
  BY <1>1 DEF Batch
<1>3. add => \/ /\ writer.at = "vectors" /\ staged' = [staged EXCEPT !.vectors = Append(vs, w)]
                /\ writer' = [writer EXCEPT !.at = "ids"]
             \/ /\ writer.at = "ids" /\ staged' = [staged EXCEPT !.ids = Append(is, Head(todo))]
                /\ writer' = [writer EXCEPT !.at = "policies"]
             \/ /\ writer.at = "policies" /\ staged' = [staged EXCEPT !.policies = Append(ps, PolicyOf[w])]
                /\ writer' = [writer EXCEPT !.at = IF Len(todo) = 1 THEN "flush" ELSE "vectors",
                                            !.todo = Tail(todo)]
  BY DEF add, AddTo, At
<1> HIDE DEF d, w, todo, vs, is, ps, size
<1>4. /\ Len(todo) \in Nat \ {0} /\ DOMAIN todo = 1..Len(todo) /\ Head(todo) = todo[1] /\ Head(todo) \in ChunkIds
      /\ Len(Tail(todo)) = Len(todo) - 1 /\ DOMAIN Tail(todo) = 1..(Len(todo) - 1)
      /\ \A i \in 1..(Len(todo) - 1) : i + 1 \in 1..Len(todo) /\ Tail(todo)[i] = todo[i + 1]
  BY <1>1, TailIs
<1>5. n \in Nat /\ 1 \in DOMAIN todo
  BY <1>1, <1>4, LenProperties
<1> HIDE DEF n
<1>6. Head(todo) = [doc |-> d, ordinal |-> n + 1]
  BY <1>2, <1>4, <1>5
<1>7. CASE writer.at = "vectors"
  <2>1. /\ writer'.at = "ids" /\ writer'.doc = d /\ writer'.version = w /\ writer'.todo = todo
        /\ staged'.vectors = Append(vs, w) /\ staged'.ids = is /\ staged'.policies = ps
    BY <1>1, <1>3, <1>7 DEF d, w, todo, vs, is, ps
  <2>2. Len(Append(vs, w)) = n + 1 /\ Len(is) = n /\ \A k \in DOMAIN Append(vs, w) : Append(vs, w)[k] = w
    BY <1>1, <1>2, <1>7, AppendIs
  <2>3. QED BY <1>2, <2>1, <2>2 DEF Batch, Adding, n, size
<1>8. CASE writer.at = "ids"
  <2>1. /\ writer'.at = "policies" /\ writer'.doc = d /\ writer'.version = w /\ writer'.todo = todo
        /\ staged'.vectors = vs /\ staged'.ids = Append(is, Head(todo)) /\ staged'.policies = ps
    BY <1>1, <1>3, <1>8 DEF d, w, todo, vs, is, ps
  <2>2. Len(vs) = n + 1 /\ Len(is) = n
    BY <1>2, <1>8
  <2>3. /\ Len(Append(is, Head(todo))) = n + 1
        /\ \A k \in DOMAIN Append(is, Head(todo)) :
             \/ k \in DOMAIN is /\ Append(is, Head(todo))[k] = is[k]
             \/ k = n + 1 /\ Append(is, Head(todo))[k] = Head(todo)
    BY <1>1, <1>4, <2>2, AppendIs
  <2>4. \A k \in DOMAIN Append(is, Head(todo)) : Append(is, Head(todo))[k] = [doc |-> d, ordinal |-> k]
    BY <1>2, <1>6, <2>3
  <2>5. QED BY <1>2, <2>1, <2>2, <2>3, <2>4 DEF Batch, Adding, n, size
<1>9. CASE writer.at = "policies"
  <2> DEFINE qs == Append(ps, PolicyOf[w])
  <2>1. /\ writer'.at = IF Len(todo) = 1 THEN "flush" ELSE "vectors"
        /\ writer'.doc = d /\ writer'.version = w /\ writer'.todo = Tail(todo)
        /\ staged'.vectors = vs /\ staged'.ids = is /\ staged'.policies = qs
    BY <1>1, <1>3, <1>9 DEF d, w, todo, vs, is, ps
  <2>2. Len(vs) = n + 1 /\ Len(is) = n + 1
    BY <1>2, <1>9
  <2>3. Len(qs) = n + 1 /\ \A k \in DOMAIN qs : qs[k] = PolicyOf[w]
    <3>1. /\ Len(qs) = n + 1
          /\ \A k \in DOMAIN qs : (k \in DOMAIN ps /\ qs[k] = ps[k]) \/ (k = n + 1 /\ qs[k] = PolicyOf[w])
      BY <1>1, AppendIs DEF n
    <3> HIDE DEF qs
    <3>2. QED BY <1>2, <3>1
  <2> HIDE DEF qs
  <2>4. (n + 1) + Len(Tail(todo)) = size /\ (Len(todo) = 1 => n + 1 = size)
    <3> DEFINE m == Len(todo)
    <3>1. m \in Nat \ {0} /\ Len(Tail(todo)) = m - 1 /\ n + m = size
      BY <1>2, <1>4
    <3> HIDE DEF m
    <3>2. (n + 1) + (m - 1) = size /\ (m = 1 => n + 1 = size)
      BY <1>5, <3>1
    <3>3. QED BY <3>1, <3>2 DEF m
  <2>5. ASSUME NEW i \in DOMAIN Tail(todo)
        PROVE  Tail(todo)[i] = [doc |-> d, ordinal |-> (n + 1) + i]
    <3> DEFINE m == Len(todo)
    <3>1. i \in 1..(m - 1) /\ i + 1 \in DOMAIN todo /\ Tail(todo)[i] = todo[i + 1] /\ m \in Nat
      BY <1>4
    <3> HIDE DEF m
    <3>2. n + (i + 1) = (n + 1) + i
      BY <1>5, <3>1
    <3>3. todo[i + 1] = [doc |-> d, ordinal |-> n + (i + 1)]
      BY <1>2, <3>1
    <3>4. QED BY <3>1, <3>2, <3>3
  <2>6. CASE Len(todo) = 1
    <3>1. writer'.at = "flush" /\ documents'[writer'.doc] = w
      BY <1>1, <2>1, <2>6
    <3>2. QED BY <1>1, <1>2, <2>1, <2>2, <2>3, <2>4, <2>6, <3>1 DEF Batch, Adding, size
  <2>7. CASE Len(todo) # 1
    <3>1. writer'.at = "vectors"
      BY <2>1, <2>7
    <3>2. QED BY <1>2, <2>1, <2>2, <2>3, <2>4, <2>5, <3>1 DEF Batch, Adding, size
  <2>8. QED BY <2>6, <2>7
<1>10. QED BY <1>1, <1>7, <1>8, <1>9 DEF Adding

(* Nothing but what is staged moves in the index beside the ingestion.     *)
LEMMA WriterKeepsRest ==
  ASSUME TypesInvariant, StoreOK, StoreSteps, StoreSteps', RowsAtRest, Batch,
         mode = "serial", WriterStep, ~WriterFlush, ~WriterFlushes
  PROVE  RowsAtRest' /\ Batch' /\ flushing' = flushing
<1>0. /\ WriterTyped /\ IndexTyped /\ StoreTyped /\ StoreOK /\ DOMAIN chunks = ChunkIds
      /\ DOMAIN writer = {"at", "doc", "version", "todo"} /\ DOMAIN documents = Docs
  BY DEF TypesInvariant, WriterTyped, StoreOK, StoreTyped
<1>1. /\ writer.at # "idle" => writer.doc \in Docs /\ writer.version \in Versions /\ writer.version # None
      /\ writer.todo # <<>> =>
           /\ Head(writer.todo) \in ChunkIds /\ Head(writer.todo) = writer.todo[1] /\ 1 \in DOMAIN writer.todo
  <2>1. writer.at # "idle" => writer.doc \in Docs /\ writer.version \in Versions /\ writer.version # None
    BY <1>0, NoneIsNone DEF WriterTyped
  <2> DEFINE todo == writer.todo
  <2>2. todo \in Seq(ChunkIds)
    BY <1>0 DEF WriterTyped
  <2> HIDE DEF todo
  <2>3. todo # <<>> => Len(todo) \in Nat \ {0} /\ DOMAIN todo = 1..Len(todo) /\ Head(todo) = todo[1] /\ Head(todo) \in ChunkIds
    BY <2>2, TailIs
  <2>4. todo # <<>> => 1 \in DOMAIN todo
    BY <2>3
  <2>5. QED BY <2>1, <2>3, <2>4 DEF todo
<1>2. ASSUME UNCHANGED indexVars, writer.at \notin Adding \cup {"flush"}, writer'.at \notin Adding \cup {"flush"}
      PROVE  Batch'
  BY <1>2 DEF Batch, indexVars
<1>3. ASSUME UNCHANGED indexVars, writer.at \notin Adding \cup {"flush"}, writer'.at = "flush",
             IF documents'[writer'.doc] = None THEN TRUE ELSE Length[writer'.version] = 0
      PROVE  Batch'
  <2>1. staged' = NoStaged
    BY <1>3 DEF Batch, indexVars
  <2>2. /\ DOMAIN NoStaged.ids = {} /\ DOMAIN NoStaged.vectors = {} /\ DOMAIN NoStaged.policies = {}
        /\ Len(NoStaged.ids) = 0 /\ Len(NoStaged.vectors) = 0 /\ Len(NoStaged.policies) = 0
    BY NoStagedTyped
  <2>3. writer'.at \notin Adding /\ writer'.at \notin {"ids", "policies"}
    BY <1>3 DEF Adding
  <2>4. QED BY <1>3, <2>1, <2>2, <2>3 DEF Batch
<1> USE DEF At, WriterMay, Goto, AsIfWriter
<1>4. CASE NewDocument
  <2>1. /\ writer.at = "idle" /\ writer'.at = "put"
        /\ UNCHANGED <<documents, chunks, index, staged, removed, flushing>>
    BY <1>4 DEF NewDocument, storeVars, indexVars
  <2>2. writer.at \notin Adding \cup {"flush"} /\ writer'.at \notin Adding \cup {"flush"}
    BY <2>1 DEF Adding
  <2>3. removed = {} /\ \A c : ~Own(c)
    BY <2>1 DEF RowsAtRest, Own
  <2>4. \A c \in ChunkIds, v \in Versions : Holds(index.codes, index.ids, c, v)' <=> StoredVersion(c, v)'
    BY <2>1, <2>3 DEF RowsAtRest, Holds, StoredVersion
  <2>5. writer'.at \notin Adding \cup {"embed", "drop", "flush"}
    BY <2>1 DEF Adding
  <2>6. Good(index.codes, index.ids, index.acl)' /\ removed' = {}
    BY <2>1, <2>3 DEF RowsAtRest, Good
  <2>7. RowsAtRest'
    BY <2>4, <2>5, <2>6 DEF RowsAtRest
  <2>8. QED BY <1>2, <2>1, <2>2, <2>7 DEF indexVars
<1>5. ASSUME writer.at \in {"put", "embed"}, UNCHANGED indexVars,
             NEW deleting \in {"delete", "drop"}, NEW deleted \in {"document", "flush"},
             deleting = "drop" \/ deleted = "flush" => writer.at = "embed",
             Delete(deleting, deleted)
      PROVE  RowsAtRest' /\ Batch' /\ flushing' = flushing
  <2>1. /\ writer.at # "idle" /\ writer.at \notin Adding \cup {"flush"}
        /\ deleting \notin Adding \cup {"flush"} /\ deleted \notin Adding
        /\ \A place \in {deleting, deleted} : place \in Busy => writer.at \in Busy
    BY <1>5 DEF Adding, Busy
  <2>2. CASE kind = "memory"
    <3>1. writer'.at = deleting /\ writer'.doc = writer.doc /\ chunks' = chunks
      BY <1>0, <1>5, <2>2 DEF Delete
    <3>2. RowsAtRest'
      BY <1>5, <2>1, <3>1, PutKeepsRest DEF indexVars
    <3>3. QED BY <1>2, <1>5, <2>1, <3>1, <3>2 DEF indexVars
  <2>3. CASE kind = "postgres"
    <3>1. /\ writer' = [writer EXCEPT !.at = deleted] /\ documents' = [documents EXCEPT ![writer.doc] = None]
          /\ chunks' = WithoutDoc(chunks, writer.doc)
      BY <1>5, <2>3 DEF Delete
    <3>2. writer'.at = deleted /\ writer'.doc = writer.doc /\ documents'[writer'.doc] = None
      BY <1>0, <1>1, <2>1, <3>1
    <3>3. \A c \in ChunkIds : c.doc # writer.doc => chunks'[c] = chunks[c]
      BY <3>1 DEF WithoutDoc
    <3>4. RowsAtRest'
      BY <1>5, <2>1, <3>2, <3>3, PutKeepsRest DEF indexVars
    <3>5. Batch'
      <4>1. CASE deleted = "flush"
        BY <1>3, <1>5, <2>1, <3>2, <4>1
      <4>2. CASE deleted # "flush"
        <5>1. writer'.at \notin Adding \cup {"flush"}
          BY <2>1, <3>2, <4>2
        <5>2. QED BY <1>2, <1>5, <2>1, <5>1
      <4>3. QED BY <4>1, <4>2
    <3>6. QED BY <1>5, <3>4, <3>5 DEF indexVars
  <2>4. QED BY <1>5, <2>2, <2>3 DEF Delete
<1>6. CASE Put
  BY <1>5, <1>6 DEF Put
<1>7. CASE PutDelete
  <2>1. /\ writer.at \in {"delete", "drop"} /\ UNCHANGED indexVars
        /\ \A i \in DOMAIN writer.todo : writer.todo[i].doc = writer.doc
    BY <1>7 DEF PutDelete, StoreSteps
  <2>2. CASE writer.todo # <<>>
    <3>1. /\ chunks' = [chunks EXCEPT ![Head(writer.todo)] = None]
          /\ writer' = [writer EXCEPT !.todo = Tail(writer.todo)]
      BY <1>7, <2>2 DEF PutDelete
    <3>2. writer'.at = writer.at /\ writer'.doc = writer.doc /\ Head(writer.todo).doc = writer.doc
      BY <1>0, <1>1, <2>1, <2>2, <3>1
    <3>3. \A c \in ChunkIds : c.doc # writer.doc => chunks'[c] = chunks[c]
      BY <1>0, <3>1, <3>2
    <3>4. RowsAtRest'
      BY <2>1, <3>2, <3>3, PutKeepsRest DEF indexVars
    <3>5. QED BY <1>2, <2>1, <3>2, <3>4 DEF indexVars, Adding
  <2>3. CASE writer.todo = <<>>
    <3>1. /\ chunks' = chunks /\ documents' = [documents EXCEPT ![writer.doc] = None]
          /\ writer' = [writer EXCEPT !.at = IF writer.at = "delete" THEN "document" ELSE "flush"]
      BY <1>7, <2>3 DEF PutDelete
    <3>2. /\ writer'.at = IF writer.at = "delete" THEN "document" ELSE "flush"
          /\ writer'.doc = writer.doc /\ documents'[writer'.doc] = None
      BY <1>0, <1>1, <2>1, <3>1
    <3>3. writer.at \notin Adding \cup {"flush"} /\ (writer'.at \in Busy => writer.at \in Busy)
      BY <2>1, <3>2 DEF Adding, Busy
    <3>4. RowsAtRest'
      BY <2>1, <3>1, <3>2, <3>3, PutKeepsRest DEF indexVars
    <3>5. Batch'
      <4>1. CASE writer.at = "delete"
        <5>1. writer'.at \notin Adding \cup {"flush"}
          BY <3>2, <4>1 DEF Adding
        <5>2. QED BY <1>2, <2>1, <3>3, <5>1
      <4>2. CASE writer.at # "delete"
        BY <1>3, <2>1, <3>2, <3>3, <4>2
      <4>3. QED BY <4>1, <4>2
    <3>6. QED BY <2>1, <3>4, <3>5 DEF indexVars
  <2>4. QED BY <2>2, <2>3
<1>8. CASE PutDocument
  <2>1. /\ writer.at = "document" /\ writer' = [writer EXCEPT !.at = "chunks", !.todo = NewChunks]
        /\ UNCHANGED <<indexVars, chunks>>
    BY <1>8 DEF PutDocument
  <2>2. writer'.at = "chunks" /\ writer'.doc = writer.doc /\ writer'.at \notin Busy
    BY <1>0, <2>1 DEF Busy, Adding
  <2>3. RowsAtRest'
    BY <2>1, <2>2, PutKeepsRest DEF indexVars
  <2>4. QED BY <1>2, <2>1, <2>2, <2>3 DEF indexVars, Adding
<1>9. CASE PutChunk
  <2>1. /\ writer.at = "chunks" /\ UNCHANGED indexVars
        /\ \A i \in DOMAIN writer.todo : writer.todo[i].doc = writer.doc
    BY <1>9 DEF PutChunk, StoreSteps
  <2>2. /\ \/ chunks' = chunks
           \/ writer.todo # <<>> /\ chunks' = [chunks EXCEPT ![Head(writer.todo)] = ChunkOf(writer.version)]
           \/ chunks' = [c \in ChunkIds |-> IF c \in ToSet(NewChunks) THEN ChunkOf(writer.version) ELSE chunks[c]]
        /\ writer'.doc = writer.doc /\ writer'.at \in {"chunks", "remove"}
    BY <1>0, <1>9 DEF PutChunk
  <2>3. \A c \in ChunkIds : c.doc # writer.doc => chunks'[c] = chunks[c]
    <3>1. \A c \in ChunkIds : c \in ToSet(NewChunks) => c.doc = writer.doc
      <4>1. writer.doc \in Docs /\ writer.version \in Versions
        BY <1>1, <2>1
      <4> DEFINE d == writer.doc
                 v == writer.version
      <4> HIDE DEF d, v
      <4>2. \A c \in ChunkIds : c \in ToSet(ChunksOf(d, v)) => c.doc = d
        BY <4>1, ChunksOfAre DEF d, v
      <4>3. QED BY <4>1, <4>2, NewChunksAre DEF d, v
    <3>2. QED BY <1>0, <1>1, <2>1, <2>2, <3>1
  <2>4. writer'.at \notin Busy
    BY <2>2 DEF Busy, Adding
  <2>5. RowsAtRest'
    BY <2>1, <2>2, <2>3, <2>4, PutKeepsRest DEF indexVars
  <2>6. QED BY <1>2, <2>1, <2>2, <2>5 DEF indexVars, Adding
<1>10. CASE remove_document
  <2>1. /\ writer.at = "remove" /\ UNCHANGED <<documents, chunks, index, staged, flushing>>
        /\ removed' = removed \cup {writer.doc}
        /\ writer' = [writer EXCEPT !.at = IF NewChunks = <<>> THEN "flush" ELSE "embed"]
    BY <1>10 DEF remove_document, storeVars
  <2>2. /\ writer'.at = IF NewChunks = <<>> THEN "flush" ELSE "embed"
        /\ writer'.doc = writer.doc /\ writer'.version = writer.version
    BY <1>0, <2>1
  <2>3. RowsAtRest'
    <3>1. \A c : Own(c)' <=> Own(c)
      BY <2>1, <2>2 DEF Own
    <3>2. \A c \in ChunkIds, v \in Versions :
            ~Own(c)' => (Holds(index.codes, index.ids, c, v)' <=> StoredVersion(c, v)')
      BY <2>1, <3>1 DEF RowsAtRest, Holds, StoredVersion
    <3>3. writer'.doc \in removed' /\ \A d \in removed' : writer'.at # "idle" /\ d = writer'.doc
      BY <2>1, <2>2 DEF RowsAtRest
    <3>4. Good(index.codes, index.ids, index.acl)'
      BY <2>1 DEF RowsAtRest, Good
    <3>5. QED BY <3>2, <3>3, <3>4 DEF RowsAtRest
  <2>4. staged' = NoStaged
    BY <2>1 DEF Batch, Adding
  <2>5. NewChunks = <<>> => Length[writer.version] = 0
    <3> DEFINE d == writer.doc
               v == writer.version
    <3>1. d \in Docs /\ v \in Versions
      BY <1>1, <2>1
    <3> HIDE DEF d, v
    <3>2. Len(ChunksOf(d, v)) = Length[v]
      BY <3>1, ChunksOfAre
    <3>3. NewChunks = ChunksOf(d, v)
      BY <3>1, NewChunksAre DEF d, v
    <3>4. QED BY <3>2, <3>3 DEF v
  <2>6. Batch'
    <3>1. /\ DOMAIN NoStaged.ids = {} /\ DOMAIN NoStaged.vectors = {} /\ DOMAIN NoStaged.policies = {}
          /\ Len(NoStaged.ids) = 0 /\ Len(NoStaged.vectors) = 0 /\ Len(NoStaged.policies) = 0
      BY NoStagedTyped
    <3>2. CASE NewChunks = <<>>
      <4>1. writer'.at = "flush" /\ writer'.at \notin Adding /\ writer'.at \notin {"ids", "policies"}
        BY <2>2, <3>2 DEF Adding
      <4>2. Length[writer'.version] = 0
        BY <2>2, <2>5, <3>2
      <4>3. QED BY <2>4, <3>1, <4>1, <4>2 DEF Batch
    <3>3. CASE NewChunks # <<>>
      <4>1. writer'.at \notin Adding \cup {"flush"}
        BY <2>2, <3>3 DEF Adding
      <4>2. QED BY <2>4, <4>1 DEF Batch
    <3>4. QED BY <3>2, <3>3
  <2>7. QED BY <2>1, <2>3, <2>6
<1>11. CASE Embed
  <2>1. /\ writer.at = "embed" /\ UNCHANGED indexVars /\ writer.at \in Busy /\ staged' = NoStaged
        /\ writer.at \notin Adding \cup {"flush"}
    BY <1>11 DEF Embed, Busy, Batch, Adding, indexVars
  <2>2. CASE writer' = [writer EXCEPT !.at = "vectors", !.todo = NewChunks] /\ UNCHANGED storeVars
    <3> DEFINE d == writer.doc
               v == writer.version
               news == NewChunks
    <3>1. d \in Docs /\ v \in Versions
      BY <1>1, <2>1
    <3>2. /\ writer'.at = "vectors" /\ writer'.doc = d /\ writer'.version = v /\ writer'.todo = news
      BY <1>0, <2>2
    <3> HIDE DEF d, v, news
    <3>3. news = ChunksOf(d, v)
      BY <3>1, NewChunksAre DEF d, v, news
    <3>4. Len(news) = Length[v] /\ DOMAIN news = 1..Length[v] /\ \A i \in 1..Length[v] : news[i] = [doc |-> d, ordinal |-> i]
      BY <3>1, <3>3, ChunksOfAre
    <3>5. Length[v] \in Nat
      BY <3>1, LongestIs
    <3>6. 0 + Len(news) = Length[v] /\ \A i \in DOMAIN news : news[i] = [doc |-> d, ordinal |-> 0 + i]
      <4> DEFINE n == Length[v]
      <4>1. n \in Nat /\ Len(news) = n /\ DOMAIN news = 1..n /\ \A i \in 1..n : news[i] = [doc |-> d, ordinal |-> i]
        BY <3>4, <3>5
      <4> HIDE DEF n
      <4>2. \A i \in 1..n : 0 + i = i
        BY <4>1
      <4>3. 0 + Len(news) = n /\ \A i \in DOMAIN news : news[i] = [doc |-> d, ordinal |-> 0 + i]
        BY <4>1, <4>2
      <4>4. QED BY <4>3 DEF n
    <3>7. RowsAtRest'
      BY <2>1, <2>2, <3>2, PutKeepsRest DEF indexVars, storeVars, d
    <3>8. /\ DOMAIN NoStaged.ids = {} /\ DOMAIN NoStaged.vectors = {} /\ DOMAIN NoStaged.policies = {}
          /\ Len(NoStaged.ids) = 0 /\ Len(NoStaged.vectors) = 0 /\ Len(NoStaged.policies) = 0
      BY NoStagedTyped
    <3>9. Batch'
      BY <2>1, <3>2, <3>6, <3>8 DEF Batch, Adding
    <3>10. QED BY <2>1, <3>7, <3>9 DEF indexVars
  <2>3. CASE Delete("drop", "flush")
    BY <1>5, <2>1, <2>3
  <2>4. QED BY <1>11, <2>2, <2>3 DEF Embed
<1>12. CASE add
  <2>1. /\ writer.at \in Adding /\ UNCHANGED <<documents, chunks, index, removed, flushing>>
        /\ writer'.doc = writer.doc /\ writer'.version = writer.version
        /\ writer'.at \in Adding \cup {"flush"} /\ writer'.at # "idle" /\ writer.at \in Busy /\ writer.at # "idle"
    BY <1>0, <1>12 DEF add, AddTo, storeVars, Adding, Busy
  <2>2. RowsAtRest'
    BY <2>1, PutKeepsRest
  <2>3. Batch'
    BY <1>0, <1>12, <2>1, AddKeepsBatch
  <2>4. QED BY <2>1, <2>2, <2>3
<1>13. QED
  BY <1>4, <1>6, <1>7, <1>8, <1>9, <1>10, <1>11, <1>12 DEF WriterStep

-----------------------------------------------------------------------------
(* The index beside the store, step by step.                               *)
(* What a flush takes beside an index at rest goes right.                  *)
LEMMA TakenGoesRight ==
  ASSUME IndexTyped, FlushesTyped, NEW t \in Threads, FlushTake(t), RowsAtRest,
         Good(staged.vectors, staged.ids, staged.policies),
         \A c \in ChunkIds, v \in Versions : Will(staged, removed, c, v) <=> Current(c, v),
         \A c \in ChunkIds, v \in Versions : Current(c, v)' <=> Current(c, v)
  PROVE  FlushGoesRight(flushing[t])'
<1>1. flushing'[t] = [stage |-> "build", staged |-> staged, removed |-> removed] /\ index' = index
  BY TakeTyped DEF FlushTake
<1>2. flushing'[t].stage = "build" /\ flushing'[t].staged = staged /\ flushing'[t].removed = removed
  BY <1>1
<1>3. ASSUME NEW c \in ChunkIds, NEW v \in Versions
      PROVE  Will(flushing[t].staged, flushing[t].removed, c, v)' <=> Will(staged, removed, c, v)
  BY <1>1, <1>2 DEF Will, Holds
<1>4. Good(flushing[t].staged.vectors, flushing[t].staged.ids, flushing[t].staged.policies)'
  BY <1>2 DEF Good
<1>5. Good(index.codes, index.ids, index.acl)'
  BY <1>1 DEF RowsAtRest, Good
<1>6. \A c \in ChunkIds, v \in Versions :
        Will(flushing[t].staged, flushing[t].removed, c, v)' <=> Current(c, v)'
  BY <1>3
<1>7. QED BY <1>2, <1>4, <1>5, <1>6 DEF FlushGoesRight

(* Neither thread does what the index beside the store would not bear.     *)
LEMMA SerialIndexOfWriter ==
  ASSUME TypesInvariant, StoreOK, StoreSteps, StoreSteps', SerialIndex, mode = "serial", WriterStep
  PROVE  SerialIndex' /\ call.at = "idle" /\ call' = call
<1>0. IndexTyped /\ FlushesTyped /\ WriterTyped /\ "writer" \in Threads /\ "reader" \in Threads
  BY DEF TypesInvariant, Threads
<1>1. call' = call
  BY DEF WriterStep, NewDocument, Put, Delete, PutDelete, PutDocument, PutChunk, remove_document,
         Embed, add, AddTo, WriterFlush, WriterFlushes, AsIfWriter
<1>2. WriterFlushes => flushing["writer"] # None
  BY <1>0, FlushTyped DEF WriterFlushes
<1>3. ~WriterFlushes => flushing["writer"] = None /\ call.at = "idle"
  BY DEF WriterStep, NewDocument, Put, Delete, PutDelete, PutDocument, PutChunk, remove_document,
         Embed, add, AddTo, WriterFlush, At, WriterMay
<1>4. call.at = "idle" /\ flushing["reader"] = None
  <2>1. call.at # "idle" => flushing["writer"] = None
    BY DEF SerialIndex
  <2>2. flushing["reader"] # None => call.at = "rows"
    BY DEF SerialIndex
  <2>3. call.at = "idle"
    BY <1>2, <1>3, <2>1
  <2>4. QED BY <2>2, <2>3
<1>5. ASSUME flushing'["reader"] = None,
             \/ (\A t \in Threads : flushing'[t] = None) /\ RowsAtRest' /\ Batch'
             \/ /\ flushing'["writer"] # None /\ FlushGoesRight(flushing["writer"])'
                /\ staged' = NoStaged /\ removed' = {}
      PROVE  SerialIndex'
  BY <1>0, <1>1, <1>4, <1>5 DEF SerialIndex
<1>6. CASE WriterFlushes
  <2>1. flushing["writer"] # None /\ writer.at = "idle" /\ UNCHANGED <<documents, chunks, writer>>
    BY <1>0, <1>2, <1>6 DEF WriterTyped, WriterFlushes, storeVars
  <2>2. FlushGoesRight(flushing["writer"]) /\ staged = NoStaged /\ removed = {}
    BY <1>4, <2>1 DEF SerialIndex, Threads
  <2>3. FlushStep("writer") \/ FlushRaises("writer")
    BY <1>6 DEF WriterFlushes
  <2>4. /\ staged' = NoStaged /\ removed' = {}
        /\ \/ flushing'["writer"] # None /\ FlushGoesRight(flushing["writer"])'
           \/ flushing'["writer"] = None /\ RowsAtRest' /\ Batch'
    BY <1>0, <2>1, <2>2, <2>3, FlushStepGoesRight
  <2>5. flushing'["reader"] = None
    BY <1>0, <1>4, <2>3, FlushTyped
  <2>6. QED BY <1>1, <1>4, <1>5, <2>4, <2>5 DEF Threads
<1>7. ASSUME ~WriterFlushes PROVE RowsAtRest /\ Batch /\ \A t \in Threads : flushing[t] = None
  BY <1>3, <1>4, <1>7 DEF SerialIndex, Threads
<1>8. CASE WriterFlush
  <2>1. /\ writer.at = "flush" /\ FlushTake("writer") /\ writer' = Idle /\ UNCHANGED <<documents, chunks>>
        /\ index' = index /\ staged' = NoStaged /\ removed' = {}
    BY <1>8 DEF WriterFlush, At, FlushTake, storeVars
  <2>2. ~WriterFlushes
    BY <1>0, <1>2, <2>1 DEF WriterTyped
  <2>3. /\ Good(staged.vectors, staged.ids, staged.policies)
        /\ \A c \in ChunkIds, v \in Versions : Will(staged, removed, c, v) <=> Current(c, v)
    BY <1>7, <2>1, <2>2, TakeGoesRight
  <2>4. /\ \A u \in Threads : u # "writer" => flushing'[u] = flushing[u]
        /\ flushing'["writer"] = [stage |-> "build", staged |-> staged, removed |-> removed]
        /\ flushing'["writer"] # None
    BY <1>0, <2>1, TakeTyped
  <2>5. \A c \in ChunkIds, v \in Versions : Current(c, v)' <=> Current(c, v)
    BY <2>1 DEF Current, Waits, StoredVersion, Idle
  <2>6. FlushGoesRight(flushing["writer"])'
    BY <1>0, <1>7, <2>1, <2>2, <2>3, <2>5, TakenGoesRight
  <2>7. QED BY <1>0, <1>1, <1>4, <1>5, <2>1, <2>4, <2>6
<1>9. CASE ~WriterFlushes /\ ~WriterFlush
  <2>1. RowsAtRest' /\ Batch' /\ flushing' = flushing
    BY <1>7, <1>9, WriterKeepsRest
  <2>2. QED BY <1>1, <1>4, <1>5, <1>7, <1>9, <2>1
<1>10. QED BY <1>1, <1>4, <1>6, <1>8, <1>9

LEMMA RestIsKept ==
  ASSUME UNCHANGED <<documents, chunks, writer, index, staged, removed>>, RowsAtRest, Batch
  PROVE  RowsAtRest' /\ Batch'
<1>1. Batch'
  BY DEF Batch
<1>2. Good(index.codes, index.ids, index.acl)' /\ \A d \in removed' : writer'.at # "idle" /\ d = writer'.doc
  BY DEF RowsAtRest, Good
<1>3. \A c \in ChunkIds, v \in Versions :
        ~Own(c)' => (Holds(index.codes, index.ids, c, v)' <=> StoredVersion(c, v)')
  BY DEF RowsAtRest, Holds, StoredVersion, Own
<1>4. writer'.at \in Adding \cup {"embed", "drop", "flush"} =>
        \A r \in DOMAIN index'.ids : index'.ids[r].doc = writer'.doc => writer'.doc \in removed'
  BY DEF RowsAtRest
<1>5. QED BY <1>1, <1>2, <1>3, <1>4 DEF RowsAtRest

LEMMA SerialIndexOfReader ==
  ASSUME TypesInvariant, DOMAIN call = DOMAIN NoCall, StoreSteps, SerialIndex, SerialCall,
         mode = "serial", ReaderStep
  PROVE  SerialIndex'
<1>0. IndexTyped /\ FlushesTyped /\ WriterTyped /\ "writer" \in Threads /\ "reader" \in Threads
  BY DEF TypesInvariant, Threads
<1>1. UNCHANGED <<writer, documents, chunks>>
  BY DEF ReaderStep, Begin, simulate, EmbedQuery, FlushIfStaged, SearchLeaky, Rows, Scan, chunk_id_at,
         get_chunks, Recheck, Rank, Answered, ReaderFlushes, Asks, storeVars
<1>2. Resting /\ flushing["writer"] = None
  <2>1. call.at # "idle" => Resting /\ flushing["writer"] = None
    BY DEF SerialIndex
  <2>2. Begin => Resting /\ flushing["writer"] = None
    BY DEF Begin
  <2>3. ReaderFlushes => call.at # "idle"
    <3>1. ReaderFlushes => flushing["reader"] # None
      BY <1>0, FlushTyped DEF ReaderFlushes
    <3>2. QED BY <3>1 DEF SerialIndex
  <2>4. ~Begin /\ ~ReaderFlushes => call.at # "idle"
    BY DEF ReaderStep, simulate, EmbedQuery, FlushIfStaged, SearchLeaky, Rows, Scan, chunk_id_at,
           get_chunks, Recheck, Rank, Answered, Asks
  <2>5. QED BY <2>1, <2>2, <2>3, <2>4
<1>3. writer.at \in {"idle", "embed"} /\ Resting'
  BY <1>1, <1>2 DEF Resting
<1>4. ASSUME flushing'["writer"] = None, flushing'["reader"] # None => call'.at = "rows",
             \/ flushing'["reader"] = None /\ RowsAtRest' /\ Batch'
             \/ /\ flushing'["reader"] # None /\ FlushGoesRight(flushing["reader"])'
                /\ staged' = NoStaged /\ removed' = {}
      PROVE  SerialIndex'
  BY <1>3, <1>4 DEF SerialIndex, Threads
<1>5. CASE ReaderFlushes
  <2>1. FlushStep("reader") \/ FlushRaises("reader")
    BY <1>5 DEF ReaderFlushes
  <2>2. flushing["reader"] # None /\ flushing'["writer"] = None
    BY <1>0, <1>2, <2>1, FlushTyped
  <2>3. FlushGoesRight(flushing["reader"]) /\ staged = NoStaged /\ removed = {} /\ call.at = "rows"
    BY <1>2, <2>2 DEF SerialIndex, Threads
  <2>4. /\ staged' = NoStaged /\ removed' = {}
        /\ \/ flushing'["reader"] # None /\ FlushGoesRight(flushing["reader"])'
           \/ flushing'["reader"] = None /\ RowsAtRest' /\ Batch'
    BY <1>0, <1>1, <1>3, <2>1, <2>2, <2>3, FlushStepGoesRight
  <2>5. flushing'["reader"] # None => call'.at = "rows"
    <3>1. CASE UNCHANGED call
      BY <2>3, <3>1
    <3>2. CASE FlushRaises("reader")
      BY <1>0, <3>2 DEF FlushRaises, FlushesTyped
    <3>3. QED BY <1>5, <3>1, <3>2 DEF ReaderFlushes
  <2>6. QED BY <1>4, <2>2, <2>4, <2>5
<1>6. ASSUME ~ReaderFlushes PROVE flushing["reader"] = None /\ RowsAtRest /\ Batch
  <2>1. flushing["reader"] = None
    BY <1>6 DEF ReaderStep, Begin, simulate, EmbedQuery, FlushIfStaged, SearchLeaky, Rows, Scan, chunk_id_at,
                get_chunks, Recheck, Rank, Answered, Asks
  <2>2. QED BY <1>2, <2>1 DEF SerialIndex, Threads
<1>7. CASE ~ReaderFlushes /\ UNCHANGED indexVars
  BY <1>1, <1>2, <1>4, <1>6, <1>7, RestIsKept DEF indexVars
<1>8. CASE FlushIfStaged /\ ~ReaderFlushes /\ ~UNCHANGED indexVars
  <2>1. /\ FlushTake("reader") /\ index' = index /\ staged' = NoStaged /\ removed' = {} /\ ~Settled
        /\ call' = [call EXCEPT !.at = After[call.at], !.asked = @ \cup {"index"}]
    BY <1>8 DEF FlushIfStaged, FlushTake
  <2>2. call.at = "search"
    <3>1. call.at \in Searching => staged = NoStaged /\ removed = {}
      BY DEF SerialCall
    <3>2. call.at \notin Searching
      BY <2>1, <3>1, NoStagedTyped DEF Settled
    <3>3. QED BY <1>8, <3>2 DEF FlushIfStaged, Asks, Searching
  <2>3. flushing'["reader"] # None => call'.at = "rows"
    BY <2>1, <2>2 DEF After, NoCall
  <2>4. /\ Good(staged.vectors, staged.ids, staged.policies)
        /\ \A c \in ChunkIds, v \in Versions : Will(staged, removed, c, v) <=> Current(c, v)
    BY <1>3, <1>6, <1>8, TakeGoesRight
  <2>5. /\ \A u \in Threads : u # "reader" => flushing'[u] = flushing[u]
        /\ flushing'["reader"] = [stage |-> "build", staged |-> staged, removed |-> removed]
        /\ flushing'["reader"] # None
    BY <1>0, <2>1, TakeTyped
  <2>6. \A c \in ChunkIds, v \in Versions : Current(c, v)' <=> Current(c, v)
    BY <1>1 DEF Current, Waits, StoredVersion
  <2>7. FlushGoesRight(flushing["reader"])'
    BY <1>0, <1>6, <1>8, <2>1, <2>4, <2>6, TakenGoesRight
  <2>8. QED BY <1>0, <1>2, <1>4, <2>1, <2>3, <2>5, <2>7
<1>9. UNCHANGED indexVars \/ FlushIfStaged \/ ReaderFlushes
  BY DEF ReaderStep, Begin, simulate, EmbedQuery, SearchLeaky, Rows, Scan, chunk_id_at,
         get_chunks, Recheck, Rank, Answered, AsIfReader
<1>10. QED BY <1>5, <1>7, <1>8, <1>9

-----------------------------------------------------------------------------
(* What a call finds in the index beside the store. *)
LEMMA SetToSeqLists ==
  ASSUME NEW T, IsFiniteSet(T)
  PROVE  /\ SetToSeq(T) \in Seq(T) /\ Len(SetToSeq(T)) = Cardinality(T) /\ Cardinality(T) \in Nat
         /\ ToSet(SetToSeq(T)) = T
<1> DEFINE n == Cardinality(T)
           s == SetToSeq(T)
<1>1. n \in Nat /\ ExistsBijection(1..n, T)
  BY FS_CardinalityType
<1>2. PICK b : b \in Bijection(1..n, T)
  BY <1>1 DEF ExistsBijection
<1>3. b \in [1..n -> T] /\ IsInjective(b)
  BY <1>2 DEF Bijection, Injection, IsInjective
<1>4. s \in [1..n -> T] /\ IsInjective(s)
  <2>1. s = CHOOSE f \in [1..n -> T] : IsInjective(f)
    BY DEF SetToSeq
  <2> HIDE DEF s, n
  <2>2. QED BY <1>3, <2>1
<1> HIDE DEF n, s
<1>5. IsFiniteSet(1..n) /\ Cardinality(1..n) = n
  <2>1. 1 \in Int /\ n \in Int /\ (1 > n => n = 0)
    BY <1>1
  <2>2. QED BY <1>1, <2>1, FS_Interval
<1>6. s \in Surjection(1..n, T)
  <2>1. s \in Injection(1..n, T)
    BY <1>4 DEF Injection, IsInjective
  <2>2. Cardinality(1..n) = Cardinality(T)
    BY <1>5 DEF n
  <2>3. QED BY <2>1, <2>2, FS_Injection
<1>7. ToSet(s) = T
  <2>1. \A t \in T : \E i \in 1..n : s[i] = t
    BY <1>6 DEF Surjection
  <2>2. DOMAIN s = 1..n /\ \A i \in 1..n : s[i] \in T
    BY <1>4
  <2>3. QED BY <2>1, <2>2 DEF ToSet
<1>8. s \in Seq(T) /\ Len(s) = n
  BY <1>1, <1>4, SeqDef, LenProperties
<1>9. QED BY <1>1, <1>7, <1>8 DEF n, s

(* The rows the caller may scan are those of the chunks it is owed. *)
LEMMA RowsAreWanted ==
  ASSUME TypesInvariant, StoreOK, RowsAtRest, Resting, removed = {}
  PROVE  /\ DOMAIN index.codes = DOMAIN index.ids /\ IsFiniteSet(PermittedRows)
         /\ PermittedRows \subseteq DOMAIN index.ids
         /\ \A q, r \in DOMAIN index.ids : index.ids[q] = index.ids[r] => q = r
         /\ \A r \in PermittedRows :
              index.ids[r] \in Wanted /\ index.codes[r] \in Versions /\ MayRead(index.codes[r])
         /\ \A c \in Wanted : \E r \in PermittedRows : index.ids[r] = c
<1> DEFINE ids == index.ids
           codes == index.codes
           acl == index.acl
<1>0. IndexTyped /\ writer.at \in {"idle", "embed"}
  BY DEF TypesInvariant, Resting
<1>1. /\ ids \in Seq(ChunkIds) /\ codes \in Seq(Versions) /\ acl \in Seq(Policies)
      /\ DOMAIN codes = DOMAIN ids /\ DOMAIN acl = DOMAIN ids
      /\ \A r \in DOMAIN ids : acl[r] = PolicyOf[codes[r]]
      /\ \A q, r \in DOMAIN ids : ids[q] = ids[r] => q = r
  BY <1>0 DEF IndexTyped, RowsAtRest, Good
<1>2. PermittedRows = {r \in DOMAIN acl : admits(acl[r], S)}
  BY DEF PermittedRows
<1>3. ASSUME NEW c \in ChunkIds, NEW v \in Versions
      PROVE  Holds(codes, ids, c, v) <=> Current(c, v)
  <2>1. CASE Own(c)
    <3>1. Waits(c.doc)
      BY <1>0, <2>1 DEF Own, Waits
    <3>2. ASSUME NEW r \in DOMAIN ids, ids[r] = c PROVE FALSE
      <4>1. writer.at = "embed" /\ ids[r].doc = writer.doc
        BY <1>0, <2>1, <3>2 DEF Own
      <4>2. writer.doc \in removed
        BY <4>1 DEF RowsAtRest
      <4>3. QED BY <4>2
    <3>3. QED BY <3>1, <3>2 DEF Holds, Current
  <2>2. CASE ~Own(c)
    <3>1. ~Waits(c.doc)
      BY <2>2 DEF Own, Waits
    <3>2. QED BY <2>2, <3>1 DEF RowsAtRest, Current
  <2>3. QED BY <2>1, <2>2
<1> HIDE DEF ids, codes, acl
<1>4. /\ DOMAIN ids = 1..Len(ids) /\ Len(ids) \in Nat
      /\ \A r \in DOMAIN ids : ids[r] \in ChunkIds /\ codes[r] \in Versions
  <2>1. DOMAIN ids = 1..Len(ids) /\ Len(ids) \in Nat /\ DOMAIN codes = 1..Len(codes)
    BY <1>1, LenProperties
  <2>2. \A r \in 1..Len(ids) : ids[r] \in ChunkIds
    BY <1>1, ElementOfSeq
  <2>3. \A r \in 1..Len(codes) : codes[r] \in Versions
    BY <1>1, ElementOfSeq
  <2>4. QED BY <1>1, <2>1, <2>2, <2>3
<1>5. PermittedRows \subseteq DOMAIN ids
  BY <1>1, <1>2
<1>6. IsFiniteSet(PermittedRows)
  <2>1. 1 \in Int /\ Len(ids) \in Int
    BY <1>4
  <2>2. IsFiniteSet(DOMAIN ids)
    BY <1>4, <2>1, FS_Interval
  <2>3. PermittedRows \in SUBSET (DOMAIN ids)
    BY <1>5
  <2>4. QED BY <2>2, <2>3, FS_Subset
<1>7. ASSUME NEW v \in Versions PROVE admits(PolicyOf[v], S) <=> MayRead(v)
  BY DEF admits, MayRead
<1>8. ASSUME NEW r \in PermittedRows
      PROVE  ids[r] \in Wanted /\ codes[r] \in Versions /\ MayRead(codes[r])
  <2>1. r \in DOMAIN ids /\ admits(PolicyOf[codes[r]], S) /\ ids[r] \in ChunkIds /\ codes[r] \in Versions
    BY <1>1, <1>2, <1>4
  <2>2. MayRead(codes[r])
    BY <1>7, <2>1
  <2>3. Current(ids[r], codes[r])
    BY <1>3, <2>1 DEF Holds
  <2>4. QED BY <2>1, <2>2, <2>3 DEF Wanted, Current, StoredVersion
<1>9. ASSUME NEW c \in Wanted PROVE \E r \in PermittedRows : ids[r] = c
  <2>1. c \in ChunkIds /\ chunks[c] # None /\ MayRead(chunks[c].text) /\ ~Waits(c.doc)
    BY DEF Wanted
  <2>2. chunks[c].text \in Versions
    BY <2>1 DEF StoreOK, ChunkOf
  <2>3. Current(c, chunks[c].text)
    BY <2>1 DEF Current, StoredVersion
  <2>4. PICK r \in DOMAIN ids : ids[r] = c /\ codes[r] = chunks[c].text
    BY <1>3, <2>1, <2>2, <2>3 DEF Holds
  <2>5. admits(acl[r], S)
    BY <1>1, <1>7, <2>1, <2>2, <2>4
  <2>6. QED BY <1>1, <1>2, <2>4, <2>5
<1>10. QED BY <1>1, <1>5, <1>6, <1>8, <1>9 DEF ids, codes

(* The best rows are all, or as many as k at least. *)
LEMMA ScanIsEnough ==
  ASSUME TypesInvariant, StoreOK, RowsAtRest, Resting, removed = {},
         PermittedRows # {}, call.k \in Nat \ {0},
         NEW T \in kSubset(Min({Cardinality(PermittedRows), candidate_k}), PermittedRows)
  PROVE  /\ IsFiniteSet(T) /\ T # {} /\ T \subseteq DOMAIN index.ids
         /\ Enough({index.ids[r] : r \in T})
<1> DEFINE rows == PermittedRows
           m == Cardinality(rows)
           k == call.k
           many == candidate_k
           H == {index.ids[r] : r \in T}
<1>1. /\ IsFiniteSet(rows) /\ rows \subseteq DOMAIN index.ids
      /\ \A q, r \in DOMAIN index.ids : index.ids[q] = index.ids[r] => q = r
      /\ \A r \in rows : index.ids[r] \in Wanted
      /\ \A c \in Wanted : \E r \in rows : index.ids[r] = c
  BY RowsAreWanted
<1>2. T \in SUBSET rows /\ Cardinality(T) = Min({m, many})
  BY DEF kSubset
<1>3. many \in Nat /\ many >= k /\ many > 0
  <2>1. Multiplier \in Nat \ {0} /\ k \in Nat \ {0}
    BY RetrievalAssumption
  <2> DEFINE l == Multiplier - 1
             extra == k * l
  <2>2. l \in Nat /\ Multiplier = l + 1
    BY <2>1
  <2> HIDE DEF l, k
  <2>3. extra \in Nat /\ k * Multiplier = extra + k
    BY <2>1, <2>2
  <2> HIDE DEF extra
  <2>4. many = extra + k
    BY <2>3 DEF candidate_k, k
  <2> HIDE DEF many
  <2>5. QED BY <2>1, <2>3, <2>4
<1> HIDE DEF rows, many
<1>4. m \in Nat /\ m # 0 /\ IsFiniteSet(T) /\ Cardinality(T) \in Nat /\ (m = Cardinality(T) => T = rows)
  <2>1. m \in Nat /\ m # 0
    BY <1>1, FS_CardinalityType, FS_EmptySet DEF rows
  <2>2. IsFiniteSet(T) /\ (Cardinality(rows) = Cardinality(T) => rows = T)
    BY <1>1, <1>2, FS_Subset
  <2>3. QED BY <2>1, <2>2, FS_CardinalityType
<1>5. Cardinality(T) = IF m <= many THEN m ELSE many
  <2> HIDE DEF m
  <2>1. m \in Int /\ many \in Int
    BY <1>3, <1>4
  <2>2. QED BY <1>2, <2>1, MinMaxOfTwo
<1>6. T # {}
  <2>1. Cardinality(T) # 0
    BY <1>3, <1>4, <1>5
  <2>2. QED BY <2>1, FS_EmptySet
<1>7. Cardinality(H) = Cardinality(T)
  <2> DEFINE f == [r \in T |-> index.ids[r]]
  <2>1. f \in Surjection(T, H)
    BY DEF Surjection
  <2>2. f \in Injection(T, H)
    BY <1>1, <1>2 DEF Injection, IsInjective
  <2> HIDE DEF H, f
  <2>3. QED BY <1>4, <2>1, <2>2, FS_Surjection
<1>8. H \subseteq Wanted /\ (T = rows => H = Wanted)
  BY <1>1, <1>2
<1>9. H = Wanted \/ Cardinality(H) >= k
  <2> HIDE DEF H, m
  <2>1. CASE m <= many
    BY <1>4, <1>5, <1>8, <2>1
  <2>2. CASE ~(m <= many)
    BY <1>3, <1>5, <1>7, <2>2
  <2>3. QED BY <2>1, <2>2
<1>10. QED BY <1>1, <1>2, <1>4, <1>6, <1>8, <1>9 DEF Enough

(* The store gives out the chunks that the caller is owed. *)
LEMMA WantedIsReadable ==
  ASSUME StoreOK, NEW H \in SUBSET Wanted
  PROVE  IdsOf(Readable(H)) = H /\ Readable(H) \subseteq Stored(chunks)
<1>1. Readable(H) \subseteq Stored(chunks) /\ \A x \in Readable(H) : x.id \in H
  BY DEF Readable
<1>2. ASSUME NEW c \in H PROVE \E x \in Readable(H) : x.id = c
  <2>1. c \in ChunkIds /\ chunks[c] # None /\ MayRead(chunks[c].text)
    BY DEF Wanted
  <2>2. PICK v \in Versions : chunks[c] = ChunkOf(v)
    BY <2>1 DEF StoreOK
  <2>3. chunks[c].text = v /\ chunks[c].policy = PolicyOf[v]
    BY <2>2 DEF ChunkOf
  <2>4. admits(chunks[c].policy, S)
    BY <2>1, <2>3 DEF MayRead, admits
  <2> DEFINE x == [id |-> c, text |-> chunks[c].text, policy |-> chunks[c].policy]
  <2>5. x \in Stored(chunks) /\ x.id = c /\ x.policy = chunks[c].policy
    BY <2>1 DEF Stored
  <2> HIDE DEF x
  <2>6. x \in Readable(H)
    BY <2>4, <2>5 DEF Readable
  <2>7. QED BY <2>5, <2>6
<1>3. QED BY <1>1, <1>2 DEF IdsOf

(* What is ranked best of enough is all of it, or k. *)
LEMMA RankIsEnough ==
  ASSUME NEW X \in SUBSET Stored(chunks), Enough(IdsOf(X)), call.k \in Nat \ {0},
         NEW R \in kSubset(Min({call.k, Cardinality(X)}), X)
  PROVE  Cardinality(R) = call.k \/ Wanted \subseteq IdsOf(R)
<1> DEFINE m == Cardinality(X)
           k == call.k
<1>1. IsFiniteSet(X)
  <2> DEFINE B == {c \in ChunkIds : chunks[c] # None}
             f == [c \in B |-> [id |-> c, text |-> chunks[c].text, policy |-> chunks[c].policy]]
             St == Stored(chunks)
  <2>1. B \in SUBSET ChunkIds /\ IsFiniteSet(ChunkIds)
    BY ChunkIdsAre
  <2>2. f \in Surjection(B, St)
    <3>1. St = {[id |-> c, text |-> chunks[c].text, policy |-> chunks[c].policy] : c \in B}
      BY DEF Stored
    <3>2. f \in [B -> St] /\ \A x \in St : \E c \in B : f[c] = x
      BY <3>1
    <3> HIDE DEF f, B, St
    <3>3. QED BY <3>2 DEF Surjection
  <2> HIDE DEF B, f, St
  <2>3. IsFiniteSet(B)
    BY <2>1, FS_Subset
  <2>4. IsFiniteSet(St)
    BY <2>2, <2>3, FS_Surjection
  <2>5. QED BY <2>4, FS_Subset DEF St
<1>2. m \in Nat /\ R \in SUBSET X /\ Cardinality(R) = Min({k, m})
  BY <1>1, FS_CardinalityType DEF kSubset
<1> DEFINE I == IdsOf(X)
<1>3. IsFiniteSet(I) /\ Cardinality(I) <= m /\ Cardinality(I) \in Nat
  <2> DEFINE f == [x \in X |-> x.id]
  <2>1. f \in Surjection(X, I)
    BY DEF Surjection, IdsOf
  <2> HIDE DEF I, f
  <2>2. QED BY <1>1, <2>1, FS_Surjection, FS_CardinalityType
<1>4. I \subseteq Wanted /\ (I = Wanted \/ Cardinality(I) >= k)
  BY DEF Enough
<1>5. Cardinality(R) = IF k <= m THEN k ELSE m
  <2> HIDE DEF m, k
  <2>1. m \in Int /\ k \in Int
    BY <1>2 DEF k
  <2>2. QED BY <1>2, <2>1, MinMaxOfTwo
<1>6. CASE k <= m
  BY <1>5, <1>6
<1>7. CASE ~(k <= m)
  <2>1. Cardinality(R) = Cardinality(X)
    BY <1>5, <1>7
  <2>2. R = X
    BY <1>1, <1>2, <2>1, FS_Subset
  <2>3. ~(Cardinality(I) >= k)
    <3> DEFINE i == Cardinality(I)
    <3> HIDE DEF m, k, I, i
    <3>1. i \in Nat /\ i <= m /\ m \in Nat /\ k \in Nat
      BY <1>2, <1>3 DEF i, k
    <3>2. ~(i >= k)
      BY <1>7, <3>1
    <3>3. QED BY <3>2 DEF i
  <2>4. QED BY <1>4, <2>2, <2>3
<1>8. QED BY <1>6, <1>7

-----------------------------------------------------------------------------
(* A serial retrieval, step by step: nothing that it is owed moves.        *)
LEMMA SameWanted ==
  ASSUME UNCHANGED <<documents, chunks, writer>>, call'.permitted = call.permitted
  PROVE  /\ Wanted' = Wanted /\ Stored(chunks)' = Stored(chunks) /\ Listed' = Listed
         /\ \A v : MayRead(v)' <=> MayRead(v)
<1>1. \A v : MayRead(v)' <=> MayRead(v)
  BY DEF MayRead, S
<1>2. \A d : Waits(d)' <=> Waits(d)
  BY DEF Waits
<1>3. Wanted' = Wanted
  BY <1>1, <1>2 DEF Wanted
<1>4. Stored(chunks)' = Stored(chunks)
  BY DEF Stored
<1>5. Listed' = Listed
  BY DEF Listed, explain, admits, S
<1>6. QED BY <1>1, <1>3, <1>4, <1>5

LEMMA AppendToSet ==
  ASSUME NEW X, NEW s \in Seq(X), NEW e \in X
  PROVE  /\ Append(s, e) \in Seq(X) /\ Append(s, e) # <<>>
         /\ ToSet(Append(s, e)) = ToSet(s) \cup {e}
<1> DEFINE n == Len(s)
           q == Append(s, e)
<1>1. n \in Nat /\ DOMAIN s = 1..n
  BY LenProperties
<1>2. q \in Seq(X) /\ Len(q) = n + 1 /\ (\A k \in 1..n : q[k] = s[k]) /\ q[n + 1] = e
  BY AppendProperties
<1>3. DOMAIN q = 1..(n + 1)
  BY <1>2, LenProperties
<1> HIDE DEF n, q
<1>4. 1..(n + 1) = (1..n) \cup {n + 1}
  BY <1>1
<1>5. ToSet(q) = ToSet(s) \cup {e}
  BY <1>1, <1>2, <1>3, <1>4 DEF ToSet
<1>6. q # <<>>
  BY <1>3, <1>4
<1>7. QED BY <1>2, <1>5, <1>6 DEF q

LEMMA SerialCallOfReader ==
  ASSUME TypesInvariant, ReadInvariant, SerialIndex, SerialCall, mode = "serial", ReaderStep
  PROVE  SerialCall'
<1>0. /\ DOMAIN call = DOMAIN NoCall /\ StoreOK /\ IndexTyped /\ FlushesTyped
      /\ call.k \in Nat \ {0} /\ call.fetched \cup call.shown \subseteq Stored(chunks)
      /\ \A v \in call.scanned : v \in Versions /\ MayRead(v)
      /\ call.visible # None => call.visible = Listed
      /\ "reader" \in Threads /\ "writer" \in Threads
  BY DEF ReadInvariant, CallOK, TypesInvariant, SerialCall, Threads
<1>1. UNCHANGED <<documents, chunks, writer, kind>>
  BY DEF ReaderStep, Begin, simulate, EmbedQuery, FlushIfStaged, SearchLeaky, Rows, Scan, chunk_id_at,
         get_chunks, Recheck, Rank, Answered, ReaderFlushes, Asks, storeVars, fixed
<1>2. ASSUME call'.permitted = call.permitted
      PROVE  /\ Wanted' = Wanted /\ Stored(chunks)' = Stored(chunks) /\ Listed' = Listed
             /\ \A v : MayRead(v)' <=> MayRead(v)
  BY <1>1, <1>2, SameWanted
<1>3. ASSUME call.at # "idle", flushing["reader"] = None
      PROVE  RowsAtRest /\ Batch /\ Resting
  BY <1>3 DEF SerialIndex, Threads
<1> USE DEF Asks, AsIfReader
<1>4. CASE Begin
  <2>1. /\ call'.at \in {"catalog", "embed"} /\ call'.k \in Ks /\ call'.fetched = {} /\ call'.shown = {}
        /\ call'.hits = <<>> /\ call'.scanned = {} /\ call'.visible = None
    BY <1>4 DEF Begin, NoCall
  <2>2. call'.k \in Nat \ {0}
    BY <2>1, RetrievalAssumption
  <2>3. call'.at \notin Searching \cup {"fetch", "check", "rank", "done"}
    BY <2>1 DEF Searching
  <2>4. QED BY <2>1, <2>2, <2>3 DEF SerialCall, Searching
<1>5. CASE Answered
  <2>1. /\ call'.at = "idle" /\ call'.k = 1 /\ call'.fetched = {} /\ call'.shown = {}
        /\ call'.scanned = {} /\ call'.visible = None
    BY <1>5 DEF Answered, NoCall
  <2>2. call'.at \notin Before \cup Searching
    BY <2>1 DEF Before, Searching
  <2>3. QED BY <2>1, <2>2 DEF SerialCall, Searching
<1>6. CASE simulate
  <2>1. /\ call.at = "catalog" /\ call'.at \in {"embed", "failed"} /\ call'.k = call.k
        /\ call'.permitted = call.permitted
        /\ call'.fetched = call.fetched /\ call'.shown = call.shown /\ call'.hits = call.hits
        /\ call'.scanned = call.scanned /\ call'.visible \in {Listed, call.visible}
    BY <1>0, <1>6 DEF simulate, NoCall, Listed
  <2>2. call.hits = <<>> /\ call.fetched = {}
    BY <2>1 DEF SerialCall, Before
  <2>3. call'.at \notin Searching
    BY <2>1 DEF Searching
  <2>4. call'.visible # None => call'.visible = Listed'
    BY <1>0, <1>2, <2>1
  <2>5. QED BY <1>0, <1>2, <2>1, <2>2, <2>3, <2>4 DEF SerialCall, Searching
<1>7. CASE EmbedQuery
  <2>1. /\ call.at = "embed" /\ call'.k = call.k /\ call'.permitted = call.permitted
        /\ call'.fetched = call.fetched /\ call'.shown = call.shown /\ call'.hits = call.hits
        /\ call'.scanned = call.scanned /\ call'.visible = call.visible
        /\ \/ S = {} /\ call'.at = "done"
           \/ call'.at \in {"search", "failed"}
    BY <1>0, <1>7 DEF EmbedQuery, NoCall
  <2>2. call.hits = <<>> /\ call.fetched = {}
    BY <2>1 DEF SerialCall, Before
  <2>3. call'.at \notin Searching
    BY <2>1 DEF Searching
  <2>4. S = {} => Wanted = {}
    BY DEF Wanted, MayRead
  <2>5. call'.at = "done" => Wanted' \subseteq IdsOf(call'.result)
    BY <1>2, <2>1, <2>4
  <2>6. call'.at \in {"done", "search", "failed"}
    BY <2>1
  <2>7. QED BY <1>0, <1>2, <2>1, <2>2, <2>3, <2>5, <2>6 DEF SerialCall, Searching
<1>8. CASE FlushIfStaged
  <2>1. /\ call.at \in {"search", "scan", "translate"} /\ call'.at = After[call.at]
        /\ call'.k = call.k /\ call'.permitted = call.permitted
        /\ call'.fetched = call.fetched /\ call'.shown = call.shown /\ call'.hits = call.hits
        /\ call'.rows = call.rows /\ call'.todo = call.todo
        /\ call'.scanned = call.scanned /\ call'.visible = call.visible
        /\ index' = index /\ flushing["reader"] = None
    BY <1>0, <1>8 DEF FlushIfStaged, NoCall, FlushTake, indexVars
  <2>2. staged' = NoStaged /\ removed' = {}
    <3>1. CASE Settled
      <4>1. UNCHANGED indexVars /\ removed = {}
        BY <1>8, <3>1 DEF FlushIfStaged, Settled
      <4>2. staged = NoStaged
        <5>1. Batch /\ writer.at \in {"idle", "embed"}
          BY <1>3, <2>1 DEF Resting
        <5>2. QED BY <5>1 DEF Batch, Adding
      <4>3. QED BY <4>1, <4>2 DEF indexVars
    <3>2. CASE ~Settled
      BY <1>8, <3>2 DEF FlushIfStaged, FlushTake
    <3>3. QED BY <3>1, <3>2
  <2>3. CASE call.at = "search"
    <3>1. call'.at = "rows" /\ call.hits = <<>> /\ call.fetched = {}
      BY <2>1, <2>3 DEF After, SerialCall, Before
    <3>2. QED BY <1>0, <1>2, <2>1, <2>2, <3>1 DEF SerialCall
  <2>4. CASE call.at = "scan"
    <3>1. call'.at = "scanning" /\ call.hits = <<>> /\ call.fetched = {} /\ call.rows = PermittedRows /\ call.rows # {}
      BY <2>1, <2>4 DEF After, SerialCall, Before
    <3>2. PermittedRows' = PermittedRows
      BY <2>1 DEF PermittedRows, S
    <3>3. QED BY <1>0, <1>2, <2>1, <2>2, <3>1, <3>2 DEF SerialCall
  <2>5. CASE call.at = "translate"
    <3>1. /\ call'.at = "translating" /\ call.fetched = {}
          /\ call.todo \in Seq(DOMAIN index.ids) /\ call.todo # <<>> /\ call.hits \in Seq(ChunkIds)
          /\ Enough(ToSet(call.hits) \cup {index.ids[r] : r \in ToSet(call.todo)})
      BY <2>1, <2>5 DEF After, SerialCall, Searching
    <3>2. call'.at \notin Before /\ call'.at \in Searching
      BY <3>1 DEF Before, Searching
    <3>3. Enough(ToSet(call.hits) \cup {index.ids[r] : r \in ToSet(call.todo)})'
      BY <1>2, <2>1, <3>1 DEF Enough
    <3>4. QED BY <1>0, <1>2, <2>1, <2>2, <3>1, <3>2, <3>3 DEF SerialCall
  <2>6. QED BY <2>1, <2>3, <2>4, <2>5
<1>9. CASE SearchLeaky
  BY <1>9 DEF SearchLeaky
<1>10. CASE Rows
  <2>1. /\ call.at = "rows" /\ flushing["reader"] = None /\ UNCHANGED indexVars
        /\ call'.k = call.k /\ call'.permitted = call.permitted
        /\ call'.fetched = call.fetched /\ call'.shown = call.shown /\ call'.hits = call.hits
        /\ call'.scanned = call.scanned /\ call'.visible = call.visible
        /\ IF index.ids = <<>> \/ PermittedRows = {} THEN call'.at = "done"
           ELSE call'.at = "scan" /\ call'.rows = PermittedRows
    BY <1>0, <1>10 DEF Rows, NoCall
  <2>2. staged = NoStaged /\ removed = {} /\ call.hits = <<>> /\ call.fetched = {}
    BY <2>1 DEF SerialCall, Before, Searching
  <2>3. RowsAtRest /\ Resting
    BY <1>3, <2>1
  <2>4. PermittedRows \subseteq DOMAIN index.ids /\ \A c \in Wanted : \E r \in PermittedRows : index.ids[r] = c
    BY <1>0, <2>2, <2>3, RowsAreWanted
  <2>5. CASE index.ids = <<>> \/ PermittedRows = {}
    <3>1. Wanted = {}
      BY <2>4, <2>5
    <3>2. call'.at = "done" /\ Wanted' \subseteq IdsOf(call'.result)
      BY <1>2, <2>1, <2>5, <3>1
    <3>3. call'.at \notin Before \cup Searching
      BY <3>2 DEF Before, Searching
    <3>4. QED BY <1>0, <1>2, <2>1, <3>2, <3>3 DEF SerialCall
  <2>6. CASE ~(index.ids = <<>> \/ PermittedRows = {})
    <3>1. PermittedRows' = PermittedRows
      BY <2>1 DEF PermittedRows, S, indexVars
    <3>2. QED BY <1>0, <1>2, <2>1, <2>2, <2>6, <3>1 DEF SerialCall, indexVars
  <2>7. QED BY <2>5, <2>6
<1>11. CASE Scan
  <2>1. call.at = "scanning" /\ flushing["reader"] = None /\ UNCHANGED indexVars
    BY <1>11 DEF Scan
  <2>2. /\ staged = NoStaged /\ removed = {} /\ call.hits = <<>> /\ call.fetched = {}
        /\ call.rows = PermittedRows /\ call.rows # {}
    BY <2>1 DEF SerialCall, Before, Searching
  <2>3. RowsAtRest /\ Resting
    BY <1>3, <2>1
  <2>4. /\ DOMAIN index.codes = DOMAIN index.ids /\ PermittedRows \subseteq DOMAIN index.ids
        /\ \A r \in PermittedRows : index.codes[r] \in Versions /\ MayRead(index.codes[r])
    BY <1>0, <2>2, <2>3, RowsAreWanted
  <2>5. ~\E r \in call.rows : r > Len(index.codes)
    <3> DEFINE codes == index.codes
    <3>1. codes \in Seq(Versions) /\ PermittedRows \subseteq DOMAIN codes
      BY <1>0, <2>4 DEF IndexTyped
    <3> HIDE DEF codes
    <3>2. DOMAIN codes = 1..Len(codes) /\ Len(codes) \in Nat
      BY <3>1, LenProperties
    <3> DEFINE n == Len(codes)
    <3>3. n \in Nat /\ \A r \in PermittedRows : r \in 1..n
      BY <3>1, <3>2
    <3> HIDE DEF n
    <3>4. \A r \in PermittedRows : ~(r > n)
      BY <3>3
    <3>5. QED BY <2>2, <3>4 DEF codes, n
  <2>6. PICK T \in kSubset(Min({Cardinality(call.rows), candidate_k}), call.rows) :
          call' = [call EXCEPT !.at = "translate", !.todo = SetToSeq(T),
                               !.scanned = {index.codes[r] : r \in call.rows}]
    BY <1>11, <2>5 DEF Scan
  <2>7. /\ IsFiniteSet(T) /\ T # {} /\ T \subseteq DOMAIN index.ids
        /\ Enough({index.ids[r] : r \in T})
    BY <1>0, <2>2, <2>3, ScanIsEnough
  <2>8. /\ call'.at = "translate" /\ call'.todo = SetToSeq(T) /\ call'.hits = <<>>
        /\ call'.scanned = {index.codes[r] : r \in PermittedRows}
        /\ call'.k = call.k /\ call'.permitted = call.permitted
        /\ call'.fetched = {} /\ call'.shown = call.shown /\ call'.visible = call.visible
    BY <1>0, <2>2, <2>6 DEF NoCall
  <2>9. SetToSeq(T) \in Seq(T) /\ ToSet(SetToSeq(T)) = T
    BY <2>7, SetToSeqLists
  <2> DEFINE todo == SetToSeq(T)
             D == DOMAIN index.ids
  <2>10. todo \in Seq(D) /\ todo # <<>>
    <3>1. \A s \in Seq(T) : s \in Seq(D)
      <4>1. T \subseteq D
        BY <2>7
      <4> HIDE DEF D
      <4>2. QED BY <4>1, SeqDef
    <3>2. todo # <<>>
      <4>1. ToSet(<<>>) = {}
        BY DEF ToSet
      <4>2. QED BY <2>7, <2>9, <4>1
    <3>3. QED BY <2>9, <3>1, <3>2
  <2> HIDE DEF todo, D
  <2>11. /\ call'.todo \in Seq(DOMAIN index'.ids) /\ call'.todo # <<>> /\ call'.hits \in Seq(ChunkIds)
    BY <2>1, <2>8, <2>10 DEF todo, D, indexVars
  <2>12. Enough(ToSet(call.hits) \cup {index.ids[r] : r \in ToSet(call.todo)})'
    <3>1. ToSet(call'.hits) = {} /\ ToSet(call'.todo) = T /\ index' = index
      BY <2>1, <2>8, <2>9 DEF ToSet, indexVars, todo
    <3>2. ToSet(call'.hits) \cup {index'.ids[r] : r \in ToSet(call'.todo)} = {index.ids[r] : r \in T}
      BY <3>1
    <3>3. QED BY <1>2, <2>7, <2>8, <3>2 DEF Enough
  <2>13. \A v \in call'.scanned : v \in Versions /\ MayRead(v)
    BY <2>4, <2>8
  <2>14. staged' = NoStaged /\ removed' = {} /\ call'.at \notin Before
    BY <2>1, <2>2, <2>8 DEF indexVars, Before
  <2>15. QED BY <1>0, <1>2, <2>8, <2>11, <2>12, <2>13, <2>14 DEF SerialCall
<1>12. CASE chunk_id_at
  <2> DEFINE D == DOMAIN index.ids
             ids == index.ids
             todo == call.todo
             hits == call.hits
             next == Append(call.hits, index.ids[Head(call.todo)])
  <2>1. call.at = "translating" /\ flushing["reader"] = None /\ UNCHANGED indexVars
    BY <1>12 DEF chunk_id_at
  <2>2. /\ staged = NoStaged /\ removed = {} /\ call.fetched = {}
        /\ todo \in Seq(D) /\ todo # <<>> /\ hits \in Seq(ChunkIds)
        /\ Enough(ToSet(hits) \cup {ids[r] : r \in ToSet(todo)})
    BY <2>1 DEF SerialCall, Searching
  <2>3. ids \in Seq(ChunkIds)
    BY <1>0 DEF IndexTyped
  <2>4. ~(Head(todo) > Len(ids)) =>
          /\ call'.at = (IF Len(todo) = 1 THEN "fetch" ELSE "translate")
          /\ call'.todo = Tail(todo) /\ call'.hits = next
          /\ call'.k = call.k /\ call'.permitted = call.permitted /\ call'.scanned = call.scanned
          /\ call'.fetched = {} /\ call'.shown = call.shown /\ call'.visible = call.visible
    BY <1>0, <1>12, <2>2 DEF chunk_id_at, NoCall
  <2> HIDE DEF D, ids, todo, hits, next
  <2>5. /\ Len(todo) \in Nat \ {0} /\ Head(todo) \in D /\ Tail(todo) \in Seq(D)
        /\ Tail(todo) = <<>> <=> Len(todo) = 1
        /\ ToSet(todo) = {Head(todo)} \cup ToSet(Tail(todo))
    BY <2>2, TailIs
  <2>6. ids[Head(todo)] \in ChunkIds /\ ~(Head(todo) > Len(ids))
    <3> DEFINE n == Len(ids)
    <3>1. D = 1..n /\ n \in Nat
      BY <2>3, LenProperties DEF D, ids
    <3>2. Head(todo) \in 1..n
      BY <2>5, <3>1
    <3>3. ids[Head(todo)] \in ChunkIds
      BY <2>3, <3>2, ElementOfSeq
    <3> HIDE DEF n
    <3>4. ~(Head(todo) > n)
      BY <3>1, <3>2
    <3>5. QED BY <3>3, <3>4 DEF n
  <2>7. next \in Seq(ChunkIds) /\ next # <<>> /\ ToSet(next) = ToSet(hits) \cup {ids[Head(todo)]}
    <3> DEFINE e == ids[Head(todo)]
    <3>1. e \in ChunkIds /\ next = Append(hits, e)
      BY <2>6 DEF next, hits, ids, todo
    <3> HIDE DEF e
    <3>2. Append(hits, e) \in Seq(ChunkIds) /\ Append(hits, e) # <<>> /\ ToSet(Append(hits, e)) = ToSet(hits) \cup {e}
      BY <2>2, <3>1, AppendToSet
    <3>3. QED BY <3>1, <3>2 DEF e
  <2>8. ToSet(next) \cup {ids[r] : r \in ToSet(Tail(todo))} = ToSet(hits) \cup {ids[r] : r \in ToSet(todo)}
    BY <2>5, <2>7
  <2>9. CASE Len(todo) = 1
    <3>1. call'.at = "fetch" /\ call'.at \notin Before \cup Searching
      BY <2>4, <2>6, <2>9 DEF Before, Searching
    <3>2. ToSet(Tail(todo)) = {} /\ IdsOf({}) = {}
      BY <2>5, <2>9 DEF ToSet, IdsOf
    <3>3. Enough(ToSet(next) \cup IdsOf({}))
      BY <2>2, <2>8, <3>2
    <3>4. Enough(ToSet(call.hits) \cup IdsOf(call.fetched))'
      BY <1>2, <2>4, <2>6, <3>3 DEF Enough, IdsOf
    <3>5. QED BY <1>0, <1>2, <2>4, <2>6, <2>7, <3>1, <3>4 DEF SerialCall, Searching
  <2>10. CASE Len(todo) # 1
    <3>1. call'.at = "translate" /\ call'.at \notin Before
      BY <2>4, <2>6, <2>10 DEF Before
    <3>2. Tail(todo) # <<>> /\ Tail(todo) \in Seq(DOMAIN index'.ids)
      BY <2>1, <2>5, <2>10 DEF D, indexVars
    <3>3. Enough(ToSet(next) \cup {ids[r] : r \in ToSet(Tail(todo))})
      BY <2>2, <2>8
    <3>4. ToSet(call'.hits) \cup {index'.ids[r] : r \in ToSet(call'.todo)} =
            ToSet(next) \cup {ids[r] : r \in ToSet(Tail(todo))}
      BY <2>1, <2>4, <2>6 DEF ids, indexVars
    <3>5. Enough(ToSet(call.hits) \cup {index.ids[r] : r \in ToSet(call.todo)})'
      BY <1>2, <2>4, <2>6, <3>3, <3>4 DEF Enough
    <3>6. staged' = NoStaged /\ removed' = {}
      BY <2>1, <2>2 DEF indexVars
    <3>7. QED BY <1>0, <1>2, <2>4, <2>6, <2>7, <3>1, <3>2, <3>5, <3>6 DEF SerialCall
  <2>11. QED BY <2>9, <2>10
<1>13. CASE get_chunks
  <2> DEFINE hits == call.hits
  <2>1. /\ call.at = "fetch" /\ call'.k = call.k /\ call'.permitted = call.permitted
        /\ call'.shown = call.shown /\ call'.scanned = call.scanned /\ call'.visible = call.visible
        /\ \/ /\ kind = "memory" /\ call'.at = (IF Len(hits) = 1 THEN "check" ELSE "fetch")
              /\ call'.fetched = call.fetched \cup Readable({Head(hits)}) /\ call'.hits = Tail(hits)
           \/ kind = "postgres" /\ call'.at = "check" /\ call'.fetched = Readable(ToSet(hits))
           \/ call'.at = "failed" /\ call'.fetched = call.fetched
    BY <1>0, <1>13 DEF get_chunks, NoCall
  <2>2. /\ hits \in Seq(ChunkIds) /\ hits # <<>> /\ Enough(ToSet(hits) \cup IdsOf(call.fetched))
        /\ kind = "postgres" => call.fetched = {}
    BY <2>1 DEF SerialCall
  <2> HIDE DEF hits
  <2>3. /\ Tail(hits) \in Seq(ChunkIds) /\ (Tail(hits) = <<>> <=> Len(hits) = 1)
        /\ ToSet(hits) = {Head(hits)} \cup ToSet(Tail(hits))
    BY <2>2, TailIs
  <2>4. ToSet(hits) \subseteq Wanted /\ {Head(hits)} \subseteq Wanted
    BY <2>2, <2>3 DEF Enough
  <2>5. call'.at \notin Before \cup Searching
    BY <2>1 DEF Before, Searching
  <2>6. CASE /\ kind = "memory" /\ call'.at = (IF Len(hits) = 1 THEN "check" ELSE "fetch")
             /\ call'.fetched = call.fetched \cup Readable({Head(hits)}) /\ call'.hits = Tail(hits)
    <3>1. IdsOf(Readable({Head(hits)})) = {Head(hits)} /\ Readable({Head(hits)}) \subseteq Stored(chunks)
      BY <1>0, <2>4, WantedIsReadable
    <3>2. /\ ToSet(Tail(hits)) \cup IdsOf(call'.fetched) = ToSet(hits) \cup IdsOf(call.fetched)
          /\ Tail(hits) = <<>> => IdsOf(call'.fetched) = ToSet(hits) \cup IdsOf(call.fetched)
      <4>1. IdsOf(call'.fetched) = IdsOf(call.fetched) \cup {Head(hits)}
        BY <2>6, <3>1 DEF IdsOf
      <4>2. ToSet(<<>>) = {}
        BY DEF ToSet
      <4>3. QED BY <2>3, <4>1, <4>2
    <3>3. CASE Len(hits) = 1
      <4>1. Enough(IdsOf(call.fetched))'
        <5>1. Enough(IdsOf(call'.fetched))
          BY <2>2, <2>3, <3>2, <3>3
        <5>2. QED BY <1>2, <2>1, <5>1 DEF Enough, IdsOf
      <4>2. call'.at = "check"
        BY <2>6, <3>3
      <4>3. QED BY <1>0, <1>2, <2>1, <2>5, <2>6, <3>1, <4>1, <4>2 DEF SerialCall, Searching
    <3>4. CASE Len(hits) # 1
      <4>1. Enough(ToSet(call.hits) \cup IdsOf(call.fetched))'
        <5>1. Enough(ToSet(call'.hits) \cup IdsOf(call'.fetched))
          BY <2>2, <2>6, <3>2
        <5>2. QED BY <1>2, <2>1, <5>1 DEF Enough, IdsOf
      <4>2. call'.at = "fetch" /\ call'.hits \in Seq(ChunkIds) /\ call'.hits # <<>> /\ kind' # "postgres"
        BY <1>1, <2>3, <2>6, <3>4
      <4>3. QED BY <1>0, <1>2, <2>1, <2>5, <2>6, <3>1, <4>1, <4>2 DEF SerialCall, Searching
    <3>5. QED BY <3>3, <3>4
  <2>7. CASE kind = "postgres" /\ call'.at = "check" /\ call'.fetched = Readable(ToSet(hits))
    <3>1. IdsOf(Readable(ToSet(hits))) = ToSet(hits) /\ Readable(ToSet(hits)) \subseteq Stored(chunks)
      BY <1>0, <2>4, WantedIsReadable
    <3>2. ToSet(hits) \cup IdsOf(call.fetched) = ToSet(hits)
      BY <2>2, <2>7 DEF IdsOf
    <3>3. Enough(IdsOf(call.fetched))'
      <4>1. Enough(IdsOf(call'.fetched))
        BY <2>2, <2>7, <3>1, <3>2
      <4>2. QED BY <1>2, <2>1, <4>1 DEF Enough, IdsOf
    <3>4. QED BY <1>0, <1>2, <2>1, <2>5, <2>7, <3>1, <3>3 DEF SerialCall, Searching
  <2>8. CASE call'.at = "failed" /\ call'.fetched = call.fetched
    BY <1>0, <1>2, <2>1, <2>5, <2>8 DEF SerialCall, Searching
  <2>9. QED BY <2>1, <2>6, <2>7, <2>8
<1>14. CASE Recheck
  <2> DEFINE passed == {x \in call.fetched : admits(x.policy, S)}
  <2>1. /\ call.at = "check" /\ call'.k = call.k /\ call'.permitted = call.permitted
        /\ call'.fetched = call.fetched /\ call'.shown = passed
        /\ call'.scanned = call.scanned /\ call'.visible = call.visible
        /\ call'.at = (IF passed = {} THEN "done" ELSE "rank")
    BY <1>0, <1>14 DEF Recheck, NoCall
  <2>2. passed = call.fetched
    BY DEF ReadInvariant, CallOK, Checked
  <2>3. Enough(IdsOf(call.fetched)) /\ call'.at \notin Before \cup Searching \cup {"fetch", "check"}
    BY <2>1 DEF SerialCall, Before, Searching
  <2>4. call'.at = "done" => Wanted' \subseteq IdsOf(call'.result)
    <3> HAVE call'.at = "done"
    <3>1. IdsOf(call.fetched) = {}
      BY <2>1, <2>2 DEF IdsOf
    <3>2. ~(Cardinality({}) >= call.k)
      BY <1>0, FS_EmptySet
    <3>3. Wanted = {}
      BY <2>3, <3>1, <3>2 DEF Enough
    <3>4. QED BY <1>2, <2>1, <3>3
  <2>5. Enough(IdsOf(call.shown))'
    <3>1. Enough(IdsOf(call'.shown))
      BY <2>1, <2>2, <2>3
    <3>2. QED BY <1>2, <2>1, <3>1 DEF Enough, IdsOf
  <2>6. call'.shown \subseteq Stored(chunks)
    BY <1>0, <2>1, <2>2
  <2>7. QED BY <1>0, <1>2, <2>1, <2>3, <2>4, <2>5, <2>6 DEF SerialCall, Searching
<1>15. CASE Rank
  <2>1. /\ call.at = "rank" /\ call'.k = call.k /\ call'.permitted = call.permitted
        /\ call'.fetched = call.fetched /\ call'.shown = call.shown
        /\ call'.scanned = call.scanned /\ call'.visible = call.visible
        /\ \/ call'.at = "failed"
           \/ /\ call'.at = "done"
              /\ call'.result \in kSubset(Min({call.k, Cardinality(call.shown)}), call.shown)
    BY <1>0, <1>15 DEF Rank, NoCall
  <2>2. Enough(IdsOf(call.shown)) /\ call'.at \notin Before \cup Searching \cup {"fetch", "check", "rank"}
    BY <2>1 DEF SerialCall, Before, Searching
  <2>3. call'.at = "done" => Cardinality(call'.result) = call'.k \/ Wanted' \subseteq IdsOf(call'.result)
    <3> HAVE call'.at = "done"
    <3> DEFINE X == call.shown
               R == call'.result
    <3>1. /\ X \in SUBSET Stored(chunks) /\ Enough(IdsOf(X)) /\ call.k \in Nat \ {0}
          /\ R \in kSubset(Min({call.k, Cardinality(X)}), X)
      BY <1>0, <2>1, <2>2
    <3> HIDE DEF X, R
    <3>2. Cardinality(R) = call.k \/ Wanted \subseteq IdsOf(R)
      BY <3>1, RankIsEnough
    <3>3. QED BY <1>2, <2>1, <3>2 DEF R
  <2>4. QED BY <1>0, <1>2, <2>1, <2>2, <2>3 DEF SerialCall, Searching
<1>16. CASE ReaderFlushes
  <2>1. /\ FlushStep("reader") \/ FlushRaises("reader")
        /\ UNCHANGED <<staged, removed>>
        /\ call' = call \/ call' = [call EXCEPT !.at = "failed"]
    BY <1>16 DEF ReaderFlushes, FlushStep, FlushBuild, FlushIds, FlushAcl, FlushRaises
  <2>2. call.at = "rows"
    <3>1. flushing["reader"] # None
      BY <1>0, <2>1, FlushTyped
    <3>2. QED BY <3>1 DEF SerialIndex
  <2>3. staged = NoStaged /\ removed = {} /\ call.hits = <<>> /\ call.fetched = {}
    BY <2>2 DEF SerialCall, Searching, Before
  <2>4. /\ call'.at \in {"rows", "failed"} /\ call'.k = call.k /\ call'.permitted = call.permitted
        /\ call'.fetched = call.fetched /\ call'.shown = call.shown /\ call'.hits = call.hits
        /\ call'.scanned = call.scanned /\ call'.visible = call.visible
    BY <1>0, <2>1, <2>2 DEF NoCall
  <2>5. QED BY <1>0, <1>2, <2>1, <2>3, <2>4 DEF SerialCall
<1>17. QED
  BY <1>4, <1>5, <1>6, <1>7, <1>8, <1>9, <1>10, <1>11, <1>12, <1>13, <1>14, <1>15, <1>16 DEF ReaderStep

-----------------------------------------------------------------------------
LEMMA ModeIsFixed ==
  ASSUME [Next]_rvars
  PROVE  mode' = mode
BY DEF Next, rvars, fixed, WriterStep, NewDocument, Put, Delete, PutDelete, PutDocument, PutChunk,
       remove_document, Embed, add, AddTo, WriterFlush, WriterFlushes, AsIfWriter,
       ReaderStep, Begin, simulate, EmbedQuery, FlushIfStaged, SearchLeaky, Rows, Scan, chunk_id_at,
       get_chunks, Recheck, Rank, Answered, ReaderFlushes, Asks

(* A serial call of no moment is as good as none. *)
LEMMA NoCallIsSerial ==
  ASSUME call = NoCall
  PROVE  SerialCall
BY DEF SerialCall, NoCall, Before, Searching

LEMMA SerialIsKept == Spec => []SerialInvariant
<1>1. Init => SerialInvariant
  <2> SUFFICES ASSUME Init PROVE SerialIndex /\ SerialCall
    BY DEF SerialInvariant
  <2>1. /\ call = NoCall /\ call.at = "idle" /\ writer.at = "idle" /\ staged = NoStaged /\ removed = {}
        /\ index = NoRows /\ \A c \in ChunkIds : chunks[c] = None
        /\ \A t \in Threads : flushing[t] = None
    BY DEF Init, NoCall, Idle
  <2>2. DOMAIN index.ids = {} /\ DOMAIN index.codes = {} /\ DOMAIN index.acl = {}
    BY <2>1 DEF NoRows
  <2>3. RowsAtRest
    <3>1. writer.at \notin Adding \cup {"embed", "drop", "flush"}
      BY <2>1 DEF Adding
    <3>2. QED BY <2>1, <2>2, <3>1 DEF RowsAtRest, Good, Holds, StoredVersion
  <2>4. Batch
    BY <2>1 DEF Batch, Adding
  <2>5. "reader" \in Threads
    BY DEF Threads
  <2>6. SerialIndex
    BY <2>1, <2>3, <2>4, <2>5 DEF SerialIndex
  <2>7. QED BY <2>1, <2>6, NoCallIsSerial
<1>2. /\ TypesInvariant /\ ReadInvariant /\ ReadInvariant' /\ StoreSteps /\ StoreSteps'
      /\ SerialInvariant /\ [Next]_rvars
      => SerialInvariant'
  <2> SUFFICES ASSUME TypesInvariant, ReadInvariant, ReadInvariant', StoreSteps, StoreSteps',
                      SerialInvariant, [Next]_rvars, mode = "serial"
               PROVE  SerialIndex' /\ SerialCall'
    BY ModeIsFixed DEF SerialInvariant
  <2>1. SerialIndex /\ SerialCall /\ StoreOK /\ DOMAIN call = DOMAIN NoCall
    BY DEF SerialInvariant, ReadInvariant, CallOK
  <2>2. CASE WriterStep
    <3>1. SerialIndex' /\ call.at = "idle" /\ call' = call
      BY <2>1, <2>2, SerialIndexOfWriter
    <3>2. call' = NoCall
      BY <3>1 DEF ReadInvariant, CallOK
    <3>3. (call = NoCall)' => SerialCall'
      BY NoCallIsSerial, PTL
    <3>4. QED BY <3>1, <3>2, <3>3
  <2>3. CASE ReaderStep
    BY <2>1, <2>3, SerialIndexOfReader, SerialCallOfReader
  <2>4. CASE UNCHANGED rvars
    <3>1. UNCHANGED <<documents, chunks, writer, index, staged, removed, flushing, call, kind>>
      BY <2>4 DEF rvars
    <3>2. RowsAtRest /\ Batch => RowsAtRest' /\ Batch'
      BY <3>1, RestIsKept
    <3>3. \A t \in Threads : FlushGoesRight(flushing[t]) => FlushGoesRight(flushing[t])'
      BY <3>1 DEF FlushGoesRight, Good, Will, Holds, Current, StoredVersion, Waits
    <3>4. SerialIndex'
      BY <2>1, <3>1, <3>2, <3>3 DEF SerialIndex, Resting
    <3>5. Wanted' = Wanted /\ Stored(chunks)' = Stored(chunks) /\ Listed' = Listed /\ \A v : MayRead(v)' <=> MayRead(v)
      BY <3>1, SameWanted
    <3>6. PermittedRows' = PermittedRows
      BY <3>1 DEF PermittedRows, S
    <3>7. SerialCall'
      BY <2>1, <3>1, <3>5, <3>6 DEF SerialCall, Enough, IdsOf
    <3>8. QED BY <3>4, <3>7
  <2>5. QED BY <2>2, <2>3, <2>4 DEF Next
<1>3. QED BY <1>1, <1>2, TypesAreKept, ReadInvariance, StoreIsKept, PTL DEF Spec

(* An index that answers anything is not scanned. *)
LEMMA LeakyIsKept == Spec => []LeakyInvariant
<1>1. Init => LeakyInvariant
  BY DEF Init, LeakyInvariant, Leaky, NoCall, Searching
<1>2. ReadInvariant /\ LeakyInvariant /\ [Next]_rvars => LeakyInvariant'
  <2> SUFFICES ASSUME ReadInvariant, Leaky, [Next]_rvars, mode = "leaky" PROVE Leaky'
    BY ModeIsFixed DEF LeakyInvariant
  <2>1. DOMAIN call = DOMAIN NoCall
    BY DEF ReadInvariant, CallOK
  <2>2. CASE WriterStep \/ UNCHANGED rvars
    <3>1. call' = call
      BY <2>2 DEF rvars, WriterStep, NewDocument, Put, Delete, PutDelete, PutDocument, PutChunk,
                  remove_document, Embed, add, AddTo, WriterFlush, WriterFlushes, AsIfWriter
    <3>2. QED BY <3>1 DEF Leaky
  <2>3. CASE ReaderStep
    <3>1. call.at \notin Searching /\ call.scanned = {}
      BY DEF Leaky
    <3>2. CASE Begin \/ Answered
      <4>1. call'.at \in {"idle", "catalog", "embed"} /\ call'.scanned = {}
        <5>1. CASE Begin
          <6>1. call'.at \in {"catalog", "embed"} /\ call'.scanned = {}
            BY <5>1 DEF Begin, NoCall
          <6>2. QED BY <6>1
        <5>2. CASE Answered
          BY <5>2 DEF Answered, NoCall
        <5>3. QED BY <3>2, <5>1, <5>2
      <4>2. QED BY <4>1 DEF Leaky, Searching
    <3>3. CASE simulate \/ EmbedQuery \/ SearchLeaky
      BY <2>1, <3>1, <3>3 DEF simulate, EmbedQuery, SearchLeaky, NoCall, Leaky, Searching
    <3>4. CASE get_chunks \/ Recheck \/ Rank \/ ReaderFlushes
      BY <2>1, <3>1, <3>4 DEF get_chunks, Recheck, Rank, ReaderFlushes, NoCall, Leaky, Searching
    <3>5. ~(FlushIfStaged \/ Rows \/ Scan \/ chunk_id_at)
      BY <3>1 DEF FlushIfStaged, Rows, Scan, chunk_id_at, Asks, Searching
    <3>6. QED BY <2>3, <3>2, <3>3, <3>4, <3>5 DEF ReaderStep
  <2>4. QED BY <2>2, <2>3 DEF Next
<1>3. QED BY <1>1, <1>2, ReadInvariance, PTL DEF Spec

(* INV-2, while retrievals and ingestions are serial, or the index is      *)
(* none that is scanned: the vectors of what the caller may not read are   *)
(* not compared with the query.  In threads it is not so.                  *)
THEOREM SerialScansPermitted == Spec => [](mode # "threads" => ScansPermittedRows)
<1>1. Init => ModeTyped
  BY RetrievalAssumption DEF Init, ModeTyped
<1>2. ModeTyped /\ [Next]_rvars => ModeTyped'
  BY ModeIsFixed DEF ModeTyped
<1>3. ModeTyped /\ SerialInvariant /\ LeakyInvariant => (mode # "threads" => ScansPermittedRows)
  BY DEF ModeTyped, SerialInvariant, SerialCall, LeakyInvariant, Leaky, ScansPermittedRows
<1>4. QED BY <1>1, <1>2, <1>3, SerialIsKept, LeakyIsKept, PTL DEF Spec

(* A serial retrieval returns k chunks, or every one that the caller may   *)
(* read and that does not wait to be embedded.                             *)
THEOREM AnswersAreHonest == Spec => []HonestAnswer
<1>1. ReadInvariant /\ SerialInvariant => HonestAnswer
  <2> SUFFICES ASSUME ReadInvariant, SerialCall, call.at = "done", ~(Cardinality(call.result) = call.k),
                      NEW x \in Stored(chunks), MayRead(x.text), ~Waits(x.id.doc)
               PROVE  x \in call.result
    BY DEF SerialInvariant, HonestAnswer
  <2>1. Wanted \subseteq IdsOf(call.result) /\ call.result \subseteq Stored(chunks)
    BY DEF SerialCall, ReadInvariant, CallOK
  <2>2. \A y \in Stored(chunks) :
          y = [id |-> y.id, text |-> chunks[y.id].text, policy |-> chunks[y.id].policy]
          /\ y.id \in ChunkIds /\ chunks[y.id] # None
    BY DEF Stored
  <2>3. x.id \in Wanted
    <3>1. x = [id |-> x.id, text |-> chunks[x.id].text, policy |-> chunks[x.id].policy]
          /\ x.id \in ChunkIds /\ chunks[x.id] # None
      BY <2>2
    <3>2. x.text = chunks[x.id].text
      BY <3>1
    <3>3. QED BY <3>1, <3>2 DEF Wanted
  <2>4. PICK y \in call.result : y.id = x.id
    BY <2>1, <2>3 DEF IdsOf
  <2>5. y = x
    BY <2>1, <2>2, <2>4
  <2>6. QED BY <2>4, <2>5
<1>2. QED BY <1>1, SerialIsKept, ReadInvariance, PTL

(* The halves of a simulation agree.                                       *)
THEOREM HalvesAgree == Spec => []SimulationAgrees
<1>1. TypesInvariant /\ ReadInvariant /\ StoreSteps /\ SerialInvariant => SimulationAgrees
  <2> SUFFICES ASSUME TypesInvariant, ReadInvariant, StoreSteps, SerialIndex, SerialCall,
                      call.visible # None, call.at = "done"
               PROVE  LET quoted == {x.id.doc : x \in call.result} IN
                      /\ quoted \subseteq call.visible
                      /\ Cardinality(call.result) < call.k =>
                           \A d \in call.visible : Length[documents[d]] > 0 /\ ~Waits(d) => d \in quoted
    BY DEF SerialInvariant, SimulationAgrees
  <2>0. writer.at \in {"idle", "embed"} /\ documents \in [Docs -> Versions \cup {None}]
    BY DEF SerialIndex, Resting, TypesInvariant, StoreTyped
  <2>1. /\ call.visible = {d \in Docs : documents[d] # None /\ admits(PolicyOf[documents[d]], S)}
    BY DEF SerialCall, Listed, explain
  <2>2. \A d \in Docs : StoredAs(d, documents[d])
    BY <2>0 DEF StoreSteps, PutEnded
  <2>3. ASSUME NEW x \in call.result PROVE x.id.doc \in call.visible
    <3>1. x \in Stored(chunks) /\ x.policy = PolicyOf[x.text] /\ admits(x.policy, S)
      BY DEF SerialCall, ReadInvariant, CallOK, Checked
    <3>2. PICK c \in ChunkIds : chunks[c] # None /\ x = [id |-> c, text |-> chunks[c].text, policy |-> chunks[c].policy]
      BY <3>1 DEF Stored
    <3>3. c.doc \in Docs /\ c \in Of(c.doc)
      BY ChunkIdsAre DEF Of
    <3>4. chunks[c] = ChunkOf(documents[c.doc]) /\ documents[c.doc] # None
      BY <2>2, <3>2, <3>3 DEF StoredAs
    <3>5. x.text = documents[c.doc] /\ x.id = c
      BY <3>2, <3>4 DEF ChunkOf
    <3>6. QED BY <2>1, <3>1, <3>3, <3>4, <3>5
  <2>4. ASSUME Cardinality(call.result) < call.k, NEW d \in call.visible, Length[documents[d]] > 0, ~Waits(d)
        PROVE  d \in {x.id.doc : x \in call.result}
    <3>1. d \in Docs /\ documents[d] \in Versions /\ documents[d] # None /\ admits(PolicyOf[documents[d]], S)
      BY <2>0, <2>1
    <3> DEFINE v == documents[d]
               c == [doc |-> d, ordinal |-> 1]
    <3> HIDE DEF v
    <3>2. v \in Versions /\ v # None /\ Length[v] \in Nat /\ Length[v] <= Longest /\ Longest \in Nat /\ Length[v] > 0
      BY <2>4, <3>1, LongestIs DEF v
    <3>3. c \in ChunkIds /\ c.doc = d /\ c.ordinal <= Length[v]
      <4>1. 1 <= Length[v] /\ 1 \in 1..Longest
        BY <3>2
      <4>2. QED BY <3>1, <4>1, ChunkIdsAre
    <3> HIDE DEF c
    <3>4. chunks[c] = ChunkOf(v) /\ ChunkOf(v) # None /\ ChunkOf(v).text = v
      <4>1. chunks[c] = ChunkOf(v)
        BY <2>2, <3>1, <3>2, <3>3 DEF StoredAs, Of, v
      <4>2. QED BY <3>2, <4>1, NoneIsNone DEF ChunkOf
    <3>5. MayRead(v)
      BY <3>1 DEF MayRead, admits, v
    <3>6. c \in Wanted
      BY <2>4, <3>3, <3>4, <3>5 DEF Wanted
    <3>7. Cardinality(call.result) # call.k
      <4>1. call.k \in Nat
        BY DEF SerialCall
      <4>2. QED BY <2>4, <4>1
    <3>8. PICK x \in call.result : x.id = c
      BY <3>6, <3>7 DEF SerialCall, IdsOf
    <3>9. QED BY <3>3, <3>8
  <2>5. QED BY <2>3, <2>4
<1>2. QED BY <1>1, TypesAreKept, ReadInvariance, StoreIsKept, SerialIsKept, PTL

-----------------------------------------------------------------------------
(***************************************************************************)
(* Several ingestions at once: each that waits is typed as the one whose   *)
(* turn it is.                                                             *)
(***************************************************************************)
(* A writer and the flush it is in: see WriterTyped, FlushesTyped.         *)
Typed(w, f) ==
  /\ w \in [at : Places, doc : Docs \cup {None}, version : Versions \cup {None}, todo : Seq(ChunkIds)]
  /\ w.at # "idle" => w.doc \in Docs /\ w.version \in Versions
  /\ w.at = "embed" => Length[w.version] > 0
  /\ w.at \in Adding => w.todo # <<>>
  /\ f # None => w.at = "idle"
  /\ f \in {None} \cup Taken \cup {g \in Built : Few(g.ids) /\ Few(g.acl)}

WaitingTyped == \A o \in Others : Typed(waiting[o].writer, waiting[o].flush)

ConcurrentTypes == TypesInvariant /\ WaitingTyped

LEMMA ConcurrentTypesAreKept == IngestionsSpec => []ConcurrentTypes
<1>1. IngestionsInit => ConcurrentTypes
  <2> SUFFICES ASSUME IngestionsInit PROVE ConcurrentTypes
    OBVIOUS
  <2>1. <<>> \in Seq(ChunkIds)
    OBVIOUS
  <2>2. TypesInvariant
    BY InitTyped DEF IngestionsInit
  <2>3. \A o \in Others : waiting[o].writer = Idle /\ waiting[o].flush = None
    BY DEF IngestionsInit
  <2>4. Typed(Idle, None)
    BY <2>1 DEF Typed, Idle, Places, Adding
  <2>5. QED BY <2>2, <2>3, <2>4 DEF ConcurrentTypes, WaitingTyped
<1>2. ASSUME ConcurrentTypes, ReadInvariant, WaitingOK, ReadInvariant', [IngestionsNext]_concurrentVars
      PROVE  ConcurrentTypes'
  <2>0. TypesInvariant /\ WaitingTyped /\ StoreOK /\ StoreOK'
    BY <1>2 DEF ConcurrentTypes, ReadInvariant
  <2>1. CASE Next /\ UNCHANGED waiting
    <3>1. TypesInvariant'
      BY <1>2, <2>0, <2>1, TypesOfWriter, TypesOfReader DEF Next
    <3>2. WaitingTyped'
      BY <2>0, <2>1 DEF WaitingTyped, Typed, Few
    <3>3. QED BY <3>1, <3>2 DEF ConcurrentTypes
  <2>2. ASSUME NEW o \in Others, Switch(o) PROVE ConcurrentTypes'
    <3>1. /\ writer' = waiting[o].writer /\ waiting'[o].writer = writer
          /\ waiting'[o].flush = flushing["writer"]
          /\ \A p \in Others : p # o => waiting'[p] = waiting[p]
      BY <1>2, <2>2, Switched
    <3>2. /\ flushing' = [flushing EXCEPT !["writer"] = waiting[o].flush]
          /\ UNCHANGED <<index, staged, removed, documents, listed, during, call>>
      BY <2>2 DEF Switch, storeVars
    <3>3. /\ "writer" \in Threads /\ IndexTyped /\ FlushesTyped /\ WriterTyped /\ StoreTyped
          /\ DOMAIN flushing = Threads
      BY <2>0 DEF Threads, TypesInvariant, FlushesTyped
    <3>4. Typed(waiting[o].writer, waiting[o].flush)
      BY <2>0 DEF WaitingTyped
    <3>5. flushing'["writer"] = waiting[o].flush /\ \A t \in Threads : t # "writer" => flushing'[t] = flushing[t]
      BY <3>2, <3>3
    <3>6. IndexTyped' /\ StoreTyped'
      BY <3>2, <3>3 DEF IndexTyped, StoreTyped, Few
    <3>7. FlushesTyped'
      <4>1. DOMAIN flushing' = Threads
        BY <3>2, <3>3
      <4>2. \A t \in Threads : flushing'[t] \in {None} \cup Taken \cup {f \in Built : Few(f.ids) /\ Few(f.acl)}
        BY <3>3, <3>4, <3>5 DEF FlushesTyped, Typed
      <4>3. QED BY <4>1, <4>2 DEF FlushesTyped, Few
    <3>8. WriterTyped'
      BY <3>1, <3>4, <3>5 DEF WriterTyped, Typed
    <3>9. Typed(writer, flushing["writer"])
      BY <3>3 DEF WriterTyped, FlushesTyped, Typed
    <3>10. ASSUME NEW p \in Others PROVE Typed(waiting'[p].writer, waiting'[p].flush)
      BY <2>0, <3>1, <3>9 DEF WaitingTyped
    <3>11. WaitingTyped'
      BY <3>10 DEF WaitingTyped, Typed, Few
    <3>12. QED BY <3>6, <3>7, <3>8, <3>11 DEF ConcurrentTypes, TypesInvariant
  <2>3. CASE UNCHANGED concurrentVars
    <3>1. UNCHANGED waiting /\ UNCHANGED rvars
      BY <2>3 DEF concurrentVars
    <3>2. TypesInvariant'
      BY <2>0, <3>1 DEF rvars, TypesInvariant, IndexTyped, FlushesTyped, WriterTyped, StoreTyped, Few
    <3>3. WaitingTyped'
      BY <2>0, <3>1 DEF WaitingTyped, Typed, Few
    <3>4. QED BY <3>2, <3>3 DEF ConcurrentTypes
  <2>4. QED BY <1>2, <2>1, <2>2, <2>3 DEF IngestionsNext
<1>3. QED BY <1>1, <1>2, ConcurrentInvariance, PTL DEF IngestionsSpec

(* The types, whatever ingestions and flushes at once make of the index.   *)
THEOREM TypeCorrectConcurrently == IngestionsSpec => []TypeOK
<1>1. ConcurrentTypes => TypesInvariant
  BY DEF ConcurrentTypes
<1>2. QED BY <1>1, TypesSuffice, ConcurrentTypesAreKept, ConcurrentInvariance, PTL
=============================================================================
