---------------------------- MODULE FlatIndex_proofs ----------------------------
(***************************************************************************)
(* Proofs about FlatIndex, for any ids, documents, versions and vectors,   *)
(* and for any number of flushes, failed writes and stops.                 *)
(***************************************************************************)
EXTENDS FlatIndex, RowOrder_proofs, SequenceTheorems, TLAPS

-----------------------------------------------------------------------------
(* What is in memory and in a directory. *)
MemTyped ==
  /\ mem \in [binary : Seq(Versions), int8 : Seq(Codes), ids : Seq(Ids), acl : Seq(Versions),
              quant : Quantizers \cup {None}]
  /\ Len(mem.binary) = Len(mem.ids) /\ Len(mem.int8) = Len(mem.ids) /\ Len(mem.acl) = Len(mem.ids)

(* meta.json is the last file to come to be. *)
FilesTyped(d) ==
  /\ DOMAIN d = {"binary", "int8", "ids", "acl", "quant", "meta"}
  /\ d.binary \in Seq(Versions) \cup {None} /\ d.int8 \in Seq(Codes) \cup {None}
  /\ d.ids \in Seq(Ids) \cup {None} /\ d.acl \in Seq(Versions) \cup {None}
  /\ d.quant \in Quantizers \cup {None} /\ d.meta \in Nat \cup {None}
  /\ d.meta # None => d.binary # None /\ d.int8 # None /\ d.ids # None /\ d.acl # None

Live == pc \in {"up", "write", "replace"}

StateTyped ==
  /\ staged \in Seq([id : Ids, version : Versions])
  /\ removed \subseteq Docs
  /\ leftQuant \in Quantizers \cup {None}
  /\ pc \in {"down", "up", "write", "replace", "refused"}
  /\ next \in 1..6
  /\ opening \in BOOLEAN /\ appends \in BOOLEAN
  /\ opening => disk.meta = None /\ pc \in {"write", "replace"}
  /\ opening \/ ~Live => mem = Empty /\ staged = <<>> /\ removed = {}

(* The files that have been replaced are those of memory.                  *)
ReplacedAreNew ==
  pc = "replace" =>
    /\ next > 1 => disk.binary = mem.binary
    /\ next > 2 => disk.int8 = mem.int8
    /\ next > 3 => disk.ids = mem.ids
    /\ next > 4 => disk.acl = mem.acl
    /\ mem.quant # None => IF next > 5 THEN disk.quant = mem.quant ELSE leftQuant = mem.quant

FilesInvariant == MemTyped /\ FilesTyped(disk) /\ FilesTyped(saved) /\ StateTyped /\ ReplacedAreNew

(* One quantizer made every code, and it outlives the process once a count *)
(* other than zero has been written.                                       *)
Counted == disk.meta # None /\ disk.meta # 0

OneQuantizer ==
  /\ mem.quant = None => mem.ids = <<>>
  /\ \A r \in DOMAIN mem.int8 : mem.int8[r].quant = mem.quant
  /\ Counted => disk.quant # None /\ \A r \in DOMAIN disk.int8 : disk.int8[r].quant = disk.quant
  /\ Live /\ Counted => mem.quant = disk.quant

(* Rows that begin as the saved ones do. *)
Continues(d) ==
  /\ saved.meta <= Len(d.binary) /\ saved.meta <= Len(d.ids) /\ saved.meta <= Len(d.acl)
  /\ \A i \in 1..saved.meta :
       d.binary[i] = saved.binary[i] /\ d.ids[i] = saved.ids[i] /\ d.acl[i] = saved.acl[i]

SavedIsWhole ==
  /\ saved.meta # None => Loadable(saved)
  /\ disk.meta = None => saved = NoFiles
  /\ Live /\ disk.meta # None => saved.meta = disk.meta
  /\ Live /\ disk.meta # None /\ appends => Continues(mem) /\ Continues(disk)

-----------------------------------------------------------------------------
(* None is none of the values a file or a list may have. *)
LEMMA NoneIsApart ==
  /\ None \notin Versions /\ None \notin Nat /\ None \notin Quantizers
  /\ None \notin [vector : Versions, policy : Versions]
  /\ None \notin Seq(Ids) /\ None \notin Seq(Versions) /\ None \notin Seq(Codes)
BY FlatIndexAssumption

LEMMA NamesAre ==
  /\ Names[1] = "binary" /\ Names[2] = "int8" /\ Names[3] = "ids"
  /\ Names[4] = "acl" /\ Names[5] = "quant" /\ Names[6] = "meta"
BY DEF Names

(* What one os.replace puts in the directory. *)
LEMMA ReplacedIs ==
  ASSUME FilesInvariant
  PROVE  /\ next = 1 => Replaced = [disk EXCEPT !.binary = mem.binary]
         /\ next = 2 => Replaced = [disk EXCEPT !.int8 = mem.int8]
         /\ next = 3 => Replaced = [disk EXCEPT !.ids = mem.ids]
         /\ next = 4 => Replaced = [disk EXCEPT !.acl = mem.acl]
         /\ next = 5 => Replaced = IF leftQuant = None THEN disk ELSE [disk EXCEPT !.quant = leftQuant]
         /\ next = 6 => Replaced = [disk EXCEPT !.meta = Len(mem.ids)]
<1>1. /\ mem.binary # None /\ mem.int8 # None /\ mem.ids # None /\ mem.acl # None
      /\ Len(mem.ids) # None
  <2>1. /\ mem.binary \in Seq(Versions) /\ mem.int8 \in Seq(Codes) /\ mem.ids \in Seq(Ids)
        /\ mem.acl \in Seq(Versions)
    BY DEF FilesInvariant, MemTyped
  <2>2. Len(mem.ids) \in Nat
    BY <2>1, LenProperties
  <2>3. QED BY <2>1, <2>2, NoneIsApart
<1>2. CASE next = 1
  BY <1>1, <1>2, NamesAre DEF Replaced, Written
<1>3. CASE next = 2
  BY <1>1, <1>3, NamesAre DEF Replaced, Written
<1>4. CASE next = 3
  BY <1>1, <1>4, NamesAre DEF Replaced, Written
<1>5. CASE next = 4
  BY <1>1, <1>5, NamesAre DEF Replaced, Written
<1>6. CASE next = 5
  BY <1>6, NamesAre DEF Replaced, Written
<1>7. CASE next = 6
  BY <1>1, <1>7, NamesAre DEF Replaced, Written
<1>8. QED BY <1>2, <1>3, <1>4, <1>5, <1>6, <1>7

-----------------------------------------------------------------------------
(* The positions a flush keeps. *)
KeptSet == {i \in DOMAIN AllIds : Keep(i)}

LEMMA AllIdsAre ==
  ASSUME MemTyped, staged \in Seq([id : Ids, version : Versions])
  PROVE  /\ AllIds \in Seq(Ids) /\ Len(AllIds) = Len(mem.ids) + Len(staged)
         /\ DOMAIN AllIds = 1..(Len(mem.ids) + Len(staged))
         /\ Len(mem.ids) \in Nat /\ Len(staged) \in Nat /\ Old = 1..Len(mem.ids)
         /\ \A i \in 1..Len(mem.ids) : AllIds[i] = mem.ids[i]
         /\ \A i \in 1..Len(staged) : AllIds[Len(mem.ids) + i] = staged[i].id
         /\ \A i \in DOMAIN AllIds : i \notin Old =>
              /\ i - Len(mem.ids) \in 1..Len(staged)
              /\ AllIds[i] = staged[i - Len(mem.ids)].id
              /\ NewAt(i) \in Versions
<1> DEFINE news == [i \in DOMAIN staged |-> staged[i].id]
<1>1. mem.ids \in Seq(Ids) /\ Len(mem.ids) \in Nat /\ Old = 1..Len(mem.ids)
  BY LenProperties DEF MemTyped, Old
<1>2. Len(staged) \in Nat /\ DOMAIN staged = 1..Len(staged)
  BY LenProperties
<1>3. \A i \in 1..Len(staged) : staged[i] \in [id : Ids, version : Versions]
  BY <1>2, ElementOfSeq
<1>4. news \in [1..Len(staged) -> Ids]
  BY <1>2, <1>3
<1>5. news \in Seq(Ids) /\ Len(news) = Len(staged)
  BY <1>2, <1>4, SeqDef, LenProperties
<1>0. AllIds = mem.ids \o news /\ \A i \in 1..Len(staged) : news[i] = staged[i].id
  BY <1>2 DEF AllIds
<1> HIDE DEF news
<1>6. /\ AllIds \in Seq(Ids) /\ Len(AllIds) = Len(mem.ids) + Len(staged)
      /\ \A i \in 1..(Len(mem.ids) + Len(staged)) :
           AllIds[i] = IF i <= Len(mem.ids) THEN mem.ids[i] ELSE news[i - Len(mem.ids)]
  <2> DEFINE olds == mem.ids
  <2>1. olds \in Seq(Ids) /\ AllIds = olds \o news
    BY <1>0, <1>1
  <2> HIDE DEF olds
  <2>2. /\ olds \o news \in Seq(Ids) /\ Len(olds \o news) = Len(olds) + Len(news)
        /\ \A i \in 1..(Len(olds) + Len(news)) :
             (olds \o news)[i] = IF i <= Len(olds) THEN olds[i] ELSE news[i - Len(olds)]
    BY <1>5, <2>1, ConcatProperties
  <2>3. QED BY <1>5, <2>1, <2>2 DEF olds
<1>7. DOMAIN AllIds = 1..(Len(mem.ids) + Len(staged))
  BY <1>6, LenProperties
<1>8. ASSUME NEW i \in 1..Len(mem.ids) PROVE AllIds[i] = mem.ids[i]
  <2>1. i \in 1..(Len(mem.ids) + Len(staged)) /\ i <= Len(mem.ids)
    BY <1>1, <1>2
  <2>2. QED BY <1>6, <2>1
<1>9. ASSUME NEW i \in 1..Len(staged) PROVE AllIds[Len(mem.ids) + i] = staged[i].id
  <2>1. /\ Len(mem.ids) + i \in 1..(Len(mem.ids) + Len(staged)) /\ ~(Len(mem.ids) + i <= Len(mem.ids))
        /\ (Len(mem.ids) + i) - Len(mem.ids) = i
    BY <1>1, <1>2
  <2>2. AllIds[Len(mem.ids) + i] = news[i]
    BY <1>6, <2>1
  <2>3. QED BY <1>0, <2>2
<1>10. ASSUME NEW i \in DOMAIN AllIds, i \notin Old
       PROVE  /\ i - Len(mem.ids) \in 1..Len(staged)
              /\ AllIds[i] = staged[i - Len(mem.ids)].id
              /\ NewAt(i) \in Versions
  <2>1. i - Len(mem.ids) \in 1..Len(staged) /\ i = Len(mem.ids) + (i - Len(mem.ids))
    BY <1>1, <1>2, <1>7, <1>10
  <2>2. AllIds[i] = staged[i - Len(mem.ids)].id
    <3>1. \A j \in 1..Len(staged) : i = Len(mem.ids) + j => AllIds[i] = staged[j].id
      BY <1>9
    <3>2. QED BY <2>1, <3>1
  <2>3. QED BY <1>3, <2>1, <2>2 DEF NewAt
<1>11. QED BY <1>1, <1>2, <1>6, <1>7, <1>8, <1>9, <1>10

LEMMA KeptLists ==
  ASSUME MemTyped, staged \in Seq([id : Ids, version : Versions])
  PROVE  /\ Cardinality(KeptSet) \in Nat /\ Kept \in [1..Cardinality(KeptSet) -> KeptSet]
         /\ Kept \in Seq(KeptSet) /\ Len(Kept) = Cardinality(KeptSet)
         /\ \A i \in KeptSet : \E k \in DOMAIN Kept : Kept[k] = i
         /\ \A k \in DOMAIN Kept : Kept[k] \in DOMAIN AllIds /\ Keep(Kept[k])
         /\ \A j, k \in DOMAIN Kept : AllIds[Kept[j]] = AllIds[Kept[k]] => j = k
<1>1. DOMAIN AllIds = 1..(Len(mem.ids) + Len(staged)) /\ Len(mem.ids) \in Nat /\ Len(staged) \in Nat
  BY AllIdsAre
<1>2. IsFiniteSet(DOMAIN AllIds)
  <2>1. 1 \in Int /\ Len(mem.ids) + Len(staged) \in Int
    BY <1>1
  <2>2. QED BY <1>1, <2>1, FS_Interval
<1>3. KeptSet \in SUBSET (DOMAIN AllIds)
  BY DEF KeptSet
<1>4. KeptSet \in SUBSET Int /\ IsFiniteSet(KeptSet)
  <2>1. DOMAIN AllIds \subseteq Int
    BY <1>1
  <2>2. QED BY <1>2, <1>3, <2>1, FS_Subset
<1>5. Kept = InOrder(KeptSet)
  BY DEF Kept, KeptSet
<1>6. /\ Cardinality(KeptSet) \in Nat /\ Kept \in [1..Cardinality(KeptSet) -> KeptSet]
      /\ \A j, k \in 1..Cardinality(KeptSet) : j < k => Kept[j] < Kept[k]
      /\ \A i \in KeptSet : \E k \in 1..Cardinality(KeptSet) : Kept[k] = i
  BY <1>4, <1>5, InOrderLists
<1>7. Kept \in Seq(KeptSet) /\ Len(Kept) = Cardinality(KeptSet) /\ DOMAIN Kept = 1..Cardinality(KeptSet)
  BY <1>6, SeqDef, LenProperties
<1>8. \A k \in DOMAIN Kept : Kept[k] \in KeptSet
  BY <1>6
<1>9. \A k \in DOMAIN Kept : Kept[k] \in DOMAIN AllIds /\ Keep(Kept[k])
  BY <1>8 DEF KeptSet
<1>10. ASSUME NEW j \in DOMAIN Kept, NEW k \in DOMAIN Kept, AllIds[Kept[j]] = AllIds[Kept[k]]
       PROVE  j = k
  <2>1. /\ Kept[j] \in DOMAIN AllIds /\ Kept[k] \in DOMAIN AllIds /\ Kept[j] \in Int /\ Kept[k] \in Int
    BY <1>1, <1>9
  <2>2. ~(Kept[j] < Kept[k]) /\ ~(Kept[k] < Kept[j])
    <3>1. (\A i \in DOMAIN AllIds : i > Kept[j] => AllIds[i] # AllIds[Kept[j]])
      BY <1>9 DEF Keep
    <3>2. (\A i \in DOMAIN AllIds : i > Kept[k] => AllIds[i] # AllIds[Kept[k]])
      BY <1>9 DEF Keep
    <3>3. QED BY <1>10, <2>1, <3>1, <3>2
  <2>3. Kept[j] = Kept[k]
    BY <2>1, <2>2
  <2>4. j \in Int /\ k \in Int /\ ~(j < k) /\ ~(k < j)
    <3>1. j \in 1..Cardinality(KeptSet) /\ k \in 1..Cardinality(KeptSet)
      BY <1>7
    <3>2. QED BY <1>6, <2>1, <2>3, <3>1
  <2>5. QED BY <2>4
<1>11. QED BY <1>6, <1>7, <1>9, <1>10

LEMMA RebuiltLists ==
  ASSUME MemTyped, staged \in Seq([id : Ids, version : Versions]),
         NEW T, NEW old \in Seq(T), Len(old) = Len(mem.ids), NEW new,
         \A k \in DOMAIN Kept : Kept[k] \notin Old => new[NewAt(Kept[k])] \in T
  PROVE  /\ Rebuilt(old, new) \in Seq(T) /\ Len(Rebuilt(old, new)) = Len(Kept)
         /\ DOMAIN Rebuilt(old, new) = DOMAIN Kept
<1>1. /\ Kept \in Seq(KeptSet) /\ DOMAIN Kept = 1..Len(Kept) /\ Len(Kept) \in Nat
  BY KeptLists, LenProperties
<1>2. ASSUME NEW k \in DOMAIN Kept, Kept[k] \in Old PROVE old[Kept[k]] \in T
  <2>1. Kept[k] \in 1..Len(old)
    BY <1>2, AllIdsAre
  <2>2. QED BY <2>1, ElementOfSeq
<1>3. Rebuilt(old, new) \in [1..Len(Kept) -> T]
  BY <1>1, <1>2 DEF Rebuilt
<1>4. QED BY <1>1, <1>3, SeqDef, LenProperties

(* What a flush puts in memory. *)
LEMMA QuantizerTyped ==
  ASSUME MemTyped, staged \in Seq([id : Ids, version : Versions])
  PROVE  /\ Quantizer \in Quantizers \cup {None}
         /\ mem.quant # None => Quantizer = mem.quant
         /\ \A k \in DOMAIN Kept : Kept[k] \notin Old => Quantizer \in Quantizers
<1>1. NewVectors \subseteq {Vector[v] : v \in Versions}
  <2>1. ASSUME NEW k \in DOMAIN Kept, Kept[k] \notin Old PROVE NewAt(Kept[k]) \in Versions
    BY <2>1, KeptLists, AllIdsAre
  <2>2. QED BY <2>1 DEF NewVectors
<1>2. NewVectors # {} => fit(NewVectors) \in Quantizers
  BY <1>1 DEF Quantizers
<1>3. mem.quant \in Quantizers \cup {None}
  BY DEF MemTyped
<1>4. ASSUME NEW k \in DOMAIN Kept, Kept[k] \notin Old PROVE NewVectors # {}
  BY <1>4 DEF NewVectors
<1>5. QED BY <1>2, <1>3, <1>4 DEF Quantizer

LEMMA FlushTyped ==
  ASSUME MemTyped, staged \in Seq([id : Ids, version : Versions]), Flush
  PROVE  /\ MemTyped'
         /\ Len(mem'.ids) = Len(Kept) /\ DOMAIN mem'.ids = DOMAIN Kept /\ DOMAIN mem'.int8 = DOMAIN Kept
<1>1. /\ Kept \in Seq(KeptSet) /\ DOMAIN Kept = 1..Len(Kept) /\ Len(Kept) \in Nat
      /\ \A k \in DOMAIN Kept : Kept[k] \in DOMAIN AllIds
  BY KeptLists, LenProperties
<1>2. \A k \in DOMAIN Kept : Kept[k] \notin Old => NewAt(Kept[k]) \in Versions
  BY <1>1, AllIdsAre
<1>3. \A k \in DOMAIN Kept : Kept[k] \notin Old => Same[NewAt(Kept[k])] \in Versions
  BY <1>2 DEF Same
<1>4. \A k \in DOMAIN Kept : Kept[k] \notin Old => Int8[NewAt(Kept[k])] \in Codes
  BY <1>2, QuantizerTyped DEF Int8, Codes
<1>5. /\ Rebuilt(mem.binary, Same) \in Seq(Versions) /\ Len(Rebuilt(mem.binary, Same)) = Len(Kept)
      /\ Rebuilt(mem.acl, Same) \in Seq(Versions) /\ Len(Rebuilt(mem.acl, Same)) = Len(Kept)
  <2>1. mem.binary \in Seq(Versions) /\ mem.acl \in Seq(Versions)
        /\ Len(mem.binary) = Len(mem.ids) /\ Len(mem.acl) = Len(mem.ids)
    BY DEF MemTyped
  <2>2. QED BY <1>3, <2>1, RebuiltLists
<1>6. /\ Rebuilt(mem.int8, Int8) \in Seq(Codes) /\ Len(Rebuilt(mem.int8, Int8)) = Len(Kept)
      /\ DOMAIN Rebuilt(mem.int8, Int8) = DOMAIN Kept
  <2>1. mem.int8 \in Seq(Codes) /\ Len(mem.int8) = Len(mem.ids)
    BY DEF MemTyped
  <2>2. QED BY <1>4, <2>1, RebuiltLists
<1> DEFINE kept == [k \in DOMAIN Kept |-> AllIds[Kept[k]]]
<1>7. kept \in Seq(Ids) /\ Len(kept) = Len(Kept) /\ DOMAIN kept = DOMAIN Kept
  <2>1. \A i \in DOMAIN AllIds : AllIds[i] \in Ids
    BY AllIdsAre, ElementOfSeq
  <2>2. kept \in [1..Len(Kept) -> Ids]
    BY <1>1, <2>1
  <2>3. QED BY <1>1, <2>2, SeqDef, LenProperties
<1> HIDE DEF kept
<1>8. mem' = [binary |-> Rebuilt(mem.binary, Same), int8 |-> Rebuilt(mem.int8, Int8),
              ids |-> kept, acl |-> Rebuilt(mem.acl, Same), quant |-> Quantizer]
  BY DEF Flush, kept
<1>9. Quantizer \in Quantizers \cup {None}
  BY QuantizerTyped
<1>10. /\ mem'.binary = Rebuilt(mem.binary, Same) /\ mem'.int8 = Rebuilt(mem.int8, Int8)
       /\ mem'.ids = kept /\ mem'.acl = Rebuilt(mem.acl, Same) /\ mem'.quant = Quantizer
  BY <1>8
<1>11. mem' \in [binary : Seq(Versions), int8 : Seq(Codes), ids : Seq(Ids), acl : Seq(Versions),
                 quant : Quantizers \cup {None}]
  BY <1>5, <1>6, <1>7, <1>8, <1>9
<1>12. MemTyped'
  BY <1>5, <1>6, <1>7, <1>10, <1>11 DEF MemTyped
<1>13. QED BY <1>6, <1>7, <1>10, <1>12

(* What open finds in files whose counts agree. *)
LEMMA LoadedTyped ==
  ASSUME NEW d, FilesTyped(d), d.meta # None, Loadable(d), NEW q \in Quantizers \cup {None}
  PROVE  LET m == Loaded(d, q) IN
         /\ m \in [binary : Seq(Versions), int8 : Seq(Codes), ids : Seq(Ids), acl : Seq(Versions),
                   quant : Quantizers \cup {None}]
         /\ d.meta \in Nat
         /\ m.ids = d.ids /\ Len(m.ids) = d.meta /\ m.acl = d.acl /\ Len(m.acl) = d.meta
         /\ Len(m.binary) = d.meta /\ \A i \in 1..d.meta : m.binary[i] = d.binary[i]
         /\ Len(m.int8) = d.meta /\ \A i \in 1..d.meta : m.int8[i] = d.int8[i]
         /\ d.meta # 0 => d.meta <= Len(d.binary) /\ d.meta <= Len(d.int8)
         /\ m.quant = IF d.quant # None THEN d.quant ELSE q
<1> DEFINE n == d.meta
           m == Loaded(d, q)
<1>1. n \in Nat /\ d.binary \in Seq(Versions) /\ d.int8 \in Seq(Codes)
      /\ d.ids \in Seq(Ids) /\ d.acl \in Seq(Versions) /\ d.quant \in Quantizers \cup {None}
  BY DEF FilesTyped
<1>2. /\ n = 0 \/ (n <= Len(d.binary) /\ n <= Len(d.int8))
      /\ Len(d.ids) = n /\ Len(d.acl) = n
  <2>1. Len(d.binary) \in Nat /\ Len(d.int8) \in Nat
    BY <1>1, LenProperties
  <2>2. QED BY <1>1, <2>1 DEF Loadable, Mappable
<1>3. /\ SubSeq(d.binary, 1, n) \in Seq(Versions) /\ Len(SubSeq(d.binary, 1, n)) = n
      /\ \A i \in 1..n : SubSeq(d.binary, 1, n)[i] = d.binary[i]
  <2>1. CASE n = 0
    <3>1. SubSeq(d.binary, 1, n) = <<>>
      BY <1>1, <2>1
    <3>2. QED BY <2>1, <3>1, EmptySeq
  <2>2. CASE n # 0
    <3>1. Len(d.binary) \in Nat
      BY <1>1, LenProperties
    <3>2. n \in 1..Len(d.binary)
      BY <1>1, <1>2, <2>2, <3>1
    <3>3. QED BY <1>1, <3>1, <3>2
  <2>3. QED BY <2>1, <2>2
<1>4. /\ SubSeq(d.int8, 1, n) \in Seq(Codes) /\ Len(SubSeq(d.int8, 1, n)) = n
      /\ \A i \in 1..n : SubSeq(d.int8, 1, n)[i] = d.int8[i]
  <2>1. CASE n = 0
    <3>1. SubSeq(d.int8, 1, n) = <<>>
      BY <1>1, <2>1
    <3>2. QED BY <2>1, <3>1, EmptySeq
  <2>2. CASE n # 0
    <3>1. Len(d.int8) \in Nat
      BY <1>1, LenProperties
    <3>2. n \in 1..Len(d.int8)
      BY <1>1, <1>2, <2>2, <3>1
    <3>3. QED BY <1>1, <3>1, <3>2
  <2>3. QED BY <2>1, <2>2
<1> DEFINE b == SubSeq(d.binary, 1, n)
           i8 == SubSeq(d.int8, 1, n)
           qq == IF d.quant # None THEN d.quant ELSE q
<1>5. qq \in Quantizers \cup {None}
  BY <1>1
<1>6. m = [binary |-> b, int8 |-> i8, ids |-> d.ids, acl |-> d.acl, quant |-> qq]
  BY DEF Loaded
<1> HIDE DEF b, i8, qq, m
<1>7. /\ m.binary = b /\ m.int8 = i8 /\ m.ids = d.ids /\ m.acl = d.acl /\ m.quant = qq
  BY <1>6
<1>8. b \in Seq(Versions) /\ i8 \in Seq(Codes)
  BY <1>3, <1>4 DEF b, i8
<1>9. m \in [binary : Seq(Versions), int8 : Seq(Codes), ids : Seq(Ids), acl : Seq(Versions),
                   quant : Quantizers \cup {None}]
  BY <1>1, <1>5, <1>6, <1>8
<1>10. /\ Len(m.binary) = n /\ \A i \in 1..n : m.binary[i] = d.binary[i]
       /\ Len(m.int8) = n /\ \A i \in 1..n : m.int8[i] = d.int8[i]
  BY <1>3, <1>4, <1>7 DEF b, i8
<1>11. QED BY <1>1, <1>2, <1>7, <1>9, <1>10 DEF m, qq

-----------------------------------------------------------------------------
(* The directory and the memory have their types, and the files replaced   *)
(* so far are those of memory.                                             *)
LEMMA EmptyTyped ==
  /\ Empty \in [binary : Seq(Versions), int8 : Seq(Codes), ids : Seq(Ids), acl : Seq(Versions),
                quant : Quantizers \cup {None}]
  /\ Empty.binary = <<>> /\ Empty.int8 = <<>> /\ Empty.ids = <<>> /\ Empty.acl = <<>>
  /\ Empty.quant = None
BY EmptySeq DEF Empty

LEMMA FilesInit == Init => FilesInvariant /\ OneQuantizer /\ SavedIsWhole
<1> SUFFICES ASSUME Init PROVE FilesInvariant /\ OneQuantizer /\ SavedIsWhole
  OBVIOUS
<1>1. MemTyped /\ mem.quant = None /\ mem.ids = <<>> /\ mem.int8 = <<>>
  BY EmptyTyped DEF Init, MemTyped
<1>2. /\ DOMAIN NoFiles = {"binary", "int8", "ids", "acl", "quant", "meta"}
      /\ NoFiles.binary = None /\ NoFiles.int8 = None /\ NoFiles.ids = None /\ NoFiles.acl = None
      /\ NoFiles.quant = None /\ NoFiles.meta = None
  <2>1. {Names[i] : i \in 1..6} = {"binary", "int8", "ids", "acl", "quant", "meta"}
    <3>1. 1..6 = {1, 2, 3, 4, 5, 6}
      OBVIOUS
    <3>2. QED BY <3>1, NamesAre
  <2>2. QED BY <2>1 DEF NoFiles
<1>3. FilesTyped(disk) /\ FilesTyped(saved)
  BY <1>2 DEF Init, FilesTyped
<1>4. StateTyped /\ ReplacedAreNew
  <2>1. <<>> \in Seq([id : Ids, version : Versions])
    BY EmptySeq
  <2>2. /\ staged \in Seq([id : Ids, version : Versions]) /\ removed \subseteq Docs
        /\ leftQuant \in Quantizers \cup {None} /\ pc = "down" /\ next \in 1..6
        /\ mem = Empty /\ staged = <<>> /\ removed = {}
    BY <2>1 DEF Init
  <2>4. opening = FALSE /\ appends = TRUE
    BY DEF Init
  <2>5. StateTyped
    BY <2>2, <2>4, Zenon DEF StateTyped
  <2>3. ReplacedAreNew
    BY DEF Init, ReplacedAreNew
  <2>6. QED BY <2>3, <2>5
<1>5. DOMAIN mem.int8 = {}
  BY <1>1
<1>6. OneQuantizer /\ SavedIsWhole
  BY <1>1, <1>2, <1>5 DEF Init, OneQuantizer, SavedIsWhole, Counted, Live
<1>7. QED BY <1>1, <1>3, <1>4, <1>6 DEF FilesInvariant

LEMMA ReplaceTyped ==
  ASSUME FilesInvariant, pc = "replace"
  PROVE  /\ FilesTyped(Replaced)
         /\ Replaced.binary = mem.binary
         /\ next > 1 => Replaced.int8 = mem.int8
         /\ next > 2 => Replaced.ids = mem.ids
         /\ next > 3 => Replaced.acl = mem.acl
         /\ mem.quant # None /\ next > 4 => Replaced.quant = mem.quant
         /\ next < 6 => Replaced.meta = disk.meta
         /\ next = 6 => Replaced.meta = Len(mem.ids)
         /\ next # 5 => Replaced.quant = disk.quant
         /\ next # 2 => Replaced.int8 = disk.int8
         /\ next # 3 => Replaced.ids = disk.ids
         /\ next # 4 => Replaced.acl = disk.acl
<1>1. /\ DOMAIN disk = {"binary", "int8", "ids", "acl", "quant", "meta"}
      /\ FilesTyped(disk)
  BY DEF FilesInvariant, FilesTyped
<1>2. /\ mem.binary \in Seq(Versions) /\ mem.int8 \in Seq(Codes) /\ mem.ids \in Seq(Ids)
      /\ mem.acl \in Seq(Versions) /\ Len(mem.ids) \in Nat
  BY LenProperties DEF FilesInvariant, MemTyped
<1>3. /\ mem.binary # None /\ mem.int8 # None /\ mem.ids # None /\ mem.acl # None
  BY <1>2, NoneIsApart
<1>4. next \in {1, 2, 3, 4, 5, 6} /\ leftQuant \in Quantizers \cup {None}
  BY DEF FilesInvariant, StateTyped
<1>5. /\ next > 1 => disk.binary = mem.binary
      /\ next > 2 => disk.int8 = mem.int8
      /\ next > 3 => disk.ids = mem.ids
      /\ next > 4 => disk.acl = mem.acl
      /\ mem.quant # None => IF next > 5 THEN disk.quant = mem.quant ELSE leftQuant = mem.quant
  BY DEF FilesInvariant, ReplacedAreNew
<1>6. CASE next = 1
  <2>1. Replaced = [disk EXCEPT !.binary = mem.binary]
    BY <1>6, ReplacedIs
  <2>2. QED BY <1>1, <1>2, <1>3, <1>6, <2>1 DEF FilesTyped
<1>7. CASE next = 2
  <2>1. Replaced = [disk EXCEPT !.int8 = mem.int8]
    BY <1>7, ReplacedIs
  <2>2. QED BY <1>1, <1>2, <1>3, <1>5, <1>7, <2>1 DEF FilesTyped
<1>8. CASE next = 3
  <2>1. Replaced = [disk EXCEPT !.ids = mem.ids]
    BY <1>8, ReplacedIs
  <2>2. QED BY <1>1, <1>2, <1>3, <1>5, <1>8, <2>1 DEF FilesTyped
<1>9. CASE next = 4
  <2>1. Replaced = [disk EXCEPT !.acl = mem.acl]
    BY <1>9, ReplacedIs
  <2>2. QED BY <1>1, <1>2, <1>3, <1>5, <1>9, <2>1 DEF FilesTyped
<1>10. CASE next = 5
  <2>1. Replaced = IF leftQuant = None THEN disk ELSE [disk EXCEPT !.quant = leftQuant]
    BY <1>10, ReplacedIs
  <2>2. QED BY <1>1, <1>4, <1>5, <1>10, <2>1 DEF FilesTyped
<1>11. CASE next = 6
  <2>1. Replaced = [disk EXCEPT !.meta = Len(mem.ids)]
    BY <1>11, ReplacedIs
  <2>2. QED BY <1>1, <1>2, <1>3, <1>5, <1>11, <2>1 DEF FilesTyped
<1>12. QED BY <1>4, <1>6, <1>7, <1>8, <1>9, <1>10, <1>11

(* What flush loads again is what it wrote. *)
LEMMA LastReplaced ==
  ASSUME FilesInvariant, pc = "replace", next = 6
  PROVE  LET m == Loaded(Replaced, mem.quant) IN
         /\ Loadable(Replaced) /\ Replaced.meta = Len(mem.ids) /\ Replaced.ids = mem.ids
         /\ Replaced.binary = mem.binary /\ Replaced.int8 = mem.int8 /\ Replaced.acl = mem.acl
         /\ mem.quant # None => Replaced.quant = mem.quant
         /\ m.binary = mem.binary /\ m.int8 = mem.int8 /\ m.ids = mem.ids /\ m.acl = mem.acl
         /\ m.quant = IF Replaced.quant # None THEN Replaced.quant ELSE mem.quant
         /\ m \in [binary : Seq(Versions), int8 : Seq(Codes), ids : Seq(Ids), acl : Seq(Versions),
                   quant : Quantizers \cup {None}]
<1> DEFINE d == Replaced
<1>1. /\ FilesTyped(d) /\ d.binary = mem.binary /\ d.int8 = mem.int8 /\ d.ids = mem.ids
      /\ d.acl = mem.acl /\ d.meta = Len(mem.ids) /\ (mem.quant # None => d.quant = mem.quant)
  BY ReplaceTyped
<1>2. /\ mem.binary \in Seq(Versions) /\ mem.int8 \in Seq(Codes) /\ mem.ids \in Seq(Ids)
      /\ mem.acl \in Seq(Versions) /\ Len(mem.ids) \in Nat /\ mem.quant \in Quantizers \cup {None}
      /\ Len(mem.binary) = Len(mem.ids) /\ Len(mem.int8) = Len(mem.ids) /\ Len(mem.acl) = Len(mem.ids)
  BY LenProperties DEF FilesInvariant, MemTyped
<1> HIDE DEF d
<1>3. Loadable(d) /\ d.meta # None
  BY <1>1, <1>2, NoneIsApart DEF Loadable, Mappable
<1> DEFINE m == Loaded(d, mem.quant)
<1>4. /\ m \in [binary : Seq(Versions), int8 : Seq(Codes), ids : Seq(Ids), acl : Seq(Versions),
                quant : Quantizers \cup {None}]
      /\ m.ids = d.ids /\ m.acl = d.acl
      /\ Len(m.binary) = d.meta /\ \A i \in 1..d.meta : m.binary[i] = d.binary[i]
      /\ Len(m.int8) = d.meta /\ \A i \in 1..d.meta : m.int8[i] = d.int8[i]
      /\ m.quant = IF d.quant # None THEN d.quant ELSE mem.quant
  BY <1>1, <1>2, <1>3, LoadedTyped
<1> HIDE DEF m
<1>5. m.binary \in Seq(Versions) /\ m.int8 \in Seq(Codes)
  BY <1>4
<1>6. m.binary = mem.binary
  <2>1. Len(m.binary) = Len(mem.binary) /\ \A i \in 1..Len(mem.binary) : m.binary[i] = mem.binary[i]
    BY <1>1, <1>2, <1>4
  <2>2. QED BY <1>2, <1>5, <2>1, SeqEqual
<1>7. m.int8 = mem.int8
  <2>1. Len(m.int8) = Len(mem.int8) /\ \A i \in 1..Len(mem.int8) : m.int8[i] = mem.int8[i]
    BY <1>1, <1>2, <1>4
  <2>2. QED BY <1>2, <1>5, <2>1, SeqEqual
<1>8. QED BY <1>1, <1>3, <1>4, <1>6, <1>7 DEF m, d

LEMMA FilesStep ==
  ASSUME FilesInvariant, [Next]_fvars
  PROVE  FilesInvariant'
<1>0. /\ MemTyped /\ FilesTyped(disk) /\ FilesTyped(saved) /\ StateTyped /\ ReplacedAreNew
      /\ staged \in Seq([id : Ids, version : Versions])
  BY DEF FilesInvariant, StateTyped
<1>1. ASSUME UNCHANGED <<mem, disk, saved>>, StateTyped', ReplacedAreNew' PROVE FilesInvariant'
  <2>1. MemTyped' /\ FilesTyped(disk)' /\ FilesTyped(saved)'
    BY <1>0, <1>1 DEF MemTyped, FilesTyped
  <2>2. QED BY <1>1, <2>1 DEF FilesInvariant
<1>2. CASE UNCHANGED fvars
  <2>1. StateTyped' /\ ReplacedAreNew'
    BY <1>0, <1>2 DEF fvars, StateTyped, ReplacedAreNew, Live
  <2>2. QED BY <1>1, <1>2, <2>1 DEF fvars
<1>3. CASE OpenExisting
  <2>1. CASE Loadable(disk)
    <3>1. /\ mem' = Loaded(disk, None) /\ pc' = "up" /\ saved' = disk /\ appends' = TRUE /\ disk.meta # None
          /\ UNCHANGED <<staged, removed, disk, leftQuant, next, opening>>
      BY <1>3, <2>1 DEF OpenExisting
    <3>2. MemTyped'
      <4>1. None \in Quantizers \cup {None}
        OBVIOUS
      <4> DEFINE m == Loaded(disk, None)
      <4>2. /\ m \in [binary : Seq(Versions), int8 : Seq(Codes), ids : Seq(Ids), acl : Seq(Versions),
                      quant : Quantizers \cup {None}]
            /\ Len(m.binary) = Len(m.ids) /\ Len(m.int8) = Len(m.ids) /\ Len(m.acl) = Len(m.ids)
        BY <1>0, <2>1, <3>1, <4>1, LoadedTyped
      <4> HIDE DEF m
      <4>3. mem' = m
        BY <3>1 DEF m
      <4>4. QED BY <4>2, <4>3 DEF MemTyped
    <3>3. FilesTyped(disk)' /\ FilesTyped(saved)'
      BY <1>0, <3>1 DEF FilesTyped
    <3>4. StateTyped' /\ ReplacedAreNew'
      BY <1>0, <3>1 DEF StateTyped, ReplacedAreNew, Live
    <3>5. QED BY <3>2, <3>3, <3>4 DEF FilesInvariant
  <2>2. CASE ~Loadable(disk)
    <3>1. /\ UNCHANGED <<mem, disk, saved, staged, removed, leftQuant, next, opening>>
          /\ pc = "down" /\ pc' = "refused" /\ appends' = TRUE
      BY <1>3, <2>2 DEF OpenExisting
    <3>2. StateTyped' /\ ReplacedAreNew'
      BY <1>0, <3>1 DEF StateTyped, ReplacedAreNew, Live
    <3>3. QED BY <1>1, <3>1, <3>2
  <2>3. QED BY <2>1, <2>2
<1>4. CASE OpenNew
  <2>1. StateTyped' /\ ReplacedAreNew'
    BY <1>0, <1>4 DEF OpenNew, StateTyped, ReplacedAreNew, Live
  <2>2. QED BY <1>1, <1>4, <2>1 DEF OpenNew
<1>5. ASSUME NEW c \in Ids, NEW v \in Versions, add(c, v) PROVE FilesInvariant'
  <2>1. staged' \in Seq([id : Ids, version : Versions])
    BY <1>0, <1>5, AppendProperties DEF add
  <2>2. StateTyped' /\ ReplacedAreNew'
    BY <1>0, <1>5, <2>1 DEF add, Staging, StateTyped, ReplacedAreNew, Live
  <2>3. QED BY <1>1, <1>5, <2>2 DEF add
<1>6. ASSUME NEW d \in Docs, remove_document(d) PROVE FilesInvariant'
  <2>1. StateTyped' /\ ReplacedAreNew'
    BY <1>0, <1>6 DEF remove_document, Staging, StateTyped, ReplacedAreNew, Live
  <2>2. QED BY <1>1, <1>6, <2>1 DEF remove_document
<1>7. CASE Flush
  <2>1. MemTyped'
    BY <1>0, <1>7, FlushTyped
  <2>2. /\ pc = "up" /\ pc' = "write" /\ staged' = <<>> /\ removed' = {} /\ appends' \in BOOLEAN
        /\ UNCHANGED <<disk, leftQuant, next, opening, saved>>
    BY <1>0, <1>7 DEF Flush, StateTyped
  <2>3. staged' \in Seq([id : Ids, version : Versions])
    BY <2>2, EmptySeq
  <2>4. StateTyped' /\ ReplacedAreNew'
    BY <1>0, <2>2, <2>3 DEF StateTyped, ReplacedAreNew, Live
  <2>5. FilesTyped(disk)' /\ FilesTyped(saved)'
    BY <1>0, <2>2 DEF FilesTyped
  <2>6. QED BY <2>1, <2>4, <2>5 DEF FilesInvariant
<1>8. CASE Write
  <2>1. mem.quant \in Quantizers \cup {None}
    BY <1>0 DEF MemTyped
  <2>2. StateTyped' /\ ReplacedAreNew'
    BY <1>0, <1>8, <2>1 DEF Write, StateTyped, ReplacedAreNew, Live
  <2>3. QED BY <1>1, <1>8, <2>2 DEF Write
<1>9. CASE Replace
  <2>1. /\ pc = "replace" /\ pc' = "replace" /\ next < 6 /\ next' = next + 1 /\ next \in 1..6
        /\ disk' = Replaced /\ UNCHANGED <<mem, staged, removed, opening, saved, appends>>
        /\ leftQuant' = IF Names[next] = "quant" THEN None ELSE leftQuant
    BY <1>0, <1>9 DEF Replace, StateTyped
  <2>2. /\ FilesTyped(Replaced)
        /\ Replaced.binary = mem.binary
        /\ next > 1 => Replaced.int8 = mem.int8
        /\ next > 2 => Replaced.ids = mem.ids
        /\ next > 3 => Replaced.acl = mem.acl
        /\ mem.quant # None /\ next > 4 => Replaced.quant = mem.quant
        /\ Replaced.meta = disk.meta
    BY <2>1, ReplaceTyped
  <2>3. next \in {1, 2, 3, 4} => leftQuant' = leftQuant
    BY <2>1, NamesAre
  <2>4. ReplacedAreNew'
    BY <1>0, <2>1, <2>2, <2>3 DEF ReplacedAreNew
  <2>5. StateTyped'
    BY <1>0, <2>1, <2>2 DEF StateTyped, Live
  <2>6. MemTyped' /\ FilesTyped(saved)' /\ FilesTyped(disk)'
    BY <1>0, <2>1, <2>2 DEF MemTyped, FilesTyped
  <2>7. QED BY <2>4, <2>5, <2>6 DEF FilesInvariant
<1>10. CASE ReplaceLast
  <2>1. /\ pc = "replace" /\ pc' = "up" /\ next = 6 /\ opening' = FALSE /\ appends' = TRUE
        /\ disk' = Replaced /\ saved' = Replaced /\ UNCHANGED <<staged, removed, leftQuant, next>>
        /\ mem' = IF opening THEN mem ELSE Loaded(Replaced, mem.quant)
    BY <1>10 DEF ReplaceLast
  <2>2. FilesTyped(Replaced)
    BY <2>1, ReplaceTyped
  <2>3. MemTyped'
    <3>1. CASE opening
      BY <1>0, <2>1, <3>1 DEF MemTyped
    <3>2. CASE ~opening
      <4> DEFINE m == Loaded(Replaced, mem.quant)
      <4>1. /\ m.binary = mem.binary /\ m.int8 = mem.int8 /\ m.ids = mem.ids /\ m.acl = mem.acl
            /\ m \in [binary : Seq(Versions), int8 : Seq(Codes), ids : Seq(Ids), acl : Seq(Versions),
                      quant : Quantizers \cup {None}]
        BY <2>1, LastReplaced
      <4>2. mem' = m
        BY <2>1, <3>2
      <4> HIDE DEF m
      <4>3. QED BY <1>0, <4>1, <4>2 DEF MemTyped
    <3>3. QED BY <3>1, <3>2
  <2>4. StateTyped' /\ ReplacedAreNew'
    BY <1>0, <2>1 DEF StateTyped, ReplacedAreNew, Live
  <2>5. FilesTyped(disk)' /\ FilesTyped(saved)'
    BY <2>1, <2>2 DEF FilesTyped
  <2>6. QED BY <2>3, <2>4, <2>5 DEF FilesInvariant
<1>11. CASE WriteFails
  <2>1. /\ pc \in {"write", "replace"} /\ pc' = IF opening THEN "down" ELSE "up"
        /\ opening' = FALSE /\ UNCHANGED <<mem, staged, removed, disk, next, saved, appends>>
        /\ leftQuant' = leftQuant \/ leftQuant' = mem.quant
    BY <1>11 DEF WriteFails
  <2>2. mem.quant \in Quantizers \cup {None}
    BY <1>0 DEF MemTyped
  <2>3. StateTyped' /\ ReplacedAreNew'
    BY <1>0, <2>1, <2>2 DEF StateTyped, ReplacedAreNew, Live
  <2>4. QED BY <1>1, <2>1, <2>3
<1>12. CASE Stop
  <2>1. /\ pc' = "down" /\ mem' = Empty /\ staged' = <<>> /\ removed' = {}
        /\ opening' = FALSE /\ UNCHANGED <<disk, next, saved, appends>>
        /\ leftQuant' = leftQuant \/ leftQuant' = mem.quant
    BY <1>12 DEF Stop
  <2>2. mem.quant \in Quantizers \cup {None}
    BY <1>0 DEF MemTyped
  <2>3. staged' \in Seq([id : Ids, version : Versions])
    BY <2>1, EmptySeq
  <2>4. StateTyped' /\ ReplacedAreNew'
    BY <1>0, <2>1, <2>2, <2>3 DEF StateTyped, ReplacedAreNew, Live
  <2>5. MemTyped'
    BY <2>1, EmptyTyped DEF MemTyped
  <2>6. FilesTyped(disk)' /\ FilesTyped(saved)'
    BY <1>0, <2>1 DEF FilesTyped
  <2>7. QED BY <2>4, <2>5, <2>6 DEF FilesInvariant
<1>13. QED
  BY <1>2, <1>3, <1>4, <1>5, <1>6, <1>7, <1>8, <1>9, <1>10, <1>11, <1>12 DEF Next

(* The lists of a flush, the staged entries and the documents removed have *)
(* their types in every state; the lists are as long as each other.        *)
THEOREM FilesAreTyped == Spec => []TypeOK
<1>1. FilesInvariant => TypeOK
  BY DEF FilesInvariant, MemTyped, StateTyped, TypeOK
<1>2. FilesInvariant /\ [Next]_fvars => FilesInvariant'
  BY FilesStep
<1>3. QED BY <1>1, <1>2, FilesInit, PTL DEF Spec

-----------------------------------------------------------------------------
(* One quantizer.  A step that changes neither the rows nor the files      *)
(* keeps what is said of them, unless an index comes to be open.           *)
LEMMA SameRows ==
  ASSUME OneQuantizer, UNCHANGED <<mem, disk>>, Live' => Live \/ ~Counted
  PROVE  OneQuantizer'
BY DEF OneQuantizer, Counted

LEMMA QuantizerStep ==
  ASSUME FilesInvariant, OneQuantizer, [Next]_fvars
  PROVE  OneQuantizer'
<1>0. /\ MemTyped /\ FilesTyped(disk) /\ StateTyped
      /\ staged \in Seq([id : Ids, version : Versions])
      /\ mem.int8 \in Seq(Codes) /\ DOMAIN mem.int8 = 1..Len(mem.ids) /\ Len(mem.ids) \in Nat
      /\ mem.ids \in Seq(Ids)
  <2>1. MemTyped /\ FilesTyped(disk) /\ StateTyped
    BY DEF FilesInvariant
  <2>2. mem.int8 \in Seq(Codes) /\ mem.ids \in Seq(Ids) /\ Len(mem.int8) = Len(mem.ids)
    BY <2>1 DEF MemTyped
  <2>3. QED BY <2>1, <2>2, LenProperties DEF StateTyped
<1>1. /\ mem.quant = None => mem.ids = <<>>
      /\ \A r \in DOMAIN mem.int8 : mem.int8[r].quant = mem.quant
      /\ Counted => disk.quant # None /\ \A r \in DOMAIN disk.int8 : disk.int8[r].quant = disk.quant
      /\ Live /\ Counted => mem.quant = disk.quant
  BY DEF OneQuantizer
<1>2. CASE UNCHANGED fvars
  BY <1>2, SameRows DEF fvars, Live
<1>3. CASE OpenExisting
  <2>1. CASE Loadable(disk)
    <3> DEFINE m == Loaded(disk, None)
    <3>1. mem' = m /\ disk.meta # None /\ UNCHANGED disk
      BY <1>3, <2>1 DEF OpenExisting
    <3>2. None \in Quantizers \cup {None}
      OBVIOUS
    <3>3. /\ m.int8 \in Seq(Codes) /\ m.ids \in Seq(Ids)
          /\ disk.meta \in Nat /\ Len(m.ids) = disk.meta
          /\ Len(m.int8) = disk.meta /\ \A i \in 1..disk.meta : m.int8[i] = disk.int8[i]
          /\ disk.meta # 0 => disk.meta <= Len(disk.int8)
          /\ m.quant = disk.quant
      BY <1>0, <2>1, <3>1, <3>2, LoadedTyped
    <3> HIDE DEF m
    <3>4. disk.int8 \in Seq(Codes)
      BY <1>0, <3>1 DEF FilesTyped
    <3>5. DOMAIN disk.int8 = 1..Len(disk.int8) /\ Len(disk.int8) \in Nat /\ DOMAIN m.int8 = 1..disk.meta
      BY <3>3, <3>4, LenProperties
    <3>6. CASE Counted
      <4>1. \A r \in DOMAIN m.int8 : m.int8[r].quant = m.quant
        <5>1. disk.meta # 0
          BY <3>6 DEF Counted
        <5>2. \A r \in 1..disk.meta : r \in DOMAIN disk.int8
          BY <3>3, <3>5, <5>1
        <5>3. QED BY <1>1, <3>3, <3>5, <3>6, <5>2
      <4>2. QED BY <1>1, <3>1, <3>3, <3>6, <4>1 DEF OneQuantizer, Counted
    <3>7. CASE ~Counted
      <4>1. disk.meta = 0
        BY <3>1, <3>7 DEF Counted
      <4>2. m.ids = <<>> /\ DOMAIN m.int8 = {}
        BY <3>3, <3>5, <4>1, EmptySeq
      <4>3. QED BY <3>1, <3>7, <4>2 DEF OneQuantizer, Counted
    <3>8. QED BY <3>6, <3>7
  <2>2. CASE ~Loadable(disk)
    BY <1>3, <2>2, SameRows DEF OpenExisting, Live
  <2>3. QED BY <2>1, <2>2
<1>4. CASE OpenNew
  BY <1>4, SameRows DEF OpenNew, Counted
<1>5. ASSUME NEW c \in Ids, NEW v \in Versions, add(c, v) PROVE OneQuantizer'
  BY <1>5, SameRows DEF add, Staging, Live
<1>6. ASSUME NEW d \in Docs, remove_document(d) PROVE OneQuantizer'
  BY <1>6, SameRows DEF remove_document, Staging, Live
<1>7. CASE Flush
  <2>1. /\ mem'.quant = Quantizer /\ mem'.int8 = Rebuilt(mem.int8, Int8) /\ pc = "up" /\ UNCHANGED disk
    BY <1>7 DEF Flush
  <2>2. /\ Len(mem'.ids) = Len(Kept) /\ DOMAIN mem'.ids = DOMAIN Kept /\ DOMAIN mem'.int8 = DOMAIN Kept
        /\ mem'.ids \in Seq(Ids)
    BY <1>0, <1>7, FlushTyped DEF MemTyped
  <2>3. /\ Quantizer \in Quantizers \cup {None}
        /\ mem.quant # None => Quantizer = mem.quant
        /\ \A k \in DOMAIN Kept : Kept[k] \notin Old => Quantizer # None
    BY <1>0, QuantizerTyped, NoneIsApart
  <2>4. mem.quant = None => Old = {}
    BY <1>1 DEF Old
  <2>5. /\ Kept \in Seq(KeptSet) /\ DOMAIN Kept = 1..Len(Kept) /\ Len(Kept) \in Nat
    BY <1>0, KeptLists, LenProperties
  <2>6. mem'.quant = None => mem'.ids = <<>>
    <3>1. mem'.quant = None => DOMAIN Kept = {}
      BY <2>1, <2>3, <2>4
    <3>2. Len(Kept) # 0 => 1 \in DOMAIN Kept
      BY <2>5
    <3>3. QED BY <2>2, <3>1, <3>2, EmptySeq
  <2>7. ASSUME NEW k \in DOMAIN Kept PROVE Rebuilt(mem.int8, Int8)[k].quant = Quantizer
    <3>1. CASE Kept[k] \in Old
      <4>1. Rebuilt(mem.int8, Int8)[k] = mem.int8[Kept[k]]
        BY <3>1 DEF Rebuilt
      <4>2. Kept[k] \in DOMAIN mem.int8
        BY <1>0, <3>1, AllIdsAre
      <4>3. QED BY <1>1, <2>3, <2>4, <3>1, <4>1, <4>2
    <3>2. CASE Kept[k] \notin Old
      <4>1. Rebuilt(mem.int8, Int8)[k] = Int8[NewAt(Kept[k])]
        BY <3>2 DEF Rebuilt
      <4>2. NewAt(Kept[k]) \in Versions
        BY <1>0, <3>2, KeptLists, AllIdsAre
      <4>3. QED BY <4>1, <4>2 DEF Int8
    <3>3. QED BY <3>1, <3>2
  <2>8. Counted => Quantizer = disk.quant
    BY <1>1, <2>1, <2>3 DEF Live
  <2>9. QED BY <1>1, <2>1, <2>2, <2>6, <2>7, <2>8 DEF OneQuantizer, Counted
<1>8. CASE Write
  BY <1>8, SameRows DEF Write, Live
<1>9. CASE Replace
  <2>1. /\ pc = "replace" /\ disk' = Replaced /\ next < 6 /\ UNCHANGED mem /\ next \in 1..6
    BY <1>0, <1>9 DEF Replace, StateTyped
  <2>2. /\ next > 1 => Replaced.int8 = mem.int8
        /\ mem.quant # None /\ next > 4 => Replaced.quant = mem.quant
        /\ Replaced.meta = disk.meta
        /\ next # 5 => Replaced.quant = disk.quant
        /\ next # 2 => Replaced.int8 = disk.int8
    BY <2>1, ReplaceTyped
  <2>3. Counted' <=> Counted
    BY <2>1, <2>2 DEF Counted
  <2>4. Live
    BY <2>1 DEF Live
  <2>5. Counted => Replaced.quant = mem.quant /\ Replaced.quant = disk.quant
    BY <1>1, <2>1, <2>2, <2>4
  <2>6. Replaced.int8 = mem.int8 \/ Replaced.int8 = disk.int8
    BY <2>2
  <2>7. QED BY <1>1, <2>1, <2>3, <2>4, <2>5, <2>6 DEF OneQuantizer
<1>10. CASE ReplaceLast
  <2>1. /\ pc = "replace" /\ next = 6 /\ disk' = Replaced
        /\ mem' = IF opening THEN mem ELSE Loaded(Replaced, mem.quant)
    BY <1>10 DEF ReplaceLast
  <2>2. LET m == Loaded(Replaced, mem.quant) IN
        /\ Replaced.meta = Len(mem.ids) /\ Replaced.int8 = mem.int8
        /\ mem.quant # None => Replaced.quant = mem.quant
        /\ m.int8 = mem.int8 /\ m.ids = mem.ids
        /\ m.quant = IF Replaced.quant # None THEN Replaced.quant ELSE mem.quant
    BY <2>1, LastReplaced
  <2>3. /\ mem'.int8 = mem.int8 /\ mem'.ids = mem.ids
        /\ mem.quant # None => mem'.quant = mem.quant
    BY <2>1, <2>2
  <2>4. CASE mem.quant # None
    BY <1>1, <2>1, <2>2, <2>3, <2>4 DEF OneQuantizer
  <2>5. CASE mem.quant = None
    <3>1. mem.ids = <<>> /\ Len(mem.ids) = 0 /\ DOMAIN mem.int8 = {}
      BY <1>0, <1>1, <2>5, EmptySeq
    <3>2. ~Counted'
      BY <2>1, <2>2, <3>1 DEF Counted
    <3>3. QED BY <2>3, <3>1, <3>2 DEF OneQuantizer
  <2>6. QED BY <2>4, <2>5
<1>11. CASE WriteFails
  BY <1>11, SameRows DEF WriteFails, Live
<1>12. CASE Stop
  <2>1. mem' = Empty /\ pc' = "down" /\ UNCHANGED disk
    BY <1>12 DEF Stop
  <2>2. DOMAIN Empty.int8 = {}
    BY EmptyTyped
  <2>3. QED BY <1>1, <2>1, <2>2, EmptyTyped DEF OneQuantizer, Live, Counted
<1>13. QED
  BY <1>2, <1>3, <1>4, <1>5, <1>6, <1>7, <1>8, <1>9, <1>10, <1>11, <1>12 DEF Next

(* flat.py:17-18: codes stay comparable across appends, and across failed  *)
(* writes and restarts.                                                    *)
THEOREM OneQuantizerForAll == Spec => []CodesComparable
<1>1. FilesInvariant /\ OneQuantizer => CodesComparable
  <2>1. FilesInvariant => DOMAIN mem.int8 = Rows
    <3>1. FilesInvariant => mem.int8 \in Seq(Codes) /\ mem.ids \in Seq(Ids) /\ Len(mem.int8) = Len(mem.ids)
      BY DEF FilesInvariant, MemTyped
    <3>2. QED BY <3>1, LenProperties DEF Rows
  <2>2. QED BY <2>1 DEF OneQuantizer, CodesComparable
<1>2. FilesInvariant /\ OneQuantizer /\ [Next]_fvars => FilesInvariant' /\ OneQuantizer'
  BY FilesStep, QuantizerStep
<1>3. QED BY <1>1, <1>2, FilesInit, PTL DEF Spec

-----------------------------------------------------------------------------
(* What is saved is whole, and memory and files go on from it.             *)

(* A flush that keeps every old row leaves each in its place. *)
LEMMA OldRowsStay ==
  ASSUME MemTyped, staged \in Seq([id : Ids, version : Versions]), \A i \in Old : Keep(i)
  PROVE  Len(mem.ids) <= Len(Kept) /\ \A i \in 1..Len(mem.ids) : i \in DOMAIN Kept /\ Kept[i] = i
<1> DEFINE m == Len(mem.ids)
<1>1. /\ m \in Nat /\ Old = 1..m /\ DOMAIN AllIds = 1..(m + Len(staged)) /\ Len(staged) \in Nat
  BY AllIdsAre
<1>2. KeptSet \in SUBSET (Nat \ {0}) /\ 1..m \subseteq KeptSet
  <2>1. 1..(m + Len(staged)) \subseteq Nat \ {0} /\ 1..m \subseteq 1..(m + Len(staged))
    BY <1>1
  <2>2. QED BY <1>1, <2>1 DEF KeptSet
<1>3. IsFiniteSet(KeptSet)
  <2>1. 1 \in Int /\ m + Len(staged) \in Int
    BY <1>1
  <2>2. IsFiniteSet(1..(m + Len(staged)))
    BY <2>1, FS_Interval
  <2>3. KeptSet \in SUBSET (1..(m + Len(staged)))
    BY <1>1 DEF KeptSet
  <2>4. QED BY <2>2, <2>3, FS_Subset
<1>4. /\ Kept = InOrder(KeptSet) /\ Len(Kept) = Cardinality(KeptSet) /\ Len(Kept) \in Nat
      /\ DOMAIN Kept = 1..Len(Kept)
  BY KeptLists DEF Kept, KeptSet
<1> HIDE DEF m
<1>5. \A i \in 1..m : i \in 1..Len(Kept) /\ Kept[i] = i
  BY <1>1, <1>2, <1>3, <1>4, InOrderKeepsPlace
<1>6. m <= Len(Kept)
  <2>1. CASE m = 0
    BY <1>4, <2>1
  <2>2. CASE m # 0
    <3>1. m \in 1..m
      BY <1>1, <2>2
    <3>2. QED BY <1>5, <3>1
  <2>3. QED BY <2>1, <2>2
<1>7. QED BY <1>4, <1>5, <1>6 DEF m

LEMMA FlushContinues ==
  ASSUME MemTyped, staged \in Seq([id : Ids, version : Versions]), Flush, appends',
         saved.meta \in Nat, Continues(mem)
  PROVE  Continues(mem)'
<1>1. /\ UNCHANGED saved /\ \A i \in Old : Keep(i)
  BY DEF Flush
<1>2. Len(mem.ids) <= Len(Kept) /\ \A i \in 1..Len(mem.ids) : i \in DOMAIN Kept /\ Kept[i] = i
  BY <1>1, OldRowsStay
<1>3. /\ mem'.binary = Rebuilt(mem.binary, Same) /\ mem'.acl = Rebuilt(mem.acl, Same)
      /\ mem'.ids = [k \in DOMAIN Kept |-> AllIds[Kept[k]]]
  BY DEF Flush
<1>4. /\ Len(mem'.ids) = Len(Kept) /\ Len(mem'.binary) = Len(Kept) /\ Len(mem'.acl) = Len(Kept)
  BY FlushTyped DEF MemTyped
<1>5. /\ Len(mem.ids) \in Nat /\ Old = 1..Len(mem.ids)
      /\ \A i \in 1..Len(mem.ids) : AllIds[i] = mem.ids[i]
  BY AllIdsAre
<1>6. \A i \in 1..Len(mem.ids) :
        mem'.ids[i] = mem.ids[i] /\ mem'.binary[i] = mem.binary[i] /\ mem'.acl[i] = mem.acl[i]
  BY <1>2, <1>3, <1>5 DEF Rebuilt
<1>7. saved.meta <= Len(mem.ids)
  BY DEF Continues
<1>8. saved.meta <= Len(Kept)
  <2>1. Len(Kept) \in Nat
    BY KeptLists
  <2>2. QED BY <1>2, <1>5, <1>7, <2>1
<1>9. ASSUME NEW i \in 1..saved.meta
      PROVE  /\ mem'.binary[i] = saved.binary[i] /\ mem'.ids[i] = saved.ids[i] /\ mem'.acl[i] = saved.acl[i]
  <2>1. i \in 1..Len(mem.ids)
    BY <1>5, <1>7
  <2>2. QED BY <1>6, <2>1 DEF Continues
<1>10. QED BY <1>1, <1>4, <1>8, <1>9 DEF Continues

LEMMA SameFiles ==
  ASSUME SavedIsWhole, UNCHANGED <<mem, disk, saved, appends>>, Live' => Live \/ disk.meta = None
  PROVE  SavedIsWhole'
<1>1. Loadable(saved)' <=> Loadable(saved)
  BY DEF Loadable, Mappable
<1>2. (Continues(mem)' <=> Continues(mem)) /\ (Continues(disk)' <=> Continues(disk))
  BY DEF Continues
<1>3. QED BY <1>1, <1>2 DEF SavedIsWhole

LEMMA SavedStep ==
  ASSUME FilesInvariant, SavedIsWhole, [Next]_fvars
  PROVE  SavedIsWhole'
<1>0. /\ MemTyped /\ FilesTyped(disk) /\ FilesTyped(saved) /\ StateTyped
      /\ staged \in Seq([id : Ids, version : Versions])
  BY DEF FilesInvariant, StateTyped
<1>1. /\ saved.meta # None => Loadable(saved)
      /\ disk.meta = None => saved = NoFiles
      /\ Live /\ disk.meta # None => saved.meta = disk.meta
      /\ Live /\ disk.meta # None /\ appends => Continues(mem) /\ Continues(disk)
  BY DEF SavedIsWhole
<1>2. CASE UNCHANGED fvars
  BY <1>2, SameFiles DEF fvars, Live
<1>3. CASE OpenExisting
  <2>1. CASE Loadable(disk)
    <3> DEFINE m == Loaded(disk, None)
    <3>1. mem' = m /\ disk.meta # None /\ saved' = disk /\ UNCHANGED disk
      BY <1>3, <2>1 DEF OpenExisting
    <3>2. None \in Quantizers \cup {None}
      OBVIOUS
    <3>3. /\ m \in [binary : Seq(Versions), int8 : Seq(Codes), ids : Seq(Ids), acl : Seq(Versions),
                    quant : Quantizers \cup {None}]
          /\ disk.meta \in Nat /\ m.ids = disk.ids /\ Len(m.ids) = disk.meta
          /\ m.acl = disk.acl /\ Len(m.acl) = disk.meta
          /\ Len(m.binary) = disk.meta /\ \A i \in 1..disk.meta : m.binary[i] = disk.binary[i]
          /\ disk.meta # 0 => disk.meta <= Len(disk.binary)
      BY <1>0, <2>1, <3>1, <3>2, LoadedTyped
    <3> HIDE DEF m
    <3>4. Len(disk.binary) \in Nat
      <4>1. disk.binary \in Seq(Versions)
        BY <1>0, <3>1 DEF FilesTyped
      <4>2. QED BY <4>1, LenProperties
    <3>5. disk.meta <= Len(disk.binary)
      BY <3>3, <3>4
    <3>6. Continues(mem)' /\ Continues(disk)'
      BY <3>1, <3>3, <3>5 DEF Continues
    <3>7. Loadable(saved)'
      BY <2>1, <3>1 DEF Loadable, Mappable
    <3>8. QED BY <3>1, <3>6, <3>7 DEF SavedIsWhole
  <2>2. CASE ~Loadable(disk)
    <3>1. ~Live' /\ UNCHANGED <<disk, saved>>
      BY <1>3, <2>2 DEF OpenExisting, Live
    <3>2. Loadable(saved)' <=> Loadable(saved)
      BY <3>1 DEF Loadable, Mappable
    <3>3. QED BY <1>1, <3>1, <3>2 DEF SavedIsWhole
  <2>3. QED BY <2>1, <2>2
<1>4. CASE OpenNew
  BY <1>4, SameFiles DEF OpenNew
<1>5. ASSUME NEW c \in Ids, NEW v \in Versions, add(c, v) PROVE SavedIsWhole'
  BY <1>5, SameFiles DEF add, Staging, Live
<1>6. ASSUME NEW d \in Docs, remove_document(d) PROVE SavedIsWhole'
  BY <1>6, SameFiles DEF remove_document, Staging, Live
<1>7. CASE Flush
  <2>1. /\ pc = "up" /\ UNCHANGED <<disk, saved>> /\ (appends' => appends)
    BY <1>7 DEF Flush
  <2>2. Live
    BY <2>1 DEF Live
  <2>3. ASSUME disk.meta # None, appends' PROVE Continues(mem)' /\ Continues(disk)'
    <3>1. Continues(mem) /\ Continues(disk) /\ saved.meta = disk.meta
      BY <1>1, <2>1, <2>2, <2>3
    <3>2. saved.meta \in Nat
      BY <1>0, <2>3, <3>1 DEF FilesTyped
    <3>3. Continues(mem)'
      BY <1>0, <1>7, <2>3, <3>1, <3>2, FlushContinues
    <3>4. Continues(disk)'
      BY <2>1, <3>1 DEF Continues
    <3>5. QED BY <3>3, <3>4
  <2>4. Loadable(saved)' <=> Loadable(saved)
    BY <2>1 DEF Loadable, Mappable
  <2>5. QED BY <1>1, <2>1, <2>2, <2>3, <2>4 DEF SavedIsWhole
<1>8. CASE Write
  BY <1>8, SameFiles DEF Write, Live
<1>9. CASE Replace
  <2>1. /\ pc = "replace" /\ disk' = Replaced /\ next < 6 /\ next \in 1..6
        /\ UNCHANGED <<mem, saved, appends>>
    BY <1>0, <1>9 DEF Replace, StateTyped
  <2>2. /\ Replaced.meta = disk.meta /\ Replaced.binary = mem.binary
        /\ next > 2 => Replaced.ids = mem.ids
        /\ next > 3 => Replaced.acl = mem.acl
        /\ next # 3 => Replaced.ids = disk.ids
        /\ next # 4 => Replaced.acl = disk.acl
    BY <2>1, ReplaceTyped
  <2>3. /\ Replaced.ids = mem.ids \/ Replaced.ids = disk.ids
        /\ Replaced.acl = mem.acl \/ Replaced.acl = disk.acl
    BY <2>2
  <2>4. Live
    BY <2>1 DEF Live
  <2>5. Continues(mem)' <=> Continues(mem)
    BY <2>1 DEF Continues
  <2>6. Continues(mem) /\ Continues(disk) => Continues(disk)'
    BY <2>1, <2>2, <2>3 DEF Continues
  <2>7. Loadable(saved)' <=> Loadable(saved)
    BY <2>1 DEF Loadable, Mappable
  <2>8. QED BY <1>1, <2>1, <2>2, <2>4, <2>5, <2>6, <2>7 DEF SavedIsWhole
<1>10. CASE ReplaceLast
  <2>1. /\ pc = "replace" /\ next = 6 /\ disk' = Replaced /\ saved' = Replaced
        /\ mem' = IF opening THEN mem ELSE Loaded(Replaced, mem.quant)
    BY <1>10 DEF ReplaceLast
  <2>2. LET m == Loaded(Replaced, mem.quant) IN
        /\ Loadable(Replaced) /\ Replaced.meta = Len(mem.ids) /\ Replaced.ids = mem.ids
        /\ Replaced.binary = mem.binary /\ Replaced.acl = mem.acl
        /\ m.binary = mem.binary /\ m.ids = mem.ids /\ m.acl = mem.acl
    BY <2>1, LastReplaced
  <2>3. mem'.binary = mem.binary /\ mem'.ids = mem.ids /\ mem'.acl = mem.acl
    BY <2>1, <2>2
  <2>4. /\ Len(mem.ids) \in Nat /\ Len(mem.binary) = Len(mem.ids) /\ Len(mem.acl) = Len(mem.ids)
    BY <1>0, AllIdsAre DEF MemTyped
  <2>5. Len(mem.ids) # None
    BY <2>4, NoneIsApart
  <2>6. Continues(mem)' /\ Continues(disk)'
    BY <2>1, <2>2, <2>3, <2>4 DEF Continues
  <2>7. Loadable(saved)'
    BY <2>1, <2>2 DEF Loadable, Mappable
  <2>8. QED BY <2>1, <2>2, <2>5, <2>6, <2>7 DEF SavedIsWhole
<1>11. CASE WriteFails
  BY <1>11, SameFiles DEF WriteFails, Live
<1>12. CASE Stop
  <2>1. ~Live' /\ UNCHANGED <<disk, saved>>
    BY <1>12 DEF Stop, Live
  <2>2. Loadable(saved)' <=> Loadable(saved)
    BY <2>1 DEF Loadable, Mappable
  <2>3. QED BY <1>1, <2>1, <2>2 DEF SavedIsWhole
<1>13. QED
  BY <1>2, <1>3, <1>4, <1>5, <1>6, <1>7, <1>8, <1>9, <1>10, <1>11, <1>12 DEF Next

LEMMA FilesAreKept ==
  Spec => [](FilesInvariant /\ SavedIsWhole)
<1>1. FilesInvariant /\ SavedIsWhole /\ [Next]_fvars => FilesInvariant' /\ SavedIsWhole'
  BY FilesStep, SavedStep
<1>2. QED BY <1>1, FilesInit, PTL DEF Spec

(* An open finds rows of whole files as they are. *)
LEMMA ContentsOfFiles ==
  ASSUME NEW d, FilesTyped(d), d.meta # None, Loadable(d),
         NEW e, FilesTyped(e), Loadable(e), e.meta = d.meta,
         \A i \in 1..d.meta : d.binary[i] = e.binary[i] /\ d.ids[i] = e.ids[i] /\ d.acl[i] = e.acl[i]
  PROVE  Contents(Loaded(d, None)) = Contents(Loaded(e, None))
<1> DEFINE m == Loaded(d, None)
           o == Loaded(e, None)
<1>1. None \in Quantizers \cup {None}
  OBVIOUS
<1>2. /\ m.binary \in Seq(Versions) /\ m.ids \in Seq(Ids) /\ m.acl \in Seq(Versions)
      /\ d.meta \in Nat /\ m.ids = d.ids /\ Len(m.ids) = d.meta /\ m.acl = d.acl /\ Len(m.acl) = d.meta
      /\ Len(m.binary) = d.meta /\ \A i \in 1..d.meta : m.binary[i] = d.binary[i]
  BY <1>1, LoadedTyped
<1>3. /\ o.binary \in Seq(Versions) /\ o.ids \in Seq(Ids) /\ o.acl \in Seq(Versions)
      /\ o.ids = e.ids /\ Len(o.ids) = d.meta /\ o.acl = e.acl /\ Len(o.acl) = d.meta
      /\ Len(o.binary) = d.meta /\ \A i \in 1..d.meta : o.binary[i] = e.binary[i]
  BY <1>1, LoadedTyped
<1> HIDE DEF m, o
<1>4. m.binary = o.binary
  <2>1. \A i \in 1..Len(m.binary) : m.binary[i] = o.binary[i]
    BY <1>2, <1>3
  <2>2. QED BY <1>2, <1>3, <2>1, SeqEqual
<1>5. m.ids = o.ids
  <2>1. \A i \in 1..Len(m.ids) : m.ids[i] = o.ids[i]
    BY <1>2, <1>3
  <2>2. QED BY <1>2, <1>3, <2>1, SeqEqual
<1>6. m.acl = o.acl
  <2>1. \A i \in 1..Len(m.acl) : m.acl[i] = o.acl[i]
    BY <1>2, <1>3
  <2>2. QED BY <1>2, <1>3, <2>1, SeqEqual
<1>7. Contents(m) = Contents(o)
  BY <1>4, <1>5, <1>6 DEF Contents, Row
<1>8. QED BY <1>7 DEF m, o

(* _write_all and _load: six files change one by one and only their counts *)
(* are compared, but while flushes only append, a stop at any point leaves *)
(* what was there before, or a directory that open refuses.                *)
THEOREM AppendsAreStopSafe == Spec => []AppendIsStopSafe
<1>1. FilesInvariant /\ SavedIsWhole => AppendIsStopSafe
  <2> SUFFICES ASSUME FilesInvariant, SavedIsWhole, Live, disk.meta # None, Loadable(disk), appends
               PROVE  Contents(Loaded(disk, None)) = Contents(Existing(saved))
    BY DEF AppendIsStopSafe, Live
  <2>1. /\ FilesTyped(disk) /\ FilesTyped(saved) /\ saved.meta = disk.meta /\ Loadable(saved)
        /\ Continues(disk)
    BY DEF FilesInvariant, SavedIsWhole
  <2>2. Contents(Loaded(disk, None)) = Contents(Loaded(saved, None))
    BY <2>1, ContentsOfFiles DEF Continues
  <2>3. QED BY <2>1, <2>2 DEF Existing
<1>2. QED BY <1>1, FilesAreKept, PTL

-----------------------------------------------------------------------------
(* FlatIndex implements the port.  First, where the contents of rows and   *)
(* of what is staged come from: the last occurrence of an id.              *)
LEMMA LastOccurrence ==
  ASSUME NEW n \in Nat, NEW S \in SUBSET (1..n), S # {}
  PROVE  \E g \in S : \A j \in 1..n : j > g => j \notin S
<1>1. S \in SUBSET Int
  OBVIOUS
<1>2. IsFiniteSet(S)
  <2>1. 1 \in Int /\ n \in Int
    OBVIOUS
  <2>2. IsFiniteSet(1..n)
    BY <2>1, FS_Interval
  <2>3. QED BY <2>2, FS_Subset
<1>3. PICK g \in S : \A j \in S : j <= g
  BY <1>1, <1>2, HasEnds
<1>4. \A j \in 1..n : j > g => j \notin S
  <2>1. \A j \in 1..n : j \in Int
    OBVIOUS
  <2>2. g \in Int
    OBVIOUS
  <2>3. QED BY <1>3, <2>1, <2>2
<1>5. QED BY <1>4

LEMMA ContentsAt ==
  ASSUME NEW d, d.ids \in Seq(Ids), NEW c \in Ids, NEW i \in DOMAIN d.ids, d.ids[i] = c,
         \A j \in DOMAIN d.ids : j > i => d.ids[j] # c
  PROVE  Contents(d)[c] = Row(d, i)
<1> DEFINE P(x) == d.ids[x] = c /\ \A j \in DOMAIN d.ids : j > x => d.ids[j] # c
           l == CHOOSE x \in DOMAIN d.ids : P(x)
<1>1. l \in DOMAIN d.ids /\ P(l)
  OBVIOUS
<1>2. DOMAIN d.ids \subseteq Int
  BY LenProperties
<1> HIDE DEF l
<1>3. l = i
  BY <1>1, <1>2
<1>4. QED BY <1>3 DEF l, Contents

LEMMA ContentsNone ==
  ASSUME NEW d, NEW c \in Ids, \A i \in DOMAIN d.ids : d.ids[i] # c
  PROVE  Contents(d)[c] = None
BY DEF Contents

LEMMA ContentsLast ==
  ASSUME NEW d, d.ids \in Seq(Ids), NEW c \in Ids, NEW i \in DOMAIN d.ids, d.ids[i] = c
  PROVE  \E g \in DOMAIN d.ids : /\ d.ids[g] = c /\ \A j \in DOMAIN d.ids : j > g => d.ids[j] # c
                                 /\ Contents(d)[c] = Row(d, g)
<1>1. DOMAIN d.ids = 1..Len(d.ids) /\ Len(d.ids) \in Nat
  BY LenProperties
<1> DEFINE S == {j \in 1..Len(d.ids) : d.ids[j] = c}
<1>2. PICK g \in 1..Len(d.ids) : d.ids[g] = c /\ \A j \in 1..Len(d.ids) : j > g => d.ids[j] # c
  <2>1. S # {} /\ S \in SUBSET (1..Len(d.ids))
    BY <1>1
  <2> HIDE DEF S
  <2>2. PICK g \in S : \A j \in 1..Len(d.ids) : j > g => j \notin S
    BY <1>1, <2>1, LastOccurrence
  <2>3. QED BY <2>2 DEF S
<1>3. Contents(d)[c] = Row(d, g)
  BY <1>1, <1>2, ContentsAt
<1>4. QED BY <1>1, <1>2, <1>3

Entry == [vector : Versions, policy : Versions]

LEMMA ContentsTyped ==
  ASSUME NEW d, d.ids \in Seq(Ids), d.binary \in Seq(Versions), d.acl \in Seq(Versions),
         Len(d.binary) = Len(d.ids), Len(d.acl) = Len(d.ids)
  PROVE  Contents(d) \in [Ids -> Entry \cup {None}]
<1>1. ASSUME NEW c \in Ids PROVE Contents(d)[c] \in Entry \cup {None}
  <2>1. CASE \A i \in DOMAIN d.ids : d.ids[i] # c
    BY <2>1, ContentsNone
  <2>2. CASE \E i \in DOMAIN d.ids : d.ids[i] = c
    <3>1. PICK g \in DOMAIN d.ids : Contents(d)[c] = Row(d, g)
      BY <2>2, ContentsLast
    <3>2. g \in 1..Len(d.binary) /\ g \in 1..Len(d.acl)
      BY LenProperties
    <3>3. d.binary[g] \in Versions /\ d.acl[g] \in Versions
      BY <3>2, ElementOfSeq
    <3>4. QED BY <3>1, <3>3 DEF Row, Entry
  <2>3. QED BY <2>1, <2>2
<1>2. Contents(d) = [c \in Ids |-> Contents(d)[c]]
  BY DEF Contents
<1>3. QED BY <1>1, <1>2

LEMMA NoRowsNoContents ==
  ASSUME NEW d, d.ids = <<>>
  PROVE  Contents(d) = [c \in Ids |-> None]
<1>1. DOMAIN d.ids = {}
  OBVIOUS
<1>2. QED BY <1>1 DEF Contents

(* The last staged entry of an id. *)
LEMMA StagedAt ==
  ASSUME staged \in Seq([id : Ids, version : Versions]), NEW c,
         NEW i \in 1..Len(staged), staged[i].id = c,
         \A j \in 1..Len(staged) : j > i => staged[j].id # c
  PROVE  LastStaged(c) = [vector |-> staged[i].version, policy |-> staged[i].version]
<1> DEFINE S == {j \in DOMAIN staged : staged[j].id = c}
<1>1. DOMAIN staged = 1..Len(staged) /\ Len(staged) \in Nat
  BY LenProperties
<1>2. i \in S /\ S \subseteq 1..Len(staged) /\ \A j \in S : ~(j > i)
  BY <1>1
<1> HIDE DEF S
<1>3. i \in S /\ \A j \in S : i >= j
  BY <1>1, <1>2
<1>4. Max(S) = i
  <2>1. \A x \in S : (\A j \in S : x >= j) => x = i
    <3>1. ASSUME NEW x \in S, \A j \in S : x >= j PROVE x = i
      <4>1. x >= i /\ i >= x /\ x \in Int /\ i \in Int
        BY <1>2, <1>3, <3>1
      <4>2. QED BY <4>1
    <3>2. QED BY <3>1
  <2>2. QED BY <1>3, <2>1 DEF Max
<1>5. QED BY <1>2, <1>4 DEF LastStaged, S

LEMMA StagedNone ==
  ASSUME NEW c, \A i \in DOMAIN staged : staged[i].id # c
  PROVE  LastStaged(c) = None
BY DEF LastStaged

LEMMA StagedLast ==
  ASSUME staged \in Seq([id : Ids, version : Versions]), NEW c,
         NEW i \in DOMAIN staged, staged[i].id = c
  PROVE  \E g \in 1..Len(staged) :
           /\ staged[g].id = c /\ \A j \in 1..Len(staged) : j > g => staged[j].id # c
           /\ LastStaged(c) = [vector |-> staged[g].version, policy |-> staged[g].version]
           /\ LastStaged(c) # None
<1>1. DOMAIN staged = 1..Len(staged) /\ Len(staged) \in Nat
  BY LenProperties
<1> DEFINE S == {j \in 1..Len(staged) : staged[j].id = c}
<1>2. PICK g \in 1..Len(staged) : staged[g].id = c /\ \A j \in 1..Len(staged) : j > g => staged[j].id # c
  <2>1. S # {} /\ S \in SUBSET (1..Len(staged))
    BY <1>1
  <2> HIDE DEF S
  <2>2. PICK g \in S : \A j \in 1..Len(staged) : j > g => j \notin S
    BY <1>1, <2>1, LastOccurrence
  <2>3. QED BY <2>2 DEF S
<1>3. LastStaged(c) = [vector |-> staged[g].version, policy |-> staged[g].version]
  BY <1>2, StagedAt
<1>4. staged[g].version \in Versions
  <2>1. staged[g] \in [id : Ids, version : Versions]
    BY ElementOfSeq
  <2>2. QED BY <2>1
<1>5. LastStaged(c) # None
  BY <1>3, <1>4, NoneIsApart
<1>6. QED BY <1>2, <1>3, <1>5

(* Where the row of an id comes from in a flush. *)
LEMMA FlushKeeps ==
  ASSUME MemTyped, staged \in Seq([id : Ids, version : Versions]), Flush,
         NEW c \in Ids, NEW p \in DOMAIN AllIds, AllIds[p] = c, Keep(p)
  PROVE  Contents(mem)'[c] = IF p \in Old THEN Row(mem, p)
                             ELSE [vector |-> NewAt(p), policy |-> NewAt(p)]
<1>1. /\ \A i \in KeptSet : \E k \in DOMAIN Kept : Kept[k] = i
      /\ \A j, k \in DOMAIN Kept : AllIds[Kept[j]] = AllIds[Kept[k]] => j = k
  BY KeptLists
<1>2. PICK k \in DOMAIN Kept : Kept[k] = p
  BY <1>1 DEF KeptSet
<1>3. /\ mem'.ids = [j \in DOMAIN Kept |-> AllIds[Kept[j]]]
      /\ mem'.binary = Rebuilt(mem.binary, Same) /\ mem'.acl = Rebuilt(mem.acl, Same)
  BY DEF Flush
<1>4. mem'.ids \in Seq(Ids)
  BY FlushTyped DEF MemTyped
<1>5. /\ k \in DOMAIN mem'.ids /\ mem'.ids[k] = c
      /\ \A j \in DOMAIN mem'.ids : mem'.ids[j] = c => j = k
  BY <1>1, <1>2, <1>3
<1> DEFINE m == mem'
<1>6. Contents(m)[c] = Row(m, k)
  <2>1. k \in Int
    BY <1>4, <1>5, LenProperties
  <2>2. \A j \in DOMAIN m.ids : j > k => m.ids[j] # c
    BY <1>5, <2>1
  <2>3. /\ m.ids \in Seq(Ids) /\ k \in DOMAIN m.ids /\ m.ids[k] = c
    BY <1>4, <1>5
  <2> HIDE DEF m
  <2>4. QED BY <2>2, <2>3, ContentsAt
<1>7. Contents(mem)' = Contents(m)
  BY DEF Contents, Row
<1>8. CASE p \in Old
  <2>1. m.binary[k] = mem.binary[p] /\ m.acl[k] = mem.acl[p]
    BY <1>2, <1>3, <1>8 DEF Rebuilt
  <2>2. QED BY <1>6, <1>7, <1>8, <2>1 DEF Row
<1>9. CASE p \notin Old
  <2>1. NewAt(p) \in Versions
    BY <1>9, AllIdsAre
  <2>2. m.binary[k] = NewAt(p) /\ m.acl[k] = NewAt(p)
    BY <1>2, <1>3, <1>9, <2>1 DEF Rebuilt, Same
  <2>3. QED BY <1>6, <1>7, <1>9, <2>2 DEF Row
<1>10. QED BY <1>8, <1>9

LEMMA FlushDrops ==
  ASSUME MemTyped, staged \in Seq([id : Ids, version : Versions]), Flush,
         NEW c \in Ids, \A p \in DOMAIN AllIds : AllIds[p] = c => ~Keep(p)
  PROVE  Contents(mem)'[c] = None
<1>1. mem'.ids = [j \in DOMAIN Kept |-> AllIds[Kept[j]]]
  BY DEF Flush
<1>2. \A k \in DOMAIN Kept : Kept[k] \in DOMAIN AllIds /\ Keep(Kept[k])
  BY KeptLists
<1> DEFINE m == mem'
<1>3. \A k \in DOMAIN m.ids : m.ids[k] # c
  BY <1>1, <1>2
<1>4. Contents(mem)' = Contents(m)
  BY DEF Contents, Row
<1> HIDE DEF m
<1>5. Contents(m)[c] = None
  BY <1>3, ContentsNone
<1>6. QED BY <1>4, <1>5

(* A flush makes of the contents what the port says. *)
LEMMA FlushContents ==
  ASSUME MemTyped, staged \in Seq([id : Ids, version : Versions]), Flush, NEW c \in Ids
  PROVE  Contents(mem)'[c] = IF LastStaged(c) # None THEN LastStaged(c)
                             ELSE IF DocOf[c] \in removed THEN None ELSE Contents(mem)[c]
<1>1. /\ DOMAIN AllIds = 1..(Len(mem.ids) + Len(staged)) /\ Len(mem.ids) \in Nat /\ Len(staged) \in Nat
      /\ Old = 1..Len(mem.ids) /\ mem.ids \in Seq(Ids)
      /\ \A i \in 1..Len(mem.ids) : AllIds[i] = mem.ids[i]
      /\ \A i \in 1..Len(staged) : AllIds[Len(mem.ids) + i] = staged[i].id
      /\ \A i \in DOMAIN AllIds : i \notin Old =>
           /\ i - Len(mem.ids) \in 1..Len(staged)
           /\ AllIds[i] = staged[i - Len(mem.ids)].id
  BY AllIdsAre DEF MemTyped
<1>2. DOMAIN staged = 1..Len(staged) /\ DOMAIN mem.ids = 1..Len(mem.ids)
  BY <1>1, LenProperties
<1>3. CASE \E i \in DOMAIN staged : staged[i].id = c
  <2>1. PICK g \in 1..Len(staged) :
          /\ staged[g].id = c /\ \A j \in 1..Len(staged) : j > g => staged[j].id # c
          /\ LastStaged(c) = [vector |-> staged[g].version, policy |-> staged[g].version]
          /\ LastStaged(c) # None
    BY <1>3, StagedLast
  <2> DEFINE p == Len(mem.ids) + g
  <2>2. p \in DOMAIN AllIds /\ p \notin Old /\ p - Len(mem.ids) = g /\ AllIds[p] = c
    <3>1. /\ p \in 1..(Len(mem.ids) + Len(staged)) /\ p \notin 1..Len(mem.ids)
          /\ p - Len(mem.ids) = g
      BY <1>1
    <3>2. AllIds[p] = staged[g].id
      BY <1>1
    <3>3. QED BY <1>1, <2>1, <3>1, <3>2
  <2>3. ASSUME NEW j \in DOMAIN AllIds, j > p PROVE AllIds[j] # c
    <3>1. j \notin Old /\ j - Len(mem.ids) > g
      BY <1>1, <2>3
    <3>2. QED BY <1>1, <2>1, <3>1
  <2> HIDE DEF p
  <2>4. Keep(p)
    BY <2>2, <2>3 DEF Keep
  <2>5. Contents(mem)'[c] = [vector |-> NewAt(p), policy |-> NewAt(p)]
    BY <2>2, <2>4, FlushKeeps
  <2>6. QED BY <2>1, <2>2, <2>5 DEF NewAt
<1>4. CASE \A i \in DOMAIN staged : staged[i].id # c
  <2>1. LastStaged(c) = None
    BY <1>4, StagedNone
  <2>2. \A p \in DOMAIN AllIds : AllIds[p] = c => p \in Old
    BY <1>1, <1>2, <1>4
  <2>3. CASE \A i \in DOMAIN mem.ids : mem.ids[i] # c
    <3>1. Contents(mem)[c] = None
      BY <2>3, ContentsNone
    <3>2. \A p \in DOMAIN AllIds : AllIds[p] # c
      BY <1>1, <1>2, <2>2, <2>3
    <3>3. Contents(mem)'[c] = None
      BY <3>2, FlushDrops
    <3>4. QED BY <2>1, <3>1, <3>3
  <2>4. CASE \E i \in DOMAIN mem.ids : mem.ids[i] = c
    <3>1. PICK g \in DOMAIN mem.ids :
            /\ mem.ids[g] = c /\ \A j \in DOMAIN mem.ids : j > g => mem.ids[j] # c
            /\ Contents(mem)[c] = Row(mem, g)
      BY <1>1, <2>4, ContentsLast
    <3>2. g \in Old /\ g \in DOMAIN AllIds /\ AllIds[g] = c
      BY <1>1, <1>2, <3>1
    <3>3. \A j \in DOMAIN AllIds : j > g => AllIds[j] # c
      BY <1>1, <1>2, <2>2, <3>1
    <3>4. CASE DocOf[c] \in removed
      <4>1. \A p \in DOMAIN AllIds : AllIds[p] = c => ~Keep(p)
        BY <2>2, <3>4 DEF Keep
      <4>2. Contents(mem)'[c] = None
        BY <4>1, FlushDrops
      <4>3. QED BY <2>1, <3>4, <4>2
    <3>5. CASE DocOf[c] \notin removed
      <4>1. Keep(g)
        BY <3>2, <3>3, <3>5 DEF Keep
      <4>2. Contents(mem)'[c] = Row(mem, g)
        BY <3>2, <4>1, FlushKeeps
      <4>3. QED BY <2>1, <3>1, <3>5, <4>2
    <3>6. QED BY <3>4, <3>5
  <2>5. QED BY <2>3, <2>4
<1>5. QED BY <1>3, <1>4

-----------------------------------------------------------------------------
(* The state of the port that the index has. *)
PortUp == IF opening \/ pc = "down" THEN "down" ELSE IF pc = "refused" THEN "refused" ELSE "up"
PortStaged == [c \in Ids |-> LastStaged(c)]
PortSaved == Contents(Existing(saved))
PortTorn == disk.meta # None /\ disk # saved
PortVars == <<PortUp, Contents(mem), PortStaged, removed, PortSaved, PortTorn>>

LEMMA PortInit == Init => Port!Init
<1> SUFFICES ASSUME Init PROVE Port!Init
  OBVIOUS
<1>1. /\ pc = "down" /\ mem.ids = <<>> /\ staged = <<>> /\ removed = {} /\ disk = saved
      /\ saved.meta = None
  <2>1. 6 \in 1..6 /\ Names[6] = "meta"
    BY NamesAre
  <2>2. NoFiles["meta"] = None
    BY <2>1 DEF NoFiles
  <2>3. QED BY <2>2, EmptyTyped DEF Init
<1>2. Contents(mem) = [c \in Ids |-> None]
  BY <1>1, NoRowsNoContents
<1>3. PortSaved = [c \in Ids |-> None]
  <2>1. Existing(saved) = Empty
    BY <1>1 DEF Existing
  <2>2. Empty.ids = <<>>
    BY EmptyTyped
  <2>3. QED BY <2>1, <2>2, NoRowsNoContents DEF PortSaved
<1>4. PortStaged = [c \in Ids |-> None]
  <2>1. ASSUME NEW c PROVE LastStaged(c) = None
    BY <1>1, StagedNone
  <2>2. QED BY <2>1 DEF PortStaged
<1>5. PortTorn = FALSE /\ PortUp = "down"
  BY <1>1 DEF PortTorn, PortUp
<1>6. QED
  BY <1>1, <1>2, <1>3, <1>4, <1>5
  DEF Port!Init, Port!NoEntries, PortSaved, PortStaged, PortTorn, PortUp

LEMMA SameContents ==
  /\ UNCHANGED mem => Contents(mem)' = Contents(mem)
  /\ UNCHANGED saved => PortSaved' = PortSaved
  /\ UNCHANGED staged => PortStaged' = PortStaged
  /\ UNCHANGED <<disk, saved>> => PortTorn' = PortTorn
<1>1. Contents(mem)' = Contents(mem')
  BY DEF Contents, Row
<1>2. ASSUME UNCHANGED mem PROVE Contents(mem)' = Contents(mem)
  BY <1>1, <1>2
<1>3. PortSaved' = Contents(Existing(saved'))
  BY DEF PortSaved, Contents, Row, Existing, Loaded
<1>4. ASSUME UNCHANGED saved PROVE PortSaved' = PortSaved
  BY <1>3, <1>4 DEF PortSaved
<1>5. ASSUME UNCHANGED staged PROVE PortStaged' = PortStaged
  <2>1. ASSUME NEW c \in Ids PROVE LastStaged(c)' = LastStaged(c)
    BY <1>5 DEF LastStaged
  <2>2. QED BY <2>1 DEF PortStaged
<1>6. ASSUME UNCHANGED <<disk, saved>> PROVE PortTorn' = PortTorn
  BY <1>6 DEF PortTorn
<1>7. QED BY <1>2, <1>4, <1>5, <1>6

LEMMA PortAdd ==
  ASSUME FilesInvariant, NEW c \in Ids, NEW v \in Versions, add(c, v)
  PROVE  Port!Stage
<1>1. /\ staged' = Append(staged, [id |-> c, version |-> v]) /\ pc = "up"
      /\ UNCHANGED <<mem, removed, disk, pc, opening, saved>>
  BY DEF add, Staging
<1>2. /\ staged \in Seq([id : Ids, version : Versions]) /\ ~opening
  <2>1. StateTyped
    BY DEF FilesInvariant
  <2>2. QED BY <1>1, <2>1 DEF StateTyped
<1> DEFINE n == Len(staged)
           e == [id |-> c, version |-> v]
<1>3. /\ staged' \in Seq([id : Ids, version : Versions]) /\ n \in Nat /\ Len(staged') = n + 1
      /\ staged'[n + 1] = e /\ \A i \in 1..n : staged'[i] = staged[i]
  <2>1. e \in [id : Ids, version : Versions]
    OBVIOUS
  <2>2. n \in Nat
    BY <1>2, LenProperties
  <2> HIDE DEF e
  <2>3. staged' = Append(staged, e)
    BY <1>1 DEF e
  <2>4. QED BY <1>2, <2>1, <2>2, <2>3, AppendProperties
<1>4. DOMAIN staged = 1..n /\ DOMAIN staged' = 1..(n + 1)
  BY <1>2, <1>3, LenProperties
<1>5. LastStaged(c)' = [vector |-> v, policy |-> v]
  <2>1. /\ n + 1 \in 1..Len(staged') /\ staged'[n + 1].id = c /\ staged'[n + 1].version = v
        /\ \A j \in 1..Len(staged') : ~(j > n + 1)
    BY <1>3
  <2>2. ASSUME NEW S, S = {i \in DOMAIN staged' : staged'[i].id = c}
        PROVE  S # {} /\ Max(S) = n + 1
    <3>1. n + 1 \in S /\ \A j \in S : n + 1 >= j
      BY <1>3, <1>4, <2>1, <2>2
    <3>2. \A x \in S : (\A j \in S : x >= j) => x = n + 1
      BY <1>3, <1>4, <2>2, <3>1
    <3>3. QED BY <3>1, <3>2 DEF Max
  <2>3. QED BY <2>1, <2>2 DEF LastStaged
<1>6. ASSUME NEW b \in Ids, b # c PROVE LastStaged(b)' = LastStaged(b)
  <2>1. {i \in DOMAIN staged' : staged'[i].id = b} = {i \in DOMAIN staged : staged[i].id = b}
    <3>1. ASSUME NEW i \in 1..(n + 1), staged'[i].id = b PROVE i \in 1..n
      BY <1>3, <1>6, <3>1
    <3>2. ASSUME NEW i \in 1..n PROVE i \in 1..(n + 1) /\ staged'[i] = staged[i]
      BY <1>3
    <3>3. QED BY <1>4, <3>1, <3>2
  <2>2. CASE \A i \in DOMAIN staged : staged[i].id # b
    <3>1. {i \in DOMAIN staged : staged[i].id = b} = {}
      BY <2>2
    <3>2. QED BY <2>1, <3>1 DEF LastStaged
  <2>3. CASE \E i \in DOMAIN staged : staged[i].id = b
    <3> DEFINE S == {i \in DOMAIN staged : staged[i].id = b}
    <3>1. PICK g \in 1..n : /\ staged[g].id = b /\ \A j \in 1..n : j > g => staged[j].id # b
      BY <1>2, <2>3, StagedLast
    <3>2. Max(S) = g
      <4>1. g \in S /\ \A j \in S : g >= j
        BY <1>3, <1>4, <3>1
      <4>2. \A x \in S : (\A j \in S : x >= j) => x = g
        BY <1>3, <1>4, <4>1
      <4> HIDE DEF S
      <4>3. QED BY <4>1, <4>2 DEF Max
    <3>3. staged'[g] = staged[g]
      BY <1>3
    <3>4. S = {i \in DOMAIN staged' : staged'[i].id = b}
      BY <2>1
    <3>5. LastStaged(b) = IF S = {} THEN None ELSE [vector |-> staged[Max(S)].version, policy |-> staged[Max(S)].version]
      BY DEF LastStaged
    <3>6. LastStaged(b)' = IF S = {} THEN None ELSE [vector |-> staged'[Max(S)].version, policy |-> staged'[Max(S)].version]
      BY <3>4 DEF LastStaged
    <3> HIDE DEF S
    <3>7. QED BY <3>2, <3>3, <3>5, <3>6
  <2>4. QED BY <2>2, <2>3
<1>7. PortStaged' = [PortStaged EXCEPT ![c] = [vector |-> v, policy |-> v]]
  BY <1>5, <1>6 DEF PortStaged
<1>8. PortUp = "up" /\ PortUp' = "up"
  BY <1>1, <1>2 DEF PortUp
<1>9. Contents(mem)' = Contents(mem) /\ PortSaved' = PortSaved /\ PortTorn' = PortTorn
  BY <1>1, SameContents
<1>10. QED
  BY <1>1, <1>7, <1>8, <1>9
  DEF Port!Stage, Port!Whole, PortUp, PortStaged, PortSaved, PortTorn

LEMMA PortFlush ==
  ASSUME FilesInvariant, Flush
  PROVE  Port!Flush
<1>1. /\ pc = "up" /\ pc' = "write" /\ staged' = <<>> /\ removed' = {}
      /\ UNCHANGED <<disk, saved, opening>>
  BY DEF Flush
<1>2. MemTyped /\ staged \in Seq([id : Ids, version : Versions]) /\ ~opening
  BY <1>1 DEF FilesInvariant, StateTyped
<1>3. PortUp = "up" /\ PortUp' = "up"
  BY <1>1, <1>2 DEF PortUp
<1>4. Contents(mem)' = [c \in Ids |-> IF PortStaged[c] # None THEN PortStaged[c]
                                      ELSE IF DocOf[c] \in removed THEN None ELSE Contents(mem)[c]]
  <2>1. \A c \in Ids : Contents(mem)'[c] = IF PortStaged[c] # None THEN PortStaged[c]
                                           ELSE IF DocOf[c] \in removed THEN None ELSE Contents(mem)[c]
    BY <1>2, FlushContents DEF PortStaged
  <2>2. Contents(mem)' = [c \in Ids |-> Contents(mem)'[c]]
    BY DEF Contents
  <2>3. QED BY <2>1, <2>2
<1>5. PortStaged' = [c \in Ids |-> None]
  <2>1. ASSUME NEW c PROVE LastStaged(c)' = None
    <3>1. {i \in DOMAIN staged' : staged'[i].id = c} = {}
      BY <1>1
    <3>2. QED BY <3>1 DEF LastStaged
  <2>2. QED BY <2>1 DEF PortStaged
<1>6. PortSaved' = PortSaved /\ PortTorn' = PortTorn
  BY <1>1, SameContents
<1>7. QED
  BY <1>1, <1>3, <1>4, <1>5, <1>6
  DEF Port!Flush, Port!NoEntries, PortUp, PortStaged, PortSaved, PortTorn

LEMMA PortOpen ==
  ASSUME FilesInvariant, SavedIsWhole, OpenExisting
  PROVE  Port!Open
<1>1. /\ pc = "down" /\ disk.meta # None /\ UNCHANGED <<staged, removed, disk, opening>>
  BY DEF OpenExisting
<1>2. ~opening /\ FilesTyped(disk)
  BY <1>1 DEF FilesInvariant, StateTyped
<1>3. PortUp = "down" /\ PortStaged' = PortStaged
  BY <1>1, SameContents DEF PortUp
<1>4. CASE Loadable(disk)
  <2>1. mem' = Loaded(disk, None) /\ pc' = "up" /\ saved' = disk
    BY <1>4 DEF OpenExisting
  <2>2. PortUp' = "up" /\ PortTorn' = FALSE
    BY <1>1, <1>2, <2>1 DEF PortUp, PortTorn
  <2>3. Contents(mem)' = Contents(Loaded(disk, None))
    <3>1. Contents(mem)' = Contents(mem')
      BY DEF Contents, Row
    <3>2. QED BY <2>1, <3>1
  <2>4. PortSaved' = Contents(Loaded(disk, None))
    <3>1. PortSaved' = Contents(Existing(saved'))
      BY DEF PortSaved, Contents, Row, Existing, Loaded
    <3>2. Existing(disk) = Loaded(disk, None)
      BY <1>1 DEF Existing
    <3>3. QED BY <2>1, <3>1, <3>2
  <2>5. CASE disk = saved
    <3>1. PortSaved = Contents(Loaded(disk, None)) /\ PortTorn = FALSE
      BY <1>1, <2>5 DEF PortSaved, Existing, PortTorn
    <3>2. QED
      BY <1>1, <1>3, <2>2, <2>3, <2>4, <3>1
      DEF Port!Open, PortUp, PortStaged, PortSaved, PortTorn
  <2>6. CASE disk # saved
    <3>1. PortTorn = TRUE
      BY <1>1, <2>6 DEF PortTorn
    <3>2. Contents(Loaded(disk, None)) \in [Ids -> Entry \cup {None}]
      <4> DEFINE m == Loaded(disk, None)
      <4>1. None \in Quantizers \cup {None}
        OBVIOUS
      <4>2. /\ m \in [binary : Seq(Versions), int8 : Seq(Codes), ids : Seq(Ids), acl : Seq(Versions),
                      quant : Quantizers \cup {None}]
            /\ Len(m.binary) = Len(m.ids) /\ Len(m.acl) = Len(m.ids)
        BY <1>1, <1>2, <1>4, <4>1, LoadedTyped
      <4> HIDE DEF m
      <4>3. m.ids \in Seq(Ids) /\ m.binary \in Seq(Versions) /\ m.acl \in Seq(Versions)
        BY <4>2
      <4>4. Contents(m) \in [Ids -> Entry \cup {None}]
        BY <4>2, <4>3, ContentsTyped
      <4>5. QED BY <4>4 DEF m
    <3>3. QED
      BY <1>1, <1>3, <2>2, <2>3, <2>4, <3>1, <3>2
      DEF Port!Open, Port!Entries, Port!Entry, Entry, PortUp, PortStaged, PortSaved, PortTorn
  <2>7. QED BY <2>5, <2>6
<1>5. CASE ~Loadable(disk)
  <2>1. pc' = "refused" /\ UNCHANGED <<mem, saved>>
    BY <1>5 DEF OpenExisting
  <2>2. PortUp' = "refused"
    BY <1>1, <1>2, <2>1 DEF PortUp
  <2>3. PortTorn = TRUE
    BY <1>1, <1>5 DEF PortTorn, SavedIsWhole
  <2>4. Contents(mem)' = Contents(mem) /\ PortSaved' = PortSaved /\ PortTorn' = PortTorn
    BY <1>1, <2>1, SameContents
  <2>5. QED
    BY <1>1, <1>3, <2>2, <2>3, <2>4
    DEF Port!Open, PortUp, PortStaged, PortSaved, PortTorn
<1>6. QED BY <1>4, <1>5

(* meta.json: an open of a directory that had none, or a save. *)
LEMMA PortReplaceLast ==
  ASSUME FilesInvariant, SavedIsWhole, ReplaceLast
  PROVE  Port!Open \/ Port!Save
<1>1. /\ pc = "replace" /\ next = 6 /\ pc' = "up" /\ opening' = FALSE
      /\ disk' = Replaced /\ saved' = Replaced /\ UNCHANGED <<staged, removed>>
      /\ mem' = IF opening THEN mem ELSE Loaded(Replaced, mem.quant)
  BY DEF ReplaceLast
<1> DEFINE m == Loaded(Replaced, mem.quant)
           o == Loaded(Replaced, None)
<1>2. /\ Loadable(Replaced) /\ Replaced.meta = Len(mem.ids) /\ Replaced.ids = mem.ids
      /\ Replaced.binary = mem.binary /\ Replaced.acl = mem.acl
      /\ m.binary = mem.binary /\ m.ids = mem.ids /\ m.acl = mem.acl
  BY <1>1, LastReplaced
<1>3. o.binary = m.binary /\ o.ids = m.ids /\ o.acl = m.acl
  BY DEF Loaded
<1>4. Replaced.meta # None
  <2>1. Len(mem.ids) \in Nat
    BY AllIdsAre DEF FilesInvariant, StateTyped
  <2>2. QED BY <1>2, <2>1, NoneIsApart
<1>5. Existing(Replaced) = o
  BY <1>4 DEF Existing
<1> HIDE DEF m, o
<1>6. Contents(o) = Contents(mem) /\ Contents(m) = Contents(mem)
  BY <1>2, <1>3 DEF Contents, Row
<1>7. PortSaved' = Contents(mem)
  <2>1. PortSaved' = Contents(Existing(saved'))
    BY DEF PortSaved, Contents, Row, Existing, Loaded
  <2>2. QED BY <1>1, <1>5, <1>6, <2>1
<1>8. Contents(mem)' = Contents(mem)
  <2>1. Contents(mem)' = Contents(mem')
    BY DEF Contents, Row
  <2>2. mem' = mem \/ mem' = m
    BY <1>1 DEF m
  <2>3. QED BY <1>6, <2>1, <2>2
<1>9. PortTorn' = FALSE /\ PortUp' = "up" /\ PortStaged' = PortStaged
  BY <1>1, SameContents DEF PortTorn, PortUp
<1>10. CASE opening
  <2>1. mem = Empty /\ disk.meta = None /\ saved = NoFiles
    BY <1>10 DEF FilesInvariant, StateTyped, SavedIsWhole
  <2>2. PortUp = "down" /\ PortTorn = FALSE
    BY <1>10, <2>1 DEF PortUp, PortTorn
  <2>3. PortSaved = Contents(mem)
    <3>1. saved.meta = None
      <4>1. 6 \in 1..6 /\ Names[6] = "meta"
        BY NamesAre
      <4>2. NoFiles["meta"] = None
        BY <4>1 DEF NoFiles
      <4>3. QED BY <2>1, <4>2
    <3>2. QED BY <2>1, <3>1 DEF PortSaved, Existing
  <2>4. QED
    BY <1>1, <1>7, <1>8, <1>9, <2>2, <2>3
    DEF Port!Open, PortUp, PortStaged, PortSaved, PortTorn
<1>11. CASE ~opening
  <2>1. PortUp = "up"
    BY <1>1, <1>11 DEF PortUp
  <2>2. QED
    BY <1>1, <1>7, <1>8, <1>9, <2>1
    DEF Port!Save, PortUp, PortStaged, PortSaved, PortTorn
<1>12. QED BY <1>10, <1>11

LEMMA PortStop ==
  ASSUME FilesInvariant, Stop
  PROVE  Port!Stop \/ UNCHANGED PortVars
<1>1. /\ pc \in {"up", "write", "replace"} /\ pc' = "down" /\ mem' = Empty /\ staged' = <<>>
      /\ removed' = {} /\ opening' = FALSE /\ UNCHANGED <<disk, saved>>
  BY DEF Stop
<1>2. PortUp' = "down" /\ PortSaved' = PortSaved /\ PortTorn' = PortTorn
  BY <1>1, SameContents DEF PortUp
<1>3. CASE opening
  <2>1. mem = Empty /\ staged = <<>> /\ removed = {} /\ PortUp = "down"
    BY <1>3 DEF FilesInvariant, StateTyped, PortUp
  <2>2. Contents(mem)' = Contents(mem) /\ PortStaged' = PortStaged
    BY <1>1, <2>1, SameContents
  <2>3. QED BY <1>1, <1>2, <2>1, <2>2 DEF PortVars
<1>4. CASE ~opening
  <2>1. PortUp = "up"
    BY <1>1, <1>4 DEF PortUp
  <2>2. Contents(mem)' = [c \in Ids |-> None]
    <3>1. Contents(mem)' = Contents(mem')
      BY DEF Contents, Row
    <3>2. Empty.ids = <<>>
      BY EmptyTyped
    <3>3. QED BY <1>1, <3>1, <3>2, NoRowsNoContents
  <2>3. PortStaged' = [c \in Ids |-> None]
    <3>1. ASSUME NEW c PROVE LastStaged(c)' = None
      <4>1. {i \in DOMAIN staged' : staged'[i].id = c} = {}
        BY <1>1
      <4>2. QED BY <4>1 DEF LastStaged
    <3>2. QED BY <3>1 DEF PortStaged
  <2>4. QED
    BY <1>1, <1>2, <2>1, <2>2, <2>3
    DEF Port!Stop, Port!NoEntries, PortUp, PortStaged, PortSaved, PortTorn
<1>5. QED BY <1>3, <1>4

(* Every step is a step of the port, or none. *)
LEMMA PortStep ==
  ASSUME FilesInvariant, SavedIsWhole, [Next]_fvars
  PROVE  Port!Next \/ UNCHANGED PortVars
<1>0. /\ opening => disk.meta = None /\ pc \in {"write", "replace"}
  BY DEF FilesInvariant, StateTyped
<1>1. ASSUME UNCHANGED <<mem, staged, removed, disk, saved>>, PortUp' = PortUp
      PROVE  UNCHANGED PortVars
  BY <1>1, SameContents DEF PortVars
<1>2. CASE UNCHANGED fvars
  BY <1>1, <1>2 DEF fvars, PortUp
<1>3. CASE OpenExisting
  BY <1>3, PortOpen DEF Port!Next
<1>4. CASE OpenNew
  BY <1>1, <1>4 DEF OpenNew, PortUp
<1>5. ASSUME NEW c \in Ids, NEW v \in Versions, add(c, v) PROVE Port!Next
  BY <1>5, PortAdd DEF Port!Next
<1>6. ASSUME NEW d \in Docs, remove_document(d) PROVE Port!Next
  <2>1. /\ pc = "up" /\ removed' = removed \cup {d}
        /\ UNCHANGED <<mem, staged, disk, pc, opening, saved>>
    BY <1>6 DEF remove_document, Staging
  <2>2. PortUp = "up" /\ PortUp' = "up"
    BY <1>0, <2>1 DEF PortUp
  <2>3. /\ Contents(mem)' = Contents(mem) /\ PortSaved' = PortSaved /\ PortTorn' = PortTorn
        /\ PortStaged' = PortStaged
    BY <2>1, SameContents
  <2>4. Port!Stage
    BY <2>1, <2>2, <2>3 DEF Port!Stage, PortUp, PortStaged, PortSaved, PortTorn
  <2>5. QED BY <2>4 DEF Port!Next
<1>7. CASE Flush
  BY <1>7, PortFlush DEF Port!Next
<1>8. CASE Write
  BY <1>1, <1>8 DEF Write, PortUp
<1>9. CASE Replace
  <2>1. /\ pc = "replace" /\ pc' = pc /\ disk' = Replaced /\ next < 6
        /\ UNCHANGED <<mem, staged, removed, opening, saved>>
    BY <1>9 DEF Replace
  <2>2. /\ Contents(mem)' = Contents(mem) /\ PortSaved' = PortSaved /\ PortStaged' = PortStaged
        /\ PortUp' = PortUp
    BY <2>1, SameContents DEF PortUp
  <2>3. CASE opening
    <3>1. Replaced.meta = disk.meta
      BY <2>1, ReplaceTyped
    <3>2. PortTorn' = PortTorn
      BY <1>0, <2>1, <2>3, <3>1 DEF PortTorn
    <3>3. QED BY <2>1, <2>2, <3>2 DEF PortVars
  <2>4. CASE ~opening
    <3>1. PortUp = "up" /\ PortTorn' \in BOOLEAN
      BY <2>1, <2>4 DEF PortUp, PortTorn
    <3>2. Port!Tear
      BY <2>1, <2>2, <3>1 DEF Port!Tear, PortUp, PortStaged, PortSaved, PortTorn
    <3>3. QED BY <3>2 DEF Port!Next
  <2>5. QED BY <2>3, <2>4
<1>10. CASE ReplaceLast
  BY <1>10, PortReplaceLast DEF Port!Next
<1>11. CASE WriteFails
  BY <1>1, <1>11 DEF WriteFails, PortUp
<1>12. CASE Stop
  BY <1>12, PortStop DEF Port!Next
<1>13. QED
  BY <1>2, <1>3, <1>4, <1>5, <1>6, <1>7, <1>8, <1>9, <1>10, <1>11, <1>12 DEF Next

(* FlatIndex implements the VectorIndex port: staged entries and removals  *)
(* take effect together in a flush, what a write has saved survives a      *)
(* stop, and only files that are being replaced may be found mixed.        *)
THEOREM FlatIndexIsThePort == Spec => ImplementsPort
<1>1. FilesInvariant /\ SavedIsWhole /\ [Next]_fvars => [Port!Next]_(Port!svars)
  <2>1. UNCHANGED PortVars => UNCHANGED Port!svars
    BY DEF Port!svars, PortVars, PortUp, PortStaged, PortSaved, PortTorn
  <2>2. QED BY <2>1, PortStep
<1>2. Spec => [][Next]_fvars
  BY DEF Spec
<1>3. Spec => Port!Init
  BY PortInit DEF Spec
<1>4. QED BY <1>1, <1>2, <1>3, FilesAreKept, PTL DEF ImplementsPort, Port!Spec

-----------------------------------------------------------------------------
(* The scan.  What is compared is numbers.                                 *)
LEMMA FitIsNumbers ==
  ASSUME NEW q \in Quantizers
  PROVE  q.minimum \in Int /\ q.scale \in Nat \ {0}
<1> DEFINE V == {Vector[v] : v \in Versions}
<1>1. PICK T \in (SUBSET V) \ {{}} : q = fit(T)
  BY DEF Quantizers
<1>2. T \in SUBSET Int /\ T # {}
  BY <1>1, FlatIndexAssumption
<1>3. IsFiniteSet(T)
  <2> DEFINE f == [v \in Versions |-> Vector[v]]
  <2>1. f \in Surjection(Versions, V)
    BY DEF Surjection
  <2> HIDE DEF V, f
  <2>2. IsFiniteSet(V)
    BY <2>1, FlatIndexAssumption, FS_Surjection
  <2>3. QED BY <1>1, <2>2, FS_Subset
<1>4. /\ \E g \in T : \A i \in T : i <= g
      /\ \E l \in T : \A i \in T : l <= i
  BY <1>2, <1>3, HasEnds
<1>5. Minimum(T) \in T /\ \A y \in T : Minimum(T) <= y
  BY <1>4 DEF Minimum
<1>6. Maximum(T) \in T
  BY <1>4 DEF Maximum
<1>7. Minimum(T) \in Int /\ Width(T) \in Nat
  <2>1. Minimum(T) \in Int /\ Maximum(T) \in Int
    BY <1>2, <1>5, <1>6
  <2>2. Minimum(T) <= Maximum(T)
    BY <1>5, <1>6
  <2>3. Width(T) = Maximum(T) - Minimum(T)
    BY DEF Width
  <2> DEFINE l == Minimum(T)
             g == Maximum(T)
  <2> HIDE DEF l, g
  <2>4. g - l \in Nat
    BY <2>1, <2>2 DEF l, g
  <2>5. QED BY <2>1, <2>3, <2>4 DEF l, g
<1>8. q = [minimum |-> Minimum(T), scale |-> IF Width(T) = 0 THEN 1 ELSE Width(T)]
  BY <1>1 DEF fit
<1>9. QED BY <1>7, <1>8

LEMMA EncodeIsNumber ==
  ASSUME NEW q \in Quantizers, NEW v \in Int
  PROVE  encode(q, v) \in Int
<1>1. q.minimum \in Int /\ q.scale \in Nat \ {0}
  BY FitIsNumbers
<1> DEFINE a == 255 * (v - q.minimum)
           b == q.scale
<1>2. a \in Int /\ b \in Nat \ {0}
  BY <1>1
<1> HIDE DEF a, b
<1>3. a \div b \in Int
  BY <1>2
<1>4. Rint(a, b) \in {a \div b, (a \div b) + 1}
  BY DEF Rint
<1>5. Rint(a, b) - 128 \in Int
  BY <1>3, <1>4
<1>6. Clip(Rint(a, b) - 128) \in Int
  BY <1>5 DEF Clip
<1>7. QED BY <1>6 DEF encode, a, b

LEMMA Comparable ==
  ASSUME MemTyped, mem.quant # None, NEW query \in Queries, NEW r \in Rows
  PROVE  Distance(query, r) \in Int /\ Score(query, r) \in Int
<1>1. Distance(query, r) \in Int
  BY DEF Distance, hamming_distance
<1>2. query \in Int /\ mem.quant \in Quantizers
  BY FlatIndexAssumption DEF MemTyped
<1>3. mem.int8[r] \in Codes
  <2>1. mem.int8 \in Seq(Codes) /\ r \in 1..Len(mem.int8)
    BY LenProperties DEF MemTyped, Rows
  <2>2. QED BY <2>1, ElementOfSeq
<1>4. mem.int8[r].vector \in Versions /\ mem.int8[r].quant \in Quantizers
  BY <1>3 DEF Codes
<1>5. Vector[mem.int8[r].vector] \in Int
  BY <1>4, FlatIndexAssumption
<1>6. Code(r) \in Int
  BY <1>4, <1>5, EncodeIsNumber DEF Code
<1>7. mem.quant.minimum \in Int /\ mem.quant.scale \in Int
  BY <1>2, FitIsNumbers
<1> DEFINE c == Code(r)
           s == mem.quant.scale
           l == mem.quant.minimum
<1>8. c \in Int /\ s \in Int /\ l \in Int
  BY <1>6, <1>7
<1> HIDE DEF c, s, l
<1>9. c * (query * s) + query * (128 * s + 255 * l) \in Int
  BY <1>2, <1>8
<1>10. QED BY <1>1, <1>9 DEF Score, rescore255, c, s, l

(* One scan: the first k of an order of the candidates. *)
Sound(query, k, rows, hit) ==
  /\ hit \subseteq rows
  /\ Cardinality(hit) = Min({k, Cardinality(rows)})
  /\ \A r \in hit, t \in rows \ hit : Score(query, t) > Score(query, r) =>
       /\ Distance(query, r) <= Distance(query, t)
       /\ Cardinality(Nearer(query, rows, t)) >= k * Multiplier

LEMMA ScanOnce ==
  ASSUME MemTyped, mem.quant # None,
         NEW query \in Queries, NEW k \in Ks, NEW rows \in (SUBSET Rows) \ {{}},
         NEW C \in Candidates(query, rows, k), NEW s \in BestFirst(query, C)
  PROVE  Sound(query, k, rows, ToSet(SubSeq(s, 1, Min({k, Len(s)}))))
<1> DEFINE n == Cardinality(C)
           m == Min({k, n})
           hits == SubSeq(s, 1, m)
           wide == Max({k, k * Multiplier})
<1>1. k \in Nat \ {0} /\ Multiplier \in Nat \ {0}
  BY FlatIndexAssumption
<1>2. IsFiniteSet(rows) /\ Cardinality(rows) \in Nat /\ Cardinality(rows) # 0
  <2>1. Rows = 1..Len(mem.ids) /\ Len(mem.ids) \in Nat
    BY LenProperties DEF MemTyped, Rows
  <2>2. IsFiniteSet(Rows)
    <3>1. 1 \in Int /\ Len(mem.ids) \in Int
      BY <2>1
    <3>2. QED BY <2>1, <3>1, FS_Interval
  <2>3. IsFiniteSet(rows)
    BY <2>2, FS_Subset
  <2>4. QED BY <2>3, FS_CardinalityType, FS_EmptySet
<1>3. wide \in Nat /\ wide >= k /\ wide >= k * Multiplier
  <2> DEFINE b == k * Multiplier
  <2>1. k \in Int /\ b \in Int
    BY <1>1
  <2> HIDE DEF b
  <2>2. Max({k, b}) = IF k >= b THEN k ELSE b
    BY <2>1, MinMaxOfTwo
  <2>3. wide = Max({k, b})
    BY DEF b
  <2> HIDE DEF wide
  <2>4. wide = IF k >= b THEN k ELSE b
    BY <2>2, <2>3
  <2>5. wide \in Nat /\ wide >= k /\ wide >= b
    BY <1>1, <2>1, <2>4
  <2>6. QED BY <2>5 DEF b
<1>4. /\ C \subseteq rows /\ n = Min({Cardinality(rows), wide})
      /\ \A r \in C, t \in rows \ C : Distance(query, r) <= Distance(query, t)
  BY DEF Candidates
<1> HIDE DEF wide
<1>5. n = IF Cardinality(rows) <= wide THEN Cardinality(rows) ELSE wide
  <2> DEFINE all == Cardinality(rows)
  <2>1. all \in Int /\ wide \in Int
    BY <1>2, <1>3
  <2>2. n = Min({all, wide})
    BY <1>4
  <2> HIDE DEF all, n
  <2>3. Min({all, wide}) = IF all <= wide THEN all ELSE wide
    BY <2>1, MinMaxOfTwo
  <2>4. n = IF all <= wide THEN all ELSE wide
    BY <2>2, <2>3
  <2>5. QED BY <2>4 DEF all
<1>6. n \in Nat \ {0} /\ IsFiniteSet(C)
  <2>1. IsFiniteSet(C)
    BY <1>2, <1>4, FS_Subset
  <2> HIDE DEF n
  <2>2. QED BY <1>1, <1>2, <1>3, <1>5, <2>1
<1>7. /\ s \in [1..n -> C] /\ \A i, j \in 1..n : i # j => s[i] # s[j]
      /\ \A i, j \in 1..n : i < j => Score(query, s[i]) >= Score(query, s[j])
  <2>1. s \in SetToSeqs(C) /\ \A i, j \in DOMAIN s : i < j => Score(query, s[i]) >= Score(query, s[j])
    BY DEF BestFirst
  <2>2. s \in [1..n -> C] /\ \A i, j \in 1..n : i # j => s[i] # s[j]
    BY <2>1 DEF SetToSeqs
  <2>3. QED BY <2>1, <2>2
<1> HIDE DEF n
<1>8. s \in Seq(C) /\ Len(s) = n
  BY <1>6, <1>7, SeqDef, LenProperties
<1>9. /\ m = (IF k <= n THEN k ELSE n) /\ m \in 1..n
      /\ m = Min({k, Cardinality(rows)})
  <2> DEFINE all == Cardinality(rows)
             few == Min({k, all})
  <2>1. k \in Int /\ n \in Int /\ all \in Int
    BY <1>1, <1>2, <1>6
  <2> HIDE DEF all
  <2>2. m = IF k <= n THEN k ELSE n
    BY <2>1, MinMaxOfTwo
  <2>3. few = IF k <= all THEN k ELSE all
    BY <2>1, MinMaxOfTwo
  <2> HIDE DEF m, few
  <2>4. n = IF all <= wide THEN all ELSE wide
    BY <1>5 DEF all
  <2>5. m \in 1..n
    BY <1>1, <1>6, <2>2
  <2>6. m = few
    BY <1>1, <1>3, <2>1, <2>2, <2>3, <2>4
  <2>7. QED BY <2>2, <2>5, <2>6 DEF few, all
<1> HIDE DEF m
<1>10. /\ Len(hits) = m /\ DOMAIN hits = 1..m /\ \A i \in 1..m : hits[i] = s[i]
  <2>1. m \in 1..Len(s) /\ n \in Nat /\ m \in Nat
    BY <1>6, <1>8, <1>9
  <2>2. hits \in Seq(C) /\ Len(hits) = m /\ \A i \in 1..m : hits[i] = s[i]
    BY <1>8, <2>1
  <2>3. QED BY <2>2, LenProperties
<1> DEFINE hit == ToSet(hits)
<1> HIDE DEF hits
<1>11. hit = {s[i] : i \in 1..m}
  BY <1>10 DEF ToSet
<1> HIDE DEF hit
<1>12. \A i \in 1..m : i \in 1..n
  BY <1>6, <1>9
<1>13. hit \subseteq C
  BY <1>7, <1>11, <1>12
<1>14. Cardinality(hit) = m
  <2> DEFINE f == [i \in 1..m |-> s[i]]
  <2>1. f \in Bijection(1..m, hit)
    BY <1>7, <1>11, <1>12 DEF Bijection, Injection, Surjection, IsInjective
  <2> HIDE DEF f
  <2>2. ExistsBijection(1..m, hit)
    BY <2>1 DEF ExistsBijection
  <2>3. IsFiniteSet(1..m) /\ Cardinality(1..m) = m
    <3>1. 1 \in Int /\ m \in Int /\ m >= 1
      BY <1>9
    <3>2. QED BY <3>1, FS_Interval
  <2>4. QED BY <2>2, <2>3, FS_Bijection
<1>15. ASSUME NEW r \in hit, NEW t \in rows \ hit, Score(query, t) > Score(query, r)
       PROVE  /\ Distance(query, r) <= Distance(query, t)
              /\ Cardinality(Nearer(query, rows, t)) >= k * Multiplier
  <2>1. /\ Distance(query, t) \in Int /\ Distance(query, r) \in Int
        /\ Score(query, t) \in Int /\ Score(query, r) \in Int
    <3>1. t \in Rows /\ r \in Rows
      BY <1>4, <1>13
    <3>2. QED BY <3>1, Comparable
  <2>2. CASE t \notin C
    <3>1. Distance(query, r) <= Distance(query, t)
      BY <1>4, <1>13, <2>2
    <3>2. C \subseteq Nearer(query, rows, t)
      BY <1>4, <2>2 DEF Nearer
    <3>3. IsFiniteSet(Nearer(query, rows, t))
      BY <1>2, FS_Subset DEF Nearer
    <3>4. n <= Cardinality(Nearer(query, rows, t)) /\ Cardinality(Nearer(query, rows, t)) \in Nat
      BY <3>2, <3>3, FS_Subset, FS_CardinalityType DEF n
    <3>5. n = wide
      <4>1. n # Cardinality(rows)
        BY <1>2, <1>4, <2>2, FS_Subset DEF n
      <4>2. QED BY <1>5, <4>1
    <3>6. QED
      <4> DEFINE b == k * Multiplier
                 nearer == Cardinality(Nearer(query, rows, t))
      <4>1. b \in Int /\ wide >= b
        BY <1>1, <1>3
      <4>2. nearer \in Nat /\ n <= nearer
        BY <3>4
      <4> HIDE DEF b, nearer
      <4>3. nearer >= b
        BY <1>3, <1>6, <3>5, <4>1, <4>2
      <4>4. QED BY <3>1, <4>3 DEF b, nearer
  <2>3. CASE t \in C
    <3>1. PICK j \in 1..n : s[j] = t
      <4>1. s \in Injection(1..n, C)
        BY <1>7 DEF Injection, IsInjective
      <4>2. Cardinality(1..n) = n
        <5>1. 1 \in Int /\ n \in Int /\ n >= 1
          BY <1>6
        <5>2. QED BY <5>1, FS_Interval
      <4>3. s \in Surjection(1..n, C)
        BY <1>6, <4>1, <4>2, FS_Injection DEF n
      <4>4. QED BY <2>3, <4>3 DEF Surjection
    <3>2. PICK i \in 1..m : s[i] = r
      BY <1>11
    <3>3. j \notin 1..m
      BY <1>11, <1>15, <3>1
    <3>4. i < j /\ i \in 1..n
      BY <1>6, <1>9, <3>3
    <3>5. Score(query, r) >= Score(query, t)
      BY <1>7, <3>1, <3>2, <3>4
    <3>6. QED BY <1>15, <2>1, <3>5
  <2>4. QED BY <2>2, <2>3
<1>16. Sound(query, k, rows, hit)
  BY <1>4, <1>9, <1>13, <1>14, <1>15 DEF Sound
<1>17. hit = ToSet(SubSeq(s, 1, Min({k, Len(s)})))
  BY <1>8 DEF hit, hits, m
<1>18. QED BY <1>16, <1>17

(* scan_rows: whichever rows a search may see, it is given the right       *)
(* number of them and nothing else, and one is passed over for a worse one *)
(* only behind k * rescore_multiplier others that are as near by their     *)
(* bits.                                                                   *)
THEOREM ScansAreSound == Spec => []ScanIsSound
<1>1. ASSUME FilesInvariant, mem.quant # None,
             NEW query \in Queries, NEW k \in Ks, NEW rows \in (SUBSET Rows) \ {{}},
             NEW hits \in scan_rows(query, rows, k)
      PROVE  Sound(query, k, rows, ToSet(hits))
  <2>1. PICK C \in Candidates(query, rows, k) :
          \E s \in BestFirst(query, C) : hits = SubSeq(s, 1, Min({k, Len(s)}))
    BY DEF scan_rows
  <2>2. PICK s \in BestFirst(query, C) : hits = SubSeq(s, 1, Min({k, Len(s)}))
    BY <2>1
  <2>3. MemTyped
    BY <1>1 DEF FilesInvariant
  <2>4. Sound(query, k, rows, ToSet(SubSeq(s, 1, Min({k, Len(s)}))))
    BY <1>1, <2>3, ScanOnce
  <2>5. QED BY <2>2, <2>4
<1>2. FilesInvariant => ScanIsSound
  BY <1>1 DEF ScanIsSound, Sound
<1>3. QED BY <1>2, FilesAreKept, PTL
=============================================================================
