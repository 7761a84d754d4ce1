-------------------------------- MODULE FlatIndex --------------------------------
(***************************************************************************)
(* FlatIndex (perimeter/index/flat.py) and its directory: entries are      *)
(* staged, flush rebuilds the arrays, writes them to .write and replaces   *)
(* the six files one by one.  A write may fail (OSError) and the process   *)
(* may stop at any point.  One thread, as the class requires; module       *)
(* Retrieval has the threads.                                              *)
(*                                                                         *)
(* A version stands for a vector and a policy; rows count from 1.  A file  *)
(* is replaced whole or not at all, and is written whole or not at all.    *)
(***************************************************************************)
EXTENDS Quantize, RowOrder, Sequences, SequencesExt, FiniteSetsExt

CONSTANTS Ids, Docs, DocOf, Versions, None,
          Vector,      \* Vector[v]: an integer, see Quantize
          Multiplier,  \* rescore_multiplier
          Queries, Ks, \* the searches tried
          Faults,      \* what may go wrong
          MaxStaged,   \* bound: additions and removals in a behaviour
          MaxFaults    \* bound: faults in a behaviour

(* What fit may return; a row of int8 codes: the vector it was made of,    *)
(* and the quantizer.                                                      *)
Quantizers == {fit(S) : S \in (SUBSET {Vector[v] : v \in Versions}) \ {{}}}
Codes == [vector : Versions, quant : Quantizers]

ASSUME FlatIndexAssumption ==
  /\ DocOf \in [Ids -> Docs] /\ IsFiniteSet(Versions)
  /\ None \notin Versions \cup Nat \cup Quantizers \cup [vector : Versions, policy : Versions]
  /\ None \notin Seq(Ids) /\ None \notin Seq(Versions) /\ None \notin Seq(Codes)
  /\ Vector \in [Versions -> Int] /\ Queries \subseteq Int /\ Ks \subseteq Nat \ {0}
  /\ Multiplier \in Nat \ {0} /\ MaxStaged \in Nat /\ MaxFaults \in Nat
  /\ Faults \subseteq {"write", "stop"}

VARIABLES
  mem,      \* _binary, _int8, _ids, _acl (policies row by row), _quantizer
  staged,   \* _staged: [id, version], in order
  removed,  \* _removed_prefixes: documents
  disk,     \* the six files; None for one that does not exist
  leftQuant,\* .write/quant.npz: what a write that failed may leave for the next
  pc,       \* "down", "up", "write" (to .write), "replace", "refused"
  next,     \* the number of the next file to replace
  opening,  \* _write_all was called by open, for a directory without meta.json
  ops, faults,  \* counters
  saved,    \* history: the files when a write last ended, or open accepted them
  appends   \* history: since then each flush has kept every row it found

fvars == <<mem, staged, removed, disk, leftQuant, pc, next, opening, ops, faults, saved, appends>>

Names == <<"binary", "int8", "ids", "acl", "quant", "meta">>
NoFiles == [f \in {Names[i] : i \in 1..6} |-> None]

Empty == [binary |-> <<>>, int8 |-> <<>>, ids |-> <<>>, acl |-> <<>>, quant |-> None]

Init ==
  /\ mem = Empty /\ staged = <<>> /\ removed = {}
  /\ disk = NoFiles /\ leftQuant = None
  /\ pc = "down" /\ next = 1 /\ opening = FALSE
  /\ ops = 0 /\ faults = 0
  /\ saved = NoFiles /\ appends = TRUE

-----------------------------------------------------------------------------
(* _load.  A code file longer than count rows is mapped all the same.      *)

Mappable(codes, count) == count = 0 \/ Len(codes) >= count

(* Mutant of Loadable: the rows of the policies are not counted. *)
Loadable_NoAclCount(d) ==
  /\ Mappable(d.binary, d.meta) /\ Mappable(d.int8, d.meta)
  /\ Len(d.ids) = d.meta

Loadable(d) ==
  /\ Mappable(d.binary, d.meta) /\ Mappable(d.int8, d.meta)
  /\ Len(d.ids) = d.meta /\ Len(d.acl) = d.meta

Loaded(d, quantizer) ==
  [binary |-> SubSeq(d.binary, 1, d.meta), int8 |-> SubSeq(d.int8, 1, d.meta),
   ids |-> d.ids, acl |-> d.acl,
   quant |-> IF d.quant # None THEN d.quant ELSE quantizer]

OpenExisting ==
  /\ pc = "down"
  /\ disk.meta # None
  /\ pc' = IF Loadable(disk) THEN "up" ELSE "refused"
  /\ mem' = IF Loadable(disk) THEN Loaded(disk, None) ELSE mem
  /\ saved' = IF Loadable(disk) THEN disk ELSE saved
  /\ appends' = TRUE
  /\ UNCHANGED <<staged, removed, disk, leftQuant, next, opening, ops, faults>>

OpenNew ==
  /\ pc = "down"
  /\ disk.meta = None
  /\ pc' = "write"
  /\ opening' = TRUE
  /\ UNCHANGED <<mem, staged, removed, disk, leftQuant, next, ops, faults, saved, appends>>

-----------------------------------------------------------------------------
Staging == pc = "up" /\ ops < MaxStaged /\ ops' = ops + 1

add(c, v) ==
  /\ Staging
  /\ staged' = Append(staged, [id |-> c, version |-> v])
  /\ UNCHANGED <<mem, removed, disk, leftQuant, pc, next, opening, faults, saved, appends>>

remove_document(d) ==
  /\ Staging
  /\ removed' = removed \cup {d}
  /\ UNCHANGED <<mem, staged, disk, leftQuant, pc, next, opening, faults, saved, appends>>

(* The ids of the old rows and of what is staged, and the positions kept:  *)
(* the last of each id, an old one only when its document is not removed.  *)
AllIds == mem.ids \o [i \in DOMAIN staged |-> staged[i].id]
Old == DOMAIN mem.ids
NewAt(i) == staged[i - Len(mem.ids)].version

(* Mutant of Keep: a removal also drops what was staged after it. *)
Keep_RemovesStaged(i) ==
  /\ \A j \in DOMAIN AllIds : j > i => AllIds[j] # AllIds[i]
  /\ DocOf[AllIds[i]] \notin removed

Keep(i) ==
  /\ \A j \in DOMAIN AllIds : j > i => AllIds[j] # AllIds[i]
  /\ ~(i \in Old /\ DocOf[AllIds[i]] \in removed)

(* Mutant of Kept: the new rows come before the old. *)
Kept_NewFirst ==
  InOrder({i \in DOMAIN AllIds : Keep(i)} \ Old) \o InOrder({i \in DOMAIN AllIds : Keep(i)} \cap Old)

Kept == InOrder({i \in DOMAIN AllIds : Keep(i)})
Rebuilt(old, new) ==
  [k \in DOMAIN Kept |-> IF Kept[k] \in Old THEN old[Kept[k]] ELSE new[NewAt(Kept[k])]]

NewVectors == {Vector[NewAt(Kept[k])] : k \in {j \in DOMAIN Kept : Kept[j] \notin Old}}

(* Mutant of Quantizer: it is fitted again for every flush. *)
Quantizer_Refits == IF NewVectors # {} THEN fit(NewVectors) ELSE mem.quant

Quantizer == IF mem.quant = None /\ NewVectors # {} THEN fit(NewVectors) ELSE mem.quant

Int8 == [v \in Versions |-> [vector |-> v, quant |-> Quantizer]]
Same == [v \in Versions |-> v]

Flush ==
  /\ pc = "up"
  /\ mem' = [binary |-> Rebuilt(mem.binary, Same), int8 |-> Rebuilt(mem.int8, Int8),
             ids |-> [k \in DOMAIN Kept |-> AllIds[Kept[k]]],
             acl |-> Rebuilt(mem.acl, Same), quant |-> Quantizer]
  /\ staged' = <<>>
  /\ removed' = {}
  /\ pc' = "write"
  /\ appends' = (appends /\ \A i \in Old : Keep(i))
  /\ UNCHANGED <<disk, leftQuant, next, opening, ops, faults, saved>>

-----------------------------------------------------------------------------
(* _write_all: to .write, then one os.replace per file in the order of     *)
(* Names.  quant.npz is there only if a quantizer has been fitted, or if   *)
(* an earlier write left one.                                              *)

Written(name) ==
  IF name = "meta" THEN Len(mem.ids) ELSE IF name = "quant" THEN leftQuant ELSE mem[name]

Write ==
  /\ pc = "write"
  /\ leftQuant' = IF mem.quant # None THEN mem.quant ELSE leftQuant
  /\ pc' = "replace"
  /\ next' = 1
  /\ UNCHANGED <<mem, staged, removed, disk, opening, ops, faults, saved, appends>>

Replaced == IF Written(Names[next]) = None THEN disk
            ELSE [disk EXCEPT ![Names[next]] = Written(Names[next])]

Replace ==
  /\ pc = "replace"
  /\ next < 6
  /\ disk' = Replaced
  /\ leftQuant' = IF Names[next] = "quant" THEN None ELSE leftQuant
  /\ next' = next + 1
  /\ UNCHANGED <<mem, staged, removed, pc, opening, ops, faults, saved, appends>>

(* meta.json; then flush loads what it wrote. *)
ReplaceLast ==
  /\ pc = "replace"
  /\ next = 6
  /\ disk' = Replaced
  /\ mem' = IF opening THEN mem ELSE Loaded(disk', mem.quant)
  /\ pc' = "up"
  /\ opening' = FALSE
  /\ saved' = disk' /\ appends' = TRUE
  /\ UNCHANGED <<staged, removed, leftQuant, next, ops, faults>>

Fault(f) == f \in Faults /\ faults < MaxFaults /\ faults' = faults + 1

(* OSError: what is in .write and what has been replaced stays.  An open   *)
(* that fails leaves no index.                                             *)
WriteFails ==
  /\ pc \in {"write", "replace"}
  /\ Fault("write")
  /\ \/ leftQuant' = leftQuant
     \/ pc = "write" /\ mem.quant # None /\ leftQuant' = mem.quant
  /\ pc' = IF opening THEN "down" ELSE "up"
  /\ opening' = FALSE
  /\ UNCHANGED <<mem, staged, removed, disk, next, ops, saved, appends>>

Stop ==
  /\ pc \in {"up", "write", "replace"}
  /\ Fault("stop")
  /\ \/ leftQuant' = leftQuant
     \/ pc = "write" /\ mem.quant # None /\ leftQuant' = mem.quant
  /\ mem' = Empty /\ staged' = <<>> /\ removed' = {}
  /\ pc' = "down"
  /\ opening' = FALSE
  /\ UNCHANGED <<disk, next, ops, saved, appends>>

Next ==
  \/ OpenExisting \/ OpenNew
  \/ \E c \in Ids, v \in Versions : add(c, v)
  \/ \E d \in Docs : remove_document(d)
  \/ Flush \/ Write \/ Replace \/ ReplaceLast
  \/ WriteFails \/ Stop

Spec == Init /\ [][Next]_fvars

-----------------------------------------------------------------------------
(* scan_rows: of the rows given, those with the closest bits are rescored  *)
(* and the best k returned.  argpartition picks any of the rows at equal   *)
(* distance and leaves them in any order.                                  *)

Distance(query, r) == hamming_distance(Bit(query), Bit(Vector[mem.binary[r]]))

Code(r) == encode(mem.int8[r].quant, Vector[mem.int8[r].vector])
Score(query, r) == rescore255(mem.quant, query, Code(r))

(* Mutant of Candidates: as many as the multiplier says, whatever k is. *)
Candidates_NoK(query, rows, k) ==
  {C \in SUBSET rows :
     /\ Cardinality(C) = Min({Cardinality(rows), Max({k, Multiplier})})
     /\ \A r \in C, s \in rows \ C : Distance(query, r) <= Distance(query, s)}

Candidates(query, rows, k) ==
  {C \in SUBSET rows :
     /\ Cardinality(C) = Min({Cardinality(rows), Max({k, k * Multiplier})})
     /\ \A r \in C, s \in rows \ C : Distance(query, r) <= Distance(query, s)}

BestFirst(query, C) ==
  {s \in SetToSeqs(C) : \A i, j \in DOMAIN s : i < j => Score(query, s[i]) >= Score(query, s[j])}

scan_rows(query, rows, k) ==
  {SubSeq(s, 1, Min({k, Len(s)})) : s \in UNION {BestFirst(query, C) : C \in Candidates(query, rows, k)}}

-----------------------------------------------------------------------------
Rows == DOMAIN mem.ids

TypeOK ==
  /\ mem.ids \in Seq(Ids) /\ mem.acl \in Seq(Versions) /\ mem.binary \in Seq(Versions)
  /\ Len(mem.acl) = Len(mem.ids) /\ Len(mem.binary) = Len(mem.ids) /\ Len(mem.int8) = Len(mem.ids)
  /\ staged \in Seq([id : Ids, version : Versions])
  /\ removed \subseteq Docs
  /\ pc \in {"down", "up", "write", "replace", "refused"}

(* Every int8 code in the index was made by the quantizer that rescores    *)
(* it, across appends, failed writes and restarts ("fitted on the first    *)
(* flush and reused afterwards so codes stay comparable across appends",   *)
(* flat.py:17-18).                                                         *)
CodesComparable == pc = "up" => \A r \in Rows : mem.int8[r].quant = mem.quant

Nearer(query, rows, s) ==
  {r \in rows \ {s} : Distance(query, r) <= Distance(query, s)}

(* Whichever rows a search may see (it flushes first), it gets             *)
(* min(k, |rows|) of them and nothing else.  A row with a better score     *)
(* than one that is returned is no nearer by its bits, and there are       *)
(* k * rescore_multiplier others at least as near (flat.py:401-404,        *)
(* 416-424).                                                               *)
ScanIsSound ==
  pc = "up" /\ staged = <<>> /\ removed = {} /\ mem.quant # None =>
    \A query \in Queries, k \in Ks, rows \in (SUBSET Rows) \ {{}} :
      \A hits \in scan_rows(query, rows, k) :
         LET hit == ToSet(hits) IN
         /\ hit \subseteq rows
         /\ Cardinality(hit) = Min({k, Cardinality(rows)})
         /\ \A r \in hit, s \in rows \ hit : Score(query, s) > Score(query, r) =>
               /\ Distance(query, r) <= Distance(query, s)
               /\ Cardinality(Nearer(query, rows, s)) >= k * Multiplier

-----------------------------------------------------------------------------
(* What a directory, or memory, holds. *)
Row(d, i) == [vector |-> d.binary[i], policy |-> d.acl[i]]
Contents(d) ==
  [c \in Ids |-> IF \E i \in DOMAIN d.ids : d.ids[i] = c
                 THEN Row(d, CHOOSE i \in DOMAIN d.ids :
                               d.ids[i] = c /\ \A j \in DOMAIN d.ids : j > i => d.ids[j] # c)
                 ELSE None]

Existing(d) == IF d.meta = None THEN Empty ELSE Loaded(d, None)

(* A flush that only appends is safe at every point: if the process were   *)
(* to stop now, the next one would find what was there when the last write *)
(* ended, or refuse the directory.  It never takes a row for another or    *)
(* gives it another policy, although six files change one by one and only  *)
(* their counts are compared.                                              *)
AppendIsStopSafe ==
  pc \in {"up", "write", "replace"} /\ disk.meta # None /\ Loadable(disk) /\ appends
    => Contents(Loaded(disk, None)) = Contents(Existing(saved))

(* The directory is only touched by a flush: a stop at any other time, or  *)
(* while .write is being filled, loses what is staged and nothing else.    *)
(* With it the index is the port that ingestion relies on.                 *)
LastStaged(c) ==
  LET S == {i \in DOMAIN staged : staged[i].id = c} IN
  IF S = {} THEN None
  ELSE [vector |-> staged[Max(S)].version, policy |-> staged[Max(S)].version]

Port == INSTANCE VectorIndex WITH
  up      <- IF opening \/ pc = "down" THEN "down" ELSE IF pc = "refused" THEN "refused" ELSE "up",
  entries <- Contents(mem),
  staged  <- [c \in Ids |-> LastStaged(c)],
  removed <- removed,
  saved   <- Contents(Existing(saved)),
  torn    <- disk.meta # None /\ disk # saved
ImplementsPort == Port!Spec
=============================================================================
