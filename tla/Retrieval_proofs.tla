---------------------------- MODULE Retrieval_proofs ----------------------------
(***************************************************************************)
(* Proofs about Retrieval, for any documents, versions, callers, stores    *)
(* and modes, and for any number of ingestions and retrievals: INV-1,      *)
(* INV-4 and the reranker's half of INV-2 hold in every interleaving, with *)
(* any number of ingestions at once (Ingestions) too.                      *)
(***************************************************************************)
EXTENDS Ingestions, TLAPS

(* A chunk of the store has the policy of the version its text is from. *)
StoreOK == chunks \in [ChunkIds -> {None} \cup {ChunkOf(v) : v \in Versions}]

(* A document is being put under one of the versions. *)
WriterOK ==
  /\ DOMAIN writer = DOMAIN Idle
  /\ writer.at # "idle" => writer.version \in Versions

(* Whatever the retrieval could find now, it was there during the call. *)
SeenOK == call.at # "idle" => Stored(chunks) \subseteq during

(* What has passed a check of the store was there, with its own policy. *)
Checked(x) == x \in during /\ x.policy = PolicyOf[x.text] /\ admits(x.policy, S)

CallOK ==
  /\ DOMAIN call = DOMAIN NoCall
  /\ call.at = "idle" => call = NoCall
  /\ \A x \in call.fetched \cup call.shown : Checked(x)
  /\ call.result \subseteq call.shown
  /\ call.at \notin {"done", "failed"} => call.result = {}

(* With an empty permission set a call asks nobody, and flushes nothing.   *)
EmptyOK ==
  /\ DOMAIN flushing = Threads
  /\ S = {} => /\ call.at \in {"idle", "catalog", "embed", "done", "failed"}
               /\ call.asked = {} /\ call.result = {}
               /\ flushing["reader"] = None

ReadInvariant == StoreOK /\ WriterOK /\ SeenOK /\ CallOK /\ EmptyOK

-----------------------------------------------------------------------------
(* What the store gives out under a permission set is checked. *)
LEMMA StoreChecks ==
  ASSUME StoreOK, SeenOK, call.at # "idle", NEW ids
  PROVE  \A x \in Readable(ids) : Checked(x)
<1> SUFFICES ASSUME NEW x \in Readable(ids) PROVE Checked(x)
  OBVIOUS
<1>1. x \in Stored(chunks) /\ admits(x.policy, S)
  BY DEF Readable
<1>2. x \in during
  BY <1>1 DEF SeenOK
<1>3. PICK c \in ChunkIds : chunks[c] # None /\ x = [id |-> c, text |-> chunks[c].text, policy |-> chunks[c].policy]
  BY <1>1 DEF Stored
<1>4. PICK v \in Versions : chunks[c] = ChunkOf(v)
  BY <1>3 DEF StoreOK
<1>5. x.policy = PolicyOf[x.text]
  BY <1>3, <1>4 DEF ChunkOf
<1>6. QED BY <1>1, <1>2, <1>5 DEF Checked

(* A step of the ingestion that notes what it changes in the store; the    *)
(* reader's flush is not its own.                                          *)
LEMMA StoreStep ==
  ASSUME ReadInvariant, NoteStored, StoreOK', WriterOK', EmptyOK', UNCHANGED call
  PROVE  ReadInvariant'
<1>1. SeenOK'
  BY DEF NoteStored, SeenOK
<1>2. CASE call.at = "idle"
  <2>1. call.fetched = {} /\ call.shown = {}
    BY <1>2 DEF ReadInvariant, CallOK, NoCall
  <2>2. QED BY <1>1, <2>1 DEF ReadInvariant, CallOK
<1>3. CASE call.at # "idle"
  <2>1. during \subseteq during'
    BY <1>3 DEF NoteStored
  <2>2. CallOK'
    BY <2>1 DEF ReadInvariant, CallOK, Checked, S
  <2>3. QED BY <1>1, <2>2 DEF ReadInvariant
<1>4. QED BY <1>2, <1>3

LEMMA OtherWriterStep ==
  ASSUME ReadInvariant, WriterOK', EmptyOK', UNCHANGED <<chunks, during, call>>
  PROVE  ReadInvariant'
BY DEF ReadInvariant, StoreOK, SeenOK, CallOK, Checked, Stored, S

LEMMA WriterKeepsReadersFlush ==
  ASSUME EmptyOK, UNCHANGED call,
         flushing' = flushing \/ \E f : flushing' = [flushing EXCEPT !["writer"] = f]
  PROVE  EmptyOK'
BY DEF EmptyOK, S, Threads

LEMMA DeletePreserves ==
  ASSUME ReadInvariant, NEW deleting, NEW deleted, Delete(deleting, deleted), WriterOK', EmptyOK',
         UNCHANGED call
  PROVE  ReadInvariant'
<1>1. CASE UNCHANGED <<chunks, during>>
  BY <1>1, OtherWriterStep
<1>2. CASE NoteStored /\ chunks' = WithoutDoc(chunks, writer.doc)
  <2>1. StoreOK'
    BY <1>2 DEF ReadInvariant, StoreOK, WithoutDoc
  <2>2. QED BY <1>2, <2>1, StoreStep
<1>3. QED BY <1>1, <1>2 DEF Delete

LEMMA WriterPreserves ==
  ASSUME ReadInvariant, WriterStep
  PROVE  ReadInvariant'
<1> USE DEF AsIfWriter, Goto, At, indexVars, storeVars
<1>0. WriterOK /\ StoreOK /\ EmptyOK
  BY DEF ReadInvariant
<1>1. CASE NewDocument
  <2>1. WriterOK' /\ EmptyOK'
    BY <1>0, <1>1, WriterKeepsReadersFlush DEF NewDocument, WriterOK, Idle
  <2>2. QED BY <1>1, <2>1, OtherWriterStep DEF NewDocument
<1>2. CASE Put
  <2>1. WriterOK' /\ EmptyOK'
    BY <1>0, <1>2, WriterKeepsReadersFlush DEF Put, Delete, WriterOK, Idle
  <2>2. QED BY <1>2, <2>1, DeletePreserves DEF Put
<1>3. CASE PutDelete
  <2>1. WriterOK' /\ EmptyOK'
    BY <1>0, <1>3, WriterKeepsReadersFlush DEF PutDelete, WriterOK, Idle
  <2>2. StoreOK'
    BY <1>0, <1>3 DEF PutDelete, StoreOK
  <2>3. QED BY <1>3, <2>1, <2>2, StoreStep DEF PutDelete
<1>4. CASE PutDocument
  <2>1. WriterOK' /\ EmptyOK'
    BY <1>0, <1>4, WriterKeepsReadersFlush DEF PutDocument, WriterOK, Idle
  <2>2. QED BY <1>4, <2>1, OtherWriterStep DEF PutDocument
<1>5. CASE PutChunk
  <2>1. WriterOK' /\ writer.version \in Versions /\ EmptyOK'
    BY <1>0, <1>5, WriterKeepsReadersFlush DEF PutChunk, WriterOK, Idle
  <2>2. StoreOK'
    BY <1>0, <1>5, <2>1 DEF PutChunk, StoreOK
  <2>3. QED BY <1>5, <2>1, <2>2, StoreStep DEF PutChunk
<1>6. CASE remove_document
  <2>1. WriterOK' /\ EmptyOK'
    BY <1>0, <1>6, WriterKeepsReadersFlush DEF remove_document, WriterOK, Idle
  <2>2. QED BY <1>6, <2>1, OtherWriterStep DEF remove_document
<1>7. CASE Embed
  <2>1. WriterOK' /\ EmptyOK'
    BY <1>0, <1>7, WriterKeepsReadersFlush DEF Embed, Delete, WriterOK, Idle
  <2>2. CASE UNCHANGED storeVars
    BY <1>7, <2>1, <2>2, OtherWriterStep DEF Embed
  <2>3. CASE Delete("drop", "flush")
    BY <1>7, <2>1, <2>3, DeletePreserves DEF Embed
  <2>4. QED BY <1>7, <2>2, <2>3 DEF Embed
<1>8. CASE add
  <2>1. WriterOK' /\ EmptyOK'
    BY <1>0, <1>8, WriterKeepsReadersFlush DEF add, AddTo, WriterOK, Idle
  <2>2. QED BY <1>8, <2>1, OtherWriterStep DEF add, AddTo
<1>9. CASE WriterFlush
  <2>1. WriterOK'
    BY <1>9 DEF WriterFlush, WriterOK, Idle
  <2>2. EmptyOK'
    BY <1>0, <1>9, WriterKeepsReadersFlush DEF WriterFlush, FlushTake
  <2>3. QED BY <1>9, <2>1, <2>2, OtherWriterStep DEF WriterFlush
<1>10. CASE WriterFlushes
  <2>1. WriterOK'
    BY <1>0, <1>10 DEF WriterFlushes, WriterOK
  <2>2. \E f : flushing' = [flushing EXCEPT !["writer"] = f]
    BY <1>10 DEF WriterFlushes, FlushStep, FlushBuild, FlushIds, FlushAcl, FlushRaises
  <2>3. EmptyOK'
    BY <1>0, <1>10, <2>2, WriterKeepsReadersFlush DEF WriterFlushes
  <2>4. QED BY <1>10, <2>1, <2>3, OtherWriterStep DEF WriterFlushes
<1>11. QED
  BY <1>1, <1>2, <1>3, <1>4, <1>5, <1>6, <1>7, <1>8, <1>9, <1>10 DEF WriterStep

-----------------------------------------------------------------------------
(* A step of the retrieval that reads nothing from the store. *)
LEMMA OtherReaderStep ==
  ASSUME ReadInvariant, UNCHANGED <<chunks, writer, during>>, EmptyOK',
         call.at \notin {"idle", "done", "failed"}, DOMAIN call' = DOMAIN call,
         call'.permitted = call.permitted, call'.at # "idle",
         call'.fetched = call.fetched, call'.shown = call.shown, call'.result = call.result
  PROVE  ReadInvariant'
BY DEF ReadInvariant, StoreOK, WriterOK, SeenOK, CallOK, Checked, Stored, S

LEMMA ReaderPreserves ==
  ASSUME ReadInvariant, ReaderStep
  PROVE  ReadInvariant'
<1>0. DOMAIN call = DOMAIN NoCall /\ EmptyOK
  BY DEF ReadInvariant, CallOK
<1> USE DEF AsIfReader, Asks, indexVars
<1>1. CASE Begin
  <2>1. chunks' = chunks /\ writer' = writer /\ during' = Stored(chunks) /\ flushing' = flushing
    BY <1>1 DEF Begin
  <2>2. /\ DOMAIN call' = DOMAIN NoCall /\ call'.fetched = {} /\ call'.shown = {} /\ call'.result = {}
        /\ call'.at \in {"catalog", "embed"} /\ call'.asked = {} /\ flushing["reader"] = None
    BY <1>1 DEF Begin, NoCall
  <2>3. QED BY <2>1, <2>2 DEF ReadInvariant, StoreOK, WriterOK, SeenOK, CallOK, EmptyOK, Stored
<1>2. CASE simulate
  BY <1>0, <1>2, OtherReaderStep DEF simulate, NoCall, EmptyOK, S
<1>3. CASE EmbedQuery
  BY <1>0, <1>3, OtherReaderStep DEF EmbedQuery, NoCall, EmptyOK, S
<1>4. CASE FlushIfStaged
  <2>1. S # {}
    BY <1>0, <1>4 DEF FlushIfStaged, EmptyOK
  <2>2. /\ DOMAIN flushing' = DOMAIN flushing
        /\ DOMAIN call' = DOMAIN call /\ call'.permitted = call.permitted
        /\ call'.at \in {"rows", "scanning", "translating"}
        /\ call'.fetched = call.fetched /\ call'.shown = call.shown /\ call'.result = call.result
    BY <1>0, <1>4 DEF FlushIfStaged, FlushTake, NoCall, After
  <2>3. EmptyOK'
    BY <1>0, <2>1, <2>2 DEF EmptyOK, S
  <2>4. QED BY <1>4, <2>2, <2>3, OtherReaderStep DEF FlushIfStaged
<1>5. CASE SearchLeaky
  BY <1>0, <1>5, OtherReaderStep DEF SearchLeaky, NoCall, EmptyOK, S
<1>6. CASE Rows
  BY <1>0, <1>6, OtherReaderStep DEF Rows, NoCall, EmptyOK, S
<1>7. CASE Scan
  BY <1>0, <1>7, OtherReaderStep DEF Scan, NoCall, EmptyOK, S
<1>8. CASE chunk_id_at
  BY <1>0, <1>8, OtherReaderStep DEF chunk_id_at, NoCall, EmptyOK, S
<1>9. CASE get_chunks
  <2>1. /\ call.at = "fetch" /\ UNCHANGED <<chunks, writer, during, flushing>>
        /\ call'.at \in {"check", "fetch", "failed"}
        /\ DOMAIN call' = DOMAIN call /\ call'.permitted = call.permitted
        /\ call'.shown = call.shown /\ call'.result = call.result
    BY <1>0, <1>9 DEF get_chunks, NoCall
  <2>2. \/ call'.fetched = call.fetched
        \/ call'.fetched = call.fetched \cup Readable({Head(call.hits)})
        \/ call'.fetched = Readable(ToSet(call.hits))
    BY <1>0, <1>9 DEF get_chunks, NoCall
  <2>3. \A ids : \A x \in Readable(ids) : Checked(x)
    BY <2>1, StoreChecks DEF ReadInvariant
  <2>4. CallOK'
    BY <2>1, <2>2, <2>3 DEF ReadInvariant, CallOK, Checked, S
  <2>5. EmptyOK'
    BY <1>0, <2>1 DEF EmptyOK, S
  <2>6. QED BY <2>1, <2>4, <2>5 DEF ReadInvariant, StoreOK, WriterOK, SeenOK, Stored
<1>10. CASE Recheck
  <2>1. /\ call.at = "check" /\ UNCHANGED <<chunks, writer, during, flushing>>
        /\ call'.at \in {"done", "rank"}
        /\ DOMAIN call' = DOMAIN call /\ call'.permitted = call.permitted
        /\ call'.fetched = call.fetched /\ call'.result = call.result
        /\ call'.shown \subseteq call.fetched
    BY <1>0, <1>10 DEF Recheck, NoCall
  <2>2. CallOK' /\ EmptyOK'
    BY <1>0, <2>1 DEF ReadInvariant, CallOK, EmptyOK, Checked, S
  <2>3. QED BY <2>1, <2>2 DEF ReadInvariant, StoreOK, WriterOK, SeenOK, Stored
<1>11. CASE Rank
  <2>1. /\ call.at = "rank" /\ UNCHANGED <<chunks, writer, during, flushing>>
        /\ call'.at \in {"done", "failed"}
        /\ DOMAIN call' = DOMAIN call /\ call'.permitted = call.permitted
        /\ call'.fetched = call.fetched /\ call'.shown = call.shown
    BY <1>0, <1>11 DEF Rank, NoCall
  <2>2. call'.result \subseteq call.shown
    BY <1>0, <1>11 DEF Rank, NoCall, kSubset, ReadInvariant, CallOK
  <2>3. CallOK' /\ EmptyOK'
    BY <1>0, <2>1, <2>2 DEF ReadInvariant, CallOK, EmptyOK, Checked, S
  <2>4. QED BY <2>1, <2>3 DEF ReadInvariant, StoreOK, WriterOK, SeenOK, Stored
<1>12. CASE Answered
  <2>1. call' = NoCall /\ UNCHANGED <<chunks, writer, flushing>> /\ flushing["reader"] = None
    BY <1>12 DEF Answered
  <2>2. QED BY <1>0, <2>1 DEF ReadInvariant, StoreOK, WriterOK, SeenOK, CallOK, EmptyOK, NoCall
<1>13. CASE ReaderFlushes
  <2>1. /\ UNCHANGED <<chunks, writer, during>>
        /\ flushing["reader"] # None /\ DOMAIN flushing' = DOMAIN flushing
        /\ call' = call \/ call' = [call EXCEPT !.at = "failed"]
    BY <1>13 DEF ReaderFlushes, storeVars, FlushStep, FlushBuild, FlushIds, FlushAcl, FlushRaises
  <2>2. S # {} /\ call.at # "idle"
    BY <1>0, <2>1 DEF ReadInvariant, CallOK, EmptyOK, NoCall, S
  <2>3. /\ DOMAIN call' = DOMAIN call /\ call'.permitted = call.permitted
        /\ call'.at \in {call.at, "failed"}
        /\ call'.fetched = call.fetched /\ call'.shown = call.shown /\ call'.result = call.result
    BY <1>0, <2>1 DEF NoCall
  <2>4. CallOK' /\ EmptyOK'
    BY <1>0, <2>1, <2>2, <2>3 DEF ReadInvariant, CallOK, EmptyOK, Checked, S
  <2>5. QED BY <2>1, <2>2, <2>4 DEF ReadInvariant, StoreOK, WriterOK, SeenOK, Stored
<1>14. QED
  BY <1>1, <1>2, <1>3, <1>4, <1>5, <1>6, <1>7, <1>8, <1>9, <1>10, <1>11, <1>12, <1>13 DEF ReaderStep

-----------------------------------------------------------------------------
LEMMA ReadInvariance == Spec => []ReadInvariant
<1>1. Init => ReadInvariant
  BY DEF Init, ReadInvariant, StoreOK, WriterOK, SeenOK, CallOK, EmptyOK, Idle, NoCall, Threads
<1>2. ReadInvariant /\ [Next]_rvars => ReadInvariant'
  <2>1. ReadInvariant /\ UNCHANGED rvars => ReadInvariant'
    BY DEF rvars, ReadInvariant, StoreOK, WriterOK, SeenOK, CallOK, EmptyOK, Checked, Stored, S
  <2>2. QED BY <2>1, WriterPreserves, ReaderPreserves DEF Next
<1>3. QED BY <1>1, <1>2, PTL DEF Spec

(* INV-1 and INV-2's second half: in every interleaving of retrievals with *)
(* ingestions, over either store and whatever the index answers, the texts *)
(* that reach the reranker or the caller were stored during the call under *)
(* a policy that lets the caller read them.                                *)
THEOREM ReturnsReadableText == Spec => []TextWasReadable
<1>1. ReadInvariant => TextWasReadable
  BY DEF ReadInvariant, CallOK, Checked, TextWasReadable, MayRead, admits
<1>2. QED BY <1>1, ReadInvariance, PTL

(* INV-4: a caller with no principals costs no call of any port. *)
THEOREM EmptySetIsInert == Spec => []EmptySetAsksNothing
<1>1. ReadInvariant => EmptySetAsksNothing
  BY DEF ReadInvariant, EmptyOK, EmptySetAsksNothing
<1>2. QED BY <1>1, ReadInvariance, PTL

-----------------------------------------------------------------------------
(***************************************************************************)
(* The same beside any number of ingestions.  What the invariant says of   *)
(* the writer holds of each that waits, and nothing else is about one.     *)
(***************************************************************************)

IsWriter(w) ==
  DOMAIN w = DOMAIN Idle /\ (w.at # "idle" => w.version \in Versions)

WaitingOK ==
  DOMAIN waiting = Others /\ \A o \in Others : DOMAIN waiting[o] = {"writer", "flush"} /\ IsWriter(waiting[o].writer)

LEMMA Switched ==
  ASSUME WaitingOK, NEW o \in Others, Switch(o)
  PROVE  /\ writer' = waiting[o].writer /\ waiting'[o].writer = writer
         /\ waiting'[o].flush = flushing["writer"] /\ DOMAIN waiting' = Others
         /\ DOMAIN waiting'[o] = {"writer", "flush"}
         /\ \A p \in Others : p # o => waiting'[p] = waiting[p]
BY DEF WaitingOK, Switch

LEMMA ConcurrentInvariance == IngestionsSpec => [](ReadInvariant /\ WaitingOK)
<1>1. IngestionsInit => ReadInvariant /\ WaitingOK
  <2>1. Init => ReadInvariant
    BY DEF Init, ReadInvariant, StoreOK, WriterOK, SeenOK, CallOK, EmptyOK, Idle, NoCall, Threads
  <2>2. IngestionsInit => WaitingOK
    BY DEF IngestionsInit, WaitingOK, IsWriter, Idle
  <2>3. QED BY <2>1, <2>2 DEF IngestionsInit
<1>2. ASSUME ReadInvariant, WaitingOK, [IngestionsNext]_concurrentVars
      PROVE  ReadInvariant' /\ WaitingOK'
  <2>1. CASE Next /\ UNCHANGED waiting
    <3>1. ReadInvariant'
      BY <1>2, <2>1, WriterPreserves, ReaderPreserves DEF Next
    <3>2. WaitingOK'
      BY <1>2, <2>1 DEF WaitingOK, IsWriter
    <3>3. QED BY <3>1, <3>2
  <2>2. ASSUME NEW o \in Others, Switch(o) PROVE ReadInvariant' /\ WaitingOK'
    <3>1. /\ writer' = waiting[o].writer /\ waiting'[o].writer = writer /\ DOMAIN waiting' = Others
          /\ DOMAIN waiting'[o] = {"writer", "flush"}
          /\ \A p \in Others : p # o => waiting'[p] = waiting[p]
      BY <1>2, <2>2, Switched
    <3>2. WriterOK'
      BY <1>2, <3>1 DEF WaitingOK, IsWriter, WriterOK
    <3>3. IsWriter(writer)
      BY <1>2 DEF ReadInvariant, WriterOK, IsWriter
    <3>4. WaitingOK'
      BY <1>2, <3>1, <3>3 DEF WaitingOK, IsWriter
    <3>5. EmptyOK'
      <4>1. EmptyOK /\ UNCHANGED call /\ \E f : flushing' = [flushing EXCEPT !["writer"] = f]
        BY <1>2, <2>2 DEF Switch, ReadInvariant
      <4>2. QED BY <4>1, WriterKeepsReadersFlush
    <3>6. ReadInvariant'
      BY <1>2, <2>2, <3>2, <3>5, OtherWriterStep DEF Switch, storeVars
    <3>7. QED BY <3>4, <3>6
  <2>3. CASE UNCHANGED concurrentVars
    BY <1>2, <2>3
    DEF concurrentVars, rvars, ReadInvariant, StoreOK, WriterOK, SeenOK, CallOK, EmptyOK, Checked,
        Stored, S, WaitingOK, IsWriter
  <2>4. QED BY <1>2, <2>1, <2>2, <2>3 DEF IngestionsNext
<1>3. QED BY <1>1, <1>2, PTL DEF IngestionsSpec

(* INV-1 and INV-2's second half, beside any number of ingestions at once: *)
(* they may spoil the index, but not what a caller is shown.               *)
THEOREM ReturnsReadableTextConcurrently == IngestionsSpec => []TextWasReadable
<1>1. ReadInvariant => TextWasReadable
  BY DEF ReadInvariant, CallOK, Checked, TextWasReadable, MayRead, admits
<1>2. QED BY <1>1, ConcurrentInvariance, PTL

(* INV-4 beside any number of ingestions. *)
THEOREM EmptySetIsInertConcurrently == IngestionsSpec => []EmptySetAsksNothing
<1>1. ReadInvariant => EmptySetAsksNothing
  BY DEF ReadInvariant, EmptyOK, EmptySetAsksNothing
<1>2. QED BY <1>1, ConcurrentInvariance, PTL
=============================================================================
