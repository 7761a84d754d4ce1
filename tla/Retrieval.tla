-------------------------------- MODULE Retrieval --------------------------------
(***************************************************************************)
(* A retrieval (perimeter/pipeline/retrieve.py with index/flat.py,         *)
(* index/filtered_search.py and either store) in one thread of the server, *)
(* an ingestion in another: nothing in the code keeps them apart.          *)
(*                                                                         *)
(* A version is a document's text with its policy, and the vectors of that *)
(* text.  A list that is appended to, an array that is assigned and a      *)
(* dictionary entry that is set are steps of their own; the files of a     *)
(* flush are those of module FlatIndex and are left out.                   *)
(***************************************************************************)
EXTENDS AccessPolicy, RowOrder, Integers, Sequences, SequencesExt, FiniteSetsExt

CONSTANTS Docs, Versions, None,
          PolicyOf, Length,   \* of a version: its policy, how many chunks it has
          Callers,            \* permission sets the resolver may return
          Ks, Multiplier,     \* k, and RetrievalRequest.candidate_multiplier
          Modes,              \* see mode
          Stores,             \* "memory", "postgres"
          MaxIngested,        \* bound: documents put in a behaviour, per mode
          MaxCalls            \* bound: retrievals in a behaviour, per mode

ChunkIds == [doc : Docs, ordinal : 1..Max({Length[v] : v \in Versions})]
ChunksOf(d, v) == [i \in 1..Length[v] |-> [doc |-> d, ordinal |-> i]]

(* What add stages; what a flush has taken, and then what it has built.    *)
Staged == [vectors : Seq(Versions), ids : Seq(ChunkIds), policies : Seq(Policies)]
Taken == [stage : {"build"}, staged : Staged, removed : SUBSET Docs]
Built == [stage : {"ids", "acl"}, ids : Seq(ChunkIds), acl : Seq(Policies)]

ASSUME RetrievalAssumption ==
  /\ PolicyOf \in [Versions -> Policies] /\ Length \in [Versions -> Nat]
  /\ IsFiniteSet(Docs) /\ IsFiniteSet(Versions) /\ Versions # {}
  /\ None \notin Versions \cup Taken \cup Built \cup [text : Versions, policy : Policies]
  /\ Callers \subseteq PermissionSets
  /\ Ks \subseteq Nat \ {0} /\ Multiplier \in Nat \ {0}
  /\ Modes \subseteq {"serial", "threads", "leaky"} /\ Stores \subseteq {"memory", "postgres"}

VARIABLES
  mode,   \* "threads"; "serial": retrievals only while no document is being put or
          \* indexed; "leaky": as "threads", over an index that answers anything
  kind,   \* of store
  documents, chunks,  \* the store: versions; a chunk is a text with its policy
  listed, \* per document: _chunks_by_document of the memory store
  index,  \* codes (vectors), ids, acl (policies): one entry per row
  staged, \* vectors, ids, policies: _staged
  removed,\* _removed_prefixes
  flushing, \* per thread: what the flush it is in has taken, or built
  writer, \* the ingestion: [at, doc, version, todo]
  call,   \* the retrieval: see NoCall
  ingested, calls,  \* counters
  during  \* history: the chunks that have been in the store since the call began

rvars == <<mode, kind, documents, chunks, listed, index, staged, removed, flushing, writer, call,
           ingested, calls, during>>
storeVars == <<documents, chunks, listed, during>>
indexVars == <<index, staged, removed, flushing>>
fixed == <<mode, kind>>

Threads == {"writer", "reader"}
NoRows == [codes |-> <<>>, ids |-> <<>>, acl |-> <<>>]
NoStaged == [vectors |-> <<>>, ids |-> <<>>, policies |-> <<>>]
Idle == [at |-> "idle", doc |-> None, version |-> None, todo |-> <<>>]
NoCall ==
  [at |-> "idle", permitted |-> {}, k |-> 1,
   visible |-> None,     \* simulate: the documents it calls visible
   rows |-> {}, todo |-> <<>>, hits |-> <<>>, fetched |-> {}, shown |-> {}, result |-> {},
   asked |-> {}, scanned |-> {}]   \* history: ports called; versions scanned

Init ==
  /\ mode \in Modes /\ kind \in Stores
  /\ documents = [d \in Docs |-> None] /\ chunks = [c \in ChunkIds |-> None]
  /\ listed = [d \in Docs |-> <<>>]
  /\ index = NoRows /\ staged = NoStaged /\ removed = {}
  /\ flushing = [t \in Threads |-> None]
  /\ writer = Idle /\ call = NoCall
  /\ ingested = 0 /\ calls = 0 /\ during = {}

Stored(cs) == {[id |-> c, text |-> cs[c].text, policy |-> cs[c].policy] : c \in {b \in ChunkIds : cs[b] # None}}
Resting == writer.at \in {"idle", "embed"}

-----------------------------------------------------------------------------
(* flush, by either thread.  A list that is too short raises IndexError.   *)
Settled == staged.ids = <<>> /\ removed = {}

FlushTake(t) ==
  /\ flushing' = [flushing EXCEPT ![t] = [stage |-> "build", staged |-> staged, removed |-> removed]]
  /\ staged' = NoStaged
  /\ removed' = {}
  /\ UNCHANGED index

AllIds(s) == index.ids \o s.ids
OldRow(i) == i <= Len(index.ids)
Kept(f) ==
  InOrder({i \in DOMAIN AllIds(f.staged) :
             /\ \A j \in DOMAIN AllIds(f.staged) : j > i => AllIds(f.staged)[j] # AllIds(f.staged)[i]
             /\ ~(OldRow(i) /\ AllIds(f.staged)[i].doc \in f.removed)})

Rebuilt(f, old, new) ==
  [n \in DOMAIN Kept(f) |-> LET i == Kept(f)[n] IN
     IF OldRow(i) THEN old[i] ELSE new[i - Len(index.ids)]]
Buildable(f) ==
  \A n \in DOMAIN Kept(f) : LET i == Kept(f)[n] IN
    IF OldRow(i) THEN i <= Len(index.codes) /\ i <= Len(index.acl)
    ELSE i - Len(index.ids) <= Len(f.staged.vectors) /\ i - Len(index.ids) <= Len(f.staged.policies)

(* All arrays are computed from the old ones; the codes are assigned.  The *)
(* codes stand for _binary and _int8, which the code reads and assigns one *)
(* after the other, behind the ids it has read: with two flushes at once   *)
(* (mode "threads") they can come apart in more ways than here.  Nothing   *)
(* is claimed of an index in that mode but how long its lists get.         *)
FlushBuild(t) ==
  LET f == flushing[t] IN
  /\ f # None /\ f.stage = "build" /\ Buildable(f)
  /\ flushing' = [flushing EXCEPT ![t] =
       [stage |-> "ids",
        ids |-> [n \in DOMAIN Kept(f) |-> AllIds(f.staged)[Kept(f)[n]]],
        acl |-> Rebuilt(f, index.acl, f.staged.policies)]]
  /\ index' = [index EXCEPT !.codes = Rebuilt(f, @, f.staged.vectors)]
  /\ UNCHANGED <<staged, removed>>

FlushIds(t) ==
  LET f == flushing[t] IN
  /\ f # None /\ f.stage = "ids"
  /\ index' = [index EXCEPT !.ids = f.ids]
  /\ flushing' = [flushing EXCEPT ![t].stage = "acl"]
  /\ UNCHANGED <<staged, removed>>

FlushAcl(t) ==
  LET f == flushing[t] IN
  /\ f # None /\ f.stage = "acl"
  /\ index' = [index EXCEPT !.acl = f.acl]
  /\ flushing' = [flushing EXCEPT ![t] = None]
  /\ UNCHANGED <<staged, removed>>

FlushStep(t) == FlushBuild(t) \/ FlushIds(t) \/ FlushAcl(t)
FlushRaises(t) ==
  /\ flushing[t] # None /\ flushing[t].stage = "build" /\ ~Buildable(flushing[t])
  /\ flushing' = [flushing EXCEPT ![t] = None]
  /\ UNCHANGED <<index, staged, removed>>

-----------------------------------------------------------------------------
(* The ingestion: the steps of Ingestor.ingest for one document after the  *)
(* other (module Ingestion has the batches and what else may fail).        *)
WriterMay == flushing["writer"] = None /\ (mode = "serial" => call.at = "idle")
At(place) == WriterMay /\ writer.at = place
Goto(place) == writer' = [writer EXCEPT !.at = place]
NoteStored == during' = IF call.at = "idle" THEN {} ELSE during \cup Stored(chunks')
AsIfWriter == UNCHANGED <<fixed, call, calls>>

(* The fingerprint that the store has is of another version, or there is   *)
(* none.                                                                   *)
NewDocument ==
  /\ At("idle") /\ ingested < MaxIngested[mode]
  /\ \E d \in Docs : \E v \in Versions \ {documents[d]} :
       writer' = [at |-> "put", doc |-> d, version |-> v, todo |-> <<>>]
  /\ ingested' = ingested + 1
  /\ UNCHANGED <<storeVars, indexVars>> /\ AsIfWriter

(* Mutant of ChunkOf: what is denied is not written to the chunk. *)
ChunkOf_NoDenies(v) == [text |-> v, policy |-> [PolicyOf[v] EXCEPT !.denies = {}]]

ChunkOf(v) == [text |-> v, policy |-> PolicyOf[v]]
NewChunks == [i \in DOMAIN ChunksOf(writer.doc, writer.version) |-> ChunksOf(writer.doc, writer.version)[i]]

(* delete, also for put.  The memory store takes the list of what the      *)
(* document has, and deletes that one by one; Postgres runs one statement. *)
WithoutDoc(cs, d) == [c \in ChunkIds |-> IF c.doc = d THEN None ELSE cs[c]]

Delete(deleting, deleted) ==
  \/ /\ kind = "memory"
     /\ writer' = [writer EXCEPT !.at = deleting, !.todo = listed[writer.doc]]
     /\ listed' = [listed EXCEPT ![writer.doc] = <<>>]
     /\ UNCHANGED <<documents, chunks, during>>
  \/ /\ kind = "postgres"
     /\ documents' = [documents EXCEPT ![writer.doc] = None]
     /\ chunks' = WithoutDoc(chunks, writer.doc)
     /\ NoteStored /\ Goto(deleted)
     /\ UNCHANGED listed

Put ==
  /\ At("put") /\ Delete("delete", "document")
  /\ UNCHANGED <<indexVars, ingested>> /\ AsIfWriter

PutDelete ==
  /\ At("delete") \/ At("drop")
  /\ IF writer.todo # <<>>
     THEN /\ chunks' = [chunks EXCEPT ![Head(writer.todo)] = None]
          /\ writer' = [writer EXCEPT !.todo = Tail(@)]
          /\ UNCHANGED documents
     ELSE /\ documents' = [documents EXCEPT ![writer.doc] = None]
          /\ Goto(IF writer.at = "delete" THEN "document" ELSE "flush")
          /\ UNCHANGED chunks
  /\ NoteStored
  /\ UNCHANGED <<listed, indexVars, ingested>> /\ AsIfWriter

PutDocument ==
  /\ At("document")
  /\ documents' = [documents EXCEPT ![writer.doc] = writer.version]
  /\ writer' = [writer EXCEPT !.at = "chunks", !.todo = NewChunks]
  /\ UNCHANGED <<chunks, listed, during, indexVars, ingested>> /\ AsIfWriter

(* Mutant of PutChunk: the chunks are not listed. *)
PutChunk_Unlisted ==
  /\ At("chunks") /\ kind = "memory"
  /\ IF writer.todo = <<>> THEN Goto("remove") /\ UNCHANGED chunks
     ELSE /\ chunks' = [chunks EXCEPT ![Head(writer.todo)] = ChunkOf(writer.version)]
          /\ writer' = [writer EXCEPT !.todo = Tail(@)]
  /\ NoteStored
  /\ UNCHANGED <<documents, listed, indexVars, ingested>> /\ AsIfWriter

(* The memory store sets one at a time and then the list; Postgres inserts *)
(* them at once.  The threads share its one connection, so a transaction   *)
(* is not for the ingestion alone, and when the retrieval's ends in the    *)
(* wrong order put raises: that is the end of the ingestion.               *)
PutChunk ==
  /\ At("chunks")
  /\ \/ /\ kind = "memory" /\ writer.todo # <<>>
        /\ chunks' = [chunks EXCEPT ![Head(writer.todo)] = ChunkOf(writer.version)]
        /\ writer' = [writer EXCEPT !.todo = Tail(@)]
        /\ UNCHANGED listed
     \/ /\ kind = "memory" /\ writer.todo = <<>>
        /\ listed' = [listed EXCEPT ![writer.doc] = NewChunks]
        /\ Goto("remove")
        /\ UNCHANGED chunks
     \/ /\ kind = "postgres"
        /\ chunks' = [c \in ChunkIds |-> IF c \in ToSet(NewChunks) THEN ChunkOf(writer.version) ELSE chunks[c]]
        /\ \E place \in {"remove"} \cup IF mode = "serial" THEN {} ELSE {"flush"} : Goto(place)
        /\ UNCHANGED listed
  /\ NoteStored
  /\ UNCHANGED <<documents, indexVars, ingested>> /\ AsIfWriter

remove_document ==
  /\ At("remove")
  /\ removed' = removed \cup {writer.doc}
  /\ Goto(IF NewChunks = <<>> THEN "flush" ELSE "embed")
  /\ UNCHANGED <<storeVars, index, staged, flushing, ingested>> /\ AsIfWriter

(* The embedder answers, or raises: then the document is deleted.          *)
Embed ==
  /\ At("embed")
  /\ \/ writer' = [writer EXCEPT !.at = "vectors", !.todo = NewChunks] /\ UNCHANGED storeVars
     \/ Delete("drop", "flush")
  /\ UNCHANGED <<indexVars, ingested>> /\ AsIfWriter

(* FlatIndex.add: three lists, one after the other. *)
AddTo(list, value, next) ==
  /\ staged' = [staged EXCEPT ![list] = Append(@, value)]
  /\ writer' = next
  /\ UNCHANGED <<storeVars, index, removed, flushing, ingested>> /\ AsIfWriter

add ==
  LET more == [writer EXCEPT !.at = IF Len(writer.todo) = 1 THEN "flush" ELSE "vectors", !.todo = Tail(@)] IN
  \/ At("vectors") /\ AddTo("vectors", writer.version, [writer EXCEPT !.at = "ids"])
  \/ At("ids") /\ AddTo("ids", Head(writer.todo), [writer EXCEPT !.at = "policies"])
  \/ At("policies") /\ AddTo("policies", PolicyOf[writer.version], more)

WriterFlush ==
  /\ At("flush")
  /\ FlushTake("writer")
  /\ writer' = Idle
  /\ UNCHANGED <<storeVars, ingested>> /\ AsIfWriter

WriterFlushes ==
  /\ FlushStep("writer") \/ FlushRaises("writer")
  /\ UNCHANGED <<storeVars, writer, ingested>> /\ AsIfWriter

WriterStep ==
  \/ NewDocument \/ Put \/ PutDelete \/ PutDocument \/ PutChunk \/ remove_document
  \/ Embed \/ add \/ WriterFlush \/ WriterFlushes

-----------------------------------------------------------------------------
(* The retrieval, for the MCP tool or for the simulator.                   *)
Asks(place) ==
  /\ call.at = place /\ flushing["reader"] = None
  /\ UNCHANGED <<fixed, documents, chunks, listed, writer, ingested>>
AsIfReader == UNCHANGED <<indexVars, calls, during>>
S == call.permitted

(* Mutant of Begin: what could not be resolved is not a permission set.    *)
Begin_NoPermissions ==
  /\ Asks("idle") /\ calls < MaxCalls[mode]
  /\ mode = "serial" => Resting /\ flushing["writer"] = None
  /\ \E P \in Callers, n \in Ks, place \in {"catalog", "embed"} :
       call' = [NoCall EXCEPT !.at = place, !.permitted = IF P = {} THEN None ELSE P, !.k = n]
  /\ calls' = calls + 1
  /\ during' = Stored(chunks)
  /\ UNCHANGED indexVars

(* A permission set that could not be resolved is empty (permissions_for). *)
Begin ==
  /\ Asks("idle") /\ calls < MaxCalls[mode]
  /\ mode = "serial" => Resting /\ flushing["writer"] = None
  /\ \E P \in Callers, n \in Ks, place \in {"catalog", "embed"} :
       call' = [NoCall EXCEPT !.at = place, !.permitted = P, !.k = n]
  /\ calls' = calls + 1
  /\ during' = Stored(chunks)
  /\ UNCHANGED indexVars

simulate ==
  /\ Asks("catalog")
  /\ \/ call' = [call EXCEPT !.at = "embed",
          !.visible = {d \in Docs : documents[d] # None /\ explain(PolicyOf[documents[d]], S).admitted}]
     \/ kind = "postgres" /\ call' = [call EXCEPT !.at = "failed"]
  /\ AsIfReader

(* Mutant of EmbedQuery: the query is embedded first. *)
EmbedQuery_First ==
  /\ Asks("embed")
  /\ \/ call' = [call EXCEPT !.at = IF S = {} THEN "done" ELSE "search", !.asked = @ \cup {"embedder"}]
     \/ call' = [call EXCEPT !.at = "failed", !.asked = @ \cup {"embedder"}]
  /\ AsIfReader

EmbedQuery ==
  /\ Asks("embed")
  /\ \/ S = {} /\ call' = [call EXCEPT !.at = "done"]
     \/ /\ S # {}
        /\ \E place \in {"search", "failed"} : call' = [call EXCEPT !.at = place, !.asked = @ \cup {"embedder"}]
  /\ AsIfReader

(* _flush_if_staged, in search, in scan_rows and for every chunk_id_at.    *)
After == [search |-> "rows", scan |-> "scanning", translate |-> "translating"]

(* Mutant of FlushIfStaged: for the removals alone nothing is flushed. *)
FlushIfStaged_OnlyNew ==
  /\ Asks("search") \/ Asks("scan") \/ Asks("translate")
  /\ mode # "leaky"
  /\ IF staged.ids = <<>> THEN UNCHANGED indexVars ELSE FlushTake("reader")
  /\ call' = [call EXCEPT !.at = After[call.at], !.asked = @ \cup {"index"}]
  /\ UNCHANGED <<calls, during>>

FlushIfStaged ==
  /\ Asks("search") \/ Asks("scan") \/ Asks("translate")
  /\ mode # "leaky"
  /\ IF Settled THEN UNCHANGED indexVars ELSE FlushTake("reader")
  /\ call' = [call EXCEPT !.at = After[call.at], !.asked = @ \cup {"index"}]
  /\ UNCHANGED <<calls, during>>

candidate_k == call.k * Multiplier

(* LeakyIndex of tests/pipeline/fakes.py, and every other index. *)
SearchLeaky ==
  /\ Asks("search") /\ mode = "leaky"
  /\ \E H \in SUBSET ChunkIds :
       /\ Cardinality(H) <= candidate_k
       /\ call' = [call EXCEPT !.at = IF H = {} THEN "done" ELSE "fetch", !.hits = SetToSeq(H),
                               !.asked = @ \cup {"index"}]
  /\ AsIfReader

(* Module AclTable has the table that permitted_rows reads. *)
PermittedRows == {r \in DOMAIN index.acl : admits(index.acl[r], S)}

(* Mutant of Rows: when the permitted rows are too few, all are scanned. *)
Rows_FillsUp ==
  /\ Asks("rows")
  /\ LET few == Cardinality(PermittedRows) < candidate_k IN
     IF index.ids = <<>> \/ PermittedRows = {} THEN call' = [call EXCEPT !.at = "done"]
     ELSE call' = [call EXCEPT !.at = "scan", !.rows = IF few THEN DOMAIN index.acl ELSE PermittedRows]
  /\ AsIfReader

Rows ==
  /\ Asks("rows")
  /\ IF index.ids = <<>> \/ PermittedRows = {} THEN call' = [call EXCEPT !.at = "done"]
     ELSE call' = [call EXCEPT !.at = "scan", !.rows = PermittedRows]
  /\ AsIfReader

(* scan_rows: module FlatIndex says which rows; here any may be the best.  *)
Scan ==
  /\ Asks("scanning")
  /\ IF \E r \in call.rows : r > Len(index.codes) THEN call' = [call EXCEPT !.at = "failed"]
     ELSE \E T \in kSubset(Min({Cardinality(call.rows), candidate_k}), call.rows) :
            call' = [call EXCEPT !.at = "translate", !.todo = SetToSeq(T),
                                 !.scanned = {index.codes[r] : r \in call.rows}]
  /\ AsIfReader

chunk_id_at ==
  /\ Asks("translating")
  /\ IF Head(call.todo) > Len(index.ids) THEN call' = [call EXCEPT !.at = "failed"]
     ELSE call' = [call EXCEPT !.at = IF Len(call.todo) = 1 THEN "fetch" ELSE "translate",
                               !.hits = Append(@, index.ids[Head(call.todo)]), !.todo = Tail(@)]
  /\ AsIfReader

(* get_chunks: the memory store looks one up at a time, Postgres answers   *)
(* or raises at once.                                                      *)
Readable(ids) == {x \in Stored(chunks) : x.id \in ids /\ admits(x.policy, S)}

get_chunks ==
  /\ Asks("fetch")
  /\ \/ /\ kind = "memory"
        /\ call' = [call EXCEPT !.at = IF Len(call.hits) = 1 THEN "check" ELSE "fetch",
                    !.fetched = @ \cup Readable({Head(call.hits)}), !.hits = Tail(@), !.asked = @ \cup {"store"}]
     \/ /\ kind = "postgres"
        /\ \/ call' = [call EXCEPT !.at = "check", !.fetched = Readable(ToSet(call.hits)), !.asked = @ \cup {"store"}]
           \/ call' = [call EXCEPT !.at = "failed", !.asked = @ \cup {"store"}]
  /\ AsIfReader

(* The third check; what passes it is shown to the reranker.               *)
Recheck ==
  /\ Asks("check")
  /\ LET passed == {x \in call.fetched : admits(x.policy, S)} IN
     call' = [call EXCEPT !.at = IF passed = {} THEN "done" ELSE "rank", !.shown = passed]
  /\ AsIfReader

(* The reranker is an external service: it is taken to give as many of the *)
(* chunks as it is asked for, each once, in any order, or to fail.         *)
Rank ==
  /\ Asks("rank")
  /\ \/ \E R \in kSubset(Min({call.k, Cardinality(call.shown)}), call.shown) :
          call' = [call EXCEPT !.at = "done", !.result = R, !.asked = @ \cup {"reranker"}]
     \/ call' = [call EXCEPT !.at = "failed", !.asked = @ \cup {"reranker"}]
  /\ AsIfReader

Answered ==
  /\ Asks("done") \/ Asks("failed")
  /\ call' = NoCall
  /\ during' = {}
  /\ UNCHANGED <<indexVars, calls>>

(* An error in a flush is the error of the call that made it. *)
ReaderFlushes ==
  /\ \/ FlushStep("reader") /\ UNCHANGED call
     \/ FlushRaises("reader") /\ call' = [call EXCEPT !.at = "failed"]
  /\ UNCHANGED <<fixed, storeVars, writer, ingested, calls>>

ReaderStep ==
  \/ Begin \/ simulate \/ EmbedQuery \/ FlushIfStaged \/ SearchLeaky \/ Rows \/ Scan \/ chunk_id_at
  \/ get_chunks \/ Recheck \/ Rank \/ Answered \/ ReaderFlushes

Next == WriterStep \/ ReaderStep
Spec == Init /\ [][Next]_rvars

-----------------------------------------------------------------------------
Chunk == [id : ChunkIds, text : Versions, policy : Policies]

TypeOK ==
  /\ documents \in [Docs -> Versions \cup {None}] /\ listed \in [Docs -> Seq(ChunkIds)]
  /\ \A t \in {"codes", "ids", "acl"} : DOMAIN index[t] \subseteq 1..Cardinality(ChunkIds)
  /\ removed \subseteq Docs
  /\ call.permitted \in Callers \cup {{}}
  /\ \A s \in {call.fetched, call.shown, call.result, during} : s \subseteq Chunk

(* Unless one is being put or deleted, the store has each document whole:  *)
(* all the chunks of its version, under its policy, and none of another.   *)
StoreIsWhole ==
  writer.at \notin {"delete", "drop", "document", "chunks"} =>
    \A c \in ChunkIds :
      LET v == documents[c.doc] IN
      chunks[c] = IF v # None /\ c.ordinal <= Length[v] THEN ChunkOf(v) ELSE None

(* What the caller may read of a document, from its source's policy.       *)
MayRead(v) == PolicyOf[v].grants \cap S # {} /\ PolicyOf[v].denies \cap S = {}

(* INV-1 and the second half of INV-2: whatever an ingestion does          *)
(* meanwhile and whatever the index answers, each text that reaches the    *)
(* reranker or the caller was in the store during the call, under a policy *)
(* that lets the caller read that very text.                               *)
TextWasReadable ==
  /\ call.result \subseteq call.shown
  /\ \A x \in call.shown : x \in during /\ MayRead(x.text)

(* INV-4: for a caller with an empty permission set, be it that it could   *)
(* not be resolved, nothing is embedded, scanned, read or reranked.        *)
EmptySetAsksNothing == S = {} => call.asked = {} /\ call.result = {}

(* INV-2: the vectors of a document that the caller may not read are not   *)
(* compared with the query.                                                *)
ScansPermittedRows == \A v \in call.scanned : MayRead(v)

(* "returned may be less than k when the caller's permitted set is small;  *)
(* that is the honest answer, not a filtering artefact" (mcp.py:26-27): a  *)
(* retrieval beside no step of an ingestion returns k chunks, or every one *)
(* that is stored, that the caller may read and that does not wait to be   *)
(* embedded.                                                               *)
Waits(d) == writer.at = "embed" /\ writer.doc = d

HonestAnswer ==
  mode = "serial" /\ call.at = "done" =>
    \/ Cardinality(call.result) = call.k
    \/ {x \in Stored(chunks) : MayRead(x.text) /\ ~Waits(x.id.doc)} \subseteq call.result

(* The two halves of a simulation agree: there are no passages of a        *)
(* document that it lists as not visible to the principal, and when there  *)
(* are fewer than k, there are some of each document listed as visible     *)
(* that has any and does not wait to be embedded.                          *)
SimulationAgrees ==
  mode = "serial" /\ call.visible # None /\ call.at = "done" =>
    LET quoted == {x.id.doc : x \in call.result} IN
    /\ quoted \subseteq call.visible
    /\ Cardinality(call.result) < call.k =>
         \A d \in call.visible : Length[documents[d]] > 0 /\ ~Waits(d) => d \in quoted
=============================================================================
