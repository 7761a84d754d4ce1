------------------------------- MODULE Ingestion -------------------------------
(***************************************************************************)
(* Ingestor.ingest (perimeter/pipeline/ingest.py) with the document store  *)
(* and the flat index it writes, run after run: over HTTP                  *)
(* (server/connectors.py, which flushes the index whatever happens) or     *)
(* from the command line (server/cli.py, which flushes after a success     *)
(* and exits).  Any call that can fail may fail, and the process may stop  *)
(* between two steps.                                                      *)
(*                                                                         *)
(* A version stands for a text with its policy, so an index row that has   *)
(* the version of the store has its vector and its policy.  Of the rows    *)
(* staged for one chunk id only the last counts (flush keeps the last      *)
(* position), so staged maps chunk ids to versions; rows are unique per    *)
(* id.  A flush, at the end of a run or when a search meets staged rows,   *)
(* changes the rows in memory, which searches see, and then writes them;   *)
(* an error while it writes leaves the disk behind, and that is what the   *)
(* next process reads.  The files one by one are FlatIndex's subject.      *)
(***************************************************************************)
EXTENDS Integers, Sequences, FiniteSets

CONSTANTS
  Docs,         \* document ids
  Malformed,    \* those parse_document_id refuses (too long, for one)
  Versions,     \* what a document may be: its text and its policy
  Revisions,    \* Revisions[d]: what d may be at its source
  None,         \* no version
  MaxSpans,     \* the most chunks a version has
  SpanCount,    \* SpanCount[v]: into how many chunks v is split
  Fingerprint,  \* Fingerprint[v]: of its text and policy
  AsNobody,     \* AsNobody[v]: v's text under AccessPolicy.nobody()
  EmbedBatch,   \* embed_batch
  Sites,        \* deployments: over HTTP or not, with a store that
                \* outlives the process (Postgres) or not
  Faults,       \* what may go wrong
  MaxUpsets     \* bound: faults and source changes in a behaviour

ASSUME IngestionAssumption ==
  /\ Malformed \subseteq Docs
  /\ None \notin Versions
  /\ Revisions \in [Docs -> SUBSET Versions]
  /\ MaxSpans \in Nat
  /\ SpanCount \in [Versions -> 0..MaxSpans]
  /\ DOMAIN Fingerprint = Versions
  /\ AsNobody \in [Versions -> Versions]
  /\ EmbedBatch \in Nat \ {0}
  /\ Sites \subseteq [entry : {"server", "cli"}, durable : BOOLEAN]
  /\ Faults \subseteq {"acl", "fetch", "repeat", "source", "put", "embed", "delete",
                "flush", "crash"}
  /\ MaxUpsets \in Nat

VARIABLES
  site,     \* the deployment, the same throughout
  source,   \* source[d]: the version a connector would read now, if any
  store,    \* store[d]: the version in the document store
  rows,     \* rows[c]: the version the flushed index row of chunk c is of
  disk,     \* disk[c]: the same in the files the next process reads
  staged,   \* staged[c]: the same of the last staged row
  removed,  \* documents whose rows the next flush drops
  pc,       \* where the run is
  todo,     \* documents the connector has yet to enumerate
  pending,  \* chunks waiting to be embedded, a list
  affected, \* pending_docs, a list
  failed,   \* whether the run raised
  taken,    \* history: the version of d the ingestor last accepted
  mishaps,  \* history: the failures that the code does not make good
  upsets    \* counts faults and source changes

runVars == <<pc, todo, pending, affected, failed>>
indexVars == <<rows, disk, staged, removed>>
vars == <<site, source, store, indexVars, runVars, taken, mishaps, upsets>>

(* Mutant of Chunks: a blank rest of the text makes a chunk of its own. *)
Chunks_Trailing(d, v) == [i \in 1..(SpanCount[v] + 1) |-> [id |-> <<d, i>>, version |-> v]]

Chunks(d, v) == [i \in 1..SpanCount[v] |-> [id |-> <<d, i>>, version |-> v]]
ChunkIds == Docs \X (1..MaxSpans)

Sources == {s \in [Docs -> Versions \cup {None}] :
              \A d \in Docs : s[d] \in Revisions[d] \cup {None}}

NoRows == [c \in ChunkIds |-> None]

Init ==
  /\ site \in Sites
  /\ source \in Sources
  /\ store = [d \in Docs |-> None]
  /\ rows = NoRows
  /\ disk = NoRows
  /\ staged = NoRows
  /\ removed = {}
  /\ pc = "idle"
  /\ todo = {}
  /\ pending = <<>>
  /\ affected = <<>>
  /\ failed = FALSE
  /\ taken = [d \in Docs |-> None]
  /\ mishaps = {}
  /\ upsets = 0

Upset(fault) ==
  /\ fault \in Faults
  /\ upsets < MaxUpsets
  /\ upsets' = upsets + 1

-----------------------------------------------------------------------------
(* The index. *)

Listed(list, c) == \E i \in DOMAIN list : list[i].id = c

(* The last entry of a list for chunk id c. *)
LastOf(list, c) ==
  list[CHOOSE i \in DOMAIN list :
         list[i].id = c /\ \A j \in DOMAIN list : j > i => list[j].id # c]

add(list) ==
  staged' = [c \in ChunkIds |-> IF Listed(list, c) THEN LastOf(list, c).version ELSE staged[c]]

(* What flush makes of the rows: a staged row replaces, a removed document *)
(* loses the rows it had.                                                  *)

(* Mutant of Flushed: the rows there first win. *)
Flushed_KeepsFirst(st, rm, old) ==
  [c \in ChunkIds |-> IF old[c] # None THEN old[c] ELSE st[c]]

Flushed(st, rm, old) ==
  [c \in ChunkIds |-> IF st[c] # None THEN st[c]
                      ELSE IF c[1] \in rm THEN None ELSE old[c]]

-----------------------------------------------------------------------------
(* One run.  The connector enumerates every document, reads its policy and *)
(* its text; a policy that cannot be read is nobody, a text that cannot be *)
(* read skips the document.                                                *)

Start ==
  /\ pc = "idle"
  /\ pc' = "next"
  /\ todo' = {d \in Docs : source[d] # None}
  /\ pending' = <<>>
  /\ affected' = <<>>
  /\ failed' = FALSE
  /\ UNCHANGED <<site, source, store, indexVars, taken, mishaps, upsets>>

(* documents_from yields d as version v. *)
Offered(d, v) ==
  /\ pc = "next"
  /\ d \in todo \ Malformed
  /\ source[d] # None
  /\ todo' = todo \ {d}
  /\ \/ v = source[d] /\ UNCHANGED upsets
     \/ v = AsNobody[source[d]] /\ Upset("acl")

(* fetch fails, or d has left the source since it was listed. *)
Unreadable(d) ==
  /\ pc = "next"
  /\ d \in todo
  /\ \/ source[d] = None /\ UNCHANGED upsets
     \/ source[d] # None /\ Upset("fetch")
  /\ todo' = todo \ {d}
  /\ UNCHANGED <<site, source, store, indexVars, pc, pending, affected, failed, taken, mishaps>>

(* A listing read page by page names a document twice. *)
Repeated(d) ==
  /\ pc = "next"
  /\ d \notin todo
  /\ source[d] # None
  /\ Upset("repeat")
  /\ todo' = todo \cup {d}
  /\ UNCHANGED <<site, source, store, indexVars, pc, pending, affected, failed, taken, mishaps>>

(* Mutant of Unchanged: the policy is not part of the fingerprint. *)
Unchanged_TextOnly(d, v) == store[d] # None /\ AsNobody[store[d]] = AsNobody[v]

Unchanged(d, v) == store[d] # None /\ Fingerprint[store[d]] = Fingerprint[v]

Skip(d, v) ==
  /\ Offered(d, v)
  /\ Unchanged(d, v)
  /\ taken' = [taken EXCEPT ![d] = v]
  /\ UNCHANGED <<site, source, store, indexVars, pc, pending, affected, failed, mishaps>>

(* A removal touches neither what is staged nor what is pending: a second   *)
(* put of d before the flush leaves rows of the first one's chunks.        *)
PutTwice(d) ==
  mishaps' = IF \/ \E c \in ChunkIds : c[1] = d /\ staged[c] # None
                \/ \E i \in DOMAIN pending : pending[i].id[1] = d
             THEN mishaps \cup {"twice"} ELSE mishaps

(* Mutant of Put: the earlier rows are left in the index. *)
Put_KeepsRows(d, v) ==
  /\ Offered(d, v)
  /\ ~Unchanged(d, v)
  /\ store' = [store EXCEPT ![d] = v]
  /\ pending' = pending \o Chunks(d, v)
  /\ affected' = Append(affected, d)
  /\ pc' = IF Len(pending') >= EmbedBatch THEN "embed" ELSE "next"
  /\ taken' = [taken EXCEPT ![d] = v]
  /\ PutTwice(d)
  /\ UNCHANGED <<site, source, indexVars, failed>>

Put(d, v) ==
  /\ Offered(d, v)
  /\ ~Unchanged(d, v)
  /\ store' = [store EXCEPT ![d] = v]
  /\ removed' = removed \cup {d}
  /\ pending' = pending \o Chunks(d, v)
  /\ affected' = Append(affected, d)
  /\ pc' = IF Len(pending') >= EmbedBatch THEN "embed" ELSE "next"
  /\ taken' = [taken EXCEPT ![d] = v]
  /\ PutTwice(d)
  /\ UNCHANGED <<site, source, rows, disk, staged, failed>>

Finally(raised) == pc' = "finally" /\ failed' = (failed \/ raised)

(* InvalidDocumentError from to_document: it ends the run. *)
Refused(d) ==
  /\ pc = "next"
  /\ d \in todo \cap Malformed
  /\ source[d] # None
  /\ Finally(TRUE)
  /\ UNCHANGED <<site, source, store, indexVars, todo, pending, affected, taken, mishaps, upsets>>

(* StoreError, from fingerprint or from put, whose transaction is rolled   *)
(* back.                                                                   *)
PutFails(d) ==
  /\ pc = "next"
  /\ d \in todo \ Malformed
  /\ source[d] # None
  /\ site.durable
  /\ Upset("put")
  /\ Finally(TRUE)
  /\ UNCHANGED <<site, source, store, indexVars, todo, pending, affected, taken, mishaps>>

(* The connector raises part-way. *)
SourceFails ==
  /\ pc = "next"
  /\ Upset("source")
  /\ Finally(TRUE)
  /\ UNCHANGED <<site, source, store, indexVars, todo, pending, affected, taken, mishaps>>

Exhausted ==
  /\ pc = "next"
  /\ todo = {}
  /\ Finally(FALSE)
  /\ UNCHANGED <<site, source, store, indexVars, todo, pending, affected, taken, mishaps, upsets>>

(* _embed_and_index, from the loop or from the finally clause. *)
Embedding == pc \in {"embed", "finally"} /\ pending # <<>>

EmbedAndIndex ==
  /\ Embedding
  /\ add(pending)
  /\ pending' = <<>>
  /\ affected' = <<>>
  /\ pc' = IF pc = "embed" THEN "next" ELSE "end"
  /\ UNCHANGED <<site, source, store, rows, disk, removed, todo, failed, taken, mishaps, upsets>>

Removed(docs) == [d \in Docs |-> IF d \in docs THEN None ELSE store[d]]

(* The first k of the affected documents. *)
Affected(k) == {affected[i] : i \in 1..k}

(* An error in the loop leads to the finally clause with the same pending  *)
(* chunks, which are then embedded again.                                  *)
EmbeddingRaises ==
  /\ failed' = TRUE
  /\ pc' = IF pc = "embed" THEN "finally" ELSE "end"
  /\ UNCHANGED <<site, source, indexVars, todo, pending, affected, taken>>

(* Mutant of EmbedFails: the affected documents stay in the store. *)
EmbedFails_KeepsStored ==
  /\ Embedding
  /\ Upset("embed")
  /\ EmbeddingRaises
  /\ mishaps' = IF pc = "embed" THEN mishaps \cup {"embed"} ELSE mishaps
  /\ UNCHANGED store

(* EmbeddingError: the affected documents leave the store. *)
EmbedFails ==
  /\ Embedding
  /\ Upset("embed")
  /\ store' = Removed(Affected(Len(affected)))
  /\ mishaps' = IF pc = "embed" THEN mishaps \cup {"embed"} ELSE mishaps
  /\ EmbeddingRaises

(* ... and the store fails while they are being removed. *)
DeleteFails ==
  /\ Embedding
  /\ site.durable
  /\ Upset("delete")
  /\ \E k \in 1..Len(affected) : store' = Removed(Affected(k - 1))
  /\ mishaps' = mishaps \cup {"delete"}
  /\ EmbeddingRaises

NothingPending ==
  /\ pc = "finally"
  /\ pending = <<>>
  /\ pc' = "end"
  /\ UNCHANGED <<site, source, store, indexVars, todo, pending, affected, failed, taken, mishaps, upsets>>

(* _write_all replaces one file after the other and may raise: the disk    *)
(* has the earlier rows, or the new ones if all were replaced, or a mix    *)
(* that open refuses, for somebody to delete (the mix that it accepts is   *)
(* FlatIndex's).  Nothing is staged any more: no search writes again.      *)
WriteFails(new) == Upset("flush") /\ disk' \in {disk, new, NoRows}

write_all(new) ==
  \/ disk' = new /\ UNCHANGED upsets
  \/ WriteFails(new)

Flush ==
  /\ rows' = Flushed(staged, removed, rows)
  /\ staged' = NoRows
  /\ removed' = {}
  /\ write_all(rows')

RunOver ==
  /\ pc' = "idle"
  /\ todo' = {}
  /\ pending' = <<>>
  /\ affected' = <<>>
  /\ failed' = FALSE

(* The process ends; only what is written, and a durable store, stays. *)
ProcessOver ==
  /\ rows' = disk'
  /\ store' = IF site.durable THEN store ELSE [d \in Docs |-> None]
  /\ staged' = NoRows
  /\ removed' = {}
  /\ RunOver

(* ConnectorRegistry.ingest: flush in a finally clause, whose error ends   *)
(* the request.                                                            *)
ServerDone ==
  /\ pc = "end"
  /\ site.entry = "server"
  /\ Flush
  /\ RunOver
  /\ UNCHANGED <<site, source, store, taken, mishaps>>

Cut == mishaps' = mishaps \cup {"cut"}

(* _ingest of the command line: an error ends the process before the       *)
(* flush; the process ends in either case.                                 *)
CliDone ==
  /\ pc = "end"
  /\ site.entry = "cli"
  /\ LET new == Flushed(staged, removed, rows) IN
        \/ failed /\ Cut /\ UNCHANGED <<disk, upsets>>
        \/ /\ ~failed
           /\ write_all(new)
           /\ IF disk' = new THEN UNCHANGED mishaps ELSE Cut
  /\ ProcessOver
  /\ UNCHANGED <<site, source, taken>>

(* A search flushes what is staged before it scans. *)
SearchFlushes ==
  /\ site.entry = "server"
  /\ staged # NoRows \/ removed # {}
  /\ Flush
  /\ UNCHANGED <<site, source, store, runVars, taken, mishaps>>

(* The process stops and is started again. *)
Crash ==
  /\ Upset("crash")
  /\ IF pc = "idle" /\ disk = rows THEN UNCHANGED mishaps ELSE Cut
  /\ UNCHANGED <<site, source, disk, taken>>
  /\ ProcessOver

(* A document, or its policy, is edited at the source; it appears there or *)
(* leaves it.                                                              *)
Edit(d, v) ==
  /\ v # source[d]
  /\ upsets < MaxUpsets
  /\ upsets' = upsets + 1
  /\ source' = [source EXCEPT ![d] = v]
  /\ UNCHANGED <<site, store, indexVars, runVars, taken, mishaps>>

RunStep ==
  \/ Start \/ SourceFails \/ Exhausted
  \/ \E d \in Docs :
        \/ Unreadable(d) \/ Repeated(d) \/ Refused(d) \/ PutFails(d)
        \/ \E v \in Versions : Skip(d, v) \/ Put(d, v)
  \/ EmbedAndIndex \/ EmbedFails \/ DeleteFails \/ NothingPending
  \/ ServerDone \/ CliDone

Next ==
  \/ RunStep
  \/ SearchFlushes
  \/ Crash
  \/ \E d \in Docs : \E v \in Revisions[d] \cup {None} : Edit(d, v)

Spec == Init /\ [][Next]_vars

(* A run keeps running, and someone keeps ingesting: the retry that the    *)
(* code prepares for is eventually made.                                   *)
FairSpec == Spec /\ WF_vars(RunStep)

-----------------------------------------------------------------------------
TypeOK ==
  /\ site \in Sites
  /\ source \in Sources
  /\ store \in [Docs -> Versions \cup {None}]
  /\ rows \in [ChunkIds -> Versions \cup {None}]
  /\ disk \in [ChunkIds -> Versions \cup {None}]
  /\ staged \in [ChunkIds -> Versions \cup {None}]
  /\ removed \subseteq Docs
  /\ pc \in {"idle", "next", "embed", "finally", "end"}
  /\ todo \subseteq Docs
  /\ pending \in Seq([id : ChunkIds, version : Versions])
  /\ affected \in Seq(Docs)
  /\ failed \in BOOLEAN
  /\ taken \in [Docs -> Versions \cup {None}]
  /\ mishaps \subseteq {"twice", "embed", "delete", "cut"}
  /\ upsets \in 0..MaxUpsets

Indexed(d) ==
  \A i \in 1..SpanCount[store[d]] : rows[<<d, i>>] = store[d]

(* Between runs every stored document can be found: each of its chunks has *)
(* a row with its vector and its policy.  A stored document without rows   *)
(* would be skipped as unchanged for ever, and one with the rows of an     *)
(* earlier version would be filtered by a policy it no longer has          *)
(* (ingest.py:121-125).                                                    *)
StoredHasRows == pc = "idle" => \A d \in Docs : store[d] # None => Indexed(d)

(* What the code leaves broken: the process ends with work in hand, or     *)
(* with rows that no flush has managed to write, while the store keeps     *)
(* what it was given; or the store fails in the middle of the repair.      *)
Repaired == ("cut" \in mishaps => ~site.durable) /\ "delete" \notin mishaps

(* StoredHasRows, whatever else fails on the way. *)
StoredIsIndexed == Repaired => StoredHasRows

(* The other half of "the store and the index never disagree"              *)
(* (ingest.py:123): between runs the index has no row of a chunk that the  *)
(* store does not have.                                                    *)
RowsAreStored ==
  pc = "idle" =>
     \A c \in ChunkIds :
        rows[c] # None => store[c[1]] # None /\ c[2] <= SpanCount[store[c[1]]]

(* RowsAreStored, as long as the store stays, no process ends before what  *)
(* it did is written, no embedding fails in the loop and no document is    *)
(* embedded twice between two flushes: documents that shrink or become     *)
(* blank leave nothing behind, also when a flush fails while it writes.    *)
NoOrphanRows == site.durable /\ mishaps = {} => RowsAreStored

(* What is skipped is what is stored: the store holds the version that the *)
(* ingestor last accepted, so a change of text or of policy always gets in *)
(* (policy_fingerprint, document.py:46-53).                                *)
StoredIsLatest == \A d \in Docs : store[d] # None => store[d] = taken[d]

(* No failure is final but those the code leaves broken: once nothing goes *)
(* wrong any more, and no document is there that ends every run, every     *)
(* document comes to be stored and indexed as it is at the source, and the *)
(* next process would find it so: the flush that ends a later run, which   *)
(* has nothing staged, writes what a failed one did not.                   *)
Converges ==
  <>[](Repaired /\ \A d \in Malformed : source[d] = None)
    => <>[](/\ disk = rows
            /\ \A d \in Docs : source[d] # None => store[d] = source[d] /\ Indexed(d))
=============================================================================
