# Perimeter: a verification project

TLA+ modules of Perimeter (`src/perimeter`), the TLC runs that check them and the
theorems that TLAPS proves about them. Perimeter answers retrieval queries on
behalf of callers and may only return text of documents whose policy admits the
caller; its README calls the promises INV-1 to INV-5. The modules model the code,
not its documents: where the two disagree a run shows it.

Run `tlc -config X.cfg M` for the run with module `M` and configuration `X.cfg`
(section 3), and `tlapm M_proofs.tla` for the proofs (section 5). `PROJECT.json`
names, for each definition, the lines it models, and lists the components, the
hazards and the properties that watch them.

## 1. The system

| Component | State it keeps | Operations | Interacts with | Hard behaviour |
|---|---|---|---|---|
| Principals (`core/principal.py`) | none (values); the worklist of one call | `effective_principals`, `GroupGraph` | resolvers | cyclic and diamond graphs, unspecified listing order |
| Policies (`core/acl.py`) | none | `admits`, `explain`, `revoke`, `with_deny`, `without`, ... | stores, index, retriever | a deny makes admission non-monotone in the permission set |
| Resolver cache (`adapters/caching_acl_resolver.py`) | an `OrderedDict` of entries with `fetched_at` | `resolve`, `invalidate`, `invalidate_group`, `invalidate_all`, `restrict` | the upstream resolver, the HTTP hook, every retrieval | shared by the server's threads without a lock; membership changes, TTL, outages |
| Static resolver (`adapters/static_acl_resolver.py`) | the nested-group graph | `resolve` | the cache | none |
| Ingestor (`pipeline/ingest.py`) | per run: `pending`, `pending_docs` | `ingest`, `_embed_and_index`, `split_text` | connector (iterator), store, embedder, index | any call may raise part-way; the `finally` clause |
| Stores (`adapters/memory_store.py`, `postgres_store.py`) | documents, chunks | `put`, `delete`, `fingerprint`, `get_chunks`, `catalog` | ingestor, retriever, simulator | one is changed entry by entry and lost with the process; the other is kept, but all threads share its one connection |
| Flat index (`index/flat.py`) | staged rows, removals, arrays, six files | `add`, `remove_document`, `flush`, `open`, `scan_rows`, the ACL table | ingestor, retriever | flush on search; files replaced one by one; not thread-safe |
| Quantisation (`index/quantize.py`) | the fitted quantizer | `fit`, `encode`, `rescore` | flat index | old codes must stay comparable with new ones |
| Filtered search (`index/filtered_search.py`) | none | `permitted_rows`, `filtered_search` | index | row numbers that a flush makes stale |
| Retriever (`pipeline/retrieve.py`) | none | `retrieve_with` | resolver, index, store, reranker | index and store of different versions |
| Connectors (`connectors/`) | none | `enumerate`, `fetch`, `acl_for`, `documents_from` | source, ingestor | policies and texts that change or cannot be read; repeated listings |
| Registry (`server/connectors.py`) | configurations, last runs, one file | `add`, `remove`, `ingest` | HTTP server, ingestor | file written in place, changes in several threads |
| Request scope (`server/auth.py`) | a context variable with tokens | `request_scope`, `token_for`, `reveal`, `wipe` | middleware, Drive connector, log filter | tokens must be gone on every exit, for whoever still holds one |
| HTTP, MCP, command line (`server/`) | none | endpoints, tools, `ingest` | all of the above | endpoints run on a thread pool, so two ingestions may run at once |
| Embedding, reranking, clock, logging, telemetry | none, or statistics | | external services | a call may fail |
| Wiring, settings, errors, admin console (`admin/`), benchmarks (`bench/`) | request state | | admin endpoints | none |

What makes each of them correct:

- *Principals*: the call ends and returns exactly the caller, `EVERYONE` and the closure.
- *Cache*: nothing the caller stopped being a TTL ago is served; what is signalled counts
  at once, in both directions; the dictionary, its order and its limit stay consistent; calls and hooks end.
- *Sources*: the policy of a document is one that was in force, or nobody's.
- *Ingestion*: no text is lost in splitting; store and index agree between runs; what is
  skipped is what is stored; every failure is made good by a later run.
- *Index*: a flush that is cut never gives a row another row's policy; old codes stay
  comparable; a search gets the rows it is owed; the ACL table admits exactly what the policies admit.
- *Retrieval*: no text and no reranker candidate outside the caller's policy, whatever the
  versions of index and store; an empty set asks nothing; short answers are complete.
- *Registry, scope*: what was answered is found after a restart; no token outlives its scope.

## 2. Modules

| Module | Models |
|---|---|
| `Acl` | principals, nested groups, permission sets: operators |
| `AccessPolicy` | policies, `admits`, `explain` and the operations on them: operators |
| `EffectivePrincipals` | the loop of `effective_principals`, one action per outcome of an iteration |
| `AclDirectory` | external: memberships, outages, the clock; the answer of a resolver |
| `CachingAclResolver` | the cache, called by threads; one action per operation on the dictionary |
| `AclService` | abstract: what a caller may rely on from a resolver with a TTL |
| `SourceAcl` | how one document gets its policy at its source, beside an editor |
| `SplitText` | `split_text`, one action per span |
| `PolicyFingerprint` | the bytes `policy_fingerprint` hashes |
| `Ingestion` | ingestion runs with store and index, over HTTP or from the command line |
| `AclTable` | `AclTable.build`, rule by rule, `permitted_rows` and `policy_at` |
| `RowOrder` | the rows a flush keeps, in their order: an operator |
| `Quantize` | the quantizer in one dimension, in integers |
| `FlatIndex` | one index with its directory: staging, flush file by file, failed writes, stops, `open`, the scan |
| `VectorIndex` | abstract: what the port promises its writers |
| `Retrieval` | a retrieval in one thread and an ingestion in another over index and store |
| `Ingestions` | several ingestions at once beside a retrieval, over the memory store: `Retrieval` and a scheduler |
| `ConnectorRegistry` | the configurations and their file, in threads |
| `RequestScope` | token scopes, tasks, `reveal`, `wipe`, and the redaction of log lines |
| `MCParts` | composes `EffectivePrincipals`, `AclTable`, `SplitText`, `RequestScope`, `ConnectorRegistry`, `SourceAcl` |
| `MCCachingAclResolver`, `MCIngestion`, `MCFlatIndex`, `MCRetrieval` | small instances |
| `Loops_proofs` | theorems about `EffectivePrincipals`, `AclTable` and `SplitText` (section 5) |
| `Connectors_proofs` | theorems about `SourceAcl`, `ConnectorRegistry` and `RequestScope` |
| `CachingAclResolver_proofs`, `Ingestion_proofs`, `RowOrder_proofs`, `FlatIndex_proofs`, `Retrieval_proofs` | theorems about the module each is named after, and `Retrieval_proofs` about `Ingestions` |
| `RetrievalSerial_proofs` | theorems about the types and the store of `Retrieval`, the types of `Ingestions`, and retrievals that overlap no ingestion |

**EffectivePrincipals.** `seen`, `frontier` and `result` are the locals of the
function, `graph` and `caller` its arguments. `SkipSeen`, `Visit` and `Return` are
the `continue`, the rest of the body and the exit of the loop. `pop` takes the last
element; where Python lists a frozenset, any order is possible (`Listings`).

**CachingAclResolver.** The `OrderedDict` is its content (`entries`) and its order
(`order`). A thread runs `Resolve`, `Lookup` (the `get` and the test of the age), then
`TouchHit` or, on a miss, `Upstream` or `UpstreamFails`, `Drop` or `Store`, `Place`,
and `Trim` with `Pop` as long as there are too many entries. A thread that waits
between `Lookup` and `TouchHit` holds the entry *object*: when the key is deleted
meanwhile the object lives on in `kept`, and `restrict`, which changes objects in
place, reaches only those in the dictionary. `TouchGone`, `Place` and `PopEmpty` are
the `KeyError`s. `invalidate` and `invalidate_group` list their keys (`ListKeys`) and
delete them one at a time (`EvictNext`, `EvictGone`, `EvictDone`). The directory
changes, fails and ages between any two steps. `lost` (when a key last stopped being
a principal), `unsig`, `covers` and `clean` (what the hooks have been told) are
history: no guard of the cache reads them. `invalidate_group` is told of
departures only, for it cannot find the entry of a user who has just joined a group;
the comment on the endpoint (`server/http.py:122`, "either direction") asks more
of it than it does, and a join has to be signalled with `invalidate`.

**SourceAcl.** `Enumerate`, `Probe` (`is_file`), `ReadSidecar` (`_parse_acl`),
`ReadPermissions` (Drive) and `Fetch` are the steps of `documents_from` on one
document; `EditSidecar` writes, replaces or removes a sidecar between any two.
A sidecar that is not UTF-8 raises an error that nobody catches (place `"raised"`).

**SplitText.** `pos` and `spans` are the locals of `split_text`; a step cuts one span,
at the boundary `_boundary` finds (`Ends`). A text is a sequence of kinds of characters.

**Ingestion.** `Start` begins a run; each document the connector names is `Skip`ped,
`Put`, `Unreadable`, `Refused` or fails; a full batch is embedded (`pc = "embed"`), the
rest in the `finally` clause (`pc = "finally"`) that every exit passes through. A
*version* is a text with its policy, so an index row with the version of the
store has both its vector and its policy. `ServerDone` is the registry's flush in a
`finally` clause, `CliDone` the flush that follows a success only, and the end of the
process. `SearchFlushes` is the flush of a query that meets staged rows. `Crash` loses
what is staged, and the store unless it is durable. A flush changes `rows`, which searches see, and then writes them
(`write_all`). `WriteFails` is an error while it writes: what was staged is no longer staged, memory is as it
was to be, and `disk`, which the next process reads, has the old rows, the new ones, or a mix that `open` refuses
and somebody must delete. Only a later flush, with anything staged or nothing, writes again. The error ends the request, the search or the
process (`ServerDone`, `SearchFlushes`, `CliDone`). `taken` and `mishaps` are history.

**AclTable.** `build` lists each policy's grants, then its denies, in any order, into
two compressed lists (`allow`, `deny`) over one vocabulary that grows as principals are
met. `permitted_rows` and `policy_at` are computed from the lists, not from the policies.

**FlatIndex.** `mem` has the arrays, `disk` the six files, `leftQuant` what a failed
write left in `.write`. `Flush` builds the new arrays from the rows that stay, in their order
(`Kept`, with `InOrder` of `RowOrder`); `Write` fills `.write`; `Replace` puts
one file in its place, in the code's order; `ReplaceLast` is `meta.json` and the reload.
`WriteFails` and `Stop` may happen at each step. `OpenExisting` is `_load` with its counts,
`OpenNew` the empty index that `open` writes. `scan_rows` is an operator: any order `argpartition` may leave.

**VectorIndex.** `Stage`, `Flush`, `Save`, `Stop` and `Open` of a map from chunk ids to
entries. `Tear` says that files are being replaced: a process that stops then may find
anything, which is as much as the code promises (`AppendIsStopSafe` promises more for
flushes that only append).

**Retrieval.** The writer runs `NewDocument`, the store's `put` (`Put`, `PutDelete`, `PutDocument`,
`PutChunk`), `remove_document`, `Embed`, the three appends of `add`, and a flush. In memory a delete
takes the document's list of chunk ids (`listed`, the code's `_chunks_by_document`) and deletes them one by one, and
a put sets the chunks one by one and the list last. Over Postgres each statement is a step: one psycopg connection
serves every thread of the server (`server/wiring.py:47-54`), so a retrieval runs its own statements between those
of a put, inside the same transaction, and sees what they have done so far. psycopg nests the `transaction()`
blocks of the two threads and raises when they end in another order than they began: `PutChunk`, `simulate` and
`get_chunks` may fail for that after their statements ran. The reader runs `Begin`, perhaps `simulate`,
`EmbedQuery`, `FlushIfStaged` and `Rows`, `Scan`, `chunk_id_at`, `get_chunks`, `Recheck`,
`Rank` and `Answered`; each may fail where a port may. A flush is `FlushTake`, `FlushBuild`,
`FlushIds` and `FlushAcl`, in either thread. `mode` is `"threads"`, `"serial"` (a retrieval
does not overlap an ingestion's steps) or `"leaky"` (in place of the index, one that
answers anything, as `LeakyIndex` of `tests/pipeline/fakes.py` does). `during`, `asked` and
`scanned` are history.

**ConnectorRegistry.** `add` and `remove` change memory; `Serialise`, `Truncate` and `Write` are
the steps of `_save`; `SaveFails` and `Stop` happen at any of them; `_load` is the start.

**RequestScope.** `context` is the `ContextVar`, per task; `inside` is history: the `with`
statements a task is in. `StartTask` copies the context to a task that may outlive the
scope. `Leave` resets the context, `WipeToken` and `WipeTokens` are `wipe`. `token_for` and
`reveal` are two steps, and `misuse` records a secret that was given out, or withheld,
against the scopes. `log` lists the tokens in scope; `redact` takes one of them, the longest of those that are left
(`Turn`), and `replace` does what `str.replace` does, one occurrence at a time: it puts the word `[REDACTED]` in the
place of the first occurrence ahead (`Ahead`), and goes on behind it. `LogRaises` when the token has been wiped meanwhile;
`RedactionFilter` hands the line on. The word is text like any other, so a secret may be found in it or come about
beside it. `origin` is history: which character of the message a character of the line is. The line is what
`redact` has before `_scrub_patterns`, whose patterns are not modelled.

**Ingestions.** The writer of `Retrieval` is one ingestion; `waiting` has the others where they were, each with the
flush it is in, and `Switch` is the scheduler. The modes and the bounds are those of `Retrieval`. Only the
memory store is meant: over Postgres two ingestions also fail one another's statements (a primary key that is
taken) and roll back the transaction they share, which is not modelled. No run has this module: it adds the
scheduler to actions that `retrieval` runs, and what holds of it is proved (section 5).

## 3. Runs

| Run | Configuration | Distinct states | Shows |
|---|---|---|---|
| `parts` | `MCParts`, `Parts` | 0.6 M | the six parts, one per behaviour: `ReturnsClosure`, `IterationsRunOut`, `Terminates`; `PermittedRowsAdmit`, `PoliciesRoundTrip`; `SpansCover`, `SpansAdvance`; `TokensStayInScope`, `NoTokenInLogs`, `NoRestInLogs`; `RestartFindsPromised`; `PolicyWasInForce` |
| `cache_serial` | `MCCachingAclResolver`, `CacheSerial` | 0.3 M | one thread, `eng` nested in `staff`, three keys for two entries: `ServedExactly`, `NeverRaises`, `CallsEnd` |
| `cache_threads` | `CacheThreads` | 0.3 M | two threads, all hooks: `ServedWithinTTL`, `TTLInvariant`, refinement of `AclService` (`ImplementsService`) |
| `cache_lru` | `CacheLRU` | 0.2 M | two threads, three keys for two entries: `SizeBounded` |
| `ingest` | `MCIngestion`, `Ingest` | 0.6 M | two documents and a malformed one, three deployments, every fault: `StoredIsIndexed`, `NoOrphanRows`, `StoredIsLatest`, `Converges` |
| `index_files` | `MCFlatIndex`, `IndexFiles` | 1.0 M | three chunk ids, three operations, two faults: `CodesComparable`, `ScanIsSound`, `AppendIsStopSafe`, refinement of `VectorIndex` (`ImplementsPort`) |
| `retrieval` | `MCRetrieval`, `Retrieval` | 2.0 M | modes serial and leaky, both stores: `StoreIsWhole`, `TextWasReadable`, `EmptySetAsksNothing`, `ScansPermittedRows`, `HonestAnswer`, `SimulationAgrees` |
| `cache_race` | `CacheRace` | violation | finding 1: `ServedWithinTruth` |
| `ingest_cli_error` | `IngestCliError` | violation | finding 2: `StoredHasRows` |
| `ingest_reembed` | `IngestReembed` | violation | finding 3: `RowsAreStored` |
| `retrieval_race` | `MCRetrieval`, `RetrievalRace` | violation | finding 4: `ScansPermittedRows` |
| `ingest_clash` | `IngestClash` | violation | finding 5: `StoredIsLatest` |

`ingest`, `index_files` and `retrieval` also check `TypeOK`, and `TTLInvariant` contains that of the cache. Deadlock is not
checked: a loop that has returned has nothing left to do, and the
clock, the faults and the calls are bounded, so each of these systems may stop.

**Bounds and why they are enough.**

- *Groups*: three give chains, diamonds, cycles and self-loops.
- *Cache*: one TTL is one tick, and the clock stops at one or two: an entry is fresh, then
  expires. Two threads suffice for each race, which is between one thread's steps
  and one other operation. Three keys and room for two entries evict, and leave an order to get wrong.
- *Table*: two policies give rows whose offsets begin at 0 and after another row, with and
  without grants and denies. *Split*: texts of up to five characters are cut up to five times, with
  no overlap, with some, and with more than the shortest span.
- *Scopes*: two tasks and two scopes nest, and let one task outlive the other's scope; one
  secret is the beginning of another, which can overlap itself, and the message quotes them alone, apart and overlapping. A
  third secret is not clear: it is the last bracket of the word and a character that may stand behind the word. It is tried
  in one scope, and a second scope has one token at most.
  *Registry*: three changes in two threads and two faults
  let two changes overlap and a third follow. *Sidecars*: two places and three edits take a
  sidecar away, replace it, and put it nearer.
- *Ingestion*: `MaxUpsets = 3` allows a fault, a second one while the first is handled, and an
  edit; since every initial state of the sources is tried, edits are not needed to get
  variety. Two documents and a batch of two chunks give batches with one document and with
  two, and a version of two chunks fills one alone. `long`, `wide` and `blank` have two, one
  and no chunks; `private` is `wide` under the policy nobody. `Injective` stands for a
  collision-free fingerprint; only `ingest_clash` computes the real one. A flush that fails, with a crash or a run after it, is two upsets.
- *Index*: three operations in two or more flushes append, replace and remove; two faults let a
  failed write be followed by a stop. The three vectors have different bits, or the same bits and another score, and the
  multiplier is 2: with `k` = 1 and three rows a scan leaves out a row by its bits, and another by its score.
- *Retrieval*: four ingestions and two retrievals in turn, two and one when they overlap: a
  document grows, shrinks, becomes blank and changes its policy. `team` denies contractors in a
  group it grants to, so a caller of the group with the deny is tried beside one without.

**Fairness.** `EffectivePrincipals` and a started call of the cache keep
running: the interpreter schedules each runnable thread, there is no lock to wait for, and an
upstream call answers or fails. No fairness is assumed of callers, hooks, the directory, faults or the clock.
Ingestion is fair as a whole (`WF(RunStep)`): someone runs it again, and faults end because
`MaxUpsets` bounds them. That is the assumption of `Converges`: *once nothing goes wrong
any more*.

**Where the guarantees stop.** Each condition in a property is needed; without it TLC finds a
counterexample, or the code says so itself.

- `ServedExactly` and `NeverRaises` are for one call at a time. With two
  threads finding 1 applies, and `move_to_end`, `del` and `popitem` may raise
  `KeyError` out of `resolve` and of the hooks; `AclService` allows a call to raise.
- `CallsEnd` too: two threads that keep filling the cache may keep each other in the trim loop.
- `restrict` keeps the groups that were inherited through the one that was left, until the
  TTL ends (ADR-004:29 says "a cached entry can only be more restrictive than reality"). `PermissionSet.without` may
  also admit more, when what is taken away is a principal that some policy denies.
- `PolicyWasInForce` needs that no sidecar comes to be during the walk: one that is moved nearer to the file
  is missed in both places. The policy is read before the text (`base.py:44`, `:49`), so a text
  written in between has the older policy until the next run. Of a Drive file only the first
  page of permissions (100) is read, which can only narrow its policy.
- `StoredIsIndexed` and `Converges` hold, over a durable store, unless a process ends with a run in hand (a crash, or an
  error on the command line, finding 2) or with rows that no flush has managed to write, or the store fails while
  a failed batch is being deleted (`Repaired`). In these cases the fingerprint of a stored, unindexed document blocks its repair.
- A flush that fails is made good by the next one of the same process (each run ends with one), because memory has what the files
  lack: `Converges` says so of the disk too. No search writes again, for nothing is staged. If the process ends before (at rest: no
  request is in hand), `flat.py:347-384` has taken rows from the stage that no file has, and the documents stay stored. TLC
  shows it in a few steps when `Crash` does not note the difference; it is a condition of `StoredIsIndexed` and
  no finding, because the sentence it would refute (`ingest.py:123`) is refuted by findings 2 and 3 already. An error of a flush before it writes (`flat.py:349-378`: memory) is
  not modelled.
- `NoOrphanRows` is for a store that stays; it also needs all of that, that no embedding fails in the loop (finding 3) and that no
  document is put twice between two flushes: a removal does not reach rows that are staged.
- `Converges` also needs that no document with a malformed id stays at the source: it ends every
  run, and what the connector lists after it is not reached. A sidecar that is not UTF-8 does the same.
- A document that leaves its source stays stored, with its last policy: nothing removes it.
- `AppendIsStopSafe` is for flushes that keep every row. One that replaces or removes rows and is cut
  between two files may be accepted with ids and policies of two flushes when the counts agree.
  A flush that is cut may also leave a directory that `open` refuses.
- `HonestAnswer` takes the reranker to give as many chunks as it is asked for, each once: `cohere_rerank.py:54-57` also
  accepts fewer, and the same one twice, from the service.
- `ScansPermittedRows`, `HonestAnswer` and `SimulationAgrees` are for retrievals that do not overlap
  an ingestion (finding 4); `TextWasReadable` and `EmptySetAsksNothing` hold in every mode (section 5).
- `StoreIsWhole` is for one ingestion at a time: two in the memory store delete and list one another's chunks
  and may leave some of each version. The texts still carry the policy of their own version (`TextWasReadable`).
- `NoTokenInLogs` is about secrets that are clear of the word `[REDACTED]`: they have neither of its brackets and are no part of it. Any
  other may be spelled by the word itself (`RED`), or by the word and what stands beside it (`x[RED` in front of a
  quote of another secret), and `auth.py:111` accepts any secret that is not blank. TLC finds such a line when `Clear` is left out.
- `NoRestInLogs` is for lines whose secrets are all clear, and says nothing of an occurrence that shares characters with another
  secret of the scope and is not all of it: whichever is replaced first, a rest of the other stays. No whole secret does (`NoTokenInLogs`).
- `RestartFindsPromised` is for changes that do not overlap and are not cut: the last file written
  need not be the newer one, and a torn file is refused at the next start.
- A log call that lists a token which is wiped before it is replaced raises.

## 4. Findings

1. `cache_race`: a miss stores the answer it read before a revocation after `invalidate` has
   returned. ADR-004: "Revocations that are signalled take effect immediately".
2. `ingest_cli_error`: an embedding error on the command line loses the rows of earlier batches,
   whose documents stay stored. `ingest.py`: "the store and the index never disagree".
3. `ingest_reembed`: after an embedding error in the loop the `finally` clause embeds the same
   chunks again and indexes documents that were just deleted.
4. `retrieval_race`: a flush by an ingestion between the filter of a search and its scan renumbers
   the rows, and the query is compared with vectors of a document that the caller may not read.
   `filtered_search.py`: "There is no code path that scans a row outside that set". The text of
   such a row is still withheld (`TextWasReadable`).
5. `ingest_clash`: the fingerprint does not separate ids, so two policies share one.
   `document.py`: "Changing either invalidates an ingested copy."

## 5. Proofs

All theorems are for every value of the constants under the named assumptions of the modules. These say
what the types of the constants are, and:

- `PrincipalsAssumption`: finitely many groups, and `EVERYONE` is not claimable.
- `SourceAssumption`: an unusable entry is no principal.
- `FlatIndexAssumption`: finitely many versions, so that the extremes of a fit exist.
- `RetrievalAssumption`: finitely many documents and versions, and at least one version, so that there is a
  longest document; the limits `Ks` are positive, as the bounds on `top_k` make them.
- `None` is no version, no file, no flush in progress: in Python it is an object of its own. TLA+ is untyped, so
  each assumption names the sets that `None` is compared with.

A theorem that needs more says so in its statement (`ASSUME ... PROVE`). Each inductive invariant was checked
with TLC on the instances of section 3 before it was proved.

`Loops_proofs`
: *EffectivePrincipals.* `ResolvesTransitiveClosure`: `Spec => []ReturnsClosure`. `ReturnsClosure` is not
  inductive; `LoopInvariant` is: nothing reachable is dropped from `seen` and the worklist,
  nothing is in them that some closed set lacks, and a returned call has an empty
  worklist. When the worklist is empty `seen` is closed, so both halves meet in the
  closure. The lemmas about `Listings` and `Rest` say what popping and extending
  do to the contents of the list. `WorkIsBounded`: an expansion adds to the worklist as many entries as
  edges leave the new group, and no group is expanded twice (`EdgesAreCounted`).
  `IterationsAreFinite`: what is queued and the edges of the groups not yet expanded are together fewer after every
  iteration, which is why the loop ends on a graph with cycles; that it does end needs fairness and induction, and is
  TLC's `Terminates`.
: *AclTable.* `PermittedRowsAreExact`, `PoliciesSurviveRebuild`, from `TableInvariant`: the rows closed so far
  list exactly their policies, the open row lists what is no longer in `unlisted`, and the two lists
  are never more than a row apart. A number once given to a principal does not change, so a longer
  vocabulary leaves a closed row as it is (`GrowVocabulary`).
: *SplitText.* `NothingLost`, `AlwaysAdvances`, from `SplitInvariant`: a boundary lies after the floor and not
  beyond the end, so each span is not empty and `pos` moves past the start of the last one.

`CachingAclResolver_proofs`
: `TTLInvariance`, `BoundedStaleness`: `Spec => []ServedWithinTTL`, for any number of
  threads. The invariant follows a permission set: what an entry lists was true at or after its
  `fetched_at`; a thread that holds an entry object checked its age against the clock
  it read when it began; what was fetched was true since then. Time and membership changes
  preserve all of it since the last moment at which a principal was true never moves back
  (`LastTrueForward`). `CacheImplementsService`: every step of a thread is a step of
  `AclService` or a stutter under the mapping `callOf`.
: `SizeIsBounded`, for any number of threads. `SizeBounded` alone is not inductive, for a thread that has set a
  key has not yet reached the trim loop. `SizeInvariant` pays for each entry in excess with a thread
  that is trimming or with a key just set and still there (`Placed`): two threads that set one key pay once,
  and one whose key was deleted meanwhile not at all.
: `SerialNeverRaises` and `SerialServesExactly` assume `Serial`, one thread. The first follows from `AllMeet`: a key
  that a thread is to touch, place or evict is present. The second also assumes that `restrict` is not used (section 3
  says why it must) and uses `EntriesKnown`: an entry differs from the directory by changes that no hook has been
  told of, and by nothing else; `KnowsChanges` says the same of what a call carries, and of a hook that is half way
  through its keys.

`Ingestion_proofs`
: `StoredVersionIsLatest` assumes what `policy_fingerprint` assumes of sha256: one fingerprint, one version
  (`ingest_clash` is what happens without it). `StoredIsLatest` is inductive then.
: `StoredDocumentsAreIndexed`, whatever fails. A row is decided in three places (`Outcome`): a pending chunk
  overrides a staged row, and a staged row the flushed one, which a removal drops. `IndexInvariant` says that
  the outcome of each chunk of a stored document is the stored version; embedding and flushing do not change an
  outcome, a put changes document and outcome together, and a batch that is lost is one whose documents
  leave the store (`PendingAreAffected`, `DroppedAreGone`). What is on disk enters only when a process ends: then either the
  two are the same, or the end is one of those that `Repaired` excludes.
: `RowsAreOfStoredChunks`, from `RowsInvariant`: what is kept or pending fits a stored chunk, and a document that
  waits to be embedded keeps no earlier row (`AffectedAreDropped`), so none is left when its embedding fails. A flush
  that fails leaves the rows in memory as one that succeeds.

`RowOrder_proofs`
: `InOrder` lists each member of a finite set of integers once, from the least to the greatest. The ranks are
  an injection into as many numbers, so onto them; no induction is needed,
  which is why the model counts ranks and does not call a recursive sort.

`FlatIndex_proofs`
: `FilesAreTyped`, from `FilesInvariant`: the arrays have one length, `meta.json` comes to be after the
  files it counts, and while files are replaced those before `next` are memory's (`ReplacedAreNew`).
: `OneQuantizerForAll`, from `OneQuantizer`: a code has the quantizer of its array, and once a count other than
  zero has been written the quantizer on disk is the one in memory, so it outlives failed writes and stops.
: `AppendsAreStopSafe`, from `SavedIsWhole`: as long as flushes only append, memory and every file begin with the
  rows of the last completed write (`Continues`), and the count in `meta.json` is theirs. So the property holds in the
  form that says most: what is opened is exactly what was saved last.
: `ScansAreSound`: over any rows, query, `k` and multiplier. Candidates and result are both the first of an
  ordering, and a set no larger than the limit is taken whole.
: `FlatIndexIsThePort`: `FlatIndex => VectorIndex`, by steps. `Flush` maps to the port's because
  each id is kept at one place, its last (`FlushKeeps`, `FlushDrops`); `Replace` maps to `Tear` or a
  stutter, `ReplaceLast` to `Save` or the end of `Open`.

`Retrieval_proofs`
: `ReturnsReadableText` (INV-1, and INV-2 for the reranker) and `EmptySetIsInert` (INV-4), in every
  interleaving, with either store, and over an index that answers anything. The invariant,
  `ReadInvariant`: each stored chunk has the policy of the version its text is from (`StoreOK`, which is why a
  `put` that updates the text alone would break it), all that is stored now was there during the
  call (`SeenOK`), what was fetched was there under a policy that admits the caller (`CallOK`), and
  a call with an empty set is nowhere but at the start or the end (`EmptyOK`). No conjunct says
  anything of the index: its rows, its policies and its races are irrelevant to what is returned.
: `ReturnsReadableTextConcurrently` and `EmptySetIsInertConcurrently`: the same of `Ingestions`, for any number of
  ingestions at once. Each that waits keeps to the same invariant as the one that runs (`WaitingOK`), so a switch
  between them preserves it.

`RetrievalSerial_proofs`
: What retrievals are owed that overlap no ingestion. `TypeCorrect` is for every mode: `TypesInvariant` adds that
  no list of the index is longer than there are chunk ids, because a flush keeps no id twice. `TypeCorrectConcurrently`:
  nor when any number of ingestions take turns at it.
: `StoreStaysWhole`, over either store, beside any retrieval: from `StoreSteps`, which says how far the put or delete of
  one document has come and that the store has every other document whole, and `Lists`. The memory store deletes
  what it has listed, so the proof needs that each chunk stored is listed, but for the document in hand; a put
  that forgot the list would leave the chunks of an older, longer version for ever.
: `SerialScansPermitted`, `AnswersAreHonest` and `HalvesAgree` rest on three layers: `StoreSteps`, `SerialIndex` and `SerialCall`. `SerialIndex`: at rest (`RowsAtRest`)
  codes, ids and policies agree row by row and, but for the document in the writer's hands, the rows are the
  chunks stored; what is staged is the beginning of that document (`Batch`); and at each of the
  assignments of a flush, with the index half rebuilt, what it is to become is the store, the document
  that waits left out (`FlushGoesRight`). So a search that flushes first meets rows that are current.
  `SerialCall`: from the ranking on, the chunks that a call has left are all that are `Wanted` (stored, readable,
  not waiting) or at least `k` of them (`Enough`): scan, translation, `get_chunks`, recheck and cut each keep it.
: Without an index, in mode `"leaky"`, nothing is scanned (`LeakyInvariant`). In mode `"threads"`
  `ScansPermittedRows` is false (finding 4), so `SerialScansPermitted` excludes it; `HonestAnswer` and
  `SimulationAgrees` name mode `"serial"` themselves.

`Connectors_proofs`
: *RequestScope.* `TokensAreScoped` (INV-3), from `ScopeInvariant`: the context of a task is the innermost scope
  it is in; the scope around is what its exit restores (`StacksLink`); a scope that is alive is in its task's
  stack or about to be wiped (`LivesInTask`), so no task is started inside one of its own; who holds
  a token is in its scope (`HoldersAreInside`); and a scope that has ended has no secret left.
: `LogsHaveNoToken` and `LogsHaveNoRest`, from `LogInvariant`, for any alphabet, word, secrets and messages. Each character of a line in
  the making comes from a place in the message, or from a copy of the word and then with the whole copy around it (`Traced`).
  An occurrence of a clear secret meets no copy, for it would have a bracket or lie within (`ClearMissesWord`);
  so putting the word in makes up none (`NothingMadeUp`), and a secret whose turn is over stays absent (`Done`). A quote that is
  mixed up with no other stands as one piece or has left the text (`Quotes`): a replacement (`Cut`) elsewhere
  moves it, and one that meets it is of the quote itself, since the longest secret goes first (`LongestIsTheQuote`).
: *ConnectorRegistry.* `RestartsFindPromised`, from `RegistryInvariant`: as long as `certain`, one change at most is in
  hand, what it is about to write is what memory has, and without one the file is whole and is what was promised.
: *SourceAcl.* `YieldedPolicyWasInForce`, from `WalkInvariant`: the places passed have no sidecar as long as none
  comes to be, so the one that is read is the nearest, and reading it gives the policy in force now
  (`ReadsPolicyInForce`).

Left to TLC: what needs fairness or `ENABLED` (`Terminates`, `CallsEnd`, `Converges`). Every other property of a
passing run is a theorem.

## 6. Not modelled

- *Cache*: `restrict` and the listing of the hooks run as one step, so a dictionary that
  changes during an iteration (`RuntimeError`) is not in the model. `CacheStats` decides nothing.
- *Ingestion*: in `Ingestion` one runs at a time; `Ingestions` has several, document by document and without the
  batches. That the store and the index agree after several at once is not claimed: the flush of one may take the staged
  lists between the appends of another, and `docs/WALKTHROUGH.md:167` says that the index would not survive it. An error of `VectorIndex.add` (a vector of
  the wrong size) is a misconfiguration that the wiring excludes. Chunk ids are pairs, so the prefix `a#` of
  one document's rows cannot match a document `a#b`; the ids of the shipped connectors have no `#`.
- *Index*: normalisation and float32 rounding: vectors are integers of one dimension. A file is written whole or
  not at all. In `Retrieval` the ranking may pick any rows, `FlatIndex` says which. There `codes` stands for the bits and for the int8
  codes, and a flush reads all arrays in one step: with two flushes at once (mode `"threads"`) they may come apart in more ways than in the
  model. What is claimed of that mode does not depend on what an index holds.
- *Limits that are not reached*: the 4000 of `candidate_k` and the simulator's own limit; requests outside the
  limits are refused before anything happens.
- *Registry*: the last runs, which nothing reads to decide anything; the form of a configuration.
- *HTTP, MCP, command line*: parsing and serialisation; identity headers are validated input.
- *Drive*: URIs, the wording of queries, and HTTP itself.
- *Telemetry, wiring, settings, errors, the console, the benchmarks*: `PROJECT.json` has the reason for each.

- *Postgres*: when the session that the threads share is committed or rolled back, and what is then lost; two
  ingestions at once over it.

## 7. Plan

1. A retrieval that overlaps an ingestion: which rows a scan may meet beyond the permitted ones, as an invariant
   of mode `"threads"` (those of the document in hand, and those a flush moved).
2. The session of Postgres that the threads share, with its nested transactions, their commit and rollback.
3. Lemmas about `Quantize` (the error of a code).
4. `FlushBuild` in the code's own steps (ids, bits, codes and policies read one after the other, then assigned one after the
   other), which item 1 needs.
