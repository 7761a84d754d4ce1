------------------------------- MODULE Ingestions -------------------------------
(***************************************************************************)
(* Several ingestions at once over the memory store, beside a retrieval.   *)
(* The endpoint that starts one (server/http.py) runs on a pool of threads *)
(* and shares the ingestor, the store and the index with every other;      *)
(* nothing keeps two of them apart, nor two that name the same document.   *)
(*                                                                         *)
(* One of them is the ingestion of module Retrieval; the others wait where *)
(* they were, and the scheduler may switch to one of them before any step. *)
(* Over Postgres they would fail one another's statements and roll them    *)
(* back, which that module leaves out.                                     *)
(***************************************************************************)
EXTENDS Retrieval

CONSTANT Others   \* the other ingestions

VARIABLE waiting  \* of each other: its writer, and the flush it is in

concurrentVars == <<rvars, waiting>>

IngestionsInit ==
  /\ Init /\ mode # "serial" /\ kind = "memory"
  /\ waiting = [o \in Others |-> [writer |-> Idle, flush |-> None]]

Switch(o) ==
  /\ writer' = waiting[o].writer
  /\ flushing' = [flushing EXCEPT !["writer"] = waiting[o].flush]
  /\ waiting' = [waiting EXCEPT ![o] = [writer |-> writer, flush |-> flushing["writer"]]]
  /\ UNCHANGED <<fixed, storeVars, index, staged, removed, call, ingested, calls>>

IngestionsNext ==
  \/ Next /\ UNCHANGED waiting
  \/ \E o \in Others : Switch(o)

IngestionsSpec == IngestionsInit /\ [][IngestionsNext]_concurrentVars
=============================================================================
