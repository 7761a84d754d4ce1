------------------------------- MODULE VectorIndex -------------------------------
(***************************************************************************)
(* What the VectorIndex port (perimeter/core/ports.py) promises its        *)
(* writers: staged entries and removals take effect together, when they    *)
(* are flushed; what has been saved survives the process, unless it stops  *)
(* while files are being replaced: then anything may be found, or nothing. *)
(***************************************************************************)
CONSTANTS Ids,      \* chunk ids
          Docs,
          DocOf,    \* DocOf[c]: the document of chunk c
          Versions, \* an entry's vector with its policy
          None

VARIABLES
  up,       \* "down", "up" or "refused": what a process finds
  entries,  \* entries[c]: the vector and the policy of c in memory
  staged,   \* staged[c]: the last one staged
  removed,  \* documents whose older rows the next flush drops
  saved,    \* entries, as a process that starts now would find them
  torn      \* ... unless files are being replaced

svars == <<up, entries, staged, removed, saved, torn>>

Entry == [vector : Versions, policy : Versions]
Entries == [Ids -> Entry \cup {None}]
NoEntries == [c \in Ids |-> None]
Whole(v) == [vector |-> v, policy |-> v]

Init ==
  /\ up = "down"
  /\ entries = NoEntries /\ staged = NoEntries /\ removed = {}
  /\ saved = NoEntries /\ torn = FALSE

Stage ==
  /\ up = "up"
  /\ \/ \E c \in Ids, v \in Versions : staged' = [staged EXCEPT ![c] = Whole(v)] /\ UNCHANGED removed
     \/ \E d \in Docs : removed' = removed \cup {d} /\ UNCHANGED staged
  /\ UNCHANGED <<up, entries, saved, torn>>

Flush ==
  /\ up = "up"
  /\ entries' = [c \in Ids |-> IF staged[c] # None THEN staged[c]
                               ELSE IF DocOf[c] \in removed THEN None ELSE entries[c]]
  /\ staged' = NoEntries
  /\ removed' = {}
  /\ UNCHANGED <<up, saved, torn>>

(* Files are being replaced, or have come to be as they were; all of them *)
(* have been replaced.                                                     *)
Tear == up = "up" /\ torn' \in BOOLEAN /\ UNCHANGED <<up, entries, staged, removed, saved>>

Save ==
  /\ up = "up"
  /\ saved' = entries
  /\ torn' = FALSE
  /\ UNCHANGED <<up, entries, staged, removed>>

Stop ==
  /\ up = "up"
  /\ up' = "down"
  /\ entries' = NoEntries /\ staged' = NoEntries /\ removed' = {}
  /\ UNCHANGED <<saved, torn>>

Open ==
  /\ up = "down"
  /\ \/ up' = "up" /\ entries' = saved /\ ~torn /\ UNCHANGED <<saved, torn>>
     \/ up' = "up" /\ torn /\ entries' \in Entries /\ saved' = entries' /\ torn' = FALSE
     \/ up' = "refused" /\ torn /\ UNCHANGED <<entries, saved, torn>>
  /\ UNCHANGED <<staged, removed>>

Next == Stage \/ Flush \/ Tear \/ Save \/ Stop \/ Open

Spec == Init /\ [][Next]_svars
=============================================================================
