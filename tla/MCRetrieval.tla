------------------------------ MODULE MCRetrieval ------------------------------
(***************************************************************************)
(* A document is public, in one chunk; or for the group without the        *)
(* contractors, in two; or blank.  Callers: nobody, a user, one in the     *)
(* group, a contractor in the group.                                       *)
(***************************************************************************)
EXTENDS Retrieval

CONSTANTS open, team, blank, alice, eng, contractors

Access ==
  [v \in Versions |-> IF v = team THEN [grants |-> {eng}, denies |-> {contractors}] ELSE public]
Chunked == [v \in Versions |-> IF v = blank THEN 0 ELSE IF v = team THEN 2 ELSE 1]
PermissionsTried ==
  {{}, {alice, EVERYONE}, {alice, EVERYONE, eng}, {alice, EVERYONE, eng, contractors}}

(* Bounds.  When a retrieval does not overlap an ingestion there is room   *)
(* for more of both.                                                       *)
Puts  == [m \in Modes |-> IF m = "serial" THEN 4 ELSE 2]
Tries == [m \in Modes |-> IF m = "serial" THEN 2 ELSE 1]
=============================================================================
