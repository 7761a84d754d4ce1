--------------------------------- MODULE SourceAcl ---------------------------------
(***************************************************************************)
(* How one document gets its policy at its source: acl_for of the          *)
(* filesystem connector and of the Drive connector, under documents_from   *)
(* (perimeter/connectors), beside an editor who changes the sidecars.      *)
(*                                                                         *)
(* Candidate 1 is the sidecar of the file, 2 that of its directory, and so *)
(* on up to the root.  Nothing locks them: each is tested, then read.      *)
(***************************************************************************)
EXTENDS AccessPolicy, Integers

CONSTANTS Depth,      \* how many candidates there are
          Unusable,   \* an entry that is not a valid principal
          NotJson,    \* a sidecar that is no JSON object with two lists
          Missing,    \* no sidecar
          Sidecars,   \* what a sidecar may hold
          NotUtf8,    \* a sidecar whose bytes are no text
          DriveLists, \* what Drive may list: sets of [type, names]
          MaxEdits    \* bound: edits in a behaviour

Entries == Principals \cup {Unusable}
Sheets == [grants : SUBSET Entries, denies : SUBSET Entries]

ASSUME SourceAssumption ==
  /\ Depth \in Nat \ {0} /\ MaxEdits \in Nat
  /\ Unusable \notin Principals /\ Missing \notin Sidecars
  /\ NotUtf8 # NotJson /\ NotUtf8 \notin Sheets
  /\ Sidecars \subseteq Sheets \cup {NotJson, NotUtf8}

VARIABLES
  source,   \* "filesystem" or "gdrive"
  sidecar,  \* sidecar[i]: its content, or Missing
  walk,     \* documents_from on this document: [at, place, policy]
  edits,    \* counter
  inForce,  \* history: the policies in force since the walk began
  created   \* history: a sidecar came to be since the walk began

sourceVars == <<source, sidecar, walk, edits, inForce, created>>

-----------------------------------------------------------------------------
(* _parse_acl: nobody stands for the ConnectorError that documents_from    *)
(* answers with it.                                                        *)
Accepted(sheet) == sheet \notin {NotJson, NotUtf8} /\ Unusable \notin sheet.grants \cup sheet.denies

_parse_acl(sheet) ==
  IF ~Accepted(sheet) THEN nobody
  ELSE from_rules([effect : {"grant"}, principal : sheet.grants]
                    \cup [effect : {"deny"}, principal : sheet.denies])

(* Drive has grants only; a permission of another type is ignored.         *)
drive_policy(permissions) ==
  from_rules([effect : {"grant"},
              principal : UNION {IF p.type = "anyone" THEN {EVERYONE}
                                 ELSE IF p.type \in {"user", "group", "domain"} THEN p.names
                                 ELSE {} : p \in permissions}])

Start == [at |-> "start", place |-> 1, policy |-> nobody]

(* What the sidecars say: the nearest one, if it can be used at all.       *)
Existing == {i \in 1..Depth : sidecar[i] # Missing}
Nearest == CHOOSE i \in Existing : \A j \in Existing : i <= j
PolicyInForce ==
  IF Existing = {} \/ ~Accepted(sidecar[Nearest]) THEN nobody
  ELSE [grants |-> sidecar[Nearest].grants, denies |-> sidecar[Nearest].denies]

SourceInit ==
  /\ source \in {"filesystem", "gdrive"}
  /\ sidecar \in [1..Depth -> {Missing}]
  /\ walk = Start
  /\ edits = 0 /\ inForce = {} /\ created = FALSE

-----------------------------------------------------------------------------
Unedited == UNCHANGED <<source, sidecar, edits, inForce, created>>

(* enumerate yields the file. *)
Enumerate ==
  /\ walk.at = "start"
  /\ walk' = [Start EXCEPT !.at = IF source = "filesystem" THEN "probe" ELSE "permissions"]
  /\ inForce' = {PolicyInForce}
  /\ created' = FALSE
  /\ UNCHANGED <<source, sidecar, edits>>

(* Mutant of Probe: the walk goes on past a sidecar that cannot be used.   *)
Probe_PastUnusable ==
  /\ walk.at = "probe"
  /\ walk' = IF sidecar[walk.place] # Missing /\ Accepted(sidecar[walk.place])
             THEN [walk EXCEPT !.at = "read"]
             ELSE IF walk.place = Depth THEN [walk EXCEPT !.at = "fetch"]
             ELSE [walk EXCEPT !.place = @ + 1]
  /\ Unedited

(* candidate.is_file() *)
Probe ==
  /\ walk.at = "probe"
  /\ walk' = IF sidecar[walk.place] # Missing THEN [walk EXCEPT !.at = "read"]
             ELSE IF walk.place = Depth THEN [walk EXCEPT !.at = "fetch"]
             ELSE [walk EXCEPT !.place = @ + 1]
  /\ Unedited

(* The sidecar may be gone by now: it cannot be read, and no other is.     *)
(* UnicodeDecodeError is none of the errors anyone here catches.           *)
ReadSidecar ==
  /\ walk.at = "read"
  /\ walk' = [walk EXCEPT !.at = IF sidecar[walk.place] = NotUtf8 THEN "raised" ELSE "fetch",
                !.policy = IF sidecar[walk.place] = Missing THEN nobody
                           ELSE _parse_acl(sidecar[walk.place])]
  /\ Unedited

(* One request; any error makes it nobody's. *)
ReadPermissions ==
  /\ walk.at = "permissions"
  /\ \E listed \in DriveLists \cup {{}} :
       walk' = [walk EXCEPT !.at = "fetch", !.policy = drive_policy(listed)]
  /\ Unedited

(* The document is yielded with its text, or skipped because there is none.*)
Fetch ==
  /\ walk.at = "fetch"
  /\ \E place \in {"yielded", "skipped"} : walk' = [walk EXCEPT !.at = place]
  /\ Unedited

NextRun ==
  /\ walk.at \in {"yielded", "skipped", "raised"}
  /\ walk' = Start
  /\ Unedited

(* A sidecar is written, replaced or removed by its owner.                 *)
EditSidecar ==
  /\ source = "filesystem" /\ edits < MaxEdits
  /\ edits' = edits + 1
  /\ \E i \in 1..Depth, content \in Sidecars \cup {Missing} :
       /\ sidecar' = [sidecar EXCEPT ![i] = content]
       /\ created' = (created \/ (sidecar[i] = Missing /\ content # Missing))
  /\ inForce' = inForce \cup {PolicyInForce'}
  /\ UNCHANGED <<source, walk>>

SourceNext ==
  \/ Enumerate \/ Probe \/ ReadSidecar \/ ReadPermissions \/ Fetch \/ NextRun
  \/ EditSidecar

SourceSpec == SourceInit /\ [][SourceNext]_sourceVars

-----------------------------------------------------------------------------
(* A document of the filesystem is ingested with a policy that was in      *)
(* force at some moment of the walk, or with nobody's, as long as no       *)
(* sidecar comes to be meanwhile: the nearest sidecar decides, and neither *)
(* one that goes between the test and the read nor one that cannot be used *)
(* hands the decision to an outer, wider one.  The condition is needed: a  *)
(* sidecar that is moved nearer to the file is missed in both places.      *)
PolicyWasInForce ==
  source = "filesystem" /\ walk.at = "yielded" /\ ~created =>
    walk.policy \in inForce \cup {nobody}
=============================================================================
