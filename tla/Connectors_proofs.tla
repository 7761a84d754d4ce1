--------------------------- MODULE Connectors_proofs ---------------------------
(***************************************************************************)
(* Proofs about the three parts that deal with connectors: the policies    *)
(* they read (SourceAcl), their stored configurations (ConnectorRegistry)  *)
(* and the tokens of a request, with their redaction (RequestScope).       *)
(***************************************************************************)
EXTENDS SourceAcl, ConnectorRegistry, RequestScope, SequenceTheorems, TLAPS

(***************************************************************************)
(* Proofs about SourceAcl, for a document at any depth, any sidecars and   *)
(* any number of edits: the walk to the nearest sidecar, which nothing     *)
(* protects from an editor, never ends with a policy that was not in force.*)
(***************************************************************************)

SidecarsOK == sidecar \in [1..Depth -> Sidecars \cup {Missing}]

(* While no sidecar has come to be, the candidates that have been passed   *)
(* do not exist.                                                           *)
PassedAreMissing ==
  walk.at \in {"probe", "read"} /\ ~created =>
    /\ walk.place \in 1..Depth /\ walk.policy = nobody
    /\ \A j \in 1..Depth : j < walk.place => sidecar[j] = Missing

ChosenWasInForce ==
  walk.at \in {"fetch", "yielded"} /\ ~created => walk.policy \in inForce \cup {nobody}

WalkInvariant ==
  /\ DOMAIN walk = DOMAIN Start
  /\ source = "filesystem" =>
       /\ walk.at # "permissions"
       /\ walk.at # "start" => PolicyInForce \in inForce
       /\ SidecarsOK /\ PassedAreMissing /\ ChosenWasInForce

-----------------------------------------------------------------------------
(* The rules of one effect name what was listed under it. *)
LEMMA NamedAsListed ==
  ASSUME NEW rules, NEW effect, NEW listed,
         \A p \in listed : [effect |-> effect, principal |-> p] \in rules,
         \A r \in rules : r.effect = effect => r.principal \in listed
  PROVE  Named(rules, effect) = listed
<1>1. ASSUME NEW p \in listed PROVE p \in Named(rules, effect)
  <2> DEFINE r == [effect |-> effect, principal |-> p]
  <2>1. r \in {q \in rules : q.effect = effect} /\ r.principal = p
    OBVIOUS
  <2> HIDE DEF r
  <2>2. QED BY <2>1 DEF Named
<1>2. ASSUME NEW p \in Named(rules, effect) PROVE p \in listed
  BY <1>2 DEF Named
<1>3. QED BY <1>1, <1>2

(* _parse_acl keeps the two lists of a sidecar that can be used. *)
LEMMA ParsedAsWritten ==
  ASSUME NEW sheet \in Sidecars, Accepted(sheet)
  PROVE  _parse_acl(sheet) = [grants |-> sheet.grants, denies |-> sheet.denies]
<1> DEFINE rules == [effect : {"grant"}, principal : sheet.grants]
                      \cup [effect : {"deny"}, principal : sheet.denies]
<1>1. /\ \A p \in sheet.grants : [effect |-> "grant", principal |-> p] \in rules
      /\ \A r \in rules : r.effect = "grant" => r.principal \in sheet.grants
  OBVIOUS
<1>2. /\ \A p \in sheet.denies : [effect |-> "deny", principal |-> p] \in rules
      /\ \A r \in rules : r.effect = "deny" => r.principal \in sheet.denies
  OBVIOUS
<1>3. _parse_acl(sheet) = from_rules(rules)
  BY DEF _parse_acl
<1> HIDE DEF rules
<1>4. Named(rules, "grant") = sheet.grants
  BY <1>1, NamedAsListed
<1>5. Named(rules, "deny") = sheet.denies
  BY <1>2, NamedAsListed
<1>6. QED BY <1>3, <1>4, <1>5 DEF from_rules

(* The nearest sidecar is the one before which there is none. *)
LEMMA NearestIs ==
  ASSUME NEW i \in Existing, \A j \in 1..Depth : j < i => sidecar[j] = Missing
  PROVE  Nearest = i
<1>1. i \in 1..Depth /\ Existing \subseteq 1..Depth
  BY DEF Existing
<1>2. \A j \in Existing : i <= j
  BY <1>1, SourceAssumption DEF Existing
<1>3. \A k \in Existing : (\A j \in Existing : k <= j) => k = i
  BY <1>1, <1>2, SourceAssumption
<1>4. QED BY <1>2, <1>3 DEF Nearest

(* Reading the nearest sidecar gives the policy in force. *)
LEMMA ReadsPolicyInForce ==
  ASSUME SidecarsOK, NEW i \in 1..Depth, sidecar[i] # Missing,
         \A j \in 1..Depth : j < i => sidecar[j] = Missing
  PROVE  _parse_acl(sidecar[i]) = PolicyInForce
<1>1. i \in Existing
  BY DEF Existing
<1>2. Nearest = i
  BY <1>1, NearestIs
<1>3. sidecar[i] \in Sidecars
  BY DEF SidecarsOK
<1>4. CASE Accepted(sidecar[i])
  BY <1>1, <1>2, <1>3, <1>4, ParsedAsWritten DEF PolicyInForce
<1>5. CASE ~Accepted(sidecar[i])
  BY <1>1, <1>2, <1>5 DEF PolicyInForce, _parse_acl
<1>6. QED BY <1>4, <1>5

-----------------------------------------------------------------------------
LEMMA WalkPreserves ==
  ASSUME WalkInvariant, [SourceNext]_sourceVars
  PROVE  WalkInvariant'
<1>0. DOMAIN walk = DOMAIN Start
  BY DEF WalkInvariant
<1> USE DEF Unedited
<1>1. CASE UNCHANGED sourceVars
  BY <1>1 DEF sourceVars, WalkInvariant, SidecarsOK, PassedAreMissing, ChosenWasInForce,
              PolicyInForce, Nearest, Existing
<1>2. CASE Enumerate
  <2>1. /\ walk' = [Start EXCEPT !.at = IF source = "filesystem" THEN "probe" ELSE "permissions"]
        /\ inForce' = {PolicyInForce} /\ PolicyInForce' = PolicyInForce
        /\ UNCHANGED <<source, sidecar>>
    BY <1>2 DEF Enumerate, PolicyInForce, Nearest, Existing
  <2>2. /\ DOMAIN walk' = DOMAIN Start /\ walk'.place = 1 /\ walk'.policy = nobody
        /\ source = "filesystem" => walk'.at = "probe"
    BY <2>1 DEF Start
  <2>3. QED
    BY <2>1, <2>2, SourceAssumption DEF WalkInvariant, SidecarsOK, PassedAreMissing, ChosenWasInForce
<1>3. ASSUME UNCHANGED <<source, sidecar, inForce, created>>,
             DOMAIN walk' = DOMAIN Start, walk'.at \notin {"permissions"},
             walk.at # "start", PassedAreMissing', ChosenWasInForce'
      PROVE  WalkInvariant'
  BY <1>3 DEF WalkInvariant, SidecarsOK, PolicyInForce, Nearest, Existing
<1>4. CASE Probe
  <2>1. /\ walk.at = "probe" /\ DOMAIN walk' = DOMAIN Start /\ walk'.policy = walk.policy
        /\ \/ walk'.at = "read" /\ walk'.place = walk.place
           \/ walk'.at = "fetch"
           \/ /\ walk'.at = "probe" /\ walk'.place = walk.place + 1
              /\ sidecar[walk.place] = Missing /\ walk.place # Depth
    BY <1>0, <1>4 DEF Probe, Start
  <2>2. CASE source = "filesystem"
    <3>1. PassedAreMissing' /\ ChosenWasInForce'
      BY <1>4, <2>1, <2>2, SourceAssumption DEF Probe, WalkInvariant, PassedAreMissing, ChosenWasInForce
    <3>2. QED BY <1>3, <1>4, <2>1, <3>1 DEF Probe
  <2>3. QED BY <1>4, <2>1, <2>2 DEF Probe, WalkInvariant
<1>5. CASE ReadSidecar
  <2>1. /\ walk.at = "read" /\ DOMAIN walk' = DOMAIN Start /\ walk'.at \in {"raised", "fetch"}
        /\ walk'.policy = IF sidecar[walk.place] = Missing THEN nobody
                          ELSE _parse_acl(sidecar[walk.place])
    BY <1>0, <1>5 DEF ReadSidecar, Start
  <2>2. CASE source = "filesystem"
    <3>1. ASSUME ~created PROVE walk'.policy \in inForce \cup {nobody}
      BY <2>1, <2>2, <3>1, ReadsPolicyInForce DEF WalkInvariant, PassedAreMissing
    <3>2. PassedAreMissing' /\ ChosenWasInForce'
      BY <1>5, <2>1, <3>1 DEF ReadSidecar, PassedAreMissing, ChosenWasInForce
    <3>3. QED BY <1>3, <1>5, <2>1, <3>2 DEF ReadSidecar
  <2>3. QED BY <1>5, <2>1, <2>2 DEF ReadSidecar, WalkInvariant
<1>6. CASE ReadPermissions
  <2>1. walk.at = "permissions" /\ DOMAIN walk' = DOMAIN Start /\ source' = source
    BY <1>0, <1>6 DEF ReadPermissions, Start
  <2>2. QED BY <2>1 DEF WalkInvariant
<1>7. CASE Fetch
  <2>1. /\ walk.at = "fetch" /\ DOMAIN walk' = DOMAIN Start /\ walk'.at \in {"yielded", "skipped"}
        /\ walk'.policy = walk.policy
    BY <1>0, <1>7 DEF Fetch, Start
  <2>2. CASE source = "filesystem"
    <3>1. PassedAreMissing' /\ ChosenWasInForce'
      BY <1>7, <2>1, <2>2 DEF Fetch, WalkInvariant, PassedAreMissing, ChosenWasInForce
    <3>2. QED BY <1>3, <1>7, <2>1, <3>1 DEF Fetch
  <2>3. QED BY <1>7, <2>1, <2>2 DEF Fetch, WalkInvariant
<1>8. CASE NextRun
  BY <1>8 DEF NextRun, Start, WalkInvariant, SidecarsOK, PassedAreMissing, ChosenWasInForce
<1>9. CASE EditSidecar
  <2>1. PICK i \in 1..Depth, content \in Sidecars \cup {Missing} :
          /\ sidecar' = [sidecar EXCEPT ![i] = content]
          /\ created' = (created \/ (sidecar[i] = Missing /\ content # Missing))
    BY <1>9 DEF EditSidecar
  <2>2. inForce' = inForce \cup {PolicyInForce'} /\ UNCHANGED <<source, walk>>
    BY <1>9 DEF EditSidecar
  <2>3. CASE source = "filesystem"
    <3>1. SidecarsOK'
      BY <2>1, <2>3 DEF WalkInvariant, SidecarsOK
    <3>2. PassedAreMissing'
      BY <2>1, <2>2, <2>3 DEF WalkInvariant, PassedAreMissing, SidecarsOK
    <3>3. ChosenWasInForce'
      BY <2>1, <2>2, <2>3 DEF WalkInvariant, ChosenWasInForce
    <3>4. QED BY <2>2, <2>3, <3>1, <3>2, <3>3 DEF WalkInvariant
  <2>4. QED BY <2>2, <2>3 DEF WalkInvariant
<1>10. QED
  BY <1>1, <1>2, <1>4, <1>5, <1>6, <1>7, <1>8, <1>9 DEF SourceNext

-----------------------------------------------------------------------------
(* As long as no sidecar comes to be during the walk, the policy that a    *)
(* file is yielded with was in force at some moment of the walk, or it is  *)
(* nobody's.                                                               *)
THEOREM YieldedPolicyWasInForce == SourceSpec => []PolicyWasInForce
<1>1. SourceInit => WalkInvariant
  BY DEF SourceInit, WalkInvariant, Start, SidecarsOK, PassedAreMissing, ChosenWasInForce
<1>2. WalkInvariant => PolicyWasInForce
  BY DEF WalkInvariant, ChosenWasInForce, PolicyWasInForce
<1>3. QED BY <1>1, <1>2, WalkPreserves, PTL DEF SourceSpec

-----------------------------------------------------------------------------
(***************************************************************************)
(* Proofs about ConnectorRegistry, for any names and any number of         *)
(* threads, changes, failed writes and stops.                              *)
(***************************************************************************)

RequestsOK ==
  /\ request \in [Threads -> [step : {"none", "save", "open", "write"}, text : SUBSET Names]]
  /\ configs \subseteq Names /\ file.names \subseteq Names

(* There is one change in hand at most; while there is, the server is up,  *)
(* and what it is about to write is what memory has.                       *)
OneChange ==
  /\ \A w, v \in Changing : w = v
  /\ Changing # {} => up = "up"
  /\ \A w \in Threads : request[w].step \in {"open", "write"} => request[w].text = configs

(* Between changes the file is whole, or not there for no configurations.  *)
FileAgrees ==
  Changing = {} => /\ file.state # "torn" /\ file.names = promised
                   /\ up = "up" => configs = promised

RegistryInvariant ==
  /\ RequestsOK
  /\ certain => up # "refused" /\ OneChange /\ FileAgrees

-----------------------------------------------------------------------------
(* A change is asked for: add and remove. *)
LEMMA ChangePreserves ==
  ASSUME RegistryInvariant, NEW w \in Threads, Change(w), configs' \subseteq Names
  PROVE  RegistryInvariant'
<1>1. RequestsOK /\ UNCHANGED <<up, file>>
  BY DEF RegistryInvariant, Change
<1>2. request' = [request EXCEPT ![w] = [request[w] EXCEPT !.step = "save"]]
  BY DEF Change
<1>3. RequestsOK' /\ request'[w].step = "save"
  BY <1>1, <1>2 DEF RequestsOK
<1>4. Changing' = Changing \cup {w}
  BY <1>1, <1>3, <1>2 DEF Changing, RequestsOK
<1>5. ASSUME certain' PROVE up' # "refused" /\ OneChange' /\ FileAgrees'
  <2>1. certain /\ Changing = {} /\ up = "up"
    BY <1>5 DEF Change
  <2>2. \A v \in Threads : request'[v].step \notin {"open", "write"}
    BY <1>1, <1>2, <2>1 DEF RequestsOK, Changing
  <2>3. QED BY <1>1, <1>4, <2>1, <2>2 DEF OneChange, FileAgrees
<1>6. QED BY <1>3, <1>5 DEF RegistryInvariant

LEMMA LoadPreserves ==
  ASSUME RegistryInvariant, _load
  PROVE  RegistryInvariant'
<1>1. RequestsOK' /\ Changing' = Changing
  BY DEF RegistryInvariant, RequestsOK, _load, Changing
<1>2. ASSUME certain' PROVE up' # "refused" /\ OneChange' /\ FileAgrees'
  <2>1. OneChange /\ FileAgrees /\ up = "down"
    BY <1>2 DEF RegistryInvariant, _load
  <2>2. Changing = {} /\ file.state # "torn"
    BY <2>1 DEF OneChange, FileAgrees
  <2>3. \A w \in Threads : request'[w].step \notin {"open", "write"}
    BY <2>2 DEF Changing, _load
  <2>4. QED BY <1>1, <2>1, <2>2, <2>3 DEF _load, OneChange, FileAgrees
<1>3. QED BY <1>1, <1>2 DEF RegistryInvariant

LEMMA SerialisePreserves ==
  ASSUME RegistryInvariant, NEW w \in Threads, Serialise(w)
  PROVE  RegistryInvariant'
<1>1. RequestsOK' /\ Changing' = Changing \cup {w} /\ w \in Changing
  BY DEF RegistryInvariant, RequestsOK, Serialise, Changing
<1>2. ASSUME certain' PROVE up' # "refused" /\ OneChange' /\ FileAgrees'
  <2>1. OneChange /\ up # "refused"
    BY <1>2 DEF RegistryInvariant, Serialise
  <2>2. \A v \in Threads : request'[v].step \in {"open", "write"} => request'[v].text = configs
    BY <2>1 DEF Serialise, OneChange, RegistryInvariant, RequestsOK
  <2>3. QED BY <1>1, <2>1, <2>2 DEF Serialise, OneChange, FileAgrees
<1>3. QED BY <1>1, <1>2 DEF RegistryInvariant

LEMMA TruncatePreserves ==
  ASSUME RegistryInvariant, NEW w \in Threads, Truncate(w)
  PROVE  RegistryInvariant'
<1>1. RequestsOK' /\ Changing' = Changing \cup {w} /\ w \in Changing
  BY DEF RegistryInvariant, RequestsOK, Truncate, Changing
<1>2. ASSUME certain' PROVE up' # "refused" /\ OneChange' /\ FileAgrees'
  <2>1. OneChange /\ up # "refused"
    BY <1>2 DEF RegistryInvariant, Truncate
  <2>2. \A v \in Threads : request'[v].step \in {"open", "write"} => request'[v].text = configs
    BY <2>1 DEF Truncate, OneChange, RegistryInvariant, RequestsOK
  <2>3. QED BY <1>1, <2>1, <2>2 DEF Truncate, OneChange, FileAgrees
<1>3. QED BY <1>1, <1>2 DEF RegistryInvariant

LEMMA WritePreserves ==
  ASSUME RegistryInvariant, NEW w \in Threads, Write(w)
  PROVE  RegistryInvariant'
<1>1. RequestsOK' /\ Changing' = Changing \ {w} /\ w \in Changing
  BY DEF RegistryInvariant, RequestsOK, Write, Changing, NoRequest
<1>2. ASSUME certain' PROVE up' # "refused" /\ OneChange' /\ FileAgrees'
  <2>1. OneChange /\ up # "refused"
    BY <1>2 DEF RegistryInvariant, Write
  <2>2. Changing' = {}
    BY <1>1, <2>1 DEF OneChange
  <2>3. file'.state = "whole" /\ file'.names = configs /\ promised' = configs /\ configs' = configs
    BY <2>1 DEF Write, OneChange
  <2>4. \A v \in Threads : request'[v].step \notin {"open", "write"}
    BY <2>2 DEF Changing
  <2>5. QED BY <2>1, <2>2, <2>3, <2>4 DEF Write, OneChange, FileAgrees
<1>3. QED BY <1>1, <1>2 DEF RegistryInvariant

LEMMA StopPreserves ==
  ASSUME RegistryInvariant, Stop
  PROVE  RegistryInvariant'
<1>1. RequestsOK' /\ Changing' = {} /\ \A v \in Threads : request'[v].step = "none"
  BY DEF RegistryInvariant, RequestsOK, Stop, Changing, NoRequest
<1>2. ASSUME certain' PROVE up' # "refused" /\ OneChange' /\ FileAgrees'
  <2>1. FileAgrees /\ Changing = {}
    BY <1>2 DEF RegistryInvariant, Stop
  <2>2. QED BY <1>1, <2>1 DEF Stop, OneChange, FileAgrees
<1>3. QED BY <1>1, <1>2 DEF RegistryInvariant

LEMMA StepPreserves ==
  ASSUME RegistryInvariant, [RegistryNext]_registryVars
  PROVE  RegistryInvariant'
<1>1. CASE UNCHANGED registryVars
  BY <1>1 DEF registryVars, RegistryInvariant, RequestsOK, OneChange, FileAgrees, Changing
<1>2. ASSUME NEW w \in Threads, NEW n \in Names, add(w, n) \/ remove(w, n) PROVE RegistryInvariant'
  <2>1. Change(w) /\ configs' \subseteq Names
    BY <1>2 DEF add, remove, RegistryInvariant, RequestsOK
  <2>2. QED BY <2>1, ChangePreserves
<1>3. ASSUME NEW w \in Threads, SaveFails(w) PROVE RegistryInvariant'
  BY <1>3 DEF SaveFails, RegistryInvariant, RequestsOK, NoRequest
<1>4. QED
  BY <1>1, <1>2, <1>3, LoadPreserves, StopPreserves, SerialisePreserves, TruncatePreserves,
     WritePreserves
  DEF RegistryNext

-----------------------------------------------------------------------------
(* Whatever the admin endpoints have answered is what memory and the file  *)
(* have, and what a process that starts finds, as long as no two changes   *)
(* overlapped and none was cut short.                                      *)
THEOREM RestartsFindPromised == RegistrySpec => []RestartFindsPromised
<1>1. RegistryInit => RegistryInvariant
  BY DEF RegistryInit, RegistryInvariant, RequestsOK, OneChange, FileAgrees, Changing, NoRequest
<1>2. RegistryInvariant => RestartFindsPromised
  BY DEF RegistryInvariant, FileAgrees, RestartFindsPromised
<1>3. QED BY <1>1, <1>2, StepPreserves, PTL DEF RegistrySpec

-----------------------------------------------------------------------------
(***************************************************************************)
(* Proofs about RequestScope, for any tasks, connectors, secrets and       *)
(* nesting of scopes: INV-3, no token is usable outside its own scope.     *)
(***************************************************************************)

Headers == [Connectors -> Secrets \cup {NoSecret}]
ScopeType == [listed : SUBSET Connectors, secret : Headers, task : Tasks, outer : Nat,
              given : Headers, ended : BOOLEAN]

TypesOK ==
  /\ scopes \in Seq(ScopeType)
  /\ DOMAIN context = Tasks /\ DOMAIN doing = Tasks
  /\ inside \in [Tasks -> Seq(Nat)]
  /\ \A t \in Tasks : \A i \in DOMAIN inside[t] : inside[t][i] \in DOMAIN scopes
  /\ \A t \in Tasks : doing[t].what = "wipe" => doing[t].scope \in DOMAIN scopes

(* A scope has its tokens listed until it ends, and then none to reveal.   *)
EndedIsWiped ==
  \A s \in DOMAIN scopes :
    IF scopes[s].ended THEN \A c \in Connectors : scopes[s].secret[c] = NoSecret
    ELSE scopes[s].listed = {c \in Connectors : scopes[s].given[c] # NoSecret}

(* The exit of a with statement finds the scope around it.                 *)
StacksLink ==
  \A t \in Tasks : \A i \in DOMAIN inside[t] :
    Within(t, inside[t][i]) => scopes[inside[t][i]].outer = IF i = 1 THEN 0 ELSE inside[t][i - 1]

(* A scope lives until the task that entered it has wiped it.              *)
LivesInTask ==
  \A s \in DOMAIN scopes : \A t \in Tasks : Within(t, s) =>
    \/ \E i \in DOMAIN inside[t] : inside[t][i] = s
    \/ doing[t] = [what |-> "wipe", scope |-> s]

ContextIsInnermost == \A t \in Tasks : context[t] = Innermost(t)

(* A task that is about to reveal a token is still in the token's scope.   *)
HoldersAreInside ==
  \A t \in Tasks : doing[t].what = "token" =>
    doing[t].scope = Innermost(t) /\ Innermost(t) # 0 /\ doing[t].connector \in Connectors

ScopeInvariant ==
  /\ TypesOK /\ EndedIsWiped /\ StacksLink /\ LivesInTask /\ ContextIsInnermost
  /\ HoldersAreInside /\ TokensStayInScope

-----------------------------------------------------------------------------
LEMMA InnermostIsAScope ==
  ASSUME TypesOK, NEW t \in Tasks
  PROVE  /\ Innermost(t) \in Nat
         /\ inside[t] # <<>> => /\ Len(inside[t]) \in DOMAIN inside[t]
                               /\ Innermost(t) = inside[t][Len(inside[t])]
         /\ Innermost(t) # 0 => Innermost(t) \in DOMAIN scopes /\ inside[t] # <<>>
         /\ inside[t] # <<>> => Innermost(t) # 0
BY DEF TypesOK, Innermost, Last

LEMMA Appended ==
  ASSUME NEW q \in Seq(Nat), NEW n \in Nat
  PROVE  /\ Append(q, n) \in Seq(Nat) /\ Len(Append(q, n)) = Len(q) + 1
         /\ DOMAIN Append(q, n) = DOMAIN q \cup {Len(q) + 1}
         /\ Append(q, n)[Len(q) + 1] = n /\ Append(q, n) # <<>>
         /\ \A i \in DOMAIN q : Append(q, n)[i] = q[i] /\ i # Len(q) + 1
<1>1. Append(q, n) \in Seq(Nat) /\ Len(Append(q, n)) = Len(q) + 1
  OBVIOUS
<1>2. Append(q, n) # <<>>
  BY <1>1
<1>3. QED BY <1>1, <1>2

LEMMA Shortened ==
  ASSUME NEW q \in Seq(Nat), q # <<>>
  PROVE  /\ Len(q) \in Nat \ {0} /\ Len(q) \in DOMAIN q
         /\ Front(q) \in Seq(Nat) /\ Len(Front(q)) = Len(q) - 1
         /\ DOMAIN Front(q) = 1..(Len(q) - 1)
         /\ \A i \in 1..(Len(q) - 1) : Front(q)[i] = q[i] /\ i \in DOMAIN q
<1>1. Len(q) \in Nat \ {0} /\ DOMAIN q = 1..Len(q)
  OBVIOUS
<1>2. Front(q) = SubSeq(q, 1, Len(q) - 1)
  BY DEF Front
<1>3. /\ Front(q) \in Seq(Nat) /\ Len(Front(q)) = Len(q) - 1
      /\ \A i \in 1..(Len(q) - 1) : Front(q)[i] = q[i]
  BY <1>1, <1>2, SubSeqProperties
<1>4. QED BY <1>1, <1>3

(* A scope is entered. *)
LEMMA EnterPreserves ==
  ASSUME ScopeInvariant, NEW t \in Tasks, NEW headers \in Headers, request_scope(t, headers)
  PROVE  ScopeInvariant'
<1> DEFINE n == Len(scopes) + 1
<1>1. /\ scopes' = Append(scopes, Scope(t, headers)) /\ Len(scopes') = n
      /\ context' = [context EXCEPT ![t] = n] /\ inside' = [inside EXCEPT ![t] = Append(@, n)]
      /\ UNCHANGED <<doing, misuse>> /\ doing[t] = Nothing
      /\ TypesOK /\ ContextIsInnermost
  BY DEF request_scope, ScopeInvariant, TypesOK, Free
<1>2. context[t] \in Nat
  BY <1>1, InnermostIsAScope DEF ContextIsInnermost
<1>3. Scope(t, headers) \in ScopeType
  BY <1>2 DEF Scope, ScopeType, Headers
<1>4. /\ DOMAIN scopes' = DOMAIN scopes \cup {n} /\ n \notin DOMAIN scopes /\ n \in Nat \ {0}
      /\ scopes'[n] = Scope(t, headers) /\ \A s \in DOMAIN scopes : scopes'[s] = scopes[s]
      /\ scopes' \in Seq(ScopeType)
  BY <1>1, <1>3 DEF TypesOK
<1>5. /\ inside'[t] = Append(inside[t], n)
      /\ \A u \in Tasks \ {t} : inside'[u] = inside[u]
      /\ inside[t] \in Seq(Nat)
  BY <1>1 DEF TypesOK
<1>6. /\ Len(inside'[t]) = Len(inside[t]) + 1 /\ inside'[t][Len(inside[t]) + 1] = n
      /\ DOMAIN inside'[t] = DOMAIN inside[t] \cup {Len(inside[t]) + 1}
      /\ \A i \in DOMAIN inside[t] : inside'[t][i] = inside[t][i] /\ i # Len(inside[t]) + 1
      /\ inside'[t] # <<>> /\ inside'[t] \in Seq(Nat)
  <2> HIDE DEF n
  <2>1. QED BY <1>4, <1>5, Appended
<1>7. TypesOK'
  <2>2. inside' \in [Tasks -> Seq(Nat)]
    BY <1>1, <1>6 DEF TypesOK
  <2>3. \A u \in Tasks : \A i \in DOMAIN inside'[u] : inside'[u][i] \in DOMAIN scopes'
    BY <1>1, <1>4, <1>5, <1>6 DEF TypesOK
  <2>4. QED BY <1>1, <1>4, <2>2, <2>3 DEF TypesOK
<1>8. EndedIsWiped'
  BY <1>4 DEF ScopeInvariant, EndedIsWiped, Scope
<1>9. /\ Innermost(t)' = n
      /\ \A u \in Tasks \ {t} : Innermost(u)' = Innermost(u)
  BY <1>5, <1>6 DEF Innermost, Last
<1>10. ContextIsInnermost'
  BY <1>1, <1>9 DEF ContextIsInnermost, TypesOK
<1>11. StacksLink'
  <2> SUFFICES ASSUME NEW u \in Tasks, NEW i \in DOMAIN inside'[u], Within(u, inside[u][i])'
               PROVE  scopes'[inside'[u][i]].outer = IF i = 1 THEN 0 ELSE inside'[u][i - 1]
    BY DEF StacksLink
  <2>1. CASE u = t /\ i = Len(inside[t]) + 1
    <3>1. scopes'[inside'[u][i]].outer = context[t]
      BY <2>1, <1>4, <1>6 DEF Scope
    <3>2. CASE inside[t] = <<>>
      BY <2>1, <3>1, <3>2, <1>1 DEF ContextIsInnermost, Innermost
    <3>3. CASE inside[t] # <<>>
      <4>1. context[t] = inside[t][Len(inside[t])] /\ Len(inside[t]) \in DOMAIN inside[t]
        BY <3>3, <1>1, InnermostIsAScope DEF ContextIsInnermost
      <4>2. QED BY <2>1, <3>1, <4>1, <1>5, <1>6
    <3>4. QED BY <3>2, <3>3
  <2>2. CASE ~(u = t /\ i = Len(inside[t]) + 1)
    <3>1. i \in DOMAIN inside[u] /\ inside'[u][i] = inside[u][i] /\ inside[u][i] \in DOMAIN scopes
      BY <2>2, <1>1, <1>5, <1>6 DEF TypesOK
    <3>2. i # 1 => i - 1 \in DOMAIN inside[u] /\ inside'[u][i - 1] = inside[u][i - 1]
      BY <3>1, <1>1, <1>5, <1>6 DEF TypesOK
    <3>3. Within(u, inside[u][i])
      BY <3>1, <1>4 DEF Within
    <3>4. QED BY <3>1, <3>2, <3>3, <1>4 DEF ScopeInvariant, StacksLink
  <2>3. QED BY <2>1, <2>2
<1>12. LivesInTask'
  <2> SUFFICES ASSUME NEW s \in DOMAIN scopes', NEW u \in Tasks, Within(u, s)'
               PROVE  \/ \E i \in DOMAIN inside'[u] : inside'[u][i] = s
                      \/ doing'[u] = [what |-> "wipe", scope |-> s]
    BY DEF LivesInTask
  <2>1. CASE s = n
    BY <2>1, <1>4, <1>6 DEF Within, Scope
  <2>2. CASE s # n
    <3>1. s \in DOMAIN scopes /\ Within(u, s)
      BY <2>2, <1>4 DEF Within
    <3>2. \/ \E i \in DOMAIN inside[u] : inside[u][i] = s
          \/ doing[u] = [what |-> "wipe", scope |-> s]
      BY <3>1 DEF ScopeInvariant, LivesInTask
    <3>3. QED BY <3>2, <1>1, <1>5, <1>6
  <2>3. QED BY <2>1, <2>2
<1>13. HoldersAreInside'
  BY <1>1, <1>9 DEF ScopeInvariant, HoldersAreInside, Nothing
<1>14. QED
  BY <1>1, <1>7, <1>8, <1>10, <1>11, <1>12, <1>13 DEF ScopeInvariant, TokensStayInScope

(* A task is started inside a scope, and ends. *)
LEMMA StartPreserves ==
  ASSUME ScopeInvariant, NEW t \in Tasks, NEW u \in Tasks, StartTask(t, u)
  PROVE  ScopeInvariant'
<1>1. /\ context' = [context EXCEPT ![u] = context[t]] /\ inside' = [inside EXCEPT ![u] = <<context[t]>>]
      /\ UNCHANGED <<scopes, doing, misuse>>
      /\ doing[u] = Nothing /\ inside[u] = <<>> /\ context[t] # 0
      /\ TypesOK /\ ContextIsInnermost /\ LivesInTask
  BY DEF StartTask, ScopeInvariant, Free
<1>2. context[t] \in DOMAIN scopes /\ context[t] \in Nat
  BY <1>1, InnermostIsAScope DEF ContextIsInnermost
<1>3. /\ inside'[u] = <<context[t]>> /\ \A v \in Tasks \ {u} : inside'[v] = inside[v]
      /\ DOMAIN inside'[u] = {1} /\ inside'[u][1] = context[t] /\ inside'[u] # <<>>
  BY <1>1 DEF TypesOK
<1>4. ~Within(u, context[t])
  <2>1. DOMAIN inside[u] = {} /\ doing[u].what = "nothing"
    BY <1>1 DEF Nothing
  <2>2. \A s : doing[u] # [what |-> "wipe", scope |-> s]
    BY <2>1
  <2>3. QED BY <1>1, <1>2, <2>1, <2>2 DEF LivesInTask
<1>5. TypesOK'
  <2>1. inside' \in [Tasks -> Seq(Nat)]
    BY <1>1, <1>2 DEF TypesOK
  <2>2. \A v \in Tasks : \A i \in DOMAIN inside'[v] : inside'[v][i] \in DOMAIN scopes
    BY <1>1, <1>2, <1>3 DEF TypesOK
  <2>3. QED BY <1>1, <2>1, <2>2 DEF TypesOK
<1>6. Innermost(u)' = context[t] /\ \A v \in Tasks \ {u} : Innermost(v)' = Innermost(v)
  BY <1>3 DEF Innermost, Last
<1>7. ContextIsInnermost'
  BY <1>1, <1>6 DEF ContextIsInnermost, TypesOK
<1>8. StacksLink'
  BY <1>1, <1>3, <1>4 DEF ScopeInvariant, StacksLink, Within
<1>9. LivesInTask'
  BY <1>1, <1>3 DEF LivesInTask, Within
<1>10. HoldersAreInside'
  BY <1>1, <1>6 DEF ScopeInvariant, HoldersAreInside, Nothing
<1>11. QED
  BY <1>1, <1>5, <1>7, <1>8, <1>9, <1>10 DEF ScopeInvariant, EndedIsWiped, TokensStayInScope

LEMMA EndPreserves ==
  ASSUME ScopeInvariant, NEW t \in Tasks, EndTask(t)
  PROVE  ScopeInvariant'
<1>1. /\ context' = [context EXCEPT ![t] = 0] /\ inside' = [inside EXCEPT ![t] = <<>>]
      /\ UNCHANGED <<scopes, doing, misuse>>
      /\ doing[t] = Nothing /\ Len(inside[t]) = 1 /\ ~Within(t, inside[t][1])
      /\ TypesOK /\ ContextIsInnermost /\ LivesInTask
  BY DEF EndTask, ScopeInvariant, Free, TypesOK
<1>2. inside'[t] = <<>> /\ \A u \in Tasks \ {t} : inside'[u] = inside[u]
  BY <1>1 DEF TypesOK
<1>3. TypesOK'
  BY <1>1, <1>2 DEF TypesOK
<1>4. Innermost(t)' = 0 /\ \A u \in Tasks \ {t} : Innermost(u)' = Innermost(u)
  BY <1>2 DEF Innermost
<1>5. ContextIsInnermost'
  BY <1>1, <1>4 DEF ContextIsInnermost, TypesOK
<1>6. StacksLink'
  BY <1>1, <1>2 DEF ScopeInvariant, StacksLink, Within
<1>7. LivesInTask'
  <2>1. \A s \in DOMAIN scopes : ~Within(t, s)
    BY <1>1 DEF LivesInTask, Nothing, TypesOK
  <2>2. QED BY <1>1, <1>2, <2>1 DEF LivesInTask, Within
<1>8. HoldersAreInside'
  BY <1>1, <1>4 DEF ScopeInvariant, HoldersAreInside, Nothing
<1>9. QED
  BY <1>1, <1>3, <1>5, <1>6, <1>7, <1>8 DEF ScopeInvariant, EndedIsWiped, TokensStayInScope

(* The exit of a with statement puts the scope around it back, and has     *)
(* the tokens to wipe.                                                     *)
LEMMA LeavePreserves ==
  ASSUME ScopeInvariant, NEW t \in Tasks, Leave(t)
  PROVE  ScopeInvariant'
<1> DEFINE n == Len(inside[t])
           s == inside[t][n]
<1>1. /\ context' = [context EXCEPT ![t] = scopes[s].outer]
      /\ inside' = [inside EXCEPT ![t] = Front(@)]
      /\ doing' = [doing EXCEPT ![t] = [what |-> "wipe", scope |-> s]]
      /\ UNCHANGED <<scopes, misuse>>
      /\ inside[t] # <<>> /\ Innermost(t) = s /\ Within(t, s) /\ n \in DOMAIN inside[t]
      /\ TypesOK /\ ContextIsInnermost /\ LivesInTask /\ StacksLink
  <2>1. TypesOK /\ Innermost(t) # 0
    BY DEF Leave, ScopeInvariant
  <2>2. QED BY <2>1, InnermostIsAScope DEF Leave, ScopeInvariant
<1>2. inside[t] \in Seq(Nat) /\ n \in Nat \ {0} /\ s \in DOMAIN scopes
  BY <1>1, Shortened DEF TypesOK
<1>3. /\ inside'[t] \in Seq(Nat)
      /\ Len(inside'[t]) = n - 1 /\ DOMAIN inside'[t] = 1..(n - 1)
      /\ \A i \in 1..(n - 1) : inside'[t][i] = inside[t][i] /\ i \in DOMAIN inside[t]
      /\ \A u \in Tasks \ {t} : inside'[u] = inside[u]
  <2>1. inside'[t] = Front(inside[t]) /\ \A u \in Tasks \ {t} : inside'[u] = inside[u]
    BY <1>1 DEF TypesOK
  <2>2. QED BY <1>1, <1>2, <2>1, Shortened
<1>4. doing'[t] = [what |-> "wipe", scope |-> s] /\ \A u \in Tasks \ {t} : doing'[u] = doing[u]
  BY <1>1 DEF TypesOK
<1>5. TypesOK'
  <2>1. inside' \in [Tasks -> Seq(Nat)]
    BY <1>1, <1>3 DEF TypesOK
  <2>2. \A u \in Tasks : \A i \in DOMAIN inside'[u] : inside'[u][i] \in DOMAIN scopes
    BY <1>1, <1>3 DEF TypesOK
  <2>3. QED BY <1>1, <1>2, <1>4, <2>1, <2>2 DEF TypesOK
<1>6. scopes[s].outer = Innermost(t)' /\ \A u \in Tasks \ {t} : Innermost(u)' = Innermost(u)
  <2>1. scopes[s].outer = IF n = 1 THEN 0 ELSE inside[t][n - 1]
    BY <1>1 DEF StacksLink
  <2>2. n = 1 => inside'[t] = <<>>
    BY <1>3
  <2>3. ASSUME n # 1 PROVE inside'[t] # <<>> /\ inside'[t][Len(inside'[t])] = inside[t][n - 1]
    <3>0. n \in Nat \ {0} /\ n # 1
      BY <1>2, <2>3
    <3>1. n - 1 \in 1..(n - 1) /\ n - 1 # 0
      <4> HIDE DEF n
      <4>1. QED BY <3>0
    <3>2. inside'[t][Len(inside'[t])] = inside[t][n - 1]
      BY <1>3, <3>1
    <3>3. inside'[t] # <<>>
      BY <1>3, <3>1
    <3>4. QED BY <3>2, <3>3
  <2>4. QED BY <1>3, <2>1, <2>2, <2>3 DEF Innermost, Last
<1>7. ContextIsInnermost'
  BY <1>1, <1>6 DEF ContextIsInnermost, TypesOK
<1>8. StacksLink'
  <2> SUFFICES ASSUME NEW u \in Tasks, NEW i \in DOMAIN inside'[u], Within(u, inside[u][i])'
               PROVE  scopes'[inside'[u][i]].outer = IF i = 1 THEN 0 ELSE inside'[u][i - 1]
    BY DEF StacksLink
  <2>1. i \in DOMAIN inside[u] /\ inside'[u][i] = inside[u][i]
    BY <1>3
  <2>2. i # 1 => inside'[u][i - 1] = inside[u][i - 1]
    <3>1. CASE u = t
      <4>1. i # 1 => i - 1 \in 1..(n - 1)
        BY <1>2, <1>3, <3>1
      <4>2. QED BY <1>3, <3>1, <4>1
    <3>2. QED BY <1>3, <3>1
  <2>3. QED BY <1>1, <2>1, <2>2 DEF StacksLink, Within
<1>9. LivesInTask'
  <2> SUFFICES ASSUME NEW r \in DOMAIN scopes, NEW u \in Tasks, Within(u, r)
               PROVE  \/ \E i \in DOMAIN inside'[u] : inside'[u][i] = r
                      \/ doing'[u] = [what |-> "wipe", scope |-> r]
    BY <1>1 DEF LivesInTask, Within
  <2>1. \/ \E i \in DOMAIN inside[u] : inside[u][i] = r
        \/ doing[u] = [what |-> "wipe", scope |-> r]
    BY <1>1 DEF LivesInTask
  <2>2. CASE u # t
    BY <2>1, <2>2, <1>3, <1>4
  <2>3. CASE u = t
    <3>1. doing[t].what # "wipe"
      BY DEF Leave, Exits
    <3>2. PICK i \in DOMAIN inside[t] : inside[t][i] = r
      BY <2>1, <2>3, <3>1
    <3>3. CASE i = n
      BY <2>3, <3>2, <3>3, <1>4
    <3>4. CASE i # n
      <4>1. i \in 1..(n - 1)
        BY <3>2, <3>4, <1>2
      <4>2. QED BY <2>3, <3>2, <4>1, <1>3
    <3>5. QED BY <3>3, <3>4
  <2>4. QED BY <2>2, <2>3
<1>10. HoldersAreInside'
  BY <1>4, <1>6 DEF ScopeInvariant, HoldersAreInside
<1>11. QED
  BY <1>1, <1>5, <1>7, <1>8, <1>9, <1>10 DEF ScopeInvariant, EndedIsWiped, TokensStayInScope

-----------------------------------------------------------------------------
(* wipe takes secrets away, and ends the scope when there is none left.    *)
LEMMA WipePreserves ==
  ASSUME ScopeInvariant, NEW t \in Tasks, WipeToken(t) \/ WipeTokens(t)
  PROVE  ScopeInvariant'
<1> DEFINE s == doing[t].scope
<1>0. /\ TypesOK /\ doing[t].what = "wipe" /\ UNCHANGED <<context, inside, misuse>>
      /\ doing' = doing \/ doing' = [doing EXCEPT ![t] = Nothing]
  BY DEF ScopeInvariant, WipeToken, WipeTokens, Wiping
<1>1. s \in DOMAIN scopes /\ scopes[s] \in ScopeType
  BY <1>0 DEF TypesOK
<1>2. PICK r \in ScopeType :
        /\ scopes' = [scopes EXCEPT ![s] = r]
        /\ r.task = scopes[s].task /\ r.outer = scopes[s].outer /\ r.given = scopes[s].given
        /\ \A c \in Connectors : scopes[s].secret[c] = NoSecret => r.secret[c] = NoSecret
        /\ \/ r.ended = scopes[s].ended /\ r.listed = scopes[s].listed /\ doing' = doing
           \/ /\ r.ended /\ doing' = [doing EXCEPT ![t] = Nothing]
              /\ \A c \in Connectors : r.secret[c] = NoSecret
  <2>1. CASE WipeToken(t)
    <3>1. PICK c \in Connectors : scopes' = [scopes EXCEPT ![s].secret[c] = NoSecret]
      BY <2>1, <1>1 DEF WipeToken, ScopeType
    <3> DEFINE r == [scopes[s] EXCEPT !.secret[c] = NoSecret]
    <3>2. scopes' = [scopes EXCEPT ![s] = r] /\ doing' = doing
      BY <2>1, <3>1 DEF WipeToken
    <3>3. r \in ScopeType
      BY <1>1 DEF ScopeType, Headers
    <3>4. /\ r.task = scopes[s].task /\ r.outer = scopes[s].outer /\ r.given = scopes[s].given
          /\ r.ended = scopes[s].ended /\ r.listed = scopes[s].listed
          /\ \A d \in Connectors : scopes[s].secret[d] = NoSecret => r.secret[d] = NoSecret
      BY <1>1 DEF ScopeType, Headers
    <3> HIDE DEF r
    <3>5. QED BY <3>2, <3>3, <3>4
  <2>2. CASE WipeTokens(t)
    <3> DEFINE r == [scopes[s] EXCEPT !.listed = {}, !.ended = TRUE]
    <3>1. scopes' = [scopes EXCEPT ![s] = r] /\ doing' = [doing EXCEPT ![t] = Nothing]
      BY <2>2, <1>1 DEF WipeTokens
    <3>2. r \in ScopeType
      BY <1>1 DEF ScopeType
    <3>3. /\ r.task = scopes[s].task /\ r.outer = scopes[s].outer /\ r.given = scopes[s].given
          /\ r.ended /\ r.secret = scopes[s].secret
      BY <1>1 DEF ScopeType
    <3>4. \A c \in Connectors : scopes[s].secret[c] = NoSecret
      BY <2>2 DEF WipeTokens
    <3> HIDE DEF r
    <3>5. QED BY <3>1, <3>2, <3>3, <3>4
  <2>3. QED BY <2>1, <2>2
<1>3. TypesOK' /\ DOMAIN scopes' = DOMAIN scopes
      /\ scopes'[s] = r /\ \A q \in DOMAIN scopes \ {s} : scopes'[q] = scopes[q]
  <2>1. /\ scopes' \in Seq(ScopeType) /\ DOMAIN scopes' = DOMAIN scopes
        /\ scopes'[s] = r /\ \A q \in DOMAIN scopes \ {s} : scopes'[q] = scopes[q]
    BY <1>0, <1>1, <1>2, ExceptSeq DEF TypesOK
  <2>2. \A u \in Tasks : doing'[u].what = "wipe" => doing'[u] = doing[u]
    BY <1>0 DEF TypesOK, Nothing
  <2>3. QED BY <1>0, <2>1, <2>2 DEF TypesOK
<1>4. EndedIsWiped'
  BY <1>1, <1>2, <1>3 DEF ScopeInvariant, EndedIsWiped
<1>5. \A q \in DOMAIN scopes : scopes'[q].outer = scopes[q].outer /\ \A u \in Tasks : Within(u, q)' => Within(u, q)
  BY <1>1, <1>2, <1>3 DEF Within
<1>6. StacksLink'
  <2>1. \A u \in Tasks : \A i \in DOMAIN inside[u] : inside[u][i] \in DOMAIN scopes
    BY <1>0 DEF TypesOK
  <2>2. QED BY <1>0, <1>5, <2>1 DEF ScopeInvariant, StacksLink
<1>7. LivesInTask'
  <2> SUFFICES ASSUME NEW q \in DOMAIN scopes, NEW u \in Tasks, Within(u, q)'
               PROVE  \/ \E i \in DOMAIN inside[u] : inside[u][i] = q
                      \/ doing'[u] = [what |-> "wipe", scope |-> q]
    BY <1>0, <1>3 DEF LivesInTask
  <2>1. \/ \E i \in DOMAIN inside[u] : inside[u][i] = q
        \/ doing[u] = [what |-> "wipe", scope |-> q]
    BY <1>5 DEF ScopeInvariant, LivesInTask
  <2>2. CASE doing' = doing
    BY <2>1, <2>2
  <2>3. CASE u # t
    <3>1. doing'[u] = doing[u]
      BY <2>3, <1>0 DEF TypesOK
    <3>2. QED BY <2>1, <3>1
  <2>4. CASE u = t /\ doing' # doing
    <3>1. q # s
      BY <2>4, <1>2, <1>3 DEF Within
    <3>2. QED BY <2>1, <2>4, <3>1
  <2>5. QED BY <2>2, <2>3, <2>4
<1>8. ContextIsInnermost'
  BY <1>0 DEF ScopeInvariant, ContextIsInnermost, Innermost
<1>9. HoldersAreInside'
  <2>1. \A u \in Tasks : doing'[u].what = "token" => doing'[u] = doing[u]
    BY <1>0 DEF TypesOK, Nothing
  <2>2. QED BY <1>0, <2>1 DEF ScopeInvariant, HoldersAreInside, Innermost
<1>10. QED BY <1>0, <1>3, <1>4, <1>6, <1>7, <1>8, <1>9 DEF ScopeInvariant, TokensStayInScope

(* A task that does something else, from being free or until it is.        *)
LEMMA UsePreserves ==
  ASSUME ScopeInvariant, NEW t \in Tasks, NEW d, UNCHANGED <<scopes, context, inside>>,
         doing[t].what # "wipe", doing' = doing \/ doing' = [doing EXCEPT ![t] = d],
         d.what # "wipe", d.what = "token" => d.scope = Innermost(t) /\ Innermost(t) # 0 /\ d.connector \in Connectors,
         TokensStayInScope'
  PROVE  ScopeInvariant'
<1>0. TypesOK'
  <2>1. \A u \in Tasks : doing'[u].what = "wipe" => doing'[u] = doing[u]
    BY DEF ScopeInvariant, TypesOK
  <2>2. QED BY <2>1 DEF ScopeInvariant, TypesOK
<1>1. EndedIsWiped' /\ StacksLink' /\ ContextIsInnermost'
  BY DEF ScopeInvariant, EndedIsWiped, StacksLink, ContextIsInnermost, Innermost, Within
<1>2. LivesInTask'
  <2> SUFFICES ASSUME NEW s \in DOMAIN scopes, NEW u \in Tasks, Within(u, s)
               PROVE  \/ \E i \in DOMAIN inside[u] : inside[u][i] = s
                      \/ doing'[u] = [what |-> "wipe", scope |-> s]
    BY DEF LivesInTask, Within
  <2>1. \/ \E i \in DOMAIN inside[u] : inside[u][i] = s
        \/ doing[u] = [what |-> "wipe", scope |-> s]
    BY DEF ScopeInvariant, LivesInTask
  <2>2. u # t => doing'[u] = doing[u]
    BY DEF ScopeInvariant, TypesOK
  <2>3. QED BY <2>1, <2>2
<1>3. HoldersAreInside'
  BY DEF ScopeInvariant, HoldersAreInside, Innermost, TypesOK
<1>4. QED BY <1>0, <1>1, <1>2, <1>3 DEF ScopeInvariant

LEMMA TokenForPreserves ==
  ASSUME ScopeInvariant, NEW t \in Tasks, NEW c \in Connectors, token_for(t, c)
  PROVE  ScopeInvariant'
<1> DEFINE d == [what |-> "token", scope |-> context[t], connector |-> c]
<1>1. /\ TypesOK /\ context[t] = Innermost(t) /\ doing[t].what = "nothing" /\ misuse = FALSE
      /\ UNCHANGED <<scopes, context, inside>>
  BY DEF ScopeInvariant, ContextIsInnermost, token_for, Free, Nothing, TokensStayInScope
<1>2. CASE c \in Visible(t)
  <2>1. context[t] # 0 /\ doing' = [doing EXCEPT ![t] = d] /\ misuse' = misuse
    BY <1>2 DEF token_for, Visible
  <2>2. d.what = "token" /\ d.scope = Innermost(t) /\ d.connector = c
    BY <1>1
  <2>3. doing[t].what # "wipe" /\ Innermost(t) # 0 /\ TokensStayInScope'
    BY <1>1, <2>1 DEF TokensStayInScope
  <2> HIDE DEF d
  <2>4. QED BY <1>1, <2>1, <2>2, <2>3, UsePreserves
<1>3. CASE c \notin Visible(t)
  <2>1. ~Withheld(t, c)
    BY <1>1, <1>3, InnermostIsAScope DEF Withheld, Open, Visible, ScopeInvariant, EndedIsWiped
  <2>2. UNCHANGED <<doing, misuse>>
    BY <1>1, <1>3, <2>1 DEF token_for
  <2>3. QED BY <1>1, <2>2 DEF ScopeInvariant, TypesOK, EndedIsWiped, StacksLink, LivesInTask,
                 ContextIsInnermost, HoldersAreInside, Innermost, Within, TokensStayInScope
<1>4. QED BY <1>2, <1>3

LEMMA RevealPreserves ==
  ASSUME ScopeInvariant, NEW t \in Tasks, reveal(t)
  PROVE  ScopeInvariant'
<1>1. /\ TypesOK /\ doing[t].what = "token" /\ misuse = FALSE
      /\ doing[t].scope = Innermost(t) /\ Innermost(t) # 0 /\ doing[t].connector \in Connectors
      /\ UNCHANGED <<scopes, context, inside>> /\ doing' = [doing EXCEPT ![t] = Nothing]
  BY DEF ScopeInvariant, HoldersAreInside, reveal, TokensStayInScope
<1>2. ~(Usable(doing[t].scope, doing[t].connector) /\ scopes[doing[t].scope].ended)
  BY <1>1, InnermostIsAScope DEF ScopeInvariant, EndedIsWiped, Usable
<1>3. misuse' = FALSE
  BY <1>1, <1>2 DEF reveal
<1>4. Nothing.what = "nothing" /\ TokensStayInScope'
  BY <1>3 DEF Nothing, TokensStayInScope
<1>5. QED BY <1>1, <1>4, UsePreserves

-----------------------------------------------------------------------------
(* A log call keeps its fields. *)
CallsHaveFields ==
  /\ DOMAIN doing = Tasks
  /\ \A t \in Tasks : Logging(t) => DOMAIN doing[t] = DOMAIN Redacting(0, <<>>, {})

(* What redact and replace make of a log call. *)
LEMMA RedactIs ==
  ASSUME CallsHaveFields, NEW t \in Tasks, NEW c, redact(t, c)
  PROVE  \E e : /\ doing' = [doing EXCEPT ![t] = e]
                /\ DOMAIN e = DOMAIN Redacting(0, <<>>, {})
                /\ e.left = doing[t].left \ {c} /\ e.at = 0
                /\ e.secret = scopes[doing[t].scope].secret[c]
                /\ e.what = "log" /\ e.scope = doing[t].scope /\ e.message = doing[t].message
                /\ e.tokens = doing[t].tokens /\ e.text = doing[t].text
                /\ e.origin = doing[t].origin
<1> DEFINE d == doing[t]
           e == [d EXCEPT !.left = d.left \ {c}, !.secret = scopes[d.scope].secret[c], !.at = 0]
<1>1. d.what = "log" /\ DOMAIN d = {"what", "scope", "message", "tokens", "left", "text",
                                   "origin", "secret", "at"}
  BY DEF redact, Turn, Logging, CallsHaveFields, Redacting
<1>2. doing' = [doing EXCEPT ![t] = e]
  BY DEF redact
<1>3. DOMAIN e = DOMAIN Redacting(0, <<>>, {})
  BY <1>1 DEF Redacting
<1>4. /\ e.left = d.left \ {c} /\ e.at = 0 /\ e.secret = scopes[d.scope].secret[c]
      /\ e.what = "log" /\ e.scope = d.scope /\ e.message = d.message
      /\ e.tokens = d.tokens /\ e.text = d.text /\ e.origin = d.origin
  BY <1>1
<1> HIDE DEF e
<1>5. QED BY <1>2, <1>3, <1>4

LEMMA ReplaceIs ==
  ASSUME CallsHaveFields, NEW t \in Tasks, replace(t)
  PROVE  \E e : /\ doing' = [doing EXCEPT ![t] = e]
                /\ DOMAIN e = DOMAIN Redacting(0, <<>>, {})
                /\ e.what = "log" /\ e.scope = doing[t].scope /\ e.message = doing[t].message
                /\ e.tokens = doing[t].tokens /\ e.left = doing[t].left
                /\ \/ /\ Ahead(doing[t]) = {} /\ e.secret = NoSecret
                      /\ e.text = doing[t].text /\ e.origin = doing[t].origin
                      /\ e.at = doing[t].at
                   \/ \E k \in Ahead(doing[t]) :
                      /\ \A j \in Ahead(doing[t]) : k <= j
                      /\ e.secret = doing[t].secret
                      /\ e.text = ReplaceSubSeqAt(k, REDACTED, doing[t].secret, doing[t].text)
                      /\ e.origin = ReplaceSubSeqAt(k, Nowhere, doing[t].secret, doing[t].origin)
                      /\ e.at = k + Len(REDACTED) - 1
<1> DEFINE d == doing[t]
<1>1. d.what = "log" /\ DOMAIN d = {"what", "scope", "message", "tokens", "left", "text",
                                   "origin", "secret", "at"}
  BY DEF replace, Replacing, Logging, CallsHaveFields, Redacting
<1>2. CASE Ahead(d) = {}
  <2> DEFINE e == [d EXCEPT !.secret = NoSecret]
  <2>1. doing' = [doing EXCEPT ![t] = e]
    BY <1>2 DEF replace
  <2>2. DOMAIN e = DOMAIN Redacting(0, <<>>, {})
    BY <1>1 DEF Redacting
  <2>3. /\ e.what = "log" /\ e.scope = d.scope /\ e.message = d.message
        /\ e.tokens = d.tokens /\ e.left = d.left /\ e.secret = NoSecret
        /\ e.text = d.text /\ e.origin = d.origin /\ e.at = d.at
    BY <1>1
  <2> HIDE DEF e
  <2>4. QED BY <1>2, <2>1, <2>2, <2>3
<1>3. CASE Ahead(d) # {}
  <2>1. PICK k \in Ahead(d) :
           /\ \A j \in Ahead(d) : k <= j
           /\ doing' = [doing EXCEPT ![t] =
                [d EXCEPT !.text = ReplaceSubSeqAt(k, REDACTED, d.secret, d.text),
                          !.origin = ReplaceSubSeqAt(k, Nowhere, d.secret, d.origin),
                          !.at = k + Len(REDACTED) - 1]]
    BY <1>3 DEF replace
  <2> DEFINE e == [d EXCEPT !.text = ReplaceSubSeqAt(k, REDACTED, d.secret, d.text),
                            !.origin = ReplaceSubSeqAt(k, Nowhere, d.secret, d.origin),
                            !.at = k + Len(REDACTED) - 1]
  <2>2. DOMAIN e = DOMAIN Redacting(0, <<>>, {})
    BY <1>1 DEF Redacting
  <2>3. /\ e.what = "log" /\ e.scope = d.scope /\ e.message = d.message
        /\ e.tokens = d.tokens /\ e.left = d.left /\ e.secret = d.secret
        /\ e.text = ReplaceSubSeqAt(k, REDACTED, d.secret, d.text)
        /\ e.origin = ReplaceSubSeqAt(k, Nowhere, d.secret, d.origin)
        /\ e.at = k + Len(REDACTED) - 1
    BY <1>1
  <2>4. doing' = [doing EXCEPT ![t] = e]
    BY <2>1
  <2> HIDE DEF e
  <2>5. QED BY <2>1, <2>2, <2>3, <2>4
<1>4. QED BY <1>2, <1>3

LEMMA FieldsPreserved ==
  ASSUME CallsHaveFields, [ScopeNext]_scopeVars
  PROVE  CallsHaveFields'
<1>1. ASSUME NEW t \in Tasks, NEW d, doing' = doing \/ doing' = [doing EXCEPT ![t] = d],
             d.what = "log" => DOMAIN d = DOMAIN Redacting(0, <<>>, {})
      PROVE  CallsHaveFields'
  BY <1>1 DEF CallsHaveFields, Logging
<1>2. ASSUME NEW t \in Tasks,
             \/ \E c \in Connectors : redact(t, c)
             \/ replace(t)
      PROVE  CallsHaveFields'
  <2>1. \E d : doing' = [doing EXCEPT ![t] = d] /\ DOMAIN d = DOMAIN Redacting(0, <<>>, {})
    BY <1>2, RedactIs, ReplaceIs
  <2>2. QED BY <1>1, <2>1
<1>3. ASSUME NEW t \in Tasks, NEW message \in Messages, log(t, message)
      PROVE  CallsHaveFields'
  BY <1>3 DEF log, Redacting, CallsHaveFields, Logging
<1>4. ASSUME NEW t \in Tasks,
             \/ EndTask(t) \/ WipeToken(t) \/ WipeTokens(t) \/ reveal(t) \/ RedactionFilter(t)
             \/ \E u \in Tasks : StartTask(t, u)
             \/ \E c \in Connectors : LogRaises(t, c)
             \/ \E headers \in [Connectors -> Secrets \cup {NoSecret}] : request_scope(t, headers)
      PROVE  CallsHaveFields'
  <2>1. doing' = doing \/ doing' = [doing EXCEPT ![t] = Nothing]
    BY <1>4 DEF EndTask, WipeToken, WipeTokens, reveal, RedactionFilter, StartTask, LogRaises,
                request_scope
  <2>2. Nothing.what # "log"
    BY DEF Nothing
  <2>3. QED BY <1>1, <2>1, <2>2
<1>5. ASSUME NEW t \in Tasks, Leave(t) \/ \E c \in Connectors : token_for(t, c)
      PROVE  CallsHaveFields'
  <2>1. \E d : d.what # "log" /\ (doing' = doing \/ doing' = [doing EXCEPT ![t] = d])
    <3>1. CASE Leave(t)
      <4> DEFINE d == [what |-> "wipe", scope |-> Innermost(t)]
      <4>1. d.what # "log" /\ doing' = [doing EXCEPT ![t] = d]
        BY <3>1 DEF Leave
      <4> HIDE DEF d
      <4>2. QED BY <4>1
    <3>2. ASSUME NEW c \in Connectors, token_for(t, c)
          PROVE  \E d : d.what # "log" /\ (doing' = doing \/ doing' = [doing EXCEPT ![t] = d])
      <4> DEFINE d == [what |-> "token", scope |-> context[t], connector |-> c]
      <4>1. d.what # "log" /\ (doing' = doing \/ doing' = [doing EXCEPT ![t] = d])
        BY <3>2 DEF token_for
      <4> HIDE DEF d
      <4>2. QED BY <4>1
    <3>3. QED BY <1>5, <3>1, <3>2
  <2>2. QED BY <1>1, <2>1
<1>6. CASE UNCHANGED scopeVars
  BY <1>6 DEF scopeVars, CallsHaveFields, Logging
<1>7. QED BY <1>2, <1>3, <1>4, <1>5, <1>6 DEF ScopeNext

LEMMA ScopePreserves ==
  ASSUME ScopeInvariant, CallsHaveFields, [ScopeNext]_scopeVars
  PROVE  ScopeInvariant'
<1>1. CASE UNCHANGED scopeVars
  BY <1>1 DEF scopeVars, ScopeInvariant, TypesOK, EndedIsWiped, StacksLink, LivesInTask,
              ContextIsInnermost, HoldersAreInside, Innermost, Within, TokensStayInScope
<1>2. ASSUME NEW t \in Tasks,
             \/ RedactionFilter(t) \/ \E message \in Messages : log(t, message)
             \/ replace(t) \/ \E c \in Connectors : redact(t, c) \/ LogRaises(t, c)
      PROVE  ScopeInvariant'
  <2>1. /\ UNCHANGED <<scopes, context, inside, misuse>> /\ doing[t].what # "wipe"
        /\ \E d : d.what \notin {"token", "wipe"} /\ doing' = [doing EXCEPT ![t] = d]
    <3>1. CASE \/ RedactionFilter(t) \/ \E message \in Messages : log(t, message)
               \/ \E c \in Connectors : LogRaises(t, c)
      BY <3>1 DEF RedactionFilter, log, LogRaises, Turn, Logging, Redacting, Free, Nothing
    <3>2. CASE replace(t) \/ \E c \in Connectors : redact(t, c)
      <4>1. \E d : d.what = "log" /\ doing' = [doing EXCEPT ![t] = d]
        BY <3>2, RedactIs, ReplaceIs
      <4>2. UNCHANGED <<scopes, context, inside, misuse>> /\ doing[t].what = "log"
        BY <3>2 DEF replace, redact, Replacing, Turn, Logging
      <4>3. \E d : d.what \notin {"token", "wipe"} /\ doing' = [doing EXCEPT ![t] = d]
        <5>1. PICK d : d.what = "log" /\ doing' = [doing EXCEPT ![t] = d]
          BY <4>1
        <5>2. d.what \notin {"token", "wipe"}
          BY <5>1
        <5>3. QED BY <5>1, <5>2
      <4>4. QED BY <4>2, <4>3
    <3>3. QED BY <1>2, <3>1, <3>2
  <2>2. TokensStayInScope'
    BY <2>1 DEF ScopeInvariant, TokensStayInScope
  <2>3. PICK d : d.what \notin {"token", "wipe"} /\ doing' = [doing EXCEPT ![t] = d]
    BY <2>1
  <2>4. QED BY <2>1, <2>2, <2>3, UsePreserves
<1>3. QED
  BY <1>1, <1>2, EnterPreserves, StartPreserves, EndPreserves, LeavePreserves, WipePreserves,
     TokenForPreserves, RevealPreserves
  DEF ScopeNext, Headers

(* INV-3: whoever holds a token, or a copy of the context it came from, it *)
(* is usable until its scope has ended and no longer, and an inner scope   *)
(* gives the outer one back.                                               *)
THEOREM TokensAreScoped == ScopeSpec => []TokensStayInScope
<1>1. ScopeInit => ScopeInvariant
  BY DEF ScopeInit, ScopeInvariant, TypesOK, EndedIsWiped, StacksLink, LivesInTask,
         ContextIsInnermost, HoldersAreInside, Innermost, Nothing, TokensStayInScope
<1>2. ScopeInvariant => TokensStayInScope
  BY DEF ScopeInvariant
<1>3. ScopeInit => CallsHaveFields
  BY DEF ScopeInit, CallsHaveFields, Logging, Nothing
<1>4. QED BY <1>1, <1>2, <1>3, ScopePreserves, FieldsPreserved, PTL DEF ScopeSpec
-----------------------------------------------------------------------------
(***************************************************************************)
(* Proofs about the redaction of log lines, for any secrets and messages   *)
(* and any word with an end on either side: what one replacement does to a *)
(* text, then the log calls of all tasks, whose tokens may be wiped        *)
(* meanwhile.                                                              *)
(***************************************************************************)

Text == Seq(Alphabet)

LEMMA WordIs ==
  /\ REDACTED \in Text /\ Len(REDACTED) \in Nat \ {0}
  /\ Head(REDACTED) = REDACTED[1] /\ Last(REDACTED) = REDACTED[Len(REDACTED)]
BY RequestScopeAssumption, LenProperties, EmptySeq DEF Last, Text

LEMMA OccurrenceIs ==
  ASSUME NEW S, NEW text \in Seq(S), NEW s \in Text, s # <<>>, NEW i \in Occurrences(text, s)
  PROVE  /\ Len(s) \in Nat \ {0} /\ DOMAIN s = 1..Len(s)
         /\ Len(text) \in Nat /\ DOMAIN text = 1..Len(text)
         /\ i \in Nat \ {0} /\ i + Len(s) - 1 <= Len(text)
         /\ \A k \in Covers(i, s) : k \in DOMAIN text /\ k - i + 1 \in DOMAIN s
                                    /\ text[k] = s[k - i + 1]
<1>1. /\ Len(s) \in Nat \ {0} /\ DOMAIN s = 1..Len(s)
      /\ Len(text) \in Nat /\ DOMAIN text = 1..Len(text)
  BY LenProperties, EmptySeq DEF Text
<1>2. i \in DOMAIN text /\ i + Len(s) - 1 \in DOMAIN text
      /\ \A k \in DOMAIN s : text[i + k - 1] = s[k]
  BY DEF Occurrences
<1>3. ASSUME NEW k \in Covers(i, s)
      PROVE  k \in DOMAIN text /\ k - i + 1 \in DOMAIN s /\ text[k] = s[k - i + 1]
  <2>1. k \in Int /\ i <= k /\ k <= i + Len(s) - 1
    BY <1>1, <1>2, <1>3 DEF Covers
  <2>2. k - i + 1 \in DOMAIN s /\ i + (k - i + 1) - 1 = k
    BY <1>1, <1>2, <2>1
  <2>3. text[k] = s[k - i + 1]
    BY <1>2, <2>2
  <2>4. k \in DOMAIN text
    BY <1>1, <1>2, <2>1
  <2>5. QED BY <2>2, <2>3, <2>4
<1>4. QED BY <1>1, <1>2, <1>3

(* What stands where is an occurrence. *)
LEMMA IsOccurrence ==
  ASSUME NEW text, NEW n \in Nat, DOMAIN text = 1..n, NEW s \in Text, s # <<>>,
         NEW i \in Nat \ {0}, i + Len(s) - 1 <= n,
         \A k \in Covers(i, s) : text[k] = s[k - i + 1]
  PROVE  i \in Occurrences(text, s)
<1>1. Len(s) \in Nat \ {0} /\ DOMAIN s = 1..Len(s)
  BY LenProperties, EmptySeq DEF Text
<1>2. i \in DOMAIN text /\ i + Len(s) - 1 \in DOMAIN text
  BY <1>1
<1>3. ASSUME NEW k \in DOMAIN s PROVE text[i + k - 1] = s[k]
  <2>1. i + k - 1 \in Covers(i, s) /\ (i + k - 1) - i + 1 = k
    BY <1>1 DEF Covers
  <2>2. QED BY <2>1
<1>4. QED BY <1>2, <1>3 DEF Occurrences

(* A sequence in which word takes the place of the n characters from k on. *)
SplicedAt(line, S, seq, word, n, k) ==
  /\ line \in Seq(S) /\ Len(line) = Len(seq) - n + Len(word)
  /\ \A q \in 1..(k - 1) : line[q] = seq[q]
  /\ \A q \in k..(k + Len(word) - 1) : line[q] = word[q - k + 1]
  /\ \A q \in (k + Len(word))..Len(line) : line[q] = seq[q - Len(word) + n]

LEMMA Spliced ==
  ASSUME NEW S, NEW seq \in Seq(S), NEW word \in Seq(S), NEW s \in Text, s # <<>>,
         NEW k \in Nat \ {0}, k + Len(s) - 1 <= Len(seq)
  PROVE  SplicedAt(ReplaceSubSeqAt(k, word, s, seq), S, seq, word, Len(s), k)
<1> DEFINE n == Len(s)
           w == Len(word)
           m == Len(seq)
           prefix == SubSeq(seq, 1, k - 1)
           suffix == SubSeq(seq, k + n, m)
           new == prefix \o word \o suffix
<1>1. n \in Nat \ {0} /\ w \in Nat /\ m \in Nat
  BY LenProperties, EmptySeq DEF Text
<1>2. \A q \in 1..m : seq[q] \in S
  BY ElementOfSeq
<1> HIDE DEF n, w, m
<1>3. /\ prefix \in Seq(S) /\ Len(prefix) = k - 1
      /\ \A q \in 1..(k - 1) : prefix[q] = seq[q]
  <2>1. \A q \in 1..(k - 1) : seq[q] \in S
    BY <1>1, <1>2 DEF n, m
  <2>2. /\ prefix \in Seq(S) /\ Len(prefix) = IF 1 <= k - 1 THEN (k - 1) - 1 + 1 ELSE 0
        /\ \A q \in 1..((k - 1) - 1 + 1) : prefix[q] = seq[1 + q - 1]
    BY <2>1, SubSeqProperties
  <2>3. QED BY <2>2
<1>4. /\ suffix \in Seq(S) /\ Len(suffix) = m - n - k + 1
      /\ \A q \in 1..(m - n - k + 1) : suffix[q] = seq[k + n + q - 1]
  <2>0. k + n - 1 <= m
    BY DEF n, m
  <2>1. \A q \in (k + n)..m : seq[q] \in S
    BY <1>1, <1>2
  <2>2. k + n \in Int /\ m \in Int
    BY <1>1
  <2>3. /\ suffix \in Seq(S) /\ Len(suffix) = IF k + n <= m THEN m - (k + n) + 1 ELSE 0
        /\ \A q \in 1..(m - (k + n) + 1) : suffix[q] = seq[(k + n) + q - 1]
    BY <2>1, <2>2, SubSeqProperties
  <2>4. m - (k + n) + 1 = m - n - k + 1 /\ (IF k + n <= m THEN m - (k + n) + 1 ELSE 0) = m - n - k + 1
    BY <1>1, <2>0
  <2>5. \A q \in 1..(m - n - k + 1) : (k + n) + q - 1 = k + n + q - 1
    BY <1>1
  <2> HIDE DEF suffix
  <2>6. QED BY <2>3, <2>4, <2>5
<1> HIDE DEF prefix, suffix
<1>5. /\ prefix \o word \in Seq(S) /\ Len(prefix \o word) = k - 1 + w
      /\ \A q \in 1..(k - 1 + w) :
           (prefix \o word)[q] = IF q <= k - 1 THEN prefix[q] ELSE word[q - (k - 1)]
  <2>1. /\ prefix \o word \in Seq(S) /\ Len(prefix \o word) = Len(prefix) + Len(word)
        /\ \A q \in 1..(Len(prefix) + Len(word)) :
             (prefix \o word)[q] = IF q <= Len(prefix) THEN prefix[q] ELSE word[q - Len(prefix)]
    BY <1>3, ConcatProperties
  <2>2. Len(prefix) = k - 1 /\ Len(word) = w
    BY <1>3 DEF w
  <2>3. QED BY <2>1, <2>2, Zenon
<1>6. /\ new \in Seq(S) /\ Len(new) = m - n + w
      /\ \A q \in 1..(m - n + w) :
           new[q] = IF q <= k - 1 + w THEN (prefix \o word)[q] ELSE suffix[q - (k - 1 + w)]
  <2> DEFINE both == prefix \o word
  <2>0. both \in Seq(S) /\ Len(both) = k - 1 + w /\ new = both \o suffix
    BY <1>5
  <2> HIDE DEF both, new
  <2>1. /\ both \o suffix \in Seq(S) /\ Len(both \o suffix) = Len(both) + Len(suffix)
        /\ \A q \in 1..(Len(both) + Len(suffix)) :
             (both \o suffix)[q] = IF q <= Len(both) THEN both[q] ELSE suffix[q - Len(both)]
    BY <1>4, <2>0, ConcatProperties
  <2>2. Len(both) + Len(suffix) = m - n + w
    BY <1>1, <1>4, <2>0
  <2>3. QED BY <2>0, <2>1, <2>2, Zenon DEF both
<1> HIDE DEF new
<1>7. k + n - 1 <= m
  BY DEF n, m
<1>8. \A q \in 1..(k - 1) : new[q] = seq[q]
  <2>1. ASSUME NEW q \in 1..(k - 1) PROVE new[q] = seq[q]
    <3>1. q \in 1..(m - n + w) /\ q <= k - 1 + w /\ q \in 1..(k - 1 + w) /\ q <= k - 1
      BY <1>1, <1>7
    <3>2. QED BY <1>3, <1>5, <1>6, <3>1
  <2>2. QED BY <2>1
<1>9. \A q \in k..(k + w - 1) : new[q] = word[q - k + 1]
  <2>1. ASSUME NEW q \in k..(k + w - 1) PROVE new[q] = word[q - k + 1]
    <3>1. /\ q \in 1..(m - n + w) /\ q <= k - 1 + w /\ q \in 1..(k - 1 + w) /\ ~(q <= k - 1)
          /\ q - (k - 1) = q - k + 1
      BY <1>1, <1>7
    <3>2. QED BY <1>5, <1>6, <3>1
  <2>2. QED BY <2>1
<1>10. \A q \in (k + w)..(m - n + w) : new[q] = seq[q - w + n]
  <2>1. ASSUME NEW q \in (k + w)..(m - n + w) PROVE new[q] = seq[q - w + n]
    <3>1. /\ q \in 1..(m - n + w) /\ ~(q <= k - 1 + w) /\ q - (k - 1 + w) \in 1..(m - n - k + 1)
          /\ k + n + (q - (k - 1 + w)) - 1 = q - w + n
      BY <1>1, <1>7
    <3>2. QED BY <1>4, <1>6, <3>1
  <2>2. QED BY <2>1
<1>11. ReplaceSubSeqAt(k, word, s, seq) = new
  BY DEF ReplaceSubSeqAt, new, prefix, suffix, n, m
<1>12. SplicedAt(new, S, seq, word, Len(s), k)
  BY <1>6, <1>8, <1>9, <1>10 DEF SplicedAt, n, w, m
<1>13. QED BY <1>11, <1>12

(* A clear secret never meets a copy of the word. *)
LEMMA ClearMissesWord ==
  ASSUME NEW text \in Text, NEW s \in Text, s # <<>>, Clear(s),
         NEW i \in Occurrences(text, s), NEW b \in Occurrences(text, REDACTED)
  PROVE  i + Len(s) - 1 < b \/ b + Len(REDACTED) - 1 < i
<1> DEFINE w == Len(REDACTED)
           n == Len(s)
<1>1. /\ w \in Nat \ {0} /\ n \in Nat \ {0} /\ DOMAIN s = 1..n /\ DOMAIN REDACTED = 1..w
      /\ REDACTED \in Text /\ REDACTED # <<>>
  BY WordIs, RequestScopeAssumption, LenProperties, EmptySeq DEF Text
<1>2. /\ i \in Nat \ {0} /\ \A k \in Covers(i, s) : k - i + 1 \in DOMAIN s /\ text[k] = s[k - i + 1]
  BY OccurrenceIs DEF Text
<1>3. /\ b \in Nat \ {0} /\ \A k \in Covers(b, REDACTED) : text[k] = REDACTED[k - b + 1]
  BY <1>1, OccurrenceIs DEF Text
<1>4. \A k \in DOMAIN s : s[k] # REDACTED[1] /\ s[k] # REDACTED[w]
  BY WordIs DEF Clear
<1> HIDE DEF w, n
<1>5. b \notin Covers(i, s)
  <2>1. b \in Covers(b, REDACTED) /\ b - b + 1 = 1
    BY <1>1, <1>3 DEF Covers, w
  <2>2. text[b] = REDACTED[1]
    BY <1>3, <2>1
  <2>3. QED BY <1>2, <1>4, <2>2
<1>6. b + w - 1 \notin Covers(i, s)
  <2>1. b + w - 1 \in Covers(b, REDACTED) /\ (b + w - 1) - b + 1 = w
    BY <1>1, <1>3 DEF Covers, w
  <2>2. text[b + w - 1] = REDACTED[w]
    BY <1>3, <2>1
  <2>3. QED BY <1>2, <1>4, <2>2
<1>7. ~(b < i /\ i + n - 1 < b + w - 1)
  <2> SUFFICES ASSUME b < i, i + n - 1 < b + w - 1 PROVE FALSE
    OBVIOUS
  <2>1. i - b + 1 \in Nat \ {0} /\ (i - b + 1) + n - 1 <= w
    BY <1>1, <1>2, <1>3
  <2>2. ASSUME NEW k \in Covers(i - b + 1, s) PROVE REDACTED[k] = s[k - (i - b + 1) + 1]
    <3>1. k \in Int /\ i - b + 1 <= k /\ k <= (i - b + 1) + n - 1
      BY <1>1, <1>2, <1>3, <2>2 DEF Covers, n
    <3>2. /\ k + b - 1 \in Covers(i, s) /\ k + b - 1 \in Covers(b, REDACTED)
          /\ (k + b - 1) - i + 1 = k - (i - b + 1) + 1 /\ (k + b - 1) - b + 1 = k
      BY <1>1, <1>2, <1>3, <2>1, <3>1 DEF Covers, n, w
    <3>3. QED BY <1>2, <1>3, <3>2
  <2>3. i - b + 1 \in Occurrences(REDACTED, s)
    BY <1>1, <2>1, <2>2, IsOccurrence DEF n
  <2>4. QED BY <2>3 DEF Clear
<1>8. ~(i <= b /\ b <= i + n - 1) /\ ~(i <= b + w - 1 /\ b + w - 1 <= i + n - 1)
  BY <1>1, <1>2, <1>3, <1>5, <1>6 DEF Covers, n
<1>9. i + n - 1 < b \/ b + w - 1 < i
  BY <1>1, <1>2, <1>3, <1>7, <1>8
<1>10. QED BY <1>9 DEF n, w

(* One replacement makes up no clear secret: what is found afterwards was  *)
(* there, before or behind it.                                             *)
LEMMA NothingMadeUp ==
  ASSUME NEW text \in Text, NEW r \in Text, r # <<>>, NEW k \in Occurrences(text, r),
         NEW s \in Text, s # <<>>, Clear(s),
         NEW i \in Occurrences(ReplaceSubSeqAt(k, REDACTED, r, text), s)
  PROVE  \/ i + Len(s) - 1 < k /\ i \in Occurrences(text, s)
         \/ /\ i >= k + Len(REDACTED)
            /\ i - Len(REDACTED) + Len(r) \in Occurrences(text, s)
<1> DEFINE new == ReplaceSubSeqAt(k, REDACTED, r, text)
           w == Len(REDACTED)
           n == Len(r)
           l == Len(s)
<1>1. /\ REDACTED \in Text /\ REDACTED # <<>> /\ w \in Nat \ {0} /\ DOMAIN REDACTED = 1..w
  BY WordIs, RequestScopeAssumption, LenProperties DEF Text
<1>2. /\ n \in Nat \ {0} /\ k \in Nat \ {0} /\ k + n - 1 <= Len(text)
      /\ Len(text) \in Nat /\ DOMAIN text = 1..Len(text)
  BY OccurrenceIs DEF Text
<1>3. /\ new \in Text /\ Len(new) = Len(text) - n + w
      /\ \A q \in 1..(k - 1) : new[q] = text[q]
      /\ \A q \in k..(k + w - 1) : new[q] = REDACTED[q - k + 1]
      /\ \A q \in (k + w)..Len(new) : new[q] = text[q - w + n]
  <2>1. new = ReplaceSubSeqAt(k, REDACTED, r, text)
    OBVIOUS
  <2> HIDE DEF new
  <2>2. /\ text \in Seq(Alphabet) /\ REDACTED \in Seq(Alphabet)
        /\ k + Len(r) - 1 <= Len(text) /\ k \in Nat \ {0}
    BY <1>1, <1>2 DEF Text
  <2>3. SplicedAt(ReplaceSubSeqAt(k, REDACTED, r, text), Alphabet, text, REDACTED, Len(r), k)
    BY <2>2, Spliced
  <2>4. QED BY <2>1, <2>3 DEF Text, SplicedAt
<1>4. i \in Occurrences(new, s)
  OBVIOUS
<1> HIDE DEF new, w, n, l
<1>5. /\ l \in Nat \ {0} /\ i \in Nat \ {0} /\ i + l - 1 <= Len(new)
      /\ Len(new) \in Nat /\ DOMAIN new = 1..Len(new)
      /\ \A q \in Covers(i, s) : new[q] = s[q - i + 1]
  BY <1>3, <1>4, OccurrenceIs DEF Text, l
<1>6. k \in Occurrences(new, REDACTED)
  <2>1. k + w - 1 <= Len(new)
    BY <1>1, <1>2, <1>3
  <2>2. ASSUME NEW q \in Covers(k, REDACTED) PROVE new[q] = REDACTED[q - k + 1]
    BY <1>3, <2>2 DEF Covers, w
  <2>3. QED BY <1>1, <1>2, <1>5, <2>1, <2>2, IsOccurrence DEF w
<1>7. i + l - 1 < k \/ k + w - 1 < i
  BY <1>3, <1>4, <1>6, ClearMissesWord DEF l, w
<1>8. CASE i + l - 1 < k
  <2>1. ASSUME NEW q \in Covers(i, s) PROVE text[q] = s[q - i + 1]
    <3>1. q \in 1..(k - 1)
      BY <1>2, <1>5, <1>8, <2>1 DEF Covers, l
    <3>2. QED BY <1>3, <1>5, <2>1, <3>1
  <2>2. i + l - 1 <= Len(text)
    BY <1>2, <1>5, <1>8
  <2>3. i \in Occurrences(text, s)
    BY <1>2, <1>5, <2>1, <2>2, IsOccurrence DEF l
  <2>4. QED BY <1>8, <2>3 DEF l
<1>9. CASE k + w - 1 < i
  <2> DEFINE j == i - w + n
  <2>1. j \in Nat \ {0} /\ j + l - 1 <= Len(text) /\ i >= k + w
    BY <1>1, <1>2, <1>3, <1>5, <1>9
  <2>2. ASSUME NEW q \in Covers(j, s) PROVE text[q] = s[q - j + 1]
    <3>1. /\ q \in Int /\ j <= q /\ q <= j + l - 1
      BY <1>5, <2>1, <2>2 DEF Covers, l
    <3>2. /\ q - n + w \in Covers(i, s) /\ q - n + w \in (k + w)..Len(new)
          /\ (q - n + w) - w + n = q /\ (q - n + w) - i + 1 = q - j + 1
      BY <1>1, <1>2, <1>5, <2>1, <3>1 DEF Covers, l
    <3>3. QED BY <1>3, <1>5, <3>2
  <2> HIDE DEF j
  <2>3. j \in Occurrences(text, s)
    BY <1>2, <2>1, <2>2, IsOccurrence DEF l
  <2>4. QED BY <2>1, <2>3 DEF j, w, n
<1>10. QED BY <1>7, <1>8, <1>9

-----------------------------------------------------------------------------
(* A secret whose turn is over is not found, one that is being replaced    *)
(* only ahead.                                                             *)
Done(text, secrets, left, secret, at) ==
  \A s \in secrets \ left : Clear(s) =>
    \A i \in Occurrences(text, s) : s = secret /\ i > at

(* Where a text comes from: a character with a place in the message is the *)
(* one there, characters side by side come from side by side, and the      *)
(* others belong to a copy of the word.                                    *)
Traced(message, text, origin) ==
  /\ \A q \in DOMAIN origin : origin[q] \in Nat /\
       (origin[q] # 0 => origin[q] \in DOMAIN message /\ text[q] = message[origin[q]])
  /\ \A p, q \in DOMAIN origin :
       p <= q /\ (\A j \in p..q : origin[j] # 0) => origin[q] = origin[p] + (q - p)
  /\ \A q \in DOMAIN origin : origin[q] = 0 =>
       \E b \in Occurrences(text, REDACTED) : q \in Covers(b, REDACTED)

(* A quote that runs over into no other secret has left the text, or it    *)
(* stands there as one piece.                                              *)
Gone(origin, i, s) == \A q \in DOMAIN origin : origin[q] \notin Covers(i, s)

StandsAt(text, origin, i, s, p) ==
  /\ p \in Occurrences(text, s)
  /\ \A q \in DOMAIN origin :
       /\ q \in Covers(p, s) => origin[q] = i + (q - p)
       /\ origin[q] \in Covers(i, s) => q \in Covers(p, s)

Quotes(message, text, origin, secrets) ==
  \A s \in secrets : \A i \in Occurrences(message, s) : Whole(message, secrets, i, s) =>
    Gone(origin, i, s) \/ \E p : StandsAt(text, origin, i, s, p)

AllClear(secrets) == \A s \in secrets : Clear(s)

SoFar(message, text, origin, secrets, left, secret, at) ==
  /\ text \in Text /\ origin \in Seq(Nat) /\ Len(origin) = Len(text) /\ at \in Nat
  /\ secret # NoSecret => secret \in secrets /\ \A s \in left : ~Longest(s, secret)
  /\ Done(text, secrets, left, secret, at)
  /\ AllClear(secrets) => Traced(message, text, origin) /\ Quotes(message, text, origin, secrets)

(* A clear secret that is found is quoted: it is found in the message.     *)
LEMMA FoundIsQuoted ==
  ASSUME NEW message \in Text, NEW text \in Text, NEW origin \in Seq(Nat),
         Len(origin) = Len(text), Traced(message, text, origin),
         NEW r \in Text, r # <<>>, Clear(r), NEW k \in Occurrences(text, r)
  PROVE  /\ \A q \in Covers(k, r) : origin[q] # 0 /\ origin[q] = origin[k] + (q - k)
         /\ origin[k] \in Occurrences(message, r)
<1> DEFINE n == Len(r)
           j == origin[k]
<1>1. /\ n \in Nat \ {0} /\ k \in Nat \ {0} /\ k + n - 1 <= Len(text) /\ Len(text) \in Nat
      /\ \A q \in Covers(k, r) : q \in DOMAIN text /\ text[q] = r[q - k + 1]
  BY OccurrenceIs DEF Text
<1>2. DOMAIN origin = DOMAIN text /\ DOMAIN origin = 1..Len(text)
  BY LenProperties DEF Text
<1>3. ASSUME NEW q \in Covers(k, r) PROVE origin[q] # 0
  <2> SUFFICES ASSUME origin[q] = 0 PROVE FALSE
    OBVIOUS
  <2>1. PICK b \in Occurrences(text, REDACTED) : q \in Covers(b, REDACTED)
    BY <1>1, <1>2, <1>3 DEF Traced
  <2>2. k + n - 1 < b \/ b + Len(REDACTED) - 1 < k
    BY <2>1, ClearMissesWord
  <2>3. b \in Nat /\ Len(REDACTED) \in Nat
    BY WordIs, RequestScopeAssumption, OccurrenceIs DEF Text
  <2>4. QED BY <1>1, <1>3, <2>1, <2>2, <2>3 DEF Covers
<1> HIDE DEF n
<1>4. k \in Covers(k, r) /\ k + n - 1 \in Covers(k, r)
  BY <1>1 DEF Covers, n
<1>5. ASSUME NEW q \in Covers(k, r) PROVE origin[q] = j + (q - k)
  <2>1. q \in Int /\ k <= q /\ \A x \in k..q : x \in Covers(k, r)
    BY <1>1, <1>5 DEF Covers, n
  <2>2. k \in DOMAIN origin /\ q \in DOMAIN origin /\ \A x \in k..q : origin[x] # 0
    BY <1>1, <1>2, <1>3, <1>4, <1>5, <2>1
  <2>3. QED BY <2>1, <2>2 DEF Traced
<1>6. ASSUME NEW q \in Covers(k, r)
      PROVE  j + (q - k) \in DOMAIN message /\ message[j + (q - k)] = r[q - k + 1]
  <2>1. q \in DOMAIN origin /\ origin[q] # 0 /\ text[q] = r[q - k + 1]
    BY <1>1, <1>2, <1>3, <1>6
  <2>2. origin[q] \in DOMAIN message /\ text[q] = message[origin[q]]
    BY <2>1 DEF Traced
  <2>3. QED BY <1>5, <1>6, <2>1, <2>2
<1>7. j \in Nat \ {0} /\ j + n - 1 \in DOMAIN message
  <2>1. j \in Nat
    BY <1>1, <1>2, <1>4 DEF Traced
  <2>2. j # 0
    BY <1>3, <1>4
  <2>3. j + ((k + n - 1) - k) = j + n - 1
    BY <1>1, <2>1
  <2>4. QED BY <1>4, <1>6, <2>1, <2>2, <2>3
<1>8. Len(message) \in Nat /\ DOMAIN message = 1..Len(message)
  BY LenProperties DEF Text
<1>9. j \in Occurrences(message, r)
  <2>1. ASSUME NEW x \in Covers(j, r) PROVE message[x] = r[x - j + 1]
    <3>1. x \in Int /\ j <= x /\ x <= j + n - 1
      BY <1>1, <1>7, <2>1 DEF Covers, n
    <3>2. x - j + k \in Covers(k, r)
      BY <1>1, <1>7, <3>1 DEF Covers, n
    <3>3. j + ((x - j + k) - k) = x /\ (x - j + k) - k + 1 = x - j + 1
      BY <1>1, <1>7, <3>1
    <3>4. QED BY <1>6, <3>2, <3>3
  <2>2. j + n - 1 <= Len(message)
    BY <1>7, <1>8
  <2> HIDE DEF j
  <2>3. QED BY <1>7, <1>8, <2>1, <2>2, IsOccurrence DEF n
<1>10. QED BY <1>3, <1>5, <1>9

-----------------------------------------------------------------------------
(* One secret is replaced at k: the word, which comes from nowhere, takes  *)
(* the place of n characters of the text.                                  *)
Word == Len(REDACTED)

Cut(text, origin, n, k, new, from) ==
  /\ text \in Text /\ origin \in Seq(Nat) /\ Len(origin) = Len(text)
  /\ n \in Nat \ {0} /\ k \in Nat \ {0} /\ k + n - 1 <= Len(text)
  /\ new \in Text /\ from \in Seq(Nat) /\ Len(from) = Len(new)
  /\ Len(new) = Len(text) - n + Word
  /\ \A q \in 1..(k - 1) : new[q] = text[q] /\ from[q] = origin[q]
  /\ \A q \in k..(k + Word - 1) : new[q] = REDACTED[q - k + 1] /\ from[q] = 0
  /\ \A q \in (k + Word)..Len(new) : new[q] = text[q - Word + n] /\ from[q] = origin[q - Word + n]

LEMMA ReplacedIsCut ==
  ASSUME NEW text \in Text, NEW origin \in Seq(Nat), Len(origin) = Len(text),
         NEW r \in Text, r # <<>>, NEW k \in Occurrences(text, r)
  PROVE  Cut(text, origin, Len(r), k, ReplaceSubSeqAt(k, REDACTED, r, text),
             ReplaceSubSeqAt(k, Nowhere, r, origin))
<1> DEFINE new == ReplaceSubSeqAt(k, REDACTED, r, text)
           from == ReplaceSubSeqAt(k, Nowhere, r, origin)
<1>1. REDACTED \in Text /\ Word \in Nat \ {0} /\ DOMAIN REDACTED = 1..Word
  BY WordIs, LenProperties DEF Word, Text
<1>2. /\ Nowhere \in Seq(Nat) /\ Len(Nowhere) = Word /\ \A q \in 1..Word : Nowhere[q] = 0
  BY <1>1 DEF Nowhere
<1>3. /\ Len(r) \in Nat \ {0} /\ k \in Nat \ {0} /\ k + Len(r) - 1 <= Len(text)
  BY OccurrenceIs DEF Text
<1>4. SplicedAt(new, Alphabet, text, REDACTED, Len(r), k)
  <2>1. text \in Seq(Alphabet) /\ REDACTED \in Seq(Alphabet)
    BY <1>1 DEF Text
  <2>2. QED BY <1>3, <2>1, Spliced
<1>5. SplicedAt(from, Nat, origin, Nowhere, Len(r), k)
  BY <1>2, <1>3, Spliced
<1> HIDE DEF new, from
<1>6. Cut(text, origin, Len(r), k, new, from)
  <2>1. /\ new \in Text /\ Len(new) = Len(text) - Len(r) + Word
        /\ \A q \in 1..(k - 1) : new[q] = text[q]
        /\ \A q \in k..(k + Word - 1) : new[q] = REDACTED[q - k + 1]
        /\ \A q \in (k + Word)..Len(new) : new[q] = text[q - Word + Len(r)]
    BY <1>4 DEF SplicedAt, Text, Word
  <2>2. /\ from \in Seq(Nat) /\ Len(from) = Len(new)
        /\ \A q \in 1..(k - 1) : from[q] = origin[q]
        /\ \A q \in k..(k + Word - 1) : from[q] = Nowhere[q - k + 1]
        /\ \A q \in (k + Word)..Len(new) : from[q] = origin[q - Word + Len(r)]
    BY <1>2, <1>5, <2>1 DEF SplicedAt
  <2>3. \A q \in k..(k + Word - 1) : from[q] = 0
    <3>1. \A q \in k..(k + Word - 1) : q - k + 1 \in 1..Word
      BY <1>1, <1>3
    <3>2. QED BY <1>2, <2>2, <3>1
  <2>4. QED BY <1>3, <2>1, <2>2, <2>3 DEF Cut
<1>7. QED BY <1>6 DEF new, from

(* The three places where a character of the new text may be. *)
LEMMA CutPlaces ==
  ASSUME NEW text, NEW origin, NEW n, NEW k, NEW new, NEW from,
         Cut(text, origin, n, k, new, from)
  PROVE  /\ Word \in Nat \ {0} /\ Len(text) \in Nat /\ Len(new) \in Nat
         /\ DOMAIN text = 1..Len(text) /\ DOMAIN origin = 1..Len(text)
         /\ DOMAIN new = 1..Len(new) /\ DOMAIN from = 1..Len(new)
         /\ \A q \in DOMAIN from :
              \/ q < k /\ q \in DOMAIN origin /\ new[q] = text[q] /\ from[q] = origin[q]
              \/ q \in k..(k + Word - 1) /\ from[q] = 0
              \/ /\ q >= k + Word /\ q - Word + n \in DOMAIN origin
                 /\ new[q] = text[q - Word + n] /\ from[q] = origin[q - Word + n]
<1>1. /\ Word \in Nat \ {0} /\ Len(text) \in Nat /\ Len(new) \in Nat
      /\ DOMAIN text = 1..Len(text) /\ DOMAIN origin = 1..Len(text)
      /\ DOMAIN new = 1..Len(new) /\ DOMAIN from = 1..Len(new)
  BY WordIs, LenProperties DEF Cut, Word, Text
<1>2. /\ n \in Nat \ {0} /\ k \in Nat \ {0} /\ k + n - 1 <= Len(text)
      /\ Len(new) = Len(text) - n + Word
  BY DEF Cut
<1>3. ASSUME NEW q \in DOMAIN from
      PROVE  \/ q < k /\ q \in DOMAIN origin /\ new[q] = text[q] /\ from[q] = origin[q]
             \/ q \in k..(k + Word - 1) /\ from[q] = 0
             \/ /\ q >= k + Word /\ q - Word + n \in DOMAIN origin
                /\ new[q] = text[q - Word + n] /\ from[q] = origin[q - Word + n]
  <2>1. q \in Nat \ {0} /\ q <= Len(new)
    BY <1>1, <1>3
  <2>2. CASE q < k
    <3>1. q \in 1..(k - 1) /\ q \in DOMAIN origin
      BY <1>1, <1>2, <2>1, <2>2
    <3>2. QED BY <2>2, <3>1 DEF Cut
  <2>3. CASE k <= q /\ q < k + Word
    <3>1. q \in k..(k + Word - 1)
      BY <1>1, <1>2, <2>1, <2>3
    <3>2. QED BY <3>1 DEF Cut
  <2>4. CASE k + Word <= q
    <3>1. q \in (k + Word)..Len(new) /\ q - Word + n \in DOMAIN origin
      BY <1>1, <1>2, <2>1, <2>4
    <3>2. QED BY <2>4, <3>1 DEF Cut
  <2>5. QED BY <1>1, <1>2, <2>1, <2>2, <2>3, <2>4
<1>4. QED BY <1>1, <1>3

(* What was found before or behind the place is found again. *)
LEMMA CutKeeps ==
  ASSUME NEW text, NEW origin, NEW n, NEW k, NEW new, NEW from,
         Cut(text, origin, n, k, new, from),
         NEW s \in Text, s # <<>>, NEW i \in Occurrences(text, s)
  PROVE  /\ i + Len(s) - 1 < k => i \in Occurrences(new, s)
         /\ i >= k + n => i + Word - n \in Occurrences(new, s)
<1> DEFINE l == Len(s)
<1>1. /\ Word \in Nat \ {0} /\ Len(text) \in Nat /\ Len(new) \in Nat /\ DOMAIN new = 1..Len(new)
  BY CutPlaces
<1>2. /\ n \in Nat \ {0} /\ k \in Nat \ {0} /\ k + n - 1 <= Len(text)
      /\ Len(new) = Len(text) - n + Word /\ text \in Text
      /\ \A q \in 1..(k - 1) : new[q] = text[q]
      /\ \A q \in (k + Word)..Len(new) : new[q] = text[q - Word + n]
  BY DEF Cut
<1>3. /\ l \in Nat \ {0} /\ i \in Nat \ {0} /\ i + l - 1 <= Len(text)
      /\ \A q \in Covers(i, s) : text[q] = s[q - i + 1]
  BY <1>2, OccurrenceIs DEF Text
<1> HIDE DEF l
<1>4. ASSUME i + l - 1 < k PROVE i \in Occurrences(new, s)
  <2>1. ASSUME NEW q \in Covers(i, s) PROVE new[q] = s[q - i + 1]
    <3>1. q \in 1..(k - 1)
      BY <1>2, <1>3, <1>4, <2>1 DEF Covers, l
    <3>2. QED BY <1>2, <1>3, <3>1
  <2>2. i + l - 1 <= Len(new)
    BY <1>1, <1>2, <1>3, <1>4
  <2>3. QED BY <1>1, <1>3, <2>1, <2>2, IsOccurrence DEF l
<1>5. ASSUME i >= k + n PROVE i + Word - n \in Occurrences(new, s)
  <2> DEFINE j == i + Word - n
  <2>1. j \in Nat \ {0} /\ j + l - 1 <= Len(new)
    BY <1>1, <1>2, <1>3, <1>5
  <2>2. ASSUME NEW q \in Covers(j, s) PROVE new[q] = s[q - j + 1]
    <3>1. q \in Int /\ j <= q /\ q <= j + l - 1
      BY <1>3, <2>1, <2>2 DEF Covers, l
    <3>2. /\ q \in (k + Word)..Len(new) /\ q - Word + n \in Covers(i, s)
          /\ (q - Word + n) - i + 1 = q - j + 1
      BY <1>1, <1>2, <1>3, <1>5, <2>1, <3>1 DEF Covers, l
    <3>3. QED BY <1>2, <1>3, <3>2
  <2> HIDE DEF j
  <2>3. j \in Occurrences(new, s)
    BY <1>1, <1>3, <2>1, <2>2, IsOccurrence DEF l
  <2>4. QED BY <2>3 DEF j
<1>6. QED BY <1>4, <1>5 DEF l

(* The word itself is found at the place. *)
LEMMA CutHasWord ==
  ASSUME NEW text, NEW origin, NEW n, NEW k, NEW new, NEW from,
         Cut(text, origin, n, k, new, from)
  PROVE  k \in Occurrences(new, REDACTED)
<1>1. /\ Word \in Nat \ {0} /\ Len(text) \in Nat /\ Len(new) \in Nat /\ DOMAIN new = 1..Len(new)
  BY CutPlaces
<1>2. /\ n \in Nat \ {0} /\ k \in Nat \ {0} /\ k + n - 1 <= Len(text)
      /\ Len(new) = Len(text) - n + Word
      /\ \A q \in k..(k + Word - 1) : new[q] = REDACTED[q - k + 1]
  BY DEF Cut
<1>3. \A q \in Covers(k, REDACTED) : new[q] = REDACTED[q - k + 1]
  BY <1>2 DEF Covers, Word
<1>4. k + Len(REDACTED) - 1 <= Len(new)
  BY <1>1, <1>2 DEF Word
<1>5. QED BY <1>1, <1>2, <1>3, <1>4, WordIs, RequestScopeAssumption, IsOccurrence

LEMMA CutIsDone ==
  ASSUME NEW text \in Text, NEW secrets, secrets \subseteq Text \ {<<>>}, NEW left, NEW at,
         NEW r \in secrets, Done(text, secrets, left, r, at),
         NEW k \in Occurrences(text, r), \A j \in Occurrences(text, r) : j > at => k <= j
  PROVE  Done(ReplaceSubSeqAt(k, REDACTED, r, text), secrets, left, r, k + Len(REDACTED) - 1)
<1> DEFINE new == ReplaceSubSeqAt(k, REDACTED, r, text)
<1> SUFFICES ASSUME NEW s \in secrets \ left, Clear(s), NEW i \in Occurrences(new, s)
             PROVE  s = r /\ i > k + Len(REDACTED) - 1
  BY DEF Done
<1>1. /\ r \in Text /\ r # <<>> /\ s \in Text /\ s # <<>>
  OBVIOUS
<1>2. \/ i + Len(s) - 1 < k /\ i \in Occurrences(text, s)
      \/ i >= k + Len(REDACTED) /\ i - Len(REDACTED) + Len(r) \in Occurrences(text, s)
  BY <1>1, NothingMadeUp
<1>3. \A j \in Occurrences(text, s) : s = r /\ j > at
  BY DEF Done
<1>4. k \in Nat \ {0} /\ Len(REDACTED) \in Nat /\ Len(s) \in Nat \ {0}
  BY <1>1, WordIs, OccurrenceIs, LenProperties, EmptySeq DEF Text
<1>5. CASE i + Len(s) - 1 < k /\ i \in Occurrences(text, s)
  <2>1. k <= i /\ i \in Nat
    <3>1. s = r /\ i > at
      BY <1>3, <1>5
    <3>2. i \in Nat
      BY <1>1, <1>5, OccurrenceIs DEF Text
    <3>3. QED BY <1>5, <3>1, <3>2
  <2>2. QED BY <1>4, <1>5, <2>1
<1>6. CASE i >= k + Len(REDACTED) /\ i - Len(REDACTED) + Len(r) \in Occurrences(text, s)
  <2>1. i \in Int
    BY <1>1, LenProperties DEF Occurrences, new, ReplaceSubSeqAt, Text
  <2>2. QED BY <1>3, <1>4, <1>6, <2>1
<1>7. QED BY <1>2, <1>5, <1>6

LEMMA CutIsTraced ==
  ASSUME NEW message \in Text, NEW text, NEW origin, NEW r \in Text, r # <<>>, Clear(r),
         NEW k \in Occurrences(text, r), NEW new, NEW from,
         Cut(text, origin, Len(r), k, new, from), Traced(message, text, origin)
  PROVE  Traced(message, new, from)
<1> DEFINE n == Len(r)
<1>1. /\ Word \in Nat \ {0} /\ Len(text) \in Nat /\ Len(new) \in Nat
      /\ DOMAIN text = 1..Len(text) /\ DOMAIN origin = 1..Len(text)
      /\ DOMAIN new = 1..Len(new) /\ DOMAIN from = 1..Len(new)
      /\ \A q \in DOMAIN from :
           \/ q < k /\ q \in DOMAIN origin /\ new[q] = text[q] /\ from[q] = origin[q]
           \/ q \in k..(k + Word - 1) /\ from[q] = 0
           \/ /\ q >= k + Word /\ q - Word + n \in DOMAIN origin
              /\ new[q] = text[q - Word + n] /\ from[q] = origin[q - Word + n]
  BY CutPlaces
<1>2. /\ n \in Nat \ {0} /\ k \in Nat \ {0} /\ k + n - 1 <= Len(text) /\ text \in Text
      /\ Len(new) = Len(text) - n + Word /\ from[k] = 0
  <2>1. k \in k..(k + Word - 1)
    BY <1>1 DEF Cut
  <2>2. QED BY <2>1 DEF Cut
<1> HIDE DEF n
<1>0. Word \in Nat \ {0} /\ Len(new) \in Nat /\ DOMAIN from = 1..Len(new)
  BY <1>1
<1>3. ASSUME NEW q \in DOMAIN from
      PROVE  from[q] \in Nat /\ (from[q] # 0 => from[q] \in DOMAIN message
                                                /\ new[q] = message[from[q]])
  BY <1>1, <1>3 DEF Traced
<1>4. ASSUME NEW p \in DOMAIN from, NEW q \in DOMAIN from, p <= q,
             \A j \in p..q : from[j] # 0
      PROVE  from[q] = from[p] + (q - p)
  <2>0. p \in Nat /\ q \in Nat /\ from[p] # 0 /\ from[q] # 0
    BY <1>1, <1>4
  <2>1. CASE q < k
    <3>1. /\ p \in DOMAIN origin /\ q \in DOMAIN origin
          /\ from[p] = origin[p] /\ from[q] = origin[q]
      BY <1>1, <1>2, <1>4, <2>0, <2>1
    <3>2. ASSUME NEW j \in p..q PROVE origin[j] # 0
      <4>1. j \in DOMAIN from /\ j < k
        BY <1>0, <1>2, <2>0, <2>1, <3>2
      <4>2. from[j] = origin[j]
        BY <1>1, <1>2, <4>1
      <4>3. QED BY <1>4, <3>2, <4>2
    <3>3. QED BY <1>4, <3>1, <3>2 DEF Traced
  <2>2. CASE p >= k
    <3> DEFINE x == p - Word + n
               y == q - Word + n
    <3>1. /\ x \in DOMAIN origin /\ y \in DOMAIN origin /\ p >= k + Word
          /\ from[p] = origin[x] /\ from[q] = origin[y]
      BY <1>1, <1>2, <1>4, <2>0, <2>2
    <3>2. ASSUME NEW j \in x..y PROVE origin[j] # 0
      <4>0. j \in Int /\ p - Word + n <= j /\ j <= q - Word + n
        BY <1>0, <1>2, <2>0, <3>2
      <4>1. PICK z \in DOMAIN from : z \in p..q /\ z >= k + Word /\ z - Word + n = j
        <5>1. j + Word - n \in p..q /\ j + Word - n \in DOMAIN from /\ j + Word - n >= k + Word
              /\ (j + Word - n) - Word + n = j
          BY <1>0, <1>2, <2>0, <3>1, <4>0
        <5>2. QED BY <5>1
      <4>2. from[z] = origin[j]
        <5>0. z \in Nat /\ k \in Nat /\ Word \in Nat /\ z >= k + Word /\ Word > 0
          BY <1>0, <1>2, <4>1
        <5>1. ~(z < k) /\ z \notin k..(k + Word - 1)
          BY <5>0
        <5>2. from[z] = origin[z - Word + n]
          BY <1>1, <5>1
        <5>3. QED BY <4>1, <5>2
      <4>3. QED BY <1>4, <4>1, <4>2
    <3>3. x <= y /\ y - x = q - p
      BY <1>1, <1>2, <1>4, <2>0
    <3> HIDE DEF x, y
    <3>4. QED BY <3>1, <3>2, <3>3 DEF Traced
  <2>3. CASE p < k /\ k <= q
    <3>1. k \in p..q
      BY <1>2, <2>0, <2>3
    <3>2. QED BY <1>2, <1>4, <3>1
  <2>4. QED BY <1>2, <2>0, <2>1, <2>2, <2>3
<1>5. ASSUME NEW q \in DOMAIN from, from[q] = 0
      PROVE  \E b \in Occurrences(new, REDACTED) : q \in Covers(b, REDACTED)
  <2>0. q \in Nat /\ REDACTED \in Text /\ REDACTED # <<>> /\ Len(REDACTED) = Word
    BY <1>1, WordIs, RequestScopeAssumption DEF Word
  <2>1. CASE q < k
    <3>1. q \in DOMAIN origin /\ origin[q] = 0
      BY <1>1, <1>2, <1>5, <2>0, <2>1
    <3>2. PICK b \in Occurrences(text, REDACTED) : q \in Covers(b, REDACTED)
      BY <3>1 DEF Traced
    <3>3. k + n - 1 < b \/ b + Len(REDACTED) - 1 < k
      BY <1>2, ClearMissesWord DEF n
    <3>4. b \in Nat /\ b <= q
      BY <1>2, <2>0, <3>2, OccurrenceIs DEF Covers, Text
    <3>5. b + Len(REDACTED) - 1 < k
      BY <1>2, <2>0, <2>1, <3>3, <3>4
    <3>6. b \in Occurrences(new, REDACTED)
      BY <2>0, <3>5, CutKeeps
    <3>7. QED BY <3>2, <3>6
  <2>2. CASE q \in k..(k + Word - 1)
    <3>1. k \in Occurrences(new, REDACTED)
      BY CutHasWord
    <3>2. q \in Covers(k, REDACTED)
      BY <2>2 DEF Covers, Word
    <3>3. QED BY <3>1, <3>2
  <2>3. CASE q >= k + Word
    <3> DEFINE x == q - Word + n
    <3>1. x \in DOMAIN origin /\ origin[x] = 0 /\ x \in Int /\ x >= k + n
      BY <1>1, <1>2, <1>5, <2>0, <2>3
    <3>2. PICK b \in Occurrences(text, REDACTED) : x \in Covers(b, REDACTED)
      BY <3>1 DEF Traced
    <3>3. k + n - 1 < b \/ b + Len(REDACTED) - 1 < k
      BY <1>2, ClearMissesWord DEF n
    <3>4. b \in Nat
      BY <1>2, <2>0, <3>2, OccurrenceIs DEF Text
    <3>5. b <= x /\ x <= b + Word - 1
      BY <1>1, <2>0, <3>1, <3>2, <3>4 DEF Covers
    <3>6. b >= k + n
      BY <1>1, <1>2, <2>0, <3>1, <3>3, <3>4, <3>5
    <3>7. b + Word - n \in Occurrences(new, REDACTED)
      BY <2>0, <3>6, CutKeeps DEF n
    <3>8. q \in Covers(b + Word - n, REDACTED)
      BY <1>1, <1>2, <2>0, <3>4, <3>5 DEF Covers
    <3>9. QED BY <3>7, <3>8
  <2>4. QED BY <1>1, <1>2, <2>0, <2>1, <2>2, <2>3
<1>6. QED BY <1>3, <1>4, <1>5 DEF Traced

(* The longest secret left is replaced: where it is found in a quote, it   *)
(* is the quote.                                                           *)
LEMMA LongestIsTheQuote ==
  ASSUME NEW message \in Text, NEW secrets, secrets \subseteq Text \ {<<>>},
         NEW r \in secrets, NEW s \in secrets, ~Longest(s, r),
         NEW i \in Occurrences(message, s), Whole(message, secrets, i, s),
         NEW j \in Occurrences(message, r), Overlap(i, s, j, r)
  PROVE  i = j /\ Len(s) = Len(r)
<1>1. /\ i \in Nat /\ j \in Nat /\ Len(s) \in Nat \ {0} /\ Len(r) \in Nat \ {0}
  BY OccurrenceIs DEF Text
<1>2. Covers(j, r) \subseteq Covers(i, s) /\ Len(s) <= Len(r)
  BY <1>1 DEF Whole, Longest
<1>3. j \in Covers(i, s) /\ j + Len(r) - 1 \in Covers(i, s)
  <2>1. j \in Covers(j, r) /\ j + Len(r) - 1 \in Covers(j, r)
    BY <1>1 DEF Covers
  <2>2. QED BY <1>2, <2>1
<1>4. i <= j /\ j + Len(r) - 1 <= i + Len(s) - 1
  BY <1>1, <1>3 DEF Covers
<1>5. QED BY <1>1, <1>2, <1>4

(* A quote stays where it is, moves with what is behind the place, or is  *)
(* what has been replaced.                                                 *)
LEMMA CutKeepsQuotes ==
  ASSUME NEW message \in Text, NEW text, NEW origin, NEW secrets,
         secrets \subseteq Text \ {<<>>}, AllClear(secrets), NEW left, NEW at,
         NEW r \in secrets, \A s \in left : ~Longest(s, r), Done(text, secrets, left, r, at),
         Traced(message, text, origin), Quotes(message, text, origin, secrets),
         NEW k \in Occurrences(text, r), NEW new, NEW from,
         Cut(text, origin, Len(r), k, new, from)
  PROVE  Quotes(message, new, from, secrets)
<1> SUFFICES ASSUME NEW s \in secrets, NEW i \in Occurrences(message, s),
                    Whole(message, secrets, i, s)
             PROVE  Gone(from, i, s) \/ \E p : StandsAt(new, from, i, s, p)
  BY DEF Quotes
<1> DEFINE n == Len(r)
           l == Len(s)
<1>1. /\ Word \in Nat \ {0} /\ Len(text) \in Nat /\ Len(new) \in Nat
      /\ DOMAIN text = 1..Len(text) /\ DOMAIN origin = 1..Len(text)
      /\ DOMAIN new = 1..Len(new) /\ DOMAIN from = 1..Len(new)
  BY CutPlaces
<1>2. /\ n \in Nat \ {0} /\ k \in Nat \ {0} /\ k + n - 1 <= Len(text) /\ text \in Text
      /\ origin \in Seq(Nat) /\ Len(origin) = Len(text)
  BY DEF Cut
<1>3. /\ r \in Text /\ r # <<>> /\ Clear(r) /\ s \in Text /\ s # <<>> /\ Clear(s)
      /\ l \in Nat \ {0} /\ i \in Nat \ {0}
  BY OccurrenceIs DEF AllClear, Text
<1> HIDE DEF n, l
<1>4. 0 \notin Covers(i, s)
  BY <1>3 DEF Covers
<1>0. /\ Word \in Nat \ {0} /\ n \in Nat \ {0} /\ l \in Nat \ {0} /\ k \in Nat \ {0}
      /\ Len(text) \in Nat /\ k + n - 1 <= Len(text)
      /\ \A q \in DOMAIN from : q \in Nat
      /\ DOMAIN origin = 1..Len(text)
  BY <1>1, <1>2, <1>3
<1>5. ASSUME NEW q \in DOMAIN from, from[q] \in Covers(i, s)
      PROVE  \/ q < k /\ q \in DOMAIN origin /\ origin[q] \in Covers(i, s)
             \/ /\ q >= k + Word /\ q - Word + n \in DOMAIN origin
                /\ origin[q - Word + n] \in Covers(i, s)
  <2>1. \/ q < k /\ q \in DOMAIN origin /\ from[q] = origin[q]
        \/ from[q] = 0
        \/ q >= k + Word /\ q - Word + n \in DOMAIN origin /\ from[q] = origin[q - Word + n]
    BY CutPlaces DEF n
  <2>2. QED BY <1>4, <1>5, <2>1
<1>6. CASE Gone(origin, i, s)
  <2>1. Gone(from, i, s)
    BY <1>5, <1>6 DEF Gone
  <2>2. QED BY <2>1
<1>7. ASSUME NEW p, StandsAt(text, origin, i, s, p)
      PROVE  Gone(from, i, s) \/ \E z : StandsAt(new, from, i, s, z)
  <2>1. /\ p \in Occurrences(text, s)
        /\ \A q \in DOMAIN origin : q \in Covers(p, s) => origin[q] = i + (q - p)
        /\ \A q \in DOMAIN origin : origin[q] \in Covers(i, s) => q \in Covers(p, s)
    BY <1>7 DEF StandsAt
  <2>2. p \in Nat \ {0} /\ p + l - 1 <= Len(text)
    BY <1>2, <1>3, <2>1, OccurrenceIs DEF Text, l
  <2>3. CASE p + l - 1 < k
    <3>1. p \in Occurrences(new, s)
      BY <1>3, <2>1, <2>3, CutKeeps DEF l
    <3>2. ASSUME NEW q \in DOMAIN from, q \in Covers(p, s) PROVE from[q] = i + (q - p)
      <4>0. q \in Nat /\ p <= q /\ q <= p + l - 1
        <5>1. q \in p..(p + l - 1)
          BY <3>2 DEF Covers, l
        <5>2. QED BY <1>0, <2>2, <5>1
      <4>1. q < k /\ q \in DOMAIN origin /\ q \in 1..(k - 1)
        <5>1. 1 <= q /\ q <= k - 1 /\ q <= Len(text)
          BY <1>0, <2>2, <2>3, <4>0
        <5>2. QED BY <1>0, <4>0, <5>1
      <4>2. from[q] = origin[q]
        BY <4>1 DEF Cut
      <4>3. QED BY <2>1, <3>2, <4>1, <4>2
    <3>3. ASSUME NEW q \in DOMAIN from, from[q] \in Covers(i, s) PROVE q \in Covers(p, s)
      <4>1. CASE q < k /\ q \in DOMAIN origin /\ origin[q] \in Covers(i, s)
        BY <2>1, <4>1
      <4>2. CASE /\ q >= k + Word /\ q - Word + n \in DOMAIN origin
                 /\ origin[q - Word + n] \in Covers(i, s)
        <5>1. q - Word + n \in Covers(p, s)
          BY <2>1, <4>2
        <5>2. q - Word + n <= p + l - 1
          BY <1>1, <1>2, <1>3, <2>2, <5>1 DEF Covers, l
        <5>3. q >= k + Word /\ q \in Nat
          BY <1>0, <4>2
        <5>4. QED BY <1>0, <2>2, <2>3, <5>2, <5>3
      <4>3. QED BY <1>5, <3>3, <4>1, <4>2
    <3>4. StandsAt(new, from, i, s, p)
      BY <3>1, <3>2, <3>3 DEF StandsAt
    <3>5. QED BY <3>4
  <2>4. CASE p >= k + n
    <3>1. PICK z : z = p + Word - n
      OBVIOUS
    <3>2. z \in Nat \ {0} /\ z >= k + Word /\ z - Word + n = p
      BY <1>1, <1>2, <2>2, <2>4, <3>1
    <3>3. z \in Occurrences(new, s)
      BY <1>3, <2>1, <2>4, <3>1, CutKeeps DEF n
    <3>4. ASSUME NEW q \in DOMAIN from, q \in Covers(z, s) PROVE from[q] = i + (q - z)
      <4>1. q \in Nat /\ q >= k + Word /\ q <= Len(new) /\ z <= q /\ q <= z + l - 1
        BY <1>1, <1>2, <1>3, <3>2, <3>4 DEF Covers, l
      <4>2. PICK x : x = q - Word + n
        OBVIOUS
      <4>3. x \in DOMAIN origin /\ x \in Covers(p, s) /\ x - p = q - z
        <5>0. /\ Word \in Int /\ n \in Int /\ l \in Int /\ p \in Int /\ q \in Int /\ z \in Int
              /\ p = z - Word + n /\ x = q - Word + n /\ z <= q /\ q <= z + l - 1
          BY <1>0, <2>2, <3>2, <4>1, <4>2
        <5>1. x \in Int /\ p <= x /\ x <= p + l - 1 /\ x - p = q - z
          BY <5>0
        <5>2. x \in p..(p + l - 1)
          BY <1>0, <2>2, <5>1
        <5>3. x \in 1..Len(text)
          BY <1>0, <2>2, <5>1
        <5>4. QED BY <1>0, <5>1, <5>2, <5>3 DEF Covers, l
      <4>4. from[q] = origin[x]
        <5>1. q \in (k + Word)..Len(new)
          BY <1>1, <1>2, <4>1
        <5>2. QED BY <4>2, <5>1 DEF Cut, n
      <4>5. QED BY <2>1, <4>3, <4>4
    <3>5. ASSUME NEW q \in DOMAIN from, from[q] \in Covers(i, s) PROVE q \in Covers(z, s)
      <4>1. CASE q < k /\ q \in DOMAIN origin /\ origin[q] \in Covers(i, s)
        <5>1. q \in Covers(p, s)
          BY <2>1, <4>1
        <5>2. p <= q
          BY <1>3, <2>2, <5>1 DEF Covers, l
        <5>3. QED BY <1>1, <1>2, <2>2, <2>4, <3>5, <4>1, <5>2
      <4>2. CASE /\ q >= k + Word /\ q - Word + n \in DOMAIN origin
                 /\ origin[q - Word + n] \in Covers(i, s)
        <5>1. q - Word + n \in Covers(p, s)
          BY <2>1, <4>2
        <5>2. p <= q - Word + n /\ q - Word + n <= p + l - 1
          BY <1>1, <1>2, <1>3, <2>2, <5>1 DEF Covers, l
        <5>3. q \in Nat /\ z <= q /\ q <= z + l - 1
          BY <1>0, <2>2, <3>2, <5>2
        <5>4. q \in z..(z + l - 1)
          BY <1>0, <3>2, <5>3
        <5>5. QED BY <5>4 DEF Covers, l
      <4>3. QED BY <1>5, <3>5, <4>1, <4>2
    <3>6. StandsAt(new, from, i, s, z)
      BY <3>3, <3>4, <3>5 DEF StandsAt
    <3>7. QED BY <3>6
  <2>5. CASE k <= p + l - 1 /\ p <= k + n - 1
    <3>1. /\ \A q \in Covers(k, r) : origin[q] = origin[k] + (q - k)
          /\ origin[k] \in Occurrences(message, r)
      BY <1>2, <1>3, FoundIsQuoted
    <3>2. PICK j : j = origin[k]
      OBVIOUS
    <3>3. j \in Nat \ {0}
      BY <1>3, <3>1, <3>2, OccurrenceIs DEF Text
    <3>4. PICK q \in DOMAIN origin : q \in Covers(k, r) /\ q \in Covers(p, s)
      <4>1. PICK q : q = IF p <= k THEN k ELSE p
        OBVIOUS
      <4>2. q \in DOMAIN origin /\ q \in Covers(k, r) /\ q \in Covers(p, s)
        BY <1>1, <1>2, <1>3, <2>2, <2>5, <4>1 DEF Covers, n, l
      <4>3. QED BY <4>2
    <3>5. origin[q] = i + (q - p) /\ origin[q] = j + (q - k)
      BY <2>1, <3>1, <3>2, <3>4
    <3>6. origin[q] \in Covers(i, s) /\ origin[q] \in Covers(j, r)
      <4>1. q \in Nat
        BY <1>1, <1>2
      <4>2. /\ p <= q /\ q <= p + l - 1 /\ k <= q /\ q <= k + n - 1
        BY <1>2, <1>3, <2>2, <3>4, <4>1 DEF Covers, n, l
      <4>3. i + (q - p) \in Covers(i, s)
        BY <1>3, <2>2, <4>1, <4>2 DEF Covers, l
      <4>4. j + (q - k) \in Covers(j, r)
        BY <1>2, <3>3, <4>1, <4>2 DEF Covers, n
      <4>5. QED BY <3>5, <4>3, <4>4
    <3>7. Overlap(i, s, j, r)
      BY <3>6 DEF Overlap
    <3>8. ~Longest(s, r)
      <4>1. CASE s \in left
        BY <4>1
      <4>2. CASE s \notin left
        <5>1. s = r
          BY <1>3, <2>1, <4>2 DEF Done
        <5>2. QED BY <1>2, <5>1 DEF Longest, n
      <4>3. QED BY <4>1, <4>2
    <3>9. i = j /\ Len(s) = Len(r)
      BY <3>1, <3>2, <3>7, <3>8, LongestIsTheQuote
    <3>10. p = k /\ l = n
      <4>1. q \in Nat
        BY <1>1, <1>2
      <4>2. QED BY <1>2, <1>3, <2>2, <3>5, <3>9, <4>1 DEF l, n
    <3>11. ASSUME NEW y \in DOMAIN from, from[y] \in Covers(i, s) PROVE FALSE
      <4>0. y \in Nat
        BY <1>1
      <4>1. CASE y < k /\ y \in DOMAIN origin /\ origin[y] \in Covers(i, s)
        <5>1. y \in Covers(p, s)
          BY <2>1, <4>1
        <5>2. p <= y
          BY <1>3, <2>2, <4>0, <5>1 DEF Covers, l
        <5>3. QED BY <1>2, <3>10, <4>0, <4>1, <5>2
      <4>2. CASE /\ y >= k + Word /\ y - Word + n \in DOMAIN origin
                 /\ origin[y - Word + n] \in Covers(i, s)
        <5>1. y - Word + n \in Covers(p, s)
          BY <2>1, <4>2
        <5>2. y - Word + n <= p + l - 1
          BY <1>1, <1>2, <1>3, <2>2, <4>0, <5>1 DEF Covers, l
        <5>3. QED BY <1>1, <1>2, <3>10, <4>0, <4>2, <5>2
      <4>3. QED BY <1>5, <3>11, <4>1, <4>2
    <3>12. Gone(from, i, s)
      BY <3>11 DEF Gone
    <3>13. QED BY <3>12
  <2>6. QED BY <1>2, <1>3, <2>2, <2>3, <2>4, <2>5
<1>8. QED BY <1>6, <1>7 DEF Quotes

-----------------------------------------------------------------------------
(* The steps of a log call. *)
LEMMA SecretsAreText ==
  ASSUME NEW secrets, secrets \subseteq Secrets
  PROVE  secrets \subseteq Text \ {<<>>} /\ NoSecret \notin secrets
BY RequestScopeAssumption DEF Text

LEMMA CallStarts ==
  ASSUME NEW message \in Text, NEW secrets, secrets \subseteq Secrets
  PROVE  SoFar(message, message, [k \in DOMAIN message |-> k], secrets, secrets, NoSecret, 0)
<1> DEFINE origin == [k \in DOMAIN message |-> k]
<1>1. Len(message) \in Nat /\ DOMAIN message = 1..Len(message)
  BY LenProperties DEF Text
<1>2. origin \in Seq(Nat) /\ Len(origin) = Len(message) /\ DOMAIN origin = 1..Len(message)
  BY <1>1
<1>3. \A q \in DOMAIN origin : origin[q] = q
  OBVIOUS
<1> HIDE DEF origin
<1>4. Done(message, secrets, secrets, NoSecret, 0)
  BY DEF Done
<1>5. Traced(message, message, origin)
  BY <1>1, <1>2, <1>3 DEF Traced
<1>6. Quotes(message, message, origin, secrets)
  <2>1. ASSUME NEW s \in secrets, NEW i \in Occurrences(message, s)
        PROVE  StandsAt(message, origin, i, s, i)
    <3>1. i \in Nat
      BY <1>1 DEF Occurrences
    <3>2. QED BY <1>1, <1>2, <1>3, <3>1 DEF StandsAt
  <2>2. QED BY <2>1 DEF Quotes
<1>7. SoFar(message, message, origin, secrets, secrets, NoSecret, 0)
  BY <1>2, <1>4, <1>5, <1>6 DEF SoFar
<1>8. QED BY <1>7 DEF origin

LEMMA TurnStarts ==
  ASSUME NEW message, NEW text, NEW origin, NEW secrets, secrets \subseteq Secrets,
         NEW left, left \subseteq secrets, NEW at,
         SoFar(message, text, origin, secrets, left, NoSecret, at),
         NEW r \in left, \A s \in left : ~Longest(s, r),
         NEW rest, rest \subseteq left, left \ {r} \subseteq rest
  PROVE  SoFar(message, text, origin, secrets, rest, r, 0)
<1>1. NoSecret \notin secrets /\ secrets \subseteq Text \ {<<>>}
  BY SecretsAreText
<1>2. ASSUME NEW s \in secrets \ rest, Clear(s), NEW i \in Occurrences(text, s)
      PROVE  s = r /\ i > 0
  <2>1. s \in left
    BY <1>1, <1>2 DEF SoFar, Done
  <2>2. i \in Nat \ {0}
    BY <1>1, OccurrenceIs DEF SoFar, Text
  <2>3. QED BY <2>1, <2>2
<1>3. Done(text, secrets, rest, r, 0)
  BY <1>2 DEF Done
<1>4. r \in secrets /\ \A s \in rest : ~Longest(s, r)
  OBVIOUS
<1>5. QED BY <1>3, <1>4 DEF SoFar

LEMMA MatchPreserves ==
  ASSUME NEW message \in Text, NEW text, NEW origin, NEW secrets, secrets \subseteq Secrets,
         NEW left, NEW at, NEW r, r # NoSecret,
         SoFar(message, text, origin, secrets, left, r, at),
         NEW k \in Occurrences(text, r), \A j \in Occurrences(text, r) : j > at => k <= j
  PROVE  SoFar(message, ReplaceSubSeqAt(k, REDACTED, r, text),
               ReplaceSubSeqAt(k, Nowhere, r, origin), secrets, left, r, k + Len(REDACTED) - 1)
<1>1. secrets \subseteq Text \ {<<>>}
  BY SecretsAreText
<1>2. /\ r \in secrets /\ \A s \in left : ~Longest(s, r)
      /\ Done(text, secrets, left, r, at)
      /\ AllClear(secrets) => Traced(message, text, origin)
                              /\ Quotes(message, text, origin, secrets)
  BY DEF SoFar
<1>3. r \in Text /\ r # <<>> /\ text \in Text /\ origin \in Seq(Nat) /\ Len(origin) = Len(text)
  BY <1>1 DEF SoFar
<1> DEFINE new == ReplaceSubSeqAt(k, REDACTED, r, text)
           from == ReplaceSubSeqAt(k, Nowhere, r, origin)
           end == k + Len(REDACTED) - 1
<1>4. Cut(text, origin, Len(r), k, new, from)
  BY <1>3, ReplacedIsCut
<1>5. Done(new, secrets, left, r, end)
  BY <1>1, <1>2, <1>3, CutIsDone
<1>6. end \in Nat
  <2>1. k \in Nat \ {0}
    BY <1>3, OccurrenceIs DEF Text
  <2>2. QED BY <2>1, WordIs
<1> HIDE DEF new, from, end
<1>7. ASSUME AllClear(secrets)
      PROVE  Traced(message, new, from) /\ Quotes(message, new, from, secrets)
  <2>1. Clear(r) /\ Traced(message, text, origin) /\ Quotes(message, text, origin, secrets)
    BY <1>2, <1>7 DEF AllClear
  <2>2. Traced(message, new, from)
    BY <1>3, <1>4, <2>1, CutIsTraced
  <2>3. Quotes(message, new, from, secrets)
    BY <1>1, <1>2, <1>4, <1>7, <2>1, CutKeepsQuotes
  <2>4. QED BY <2>2, <2>3
<1>8. new \in Text /\ from \in Seq(Nat) /\ Len(from) = Len(new)
  BY <1>4 DEF Cut
<1>9. SoFar(message, new, from, secrets, left, r, end)
  BY <1>2, <1>5, <1>6, <1>7, <1>8 DEF SoFar
<1>10. QED BY <1>9 DEF new, from, end

LEMMA TurnEnds ==
  ASSUME NEW message, NEW text, NEW origin, NEW secrets, NEW left, NEW r, NEW at,
         SoFar(message, text, origin, secrets, left, r, at),
         \A k \in Occurrences(text, r) : ~(k > at)
  PROVE  SoFar(message, text, origin, secrets, left, NoSecret, at)
<1>1. Done(text, secrets, left, NoSecret, at)
  BY DEF SoFar, Done
<1>2. QED BY <1>1 DEF SoFar

(* When the turns are over no clear secret is found, and so no quote       *)
(* stands.                                                                 *)
LEMMA CallEnds ==
  ASSUME NEW message, NEW text, NEW origin, NEW secrets, secrets \subseteq Secrets, NEW at,
         SoFar(message, text, origin, secrets, {}, NoSecret, at)
  PROVE  /\ \A s \in secrets : Clear(s) => Occurrences(text, s) = {}
         /\ AllClear(secrets) =>
              \A s \in secrets : \A i \in Occurrences(message, s) :
                Whole(message, secrets, i, s) => Gone(origin, i, s)
<1>1. NoSecret \notin secrets
  BY SecretsAreText
<1>2. \A s \in secrets : Clear(s) => Occurrences(text, s) = {}
  BY <1>1 DEF SoFar, Done
<1>3. QED BY <1>2 DEF SoFar, AllClear, Quotes, StandsAt

-----------------------------------------------------------------------------
(* A secret is what was given, until it is wiped. *)
TokensAreGiven ==
  \A s \in DOMAIN scopes :
    /\ \A c \in scopes[s].listed : c \in Connectors /\ scopes[s].given[c] \in Secrets
    /\ \A c \in Connectors : scopes[s].secret[c] \in {NoSecret, scopes[s].given[c]}

Redacts(d) ==
  /\ d.message \in Messages /\ d.left \subseteq d.tokens /\ d.tokens \subseteq Connectors
  /\ d.tokens # {} => d.scope \in DOMAIN scopes
  /\ \A c \in d.tokens : scopes[d.scope].given[c] \in Secrets
  /\ SoFar(d.message, d.text, d.origin, GivenTo(d.scope, d.tokens), GivenTo(d.scope, d.left),
           d.secret, d.at)

LogInvariant ==
  /\ TokensAreGiven /\ NoTokenInLogs /\ NoRestInLogs
  /\ \A t \in Tasks : Logging(t) => Redacts(doing[t])

KeepsGiven ==
  /\ DOMAIN scopes \subseteq DOMAIN scopes'
  /\ \A s \in DOMAIN scopes : scopes'[s].given = scopes[s].given

(* Others do not disturb a log call: what tokens were given stays.         *)
LEMMA RedactsOn ==
  ASSUME NEW d, Redacts(d), KeepsGiven
  PROVE  Redacts(d)'
<1>1. /\ d.message \in Messages /\ d.left \subseteq d.tokens /\ d.tokens \subseteq Connectors
      /\ d.tokens # {} => d.scope \in DOMAIN scopes
      /\ \A c \in d.tokens : scopes[d.scope].given[c] \in Secrets
      /\ SoFar(d.message, d.text, d.origin, GivenTo(d.scope, d.tokens), GivenTo(d.scope, d.left),
               d.secret, d.at)
  BY DEF Redacts
<1>2. \A c \in d.tokens : scopes'[d.scope].given = scopes[d.scope].given
  BY <1>1 DEF KeepsGiven
<1>3. /\ GivenTo(d.scope, d.tokens)' = GivenTo(d.scope, d.tokens)
      /\ GivenTo(d.scope, d.left)' = GivenTo(d.scope, d.left)
  BY <1>1, <1>2 DEF GivenTo
<1>4. /\ d.tokens # {} => d.scope \in DOMAIN scopes'
      /\ \A c \in d.tokens : scopes'[d.scope].given[c] \in Secrets
  BY <1>1, <1>2 DEF KeepsGiven
<1>5. SoFar(d.message, d.text, d.origin, GivenTo(d.scope, d.tokens), GivenTo(d.scope, d.left),
            d.secret, d.at)'
  BY <1>1, <1>3
<1>6. QED BY <1>1, <1>4, <1>5 DEF Redacts

LEMMA LogsGoOn ==
  ASSUME LogInvariant, KeepsGiven, NEW t \in Tasks,
         \A u \in Tasks : u # t => doing'[u] = doing[u],
         Logging(t)' => Redacts(doing[t])'
  PROVE  \A u \in Tasks : Logging(u)' => Redacts(doing[u])'
<1> SUFFICES ASSUME NEW u \in Tasks, u # t, Logging(u)' PROVE Redacts(doing[u])'
  OBVIOUS
<1>1. doing'[u] = doing[u] /\ Redacts(doing[u])
  BY DEF Logging, LogInvariant
<1>2. PICK d : d = doing[u]
  OBVIOUS
<1>3. Redacts(d)'
  BY <1>1, <1>2, RedactsOn
<1>4. doing'[u] = d
  BY <1>1, <1>2
<1>5. QED BY <1>3, <1>4 DEF Redacts

(* A step of a log call, which leaves the scopes alone. *)
LEMMA CallGoesOn ==
  ASSUME LogInvariant, UNCHANGED <<scopes, written>>, DOMAIN doing = Tasks, NEW t \in Tasks, NEW e,
         doing' = [doing EXCEPT ![t] = e], Redacts(e)
  PROVE  LogInvariant'
<1>1. KeepsGiven /\ TokensAreGiven' /\ NoTokenInLogs' /\ NoRestInLogs'
  BY DEF KeepsGiven, LogInvariant, TokensAreGiven, NoTokenInLogs, NoRestInLogs
<1>2. Redacts(e)'
  BY <1>1, RedactsOn
<1>3. doing'[t] = e /\ \A u \in Tasks : u # t => doing'[u] = doing[u]
  OBVIOUS
<1>4. Logging(t)' => Redacts(doing[t])'
  BY <1>2, <1>3 DEF Redacts
<1>5. \A u \in Tasks : Logging(u)' => Redacts(doing[u])'
  BY <1>1, <1>3, <1>4, LogsGoOn
<1>6. QED BY <1>1, <1>5 DEF LogInvariant

(* A log call lists the tokens of the innermost scope. *)
LEMMA LogStarts ==
  ASSUME ScopeInvariant, LogInvariant, NEW t \in Tasks, NEW message \in Messages, log(t, message)
  PROVE  LogInvariant'
<1> DEFINE s == context[t]
           tokens == Visible(t)
<1>1. /\ UNCHANGED <<scopes, written>> /\ DOMAIN doing = Tasks
      /\ doing' = [doing EXCEPT ![t] = Redacting(s, message, tokens)]
  BY DEF log, ScopeInvariant, TypesOK
<1>2. tokens # {} => s \in DOMAIN scopes
  BY InnermostIsAScope DEF ScopeInvariant, ContextIsInnermost, Visible
<1>3. \A c \in tokens : c \in Connectors /\ scopes[s].given[c] \in Secrets
  BY <1>2 DEF LogInvariant, TokensAreGiven, Visible
<1> HIDE DEF s, tokens
<1>4. GivenTo(s, tokens) \subseteq Secrets /\ message \in Text
  BY <1>3, RequestScopeAssumption DEF GivenTo, Text
<1>5. SoFar(message, message, [k \in DOMAIN message |-> k], GivenTo(s, tokens), GivenTo(s, tokens),
            NoSecret, 0)
  BY <1>4, CallStarts
<1>6. PICK d : d = Redacting(s, message, tokens)
  OBVIOUS
<1>7. /\ d.scope = s /\ d.message = message /\ d.tokens = tokens /\ d.left = tokens
      /\ d.text = message /\ d.origin = [k \in DOMAIN message |-> k]
      /\ d.secret = NoSecret /\ d.at = 0
  BY <1>6 DEF Redacting
<1>8. Redacts(d)
  BY <1>2, <1>3, <1>5, <1>7 DEF Redacts
<1>9. QED BY <1>1, <1>6, <1>8, CallGoesOn

(* The longest token left has its turn. *)
LEMMA RedactPreserves ==
  ASSUME ScopeInvariant, CallsHaveFields, LogInvariant, NEW t \in Tasks, NEW c \in Connectors,
         redact(t, c)
  PROVE  LogInvariant'
<1>1. PICK d : d = doing[t]
  OBVIOUS
<1> DEFINE r == scopes[d.scope].given[c]
           secrets == GivenTo(d.scope, d.tokens)
           left == GivenTo(d.scope, d.left)
           rest == GivenTo(d.scope, d.left \ {c})
<1>2. UNCHANGED <<scopes, written>> /\ DOMAIN doing = Tasks
  BY DEF redact, CallsHaveFields
<1>3. PICK e : /\ doing' = [doing EXCEPT ![t] = e]
               /\ e.left = d.left \ {c} /\ e.at = 0 /\ e.secret = scopes[d.scope].secret[c]
               /\ e.scope = d.scope /\ e.message = d.message /\ e.tokens = d.tokens
               /\ e.text = d.text /\ e.origin = d.origin
  BY <1>1, RedactIs
<1>4. /\ c \in d.left /\ scopes[d.scope].secret[c] # NoSecret /\ d.secret = NoSecret
      /\ \A f \in d.left : ~Longest(scopes[d.scope].given[f], r)
  BY <1>1 DEF redact, Turn, Usable, Replacing
<1>5. Redacts(d)
  BY <1>1 DEF redact, Turn, LogInvariant
<1>6. /\ d.message \in Messages /\ d.left \subseteq d.tokens /\ d.tokens \subseteq Connectors
      /\ d.tokens # {} => d.scope \in DOMAIN scopes
      /\ \A f \in d.tokens : scopes[d.scope].given[f] \in Secrets
      /\ SoFar(d.message, d.text, d.origin, secrets, left, NoSecret, d.at)
  BY <1>4, <1>5 DEF Redacts
<1>7. scopes[d.scope].secret[c] = r
  BY <1>4, <1>6 DEF LogInvariant, TokensAreGiven
<1>8. /\ r \in left /\ left \subseteq secrets /\ rest \subseteq left /\ left \ {r} \subseteq rest
      /\ \A s \in left : ~Longest(s, r)
  BY <1>4, <1>6 DEF GivenTo
<1>9. secrets \subseteq Secrets
  BY <1>6 DEF GivenTo
<1>10. SoFar(d.message, d.text, d.origin, secrets, rest, r, 0)
  <2> HIDE DEF secrets, left, rest, r
  <2>1. QED BY <1>6, <1>8, <1>9, TurnStarts
<1>11. Redacts(e)
  BY <1>3, <1>4, <1>6, <1>7, <1>10 DEF Redacts
<1>12. QED BY <1>2, <1>3, <1>11, CallGoesOn

(* It is replaced where it is found next, or found no more. *)
LEMMA ReplacePreserves ==
  ASSUME ScopeInvariant, CallsHaveFields, LogInvariant, NEW t \in Tasks, replace(t)
  PROVE  LogInvariant'
<1>1. PICK d : d = doing[t]
  OBVIOUS
<1> DEFINE secrets == GivenTo(d.scope, d.tokens)
           left == GivenTo(d.scope, d.left)
<1>2. UNCHANGED <<scopes, written>> /\ DOMAIN doing = Tasks /\ d.secret # NoSecret
  BY <1>1 DEF replace, Replacing, CallsHaveFields
<1>3. PICK e : /\ doing' = [doing EXCEPT ![t] = e]
               /\ e.scope = d.scope /\ e.message = d.message
               /\ e.tokens = d.tokens /\ e.left = d.left
               /\ \/ /\ Ahead(d) = {} /\ e.secret = NoSecret
                     /\ e.text = d.text /\ e.origin = d.origin /\ e.at = d.at
                  \/ \E k \in Ahead(d) :
                     /\ \A j \in Ahead(d) : k <= j
                     /\ e.secret = d.secret
                     /\ e.text = ReplaceSubSeqAt(k, REDACTED, d.secret, d.text)
                     /\ e.origin = ReplaceSubSeqAt(k, Nowhere, d.secret, d.origin)
                     /\ e.at = k + Len(REDACTED) - 1
  BY <1>1, ReplaceIs
<1>4. Redacts(d)
  BY <1>1 DEF replace, Replacing, LogInvariant
<1>5. /\ d.message \in Messages /\ d.left \subseteq d.tokens /\ d.tokens \subseteq Connectors
      /\ d.tokens # {} => d.scope \in DOMAIN scopes
      /\ \A f \in d.tokens : scopes[d.scope].given[f] \in Secrets
      /\ SoFar(d.message, d.text, d.origin, secrets, left, d.secret, d.at)
  BY <1>4 DEF Redacts
<1>6. secrets \subseteq Secrets /\ d.message \in Text
  BY <1>5, RequestScopeAssumption DEF GivenTo, Text
<1>7. SoFar(e.message, e.text, e.origin, secrets, left, e.secret, e.at)
  <2> HIDE DEF secrets, left
  <2>1. CASE Ahead(d) = {}
    <3>1. \A k \in Occurrences(d.text, d.secret) : ~(k > d.at)
      BY <2>1 DEF Ahead
    <3>2. SoFar(d.message, d.text, d.origin, secrets, left, NoSecret, d.at)
      BY <1>5, <3>1, TurnEnds
    <3>3. QED BY <1>3, <2>1, <3>2
  <2>2. ASSUME NEW k \in Ahead(d), \A j \in Ahead(d) : k <= j,
               e.secret = d.secret,
               e.text = ReplaceSubSeqAt(k, REDACTED, d.secret, d.text),
               e.origin = ReplaceSubSeqAt(k, Nowhere, d.secret, d.origin),
               e.at = k + Len(REDACTED) - 1
        PROVE  SoFar(e.message, e.text, e.origin, secrets, left, e.secret, e.at)
    <3>1. /\ k \in Occurrences(d.text, d.secret)
          /\ \A j \in Occurrences(d.text, d.secret) : j > d.at => k <= j
      BY <2>2 DEF Ahead
    <3>2. SoFar(d.message, ReplaceSubSeqAt(k, REDACTED, d.secret, d.text),
                ReplaceSubSeqAt(k, Nowhere, d.secret, d.origin), secrets, left, d.secret,
                k + Len(REDACTED) - 1)
      BY <1>2, <1>5, <1>6, <3>1, MatchPreserves
    <3>3. QED BY <1>3, <2>2, <3>2
  <2>3. QED BY <1>3, <2>1, <2>2
<1>8. Redacts(e)
  BY <1>3, <1>5, <1>7 DEF Redacts
<1>9. QED BY <1>2, <1>3, <1>8, CallGoesOn

(* A handler is given the line when no token is left. *)
LEMMA FilterPreserves ==
  ASSUME ScopeInvariant, LogInvariant, NEW t \in Tasks, RedactionFilter(t)
  PROVE  LogInvariant'
<1>1. PICK d : d = doing[t]
  OBVIOUS
<1> DEFINE secrets == GivenTo(d.scope, d.tokens)
           w == [message |-> d.message, line |-> d.text, origin |-> d.origin, secrets |-> secrets]
<1>2. /\ UNCHANGED scopes /\ DOMAIN doing = Tasks /\ doing' = [doing EXCEPT ![t] = Nothing]
      /\ written' = written \cup {w} /\ d.left = {} /\ d.secret = NoSecret /\ Redacts(d)
  BY <1>1 DEF RedactionFilter, Replacing, Logging, ScopeInvariant, TypesOK, LogInvariant
<1>3. GivenTo(d.scope, {}) = {}
  BY DEF GivenTo
<1>4. /\ secrets \subseteq Secrets
      /\ SoFar(d.message, d.text, d.origin, secrets, {}, NoSecret, d.at)
  BY <1>2, <1>3 DEF Redacts, GivenTo
<1>5. /\ \A s \in w.secrets : Clear(s) => Occurrences(w.line, s) = {}
      /\ AllClear(w.secrets) =>
           \A s \in w.secrets : \A i \in Occurrences(w.message, s) :
             Whole(w.message, w.secrets, i, s) => Gone(w.origin, i, s)
  <2> HIDE DEF secrets
  <2>1. QED BY <1>4, CallEnds
<1> HIDE DEF w
<1>6. NoTokenInLogs' /\ NoRestInLogs'
  BY <1>2, <1>5 DEF LogInvariant, NoTokenInLogs, NoRestInLogs, AllClear, Gone
<1>7. KeepsGiven /\ TokensAreGiven'
  BY <1>2 DEF KeepsGiven, LogInvariant, TokensAreGiven
<1>8. ~Logging(t)'
  BY <1>2 DEF Logging, Nothing
<1>9. \A u \in Tasks : Logging(u)' => Redacts(doing[u])'
  BY <1>2, <1>7, <1>8, LogsGoOn
<1>10. QED BY <1>6, <1>7, <1>9 DEF LogInvariant

(* What is not about logs leaves them alone: scopes come and tokens go.    *)
LEMMA OthersPreserve ==
  ASSUME LogInvariant, KeepsGiven, TokensAreGiven', UNCHANGED written, NEW t \in Tasks,
         \A u \in Tasks : u # t => doing'[u] = doing[u], Logging(t)' => doing'[t] = doing[t]
  PROVE  LogInvariant'
<1>1. PICK d : d = doing[t]
  OBVIOUS
<1>2. ASSUME Logging(t)' PROVE Redacts(doing[t])'
  <2>1. doing'[t] = d /\ Redacts(d)
    BY <1>1, <1>2 DEF Logging, LogInvariant
  <2>2. Redacts(d)'
    BY <2>1, RedactsOn
  <2>3. QED BY <2>1, <2>2 DEF Redacts
<1>3. \A u \in Tasks : Logging(u)' => Redacts(doing[u])'
  BY <1>2, LogsGoOn
<1>4. QED BY <1>3 DEF LogInvariant, NoTokenInLogs, NoRestInLogs

LEMMA ScopeStarts ==
  ASSUME ScopeInvariant, LogInvariant, NEW t \in Tasks, NEW headers \in Headers,
         request_scope(t, headers)
  PROVE  LogInvariant'
<1> DEFINE new == Scope(t, headers)
<1>1. /\ scopes' = Append(scopes, new) /\ scopes \in Seq(ScopeType) /\ DOMAIN doing = Tasks
      /\ UNCHANGED <<doing, written>>
  BY DEF request_scope, ScopeInvariant, TypesOK
<1>2. \A c \in new.listed : c \in Connectors /\ new.given[c] \in Secrets
  BY DEF Scope, Headers
<1>3. \A c \in Connectors : new.secret[c] \in {NoSecret, new.given[c]}
  BY DEF Scope
<1> HIDE DEF new
<1>4. /\ DOMAIN scopes' = DOMAIN scopes \cup {Len(scopes) + 1} /\ scopes'[Len(scopes) + 1] = new
      /\ \A s \in DOMAIN scopes : scopes'[s] = scopes[s]
  BY <1>1, LenProperties
<1>5. TokensAreGiven'
  BY <1>2, <1>3, <1>4 DEF LogInvariant, TokensAreGiven
<1>6. KeepsGiven
  BY <1>4 DEF KeepsGiven
<1>7. QED BY <1>1, <1>5, <1>6, OthersPreserve

LEMMA WipeKeepsLogs ==
  ASSUME ScopeInvariant, LogInvariant, NEW t \in Tasks, WipeToken(t) \/ WipeTokens(t)
  PROVE  LogInvariant'
<1> DEFINE s == doing[t].scope
<1>1. /\ s \in DOMAIN scopes /\ scopes[s] \in ScopeType /\ scopes \in Seq(ScopeType)
      /\ DOMAIN doing = Tasks
  BY DEF ScopeInvariant, TypesOK, WipeToken, WipeTokens, Wiping
<1>2. PICK r : /\ scopes' = [scopes EXCEPT ![s] = r] /\ r.given = scopes[s].given
               /\ r.listed \subseteq scopes[s].listed
               /\ \A c \in Connectors : r.secret[c] \in {NoSecret, scopes[s].secret[c]}
  <2>1. CASE WipeToken(t)
    <3>1. PICK c \in Connectors : scopes' = [scopes EXCEPT ![s].secret[c] = NoSecret]
      BY <2>1, <1>1 DEF WipeToken, ScopeType
    <3> DEFINE r == [scopes[s] EXCEPT !.secret[c] = NoSecret]
    <3>2. scopes' = [scopes EXCEPT ![s] = r]
      BY <3>1
    <3>3. /\ r.given = scopes[s].given /\ r.listed = scopes[s].listed
          /\ \A d \in Connectors : r.secret[d] \in {NoSecret, scopes[s].secret[d]}
      BY <1>1 DEF ScopeType, Headers
    <3> HIDE DEF r
    <3>4. QED BY <3>2, <3>3
  <2>2. CASE WipeTokens(t)
    <3> DEFINE r == [scopes[s] EXCEPT !.listed = {}, !.ended = TRUE]
    <3>1. scopes' = [scopes EXCEPT ![s] = r]
      BY <2>2, <1>1 DEF WipeTokens
    <3>2. r.given = scopes[s].given /\ r.listed = {} /\ r.secret = scopes[s].secret
      BY <1>1 DEF ScopeType
    <3> HIDE DEF r
    <3>3. QED BY <3>1, <3>2
  <2>3. QED BY <2>1, <2>2
<1>3. /\ DOMAIN scopes' = DOMAIN scopes /\ scopes'[s] = r
      /\ \A q \in DOMAIN scopes : q # s => scopes'[q] = scopes[q]
  BY <1>1, <1>2
<1>4. TokensAreGiven'
  BY <1>1, <1>2, <1>3 DEF LogInvariant, TokensAreGiven
<1>5. KeepsGiven
  BY <1>2, <1>3 DEF KeepsGiven
<1>6. UNCHANGED written /\ (doing' = doing \/ doing' = [doing EXCEPT ![t] = Nothing])
  BY DEF WipeToken, WipeTokens
<1>7. Logging(t)' => doing'[t] = doing[t]
  BY <1>1, <1>6 DEF Logging, Nothing
<1>8. \A u \in Tasks : u # t => doing'[u] = doing[u]
  BY <1>1, <1>6
<1>9. QED BY <1>4, <1>5, <1>6, <1>7, <1>8, OthersPreserve

(* Steps that do not touch the scopes, and do not begin a log call. *)
LEMMA UsesKeepLogs ==
  ASSUME ScopeInvariant, LogInvariant, UNCHANGED <<scopes, written>>, NEW t \in Tasks, NEW d,
         d.what # "log", doing' = doing \/ doing' = [doing EXCEPT ![t] = d]
  PROVE  LogInvariant'
<1>1. KeepsGiven /\ TokensAreGiven' /\ DOMAIN doing = Tasks
  BY DEF KeepsGiven, LogInvariant, TokensAreGiven, ScopeInvariant, TypesOK
<1>2. Logging(t)' => doing'[t] = doing[t]
  BY <1>1 DEF Logging
<1>3. \A u \in Tasks : u # t => doing'[u] = doing[u]
  BY <1>1
<1>4. QED BY <1>1, <1>2, <1>3, OthersPreserve

-----------------------------------------------------------------------------
LEMMA LogPreserves ==
  ASSUME ScopeInvariant, CallsHaveFields, LogInvariant, [ScopeNext]_scopeVars
  PROVE  LogInvariant'
<1>0. DOMAIN doing = Tasks
  BY DEF ScopeInvariant, TypesOK
<1>1. CASE UNCHANGED scopeVars
  <2>1. KeepsGiven /\ TokensAreGiven' /\ NoTokenInLogs' /\ NoRestInLogs'
    BY <1>1 DEF scopeVars, LogInvariant, TokensAreGiven, NoTokenInLogs, NoRestInLogs, KeepsGiven
  <2>2. ASSUME NEW t \in Tasks, Logging(t)' PROVE Redacts(doing[t])'
    <3>1. PICK d : d = doing[t]
      OBVIOUS
    <3>2. doing'[t] = d /\ Redacts(d)
      BY <1>1, <2>2, <3>1 DEF scopeVars, Logging, LogInvariant
    <3>3. Redacts(d)'
      BY <2>1, <3>2, RedactsOn
    <3>4. QED BY <3>2, <3>3 DEF Redacts
  <2>3. QED BY <2>1, <2>2 DEF LogInvariant
<1>2. ASSUME NEW t \in Tasks, NEW headers \in Headers, request_scope(t, headers)
      PROVE  LogInvariant'
  BY <1>2, ScopeStarts
<1>3. ASSUME NEW t \in Tasks, WipeToken(t) \/ WipeTokens(t) PROVE LogInvariant'
  BY <1>3, WipeKeepsLogs
<1>4. ASSUME NEW t \in Tasks, NEW message \in Messages, log(t, message) PROVE LogInvariant'
  BY <1>4, LogStarts
<1>5. ASSUME NEW t \in Tasks, replace(t) \/ \E c \in Connectors : redact(t, c)
      PROVE  LogInvariant'
  BY <1>5, RedactPreserves, ReplacePreserves
<1>6. ASSUME NEW t \in Tasks, RedactionFilter(t) PROVE LogInvariant'
  BY <1>6, FilterPreserves
<1>7. ASSUME NEW t \in Tasks,
             \/ \E u \in Tasks : StartTask(t, u)
             \/ EndTask(t) \/ Leave(t) \/ reveal(t)
             \/ \E c \in Connectors : token_for(t, c) \/ LogRaises(t, c)
      PROVE  LogInvariant'
  <2>1. UNCHANGED <<scopes, written>>
    BY <1>7 DEF StartTask, EndTask, Leave, reveal, token_for, LogRaises
  <2>2. \E d : d.what # "log" /\ (doing' = doing \/ doing' = [doing EXCEPT ![t] = d])
    <3>1. CASE \/ \E u \in Tasks : StartTask(t, u)
               \/ EndTask(t) \/ reveal(t) \/ \E c \in Connectors : LogRaises(t, c)
      <4>1. Nothing.what # "log"
        BY DEF Nothing
      <4>2. doing' = doing \/ doing' = [doing EXCEPT ![t] = Nothing]
        BY <3>1 DEF StartTask, EndTask, reveal, LogRaises
      <4>3. QED BY <4>1, <4>2
    <3>2. CASE Leave(t)
      <4> DEFINE d == [what |-> "wipe", scope |-> Innermost(t)]
      <4>1. d.what # "log" /\ doing' = [doing EXCEPT ![t] = d]
        BY <3>2 DEF Leave
      <4> HIDE DEF d
      <4>2. QED BY <4>1
    <3>3. ASSUME NEW c \in Connectors, token_for(t, c)
          PROVE  \E d : d.what # "log" /\ (doing' = doing \/ doing' = [doing EXCEPT ![t] = d])
      <4> DEFINE d == [what |-> "token", scope |-> context[t], connector |-> c]
      <4>1. d.what # "log" /\ (doing' = doing \/ doing' = [doing EXCEPT ![t] = d])
        BY <3>3 DEF token_for
      <4> HIDE DEF d
      <4>2. QED BY <4>1
    <3>4. QED BY <1>7, <3>1, <3>2, <3>3
  <2>3. QED BY <2>1, <2>2, UsesKeepLogs
<1>8. QED
  BY <1>1, <1>2, <1>3, <1>4, <1>5, <1>6, <1>7 DEF ScopeNext, Headers

LEMMA LogsAreRedacted == ScopeSpec => []LogInvariant
<1>1. ScopeInit => ScopeInvariant
  BY DEF ScopeInit, ScopeInvariant, TypesOK, EndedIsWiped, StacksLink, LivesInTask,
         ContextIsInnermost, HoldersAreInside, Innermost, Nothing, TokensStayInScope
<1>2. ScopeInit => LogInvariant
  BY DEF ScopeInit, LogInvariant, TokensAreGiven, NoTokenInLogs, NoRestInLogs, Logging, Nothing
<1>3. ScopeInit => CallsHaveFields
  BY DEF ScopeInit, CallsHaveFields, Logging, Nothing
<1>4. QED
  BY <1>1, <1>2, <1>3, ScopePreserves, FieldsPreserved, LogPreserves, PTL DEF ScopeSpec

(* INV-3: whatever is logged, by whatever tasks, and whenever tokens are   *)
(* wiped, no line that is written has a secret that was in scope when its  *)
(* log call began and that the word [REDACTED] gives nothing of.           *)
THEOREM LogsHaveNoToken == ScopeSpec => []NoTokenInLogs
<1>1. LogInvariant => NoTokenInLogs
  BY DEF LogInvariant
<1>2. QED BY <1>1, LogsAreRedacted, PTL

(* And nothing is left of one, where it is not mixed up with another.      *)
THEOREM LogsHaveNoRest == ScopeSpec => []NoRestInLogs
<1>1. LogInvariant => NoRestInLogs
  BY DEF LogInvariant
<1>2. QED BY <1>1, LogsAreRedacted, PTL
=============================================================================
