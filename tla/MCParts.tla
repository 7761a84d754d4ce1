-------------------------------- MODULE MCParts --------------------------------
(***************************************************************************)
(* The parts that share no state with anything else: three loops that      *)
(* everything rests on (effective_principals, AclTable.build, split_text), *)
(* two parts of the HTTP server (token scopes, connector configurations)   *)
(* and the policies of sources.  In a behaviour one of them runs, while    *)
(* the others have next to nothing to do.                                  *)
(***************************************************************************)
EXTENDS EffectivePrincipals, AclTable, SplitText, RequestScope, ConnectorRegistry,
        SourceAcl

CONSTANTS ch1, ch2, blank, left_, inner, right_   \* characters
CONSTANT gdrive   \* a connector

Reader == CHOOSE u \in Users : TRUE

(* Grants and denies of the reader, of everyone and of neither. *)
Known == {Reader, EVERYONE}
Lists == UNION {[1..k -> [grants : SUBSET Known, denies : SUBSET {Reader}]] : k \in 0..2}

ShortTexts == UNION {[1..k -> Characters] : k \in 0..5}

(* No overlap, some, and more than the shortest span. *)
Chunkings == {c \in [max_chars : 1..4, overlap_chars : 0..3] :
                c.max_chars # 2 /\ c.overlap_chars < c.max_chars}

(* For everyone, for the reader, for the reader but for a bad entry. *)
Contents == {[grants |-> {EVERYONE}, denies |-> {}],
             [grants |-> {Reader}, denies |-> {}],
             [grants |-> {EVERYONE}, denies |-> {Unusable}],
             NotJson, NotUtf8}

Shares == SUBSET {[type |-> "anyone", names |-> {}], [type |-> "user", names |-> {Reader}],
                  [type |-> "other", names |-> {}]}

Word == <<left_, inner, right_>>

(* One secret is the beginning of another, which can overlap itself; one   *)
(* comes about where the word stands beside ch2.                           *)
Unclear == <<right_, ch2>>
Headers == {<<ch1>>, <<ch1, ch2, ch1>>, Unclear}

(* Bound: the second scope has one token at most, and the last secret is   *)
(* tried in one place, in a scope that is the only one.                    *)
FewTokens ==
  \A s \in DOMAIN scopes' :
    /\ s > 1 => Cardinality({c \in Connectors : scopes'[s].given[c] # NoSecret}) < 2
    /\ \A c \in Connectors :
         scopes'[s].given[c] = Unclear => Len(scopes') = 1 /\ c = gdrive

Lines == {<<ch1, ch2, ch1, blank, ch1, ch2, ch1, ch2, ch1>>}

NoGroups == graph = [g \in Groups |-> {}] /\ caller = [id |-> Reader, groups |-> {}]
NoPolicies == policies = <<>>
NoText == text = <<>> /\ config = [max_chars |-> 1, overlap_chars |-> 0]

(* The last three parts run beside finished loops only. *)
NoLoops == NoGroups /\ NoPolicies /\ NoText
Quiet == NoLoops /\ result.returned

MCInit ==
  /\ \/ NoPolicies /\ NoText
     \/ NoGroups /\ NoText
     \/ NoGroups /\ NoPolicies
  /\ Init /\ BuildInit /\ SplitInit /\ ScopeInit /\ RegistryInit
  /\ SourceInit /\ (source = "gdrive" => NoLoops)

MCNext ==
  \/ Next /\ UNCHANGED <<tableVars, splitVars, scopeVars, registryVars, sourceVars>>
  \/ BuildNext /\ UNCHANGED <<vars, splitVars, scopeVars, registryVars, sourceVars>>
  \/ SplitStep /\ UNCHANGED <<vars, tableVars, scopeVars, registryVars, sourceVars>>
  \/ /\ Quiet /\ RegistryInit /\ SourceInit /\ ScopeNext /\ FewTokens
     /\ UNCHANGED <<vars, tableVars, splitVars, registryVars, sourceVars>>
  \/ /\ Quiet /\ ScopeInit /\ SourceInit /\ RegistryNext
     /\ UNCHANGED <<vars, tableVars, splitVars, scopeVars, sourceVars>>
  \/ /\ Quiet /\ ScopeInit /\ RegistryInit /\ SourceNext
     /\ UNCHANGED <<vars, tableVars, splitVars, scopeVars, registryVars>>

(* The worklist loop runs in one thread with nothing to wait for. *)
MCSpec ==
  /\ MCInit
  /\ [][MCNext]_<<vars, tableVars, splitVars, scopeVars, registryVars, sourceVars>>
  /\ WF_vars(Next)
=============================================================================
