-------------------------------- MODULE AclTable --------------------------------
(***************************************************************************)
(* AclTable (perimeter/index/flat.py) and permitted_rows                   *)
(* (perimeter/index/filtered_search.py): the policies of the index's rows  *)
(* as two lists of vocabulary numbers, cut into rows by two lists of       *)
(* offsets, and the mask computed on them.                                 *)
(*                                                                         *)
(* build is a state machine with one step per principal of a policy, first *)
(* its grants, then its denies.  sorted lists them by name; names are      *)
(* model values, so any order is possible.  Rows and vocabulary numbers    *)
(* count from 1 here.                                                      *)
(***************************************************************************)
EXTENDS AccessPolicy, Integers, Sequences

CONSTANT PolicyLists   \* the arguments of build

ASSUME PolicyListsAssumption == PolicyLists \subseteq Seq(Policies)

VARIABLES
  policies,    \* the argument
  part,        \* which half of the current policy is being listed
  unlisted,    \* its principals not yet listed
  vocabulary,  \* principals: the vocabulary, in order of first use
  allow, deny  \* [indptr, indices] of each list

tableVars == <<policies, part, unlisted, vocabulary, allow, deny>>

EmptyCsr == [indptr |-> <<0>>, indices |-> <<>>]

rows == Len(allow.indptr) - 1

BuildInit ==
  /\ policies \in PolicyLists
  /\ part = "grants"
  /\ unlisted = IF policies = <<>> THEN {} ELSE policies[1].grants
  /\ vocabulary = <<>>
  /\ allow = EmptyCsr
  /\ deny = EmptyCsr

(* idx: the number of p, new or old. *)
Numbers(v, p) == {i \in DOMAIN v : v[i] = p}
Learned(v, p) == IF Numbers(v, p) = {} THEN Append(v, p) ELSE v

List(csr, i) == [csr EXCEPT !.indices = Append(@, i)]

(* Mutant of Close: the row ends one entry early. *)
Close_Early(csr) ==
  [csr EXCEPT !.indptr = Append(@, IF csr.indices = <<>> THEN 0 ELSE Len(csr.indices) - 1)]

Close(csr) == [csr EXCEPT !.indptr = Append(@, Len(csr.indices))]

(* A principal of the current half is appended to its list. *)
ListPrincipal(p) ==
  /\ p \in unlisted
  /\ unlisted' = unlisted \ {p}
  /\ vocabulary' = Learned(vocabulary, p)
  /\ \E i \in Numbers(vocabulary', p) :
        \/ part = "grants" /\ allow' = List(allow, i) /\ UNCHANGED deny
        \/ part = "denies" /\ deny' = List(deny, i) /\ UNCHANGED allow
  /\ UNCHANGED <<policies, part>>

CloseGrants ==
  /\ part = "grants"
  /\ unlisted = {}
  /\ rows < Len(policies)
  /\ allow' = Close(allow)
  /\ part' = "denies"
  /\ unlisted' = policies[rows + 1].denies
  /\ UNCHANGED <<policies, vocabulary, deny>>

CloseDenies ==
  /\ part = "denies"
  /\ unlisted = {}
  /\ deny' = Close(deny)
  /\ part' = "grants"
  /\ unlisted' = IF rows < Len(policies) THEN policies[rows + 1].grants ELSE {}
  /\ UNCHANGED <<policies, vocabulary, allow>>

BuildNext == (\E p \in Principals : ListPrincipal(p)) \/ CloseGrants \/ CloseDenies

BuildSpec == BuildInit /\ [][BuildNext]_tableVars

Built == part = "grants" /\ rows = Len(policies)

-----------------------------------------------------------------------------
(* The entries of row r: positions in indices. *)
Segment(csr, r) == (csr.indptr[r] + 1)..csr.indptr[r + 1]

Listed(csr, r) == {vocabulary[csr.indices[j]] : j \in Segment(csr, r)}

policy_at(r) == [grants |-> Listed(allow, r), denies |-> Listed(deny, r)]

RowsWithAnyHit(csr, wanted) ==
  {r \in 1..rows : \E j \in Segment(csr, r) : csr.indices[j] \in wanted}

Wanted(S) == {i \in DOMAIN vocabulary : vocabulary[i] \in S}

(* Mutant of permitted_rows: a grant wins over a deny. *)
permitted_rows_GrantWins(S) == RowsWithAnyHit(allow, Wanted(S))

(* With an empty set, no row or no known principal it returns early. *)
permitted_rows(S) ==
  IF S = {} \/ rows = 0 \/ Wanted(S) = {} THEN {}
  ELSE RowsWithAnyHit(allow, Wanted(S)) \ RowsWithAnyHit(deny, Wanted(S))

-----------------------------------------------------------------------------
Cut(csr) == csr.indptr[Len(csr.indptr)]
OpenRow(csr) == {vocabulary[csr.indices[j]] : j \in (Cut(csr) + 1)..Len(csr.indices)}

TableTypeOK ==
  /\ policies \in PolicyLists
  /\ part \in {"grants", "denies"}
  /\ unlisted \subseteq Principals
  /\ vocabulary \in Seq(Principals)
  /\ \A csr \in {allow, deny} :
        /\ csr \in [indptr : Seq(Nat), indices : Seq(DOMAIN vocabulary)]
        /\ csr.indptr # <<>>
        /\ \A r \in DOMAIN csr.indptr : csr.indptr[r] <= Len(csr.indices)

(* What the two lists stand for: the policies of the rows closed so far    *)
(* and, with what is still unlisted, the one being listed.                 *)
Halves ==
  /\ rows \in 0..Len(policies)
  /\ part = "grants" =>
       /\ Len(deny.indptr) = Len(allow.indptr)
       /\ Cut(deny) = Len(deny.indices)
       /\ OpenRow(allow) \cup unlisted =
            IF rows < Len(policies) THEN policies[rows + 1].grants ELSE {}
  /\ part = "denies" =>
       /\ Len(deny.indptr) + 1 = Len(allow.indptr)
       /\ Cut(allow) = Len(allow.indices)
       /\ OpenRow(deny) \cup unlisted = policies[rows].denies

ClosedRows ==
  /\ \A r \in 1..rows : Listed(allow, r) = policies[r].grants
  /\ \A r \in 1..(Len(deny.indptr) - 1) : Listed(deny, r) = policies[r].denies

(* The loop invariant of build, on which the two properties below rest.    *)
TableInvariant == TableTypeOK /\ Halves /\ ClosedRows

(* The rows that a search may scan are exactly those whose policy admits   *)
(* the caller: the vocabulary, the offsets and the mask lose no deny and   *)
(* invent no grant, whatever the caller's set ("the exact set of index     *)
(* rows whose policy admits it", filtered_search.py:3-6).                  *)
PermittedRowsAdmit ==
  Built => \A S \in PermissionSets :
             permitted_rows(S) = {r \in DOMAIN policies : admits(policies[r], S)}

(* policy_at gives back the policy that build was given: each flush        *)
(* rebuilds the table from policies(), so a loss would compound.           *)
PoliciesRoundTrip == Built => \A r \in DOMAIN policies : policy_at(r) = policies[r]
=============================================================================
