----------------------------- MODULE AclDirectory -----------------------------
(***************************************************************************)
(* The directory behind the AclResolver port (perimeter/core/ports.py),    *)
(* with the clock.  Both are outside the program: this is what the cache   *)
(* may meet.  Memberships change one at a time and silently, the directory *)
(* may be down (resolve then raises AclResolutionError), time passes.      *)
(*                                                                         *)
(* A resolver answers with the closure of the memberships it knows for the *)
(* id together with the ones the front door forwarded.  StaticAclResolver  *)
(* is the case where it knows none; the directories of the tests are the   *)
(* case where none are forwarded.                                          *)
(***************************************************************************)
EXTENDS Acl, Integers

CONSTANTS
  Keys,      \* the Principals that call: [id, groups], also the cache keys
  Nesting,   \* the nested-group graph
  TTL,       \* ttl_seconds, in ticks
  MaxTime    \* bound: the clock stops here

ASSUME DirectoryAssumption ==
  /\ Keys \subseteq [id : Users, groups : SUBSET Groups]
  /\ Nesting \in GroupGraph
  /\ TTL \in Nat
  /\ MaxTime \in Nat

VARIABLES
  dir,   \* dir[u]: the groups the directory lists u in
  down,  \* whether the directory is unreachable
  now,   \* the monotonic clock
  lost   \* history: when each key last stopped being each principal

dirVars == <<dir, down, now, lost>>

(* What the resolver answers for key k when the directory is d. *)
TruthIn(d, k) == Effective(k.id, k.groups \cup d[k.id], Nesting)
Truth(k) == TruthIn(dir, k)

(* A loss so old that no entry can still carry it. *)
LongAgo == -(TTL + 1)

(* The last moment at which k was p. *)
LastTrue(k, p) == IF p \in Truth(k) THEN now ELSE lost[k][p]

DirInit ==
  /\ dir \in [Users -> SUBSET Groups]
  /\ down = FALSE
  /\ now = 0
  /\ lost = [k \in Keys |-> [p \in Principals |-> LongAgo]]

SetMemberships(u, S) ==
  /\ dir' = [dir EXCEPT ![u] = S]
  /\ lost' = [k \in Keys |-> [p \in Principals |->
                IF p \in Truth(k) /\ p \notin TruthIn(dir', k)
                THEN now ELSE lost[k][p]]]
  /\ UNCHANGED <<down, now>>

(* One membership of u changes: u joins g or leaves it. *)
Change(u, g) ==
  SetMemberships(u, IF g \in dir[u] THEN dir[u] \ {g} ELSE dir[u] \cup {g})

Outage == down' = ~down /\ UNCHANGED <<dir, now, lost>>

Tick ==
  /\ now < MaxTime
  /\ now' = now + 1
  /\ UNCHANGED <<dir, down, lost>>

DirTypeOK ==
  /\ dir \in [Users -> SUBSET Groups]
  /\ down \in BOOLEAN
  /\ now \in Nat
  /\ lost \in [Keys -> [Principals -> Int]]
=============================================================================
