-------------------------- MODULE CachingAclResolver --------------------------
(***************************************************************************)
(* CachingAclResolver (perimeter/adapters/caching_acl_resolver.py) called  *)
(* by several threads.  The server runs its endpoints on a thread pool and *)
(* shares one resolver that has no lock, so a thread may be preempted      *)
(* between any two operations on the dictionary.  Each step below is one   *)
(* such operation, or the upstream call.  With one thread the module is    *)
(* the serial cache the tests exercise.                                    *)
(*                                                                         *)
(* The OrderedDict is split into its content (entries) and its order, a    *)
(* relation on the keys present.  The counters of CacheStats are left out: *)
(* nothing reads them to decide anything.  restrict, which no endpoint     *)
(* calls, and the list comprehensions of the invalidations run as one      *)
(* step; in which order a hook deletes the keys it listed is left open.    *)
(***************************************************************************)
EXTENDS AclDirectory

CONSTANTS
  Threads,     \* the threads that call the resolver
  MaxEntries,  \* max_entries
  Hooks        \* the invalidation hooks in use

ASSUME CacheAssumption ==
  /\ Keys # {}
  /\ MaxEntries \in Nat
  /\ Hooks \subseteq {"invalidate", "invalidate_group", "invalidate_all", "restrict"}

VARIABLES
  entries,  \* the content of the OrderedDict
  order,    \* its order: <<j, k>> when j comes before k
  pc,       \* where each thread is
  key,      \* the principal each thread resolves
  at,       \* the clock it read when the call began
  kept,     \* the entry object it looked up, once that left the dictionary
  todo,     \* the keys an invalidation has listed and not yet deleted
  perms,    \* the permissions fetched or returned
  unsig,    \* history: membership changes no hook has been told of
  covers,   \* history: the ones the hook a thread runs is told of
  clean     \* history: no change since the call began, none unsignalled then

cacheVars  == <<entries, order>>
localVars  == <<pc, key, at, kept, todo, perms>>
signalVars == <<unsig, covers, clean>>
vars == <<dirVars, cacheVars, localVars, signalVars>>

Absent == [present |-> FALSE]
Entry(S, time) == [present |-> TRUE, permissions |-> S, fetched_at |-> time]

InDict == [present |-> FALSE, held |-> FALSE]  \* the object is still the dictionary's

Max_entries == IF MaxEntries = 0 THEN 1 ELSE MaxEntries

Present == {k \in Keys : entries[k].present}

NoChanges == [u \in Users |-> {}]

NoKey == CHOOSE k \in Keys : TRUE  \* what key holds between calls

Init ==
  /\ DirInit
  /\ entries = [k \in Keys |-> Absent]
  /\ order = {}
  /\ pc = [t \in Threads |-> "idle"]
  /\ key = [t \in Threads |-> NoKey]
  /\ at = [t \in Threads |-> 0]
  /\ kept = [t \in Threads |-> InDict]
  /\ todo = [t \in Threads |-> {}]
  /\ perms = [t \in Threads |-> {}]
  /\ unsig = NoChanges
  /\ covers = [t \in Threads |-> NoChanges]
  /\ clean = [t \in Threads |-> FALSE]

Goto(t, label) == pc' = [pc EXCEPT ![t] = label]

(* An entry object a thread holds survives its removal from the dictionary. *)
Detach(K) ==
  kept' = [t \in Threads |->
             IF pc[t] = "touch" /\ key[t] \in K /\ kept[t] = InDict
             THEN entries[key[t]] ELSE kept[t]]

Held(t) == IF kept[t] = InDict THEN entries[key[t]] ELSE kept[t]

Unordered(k) == {e \in order : e[1] # k /\ e[2] # k}

(* del / pop / popitem of k. *)
Delete(k) ==
  /\ entries' = [entries EXCEPT ![k] = Absent]
  /\ order' = Unordered(k)
  /\ Detach({k})

move_to_end(k) == order' = Unordered(k) \cup ((Present \ {k}) \X {k})

(* The key popitem(last=False) takes. *)
Oldest(k) == k \in Present /\ \A j \in Present : <<j, k>> \notin order

-----------------------------------------------------------------------------
(* resolve *)

Resolve(t, k) ==
  /\ pc[t] = "idle"
  /\ Goto(t, "lookup")
  /\ key' = [key EXCEPT ![t] = k]
  /\ at' = [at EXCEPT ![t] = now]
  /\ clean' = [clean EXCEPT ![t] = unsig[k.id] = {}]
  /\ UNCHANGED <<dirVars, cacheVars, kept, todo, perms, unsig, covers>>

(* Mutants of Fresh: an entry of exactly the TTL's age still counts; the   *)
(* age is never looked at.                                                 *)
Fresh_AtTTL(t) ==
  LET e == entries[key[t]]
  IN  TTL > 0 /\ e.present /\ at[t] - e.fetched_at <= TTL

Fresh_Always(t) ==
  LET e == entries[key[t]]
  IN  TTL > 0 /\ e.present

Fresh(t) ==
  LET e == entries[key[t]]
  IN  TTL > 0 /\ e.present /\ at[t] - e.fetched_at < TTL

Lookup(t) ==
  /\ pc[t] = "lookup"
  /\ Goto(t, IF Fresh(t) THEN "touch" ELSE "upstream")
  /\ UNCHANGED <<dirVars, cacheVars, key, at, kept, todo, perms, signalVars>>

(* A hit: move_to_end raises KeyError when the key has gone meanwhile. *)
TouchHit(t) ==
  /\ pc[t] = "touch"
  /\ key[t] \in Present
  /\ move_to_end(key[t])
  /\ perms' = [perms EXCEPT ![t] = Held(t).permissions]
  /\ kept' = [kept EXCEPT ![t] = InDict]
  /\ Goto(t, "answered")
  /\ UNCHANGED <<dirVars, entries, key, at, todo, signalVars>>

TouchGone(t) ==
  /\ pc[t] = "touch"
  /\ key[t] \notin Present
  /\ kept' = [kept EXCEPT ![t] = InDict]
  /\ Goto(t, "raised")
  /\ UNCHANGED <<dirVars, cacheVars, key, at, todo, perms, signalVars>>

(* A miss: the upstream answers from the directory as it is now. *)
Upstream(t) ==
  /\ pc[t] = "upstream"
  /\ ~down
  /\ perms' = [perms EXCEPT ![t] = Truth(key[t])]
  /\ Goto(t, IF TTL > 0 THEN "store" ELSE "answered")
  /\ UNCHANGED <<dirVars, cacheVars, key, at, kept, todo, signalVars>>

(* AclResolutionError: the expired entry is discarded, nobody is returned. *)
UpstreamFails(t) ==
  /\ pc[t] = "upstream"
  /\ down
  /\ Goto(t, "drop")
  /\ UNCHANGED <<dirVars, cacheVars, key, at, kept, todo, perms, signalVars>>

Drop(t) ==
  /\ pc[t] = "drop"
  /\ Delete(key[t])
  /\ perms' = [perms EXCEPT ![t] = {}]
  /\ Goto(t, "answered")
  /\ UNCHANGED <<dirVars, key, at, todo, signalVars>>

(* Mutant of Store: fetched_at is read after the upstream call, not before. *)
Store_StampsLate(t) ==
  /\ pc[t] = "store"
  /\ Detach({key[t]})
  /\ entries' = [entries EXCEPT ![key[t]] = Entry(perms[t], now)]
  /\ order' = IF key[t] \in Present THEN order ELSE order \cup (Present \X {key[t]})
  /\ Goto(t, "place")
  /\ UNCHANGED <<dirVars, key, at, todo, perms, signalVars>>

Store(t) ==
  /\ pc[t] = "store"
  /\ Detach({key[t]})
  /\ entries' = [entries EXCEPT ![key[t]] = Entry(perms[t], at[t])]
  /\ order' = IF key[t] \in Present THEN order ELSE order \cup (Present \X {key[t]})
  /\ Goto(t, "place")
  /\ UNCHANGED <<dirVars, key, at, todo, perms, signalVars>>

Place(t) ==
  /\ pc[t] = "place"
  /\ IF key[t] \in Present
     THEN move_to_end(key[t]) /\ Goto(t, "trim")
     ELSE UNCHANGED order /\ Goto(t, "raised")
  /\ UNCHANGED <<dirVars, entries, key, at, kept, todo, perms, signalVars>>

(* `while len > max`.  The length is read in one step and the pop is        *)
(* another: two threads may both find one entry too many and pop two.      *)

(* Mutant of Trim: `> max + 1`, one entry too many is kept. *)
Trim_OffByOne(t) ==
  /\ pc[t] = "trim"
  /\ Goto(t, IF Cardinality(Present) > Max_entries + 1 THEN "pop" ELSE "answered")
  /\ UNCHANGED <<dirVars, cacheVars, key, at, kept, todo, perms, signalVars>>

Trim(t) ==
  /\ pc[t] = "trim"
  /\ Goto(t, IF Cardinality(Present) > Max_entries THEN "pop" ELSE "answered")
  /\ UNCHANGED <<dirVars, cacheVars, key, at, kept, todo, perms, signalVars>>

(* Mutant of Pop: the loop does not pop.  *)
Pop_KeepsAll(t) ==
  /\ pc[t] = "pop"
  /\ Goto(t, "trim")
  /\ UNCHANGED <<dirVars, cacheVars, key, at, kept, todo, perms, signalVars>>

(* popitem(last=False) *)
Pop(t) ==
  /\ pc[t] = "pop"
  /\ \E k \in Keys : Oldest(k) /\ Delete(k)
  /\ Goto(t, "trim")
  /\ UNCHANGED <<dirVars, key, at, todo, perms, signalVars>>

(* popitem raises KeyError when the others have emptied the dictionary. *)
PopEmpty(t) ==
  /\ pc[t] = "pop"
  /\ Present = {}
  /\ Goto(t, "raised")
  /\ UNCHANGED <<dirVars, cacheVars, key, at, kept, todo, perms, signalVars>>

(* The call is over: its locals are gone. *)
Return(t) ==
  /\ pc[t] \in {"answered", "raised", "hook_raised"}
  /\ Goto(t, "idle")
  /\ perms' = [perms EXCEPT ![t] = {}]
  /\ todo' = [todo EXCEPT ![t] = {}]
  /\ key' = [key EXCEPT ![t] = NoKey]
  /\ at' = [at EXCEPT ![t] = 0]
  /\ clean' = [clean EXCEPT ![t] = FALSE]
  /\ covers' = [covers EXCEPT ![t] = NoChanges]
  /\ UNCHANGED <<dirVars, cacheVars, kept, unsig>>

-----------------------------------------------------------------------------
(* The invalidation hooks.  Each first lists the keys to evict, then       *)
(* deletes them one by one; `del` raises KeyError when another thread has  *)
(* deleted the key.  covers is what the caller of the hook tells it about. *)

ListKeys(t, hook, K, changes) ==
  /\ pc[t] = "idle"
  /\ hook \in Hooks
  /\ Goto(t, "evict")
  /\ todo' = [todo EXCEPT ![t] = K \cap Present]
  /\ covers' = [covers EXCEPT ![t] = changes]
  /\ UNCHANGED <<dirVars, cacheVars, key, at, kept, perms, unsig, clean>>

invalidate(t, u) ==
  ListKeys(t, "invalidate", {k \in Keys : k.id = u},
           [NoChanges EXCEPT ![u] = unsig[u]])

(* invalidate_group is told of users who left g.  Of one who joined it, it *)
(* cannot find the entry: neither lists g.                                 *)
Departures(g) == [u \in Users |-> IF g \in dir[u] THEN {} ELSE unsig[u] \cap {g}]

(* Mutant of invalidate_group: only forwarded memberships are looked at.   *)
invalidate_group_Forwarded(t, g) ==
  ListKeys(t, "invalidate_group", {k \in Present : g \in k.groups}, Departures(g))

invalidate_group(t, g) ==
  ListKeys(t, "invalidate_group",
           {k \in Present : g \in entries[k].permissions \/ g \in k.groups},
           Departures(g))

(* Mutant of EvictNext: the key stays on the list.                         *)
EvictNext_KeepsListed(t, k) ==
  /\ pc[t] = "evict"
  /\ k \in todo[t] \cap Present
  /\ Delete(k)
  /\ UNCHANGED <<dirVars, pc, key, at, todo, perms, signalVars>>

EvictNext(t, k) ==
  /\ pc[t] = "evict"
  /\ k \in todo[t] \cap Present
  /\ Delete(k)
  /\ todo' = [todo EXCEPT ![t] = @ \ {k}]
  /\ UNCHANGED <<dirVars, pc, key, at, perms, signalVars>>

EvictGone(t) ==
  /\ pc[t] = "evict"
  /\ ~(todo[t] \subseteq Present)
  /\ Goto(t, "hook_raised")
  /\ UNCHANGED <<dirVars, cacheVars, key, at, kept, todo, perms, signalVars>>

Signalled(changes) == unsig' = [u \in Users |-> unsig[u] \ changes[u]]

EvictDone(t) ==
  /\ pc[t] = "evict"
  /\ todo[t] = {}
  /\ Goto(t, "idle")
  /\ Signalled(covers[t])
  /\ covers' = [covers EXCEPT ![t] = NoChanges]
  /\ UNCHANGED <<dirVars, cacheVars, key, at, kept, todo, perms, clean>>

invalidate_all(t) ==
  /\ pc[t] = "idle"
  /\ "invalidate_all" \in Hooks
  /\ Detach(Keys)
  /\ entries' = [k \in Keys |-> Absent]
  /\ order' = {}
  /\ unsig' = NoChanges
  /\ UNCHANGED <<dirVars, pc, key, at, todo, perms, covers, clean>>

(* restrict is told of u leaving g; it shrinks the entries in place. *)
restrict(t, u, g) ==
  /\ pc[t] = "idle"
  /\ "restrict" \in Hooks
  /\ g \notin dir[u]
  /\ entries' = [k \in Keys |->
                   IF k.id = u /\ k \in Present
                   THEN [entries[k] EXCEPT !.permissions = without(@, {g})]
                   ELSE entries[k]]
  /\ unsig' = [unsig EXCEPT ![u] = @ \ {g}]
  /\ UNCHANGED <<dirVars, order, pc, key, at, kept, todo, perms, covers, clean>>

-----------------------------------------------------------------------------
(* The environment. *)

ChangeMembership(u, g) ==
  /\ Change(u, g)
  /\ unsig' = [unsig EXCEPT ![u] = @ \cup {g}]
  /\ covers' = [t \in Threads |-> [covers[t] EXCEPT ![u] = @ \ {g}]]
  /\ clean' = [t \in Threads |-> clean[t] /\ key[t].id # u]
  /\ UNCHANGED <<cacheVars, localVars>>

OutageOrTick ==
  /\ Outage \/ Tick
  /\ UNCHANGED <<cacheVars, localVars, signalVars>>

ResolveStep(t) ==
  \/ Lookup(t) \/ TouchHit(t) \/ TouchGone(t)
  \/ Upstream(t) \/ UpstreamFails(t) \/ Drop(t)
  \/ Store(t) \/ Place(t) \/ Trim(t) \/ Pop(t) \/ PopEmpty(t)
  \/ Return(t)

EvictStep(t) == (\E k \in Keys : EvictNext(t, k)) \/ EvictGone(t) \/ EvictDone(t)

Hook(t) ==
  \/ \E u \in Users : invalidate(t, u)
  \/ \E g \in Groups : invalidate_group(t, g)
  \/ invalidate_all(t)
  \/ \E u \in Users, g \in Groups : restrict(t, u, g)

Next ==
  \/ \E t \in Threads :
        \/ \E k \in Keys : Resolve(t, k)
        \/ ResolveStep(t)
        \/ EvictStep(t)
        \/ Hook(t)
  \/ \E u \in Users, g \in Groups : ChangeMembership(u, g)
  \/ OutageOrTick

Spec == Init /\ [][Next]_vars

(* A started call keeps running: the interpreter schedules every runnable  *)
(* thread, and the upstream call answers or fails.                         *)
FairSpec == Spec /\ \A t \in Threads : WF_vars(ResolveStep(t) \/ EvictStep(t))

-----------------------------------------------------------------------------
EntryObject ==
  [present : {TRUE}, permissions : SUBSET Principals, fetched_at : Nat]

TypeOK ==
  /\ DirTypeOK
  /\ entries \in [Keys -> EntryObject \cup {Absent}]
  /\ order \subseteq Keys \X Keys
  /\ pc \in [Threads -> {"idle", "lookup", "touch", "upstream", "drop", "store",
                         "place", "trim", "pop", "answered", "raised", "evict",
                         "hook_raised"}]
  /\ key \in [Threads -> Keys]
  /\ at \in [Threads -> Nat]
  /\ kept \in [Threads -> EntryObject \cup {Absent, InDict}]
  /\ todo \in [Threads -> SUBSET Keys]
  /\ perms \in [Threads -> SUBSET Principals]
  /\ unsig \in [Users -> SUBSET Groups]
  /\ covers \in [Threads -> [Users -> SUBSET Groups]]
  /\ clean \in [Threads -> BOOLEAN]

(* max_entries is exceeded by at most one entry per thread that is between *)
(* its insertion and the end of its trim loop, whatever the interleaving.  *)
Filling == {t \in Threads : pc[t] \in {"place", "trim", "pop"}}
SizeBounded == Cardinality(Present) <= Max_entries + Cardinality(Filling)

(* The TTL bound of INV-5, for silent changes and any interleaving:        *)
(* everything a call returns was true of the caller less than one TTL      *)
(* before the call began, or later.                                        *)
Recent(k, p, since) ==
  LastTrue(k, p) >= since \/ LastTrue(k, p) + TTL > since

ServedWithinTTL ==
  \A t \in Threads : pc[t] = "answered" =>
     \A p \in perms[t] : Recent(key[t], p, at[t])

(* Why it holds, as an invariant that follows a permission set from the    *)
(* upstream call to the answer.                                            *)
Genuine(e, k) == \A p \in e.permissions : LastTrue(k, p) >= e.fetched_at

(* No loss lies in the future. *)
PastOnly == \A k \in Keys, p \in Principals : lost[k][p] <= now

(* What an entry lists was true at or after its fetched_at. *)
EntriesGenuine ==
  \A k \in Keys : entries[k].present => Genuine(entries[k], k)

(* A hit holds an entry object until it returns, the dictionary's or the   *)
(* one it kept when the key was deleted; the object was young enough when  *)
(* the call began and lists nothing that was not true at its fetched_at.   *)
HitGenuine(t) ==
  /\ pc[t] # "touch" => kept[t] = InDict
  /\ pc[t] = "touch" => /\ Held(t) \in EntryObject
                        /\ at[t] - Held(t).fetched_at < TTL
                        /\ Genuine(Held(t), key[t])

(* What a thread fetched was true since its call began. *)
FetchedGenuine(t) ==
  pc[t] \in {"store", "place", "trim", "pop"} =>
     \A p \in perms[t] : LastTrue(key[t], p) >= at[t]

AnswerGenuine(t) ==
  pc[t] = "answered" => \A p \in perms[t] : Recent(key[t], p, at[t])

ThreadGenuine(t) ==
  at[t] <= now /\ HitGenuine(t) /\ FetchedGenuine(t) /\ AnswerGenuine(t)

TTLInvariant ==
  TypeOK /\ PastOnly /\ EntriesGenuine /\ \A t \in Threads : ThreadGenuine(t)

(* INV-5 under signalled changes: when every membership change of the      *)
(* caller had been signalled before the call began, and none happens       *)
(* during it, the call returns nothing the caller no longer is.            *)
ServedWithinTruth ==
  \A t \in Threads : pc[t] = "answered" /\ clean[t] => perms[t] \subseteq Truth(key[t])

(* ADR-004 on denies: under the same condition a served set does not lack  *)
(* a membership either, for a missing one can hide a matching deny.  Only  *)
(* an upstream failure answers less, and it answers nothing.  So a         *)
(* signalled revocation is immediate (ServedWithinTruth), and so is a      *)
(* signalled join.                                                         *)
ServedExactly ==
  \A t \in Threads : pc[t] = "answered" /\ clean[t] => perms[t] \in {{}, Truth(key[t])}

(* A call that raises has lost its entry to another thread: the serial     *)
(* cache never raises out of resolve or a hook.                            *)
NeverRaises == \A t \in Threads : pc[t] \notin {"raised", "hook_raised"}

(* Every started call ends. *)
CallsEnd == \A t \in Threads : pc[t] # "idle" ~> pc[t] = "idle"

-----------------------------------------------------------------------------
(* The cache implements the service a caller may rely on.  A thread in a   *)
(* hook is idle as far as resolve goes.                                    *)
Resolving(t) ==
  pc[t] \in {"lookup", "touch", "upstream", "drop", "store", "place", "trim", "pop"}

callOf(t) ==
  IF Resolving(t) THEN [state |-> "pending", key |-> key[t], since |-> at[t]]
  ELSE IF pc[t] = "answered"
  THEN [state |-> "answered", key |-> key[t], since |-> at[t], permissions |-> perms[t]]
  ELSE IF pc[t] = "raised" THEN [state |-> "raised"]
  ELSE [state |-> "idle"]

Service == INSTANCE AclService WITH call <- [t \in Threads |-> callOf(t)]
ImplementsService == Service!Spec
=============================================================================
