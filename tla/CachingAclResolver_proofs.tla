----------------------- MODULE CachingAclResolver_proofs -----------------------
(***************************************************************************)
(* Three arguments about the cache, for any threads, keys, groups, limits   *)
(* and TTL, with memberships changing between any two steps.               *)
(*                                                                         *)
(* The TTL bound of INV-5.  ServedWithinTTL speaks of answers only.  The   *)
(* invariant that carries it follows a permission set from the upstream    *)
(* call to the answer: what a thread fetched was true since its call       *)
(* began, what an entry holds was true at or after its fetched_at, and the *)
(* entry object of a hit keeps both its age and its contents while the     *)
(* dictionary changes under it.                                            *)
(*                                                                         *)
(* The size: entries in excess are paid for by threads in the trim loop    *)
(* and by keys a thread has just set.  The serial cache: with one call at  *)
(* a time nothing leaves the dictionary under a call that is to meet it,   *)
(* and an entry differs from the directory by changes no hook has been     *)
(* told of only.                                                           *)
(***************************************************************************)
EXTENDS CachingAclResolver, FiniteSetTheorems, TLAPS

(* A resolver never answers with something that is not a principal. *)
LEMMA TruthPrincipals ==
  ASSUME NEW d \in [Users -> SUBSET Groups], NEW k \in Keys
  PROVE  TruthIn(d, k) \in SUBSET Principals
  BY DirectoryAssumption DEF TruthIn, Effective, Closure, Principals

LEMMA DirectoryTypes ==
  ASSUME DirTypeOK,
         \/ \E u \in Users, g \in Groups : Change(u, g)
         \/ Outage \/ Tick \/ UNCHANGED dirVars
  PROVE  DirTypeOK'
<1>1. ASSUME NEW u \in Users, NEW g \in Groups, Change(u, g)
      PROVE  DirTypeOK'
  <2>1. PICK S \in SUBSET Groups : SetMemberships(u, S)
    BY <1>1 DEF Change, DirTypeOK
  <2>2. dir' \in [Users -> SUBSET Groups]
    BY <2>1 DEF SetMemberships, DirTypeOK
  <2>3. lost' \in [Keys -> [Principals -> Int]]
    BY <2>1 DEF SetMemberships, DirTypeOK
  <2>4. QED
    BY <2>1, <2>2, <2>3 DEF SetMemberships, DirTypeOK
<1>2. CASE Outage
  BY <1>2 DEF Outage, DirTypeOK
<1>3. CASE Tick
  BY <1>3 DEF Tick, DirTypeOK
<1>4. CASE UNCHANGED dirVars
  BY <1>4 DEF dirVars, DirTypeOK
<1>5. QED
  BY <1>1, <1>2, <1>3, <1>4

-----------------------------------------------------------------------------
LEMMA TypeStep ==
  TypeOK /\ (\A t \in Threads : HitGenuine(t)) /\ [Next]_vars => TypeOK'
<1> SUFFICES ASSUME TypeOK, \A t \in Threads : HitGenuine(t), [Next]_vars
             PROVE  TypeOK'
  OBVIOUS
<1> USE DirectoryAssumption, CacheAssumption
<1>0. DirTypeOK /\ dir \in [Users -> SUBSET Groups]
  BY DEF TypeOK, DirTypeOK
<1>1. ASSUME UNCHANGED dirVars PROVE DirTypeOK'
  BY <1>0, <1>1, DirectoryTypes
<1>2. ASSUME NEW K, Detach(K)
      PROVE  kept' \in [Threads -> EntryObject \cup {Absent, InDict}]
  BY <1>2 DEF Detach, TypeOK
<1>3. ASSUME NEW k \in Keys, Delete(k)
      PROVE  /\ entries' \in [Keys -> EntryObject \cup {Absent}]
             /\ order' \subseteq Keys \X Keys
             /\ kept' \in [Threads -> EntryObject \cup {Absent, InDict}]
  BY <1>2, <1>3 DEF Delete, Unordered, TypeOK
<1>4. ASSUME NEW k \in Keys
      PROVE  /\ Unordered(k) \cup ((Present \ {k}) \X {k}) \subseteq Keys \X Keys
             /\ order \cup (Present \X {k}) \subseteq Keys \X Keys
  BY DEF Unordered, Present, TypeOK
<1>5. ASSUME NEW t \in Threads, NEW k \in Keys, Resolve(t, k)
      PROVE  TypeOK'
  <2>1. (unsig[k.id] = {}) \in BOOLEAN
    OBVIOUS
  <2>2. clean' \in [Threads -> BOOLEAN]
    BY <1>5, <2>1, Zenon DEF Resolve, TypeOK
  <2>3. /\ UNCHANGED <<dirVars, cacheVars, kept, todo, perms, unsig, covers>>
        /\ Goto(t, "lookup")
        /\ key' = [key EXCEPT ![t] = k]
        /\ at' = [at EXCEPT ![t] = now]
    BY <1>5, Zenon DEF Resolve
  <2>4. now \in Nat
    BY <1>0 DEF DirTypeOK
  <2>5. QED
    BY <1>1, <2>2, <2>3, <2>4 DEF cacheVars, Goto, TypeOK
<1>6. ASSUME NEW t \in Threads, Lookup(t)
      PROVE  TypeOK'
  BY <1>1, <1>6 DEF Lookup, cacheVars, signalVars, Goto, TypeOK
<1>7. ASSUME NEW t \in Threads, TouchHit(t)
      PROVE  TypeOK'
  <2>1. Held(t).permissions \in SUBSET Principals
    BY <1>7 DEF TouchHit, HitGenuine, EntryObject
  <2>2. perms' \in [Threads -> SUBSET Principals]
    BY <1>7, <2>1 DEF TouchHit, TypeOK
  <2>3. order' \subseteq Keys \X Keys
    BY <1>4, <1>7 DEF TouchHit, move_to_end, TypeOK
  <2>4. QED
    BY <1>1, <1>7, <2>2, <2>3 DEF TouchHit, signalVars, Goto, TypeOK
<1>8. ASSUME NEW t \in Threads, TouchGone(t)
      PROVE  TypeOK'
  BY <1>1, <1>8 DEF TouchGone, cacheVars, signalVars, Goto, TypeOK
<1>9. ASSUME NEW t \in Threads, Upstream(t)
      PROVE  TypeOK'
  BY <1>1, <1>0, TruthPrincipals, <1>9 DEF Upstream, Truth, cacheVars, signalVars, Goto, TypeOK
<1>10. ASSUME NEW t \in Threads, UpstreamFails(t)
      PROVE  TypeOK'
  BY <1>1, <1>10 DEF UpstreamFails, cacheVars, signalVars, Goto, TypeOK
<1>11. ASSUME NEW t \in Threads, Drop(t)
      PROVE  TypeOK'
  BY <1>1, <1>3, <1>11 DEF Drop, signalVars, Goto, TypeOK
<1>12. ASSUME NEW t \in Threads, Store(t)
      PROVE  TypeOK'
  BY <1>1, <1>2, <1>4, <1>12 DEF Store, Entry, EntryObject, signalVars, Goto, TypeOK
<1>13. ASSUME NEW t \in Threads, Place(t)
      PROVE  TypeOK'
  <2>1. order' \subseteq Keys \X Keys
    BY <1>4, <1>13 DEF Place, move_to_end, TypeOK
  <2>2. pc' \in [Threads -> {"idle", "lookup", "touch", "upstream", "drop", "store",
                           "place", "trim", "pop", "answered", "raised", "evict",
                           "hook_raised"}]
    BY <1>13 DEF Place, Goto, TypeOK
  <2>3. QED
    BY <1>1, <1>13, <2>1, <2>2 DEF Place, signalVars, TypeOK
<1>14. ASSUME NEW t \in Threads, Trim(t) \/ PopEmpty(t)
      PROVE  TypeOK'
  BY <1>1, <1>14 DEF Trim, PopEmpty, cacheVars, signalVars, Goto, TypeOK
<1>15. ASSUME NEW t \in Threads, Pop(t)
      PROVE  TypeOK'
  BY <1>1, <1>3, <1>15 DEF Pop, signalVars, Goto, TypeOK
<1>16. ASSUME NEW t \in Threads, Return(t)
      PROVE  TypeOK'
  BY <1>1, <1>16 DEF Return, NoKey, NoChanges, cacheVars, Goto, TypeOK
<1>17. ASSUME NEW t \in Threads, NEW u \in Users, invalidate(t, u)
      PROVE  TypeOK'
  BY <1>1, <1>17 DEF invalidate, ListKeys, NoChanges, cacheVars, Goto, TypeOK
<1>18. ASSUME NEW t \in Threads, NEW g \in Groups, invalidate_group(t, g)
      PROVE  TypeOK'
  <2>1. Departures(g) \in [Users -> SUBSET Groups]
    BY DEF Departures, TypeOK
  <2>2. covers' \in [Threads -> [Users -> SUBSET Groups]]
    BY <2>1, <1>18 DEF invalidate_group, ListKeys, TypeOK
  <2>3. todo' \in [Threads -> SUBSET Keys]
    BY <1>18 DEF invalidate_group, ListKeys, Present, TypeOK
  <2>4. QED
    BY <1>1, <1>18, <2>2, <2>3 DEF invalidate_group, ListKeys, cacheVars, Goto, TypeOK
<1>19. ASSUME NEW t \in Threads, NEW k \in Keys, EvictNext(t, k)
      PROVE  TypeOK'
  BY <1>1, <1>3, <1>19 DEF EvictNext, signalVars, Goto, TypeOK
<1>20. ASSUME NEW t \in Threads, EvictGone(t)
      PROVE  TypeOK'
  BY <1>1, <1>20 DEF EvictGone, cacheVars, signalVars, Goto, TypeOK
<1>21. ASSUME NEW t \in Threads, EvictDone(t)
      PROVE  TypeOK'
  BY <1>1, <1>21 DEF EvictDone, Signalled, NoChanges, cacheVars, Goto, TypeOK
<1>22. ASSUME NEW t \in Threads, invalidate_all(t)
      PROVE  TypeOK'
  <2>1. kept' \in [Threads -> EntryObject \cup {Absent, InDict}]
    BY <1>2, <1>22 DEF invalidate_all
  <2>2. entries' \in [Keys -> EntryObject \cup {Absent}] /\ order' \subseteq Keys \X Keys
    BY <1>22 DEF invalidate_all
  <2>3. unsig' \in [Users -> SUBSET Groups]
    BY <1>22 DEF invalidate_all, NoChanges
  <2>4. QED
    BY <1>1, <1>22, <2>1, <2>2, <2>3 DEF invalidate_all, TypeOK
<1>23. ASSUME NEW t \in Threads, NEW u \in Users, NEW g \in Groups, restrict(t, u, g)
      PROVE  TypeOK'
  <2>1. ASSUME NEW k \in Keys, entries[k] \in EntryObject
        PROVE  [entries[k] EXCEPT !.permissions = without(@, {g})] \in EntryObject
    BY <2>1 DEF EntryObject, without
  <2>2. \A k \in Present : entries[k] \in EntryObject
    BY DEF Present, Absent, TypeOK
  <2>3. entries' \in [Keys -> EntryObject \cup {Absent}]
    BY <1>23, <2>1, <2>2 DEF restrict, TypeOK
  <2>4. unsig' \in [Users -> SUBSET Groups]
    BY <1>23 DEF restrict, TypeOK
  <2>5. QED
    BY <1>1, <1>23, <2>3, <2>4 DEF restrict, TypeOK
<1>24. ASSUME NEW u \in Users, NEW g \in Groups, ChangeMembership(u, g)
      PROVE  TypeOK'
  <2>1. DirTypeOK'
    BY <1>0, <1>24, DirectoryTypes DEF ChangeMembership
  <2>2. QED
    BY <2>1, <1>24 DEF ChangeMembership, TypeOK, cacheVars, localVars
<1>25. CASE OutageOrTick
  <2>1. DirTypeOK'
    BY <1>0, <1>25, DirectoryTypes DEF OutageOrTick
  <2>2. QED
    BY <2>1, <1>25 DEF OutageOrTick, TypeOK, cacheVars, localVars, signalVars
<1>26. CASE UNCHANGED vars
  BY <1>1, <1>26 DEF vars, cacheVars, localVars, signalVars, TypeOK
<1>27. QED
  BY <1>5, <1>6, <1>7, <1>8, <1>9, <1>10, <1>11, <1>12, <1>13, <1>14, <1>15, <1>16, <1>17, <1>18, <1>19, <1>20, <1>21, <1>22, <1>23, <1>24, <1>25, <1>26
  DEF Next, ResolveStep, EvictStep, Hook

-----------------------------------------------------------------------------
LEMMA InitInv == Init => TTLInvariant
<1> SUFFICES ASSUME Init PROVE TTLInvariant
  OBVIOUS
<1> USE DirectoryAssumption, CacheAssumption
<1>1. DirTypeOK
  <2>1. LongAgo \in Int
    BY DEF LongAgo
  <2>2. lost \in [Keys -> [Principals -> Int]]
    BY <2>1 DEF Init, DirInit
  <2>3. QED
    BY <2>2 DEF Init, DirInit, DirTypeOK
<1>2. NoKey \in Keys
  BY DEF NoKey
<1>3. TypeOK
  BY <1>1, <1>2 DEF Init, TypeOK, NoChanges
<1>4. \A t \in Threads : ThreadGenuine(t)
  BY DEF Init, DirInit, ThreadGenuine, HitGenuine, FetchedGenuine, AnswerGenuine
<1>5. EntriesGenuine
  BY DEF Init, EntriesGenuine, Absent
<1>6. PastOnly
  BY DEF Init, DirInit, PastOnly, LongAgo
<1>7. QED
  BY <1>3, <1>4, <1>5, <1>6 DEF TTLInvariant

(* Time and membership changes only ever move LastTrue forward. *)
LEMMA LastTrueForward ==
  ASSUME TypeOK, PastOnly,
         \/ \E u \in Users, g \in Groups : Change(u, g)
         \/ Outage \/ Tick
  PROVE  /\ PastOnly'
         /\ now' >= now
         /\ \A k \in Keys, p \in Principals :
               /\ LastTrue(k, p) \in Int /\ LastTrue(k, p)' \in Int
               /\ LastTrue(k, p)' >= LastTrue(k, p)
<1> USE DEF TypeOK, DirTypeOK
<1>1. CASE Outage
  BY <1>1 DEF Outage, PastOnly, LastTrue, Truth
<1>2. CASE Tick
  <2>1. now' = now + 1 /\ UNCHANGED <<dir, lost>>
    BY <1>2 DEF Tick
  <2>2. QED
    BY <2>1 DEF PastOnly, LastTrue, Truth
<1>3. ASSUME NEW u \in Users, NEW g \in Groups, Change(u, g)
      PROVE  /\ PastOnly'
             /\ now' >= now
             /\ \A k \in Keys, p \in Principals :
                   /\ LastTrue(k, p) \in Int /\ LastTrue(k, p)' \in Int
                   /\ LastTrue(k, p)' >= LastTrue(k, p)
  <2>1. PICK S : SetMemberships(u, S)
    BY <1>3 DEF Change
  <2>2. \A k \in Keys, p \in Principals :
           lost'[k][p] = IF p \in Truth(k) /\ p \notin TruthIn(dir', k) THEN now ELSE lost[k][p]
    BY <2>1 DEF SetMemberships
  <2>3. now' = now
    BY <2>1 DEF SetMemberships
  <2>4. PastOnly'
    <3>1. ASSUME NEW k \in Keys, NEW p \in Principals
          PROVE  lost'[k][p] <= now
      <4>1. now \in Nat /\ lost[k][p] <= now /\ now <= now
        BY DEF PastOnly
      <4>2. lost'[k][p] = now \/ lost'[k][p] = lost[k][p]
        BY <2>2
      <4>3. QED
        BY <4>1, <4>2
    <3>2. QED
      BY <2>3, <3>1 DEF PastOnly
  <2>5. ASSUME NEW k \in Keys, NEW p \in Principals
        PROVE  /\ LastTrue(k, p) \in Int /\ LastTrue(k, p)' \in Int
               /\ LastTrue(k, p)' >= LastTrue(k, p)
    <3>1. Truth(k)' = TruthIn(dir', k)
      BY DEF Truth
    <3>2. LastTrue(k, p)' = IF p \in TruthIn(dir', k) THEN now ELSE lost'[k][p]
      BY <3>1, <2>3 DEF LastTrue
    <3>3. lost[k][p] \in Int /\ lost[k][p] <= now /\ now \in Nat
      BY DEF PastOnly
    <3>4. lost'[k][p] = IF p \in Truth(k) /\ p \notin TruthIn(dir', k) THEN now ELSE lost[k][p]
      BY <2>2
    <3>5. QED
      BY <3>2, <3>3, <3>4 DEF LastTrue
  <2>6. QED
    BY <2>3, <2>4, <2>5
<1>4. QED
  BY <1>1, <1>2, <1>3

(* Removing entries, or replacing the one at a key of K, leaves the object *)
(* of a hit as it was.                                                     *)
LEMMA DetachKeepsHeld ==
  ASSUME TypeOK, NEW K, Detach(K),
         \A k \in Keys \ K : entries'[k] = entries[k],
         NEW s \in Threads, HitGenuine(s), pc[s] = "touch", key'[s] = key[s]
  PROVE  Held(s)' = Held(s)
<1>1. key[s] \in Keys
  BY DEF TypeOK
<1>2. CASE kept[s] # InDict
  <2>1. kept'[s] = kept[s]
    BY <1>2 DEF Detach
  <2>2. QED
    BY <1>2, <2>1 DEF Held, InDict
<1>3. CASE kept[s] = InDict /\ key[s] \in K
  <2>1. kept'[s] = entries[key[s]]
    BY <1>3 DEF Detach
  <2>2. entries[key[s]] \in EntryObject
    BY <1>3 DEF HitGenuine, Held
  <2>3. kept'[s] # InDict
    <3>1. kept'[s].present = TRUE
      BY <2>1, <2>2 DEF EntryObject
    <3>2. InDict.present = FALSE
      BY DEF InDict
    <3>3. QED
      BY <3>1, <3>2
  <2>4. QED
    BY <1>3, <2>1, <2>3 DEF Held, InDict
<1>4. CASE kept[s] = InDict /\ key[s] \notin K
  <2>1. kept'[s] = InDict /\ entries'[key[s]] = entries[key[s]]
    BY <1>1, <1>4 DEF Detach
  <2>2. QED
    BY <1>4, <2>1 DEF Held, InDict
<1>5. QED
  BY <1>2, <1>3, <1>4

(* A step of one thread on the dictionary leaves what another holds or has *)
(* fetched as genuine as it was.                                           *)
LEMMA OthersGenuine ==
  ASSUME TTLInvariant, UNCHANGED dirVars, NEW s \in Threads,
         pc'[s] = pc[s], key'[s] = key[s], at'[s] = at[s], perms'[s] = perms[s],
         pc[s] = "touch" => Held(s)' = Held(s),
         pc[s] # "touch" => kept'[s] = kept[s]
  PROVE  ThreadGenuine(s)'
<1>1. \A k, p : LastTrue(k, p)' = LastTrue(k, p)
  BY DEF dirVars, LastTrue, Truth
<1>2. now' = now
  BY DEF dirVars
<1>3. ThreadGenuine(s)
  BY DEF TTLInvariant
<1>4. HitGenuine(s)'
  BY <1>1, <1>3 DEF ThreadGenuine, HitGenuine, Genuine
<1>5. FetchedGenuine(s)' /\ AnswerGenuine(s)'
  BY <1>1, <1>3 DEF ThreadGenuine, FetchedGenuine, AnswerGenuine, Recent
<1>6. QED
  BY <1>2, <1>3, <1>4, <1>5 DEF ThreadGenuine

(* Likewise when keys are deleted. *)
LEMMA OthersGenuineDetach ==
  ASSUME TTLInvariant, UNCHANGED dirVars, NEW s \in Threads,
         pc'[s] = pc[s], key'[s] = key[s], at'[s] = at[s], perms'[s] = perms[s],
         NEW K, Detach(K), \A k \in Keys \ K : entries'[k] = entries[k]
  PROVE  ThreadGenuine(s)'
<1>1. TypeOK /\ HitGenuine(s)
  BY DEF TTLInvariant, ThreadGenuine
<1>2. pc[s] = "touch" => Held(s)' = Held(s)
  BY <1>1, DetachKeepsHeld
<1>3. pc[s] # "touch" => kept'[s] = kept[s]
  BY DEF Detach
<1>4. QED
  BY <1>2, <1>3, OthersGenuine

-----------------------------------------------------------------------------
LEMMA TTLStep == TTLInvariant /\ [Next]_vars => TTLInvariant'
<1> SUFFICES ASSUME TTLInvariant, [Next]_vars PROVE TTLInvariant'
  OBVIOUS
<1> DEFINE Goal == EntriesGenuine' /\ \A s \in Threads : ThreadGenuine(s)'
<1> USE DirectoryAssumption, CacheAssumption
<1>1. TypeOK /\ PastOnly /\ EntriesGenuine /\ \A s \in Threads : ThreadGenuine(s)
  BY DEF TTLInvariant
<1>2. TypeOK'
  BY <1>1, TypeStep DEF ThreadGenuine
<1>3. DirTypeOK /\ now \in Nat
  BY <1>1 DEF TypeOK, DirTypeOK
<1>4. ASSUME UNCHANGED dirVars
      PROVE  /\ \A k, p : LastTrue(k, p)' = LastTrue(k, p)
             /\ now' = now
  BY <1>4 DEF dirVars, LastTrue, Truth
<1>5. ASSUME UNCHANGED dirVars, UNCHANGED entries
      PROVE  EntriesGenuine'
  BY <1>1, <1>4, <1>5 DEF EntriesGenuine, Genuine
<1>6. ASSUME UNCHANGED dirVars, NEW k \in Keys, Delete(k)
      PROVE  /\ EntriesGenuine' /\ Detach({k})
             /\ \A j \in Keys \ {k} : entries'[j] = entries[j]
  <2>1. entries' = [entries EXCEPT ![k] = Absent] /\ Detach({k})
    BY <1>6 DEF Delete
  <2>2. \A j \in Keys \ {k} : entries'[j] = entries[j]
    BY <2>1
  <2>3. ~entries'[k].present
    BY <1>1, <2>1 DEF TypeOK, Absent
  <2>4. EntriesGenuine'
    BY <1>1, <1>4, <1>6, <2>2, <2>3 DEF EntriesGenuine, Genuine
  <2>5. QED
    BY <2>1, <2>2, <2>4
(* A thread moves: its own state is shown genuine, the others are unmoved. *)
<1>7. ASSUME UNCHANGED dirVars, UNCHANGED entries, NEW t \in Threads,
             \A s \in Threads \ {t} : /\ pc'[s] = pc[s] /\ key'[s] = key[s]
                                     /\ at'[s] = at[s] /\ perms'[s] = perms[s]
                                     /\ kept'[s] = kept[s],
             ThreadGenuine(t)'
      PROVE  Goal
  <2>1. ASSUME NEW s \in Threads \ {t} PROVE ThreadGenuine(s)'
    <3>1. pc[s] = "touch" => Held(s)' = Held(s)
      BY <1>7 DEF Held
    <3>2. QED
      BY <1>7, <3>1, OthersGenuine
  <2>2. QED
    BY <1>5, <1>7, <2>1
<1>8. ASSUME NEW t \in Threads, NEW k \in Keys, Resolve(t, k)
      PROVE  Goal
  <2>1. /\ pc' = [pc EXCEPT ![t] = "lookup"] /\ key' = [key EXCEPT ![t] = k]
        /\ at' = [at EXCEPT ![t] = now]
        /\ UNCHANGED <<dirVars, entries, kept, perms>>
    BY <1>8, Zenon DEF Resolve, Goto, cacheVars
  <2>2. pc[t] = "idle"
    BY <1>8, Zenon DEF Resolve
  <2>3. ThreadGenuine(t)'
    BY <1>1, <1>3, <1>4, <2>1, <2>2
    DEF TypeOK, ThreadGenuine, HitGenuine, FetchedGenuine, AnswerGenuine
  <2>4. QED
    BY <1>1, <1>7, <2>1, <2>3 DEF TypeOK
<1>9. ASSUME NEW t \in Threads, Lookup(t)
      PROVE  Goal
  <2>1. /\ pc' = [pc EXCEPT ![t] = IF Fresh(t) THEN "touch" ELSE "upstream"]
        /\ UNCHANGED <<dirVars, entries, key, at, kept, perms>>
    BY <1>9 DEF Lookup, Goto, cacheVars, signalVars
  <2>2. pc[t] = "lookup" /\ kept[t] = InDict
    BY <1>1, <1>9 DEF Lookup, ThreadGenuine, HitGenuine
  <2>4. ThreadGenuine(t)'
    <3>1. CASE Fresh(t)
      <4>1. /\ pc'[t] = "touch" /\ Held(t)' = entries[key[t]] /\ key[t] \in Keys
            /\ key'[t] = key[t] /\ at'[t] = at[t]
        BY <1>1, <2>1, <2>2, <3>1 DEF TypeOK, Held
      <4>2. entries[key[t]].present /\ at[t] - entries[key[t]].fetched_at < TTL
        BY <3>1 DEF Fresh
      <4>3. entries[key[t]] \in EntryObject
        BY <1>1, <4>1, <4>2 DEF TypeOK, Absent
      <4>4. Genuine(entries[key[t]], key[t])
        BY <1>1, <4>1, <4>2 DEF EntriesGenuine
      <4>5. Genuine(Held(t), key[t])'
        BY <1>4, <2>1, <4>1, <4>4 DEF Genuine
      <4>6. QED
        BY <1>1, <1>4, <2>1, <4>1, <4>2, <4>3, <4>5
        DEF ThreadGenuine, HitGenuine, FetchedGenuine, AnswerGenuine
    <3>2. CASE ~Fresh(t)
      BY <1>1, <1>4, <2>1, <2>2, <3>2
      DEF TypeOK, ThreadGenuine, HitGenuine, FetchedGenuine, AnswerGenuine
    <3>3. QED
      BY <3>1, <3>2
  <2>5. QED
    BY <1>1, <1>7, <2>1, <2>4 DEF TypeOK
<1>10. ASSUME NEW t \in Threads, TouchHit(t)
      PROVE  Goal
  <2>1. /\ pc' = [pc EXCEPT ![t] = "answered"]
        /\ perms' = [perms EXCEPT ![t] = Held(t).permissions]
        /\ kept' = [kept EXCEPT ![t] = InDict]
        /\ UNCHANGED <<dirVars, entries, key, at>>
    BY <1>10 DEF TouchHit, Goto, cacheVars, signalVars
  <2>2. pc[t] = "touch"
    BY <1>10 DEF TouchHit
  <2>4. ThreadGenuine(t)'
    <3>1. HitGenuine(t)
      BY <1>1 DEF ThreadGenuine
    <3>2. ASSUME NEW p \in Held(t).permissions
          PROVE  Recent(key[t], p, at[t])
      <4>1. LastTrue(key[t], p) >= Held(t).fetched_at /\ at[t] - Held(t).fetched_at < TTL
        BY <2>2, <3>1 DEF HitGenuine, Genuine
      <4>2. Held(t).fetched_at \in Nat /\ at[t] \in Nat /\ key[t] \in Keys /\ p \in Principals
        BY <1>1, <2>2, <3>1 DEF HitGenuine, EntryObject, TypeOK
      <4>3. LastTrue(key[t], p) \in Int
        BY <1>3, <4>2 DEF LastTrue, DirTypeOK
      <4>4. QED
        BY <4>1, <4>2, <4>3 DEF Recent
    <3>3. AnswerGenuine(t)'
      BY <1>1, <1>4, <2>1, <3>2 DEF TypeOK, AnswerGenuine, Recent
    <3>4. QED
      BY <1>1, <1>4, <2>1, <3>3 DEF TypeOK, ThreadGenuine, HitGenuine, FetchedGenuine
  <2>5. QED
    BY <1>1, <1>7, <2>1, <2>4 DEF TypeOK
<1>11. ASSUME NEW t \in Threads, TouchGone(t)
      PROVE  Goal
  <2>1. /\ pc' = [pc EXCEPT ![t] = "raised"]
        /\ kept' = [kept EXCEPT ![t] = InDict]
        /\ UNCHANGED <<dirVars, entries, key, at, perms>>
    BY <1>11 DEF TouchGone, Goto, cacheVars, signalVars
  <2>2. pc[t] = "touch"
    BY <1>11 DEF TouchGone
  <2>4. ThreadGenuine(t)'
    BY <1>1, <1>4, <2>1, <2>2
    DEF TypeOK, ThreadGenuine, HitGenuine, FetchedGenuine, AnswerGenuine
  <2>5. QED
    BY <1>1, <1>7, <2>1, <2>4 DEF TypeOK
<1>12. ASSUME NEW t \in Threads, Upstream(t)
      PROVE  Goal
  <2>1. /\ pc' = [pc EXCEPT ![t] = IF TTL > 0 THEN "store" ELSE "answered"]
        /\ perms' = [perms EXCEPT ![t] = Truth(key[t])]
        /\ UNCHANGED <<dirVars, entries, key, at, kept>>
    BY <1>12 DEF Upstream, Goto, cacheVars, signalVars
  <2>2. pc[t] = "upstream"
    BY <1>12 DEF Upstream
  <2>4. ThreadGenuine(t)'
    <3>1. \A p \in Truth(key[t]) : LastTrue(key[t], p) = now
      BY DEF LastTrue
    <3>2. at[t] <= now /\ kept[t] = InDict
      BY <1>1, <2>2 DEF ThreadGenuine, HitGenuine
    <3>3. \A p \in perms'[t] : LastTrue(key[t], p)' >= at[t]
      BY <1>1, <1>4, <2>1, <3>1, <3>2 DEF TypeOK
    <3>4. key'[t] = key[t] /\ at'[t] = at[t] /\ kept'[t] = InDict
      BY <2>1, <3>2
    <3>5. pc'[t] \in {"store", "answered"}
      BY <1>1, <2>1 DEF TypeOK
    <3>6. FetchedGenuine(t)' /\ AnswerGenuine(t)'
      BY <3>3, <3>4 DEF FetchedGenuine, AnswerGenuine, Recent
    <3>7. QED
      BY <1>4, <2>1, <3>2, <3>4, <3>5, <3>6 DEF ThreadGenuine, HitGenuine
  <2>5. QED
    BY <1>1, <1>7, <2>1, <2>4 DEF TypeOK
<1>13. ASSUME NEW t \in Threads, UpstreamFails(t)
      PROVE  Goal
  <2>1. /\ pc' = [pc EXCEPT ![t] = "drop"]
        /\ UNCHANGED <<dirVars, entries, key, at, kept, perms>>
    BY <1>13 DEF UpstreamFails, Goto, cacheVars, signalVars
  <2>2. pc[t] = "upstream"
    BY <1>13 DEF UpstreamFails
  <2>4. ThreadGenuine(t)'
    BY <1>1, <1>4, <2>1, <2>2
    DEF TypeOK, ThreadGenuine, HitGenuine, FetchedGenuine, AnswerGenuine
  <2>5. QED
    BY <1>1, <1>7, <2>1, <2>4 DEF TypeOK
<1>14. ASSUME NEW t \in Threads, Drop(t)
      PROVE  Goal
  <2>1. /\ pc' = [pc EXCEPT ![t] = "answered"]
        /\ perms' = [perms EXCEPT ![t] = {}]
        /\ UNCHANGED <<dirVars, key, at>>
        /\ pc[t] = "drop" /\ key[t] \in Keys
    BY <1>1, <1>14 DEF Drop, Goto, TypeOK
  <2>2. /\ EntriesGenuine' /\ Detach({key[t]})
        /\ \A j \in Keys \ {key[t]} : entries'[j] = entries[j]
    BY <1>6, <1>14, <2>1 DEF Drop
  <2>3. kept'[t] = InDict
    BY <1>1, <2>1, <2>2 DEF Detach, ThreadGenuine, HitGenuine
  <2>4. ThreadGenuine(t)'
    BY <1>1, <1>4, <2>1, <2>3
    DEF TypeOK, ThreadGenuine, HitGenuine, FetchedGenuine, AnswerGenuine
  <2>5. ASSUME NEW s \in Threads \ {t} PROVE ThreadGenuine(s)'
    BY <1>1, <2>1, <2>2, OthersGenuineDetach DEF TypeOK
  <2>6. QED
    BY <2>2, <2>4, <2>5
<1>15. ASSUME NEW t \in Threads, Store(t)
      PROVE  Goal
  <2>1. /\ pc' = [pc EXCEPT ![t] = "place"]
        /\ entries' = [entries EXCEPT ![key[t]] = Entry(perms[t], at[t])]
        /\ Detach({key[t]})
        /\ UNCHANGED <<dirVars, key, at, perms>>
        /\ pc[t] = "store" /\ key[t] \in Keys
    BY <1>1, <1>15 DEF Store, Goto, TypeOK, signalVars
  <2>2. \A j \in Keys \ {key[t]} : entries'[j] = entries[j]
    BY <2>1
  <2>3. entries'[key[t]] = Entry(perms[t], at[t])
    BY <1>1, <2>1 DEF TypeOK
  <2>4. Genuine(Entry(perms[t], at[t]), key[t])
    BY <1>1, <2>1 DEF ThreadGenuine, FetchedGenuine, Genuine, Entry
  <2>5. EntriesGenuine'
    BY <1>1, <1>4, <2>1, <2>2, <2>3, <2>4 DEF EntriesGenuine, Genuine
  <2>6. kept'[t] = InDict
    BY <1>1, <2>1 DEF Detach, ThreadGenuine, HitGenuine
  <2>7. ThreadGenuine(t)'
    BY <1>1, <1>4, <2>1, <2>6
    DEF TypeOK, ThreadGenuine, HitGenuine, FetchedGenuine, AnswerGenuine
  <2>8. ASSUME NEW s \in Threads \ {t} PROVE ThreadGenuine(s)'
    BY <1>1, <2>1, <2>2, OthersGenuineDetach DEF TypeOK
  <2>9. QED
    BY <2>5, <2>7, <2>8
<1>16. ASSUME NEW t \in Threads, Place(t)
      PROVE  Goal
  <2>1. /\ pc[t] = "place"
        /\ pc' = [pc EXCEPT ![t] = "trim"] \/ pc' = [pc EXCEPT ![t] = "raised"]
        /\ UNCHANGED <<dirVars, entries, key, at, kept, perms>>
    BY <1>16 DEF Place, Goto
  <2>2. ThreadGenuine(t)'
    BY <1>1, <1>4, <2>1
    DEF TypeOK, ThreadGenuine, HitGenuine, FetchedGenuine, AnswerGenuine
  <2>3. QED
    BY <1>1, <1>7, <2>1, <2>2 DEF TypeOK
<1>17. ASSUME NEW t \in Threads, Pop(t)
      PROVE  Goal
  <2>1. /\ pc' = [pc EXCEPT ![t] = "trim"]
        /\ UNCHANGED <<dirVars, key, at, perms>>
        /\ pc[t] = "pop"
    BY <1>17 DEF Pop, Goto
  <2>2. PICK k \in Keys : Delete(k)
    BY <1>17 DEF Pop
  <2>3. /\ EntriesGenuine' /\ Detach({k})
        /\ \A j \in Keys \ {k} : entries'[j] = entries[j]
    BY <1>6, <2>1, <2>2
  <2>4. kept'[t] = InDict
    BY <1>1, <2>1, <2>3 DEF Detach, ThreadGenuine, HitGenuine
  <2>5. ThreadGenuine(t)'
    BY <1>1, <1>4, <2>1, <2>4
    DEF TypeOK, ThreadGenuine, HitGenuine, FetchedGenuine, AnswerGenuine
  <2>6. ASSUME NEW s \in Threads \ {t} PROVE ThreadGenuine(s)'
    BY <1>1, <2>1, <2>3, OthersGenuineDetach DEF TypeOK
  <2>7. QED
    BY <2>3, <2>5, <2>6
<1>18. ASSUME NEW t \in Threads, Trim(t) \/ PopEmpty(t)
      PROVE  Goal
  <2>1. PICK l \in {"pop", "answered", "raised"} :
          /\ pc[t] \in {"trim", "pop"}
          /\ pc' = [pc EXCEPT ![t] = l]
          /\ UNCHANGED <<dirVars, entries, key, at, kept, perms>>
    BY <1>18 DEF Trim, PopEmpty, Goto, cacheVars
  <2>2. ThreadGenuine(t)'
    BY <1>1, <1>4, <2>1
    DEF TypeOK, ThreadGenuine, HitGenuine, FetchedGenuine, AnswerGenuine, Recent
  <2>3. QED
    BY <1>1, <1>7, <2>1, <2>2 DEF TypeOK
<1>19. ASSUME NEW t \in Threads, Return(t)
      PROVE  Goal
  <2>1. /\ pc' = [pc EXCEPT ![t] = "idle"]
        /\ perms' = [perms EXCEPT ![t] = {}]
        /\ key' = [key EXCEPT ![t] = NoKey]
        /\ at' = [at EXCEPT ![t] = 0]
        /\ UNCHANGED <<dirVars, entries, kept>>
        /\ pc[t] \in {"answered", "raised", "hook_raised"}
    BY <1>19 DEF Return, Goto, cacheVars
  <2>2. ThreadGenuine(t)'
    BY <1>1, <1>3, <1>4, <2>1
    DEF TypeOK, ThreadGenuine, HitGenuine, FetchedGenuine, AnswerGenuine
  <2>3. QED
    BY <1>1, <1>7, <2>1, <2>2 DEF TypeOK
<1>20. ASSUME NEW t \in Threads, NEW u \in Users, invalidate(t, u)
      PROVE  Goal
  <2>1. /\ pc[t] = "idle"
        /\ pc' = [pc EXCEPT ![t] = "evict"]
        /\ UNCHANGED <<dirVars, entries, key, at, kept, perms>>
    BY <1>20 DEF invalidate, ListKeys, Goto, cacheVars
  <2>2. ThreadGenuine(t)'
    BY <1>1, <1>4, <2>1
    DEF TypeOK, ThreadGenuine, HitGenuine, FetchedGenuine, AnswerGenuine
  <2>3. QED
    BY <1>1, <1>7, <2>1, <2>2 DEF TypeOK
<1>21. ASSUME NEW t \in Threads, NEW g \in Groups, invalidate_group(t, g)
      PROVE  Goal
  <2>1. /\ pc[t] = "idle"
        /\ pc' = [pc EXCEPT ![t] = "evict"]
        /\ UNCHANGED <<dirVars, entries, key, at, kept, perms>>
    BY <1>21 DEF invalidate_group, ListKeys, Goto, cacheVars
  <2>2. ThreadGenuine(t)'
    BY <1>1, <1>4, <2>1
    DEF TypeOK, ThreadGenuine, HitGenuine, FetchedGenuine, AnswerGenuine
  <2>3. QED
    BY <1>1, <1>7, <2>1, <2>2 DEF TypeOK
<1>22. ASSUME NEW t \in Threads, NEW k \in Keys, EvictNext(t, k)
      PROVE  Goal
  <2>1. Delete(k)
    BY <1>1, <1>22 DEF EvictNext, TypeOK
  <2>2. UNCHANGED <<dirVars, pc, key, at, perms>>
    BY <1>22 DEF EvictNext, signalVars
  <2>3. /\ EntriesGenuine' /\ Detach({k})
        /\ \A j \in Keys \ {k} : entries'[j] = entries[j]
    BY <1>6, <2>1, <2>2
  <2>4. ASSUME NEW s \in Threads PROVE ThreadGenuine(s)'
    BY <2>2, <2>3, OthersGenuineDetach
  <2>5. QED
    BY <2>3, <2>4
<1>23. ASSUME NEW t \in Threads, EvictGone(t)
      PROVE  Goal
  <2>1. /\ pc[t] = "evict"
        /\ pc' = [pc EXCEPT ![t] = "hook_raised"]
        /\ UNCHANGED <<dirVars, entries, key, at, kept, perms>>
    BY <1>23 DEF EvictGone, Goto, cacheVars
  <2>2. ThreadGenuine(t)'
    BY <1>1, <1>4, <2>1
    DEF TypeOK, ThreadGenuine, HitGenuine, FetchedGenuine, AnswerGenuine
  <2>3. QED
    BY <1>1, <1>7, <2>1, <2>2 DEF TypeOK
<1>24. ASSUME NEW t \in Threads, EvictDone(t)
      PROVE  Goal
  <2>1. /\ pc[t] = "evict"
        /\ pc' = [pc EXCEPT ![t] = "idle"]
        /\ UNCHANGED <<dirVars, entries, key, at, kept, perms>>
    BY <1>24 DEF EvictDone, Goto, cacheVars
  <2>2. ThreadGenuine(t)'
    BY <1>1, <1>4, <2>1
    DEF TypeOK, ThreadGenuine, HitGenuine, FetchedGenuine, AnswerGenuine
  <2>3. QED
    BY <1>1, <1>7, <2>1, <2>2 DEF TypeOK
<1>25. ASSUME NEW t \in Threads, invalidate_all(t)
      PROVE  Goal
  <2>1. /\ Detach(Keys) /\ entries' = [k \in Keys |-> Absent]
        /\ UNCHANGED <<dirVars, pc, key, at, perms>>
    BY <1>25 DEF invalidate_all
  <2>2. EntriesGenuine'
    BY <2>1 DEF EntriesGenuine, Absent
  <2>3. ASSUME NEW s \in Threads PROVE ThreadGenuine(s)'
    BY <2>1, OthersGenuineDetach
  <2>4. QED
    BY <2>2, <2>3
<1>26. ASSUME NEW t \in Threads, NEW u \in Users, NEW g \in Groups, restrict(t, u, g)
      PROVE  Goal
  <2>1. /\ UNCHANGED <<dirVars, pc, key, at, kept, perms>>
        /\ entries' = [k \in Keys |->
                         IF k.id = u /\ k \in Present
                         THEN [entries[k] EXCEPT !.permissions = without(@, {g})]
                         ELSE entries[k]]
    BY <1>26 DEF restrict
  <2>2. ASSUME NEW k \in Keys, entries[k] \in EntryObject
        PROVE  /\ entries'[k] \in EntryObject
               /\ entries'[k].fetched_at = entries[k].fetched_at
               /\ entries'[k].permissions \subseteq entries[k].permissions
    BY <2>1, <2>2 DEF EntryObject, without
  <2>3. EntriesGenuine'
    <3>1. SUFFICES ASSUME NEW k \in Keys, entries'[k].present
                   PROVE  \A p \in entries'[k].permissions :
                             LastTrue(k, p)' >= entries'[k].fetched_at
      BY DEF EntriesGenuine, Genuine
    <3>2. entries[k] = Absent \/ entries[k] \in EntryObject
      BY <1>1 DEF TypeOK
    <3>3. CASE entries[k] = Absent
      <4>1. ~entries[k].present /\ k \notin Present
        BY <3>3 DEF Absent, Present
      <4>2. entries'[k] = entries[k]
        BY <2>1, <4>1
      <4>3. QED
        BY <3>1, <4>1, <4>2
    <3>4. CASE entries[k] \in EntryObject
      <4>1. entries[k].present
        BY <3>4 DEF EntryObject
      <4>2. \A p \in entries[k].permissions : LastTrue(k, p) >= entries[k].fetched_at
        BY <1>1, <4>1 DEF EntriesGenuine, Genuine
      <4>3. QED
        BY <1>4, <2>1, <2>2, <3>4, <4>2
    <3>5. QED
      BY <3>2, <3>3, <3>4
  <2>4. ASSUME NEW s \in Threads PROVE ThreadGenuine(s)'
    <3>1. HitGenuine(s) /\ key[s] \in Keys
      BY <1>1 DEF ThreadGenuine, TypeOK
    <3>2. ASSUME pc[s] = "touch"
          PROVE  /\ Held(s)' \in EntryObject
                 /\ Held(s)'.fetched_at = Held(s).fetched_at
                 /\ Held(s)'.permissions \subseteq Held(s).permissions
      BY <2>1, <2>2, <3>1, <3>2 DEF HitGenuine, Held
    <3>3. HitGenuine(s)'
      BY <1>4, <2>1, <3>1, <3>2 DEF HitGenuine, Genuine
    <3>4. FetchedGenuine(s)' /\ AnswerGenuine(s)'
      BY <1>1, <1>4, <2>1 DEF ThreadGenuine, FetchedGenuine, AnswerGenuine, Recent
    <3>5. QED
      BY <1>1, <1>4, <2>1, <3>3, <3>4 DEF ThreadGenuine
  <2>5. QED
    BY <2>3, <2>4
(* The environment moves: LastTrue only grows, the cache is as it was.     *)
<1>27. ASSUME UNCHANGED <<cacheVars, localVars>>,
              \/ \E u \in Users, g \in Groups : Change(u, g)
              \/ Outage \/ Tick
      PROVE  Goal /\ PastOnly'
  <2>1. /\ PastOnly' /\ now' >= now
        /\ \A k \in Keys, p \in Principals :
              /\ LastTrue(k, p) \in Int /\ LastTrue(k, p)' \in Int
              /\ LastTrue(k, p)' >= LastTrue(k, p)
    BY <1>1, <1>27, LastTrueForward
  <2>2. UNCHANGED <<entries, pc, key, at, kept, perms>>
    BY <1>27 DEF cacheVars, localVars
  <2>3. now' \in Nat
    BY <1>2 DEF TypeOK, DirTypeOK
  <2>4. ASSUME NEW e \in EntryObject, NEW k \in Keys, Genuine(e, k)
        PROVE  \A p \in e.permissions : LastTrue(k, p)' >= e.fetched_at
    <3>1. e.fetched_at \in Nat /\ e.permissions \subseteq Principals
      BY DEF EntryObject
    <3>2. QED
      BY <2>1, <2>4, <3>1 DEF Genuine
  <2>5. EntriesGenuine'
    <3>1. SUFFICES ASSUME NEW k \in Keys, entries[k].present
                   PROVE  Genuine(entries[k], k)'
      BY <2>2 DEF EntriesGenuine, Genuine
    <3>2. entries[k] \in EntryObject /\ Genuine(entries[k], k)
      BY <1>1, <3>1 DEF TypeOK, Absent, EntriesGenuine
    <3>3. QED
      BY <2>2, <2>4, <3>2 DEF Genuine
  <2>6. ASSUME NEW s \in Threads PROVE ThreadGenuine(s)'
    <3>1. at[s] \in Nat /\ key[s] \in Keys /\ perms[s] \subseteq Principals
      BY <1>1 DEF TypeOK
    <3>2. ThreadGenuine(s)
      BY <1>1
    <3>3. at'[s] <= now'
      BY <1>3, <2>1, <2>2, <2>3, <3>1, <3>2 DEF ThreadGenuine
    <3>4. Held(s)' = Held(s)
      BY <2>2 DEF Held
    <3>5. HitGenuine(s)'
      <4>1. CASE pc[s] = "touch"
        <5>1. Held(s) \in EntryObject /\ Genuine(Held(s), key[s])
          BY <3>2, <4>1 DEF ThreadGenuine, HitGenuine
        <5>2. \A p \in Held(s).permissions : LastTrue(key[s], p)' >= Held(s).fetched_at
          BY <2>2, <2>4, <3>1, <5>1
        <5>3. QED
          BY <2>2, <3>2, <3>4, <4>1, <5>2 DEF ThreadGenuine, HitGenuine, Genuine
      <4>2. CASE pc[s] # "touch"
        BY <2>2, <3>2, <4>2 DEF ThreadGenuine, HitGenuine
      <4>3. QED
        BY <4>1, <4>2
    <3>6. FetchedGenuine(s)'
      <4>1. SUFFICES ASSUME pc[s] \in {"store", "place", "trim", "pop"}, NEW p \in perms[s]
                     PROVE  LastTrue(key[s], p)' >= at[s]
        BY <2>2 DEF FetchedGenuine
      <4>2. LastTrue(key[s], p) >= at[s]
        BY <3>2, <4>1 DEF ThreadGenuine, FetchedGenuine
      <4>3. /\ LastTrue(key[s], p) \in Int /\ LastTrue(key[s], p)' \in Int
            /\ LastTrue(key[s], p)' >= LastTrue(key[s], p)
        BY <2>1, <2>2, <3>1
      <4>4. QED
        BY <3>1, <4>2, <4>3
    <3>7. AnswerGenuine(s)'
      <4>1. SUFFICES ASSUME pc[s] = "answered", NEW p \in perms[s]
                     PROVE  \/ LastTrue(key[s], p)' >= at[s]
                            \/ LastTrue(key[s], p)' + TTL > at[s]
        BY <2>2 DEF AnswerGenuine, Recent
      <4>2. LastTrue(key[s], p) >= at[s] \/ LastTrue(key[s], p) + TTL > at[s]
        BY <3>2, <4>1 DEF ThreadGenuine, AnswerGenuine, Recent
      <4>3. /\ LastTrue(key[s], p) \in Int /\ LastTrue(key[s], p)' \in Int
            /\ LastTrue(key[s], p)' >= LastTrue(key[s], p)
        BY <2>1, <2>2, <3>1
      <4>4. QED
        BY <3>1, <4>2, <4>3
    <3>8. QED
      BY <3>3, <3>5, <3>6, <3>7 DEF ThreadGenuine
  <2>7. QED
    BY <2>1, <2>5, <2>6
<1>28. CASE \E t \in Threads :
             \/ \E k \in Keys : Resolve(t, k)
             \/ ResolveStep(t) \/ EvictStep(t) \/ Hook(t)
  <2>1. Goal
    BY <1>28, <1>8, <1>9, <1>10, <1>11, <1>12, <1>13, <1>14, <1>15, <1>16, <1>17, <1>18, <1>19, <1>20, <1>21, <1>22, <1>23, <1>24, <1>25, <1>26
    DEF ResolveStep, EvictStep, Hook
  <2>2. UNCHANGED dirVars
    BY <1>28 DEF ResolveStep, EvictStep, Hook, Resolve, Lookup, TouchHit, TouchGone,
      Upstream, UpstreamFails, Drop, Store, Place, Trim, Pop, PopEmpty, Return,
      EvictNext, EvictGone, EvictDone, invalidate, invalidate_group, ListKeys,
      invalidate_all, restrict
  <2>3. PastOnly'
    BY <1>1, <2>2 DEF PastOnly, dirVars
  <2>4. QED
    BY <1>2, <2>1, <2>3 DEF TTLInvariant
<1>29. CASE OutageOrTick \/ \E u \in Users, g \in Groups : ChangeMembership(u, g)
  <2>1. /\ UNCHANGED <<cacheVars, localVars>>
        /\ \/ \E u \in Users, g \in Groups : Change(u, g)
           \/ Outage \/ Tick
    BY <1>29 DEF OutageOrTick, ChangeMembership
  <2>2. QED
    BY <1>27, <1>2, <2>1 DEF TTLInvariant
<1>30. CASE UNCHANGED vars
  <2>1. UNCHANGED <<dirVars, entries, pc, key, at, kept, perms>>
    BY <1>30 DEF vars, cacheVars, localVars
  <2>2. \A s \in Threads : ThreadGenuine(s)'
    BY <2>1, OthersGenuine DEF Held
  <2>3. PastOnly' /\ EntriesGenuine'
    BY <1>1, <1>5, <2>1 DEF PastOnly, dirVars
  <2>4. QED
    BY <1>2, <2>2, <2>3 DEF TTLInvariant
<1>31. QED
  BY <1>28, <1>29, <1>30 DEF Next

(* The strengthened invariant holds in every reachable state. *)
THEOREM TTLInvariance == Spec => []TTLInvariant
  BY InitInv, TTLStep, PTL DEF Spec

(* TypeOK: the cache, the threads and the directory keep their types.      *)
THEOREM TypeCorrect == Spec => []TypeOK
<1>1. TTLInvariant => TypeOK
  BY DEF TTLInvariant
<1>2. QED
  BY <1>1, TTLInvariance, PTL

(* ServedWithinTTL: whatever changes silently and however the threads      *)
(* interleave, a call returns only principals its caller was less than one *)
(* TTL before the call began, or later.                                    *)
THEOREM BoundedStaleness == Spec => []ServedWithinTTL
<1>1. TTLInvariant => ServedWithinTTL
  BY DEF TTLInvariant, ThreadGenuine, AnswerGenuine, ServedWithinTTL
<1>2. QED
  BY <1>1, TTLInvariance, PTL

-----------------------------------------------------------------------------
(* A step that leaves the directory and every call as they are. *)
LEMMA ServiceStutters ==
  ASSUME UNCHANGED dirVars, \A t \in Threads : callOf(t)' = callOf(t)
  PROVE  UNCHANGED Service!vars
  BY DEF dirVars, Service!vars

(* A step of one thread that changes what its call looks like. *)
LEMMA ServiceMoves ==
  ASSUME TypeOK, NEW t \in Threads, NEW l, pc' = [pc EXCEPT ![t] = l],
         \A s \in Threads \ {t} :
            key'[s] = key[s] /\ at'[s] = at[s] /\ perms'[s] = perms[s]
  PROVE  [s \in Threads |-> callOf(s)]' =
           [[s \in Threads |-> callOf(s)] EXCEPT ![t] = callOf(t)']
<1>1. \A s \in Threads \ {t} : callOf(s)' = callOf(s)
  BY DEF TypeOK, callOf, Resolving
<1>2. QED
  BY <1>1

LEMMA ServiceStep ==
  TTLInvariant /\ TTLInvariant' /\ [Next]_vars => [Service!Next]_(Service!vars)
<1> SUFFICES ASSUME TTLInvariant, TTLInvariant', [Next]_vars
             PROVE  Service!Next \/ UNCHANGED Service!vars
  OBVIOUS
<1> DEFINE Calls == [s \in Threads |-> callOf(s)]
<1>1. TypeOK /\ TypeOK'
  BY DEF TTLInvariant
<1>2. ASSUME NEW t \in Threads, NEW k \in Keys, Resolve(t, k)
      PROVE  Service!Call(t, k)
  <2>1. /\ pc[t] = "idle" /\ pc' = [pc EXCEPT ![t] = "lookup"]
        /\ key' = [key EXCEPT ![t] = k] /\ at' = [at EXCEPT ![t] = now]
        /\ UNCHANGED <<dirVars, perms>>
    BY <1>2, Zenon DEF Resolve, Goto
  <2>2. callOf(t) = [state |-> "idle"]
    BY <2>1 DEF callOf, Resolving
  <2>3. callOf(t)' = [state |-> "pending", key |-> k, since |-> now]
    BY <1>1, <2>1 DEF TypeOK, callOf, Resolving
  <2>4. Calls' = [Calls EXCEPT ![t] = callOf(t)']
    BY <1>1, <2>1, ServiceMoves DEF TypeOK
  <2>5. QED
    BY <2>1, <2>2, <2>3, <2>4
    DEF Service!Call, Service!Idle, Service!Pending, Service!dirVars, dirVars
(* An answer: what the invariant says of it is what the service allows.    *)
<1>3. ASSUME NEW t \in Threads, Resolving(t), pc' = [pc EXCEPT ![t] = "answered"],
             UNCHANGED <<dirVars, key, at>>,
             \A s \in Threads \ {t} : perms'[s] = perms[s]
      PROVE  Service!Answer(t)
  <2>1. callOf(t) = [state |-> "pending", key |-> key[t], since |-> at[t]]
    BY <1>3 DEF callOf
  <2>2. callOf(t)' = [state |-> "answered", key |-> key[t], since |-> at[t],
                      permissions |-> perms'[t]]
    BY <1>1, <1>3 DEF TypeOK, callOf, Resolving
  <2>3. Calls' = [Calls EXCEPT ![t] = callOf(t)']
    BY <1>1, <1>3, ServiceMoves
  <2>4. perms'[t] \in SUBSET Principals
    BY <1>1 DEF TypeOK
  <2>5. ASSUME NEW p \in perms'[t] PROVE Service!Recent(key[t], p, at[t])
    <3>1. Recent(key[t], p, at[t])'
      BY <1>1, <1>3, <2>5 DEF TTLInvariant, ThreadGenuine, AnswerGenuine, TypeOK
    <3>2. LastTrue(key[t], p)' = LastTrue(key[t], p)
      BY <1>3 DEF LastTrue, Truth, dirVars
    <3>3. LastTrue(key[t], p) >= at[t] \/ LastTrue(key[t], p) + TTL > at[t]
      BY <1>3, <3>1, <3>2 DEF Recent
    <3>4. QED
      BY <3>3
      DEF Service!Recent, Service!LastTrue, Service!Truth, Service!TruthIn,
          Service!Effective, Service!Closure, Service!Closed,
          LastTrue, Truth, TruthIn, Effective, Closure, Closed
  <2>6. perms'[t] \in SUBSET {p \in Principals : Service!Recent(key[t], p, at[t])}
    BY <2>4, <2>5
  <2>7. Calls[t] = callOf(t)
    OBVIOUS
  <2>8. Service!Principals = Principals
    BY DEF Service!Principals, Principals
  <2> HIDE DEF Calls
  <2>9. \E S \in SUBSET {p \in Service!Principals :
                           Service!Recent(Calls[t].key, p, Calls[t].since)} :
           Calls' = [Calls EXCEPT ![t] = Service!Answered(Calls[t].key, Calls[t].since, S)]
    <3>1. Calls[t].key = key[t] /\ Calls[t].since = at[t]
      BY <2>1, <2>7
    <3>2. perms'[t] \in SUBSET {p \in Service!Principals :
                                Service!Recent(Calls[t].key, p, Calls[t].since)}
      BY <2>6, <2>8, <3>1, Zenon
    <3>3. Calls' = [Calls EXCEPT
                      ![t] = Service!Answered(Calls[t].key, Calls[t].since, perms'[t])]
      BY <2>2, <2>3, <3>1 DEF Service!Answered
    <3>4. QED
      BY <3>2, <3>3, Zenon
  <2>10. Calls[t].state = "pending"
    BY <2>1, <2>7
  <2> USE DEF Calls
  <2>11. QED
    BY <1>3, <2>9, <2>10 DEF Service!Answer, Service!dirVars, dirVars
<1>4. ASSUME NEW t \in Threads, Resolving(t), pc' = [pc EXCEPT ![t] = "raised"],
             UNCHANGED <<dirVars, key, at, perms>>
      PROVE  Service!Raise(t)
  <2>1. callOf(t).state = "pending"
    BY <1>4 DEF callOf
  <2>2. callOf(t)' = [state |-> "raised"]
    BY <1>1, <1>4 DEF TypeOK, callOf, Resolving
  <2>3. Calls' = [Calls EXCEPT ![t] = callOf(t)']
    BY <1>1, <1>4, ServiceMoves
  <2>4. QED
    BY <1>4, <2>1, <2>2, <2>3 DEF Service!Raise, Service!Raised, Service!dirVars, dirVars
(* A step inside a call, or inside a hook, is invisible.                   *)
<1>5. ASSUME NEW t \in Threads, NEW l, pc' = [pc EXCEPT ![t] = l],
             UNCHANGED <<dirVars, key, at>>,
             \A s \in Threads \ {t} : perms'[s] = perms[s],
             \/ Resolving(t) /\ Resolving(t)'
             \/ /\ pc[t] \in {"idle", "evict", "hook_raised"}
                /\ l \in {"idle", "evict", "hook_raised"}
      PROVE  UNCHANGED Service!vars
  <2>1. pc'[t] = l /\ key'[t] = key[t] /\ at'[t] = at[t]
    BY <1>1, <1>5 DEF TypeOK
  <2>2. callOf(t)' = callOf(t)
    BY <1>5, <2>1 DEF callOf, Resolving
  <2>3. \A s \in Threads \ {t} : callOf(s)' = callOf(s)
    BY <1>1, <1>5 DEF TypeOK, callOf, Resolving
  <2>4. QED
    BY <1>5, <2>2, <2>3, ServiceStutters
<1>6. ASSUME UNCHANGED <<dirVars, pc, key, at, perms>>
      PROVE  UNCHANGED Service!vars
  BY <1>6, ServiceStutters DEF callOf, Resolving
<1>7. ASSUME NEW t \in Threads, ResolveStep(t)
      PROVE  Service!Answer(t) \/ Service!Raise(t) \/ Service!Return(t)
               \/ UNCHANGED Service!vars
  <2>1. CASE Lookup(t)
    <3>1. PICK l \in {"touch", "upstream"} : pc' = [pc EXCEPT ![t] = l]
      BY <2>1 DEF Lookup, Goto
    <3>2. Resolving(t) /\ Resolving(t)' /\ UNCHANGED <<dirVars, key, at, perms>>
      BY <1>1, <2>1, <3>1 DEF Lookup, Resolving, TypeOK
    <3>3. QED
      BY <1>5, <3>1, <3>2
  <2>2. CASE TouchHit(t)
    BY <1>1, <1>3, <2>2 DEF TouchHit, Goto, Resolving, TypeOK
  <2>3. CASE TouchGone(t)
    BY <1>4, <2>3 DEF TouchGone, Goto, Resolving
  <2>4. CASE Upstream(t)
    <3>1. /\ Resolving(t) /\ UNCHANGED <<dirVars, key, at>>
          /\ \A s \in Threads \ {t} : perms'[s] = perms[s]
      BY <1>1, <2>4 DEF Upstream, Resolving, TypeOK
    <3>2. CASE TTL > 0
      <4>1. pc' = [pc EXCEPT ![t] = "store"]
        BY <2>4, <3>2 DEF Upstream, Goto
      <4>2. Resolving(t)'
        BY <1>1, <4>1 DEF Resolving, TypeOK
      <4>3. QED
        BY <1>5, <3>1, <4>1, <4>2
    <3>3. CASE ~(TTL > 0)
      <4>1. pc' = [pc EXCEPT ![t] = "answered"]
        BY <2>4, <3>3 DEF Upstream, Goto
      <4>2. QED
        BY <1>3, <3>1, <4>1
    <3>4. QED
      BY <3>2, <3>3
  <2>5. CASE UpstreamFails(t)
    <3>1. Resolving(t) /\ Resolving(t)' /\ UNCHANGED <<dirVars, key, at, perms>>
          /\ pc' = [pc EXCEPT ![t] = "drop"]
      BY <1>1, <2>5 DEF UpstreamFails, Goto, Resolving, TypeOK
    <3>2. QED
      BY <1>5, <3>1
  <2>6. CASE Drop(t)
    BY <1>1, <1>3, <2>6 DEF Drop, Goto, Resolving, TypeOK
  <2>7. CASE Store(t)
    <3>1. Resolving(t) /\ Resolving(t)' /\ UNCHANGED <<dirVars, key, at, perms>>
          /\ pc' = [pc EXCEPT ![t] = "place"]
      BY <1>1, <2>7 DEF Store, Goto, Resolving, TypeOK
    <3>2. QED
      BY <1>5, <3>1
  <2>8. CASE Place(t) /\ key[t] \in Present
    <3>1. Resolving(t) /\ Resolving(t)' /\ UNCHANGED <<dirVars, key, at, perms>>
          /\ pc' = [pc EXCEPT ![t] = "trim"]
      BY <1>1, <2>8 DEF Place, Goto, Resolving, TypeOK
    <3>2. QED
      BY <1>5, <3>1
  <2>9. CASE Place(t) /\ key[t] \notin Present
    BY <1>4, <2>9 DEF Place, Goto, Resolving
  <2>10. CASE Trim(t) /\ Cardinality(Present) > Max_entries
    <3>1. Resolving(t) /\ Resolving(t)' /\ UNCHANGED <<dirVars, key, at, perms>>
          /\ pc' = [pc EXCEPT ![t] = "pop"]
      BY <1>1, <2>10 DEF Trim, Goto, Resolving, TypeOK
    <3>2. QED
      BY <1>5, <3>1
  <2>11. CASE Trim(t) /\ ~(Cardinality(Present) > Max_entries)
    BY <1>3, <2>11 DEF Trim, Goto, Resolving
  <2>13. CASE Pop(t)
    <3>1. Resolving(t) /\ Resolving(t)' /\ UNCHANGED <<dirVars, key, at, perms>>
          /\ pc' = [pc EXCEPT ![t] = "trim"]
      BY <1>1, <2>13 DEF Pop, Goto, Resolving, TypeOK
    <3>2. QED
      BY <1>5, <3>1
  <2>14. CASE PopEmpty(t)
    BY <1>4, <2>14 DEF PopEmpty, Goto, Resolving
  <2>12. CASE Return(t)
    <3>1. /\ pc[t] \in {"answered", "raised", "hook_raised"}
          /\ pc' = [pc EXCEPT ![t] = "idle"]
          /\ perms' = [perms EXCEPT ![t] = {}]
          /\ key' = [key EXCEPT ![t] = NoKey]
          /\ at' = [at EXCEPT ![t] = 0]
          /\ UNCHANGED dirVars
      BY <2>12 DEF Return, Goto
    <3>2. callOf(t)' = [state |-> "idle"]
      BY <1>1, <3>1 DEF TypeOK, callOf, Resolving
    <3>3. Calls' = [Calls EXCEPT ![t] = callOf(t)']
      BY <1>1, <3>1, ServiceMoves DEF TypeOK
    <3>4. CASE pc[t] = "hook_raised"
      <4>1. callOf(t)' = callOf(t)
        BY <3>2, <3>4 DEF callOf, Resolving
      <4>2. \A s \in Threads \ {t} : callOf(s)' = callOf(s)
        BY <1>1, <3>1 DEF TypeOK, callOf, Resolving
      <4>3. QED
        BY <3>1, <4>1, <4>2, ServiceStutters
    <3>5. CASE pc[t] # "hook_raised"
      <4>1. callOf(t).state \in {"answered", "raised"}
        BY <3>1, <3>5 DEF callOf, Resolving
      <4>2. QED
        BY <3>1, <3>2, <3>3, <4>1
        DEF Service!Return, Service!Idle, Service!dirVars, dirVars
    <3>6. QED
      BY <3>4, <3>5
  <2>15. QED
    BY <1>7, <2>1, <2>2, <2>3, <2>4, <2>5, <2>6, <2>7, <2>8, <2>9, <2>10, <2>11, <2>12, <2>13, <2>14
    DEF ResolveStep
<1>8. ASSUME NEW t \in Threads, EvictStep(t) \/ Hook(t)
      PROVE  UNCHANGED Service!vars
  <2>1. ASSUME NEW u \in Users, invalidate(t, u)
        PROVE  UNCHANGED Service!vars
    BY <1>5, <2>1 DEF invalidate, ListKeys, Goto
  <2>2. ASSUME NEW g \in Groups, invalidate_group(t, g)
        PROVE  UNCHANGED Service!vars
    BY <1>5, <2>2 DEF invalidate_group, ListKeys, Goto
  <2>3. ASSUME NEW k \in Keys, EvictNext(t, k)
        PROVE  UNCHANGED Service!vars
    BY <1>6, <2>3 DEF EvictNext
  <2>4. CASE EvictGone(t)
    BY <1>5, <2>4 DEF EvictGone, Goto
  <2>5. CASE EvictDone(t)
    BY <1>5, <2>5 DEF EvictDone, Goto
  <2>6. CASE invalidate_all(t)
    BY <1>6, <2>6 DEF invalidate_all
  <2>7. ASSUME NEW u \in Users, NEW g \in Groups, restrict(t, u, g)
        PROVE  UNCHANGED Service!vars
    BY <1>6, <2>7 DEF restrict
  <2>8. QED
    BY <1>8, <2>1, <2>2, <2>3, <2>4, <2>5, <2>6, <2>7 DEF EvictStep, Hook
<1>9. ASSUME UNCHANGED localVars,
             \/ \E u \in Users, g \in Groups : Change(u, g)
             \/ Outage \/ Tick
      PROVE  Service!Directory
  <2>1. UNCHANGED Calls
    BY <1>9 DEF localVars, callOf, Resolving
  <2>2. QED
    BY <1>9, <2>1
    DEF Service!Directory, Change, Outage, Tick, SetMemberships, Truth, TruthIn,
        Effective, Closure, Closed, Principals,
        Service!Change, Service!Outage, Service!Tick, Service!SetMemberships,
        Service!Truth, Service!TruthIn, Service!Effective, Service!Closure,
        Service!Closed, Service!Principals
<1>10. CASE UNCHANGED vars
  BY <1>6, <1>10 DEF vars, localVars
<1>11. QED
  BY <1>2, <1>7, <1>8, <1>9, <1>10
  DEF Next, ChangeMembership, OutageOrTick, Service!Next

(* The cache implements the service: the TTL is all a caller that gets no  *)
(* signals has to know, whatever the threads do.                           *)
THEOREM CacheImplementsService == Spec => ImplementsService
<1>1. Init => Service!Init
  <2> SUFFICES ASSUME Init PROVE Service!Init
    OBVIOUS
  <2>1. \A t \in Threads : callOf(t) = [state |-> "idle"]
    BY DEF Init, callOf, Resolving
  <2>2. QED
    BY <2>1
    DEF Init, DirInit, LongAgo, Principals, Service!Init, Service!DirInit,
        Service!LongAgo, Service!Principals, Service!Idle
<1>2. QED
  BY <1>1, ServiceStep, TTLInvariance, PTL DEF Spec, ImplementsService, Service!Spec

-----------------------------------------------------------------------------
(* What a step may do to the keys: delete one, set one, or clear them.     *)
Deleted(k) == Present' = Present \ {k}
Assigned(k) == Present' = Present \cup {k}
Cleared == Present' = {}

LEMMA PresentUnchanged == UNCHANGED entries => UNCHANGED Present
BY DEF Present

LEMMA DeletesOne ==
  ASSUME TypeOK, NEW k \in Keys, Delete(k)
  PROVE  Deleted(k)
<1>1. entries' = [entries EXCEPT ![k] = Absent]
  BY DEF Delete
<1>2. \A j \in Keys : entries'[j].present <=> j # k /\ entries[j].present
  BY <1>1 DEF TypeOK, Absent
<1>3. QED BY <1>2 DEF Delete, Deleted, Present

LEMMA StoresOne ==
  ASSUME TypeOK, NEW t \in Threads, Store(t)
  PROVE  Assigned(key[t])
<1>1. entries' = [entries EXCEPT ![key[t]] = Entry(perms[t], at[t])] /\ key[t] \in Keys
  BY DEF Store, TypeOK
<1>2. \A j \in Keys : entries'[j].present <=> j = key[t] \/ entries[j].present
  BY <1>1 DEF TypeOK, Entry
<1>3. Present' = Present \cup {key[t]}
  BY <1>1, <1>2 DEF Present
<1>4. QED BY <1>3 DEF Store, Assigned

LEMMA ClearsAll ==
  ASSUME TypeOK, NEW t \in Threads, invalidate_all(t)
  PROVE  Cleared
BY DEF invalidate_all, Cleared, Present, Absent

LEMMA RestrictKeepsKeys ==
  ASSUME TypeOK, NEW t \in Threads, NEW u \in Users, NEW g \in Groups, restrict(t, u, g)
  PROVE  UNCHANGED Present
<1>1. \A k \in Present : [entries[k] EXCEPT !.permissions = without(@, {g})].present = entries[k].present
  BY DEF Present, TypeOK, EntryObject, Absent
<1>2. \A k \in Keys : entries'[k].present <=> entries[k].present
  BY <1>1 DEF restrict, Present
<1>3. QED BY <1>2 DEF Present

-----------------------------------------------------------------------------
Trimming == {t \in Threads : pc[t] \in {"trim", "pop"}}
Placing  == {t \in Threads : pc[t] = "place"}

(* The keys that a thread has just set, as long as they are there. *)
Placed == {key[t] : t \in Placing} \cap Present

(* Two threads that have set the same key account for one entry, and one   *)
(* whose key has been deleted meanwhile for none.                          *)
SizeInvariant ==
  /\ IsFiniteSet(Present) /\ IsFiniteSet(Trimming) /\ IsFiniteSet(Placing)
  /\ Cardinality(Present) <= Max_entries + Cardinality(Trimming) + Cardinality(Placed)

(* Nobody begins or ends filling. *)
SameFilling == UNCHANGED <<Trimming, Placing>> /\ \A t \in Placing : key'[t] = key[t]

LEMMA PlacedKeys ==
  ASSUME SameFilling
  PROVE  Placed' = {key[t] : t \in Placing} \cap Present'
BY DEF SameFilling, Placed

LEMMA SizeTypes ==
  ASSUME SizeInvariant
  PROVE  /\ Cardinality(Present) \in Nat /\ Cardinality(Trimming) \in Nat
         /\ IsFiniteSet(Placed) /\ Cardinality(Placed) \in Nat /\ Max_entries \in Nat
<1>1. IsFiniteSet(Placed)
  BY FS_Subset DEF SizeInvariant, Placed
<1>2. QED BY <1>1, FS_CardinalityType, CacheAssumption DEF SizeInvariant, Max_entries

LEMMA SizeIdle ==
  ASSUME SizeInvariant, SameFilling, UNCHANGED Present
  PROVE  SizeInvariant'
<1>1. Placed' = Placed
  BY PlacedKeys DEF Placed
<1>2. QED BY <1>1 DEF SizeInvariant, SameFilling, Max_entries

LEMMA SizeDelete ==
  ASSUME SizeInvariant, SameFilling, NEW k, Present' = Present \ {k}
  PROVE  SizeInvariant'
<1>1. Placed' = Placed \ {k} /\ Placed \subseteq Present
  BY PlacedKeys DEF Placed
<1>2. /\ IsFiniteSet(Present') /\ IsFiniteSet(Placed)
      /\ Cardinality(Present') = IF k \in Present THEN Cardinality(Present) - 1 ELSE Cardinality(Present)
      /\ Cardinality(Placed') = IF k \in Placed THEN Cardinality(Placed) - 1 ELSE Cardinality(Placed)
  BY <1>1, FS_RemoveElement, SizeTypes DEF SizeInvariant
<1>3. Cardinality(Present') <= Max_entries + Cardinality(Trimming) + Cardinality(Placed')
  BY <1>1, <1>2, SizeTypes DEF SizeInvariant
<1>4. QED BY <1>2, <1>3 DEF SizeInvariant, SameFilling, Max_entries

LEMMA SizeClear ==
  ASSUME SizeInvariant, SameFilling, Present' = {}
  PROVE  SizeInvariant'
<1>1. Placed' = {}
  BY PlacedKeys
<1>2. QED BY <1>1, FS_EmptySet, SizeTypes DEF SizeInvariant, SameFilling, Max_entries

LEMMA SizeStore ==
  ASSUME TypeOK, SizeInvariant, NEW t \in Threads, Store(t)
  PROVE  SizeInvariant'
<1> DEFINE k == key[t]
<1>1. Present' = Present \cup {k}
  BY StoresOne DEF Assigned
<1>2. Trimming' = Trimming /\ Placing' = Placing \cup {t} /\ UNCHANGED key
  BY DEF Store, Goto, Trimming, Placing, TypeOK
<1>3. Placed' = Placed \cup {k}
  BY <1>1, <1>2 DEF Placed
<1>4. Placed \subseteq Present
  BY DEF Placed
<1>5. /\ IsFiniteSet(Present') /\ IsFiniteSet(Placing')
      /\ Cardinality(Present') = IF k \in Present THEN Cardinality(Present) ELSE Cardinality(Present) + 1
      /\ Cardinality(Placed') = IF k \in Placed THEN Cardinality(Placed) ELSE Cardinality(Placed) + 1
  BY <1>1, <1>2, <1>3, FS_AddElement, SizeTypes DEF SizeInvariant
<1> HIDE DEF k
<1>6. Cardinality(Present') <= Max_entries + Cardinality(Trimming) + Cardinality(Placed')
  BY <1>4, <1>5, SizeTypes DEF SizeInvariant
<1>7. QED BY <1>2, <1>5, <1>6 DEF SizeInvariant, Max_entries

LEMMA SizePlace ==
  ASSUME TypeOK, SizeInvariant, NEW t \in Threads, Place(t)
  PROVE  SizeInvariant'
<1> DEFINE k == key[t]
<1>1. Present' = Present /\ UNCHANGED key /\ pc[t] = "place"
  BY PresentUnchanged DEF Place
<1>2. Placing' = Placing \ {t}
  BY DEF Place, Goto, Placing, TypeOK
<1>3. IsFiniteSet(Placing')
  BY <1>2, FS_RemoveElement DEF SizeInvariant
<1>4. CASE k \in Present
  <2>1. Trimming' = Trimming \cup {t} /\ t \notin Trimming
    BY <1>1, <1>4 DEF Place, Goto, Trimming, TypeOK
  <2>2. Placed \ {k} \subseteq Placed' /\ Placed' \subseteq Placed
    BY <1>1, <1>2 DEF Placed
  <2>3. IsFiniteSet(Placed \ {k}) /\ Cardinality(Placed \ {k}) >= Cardinality(Placed) - 1
    BY FS_RemoveElement, SizeTypes
  <2>4. IsFiniteSet(Placed')
    BY <2>2, FS_Subset, SizeTypes
  <2>5. Cardinality(Placed') >= Cardinality(Placed) - 1 /\ Cardinality(Placed') \in Nat
    BY <2>2, <2>3, <2>4, FS_Subset, FS_CardinalityType, SizeTypes
  <2>6. IsFiniteSet(Trimming') /\ Cardinality(Trimming') = Cardinality(Trimming) + 1
    BY <2>1, FS_AddElement DEF SizeInvariant
  <2>7. Cardinality(Present) <= Max_entries + Cardinality(Trimming') + Cardinality(Placed')
    BY <2>5, <2>6, SizeTypes DEF SizeInvariant
  <2>8. QED BY <1>1, <1>3, <2>6, <2>7 DEF SizeInvariant, Max_entries
<1>5. CASE k \notin Present
  <2>1. Trimming' = Trimming
    BY <1>1, <1>5 DEF Place, Goto, Trimming, TypeOK
  <2>2. Placed' = Placed
    BY <1>1, <1>2, <1>5 DEF Placed
  <2>3. QED BY <1>1, <1>3, <2>1, <2>2 DEF SizeInvariant, Max_entries
<1>6. QED BY <1>4, <1>5

(* A thread leaves the trim loop when there are no more than max_entries.  *)
LEMMA SizeLeave ==
  ASSUME TypeOK, SizeInvariant, NEW t \in Threads, Trim(t) \/ PopEmpty(t)
  PROVE  SizeInvariant'
<1>1. Present' = Present /\ UNCHANGED key /\ pc[t] \in {"trim", "pop"}
  BY PresentUnchanged DEF Trim, PopEmpty, cacheVars
<1>2. Placing' = Placing
  BY DEF Trim, PopEmpty, Goto, Placing, TypeOK
<1>3. Placed' = Placed
  BY <1>1, <1>2 DEF Placed
<1>4. CASE pc'[t] = "pop"
  <2>1. Trimming' = Trimming
    BY <1>1, <1>4 DEF Trim, PopEmpty, Goto, Trimming, TypeOK
  <2>2. QED BY <1>1, <1>2, <1>3, <2>1 DEF SizeInvariant, Max_entries
<1>5. CASE pc'[t] # "pop"
  <2>1. Trimming' = Trimming \ {t}
    BY <1>1, <1>5 DEF Trim, PopEmpty, Goto, Trimming, TypeOK
  <2>2. IsFiniteSet(Trimming') /\ Cardinality(Trimming') \in Nat
    BY <2>1, FS_RemoveElement, FS_CardinalityType DEF SizeInvariant
  <2>3. Cardinality(Present) <= Max_entries
    <3>1. CASE Trim(t)
      BY <3>1, <1>5, SizeTypes DEF Trim, Goto, TypeOK
    <3>2. CASE PopEmpty(t)
      BY <3>2, FS_EmptySet, SizeTypes DEF PopEmpty
    <3>3. QED BY <3>1, <3>2
  <2>4. Cardinality(Present) <= Max_entries + Cardinality(Trimming') + Cardinality(Placed)
    BY <2>2, <2>3, SizeTypes
  <2>5. QED BY <1>1, <1>2, <1>3, <2>2, <2>4 DEF SizeInvariant, Max_entries
<1>6. QED BY <1>4, <1>5

LEMMA SizeStep ==
  ASSUME TypeOK, SizeInvariant, [Next]_vars
  PROVE  SizeInvariant'
<1>1. ASSUME NEW t \in Threads, ResolveStep(t) PROVE SizeInvariant'
  <2>1. key[t] \in Keys
    BY DEF TypeOK
  <2>2. CASE Lookup(t) \/ TouchHit(t) \/ TouchGone(t) \/ Upstream(t) \/ UpstreamFails(t) \/ Return(t)
    <3>1. UNCHANGED Present
      BY <2>2, PresentUnchanged
      DEF Lookup, TouchHit, TouchGone, Upstream, UpstreamFails, Return, cacheVars
    <3>2. UNCHANGED <<Trimming, Placing>>
      BY <2>2
      DEF Lookup, TouchHit, TouchGone, Upstream, UpstreamFails, Return, Goto, Trimming, Placing, TypeOK
    <3>3. \A s \in Placing : key'[s] = key[s]
      BY <2>2
      DEF Lookup, TouchHit, TouchGone, Upstream, UpstreamFails, Return, Placing, TypeOK
    <3>4. QED BY <3>1, <3>2, <3>3, SizeIdle DEF SameFilling
  <2>3. CASE Drop(t)
    <3>1. SameFilling
      BY <2>3 DEF Drop, Goto, SameFilling, Trimming, Placing, TypeOK
    <3>2. QED BY <2>1, <2>3, <3>1, DeletesOne, SizeDelete DEF Drop, Deleted
  <2>4. CASE Pop(t)
    <3>1. SameFilling
      BY <2>4 DEF Pop, Goto, SameFilling, Trimming, Placing, TypeOK
    <3>2. QED BY <2>4, <3>1, DeletesOne, SizeDelete DEF Pop, Deleted
  <2>5. QED
    BY <1>1, <2>2, <2>3, <2>4, SizeStore, SizePlace, SizeLeave DEF ResolveStep
<1>2. ASSUME NEW t \in Threads, EvictStep(t) PROVE SizeInvariant'
  <2>1. SameFilling
    BY <1>2
    DEF EvictStep, EvictNext, EvictGone, EvictDone, Goto, SameFilling, Trimming, Placing, TypeOK
  <2>2. QED
    BY <1>2, <2>1, DeletesOne, PresentUnchanged, SizeIdle, SizeDelete
    DEF EvictStep, EvictNext, EvictGone, EvictDone, cacheVars, Deleted
<1>3. ASSUME NEW t \in Threads, Hook(t) PROVE SizeInvariant'
  <2>1. CASE invalidate_all(t)
    BY <2>1, ClearsAll, SizeClear DEF invalidate_all, SameFilling, Trimming, Placing, Cleared
  <2>2. ASSUME NEW u \in Users, NEW g \in Groups, restrict(t, u, g) PROVE SizeInvariant'
    BY <2>2, RestrictKeepsKeys, SizeIdle DEF restrict, SameFilling, Trimming, Placing
  <2>3. ASSUME NEW hook, NEW K, NEW changes, ListKeys(t, hook, K, changes) PROVE SizeInvariant'
    <3>1. SameFilling
      BY <2>3 DEF ListKeys, Goto, SameFilling, Trimming, Placing, TypeOK
    <3>2. QED BY <2>3, <3>1, PresentUnchanged, SizeIdle DEF ListKeys, cacheVars
  <2>4. QED BY <1>3, <2>1, <2>2, <2>3 DEF Hook, invalidate, invalidate_group
<1>4. ASSUME NEW t \in Threads, NEW k \in Keys, Resolve(t, k) PROVE SizeInvariant'
  <2>1. SameFilling
    BY <1>4 DEF Resolve, Goto, SameFilling, Trimming, Placing, TypeOK
  <2>2. QED BY <1>4, <2>1, PresentUnchanged, SizeIdle DEF Resolve, cacheVars
<1>5. CASE \/ \E u \in Users, g \in Groups : ChangeMembership(u, g)
           \/ OutageOrTick \/ UNCHANGED vars
  <2>1. UNCHANGED <<cacheVars, pc, key>>
    BY <1>5 DEF ChangeMembership, OutageOrTick, vars, localVars
  <2>2. SameFilling /\ UNCHANGED Present
    BY <2>1, PresentUnchanged DEF SameFilling, Trimming, Placing, cacheVars
  <2>3. QED BY <2>2, SizeIdle
<1>6. QED BY <1>1, <1>2, <1>3, <1>4, <1>5 DEF Next

LEMMA SizeFollows == SizeInvariant => SizeBounded
<1> SUFFICES ASSUME SizeInvariant PROVE SizeBounded
  OBVIOUS
<1> DEFINE K == {key[t] : t \in Placing}
           f == [t \in Placing |-> key[t]]
<1>1. f \in Surjection(Placing, K)
  BY DEF Surjection
<1>2. IsFiniteSet(K) /\ Cardinality(K) <= Cardinality(Placing)
  BY <1>1, FS_Surjection DEF SizeInvariant
<1>3. Cardinality(Placed) <= Cardinality(K) /\ Cardinality(K) \in Nat /\ Cardinality(Placing) \in Nat
  BY <1>2, FS_Subset, FS_CardinalityType DEF SizeInvariant, Placed
<1>4. Filling = Trimming \cup Placing /\ Trimming \cap Placing = {}
  BY DEF Filling, Trimming, Placing
<1>5. Cardinality(Filling) = Cardinality(Trimming) + Cardinality(Placing)
  <2>1. Cardinality(Trimming \cup Placing)
          = Cardinality(Trimming) + Cardinality(Placing) - Cardinality(Trimming \cap Placing)
    BY FS_Union DEF SizeInvariant
  <2>2. Cardinality(Trimming \cap Placing) = 0
    BY <1>4, FS_EmptySet
  <2>3. QED BY <1>3, <1>4, <2>1, <2>2, SizeTypes
<1> HIDE DEF K, f
<1>6. QED BY <1>2, <1>3, <1>5, SizeTypes DEF SizeInvariant, SizeBounded

-----------------------------------------------------------------------------
(* One call at a time. *)
Serial == \A s, t \in Threads : s = t

(* P is what k was under d, but for the changes in S. *)
KnownBut(d, P, k, S) ==
  \E G \in SUBSET Groups :
     /\ P = Effective(k.id, k.groups \cup G, Nesting)
     /\ \A g \in Groups : g \in S \/ (g \in G <=> g \in d[k.id])

(* Nothing leaves the dictionary under a thread that is to meet it.        *)
MeetsItsKeys(t) ==
  /\ pc[t] \notin {"raised", "hook_raised"}
  /\ pc[t] \in {"touch", "place"} => key[t] \in Present
  /\ pc[t] = "pop" => Present # {}
  /\ pc[t] = "evict" => todo[t] \subseteq Present

AllMeet == \A t \in Threads : MeetsItsKeys(t)

(* An entry lacks no change that has been signalled, nor does what a       *)
(* thread fetched; a hook that has passed a key has told it of its changes. *)
EntriesKnown == \A k \in Present : KnownBut(dir, entries[k].permissions, k, unsig[k.id])

KnowsChanges(t) ==
  /\ kept[t] = InDict
  /\ clean[t] => unsig[key[t].id] = {}
  /\ pc[t] \in {"store", "place", "trim", "pop"} =>
       KnownBut(dir, perms[t], key[t], unsig[key[t].id])
  /\ pc[t] = "answered" =>
       perms[t] = {} \/ KnownBut(dir, perms[t], key[t], unsig[key[t].id])
  /\ pc[t] = "evict" =>
       \A k \in Present \ todo[t] :
          KnownBut(dir, entries[k].permissions, k, unsig[k.id] \ covers[t][k.id])

SerialInvariant == EntriesKnown /\ \A t \in Threads : KnowsChanges(t)

LEMMA MeetsStep ==
  ASSUME Serial, TypeOK, AllMeet, [Next]_vars
  PROVE  AllMeet'
<1> USE DEF AllMeet, MeetsItsKeys, Goto, TypeOK
<1>1. ASSUME NEW t \in Threads, ResolveStep(t) PROVE MeetsItsKeys(t)'
  <2>1. MeetsItsKeys(t)
    OBVIOUS
  <2>2. CASE \/ Lookup(t) \/ TouchHit(t) \/ TouchGone(t) \/ Upstream(t) \/ UpstreamFails(t)
             \/ Place(t) \/ PopEmpty(t) \/ Return(t)
    <3>1. UNCHANGED Present
      BY <2>2, PresentUnchanged
      DEF Lookup, TouchHit, TouchGone, Upstream, UpstreamFails, Place, PopEmpty, Return, cacheVars
    <3>2. Fresh(t) => key[t] \in Present
      BY DEF Fresh, Present
    <3>3. QED
      BY <2>1, <2>2, <3>1, <3>2
      DEF Lookup, TouchHit, TouchGone, Upstream, UpstreamFails, Place, PopEmpty, Return
  <2>3. CASE Drop(t)
    BY <2>1, <2>3 DEF Drop
  <2>4. CASE Store(t)
    BY <2>1, <2>4, StoresOne DEF Store, Assigned
  <2>5. CASE Trim(t)
    <3>1. UNCHANGED Present
      BY <2>5, PresentUnchanged DEF Trim, cacheVars
    <3>2. Max_entries \in Nat /\ Max_entries >= 1
      BY CacheAssumption DEF Max_entries
    <3>3. pc'[t] = "pop" => Cardinality(Present) > Max_entries
      BY <2>5 DEF Trim
    <3>4. Cardinality({}) = 0
      BY FS_EmptySet
    <3>5. Present = {} => ~(Cardinality(Present) > Max_entries)
      BY <3>2, <3>4
    <3>6. QED BY <2>1, <2>5, <3>1, <3>3, <3>5 DEF Trim
  <2>6. CASE Pop(t)
    BY <2>1, <2>6 DEF Pop
  <2>7. QED BY <1>1, <2>2, <2>3, <2>4, <2>5, <2>6 DEF ResolveStep
<1>2. ASSUME NEW t \in Threads, EvictStep(t) PROVE MeetsItsKeys(t)'
  <2>1. MeetsItsKeys(t)
    OBVIOUS
  <2>2. ASSUME NEW k \in Keys, EvictNext(t, k) PROVE MeetsItsKeys(t)'
    BY <2>1, <2>2, DeletesOne DEF EvictNext, Deleted
  <2>3. CASE EvictGone(t) \/ EvictDone(t)
    BY <2>1, <2>3 DEF EvictGone, EvictDone
  <2>4. QED BY <1>2, <2>2, <2>3 DEF EvictStep
<1>3. ASSUME NEW t \in Threads, Hook(t) PROVE MeetsItsKeys(t)'
  <2>1. MeetsItsKeys(t)
    OBVIOUS
  <2>2. CASE invalidate_all(t) \/ \E u \in Users, g \in Groups : restrict(t, u, g)
    BY <2>1, <2>2 DEF invalidate_all, restrict
  <2>3. ASSUME NEW hook, NEW K, NEW changes, ListKeys(t, hook, K, changes) PROVE MeetsItsKeys(t)'
    BY <2>1, <2>3, PresentUnchanged DEF ListKeys, cacheVars
  <2>4. QED BY <1>3, <2>2, <2>3 DEF Hook, invalidate, invalidate_group
<1>4. ASSUME NEW t \in Threads, NEW k \in Keys, Resolve(t, k) PROVE MeetsItsKeys(t)'
  BY <1>4 DEF Resolve
<1>5. CASE \/ \E u \in Users, g \in Groups : ChangeMembership(u, g)
           \/ OutageOrTick \/ UNCHANGED vars
  <2>1. UNCHANGED <<pc, key, todo>> /\ UNCHANGED Present
    BY <1>5, PresentUnchanged DEF ChangeMembership, OutageOrTick, vars, cacheVars, localVars
  <2>2. QED BY <2>1
<1>6. QED BY <1>1, <1>2, <1>3, <1>4, <1>5 DEF Next, Serial

LEMMA KnownMore ==
  ASSUME NEW d, NEW P, NEW k, NEW S, NEW T, KnownBut(d, P, k, S), S \subseteq T
  PROVE  KnownBut(d, P, k, T)
BY DEF KnownBut

LEMMA KnownExactly ==
  ASSUME NEW d \in [Users -> SUBSET Groups], NEW k \in Keys, NEW P, KnownBut(d, P, k, {})
  PROVE  P = TruthIn(d, k)
<1>1. PICK G \in SUBSET Groups : /\ P = Effective(k.id, k.groups \cup G, Nesting)
                                /\ \A g \in Groups : g \in G <=> g \in d[k.id]
  BY DEF KnownBut
<1>2. G = d[k.id]
  BY <1>1, DirectoryAssumption
<1>3. QED BY <1>1, <1>2 DEF TruthIn

LEMMA KnownTruth ==
  ASSUME NEW d \in [Users -> SUBSET Groups], NEW k \in Keys, NEW S
  PROVE  KnownBut(d, TruthIn(d, k), k, S)
<1>1. d[k.id] \in SUBSET Groups
  BY DirectoryAssumption
<1>2. QED BY <1>1 DEF KnownBut, TruthIn

(* A change of u in g is one more that may be missing from u's sets. *)
LEMMA KnownChange ==
  ASSUME NEW d \in [Users -> SUBSET Groups], NEW u \in Users, NEW g, NEW k \in Keys,
         NEW P, NEW S, NEW T, KnownBut(d, P, k, S), S \subseteq T, k.id = u => g \in T,
         NEW e, e = [d EXCEPT ![u] = IF g \in d[u] THEN d[u] \ {g} ELSE d[u] \cup {g}]
  PROVE  KnownBut(e, P, k, T)
<1>1. k.id \in Users
  BY DirectoryAssumption
<1>2. \A h \in Groups : h \in T \/ (h \in e[k.id] <=> h \in d[k.id])
  BY <1>1
<1>3. QED BY <1>2 DEF KnownBut

(* A set that does not list g was made of memberships without g. *)
LEMMA KnownWithout ==
  ASSUME NEW d, NEW k, NEW P, NEW S, NEW g, KnownBut(d, P, k, S), g \notin P, g \notin d[k.id]
  PROVE  KnownBut(d, P, k, S \ {g})
<1>1. PICK G \in SUBSET Groups :
        /\ P = Effective(k.id, k.groups \cup G, Nesting)
        /\ \A h \in Groups : h \in S \/ (h \in G <=> h \in d[k.id])
  BY DEF KnownBut
<1>2. G \subseteq P
  BY <1>1 DEF Effective, Closure
<1>3. \A h \in Groups : h \in S \ {g} \/ (h \in G <=> h \in d[k.id])
  BY <1>1, <1>2
<1>4. QED BY <1>1, <1>3 DEF KnownBut

LEMMA SerialInit == Init => SerialInvariant
BY DEF Init, SerialInvariant, EntriesKnown, KnowsChanges, Present, Absent

LEMMA SerialTypes ==
  ASSUME TypeOK
  PROVE  /\ dir \in [Users -> SUBSET Groups]
         /\ \A k \in Keys : k.id \in Users
         /\ \A t \in Threads : key[t] \in Keys
         /\ Present \subseteq Keys
BY DirectoryAssumption DEF TypeOK, DirTypeOK, Present

(* A step that touches neither the dictionary nor what is known of it.     *)
LEMMA SerialLocal ==
  ASSUME Serial, TypeOK, SerialInvariant, NEW t \in Threads,
         UNCHANGED <<dir, entries, unsig>>, KnowsChanges(t)'
  PROVE  SerialInvariant'
<1>1. EntriesKnown'
  BY PresentUnchanged DEF SerialInvariant, EntriesKnown
<1>2. QED BY <1>1 DEF SerialInvariant, Serial

LEMMA SerialResolve ==
  ASSUME Serial, TypeOK, AllMeet, SerialInvariant, NEW t \in Threads, ResolveStep(t)
  PROVE  SerialInvariant'
<1>0. EntriesKnown /\ MeetsItsKeys(t) /\ KnowsChanges(t)
  BY DEF SerialInvariant, AllMeet
<1> USE SerialTypes DEF KnowsChanges, Goto, TypeOK
<1>1. CASE Lookup(t)
  BY <1>0, <1>1, PresentUnchanged, SerialLocal
  DEF Lookup, dirVars, cacheVars, signalVars
<1>2. CASE TouchHit(t)
  <2>1. UNCHANGED <<dir, entries, unsig>> /\ UNCHANGED Present
    BY <1>2, PresentUnchanged DEF TouchHit, dirVars, signalVars
  <2>2. perms'[t] = entries[key[t]].permissions /\ key[t] \in Present
    BY <1>0, <1>2 DEF TouchHit, Held
  <2>3. KnowsChanges(t)'
    BY <1>0, <1>2, <2>1, <2>2 DEF TouchHit, signalVars, EntriesKnown
  <2>4. QED BY <2>1, <2>3, SerialLocal
<1>3. CASE Upstream(t)
  <2>1. UNCHANGED <<dir, entries, unsig>> /\ UNCHANGED Present
    BY <1>3, PresentUnchanged DEF Upstream, dirVars, cacheVars, signalVars
  <2>2. KnownBut(dir, perms'[t], key[t], unsig[key[t].id])
    BY <1>3, KnownTruth DEF Upstream, Truth
  <2>3. KnowsChanges(t)'
    BY <1>0, <1>3, <2>1, <2>2 DEF Upstream, signalVars
  <2>4. QED BY <2>1, <2>3, SerialLocal
<1>4. CASE UpstreamFails(t) \/ Place(t) \/ Trim(t) \/ Return(t)
  <2>1. UNCHANGED <<dir, entries, unsig>> /\ UNCHANGED Present
    BY <1>4, PresentUnchanged
    DEF UpstreamFails, Place, Trim, Return, dirVars, cacheVars, signalVars
  <2>2. CASE UpstreamFails(t) \/ Place(t)
    BY <1>0, <2>1, <2>2, SerialLocal DEF UpstreamFails, Place, MeetsItsKeys, signalVars
  <2>3. CASE Trim(t)
    BY <1>0, <2>1, <2>3, SerialLocal DEF Trim, signalVars
  <2>4. CASE Return(t)
    BY <1>0, <2>1, <2>4, SerialLocal DEF Return
  <2>5. QED BY <1>4, <2>2, <2>3, <2>4
<1>5. CASE Drop(t)
  <2>1. Present' = Present \ {key[t]} /\ UNCHANGED <<dir, unsig>>
    BY <1>5, DeletesOne DEF Drop, Deleted, dirVars, signalVars
  <2>2. \A k \in Present' : entries'[k] = entries[k]
    BY <1>5, <2>1 DEF Drop, Delete
  <2>3. EntriesKnown'
    BY <1>0, <2>1, <2>2 DEF EntriesKnown
  <2>4. KnowsChanges(t)'
    BY <1>0, <1>5, <2>1 DEF Drop, Delete, Detach, signalVars
  <2>5. QED BY <2>3, <2>4 DEF SerialInvariant, Serial
<1>6. CASE Store(t)
  <2>1. Present' = Present \cup {key[t]} /\ UNCHANGED <<dir, unsig>>
    BY <1>6, StoresOne DEF Store, Assigned, dirVars, signalVars
  <2>2. /\ \A k \in Present' \ {key[t]} : entries'[k] = entries[k]
        /\ entries'[key[t]].permissions = perms[t]
    BY <1>6, <2>1 DEF Store, Entry
  <2>3. EntriesKnown'
    BY <1>0, <1>6, <2>1, <2>2 DEF EntriesKnown, Store
  <2>4. KnowsChanges(t)'
    BY <1>0, <1>6, <2>1 DEF Store, Detach, signalVars
  <2>5. QED BY <2>3, <2>4 DEF SerialInvariant, Serial
<1>7. CASE Pop(t)
  <2>1. PICK k \in Keys : Delete(k)
    BY <1>7 DEF Pop
  <2>2. Present' = Present \ {k} /\ UNCHANGED <<dir, unsig>>
    BY <1>7, <2>1, DeletesOne DEF Pop, Deleted, dirVars, signalVars
  <2>3. \A j \in Present' : entries'[j] = entries[j]
    BY <2>1, <2>2 DEF Delete
  <2>4. EntriesKnown'
    BY <1>0, <2>2, <2>3 DEF EntriesKnown
  <2>5. KnowsChanges(t)'
    BY <1>0, <1>7, <2>1, <2>2 DEF Pop, Delete, Detach, signalVars
  <2>6. QED BY <2>4, <2>5 DEF SerialInvariant, Serial
<1>8. CASE TouchGone(t) \/ PopEmpty(t)
  BY <1>0, <1>8 DEF TouchGone, PopEmpty, MeetsItsKeys
<1>9. QED
  BY <1>1, <1>2, <1>3, <1>4, <1>5, <1>6, <1>7, <1>8 DEF ResolveStep

LEMMA SerialEvict ==
  ASSUME Serial, TypeOK, AllMeet, SerialInvariant, NEW t \in Threads, EvictStep(t)
  PROVE  SerialInvariant'
<1>0. EntriesKnown /\ MeetsItsKeys(t) /\ KnowsChanges(t)
  BY DEF SerialInvariant, AllMeet
<1> USE SerialTypes DEF KnowsChanges, Goto, TypeOK
<1>1. ASSUME NEW k \in Keys, EvictNext(t, k) PROVE SerialInvariant'
  <2>1. Present' = Present \ {k} /\ UNCHANGED <<dir, unsig, pc>>
    BY <1>1, DeletesOne DEF EvictNext, Deleted, dirVars, signalVars
  <2>2. \A j \in Present' : entries'[j] = entries[j]
    BY <1>1, <2>1 DEF EvictNext, Delete
  <2>3. EntriesKnown'
    BY <1>0, <2>1, <2>2 DEF EntriesKnown
  <2>4. todo'[t] = todo[t] \ {k} /\ Present' \ todo'[t] = (Present \ todo[t]) \ {k}
    BY <1>1, <2>1 DEF EvictNext
  <2>5. KnowsChanges(t)'
    BY <1>0, <1>1, <2>1, <2>2, <2>4 DEF EvictNext, Delete, Detach, signalVars
  <2>6. QED BY <2>3, <2>5 DEF SerialInvariant, Serial
<1>2. CASE EvictGone(t)
  BY <1>0, <1>2 DEF EvictGone, MeetsItsKeys
<1>3. CASE EvictDone(t)
  <2>1. UNCHANGED <<dir, entries>> /\ UNCHANGED Present
    BY <1>3, PresentUnchanged DEF EvictDone, dirVars, cacheVars
  <2>2. \A k \in Keys : unsig'[k.id] = unsig[k.id] \ covers[t][k.id]
    BY <1>3 DEF EvictDone, Signalled
  <2>3. EntriesKnown'
    <3>1. ASSUME NEW k \in Present
          PROVE  KnownBut(dir, entries[k].permissions, k, unsig'[k.id])
      <4>1. KnownBut(dir, entries[k].permissions, k, unsig[k.id] \ covers[t][k.id])
        BY <1>0, <1>3 DEF EvictDone
      <4>2. unsig'[k.id] = unsig[k.id] \ covers[t][k.id]
        BY <2>2
      <4>3. QED BY <4>1, <4>2
    <3>2. QED BY <2>1, <3>1 DEF EntriesKnown
  <2>4. KnowsChanges(t)'
    BY <1>0, <1>3, <2>1, <2>2 DEF EvictDone
  <2>5. QED BY <2>3, <2>4 DEF SerialInvariant, Serial
<1>4. QED BY <1>1, <1>2, <1>3 DEF EvictStep

(* A hook lists every entry that may lack what it is told of. *)
LEMMA SerialListKeys ==
  ASSUME Serial, TypeOK, SerialInvariant, NEW t \in Threads,
         NEW hook, NEW K, NEW changes, ListKeys(t, hook, K, changes),
         \A k \in Present \ K : KnownBut(dir, entries[k].permissions, k, unsig[k.id] \ changes[k.id])
  PROVE  SerialInvariant'
<1>0. EntriesKnown /\ KnowsChanges(t)
  BY DEF SerialInvariant
<1>1. UNCHANGED <<dir, entries, unsig>> /\ UNCHANGED Present
  BY PresentUnchanged DEF ListKeys, dirVars, cacheVars
<1>2. covers'[t] = changes /\ Present \ todo'[t] \subseteq Present \ K
  BY DEF ListKeys, TypeOK
<1>3. KnowsChanges(t)'
  BY <1>0, <1>1, <1>2 DEF ListKeys, KnowsChanges, Goto, TypeOK
<1>4. QED BY <1>1, <1>3, SerialLocal

LEMMA SerialHook ==
  ASSUME Serial, "restrict" \notin Hooks, TypeOK, SerialInvariant, NEW t \in Threads, Hook(t)
  PROVE  SerialInvariant'
<1>0. EntriesKnown /\ KnowsChanges(t)
  BY DEF SerialInvariant
<1>1. ASSUME NEW u \in Users, invalidate(t, u) PROVE SerialInvariant'
  <2>1. ASSUME NEW k \in Present \ {j \in Keys : j.id = u}
        PROVE  KnownBut(dir, entries[k].permissions, k, unsig[k.id] \ [NoChanges EXCEPT ![u] = unsig[u]][k.id])
    <3>1. unsig[k.id] \ [NoChanges EXCEPT ![u] = unsig[u]][k.id] = unsig[k.id]
      BY SerialTypes DEF NoChanges
    <3>2. QED BY <1>0, <3>1 DEF EntriesKnown
  <2>2. QED BY <1>1, <2>1, SerialListKeys DEF invalidate
<1>2. ASSUME NEW g \in Groups, invalidate_group(t, g) PROVE SerialInvariant'
  <2>1. ASSUME NEW k \in Present \ {j \in Present : g \in entries[j].permissions \/ g \in j.groups}
        PROVE  KnownBut(dir, entries[k].permissions, k, unsig[k.id] \ Departures(g)[k.id])
    <3>1. KnownBut(dir, entries[k].permissions, k, unsig[k.id]) /\ g \notin entries[k].permissions
      BY <1>0 DEF EntriesKnown
    <3>2. Departures(g)[k.id] = IF g \in dir[k.id] THEN {} ELSE unsig[k.id] \cap {g}
      BY SerialTypes DEF Departures
    <3>3. CASE g \in dir[k.id]
      BY <3>1, <3>2, <3>3, KnownMore
    <3>4. CASE g \notin dir[k.id]
      <4>1. KnownBut(dir, entries[k].permissions, k, unsig[k.id] \ {g})
        BY <3>1, <3>4, KnownWithout
      <4>2. QED BY <3>2, <3>4, <4>1, KnownMore
    <3>5. QED BY <3>3, <3>4
  <2>2. QED BY <1>2, <2>1, SerialListKeys DEF invalidate_group
<1>3. CASE invalidate_all(t)
  <2>1. Present' = {}
    BY <1>3, ClearsAll DEF Cleared
  <2>2. kept'[t] = InDict
    BY <1>0, <1>3 DEF KnowsChanges, invalidate_all, Detach
  <2>3. KnowsChanges(t)'
    BY <1>0, <1>3, <2>1, <2>2, SerialTypes DEF KnowsChanges, invalidate_all, NoChanges
  <2>4. QED BY <2>1, <2>3 DEF SerialInvariant, Serial, EntriesKnown
<1>4. QED BY <1>1, <1>2, <1>3 DEF Hook, restrict

LEMMA SerialChange ==
  ASSUME TypeOK, SerialInvariant, NEW u \in Users, NEW g \in Groups, ChangeMembership(u, g)
  PROVE  SerialInvariant'
<1>1. /\ dir' = [dir EXCEPT ![u] = IF g \in dir[u] THEN dir[u] \ {g} ELSE dir[u] \cup {g}]
      /\ UNCHANGED <<entries, pc, key, kept, todo, perms>> /\ UNCHANGED Present
  BY PresentUnchanged DEF ChangeMembership, Change, SetMemberships, cacheVars, localVars
<1>2. \A k \in Keys : unsig[k.id] \subseteq unsig'[k.id] /\ (k.id = u => g \in unsig'[k.id])
  BY SerialTypes DEF ChangeMembership, TypeOK
<1>3. ASSUME NEW k \in Keys, NEW P, KnownBut(dir, P, k, unsig[k.id])
      PROVE  KnownBut(dir', P, k, unsig'[k.id])
  <2> DEFINE S == unsig[k.id]
             T == unsig'[k.id]
             e == dir'
  <2>1. S \subseteq T /\ (k.id = u => g \in T)
    BY <1>2
  <2>2. KnownBut(dir, P, k, S) /\ dir \in [Users -> SUBSET Groups]
    BY <1>3, SerialTypes
  <2>3. e = [dir EXCEPT ![u] = IF g \in dir[u] THEN dir[u] \ {g} ELSE dir[u] \cup {g}]
    BY <1>1
  <2> HIDE DEF S, T, e
  <2>4. KnownBut(e, P, k, T)
    BY <2>1, <2>2, <2>3, KnownChange
  <2>5. QED BY <2>4 DEF e, T
<1>4. EntriesKnown'
  BY <1>1, <1>3, SerialTypes DEF SerialInvariant, EntriesKnown
<1>5. ASSUME NEW t \in Threads PROVE KnowsChanges(t)'
  <2>0. KnowsChanges(t)
    BY DEF SerialInvariant
  <2>1. clean'[t] => unsig'[key[t].id] = {}
    BY <2>0, SerialTypes DEF ChangeMembership, KnowsChanges, TypeOK
  <2>2. ASSUME NEW k \in Keys, NEW P, KnownBut(dir, P, k, unsig[k.id] \ covers[t][k.id])
        PROVE  KnownBut(dir', P, k, unsig'[k.id] \ covers'[t][k.id])
    <3> DEFINE S == unsig[k.id] \ covers[t][k.id]
               T == unsig'[k.id] \ covers'[t][k.id]
               e == dir'
    <3>1. S \subseteq T /\ (k.id = u => g \in T)
      BY <1>2, SerialTypes DEF ChangeMembership, TypeOK
    <3>2. KnownBut(dir, P, k, S) /\ dir \in [Users -> SUBSET Groups]
      BY <2>2, SerialTypes
    <3>3. e = [dir EXCEPT ![u] = IF g \in dir[u] THEN dir[u] \ {g} ELSE dir[u] \cup {g}]
      BY <1>1
    <3> HIDE DEF S, T, e
    <3>4. KnownBut(e, P, k, T)
      BY <3>1, <3>2, <3>3, KnownChange
    <3>5. QED BY <3>4 DEF e, T
  <2>3. QED
    BY <2>0, <1>1, <1>3, <2>1, <2>2, SerialTypes DEF KnowsChanges
<1>6. QED BY <1>4, <1>5 DEF SerialInvariant

LEMMA SerialStep ==
  ASSUME Serial, "restrict" \notin Hooks, TypeOK, AllMeet, SerialInvariant, [Next]_vars
  PROVE  SerialInvariant'
<1>1. ASSUME NEW t \in Threads, NEW k \in Keys, Resolve(t, k) PROVE SerialInvariant'
  <2>1. UNCHANGED <<dir, entries, unsig>> /\ UNCHANGED Present
    BY <1>1, PresentUnchanged DEF Resolve, dirVars, cacheVars
  <2>2. clean'[t] => unsig[k.id] = {}
    BY <1>1 DEF Resolve, TypeOK
  <2>3. KnowsChanges(t)'
    BY <1>1, <2>1, <2>2 DEF Resolve, Goto, KnowsChanges, TypeOK, SerialInvariant
  <2>4. QED BY <2>1, <2>3, SerialLocal
<1>2. CASE OutageOrTick \/ UNCHANGED vars
  <2>1. UNCHANGED <<dir, entries, pc, key, kept, todo, perms, unsig, covers, clean>> /\ UNCHANGED Present
    BY <1>2, PresentUnchanged
    DEF OutageOrTick, Outage, Tick, vars, dirVars, cacheVars, localVars, signalVars
  <2>2. QED BY <2>1 DEF SerialInvariant, EntriesKnown, KnowsChanges
<1>3. QED BY <1>1, <1>2, SerialResolve, SerialEvict, SerialHook, SerialChange DEF Next

-----------------------------------------------------------------------------
(* SizeBounded: the cache exceeds max_entries by at most one entry for     *)
(* each thread between its insertion and the end of its trim loop.         *)
THEOREM SizeIsBounded == Spec => []SizeBounded
<1>1. Init => SizeInvariant
  <2> SUFFICES ASSUME Init PROVE SizeInvariant
    OBVIOUS
  <2>1. Present = {} /\ Trimming = {} /\ Placing = {}
    BY DEF Init, Present, Absent, Trimming, Placing
  <2>2. Placed = {}
    BY <2>1 DEF Placed
  <2>3. IsFiniteSet({}) /\ Cardinality({}) = 0
    BY FS_EmptySet
  <2>4. Max_entries \in Nat
    BY CacheAssumption DEF Max_entries
  <2>5. QED BY <2>1, <2>2, <2>3, <2>4 DEF SizeInvariant
<1>2. TypeOK /\ SizeInvariant /\ [Next]_vars => SizeInvariant'
  BY SizeStep
<1>3. QED BY <1>1, <1>2, SizeFollows, TypeCorrect, PTL DEF Spec

LEMMA SerialMeets == ASSUME Serial PROVE Spec => []AllMeet
<1>1. Init => AllMeet
  BY DEF Init, AllMeet, MeetsItsKeys
<1>2. TypeOK /\ AllMeet /\ [Next]_vars => AllMeet'
  BY MeetsStep
<1>3. QED BY <1>1, <1>2, TypeCorrect, PTL DEF Spec

(* NeverRaises: with one call at a time, and whatever hooks are in use, no *)
(* key leaves the dictionary under a call that is to meet it, so neither   *)
(* resolve nor a hook raises.                                              *)
THEOREM SerialNeverRaises == ASSUME Serial PROVE Spec => []NeverRaises
<1>1. AllMeet => NeverRaises
  BY DEF AllMeet, MeetsItsKeys, NeverRaises
<1>2. QED BY <1>1, SerialMeets, PTL

(* ServedExactly: with one call at a time, when every membership change of *)
(* the caller was signalled and none happens during the call, it returns   *)
(* what the upstream would answer, or nobody when the upstream is down.    *)
(* restrict is excluded: it keeps a group that was inherited through the   *)
(* one it is told of, so after it the entry need not be what the user is.  *)
THEOREM SerialServesExactly ==
  ASSUME Serial, "restrict" \notin Hooks PROVE Spec => []ServedExactly
<1>1. TypeOK /\ SerialInvariant => ServedExactly
  <2> SUFFICES ASSUME TypeOK, SerialInvariant, NEW t \in Threads, pc[t] = "answered", clean[t],
                      perms[t] # {}
               PROVE  perms[t] = Truth(key[t])
    BY DEF ServedExactly
  <2>1. KnownBut(dir, perms[t], key[t], {})
    BY DEF SerialInvariant, KnowsChanges
  <2>2. QED BY <2>1, KnownExactly, SerialTypes DEF Truth
<1>2. TypeOK /\ AllMeet /\ SerialInvariant /\ [Next]_vars => SerialInvariant'
  BY SerialStep
<1>3. QED BY <1>1, <1>2, SerialInit, SerialMeets, TypeCorrect, PTL DEF Spec
=============================================================================
