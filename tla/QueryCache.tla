----------------------------- MODULE QueryCache -----------------------------
(***************************************************************************)
(* The process-wide cache of prepared statements (querycache.go) and the   *)
(* copy-on-write registry of virtual functions it is computed from (vf.go).*)
(*                                                                         *)
(* Goroutines that look statements up read the cache without a lock, so a  *)
(* lookup is one step per access to shared memory.  A miss computes its    *)
(* entry outside the mutex; insert and clear run under it, and are one     *)
(* step wherever a lock-free reader cannot see a state in between.  The    *)
(* text of a statement is abstracted to the version of the registry it was *)
(* expanded with.                                                          *)
(***************************************************************************)
EXTENDS Integers, Sequences, FiniteSets

CONSTANTS Lookups,      \* goroutines that run statements
          Registrars,   \* goroutines that register or unregister functions
          Keys,         \* statements: a driver and a text
          Names,        \* names of virtual functions
          Nil,          \* no entry, no statement, no goroutine
          Capacities,   \* the capacities a cache may be made with
          MaxVersion    \* bound: no registration starts at this version

ASSUME CapacityAssumption == Capacities \subseteq Nat
ASSUME BoundAssumption == MaxVersion \in Nat

\* A preparedQuery in the map: the registry it was expanded with, and its flag.
PreparedQuery == [version : Nat, referenced : BOOLEAN]

ASSUME NilAssumption == Nil \notin Lookups \cup Registrars \cup Keys \cup PreparedQuery
ASSUME DisjointAssumption == Lookups \cap Registrars = {}

VARIABLES
    capacity,       \* queryCache.capacity
    entries,        \* queryCache.entries
    ring, hand,     \* queryCache.ring, as statements, and queryCache.hand
    generation,     \* queryCache.generation
    mutex,          \* the goroutine holding queryCache.mutex
    virtualFuncs,   \* the published map; version counts the swaps
    vfMutex,        \* the goroutine holding virtualFuncsMutex
    pc,             \* where each goroutine is
    key, gen, pq,   \* the locals of lookup and insert; of pq, its version
    linked,         \* the hits whose object the map still holds
    swept,          \* turns of the eviction loop of the goroutine holding mutex
    clone, mine,    \* the locals of RegisterVirtualFunc, and the version it published
    settled,        \* history: newest version whose registration has returned
    since           \* history: settled, when the lookup was called

ringVars   == <<capacity, ring, hand, swept>>
callVars   == <<key, gen, since>>
lookupVars == <<callVars, pq, linked>>
cacheVars  == <<ringVars, entries, generation, mutex>>
regVars    == <<virtualFuncs, vfMutex, clone, mine, settled>>
vars == <<capacity, entries, ring, hand, generation, mutex, virtualFuncs, vfMutex,
          pc, key, gen, pq, linked, swept, clone, mine, settled, since>>

-----------------------------------------------------------------------------
LookupPcs == {"idle", "load", "mark", "gen", "compute", "insert", "sweep",
              "delete", "store", "returned"}
RegistrarPcs == {"idle", "swap", "clear", "clearing"}

\* The types of the state: hand stays inside the ring while the cache is full.
TypeOK ==
    /\ capacity \in Capacities
    /\ entries \in [Keys -> PreparedQuery \cup {Nil}]
    /\ ring \in Seq(Keys)
    /\ hand \in Nat
    /\ hand = 0 \/ hand < capacity
    /\ generation \in Nat
    /\ mutex \in Lookups \cup Registrars \cup {Nil}
    /\ virtualFuncs \in [names : SUBSET Names, version : Nat]
    /\ vfMutex \in Registrars \cup {Nil}
    /\ pc \in [Lookups \cup Registrars -> LookupPcs \cup RegistrarPcs]
    /\ \A t \in Lookups : pc[t] \in LookupPcs
    /\ \A r \in Registrars : pc[r] \in RegistrarPcs
    /\ key \in [Lookups -> Keys \cup {Nil}]
    /\ gen \in [Lookups -> Nat]
    /\ pq \in [Lookups -> Nat]
    /\ linked \subseteq Lookups
    /\ swept \in Nat
    /\ clone \in [Registrars -> SUBSET Names]
    /\ mine \in [Registrars -> Nat]
    /\ settled \in Nat
    /\ since \in [Lookups -> Nat]

Init ==
    /\ capacity \in Capacities
    /\ entries = [k \in Keys |-> Nil]
    /\ ring = <<>>
    /\ hand = 0
    /\ generation = 0
    /\ mutex = Nil
    /\ virtualFuncs = [names |-> {}, version |-> 0]
    /\ vfMutex = Nil
    /\ pc = [x \in Lookups \cup Registrars |-> "idle"]
    /\ key = [t \in Lookups |-> Nil]
    /\ gen = [t \in Lookups |-> 0]
    /\ pq = [t \in Lookups |-> 0]
    /\ linked = {}
    /\ swept = 0
    /\ clone = [r \in Registrars |-> {}]
    /\ mine = [r \in Registrars |-> 0]
    /\ settled = 0
    /\ since = [t \in Lookups |-> 0]

\* Mutant: the hand runs off the end of the ring.
NextHandUnwrapped == hand + 1

\* The entry under the hand, which counts from 0.
UnderHand == ring[hand + 1]
NextHand == (hand + 1) % capacity

Goto(x, label) == pc' = [pc EXCEPT ![x] = label]

-----------------------------------------------------------------------------
(* lookup *)

\* A goroutine calls lookup for a statement.
LookupCall(t, k) ==
    /\ pc[t] = "idle"
    /\ key' = [key EXCEPT ![t] = k]
    /\ since' = [since EXCEPT ![t] = settled]
    /\ Goto(t, "load")
    /\ UNCHANGED <<ringVars, entries, generation, mutex, gen, pq, linked, regVars>>

\* A hit, by a lock-free load of the map.
LookupHit(t) ==
    /\ pc[t] = "load"
    /\ capacity > 0
    /\ entries[key[t]] # Nil
    /\ pq' = [pq EXCEPT ![t] = entries[key[t]].version]
    /\ linked' = linked \cup {t}
    /\ Goto(t, "mark")
    /\ UNCHANGED <<ringVars, entries, generation, mutex, callVars, regVars>>

\* The hit marks its entry, which may have been evicted or cleared since.
LookupMark(t) ==
    /\ pc[t] = "mark"
    /\ entries' = IF t \in linked
                  THEN [entries EXCEPT ![key[t]].referenced = TRUE]
                  ELSE entries
    /\ linked' = linked \ {t}
    /\ Goto(t, "returned")
    /\ UNCHANGED <<ringVars, generation, mutex, callVars, pq, regVars>>

LookupMiss(t) ==
    /\ pc[t] = "load"
    /\ capacity > 0
    /\ entries[key[t]] = Nil
    /\ Goto(t, "gen")
    /\ UNCHANGED <<ringVars, entries, generation, mutex, lookupVars, regVars>>

\* The generation is read before the entry is computed.
LookupGeneration(t) ==
    /\ pc[t] = "gen"
    /\ gen' = [gen EXCEPT ![t] = generation]
    /\ Goto(t, "compute")
    /\ UNCHANGED <<ringVars, entries, generation, mutex, key, since, pq, linked, regVars>>

\* newPreparedQuery: the statement is expanded with the registry as it is now.
NewPreparedQuery(t) == pq' = [pq EXCEPT ![t] = virtualFuncs.version]

LookupCompute(t) ==
    /\ pc[t] = "compute"
    /\ NewPreparedQuery(t)
    /\ Goto(t, "insert")
    /\ UNCHANGED <<ringVars, entries, generation, mutex, callVars, linked, regVars>>

\* A capacity of zero disables caching.
LookupUncached(t) ==
    /\ pc[t] = "load"
    /\ capacity = 0
    /\ NewPreparedQuery(t)
    /\ Goto(t, "returned")
    /\ UNCHANGED <<ringVars, entries, generation, mutex, callVars, linked, regVars>>

\* The caller is done with the prepared statement.
LookupReturn(t) ==
    /\ pc[t] = "returned"
    /\ pq' = [pq EXCEPT ![t] = 0]
    /\ key' = [key EXCEPT ![t] = Nil]
    /\ gen' = [gen EXCEPT ![t] = 0]
    /\ since' = [since EXCEPT ![t] = 0]
    /\ Goto(t, "idle")
    /\ UNCHANGED <<ringVars, entries, generation, mutex, linked, regVars>>

-----------------------------------------------------------------------------
(* insert *)

\* Mutant: the early return leaves the mutex locked.
InsertOutdatedLocked(t) ==
    /\ pc[t] = "insert"
    /\ mutex = Nil
    /\ generation # gen[t]
    /\ mutex' = t
    /\ Goto(t, "returned")
    /\ UNCHANGED <<ringVars, entries, generation, lookupVars, regVars>>

\* The cache was cleared after the lookup began: the entry is used, not cached.
InsertOutdated(t) ==
    /\ pc[t] = "insert"
    /\ mutex = Nil
    /\ generation # gen[t]
    /\ Goto(t, "returned")
    /\ UNCHANGED <<ringVars, entries, generation, mutex, lookupVars, regVars>>

\* Mutant: insert does not compare generations.
MayInsertUnchecked(t) ==
    /\ pc[t] = "insert"
    /\ mutex = Nil

\* insert holds the mutex and nothing cleared the cache since the lookup began.
MayInsert(t) ==
    /\ pc[t] = "insert"
    /\ mutex = Nil
    /\ generation = gen[t]

\* The entry insert stores: fresh, so not yet referenced.
NewEntry(t) == [version |-> pq[t], referenced |-> FALSE]

\* An equal entry another goroutine inserted first wins.
InsertExisting(t) ==
    /\ MayInsert(t)
    /\ entries[key[t]] # Nil
    /\ pq' = [pq EXCEPT ![t] = entries[key[t]].version]
    /\ Goto(t, "returned")
    /\ UNCHANGED <<ringVars, entries, generation, mutex, callVars, linked, regVars>>

InsertAppend(t) ==
    /\ MayInsert(t)
    /\ entries[key[t]] = Nil
    /\ Len(ring) < capacity
    /\ ring' = Append(ring, key[t])
    /\ entries' = [entries EXCEPT ![key[t]] = NewEntry(t)]
    /\ Goto(t, "returned")
    /\ UNCHANGED <<capacity, hand, swept, generation, mutex, lookupVars, regVars>>

\* The ring is full: the eviction sweep starts, with the mutex held.
InsertFull(t) ==
    /\ MayInsert(t)
    /\ entries[key[t]] = Nil
    /\ Len(ring) >= capacity
    /\ mutex' = t
    /\ swept' = 0
    /\ Goto(t, "sweep")
    /\ UNCHANGED <<capacity, ring, hand, entries, generation, lookupVars, regVars>>

\* Mutant: the sweep is not bounded.
SweepUnbounded(t) ==
    /\ pc[t] = "sweep"
    /\ entries[UnderHand].referenced
    /\ entries' = [entries EXCEPT ![UnderHand].referenced = FALSE]
    /\ hand' = NextHand
    /\ UNCHANGED <<capacity, ring, swept, generation, mutex, pc, lookupVars, regVars>>

\* One turn of the loop: the hand passes over a referenced entry.
Sweep(t) ==
    /\ pc[t] = "sweep"
    /\ swept < 2 * capacity
    /\ entries[UnderHand].referenced
    /\ entries' = [entries EXCEPT ![UnderHand].referenced = FALSE]
    /\ hand' = NextHand
    /\ swept' = swept + 1
    /\ UNCHANGED <<capacity, ring, generation, mutex, pc, lookupVars, regVars>>

\* The loop ends: at an entry that is not referenced, or after two full turns.
SweepEnd(t) ==
    /\ pc[t] = "sweep"
    /\ \/ swept = 2 * capacity
       \/ ~entries[UnderHand].referenced
    /\ Goto(t, "delete")
    /\ UNCHANGED <<ringVars, entries, generation, mutex, lookupVars, regVars>>

\* Mutant: the victim stays in the map.
EvictRingOnly(t) ==
    /\ pc[t] = "delete"
    /\ ring' = [ring EXCEPT ![hand + 1] = key[t]]
    /\ hand' = NextHand
    /\ Goto(t, "store")
    /\ UNCHANGED <<capacity, swept, entries, generation, mutex, lookupVars, regVars>>

\* The victim leaves the map and the ring; the new entry is not yet in the map.
Evict(t) ==
    /\ pc[t] = "delete"
    /\ entries' = [entries EXCEPT ![UnderHand] = Nil]
    /\ linked' = {u \in linked : key[u] # UnderHand}
    /\ ring' = [ring EXCEPT ![hand + 1] = key[t]]
    /\ hand' = NextHand
    /\ Goto(t, "store")
    /\ UNCHANGED <<capacity, swept, generation, mutex, callVars, pq, regVars>>

InsertStore(t) ==
    /\ pc[t] = "store"
    /\ entries' = [entries EXCEPT ![key[t]] = NewEntry(t)]
    /\ mutex' = Nil
    /\ swept' = 0
    /\ Goto(t, "returned")
    /\ UNCHANGED <<capacity, ring, hand, generation, lookupVars, regVars>>

-----------------------------------------------------------------------------
(* RegisterVirtualFunc, unregisterVirtualFunc and clear *)

\* Mutant: the registry is cloned without the lock.
CloneUnlocked(r, names) ==
    /\ pc[r] = "idle"
    /\ virtualFuncs.version < MaxVersion
    /\ clone' = [clone EXCEPT ![r] = names]
    /\ Goto(r, "swap")
    /\ UNCHANGED <<cacheVars, lookupVars, virtualFuncs, vfMutex, mine, settled>>

\* Lock virtualFuncsMutex, load the published map and clone it with a change.
CloneWith(r, names) ==
    /\ pc[r] = "idle"
    /\ vfMutex = Nil
    /\ virtualFuncs.version < MaxVersion
    /\ vfMutex' = r
    /\ clone' = [clone EXCEPT ![r] = names]
    /\ Goto(r, "swap")
    /\ UNCHANGED <<cacheVars, lookupVars, virtualFuncs, mine, settled>>

Register(r, n) == CloneWith(r, virtualFuncs.names \cup {n})
Unregister(r, n) == CloneWith(r, virtualFuncs.names \ {n})

\* Mutant: the registration returns without clearing the cache.
SwapWithoutClear(r) ==
    /\ pc[r] = "swap"
    /\ virtualFuncs' = [names |-> clone[r], version |-> virtualFuncs.version + 1]
    /\ vfMutex' = Nil
    /\ settled' = virtualFuncs.version + 1
    /\ Goto(r, "idle")
    /\ UNCHANGED <<cacheVars, lookupVars, clone, mine>>

\* Publish the clone and unlock.
Swap(r) ==
    /\ pc[r] = "swap"
    /\ virtualFuncs' = [names |-> clone[r], version |-> virtualFuncs.version + 1]
    /\ mine' = [mine EXCEPT ![r] = virtualFuncs.version + 1]
    /\ vfMutex' = Nil
    /\ Goto(r, "clear")
    /\ UNCHANGED <<cacheVars, lookupVars, clone, settled>>

\* Mutant: clear leaves the generation as it is.
ClearBumpSameGeneration(r) ==
    /\ pc[r] = "clear"
    /\ mutex = Nil
    /\ mutex' = r
    /\ Goto(r, "clearing")
    /\ UNCHANGED <<ringVars, entries, generation, lookupVars, regVars>>

\* clear locks the mutex and bumps the generation: lookups may read it at once.
ClearBump(r) ==
    /\ pc[r] = "clear"
    /\ mutex = Nil
    /\ mutex' = r
    /\ generation' = generation + 1
    /\ Goto(r, "clearing")
    /\ UNCHANGED <<ringVars, entries, lookupVars, regVars>>

\* clear drops every entry and unlocks, and the registration returns.
ClearEntries(r) ==
    /\ pc[r] = "clearing"
    /\ entries' = [k \in Keys |-> Nil]
    /\ linked' = {}
    /\ ring' = <<>>
    /\ hand' = 0
    /\ mutex' = Nil
    /\ settled' = IF settled < mine[r] THEN mine[r] ELSE settled
    /\ clone' = [clone EXCEPT ![r] = {}]
    /\ mine' = [mine EXCEPT ![r] = 0]
    /\ Goto(r, "idle")
    /\ UNCHANGED <<capacity, swept, generation, callVars, pq, virtualFuncs, vfMutex>>

-----------------------------------------------------------------------------
InsertStep(t) ==
    \/ InsertOutdated(t) \/ InsertExisting(t) \/ InsertAppend(t) \/ InsertFull(t)
SweepStep(t) == Sweep(t) \/ SweepEnd(t) \/ Evict(t) \/ InsertStore(t)
LookupStep(t) ==
    \/ LookupHit(t) \/ LookupMark(t) \/ LookupMiss(t) \/ LookupGeneration(t)
    \/ LookupCompute(t) \/ LookupUncached(t)
RegistrarStep(r) == Swap(r) \/ ClearBump(r) \/ ClearEntries(r)

Next ==
    \/ \E t \in Lookups :
          \/ \E k \in Keys : LookupCall(t, k)
          \/ LookupReturn(t)
          \/ LookupStep(t) \/ InsertStep(t) \/ SweepStep(t)
    \/ \E r \in Registrars :
          \/ \E n \in Names : Register(r, n) \/ Unregister(r, n)
          \/ RegistrarStep(r)

Spec == Init /\ [][Next]_vars

(***************************************************************************)
(* Goroutines are scheduled, and sync.Mutex hands itself to a waiter that  *)
(* has been passed over for too long, so a goroutine whose critical        *)
(* section is enabled again and again gets to run it.                      *)
(***************************************************************************)
Fairness ==
    /\ \A t \in Lookups : WF_vars(LookupStep(t)) /\ SF_vars(InsertStep(t))
                          /\ WF_vars(SweepStep(t))
    /\ \A r \in Registrars : WF_vars(Swap(r)) /\ SF_vars(ClearBump(r))
                             /\ WF_vars(ClearEntries(r))

FairSpec == Spec /\ Fairness

-----------------------------------------------------------------------------
(* Properties *)

(***************************************************************************)
(* Once RegisterVirtualFunc has returned, no cached statement was expanded *)
(* with an older registry: a lookup that was computing while the registry  *)
(* was swapped and the cache cleared does not insert what it computed.     *)
(***************************************************************************)
NoStaleEntry ==
    \A k \in Keys : entries[k] # Nil => entries[k].version >= settled

(***************************************************************************)
(* lookup returns a statement expanded with a registry at least as new as  *)
(* every registration that returned before the call, whether it hit,       *)
(* computed, or lost the race to insert.                                   *)
(***************************************************************************)
FreshResult ==
    \A t \in Lookups :
        pc[t] \in {"mark", "returned"} => pq[t] >= since[t]

(***************************************************************************)
(* Whenever the mutex is free, the ring holds exactly the entries of the   *)
(* map, each once and under its own statement, and no more than capacity,  *)
(* and the hand is inside it: eviction deletes the entry it overwrites and *)
(* the ring never leaks one.                                               *)
(***************************************************************************)
RingMatchesEntries ==
    mutex = Nil =>
        /\ {ring[i] : i \in 1..Len(ring)} = {k \in Keys : entries[k] # Nil}
        /\ \A i, j \in 1..Len(ring) : ring[i] = ring[j] => i = j
        /\ Len(ring) <= capacity
        /\ hand = 0 \/ hand < capacity

(***************************************************************************)
(* The copy-on-write swap loses no update: a step changes the registry by  *)
(* at most one name, even with registrations of several names under way.   *)
(***************************************************************************)
NoLostRegistration ==
    [][Cardinality((virtualFuncs.names \ virtualFuncs'.names)
                   \cup (virtualFuncs'.names \ virtualFuncs.names)) <= 1]_virtualFuncs

\* A lookup has its answer when it has read it from the map or is past insert.
Answered(t) == pc[t] \in {"mark", "returned"}

Status ==
    [t \in Lookups |-> IF pc[t] = "idle" THEN "idle" ELSE IF Answered(t) THEN "answered" ELSE "called"]
Answers == [t \in Lookups |-> IF Answered(t) THEN pq[t] ELSE 0]

Abstract == INSTANCE Registry WITH
    names <- virtualFuncs.names, version <- virtualFuncs.version,
    status <- Status, answer <- Answers

(***************************************************************************)
(* The cache cannot be told from expanding every statement anew: whatever  *)
(* hits, evictions, clears and lost races to insert do, each lookup        *)
(* answers at one instant, with a registry published by then and no older  *)
(* than those that had returned at its call, and registrations are         *)
(* published one by one.                                                   *)
(***************************************************************************)
ImplementsRegistry == Abstract!Spec

(***************************************************************************)
(* Every lookup returns, though hits keep marking the entries the sweep    *)
(* has just passed: the sweep is bounded.  Every registration returns,     *)
(* however many lookups want the mutex.                                    *)
(***************************************************************************)
CallsReturn ==
    /\ \A t \in Lookups : pc[t] # "idle" ~> pc[t] = "returned"
    /\ \A r \in Registrars : pc[r] # "idle" ~> pc[r] = "idle"
=============================================================================
