-------------------------- MODULE QueryCacheProofs --------------------------
(***************************************************************************)
(* Proofs about QueryCache for every number of goroutines, statements and  *)
(* virtual functions and every capacity.  IInv is the inductive invariant: *)
(* LockInv says which goroutine is inside the critical section, CallInv    *)
(* and RingInv tie the locals, the map and the ring together, and FreshInv *)
(* is the argument for freshness: an entry whose generation is still       *)
(* current was expanded after the clear that set that generation, so with  *)
(* a registry no older than the one the clear was for.                     *)
(***************************************************************************)
EXTENDS QueryCache, FiniteSetTheorems, TLAPS

\* Where a lookup holds the mutex.
Locked == {"sweep", "delete", "store"}

LockInv ==
    /\ \A t \in Lookups : pc[t] \in Locked <=> mutex = t
    /\ \A r \in Registrars : pc[r] = "clearing" <=> mutex = r

CallInv ==
    /\ \A t \in Lookups : pc[t] # "idle" => key[t] \in Keys
    /\ \A t \in linked : pc[t] = "mark" /\ entries[key[t]] # Nil

\* The ring holds no statement twice, and no more than capacity.
Distinct ==
    /\ Len(ring) <= capacity
    /\ \A i, j \in 1..Len(ring) : ring[i] = ring[j] => i = j

\* Every cached statement is in the ring.
Covered == \A k \in Keys : entries[k] # Nil => \E i \in 1..Len(ring) : ring[i] = k

\* Only the statement being stored is in the ring and not yet in the map.
Stored ==
    \A i \in 1..Len(ring) : entries[ring[i]] = Nil =>
        mutex \in Lookups /\ pc[mutex] = "store" /\ key[mutex] = ring[i]

\* The ring is full for as long as an insert evicts from it.
Full ==
    \A t \in Lookups :
        /\ pc[t] \in {"gen", "compute", "insert"} \cup Locked => capacity > 0
        /\ pc[t] \in Locked => Len(ring) = capacity /\ entries[key[t]] = Nil
        /\ pc[t] = "store" => \E i \in 1..Len(ring) : ring[i] = key[t]

RingInv == Distinct /\ Covered /\ Stored /\ Full

FreshInv ==
    /\ NoStaleEntry
    /\ settled <= virtualFuncs.version
    /\ \A r \in Registrars : mine[r] <= virtualFuncs.version
    /\ \A t \in Lookups : since[t] <= settled /\ gen[t] <= generation
    /\ \A t \in Lookups :
          pc[t] \in {"mark", "insert", "returned"} \cup Locked => pq[t] >= since[t]
    /\ \A t \in Lookups :
          pc[t] \in {"insert"} \cup Locked /\ gen[t] = generation =>
              /\ pq[t] >= settled
              /\ \A r \in Registrars : pc[r] = "clearing" => pq[t] >= mine[r]
    /\ \A t \in Lookups : pc[t] \in Locked => gen[t] = generation

IInv == TypeOK /\ LockInv /\ CallInv /\ RingInv /\ FreshInv

\* fs holds the entries of the map as it is now, whatever their flags.
SameEntries(fs) ==
    /\ fs \in [Keys -> PreparedQuery \cup {Nil}]
    /\ \A k \in Keys : fs[k] = Nil <=> entries[k] = Nil
    /\ \A k \in Keys : entries[k] # Nil => fs[k].version = entries[k].version

\* A step that leaves the ring and its eviction to others.
RingUntouched ==
    /\ UNCHANGED <<capacity, ring, mutex>>
    /\ SameEntries(entries')
    /\ \A t \in Lookups :
          /\ pc'[t] \in Locked <=> pc[t] \in Locked
          /\ pc[t] \in Locked => key'[t] = key[t] /\ (pc'[t] = "store" <=> pc[t] = "store")
          /\ pc'[t] \in {"gen", "compute", "insert"} => capacity > 0

-----------------------------------------------------------------------------
\* Setting or clearing the flag of a cached statement changes nothing else.
LEMMA SetReferenced ==
    ASSUME entries \in [Keys -> PreparedQuery \cup {Nil}],
           NEW k \in Keys, entries[k] # Nil, NEW b \in BOOLEAN
    PROVE  SameEntries([entries EXCEPT ![k].referenced = b])
  <1> DEFINE e == [entries[k] EXCEPT !.referenced = b]
  <1>1. entries[k] \in PreparedQuery
    OBVIOUS
  <1>2. e \in PreparedQuery /\ e.version = entries[k].version
    BY <1>1 DEF PreparedQuery
  <1>3. e # Nil
    BY <1>2, NilAssumption
  <1> QED BY <1>2, <1>3 DEF SameEntries

\* A step that leaves the ring alone keeps what is known about it.
LEMMA RingKept == IInv /\ RingUntouched => RingInv'
  <1> SUFFICES ASSUME IInv, RingUntouched PROVE RingInv'
    OBVIOUS
  <1>1. Distinct'
    BY DEF IInv, RingInv, Distinct, RingUntouched
  <1>2. Covered'
    BY DEF IInv, RingInv, Covered, RingUntouched, SameEntries
  <1>3. Stored'
    BY DEF IInv, TypeOK, RingInv, Stored, RingUntouched, SameEntries, Locked
  <1>4. Full'
    <2> SUFFICES ASSUME NEW t \in Lookups
                 PROVE  /\ pc'[t] \in {"gen", "compute", "insert"} \cup Locked => capacity > 0
                        /\ pc'[t] \in Locked => Len(ring) = capacity /\ entries'[key'[t]] = Nil
                        /\ pc'[t] = "store" => \E i \in 1..Len(ring) : ring[i] = key'[t]
      BY DEF Full, RingUntouched
    <2>1. pc[t] \in Locked => /\ capacity > 0 /\ Len(ring) = capacity
                              /\ key[t] \in Keys /\ entries[key[t]] = Nil
      BY DEF IInv, CallInv, RingInv, Full, Locked
    <2>2. pc[t] = "store" => \E i \in 1..Len(ring) : ring[i] = key[t]
      BY DEF IInv, RingInv, Full
    <2> QED BY <2>1, <2>2 DEF RingUntouched, SameEntries, Locked
  <1> QED BY <1>1, <1>2, <1>3, <1>4 DEF RingInv

\* Moving the hand on keeps it inside the ring.
LEMMA HandInRing ==
    ASSUME NEW h \in Nat, NEW c \in Nat, c > 0
    PROVE  (h + 1) % c \in 0..(c - 1)
  OBVIOUS

\* The empty cache satisfies the invariant.
LEMMA InitIInv == Init => IInv
  BY NilAssumption, CapacityAssumption
     DEF Init, IInv, TypeOK, LockInv, CallInv, RingInv, Distinct, Covered,
         Stored, Full, FreshInv, NoStaleEntry, Locked, LookupPcs, RegistrarPcs, PreparedQuery

\* Every step of a lookup, an insert, a sweep or a registration preserves it.
LEMMA NextIInv == IInv /\ [Next]_vars => IInv'
  <1> SUFFICES ASSUME IInv, [Next]_vars PROVE IInv'
    OBVIOUS
  <1> USE DEF Locked, Goto, vars, ringVars, callVars, lookupVars, cacheVars, regVars
  <1>1. ASSUME NEW t \in Lookups, NEW k \in Keys, LookupCall(t, k)
        PROVE  IInv'
    <2>1. TypeOK'
      BY <1>1, NilAssumption, DisjointAssumption DEF IInv, LookupCall, TypeOK,
         LookupPcs, RegistrarPcs, PreparedQuery, CallInv
    <2>2. LockInv'
      BY <1>1, NilAssumption, DisjointAssumption DEF IInv, LookupCall, LockInv,
         TypeOK, LookupPcs, RegistrarPcs
    <2>3. CallInv'
      BY <1>1, NilAssumption, DisjointAssumption DEF IInv, LookupCall, CallInv,
         TypeOK, LookupPcs
    <2>4. RingInv'
      <3>1. RingUntouched
        BY <1>1, DisjointAssumption, CapacityAssumption DEF RingUntouched,
           SameEntries, IInv, LookupCall, TypeOK, RingInv, Full
      <3> QED BY <3>1, RingKept
    <2>5. FreshInv'
      BY <1>1, NilAssumption, DisjointAssumption DEF IInv, LookupCall, FreshInv,
         TypeOK, LockInv, CallInv, NoStaleEntry, PreparedQuery, RegistrarPcs
    <2> QED BY <2>1, <2>2, <2>3, <2>4, <2>5 DEF IInv
  <1>2. ASSUME NEW t \in Lookups, LookupHit(t)
        PROVE  IInv'
    <2>1. TypeOK'
      BY <1>2, NilAssumption, DisjointAssumption DEF IInv, LookupHit, TypeOK,
         LookupPcs, RegistrarPcs, PreparedQuery, CallInv
    <2>2. LockInv'
      BY <1>2, NilAssumption, DisjointAssumption DEF IInv, LookupHit, LockInv,
         TypeOK, LookupPcs, RegistrarPcs
    <2>3. CallInv'
      BY <1>2, NilAssumption, DisjointAssumption DEF IInv, LookupHit, CallInv,
         TypeOK, LookupPcs
    <2>4. RingInv'
      <3>1. RingUntouched
        BY <1>2, DisjointAssumption, CapacityAssumption DEF RingUntouched,
           SameEntries, IInv, LookupHit, TypeOK, RingInv, Full
      <3> QED BY <3>1, RingKept
    <2>5. FreshInv'
      BY <1>2, NilAssumption, DisjointAssumption DEF IInv, LookupHit, FreshInv,
         TypeOK, LockInv, CallInv, NoStaleEntry, PreparedQuery, RegistrarPcs
    <2> QED BY <2>1, <2>2, <2>3, <2>4, <2>5 DEF IInv
  <1>3. ASSUME NEW t \in Lookups, LookupMark(t)
        PROVE  IInv'
    <2>0. SameEntries(entries')
      <3>1. CASE t \in linked
        BY <1>3, <3>1, SetReferenced DEF LookupMark, IInv, TypeOK, CallInv
      <3>2. CASE t \notin linked
        BY <1>3, <3>2 DEF LookupMark, IInv, TypeOK, SameEntries
      <3> QED BY <3>1, <3>2
    <2>1. TypeOK'
      BY <1>3, <2>0, NilAssumption, DisjointAssumption DEF IInv, LookupMark, TypeOK,
         LookupPcs, RegistrarPcs, CallInv, SameEntries
    <2>2. LockInv'
      BY <1>3, <2>0, NilAssumption, DisjointAssumption DEF IInv, LookupMark,
         LockInv, TypeOK, LookupPcs, RegistrarPcs, SameEntries
    <2>3. CallInv'
      BY <1>3, <2>0, NilAssumption, DisjointAssumption DEF IInv, LookupMark,
         CallInv, TypeOK, LookupPcs, SameEntries
    <2>4. RingInv'
      <3>1. RingUntouched
        BY <1>3, <2>0, DisjointAssumption, CapacityAssumption DEF RingUntouched,
           IInv, LookupMark, TypeOK, RingInv, Full
      <3> QED BY <3>1, RingKept
    <2>5. FreshInv'
      BY <1>3, <2>0, NilAssumption, DisjointAssumption DEF IInv, LookupMark,
         FreshInv, TypeOK, LockInv, CallInv, NoStaleEntry, RegistrarPcs, SameEntries
    <2> QED BY <2>1, <2>2, <2>3, <2>4, <2>5 DEF IInv
  <1>4. ASSUME NEW t \in Lookups, LookupMiss(t)
        PROVE  IInv'
    <2>1. TypeOK'
      BY <1>4, NilAssumption, DisjointAssumption DEF IInv, LookupMiss, TypeOK,
         LookupPcs, RegistrarPcs, PreparedQuery, CallInv
    <2>2. LockInv'
      BY <1>4, NilAssumption, DisjointAssumption DEF IInv, LookupMiss, LockInv,
         TypeOK, LookupPcs, RegistrarPcs
    <2>3. CallInv'
      BY <1>4, NilAssumption, DisjointAssumption DEF IInv, LookupMiss, CallInv,
         TypeOK, LookupPcs
    <2>4. RingInv'
      <3>1. RingUntouched
        BY <1>4, DisjointAssumption, CapacityAssumption DEF RingUntouched,
           SameEntries, IInv, LookupMiss, TypeOK, RingInv, Full
      <3> QED BY <3>1, RingKept
    <2>5. FreshInv'
      BY <1>4, NilAssumption, DisjointAssumption DEF IInv, LookupMiss, FreshInv,
         TypeOK, LockInv, CallInv, NoStaleEntry, PreparedQuery, RegistrarPcs
    <2> QED BY <2>1, <2>2, <2>3, <2>4, <2>5 DEF IInv
  <1>5. ASSUME NEW t \in Lookups, LookupGeneration(t)
        PROVE  IInv'
    <2>1. TypeOK'
      BY <1>5, NilAssumption, DisjointAssumption DEF IInv, LookupGeneration, TypeOK,
         LookupPcs, RegistrarPcs, PreparedQuery, CallInv
    <2>2. LockInv'
      BY <1>5, NilAssumption, DisjointAssumption DEF IInv, LookupGeneration,
         LockInv, TypeOK, LookupPcs, RegistrarPcs
    <2>3. CallInv'
      BY <1>5, NilAssumption, DisjointAssumption DEF IInv, LookupGeneration,
         CallInv, TypeOK, LookupPcs
    <2>4. RingInv'
      <3>1. RingUntouched
        BY <1>5, DisjointAssumption, CapacityAssumption DEF RingUntouched,
           SameEntries, IInv, LookupGeneration, TypeOK, RingInv, Full
      <3> QED BY <3>1, RingKept
    <2>5. FreshInv'
      BY <1>5, NilAssumption, DisjointAssumption DEF IInv, LookupGeneration,
         FreshInv, TypeOK, LockInv, CallInv, NoStaleEntry, PreparedQuery,
         RegistrarPcs
    <2> QED BY <2>1, <2>2, <2>3, <2>4, <2>5 DEF IInv
  <1>6. ASSUME NEW t \in Lookups, LookupCompute(t)
        PROVE  IInv'
    <2>1. TypeOK'
      BY <1>6, NilAssumption, DisjointAssumption DEF IInv, LookupCompute,
         NewPreparedQuery, TypeOK, LookupPcs, RegistrarPcs, PreparedQuery, CallInv
    <2>2. LockInv'
      BY <1>6, NilAssumption, DisjointAssumption DEF IInv, LookupCompute,
         NewPreparedQuery, LockInv, TypeOK, LookupPcs, RegistrarPcs
    <2>3. CallInv'
      BY <1>6, NilAssumption, DisjointAssumption DEF IInv, LookupCompute,
         NewPreparedQuery, CallInv, TypeOK, LookupPcs
    <2>4. RingInv'
      <3>1. RingUntouched
        BY <1>6, DisjointAssumption, CapacityAssumption DEF RingUntouched,
           SameEntries, IInv, LookupCompute, NewPreparedQuery, TypeOK, RingInv, Full
      <3> QED BY <3>1, RingKept
    <2>5. FreshInv'
      BY <1>6, NilAssumption, DisjointAssumption DEF IInv, LookupCompute,
         NewPreparedQuery, FreshInv, TypeOK, LockInv, CallInv, NoStaleEntry,
         PreparedQuery, RegistrarPcs
    <2> QED BY <2>1, <2>2, <2>3, <2>4, <2>5 DEF IInv
  <1>7. ASSUME NEW t \in Lookups, LookupUncached(t)
        PROVE  IInv'
    <2>1. TypeOK'
      BY <1>7, NilAssumption, DisjointAssumption DEF IInv, LookupUncached,
         NewPreparedQuery, TypeOK, LookupPcs, RegistrarPcs, PreparedQuery, CallInv
    <2>2. LockInv'
      BY <1>7, NilAssumption, DisjointAssumption DEF IInv, LookupUncached,
         NewPreparedQuery, LockInv, TypeOK, LookupPcs, RegistrarPcs
    <2>3. CallInv'
      BY <1>7, NilAssumption, DisjointAssumption DEF IInv, LookupUncached,
         NewPreparedQuery, CallInv, TypeOK, LookupPcs
    <2>4. RingInv'
      <3>1. RingUntouched
        BY <1>7, DisjointAssumption, CapacityAssumption DEF RingUntouched,
           SameEntries, IInv, LookupUncached, NewPreparedQuery, TypeOK, RingInv,
           Full
      <3> QED BY <3>1, RingKept
    <2>5. FreshInv'
      BY <1>7, NilAssumption, DisjointAssumption DEF IInv, LookupUncached,
         NewPreparedQuery, FreshInv, TypeOK, LockInv, CallInv, NoStaleEntry,
         PreparedQuery, RegistrarPcs
    <2> QED BY <2>1, <2>2, <2>3, <2>4, <2>5 DEF IInv
  <1>8. ASSUME NEW t \in Lookups, LookupReturn(t)
        PROVE  IInv'
    <2>1. TypeOK'
      BY <1>8, NilAssumption, DisjointAssumption DEF IInv, LookupReturn, TypeOK,
         LookupPcs, RegistrarPcs, PreparedQuery, CallInv
    <2>2. LockInv'
      BY <1>8, NilAssumption, DisjointAssumption DEF IInv, LookupReturn, LockInv,
         TypeOK, LookupPcs, RegistrarPcs
    <2>3. CallInv'
      BY <1>8, NilAssumption, DisjointAssumption DEF IInv, LookupReturn, CallInv,
         TypeOK, LookupPcs
    <2>4. RingInv'
      <3>1. RingUntouched
        BY <1>8, DisjointAssumption, CapacityAssumption DEF RingUntouched,
           SameEntries, IInv, LookupReturn, TypeOK, RingInv, Full
      <3> QED BY <3>1, RingKept
    <2>5. FreshInv'
      BY <1>8, NilAssumption, DisjointAssumption DEF IInv, LookupReturn, FreshInv,
         TypeOK, LockInv, CallInv, NoStaleEntry, PreparedQuery, RegistrarPcs
    <2> QED BY <2>1, <2>2, <2>3, <2>4, <2>5 DEF IInv
  <1>9. ASSUME NEW t \in Lookups, InsertOutdated(t)
        PROVE  IInv'
    <2>1. TypeOK'
      BY <1>9, NilAssumption, DisjointAssumption DEF IInv, InsertOutdated, TypeOK,
         LookupPcs, RegistrarPcs, PreparedQuery, CallInv
    <2>2. LockInv'
      BY <1>9, NilAssumption, DisjointAssumption DEF IInv, InsertOutdated, LockInv,
         TypeOK, LookupPcs, RegistrarPcs
    <2>3. CallInv'
      BY <1>9, NilAssumption, DisjointAssumption DEF IInv, InsertOutdated, CallInv,
         TypeOK, LookupPcs
    <2>4. RingInv'
      <3>1. RingUntouched
        BY <1>9, DisjointAssumption, CapacityAssumption DEF RingUntouched,
           SameEntries, IInv, InsertOutdated, TypeOK, RingInv, Full
      <3> QED BY <3>1, RingKept
    <2>5. FreshInv'
      BY <1>9, NilAssumption, DisjointAssumption DEF IInv, InsertOutdated, FreshInv,
         TypeOK, LockInv, CallInv, NoStaleEntry, PreparedQuery, RegistrarPcs
    <2> QED BY <2>1, <2>2, <2>3, <2>4, <2>5 DEF IInv
  <1>10. ASSUME NEW t \in Lookups, InsertExisting(t)
        PROVE  IInv'
    <2>1. TypeOK'
      BY <1>10, NilAssumption, DisjointAssumption DEF IInv, InsertExisting,
         MayInsert, TypeOK, LookupPcs, RegistrarPcs, PreparedQuery, CallInv
    <2>2. LockInv'
      BY <1>10, NilAssumption, DisjointAssumption DEF IInv, InsertExisting,
         MayInsert, LockInv, TypeOK, LookupPcs, RegistrarPcs
    <2>3. CallInv'
      BY <1>10, NilAssumption, DisjointAssumption DEF IInv, InsertExisting,
         MayInsert, CallInv, TypeOK, LookupPcs
    <2>4. RingInv'
      <3>1. RingUntouched
        BY <1>10, DisjointAssumption, CapacityAssumption DEF RingUntouched,
           SameEntries, IInv, InsertExisting, MayInsert, TypeOK, RingInv, Full
      <3> QED BY <3>1, RingKept
    <2>5. FreshInv'
      BY <1>10, NilAssumption, DisjointAssumption DEF IInv, InsertExisting,
         MayInsert, FreshInv, TypeOK, LockInv, CallInv, NoStaleEntry, PreparedQuery,
         RegistrarPcs
    <2> QED BY <2>1, <2>2, <2>3, <2>4, <2>5 DEF IInv
  <1>11. ASSUME NEW t \in Lookups, InsertAppend(t)
        PROVE  IInv'
    <2>a. key[t] \in Keys /\ capacity \in Nat /\ ring \in Seq(Keys)
      BY <1>11, CapacityAssumption DEF IInv, TypeOK, CallInv, InsertAppend, MayInsert
    <2>b. \A i \in 1..Len(ring) : ring[i] # key[t]
      BY <1>11, NilAssumption DEF IInv, RingInv, Stored, InsertAppend, MayInsert
    <2>c. /\ ring' \in Seq(Keys) /\ Len(ring') = Len(ring) + 1
          /\ \A i \in 1..Len(ring) : ring'[i] = ring[i]
          /\ ring'[Len(ring) + 1] = key[t]
      BY <1>11, <2>a DEF InsertAppend
    <2>d. NewEntry(t) \in PreparedQuery /\ NewEntry(t) # Nil
      <3>1. NewEntry(t) \in PreparedQuery
        BY DEF NewEntry, PreparedQuery, IInv, TypeOK
      <3> QED BY <3>1, NilAssumption
    <2>1. TypeOK'
      BY <1>11, NilAssumption, DisjointAssumption DEF IInv, InsertAppend, MayInsert,
         NewEntry, TypeOK, LookupPcs, RegistrarPcs, PreparedQuery, CallInv
    <2>2. LockInv'
      BY <1>11, NilAssumption, DisjointAssumption DEF IInv, InsertAppend, MayInsert,
         NewEntry, LockInv, TypeOK, LookupPcs, RegistrarPcs
    <2>3. CallInv'
      BY <1>11, NilAssumption, DisjointAssumption DEF IInv, InsertAppend, MayInsert,
         NewEntry, CallInv, TypeOK, LookupPcs
    <2>4. RingInv'
      <3>1. Distinct'
        BY <1>11, <2>a, <2>b, <2>c DEF IInv, RingInv, Distinct, InsertAppend
      <3>2. Covered'
        BY <1>11, <2>a, <2>c DEF IInv, TypeOK, RingInv, Covered, InsertAppend
      <3>3. \A i \in 1..Len(ring') : entries'[ring'[i]] # Nil
        BY <1>11, <2>a, <2>b, <2>c, <2>d, NilAssumption
           DEF IInv, TypeOK, RingInv, Stored, InsertAppend, MayInsert
      <3>4. Full'
        BY <1>11, NilAssumption DEF IInv, TypeOK, LockInv, RingInv, Full, InsertAppend, MayInsert
      <3> QED BY <3>1, <3>2, <3>3, <3>4 DEF RingInv, Stored
    <2>5. FreshInv'
      BY <1>11, NilAssumption, DisjointAssumption DEF IInv, InsertAppend, MayInsert,
         NewEntry, FreshInv, TypeOK, LockInv, CallInv, NoStaleEntry, PreparedQuery,
         RegistrarPcs
    <2> QED BY <2>1, <2>2, <2>3, <2>4, <2>5 DEF IInv
  <1>12. ASSUME NEW t \in Lookups, InsertFull(t)
        PROVE  IInv'
    <2>1. TypeOK'
      BY <1>12, NilAssumption, DisjointAssumption DEF IInv, InsertFull, MayInsert,
         TypeOK, LookupPcs, RegistrarPcs, PreparedQuery, CallInv
    <2>2. LockInv'
      BY <1>12, NilAssumption, DisjointAssumption DEF IInv, InsertFull, MayInsert,
         LockInv, TypeOK, LookupPcs, RegistrarPcs
    <2>3. CallInv'
      BY <1>12, NilAssumption, DisjointAssumption DEF IInv, InsertFull, MayInsert,
         CallInv, TypeOK, LookupPcs
    <2>4. RingInv'
      <3>1. Distinct'
        BY <1>12, NilAssumption, DisjointAssumption DEF IInv, InsertFull, MayInsert,
           RingInv, Distinct, TypeOK, CallInv
      <3>2. Covered'
        BY <1>12, NilAssumption, DisjointAssumption DEF IInv, InsertFull, MayInsert,
           RingInv, Covered, TypeOK, CallInv
      <3>3. Stored'
        BY <1>12, NilAssumption, DisjointAssumption DEF IInv, InsertFull, MayInsert,
           RingInv, Stored, TypeOK, CallInv, LockInv
      <3>4. Full'
        BY <1>12, CapacityAssumption, DisjointAssumption
           DEF IInv, TypeOK, LockInv, RingInv, Distinct, Full, InsertFull, MayInsert
      <3> QED BY <3>1, <3>2, <3>3, <3>4 DEF RingInv
    <2>5. FreshInv'
      BY <1>12, NilAssumption, DisjointAssumption DEF IInv, InsertFull, MayInsert,
         FreshInv, TypeOK, LockInv, CallInv, NoStaleEntry, PreparedQuery,
         RegistrarPcs
    <2> QED BY <2>1, <2>2, <2>3, <2>4, <2>5 DEF IInv
  <1>13. ASSUME NEW t \in Lookups, Sweep(t)
        PROVE  IInv'
    <2>a. capacity \in Nat /\ capacity > 0 /\ Len(ring) = capacity
      BY <1>13, CapacityAssumption DEF Sweep, IInv, TypeOK, RingInv, Full
    <2>b. hand' \in 0..(capacity - 1)
      BY <1>13, <2>a, HandInRing DEF Sweep, NextHand, IInv, TypeOK
    <2>c. UnderHand \in Keys /\ entries[UnderHand] # Nil
      BY <1>13, <2>a, NilAssumption, DisjointAssumption
         DEF Sweep, UnderHand, IInv, TypeOK, RingInv, Stored, LockInv
    <2>0. SameEntries(entries')
      BY <1>13, <2>c, SetReferenced DEF Sweep, IInv, TypeOK
    <2>1. TypeOK'
      <3>1. entries' \in [Keys -> PreparedQuery \cup {Nil}]
        BY <2>0 DEF SameEntries
      <3>2. hand' \in Nat /\ hand' < capacity
        BY <2>a, <2>b
      <3>3. swept' \in Nat
        BY <1>13 DEF Sweep, IInv, TypeOK
      <3> QED BY <1>13, <3>1, <3>2, <3>3 DEF IInv, Sweep, TypeOK
    <2>2. LockInv'
      BY <1>13, <2>0, <2>a, <2>b, NilAssumption, DisjointAssumption DEF IInv, Sweep,
         LockInv, TypeOK, LookupPcs, RegistrarPcs, SameEntries
    <2>3. CallInv'
      BY <1>13, <2>0, <2>a, <2>b, NilAssumption, DisjointAssumption DEF IInv, Sweep,
         CallInv, TypeOK, LookupPcs, SameEntries
    <2>4. RingInv'
      <3>1. RingUntouched
        BY <1>13, <2>0, DisjointAssumption, CapacityAssumption DEF RingUntouched,
           IInv, Sweep, TypeOK, RingInv, Full
      <3> QED BY <3>1, RingKept
    <2>5. FreshInv'
      BY <1>13, <2>0, <2>a, <2>b, NilAssumption, DisjointAssumption DEF IInv, Sweep,
         FreshInv, TypeOK, LockInv, CallInv, NoStaleEntry, RegistrarPcs, SameEntries
    <2> QED BY <2>1, <2>2, <2>3, <2>4, <2>5 DEF IInv
  <1>14. ASSUME NEW t \in Lookups, SweepEnd(t)
        PROVE  IInv'
    <2>1. TypeOK'
      BY <1>14, NilAssumption, DisjointAssumption DEF IInv, SweepEnd, TypeOK,
         LookupPcs, RegistrarPcs, PreparedQuery, CallInv
    <2>2. LockInv'
      BY <1>14, NilAssumption, DisjointAssumption DEF IInv, SweepEnd, LockInv,
         TypeOK, LookupPcs, RegistrarPcs
    <2>3. CallInv'
      BY <1>14, NilAssumption, DisjointAssumption DEF IInv, SweepEnd, CallInv,
         TypeOK, LookupPcs
    <2>4. RingInv'
      <3>1. RingUntouched
        BY <1>14, DisjointAssumption, CapacityAssumption DEF RingUntouched,
           SameEntries, IInv, SweepEnd, TypeOK, RingInv, Full
      <3> QED BY <3>1, RingKept
    <2>5. FreshInv'
      BY <1>14, NilAssumption, DisjointAssumption DEF IInv, SweepEnd, FreshInv,
         TypeOK, LockInv, CallInv, NoStaleEntry, PreparedQuery, RegistrarPcs
    <2> QED BY <2>1, <2>2, <2>3, <2>4, <2>5 DEF IInv
  <1>15. ASSUME NEW t \in Lookups, Evict(t)
        PROVE  IInv'
    <2>a. capacity \in Nat /\ capacity > 0 /\ Len(ring) = capacity /\ key[t] \in Keys
      BY <1>15, CapacityAssumption DEF Evict, IInv, TypeOK, CallInv, RingInv, Full
    <2>b. hand' \in 0..(capacity - 1)
      BY <1>15, <2>a, HandInRing DEF Evict, NextHand, IInv, TypeOK
    <2>c. hand + 1 \in 1..Len(ring) /\ UnderHand \in Keys
      BY <1>15, <2>a DEF UnderHand, IInv, TypeOK
    <2>d. /\ ring' \in Seq(Keys) /\ Len(ring') = Len(ring)
          /\ \A i \in 1..Len(ring) : ring'[i] = IF i = hand + 1 THEN key[t] ELSE ring[i]
      BY <1>15, <2>a, <2>c DEF Evict, IInv, TypeOK
    <2>e. \A i \in 1..Len(ring) : ring[i] # key[t]
      BY <1>15, DisjointAssumption DEF Evict, IInv, RingInv, Stored, Full, LockInv
    <2>1. TypeOK'
      <3>1. hand' \in Nat /\ hand' < capacity
        BY <2>a, <2>b
      <3>2. entries' \in [Keys -> PreparedQuery \cup {Nil}] /\ linked' \subseteq Lookups
        BY <1>15 DEF Evict, IInv, TypeOK
      <3>3. /\ pc' \in [Lookups \cup Registrars -> LookupPcs \cup RegistrarPcs]
            /\ \A u \in Lookups : pc'[u] \in LookupPcs
            /\ \A r \in Registrars : pc'[r] \in RegistrarPcs
        BY <1>15, DisjointAssumption DEF Evict, IInv, TypeOK, LookupPcs
      <3> QED BY <1>15, <2>d, <3>1, <3>2, <3>3 DEF IInv, Evict, TypeOK
    <2>2. LockInv'
      BY <1>15, NilAssumption, DisjointAssumption DEF IInv, Evict, UnderHand,
         NextHand, LockInv, TypeOK, LookupPcs, RegistrarPcs
    <2>3. CallInv'
      BY <1>15, NilAssumption, DisjointAssumption DEF IInv, Evict, UnderHand,
         NextHand, CallInv, TypeOK, LookupPcs
    <2>4. RingInv'
      <3>1. Distinct'
        BY <1>15, <2>a, <2>d, <2>e DEF IInv, RingInv, Distinct, Evict
      <3>2. Covered'
        BY <1>15, <2>a, <2>c, <2>d DEF IInv, TypeOK, RingInv, Covered, Evict, UnderHand
      <3>3. Stored'
        BY <1>15, <2>a, <2>c, <2>d, DisjointAssumption
           DEF IInv, TypeOK, LockInv, RingInv, Distinct, Stored, Evict, UnderHand
      <3>4. Full'
        BY <1>15, <2>a, <2>c, <2>d, DisjointAssumption
           DEF IInv, TypeOK, LockInv, CallInv, RingInv, Full, Evict
      <3> QED BY <3>1, <3>2, <3>3, <3>4 DEF RingInv
    <2>5. FreshInv'
      BY <1>15, NilAssumption, DisjointAssumption DEF IInv, Evict, UnderHand,
         NextHand, FreshInv, TypeOK, LockInv, CallInv, NoStaleEntry, PreparedQuery,
         RegistrarPcs
    <2> QED BY <2>1, <2>2, <2>3, <2>4, <2>5 DEF IInv
  <1>16. ASSUME NEW t \in Lookups, InsertStore(t)
        PROVE  IInv'
    <2>a. NewEntry(t) \in PreparedQuery /\ NewEntry(t) # Nil
      <3>1. NewEntry(t) \in PreparedQuery
        BY DEF NewEntry, PreparedQuery, IInv, TypeOK
      <3> QED BY <3>1, NilAssumption
    <2>b. key[t] \in Keys
      BY <1>16 DEF InsertStore, IInv, CallInv
    <2>1. TypeOK'
      BY <1>16, NilAssumption, DisjointAssumption DEF IInv, InsertStore, NewEntry,
         TypeOK, LookupPcs, RegistrarPcs, PreparedQuery, CallInv
    <2>2. LockInv'
      BY <1>16, NilAssumption, DisjointAssumption DEF IInv, InsertStore, NewEntry,
         LockInv, TypeOK, LookupPcs, RegistrarPcs
    <2>3. CallInv'
      BY <1>16, <2>a, <2>b DEF IInv, TypeOK, CallInv, InsertStore
    <2>4. RingInv'
      <3>1. Distinct'
        BY <1>16, NilAssumption, DisjointAssumption DEF IInv, InsertStore, NewEntry,
           RingInv, Distinct, TypeOK, CallInv
      <3>2. Covered'
        BY <1>16, <2>b DEF IInv, TypeOK, RingInv, Covered, Full, InsertStore
      <3>3. Stored'
        <4>1. mutex = t
          BY <1>16 DEF IInv, LockInv, InsertStore
        <4>2. \A i \in 1..Len(ring) :
                 ring[i] \in Keys /\ (entries[ring[i]] = Nil => ring[i] = key[t])
          BY <4>1 DEF IInv, TypeOK, RingInv, Stored
        <4>3. \A i \in 1..Len(ring) : entries'[ring[i]] # Nil
          BY <1>16, <2>a, <2>b, <4>2 DEF IInv, TypeOK, InsertStore
        <4> QED BY <1>16, <4>3 DEF Stored, InsertStore
      <3>4. Full'
        BY <1>16, NilAssumption, DisjointAssumption DEF IInv, InsertStore, NewEntry,
           RingInv, Full, TypeOK, CallInv, LockInv
      <3> QED BY <3>1, <3>2, <3>3, <3>4 DEF RingInv
    <2>5. FreshInv'
      BY <1>16, NilAssumption, DisjointAssumption DEF IInv, InsertStore, NewEntry,
         FreshInv, TypeOK, LockInv, CallInv, NoStaleEntry, PreparedQuery,
         RegistrarPcs
    <2> QED BY <2>1, <2>2, <2>3, <2>4, <2>5 DEF IInv
  <1>17. ASSUME NEW r \in Registrars, NEW names \in SUBSET Names, CloneWith(r, names)
        PROVE  IInv'
    <2>1. TypeOK'
      BY <1>17, NilAssumption, DisjointAssumption DEF IInv, CloneWith, TypeOK,
         LookupPcs, RegistrarPcs, PreparedQuery, CallInv
    <2>2. LockInv'
      BY <1>17, NilAssumption, DisjointAssumption DEF IInv, CloneWith, LockInv,
         TypeOK, LookupPcs, RegistrarPcs
    <2>3. CallInv'
      BY <1>17, NilAssumption, DisjointAssumption DEF IInv, CloneWith, CallInv,
         TypeOK, LookupPcs
    <2>4. RingInv'
      <3>1. RingUntouched
        BY <1>17, DisjointAssumption, CapacityAssumption DEF RingUntouched,
           SameEntries, IInv, CloneWith, TypeOK, RingInv, Full
      <3> QED BY <3>1, RingKept
    <2>5. FreshInv'
      BY <1>17, NilAssumption, DisjointAssumption DEF IInv, CloneWith, FreshInv,
         TypeOK, LockInv, CallInv, NoStaleEntry, PreparedQuery, RegistrarPcs
    <2> QED BY <2>1, <2>2, <2>3, <2>4, <2>5 DEF IInv
  <1>18. ASSUME NEW r \in Registrars, Swap(r)
        PROVE  IInv'
    <2>1. TypeOK'
      BY <1>18, NilAssumption, DisjointAssumption DEF IInv, Swap, TypeOK, LookupPcs,
         RegistrarPcs, PreparedQuery, CallInv
    <2>2. LockInv'
      BY <1>18, NilAssumption, DisjointAssumption DEF IInv, Swap, LockInv, TypeOK,
         LookupPcs, RegistrarPcs
    <2>3. CallInv'
      BY <1>18, NilAssumption, DisjointAssumption DEF IInv, Swap, CallInv, TypeOK,
         LookupPcs
    <2>4. RingInv'
      <3>1. RingUntouched
        BY <1>18, DisjointAssumption, CapacityAssumption DEF RingUntouched,
           SameEntries, IInv, Swap, TypeOK, RingInv, Full
      <3> QED BY <3>1, RingKept
    <2>5. FreshInv'
      BY <1>18, NilAssumption, DisjointAssumption DEF IInv, Swap, FreshInv, TypeOK,
         LockInv, CallInv, NoStaleEntry, PreparedQuery, RegistrarPcs
    <2> QED BY <2>1, <2>2, <2>3, <2>4, <2>5 DEF IInv
  <1>19. ASSUME NEW r \in Registrars, ClearBump(r)
        PROVE  IInv'
    <2>1. TypeOK'
      BY <1>19, NilAssumption, DisjointAssumption DEF IInv, ClearBump, TypeOK,
         LookupPcs, RegistrarPcs, PreparedQuery, CallInv
    <2>2. LockInv'
      BY <1>19, NilAssumption, DisjointAssumption DEF IInv, ClearBump, LockInv,
         TypeOK, LookupPcs, RegistrarPcs
    <2>3. CallInv'
      BY <1>19, NilAssumption, DisjointAssumption DEF IInv, ClearBump, CallInv,
         TypeOK, LookupPcs
    <2>4. RingInv'
      <3>1. Distinct'
        BY <1>19, NilAssumption, DisjointAssumption DEF IInv, ClearBump, RingInv,
           Distinct, TypeOK, CallInv
      <3>2. Covered'
        BY <1>19, NilAssumption, DisjointAssumption DEF IInv, ClearBump, RingInv,
           Covered, TypeOK, CallInv
      <3>3. Stored'
        BY <1>19, NilAssumption, DisjointAssumption DEF IInv, ClearBump, RingInv,
           Stored, TypeOK, CallInv, LockInv
      <3>4. Full'
        BY <1>19, NilAssumption, DisjointAssumption DEF IInv, ClearBump, RingInv,
           Full, TypeOK, CallInv, LockInv
      <3> QED BY <3>1, <3>2, <3>3, <3>4 DEF RingInv
    <2>5. FreshInv'
      BY <1>19, NilAssumption, DisjointAssumption DEF IInv, ClearBump, FreshInv,
         TypeOK, LockInv, CallInv, NoStaleEntry, PreparedQuery, RegistrarPcs
    <2> QED BY <2>1, <2>2, <2>3, <2>4, <2>5 DEF IInv
  <1>20. ASSUME NEW r \in Registrars, ClearEntries(r)
        PROVE  IInv'
    <2>1. TypeOK'
      BY <1>20, NilAssumption, DisjointAssumption DEF IInv, ClearEntries, TypeOK,
         LookupPcs, RegistrarPcs, PreparedQuery, CallInv
    <2>2. LockInv'
      BY <1>20, NilAssumption, DisjointAssumption DEF IInv, ClearEntries, LockInv,
         TypeOK, LookupPcs, RegistrarPcs
    <2>3. CallInv'
      BY <1>20, NilAssumption, DisjointAssumption DEF IInv, ClearEntries, CallInv,
         TypeOK, LookupPcs
    <2>4. RingInv'
      <3>1. Distinct'
        BY <1>20, CapacityAssumption DEF IInv, TypeOK, Distinct, ClearEntries
      <3>2. Covered'
        BY <1>20, NilAssumption, DisjointAssumption DEF IInv, ClearEntries, RingInv,
           Covered, TypeOK, CallInv
      <3>3. Stored'
        BY <1>20, NilAssumption, DisjointAssumption DEF IInv, ClearEntries, RingInv,
           Stored, TypeOK, CallInv, LockInv
      <3>4. Full'
        BY <1>20, NilAssumption, DisjointAssumption DEF IInv, ClearEntries, RingInv,
           Full, TypeOK, CallInv, LockInv
      <3> QED BY <3>1, <3>2, <3>3, <3>4 DEF RingInv
    <2>5. FreshInv'
      BY <1>20, NilAssumption, DisjointAssumption DEF IInv, ClearEntries, FreshInv,
         TypeOK, LockInv, CallInv, NoStaleEntry, PreparedQuery, RegistrarPcs
    <2> QED BY <2>1, <2>2, <2>3, <2>4, <2>5 DEF IInv
  <1>21. CASE UNCHANGED vars
    <2>1. TypeOK'
      BY <1>21 DEF IInv, TypeOK, LookupPcs, RegistrarPcs
    <2>2. LockInv'
      BY <1>21 DEF IInv, LockInv
    <2>3. CallInv'
      BY <1>21 DEF IInv, CallInv
    <2>4. RingInv'
      BY <1>21 DEF IInv, RingInv, Distinct, Covered, Stored, Full
    <2>5. FreshInv'
      BY <1>21 DEF IInv, FreshInv, NoStaleEntry
    <2> QED BY <2>1, <2>2, <2>3, <2>4, <2>5 DEF IInv
  <1> QED
    BY <1>1, <1>2, <1>3, <1>4, <1>5, <1>6, <1>7, <1>8, <1>9, <1>10, <1>11, <1>12,
       <1>13, <1>14, <1>15, <1>16, <1>17, <1>18, <1>19, <1>20, <1>21
       DEF Next, LookupStep, InsertStep, SweepStep, RegistrarStep, Register,
           Unregister, TypeOK, IInv

\* The inductive invariant holds in every state.
LEMMA Invariance == Spec => []IInv
  BY InitIInv, NextIInv, PTL DEF Spec

\* The state of the cache and of the registry keeps its type.
THEOREM TypeCorrect == Spec => []TypeOK
  <1>1. IInv => TypeOK
    BY DEF IInv
  <1> QED BY <1>1, Invariance, PTL

\* No cached statement is older than a registration that has returned.
THEOREM EntriesFresh == Spec => []NoStaleEntry
  <1>1. IInv => NoStaleEntry
    BY DEF IInv, FreshInv
  <1> QED BY <1>1, Invariance, PTL

\* What lookup returns is no older than the registrations before the call.
THEOREM ResultsFresh == Spec => []FreshResult
  <1>1. IInv => FreshResult
    BY DEF IInv, FreshInv, FreshResult
  <1> QED BY <1>1, Invariance, PTL

\* With the mutex free, the ring and the map hold the same statements.
THEOREM RingMatches == Spec => []RingMatchesEntries
  <1>1. ASSUME IInv, mutex = Nil
        PROVE  {ring[i] : i \in 1..Len(ring)} = {k \in Keys : entries[k] # Nil}
    <2>1. \A i \in 1..Len(ring) : ring[i] \in Keys /\ entries[ring[i]] # Nil
      BY <1>1, NilAssumption DEF IInv, TypeOK, RingInv, Stored
    <2>2. \A k \in Keys : entries[k] # Nil => \E i \in 1..Len(ring) : ring[i] = k
      BY <1>1 DEF IInv, RingInv, Covered
    <2> QED BY <2>1, <2>2
  <1>2. IInv => RingMatchesEntries
    BY <1>1 DEF IInv, TypeOK, RingInv, Distinct, RingMatchesEntries
  <1> QED BY <1>2, Invariance, PTL

-----------------------------------------------------------------------------
\* A clone that waits to be published differs from the published registry in
\* one name, and its owner holds virtualFuncsMutex.
CloneInv ==
    \A r \in Registrars : pc[r] = "swap" =>
        /\ vfMutex = r
        /\ \E n \in Names : clone[r] \in {virtualFuncs.names \cup {n}, virtualFuncs.names \ {n}}

\* No lookup touches the registry or a registration.
LEMMA LookupsLeaveRegistry ==
    ASSUME TypeOK, NEW t \in Lookups,
           \/ \E k \in Keys : LookupCall(t, k)
           \/ LookupReturn(t) \/ LookupStep(t) \/ InsertStep(t) \/ SweepStep(t)
    PROVE  UNCHANGED regVars /\ \A r \in Registrars : pc'[r] = pc[r]
  <1> USE DisjointAssumption DEF TypeOK, Goto, regVars
  <1>1. CASE \E k \in Keys : LookupCall(t, k)
    BY <1>1 DEF LookupCall
  <1>2. CASE LookupReturn(t)
    BY <1>2 DEF LookupReturn
  <1>3. CASE LookupStep(t)
    BY <1>3 DEF LookupStep, LookupHit, LookupMark, LookupMiss, LookupGeneration,
       LookupCompute, LookupUncached
  <1>4. CASE InsertStep(t)
    BY <1>4 DEF InsertStep, InsertOutdated, InsertExisting, InsertAppend, InsertFull
  <1>5. CASE SweepStep(t)
    BY <1>5 DEF SweepStep, Sweep, SweepEnd, Evict, InsertStore
  <1> QED BY <1>1, <1>2, <1>3, <1>4, <1>5

\* The mutex of the registry keeps every other registration from cloning, and
\* from publishing, until the clone is published.
LEMMA NextClone == TypeOK /\ CloneInv /\ [Next]_vars => CloneInv'
  <1> SUFFICES ASSUME TypeOK, CloneInv, [Next]_vars PROVE CloneInv'
    OBVIOUS
  <1>1. ASSUME NEW t \in Lookups,
               \/ \E k \in Keys : LookupCall(t, k)
               \/ LookupReturn(t) \/ LookupStep(t) \/ InsertStep(t) \/ SweepStep(t)
        PROVE  CloneInv'
    BY <1>1, LookupsLeaveRegistry DEF CloneInv, regVars
  <1>2. ASSUME NEW r \in Registrars, NEW n \in Names, Register(r, n) \/ Unregister(r, n)
        PROVE  CloneInv'
    <2>1. /\ vfMutex = Nil /\ vfMutex' = r /\ UNCHANGED virtualFuncs
          /\ clone'[r] \in {virtualFuncs.names \cup {n}, virtualFuncs.names \ {n}}
          /\ \A q \in Registrars : pc'[q] = "swap" => q = r \/ pc[q] = "swap"
      BY <1>2, DisjointAssumption DEF Register, Unregister, CloneWith, Goto, TypeOK
    <2>2. \A q \in Registrars : pc[q] # "swap"
      BY <2>1, NilAssumption DEF CloneInv
    <2> QED BY <2>1, <2>2 DEF CloneInv
  <1>3. ASSUME NEW r \in Registrars, RegistrarStep(r)
        PROVE  CloneInv'
    <2>1. CASE Swap(r)
      <3>1. \A q \in Registrars : pc[q] = "swap" => q = r
        BY <2>1 DEF Swap, CloneInv
      <3>2. \A q \in Registrars : pc'[q] # "swap"
        BY <2>1, <3>1, DisjointAssumption DEF Swap, Goto, TypeOK
      <3> QED BY <3>2 DEF CloneInv
    <2>2. CASE ClearBump(r)
      BY <2>2, DisjointAssumption DEF ClearBump, Goto, CloneInv, TypeOK, regVars
    <2>3. CASE ClearEntries(r)
      BY <2>3, DisjointAssumption DEF ClearEntries, Goto, CloneInv, TypeOK
    <2> QED BY <1>3, <2>1, <2>2, <2>3 DEF RegistrarStep
  <1>4. CASE UNCHANGED vars
    BY <1>4 DEF CloneInv, vars
  <1> QED BY <1>1, <1>2, <1>3, <1>4 DEF Next

\* A publication adds or removes one name and loses no other: two registrations
\* that overlap never publish from the same clone.
THEOREM RegistrationsKept == Spec => NoLostRegistration
  <1> DEFINE A == Cardinality((virtualFuncs.names \ virtualFuncs'.names)
                              \cup (virtualFuncs'.names \ virtualFuncs.names)) <= 1
  <1>1. Init => CloneInv
    BY DisjointAssumption DEF Init, CloneInv
  <1>2. TypeOK /\ CloneInv /\ [Next]_vars => [A]_virtualFuncs
    <2> SUFFICES ASSUME TypeOK, CloneInv, [Next]_vars, virtualFuncs' # virtualFuncs PROVE A
      OBVIOUS
    <2>1. PICK r \in Registrars : Swap(r)
      <3>1. ASSUME NEW t \in Lookups,
                   \/ \E k \in Keys : LookupCall(t, k)
                   \/ LookupReturn(t) \/ LookupStep(t) \/ InsertStep(t) \/ SweepStep(t)
            PROVE  FALSE
        BY <3>1, LookupsLeaveRegistry DEF regVars
      <3> QED BY <3>1 DEF Next, Register, Unregister, CloneWith, RegistrarStep, ClearBump,
                 ClearEntries, vars, regVars
    <2>2. PICK n \in Names : clone[r] \in {virtualFuncs.names \cup {n}, virtualFuncs.names \ {n}}
      BY <2>1 DEF CloneInv, Swap
    <2> DEFINE D == (virtualFuncs.names \ virtualFuncs'.names)
                    \cup (virtualFuncs'.names \ virtualFuncs.names)
    <2>3. D \in SUBSET {n}
      BY <2>1, <2>2 DEF Swap
    <2> HIDE DEF D
    <2>4. IsFiniteSet({n}) /\ Cardinality({n}) = 1
      BY FS_Singleton
    <2>5. Cardinality(D) <= 1
      BY <2>3, <2>4, FS_Subset
    <2> QED BY <2>5 DEF D
  <1> QED BY <1>1, <1>2, NextClone, TypeCorrect, PTL DEF Spec, NoLostRegistration

-----------------------------------------------------------------------------
(* The cache implements the registry without one *)

\* No statement was expanded with a registry that is not yet published.
BoundInv ==
    /\ \A k \in Keys : entries[k] # Nil => entries[k].version <= virtualFuncs.version
    /\ \A t \in Lookups : pq[t] <= virtualFuncs.version

\* What a step of the lookup t does to it, and to the abstract state.
StaysCalled(t) ==
    /\ pc[t] # "idle" /\ ~Answered(t) /\ pc'[t] # "idle" /\ ~Answered(t)'
    /\ UNCHANGED since
StaysAnswered(t) == Answered(t) /\ Answered(t)' /\ UNCHANGED <<pq, since>>
GetsAnswer(t) ==
    /\ pc[t] # "idle" /\ ~Answered(t) /\ Answered(t)'
    /\ pq'[t] >= since[t] /\ UNCHANGED since
GetsCalled(t) ==
    /\ pc[t] = "idle" /\ pc'[t] # "idle" /\ ~Answered(t)'
    /\ since' = [since EXCEPT ![t] = settled]
GoesIdle(t) ==
    /\ Answered(t) /\ pc'[t] = "idle"
    /\ since' = [since EXCEPT ![t] = 0]

LookupMaps(t) ==
    /\ UNCHANGED <<virtualFuncs, settled>>
    /\ \A u \in Lookups \ {t} : pc'[u] = pc[u] /\ pq'[u] = pq[u]
    /\ \/ StaysCalled(t) \/ StaysAnswered(t) \/ GetsAnswer(t)
       \/ GetsCalled(t) \/ GoesIdle(t)

\* A lookup answers with an entry or with what it computed itself.
LEMMA LookupStepMaps ==
    ASSUME IInv, NEW t \in Lookups,
           \/ \E k \in Keys : LookupCall(t, k)
           \/ LookupReturn(t) \/ LookupStep(t) \/ InsertStep(t) \/ SweepStep(t)
    PROVE  LookupMaps(t)
  <1> USE DisjointAssumption DEF LookupMaps, StaysCalled, StaysAnswered, GetsAnswer, GetsCalled,
          GoesIdle, Answered, Goto, regVars, callVars, lookupVars
  <1>0. TypeOK /\ (\A k \in Keys : entries[k] # Nil => entries[k].version >= settled)
        /\ (\A u \in Lookups : since[u] <= settled)
    BY DEF IInv, FreshInv, NoStaleEntry
  <1>1. CASE \E k \in Keys : LookupCall(t, k)
    BY <1>0, <1>1 DEF LookupCall, TypeOK
  <1>2. CASE LookupReturn(t)
    BY <1>0, <1>2 DEF LookupReturn, TypeOK
  <1>3. CASE LookupHit(t)
    <2>1. key[t] \in Keys /\ entries[key[t]] \in PreparedQuery
      BY <1>0, <1>3 DEF LookupHit, IInv, CallInv, TypeOK
    <2>2. entries[key[t]].version \in Nat /\ entries[key[t]].version >= since[t]
      BY <1>0, <1>3, <2>1 DEF LookupHit, TypeOK, PreparedQuery
    <2> QED BY <1>0, <1>3, <2>2 DEF LookupHit, TypeOK
  <1>4. CASE LookupMark(t) \/ LookupMiss(t) \/ LookupGeneration(t)
    BY <1>0, <1>4 DEF LookupMark, LookupMiss, LookupGeneration, TypeOK
  <1>5. CASE LookupCompute(t)
    BY <1>0, <1>5 DEF LookupCompute, NewPreparedQuery, TypeOK
  <1>6. CASE LookupUncached(t)
    <2>1. virtualFuncs.version >= since[t]
      BY <1>0 DEF IInv, FreshInv, TypeOK
    <2> QED BY <1>0, <1>6, <2>1 DEF LookupUncached, NewPreparedQuery, TypeOK
  <1>7. CASE InsertOutdated(t) \/ InsertAppend(t) \/ InsertStore(t)
    <2>1. pq[t] >= since[t]
      BY <1>7 DEF IInv, FreshInv, InsertOutdated, InsertAppend, MayInsert, InsertStore, Locked
    <2> QED BY <1>0, <1>7, <2>1 DEF InsertOutdated, InsertAppend, MayInsert, InsertStore, TypeOK
  <1>8. CASE InsertExisting(t)
    <2>1. key[t] \in Keys /\ entries[key[t]] \in PreparedQuery
      BY <1>0, <1>8 DEF InsertExisting, MayInsert, IInv, CallInv, TypeOK
    <2>2. entries[key[t]].version \in Nat /\ entries[key[t]].version >= since[t]
      BY <1>0, <1>8, <2>1 DEF InsertExisting, TypeOK, PreparedQuery
    <2> QED BY <1>0, <1>8, <2>2 DEF InsertExisting, MayInsert, TypeOK
  <1>9. CASE InsertFull(t) \/ Sweep(t) \/ SweepEnd(t) \/ Evict(t)
    BY <1>0, <1>9 DEF InsertFull, MayInsert, Sweep, SweepEnd, Evict, TypeOK
  <1> QED BY <1>1, <1>2, <1>3, <1>4, <1>5, <1>6, <1>7, <1>8, <1>9
             DEF LookupStep, InsertStep, SweepStep

\* Such a step is a step of the registry without a cache, or none.
LEMMA LookupRefines ==
    ASSUME TypeOK, TypeOK', BoundInv', NEW t \in Lookups, LookupMaps(t)
    PROVE  [Abstract!Next]_(Abstract!vars)
  <1>1. /\ Status \in [Lookups -> {"idle", "called", "answered"}]
        /\ \A u \in Lookups \ {t} : Status'[u] = Status[u] /\ Answers'[u] = Answers[u]
    BY DEF Status, Answers, LookupMaps, Answered
  <1>2. CASE StaysCalled(t) \/ StaysAnswered(t)
    <2>1. Status'[t] = Status[t] /\ Answers'[t] = Answers[t]
      BY <1>2 DEF Status, Answers, StaysCalled, StaysAnswered, Answered
    <2>2. Status' = Status /\ Answers' = Answers
      <3>1. \A u \in Lookups : Status'[u] = Status[u] /\ Answers'[u] = Answers[u]
        BY <1>1, <2>1
      <3> QED BY <3>1 DEF Status, Answers
    <2> QED BY <1>2, <2>2 DEF LookupMaps, StaysCalled, StaysAnswered, Abstract!vars
  <1>3. CASE GetsAnswer(t)
    <2>1. Status[t] = "called" /\ Status'[t] = "answered" /\ Answers'[t] = pq'[t]
      BY <1>3 DEF Status, Answers, GetsAnswer, Answered
    <2>2. Status' = [Status EXCEPT ![t] = "answered"]
      BY <1>1, <2>1 DEF Status
    <2>3. Answers' = [Answers EXCEPT ![t] = pq'[t]]
      BY <1>1, <2>1 DEF Answers
    <2>4. pq'[t] \in since[t]..virtualFuncs.version
      BY <1>3 DEF GetsAnswer, BoundInv, LookupMaps, TypeOK
    <2>5. Abstract!Answer(t)
      BY <1>3, <2>1, <2>2, <2>3, <2>4 DEF GetsAnswer, LookupMaps, Abstract!Answer
    <2> QED BY <2>5 DEF Abstract!Next
  <1>4. CASE GetsCalled(t)
    <2>1. Status[t] = "idle" /\ Status'[t] = "called" /\ Answers'[t] = Answers[t]
      BY <1>4 DEF Status, Answers, GetsCalled, Answered
    <2>2. Status' = [Status EXCEPT ![t] = "called"] /\ Answers' = Answers
      BY <1>1, <2>1 DEF Status, Answers
    <2>3. Abstract!Call(t)
      BY <1>4, <2>1, <2>2 DEF GetsCalled, LookupMaps, Abstract!Call
    <2> QED BY <2>3 DEF Abstract!Next
  <1>5. CASE GoesIdle(t)
    <2>1. Status[t] = "answered" /\ Status'[t] = "idle" /\ Answers'[t] = 0
      BY <1>5 DEF Status, Answers, GoesIdle, Answered
    <2>2. Status' = [Status EXCEPT ![t] = "idle"]
      BY <1>1, <2>1 DEF Status
    <2>3. Answers' = [Answers EXCEPT ![t] = 0]
      BY <1>1, <2>1 DEF Answers
    <2>4. Abstract!Return(t)
      BY <1>5, <2>1, <2>2, <2>3 DEF GoesIdle, LookupMaps, Abstract!Return
    <2> QED BY <2>4 DEF Abstract!Next
  <1> QED BY <1>2, <1>3, <1>4, <1>5 DEF LookupMaps

\* An entry keeps its version, and a new one has that of the lookup that made it.
EntriesFrom ==
    \A k \in Keys : entries'[k] # Nil =>
        \/ entries[k] # Nil /\ entries'[k].version = entries[k].version
        \/ \E t \in Lookups : entries'[k].version = pq[t]

\* A lookup's own version comes from an entry or from the registry.
VersionsFrom ==
    \A t \in Lookups : \/ pq'[t] = pq[t] \/ pq'[t] = 0 \/ pq'[t] = virtualFuncs.version
                        \/ \E k \in Keys : entries[k] # Nil /\ pq'[t] = entries[k].version

\* Versions are only handed on, between the registry, lookups and the map.
LEMMA VersionsHandedOn ==
    ASSUME IInv, NEW t \in Lookups,
           \/ \E k \in Keys : LookupCall(t, k)
           \/ LookupReturn(t) \/ LookupStep(t) \/ InsertStep(t) \/ SweepStep(t)
    PROVE  EntriesFrom /\ VersionsFrom
  <1> USE DEF Goto, callVars, lookupVars
  <1>0. TypeOK /\ (pc[t] # "idle" => key[t] \in Keys)
    BY DEF IInv, CallInv
  <1>1. VersionsFrom
    <2>1. CASE (\E k \in Keys : LookupCall(t, k)) \/ LookupReturn(t)
      BY <1>0, <2>1 DEF LookupCall, LookupReturn, VersionsFrom, TypeOK
    <2>2. CASE LookupStep(t)
      BY <1>0, <2>2 DEF LookupStep, LookupHit, LookupMark, LookupMiss, LookupGeneration, LookupCompute,
         LookupUncached, NewPreparedQuery, VersionsFrom, TypeOK
    <2>3. CASE InsertStep(t)
      BY <1>0, <2>3 DEF InsertStep, InsertOutdated, InsertExisting, InsertAppend, InsertFull, MayInsert,
         VersionsFrom, TypeOK
    <2>4. CASE SweepStep(t)
      BY <2>4 DEF SweepStep, Sweep, SweepEnd, Evict, InsertStore, VersionsFrom
    <2> QED BY <2>1, <2>2, <2>3, <2>4
  <1>2. EntriesFrom
    <2>1. CASE \/ \E k \in Keys : LookupCall(t, k)
               \/ LookupReturn(t) \/ LookupHit(t) \/ LookupMiss(t) \/ LookupGeneration(t)
               \/ LookupCompute(t) \/ LookupUncached(t)
               \/ InsertOutdated(t) \/ InsertExisting(t) \/ InsertFull(t) \/ SweepEnd(t)
      <3>1. entries' = entries
        BY <2>1 DEF LookupCall, LookupReturn, LookupHit, LookupMiss, LookupGeneration, LookupCompute,
           LookupUncached, InsertOutdated, InsertExisting, InsertFull, SweepEnd
      <3> QED BY <3>1 DEF EntriesFrom
    <2>2. CASE LookupMark(t)
      <3>1. CASE t \in linked
        <4>1. SameEntries(entries')
          BY <2>2, <3>1, SetReferenced DEF LookupMark, IInv, TypeOK, CallInv
        <4> QED BY <4>1 DEF SameEntries, EntriesFrom
      <3>2. CASE t \notin linked
        BY <2>2, <3>2 DEF LookupMark, EntriesFrom
      <3> QED BY <3>1, <3>2
    <2>3. CASE InsertAppend(t) \/ InsertStore(t)
      <3>1. entries' = [entries EXCEPT ![key[t]] = NewEntry(t)] /\ NewEntry(t).version = pq[t]
        BY <2>3 DEF InsertAppend, InsertStore, NewEntry
      <3> QED BY <1>0, <3>1 DEF EntriesFrom, TypeOK
    <2>4. CASE Sweep(t)
      <3>1. capacity \in Nat /\ capacity > 0 /\ Len(ring) = capacity
        BY <2>4, CapacityAssumption DEF Sweep, IInv, TypeOK, RingInv, Full, Locked
      <3>2. UnderHand \in Keys /\ entries[UnderHand] # Nil
        BY <2>4, <3>1, NilAssumption, DisjointAssumption
           DEF Sweep, UnderHand, IInv, TypeOK, RingInv, Stored, LockInv, Locked
      <3>3. SameEntries(entries')
        BY <2>4, <3>2, SetReferenced DEF Sweep, IInv, TypeOK
      <3> QED BY <3>3 DEF SameEntries, EntriesFrom
    <2>5. CASE Evict(t)
      BY <1>0, <2>5 DEF Evict, EntriesFrom, TypeOK
    <2> QED BY <2>1, <2>2, <2>3, <2>4, <2>5 DEF LookupStep, InsertStep, SweepStep
  <1> QED BY <1>1, <1>2

\* So every step keeps them within the published ones.
LEMMA NextBound == IInv /\ BoundInv /\ [Next]_vars => BoundInv'
  <1> SUFFICES ASSUME IInv, BoundInv, [Next]_vars PROVE BoundInv'
    OBVIOUS
  <1>0. TypeOK /\ (\A k \in Keys : entries[k] # Nil => entries[k].version \in Nat)
    BY DEF IInv, TypeOK, PreparedQuery
  <1>1. ASSUME NEW t \in Lookups,
               \/ \E k \in Keys : LookupCall(t, k)
               \/ LookupReturn(t) \/ LookupStep(t) \/ InsertStep(t) \/ SweepStep(t)
        PROVE  BoundInv'
    <2>1. EntriesFrom /\ VersionsFrom /\ UNCHANGED virtualFuncs
      BY <1>0, <1>1, VersionsHandedOn, LookupsLeaveRegistry DEF regVars
    <2>2. virtualFuncs.version \in Nat
      BY <1>0 DEF TypeOK
    <2> QED BY <1>0, <2>1, <2>2 DEF BoundInv, EntriesFrom, VersionsFrom
  <1>2. ASSUME NEW r \in Registrars,
               \/ \E n \in Names : Register(r, n) \/ Unregister(r, n)
               \/ RegistrarStep(r)
        PROVE  BoundInv'
    <2>1. /\ UNCHANGED pq
          /\ UNCHANGED entries \/ entries' = [k \in Keys |-> Nil]
          /\ virtualFuncs'.version \in {virtualFuncs.version, virtualFuncs.version + 1}
      BY <1>2 DEF Register, Unregister, CloneWith, RegistrarStep, Swap, ClearBump, ClearEntries,
         cacheVars, lookupVars, regVars
    <2> QED BY <1>0, <2>1 DEF BoundInv, TypeOK
  <1>3. CASE UNCHANGED vars
    BY <1>3 DEF BoundInv, vars
  <1> QED BY <1>1, <1>2, <1>3 DEF Next

\* A registration publishes, or returns, or does nothing that can be seen.
LEMMA RegistrarRefines ==
    ASSUME IInv, CloneInv, NEW r \in Registrars,
           \/ \E n \in Names : Register(r, n) \/ Unregister(r, n)
           \/ RegistrarStep(r)
    PROVE  [Abstract!Next]_(Abstract!vars)
  <1>0. TypeOK
    BY DEF IInv
  <1>1. Status' = Status /\ Answers' = Answers /\ since' = since
    <2>1. /\ UNCHANGED <<pq, since>>
          /\ \A t \in Lookups : pc'[t] = pc[t]
      BY <1>0, DisjointAssumption DEF Register, Unregister, CloneWith, RegistrarStep, Swap, ClearBump,
         ClearEntries, Goto, cacheVars, callVars, lookupVars, regVars, TypeOK
    <2> QED BY <2>1 DEF Status, Answers, Answered
  <1>2. CASE Swap(r)
    <2>1. PICK n \in Names : clone[r] \in {virtualFuncs.names \cup {n}, virtualFuncs.names \ {n}}
      BY <1>2 DEF CloneInv, Swap
    <2>2. Abstract!Publish
      BY <1>1, <1>2, <2>1 DEF Swap, Abstract!Publish
    <2> QED BY <2>2 DEF Abstract!Next
  <1>3. CASE ClearEntries(r)
    <2>1. settled \in Nat /\ mine[r] \in Nat /\ virtualFuncs.version \in Nat
          /\ settled <= virtualFuncs.version /\ mine[r] <= virtualFuncs.version
      BY <1>0 DEF IInv, FreshInv, TypeOK
    <2>2. settled' \in settled..virtualFuncs.version /\ UNCHANGED virtualFuncs
      BY <1>3, <2>1 DEF ClearEntries
    <2>3. Abstract!Settle
      BY <1>1, <2>2 DEF Abstract!Settle
    <2> QED BY <2>3 DEF Abstract!Next
  <1>4. CASE ClearBump(r) \/ \E n \in Names : Register(r, n) \/ Unregister(r, n)
    <2>1. UNCHANGED <<virtualFuncs, settled>>
      BY <1>4 DEF ClearBump, Register, Unregister, CloneWith, regVars
    <2> QED BY <1>1, <2>1 DEF Abstract!vars
  <1> QED BY <1>2, <1>3, <1>4 DEF RegistrarStep

\* The cache implements the registry without one: for every number of goroutines,
\* statements and names and every capacity, each lookup answers at one instant,
\* with a registry that is published by then and no older than those that had
\* returned when it was called, and registrations are published one by one.
THEOREM CacheIsTransparent == Spec => ImplementsRegistry
  <1>1. Init => Abstract!Init /\ CloneInv /\ BoundInv
    BY DisjointAssumption DEF Init, CloneInv, BoundInv, Abstract!Init, Status, Answers, Answered
  <1>2. IInv /\ IInv' /\ CloneInv /\ BoundInv' /\ [Next]_vars => [Abstract!Next]_(Abstract!vars)
    <2> SUFFICES ASSUME IInv, IInv', CloneInv, BoundInv', [Next]_vars
                 PROVE  [Abstract!Next]_(Abstract!vars)
      OBVIOUS
    <2>1. ASSUME NEW t \in Lookups,
                 \/ \E k \in Keys : LookupCall(t, k)
                 \/ LookupReturn(t) \/ LookupStep(t) \/ InsertStep(t) \/ SweepStep(t)
          PROVE  [Abstract!Next]_(Abstract!vars)
      <3>1. TypeOK /\ TypeOK'
        BY DEF IInv
      <3>2. LookupMaps(t)
        BY <2>1, LookupStepMaps
      <3> QED BY <3>1, <3>2, LookupRefines
    <2>2. ASSUME NEW r \in Registrars,
                 \/ \E n \in Names : Register(r, n) \/ Unregister(r, n)
                 \/ RegistrarStep(r)
          PROVE  [Abstract!Next]_(Abstract!vars)
      BY <2>2, RegistrarRefines
    <2>3. CASE UNCHANGED vars
      BY <2>3 DEF vars, Abstract!vars, Status, Answers, Answered
    <2> QED BY <2>1, <2>2, <2>3 DEF Next
  <1>3. IInv => TypeOK
    BY DEF IInv
  <1>4. Spec => Abstract!Init /\ [][Abstract!Next]_(Abstract!vars)
    BY <1>1, <1>2, <1>3, Invariance, NextClone, NextBound, PTL DEF Spec
  <1> QED BY <1>4 DEF ImplementsRegistry, Abstract!Spec
=============================================================================
