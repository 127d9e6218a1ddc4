------------------------ MODULE TestingDatabaseProofs -----------------------
(***************************************************************************)
(* Proofs about TestingDatabase for every number of goroutines and calls.  *)
(* MuxInv and SingleInv say who is inside the two critical sections that   *)
(* span several steps; CountInv relates the two reference counts to the    *)
(* handles there are; LifeInv ties the life of the database to them.       *)
(***************************************************************************)
EXTENDS TestingDatabase, FiniteSetTheorems, TLAPS

\* Who provisions holds the test's mutex, and found no database.
MuxInv ==
    \A u \in Users :
        /\ pc[u] \in {"recheck", "drop", "create", "cache"} <=> mux = u
        /\ pc[u] \in {"drop", "create", "cache"} => ~cached
        /\ pc[u] \in {"drop", "create", "dropLast"} => engine = "server"

\* The handles of Open, up to the end of their Close.
Owning == {u \in Users : Holding(u) /\ ~shared[u]}

\* The last close of the shared *DB holds its mutex, and nobody has it.
SingleInv ==
    /\ \A u \in Users : pc[u] \in {"release", "dropLast"} /\ shared[u] <=> single.mutex = u
    /\ single.mutex # Nil => Sharing = {}

\* The counts are those of the handles.
CountInv ==
    /\ IsFiniteSet(Owning) /\ IsFiniteSet(Sharing)
    /\ PoolFollowsOpeners
    /\ RefsCountHandles

\* A SQLite database lasts from the first handle to the last, and a server's,
\* once its last handle is closed, is dropped or on its way there.
Dropping == \E u \in Users : pc[u] = "dropLast"
Caching == \E u \in Users : pc[u] = "cache"

PinnedInv ==
    engine = "sqlite" =>
        IF refs = 0 THEN ~anchor /\ ~db.exists ELSE anchor /\ db.exists /\ db.id \notin closed

DroppedInv ==
    engine = "server" =>
        /\ ~anchor
        /\ db.exists /\ db.id \in closed => failed \/ Dropping
        /\ ~cached /\ ~Caching => db.id = 0 \/ db.id \in closed

LifeInv == (\A c \in closed : c <= db.id) /\ PinnedInv /\ DroppedInv

IInv == TypeOK /\ MuxInv /\ SingleInv /\ CountInv /\ LifeInv

-----------------------------------------------------------------------------
\* adjustConnectionLimits rounds the square root up: CeilSqrt is the least number
\* whose square is no less, and there is one.
LEMMA CeilSqrtRounds ==
    ASSUME NEW n \in Nat
    PROVE  /\ CeilSqrt(n) \in 0..n
           /\ CeilSqrt(n) * CeilSqrt(n) >= n
           /\ CeilSqrt(n) = 0 \/ (CeilSqrt(n) - 1) * (CeilSqrt(n) - 1) < n
  <1> DEFINE Big == {k \in 0..n : k * k >= n}
             R == OpToRel(<, Nat)
  <1>1. Big \subseteq Nat /\ Big # {}
    <2>1. n * n >= n
      <3>1. CASE n = 0
        BY <3>1
      <3>2. CASE n >= 1
        BY <3>2
      <3> QED BY <3>1, <3>2
    <2> QED BY <2>1
  <1>2. PICK m \in Big : \A k \in Big : ~(<<k, m>> \in R)
    <2> HIDE DEF Big, R
    <2>1. IsWellFoundedOn(R, Nat)
      BY NatLessThanWellFounded DEF R
    <2> QED BY <1>1, <2>1, WFMin
  <1>3. \A k \in Big : ~(k < m)
    <2> SUFFICES ASSUME NEW k \in Big, k < m PROVE FALSE
      OBVIOUS
    <2>1. k \in Nat /\ m \in Nat
      BY <1>1
    <2>2. <<k, m>> \in R
      BY <2>1 DEF OpToRel
    <2> QED BY <1>2, <2>2
  <1>4. m = 0 \/ (m - 1) * (m - 1) < n
    <2> SUFFICES ASSUME m # 0 PROVE (m - 1) * (m - 1) < n
      OBVIOUS
    <2>1. m \in Nat /\ m - 1 \in 0..n /\ m - 1 < m
      OBVIOUS
    <2>2. m - 1 \notin Big
      BY <1>3, <2>1
    <2>3. ~((m - 1) * (m - 1) >= n)
      BY <2>1, <2>2
    <2> QED BY <2>1, <2>3
  <1>5. \E k \in 0..n : k * k >= n /\ (k = 0 \/ (k - 1) * (k - 1) < n)
    BY <1>4
  <1> QED BY <1>5 DEF CeilSqrt

\* adjustConnectionLimits sets the limits and leaves the rest alone.
LEMMA AdjustKeeps ==
    ASSUME NEW s \in Singles
    PROVE  LET a == adjustConnectionLimits(s)
           IN  /\ a \in Singles
               /\ a.mutex = s.mutex /\ a.open = s.open /\ a.refCount = s.refCount
               /\ a.maxIdle = CeilSqrt(s.refCount)
  <1>1. s.refCount \in Nat
    BY DEF Singles
  <1>2. CeilSqrt(s.refCount) \in Nat
    BY <1>1, CeilSqrtRounds
  <1>3. 2 * CeilSqrt(s.refCount) + 2 \in Nat
    BY <1>2
  <1> QED BY <1>2, <1>3 DEF adjustConnectionLimits, Singles

\* What becomes of the shared *DB when it is opened once more, or by the first.
LEMMA OpenedKeeps ==
    ASSUME single \in Singles, NEW u \in Users, OpenSingleton(u)
    PROVE  /\ single' \in Singles
           /\ single'.mutex = Nil /\ single'.open /\ single'.refCount = single.refCount + 1
           /\ single'.maxIdle = CeilSqrt(single'.refCount)
  <1> DEFINE s == [single EXCEPT !.open = TRUE, !.refCount = @ + 1]
  <1> DEFINE o == [single EXCEPT !.open = TRUE]
  <1>1. o \in Singles /\ o.refCount = single.refCount
    BY DEF Singles
  <1>2. s = [o EXCEPT !.refCount = o.refCount + 1]
    BY <1>1 DEF Singles
  <1>3. s \in Singles
    <2> HIDE DEF o, s
    <2> QED BY <1>1, <1>2 DEF Singles
  <1>4. s.mutex = single.mutex /\ s.open /\ s.refCount = single.refCount + 1
    BY DEF Singles
  <1>5. single' = adjustConnectionLimits(s) /\ single.mutex = Nil
    BY DEF OpenSingleton
  <1> HIDE DEF s
  <1> QED BY <1>3, <1>4, <1>5, AdjustKeeps

\* What becomes of it when it is closed, by the last or by another.
LEMMA ClosedKeeps ==
    ASSUME single \in Singles, NEW u \in Users, CloseShared(u)
    PROVE  /\ single' \in Singles
           /\ single.refCount > 1 =>
                 /\ single'.mutex = Nil /\ single'.open = single.open
                 /\ single'.refCount = single.refCount - 1
                 /\ single'.maxIdle = CeilSqrt(single'.refCount)
           /\ ~(single.refCount > 1) =>
                 single'.mutex = u /\ ~single'.open /\ single'.refCount = 0
  <1>1. CASE single.refCount > 1
    <2> DEFINE s == [single EXCEPT !.refCount = @ - 1]
    <2>1. s \in Singles /\ s.mutex = single.mutex /\ s.open = single.open
          /\ s.refCount = single.refCount - 1
      BY <1>1 DEF Singles
    <2>2. single' = adjustConnectionLimits(s) /\ single.mutex = Nil
      BY <1>1 DEF CloseShared
    <2> HIDE DEF s
    <2> QED BY <1>1, <2>1, <2>2, AdjustKeeps
  <1>2. CASE ~(single.refCount > 1)
    <2> DEFINE z == [single EXCEPT !.refCount = 0]
               c == [z EXCEPT !.open = FALSE]
    <2>1. z \in Singles
      BY DEF Singles
    <2>2. c \in Singles
      <3> HIDE DEF z
      <3> QED BY <2>1 DEF Singles
    <2>3. single' = [c EXCEPT !.mutex = u]
      BY <1>2 DEF CloseShared
    <2>4. single' \in Singles
      <3> HIDE DEF c
      <3> QED BY <2>2, <2>3 DEF Singles
    <2>5. single'.mutex = u /\ ~single'.open /\ single'.refCount = 0
      BY <1>2 DEF CloseShared, Singles
    <2> QED BY <1>2, <2>4, <2>5
  <1> QED BY <1>1, <1>2

\* Unlocking changes the mutex alone, and only when it is held.
LEMMA UnlockedKeeps ==
    ASSUME single \in Singles, NEW u \in Users
    PROVE  /\ Unlocked(u) \in Singles
           /\ Unlocked(u).mutex = IF single.mutex = u THEN Nil ELSE single.mutex
           /\ Unlocked(u).open = single.open /\ Unlocked(u).refCount = single.refCount
           /\ Unlocked(u).maxIdle = single.maxIdle
  BY DEF Unlocked, Singles

\* A database that is made or dropped.
LEMMA DBTypes ==
    ASSUME db \in [exists : BOOLEAN, id : Nat]
    PROVE  /\ Fresh \in [exists : BOOLEAN, id : Nat] /\ Fresh.exists /\ Fresh.id = db.id + 1
           /\ Gone \in [exists : BOOLEAN, id : Nat] /\ ~Gone.exists /\ Gone.id = db.id
           /\ db.id \in Nat
  <1>1. db.id \in Nat /\ Fresh \in [exists : BOOLEAN, id : Nat] /\ Fresh.id = db.id + 1
    BY DEF Fresh
  <1>2. Fresh.exists
    BY DEF Fresh
  <1>3. Gone \in [exists : BOOLEAN, id : Nat] /\ Gone.id = db.id
    BY DEF Gone
  <1>4. ~Gone.exists
    BY DEF Gone
  <1> QED BY <1>1, <1>2, <1>3, <1>4

\* Every step keeps the types.
LEMMA NextType == IInv /\ [Next]_vars => TypeOK'
  <1> SUFFICES ASSUME IInv, [Next]_vars PROVE TypeOK'
    OBVIOUS
  <1>a. /\ CallsOK /\ db \in [exists : BOOLEAN, id : Nat] /\ single \in Singles
        /\ cached \in BOOLEAN /\ anchor \in BOOLEAN /\ failed \in BOOLEAN
    BY DEF IInv, TypeOK
  <1> USE DEF Goto, state_vars, vars, Labels
  <1>1. ASSUME NEW u \in Users, Create(u) PROVE TypeOK'
    <2>1. CallsOK'
      BY <1>1, <1>a, CallsAssumption DEF Create, CallsOK
    <2>2. db' \in [exists : BOOLEAN, id : Nat]
      BY <1>1, <1>a DEF Create
    <2>3. single' \in Singles
      BY <1>1, <1>a DEF Create
    <2>4. cached' \in BOOLEAN /\ anchor' \in BOOLEAN /\ failed' \in BOOLEAN
      BY <1>1, <1>a DEF Create
    <2> QED BY <2>1, <2>2, <2>3, <2>4 DEF TypeOK
  <1>2. ASSUME NEW u \in Users, LockMux(u) PROVE TypeOK'
    <2>1. CallsOK'
      BY <1>2, <1>a DEF LockMux, CallsOK
    <2>2. db' \in [exists : BOOLEAN, id : Nat]
      BY <1>2, <1>a DEF LockMux
    <2>3. single' \in Singles
      BY <1>2, <1>a DEF LockMux
    <2>4. cached' \in BOOLEAN /\ anchor' \in BOOLEAN /\ failed' \in BOOLEAN
      BY <1>2, <1>a DEF LockMux
    <2> QED BY <2>1, <2>2, <2>3, <2>4 DEF TypeOK
  <1>3. ASSUME NEW u \in Users, Recheck(u) PROVE TypeOK'
    <2>1. CallsOK'
      BY <1>3, <1>a DEF Recheck, CallsOK
    <2>2. db' \in [exists : BOOLEAN, id : Nat]
      BY <1>3, <1>a DEF Recheck
    <2>3. single' \in Singles
      BY <1>3, <1>a DEF Recheck
    <2>4. cached' \in BOOLEAN /\ anchor' \in BOOLEAN /\ failed' \in BOOLEAN
      BY <1>3, <1>a DEF Recheck
    <2> QED BY <2>1, <2>2, <2>3, <2>4 DEF TypeOK
  <1>4. ASSUME NEW u \in Users, ProvisionDrops(u) PROVE TypeOK'
    <2>1. CallsOK'
      BY <1>4, <1>a DEF ProvisionDrops, CallsOK
    <2>2. db' \in [exists : BOOLEAN, id : Nat]
      BY <1>4, <1>a, DBTypes DEF ProvisionDrops
    <2>3. single' \in Singles
      BY <1>4, <1>a DEF ProvisionDrops
    <2>4. cached' \in BOOLEAN /\ anchor' \in BOOLEAN /\ failed' \in BOOLEAN
      BY <1>4, <1>a DEF ProvisionDrops
    <2> QED BY <2>1, <2>2, <2>3, <2>4 DEF TypeOK
  <1>5. ASSUME NEW u \in Users, ProvisionCreates(u) PROVE TypeOK'
    <2>1. CallsOK'
      BY <1>5, <1>a DEF ProvisionCreates, CallsOK
    <2>2. db' \in [exists : BOOLEAN, id : Nat]
      BY <1>5, <1>a, DBTypes DEF ProvisionCreates
    <2>3. single' \in Singles
      BY <1>5, <1>a DEF ProvisionCreates
    <2>4. cached' \in BOOLEAN /\ anchor' \in BOOLEAN /\ failed' \in BOOLEAN
      BY <1>5, <1>a DEF ProvisionCreates
    <2> QED BY <2>1, <2>2, <2>3, <2>4 DEF TypeOK
  <1>6. ASSUME NEW u \in Users, CacheDSN(u) PROVE TypeOK'
    <2>1. CallsOK'
      BY <1>6, <1>a DEF CacheDSN, CallsOK
    <2>2. db' \in [exists : BOOLEAN, id : Nat]
      BY <1>6, <1>a DEF CacheDSN
    <2>3. single' \in Singles
      BY <1>6, <1>a DEF CacheDSN
    <2>4. cached' \in BOOLEAN /\ anchor' \in BOOLEAN /\ failed' \in BOOLEAN
      BY <1>6, <1>a DEF CacheDSN
    <2> QED BY <2>1, <2>2, <2>3, <2>4 DEF TypeOK
  <1>7. ASSUME NEW u \in Users, Open(u) PROVE TypeOK'
    <2>1. CallsOK'
      BY <1>7, <1>a DEF Open, CallsOK, Retain
    <2>2. db' \in [exists : BOOLEAN, id : Nat]
      BY <1>7, <1>a, DBTypes DEF Open, Retain
    <2>3. single' \in Singles
      BY <1>7, <1>a DEF Open
    <2>4. cached' \in BOOLEAN /\ anchor' \in BOOLEAN /\ failed' \in BOOLEAN
      BY <1>7, <1>a DEF Open, Retain
    <2> QED BY <2>1, <2>2, <2>3, <2>4 DEF TypeOK
  <1>8. ASSUME NEW u \in Users, OpenSingleton(u) PROVE TypeOK'
    <2>1. CallsOK'
      BY <1>8, <1>a DEF OpenSingleton, CallsOK, Retain
    <2>2. db' \in [exists : BOOLEAN, id : Nat]
      BY <1>8, <1>a, DBTypes DEF OpenSingleton, Retain
    <2>3. single' \in Singles
      BY <1>8, <1>a, OpenedKeeps
    <2>4. cached' \in BOOLEAN /\ anchor' \in BOOLEAN /\ failed' \in BOOLEAN
      BY <1>8, <1>a DEF OpenSingleton, Retain
    <2> QED BY <2>1, <2>2, <2>3, <2>4 DEF TypeOK
  <1>9. ASSUME NEW u \in Users, OpenFails(u) PROVE TypeOK'
    <2>1. CallsOK'
      BY <1>9, <1>a DEF OpenFails, CallsOK
    <2>2. db' \in [exists : BOOLEAN, id : Nat]
      BY <1>9, <1>a DEF OpenFails
    <2>3. single' \in Singles
      BY <1>9, <1>a DEF OpenFails
    <2>4. cached' \in BOOLEAN /\ anchor' \in BOOLEAN /\ failed' \in BOOLEAN
      BY <1>9, <1>a DEF OpenFails
    <2> QED BY <2>1, <2>2, <2>3, <2>4 DEF TypeOK
  <1>10. ASSUME NEW u \in Users, CloseShared(u) PROVE TypeOK'
    <2>1. CallsOK'
      BY <1>10, <1>a DEF CloseShared, CallsOK
    <2>2. db' \in [exists : BOOLEAN, id : Nat]
      BY <1>10, <1>a DEF CloseShared
    <2>3. single' \in Singles
      BY <1>10, <1>a, ClosedKeeps
    <2>4. cached' \in BOOLEAN /\ anchor' \in BOOLEAN /\ failed' \in BOOLEAN
      BY <1>10, <1>a DEF CloseShared
    <2> QED BY <2>1, <2>2, <2>3, <2>4 DEF TypeOK
  <1>11. ASSUME NEW u \in Users, CloseOwn(u) PROVE TypeOK'
    <2>1. CallsOK'
      BY <1>11, <1>a DEF CloseOwn, CallsOK
    <2>2. db' \in [exists : BOOLEAN, id : Nat]
      BY <1>11, <1>a DEF CloseOwn
    <2>3. single' \in Singles
      BY <1>11, <1>a DEF CloseOwn
    <2>4. cached' \in BOOLEAN /\ anchor' \in BOOLEAN /\ failed' \in BOOLEAN
      BY <1>11, <1>a DEF CloseOwn
    <2> QED BY <2>1, <2>2, <2>3, <2>4 DEF TypeOK
  <1>12. ASSUME NEW u \in Users, Release(u) PROVE TypeOK'
    <2>1. CallsOK'
      <3>1. UNCHANGED <<engine, mux, shared, calls>> /\ pc[u] = "release"
        BY <1>12 DEF Release
      <3>2. pc' \in [Users -> Labels] /\ refs' \in Nat /\ closed' \in SUBSET Nat
        <4>1. CASE refs <= 1
          <5>1. refs' = 0 /\ closed' = closed \cup {db.id}
                /\ (pc' = [pc EXCEPT ![u] = "idle"] \/ pc' = [pc EXCEPT ![u] = "dropLast"])
            BY <1>12, <4>1 DEF Release, ReleaseLast
          <5> QED BY <1>a, <5>1, DBTypes DEF CallsOK
        <4>2. CASE ~(refs <= 1)
          <5>1. refs' = refs - 1 /\ closed' = closed /\ pc' = [pc EXCEPT ![u] = "idle"]
            BY <1>12, <4>2 DEF Release
          <5> QED BY <1>a, <4>2, <5>1 DEF CallsOK
        <4> QED BY <4>1, <4>2
      <3> QED BY <1>a, <3>1, <3>2 DEF CallsOK
    <2>2. db' \in [exists : BOOLEAN, id : Nat]
      BY <1>12, <1>a, DBTypes DEF Release, ReleaseLast
    <2>3. single' \in Singles
      BY <1>12, <1>a, UnlockedKeeps DEF Release, ReleaseLast
    <2>4. cached' \in BOOLEAN /\ anchor' \in BOOLEAN /\ failed' \in BOOLEAN
      BY <1>12, <1>a DEF Release, ReleaseLast
    <2> QED BY <2>1, <2>2, <2>3, <2>4 DEF TypeOK
  <1>13. ASSUME NEW u \in Users, DropLast(u) PROVE TypeOK'
    <2>1. CallsOK'
      BY <1>13, <1>a DEF DropLast, CallsOK
    <2>2. db' \in [exists : BOOLEAN, id : Nat]
      BY <1>13, <1>a, DBTypes DEF DropLast
    <2>3. single' \in Singles
      BY <1>13, <1>a, UnlockedKeeps DEF DropLast
    <2>4. cached' \in BOOLEAN /\ anchor' \in BOOLEAN /\ failed' \in BOOLEAN
      BY <1>13, <1>a DEF DropLast
    <2> QED BY <2>1, <2>2, <2>3, <2>4 DEF TypeOK
  <1>14. CASE UNCHANGED vars
    BY <1>14, <1>a DEF TypeOK, CallsOK
  <1> QED
    BY <1>1, <1>2, <1>3, <1>4, <1>5, <1>6, <1>7, <1>8, <1>9, <1>10, <1>11, <1>12, <1>13, <1>14
       DEF Next

\* The step at the end of a Close, by whether other handles are left.
LEMMA ReleaseCases ==
    ASSUME TypeOK, NEW u \in Users, Release(u)
    PROVE  /\ pc[u] = "release" /\ pc' \in [Users -> Labels]
           /\ \A q \in Users \ {u} : pc'[q] = pc[q]
           /\ UNCHANGED <<engine, mux, shared, calls, failed>>
           /\ refs <= 1 => /\ refs' = 0 /\ ~cached' /\ ~anchor' /\ closed' = closed \cup {db.id}
                           /\ engine = "sqlite" => /\ db' = Gone /\ single' = Unlocked(u)
                                                   /\ pc'[u] = "idle"
                           /\ engine # "sqlite" => /\ db' = db /\ single' = single
                                                   /\ pc'[u] = "dropLast"
           /\ ~(refs <= 1) => /\ refs' = refs - 1 /\ single' = Unlocked(u) /\ pc'[u] = "idle"
                              /\ UNCHANGED <<cached, anchor, db, closed>>
  <1> USE DEF Goto
  <1>1. /\ pc \in [Users -> Labels] /\ pc[u] = "release"
        /\ UNCHANGED <<engine, mux, shared, calls, failed>>
    BY DEF TypeOK, CallsOK, Release
  <1>2. CASE refs <= 1
    <2>1. ReleaseLast(u)
      BY <1>2 DEF Release
    <2>2. refs' = 0 /\ closed' = closed \cup {db.id}
      BY <2>1 DEF ReleaseLast
    <2>3. ~cached' /\ ~anchor'
      BY <2>1 DEF ReleaseLast
    <2>4. CASE engine = "sqlite"
      <3>1. db' = Gone /\ single' = Unlocked(u) /\ pc' = [pc EXCEPT ![u] = "idle"]
        BY <2>1, <2>4 DEF ReleaseLast
      <3> QED BY <1>1, <1>2, <2>2, <2>3, <2>4, <3>1 DEF Labels
    <2>5. CASE engine # "sqlite"
      <3>1. db' = db /\ single' = single /\ pc' = [pc EXCEPT ![u] = "dropLast"]
        BY <2>1, <2>5 DEF ReleaseLast
      <3> QED BY <1>1, <1>2, <2>2, <2>3, <2>5, <3>1 DEF Labels
    <2> QED BY <2>4, <2>5
  <1>3. CASE ~(refs <= 1)
    <2>1. /\ refs' = refs - 1 /\ single' = Unlocked(u) /\ pc' = [pc EXCEPT ![u] = "idle"]
          /\ UNCHANGED <<cached, anchor, db, closed>>
      BY <1>3 DEF Release
    <2> QED BY <1>1, <1>3, <2>1 DEF Labels
  <1> QED BY <1>2, <1>3

\* The test's mutex covers provisioning, from the check to the cached DSN.
LEMMA NextMux == IInv /\ [Next]_vars => MuxInv'
  <1> SUFFICES ASSUME IInv, [Next]_vars PROVE MuxInv'
    OBVIOUS
  <1>a. TypeOK /\ MuxInv /\ CallsOK /\ cached \in BOOLEAN
    BY DEF IInv, TypeOK
  <1> USE NilAssumption DEF MuxInv, CallsOK, Goto, state_vars, vars
  <1>1. ASSUME NEW u \in Users, Create(u) PROVE MuxInv'
    BY <1>1, <1>a DEF Create
  <1>2. ASSUME NEW u \in Users, LockMux(u) PROVE MuxInv'
    BY <1>2, <1>a DEF LockMux
  <1>3. ASSUME NEW u \in Users, Recheck(u) PROVE MuxInv'
    BY <1>3, <1>a DEF Recheck, RacedAhead
  <1>4. ASSUME NEW u \in Users, ProvisionDrops(u) PROVE MuxInv'
    BY <1>4, <1>a DEF ProvisionDrops
  <1>5. ASSUME NEW u \in Users, ProvisionCreates(u) PROVE MuxInv'
    BY <1>5, <1>a DEF ProvisionCreates
  <1>6. ASSUME NEW u \in Users, CacheDSN(u) PROVE MuxInv'
    BY <1>6, <1>a DEF CacheDSN
  <1>7. ASSUME NEW u \in Users, Open(u) PROVE MuxInv'
    BY <1>7, <1>a DEF Open
  <1>8. ASSUME NEW u \in Users, OpenSingleton(u) PROVE MuxInv'
    BY <1>8, <1>a DEF OpenSingleton
  <1>9. ASSUME NEW u \in Users, OpenFails(u) PROVE MuxInv'
    BY <1>9, <1>a DEF OpenFails
  <1>10. ASSUME NEW u \in Users, CloseShared(u) PROVE MuxInv'
    BY <1>10, <1>a DEF CloseShared
  <1>11. ASSUME NEW u \in Users, CloseOwn(u) PROVE MuxInv'
    BY <1>11, <1>a DEF CloseOwn
  <1>12. ASSUME NEW u \in Users, Release(u) PROVE MuxInv'
    BY <1>12, <1>a, ReleaseCases
  <1>13. ASSUME NEW u \in Users, DropLast(u) PROVE MuxInv'
    BY <1>13, <1>a DEF DropLast
  <1>14. CASE UNCHANGED vars
    BY <1>14, <1>a
  <1> QED
    BY <1>1, <1>2, <1>3, <1>4, <1>5, <1>6, <1>7, <1>8, <1>9, <1>10, <1>11, <1>12, <1>13, <1>14
       DEF Next

\* The mutex of the shared *DB covers the whole of its last Close.
LEMMA NextSingle == IInv /\ [Next]_vars => SingleInv'
  <1> SUFFICES ASSUME IInv, [Next]_vars PROVE SingleInv'
    OBVIOUS
  <1>a. TypeOK /\ SingleInv /\ CallsOK /\ single \in Singles /\ single.mutex \in Users \cup {Nil}
    BY DEF IInv, TypeOK, Singles
  <1> USE NilAssumption DEF SingleInv, Sharing, CallsOK, Goto, state_vars, vars
  <1>1. ASSUME NEW u \in Users, Create(u) PROVE SingleInv'
    BY <1>1, <1>a DEF Create
  <1>2. ASSUME NEW u \in Users, LockMux(u) PROVE SingleInv'
    BY <1>2, <1>a DEF LockMux
  <1>3. ASSUME NEW u \in Users, Recheck(u) PROVE SingleInv'
    BY <1>3, <1>a DEF Recheck
  <1>4. ASSUME NEW u \in Users, ProvisionDrops(u) PROVE SingleInv'
    BY <1>4, <1>a DEF ProvisionDrops
  <1>5. ASSUME NEW u \in Users, ProvisionCreates(u) PROVE SingleInv'
    BY <1>5, <1>a DEF ProvisionCreates
  <1>6. ASSUME NEW u \in Users, CacheDSN(u) PROVE SingleInv'
    BY <1>6, <1>a DEF CacheDSN
  <1>7. ASSUME NEW u \in Users, Open(u) PROVE SingleInv'
    BY <1>7, <1>a DEF Open
  <1>8. ASSUME NEW u \in Users, OpenSingleton(u) PROVE SingleInv'
    BY <1>8, <1>a, OpenedKeeps DEF OpenSingleton
  <1>9. ASSUME NEW u \in Users, OpenFails(u) PROVE SingleInv'
    BY <1>9, <1>a DEF OpenFails
  <1>10. ASSUME NEW u \in Users, CloseShared(u) PROVE SingleInv'
    <2>1. CASE single.refCount > 1
      BY <1>10, <1>a, <2>1, ClosedKeeps DEF CloseShared
    <2>2. CASE ~(single.refCount > 1)
      <3>1. Sharing = {u}
        <4>1. u \in Sharing /\ IsFiniteSet(Sharing) /\ single.refCount = Cardinality(Sharing)
          BY <1>10 DEF IInv, CountInv, PoolFollowsOpeners, CloseShared
        <4>2. Cardinality(Sharing) \in Nat /\ Cardinality(Sharing) # 0
          BY <4>1, FS_EmptySet, FS_CardinalityType
        <4>3. Cardinality(Sharing) = 1
          BY <2>2, <4>1, <4>2
        <4> QED BY <4>1, <4>3, FS_Singleton
      <3> QED BY <1>10, <1>a, <2>2, <3>1, ClosedKeeps DEF CloseShared
    <2> QED BY <2>1, <2>2
  <1>11. ASSUME NEW u \in Users, CloseOwn(u) PROVE SingleInv'
    BY <1>11, <1>a DEF CloseOwn
  <1>12. ASSUME NEW u \in Users, Release(u) PROVE SingleInv'
    <2>1. CASE refs <= 1 /\ engine # "sqlite"
      BY <1>12, <1>a, <2>1, ReleaseCases
    <2>2. CASE ~(refs <= 1 /\ engine # "sqlite")
      <3>1. single' = Unlocked(u) /\ pc'[u] = "idle" /\ shared' = shared
            /\ \A q \in Users \ {u} : pc'[q] = pc[q]
        BY <1>12, <1>a, <2>2, ReleaseCases
      <3> QED BY <1>a, <3>1, UnlockedKeeps
    <2> QED BY <2>1, <2>2
  <1>13. ASSUME NEW u \in Users, DropLast(u) PROVE SingleInv'
    <2>1. single' = Unlocked(u) /\ pc'[u] = "idle" /\ shared' = shared
          /\ \A q \in Users \ {u} : pc'[q] = pc[q]
      BY <1>13, <1>a DEF DropLast
    <2> QED BY <1>a, <2>1, UnlockedKeeps
  <1>14. CASE UNCHANGED vars
    BY <1>14, <1>a
  <1> QED
    BY <1>1, <1>2, <1>3, <1>4, <1>5, <1>6, <1>7, <1>8, <1>9, <1>10, <1>11, <1>12, <1>13, <1>14
       DEF Next

-----------------------------------------------------------------------------
\* Somebody has the shared *DB, or is about to release it.
SharedHeld == \E u \in Users : Holding(u) /\ shared[u]

\* The counts go up and down with the handles.
LEMMA NextCount == IInv /\ [Next]_vars => CountInv'
  <1> SUFFICES ASSUME IInv, [Next]_vars PROVE CountInv'
    OBVIOUS
  <1>a. TypeOK /\ SingleInv /\ CountInv /\ CallsOK /\ single \in Singles /\ Nil \notin Users
    BY NilAssumption DEF IInv, TypeOK
  <1>b. /\ Cardinality(Owning) \in Nat /\ Cardinality(Sharing) \in Nat
        /\ refs = Cardinality(Owning) + (IF SharedHeld THEN 1 ELSE 0)
    BY <1>a, FS_CardinalityType DEF CountInv, RefsCountHandles, Owning, SharedHeld
  <1>c. ASSUME IsFiniteSet(Owning'), IsFiniteSet(Sharing'), PoolFollowsOpeners',
               refs' = Cardinality(Owning') + (IF SharedHeld' THEN 1 ELSE 0)
        PROVE  CountInv'
    BY <1>c DEF CountInv, RefsCountHandles, Owning, SharedHeld
  <1> DEFINE SameCounts == /\ single'.refCount = single.refCount
                           /\ single'.open = single.open /\ single'.maxIdle = single.maxIdle
  <1>d. ASSUME Sharing' = Sharing, SameCounts
        PROVE  PoolFollowsOpeners' /\ IsFiniteSet(Sharing')
    BY <1>a, <1>d DEF CountInv, PoolFollowsOpeners
  <1>e. ASSUME Owning' = Owning, Sharing' = Sharing, SharedHeld' <=> SharedHeld, refs' = refs,
               SameCounts
        PROVE  CountInv'
    <2>1. IsFiniteSet(Owning')
      BY <1>a, <1>e DEF CountInv
    <2>2. refs' = Cardinality(Owning') + (IF SharedHeld' THEN 1 ELSE 0)
      BY <1>b, <1>e
    <2> QED BY <1>c, <1>d, <1>e, <2>1, <2>2
  <1> USE DEF CallsOK, Goto, state_vars, vars, Holding
  <1>1. ASSUME NEW u \in Users, Create(u) PROVE CountInv'
    <2>1. Owning' = Owning /\ Sharing' = Sharing /\ refs' = refs /\ single' = single
      BY <1>1, <1>a DEF Create, Owning, Sharing
    <2>2. SharedHeld' <=> SharedHeld
      BY <1>1, <1>a DEF Create, SharedHeld
    <2> QED BY <1>e, <2>1, <2>2
  <1>2. ASSUME NEW u \in Users, LockMux(u) PROVE CountInv'
    <2>1. Owning' = Owning /\ Sharing' = Sharing /\ refs' = refs /\ single' = single
      BY <1>2, <1>a DEF LockMux, Owning, Sharing
    <2>2. SharedHeld' <=> SharedHeld
      BY <1>2, <1>a DEF LockMux, SharedHeld
    <2> QED BY <1>e, <2>1, <2>2
  <1>3. ASSUME NEW u \in Users, Recheck(u) PROVE CountInv'
    <2>1. Owning' = Owning /\ Sharing' = Sharing /\ refs' = refs /\ single' = single
      BY <1>3, <1>a DEF Recheck, Owning, Sharing
    <2>2. SharedHeld' <=> SharedHeld
      BY <1>3, <1>a DEF Recheck, SharedHeld
    <2> QED BY <1>e, <2>1, <2>2
  <1>4. ASSUME NEW u \in Users, ProvisionDrops(u) PROVE CountInv'
    <2>1. Owning' = Owning /\ Sharing' = Sharing /\ refs' = refs /\ single' = single
      BY <1>4, <1>a DEF ProvisionDrops, Owning, Sharing
    <2>2. SharedHeld' <=> SharedHeld
      BY <1>4, <1>a DEF ProvisionDrops, SharedHeld
    <2> QED BY <1>e, <2>1, <2>2
  <1>5. ASSUME NEW u \in Users, ProvisionCreates(u) PROVE CountInv'
    <2>1. Owning' = Owning /\ Sharing' = Sharing /\ refs' = refs /\ single' = single
      BY <1>5, <1>a DEF ProvisionCreates, Owning, Sharing
    <2>2. SharedHeld' <=> SharedHeld
      BY <1>5, <1>a DEF ProvisionCreates, SharedHeld
    <2> QED BY <1>e, <2>1, <2>2
  <1>6. ASSUME NEW u \in Users, CacheDSN(u) PROVE CountInv'
    <2>1. Owning' = Owning /\ Sharing' = Sharing /\ refs' = refs /\ single' = single
      BY <1>6, <1>a DEF CacheDSN, Owning, Sharing
    <2>2. SharedHeld' <=> SharedHeld
      BY <1>6, <1>a DEF CacheDSN, SharedHeld
    <2> QED BY <1>e, <2>1, <2>2
  <1>7. ASSUME NEW u \in Users, Open(u) PROVE CountInv'
    <2>1. Owning' = Owning \cup {u} /\ u \notin Owning
      BY <1>7, <1>a DEF Open, Owning
    <2>2. Sharing' = Sharing /\ single' = single
      BY <1>7, <1>a DEF Open, Sharing
    <2>3. SharedHeld' <=> SharedHeld
      BY <1>7, <1>a DEF Open, SharedHeld
    <2>4. refs' = refs + 1
      BY <1>7 DEF Open, Retain
    <2>5. IsFiniteSet(Owning') /\ Cardinality(Owning') = Cardinality(Owning) + 1
      BY <1>a, <2>1, FS_AddElement DEF CountInv
    <2>6. refs' = Cardinality(Owning') + (IF SharedHeld' THEN 1 ELSE 0)
      BY <1>b, <2>3, <2>4, <2>5
    <2> QED BY <1>c, <1>d, <2>2, <2>5, <2>6
  <1>8. ASSUME NEW u \in Users, OpenSingleton(u) PROVE CountInv'
    <2>1. Sharing' = Sharing \cup {u} /\ u \notin Sharing /\ Owning' = Owning
      BY <1>8, <1>a DEF OpenSingleton, Sharing, Owning
    <2>2. IsFiniteSet(Sharing') /\ Cardinality(Sharing') = Cardinality(Sharing) + 1
          /\ IsFiniteSet(Owning')
      BY <1>a, <2>1, FS_AddElement DEF CountInv
    <2>3. SharedHeld'
      BY <1>8, <1>a DEF OpenSingleton, SharedHeld
    <2>4. single.open <=> SharedHeld
      <3>1. single.open <=> Sharing # {}
        BY <1>a DEF CountInv, PoolFollowsOpeners
      <3>2. SharedHeld <=> Sharing # {}
        BY <1>8, <1>a DEF OpenSingleton, SingleInv, SharedHeld, Sharing
      <3> QED BY <3>1, <3>2
    <2>5. refs' = IF SharedHeld THEN refs ELSE refs + 1
      BY <1>8, <2>4 DEF OpenSingleton, Retain
    <2>6. refs' = Cardinality(Owning') + (IF SharedHeld' THEN 1 ELSE 0)
      BY <1>b, <2>1, <2>3, <2>5
    <2>7. PoolFollowsOpeners'
      <3>1. single.refCount = Cardinality(Sharing)
        BY <1>a DEF CountInv, PoolFollowsOpeners
      <3>2. /\ single'.refCount = Cardinality(Sharing')
            /\ single'.maxIdle = CeilSqrt(Cardinality(Sharing'))
        BY <1>8, <1>a, <2>2, <3>1, OpenedKeeps
      <3>3. single'.open /\ Sharing' # {}
        BY <1>8, <1>a, <2>1, OpenedKeeps
      <3> QED BY <3>2, <3>3 DEF PoolFollowsOpeners
    <2> QED BY <1>c, <2>2, <2>6, <2>7
  <1>9. ASSUME NEW u \in Users, OpenFails(u) PROVE CountInv'
    <2>1. Owning' = Owning /\ Sharing' = Sharing /\ refs' = refs /\ single' = single
      BY <1>9, <1>a DEF OpenFails, Owning, Sharing
    <2>2. SharedHeld' <=> SharedHeld
      BY <1>9, <1>a DEF OpenFails, SharedHeld
    <2> QED BY <1>e, <2>1, <2>2
  <1>10. ASSUME NEW u \in Users, CloseShared(u) PROVE CountInv'
    <2>1. Sharing' = Sharing \ {u} /\ u \in Sharing /\ Owning' = Owning /\ refs' = refs
      BY <1>10, <1>a DEF CloseShared, Sharing, Owning
    <2>2. IsFiniteSet(Sharing') /\ Cardinality(Sharing') = Cardinality(Sharing) - 1
          /\ IsFiniteSet(Owning')
      BY <1>a, <2>1, FS_RemoveElement DEF CountInv
    <2>3. SharedHeld
      BY <2>1 DEF SharedHeld, Sharing
    <2>4. single.refCount = Cardinality(Sharing) /\ single.open
      BY <1>a, <2>1 DEF CountInv, PoolFollowsOpeners
    <2>5. CASE single.refCount > 1
      <3>1. Sharing' # {}
        BY <1>b, <2>2, <2>4, <2>5, FS_EmptySet
      <3>2. SharedHeld'
        BY <3>1 DEF SharedHeld, Sharing
      <3>3. single'.open
        BY <1>10, <1>a, <2>4, <2>5, ClosedKeeps
      <3>4. /\ single'.refCount = Cardinality(Sharing')
            /\ single'.maxIdle = CeilSqrt(Cardinality(Sharing'))
        BY <1>10, <1>a, <2>2, <2>4, <2>5, ClosedKeeps
      <3>5. PoolFollowsOpeners'
        BY <3>1, <3>3, <3>4 DEF PoolFollowsOpeners
      <3>6. refs' = Cardinality(Owning') + (IF SharedHeld' THEN 1 ELSE 0)
        BY <1>b, <2>1, <2>3, <3>2
      <3> QED BY <1>c, <2>2, <3>5, <3>6
    <2>6. CASE ~(single.refCount > 1)
      <3>1. Cardinality(Sharing') = 0
        <4>1. Cardinality(Sharing') \in Nat
          BY <2>2, FS_CardinalityType
        <4> QED BY <1>b, <2>2, <2>4, <2>6, <4>1
      <3>2. Sharing' = {}
        BY <2>2, <3>1, FS_EmptySet
      <3>3. SharedHeld'
        BY <1>10, <1>a, <2>6 DEF CloseShared, SharedHeld
      <3>4. single'.refCount = 0 /\ ~single'.open
        BY <1>10, <1>a, <2>6, ClosedKeeps
      <3>5. PoolFollowsOpeners'
        BY <3>1, <3>2, <3>4 DEF PoolFollowsOpeners
      <3>6. refs' = Cardinality(Owning') + (IF SharedHeld' THEN 1 ELSE 0)
        BY <1>b, <2>1, <2>3, <3>3
      <3> QED BY <1>c, <2>2, <3>5, <3>6
    <2> QED BY <2>5, <2>6
  <1>11. ASSUME NEW u \in Users, CloseOwn(u) PROVE CountInv'
    <2>1. Owning' = Owning /\ Sharing' = Sharing /\ refs' = refs /\ single' = single
      BY <1>11, <1>a DEF CloseOwn, Owning, Sharing
    <2>2. SharedHeld' <=> SharedHeld
      BY <1>11, <1>a DEF CloseOwn, SharedHeld
    <2> QED BY <1>e, <2>1, <2>2
  <1>12. ASSUME NEW u \in Users, Release(u) PROVE CountInv'
    <2>1. /\ pc[u] = "release" /\ pc'[u] \in {"idle", "dropLast"} /\ shared' = shared
          /\ \A q \in Users \ {u} : pc'[q] = pc[q]
      BY <1>12, <1>a, ReleaseCases
    <2>2. Sharing' = Sharing /\ SameCounts
      <3>1. Sharing' = Sharing
        BY <2>1 DEF Sharing
      <3>2. single' = single \/ single' = Unlocked(u)
        BY <1>12, <1>a, ReleaseCases
      <3> QED BY <1>a, <3>1, <3>2, UnlockedKeeps
    <2>3. refs' = IF refs <= 1 THEN 0 ELSE refs - 1
      BY <1>12, <1>a, ReleaseCases
    <2>4. CASE ~shared[u]
      <3>1. Owning' = Owning \ {u} /\ u \in Owning
        BY <2>1, <2>4 DEF Owning
      <3>2. SharedHeld' <=> SharedHeld
        BY <2>1, <2>4 DEF SharedHeld
      <3>3. IsFiniteSet(Owning') /\ Cardinality(Owning') = Cardinality(Owning) - 1
        BY <1>a, <3>1, FS_RemoveElement DEF CountInv
      <3>4. Cardinality(Owning') \in Nat
        BY <3>3, FS_CardinalityType
      <3>5. refs' = Cardinality(Owning') + (IF SharedHeld' THEN 1 ELSE 0)
        BY <1>b, <2>3, <3>2, <3>3, <3>4
      <3> QED BY <1>c, <1>d, <2>2, <3>3, <3>5
    <2>5. CASE shared[u]
      <3>1. Owning' = Owning /\ IsFiniteSet(Owning')
        BY <1>a, <2>1, <2>5 DEF Owning, CountInv
      <3>2. SharedHeld
        BY <2>1, <2>5 DEF SharedHeld
      <3>3. ~SharedHeld'
        BY <1>a, <2>1, <2>5 DEF SharedHeld, SingleInv, Sharing
      <3>4. refs' = Cardinality(Owning') + (IF SharedHeld' THEN 1 ELSE 0)
        BY <1>b, <2>3, <3>1, <3>2, <3>3
      <3> QED BY <1>c, <1>d, <2>2, <3>1, <3>4
    <2> QED BY <2>4, <2>5
  <1>13. ASSUME NEW u \in Users, DropLast(u) PROVE CountInv'
    <2>1. Owning' = Owning /\ Sharing' = Sharing /\ refs' = refs /\ single' = Unlocked(u)
      BY <1>13, <1>a DEF DropLast, Owning, Sharing
    <2>2. SharedHeld' <=> SharedHeld
      BY <1>13, <1>a DEF DropLast, SharedHeld
    <2> QED BY <1>a, <1>e, <2>1, <2>2, UnlockedKeeps
  <1>14. CASE UNCHANGED vars
    <2>1. Owning' = Owning /\ Sharing' = Sharing /\ refs' = refs /\ single' = single
      BY <1>14 DEF Owning, Sharing
    <2>2. SharedHeld' <=> SharedHeld
      BY <1>14 DEF SharedHeld
    <2> QED BY <1>e, <2>1, <2>2
  <1> QED
    BY <1>1, <1>2, <1>3, <1>4, <1>5, <1>6, <1>7, <1>8, <1>9, <1>10, <1>11, <1>12, <1>13, <1>14
       DEF Next

-----------------------------------------------------------------------------
\* The first handle on a SQLite database finds, or makes, one that lasts.
LEMMA RetainKeeps ==
    ASSUME TypeOK, LifeInv, Retain, UNCHANGED <<engine, cached, closed, failed>>,
           \A q \in Users : /\ pc'[q] = "dropLast" <=> pc[q] = "dropLast"
                            /\ pc'[q] = "cache" <=> pc[q] = "cache"
    PROVE  LifeInv'
  <1>1. refs \in Nat /\ refs' = refs + 1 /\ db \in [exists : BOOLEAN, id : Nat] /\ db.id \in Nat
        /\ closed \subseteq Nat /\ engine \in {"server", "sqlite"}
    BY DEF TypeOK, CallsOK, Retain
  <1>2. CASE engine = "sqlite" /\ refs = 0
    <2>1. ~db.exists
      BY <1>2 DEF LifeInv, PinnedInv, DroppedInv, Dropping, Caching
    <2>2. db' = Fresh
      BY <1>2, <2>1 DEF Retain
    <2>3. anchor'
      BY <1>2 DEF Retain
    <2>4. db'.exists
      BY <1>1, <2>2, DBTypes
    <2>5. db'.id = db.id + 1 /\ refs' # 0 /\ engine' = "sqlite"
      BY <1>1, <1>2, <2>2, DBTypes
    <2>6. \A c \in closed' : c <= db'.id /\ c # db'.id
      BY <1>1, <2>5 DEF LifeInv, PinnedInv, DroppedInv, Dropping, Caching
    <2> QED BY <2>3, <2>4, <2>5, <2>6 DEF LifeInv, PinnedInv, DroppedInv, Dropping, Caching
  <1>3. CASE ~(engine = "sqlite" /\ refs = 0)
    <2>1. UNCHANGED <<anchor, db>>
      BY <1>3 DEF Retain
    <2>2. refs' # 0 /\ (engine = "sqlite" => refs # 0)
      BY <1>1, <1>3
    <2>3. CASE engine = "sqlite"
      BY <2>1, <2>2, <2>3 DEF LifeInv, PinnedInv, DroppedInv, Dropping, Caching
    <2>4. CASE engine = "server"
      <3>1. (Dropping' <=> Dropping) /\ (Caching' <=> Caching)
        <4>1. Dropping' <=> Dropping
          BY DEF Dropping
        <4>2. Caching' <=> Caching
          BY DEF Caching
        <4> QED BY <4>1, <4>2
      <3>2. PinnedInv'
        BY <2>4 DEF PinnedInv
      <3>3. DroppedInv'
        BY <2>1, <3>1 DEF LifeInv, DroppedInv
      <3> QED BY <2>1, <3>2, <3>3 DEF LifeInv
    <2> QED BY <1>1, <2>3, <2>4
  <1> QED BY <1>2, <1>3

\* The database is made for the first handle, or before it, and goes with the
\* last.
LEMMA NextLife == IInv /\ [Next]_vars => LifeInv'
  <1> SUFFICES ASSUME IInv, [Next]_vars PROVE LifeInv'
    OBVIOUS
  <1>a. /\ TypeOK /\ MuxInv /\ LifeInv /\ CallsOK /\ db \in [exists : BOOLEAN, id : Nat]
        /\ db.id \in Nat
    BY DEF IInv, TypeOK
  <1>b. ASSUME UNCHANGED <<engine, db, cached, refs, anchor, closed, failed>>,
               \A q \in Users : /\ pc'[q] = "dropLast" <=> pc[q] = "dropLast"
                                /\ engine = "server" => (pc'[q] = "cache" <=> pc[q] = "cache")
        PROVE  LifeInv'
    <2>1. (Dropping' <=> Dropping) /\ (engine = "server" => (Caching' <=> Caching))
      <3>1. Dropping' <=> Dropping
        BY <1>b DEF Dropping
      <3>2. ASSUME engine = "server" PROVE Caching' <=> Caching
        BY <1>b, <3>2 DEF Caching
      <3> QED BY <3>1, <3>2
    <2>2. PinnedInv'
      BY <1>a, <1>b DEF LifeInv, PinnedInv
    <2>3. DroppedInv'
      BY <1>a, <1>b, <2>1 DEF LifeInv, DroppedInv
    <2> QED BY <1>a, <1>b, <2>2, <2>3 DEF LifeInv
  <1> USE DEF CallsOK, Goto, state_vars, vars
  <1>1. ASSUME NEW u \in Users, Create(u) PROVE LifeInv'
    BY <1>1, <1>a, <1>b DEF Create
  <1>2. ASSUME NEW u \in Users, LockMux(u) PROVE LifeInv'
    BY <1>2, <1>a, <1>b DEF LockMux
  <1>3. ASSUME NEW u \in Users, Recheck(u) PROVE LifeInv'
    BY <1>3, <1>a, <1>b DEF Recheck, MuxInv
  <1>4. ASSUME NEW u \in Users, ProvisionDrops(u) PROVE LifeInv'
    <2>1. engine = "server" /\ UNCHANGED <<engine, cached, refs, anchor, closed, failed>>
          /\ \A q \in Users : /\ pc'[q] = "dropLast" <=> pc[q] = "dropLast"
                              /\ pc'[q] = "cache" <=> pc[q] = "cache"
      BY <1>4, <1>a DEF ProvisionDrops, MuxInv
    <2>2. CASE db' = db
      BY <1>b, <2>1, <2>2
    <2>3. CASE db' = Gone
      BY <1>a, <2>1, <2>3, DBTypes DEF LifeInv, PinnedInv, DroppedInv, Dropping, Caching
    <2> QED BY <1>4, <2>2, <2>3 DEF ProvisionDrops
  <1>5. ASSUME NEW u \in Users, ProvisionCreates(u) PROVE LifeInv'
    <2>1. engine = "server" /\ UNCHANGED <<engine, cached, refs, anchor, closed, failed>>
          /\ \A q \in Users : pc'[q] = "dropLast" <=> pc[q] = "dropLast"
      BY <1>5, <1>a DEF ProvisionCreates, MuxInv
    <2>2. CASE db' = db /\ pc' = [pc EXCEPT ![u] = "idle"]
      <3>1. \A q \in Users : pc'[q] = "cache" <=> pc[q] = "cache"
        BY <1>5, <1>a, <2>2 DEF ProvisionCreates
      <3> QED BY <1>b, <2>1, <2>2, <3>1
    <2>3. CASE db' = Fresh /\ pc' = [pc EXCEPT ![u] = "cache"]
      <3>1. pc'[u] = "cache" /\ db'.id = db.id + 1
        BY <1>a, <2>3, DBTypes
      <3>2. \A c \in closed : c <= db'.id /\ c # db'.id
        BY <1>a, <3>1 DEF LifeInv, PinnedInv, DroppedInv, Dropping, Caching
      <3> QED BY <1>a, <2>1, <3>1, <3>2 DEF LifeInv, PinnedInv, DroppedInv, Dropping, Caching
    <2> QED BY <1>5, <2>2, <2>3 DEF ProvisionCreates
  <1>6. ASSUME NEW u \in Users, CacheDSN(u) PROVE LifeInv'
    <2>1. cached' /\ UNCHANGED <<engine, db, refs, anchor, closed, failed>>
          /\ \A q \in Users : pc'[q] = "dropLast" <=> pc[q] = "dropLast"
      BY <1>6, <1>a DEF CacheDSN
    <2> QED BY <1>a, <2>1 DEF LifeInv, PinnedInv, DroppedInv, Dropping, Caching
  <1>7. ASSUME NEW u \in Users, Open(u) PROVE LifeInv'
    <2>1. UNCHANGED <<engine, cached, closed, failed>>
          /\ \A q \in Users : /\ pc'[q] = "dropLast" <=> pc[q] = "dropLast"
                              /\ pc'[q] = "cache" <=> pc[q] = "cache"
      BY <1>7, <1>a DEF Open
    <2>2. CASE UNCHANGED <<refs, anchor, db>>
      BY <1>b, <2>1, <2>2
    <2>3. CASE Retain
      BY <1>a, <1>b, <2>1, <2>3, RetainKeeps
    <2> QED BY <1>7, <2>2, <2>3 DEF Open
  <1>8. ASSUME NEW u \in Users, OpenSingleton(u) PROVE LifeInv'
    <2>1. UNCHANGED <<engine, cached, closed, failed>>
          /\ \A q \in Users : /\ pc'[q] = "dropLast" <=> pc[q] = "dropLast"
                              /\ pc'[q] = "cache" <=> pc[q] = "cache"
      BY <1>8, <1>a DEF OpenSingleton
    <2>2. CASE UNCHANGED <<refs, anchor, db>>
      BY <1>b, <2>1, <2>2
    <2>3. CASE Retain
      BY <1>a, <1>b, <2>1, <2>3, RetainKeeps
    <2> QED BY <1>8, <2>2, <2>3 DEF OpenSingleton
  <1>9. ASSUME NEW u \in Users, OpenFails(u) PROVE LifeInv'
    BY <1>9, <1>a, <1>b DEF OpenFails
  <1>10. ASSUME NEW u \in Users, CloseShared(u) PROVE LifeInv'
    BY <1>10, <1>a, <1>b DEF CloseShared
  <1>11. ASSUME NEW u \in Users, CloseOwn(u) PROVE LifeInv'
    BY <1>11, <1>a, <1>b DEF CloseOwn
  <1>12. ASSUME NEW u \in Users, Release(u) PROVE LifeInv'
    <2>1. CASE ~(refs <= 1)
      <3>1. UNCHANGED <<engine, db, cached, anchor, closed, failed>> /\ refs' = refs - 1
            /\ \A q \in Users : /\ pc'[q] = "dropLast" <=> pc[q] = "dropLast"
                                /\ pc'[q] = "cache" <=> pc[q] = "cache"
        BY <1>12, <1>a, <2>1, ReleaseCases
      <3>2. refs # 0 /\ refs' # 0
        BY <1>a, <2>1, <3>1
      <3>3. (Dropping' <=> Dropping) /\ (Caching' <=> Caching)
        <4>1. Dropping' <=> Dropping
          BY <3>1 DEF Dropping
        <4>2. Caching' <=> Caching
          BY <3>1 DEF Caching
        <4> QED BY <4>1, <4>2
      <3>4. PinnedInv'
        BY <1>a, <3>1, <3>2 DEF LifeInv, PinnedInv
      <3>5. DroppedInv'
        BY <1>a, <3>1, <3>3 DEF LifeInv, DroppedInv
      <3> QED BY <1>a, <3>1, <3>4, <3>5 DEF LifeInv
    <2>2. CASE refs <= 1 /\ engine = "sqlite"
      <3>1. /\ engine' = "sqlite" /\ refs' = 0 /\ ~anchor' /\ db' = Gone
            /\ closed' = closed \cup {db.id}
        BY <1>12, <1>a, <2>2, ReleaseCases
      <3> QED BY <1>a, <3>1, DBTypes DEF LifeInv, PinnedInv, DroppedInv, Dropping, Caching
    <2>3. CASE refs <= 1 /\ engine # "sqlite"
      <3>1. engine' = "server" /\ ~anchor' /\ db' = db /\ closed' = closed \cup {db.id}
            /\ pc'[u] = "dropLast"
        BY <1>12, <1>a, <2>3, ReleaseCases
      <3> QED BY <1>a, <3>1 DEF LifeInv, PinnedInv, DroppedInv, Dropping, Caching
    <2> QED BY <2>1, <2>2, <2>3
  <1>13. ASSUME NEW u \in Users, DropLast(u) PROVE LifeInv'
    <2>1. engine = "server" /\ UNCHANGED <<engine, cached, anchor, closed>>
          /\ \A q \in Users : pc'[q] = "cache" <=> pc[q] = "cache"
      BY <1>13, <1>a DEF DropLast, MuxInv
    <2>2. CASE db' = Gone
      BY <1>a, <2>1, <2>2, DBTypes DEF LifeInv, PinnedInv, DroppedInv, Dropping, Caching
    <2>3. CASE db' = db /\ failed'
      BY <1>a, <2>1, <2>3 DEF LifeInv, PinnedInv, DroppedInv, Dropping, Caching
    <2> QED BY <1>13, <2>2, <2>3 DEF DropLast
  <1>14. CASE UNCHANGED vars
    BY <1>14, <1>b
  <1> QED
    BY <1>1, <1>2, <1>3, <1>4, <1>5, <1>6, <1>7, <1>8, <1>9, <1>10, <1>11, <1>12, <1>13, <1>14
       DEF Next

\* Nothing is open, counted or provisioned at first.
LEMMA InitIInv == Init => IInv
  <1> SUFFICES ASSUME Init PROVE IInv
    OBVIOUS
  <1> USE DEF Init
  <1>1. CallsOK
    BY EngineAssumption, CallsAssumption DEF CallsOK, Labels
  <1>2. db \in [exists : BOOLEAN, id : Nat] /\ single \in Singles
    BY DEF Singles
  <1>3. cached \in BOOLEAN /\ anchor \in BOOLEAN /\ failed \in BOOLEAN
    OBVIOUS
  <1>4. MuxInv
    BY NilAssumption DEF MuxInv
  <1>5. Sharing = {} /\ Owning = {} /\ ~SharedHeld
    BY DEF Sharing, Owning, Holding, SharedHeld
  <1>6. SingleInv
    BY <1>5, NilAssumption DEF SingleInv
  <1>7. CountInv
    <2>1. PoolFollowsOpeners
      BY <1>5, FS_EmptySet DEF PoolFollowsOpeners
    <2>2. RefsCountHandles
      BY <1>5, FS_EmptySet DEF RefsCountHandles, Owning, SharedHeld
    <2> QED BY <1>5, <2>1, <2>2, FS_EmptySet DEF CountInv
  <1>8. LifeInv
    BY DEF LifeInv, PinnedInv, DroppedInv, Dropping, Caching
  <1> QED BY <1>1, <1>2, <1>3, <1>4, <1>6, <1>7, <1>8 DEF IInv, TypeOK

\* The inductive invariant holds in every state.
LEMMA Invariance == Spec => []IInv
  <1>1. IInv /\ [Next]_vars => IInv'
    BY NextType, NextMux, NextSingle, NextCount, NextLife DEF IInv
  <1> QED BY <1>1, InitIInv, PTL DEF Spec

-----------------------------------------------------------------------------
\* The process's maps, the shared *DB and the goroutines keep their types.
THEOREM TypeCorrect == Spec => []TypeOK
  <1>1. IInv => TypeOK
    BY DEF IInv
  <1> QED BY <1>1, Invariance, PTL

\* testingDBRefs counts every handle of Open once, and those of OpenSingleton,
\* which share a *DB, together once, to the end of its last Close.
THEOREM RefsAreHandles == Spec => []RefsCountHandles
  <1>1. IInv => RefsCountHandles
    BY DEF IInv, CountInv
  <1> QED BY <1>1, Invariance, PTL

\* The shared pool is open exactly while it has openers, and its limits are
\* those of their number.
THEOREM PoolIsOpeners == Spec => []PoolFollowsOpeners
  <1>1. IInv => PoolFollowsOpeners
    BY DEF IInv, CountInv
  <1> QED BY <1>1, Invariance, PTL

\* Whoever has a handle counts.
LEMMA HandleCounts ==
    ASSUME IInv, NEW u \in Users, Holding(u)
    PROVE  refs # 0
  <1>1. IsFiniteSet(Owning) /\ refs = Cardinality(Owning) + (IF SharedHeld THEN 1 ELSE 0)
    BY DEF IInv, CountInv, RefsCountHandles, Owning, SharedHeld
  <1>2. Cardinality(Owning) \in Nat
    BY <1>1, FS_CardinalityType
  <1>3. CASE shared[u]
    <2>1. SharedHeld
      BY <1>3 DEF SharedHeld
    <2> QED BY <1>1, <1>2, <2>1
  <1>4. CASE ~shared[u]
    <2>1. Owning # {}
      BY <1>4 DEF Owning
    <2>2. Cardinality(Owning) # 0
      BY <1>1, <2>1, FS_EmptySet
    <2> QED BY <1>1, <1>2, <2>2
  <1> QED BY <1>3, <1>4

\* A SQLite testing database is pinned and there, and is not one that was
\* closed, for as long as somebody has a handle on it.
THEOREM SQLiteStays == Spec => []SQLiteLasts
  <1>1. IInv => SQLiteLasts
    BY HandleCounts DEF IInv, LifeInv, PinnedInv, SQLiteLasts
  <1> QED BY <1>1, Invariance, PTL

\* With every call returned and every handle closed nothing is counted or
\* pinned, and a database that was closed is gone unless its DROP failed.
THEOREM CleansUp == Spec => []SelfCleaning
  <1>1. IInv => SelfCleaning
    <2> SUFFICES ASSUME IInv, \A u \in Users : pc[u] = "idle"
                 PROVE  refs = 0 /\ ~anchor /\ (db.exists => failed \/ db.id \notin closed)
      BY DEF SelfCleaning
    <2>1. Owning = {} /\ ~SharedHeld
      BY DEF Owning, SharedHeld, Holding
    <2>2. refs = Cardinality(Owning) + (IF SharedHeld THEN 1 ELSE 0)
      BY DEF IInv, CountInv, RefsCountHandles, Owning, SharedHeld
    <2>3. refs = 0
      BY <2>1, <2>2, FS_EmptySet
    <2>4. engine \in {"server", "sqlite"}
      BY DEF IInv, TypeOK, CallsOK
    <2> QED BY <2>3, <2>4 DEF IInv, LifeInv, PinnedInv, DroppedInv, Dropping, Caching
  <1> QED BY <1>1, Invariance, PTL

\* On a server, a database is provisioned only when there was none before, or
\* the last handle on the one before was closed: callers that race share one.
THEOREM ProvisioningShared == Spec => ProvisionedOnce
  <1> DEFINE A == engine = "server" /\ db'.id # db.id => db.id = 0 \/ db.id \in closed
  <1>1. IInv /\ [Next]_vars => [A]_vars
    <2> SUFFICES ASSUME IInv, Next, engine = "server", db'.id # db.id
                 PROVE  db.id = 0 \/ db.id \in closed
      OBVIOUS
    <2>1. TypeOK /\ db \in [exists : BOOLEAN, id : Nat]
      BY DEF IInv, TypeOK
    <2>2. PICK u \in Users : ProvisionCreates(u)
      <3>1. ASSUME NEW u \in Users, Open(u) \/ OpenSingleton(u) PROVE db' = db
        BY <3>1 DEF Open, OpenSingleton, Retain
      <3>2. ASSUME NEW u \in Users, Release(u) PROVE db' = db
        BY <2>1, <3>2, ReleaseCases
      <3>3. ASSUME NEW u \in Users, ProvisionDrops(u) \/ DropLast(u) PROVE db'.id = db.id
        BY <2>1, <3>3, DBTypes DEF ProvisionDrops, DropLast
      <3>4. ASSUME NEW u \in Users,
                   \/ Create(u) \/ LockMux(u) \/ Recheck(u) \/ CacheDSN(u) \/ OpenFails(u)
                   \/ CloseShared(u) \/ CloseOwn(u)
            PROVE  db' = db
        BY <3>4 DEF Create, LockMux, Recheck, CacheDSN, OpenFails, CloseShared, CloseOwn, state_vars
      <3> QED BY <3>1, <3>2, <3>3, <3>4 DEF Next
    <2>3. pc[u] = "create" /\ ~cached /\ \A q \in Users : pc[q] # "cache"
      BY <2>2 DEF IInv, MuxInv, ProvisionCreates
    <2> QED BY <2>3 DEF IInv, LifeInv, PinnedInv, DroppedInv, Dropping, Caching
  <1> QED BY <1>1, Invariance, PTL DEF Spec, ProvisionedOnce
=============================================================================
