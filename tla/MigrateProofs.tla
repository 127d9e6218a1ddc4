--------------------------- MODULE MigrateProofs ----------------------------
(***************************************************************************)
(* Proofs about Migrate for every number of replicas, files, statements    *)
(* and faults and every lease.  CallInv ties a call to the files it has    *)
(* left to run; on it rest four invariants, one per promise: LeaseInv (a   *)
(* lock that is held has not lapsed), RanInv (what is about to be marked   *)
(* completed ran), BlameInv (what is about to fail has a cause) and        *)
(* OrderInv (what a replica has not left to run is completed).             *)
(***************************************************************************)
EXTENDS Migrate, FiniteSetTheorems, TLAPS

\* Where a call works on a migration.
WorkLabels == {"insert", "check", "lock", "run", "stopping", "complete", "release"}

\* A call that works on a migration has one to work on, of its own files.
CallInv ==
    \A r \in Runners :
        /\ todo[r] \subseteq FilesOf[r]
        /\ pc[r] \in WorkLabels => todo[r] # {}
        /\ Executing(r) => stmt[r] < NStmts

TypeInv == TypeOK /\ CallInv

\* The lock of a migration that is run lasts until its holder must extend it.
LeaseInv ==
    \A r \in Runners : HoldsLock(r) =>
        /\ age[r] < Lease
        /\ row[Current(r)].left + age[r] >= Lease
        /\ ~row[Current(r)].completed
        /\ \A q \in Runners \ {r} : HoldsLock(q) => Current(q) # Current(r)

\* Who is about to mark a migration completed ran it.
RanInv ==
    /\ CompletedRan
    /\ \A r \in Runners :
          pc[r] = "complete" \/ (pc[r] \in {"run", "stopping"} /\ result[r] = "nil")
          => r \in ran[Current(r)]

\* Who is about to return an error saw a failure.
BlameInv ==
    \A r \in Runners :
        \/ pc[r] \in {"failed", "stopping", "release"}
        \/ pc[r] = "run" /\ result[r] = "error"
        \/ pc[r] = "read" /\ ~assumed[r] /\ ~table
        => blamed[r]

\* The migrations completed are an initial segment, and so are those a
\* replica has behind it.
OrderInv ==
    /\ \A f, g \in Files : 0 < f /\ f < g /\ row[g].completed => row[f].completed
    /\ \A r \in Runners : pc[r] \in WorkLabels =>
          \A f \in FilesOf[r] : 0 < f /\ f \notin todo[r] => row[f].completed

-----------------------------------------------------------------------------
\* Of a finite set of numbers, Min is the least and Max the greatest, which is
\* what the order of the files and the watermark rest on.  A counterexample
\* would have a least one, by inclusion, and taking an element from that one
\* leaves a set that has both.
LEMMA FiniteEnds ==
    ASSUME NEW S, IsFiniteSet(S), S \subseteq Int, S # {}
    PROVE  /\ Min(S) \in S /\ \A f \in S : Min(S) <= f
           /\ Max(S) \in S /\ \A f \in S : f <= Max(S)
  <1> DEFINE HasMin(T) == \E m \in T : \A f \in T : m <= f
             HasMax(T) == \E m \in T : \A f \in T : m >= f
             Bad == {T \in SUBSET S : T # {} /\ ~(HasMin(T) /\ HasMax(T))}
  <1>1. ASSUME NEW T \in Bad, NEW x \in T, T \ {x} \notin Bad
        PROVE  FALSE
    <2>1. CASE T \ {x} = {}
      BY <1>1, <2>1
    <2>2. CASE T \ {x} # {}
      <3>1. PICK m \in T \ {x} : \A f \in T \ {x} : m <= f
        BY <1>1, <2>2
      <3>2. PICK n \in T \ {x} : \A f \in T \ {x} : n >= f
        BY <1>1, <2>2
      <3>3. T \subseteq Int
        OBVIOUS
      <3>4. HasMin(T)
        BY <3>1, <3>3
      <3>5. HasMax(T)
        BY <3>2, <3>3
      <3> QED BY <3>4, <3>5
    <2> QED BY <2>1, <2>2
  <1>2. Bad = {}
    <2> SUFFICES ASSUME Bad # {} PROVE FALSE
      OBVIOUS
    <2>1. IsWellFoundedOn(StrictSubsetOrdering(S), SUBSET S)
      BY FS_StrictSubsetOrderingWellFounded, FS_FiniteSubsetsOfFinite
    <2>2. Bad \subseteq SUBSET S /\ \A T \in Bad : \E x \in T : TRUE
      OBVIOUS
    <2> HIDE DEF Bad
    <2>3. PICK T \in Bad : \A U \in Bad : ~(<<U, T>> \in StrictSubsetOrdering(S))
      BY <2>1, <2>2, WFMin
    <2>4. PICK x \in T : TRUE
      BY <2>2
    <2>5. <<T \ {x}, T>> \in StrictSubsetOrdering(S)
      BY <2>2, <2>4 DEF StrictSubsetOrdering
    <2> QED BY <1>1, <2>3, <2>4, <2>5
  <1>3. HasMin(S) /\ HasMax(S)
    BY <1>2
  <1>4. Min(S) \in S /\ \A f \in S : Min(S) <= f
    BY <1>3 DEF Min
  <1>5. Max(S) \in S /\ \A f \in S : Max(S) >= f
    BY <1>3 DEF Max
  <1> QED BY <1>4, <1>5

\* There are finitely many files.
LEMMA FilesFinite == IsFiniteSet(Files) /\ Files \subseteq Int
  <1> DEFINE Sets == {FilesOf[r] : r \in Runners}
  <1>1. [r \in Runners |-> FilesOf[r]] \in Surjection(Runners, Sets)
    BY DEF Surjection
  <1>2. IsFiniteSet(Sets)
    BY <1>1, RunnersAssumption, FS_Surjection
  <1>3. \A T \in Sets : IsFiniteSet(T)
    BY FilesAssumption
  <1>4. IsFiniteSet(UNION Sets)
    BY <1>2, <1>3, FS_UNION
  <1> QED BY <1>4, FilesAssumption DEF Files

\* The migration a call works on is the lowest it has left to run.
LEMMA CurrentLowest ==
    ASSUME TypeInv, NEW r \in Runners, pc[r] \in WorkLabels
    PROVE  /\ Current(r) \in todo[r] /\ Current(r) \in FilesOf[r] /\ Current(r) \in Files
           /\ Current(r) \in Int
           /\ \A f \in todo[r] : f \in Int /\ Current(r) <= f
  <1>1. todo[r] \subseteq FilesOf[r] /\ todo[r] # {}
    BY DEF TypeInv, CallInv
  <1>2. FilesOf[r] \subseteq Int /\ IsFiniteSet(FilesOf[r]) /\ FilesOf[r] \subseteq Files
    BY FilesAssumption DEF Files
  <1>3. IsFiniteSet(todo[r])
    BY <1>1, <1>2, FS_Subset
  <1>4. Min(todo[r]) \in todo[r] /\ \A f \in todo[r] : Min(todo[r]) <= f
    BY <1>1, <1>2, <1>3, FiniteEnds
  <1> QED BY <1>1, <1>2, <1>4 DEF Current

\* A call that fails, or does not, keeps the types of the count and the blame.
LEMMA FaultTypes ==
    ASSUME CallsOK, NEW r \in Runners, Fault(r) \/ NoFault
    PROVE  faults' \in 0..MaxFaults /\ blamed' \in [Runners -> BOOLEAN]
  <1>1. CASE Fault(r)
    BY <1>1, BoundAssumption DEF CallsOK, Fault
  <1>2. CASE NoFault
    BY <1>2 DEF CallsOK, NoFault
  <1> QED BY <1>1, <1>2

\* A row that is inserted, locked, marked completed or released is still a row.
LEMMA RowTypes ==
    ASSUME row \in Rows, NEW f \in Files
    PROVE  /\ Inserted(f) \in Rows
           /\ Locked(f) \in Rows
           /\ [row EXCEPT ![f].completed = TRUE, ![f].left = 0] \in Rows
           /\ [row EXCEPT ![f].left = 0] \in Rows
  <1> DEFINE m == [row EXCEPT ![f].completed = TRUE]
  <1>1. m \in Rows
    BY DEF Rows
  <1>2. [m EXCEPT ![f].left = 0] \in Rows
    <2> HIDE DEF m
    <2> QED BY <1>1, LeaseAssumption DEF Rows
  <1>3. [row EXCEPT ![f].completed = TRUE, ![f].left = 0] \in Rows
    BY <1>2
  <1>4. [row EXCEPT ![f].left = 0] \in Rows
    BY LeaseAssumption DEF Rows
  <1>5. Locked(f) \in Rows
    BY LeaseAssumption DEF Rows, Locked
  <1>6. Inserted(f) \in Rows
    BY DEF Rows, Inserted
  <1> QED BY <1>3, <1>4, <1>5, <1>6

\* A call begins with nothing to run.
LEMMA InitType == Init => TypeInv
  <1> SUFFICES ASSUME Init PROVE TypeInv
    OBVIOUS
  <1>1. table \in BOOLEAN
    BY DEF Init
  <1>2. row \in Rows
    BY LeaseAssumption DEF Init, Rows, NoRow
  <1>3. CallsOK
    BY LeaseAssumption, BoundAssumption DEF Init, CallsOK, Labels
  <1>4. CallInv
    BY LeaseAssumption DEF Init, CallInv, WorkLabels, Executing
  <1> QED BY <1>1, <1>2, <1>3, <1>4 DEF TypeInv, TypeOK

\* Every step keeps the types, the files left to run and the statement counts.
LEMMA NextType == TypeInv /\ [Next]_vars => TypeInv'
  <1> SUFFICES ASSUME TypeInv, [Next]_vars PROVE TypeInv'
    OBVIOUS
  <1> DEFINE Lowest(r) == Current(r) \in todo[r] /\ Current(r) \in Files
  <1>a. /\ table \in BOOLEAN /\ row \in Rows /\ CallsOK /\ CallInv
        /\ \A r \in Runners : pc[r] \in WorkLabels => Lowest(r)
    BY CurrentLowest DEF TypeInv, TypeOK
  <1> HIDE DEF Lowest
  <1> USE LeaseAssumption, BoundAssumption
  <1> USE DEF WorkLabels, Labels, Goto, Fault, NoFault, Running, Calling, table_vars, vars
  <1>1. ASSUME NEW r \in Runners, Begin(r) PROVE TypeInv'
    <2>1. table' \in BOOLEAN
      BY <1>1, <1>a DEF Begin
    <2>2. row' \in Rows
      BY <1>1, <1>a DEF Begin
    <2>3. CallsOK'
      BY <1>1, <1>a DEF Begin, CallsOK
    <2>4. CallInv'
      BY <1>1, <1>a DEF Begin, CallsOK, CallInv, Executing
    <2> QED BY <2>1, <2>2, <2>3, <2>4 DEF TypeInv, TypeOK
  <1>2. ASSUME NEW r \in Runners, CreateTable(r) PROVE TypeInv'
    <2>1. table' \in BOOLEAN
      BY <1>2, <1>a DEF CreateTable
    <2>2. row' \in Rows
      BY <1>2, <1>a DEF CreateTable
    <2>3. CallsOK'
      <3>1. Fault(r) \/ NoFault
        BY <1>2 DEF CreateTable
      <3> HIDE DEF Fault, NoFault
      <3>2. faults' \in 0..MaxFaults /\ blamed' \in [Runners -> BOOLEAN]
        BY <1>a, <3>1, FaultTypes
      <3> QED BY <1>2, <1>a, <3>2 DEF CreateTable, CallsOK
    <2>4. CallInv'
      BY <1>2, <1>a DEF CreateTable, CallsOK, CallInv, Executing
    <2> QED BY <2>1, <2>2, <2>3, <2>4 DEF TypeInv, TypeOK
  <1>3. ASSUME NEW r \in Runners, ReadWatermark(r) PROVE TypeInv'
    <2>1. table' \in BOOLEAN
      BY <1>3, <1>a DEF ReadWatermark
    <2>2. row' \in Rows
      BY <1>3, <1>a DEF ReadWatermark
    <2>3. CallsOK'
      BY <1>3, <1>a DEF ReadWatermark, CallsOK, Files
    <2>4. CallInv'
      BY <1>3, <1>a DEF ReadWatermark, CallsOK, CallInv, Executing
    <2> QED BY <2>1, <2>2, <2>3, <2>4 DEF TypeInv, TypeOK
  <1>4. ASSUME NEW r \in Runners, ReadFails(r) PROVE TypeInv'
    <2>1. table' \in BOOLEAN
      BY <1>4, <1>a DEF ReadFails
    <2>2. row' \in Rows
      BY <1>4, <1>a DEF ReadFails
    <2>3. CallsOK'
      <3>1. Fault(r) \/ NoFault
        BY <1>4 DEF ReadFails
      <3> HIDE DEF Fault, NoFault
      <3>2. faults' \in 0..MaxFaults /\ blamed' \in [Runners -> BOOLEAN]
        BY <1>a, <3>1, FaultTypes
      <3> QED BY <1>4, <1>a, <3>2 DEF ReadFails, CallsOK
    <2>4. CallInv'
      BY <1>4, <1>a DEF ReadFails, CallsOK, CallInv, Executing
    <2> QED BY <2>1, <2>2, <2>3, <2>4 DEF TypeInv, TypeOK
  <1>5. ASSUME NEW r \in Runners, InsertRow(r) PROVE TypeInv'
    <2>1. table' \in BOOLEAN
      BY <1>5, <1>a DEF InsertRow
    <2>2. row' \in Rows
      BY <1>5, <1>a, RowTypes DEF InsertRow, Lowest
    <2>3. CallsOK'
      BY <1>5, <1>a DEF InsertRow, CallsOK
    <2>4. CallInv'
      BY <1>5, <1>a DEF InsertRow, CallsOK, CallInv, Executing
    <2> QED BY <2>1, <2>2, <2>3, <2>4 DEF TypeInv, TypeOK
  <1>6. ASSUME NEW r \in Runners, CheckCompleted(r) PROVE TypeInv'
    <2>1. table' \in BOOLEAN
      BY <1>6, <1>a DEF CheckCompleted
    <2>2. row' \in Rows
      BY <1>6, <1>a DEF CheckCompleted, NextFile
    <2>3. CallsOK'
      BY <1>6, <1>a DEF CheckCompleted, CallsOK, NextFile, Lowest
    <2>4. CallInv'
      BY <1>6, <1>a DEF CheckCompleted, CallsOK, CallInv, Executing, NextFile, Lowest
    <2> QED BY <2>1, <2>2, <2>3, <2>4 DEF TypeInv, TypeOK
  <1>7. ASSUME NEW r \in Runners, TakeLock(r) PROVE TypeInv'
    <2>1. table' \in BOOLEAN
      BY <1>7, <1>a DEF TakeLock
    <2>2. row' \in Rows
      BY <1>7, <1>a, RowTypes DEF TakeLock, Lowest
    <2>3. CallsOK'
      BY <1>7, <1>a DEF TakeLock, CallsOK
    <2>4. CallInv'
      BY <1>7, <1>a DEF TakeLock, CallsOK, CallInv, Executing
    <2> QED BY <2>1, <2>2, <2>3, <2>4 DEF TypeInv, TypeOK
  <1>8. ASSUME NEW r \in Runners, Poll(r) PROVE TypeInv'
    <2>1. table' \in BOOLEAN
      BY <1>8, <1>a DEF Poll
    <2>2. row' \in Rows
      BY <1>8, <1>a DEF Poll
    <2>3. CallsOK'
      BY <1>8, <1>a DEF Poll, CallsOK
    <2>4. CallInv'
      BY <1>8, <1>a DEF Poll, CallsOK, CallInv, Executing
    <2> QED BY <2>1, <2>2, <2>3, <2>4 DEF TypeInv, TypeOK
  <1>9. ASSUME NEW r \in Runners, ExtendLock(r) PROVE TypeInv'
    <2>1. table' \in BOOLEAN
      BY <1>9, <1>a DEF ExtendLock
    <2>2. row' \in Rows
      BY <1>9, <1>a, RowTypes DEF ExtendLock, Lowest
    <2>3. CallsOK'
      BY <1>9, <1>a DEF ExtendLock, CallsOK
    <2>4. CallInv'
      BY <1>9, <1>a DEF ExtendLock, CallsOK, CallInv, Executing
    <2> QED BY <2>1, <2>2, <2>3, <2>4 DEF TypeInv, TypeOK
  <1>10. ASSUME NEW r \in Runners, RunEnds(r) PROVE TypeInv'
    <2>1. table' \in BOOLEAN
      BY <1>10, <1>a DEF RunEnds
    <2>2. row' \in Rows
      BY <1>10, <1>a DEF RunEnds
    <2>3. CallsOK'
      BY <1>10, <1>a DEF RunEnds, CallsOK
    <2>4. CallInv'
      BY <1>10, <1>a DEF RunEnds, CallsOK, CallInv, Executing
    <2> QED BY <2>1, <2>2, <2>3, <2>4 DEF TypeInv, TypeOK
  <1>11. ASSUME NEW r \in Runners, MarkComplete(r) PROVE TypeInv'
    <2>1. table' \in BOOLEAN
      BY <1>11, <1>a DEF MarkComplete
    <2>2. row' \in Rows
      BY <1>11, <1>a, RowTypes DEF MarkComplete, Lowest
    <2>3. CallsOK'
      BY <1>11, <1>a DEF MarkComplete, CallsOK, NextFile, Lowest
    <2>4. CallInv'
      BY <1>11, <1>a DEF MarkComplete, CallsOK, CallInv, Executing, NextFile, Lowest
    <2> QED BY <2>1, <2>2, <2>3, <2>4 DEF TypeInv, TypeOK
  <1>12. ASSUME NEW r \in Runners, Release(r) PROVE TypeInv'
    <2>1. table' \in BOOLEAN
      BY <1>12, <1>a DEF Release
    <2>2. row' \in Rows
      BY <1>12, <1>a, RowTypes DEF Release, Lowest
    <2>3. CallsOK'
      <3>1. Fault(r) \/ NoFault
        BY <1>12 DEF Release
      <3> HIDE DEF Fault, NoFault
      <3>2. faults' \in 0..MaxFaults /\ blamed' \in [Runners -> BOOLEAN]
        BY <1>a, <3>1, FaultTypes
      <3> QED BY <1>12, <1>a, <3>2 DEF Release, CallsOK
    <2>4. CallInv'
      BY <1>12, <1>a DEF Release, CallsOK, CallInv, Executing
    <2> QED BY <2>1, <2>2, <2>3, <2>4 DEF TypeInv, TypeOK
  <1>13. ASSUME NEW r \in Runners, StatementRuns(r) PROVE TypeInv'
    <2>1. table' \in BOOLEAN
      BY <1>13, <1>a DEF StatementRuns
    <2>2. row' \in Rows
      BY <1>13, <1>a DEF StatementRuns
    <2>3. CallsOK'
      BY <1>13, <1>a DEF StatementRuns, CallsOK, CallInv, Executing, Lowest
    <2>4. CallInv'
      BY <1>13, <1>a DEF StatementRuns, CallsOK, CallInv, Executing
    <2> QED BY <2>1, <2>2, <2>3, <2>4 DEF TypeInv, TypeOK
  <1>14. ASSUME NEW r \in Runners, StatementFails(r) PROVE TypeInv'
    <2>1. table' \in BOOLEAN
      BY <1>14, <1>a DEF StatementFails
    <2>2. row' \in Rows
      BY <1>14, <1>a DEF StatementFails
    <2>3. CallsOK'
      <3>1. Fault(r) \/ NoFault
        BY <1>14 DEF StatementFails
      <3> HIDE DEF Fault, NoFault
      <3>2. faults' \in 0..MaxFaults /\ blamed' \in [Runners -> BOOLEAN]
        BY <1>a, <3>1, FaultTypes
      <3> QED BY <1>14, <1>a, <3>2 DEF StatementFails, CallsOK, Executing
    <2>4. CallInv'
      BY <1>14, <1>a DEF StatementFails, CallsOK, CallInv, Executing
    <2> QED BY <2>1, <2>2, <2>3, <2>4 DEF TypeInv, TypeOK
  <1>15. ASSUME NEW r \in Runners, CreateTableFails(r) PROVE TypeInv'
    <2>1. table' \in BOOLEAN
      BY <1>15, <1>a DEF CreateTableFails
    <2>2. row' \in Rows
      BY <1>15, <1>a DEF CreateTableFails
    <2>3. CallsOK'
      BY <1>15, <1>a DEF CreateTableFails, CallsOK
    <2>4. CallInv'
      BY <1>15, <1>a DEF CreateTableFails, CallsOK, CallInv, Executing
    <2> QED BY <2>1, <2>2, <2>3, <2>4 DEF TypeInv, TypeOK
  <1>16. ASSUME NEW r \in Runners, FilesUnreadable(r) PROVE TypeInv'
    <2>1. table' \in BOOLEAN
      BY <1>16, <1>a DEF FilesUnreadable
    <2>2. row' \in Rows
      BY <1>16, <1>a DEF FilesUnreadable
    <2>3. CallsOK'
      BY <1>16, <1>a DEF FilesUnreadable, CallsOK
    <2>4. CallInv'
      BY <1>16, <1>a DEF FilesUnreadable, CallsOK, CallInv, Executing
    <2> QED BY <2>1, <2>2, <2>3, <2>4 DEF TypeInv, TypeOK
  <1>17. ASSUME NEW r \in Runners, BookkeepingFails(r) PROVE TypeInv'
    <2>1. table' \in BOOLEAN
      BY <1>17, <1>a DEF BookkeepingFails
    <2>2. row' \in Rows
      BY <1>17, <1>a, RowTypes DEF BookkeepingFails, Lowest
    <2>3. CallsOK'
      BY <1>17, <1>a DEF BookkeepingFails, CallsOK
    <2>4. CallInv'
      BY <1>17, <1>a DEF BookkeepingFails, CallsOK, CallInv, Executing
    <2> QED BY <2>1, <2>2, <2>3, <2>4 DEF TypeInv, TypeOK
  <1>18. ASSUME NEW r \in Runners, ExtendFails(r) PROVE TypeInv'
    <2>1. table' \in BOOLEAN
      BY <1>18, <1>a DEF ExtendFails
    <2>2. row' \in Rows
      BY <1>18, <1>a, RowTypes DEF ExtendFails, Lowest
    <2>3. CallsOK'
      BY <1>18, <1>a DEF ExtendFails, CallsOK
    <2>4. CallInv'
      BY <1>18, <1>a DEF ExtendFails, CallsOK, CallInv, Executing
    <2> QED BY <2>1, <2>2, <2>3, <2>4 DEF TypeInv, TypeOK
  <1>19. ASSUME NEW r \in Runners, MarkFails(r) PROVE TypeInv'
    <2>1. table' \in BOOLEAN
      BY <1>19, <1>a DEF MarkFails
    <2>2. row' \in Rows
      BY <1>19, <1>a, RowTypes DEF MarkFails, Lowest
    <2>3. CallsOK'
      BY <1>19, <1>a DEF MarkFails, CallsOK
    <2>4. CallInv'
      BY <1>19, <1>a DEF MarkFails, CallsOK, CallInv, Executing
    <2> QED BY <2>1, <2>2, <2>3, <2>4 DEF TypeInv, TypeOK
  <1>20. ASSUME NEW r \in Runners, Crash(r) PROVE TypeInv'
    <2>1. table' \in BOOLEAN
      BY <1>20, <1>a DEF Crash
    <2>2. row' \in Rows
      BY <1>20, <1>a DEF Crash
    <2>3. CallsOK'
      BY <1>20, <1>a DEF Crash, CallsOK
    <2>4. CallInv'
      BY <1>20, <1>a DEF Crash, CallsOK, CallInv, Executing
    <2> QED BY <2>1, <2>2, <2>3, <2>4 DEF TypeInv, TypeOK
  <1>21. CASE DatabaseRecreated
    <2>1. table' \in BOOLEAN
      BY <1>21, <1>a DEF DatabaseRecreated
    <2>2. row' \in Rows
      BY <1>21, <1>a DEF DatabaseRecreated, NoRow, Rows
    <2>3. CallsOK'
      BY <1>21, <1>a DEF DatabaseRecreated, CallsOK
    <2>4. CallInv'
      BY <1>21, <1>a DEF DatabaseRecreated, CallsOK, CallInv, Executing
    <2> QED BY <2>1, <2>2, <2>3, <2>4 DEF TypeInv, TypeOK
  <1>22. CASE Tick
    <2>1. table' \in BOOLEAN
      BY <1>22, <1>a DEF Tick
    <2>2. row' \in Rows
      BY <1>22, <1>a DEF Tick, Rows
    <2>3. CallsOK'
      BY <1>22, <1>a DEF Tick, CallsOK, HoldsLock
    <2>4. CallInv'
      BY <1>22, <1>a DEF Tick, CallsOK, CallInv, Executing
    <2> QED BY <2>1, <2>2, <2>3, <2>4 DEF TypeInv, TypeOK
  <1>23. CASE UNCHANGED vars
    BY <1>23, <1>a DEF TypeInv, TypeOK, CallsOK, CallInv, Executing
  <1> QED
    BY <1>1, <1>2, <1>3, <1>4, <1>5, <1>6, <1>7, <1>8, <1>9, <1>10, <1>11,
       <1>12, <1>13, <1>14, <1>15, <1>16, <1>17, <1>18, <1>19, <1>20, <1>21,
       <1>22, <1>23 DEF Next, Step, Failure

-----------------------------------------------------------------------------
\* While every holder of a lock extends it in time, no step lets a lock that is
\* held lapse, or gives it to a second replica.
LEMMA NextLease == ASSUME Timely PROVE TypeInv /\ LeaseInv /\ [Next]_vars => LeaseInv'
  <1> SUFFICES ASSUME TypeInv, LeaseInv, [Next]_vars PROVE LeaseInv'
    OBVIOUS
  <1>a. /\ row \in Rows /\ CallsOK
        /\ \A q \in Runners : pc[q] \in WorkLabels => Current(q) \in Files
    BY CurrentLowest DEF TypeInv, TypeOK
  <1> USE LeaseAssumption
  <1> USE DEF WorkLabels, Goto, Running, table_vars, vars, HoldsLock, LeaseInv,
              CallsOK, Rows, Labels
  <1>1. ASSUME NEW r \in Runners, Begin(r) PROVE LeaseInv'
    BY <1>1, <1>a DEF Begin, Current
  <1>2. ASSUME NEW r \in Runners, CreateTable(r) PROVE LeaseInv'
    BY <1>2, <1>a DEF CreateTable, Current
  <1>3. ASSUME NEW r \in Runners, ReadWatermark(r) PROVE LeaseInv'
    BY <1>3, <1>a DEF ReadWatermark, Current
  <1>4. ASSUME NEW r \in Runners, ReadFails(r) PROVE LeaseInv'
    BY <1>4, <1>a DEF ReadFails, Current
  <1>5. ASSUME NEW r \in Runners, InsertRow(r) PROVE LeaseInv'
    BY <1>5, <1>a DEF InsertRow, Inserted, Current
  <1>6. ASSUME NEW r \in Runners, CheckCompleted(r) PROVE LeaseInv'
    BY <1>6, <1>a DEF CheckCompleted, NextFile, Current
  <1>7. ASSUME NEW r \in Runners, TakeLock(r) PROVE LeaseInv'
    BY <1>7, <1>a DEF TakeLock, Lockable, Locked, Current
  <1>8. ASSUME NEW r \in Runners, Poll(r) PROVE LeaseInv'
    BY <1>8, <1>a DEF Poll, Current
  <1>9. ASSUME NEW r \in Runners, ExtendLock(r) PROVE LeaseInv'
    BY <1>9, <1>a DEF ExtendLock, Locked, Current
  <1>10. ASSUME NEW r \in Runners, RunEnds(r) PROVE LeaseInv'
    BY <1>10, <1>a DEF RunEnds, Current
  <1>11. ASSUME NEW r \in Runners, MarkComplete(r) PROVE LeaseInv'
    BY <1>11, <1>a DEF MarkComplete, NextFile, Current
  <1>12. ASSUME NEW r \in Runners, Release(r) PROVE LeaseInv'
    BY <1>12, <1>a DEF Release, Current
  <1>13. ASSUME NEW r \in Runners, StatementRuns(r) PROVE LeaseInv'
    BY <1>13, <1>a DEF StatementRuns, Executing, Current
  <1>14. ASSUME NEW r \in Runners, StatementFails(r) PROVE LeaseInv'
    BY <1>14, <1>a DEF StatementFails, Executing, Current
  <1>15. ASSUME NEW r \in Runners, CreateTableFails(r) PROVE LeaseInv'
    BY <1>15, <1>a DEF CreateTableFails, Current
  <1>16. ASSUME NEW r \in Runners, FilesUnreadable(r) PROVE LeaseInv'
    BY <1>16, <1>a DEF FilesUnreadable, Current
  <1>17. ASSUME NEW r \in Runners, BookkeepingFails(r) PROVE LeaseInv'
    BY <1>17, <1>a DEF BookkeepingFails, Inserted, Lockable, Locked, Current
  <1>18. ASSUME NEW r \in Runners, ExtendFails(r) PROVE LeaseInv'
    BY <1>18, <1>a DEF ExtendFails, Locked, Current
  <1>19. ASSUME NEW r \in Runners, MarkFails(r) PROVE LeaseInv'
    BY <1>19, <1>a DEF MarkFails, Current
  <1>20. ASSUME NEW r \in Runners, Crash(r) PROVE LeaseInv'
    BY <1>20, <1>a DEF Crash, Current
  <1>21. CASE DatabaseRecreated
    BY <1>21, <1>a DEF DatabaseRecreated, Working, NoRow, Current
  <1>22. CASE Tick
    BY <1>22, <1>a DEF Tick, InTime, Current
  <1>23. CASE UNCHANGED vars
    BY <1>23, <1>a DEF Current
  <1> QED
    BY <1>1, <1>2, <1>3, <1>4, <1>5, <1>6, <1>7, <1>8, <1>9, <1>10, <1>11,
       <1>12, <1>13, <1>14, <1>15, <1>16, <1>17, <1>18, <1>19, <1>20, <1>21,
       <1>22, <1>23 DEF Next, Step, Failure

\* No step marks a migration completed that nobody ran.
LEMMA NextRan == TypeInv /\ RanInv /\ [Next]_vars => RanInv'
  <1> SUFFICES ASSUME TypeInv, RanInv, [Next]_vars PROVE RanInv'
    OBVIOUS
  <1>a. /\ row \in Rows /\ CallsOK
        /\ \A q \in Runners : pc[q] \in WorkLabels => Current(q) \in Files
    BY CurrentLowest DEF TypeInv, TypeOK
  <1> USE DEF WorkLabels, Goto, Running, table_vars, vars, RanInv, CompletedRan,
              CallsOK, Rows, Labels
  <1>1. ASSUME NEW r \in Runners, Begin(r) PROVE RanInv'
    BY <1>1, <1>a DEF Begin, Current
  <1>2. ASSUME NEW r \in Runners, CreateTable(r) PROVE RanInv'
    BY <1>2, <1>a DEF CreateTable, Current
  <1>3. ASSUME NEW r \in Runners, ReadWatermark(r) PROVE RanInv'
    BY <1>3, <1>a DEF ReadWatermark, Current
  <1>4. ASSUME NEW r \in Runners, ReadFails(r) PROVE RanInv'
    BY <1>4, <1>a DEF ReadFails, Current
  <1>5. ASSUME NEW r \in Runners, InsertRow(r) PROVE RanInv'
    BY <1>5, <1>a DEF InsertRow, Inserted, Current
  <1>6. ASSUME NEW r \in Runners, CheckCompleted(r) PROVE RanInv'
    BY <1>6, <1>a DEF CheckCompleted, NextFile, Current
  <1>7. ASSUME NEW r \in Runners, TakeLock(r) PROVE RanInv'
    BY <1>7, <1>a DEF TakeLock, Lockable, Locked, Current
  <1>8. ASSUME NEW r \in Runners, Poll(r) PROVE RanInv'
    BY <1>8, <1>a DEF Poll, Current
  <1>9. ASSUME NEW r \in Runners, ExtendLock(r) PROVE RanInv'
    BY <1>9, <1>a DEF ExtendLock, Locked, Current
  <1>10. ASSUME NEW r \in Runners, RunEnds(r) PROVE RanInv'
    BY <1>10, <1>a DEF RunEnds, Current, Completes
  <1>11. ASSUME NEW r \in Runners, MarkComplete(r) PROVE RanInv'
    BY <1>11, <1>a DEF MarkComplete, NextFile, Current
  <1>12. ASSUME NEW r \in Runners, Release(r) PROVE RanInv'
    <2>1. \A f \in Files : row'[f].completed = row[f].completed
      BY <1>12, <1>a DEF Release
    <2> QED BY <1>12, <1>a, <2>1 DEF Release, Current
  <1>13. ASSUME NEW r \in Runners, StatementRuns(r) PROVE RanInv'
    BY <1>13, <1>a DEF StatementRuns, Executing, Current
  <1>14. ASSUME NEW r \in Runners, StatementFails(r) PROVE RanInv'
    BY <1>14, <1>a DEF StatementFails, Executing, Current
  <1>15. ASSUME NEW r \in Runners, CreateTableFails(r) PROVE RanInv'
    BY <1>15, <1>a DEF CreateTableFails, Current
  <1>16. ASSUME NEW r \in Runners, FilesUnreadable(r) PROVE RanInv'
    BY <1>16, <1>a DEF FilesUnreadable, Current
  <1>17. ASSUME NEW r \in Runners, BookkeepingFails(r) PROVE RanInv'
    BY <1>17, <1>a DEF BookkeepingFails, Inserted, Lockable, Locked, Current
  <1>18. ASSUME NEW r \in Runners, ExtendFails(r) PROVE RanInv'
    <2>1. \A f \in Files : row'[f].completed = row[f].completed
      BY <1>18, <1>a DEF ExtendFails, Locked
    <2> QED BY <1>18, <1>a, <2>1 DEF ExtendFails, Current
  <1>19. ASSUME NEW r \in Runners, MarkFails(r) PROVE RanInv'
    BY <1>19, <1>a DEF MarkFails, Current
  <1>20. ASSUME NEW r \in Runners, Crash(r) PROVE RanInv'
    BY <1>20, <1>a DEF Crash, Current
  <1>21. CASE DatabaseRecreated
    BY <1>21, <1>a DEF DatabaseRecreated, Working, NoRow, Current
  <1>22. CASE Tick
    BY <1>22, <1>a DEF Tick, InTime, Current
  <1>23. CASE UNCHANGED vars
    BY <1>23, <1>a DEF Current
  <1> QED
    BY <1>1, <1>2, <1>3, <1>4, <1>5, <1>6, <1>7, <1>8, <1>9, <1>10, <1>11,
       <1>12, <1>13, <1>14, <1>15, <1>16, <1>17, <1>18, <1>19, <1>20, <1>21,
       <1>22, <1>23 DEF Next, Step, Failure

\* No step makes a call fail, or heads it for failure, without a cause.
LEMMA NextBlame == TypeInv /\ BlameInv /\ [Next]_vars => BlameInv'
  <1> SUFFICES ASSUME TypeInv, BlameInv, [Next]_vars PROVE BlameInv'
    OBVIOUS
  <1>a. /\ table \in BOOLEAN /\ CallsOK /\ CallInv
        /\ \A q \in Runners : pc[q] \in WorkLabels => Current(q) \in Files
    BY CurrentLowest DEF TypeInv, TypeOK
  <1> USE DEF WorkLabels, Goto, Fault, NoFault, Running, Calling, table_vars, vars,
              BlameInv, CallsOK, Labels
  <1>1. ASSUME NEW r \in Runners, Begin(r) PROVE BlameInv'
    BY <1>1, <1>a DEF Begin
  <1>2. ASSUME NEW r \in Runners, CreateTable(r) PROVE BlameInv'
    BY <1>2, <1>a DEF CreateTable
  <1>3. ASSUME NEW r \in Runners, ReadWatermark(r) PROVE BlameInv'
    BY <1>3, <1>a DEF ReadWatermark
  <1>4. ASSUME NEW r \in Runners, ReadFails(r) PROVE BlameInv'
    BY <1>4, <1>a DEF ReadFails, Remakes
  <1>5. ASSUME NEW r \in Runners, InsertRow(r) PROVE BlameInv'
    BY <1>5, <1>a DEF InsertRow, Inserted
  <1>6. ASSUME NEW r \in Runners, CheckCompleted(r) PROVE BlameInv'
    BY <1>6, <1>a DEF CheckCompleted, NextFile
  <1>7. ASSUME NEW r \in Runners, TakeLock(r) PROVE BlameInv'
    BY <1>7, <1>a DEF TakeLock, Lockable, Locked
  <1>8. ASSUME NEW r \in Runners, Poll(r) PROVE BlameInv'
    BY <1>8, <1>a DEF Poll
  <1>9. ASSUME NEW r \in Runners, ExtendLock(r) PROVE BlameInv'
    BY <1>9, <1>a DEF ExtendLock, Locked
  <1>10. ASSUME NEW r \in Runners, RunEnds(r) PROVE BlameInv'
    BY <1>10, <1>a DEF RunEnds, Completes
  <1>11. ASSUME NEW r \in Runners, MarkComplete(r) PROVE BlameInv'
    BY <1>11, <1>a DEF MarkComplete, NextFile
  <1>12. ASSUME NEW r \in Runners, Release(r) PROVE BlameInv'
    BY <1>12, <1>a DEF Release
  <1>13. ASSUME NEW r \in Runners, StatementRuns(r) PROVE BlameInv'
    BY <1>13, <1>a DEF StatementRuns, Executing
  <1>14. ASSUME NEW r \in Runners, StatementFails(r) PROVE BlameInv'
    BY <1>14, <1>a DEF StatementFails, Executing
  <1>15. ASSUME NEW r \in Runners, CreateTableFails(r) PROVE BlameInv'
    BY <1>15, <1>a DEF CreateTableFails
  <1>16. ASSUME NEW r \in Runners, FilesUnreadable(r) PROVE BlameInv'
    BY <1>16, <1>a DEF FilesUnreadable
  <1>17. ASSUME NEW r \in Runners, BookkeepingFails(r) PROVE BlameInv'
    BY <1>17, <1>a DEF BookkeepingFails, Inserted, Lockable, Locked
  <1>18. ASSUME NEW r \in Runners, ExtendFails(r) PROVE BlameInv'
    BY <1>18, <1>a DEF ExtendFails, Locked
  <1>19. ASSUME NEW r \in Runners, MarkFails(r) PROVE BlameInv'
    BY <1>19, <1>a DEF MarkFails
  <1>20. ASSUME NEW r \in Runners, Crash(r) PROVE BlameInv'
    BY <1>20, <1>a DEF Crash
  <1>21. CASE DatabaseRecreated
    BY <1>21, <1>a DEF DatabaseRecreated, Working, NoRow
  <1>22. CASE Tick
    BY <1>22, <1>a DEF Tick, InTime
  <1>23. CASE UNCHANGED vars
    BY <1>23, <1>a
  <1> QED
    BY <1>1, <1>2, <1>3, <1>4, <1>5, <1>6, <1>7, <1>8, <1>9, <1>10, <1>11,
       <1>12, <1>13, <1>14, <1>15, <1>16, <1>17, <1>18, <1>19, <1>20, <1>21,
       <1>22, <1>23 DEF Next, Step, Failure

-----------------------------------------------------------------------------
\* What the watermark has reached is completed.
LEMMA WatermarkCompleted ==
    ASSUME TypeInv, OrderInv
    PROVE  /\ watermark \in Int
           /\ \A f \in Files : 0 < f /\ f <= watermark => row[f].completed
  <1> DEFINE done == {f \in Files : row[f].completed}
             S == {0} \cup done
  <1>1. done \in SUBSET Files /\ done \subseteq Int /\ 0 \in Int
    <2>1. done \in SUBSET Files
      OBVIOUS
    <2> HIDE DEF done
    <2> QED BY <2>1, FilesFinite
  <1>2. S # {} /\ S = done \cup {0}
    OBVIOUS
  <1>3. IsFiniteSet(S)
    BY <1>1, <1>2, FilesFinite, FS_Subset, FS_AddElement
  <1>4. S \subseteq Int
    BY <1>1
  <1> HIDE DEF done, S
  <1>5. Max(S) \in S
    BY <1>2, <1>4, <1>3, FiniteEnds
  <1>6. watermark \in Int /\ (watermark > 0 => watermark \in Files /\ row[watermark].completed)
    BY <1>4, <1>5 DEF watermark, S, done
  <1> QED BY <1>6, FilesFinite DEF OrderInv

\* What comes before the migration a replica works on is completed, of its own
\* files and, releases being cumulative, of everybody's.
LEMMA BeforeCurrent ==
    ASSUME Cumulative, TypeInv, OrderInv, NEW r \in Runners, pc[r] \in WorkLabels,
           NEW f \in Files, 0 < f, f < Current(r)
    PROVE  row[f].completed
  <1>1. f \in FilesOf[r]
    BY CurrentLowest DEF Cumulative, Files
  <1>2. f \notin todo[r]
    BY CurrentLowest, FilesFinite
  <1> QED BY <1>1, <1>2 DEF OrderInv

\* No step completes a migration before an earlier one, or puts behind a
\* replica what is not completed.
LEMMA NextOrder == ASSUME Cumulative PROVE TypeInv /\ OrderInv /\ [Next]_vars => OrderInv'
  <1> SUFFICES ASSUME TypeInv, OrderInv, [Next]_vars PROVE OrderInv'
    OBVIOUS
  <1>a. /\ row \in Rows /\ CallsOK
        /\ \A q \in Runners : pc[q] \in WorkLabels => Current(q) \in Files
        /\ \A q \in Runners : FilesOf[q] \subseteq Files
    BY CurrentLowest DEF TypeInv, TypeOK, Files
  <1>b. \A f \in Files : /\ f \in Int /\ watermark \in Int
                         /\ 0 < f /\ f <= watermark => row[f].completed
    BY WatermarkCompleted, FilesFinite
  <1> USE DEF WorkLabels, Goto, Running, table_vars, vars, OrderInv, CallsOK, Rows, Labels
  <1>1. ASSUME NEW r \in Runners, Begin(r) PROVE OrderInv'
    BY <1>1, <1>a DEF Begin
  <1>2. ASSUME NEW r \in Runners, CreateTable(r) PROVE OrderInv'
    BY <1>2, <1>a DEF CreateTable
  <1>3. ASSUME NEW r \in Runners, ReadWatermark(r) PROVE OrderInv'
    BY <1>3, <1>a, <1>b DEF ReadWatermark
  <1>4. ASSUME NEW r \in Runners, ReadFails(r) PROVE OrderInv'
    BY <1>4, <1>a DEF ReadFails
  <1>5. ASSUME NEW r \in Runners, InsertRow(r) PROVE OrderInv'
    <2>1. \A f \in Files : row'[f].completed = row[f].completed
      BY <1>5, <1>a DEF InsertRow, Inserted
    <2> QED BY <1>5, <1>a, <2>1 DEF InsertRow
  <1>6. ASSUME NEW r \in Runners, CheckCompleted(r) PROVE OrderInv'
    BY <1>6, <1>a DEF CheckCompleted, NextFile
  <1>7. ASSUME NEW r \in Runners, TakeLock(r) PROVE OrderInv'
    <2>1. \A f \in Files : row'[f].completed = row[f].completed
      BY <1>7, <1>a DEF TakeLock, Lockable, Locked
    <2> QED BY <1>7, <1>a, <2>1 DEF TakeLock
  <1>8. ASSUME NEW r \in Runners, Poll(r) PROVE OrderInv'
    BY <1>8, <1>a DEF Poll
  <1>9. ASSUME NEW r \in Runners, ExtendLock(r) PROVE OrderInv'
    <2>1. \A f \in Files : row'[f].completed = row[f].completed
      BY <1>9, <1>a DEF ExtendLock, Locked
    <2> QED BY <1>9, <1>a, <2>1 DEF ExtendLock
  <1>10. ASSUME NEW r \in Runners, RunEnds(r) PROVE OrderInv'
    BY <1>10, <1>a DEF RunEnds
  <1>11. ASSUME NEW r \in Runners, MarkComplete(r) PROVE OrderInv'
    <2>1. \A f \in Files : row'[f].completed = (row[f].completed \/ f = Current(r))
      BY <1>11, <1>a DEF MarkComplete, NextFile
    <2>2. \A f \in Files : 0 < f /\ f < Current(r) => row[f].completed
      BY <1>11, BeforeCurrent DEF MarkComplete
    <2> QED BY <1>11, <1>a, <2>1, <2>2 DEF MarkComplete, NextFile
  <1>12. ASSUME NEW r \in Runners, Release(r) PROVE OrderInv'
    <2>1. \A f \in Files : row'[f].completed = row[f].completed
      BY <1>12, <1>a DEF Release
    <2> QED BY <1>12, <1>a, <2>1 DEF Release
  <1>13. ASSUME NEW r \in Runners, StatementRuns(r) PROVE OrderInv'
    BY <1>13, <1>a DEF StatementRuns, Executing
  <1>14. ASSUME NEW r \in Runners, StatementFails(r) PROVE OrderInv'
    BY <1>14, <1>a DEF StatementFails, Executing
  <1>15. ASSUME NEW r \in Runners, CreateTableFails(r) PROVE OrderInv'
    BY <1>15, <1>a DEF CreateTableFails
  <1>16. ASSUME NEW r \in Runners, FilesUnreadable(r) PROVE OrderInv'
    BY <1>16, <1>a DEF FilesUnreadable
  <1>17. ASSUME NEW r \in Runners, BookkeepingFails(r) PROVE OrderInv'
    <2> DEFINE Same(rows) == \A f \in Files : rows[f].completed = row[f].completed
    <2>1. Same(Inserted(Current(r))) /\ Same(Locked(Current(r)))
      BY <1>17, <1>a DEF BookkeepingFails, Inserted, Locked
    <2>2. Same(row')
      BY <1>17, <2>1 DEF BookkeepingFails
    <2> QED BY <1>17, <1>a, <2>2 DEF BookkeepingFails
  <1>18. ASSUME NEW r \in Runners, ExtendFails(r) PROVE OrderInv'
    <2>1. \A f \in Files : row'[f].completed = row[f].completed
      BY <1>18, <1>a DEF ExtendFails, Locked
    <2> QED BY <1>18, <1>a, <2>1 DEF ExtendFails
  <1>19. ASSUME NEW r \in Runners, MarkFails(r) PROVE OrderInv'
    <2> DEFINE marked == [row EXCEPT ![Current(r)].completed = TRUE, ![Current(r)].left = 0]
    <2>1. \A f \in Files : marked[f].completed <=> row[f].completed \/ f = Current(r)
      <3>1. Current(r) \in Files
        BY <1>19, <1>a DEF MarkFails
      <3> QED BY <3>1, <1>a
    <2>2. \A f \in Files : 0 < f /\ f < Current(r) => row[f].completed
      BY <1>19, BeforeCurrent DEF MarkFails
    <2>3. row' \in {row, marked}
      BY <1>19 DEF MarkFails
    <2> HIDE DEF marked
    <2> QED BY <1>19, <1>a, <2>1, <2>2, <2>3 DEF MarkFails
  <1>20. ASSUME NEW r \in Runners, Crash(r) PROVE OrderInv'
    BY <1>20, <1>a DEF Crash
  <1>21. CASE DatabaseRecreated
    <2>1. \A q \in Runners : pc[q] \notin WorkLabels
      BY <1>21, <1>a DEF DatabaseRecreated, Working
    <2>2. \A f \in Files : ~row'[f].completed
      BY <1>21 DEF DatabaseRecreated, NoRow
    <2> QED BY <1>21, <2>1, <2>2 DEF DatabaseRecreated
  <1>22. CASE Tick
    <2>1. \A f \in Files : row'[f].completed = row[f].completed
      BY <1>22, <1>a DEF Tick, InTime
    <2> QED BY <1>22, <1>a, <2>1 DEF Tick
  <1>23. CASE UNCHANGED vars
    BY <1>23, <1>a
  <1> QED
    BY <1>1, <1>2, <1>3, <1>4, <1>5, <1>6, <1>7, <1>8, <1>9, <1>10, <1>11,
       <1>12, <1>13, <1>14, <1>15, <1>16, <1>17, <1>18, <1>19, <1>20, <1>21,
       <1>22, <1>23 DEF Next, Step, Failure

-----------------------------------------------------------------------------
\* Every variable keeps its type, a call that works on a migration has one to
\* work on, and the statements of a run are counted within bounds.
THEOREM TypeCorrect == Spec => []TypeInv
  BY InitType, NextType, PTL DEF Spec

\* With every lock extended in time, two replicas never run a migration at
\* once, and none runs one that is completed: for every number of replicas,
\* whatever crashes and however often the database is made anew.
THEOREM MutualExclusion == ASSUME Timely PROVE Spec => []OneRunnerAtATime
  <1>1. Init => LeaseInv
    BY DEF Init, LeaseInv, HoldsLock
  <1>2. LeaseInv => OneRunnerAtATime
    BY DEF LeaseInv, OneRunnerAtATime
  <1> QED BY <1>1, <1>2, InitType, NextType, NextLease, PTL DEF Spec

\* A migration recorded as completed ran to its end, also when locks lapse
\* under their holders.
THEOREM CompletedMigrationsRan == Spec => []CompletedRan
  <1>1. Init => RanInv
    BY DEF Init, RanInv, CompletedRan, NoRow
  <1>2. RanInv => CompletedRan
    BY DEF RanInv
  <1> QED BY <1>1, <1>2, InitType, NextType, NextRan, PTL DEF Spec

\* Migrate returns an error only if something failed during the call; a table
\* that was dropped before it is not an error.
THEOREM ErrorsHaveCauses == Spec => []ErrorHasCause
  <1>1. Init => BlameInv
    BY DEF Init, BlameInv
  <1>2. BlameInv => ErrorHasCause
    BY DEF BlameInv, ErrorHasCause
  <1> QED BY <1>1, <1>2, InitType, NextType, NextBlame, PTL DEF Spec

\* Nothing is completed at first, and nobody works.
LEMMA InitOrder == Init => OrderInv
  BY DEF Init, OrderInv, NoRow, WorkLabels

\* Between cumulative releases no statement of a migration takes effect before
\* the migrations before it are completed.
THEOREM MigrationsRunInOrder == ASSUME Cumulative PROVE Spec => RunsInOrder
  <1> DEFINE A == \A r \in Runners : stmt'[r] > stmt[r] =>
                     \A f \in FilesOf[r] : f < Current(r) /\ f > 0 => row[f].completed
  <1>1. TypeInv /\ OrderInv /\ [Next]_vars => [A]_vars
    <2> SUFFICES ASSUME TypeInv, OrderInv, Next, NEW r \in Runners, stmt'[r] > stmt[r],
                        NEW f \in FilesOf[r], f < Current(r), f > 0
                 PROVE  row[f].completed
      OBVIOUS
    <2>1. stmt \in [Runners -> Nat]
      BY LeaseAssumption DEF TypeInv, TypeOK, CallsOK
    <2>2. StatementRuns(r)
      <3>1. ASSUME NEW q \in Runners, Step(q) PROVE ~(stmt'[r] > stmt[r])
        BY <2>1, <3>1 DEF Step, CreateTable, ReadWatermark, ReadFails, InsertRow, CheckCompleted,
           TakeLock, Poll, ExtendLock, RunEnds, MarkComplete, Release, Running
      <3>2. ASSUME NEW q \in Runners, Failure(q) PROVE stmt' = stmt
        BY <3>2 DEF Failure, CreateTableFails, FilesUnreadable, BookkeepingFails, ExtendFails,
           MarkFails, Crash, Running
      <3>3. ASSUME NEW q \in Runners, Begin(q) \/ StatementFails(q) PROVE stmt' = stmt
        BY <3>3 DEF Begin, StatementFails, Running
      <3>4. ASSUME NEW q \in Runners, StatementRuns(q), q # r PROVE stmt'[r] = stmt[r]
        BY <2>1, <3>4 DEF StatementRuns
      <3>5. DatabaseRecreated \/ Tick => stmt' = stmt
        BY DEF DatabaseRecreated, Tick
      <3> QED BY <2>1, <3>1, <3>2, <3>3, <3>4, <3>5 DEF Next
    <2>3. pc[r] \in WorkLabels /\ f \in Files
      BY <2>2 DEF StatementRuns, Executing, WorkLabels, Files
    <2> QED BY <2>3, BeforeCurrent
  <1>2. Spec => [](TypeInv /\ OrderInv)
    BY InitType, NextType, InitOrder, NextOrder, PTL DEF Spec
  <1> QED BY <1>1, <1>2, PTL DEF Spec, RunsInOrder

\* Between cumulative releases Migrate returns nil only when every migration of
\* the replica is completed.
THEOREM NilMeansAllCompleted == ASSUME Cumulative PROVE Spec => NilMeansMigrated
  <1> DEFINE A == \A r \in Runners : pc[r] # "ok" /\ pc'[r] = "ok" =>
                     \A f \in FilesOf[r] : f > 0 => row'[f].completed
  <1>1. TypeInv /\ OrderInv /\ [Next]_vars => [A]_vars
    <2> SUFFICES ASSUME TypeInv, OrderInv, Next, NEW r \in Runners, pc[r] # "ok", pc'[r] = "ok",
                        NEW f \in FilesOf[r], f > 0
                 PROVE  row'[f].completed
      OBVIOUS
    <2>1. pc \in [Runners -> Labels] /\ row \in Rows /\ f \in Files
      BY DEF TypeInv, TypeOK, CallsOK, Files
    <2>2. ReadWatermark(r) \/ CheckCompleted(r) \/ MarkComplete(r)
      <3> DEFINE Elsewhere(q) == q # r => pc'[r] = pc[r]
      <3>1. ASSUME NEW q \in Runners, Step(q)
            PROVE  /\ Elsewhere(q)
                   /\ ReadWatermark(q) \/ CheckCompleted(q) \/ MarkComplete(q) \/ pc'[q] # "ok"
        BY <2>1, <3>1 DEF Step, CreateTable, ReadWatermark, ReadFails, InsertRow, CheckCompleted,
           TakeLock, Poll, ExtendLock, RunEnds, MarkComplete, NextFile, Release, Goto
      <3>2. ASSUME NEW q \in Runners, Failure(q) PROVE Elsewhere(q) /\ pc'[q] # "ok"
        BY <2>1, <3>2 DEF Failure, CreateTableFails, FilesUnreadable, BookkeepingFails, ExtendFails,
           MarkFails, Crash, Goto
      <3>3. ASSUME NEW q \in Runners, Begin(q) PROVE Elsewhere(q) /\ pc'[q] # "ok"
        BY <2>1, <3>3 DEF Begin, Goto
      <3>4. ASSUME NEW q \in Runners, StatementRuns(q) \/ StatementFails(q) PROVE pc' = pc
        BY <3>4 DEF StatementRuns, StatementFails
      <3>5. DatabaseRecreated \/ Tick => pc' = pc
        BY DEF DatabaseRecreated, Tick
      <3> QED BY <3>1, <3>2, <3>3, <3>4, <3>5 DEF Next
    <2>3. CASE ReadWatermark(r)
      BY <2>1, <2>3, WatermarkCompleted, FilesFinite DEF ReadWatermark, Goto
    <2>4. CASE CheckCompleted(r)
      BY <2>1, <2>4 DEF CheckCompleted, NextFile, Goto, OrderInv, WorkLabels, table_vars
    <2>5. CASE MarkComplete(r)
      BY <2>1, <2>5 DEF MarkComplete, NextFile, Goto, OrderInv, WorkLabels, Rows
    <2> QED BY <2>2, <2>3, <2>4, <2>5
  <1>2. Spec => [](TypeInv /\ OrderInv)
    BY InitType, NextType, InitOrder, NextOrder, PTL DEF Spec
  <1> QED BY <1>1, <1>2, PTL DEF Spec, NilMeansMigrated

-----------------------------------------------------------------------------
(* The replicas keep one log of the migrations *)

LogInv == TypeInv /\ LeaseInv /\ RanInv /\ OrderInv

\* No replica but r gets anywhere.
Alone(r) ==
    \A q \in Runners \ {r} : pc'[q] = pc[q] /\ todo'[q] = todo[q]

\* No migration is recorded, and none has run.
SameLog == UNCHANGED ran /\ \A f \in Files : row'[f].completed = row[f].completed

Called(label) == label \notin {"idle", "ok", "failed"}
Holding == {"run", "stopping", "complete", "release"}

\* A step that the log does not show.
Hidden(r) ==
    /\ SameLog /\ Called(pc[r]) /\ Called(pc'[r])
    /\ \/ pc[r] \notin Holding /\ pc'[r] \notin Holding
       \/ pc[r] \in Holding /\ pc'[r] \in Holding /\ todo' = todo
\* The last statement of a run.
Applies(r) ==
    /\ pc[r] \in Holding /\ UNCHANGED <<row, pc, todo>>
    /\ ran' = [ran EXCEPT ![Current(r)] = @ \cup {r}]
\* A migration is marked completed.
Records(r) ==
    /\ pc[r] = "complete" /\ UNCHANGED ran
    /\ \A f \in Files : row'[f].completed <=> row[f].completed \/ f = Current(r)
    /\ pc'[r] \in {"insert", "ok", "failed"}
    /\ pc'[r] = "ok" => \A f \in FilesOf[r] : f > 0 => row'[f].completed
Starts(r) ==
    /\ SameLog /\ pc[r] = "lock" /\ pc'[r] = "run" /\ todo' = todo
    /\ ~row[Current(r)].completed
Nils(r) ==
    /\ SameLog /\ Called(pc[r]) /\ pc[r] \notin Holding /\ pc'[r] = "ok"
    /\ \A f \in FilesOf[r] : f > 0 => row[f].completed
Stops(r) == SameLog /\ pc'[r] \in {"idle", "failed"}
Calls(r) == SameLog /\ ~Called(pc[r]) /\ pc'[r] \in {"read", "ensure"}

Maps(r) ==
    /\ Alone(r)
    /\ \/ Hidden(r) \/ Applies(r) \/ Records(r) \/ Starts(r)
       \/ Nils(r) \/ Stops(r) \/ Calls(r)

\* What a step of a replica is to the log.
LEMMA StepMaps ==
    ASSUME LogInv, NEW r \in Runners,
           Begin(r) \/ Step(r) \/ StatementRuns(r) \/ StatementFails(r) \/ Failure(r)
    PROVE  Maps(r)
  <1>a. /\ TypeInv /\ OrderInv /\ row \in Rows /\ CallsOK
        /\ pc[r] \in WorkLabels => Current(r) \in Files
        /\ FilesOf[r] \subseteq Files
    BY CurrentLowest DEF LogInv, TypeInv, TypeOK, Files
  <1>b. \A f \in Files : 0 < f /\ f <= watermark => row[f].completed
    BY <1>a, WatermarkCompleted
  <1>c. Files \subseteq Int /\ watermark \in Int
    BY <1>a, WatermarkCompleted, FilesFinite
  <1>d. pc[r] \in WorkLabels =>
           \A f \in FilesOf[r] : 0 < f /\ f \notin todo[r] => row[f].completed
    BY <1>a DEF OrderInv
  <1> USE DEF Maps, Alone, Called, Holding, Goto, Running, table_vars, CallsOK, SameLog, WorkLabels
  <1>1. CASE Begin(r)
    BY <1>a, <1>1 DEF Begin, Calls
  <1>2. CASE CreateTable(r)
    BY <1>a, <1>2 DEF CreateTable, Hidden
  <1>3. CASE ReadWatermark(r)
    <2>1. CASE {f \in FilesOf[r] : f > watermark} = {}
      <3>1. \A f \in FilesOf[r] : f > 0 => row[f].completed
        <4>1. \A f \in FilesOf[r] : ~(f > watermark)
          BY <2>1
        <4>2. \A f \in FilesOf[r] : f \in Files /\ f \in Int
          BY <1>a, <1>c
        <4> QED BY <1>b, <1>c, <4>1, <4>2
      <3> QED BY <1>a, <1>3, <2>1, <3>1 DEF ReadWatermark, Nils
    <2>2. CASE {f \in FilesOf[r] : f > watermark} # {}
      BY <1>a, <1>3, <2>2 DEF ReadWatermark, Hidden
    <2> QED BY <2>1, <2>2
  <1>4. CASE ReadFails(r)
    BY <1>a, <1>4 DEF ReadFails, Hidden, Stops
  <1>5. CASE InsertRow(r)
    <2>1. \A f \in Files : row'[f].completed = row[f].completed
      BY <1>5, <1>a DEF InsertRow, Inserted, Rows
    <2> QED BY <1>a, <1>5, <2>1 DEF InsertRow, Hidden
  <1>6. CASE CheckCompleted(r)
    <2>1. CASE row[Current(r)].completed /\ todo[r] = {Current(r)}
      <3>1. \A f \in FilesOf[r] : f > 0 => row[f].completed
        BY <1>6, <1>d, <2>1 DEF CheckCompleted
      <3> QED BY <1>a, <1>6, <2>1, <3>1 DEF CheckCompleted, NextFile, Nils
    <2>2. CASE ~(row[Current(r)].completed /\ todo[r] = {Current(r)})
      BY <1>a, <1>6, <2>2 DEF CheckCompleted, NextFile, Hidden
    <2> QED BY <2>1, <2>2
  <1>7. CASE TakeLock(r)
    <2>1. \A f \in Files : row'[f].completed = row[f].completed
      BY <1>7, <1>a DEF TakeLock, Locked, Rows
    <2> QED BY <1>a, <1>7, <2>1 DEF TakeLock, Lockable, Starts
  <1>8. CASE Poll(r)
    BY <1>a, <1>8 DEF Poll, Hidden
  <1>9. CASE ExtendLock(r) \/ ExtendFails(r)
    <2>0. Current(r) \in Files /\ row' \in {row, Locked(Current(r))}
      BY <1>9, <1>a DEF ExtendLock, ExtendFails
    <2>1. \A f \in Files : row'[f].completed = row[f].completed
      BY <2>0, <1>a DEF Locked, Rows
    <2> QED BY <1>a, <1>9, <2>1 DEF ExtendLock, ExtendFails, Hidden
  <1>10. CASE RunEnds(r)
    BY <1>a, <1>10 DEF RunEnds, Hidden
  <1>11. CASE MarkComplete(r)
    <2>1. \A f \in Files : row'[f].completed <=> row[f].completed \/ f = Current(r)
      BY <1>11, <1>a DEF MarkComplete, Rows
    <2>2. todo[r] = {Current(r)} => \A f \in FilesOf[r] : f > 0 => row'[f].completed
      BY <1>a, <1>11, <1>d, <2>1 DEF MarkComplete
    <2> QED BY <1>a, <1>11, <2>1, <2>2 DEF MarkComplete, NextFile, Records
  <1>12. CASE MarkFails(r)
    <2> DEFINE marked == [row EXCEPT ![Current(r)].completed = TRUE, ![Current(r)].left = 0]
    <2>1. \A f \in Files : marked[f].completed <=> row[f].completed \/ f = Current(r)
      BY <1>12, <1>a DEF MarkFails, Rows
    <2>2. row' \in {row, marked}
      BY <1>12 DEF MarkFails
    <2> HIDE DEF marked
    <2>3. CASE row' = row
      BY <1>a, <1>12, <2>3 DEF MarkFails, Stops
    <2>4. CASE row' = marked
      BY <1>a, <1>12, <2>1, <2>4 DEF MarkFails, Records
    <2> QED BY <2>2, <2>3, <2>4
  <1>13. CASE Release(r)
    <2>1. \A f \in Files : row'[f].completed = row[f].completed
      BY <1>13, <1>a DEF Release, Rows
    <2> QED BY <1>a, <1>13, <2>1 DEF Release, Stops
  <1>14. CASE StatementRuns(r)
    <2>1. CASE stmt[r] + 1 = NStmts
      BY <1>a, <1>14, <2>1 DEF StatementRuns, Executing, Applies
    <2>2. CASE stmt[r] + 1 # NStmts
      BY <1>a, <1>14, <2>2 DEF StatementRuns, Executing, Hidden
    <2> QED BY <2>1, <2>2
  <1>15. CASE StatementFails(r)
    BY <1>a, <1>15 DEF StatementFails, Executing, Hidden
  <1>16. CASE CreateTableFails(r) \/ FilesUnreadable(r)
    BY <1>a, <1>16 DEF CreateTableFails, FilesUnreadable, Stops
  <1>17. CASE BookkeepingFails(r)
    <2> DEFINE Same(rows) == \A f \in Files : rows[f].completed = row[f].completed
    <2>1. Same(Inserted(Current(r))) /\ Same(Locked(Current(r)))
      BY <1>17, <1>a DEF BookkeepingFails, Inserted, Locked, Rows
    <2>2. Same(row')
      BY <1>17, <2>1 DEF BookkeepingFails
    <2> QED BY <1>a, <1>17, <2>2 DEF BookkeepingFails, Stops
  <1>18. CASE Crash(r)
    BY <1>a, <1>18 DEF Crash, Stops
  <1> QED BY <1>1, <1>2, <1>3, <1>4, <1>5, <1>6, <1>7, <1>8, <1>9, <1>10, <1>11, <1>12,
             <1>13, <1>14, <1>15, <1>16, <1>17, <1>18 DEF Step, Failure

\* Each of these is a step of the log, or none.
LEMMA StepRefines ==
    ASSUME Cumulative, LogInv, LogInv', NEW r \in Runners, Maps(r)
    PROVE  [Abstract!Next]_(Abstract!vars)
  <1>a. /\ TypeInv /\ OrderInv /\ pc \in [Runners -> Labels] /\ pc' \in [Runners -> Labels]
        /\ pc[r] \in WorkLabels => Current(r) \in Files /\ Current(r) \in FilesOf[r]
        /\ FilesOf[r] \subseteq Files
    BY CurrentLowest DEF LogInv, TypeInv, TypeOK, CallsOK, Files
  <1>b. \A q \in Runners \ {r} : Held'[q] = Held[q] /\ Status'[q] = Status[q]
    BY DEF Held, Status, HoldsLock, Current, Maps, Alone
  <1>c. SameLog => Completed' = Completed /\ Applied' = Applied
    BY DEF SameLog, Completed, Applied
  <1>d. Held' = [Held EXCEPT ![r] = Held'[r]] /\ Status' = [Status EXCEPT ![r] = Status'[r]]
    BY <1>b DEF Held, Status
  <1>e. pc[r] \notin Holding => Held[r] = {}
    BY DEF Held, HoldsLock, Holding
  <1>f. pc'[r] \notin Holding => Held'[r] = {}
    BY DEF Held, HoldsLock, Holding
  <1>g. pc[r] \in Holding => Held[r] = {Current(r)}
    BY DEF Held, HoldsLock, Holding
  <1>h. pc'[r] \in Holding => Held'[r] = {Current(r)'}
    BY DEF Held, HoldsLock, Holding
  <1>i. /\ Called(pc[r]) => Status[r] = "called"
        /\ ~Called(pc[r]) => Status[r] = pc[r] /\ Status[r] # "called"
        /\ Called(pc'[r]) => Status'[r] = "called"
        /\ ~Called(pc'[r]) => Status'[r] = pc'[r]
    BY DEF Status, Called
  <1>1. CASE Hidden(r)
    <2>1. Held'[r] = Held[r] /\ Status'[r] = Status[r]
      BY <1>1, <1>e, <1>f, <1>g, <1>h, <1>i DEF Hidden, Current
    <2>2. Held' = Held /\ Status' = Status
      BY <1>d, <2>1 DEF Held, Status
    <2> QED BY <1>1, <1>c, <2>2 DEF Hidden, Abstract!vars
  <1>2. CASE Applies(r)
    <2>1. Held' = Held /\ Status' = Status /\ Completed' = Completed
      BY <1>2 DEF Applies, Held, Status, HoldsLock, Current, Completed
    <2>2. Current(r) \in Files /\ ran \in [Files -> SUBSET Runners]
      BY <1>2, <1>a DEF Applies, Holding, WorkLabels, LogInv, TypeInv, TypeOK, CallsOK
    <2>3. Applied' = Applied \cup {Current(r)}
      BY <1>2, <2>2 DEF Applies, Applied
    <2>4. Abstract!Apply(r)
      BY <1>2, <1>g, <2>1, <2>3 DEF Applies, Abstract!Apply
    <2> QED BY <2>4 DEF Abstract!Next
  <1>3. CASE Records(r)
    <2>1. Current(r) \in Files /\ Held[r] = {Current(r)} /\ Held'[r] = {}
      BY <1>3, <1>a, <1>f, <1>g DEF Records, Holding, WorkLabels
    <2>2. Completed' = Completed \cup {Current(r)} /\ Applied' = Applied
      BY <1>3, <2>1 DEF Records, Completed, Applied
    <2>3. Current(r) \in Applied
      BY <1>3, <2>1 DEF Records, LogInv, RanInv, Applied
    <2>4. /\ Status'[r] \in {"called", "failed", "ok"}
          /\ Status'[r] = "ok" => Abstract!Numbered(r) \subseteq Completed'
      BY <1>3, <1>a, <1>i DEF Records, Called, Abstract!Numbered, Completed
    <2>5. Abstract!Record(r)
      BY <1>d, <2>1, <2>2, <2>3, <2>4 DEF Abstract!Record
    <2> QED BY <2>5 DEF Abstract!Next
  <1>4. CASE Starts(r)
    <2>1. /\ Current(r) \in FilesOf[r] /\ Current(r) \in Files /\ Current(r)' = Current(r)
          /\ Held[r] = {} /\ Held'[r] = {Current(r)}
          /\ Status[r] = "called" /\ Status'[r] = "called"
      BY <1>4, <1>a, <1>e, <1>h, <1>i DEF Starts, Holding, WorkLabels, Called, Current
    <2>2. Current(r) \in FilesOf[r] \ Completed
      BY <1>4, <2>1 DEF Starts, Completed
    <2>3. \A g \in Abstract!Numbered(r) : g < Current(r) => g \in Completed
      BY <1>4, <1>a, BeforeCurrent DEF Starts, WorkLabels, Abstract!Numbered, Completed
    <2>4. \A q \in Runners : Current(r) \notin Held[q]
      <3>1. \A q \in Runners \ {r} : HoldsLock(q)' => Current(q)' # Current(r)'
        BY <1>4 DEF LogInv, LeaseInv, HoldsLock, Starts
      <3>2. \A q \in Runners \ {r} : Current(r) \notin Held'[q]
        BY <2>1, <3>1 DEF Held
      <3> QED BY <1>b, <2>1, <3>2
    <2>5. Status' = Status
      BY <1>d, <2>1 DEF Status
    <2>6. Abstract!Start(r)
      BY <1>4, <1>c, <1>d, <2>1, <2>2, <2>3, <2>4, <2>5 DEF Starts, Abstract!Start
    <2> QED BY <2>6 DEF Abstract!Next
  <1>5. CASE Nils(r)
    <2>1. /\ Held[r] = {} /\ Held'[r] = {} /\ Status[r] = "called" /\ Status'[r] = "ok"
      BY <1>5, <1>e, <1>f, <1>i DEF Nils, Called, Holding
    <2>2. Held' = Held
      BY <1>d, <2>1 DEF Held
    <2>3. Abstract!Numbered(r) \subseteq Completed
      BY <1>5, <1>a DEF Nils, Abstract!Numbered, Completed
    <2>4. Abstract!Nil(r)
      BY <1>5, <1>c, <1>d, <2>1, <2>2, <2>3 DEF Nils, Abstract!Nil
    <2> QED BY <2>4 DEF Abstract!Next
  <1>6. CASE Stops(r)
    <2>1. Held'[r] = {} /\ Status'[r] \in {"failed", "idle"}
      BY <1>6, <1>f, <1>i DEF Stops, Called, Holding
    <2>2. Abstract!Stop(r)
      BY <1>6, <1>c, <1>d, <2>1 DEF Stops, Abstract!Stop
    <2> QED BY <2>2 DEF Abstract!Next
  <1>7. CASE Calls(r)
    <2>1. Held[r] = {} /\ Held'[r] = {} /\ Status[r] # "called" /\ Status'[r] = "called"
      BY <1>7, <1>e, <1>f, <1>i DEF Calls, Called, Holding
    <2>2. Held' = Held
      BY <1>d, <2>1 DEF Held
    <2>3. Abstract!Call(r)
      BY <1>7, <1>c, <1>d, <2>1, <2>2 DEF Calls, Abstract!Call
    <2> QED BY <2>3 DEF Abstract!Next
  <1> QED BY <1>1, <1>2, <1>3, <1>4, <1>5, <1>6, <1>7 DEF Maps

\* The replicas implement one log: with any number of replicas, files, statements,
\* faults, crashes and lapsed leases, when they renew in time and releases are
\* cumulative, a migration is executed by one replica at a time, after those before
\* it, enters the log once all of it ran, and nil is answered when the log has all.
THEOREM MigrateKeepsLog ==
    ASSUME Timely, Cumulative
    PROVE  Spec => ImplementsLog
  <1>1. Init => Abstract!Init
    BY DEF Init, Abstract!Init, Completed, Applied, Held, Status, HoldsLock, NoRow
  <1>2. LogInv /\ LogInv' /\ [Next]_vars => [Abstract!Next]_(Abstract!vars)
    <2> SUFFICES ASSUME LogInv, LogInv', [Next]_vars PROVE [Abstract!Next]_(Abstract!vars)
      OBVIOUS
    <2>1. ASSUME NEW r \in Runners,
                 Begin(r) \/ Step(r) \/ StatementRuns(r) \/ StatementFails(r) \/ Failure(r)
          PROVE  [Abstract!Next]_(Abstract!vars)
      <3>1. Maps(r)
        BY <2>1, StepMaps
      <3> QED BY <3>1, StepRefines
    <2>2. CASE DatabaseRecreated
      <3>1. \A r \in Runners : pc[r] \in WorkLabels => Current(r) \in Files
        BY CurrentLowest DEF LogInv
      <3>2. \A r \in Runners : ~HoldsLock(r)
        BY <2>2, <3>1 DEF DatabaseRecreated, Working, HoldsLock, WorkLabels
      <3>3. Held' = Held /\ Status' = Status /\ \A r \in Runners : Held[r] = {}
        BY <2>2, <3>2 DEF DatabaseRecreated, Held, Status, HoldsLock, Current
      <3>4. Completed' = {} /\ Applied' = {}
        BY <2>2 DEF DatabaseRecreated, Completed, Applied, NoRow
      <3>5. Abstract!Recreate
        BY <3>3, <3>4 DEF Abstract!Recreate
      <3> QED BY <3>5 DEF Abstract!Next
    <2>3. CASE Tick
      <3>1. \A f \in Files : row'[f].completed = row[f].completed
        BY <2>3 DEF Tick, LogInv, TypeInv, TypeOK, Rows
      <3> QED BY <2>3, <3>1 DEF Tick, Completed, Applied, Held, Status, HoldsLock, Current, Abstract!vars
    <2>4. CASE UNCHANGED vars
      BY <2>4 DEF vars, Completed, Applied, Held, Status, HoldsLock, Current, Abstract!vars
    <2> QED BY <2>1, <2>2, <2>3, <2>4 DEF Next
  <1>3. Init => LeaseInv /\ RanInv
    BY DEF Init, LeaseInv, RanInv, CompletedRan, HoldsLock, NoRow
  <1>4. Spec => []LogInv
    <2>1. LogInv <=> TypeInv /\ LeaseInv /\ RanInv /\ OrderInv
      BY DEF LogInv
    <2> QED BY <2>1, <1>3, InitType, InitOrder, NextType, NextLease, NextRan, NextOrder, PTL DEF Spec
  <1>5. Spec => Abstract!Init /\ [][Abstract!Next]_(Abstract!vars)
    BY <1>1, <1>2, <1>4, PTL DEF Spec
  <1> QED BY <1>5 DEF ImplementsLog, Abstract!Spec
=============================================================================
