------------------------------ MODULE Migrate -------------------------------
(***************************************************************************)
(* DB.Migrate (db.go): replicas run the numbered migrations of one         *)
(* sequence against a shared database, one after the other, each under a   *)
(* lease kept in the migration's row of sequel_migrations.                 *)
(*                                                                         *)
(* Time is the database's clock, the only one the code compares, in ticks  *)
(* of the renewal period (5s); what is kept of locked_before is how many   *)
(* ticks it lies ahead.  Every call to the database may fail, before or    *)
(* after it took effect; the retries on lock contention are inside it.     *)
(***************************************************************************)
EXTENDS Integers, FiniteSets, FiniteSetsExt

CONSTANTS Runners,     \* the replicas, each a process with its DB
          FilesOf,     \* the numbers of the .sql files each one has
          NStmts,      \* statements in a migration
          Lease,       \* ticks a lock lasts
          Timely,      \* does a runner renew, or give up, within the lease?
          MaxFaults,   \* bound: failures and crashes
          MaxCalls     \* bound: calls of Migrate per replica

ASSUME RunnersAssumption == IsFiniteSet(Runners)
ASSUME FilesAssumption ==
    DOMAIN FilesOf = Runners /\ \A r \in Runners : FilesOf[r] \subseteq Int /\ IsFiniteSet(FilesOf[r])
ASSUME LeaseAssumption == NStmts \in Nat \ {0} /\ Lease \in Nat \ {0} /\ Timely \in BOOLEAN
ASSUME BoundAssumption == MaxFaults \in Nat /\ MaxCalls \in Nat

VARIABLES
    table,    \* does sequel_migrations exist?
    row,      \* its rows: inserted, completed, and ticks the lock has left
    ready,    \* DB.migrationsTableReady
    assumed,  \* the table was taken as made when the call began
    pc,       \* where each replica is in Migrate
    todo,     \* sequenceNumbersToRun
    stmt,     \* statements of the migration under way that took effect
    result,   \* what the goroutine running them has sent on done
    age,      \* ticks since the replica took or extended its lock
    calls,    \* calls made
    faults,   \* failures so far
    blamed,   \* history: something failed in this call
    ran       \* history: who ran all of a migration, in this database

table_vars == <<table, row>>
vars == <<table, row, ready, assumed, pc, todo, stmt, result, age, calls, faults, blamed, ran>>

Files == UNION {FilesOf[r] : r \in Runners}
NoRow == [inserted |-> FALSE, completed |-> FALSE, left |-> 0]
Current(r) == Min(todo[r])

Labels == {"idle", "ensure", "read", "insert", "check", "lock", "run", "stopping",
           "complete", "release", "ok", "failed"}

Rows == [Files -> [inserted : BOOLEAN, completed : BOOLEAN, left : 0..Lease]]

\* The types of each replica's call, and of the history.
CallsOK ==
    /\ ready \in [Runners -> BOOLEAN]
    /\ assumed \in [Runners -> BOOLEAN]
    /\ pc \in [Runners -> Labels]
    /\ todo \in [Runners -> SUBSET Files]
    /\ stmt \in [Runners -> 0..NStmts]
    /\ result \in [Runners -> {"running", "nil", "error"}]
    /\ age \in [Runners -> 0..Lease]
    /\ calls \in [Runners -> 0..MaxCalls]
    /\ faults \in 0..MaxFaults
    /\ blamed \in [Runners -> BOOLEAN]
    /\ ran \in [Files -> SUBSET Runners]

TypeOK == table \in BOOLEAN /\ row \in Rows /\ CallsOK

Init ==
    /\ table = FALSE
    /\ row = [f \in Files |-> NoRow]
    /\ ready = [r \in Runners |-> FALSE]
    /\ assumed = [r \in Runners |-> FALSE]
    /\ pc = [r \in Runners |-> "idle"]
    /\ todo = [r \in Runners |-> {}]
    /\ stmt = [r \in Runners |-> 0]
    /\ result = [r \in Runners |-> "running"]
    /\ age = [r \in Runners |-> 0]
    /\ calls = [r \in Runners |-> 0]
    /\ faults = 0
    /\ blamed = [r \in Runners |-> FALSE]
    /\ ran = [f \in Files |-> {}]

Goto(r, label) == pc' = [pc EXCEPT ![r] = label]

\* Something fails on the replica's behalf.
Fault(r) ==
    /\ faults < MaxFaults
    /\ faults' = faults + 1
    /\ blamed' = [blamed EXCEPT ![r] = TRUE]

NoFault == UNCHANGED <<faults, blamed>>
Running == UNCHANGED <<stmt, result, age, ran>>
Calling == UNCHANGED <<ready, assumed, calls>>

\* The replica is about to run the migration f, or running it.
Working(r, f) ==
    /\ pc[r] \in {"insert", "check", "lock", "run", "stopping", "complete", "release"}
    /\ f = Current(r)

-----------------------------------------------------------------------------
(* The migrations table and the watermark *)

Begin(r) ==
    /\ pc[r] \in {"idle", "ok", "failed"}
    /\ calls[r] < MaxCalls
    /\ calls' = [calls EXCEPT ![r] = @ + 1]
    /\ assumed' = [assumed EXCEPT ![r] = ready[r]]
    /\ blamed' = [blamed EXCEPT ![r] = FALSE]
    /\ Goto(r, IF ready[r] THEN "read" ELSE "ensure")
    /\ UNCHANGED <<table, row, ready, todo, faults>> /\ Running

\* createMigrationsTable: an error is ignored when the table is there after all.
CreateTable(r) ==
    /\ pc[r] = "ensure"
    /\ \/ table' = TRUE /\ NoFault
       \/ table /\ table' = table /\ Fault(r)
    /\ ready' = [ready EXCEPT ![r] = TRUE]
    /\ Goto(r, "read")
    /\ UNCHANGED <<row, assumed, todo, calls>> /\ Running

CreateTableFails(r) ==
    /\ pc[r] = "ensure"
    /\ Fault(r)
    /\ Goto(r, "failed")
    /\ UNCHANGED <<table, row, todo>> /\ Calling /\ Running

\* Mutant: a row is enough.
watermarkInserted == Max({0} \cup {f \in Files : row[f].inserted})

\* The highest number completed, 0 when there is none.
watermark == Max({0} \cup {f \in Files : row[f].completed})

\* The file system is read too: what is left to run, lowest number first.
ReadWatermark(r) ==
    /\ pc[r] = "read"
    /\ table
    /\ LET new == {f \in FilesOf[r] : f > watermark}
       IN  /\ todo' = [todo EXCEPT ![r] = new]
           /\ Goto(r, IF new = {} THEN "ok" ELSE "insert")
    /\ NoFault
    /\ UNCHANGED <<table, row>> /\ Calling /\ Running

\* Mutant: a table taken as made is never made again.
RemakesNever(r) == FALSE

\* A read that fails makes the table again, once, if it was taken as made.
Remakes(r) == assumed[r]

ReadFails(r) ==
    /\ pc[r] = "read"
    /\ IF table THEN Fault(r) ELSE NoFault
    /\ IF Remakes(r)
       THEN /\ assumed' = [assumed EXCEPT ![r] = FALSE]
            /\ ready' = [ready EXCEPT ![r] = FALSE]
            /\ Goto(r, "ensure")
       ELSE Goto(r, "failed") /\ UNCHANGED <<assumed, ready>>
    /\ UNCHANGED <<table, row, todo, calls>> /\ Running

\* The directory, or a file of it, cannot be read.
FilesUnreadable(r) ==
    /\ pc[r] = "read"
    /\ table
    /\ Fault(r)
    /\ Goto(r, "failed")
    /\ UNCHANGED <<table, row, todo>> /\ Calling /\ Running

\* External: the database is made anew under open DBs, outside a migration.
DatabaseRecreated ==
    /\ table
    /\ faults < MaxFaults
    /\ \A r \in Runners, f \in Files : ~Working(r, f)
    /\ table' = FALSE
    /\ row' = [f \in Files |-> NoRow]
    /\ ran' = [f \in Files |-> {}]
    /\ faults' = faults + 1
    /\ blamed' = [r \in Runners |-> blamed[r] \/ pc[r] \in {"ensure", "read"}]
    /\ UNCHANGED <<ready, assumed, pc, todo, stmt, result, age, calls>>

-----------------------------------------------------------------------------
(* One migration: its row, its lock *)

\* A row already there is left alone; a new one is locked until the moment it
\* is written.
Inserted(f) == IF row[f].inserted THEN row ELSE [row EXCEPT ![f].inserted = TRUE]

InsertRow(r) ==
    /\ pc[r] = "insert"
    /\ row' = Inserted(Current(r))
    /\ Goto(r, "check")
    /\ NoFault
    /\ UNCHANGED <<table, todo>> /\ Calling /\ Running

\* Mutant: the migration stays the first one to run.
NextFileKeeps(r) == todo' = todo /\ Goto(r, "insert")

\* The migration is done with: on to the next.
NextFile(r) ==
    /\ todo' = [todo EXCEPT ![r] = @ \ {Current(r)}]
    /\ Goto(r, IF todo[r] = {Current(r)} THEN "ok" ELSE "insert")

CheckCompleted(r) ==
    /\ pc[r] = "check"
    /\ IF row[Current(r)].completed THEN NextFile(r)
       ELSE todo' = todo /\ Goto(r, "lock")
    /\ NoFault
    /\ UNCHANGED table_vars /\ Calling /\ Running

\* Mutant: whoever asks gets the lock.
LockableAlways(f) == ~row[f].completed

\* The UPDATE's condition: the lock has lapsed and nobody completed it.
Lockable(f) == row[f].left = 0 /\ ~row[f].completed

Locked(f) == [row EXCEPT ![f].left = Lease]

TakeLock(r) ==
    /\ pc[r] = "lock"
    /\ Lockable(Current(r))
    /\ row' = Locked(Current(r))
    /\ stmt' = [stmt EXCEPT ![r] = 0]
    /\ result' = [result EXCEPT ![r] = "running"]
    /\ age' = [age EXCEPT ![r] = 0]
    /\ Goto(r, "run")
    /\ NoFault
    /\ UNCHANGED <<table, todo, ran>> /\ Calling

\* Mutant: what another replica runs is skipped.
PollSkips(r) ==
    /\ pc[r] = "lock"
    /\ ~Lockable(Current(r))
    /\ NextFile(r)
    /\ NoFault
    /\ UNCHANGED table_vars /\ Calling /\ Running

\* Another replica holds the lock: sleep, and start over.
Poll(r) ==
    /\ pc[r] = "lock"
    /\ ~Lockable(Current(r))
    /\ Goto(r, "insert")
    /\ NoFault
    /\ UNCHANGED <<table, row, todo>> /\ Calling /\ Running

\* A bookkeeping statement fails, and so does the call, though the row may be
\* inserted or locked.
BookkeepingFails(r) ==
    /\ pc[r] \in {"insert", "check", "lock"}
    /\ Fault(r)
    /\ \/ row' = row
       \/ pc[r] = "insert" /\ row' = Inserted(Current(r))
       \/ pc[r] = "lock" /\ Lockable(Current(r)) /\ row' = Locked(Current(r))
    /\ Goto(r, "failed")
    /\ UNCHANGED <<table, todo>> /\ Calling /\ Running

-----------------------------------------------------------------------------
(* Running it: the goroutine executes, Migrate waits and extends the lock *)

Executing(r) == pc[r] \in {"run", "stopping"} /\ result[r] = "running"

\* Once cancelled, the statement in flight is the last one.
StatementRuns(r) ==
    /\ Executing(r)
    /\ stmt' = [stmt EXCEPT ![r] = @ + 1]
    /\ result' = [result EXCEPT ![r] =
                     IF stmt[r] + 1 = NStmts THEN "nil"
                     ELSE IF pc[r] = "stopping" THEN "error" ELSE "running"]
    /\ ran' = IF stmt[r] + 1 = NStmts THEN [ran EXCEPT ![Current(r)] = @ \cup {r}] ELSE ran
    /\ NoFault
    /\ UNCHANGED <<table, row, pc, todo, age>> /\ Calling

StatementFails(r) ==
    /\ Executing(r)
    /\ IF pc[r] = "stopping" THEN NoFault ELSE Fault(r)
    /\ result' = [result EXCEPT ![r] = "error"]
    /\ UNCHANGED <<table, row, pc, todo, stmt, age, ran>> /\ Calling

ExtendLock(r) ==
    /\ pc[r] = "run"
    /\ age[r] > 0
    /\ row' = Locked(Current(r))
    /\ age' = [age EXCEPT ![r] = 0]
    /\ NoFault
    /\ UNCHANGED <<table, pc, todo, stmt, result, ran>> /\ Calling

\* The lock may lapse, so the run is cancelled, and waited for.
ExtendFails(r) ==
    /\ pc[r] = "run"
    /\ age[r] > 0
    /\ Fault(r)
    /\ row' \in {row, Locked(Current(r))}
    /\ Goto(r, "stopping")
    /\ UNCHANGED <<table, todo>> /\ Calling /\ Running

\* Mutant: a run that failed is completed too.
CompletesAlways(r) == TRUE

\* Statements that all ran are a success even when the lock was not extended.
Completes(r) == result[r] = "nil"

RunEnds(r) ==
    /\ pc[r] \in {"run", "stopping"}
    /\ result[r] # "running"
    /\ Goto(r, IF Completes(r) THEN "complete" ELSE "release")
    /\ NoFault
    /\ UNCHANGED <<table, row, todo>> /\ Calling /\ Running

\* The UPDATE that marks it, whoever holds the lock by now.
MarkComplete(r) ==
    /\ pc[r] = "complete"
    /\ row' = [row EXCEPT ![Current(r)].completed = TRUE, ![Current(r)].left = 0]
    /\ NextFile(r)
    /\ NoFault
    /\ UNCHANGED table /\ Calling /\ Running

MarkFails(r) ==
    /\ pc[r] = "complete"
    /\ Fault(r)
    /\ row' \in {row, [row EXCEPT ![Current(r)].completed = TRUE, ![Current(r)].left = 0]}
    /\ Goto(r, "failed")
    /\ UNCHANGED <<table, todo>> /\ Calling /\ Running

\* The lock is released, whoever holds it by now; an error here is ignored.
Release(r) ==
    /\ pc[r] = "release"
    /\ \/ row' = [row EXCEPT ![Current(r)].left = 0] /\ NoFault
       \/ row' = row /\ Fault(r)
    /\ Goto(r, "failed")
    /\ UNCHANGED <<table, todo>> /\ Calling /\ Running

-----------------------------------------------------------------------------
\* The process dies, its statements with it, and comes back with a new DB.
Crash(r) ==
    /\ pc[r] # "idle"
    /\ Fault(r)
    /\ Goto(r, "idle")
    /\ ready' = [ready EXCEPT ![r] = FALSE]
    /\ todo' = [todo EXCEPT ![r] = {}]
    /\ result' = [result EXCEPT ![r] = "error"]
    /\ UNCHANGED <<table, row, assumed, stmt, age, calls, ran>>

HoldsLock(r) == pc[r] \in {"run", "stopping", "complete", "release"}

(***************************************************************************)
(* The timing assumption: a replica extends its lock, or is done with the  *)
(* migration, before the lease lapses.  It is the code's own: the renewal  *)
(* is due after a third of the lease.                                      *)
(***************************************************************************)
InTime(r) == HoldsLock(r) => age[r] + 1 < Lease

Tick ==
    /\ \E f \in Files : row[f].left > 0
    /\ Timely => \A r \in Runners : InTime(r)
    /\ row' = [f \in Files |-> [row[f] EXCEPT !.left = IF @ > 0 THEN @ - 1 ELSE 0]]
    /\ age' = [r \in Runners |-> IF HoldsLock(r) /\ age[r] < Lease THEN age[r] + 1 ELSE age[r]]
    /\ UNCHANGED <<table, ready, assumed, pc, todo, stmt, result, calls, faults, blamed, ran>>

Step(r) ==
    \/ CreateTable(r) \/ ReadWatermark(r) \/ ReadFails(r) \/ InsertRow(r) \/ CheckCompleted(r)
    \/ TakeLock(r) \/ Poll(r) \/ ExtendLock(r) \/ RunEnds(r) \/ MarkComplete(r) \/ Release(r)

Failure(r) ==
    \/ CreateTableFails(r) \/ FilesUnreadable(r) \/ BookkeepingFails(r)
    \/ ExtendFails(r) \/ MarkFails(r) \/ Crash(r)

Next ==
    \/ \E r \in Runners :
          Begin(r) \/ Step(r) \/ StatementRuns(r) \/ StatementFails(r) \/ Failure(r)
    \/ DatabaseRecreated
    \/ Tick

Spec == Init /\ [][Next]_vars

(***************************************************************************)
(* Every replica is scheduled, a statement sent to the database ends, the  *)
(* clock goes on, and a result sent on done is received: each turn of the  *)
(* select starts a new timer.  Nothing has to fail.                        *)
(***************************************************************************)
Fairness ==
    /\ \A r \in Runners :
          /\ WF_vars(Step(r))
          /\ WF_vars(RunEnds(r))
          /\ WF_vars(StatementRuns(r) \/ StatementFails(r))
    /\ WF_vars(Tick)

FairSpec == Spec /\ Fairness

-----------------------------------------------------------------------------
(* Properties *)

(***************************************************************************)
(* Two replicas never run the same migration at once, and none is still    *)
(* running one that another has completed.                                 *)
(***************************************************************************)
OneRunnerAtATime ==
    \A r \in Runners : HoldsLock(r) =>
        /\ ~row[Current(r)].completed
        /\ \A q \in Runners \ {r} : HoldsLock(q) => Current(q) # Current(r)

(***************************************************************************)
(* A migration is recorded as completed only if all of its statements ran, *)
(* in one run, however often runs failed, crashed or were taken over.      *)
(***************************************************************************)
CompletedRan == \A f \in Files : row[f].completed => ran[f] # {}

\* What a deployment may rely on: a release never leaves out a migration that
\* comes before one it has.
Cumulative ==
    \A q, r \in Runners : \A f \in FilesOf[q], g \in FilesOf[r] :
        0 < f /\ f < g => f \in FilesOf[r]

(***************************************************************************)
(* A statement of a migration takes effect only after every migration      *)
(* before it was completed.                                                *)
(***************************************************************************)
RunsInOrder ==
    [][\A r \in Runners : stmt'[r] > stmt[r] =>
          \A f \in FilesOf[r] : f < Current(r) /\ f > 0 => row[f].completed]_vars

(***************************************************************************)
(* Migrate returns nil only when every migration the replica has is        *)
(* recorded as completed, by it or by others.                              *)
(***************************************************************************)
NilMeansMigrated ==
    [][\A r \in Runners : pc[r] # "ok" /\ pc'[r] = "ok" =>
          \A f \in FilesOf[r] : f > 0 => row'[f].completed]_vars

(* What of the state the promise is about: the log, what ran, who executes *)
(* what, and how the calls stand.                                          *)
Completed == {f \in Files : row[f].completed}
Applied == {f \in Files : ran[f] # {}}
Held == [r \in Runners |-> IF HoldsLock(r) THEN {Current(r)} ELSE {}]
Status == [r \in Runners |-> IF pc[r] \in {"idle", "ok", "failed"} THEN pc[r] ELSE "called"]

Abstract == INSTANCE MigrationLog WITH
    log <- Completed, applied <- Applied, executing <- Held, status <- Status

(***************************************************************************)
(* The replicas, their leases and the rows they race for keep one log of   *)
(* the migrations: each is executed by one replica at a time and in the    *)
(* order of the numbers, enters the log once all of it ran, and nil is     *)
(* answered when the log has all.                                          *)
(***************************************************************************)
ImplementsLog == Abstract!Spec

(***************************************************************************)
(* Migrate fails only when something failed during the call: a table that  *)
(* went away before it is made again.                                      *)
(***************************************************************************)
ErrorHasCause == \A r \in Runners : pc[r] = "failed" => blamed[r]

\* Every call of Migrate returns, also when the holder of a lock is gone.
CallsReturn ==
    \A r \in Runners : pc[r] \notin {"idle", "ok", "failed"} ~> pc[r] \in {"idle", "ok", "failed"}
=============================================================================
