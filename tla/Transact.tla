------------------------------ MODULE Transact ------------------------------
(***************************************************************************)
(* DB.Transact and transactOnce (db.go): attempts of a closure in a        *)
(* transaction, each committed or rolled back before the next.  The        *)
(* transaction the closure uses is the one of module Tx.                   *)
(***************************************************************************)
EXTENDS Tx

CONSTANTS Drivers,            \* the databases to run on
          transactMaxAttempts \* bound on the attempts

ASSUME DriverAssumption == Drivers \subseteq {"pgx", "mssql", "other"}
ASSUME AttemptAssumption == transactMaxAttempts \in Nat \ {0}

VARIABLES pc,        \* where Transact is
          attempts,  \* attempts begun
          ret,       \* the error of the attempt, or "panic"
          conn,      \* is the connection under the transaction held?
          commits    \* history: transactions committed

transactVars == <<pc, attempts, ret, conn, commits>>
allVars == <<vars, transactVars>>

\* The types of Transact's own state, over those of the transaction.
TransactTypeOK ==
    /\ TypeOK
    /\ pc \in {"begin", "setup", "fn", "check", "commit", "rollback", "release",
               "attempted", "done"}
    /\ attempts \in 0..transactMaxAttempts
    /\ ret \in Outcome \cup {"panic"}
    /\ conn \in BOOLEAN
    /\ commits \in Nat

\* Between attempts there is no transaction: as after a rollback.
Init ==
    /\ autoErr = TRUE
    /\ driver \in Drivers
    /\ srv = FreshSrv("rolledback")
    /\ tx = FreshTx
    /\ batch = FreshBatches
    /\ at = Idle
    /\ other = NoOther
    /\ hist = FreshHist
    /\ pc = "begin"
    /\ attempts = 0
    /\ ret = "none"
    /\ conn = FALSE
    /\ commits = 0

CountCommits ==
    commits' = IF srv.tx # "committed" /\ srv'.tx = "committed"
               THEN commits + 1 ELSE commits

-----------------------------------------------------------------------------
\* BEGIN succeeds: a new Tx, on a held connection on the pgx drivers.
BeginSucceeds ==
    /\ pc = "begin"
    /\ attempts' = attempts + 1
    /\ srv' = FreshSrv("active")
    /\ tx' = FreshTx
    /\ batch' = FreshBatches
    /\ at' = Idle
    /\ other' = NoOther
    /\ hist' = FreshHist
    /\ conn' = (driver = "pgx")
    /\ pc' = IF driver = "mssql" THEN "setup" ELSE "fn"
    /\ UNCHANGED <<autoErr, driver, ret, commits>>

\* BEGIN fails, or the checkout does: nothing is held.
BeginFails ==
    /\ pc = "begin"
    /\ attempts' = attempts + 1
    /\ ret' \in Errors
    /\ pc' = "attempted"
    /\ UNCHANGED <<vars, conn, commits>>

\* setXactAbort, on SQL Server.
SetXactAbort ==
    /\ pc = "setup"
    /\ \/ pc' = "fn" /\ UNCHANGED <<srv, ret>>
       \/ pc' = "rollback" /\ ret' \in Errors /\ srv' \in {srv} \cup AfterFailure
    /\ UNCHANGED <<autoErr, driver, tx, batch, at, other, hist, attempts, conn, commits>>

\* The closure uses the transaction.
FnUses ==
    /\ pc = "fn"
    /\ CallerCalls \/ CallGoesOn \/ Recovers \/ HelperCalls
    /\ CountCommits
    /\ UNCHANGED <<pc, attempts, ret, conn>>

\* The errors the closure can return: its own, or one it was given.
FnErrors == ({"error", tx.err} \cup {batch[b].err : b \in Batches}) \ {"none"}

\* The closure returns when the goroutines it started are done, a watchdog
\* apart, and its Rows are scanned, as Row asks.
FnMayReturn ==
    pc = "fn" /\ at.call = "caller" /\ other.call # "sending" /\ tx.row = "none"

FnReturnsNil ==
    /\ FnMayReturn
    /\ pc' = "check"
    /\ UNCHANGED <<vars, attempts, ret, conn, commits>>

\* Mutant: the attempt ends without a rollback.
FnReturnsErrorOpen ==
    /\ FnMayReturn
    /\ ret' \in FnErrors
    /\ pc' = "release"
    /\ UNCHANGED <<vars, attempts, conn, commits>>

FnReturnsError ==
    /\ FnMayReturn
    /\ ret' \in FnErrors
    /\ pc' = "rollback"
    /\ UNCHANGED <<vars, attempts, conn, commits>>

FnPanics ==
    /\ pc = "fn"
    /\ at.call \in {"caller", "panic"}
    /\ other.call # "sending"
    /\ ret' = "panic"
    /\ pc' = "rollback"
    /\ at' = Idle
    /\ UNCHANGED <<autoErr, driver, srv, tx, batch, other, hist, attempts, conn, commits>>

\* Mutant: the recorded error is not looked at.
CheckPendingOnly ==
    /\ pc = "check"
    /\ \/ batchPending /\ ret' = "error" /\ pc' = "rollback"
       \/ ~batchPending /\ ret' = ret /\ pc' = "commit"
    /\ UNCHANGED <<vars, attempts, conn, commits>>

\* After the closure: its recorded error, then a batch left pending.
Check ==
    /\ pc = "check"
    /\ \/ tx.err # "none" /\ ret' = tx.err /\ pc' = "rollback"
       \/ tx.err = "none" /\ batchPending /\ ret' = "error" /\ pc' = "rollback"
       \/ tx.err = "none" /\ ~batchPending /\ ret' = ret /\ pc' = "commit"
    /\ UNCHANGED <<vars, attempts, conn, commits>>

TransactCommits ==
    /\ pc = "commit"
    /\ \E o \in CommitOutcomes :
          /\ tx' = o.tx
          /\ srv' = o.srv
          /\ ret' = o.err
          /\ pc' = IF o.err = "none" THEN "release" ELSE "rollback"
    /\ CountCommits
    /\ UNCHANGED <<autoErr, driver, batch, at, other, hist, attempts, conn>>

\* The deferred Rollback.
RollsBack ==
    /\ pc = "rollback"
    /\ Rollback
    /\ pc' = "release"
    /\ UNCHANGED <<attempts, ret, conn, commits>>

\* The deferred conn.Close, which waits for the transaction to end.
ReleasesConn ==
    /\ pc = "release"
    /\ conn => Ended
    /\ conn' = FALSE
    /\ pc' = "attempted"
    /\ UNCHANGED <<vars, attempts, ret, commits>>

\* Mutant: every error is retried.
RetriesAnyError ==
    /\ pc = "attempted"
    /\ ret \in Errors /\ attempts < transactMaxAttempts
    /\ pc' = "begin"
    /\ ret' = "none"
    /\ UNCHANGED <<vars, attempts, conn, commits>>

\* Only lock contention is retried, and not for ever.
Retries ==
    /\ pc = "attempted"
    /\ ret = "contention" /\ attempts < transactMaxAttempts
    /\ pc' = "begin"
    /\ ret' = "none"
    /\ UNCHANGED <<vars, attempts, conn, commits>>

Returns ==
    /\ pc = "attempted"
    /\ ~(ret = "contention" /\ attempts < transactMaxAttempts)
    /\ pc' = "done"
    /\ UNCHANGED <<vars, attempts, ret, conn, commits>>

\* The watchdog and the end of the context may come at any time.
Interrupts ==
    /\ pc \in {"fn", "check", "commit", "rollback"}
    /\ Watchdog \/ ContextEnds
    /\ UNCHANGED transactVars

Terminated == pc = "done" /\ UNCHANGED allVars

FnEnds == FnReturnsNil \/ FnReturnsError \/ FnPanics
TransactStep ==
    \/ BeginSucceeds \/ BeginFails \/ SetXactAbort \/ Check \/ TransactCommits
    \/ RollsBack \/ ReleasesConn \/ Retries \/ Returns

Next == TransactStep \/ FnUses \/ FnEnds \/ Interrupts \/ Terminated

TransactSpec == Init /\ [][Next]_allVars

(***************************************************************************)
(* The goroutine running Transact is scheduled, statements get an answer,  *)
(* and the closure, the caller's code, returns.                            *)
(***************************************************************************)
Fairness ==
    /\ WF_allVars(TransactStep)
    /\ WF_allVars(pc = "fn" /\ CallGoesOn /\ CountCommits /\ UNCHANGED <<pc, attempts, ret, conn>>)
    /\ SF_allVars(FnEnds)

FairTransactSpec == TransactSpec /\ Fairness

-----------------------------------------------------------------------------
(* Properties *)

(***************************************************************************)
(* No partial commits: a transaction that committed had no statement or    *)
(* read fail, no statement refused or dropped, and every batch queued on   *)
(* it took effect in full, whatever errors the closure ignored.            *)
(***************************************************************************)
NoPartialCommit ==
    srv.tx = "committed" =>
        ~hist.failed /\ ~hist.dropped /\ \A b \in Batches : Applied(b)

(***************************************************************************)
(* No statement takes effect outside the transaction: not after the server *)
(* lost it to a deadlock, and not on a connection whose transaction is     *)
(* over, where it would commit by itself.                                  *)
(***************************************************************************)
NothingOutside == srv.stray = {}

(***************************************************************************)
(* An attempt begins only when the one before is rolled back and its       *)
(* connection is back in the pool.                                         *)
(***************************************************************************)
RetryAfterRollback ==
    [][attempts' > attempts => srv.tx = "rolledback" /\ ~conn]_allVars

\* Transact returns, or panics, with its connection released.
TransactReturns == <>[](pc = "done" /\ ~conn)

-----------------------------------------------------------------------------
(* Refinement *)

\* The statements that the closure asked for in this attempt.
Asked ==
    {<<NoBatch, n>> : n \in 1..hist.plain}
        \cup UNION {{<<b, i>> : i \in 1..batch[b].items} : b \in Batches}

Abstract == INSTANCE AtomicTransaction WITH
    NoAnswer  <- "none",
    asked     <- Asked,
    durable   <- IF commits > 0 THEN {srv.work[p] : p \in DOMAIN srv.work} ELSE {},
    committed <- commits > 0,
    answer    <- IF pc # "done" THEN "none" ELSE IF ret = "none" THEN "nil" ELSE "failed"

(***************************************************************************)
(* Transact implements the atomic transaction: with its attempts, its      *)
(* recorded errors, its checks before Commit and a second goroutine,       *)
(* exactly what the closure of one attempt asked for becomes durable, in   *)
(* one step, or nothing does, and nil is answered only in the first case.  *)
(* (What a lost transaction lets through by itself is NothingOutside's.)   *)
(***************************************************************************)
ImplementsAtomic == Abstract!Spec
=============================================================================
