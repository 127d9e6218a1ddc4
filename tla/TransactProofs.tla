--------------------------- MODULE TransactProofs ---------------------------
(***************************************************************************)
(* Proofs about Transact for every number of attempts, batches and         *)
(* statements, on every driver.  Every step is one of a few kinds: quiet   *)
(* or a step on one batch (module TxProofs), a watchdog's, the failure of  *)
(* setXactAbort, or a new BEGIN.                                           *)
(***************************************************************************)
EXTENDS Transact, TxProofs

\* Where Transact is: the closure is over outside "fn", the setup is SQL Server's,
\* no connection is held between attempts, and an attempt begins within the bound.
PlaceInv ==
    /\ TransactTypeOK
    /\ autoErr
    /\ pc # "fn" => at.call = "caller"
    /\ pc = "setup" => driver = "mssql" /\ srv.tx = "active"
    /\ pc \in {"begin", "attempted", "done"} => ~conn
    /\ pc = "begin" => attempts < transactMaxAttempts

\* setXactAbort fails on the server: all that is lost is the transaction.
SetupLoses ==
    /\ pc = "setup" /\ pc' = "rollback"
    /\ UNCHANGED <<autoErr, driver, tx, batch, at, other, hist>>
    /\ driver = "mssql" /\ srv.tx = "active"
    /\ srv' \in SrvFields /\ srv'.tx = "lost" /\ srv'.work = <<>> /\ srv'.stray = srv.stray

\* A watchdog rolls back under the caller.
WatchdogSteps ==
    /\ UNCHANGED <<srv, hist>> /\ tx'.row = tx.row /\ tx'.err = tx.err
    /\ \/ "watchdog" \in Helpers /\ WatchdogReads
       \/ other.call = "abandon" /\ \E b \in Batches : TxInv' /\ WorkMoves(b)

\* The steps that are not quiet, outside the closure: the same for every invariant.
LEMMA WatchdogKinds ==
    ASSUME TxInv, Watchdog
    PROVE  (Quiet /\ UNCHANGED <<batch, hist>>) \/ WatchdogSteps
  <1>1. tx \in TxFields /\ CallInv
    BY TypeFields DEF TxInv
  <1>2. WatchdogReads => WatchdogSteps
    BY DEF WatchdogReads, WatchdogSteps
  <1>3. ASSUME WatchdogAbandons PROVE WatchdogSteps
    <2>1. PICK b \in Batches : b = other.b
      BY <1>1, <1>3 DEF WatchdogAbandons, CallInv
    <2>2. /\ UNCHANGED <<srv, hist>> /\ tx'.row = tx.row /\ tx'.err = tx.err
          /\ other.call = "abandon"
      BY <1>1, <1>3, ReleasedTypes DEF WatchdogAbandons
    <2> QED BY <1>3, <2>1, <2>2, AbandonsKeeps DEF WatchdogSteps
  <1>4. WatchdogFinalizes => Quiet /\ UNCHANGED <<batch, hist>>
    BY FinalizesQuiet DEF WatchdogFinalizes
  <1> QED BY <1>2, <1>3, <1>4 DEF Watchdog

\* The step is quiet, moves one batch on, or is one of the three others.
Kinds ==
    \/ Quiet \/ (\E b \in Batches : Kept(b))
    \/ WatchdogSteps \/ SetupLoses \/ (BeginSucceeds /\ Fresh')

\* What the closure does.
LEMMA FnKinds ==
    ASSUME TxInv, CallerCalls \/ CallGoesOn \/ Recovers \/ HelperCalls
    PROVE  Quiet \/ (\E b \in Batches : Kept(b))
  BY CallerKinds, GoesOnKinds, RecoversQuiet, HelperQuiet

\* What Transact does around it.
LEMMA StepKinds ==
    ASSUME TxInv, PlaceInv, [Next]_allVars
    PROVE  Kinds
  <1>1. CASE UNCHANGED vars
    BY <1>1, StutterQuiet DEF Kinds
  <1>2. CASE UNCHANGED allVars
    BY <1>1, <1>2 DEF allVars
  <1>3. BeginFails \/ Check \/ ReleasesConn \/ Retries \/ Returns \/ FnReturnsNil
           \/ FnReturnsError \/ Terminated => UNCHANGED vars
    BY DEF BeginFails, Check, ReleasesConn, Retries, Returns, FnReturnsNil, FnReturnsError,
           Terminated, allVars
  <1>4. CASE BeginSucceeds
    <2>1. Fresh'
      BY <1>4 DEF BeginSucceeds, Fresh, PlaceInv, TransactTypeOK, TypeOK
    <2> QED BY <1>4, <2>1 DEF Kinds
  <1>5. CASE SetXactAbort
    <2>1. /\ pc = "setup" /\ UNCHANGED <<autoErr, driver, tx, batch, at, other, hist>>
          /\ srv' = srv \/ (pc' = "rollback" /\ srv' \in AfterFailure)
      BY <1>5 DEF SetXactAbort
    <2>2. CASE srv' = srv
      BY <1>1, <2>1, <2>2 DEF vars
    <2>3. CASE srv' # srv
      <3>1. srv \in SrvFields /\ driver = "mssql" /\ srv.tx = "active"
        BY <2>1, TypeFields DEF PlaceInv, TxInv
      <3>2. /\ srv' \in SrvFields /\ srv'.stray = srv.stray
            /\ srv'.tx = "lost" /\ srv'.work = <<>>
        BY <2>1, <2>3, <3>1, FailureTypes
      <3> QED BY <2>1, <2>3, <3>1, <3>2 DEF SetupLoses, Kinds
    <2> QED BY <2>2, <2>3
  <1>6. CASE FnPanics
    <2>1. /\ at.call \in {"caller", "panic"} /\ at' = Idle
          /\ UNCHANGED <<autoErr, driver, srv, tx, batch, other, hist>>
          /\ TypeOK /\ srv \in SrvFields /\ tx \in TxFields /\ hist \in HistFields
      BY <1>6, TypeFields DEF FnPanics, TxInv
    <2>2. WorkStep /\ PlainStep /\ HistStep /\ \A b \in Batches : BatchStep(b)
      BY <2>1, SameWork, SamePlain, SameBatches DEF HistStep
    <2>3. TypeOK'
      BY <2>1 DEF TypeOK, Idle
    <2> QED BY <2>1, <2>2, <2>3 DEF Quiet, Kinds
  <1>7. CASE TransactCommits
    <2>1. Commit
      BY <1>7 DEF TransactCommits, Commit
    <2> QED BY <2>1, CommitQuiet DEF Kinds
  <1>8. CASE RollsBack
    <2>1. Rollback /\ at.call = "caller" /\ tx.openBatch \in Batches \cup {NoBatch}
      BY <1>8, TypeFields DEF RollsBack, PlaceInv, TxInv
    <2> QED BY <2>1, RollbackQuiet, RollbackKeeps DEF Kinds
  <1>9. CASE FnUses
    BY <1>9, FnKinds DEF FnUses, Kinds
  <1>10. CASE Interrupts
    BY <1>10, WatchdogKinds, ContextQuiet DEF Interrupts, Kinds
  <1> QED BY <1>1, <1>2, <1>3, <1>4, <1>5, <1>6, <1>7, <1>8, <1>9, <1>10
          DEF Next, TransactStep, FnEnds

-----------------------------------------------------------------------------
(* What holds whatever the goroutines do *)

\* A new transaction has all the invariants.
LEMMA FreshNext == ASSUME Fresh' PROVE (TxInv /\ LedgerInv /\ OrderInv /\ AskedInv)'
  <1>1. (Fresh => TxInv /\ LedgerInv /\ OrderInv /\ AskedInv)'
    BY FreshInv, PTL
  <1> QED BY <1>1

\* A lost transaction has no work, and the transaction's fields are what they were.
LEMMA LosesKeeps ==
    ASSUME TxInv, SetupLoses
    PROVE  /\ TxInv' /\ (OrderInv => OrderInv') /\ (LedgerInv => LedgerInv')
           /\ AskedInv => AskedInv'
  <1>1. /\ UNCHANGED <<autoErr, driver, tx, batch, at, other, hist>> /\ driver = "mssql"
        /\ srv' \in SrvFields /\ srv'.tx = "lost" /\ srv'.work = <<>> /\ srv.tx = "active"
    BY DEF SetupLoses
  <1>2. TypeOK /\ CallInv /\ ItemInv /\ UnsentInv /\ EndInv
    BY DEF TxInv
  <1>3. ~Pipelined /\ ~Pipelined' /\ ~tx.done
    BY <1>1, <1>2 DEF Pipelined, EndInv, Ended
  <1>4. TxInv'
    <2>1. TypeOK'
      BY <1>1, <1>2 DEF TypeOK
    <2>2. CallInv'
      BY <1>1, <1>2 DEF CallInv, Pipelined
    <2>3. ItemInv'
      BY <1>1, <1>2 DEF ItemInv, ItemOK, Pipelined
    <2>4. UnsentInv'
      BY <1>1, <1>2 DEF UnsentInv, Unsent
    <2> QED BY <1>1, <1>3, <2>1, <2>2, <2>3, <2>4 DEF TxInv, EndInv
  <1>5. OrderInv => OrderInv'
    BY <1>1, SameInOrder DEF OrderInv
  <1>6. ASSUME LedgerInv PROVE LedgerInv'
    BY <1>1, <1>6 DEF LedgerInv, OpenInv, AppliedInv, RecordInv
  <1>7. AskedInv'
    BY <1>1 DEF AskedInv
  <1> QED BY <1>4, <1>5, <1>6, <1>7

\* A step of any kind preserves what holds of every transaction, and the order.
LEMMA KindsKeep ==
    ASSUME TxInv, Kinds
    PROVE  TxInv' /\ (OrderInv => OrderInv')
  <1>1. CASE Quiet
    BY <1>1, QuietKeeps, QuietOrder
  <1>2. CASE \E b \in Batches : Kept(b)
    BY <1>2, MovesOrder DEF Kept
  <1>3. CASE WatchdogSteps
    <2>1. CASE WatchdogReads
      <3>1. OrderInv => OrderInv'
        BY <2>1 DEF WatchdogReads, OrderInv, BatchInOrder, CountOK, Mine, Executed, Pipelined
      <3> QED BY <2>1, <3>1, ReadsKeeps
    <2>2. CASE \E b \in Batches : TxInv' /\ WorkMoves(b)
      BY <2>2, MovesOrder
    <2> QED BY <1>3, <2>1, <2>2 DEF WatchdogSteps
  <1>4. CASE SetupLoses
    BY <1>4, LosesKeeps
  <1>5. CASE Fresh'
    BY <1>5, FreshNext
  <1> QED BY <1>1, <1>2, <1>3, <1>4, <1>5 DEF Kinds

\* The answers of Commit, and what they are about.
LEMMA CommitAnswers ==
    ASSUME TxInv, NEW o \in CommitOutcomes
    PROVE  /\ o.err \in Outcome /\ o.srv.work = srv.work /\ o.srv.stray = srv.stray
           /\ o.tx.err = tx.err /\ o.tx.row = tx.row /\ o.tx.openBatch = tx.openBatch
           /\ \/ o.srv = srv /\ o.err = "error"
              \/ /\ o.srv.tx = "committed" /\ srv.tx = "active" /\ ~batchPending
                 /\ o.err \in {"none", "error"}
              \/ o.srv.tx = "rolledback" /\ ~Ended /\ (o.err = "none" => srv.tx = "lost")
  <1>1. srv \in SrvFields /\ tx \in TxFields
    BY TypeFields DEF TxInv
  <1>2. CASE batchPending
    BY <1>2 DEF CommitOutcomes, Outcome, Errors
  <1>3. CASE ~batchPending
    <2>1. o \in Finalize(tx, SqlCommit)
      BY <1>3 DEF CommitOutcomes
    <2>2. \A q \in SqlCommit : q.srv \in SrvFields /\ q.err \in Outcome
      BY <1>1, CommitTypes
    <2> DEFINE Q == SqlCommit
    <2>3. \A q \in Q : q.srv \in SrvFields /\ q.err \in Outcome
      BY <2>2
    <2>4. o \in Finalize(tx, Q)
      BY <2>1
    <2> HIDE DEF Q
    <2>5. /\ o.err \in Outcome
          /\ o.tx.err = tx.err /\ o.tx.row = tx.row /\ o.tx.openBatch = tx.openBatch
          /\ \/ o.srv = srv /\ o.err = "error"
             \/ \E q \in Q : o.srv = q.srv /\ o.err = q.err
      BY <1>1, <2>3, <2>4, FinalizeTypes
    <2>6. ASSUME NEW q \in Q, o.srv = q.srv, o.err = q.err
          PROVE  /\ o.srv.work = srv.work /\ o.srv.stray = srv.stray
                 /\ \/ o.srv = srv /\ o.err = "error"
                    \/ /\ o.srv.tx = "committed" /\ srv.tx = "active"
                       /\ o.err \in {"none", "error"}
                    \/ o.srv.tx = "rolledback" /\ ~Ended /\ (o.err = "none" => srv.tx = "lost")
      <3>1. q \in SqlCommit
        BY DEF Q
      <3> QED BY <1>1, <2>6, <3>1, CommitTypes DEF Ended
    <2> QED BY <1>3, <2>5, <2>6
  <1> QED BY <1>2, <1>3

\* Transact keeps its own state.
LEMMA PlaceKeeps ==
    ASSUME TxInv, PlaceInv, TypeOK', [Next]_allVars
    PROVE  PlaceInv'
  <1> DEFINE Ctrl == /\ pc' \in {"begin", "setup", "fn", "check", "commit", "rollback",
                                 "release", "attempted", "done"}
                     /\ attempts' \in 0..transactMaxAttempts /\ ret' \in Outcome \cup {"panic"}
                     /\ conn' \in BOOLEAN /\ commits' \in Nat /\ autoErr'
                     /\ pc' # "fn" => at'.call = "caller"
                     /\ pc' = "setup" => driver' = "mssql" /\ srv'.tx = "active"
                     /\ pc' \in {"begin", "attempted", "done"} => ~conn'
                     /\ pc' = "begin" => attempts' < transactMaxAttempts
  <1> SUFFICES Ctrl
    BY DEF PlaceInv, TransactTypeOK
  <1>1. /\ pc \in {"begin", "setup", "fn", "check", "commit", "rollback", "release",
                   "attempted", "done"}
        /\ attempts \in 0..transactMaxAttempts /\ ret \in Outcome \cup {"panic"}
        /\ conn \in BOOLEAN /\ commits \in Nat /\ autoErr
        /\ pc # "fn" => at.call = "caller"
        /\ pc = "setup" => driver = "mssql" /\ srv.tx = "active"
        /\ pc \in {"begin", "attempted", "done"} => ~conn
        /\ pc = "begin" => attempts < transactMaxAttempts
    BY DEF PlaceInv, TransactTypeOK
  <1>2. Errors \subseteq Outcome /\ FnErrors \subseteq Outcome
    <2>1. tx.err \in Outcome /\ \A b \in Batches : batch[b].err \in Outcome
      BY TypeFields DEF TxInv, BatchFields
    <2> QED BY <2>1 DEF FnErrors, Errors, Outcome
  <1> USE <1>1
  <1>3. CASE UNCHANGED allVars
    BY <1>3 DEF allVars, vars, transactVars
  <1>4. CASE BeginSucceeds \/ BeginFails
    <2>1. attempts + 1 \in 0..transactMaxAttempts /\ pc = "begin"
      <3>1. pc = "begin"
        BY <1>4 DEF BeginSucceeds, BeginFails
      <3>2. transactMaxAttempts \in Nat /\ attempts \in 0..transactMaxAttempts
        BY AttemptAssumption
      <3> QED BY <3>1, <3>2
    <2>2. CASE BeginSucceeds
      BY <2>1, <2>2 DEF BeginSucceeds, Idle, FreshSrv
    <2>3. CASE BeginFails
      BY <1>2, <2>1, <2>3 DEF BeginFails, vars
    <2> QED BY <1>4, <2>2, <2>3
  <1>5. CASE SetXactAbort
    BY <1>2, <1>5 DEF SetXactAbort
  <1>6. CASE FnUses
    <2>1. autoErr'
      <3>1. TxInv /\ (CallerCalls \/ CallGoesOn \/ Recovers \/ HelperCalls)
        BY <1>6 DEF FnUses
      <3> QED BY <3>1, FnKinds DEF Quiet, Kept, WorkMoves, OneBatch
    <2>2. commits' \in Nat
      BY <1>6 DEF FnUses, CountCommits
    <2> QED BY <1>6, <2>1, <2>2 DEF FnUses
  <1>7. CASE FnReturnsNil \/ FnReturnsError
    BY <1>2, <1>7 DEF FnReturnsNil, FnReturnsError, FnMayReturn, vars
  <1>8. CASE FnPanics
    BY <1>8 DEF FnPanics, Idle
  <1>9. CASE Check
    <2>1. tx.err \in Outcome /\ "error" \in Outcome
      BY TypeFields DEF TxInv, Outcome, Errors
    <2> QED BY <1>9, <2>1 DEF Check, vars
  <1>10. CASE TransactCommits
    <2>1. PICK o \in CommitOutcomes :
             ret' = o.err /\ pc' = IF o.err = "none" THEN "release" ELSE "rollback"
      BY <1>10 DEF TransactCommits
    <2>2. o.err \in Outcome
      BY CommitAnswers
    <2>3. commits' \in Nat
      BY <1>10 DEF TransactCommits, CountCommits
    <2> QED BY <1>10, <2>1, <2>2, <2>3 DEF TransactCommits
  <1>11. CASE RollsBack
    BY <1>11 DEF RollsBack, Rollback
  <1>12. CASE ReleasesConn \/ Retries \/ Returns
    <2>1. "none" \in Outcome
      BY DEF Outcome
    <2>2. CASE ReleasesConn
      BY <2>2 DEF ReleasesConn, vars
    <2>3. CASE Retries
      BY <2>1, <2>3 DEF Retries, vars
    <2>4. CASE Returns
      BY <2>4 DEF Returns, vars
    <2> QED BY <1>12, <2>2, <2>3, <2>4
  <1>13. CASE Interrupts
    <2>1. /\ UNCHANGED <<autoErr, at>> /\ pc # "setup"
      BY <1>13 DEF Interrupts, Watchdog, WatchdogReads, WatchdogAbandons, WatchdogFinalizes,
                   ContextEnds
    <2> QED BY <1>13, <2>1 DEF Interrupts, transactVars
  <1>14. CASE Terminated
    BY <1>14 DEF Terminated, allVars, vars, transactVars
  <1> QED BY <1>3, <1>4, <1>5, <1>6, <1>7, <1>8, <1>9, <1>10, <1>11, <1>12, <1>13, <1>14
          DEF Next, TransactStep, FnEnds

\* The invariant of Transact, with any helper and any caller.
BaseInv == TxInv /\ OrderInv /\ PlaceInv

LEMMA BaseNext == ASSUME BaseInv, [Next]_allVars PROVE Kinds /\ BaseInv'
  <1>1. TxInv /\ OrderInv /\ PlaceInv
    BY DEF BaseInv
  <1>2. Kinds
    BY <1>1, StepKinds
  <1>3. TxInv' /\ OrderInv'
    BY <1>1, <1>2, KindsKeep
  <1>4. PlaceInv'
    BY <1>1, <1>3, PlaceKeeps DEF TxInv
  <1> QED BY <1>2, <1>3, <1>4 DEF BaseInv

\* The first state is that of no transaction.
LEMMA InitFresh == Init => Fresh
  BY DriverAssumption DEF Init, Fresh

LEMMA BaseInvariant == TransactSpec => []BaseInv
  <1>1. Init => BaseInv
    <2> SUFFICES ASSUME Init PROVE BaseInv
      OBVIOUS
    <2>1. TxInv /\ OrderInv
      BY InitFresh, FreshInv
    <2>2. PlaceInv
      <3>1. /\ TypeOK /\ autoErr /\ pc = "begin" /\ attempts = 0 /\ ret = "none" /\ commits = 0
            /\ at.call = "caller"
        BY <2>1 DEF TxInv, Init, Idle
      <3>2. conn \in BOOLEAN /\ ~conn
        BY DEF Init
      <3>3. attempts \in 0..transactMaxAttempts /\ attempts < transactMaxAttempts
        BY <3>1, AttemptAssumption
      <3>4. commits \in Nat /\ ret \in Outcome \cup {"panic"}
        BY <3>1 DEF Outcome
      <3> QED BY <3>1, <3>2, <3>3, <3>4 DEF PlaceInv, TransactTypeOK
    <2> QED BY <2>1, <2>2 DEF BaseInv
  <1>2. BaseInv /\ [Next]_allVars => BaseInv'
    BY BaseNext
  <1> QED BY <1>1, <1>2, PTL DEF TransactSpec

\* TransactTypeCorrect: Transact and the transactions of its attempts keep their
\* types, and it never begins more than transactMaxAttempts attempts.
THEOREM TransactTypeCorrect == TransactSpec => []TransactTypeOK
  <1>1. BaseInv => TransactTypeOK
    BY DEF BaseInv, PlaceInv
  <1> QED BY <1>1, BaseInvariant, PTL

\* TransactOrdersBatches: pipelined or run one by one, and with other goroutines that
\* issue statements or roll back, a batch takes effect in the order it was queued.
THEOREM TransactOrdersBatches == TransactSpec => []BatchInOrder
  <1>1. BaseInv => BatchInOrder
    BY DEF BaseInv, OrderInv
  <1> QED BY <1>1, BaseInvariant, PTL

-----------------------------------------------------------------------------
(* Where a transaction can be committed *)

\* Nothing commits before Transact does, a committed attempt is not tried again, and
\* an attempt is over before the next.
StageInv ==
    /\ pc \in {"begin", "setup", "fn", "check", "commit"} => srv.tx # "committed"
    /\ pc = "begin" => srv.tx = "rolledback"
    /\ pc \in {"release", "attempted", "done"} => Ended
    /\ srv.tx = "committed" => ret \in {"none", "error"}
    /\ commits > 0 <=> srv.tx = "committed"

LEMMA StageNext ==
    ASSUME ~CallerCommits, BaseInv, StageInv, [Next]_allVars
    PROVE  StageInv'
  <1>1. /\ TxInv /\ commits \in Nat /\ srv \in SrvFields
        /\ pc \in {"begin", "setup", "fn", "check", "commit", "rollback", "release",
                   "attempted", "done"}
    BY TypeFields DEF BaseInv, PlaceInv, TransactTypeOK, TxInv
  <1>2. CASE UNCHANGED <<srv, pc, ret, commits>>
    BY <1>2 DEF StageInv, Ended
  <1>3. CASE BeginSucceeds
    BY <1>3 DEF BeginSucceeds, StageInv, FreshSrv
  <1>4. CASE BeginFails
    BY <1>4 DEF BeginFails, StageInv, Ended, vars
  <1>5. CASE SetXactAbort
    <2>1. /\ pc = "setup" /\ pc' \in {"fn", "rollback"} /\ commits' = commits
          /\ srv' = srv \/ srv' \in AfterFailure
      BY <1>5 DEF SetXactAbort
    <2>2. srv'.tx # "committed"
      BY <1>1, <2>1, FailureTypes DEF StageInv
    <2> QED BY <1>1, <2>1, <2>2 DEF StageInv
  <1>6. CASE FnUses
    <2>1. /\ pc = "fn" /\ pc' = pc /\ CountCommits /\ srv.tx # "committed"
          /\ CallerCalls \/ CallGoesOn \/ Recovers \/ HelperCalls
      BY <1>6 DEF FnUses, StageInv
    <2>2. srv'.tx # "committed"
      BY <1>1, <2>1, OnlyCommit
    <2> QED BY <1>1, <2>1, <2>2 DEF StageInv, CountCommits
  <1>7. CASE FnReturnsNil \/ FnReturnsError \/ FnPanics \/ Check
    <2>1. /\ pc \in {"fn", "check"} /\ pc' \in {"check", "rollback", "commit"}
          /\ srv' = srv /\ commits' = commits
      BY <1>7 DEF FnReturnsNil, FnReturnsError, FnPanics, Check, FnMayReturn, vars
    <2> QED BY <1>1, <2>1 DEF StageInv
  <1>8. CASE TransactCommits
    <2>1. PICK o \in CommitOutcomes :
             /\ srv' = o.srv /\ ret' = o.err
             /\ pc' = IF o.err = "none" THEN "release" ELSE "rollback"
      BY <1>8 DEF TransactCommits
    <2>2. \/ o.srv = srv /\ o.err = "error"
          \/ o.srv.tx = "committed" /\ srv.tx = "active" /\ o.err \in {"none", "error"}
          \/ o.srv.tx = "rolledback"
      BY <1>1, CommitAnswers
    <2>3. srv.tx # "committed" /\ CountCommits /\ pc = "commit"
      BY <1>8 DEF TransactCommits, StageInv
    <2> QED BY <1>1, <2>1, <2>2, <2>3 DEF StageInv, CountCommits, Ended
  <1>9. CASE RollsBack
    <2>1. /\ pc' = "release" /\ ret' = ret /\ commits' = commits
          /\ srv'.tx \in {"committed", "rolledback"}
          /\ srv'.tx = "committed" <=> srv.tx = "committed"
      BY <1>1, <1>9, RollbackEnds DEF RollsBack, Ended
    <2> QED BY <1>1, <2>1 DEF StageInv, Ended
  <1>10. CASE ReleasesConn
    BY <1>10 DEF ReleasesConn, StageInv, Ended, vars
  <1>11. CASE Retries
    BY <1>11 DEF Retries, StageInv, Ended, vars
  <1>12. CASE Returns
    BY <1>12 DEF Returns, StageInv, Ended, vars
  <1>13. CASE Interrupts
    <2>1. /\ UNCHANGED transactVars /\ (Watchdog \/ ContextEnds)
          /\ pc \in {"fn", "check", "commit", "rollback"}
      BY <1>13 DEF Interrupts
    <2>2. srv.tx = "committed" => srv'.tx = "committed"
      BY <1>1, <2>1, WatchdogKinds DEF ContextEnds, Ended, Quiet, WorkStep, WatchdogSteps
    <2>3. srv'.tx = "committed" => srv.tx = "committed"
      BY <1>1, <2>1, OnlyCommit
    <2> QED BY <1>1, <2>1, <2>2, <2>3 DEF StageInv, transactVars
  <1> QED BY <1>2, <1>3, <1>4, <1>5, <1>6, <1>7, <1>8, <1>9, <1>10, <1>11, <1>12, <1>13
          DEF Next, TransactStep, FnEnds, Terminated, allVars, vars, transactVars

LEMMA StageInvariant == ASSUME ~CallerCommits PROVE TransactSpec => [](BaseInv /\ StageInv)
  <1>1. Init => StageInv
    BY DEF Init, StageInv, FreshSrv
  <1>2. BaseInv /\ StageInv /\ [Next]_allVars => StageInv'
    BY StageNext
  <1> QED BY <1>1, <1>2, BaseInvariant, PTL DEF TransactSpec

\* AttemptsAreSeparate: Transact retries only what is rolled back, with the
\* connection of the attempt before returned to the pool; the closure leaves Commit
\* to Transact, as its documentation asks.
THEOREM AttemptsAreSeparate ==
    ASSUME ~CallerCommits PROVE TransactSpec => RetryAfterRollback
  <1> DEFINE Sep == attempts' > attempts => srv.tx = "rolledback" /\ ~conn
  <1>1. ASSUME BaseInv, StageInv, [Next]_allVars PROVE Sep
    <2> SUFFICES ASSUME attempts' > attempts PROVE pc = "begin"
      BY <1>1 DEF BaseInv, StageInv, PlaceInv
    <2>1. attempts \in 0..transactMaxAttempts
      BY <1>1 DEF BaseInv, PlaceInv, TransactTypeOK
    <2>2. attempts' # attempts
      BY <2>1, AttemptAssumption
    <2> QED BY <1>1, <2>2
         DEF Next, TransactStep, FnEnds, Terminated, allVars, transactVars, BeginSucceeds,
             BeginFails, SetXactAbort, Check, TransactCommits, RollsBack, ReleasesConn, Retries,
             Returns, FnUses, FnReturnsNil, FnReturnsError, FnPanics, Interrupts
  <1>2. BaseInv /\ StageInv /\ [Next]_allVars => [Sep]_allVars
    BY <1>1
  <1>3. TransactSpec => [][Sep]_allVars
    <2> HIDE DEF Sep
    <2> QED BY <1>2, StageInvariant, PTL DEF TransactSpec
  <1> QED BY <1>3 DEF RetryAfterRollback

-----------------------------------------------------------------------------
(* Nothing takes effect outside the transaction *)

\* While the closure runs, the loss of the transaction is on record, or in a Row.
LostInv ==
    pc \in {"fn", "check", "commit"} /\ srv.tx = "lost" => tx.err # "none" \/ tx.row # "none"

LEMMA LostNext ==
    ASSUME BaseInv, LostInv, [Next]_allVars
    PROVE  LostInv'
  <1> SUFFICES ASSUME pc' \in {"fn", "check", "commit"}, srv'.tx = "lost"
               PROVE  tx'.err # "none" \/ tx'.row # "none"
    BY DEF LostInv
  <1>1. autoErr /\ Kinds /\ PlaceInv
    BY BaseNext DEF BaseInv, PlaceInv
  <1>2. CASE BeginSucceeds
    BY <1>2 DEF BeginSucceeds, FreshSrv
  <1>3. CASE pc = "setup"
    <2>1. srv' = srv
      BY <1>3 DEF Next, TransactStep, FnEnds, Terminated, allVars, transactVars, BeginSucceeds,
             BeginFails, SetXactAbort, Check, TransactCommits, RollsBack, ReleasesConn, Retries,
             Returns, FnUses, FnReturnsNil, FnReturnsError, FnPanics, Interrupts, FnMayReturn,
             vars
    <2> QED BY <1>1, <1>3, <2>1 DEF PlaceInv
  <1>4. CASE pc \in {"fn", "check", "commit"} /\ ~BeginSucceeds
    <2>1. CASE Quiet
      BY <1>1, <1>4, <2>1 DEF Quiet, HistStep, LostInv
    <2>2. ASSUME NEW b \in Batches, Kept(b) PROVE tx'.err # "none" \/ tx'.row # "none"
      BY <1>1, <1>4, <2>2 DEF Kept, WorkMoves, LostInv
    <2>3. CASE WatchdogSteps
      BY <1>4, <2>3 DEF WatchdogSteps, LostInv
    <2> QED BY <1>1, <1>4, <2>1, <2>2, <2>3 DEF Kinds, SetupLoses
  <1>5. pc \in {"fn", "check", "commit", "setup"} \/ BeginSucceeds
    BY DEF Next, TransactStep, FnEnds, Terminated, allVars, transactVars, BeginFails,
           SetXactAbort, Check, TransactCommits, RollsBack, ReleasesConn, Retries,
           Returns, FnUses, FnReturnsNil, FnReturnsError, FnPanics, Interrupts, FnMayReturn
  <1> QED BY <1>2, <1>3, <1>4, <1>5

\* Only QueryRow leaves an error in a Row.
LEMMA RowStays ==
    ASSUME TxInv, ~LateScan, tx.row = "none",
           \/ CallerCalls \/ CallGoesOn \/ Recovers \/ HelperCalls \/ Watchdog \/ ContextEnds
    PROVE  tx'.row = "none"
  <1>1. /\ tx \in TxFields /\ srv \in SrvFields /\ shortCircuit \in Outcome
        /\ Errors \subseteq Outcome /\ "error" \in Outcome
    BY TypeFields DEF TxInv, Outcome, Errors
  <1>2. \A e \in Outcome : Recorded(tx, e).row = "none"
    BY <1>1, RecordedTypes
  <1>3. ASSUME NEW n \in Nat, SendStatement(<<NoBatch, n>>) PROVE tx'.row = "none"
    <2>1. <<NoBatch, n>> \in Statements
      BY DEF Statements
    <2>2. \A o \in Exec(<<NoBatch, n>>) : o.err \in Outcome
      BY <1>1, <2>1, ExecTypes
    <2> QED BY <1>2, <1>3, <2>2 DEF SendStatement
  <1>4. StatementRefused => tx'.row = "none"
    BY <1>1, <1>2 DEF StatementRefused
  <1>5. Statement => tx'.row = "none"
    <2>1. hist.plain + 1 \in Nat
      BY TypeFields DEF TxInv
    <2> QED BY <1>3, <1>4, <2>1 DEF Statement, StatementSent, QueryRowFails
  <1>6. ScanRow \/ ReadFails => tx'.row = "none"
    BY <1>1, <1>2 DEF ScanRow, ReadFails
  <1>7. ASSUME NEW b \in Batches,
               \/ QueueLate(b) \/ SendAgain(b) \/ ReadNothing(b) \/ CloseAgain(b)
               \/ RowsEnd(b) \/ RowsScanFails(b) \/ ReadSuperseded(b)
        PROVE  tx'.row = "none"
    <2> DEFINE t == [tx EXCEPT !.batchMisuse = TRUE]
    <2>1. t \in TxFields /\ t.row = "none"
      BY <1>1 DEF TxFields
    <2> HIDE DEF t
    <2>2. Recorded(t, "error").row = "none"
      BY <1>1, <2>1, RecordedTypes
    <2>3. QueueLate(b) => tx'.row = "none"
      BY <2>2 DEF QueueLate, t
    <2> QED BY <1>1, <1>2, <1>7, <2>3 DEF SendAgain, ReadNothing, CloseAgain, RowsEnd,
                                          RowsScanFails, ReadSuperseded
  <1>8. ASSUME NEW b \in Batches, at.call = "caller",
               \/ Queue(b) \/ Send(b) \/ ClosePipelined(b) \/ CloseSequential(b)
               \/ \E query \in BOOLEAN : ReadPipelined(b, query) \/ RunBegins(b, query)
        PROVE  tx'.row = "none"
    <2>1. Send(b) => SendUnopened(b) \/ SendOpens(b)
      BY DEF Send, SendUnopened
    <2>2. Kept(b)
      BY <1>8, <2>1, QueueKeeps, UnopenedKeeps, OpensKeeps, ClosePipelinedKeeps,
         CloseSequentialKeeps, ReadPipelinedKeeps, RunBeginsKeeps
    <2> QED BY <2>2 DEF Kept, WorkMoves
  <1>9. Commit \/ Rollback => tx'.row = "none"
    BY CommitAnswers, RollbackEnds DEF Commit
  <1>10. CallerCalls => tx'.row = "none"
    BY <1>5, <1>6, <1>7, <1>8, <1>9 DEF CallerCalls
  <1>11. CallGoesOn => tx'.row = "none"
    BY GoesOnKinds DEF Kept, WorkMoves
  <1>12. Recovers \/ ContextEnds => tx'.row = "none"
    BY DEF Recovers, ContextEnds
  <1>13. HelperCalls => tx'.row = "none"
    <2>1. HelperSends => tx'.row = "none"
      <3>1. other.n \in Nat
        BY BatchAssumption DEF TxInv, TypeOK
      <3> QED BY <1>3, <3>1 DEF HelperSends
    <2> QED BY <1>4, <2>1 DEF HelperCalls, HelperChecks
  <1>14. Watchdog => tx'.row = "none"
    <2>1. WatchdogReads => tx'.row = "none"
      BY DEF WatchdogReads
    <2>2. WatchdogAbandons => tx'.row = "none"
      BY <1>1, ReleasedTypes DEF WatchdogAbandons
    <2>3. WatchdogFinalizes => tx'.row = "none"
      <3>1. \A o \in Finalize(tx, SqlRollback) : o.tx.row = tx.row
        BY <1>1, EndTypes
      <3> QED BY <3>1 DEF WatchdogFinalizes
    <2> QED BY <2>1, <2>2, <2>3 DEF Watchdog
  <1> QED BY <1>10, <1>11, <1>12, <1>13, <1>14

\* A statement of a second goroutine is on its way only if it issues any.
LEMMA NoSender ==
    ASSUME TxInv, "statement" \notin Helpers, other.call # "sending",
           \/ CallerCalls \/ CallGoesOn \/ Recovers \/ HelperCalls \/ Watchdog \/ ContextEnds
    PROVE  other'.call # "sending"
  <1>1. CallerCalls \/ RunGoesOn \/ Recovers \/ ContextEnds => other' = other
    BY UseAlone DEF UseTx
  <1>2. Pipeline => other' = other
    BY DEF Pipeline, PipelineNotSent, PipelineSends, PipelineCloseFails, PipelinePanics,
           PipelineReturns
  <1>3. ~HelperCalls
    BY DEF HelperCalls, HelperChecks, HelperSends
  <1>4. Watchdog => other'.call # "sending"
    BY DEF Watchdog, WatchdogReads, WatchdogAbandons, WatchdogFinalizes, NoOther, TxInv, TypeOK
  <1> QED BY <1>1, <1>2, <1>3, <1>4 DEF CallGoesOn

\* The steps around the closure touch nothing but the transaction.
LEMMA NoStray ==
    ASSUME BaseInv, [Next]_allVars, ~FnUses, ~BeginSucceeds
    PROVE  srv'.stray = srv.stray
  <1>1. srv \in SrvFields /\ TxInv /\ tx \in TxFields
    BY TypeFields DEF BaseInv, TxInv
  <1>2. BeginFails \/ Check \/ ReleasesConn \/ Retries \/ Returns \/ FnReturnsNil
           \/ FnReturnsError \/ FnPanics \/ Terminated \/ UNCHANGED allVars => srv' = srv
    BY DEF BeginFails, Check, ReleasesConn, Retries, Returns, FnReturnsNil, FnReturnsError,
           FnPanics, Terminated, allVars, vars
  <1>3. SetXactAbort => srv'.stray = srv.stray
    BY <1>1, FailureTypes DEF SetXactAbort
  <1>4. TransactCommits => srv'.stray = srv.stray
    BY <1>1, CommitAnswers DEF TransactCommits
  <1>5. RollsBack => srv'.stray = srv.stray
    BY <1>1, RollbackEnds DEF RollsBack
  <1>6. Interrupts => srv'.stray = srv.stray
    <2>1. ContextEnds => srv'.stray = srv.stray
      BY <1>1 DEF ContextEnds, SrvFields
    <2>2. WatchdogFinalizes => srv'.stray = srv.stray
      <3>1. \A o \in Finalize(tx, SqlRollback) : o.srv.stray = srv.stray
        BY <1>1, EndTypes
      <3> QED BY <3>1 DEF WatchdogFinalizes
    <2> QED BY <2>1, <2>2 DEF Interrupts, Watchdog, WatchdogReads, WatchdogAbandons
  <1> QED BY <1>2, <1>3, <1>4, <1>5, <1>6 DEF Next, TransactStep, FnEnds

\* Rows are scanned when they are made, one goroutine issues statements, and nothing
\* was sent outside the transaction.
OutsideInv == LostInv /\ other.call # "sending" /\ tx.row = "none" /\ NothingOutside

LEMMA OutsideNext ==
    ASSUME ~LateScan, "statement" \notin Helpers, BaseInv, OutsideInv, [Next]_allVars
    PROVE  OutsideInv'
  <1>1. /\ TxInv /\ LostInv /\ other.call # "sending" /\ tx.row = "none" /\ srv.stray = {}
        /\ autoErr
    BY DEF BaseInv, OutsideInv, NothingOutside, PlaceInv
  <1>2. LostInv'
    BY <1>1, LostNext
  <1>3. CASE FnUses \/ Interrupts
    <2>1. CallerCalls \/ CallGoesOn \/ Recovers \/ HelperCalls \/ Watchdog \/ ContextEnds
      BY <1>3 DEF FnUses, Interrupts
    <2>2. other'.call # "sending" /\ tx'.row = "none"
      BY <1>1, <2>1, NoSender, RowStays
    <2>3. srv'.stray = {}
      <3>1. CASE FnUses
        <4>1. pc = "fn" /\ (Quiet \/ \E b \in Batches : Kept(b))
          BY <1>1, <3>1, FnKinds DEF FnUses
        <4>2. srv.tx = "lost" => tx.err # "none"
          BY <1>1, <4>1 DEF LostInv
        <4> QED BY <1>1, <4>1, <4>2 DEF Quiet, WorkStep, Kept, WorkMoves
      <3>2. CASE ~FnUses /\ Interrupts
        <4>1. ~BeginSucceeds
          BY <3>2 DEF Interrupts, BeginSucceeds
        <4> QED BY <1>1, <3>2, <4>1, NoStray
      <3> QED BY <1>3, <3>1, <3>2
    <2> QED BY <1>2, <2>2, <2>3 DEF OutsideInv, NothingOutside
  <1>4. CASE BeginSucceeds
    BY <1>2, <1>4 DEF BeginSucceeds, OutsideInv, NothingOutside, FreshSrv, FreshTx, NoOther
  <1>5. CASE ~FnUses /\ ~Interrupts /\ ~BeginSucceeds
    <2>1. srv'.stray = {}
      BY <1>1, <1>5, NoStray
    <2>2. other' = other /\ tx'.row = "none"
      <3>1. TransactCommits \/ RollsBack => other' = other /\ tx'.row = "none"
        BY <1>1, CommitAnswers, RollbackEnds DEF TransactCommits, RollsBack, Rollback
      <3>2. BeginFails \/ Check \/ ReleasesConn \/ Retries \/ Returns \/ FnReturnsNil
               \/ FnReturnsError \/ FnPanics \/ Terminated \/ SetXactAbort \/ UNCHANGED allVars
            => other' = other /\ tx' = tx
        BY DEF BeginFails, Check, ReleasesConn, Retries, Returns, FnReturnsNil, FnReturnsError,
               FnPanics, Terminated, SetXactAbort, allVars, vars
      <3> QED BY <1>1, <1>5, <3>1, <3>2 DEF Next, TransactStep, FnEnds
    <2> QED BY <1>1, <1>2, <2>1, <2>2 DEF OutsideInv, NothingOutside
  <1> QED BY <1>3, <1>4, <1>5

\* StaysInside: no statement of Transact takes effect on its own, after the server
\* lost the transaction or on a connection whose transaction is over: what was lost is
\* recorded before the next statement, and the pipeline looks at the connection.  Two
\* ways around the record are excluded: a Row kept before it is scanned, and a second
\* goroutine's statement already past shortCircuit.
THEOREM StaysInside ==
    ASSUME ~LateScan, "statement" \notin Helpers
    PROVE  TransactSpec => []NothingOutside
  <1>1. Init => OutsideInv
    BY DEF Init, OutsideInv, LostInv, NothingOutside, FreshSrv, FreshTx, NoOther
  <1>2. BaseInv /\ OutsideInv /\ [Next]_allVars => OutsideInv'
    BY OutsideNext
  <1>3. OutsideInv => NothingOutside
    BY DEF OutsideInv
  <1> QED BY <1>1, <1>2, <1>3, BaseInvariant, PTL DEF TransactSpec

-----------------------------------------------------------------------------
(* All or nothing *)

\* The statements that took effect.
Work == {srv.work[p] : p \in 1..Len(srv.work)}

\* What is committed was asked for, all of it, and nothing of it failed.
Whole ==
    /\ tx.openBatch = NoBatch /\ ~hist.failed /\ ~hist.dropped
    /\ \A b \in Batches : Applied(b)
    /\ Work = Asked

\* Transact commits what nobody uses any more and nothing failed in, and answers nil
\* for nothing else.
SealInv ==
    /\ pc \in {"check", "commit"} => tx.row = "none" /\ other.call # "sending"
    /\ pc = "commit" => tx.err = "none"
    /\ pc = "rollback" => ret # "none"
    /\ pc \in {"release", "attempted", "done"} /\ ret = "none" => srv.tx = "committed"
    /\ srv.tx = "committed" => Whole

\* No watchdog rolls back under the caller.
SoleInv == other.call \notin {"abandon", "finalize"}

\* The invariant that makes Transact atomic.
AtomicInv ==
    BaseInv /\ StageInv /\ LostInv /\ LedgerInv /\ AskedInv /\ SoleInv /\ SealInv

\* The elements of Asked.
LEMMA AskedIs ==
    \A s : s \in Asked <=> \/ \E n \in 1..hist.plain : s = <<NoBatch, n>>
                           \/ \E b \in Batches : \E i \in 1..batch[b].items : s = <<b, i>>
  BY DEF Asked

\* With nothing pending and nothing on record, the work is whole.
LEMMA NothingMissing ==
    ASSUME TxInv, LedgerInv, AskedInv, autoErr, tx.err = "none", tx.row = "none",
           other.call # "sending", ~batchPending, srv.tx = "active"
    PROVE  Whole
  <1>1. tx.openBatch = NoBatch
    BY DEF batchPending
  <1>2. ~hist.failed /\ ~hist.dropped /\ \A b \in Batches : batch[b].err = "none"
    BY <1>1 DEF LedgerInv, RecordInv, FailedBatch
  <1>3. \A b \in Batches : Applied(b)
    BY <1>2, Settled
  <1>4. Work = Asked
    <2>1. ASSUME NEW s \in Work PROVE s \in Asked
      BY <2>1, AskedIs DEF Work, AskedInv
    <2>2. ASSUME NEW n \in 1..hist.plain PROVE <<NoBatch, n>> \in Work
      BY <2>2 DEF AskedInv, InWork, Work
    <2>3. ASSUME NEW b \in Batches, NEW i \in 1..batch[b].items PROVE <<b, i>> \in Work
      BY <1>3, <2>3 DEF Applied, Work
    <2>4. ASSUME NEW s \in Asked PROVE s \in Work
      BY <2>2, <2>3, <2>4, AskedIs
    <2> QED BY <2>1, <2>4
  <1> QED BY <1>1, <1>2, <1>3, <1>4 DEF Whole

\* Only a watchdog rolls back under the caller.
LEMMA NoWatchdog ==
    ASSUME "watchdog" \notin Helpers, SoleInv, TxInv, PlaceInv, [Next]_allVars
    PROVE  SoleInv' /\ ~Watchdog
  <1>1. ~Watchdog
    BY DEF SoleInv, Watchdog, WatchdogReads, WatchdogAbandons, WatchdogFinalizes
  <1>2. CallerCalls \/ RunGoesOn \/ Recovers \/ ContextEnds => other' = other
    BY UseAlone DEF UseTx
  <1>3. Pipeline => other' = other
    BY DEF Pipeline, PipelineNotSent, PipelineSends, PipelineCloseFails, PipelinePanics,
           PipelineReturns
  <1>4. HelperCalls => other' = other \/ other'.call \in {"idle", "sending"}
    <2>1. \A n : [NoOther EXCEPT !.call = "sending", !.n = n].call = "sending"
      BY DEF NoOther
    <2>2. HelperChecks => other' = other \/ other'.call = "sending"
      BY <2>1 DEF HelperChecks, StatementRefused
    <2>3. HelperSends => other'.call = "idle"
      BY DEF HelperSends, NoOther
    <2> QED BY <2>2, <2>3 DEF HelperCalls
  <1>5. FnUses \/ Interrupts => other' = other \/ other'.call \in {"idle", "sending"}
    BY <1>1, <1>2, <1>3, <1>4 DEF FnUses, Interrupts, CallGoesOn
  <1>6. BeginSucceeds => other'.call = "idle"
    BY DEF BeginSucceeds, NoOther
  <1>7. TransactCommits \/ RollsBack \/ BeginFails \/ Check \/ ReleasesConn \/ Retries
           \/ Returns \/ FnReturnsNil \/ FnReturnsError \/ FnPanics \/ Terminated
           \/ SetXactAbort \/ UNCHANGED allVars => other' = other
    BY DEF TransactCommits, RollsBack, Rollback, BeginFails, Check, ReleasesConn, Retries,
           Returns, FnReturnsNil, FnReturnsError, FnPanics, Terminated, SetXactAbort, allVars,
           vars
  <1>8. other' = other \/ other'.call \in {"idle", "sending"}
    BY <1>5, <1>6, <1>7 DEF Next, TransactStep, FnEnds
  <1> QED BY <1>1, <1>8 DEF SoleInv

\* Without one, the ledger and what was asked for are kept.
LEMMA LedgerNext ==
    ASSUME "watchdog" \notin Helpers, BaseInv, LedgerInv, AskedInv, SoleInv, [Next]_allVars
    PROVE  /\ LedgerInv' /\ AskedInv'
           /\ Quiet \/ (\E b \in Batches : Kept(b)) \/ SetupLoses \/ (BeginSucceeds /\ Fresh')
  <1>1. TxInv /\ Kinds
    BY BaseNext DEF BaseInv
  <1>2. ~WatchdogSteps
    BY DEF WatchdogSteps, SoleInv
  <1>3. CASE Quiet
    BY <1>1, <1>3, QuietLedger, QuietAsked
  <1>4. CASE \E b \in Batches : Kept(b)
    BY <1>1, <1>4, KeptLedger, MovesAsked DEF Kept
  <1>5. CASE SetupLoses
    BY <1>1, <1>5, LosesKeeps
  <1>6. CASE BeginSucceeds /\ Fresh'
    BY <1>6, FreshNext
  <1> QED BY <1>1, <1>2, <1>3, <1>4, <1>5, <1>6 DEF Kinds

\* A committed attempt is not touched any more.
LEMMA Frozen ==
    ASSUME "watchdog" \notin Helpers, AtomicInv, [Next]_allVars, srv.tx = "committed"
    PROVE  /\ UNCHANGED <<batch, hist>> /\ srv'.work = srv.work /\ tx'.openBatch = NoBatch
           /\ srv'.tx = "committed" /\ commits' = commits /\ ret' = ret
           /\ \/ pc' = pc
              \/ pc = "rollback" /\ pc' = "release"
              \/ pc = "release" /\ pc' = "attempted"
              \/ pc = "attempted" /\ pc' = "done"
  <1>1. /\ TxInv /\ tx.openBatch = NoBatch /\ ret \in {"none", "error"} /\ Ended
        /\ pc \in {"rollback", "release", "attempted", "done"}
    BY DEF AtomicInv, BaseInv, StageInv, PlaceInv, TransactTypeOK, SealInv, Whole, Ended
  <1>2. CASE RollsBack
    <2>1. batch' = batch /\ hist' = hist
      BY <1>1, <1>2 DEF RollsBack, Rollback, AbandonOpen
    <2>2. srv'.work = srv.work /\ tx'.openBatch = NoBatch /\ srv'.tx = "committed"
      BY <1>1, <1>2, RollbackEnds DEF RollsBack
    <2> QED BY <1>2, <2>1, <2>2 DEF RollsBack
  <1>3. CASE ReleasesConn \/ Returns
    BY <1>1, <1>3 DEF ReleasesConn, Returns, vars
  <1>4. CASE Terminated \/ UNCHANGED allVars
    BY <1>1, <1>4 DEF Terminated, allVars, vars, transactVars
  <1>5. ~Interrupts
    <2>1. ~Watchdog
      BY NoWatchdog DEF AtomicInv, BaseInv
    <2> QED BY <1>1, <2>1 DEF Interrupts, ContextEnds
  <1>6. ~BeginSucceeds /\ ~BeginFails /\ ~SetXactAbort /\ ~Check /\ ~TransactCommits
           /\ ~Retries /\ ~FnUses /\ ~FnEnds
    BY <1>1 DEF BeginSucceeds, BeginFails, SetXactAbort, Check, TransactCommits, Retries,
                FnUses, FnEnds, FnReturnsNil, FnReturnsError, FnPanics, FnMayReturn
  <1> QED BY <1>2, <1>3, <1>4, <1>5, <1>6 DEF Next, TransactStep

\* Nobody but Transact commits.
LEMMA OnlyTransactCommits ==
    ASSUME ~CallerCommits, TxInv, StageInv', [Next]_allVars,
           srv.tx # "committed", srv'.tx = "committed"
    PROVE  TransactCommits
  <1>1. pc' \notin {"begin", "setup", "fn", "check", "commit"}
    BY DEF StageInv
  <1>2. ~FnUses /\ ~BeginSucceeds
    BY <1>1 DEF FnUses, BeginSucceeds
  <1>3. ~Interrupts
    BY OnlyCommit DEF Interrupts
  <1>4. ~RollsBack
    BY RollbackEnds DEF RollsBack, Ended
  <1>5. ~SetXactAbort
    <2>1. srv \in SrvFields
      BY TypeFields DEF TxInv
    <2> QED BY <2>1, FailureTypes DEF SetXactAbort
  <1>6. ~BeginFails /\ ~Check /\ ~ReleasesConn /\ ~Retries /\ ~Returns /\ ~FnReturnsNil
           /\ ~FnReturnsError /\ ~FnPanics /\ ~Terminated /\ ~UNCHANGED allVars
    BY DEF BeginFails, Check, ReleasesConn, Retries, Returns, FnReturnsNil,
          FnReturnsError, FnPanics, Terminated, allVars, vars
  <1> QED BY <1>2, <1>3, <1>4, <1>5, <1>6 DEF Next, TransactStep, FnEnds

\* Every step keeps the seal.
LEMMA SealNext ==
    ASSUME ~CallerCommits, "watchdog" \notin Helpers, AtomicInv, [Next]_allVars,
           BaseInv', StageInv'
    PROVE  SealInv'
  <1>1. /\ TxInv /\ LedgerInv /\ AskedInv /\ StageInv /\ SealInv /\ LostInv /\ autoErr
        /\ SoleInv /\ PlaceInv
    BY DEF AtomicInv, BaseInv, PlaceInv
  <1>2. ASSUME srv'.tx = "committed" PROVE Whole'
    <2>1. CASE srv.tx = "committed"
      <3>1. /\ UNCHANGED <<batch, hist>> /\ srv'.work = srv.work /\ tx'.openBatch = NoBatch
        BY <2>1, Frozen
      <3>2. Whole
        BY <1>1, <2>1 DEF SealInv
      <3> QED BY <3>1, <3>2 DEF Whole, Applied, Work, Asked
    <2>2. CASE srv.tx # "committed"
      <3>1. TransactCommits
        BY <1>1, <1>2, <2>2, OnlyTransactCommits
      <3>2. PICK o \in CommitOutcomes : srv' = o.srv /\ tx' = o.tx
        BY <3>1 DEF TransactCommits
      <3>3. /\ srv'.work = srv.work /\ tx'.openBatch = tx.openBatch
            /\ ~batchPending /\ srv.tx = "active"
        BY <1>1, <1>2, <2>2, <3>2, CommitAnswers
      <3>4. UNCHANGED <<batch, hist>> /\ pc = "commit"
        BY <3>1 DEF TransactCommits
      <3>5. Whole
        BY <1>1, <3>3, <3>4, NothingMissing DEF SealInv
      <3> QED BY <3>3, <3>4, <3>5 DEF Whole, Applied, Work, Asked
    <2> QED BY <2>1, <2>2
  <1> DEFINE Sealed == /\ pc' \in {"check", "commit"} => tx'.row = "none" /\ other'.call # "sending"
                       /\ pc' = "commit" => tx'.err = "none"
                       /\ pc' = "rollback" => ret' # "none"
                       /\ pc' \in {"release", "attempted", "done"} /\ ret' = "none" =>
                             srv'.tx = "committed"
  <1>3. Sealed
    <2>1. CASE UNCHANGED allVars \/ Terminated
      BY <1>1, <2>1 DEF SealInv, allVars, vars, transactVars, Terminated
    <2>2. CASE BeginSucceeds \/ FnUses
      BY <2>2 DEF BeginSucceeds, FnUses
    <2>3. CASE BeginFails \/ SetXactAbort
      BY <2>3 DEF BeginFails, SetXactAbort, Errors
    <2>4. CASE FnReturnsNil
      BY <2>4 DEF FnReturnsNil, FnMayReturn, vars
    <2>5. CASE FnReturnsError
      BY <2>5 DEF FnReturnsError, FnErrors
    <2>6. CASE FnPanics
      BY <2>6 DEF FnPanics
    <2>7. CASE Check
      BY <1>1, <2>7 DEF Check, SealInv, vars
    <2>8. CASE TransactCommits
      <3>1. PICK o \in CommitOutcomes :
               /\ srv' = o.srv /\ ret' = o.err
               /\ pc' = IF o.err = "none" THEN "release" ELSE "rollback"
        BY <2>8 DEF TransactCommits
      <3>2. srv.tx # "lost"
        BY <1>1, <2>8 DEF TransactCommits, SealInv, LostInv
      <3>3. o.err = "none" => o.srv.tx = "committed"
        BY <1>1, <3>2, CommitAnswers
      <3> QED BY <3>1, <3>3
    <2>9. CASE RollsBack
      BY <1>1, <2>9 DEF RollsBack, SealInv
    <2>10. CASE ReleasesConn \/ Retries \/ Returns
      BY <1>1, <2>10 DEF ReleasesConn, Retries, Returns, SealInv, vars
    <2>11. CASE Interrupts
      <3>1. ContextEnds /\ UNCHANGED transactVars /\ pc \in {"fn", "check", "commit", "rollback"}
        BY <1>1, <2>11, NoWatchdog DEF Interrupts
      <3> QED BY <1>1, <3>1 DEF ContextEnds, SealInv, transactVars
    <2> QED BY <2>1, <2>2, <2>3, <2>4, <2>5, <2>6, <2>7, <2>8, <2>9, <2>10, <2>11
            DEF Next, TransactStep, FnEnds
  <1> QED BY <1>2, <1>3 DEF SealInv

LEMMA AtomicNext ==
    ASSUME ~CallerCommits, "watchdog" \notin Helpers, AtomicInv, [Next]_allVars
    PROVE  AtomicInv'
  <1>1. BaseInv /\ StageInv /\ LostInv /\ LedgerInv /\ AskedInv /\ SoleInv /\ SealInv
    BY DEF AtomicInv
  <1>2. BaseInv' /\ StageInv' /\ LostInv'
    BY <1>1, BaseNext, StageNext, LostNext
  <1>3. LedgerInv' /\ AskedInv'
    BY <1>1, LedgerNext
  <1>4. SoleInv'
    BY <1>1, NoWatchdog DEF BaseInv
  <1>5. SealInv'
    BY <1>2, SealNext
  <1> QED BY <1>2, <1>3, <1>4, <1>5 DEF AtomicInv

LEMMA AtomicInvariant ==
    ASSUME ~CallerCommits, "watchdog" \notin Helpers
    PROVE  TransactSpec => []AtomicInv
  <1>1. Init => LedgerInv /\ AskedInv
    BY InitFresh, FreshInv
  <1>2. Init => LostInv /\ SoleInv /\ SealInv
    BY DEF Init, LostInv, SoleInv, SealInv, NoOther, FreshSrv
  <1>3. Init => StageInv
    BY DEF Init, StageInv, FreshSrv
  <1>4. Init /\ BaseInv => AtomicInv
    BY <1>1, <1>2, <1>3 DEF AtomicInv
  <1>5. AtomicInv /\ [Next]_allVars => AtomicInv'
    BY AtomicNext
  <1> QED BY <1>4, <1>5, BaseInvariant, PTL DEF TransactSpec

\* CommitsWhole: no partial commits, with a second goroutine that issues statements
\* and whatever the closure ignores.  The closure leaves Commit to Transact, and no
\* watchdog rolls back under it: the run transact_watchdog shows that one may.
THEOREM CommitsWhole ==
    ASSUME ~CallerCommits, "watchdog" \notin Helpers
    PROVE  TransactSpec => []NoPartialCommit
  <1>1. AtomicInv => NoPartialCommit
    BY DEF AtomicInv, SealInv, Whole, NoPartialCommit
  <1> QED BY <1>1, AtomicInvariant, PTL

\* ClosedBatchesInTransact: in Transact too, where Close reads the outcomes of a
\* pipelined send, nil means that every statement of the batch took effect, and closed
\* results never hold the transaction; no watchdog closes them under the caller.
THEOREM ClosedBatchesInTransact ==
    ASSUME "watchdog" \notin Helpers
    PROVE  TransactSpec => []CloseEndsBatch
  <1> DEFINE Inv == BaseInv /\ LedgerInv /\ AskedInv /\ SoleInv
  <1>1. Init /\ BaseInv => Inv
    <2>1. Init => LedgerInv /\ AskedInv
      BY InitFresh, FreshInv
    <2>2. Init => SoleInv
      BY DEF Init, SoleInv, NoOther
    <2> QED BY <2>1, <2>2
  <1>2. Inv /\ [Next]_allVars => Inv'
    <2> SUFFICES ASSUME Inv, [Next]_allVars PROVE Inv'
      OBVIOUS
    <2>1. BaseInv'
      BY BaseNext
    <2>2. LedgerInv' /\ AskedInv'
      BY LedgerNext
    <2>3. SoleInv'
      BY NoWatchdog DEF BaseInv
    <2> QED BY <2>1, <2>2, <2>3
  <1>3. Inv => CloseEndsBatch
    <2> SUFFICES ASSUME Inv, NEW b \in Batches
                 PROVE  /\ batch[b].closedNil /\ srv.tx = "active" => Applied(b)
                        /\ batch[b].results = "closed" => tx.openBatch # b
      BY DEF CloseEndsBatch
    <2> QED BY DEF LedgerInv, AppliedInv, AppliedOK, OpenInv
  <1> HIDE DEF Inv
  <1> QED BY <1>1, <1>2, <1>3, BaseInvariant, PTL DEF TransactSpec

-----------------------------------------------------------------------------
(* Transact implements the atomic transaction *)

\* The closure only asks for more.
LEMMA AskedGrows ==
    ASSUME TxInv, Quiet \/ (\E b \in Batches : Kept(b))
    PROVE  Asked \subseteq Asked'
  <1>1. hist.plain \in Nat /\ hist'.plain \in Nat
    <2>1. TypeOK /\ TypeOK'
      BY DEF TxInv, Quiet, Kept
    <2> QED BY <2>1 DEF TypeOK
  <1>2. hist.plain <= hist'.plain
    BY <1>1 DEF Quiet, PlainStep, Kept, WorkMoves
  <1>3. ASSUME NEW c \in Batches
        PROVE  /\ batch[c].items \in Nat /\ batch'[c].items \in Nat
               /\ batch[c].items <= batch'[c].items
    <2>1. TypeOK /\ TypeOK'
      BY DEF TxInv, Quiet, Kept
    <2>2. batch[c].items \in Nat /\ batch'[c].items \in Nat
      <3>1. batch \in [Batches -> BatchFields] /\ batch' \in [Batches -> BatchFields]
        BY <2>1 DEF TypeOK
      <3>2. \A r \in BatchFields : r.items \in Nat
        BY BatchAssumption DEF BatchFields
      <3> QED BY <3>1, <3>2
    <2>3. Quiet => batch'[c].items = batch[c].items
      BY DEF Quiet, BatchStep
    <2>4. ASSUME NEW b \in Batches, Kept(b) PROVE batch[c].items <= batch'[c].items
      <3>1. CASE c = b
        BY <2>4, <3>1 DEF Kept, WorkMoves
      <3>2. CASE c # b
        <4>1. batch'[c] = batch[c]
          BY <2>4, <3>2 DEF Kept, WorkMoves, OneBatch
        <4> QED BY <2>2, <4>1
      <3> QED BY <3>1, <3>2
    <2> QED BY <2>2, <2>3, <2>4
  <1> SUFFICES ASSUME NEW s \in Asked PROVE s \in Asked'
    OBVIOUS
  <1>4. ASSUME NEW n \in 1..hist.plain, s = <<NoBatch, n>> PROVE s \in Asked'
    <2>1. n \in 1..hist'.plain
      BY <1>1, <1>2
    <2> QED BY <1>4, <2>1 DEF Asked
  <1>5. ASSUME NEW b \in Batches, NEW i \in 1..batch[b].items, s = <<b, i>> PROVE s \in Asked'
    <2>1. i \in 1..batch'[b].items
      BY <1>3
    <2> QED BY <1>5, <2>1 DEF Asked
  <1> QED BY <1>4, <1>5, AskedIs

\* A new attempt has asked for nothing.
LEMMA FreshAsked == Fresh => Asked = {}
  <1> SUFFICES ASSUME Fresh PROVE Asked = {}
    OBVIOUS
  <1>1. hist.plain = 0 /\ \A b \in Batches : batch[b].items = 0
    BY DEF Fresh, FreshHist, FreshBatches
  <1> QED BY <1>1, AskedIs

\* The refinement mapping, by name.
Durable == IF commits > 0 THEN {srv.work[p] : p \in DOMAIN srv.work} ELSE {}
Said == IF pc # "done" THEN "none" ELSE IF ret = "none" THEN "nil" ELSE "failed"

\* The steps of the atomic transaction that a step of Transact can be.
MapsAsk ==
    /\ ~(commits > 0) /\ Said = "none" /\ (Asked \subseteq Asked' \/ Asked' = {})
    /\ Durable' = Durable /\ ~(commits > 0)' /\ Said' = Said
MapsCommit ==
    /\ ~(commits > 0) /\ Said = "none" /\ (commits > 0)' /\ Durable' = Asked
    /\ Asked' = Asked /\ Said' = Said
MapsAnswer ==
    /\ Said = "none" /\ ((Said' = "nil" /\ commits > 0) \/ Said' = "failed")
    /\ Asked' = Asked /\ Durable' = Durable /\ ((commits > 0)' <=> commits > 0)
MapsStutter ==
    Asked' = Asked /\ Durable' = Durable /\ ((commits > 0)' <=> commits > 0) /\ Said' = Said

\* Each step of Transact is one of them.
LEMMA StepMaps ==
    ASSUME ~CallerCommits, "watchdog" \notin Helpers, AtomicInv, AtomicInv', [Next]_allVars
    PROVE  MapsAsk \/ MapsCommit \/ MapsAnswer \/ MapsStutter
  <1>1. /\ TxInv /\ LedgerInv /\ AskedInv /\ StageInv /\ SealInv /\ SoleInv /\ BaseInv
        /\ StageInv' /\ SealInv' /\ srv' \in SrvFields
        /\ pc \in {"begin", "setup", "fn", "check", "commit", "rollback", "release",
                   "attempted", "done"}
    <2>1. TypeOK'
      BY DEF AtomicInv, BaseInv, TxInv
    <2>2. srv' \in SrvFields
      BY <2>1 DEF TypeOK
    <2> QED BY <2>2 DEF AtomicInv, BaseInv, PlaceInv, TransactTypeOK
  <1>2. (commits > 0 <=> srv.tx = "committed") /\ ((commits > 0)' <=> srv'.tx = "committed")
    BY <1>1 DEF StageInv
  <1>3. CASE srv.tx = "committed"
    <2>1. /\ UNCHANGED <<batch, hist>> /\ srv'.work = srv.work
          /\ srv'.tx = "committed" /\ commits' = commits /\ ret' = ret
          /\ \/ pc' = pc
             \/ pc = "rollback" /\ pc' = "release"
             \/ pc = "release" /\ pc' = "attempted"
             \/ pc = "attempted" /\ pc' = "done"
      BY <1>3, Frozen
    <2>2. Asked' = Asked /\ Durable' = Durable
      BY <2>1 DEF Asked, Durable
    <2>3. CASE pc = "attempted" /\ pc' = "done"
      BY <1>2, <1>3, <2>1, <2>2, <2>3 DEF MapsAnswer, Said
    <2>4. CASE ~(pc = "attempted" /\ pc' = "done")
      <3>1. Said' = Said
        BY <2>1, <2>4 DEF Said
      <3> QED BY <1>2, <1>3, <2>1, <2>2, <3>1 DEF MapsStutter
    <2> QED BY <2>3, <2>4
  <1>4. CASE srv.tx # "committed" /\ srv'.tx = "committed"
    <2>1. Whole'
      BY <1>1, <1>4 DEF SealInv
    <2>2. Durable' = Work'
      <3>1. DOMAIN srv'.work = 1..Len(srv'.work)
        BY <1>1 DEF SrvFields
      <3> QED BY <1>2, <1>4, <3>1 DEF Durable, Work
    <2>4. TransactCommits
      BY <1>1, <1>4, OnlyTransactCommits
    <2>5. UNCHANGED <<batch, hist>> /\ pc = "commit" /\ pc' \in {"release", "rollback"}
      BY <2>4 DEF TransactCommits
    <2>6. Asked' = Asked /\ Said = "none" /\ Said' = "none"
      BY <2>5 DEF Asked, Said
    <2>7. Durable' = Asked
      BY <2>1, <2>2, <2>6 DEF Whole
    <2> QED BY <1>2, <1>4, <2>6, <2>7 DEF MapsCommit
  <1>5. CASE srv.tx # "committed" /\ srv'.tx # "committed"
    <2>1. Durable = {} /\ Durable' = {} /\ ~(commits > 0) /\ ~(commits > 0)'
      BY <1>2, <1>5 DEF Durable
    <2>2. CASE UNCHANGED allVars \/ Terminated
      <3>1. UNCHANGED <<batch, hist, pc, ret>>
        BY <2>2 DEF Terminated, allVars, vars, transactVars
      <3> QED BY <2>1, <3>1 DEF MapsStutter, Asked, Said
    <2>3. CASE Returns
      <3>1. UNCHANGED <<batch, hist, ret>> /\ pc = "attempted" /\ pc' = "done"
        BY <2>3 DEF Returns, vars
      <3>2. ret # "none"
        BY <1>1, <1>5, <3>1 DEF SealInv
      <3> QED BY <2>1, <3>1, <3>2 DEF MapsAnswer, Asked, Said
    <2>4. CASE ~Returns /\ ~Terminated /\ ~UNCHANGED allVars
      <3>1. pc # "done" /\ pc' # "done"
        BY <2>4 DEF Next, TransactStep, FnEnds, BeginSucceeds, BeginFails, SetXactAbort, Check,
               TransactCommits, RollsBack, ReleasesConn, Retries, FnUses, FnReturnsNil,
               FnReturnsError, FnPanics, FnMayReturn, Interrupts, transactVars
      <3>2. Said = "none" /\ Said' = "none"
        BY <3>1 DEF Said
      <3>3. Quiet \/ (\E b \in Batches : Kept(b)) \/ SetupLoses \/ (BeginSucceeds /\ Fresh')
        BY <1>1, LedgerNext
      <3>4. SetupLoses => Asked' = Asked
        BY DEF SetupLoses, Asked
      <3>5. Fresh' => Asked' = {}
        <4>1. (Fresh => Asked = {})'
          BY FreshAsked, PTL
        <4> QED BY <4>1
      <3>6. Asked \subseteq Asked' \/ Asked' = {}
        BY <1>1, <3>3, <3>4, <3>5, AskedGrows
      <3> QED BY <2>1, <3>2, <3>6 DEF MapsAsk
    <2> QED BY <2>2, <2>3, <2>4
  <1> QED BY <1>3, <1>4, <1>5

\* TransactIsAtomic: Transact implements AtomicTransaction: with retries, recorded
\* errors, batches and a second goroutine's statements, exactly what one attempt's
\* closure asked for becomes durable, at once, or nothing does, and nil is answered
\* only in the first case.
THEOREM TransactIsAtomic ==
    ASSUME ~CallerCommits, "watchdog" \notin Helpers
    PROVE  TransactSpec => ImplementsAtomic
  <1>1. Init => Abstract!Init
    <2> SUFFICES ASSUME Init PROVE Abstract!Init
      OBVIOUS
    <2>1. Asked = {}
      BY InitFresh, FreshAsked
    <2>2. commits = 0 /\ pc = "begin"
      BY DEF Init
    <2> QED BY <2>1, <2>2 DEF Abstract!Init
  <1>2. AtomicInv /\ AtomicInv' /\ [Next]_allVars => [Abstract!Next]_(Abstract!vars)
    <2> SUFFICES ASSUME AtomicInv, AtomicInv', [Next]_allVars
                 PROVE  [Abstract!Next]_(Abstract!vars)
      OBVIOUS
    <2>1. CASE MapsAsk
      BY <2>1 DEF MapsAsk, Abstract!Next, Abstract!Ask, Durable, Said
    <2>2. CASE MapsCommit
      BY <2>2 DEF MapsCommit, Abstract!Next, Abstract!Commit, Durable, Said
    <2>3. CASE MapsAnswer
      BY <2>3 DEF MapsAnswer, Abstract!Next, Abstract!Answer, Durable, Said
    <2>4. CASE MapsStutter
      BY <2>4 DEF MapsStutter, Abstract!vars, Durable, Said
    <2> QED BY <2>1, <2>2, <2>3, <2>4, StepMaps
  <1>3. TransactSpec => Abstract!Init /\ [][Abstract!Next]_(Abstract!vars)
    BY <1>1, <1>2, AtomicInvariant, PTL DEF TransactSpec
  <1> QED BY <1>3 DEF ImplementsAtomic, Abstract!Spec

=============================================================================
