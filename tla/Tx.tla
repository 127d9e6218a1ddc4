-------------------------------- MODULE Tx ---------------------------------
(***************************************************************************)
(* One transaction: Tx (tx.go), the batches of statements queued on it     *)
(* (batch.go, batchresults.go, batchrows.go) and, external, the database   *)
(* transaction under it.  The caller is arbitrary code: it issues          *)
(* statements, queues, sends and reads batches, ignores any error, and     *)
(* commits or rolls back.  A second goroutine may use the transaction too: *)
(* it issues statements, or rolls back as a watchdog.                      *)
(*                                                                         *)
(* A call is one step where nothing another goroutine does can come        *)
(* between its effects, and several where it can: the pipelined send, the  *)
(* statements a batch runs one by one, and Rollback.                       *)
(***************************************************************************)
EXTENDS Integers, Sequences, FiniteSets

CONSTANTS NBatches,     \* batches the caller makes in a transaction
          MaxItems,     \* bound: statements queued in one batch
          MaxPlain,     \* bound: statements issued outside a batch
          Helpers,      \* what the second goroutine does
          CallerCommits,\* does the caller call Commit?
          LateScan      \* does the caller keep a Row before it scans it?

ASSUME BatchAssumption == NBatches \in Nat /\ MaxItems \in Nat /\ MaxPlain \in Nat
ASSUME HelperAssumption == Helpers \subseteq {"statement", "watchdog"}
ASSUME CallerAssumption == CallerCommits \in BOOLEAN /\ LateScan \in BOOLEAN

VARIABLES
    autoErr,  \* Tx.autoErr: made by Transact
    driver,   \* the database: "pgx", "mssql" or "other"
    srv,      \* external: the state of the database's transaction
    tx,       \* the fields of Tx, and the error a Row of it still holds
    batch,    \* the batches, and the results of the ones sent
    at,       \* what the caller is in the middle of
    other,    \* what the second goroutine is in the middle of
    hist      \* history: statements issued, and what became of them

vars == <<autoErr, driver, srv, tx, batch, at, other, hist>>

Batches == 1..NBatches
NoBatch == 0
Errors == {"error", "contention"}
Outcome == {"none"} \cup Errors

\* A statement is item n of batch b, or <<NoBatch, n>>.
Statements == (Batches \cup {NoBatch}) \X Nat

-----------------------------------------------------------------------------
(* External: the transaction as the database and database/sql keep it. *)

(***************************************************************************)
(* "lost" is a transaction the server has undone as a whole, on a deadlock *)
(* or under XACT_ABORT, while the client still holds it: a statement sent  *)
(* now takes effect on its own.  PostgreSQL refuses every statement until  *)
(* the transaction ends instead ("aborted").                               *)
(***************************************************************************)
SrvStates == {"active", "aborted", "lost", "committed", "rolledback"}

Ended == srv.tx \in {"committed", "rolledback"}

\* What a failed statement leaves of the transaction.
AfterFailure ==
    IF driver = "pgx" THEN {[srv EXCEPT !.tx = "aborted"]}
    ELSE {srv, [srv EXCEPT !.tx = "lost", !.work = <<>>]}

\* The outcomes of a statement that never left the client.
NotSent == {[srv |-> srv, err |-> "error"]}

\* The outcomes of a statement that sql.Tx passes on; ErrTxDone once ended.
Exec(s) ==
    NotSent \cup
    CASE srv.tx = "active" ->
            {[srv |-> [srv EXCEPT !.work = Append(@, s)], err |-> "none"]}
            \cup [srv : AfterFailure, err : Errors]
      [] srv.tx = "lost" ->
            {[srv |-> [srv EXCEPT !.stray = @ \cup {s}], err |-> "none"]}
      [] OTHER -> {}

\* The outcomes of sql.Tx.Commit: the answer may be lost after the commit, and
\* a cancelled context is reported without ending the transaction.
SqlCommit ==
    CASE srv.tx = "active" ->
            {[srv |-> [srv EXCEPT !.tx = "committed"], err |-> e] : e \in {"none", "error"}}
            \cup {[srv |-> [srv EXCEPT !.tx = "rolledback"], err |-> e] : e \in Errors}
            \cup NotSent
      [] srv.tx = "lost" ->
            {[srv |-> [srv EXCEPT !.tx = "rolledback"], err |-> e] : e \in {"none", "error"}}
      [] srv.tx = "aborted" ->
            {[srv |-> [srv EXCEPT !.tx = "rolledback"], err |-> "error"]}
      [] OTHER -> NotSent

SqlRollback ==
    IF Ended THEN NotSent
    ELSE {[srv |-> [srv EXCEPT !.tx = "rolledback"], err |-> "none"]}

-----------------------------------------------------------------------------
(* State *)

\* Send pipelines on the connection Transact holds on the pgx drivers.
Pipelined == autoErr /\ driver = "pgx"

FreshSrv(state) == [tx |-> state, work |-> <<>>, stray |-> {}]

FreshTx == [err |-> "none", unsentBatches |-> 0, batchMisuse |-> FALSE,
            openBatch |-> NoBatch, batchExecuting |-> FALSE, done |-> FALSE,
            row |-> "none"]

\* results: none before Send; unopened when Send opened nothing; then open,
\* closed.  rows are those of the statement read last; superseded says that the
\* caller still has rows a later read closed.
FreshBatches ==
    [b \in Batches |->
        [items |-> 0, sent |-> FALSE, itemErr |-> <<>>, results |-> "none",
         next |-> 0, err |-> "none", rows |-> FALSE, superseded |-> FALSE,
         closedNil |-> FALSE]]

Idle == [call |-> "caller", b |-> NoBatch, query |-> FALSE]
NoOther == [call |-> "idle", b |-> NoBatch, n |-> 0]
FreshHist == [plain |-> 0, failed |-> FALSE, dropped |-> FALSE]

\* The fields of the server's transaction, of a Tx and of a batch.
SrvFields == [tx : SrvStates, work : Seq(Statements), stray : SUBSET Statements]

TxFields == [err : Outcome, unsentBatches : 0..NBatches, batchMisuse : BOOLEAN,
             openBatch : Batches \cup {NoBatch}, batchExecuting : BOOLEAN,
             done : BOOLEAN, row : Outcome]

BatchFields ==
    [items : 0..MaxItems, sent : BOOLEAN, itemErr : Seq(Outcome),
     results : {"none", "unopened", "open", "closed", "unreachable"},
     next : Nat, err : Outcome, rows : BOOLEAN, superseded : BOOLEAN, closedNil : BOOLEAN]

TypeOK ==
    /\ autoErr \in BOOLEAN
    /\ driver \in {"pgx", "mssql", "other"}
    /\ srv \in SrvFields
    /\ tx \in TxFields
    /\ batch \in [Batches -> BatchFields]
    /\ at \in [call : {"caller", "pipeline", "run", "close", "panic"},
               b : Batches \cup {NoBatch}, query : BOOLEAN]
    /\ other \in [call : {"idle", "sending", "abandon", "finalize", "done"},
                  b : Batches \cup {NoBatch}, n : 0..MaxPlain]
    /\ hist \in [plain : Nat, failed : BOOLEAN, dropped : BOOLEAN]

-----------------------------------------------------------------------------
(* Errors *)

\* recordErr: the first error is remembered, in Transact mode.
Recorded(t, e) ==
    IF autoErr /\ t.err = "none" THEN [t EXCEPT !.err = e] ELSE t

batchRefuses == tx.openBatch # NoBatch /\ ~tx.batchExecuting

\* Mutant: an open batch does not bar other statements.
shortCircuitErrOnly == IF autoErr THEN tx.err ELSE "none"

\* shortCircuit: the error a statement gets instead of being sent.
shortCircuit ==
    IF batchRefuses THEN "error" ELSE IF autoErr THEN tx.err ELSE "none"

\* BatchResults.fail: the first failure of a batch.
FailedWith(r, e) == IF r.err = "none" THEN [r EXCEPT !.err = e] ELSE r

Failure == [hist EXCEPT !.failed = TRUE]
Drop == [hist EXCEPT !.dropped = TRUE]

-----------------------------------------------------------------------------
(* Statements outside a batch: Exec, Query, Prepare, a Stmt's, InsertReturnID *)

StatementRefused ==
    /\ shortCircuit # "none"
    /\ tx' = Recorded(tx, shortCircuit)
    /\ hist' = [Drop EXCEPT !.plain = @ + 1]
    /\ UNCHANGED <<autoErr, driver, srv, batch, at, other>>

\* The statement is sent, and its error recorded.
SendStatement(s) ==
    \E o \in Exec(s) :
        /\ srv' = o.srv
        /\ tx' = IF o.err = "none" THEN tx ELSE Recorded(tx, o.err)
        /\ hist' = [hist EXCEPT !.plain = IF s[2] > @ THEN s[2] ELSE @,
                                !.failed = @ \/ o.err # "none"]

StatementSent ==
    /\ shortCircuit = "none"
    /\ SendStatement(<<NoBatch, hist.plain + 1>>)
    /\ UNCHANGED <<autoErr, driver, batch, at, other>>

\* QueryRow is sent at once, but its error waits in the Row for Scan or Err.
QueryRowFails ==
    /\ LateScan
    /\ shortCircuit = "none"
    /\ tx.row = "none"
    /\ \E o \in Exec(<<NoBatch, hist.plain + 1>>) :
          /\ o.err # "none"
          /\ srv' = o.srv
          /\ tx' = [tx EXCEPT !.row = o.err]
    /\ hist' = [Failure EXCEPT !.plain = @ + 1]
    /\ UNCHANGED <<autoErr, driver, batch, at, other>>

\* Scan, or Err, of that Row: the error is recorded.
ScanRow ==
    /\ tx.row # "none"
    /\ tx' = Recorded([tx EXCEPT !.row = "none"], tx.row)
    /\ UNCHANGED <<autoErr, driver, srv, batch, at, other, hist>>

Statement ==
    hist.plain < MaxPlain /\ (StatementRefused \/ StatementSent \/ QueryRowFails)

\* A Rows or Row fails while it is read: a bad Scan, or the stream breaks.
ReadFails ==
    /\ hist.plain > 0
    /\ srv.tx = "active"
    /\ \E s \in {srv} \cup AfterFailure, e \in Errors :
          srv' = s /\ tx' = Recorded(tx, e)
    /\ hist' = Failure
    /\ UNCHANGED <<autoErr, driver, batch, at, other>>

-----------------------------------------------------------------------------
(* Batch *)

Queue(b) ==
    /\ ~batch[b].sent
    /\ batch[b].items < MaxItems
    /\ batch' = [batch EXCEPT ![b].items = @ + 1]
    /\ tx' = IF batch[b].items = 0 THEN [tx EXCEPT !.unsentBatches = @ + 1] ELSE tx
    /\ UNCHANGED <<autoErr, driver, srv, at, other, hist>>

\* A statement queued after Send would silently never run.
QueueLate(b) ==
    /\ batch[b].sent
    /\ tx' = Recorded([tx EXCEPT !.batchMisuse = TRUE], "error")
    /\ hist' = Drop
    /\ UNCHANGED <<autoErr, driver, srv, batch, at, other>>

\* A batch is sent once: the second results report it, and only they.
SendAgain(b) ==
    /\ batch[b].sent
    /\ tx' = Recorded(tx, "error")
    /\ UNCHANGED <<autoErr, driver, srv, batch, at, other, hist>>

\* Send is over before anything is opened: refused, a named argument, or empty.
SentUnopened(b, e) ==
    /\ batch' = [batch EXCEPT ![b].sent = TRUE, ![b].results = "unopened", ![b].err = e]
    /\ hist' = IF batch[b].items > 0 THEN Drop ELSE hist
    /\ UNCHANGED <<autoErr, driver, srv, at, other>>

AfterSend(b) ==
    IF batch[b].items > 0 THEN [tx EXCEPT !.unsentBatches = @ - 1] ELSE tx

SendRefused(b) ==
    /\ ~batch[b].sent
    /\ shortCircuit # "none"
    /\ tx' = IF batchRefuses THEN Recorded(AfterSend(b), "error") ELSE AfterSend(b)
    /\ SentUnopened(b, shortCircuit)

SendNamedArg(b) ==
    /\ ~batch[b].sent
    /\ shortCircuit = "none"
    /\ batch[b].items > 0
    /\ tx' = Recorded(AfterSend(b), "error")
    /\ SentUnopened(b, "error")

SendEmpty(b) ==
    /\ ~batch[b].sent
    /\ shortCircuit = "none"
    /\ batch[b].items = 0
    /\ tx' = AfterSend(b)
    /\ SentUnopened(b, "none")

SendOpens(b) ==
    /\ ~batch[b].sent
    /\ shortCircuit = "none"
    /\ batch[b].items > 0
    /\ tx' = [AfterSend(b) EXCEPT !.openBatch = b]
    /\ batch' = [batch EXCEPT ![b].sent = TRUE, ![b].results = "open"]
    /\ at' = IF Pipelined THEN [Idle EXCEPT !.call = "pipeline", !.b = b] ELSE at
    /\ UNCHANGED <<autoErr, driver, srv, other, hist>>

Send(b) == SendRefused(b) \/ SendNamedArg(b) \/ SendEmpty(b) \/ SendOpens(b)

-----------------------------------------------------------------------------
(* pipeline: every statement in one round trip *)

Items(b) == [i \in 1..batch[b].items |-> <<b, i>>]

\* The items from index i + 1 on carry the failure.
FailAfter(b, i, e) ==
    [j \in 1..batch[b].items |-> IF j > i THEN e ELSE "none"]

PipelineReturns(b, errs) ==
    /\ batch' = [batch EXCEPT ![b].itemErr = errs]
    /\ at' = Idle
    /\ UNCHANGED <<autoErr, driver, tx, other>>

\* Nothing is sent: a statement does not unpack, the borrow fails, or the
\* connection is idle because the transaction is over.
PipelineNotSent ==
    /\ at.call = "pipeline"
    /\ hist' = Failure
    /\ srv' = srv
    /\ PipelineReturns(at.b, FailAfter(at.b, 0, "error"))

\* Mutant: the connection's transaction status is not looked at.
PipelineAlwaysSends == TRUE

\* The borrowed connection bypasses sql.Tx, so the transaction is checked here.
PipelineMaySend == ~Ended

\* The server runs the items in order, up to the one that fails; an item of a
\* transaction already over would take effect on its own.
PipelineSends ==
    /\ at.call = "pipeline"
    /\ PipelineMaySend
    /\ \E n \in 0..batch[at.b].items, e \in Errors :
          LET ran == SubSeq(Items(at.b), 1, n)
              all == n = batch[at.b].items
          IN  /\ srv.tx # "aborted" \/ n = 0
              /\ srv' = IF Ended
                        THEN [srv EXCEPT !.stray = @ \cup {ran[i] : i \in 1..n}]
                        ELSE [srv EXCEPT !.work = @ \o ran,
                                         !.tx = IF all THEN @ ELSE "aborted"]
              /\ hist' = IF all THEN hist ELSE Failure
              /\ PipelineReturns(at.b, FailAfter(at.b, n, e))

\* Everything ran, but closing the driver's results fails: so does every item.
PipelineCloseFails ==
    /\ at.call = "pipeline"
    /\ srv.tx = "active"
    /\ srv' = [srv EXCEPT !.work = @ \o Items(at.b), !.tx = "aborted"]
    /\ hist' = Failure
    /\ PipelineReturns(at.b, FailAfter(at.b, 0, "error"))

\* An argument's Valuer panics: the connection is closed and Send panics, so
\* nobody holds the results.
PipelinePanics ==
    /\ at.call = "pipeline"
    /\ srv' = IF Ended THEN srv ELSE [srv EXCEPT !.tx = "rolledback"]
    /\ hist' = Failure
    /\ batch' = [batch EXCEPT ![at.b].results = "unreachable"]
    /\ at' = [Idle EXCEPT !.call = "panic"]
    /\ UNCHANGED <<autoErr, driver, tx, other>>

Pipeline == PipelineNotSent \/ PipelineSends \/ PipelineCloseFails \/ PipelinePanics

-----------------------------------------------------------------------------
(* BatchResults *)

HasResults(b) == batch[b].results \in {"unopened", "open", "closed"}

\* supersedeOpen: rows not read to their end stay behind as superseded ones.
Supersede(r) == [r EXCEPT !.rows = FALSE, !.superseded = @ \/ r.rows]

\* doomed: the transaction's recorded error becomes the batch's.
Doom(r) == IF autoErr /\ tx.err # "none" THEN FailedWith(r, tx.err) ELSE r

\* A read that answers without reading an item: the results are closed, the
\* batch has failed (where next counts on, but no longer matters) or every item
\* was read.
ReadNothing(b) ==
    LET r == Supersede(batch[b])
        d == Doom(r)
    IN  /\ HasResults(b)
        /\ \/ r.results = "closed" /\ batch' = [batch EXCEPT ![b] = r]
           \/ /\ r.results # "closed"
              /\ d.err # "none"
              /\ batch' = [batch EXCEPT ![b] = d]
           \/ /\ r.results # "closed"
              /\ d.err = "none"
              /\ r.next >= r.items
              /\ batch' = [batch EXCEPT ![b] = r]
        /\ UNCHANGED <<autoErr, driver, srv, tx, at, other, hist>>

\* The next item is there to read.
Readable(b) ==
    /\ HasResults(b)
    /\ batch[b].results # "closed"
    /\ Doom(batch[b]).err = "none"
    /\ batch[b].next < batch[b].items

\* Exec or Query of a pipelined item: its outcome is known.
ReadPipelined(b, query) ==
    /\ Readable(b)
    /\ Pipelined
    /\ LET r == [Supersede(batch[b]) EXCEPT !.next = @ + 1]
           e == r.itemErr[r.next]
       IN  /\ batch' = [batch EXCEPT ![b] = IF e = "none" THEN [r EXCEPT !.rows = query]
                                            ELSE FailedWith(r, e)]
           /\ tx' = IF e = "none" THEN tx ELSE Recorded(tx, e)
    /\ UNCHANGED <<autoErr, driver, srv, at, other, hist>>

\* run: the item is issued on the transaction, which lets it through.
RunBegins(b, query) ==
    /\ Readable(b)
    /\ ~Pipelined
    /\ batch' = [batch EXCEPT ![b] = [Supersede(batch[b]) EXCEPT !.next = @ + 1]]
    /\ tx' = [tx EXCEPT !.batchExecuting = TRUE]
    /\ at' = [call |-> "run", b |-> b, query |-> query]
    /\ UNCHANGED <<autoErr, driver, srv, other, hist>>

\* The statement's outcome, when the transaction has not been short-circuited.
RunOutcomes(b) ==
    IF shortCircuit = "none" THEN Exec(<<b, batch[b].next>>)
    ELSE {[srv |-> srv, err |-> shortCircuit]}

RunEnds ==
    /\ at.call \in {"run", "close"}
    /\ tx.batchExecuting
    /\ \E o \in RunOutcomes(at.b) :
          /\ srv' = o.srv
          /\ hist' = IF o.err = "none" THEN hist ELSE Failure
          /\ tx' = IF o.err = "none" THEN [tx EXCEPT !.batchExecuting = FALSE]
                   ELSE Recorded([tx EXCEPT !.batchExecuting = FALSE], o.err)
          /\ batch' = [batch EXCEPT ![at.b] =
                          IF o.err = "none" THEN [@ EXCEPT !.rows = at.query]
                          ELSE FailedWith(@, o.err)]
    /\ at' = IF at.call = "run" THEN Idle ELSE at
    /\ UNCHANGED <<autoErr, driver, other>>

\* abandon: the results close and the transaction takes other statements again.
Abandoned(r) == [Supersede(r) EXCEPT !.results = "closed"]

\* Mutant: the transaction is not released.
ReleasedNever(t, b) == t

Released(t, b) == IF t.openBatch = b THEN [t EXCEPT !.openBatch = NoBatch] ELSE t

\* The statement panics: the batch fails on the way out, and Close lets go of it.
RunPanics ==
    /\ at.call \in {"run", "close"}
    /\ tx.batchExecuting
    /\ LET t == Recorded([tx EXCEPT !.batchExecuting = FALSE], "error")
           r == FailedWith(batch[at.b], "error")
       IN  IF at.call = "close"
           THEN tx' = Released(t, at.b) /\ batch' = [batch EXCEPT ![at.b] = Abandoned(r)]
           ELSE tx' = t /\ batch' = [batch EXCEPT ![at.b] = r]
    /\ hist' = Failure
    /\ at' = [Idle EXCEPT !.call = "panic"]
    /\ UNCHANGED <<autoErr, driver, srv, other>>

\* The first item of a pipelined batch that failed.
FirstItemErr(b) ==
    LET failed == {i \in 1..Len(batch[b].itemErr) : batch[b].itemErr[i] # "none"}
    IN  IF failed = {} THEN "none"
        ELSE batch[b].itemErr[CHOOSE i \in failed : \A j \in failed : i <= j]

\* Close ends: abandon, and the answer is the batch's first failure.
CloseEnds(b, r, t) ==
    /\ batch' = [batch EXCEPT ![b] = [Abandoned(r) EXCEPT !.closedNil = r.err = "none"]]
    /\ tx' = Released(t, b)
    /\ at' = Idle

CloseAgain(b) ==
    /\ HasResults(b)
    /\ batch[b].results = "closed"
    /\ batch' = [batch EXCEPT ![b].closedNil = batch[b].err = "none"]
    /\ UNCHANGED <<autoErr, driver, srv, tx, at, other, hist>>

ClosePipelined(b) ==
    /\ HasResults(b)
    /\ batch[b].results # "closed"
    /\ Pipelined
    /\ LET d == Doom(Supersede(batch[b]))
           e == FirstItemErr(b)
       IN  IF e = "none" THEN CloseEnds(b, d, tx)
           ELSE CloseEnds(b, FailedWith(d, e), Recorded(tx, e))
    /\ UNCHANGED <<autoErr, driver, srv, other, hist>>

\* Mutant: Close runs every item, the ones already read too.
CloseSequentialAll(b) ==
    /\ HasResults(b)
    /\ batch[b].results # "closed"
    /\ ~Pipelined
    /\ batch' = [batch EXCEPT ![b] = [Doom(Supersede(@)) EXCEPT !.next = 0]]
    /\ at' = [Idle EXCEPT !.call = "close", !.b = b]
    /\ UNCHANGED <<autoErr, driver, srv, tx, other, hist>>

\* Statement by statement, Close first runs the items not read yet.
CloseSequential(b) ==
    /\ HasResults(b)
    /\ batch[b].results # "closed"
    /\ ~Pipelined
    /\ batch' = [batch EXCEPT ![b] = Doom(Supersede(@))]
    /\ at' = [Idle EXCEPT !.call = "close", !.b = b]
    /\ UNCHANGED <<autoErr, driver, srv, tx, other, hist>>

\* Mutant: Close leaves the items not read.
CloseHasNoMore(b) == FALSE

\* The loop of Close looks at the failure and the items left, not at closed.
CloseHasMore(b) == batch[b].err = "none" /\ batch[b].next < batch[b].items

CloseRuns ==
    /\ at.call = "close"
    /\ ~tx.batchExecuting
    /\ CloseHasMore(at.b)
    /\ batch' = [batch EXCEPT ![at.b].next = @ + 1]
    /\ tx' = [tx EXCEPT !.batchExecuting = TRUE]
    /\ UNCHANGED <<autoErr, driver, srv, at, other, hist>>

CloseReturns ==
    /\ at.call = "close"
    /\ ~tx.batchExecuting
    /\ ~CloseHasMore(at.b)
    /\ CloseEnds(at.b, batch[at.b], tx)
    /\ UNCHANGED <<autoErr, driver, srv, other, hist>>

-----------------------------------------------------------------------------
(* BatchRows: the rows of the item read last *)

\* Next has no more rows, or the caller closes them.  Rows that stream from the
\* server may break off: Next says so, or the Close of a later read of the batch.
RowsEnd(b) ==
    /\ batch[b].rows
    /\ \/ /\ batch' = [batch EXCEPT ![b].rows = FALSE]
          /\ UNCHANGED <<srv, tx, hist>>
       \/ /\ ~Pipelined
          /\ srv.tx = "active"
          /\ \E s \in AfterFailure, e \in Errors, later \in BOOLEAN :
                /\ srv' = s
                /\ tx' = Recorded(tx, e)
                /\ batch' = [batch EXCEPT ![b] =
                      FailedWith([batch[b] EXCEPT !.rows = FALSE, !.superseded = @ \/ later], e)]
          /\ hist' = Failure
    /\ UNCHANGED <<autoErr, driver, at, other>>

\* A Scan fails; one of rows that were superseded always does.
RowsScanFails(b) ==
    /\ batch[b].rows \/ batch[b].superseded
    /\ batch' = [batch EXCEPT ![b] = FailedWith(@, "error")]
    /\ tx' = Recorded(tx, "error")
    /\ hist' = Failure
    /\ UNCHANGED <<autoErr, driver, srv, at, other>>

\* Rows read after the batch moved on report it, and record it.
ReadSuperseded(b) ==
    /\ batch[b].superseded
    /\ tx' = Recorded(tx, "error")
    /\ hist' = Failure
    /\ UNCHANGED <<autoErr, driver, srv, batch, at, other>>

-----------------------------------------------------------------------------
(* Commit and Rollback *)

\* Mutant: a batch never sent does not keep the transaction from committing.
batchPendingSent == tx.batchMisuse \/ tx.openBatch # NoBatch

batchPending == tx.batchMisuse \/ tx.unsentBatches > 0 \/ tx.openBatch # NoBatch

\* finalize: done answers ErrTxDone, and only a nil error sets it.
Finalize(t, outcomes) ==
    IF t.done THEN {[tx |-> t, srv |-> srv, err |-> "error"]}
    ELSE {[tx |-> [t EXCEPT !.done = o.err = "none"], srv |-> o.srv, err |-> o.err] :
             o \in outcomes}

CommitOutcomes ==
    IF batchPending THEN {[tx |-> tx, srv |-> srv, err |-> "error"]}
    ELSE Finalize(tx, SqlCommit)

\* Rollback by the goroutine that uses the batch: its open results are abandoned.
RollbackOutcomes == Finalize([tx EXCEPT !.openBatch = NoBatch], SqlRollback)
AbandonOpen ==
    IF tx.openBatch = NoBatch THEN batch
    ELSE [batch EXCEPT ![tx.openBatch] = Abandoned(@)]

Commit ==
    /\ \E o \in CommitOutcomes : tx' = o.tx /\ srv' = o.srv
    /\ UNCHANGED <<autoErr, driver, batch, at, other, hist>>

Rollback ==
    /\ batch' = AbandonOpen
    /\ \E o \in RollbackOutcomes : tx' = o.tx /\ srv' = o.srv
    /\ UNCHANGED <<autoErr, driver, at, other, hist>>

\* External: database/sql rolls back when the transaction's context ends.
ContextEnds ==
    /\ ~Ended
    /\ srv' = [srv EXCEPT !.tx = "rolledback"]
    /\ UNCHANGED <<autoErr, driver, tx, batch, at, other, hist>>

\* The watchdog's Rollback reads openBatch, abandons it, then finalizes.
WatchdogReads ==
    /\ "watchdog" \in Helpers
    /\ other.call = "idle"
    /\ other' = [other EXCEPT !.b = tx.openBatch,
                   !.call = IF tx.openBatch = NoBatch THEN "finalize" ELSE "abandon"]
    /\ UNCHANGED <<autoErr, driver, srv, tx, batch, at, hist>>

WatchdogAbandons ==
    /\ other.call = "abandon"
    /\ batch' = [batch EXCEPT ![other.b] = Abandoned(@)]
    /\ tx' = Released(tx, other.b)
    /\ other' = [other EXCEPT !.call = "finalize"]
    /\ UNCHANGED <<autoErr, driver, srv, at, hist>>

WatchdogFinalizes ==
    /\ other.call = "finalize"
    /\ \E o \in Finalize(tx, SqlRollback) : tx' = o.tx /\ srv' = o.srv
    /\ other' = [NoOther EXCEPT !.call = "done"]
    /\ UNCHANGED <<autoErr, driver, batch, at, hist>>

Watchdog == WatchdogReads \/ WatchdogAbandons \/ WatchdogFinalizes

-----------------------------------------------------------------------------
(* The goroutines *)

\* What the caller may do next.
CallerCalls ==
    /\ at.call = "caller"
    /\ \/ Statement \/ ScanRow
       \/ ReadFails
       \/ \E b \in Batches :
             \/ Queue(b) \/ QueueLate(b) \/ Send(b) \/ SendAgain(b)
             \/ ReadNothing(b)
             \/ \E query \in BOOLEAN : ReadPipelined(b, query) \/ RunBegins(b, query)
             \/ CloseAgain(b) \/ ClosePipelined(b) \/ CloseSequential(b)
             \/ RowsEnd(b) \/ RowsScanFails(b) \/ ReadSuperseded(b)
       \/ CallerCommits /\ Commit
       \/ Rollback

\* A call under way goes on: statement by statement, or pipelined.
RunGoesOn == RunEnds \/ RunPanics \/ CloseRuns \/ CloseReturns
CallGoesOn == RunGoesOn \/ Pipeline

\* The caller recovers from a panic of one of its arguments.
Recovers ==
    /\ at.call = "panic"
    /\ at' = Idle
    /\ UNCHANGED <<autoErr, driver, srv, tx, batch, other, hist>>

(***************************************************************************)
(* The second goroutine passes shortCircuit, and only then sends: what it  *)
(* was let through on may be over by the time the connection is its own.   *)
(***************************************************************************)
HelperChecks ==
    /\ "statement" \in Helpers
    /\ other.call = "idle"
    /\ hist.plain < MaxPlain
    /\ \/ StatementRefused
       \/ /\ shortCircuit = "none"
          /\ other' = [NoOther EXCEPT !.call = "sending", !.n = hist.plain + 1]
          /\ hist' = [hist EXCEPT !.plain = @ + 1]
          /\ UNCHANGED <<autoErr, driver, srv, tx, batch, at>>

HelperSends ==
    /\ other.call = "sending"
    /\ SendStatement(<<NoBatch, other.n>>)
    /\ other' = NoOther
    /\ UNCHANGED <<autoErr, driver, batch, at>>

HelperCalls == HelperChecks \/ HelperSends

(***************************************************************************)
(* BeginTx: the caller drives the transaction, and nothing is recorded.    *)
(* There is no held connection, so no batch is pipelined; one goroutine    *)
(* uses the transaction.                                                   *)
(***************************************************************************)
UseTx == CallerCalls \/ RunGoesOn \/ Recovers \/ ContextEnds

BeginTx ==
    /\ autoErr = FALSE
    /\ driver \in {"pgx", "other"}
    /\ srv = FreshSrv("active")
    /\ tx = FreshTx
    /\ batch = FreshBatches
    /\ at = Idle
    /\ other = NoOther
    /\ hist = FreshHist

Spec == BeginTx /\ [][UseTx]_vars

-----------------------------------------------------------------------------
(* Properties *)

\* Every statement of the batch took effect.
Applied(b) ==
    \A i \in 1..batch[b].items :
        \E p \in 1..Len(srv.work) : srv.work[p] = <<b, i>>

(***************************************************************************)
(* Statements of a batch take effect in the order they were queued, each   *)
(* once and none before the one queued before it, however they are sent    *)
(* and read.                                                               *)
(***************************************************************************)
BatchInOrder ==
    \A p \in 1..Len(srv.work) :
        LET s == srv.work[p]
        IN  s[1] # NoBatch =>
               Cardinality({q \in 1..(p - 1) : srv.work[q][1] = s[1]}) = s[2] - 1

(***************************************************************************)
(* From Send until the results are closed the transaction belongs to the   *)
(* batch: no other statement takes effect.                                 *)
(***************************************************************************)
BatchOwnsTransaction ==
    [][tx.openBatch # NoBatch =>
          \A p \in (Len(srv.work) + 1)..Len(srv'.work) :
              srv'.work[p][1] = tx.openBatch]_vars

(***************************************************************************)
(* While the transaction lasts, a Close that returned nil means every      *)
(* statement of the batch took effect, the unread ones included, and       *)
(* closed results, abandoned ones too, never keep the transaction          *)
(* refusing statements.                                                    *)
(***************************************************************************)
CloseEndsBatch ==
    \A b \in Batches :
        /\ batch[b].closedNil /\ srv.tx = "active" => Applied(b)
        /\ batch[b].results = "closed" => tx.openBatch # b

(***************************************************************************)
(* Outside Transact too, Commit drops no statement silently: each one      *)
(* queued took effect, or its batch's results reported a failure.          *)
(***************************************************************************)
CommitDropsNothing ==
    [][srv.tx # "committed" /\ srv'.tx = "committed" =>
          \A b \in Batches : Applied(b) \/ batch[b].err # "none"]_vars
=============================================================================
