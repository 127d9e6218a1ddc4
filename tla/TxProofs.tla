------------------------------ MODULE TxProofs -----------------------------
(***************************************************************************)
(* Proofs about Tx for every number of batches and statements, with and    *)
(* without autoErr.  TxInv is what holds whatever the goroutines do;       *)
(* LedgerInv is what the transaction and its batches owe each other while  *)
(* no watchdog rolls back under them; OrderInv and AskedInv say which      *)
(* statements are in the work, and in which order.  Every step is of one   *)
(* of two kinds: Quiet leaves the batches and the calls under way alone,   *)
(* and Kept(b) moves one batch on.  Each action is shown to be of a kind,  *)
(* and each invariant to be preserved by the kinds.                        *)
(***************************************************************************)
EXTENDS Tx, FiniteSetTheorems, SequenceTheorems, WellFoundedInduction, TLAPS

\* The statement took effect.
InWork(s) == \E p \in 1..Len(srv.work) : srv.work[p] = s

\* A call under way is on a batch that was sent, and executes an item of it only
\* while the batch has not failed.
CallInv ==
    /\ tx.batchExecuting =>
          at.call \in {"run", "close"} /\ batch[at.b].err = "none" /\ batch[at.b].next > 0
    /\ at.call = "run" => tx.batchExecuting
    /\ at.call \in {"run", "close"} => ~Pipelined /\ at.b \in Batches /\ batch[at.b].sent
    /\ at.call = "pipeline" =>
          /\ Pipelined /\ at.b \in Batches /\ batch[at.b].sent
          /\ batch[at.b].itemErr = <<>> /\ batch[at.b].items > 0
    /\ other.call = "abandon" => other.b \in Batches /\ batch[other.b].sent
    /\ other.call = "sending" => other.n \in 1..hist.plain
    /\ tx.openBatch # NoBatch => batch[tx.openBatch].sent

\* Nothing is read of a batch that is not sent, or was refused, and no more than
\* it has; a pipelined batch has an outcome for every item.
ItemOK(b) ==
    /\ batch[b].next <= batch[b].items
    /\ batch[b].results = "none" <=> ~batch[b].sent
    /\ ~batch[b].sent =>
          /\ batch[b].next = 0 /\ batch[b].err = "none" /\ batch[b].itemErr = <<>>
          /\ ~batch[b].rows /\ ~batch[b].superseded /\ ~batch[b].closedNil
    /\ batch[b].results = "unopened" /\ batch[b].items > 0 => batch[b].err # "none"
    /\ batch[b].results = "open" /\ Pipelined /\ ~(at.call = "pipeline" /\ at.b = b) =>
          Len(batch[b].itemErr) = batch[b].items
    /\ ~Pipelined => batch[b].itemErr = <<>>

ItemInv == \A b \in Batches : ItemOK(b)

\* The batches with statements that were never sent are counted.
Unsent == {b \in Batches : ~batch[b].sent /\ batch[b].items > 0}

UnsentInv == tx.unsentBatches = Cardinality(Unsent)

\* Only a transaction that is over is done, and PostgreSQL loses none.
EndInv == (tx.done => Ended) /\ (Pipelined => srv.tx # "lost")

TxInv == TypeOK /\ CallInv /\ ItemInv /\ UnsentInv /\ EndInv

-----------------------------------------------------------------------------
(* What the operators of Tx make of its records *)

\* The transaction of the server after a change of its state.
LEMMA SrvTypes ==
    ASSUME srv \in SrvFields, NEW state \in SrvStates
    PROVE  LET s == [srv EXCEPT !.tx = state]
           IN  s \in SrvFields /\ s.tx = state /\ s.work = srv.work /\ s.stray = srv.stray
  BY DEF SrvFields

\* A failed statement leaves the transaction, aborts it or loses it whole.
LEMMA FailureTypes ==
    ASSUME srv \in SrvFields, NEW s \in AfterFailure
    PROVE  /\ s \in SrvFields /\ s.stray = srv.stray
           /\ \/ s = srv
              \/ driver = "pgx" /\ s.tx = "aborted" /\ s.work = srv.work
              \/ driver # "pgx" /\ s.tx = "lost" /\ s.work = <<>>
  <1>1. CASE driver = "pgx"
    <2>1. s = [srv EXCEPT !.tx = "aborted"]
      BY <1>1 DEF AfterFailure
    <2> QED BY <1>1, <2>1, SrvTypes DEF SrvStates
  <1>2. CASE driver # "pgx"
    <2> DEFINE u == [srv EXCEPT !.work = <<>>]
    <2>0. <<>> \in Seq(Statements)
      OBVIOUS
    <2>1. u \in SrvFields /\ u.work = <<>> /\ u.stray = srv.stray
      BY <2>0 DEF SrvFields
    <2>2. [srv EXCEPT !.tx = "lost", !.work = <<>>] = [u EXCEPT !.tx = "lost"]
      BY DEF SrvFields
    <2>3. s = srv \/ s = [u EXCEPT !.tx = "lost"]
      BY <1>2, <2>2 DEF AfterFailure
    <2> HIDE DEF u
    <2>4. [u EXCEPT !.tx = "lost"] \in SrvFields
      BY <2>1 DEF SrvFields, SrvStates
    <2>5. LET v == [u EXCEPT !.tx = "lost"]
          IN  v.tx = "lost" /\ v.work = <<>> /\ v.stray = srv.stray
      BY <2>1 DEF SrvFields
    <2> QED BY <1>2, <2>3, <2>4, <2>5
  <1> QED BY <1>1, <1>2

\* The outcomes of a statement: it works, it takes effect on its own, or it fails.
LEMMA ExecTypes ==
    ASSUME srv \in SrvFields, NEW s \in Statements, NEW o \in Exec(s)
    PROVE  /\ o.srv \in SrvFields /\ o.err \in Outcome
           /\ \/ /\ o.err = "none" /\ srv.tx = "active" /\ o.srv.tx = "active"
                 /\ o.srv.work = Append(srv.work, s) /\ o.srv.stray = srv.stray
              \/ /\ o.err = "none" /\ srv.tx = "lost" /\ o.srv.tx = "lost"
                 /\ o.srv.work = srv.work
              \/ o.err # "none" /\ o.srv = srv
              \/ o.err # "none" /\ srv.tx = "active" /\ o.srv \in AfterFailure
  <1>1. CASE o \in NotSent
    BY <1>1 DEF NotSent, Outcome, Errors
  <1>2. CASE srv.tx = "active" /\ o = [srv |-> [srv EXCEPT !.work = Append(@, s)], err |-> "none"]
    <2> DEFINE v == [srv EXCEPT !.work = Append(@, s)]
    <2>1. srv.work \in Seq(Statements) /\ Append(srv.work, s) \in Seq(Statements)
      BY DEF SrvFields
    <2>2. v \in SrvFields /\ v.tx = srv.tx /\ v.work = Append(srv.work, s) /\ v.stray = srv.stray
      BY <2>1 DEF SrvFields
    <2> HIDE DEF v
    <2> QED BY <1>2, <2>2 DEF Outcome, v
  <1>3. CASE srv.tx = "active" /\ o \in [srv : AfterFailure, err : Errors]
    <2>1. o.srv \in AfterFailure /\ o.err \in Errors
      BY <1>3
    <2>2. o.srv \in SrvFields
      BY <2>1, FailureTypes
    <2> QED BY <1>3, <2>1, <2>2 DEF Outcome, Errors
  <1>4. CASE srv.tx = "lost" /\ o = [srv |-> [srv EXCEPT !.stray = @ \cup {s}], err |-> "none"]
    <2> DEFINE v == [srv EXCEPT !.stray = @ \cup {s}]
    <2>1. v \in SrvFields /\ v.tx = srv.tx /\ v.work = srv.work
      BY DEF SrvFields
    <2> HIDE DEF v
    <2> QED BY <1>4, <2>1 DEF Outcome, v
  <1> QED BY <1>1, <1>2, <1>3, <1>4 DEF Exec

\* The first error is recorded, and nothing else changes.
LEMMA RecordedTypes ==
    ASSUME NEW t \in TxFields, NEW e \in Outcome
    PROVE  LET u == Recorded(t, e)
           IN  /\ u \in TxFields
               /\ u.err = IF autoErr /\ t.err = "none" THEN e ELSE t.err
               /\ u.unsentBatches = t.unsentBatches /\ u.batchMisuse = t.batchMisuse
               /\ u.openBatch = t.openBatch /\ u.batchExecuting = t.batchExecuting
               /\ u.done = t.done /\ u.row = t.row
  BY DEF Recorded, TxFields

\* A batch takes the first failure, and nothing else changes.
LEMMA FailedTypes ==
    ASSUME NEW r \in BatchFields, NEW e \in Outcome
    PROVE  LET u == FailedWith(r, e)
           IN  /\ u \in BatchFields
               /\ u.err = IF r.err = "none" THEN e ELSE r.err
               /\ u.items = r.items /\ u.sent = r.sent /\ u.itemErr = r.itemErr
               /\ u.results = r.results /\ u.next = r.next
               /\ u.rows = r.rows /\ u.superseded = r.superseded /\ u.closedNil = r.closedNil
  BY DEF FailedWith, BatchFields

\* Superseding rows changes only what becomes of them.
LEMMA SupersedeTypes ==
    ASSUME NEW r \in BatchFields
    PROVE  LET u == Supersede(r)
           IN  /\ u \in BatchFields
               /\ u.items = r.items /\ u.sent = r.sent /\ u.itemErr = r.itemErr
               /\ u.results = r.results /\ u.next = r.next /\ u.err = r.err
               /\ ~u.rows /\ (u.superseded => r.superseded \/ r.rows)
               /\ u.closedNil = r.closedNil
  <1> DEFINE v == [r EXCEPT !.rows = FALSE]
             y == r.superseded \/ r.rows
  <1>1. Supersede(r) = [v EXCEPT !.superseded = y]
    BY DEF Supersede, BatchFields
  <1>2. y \in BOOLEAN /\ (y => r.superseded \/ r.rows)
    OBVIOUS
  <1>3. /\ v \in BatchFields
        /\ v.items = r.items /\ v.sent = r.sent /\ v.itemErr = r.itemErr
        /\ v.results = r.results /\ v.next = r.next /\ v.err = r.err
        /\ ~v.rows /\ v.closedNil = r.closedNil
    BY DEF BatchFields
  <1> HIDE DEF v, y
  <1>4. LET u == [v EXCEPT !.superseded = y]
        IN  /\ u \in BatchFields
            /\ u.items = v.items /\ u.sent = v.sent /\ u.itemErr = v.itemErr
            /\ u.results = v.results /\ u.next = v.next /\ u.err = v.err
            /\ u.rows = v.rows /\ u.superseded = y /\ u.closedNil = v.closedNil
    BY <1>2, <1>3 DEF BatchFields
  <1> QED BY <1>1, <1>2, <1>3, <1>4

\* A doomed batch takes the transaction's error.
LEMMA DoomTypes ==
    ASSUME tx \in TxFields, NEW r \in BatchFields
    PROVE  LET u == Doom(r)
           IN  /\ u \in BatchFields
               /\ u.err = IF autoErr /\ r.err = "none" THEN tx.err ELSE r.err
               /\ u.items = r.items /\ u.sent = r.sent /\ u.itemErr = r.itemErr
               /\ u.results = r.results /\ u.next = r.next
               /\ u.rows = r.rows /\ u.superseded = r.superseded /\ u.closedNil = r.closedNil
  <1>1. tx.err \in Outcome
    BY DEF TxFields
  <1>2. CASE autoErr /\ tx.err # "none"
    BY <1>1, <1>2, FailedTypes DEF Doom
  <1>3. CASE ~(autoErr /\ tx.err # "none")
    BY <1>3 DEF Doom
  <1> QED BY <1>2, <1>3

\* Abandoned results are closed.
LEMMA AbandonedTypes ==
    ASSUME NEW r \in BatchFields
    PROVE  LET u == Abandoned(r)
           IN  /\ u \in BatchFields
               /\ u.items = r.items /\ u.sent = r.sent /\ u.itemErr = r.itemErr
               /\ u.results = "closed" /\ u.next = r.next /\ u.err = r.err
               /\ ~u.rows /\ (u.superseded => r.superseded \/ r.rows)
               /\ u.closedNil = r.closedNil
  <1> DEFINE v == Supersede(r)
  <1>1. /\ v \in BatchFields
        /\ v.items = r.items /\ v.sent = r.sent /\ v.itemErr = r.itemErr
        /\ v.next = r.next /\ v.err = r.err
        /\ ~v.rows /\ (v.superseded => r.superseded \/ r.rows) /\ v.closedNil = r.closedNil
    BY SupersedeTypes
  <1> HIDE DEF v
  <1>2. LET u == [v EXCEPT !.results = "closed"]
        IN  /\ u \in BatchFields
            /\ u.items = v.items /\ u.sent = v.sent /\ u.itemErr = v.itemErr
            /\ u.results = "closed" /\ u.next = v.next /\ u.err = v.err
            /\ u.rows = v.rows /\ u.superseded = v.superseded /\ u.closedNil = v.closedNil
    BY <1>1 DEF BatchFields
  <1>3. Abandoned(r) = [v EXCEPT !.results = "closed"]
    BY DEF Abandoned, v
  <1> QED BY <1>1, <1>2, <1>3

\* The transaction is released from its batch.
LEMMA ReleasedTypes ==
    ASSUME NEW t \in TxFields, NEW b
    PROVE  LET u == Released(t, b)
           IN  /\ u \in TxFields
               /\ u.openBatch = IF t.openBatch = b THEN NoBatch ELSE t.openBatch
               /\ u.err = t.err
               /\ u.unsentBatches = t.unsentBatches /\ u.batchMisuse = t.batchMisuse
               /\ u.batchExecuting = t.batchExecuting
               /\ u.done = t.done /\ u.row = t.row
  BY DEF Released, TxFields

\* A batch that has statements is no longer unsent.
LEMMA AfterSendTypes ==
    ASSUME tx \in TxFields, NEW b \in Batches, batch \in [Batches -> BatchFields],
           batch[b].items > 0 => tx.unsentBatches > 0
    PROVE  LET u == AfterSend(b)
           IN  /\ u \in TxFields
               /\ u.unsentBatches = IF batch[b].items > 0 THEN tx.unsentBatches - 1
                                    ELSE tx.unsentBatches
               /\ u.err = tx.err /\ u.batchMisuse = tx.batchMisuse
               /\ u.openBatch = tx.openBatch /\ u.batchExecuting = tx.batchExecuting
               /\ u.done = tx.done /\ u.row = tx.row
  <1>1. CASE batch[b].items > 0
    <2>1. tx.unsentBatches - 1 \in 0..NBatches
      BY <1>1, BatchAssumption DEF TxFields
    <2> QED BY <1>1, <2>1 DEF AfterSend, TxFields
  <1>2. CASE ~(batch[b].items > 0)
    BY <1>2 DEF AfterSend
  <1> QED BY <1>1, <1>2

\* The outcomes of Commit: a transaction that commits was active.
LEMMA CommitTypes ==
    ASSUME srv \in SrvFields, NEW o \in SqlCommit
    PROVE  /\ o.srv \in SrvFields /\ o.err \in Outcome
           /\ o.srv.work = srv.work /\ o.srv.stray = srv.stray
           /\ \/ o.srv = srv /\ o.err = "error" 
              \/ o.srv.tx = "committed" /\ srv.tx = "active" /\ o.err \in {"none", "error"}
              \/ o.srv.tx = "rolledback" /\ o.err # "none" /\ ~Ended
              \/ o.srv.tx = "rolledback" /\ o.err = "none" /\ srv.tx = "lost"
  <1>1. \/ \E e \in {"none", "error"} :
              o = [srv |-> [srv EXCEPT !.tx = "committed"], err |-> e] /\ srv.tx = "active"
        \/ \E e \in {"none", "error", "contention"} :
              /\ o = [srv |-> [srv EXCEPT !.tx = "rolledback"], err |-> e]
              /\ ~Ended /\ (e = "none" => srv.tx = "lost")
        \/ o = [srv |-> srv, err |-> "error"]
    BY DEF SqlCommit, NotSent, Errors, Ended
  <1>2. ASSUME NEW e \in {"none", "error"}, srv.tx = "active",
               o = [srv |-> [srv EXCEPT !.tx = "committed"], err |-> e]
        PROVE  /\ o.srv \in SrvFields /\ o.err \in Outcome /\ o.err \in {"none", "error"}
               /\ o.srv.work = srv.work /\ o.srv.stray = srv.stray /\ o.srv.tx = "committed"
    <2>1. o.srv = [srv EXCEPT !.tx = "committed"] /\ o.err = e
      BY <1>2
    <2> QED BY <2>1, SrvTypes DEF SrvStates, Outcome, Errors
  <1>3. ASSUME NEW e \in {"none", "error", "contention"},
               o = [srv |-> [srv EXCEPT !.tx = "rolledback"], err |-> e]
        PROVE  /\ o.srv \in SrvFields /\ o.err \in Outcome /\ o.err = e
               /\ o.srv.work = srv.work /\ o.srv.stray = srv.stray /\ o.srv.tx = "rolledback"
    <2>1. o.srv = [srv EXCEPT !.tx = "rolledback"] /\ o.err = e
      BY <1>3
    <2> QED BY <2>1, SrvTypes DEF SrvStates, Outcome, Errors
  <1>4. ASSUME o = [srv |-> srv, err |-> "error"]
        PROVE  /\ o.srv \in SrvFields /\ o.err \in Outcome /\ o.err = "error" /\ o.srv = srv
    BY <1>4 DEF Outcome, Errors
  <1> QED BY <1>1, <1>2, <1>3, <1>4

\* The outcomes of Rollback: the transaction is over.
LEMMA RollbackTypes ==
    ASSUME srv \in SrvFields, NEW o \in SqlRollback
    PROVE  /\ o.srv \in SrvFields /\ o.err \in Outcome
           /\ o.srv.work = srv.work /\ o.srv.stray = srv.stray
           /\ \/ Ended /\ o.srv = srv /\ o.err = "error"
              \/ ~Ended /\ o.srv.tx = "rolledback" /\ o.err = "none"
  <1>1. CASE Ended
    BY <1>1 DEF SqlRollback, NotSent, Outcome, Errors
  <1>2. CASE ~Ended
    <2>1. o.srv = [srv EXCEPT !.tx = "rolledback"] /\ o.err = "none"
      BY <1>2 DEF SqlRollback
    <2> QED BY <1>2, <2>1, SrvTypes DEF SrvStates, Outcome, Errors
  <1> QED BY <1>1, <1>2

\* finalize passes an outcome on unless the transaction is done.
LEMMA FinalizeTypes ==
    ASSUME srv \in SrvFields, NEW t \in TxFields, NEW outcomes, NEW o \in Finalize(t, outcomes),
           \A q \in outcomes : q.srv \in SrvFields /\ q.err \in Outcome
    PROVE  /\ o.tx \in TxFields /\ o.err \in Outcome
           /\ o.tx.err = t.err /\ o.tx.unsentBatches = t.unsentBatches
           /\ o.tx.batchMisuse = t.batchMisuse /\ o.tx.openBatch = t.openBatch
           /\ o.tx.batchExecuting = t.batchExecuting /\ o.tx.row = t.row
           /\ \/ t.done /\ o.tx.done /\ o.srv = srv /\ o.err = "error"
              \/ /\ ~t.done
                 /\ \E q \in outcomes :
                       o.srv = q.srv /\ o.err = q.err /\ (o.tx.done <=> q.err = "none")
  <1>1. CASE t.done
    BY <1>1 DEF Finalize, Outcome, Errors
  <1>2. CASE ~t.done
    <2>1. PICK q \in outcomes :
             o = [tx |-> [t EXCEPT !.done = q.err = "none"], srv |-> q.srv, err |-> q.err]
      BY <1>2 DEF Finalize
    <2> DEFINE d == q.err = "none"
    <2>2. d \in BOOLEAN /\ (d <=> q.err = "none")
      OBVIOUS
    <2>3. o.tx = [t EXCEPT !.done = d] /\ o.srv = q.srv /\ o.err = q.err
      BY <2>1
    <2> HIDE DEF d
    <2>4. /\ o.tx \in TxFields
          /\ o.tx.err = t.err /\ o.tx.unsentBatches = t.unsentBatches
          /\ o.tx.batchMisuse = t.batchMisuse /\ o.tx.openBatch = t.openBatch
          /\ o.tx.batchExecuting = t.batchExecuting /\ o.tx.row = t.row
          /\ o.tx.done = d
      BY <2>2, <2>3 DEF TxFields
    <2> QED BY <1>2, <2>2, <2>3, <2>4
  <1> QED BY <1>1, <1>2

\* One batch is changed, and the others are not.
LEMMA BatchTypes ==
    ASSUME batch \in [Batches -> BatchFields], NEW b \in Batches, NEW r \in BatchFields,
           batch' = [batch EXCEPT ![b] = r]
    PROVE  /\ batch' \in [Batches -> BatchFields] /\ batch'[b] = r
           /\ \A c \in Batches \ {b} : batch'[c] = batch[c]
  OBVIOUS

-----------------------------------------------------------------------------
(* Steps that leave the batches and the calls under way alone *)

\* The transaction's work is kept, lost, or grows by a statement of no batch.
WorkStep ==
    /\ \/ srv'.stray = srv.stray
       \/ srv.tx = "lost" /\ (other.call = "sending" \/ (autoErr => tx.err = "none"))
    /\ srv'.tx = "active" => srv.tx = "active"
    /\ srv.tx \in {"committed", "rolledback"} => srv'.tx = srv.tx
    /\ \/ srv'.work = srv.work
       \/ srv'.work = <<>> /\ srv'.tx = "lost"
       \/ /\ srv.tx = "active" /\ (other.call = "sending" \/ ~batchRefuses)
          /\ \E n \in 1..hist'.plain : srv'.work = Append(srv.work, <<NoBatch, n>>)

\* A batch keeps its items and its position, and may fail while it is read.
BatchStep(b) ==
    /\ batch'[b].items = batch[b].items /\ batch'[b].sent = batch[b].sent
    /\ batch'[b].itemErr = batch[b].itemErr /\ batch'[b].results = batch[b].results
    /\ batch'[b].next = batch[b].next
    /\ \/ batch'[b].err = batch[b].err
       \/ /\ at.call = "caller" /\ batch[b].sent /\ batch'[b].err # "none"
          /\ autoErr => tx'.err # "none"
    /\ batch'[b].rows \/ batch'[b].superseded => batch[b].rows \/ batch[b].superseded
    /\ \/ batch'[b].closedNil <=> batch[b].closedNil
       \/ batch[b].results = "closed" /\ (batch'[b].closedNil => batch[b].err = "none")

\* Errors are recorded, in Transact mode, or kept in a Row.
HistStep ==
    /\ tx.err # "none" => tx'.err # "none"
    /\ tx.row # "none" => tx'.row # "none" \/ tx'.err # "none"
    /\ hist'.dropped => hist.dropped \/ tx'.err # "none"
    /\ hist'.failed => hist.failed \/ tx'.err # "none" \/ tx'.row # "none"
    /\ srv'.tx = "lost" => srv.tx = "lost" \/ tx'.err # "none" \/ tx'.row # "none"
    /\ srv'.tx = "lost" => srv.tx = "lost" \/ driver # "pgx"

\* Statements of no batch are counted, and each takes effect, fails or is on its
\* way.
PlainStep ==
    /\ hist.plain <= hist'.plain
    /\ other'.call = "sending" => other' = other \/ other'.n \in 1..hist'.plain
    /\ autoErr /\ srv'.tx = "active" =>
          \A n \in 1..hist'.plain :
              \/ n \in 1..hist.plain /\ (other.call = "sending" /\ other.n = n => other' = other)
              \/ InWork(<<NoBatch, n>>)' \/ tx'.err # "none" \/ tx'.row # "none"
              \/ other'.call = "sending" /\ other'.n = n

Quiet ==
    /\ TypeOK'
    /\ UNCHANGED <<autoErr, driver>>
    /\ tx'.unsentBatches = tx.unsentBatches /\ tx'.openBatch = tx.openBatch
    /\ tx'.batchExecuting = tx.batchExecuting
    /\ tx'.done => tx.done \/ Ended'
    /\ at' = at \/ (at.call \in {"caller", "panic"} /\ at' = Idle)
    /\ other'.call = "abandon" => other' = other
    /\ WorkStep
    /\ \A b \in Batches : BatchStep(b)
    /\ autoErr => HistStep
    /\ PlainStep

\* Quiet steps preserve what holds of every transaction.
LEMMA QuietKeeps == ASSUME TxInv, Quiet PROVE TxInv'
  <1>a. /\ TypeOK /\ CallInv /\ ItemInv /\ UnsentInv /\ EndInv
        /\ TypeOK' /\ tx'.batchExecuting = tx.batchExecuting /\ tx'.openBatch = tx.openBatch
        /\ other'.call = "abandon" => other' = other
        /\ tx'.unsentBatches = tx.unsentBatches
    BY DEF TxInv, Quiet
  <1>b. Pipelined' <=> Pipelined
    BY DEF Quiet, Pipelined
  <1>c. at' = at \/ (at.call \in {"caller", "panic"} /\ at'.call = "caller")
    BY DEF Quiet, Idle
  <1>d. \A b \in Batches :
           /\ batch'[b].items = batch[b].items /\ batch'[b].sent = batch[b].sent
           /\ batch'[b].itemErr = batch[b].itemErr /\ batch'[b].results = batch[b].results
           /\ batch'[b].next = batch[b].next
           /\ batch'[b].err = batch[b].err \/ (at.call = "caller" /\ batch[b].sent
                                              /\ batch'[b].err # "none")
    <2>1. \A b \in Batches : BatchStep(b)
      BY DEF Quiet
    <2> QED BY <2>1 DEF BatchStep
  <1>1. CallInv'
    <2>1. tx.openBatch \in Batches \cup {NoBatch}
      BY <1>a DEF TypeOK, TxFields
    <2>2. other'.call = "sending" => other'.n \in 1..hist'.plain
      <3>1. hist.plain \in Nat /\ hist'.plain \in Nat /\ hist.plain <= hist'.plain
        BY <1>a DEF TypeOK, Quiet, PlainStep
      <3>2. other.call = "sending" => other.n \in 1..hist.plain
        BY <1>a DEF CallInv
      <3> QED BY <3>1, <3>2 DEF Quiet, PlainStep
    <2> QED BY <1>a, <1>b, <1>c, <1>d, <2>1, <2>2 DEF CallInv
  <1>2. ItemInv'
    <2> SUFFICES ASSUME NEW b \in Batches
                 PROVE  /\ batch'[b].next <= batch'[b].items
                        /\ batch'[b].results = "none" <=> ~batch'[b].sent
                        /\ ~batch'[b].sent =>
                              /\ batch'[b].next = 0 /\ batch'[b].err = "none"
                              /\ batch'[b].itemErr = <<>>
                              /\ ~batch'[b].rows /\ ~batch'[b].superseded
                              /\ ~batch'[b].closedNil
                        /\ batch'[b].results = "unopened" /\ batch'[b].items > 0 =>
                              batch'[b].err # "none"
                        /\ batch'[b].results = "open" /\ Pipelined'
                           /\ ~(at'.call = "pipeline" /\ at'.b = b) =>
                              Len(batch'[b].itemErr) = batch'[b].items
                        /\ ~Pipelined' => batch'[b].itemErr = <<>>
      BY DEF ItemInv, ItemOK
    <2>1. ~batch[b].sent => ~batch'[b].rows /\ ~batch'[b].superseded /\ ~batch'[b].closedNil
      BY <1>a DEF Quiet, BatchStep, ItemInv, ItemOK
    <2> QED BY <1>a, <1>b, <1>c, <1>d, <2>1 DEF ItemInv, ItemOK
  <1>3. UnsentInv'
    <2>1. Unsent' = Unsent
      BY <1>d DEF Unsent
    <2> QED BY <1>a, <2>1 DEF UnsentInv
  <1>4. EndInv'
    <2>1. tx'.done => Ended'
      BY <1>a DEF Quiet, EndInv, Ended, WorkStep
    <2>2. Pipelined' => srv'.tx # "lost"
      BY <1>a, <1>b DEF Quiet, EndInv, HistStep, Pipelined
    <2> QED BY <2>1, <2>2 DEF EndInv
  <1> QED BY <1>a, <1>1, <1>2, <1>3, <1>4 DEF TxInv

\* What becomes of the history.
HistFields == [plain : Nat, failed : BOOLEAN, dropped : BOOLEAN]

LEMMA HistTypes ==
    ASSUME hist \in HistFields
    PROVE  /\ Failure \in HistFields /\ Failure.plain = hist.plain
           /\ Failure.dropped = hist.dropped
           /\ Drop \in HistFields /\ Drop.plain = hist.plain /\ Drop.failed = hist.failed
           /\ [Failure EXCEPT !.plain = @ + 1] \in HistFields
           /\ [Failure EXCEPT !.plain = @ + 1].plain = hist.plain + 1
           /\ [Failure EXCEPT !.plain = @ + 1].dropped = hist.dropped
           /\ [Drop EXCEPT !.plain = @ + 1] \in HistFields
           /\ [Drop EXCEPT !.plain = @ + 1].plain = hist.plain + 1
           /\ [Drop EXCEPT !.plain = @ + 1].failed = hist.failed
           /\ [hist EXCEPT !.plain = @ + 1] \in HistFields
           /\ [hist EXCEPT !.plain = @ + 1].plain = hist.plain + 1
           /\ [hist EXCEPT !.plain = @ + 1].failed = hist.failed
           /\ [hist EXCEPT !.plain = @ + 1].dropped = hist.dropped
  <1>1. hist.plain \in Nat /\ hist.plain + 1 \in Nat
    BY DEF HistFields
  <1>2. /\ Failure \in HistFields /\ Failure.plain = hist.plain
        /\ Failure.dropped = hist.dropped
    BY DEF HistFields, Failure
  <1>3. Drop \in HistFields /\ Drop.plain = hist.plain /\ Drop.failed = hist.failed
    BY DEF HistFields, Drop
  <1>4. ASSUME NEW h \in HistFields, h.plain = hist.plain
        PROVE  LET u == [h EXCEPT !.plain = @ + 1]
               IN  /\ u \in HistFields /\ u.plain = hist.plain + 1
                   /\ u.failed = h.failed /\ u.dropped = h.dropped
    BY <1>1, <1>4 DEF HistFields
  <1> QED BY <1>2, <1>3, <1>4

\* The parts of Quiet for what a step leaves alone.
LEMMA SameBatches == ASSUME batch' = batch PROVE \A b \in Batches : BatchStep(b)
  BY DEF BatchStep

LEMMA SameWork == ASSUME srv' = srv PROVE WorkStep
  BY DEF WorkStep

LEMMA SamePlain ==
    ASSUME hist \in HistFields, hist'.plain = hist.plain, other' = other
    PROVE  PlainStep
  BY DEF PlainStep, HistFields

\* The types, by name.
LEMMA TypeFields ==
    ASSUME TypeOK
    PROVE  /\ srv \in SrvFields /\ tx \in TxFields /\ hist \in HistFields
           /\ batch \in [Batches -> BatchFields]
           /\ tx.err \in Outcome /\ tx.row \in Outcome /\ hist.plain \in Nat
           /\ tx.openBatch \in Batches \cup {NoBatch} /\ shortCircuit \in Outcome
  <1>1. tx.err \in Outcome /\ tx.row \in Outcome /\ tx.openBatch \in Batches \cup {NoBatch}
    BY DEF TypeOK, TxFields
  <1>2. shortCircuit \in Outcome
    BY <1>1 DEF shortCircuit, Outcome, Errors
  <1> QED BY <1>1, <1>2 DEF TypeOK, HistFields

\* A step that leaves the batches, the calls and the second goroutine alone.
LEMMA QuietFrame ==
    ASSUME TypeOK, UNCHANGED <<autoErr, driver, batch, at, other>>,
           srv' \in SrvFields, tx' \in TxFields, hist' \in HistFields,
           tx'.unsentBatches = tx.unsentBatches, tx'.openBatch = tx.openBatch,
           tx'.batchExecuting = tx.batchExecuting, tx'.done => tx.done \/ Ended',
           WorkStep, autoErr => HistStep, PlainStep
    PROVE  Quiet
  <1>1. TypeOK'
    BY DEF TypeOK, HistFields
  <1> QED BY <1>1, SameBatches DEF Quiet

\* A statement that is refused.
LEMMA RefusedQuiet == ASSUME TxInv, StatementRefused PROVE Quiet
  <1>1. TypeOK /\ tx' = Recorded(tx, shortCircuit) /\ shortCircuit # "none"
        /\ hist' = [Drop EXCEPT !.plain = @ + 1] /\ srv' = srv
        /\ UNCHANGED <<autoErr, driver, batch, at, other>>
    BY DEF StatementRefused, TxInv
  <1>2. /\ tx' \in TxFields /\ tx'.unsentBatches = tx.unsentBatches
        /\ tx'.openBatch = tx.openBatch /\ tx'.batchExecuting = tx.batchExecuting
        /\ tx'.done = tx.done /\ tx'.row = tx.row
        /\ autoErr => tx'.err # "none"
    BY <1>1, TypeFields, RecordedTypes
  <1>3. hist' \in HistFields /\ hist'.plain = hist.plain + 1 /\ hist'.failed = hist.failed
    BY <1>1, TypeFields, HistTypes
  <1>4. WorkStep /\ (autoErr => HistStep)
    BY <1>1, <1>2, <1>3, SameWork DEF HistStep
  <1>5. PlainStep
    <2>1. hist.plain \in Nat
      BY <1>1, TypeFields
    <2> QED BY <1>1, <1>2, <1>3, <2>1 DEF PlainStep
  <1> QED BY <1>1, <1>2, <1>3, <1>4, <1>5, TypeFields, QuietFrame

\* A statement that is appended to the work is in it.
LEMMA AppendWorks ==
    ASSUME srv \in SrvFields, NEW s, srv'.work = Append(srv.work, s)
    PROVE  /\ InWork(s)'
           /\ \A x : InWork(x)' <=> InWork(x) \/ x = s
  <1>1. srv.work \in Seq(Statements) /\ Len(srv.work) \in Nat
    BY DEF SrvFields
  <1>2. /\ Len(srv'.work) = Len(srv.work) + 1
        /\ srv'.work[Len(srv.work) + 1] = s
        /\ \A p \in 1..Len(srv.work) : srv'.work[p] = srv.work[p]
    BY <1>1
  <1> QED BY <1>1, <1>2 DEF InWork

\* A failed statement appends nothing.
LEMMA FailureWork ==
    ASSUME srv \in SrvFields, srv.tx = "active", srv' \in AfterFailure
    PROVE  /\ srv' \in SrvFields /\ WorkStep
           /\ srv'.tx = "lost" => driver # "pgx"
  BY FailureTypes DEF WorkStep

\* What a statement outside a batch does to the transaction.
LEMMA SendEffects ==
    ASSUME TypeOK, NEW n \in Nat, n > 0, SendStatement(<<NoBatch, n>>), UNCHANGED autoErr,
           other.call = "sending" \/ shortCircuit = "none"
    PROVE  /\ srv' \in SrvFields /\ tx' \in TxFields /\ hist' \in HistFields
           /\ tx'.unsentBatches = tx.unsentBatches /\ tx'.openBatch = tx.openBatch
           /\ tx'.batchExecuting = tx.batchExecuting /\ tx'.done = tx.done
           /\ WorkStep /\ (autoErr => HistStep)
           /\ hist'.plain = IF n > hist.plain THEN n ELSE hist.plain
           /\ autoErr => InWork(<<NoBatch, n>>)' \/ tx'.err # "none" \/ srv'.tx # "active"
  <1> DEFINE s == <<NoBatch, n>>
  <1>0. s \in Statements
    BY DEF Statements
  <1>a. /\ srv \in SrvFields /\ tx \in TxFields /\ hist \in HistFields
        /\ hist.plain \in Nat
    BY TypeFields
  <1>b. other.call = "sending" \/ (~batchRefuses /\ (autoErr => tx.err = "none"))
    BY DEF shortCircuit
  <1>1. PICK o \in Exec(s) :
          /\ srv' = o.srv
          /\ tx' = IF o.err = "none" THEN tx ELSE Recorded(tx, o.err)
          /\ hist' = [hist EXCEPT !.plain = IF s[2] > @ THEN s[2] ELSE @,
                                  !.failed = @ \/ o.err # "none"]
    BY DEF SendStatement
  <1>2. /\ o.srv \in SrvFields /\ o.err \in Outcome
        /\ \/ /\ o.err = "none" /\ srv.tx = "active" /\ o.srv.tx = "active"
              /\ o.srv.work = Append(srv.work, s) /\ o.srv.stray = srv.stray
           \/ /\ o.err = "none" /\ srv.tx = "lost" /\ o.srv.tx = "lost"
              /\ o.srv.work = srv.work
           \/ o.err # "none" /\ o.srv = srv
           \/ o.err # "none" /\ srv.tx = "active" /\ o.srv \in AfterFailure
    BY <1>0, <1>a, ExecTypes
  <1>3. /\ tx' \in TxFields /\ tx'.unsentBatches = tx.unsentBatches
        /\ tx'.openBatch = tx.openBatch /\ tx'.batchExecuting = tx.batchExecuting
        /\ tx'.done = tx.done /\ tx'.row = tx.row
        /\ autoErr /\ o.err # "none" => tx'.err # "none"
        /\ autoErr /\ tx.err # "none" => tx'.err # "none"
    BY <1>1, <1>2, <1>a, RecordedTypes
  <1>4. /\ hist' \in HistFields /\ hist'.dropped = hist.dropped
        /\ hist'.plain = (IF n > hist.plain THEN n ELSE hist.plain)
        /\ hist'.failed => hist.failed \/ o.err # "none"
    <2> DEFINE m == IF n > hist.plain THEN n ELSE hist.plain
               h == [hist EXCEPT !.plain = m]
               f == hist.failed \/ o.err # "none"
    <2>1. m \in Nat /\ f \in BOOLEAN
      BY <1>a
    <2>2. h \in HistFields /\ h.plain = m /\ h.dropped = hist.dropped
      BY <1>a, <2>1 DEF HistFields
    <2>3. hist' = [h EXCEPT !.failed = f]
      BY <1>1, <1>a DEF HistFields
    <2> HIDE DEF h, m, f
    <2>4. hist' \in HistFields /\ hist'.plain = m /\ hist'.dropped = hist.dropped /\ hist'.failed = f
      BY <2>1, <2>2, <2>3 DEF HistFields
    <2> QED BY <2>4 DEF m, f
  <1>5. n \in 1..hist'.plain
    BY <1>4, <1>a
  <1> HIDE DEF s
  <1>6. CASE /\ o.err = "none" /\ srv.tx = "active" /\ o.srv.tx = "active"
             /\ o.srv.work = Append(srv.work, s) /\ o.srv.stray = srv.stray
    <2>1. WorkStep
      BY <1>1, <1>2, <1>5, <1>6, <1>b DEF WorkStep, s
    <2>2. InWork(<<NoBatch, n>>)'
      BY <1>1, <1>6, <1>a, AppendWorks DEF s
    <2>3. autoErr => HistStep
      BY <1>1, <1>3, <1>4, <1>6 DEF HistStep
    <2> QED BY <1>1, <1>2, <1>3, <1>4, <2>1, <2>2, <2>3
  <1>7. CASE o.err = "none" /\ srv.tx = "lost" /\ o.srv.tx = "lost" /\ o.srv.work = srv.work
    <2>1. WorkStep
      BY <1>1, <1>7, <1>b DEF WorkStep
    <2>2. autoErr => HistStep
      BY <1>1, <1>3, <1>4, <1>7 DEF HistStep
    <2> QED BY <1>1, <1>2, <1>3, <1>4, <1>7, <2>1, <2>2
  <1>8. CASE o.err # "none" /\ o.srv = srv
    <2>1. autoErr => HistStep
      BY <1>1, <1>3, <1>4, <1>8 DEF HistStep
    <2> QED BY <1>1, <1>2, <1>3, <1>4, <1>8, <2>1, SameWork
  <1>9. CASE o.err # "none" /\ srv.tx = "active" /\ o.srv \in AfterFailure
    <2>1. WorkStep /\ (srv'.tx = "lost" => driver # "pgx")
      BY <1>1, <1>9, <1>a, FailureWork
    <2>2. autoErr => HistStep
      BY <1>1, <1>3, <1>4, <1>9, <2>1 DEF HistStep
    <2> QED BY <1>1, <1>2, <1>3, <1>4, <1>9, <2>1, <2>2
  <1> QED BY <1>2, <1>6, <1>7, <1>8, <1>9

\* A statement that is sent.
LEMMA SentQuiet == ASSUME TxInv, StatementSent PROVE Quiet
  <1>0. TypeOK /\ hist.plain \in Nat
    BY TypeFields DEF TxInv
  <1>a. PICK n \in Nat : n = hist.plain + 1
    BY <1>0
  <1>1. /\ SendStatement(<<NoBatch, n>>) /\ n > 0 /\ n > hist.plain
        /\ UNCHANGED <<autoErr, driver, batch, at, other>> /\ shortCircuit = "none"
    BY <1>0, <1>a DEF StatementSent
  <1>2. /\ srv' \in SrvFields /\ tx' \in TxFields /\ hist' \in HistFields
        /\ tx'.unsentBatches = tx.unsentBatches /\ tx'.openBatch = tx.openBatch
        /\ tx'.batchExecuting = tx.batchExecuting /\ tx'.done = tx.done
        /\ WorkStep /\ (autoErr => HistStep)
        /\ hist'.plain = IF n > hist.plain THEN n ELSE hist.plain
        /\ autoErr => InWork(<<NoBatch, n>>)' \/ tx'.err # "none" \/ srv'.tx # "active"
    BY <1>0, <1>1, SendEffects
  <1>3. PlainStep
    <2>1. \A m \in 1..hist'.plain : m \in 1..hist.plain \/ m = n
      BY <1>0, <1>1, <1>2, <1>a
    <2>2. hist.plain <= hist'.plain /\ other' = other
      BY <1>0, <1>1, <1>2, <1>a
    <2> QED BY <1>2, <2>1, <2>2 DEF PlainStep
  <1> QED BY <1>0, <1>1, <1>2, <1>3, QuietFrame

\* A QueryRow whose error waits in its Row.
LEMMA QueryRowQuiet == ASSUME TxInv, QueryRowFails PROVE Quiet
  <1> DEFINE s == <<NoBatch, hist.plain + 1>>
  <1>1. /\ TypeOK /\ UNCHANGED <<autoErr, driver, batch, at, other>>
        /\ hist' = [Failure EXCEPT !.plain = @ + 1]
        /\ srv \in SrvFields /\ tx \in TxFields /\ hist \in HistFields /\ hist.plain \in Nat
    BY TypeFields DEF QueryRowFails, TxInv
  <1>2. PICK o \in Exec(s) : o.err # "none" /\ srv' = o.srv /\ tx' = [tx EXCEPT !.row = o.err]
    BY DEF QueryRowFails
  <1>3. s \in Statements
    BY <1>1 DEF Statements
  <1>4. /\ o.srv \in SrvFields /\ o.err \in Outcome
        /\ o.srv = srv \/ (srv.tx = "active" /\ o.srv \in AfterFailure)
    BY <1>1, <1>2, <1>3, ExecTypes
  <1>5. /\ tx' \in TxFields /\ tx'.unsentBatches = tx.unsentBatches
        /\ tx'.openBatch = tx.openBatch /\ tx'.batchExecuting = tx.batchExecuting
        /\ tx'.done = tx.done /\ tx'.row # "none" /\ tx'.err = tx.err
    BY <1>1, <1>2, <1>4 DEF TxFields
  <1>6. hist' \in HistFields /\ hist'.plain = hist.plain + 1 /\ hist'.dropped = hist.dropped
    BY <1>1, HistTypes
  <1>7. WorkStep /\ (srv'.tx = "lost" => srv.tx = "lost" \/ driver # "pgx")
    BY <1>1, <1>2, <1>4, SameWork, FailureWork
  <1>8. PlainStep
    BY <1>1, <1>5, <1>6 DEF PlainStep
  <1>9. HistStep
    BY <1>5, <1>6, <1>7 DEF HistStep
  <1> QED BY <1>1, <1>2, <1>4, <1>5, <1>6, <1>7, <1>8, <1>9, QuietFrame

\* The Scan of that Row.
LEMMA ScanRowQuiet == ASSUME TxInv, ScanRow PROVE Quiet
  <1> DEFINE t == [tx EXCEPT !.row = "none"]
  <1>1. /\ TypeOK /\ UNCHANGED <<autoErr, driver, srv, batch, at, other, hist>>
        /\ tx.row # "none" /\ tx' = Recorded(t, tx.row)
        /\ srv \in SrvFields /\ tx \in TxFields /\ hist \in HistFields /\ tx.row \in Outcome
    BY TypeFields DEF ScanRow, TxInv
  <1>2. /\ t \in TxFields /\ t.unsentBatches = tx.unsentBatches /\ t.err = tx.err
        /\ t.openBatch = tx.openBatch /\ t.batchExecuting = tx.batchExecuting
        /\ t.done = tx.done
    BY <1>1 DEF TxFields, Outcome
  <1> HIDE DEF t
  <1>3. /\ tx' \in TxFields /\ tx'.unsentBatches = tx.unsentBatches
        /\ tx'.openBatch = tx.openBatch /\ tx'.batchExecuting = tx.batchExecuting
        /\ tx'.done = tx.done /\ (autoErr => tx'.err # "none")
    BY <1>1, <1>2, RecordedTypes
  <1>4. autoErr => HistStep
    BY <1>1, <1>3 DEF HistStep
  <1> QED BY <1>1, <1>3, <1>4, SameWork, SamePlain, QuietFrame

\* A Rows or Row that fails while it is read.
LEMMA ReadFailsQuiet == ASSUME TxInv, ReadFails PROVE Quiet
  <1>1. /\ TypeOK /\ UNCHANGED <<autoErr, driver, batch, at, other>> /\ hist' = Failure
        /\ srv.tx = "active" /\ srv' \in {srv} \cup AfterFailure
        /\ srv \in SrvFields /\ tx \in TxFields /\ hist \in HistFields
    BY TypeFields DEF ReadFails, TxInv
  <1>2. PICK e \in Errors : tx' = Recorded(tx, e)
    BY DEF ReadFails
  <1>3. e \in Outcome /\ e # "none"
    BY DEF Outcome, Errors
  <1>4. /\ tx' \in TxFields /\ tx'.unsentBatches = tx.unsentBatches
        /\ tx'.openBatch = tx.openBatch /\ tx'.batchExecuting = tx.batchExecuting
        /\ tx'.done = tx.done /\ (autoErr => tx'.err # "none")
    BY <1>1, <1>2, <1>3, RecordedTypes
  <1>5. /\ srv' \in SrvFields /\ WorkStep
        /\ srv'.tx = "lost" => srv.tx = "lost" \/ driver # "pgx"
    BY <1>1, SameWork, FailureWork
  <1>6. hist' \in HistFields /\ hist'.plain = hist.plain /\ hist'.dropped = hist.dropped
    BY <1>1, HistTypes
  <1>7. autoErr => HistStep
    BY <1>1, <1>4, <1>5, <1>6 DEF HistStep
  <1> QED BY <1>1, <1>4, <1>5, <1>6, <1>7, SamePlain, QuietFrame

\* A statement queued after Send, or a batch sent twice.
LEMMA QueueLateQuiet == ASSUME TxInv, NEW b \in Batches, QueueLate(b) PROVE Quiet
  <1> DEFINE t == [tx EXCEPT !.batchMisuse = TRUE]
  <1>1. /\ TypeOK /\ UNCHANGED <<autoErr, driver, srv, batch, at, other>> /\ hist' = Drop
        /\ tx' = Recorded(t, "error")
        /\ srv \in SrvFields /\ tx \in TxFields /\ hist \in HistFields
    BY TypeFields DEF QueueLate, TxInv
  <1>2. /\ t \in TxFields /\ t.unsentBatches = tx.unsentBatches
        /\ t.openBatch = tx.openBatch /\ t.batchExecuting = tx.batchExecuting
        /\ t.done = tx.done /\ t.row = tx.row
    BY <1>1 DEF TxFields
  <1> HIDE DEF t
  <1>3. "error" \in Outcome
    BY DEF Outcome, Errors
  <1>4. /\ tx' \in TxFields /\ tx'.unsentBatches = tx.unsentBatches
        /\ tx'.openBatch = tx.openBatch /\ tx'.batchExecuting = tx.batchExecuting
        /\ tx'.done = tx.done /\ (autoErr => tx'.err # "none")
    BY <1>1, <1>2, <1>3, RecordedTypes
  <1>5. hist' \in HistFields /\ hist'.plain = hist.plain /\ hist'.failed = hist.failed
    BY <1>1, HistTypes
  <1>6. autoErr => HistStep
    BY <1>1, <1>4, <1>5 DEF HistStep
  <1> QED BY <1>1, <1>4, <1>5, <1>6, SameWork, SamePlain, QuietFrame

LEMMA SendAgainQuiet == ASSUME TxInv, NEW b \in Batches, SendAgain(b) PROVE Quiet
  <1>1. /\ TypeOK /\ UNCHANGED <<autoErr, driver, srv, batch, at, other, hist>>
        /\ tx' = Recorded(tx, "error")
        /\ srv \in SrvFields /\ tx \in TxFields /\ hist \in HistFields
    BY TypeFields DEF SendAgain, TxInv
  <1>2. "error" \in Outcome
    BY DEF Outcome, Errors
  <1>3. /\ tx' \in TxFields /\ tx'.unsentBatches = tx.unsentBatches
        /\ tx'.openBatch = tx.openBatch /\ tx'.batchExecuting = tx.batchExecuting
        /\ tx'.done = tx.done /\ (autoErr => tx'.err # "none")
    BY <1>1, <1>2, RecordedTypes
  <1>4. autoErr => HistStep
    BY <1>1, <1>3 DEF HistStep
  <1> QED BY <1>1, <1>3, <1>4, SameWork, SamePlain, QuietFrame

\* A step that changes one batch, of those already sent.
LEMMA QuietBatch ==
    ASSUME TypeOK, UNCHANGED <<autoErr, driver, at, other>>, NEW b \in Batches,
           NEW r \in BatchFields, batch' = [batch EXCEPT ![b] = r],
           r.items = batch[b].items, r.sent = batch[b].sent, r.itemErr = batch[b].itemErr,
           r.results = batch[b].results, r.next = batch[b].next,
           \/ r.err = batch[b].err
           \/ /\ at.call = "caller" /\ batch[b].sent /\ r.err # "none"
              /\ autoErr => tx'.err # "none",
           r.rows \/ r.superseded => batch[b].rows \/ batch[b].superseded,
           \/ r.closedNil <=> batch[b].closedNil
           \/ batch[b].results = "closed" /\ (r.closedNil => batch[b].err = "none"),
           srv' \in SrvFields, tx' \in TxFields, hist' \in HistFields,
           tx'.unsentBatches = tx.unsentBatches, tx'.openBatch = tx.openBatch,
           tx'.batchExecuting = tx.batchExecuting, tx'.done => tx.done \/ Ended',
           WorkStep, autoErr => HistStep, PlainStep
    PROVE  Quiet
  <1>1. /\ batch' \in [Batches -> BatchFields] /\ batch'[b] = r
        /\ \A c \in Batches \ {b} : batch'[c] = batch[c]
    BY BatchTypes DEF TypeOK
  <1>2. TypeOK'
    BY <1>1 DEF TypeOK, HistFields
  <1>3. \A c \in Batches : BatchStep(c)
    <2> SUFFICES ASSUME NEW c \in Batches PROVE BatchStep(c)
      OBVIOUS
    <2>1. CASE c = b
      BY <1>1, <2>1 DEF BatchStep
    <2>2. CASE c # b
      BY <1>1, <2>2 DEF BatchStep
    <2> QED BY <2>1, <2>2
  <1> QED BY <1>2, <1>3 DEF Quiet

\* A read that answers without reading an item.
LEMMA ReadNothingQuiet ==
    ASSUME TxInv, NEW b \in Batches, at.call = "caller", ReadNothing(b) PROVE Quiet
  <1> DEFINE r == Supersede(batch[b])
             d == Doom(r)
  <1>1. /\ TypeOK /\ UNCHANGED <<autoErr, driver, srv, tx, at, other, hist>> /\ HasResults(b)
        /\ \/ batch' = [batch EXCEPT ![b] = r]
           \/ d.err # "none" /\ batch' = [batch EXCEPT ![b] = d]
        /\ srv \in SrvFields /\ tx \in TxFields /\ hist \in HistFields
        /\ batch[b] \in BatchFields
    BY TypeFields DEF ReadNothing, TxInv
  <1>2. /\ r \in BatchFields
        /\ r.items = batch[b].items /\ r.sent = batch[b].sent /\ r.itemErr = batch[b].itemErr
        /\ r.results = batch[b].results /\ r.next = batch[b].next /\ r.err = batch[b].err
        /\ (r.rows \/ r.superseded => batch[b].rows \/ batch[b].superseded)
        /\ r.closedNil = batch[b].closedNil
    BY <1>1, SupersedeTypes
  <1> HIDE DEF r
  <1>3. /\ d \in BatchFields
        /\ d.items = r.items /\ d.sent = r.sent /\ d.itemErr = r.itemErr
        /\ d.results = r.results /\ d.next = r.next
        /\ d.err = IF autoErr /\ r.err = "none" THEN tx.err ELSE r.err
        /\ d.rows = r.rows /\ d.superseded = r.superseded /\ d.closedNil = r.closedNil
    BY <1>1, <1>2, DoomTypes
  <1> HIDE DEF d
  <1>4. batch[b].sent
    BY <1>1 DEF HasResults, TxInv, ItemInv, ItemOK
  <1>5. autoErr => HistStep
    BY <1>1 DEF HistStep
  <1>6. CASE batch' = [batch EXCEPT ![b] = r]
    BY <1>1, <1>2, <1>5, <1>6, SameWork, SamePlain, QuietBatch
  <1>7. CASE d.err # "none" /\ batch' = [batch EXCEPT ![b] = d]
    <2>1. \/ d.err = batch[b].err
          \/ /\ at.call = "caller" /\ batch[b].sent /\ d.err # "none"
             /\ autoErr => tx'.err # "none"
      BY <1>1, <1>2, <1>3, <1>4, <1>7
    <2>2. (d.rows \/ d.superseded => batch[b].rows \/ batch[b].superseded)
      BY <1>2, <1>3
    <2>3. d.closedNil <=> batch[b].closedNil
      BY <1>2, <1>3
    <2>4. /\ d.items = batch[b].items /\ d.sent = batch[b].sent /\ d.itemErr = batch[b].itemErr
          /\ d.results = batch[b].results /\ d.next = batch[b].next
      BY <1>2, <1>3
    <2> QED BY <1>1, <1>3, <1>5, <1>7, <2>1, <2>2, <2>3, <2>4, SameWork, SamePlain, QuietBatch
  <1> QED BY <1>1, <1>6, <1>7

\* Close of results that are closed answers their failure again.
LEMMA CloseAgainQuiet == ASSUME TxInv, NEW b \in Batches, CloseAgain(b) PROVE Quiet
  <1> DEFINE y == batch[b].err = "none"
             r == [batch[b] EXCEPT !.closedNil = y]
  <1>1. /\ TypeOK /\ UNCHANGED <<autoErr, driver, srv, tx, at, other, hist>>
        /\ batch[b].results = "closed" /\ batch' = [batch EXCEPT ![b].closedNil = y]
        /\ srv \in SrvFields /\ tx \in TxFields /\ hist \in HistFields
        /\ batch \in [Batches -> BatchFields] /\ batch[b] \in BatchFields
    BY TypeFields DEF CloseAgain, TxInv
  <1>2. y \in BOOLEAN /\ (y => batch[b].err = "none")
    OBVIOUS
  <1>3. batch' = [batch EXCEPT ![b] = r]
    BY <1>1
  <1> HIDE DEF y
  <1>4. /\ r \in BatchFields
        /\ r.items = batch[b].items /\ r.sent = batch[b].sent /\ r.itemErr = batch[b].itemErr
        /\ r.results = batch[b].results /\ r.next = batch[b].next /\ r.err = batch[b].err
        /\ r.rows = batch[b].rows /\ r.superseded = batch[b].superseded /\ r.closedNil = y
    BY <1>1, <1>2 DEF BatchFields
  <1> HIDE DEF r
  <1>5. autoErr => HistStep
    BY <1>1 DEF HistStep
  <1> QED BY <1>1, <1>2, <1>3, <1>4, <1>5, SameWork, SamePlain, QuietBatch

\* Rows end, or break off.
LEMMA RowsEndQuiet ==
    ASSUME TxInv, NEW b \in Batches, at.call = "caller", RowsEnd(b) PROVE Quiet
  <1> DEFINE v == [batch[b] EXCEPT !.rows = FALSE]
  <1>1. /\ TypeOK /\ UNCHANGED <<autoErr, driver, at, other>> /\ batch[b].rows
        /\ srv \in SrvFields /\ tx \in TxFields /\ hist \in HistFields
        /\ batch \in [Batches -> BatchFields] /\ batch[b] \in BatchFields
    BY TypeFields DEF RowsEnd, TxInv
  <1>2. /\ v \in BatchFields
        /\ v.items = batch[b].items /\ v.sent = batch[b].sent /\ v.itemErr = batch[b].itemErr
        /\ v.results = batch[b].results /\ v.next = batch[b].next /\ v.err = batch[b].err
        /\ ~v.rows /\ v.superseded = batch[b].superseded /\ v.closedNil = batch[b].closedNil
    BY <1>1 DEF BatchFields
  <1>3. CASE batch' = [batch EXCEPT ![b].rows = FALSE] /\ UNCHANGED <<srv, tx, hist>>
    <2>1. batch' = [batch EXCEPT ![b] = v]
      BY <1>1, <1>3
    <2> HIDE DEF v
    <2>2. autoErr => HistStep
      BY <1>3 DEF HistStep
    <2> QED BY <1>1, <1>2, <1>3, <2>1, <2>2, SameWork, SamePlain, QuietBatch
  <1>4. ASSUME srv.tx = "active", hist' = Failure,
               NEW s \in AfterFailure, NEW e \in Errors, NEW later \in BOOLEAN,
               srv' = s, tx' = Recorded(tx, e),
               batch' = [batch EXCEPT ![b] =
                            FailedWith([batch[b] EXCEPT !.rows = FALSE,
                                                 !.superseded = @ \/ later], e)]
        PROVE  Quiet
    <2> DEFINE y == batch[b].superseded \/ later
               w == [v EXCEPT !.superseded = y]
               r == FailedWith(w, e)
    <2>1. batch' = [batch EXCEPT ![b] = r]
      <3> DEFINE x == [batch[b] EXCEPT !.rows = FALSE, !.superseded = @ \/ later]
      <3>1. x = w
        BY <1>1 DEF BatchFields
      <3>2. batch' = [batch EXCEPT ![b] = FailedWith(x, e)]
        BY <1>4
      <3> HIDE DEF x, w
      <3> QED BY <3>1, <3>2
    <2>2. y \in BOOLEAN
      OBVIOUS
    <2> HIDE DEF v, y
    <2>3. /\ w \in BatchFields
          /\ w.items = v.items /\ w.sent = v.sent /\ w.itemErr = v.itemErr
          /\ w.results = v.results /\ w.next = v.next /\ w.err = v.err
          /\ w.closedNil = v.closedNil
      BY <1>2, <2>2 DEF BatchFields
    <2> HIDE DEF w
    <2>4. e \in Outcome /\ e # "none"
      BY DEF Outcome, Errors
    <2>5. /\ r \in BatchFields
          /\ r.items = w.items /\ r.sent = w.sent /\ r.itemErr = w.itemErr
          /\ r.results = w.results /\ r.next = w.next
          /\ r.err # "none" /\ r.closedNil = w.closedNil
      BY <2>3, <2>4, FailedTypes
    <2> HIDE DEF r
    <2>6. /\ tx' \in TxFields /\ tx'.unsentBatches = tx.unsentBatches
          /\ tx'.openBatch = tx.openBatch /\ tx'.batchExecuting = tx.batchExecuting
          /\ tx'.done = tx.done /\ (autoErr => tx'.err # "none")
      BY <1>1, <1>4, <2>4, RecordedTypes
    <2>7. /\ srv' \in SrvFields /\ WorkStep
          /\ srv'.tx = "lost" => srv.tx = "lost" \/ driver # "pgx"
      BY <1>1, <1>4, FailureWork
    <2>8. hist' \in HistFields /\ hist'.plain = hist.plain /\ hist'.dropped = hist.dropped
      BY <1>1, <1>4, HistTypes
    <2>9. autoErr => HistStep
      BY <1>1, <2>6, <2>7, <2>8 DEF HistStep
    <2>10. batch[b].sent
      BY <1>1 DEF TxInv, ItemInv, ItemOK
    <2>11. /\ r.items = batch[b].items /\ r.sent = batch[b].sent /\ r.itemErr = batch[b].itemErr
           /\ r.results = batch[b].results /\ r.next = batch[b].next
           /\ r.closedNil = batch[b].closedNil
      BY <1>2, <2>3, <2>5
    <2>12. PlainStep
      BY <1>1, <2>8, SamePlain
    <2> QED BY <1>1, <2>1, <2>5, <2>6, <2>7, <2>8, <2>9, <2>10, <2>11, <2>12, QuietBatch
  <1> QED BY <1>3, <1>4 DEF RowsEnd

\* A Scan fails.
LEMMA ScanFailsQuiet ==
    ASSUME TxInv, NEW b \in Batches, at.call = "caller", RowsScanFails(b) PROVE Quiet
  <1> DEFINE r == FailedWith(batch[b], "error")
  <1>1. /\ TypeOK /\ UNCHANGED <<autoErr, driver, srv, at, other>> /\ hist' = Failure
        /\ batch[b].rows \/ batch[b].superseded
        /\ tx' = Recorded(tx, "error") /\ batch' = [batch EXCEPT ![b] = r]
        /\ srv \in SrvFields /\ tx \in TxFields /\ hist \in HistFields
        /\ batch \in [Batches -> BatchFields] /\ batch[b] \in BatchFields
    BY TypeFields DEF RowsScanFails, TxInv
  <1>2. "error" \in Outcome
    BY DEF Outcome, Errors
  <1>3. /\ r \in BatchFields
        /\ r.items = batch[b].items /\ r.sent = batch[b].sent /\ r.itemErr = batch[b].itemErr
        /\ r.results = batch[b].results /\ r.next = batch[b].next
        /\ r.err # "none" /\ r.closedNil = batch[b].closedNil
    BY <1>1, <1>2, FailedTypes
  <1> HIDE DEF r
  <1>4. /\ tx' \in TxFields /\ tx'.unsentBatches = tx.unsentBatches
        /\ tx'.openBatch = tx.openBatch /\ tx'.batchExecuting = tx.batchExecuting
        /\ tx'.done = tx.done /\ (autoErr => tx'.err # "none")
    BY <1>1, <1>2, RecordedTypes
  <1>5. hist' \in HistFields /\ hist'.plain = hist.plain /\ hist'.dropped = hist.dropped
    BY <1>1, HistTypes
  <1>6. autoErr => HistStep
    BY <1>1, <1>4, <1>5 DEF HistStep
  <1>7. batch[b].sent
    BY <1>1 DEF TxInv, ItemInv, ItemOK
  <1> QED BY <1>1, <1>3, <1>4, <1>5, <1>6, <1>7, SameWork, SamePlain, QuietBatch

LEMMA SupersededQuiet == ASSUME TxInv, NEW b \in Batches, ReadSuperseded(b) PROVE Quiet
  <1>1. /\ TypeOK /\ UNCHANGED <<autoErr, driver, srv, batch, at, other>> /\ hist' = Failure
        /\ tx' = Recorded(tx, "error")
        /\ srv \in SrvFields /\ tx \in TxFields /\ hist \in HistFields
    BY TypeFields DEF ReadSuperseded, TxInv
  <1>2. "error" \in Outcome
    BY DEF Outcome, Errors
  <1>3. /\ tx' \in TxFields /\ tx'.unsentBatches = tx.unsentBatches
        /\ tx'.openBatch = tx.openBatch /\ tx'.batchExecuting = tx.batchExecuting
        /\ tx'.done = tx.done /\ (autoErr => tx'.err # "none")
    BY <1>1, <1>2, RecordedTypes
  <1>4. hist' \in HistFields /\ hist'.plain = hist.plain /\ hist'.dropped = hist.dropped
    BY <1>1, HistTypes
  <1>5. autoErr => HistStep
    BY <1>1, <1>3, <1>4 DEF HistStep
  <1> QED BY <1>1, <1>3, <1>4, <1>5, SameWork, SamePlain, QuietFrame

\* The outcomes of the two ways to end a transaction.
LEMMA EndTypes ==
    ASSUME srv \in SrvFields, NEW t \in TxFields, NEW o,
           o \in Finalize(t, SqlCommit) \/ o \in Finalize(t, SqlRollback)
    PROVE  /\ o.tx \in TxFields /\ o.srv \in SrvFields /\ o.err \in Outcome
           /\ o.tx.err = t.err /\ o.tx.unsentBatches = t.unsentBatches
           /\ o.tx.batchMisuse = t.batchMisuse /\ o.tx.openBatch = t.openBatch
           /\ o.tx.batchExecuting = t.batchExecuting /\ o.tx.row = t.row
           /\ o.srv.work = srv.work /\ o.srv.stray = srv.stray
           /\ \/ o.srv = srv
              \/ o.srv.tx = "committed" /\ srv.tx = "active"
              \/ o.srv.tx = "rolledback" /\ ~Ended
           /\ o.tx.done => t.done \/ o.srv.tx \in {"committed", "rolledback"}
           /\ o.err = "none" => /\ o.srv.tx \in {"committed", "rolledback"}
                                /\ o.srv.tx = "rolledback" => ~Ended
  <1>1. \A q \in SqlCommit : q.srv \in SrvFields /\ q.err \in Outcome
    BY CommitTypes
  <1>2. \A q \in SqlRollback : q.srv \in SrvFields /\ q.err \in Outcome
    BY RollbackTypes
  <1>3. /\ o.tx \in TxFields /\ o.err \in Outcome
        /\ o.tx.err = t.err /\ o.tx.unsentBatches = t.unsentBatches
        /\ o.tx.batchMisuse = t.batchMisuse /\ o.tx.openBatch = t.openBatch
        /\ o.tx.batchExecuting = t.batchExecuting /\ o.tx.row = t.row
        /\ \/ t.done /\ o.tx.done /\ o.srv = srv /\ o.err = "error"
           \/ /\ ~t.done
              /\ \E q : /\ q \in SqlCommit \/ q \in SqlRollback
                        /\ o.srv = q.srv /\ o.err = q.err /\ (o.tx.done <=> q.err = "none")
    <2>1. CASE o \in Finalize(t, SqlCommit)
      BY <1>1, <2>1, FinalizeTypes
    <2>2. CASE o \in Finalize(t, SqlRollback)
      BY <1>2, <2>2, FinalizeTypes
    <2> QED BY <2>1, <2>2
  <1>4. CASE t.done /\ o.tx.done /\ o.srv = srv /\ o.err = "error"
    BY <1>3, <1>4
  <1>5. ASSUME NEW q, q \in SqlCommit \/ q \in SqlRollback,
               o.srv = q.srv, o.err = q.err, o.tx.done <=> q.err = "none"
        PROVE  /\ o.srv \in SrvFields /\ o.srv.work = srv.work /\ o.srv.stray = srv.stray
               /\ \/ o.srv = srv
                  \/ o.srv.tx = "committed" /\ srv.tx = "active"
                  \/ o.srv.tx = "rolledback" /\ ~Ended
               /\ o.tx.done => o.srv.tx \in {"committed", "rolledback"}
               /\ o.err = "none" => /\ o.srv.tx \in {"committed", "rolledback"}
                                    /\ o.srv.tx = "rolledback" => ~Ended
    <2>1. CASE q \in SqlCommit
      BY <1>5, <2>1, CommitTypes DEF Ended
    <2>2. CASE q \in SqlRollback
      BY <1>5, <2>2, RollbackTypes DEF Ended
    <2> QED BY <1>5, <2>1, <2>2
  <1> QED BY <1>3, <1>4, <1>5

\* Commit, and the Rollback of a watchdog once it has let go of the batch.
LEMMA EndQuiet ==
    ASSUME TypeOK, UNCHANGED <<autoErr, driver, batch, at, hist>>,
           NEW o, o \in Finalize(tx, SqlCommit) \/ o \in Finalize(tx, SqlRollback),
           tx' = o.tx, srv' = o.srv,
           other' = other \/ (other.call # "sending" /\ other' = [NoOther EXCEPT !.call = "done"])
    PROVE  Quiet
  <1>1. srv \in SrvFields /\ tx \in TxFields /\ hist \in HistFields /\ hist.plain \in Nat
    BY TypeFields
  <1>2. /\ tx' \in TxFields /\ srv' \in SrvFields
        /\ tx'.err = tx.err /\ tx'.unsentBatches = tx.unsentBatches
        /\ tx'.openBatch = tx.openBatch
        /\ tx'.batchExecuting = tx.batchExecuting /\ tx'.row = tx.row
        /\ srv'.work = srv.work /\ srv'.stray = srv.stray
        /\ \/ srv' = srv
           \/ srv'.tx = "committed" /\ srv.tx = "active"
           \/ srv'.tx = "rolledback" /\ ~Ended
        /\ tx'.done => tx.done \/ srv'.tx \in {"committed", "rolledback"}
    BY <1>1, EndTypes
  <1>3. WorkStep
    BY <1>2 DEF WorkStep, Ended
  <1>4. HistStep
    BY <1>2 DEF HistStep
  <1>5. other' = other \/ (other.call # "sending" /\ other'.call = "done")
    BY DEF NoOther
  <1>6. PlainStep
    BY <1>1, <1>5 DEF PlainStep
  <1>7. TypeOK'
    <2>1. other' \in [call : {"idle", "sending", "abandon", "finalize", "done"},
                      b : Batches \cup {NoBatch}, n : 0..MaxPlain]
      BY BatchAssumption DEF TypeOK, NoOther
    <2> QED BY <1>2, <2>1 DEF TypeOK
  <1> QED BY <1>2, <1>3, <1>4, <1>5, <1>6, <1>7, SameBatches DEF Quiet, Ended

LEMMA CommitQuiet == ASSUME TxInv, Commit PROVE Quiet
  <1>1. TypeOK /\ UNCHANGED <<autoErr, driver, batch, at, other, hist>>
    BY DEF Commit, TxInv
  <1>2. PICK o \in CommitOutcomes : tx' = o.tx /\ srv' = o.srv
    BY DEF Commit
  <1>3. CASE batchPending
    <2>1. tx' = tx /\ srv' = srv
      BY <1>2, <1>3 DEF CommitOutcomes
    <2>2. HistStep
      BY <1>1, <2>1 DEF HistStep
    <2> QED BY <1>1, <2>1, <2>2, SameWork, SamePlain, TypeFields, QuietFrame
  <1>4. CASE ~batchPending
    <2>1. o \in Finalize(tx, SqlCommit)
      BY <1>4 DEF CommitOutcomes
    <2> QED BY <1>1, <1>2, <2>1, EndQuiet
  <1> QED BY <1>3, <1>4

LEMMA FinalizesQuiet == ASSUME TxInv, WatchdogFinalizes PROVE Quiet
  <1>1. TypeOK /\ UNCHANGED <<autoErr, driver, batch, at, hist>>
        /\ other.call = "finalize" /\ other' = [NoOther EXCEPT !.call = "done"]
    BY DEF WatchdogFinalizes, TxInv
  <1>2. PICK o \in Finalize(tx, SqlRollback) : tx' = o.tx /\ srv' = o.srv
    BY DEF WatchdogFinalizes
  <1> QED BY <1>1, <1>2, EndQuiet

\* The transaction's context ends.
LEMMA ContextQuiet == ASSUME TxInv, ContextEnds PROVE Quiet
  <1>1. /\ TypeOK /\ UNCHANGED <<autoErr, driver, tx, batch, at, other, hist>> /\ ~Ended
        /\ srv' = [srv EXCEPT !.tx = "rolledback"]
        /\ srv \in SrvFields /\ tx \in TxFields /\ hist \in HistFields
    BY TypeFields DEF ContextEnds, TxInv
  <1>2. srv' \in SrvFields /\ srv'.tx = "rolledback" /\ srv'.work = srv.work
    BY <1>1, SrvTypes DEF SrvStates
  <1>3. WorkStep /\ HistStep
    BY <1>1, <1>2 DEF WorkStep, HistStep, Ended
  <1> QED BY <1>1, <1>2, <1>3, SamePlain, QuietFrame

\* The caller recovers from a panic.
LEMMA RecoversQuiet == ASSUME TxInv, Recovers PROVE Quiet
  <1>1. /\ TypeOK /\ UNCHANGED <<autoErr, driver, srv, tx, batch, other, hist>>
        /\ at.call = "panic" /\ at' = Idle
        /\ srv \in SrvFields /\ tx \in TxFields /\ hist \in HistFields
    BY TypeFields DEF Recovers, TxInv
  <1>2. TypeOK'
    BY <1>1 DEF TypeOK, Idle
  <1>3. HistStep
    BY <1>1 DEF HistStep
  <1> QED BY <1>1, <1>2, <1>3, SameWork, SamePlain, SameBatches DEF Quiet

\* The second goroutine's statements.
LEMMA HelperQuiet == ASSUME TxInv, HelperCalls PROVE Quiet
  <1>a. /\ TypeOK /\ srv \in SrvFields /\ tx \in TxFields /\ hist \in HistFields
        /\ hist.plain \in Nat
    BY TypeFields DEF TxInv
  <1>1. CASE HelperChecks /\ StatementRefused
    BY <1>1, RefusedQuiet
  <1>2. CASE HelperChecks /\ ~StatementRefused
    <2>1. /\ other' = [NoOther EXCEPT !.call = "sending", !.n = hist.plain + 1]
          /\ hist' = [hist EXCEPT !.plain = @ + 1] /\ hist.plain < MaxPlain
          /\ other.call = "idle"
          /\ UNCHANGED <<autoErr, driver, srv, tx, batch, at>>
      BY <1>2 DEF HelperChecks
    <2>2. /\ other'.call = "sending" /\ other'.n = hist.plain + 1
          /\ other' \in [call : {"idle", "sending", "abandon", "finalize", "done"},
                         b : Batches \cup {NoBatch}, n : 0..MaxPlain]
      <3> DEFINE m == hist.plain + 1
      <3>1. m \in 0..MaxPlain
        BY <1>a, <2>1, BatchAssumption
      <3>2. other' = [call |-> "sending", b |-> NoBatch, n |-> m]
        BY <2>1 DEF NoOther
      <3> HIDE DEF m
      <3>3. other'.call = "sending" /\ other'.n = m /\ other'.b = NoBatch
        BY <3>2
      <3> QED BY <3>1, <3>2, <3>3 DEF m
    <2>3. /\ hist' \in HistFields /\ hist'.plain = hist.plain + 1
          /\ hist'.failed = hist.failed /\ hist'.dropped = hist.dropped
      BY <1>a, <2>1, HistTypes
    <2>4. TypeOK'
      BY <1>a, <2>1, <2>2, <2>3 DEF TypeOK, HistFields
    <2>5. HistStep
      BY <2>1, <2>3 DEF HistStep
    <2>6. PlainStep
      BY <1>a, <2>1, <2>2, <2>3 DEF PlainStep
    <2> QED BY <2>1, <2>2, <2>4, <2>5, <2>6, SameWork, SameBatches DEF Quiet
  <1>3. CASE HelperSends
    <2>0. PICK n \in Nat : n = other.n
      BY <1>a, BatchAssumption DEF TypeOK
    <2>1. /\ other.call = "sending" /\ SendStatement(<<NoBatch, n>>) /\ other' = NoOther
          /\ UNCHANGED <<autoErr, driver, batch, at>> /\ n \in 1..hist.plain /\ n > 0
      BY <1>a, <1>3, <2>0 DEF HelperSends, TxInv, CallInv
    <2>2. /\ srv' \in SrvFields /\ tx' \in TxFields /\ hist' \in HistFields
          /\ tx'.unsentBatches = tx.unsentBatches /\ tx'.openBatch = tx.openBatch
          /\ tx'.batchExecuting = tx.batchExecuting /\ tx'.done = tx.done
          /\ WorkStep /\ (autoErr => HistStep)
          /\ hist'.plain = (IF n > hist.plain THEN n ELSE hist.plain)
          /\ autoErr => InWork(<<NoBatch, n>>)' \/ tx'.err # "none" \/ srv'.tx # "active"
      BY <1>a, <2>1, SendEffects
    <2>3. hist'.plain = hist.plain /\ other'.call = "idle"
      BY <1>a, <2>1, <2>2 DEF NoOther
    <2>4. PlainStep
      BY <1>a, <2>0, <2>1, <2>2, <2>3 DEF PlainStep
    <2>5. TypeOK'
      BY <1>a, <2>1, <2>2, BatchAssumption DEF TypeOK, HistFields, NoOther
    <2> QED BY <2>1, <2>2, <2>3, <2>4, <2>5, SameBatches DEF Quiet
  <1> QED BY <1>1, <1>2, <1>3 DEF HelperCalls

-----------------------------------------------------------------------------
(* What the other steps do, field by field *)

\* A step changes at most the batch b, and keeps the types.
OneBatch(b) ==
    /\ TypeOK' /\ UNCHANGED <<autoErr, driver>>
    /\ \A c \in Batches \ {b} : batch'[c] = batch[c]

\* There is room in the count for a batch that is not counted yet.
LEMMA UnsentRoom ==
    ASSUME TxInv, NEW b \in Batches
    PROVE  /\ IsFiniteSet(Unsent) /\ Cardinality(Unsent) \in Nat
           /\ b \in Unsent => Cardinality(Unsent) > 0
           /\ b \notin Unsent => Cardinality(Unsent) + 1 <= NBatches
  <1>1. IsFiniteSet(Batches) /\ Cardinality(Batches) = NBatches
    BY FS_Interval, BatchAssumption DEF Batches
  <1>2. Unsent \subseteq Batches
    BY DEF Unsent
  <1>3. IsFiniteSet(Unsent) /\ Cardinality(Unsent) \in Nat
    BY <1>1, <1>2, FS_Subset, FS_CardinalityType
  <1>4. b \in Unsent => Cardinality(Unsent) # 0
    BY <1>3, FS_EmptySet
  <1>5. ASSUME b \notin Unsent PROVE Cardinality(Unsent) + 1 <= NBatches
    <2>1. Cardinality(Unsent \cup {b}) = Cardinality(Unsent) + 1
      BY <1>3, <1>5, FS_AddElement
    <2>2. Unsent \cup {b} \subseteq Batches
      BY <1>2
    <2>3. Cardinality(Unsent \cup {b}) <= Cardinality(Batches)
      BY <1>1, <2>2, FS_Subset
    <2> QED BY <1>1, <2>1, <2>3
  <1> QED BY <1>3, <1>4, <1>5

\* Queue: one more item, and a batch more that is not sent.
LEMMA QueueEffects ==
    ASSUME TxInv, NEW b \in Batches, Queue(b)
    PROVE  /\ OneBatch(b) /\ UNCHANGED <<srv, at, other, hist>>
           /\ ~batch[b].sent /\ batch'[b].items = batch[b].items + 1
           /\ batch'[b].sent = batch[b].sent
           /\ batch'[b].itemErr = batch[b].itemErr /\ batch'[b].results = batch[b].results
           /\ batch'[b].next = batch[b].next /\ batch'[b].err = batch[b].err
           /\ batch'[b].rows = batch[b].rows /\ batch'[b].superseded = batch[b].superseded
           /\ batch'[b].closedNil = batch[b].closedNil
           /\ tx'.unsentBatches = IF batch[b].items = 0 THEN tx.unsentBatches + 1
                                  ELSE tx.unsentBatches
           /\ tx'.err = tx.err /\ tx'.row = tx.row /\ tx'.done = tx.done
           /\ tx'.openBatch = tx.openBatch /\ tx'.batchExecuting = tx.batchExecuting
           /\ tx'.batchMisuse = tx.batchMisuse
  <1> DEFINE k == batch[b].items + 1
             r == [batch[b] EXCEPT !.items = k]
             u == tx.unsentBatches + 1
  <1>1. /\ TypeOK /\ UNCHANGED <<autoErr, driver, srv, at, other, hist>>
        /\ ~batch[b].sent /\ batch[b].items < MaxItems
        /\ batch' = [batch EXCEPT ![b].items = @ + 1]
        /\ tx' = IF batch[b].items = 0 THEN [tx EXCEPT !.unsentBatches = @ + 1] ELSE tx
        /\ tx \in TxFields /\ batch \in [Batches -> BatchFields] /\ batch[b] \in BatchFields
    BY TypeFields DEF Queue, TxInv
  <1>2. batch[b].items \in 0..MaxItems
    BY <1>1 DEF BatchFields
  <1>3. k \in 0..MaxItems
    BY <1>1, <1>2, BatchAssumption
  <1>4. batch' = [batch EXCEPT ![b] = r]
    BY <1>1
  <1> HIDE DEF k
  <1>5. /\ r \in BatchFields /\ r.items = k
        /\ r.sent = batch[b].sent /\ r.itemErr = batch[b].itemErr
        /\ r.results = batch[b].results /\ r.next = batch[b].next /\ r.err = batch[b].err
        /\ r.rows = batch[b].rows /\ r.superseded = batch[b].superseded
        /\ r.closedNil = batch[b].closedNil
    BY <1>1, <1>3 DEF BatchFields
  <1> HIDE DEF r
  <1>6. /\ batch' \in [Batches -> BatchFields] /\ batch'[b] = r
        /\ \A c \in Batches \ {b} : batch'[c] = batch[c]
    BY <1>1, <1>4, <1>5, BatchTypes
  <1>7. batch[b].items = 0 => u \in 0..NBatches
    <2>1. batch[b].items = 0 => b \notin Unsent
      BY DEF Unsent
    <2>2. tx.unsentBatches = Cardinality(Unsent)
      BY DEF TxInv, UnsentInv
    <2> QED BY <2>1, <2>2, UnsentRoom, BatchAssumption
  <1>8. /\ tx' \in TxFields
        /\ tx'.unsentBatches = IF batch[b].items = 0 THEN u ELSE tx.unsentBatches
        /\ tx'.err = tx.err /\ tx'.row = tx.row /\ tx'.done = tx.done
        /\ tx'.openBatch = tx.openBatch /\ tx'.batchExecuting = tx.batchExecuting
        /\ tx'.batchMisuse = tx.batchMisuse
    <2>1. CASE batch[b].items = 0
      <3>1. tx' = [tx EXCEPT !.unsentBatches = u]
        BY <1>1, <2>1
      <3> HIDE DEF u
      <3> QED BY <1>1, <1>7, <2>1, <3>1 DEF TxFields
    <2>2. CASE batch[b].items # 0
      BY <1>1, <2>2
    <2> QED BY <2>1, <2>2
  <1>9. TypeOK'
    BY <1>1, <1>6, <1>8 DEF TypeOK
  <1> QED BY <1>1, <1>5, <1>6, <1>8, <1>9 DEF OneBatch, k, u

\* Send that opens nothing: refused, with a named argument, or empty.
SendUnopened(b) == SendRefused(b) \/ SendNamedArg(b) \/ SendEmpty(b)

LEMMA UnopenedEffects ==
    ASSUME TxInv, NEW b \in Batches, SendUnopened(b)
    PROVE  /\ OneBatch(b) /\ UNCHANGED <<srv, at, other>>
           /\ ~batch[b].sent /\ batch'[b].sent /\ batch'[b].items = batch[b].items
           /\ batch'[b].itemErr = batch[b].itemErr /\ batch'[b].results = "unopened"
           /\ batch'[b].next = batch[b].next
           /\ batch[b].items > 0 => batch'[b].err # "none"
           /\ batch'[b].rows = batch[b].rows /\ batch'[b].superseded = batch[b].superseded
           /\ batch'[b].closedNil = batch[b].closedNil
           /\ tx'.unsentBatches = IF batch[b].items > 0 THEN tx.unsentBatches - 1
                                  ELSE tx.unsentBatches
           /\ tx'.row = tx.row /\ tx'.done = tx.done /\ tx'.batchMisuse = tx.batchMisuse
           /\ tx'.openBatch = tx.openBatch /\ tx'.batchExecuting = tx.batchExecuting
           /\ autoErr /\ tx.err # "none" => tx'.err # "none"
           /\ autoErr /\ batch'[b].err # "none" => tx'.err # "none"
           /\ hist'.plain = hist.plain /\ hist'.failed = hist.failed
           /\ hist'.dropped => hist.dropped \/ batch'[b].err # "none"
  <1>1. /\ TypeOK /\ ~batch[b].sent
        /\ srv \in SrvFields /\ tx \in TxFields /\ hist \in HistFields
        /\ batch \in [Batches -> BatchFields] /\ batch[b] \in BatchFields
        /\ shortCircuit \in Outcome
    BY TypeFields DEF SendUnopened, SendRefused, SendNamedArg, SendEmpty, TxInv
  <1> DEFINE t == AfterSend(b)
  <1>2. /\ t \in TxFields
        /\ t.unsentBatches = IF batch[b].items > 0 THEN tx.unsentBatches - 1
                             ELSE tx.unsentBatches
        /\ t.err = tx.err /\ t.batchMisuse = tx.batchMisuse
        /\ t.openBatch = tx.openBatch /\ t.batchExecuting = tx.batchExecuting
        /\ t.done = tx.done /\ t.row = tx.row
    <2>1. batch[b].items > 0 => tx.unsentBatches > 0
      BY <1>1, UnsentRoom DEF TxInv, UnsentInv, Unsent
    <2> QED BY <1>1, <2>1, AfterSendTypes
  <1> HIDE DEF t
  <1>3. PICK e \in Outcome :
          /\ SentUnopened(b, e) /\ (batch[b].items > 0 => e # "none")
          /\ tx' = t \/ tx' = Recorded(t, "error")
          /\ autoErr /\ e # "none" => tx' = Recorded(t, "error") \/ tx.err # "none"
    <2>1. CASE SendRefused(b)
      BY <1>1, <2>1 DEF SendRefused, t, shortCircuit
    <2>2. CASE SendNamedArg(b)
      BY <2>2 DEF SendNamedArg, t, Outcome, Errors
    <2>3. CASE SendEmpty(b)
      BY <2>3 DEF SendEmpty, t, Outcome
    <2> QED BY <2>1, <2>2, <2>3 DEF SendUnopened
  <1>4. "error" \in Outcome
    BY DEF Outcome, Errors
  <1>5. /\ tx' \in TxFields
        /\ tx'.unsentBatches = t.unsentBatches /\ tx'.batchMisuse = t.batchMisuse
        /\ tx'.openBatch = t.openBatch /\ tx'.batchExecuting = t.batchExecuting
        /\ tx'.done = t.done /\ tx'.row = t.row
        /\ autoErr /\ tx.err # "none" => tx'.err # "none"
        /\ autoErr /\ e # "none" => tx'.err # "none"
    BY <1>2, <1>3, <1>4, RecordedTypes
  <1> DEFINE p == [batch[b] EXCEPT !.sent = TRUE]
             q == [p EXCEPT !.results = "unopened"]
             r == [q EXCEPT !.err = e]
  <1>6. /\ UNCHANGED <<autoErr, driver, srv, at, other>>
        /\ batch' = [batch EXCEPT ![b] = r]
        /\ hist' = IF batch[b].items > 0 THEN Drop ELSE hist
    BY <1>1, <1>3 DEF SentUnopened
  <1>7. /\ p \in BatchFields /\ p.items = batch[b].items /\ p.sent
        /\ p.itemErr = batch[b].itemErr /\ p.next = batch[b].next /\ p.rows = batch[b].rows
        /\ p.superseded = batch[b].superseded /\ p.closedNil = batch[b].closedNil
    BY <1>1 DEF BatchFields
  <1> HIDE DEF p
  <1>8. /\ q \in BatchFields /\ q.items = p.items /\ q.sent = p.sent
        /\ q.results = "unopened"
        /\ q.itemErr = p.itemErr /\ q.next = p.next /\ q.rows = p.rows
        /\ q.superseded = p.superseded /\ q.closedNil = p.closedNil
    BY <1>7 DEF BatchFields
  <1> HIDE DEF q
  <1>9. /\ r \in BatchFields /\ r.items = q.items /\ r.sent = q.sent
        /\ r.results = q.results /\ r.err = e
        /\ r.itemErr = q.itemErr /\ r.next = q.next /\ r.rows = q.rows
        /\ r.superseded = q.superseded /\ r.closedNil = q.closedNil
    BY <1>8 DEF BatchFields
  <1> HIDE DEF r
  <1>10. /\ batch' \in [Batches -> BatchFields] /\ batch'[b] = r
         /\ \A c \in Batches \ {b} : batch'[c] = batch[c]
    BY <1>1, <1>6, <1>9, BatchTypes
  <1>11. /\ hist' \in HistFields /\ hist'.plain = hist.plain /\ hist'.failed = hist.failed
         /\ hist'.dropped => hist.dropped \/ batch[b].items > 0
    BY <1>1, <1>6, HistTypes
  <1>12. TypeOK'
    BY <1>1, <1>5, <1>6, <1>10, <1>11 DEF TypeOK, HistFields
  <1>13. /\ batch'[b].items = batch[b].items /\ batch'[b].sent
         /\ batch'[b].itemErr = batch[b].itemErr /\ batch'[b].results = "unopened"
         /\ batch'[b].next = batch[b].next /\ batch'[b].err = e
         /\ batch'[b].rows = batch[b].rows /\ batch'[b].superseded = batch[b].superseded
         /\ batch'[b].closedNil = batch[b].closedNil
    BY <1>7, <1>8, <1>9, <1>10
  <1>14. OneBatch(b) /\ UNCHANGED <<srv, at, other>>
    BY <1>6, <1>10, <1>12 DEF OneBatch
  <1>15. batch[b].items > 0 => e # "none"
    BY <1>3
  <1> QED BY <1>1, <1>2, <1>5, <1>11, <1>13, <1>14, <1>15

\* Send that opens the batch.
LEMMA OpensEffects ==
    ASSUME TxInv, NEW b \in Batches, at.call = "caller", SendOpens(b)
    PROVE  /\ OneBatch(b) /\ UNCHANGED <<srv, other, hist>>
           /\ ~batch[b].sent /\ batch'[b].sent /\ batch'[b].items = batch[b].items
           /\ batch[b].items > 0 /\ tx.openBatch = NoBatch /\ ~tx.batchExecuting
           /\ batch'[b].itemErr = batch[b].itemErr /\ batch'[b].results = "open"
           /\ batch'[b].next = batch[b].next /\ batch'[b].err = batch[b].err
           /\ batch'[b].rows = batch[b].rows /\ batch'[b].superseded = batch[b].superseded
           /\ batch'[b].closedNil = batch[b].closedNil
           /\ tx'.unsentBatches = tx.unsentBatches - 1 /\ tx'.openBatch = b
           /\ tx'.err = tx.err /\ tx'.row = tx.row /\ tx'.done = tx.done
           /\ tx'.batchExecuting = tx.batchExecuting
           /\ \/ Pipelined /\ at'.call = "pipeline" /\ at'.b = b
              \/ ~Pipelined /\ at' = at
  <1>1. /\ TypeOK /\ ~batch[b].sent /\ batch[b].items > 0
        /\ tx \in TxFields /\ batch \in [Batches -> BatchFields] /\ batch[b] \in BatchFields
        /\ UNCHANGED <<autoErr, driver, srv, other, hist>>
        /\ tx' = [AfterSend(b) EXCEPT !.openBatch = b]
        /\ batch' = [batch EXCEPT ![b].sent = TRUE, ![b].results = "open"]
        /\ at' = IF Pipelined THEN [Idle EXCEPT !.call = "pipeline", !.b = b] ELSE at
    BY TypeFields DEF SendOpens, TxInv
  <1>2. ~tx.batchExecuting
    BY DEF TxInv, CallInv
  <1>3. tx.openBatch = NoBatch
    BY <1>2 DEF SendOpens, shortCircuit, batchRefuses
  <1> DEFINE t == AfterSend(b)
  <1>4. /\ t \in TxFields /\ t.unsentBatches = tx.unsentBatches - 1
        /\ t.err = tx.err /\ t.batchExecuting = tx.batchExecuting
        /\ t.done = tx.done /\ t.row = tx.row
    <2>1. batch[b].items > 0 => tx.unsentBatches > 0
      BY <1>1, UnsentRoom DEF TxInv, UnsentInv, Unsent
    <2> QED BY <1>1, <2>1, AfterSendTypes
  <1> HIDE DEF t
  <1>5. /\ tx' \in TxFields /\ tx'.unsentBatches = t.unsentBatches /\ tx'.openBatch = b
        /\ tx'.err = t.err /\ tx'.row = t.row /\ tx'.done = t.done
        /\ tx'.batchExecuting = t.batchExecuting
    <2>1. tx' = [t EXCEPT !.openBatch = b]
      BY <1>1 DEF t
    <2> QED BY <1>4, <2>1 DEF TxFields
  <1> DEFINE p == [batch[b] EXCEPT !.sent = TRUE]
             r == [p EXCEPT !.results = "open"]
  <1>6. batch' = [batch EXCEPT ![b] = r]
    BY <1>1
  <1>7. /\ p \in BatchFields /\ p.items = batch[b].items /\ p.sent
        /\ p.itemErr = batch[b].itemErr /\ p.next = batch[b].next /\ p.rows = batch[b].rows
        /\ p.superseded = batch[b].superseded /\ p.closedNil = batch[b].closedNil
        /\ p.err = batch[b].err
    BY <1>1 DEF BatchFields
  <1> HIDE DEF p
  <1>8. /\ r \in BatchFields /\ r.items = p.items /\ r.sent = p.sent
        /\ r.results = "open" /\ r.err = p.err
        /\ r.itemErr = p.itemErr /\ r.next = p.next /\ r.rows = p.rows
        /\ r.superseded = p.superseded /\ r.closedNil = p.closedNil
    BY <1>7 DEF BatchFields
  <1> HIDE DEF r
  <1>9. /\ batch' \in [Batches -> BatchFields] /\ batch'[b] = r
        /\ \A c \in Batches \ {b} : batch'[c] = batch[c]
    BY <1>1, <1>6, <1>8, BatchTypes
  <1>10. /\ \/ Pipelined /\ at'.call = "pipeline" /\ at'.b = b
            \/ ~Pipelined /\ at' = at
         /\ at' \in [call : {"caller", "pipeline", "run", "close", "panic"},
                     b : Batches \cup {NoBatch}, query : BOOLEAN]
    <2>1. CASE Pipelined
      <3>1. at' = [call |-> "pipeline", b |-> b, query |-> FALSE]
        BY <1>1, <2>1 DEF Idle
      <3> QED BY <2>1, <3>1
    <2>2. CASE ~Pipelined
      BY <1>1, <2>2 DEF TypeOK
    <2> QED BY <2>1, <2>2
  <1>11. TypeOK'
    BY <1>1, <1>5, <1>9, <1>10 DEF TypeOK
  <1>12. /\ batch'[b].items = batch[b].items /\ batch'[b].sent
         /\ batch'[b].itemErr = batch[b].itemErr /\ batch'[b].results = "open"
         /\ batch'[b].next = batch[b].next /\ batch'[b].err = batch[b].err
         /\ batch'[b].rows = batch[b].rows /\ batch'[b].superseded = batch[b].superseded
         /\ batch'[b].closedNil = batch[b].closedNil
    BY <1>7, <1>8, <1>9
  <1> QED BY <1>1, <1>2, <1>3, <1>4, <1>5, <1>9, <1>10, <1>11, <1>12 DEF OneBatch

\* The items of a batch, up to the n-th.
LEMMA ItemsRan ==
    ASSUME TypeOK, NEW b \in Batches, NEW n \in 0..batch[b].items
    PROVE  /\ SubSeq(Items(b), 1, n) \in Seq(Statements) /\ Len(SubSeq(Items(b), 1, n)) = n
           /\ \A i \in 1..n : SubSeq(Items(b), 1, n)[i] = <<b, i>>
           /\ Items(b) = SubSeq(Items(b), 1, batch[b].items)
  <1> DEFINE k == batch[b].items
             f == Items(b)
  <1>1. k \in Nat
    BY BatchAssumption DEF TypeOK, BatchFields
  <1>2. f = [i \in 1..k |-> <<b, i>>]
    BY DEF Items
  <1> HIDE DEF f, k
  <1>3. f \in Seq(Statements) /\ Len(f) = k /\ \A i \in 1..k : f[i] = <<b, i>>
    <2>1. \A i \in 1..k : <<b, i>> \in Statements
      BY <1>1 DEF Statements
    <2> QED BY <1>1, <1>2, <2>1
  <1>4. n \in 0..k
    BY DEF k
  <1>5. /\ SubSeq(f, 1, n) \in Seq(Statements) /\ Len(SubSeq(f, 1, n)) = n
        /\ \A i \in 1..n : SubSeq(f, 1, n)[i] = f[i]
    BY <1>1, <1>3, <1>4
  <1>6. f = SubSeq(f, 1, k)
    BY <1>1, <1>3
  <1> QED BY <1>3, <1>4, <1>5, <1>6, <1>1 DEF f, k

\* The outcomes of the items when those after the i-th fail.
LEMMA FailAfterTypes ==
    ASSUME TypeOK, NEW b \in Batches, NEW n, NEW e \in Errors
    PROVE  /\ FailAfter(b, n, e) \in Seq(Outcome) /\ Len(FailAfter(b, n, e)) = batch[b].items
           /\ \A i \in 1..batch[b].items :
                 FailAfter(b, n, e)[i] = IF i > n THEN e ELSE "none"
  <1> DEFINE k == batch[b].items
             f == FailAfter(b, n, e)
  <1>1. k \in Nat
    BY BatchAssumption DEF TypeOK, BatchFields
  <1>2. f = [i \in 1..k |-> IF i > n THEN e ELSE "none"]
    BY DEF FailAfter
  <1> HIDE DEF f, k
  <1>3. f \in Seq(Outcome) /\ Len(f) = k /\ \A i \in 1..k : f[i] = IF i > n THEN e ELSE "none"
    BY <1>1, <1>2 DEF Outcome
  <1> QED BY <1>3 DEF f, k

\* The n items of batch b that follow its k-th join the work.
Ran(b, k, n) ==
    /\ Len(srv'.work) = Len(srv.work) + n
    /\ \A p \in 1..Len(srv.work) : srv'.work[p] = srv.work[p]
    /\ \A i \in 1..n : srv'.work[Len(srv.work) + i] = <<b, k + i>>

\* What was in the work still is, and so are the items that ran.
LEMMA RanWorks ==
    ASSUME srv \in SrvFields, NEW b, NEW k \in Nat, NEW n \in Nat, Ran(b, k, n)
    PROVE  /\ \A x : InWork(x) => InWork(x)'
           /\ \A i \in 1..n : InWork(<<b, k + i>>)'
           /\ \A p \in 1..Len(srv'.work) :
                 \/ p \in 1..Len(srv.work) /\ srv'.work[p] = srv.work[p]
                 \/ \E i \in 1..n : p = Len(srv.work) + i /\ srv'.work[p] = <<b, k + i>>
  <1>1. Len(srv.work) \in Nat
    BY DEF SrvFields
  <1>2. \A x : InWork(x) => InWork(x)'
    BY <1>1 DEF InWork, Ran
  <1>3. ASSUME NEW i \in 1..n PROVE InWork(<<b, k + i>>)'
    <2>1. Len(srv.work) + i \in 1..Len(srv'.work)
      BY <1>1 DEF Ran
    <2>2. srv'.work[Len(srv.work) + i] = <<b, k + i>>
      BY DEF Ran
    <2> QED BY <2>1, <2>2 DEF InWork
  <1>4. ASSUME NEW p \in 1..Len(srv'.work), p \notin 1..Len(srv.work)
        PROVE  \E i \in 1..n : p = Len(srv.work) + i /\ srv'.work[p] = <<b, k + i>>
    <2>1. PICK i \in 1..n : p = Len(srv.work) + i
      <3>1. p - Len(srv.work) \in 1..n /\ p = Len(srv.work) + (p - Len(srv.work))
        BY <1>1, <1>4 DEF Ran
      <3> QED BY <3>1
    <2> QED BY <2>1 DEF Ran
  <1>5. \A p \in 1..Len(srv.work) : srv'.work[p] = srv.work[p]
    BY DEF Ran
  <1> QED BY <1>2, <1>3, <1>4, <1>5

\* A pipelined send that returns.
PipelineAnswers == PipelineNotSent \/ PipelineSends \/ PipelineCloseFails

\* What a pipelined send did: n items ran, and the outcomes say so of the first m.
Answered(b, n, m, e) ==
    /\ PipelineReturns(b, FailAfter(b, m, e))
    /\ m <= n
    /\ \/ hist' = hist /\ m = batch[b].items
       \/ hist' = Failure /\ m < batch[b].items
    /\ \/ srv' = srv /\ n = 0
       \/ /\ srv.tx = "active" \/ n = 0
          /\ ~Ended
          /\ \E st \in {srv.tx, "aborted"} :
                srv' = [srv EXCEPT !.work = @ \o SubSeq(Items(b), 1, n), !.tx = st]

\* Every case of the pipelined send is of that kind.
LEMMA PipelineCases ==
    ASSUME TxInv, PipelineAnswers, NEW b \in Batches, at.b = b
    PROVE  \E n \in 0..batch[b].items, m \in 0..batch[b].items, e \in Errors :
               Answered(b, n, m, e)
  <1>1. /\ TypeOK /\ at.call = "pipeline" /\ batch[b].items > 0 /\ srv.tx # "lost"
        /\ srv \in SrvFields /\ batch[b] \in BatchFields
    BY TypeFields DEF TxInv, CallInv, EndInv, PipelineAnswers, PipelineNotSent, PipelineSends,
                      PipelineCloseFails
  <1>2. batch[b].items \in Nat /\ 0 \in 0..batch[b].items
        /\ batch[b].items \in 0..batch[b].items
    BY <1>1, BatchAssumption DEF BatchFields
  <1>3. "error" \in Errors
    BY DEF Errors
  <1>4. CASE PipelineNotSent
    <2>1. Answered(b, 0, 0, "error")
      BY <1>1, <1>2, <1>4 DEF PipelineNotSent, Answered
    <2> QED BY <1>2, <1>3, <2>1
  <1>5. CASE PipelineSends
    <2>1. ~Ended
      BY <1>5 DEF PipelineSends, PipelineMaySend
    <2>2. PICK n \in 0..batch[b].items, e \in Errors :
             /\ srv.tx # "aborted" \/ n = 0
             /\ srv' = [srv EXCEPT !.work = @ \o SubSeq(Items(b), 1, n),
                                   !.tx = IF n = batch[b].items THEN @ ELSE "aborted"]
             /\ hist' = IF n = batch[b].items THEN hist ELSE Failure
             /\ PipelineReturns(b, FailAfter(b, n, e))
      BY <1>5, <2>1 DEF PipelineSends
    <2>3. srv.tx = "active" \/ n = 0
      BY <1>1, <2>1, <2>2 DEF Ended, SrvFields, SrvStates
    <2>4. \E st \in {srv.tx, "aborted"} :
             srv' = [srv EXCEPT !.work = @ \o SubSeq(Items(b), 1, n), !.tx = st]
      <3>1. CASE n = batch[b].items
        BY <2>2, <3>1
      <3>2. CASE n # batch[b].items
        BY <2>2, <3>2
      <3> QED BY <3>1, <3>2
    <2>5. \/ hist' = hist /\ n = batch[b].items
          \/ hist' = Failure /\ n < batch[b].items
      BY <1>2, <2>2
    <2>6. Answered(b, n, n, e)
      <3>1. n <= n
        BY <1>2
      <3> QED BY <2>1, <2>2, <2>3, <2>4, <2>5, <3>1 DEF Answered
    <2> QED BY <2>6
  <1>6. CASE PipelineCloseFails
    <2>1. /\ srv' = [srv EXCEPT !.work = @ \o Items(b), !.tx = "aborted"]
          /\ hist' = Failure /\ PipelineReturns(b, FailAfter(b, 0, "error"))
          /\ srv.tx = "active"
      BY <1>6 DEF PipelineCloseFails
    <2>2. Items(b) = SubSeq(Items(b), 1, batch[b].items)
      BY <1>1, <1>2, ItemsRan
    <2>3. \E st \in {srv.tx, "aborted"} :
             srv' = [srv EXCEPT !.work = @ \o SubSeq(Items(b), 1, batch[b].items), !.tx = st]
      BY <2>1, <2>2
    <2>4. Answered(b, batch[b].items, 0, "error")
      <3>1. 0 <= batch[b].items /\ 0 < batch[b].items /\ ~Ended
        BY <1>1, <1>2, <2>1 DEF Ended
      <3> QED BY <2>1, <2>3, <3>1 DEF Answered
    <2> QED BY <1>2, <1>3, <2>4
  <1> QED BY <1>4, <1>5, <1>6 DEF PipelineAnswers

\* A pipelined send that returns: every item has an outcome, and an item without
\* an error ran.
LEMMA PipelineEffects ==
    ASSUME TxInv, PipelineAnswers, NEW b \in Batches, at.b = b
    PROVE  /\ OneBatch(b) /\ UNCHANGED <<tx, other>> /\ at.call = "pipeline" /\ at' = Idle
           /\ batch'[b].sent = batch[b].sent /\ batch'[b].items = batch[b].items
           /\ batch'[b].results = batch[b].results
           /\ batch'[b].next = batch[b].next /\ batch'[b].err = batch[b].err
           /\ batch'[b].rows = batch[b].rows /\ batch'[b].superseded = batch[b].superseded
           /\ batch'[b].closedNil = batch[b].closedNil
           /\ batch[b].itemErr = <<>> /\ Len(batch'[b].itemErr) = batch[b].items
           /\ batch[b].items \in Nat /\ batch[b].items > 0
           /\ \E n \in 0..batch[b].items :
                 /\ Ran(b, 0, n) /\ (n = 0 => srv'.work = srv.work)
                 /\ srv.tx = "active" \/ n = 0
                 /\ \A i \in 1..batch[b].items : batch'[b].itemErr[i] = "none" => i <= n
           /\ \/ srv'.tx = srv.tx
              \/ srv'.tx = "aborted" /\ ~Ended
           /\ srv'.stray = srv.stray
           /\ hist'.plain = hist.plain /\ hist'.dropped = hist.dropped
           /\ hist'.failed => \/ hist.failed
                              \/ \E i \in 1..batch[b].items : batch'[b].itemErr[i] # "none"
  <1>1. /\ TypeOK /\ at.call = "pipeline" /\ batch[b].items > 0 /\ batch[b].itemErr = <<>>
        /\ srv \in SrvFields /\ tx \in TxFields /\ hist \in HistFields
        /\ batch \in [Batches -> BatchFields] /\ batch[b] \in BatchFields
    BY TypeFields DEF TxInv, CallInv, PipelineAnswers, PipelineNotSent, PipelineSends,
                      PipelineCloseFails
  <1>2. batch[b].items \in Nat /\ Len(srv.work) \in Nat /\ srv.work \in Seq(Statements)
    BY <1>1, BatchAssumption DEF BatchFields, SrvFields
  <1>3. PICK n \in 0..batch[b].items, m \in 0..batch[b].items, e \in Errors :
           Answered(b, n, m, e)
    BY PipelineCases
  <1>a. /\ PipelineReturns(b, FailAfter(b, m, e)) /\ m <= n
        /\ \/ hist' = hist /\ m = batch[b].items
           \/ hist' = Failure /\ m < batch[b].items
    BY <1>3 DEF Answered
  <1> DEFINE f == FailAfter(b, m, e)
             r == [batch[b] EXCEPT !.itemErr = f]
             ran == SubSeq(Items(b), 1, n)
             w == srv.work \o ran
  <1>4. /\ batch' = [batch EXCEPT ![b] = r] /\ at' = Idle
        /\ UNCHANGED <<autoErr, driver, tx, other>>
    BY <1>1, <1>a DEF PipelineReturns
  <1>5. /\ f \in Seq(Outcome) /\ Len(f) = batch[b].items
        /\ \A i \in 1..batch[b].items : f[i] = IF i > m THEN e ELSE "none"
    BY <1>1, FailAfterTypes
  <1>6. e # "none"
    BY DEF Errors
  <1> HIDE DEF f
  <1>7. /\ r \in BatchFields /\ r.items = batch[b].items /\ r.sent = batch[b].sent
        /\ r.itemErr = f /\ r.results = batch[b].results
        /\ r.next = batch[b].next /\ r.err = batch[b].err
        /\ r.rows = batch[b].rows /\ r.superseded = batch[b].superseded
        /\ r.closedNil = batch[b].closedNil
    BY <1>1, <1>5 DEF BatchFields
  <1> HIDE DEF r
  <1>8. /\ batch' \in [Batches -> BatchFields] /\ batch'[b] = r
        /\ \A c \in Batches \ {b} : batch'[c] = batch[c]
    BY <1>1, <1>4, <1>7, BatchTypes
  <1>9. ran \in Seq(Statements) /\ Len(ran) = n /\ \A i \in 1..n : ran[i] = <<b, i>>
    BY <1>1, ItemsRan
  <1> HIDE DEF ran
  <1>10. /\ w \in Seq(Statements) /\ Len(w) = Len(srv.work) + n
         /\ \A p \in 1..Len(srv.work) : w[p] = srv.work[p]
         /\ \A i \in 1..n : w[Len(srv.work) + i] = ran[i]
    <2>1. w \in Seq(Statements) /\ Len(w) = Len(srv.work) + Len(ran)
      BY <1>2, <1>9, ConcatProperties
    <2>2. \A p \in 1..(Len(srv.work) + Len(ran)) :
             w[p] = IF p <= Len(srv.work) THEN srv.work[p] ELSE ran[p - Len(srv.work)]
      BY <1>2, <1>9, ConcatProperties
    <2> HIDE DEF w
    <2>3. \A p \in 1..Len(srv.work) : w[p] = srv.work[p]
      BY <1>2, <1>9, <2>2
    <2>4. ASSUME NEW i \in 1..n PROVE w[Len(srv.work) + i] = ran[i]
      <3>1. /\ Len(srv.work) + i \in 1..(Len(srv.work) + Len(ran))
            /\ ~(Len(srv.work) + i <= Len(srv.work))
            /\ (Len(srv.work) + i) - Len(srv.work) = i
        BY <1>2, <1>9
      <3> QED BY <2>2, <3>1
    <2> QED BY <1>9, <2>1, <2>3, <2>4
  <1>b. n = 0 => w = srv.work
    <2>1. ASSUME n = 0 PROVE ran = <<>>
      BY <1>9, <2>1
    <2> QED BY <1>2, <2>1
  <1> HIDE DEF w
  <1>11. /\ srv' \in SrvFields
         /\ \/ srv'.tx = srv.tx
            \/ srv'.tx = "aborted" /\ ~Ended
         /\ srv'.stray = srv.stray /\ srv'.work = w /\ (srv.tx = "active" \/ n = 0)
    <2>1. CASE srv' = srv /\ n = 0
      BY <1>1, <1>b, <2>1
    <2>2. ASSUME NEW st \in {srv.tx, "aborted"}, ~Ended, srv.tx = "active" \/ n = 0,
                 srv' = [srv EXCEPT !.work = w, !.tx = st]
          PROVE  /\ srv' \in SrvFields
                 /\ srv'.tx = srv.tx \/ (srv'.tx = "aborted" /\ ~Ended)
                 /\ srv'.work = w /\ srv'.stray = srv.stray
      <3> DEFINE v == [srv EXCEPT !.work = w]
      <3>1. v \in SrvFields /\ v.work = w /\ v.stray = srv.stray
        BY <1>1, <1>10 DEF SrvFields
      <3>2. srv' = [v EXCEPT !.tx = st]
        BY <1>1, <2>2 DEF SrvFields
      <3>3. st \in SrvStates
        BY <1>1 DEF SrvFields, SrvStates
      <3> HIDE DEF v
      <3>4. /\ srv' \in SrvFields /\ srv'.work = v.work /\ srv'.tx = st
              /\ srv'.stray = v.stray
        BY <3>1, <3>2, <3>3 DEF SrvFields
      <3> QED BY <2>2, <3>1, <3>4
    <2>3. \/ srv' = srv /\ n = 0
          \/ /\ srv.tx = "active" \/ n = 0
             /\ ~Ended
             /\ \E st \in {srv.tx, "aborted"} : srv' = [srv EXCEPT !.work = w, !.tx = st]
      BY <1>3 DEF Answered, w, ran
    <2> QED BY <2>1, <2>2, <2>3
  <1>12. Ran(b, 0, n) /\ (n = 0 => srv'.work = srv.work)
    <2>1. \A i \in 1..n : <<b, i>> = <<b, 0 + i>>
      OBVIOUS
    <2> QED BY <1>9, <1>10, <1>11, <1>b, <2>1 DEF Ran
  <1>13. /\ hist' \in HistFields /\ hist'.plain = hist.plain /\ hist'.dropped = hist.dropped
         /\ hist'.failed => hist.failed \/ m < batch[b].items
    BY <1>1, <1>a, HistTypes
  <1>14. TypeOK'
    BY <1>1, <1>4, <1>8, <1>11, <1>13 DEF TypeOK, HistFields, Idle
  <1>15. /\ batch'[b].sent = batch[b].sent /\ batch'[b].items = batch[b].items
         /\ batch'[b].results = batch[b].results
         /\ batch'[b].next = batch[b].next /\ batch'[b].err = batch[b].err
         /\ batch'[b].rows = batch[b].rows /\ batch'[b].superseded = batch[b].superseded
         /\ batch'[b].closedNil = batch[b].closedNil
         /\ batch'[b].itemErr = f
    BY <1>7, <1>8
  <1>16. \A i \in 1..batch[b].items : f[i] = "none" => i <= n
    BY <1>2, <1>a, <1>5, <1>6
  <1>17. hist'.failed => hist.failed \/ \E i \in 1..batch[b].items : f[i] # "none"
    <2>1. ASSUME m < batch[b].items PROVE f[m + 1] # "none" /\ m + 1 \in 1..batch[b].items
      BY <1>2, <1>5, <1>6, <2>1
    <2> QED BY <1>13, <2>1
  <1>19. OneBatch(b)
    BY <1>4, <1>8, <1>14 DEF OneBatch
  <1>20. \E k \in 0..batch[b].items :
            /\ Ran(b, 0, k) /\ (k = 0 => srv'.work = srv.work)
            /\ srv.tx = "active" \/ k = 0
            /\ \A i \in 1..batch[b].items : f[i] = "none" => i <= k
    BY <1>11, <1>12, <1>16
  <1> QED BY <1>1, <1>2, <1>4, <1>5, <1>11, <1>13, <1>15, <1>17, <1>19, <1>20

-----------------------------------------------------------------------------
(* Steps that move a batch on *)

\* The items of a batch that were issued, the one under way apart.
Executed(b) == IF tx.batchExecuting /\ at.b = b THEN batch[b].next - 1 ELSE batch[b].next

\* The batch that holds the transaction has an item, or a send, that failed.
FailedBatch ==
    /\ tx.openBatch # NoBatch
    /\ \/ batch[tx.openBatch].results = "unreachable"
       \/ \E i \in 1..Len(batch[tx.openBatch].itemErr) :
             batch[tx.openBatch].itemErr[i] # "none"

\* The transaction is held by the batch whose results are open, and by no other.
OpenInv ==
    /\ \A b \in Batches : batch[b].results \in {"open", "unreachable"} <=> tx.openBatch = b
    /\ tx.batchExecuting \/ at.call = "pipeline" => tx.openBatch = at.b
    /\ at.call \in {"pipeline", "close"} => batch[at.b].results \in {"open", "unopened"}

\* The work grows by the items of b that are next, and by nothing else.
WorkMoves(b) ==
    /\ OneBatch(b)
    /\ hist'.plain = hist.plain
    /\ other.call = "sending" \/ other'.call = "sending" => other' = other
    /\ tx'.row = tx.row
    /\ autoErr /\ tx.err # "none" => tx'.err # "none"
    /\ srv'.tx = "active" => srv.tx = "active"
    /\ srv'.tx = "lost" => srv.tx = "lost" \/ (~Pipelined /\ (autoErr => tx'.err # "none"))
    /\ \/ srv'.stray = srv.stray
       \/ srv.tx = "lost" /\ (autoErr => tx.err = "none")
    /\ batch[b].items <= batch'[b].items
    /\ \/ srv'.work = srv.work
       \/ srv'.work = <<>> /\ srv'.tx # "active"
       \/ /\ Pipelined /\ srv.tx = "active"
          /\ batch[b].itemErr = <<>> /\ batch'[b].itemErr # <<>>
          /\ \E n \in 0..batch[b].items : Ran(b, 0, n)
       \/ /\ ~Pipelined /\ srv.tx = "active" /\ batch[b].err = "none"
          /\ Executed(b) < batch[b].items /\ Ran(b, Executed(b), 1)
          /\ Executed(b)' = Executed(b) + 1
    /\ srv'.tx = "active" =>
          /\ batch'[b].itemErr = <<>> => batch[b].itemErr = <<>>
          /\ ~Pipelined /\ batch'[b].err = "none" =>
                batch[b].err = "none" /\ (srv'.work = srv.work => Executed(b)' = Executed(b))
    /\ \A c \in Batches \ {b} : Executed(c)' = Executed(c)

\* Every item of the batch took effect, as far as its results know.
AllRan(b) ==
    \/ batch[b].items = 0
    \/ /\ Pipelined /\ Len(batch[b].itemErr) = batch[b].items
       /\ \A i \in 1..batch[b].items : batch[b].itemErr[i] = "none"
    \/ ~Pipelined /\ batch[b].err = "none" /\ Executed(b) = batch[b].items
    \/ batch[b].results = "closed" /\ batch[b].err = "none"

\* Failures are recorded, or kept in the batch that holds the transaction, and
\* results close without one only when every item ran.
LedgerMoves(b) ==
    /\ batch[b].sent => batch'[b].items = batch[b].items
    /\ batch'[b].results = "closed" => batch[b].sent
    /\ autoErr =>
          /\ batch'[b].err # "none" => batch[b].err # "none" \/ tx'.err # "none"
          /\ hist'.dropped => hist.dropped \/ tx'.err # "none"
          /\ srv'.tx = "active" =>
                /\ hist'.failed => hist.failed \/ tx'.err # "none" \/ FailedBatch'
                /\ FailedBatch => FailedBatch' \/ tx'.err # "none"
    /\ srv'.tx = "active" =>
          /\ \/ batch'[b].itemErr = batch[b].itemErr
             \/ \A i \in 1..Len(batch'[b].itemErr) :
                   batch'[b].itemErr[i] = "none" => InWork(<<b, i>>)'
          /\ batch'[b].results = "closed" /\ batch'[b].err = "none" => AllRan(b)
          /\ batch'[b].closedNil =>
                batch[b].closedNil \/ (batch'[b].results = "closed" /\ batch'[b].err = "none")

\* A step on the results of a batch that was sent.
Touch(b) ==
    /\ OneBatch(b) /\ other' = other /\ hist'.plain = hist.plain
    /\ hist'.dropped = hist.dropped
    /\ batch[b].sent /\ batch'[b].sent /\ batch'[b].items = batch[b].items
    /\ batch'[b].itemErr = batch[b].itemErr
    /\ tx'.unsentBatches = tx.unsentBatches /\ tx'.row = tx.row
    /\ autoErr /\ tx.err # "none" => tx'.err # "none"

AtFields == [call : {"caller", "pipeline", "run", "close", "panic"},
             b : Batches \cup {NoBatch}, query : BOOLEAN]

\* The fields of a step on a batch that was sent.
LEMMA TouchTypes ==
    ASSUME TypeOK, UNCHANGED <<autoErr, driver, other>>, NEW b \in Batches, batch[b].sent,
           NEW r \in BatchFields, batch' = [batch EXCEPT ![b] = r],
           r.items = batch[b].items, r.sent = batch[b].sent, r.itemErr = batch[b].itemErr,
           srv' \in SrvFields, tx' \in TxFields, hist' \in HistFields, at' \in AtFields,
           hist'.plain = hist.plain, hist'.dropped = hist.dropped,
           tx'.unsentBatches = tx.unsentBatches, tx'.row = tx.row,
           autoErr /\ tx.err # "none" => tx'.err # "none"
    PROVE  Touch(b) /\ batch'[b] = r
  <1>1. /\ batch' \in [Batches -> BatchFields] /\ batch'[b] = r
        /\ \A c \in Batches \ {b} : batch'[c] = batch[c]
    BY TypeFields, BatchTypes
  <1>2. TypeOK'
    BY <1>1 DEF TypeOK, HistFields, AtFields
  <1> QED BY <1>1, <1>2 DEF Touch, OneBatch

\* Such a step keeps what holds of the items and of the count of batches.
LEMMA TouchKeeps ==
    ASSUME TxInv, NEW b \in Batches, Touch(b), batch'[b].next <= batch[b].items,
           batch'[b].results # "none",
           batch'[b].results = "unopened" =>
              batch[b].results = "unopened" /\ (batch[b].err # "none" => batch'[b].err # "none"),
           batch'[b].results = "open" => batch[b].results = "open",
           at' = at \/ (at.call # "pipeline" /\ at'.call # "pipeline")
    PROVE  ItemInv' /\ UnsentInv'
  <1>1. /\ ItemInv /\ UnsentInv /\ (Pipelined' <=> Pipelined)
        /\ \A c \in Batches \ {b} : batch'[c] = batch[c]
    BY DEF TxInv, Touch, OneBatch, Pipelined
  <1>2. ASSUME NEW c \in Batches PROVE ItemOK(c)'
    <2>1. CASE c = b
      BY <1>1, <2>1 DEF ItemInv, ItemOK, Touch
    <2>2. CASE c # b
      BY <1>1, <2>2 DEF ItemInv, ItemOK
    <2> QED BY <2>1, <2>2
  <1>3. Unsent' = Unsent
    BY <1>1 DEF Unsent, Touch
  <1> QED BY <1>1, <1>2, <1>3 DEF ItemInv, UnsentInv, Touch

\* A step that leaves the transaction alone.
LEMMA TouchWork ==
    ASSUME TxInv, NEW b \in Batches, Touch(b), srv' = srv,
           ~Pipelined /\ batch'[b].err = "none" =>
              batch[b].err = "none" /\ Executed(b)' = Executed(b),
           \A c \in Batches \ {b} : Executed(c)' = Executed(c)
    PROVE  WorkMoves(b)
  <1>1. batch[b].items <= batch[b].items
    BY BatchAssumption DEF TxInv, TypeOK, BatchFields
  <1>2. srv'.tx = "lost" => srv.tx = "lost"
    OBVIOUS
  <1> QED BY <1>1, <1>2 DEF WorkMoves, Touch

\* The failed item of the batch that holds the transaction stays where it is.
LEMMA FailedSame ==
    ASSUME TypeOK, NEW b \in Batches, Touch(b), tx'.openBatch = tx.openBatch,
           batch'[b].results = batch[b].results
    PROVE  FailedBatch' <=> FailedBatch
  <1>1. tx.openBatch \in Batches \cup {NoBatch}
    BY TypeFields
  <1>2. CASE tx.openBatch = NoBatch
    BY <1>2 DEF FailedBatch
  <1>3. CASE tx.openBatch \in Batches
    <2>1. /\ batch'[tx.openBatch].results = batch[tx.openBatch].results
          /\ batch'[tx.openBatch].itemErr = batch[tx.openBatch].itemErr
      BY <1>3 DEF Touch, OneBatch
    <2> QED BY <2>1 DEF FailedBatch
  <1> QED BY <1>1, <1>2, <1>3

\* A batch that can be read was sent, and neither it nor its transaction failed.
LEMMA ReadableBatch ==
    ASSUME TxInv, NEW b \in Batches, Readable(b)
    PROVE  /\ batch[b].sent /\ batch[b].results = "open" /\ batch[b].err = "none"
           /\ autoErr => tx.err = "none"
           /\ batch[b].next \in Nat /\ batch[b].items \in Nat
           /\ batch[b].next < batch[b].items
  <1>1. /\ batch[b] \in BatchFields /\ tx \in TxFields
    BY TypeFields DEF TxInv
  <1>2. batch[b].next \in Nat /\ batch[b].items \in Nat
    BY <1>1, BatchAssumption DEF BatchFields
  <1>3. batch[b].err = "none" /\ (autoErr => tx.err = "none")
    BY <1>1, DoomTypes DEF Readable
  <1>4. batch[b].results = "open" /\ batch[b].sent
    BY <1>2, <1>3 DEF Readable, HasResults, TxInv, ItemInv, ItemOK
  <1> QED BY <1>2, <1>3, <1>4 DEF Readable

\* What a step on batch b keeps.
Kept(b) == TxInv' /\ WorkMoves(b) /\ (OpenInv => OpenInv' /\ LedgerMoves(b))

\* An item of the batch begins to run.
LEMMA RunBeginsKeeps ==
    ASSUME TxInv, NEW b \in Batches, NEW query \in BOOLEAN, at.call = "caller",
           RunBegins(b, query)
    PROVE  Kept(b)
  <1> DEFINE s == Supersede(batch[b])
             k == batch[b].next + 1
             r == [s EXCEPT !.next = k]
  <1>1. /\ TypeOK /\ ~Pipelined /\ UNCHANGED <<autoErr, driver, srv, other, hist>>
        /\ tx' = [tx EXCEPT !.batchExecuting = TRUE]
        /\ at' = [call |-> "run", b |-> b, query |-> query]
        /\ srv \in SrvFields /\ tx \in TxFields /\ hist \in HistFields
        /\ batch \in [Batches -> BatchFields] /\ batch[b] \in BatchFields
        /\ ~tx.batchExecuting /\ CallInv /\ ItemInv /\ UnsentInv /\ EndInv
    BY TypeFields DEF RunBegins, TxInv, CallInv
  <1>2. /\ batch[b].sent /\ batch[b].results = "open" /\ batch[b].err = "none"
        /\ batch[b].next \in Nat /\ batch[b].items \in Nat
        /\ batch[b].next < batch[b].items
    BY ReadableBatch DEF RunBegins
  <1>3. /\ s \in BatchFields /\ s.items = batch[b].items /\ s.sent = batch[b].sent
        /\ s.itemErr = batch[b].itemErr /\ s.results = batch[b].results
        /\ s.next = batch[b].next /\ s.err = batch[b].err /\ s.closedNil = batch[b].closedNil
    BY <1>1, SupersedeTypes
  <1>4. batch' = [batch EXCEPT ![b] = r] /\ k \in Nat /\ k <= batch[b].items /\ k > 0
    BY <1>2, <1>3 DEF RunBegins
  <1> HIDE DEF s
  <1>a. k - 1 = batch[b].next
    BY <1>2
  <1> HIDE DEF k
  <1>5. /\ r \in BatchFields /\ r.items = s.items /\ r.sent = s.sent
        /\ r.itemErr = s.itemErr /\ r.results = s.results /\ r.next = k
        /\ r.err = s.err /\ r.closedNil = s.closedNil
    BY <1>3, <1>4 DEF BatchFields
  <1> HIDE DEF r
  <1>6. /\ tx' \in TxFields /\ tx'.batchExecuting /\ tx'.err = tx.err /\ tx'.row = tx.row
        /\ tx'.unsentBatches = tx.unsentBatches /\ tx'.openBatch = tx.openBatch
        /\ tx'.done = tx.done
    BY <1>1 DEF TxFields
  <1>7. at' \in AtFields /\ at'.call = "run" /\ at'.b = b
    BY <1>1 DEF AtFields
  <1>8. Touch(b) /\ batch'[b] = r
    BY <1>1, <1>2, <1>3, <1>4, <1>5, <1>6, <1>7, TouchTypes
  <1>9. /\ batch'[b].results = "open" /\ batch'[b].next = k /\ batch'[b].err = "none"
        /\ batch'[b].closedNil = batch[b].closedNil
    BY <1>2, <1>3, <1>5, <1>8
  <1>10. TxInv'
    <2>1. ItemInv' /\ UnsentInv'
      BY <1>1, <1>2, <1>4, <1>7, <1>8, <1>9, TouchKeeps
    <2>2. CallInv'
      BY <1>1, <1>2, <1>4, <1>6, <1>7, <1>8, <1>9, TypeFields
      DEF CallInv, Touch, OneBatch, Pipelined
    <2>3. EndInv' /\ TypeOK'
      BY <1>1, <1>6, <1>8 DEF EndInv, Ended, Pipelined, Touch, OneBatch
    <2> QED BY <2>1, <2>2, <2>3 DEF TxInv
  <1>11. WorkMoves(b)
    <2>1. Executed(b)' = Executed(b)
      BY <1>1, <1>6, <1>7, <1>9, <1>a DEF Executed
    <2>2. \A c \in Batches \ {b} : Executed(c)' = Executed(c)
      BY <1>1, <1>7, <1>8 DEF Executed, Touch, OneBatch
    <2> QED BY <1>1, <1>2, <1>8, <2>1, <2>2, TouchWork
  <1>12. ASSUME OpenInv PROVE OpenInv'
    BY <1>2, <1>6, <1>7, <1>8, <1>9, <1>12 DEF OpenInv, Touch, OneBatch
  <1>13. LedgerMoves(b)
    <2>1. FailedBatch' <=> FailedBatch
      BY <1>1, <1>2, <1>6, <1>8, <1>9, FailedSame
    <2> QED BY <1>1, <1>8, <1>9, <2>1 DEF LedgerMoves, Touch
  <1> QED BY <1>10, <1>11, <1>12, <1>13 DEF Kept

\* Close begins: the batch takes the transaction's error, if there is one.
LEMMA CloseSequentialKeeps ==
    ASSUME TxInv, NEW b \in Batches, at.call = "caller", CloseSequential(b)
    PROVE  Kept(b)
  <1> DEFINE s == Supersede(batch[b])
             r == Doom(s)
  <1>1. /\ TypeOK /\ ~Pipelined /\ UNCHANGED <<autoErr, driver, srv, tx, other, hist>>
        /\ at' = [Idle EXCEPT !.call = "close", !.b = b]
        /\ srv \in SrvFields /\ tx \in TxFields /\ hist \in HistFields
        /\ batch \in [Batches -> BatchFields] /\ batch[b] \in BatchFields
        /\ ~tx.batchExecuting /\ CallInv /\ ItemInv /\ UnsentInv /\ EndInv
        /\ batch' = [batch EXCEPT ![b] = r] /\ batch[b].results \in {"open", "unopened"}
    BY TypeFields DEF CloseSequential, TxInv, CallInv, HasResults
  <1>2. batch[b].sent /\ batch[b].next <= batch[b].items
    BY <1>1 DEF ItemInv, ItemOK
  <1>3. /\ s \in BatchFields /\ s.items = batch[b].items /\ s.sent = batch[b].sent
        /\ s.itemErr = batch[b].itemErr /\ s.results = batch[b].results
        /\ s.next = batch[b].next /\ s.err = batch[b].err /\ s.closedNil = batch[b].closedNil
    BY <1>1, SupersedeTypes
  <1> HIDE DEF s
  <1>4. /\ r \in BatchFields /\ r.items = s.items /\ r.sent = s.sent
        /\ r.itemErr = s.itemErr /\ r.results = s.results /\ r.next = s.next
        /\ r.closedNil = s.closedNil
        /\ r.err = (IF autoErr /\ s.err = "none" THEN tx.err ELSE s.err)
    BY <1>1, <1>3, DoomTypes
  <1> HIDE DEF r
  <1>5. at' \in AtFields /\ at'.call = "close" /\ at'.b = b
    <2>1. at' = [call |-> "close", b |-> b, query |-> FALSE]
      BY <1>1 DEF Idle
    <2> QED BY <2>1 DEF AtFields
  <1>6. Touch(b) /\ batch'[b] = r
    BY <1>1, <1>2, <1>3, <1>4, <1>5, TouchTypes
  <1>7. /\ batch'[b].results = batch[b].results /\ batch'[b].next = batch[b].next
        /\ batch'[b].err = "none" => batch[b].err = "none"
        /\ batch'[b].closedNil = batch[b].closedNil
        /\ autoErr /\ batch'[b].err # "none" => batch[b].err # "none" \/ tx.err # "none"
    BY <1>3, <1>4, <1>6
  <1>8. TxInv'
    <2>1. ItemInv' /\ UnsentInv'
      BY <1>1, <1>2, <1>5, <1>6, <1>7, TouchKeeps
    <2>2. CallInv'
      BY <1>1, <1>2, <1>5, <1>6, <1>7, TypeFields DEF CallInv, Touch, OneBatch, Pipelined
    <2>3. EndInv' /\ TypeOK'
      BY <1>1, <1>6 DEF EndInv, Ended, Pipelined, Touch, OneBatch
    <2> QED BY <2>1, <2>2, <2>3 DEF TxInv
  <1>9. WorkMoves(b)
    <2>1. \A c \in Batches : Executed(c)' = Executed(c)
      BY <1>1, <1>6, <1>7 DEF Executed, Touch, OneBatch
    <2> QED BY <1>1, <1>6, <1>7, <2>1, TouchWork
  <1>10. ASSUME OpenInv PROVE OpenInv'
    BY <1>1, <1>5, <1>6, <1>7, <1>10 DEF OpenInv, Touch, OneBatch
  <1>11. LedgerMoves(b)
    <2>1. FailedBatch' <=> FailedBatch
      BY <1>1, <1>6, <1>7, FailedSame
    <2> QED BY <1>1, <1>6, <1>7, <2>1 DEF LedgerMoves, Touch
  <1> QED BY <1>8, <1>9, <1>10, <1>11 DEF Kept

\* Close goes on to the next item.
LEMMA CloseRunsKeeps ==
    ASSUME TxInv, NEW b \in Batches, at.b = b, CloseRuns
    PROVE  Kept(b)
  <1> DEFINE k == batch[b].next + 1
             r == [batch[b] EXCEPT !.next = k]
  <1>1. /\ TypeOK /\ UNCHANGED <<autoErr, driver, srv, at, other, hist>>
        /\ tx' = [tx EXCEPT !.batchExecuting = TRUE] /\ at.call = "close"
        /\ ~tx.batchExecuting /\ CallInv /\ ItemInv /\ UnsentInv /\ EndInv
        /\ srv \in SrvFields /\ tx \in TxFields /\ hist \in HistFields /\ at \in AtFields
        /\ batch \in [Batches -> BatchFields] /\ batch[b] \in BatchFields
        /\ batch' = [batch EXCEPT ![b] = r] /\ batch[b].err = "none"
        /\ batch[b].next < batch[b].items
    BY TypeFields DEF CloseRuns, CloseHasMore, TxInv, TypeOK, AtFields
  <1>2. /\ ~Pipelined /\ batch[b].sent
        /\ batch[b].results # "none"
        /\ batch[b].next \in Nat /\ batch[b].items \in Nat
    BY <1>1, BatchAssumption DEF CallInv, ItemInv, ItemOK, BatchFields
  <1>3. k \in Nat /\ k <= batch[b].items /\ k > 0 /\ k - 1 = batch[b].next
    BY <1>1, <1>2
  <1>a. batch[b].results # "unopened"
    BY <1>1, <1>2 DEF ItemInv, ItemOK
  <1> HIDE DEF k
  <1>4. /\ r \in BatchFields /\ r.items = batch[b].items /\ r.sent = batch[b].sent
        /\ r.itemErr = batch[b].itemErr /\ r.results = batch[b].results /\ r.next = k
        /\ r.err = batch[b].err /\ r.closedNil = batch[b].closedNil
    BY <1>1, <1>3 DEF BatchFields
  <1> HIDE DEF r
  <1>5. /\ tx' \in TxFields /\ tx'.batchExecuting /\ tx'.err = tx.err /\ tx'.row = tx.row
        /\ tx'.unsentBatches = tx.unsentBatches /\ tx'.openBatch = tx.openBatch
        /\ tx'.done = tx.done
    BY <1>1 DEF TxFields
  <1>6. Touch(b) /\ batch'[b] = r
    BY <1>1, <1>2, <1>4, <1>5, TouchTypes
  <1>7. /\ batch'[b].results = batch[b].results /\ batch'[b].next = k
        /\ batch'[b].err = "none" /\ batch'[b].closedNil = batch[b].closedNil
    BY <1>1, <1>4, <1>6
  <1>8. TxInv'
    <2>1. ItemInv' /\ UnsentInv'
      BY <1>1, <1>2, <1>a, <1>3, <1>6, <1>7, TouchKeeps
    <2>2. CallInv'
      BY <1>1, <1>2, <1>3, <1>5, <1>6, <1>7, TypeFields DEF CallInv, Touch, OneBatch, Pipelined
    <2>3. EndInv' /\ TypeOK'
      BY <1>1, <1>5, <1>6 DEF EndInv, Ended, Pipelined, Touch, OneBatch
    <2> QED BY <2>1, <2>2, <2>3 DEF TxInv
  <1>9. WorkMoves(b)
    <2>1. Executed(b)' = Executed(b)
      BY <1>1, <1>3, <1>5, <1>7 DEF Executed
    <2>2. \A c \in Batches \ {b} : Executed(c)' = Executed(c)
      BY <1>1, <1>6 DEF Executed, Touch, OneBatch
    <2> QED BY <1>1, <1>6, <1>7, <2>1, <2>2, TouchWork
  <1>10. ASSUME OpenInv PROVE OpenInv' /\ LedgerMoves(b)
    <2>1. batch[b].results = "open" /\ tx.openBatch = b
      BY <1>1, <1>a, <1>10 DEF OpenInv
    <2>2. OpenInv'
      BY <1>1, <1>5, <1>6, <1>7, <1>10, <2>1 DEF OpenInv, Touch, OneBatch
    <2>3. FailedBatch' <=> FailedBatch
      BY <1>1, <1>5, <1>6, <1>7, FailedSame
    <2> QED BY <1>1, <1>6, <1>7, <2>1, <2>2, <2>3 DEF LedgerMoves, Touch
  <1> QED BY <1>8, <1>9, <1>10 DEF Kept

\* A pipelined item is read.
LEMMA ReadPipelinedKeeps ==
    ASSUME TxInv, NEW b \in Batches, NEW query \in BOOLEAN, at.call = "caller",
           ReadPipelined(b, query)
    PROVE  Kept(b)
  <1> DEFINE s == Supersede(batch[b])
             k == batch[b].next + 1
             v == [s EXCEPT !.next = k]
             e == batch[b].itemErr[k]
             r == IF e = "none" THEN [v EXCEPT !.rows = query] ELSE FailedWith(v, e)
  <1>1. /\ TypeOK /\ Pipelined /\ UNCHANGED <<autoErr, driver, srv, at, other, hist>>
        /\ srv \in SrvFields /\ tx \in TxFields /\ hist \in HistFields /\ at \in AtFields
        /\ batch \in [Batches -> BatchFields] /\ batch[b] \in BatchFields
        /\ ~tx.batchExecuting /\ CallInv /\ ItemInv /\ UnsentInv /\ EndInv
    BY TypeFields DEF ReadPipelined, TxInv, CallInv, TypeOK, AtFields
  <1>2. /\ batch[b].sent /\ batch[b].results = "open" /\ batch[b].err = "none"
        /\ batch[b].next \in Nat /\ batch[b].items \in Nat
        /\ batch[b].next < batch[b].items
    BY ReadableBatch DEF ReadPipelined
  <1>3. /\ s \in BatchFields /\ s.items = batch[b].items /\ s.sent = batch[b].sent
        /\ s.itemErr = batch[b].itemErr /\ s.results = batch[b].results
        /\ s.next = batch[b].next /\ s.err = batch[b].err /\ s.closedNil = batch[b].closedNil
    BY <1>1, SupersedeTypes
  <1>4. k \in Nat /\ k <= batch[b].items /\ k > 0 /\ k \in 1..batch[b].items
    BY <1>2
  <1>5. batch[b].itemErr \in Seq(Outcome) /\ Len(batch[b].itemErr) = batch[b].items
    BY <1>1, <1>2 DEF BatchFields, ItemInv, ItemOK
  <1>6. e \in Outcome
    BY <1>4, <1>5
  <1>a. [s EXCEPT !.next = @ + 1] = v
    BY <1>3
  <1> HIDE DEF s
  <1> HIDE DEF k
  <1>7. /\ v \in BatchFields /\ v.items = s.items /\ v.sent = s.sent
        /\ v.itemErr = s.itemErr /\ v.results = s.results /\ v.next = k
        /\ v.err = s.err /\ v.closedNil = s.closedNil
    BY <1>3, <1>4 DEF BatchFields
  <1>b. /\ batch' = [batch EXCEPT ![b] = r]
        /\ tx' = IF e = "none" THEN tx ELSE Recorded(tx, e)
    <2>1. v.itemErr[v.next] = e
      BY <1>3, <1>7
    <2> DEFINE x == [Supersede(batch[b]) EXCEPT !.next = @ + 1]
    <2>2. /\ batch' = [batch EXCEPT ![b] =
                IF x.itemErr[x.next] = "none" THEN [x EXCEPT !.rows = query]
                ELSE FailedWith(x, x.itemErr[x.next])]
          /\ tx' = IF x.itemErr[x.next] = "none" THEN tx
                   ELSE Recorded(tx, x.itemErr[x.next])
      BY DEF ReadPipelined
    <2>3. x = v
      BY <1>a DEF s
    <2> HIDE DEF x
    <2> HIDE DEF v, e
    <2> QED BY <2>1, <2>2, <2>3
  <1> HIDE DEF v, e
  <1>8. /\ r \in BatchFields /\ r.items = v.items /\ r.sent = v.sent
        /\ r.itemErr = v.itemErr /\ r.results = v.results /\ r.next = v.next
        /\ r.closedNil = v.closedNil /\ (r.err # "none" => v.err # "none" \/ e # "none")
    <2>1. CASE e = "none"
      <3>1. r = [v EXCEPT !.rows = query]
        BY <2>1
      <3> QED BY <1>7, <3>1 DEF BatchFields
    <2>2. CASE e # "none"
      BY <1>6, <1>7, <2>2, FailedTypes
    <2> QED BY <2>1, <2>2
  <1> HIDE DEF r
  <1>9. /\ tx' \in TxFields /\ tx'.row = tx.row /\ tx'.batchExecuting = tx.batchExecuting
        /\ tx'.unsentBatches = tx.unsentBatches /\ tx'.openBatch = tx.openBatch
        /\ tx'.done = tx.done /\ (autoErr /\ tx.err # "none" => tx'.err # "none")
        /\ autoErr /\ e # "none" => tx'.err # "none"
    BY <1>1, <1>6, <1>b, RecordedTypes
  <1>10. Touch(b) /\ batch'[b] = r
    BY <1>1, <1>2, <1>3, <1>7, <1>8, <1>9, <1>b, TouchTypes
  <1>11. /\ batch'[b].results = "open" /\ batch'[b].next = k
         /\ batch'[b].closedNil = batch[b].closedNil
         /\ autoErr /\ batch'[b].err # "none" => tx'.err # "none"
    BY <1>2, <1>3, <1>7, <1>8, <1>9, <1>10
  <1>12. TxInv'
    <2>1. ItemInv' /\ UnsentInv'
      BY <1>1, <1>2, <1>4, <1>10, <1>11, TouchKeeps
    <2>2. CallInv'
      BY <1>1, <1>2, <1>9, <1>10, <1>11, TypeFields DEF CallInv, Touch, OneBatch, Pipelined
    <2>3. EndInv' /\ TypeOK'
      BY <1>1, <1>9, <1>10 DEF EndInv, Ended, Pipelined, Touch, OneBatch
    <2> QED BY <2>1, <2>2, <2>3 DEF TxInv
  <1>13. WorkMoves(b)
    <2>1. \A c \in Batches \ {b} : Executed(c)' = Executed(c)
      BY <1>1, <1>9, <1>10 DEF Executed, Touch, OneBatch
    <2> QED BY <1>1, <1>10, <2>1, TouchWork
  <1>14. ASSUME OpenInv PROVE OpenInv'
    BY <1>1, <1>2, <1>9, <1>10, <1>11, <1>14 DEF OpenInv, Touch, OneBatch
  <1>15. LedgerMoves(b)
    <2>1. FailedBatch' <=> FailedBatch
      BY <1>1, <1>2, <1>9, <1>10, <1>11, FailedSame
    <2> QED BY <1>1, <1>10, <1>11, <2>1 DEF LedgerMoves, Touch
  <1> QED BY <1>12, <1>13, <1>14, <1>15 DEF Kept

\* Close is over: the results are closed and the transaction released.
LEMMA CloseEndsKeeps ==
    ASSUME TxInv, NEW b \in Batches, NEW r \in BatchFields, NEW t \in TxFields,
           CloseEnds(b, r, t), UNCHANGED <<autoErr, driver, srv, other, hist>>,
           batch[b].sent, at.call # "pipeline", ~tx.batchExecuting,
           r.items = batch[b].items, r.sent = batch[b].sent, r.itemErr = batch[b].itemErr,
           r.next = batch[b].next,
           r.err = "none" => batch[b].err = "none" /\ AllRan(b),
           autoErr /\ r.err # "none" => batch[b].err # "none" \/ t.err # "none",
           t.unsentBatches = tx.unsentBatches, t.row = tx.row, t.done = tx.done,
           t.openBatch = tx.openBatch, t.batchExecuting = tx.batchExecuting,
           autoErr /\ tx.err # "none" => t.err # "none",
           OpenInv /\ autoErr /\ FailedBatch /\ tx.openBatch = b => t.err # "none"
    PROVE  Kept(b)
  <1> DEFINE a == Abandoned(r)
             y == r.err = "none"
             v == [a EXCEPT !.closedNil = y]
  <1>1. /\ TypeOK /\ batch' = [batch EXCEPT ![b] = v] /\ tx' = Released(t, b) /\ at' = Idle
        /\ srv \in SrvFields /\ tx \in TxFields /\ hist \in HistFields
        /\ batch \in [Batches -> BatchFields] /\ batch[b] \in BatchFields
        /\ CallInv /\ ItemInv /\ UnsentInv /\ EndInv
    BY TypeFields DEF CloseEnds, TxInv
  <1>2. /\ a \in BatchFields /\ a.items = r.items /\ a.sent = r.sent /\ a.itemErr = r.itemErr
        /\ a.results = "closed" /\ a.next = r.next /\ a.err = r.err
    BY AbandonedTypes
  <1>3. y \in BOOLEAN /\ (y <=> r.err = "none")
    OBVIOUS
  <1> HIDE DEF a, y
  <1>4. /\ v \in BatchFields /\ v.items = a.items /\ v.sent = a.sent /\ v.itemErr = a.itemErr
        /\ v.results = "closed" /\ v.next = a.next /\ v.err = a.err /\ v.closedNil = y
    BY <1>2, <1>3 DEF BatchFields
  <1> HIDE DEF v
  <1>5. /\ tx' \in TxFields
        /\ tx'.openBatch = (IF t.openBatch = b THEN NoBatch ELSE t.openBatch)
        /\ tx'.err = t.err /\ tx'.unsentBatches = t.unsentBatches /\ tx'.row = t.row
        /\ tx'.done = t.done /\ tx'.batchExecuting = t.batchExecuting
    BY <1>1, ReleasedTypes
  <1>6. at' \in AtFields /\ at'.call = "caller"
    BY <1>1 DEF AtFields, Idle
  <1>7. Touch(b) /\ batch'[b] = v
    BY <1>1, <1>2, <1>4, <1>5, <1>6, TouchTypes
  <1>8. /\ batch'[b].results = "closed" /\ batch'[b].next = batch[b].next
        /\ batch'[b].err = r.err /\ (batch'[b].closedNil <=> r.err = "none")
    BY <1>2, <1>3, <1>4, <1>7
  <1>a. tx.openBatch \in Batches \cup {NoBatch} /\ NoBatch \notin Batches
    BY <1>1, TypeFields, BatchAssumption DEF Batches, NoBatch
  <1>9. TxInv'
    <2>1. ItemInv' /\ UnsentInv'
      <3>1. batch'[b].next <= batch[b].items
        BY <1>1, <1>8 DEF ItemInv, ItemOK
      <3> QED BY <1>6, <1>7, <1>8, <3>1, TouchKeeps
    <2>2. CallInv'
      BY <1>1, <1>5, <1>6, <1>7, <1>8, <1>a DEF CallInv, Touch, OneBatch, Pipelined
    <2>3. EndInv' /\ TypeOK'
      BY <1>1, <1>5, <1>7 DEF EndInv, Ended, Pipelined, Touch, OneBatch
    <2> QED BY <2>1, <2>2, <2>3 DEF TxInv
  <1>10. WorkMoves(b)
    <2>1. \A c \in Batches : Executed(c)' = Executed(c)
      BY <1>5, <1>7, <1>8 DEF Executed, Touch, OneBatch
    <2> QED BY <1>7, <1>8, <2>1, TouchWork
  <1>11. ASSUME OpenInv PROVE OpenInv' /\ LedgerMoves(b)
    <2>1. OpenInv'
      <3>1. \A c \in Batches : batch'[c].results \in {"open", "unreachable"} <=> tx'.openBatch = c
        <4>1. batch'[b].results \notin {"open", "unreachable"} /\ tx'.openBatch # b
          BY <1>5, <1>8, <1>a
        <4>2. ASSUME NEW c \in Batches, c # b
              PROVE  /\ batch'[c].results = batch[c].results
                     /\ tx'.openBatch = c <=> tx.openBatch = c
          BY <1>5, <1>7, <1>a, <4>2 DEF Touch, OneBatch
        <4> QED BY <1>11, <4>1, <4>2 DEF OpenInv
      <3> QED BY <1>5, <1>6, <3>1 DEF OpenInv
    <2>2. ASSUME autoErr, FailedBatch PROVE FailedBatch' \/ tx'.err # "none"
      <3>1. CASE tx.openBatch = b
        BY <1>5, <1>11, <2>2, <3>1
      <3>2. CASE tx.openBatch # b
        <4>1. tx'.openBatch = tx.openBatch /\ batch'[tx.openBatch] = batch[tx.openBatch]
          BY <1>5, <1>7, <1>a, <2>2, <3>2 DEF FailedBatch, Touch, OneBatch
        <4> QED BY <2>2, <4>1 DEF FailedBatch
      <3> QED BY <3>1, <3>2
    <2> QED BY <1>5, <1>7, <1>8, <2>1, <2>2 DEF LedgerMoves, Touch
  <1> QED BY <1>9, <1>10, <1>11 DEF Kept

\* Close has no more items to run.
LEMMA CloseReturnsKeeps ==
    ASSUME TxInv, NEW b \in Batches, at.b = b, CloseReturns
    PROVE  Kept(b)
  <1>1. /\ TypeOK /\ UNCHANGED <<autoErr, driver, srv, other, hist>>
        /\ CloseEnds(b, batch[b], tx) /\ at.call = "close" /\ ~tx.batchExecuting
        /\ CallInv /\ ItemInv /\ tx \in TxFields /\ batch[b] \in BatchFields
        /\ ~(batch[b].err = "none" /\ batch[b].next < batch[b].items)
    BY TypeFields DEF CloseReturns, CloseHasMore, TxInv
  <1>2. /\ batch[b].sent /\ ~Pipelined /\ batch[b].next <= batch[b].items
        /\ batch[b].itemErr = <<>> /\ batch[b].next \in Nat /\ batch[b].items \in Nat
    BY <1>1, BatchAssumption DEF CallInv, ItemInv, ItemOK, BatchFields
  <1>3. batch[b].err = "none" => AllRan(b)
    <2>1. batch[b].err = "none" => Executed(b) = batch[b].items
      BY <1>1, <1>2 DEF Executed
    <2> QED BY <1>2, <2>1 DEF AllRan
  <1>4. ASSUME OpenInv, FailedBatch, tx.openBatch = b PROVE FALSE
    <2>1. batch[b].results # "unreachable"
      BY <1>1, <1>4 DEF OpenInv
    <2>2. Len(batch[b].itemErr) = 0
      BY <1>2
    <2> QED BY <1>4, <2>1, <2>2 DEF FailedBatch
  <1> QED BY <1>1, <1>2, <1>3, <1>4, CloseEndsKeeps

\* There is a first failed item when an item failed.
LEMMA FirstErr ==
    ASSUME TypeOK, NEW b \in Batches
    PROVE  /\ FirstItemErr(b) \in Outcome
           /\ FirstItemErr(b) = "none" =>
                 \A i \in 1..Len(batch[b].itemErr) : batch[b].itemErr[i] = "none"
  <1> DEFINE f == batch[b].itemErr
             failed == {i \in 1..Len(f) : f[i] # "none"}
             R == OpToRel(<, Nat)
  <1>1. f \in Seq(Outcome) /\ Len(f) \in Nat
    BY DEF TypeOK, BatchFields
  <1>2. FirstItemErr(b) = IF failed = {} THEN "none"
                          ELSE f[CHOOSE i \in failed : \A j \in failed : i <= j]
    BY DEF FirstItemErr
  <1> HIDE DEF f
  <1>3. CASE failed = {}
    BY <1>2, <1>3 DEF Outcome, f
  <1>4. CASE failed # {}
    <2>1. failed \subseteq Nat
      OBVIOUS
    <2>2. PICK m \in failed : \A k \in failed : ~(<<k, m>> \in R)
      <3> HIDE DEF failed, R
      <3>1. IsWellFoundedOn(R, Nat)
        BY NatLessThanWellFounded DEF R
      <3> QED BY <1>4, <2>1, <3>1, WFMin
    <2>3. ASSUME NEW k \in failed PROVE m <= k
      <3>1. k \in Nat /\ m \in Nat
        BY <2>1
      <3>2. k < m => <<k, m>> \in R
        BY <3>1 DEF OpToRel
      <3>3. ~(k < m)
        <4> HIDE DEF R
        <4> QED BY <2>2, <3>2
      <3> HIDE DEF R
      <3> QED BY <3>1, <3>3
    <2> DEFINE c == CHOOSE i \in failed : \A j \in failed : i <= j
    <2>4. c \in failed
      BY <2>3
    <2>5. FirstItemErr(b) = f[c]
      BY <1>2, <1>4
    <2> HIDE DEF c
    <2>6. f[c] # "none" /\ f[c] \in Outcome
      BY <1>1, <2>4
    <2> QED BY <2>5, <2>6
  <1> QED BY <1>3, <1>4

\* Close of a pipelined batch: the first failed item is its answer.
LEMMA ClosePipelinedKeeps ==
    ASSUME TxInv, NEW b \in Batches, at.call = "caller", ClosePipelined(b)
    PROVE  Kept(b)
  <1> DEFINE s == Supersede(batch[b])
             d == Doom(s)
             e == FirstItemErr(b)
             r == IF e = "none" THEN d ELSE FailedWith(d, e)
             t == IF e = "none" THEN tx ELSE Recorded(tx, e)
  <1>1. /\ TypeOK /\ Pipelined /\ UNCHANGED <<autoErr, driver, srv, other, hist>>
        /\ tx \in TxFields /\ batch[b] \in BatchFields
        /\ ~tx.batchExecuting /\ ItemInv /\ batch[b].results \in {"open", "unopened"}
    BY TypeFields DEF ClosePipelined, TxInv, CallInv, HasResults
  <1>2. CloseEnds(b, r, t)
    BY DEF ClosePipelined
  <1>3. e \in Outcome /\ (e = "none" => \A i \in 1..Len(batch[b].itemErr) :
                                           batch[b].itemErr[i] = "none")
    BY <1>1, FirstErr
  <1> HIDE DEF e
  <1>4. /\ s \in BatchFields /\ s.items = batch[b].items /\ s.sent = batch[b].sent
        /\ s.itemErr = batch[b].itemErr /\ s.next = batch[b].next /\ s.err = batch[b].err
    BY <1>1, SupersedeTypes
  <1> HIDE DEF s
  <1>5. /\ d \in BatchFields /\ d.items = s.items /\ d.sent = s.sent
        /\ d.itemErr = s.itemErr /\ d.next = s.next
        /\ d.err = (IF autoErr /\ s.err = "none" THEN tx.err ELSE s.err)
    BY <1>1, <1>4, DoomTypes
  <1> HIDE DEF d
  <1>6. /\ r \in BatchFields /\ r.items = d.items /\ r.sent = d.sent
        /\ r.itemErr = d.itemErr /\ r.next = d.next
        /\ r.err = (IF d.err = "none" THEN e ELSE d.err)
    BY <1>3, <1>5, FailedTypes
  <1>7. /\ t \in TxFields /\ t.unsentBatches = tx.unsentBatches /\ t.row = tx.row
        /\ t.done = tx.done /\ t.openBatch = tx.openBatch
        /\ t.batchExecuting = tx.batchExecuting
        /\ autoErr => t.err = IF tx.err = "none" THEN e ELSE tx.err
    BY <1>1, <1>3, RecordedTypes
  <1> HIDE DEF r, t
  <1>8. batch[b].sent
    BY <1>1 DEF ItemInv, ItemOK
  <1>9. ASSUME r.err = "none" PROVE batch[b].err = "none" /\ AllRan(b)
    <2>1. batch[b].err = "none" /\ e = "none"
      BY <1>4, <1>5, <1>6, <1>9
    <2>2. CASE batch[b].results = "unopened"
      <3>1. batch[b].items \in Nat /\ ~(batch[b].items > 0)
        BY <1>1, <2>1, <2>2, BatchAssumption DEF ItemInv, ItemOK, BatchFields
      <3> QED BY <2>1, <3>1 DEF AllRan
    <2>3. CASE batch[b].results = "open"
      <3>1. Len(batch[b].itemErr) = batch[b].items
        BY <1>1, <2>3 DEF ItemInv, ItemOK
      <3> QED BY <1>1, <1>3, <2>1, <3>1 DEF AllRan
    <2> QED BY <1>1, <2>2, <2>3
  <1>10. ASSUME autoErr, FailedBatch, tx.openBatch = b PROVE t.err # "none"
    BY <1>1, <1>3, <1>7, <1>10 DEF FailedBatch
  <1>11. autoErr /\ r.err # "none" => batch[b].err # "none" \/ t.err # "none"
    BY <1>4, <1>5, <1>6, <1>7
  <1>12. /\ r.items = batch[b].items /\ r.sent = batch[b].sent
         /\ r.itemErr = batch[b].itemErr /\ r.next = batch[b].next
         /\ autoErr /\ tx.err # "none" => t.err # "none"
    BY <1>4, <1>5, <1>6, <1>7
  <1> QED BY <1>1, <1>2, <1>6, <1>7, <1>8, <1>9, <1>10, <1>11, <1>12, CloseEndsKeeps

\* What the item under way does to the transaction.
LEMMA RunTypes ==
    ASSUME TxInv, NEW b \in Batches, at.b = b, at.call \in {"run", "close"},
           tx.batchExecuting, NEW o \in RunOutcomes(b)
    PROVE  /\ o.srv \in SrvFields /\ o.err \in Outcome
           /\ \/ /\ o.err = "none" /\ srv.tx = "active" /\ o.srv.tx = "active"
                 /\ o.srv.work = Append(srv.work, <<b, batch[b].next>>)
                 /\ o.srv.stray = srv.stray
              \/ /\ o.err = "none" /\ srv.tx = "lost" /\ o.srv.tx = "lost"
                 /\ o.srv.work = srv.work /\ (autoErr => tx.err = "none")
              \/ /\ o.err # "none" /\ o.srv.stray = srv.stray
                 /\ \/ o.srv = srv
                    \/ srv.tx = "active" /\ o.srv.tx = "aborted" /\ o.srv.work = srv.work
                    \/ srv.tx = "active" /\ o.srv.tx = "lost" /\ o.srv.work = <<>>
  <1>1. srv \in SrvFields /\ tx \in TxFields /\ shortCircuit \in Outcome
        /\ batch[b] \in BatchFields
    BY TypeFields DEF TxInv
  <1>2. <<b, batch[b].next>> \in Statements
    BY <1>1 DEF BatchFields, Statements
  <1>3. CASE shortCircuit = "none"
    <2>1. o \in Exec(<<b, batch[b].next>>)
      BY <1>3 DEF RunOutcomes
    <2>2. autoErr => tx.err = "none"
      BY <1>3 DEF shortCircuit
    <2>3. /\ o.srv \in SrvFields /\ o.err \in Outcome
          /\ \/ /\ o.err = "none" /\ srv.tx = "active" /\ o.srv.tx = "active"
                /\ o.srv.work = Append(srv.work, <<b, batch[b].next>>)
                /\ o.srv.stray = srv.stray
             \/ /\ o.err = "none" /\ srv.tx = "lost" /\ o.srv.tx = "lost"
                /\ o.srv.work = srv.work
             \/ o.err # "none" /\ o.srv = srv
             \/ o.err # "none" /\ srv.tx = "active" /\ o.srv \in AfterFailure
      BY <1>1, <1>2, <2>1, ExecTypes
    <2>4. CASE o.err # "none" /\ srv.tx = "active" /\ o.srv \in AfterFailure
      BY <1>1, <2>3, <2>4, FailureTypes
    <2> QED BY <2>2, <2>3, <2>4
  <1>4. CASE shortCircuit # "none"
    BY <1>1, <1>4 DEF RunOutcomes
  <1> QED BY <1>3, <1>4

\* The item under way ends.
LEMMA RunEndsKeeps ==
    ASSUME TxInv, NEW b \in Batches, at.b = b, RunEnds
    PROVE  Kept(b)
  <1> DEFINE t == [tx EXCEPT !.batchExecuting = FALSE]
             k == batch[b].next - 1
  <1>1. /\ TypeOK /\ UNCHANGED <<autoErr, driver, other>>
        /\ at.call \in {"run", "close"} /\ tx.batchExecuting
        /\ at' = IF at.call = "run" THEN Idle ELSE at
        /\ srv \in SrvFields /\ tx \in TxFields /\ hist \in HistFields /\ at \in AtFields
        /\ batch \in [Batches -> BatchFields] /\ batch[b] \in BatchFields
        /\ CallInv /\ ItemInv /\ UnsentInv /\ EndInv
    BY TypeFields DEF RunEnds, TxInv, TypeOK, AtFields
  <1>2. /\ ~Pipelined /\ batch[b].sent /\ batch[b].results # "none"
        /\ batch[b].err = "none" /\ batch[b].itemErr = <<>>
        /\ batch[b].next \in Nat /\ batch[b].items \in Nat
        /\ batch[b].next > 0 /\ batch[b].next <= batch[b].items
    BY <1>1, BatchAssumption DEF CallInv, ItemInv, ItemOK, BatchFields
  <1>3. k \in Nat /\ k + 1 = batch[b].next /\ k < batch[b].items
    BY <1>2
  <1> HIDE DEF k
  <1>4. PICK o \in RunOutcomes(b) :
          /\ srv' = o.srv
          /\ hist' = IF o.err = "none" THEN hist ELSE Failure
          /\ tx' = IF o.err = "none" THEN t ELSE Recorded(t, o.err)
          /\ batch' = [batch EXCEPT ![b] =
                          IF o.err = "none" THEN [batch[b] EXCEPT !.rows = at.query]
                          ELSE FailedWith(batch[b], o.err)]
    BY DEF RunEnds
  <1> DEFINE r == IF o.err = "none" THEN [batch[b] EXCEPT !.rows = at.query]
                  ELSE FailedWith(batch[b], o.err)
  <1>5. /\ o.srv \in SrvFields /\ o.err \in Outcome
        /\ \/ /\ o.err = "none" /\ srv.tx = "active" /\ o.srv.tx = "active"
              /\ o.srv.work = Append(srv.work, <<b, batch[b].next>>)
              /\ o.srv.stray = srv.stray
           \/ /\ o.err = "none" /\ srv.tx = "lost" /\ o.srv.tx = "lost"
              /\ o.srv.work = srv.work /\ (autoErr => tx.err = "none")
           \/ /\ o.err # "none" /\ o.srv.stray = srv.stray
              /\ \/ o.srv = srv
                 \/ srv.tx = "active" /\ o.srv.tx = "aborted" /\ o.srv.work = srv.work
                 \/ srv.tx = "active" /\ o.srv.tx = "lost" /\ o.srv.work = <<>>
    BY <1>1, RunTypes
  <1>6. /\ t \in TxFields /\ ~t.batchExecuting /\ t.err = tx.err /\ t.row = tx.row
        /\ t.unsentBatches = tx.unsentBatches /\ t.openBatch = tx.openBatch
        /\ t.done = tx.done
    BY <1>1 DEF TxFields
  <1> HIDE DEF t
  <1>7. /\ tx' \in TxFields /\ ~tx'.batchExecuting /\ tx'.row = tx.row
        /\ tx'.unsentBatches = tx.unsentBatches /\ tx'.openBatch = tx.openBatch
        /\ tx'.done = tx.done /\ (autoErr /\ tx.err # "none" => tx'.err # "none")
        /\ autoErr /\ o.err # "none" => tx'.err # "none"
    BY <1>4, <1>5, <1>6, RecordedTypes
  <1>8. /\ r \in BatchFields /\ r.items = batch[b].items /\ r.sent = batch[b].sent
        /\ r.itemErr = batch[b].itemErr /\ r.results = batch[b].results
        /\ r.next = batch[b].next /\ r.closedNil = batch[b].closedNil /\ r.err = o.err
    <2>1. CASE o.err = "none"
      <3>1. r = [batch[b] EXCEPT !.rows = at.query] /\ at.query \in BOOLEAN
        BY <1>1, <2>1 DEF AtFields
      <3> HIDE DEF r
      <3> QED BY <1>1, <1>2, <2>1, <3>1 DEF BatchFields
    <2>2. CASE o.err # "none"
      <3>1. r = FailedWith(batch[b], o.err)
        BY <2>2
      <3> HIDE DEF r
      <3> QED BY <1>1, <1>2, <1>5, <3>1, FailedTypes
    <2> QED BY <2>1, <2>2
  <1>9. batch' = [batch EXCEPT ![b] = r]
    BY <1>4
  <1> HIDE DEF r
  <1>10. /\ hist' \in HistFields /\ hist'.plain = hist.plain /\ hist'.dropped = hist.dropped
         /\ hist'.failed => hist.failed \/ o.err # "none"
    BY <1>1, <1>4, HistTypes
  <1>11. /\ at' \in AtFields /\ at'.call \in {"caller", "close"}
         /\ at'.call = "close" => at' = at
    <2>1. CASE at.call = "run"
      BY <1>1, <2>1 DEF Idle, AtFields
    <2>2. CASE at.call # "run"
      BY <1>1, <2>2
    <2> QED BY <2>1, <2>2
  <1>12. Touch(b) /\ batch'[b] = r
    BY <1>1, <1>2, <1>4, <1>5, <1>7, <1>8, <1>9, <1>10, <1>11, TouchTypes
  <1>13. /\ batch'[b].results = batch[b].results /\ batch'[b].next = batch[b].next
         /\ batch'[b].closedNil = batch[b].closedNil /\ batch'[b].err = o.err
    BY <1>8, <1>12
  <1>14. TxInv'
    <2>1. ItemInv' /\ UnsentInv'
      BY <1>1, <1>2, <1>11, <1>12, <1>13, TouchKeeps
    <2>2. CallInv'
      <3>1. tx.openBatch # NoBatch => batch'[tx.openBatch].sent
        BY <1>1, <1>12, TypeFields DEF CallInv, Touch, OneBatch
      <3>2. other.call = "abandon" => other.b \in Batches /\ batch'[other.b].sent
        BY <1>1, <1>12 DEF CallInv, Touch, OneBatch
      <3>3. other.call = "sending" => other.n \in 1..hist'.plain
        BY <1>1, <1>10 DEF CallInv
      <3>4. Pipelined' <=> Pipelined
        BY <1>1 DEF Pipelined
      <3>5. at'.call = "close" => at'.b = b /\ batch'[b].sent
        BY <1>1, <1>11, <1>12 DEF Touch
      <3> QED BY <1>1, <1>2, <1>7, <1>11, <3>1, <3>2, <3>3, <3>4, <3>5 DEF CallInv
    <2>3. EndInv' /\ TypeOK'
      BY <1>1, <1>2, <1>4, <1>5, <1>7, <1>12
      DEF EndInv, Ended, Pipelined, Touch, OneBatch
    <2> QED BY <2>1, <2>2, <2>3 DEF TxInv
  <1>15. WorkMoves(b)
    <2>1. Executed(b) = k /\ Executed(b)' = batch[b].next
      BY <1>1, <1>7, <1>13 DEF Executed, k
    <2>2. \A c \in Batches \ {b} : Executed(c)' = Executed(c)
      BY <1>1, <1>7, <1>12 DEF Executed, Touch, OneBatch
    <2>3. CASE /\ o.err = "none" /\ srv.tx = "active" /\ o.srv.tx = "active"
               /\ o.srv.work = Append(srv.work, <<b, batch[b].next>>)
               /\ o.srv.stray = srv.stray
      <3>1. srv.work \in Seq(Statements) /\ Len(srv.work) \in Nat
        BY <1>1 DEF SrvFields
      <3>2. Ran(b, k, 1)
        <4>1. /\ Len(srv'.work) = Len(srv.work) + 1
              /\ srv'.work[Len(srv.work) + 1] = <<b, k + 1>>
              /\ \A p \in 1..Len(srv.work) : srv'.work[p] = srv.work[p]
          BY <1>3, <1>4, <2>3, <3>1
        <4>2. \A i \in 1..1 : i = 1
          OBVIOUS
        <4> QED BY <4>1, <4>2 DEF Ran
      <3>3. srv'.work # srv.work
        <4>1. Len(srv'.work) # Len(srv.work)
          BY <3>1, <3>2 DEF Ran
        <4> QED BY <4>1
      <3>4. /\ Executed(b) < batch[b].items /\ Executed(b)' = Executed(b) + 1
            /\ Ran(b, Executed(b), 1)
        BY <1>3, <2>1, <3>2
      <3>5. batch[b].items <= batch[b].items
        BY <1>2
      <3> QED BY <1>2, <1>4, <1>12, <1>13, <2>2, <2>3, <3>3, <3>4, <3>5 DEF WorkMoves, Touch
    <2>4. CASE /\ o.err = "none" /\ srv.tx = "lost" /\ o.srv.tx = "lost"
               /\ o.srv.work = srv.work /\ (autoErr => tx.err = "none")
      <3>1. batch[b].items <= batch[b].items
        BY <1>2
      <3> QED BY <1>2, <1>4, <1>12, <1>13, <2>2, <2>4, <3>1 DEF WorkMoves, Touch
    <2>5. CASE /\ o.err # "none" /\ o.srv.stray = srv.stray
               /\ \/ o.srv = srv
                  \/ srv.tx = "active" /\ o.srv.tx = "aborted" /\ o.srv.work = srv.work
                  \/ srv.tx = "active" /\ o.srv.tx = "lost" /\ o.srv.work = <<>>
      <3>1. batch[b].items <= batch[b].items
        BY <1>2
      <3>2. autoErr => tx'.err # "none"
        BY <1>7, <2>5
      <3> QED BY <1>2, <1>4, <1>12, <1>13, <2>2, <2>5, <3>1, <3>2 DEF WorkMoves, Touch
    <2> QED BY <1>5, <2>3, <2>4, <2>5
  <1>16. ASSUME OpenInv PROVE OpenInv' /\ LedgerMoves(b)
    <2>1. batch[b].results \in {"open", "unreachable"} /\ tx.openBatch = b
      BY <1>1, <1>16 DEF OpenInv
    <2>2. OpenInv'
      BY <1>1, <1>7, <1>11, <1>12, <1>13, <1>16, <2>1 DEF OpenInv, Touch, OneBatch
    <2>3. FailedBatch' <=> FailedBatch
      BY <1>1, <1>7, <1>12, <1>13, FailedSame
    <2> QED BY <1>7, <1>10, <1>12, <1>13, <2>1, <2>2, <2>3 DEF LedgerMoves, Touch
  <1> QED BY <1>14, <1>15, <1>16 DEF Kept

\* The item under way panics.
LEMMA RunPanicsKeeps ==
    ASSUME TxInv, NEW b \in Batches, at.b = b, RunPanics
    PROVE  Kept(b)
  <1> DEFINE x == [tx EXCEPT !.batchExecuting = FALSE]
             t == Recorded(x, "error")
             f == FailedWith(batch[b], "error")
             r == IF at.call = "close" THEN Abandoned(f) ELSE f
  <1>1. /\ TypeOK /\ UNCHANGED <<autoErr, driver, srv, other>>
        /\ at.call \in {"run", "close"} /\ tx.batchExecuting
        /\ at' = [Idle EXCEPT !.call = "panic"] /\ hist' = Failure
        /\ srv \in SrvFields /\ tx \in TxFields /\ hist \in HistFields
        /\ batch \in [Batches -> BatchFields] /\ batch[b] \in BatchFields
        /\ CallInv /\ ItemInv /\ UnsentInv /\ EndInv
    BY TypeFields DEF RunPanics, TxInv
  <1>2. /\ ~Pipelined /\ batch[b].sent /\ batch[b].results # "none"
        /\ batch[b].next <= batch[b].items
    BY <1>1 DEF CallInv, ItemInv, ItemOK
  <1>3. /\ tx' = IF at.call = "close" THEN Released(t, b) ELSE t
        /\ batch' = [batch EXCEPT ![b] = r]
    BY DEF RunPanics
  <1>4. /\ x \in TxFields /\ ~x.batchExecuting /\ x.err = tx.err /\ x.row = tx.row
        /\ x.unsentBatches = tx.unsentBatches /\ x.openBatch = tx.openBatch
        /\ x.done = tx.done
    BY <1>1 DEF TxFields
  <1> HIDE DEF x
  <1>5. "error" \in Outcome
    BY DEF Outcome, Errors
  <1>6. /\ t \in TxFields /\ t.err = (IF autoErr /\ x.err = "none" THEN "error" ELSE x.err)
        /\ ~t.batchExecuting /\ t.row = x.row
        /\ t.unsentBatches = x.unsentBatches /\ t.openBatch = x.openBatch
        /\ t.done = x.done
    BY <1>4, <1>5, RecordedTypes
  <1> HIDE DEF t
  <1>7. /\ tx' \in TxFields /\ ~tx'.batchExecuting /\ tx'.row = tx.row
        /\ tx'.unsentBatches = tx.unsentBatches /\ tx'.done = tx.done
        /\ autoErr => tx'.err # "none"
        /\ tx'.openBatch = IF at.call = "close" /\ tx.openBatch = b THEN NoBatch
                           ELSE tx.openBatch
    <2>1. CASE at.call = "close"
      BY <1>3, <1>4, <1>6, <2>1, ReleasedTypes
    <2>2. CASE at.call # "close"
      BY <1>3, <1>4, <1>6, <2>2
    <2> QED BY <2>1, <2>2
  <1>8. /\ f \in BatchFields /\ f.items = batch[b].items /\ f.sent = batch[b].sent
        /\ f.itemErr = batch[b].itemErr /\ f.results = batch[b].results
        /\ f.next = batch[b].next /\ f.closedNil = batch[b].closedNil /\ f.err # "none"
    BY <1>1, <1>5, FailedTypes
  <1> HIDE DEF f
  <1>9. /\ r \in BatchFields /\ r.items = batch[b].items /\ r.sent = batch[b].sent
        /\ r.itemErr = batch[b].itemErr
        /\ r.results = (IF at.call = "close" THEN "closed" ELSE batch[b].results)
        /\ r.next = batch[b].next /\ r.closedNil = batch[b].closedNil /\ r.err # "none"
    <2>1. CASE at.call = "close"
      BY <1>8, <2>1, AbandonedTypes
    <2>2. CASE at.call # "close"
      BY <1>8, <2>2
    <2> QED BY <2>1, <2>2
  <1> HIDE DEF r
  <1>10. hist' \in HistFields /\ hist'.plain = hist.plain /\ hist'.dropped = hist.dropped
    BY <1>1, HistTypes
  <1>11. at' \in AtFields /\ at'.call = "panic"
    <2>1. at' = [call |-> "panic", b |-> NoBatch, query |-> FALSE]
      BY <1>1 DEF Idle
    <2> QED BY <2>1 DEF AtFields
  <1>12. Touch(b) /\ batch'[b] = r
    BY <1>1, <1>2, <1>3, <1>7, <1>9, <1>10, <1>11, TouchTypes
  <1>13. /\ batch'[b].results = (IF at.call = "close" THEN "closed" ELSE batch[b].results)
         /\ batch'[b].next = batch[b].next
         /\ batch'[b].closedNil = batch[b].closedNil /\ batch'[b].err # "none"
    BY <1>9, <1>12
  <1>a. tx.openBatch \in Batches \cup {NoBatch} /\ NoBatch \notin Batches
    BY <1>1, TypeFields, BatchAssumption DEF Batches, NoBatch
  <1>14. TxInv'
    <2>1. ItemInv' /\ UnsentInv'
      BY <1>1, <1>2, <1>11, <1>12, <1>13, TouchKeeps
    <2>2. CallInv'
      <3>1. tx'.openBatch # NoBatch => batch'[tx'.openBatch].sent
        BY <1>1, <1>7, <1>12, <1>a DEF CallInv, Touch, OneBatch
      <3>2. other.call = "abandon" => other.b \in Batches /\ batch'[other.b].sent
        BY <1>1, <1>12 DEF CallInv, Touch, OneBatch
      <3>3. other.call = "sending" => other.n \in 1..hist'.plain
        BY <1>1, <1>10 DEF CallInv
      <3> QED BY <1>1, <1>7, <1>11, <3>1, <3>2, <3>3 DEF CallInv
    <2>3. EndInv' /\ TypeOK'
      BY <1>1, <1>7, <1>12 DEF EndInv, Ended, Pipelined, Touch, OneBatch
    <2> QED BY <2>1, <2>2, <2>3 DEF TxInv
  <1>15. WorkMoves(b)
    <2>1. \A c \in Batches \ {b} : Executed(c)' = Executed(c)
      BY <1>1, <1>7, <1>12 DEF Executed, Touch, OneBatch
    <2> QED BY <1>1, <1>12, <1>13, <2>1, TouchWork
  <1>16. ASSUME OpenInv PROVE OpenInv' /\ LedgerMoves(b)
    <2>1. batch[b].results \in {"open", "unreachable"} /\ tx.openBatch = b
      BY <1>1, <1>16 DEF OpenInv
    <2>2. \A c \in Batches : batch'[c].results \in {"open", "unreachable"} <=> tx'.openBatch = c
      <3>1. batch'[b].results \in {"open", "unreachable"} <=> tx'.openBatch = b
        BY <1>7, <1>13, <1>a, <2>1
      <3>2. ASSUME NEW c \in Batches, c # b
            PROVE  /\ batch'[c].results = batch[c].results /\ tx'.openBatch # c
                   /\ tx.openBatch # c
        BY <1>7, <1>12, <1>a, <2>1, <3>2 DEF Touch, OneBatch
      <3> QED BY <1>16, <3>1, <3>2 DEF OpenInv
    <2>3. OpenInv'
      BY <1>7, <1>11, <2>2 DEF OpenInv
    <2> QED BY <1>7, <1>10, <1>12, <1>13, <2>3 DEF LedgerMoves, Touch
  <1> QED BY <1>14, <1>15, <1>16 DEF Kept

\* A statement is queued.
LEMMA QueueKeeps ==
    ASSUME TxInv, NEW b \in Batches, at.call = "caller", Queue(b)
    PROVE  Kept(b)
  <1>1. /\ TypeOK /\ OneBatch(b) /\ UNCHANGED <<srv, at, other, hist>>
        /\ ~batch[b].sent /\ batch'[b].items = batch[b].items + 1
        /\ batch'[b].sent = batch[b].sent
        /\ batch'[b].itemErr = batch[b].itemErr /\ batch'[b].results = batch[b].results
        /\ batch'[b].next = batch[b].next /\ batch'[b].err = batch[b].err
        /\ batch'[b].rows = batch[b].rows /\ batch'[b].superseded = batch[b].superseded
        /\ batch'[b].closedNil = batch[b].closedNil
        /\ tx'.unsentBatches = IF batch[b].items = 0 THEN tx.unsentBatches + 1
                               ELSE tx.unsentBatches
        /\ tx'.err = tx.err /\ tx'.row = tx.row /\ tx'.done = tx.done
        /\ tx'.openBatch = tx.openBatch /\ tx'.batchExecuting = tx.batchExecuting
        /\ CallInv /\ ItemInv /\ UnsentInv /\ EndInv
    BY QueueEffects DEF TxInv
  <1>2. batch[b].items \in Nat /\ batch[b].next \in Nat /\ batch[b].next <= batch[b].items
    BY <1>1, BatchAssumption DEF TypeOK, BatchFields, ItemInv, ItemOK
  <1>3. UNCHANGED <<autoErr, driver>> /\ TypeOK' /\ (Pipelined' <=> Pipelined)
        /\ \A c \in Batches \ {b} : batch'[c] = batch[c]
    BY <1>1 DEF OneBatch, Pipelined
  <1>4. batch[b].results = "none" /\ batch[b].err = "none"
    BY <1>1 DEF ItemInv, ItemOK
  <1>5. ItemInv'
    <2>1. ASSUME NEW c \in Batches, c # b PROVE ItemOK(c)'
      BY <1>1, <1>3, <2>1 DEF ItemInv, ItemOK
    <2>2. ItemOK(b)'
      BY <1>1, <1>2, <1>3, <1>4 DEF ItemInv, ItemOK
    <2> QED BY <2>1, <2>2 DEF ItemInv
  <1>6. UnsentInv'
    <2>1. Unsent' = Unsent \cup {b}
      BY <1>1, <1>2, <1>3 DEF Unsent
    <2>2. IsFiniteSet(Unsent) /\ (b \in Unsent <=> batch[b].items # 0)
      BY <1>1, <1>2, UnsentRoom DEF Unsent
    <2>3. Cardinality(Unsent \cup {b}) = IF b \in Unsent THEN Cardinality(Unsent)
                                         ELSE Cardinality(Unsent) + 1
      BY <2>2, FS_AddElement
    <2> QED BY <1>1, <2>1, <2>2, <2>3 DEF UnsentInv
  <1>7. CallInv'
    BY <1>1, <1>3, TypeFields DEF CallInv
  <1>8. EndInv'
    BY <1>1, <1>3 DEF EndInv, Ended
  <1>9. TxInv'
    BY <1>3, <1>5, <1>6, <1>7, <1>8 DEF TxInv
  <1>10. WorkMoves(b)
    <2>1. \A c \in Batches : Executed(c)' = Executed(c)
      BY <1>1, <1>3 DEF Executed
    <2>2. batch[b].items <= batch'[b].items
      BY <1>1, <1>2
    <2> QED BY <1>1, <2>1, <2>2 DEF WorkMoves
  <1>11. ASSUME OpenInv PROVE OpenInv' /\ LedgerMoves(b)
    <2>1. OpenInv'
      BY <1>1, <1>3, <1>11 DEF OpenInv
    <2>2. FailedBatch' <=> FailedBatch
      <3>1. tx.openBatch # b
        BY <1>4, <1>11 DEF OpenInv
      <3>2. tx.openBatch # NoBatch => batch'[tx.openBatch] = batch[tx.openBatch]
        BY <1>1, <1>3, <3>1, TypeFields
      <3> QED BY <1>1, <3>2 DEF FailedBatch
    <2> QED BY <1>1, <1>3, <1>4, <2>1, <2>2 DEF LedgerMoves
  <1> QED BY <1>9, <1>10, <1>11 DEF Kept

\* A batch that is sent is no longer counted.
LEMMA SentUncounted ==
    ASSUME TxInv, NEW b \in Batches, ~batch[b].sent, batch'[b].sent,
           \A c \in Batches \ {b} : batch'[c] = batch[c],
           tx'.unsentBatches = IF batch[b].items > 0 THEN tx.unsentBatches - 1
                               ELSE tx.unsentBatches
    PROVE  UnsentInv'
  <1>1. Unsent' = Unsent \ {b}
    BY DEF Unsent
  <1>2. /\ IsFiniteSet(Unsent) /\ (b \in Unsent <=> batch[b].items > 0)
        /\ tx.unsentBatches = Cardinality(Unsent)
    BY UnsentRoom DEF Unsent, TxInv, UnsentInv
  <1>3. Cardinality(Unsent \ {b}) = IF b \in Unsent THEN Cardinality(Unsent) - 1
                                    ELSE Cardinality(Unsent)
    BY <1>2, FS_RemoveElement
  <1> QED BY <1>1, <1>2, <1>3 DEF UnsentInv

\* A Send that opens nothing.
LEMMA UnopenedKeeps ==
    ASSUME TxInv, NEW b \in Batches, at.call = "caller", SendUnopened(b)
    PROVE  Kept(b)
  <1>1. /\ TypeOK /\ OneBatch(b) /\ UNCHANGED <<srv, at, other>>
        /\ ~batch[b].sent /\ batch'[b].sent /\ batch'[b].items = batch[b].items
        /\ batch'[b].itemErr = batch[b].itemErr /\ batch'[b].results = "unopened"
        /\ batch'[b].next = batch[b].next
        /\ batch[b].items > 0 => batch'[b].err # "none"
        /\ batch'[b].closedNil = batch[b].closedNil
        /\ tx'.unsentBatches = IF batch[b].items > 0 THEN tx.unsentBatches - 1
                               ELSE tx.unsentBatches
        /\ tx'.row = tx.row /\ tx'.done = tx.done
        /\ tx'.openBatch = tx.openBatch /\ tx'.batchExecuting = tx.batchExecuting
        /\ autoErr /\ tx.err # "none" => tx'.err # "none"
        /\ autoErr /\ batch'[b].err # "none" => tx'.err # "none"
        /\ hist'.plain = hist.plain /\ hist'.failed = hist.failed
        /\ hist'.dropped => hist.dropped \/ batch'[b].err # "none"
        /\ CallInv /\ ItemInv /\ EndInv
    BY UnopenedEffects DEF TxInv
  <1>2. /\ batch[b].items \in Nat /\ batch[b].next <= batch[b].items
        /\ batch[b].results = "none" /\ batch[b].err = "none"
    BY <1>1, BatchAssumption DEF TypeOK, BatchFields, ItemInv, ItemOK
  <1>3. UNCHANGED <<autoErr, driver>> /\ TypeOK' /\ (Pipelined' <=> Pipelined)
        /\ \A c \in Batches \ {b} : batch'[c] = batch[c]
    BY <1>1 DEF OneBatch, Pipelined
  <1>4. ItemInv'
    <2>1. ASSUME NEW c \in Batches, c # b PROVE ItemOK(c)'
      BY <1>1, <1>3, <2>1 DEF ItemInv, ItemOK
    <2>2. ItemOK(b)'
      BY <1>1, <1>2, <1>3 DEF ItemInv, ItemOK
    <2> QED BY <2>1, <2>2 DEF ItemInv
  <1>5. UnsentInv'
    BY <1>1, <1>3, SentUncounted
  <1>6. CallInv'
    BY <1>1, <1>3, TypeFields DEF CallInv
  <1>7. EndInv'
    BY <1>1, <1>3 DEF EndInv, Ended
  <1>8. TxInv'
    BY <1>3, <1>4, <1>5, <1>6, <1>7 DEF TxInv
  <1>9. WorkMoves(b)
    <2>1. \A c \in Batches : Executed(c)' = Executed(c)
      BY <1>1, <1>3 DEF Executed
    <2>2. batch[b].items <= batch'[b].items
      BY <1>1, <1>2
    <2> QED BY <1>1, <1>2, <2>1, <2>2 DEF WorkMoves
  <1>10. ASSUME OpenInv PROVE OpenInv' /\ LedgerMoves(b)
    <2>1. tx.openBatch # b
      BY <1>2, <1>10 DEF OpenInv
    <2>2. OpenInv'
      BY <1>1, <1>3, <1>10, <2>1 DEF OpenInv
    <2>3. FailedBatch' <=> FailedBatch
      <3>1. tx.openBatch # NoBatch => batch'[tx.openBatch] = batch[tx.openBatch]
        BY <1>1, <1>3, <2>1, TypeFields
      <3> QED BY <1>1, <3>1 DEF FailedBatch
    <2> QED BY <1>1, <1>3, <2>2, <2>3 DEF LedgerMoves
  <1> QED BY <1>8, <1>9, <1>10 DEF Kept

\* A Send that opens the batch.
LEMMA OpensKeeps ==
    ASSUME TxInv, NEW b \in Batches, at.call = "caller", SendOpens(b)
    PROVE  Kept(b)
  <1>1. /\ TypeOK /\ OneBatch(b) /\ UNCHANGED <<srv, other, hist>>
        /\ ~batch[b].sent /\ batch'[b].sent /\ batch'[b].items = batch[b].items
        /\ batch[b].items > 0 /\ tx.openBatch = NoBatch /\ ~tx.batchExecuting
        /\ batch'[b].itemErr = batch[b].itemErr /\ batch'[b].results = "open"
        /\ batch'[b].next = batch[b].next /\ batch'[b].err = batch[b].err
        /\ batch'[b].closedNil = batch[b].closedNil
        /\ tx'.unsentBatches = tx.unsentBatches - 1 /\ tx'.openBatch = b
        /\ tx'.err = tx.err /\ tx'.row = tx.row /\ tx'.done = tx.done
        /\ tx'.batchExecuting = tx.batchExecuting
        /\ \/ Pipelined /\ at'.call = "pipeline" /\ at'.b = b
           \/ ~Pipelined /\ at' = at
        /\ CallInv /\ ItemInv /\ EndInv
    BY OpensEffects DEF TxInv
  <1>2. /\ batch[b].items \in Nat /\ batch[b].next <= batch[b].items
        /\ batch[b].results = "none" /\ batch[b].err = "none" /\ batch[b].itemErr = <<>>
    BY <1>1, BatchAssumption DEF TypeOK, BatchFields, ItemInv, ItemOK
  <1>3. UNCHANGED <<autoErr, driver>> /\ TypeOK' /\ (Pipelined' <=> Pipelined)
        /\ \A c \in Batches \ {b} : batch'[c] = batch[c]
    BY <1>1 DEF OneBatch, Pipelined
  <1>4. ItemInv'
    <2>1. ASSUME NEW c \in Batches, c # b PROVE ItemOK(c)'
      BY <1>1, <1>3, <2>1 DEF ItemInv, ItemOK
    <2>2. ItemOK(b)'
      BY <1>1, <1>2, <1>3 DEF ItemInv, ItemOK
    <2> QED BY <2>1, <2>2 DEF ItemInv
  <1>5. UnsentInv'
    BY <1>1, <1>3, SentUncounted
  <1>6. CallInv'
    BY <1>1, <1>2, <1>3 DEF CallInv
  <1>7. EndInv'
    BY <1>1, <1>3 DEF EndInv, Ended
  <1>8. TxInv'
    BY <1>3, <1>4, <1>5, <1>6, <1>7 DEF TxInv
  <1>9. WorkMoves(b)
    <2>1. \A c \in Batches : Executed(c)' = Executed(c)
      BY <1>1, <1>3 DEF Executed
    <2>2. batch[b].items <= batch'[b].items
      BY <1>1, <1>2
    <2> QED BY <1>1, <1>2, <2>1, <2>2 DEF WorkMoves
  <1>10. ASSUME OpenInv PROVE OpenInv' /\ LedgerMoves(b)
    <2>1. OpenInv'
      <3>0. NoBatch \notin Batches
        BY BatchAssumption DEF Batches, NoBatch
      <3>1. \A c \in Batches : batch'[c].results \in {"open", "unreachable"} <=> tx'.openBatch = c
        BY <1>1, <1>3, <1>10, <3>0 DEF OpenInv
      <3> QED BY <1>1, <3>1 DEF OpenInv
    <2>2. ~FailedBatch
      BY <1>1 DEF FailedBatch
    <2> QED BY <1>1, <1>3, <2>1, <2>2 DEF LedgerMoves
  <1> QED BY <1>8, <1>9, <1>10 DEF Kept

\* A pipelined send returns.
LEMMA PipelineKeeps ==
    ASSUME TxInv, NEW b \in Batches, at.b = b, PipelineAnswers
    PROVE  Kept(b)
  <1>1. /\ TypeOK /\ OneBatch(b) /\ UNCHANGED <<tx, other>>
        /\ at.call = "pipeline" /\ at' = Idle
        /\ batch'[b].sent = batch[b].sent /\ batch'[b].items = batch[b].items
        /\ batch'[b].results = batch[b].results
        /\ batch'[b].next = batch[b].next /\ batch'[b].err = batch[b].err
        /\ batch'[b].rows = batch[b].rows /\ batch'[b].superseded = batch[b].superseded
        /\ batch'[b].closedNil = batch[b].closedNil
        /\ batch[b].itemErr = <<>> /\ Len(batch'[b].itemErr) = batch[b].items
        /\ batch[b].items \in Nat /\ batch[b].items > 0
        /\ \/ srv'.tx = srv.tx
           \/ srv'.tx = "aborted" /\ ~Ended
        /\ srv'.stray = srv.stray
        /\ hist'.plain = hist.plain /\ hist'.dropped = hist.dropped
        /\ hist'.failed => \/ hist.failed
                           \/ \E i \in 1..batch[b].items : batch'[b].itemErr[i] # "none"
        /\ CallInv /\ ItemInv /\ UnsentInv /\ EndInv
    BY PipelineEffects DEF TxInv
  <1>2. PICK n \in 0..batch[b].items :
           /\ Ran(b, 0, n) /\ (n = 0 => srv'.work = srv.work)
           /\ srv.tx = "active" \/ n = 0
           /\ \A i \in 1..batch[b].items : batch'[b].itemErr[i] = "none" => i <= n
    BY PipelineEffects
  <1>3. UNCHANGED <<autoErr, driver>> /\ TypeOK' /\ (Pipelined' <=> Pipelined)
        /\ \A c \in Batches \ {b} : batch'[c] = batch[c]
    BY <1>1 DEF OneBatch, Pipelined
  <1>4. Pipelined /\ batch[b].sent /\ ~tx.batchExecuting
    BY <1>1 DEF CallInv
  <1>5. ItemInv'
    <2>1. ASSUME NEW c \in Batches, c # b PROVE ItemOK(c)'
      BY <1>1, <1>3, <2>1 DEF ItemInv, ItemOK
    <2>2. ItemOK(b)'
      BY <1>1, <1>3, <1>4 DEF ItemInv, ItemOK
    <2> QED BY <2>1, <2>2 DEF ItemInv
  <1>6. UnsentInv'
    <2>1. Unsent' = Unsent
      BY <1>1, <1>3 DEF Unsent
    <2> QED BY <1>1, <2>1 DEF UnsentInv
  <1>7. CallInv'
    <2>1. at'.call = "caller"
      BY <1>1 DEF Idle
    <2>2. \A c \in Batches : batch'[c].sent = batch[c].sent
      BY <1>1, <1>3
    <2> QED BY <1>1, <1>4, <2>1, <2>2, TypeFields DEF CallInv
  <1>8. EndInv'
    BY <1>1, <1>3 DEF EndInv, Ended
  <1>9. TxInv'
    BY <1>3, <1>5, <1>6, <1>7, <1>8 DEF TxInv
  <1>10. batch'[b].itemErr # <<>>
    BY <1>1
  <1>11. WorkMoves(b)
    <2>1. \A c \in Batches : Executed(c)' = Executed(c)
      BY <1>1, <1>3, <1>4 DEF Executed
    <2>2. batch[b].items <= batch'[b].items
      BY <1>1
    <2>3. \/ srv'.work = srv.work
          \/ srv.tx = "active" /\ \E m \in 0..batch[b].items : Ran(b, 0, m)
      BY <1>2
    <2>4. srv'.tx = "active" => srv.tx = "active"
      BY <1>1
    <2>5. srv'.tx = "lost" => srv.tx = "lost"
      BY <1>1
    <2> QED BY <1>1, <1>4, <1>10, <2>1, <2>2, <2>3, <2>4, <2>5 DEF WorkMoves
  <1>12. ASSUME OpenInv PROVE OpenInv' /\ LedgerMoves(b)
    <2>1. tx.openBatch = b /\ b # NoBatch
      BY <1>1, <1>12, BatchAssumption DEF OpenInv, Batches, NoBatch
    <2>2. OpenInv'
      BY <1>1, <1>3, <1>4, <1>12 DEF OpenInv, Idle
    <2>3. hist'.failed => hist.failed \/ FailedBatch'
      BY <1>1, <2>1 DEF FailedBatch
    <2>4. ~FailedBatch
      <3>1. Len(batch[b].itemErr) = 0
        BY <1>1
      <3>2. batch[b].results # "unreachable"
        BY <1>1, <1>12 DEF OpenInv
      <3> QED BY <2>1, <3>1, <3>2 DEF FailedBatch
    <2>5. \A i \in 1..Len(batch'[b].itemErr) :
             batch'[b].itemErr[i] = "none" => InWork(<<b, i>>)'
      <3>1. ASSUME NEW i \in 1..n PROVE InWork(<<b, i>>)'
        <4>1. 0 \in Nat /\ n \in Nat /\ 0 + i = i /\ srv \in SrvFields
          BY <1>1, TypeFields
        <4>2. InWork(<<b, 0 + i>>)'
          BY <1>2, <4>1, RanWorks
        <4> QED BY <4>1, <4>2
      <3> QED BY <1>1, <1>2, <3>1
    <2>6. batch[b].results # "closed"
      BY <1>1, <1>12 DEF OpenInv
    <2> QED BY <1>1, <1>3, <2>2, <2>3, <2>4, <2>5, <2>6 DEF LedgerMoves
  <1> QED BY <1>9, <1>11, <1>12 DEF Kept

\* A pipelined send panics: nobody holds the results, and the transaction is over.
LEMMA PipelinePanicsKeeps ==
    ASSUME TxInv, NEW b \in Batches, at.b = b, PipelinePanics
    PROVE  Kept(b) /\ srv'.tx \in {"committed", "rolledback"}
  <1> DEFINE r == [batch[b] EXCEPT !.results = "unreachable"]
  <1>1. /\ TypeOK /\ UNCHANGED <<autoErr, driver, tx, other>> /\ at.call = "pipeline"
        /\ at' = [Idle EXCEPT !.call = "panic"] /\ hist' = Failure
        /\ srv' = IF Ended THEN srv ELSE [srv EXCEPT !.tx = "rolledback"]
        /\ batch' = [batch EXCEPT ![b] = r]
        /\ srv \in SrvFields /\ tx \in TxFields /\ hist \in HistFields
        /\ batch \in [Batches -> BatchFields] /\ batch[b] \in BatchFields
        /\ CallInv /\ ItemInv /\ UnsentInv /\ EndInv
    BY TypeFields DEF PipelinePanics, TxInv
  <1>2. Pipelined /\ batch[b].sent /\ ~tx.batchExecuting /\ batch[b].next <= batch[b].items
    BY <1>1 DEF CallInv, ItemInv, ItemOK
  <1>3. /\ r \in BatchFields /\ r.items = batch[b].items /\ r.sent = batch[b].sent
        /\ r.itemErr = batch[b].itemErr /\ r.results = "unreachable"
        /\ r.next = batch[b].next /\ r.closedNil = batch[b].closedNil /\ r.err = batch[b].err
    BY <1>1 DEF BatchFields
  <1> HIDE DEF r
  <1>4. /\ srv' \in SrvFields /\ srv'.work = srv.work /\ srv'.stray = srv.stray
        /\ srv'.tx \in {"committed", "rolledback"} /\ (Ended => srv' = srv)
    <2>1. CASE Ended
      BY <1>1, <2>1 DEF Ended
    <2>2. CASE ~Ended
      BY <1>1, <2>2, SrvTypes DEF SrvStates
    <2> QED BY <2>1, <2>2
  <1>5. hist' \in HistFields /\ hist'.plain = hist.plain /\ hist'.dropped = hist.dropped
    BY <1>1, HistTypes
  <1>6. at' \in AtFields /\ at'.call = "panic"
    <2>1. at' = [call |-> "panic", b |-> NoBatch, query |-> FALSE]
      BY <1>1 DEF Idle
    <2> QED BY <2>1 DEF AtFields
  <1>7. Touch(b) /\ batch'[b] = r
    BY <1>1, <1>2, <1>3, <1>4, <1>5, <1>6, TouchTypes
  <1>8. /\ batch'[b].results = "unreachable" /\ batch'[b].next = batch[b].next
        /\ batch'[b].err = batch[b].err /\ batch'[b].closedNil = batch[b].closedNil
    BY <1>3, <1>7
  <1>9. TxInv'
    <2>1. UNCHANGED <<autoErr, driver>> /\ TypeOK' /\ (Pipelined' <=> Pipelined)
          /\ \A c \in Batches \ {b} : batch'[c] = batch[c]
      BY <1>7 DEF Touch, OneBatch, Pipelined
    <2>2. ItemInv'
      <3>1. ASSUME NEW c \in Batches, c # b PROVE ItemOK(c)'
        BY <1>1, <1>6, <2>1, <3>1 DEF ItemInv, ItemOK
      <3>2. ItemOK(b)'
        BY <1>1, <1>2, <1>7, <1>8, <2>1 DEF ItemInv, ItemOK, Touch
      <3> QED BY <3>1, <3>2 DEF ItemInv
    <2>3. UnsentInv'
      <3>1. Unsent' = Unsent
        BY <1>7, <2>1 DEF Unsent, Touch
      <3> QED BY <1>1, <3>1 DEF UnsentInv
    <2>4. CallInv'
      <3>1. \A c \in Batches : batch[c].sent => batch'[c].sent
        BY <1>2, <1>7, <2>1 DEF Touch
      <3> QED BY <1>1, <1>2, <1>5, <1>6, <3>1, TypeFields DEF CallInv
    <2>5. EndInv'
      BY <1>1, <1>4 DEF EndInv, Ended
    <2> QED BY <2>1, <2>2, <2>3, <2>4, <2>5 DEF TxInv
  <1>10. WorkMoves(b)
    <2>1. \A c \in Batches \ {b} : Executed(c)' = Executed(c)
      BY <1>1, <1>2, <1>7 DEF Executed, Touch, OneBatch
    <2>2. batch[b].items <= batch[b].items
      BY <1>1, BatchAssumption DEF BatchFields
    <2> QED BY <1>4, <1>7, <2>1, <2>2 DEF WorkMoves, Touch
  <1>11. ASSUME OpenInv PROVE OpenInv' /\ LedgerMoves(b)
    <2>1. tx.openBatch = b
      BY <1>1, <1>11 DEF OpenInv
    <2>2. OpenInv'
      BY <1>1, <1>2, <1>6, <1>7, <1>8, <1>11, <2>1 DEF OpenInv, Touch, OneBatch
    <2> QED BY <1>1, <1>4, <1>5, <1>7, <1>8, <2>2 DEF LedgerMoves, Touch
  <1> QED BY <1>4, <1>9, <1>10, <1>11 DEF Kept

\* What Rollback makes of the transaction: it is over.
LEMMA RollbackEnds ==
    ASSUME TxInv, Rollback
    PROVE  /\ srv' \in SrvFields /\ tx' \in TxFields
           /\ tx'.err = tx.err /\ tx'.unsentBatches = tx.unsentBatches
           /\ tx'.openBatch = NoBatch /\ tx'.batchExecuting = tx.batchExecuting
           /\ tx'.row = tx.row /\ srv'.work = srv.work /\ srv'.stray = srv.stray
           /\ srv'.tx \in {"committed", "rolledback"} /\ (Ended => srv'.tx = srv.tx)
           /\ ~Ended => srv'.tx = "rolledback"
  <1> DEFINE t == [tx EXCEPT !.openBatch = NoBatch]
  <1>1. srv \in SrvFields /\ tx \in TxFields /\ EndInv
    BY TypeFields DEF TxInv
  <1>2. /\ t \in TxFields /\ t.err = tx.err /\ t.unsentBatches = tx.unsentBatches
        /\ t.openBatch = NoBatch /\ t.batchExecuting = tx.batchExecuting
        /\ t.row = tx.row /\ t.done = tx.done
    BY <1>1 DEF TxFields
  <1>3. PICK o \in Finalize(t, SqlRollback) : tx' = o.tx /\ srv' = o.srv
    BY DEF Rollback, RollbackOutcomes
  <1> HIDE DEF t
  <1>4. \A q \in SqlRollback :
           /\ q.srv \in SrvFields /\ q.err \in Outcome
           /\ q.srv.work = srv.work /\ q.srv.stray = srv.stray
           /\ \/ Ended /\ q.srv = srv
              \/ ~Ended /\ q.srv.tx = "rolledback"
    BY <1>1, RollbackTypes
  <1>5. /\ o.tx \in TxFields
        /\ o.tx.err = t.err /\ o.tx.unsentBatches = t.unsentBatches
        /\ o.tx.openBatch = t.openBatch
        /\ o.tx.batchExecuting = t.batchExecuting /\ o.tx.row = t.row
        /\ \/ t.done /\ o.srv = srv
           \/ \E q \in SqlRollback : o.srv = q.srv
    BY <1>1, <1>2, <1>3, <1>4, FinalizeTypes
  <1>6. t.done => Ended
    BY <1>1, <1>2 DEF EndInv
  <1> QED BY <1>1, <1>2, <1>3, <1>4, <1>5, <1>6 DEF Ended

\* Rollback of a transaction that no batch holds.
LEMMA RollbackQuiet ==
    ASSUME TxInv, Rollback, tx.openBatch = NoBatch
    PROVE  Quiet
  <1>1. /\ TypeOK /\ UNCHANGED <<autoErr, driver, at, other, hist>> /\ batch' = batch
        /\ tx \in TxFields
    BY TypeFields DEF Rollback, AbandonOpen, TxInv
  <1>2. PICK o \in RollbackOutcomes : tx' = o.tx /\ srv' = o.srv
    BY DEF Rollback
  <1>3. [tx EXCEPT !.openBatch = NoBatch] = tx
    BY <1>1 DEF TxFields
  <1>4. o \in Finalize(tx, SqlRollback)
    BY <1>2, <1>3 DEF RollbackOutcomes
  <1> QED BY <1>1, <1>2, <1>4, EndQuiet

\* Rollback of a transaction that a batch holds: the results are abandoned.
LEMMA RollbackKeeps ==
    ASSUME TxInv, NEW b \in Batches, tx.openBatch = b, at.call = "caller", Rollback
    PROVE  Kept(b)
  <1> DEFINE r == Abandoned(batch[b])
  <1>1. /\ TypeOK /\ UNCHANGED <<autoErr, driver, at, other, hist>>
        /\ srv \in SrvFields /\ tx \in TxFields /\ hist \in HistFields /\ at \in AtFields
        /\ batch \in [Batches -> BatchFields] /\ batch[b] \in BatchFields
        /\ CallInv /\ ItemInv /\ UnsentInv /\ EndInv /\ ~tx.batchExecuting
    BY TypeFields DEF Rollback, TxInv, CallInv, TypeOK, AtFields
  <1>a. NoBatch \notin Batches
    BY BatchAssumption DEF Batches, NoBatch
  <1>2. batch' = [batch EXCEPT ![b] = r]
    BY <1>a DEF Rollback, AbandonOpen
  <1>3. batch[b].sent /\ batch[b].next <= batch[b].items
    BY <1>1, <1>a DEF CallInv, ItemInv, ItemOK
  <1>4. /\ srv' \in SrvFields /\ tx' \in TxFields
        /\ tx'.err = tx.err /\ tx'.unsentBatches = tx.unsentBatches
        /\ tx'.openBatch = NoBatch /\ tx'.batchExecuting = tx.batchExecuting
        /\ tx'.row = tx.row /\ srv'.work = srv.work /\ srv'.stray = srv.stray
        /\ srv'.tx \in {"committed", "rolledback"}
    BY RollbackEnds
  <1>5. /\ r \in BatchFields
        /\ r.items = batch[b].items /\ r.sent = batch[b].sent /\ r.itemErr = batch[b].itemErr
        /\ r.results = "closed" /\ r.next = batch[b].next /\ r.err = batch[b].err
    BY <1>1, AbandonedTypes
  <1> HIDE DEF r
  <1>6. Touch(b) /\ batch'[b] = r
    BY <1>1, <1>2, <1>3, <1>4, <1>5, TouchTypes
  <1>7. /\ batch'[b].results = "closed" /\ batch'[b].next = batch[b].next
        /\ batch'[b].err = batch[b].err
    BY <1>5, <1>6
  <1>8. TxInv'
    <2>1. ItemInv' /\ UnsentInv'
      BY <1>1, <1>3, <1>6, <1>7, TouchKeeps
    <2>2. CallInv'
      BY <1>1, <1>4, <1>6, <1>7, <1>a DEF CallInv, Touch, OneBatch, Pipelined
    <2>3. EndInv' /\ TypeOK'
      BY <1>1, <1>4, <1>6 DEF EndInv, Ended, Pipelined, Touch, OneBatch
    <2> QED BY <2>1, <2>2, <2>3 DEF TxInv
  <1>9. WorkMoves(b)
    <2>1. \A c \in Batches \ {b} : Executed(c)' = Executed(c)
      BY <1>1, <1>4, <1>6 DEF Executed, Touch, OneBatch
    <2>2. batch[b].items <= batch[b].items
      BY <1>1, BatchAssumption DEF BatchFields
    <2> QED BY <1>4, <1>6, <2>1, <2>2 DEF WorkMoves, Touch
  <1>10. ASSUME OpenInv PROVE OpenInv' /\ LedgerMoves(b)
    <2>1. \A c \in Batches : batch'[c].results \in {"open", "unreachable"} <=> tx'.openBatch = c
      BY <1>4, <1>6, <1>7, <1>10, <1>a DEF OpenInv, Touch, OneBatch
    <2>2. OpenInv'
      BY <1>1, <1>4, <2>1 DEF OpenInv
    <2> QED BY <1>4, <1>6, <1>7, <2>2 DEF LedgerMoves, Touch
  <1> QED BY <1>8, <1>9, <1>10 DEF Kept

\* The watchdog abandons the results it found open, whatever the caller is doing.
LEMMA AbandonsKeeps ==
    ASSUME TxInv, NEW b \in Batches, other.b = b, WatchdogAbandons
    PROVE  TxInv' /\ WorkMoves(b)
  <1> DEFINE r == Abandoned(batch[b])
  <1>1. /\ TypeOK /\ UNCHANGED <<autoErr, driver, srv, at, hist>> /\ other.call = "abandon"
        /\ batch' = [batch EXCEPT ![b] = r] /\ tx' = Released(tx, b)
        /\ other' = [other EXCEPT !.call = "finalize"]
        /\ srv \in SrvFields /\ tx \in TxFields /\ hist \in HistFields
        /\ batch \in [Batches -> BatchFields] /\ batch[b] \in BatchFields
        /\ CallInv /\ ItemInv /\ UnsentInv /\ EndInv
    BY TypeFields DEF WatchdogAbandons, TxInv
  <1>2. batch[b].sent /\ batch[b].next <= batch[b].items
    BY <1>1 DEF CallInv, ItemInv, ItemOK
  <1>3. /\ r \in BatchFields
        /\ r.items = batch[b].items /\ r.sent = batch[b].sent /\ r.itemErr = batch[b].itemErr
        /\ r.results = "closed" /\ r.next = batch[b].next /\ r.err = batch[b].err
    BY <1>1, AbandonedTypes
  <1> HIDE DEF r
  <1>4. /\ tx' \in TxFields
        /\ tx'.openBatch = (IF tx.openBatch = b THEN NoBatch ELSE tx.openBatch)
        /\ tx'.err = tx.err /\ tx'.unsentBatches = tx.unsentBatches
        /\ tx'.batchExecuting = tx.batchExecuting /\ tx'.done = tx.done /\ tx'.row = tx.row
    BY <1>1, ReleasedTypes
  <1>5. /\ batch' \in [Batches -> BatchFields] /\ batch'[b] = r
        /\ \A c \in Batches \ {b} : batch'[c] = batch[c]
    BY <1>1, <1>3, BatchTypes
  <1>6. /\ other' \in [call : {"idle", "sending", "abandon", "finalize", "done"},
                       b : Batches \cup {NoBatch}, n : 0..MaxPlain]
        /\ other'.call = "finalize"
    BY <1>1 DEF TypeOK
  <1>7. TypeOK'
    BY <1>1, <1>4, <1>5, <1>6 DEF TypeOK
  <1>8. /\ batch'[b].results = "closed" /\ batch'[b].next = batch[b].next
        /\ batch'[b].err = batch[b].err /\ batch'[b].sent = batch[b].sent
        /\ batch'[b].items = batch[b].items /\ batch'[b].itemErr = batch[b].itemErr
        /\ (Pipelined' <=> Pipelined)
    BY <1>1, <1>3, <1>5 DEF Pipelined
  <1>9. ItemInv'
    <2>1. ASSUME NEW c \in Batches, c # b PROVE ItemOK(c)'
      BY <1>1, <1>5, <1>8, <2>1 DEF ItemInv, ItemOK
    <2>2. ItemOK(b)'
      BY <1>1, <1>2, <1>8 DEF ItemInv, ItemOK
    <2> QED BY <2>1, <2>2 DEF ItemInv
  <1>10. UnsentInv'
    <2>1. Unsent' = Unsent
      BY <1>5, <1>8 DEF Unsent
    <2> QED BY <1>1, <1>4, <2>1 DEF UnsentInv
  <1>11. CallInv'
    <2>1. \A c \in Batches : /\ batch'[c].sent = batch[c].sent /\ batch'[c].err = batch[c].err
                             /\ batch'[c].next = batch[c].next
                             /\ batch'[c].items = batch[c].items
                             /\ batch'[c].itemErr = batch[c].itemErr
      BY <1>5, <1>8
    <2>2. tx'.openBatch # NoBatch => batch'[tx'.openBatch].sent
      BY <1>1, <1>4, <2>1, TypeFields DEF CallInv
    <2> QED BY <1>1, <1>4, <1>6, <1>8, <2>1, <2>2 DEF CallInv
  <1>12. EndInv'
    BY <1>1, <1>4, <1>8 DEF EndInv, Ended
  <1>13. WorkMoves(b)
    <2>1. \A c \in Batches : Executed(c)' = Executed(c)
      BY <1>1, <1>4, <1>5, <1>8 DEF Executed
    <2>2. batch[b].items <= batch[b].items
      BY <1>1, BatchAssumption DEF BatchFields
    <2>3. OneBatch(b)
      BY <1>1, <1>5, <1>7 DEF OneBatch
    <2> QED BY <1>1, <1>4, <1>6, <1>8, <2>1, <2>2, <2>3 DEF WorkMoves
  <1> QED BY <1>7, <1>9, <1>10, <1>11, <1>12, <1>13 DEF TxInv

\* The watchdog reads which batch is open.
LEMMA ReadsKeeps == ASSUME TxInv, WatchdogReads PROVE TxInv'
  <1>1. /\ TypeOK /\ UNCHANGED <<autoErr, driver, srv, tx, batch, at, hist>>
        /\ other' = [other EXCEPT !.b = tx.openBatch,
                       !.call = IF tx.openBatch = NoBatch THEN "finalize" ELSE "abandon"]
        /\ tx.openBatch \in Batches \cup {NoBatch}
        /\ CallInv /\ ItemInv /\ UnsentInv /\ EndInv
    BY TypeFields DEF WatchdogReads, TxInv
  <1> DEFINE c == IF tx.openBatch = NoBatch THEN "finalize" ELSE "abandon"
             w == [other EXCEPT !.b = tx.openBatch]
             OtherFields == [call : {"idle", "sending", "abandon", "finalize", "done"},
                             b : Batches \cup {NoBatch}, n : 0..MaxPlain]
  <1>2. c \in {"finalize", "abandon"} /\ (c = "abandon" => tx.openBatch # NoBatch)
    OBVIOUS
  <1>3. other' = [w EXCEPT !.call = c] /\ other \in OtherFields
    BY <1>1 DEF TypeOK
  <1>4. w \in OtherFields /\ w.b = tx.openBatch
    BY <1>1, <1>3
  <1> HIDE DEF c, w
  <1>5. other' \in OtherFields /\ other'.call = c /\ other'.b = w.b
    BY <1>2, <1>3, <1>4
  <1>6. TypeOK'
    BY <1>1, <1>5 DEF TypeOK
  <1>7. CallInv'
    BY <1>1, <1>2, <1>4, <1>5 DEF CallInv, Pipelined
  <1>8. ItemInv' /\ UnsentInv' /\ EndInv'
    BY <1>1 DEF ItemInv, ItemOK, UnsentInv, Unsent, EndInv, Ended, Pipelined
  <1> QED BY <1>6, <1>7, <1>8 DEF TxInv

-----------------------------------------------------------------------------
(* What the steps make of the work and of the failures *)

\* What took effect stays in effect while the transaction lasts.
LEMMA QuietWork ==
    ASSUME TxInv, Quiet, srv'.tx = "active"
    PROVE  /\ srv.tx = "active" /\ \A x : InWork(x) => InWork(x)'
           /\ \A b \in Batches : Executed(b)' = Executed(b)
  <1>1. srv \in SrvFields /\ CallInv
    BY TypeFields DEF TxInv
  <1>2. srv.tx = "active"
    BY DEF Quiet, WorkStep
  <1>3. ASSUME srv'.work = srv.work PROVE \A x : InWork(x) => InWork(x)'
    BY <1>3 DEF InWork
  <1>4. ASSUME NEW n, srv'.work = Append(srv.work, <<NoBatch, n>>)
        PROVE  \A x : InWork(x) => InWork(x)'
    <2> DEFINE s == <<NoBatch, n>>
    <2> HIDE DEF s
    <2>1. srv'.work = Append(srv.work, s)
      BY <1>4 DEF s
    <2> QED BY <1>1, <2>1, AppendWorks
  <1>5. \A x : InWork(x) => InWork(x)'
    BY <1>3, <1>4 DEF Quiet, WorkStep
  <1>6. \A b \in Batches : Executed(b)' = Executed(b)
    <2>1. tx.batchExecuting => at' = at
      BY <1>1 DEF Quiet, CallInv
    <2> QED BY <2>1 DEF Executed, Quiet, BatchStep
  <1> QED BY <1>2, <1>5, <1>6

\* The same of the steps on a batch.
LEMMA MovesWork ==
    ASSUME TxInv, NEW b \in Batches, WorkMoves(b), srv'.tx = "active"
    PROVE  /\ srv.tx = "active" /\ \A x : InWork(x) => InWork(x)'
           /\ ~Pipelined /\ batch'[b].err = "none" /\ Executed(b)' # Executed(b) =>
                 \E k \in Nat : /\ k = Executed(b) /\ Executed(b)' = k + 1
                                /\ InWork(<<b, k + 1>>)'
  <1>1. srv \in SrvFields /\ CallInv /\ srv.tx = "active"
        /\ batch[b].items \in Nat /\ batch[b].next \in Nat
    BY TypeFields, BatchAssumption DEF TxInv, WorkMoves, TypeOK, BatchFields
  <1>2. Executed(b) \in Nat
    BY <1>1 DEF CallInv, Executed
  <1>3. CASE srv'.work = srv.work
    BY <1>1, <1>3 DEF InWork, WorkMoves
  <1>4. ASSUME NEW n \in 0..batch[b].items, Ran(b, 0, n)
        PROVE  \A x : InWork(x) => InWork(x)'
    <2>1. n \in Nat /\ 0 \in Nat
      BY <1>1
    <2> QED BY <1>1, <1>4, <2>1, RanWorks
  <1>5. CASE Ran(b, Executed(b), 1)
    <2>1. 1 \in Nat /\ 1 \in 1..1
      OBVIOUS
    <2>2. PICK k \in Nat : k = Executed(b)
      BY <1>2
    <2>3. /\ \A x : InWork(x) => InWork(x)'
          /\ \A i \in 1..1 : InWork(<<b, k + i>>)'
      BY <1>1, <1>5, <2>1, <2>2, RanWorks
    <2>4. InWork(<<b, k + 1>>)'
      BY <2>1, <2>3
    <2>5. srv'.work # srv.work
      <3>1. Len(srv.work) \in Nat /\ Len(srv'.work) # Len(srv.work)
        BY <1>1, <1>5 DEF Ran, SrvFields
      <3> QED BY <3>1
    <2>6. \/ Executed(b)' = Executed(b) + 1
          \/ Pipelined
      BY <2>5 DEF WorkMoves
    <2> QED BY <1>1, <2>2, <2>3, <2>4, <2>6
  <1>6. \/ srv'.work = srv.work
        \/ Pipelined /\ \E n \in 0..batch[b].items : Ran(b, 0, n)
        \/ Ran(b, Executed(b), 1)
    BY DEF WorkMoves
  <1> QED BY <1>1, <1>3, <1>4, <1>5, <1>6

\* What the results of a batch promise about its items.
AppliedOK(b) ==
    /\ \A i \in 1..Len(batch[b].itemErr) : batch[b].itemErr[i] = "none" => InWork(<<b, i>>)
    /\ ~Pipelined /\ batch[b].err = "none" => \A i \in 1..Executed(b) : InWork(<<b, i>>)
    /\ batch[b].results = "closed" /\ batch[b].err = "none" => Applied(b)
    /\ batch[b].closedNil => Applied(b)

AppliedInv == srv.tx = "active" => \A b \in Batches : AppliedOK(b)

\* In Transact mode no failure goes unrecorded, but one that waits in a Row or in
\* the results that hold the transaction.
RecordInv ==
    autoErr =>
    /\ \A b \in Batches : batch[b].err # "none" => tx.err # "none"
    /\ hist.dropped => tx.err # "none"
    /\ srv.tx = "active" /\ hist.failed => tx.err # "none" \/ tx.row # "none" \/ FailedBatch

LedgerInv == OpenInv /\ AppliedInv /\ RecordInv

\* Quiet steps keep all three.
LEMMA QuietLedger == ASSUME TxInv, Quiet, LedgerInv PROVE LedgerInv'
  <1>1. /\ TypeOK /\ CallInv /\ ItemInv /\ OpenInv /\ AppliedInv /\ RecordInv
        /\ UNCHANGED <<autoErr, driver>>
        /\ tx'.openBatch = tx.openBatch /\ tx'.batchExecuting = tx.batchExecuting
        /\ tx.openBatch \in Batches \cup {NoBatch} /\ (Pipelined' <=> Pipelined)
    BY TypeFields DEF TxInv, Quiet, LedgerInv, Pipelined
  <1>2. \A b \in Batches : BatchStep(b)
    BY DEF Quiet
  <1>3. at' = at \/ (at.call \in {"caller", "panic"} /\ at'.call = "caller")
    BY DEF Quiet, Idle
  <1>4. OpenInv'
    <2>1. \A b \in Batches : batch'[b].results = batch[b].results
      BY <1>2 DEF BatchStep
    <2>2. tx.batchExecuting => at' = at
      BY <1>1, <1>3 DEF CallInv
    <2>3. at'.call \in {"pipeline", "close"} => at' = at /\ at.b \in Batches
      BY <1>1, <1>3 DEF CallInv
    <2> QED BY <1>1, <2>1, <2>2, <2>3 DEF OpenInv
  <1>5. AppliedInv'
    <2> SUFFICES ASSUME srv'.tx = "active", NEW b \in Batches PROVE AppliedOK(b)'
      BY DEF AppliedInv
    <2>1. /\ AppliedOK(b) /\ (\A x : InWork(x) => InWork(x)') /\ Executed(b)' = Executed(b)
      BY <1>1, QuietWork DEF AppliedInv
    <2>2. /\ batch'[b].items = batch[b].items /\ batch'[b].itemErr = batch[b].itemErr
          /\ batch'[b].results = batch[b].results
          /\ batch'[b].err = "none" => batch[b].err = "none"
          /\ batch'[b].closedNil =>
                batch[b].closedNil \/ (batch[b].results = "closed" /\ batch[b].err = "none")
      BY <1>2 DEF BatchStep
    <2>3. Applied(b) => Applied(b)'
      BY <2>1, <2>2 DEF Applied, InWork
    <2> QED BY <1>1, <2>1, <2>2, <2>3 DEF AppliedOK
  <1>6. RecordInv'
    <2> SUFFICES ASSUME autoErr
                 PROVE  /\ \A b \in Batches : batch'[b].err # "none" => tx'.err # "none"
                        /\ hist'.dropped => tx'.err # "none"
                        /\ srv'.tx = "active" /\ hist'.failed =>
                              tx'.err # "none" \/ tx'.row # "none" \/ FailedBatch'
      BY <1>1 DEF RecordInv
    <2>1. HistStep
      BY DEF Quiet
    <2>2. FailedBatch' <=> FailedBatch
      <3>1. tx.openBatch # NoBatch =>
               /\ batch'[tx.openBatch].results = batch[tx.openBatch].results
               /\ batch'[tx.openBatch].itemErr = batch[tx.openBatch].itemErr
        BY <1>1, <1>2 DEF BatchStep
      <3> QED BY <1>1, <3>1 DEF FailedBatch
    <2>3. \A b \in Batches : batch'[b].err # "none" => tx'.err # "none"
      BY <1>1, <1>2, <2>1 DEF BatchStep, HistStep, RecordInv
    <2>4. srv'.tx = "active" => srv.tx = "active"
      BY DEF Quiet, WorkStep
    <2> QED BY <1>1, <2>1, <2>2, <2>3, <2>4 DEF HistStep, RecordInv
  <1> QED BY <1>4, <1>5, <1>6 DEF LedgerInv

\* So do the steps on a batch, the watchdog's apart.
LEMMA KeptLedger == ASSUME TxInv, NEW b \in Batches, Kept(b), LedgerInv PROVE LedgerInv'
  <1>1. /\ TypeOK /\ CallInv /\ ItemInv /\ OpenInv /\ AppliedInv /\ RecordInv
        /\ UNCHANGED <<autoErr, driver>> /\ (Pipelined' <=> Pipelined)
        /\ WorkMoves(b) /\ LedgerMoves(b) /\ OpenInv' /\ TypeOK' /\ TypeOK
        /\ \A c \in Batches \ {b} : batch'[c] = batch[c]
    BY DEF TxInv, Kept, LedgerInv, Pipelined, WorkMoves, OneBatch
  <1>2. AppliedInv'
    <2> SUFFICES ASSUME srv'.tx = "active", NEW c \in Batches PROVE AppliedOK(c)'
      BY DEF AppliedInv
    <2>1. /\ AppliedOK(c) /\ srv.tx = "active" /\ (\A x : InWork(x) => InWork(x)')
      BY <1>1, MovesWork DEF AppliedInv
    <2>2. CASE c # b
      <3>1. batch'[c] = batch[c] /\ Executed(c)' = Executed(c)
        BY <1>1, <2>2 DEF WorkMoves
      <3>2. Applied(c) => Applied(c)'
        BY <2>1, <3>1 DEF Applied, InWork
      <3> QED BY <1>1, <2>1, <3>1, <3>2 DEF AppliedOK
    <2>3. CASE c = b
      <3>0. AppliedOK(b)
        BY <2>1, <2>3
      <3>1. \A i \in 1..Len(batch'[b].itemErr) :
               batch'[b].itemErr[i] = "none" => InWork(<<b, i>>)'
        BY <1>1, <2>1, <3>0 DEF AppliedOK, LedgerMoves
      <3>2. ASSUME ~Pipelined, batch'[b].err = "none"
            PROVE  \A i \in 1..Executed(b)' : InWork(<<b, i>>)'
        <4>1. batch[b].err = "none" /\ \A i \in 1..Executed(b) : InWork(<<b, i>>)'
          BY <1>1, <2>1, <3>0, <3>2 DEF AppliedOK, WorkMoves
        <4>2. CASE Executed(b)' = Executed(b)
          BY <4>1, <4>2
        <4>3. CASE Executed(b)' # Executed(b)
          <5>1. PICK k \in Nat : /\ k = Executed(b) /\ Executed(b)' = k + 1
                                 /\ InWork(<<b, k + 1>>)'
            BY <1>1, <3>2, <4>3, MovesWork
          <5>2. ASSUME NEW i \in 1..Executed(b)' PROVE i \in 1..Executed(b) \/ i = k + 1
            BY <5>1, <5>2
          <5> QED BY <4>1, <5>1, <5>2
        <4> QED BY <4>2, <4>3
      <3>3. batch[b].sent => (Applied(b) => Applied(b)')
        BY <1>1, <2>1 DEF Applied, InWork, LedgerMoves
      <3>4. AllRan(b) => Applied(b)
        <4>1. CASE batch[b].items = 0
          BY <4>1 DEF Applied
        <4>2. CASE /\ Pipelined /\ Len(batch[b].itemErr) = batch[b].items
                   /\ \A i \in 1..batch[b].items : batch[b].itemErr[i] = "none"
          BY <3>0, <4>2 DEF AppliedOK, Applied, InWork
        <4>3. CASE ~Pipelined /\ batch[b].err = "none" /\ Executed(b) = batch[b].items
          BY <3>0, <4>3 DEF AppliedOK, Applied, InWork
        <4>4. CASE batch[b].results = "closed" /\ batch[b].err = "none"
          BY <3>0, <4>4 DEF AppliedOK
        <4> QED BY <4>1, <4>2, <4>3, <4>4 DEF AllRan
      <3>5. ASSUME batch'[b].results = "closed", batch'[b].err = "none" PROVE Applied(b)'
        <4>1. Applied(b) /\ batch[b].sent
          BY <1>1, <3>4, <3>5 DEF LedgerMoves
        <4> QED BY <3>3, <4>1
      <3>6. batch'[b].closedNil => Applied(b)'
        <4>1. batch[b].closedNil => Applied(b) /\ batch[b].sent
          BY <1>1, <3>0 DEF AppliedOK, ItemInv, ItemOK
        <4> QED BY <1>1, <3>3, <3>5, <4>1 DEF LedgerMoves
      <3> QED BY <1>1, <2>3, <3>1, <3>2, <3>5, <3>6 DEF AppliedOK
    <2> QED BY <2>2, <2>3
  <1>3. RecordInv'
    BY <1>1 DEF RecordInv, LedgerMoves, WorkMoves
  <1> QED BY <1>1, <1>2, <1>3 DEF LedgerInv

-----------------------------------------------------------------------------
(* The steps of the goroutines are of these two kinds *)

\* Every call of the caller is quiet, or a step on one batch that runs nothing yet.
LEMMA CallerKinds ==
    ASSUME TxInv, CallerCalls
    PROVE  Quiet \/ \E b \in Batches : Kept(b) /\ srv'.work = srv.work
  <1>1. at.call = "caller"
    BY DEF CallerCalls
  <1>2. Statement => Quiet
    BY RefusedQuiet, SentQuiet, QueryRowQuiet DEF Statement
  <1>3. Commit => Quiet
    BY CommitQuiet
  <1>4. ScanRow \/ ReadFails => Quiet
    BY ScanRowQuiet, ReadFailsQuiet
  <1>5. Rollback => Quiet \/ \E b \in Batches : Kept(b) /\ srv'.work = srv.work
    <2>1. tx.openBatch \in Batches \cup {NoBatch}
      BY TypeFields DEF TxInv
    <2>2. Rollback => srv'.work = srv.work
      BY RollbackEnds
    <2> QED BY <1>1, <2>1, <2>2, RollbackQuiet, RollbackKeeps
  <1>6. ASSUME NEW b \in Batches,
               \/ QueueLate(b) \/ SendAgain(b) \/ ReadNothing(b) \/ CloseAgain(b)
               \/ RowsEnd(b) \/ RowsScanFails(b) \/ ReadSuperseded(b)
        PROVE  Quiet
    BY <1>1, <1>6, QueueLateQuiet, SendAgainQuiet, ReadNothingQuiet, CloseAgainQuiet,
       RowsEndQuiet, ScanFailsQuiet, SupersededQuiet
  <1>7. ASSUME NEW b \in Batches,
               \/ Queue(b) \/ Send(b) \/ ClosePipelined(b) \/ CloseSequential(b)
               \/ \E query \in BOOLEAN : ReadPipelined(b, query) \/ RunBegins(b, query)
        PROVE  Kept(b) /\ srv'.work = srv.work
    <2>1. Send(b) => SendUnopened(b) \/ SendOpens(b)
      BY DEF Send, SendUnopened
    <2>2. Queue(b) \/ Send(b) => Kept(b)
      BY <1>1, <2>1, QueueKeeps, UnopenedKeeps, OpensKeeps
    <2>3. ClosePipelined(b) \/ CloseSequential(b) => Kept(b)
      BY <1>1, ClosePipelinedKeeps, CloseSequentialKeeps
    <2>4. ASSUME NEW query \in BOOLEAN, ReadPipelined(b, query) \/ RunBegins(b, query)
          PROVE  Kept(b)
      BY <1>1, <2>4, ReadPipelinedKeeps, RunBeginsKeeps
    <2>5. srv' = srv
      BY <1>7, <2>1 DEF Queue, SendUnopened, SendRefused, SendNamedArg, SendEmpty, SentUnopened,
                        SendOpens, ClosePipelined, CloseSequential, ReadPipelined, RunBegins
    <2> QED BY <1>7, <2>2, <2>3, <2>4, <2>5
  <1> QED BY <1>2, <1>3, <1>4, <1>5, <1>6, <1>7 DEF CallerCalls

\* A call under way moves its batch on, and adds to the work while it executes.
LEMMA GoesOnKinds ==
    ASSUME TxInv, CallGoesOn
    PROVE  \E b \in Batches :
              /\ b = at.b /\ Kept(b)
              /\ tx.batchExecuting \/ at.call = "pipeline" \/ srv'.work = srv.work
  <1>1. CASE RunGoesOn
    <2>1. at.call \in {"run", "close"}
      BY <1>1 DEF RunGoesOn, RunEnds, RunPanics, CloseRuns, CloseReturns
    <2>2. PICK b \in Batches : b = at.b
      BY <2>1 DEF TxInv, CallInv
    <2>3. tx.batchExecuting \/ srv' = srv
      BY <1>1 DEF RunGoesOn, RunEnds, RunPanics, CloseRuns, CloseReturns
    <2> QED BY <1>1, <2>2, <2>3, RunEndsKeeps, RunPanicsKeeps, CloseRunsKeeps, CloseReturnsKeeps
            DEF RunGoesOn
  <1>2. CASE Pipeline
    <2>1. at.call = "pipeline"
      BY <1>2 DEF Pipeline, PipelineNotSent, PipelineSends, PipelineCloseFails, PipelinePanics
    <2>2. PICK b \in Batches : b = at.b
      BY <2>1 DEF TxInv, CallInv
    <2>3. PipelineAnswers \/ PipelinePanics
      BY <1>2 DEF Pipeline, PipelineAnswers
    <2> QED BY <2>1, <2>2, <2>3, PipelineKeeps, PipelinePanicsKeeps
  <1> QED BY <1>1, <1>2 DEF CallGoesOn

\* Stuttering is quiet.
LEMMA StutterQuiet == ASSUME TxInv, UNCHANGED vars PROVE Quiet
  <1>1. /\ TypeOK /\ UNCHANGED <<autoErr, driver, srv, tx, batch, at, other, hist>>
        /\ srv \in SrvFields /\ tx \in TxFields /\ hist \in HistFields
    BY TypeFields DEF vars, TxInv
  <1>2. WorkStep /\ PlainStep
    BY <1>1, SameWork, SamePlain
  <1>3. HistStep
    BY <1>1 DEF HistStep
  <1> QED BY <1>1, <1>2, <1>3, QuietFrame

-----------------------------------------------------------------------------
(* The order of the work *)

\* Where the items of the batch are in the work.
Mine(b) == {q \in 1..Len(srv.work) : srv.work[q][1] = b}

\* Nothing of a pipelined batch is in the work before its one send; run one by one,
\* as many of its items are as were executed.
CountOK(b) ==
    /\ Pipelined /\ batch[b].itemErr = <<>> => Mine(b) = {}
    /\ ~Pipelined /\ batch[b].err = "none" => Cardinality(Mine(b)) = Executed(b)

OrderInv == BatchInOrder /\ (srv.tx = "active" => \A b \in Batches : CountOK(b))

\* The work grows by n items after the k-th: their order is right if k of them, and
\* no more, were there before.
LEMMA RanInOrder ==
    ASSUME srv \in SrvFields, BatchInOrder, NEW b, NEW k \in Nat, NEW n \in Nat, Ran(b, k, n),
           b # NoBatch => Cardinality(Mine(b)) = k
    PROVE  /\ BatchInOrder'
           /\ \A c : c # b => Mine(c)' = Mine(c)
           /\ b # NoBatch => Cardinality(Mine(b))' = k + n
  <1> DEFINE L == Len(srv.work)
             M == Mine(b)
  <1>1. L \in Nat /\ Len(srv'.work) = L + n
    BY DEF SrvFields, Ran
  <1>2. /\ \A q \in 1..L : srv'.work[q] = srv.work[q]
        /\ \A i \in 1..n : srv'.work[L + i] = <<b, k + i>>
    BY DEF Ran
  <1>3. ASSUME NEW q \in 1..(L + n), q \notin 1..L
        PROVE  \E i \in 1..n : q = L + i /\ srv'.work[q] = <<b, k + i>>
    <2>1. q - L \in 1..n /\ q = L + (q - L)
      BY <1>1, <1>3
    <2> QED BY <1>2, <2>1
  <1>4. ASSUME b # NoBatch, NEW j \in 0..n
        PROVE  /\ Cardinality(M \cup (L + 1)..(L + j)) = k + j
               /\ {q \in 1..(L + j) : srv'.work[q][1] = b} = M \cup (L + 1)..(L + j)
    <2> DEFINE J == (L + 1)..(L + j)
    <2>1. IsFiniteSet(1..L) /\ IsFiniteSet(J) /\ Cardinality(J) = j
      <3>1. L + 1 \in Int /\ L + j \in Int /\ 1 \in Int /\ L \in Int /\ j \in Nat
        BY <1>1, <1>4
      <3>2. IsFiniteSet(J) /\ Cardinality(J) = IF L + 1 > L + j THEN 0 ELSE (L + j) - (L + 1) + 1
        BY <3>1, FS_Interval
      <3>3. (IF L + 1 > L + j THEN 0 ELSE (L + j) - (L + 1) + 1) = j
        BY <1>1, <3>1
      <3>4. IsFiniteSet(1..L)
        BY <3>1, FS_Interval
      <3> QED BY <3>2, <3>3, <3>4
    <2>2. M \subseteq 1..L /\ Cardinality(M) = k
      BY <1>4 DEF Mine
    <2>3. IsFiniteSet(M) /\ M \cap J = {}
      <3>1. M \cap J = {}
        BY <1>1, <1>4, <2>2
      <3> QED BY <2>1, <2>2, <3>1, FS_Subset
    <2>4. Cardinality(M \cup J) = k + j
      <3>1. Cardinality(M \cup J) = Cardinality(M) + Cardinality(J) - Cardinality(M \cap J)
        BY <2>1, <2>3, FS_Union
      <3>2. Cardinality(M \cap J) = 0
        BY <2>3, FS_EmptySet
      <3> QED BY <1>4, <2>1, <2>2, <3>1, <3>2
    <2>5. {q \in 1..(L + j) : srv'.work[q][1] = b} = M \cup J
      <3>1. ASSUME NEW q \in 1..(L + j), srv'.work[q][1] = b PROVE q \in M \cup J
        <4>1. CASE q \in 1..L
          BY <1>2, <3>1, <4>1 DEF Mine
        <4>2. CASE q \notin 1..L
          BY <1>1, <1>4, <4>2
        <4> QED BY <4>1, <4>2
      <3>2. ASSUME NEW q \in M PROVE q \in 1..(L + j) /\ srv'.work[q][1] = b
        BY <1>1, <1>2, <1>4, <3>2 DEF Mine
      <3>3. ASSUME NEW q \in J PROVE q \in 1..(L + j) /\ srv'.work[q][1] = b
        <4>1. q \in 1..(L + n) /\ q \notin 1..L /\ q \in 1..(L + j)
          BY <1>1, <1>4, <3>3
        <4>2. PICK i \in 1..n : srv'.work[q] = <<b, k + i>>
          BY <1>3, <4>1
        <4> QED BY <4>1, <4>2
      <3> QED BY <3>1, <3>2, <3>3
    <2> QED BY <2>4, <2>5
  <1>5. BatchInOrder'
    <2> DEFINE Before(w, p) == {q \in 1..(p - 1) : w[q][1] = w[p][1]}
    <2> SUFFICES ASSUME NEW p \in 1..(L + n), srv'.work[p][1] # NoBatch
                 PROVE  Cardinality(Before(srv'.work, p)) = srv'.work[p][2] - 1
      BY <1>1 DEF BatchInOrder
    <2>1. CASE p \in 1..L
      <3>1. Cardinality(Before(srv.work, p)) = srv.work[p][2] - 1
        BY <1>2, <2>1 DEF BatchInOrder
      <3>2. Before(srv'.work, p) = Before(srv.work, p)
        <4>1. \A q \in 1..(p - 1) : q \in 1..L
          BY <1>1, <2>1
        <4> QED BY <1>2, <2>1, <4>1
      <3> QED BY <1>2, <2>1, <3>1, <3>2
    <2>2. CASE p \notin 1..L
      <3>1. PICK i \in 1..n : p = L + i /\ srv'.work[p] = <<b, k + i>>
        BY <1>3, <2>2
      <3>2. PICK j \in 0..n : j = i - 1 /\ p - 1 = L + j
        <4>1. i - 1 \in 0..n /\ p - 1 = L + (i - 1)
          BY <1>1, <3>1
        <4> QED BY <4>1
      <3>3. b # NoBatch /\ srv'.work[p][1] = b /\ srv'.work[p][2] = k + i
        BY <3>1
      <3>4. Before(srv'.work, p) = {q \in 1..(L + j) : srv'.work[q][1] = b}
        BY <3>2, <3>3
      <3>5. Cardinality(Before(srv'.work, p)) = k + j
        BY <1>4, <3>3, <3>4
      <3> QED BY <3>2, <3>3, <3>5
    <2> QED BY <2>1, <2>2
  <1>6. ASSUME NEW c, c # b PROVE Mine(c)' = Mine(c)
    <2>1. ASSUME NEW q \in 1..(L + n), srv'.work[q][1] = c PROVE q \in 1..L
      <3> SUFFICES ASSUME q \notin 1..L PROVE FALSE
        OBVIOUS
      <3>1. PICK i \in 1..n : srv'.work[q] = <<b, k + i>>
        BY <1>3
      <3> QED BY <1>6, <2>1, <3>1
    <2>2. \A q \in 1..L : q \in 1..(L + n)
      BY <1>1
    <2> QED BY <1>1, <1>2, <2>1, <2>2 DEF Mine
  <1>7. b # NoBatch => Cardinality(Mine(b))' = k + n
    <2>1. Mine(b)' = {q \in 1..(L + n) : srv'.work[q][1] = b} /\ n \in 0..n
      BY <1>1 DEF Mine
    <2> QED BY <1>4, <2>1
  <1> QED BY <1>5, <1>6, <1>7

\* Work that is not touched, or undone as a whole, stays in order.
LEMMA SameInOrder ==
    ASSUME BatchInOrder, srv'.work = srv.work \/ srv'.work = <<>>
    PROVE  BatchInOrder' /\ (srv'.work = srv.work => \A b : Mine(b)' = Mine(b))
  <1>1. CASE srv'.work = srv.work
    BY <1>1 DEF BatchInOrder, Mine
  <1>2. CASE srv'.work = <<>>
    BY <1>2 DEF BatchInOrder, Mine
  <1> QED BY <1>1, <1>2

\* Statements of no batch leave the order of the batches alone.
LEMMA QuietOrder == ASSUME TxInv, Quiet, OrderInv PROVE OrderInv'
  <1>1. /\ srv \in SrvFields /\ BatchInOrder /\ (Pipelined' <=> Pipelined)
        /\ TypeOK' /\ TypeOK
    BY TypeFields DEF TxInv, OrderInv, Quiet, Pipelined
  <1>2. BatchInOrder' /\ (srv'.tx = "active" => \A b \in Batches : Mine(b)' = Mine(b))
    <2>1. CASE srv'.work = srv.work \/ (srv'.work = <<>> /\ srv'.tx = "lost")
      BY <1>1, <2>1, SameInOrder
    <2>2. ASSUME NEW n \in 1..hist'.plain, srv'.work = Append(srv.work, <<NoBatch, n>>)
          PROVE  BatchInOrder' /\ \A b \in Batches : Mine(b)' = Mine(b)
      <3> DEFINE k == n - 1
                 s == <<NoBatch, n>>
      <3>1. k \in Nat /\ 1 \in Nat
        BY TypeFields, <1>1 DEF TypeOK
      <3> HIDE DEF s
      <3>2. /\ Len(srv'.work) = Len(srv.work) + 1 /\ srv'.work[Len(srv.work) + 1] = s
            /\ \A p \in 1..Len(srv.work) : srv'.work[p] = srv.work[p]
        <4>1. srv.work \in Seq(Statements) /\ srv'.work = Append(srv.work, s)
          BY <1>1, <2>2 DEF SrvFields, s
        <4>2. Len(srv.work) \in Nat
          BY <4>1
        <4> QED BY <4>1, <4>2
      <3>3. s = <<NoBatch, k + 1>>
        BY <3>1 DEF s
      <3>4. Ran(NoBatch, k, 1)
        <4>1. \A i \in 1..1 : i = 1
          OBVIOUS
        <4> QED BY <3>2, <3>3, <4>1 DEF Ran
      <3>5. \A b \in Batches : b # NoBatch
        BY BatchAssumption DEF Batches, NoBatch
      <3> HIDE DEF k
      <3> QED BY <1>1, <3>1, <3>4, <3>5, RanInOrder
    <2> QED BY <2>1, <2>2 DEF Quiet, WorkStep
  <1>3. ASSUME srv'.tx = "active", NEW b \in Batches PROVE CountOK(b)'
    <2>1. srv.tx = "active" /\ Executed(b)' = Executed(b) /\ Mine(b)' = Mine(b)
      BY <1>2, <1>3, QuietWork
    <2>2. CountOK(b)
      BY <2>1 DEF OrderInv
    <2>3. BatchStep(b)
      BY DEF Quiet
    <2> QED BY <1>1, <2>1, <2>2, <2>3 DEF CountOK, BatchStep
  <1> QED BY <1>2, <1>3 DEF OrderInv

\* The steps on a batch add its items in their turn.
LEMMA MovesOrder == ASSUME TxInv, NEW b \in Batches, WorkMoves(b), OrderInv PROVE OrderInv'
  <1>1. /\ srv \in SrvFields /\ CallInv /\ BatchInOrder /\ (Pipelined' <=> Pipelined)
        /\ \A c \in Batches \ {b} : batch'[c] = batch[c] /\ Executed(c)' = Executed(c)
        /\ srv'.tx = "active" => srv.tx = "active"
    BY TypeFields DEF TxInv, OrderInv, WorkMoves, OneBatch, Pipelined
  <1>a. batch[b].items \in Nat /\ batch[b].next \in Nat
    BY BatchAssumption DEF TxInv, TypeOK, BatchFields
  <1>2. Executed(b) \in Nat /\ b # NoBatch
    BY <1>1, <1>a, BatchAssumption DEF CallInv, Executed, Batches, NoBatch
  <1> DEFINE Good == /\ BatchInOrder'
                     /\ srv'.tx = "active" =>
                           CountOK(b)' /\ \A c \in Batches \ {b} : Mine(c)' = Mine(c)
  <1>3. ASSUME srv'.work = srv.work PROVE Good
    <2>1. BatchInOrder' /\ \A c : Mine(c)' = Mine(c)
      BY <1>1, <1>3, SameInOrder
    <2>2. srv'.tx = "active" => CountOK(b)'
      <3> SUFFICES ASSUME srv'.tx = "active" PROVE CountOK(b)'
        OBVIOUS
      <3>1. /\ batch'[b].itemErr = <<>> => batch[b].itemErr = <<>>
            /\ ~Pipelined /\ batch'[b].err = "none" =>
                  batch[b].err = "none" /\ Executed(b)' = Executed(b)
        BY <1>3 DEF WorkMoves
      <3>2. CountOK(b)
        BY <1>1 DEF OrderInv
      <3> QED BY <1>1, <2>1, <3>1, <3>2 DEF CountOK
    <2> QED BY <2>1, <2>2
  <1>4. ASSUME srv'.work = <<>>, srv'.tx # "active" PROVE Good
    BY <1>1, <1>4, SameInOrder
  <1>5. ASSUME Pipelined, srv.tx = "active", batch[b].itemErr = <<>>, batch'[b].itemErr # <<>>,
               NEW n \in 0..batch[b].items, Ran(b, 0, n)
        PROVE  Good
    <2>1. Cardinality(Mine(b)) = 0
      BY <1>5, FS_EmptySet DEF OrderInv, CountOK
    <2>2. n \in Nat /\ 0 \in Nat
      BY <1>a
    <2>3. BatchInOrder' /\ \A c : c # b => Mine(c)' = Mine(c)
      BY <1>1, <1>5, <2>1, <2>2, RanInOrder
    <2> QED BY <1>1, <1>5, <2>3 DEF CountOK
  <1>6. ASSUME ~Pipelined, srv.tx = "active", batch[b].err = "none", Ran(b, Executed(b), 1),
               Executed(b)' = Executed(b) + 1
        PROVE  Good
    <2>1. PICK k \in Nat : k = Executed(b)
      BY <1>2
    <2>2. Cardinality(Mine(b)) = k /\ 1 \in Nat /\ Ran(b, k, 1) /\ Executed(b)' = k + 1
      BY <1>6, <2>1 DEF OrderInv, CountOK
    <2>3. /\ BatchInOrder' /\ Cardinality(Mine(b))' = k + 1
          /\ \A c : c # b => Mine(c)' = Mine(c)
      BY <1>1, <1>2, <2>2, RanInOrder
    <2> QED BY <1>1, <1>6, <2>2, <2>3 DEF CountOK
  <1>7. Good
    BY <1>3, <1>4, <1>5, <1>6 DEF WorkMoves
  <1>8. ASSUME srv'.tx = "active", NEW c \in Batches \ {b} PROVE CountOK(c)'
    <2>1. CountOK(c) /\ Mine(c)' = Mine(c)
      BY <1>1, <1>7, <1>8 DEF OrderInv
    <2> QED BY <1>1, <2>1 DEF CountOK
  <1> QED BY <1>7, <1>8 DEF OrderInv

-----------------------------------------------------------------------------
(* What was asked for *)

\* Only what was asked for is in the work, and in Transact mode every statement of
\* no batch is, unless one failed or is still on its way.
AskedInv ==
    /\ \A p \in 1..Len(srv.work) :
          \/ \E n \in 1..hist.plain : srv.work[p] = <<NoBatch, n>>
          \/ \E b \in Batches : \E i \in 1..batch[b].items : srv.work[p] = <<b, i>>
    /\ autoErr /\ srv.tx = "active" =>
          \A n \in 1..hist.plain :
              \/ InWork(<<NoBatch, n>>) \/ tx.err # "none" \/ tx.row # "none"
              \/ other.call = "sending" /\ other.n = n

\* Quiet steps keep it.
LEMMA QuietAsked == ASSUME TxInv, Quiet, AskedInv PROVE AskedInv'
  <1>1. /\ srv \in SrvFields /\ hist.plain \in Nat /\ hist'.plain \in Nat
        /\ hist.plain <= hist'.plain /\ UNCHANGED <<autoErr, driver>>
        /\ TypeOK /\ TypeOK' /\ PlainStep
    BY TypeFields DEF TxInv, Quiet, PlainStep, TypeOK
  <1>2. \A b \in Batches : batch'[b].items = batch[b].items
    BY DEF Quiet, BatchStep
  <1> DEFINE Is(s) == \/ \E n \in 1..hist'.plain : s = <<NoBatch, n>>
                      \/ \E b \in Batches : \E i \in 1..batch'[b].items : s = <<b, i>>
  <1>3. \A p \in 1..Len(srv.work) : Is(srv.work[p])
    <2>1. \A n \in 1..hist.plain : n \in 1..hist'.plain
      BY <1>1
    <2> QED BY <1>2, <2>1 DEF AskedInv
  <1>4. \A p \in 1..Len(srv'.work) : Is(srv'.work[p])
    <2>1. CASE srv'.work = srv.work
      BY <1>3, <2>1
    <2>2. CASE srv'.work = <<>>
      BY <2>2
    <2>3. ASSUME NEW n \in 1..hist'.plain, srv'.work = Append(srv.work, <<NoBatch, n>>)
          PROVE  \A p \in 1..Len(srv'.work) : Is(srv'.work[p])
      <3> DEFINE s == <<NoBatch, n>>
      <3>1. Is(s)
        OBVIOUS
      <3> HIDE DEF s, Is
      <3>2. srv.work \in Seq(Statements) /\ srv'.work = Append(srv.work, s)
        BY <1>1, <2>3 DEF SrvFields, s
      <3> QED BY <1>3, <3>1, <3>2
    <2> QED BY <2>1, <2>2, <2>3 DEF Quiet, WorkStep
  <1>5. ASSUME autoErr, srv'.tx = "active", NEW n \in 1..hist'.plain
        PROVE  \/ InWork(<<NoBatch, n>>)' \/ tx'.err # "none" \/ tx'.row # "none"
               \/ other'.call = "sending" /\ other'.n = n
    <2>1. /\ srv.tx = "active" /\ \A x : InWork(x) => InWork(x)'
      BY <1>5, QuietWork
    <2>2. HistStep
      BY <1>5 DEF Quiet
    <2>3. CASE n \in 1..hist.plain /\ (other.call = "sending" /\ other.n = n => other' = other)
      <3>1. \/ InWork(<<NoBatch, n>>) \/ tx.err # "none" \/ tx.row # "none"
            \/ other.call = "sending" /\ other.n = n
        BY <1>5, <2>1, <2>3 DEF AskedInv
      <3> QED BY <2>1, <2>2, <2>3, <3>1 DEF HistStep
    <2> QED BY <1>1, <1>5, <2>3 DEF PlainStep
  <1> QED BY <1>1, <1>4, <1>5 DEF AskedInv

\* So do the steps on a batch.
LEMMA MovesAsked == ASSUME TxInv, NEW b \in Batches, WorkMoves(b), AskedInv PROVE AskedInv'
  <1>1. /\ srv \in SrvFields /\ hist'.plain = hist.plain /\ UNCHANGED <<autoErr, driver>>
        /\ batch[b].items \in Nat /\ batch[b].items <= batch'[b].items /\ CallInv
        /\ batch[b].next \in Nat /\ batch'[b].items \in Nat
        /\ \A c \in Batches \ {b} : batch'[c] = batch[c]
    BY TypeFields, BatchAssumption DEF TxInv, WorkMoves, OneBatch, TypeOK, BatchFields
  <1>2. Executed(b) \in Nat
    BY <1>1 DEF CallInv, Executed
  <1> DEFINE Is(s) == \/ \E n \in 1..hist'.plain : s = <<NoBatch, n>>
                      \/ \E c \in Batches : \E i \in 1..batch'[c].items : s = <<c, i>>
  <1>3. \A p \in 1..Len(srv.work) : Is(srv.work[p])
    <2>1. \A c \in Batches : \A i \in 1..batch[c].items : i \in 1..batch'[c].items
      BY <1>1
    <2> QED BY <1>1, <2>1 DEF AskedInv
  <1>4. \A i \in 1..batch[b].items : Is(<<b, i>>)
    BY <1>1
  <1> HIDE DEF Is
  <1>5. \A p \in 1..Len(srv'.work) : Is(srv'.work[p])
    <2>1. CASE srv'.work = srv.work
      BY <1>3, <2>1
    <2>2. CASE srv'.work = <<>>
      BY <2>2
    <2>3. ASSUME NEW k \in Nat, NEW n \in Nat, k + n <= batch[b].items, Ran(b, k, n)
          PROVE  \A p \in 1..Len(srv'.work) : Is(srv'.work[p])
      <3>1. ASSUME NEW p \in 1..Len(srv'.work), p \notin 1..Len(srv.work)
            PROVE  \E i \in 1..n : srv'.work[p] = <<b, k + i>>
        <4>1. Len(srv.work) \in Nat /\ Len(srv'.work) = Len(srv.work) + n
          BY <1>1, <2>3 DEF SrvFields, Ran
        <4>2. p - Len(srv.work) \in 1..n /\ p = Len(srv.work) + (p - Len(srv.work))
          BY <3>1, <4>1
        <4> QED BY <2>3, <4>2 DEF Ran
      <3>2. \A i \in 1..n : k + i \in 1..batch[b].items
        BY <1>1, <2>3
      <3> QED BY <1>3, <1>4, <2>3, <3>1, <3>2 DEF Ran
    <2>4. \/ srv'.work = srv.work \/ srv'.work = <<>>
          \/ \E n \in 0..batch[b].items : Ran(b, 0, n)
          \/ Executed(b) < batch[b].items /\ Ran(b, Executed(b), 1)
      BY DEF WorkMoves
    <2>5. \A n \in 0..batch[b].items : n \in Nat /\ 0 \in Nat /\ 0 + n <= batch[b].items
      BY <1>1
    <2>6. Executed(b) < batch[b].items => 1 \in Nat /\ Executed(b) + 1 <= batch[b].items
      BY <1>1, <1>2
    <2> QED BY <1>2, <2>1, <2>2, <2>3, <2>4, <2>5, <2>6
  <1>6. ASSUME autoErr, srv'.tx = "active", NEW n \in 1..hist'.plain
        PROVE  \/ InWork(<<NoBatch, n>>)' \/ tx'.err # "none" \/ tx'.row # "none"
               \/ other'.call = "sending" /\ other'.n = n
    <2>1. /\ srv.tx = "active" /\ \A x : InWork(x) => InWork(x)'
      BY <1>6, MovesWork
    <2>2. \/ InWork(<<NoBatch, n>>) \/ tx.err # "none" \/ tx.row # "none"
          \/ other.call = "sending" /\ other.n = n
      BY <1>1, <1>6, <2>1 DEF AskedInv
    <2> QED BY <1>6, <2>1, <2>2 DEF WorkMoves
  <1> QED BY <1>1, <1>5, <1>6 DEF AskedInv, Is

-----------------------------------------------------------------------------
(* A transaction that begins, and one that ends *)

\* The state of BeginTx, and of Transact before and after its BEGIN.
Fresh ==
    /\ autoErr \in BOOLEAN /\ driver \in {"pgx", "mssql", "other"}
    /\ srv = FreshSrv("active") \/ srv = FreshSrv("rolledback")
    /\ tx = FreshTx /\ batch = FreshBatches /\ at = Idle /\ other = NoOther
    /\ hist = FreshHist

\* It has all the invariants.
LEMMA FreshInv == Fresh => TxInv /\ LedgerInv /\ OrderInv /\ AskedInv
  <1> SUFFICES ASSUME Fresh PROVE TxInv /\ LedgerInv /\ OrderInv /\ AskedInv
    OBVIOUS
  <1> DEFINE none == [items |-> 0, sent |-> FALSE, itemErr |-> <<>>, results |-> "none",
                      next |-> 0, err |-> "none", rows |-> FALSE, superseded |-> FALSE,
                      closedNil |-> FALSE]
  <1>1. /\ \A b \in Batches : batch[b] = none
        /\ \A b \in Batches : batch[b].items = 0 /\ ~batch[b].sent /\ batch[b].itemErr = <<>>
        /\ \A b \in Batches : batch[b].results = "none" /\ batch[b].next = 0
        /\ \A b \in Batches : batch[b].err = "none" /\ ~batch[b].rows
        /\ \A b \in Batches : ~batch[b].superseded /\ ~batch[b].closedNil
    BY DEF Fresh, FreshBatches
  <1>2. /\ tx.err = "none" /\ tx.unsentBatches = 0 /\ ~tx.batchMisuse
        /\ tx.openBatch = NoBatch /\ ~tx.batchExecuting /\ ~tx.done /\ tx.row = "none"
        /\ at.call = "caller" /\ other.call = "idle"
        /\ hist.plain = 0 /\ ~hist.failed /\ ~hist.dropped
    BY DEF Fresh, FreshTx, Idle, NoOther, FreshHist
  <1>3. srv.work = <<>> /\ srv.tx # "lost" /\ Len(srv.work) = 0
    BY DEF Fresh, FreshSrv
  <1>4. TypeOK
    <2>1. none \in BatchFields
      <3>1. <<>> \in Seq(Outcome) /\ 0 \in 0..MaxItems
        BY BatchAssumption
      <3> QED BY <3>1 DEF BatchFields, Outcome
    <2>2. batch \in [Batches -> BatchFields]
      BY <2>1 DEF Fresh, FreshBatches
    <2>3. tx \in TxFields
      BY BatchAssumption DEF Fresh, FreshTx, TxFields, Outcome
    <2>4. srv \in SrvFields
      <3>1. <<>> \in Seq(Statements) /\ {} \in SUBSET Statements
        OBVIOUS
      <3>2. PICK state \in SrvStates : srv = [tx |-> state, work |-> <<>>, stray |-> {}]
        BY DEF Fresh, FreshSrv, SrvStates
      <3> QED BY <3>1, <3>2 DEF SrvFields
    <2> QED BY <2>2, <2>3, <2>4, BatchAssumption DEF Fresh, TypeOK, Idle, NoOther, FreshHist
  <1>5. UnsentInv
    <2>1. Unsent = {}
      BY <1>1 DEF Unsent
    <2> QED BY <1>2, <2>1, FS_EmptySet DEF UnsentInv
  <1>6. TxInv
    BY <1>1, <1>2, <1>3, <1>4, <1>5 DEF TxInv, CallInv, ItemInv, ItemOK, EndInv
  <1>7. OpenInv
    <2>1. \A b \in Batches : b # NoBatch
      BY BatchAssumption DEF Batches, NoBatch
    <2> QED BY <1>1, <1>2, <2>1 DEF OpenInv
  <1>8. LedgerInv
    <2>1. \A b \in Batches : Executed(b) = 0
      BY <1>1, <1>2 DEF Executed
    <2>2. AppliedInv
      BY <1>1, <2>1 DEF AppliedInv, AppliedOK
    <2>3. RecordInv
      BY <1>1, <1>2 DEF RecordInv
    <2> QED BY <1>7, <2>2, <2>3 DEF LedgerInv
  <1>9. OrderInv
    <2>1. \A b : Mine(b) = {} /\ Cardinality(Mine(b)) = 0
      BY <1>3, FS_EmptySet DEF Mine
    <2>2. \A b \in Batches : CountOK(b)
      BY <1>1, <1>2, <2>1 DEF CountOK, Executed
    <2> QED BY <1>3, <2>2 DEF OrderInv, BatchInOrder
  <1>10. AskedInv
    BY <1>2, <1>3 DEF AskedInv
  <1> QED BY <1>6, <1>8, <1>9, <1>10

\* Nothing pending is all settled: each batch ran in full, or its results failed.
LEMMA Settled ==
    ASSUME TxInv, LedgerInv, ~batchPending, srv.tx = "active", NEW b \in Batches
    PROVE  Applied(b) \/ batch[b].err # "none"
  <1>1. /\ tx.openBatch = NoBatch /\ tx.unsentBatches = 0 /\ b # NoBatch
        /\ ItemOK(b) /\ AppliedOK(b) /\ OpenInv /\ UnsentInv
    <2>1. tx.unsentBatches \in Nat
      BY BatchAssumption DEF TxInv, TypeOK, TxFields
    <2>2. b # NoBatch
      BY BatchAssumption DEF Batches, NoBatch
    <2> QED BY <2>1, <2>2 DEF batchPending, TxInv, ItemInv, LedgerInv, AppliedInv
  <1>2. batch[b].items \in Nat
        /\ batch[b].results \in {"none", "unopened", "open", "closed", "unreachable"}
    BY BatchAssumption DEF TxInv, TypeOK, BatchFields
  <1>3. b \notin Unsent
    BY <1>1, UnsentRoom DEF UnsentInv
  <1>4. CASE batch[b].items = 0
    BY <1>4 DEF Applied
  <1>5. CASE batch[b].items > 0
    <2>1. batch[b].sent
      BY <1>3, <1>5 DEF Unsent
    <2>2. batch[b].results \in {"unopened", "closed"}
      BY <1>1, <1>2, <2>1 DEF ItemOK, OpenInv
    <2> QED BY <1>1, <1>5, <2>2 DEF ItemOK, AppliedOK
  <1> QED BY <1>2, <1>4, <1>5

\* Commit commits an active transaction with nothing pending, or none.
LEMMA Committing ==
    ASSUME TxInv, NEW o \in CommitOutcomes, o.srv.tx = "committed", srv.tx # "committed"
    PROVE  ~batchPending /\ srv.tx = "active" /\ o.srv.work = srv.work
  <1>1. ~batchPending /\ o \in Finalize(tx, SqlCommit)
    BY DEF CommitOutcomes
  <1>2. ~tx.done
    BY <1>1 DEF Finalize
  <1>3. PICK c \in SqlCommit : o.srv = c.srv
    BY <1>1, <1>2 DEF Finalize
  <1>4. srv \in SrvFields /\ srv.tx \in SrvStates
    BY TypeFields DEF TxInv, SrvFields
  <1>5. srv.tx = "active" /\ c.srv.work = srv.work
    <2>1. CASE srv.tx = "active"
      BY <1>3, <1>4, <2>1 DEF SqlCommit, NotSent, SrvFields
    <2>2. CASE srv.tx = "lost"
      BY <1>3, <1>4, <2>2 DEF SqlCommit, SrvFields
    <2>3. CASE srv.tx = "aborted"
      BY <1>3, <1>4, <2>3 DEF SqlCommit, SrvFields
    <2>4. CASE srv.tx = "rolledback"
      BY <1>3, <1>4, <2>4 DEF SqlCommit, NotSent
    <2> QED BY <1>4, <2>1, <2>2, <2>3, <2>4 DEF SrvStates
  <1> QED BY <1>1, <1>3, <1>5

\* Nothing commits but Commit.
LEMMA OnlyCommit ==
    ASSUME TxInv, \/ CallerCalls \/ CallGoesOn \/ Recovers \/ HelperCalls
                  \/ Watchdog \/ ContextEnds,
           srv'.tx = "committed", srv.tx # "committed"
    PROVE  CallerCommits /\ Commit
  <1>1. srv \in SrvFields /\ hist.plain \in Nat
    BY TypeFields DEF TxInv
  <1>2. \A s \in AfterFailure : s.tx # "committed"
    BY <1>1, FailureTypes
  <1>3. ASSUME NEW s \in Statements, NEW o \in Exec(s) PROVE o.srv.tx # "committed"
    BY <1>1, <1>2, ExecTypes
  <1>4. \A n \in Nat : <<NoBatch, n>> \in Statements
    BY DEF Statements
  <1>5. Statement => FALSE
    <2>1. <<NoBatch, hist.plain + 1>> \in Statements
      BY <1>1, <1>4
    <2> QED BY <1>3, <2>1 DEF Statement, StatementRefused, StatementSent, SendStatement,
                              QueryRowFails
  <1>6. ScanRow \/ ReadFails => FALSE
    BY <1>2 DEF ScanRow, ReadFails
  <1>7. ASSUME NEW b \in Batches,
               \/ Queue(b) \/ QueueLate(b) \/ Send(b) \/ SendAgain(b)
               \/ ReadNothing(b)
               \/ \E query \in BOOLEAN : ReadPipelined(b, query) \/ RunBegins(b, query)
               \/ CloseAgain(b) \/ ClosePipelined(b) \/ CloseSequential(b)
               \/ RowsEnd(b) \/ RowsScanFails(b) \/ ReadSuperseded(b)
        PROVE  FALSE
    BY <1>2, <1>7 DEF Queue, QueueLate, Send, SendRefused, SendNamedArg, SendEmpty, SendOpens,
                SentUnopened, SendAgain, ReadNothing, ReadPipelined, RunBegins, CloseAgain,
                ClosePipelined, CloseSequential, RowsEnd, RowsScanFails, ReadSuperseded
  <1>8. Rollback => FALSE
    BY RollbackEnds DEF Ended
  <1>9. CallerCalls => CallerCommits /\ Commit
    BY <1>5, <1>6, <1>7, <1>8 DEF CallerCalls
  <1>10. CallGoesOn => FALSE
    <2>1. RunGoesOn => FALSE
      <3>1. RunPanics \/ CloseRuns \/ CloseReturns => FALSE
        BY DEF RunPanics, CloseRuns, CloseReturns
      <3>2. ASSUME RunEnds PROVE FALSE
        <4>1. at.b \in Batches /\ at.call \in {"run", "close"} /\ tx.batchExecuting
          BY <3>2 DEF RunEnds, TxInv, CallInv
        <4>2. PICK o \in RunOutcomes(at.b) : srv' = o.srv
          BY <3>2 DEF RunEnds
        <4>3. PICK b \in Batches : b = at.b
          BY <4>1
        <4> QED BY <1>2, <4>1, <4>2, <4>3, RunTypes
      <3> QED BY <3>1, <3>2 DEF RunGoesOn
    <2>2. PipelineNotSent \/ PipelinePanics => FALSE
      BY <1>1 DEF PipelineNotSent, PipelinePanics, Ended, SrvFields
    <2>3. PipelineSends \/ PipelineCloseFails => FALSE
      BY <1>1 DEF PipelineSends, PipelineMaySend, PipelineCloseFails, Ended, SrvFields
    <2> QED BY <2>1, <2>2, <2>3 DEF CallGoesOn, Pipeline
  <1>11. Recovers \/ ContextEnds => FALSE
    BY <1>1 DEF Recovers, ContextEnds, SrvFields
  <1>12. HelperCalls => FALSE
    <2>1. ASSUME HelperSends PROVE FALSE
      <3>1. other.n \in Nat
        BY <2>1, BatchAssumption DEF TxInv, TypeOK
      <3> QED BY <1>3, <1>4, <2>1, <3>1 DEF HelperSends, SendStatement
    <2> QED BY <2>1 DEF HelperCalls, HelperChecks, StatementRefused
  <1>13. Watchdog => FALSE
    <2>1. ASSUME WatchdogFinalizes PROVE FALSE
      <3>1. PICK o \in Finalize(tx, SqlRollback) : srv' = o.srv
        BY <2>1 DEF WatchdogFinalizes
      <3>2. o.srv = srv \/ \E c \in SqlRollback : o.srv = c.srv
        BY <3>1 DEF Finalize
      <3>3. \A c \in SqlRollback : c.srv = srv \/ c.srv.tx = "rolledback"
        BY <1>1 DEF SqlRollback, NotSent, SrvFields
      <3> QED BY <3>1, <3>2, <3>3
    <2> QED BY <2>1 DEF Watchdog, WatchdogReads, WatchdogAbandons
  <1> QED BY <1>9, <1>10, <1>11, <1>12, <1>13

-----------------------------------------------------------------------------
(* The transaction of BeginTx, which one goroutine uses *)

\* Nobody else uses the transaction.
LEMMA UseAlone == UseTx => other' = other
  <1>1. Statement \/ ScanRow \/ ReadFails \/ Commit \/ Rollback => other' = other
    BY DEF Statement, StatementRefused, StatementSent, QueryRowFails, ScanRow, ReadFails,
           Commit, Rollback
  <1>2. ASSUME NEW b \in Batches,
               \/ Queue(b) \/ QueueLate(b) \/ Send(b) \/ SendAgain(b)
               \/ ReadNothing(b) \/ CloseAgain(b) \/ ClosePipelined(b) \/ CloseSequential(b)
               \/ RowsEnd(b) \/ RowsScanFails(b) \/ ReadSuperseded(b)
        PROVE  other' = other
    BY <1>2 DEF Queue, QueueLate, Send, SendRefused, SendNamedArg, SendEmpty, SendOpens,
                SentUnopened, SendAgain, ReadNothing, CloseAgain, ClosePipelined,
                CloseSequential, RowsEnd, RowsScanFails, ReadSuperseded
  <1>3. ASSUME NEW b \in Batches, NEW query, ReadPipelined(b, query) \/ RunBegins(b, query)
        PROVE  other' = other
    BY <1>3 DEF ReadPipelined, RunBegins
  <1>4. RunGoesOn \/ Recovers \/ ContextEnds => other' = other
    BY DEF RunGoesOn, RunEnds, RunPanics, CloseRuns, CloseReturns, Recovers, ContextEnds
  <1> QED BY <1>1, <1>2, <1>3, <1>4 DEF UseTx, CallerCalls

\* The invariant of a transaction of BeginTx.
AloneInv == TxInv /\ LedgerInv /\ OrderInv /\ other.call = "idle"

\* Its steps are of the kinds above.
LEMMA UseKinds ==
    ASSUME AloneInv, [UseTx]_vars
    PROVE  \/ Quiet /\ (at.call \in {"caller", "panic"} \/ srv'.work = srv.work)
           \/ \E b \in Batches :
                 /\ Kept(b)
                 /\ srv'.work = srv.work \/ b = tx.openBatch
  <1>1. TxInv /\ OpenInv
    BY DEF AloneInv, LedgerInv
  <1>2. CASE UNCHANGED vars
    BY <1>1, <1>2, StutterQuiet DEF vars
  <1>3. CASE ContextEnds
    <2>1. srv'.work = srv.work
      BY <1>1, <1>3, TypeFields DEF ContextEnds, SrvFields, TxInv
    <2> QED BY <1>1, <1>3, <2>1, ContextQuiet
  <1>4. CASE Recovers
    BY <1>1, <1>4, RecoversQuiet DEF Recovers
  <1>5. CASE CallerCalls
    BY <1>1, <1>5, CallerKinds DEF CallerCalls
  <1>6. CASE RunGoesOn
    BY <1>1, <1>6, GoesOnKinds DEF CallGoesOn, OpenInv
  <1> QED BY <1>2, <1>3, <1>4, <1>5, <1>6 DEF UseTx

\* The invariant holds of every transaction of BeginTx.
LEMMA AloneInvariant == Spec => []AloneInv
  <1>1. BeginTx => AloneInv
    <2> SUFFICES ASSUME BeginTx PROVE AloneInv
      OBVIOUS
    <2>1. Fresh /\ other.call = "idle"
      BY DEF BeginTx, Fresh, NoOther
    <2> QED BY <2>1, FreshInv DEF AloneInv
  <1>2. AloneInv /\ [UseTx]_vars => AloneInv'
    <2> SUFFICES ASSUME AloneInv, [UseTx]_vars PROVE AloneInv'
      OBVIOUS
    <2>1. TxInv /\ LedgerInv /\ OrderInv
      BY DEF AloneInv
    <2>2. other'.call = "idle"
      BY UseAlone DEF vars, AloneInv
    <2>3. CASE Quiet
      BY <2>1, <2>2, <2>3, QuietKeeps, QuietLedger, QuietOrder DEF AloneInv
    <2>4. ASSUME NEW b \in Batches, Kept(b) PROVE AloneInv'
      BY <2>1, <2>2, <2>4, KeptLedger, MovesOrder DEF AloneInv, Kept
    <2> QED BY <2>3, <2>4, UseKinds
  <1> QED BY <1>1, <1>2, PTL DEF Spec

\* TypeCorrect: a transaction of BeginTx, its batches and their results keep their
\* types: no count of unsent batches below zero, no item read past the last.
THEOREM TypeCorrect == Spec => []TypeOK
  <1>1. AloneInv => TypeOK
    BY DEF AloneInv, TxInv
  <1> QED BY <1>1, AloneInvariant, PTL

\* ClosedBatches: Close (batchresults.go) answers nil only when every statement of
\* the batch took effect, and closed results never hold the transaction.
THEOREM ClosedBatches == Spec => []CloseEndsBatch
  <1>1. AloneInv => CloseEndsBatch
    <2> SUFFICES ASSUME AloneInv, NEW b \in Batches
                 PROVE  /\ batch[b].closedNil /\ srv.tx = "active" => Applied(b)
                        /\ batch[b].results = "closed" => tx.openBatch # b
      BY DEF CloseEndsBatch
    <2> QED BY DEF AloneInv, LedgerInv, AppliedInv, AppliedOK, OpenInv
  <1> QED BY <1>1, AloneInvariant, PTL

\* OrderedBatches: the statements of a batch take effect in the order they were
\* queued, each once.
THEOREM OrderedBatches == Spec => []BatchInOrder
  <1>1. AloneInv => BatchInOrder
    BY DEF AloneInv, OrderInv
  <1> QED BY <1>1, AloneInvariant, PTL

\* OwnedByBatch: from Send until its results are closed, shortCircuit (tx.go) lets
\* only the statements of the open batch through.
THEOREM OwnedByBatch == Spec => BatchOwnsTransaction
  <1> DEFINE Own == tx.openBatch # NoBatch =>
                       \A p \in (Len(srv.work) + 1)..Len(srv'.work) :
                           srv'.work[p][1] = tx.openBatch
  <1>1. ASSUME AloneInv, [UseTx]_vars PROVE Own
    <2> SUFFICES ASSUME tx.openBatch # NoBatch, NEW p \in (Len(srv.work) + 1)..Len(srv'.work)
                 PROVE  srv'.work[p][1] = tx.openBatch
      OBVIOUS
    <2>1. /\ srv \in SrvFields /\ Len(srv.work) \in Nat /\ CallInv /\ other.call = "idle"
      BY <1>1, TypeFields DEF AloneInv, TxInv, SrvFields
    <2>2. srv'.work # srv.work /\ srv'.work # <<>>
      BY <2>1
    <2>3. CASE Quiet /\ (at.call \in {"caller", "panic"} \/ srv'.work = srv.work)
      <3>1. ~batchRefuses
        BY <2>1, <2>2, <2>3 DEF Quiet, WorkStep
      <3>2. ~tx.batchExecuting
        BY <2>1, <2>2, <2>3 DEF CallInv
      <3> QED BY <3>1, <3>2 DEF batchRefuses
    <2>4. ASSUME NEW b \in Batches, Kept(b), b = tx.openBatch
          PROVE  srv'.work[p][1] = tx.openBatch
      <3>1. \E k, n \in Int : Ran(b, k, n)
        <4>1. /\ batch[b].items \in Nat /\ batch[b].next \in Nat
          BY <1>1, BatchAssumption DEF AloneInv, TxInv, TypeOK, BatchFields
        <4>2. Executed(b) \in Int
          BY <4>1 DEF Executed
        <4>3. \A n \in 0..batch[b].items : n \in Int
          BY <4>1
        <4>4. \/ \E n \in 0..batch[b].items : Ran(b, 0, n)
              \/ Ran(b, Executed(b), 1)
          BY <2>2, <2>4 DEF Kept, WorkMoves
        <4>5. 0 \in Int /\ 1 \in Int
          OBVIOUS
        <4> QED BY <4>2, <4>3, <4>4, <4>5
      <3>2. PICK k \in Int, n \in Int : Ran(b, k, n)
        BY <3>1
      <3>3. Len(srv'.work) = Len(srv.work) + n
        BY <3>2 DEF Ran
      <3>4. PICK i \in 1..n : p = Len(srv.work) + i
        <4>1. p - Len(srv.work) \in 1..n /\ p = Len(srv.work) + (p - Len(srv.work))
          BY <2>1, <3>2, <3>3
        <4> QED BY <4>1
      <3>5. srv'.work[p] = <<b, k + i>>
        BY <3>2, <3>4 DEF Ran
      <3> QED BY <2>4, <3>5
    <2> QED BY <1>1, <2>2, <2>3, <2>4, UseKinds
  <1>2. AloneInv /\ [UseTx]_vars => [Own]_vars
    BY <1>1
  <1>3. Spec => [][Own]_vars
    <2> HIDE DEF Own
    <2> QED BY <1>2, AloneInvariant, PTL DEF Spec
  <1> QED BY <1>3 DEF BatchOwnsTransaction

\* CommitsAll: Commit (tx.go) refuses while a batch is unsent or open, so what it
\* commits has every queued statement, or the results of the batch reported a failure.
THEOREM CommitsAll == Spec => CommitDropsNothing
  <1> DEFINE All == srv.tx # "committed" /\ srv'.tx = "committed" =>
                       \A b \in Batches : Applied(b) \/ batch[b].err # "none"
  <1>1. ASSUME AloneInv, [UseTx]_vars PROVE All
    <2> SUFFICES ASSUME srv.tx # "committed", srv'.tx = "committed"
                 PROVE  \A b \in Batches : Applied(b) \/ batch[b].err # "none"
      OBVIOUS
    <2>1. TxInv /\ LedgerInv
      BY <1>1 DEF AloneInv
    <2>2. UseTx
      BY <1>1 DEF vars
    <2>3. Commit
      BY <2>1, <2>2, OnlyCommit DEF UseTx, CallGoesOn
    <2>4. PICK o \in CommitOutcomes : srv' = o.srv
      BY <2>3 DEF Commit
    <2>5. ~batchPending /\ srv.tx = "active"
      BY <2>1, <2>4, Committing
    <2> QED BY <2>1, <2>5, Settled
  <1>2. AloneInv /\ [UseTx]_vars => [All]_vars
    BY <1>1
  <1>3. Spec => [][All]_vars
    <2> HIDE DEF All
    <2> QED BY <1>2, AloneInvariant, PTL DEF Spec
  <1> QED BY <1>3 DEF CommitDropsNothing

=============================================================================
