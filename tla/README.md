# Sequel: a verification project in TLA+

Sequel is a Go package over `database/sql`: it opens and shares connection pools, rewrites
statements for six databases and caches the result, runs closures in transactions that are
retried, sends statements in batches, migrates schemas from several replicas at once, and
provisions databases for tests. These modules model the parts of it that keep state and the
rewriting of statements and check them with TLC on small instances. With TLAPS the safety of
every part that keeps state is proved for any instance, and of the rewriting the loops that
number placeholders and take comments out, for any text. Three abstract specifications say
what a part promises: that `Transact` is an atomic transaction, that the cache with its registry
answers as a registry without a cache would, and that replicas together keep one log of
migrations. Each is shown to be implemented, by TLC and by a proof.

## The system

| Part | State | Operations | What is hard about it |
|---|---|---|---|
| Query cache (`querycache.go`) | map of prepared statements, eviction ring and hand, generation | `lookup`, `insert`, `clear` | lookups take no lock; an entry is computed outside the mutex while the functions it is computed with change; the sweep races the hits |
| Virtual function registry (`vf.go`) | a published immutable map | `RegisterVirtualFunc`, `unregisterVirtualFunc` | clone-and-swap by several goroutines, then a clear of the cache |
| Transaction (`tx.go`, `stmt.go`, `rows.go`, `Row` in `telemetry.go`) | recorded error, batch bookkeeping, done | statements, reads, `Commit`, `Rollback` | errors the closure ignores or sees late; a second goroutine; servers that undo a transaction behind the client's back |
| Batch (`batch.go`, `batchresults.go`, `batchrows.go`, `batchrow.go`) | queued items and outcomes; results, their position, failure and open rows | `Queue`, `Send`, `Exec`, `Query`, `QueryRow`, `Close` | two ways to execute; results half read; panics; the end of the transaction under open results |
| Transact (`db.go`) | attempt, held connection | `Transact` | commit, rollback, release and retry must come in that order on every path |
| Migration (`db.go`) | rows of `sequel_migrations`; per DB a ready flag | `Migrate` | replicas share only the table; leases on the database's clock; any call may fail, any process may die |
| Handles, testing databases (`db.go`) | singletons, reference counts, cached DSNs, anchors | `Open`, `OpenSingleton`, `Close`, `CreateTestingDatabase` | sections under different mutexes; DROP and CREATE outside the global one |
| Telemetry (`telemetry.go`, setters in `db.go`) | providers, pool-statistics callback, learned verbs | setters, callback, `label` | lock order between callback and setters; a capped set |
| SQL text (`sqllex.go`, `vf.go`, `conformPlaceholders`, `stripLineComments`) | none | scanning and rewriting | quoting, nesting, off-by-one |
| DSNs, error classes, spans, latency simulation, null helpers | none | conversions | - |

How they interact: every statement of `DB`, `Tx` and `Stmt` goes through the cache; `Batch`
is a part of `Tx` and sends either around it, on the pgx connection `Transact` holds, or
through it, statement by statement; `Transact` makes a `Tx` with `autoErr` set, `BeginTx`
one without; `Migrate` and `CreateTestingDatabase` use a `DB`; `Close` of the last handle
drops a testing database.

What makes each part correct is stated as the properties below. What is hard to test is
listed, line by line, under `hazards` in `PROJECT.json`.

## The modules

| Module | Models |
|---|---|
| `QueryCache` | the cache and the registry |
| `Registry` | what the two promise: an abstract specification that `QueryCache` is shown to implement |
| `MCQueryCache` | its symmetry sets for TLC |
| `QueryCacheProofs` | its theorems, and that it implements `Registry` |
| `Tx` | one transaction and its batches, over an external database transaction; alone it is a transaction of `BeginTx` |
| `TxProofs` | its theorems |
| `Transact` | extends `Tx`: attempts of a closure |
| `AtomicTransaction` | what `Transact` promises: an abstract specification that `Transact` is shown to implement |
| `TransactProofs` | the theorems of `Transact`, and that it implements `AtomicTransaction` |
| `Migrate` | replicas running the migrations of one sequence |
| `MigrationLog` | what `Migrate` promises: an abstract specification that it is shown to implement |
| `MCMigrate` | which replica has which files |
| `MigrateProofs` | the theorems of `Migrate`, and that it implements `MigrationLog` |
| `TestingDatabase` | handles on one testing database of one process |
| `TestingDatabaseProofs` | its theorems |
| `Telemetry` | providers, the pool-statistics callback and the labels of a shared `*DB` |
| `TelemetryProofs` | its theorems |
| `Lexer` | texts, and where literals and comments in them end (operators) |
| `Placeholders` | the loops of `conformPlaceholders` and `skipQuoted` |
| `PlaceholdersProofs` | its theorems |
| `StripComments` | the loops of `stripLineComments` |
| `Hours` | the split of milliseconds into hours and a rest (operators) |
| `TextProofs` | the theorems of `StripComments` and `Hours` |
| `SqlText` | the virtual functions and their handlers (operators) |
| `Unpack` | `UnpackQuery` step by step, over `SqlText`, and the calls that `Placeholders` and `StripComments` model |
| `MCUnpack` | the texts that they are called with |

An operator under a comment that begins with
"Mutant:" is a faulty variant of the definition below it. No specification uses it. It shows
that a property notices the fault.

### QueryCache

A goroutine's access to shared memory is one step: a hit loads the map (`LookupHit`) and marks
the entry later (`LookupMark`), by when it may have left the map (`linked`). A miss reads the
generation, computes, and inserts; `insert` and `clear` are cut where a lock-free reader can
see the middle: the sweep flag by flag, between delete and store, between the new generation
and the cleared map. A prepared statement is abstracted to the *version* of the registry it
was expanded with; `settled` and `since` record which registrations had returned, and when.

`Registry` has no cache, no eviction and no generations: a registration takes effect when it is
published and returns some time after; a lookup answers at one instant between its call and its
return, with a version of the registry published by then (`version`) and no older than any
registration that had returned when it was called (`since`). The mapping (`Abstract` in
`QueryCache`) takes the names and the version from `virtualFuncs`, lets a lookup have answered
once it read its statement from the map or is past its insert (`Answered`), and forgets the
cache.

### Tx and Transact

`srv` is the database's side and is external: a failed statement aborts the transaction on
PostgreSQL; elsewhere it may leave it, or undo all of it (`"lost"`: a deadlock, `XACT_ABORT`),
and then a statement sent on it takes effect by itself (`stray`). `Commit` may fail after it
took effect, or be refused with the transaction still open. `tx` and `batch` are the fields of
`Tx`, `Batch` and `BatchResults`. An error is `"error"` or `"contention"`, the class
`IsLockContentionError` gives it. Each method is an action, split in two where another
goroutine can come between: a batch statement (`RunBegins`, `RunEnds`), the pipelined send,
the loop of `Close`, and a watchdog's `Rollback`. The closure is arbitrary code that ignores
errors; a second goroutine issues statements, or is a watchdog, as `Helpers` says.

Left to the caller's good behaviour, as the code's comments ask: a closure scans its `Row`s
before it returns and does not commit by itself, and rows it has closed are not scanned again.

`AtomicTransaction` is the promise without the machinery: statements are asked for, all of
them become durable in one step or none does, and nil is answered only when they did. The
mapping (`Abstract` in `Transact`) takes as asked what the closure of the current attempt
issued or queued, as durable what the server holds once an attempt committed, and as the
answer what `Transact` returned. A retry is an attempt whose requests are forgotten; a commit
whose acknowledgement is lost is an answer of failure after it. A statement that a lost
transaction lets through by itself is not part of the mapping: that is `NothingOutside`.

### Migrate

The step between two calls to the database is one action per call; each may fail before or
after it took effect. Time is the database's clock in ticks of 5 s (the renewal period), so a
lease (15 s) is 3 ticks, and a row keeps how many it has left. The goroutine that runs the
statements and the loop that extends the lock interleave. A crash takes the process's
statements with it and loses its ready flag. `DatabaseRecreated` is a database made anew
under open `DB`s. `Timely` is the timing assumption: a holder extends its lock, or is done,
before the lease lapses.

`MigrationLog` has no rows, no leases and no statements one by one. Each migration is executed
by one replica at a time, which may start when all those numbered before it are in the log and
it is not; it enters the log after it was applied; a call answers nil when the log holds all the
replica has; and it may fail, or the replica die, at any time. The mapping (`Abstract` in
`Migrate`) reads the log from the completed rows, what is applied from the runs that got to the
last statement (`ran`), and who executes what from who holds which lock (`HoldsLock`).

### TestingDatabase

One test ID of one process. A section under `testingGlobalMutex` is a step; `DROP` and
`CREATE` are steps of their own, and may fail. `db.id` counts the databases made under the
name; `closed` are those whose last handle was closed. A SQLite database lives as long as
its anchor.

### Telemetry

One shared `*DB` of a DSN that is not a testing database's, opened, configured, used and
closed by goroutines, and the process's set of verbs. A section under `db.mutex` is one step,
cut where it waits for a provider's lock and where the callback, which takes no mutex, can see
a state in between (`ClosePool`, `CloseDB`). The meter provider is external: it holds its
lock while it runs the callbacks, and `RegisterCallback` and `Unregister` take that lock. So
`SetMeterProvider` and `Close` wait, with `db.mutex` held, for callbacks to end. A
registration may fail. A provider or logger is `"default"` or `"own"`. `label` is the load
without the mutex (`LabelLoads`) and the second look under it (`LabelLearns`); a statement that
is cached skips both. `reported` and `bucketed` record the labels that were given.

### The SQL text

A text (`Lexer`) is a sequence of characters `<<symbol, n, arg>>`. A word, a number or the name
of a function is one character. `arg` tells which `?` of the statement a placeholder or ordinal
stands for: no operator of the code looks at it, and `BindingsKept` and `OrdinalsRight` compare
it before and after. `skipNonCode` and what it calls are operators that say where a literal or
a comment ends.

The loops of three functions are state machines of their own, a turn a step. `Placeholders` is
`conformPlaceholders`, with its fast path, which jumps from `?` to `?`, and its slow one, which
scans, and `skipQuoted`, the loop inside it, which looks two characters ahead:
`LiteralsEndRight` compares where that comes to with the rule stated on the runs of quotes and
backslashes in `Lexer`. `StripComments` is `stripLineComments`, a second scanner that only
knows in which quote it is: `StripKeepsCode` compares what it leaves with the scan of
`conformPlaceholders`, for each database. `Starts` is that scan as a least fixed point.

`SqlText` has the rest as operators that follow the functions: `findBalancedClose`,
`lastTopLevelComma`, `parseJSONPath`, `expandOnce` and the six handlers. What a handler writes
for a database is abstracted to the places of its arguments, quotes, commas and numbers. The
arithmetic of `DATE_ADD_MILLIS` is in `Hours`. `Unpack` is `newPreparedQuery` step by step:
number (SQL Server), passes of `expandOnce` until one finds no call, number (PostgreSQL), or an
error; its runs also call what the other two modules model. Within `Unpack` numbering is one step,
by operators of `SqlText`. `REGISTERED` is a function of the program whose result holds a `?`
of its own. Drivers are `mysql`, `pgx`, `mssql` and `sqlite`; MariaDB is handled as MySQL and
CockroachDB as PostgreSQL.

## What is checked

| Run | Properties | Bounds |
|---|---|---|
| `query_cache` | `NoStaleEntry`, `FreshResult`, `RingMatchesEntries`, `NoLostRegistration`, `ImplementsRegistry` | 2 lookups, 2 registrars, 3 statements, capacity 0 to 2, 2 registrations |
| `query_cache_live` | `CallsReturn` | 2 lookups, 1 registrar, 2 statements, capacity 1, 2 registrations |
| `transact` | `NoPartialCommit`, `RetryAfterRollback`, `ImplementsAtomic` | 2 batches of 1, 1 statement, a second goroutine, late `Scan`, 2 attempts |
| `transact_live` | `BatchInOrder`, `NothingOutside`, `TransactReturns` | a watchdog, 1 batch of up to 2, 1 statement, 2 attempts |
| `begin_tx` | `CloseEndsBatch`, `BatchOwnsTransaction`, `CommitDropsNothing` | 2 batches of up to 2, 1 statement |
| `migrate` | `OneRunnerAtATime`, `CompletedRan`, `RunsInOrder`, `ImplementsLog`, `ErrorHasCause`, `CallsReturn` | 2 replicas of two releases (1 and 2 migrations), 2 calls each, 2 statements, 2 faults |
| `testing_database` | `RefsCountHandles`, `PoolFollowsOpeners`, `SQLiteLasts`, `SelfCleaning`, `ProvisionedOnce` | 3 goroutines, 2 calls each, both engines |
| `telemetry` | `OneCallback`, `NoClosedPoolRead`, `LabelsStable`, `SettersKept`, `CapWarned`, `CallsReturn` | 2 goroutines, 2 providers, 2 pools, 3 registrations, a cap of 2 over 1 seeded and 2 other verbs |
| `sql_text` | `BindingsKept`, `StripKeepsCode`, `MillisKept`, `PrecisionKept`, `PathsAgree`, `UnpackEnds`, `LiteralsEndRight`, `OrdinalsRight` | `UnpackQuery`: every sequence of up to 3 of 14 pieces, and the same after an opened call, 12 calls in pairs and nested, ±9 ms with an hour of 4, every path of up to 4 characters; `ConformArgPlaceholders`: every text of up to 4 of 12 symbols, and of up to 4 of 7 in a literal; `stripLineComments`: every text of up to 5 of 6 symbols, and of up to 6 of 3 |

The other modules state their types as `TypeOK` too, which the theorems prove.

Why the bounds are enough to meet the cases: three statements over two slots make every
insert evict while both goroutines hold or want entries; two registrations are the fewest
that can lose one; two batches are the fewest of which one is open while the other is queued
or unsent, and two items leave one read and one for `Close`; two
attempts have a retry and a last one; `pgx` and `mssql` between them take every path, the
other databases behaving like SQL Server without `XACT_ABORT`; two faults allow a failure while recovering from a
failure; three handles have a close that is neither the first nor the last. In `telemetry` the
cap leaves room for one of the two verbs, so that two first sightings race for the last slot
(128 in the code); two pools have a reopening, three registrations one on open and two by
setters, or one for the second pool. In `sql_text` three pieces open a quote, hide a mark or a bracket in it and close it again, the
call around them being open already; four symbols in a literal hold an escaped quote, a doubled
one and its end; six hold a doubled quote in a literal before a comment; nine milliseconds are more than two hours of four, on both
sides of zero; four characters hold paths of two elements (`x.x`, `x[0]`) and every way to
break a path of one. `Nat` counters are bounded by `MaxVersion`, `MaxItems`, `MaxPlain`,
`transactMaxAttempts` (8 in the code), `MaxFaults`, `MaxCalls`, `MaxPools` and
`MaxRegistrations`; texts by `MaxPieces`, `MaxPath`, `MaxMillis`, `MaxText`, `MaxInside` and
`MaxSegment`.

Deadlock is checked except in `Migrate` and `TestingDatabase`, where the system stops once
every caller has used up its calls, in `Telemetry`, where it stops once the pools are used up,
and in `Unpack`, where a text that is rewritten is done. That nobody waits on anybody
for ever in `Telemetry` is `CallsReturn`.

### Fairness

- `query_cache_live`: goroutines are scheduled (weak fairness); a goroutine waiting for
  `sync.Mutex` is strongly fair, since a waiter that was passed over for 1 ms is handed it.
- `transact_live`: `Transact` goes on and the database answers (weak fairness); the closure
  is the caller's, and is assumed to return (strong fairness on its end, since a call it is
  in the middle of disables its return). Nothing is assumed of the watchdog.
- `migrate`: replicas go on, statements end, the clock advances (weak fairness), and a
  result that waits on `done` is received: each turn of the `select` makes a new timer of
  5 s, so the result is the only ready case. No failure is assumed to happen or to stop.
- `telemetry`: a goroutine that has `db.mutex` or is past it is strongly fair, since it may be
  waiting for a provider's lock, a `sync.Mutex` that is free again and again; a collection that has begun goes on
  (weak fairness). No collection is assumed to begin, and nobody to call anything.

### Disagreements

Three runs show that what the repository says of itself does not hold; `findings` quotes the
lines.

- `transact_watchdog`: a watchdog's `Rollback` first closes the open batch and then ends the
  transaction. In between, `Transact` finds no pending batch and commits without its
  statements.
- `migrate_stall`: without `Timely` two replicas run one migration at once.
- `testing_late_drop`: the `DROP` of a last close hits the database provisioned since.

### Limits

What the models show beside that, and a user should know. The first is why `transact` runs
with no watchdog; the second and third can be reproduced by changing the constants named.

- A watchdog's `Rollback` is not safe against a `Transact` that is about to commit.
- While a batch statement runs, other goroutines' statements are not refused (`Helpers =
  {"statement"}` with `BatchOwnsTransaction`), which is why that is checked with one goroutine.
- Statements between a failed `QueryRow` and its `Scan` are sent, and on a server that undid
  the transaction they take effect (`LateScan = TRUE` with `NothingOutside`), which is why
  `transact_live` scans its `Row`s at once. Likewise a second goroutine that has passed
  `shortCircuit` when another's deadlock undoes the transaction is already on its way.
- A migration that ran and whose mark was lost (a crash, a failed `UPDATE`) runs again, on any
  replica; a file added later with a number below the watermark is never run, and `Migrate`
  returns nil.
- A cached testing DSN that is opened after the last handle was closed leaves a handle under
  which the next `CreateTestingDatabase` makes the database anew.
- The one warning of a process that labels are being dropped goes to whatever logger the first
  such statement loaded, and may be spent on a default one that discards it.
- A comment or a bracket among the arguments of a virtual function is not seen:
  `findBalancedClose` and `lastTopLevelComma` know only quotes, and trimming drops the newline
  that ends a line comment, so that the comment swallows what follows. `Interrupted` takes such
  statements out of `BindingsKept`.
- `stripLineComments` takes `--` for a comment within brackets, block comments and bodies
  between dollars, has no backslash escapes, and takes a backtick for a quote on every database.
  `Plain` in `StripKeepsCode` leaves such texts out, for the databases they matter to.
- A `?` in the column of `JSON_FIELD` on MySQL, where the column is written twice (the code's
  comment says so), or among the columns of `REGEXP_TEXT_SEARCH`, binds other values; a
  parenthesised `NOW_UTC(0)` is not widened; `$x` is taken for the path `$.x`.
- A `Row` that is never scanned, and whose `Err` is never called, keeps its error, and the
  transaction commits without it; `Row`'s comment asks for `Scan`, and the closures modelled
  call it.
- Migration files `0.sql` and below are never run, and `1.sql` beside `01.sql` share a number.
- A registered function whose result calls the function itself expands for ever.

## What is proved

Every theorem holds for every value of the constants that the named assumptions of the module
allow: any number of goroutines, replicas, batches, statements, attempts, names and pools. What
a theorem needs beyond them stands in its `ASSUME`.

| Module | Theorem | States | Needs |
|---|---|---|---|
| `QueryCacheProofs` | `TypeCorrect` | `TypeOK` | |
| | `EntriesFresh` | `NoStaleEntry` | |
| | `ResultsFresh` | `FreshResult` | |
| | `RingMatches` | `RingMatchesEntries` | |
| | `RegistrationsKept` | `NoLostRegistration` | |
| | `CacheIsTransparent` | `ImplementsRegistry` | |
| `TxProofs` | `TypeCorrect` | `TypeOK` | |
| | `ClosedBatches` | `CloseEndsBatch` | |
| | `OrderedBatches` | `BatchInOrder` | |
| | `OwnedByBatch` | `BatchOwnsTransaction` | |
| | `CommitsAll` | `CommitDropsNothing` | |
| `TransactProofs` | `TransactTypeCorrect` | `TransactTypeOK` | |
| | `TransactOrdersBatches` | `BatchInOrder` | |
| | `AttemptsAreSeparate` | `RetryAfterRollback` | no commit by the closure |
| | `CommitsWhole` | `NoPartialCommit` | the same, no watchdog |
| | `TransactIsAtomic` | `ImplementsAtomic` | the same, no watchdog |
| | `ClosedBatchesInTransact` | `CloseEndsBatch` | no watchdog |
| | `StaysInside` | `NothingOutside` | `Row`s scanned at once, no second goroutine's statements |
| `MigrateProofs` | `TypeCorrect` | `TypeInv` | |
| | `MutualExclusion` | `OneRunnerAtATime` | `Timely` |
| | `CompletedMigrationsRan` | `CompletedRan` | |
| | `ErrorsHaveCauses` | `ErrorHasCause` | |
| | `MigrationsRunInOrder` | `RunsInOrder` | `Cumulative` |
| | `NilMeansAllCompleted` | `NilMeansMigrated` | `Cumulative` |
| | `MigrateKeepsLog` | `ImplementsLog` | `Timely`, `Cumulative` |
| `TelemetryProofs` | `TypeCorrect` | `TypeOK` | |
| | `CallbackUnique` | `OneCallback` | |
| | `ClosedPoolsUnread` | `NoClosedPoolRead` | |
| | `LabelsBounded` | `LabelsStable` | |
| | `DropsAreWarned` | `CapWarned` | |
| | `SettersKeepOthers` | `SettersKept` | |
| `TestingDatabaseProofs` | `TypeCorrect` | `TypeOK` | |
| | `RefsAreHandles` | `RefsCountHandles` | |
| | `PoolIsOpeners` | `PoolFollowsOpeners` | |
| | `SQLiteStays` | `SQLiteLasts` | |
| | `CleansUp` | `SelfCleaning` | |
| | `ProvisioningShared` | `ProvisionedOnce` | |
| `PlaceholdersProofs` | `TypeCorrect` | `TypeOK` | |
| | `LiteralsEnd` | `LiteralsEndRight` | |
| | `OrdinalsAreRight` | `OrdinalsRight` | |
| `TextProofs` | `StripTypeCorrect` | `StripTypeOK` | |
| | `StripsComments` | `StripKeepsCode` | |
| | `MillisSplit` | `SplitRight` | |

The hypotheses are what the code asks of its callers or depends on, and the runs or the limits
above show what happens without them:

- *no commit by the closure* (`~CallerCommits`): `Transact` documents that it commits.
- *no watchdog* (`"watchdog" \notin Helpers`): the run `transact_watchdog` is the
  counterexample. A second goroutine that issues statements is allowed.
- *`Row`s scanned at once, no second goroutine's statements*: the third limit above.
  A watchdog is allowed here.
- `Timely`: a lock is extended, or its holder done, before the lease of 15 s lapses. The run
  `migrate_stall` is the counterexample.
- `Cumulative`: a later release keeps the files of an earlier one and adds only files after
  them. `Migrate` reads only the watermark; the limit on a file below it is the
  counterexample. `ReleasesAssumption` in `MCMigrate` checks that the run's releases are so.

The named assumptions say that bounds are numbers, that sets of names do not overlap, that
there are finitely many replicas and files (`RunnersAssumption`, `FilesAssumption`), and that the seeded verbs fit under the cap (`CapAssumption`).

### Along which argument

Hardly any of the properties is inductive. The invariants that are, by module; each was an invariant
of a TLC run before it was proved:

**QueryCache** (`IInv`). `LockInv`: who is inside a critical section holds its mutex.
`CallInv`: a lookup is linked only between load and mark and only to an entry the map still
holds. `RingInv`: the ring has no duplicates and covers the map, and the map covers the ring
except for the statement an evicting insert is about to store. `FreshInv` is why the generation
is enough: a statement computed under a generation that is still the current one is at least as
new as every registration that has returned (`settled`) or is past its bump and still clearing
(`mine`), and an insert that holds the mutex has the current generation. `CloneInv`: a clone
that waits to be published differs from the registry by one name.

For the refinement `CloneInv` gives that a published clone is one registration more, `FreshInv`
that what a lookup returns is as new as every registration that had returned when it began, and
`BoundInv` that no entry and no statement under way was expanded with a registry that is not yet
published. `LookupStepMaps` and `LookupRefines` then map every step of a lookup (a hit, a miss,
an insert with its sweep) to one of `Registry` or a stutter, and `RegistrarRefines` every step
of a registration, its clear of the cache included.

**Tx**. `TxInv` holds whatever the goroutines do: a call under way is on a batch that was sent,
nothing is read of a batch past its items, the count of unsent batches is their number, only a
transaction that is over is done. `LedgerInv` holds while no watchdog rolls back under the
batch: the transaction is held by the batch whose results are open and by no other (`OpenInv`);
what the results say worked is in the work (`AppliedInv`); in `Transact` no failure goes
unrecorded, except one that waits in a `Row` or in the results that hold the transaction
(`RecordInv`). `OrderInv` counts the items of a batch in the work, which is what puts the next
one in its place. `AskedInv`: only what was asked for is in the work, and all of it is unless
something failed or is on its way.

There are many actions, and most concern one part of the state. So each action is shown to be
of one of two kinds: `Quiet`, which leaves the batches and the calls under way alone, or
`Kept(b)`, which moves one batch on. Each invariant is shown to be preserved by
the kinds, and no invariant is argued action by action.

**Transact**. The same kinds, and three more: a watchdog's step, the failure of `setXactAbort`,
a new `BEGIN`. `PlaceInv` and `StageInv` say what holds where `Transact` is: no connection
between attempts, nothing committed before the commit, an attempt over before the next.
`LostInv`: while the closure runs, the loss of the transaction is on record or in a `Row`.
`SealInv`: what reaches the commit has no recorded error, no open `Row` and nothing on its way;
`LedgerInv` and `AskedInv` then give that the work is exactly what was asked for (`Whole`).
For the refinement `StepMaps` shows that every step between states of `AtomicInv` maps to
`Ask`, `Commit`, `Answer` or a stutter of `AtomicTransaction`.

**Migrate**. `LeaseInv`: the ticks a lock has left and the time since its holder extended it
add up to the lease at least, so a holder that extends in time is alone. `RanInv`: who is about
to mark a migration ran it. `BlameInv`: who is about to return an error saw a failure.
`OrderInv`: the migrations completed are an initial segment, and so are those a call has
behind it. Together (`LogInv`) they carry the refinement: `LeaseInv` gives that who begins finds
no other holder, `OrderInv` that what it begins is the next, `RanInv` that what it completes has
run; `StepMaps` maps every call to the database to a step of `MigrationLog` or a stutter.

**Telemetry** (`IInv`). `SectionInv` and `HandleInv`: a section holds `db.mutex`, and the
reference count is the number of handles. `CallbackInv`: what is registered is what the
telemetry names, and nothing is in the middle of a section. `CollectInv`: a collection under
way has a callback registered, so the pool it reads is open: this is what `Unregister`, waiting
for the provider's lock before the pool is closed, buys. `LabelInv`: a verb is bucketed only
when the labels are full, for good.

**TestingDatabase** (`IInv`). `MuxInv` and `SingleInv`: what a goroutine that provisions, or
closes last, keeps others from. `CountInv`: the two counts are those of the handles. `LifeInv`:
a SQLite database lasts from the first handle to the last, and a server's whose last handle is
closed is dropped or about to be.

**Placeholders**. What a loop computes for every text would be an induction over the text; as the
loop is a state machine, it is an invariant. `HeadAt`, the invariant of `skipQuoted`
(`QuoteInv`): at the head of the loop the runs of backslashes and of quotes just before it are
even, and no quote behind it ends the literal. One lemma for each kind of turn (`HeadEscapes`,
`HeadDoubles`, `HeadMoves`) keeps it, and two say what it gives at the end (`HeadEnds`,
`HeadRunsOut`). `SkipInv`: what is skipped is what `skipNonCode` says. `ScanInv`: the scan is
where something starts, and nothing starts between a start and the next (`NextStart`, from
`Starts` being least). `SoFar`: what is written is the text so far with its ordinals
(`NumbersBelow`), and the next ordinal counts the marks behind. On the fast path everything
starts something, since nothing hides a `?` (`AllStart`).

**StripComments** (`StripInv`). The scanner has less state than the scan it is compared with, so
`InText` says where the scan of each database is while it is inside a quote, outside, or
outside between the two quotes of a doubled one, where the database is inside: that the next
character is a quote is what makes the difference harmless. `HeadAt` serves here too. `InComment`: from the
start of the comment on there is no end of a line; what is written is what the scan keeps
(`SelectsBelow`).

What the least or greatest of a finite set is (the order of files, the watermark, the first
failed item, the limits of a pool) would be an induction over data. `FiniteEnds` and its
relatives take instead the counterexample that is least by inclusion, or by a well-founded
order, and remove an element from it.

### Only model-checked

- Liveness: `CallsReturn` of `QueryCache`, `Migrate` and `Telemetry`, and `TransactReturns`.
  Fairness is beyond the prover.
- `BindingsKept`, `PrecisionKept`, `PathsAgree` and `UnpackEnds` of `Unpack`: the handlers and
  the scan for calls are recursive over texts and over each other's results, and what they compute for every
  input takes an induction that is out of the prover's reach. `MillisKept` adds up a whole
  statement; of the one split it rests on, `MillisSplit` is proved.

## What is not modelled

- Data source names, and how `parseOperation` cuts the leading token from a statement:
  formatting, with no state.
- Drivers' error codes. The models take the class of an error as given.
- Spans, metrics, logs, simulated latency: output only. Null helpers and `Executor`:
  conversions.
- What a database computes with the text it is given.
- The sweep of leftover testing databases of other processes, which goes by the hour: it spares
  the hours around its process's start, so a test run of more than an hour can lose its
  databases to a run started later.
- A server that goes on running a statement after the client was told it is cancelled, beside
  the next holder's of a migration lock.
- Misuse the code does not guard against: a shared `*DB` that one opener closes twice, which
  takes another opener's reference; a provider set after `Close`, whose callback nothing
  unregisters; a closure of `Transact` that commits by itself, to which `Transact` answers
  `ErrTxDone`.

## Plan

Done: every component with state is modelled. Every safety property of its runs is proved, and
so are three refinements: of `AtomicTransaction` by `Transact`, of `Registry` by `QueryCache`,
of `MigrationLog` by `Migrate`. The loops that rewrite texts are modelled turn by turn and
proved for every text.

Next: an abstract specification of telemetry, one callback that moves with its provider;
`findBalancedClose` and `lastTopLevelComma` as loops, with the proof that a call ends at the
bracket that closes it.
