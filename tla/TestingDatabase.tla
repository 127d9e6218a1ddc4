-------------------------- MODULE TestingDatabase ---------------------------
(***************************************************************************)
(* The life of a testing database (db.go): CreateTestingDatabase           *)
(* provisions it, Open and OpenSingleton retain it, and the Close of the   *)
(* last handle drops it.  One process, one test ID; goroutines call in any *)
(* order.  A section under testingGlobalMutex is one step; the statements  *)
(* sent to the server are outside it.                                      *)
(*                                                                         *)
(* The sweep of leftovers at the end of CreateTestingDatabase spares the   *)
(* names of the process's own hour, so it does nothing to this database.   *)
(***************************************************************************)
EXTENDS Integers, FiniteSets

CONSTANTS Users,     \* goroutines
          Nil,
          Engines,   \* kinds of database to run on: "server", "sqlite"
          MaxCalls   \* bound: databases each goroutine asks for

ASSUME EngineAssumption == Engines \subseteq {"server", "sqlite"}
ASSUME NilAssumption == Nil \notin Users
ASSUME CallsAssumption == MaxCalls \in Nat

VARIABLES
    engine,
    db,         \* external: does the database exist, and which one it is
    cached,     \* testingDSNs and testingDBKeys have the database
    mux,        \* testingMutexes: who holds the test's mutex
    refs,       \* testingDBRefs
    anchor,     \* testingAnchors: the connection that pins a SQLite database
    single,     \* the *DB of OpenSingleton: mutex, open pool and refCount
    pc,         \* where each goroutine is
    shared,     \* is its handle the one of OpenSingleton?
    calls,      \* calls of CreateTestingDatabase
    closed,     \* history: the databases whose last handle was closed
    failed      \* history: a DROP failed

vars == <<engine, db, cached, mux, refs, anchor, single, pc, shared, calls, closed, failed>>
state_vars == <<db, cached, mux, refs, anchor, single, closed, failed>>

Labels == {"idle", "mux", "recheck", "drop", "create", "cache", "dsn", "open",
           "release", "dropLast"}

Singles == [mutex : Users \cup {Nil}, open : BOOLEAN, refCount : Nat, maxIdle : Nat, maxOpen : Nat]

\* The types of the goroutines, and of the counts.
CallsOK ==
    /\ engine \in {"server", "sqlite"}
    /\ mux \in Users \cup {Nil}
    /\ refs \in Nat
    /\ pc \in [Users -> Labels]
    /\ shared \in [Users -> BOOLEAN]
    /\ calls \in [Users -> 0..MaxCalls]
    /\ closed \in SUBSET Nat

\* The types of the process's maps, the singleton and the goroutines.
TypeOK ==
    /\ CallsOK
    /\ db \in [exists : BOOLEAN, id : Nat]
    /\ single \in Singles
    /\ cached \in BOOLEAN
    /\ anchor \in BOOLEAN
    /\ failed \in BOOLEAN

Init ==
    /\ engine \in Engines
    /\ db = [exists |-> FALSE, id |-> 0]
    /\ cached = FALSE
    /\ mux = Nil
    /\ refs = 0
    /\ anchor = FALSE
    /\ single = [mutex |-> Nil, open |-> FALSE, refCount |-> 0, maxIdle |-> 0, maxOpen |-> 0]
    /\ pc = [u \in Users |-> "idle"]
    /\ shared = [u \in Users |-> FALSE]
    /\ calls = [u \in Users |-> 0]
    /\ closed = {}
    /\ failed = FALSE

Goto(u, label) == pc' = [pc EXCEPT ![u] = label]

Fresh == [exists |-> TRUE, id |-> db.id + 1]
Gone == [db EXCEPT !.exists = FALSE]

-----------------------------------------------------------------------------
(* CreateTestingDatabase *)

Create(u) ==
    /\ pc[u] = "idle"
    /\ calls[u] < MaxCalls
    /\ calls' = [calls EXCEPT ![u] = @ + 1]
    /\ Goto(u, IF cached THEN "dsn" ELSE "mux")
    /\ UNCHANGED <<engine, shared>> /\ UNCHANGED state_vars

LockMux(u) ==
    /\ pc[u] = "mux"
    /\ mux = Nil
    /\ mux' = u
    /\ Goto(u, "recheck")
    /\ UNCHANGED <<engine, db, cached, refs, anchor, single, shared, calls, closed, failed>>

\* Mutant: what another goroutine did while this one waited is not looked at.
RacedAheadNever == FALSE

\* Another caller raced ahead.
RacedAhead == cached

Recheck(u) ==
    /\ pc[u] = "recheck"
    /\ IF RacedAhead
       THEN mux' = Nil /\ Goto(u, "dsn")
       ELSE mux' = mux /\ Goto(u, IF engine = "sqlite" THEN "cache" ELSE "drop")
    /\ UNCHANGED <<engine, db, cached, refs, anchor, single, shared, calls, closed, failed>>

\* DROP DATABASE IF EXISTS; a server may refuse it for a database in use.
ProvisionDrops(u) ==
    /\ pc[u] = "drop"
    /\ \/ db' = Gone /\ mux' = mux /\ Goto(u, "create")
       \/ db' = db /\ mux' = Nil /\ Goto(u, "idle")
    /\ UNCHANGED <<engine, cached, refs, anchor, single, shared, calls, closed, failed>>

ProvisionCreates(u) ==
    /\ pc[u] = "create"
    /\ \/ db' = Fresh /\ mux' = mux /\ Goto(u, "cache")
       \/ db' = db /\ mux' = Nil /\ Goto(u, "idle")
    /\ UNCHANGED <<engine, cached, refs, anchor, single, shared, calls, closed, failed>>

CacheDSN(u) ==
    /\ pc[u] = "cache"
    /\ cached' = TRUE
    /\ mux' = Nil
    /\ Goto(u, "dsn")
    /\ UNCHANGED <<engine, db, refs, anchor, single, shared, calls, closed, failed>>

-----------------------------------------------------------------------------
(* Open and OpenSingleton *)

\* retainTestingDatabase: the first handle on a SQLite database anchors it, which
\* makes the database unless a connection still holds it.
Retain ==
    /\ refs' = refs + 1
    /\ IF engine = "sqlite" /\ refs = 0
       THEN anchor' = TRUE /\ db' = IF db.exists THEN db ELSE Fresh
       ELSE UNCHANGED <<anchor, db>>

Open(u) ==
    /\ pc[u] = "dsn"
    /\ Retain
    /\ shared' = [shared EXCEPT ![u] = FALSE]
    /\ Goto(u, "open")
    /\ UNCHANGED <<engine, cached, mux, single, calls, closed, failed>>

\* Mutant: the database is retained, and then the pool does not open.
OpenFailsRetained(u) ==
    /\ pc[u] = "dsn"
    /\ Retain
    /\ Goto(u, "idle")
    /\ UNCHANGED <<engine, cached, mux, single, shared, calls, closed, failed>>

\* The DSN does not parse, or the anchor cannot connect.
OpenFails(u) ==
    /\ pc[u] = "dsn"
    /\ Goto(u, "idle")
    /\ UNCHANGED <<engine, shared, calls>> /\ UNCHANGED state_vars

\* Ceil(Sqrt(n))
CeilSqrt(n) == CHOOSE k \in 0..n : k * k >= n /\ (k = 0 \/ (k - 1) * (k - 1) < n)

\* Mutant: the pool never shrinks.
adjustConnectionLimitsUp(s) ==
    IF CeilSqrt(s.refCount) <= s.maxIdle THEN s
    ELSE [s EXCEPT !.maxIdle = CeilSqrt(s.refCount), !.maxOpen = 2 * CeilSqrt(s.refCount) + 2]

adjustConnectionLimits(s) ==
    [s EXCEPT !.maxIdle = CeilSqrt(s.refCount), !.maxOpen = 2 * CeilSqrt(s.refCount) + 2]

\* Mutant: a caller that shares the pool retains the database too.
OpenSingletonRetains(u) ==
    /\ pc[u] = "dsn"
    /\ single.mutex = Nil
    /\ Retain
    /\ single' = adjustConnectionLimits([single EXCEPT !.open = TRUE, !.refCount = @ + 1])
    /\ shared' = [shared EXCEPT ![u] = TRUE]
    /\ Goto(u, "open")
    /\ UNCHANGED <<engine, cached, mux, calls, closed, failed>>

\* Under the *DB's mutex: the pool is shared, or opened and the database retained.
OpenSingleton(u) ==
    /\ pc[u] = "dsn"
    /\ single.mutex = Nil
    /\ IF single.open THEN UNCHANGED <<refs, anchor, db>> ELSE Retain
    /\ single' = adjustConnectionLimits([single EXCEPT !.open = TRUE, !.refCount = @ + 1])
    /\ shared' = [shared EXCEPT ![u] = TRUE]
    /\ Goto(u, "open")
    /\ UNCHANGED <<engine, cached, mux, calls, closed, failed>>

-----------------------------------------------------------------------------
(* Close *)

CloseShared(u) ==
    /\ pc[u] = "open"
    /\ shared[u]
    /\ single.mutex = Nil
    /\ IF single.refCount > 1
       THEN /\ single' = adjustConnectionLimits([single EXCEPT !.refCount = @ - 1])
            /\ Goto(u, "idle")
       ELSE /\ single' = [single EXCEPT !.refCount = 0, !.open = FALSE, !.mutex = u]
            /\ Goto(u, "release")
    /\ UNCHANGED <<engine, db, cached, mux, refs, anchor, shared, calls, closed, failed>>

CloseOwn(u) ==
    /\ pc[u] = "open"
    /\ ~shared[u]
    /\ Goto(u, "release")
    /\ UNCHANGED <<engine, shared, calls>> /\ UNCHANGED state_vars

Unlocked(u) == IF single.mutex = u THEN [single EXCEPT !.mutex = Nil] ELSE single

\* Mutant: the anchor stays.
ReleaseLastPinned(u) ==
    /\ refs' = 0
    /\ cached' = FALSE
    /\ UNCHANGED <<anchor, db>>
    /\ closed' = closed \cup {db.id}
    /\ IF engine = "sqlite" THEN single' = Unlocked(u) /\ Goto(u, "idle")
       ELSE single' = single /\ Goto(u, "dropLast")

\* The last handle: the cached DSN goes, and a SQLite database with its anchor.
ReleaseLast(u) ==
    /\ refs' = 0
    /\ cached' = FALSE
    /\ anchor' = FALSE
    /\ db' = IF engine = "sqlite" THEN Gone ELSE db
    /\ closed' = closed \cup {db.id}
    /\ IF engine = "sqlite" THEN single' = Unlocked(u) /\ Goto(u, "idle")
       ELSE single' = single /\ Goto(u, "dropLast")

\* Mutant: every close is the last one.
ReleaseAny(u) ==
    /\ pc[u] = "release"
    /\ ReleaseLast(u)
    /\ UNCHANGED <<engine, mux, shared, calls, failed>>

\* maybeDropTestingDatabase, up to the end of the section.
Release(u) ==
    /\ pc[u] = "release"
    /\ IF refs <= 1 THEN ReleaseLast(u)
       ELSE /\ refs' = refs - 1
            /\ single' = Unlocked(u)
            /\ Goto(u, "idle")
            /\ UNCHANGED <<cached, anchor, db, closed>>
    /\ UNCHANGED <<engine, mux, shared, calls, failed>>

\* The DROP itself, outside every mutex but the *DB's own; an error is ignored.
DropLast(u) ==
    /\ pc[u] = "dropLast"
    /\ \/ db' = Gone /\ failed' = failed
       \/ db' = db /\ failed' = TRUE
    /\ single' = Unlocked(u)
    /\ Goto(u, "idle")
    /\ UNCHANGED <<engine, anchor, cached, mux, refs, shared, calls, closed>>

-----------------------------------------------------------------------------
Next == \E u \in Users :
    \/ Create(u) \/ LockMux(u) \/ Recheck(u) \/ ProvisionDrops(u) \/ ProvisionCreates(u)
    \/ CacheDSN(u)
    \/ Open(u) \/ OpenSingleton(u) \/ OpenFails(u)
    \/ CloseShared(u) \/ CloseOwn(u) \/ Release(u) \/ DropLast(u)

Spec == Init /\ [][Next]_vars

-----------------------------------------------------------------------------
(* Properties *)

Holding(u) == pc[u] \in {"open", "release"}
Sharing == {u \in Users : pc[u] = "open" /\ shared[u]}

(***************************************************************************)
(* Handles are counted once: those of OpenSingleton, which share a *DB,    *)
(* are one, and so is the *DB whose last opener is closing it.             *)
(***************************************************************************)
RefsCountHandles ==
    refs = Cardinality({u \in Users : Holding(u) /\ ~shared[u]})
           + IF \E u \in Users : Holding(u) /\ shared[u] THEN 1 ELSE 0

(***************************************************************************)
(* The shared pool is open exactly while somebody has it, and its limits   *)
(* follow the number of openers, down as well as up.                       *)
(***************************************************************************)
PoolFollowsOpeners ==
    /\ single.refCount = Cardinality(Sharing)
    /\ single.open <=> Sharing # {}
    /\ single.open => single.maxIdle = CeilSqrt(Cardinality(Sharing))

(***************************************************************************)
(* A SQLite testing database lasts while any handle on it is open,         *)
(* whatever handles opened and closed before, and everybody who has one    *)
(* sees the same database: one opened after the last was closed is on a    *)
(* fresh database, never on the one the last close was to drop.            *)
(***************************************************************************)
SQLiteLasts ==
    engine = "sqlite" /\ (\E u \in Users : Holding(u)) =>
        anchor /\ db.exists /\ db.id \notin closed

(***************************************************************************)
(* Nothing is left behind: once every handle is closed and every call has  *)
(* returned, the maps are empty, and the database is gone unless a DROP    *)
(* failed or a DSN was never opened.                                       *)
(***************************************************************************)
SelfCleaning ==
    (\A u \in Users : pc[u] = "idle") =>
        /\ refs = 0 /\ ~anchor
        /\ db.exists => failed \/ db.id \notin closed

(***************************************************************************)
(* Callers that find no database at the same time share the one the first  *)
(* of them provisions: there is a new one only after the last was closed.  *)
(***************************************************************************)
ProvisionedOnce ==
    [][engine = "server" /\ db'.id # db.id => db.id = 0 \/ db.id \in closed]_vars

(***************************************************************************)
(* A DSN that CreateTestingDatabase provisioned names a database that is   *)
(* there until a handle on it was opened and closed.                       *)
(***************************************************************************)
DropsOnlyClosed ==
    [][db.exists /\ ~db'.exists => db.id \in closed' \/ \E u \in Users : pc[u] = "drop"]_vars
=============================================================================
