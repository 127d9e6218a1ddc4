----------------------------- MODULE Telemetry ------------------------------
(***************************************************************************)
(* The telemetry of a shared *DB (telemetry.go, and OpenSingleton, Close   *)
(* and the setters of db.go): the providers it is set up with, the         *)
(* callback that reports its pool, and the bounded set of verbs that       *)
(* statements are labelled with, which belongs to the process.             *)
(*                                                                         *)
(* A section under db.mutex is cut where it waits for a provider's lock    *)
(* and where the callback, which takes no mutex, can see a state in        *)
(* between.  The DSN is not that of a testing database.                    *)
(***************************************************************************)
EXTENDS Integers, FiniteSets

CONSTANTS Users,             \* goroutines that open, configure, use and close the *DB
          Nil,
          Seed,              \* seedOperations
          Verbs,             \* other tokens that verbPattern matches
          Junk,              \* tokens it does not match
          Setters,           \* the fields set without the meter: "tracer", "logger"
          operationLabelCap,
          MaxPools,          \* bound: pools opened
          MaxRegistrations   \* bound: no callback is registered after as many

ASSUME TokenAssumption == /\ Seed \cap Verbs = {} /\ Seed \cap Junk = {} /\ Verbs \cap Junk = {}
                          /\ Nil \notin Users \cup Seed \cup Verbs \cup Junk
ASSUME CapAssumption == /\ operationLabelCap \in Nat
                        /\ IsFiniteSet(Seed) /\ Cardinality(Seed) <= operationLabelCap
ASSUME SetterAssumption == Setters \subseteq {"tracer", "logger"}
ASSUME LimitAssumption == MaxPools \in Nat /\ MaxRegistrations \in Nat

\* What a setter is given: nil, which means the default, or a provider or logger
\* of the application's.  The default meter provider is the process's.
Choices == {"default", "own"}
Tokens == Seed \cup Verbs \cup Junk

VARIABLES
    mutex,          \* who holds db.mutex
    refCount,       \* db.refCount
    pool,           \* db.pool, which the callback reads: the number of the pool, or 0
    sqlDB,          \* db.DB, likewise
    telemetry,      \* db.telemetry
    registered,     \* external: the callbacks each provider has
    collecting,     \* external: providers' collections, holding the provider's lock
    known,          \* operationLabels.known
    capExceeded,    \* operationLabels.capExceeded
    warned,         \* operationCapLogOnce is spent: on which logger
    pc,             \* where each goroutine is
    t,              \* the telemetry each goroutine loaded or is building
    token,          \* the leading token of each goroutine's statement
    pools, regs,    \* history: pools opened, callbacks registered
    closed,         \* history: pools closed
    read,           \* history: pools that a callback took the statistics of when closed
    reported,       \* history: tokens reported verbatim
    bucketed        \* history: verbs reported as OTHER

dbVars == <<mutex, refCount, pool, sqlDB, pools, closed>>
labelVars == <<known, capExceeded, warned, reported, bucketed>>
callVars == <<t, token>>
otelVars == <<registered, regs>>
vars == <<dbVars, telemetry, otelVars, collecting, labelVars, pc, callVars, read>>

NoRegistration == 0
NotCollecting == [running |-> FALSE, todo |-> {}, loaded |-> 0]

\* newDefaultTelemetry, but for the registration.
DefaultTelemetry ==
    [tracer |-> "default", meter |-> "default", logger |-> "default", reg |-> NoRegistration]

Labels == {"idle", "out", "openRegisters", "clearInstruments", "initInstruments",
           "unregisters", "closePool", "closeDB", "label", "learn", "begin"}

Telemetries == [tracer : Choices, meter : Choices, logger : Choices, reg : Nat]

\* The types of the *DB and the providers, of the labels, and of the goroutines.
DBOK ==
    /\ mutex \in Users \cup {Nil}
    /\ refCount \in Nat /\ pool \in Nat /\ sqlDB \in Nat
    /\ telemetry \in Telemetries
    /\ registered \in [Choices -> SUBSET Nat]
    /\ pools \in Nat /\ regs \in Nat
    /\ closed \subseteq Nat /\ read \subseteq Nat

CollectingOK == collecting \in [Choices -> [running : BOOLEAN, todo : SUBSET Nat, loaded : Nat]]

LabelsOK ==
    /\ known \subseteq Tokens /\ reported \subseteq Tokens /\ bucketed \subseteq Tokens
    /\ warned \in Choices \cup {"no"}

CallsOK ==
    /\ pc \in [Users -> Labels]
    /\ t \in [Users -> Telemetries]
    /\ token \in [Users -> Tokens \cup {Nil}]

TypeOK == DBOK /\ CollectingOK /\ LabelsOK /\ capExceeded \in BOOLEAN /\ CallsOK

Init ==
    /\ mutex = Nil
    /\ refCount = 0 /\ pool = 0 /\ sqlDB = 0
    /\ telemetry = DefaultTelemetry
    /\ registered = [p \in Choices |-> {}]
    /\ collecting = [p \in Choices |-> NotCollecting]
    /\ known = Seed
    /\ capExceeded = FALSE
    /\ warned = "no"
    /\ pc = [u \in Users |-> "out"]
    /\ t = [u \in Users |-> DefaultTelemetry]
    /\ token = [u \in Users |-> Nil]
    /\ pools = 0 /\ regs = 0
    /\ closed = {} /\ read = {}
    /\ reported = Seed /\ bucketed = {}

\* "idle" is a goroutine with a handle, "out" one without.
Goto(u, l) == pc' = [pc EXCEPT ![u] = l]

\* A call that ends forgets its locals.
Forget(u) ==
    /\ t' = [t EXCEPT ![u] = DefaultTelemetry]
    /\ token' = [token EXCEPT ![u] = Nil]

-----------------------------------------------------------------------------
(* External: an OpenTelemetry meter provider.  It holds its lock while it    *)
(* runs the callbacks, and RegisterCallback and Unregister take it.          *)

LockFree(p) == ~collecting[p].running

Collect(p) ==
    /\ LockFree(p)
    /\ registered[p] # {}
    /\ collecting' = [collecting EXCEPT ![p] = [NotCollecting EXCEPT !.running = TRUE,
                                                                     !.todo = registered[p]]]
    /\ UNCHANGED <<dbVars, telemetry, otelVars, labelVars, pc, callVars, read>>

Collected(p) ==
    /\ collecting[p].running /\ collecting[p].todo = {} /\ collecting[p].loaded = 0
    /\ collecting' = [collecting EXCEPT ![p] = NotCollecting]
    /\ UNCHANGED <<dbVars, telemetry, otelVars, labelVars, pc, callVars, read>>

\* Mutant: the callback waits for db.mutex to look at db.DB.
snapshotLocked(p) ==
    /\ collecting[p].todo # {} /\ collecting[p].loaded = 0
    /\ mutex = Nil
    /\ \E r \in collecting[p].todo :
          collecting' = [collecting EXCEPT ![p].todo = @ \ {r}, ![p].loaded = sqlDB]
    /\ UNCHANGED <<dbVars, telemetry, otelVars, labelVars, pc, callVars, read>>

\* snapshotStats loads the pool; the callback is done if it is closed.
snapshotStats(p) ==
    /\ collecting[p].todo # {} /\ collecting[p].loaded = 0
    /\ \E r \in collecting[p].todo :
          collecting' = [collecting EXCEPT ![p].todo = @ \ {r}, ![p].loaded = pool]
    /\ UNCHANGED <<dbVars, telemetry, otelVars, labelVars, pc, callVars, read>>

\* pool.Stats and the observations.
Observe(p) ==
    /\ collecting[p].loaded # 0
    /\ read' = read \cup ({collecting[p].loaded} \cap closed)
    /\ collecting' = [collecting EXCEPT ![p].loaded = 0]
    /\ UNCHANGED <<dbVars, telemetry, otelVars, labelVars, pc, callVars>>

\* The callback is registered, or that fails, and the telemetry is stored.
RegisterAndStore(nt) ==
    /\ LockFree(nt.meter)
    /\ \/ /\ regs' = regs + 1
          /\ registered' = [registered EXCEPT ![nt.meter] = @ \cup {regs + 1}]
          /\ telemetry' = [nt EXCEPT !.reg = regs + 1]
       \/ telemetry' = nt /\ UNCHANGED otelVars

Unregister(r) ==
    /\ \A p \in Choices : r \in registered[p] => LockFree(p)
    /\ registered' = [p \in Choices |-> registered[p] \ {r}]
    /\ regs' = regs

-----------------------------------------------------------------------------
(* OpenSingleton and Close *)

\* The *DB is open: it is shared.
OpenShares(u) ==
    /\ pc[u] = "out"
    /\ mutex = Nil
    /\ sqlDB # 0
    /\ refCount' = refCount + 1
    /\ Goto(u, "idle")
    /\ UNCHANGED <<mutex, pool, sqlDB, pools, closed, telemetry, otelVars, collecting,
                   labelVars, callVars, read>>

OpenSingleton(u) ==
    /\ pc[u] = "out"
    /\ mutex = Nil
    /\ sqlDB = 0
    /\ pools < MaxPools /\ regs < MaxRegistrations
    /\ mutex' = u
    /\ pools' = pools + 1
    /\ sqlDB' = pools + 1 /\ pool' = pools + 1
    /\ refCount' = 1
    /\ Goto(u, "openRegisters")
    /\ UNCHANGED <<closed, telemetry, otelVars, collecting, labelVars, callVars, read>>

\* newDefaultTelemetry, on the process's providers.
OpenRegisters(u) ==
    /\ pc[u] = "openRegisters"
    /\ RegisterAndStore(DefaultTelemetry)
    /\ mutex' = Nil
    /\ Goto(u, "idle")
    /\ UNCHANGED <<refCount, pool, sqlDB, pools, closed, collecting, labelVars, callVars, read>>

Close(u) ==
    /\ pc[u] = "idle"
    /\ mutex = Nil
    /\ refCount' = refCount - 1
    /\ IF refCount = 1 THEN mutex' = u /\ Goto(u, "unregisters")
                       ELSE mutex' = mutex /\ Goto(u, "out")
    /\ UNCHANGED <<pool, sqlDB, pools, closed, telemetry, otelVars, collecting, labelVars,
                   callVars, read>>

\* Mutant: the callback stays registered.
CloseKeepsCallback(u) ==
    /\ pc[u] = "unregisters"
    /\ Goto(u, "closePool")
    /\ UNCHANGED <<dbVars, telemetry, otelVars, collecting, labelVars, callVars, read>>

CloseUnregisters(u) ==
    /\ pc[u] = "unregisters"
    /\ Unregister(telemetry.reg)
    /\ Goto(u, "closePool")
    /\ UNCHANGED <<dbVars, telemetry, collecting, labelVars, callVars, read>>

ClosePool(u) ==
    /\ pc[u] = "closePool"
    /\ pool' = 0
    /\ Goto(u, "closeDB")
    /\ UNCHANGED <<mutex, refCount, sqlDB, pools, closed, telemetry, otelVars, collecting,
                   labelVars, callVars, read>>

CloseDB(u) ==
    /\ pc[u] = "closeDB"
    /\ closed' = closed \cup {sqlDB}
    /\ sqlDB' = 0
    /\ mutex' = Nil
    /\ Goto(u, "out")
    /\ UNCHANGED <<refCount, pool, pools, telemetry, otelVars, collecting, labelVars,
                   callVars, read>>

-----------------------------------------------------------------------------
(* The setters *)

\* Mutant: the mutex is not taken.
SetMeterProviderUnlocked(u, mp) ==
    /\ pc[u] = "idle"
    /\ regs < MaxRegistrations
    /\ t' = [t EXCEPT ![u] = [telemetry EXCEPT !.meter = mp]]
    /\ Goto(u, "clearInstruments")
    /\ UNCHANGED <<dbVars, telemetry, otelVars, collecting, labelVars, token, read>>

SetMeterProvider(u, mp) ==
    /\ pc[u] = "idle"
    /\ mutex = Nil
    /\ regs < MaxRegistrations
    /\ mutex' = u
    /\ t' = [t EXCEPT ![u] = [telemetry EXCEPT !.meter = mp]]
    /\ Goto(u, "clearInstruments")
    /\ UNCHANGED <<refCount, pool, sqlDB, pools, closed, telemetry, otelVars, collecting,
                   labelVars, token, read>>

\* Mutant: the old callback is forgotten, not unregistered.
clearForgets(u) ==
    /\ pc[u] = "clearInstruments"
    /\ t' = [t EXCEPT ![u].reg = NoRegistration]
    /\ Goto(u, "initInstruments")
    /\ UNCHANGED <<dbVars, telemetry, otelVars, collecting, labelVars, token, read>>

clearInstruments(u) ==
    /\ pc[u] = "clearInstruments"
    /\ Unregister(t[u].reg)
    /\ t' = [t EXCEPT ![u].reg = NoRegistration]
    /\ Goto(u, "initInstruments")
    /\ UNCHANGED <<dbVars, telemetry, collecting, labelVars, token, read>>

initInstruments(u) ==
    /\ pc[u] = "initInstruments"
    /\ RegisterAndStore(t[u])
    /\ mutex' = Nil
    /\ Forget(u)
    /\ Goto(u, "idle")
    /\ UNCHANGED <<refCount, pool, sqlDB, pools, closed, collecting, labelVars, read>>

\* SetTracerProvider and SetLogger: a copy is changed and swapped in, under the mutex.
updateTelemetry(u, setter, choice) ==
    /\ pc[u] = "idle"
    /\ mutex = Nil
    /\ telemetry' = [telemetry EXCEPT ![setter] = choice]
    /\ UNCHANGED <<dbVars, otelVars, collecting, labelVars, pc, callVars, read>>

-----------------------------------------------------------------------------
(* A statement: its label, when it is prepared, and begin *)

\* Mutant: there is room for one more.
HasRoomForOneMore == Cardinality(known) <= operationLabelCap

\* The bound on distinct labels.
HasRoom == Cardinality(known) < operationLabelCap

\* The telemetry is loaded before the statement is looked up; one that is cached
\* already has its label.
Statement(u, tok) ==
    /\ pc[u] = "idle"
    /\ t' = [t EXCEPT ![u].logger = telemetry.logger]
    /\ token' = [token EXCEPT ![u] = tok]
    /\ \/ Goto(u, "label")
       \/ tok \in reported \cup bucketed /\ Goto(u, "begin")
    /\ UNCHANGED <<dbVars, telemetry, otelVars, collecting, labelVars, read>>

\* label, without the mutex: the token, or OTHER, is the label unless the token
\* may be learned.
LabelLoads(u) ==
    /\ pc[u] = "label"
    /\ Goto(u, IF token[u] \in known \cup Junk THEN "begin" ELSE "learn")
    /\ reported' = reported \cup ({token[u]} \cap known)
    /\ UNCHANGED <<dbVars, telemetry, otelVars, collecting, known, capExceeded, warned,
                   bucketed, callVars, read>>

\* Mutant: the verb is bucketed and nobody notes it.
LabelBucketsSilently(u) ==
    /\ pc[u] = "learn"
    /\ IF token[u] \in known \/ HasRoom
       THEN /\ known' = known \cup {token[u]}
            /\ reported' = reported \cup {token[u]}
            /\ bucketed' = bucketed
       ELSE /\ bucketed' = bucketed \cup {token[u]}
            /\ UNCHANGED <<known, reported>>
    /\ Goto(u, "begin")
    /\ UNCHANGED <<dbVars, telemetry, otelVars, collecting, capExceeded, warned, callVars, read>>

\* label, under the mutex, on the set as it is by then.
LabelLearns(u) ==
    /\ pc[u] = "learn"
    /\ IF token[u] \in known \/ HasRoom
       THEN /\ known' = known \cup {token[u]}
            /\ reported' = reported \cup {token[u]}
            /\ UNCHANGED <<capExceeded, bucketed>>
       ELSE /\ capExceeded' = TRUE
            /\ bucketed' = bucketed \cup {token[u]}
            /\ UNCHANGED <<known, reported>>
    /\ Goto(u, "begin")
    /\ UNCHANGED <<dbVars, telemetry, otelVars, collecting, warned, callVars, read>>

\* The logger of the telemetry loaded is told, once in the process.
logOperationCapOnce(u) ==
    warned' = IF capExceeded /\ warned = "no" THEN t[u].logger ELSE warned

\* What follows begin, the statement and finish, changes nothing here.
Begin(u) ==
    /\ pc[u] = "begin"
    /\ logOperationCapOnce(u)
    /\ Forget(u)
    /\ Goto(u, "idle")
    /\ UNCHANGED <<dbVars, telemetry, otelVars, collecting, known, capExceeded, reported,
                   bucketed, read>>

-----------------------------------------------------------------------------
\* The steps of a call under way.
GoesOn(u) ==
    \/ OpenRegisters(u) \/ CloseUnregisters(u) \/ ClosePool(u) \/ CloseDB(u)
    \/ clearInstruments(u) \/ initInstruments(u)
    \/ LabelLoads(u) \/ LabelLearns(u) \/ Begin(u)

Collection(p) == Collected(p) \/ snapshotStats(p) \/ Observe(p)

Next ==
    \/ \E u \in Users :
          \/ OpenShares(u) \/ OpenSingleton(u) \/ Close(u)
          \/ \E mp \in Choices : SetMeterProvider(u, mp)
          \/ \E setter \in Setters, choice \in Choices : updateTelemetry(u, setter, choice)
          \/ \E tok \in Tokens : Statement(u, tok)
          \/ GoesOn(u)
    \/ \E p \in Choices : Collect(p) \/ Collection(p)

Spec == Init /\ [][Next]_vars

(***************************************************************************)
(* Goroutines and collections go on; a goroutine that waits for a          *)
(* provider's lock, a sync.Mutex, gets it though the provider collects     *)
(* over and over.                                                          *)
(***************************************************************************)
Fairness ==
    /\ \A u \in Users : SF_vars(GoesOn(u))
    /\ \A p \in Choices : WF_vars(Collection(p))

FairSpec == Spec /\ Fairness

-----------------------------------------------------------------------------
(* Properties *)

(***************************************************************************)
(* While nobody is in the middle of changing it, a *DB that is open has    *)
(* the callback its telemetry names and no other, on the provider it was   *)
(* last given, and a closed one has none that would keep it alive.         *)
(***************************************************************************)
OneCallback ==
    mutex = Nil =>
        \A p \in Choices :
            registered[p] = IF sqlDB # 0 /\ telemetry.meter = p
                            THEN {telemetry.reg} \ {NoRegistration} ELSE {}

(***************************************************************************)
(* The callback never takes the statistics of a closed pool, though it     *)
(* takes no mutex: Unregister waits for it, and the pool is closed after.  *)
(***************************************************************************)
NoClosedPoolRead == read = {}

(***************************************************************************)
(* A setter never undoes another's: what it swaps in differs from what it  *)
(* replaces in nothing but what it sets.  Only opening the *DB anew goes   *)
(* back to the defaults.                                                   *)
(***************************************************************************)
SettersKept ==
    [][telemetry' # telemetry =>
          \/ \E s \in Setters : telemetry' = [telemetry EXCEPT ![s] = telemetry'[s]]
          \/ \E mp \in Choices, r \in 0..regs' :
                telemetry' = [telemetry EXCEPT !.meter = mp, !.reg = r]
          \/ telemetry' = [DefaultTelemetry EXCEPT !.reg = telemetry'.reg]
             /\ \E u \in Users : pc[u] = "openRegisters"]_vars

(***************************************************************************)
(* No more than operationLabelCap distinct verbs are ever reported, and a  *)
(* verb's label never changes: neither to OTHER when others crowd in, nor  *)
(* back, whatever statements are first sighted at the same time.           *)
(***************************************************************************)
LabelsStable == Cardinality(reported) <= operationLabelCap /\ reported \cap bucketed = {}

Begins(u) == pc[u] = "begin" /\ pc'[u] = "idle"

(***************************************************************************)
(* A statement whose verb was bucketed for want of room does not begin     *)
(* without the warning that labels are being dropped having been given.    *)
(***************************************************************************)
CapWarned ==
    [][\A u \in Users : Begins(u) /\ token[u] \in bucketed => warned' # "no"]_vars

(***************************************************************************)
(* Every call returns: the callback is never waited for by the goroutine   *)
(* whose mutex it waits for.                                               *)
(***************************************************************************)
CallsReturn == \A u \in Users : pc[u] \notin {"idle", "out"} ~> pc[u] \in {"idle", "out"}
=============================================================================
