--------------------------- MODULE TelemetryProofs --------------------------
(***************************************************************************)
(* Proofs about Telemetry for every number of goroutines, verbs, pools and *)
(* registrations and every cap.  SectionInv says who is inside a section   *)
(* under db.mutex; HandleInv counts the handles, so that nobody configures *)
(* a *DB that is closed; CallbackInv says which callbacks the providers    *)
(* have at every point of a section; CollectInv is the argument for the    *)
(* callback, which takes no mutex: a collection under way keeps its        *)
(* callback registered, and so the pool open.  LabelInv is about the       *)
(* labels: verbs are dropped only when there is no room, for good.         *)
(***************************************************************************)
EXTENDS Telemetry, FiniteSetTheorems, TLAPS

\* Where a goroutine holds db.mutex.
Sections == {"openRegisters", "clearInstruments", "initInstruments",
             "unregisters", "closePool", "closeDB"}
Closing == {"unregisters", "closePool", "closeDB"}

SectionInv ==
    \A u \in Users :
        /\ pc[u] \in Sections <=> mutex = u
        /\ pc[u] \in {"label", "learn", "begin"} => token[u] \in Tokens

\* Who has a handle that is not closed, or being closed.
Holders == {u \in Users : pc[u] \notin {"out"} \cup Closing}

\* The reference count is the number of handles; the *DB is open as long as
\* there is one, and the last one closes it.
HandleInv ==
    /\ IsFiniteSet(Holders)
    /\ refCount = Cardinality(Holders)
    /\ sqlDB = 0 => Holders = {}
    /\ \A u \in Users : pc[u] \in Closing => sqlDB # 0 /\ Holders = {}

\* Pools are numbered in the order they are opened, and used until closed.
PoolInv ==
    /\ pool \in {0, sqlDB}
    /\ sqlDB <= pools /\ (sqlDB # 0 => sqlDB \notin closed)
    /\ \A c \in closed : c <= pools
    /\ \A u \in Users : pc[u] = "closeDB" => pool = 0

\* The callback that the telemetry names.
Named(p) == IF sqlDB # 0 /\ telemetry.meter = p THEN {telemetry.reg} \ {NoRegistration} ELSE {}

\* What a goroutine that sets the meter provider is building.
Building(u) ==
    \E mp \in Choices : t[u] = [telemetry EXCEPT !.meter = mp,
                                    !.reg = IF pc[u] = "initInstruments" THEN NoRegistration ELSE @]

\* A section unregisters the callback before it registers another, or closes.
CallbackInv ==
    /\ (\A u \in Users : pc[u] \in Sections => pc[u] \in {"clearInstruments", "unregisters"})
       => \A p \in Choices : registered[p] = Named(p)
    /\ \A u \in Users :
          pc[u] \in Sections \ {"clearInstruments", "unregisters"}
          => \A p \in Choices : registered[p] = {}
    /\ \A u \in Users : pc[u] \in {"clearInstruments", "initInstruments"} => Building(u)

\* A collection under way has a callback registered, and sees the open pool.
CollectInv ==
    /\ \A p \in Choices :
          /\ collecting[p].running => registered[p] # {}
          /\ ~collecting[p].running => collecting[p].todo = {} /\ collecting[p].loaded = 0
          /\ collecting[p].loaded \in {0, sqlDB}
    /\ read = {}

\* A verb is bucketed only when the labels are full, and stays out.
LabelInv ==
    /\ IsFiniteSet(known) /\ Cardinality(known) <= operationLabelCap
    /\ reported \subseteq known
    /\ bucketed \cap known = {}
    /\ bucketed # {} => ~HasRoom /\ capExceeded

IInv == TypeOK /\ SectionInv /\ HandleInv /\ PoolInv /\ CallbackInv /\ CollectInv /\ LabelInv

-----------------------------------------------------------------------------
\* The telemetry a *DB starts with.
LEMMA DefaultType == DefaultTelemetry \in Telemetries /\ DefaultTelemetry.reg = 0
  BY DEF DefaultTelemetry, Telemetries, Choices, NoRegistration

\* The process starts with the *DB closed and the seed verbs known.
LEMMA InitIInv == Init => IInv
  <1> SUFFICES ASSUME Init PROVE IInv
    OBVIOUS
  <1> USE DEF Init
  <1>1. DBOK
    BY DefaultType DEF DBOK
  <1>2. CollectingOK
    BY DEF CollectingOK, NotCollecting
  <1>3. LabelsOK /\ capExceeded \in BOOLEAN
    BY DEF LabelsOK, Tokens
  <1>4. CallsOK
    BY DefaultType DEF CallsOK, Labels
  <1>5. SectionInv
    BY TokenAssumption DEF SectionInv, Sections
  <1>6. HandleInv
    <2>1. Holders = {}
      BY DEF Holders
    <2> QED BY <2>1, FS_EmptySet DEF HandleInv, Closing
  <1>7. PoolInv
    BY DEF PoolInv
  <1>8. CallbackInv
    BY DEF CallbackInv, Sections, Named
  <1>9. CollectInv
    BY DEF CollectInv, NotCollecting
  <1>10. LabelInv
    BY CapAssumption DEF LabelInv
  <1> QED BY <1>1, <1>2, <1>3, <1>4, <1>5, <1>6, <1>7, <1>8, <1>9, <1>10 DEF IInv, TypeOK

\* Every step keeps the types of the *DB and the providers.
LEMMA NextDB == IInv /\ [Next]_vars => DBOK'
  <1> SUFFICES ASSUME IInv, [Next]_vars PROVE DBOK'
    OBVIOUS
  <1>a. DBOK /\ CallsOK
    BY DEF IInv, TypeOK
  <1> USE DEF DBOK, vars, dbVars, otelVars
  <1>1. ASSUME NEW u \in Users, OpenShares(u) PROVE DBOK'
    BY <1>1, <1>a DEF OpenShares
  <1>2. ASSUME NEW u \in Users, OpenSingleton(u) PROVE DBOK'
    BY <1>2, <1>a DEF OpenSingleton
  <1>3. ASSUME NEW u \in Users, Close(u) PROVE DBOK'
    <2>1. IsFiniteSet(Holders) /\ u \in Holders /\ refCount = Cardinality(Holders)
      BY <1>3 DEF IInv, HandleInv, Holders, Close, Closing
    <2>2. refCount \in Nat /\ refCount # 0
      BY <1>a, <2>1, FS_EmptySet
    <2> QED BY <1>3, <1>a, <2>2 DEF Close
  <1>4. ASSUME NEW u \in Users, NEW mp \in Choices, SetMeterProvider(u, mp) PROVE DBOK'
    BY <1>4, <1>a DEF SetMeterProvider
  <1>5. ASSUME NEW u \in Users, NEW setter \in Setters, NEW choice \in Choices,
               updateTelemetry(u, setter, choice) PROVE DBOK'
    <2>1. setter = "tracer" \/ setter = "logger"
      BY SetterAssumption
    <2> QED BY <1>5, <1>a, <2>1 DEF updateTelemetry, Telemetries
  <1>6. ASSUME NEW u \in Users, NEW tok \in Tokens, Statement(u, tok) PROVE DBOK'
    BY <1>6, <1>a DEF Statement
  <1>7. ASSUME NEW u \in Users, OpenRegisters(u) PROVE DBOK'
    BY <1>7, <1>a, DefaultType DEF OpenRegisters, RegisterAndStore, Telemetries
  <1>8. ASSUME NEW u \in Users, CloseUnregisters(u) PROVE DBOK'
    BY <1>8, <1>a DEF CloseUnregisters, Unregister
  <1>9. ASSUME NEW u \in Users, ClosePool(u) PROVE DBOK'
    BY <1>9, <1>a DEF ClosePool
  <1>10. ASSUME NEW u \in Users, CloseDB(u) PROVE DBOK'
    BY <1>10, <1>a DEF CloseDB
  <1>11. ASSUME NEW u \in Users, clearInstruments(u) PROVE DBOK'
    BY <1>11, <1>a DEF clearInstruments, Unregister
  <1>12. ASSUME NEW u \in Users, initInstruments(u) PROVE DBOK'
    BY <1>12, <1>a DEF initInstruments, RegisterAndStore, CallsOK, Telemetries
  <1>13. ASSUME NEW u \in Users, LabelLoads(u) PROVE DBOK'
    BY <1>13, <1>a DEF LabelLoads
  <1>14. ASSUME NEW u \in Users, LabelLearns(u) PROVE DBOK'
    BY <1>14, <1>a DEF LabelLearns
  <1>15. ASSUME NEW u \in Users, Begin(u) PROVE DBOK'
    BY <1>15, <1>a DEF Begin
  <1>16. ASSUME NEW p \in Choices, Collect(p) PROVE DBOK'
    BY <1>16, <1>a DEF Collect
  <1>17. ASSUME NEW p \in Choices, Collected(p) PROVE DBOK'
    BY <1>17, <1>a DEF Collected
  <1>18. ASSUME NEW p \in Choices, snapshotStats(p) PROVE DBOK'
    BY <1>18, <1>a DEF snapshotStats
  <1>19. ASSUME NEW p \in Choices, Observe(p) PROVE DBOK'
    BY <1>19, <1>a DEF Observe
  <1>20. CASE UNCHANGED vars
    BY <1>20, <1>a
  <1> QED
    BY <1>1, <1>2, <1>3, <1>4, <1>5, <1>6, <1>7, <1>8, <1>9, <1>10, <1>11, <1>12, <1>13, <1>14,
       <1>15, <1>16, <1>17, <1>18, <1>19, <1>20 DEF Next, GoesOn, Collection

\* Every step keeps the types of the collections.
LEMMA NextCollecting == IInv /\ [Next]_vars => CollectingOK'
  <1> SUFFICES ASSUME IInv, [Next]_vars PROVE CollectingOK'
    OBVIOUS
  <1>a. CollectingOK /\ DBOK
    BY DEF IInv, TypeOK
  <1> USE DEF CollectingOK, vars
  <1>1. ASSUME NEW u \in Users, OpenShares(u) PROVE CollectingOK'
    BY <1>1, <1>a DEF OpenShares
  <1>2. ASSUME NEW u \in Users, OpenSingleton(u) PROVE CollectingOK'
    BY <1>2, <1>a DEF OpenSingleton
  <1>3. ASSUME NEW u \in Users, Close(u) PROVE CollectingOK'
    BY <1>3, <1>a DEF Close
  <1>4. ASSUME NEW u \in Users, NEW mp \in Choices, SetMeterProvider(u, mp) PROVE CollectingOK'
    BY <1>4, <1>a DEF SetMeterProvider
  <1>5. ASSUME NEW u \in Users, NEW setter \in Setters, NEW choice \in Choices,
               updateTelemetry(u, setter, choice) PROVE CollectingOK'
    BY <1>5, <1>a DEF updateTelemetry
  <1>6. ASSUME NEW u \in Users, NEW tok \in Tokens, Statement(u, tok) PROVE CollectingOK'
    BY <1>6, <1>a DEF Statement
  <1>7. ASSUME NEW u \in Users, OpenRegisters(u) PROVE CollectingOK'
    BY <1>7, <1>a DEF OpenRegisters
  <1>8. ASSUME NEW u \in Users, CloseUnregisters(u) PROVE CollectingOK'
    BY <1>8, <1>a DEF CloseUnregisters
  <1>9. ASSUME NEW u \in Users, ClosePool(u) PROVE CollectingOK'
    BY <1>9, <1>a DEF ClosePool
  <1>10. ASSUME NEW u \in Users, CloseDB(u) PROVE CollectingOK'
    BY <1>10, <1>a DEF CloseDB
  <1>11. ASSUME NEW u \in Users, clearInstruments(u) PROVE CollectingOK'
    BY <1>11, <1>a DEF clearInstruments
  <1>12. ASSUME NEW u \in Users, initInstruments(u) PROVE CollectingOK'
    BY <1>12, <1>a DEF initInstruments
  <1>13. ASSUME NEW u \in Users, LabelLoads(u) PROVE CollectingOK'
    BY <1>13, <1>a DEF LabelLoads
  <1>14. ASSUME NEW u \in Users, LabelLearns(u) PROVE CollectingOK'
    BY <1>14, <1>a DEF LabelLearns
  <1>15. ASSUME NEW u \in Users, Begin(u) PROVE CollectingOK'
    BY <1>15, <1>a DEF Begin
  <1>16. ASSUME NEW p \in Choices, Collect(p) PROVE CollectingOK'
    BY <1>16, <1>a DEF Collect, NotCollecting, DBOK
  <1>17. ASSUME NEW p \in Choices, Collected(p) PROVE CollectingOK'
    BY <1>17, <1>a DEF Collected, NotCollecting
  <1>18. ASSUME NEW p \in Choices, snapshotStats(p) PROVE CollectingOK'
    <2>1. PICK r \in collecting[p].todo :
             collecting' = [collecting EXCEPT ![p].todo = collecting[p].todo \ {r},
                                              ![p].loaded = pool]
      BY <1>18 DEF snapshotStats
    <2> DEFINE c == [collecting EXCEPT ![p].todo = collecting[p].todo \ {r}]
    <2>2. c \in [Choices -> [running : BOOLEAN, todo : SUBSET Nat, loaded : Nat]]
      BY <1>a
    <2>3. collecting' = [c EXCEPT ![p].loaded = pool]
      BY <2>1
    <2> HIDE DEF c
    <2> QED BY <1>a, <2>2, <2>3 DEF DBOK
  <1>19. ASSUME NEW p \in Choices, Observe(p) PROVE CollectingOK'
    BY <1>19, <1>a DEF Observe
  <1>20. CASE UNCHANGED vars
    BY <1>20, <1>a
  <1> QED
    BY <1>1, <1>2, <1>3, <1>4, <1>5, <1>6, <1>7, <1>8, <1>9, <1>10, <1>11, <1>12, <1>13, <1>14,
       <1>15, <1>16, <1>17, <1>18, <1>19, <1>20 DEF Next, GoesOn, Collection

\* Every step keeps the types of the labels.
LEMMA NextLabels == IInv /\ [Next]_vars => LabelsOK' /\ capExceeded' \in BOOLEAN
  <1> SUFFICES ASSUME IInv, [Next]_vars PROVE LabelsOK' /\ capExceeded' \in BOOLEAN
    OBVIOUS
  <1> DEFINE Goal == LabelsOK /\ capExceeded \in BOOLEAN
  <1>a. LabelsOK /\ capExceeded \in BOOLEAN /\ CallsOK /\ SectionInv
    BY DEF IInv, TypeOK
  <1> USE DEF LabelsOK, vars, labelVars
  <1>1. ASSUME NEW u \in Users, OpenShares(u) PROVE Goal'
    BY <1>1, <1>a DEF OpenShares
  <1>2. ASSUME NEW u \in Users, OpenSingleton(u) PROVE Goal'
    BY <1>2, <1>a DEF OpenSingleton
  <1>3. ASSUME NEW u \in Users, Close(u) PROVE Goal'
    BY <1>3, <1>a DEF Close
  <1>4. ASSUME NEW u \in Users, NEW mp \in Choices, SetMeterProvider(u, mp) PROVE Goal'
    BY <1>4, <1>a DEF SetMeterProvider
  <1>5. ASSUME NEW u \in Users, NEW setter \in Setters, NEW choice \in Choices,
               updateTelemetry(u, setter, choice) PROVE Goal'
    BY <1>5, <1>a DEF updateTelemetry
  <1>6. ASSUME NEW u \in Users, NEW tok \in Tokens, Statement(u, tok) PROVE Goal'
    BY <1>6, <1>a DEF Statement
  <1>7. ASSUME NEW u \in Users, OpenRegisters(u) PROVE Goal'
    BY <1>7, <1>a DEF OpenRegisters
  <1>8. ASSUME NEW u \in Users, CloseUnregisters(u) PROVE Goal'
    BY <1>8, <1>a DEF CloseUnregisters
  <1>9. ASSUME NEW u \in Users, ClosePool(u) PROVE Goal'
    BY <1>9, <1>a DEF ClosePool
  <1>10. ASSUME NEW u \in Users, CloseDB(u) PROVE Goal'
    BY <1>10, <1>a DEF CloseDB
  <1>11. ASSUME NEW u \in Users, clearInstruments(u) PROVE Goal'
    BY <1>11, <1>a DEF clearInstruments
  <1>12. ASSUME NEW u \in Users, initInstruments(u) PROVE Goal'
    BY <1>12, <1>a DEF initInstruments
  <1>13. ASSUME NEW u \in Users, LabelLoads(u) PROVE Goal'
    BY <1>13, <1>a DEF LabelLoads
  <1>14. ASSUME NEW u \in Users, LabelLearns(u) PROVE Goal'
    <2>1. token[u] \in Tokens
      BY <1>14, <1>a DEF SectionInv, LabelLearns
    <2>2. LabelsOK'
      BY <1>14, <1>a, <2>1 DEF LabelLearns
    <2>3. capExceeded' \in BOOLEAN
      BY <1>14, <1>a DEF LabelLearns
    <2> QED BY <2>2, <2>3
  <1>15. ASSUME NEW u \in Users, Begin(u) PROVE Goal'
    <2>1. t[u].logger \in Choices
      BY <1>a DEF CallsOK, Telemetries
    <2>2. LabelsOK'
      BY <1>15, <1>a, <2>1 DEF Begin, logOperationCapOnce
    <2>3. capExceeded' = capExceeded
      BY <1>15 DEF Begin
    <2> QED BY <1>a, <2>2, <2>3
  <1>16. ASSUME NEW p \in Choices, Collect(p) PROVE Goal'
    BY <1>16, <1>a DEF Collect
  <1>17. ASSUME NEW p \in Choices, Collected(p) PROVE Goal'
    BY <1>17, <1>a DEF Collected
  <1>18. ASSUME NEW p \in Choices, snapshotStats(p) PROVE Goal'
    BY <1>18, <1>a DEF snapshotStats
  <1>19. ASSUME NEW p \in Choices, Observe(p) PROVE Goal'
    BY <1>19, <1>a DEF Observe
  <1>20. CASE UNCHANGED vars
    BY <1>20, <1>a
  <1> QED
    BY <1>1, <1>2, <1>3, <1>4, <1>5, <1>6, <1>7, <1>8, <1>9, <1>10, <1>11, <1>12, <1>13, <1>14,
       <1>15, <1>16, <1>17, <1>18, <1>19, <1>20 DEF Next, GoesOn, Collection

\* Every step keeps the types of the goroutines' locals.
LEMMA NextCalls == IInv /\ [Next]_vars => CallsOK'
  <1> SUFFICES ASSUME IInv, [Next]_vars PROVE CallsOK'
    OBVIOUS
  <1>a. CallsOK /\ DBOK /\ telemetry \in Telemetries
    BY DEF IInv, TypeOK, DBOK
  <1> USE DEF CallsOK, Labels, Goto, vars, callVars
  <1>1. ASSUME NEW u \in Users, OpenShares(u) PROVE CallsOK'
    BY <1>1, <1>a DEF OpenShares
  <1>2. ASSUME NEW u \in Users, OpenSingleton(u) PROVE CallsOK'
    BY <1>2, <1>a DEF OpenSingleton
  <1>3. ASSUME NEW u \in Users, Close(u) PROVE CallsOK'
    BY <1>3, <1>a DEF Close
  <1>4. ASSUME NEW u \in Users, NEW mp \in Choices, SetMeterProvider(u, mp) PROVE CallsOK'
    BY <1>4, <1>a DEF SetMeterProvider, Telemetries
  <1>5. ASSUME NEW u \in Users, NEW setter \in Setters, NEW choice \in Choices,
               updateTelemetry(u, setter, choice) PROVE CallsOK'
    BY <1>5, <1>a DEF updateTelemetry
  <1>6. ASSUME NEW u \in Users, NEW tok \in Tokens, Statement(u, tok) PROVE CallsOK'
    BY <1>6, <1>a DEF Statement, Telemetries
  <1>7. ASSUME NEW u \in Users, OpenRegisters(u) PROVE CallsOK'
    BY <1>7, <1>a DEF OpenRegisters
  <1>8. ASSUME NEW u \in Users, CloseUnregisters(u) PROVE CallsOK'
    BY <1>8, <1>a DEF CloseUnregisters
  <1>9. ASSUME NEW u \in Users, ClosePool(u) PROVE CallsOK'
    BY <1>9, <1>a DEF ClosePool
  <1>10. ASSUME NEW u \in Users, CloseDB(u) PROVE CallsOK'
    BY <1>10, <1>a DEF CloseDB
  <1>11. ASSUME NEW u \in Users, clearInstruments(u) PROVE CallsOK'
    BY <1>11, <1>a DEF clearInstruments, NoRegistration, Telemetries
  <1>12. ASSUME NEW u \in Users, initInstruments(u) PROVE CallsOK'
    BY <1>12, <1>a, DefaultType DEF initInstruments, Forget
  <1>13. ASSUME NEW u \in Users, LabelLoads(u) PROVE CallsOK'
    BY <1>13, <1>a DEF LabelLoads
  <1>14. ASSUME NEW u \in Users, LabelLearns(u) PROVE CallsOK'
    BY <1>14, <1>a DEF LabelLearns
  <1>15. ASSUME NEW u \in Users, Begin(u) PROVE CallsOK'
    BY <1>15, <1>a, DefaultType DEF Begin, Forget
  <1>16. ASSUME NEW p \in Choices, Collect(p) PROVE CallsOK'
    BY <1>16, <1>a DEF Collect
  <1>17. ASSUME NEW p \in Choices, Collected(p) PROVE CallsOK'
    BY <1>17, <1>a DEF Collected
  <1>18. ASSUME NEW p \in Choices, snapshotStats(p) PROVE CallsOK'
    BY <1>18, <1>a DEF snapshotStats
  <1>19. ASSUME NEW p \in Choices, Observe(p) PROVE CallsOK'
    BY <1>19, <1>a DEF Observe
  <1>20. CASE UNCHANGED vars
    BY <1>20, <1>a
  <1> QED
    BY <1>1, <1>2, <1>3, <1>4, <1>5, <1>6, <1>7, <1>8, <1>9, <1>10, <1>11, <1>12, <1>13, <1>14,
       <1>15, <1>16, <1>17, <1>18, <1>19, <1>20 DEF Next, GoesOn, Collection

\* The mutex is held by the goroutine inside a section, and by nobody else.
LEMMA NextSection == IInv /\ [Next]_vars => SectionInv'
  <1> SUFFICES ASSUME IInv, [Next]_vars PROVE SectionInv'
    OBVIOUS
  <1>a. SectionInv /\ CallsOK /\ mutex \in Users \cup {Nil} /\ Nil \notin Users
    BY TokenAssumption DEF IInv, TypeOK, DBOK
  <1> USE DEF SectionInv, CallsOK, Labels, Sections, Goto, vars, dbVars, callVars
  <1>1. ASSUME NEW u \in Users, OpenShares(u) PROVE SectionInv'
    BY <1>1, <1>a DEF OpenShares
  <1>2. ASSUME NEW u \in Users, OpenSingleton(u) PROVE SectionInv'
    BY <1>2, <1>a DEF OpenSingleton
  <1>3. ASSUME NEW u \in Users, Close(u) PROVE SectionInv'
    BY <1>3, <1>a DEF Close
  <1>4. ASSUME NEW u \in Users, NEW mp \in Choices, SetMeterProvider(u, mp) PROVE SectionInv'
    BY <1>4, <1>a DEF SetMeterProvider
  <1>5. ASSUME NEW u \in Users, NEW setter \in Setters, NEW choice \in Choices,
               updateTelemetry(u, setter, choice) PROVE SectionInv'
    BY <1>5, <1>a DEF updateTelemetry
  <1>6. ASSUME NEW u \in Users, NEW tok \in Tokens, Statement(u, tok) PROVE SectionInv'
    BY <1>6, <1>a DEF Statement
  <1>7. ASSUME NEW u \in Users, OpenRegisters(u) PROVE SectionInv'
    BY <1>7, <1>a DEF OpenRegisters
  <1>8. ASSUME NEW u \in Users, CloseUnregisters(u) PROVE SectionInv'
    BY <1>8, <1>a DEF CloseUnregisters
  <1>9. ASSUME NEW u \in Users, ClosePool(u) PROVE SectionInv'
    BY <1>9, <1>a DEF ClosePool
  <1>10. ASSUME NEW u \in Users, CloseDB(u) PROVE SectionInv'
    BY <1>10, <1>a DEF CloseDB
  <1>11. ASSUME NEW u \in Users, clearInstruments(u) PROVE SectionInv'
    BY <1>11, <1>a DEF clearInstruments
  <1>12. ASSUME NEW u \in Users, initInstruments(u) PROVE SectionInv'
    BY <1>12, <1>a DEF initInstruments, Forget
  <1>13. ASSUME NEW u \in Users, LabelLoads(u) PROVE SectionInv'
    BY <1>13, <1>a DEF LabelLoads
  <1>14. ASSUME NEW u \in Users, LabelLearns(u) PROVE SectionInv'
    BY <1>14, <1>a DEF LabelLearns
  <1>15. ASSUME NEW u \in Users, Begin(u) PROVE SectionInv'
    BY <1>15, <1>a DEF Begin, Forget
  <1>16. ASSUME NEW p \in Choices, Collect(p) PROVE SectionInv'
    BY <1>16, <1>a DEF Collect
  <1>17. ASSUME NEW p \in Choices, Collected(p) PROVE SectionInv'
    BY <1>17, <1>a DEF Collected
  <1>18. ASSUME NEW p \in Choices, snapshotStats(p) PROVE SectionInv'
    BY <1>18, <1>a DEF snapshotStats
  <1>19. ASSUME NEW p \in Choices, Observe(p) PROVE SectionInv'
    BY <1>19, <1>a DEF Observe
  <1>20. CASE UNCHANGED vars
    BY <1>20, <1>a
  <1> QED
    BY <1>1, <1>2, <1>3, <1>4, <1>5, <1>6, <1>7, <1>8, <1>9, <1>10, <1>11, <1>12, <1>13, <1>14,
       <1>15, <1>16, <1>17, <1>18, <1>19, <1>20 DEF Next, GoesOn, Collection

-----------------------------------------------------------------------------
\* The count and the *DB follow the handles.
LEMMA NextHandle == IInv /\ [Next]_vars => HandleInv'
  <1> SUFFICES ASSUME IInv, [Next]_vars PROVE HandleInv'
    OBVIOUS
  <1>a. /\ HandleInv /\ SectionInv /\ CallsOK /\ mutex \in Users \cup {Nil} /\ Nil \notin Users
        /\ refCount \in Nat /\ pools \in Nat
    BY TokenAssumption DEF IInv, TypeOK, DBOK
  <1> DEFINE Kept == Holders' = Holders /\ UNCHANGED <<refCount, sqlDB>>
                     /\ \A q \in Users : pc'[q] \in Closing => pc[q] \in Closing
  <1>b. Kept => HandleInv'
    BY <1>a DEF HandleInv
  <1> USE DEF CallsOK, Labels, Closing, Goto, vars, dbVars
  <1>1. ASSUME NEW u \in Users, OpenShares(u) PROVE HandleInv'
    <2>1. Holders' = Holders \cup {u} /\ u \notin Holders
      BY <1>1, <1>a DEF OpenShares, Holders
    <2>2. IsFiniteSet(Holders') /\ Cardinality(Holders') = Cardinality(Holders) + 1
      BY <1>a, <2>1, FS_AddElement DEF HandleInv
    <2>3. \A q \in Users : pc'[q] \notin Closing
      BY <1>1, <1>a DEF OpenShares, SectionInv, Sections
    <2> QED BY <1>1, <1>a, <2>2, <2>3 DEF OpenShares, HandleInv
  <1>2. ASSUME NEW u \in Users, OpenSingleton(u) PROVE HandleInv'
    <2>1. Holders' = {u}
      BY <1>2, <1>a DEF OpenSingleton, HandleInv, Holders
    <2>2. IsFiniteSet(Holders') /\ Cardinality(Holders') = 1
      BY <2>1, FS_Singleton
    <2>3. \A q \in Users : pc'[q] \notin Closing
      BY <1>2, <1>a DEF OpenSingleton, SectionInv, Sections
    <2>4. sqlDB' # 0 /\ refCount' = 1
      BY <1>2, <1>a DEF OpenSingleton
    <2> QED BY <2>2, <2>3, <2>4 DEF HandleInv
  <1>3. ASSUME NEW u \in Users, Close(u) PROVE HandleInv'
    <2>1. Holders' = Holders \ {u} /\ u \in Holders
      BY <1>3, <1>a DEF Close, Holders
    <2>2. IsFiniteSet(Holders') /\ Cardinality(Holders') = Cardinality(Holders) - 1
      BY <1>a, <2>1, FS_RemoveElement DEF HandleInv
    <2>3. sqlDB # 0 /\ sqlDB' = sqlDB
      BY <1>3, <1>a, <2>1 DEF Close, HandleInv
    <2>4. \A q \in Users : pc'[q] \in Closing => refCount = 1
      BY <1>3, <1>a DEF Close, SectionInv, Sections
    <2>5. refCount = 1 => Holders' = {}
      BY <1>a, <2>2, FS_EmptySet DEF HandleInv
    <2> QED BY <1>3, <1>a, <2>2, <2>3, <2>4, <2>5 DEF Close, HandleInv
  <1>4. ASSUME NEW u \in Users, NEW mp \in Choices, SetMeterProvider(u, mp) PROVE HandleInv'
    BY <1>4, <1>a, <1>b DEF SetMeterProvider, Holders
  <1>5. ASSUME NEW u \in Users, NEW setter \in Setters, NEW choice \in Choices,
               updateTelemetry(u, setter, choice) PROVE HandleInv'
    BY <1>5, <1>a, <1>b DEF updateTelemetry, Holders
  <1>6. ASSUME NEW u \in Users, NEW tok \in Tokens, Statement(u, tok) PROVE HandleInv'
    BY <1>6, <1>a, <1>b DEF Statement, Holders
  <1>7. ASSUME NEW u \in Users, OpenRegisters(u) PROVE HandleInv'
    BY <1>7, <1>a, <1>b DEF OpenRegisters, Holders
  <1>8. ASSUME NEW u \in Users, CloseUnregisters(u) PROVE HandleInv'
    BY <1>8, <1>a, <1>b DEF CloseUnregisters, Holders
  <1>9. ASSUME NEW u \in Users, ClosePool(u) PROVE HandleInv'
    BY <1>9, <1>a, <1>b DEF ClosePool, Holders
  <1>10. ASSUME NEW u \in Users, CloseDB(u) PROVE HandleInv'
    <2>1. Holders' = {} /\ Holders = {}
      BY <1>10, <1>a DEF CloseDB, Holders, HandleInv
    <2>2. \A q \in Users : pc'[q] \notin Closing
      BY <1>10, <1>a DEF CloseDB, SectionInv, Sections
    <2> QED BY <1>10, <1>a, <2>1, <2>2 DEF CloseDB, HandleInv
  <1>11. ASSUME NEW u \in Users, clearInstruments(u) PROVE HandleInv'
    BY <1>11, <1>a, <1>b DEF clearInstruments, Holders
  <1>12. ASSUME NEW u \in Users, initInstruments(u) PROVE HandleInv'
    BY <1>12, <1>a, <1>b DEF initInstruments, Holders
  <1>13. ASSUME NEW u \in Users, LabelLoads(u) PROVE HandleInv'
    BY <1>13, <1>a, <1>b DEF LabelLoads, Holders
  <1>14. ASSUME NEW u \in Users, LabelLearns(u) PROVE HandleInv'
    BY <1>14, <1>a, <1>b DEF LabelLearns, Holders
  <1>15. ASSUME NEW u \in Users, Begin(u) PROVE HandleInv'
    BY <1>15, <1>a, <1>b DEF Begin, Holders
  <1>16. ASSUME NEW p \in Choices, Collect(p) PROVE HandleInv'
    BY <1>16, <1>a, <1>b DEF Collect, Holders
  <1>17. ASSUME NEW p \in Choices, Collected(p) PROVE HandleInv'
    BY <1>17, <1>a, <1>b DEF Collected, Holders
  <1>18. ASSUME NEW p \in Choices, snapshotStats(p) PROVE HandleInv'
    BY <1>18, <1>a, <1>b DEF snapshotStats, Holders
  <1>19. ASSUME NEW p \in Choices, Observe(p) PROVE HandleInv'
    BY <1>19, <1>a, <1>b DEF Observe, Holders
  <1>20. CASE UNCHANGED vars
    BY <1>20, <1>b DEF Holders
  <1> QED
    BY <1>1, <1>2, <1>3, <1>4, <1>5, <1>6, <1>7, <1>8, <1>9, <1>10, <1>11, <1>12, <1>13, <1>14,
       <1>15, <1>16, <1>17, <1>18, <1>19, <1>20 DEF Next, GoesOn, Collection

\* Pools are opened with new numbers and closed after the last use.
LEMMA NextPool == IInv /\ [Next]_vars => PoolInv'
  <1> SUFFICES ASSUME IInv, [Next]_vars PROVE PoolInv'
    OBVIOUS
  <1>a. PoolInv /\ DBOK /\ SectionInv /\ CallsOK /\ Nil \notin Users
    BY TokenAssumption DEF IInv, TypeOK
  <1> USE DEF PoolInv, DBOK, CallsOK, Goto, vars, dbVars
  <1>1. ASSUME NEW u \in Users, OpenShares(u) PROVE PoolInv'
    BY <1>1, <1>a DEF OpenShares
  <1>2. ASSUME NEW u \in Users, OpenSingleton(u) PROVE PoolInv'
    BY <1>2, <1>a DEF OpenSingleton, SectionInv, Sections
  <1>3. ASSUME NEW u \in Users, Close(u) PROVE PoolInv'
    BY <1>3, <1>a DEF Close
  <1>4. ASSUME NEW u \in Users, NEW mp \in Choices, SetMeterProvider(u, mp) PROVE PoolInv'
    BY <1>4, <1>a DEF SetMeterProvider
  <1>5. ASSUME NEW u \in Users, NEW setter \in Setters, NEW choice \in Choices,
               updateTelemetry(u, setter, choice) PROVE PoolInv'
    BY <1>5, <1>a DEF updateTelemetry
  <1>6. ASSUME NEW u \in Users, NEW tok \in Tokens, Statement(u, tok) PROVE PoolInv'
    BY <1>6, <1>a DEF Statement
  <1>7. ASSUME NEW u \in Users, OpenRegisters(u) PROVE PoolInv'
    BY <1>7, <1>a DEF OpenRegisters
  <1>8. ASSUME NEW u \in Users, CloseUnregisters(u) PROVE PoolInv'
    BY <1>8, <1>a DEF CloseUnregisters
  <1>9. ASSUME NEW u \in Users, ClosePool(u) PROVE PoolInv'
    BY <1>9, <1>a DEF ClosePool, SectionInv, Sections
  <1>10. ASSUME NEW u \in Users, CloseDB(u) PROVE PoolInv'
    BY <1>10, <1>a DEF CloseDB, SectionInv, Sections
  <1>11. ASSUME NEW u \in Users, clearInstruments(u) PROVE PoolInv'
    BY <1>11, <1>a DEF clearInstruments
  <1>12. ASSUME NEW u \in Users, initInstruments(u) PROVE PoolInv'
    BY <1>12, <1>a DEF initInstruments
  <1>13. ASSUME NEW u \in Users, LabelLoads(u) PROVE PoolInv'
    BY <1>13, <1>a DEF LabelLoads
  <1>14. ASSUME NEW u \in Users, LabelLearns(u) PROVE PoolInv'
    BY <1>14, <1>a DEF LabelLearns
  <1>15. ASSUME NEW u \in Users, Begin(u) PROVE PoolInv'
    BY <1>15, <1>a DEF Begin
  <1>16. ASSUME NEW p \in Choices, Collect(p) PROVE PoolInv'
    BY <1>16, <1>a DEF Collect
  <1>17. ASSUME NEW p \in Choices, Collected(p) PROVE PoolInv'
    BY <1>17, <1>a DEF Collected
  <1>18. ASSUME NEW p \in Choices, snapshotStats(p) PROVE PoolInv'
    BY <1>18, <1>a DEF snapshotStats
  <1>19. ASSUME NEW p \in Choices, Observe(p) PROVE PoolInv'
    BY <1>19, <1>a DEF Observe
  <1>20. CASE UNCHANGED vars
    BY <1>20, <1>a
  <1> QED
    BY <1>1, <1>2, <1>3, <1>4, <1>5, <1>6, <1>7, <1>8, <1>9, <1>10, <1>11, <1>12, <1>13, <1>14,
       <1>15, <1>16, <1>17, <1>18, <1>19, <1>20 DEF Next, GoesOn, Collection

-----------------------------------------------------------------------------
\* At most one goroutine is inside a section.
LEMMA OneSection ==
    ASSUME SectionInv, NEW u \in Users, NEW q \in Users, pc[u] \in Sections, pc[q] \in Sections
    PROVE  u = q
  BY DEF SectionInv

\* Once no callback is left, registering one names it in the telemetry.
LEMMA StoreNames ==
    ASSUME DBOK, sqlDB' # 0, \A p \in Choices : registered[p] = {},
           NEW nt \in Telemetries, nt.reg = 0, RegisterAndStore(nt)
    PROVE  \A p \in Choices : registered'[p] = Named(p)'
  <1>1. CASE registered' = [registered EXCEPT ![nt.meter] = @ \cup {regs + 1}]
             /\ telemetry' = [nt EXCEPT !.reg = regs + 1]
    <2>1. telemetry'.meter = nt.meter /\ telemetry'.reg = regs + 1
      BY <1>1 DEF Telemetries
    <2>2. \A p \in Choices : registered'[p] = IF p = nt.meter THEN {regs + 1} ELSE {}
      BY <1>1 DEF DBOK
    <2>3. {regs + 1} \ {0} = {regs + 1}
      BY DEF DBOK
    <2> QED BY <2>1, <2>2, <2>3 DEF Named, NoRegistration
  <1>2. CASE telemetry' = nt /\ registered' = registered
    BY <1>2 DEF Named, NoRegistration
  <1> QED BY <1>1, <1>2 DEF RegisterAndStore, otelVars

\* The providers have the callback the telemetry names, except between its
\* removal and the next registration, or the end of Close.
LEMMA NextCallback == IInv /\ [Next]_vars => CallbackInv'
  <1> SUFFICES ASSUME IInv, [Next]_vars PROVE CallbackInv'
    OBVIOUS
  <1>a. /\ CallbackInv /\ SectionInv /\ CallsOK /\ DBOK /\ Nil \notin Users
        /\ \A u, q \in Users : pc[u] \in Sections /\ pc[q] \in Sections => u = q
        /\ \A u \in Users : mutex = Nil => pc[u] \notin Sections
    BY TokenAssumption, OneSection DEF IInv, TypeOK, SectionInv
  <1> DEFINE Kept == /\ UNCHANGED <<registered, telemetry, sqlDB>>
                     /\ \A q \in Users :
                           /\ pc'[q] \in Sections => pc[q] \in Sections /\ t'[q] = t[q]
                           /\ pc[q] \in Sections => pc'[q] = pc[q]
  <1>b. Kept => CallbackInv'
    <2> SUFFICES ASSUME Kept PROVE CallbackInv'
      OBVIOUS
    <2>1. \A p \in Choices : Named(p)' = Named(p) /\ registered'[p] = registered[p]
      BY DEF Named
    <2>2. \A q \in Users : pc'[q] \in Sections \/ pc[q] \in Sections
                          => pc'[q] = pc[q] /\ t'[q] = t[q]
      OBVIOUS
    <2>3. \A q \in Users : pc'[q] \in {"clearInstruments", "initInstruments"} => Building(q)'
      <3> TAKE q \in Users
      <3> HAVE pc'[q] \in {"clearInstruments", "initInstruments"}
      <3>1. pc'[q] = pc[q] /\ t'[q] = t[q] /\ telemetry' = telemetry
        BY <2>2 DEF Sections
      <3>2. Building(q)
        BY <1>a, <3>1 DEF CallbackInv
      <3> QED BY <3>1, <3>2 DEF Building
    <2> QED BY <1>a, <2>1, <2>2, <2>3 DEF CallbackInv
  <1> USE DEF CallsOK, DBOK, Labels, Sections, Goto, vars, dbVars, otelVars, callVars
  <1>1. ASSUME NEW u \in Users, OpenShares(u) PROVE CallbackInv'
    BY <1>1, <1>a, <1>b DEF OpenShares
  <1>2. ASSUME NEW u \in Users, OpenSingleton(u) PROVE CallbackInv'
    <2>1. \A p \in Choices : registered'[p] = {}
      BY <1>2, <1>a DEF OpenSingleton, CallbackInv, Named
    <2>2. \A q \in Users : pc'[q] \in Sections => pc'[q] = "openRegisters"
      BY <1>2, <1>a DEF OpenSingleton
    <2>3. pc'[u] = "openRegisters"
      BY <1>2, <1>a DEF OpenSingleton
    <2> QED BY <2>1, <2>2, <2>3 DEF CallbackInv
  <1>3. ASSUME NEW u \in Users, Close(u) PROVE CallbackInv'
    <2>1. \A p \in Choices : registered'[p] = Named(p)'
      BY <1>3, <1>a DEF Close, CallbackInv, Named
    <2>2. \A q \in Users : pc'[q] \in Sections => pc'[q] = "unregisters"
      BY <1>3, <1>a DEF Close
    <2> QED BY <2>1, <2>2 DEF CallbackInv
  <1>4. ASSUME NEW u \in Users, NEW mp \in Choices, SetMeterProvider(u, mp) PROVE CallbackInv'
    <2>1. \A p \in Choices : registered'[p] = Named(p)'
      BY <1>4, <1>a DEF SetMeterProvider, CallbackInv, Named
    <2>2. \A q \in Users : pc'[q] \in Sections => q = u /\ pc'[q] = "clearInstruments"
      BY <1>4, <1>a DEF SetMeterProvider
    <2>3. t'[u] = [telemetry EXCEPT !.meter = mp] /\ telemetry' = telemetry
      BY <1>4, <1>a DEF SetMeterProvider
    <2>4. pc'[u] = "clearInstruments" /\ [telemetry EXCEPT !.meter = mp].reg = telemetry.reg
      BY <1>4, <1>a DEF SetMeterProvider, Telemetries
    <2>5. Building(u)'
      BY <1>a, <2>3, <2>4 DEF Building, Telemetries
    <2> QED BY <2>1, <2>2, <2>5 DEF CallbackInv
  <1>5. ASSUME NEW u \in Users, NEW setter \in Setters, NEW choice \in Choices,
               updateTelemetry(u, setter, choice) PROVE CallbackInv'
    <2>1. setter = "tracer" \/ setter = "logger"
      BY SetterAssumption
    <2>2. telemetry'.meter = telemetry.meter /\ telemetry'.reg = telemetry.reg
      BY <1>5, <1>a, <2>1 DEF updateTelemetry, Telemetries
    <2>3. \A p \in Choices : registered'[p] = Named(p)'
      BY <1>5, <1>a, <2>2 DEF updateTelemetry, CallbackInv, Named
    <2>4. \A q \in Users : pc'[q] \notin Sections
      BY <1>5, <1>a DEF updateTelemetry
    <2> QED BY <2>3, <2>4 DEF CallbackInv
  <1>6. ASSUME NEW u \in Users, NEW tok \in Tokens, Statement(u, tok) PROVE CallbackInv'
    BY <1>6, <1>a, <1>b DEF Statement
  <1>7. ASSUME NEW u \in Users, OpenRegisters(u) PROVE CallbackInv'
    <2>1. \A p \in Choices : registered[p] = {}
      BY <1>7, <1>a DEF OpenRegisters, CallbackInv
    <2>2. \A q \in Users : pc'[q] \notin Sections
      BY <1>7, <1>a DEF OpenRegisters
    <2>3. DefaultTelemetry \in Telemetries /\ DefaultTelemetry.reg = 0
      BY DefaultType
    <2>4. sqlDB' # 0
      BY <1>7 DEF IInv, OpenRegisters, HandleInv, Holders, Closing
    <2>5. \A p \in Choices : registered'[p] = Named(p)'
      BY <1>7, <1>a, <2>1, <2>3, <2>4, StoreNames DEF OpenRegisters
    <2> QED BY <2>2, <2>5 DEF CallbackInv
  <1>8. ASSUME NEW u \in Users, CloseUnregisters(u) PROVE CallbackInv'
    <2>1. \A p \in Choices : registered[p] = Named(p)
      BY <1>8, <1>a DEF CloseUnregisters, CallbackInv
    <2>2. \A p \in Choices : registered'[p] = {}
      BY <1>8, <2>1 DEF CloseUnregisters, Unregister, Named
    <2>3. \A q \in Users : pc'[q] \in Sections => pc'[q] = "closePool"
      BY <1>8, <1>a DEF CloseUnregisters
    <2>4. pc'[u] = "closePool"
      BY <1>8, <1>a DEF CloseUnregisters
    <2> QED BY <2>2, <2>3, <2>4 DEF CallbackInv
  <1>9. ASSUME NEW u \in Users, ClosePool(u) PROVE CallbackInv'
    <2>1. \A p \in Choices : registered'[p] = {}
      BY <1>9, <1>a DEF ClosePool, CallbackInv
    <2>2. \A q \in Users : pc'[q] \in Sections => pc'[q] = "closeDB"
      BY <1>9, <1>a DEF ClosePool
    <2>3. pc'[u] = "closeDB"
      BY <1>9, <1>a DEF ClosePool
    <2> QED BY <2>1, <2>2, <2>3 DEF CallbackInv
  <1>10. ASSUME NEW u \in Users, CloseDB(u) PROVE CallbackInv'
    <2>1. \A p \in Choices : registered'[p] = Named(p)'
      BY <1>10, <1>a DEF CloseDB, CallbackInv, Named
    <2>2. \A q \in Users : pc'[q] \notin Sections
      BY <1>10, <1>a DEF CloseDB
    <2> QED BY <2>1, <2>2 DEF CallbackInv
  <1>11. ASSUME NEW u \in Users, clearInstruments(u) PROVE CallbackInv'
    <2>1. \A p \in Choices : registered[p] = Named(p)
      BY <1>11, <1>a DEF clearInstruments, CallbackInv
    <2>2. PICK mp \in Choices : t[u] = [telemetry EXCEPT !.meter = mp, !.reg = telemetry.reg]
      BY <1>11, <1>a DEF clearInstruments, CallbackInv, Building
    <2>3. \A p \in Choices : registered'[p] = {}
      BY <1>11, <1>a, <2>1, <2>2 DEF clearInstruments, Unregister, Named, Telemetries
    <2>4. \A q \in Users : pc'[q] \in Sections => q = u /\ pc'[q] = "initInstruments"
      BY <1>11, <1>a DEF clearInstruments
    <2>5. t'[u] = [telemetry EXCEPT !.meter = mp, !.reg = NoRegistration]
      BY <1>11, <1>a, <2>2 DEF clearInstruments, Telemetries
    <2>6. pc'[u] = "initInstruments" /\ telemetry' = telemetry
      BY <1>11, <1>a DEF clearInstruments
    <2>7. Building(u)'
      BY <2>5, <2>6 DEF Building
    <2> QED BY <2>3, <2>4, <2>6, <2>7 DEF CallbackInv
  <1>12. ASSUME NEW u \in Users, initInstruments(u) PROVE CallbackInv'
    <2>1. \A p \in Choices : registered[p] = {}
      BY <1>12, <1>a DEF initInstruments, CallbackInv
    <2>2. \A q \in Users : pc'[q] \notin Sections
      BY <1>12, <1>a DEF initInstruments
    <2>3. t[u] \in Telemetries /\ t[u].reg = 0
      BY <1>12, <1>a DEF initInstruments, CallbackInv, Building, NoRegistration, Telemetries
    <2>4. sqlDB' # 0
      BY <1>12 DEF IInv, initInstruments, HandleInv, Holders, Closing
    <2>5. \A p \in Choices : registered'[p] = Named(p)'
      BY <1>12, <1>a, <2>1, <2>3, <2>4, StoreNames DEF initInstruments
    <2> QED BY <2>2, <2>5 DEF CallbackInv
  <1>13. ASSUME NEW u \in Users, LabelLoads(u) PROVE CallbackInv'
    BY <1>13, <1>a, <1>b DEF LabelLoads
  <1>14. ASSUME NEW u \in Users, LabelLearns(u) PROVE CallbackInv'
    BY <1>14, <1>a, <1>b DEF LabelLearns
  <1>15. ASSUME NEW u \in Users, Begin(u) PROVE CallbackInv'
    BY <1>15, <1>a, <1>b DEF Begin, Forget
  <1>16. ASSUME NEW p \in Choices, Collect(p) PROVE CallbackInv'
    BY <1>16, <1>a, <1>b DEF Collect
  <1>17. ASSUME NEW p \in Choices, Collected(p) PROVE CallbackInv'
    BY <1>17, <1>a, <1>b DEF Collected
  <1>18. ASSUME NEW p \in Choices, snapshotStats(p) PROVE CallbackInv'
    BY <1>18, <1>a, <1>b DEF snapshotStats
  <1>19. ASSUME NEW p \in Choices, Observe(p) PROVE CallbackInv'
    BY <1>19, <1>a, <1>b DEF Observe
  <1>20. CASE UNCHANGED vars
    BY <1>20, <1>b
  <1> QED
    BY <1>1, <1>2, <1>3, <1>4, <1>5, <1>6, <1>7, <1>8, <1>9, <1>10, <1>11, <1>12, <1>13, <1>14,
       <1>15, <1>16, <1>17, <1>18, <1>19, <1>20 DEF Next, GoesOn, Collection

-----------------------------------------------------------------------------
\* A collection keeps its callback registered, for Unregister waits for its
\* lock, and so sees no other pool than the one that is open.
LEMMA NextCollect == IInv /\ [Next]_vars => CollectInv'
  <1> SUFFICES ASSUME IInv, [Next]_vars PROVE CollectInv'
    OBVIOUS
  <1>a. CollectInv /\ PoolInv /\ CollectingOK /\ DBOK
    BY DEF IInv, TypeOK
  <1>b. (\A p \in Choices : registered[p] = {})
        => \A p \in Choices : collecting[p].loaded = 0 /\ ~collecting[p].running
    BY <1>a DEF CollectInv
  <1> USE DEF CollectInv, CollectingOK, DBOK, vars, dbVars, otelVars
  <1>1. ASSUME NEW u \in Users, OpenShares(u) PROVE CollectInv'
    BY <1>1, <1>a DEF OpenShares
  <1>2. ASSUME NEW u \in Users, OpenSingleton(u) PROVE CollectInv'
    <2>1. \A p \in Choices : registered[p] = {}
      BY <1>2, TokenAssumption DEF IInv, OpenSingleton, SectionInv, CallbackInv, Named
    <2> QED BY <1>2, <1>a, <1>b, <2>1 DEF OpenSingleton
  <1>3. ASSUME NEW u \in Users, Close(u) PROVE CollectInv'
    BY <1>3, <1>a DEF Close
  <1>4. ASSUME NEW u \in Users, NEW mp \in Choices, SetMeterProvider(u, mp) PROVE CollectInv'
    BY <1>4, <1>a DEF SetMeterProvider
  <1>5. ASSUME NEW u \in Users, NEW setter \in Setters, NEW choice \in Choices,
               updateTelemetry(u, setter, choice) PROVE CollectInv'
    BY <1>5, <1>a DEF updateTelemetry
  <1>6. ASSUME NEW u \in Users, NEW tok \in Tokens, Statement(u, tok) PROVE CollectInv'
    BY <1>6, <1>a DEF Statement
  <1>7. ASSUME NEW u \in Users, OpenRegisters(u) PROVE CollectInv'
    <2>1. \A p \in Choices : registered[p] \subseteq registered'[p]
      BY <1>7, <1>a DEF OpenRegisters, RegisterAndStore
    <2> QED BY <1>7, <1>a, <2>1 DEF OpenRegisters
  <1>8. ASSUME NEW u \in Users, CloseUnregisters(u) PROVE CollectInv'
    <2>1. \A p \in Choices : collecting[p].running => registered'[p] = registered[p]
      BY <1>8, <1>a DEF CloseUnregisters, Unregister, LockFree
    <2> QED BY <1>8, <1>a, <2>1 DEF CloseUnregisters
  <1>9. ASSUME NEW u \in Users, ClosePool(u) PROVE CollectInv'
    BY <1>9, <1>a DEF ClosePool
  <1>10. ASSUME NEW u \in Users, CloseDB(u) PROVE CollectInv'
    <2>1. \A p \in Choices : registered[p] = {}
      BY <1>10 DEF IInv, CloseDB, CallbackInv, Sections
    <2> QED BY <1>10, <1>a, <1>b, <2>1 DEF CloseDB
  <1>11. ASSUME NEW u \in Users, clearInstruments(u) PROVE CollectInv'
    <2>1. \A p \in Choices : collecting[p].running => registered'[p] = registered[p]
      BY <1>11, <1>a DEF clearInstruments, Unregister, LockFree
    <2> QED BY <1>11, <1>a, <2>1 DEF clearInstruments
  <1>12. ASSUME NEW u \in Users, initInstruments(u) PROVE CollectInv'
    <2>1. \A p \in Choices : registered[p] \subseteq registered'[p]
      BY <1>12, <1>a DEF initInstruments, RegisterAndStore
    <2> QED BY <1>12, <1>a, <2>1 DEF initInstruments
  <1>13. ASSUME NEW u \in Users, LabelLoads(u) PROVE CollectInv'
    BY <1>13, <1>a DEF LabelLoads
  <1>14. ASSUME NEW u \in Users, LabelLearns(u) PROVE CollectInv'
    BY <1>14, <1>a DEF LabelLearns
  <1>15. ASSUME NEW u \in Users, Begin(u) PROVE CollectInv'
    BY <1>15, <1>a DEF Begin
  <1>16. ASSUME NEW p \in Choices, Collect(p) PROVE CollectInv'
    BY <1>16, <1>a DEF Collect, LockFree, NotCollecting
  <1>17. ASSUME NEW p \in Choices, Collected(p) PROVE CollectInv'
    BY <1>17, <1>a DEF Collected, NotCollecting
  <1>18. ASSUME NEW p \in Choices, snapshotStats(p) PROVE CollectInv'
    <2>1. collecting'[p].running = collecting[p].running /\ collecting'[p].loaded = pool
      BY <1>18, <1>a DEF snapshotStats
    <2>2. collecting[p].running
      BY <1>18, <1>a DEF snapshotStats
    <2>3. \A q \in Choices \ {p} : collecting'[q] = collecting[q]
      BY <1>18, <1>a DEF snapshotStats
    <2> QED BY <1>18, <1>a, <2>1, <2>2, <2>3 DEF snapshotStats, PoolInv
  <1>19. ASSUME NEW p \in Choices, Observe(p) PROVE CollectInv'
    <2>1. collecting[p].loaded \notin closed
      BY <1>19, <1>a DEF Observe, PoolInv
    <2> QED BY <1>19, <1>a, <2>1 DEF Observe
  <1>20. CASE UNCHANGED vars
    BY <1>20, <1>a
  <1> QED
    BY <1>1, <1>2, <1>3, <1>4, <1>5, <1>6, <1>7, <1>8, <1>9, <1>10, <1>11, <1>12, <1>13, <1>14,
       <1>15, <1>16, <1>17, <1>18, <1>19, <1>20 DEF Next, GoesOn, Collection

\* A verb is learned while there is room, and dropped only when there is none.
LEMMA NextLabel == IInv /\ [Next]_vars => LabelInv'
  <1> SUFFICES ASSUME IInv, [Next]_vars PROVE LabelInv'
    OBVIOUS
  <1>a. LabelInv /\ Cardinality(known) \in Nat
    BY FS_CardinalityType DEF IInv, LabelInv
  <1> USE DEF LabelInv, HasRoom, vars, labelVars
  <1>1. ASSUME NEW u \in Users, OpenShares(u) PROVE LabelInv'
    BY <1>1, <1>a DEF OpenShares
  <1>2. ASSUME NEW u \in Users, OpenSingleton(u) PROVE LabelInv'
    BY <1>2, <1>a DEF OpenSingleton
  <1>3. ASSUME NEW u \in Users, Close(u) PROVE LabelInv'
    BY <1>3, <1>a DEF Close
  <1>4. ASSUME NEW u \in Users, NEW mp \in Choices, SetMeterProvider(u, mp) PROVE LabelInv'
    BY <1>4, <1>a DEF SetMeterProvider
  <1>5. ASSUME NEW u \in Users, NEW setter \in Setters, NEW choice \in Choices,
               updateTelemetry(u, setter, choice) PROVE LabelInv'
    BY <1>5, <1>a DEF updateTelemetry
  <1>6. ASSUME NEW u \in Users, NEW tok \in Tokens, Statement(u, tok) PROVE LabelInv'
    BY <1>6, <1>a DEF Statement
  <1>7. ASSUME NEW u \in Users, OpenRegisters(u) PROVE LabelInv'
    BY <1>7, <1>a DEF OpenRegisters
  <1>8. ASSUME NEW u \in Users, CloseUnregisters(u) PROVE LabelInv'
    BY <1>8, <1>a DEF CloseUnregisters
  <1>9. ASSUME NEW u \in Users, ClosePool(u) PROVE LabelInv'
    BY <1>9, <1>a DEF ClosePool
  <1>10. ASSUME NEW u \in Users, CloseDB(u) PROVE LabelInv'
    BY <1>10, <1>a DEF CloseDB
  <1>11. ASSUME NEW u \in Users, clearInstruments(u) PROVE LabelInv'
    BY <1>11, <1>a DEF clearInstruments
  <1>12. ASSUME NEW u \in Users, initInstruments(u) PROVE LabelInv'
    BY <1>12, <1>a DEF initInstruments
  <1>13. ASSUME NEW u \in Users, LabelLoads(u) PROVE LabelInv'
    BY <1>13, <1>a DEF LabelLoads
  <1>14. ASSUME NEW u \in Users, LabelLearns(u) PROVE LabelInv'
    <2>1. CASE token[u] \in known
      <3>1. known' = known /\ reported' = reported \cup {token[u]}
            /\ bucketed' = bucketed /\ capExceeded' = capExceeded
        BY <1>14, <2>1 DEF LabelLearns
      <3> QED BY <1>a, <2>1, <3>1
    <2>2. CASE token[u] \notin known /\ HasRoom
      <3>1. known' = known \cup {token[u]} /\ reported' = reported \cup {token[u]}
            /\ bucketed' = bucketed /\ bucketed = {}
        BY <1>14, <1>a, <2>2 DEF LabelLearns
      <3>2. IsFiniteSet(known') /\ Cardinality(known') = Cardinality(known) + 1
        BY <1>a, <2>2, <3>1, FS_AddElement
      <3> QED BY <1>a, <2>2, <3>1, <3>2, CapAssumption
    <2>3. CASE token[u] \notin known /\ ~HasRoom
      <3>1. known' = known /\ reported' = reported
            /\ bucketed' = bucketed \cup {token[u]} /\ capExceeded'
        BY <1>14, <2>3 DEF LabelLearns
      <3> QED BY <1>a, <2>3, <3>1
    <2> QED BY <2>1, <2>2, <2>3
  <1>15. ASSUME NEW u \in Users, Begin(u) PROVE LabelInv'
    BY <1>15, <1>a DEF Begin
  <1>16. ASSUME NEW p \in Choices, Collect(p) PROVE LabelInv'
    BY <1>16, <1>a DEF Collect
  <1>17. ASSUME NEW p \in Choices, Collected(p) PROVE LabelInv'
    BY <1>17, <1>a DEF Collected
  <1>18. ASSUME NEW p \in Choices, snapshotStats(p) PROVE LabelInv'
    BY <1>18, <1>a DEF snapshotStats
  <1>19. ASSUME NEW p \in Choices, Observe(p) PROVE LabelInv'
    BY <1>19, <1>a DEF Observe
  <1>20. CASE UNCHANGED vars
    BY <1>20, <1>a
  <1> QED
    BY <1>1, <1>2, <1>3, <1>4, <1>5, <1>6, <1>7, <1>8, <1>9, <1>10, <1>11, <1>12, <1>13, <1>14,
       <1>15, <1>16, <1>17, <1>18, <1>19, <1>20 DEF Next, GoesOn, Collection

\* The inductive invariant holds in every state.
LEMMA Invariance == Spec => []IInv
  <1>1. IInv /\ [Next]_vars => IInv'
    BY NextDB, NextCollecting, NextLabels, NextCalls, NextSection, NextHandle, NextPool,
       NextCallback, NextCollect, NextLabel DEF IInv, TypeOK
  <1> QED BY <1>1, InitIInv, PTL DEF Spec

-----------------------------------------------------------------------------
\* The *DB, the providers, the labels and the goroutines keep their types.
THEOREM TypeCorrect == Spec => []TypeOK
  <1>1. IInv => TypeOK
    BY DEF IInv
  <1> QED BY <1>1, Invariance, PTL

\* Whenever no section is under way, the providers have exactly the callback of
\* the open *DB, on the provider last set: none is leaked by a setter, by Close
\* or by opening again, whatever registrations fail.
THEOREM CallbackUnique == Spec => []OneCallback
  <1>1. IInv => OneCallback
    <2> SUFFICES ASSUME IInv, mutex = Nil PROVE \A p \in Choices : registered[p] = Named(p)
      BY DEF OneCallback, Named
    <2>1. \A u \in Users : pc[u] \notin Sections
      BY TokenAssumption DEF IInv, SectionInv
    <2> QED BY <2>1 DEF IInv, CallbackInv
  <1> QED BY <1>1, Invariance, PTL

\* The callback never takes the statistics of a closed pool.
THEOREM ClosedPoolsUnread == Spec => []NoClosedPoolRead
  <1>1. IInv => NoClosedPoolRead
    BY DEF IInv, CollectInv, NoClosedPoolRead
  <1> QED BY <1>1, Invariance, PTL

\* The verbs reported are at most operationLabelCap, and no verb is reported
\* both as itself and as OTHER.
THEOREM LabelsBounded == Spec => []LabelsStable
  <1>1. IInv => LabelsStable
    <2> SUFFICES ASSUME IInv PROVE LabelsStable
      OBVIOUS
    <2>1. LabelInv /\ reported \in SUBSET known
      BY DEF IInv, LabelInv
    <2>2. Cardinality(reported) <= Cardinality(known) /\ IsFiniteSet(reported)
      BY <2>1, FS_Subset DEF LabelInv
    <2>3. Cardinality(reported) \in Nat /\ Cardinality(known) \in Nat
      BY <2>1, <2>2, FS_CardinalityType DEF LabelInv
    <2> QED BY <2>1, <2>2, <2>3, CapAssumption DEF LabelInv, LabelsStable
  <1> QED BY <1>1, Invariance, PTL

\* A statement whose verb was dropped begins only once the warning is given.
THEOREM DropsAreWarned == Spec => CapWarned
  <1> DEFINE A == \A u \in Users : Begins(u) /\ token[u] \in bucketed => warned' # "no"
  <1>1. IInv /\ [Next]_vars => [A]_vars
    <2> SUFFICES ASSUME IInv, Next, NEW u \in Users, Begins(u), token[u] \in bucketed
                 PROVE  warned' # "no"
      OBVIOUS
    <2>1. CallsOK /\ capExceeded /\ t[u].logger \in Choices
      BY DEF IInv, TypeOK, LabelInv, CallsOK, Telemetries
    <2>2. pc \in [Users -> Labels] /\ pc[u] = "begin" /\ pc'[u] = "idle"
      BY <2>1 DEF CallsOK, Begins
    <2>3. Begin(u)
      <3>1. ASSUME NEW q \in Users, GoesOn(q) PROVE Begin(u)
        BY <2>2, <3>1 DEF GoesOn, OpenRegisters, CloseUnregisters, ClosePool, CloseDB,
           clearInstruments, initInstruments, LabelLoads, LabelLearns, Begin, Goto
      <3>2. ASSUME NEW q \in Users,
                   \/ OpenShares(q) \/ OpenSingleton(q) \/ Close(q)
                   \/ \E mp \in Choices : SetMeterProvider(q, mp)
                   \/ \E setter \in Setters, choice \in Choices : updateTelemetry(q, setter, choice)
                   \/ \E tok \in Tokens : Statement(q, tok)
            PROVE  FALSE
        BY <2>2, <3>2 DEF OpenShares, OpenSingleton, Close, SetMeterProvider, updateTelemetry,
           Statement, Goto
      <3>3. ASSUME NEW p \in Choices, Collect(p) \/ Collection(p) PROVE FALSE
        BY <2>2, <3>3 DEF Collect, Collection, Collected, snapshotStats, Observe
      <3> QED BY <3>1, <3>2, <3>3 DEF Next
    <2> QED BY <2>1, <2>3 DEF Begin, logOperationCapOnce, Choices
  <1> QED BY <1>1, Invariance, PTL DEF Spec, CapWarned

\* A setter changes nothing but what it sets, though the telemetry is copied,
\* changed and swapped in: no setter undoes what another did meanwhile.
THEOREM SettersKeepOthers == Spec => SettersKept
  <1> DEFINE BySetter == \E s \in Setters : telemetry' = [telemetry EXCEPT ![s] = telemetry'[s]]
             ByMeter == \E mp \in Choices, r \in 0..regs' :
                            telemetry' = [telemetry EXCEPT !.meter = mp, !.reg = r]
             ByOpen == telemetry' = [DefaultTelemetry EXCEPT !.reg = telemetry'.reg]
                       /\ \E u \in Users : pc[u] = "openRegisters"
             A == telemetry' # telemetry => BySetter \/ ByMeter \/ ByOpen
  <1>1. IInv /\ [Next]_vars => [A]_vars
    <2> SUFFICES ASSUME IInv, Next, telemetry' # telemetry PROVE BySetter \/ ByMeter \/ ByOpen
      OBVIOUS
    <2>1. DBOK /\ CallsOK /\ telemetry \in Telemetries /\ regs \in Nat
      BY DEF IInv, TypeOK, DBOK
    <2>2. ASSUME NEW u \in Users, NEW setter \in Setters, NEW choice \in Choices,
                 updateTelemetry(u, setter, choice)
          PROVE  BySetter
      <3>1. setter = "tracer" \/ setter = "logger"
        BY SetterAssumption
      <3>2. telemetry' = [telemetry EXCEPT ![setter] = telemetry'[setter]]
        BY <2>1, <2>2, <3>1 DEF updateTelemetry, Telemetries
      <3> QED BY <3>2
    <2>3. ASSUME NEW u \in Users, initInstruments(u) PROVE ByMeter
      <3>1. PICK mp \in Choices : t[u] = [telemetry EXCEPT !.meter = mp, !.reg = 0]
        BY <2>3 DEF IInv, initInstruments, CallbackInv, Building, NoRegistration
      <3>2. CASE telemetry' = [t[u] EXCEPT !.reg = regs + 1] /\ regs' = regs + 1
        <4>1. telemetry' = [telemetry EXCEPT !.meter = mp, !.reg = regs + 1]
          BY <2>1, <3>1, <3>2 DEF Telemetries
        <4>2. regs + 1 \in 0..regs'
          BY <2>1, <3>2
        <4> QED BY <4>1, <4>2
      <3>3. CASE telemetry' = t[u] /\ regs' = regs
        <4>1. 0 \in 0..regs'
          BY <2>1, <3>3
        <4> QED BY <3>1, <3>3, <4>1
      <3> QED BY <2>3, <3>2, <3>3 DEF initInstruments, RegisterAndStore, otelVars
    <2>4. ASSUME NEW u \in Users, OpenRegisters(u) PROVE ByOpen
      <3>1. telemetry' = [DefaultTelemetry EXCEPT !.reg = telemetry'.reg]
        BY <2>4 DEF OpenRegisters, RegisterAndStore, DefaultTelemetry
      <3> QED BY <2>4, <3>1 DEF OpenRegisters
    <2>5. ASSUME NEW u \in Users, GoesOn(u) PROVE initInstruments(u) \/ OpenRegisters(u)
      BY <2>5 DEF GoesOn, CloseUnregisters, ClosePool, CloseDB, clearInstruments, LabelLoads,
         LabelLearns, Begin
    <2>6. ASSUME NEW u \in Users,
                 \/ OpenShares(u) \/ OpenSingleton(u) \/ Close(u)
                 \/ \E mp \in Choices : SetMeterProvider(u, mp)
                 \/ \E tok \in Tokens : Statement(u, tok)
          PROVE  FALSE
      BY <2>6 DEF OpenShares, OpenSingleton, Close, SetMeterProvider, Statement
    <2>7. ASSUME NEW p \in Choices, Collect(p) \/ Collection(p) PROVE FALSE
      BY <2>7 DEF Collect, Collection, Collected, snapshotStats, Observe
    <2> HIDE DEF BySetter, ByMeter, ByOpen
    <2> QED BY <2>2, <2>3, <2>4, <2>5, <2>6, <2>7 DEF Next
  <1> QED BY <1>1, Invariance, PTL DEF Spec, SettersKept
=============================================================================
