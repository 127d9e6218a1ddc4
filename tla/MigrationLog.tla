---------------------------- MODULE MigrationLog ----------------------------
(***************************************************************************)
(* What DB.Migrate promises the replicas that share a database, as if one  *)
(* process kept the log of its migrations: a migration is executed by one  *)
(* replica at a time, when those before it are in the log and it is not;   *)
(* it enters the log after all of its statements took effect; and Migrate  *)
(* answers nil when the log holds every migration of the replica.          *)
(***************************************************************************)
EXTENDS Integers

CONSTANTS Runners, FilesOf

VARIABLES
    log,        \* the migrations that are completed
    applied,    \* those all of whose statements took effect, in one run
    executing,  \* of each replica: the migration it executes, if any, as a set
    status      \* of its call: "idle", "called", "ok", "failed"

vars == <<log, applied, executing, status>>

Init ==
    /\ log = {} /\ applied = {}
    /\ executing = [r \in Runners |-> {}]
    /\ status = [r \in Runners |-> "idle"]

\* The migrations numbered from 1 on.
Numbered(r) == {f \in FilesOf[r] : f > 0}

Call(r) ==
    /\ status[r] # "called"
    /\ status' = [status EXCEPT ![r] = "called"]
    /\ UNCHANGED <<log, applied, executing>>

Start(r) ==
    /\ status[r] = "called" /\ executing[r] = {}
    /\ \E f \in FilesOf[r] \ log :
          /\ \A g \in Numbered(r) : g < f => g \in log
          /\ \A q \in Runners : f \notin executing[q]
          /\ executing' = [executing EXCEPT ![r] = {f}]
    /\ UNCHANGED <<log, applied, status>>

Apply(r) ==
    /\ executing[r] # {}
    /\ applied' = applied \cup executing[r]
    /\ UNCHANGED <<log, executing, status>>

\* What was applied is recorded, and the call goes on, fails or is done.
Record(r) ==
    /\ executing[r] # {} /\ executing[r] \subseteq applied
    /\ log' = log \cup executing[r]
    /\ executing' = [executing EXCEPT ![r] = {}]
    /\ \E s \in {"called", "failed"} \cup (IF Numbered(r) \subseteq log' THEN {"ok"} ELSE {}) :
          status' = [status EXCEPT ![r] = s]
    /\ UNCHANGED applied

Nil(r) ==
    /\ status[r] = "called" /\ executing[r] = {}
    /\ Numbered(r) \subseteq log
    /\ status' = [status EXCEPT ![r] = "ok"]
    /\ UNCHANGED <<log, applied, executing>>

\* The call fails, or the replica dies.
Stop(r) ==
    /\ executing' = [executing EXCEPT ![r] = {}]
    /\ \E s \in {"failed", "idle"} : status' = [status EXCEPT ![r] = s]
    /\ UNCHANGED <<log, applied>>

\* The database is made anew.
Recreate ==
    /\ \A r \in Runners : executing[r] = {}
    /\ log' = {} /\ applied' = {}
    /\ UNCHANGED <<executing, status>>

Next ==
    \/ \E r \in Runners : Call(r) \/ Start(r) \/ Apply(r) \/ Record(r) \/ Nil(r) \/ Stop(r)
    \/ Recreate

Spec == Init /\ [][Next]_vars
=============================================================================
