------------------------------ MODULE Registry ------------------------------
(***************************************************************************)
(* What the query cache and the registry of virtual functions promise      *)
(* together, as if there were no cache: registrations are published one    *)
(* after the other, each changing one name, and a lookup answers at one    *)
(* instant, with a statement expanded by a registry that was published no  *)
(* later than that instant and is no older than any registration that had  *)
(* returned when the lookup was called.                                    *)
(***************************************************************************)
EXTENDS Integers

CONSTANTS Lookups, Names

VARIABLES
    names,    \* the registered names
    version,  \* how many registrations were published
    settled,  \* the newest that has returned
    status,   \* of a lookup: "idle", "called", "answered"
    since,    \* settled, when it was called
    answer    \* the version it answered with

vars == <<names, version, settled, status, since, answer>>

Init ==
    /\ names = {} /\ version = 0 /\ settled = 0
    /\ status = [t \in Lookups |-> "idle"]
    /\ since = [t \in Lookups |-> 0]
    /\ answer = [t \in Lookups |-> 0]

\* A registration takes effect.
Publish ==
    /\ \E n \in Names : names' \in {names \cup {n}, names \ {n}}
    /\ version' = version + 1
    /\ UNCHANGED <<settled, status, since, answer>>

\* A registration returns, perhaps after a later one.
Settle ==
    /\ settled' \in settled..version
    /\ UNCHANGED <<names, version, status, since, answer>>

Call(t) ==
    /\ status[t] = "idle"
    /\ status' = [status EXCEPT ![t] = "called"]
    /\ since' = [since EXCEPT ![t] = settled]
    /\ UNCHANGED <<names, version, settled, answer>>

Answer(t) ==
    /\ status[t] = "called"
    /\ status' = [status EXCEPT ![t] = "answered"]
    /\ \E v \in since[t]..version : answer' = [answer EXCEPT ![t] = v]
    /\ UNCHANGED <<names, version, settled, since>>

Return(t) ==
    /\ status[t] = "answered"
    /\ status' = [status EXCEPT ![t] = "idle"]
    /\ since' = [since EXCEPT ![t] = 0]
    /\ answer' = [answer EXCEPT ![t] = 0]
    /\ UNCHANGED <<names, version, settled>>

Next == Publish \/ Settle \/ \E t \in Lookups : Call(t) \/ Answer(t) \/ Return(t)

Spec == Init /\ [][Next]_vars
=============================================================================
