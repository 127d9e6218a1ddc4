-------------------------- MODULE AtomicTransaction -------------------------
(***************************************************************************)
(* What Transact promises, whatever the statements, batches, connections,  *)
(* goroutines and retries underneath: the statements that the closure asks *)
(* for take effect together, once, or not at all, and it answers nil only  *)
(* when they did.  An attempt that is given up is forgotten.               *)
(***************************************************************************)
CONSTANT NoAnswer

VARIABLES asked,      \* the statements asked for in this attempt
          durable,    \* the statements that took effect
          committed,  \* did an attempt commit?
          answer      \* NoAnswer, "nil" or "failed"

vars == <<asked, durable, committed, answer>>

Init ==
    /\ asked = {} /\ durable = {}
    /\ committed = FALSE
    /\ answer = NoAnswer

\* The closure asks for more, or an attempt starts anew.
Ask ==
    /\ ~committed /\ answer = NoAnswer
    /\ asked \subseteq asked' \/ asked' = {}
    /\ UNCHANGED <<durable, committed, answer>>

\* All of them take effect.
Commit ==
    /\ ~committed /\ answer = NoAnswer
    /\ committed' = TRUE
    /\ durable' = asked
    /\ UNCHANGED <<asked, answer>>

\* The answer to a commit may be lost, and the caller told that it failed.
Answer ==
    /\ answer = NoAnswer
    /\ \/ answer' = "nil" /\ committed
       \/ answer' = "failed"
    /\ UNCHANGED <<asked, durable, committed>>

Next == Ask \/ Commit \/ Answer

Spec == Init /\ [][Next]_vars
=============================================================================
