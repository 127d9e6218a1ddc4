-------------------------------- MODULE Hours -------------------------------
(***************************************************************************)
(* The split of milliseconds into hours and a rest, in which               *)
(* DATE_ADD_MILLIS adds them on SQL Server (mssqlDateAddMillis, vf.go).    *)
(***************************************************************************)
EXTENDS Integers

CONSTANT Hour  \* the milliseconds of an hour, 3600000 in the code

ASSUME HourAssumption == Hour \in Nat \ {0}

\* Mutant: the remainder of a negative number is that of a positive one.
RemFloored(n) == n % Hour

\* Go's n/Hour and n%Hour truncate towards zero.
Quo(n) == IF n < 0 THEN -((-n) \div Hour) ELSE n \div Hour
Rem(n) == n - Hour * Quo(n)

\* What is added in one interval, without hours.
Direct(n) == n \in (1 - Hour)..(Hour - 1)

-----------------------------------------------------------------------------
(* Properties *)

(***************************************************************************)
(* DATEADD takes an int for each of the two intervals, the hours and the   *)
(* rest: together they are the milliseconds, the rest is one that is       *)
(* added directly, neither points the other way, and there are fewer       *)
(* hours than n has milliseconds over Hour.  With Limit the first int that *)
(* overflows, this is why any n up to Limit hours can be added.            *)
(***************************************************************************)
SplitRight(n) ==
    /\ Quo(n) \in Int /\ Hour * Quo(n) + Rem(n) = n
    /\ Direct(Rem(n))
    /\ n >= 0 => Quo(n) >= 0 /\ Rem(n) >= 0
    /\ n <= 0 => Quo(n) <= 0 /\ Rem(n) <= 0
    /\ \A Limit \in Nat : n \in (1 - Limit * Hour)..(Limit * Hour - 1) => Quo(n) \in (1 - Limit)..(Limit - 1)
=============================================================================
