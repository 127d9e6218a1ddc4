----------------------------- MODULE MCMigrate ------------------------------
\* Migrate for TLC: who has which files.
EXTENDS Migrate

CONSTANT older   \* the replica of the release before

\* A replica of the release before lacks the last migration; 0.sql is never run.
Releases == [r \in Runners |-> IF r = older THEN {0, 1} ELSE {0, 1, 2}]

\* The releases are those the theorems about the order of migrations are about.
ASSUME ReleasesAssumption == Cumulative
=============================================================================
