---------------------------- MODULE MCQueryCache ----------------------------
\* QueryCache for TLC: statements, names and goroutines are interchangeable.
EXTENDS QueryCache, TLC

Symmetry == Permutations(Keys) \cup Permutations(Names) \cup Permutations(Lookups) \cup Permutations(Registrars)
=============================================================================
