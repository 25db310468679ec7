------------------------------- MODULE MCLru -------------------------------
EXTENDS Lru, TLC

CONSTANTS k1, k2, k3

\* Names of flights that tell the keys apart.
Distinct == [k \in Keys |-> k]

\* fmt.Sprint makes the same string of struct keys {"a b", "c"} and {"a", "b c"}.
Colliding == [k \in Keys |-> "{a b c}"]

Symmetry == Permutations(Callers) \cup Permutations(Keys)
=============================================================================
