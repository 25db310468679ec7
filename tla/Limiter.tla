------------------------------ MODULE Limiter ------------------------------
(***************************************************************************)
(* What every concurrency limiter of the library promises: at most Limit   *)
(* users are inside at once.  Bulkhead implements it.                      *)
(***************************************************************************)
EXTENDS Naturals, FiniteSets

CONSTANTS Users, Limit

VARIABLE inside

Init == inside = {}

Enter(u) == /\ u \in Users \ inside
            /\ Cardinality(inside) < Limit
            /\ inside' = inside \cup {u}

Leave(u) == /\ u \in inside
            /\ inside' = inside \ {u}

Next == \E u \in Users : Enter(u) \/ Leave(u)

Spec == Init /\ [][Next]_inside
=============================================================================
