------------------------------ MODULE Circuit ------------------------------
(***************************************************************************)
(* What a circuit breaker promises to someone who sees only its state and  *)
(* its count of consecutive failures: every change is one atomic step of   *)
(* the four-edge state machine documented in circuitx.  Module Breaker     *)
(* refines it.                                                             *)
(***************************************************************************)
EXTENDS Naturals

CONSTANT MaxFailures    \* consecutive failures that trip the circuit, at least one

VARIABLES state, failures

vars == <<state, failures>>

Closed   == "closed"
Open     == "open"
HalfOpen == "half_open"
States   == {Closed, Open, HalfOpen}

Init == state = Closed /\ failures = 0

\* A counted failure that stays below the threshold.
Count == /\ state = Closed
         /\ failures + 1 < MaxFailures
         /\ failures' = failures + 1
         /\ UNCHANGED state

\* A success forgives the failures before it.
Forgive == state = Closed /\ failures' = 0 /\ UNCHANGED state

\* The threshold, a failed probe or a forced trip; a trip that is forced by
\* a call that did not fail leaves the count alone.
Trip == /\ state # Open
        /\ state' = Open
        /\ failures' \in {failures, failures + 1}

\* The reset timeout has passed.
Promote == state = Open /\ state' = HalfOpen /\ UNCHANGED failures

\* Enough probes succeeded.
Heal == state = HalfOpen /\ state' = Closed /\ failures' = 0

\* An operator's Reset, from any state.
Reset == state' = Closed /\ failures' = 0

Next == Count \/ Forgive \/ Trip \/ Promote \/ Heal \/ Reset

Spec == Init /\ [][Next]_vars
=============================================================================
