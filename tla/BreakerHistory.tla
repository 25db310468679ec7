--------------------------- MODULE BreakerHistory ---------------------------
(***************************************************************************)
(* Breaker with a memory of what the code does not store: the edges nobody *)
(* has reported yet, and the calls admitted before the last Reset.  The    *)
(* properties that need it are stated here.                                *)
(***************************************************************************)
EXTENDS Breaker, TLC

VARIABLES
  owed,     \* how often each edge happened and was not yet reported
  fenced    \* calls in flight that were admitted before the last Reset

hvars == <<vars, owed, fenced>>

Admitted == {"reserve", "run"} \cup Settling \cup Releasing

Resets(g)  == pc[g] = "idle" /\ pc'[g] = "resetBump"
Reports(g) == pc[g] = "fire" /\ pc'[g] # "fire"

Record ==
  /\ owed' = [e \in States \X States |->
                owed[e] + (IF state' # state /\ e = <<state, state'>> THEN 1 ELSE 0)
                        - (IF \E g \in Goroutines : Reports(g) /\ edge[g] = e THEN 1 ELSE 0)]
  /\ fenced' = IF \E g \in Resetters : Resets(g)
                 THEN {g \in Callers : pc[g] \in Admitted}
                 ELSE fenced

HInit == Init /\ owed = [e \in States \X States |-> 0] /\ fenced = {}
HNext == Next /\ Record
HSpec == HInit /\ [][HNext]_hvars

-----------------------------------------------------------------------------
(* What the code keeps. *)

\* Every edge is reported to the hook once and with its true ends: what the
\* goroutines have yet to report is what has happened and is unreported
\* (fireStateChange and its callers).
HookOncePerEdge ==
  \A e \in States \X States :
    Cardinality({g \in Goroutines : edge[g] = e}) = owed[e]

\* A call admitted before a Reset never gets to heal, trip or count a failure
\* after it, even if it was waiting for the mutex when Reset took it (Reset).
ResetFences == \A g \in fenced : pc[g] \notin Bodies

-----------------------------------------------------------------------------
(* What the documentation says and the code does not keep. *)

\* With nothing in flight no probe slot is taken; a slot nobody will give back
\* makes a half-open circuit reject every call until somebody calls Reset.
NoLeakedProbeSlot ==
  state = HalfOpen /\ (\A g \in Goroutines : pc[g] \in {"idle", "done"})
    => halfOpenInflight = 0

-----------------------------------------------------------------------------
\* Callers are interchangeable: what TLC permutes in its runs.
Symmetry == Permutations(Callers)
=============================================================================
