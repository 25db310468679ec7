------------------------------ MODULE Shedder ------------------------------
(***************************************************************************)
(* shedx.Shedder: a count of calls in flight that is claimed by compare    *)
(* and swap, a latch beside it that remembers that shedding has begun, and *)
(* a closed flag that is read again after a claim.                         *)
(*                                                                         *)
(* Fractions are percentages: 100 * n is compared with percent * Capacity. *)
(***************************************************************************)
EXTENDS Integers, FiniteSets

CONSTANTS
  Callers,     \* goroutines that make one call each
  Capacity,
  Threshold,   \* percentages
  Hysteresis,  \* 0 is off
  Cutoff       \* of "low", "normal" and "high"

VARIABLES
  inflight, closed,
  shedding,    \* the latch
  pc, priority,
  claims,      \* whether a call wants a slot, or only asks (Allow)
  seen         \* what a caller has read of inflight

vars == <<inflight, closed, shedding, pc, priority, claims, seen>>

Priorities == {"low", "normal", "high", "critical"}
Labels == {"idle", "load", "judge", "latch", "unlatch", "swap", "commit", "back", "run", "spent",
           "done"}

TypeOK ==
  /\ inflight \in 0 .. Cardinality(Callers)
  /\ closed \in BOOLEAN /\ shedding \in BOOLEAN
  /\ pc \in [Callers -> Labels]
  /\ priority \in [Callers -> Priorities]
  /\ claims \in [Callers -> BOOLEAN]
  /\ seen \in [Callers -> 0 .. Cardinality(Callers)]

Init ==
  /\ inflight = 0 /\ closed = FALSE /\ shedding = FALSE
  /\ pc = [c \in Callers |-> "idle"]
  /\ priority \in [Callers -> Priorities]
  /\ claims \in [Callers -> BOOLEAN]
  /\ seen = [c \in Callers |-> 0]

-----------------------------------------------------------------------------
(* Admission of the n-th call. *)

Below(n, percent) == 100 * n < percent * Capacity

\* applyCutoffs: (load - threshold) / (1 - threshold) < cutoff
ApplyCutoffs(n, p) ==
  /\ Threshold < 100
  /\ 100 * (100 * n - Threshold * Capacity) < Cutoff[p] * (100 - Threshold) * Capacity

\* What admits answers, given what it has read of the latch; and what it stores.
Admits(n, p, latched) ==
  \/ p = "critical"
  \/ Hysteresis > 0 /\ latched /\ Below(n, Threshold - Hysteresis)
  \/ ~(Hysteresis > 0 /\ latched) /\ Below(n, Threshold)
  \/ ~Below(n, Threshold) /\ ApplyCutoffs(n, p)
Unlatches(n, p, latched) ==
  p # "critical" /\ Hysteresis > 0 /\ latched /\ Below(n, Threshold - Hysteresis)
Latches(n, p, latched) ==
  p # "critical" /\ Hysteresis > 0 /\ ~latched /\ ~Below(n, Threshold)

-----------------------------------------------------------------------------
At(c, label)   == pc[c] = label
Goto(c, label) == pc' = [pc EXCEPT ![c] = label]

\* Execute, TryExecute and Acquire begin with tryReserve's look at closed; Allow
\* asks the same questions about a count that it does not claim.
Enter(c) ==
  /\ At(c, "idle")
  /\ Goto(c, IF closed THEN "done" ELSE "load")
  /\ UNCHANGED <<inflight, closed, shedding, priority, claims, seen>>

LoadCount(c) ==
  /\ At(c, "load")
  /\ seen' = [seen EXCEPT ![c] = inflight]
  /\ Goto(c, "judge")
  /\ UNCHANGED <<inflight, closed, shedding, priority, claims>>

Admitted(c) == IF claims[c] THEN "swap" ELSE "done"

\* admits reads the latch, and stores to it afterwards.
Judge(c) ==
  /\ At(c, "judge")
  /\ LET n == seen[c] + 1
     IN  Goto(c, IF Unlatches(n, priority[c], shedding) THEN "unlatch"
                 ELSE IF Latches(n, priority[c], shedding) THEN "latch"
                 ELSE IF Admits(n, priority[c], shedding) THEN Admitted(c) ELSE "done")
  /\ UNCHANGED <<inflight, closed, shedding, priority, claims, seen>>

Unlatch(c) ==
  /\ At(c, "unlatch")
  /\ shedding' = FALSE
  /\ Goto(c, Admitted(c))
  /\ UNCHANGED <<inflight, closed, priority, claims, seen>>

Latch(c) ==
  /\ At(c, "latch")
  /\ shedding' = TRUE
  /\ Goto(c, IF ApplyCutoffs(seen[c] + 1, priority[c]) THEN Admitted(c) ELSE "done")
  /\ UNCHANGED <<inflight, closed, priority, claims, seen>>

\* CompareAndSwap; on failure the loop looks at closed again.
AddAnyway(c) == TRUE                                     \* mutant
Unchanged(c) == inflight = seen[c]
Swap(c) ==
  /\ At(c, "swap")
  /\ IF Unchanged(c) THEN inflight' = inflight + 1 /\ Goto(c, "commit")
     ELSE UNCHANGED inflight /\ Goto(c, IF closed THEN "done" ELSE "load")
  /\ UNCHANGED <<closed, shedding, priority, claims, seen>>

\* commitReservation
KeepsTheSlot(c) == "done"                                \* mutant
RollsBack(c) == "back"
Commit(c) ==
  /\ At(c, "commit")
  /\ Goto(c, IF closed THEN RollsBack(c) ELSE "run")
  /\ UNCHANGED <<inflight, closed, shedding, priority, claims, seen>>

RollBack(c) ==
  /\ At(c, "back")
  /\ inflight' = inflight - 1
  /\ Goto(c, "done")
  /\ UNCHANGED <<closed, shedding, priority, claims, seen>>

\* SkipSlot inside the callback, the first Release of a token, or the end of the
\* callback; those that come later find that it is done.
Release(c) ==
  /\ At(c, "run")
  /\ inflight' = inflight - 1
  /\ Goto(c, "spent")
  /\ UNCHANGED <<closed, shedding, priority, claims, seen>>

ReleaseAgain(c) ==
  /\ At(c, "spent")
  /\ Goto(c, "done")
  /\ UNCHANGED <<inflight, closed, shedding, priority, claims, seen>>

Close ==
  /\ ~closed
  /\ closed' = TRUE
  /\ UNCHANGED <<inflight, shedding, pc, priority, claims, seen>>

Quiet == \A c \in Callers : At(c, "done")
Rest  == Quiet /\ closed /\ UNCHANGED vars

Next ==
  \/ \E c \in Callers :
       \/ Enter(c) \/ LoadCount(c) \/ Judge(c) \/ Unlatch(c) \/ Latch(c)
       \/ Swap(c) \/ Commit(c) \/ RollBack(c) \/ Release(c) \/ ReleaseAgain(c)
  \/ Close
  \/ Rest

Spec == Init /\ [][Next]_vars

-----------------------------------------------------------------------------
(* Properties. *)

\* The count is the number of slots that are claimed and not given back, whatever
\* Close rolls back and however often a slot is released (commitReservation,
\* Release, SkipSlot).
CountIsExact == inflight = Cardinality({c \in Callers : pc[c] \in {"commit", "back", "run"}})

\* A claim that is not critical is made only while its priority is admitted at
\* the count that is claimed, though others claim at the same time: the count
\* never passes the bound of a priority, not even for a moment (tryReserve).
Bound(p) == {n \in 1 .. Cardinality(Callers) : Below(n, Threshold) \/ ApplyCutoffs(n, p)}
ClaimWithinBound ==
  \A c \in Callers :
    pc[c] = "swap" /\ pc'[c] = "commit" /\ priority[c] # "critical"
      => inflight' \in Bound(priority[c])
ClaimsWithinBound == [][ClaimWithinBound]_vars
=============================================================================
