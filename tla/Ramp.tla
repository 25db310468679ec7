-------------------------------- MODULE Ramp --------------------------------
(***************************************************************************)
(* The capacity of a warmupx.Warmer: StartAt backdates the start so that   *)
(* the first tick goes on from the given capacity, ticks follow the curve, *)
(* Stop and Close freeze it, and calls are admitted by chance at the       *)
(* capacity they find.                                                     *)
(*                                                                         *)
(* Capacities, and the time since the start, are integers; the curve is    *)
(* the Linear or the Step one.  Module Warmer has the runs, their          *)
(* goroutines and channels; here a tick is one of the current run.         *)
(***************************************************************************)
EXTENDS Integers, FiniteSetsExt

CONSTANTS
  MinCap, MaxCap, Unit,   \* the configured capacities; Unit stands for 1.0
  Duration, StepCount,    \* StepCount divides Duration and MaxCap - MinCap
  Calls                   \* of AllowOrError, Execute or TryExecute

Delta    == MaxCap - MinCap
Capacity == MinCap .. MaxCap

VARIABLES
  strategy, started, elapsed,   \* elapsed: the time since start, while warming
  capacity, progress, warming, complete, closed,
  allowed, rejected,
  pc, told,           \* of each call: its state, and what it is told
  peak, shown         \* history: the highest capacity and progress of this run

ramp  == <<started, capacity, progress, warming, complete, peak>>
calls == <<allowed, rejected, pc, told>>
vars  == <<strategy, elapsed, ramp, closed, calls, shown>>

TypeOK ==
  /\ strategy \in {"linear", "step"}
  /\ elapsed \in 0 .. Duration /\ progress \in 0 .. Duration /\ shown \in 0 .. Duration
  /\ capacity \in Capacity /\ peak \in Capacity
  /\ started \in BOOLEAN /\ warming \in BOOLEAN /\ complete \in BOOLEAN /\ closed \in BOOLEAN
  /\ allowed \in Nat /\ rejected \in Nat
  /\ pc \in [Calls -> {"idle", "running", "ok", "failed", "rejected", "closed"}]
  /\ told \in [Calls -> Capacity \X (0 .. Duration)]

Init ==
  /\ strategy \in {"linear", "step"}
  /\ started = FALSE /\ elapsed = 0
  /\ capacity = MinCap /\ progress = 0
  /\ warming = FALSE /\ complete = FALSE /\ closed = FALSE
  /\ allowed = 0 /\ rejected = 0
  /\ pc = [c \in Calls |-> "idle"] /\ told = [c \in Calls |-> <<MinCap, 0>>]
  /\ peak = MinCap /\ shown = 0

-----------------------------------------------------------------------------
(* The curve, and the time at which it has a capacity; Round as math.Round. *)

Round(a, b) == (2 * a + b) \div (2 * b)

Calculate(t) ==
  IF strategy = "linear" THEN MinCap + (Delta * t) \div Duration
                         ELSE MinCap + (Delta \div StepCount) * ((StepCount * t) \div Duration)

FromZero(c) == 0                                         \* mutant
Invert(c) ==
  IF strategy = "linear" THEN (Duration * (c - MinCap)) \div Delta
                         ELSE (Duration \div StepCount) * Round((c - MinCap) * StepCount, Delta)

\* progressLocked
Progress ==
  IF complete THEN Duration
  ELSE IF ~started THEN 0
  ELSE IF warming THEN elapsed ELSE progress

\* freezeProgressLocked, of Stop and Close
Unfrozen == progress                                     \* mutant
Frozen == IF warming /\ started THEN elapsed ELSE progress

-----------------------------------------------------------------------------
\* StartAt clamps what it is given, and at the maximum completes at once.
StartAt(c) ==
  /\ ~closed
  /\ started' = TRUE /\ elapsed' = IF c = MaxCap THEN 0 ELSE Invert(c)
  /\ capacity' = c /\ peak' = c
  /\ progress' = IF c = MaxCap THEN Duration ELSE Invert(c)
  /\ shown' = progress'
  /\ warming' = (c < MaxCap) /\ complete' = (c = MaxCap)
  /\ UNCHANGED <<strategy, closed, calls>>

\* Every test of the elapsed time is for Duration or more.
Pass ==
  /\ warming /\ elapsed < Duration
  /\ elapsed' = elapsed + 1 /\ shown' = Max({shown, elapsed + 1})
  /\ UNCHANGED <<strategy, ramp, closed, calls>>

Tick ==
  /\ warming /\ ~complete
  /\ complete' = (elapsed = Duration) /\ warming' = (elapsed < Duration)
  /\ capacity' = IF elapsed = Duration THEN MaxCap ELSE Calculate(elapsed)
  /\ peak' = Max({peak, capacity'})
  /\ UNCHANGED <<strategy, started, elapsed, progress, closed, calls, shown>>

Stop ==
  /\ progress' = Frozen /\ warming' = FALSE
  /\ UNCHANGED <<strategy, started, elapsed, capacity, complete, closed, calls, peak, shown>>

Close ==
  /\ ~closed /\ closed' = TRUE
  /\ progress' = Frozen /\ warming' = FALSE
  /\ UNCHANGED <<strategy, started, elapsed, capacity, complete, calls, peak, shown>>

-----------------------------------------------------------------------------
(* tryAdmit draws a number below 1.0, and admits if it is below the        *)
(* capacity: some draw is at any capacity above 0, none at 1.0 is not.     *)

At(c, next) == pc' = [pc EXCEPT ![c] = next]

Turned(c) ==
  /\ pc[c] = "idle" /\ closed
  /\ At(c, "closed")
  /\ UNCHANGED <<strategy, elapsed, ramp, closed, allowed, rejected, told, shown>>

TryAdmit(c) ==
  /\ pc[c] = "idle" /\ ~closed
  /\ told' = [told EXCEPT ![c] = <<capacity, Progress>>]
  /\ \/ capacity > 0 /\ At(c, "running") /\ UNCHANGED rejected
     \/ capacity < Unit /\ At(c, "rejected") /\ rejected' = rejected + 1
  /\ UNCHANGED <<strategy, elapsed, ramp, closed, allowed, shown>>

\* AllowOrError counts what it admits; executeRun after fn returned a value, an
\* error, or called Reject.
ExecuteRun(c) ==
  /\ pc[c] = "running"
  /\ \/ At(c, "ok") /\ allowed' = allowed + 1 /\ UNCHANGED rejected
     \/ At(c, "failed") /\ UNCHANGED <<allowed, rejected>>
     \/ At(c, "rejected") /\ rejected' = rejected + 1 /\ UNCHANGED allowed
  /\ UNCHANGED <<strategy, elapsed, ramp, closed, told, shown>>

Next ==
  \/ \E c \in Capacity : StartAt(c)
  \/ Pass \/ Tick \/ Stop \/ Close
  \/ \E c \in Calls : Turned(c) \/ TryAdmit(c) \/ ExecuteRun(c)
  \/ closed /\ UNCHANGED vars                             \* StartAt, Close again

Spec == Init /\ [][Next]_vars

-----------------------------------------------------------------------------
(* Properties. *)

\* What one run may be off its curve: the Step curve has no time for a capacity
\* between two steps, and StartAt takes that of the nearest one (invert).
Within(high, low) ==
  IF strategy = "linear" THEN high <= low ELSE 2 * StepCount * (high - low) <= Delta

\* In any order of StartAt, ticks, Stop, Close and time passing, the capacity of a
\* run does not fall (with Step, by no more than half a step, at the first tick),
\* nor does its progress, and a run that completed has both in full (StartAt, tick,
\* freezeProgressLocked, progressLocked).
NeverFallsBack ==
  /\ Within(peak, capacity)
  /\ shown <= Progress
  /\ complete => capacity = MaxCap

\* What a call is told at admission, or with ErrRejected, goes together: no
\* capacity is ahead of the curve at the progress told with it, and the counters are
\* of the calls with that answer (tryAdmit, AllowOrError, executeRun).
ToldTogether ==
  /\ \A c \in Calls : pc[c] \in {"running", "ok", "failed", "rejected"}
       => Within(told[c][1], Calculate(told[c][2]))
  /\ allowed = Quantify(Calls, LAMBDA c : pc[c] = "ok")
  /\ rejected = Quantify(Calls, LAMBDA c : pc[c] = "rejected")
=============================================================================
