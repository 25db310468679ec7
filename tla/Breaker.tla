------------------------------ MODULE Breaker ------------------------------
(***************************************************************************)
(* circuitx.Breaker, one atomic access (or one block that no other         *)
(* goroutine can observe half done) per action.                            *)
(*                                                                         *)
(* Recording an outcome and Reset run under the mutex mu; State(), which   *)
(* promotes Open to HalfOpen, probe admission and probe release do not, so *)
(* they interleave with each other and with the holder of mu.              *)
(***************************************************************************)
EXTENDS Integers, FiniteSets

CONSTANTS
  Callers,          \* goroutines that make one Execute or TryExecute call
  Watchers,         \* goroutines that call State()
  Resetters,        \* goroutines that call Reset()
  Nobody,           \* the value of mu when it is free
  MaxFailures,      \* WithMaxFailures
  HalfOpenMax,      \* WithHalfOpenMax
  SuccessThreshold, \* WithSuccessThreshold
  CountCanceled     \* WithCountCanceled

Goroutines == Callers \cup Watchers \cup Resetters

ASSUME ActorsAssumption ==
  /\ IsFiniteSet(Goroutines)
  /\ Callers \cap Watchers = {}
  /\ (Callers \cup Watchers) \cap Resetters = {}
  /\ Nobody \notin Goroutines

\* newConfig clamps each of these to at least one.
ASSUME ConfigAssumption ==
  /\ MaxFailures \in Nat \ {0}
  /\ HalfOpenMax \in Nat \ {0}
  /\ SuccessThreshold \in Nat \ {0}
  /\ CountCanceled \in BOOLEAN

VARIABLES
  state,              \* Breaker.state
  failures,           \* Breaker.failures
  cooled,             \* time.Since(Breaker.lastOpen) >= resetTimeout
  halfOpenInflight,   \* Breaker.halfOpenInflight
  halfOpenSuccesses,  \* Breaker.halfOpenSuccesses
  generation,         \* Breaker.generation
  closed,             \* Breaker.closed
  mu,                 \* holder of Breaker.mu, or Nobody
  pc,                 \* next step of each goroutine
  seen,               \* state at admission: executeRun's "state"
  admitGen,           \* generation at admission
  forced,             \* execution.tripped
  edge                \* the <<from, to>> a goroutine has yet to report to the hook

shared == <<state, failures, cooled, halfOpenInflight, halfOpenSuccesses,
            generation, closed, mu>>
local  == <<pc, seen, admitGen, forced, edge>>
vars   == <<shared, local>>

Closed   == "closed"
Open     == "open"
HalfOpen == "half_open"
States   == {Closed, Open, HalfOpen}
NoEdge   == <<>>
Edges    == {NoEdge} \cup (States \X States)

(* Program counters, in the order of a call. *)
Promoting == {"cas", "bump", "clear"}
Settling  == {"success", "successLock", "successBody", "failureLock",
              "failureBody", "tripLock", "tripBody", "stamp"}
Releasing == {"releaseCheck", "releaseDec"}
Labels    == {"idle", "check", "admit", "reserve", "run", "resetBump",
              "fire", "done"} \cup Promoting \cup Settling \cup Releasing

\* The steps between mu.Lock and mu.Unlock.
Bodies   == {"successBody", "failureBody", "tripBody"}
Critical == Bodies \cup {"stamp", "resetBump"}

TypeOK ==
  /\ state \in States
  /\ failures \in Nat
  /\ cooled \in BOOLEAN
  /\ halfOpenInflight \in Nat
  /\ halfOpenSuccesses \in Nat
  /\ generation \in Nat
  /\ closed \in BOOLEAN
  /\ mu \in Goroutines \cup {Nobody}
  /\ pc \in [Goroutines -> Labels]
  /\ seen \in [Goroutines -> States]
  /\ admitGen \in [Goroutines -> Nat]
  /\ forced \in [Goroutines -> BOOLEAN]
  /\ edge \in [Goroutines -> Edges]

Init ==
  /\ state = Closed
  /\ failures = 0
  /\ cooled = TRUE            \* lastOpen is the zero time
  /\ halfOpenInflight = 0
  /\ halfOpenSuccesses = 0
  /\ generation = 0
  /\ closed = FALSE
  /\ mu = Nobody
  /\ pc = [g \in Goroutines |-> "idle"]
  /\ seen = [g \in Goroutines |-> Closed]
  /\ admitGen = [g \in Goroutines |-> 0]
  /\ forced = [g \in Goroutines |-> FALSE]
  /\ edge = [g \in Goroutines |-> NoEdge]

Goto(g, label) == pc' = [pc EXCEPT ![g] = label]
At(g, label)   == pc[g] = label
Owe(g, from, to) == edge' = [edge EXCEPT ![g] = <<from, to>>]

\* A call that held a probe slot runs its deferred releaseProbe.
AfterCall(g) == IF g \in Callers /\ seen[g] = HalfOpen THEN "releaseCheck" ELSE "done"

-----------------------------------------------------------------------------
(* Execute, TryExecute: the guards before admission. *)

Enter(g) ==
  /\ At(g, "idle")
  /\ \E ctxDone \in BOOLEAN :
       Goto(g, IF g \in Callers /\ (closed \/ ctxDone) THEN "done" ELSE "check")
  /\ UNCHANGED <<shared, seen, admitGen, forced, edge>>

(* State(): read the state and, if Open, the clock against lastOpen. *)
CheckState(g) ==
  /\ At(g, "check")
  /\ Goto(g, IF state = Open /\ cooled THEN "cas" ELSE "admit")
  /\ seen' = [seen EXCEPT ![g] = state]
  /\ UNCHANGED <<shared, admitGen, forced, edge>>

\* The compare-and-swap wins, or the loser reports what is live now.
PromoteCAS(g) ==
  /\ At(g, "cas")
  /\ IF state = Open
       THEN /\ state' = HalfOpen
            /\ Owe(g, Open, HalfOpen)
            /\ Goto(g, "bump")
            /\ UNCHANGED seen
       ELSE /\ seen' = [seen EXCEPT ![g] = state]
            /\ Goto(g, "admit")
            /\ UNCHANGED <<state, edge>>
  /\ UNCHANGED <<failures, cooled, halfOpenInflight, halfOpenSuccesses,
                 generation, closed, mu, admitGen, forced>>

PromoteBump(g) ==
  /\ At(g, "bump")
  /\ generation' = generation + 1
  /\ Goto(g, "clear")
  /\ UNCHANGED <<state, failures, cooled, halfOpenInflight, halfOpenSuccesses,
                 closed, mu, seen, admitGen, forced, edge>>

PromoteClear(g) ==
  /\ At(g, "clear")
  /\ halfOpenInflight' = 0
  /\ halfOpenSuccesses' = 0
  /\ seen' = [seen EXCEPT ![g] = HalfOpen]
  /\ Goto(g, "fire")
  /\ UNCHANGED <<state, failures, cooled, generation, closed, mu, admitGen,
                 forced, edge>>

(* tryAdmit: the generation is read after State() has returned; a goroutine
   that only wanted the state is done. *)
LoadGeneration(g) ==
  /\ At(g, "admit")
  /\ admitGen' = [admitGen EXCEPT ![g] = generation]
  /\ \/ (g \in Watchers \/ seen[g] = Open) /\ Goto(g, "done")
     \/ g \in Callers /\ seen[g] = Closed /\ Goto(g, "run")
     \/ g \in Callers /\ seen[g] = HalfOpen /\ Goto(g, "reserve")
  /\ UNCHANGED <<shared, seen, forced, edge>>

(* tryAdmitProbe: the loop takes effect at its last load or its CAS. *)
SlotFreeOffByOne == halfOpenInflight <= HalfOpenMax      \* mutant
SlotFree == halfOpenInflight < HalfOpenMax

ReserveProbe(g) ==
  /\ At(g, "reserve")
  /\ IF SlotFree
       THEN halfOpenInflight' = halfOpenInflight + 1 /\ Goto(g, "run")
       ELSE Goto(g, "done") /\ UNCHANGED halfOpenInflight
  /\ UNCHANGED <<state, failures, cooled, halfOpenSuccesses, generation,
                 closed, mu, seen, admitGen, forced, edge>>

-----------------------------------------------------------------------------
(* executeRun: the callback returns, and its outcome is classified. *)

Errors == {"none", "panic", "canceled", "other", "excused"}

\* "excused" is an error that WithFailureIf rejects.
CountsAsFailure(err) ==
  \/ err \in {"panic", "other"}
  \/ err = "canceled" /\ CountCanceled

Return(g) ==
  /\ At(g, "run")
  /\ \E err \in Errors, skipFailure, tripped \in BOOLEAN :
       LET counted == CountsAsFailure(err) /\ ~skipFailure
       IN  /\ forced' = [forced EXCEPT ![g] = tripped]
           /\ \/ counted /\ Goto(g, "failureLock")
              \/ ~counted /\ tripped /\ Goto(g, "tripLock")
              \/ ~counted /\ ~tripped
                 /\ Goto(g, IF err = "none" THEN "success" ELSE AfterCall(g))
  /\ UNCHANGED <<shared, seen, admitGen, edge>>

CurrentAlways(g) == TRUE                                 \* mutant
Current(g) == admitGen[g] = generation

(* Lock mu and compare the generations; a stale call unlocks and is done. *)
LockFenced(g, label, body) ==
  /\ At(g, label)
  /\ mu = Nobody
  /\ IF Current(g)
       THEN mu' = g /\ Goto(g, body)
       ELSE Goto(g, AfterCall(g)) /\ UNCHANGED mu
  /\ UNCHANGED <<state, failures, cooled, halfOpenInflight, halfOpenSuccesses,
                 generation, closed, seen, admitGen, forced, edge>>

(* recordSuccess *)
SuccessFast(g) ==
  /\ At(g, "success")
  /\ Goto(g, IF state = Closed /\ failures = 0 THEN AfterCall(g) ELSE "successLock")
  /\ UNCHANGED <<shared, seen, admitGen, forced, edge>>

SuccessLock(g) == LockFenced(g, "successLock", "successBody")

HealsAnyState == halfOpenSuccesses + 1 >= SuccessThreshold   \* mutant
Heals == state = HalfOpen /\ halfOpenSuccesses + 1 >= SuccessThreshold

FailuresForgottenOnlyWhenClosed ==                       \* mutant
  IF state = Closed THEN 0 ELSE failures
FailuresAfterSuccess == IF Heals \/ state = Closed THEN 0 ELSE failures

SuccessBody(g) ==
  /\ At(g, "successBody")
  /\ failures' = FailuresAfterSuccess
  /\ IF Heals
       THEN /\ halfOpenSuccesses' = 0
            /\ generation' = generation + 1
            /\ state' = Closed
            /\ Owe(g, HalfOpen, Closed)
            /\ Goto(g, "fire")
       ELSE /\ halfOpenSuccesses' = halfOpenSuccesses + (IF state = HalfOpen THEN 1 ELSE 0)
            /\ Goto(g, AfterCall(g))
            /\ UNCHANGED <<generation, state, edge>>
  /\ mu' = Nobody
  /\ UNCHANGED <<cooled, halfOpenInflight, closed, seen, admitGen, forced>>

(* recordFailure.  The new state is stored before lastOpen is. *)
FailureLock(g) == LockFenced(g, "failureLock", "failureBody")

AlreadyOpenIgnored == FALSE                              \* mutant
AlreadyOpen == state = Open

Tolerated(g) == ~forced[g] /\ state = Closed /\ failures + 1 < MaxFailures

FailureBody(g) ==
  /\ At(g, "failureBody")
  /\ failures' = IF AlreadyOpen THEN failures ELSE failures + 1
  /\ IF AlreadyOpen \/ Tolerated(g)
       THEN /\ Goto(g, AfterCall(g))
            /\ mu' = Nobody
            /\ UNCHANGED <<state, halfOpenSuccesses, edge>>
       ELSE /\ halfOpenSuccesses' = IF state = HalfOpen THEN 0 ELSE halfOpenSuccesses
            /\ state' = Open
            /\ Owe(g, state, Open)
            /\ Goto(g, "stamp")
            /\ UNCHANGED mu
  /\ UNCHANGED <<cooled, halfOpenInflight, generation, closed, seen, admitGen, forced>>

(* openFrom: a forced trip of a call that is not counted as a failure. *)
TripLock(g) == LockFenced(g, "tripLock", "tripBody")

FromAtAdmission(g) == seen[g]                            \* mutant
From(g) == state            \* prev, which wins over the state at admission

TripBody(g) ==
  /\ At(g, "tripBody")
  /\ IF AlreadyOpen
       THEN /\ Goto(g, AfterCall(g))
            /\ mu' = Nobody
            /\ UNCHANGED <<state, edge>>
       ELSE /\ state' = Open
            /\ Owe(g, From(g), Open)
            /\ Goto(g, "stamp")
            /\ UNCHANGED mu
  /\ UNCHANGED <<failures, cooled, halfOpenInflight, halfOpenSuccesses,
                 generation, closed, seen, admitGen, forced>>

\* lastOpen := now, and unlock.
Stamp(g) ==
  /\ At(g, "stamp")
  /\ cooled' = FALSE
  /\ mu' = Nobody
  /\ Goto(g, "fire")
  /\ UNCHANGED <<state, failures, halfOpenInflight, halfOpenSuccesses,
                 generation, closed, seen, admitGen, forced, edge>>

(* fireStateChange, outside mu: the hook learns of the edge.  A promoter goes
   on to admission; any other goroutine is at the end of its call. *)
Fire(g) ==
  /\ At(g, "fire")
  /\ edge' = [edge EXCEPT ![g] = NoEdge]
  /\ Goto(g, IF edge[g] = <<Open, HalfOpen>> THEN "admit" ELSE AfterCall(g))
  /\ UNCHANGED <<shared, seen, admitGen, forced>>

(* releaseProbe: the generation check and the clamped decrement are two steps. *)
ReleaseCheck(g) ==
  /\ At(g, "releaseCheck")
  /\ Goto(g, IF Current(g) THEN "releaseDec" ELSE "done")
  /\ UNCHANGED <<shared, seen, admitGen, forced, edge>>

InflightAfterRelease == IF halfOpenInflight <= 0 THEN 0 ELSE halfOpenInflight - 1

ReleaseDec(g) ==
  /\ At(g, "releaseDec")
  /\ halfOpenInflight' = InflightAfterRelease
  /\ Goto(g, "done")
  /\ UNCHANGED <<state, failures, cooled, halfOpenSuccesses, generation,
                 closed, mu, seen, admitGen, forced, edge>>

-----------------------------------------------------------------------------
(* Reset: the swap and what follows it are both under mu, but State() and
   tryAdmit can run between them. *)
ResetSwap(g) ==
  /\ At(g, "idle")
  /\ mu = Nobody
  /\ mu' = g
  /\ failures' = 0
  /\ state' = Closed
  /\ edge' = [edge EXCEPT ![g] = IF state = Closed THEN NoEdge ELSE <<state, Closed>>]
  /\ Goto(g, "resetBump")
  /\ UNCHANGED <<cooled, halfOpenInflight, halfOpenSuccesses, generation,
                 closed, seen, admitGen, forced>>

ResetBump(g) ==
  /\ At(g, "resetBump")
  /\ generation' = generation + 1
  /\ halfOpenInflight' = 0
  /\ halfOpenSuccesses' = 0
  /\ mu' = Nobody
  /\ Goto(g, IF edge[g] = NoEdge THEN "done" ELSE "fire")
  /\ UNCHANGED <<state, failures, cooled, closed, seen, admitGen, forced, edge>>

Close ==
  /\ ~closed
  /\ closed' = TRUE
  /\ UNCHANGED <<state, failures, cooled, halfOpenInflight, halfOpenSuccesses,
                 generation, mu, local>>

\* Time: the reset timeout passes since lastOpen.
Elapse ==
  /\ ~cooled
  /\ cooled' = TRUE
  /\ UNCHANGED <<state, failures, halfOpenInflight, halfOpenSuccesses,
                 generation, closed, mu, local>>

-----------------------------------------------------------------------------
StateCall(g) ==
  CheckState(g) \/ PromoteCAS(g) \/ PromoteBump(g) \/ PromoteClear(g)

Settle(g) ==
  \/ SuccessFast(g) \/ SuccessLock(g) \/ SuccessBody(g)
  \/ FailureLock(g) \/ FailureBody(g)
  \/ TripLock(g) \/ TripBody(g) \/ Stamp(g)

\* What a goroutine inside the package goes on to do by itself, the callback
\* included.
Proceed(g) ==
  \/ StateCall(g) \/ LoadGeneration(g) \/ ReserveProbe(g) \/ Return(g)
  \/ Settle(g) \/ Fire(g) \/ ReleaseCheck(g) \/ ReleaseDec(g)
  \/ ResetBump(g)

Begin == \/ \E g \in Callers \cup Watchers : Enter(g)
         \/ \E g \in Resetters : ResetSwap(g)

AllDone == (\A g \in Goroutines : pc[g] = "done") /\ UNCHANGED vars

Next == Begin \/ (\E g \in Goroutines : Proceed(g)) \/ Close \/ Elapse \/ AllDone

Spec == Init /\ [][Next]_vars

-----------------------------------------------------------------------------
(* Properties. *)

\* Everything has its type, and the probe counter stays within the configured
\* budget and never goes below zero, whatever promotions, resets and stale
\* releases are under way (tryAdmitProbe, releaseProbe).
ProbeCounterBounded == TypeOK /\ halfOpenInflight \in 0 .. HalfOpenMax

\* A closed circuit holds fewer failures than trip it: nobody leaves the
\* circuit closed at or past the threshold, and no path back to Closed keeps
\* an old count (recordFailure, recordSuccess, Reset).
ClosedBelowThreshold == state = Closed => failures < MaxFailures

\* Only Reset closes an open circuit: a success admitted before a trip cannot
\* clobber it afterwards (recordSuccess).
SuccessNeverClobbersTrip ==
  [][state = Open /\ state' = Closed => \E g \in Resetters : mu' = g]_state

\* The breaker, seen as its state and failure count, is the atomic circuit.
Abstract == INSTANCE Circuit
ImplementsCircuit == Abstract!Spec

\* The mutex belongs to the goroutine between its Lock and its Unlock and to
\* nobody else: no early return keeps it, no unlock is missing, and two
\* goroutines are never inside at once (recordSuccess, recordFailure,
\* openFrom, Reset).
MutexExact == \A g \in Goroutines : mu = g <=> pc[g] \in Critical
=============================================================================
