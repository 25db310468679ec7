--------------------------- MODULE BreakerProofs ---------------------------
(***************************************************************************)
(* Proofs about the circuit breaker for any number of goroutines and any   *)
(* configuration: types, the probe counter, the failure threshold, the     *)
(* refinement of Circuit, Reset as a fence, and the hook.                  *)
(***************************************************************************)
EXTENDS BreakerHistory, FiniteSetTheorems, TLAPS

\* The definitions every step about one action needs.
USE DEF At, Goto, Owe, AfterCall, shared, local, vars, Current

-----------------------------------------------------------------------------
(* Types *)

LEMMA LabelSet ==
  Labels = {"idle", "check", "cas", "bump", "clear", "admit", "reserve", "run",
            "success", "successLock", "successBody", "failureLock", "failureBody",
            "tripLock", "tripBody", "stamp", "releaseCheck", "releaseDec",
            "resetBump", "fire", "done"}
  BY DEF Labels, Promoting, Settling, Releasing

LEMMA StateSet ==
  /\ Closed \in States /\ Open \in States /\ HalfOpen \in States
  /\ NoEdge \in Edges
  /\ \A s, t \in States : <<s, t>> \in Edges
  BY DEF States, Edges

\* Every variable keeps its type in every step.
LEMMA TypeStep == TypeOK /\ [Next]_vars => TypeOK'
<1>. SUFFICES ASSUME TypeOK, [Next]_vars PROVE TypeOK'
  OBVIOUS
<1>. USE ConfigAssumption, LabelSet, StateSet DEF TypeOK
<1>1. ASSUME NEW g \in Goroutines, StateCall(g) PROVE TypeOK'
  BY <1>1 DEF StateCall, CheckState, PromoteCAS, PromoteBump, PromoteClear
<1>2. ASSUME NEW g \in Goroutines, LoadGeneration(g) \/ ReserveProbe(g) PROVE TypeOK'
  BY <1>2 DEF LoadGeneration, ReserveProbe, SlotFree
<1>3. ASSUME NEW g \in Goroutines, Return(g) PROVE TypeOK'
  <2>1. PICK tripped \in BOOLEAN : forced' = [forced EXCEPT ![g] = tripped]
    BY <1>3 DEF Return
  <2>2. PICK label \in Labels : pc' = [pc EXCEPT ![g] = label]
    BY <1>3 DEF Return
  <2>. QED
    BY <1>3, <2>1, <2>2 DEF Return
<1>4. ASSUME NEW g \in Goroutines, SuccessFast(g) \/ SuccessLock(g) \/ FailureLock(g) \/ TripLock(g)
      PROVE TypeOK'
  BY <1>4 DEF SuccessFast, SuccessLock, FailureLock, TripLock, LockFenced
<1>5. ASSUME NEW g \in Goroutines, SuccessBody(g) PROVE TypeOK'
  BY <1>5 DEF SuccessBody, Heals, FailuresAfterSuccess
<1>6. ASSUME NEW g \in Goroutines, FailureBody(g) PROVE TypeOK'
  BY <1>6 DEF FailureBody, AlreadyOpen, Tolerated
<1>7. ASSUME NEW g \in Goroutines, TripBody(g) \/ Stamp(g) PROVE TypeOK'
  <2>1. CASE TripBody(g)
    BY <2>1 DEF TripBody, AlreadyOpen, From
  <2>2. CASE Stamp(g)
    BY <2>2 DEF Stamp
  <2>. QED
    BY <1>7, <2>1, <2>2
<1>8. ASSUME NEW g \in Goroutines, Fire(g) \/ ReleaseCheck(g) \/ ReleaseDec(g) PROVE TypeOK'
  BY <1>8 DEF Fire, ReleaseCheck, ReleaseDec, InflightAfterRelease
<1>9. ASSUME NEW g \in Goroutines, ResetBump(g) PROVE TypeOK'
  BY <1>9 DEF ResetBump
<1>10. ASSUME NEW g \in Callers \cup Watchers, Enter(g) PROVE TypeOK'
  BY <1>10 DEF Enter, Goroutines
<1>11. ASSUME NEW g \in Resetters, ResetSwap(g) PROVE TypeOK'
  BY <1>11 DEF ResetSwap, Goroutines
<1>12. CASE Close \/ Elapse
  BY <1>12 DEF Close, Elapse
<1>13. CASE UNCHANGED vars
  BY <1>13
<1>14. ASSUME NEW g \in Goroutines, Proceed(g) PROVE TypeOK'
  <2>. HIDE DEF TypeOK
  <2>. QED
    BY <1>1, <1>2, <1>3, <1>4, <1>5, <1>6, <1>7, <1>8, <1>9, <1>14 DEF Proceed, Settle
<1>. HIDE DEF TypeOK, vars
<1>. QED
  BY <1>10, <1>11, <1>12, <1>13, <1>14 DEF Next, Begin, AllDone

\* Type correctness of the breaker.
THEOREM TypeCorrect == Spec => []TypeOK
<1>1. ASSUME Init PROVE TypeOK
  <2>1. pc \in [Goroutines -> Labels] /\ seen \in [Goroutines -> States]
    BY <1>1, LabelSet, StateSet DEF Init
  <2>2. admitGen \in [Goroutines -> Nat] /\ edge \in [Goroutines -> Edges]
    BY <1>1, StateSet DEF Init
  <2>3. forced \in [Goroutines -> BOOLEAN] /\ cooled \in BOOLEAN /\ closed \in BOOLEAN
    BY <1>1 DEF Init
  <2>. QED
    BY <1>1, <2>1, <2>2, <2>3, StateSet DEF Init, TypeOK
<1>. QED
  BY <1>1, TypeStep, PTL DEF Spec

-----------------------------------------------------------------------------
(* The probe counter *)

\* The probe counter never leaves 0 .. HalfOpenMax.
THEOREM ProbeBound == Spec => []ProbeCounterBounded
<1>. DEFINE Bound == halfOpenInflight \in 0 .. HalfOpenMax
<1>. USE ConfigAssumption
<1>1. Init => Bound
  BY DEF Init
<1>2. Bound /\ [Next]_vars => Bound'
  <2>. SUFFICES ASSUME Bound, [Next]_vars PROVE Bound'
    OBVIOUS
  <2>1. ASSUME NEW g \in Goroutines, ReserveProbe(g) PROVE Bound'
    BY <2>1 DEF ReserveProbe, SlotFree
  <2>2. ASSUME NEW g \in Goroutines, ReleaseDec(g) PROVE Bound'
    BY <2>2 DEF ReleaseDec, InflightAfterRelease
  <2>3. ASSUME NEW g \in Goroutines, PromoteClear(g) \/ ResetBump(g) PROVE Bound'
    BY <2>3 DEF PromoteClear, ResetBump
  <2>4. CASE UNCHANGED halfOpenInflight
    BY <2>4
  <2>. QED
    BY <2>1, <2>2, <2>3, <2>4
    DEF Next, Begin, Proceed, StateCall, Settle, AllDone, Enter, CheckState, PromoteCAS,
        PromoteBump, LoadGeneration, Return, SuccessFast, SuccessLock, FailureLock,
        TripLock, LockFenced, SuccessBody, FailureBody, TripBody, Stamp, Fire,
        ReleaseCheck, ResetSwap, Close, Elapse
<1>3. TypeOK /\ Bound => ProbeCounterBounded
  BY DEF ProbeCounterBounded
<1>. QED
  BY <1>1, <1>2, <1>3, TypeCorrect, PTL DEF Spec

-----------------------------------------------------------------------------
(* The failure threshold *)

\* A closed circuit always holds fewer failures than trip it.
THEOREM BelowThreshold == Spec => []ClosedBelowThreshold
<1>. USE ConfigAssumption DEF ClosedBelowThreshold, Closed, Open, HalfOpen
<1>1. Init => ClosedBelowThreshold
  BY DEF Init
<1>2. TypeOK /\ ClosedBelowThreshold /\ [Next]_vars => ClosedBelowThreshold'
  <2>. SUFFICES ASSUME TypeOK, ClosedBelowThreshold, [Next]_vars
                PROVE  ClosedBelowThreshold'
    OBVIOUS
  <2>. USE DEF TypeOK
  <2>1. ASSUME NEW g \in Goroutines, PromoteCAS(g) PROVE ClosedBelowThreshold'
    BY <2>1 DEF PromoteCAS
  <2>2. ASSUME NEW g \in Goroutines, SuccessBody(g) PROVE ClosedBelowThreshold'
    BY <2>2 DEF SuccessBody, Heals, FailuresAfterSuccess
  <2>3. ASSUME NEW g \in Goroutines, FailureBody(g) PROVE ClosedBelowThreshold'
    BY <2>3 DEF FailureBody, AlreadyOpen, Tolerated
  <2>4. ASSUME NEW g \in Goroutines, TripBody(g) PROVE ClosedBelowThreshold'
    BY <2>4 DEF TripBody, AlreadyOpen
  <2>5. ASSUME NEW g \in Resetters, ResetSwap(g) PROVE ClosedBelowThreshold'
    BY <2>5 DEF ResetSwap
  <2>6. CASE UNCHANGED <<state, failures>>
    BY <2>6
  <2>. HIDE DEF TypeOK, ClosedBelowThreshold
  <2>. QED
    BY <2>1, <2>2, <2>3, <2>4, <2>5, <2>6
    DEF Next, Begin, Proceed, StateCall, Settle, AllDone, Enter, CheckState,
        PromoteBump, PromoteClear, LoadGeneration, ReserveProbe, Return, SuccessFast,
        SuccessLock, FailureLock, TripLock, LockFenced, Stamp, Fire, ReleaseCheck,
        ReleaseDec, ResetBump, Close, Elapse
<1>. QED
  BY <1>1, <1>2, TypeCorrect, PTL DEF Spec

-----------------------------------------------------------------------------
(* The refinement *)

\* Seen as its state and its failure count, the breaker is the atomic circuit:
\* each step under the mutex, and each promotion, is one of its edges.
THEOREM Refinement == Spec => ImplementsCircuit
<1>. USE DEF Abstract!vars, Abstract!Closed, Abstract!Open, Abstract!HalfOpen,
             Closed, Open, HalfOpen
<1>1. Init => Abstract!Init
  BY DEF Init, Abstract!Init
<1>2. TypeOK /\ [Next]_vars => [Abstract!Next]_(Abstract!vars)
  <2>. SUFFICES ASSUME TypeOK, [Next]_vars PROVE [Abstract!Next]_(Abstract!vars)
    OBVIOUS
  <2>. USE DEF TypeOK, States
  <2>1. ASSUME NEW g \in Goroutines, PromoteCAS(g) PROVE [Abstract!Next]_(Abstract!vars)
    BY <2>1 DEF PromoteCAS, Abstract!Next, Abstract!Promote
  <2>2. ASSUME NEW g \in Goroutines, SuccessBody(g) PROVE [Abstract!Next]_(Abstract!vars)
    BY <2>2 DEF SuccessBody, Heals, FailuresAfterSuccess,
                Abstract!Next, Abstract!Forgive, Abstract!Heal
  <2>3. ASSUME NEW g \in Goroutines, FailureBody(g) PROVE [Abstract!Next]_(Abstract!vars)
    BY <2>3 DEF FailureBody, AlreadyOpen, Tolerated,
                Abstract!Next, Abstract!Count, Abstract!Trip
  <2>4. ASSUME NEW g \in Goroutines, TripBody(g) PROVE [Abstract!Next]_(Abstract!vars)
    BY <2>4 DEF TripBody, AlreadyOpen, Abstract!Next, Abstract!Trip
  <2>5. ASSUME NEW g \in Resetters, ResetSwap(g) PROVE [Abstract!Next]_(Abstract!vars)
    BY <2>5 DEF ResetSwap, Abstract!Next, Abstract!Reset
  <2>6. CASE UNCHANGED <<state, failures>>
    BY <2>6
  <2>. HIDE DEF TypeOK
  <2>. QED
    BY <2>1, <2>2, <2>3, <2>4, <2>5, <2>6
    DEF Next, Begin, Proceed, StateCall, Settle, AllDone, Enter, CheckState,
        PromoteBump, PromoteClear, LoadGeneration, ReserveProbe, Return, SuccessFast,
        SuccessLock, FailureLock, TripLock, LockFenced, Stamp, Fire, ReleaseCheck,
        ReleaseDec, ResetBump, Close, Elapse
<1>. QED
  BY <1>1, <1>2, TypeCorrect, PTL DEF Spec, ImplementsCircuit, Abstract!Spec

-----------------------------------------------------------------------------
(* The way out of Open *)

\* No step but a Reset's swap takes the circuit from open to closed: a success
\* that was admitted before the trip heals nothing (recordSuccess).
THEOREM TripsOutlastSuccesses == Spec => SuccessNeverClobbersTrip
<1>. DEFINE NotClobbered == state = Open /\ state' = Closed => \E g \in Resetters : mu' = g
<1>1. [Next]_vars => [NotClobbered]_state
  <2>. SUFFICES ASSUME [Next]_vars, state = Open, state' = Closed
                PROVE  \E g \in Resetters : mu' = g
    OBVIOUS
  <2>. USE DEF Closed, Open, HalfOpen
  <2>1. ASSUME NEW g \in Goroutines, PromoteCAS(g) \/ SuccessBody(g) PROVE FALSE
    BY <2>1 DEF PromoteCAS, SuccessBody, Heals
  <2>2. ASSUME NEW g \in Goroutines, FailureBody(g) \/ TripBody(g) PROVE FALSE
    BY <2>2 DEF FailureBody, TripBody, AlreadyOpen
  <2>3. ASSUME NEW g \in Resetters, ResetSwap(g) PROVE mu' = g
    BY <2>3 DEF ResetSwap
  <2>4. ASSUME state' = state PROVE FALSE
    BY <2>4
  <2>. QED
    BY <2>1, <2>2, <2>3, <2>4
    DEF Next, Begin, Proceed, StateCall, Settle, AllDone, Enter, CheckState,
        PromoteBump, PromoteClear, LoadGeneration, ReserveProbe, Return, SuccessFast,
        SuccessLock, FailureLock, TripLock, LockFenced, Stamp, Fire, ReleaseCheck,
        ReleaseDec, ResetBump, Close, Elapse
<1>. QED
  BY <1>1, PTL DEF Spec, SuccessNeverClobbersTrip

-----------------------------------------------------------------------------
(* Reset as a fence *)

\* Generations only grow.
Behind == \A g \in Goroutines : admitGen[g] <= generation

\* A fenced call is past admission and not in a critical section, and its
\* generation has passed or a Reset holds the mutex and is about to end it.
Fenced ==
  \A g \in fenced :
    /\ g \in Callers
    /\ pc[g] \in (Admitted \ (Bodies \cup {"stamp"})) \cup {"done"}
    /\ admitGen[g] < generation \/ \E r \in Resetters : pc[r] = "resetBump"

FenceInv == MutexExact /\ Behind /\ Fenced

LEMMA MutexInit == Init => MutexExact
  BY ActorsAssumption DEF Init, MutexExact, Critical, Bodies

LEMMA MutexStep == TypeOK /\ MutexExact /\ [Next]_vars => MutexExact'
<1>. SUFFICES ASSUME TypeOK, MutexExact, [Next]_vars PROVE MutexExact'
  OBVIOUS
<1>. USE ActorsAssumption DEF MutexExact, Critical, Bodies, TypeOK
<1>1. ASSUME NEW g \in Goroutines, StateCall(g) PROVE MutexExact'
  BY <1>1 DEF StateCall, CheckState, PromoteCAS, PromoteBump, PromoteClear
<1>2. ASSUME NEW g \in Goroutines, LoadGeneration(g) PROVE MutexExact'
  BY <1>2 DEF LoadGeneration
<1>3. ASSUME NEW g \in Goroutines, ReserveProbe(g) \/ Return(g) \/ SuccessFast(g) PROVE MutexExact'
  BY <1>3 DEF ReserveProbe, Return, SuccessFast
<1>4. ASSUME NEW g \in Goroutines, SuccessLock(g) \/ FailureLock(g) \/ TripLock(g)
      PROVE MutexExact'
  BY <1>4 DEF SuccessLock, FailureLock, TripLock, LockFenced
<1>5. ASSUME NEW g \in Goroutines, SuccessBody(g) PROVE MutexExact'
  BY <1>5 DEF SuccessBody
<1>6. ASSUME NEW g \in Goroutines, FailureBody(g) PROVE MutexExact'
  BY <1>6 DEF FailureBody
<1>7. ASSUME NEW g \in Goroutines, TripBody(g) \/ Stamp(g) PROVE MutexExact'
  BY <1>7 DEF TripBody, Stamp
<1>8. ASSUME NEW g \in Goroutines, Fire(g) \/ ReleaseCheck(g) \/ ReleaseDec(g) PROVE MutexExact'
  BY <1>8 DEF Fire, ReleaseCheck, ReleaseDec
<1>9. ASSUME NEW g \in Goroutines, ResetBump(g) PROVE MutexExact'
  BY <1>9 DEF ResetBump
<1>10. ASSUME NEW g \in Callers \cup Watchers, Enter(g) PROVE MutexExact'
  BY <1>10 DEF Enter, Goroutines
<1>11. ASSUME NEW g \in Resetters, ResetSwap(g) PROVE MutexExact'
  BY <1>11 DEF ResetSwap, Goroutines
<1>12. CASE Close \/ Elapse \/ UNCHANGED vars
  BY <1>12 DEF Close, Elapse
<1>13. ASSUME NEW g \in Goroutines, Proceed(g) PROVE MutexExact'
  <2>. HIDE DEF MutexExact, TypeOK
  <2>. QED
    BY <1>1, <1>2, <1>3, <1>4, <1>5, <1>6, <1>7, <1>8, <1>9, <1>13 DEF Proceed, Settle
<1>. HIDE DEF MutexExact, TypeOK, vars
<1>. QED
  BY <1>10, <1>11, <1>12, <1>13 DEF Next, Begin, AllDone

\* Nobody but the goroutine between lock and unlock holds the mutex.
THEOREM MutexIsExact == Spec => []MutexExact
<1>. QED
  BY MutexInit, MutexStep, TypeCorrect, PTL DEF Spec

LEMMA BehindStep == TypeOK /\ Behind /\ [Next]_vars => Behind'
<1>. SUFFICES ASSUME TypeOK, Behind, [Next]_vars PROVE Behind'
  OBVIOUS
<1>. USE DEF Behind, TypeOK
<1>1. ASSUME NEW g \in Goroutines, PromoteBump(g) \/ ResetBump(g) PROVE Behind'
  BY <1>1 DEF PromoteBump, ResetBump
<1>2. ASSUME NEW g \in Goroutines, SuccessBody(g) PROVE Behind'
  BY <1>2 DEF SuccessBody
<1>3. ASSUME NEW g \in Goroutines, LoadGeneration(g) PROVE Behind'
  BY <1>3 DEF LoadGeneration
<1>4. CASE UNCHANGED <<generation, admitGen>>
  BY <1>4
<1>. HIDE DEF Behind, TypeOK
<1>. QED
  BY <1>1, <1>2, <1>3, <1>4
  DEF Next, Begin, Proceed, StateCall, Settle, AllDone, Enter, CheckState, PromoteCAS,
      PromoteClear, ReserveProbe, Return, SuccessFast, SuccessLock, FailureLock,
      TripLock, LockFenced, FailureBody, TripBody, Stamp, Fire, ReleaseCheck,
      ReleaseDec, ResetSwap, Close, Elapse

\* The steps that begin a Reset: the fence goes up around the calls in flight.
LEMMA FenceRises ==
  ASSUME TypeOK, FenceInv, NEW r \in Resetters, ResetSwap(r), Record
  PROVE  Fenced'
<1>. USE ActorsAssumption DEF TypeOK
<1>1. r \in Goroutines /\ pc[r] = "idle" /\ pc' = [pc EXCEPT ![r] = "resetBump"] /\ mu = Nobody
  BY DEF ResetSwap, Goroutines
<1>2. pc'[r] = "resetBump"
  BY <1>1
<1>3. fenced' = {g \in Callers : pc[g] \in Admitted}
  BY <1>1, <1>2 DEF Record, Resets
<1>4. ASSUME NEW g \in fenced' PROVE pc'[g] \in Admitted \ (Bodies \cup {"stamp"})
  <2>1. g \in Callers /\ g \in Goroutines /\ g # r /\ pc[g] \in Admitted
    BY <1>3 DEF Goroutines
  <2>2. pc[g] \notin Bodies \cup {"stamp"}
    BY <1>1, <2>1 DEF FenceInv, MutexExact, Critical, Bodies
  <2>. QED
    BY <1>1, <2>1, <2>2
<1>. QED
  BY <1>2, <1>3, <1>4 DEF Fenced

\* Any other step leaves the set of fenced calls alone.
LEMMA FenceStays ==
  ASSUME TypeOK, [Next]_vars, [Record]_hvars, \A r \in Resetters : ~Resets(r)
  PROVE  fenced' = fenced
  BY DEF Record, hvars

\* A fenced call in the package only finds its generation gone and leaves.
LEMMA FencedProceed ==
  ASSUME TypeOK, FenceInv, NEW h \in Goroutines, Proceed(h), fenced' = fenced
  PROVE  Fenced'
<1>. USE ActorsAssumption DEF TypeOK
<1>1. ASSUME NEW g \in fenced
      PROVE  /\ g \in Callers /\ g \in Goroutines
             /\ pc[g] \in {"reserve", "run", "success", "successLock", "failureLock",
                          "tripLock", "releaseCheck", "releaseDec", "done"}
             /\ admitGen[g] <= generation
             /\ admitGen[g] < generation \/ \E r \in Resetters : pc[r] = "resetBump"
  BY DEF FenceInv, Fenced, Behind, Admitted, Settling, Releasing, Bodies, Goroutines
<1>2. ASSUME NEW g \in fenced, mu = Nobody PROVE ~Current(g) /\ admitGen[g] < generation
  BY <1>1, <1>2 DEF FenceInv, MutexExact, Critical, Bodies, Goroutines
<1>. USE DEF Fenced, Admitted, Settling, Releasing, Bodies
<1>3. CASE ResetBump(h)
  BY <1>1, <1>3 DEF ResetBump
<1>4. CASE StateCall(h)
  BY <1>1, <1>4 DEF StateCall, CheckState, PromoteCAS, PromoteBump, PromoteClear, Goroutines
<1>5. CASE LoadGeneration(h)
  BY <1>1, <1>5 DEF LoadGeneration, Goroutines
<1>6. CASE ReserveProbe(h) \/ Return(h) \/ SuccessFast(h)
  BY <1>1, <1>6 DEF ReserveProbe, Return, SuccessFast, Goroutines
<1>7. CASE SuccessLock(h) \/ FailureLock(h) \/ TripLock(h)
  BY <1>1, <1>2, <1>7 DEF SuccessLock, FailureLock, TripLock, LockFenced, Goroutines
<1>8. CASE SuccessBody(h)
  BY <1>1, <1>8 DEF SuccessBody, Goroutines
<1>9. CASE FailureBody(h)
  BY <1>1, <1>9 DEF FailureBody, Goroutines
<1>10. CASE TripBody(h) \/ Stamp(h)
  BY <1>1, <1>10 DEF TripBody, Stamp, Goroutines
<1>11. CASE Fire(h) \/ ReleaseCheck(h) \/ ReleaseDec(h)
  BY <1>1, <1>11 DEF Fire, ReleaseCheck, ReleaseDec, Goroutines
<1>. HIDE DEF Fenced, TypeOK
<1>. QED
  BY <1>3, <1>4, <1>5, <1>6, <1>7, <1>8, <1>9, <1>10, <1>11 DEF Proceed, Settle

LEMMA FencedStep == TypeOK /\ FenceInv /\ [HNext]_hvars => Fenced'
<1>. SUFFICES ASSUME TypeOK, FenceInv, [HNext]_hvars PROVE Fenced'
  OBVIOUS
<1>1. [Next]_vars /\ [Record]_hvars
  BY DEF HNext, hvars
<1>2. ASSUME NEW r \in Resetters, HNext, ResetSwap(r) PROVE Fenced'
  BY <1>2, FenceRises DEF HNext
<1>3. CASE (\A r \in Resetters : ~Resets(r)) /\ \E h \in Goroutines : Proceed(h)
  BY <1>1, <1>3, FenceStays, FencedProceed
<1>4. CASE (\A r \in Resetters : ~Resets(r)) /\ UNCHANGED <<pc, admitGen, generation>>
  <2>1. fenced' = fenced
    BY <1>1, <1>4, FenceStays
  <2>. QED
    BY <1>4, <2>1 DEF FenceInv, Fenced
<1>5. CASE (\A r \in Resetters : ~Resets(r)) /\ \E g \in Callers \cup Watchers : Enter(g)
  <2>1. fenced' = fenced
    BY <1>1, <1>5, FenceStays
  <2>2. PICK g \in Callers \cup Watchers : Enter(g)
    BY <1>5
  <2>3. \A h \in fenced : pc'[h] = pc[h]
    BY <2>2 DEF FenceInv, Fenced, Enter, Admitted, Settling, Releasing, TypeOK, Goroutines
  <2>4. \A r \in Resetters : pc'[r] = pc[r]
    BY <2>2, ActorsAssumption DEF Enter, TypeOK, Goroutines
  <2>. QED
    BY <2>1, <2>2, <2>3, <2>4 DEF FenceInv, Fenced, Enter
<1>6. ASSUME NEW r \in Resetters, Resets(r), HNext PROVE \E s \in Resetters : ResetSwap(s)
  <2>1. pc[r] = "idle" /\ pc'[r] = "resetBump" /\ r \in Goroutines
    BY <1>6 DEF Resets, Goroutines
  <2>2. ASSUME NEW h \in Goroutines, Proceed(h) PROVE FALSE
    BY <2>1, <2>2
    DEF TypeOK, Proceed, StateCall, Settle, CheckState, PromoteCAS, PromoteBump,
        PromoteClear, LoadGeneration, ReserveProbe, Return, SuccessFast, SuccessLock,
        FailureLock, TripLock, LockFenced, SuccessBody, FailureBody, TripBody, Stamp,
        Fire, ReleaseCheck, ReleaseDec, ResetBump
  <2>3. ASSUME NEW g \in Callers \cup Watchers, Enter(g) PROVE FALSE
    BY <2>1, <2>3 DEF Enter, TypeOK, Goroutines
  <2>. QED
    BY <1>6, <2>1, <2>2, <2>3 DEF HNext, Next, Begin, Close, Elapse, AllDone
<1>7. ASSUME NEW r \in Resetters, Resets(r), ~HNext PROVE FALSE
  BY <1>1, <1>7 DEF hvars, Resets
<1>8. CASE \E r \in Resetters : Resets(r)
  BY <1>2, <1>6, <1>7, <1>8
<1>9. CASE (\A r \in Resetters : ~Resets(r)) /\ UNCHANGED hvars
  BY <1>4, <1>9 DEF hvars
<1>10. CASE (\A r \in Resetters : ~Resets(r)) /\ HNext
  <2>1. CASE Close \/ Elapse \/ AllDone
    <3>1. UNCHANGED <<pc, admitGen, generation>>
      BY <2>1 DEF Close, Elapse, AllDone
    <3>. QED
      BY <1>4, <1>10, <3>1
  <2>2. CASE Begin
    BY <1>2, <1>5, <1>10, <2>2 DEF Begin
  <2>. QED
    BY <1>3, <1>10, <2>1, <2>2 DEF HNext, Next
<1>. QED
  BY <1>8, <1>9, <1>10

\* Whatever the history records, the breaker underneath takes its own steps.
LEMMA HistoryIsSpec == HSpec => Spec
<1>1. HInit => Init
  BY DEF HInit
<1>2. [HNext]_hvars => [Next]_vars
  BY DEF HNext, hvars
<1>. QED
  BY <1>1, <1>2, PTL DEF HSpec, Spec

\* A call admitted before a Reset never settles after it.
THEOREM ResetIsAFence == HSpec => []ResetFences
<1>1. HInit => FenceInv
  <2>1. ASSUME HInit PROVE Behind /\ Fenced
    BY <2>1 DEF HInit, Init, Behind, Fenced
  <2>. QED
    BY <2>1, MutexInit DEF HInit, FenceInv
<1>2. TypeOK /\ FenceInv /\ [HNext]_hvars => FenceInv'
  <2>1. [HNext]_hvars => [Next]_vars
    BY DEF HNext, hvars
  <2>. QED
    BY <2>1, MutexStep, BehindStep, FencedStep DEF FenceInv
<1>3. FenceInv => ResetFences
  BY DEF FenceInv, Fenced, ResetFences, Admitted, Settling, Releasing, Bodies
<1>. QED
  BY <1>1, <1>2, <1>3, HistoryIsSpec, TypeCorrect, PTL DEF HSpec
-----------------------------------------------------------------------------
(* The hook *)

\* Only a goroutine between its edge and its report has one to report.
Carrying == {"bump", "clear", "stamp", "resetBump", "fire"}
EdgeInv  == \A g \in Goroutines : edge[g] # NoEdge => pc[g] \in Carrying

\* What a step may do to the edges: report one, leave them, or make one.
ReportsEdge(g) ==
  /\ Reports(g) /\ \A h \in Goroutines : Reports(h) => h = g
  /\ edge' = [edge EXCEPT ![g] = NoEdge]
  /\ state' = state
LeavesEdges ==
  /\ \A h \in Goroutines : ~Reports(h)
  /\ edge' = edge
  /\ state' = state
MakesEdge(g) ==
  /\ \A h \in Goroutines : ~Reports(h)
  /\ edge[g] = NoEdge
  /\ edge' = [edge EXCEPT ![g] = <<state, state'>>]
  /\ state' # state

LEMMA EdgeInvStep == TypeOK /\ EdgeInv /\ [Next]_vars => EdgeInv'
<1>. SUFFICES ASSUME TypeOK, EdgeInv, [Next]_vars PROVE EdgeInv'
  OBVIOUS
<1>. USE DEF EdgeInv, Carrying, TypeOK
<1>1. ASSUME NEW g \in Goroutines, StateCall(g) PROVE EdgeInv'
  BY <1>1 DEF StateCall, CheckState, PromoteCAS, PromoteBump, PromoteClear
<1>2. ASSUME NEW g \in Goroutines,
             LoadGeneration(g) \/ ReserveProbe(g) \/ Return(g) \/ SuccessFast(g)
      PROVE  EdgeInv'
  BY <1>2 DEF LoadGeneration, ReserveProbe, Return, SuccessFast
<1>3. ASSUME NEW g \in Goroutines, SuccessLock(g) \/ FailureLock(g) \/ TripLock(g) PROVE EdgeInv'
  BY <1>3 DEF SuccessLock, FailureLock, TripLock, LockFenced
<1>4. ASSUME NEW g \in Goroutines, SuccessBody(g) PROVE EdgeInv'
  BY <1>4 DEF SuccessBody
<1>5. ASSUME NEW g \in Goroutines, FailureBody(g) PROVE EdgeInv'
  BY <1>5 DEF FailureBody
<1>6. ASSUME NEW g \in Goroutines, TripBody(g) \/ Stamp(g) PROVE EdgeInv'
  BY <1>6 DEF TripBody, Stamp
<1>7. ASSUME NEW g \in Goroutines, Fire(g) \/ ReleaseCheck(g) \/ ReleaseDec(g) PROVE EdgeInv'
  BY <1>7 DEF Fire, ReleaseCheck, ReleaseDec
<1>8. ASSUME NEW g \in Goroutines, ResetBump(g) PROVE EdgeInv'
  BY <1>8 DEF ResetBump
<1>9. ASSUME NEW g \in Callers \cup Watchers, Enter(g) PROVE EdgeInv'
  BY <1>9 DEF Enter, Goroutines
<1>10. ASSUME NEW g \in Resetters, ResetSwap(g) PROVE EdgeInv'
  BY <1>10 DEF ResetSwap, Goroutines
<1>11. CASE Close \/ Elapse \/ UNCHANGED vars
  BY <1>11 DEF Close, Elapse
<1>12. ASSUME NEW g \in Goroutines, Proceed(g) PROVE EdgeInv'
  <2>. HIDE DEF EdgeInv, TypeOK
  <2>. QED
    BY <1>1, <1>2, <1>3, <1>4, <1>5, <1>6, <1>7, <1>8, <1>12 DEF Proceed, Settle
<1>. HIDE DEF EdgeInv, TypeOK, vars
<1>. QED
  BY <1>9, <1>10, <1>11, <1>12 DEF Next, Begin, AllDone

LEMMA StepMovesEdges ==
  ASSUME TypeOK, EdgeInv, [Next]_vars
  PROVE  \/ \E g \in Goroutines : ReportsEdge(g)
         \/ LeavesEdges
         \/ \E g \in Goroutines : MakesEdge(g)
<1>. DEFINE Goal == \/ \E g \in Goroutines : ReportsEdge(g)
                    \/ LeavesEdges
                    \/ \E g \in Goroutines : MakesEdge(g)
<1>. USE DEF TypeOK, Reports, Closed, Open, HalfOpen
<1>1. ASSUME NEW g \in Goroutines, CheckState(g) \/ PromoteBump(g) \/ PromoteClear(g)
      PROVE  LeavesEdges
  BY <1>1 DEF CheckState, PromoteBump, PromoteClear, LeavesEdges
<1>2. ASSUME NEW g \in Goroutines, PromoteCAS(g) PROVE LeavesEdges \/ MakesEdge(g)
  BY <1>2 DEF PromoteCAS, LeavesEdges, MakesEdge, EdgeInv, Carrying
<1>3. ASSUME NEW g \in Goroutines,
             LoadGeneration(g) \/ ReserveProbe(g) \/ Return(g) \/ SuccessFast(g)
      PROVE  LeavesEdges
  BY <1>3 DEF LoadGeneration, ReserveProbe, Return, SuccessFast, LeavesEdges
<1>4. ASSUME NEW g \in Goroutines, SuccessLock(g) \/ FailureLock(g) \/ TripLock(g)
      PROVE  LeavesEdges
  BY <1>4 DEF SuccessLock, FailureLock, TripLock, LockFenced, LeavesEdges
<1>5. ASSUME NEW g \in Goroutines, SuccessBody(g) PROVE LeavesEdges \/ MakesEdge(g)
  BY <1>5 DEF SuccessBody, Heals, LeavesEdges, MakesEdge, EdgeInv, Carrying
<1>6. ASSUME NEW g \in Goroutines, FailureBody(g) PROVE LeavesEdges \/ MakesEdge(g)
  BY <1>6 DEF FailureBody, AlreadyOpen, LeavesEdges, MakesEdge, EdgeInv, Carrying
<1>7. ASSUME NEW g \in Goroutines, TripBody(g) PROVE LeavesEdges \/ MakesEdge(g)
  BY <1>7 DEF TripBody, AlreadyOpen, From, LeavesEdges, MakesEdge, EdgeInv, Carrying
<1>8. ASSUME NEW g \in Goroutines,
             Stamp(g) \/ ReleaseCheck(g) \/ ReleaseDec(g) \/ ResetBump(g)
      PROVE  LeavesEdges
  BY <1>8 DEF Stamp, ReleaseCheck, ReleaseDec, ResetBump, LeavesEdges
<1>9. ASSUME NEW g \in Goroutines, Fire(g) PROVE ReportsEdge(g)
  BY <1>9 DEF Fire, ReportsEdge
<1>10. ASSUME NEW g \in Callers \cup Watchers, Enter(g) PROVE LeavesEdges
  BY <1>10 DEF Enter, Goroutines, LeavesEdges
<1>11. ASSUME NEW g \in Resetters, ResetSwap(g) PROVE LeavesEdges \/ MakesEdge(g)
  <2>1. g \in Goroutines /\ pc[g] = "idle" /\ edge[g] = NoEdge
    BY <1>11 DEF ResetSwap, Goroutines, EdgeInv, Carrying
  <2>2. \A h \in Goroutines : ~Reports(h)
    BY <1>11, <2>1 DEF ResetSwap
  <2>3. CASE state = Closed
    BY <1>11, <2>1, <2>2, <2>3 DEF ResetSwap, LeavesEdges
  <2>4. CASE state # Closed
    BY <1>11, <2>1, <2>2, <2>4 DEF ResetSwap, MakesEdge
  <2>. QED
    BY <2>3, <2>4
<1>12. CASE Close \/ Elapse \/ UNCHANGED vars
  BY <1>12 DEF Close, Elapse, LeavesEdges
<1>13. ASSUME NEW g \in Goroutines, Proceed(g) PROVE Goal
  <2>. HIDE DEF TypeOK, Reports
  <2>. QED
    BY <1>1, <1>2, <1>3, <1>4, <1>5, <1>6, <1>7, <1>8, <1>9, <1>13
       DEF Proceed, Settle, StateCall
<1>. HIDE DEF TypeOK, Reports, vars
<1>. QED
  BY <1>10, <1>11, <1>12, <1>13 DEF Next, Begin, AllDone, Goroutines

\* The goroutines that have still to report the edge e.
Carriers(e) == {g \in Goroutines : edge[g] = e}

LEMMA CarriersCounted ==
  ASSUME NEW e
  PROVE  IsFiniteSet(Carriers(e)) /\ Cardinality(Carriers(e)) \in Nat
<1>1. Carriers(e) \subseteq Goroutines
  BY DEF Carriers
<1>. QED
  BY <1>1, FS_Subset, FS_CardinalityType, ActorsAssumption DEF ActorsAssumption

LEMMA HookStep == TypeOK /\ EdgeInv /\ HookOncePerEdge /\ [HNext]_hvars => HookOncePerEdge'
<1>. SUFFICES ASSUME TypeOK, EdgeInv, HookOncePerEdge, [HNext]_hvars,
                     NEW e \in States \X States
              PROVE  Cardinality(Carriers(e)') = owed'[e]
  BY DEF HookOncePerEdge, Carriers
<1>0. Cardinality(Carriers(e)) = owed[e] /\ owed[e] \in Int /\ e # NoEdge
  <2>1. Cardinality(Carriers(e)) = owed[e]
    BY DEF HookOncePerEdge, Carriers
  <2>2. e # NoEdge
    BY DEF NoEdge
  <2>. QED
    BY <2>1, <2>2, CarriersCounted
<1>1. CASE UNCHANGED hvars
  BY <1>0, <1>1 DEF hvars, Carriers
<1>2. CASE Next /\ Record
  <2>1. owed'[e] = owed[e] + (IF state' # state /\ e = <<state, state'>> THEN 1 ELSE 0)
                           - (IF \E g \in Goroutines : Reports(g) /\ edge[g] = e THEN 1 ELSE 0)
    BY <1>2 DEF Record
  <2>2. ASSUME LeavesEdges PROVE Cardinality(Carriers(e)') = owed'[e]
    BY <1>0, <2>1, <2>2 DEF LeavesEdges, Carriers
  <2>3. ASSUME NEW g \in Goroutines, ReportsEdge(g) PROVE Cardinality(Carriers(e)') = owed'[e]
    <3>1. Carriers(e)' = Carriers(e) \ {g}
      BY <1>0, <2>3 DEF ReportsEdge, Carriers, TypeOK
    <3>2. owed'[e] = owed[e] - (IF edge[g] = e THEN 1 ELSE 0)
      BY <1>0, <2>1, <2>3 DEF ReportsEdge
    <3>3. Cardinality(Carriers(e) \ {g})
             = IF g \in Carriers(e) THEN Cardinality(Carriers(e)) - 1 ELSE Cardinality(Carriers(e))
      BY CarriersCounted, FS_RemoveElement
    <3>4. g \in Carriers(e) <=> edge[g] = e
      BY DEF Carriers
    <3>. QED
      BY <1>0, <3>1, <3>2, <3>3, <3>4
  <2>4. ASSUME NEW g \in Goroutines, MakesEdge(g) PROVE Cardinality(Carriers(e)') = owed'[e]
    <3>1. owed'[e] = owed[e] + (IF e = <<state, state'>> THEN 1 ELSE 0)
      BY <1>0, <2>1, <2>4 DEF MakesEdge
    <3>2. CASE e = <<state, state'>>
      <4>1. Carriers(e)' = Carriers(e) \cup {g} /\ g \notin Carriers(e)
        BY <1>0, <2>4, <3>2 DEF MakesEdge, Carriers, TypeOK
      <4>2. Cardinality(Carriers(e)') = Cardinality(Carriers(e)) + 1
        BY <4>1, CarriersCounted, FS_AddElement
      <4>. QED
        BY <1>0, <3>1, <3>2, <4>2
    <3>3. CASE e # <<state, state'>>
      <4>1. Carriers(e)' = Carriers(e)
        BY <1>0, <2>4, <3>3 DEF MakesEdge, Carriers, TypeOK
      <4>. QED
        BY <1>0, <3>1, <3>3, <4>1
    <3>. QED
      BY <3>2, <3>3
  <2>. QED
    BY <1>2, <2>2, <2>3, <2>4, StepMovesEdges
<1>. QED
  BY <1>1, <1>2 DEF HNext

\* Every change of state that happened, and no other, is in the hands of one
\* goroutine until that goroutine reports it, however the steps of State, Execute
\* and Reset fall between each other (fireStateChange).
THEOREM HookReportsEachEdgeOnce == HSpec => []HookOncePerEdge
<1>1. HInit => EdgeInv /\ HookOncePerEdge
  <2>. SUFFICES ASSUME HInit PROVE EdgeInv /\ HookOncePerEdge
    OBVIOUS
  <2>1. EdgeInv
    BY DEF HInit, Init, EdgeInv
  <2>2. ASSUME NEW e \in States \X States PROVE Carriers(e) = {} /\ owed[e] = 0
    <3>1. e # NoEdge
      BY DEF NoEdge
    <3>. QED
      BY <3>1 DEF HInit, Init, Carriers
  <2>3. HookOncePerEdge
    BY <2>2, FS_EmptySet DEF HookOncePerEdge, Carriers
  <2>. QED
    BY <2>1, <2>3
<1>2. TypeOK /\ EdgeInv /\ [HNext]_hvars => EdgeInv'
  <2>1. [HNext]_hvars => [Next]_vars
    BY DEF HNext, hvars
  <2>. QED
    BY <2>1, EdgeInvStep
<1>. QED
  BY <1>1, <1>2, HookStep, HistoryIsSpec, TypeCorrect, PTL DEF HSpec
=============================================================================
