--------------------------- MODULE BulkheadProofs ---------------------------
(***************************************************************************)
(* Proofs about the bulkhead for any finite set of callers and any limits. *)
(* The invariant that carries them is that each counter is the number of   *)
(* callers at the places the code counts.                                  *)
(***************************************************************************)
EXTENDS BulkheadHistory, FiniteSetTheorems, TLAPS

Held    == {g \in Callers : pc[g] \in Holding}
Counted == {g \in Callers : counted[g]}

\* sem holds one element per caller that sent and has not received.
SlotInv == sem = Cardinality(Held)

ActiveInv == active = Cardinality(Occupied)

WaitInv == waiters = Cardinality(Counted)

\* Where a caller is counted as a waiter.
PlaceInv ==
  \A g \in Callers :
    /\ pc[g] \in {"select", "blocked", "leave", "leaveAdmitted"} => counted[g]
    /\ counted[g] => pc[g] \in {"select", "blocked", "commit", "refund", "leave", "leaveAdmitted"}

IInv == TypeOK /\ SlotInv /\ ActiveInv /\ WaitInv /\ PlaceInv

LEMMA LabelSets ==
  /\ Inside = {"run", "dec"}
  /\ Holding = {"run", "dec", "recheck", "giveBack", "commit", "refund", "leaveAdmitted",
                "start", "free"}
  /\ Labels = {"run", "dec", "recheck", "giveBack", "commit", "refund", "leaveAdmitted",
               "start", "free", "idle", "peek", "send", "slow", "select", "blocked",
               "leave", "done"}
  BY DEF Inside, Holding, Labels

LEMMA CardinalityAdd ==
  ASSUME NEW S \in SUBSET Callers, NEW g \in Callers, g \notin S
  PROVE  Cardinality(S \cup {g}) = Cardinality(S) + 1 /\ Cardinality(S) \in Nat
<1>1. IsFiniteSet(S)
  BY CallersAssumption, FS_Subset
<1>. QED
  BY <1>1, FS_AddElement, FS_CardinalityType

LEMMA CardinalityRemove ==
  ASSUME NEW S \in SUBSET Callers, NEW g \in S
  PROVE  Cardinality(S \ {g}) = Cardinality(S) - 1 /\ Cardinality(S \ {g}) \in Nat
<1>1. IsFiniteSet(S) /\ IsFiniteSet(S \ {g})
  BY CallersAssumption, FS_Subset
<1>. QED
  BY <1>1, FS_RemoveElement, FS_CardinalityType

\* A caller moves, and the three counts it may enter or leave follow it.
LEMMA MoveKeeps ==
  ASSUME TypeOK, NEW g \in Callers, NEW b \in Labels, pc' = [pc EXCEPT ![g] = b]
  PROVE  /\ (pc[g] \in Holding <=> b \in Holding) => Held' = Held
         /\ (pc[g] \in Inside <=> b \in Inside) => Occupied' = Occupied
  BY DEF TypeOK, Held, Occupied

LEMMA MoveEnters ==
  ASSUME TypeOK, NEW g \in Callers, NEW b \in Labels, pc' = [pc EXCEPT ![g] = b]
  PROVE  /\ pc[g] \notin Holding /\ b \in Holding => Cardinality(Held') = Cardinality(Held) + 1
         /\ pc[g] \notin Inside /\ b \in Inside =>
              Cardinality(Occupied') = Cardinality(Occupied) + 1
<1>1. ASSUME pc[g] \notin Holding, b \in Holding PROVE Held' = Held \cup {g} /\ g \notin Held
  BY <1>1 DEF TypeOK, Held
<1>2. ASSUME pc[g] \notin Inside, b \in Inside
      PROVE  Occupied' = Occupied \cup {g} /\ g \notin Occupied
  BY <1>2 DEF TypeOK, Occupied
<1>3. Held \in SUBSET Callers /\ Occupied \in SUBSET Callers
  BY DEF Held, Occupied
<1>. QED
  BY <1>1, <1>2, <1>3, CardinalityAdd

LEMMA MoveLeaves ==
  ASSUME TypeOK, NEW g \in Callers, NEW b \in Labels, pc' = [pc EXCEPT ![g] = b]
  PROVE  /\ pc[g] \in Holding /\ b \notin Holding => Cardinality(Held') = Cardinality(Held) - 1
         /\ pc[g] \in Inside /\ b \notin Inside =>
              Cardinality(Occupied') = Cardinality(Occupied) - 1
<1>1. ASSUME pc[g] \in Holding, b \notin Holding PROVE Held' = Held \ {g} /\ g \in Held
  BY <1>1 DEF TypeOK, Held
<1>2. ASSUME pc[g] \in Inside, b \notin Inside PROVE Occupied' = Occupied \ {g} /\ g \in Occupied
  BY <1>2 DEF TypeOK, Occupied
<1>3. Held \in SUBSET Callers /\ Occupied \in SUBSET Callers
  BY DEF Held, Occupied
<1>. QED
  BY <1>1, <1>2, <1>3, CardinalityRemove

\* A receive by a holder outside the active count: its place goes to nobody,
\* or to one blocked sender.
LEMMA ReceiveKeepsCounts ==
  ASSUME TypeOK, SlotInv, NEW g \in Callers, NEW b \in Labels,
         pc[g] \in Holding \ Inside, b \notin Holding, Receive(g, b)
  PROVE  /\ sem' = Cardinality(Held')
         /\ sem' \in 0 .. MaxConcurrent
         /\ Occupied' = Occupied
         /\ pc' \in [Callers -> Labels]
         /\ pc'[g] = b
         /\ \A h \in Callers \ {g} : pc'[h] = pc[h] \/ (pc[h] = "blocked" /\ pc'[h] = "commit")
<1>. USE LabelSets DEF TypeOK
<1>1. CASE Blocked = {} /\ sem > 0 /\ sem' = sem - 1 /\ Goto(g, b)
  <2>1. Cardinality(Held') = Cardinality(Held) - 1 /\ Occupied' = Occupied
    BY <1>1, MoveLeaves, MoveKeeps DEF Goto
  <2>. QED
    BY <1>1, <2>1, LimitsAssumption DEF SlotInv, Goto
<1>2. ASSUME NEW h \in Blocked, pc' = [pc EXCEPT ![g] = b, ![h] = "commit"], sem' = sem
      PROVE  /\ sem' = Cardinality(Held')
             /\ Occupied' = Occupied
             /\ pc' \in [Callers -> Labels]
             /\ pc'[g] = b
             /\ \A k \in Callers \ {g} : pc'[k] = pc[k] \/ (pc[k] = "blocked" /\ pc'[k] = "commit")
  <2>1. h \in Callers /\ pc[h] = "blocked" /\ h # g
    BY DEF Blocked
  <2>2. Held' = (Held \ {g}) \cup {h} /\ g \in Held /\ h \notin Held \ {g}
    BY <1>2, <2>1 DEF Held
  <2>3. Cardinality(Held \ {g}) = Cardinality(Held) - 1 /\ Cardinality(Held \ {g}) \in Nat
    BY <2>2, CardinalityRemove DEF Held
  <2>4. Cardinality(Held') = Cardinality(Held \ {g}) + 1
    <3>1. Held \ {g} \in SUBSET Callers
      BY DEF Held
    <3>. QED
      BY <2>1, <2>2, <3>1, CardinalityAdd
  <2>5. Occupied' = Occupied
    BY <1>2, <2>1 DEF Occupied
  <2>. QED
    BY <1>2, <2>1, <2>3, <2>4, <2>5 DEF SlotInv
<1>. QED
  BY <1>1, <1>2 DEF Receive

-----------------------------------------------------------------------------
(* The invariant is inductive: one lemma per kind of step. *)

\* A step that only moves one caller between places of the same kind.
LEMMA PlainMove ==
  ASSUME IInv, NEW g \in Callers,
         Enter(g) \/ Peek(g) \/ Recheck(g) \/ Block(g) \/ GiveUp(g) \/ SeeClosed(g)
           \/ FinishReserve(g) \/ Complete(g)
  PROVE  IInv'
<1>. USE LabelSets DEF At, Goto
<1>1. TypeOK /\ SlotInv /\ ActiveInv /\ WaitInv /\ PlaceInv
  BY DEF IInv
<1>2. UNCHANGED <<sem, active, waiters, closedCh, closed, kind, counted>>
  BY DEF Enter, Peek, Recheck, Block, GiveUp, SeeClosed, FinishReserve, Complete, Finish, Release
<1>3. tokenDone' \in [Callers -> BOOLEAN]
  BY <1>1 DEF TypeOK, Enter, Peek, Recheck, Block, GiveUp, SeeClosed, FinishReserve,
              Complete, Finish, Release
<1>4. PICK b \in Labels :
        /\ pc' = [pc EXCEPT ![g] = b]
        /\ pc[g] \in Holding <=> b \in Holding
        /\ pc[g] \in Inside <=> b \in Inside
        /\ b \in {"select", "blocked", "leave", "leaveAdmitted"} => counted[g]
        /\ counted[g] => b \in {"select", "blocked", "commit", "refund", "leave", "leaveAdmitted"}
  <2>1. CASE Enter(g) \/ Peek(g) \/ Recheck(g)
    BY <1>1, <2>1 DEF Enter, Peek, Recheck, Fallback, PlaceInv, TypeOK
  <2>2. CASE Block(g) \/ GiveUp(g) \/ SeeClosed(g) \/ FinishReserve(g)
    BY <1>1, <2>2 DEF Block, GiveUp, SeeClosed, FinishReserve, PlaceInv, TypeOK
  <2>3. CASE Finish(g)
    BY <1>1, <2>3 DEF Finish, PlaceInv, TypeOK
  <2>4. CASE Release(g) /\ pc' = pc
    BY <1>1, <2>4 DEF PlaceInv, TypeOK
  <2>5. CASE Release(g) /\ pc' # pc
    BY <1>1, <2>5 DEF Release, ReleasesNow, PlaceInv, TypeOK
  <2>. QED
    BY <2>1, <2>2, <2>3, <2>4, <2>5 DEF Complete
<1>5. Held' = Held /\ Occupied' = Occupied
  BY <1>1, <1>4, MoveKeeps
<1>6. PlaceInv'
  BY <1>1, <1>2, <1>4 DEF PlaceInv, TypeOK
<1>7. TypeOK'
  BY <1>1, <1>2, <1>3, <1>4 DEF TypeOK
<1>. QED
  BY <1>1, <1>2, <1>5, <1>6, <1>7 DEF IInv, SlotInv, ActiveInv, WaitInv, Counted

\* A send takes a place, and the fast path may find none.
LEMMA SendStep ==
  ASSUME IInv, NEW g \in Callers, FastSend(g) \/ SelectSend(g)
  PROVE  IInv'
<1>. USE LabelSets DEF At, Goto
<1>1. TypeOK /\ SlotInv /\ ActiveInv /\ WaitInv /\ PlaceInv
  BY DEF IInv
<1>2. UNCHANGED <<active, waiters, closedCh, closed, kind, counted, tokenDone>>
  BY DEF FastSend, SelectSend
<1>3. PICK b \in Labels :
        /\ pc' = [pc EXCEPT ![g] = b]
        /\ pc[g] \notin Holding
        /\ b \notin Inside
        /\ b \in Holding => sem < MaxConcurrent /\ sem' = sem + 1
        /\ b \notin Holding => sem' = sem
        /\ b \in {"select", "blocked", "leave", "leaveAdmitted"} => counted[g]
        /\ counted[g] => b \in {"select", "blocked", "commit", "refund", "leave", "leaveAdmitted"}
  BY <1>1 DEF FastSend, SelectSend, Send, Room, Fallback, PlaceInv, TypeOK
<1>4. Occupied' = Occupied
  BY <1>1, <1>3, MoveKeeps
<1>5. sem' = Cardinality(Held')
  BY <1>1, <1>3, MoveKeeps, MoveEnters DEF SlotInv
<1>6. PlaceInv'
  BY <1>1, <1>2, <1>3 DEF PlaceInv, TypeOK
<1>7. TypeOK'
  BY <1>1, <1>2, <1>3, LimitsAssumption DEF TypeOK
<1>. QED
  BY <1>1, <1>2, <1>4, <1>5, <1>6, <1>7 DEF IInv, SlotInv, ActiveInv, WaitInv, Counted

\* The count of waiters follows the callers that are counted.
LEMMA WaiterStep ==
  ASSUME IInv, NEW g \in Callers, CountWaiter(g) \/ Leave(g)
  PROVE  IInv'
<1>. USE LabelSets DEF At, Goto
<1>1. TypeOK /\ SlotInv /\ ActiveInv /\ WaitInv /\ PlaceInv
  BY DEF IInv
<1>2. UNCHANGED <<sem, active, closedCh, closed, kind, tokenDone>>
  BY DEF CountWaiter, Leave
<1>3. PICK b \in Labels :
        /\ pc' = [pc EXCEPT ![g] = b]
        /\ pc[g] \in Holding <=> b \in Holding
        /\ pc[g] \notin Inside /\ b \notin Inside
        /\ \/ CountWaiter(g) /\ pc[g] = "slow" /\ b \in {"select", "leave"}
           \/ Leave(g) /\ pc[g] \in {"leave", "leaveAdmitted"} /\ b \in {"done", "start"}
  BY <1>1 DEF CountWaiter, Leave, TypeOK
<1>4. Held' = Held /\ Occupied' = Occupied
  BY <1>1, <1>3, MoveKeeps
<1>5. Counted \in SUBSET Callers
  BY DEF Counted
<1>6. CASE CountWaiter(g)
  <2>1. ~counted[g] /\ counted' = [counted EXCEPT ![g] = TRUE] /\ waiters' = waiters + 1
    BY <1>1, <1>6 DEF CountWaiter, PlaceInv, TypeOK
  <2>2. Counted' = Counted \cup {g} /\ g \notin Counted
    BY <1>1, <2>1 DEF Counted, TypeOK
  <2>3. WaitInv' /\ waiters' \in Nat
    BY <1>1, <1>5, <2>1, <2>2, CardinalityAdd DEF WaitInv, TypeOK
  <2>4. PlaceInv'
    BY <1>1, <1>3, <1>6, <2>1 DEF PlaceInv, TypeOK, CountWaiter
  <2>5. counted' \in [Callers -> BOOLEAN]
    BY <1>1, <2>1 DEF TypeOK
  <2>6. TypeOK'
    BY <1>1, <1>2, <1>3, <2>3, <2>5 DEF TypeOK
  <2>. QED
    BY <1>1, <1>2, <1>4, <2>3, <2>4, <2>6 DEF IInv, SlotInv, ActiveInv
<1>7. CASE Leave(g)
  <2>1. counted[g] /\ counted' = [counted EXCEPT ![g] = FALSE] /\ waiters' = waiters - 1
    BY <1>1, <1>7 DEF Leave, PlaceInv, TypeOK
  <2>2. Counted' = Counted \ {g} /\ g \in Counted
    BY <1>1, <2>1 DEF Counted, TypeOK
  <2>3. WaitInv' /\ waiters' \in Nat
    BY <1>1, <1>5, <2>1, <2>2, CardinalityRemove DEF WaitInv, TypeOK
  <2>4. PlaceInv'
    BY <1>1, <1>3, <1>7, <2>1 DEF PlaceInv, TypeOK, Leave
  <2>5. counted' \in [Callers -> BOOLEAN]
    BY <1>1, <2>1 DEF TypeOK
  <2>6. TypeOK'
    BY <1>1, <1>2, <1>3, <2>3, <2>5 DEF TypeOK
  <2>. QED
    BY <1>1, <1>2, <1>4, <2>3, <2>4, <2>6 DEF IInv, SlotInv, ActiveInv
<1>. QED
  BY <1>6, <1>7

\* A receive outside the active count: give-back, refund, or the second half of
\* a release.
LEMMA ReceiveStep ==
  ASSUME IInv, NEW g \in Callers, NEW b \in Labels, Receive(g, b),
         UNCHANGED <<active, waiters, closed, closedCh, kind, counted, tokenDone>>,
         pc[g] \in Holding \ Inside, b \notin Holding,
         b = "leave" => counted[g],
         counted[g] => b = "leave",
         b \notin {"select", "blocked"}
  PROVE  IInv'
<1>. USE LabelSets
<1>1. TypeOK /\ SlotInv /\ ActiveInv /\ WaitInv /\ PlaceInv
  BY DEF IInv
<1>2. /\ sem' = Cardinality(Held')
      /\ sem' \in 0 .. MaxConcurrent
      /\ Occupied' = Occupied
      /\ pc' \in [Callers -> Labels]
      /\ pc'[g] = b
      /\ \A h \in Callers \ {g} : pc'[h] = pc[h] \/ (pc[h] = "blocked" /\ pc'[h] = "commit")
  BY <1>1, ReceiveKeepsCounts
<1>3. PlaceInv'
  BY <1>1, <1>2 DEF PlaceInv
<1>4. TypeOK'
  BY <1>1, <1>2 DEF TypeOK
<1>. QED
  BY <1>1, <1>2, <1>3, <1>4 DEF IInv, SlotInv, ActiveInv, WaitInv, Counted

LEMMA GiveBackStep ==
  ASSUME IInv, NEW g \in Callers, GiveBack(g) \/ Refund(g)
  PROVE  IInv'
<1>. USE LabelSets DEF At
<1>1. TypeOK /\ PlaceInv
  BY DEF IInv
<1>2. CASE GiveBack(g)
  BY <1>1, <1>2, ReceiveStep DEF GiveBack, Fallback, PlaceInv
<1>3. CASE Refund(g)
  BY <1>1, <1>3, ReceiveStep DEF Refund
<1>. QED
  BY <1>2, <1>3

\* The in-flight count follows the callers inside.
LEMMA ActiveStep ==
  ASSUME IInv, NEW g \in Callers, Start(g) \/ ReleaseSlot(g)
  PROVE  IInv'
<1>. USE LabelSets DEF At, Goto
<1>1. TypeOK /\ SlotInv /\ ActiveInv /\ WaitInv /\ PlaceInv
  BY DEF IInv
<1>2. CASE Start(g)
  <2>1. pc[g] = "start" /\ pc' = [pc EXCEPT ![g] = "run"] /\ active' = active + 1
    BY <1>2 DEF Start
  <2>2. UNCHANGED <<sem, waiters, closed, closedCh, kind, counted, tokenDone>>
    BY <1>2 DEF Start
  <2>3. Held' = Held /\ Cardinality(Occupied') = Cardinality(Occupied) + 1
    BY <1>1, <2>1, MoveKeeps, MoveEnters
  <2>4. PlaceInv' /\ TypeOK'
    BY <1>1, <2>1, <2>2 DEF PlaceInv, TypeOK
  <2>. QED
    BY <1>1, <2>1, <2>2, <2>3, <2>4 DEF IInv, SlotInv, ActiveInv, WaitInv, Counted
<1>3. CASE ReleaseSlot(g) /\ pc[g] = "dec"
  <2>1. pc' = [pc EXCEPT ![g] = "free"] /\ active' = active - 1
    BY <1>3 DEF ReleaseSlot, DropThenFree
  <2>2. UNCHANGED <<sem, waiters, closed, closedCh, kind, counted, tokenDone>>
    BY <1>3 DEF ReleaseSlot, DropThenFree
  <2>3. Held' = Held /\ Cardinality(Occupied') = Cardinality(Occupied) - 1
    BY <1>1, <1>3, <2>1, MoveKeeps, MoveLeaves
  <2>4. g \in Occupied /\ Occupied \in SUBSET Callers
    BY <1>3 DEF Occupied
  <2>5. Cardinality(Occupied) - 1 \in Nat
    BY <2>4, CardinalityRemove
  <2>6. PlaceInv' /\ TypeOK'
    BY <1>1, <1>3, <2>1, <2>2, <2>5 DEF PlaceInv, TypeOK, ActiveInv
  <2>. QED
    BY <1>1, <2>1, <2>2, <2>3, <2>6 DEF IInv, SlotInv, ActiveInv, WaitInv, Counted
<1>4. CASE ReleaseSlot(g) /\ pc[g] = "free"
  BY <1>1, <1>4, ReceiveStep DEF ReleaseSlot, DropThenFree, PlaceInv
<1>. QED
  BY <1>2, <1>3, <1>4 DEF ReleaseSlot, DropThenFree

LEMMA InitInv == Init => IInv
<1>. SUFFICES ASSUME Init PROVE IInv
  OBVIOUS
<1>1. Held = {} /\ Occupied = {} /\ Counted = {}
  BY LabelSets DEF Init, Held, Occupied, Counted
<1>2. /\ pc \in [Callers -> Labels]
      /\ counted \in [Callers -> BOOLEAN]
      /\ tokenDone \in [Callers -> BOOLEAN]
      /\ closed \in BOOLEAN /\ closedCh \in BOOLEAN
  BY LabelSets DEF Init
<1>3. TypeOK
  BY <1>2, LimitsAssumption DEF Init, TypeOK
<1>4. PlaceInv
  BY DEF Init, PlaceInv
<1>. QED
  BY <1>1, <1>3, <1>4, FS_EmptySet DEF Init, IInv, SlotInv, ActiveInv, WaitInv

LEMMA NextInv == IInv /\ [Next]_vars => IInv'
<1>. SUFFICES ASSUME IInv, [Next]_vars PROVE IInv'
  OBVIOUS
<1>1. CASE CloseFlag \/ CloseChannel
  <2>1. UNCHANGED <<sem, active, waiters, pc, kind, counted, tokenDone>>
    BY <1>1 DEF CloseFlag, CloseChannel
  <2>2. closed' \in BOOLEAN /\ closedCh' \in BOOLEAN
    BY <1>1 DEF CloseFlag, CloseChannel, IInv, TypeOK
  <2>. QED
    BY <2>1, <2>2
    DEF IInv, TypeOK, SlotInv, ActiveInv, WaitInv, PlaceInv, Held, Occupied, Counted
<1>2. CASE UNCHANGED vars
  BY <1>2
  DEF vars, IInv, TypeOK, SlotInv, ActiveInv, WaitInv, PlaceInv, Held, Occupied, Counted
<1>. QED
  BY <1>1, <1>2, PlainMove, SendStep, WaiterStep, GiveBackStep, ActiveStep DEF Next, Proceed

-----------------------------------------------------------------------------
(* The theorems. *)

THEOREM Accounting == Spec => []IInv
  BY InitInv, NextInv, PTL DEF Spec

\* Type correctness of the bulkhead.
THEOREM TypeCorrect == Spec => []TypeOK
<1>1. IInv => TypeOK
  BY DEF IInv
<1>. QED
  BY <1>1, Accounting, PTL

LEMMA OccupancyBound == IInv => active \in 0 .. MaxConcurrent /\ Cardinality(Occupied) = active
<1>. SUFFICES ASSUME IInv PROVE active \in 0 .. MaxConcurrent /\ Cardinality(Occupied) = active
  OBVIOUS
<1>1. Occupied \in SUBSET Held /\ IsFiniteSet(Held)
  <2>1. Held \in SUBSET Callers
    BY DEF Held
  <2>2. Occupied \in SUBSET Held
    BY LabelSets DEF Held, Occupied
  <2>. QED
    BY <2>1, <2>2, CallersAssumption, FS_Subset
<1>2. Cardinality(Occupied) <= Cardinality(Held)
  BY <1>1, FS_Subset
<1>. QED
  BY <1>2, LimitsAssumption DEF IInv, TypeOK, SlotInv, ActiveInv

LEMMA OccupancyBoundNext ==
  (IInv => active \in 0 .. MaxConcurrent /\ Cardinality(Occupied) = active)'
  BY OccupancyBound, PTL

\* Everything has its type and the in-flight count never leaves 0 .. MaxConcurrent.
THEOREM ActiveIsBounded == Spec => []ActiveBounded
<1>1. IInv => TypeOK
  BY DEF IInv
<1>2. IInv => ActiveBounded
  BY <1>1, OccupancyBound DEF ActiveBounded
<1>. QED
  BY <1>2, Accounting, PTL

\* Once every caller has gone, no slot is taken and nobody is counted.
THEOREM NothingIsLeaked == Spec => []NothingLeaks
<1>1. IInv => NothingLeaks
  <2>. SUFFICES ASSUME IInv, \A g \in Callers : pc[g] \in {"idle", "done"}
                PROVE  sem = 0 /\ active = 0 /\ waiters = 0
    BY DEF NothingLeaks
  <2>1. Held = {} /\ Occupied = {}
    BY LabelSets DEF Held, Occupied
  <2>2. Counted = {}
    BY DEF Counted, IInv, PlaceInv
  <2>. QED
    BY <2>1, <2>2, FS_EmptySet DEF IInv, SlotInv, ActiveInv, WaitInv
<1>. QED
  BY <1>1, Accounting, PTL

\* The bulkhead is a limiter of its callers.
THEOREM BulkheadIsALimiter == Spec => ImplementsLimiter
<1>1. Init => Limit!Init
  BY LabelSets DEF Init, Limit!Init, Occupied
<1>2. IInv /\ IInv' /\ [Next]_vars => [Limit!Next]_Occupied
  <2>. SUFFICES ASSUME IInv, IInv', Next, Occupied' # Occupied PROVE Limit!Next
    <3>1. UNCHANGED vars => Occupied' = Occupied
      BY DEF vars, Occupied
    <3>. QED
      BY <3>1
  <2>. USE LabelSets DEF At, Goto
  <2>1. TypeOK /\ SlotInv
    BY DEF IInv
  <2>2. Cardinality(Occupied) = active /\ Cardinality(Occupied') = active' /\ active' <= MaxConcurrent
    BY OccupancyBound, OccupancyBoundNext, LimitsAssumption
  <2>3. PICK g \in Callers : Start(g) \/ (ReleaseSlot(g) /\ pc[g] = "dec")
    <3>1. ASSUME NEW g \in Callers, NEW b \in Labels, pc' = [pc EXCEPT ![g] = b],
                 pc[g] \in Inside <=> b \in Inside
          PROVE  FALSE
      BY <2>1, <3>1, MoveKeeps
    <3>2. ASSUME NEW g \in Callers, NEW b \in Labels, Receive(g, b),
                 pc[g] \in Holding \ Inside, b \notin Holding
          PROVE  FALSE
      BY <2>1, <3>2, ReceiveKeepsCounts
    <3>3. ASSUME NEW g \in Callers, Enter(g) \/ Peek(g) \/ FastSend(g) \/ Recheck(g)
          PROVE  FALSE
      BY <3>1, <3>3 DEF Enter, Peek, FastSend, Send, Recheck, Fallback
    <3>4. ASSUME NEW g \in Callers,
                 GiveUp(g) \/ CountWaiter(g) \/ SelectSend(g) \/ Block(g) \/ SeeClosed(g)
                   \/ Leave(g) \/ FinishReserve(g)
          PROVE  FALSE
      BY <3>1, <3>4
      DEF GiveUp, CountWaiter, SelectSend, Send, Block, SeeClosed, Leave, FinishReserve
    <3>5. ASSUME NEW g \in Callers, GiveBack(g) \/ Refund(g) PROVE FALSE
      BY <3>2, <3>5 DEF GiveBack, Refund, Fallback
    <3>6. ASSUME NEW g \in Callers, ReleaseSlot(g), pc[g] # "dec" PROVE FALSE
      BY <3>2, <3>6 DEF ReleaseSlot, DropThenFree
    <3>7. ASSUME NEW g \in Callers, Complete(g) PROVE FALSE
      <4>1. pc' # pc
        BY DEF Occupied
      <4>. QED
        BY <3>1, <3>7, <4>1 DEF Complete, Finish, Release, ReleasesNow
    <3>8. CloseFlag \/ CloseChannel \/ UNCHANGED vars => FALSE
      BY DEF CloseFlag, CloseChannel, vars, Occupied
    <3>. QED
      BY <3>3, <3>4, <3>5, <3>6, <3>7, <3>8 DEF Next, Proceed
  <2>4. CASE Start(g)
    <3>1. Occupied' = Occupied \cup {g} /\ g \notin Occupied
      BY <2>1, <2>4 DEF Start, Occupied, TypeOK
    <3>2. active' = active + 1
      BY <2>4 DEF Start
    <3>3. Cardinality(Occupied) < MaxConcurrent
      BY <2>1, <2>2, <3>2, LimitsAssumption DEF TypeOK
    <3>4. Limit!Cardinality(Occupied) = Cardinality(Occupied)
      BY DEF Cardinality, Limit!Cardinality, IsFiniteSet, Limit!IsFiniteSet
    <3>5. Limit!Enter(g)
      BY <3>1, <3>3, <3>4 DEF Limit!Enter
    <3>. QED
      BY <3>5 DEF Limit!Next
  <2>5. CASE ReleaseSlot(g) /\ pc[g] = "dec"
    <3>1. Occupied' = Occupied \ {g} /\ g \in Occupied
      BY <2>1, <2>5 DEF ReleaseSlot, DropThenFree, Occupied, TypeOK
    <3>. QED
      BY <3>1 DEF Limit!Next, Limit!Leave
  <2>. QED
    BY <2>3, <2>4, <2>5
<1>. QED
  BY <1>1, <1>2, Accounting, PTL DEF Spec, ImplementsLimiter, Limit!Spec

-----------------------------------------------------------------------------
(* The fast path. *)

\* Only the second look at the count of waiters lets a caller on from there.
LEMMA OnlyRecheckCommits ==
  ASSUME TypeOK, Next, NEW g \in Callers, pc[g] = "recheck", pc'[g] = "commit"
  PROVE  waiters = 0
<1>. USE DEF At
<1>1. ASSUME NEW h \in Callers, h # g, NEW b, Goto(h, b) PROVE FALSE
  BY <1>1 DEF Goto, TypeOK
<1>2. ASSUME NEW h \in Callers, h # g, NEW b, Receive(h, b) PROVE FALSE
  <2>1. CASE Goto(h, b)
    BY <1>1, <1>2, <2>1
  <2>2. ASSUME NEW k \in Blocked, pc' = [pc EXCEPT ![h] = b, ![k] = "commit"] PROVE FALSE
    <3>1. k # g
      BY DEF Blocked
    <3>. QED
      BY <1>2, <2>2, <3>1 DEF TypeOK
  <2>. QED
    BY <1>2, <2>1, <2>2 DEF Receive
<1>3. ASSUME NEW h \in Callers, h # g, Enter(h) \/ GiveUp(h) \/ Proceed(h) \/ Complete(h)
      PROVE  FALSE
  <2>1. CASE Enter(h) \/ GiveUp(h) \/ Complete(h)
    <3>1. (\E b : Goto(h, b)) \/ pc' = pc
      BY <2>1 DEF Enter, GiveUp, Complete, Finish, Release
    <3>. QED
      BY <1>1, <1>3, <3>1
  <2>2. CASE Proceed(h)
    <3>1. (\E b : Goto(h, b)) \/ (\E b : Receive(h, b))
      BY <2>2 DEF Proceed, Peek, FastSend, Send, Recheck, GiveBack, CountWaiter, SelectSend, Block,
                  SeeClosed, Leave, FinishReserve, Refund, Start, ReleaseSlot, DropThenFree
    <3>. QED
      BY <1>1, <1>2, <1>3, <3>1
  <2>. QED
    BY <1>3, <2>1, <2>2
<1>4. ASSUME Enter(g) \/ GiveUp(g) \/ Proceed(g) \/ Complete(g) PROVE Recheck(g)
  BY <1>4 DEF Enter, GiveUp, Complete, Finish, Release, Proceed, Peek, FastSend, GiveBack,
              CountWaiter, SelectSend, Block, SeeClosed, Leave, FinishReserve, Refund, Start,
              ReleaseSlot, DropThenFree
<1>5. Recheck(g)
  <2>1. ~CloseFlag /\ ~CloseChannel /\ ~UNCHANGED vars
    BY DEF CloseFlag, CloseChannel, vars
  <2>. QED
    BY <1>3, <1>4, <2>1 DEF Next
<1>. QED
  BY <1>5 DEF Recheck, OvertakesNobody, Goto, TypeOK

\* A caller on the fast path that passes its second look leaves nobody behind who
\* was waiting when it took its slot: whoever waits is counted, and the count it
\* read is the number of those (reserve, reserveSlow).
THEOREM FastPathNeverBarges == HSpec => NeverBarges
<1>. DEFINE Passes == \A g \in Callers :
                        pc[g] = "recheck" /\ pc'[g] = "commit" => ~ \E h \in ahead[g] : Waiting(h)
            AheadInv == \A g \in Callers : ahead[g] \subseteq Callers
<1>1. HSpec => Spec
  <2>1. HInit => Init
    BY DEF HInit
  <2>2. [HNext]_hvars => [Next]_vars
    BY DEF HNext, hvars
  <2>. QED
    BY <2>1, <2>2, PTL DEF HSpec, Spec
<1>2. HSpec => []AheadInv
  <2>1. HInit => AheadInv
    BY DEF HInit
  <2>2. AheadInv /\ [HNext]_hvars => AheadInv'
    BY DEF HNext, Record, hvars
  <2>. QED
    BY <2>1, <2>2, PTL DEF HSpec
<1>3. IInv /\ AheadInv /\ [HNext]_hvars => [Passes]_hvars
  <2>. SUFFICES ASSUME IInv, AheadInv, HNext, NEW g \in Callers,
                       pc[g] = "recheck", pc'[g] = "commit", NEW h \in ahead[g], Waiting(h)
                PROVE  FALSE
    OBVIOUS
  <2>1. waiters = 0
    BY OnlyRecheckCommits DEF IInv, HNext
  <2>2. h \in Counted
    BY DEF Waiting, Counted, IInv, PlaceInv
  <2>3. IsFiniteSet(Counted)
    <3>1. Counted \in SUBSET Callers
      BY DEF Counted
    <3>. QED
      BY <3>1, CallersAssumption, FS_Subset
  <2>. QED
    BY <2>1, <2>2, <2>3, FS_EmptySet DEF IInv, WaitInv
<1>. QED
  BY <1>1, <1>2, <1>3, Accounting, PTL DEF HSpec, NeverBarges
=============================================================================
