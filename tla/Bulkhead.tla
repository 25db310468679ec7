------------------------------ MODULE Bulkhead ------------------------------
(***************************************************************************)
(* bulkx.Bulkhead: a buffered channel as a semaphore, an in-flight count   *)
(* kept beside it, and a count of waiters that keeps the fast path from    *)
(* overtaking the slow one.  Each action is one atomic access or one       *)
(* channel operation.                                                      *)
(*                                                                         *)
(* A receive from a full channel hands the freed place to a sender that is *)
(* blocked on it, if there is one; the language leaves open to which.      *)
(* Contexts and timers may expire at any time, so a check of ctx.Err() is  *)
(* a free choice: every path that sees an expired context gives up.        *)
(***************************************************************************)
EXTENDS Naturals, FiniteSets

CONSTANTS
  Callers,         \* goroutines that make one call each
  MaxConcurrent,   \* WithMaxConcurrent, the capacity of sem
  MaxWaiters       \* WithMaxWaiters; 0 is no cap

ASSUME CallersAssumption == IsFiniteSet(Callers)
ASSUME LimitsAssumption == MaxConcurrent \in Nat \ {0} /\ MaxWaiters \in Nat

VARIABLES
  sem,        \* len(Bulkhead.sem)
  active,     \* Bulkhead.active
  waiters,    \* Bulkhead.waiters
  closed,     \* Bulkhead.closed
  closedCh,   \* Bulkhead.closedCh is closed
  pc,         \* next step of each caller
  kind,       \* which entry point a caller used
  counted,    \* the caller is between waiters.Add(1) and waiters.Add(-1)
  tokenDone   \* Token.done of the token an Acquire returned

vars == <<sem, active, waiters, closed, closedCh, pc, kind, counted, tokenDone>>

Kinds == {"Execute", "TryExecute", "Acquire"}

\* Where a caller holds a place in sem, and where it is counted in active.
Inside  == {"run", "dec"}
Holding == Inside \cup {"recheck", "giveBack", "commit", "refund", "leaveAdmitted",
                        "start", "free"}
Labels  == Holding \cup {"idle", "peek", "send", "slow", "select", "blocked", "leave", "done"}

TypeOK ==
  /\ sem \in 0 .. MaxConcurrent
  /\ active \in Nat
  /\ waiters \in Nat
  /\ closed \in BOOLEAN
  /\ closedCh \in BOOLEAN
  /\ pc \in [Callers -> Labels]
  /\ kind \in [Callers -> Kinds]
  /\ counted \in [Callers -> BOOLEAN]
  /\ tokenDone \in [Callers -> BOOLEAN]

Init ==
  /\ sem = 0
  /\ active = 0
  /\ waiters = 0
  /\ closed = FALSE
  /\ closedCh = FALSE
  /\ pc = [g \in Callers |-> "idle"]
  /\ kind \in [Callers -> Kinds]
  /\ counted = [g \in Callers |-> FALSE]
  /\ tokenDone = [g \in Callers |-> FALSE]

Goto(g, label) == pc' = [pc EXCEPT ![g] = label]
At(g, label)   == pc[g] = label

\* sem <- struct{}{}, where the buffer has room.
RoomOffByOne == sem <= MaxConcurrent                     \* mutant
Room == sem < MaxConcurrent

Send(g, next) ==
  /\ Room
  /\ sem' = sem + 1
  /\ Goto(g, next)

Blocked == {h \in Callers : pc[h] = "blocked"}

\* <-sem by g: a blocked sender takes over the place, or the buffer shrinks.
Receive(g, next) ==
  \/ /\ Blocked = {}
     /\ sem > 0
     /\ sem' = sem - 1
     /\ Goto(g, next)
  \/ \E h \in Blocked :
       /\ pc' = [pc EXCEPT ![g] = next, ![h] = "commit"]
       /\ UNCHANGED sem

-----------------------------------------------------------------------------
(* Execute, TryExecute, Acquire: closed and cancelled are checked first. *)
Enter(g) ==
  /\ At(g, "idle")
  /\ \E ctxDone \in BOOLEAN : Goto(g, IF closed \/ ctxDone THEN "done" ELSE "peek")
  /\ UNCHANGED <<sem, active, waiters, closed, closedCh, kind, counted, tokenDone>>

\* Where the fast path ends for a caller it turned away.
Fallback(g) == IF kind[g] = "TryExecute" THEN "done" ELSE "slow"

Peek(g) ==
  /\ At(g, "peek")
  /\ Goto(g, IF waiters = 0 THEN "send" ELSE Fallback(g))
  /\ UNCHANGED <<sem, active, waiters, closed, closedCh, kind, counted, tokenDone>>

FastSend(g) ==
  /\ At(g, "send")
  /\ \/ Send(g, "recheck")
     \/ ~Room /\ Goto(g, Fallback(g)) /\ UNCHANGED sem
  /\ UNCHANGED <<active, waiters, closed, closedCh, kind, counted, tokenDone>>

OvertakesNobodyUnchecked == TRUE                         \* mutant
OvertakesNobody == waiters = 0

Recheck(g) ==
  /\ At(g, "recheck")
  /\ Goto(g, IF OvertakesNobody THEN "commit" ELSE "giveBack")
  /\ UNCHANGED <<sem, active, waiters, closed, closedCh, kind, counted, tokenDone>>

GiveBack(g) ==
  /\ At(g, "giveBack")
  /\ Receive(g, Fallback(g))
  /\ UNCHANGED <<active, waiters, closed, closedCh, kind, counted, tokenDone>>

(* reserveSlow *)
WaiterAdmitted == MaxWaiters = 0 \/ waiters + 1 <= MaxWaiters

CountWaiter(g) ==
  /\ At(g, "slow")
  /\ waiters' = waiters + 1
  /\ counted' = [counted EXCEPT ![g] = TRUE]
  /\ Goto(g, IF WaiterAdmitted THEN "select" ELSE "leave")
  /\ UNCHANGED <<sem, active, closed, closedCh, kind, tokenDone>>

\* The select finds room at once, or blocks: only if no case is ready.
SelectSend(g) ==
  /\ At(g, "select")
  /\ Send(g, "commit")
  /\ UNCHANGED <<active, waiters, closed, closedCh, kind, counted, tokenDone>>

Block(g) ==
  /\ At(g, "select")
  /\ ~Room
  /\ ~closedCh
  /\ Goto(g, "blocked")
  /\ UNCHANGED <<sem, active, waiters, closed, closedCh, kind, counted, tokenDone>>

\* ctx.Done() or the timer.
GiveUp(g) ==
  /\ pc[g] \in {"select", "blocked"}
  /\ Goto(g, "leave")
  /\ UNCHANGED <<sem, active, waiters, closed, closedCh, kind, counted, tokenDone>>

SeeClosed(g) ==
  /\ pc[g] \in {"select", "blocked"}
  /\ closedCh
  /\ Goto(g, "leave")
  /\ UNCHANGED <<sem, active, waiters, closed, closedCh, kind, counted, tokenDone>>

\* The deferred waiters.Add(-1).
Leave(g) ==
  /\ At(g, "leave") \/ At(g, "leaveAdmitted")
  /\ waiters' = waiters - 1
  /\ counted' = [counted EXCEPT ![g] = FALSE]
  /\ Goto(g, IF At(g, "leave") THEN "done" ELSE "start")
  /\ UNCHANGED <<sem, active, closed, closedCh, kind, tokenDone>>

(* finishReserve: closed, then ctx; either refunds the slot. *)
FinishReserve(g) ==
  /\ At(g, "commit")
  /\ \/ Goto(g, "refund")
     \/ ~closed /\ Goto(g, IF counted[g] THEN "leaveAdmitted" ELSE "start")
  /\ UNCHANGED <<sem, active, waiters, closed, closedCh, kind, counted, tokenDone>>

RefundForgotten(g) ==                                    \* mutant
  /\ At(g, "refund")
  /\ Goto(g, IF counted[g] THEN "leave" ELSE "done")
  /\ UNCHANGED <<sem, active, waiters, closed, closedCh, kind, counted, tokenDone>>

Refund(g) ==
  /\ At(g, "refund")
  /\ Receive(g, IF counted[g] THEN "leave" ELSE "done")
  /\ UNCHANGED <<active, waiters, closed, closedCh, kind, counted, tokenDone>>

-----------------------------------------------------------------------------
(* run, or the token's life: the callback, the panic and the return of an
   Execute are one step, as is the first Release of an Acquire. *)
Start(g) ==
  /\ At(g, "start")
  /\ active' = active + 1
  /\ Goto(g, "run")
  /\ UNCHANGED <<sem, waiters, closed, closedCh, kind, counted, tokenDone>>

Finish(g) ==
  /\ At(g, "run")
  /\ kind[g] # "Acquire"
  /\ Goto(g, "dec")
  /\ UNCHANGED <<sem, active, waiters, closed, closedCh, kind, counted, tokenDone>>

\* Release may be called again and again; only the first CAS succeeds.
ReleasesNow(g) == ~tokenDone[g]

Release(g) ==
  /\ kind[g] = "Acquire"
  /\ At(g, "run") \/ (At(g, "done") /\ tokenDone[g])
  /\ IF ReleasesNow(g)
       THEN tokenDone' = [tokenDone EXCEPT ![g] = TRUE] /\ Goto(g, "dec")
       ELSE UNCHANGED <<tokenDone, pc>>
  /\ UNCHANGED <<sem, active, waiters, closed, closedCh, kind, counted>>

(* releaseSlot: the count first, then the semaphore. *)
FreeThenDrop(g) ==                                 \* mutant
  \/ /\ At(g, "dec")
     /\ Receive(g, "free")
     /\ UNCHANGED active
  \/ /\ At(g, "free")
     /\ active' = active - 1
     /\ Goto(g, "done")
     /\ UNCHANGED sem

DropThenFree(g) ==
  \/ /\ At(g, "dec")
     /\ active' = active - 1
     /\ Goto(g, "free")
     /\ UNCHANGED sem
  \/ /\ At(g, "free")
     /\ Receive(g, "done")
     /\ UNCHANGED active

ReleaseSlot(g) ==
  /\ DropThenFree(g)
  /\ UNCHANGED <<waiters, closed, closedCh, kind, counted, tokenDone>>

(* Close: the flag, then the channel, once. *)
CloseFlag ==
  /\ ~closed
  /\ closed' = TRUE
  /\ UNCHANGED <<sem, active, waiters, closedCh, pc, kind, counted, tokenDone>>

CloseChannelNever == FALSE /\ UNCHANGED vars             \* mutant
CloseChannel ==
  /\ closed /\ ~closedCh
  /\ closedCh' = TRUE
  /\ UNCHANGED <<sem, active, waiters, closed, pc, kind, counted, tokenDone>>

-----------------------------------------------------------------------------
\* What a caller goes on to do by itself once it is in the package.
Proceed(g) ==
  \/ Peek(g) \/ FastSend(g) \/ Recheck(g) \/ GiveBack(g)
  \/ CountWaiter(g) \/ SelectSend(g) \/ Block(g) \/ SeeClosed(g) \/ Leave(g)
  \/ FinishReserve(g) \/ Refund(g)
  \/ Start(g) \/ ReleaseSlot(g)

\* What its owner does: callbacks return and tokens are released.
Complete(g) == Finish(g) \/ Release(g)

Next ==
  \/ \E g \in Callers : Enter(g) \/ GiveUp(g) \/ Proceed(g) \/ Complete(g)
  \/ CloseFlag \/ CloseChannel
  \/ (\A g \in Callers : pc[g] = "done") /\ UNCHANGED vars

Spec == Init /\ [][Next]_vars

\* Callers in the package run on and a Close that began goes on.  Nobody has
\* to call, to close, to time out, or even to give a slot back.
Progress == (\A g \in Callers : WF_vars(Proceed(g))) /\ WF_vars(CloseChannel)

\* Callbacks return and tokens are released.
SlotsComeBack == \A g \in Callers : WF_vars(Complete(g) /\ pc' # pc)

-----------------------------------------------------------------------------
(* Properties. *)

\* Everything has its type, and Active never exceeds the bound, not even between
\* the two halves of a release, and never goes below zero (run, releaseSlot).
ActiveBounded == TypeOK /\ active \in 0 .. MaxConcurrent

\* With every caller gone all slots are free and nobody is counted: no refund,
\* give-back, timeout or second Release loses or invents one.
NothingLeaks ==
  (\A g \in Callers : pc[g] \in {"idle", "done"}) => sem = 0 /\ active = 0 /\ waiters = 0

\* The callers counted in active are the users of a limiter.
Occupied == {g \in Callers : pc[g] \in Inside}
Limit == INSTANCE Limiter WITH Users <- Callers, Limit <- MaxConcurrent, inside <- Occupied
ImplementsLimiter == Limit!Spec

\* A waiter gets a slot or an answer without waiting for its timer, however
\* the fast path and other waiters compete, as long as slots are given back.
WaitersServed ==
  SlotsComeBack =>
    \A g \in Callers : pc[g] = "blocked" ~> pc[g] \notin {"select", "blocked"}

\* Close releases everyone who waits, though no slot is ever given back.
CloseReleasesWaiters == closed ~> \A g \in Callers : pc[g] # "blocked"
=============================================================================
