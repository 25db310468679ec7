------------------------------- MODULE Group -------------------------------
(***************************************************************************)
(* syncx.Group: an owner starts tasks and waits for them; a running task   *)
(* may start others.  Without a limit Go never blocks; with one, tasks use *)
(* TryGo, as the comment on Go demands.                                    *)
(***************************************************************************)
EXTENDS Integers, FiniteSets

CONSTANTS Tasks, Owner, None, MaxLimit

VARIABLES
  limit,      \* 0: no semaphore
  sem, wg,
  once,       \* "fresh", "busy" or "over"
  err, cancelled,
  wants,      \* the task an actor is blocked on in Go, or None
  state,      \* of each task
  failed,     \* tasks that returned an error or panicked
  owner       \* "starting", "waiting" or "returned"

vars == <<limit, sem, wg, once, err, cancelled, wants, state, failed, owner>>

States == {"new", "asked", "refused", "running", "failing", "cancelling", "leaving", "freed", "gone"}
Started == {t \in Tasks : state[t] \notin {"new", "asked", "refused"}}

TypeOK ==
  /\ limit \in 0 .. MaxLimit /\ sem \in 0 .. limit /\ wg \in 0 .. Cardinality(Tasks)
  /\ once \in {"fresh", "busy", "over"} /\ err \in Tasks \cup {None} /\ cancelled \in BOOLEAN
  /\ wants \in [Tasks \cup {Owner} -> Tasks \cup {None}]
  /\ state \in [Tasks -> States] /\ failed \subseteq Tasks
  /\ owner \in {"starting", "waiting", "returned"}

Init ==
  /\ limit \in 0 .. MaxLimit
  /\ sem = 0 /\ wg = 0 /\ once = "fresh" /\ err = None /\ cancelled = FALSE
  /\ wants = [a \in Tasks \cup {Owner} |-> None]
  /\ state = [t \in Tasks |-> "new"] /\ failed = {}
  /\ owner = "starting"

-----------------------------------------------------------------------------
\* The owner before Wait, and a task that runs, if not blocked in Go.
Free(a) ==
  /\ wants[a] = None
  /\ IF a = Owner THEN owner = "starting" ELSE state[a] = "running"

Becomes(t, s) == state' = [state EXCEPT ![t] = s]

\* launch
Room == limit = 0 \/ sem < limit
Launch(t) ==
  /\ sem' = IF limit = 0 THEN 0 ELSE sem + 1
  /\ wg' = wg + 1
  /\ Becomes(t, "running")

Go(a, t) ==
  /\ Free(a) /\ state[t] = "new"
  /\ a = Owner \/ limit = 0
  /\ wants' = [wants EXCEPT ![a] = t]
  /\ Becomes(t, "asked")
  /\ UNCHANGED <<limit, sem, wg, once, err, cancelled, failed, owner>>

GetSlot(a) ==
  /\ wants[a] # None /\ Room
  /\ Launch(wants[a])
  /\ wants' = [wants EXCEPT ![a] = None]
  /\ UNCHANGED <<limit, once, err, cancelled, failed, owner>>

TryGo(a, t) ==
  /\ Free(a) /\ state[t] = "new"
  /\ \/ Room /\ Launch(t)
     \/ ~Room /\ Becomes(t, "refused") /\ UNCHANGED <<sem, wg>>
  /\ UNCHANGED <<limit, once, err, cancelled, wants, failed, owner>>

-----------------------------------------------------------------------------
(* The goroutine of a task. *)

Return(t) ==
  /\ state[t] = "running" /\ wants[t] = None
  /\ \/ Becomes(t, "leaving") /\ UNCHANGED failed
     \/ Becomes(t, "failing") /\ failed' = failed \cup {t}
  /\ UNCHANGED <<limit, sem, wg, once, err, cancelled, wants, owner>>

\* once.Do: the first failure runs the function, the others wait for its end.
FirstFailure(t) ==
  /\ state[t] = "failing" /\ once = "fresh"
  /\ once' = "busy" /\ err' = t
  /\ Becomes(t, "cancelling")
  /\ UNCHANGED <<limit, sem, wg, cancelled, wants, failed, owner>>

CancelSiblings(t) ==
  /\ state[t] = "cancelling"
  /\ cancelled' = TRUE /\ once' = "over"
  /\ Becomes(t, "leaving")
  /\ UNCHANGED <<limit, sem, wg, err, wants, failed, owner>>

OnceTaken == once # "fresh"                                  \* mutant
OnceOver  == once = "over"
LaterFailure(t) ==
  /\ state[t] = "failing" /\ OnceOver
  /\ Becomes(t, "leaving")
  /\ UNCHANGED <<limit, sem, wg, once, err, cancelled, wants, failed, owner>>

\* The deferred calls, last one first.
FreeSlot(t) ==
  /\ state[t] = "leaving"
  /\ sem' = IF limit = 0 THEN 0 ELSE sem - 1
  /\ Becomes(t, "freed")
  /\ UNCHANGED <<limit, wg, once, err, cancelled, wants, failed, owner>>

Done(t) ==
  /\ state[t] = "freed"
  /\ wg' = wg - 1
  /\ Becomes(t, "gone")
  /\ UNCHANGED <<limit, sem, once, err, cancelled, wants, failed, owner>>

-----------------------------------------------------------------------------
Wait ==
  /\ Free(Owner)
  /\ owner' = "waiting"
  /\ UNCHANGED <<limit, sem, wg, once, err, cancelled, wants, state, failed>>

WaitReturns ==
  /\ owner = "waiting" /\ wg = 0
  /\ cancelled' = TRUE
  /\ owner' = "returned"
  /\ UNCHANGED <<limit, sem, wg, once, err, wants, state, failed>>

Rest == owner = "returned" /\ UNCHANGED vars

Next ==
  \/ \E a \in Tasks \cup {Owner} : GetSlot(a) \/ \E t \in Tasks : Go(a, t) \/ TryGo(a, t)
  \/ \E t \in Tasks :
       \/ Return(t) \/ FirstFailure(t) \/ CancelSiblings(t) \/ LaterFailure(t)
       \/ FreeSlot(t) \/ Done(t)
  \/ Wait \/ WaitReturns \/ Rest

Spec == Init /\ [][Next]_vars

-----------------------------------------------------------------------------
(* Properties. *)

\* When Wait has returned every task that was started is gone, those started by
\* tasks included, and the error is nil only if none failed (launch, Wait).
WaitCoversAll ==
  owner = "returned" =>
    /\ \A t \in Started : state[t] = "gone"
    /\ IF failed = {} THEN err = None ELSE err \in failed

\* The limit holds, and nobody who gets the slot of a task that failed finds the
\* context alive: the slot is given back after the cancellation, by the failures
\* that came second too (once.Do before the deferred calls of launch).
SlotsAfterCancel ==
  /\ limit > 0 => Cardinality({t \in Started : state[t] \notin {"freed", "gone"}}) <= limit
  /\ (\E t \in failed : state[t] \in {"leaving", "freed", "gone"}) => cancelled
=============================================================================
