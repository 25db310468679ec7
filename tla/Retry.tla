------------------------------- MODULE Retry -------------------------------
(***************************************************************************)
(* retryx.Do: one call.  Attempts, hooks and predicates take any time, and *)
(* the context may end at any moment.                                      *)
(***************************************************************************)
EXTENDS Integers, FiniteSets, FiniteSetsExt

CONSTANTS
  MaxAttempts,
  MaxElapsed,   \* 0: no budget of time
  Delays,       \* what backoff or the delay function may ask for
  MaxTime       \* bound on the clock

VARIABLES
  now, dead,    \* the clock, from the beginning of the call, and the context's end
  attempt,      \* attempts made, the one under way included
  aborted, failed,
  delay, wake,  \* the delay chosen, and when its timer fires
  clamped,      \* history: the budget cut the last delay short
  over,         \* history: the context had ended when the last attempt returned
  pc, answer

vars == <<now, dead, attempt, aborted, failed, delay, wake, clamped, over, pc, answer>>

Answers == {"value", "ErrCancelled", "ErrMaxElapsed", "ErrAborted", "ErrExhausted", "hookPanic"}

TypeOK ==
  /\ now \in 0 .. MaxTime /\ dead \in BOOLEAN /\ attempt \in 0 .. MaxAttempts
  /\ aborted \in BOOLEAN /\ failed \in BOOLEAN /\ delay \in Int /\ wake \in Int
  /\ clamped \in BOOLEAN /\ over \in BOOLEAN
  /\ pc \in {"top", "budget", "fn", "look", "retryIf", "hook", "delay", "arm", "sleep", "done"}
  /\ answer \in Answers \cup {"none"}

Init ==
  /\ now = 0 /\ dead = FALSE /\ attempt = 0 /\ aborted = FALSE /\ failed = FALSE
  /\ delay = 0 /\ wake = 0 /\ clamped = FALSE /\ over = FALSE /\ pc = "top" /\ answer = "none"

-----------------------------------------------------------------------------
Goto(label) == pc' = label /\ UNCHANGED answer
Answer(a)   == pc' = "done" /\ answer' = a

\* The top of the loop: the context, then the budget of time.
Top ==
  /\ pc = "top"
  /\ IF dead THEN Answer("ErrCancelled") ELSE Goto("budget")
  /\ UNCHANGED <<now, dead, attempt, aborted, failed, delay, wake, clamped, over>>

OverBudget == now > MaxElapsed                               \* mutant
Spent == now >= MaxElapsed
Budget ==
  /\ pc = "budget"
  /\ IF attempt > 0 /\ MaxElapsed > 0 /\ Spent
     THEN Answer("ErrMaxElapsed") /\ UNCHANGED <<attempt, aborted>>
     ELSE Goto("fn") /\ attempt' = attempt + 1 /\ aborted' = FALSE
  /\ UNCHANGED <<now, dead, failed, delay, wake, clamped, over>>

\* The callback; a panic is a failure.
Abort ==
  /\ pc = "fn"
  /\ aborted' = TRUE
  /\ UNCHANGED <<now, dead, attempt, failed, delay, wake, clamped, over, pc, answer>>

Succeed ==
  /\ pc = "fn"
  /\ failed' = FALSE
  /\ Answer("value")
  /\ UNCHANGED <<now, dead, attempt, aborted, delay, wake, clamped, over>>

Fail ==
  /\ pc = "fn"
  /\ failed' = TRUE /\ over' = dead
  /\ IF aborted THEN Answer("ErrAborted") ELSE Goto("look")
  /\ UNCHANGED <<now, dead, attempt, aborted, delay, wake, clamped>>

Look ==
  /\ pc = "look"
  /\ IF dead THEN Answer("ErrCancelled") ELSE Goto("retryIf")
  /\ UNCHANGED <<now, dead, attempt, aborted, failed, delay, wake, clamped, over>>

\* isRetryable, and the end of the last attempt
RetryIf ==
  /\ pc = "retryIf"
  /\ \/ Answer("ErrExhausted")
     \/ attempt < MaxAttempts /\ Goto("hook")
  /\ UNCHANGED <<now, dead, attempt, aborted, failed, delay, wake, clamped, over>>

\* fireOnRetry
Hook ==
  /\ pc = "hook"
  /\ Answer("hookPanic") \/ Goto("delay")
  /\ UNCHANGED <<now, dead, attempt, aborted, failed, delay, wake, clamped, over>>

\* delayAfter
Delay ==
  /\ pc = "delay"
  /\ \E d \in Delays :
       LET remaining == IF MaxElapsed > 0 THEN MaxElapsed - now ELSE d
       IN  /\ delay' = Min({d, remaining})
           /\ clamped' = (remaining < d)
  /\ Goto("arm")
  /\ UNCHANGED <<now, dead, attempt, aborted, failed, wake, over>>

\* sleep up to its select
Arm ==
  /\ pc = "arm"
  /\ wake' = now + delay
  /\ IF delay > 0 THEN Goto("sleep")
     ELSE IF dead THEN Answer("ErrCancelled") ELSE Goto("top")
  /\ UNCHANGED <<now, dead, attempt, aborted, failed, delay, clamped, over>>

Sleep ==
  /\ pc = "sleep"
  /\ \/ now >= wake /\ Goto("top")
     \/ dead /\ Answer("ErrCancelled")
  /\ UNCHANGED <<now, dead, attempt, aborted, failed, delay, wake, clamped, over>>

Tick ==
  /\ now < MaxTime /\ pc # "done"
  /\ now' = now + 1
  /\ UNCHANGED <<dead, attempt, aborted, failed, delay, wake, clamped, over, pc, answer>>

Cancel ==
  /\ ~dead
  /\ dead' = TRUE
  /\ UNCHANGED <<now, attempt, aborted, failed, delay, wake, clamped, over, pc, answer>>

\* The clock may stop short of the timer.
Rest == pc = "done" \/ (pc = "sleep" /\ now = MaxTime)
Stop == Rest /\ UNCHANGED vars

Next ==
  \/ Top \/ Budget \/ Abort \/ Succeed \/ Fail \/ Look \/ RetryIf \/ Hook \/ Delay \/ Arm \/ Sleep
  \/ Tick \/ Cancel \/ Stop

Spec == Init /\ [][Next]_vars

-----------------------------------------------------------------------------
(* Properties. *)

\* A delay that the budget cut short is the last: whatever time the steps between
\* take, no attempt follows it (delayAfter, sleep, the top of Do's loop).
ClampedIsLast == clamped => attempt' = attempt
NoAttemptAfterClamp == [][ClampedIsLast]_vars

\* The sentinel says why the loop ended, as the comment on Do explains them; but of the
\* live context it speaks of with ErrExhausted, only that it was live when the last attempt
\* returned: it may end while the predicate of WithRetryIf looks at the error.
ReasonTrue ==
  /\ answer = "value" => ~failed
  /\ answer = "ErrCancelled" => dead
  /\ answer = "ErrMaxElapsed" => failed /\ attempt < MaxAttempts /\ Spent
  /\ answer = "ErrAborted" => failed /\ aborted
  /\ answer = "ErrExhausted" => failed /\ ~aborted /\ ~over
=============================================================================
