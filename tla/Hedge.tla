------------------------------- MODULE Hedge -------------------------------
(***************************************************************************)
(* hedgex: one call of Execute or ExecuteMulti.  The dispatch loop starts  *)
(* copies of a request one after the other and selects between the end of  *)
(* the context, their results and a timer; each copy sends its result into *)
(* a channel with room for all of them.                                    *)
(***************************************************************************)
EXTENDS Integers, Sequences, FiniteSets, FiniteSetsExt

CONSTANT Entries     \* number of entries of fns, after it was cut to MaxParallel

VARIABLES
  given,       \* the entries that are not nil
  ctxDead,     \* the caller's context has ended
  answer,      \* "idle", "inline", "waiting", or how the call returned
  next, attempt, pending,
  timer,       \* timerCh is not nil
  failed,      \* firstErr is not nil
  copy,        \* step of each copy
  outcome,     \* how the callback of each copy ended
  ch,          \* resultCh
  reaped       \* history: the copies whose result dispatch has taken, in order

vars == <<given, ctxDead, answer, next, attempt, pending, timer, failed, copy, outcome, ch, reaped>>

Copies   == 1 .. Entries
Answers  == {"value", "cancelled", "allFailed", "nilFunc"}
Outcomes == {"success", "failure", "withdrawn"}
Steps    == {"off", "running", "sending", "sent", "dropped"}

TypeOK ==
  /\ given \subseteq Copies /\ ctxDead \in BOOLEAN
  /\ answer \in Answers \cup {"idle", "inline", "waiting"}
  /\ next \in 1 .. Entries + 1 /\ attempt \in 0 .. Entries /\ pending \in 0 .. Entries
  /\ timer \in BOOLEAN /\ failed \in BOOLEAN
  /\ copy \in [Copies -> Steps] /\ outcome \in [Copies -> Outcomes \cup {"none"}]
  /\ ch \in Seq(Copies) /\ reaped \in Seq(Copies)

Init ==
  /\ given \in SUBSET Copies
  /\ ctxDead = FALSE /\ answer = "idle"
  /\ next = 1 /\ attempt = 0 /\ pending = 0
  /\ timer = FALSE /\ failed = FALSE
  /\ copy = [c \in Copies |-> "off"] /\ outcome = [c \in Copies |-> "none"]
  /\ ch = <<>> /\ reaped = <<>>

Backends == Cardinality(given)

-----------------------------------------------------------------------------
(* The dispatch loop. *)

\* Execute and ExecuteMulti before the loop.  A single backend, or a call that is
\* not to be hedged, runs inline.
Refuse ==
  /\ answer = "idle"
  /\ \/ given = {} /\ answer' = "nilFunc"
     \/ given # {} /\ ctxDead /\ answer' = "cancelled"
  /\ UNCHANGED <<given, ctxDead, next, attempt, pending, timer, failed, copy, outcome, ch, reaped>>

RunInline ==
  /\ answer = "idle" /\ given # {} /\ ~ctxDead
  /\ answer' = "inline"
  /\ copy' = [copy EXCEPT ![Min(given)] = "running"]
  /\ UNCHANGED <<given, ctxDead, next, attempt, pending, timer, failed, outcome, ch, reaped>>

\* runSync
EndInline(c) ==
  /\ answer = "inline" /\ copy[c] = "running"
  /\ \E how \in Outcomes :
       /\ outcome' = [outcome EXCEPT ![c] = how]
       /\ answer' = IF how = "success" THEN "value" ELSE "allFailed"
  /\ copy' = [copy EXCEPT ![c] = "sent"]
  /\ reaped' = <<c>>
  /\ UNCHANGED <<given, ctxDead, next, attempt, pending, timer, failed, ch>>

\* launchNext and armTimer: the first entry at or after next that is not nil.
Left == {c \in given : c >= next}
Launch ==
  /\ copy' = [copy EXCEPT ![Min(Left)] = "running"]
  /\ next' = Min(Left) + 1
  /\ attempt' = attempt + 1
  /\ timer' = (attempt' < Backends)

Dispatch ==
  /\ answer = "idle" /\ Backends > 1 /\ ~ctxDead
  /\ Launch
  /\ pending' = 1
  /\ answer' = "waiting"
  /\ UNCHANGED <<given, ctxDead, failed, outcome, ch, reaped>>

SeeCancelled ==
  /\ answer = "waiting" /\ ctxDead
  /\ answer' = "cancelled"
  /\ UNCHANGED <<given, ctxDead, next, attempt, pending, timer, failed, copy, outcome, ch, reaped>>

TimerFires ==
  /\ answer = "waiting" /\ timer /\ Left # {}
  /\ Launch
  /\ pending' = pending + 1
  /\ UNCHANGED <<given, ctxDead, answer, failed, outcome, ch, reaped>>

\* consumeResult
Consume ==
  /\ answer = "waiting" /\ ch # <<>>
  /\ ch' = Tail(ch)
  /\ reaped' = Append(reaped, Head(ch))
  /\ failed' = (failed \/ outcome[Head(ch)] = "failure")

ConsumeSuccess ==
  /\ Consume
  /\ outcome[Head(ch)] = "success"
  /\ pending' = pending - 1
  /\ answer' = "value"
  /\ UNCHANGED <<given, ctxDead, next, attempt, timer, copy, outcome>>

ConsumeFailure ==
  /\ Consume
  /\ outcome[Head(ch)] # "success"
  /\ pending > 1
  /\ pending' = pending - 1
  /\ UNCHANGED <<given, ctxDead, answer, next, attempt, timer, copy, outcome>>

\* relaunchAfterFailure, when no copy is in flight any more
Relaunch ==
  /\ Consume
  /\ outcome[Head(ch)] # "success"
  /\ pending = 1 /\ Left # {}
  /\ Launch
  /\ UNCHANGED <<given, ctxDead, answer, pending, outcome>>

LooksAtNext == next >= Entries                           \* mutant
NothingLeft == Left = {}

GiveUp ==
  /\ Consume
  /\ outcome[Head(ch)] # "success"
  /\ pending = 1 /\ NothingLeft
  /\ pending' = 0
  /\ answer' = "allFailed"
  /\ UNCHANGED <<given, ctxDead, next, attempt, timer, copy, outcome>>

-----------------------------------------------------------------------------
(* The copies and the caller. *)

\* run: the callback of a copy returns, fails, panics, or has withdrawn it.
Return(c) ==
  /\ answer # "inline" /\ copy[c] = "running"
  /\ \E how \in Outcomes : outcome' = [outcome EXCEPT ![c] = how]
  /\ copy' = [copy EXCEPT ![c] = "sending"]
  /\ UNCHANGED <<given, ctxDead, answer, next, attempt, pending, timer, failed, ch, reaped>>

Send(c) ==
  /\ copy[c] = "sending" /\ Len(ch) < Backends
  /\ ch' = Append(ch, c)
  /\ copy' = [copy EXCEPT ![c] = "sent"]
  /\ UNCHANGED <<given, ctxDead, answer, next, attempt, pending, timer, failed, outcome, reaped>>

\* hedgeCtx ends with the caller's context and when dispatch returns, and not
\* because a copy was withdrawn.
HedgeDead == ctxDead \/ answer \in Answers

Drop(c) ==
  /\ copy[c] = "sending" /\ HedgeDead
  /\ copy' = [copy EXCEPT ![c] = "dropped"]
  /\ UNCHANGED <<given, ctxDead, answer, next, attempt, pending, timer, failed, outcome, ch, reaped>>

Cancel ==
  /\ ~ctxDead
  /\ ctxDead' = TRUE
  /\ UNCHANGED <<given, answer, next, attempt, pending, timer, failed, copy, outcome, ch, reaped>>

Quiet == answer \in Answers /\ \A c \in Copies : copy[c] \in {"off", "sent", "dropped"}
Rest  == Quiet /\ UNCHANGED vars

Next ==
  \/ Refuse \/ RunInline \/ Dispatch \/ SeeCancelled \/ TimerFires
  \/ ConsumeSuccess \/ ConsumeFailure \/ Relaunch \/ GiveUp
  \/ \E c \in Copies : EndInline(c) \/ Return(c) \/ Send(c) \/ Drop(c)
  \/ Cancel \/ Rest

Spec == Init /\ [][Next]_vars

-----------------------------------------------------------------------------
(* Properties. *)

\* While the call waits somebody owes it an answer: pending counts the copies
\* whose result has not been taken and is never 0, and none of these results is
\* lost unless the context has ended, so the select cannot be left with nothing
\* to wait for (dispatch, relaunchAfterFailure, run).
Launched == {c \in Copies : copy[c] # "off"}
OwesAnswer ==
  answer = "waiting" =>
    /\ pending > 0
    /\ pending = Cardinality(Launched) - Len(reaped)
    /\ (\E c \in Copies : copy[c] = "dropped") => ctxDead

\* ErrAllFailed means that every entry was started, unless the call ran inline,
\* and none that started succeeded; a value is that of the only success taken
\* (consumeResult, relaunchAfterFailure).
AnswersTrue ==
  /\ answer = "allFailed" =>
       /\ Launched = given \/ (attempt = 0 /\ Cardinality(Launched) = 1)
       /\ \A c \in Launched : outcome[c] \in {"failure", "withdrawn"}
  /\ answer = "value" =>
       \A i \in 1 .. Len(reaped) : (outcome[reaped[i]] = "success") <=> (i = Len(reaped))
=============================================================================
