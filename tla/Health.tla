------------------------------- MODULE Health -------------------------------
(***************************************************************************)
(* healthx.Checker: one call of Readiness.  Checks run concurrently, each  *)
(* under its own deadline, and send their results into a channel with room *)
(* for all; the collector has a deadline of its own.                       *)
(***************************************************************************)
EXTENDS Integers, Sequences, FiniteSets

CONSTANTS Registered,  \* checks are 1 .. Registered
          Name         \* the name of each

Checks == 1 .. Registered
Names  == {Name[c] : c \in Checks}

VARIABLES
  down,      \* MarkDown
  expired,   \* the collection deadline has passed
  overdue,   \* checks whose own deadline has passed
  dropped,   \* the caller's context was cancelled
  step,      \* of each check
  result,    \* how each check ended
  results,   \* the channel
  components,
  pc,        \* of the call
  report,
  onTime     \* history: names in the channel or taken when the deadline was seen

vars == <<down, expired, overdue, dropped, step, result, results, components, pc, report, onTime>>

Bad     == {"unhealthy", "timeout"}
Results == {"up"} \cup Bad
Overall == {"none", "up", "down"}

TypeOK ==
  /\ down \in BOOLEAN /\ expired \in BOOLEAN /\ dropped \in BOOLEAN /\ overdue \subseteq Checks
  /\ step \in [Checks -> {"off", "running", "sending", "sent"}]
  /\ result \in [Checks -> Results \cup {"none"}]
  /\ results \in Seq(Checks) /\ Len(results) <= Registered
  /\ components \in [Names -> Results \cup {"none"}]
  /\ pc \in {"idle", "collect", "drain", "fill", "judge", "done"}
  /\ report \in Overall /\ onTime \subseteq Names

Init ==
  /\ down = FALSE /\ expired = FALSE /\ dropped = FALSE /\ overdue = {}
  /\ step = [c \in Checks |-> "off"] /\ result = [c \in Checks |-> "none"]
  /\ results = <<>> /\ components = [n \in Names |-> "none"]
  /\ pc = "idle" /\ report = "none" /\ onTime = {}

-----------------------------------------------------------------------------
(* A check. *)

\* runOne: the error of a check that overran its own deadline is a timeout.
Verdict(c, how) ==
  IF how = "ok" THEN "up" ELSE IF c \in overdue THEN "timeout" ELSE "unhealthy"
EndCheck(c) ==
  /\ step[c] = "running"
  /\ \E how \in {"ok", "fails"} : result' = [result EXCEPT ![c] = Verdict(c, how)]
  /\ step' = [step EXCEPT ![c] = "sending"]
  /\ UNCHANGED <<down, expired, overdue, dropped, results, components, pc, report, onTime>>

Send(c) ==
  /\ step[c] = "sending" /\ Len(results) < Registered
  /\ results' = Append(results, c)
  /\ step' = [step EXCEPT ![c] = "sent"]
  /\ UNCHANGED <<down, expired, overdue, dropped, result, components, pc, report, onTime>>

-----------------------------------------------------------------------------
(* Readiness and runChecks. *)

Begin ==
  /\ pc = "idle"
  /\ \/ /\ down
        /\ report' = "down" /\ pc' = "done"
        /\ UNCHANGED step
     \/ /\ ~down
        /\ step' = [c \in Checks |-> "running"]
        /\ pc' = "collect"
        /\ UNCHANGED report
  /\ UNCHANGED <<down, expired, overdue, dropped, result, results, components, onTime>>

Taken == Cardinality({c \in Checks : step[c] = "sent"}) - Len(results)

\* The first result in the channel is recorded under its name.
Record ==
  /\ results # <<>>
  /\ components' = [components EXCEPT ![Name[Head(results)]] = result[Head(results)]]
  /\ results' = Tail(results)

Collect ==
  /\ pc = "collect"
  /\ Record
  /\ pc' = IF Taken + 1 = Registered THEN "judge" ELSE "collect"
  /\ UNCHANGED <<down, expired, overdue, dropped, step, result, report, onTime>>

\* The select may take the deadline while results wait in the channel.
SeeDeadline ==
  /\ pc = "collect" /\ expired
  /\ pc' = "drain"
  /\ onTime' = {Name[c] : c \in {d \in Checks : step[d] = "sent"}}
  /\ UNCHANGED <<down, expired, overdue, dropped, step, result, results, components, report>>

\* drainCheckResults
Drain ==
  /\ pc = "drain"
  /\ Record
  /\ UNCHANGED <<down, expired, overdue, dropped, step, result, pc, report, onTime>>

DrainsNothing == TRUE                                        \* mutant
Drained == results = <<>>
EndDrain ==
  /\ pc = "drain" /\ Drained
  /\ pc' = "fill"
  /\ UNCHANGED <<down, expired, overdue, dropped, step, result, results, components, report, onTime>>

\* fillTimedOut
Fill ==
  /\ pc = "fill"
  /\ components' = [n \in Names |-> IF components[n] = "none" THEN "timeout" ELSE components[n]]
  /\ pc' = "judge"
  /\ UNCHANGED <<down, expired, overdue, dropped, step, result, results, report, onTime>>

Judge ==
  /\ pc = "judge"
  /\ report' = IF \E n \in Names : components[n] \in Bad THEN "down" ELSE "up"
  /\ pc' = "done"
  /\ UNCHANGED <<down, expired, overdue, dropped, step, result, results, components, onTime>>

-----------------------------------------------------------------------------
(* Surroundings. *)

MarkDown == down' = ~down /\ UNCHANGED <<expired, overdue, dropped, step, result, results,
                                         components, pc, report, onTime>>

\* The collector's timer is not tied to those of the checks, which begin when their
\* goroutines do.
Deadline ==
  /\ pc = "collect" /\ ~expired
  /\ expired' = TRUE
  /\ UNCHANGED <<down, overdue, dropped, step, result, results, components, pc, report, onTime>>

Overdue(c) ==
  /\ step[c] = "running" /\ ~dropped
  /\ overdue' = overdue \cup {c}
  /\ UNCHANGED <<down, expired, dropped, step, result, results, components, pc, report, onTime>>

CallerLeaves ==
  /\ ~dropped
  /\ dropped' = TRUE
  /\ UNCHANGED <<down, expired, overdue, step, result, results, components, pc, report, onTime>>

Rest == pc = "done" /\ UNCHANGED vars

Next ==
  \/ Begin \/ Collect \/ SeeDeadline \/ Drain \/ EndDrain \/ Fill \/ Judge
  \/ MarkDown \/ Deadline \/ CallerLeaves \/ Rest
  \/ \E c \in Checks : EndCheck(c) \/ Send(c) \/ Overdue(c)

Spec == Init /\ [][Next]_vars

-----------------------------------------------------------------------------
(* Properties. *)

\* The report has an entry for every name, made from the result of one of its checks
\* or, if none had sent one when the collection's deadline was seen, a timeout
\* (drainCheckResults, fillTimedOut); and it is up only if every entry is.
ResultsNotLost ==
  pc = "done" /\ components # [n \in Names |-> "none"] =>
    /\ \A n \in Names :
         \/ \E c \in Checks : Name[c] = n /\ step[c] = "sent" /\ components[n] = result[c]
         \/ components[n] = "timeout" /\ expired /\ n \notin onTime
    /\ report = "up" <=> \A n \in Names : components[n] = "up"
=============================================================================
