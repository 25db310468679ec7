---------------------------- MODULE RateLimiter ----------------------------
(***************************************************************************)
(* ratex.Limiter: a token bucket under one mutex.  Every lock and unlock   *)
(* of it is one step; the contexts are looked at between them.  A unit of  *)
(* time accrues one token.                                                 *)
(***************************************************************************)
EXTENDS Integers, FiniteSets, FiniteSetsExt

CONSTANTS
  Callers,    \* goroutines that make one call each
  Burst,
  MaxTime,    \* bound on the clock
  MaxResets   \* bound on the calls of Reset

VARIABLES
  tokens, lastUpdate, allowed,
  now,
  dead,       \* callers whose context has ended
  pc,
  asked,      \* n of the call, or 0
  resets, statResets   \* history: calls of Reset and of ResetStats

vars == <<tokens, lastUpdate, allowed, now, dead, pc, asked, resets, statResets>>

\* Labels of a blocking call or a TryExecute that has yet to look at its context.
Looking == {"check", "take", "delay", "sleep", "try", "recheck"}
Labels  == Looking \cup {"idle", "allow", "held", "refund", "done", "kept"}

\* Callers that have taken tokens and not given them back; "kept" stays so.
Owners == {c \in Callers : pc[c] \in {"recheck", "held", "refund", "kept"}}

TypeOK ==
  /\ tokens \in 0 .. Burst /\ allowed \in Nat
  /\ now \in 0 .. MaxTime /\ lastUpdate \in 0 .. now
  /\ dead \subseteq Callers
  /\ pc \in [Callers -> Labels]
  /\ asked \in [Callers -> 0 .. Burst]
  /\ resets \in 0 .. MaxResets /\ statResets \in 0 .. MaxResets

Init ==
  /\ tokens = Burst /\ lastUpdate = 0 /\ allowed = 0
  /\ now = 0 /\ dead = {}
  /\ pc = [c \in Callers |-> "idle"] /\ asked = [c \in Callers |-> 0]
  /\ resets = 0 /\ statResets = 0

-----------------------------------------------------------------------------
At(c, label)   == pc[c] = label
Goto(c, label) == pc' = [pc EXCEPT ![c] = label]

\* refill
Refilled == Min({Burst, tokens + (now - lastUpdate)})

\* AllowN, WaitN, Execute, TryExecute.  A WaitN beyond the burst is refused, and a
\* TryExecute whose context has ended.
Enter(c) ==
  /\ At(c, "idle")
  /\ \/ \E n \in 1 .. Burst, op \in {"allow", "check"} :
          asked' = [asked EXCEPT ![c] = n] /\ Goto(c, op)
     \/ asked' = [asked EXCEPT ![c] = 1] /\ Goto(c, "try")
     \/ Goto(c, "done") /\ UNCHANGED asked
  /\ UNCHANGED <<tokens, lastUpdate, allowed, now, dead, resets, statResets>>

\* take, and where the call goes from there
Take(c) ==
  /\ pc[c] \in {"allow", "try", "take"}
  /\ lastUpdate' = now
  /\ IF Refilled >= asked[c]
     THEN /\ tokens' = Refilled - asked[c]
          /\ allowed' = allowed + 1
          /\ Goto(c, IF At(c, "allow") THEN "held" ELSE "recheck")
     ELSE /\ tokens' = Refilled
          /\ Goto(c, IF At(c, "take") THEN "delay" ELSE "done")
          /\ UNCHANGED allowed
  /\ UNCHANGED <<now, dead, asked, resets, statResets>>

\* waitFor's look at the context before it takes, and the end of its timer.  A call
\* that has seen its context end is limited.
Check(c) ==
  /\ At(c, "check")
  /\ Goto(c, IF c \in dead THEN "done" ELSE "take")
  /\ UNCHANGED <<tokens, lastUpdate, allowed, now, dead, asked, resets, statResets>>

\* delay
Delay(c) ==
  /\ At(c, "delay")
  /\ lastUpdate' = now /\ tokens' = Refilled
  /\ Goto(c, "sleep")
  /\ UNCHANGED <<allowed, now, dead, asked, resets, statResets>>

\* The estimate of the timer is not relied on: it may be early or late.
Wake(c) ==
  /\ At(c, "sleep")
  /\ Goto(c, IF c \in dead THEN "done" ELSE "check")
  /\ UNCHANGED <<tokens, lastUpdate, allowed, now, dead, asked, resets, statResets>>

\* After the tokens were taken the context is looked at again.  WaitN returns, Execute
\* and TryExecute run their callback.
Recheck(c) ==
  /\ At(c, "recheck")
  /\ \/ c \in dead /\ Goto(c, "refund")
     \/ c \notin dead /\ Goto(c, "held")
  /\ UNCHANGED <<tokens, lastUpdate, allowed, now, dead, asked, resets, statResets>>

\* The callback called SkipToken or did not (run); the caller of AllowN or WaitN
\* calls Release or does not.
Finish(c) ==
  /\ At(c, "held")
  /\ \E label \in {"refund", "kept"} : Goto(c, label)
  /\ UNCHANGED <<tokens, lastUpdate, allowed, now, dead, asked, resets, statResets>>

\* refund
Uncapped(n) == tokens + n                                   \* mutant
Capped(n)   == Min({Burst, tokens + n})
Refund(c) ==
  /\ At(c, "refund")
  /\ tokens' = Capped(asked[c])
  /\ allowed' = IF allowed > 0 THEN allowed - 1 ELSE 0
  /\ Goto(c, "done")
  /\ UNCHANGED <<lastUpdate, now, dead, asked, resets, statResets>>

\* Tokens, Stats
Tokens ==
  /\ lastUpdate' = now /\ tokens' = Refilled
  /\ UNCHANGED <<allowed, now, dead, pc, asked, resets, statResets>>

\* Reset restarts the accrual too.
Reset ==
  /\ resets < MaxResets
  /\ tokens' = Burst /\ lastUpdate' = now
  /\ resets' = resets + 1
  /\ UNCHANGED <<allowed, now, dead, pc, asked, statResets>>

ResetStats ==
  /\ statResets < MaxResets
  /\ allowed' = 0
  /\ statResets' = statResets + 1
  /\ UNCHANGED <<tokens, lastUpdate, now, dead, pc, asked, resets>>

Tick ==
  /\ now < MaxTime
  /\ now' = now + 1
  /\ UNCHANGED <<tokens, lastUpdate, allowed, dead, pc, asked, resets, statResets>>

Cancel(c) ==
  /\ c \notin dead /\ pc[c] \in Looking
  /\ dead' = dead \cup {c}
  /\ UNCHANGED <<tokens, lastUpdate, allowed, now, pc, asked, resets, statResets>>

Quiet == \A c \in Callers : pc[c] \in {"done", "kept"}
Rest  == Quiet /\ UNCHANGED vars

Next ==
  \/ \E c \in Callers :
       \/ Enter(c) \/ Take(c) \/ Check(c) \/ Delay(c) \/ Wake(c) \/ Recheck(c) \/ Finish(c)
       \/ Refund(c) \/ Cancel(c)
  \/ Tokens \/ Reset \/ ResetStats \/ Tick \/ Rest

Spec == Init /\ [][Next]_vars

-----------------------------------------------------------------------------
(* Properties. *)

\* No token is made: what is in the bucket and what calls have taken is at most what
\* the bucket began with, what accrued, and what Reset filled in; a token that is
\* given back is given back once (take, refund, SkipToken, Reset).
Taken == {p \in Callers \X (1 .. Burst) : p[1] \in Owners /\ p[2] <= asked[p[1]]}
NoTokenMade == tokens + Cardinality(Taken) <= Burst + lastUpdate + Burst * resets

\* Until the counters are reset, allowed is the number of calls that keep their
\* tokens: a call cancelled after it took them, or skipped, is not counted (refund).
AllowedExact == statResets = 0 => allowed = Cardinality(Owners)
=============================================================================
