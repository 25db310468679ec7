-------------------------- MODULE AdaptiveLimiter --------------------------
(***************************************************************************)
(* adaptx.Limiter: a buffered channel of permits whose number follows a    *)
(* live limit.  A shrink takes idle permits at once and records the rest   *)
(* as debt that later releases pay; ResetStats rebuilds the pool from the  *)
(* in-flight count, which is not in step with the permits.                 *)
(*                                                                         *)
(* A permit sent to the channel goes to a blocked receiver if there is     *)
(* one.  The control laws are reduced to what they decide: any next limit  *)
(* within the bounds.  Contexts and timers may end at any time.            *)
(***************************************************************************)
EXTENDS Integers, FiniteSets

CONSTANTS
  Callers,        \* goroutines that make one call each
  Resetters,      \* goroutines that call ResetStats
  Closers,        \* goroutines that call CloseWithTimeout
  Nobody,         \* the value of mu when it is free
  MinLimit,       \* WithMinLimit
  MaxLimit,       \* WithMaxLimit, the capacity of sem
  InitialLimit    \* WithInitialLimit

ASSUME ActorsAssumption ==
  /\ IsFiniteSet(Callers)
  /\ Callers \cap Resetters = {} /\ (Callers \cup Resetters) \cap Closers = {}
  /\ Nobody \notin Resetters
\* newConfig keeps 1 <= min <= initial <= max.
ASSUME LimitsAssumption ==
  /\ MinLimit \in Nat \ {0} /\ MaxLimit \in Nat /\ InitialLimit \in Nat
  /\ MinLimit <= InitialLimit /\ InitialLimit <= MaxLimit

VARIABLES
  sem,        \* len(Limiter.sem): idle permits
  limit,      \* Limiter.limit
  debt,       \* Limiter.debt
  inFlight,   \* Limiter.inFlight
  mu,         \* the ResetStats that holds Limiter.mu, or Nobody
  closed,     \* Limiter.closed
  closedCh,   \* Limiter.closedCh is closed
  drainCh,    \* Limiter.drainCh is closed
  pc,         \* next step of each goroutine
  kind        \* which entry point a caller uses

pool  == <<sem, limit, debt>>
flags == <<closed, closedCh, drainCh>>
vars  == <<pool, inFlight, mu, flags, pc, kind>>

\* Execute is Acquire, the callback and the release; TryExecute the same of TryAcquire.
Kinds == {"Acquire", "TryAcquire"}

\* Where a caller has taken a permit, and where it is counted in inFlight.
Counted == {"run", "count"}
Holding == Counted \cup {"recheck", "giveBack", "admit", "put", "putLast"}
Labels  == Holding \cup {"idle", "select", "blocked", "signal", "done"}
ResetPC == {"idle", "refill", "done"}
ClosePC == {"idle", "channel", "signal", "check", "wait", "drain", "return",
            "ok", "ErrDrainTimeout", "ErrClosed"}

Goroutines == Callers \cup Resetters \cup Closers

TypeOK ==
  /\ sem \in 0 .. MaxLimit
  /\ limit \in Nat /\ limit >= MinLimit
  /\ debt \in Nat
  /\ inFlight \in Nat
  /\ mu \in Resetters \cup {Nobody}
  /\ closed \in BOOLEAN /\ closedCh \in BOOLEAN /\ drainCh \in BOOLEAN
  /\ pc \in [Goroutines -> Labels \cup ResetPC \cup ClosePC]
  /\ kind \in [Callers -> Kinds]

Init ==
  /\ sem = InitialLimit
  /\ limit = InitialLimit
  /\ debt = 0
  /\ inFlight = 0
  /\ mu = Nobody
  /\ closed = FALSE /\ closedCh = FALSE /\ drainCh = FALSE
  /\ pc = [g \in Goroutines |-> "idle"]
  /\ kind \in [Callers -> Kinds]

At(g, label)   == pc[g] = label
Goto(g, label) == pc' = [pc EXCEPT ![g] = label]

Smaller(m, n) == IF m <= n THEN m ELSE n

Blocked == {c \in Callers : pc[c] = "blocked" /\ ~closedCh}

\* n non-blocking sends to sem by g, which goes on to label: blocked callers
\* are handed a permit each, the buffer takes what it has room for.
Send(g, n, label) ==
  \E W \in SUBSET Blocked :
    /\ Cardinality(W) = Smaller(n, Cardinality(Blocked))
    /\ sem' = Smaller(sem + n - Cardinality(W), MaxLimit)
    /\ pc' = [c \in Goroutines |-> IF c = g THEN label
                                   ELSE IF c \in W THEN "recheck" ELSE pc[c]]

-----------------------------------------------------------------------------
(* Acquire and TryAcquire; Execute and TryExecute are built on them. *)

Enter(c) ==
  /\ At(c, "idle")
  /\ \/ ~closed /\ Goto(c, "select")
     \/ closed /\ Goto(c, "done")
     \/ kind[c] = "Acquire" /\ Goto(c, "done")       \* ctx is dead
  /\ UNCHANGED <<pool, inFlight, mu, flags, kind>>

Take(c) ==
  /\ At(c, "select")
  /\ sem > 0
  /\ sem' = sem - 1
  /\ Goto(c, "recheck")
  /\ UNCHANGED <<limit, debt, inFlight, mu, flags, kind>>

Block(c) ==
  /\ At(c, "select") /\ kind[c] = "Acquire"
  /\ sem = 0 /\ ~closedCh
  /\ Goto(c, "blocked")
  /\ UNCHANGED <<pool, inFlight, mu, flags, kind>>

\* The closedCh case of Acquire's select.
SeeClosed(c) ==
  /\ pc[c] \in {"select", "blocked"} /\ kind[c] = "Acquire"
  /\ closedCh
  /\ Goto(c, "done")
  /\ UNCHANGED <<pool, inFlight, mu, flags, kind>>

\* The ctx.Done case, or the default case of TryAcquire.
GiveUp(c) ==
  /\ \/ pc[c] \in {"select", "blocked"} /\ kind[c] = "Acquire"
     \/ At(c, "select") /\ kind[c] = "TryAcquire" /\ sem = 0
  /\ Goto(c, "done")
  /\ UNCHANGED <<pool, inFlight, mu, flags, kind>>

Recheck(c) ==
  /\ At(c, "recheck")
  /\ Goto(c, IF closed THEN "giveBack" ELSE "admit")
  /\ UNCHANGED <<pool, inFlight, mu, flags, kind>>

\* returnPermit: without mu, and without a look at the debt.
GiveBack(c) ==
  /\ At(c, "giveBack")
  /\ Send(c, 1, "done")
  /\ UNCHANGED <<limit, debt, inFlight, mu, flags, kind>>

Admit(c) ==
  /\ At(c, "admit")
  /\ inFlight' = inFlight + 1
  /\ Goto(c, "run")
  /\ UNCHANGED <<pool, mu, flags, kind>>

-----------------------------------------------------------------------------
(* The release function. *)

\* shrink: idle permits now, the rest as debt.
ShrinkForgetsTheRest(c, next) ==                         \* mutant
  LET drop == limit - next
      idle == Smaller(drop, sem)
  IN  /\ sem' = sem - idle
      /\ UNCHANGED debt
      /\ Goto(c, "count")
ShrinkOwesAll(c, next) ==                                \* mutant
  LET drop == limit - next
      idle == Smaller(drop, sem)
  IN  /\ sem' = sem - idle
      /\ debt' = debt + drop
      /\ Goto(c, "count")
Shrink(c, next) ==
  LET drop == limit - next
      idle == Smaller(drop, sem)
  IN  /\ sem' = sem - idle
      /\ debt' = debt + (drop - idle)
      /\ Goto(c, "count")

\* A growth cancels debt before it makes permits.
GrowPastDebt(c, next) ==                                 \* mutant
  Send(c, next - limit, "count") /\ UNCHANGED debt
Grow(c, next) ==
  LET grant == next - limit
      paid  == Smaller(debt, grant)
  IN  /\ debt' = debt - paid
      /\ Send(c, grant - paid, "count")

\* What aimd, vegas or gradient may choose, as far as the clamp lets it through.
NextLimits == MinLimit .. MaxLimit \ {limit}

\* record: a sample that ends a window may move the limit, under mu.
Adjust(c) ==
  /\ At(c, "run")
  /\ mu = Nobody
  /\ \E next \in NextLimits :
       /\ limit' = next
       /\ IF next > limit THEN Grow(c, next) ELSE Shrink(c, next)
  /\ UNCHANGED <<inFlight, mu, flags, kind>>

\* record: a skipped sample, or one that leaves the limit alone.
Record(c) ==
  /\ At(c, "run")
  /\ Goto(c, "count")
  /\ UNCHANGED <<pool, inFlight, mu, flags, kind>>

LastOutOffByOne == inFlight = 2                          \* mutant
LastOut == inFlight = 1

Uncount(c) ==
  /\ At(c, "count")
  /\ inFlight' = inFlight - 1
  /\ Goto(c, IF LastOut THEN "putLast" ELSE "put")
  /\ UNCHANGED <<pool, mu, flags, kind>>

\* releasePermit
PaysDebt == debt > 0

ReleasePermit(c) ==
  /\ pc[c] \in {"put", "putLast"}
  /\ mu = Nobody
  /\ LET next == IF At(c, "putLast") THEN "signal" ELSE "done"
     IN  IF PaysDebt
           THEN debt' = debt - 1 /\ Goto(c, next) /\ UNCHANGED sem
           ELSE Send(c, 1, next) /\ UNCHANGED debt
  /\ UNCHANGED <<limit, inFlight, mu, flags, kind>>

\* signalDrainIfIdle
DrainAfter == drainCh \/ (closed /\ inFlight = 0)
SignalDrain(c) ==
  /\ At(c, "signal") /\ c \in Callers
  /\ drainCh' = DrainAfter
  /\ Goto(c, "done")
  /\ UNCHANGED <<pool, inFlight, mu, closed, closedCh, kind>>

-----------------------------------------------------------------------------
(* ResetStats: the limit and the drain of the pool, then the refill from a
   second reading of inFlight, both under mu. *)
ResetLimit(r) ==
  /\ At(r, "idle")
  /\ mu = Nobody
  /\ mu' = r
  /\ limit' = IF InitialLimit < inFlight THEN inFlight ELSE InitialLimit
  /\ debt' = 0
  /\ sem' = 0
  /\ Goto(r, "refill")
  /\ UNCHANGED <<inFlight, flags, kind>>

Want == IF limit < inFlight THEN 0 ELSE limit - inFlight

Refill(r) ==
  /\ At(r, "refill")
  /\ Send(r, Want, "done")
  /\ mu' = Nobody
  /\ UNCHANGED <<limit, debt, inFlight, flags, kind>>

-----------------------------------------------------------------------------
(* CloseWithTimeout; Close is its call with a zero timeout. *)
CloseFlag(k) ==
  /\ At(k, "idle")
  /\ closed' = TRUE
  /\ Goto(k, IF closed THEN "ErrClosed" ELSE "channel")
  /\ UNCHANGED <<pool, inFlight, mu, closedCh, drainCh, kind>>

CloseChannel(k) ==
  /\ At(k, "channel")
  /\ closedCh' = TRUE
  /\ Goto(k, "signal")
  /\ UNCHANGED <<pool, inFlight, mu, closed, drainCh, kind>>

CloseSignal(k) ==
  /\ At(k, "signal") /\ k \in Closers
  /\ drainCh' = DrainAfter
  /\ Goto(k, "check")
  /\ UNCHANGED <<pool, inFlight, mu, closed, closedCh, kind>>

\* waitForDrain; a timeout of zero does not wait.
CloseCheck(k) ==
  /\ At(k, "check")
  /\ \/ inFlight > 0 /\ Goto(k, "wait")
     \/ Goto(k, "drain")
  /\ UNCHANGED <<pool, inFlight, mu, flags, kind>>

Drained(k) ==
  /\ At(k, "wait") /\ drainCh
  /\ Goto(k, "drain")
  /\ UNCHANGED <<pool, inFlight, mu, flags, kind>>

TimeOut(k) ==
  /\ At(k, "wait")
  /\ Goto(k, "drain")
  /\ UNCHANGED <<pool, inFlight, mu, flags, kind>>

DrainSemaphore(k) ==
  /\ At(k, "drain")
  /\ sem' = 0
  /\ Goto(k, "return")
  /\ UNCHANGED <<limit, debt, inFlight, mu, flags, kind>>

CloseReturn(k) ==
  /\ At(k, "return")
  /\ Goto(k, IF inFlight > 0 THEN "ErrDrainTimeout" ELSE "ok")
  /\ UNCHANGED <<pool, inFlight, mu, flags, kind>>

-----------------------------------------------------------------------------
Acquiring(c) == Take(c) \/ Block(c) \/ SeeClosed(c) \/ GiveUp(c) \/ Recheck(c)
                  \/ GiveBack(c) \/ Admit(c)
Releasing(c) == Adjust(c) \/ Record(c) \/ Uncount(c) \/ ReleasePermit(c) \/ SignalDrain(c)
Closing(k)   == CloseFlag(k) \/ CloseChannel(k) \/ CloseSignal(k) \/ CloseCheck(k)
                  \/ Drained(k) \/ TimeOut(k) \/ DrainSemaphore(k) \/ CloseReturn(k)

Quiet ==
  /\ \A c \in Callers : pc[c] \in {"idle", "done"}
  /\ \A r \in Resetters : pc[r] \in {"idle", "done"}
  /\ \A k \in Closers : pc[k] \in {"idle", "ok", "ErrDrainTimeout", "ErrClosed"}
  /\ UNCHANGED vars

Next ==
  \/ \E c \in Callers : Enter(c) \/ Acquiring(c) \/ Releasing(c)
  \/ \E r \in Resetters : ResetLimit(r) \/ Refill(r)
  \/ \E k \in Closers : Closing(k)
  \/ Quiet

Spec == Init /\ [][Next]_vars

-----------------------------------------------------------------------------
(* Properties. *)

Held == Cardinality({c \in Callers : pc[c] \in Holding})

\* Until Close empties the pool.
Pooled == \A k \in Closers : pc[k] \notin {"return", "ok", "ErrDrainTimeout"}

\* Whoever waits for the drain waits for somebody: drainCh is closed, or a call
\* is still counted, or the one that was counted last is about to signal, also
\* if callers were admitted while the limiter closed (signalDrainIfIdle,
\* waitForDrain).
DrainWakesCloser ==
  (\E k \in Closers : pc[k] = "wait") =>
    drainCh \/ inFlight > 0 \/ \E c \in Callers : pc[c] \in {"putLast", "signal"}
=============================================================================
