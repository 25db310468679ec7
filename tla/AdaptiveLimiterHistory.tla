----------------------- MODULE AdaptiveLimiterHistory -----------------------
(***************************************************************************)
(* AdaptiveLimiter with a memory of whether a ResetStats met a caller that *)
(* holds a permit it is not counted for, and of whether one has raised the *)
(* limit above its maximum, which only happens after such a meeting.       *)
(***************************************************************************)
EXTENDS AdaptiveLimiter, TLC

VARIABLES
  clean,    \* every ResetStats so far saw inFlight equal to the permits held
  within    \* limit has stayed within MaxLimit

hvars == <<vars, clean, within>>

InStep == \A c \in Callers : pc[c] \in Holding => pc[c] \in Counted

Remember ==
  /\ clean' = (clean /\ ((\E r \in Resetters : pc'[r] # pc[r]) => InStep))
  /\ within' = (within /\ limit' <= MaxLimit)

HInit == Init /\ clean = TRUE /\ within = TRUE
HNext == Next /\ Remember
HSpec == HInit /\ [][HNext]_hvars

-----------------------------------------------------------------------------
\* Whoever waits for a permit waits for somebody: nothing is idle, and more
\* permits are held than the debt will swallow, so one comes back to the pool,
\* as long as no ResetStats raised the limit above its maximum (adjust,
\* releasePermit, reconcilePermitsLocked).
NobodyWaitsInVain ==
  within /\ Blocked # {} /\ mu = Nobody => sem = 0 /\ Held > debt

\* As long as ResetStats runs only while every permit holder is counted,
\* permits are neither made nor lost: those idle and those held are the live
\* limit and the debt (adjust, shrink, releasePermit, ResetStats).
Conservation ==
  /\ TypeOK
  /\ clean /\ Pooled /\ mu = Nobody => sem + Held = limit + debt

\* Permits are only handed out below the live limit: after a shrink nobody is
\* admitted until enough releases have paid the debt (Limiter's comment).
NeverAboveLiveLimit ==
  clean /\ ~closed /\ sem > 0 => Held < limit

\* The in-flight count stays within WithMaxLimit.
InFlightBounded == clean => inFlight \in 0 .. MaxLimit

\* README: with the minimum floored to one the limiter always makes forward
\* progress.  While somebody waits there is a permit, idle or held, that could
\* serve them (adjust, releasePermit, ResetStats).
ForwardProgress == Blocked # {} /\ mu = Nobody => sem + Held > 0

-----------------------------------------------------------------------------
\* Callers are interchangeable: what TLC permutes in its runs.
Symmetry == Permutations(Callers)
=============================================================================
