----------------------------- MODULE ControlLaw -----------------------------
(***************************************************************************)
(* How adaptx.Limiter chooses its limit: samples of released calls make up *)
(* a window, and the sample that finds the window over has the control law *)
(* judge it (record, recordLocked, adjust, aimd, vegas, gradient).  Module *)
(* AdaptiveLimiter has the permits; here a sample comes with any number of *)
(* calls in flight.                                                        *)
(*                                                                         *)
(* Ratios are in units of 1 / Unit, latencies are integers; averages, the  *)
(* code's floats, are rounded down.                                        *)
(***************************************************************************)
EXTENDS Integers, FiniteSetsExt

CONSTANTS
  MinLimit, MaxLimit, InitialLimit,
  Latencies,                        \* of samples, above 0
  Target, Warmup,                   \* WithTargetLatency, WithWarmupSamples
  Unit, Ratio, Utilization, Rate, Tolerance, Smoothing, Decay,
  BackoffBand, FastStep,            \* vegasBackoffBand, gradientFastStep
  MaxSamples                        \* a bound of the model

VARIABLES
  algorithm,
  limit, credit,
  window,      \* windowN, windowFails, windowMaxInFlight, windowRTTSum
  over,        \* sampleWindow has passed since windowStart
  seen,
  avgLat,      \* 0: no window yet
  minLat,      \* Unknown: no sample yet
  taken,       \* samples so far
  prev,        \* history: the limit before the last sample
  lately,      \* history: samples since the last judgement, and in flight with them
  judged,      \* history: those the last sample made the law judge
  fastest,     \* history: the lowest latency so far
  eligible     \* history: aimd's windows with enough in flight, since one with a failure

law   == <<limit, credit, window, over, seen, avgLat, minLat>>
past  == <<taken, prev, lately, judged, fastest, eligible>>
vars  == <<algorithm, law, past>>

Unknown == Max(Latencies) + 1
Empty   == [n |-> 0, fails |-> 0, peak |-> 0, sum |-> 0]
InFlights(l) == {1, l}

TypeOK ==
  /\ algorithm \in {"aimd", "vegas", "gradient"}
  /\ limit \in Nat /\ credit \in 0 .. Unit - 1
  /\ window.n \in 0 .. MaxSamples /\ window.fails \in 0 .. window.n
  /\ over \in BOOLEAN /\ seen \in Nat
  /\ avgLat \in 0 .. Max(Latencies) /\ minLat \in 1 .. Unknown

Init ==
  /\ algorithm \in {"aimd", "vegas", "gradient"}
  /\ limit = InitialLimit /\ credit = 0
  /\ window = Empty /\ over = FALSE /\ seen = 0
  /\ avgLat = 0 /\ minLat = Unknown
  /\ taken = 0 /\ prev = InitialLimit /\ lately = {} /\ judged = {}
  /\ fastest = Unknown /\ eligible = 0

-----------------------------------------------------------------------------
\* Fractions are pairs with a denominator above 0.
Less(a, b) == a[1] * b[2] < b[1] * a[2]
Negative(a) == <<-a[1], a[2]>>

Lower(a, b) == IF a <= b THEN a ELSE b

Cut == (limit * Ratio) \div Unit

\* limit * utilization, rounded up
Need == (limit * Utilization + Unit - 1) \div Unit

\* What each law makes of window w with the lowest latency low, before the clamps.
Step(w) == IF w.fails = 0 /\ w.peak >= Need THEN (credit + Rate) \div Unit ELSE 0
Aimd(w) == IF w.fails > 0 THEN Cut ELSE limit + Step(w)
CreditAfter(w) ==
  IF w.fails > 0 THEN 0
  ELSE IF w.peak < Need THEN credit ELSE (credit + Rate) % Unit

\* queue, alpha and beta as shares of the limit
Vegas(w, low) ==
  LET queue == <<w.sum - w.n * low, w.sum>>
      alpha == IF Target > low THEN <<Tolerance * (Target - low), Unit * Target>>
                               ELSE <<Tolerance, Unit>>
      beta  == <<BackoffBand * alpha[1], alpha[2]>>
  IN IF Less(queue, alpha) THEN limit + 1
     ELSE IF Less(beta, queue) THEN Cut ELSE limit

\* g is how far the mean is above the average, f the factor of the back-off.
Gradient(w) ==
  LET base == w.n * avgLat
      g == <<w.sum - base, base>>
      tolerance == <<Tolerance, Unit>>
      f == Max({Unit * base - (w.sum - base) * Ratio, base * Ratio})
  IN IF w.fails > 0 THEN Cut
     ELSE IF avgLat = 0 THEN limit
     ELSE IF Less(g, Negative(tolerance)) THEN limit + FastStep
     ELSE IF ~Less(tolerance, g) THEN limit + 1
     ELSE (limit * f) \div (Unit * base)

Wants(w, low) == CASE algorithm = "aimd"     -> Aimd(w)
                   [] algorithm = "vegas"    -> Vegas(w, low)
                   [] algorithm = "gradient" -> Gradient(w)

\* adjust: jitter may withhold a part of a growth, never all; then the clamps.
Clamped(n) == IF n < MinLimit THEN MinLimit ELSE Lower(n, MaxLimit)
Jittered(n) == IF n > limit THEN limit + 1 .. n ELSE {n}

\* updateEstimators, with the mean of the window
NewAvg(w) ==
  LET mean == w.sum \div w.n
  IN IF avgLat = 0 THEN mean ELSE (Smoothing * mean + (Unit - Smoothing) * avgLat) \div Unit
NewMin(w, low) == low + (Decay * (NewAvg(w) - low)) \div Unit

Carried(w) == [w EXCEPT !.n = 0, !.sum = 0]                                \* mutant
\* resetWindow
Fresh(w) == Empty

-----------------------------------------------------------------------------
\* record of a call with a latency; a sample that is skipped changes nothing.
Record(latency, ok, inFlight) ==
  LET w   == [n |-> window.n + 1, fails |-> window.fails + IF ok THEN 0 ELSE 1,
              peak |-> Max({window.peak, inFlight}), sum |-> window.sum + latency]
      low == Lower(minLat, latency)
      all == lately \cup {[latency |-> latency, ok |-> ok, inFlight |-> inFlight]}
  IN /\ taken < MaxSamples /\ taken' = taken + 1
     /\ seen' = seen + 1
     /\ prev' = limit /\ fastest' = Lower(fastest, latency)
     /\ IF over /\ seen' >= Warmup
        THEN /\ \E next \in Jittered(Wants(w, low)) : limit' = Clamped(next)
             /\ credit' = IF algorithm = "aimd" THEN CreditAfter(w) ELSE credit
             /\ avgLat' = NewAvg(w) /\ minLat' = NewMin(w, low)
             /\ window' = Fresh(w) /\ over' = FALSE
             /\ lately' = {} /\ judged' = all
             /\ eligible' = IF \E s \in all : ~s.ok THEN 0
                            ELSE eligible + IF \E s \in all : s.inFlight >= Need THEN 1 ELSE 0
        ELSE /\ window' = w /\ minLat' = low
             /\ lately' = all /\ judged' = {}
             /\ UNCHANGED <<limit, credit, over, avgLat, eligible>>
  /\ UNCHANGED algorithm

Pass ==
  /\ ~over /\ over' = TRUE
  /\ UNCHANGED <<algorithm, limit, credit, window, seen, avgLat, minLat, past>>

ResetStats(inFlight) ==
  /\ limit' = Max({InitialLimit, inFlight})
  /\ credit' = 0 /\ seen' = 0 /\ avgLat' = 0 /\ minLat' = Unknown
  /\ window' = Empty /\ over' = FALSE
  /\ prev' = limit' /\ lately' = {} /\ judged' = {} /\ fastest' = Unknown /\ eligible' = 0
  /\ UNCHANGED <<algorithm, taken>>

Next ==
  \/ \E latency \in Latencies, ok \in BOOLEAN, inFlight \in InFlights(limit) :
       Record(latency, ok, inFlight)
  \/ Pass
  \/ \E inFlight \in {0, MaxLimit} : ResetStats(inFlight)

Spec == Init /\ [][Next]_vars

-----------------------------------------------------------------------------
\* The limit moves only when a window is judged, and as the samples of that window say:
\* it is cut once, by the ratio at most, and only for a failure (aimd, gradient) or for
\* a latency above the lowest ever (vegas, gradient), whatever the averages have become;
\* no failure makes it grow (aimd, gradient); and aimd's fractional rate adds up over
\* the windows with enough in flight since the last failure (recordLocked,
\* resetWindow, updateEstimators, adjust).
LimitFollowsWindow ==
  IF judged = {} THEN limit = prev
  ELSE LET failed == \E s \in judged : ~s.ok
           slow   == \E s \in judged : s.latency > fastest
           steps  == (Rate * eligible) \div Unit - (Rate * (eligible - 1)) \div Unit
           busy   == \E s \in judged : s.inFlight * Unit >= prev * Utilization
       IN /\ limit \in MinLimit .. MaxLimit
          /\ limit < prev =>
               /\ limit >= (prev * Ratio) \div Unit
               /\ (algorithm # "vegas" /\ failed) \/ (algorithm # "aimd" /\ slow)
          /\ algorithm # "vegas" /\ failed => limit <= prev
          /\ algorithm = "aimd" /\ ~failed =>
               limit - prev \in IF busy THEN {Lower(n, MaxLimit - prev) :
                                               n \in Lower(1, steps) .. steps}
                                ELSE {0}
=============================================================================
