------------------------------- MODULE Warmer -------------------------------
(***************************************************************************)
(* warmupx.Warmer: a ramp that is started, halted, restarted and closed,   *)
(* with one goroutine for each run, and callers that wait for the ramp to  *)
(* complete.                                                               *)
(*                                                                         *)
(* Every operation is one section under the mutex.  A run is named by its  *)
(* generation, a channel by the run that made it; run 0 is New's.  Only    *)
(* the number of runs is bounded.                                          *)
(***************************************************************************)
EXTENDS Integers, FiniteSets

CONSTANTS
  Waiters,     \* calls of WaitForCompletion
  MaxRuns      \* bound on the calls of StartAt

Runs == 0 .. MaxRuns

VARIABLES
  gen, warming, complete, closed,
  stopCh,      \* the run whose stop channel is kept, or 0
  completeCh,  \* the run whose completion channel is kept
  stopClosed, completeClosed,     \* the channels that have been closed
  panicked,    \* whether a closed channel was closed again
  loop,        \* the goroutine of each run: "none", "running" or "gone"
  reports,     \* history: how often each run called OnComplete
  wpc, held    \* next step of each waiter, and the channel it waits on

channels == <<stopCh, completeCh, stopClosed, completeClosed, panicked>>
waiting  == <<wpc, held>>
vars     == <<gen, warming, complete, closed, channels, loop, reports, waiting>>

TypeOK ==
  /\ gen \in Runs /\ stopCh \in Runs /\ completeCh \in Runs
  /\ warming \in BOOLEAN /\ complete \in BOOLEAN /\ closed \in BOOLEAN
  /\ stopClosed \subseteq Runs /\ completeClosed \subseteq Runs
  /\ panicked \in BOOLEAN
  /\ loop \in [Runs -> {"none", "running", "gone"}]
  /\ reports \in [Runs -> Nat]
  /\ wpc \in [Waiters -> {"idle", "select", "nil", "closed", "cancelled"}]
  /\ held \in [Waiters -> Runs]

Init ==
  /\ gen = 0 /\ warming = FALSE /\ complete = FALSE /\ closed = FALSE
  /\ stopCh = 0 /\ completeCh = 0 /\ stopClosed = {} /\ completeClosed = {}
  /\ panicked = FALSE
  /\ loop = [r \in Runs |-> "none"]
  /\ reports = [r \in Runs |-> 0]
  /\ wpc = [w \in Waiters |-> "idle"] /\ held = [w \in Waiters |-> 0]

-----------------------------------------------------------------------------
\* stopLocked
Stopping == IF stopCh = 0 THEN {} ELSE {stopCh}

\* Channels to close; the second close of one panics.
Closes(stops, completes) ==
  /\ stopClosed' = stopClosed \cup stops
  /\ completeClosed' = completeClosed \cup completes
  /\ panicked' = (panicked \/ stops \cap stopClosed # {} \/ completes \cap completeClosed # {})

\* The channel of a run that will not complete any more is closed for those who
\* wait on it.
Superseded == IF complete THEN {} ELSE {completeCh}

Start(top) ==
  /\ ~closed /\ gen < MaxRuns
  /\ gen' = gen + 1
  /\ completeCh' = gen + 1
  /\ warming' = ~top /\ complete' = top
  /\ stopCh' = IF top THEN 0 ELSE gen + 1
  /\ Closes(Stopping, Superseded \cup IF top THEN {gen + 1} ELSE {})
  /\ loop' = IF top THEN loop ELSE [loop EXCEPT ![gen + 1] = "running"]
  /\ reports' = IF top THEN [reports EXCEPT ![gen + 1] = @ + 1] ELSE reports
  /\ UNCHANGED <<closed, waiting>>

\* StartAt, Start and Reset; from the maximum the run is complete at once.
StartAt == \E top \in BOOLEAN : Start(top)

StartAtClosed ==
  /\ closed
  /\ UNCHANGED vars

Stop ==
  /\ warming' = FALSE
  /\ stopCh' = 0
  /\ Closes(Stopping, {})
  /\ UNCHANGED <<gen, complete, closed, completeCh, loop, reports, waiting>>

Close ==
  /\ ~closed
  /\ closed' = TRUE
  /\ warming' = FALSE
  /\ stopCh' = 0
  /\ Closes(Stopping, Superseded)
  /\ UNCHANGED <<gen, complete, completeCh, loop, reports, waiting>>

\* loop's select sees the stop channel,
LoopStops(r) ==
  /\ loop[r] = "running" /\ r \in stopClosed
  /\ loop' = [loop EXCEPT ![r] = "gone"]
  /\ UNCHANGED <<gen, warming, complete, closed, channels, reports, waiting>>

\* or a tick: tick looks whether its run is still on, and completes it or goes on.
OnlyWarming(r) == warming /\ ~complete                   \* mutant
Current(r) == gen = r /\ warming /\ ~complete

TickStale(r) ==
  /\ loop[r] = "running" /\ ~Current(r)
  /\ loop' = [loop EXCEPT ![r] = "gone"]
  /\ UNCHANGED <<gen, warming, complete, closed, channels, reports, waiting>>

TickComplete(r) ==
  /\ loop[r] = "running" /\ Current(r)
  /\ warming' = FALSE /\ complete' = TRUE
  /\ Closes({}, {completeCh})
  /\ loop' = [loop EXCEPT ![r] = "gone"]
  /\ reports' = [reports EXCEPT ![r] = @ + 1]
  /\ UNCHANGED <<gen, closed, stopCh, completeCh, waiting>>

-----------------------------------------------------------------------------
(* WaitForCompletion. *)

Returns(w, answer) == wpc' = [wpc EXCEPT ![w] = answer] /\ UNCHANGED held

Look(w) ==
  \/ closed /\ Returns(w, "closed")
  \/ ~closed /\ complete /\ Returns(w, "nil")
  \/ ~closed /\ ~complete /\ ~warming /\ gen = 0 /\ Returns(w, "nil")
  \/ /\ ~closed /\ ~complete /\ (warming \/ gen > 0)
     /\ wpc' = [wpc EXCEPT ![w] = "select"]
     /\ held' = [held EXCEPT ![w] = completeCh]

Wait(w) ==
  /\ wpc[w] = "idle" \/ (wpc[w] = "select" /\ held[w] \in completeClosed)
  /\ Look(w)
  /\ UNCHANGED <<gen, warming, complete, closed, channels, loop, reports>>

Cancel(w) ==
  /\ wpc[w] = "select"
  /\ Returns(w, "cancelled")
  /\ UNCHANGED <<gen, warming, complete, closed, channels, loop, reports>>

Next ==
  \/ StartAt \/ StartAtClosed \/ Stop \/ Close
  \/ \E r \in Runs : LoopStops(r) \/ TickStale(r) \/ TickComplete(r)
  \/ \E w \in Waiters : Wait(w) \/ Cancel(w)

Spec == Init /\ [][Next]_vars

-----------------------------------------------------------------------------
(* Properties. *)

\* Whoever waits holds a channel that is closed, or the channel of the run that
\* can still complete, be superseded or be closed: no waiter is left behind with
\* the channel of an earlier run (StartAt, Close, WaitForCompletion).
NobodyLeftBehind ==
  \A w \in Waiters : wpc[w] = "select" /\ held[w] \notin completeClosed
    => held[w] = completeCh /\ ~complete /\ ~closed

\* In any order of StartAt, Stop, Close and ticks no channel is closed twice, a
\* run completes at most once and by itself, and a goroutine that outlives its run
\* has been told to leave (StartAt, stopLocked, Close, tick).
RunsDoNotMix ==
  /\ ~panicked
  /\ \A r \in Runs : reports[r] <= 1
  /\ complete => reports[gen] = 1
  /\ \A r \in Runs : loop[r] = "running" => r = stopCh \/ r \in stopClosed
=============================================================================
