------------------------- MODULE WorkerPoolHistory -------------------------
(***************************************************************************)
(* WorkerPool with a memory of which tasks were queued before Close gave   *)
(* its signal.                                                             *)
(***************************************************************************)
EXTENDS WorkerPool

VARIABLE early    \* tasks queued while done was open

hvars == <<vars, early>>

Enqueues(s) == pc[s] = "select" /\ Len(tasks') > Len(tasks) /\ tasks'[Len(tasks')] = s

Record == early' = early \cup {s \in Submitters : Enqueues(s) /\ ~done}

HInit == Init /\ early = {}
HNext == Next /\ Record
HSpec == HInit /\ [][HNext]_hvars
HFairSpec == HSpec /\ Progress

-----------------------------------------------------------------------------
\* When Close has returned every task queued before its signal has run, also those
\* a worker was still in, and nothing runs any more: no worker is left and the
\* queue's remains were drained on Close's own goroutine (Close, worker).
CloseRunsWhatWasQueued ==
  (\E c \in Closers : At(c, "returned")) => early \subseteq ran /\ Busy = {}

\* A task queued before Close's signal runs, with or without Close.
EarlyTasksComplete == \A s \in Submitters : s \in early ~> s \in ran
=============================================================================
