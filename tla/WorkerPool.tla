----------------------------- MODULE WorkerPool -----------------------------
(***************************************************************************)
(* poolx.WorkerPool: workers that take tasks from a bounded queue, callers *)
(* that submit one task each, and Close, which lets the workers drain the  *)
(* queue, waits for them and drains what is left.  A task is named by the  *)
(* caller that submits it.                                                 *)
(*                                                                         *)
(* A select with several cases ready takes any of them: a caller that got  *)
(* past the closed check may still enqueue after Close, and a worker may   *)
(* see done before the queue is empty.  Contexts may end at any time.      *)
(***************************************************************************)
EXTENDS Naturals, Sequences, FiniteSets

CONSTANTS
  Submitters,   \* goroutines that submit one task each; also the tasks
  Workers,      \* the goroutines NewWorkerPool starts
  Closers,      \* goroutines that call Close
  QueueSize,    \* WithQueueSize
  None          \* no task

Runners == Workers \cup Closers     \* who may run a task

ASSUME ActorsAssumption ==
  /\ Workers # {} /\ IsFiniteSet(Workers)
  /\ Submitters \cap Runners = {} /\ Workers \cap Closers = {}
  /\ None \notin Submitters
ASSUME QueueAssumption == QueueSize \in Nat \ {0}

VARIABLES
  tasks,     \* WorkerPool.tasks
  done,      \* WorkerPool.done is closed
  closed,    \* WorkerPool.closed
  once,      \* WorkerPool.closeOnce: "free", "held" or "over"
  pc,        \* next step of each goroutine
  kind,      \* which entry point a submitter uses
  running,   \* the task a runner is in, or None
  ran        \* tasks that have run: what the buffered resultCh holds

vars == <<tasks, done, closed, once, pc, kind, running, ran>>

Kinds      == {"Submit", "TrySubmit", "SubmitWait"}
SubmitPC   == {"idle", "select", "await", "done"}
WorkerPC   == {"loop", "drain", "gone"}
CloserPC   == {"idle", "signal", "wait", "orphans", "returned"}

TypeOK ==
  /\ tasks \in Seq(Submitters) /\ Len(tasks) <= QueueSize
  /\ done \in BOOLEAN
  /\ closed \in BOOLEAN
  /\ once \in {"free", "held", "over"}
  /\ pc \in [Submitters \cup Runners -> SubmitPC \cup WorkerPC \cup CloserPC]
  /\ kind \in [Submitters -> Kinds]
  /\ running \in [Runners -> Submitters \cup {None}]
  /\ ran \subseteq Submitters

Init ==
  /\ tasks = <<>>
  /\ done = FALSE
  /\ closed = FALSE
  /\ once = "free"
  /\ pc = [g \in Submitters \cup Runners |-> IF g \in Workers THEN "loop" ELSE "idle"]
  /\ kind \in [Submitters -> Kinds]
  /\ running = [r \in Runners |-> None]
  /\ ran = {}

At(g, label)   == pc[g] = label
Goto(g, label) == pc' = [pc EXCEPT ![g] = label]

-----------------------------------------------------------------------------
(* Submit, TrySubmit, SubmitWait. *)

\* validateSubmit: a nil function, a dead context or a closed pool is refused.
Validate(s) ==
  /\ At(s, "idle")
  /\ \/ ~closed /\ Goto(s, "select")
     \/ Goto(s, "done")
  /\ UNCHANGED <<tasks, done, closed, once, kind, running, ran>>

\* tasks <- task, where the buffer has room.
Room == Len(tasks) < QueueSize

Enqueue(s) ==
  /\ At(s, "select")
  /\ Room
  /\ tasks' = Append(tasks, s)
  /\ Goto(s, IF kind[s] = "SubmitWait" THEN "await" ELSE "done")
  /\ UNCHANGED <<done, closed, once, kind, running, ran>>

\* The other cases of the select: done, or default for TrySubmit.
Refuse(s) ==
  /\ At(s, "select")
  /\ \/ done
     \/ kind[s] = "TrySubmit" /\ ~Room
  /\ Goto(s, "done")
  /\ UNCHANGED <<tasks, done, closed, once, kind, running, ran>>

\* The context ends while the caller waits for room or for its result.
Cancel(s) ==
  /\ \/ At(s, "select") /\ kind[s] # "TrySubmit"
     \/ At(s, "await")
  /\ Goto(s, "done")
  /\ UNCHANGED <<tasks, done, closed, once, kind, running, ran>>

\* SubmitWait receives from resultCh.
Receive(s) ==
  /\ At(s, "await")
  /\ s \in ran
  /\ Goto(s, "done")
  /\ UNCHANGED <<tasks, done, closed, once, kind, running, ran>>

-----------------------------------------------------------------------------
(* Workers. *)

RemainingKept == tasks                                   \* mutant
Remaining == Tail(tasks)

\* A receive from tasks; the runner is busy until the task returns.
Take(r) ==
  /\ running[r] = None
  /\ tasks # <<>>
  /\ running' = [running EXCEPT ![r] = Head(tasks)]
  /\ tasks' = Remaining
  /\ UNCHANGED <<done, closed, once, pc, kind, ran>>

\* runTask: the task returns, fails or panics, and its result is sent.
Finish(r) ==
  /\ running[r] # None
  /\ ran' = ran \cup {running[r]}
  /\ running' = [running EXCEPT ![r] = None]
  /\ UNCHANGED <<tasks, done, closed, once, pc, kind>>

WorkerTake(w) == pc[w] \in {"loop", "drain"} /\ Take(w)

SeeDone(w) ==
  /\ At(w, "loop") /\ running[w] = None
  /\ done
  /\ Goto(w, "drain")
  /\ UNCHANGED <<tasks, done, closed, once, kind, running, ran>>

\* The inner select's default: nothing is queued, the worker returns.
NothingQueuedUnchecked == TRUE                           \* mutant
NothingQueued == tasks = <<>>
Leave(w) ==
  /\ At(w, "drain") /\ running[w] = None
  /\ NothingQueued
  /\ Goto(w, "gone")
  /\ UNCHANGED <<tasks, done, closed, once, kind, running, ran>>

-----------------------------------------------------------------------------
(* Close. *)

\* closeOnce.Do runs its function for one caller; the others wait for it.
CloseFlag(c) ==
  /\ At(c, "idle") /\ once = "free"
  /\ once' = "held"
  /\ closed' = TRUE
  /\ Goto(c, "signal")
  /\ UNCHANGED <<tasks, done, kind, running, ran>>

CloseDone(c) ==
  /\ At(c, "signal")
  /\ done' = TRUE
  /\ Goto(c, "wait")
  /\ UNCHANGED <<tasks, closed, once, kind, running, ran>>

\* wg.Wait
WorkersGoneUnawaited == TRUE                             \* mutant
WorkersGone == \A w \in Workers : At(w, "gone")
AwaitWorkers(c) ==
  /\ At(c, "wait")
  /\ WorkersGone
  /\ Goto(c, "orphans")
  /\ UNCHANGED <<tasks, done, closed, once, kind, running, ran>>

\* drainOrphanedTasks: Close runs what it still finds in the queue.
OrphanTake(c) == At(c, "orphans") /\ Take(c)

Return(c) ==
  /\ At(c, "orphans") /\ running[c] = None
  /\ NothingQueued
  /\ once' = "over"
  /\ Goto(c, "returned")
  /\ UNCHANGED <<tasks, done, closed, kind, running, ran>>

CloseAgain(c) ==
  /\ At(c, "idle") /\ once = "over"
  /\ Goto(c, "returned")
  /\ UNCHANGED <<tasks, done, closed, once, kind, running, ran>>

-----------------------------------------------------------------------------
Submitting(s) == Enqueue(s) \/ Refuse(s) \/ Receive(s)
Working(w)    == WorkerTake(w) \/ Finish(w) \/ SeeDone(w) \/ Leave(w)
Closing(c)    == CloseDone(c) \/ AwaitWorkers(c) \/ OrphanTake(c) \/ Finish(c) \/ Return(c)

\* Everybody has returned; a pool that is never closed keeps its workers.
Quiet ==
  /\ \A s \in Submitters : At(s, "done")
  /\ \A r \in Runners : running[r] = None /\ pc[r] \in {"loop", "gone", "idle", "returned"}
  /\ UNCHANGED vars

Next ==
  \/ \E s \in Submitters : Validate(s) \/ Submitting(s) \/ Cancel(s)
  \/ \E w \in Workers : Working(w)
  \/ \E c \in Closers : CloseFlag(c) \/ Closing(c) \/ CloseAgain(c)
  \/ Quiet

Spec == Init /\ [][Next]_vars

\* Goroutines in the package run on and tasks return; nobody has to submit or
\* to close, and no context has to end.
Progress ==
  /\ \A s \in Submitters : WF_vars(Submitting(s))
  /\ \A w \in Workers : WF_vars(Working(w))
  /\ \A c \in Closers : WF_vars(Closing(c))

-----------------------------------------------------------------------------
(* Properties. *)

Queued == {tasks[i] : i \in DOMAIN tasks}
Busy   == {running[r] : r \in Runners} \ {None}

\* Everything has its type, and no task is run twice: it is in the queue once, or
\* with one runner, or has run, whoever drains the queue (worker,
\* drainOrphanedTasks).
RunAtMostOnce ==
  /\ TypeOK
  /\ \A i, j \in DOMAIN tasks : tasks[i] = tasks[j] => i = j
  /\ \A r, q \in Runners : running[r] = running[q] /\ r # q => running[r] = None
  /\ Queued \cap Busy = {} /\ Queued \cap ran = {} /\ Busy \cap ran = {}

\* SubmitWait's comment: a queued task always completes, so its caller gets
\* its result without having to end its context.
QueuedTaskCompletes == \A s \in Submitters : s \in Queued ~> s \in ran

\* Close returns although others submit and close at the same time.
CloseReturns == closed ~> \A c \in Closers : pc[c] \in {"idle", "returned"}
=============================================================================
