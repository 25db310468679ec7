-------------------------- MODULE WorkerPoolProofs --------------------------
(***************************************************************************)
(* Proofs about the worker pool for any submitters, workers, closers and   *)
(* any size of the queue.  A task is in at most one place, which is what   *)
(* RunAtMostOnce says; that Close leaves no early task behind needs to say *)
(* besides how far the one Close that runs has come, and what it found.    *)
(***************************************************************************)
EXTENDS WorkerPoolHistory, SequenceTheorems, TLAPS

\* Every goroutine has labels of its own kind.
PcInv ==
  /\ \A s \in Submitters : pc[s] \in SubmitPC
  /\ \A w \in Workers : pc[w] \in WorkerPC
  /\ \A c \in Closers : pc[c] \in CloserPC

Distinct == \A i, j \in DOMAIN tasks : tasks[i] = tasks[j] => i = j
Alone    == \A r, q \in Runners : running[r] = running[q] /\ r # q => running[r] = None
Apart    == Queued \cap Busy = {} /\ Queued \cap ran = {} /\ Busy \cap ran = {}

\* A task that was not submitted yet is nowhere.
FreshInv == \A s \in Submitters : pc[s] \in {"idle", "select"} => s \notin Queued \cup Busy \cup ran

TaskInv == TypeOK /\ PcInv /\ Distinct /\ Alone /\ Apart /\ FreshInv

\* Who is in a task: no worker that has returned, and no closer before the drain.
BusyInv ==
  /\ \A w \in Workers : running[w] # None => pc[w] # "gone"
  /\ \A c \in Closers : running[c] # None => pc[c] = "orphans"

\* One closer is inside closeOnce, and what is true for it at each of its steps.
Inside == {"signal", "wait", "orphans"}

CloserInv ==
  /\ \A c, d \in Closers : pc[c] \in Inside /\ pc[d] \in Inside => c = d
  /\ \A c \in Closers :
        /\ pc[c] \in Inside => once = "held"
        /\ pc[c] = "returned" => once = "over"
        /\ pc[c] \in {"wait", "orphans"} => done
        /\ pc[c] = "orphans" => WorkersGone
  /\ once = "over" => done /\ WorkersGone

CloseInv == BusyInv /\ CloserInv

\* An early task is queued, in a runner, or has run, and after Close it has run.
EarlyInv ==
  /\ early \subseteq Queued \cup Busy \cup ran
  /\ once = "over" => early \subseteq ran /\ Busy = {}

-----------------------------------------------------------------------------
(* The queue and the runners. *)

LEMMA QueueGrows ==
  ASSUME tasks \in Seq(Submitters), NEW s \in Submitters, tasks' = Append(tasks, s)
  PROVE  /\ tasks' \in Seq(Submitters) /\ Len(tasks') = Len(tasks) + 1
         /\ Queued' = Queued \cup {s}
         /\ tasks'[Len(tasks')] = s
         /\ Distinct /\ s \notin Queued => Distinct'
<1>1. /\ tasks' \in Seq(Submitters) /\ Len(tasks') = Len(tasks) + 1
      /\ DOMAIN tasks = 1 .. Len(tasks) /\ DOMAIN tasks' = 1 .. Len(tasks) + 1
      /\ \A i \in 1 .. Len(tasks) : tasks'[i] = tasks[i]
      /\ tasks'[Len(tasks) + 1] = s
      /\ Len(tasks) \in Nat
  BY AppendProperties, LenProperties
<1>2. Queued' = Queued \cup {s}
  BY <1>1 DEF Queued
<1>3. ASSUME Distinct, s \notin Queued PROVE Distinct'
  BY <1>1, <1>3 DEF Distinct, Queued
<1>. QED
  BY <1>1, <1>2, <1>3

LEMMA QueueShrinks ==
  ASSUME tasks \in Seq(Submitters), tasks # <<>>, tasks' = Remaining, Distinct
  PROVE  /\ tasks' \in Seq(Submitters) /\ Len(tasks') = Len(tasks) - 1
         /\ Head(tasks) \in Queued /\ Head(tasks) \in Submitters
         /\ Queued' = Queued \ {Head(tasks)}
         /\ Distinct'
<1>1. /\ tasks' \in Seq(Submitters) /\ Len(tasks') = Len(tasks) - 1
      /\ Head(tasks) \in Submitters
      /\ \A i \in 1 .. Len(tasks) - 1 : tasks'[i] = tasks[i + 1]
  BY HeadTailProperties DEF Remaining
<1>2. /\ DOMAIN tasks = 1 .. Len(tasks) /\ DOMAIN tasks' = 1 .. Len(tasks) - 1
      /\ Len(tasks) \in Nat /\ Len(tasks) >= 1
  BY <1>1, LenProperties, EmptySeq
<1>3. Head(tasks) = tasks[1]
  BY HeadTailProperties
<1>4. Head(tasks) \in Queued
  BY <1>2, <1>3 DEF Queued
<1>5. Distinct'
  BY <1>1, <1>2 DEF Distinct
<1>6. Queued' = Queued \ {Head(tasks)}
  <2>1. ASSUME NEW i \in DOMAIN tasks' PROVE tasks'[i] \in Queued \ {Head(tasks)}
    BY <1>1, <1>2, <1>3 DEF Distinct, Queued
  <2>2. ASSUME NEW i \in DOMAIN tasks, tasks[i] # Head(tasks)
        PROVE  i - 1 \in DOMAIN tasks' /\ tasks'[i - 1] = tasks[i]
    BY <2>2, <1>1, <1>2, <1>3
  <2>. QED
    BY <2>1, <2>2 DEF Queued
<1>. QED
  BY <1>1, <1>4, <1>5, <1>6

LEMMA BusyGrows ==
  ASSUME TypeOK, NEW r \in Runners, running[r] = None, NEW t \in Submitters, t \notin Busy,
         running' = [running EXCEPT ![r] = t]
  PROVE  Busy' = Busy \cup {t} /\ (Alone => Alone')
<1>1. /\ \A q \in Runners : running'[q] = IF q = r THEN t ELSE running[q]
      /\ None \notin Submitters
  BY ActorsAssumption DEF TypeOK
<1>2. Busy' = Busy \cup {t}
  BY <1>1 DEF Busy
<1>3. Alone => Alone'
  BY <1>1 DEF Alone, Busy
<1>. QED
  BY <1>2, <1>3

LEMMA BusyShrinks ==
  ASSUME TypeOK, Alone, NEW r \in Runners, running[r] # None,
         running' = [running EXCEPT ![r] = None]
  PROVE  /\ Busy' = Busy \ {running[r]} /\ running[r] \in Busy /\ running[r] \in Submitters
         /\ Alone'
<1>1. \A q \in Runners : running'[q] = IF q = r THEN None ELSE running[q]
  BY DEF TypeOK
<1>2. Busy' = Busy \ {running[r]}
  BY <1>1 DEF Busy, Alone
<1>3. Alone'
  BY <1>1 DEF Alone
<1>4. running[r] \in Submitters
  BY DEF TypeOK
<1>. QED
  BY <1>2, <1>3, <1>4 DEF Busy

-----------------------------------------------------------------------------
(* TaskInv is inductive. *)

\* A step that moves a goroutine and no task.
LEMMA MovesKeepTasks ==
  ASSUME TaskInv, NEW g \in Submitters \cup Runners, NEW label, Goto(g, label),
         \/ g \in Submitters /\ label \in SubmitPC /\ (label = "select" => pc[g] = "idle")
                             /\ label # "idle"
         \/ g \in Workers /\ label \in WorkerPC
         \/ g \in Closers /\ label \in CloserPC,
         UNCHANGED <<tasks, kind, running, ran>>, done' \in BOOLEAN, closed' \in BOOLEAN,
         once' \in {"free", "held", "over"}
  PROVE  TaskInv'
<1>. USE ActorsAssumption DEF TaskInv
<1>1. /\ \A h \in Submitters \cup Runners : pc'[h] = IF h = g THEN label ELSE pc[h]
      /\ pc' \in [Submitters \cup Runners -> SubmitPC \cup WorkerPC \cup CloserPC]
  BY DEF TypeOK, Goto
<1>2. TypeOK'
  BY <1>1 DEF TypeOK
<1>3. PcInv'
  BY <1>1 DEF PcInv, Runners
<1>4. Queued' = Queued /\ Busy' = Busy
  BY DEF Queued, Busy
<1>5. Distinct' /\ Alone' /\ Apart'
  BY <1>4 DEF Distinct, Alone, Apart
<1>6. FreshInv'
  BY <1>1, <1>4 DEF FreshInv, Runners
<1>. QED
  BY <1>2, <1>3, <1>5, <1>6

LEMMA EnqueueKeepsTasks ==
  ASSUME TaskInv, NEW s \in Submitters, Enqueue(s)
  PROVE  TaskInv'
<1>. USE DEF TaskInv
<1>1. tasks' = Append(tasks, s) /\ pc[s] = "select" /\ Len(tasks) < QueueSize
  BY DEF Enqueue, At, Room
<1>2. tasks \in Seq(Submitters) /\ QueueSize \in Nat /\ Len(tasks) \in Nat
  BY QueueAssumption, LenProperties DEF TypeOK
<1>3. s \notin Queued /\ s \notin Busy /\ s \notin ran
  BY <1>1 DEF FreshInv
<1>4. /\ tasks' \in Seq(Submitters) /\ Len(tasks') = Len(tasks) + 1
      /\ Queued' = Queued \cup {s} /\ Distinct'
  BY <1>1, <1>2, <1>3, QueueGrows
<1>5. /\ pc' \in [Submitters \cup Runners -> SubmitPC \cup WorkerPC \cup CloserPC]
      /\ \A h \in (Submitters \cup Runners) \ {s} : pc'[h] = pc[h]
      /\ pc'[s] \in {"await", "done"}
  BY DEF Enqueue, Goto, TypeOK, SubmitPC
<1>6. UNCHANGED <<done, closed, once, kind, running, ran>> /\ Busy' = Busy
  BY DEF Enqueue, Busy
<1>7. TypeOK'
  BY <1>1, <1>2, <1>4, <1>5, <1>6 DEF TypeOK
<1>8. PcInv'
  BY <1>5, ActorsAssumption DEF PcInv, Runners, SubmitPC
<1>9. Alone' /\ Apart'
  BY <1>3, <1>4, <1>6 DEF Alone, Apart
<1>10. FreshInv'
  BY <1>3, <1>4, <1>5, <1>6 DEF FreshInv
<1>. QED
  BY <1>4, <1>7, <1>8, <1>9, <1>10

LEMMA TakeKeepsTasks ==
  ASSUME TaskInv, NEW r \in Runners, Take(r)
  PROVE  TaskInv' /\ Queued' \cup Busy' = Queued \cup Busy
<1>. USE DEF TaskInv
<1>1. /\ tasks # <<>> /\ tasks' = Remaining /\ running[r] = None
      /\ running' = [running EXCEPT ![r] = Head(tasks)]
      /\ UNCHANGED <<done, closed, once, pc, kind, ran>>
  BY DEF Take
<1>2. /\ tasks' \in Seq(Submitters) /\ Len(tasks') = Len(tasks) - 1
      /\ Head(tasks) \in Queued /\ Head(tasks) \in Submitters
      /\ Queued' = Queued \ {Head(tasks)} /\ Distinct'
  BY <1>1, QueueShrinks DEF TypeOK
<1>3. Head(tasks) \notin Busy /\ Head(tasks) \notin ran
  BY <1>2 DEF Apart
<1>4. Busy' = Busy \cup {Head(tasks)} /\ Alone'
  BY <1>1, <1>2, <1>3, BusyGrows
<1>5. TypeOK'
  <2>1. Len(tasks') <= QueueSize
    BY <1>2, LenProperties, QueueAssumption DEF TypeOK
  <2>. QED
    BY <1>1, <1>2, <2>1 DEF TypeOK
<1>6. PcInv' /\ Apart' /\ FreshInv'
  BY <1>1, <1>2, <1>3, <1>4 DEF PcInv, Apart, FreshInv
<1>. QED
  BY <1>2, <1>4, <1>5, <1>6

LEMMA FinishKeepsTasks ==
  ASSUME TaskInv, NEW r \in Runners, Finish(r)
  PROVE  /\ TaskInv'
         /\ Queued' = Queued /\ Busy' \cup ran' = Busy \cup ran /\ Busy' \subseteq Busy
<1>. USE DEF TaskInv
<1>1. /\ running[r] # None /\ running' = [running EXCEPT ![r] = None]
      /\ ran' = ran \cup {running[r]}
      /\ UNCHANGED <<tasks, done, closed, once, pc, kind>>
  BY DEF Finish
<1>2. /\ Busy' = Busy \ {running[r]} /\ running[r] \in Busy /\ running[r] \in Submitters
      /\ Alone'
  BY <1>1, BusyShrinks
<1>3. Queued' = Queued /\ Distinct'
  BY <1>1 DEF Queued, Distinct
<1>4. TypeOK'
  BY <1>1, <1>2 DEF TypeOK
<1>5. PcInv' /\ Apart' /\ FreshInv'
  BY <1>1, <1>2, <1>3 DEF PcInv, Apart, FreshInv
<1>. QED
  BY <1>1, <1>2, <1>3, <1>4, <1>5

LEMMA InitTasks == Init => TaskInv
<1>. SUFFICES ASSUME Init PROVE TaskInv
  OBVIOUS
<1>. USE ActorsAssumption, QueueAssumption DEF Init
<1>1. TypeOK
  <2>1. tasks \in Seq(Submitters) /\ Len(tasks) <= QueueSize
    BY EmptySeq
  <2>2. pc \in [Submitters \cup Runners -> SubmitPC \cup WorkerPC \cup CloserPC]
    BY DEF SubmitPC, WorkerPC
  <2>. QED
    BY <2>1, <2>2 DEF TypeOK
<1>2. PcInv
  BY DEF PcInv, Runners, SubmitPC, WorkerPC, CloserPC
<1>3. Queued = {} /\ Busy = {} /\ Distinct
  BY DEF Queued, Busy, Distinct
<1>4. Alone /\ Apart /\ FreshInv
  BY <1>3 DEF Alone, Apart, FreshInv
<1>. QED
  BY <1>1, <1>2, <1>3, <1>4 DEF TaskInv

LEMMA StepKeepsTasks == TaskInv /\ [Next]_vars => TaskInv'
<1>. SUFFICES ASSUME TaskInv, [Next]_vars PROVE TaskInv'
  OBVIOUS
<1>0. done \in BOOLEAN /\ closed \in BOOLEAN /\ once \in {"free", "held", "over"}
  BY DEF TaskInv, TypeOK
<1>1. ASSUME NEW s \in Submitters, Validate(s) \/ Refuse(s) \/ Receive(s) \/ Cancel(s)
      PROVE  TaskInv'
  <2>1. /\ Goto(s, "done") \/ (Goto(s, "select") /\ pc[s] = "idle")
        /\ UNCHANGED <<tasks, done, closed, once, kind, running, ran>>
    BY <1>1 DEF Validate, Refuse, Receive, Cancel, At
  <2>. QED
    BY <1>0, <2>1, MovesKeepTasks DEF SubmitPC
<1>2. ASSUME NEW w \in Workers, SeeDone(w) \/ Leave(w) PROVE TaskInv'
  <2>1. /\ Goto(w, "drain") \/ Goto(w, "gone")
        /\ UNCHANGED <<tasks, done, closed, once, kind, running, ran>>
    BY <1>2 DEF SeeDone, Leave
  <2>. QED
    BY <1>0, <2>1, MovesKeepTasks DEF WorkerPC, Runners
<1>3. ASSUME NEW c \in Closers,
             CloseFlag(c) \/ CloseDone(c) \/ AwaitWorkers(c) \/ Return(c) \/ CloseAgain(c)
      PROVE  TaskInv'
  <2>1. /\ \E label \in CloserPC : Goto(c, label)
        /\ UNCHANGED <<tasks, kind, running, ran>>
        /\ done' \in BOOLEAN /\ closed' \in BOOLEAN /\ once' \in {"free", "held", "over"}
    BY <1>0, <1>3 DEF CloseFlag, CloseDone, AwaitWorkers, Return, CloseAgain, CloserPC
  <2>. QED
    BY <2>1, MovesKeepTasks DEF Runners
<1>4. ASSUME NEW r \in Runners, Take(r) \/ Finish(r) PROVE TaskInv'
  BY <1>4, TakeKeepsTasks, FinishKeepsTasks
<1>5. CASE UNCHANGED vars
  BY <1>5 DEF vars, TaskInv, TypeOK, PcInv, Distinct, Alone, Apart, FreshInv, Queued, Busy
<1>. QED
  BY <1>1, <1>2, <1>3, <1>4, <1>5, EnqueueKeepsTasks
     DEF Next, Submitting, Working, Closing, WorkerTake, OrphanTake, Quiet, Runners

\* No task is run twice, whoever drains the queue, and everything has its type
\* (worker, drainOrphanedTasks).
THEOREM TasksRunAtMostOnce == Spec => []RunAtMostOnce
<1>1. TaskInv => RunAtMostOnce
  BY DEF TaskInv, RunAtMostOnce, Distinct, Alone, Apart
<1>. QED
  BY InitTasks, StepKeepsTasks, <1>1, PTL DEF Spec
-----------------------------------------------------------------------------
(* CloseInv is inductive, given TaskInv. *)

\* Steps of submitters change nothing of it.
LEMMA SubmittersKeepClose ==
  ASSUME TaskInv, CloseInv, NEW s \in Submitters, Goto(s, "select") \/ Goto(s, "await") \/ Goto(s, "done"),
         UNCHANGED <<done, once, running>>
  PROVE  CloseInv'
<1>. USE ActorsAssumption
<1>1. \A r \in Runners : pc'[r] = pc[r]
  BY DEF TaskInv, TypeOK, Goto
<1>2. BusyInv'
  BY <1>1 DEF CloseInv, BusyInv, Runners
<1>3. CloserInv'
  BY <1>1 DEF CloseInv, CloserInv, WorkersGone, At, Runners
<1>. QED
  BY <1>2, <1>3 DEF CloseInv

\* A runner that takes or finishes a task stays where it is.
LEMMA TasksKeepClose ==
  ASSUME TaskInv, CloseInv, NEW r \in Runners,
         \/ Finish(r)
         \/ r \in Workers /\ WorkerTake(r)
         \/ r \in Closers /\ OrphanTake(r)
  PROVE  CloseInv'
<1>1. /\ UNCHANGED <<pc, done, once>>
      /\ \A q \in Runners : q # r => running'[q] = running[q]
      /\ running'[r] # None => \/ r \in Workers /\ pc[r] # "gone"
                               \/ r \in Closers /\ pc[r] = "orphans"
  BY DEF TaskInv, TypeOK, Finish, WorkerTake, OrphanTake, Take, At
<1>2. BusyInv'
  BY <1>1, ActorsAssumption DEF CloseInv, BusyInv, Runners
<1>3. CloserInv'
  BY <1>1 DEF CloseInv, CloserInv, WorkersGone, At
<1>. QED
  BY <1>2, <1>3 DEF CloseInv

\* A worker goes only from the loop to the drain and from there, idle, away.
LEMMA WorkersKeepClose ==
  ASSUME TaskInv, CloseInv, NEW w \in Workers, SeeDone(w) \/ Leave(w)
  PROVE  CloseInv'
<1>. USE ActorsAssumption
<1>1. /\ running[w] = None /\ pc[w] # "gone"
      /\ UNCHANGED <<running, done, once>>
      /\ \A q \in Runners : q # w => pc'[q] = pc[q]
  BY DEF TaskInv, TypeOK, SeeDone, Leave, At, Goto
<1>2. BusyInv'
  BY <1>1 DEF CloseInv, BusyInv, Runners
<1>3. ~WorkersGone
  BY <1>1 DEF WorkersGone, At
<1>4. CloserInv'
  BY <1>1, <1>3 DEF CloseInv, CloserInv, Runners
<1>. QED
  BY <1>2, <1>4 DEF CloseInv

LEMMA ClosersKeepClose ==
  ASSUME TaskInv, CloseInv, NEW c \in Closers,
         CloseFlag(c) \/ CloseDone(c) \/ AwaitWorkers(c) \/ Return(c) \/ CloseAgain(c)
  PROVE  CloseInv'
<1>. USE ActorsAssumption DEF Inside, CloseInv
<1>1. /\ UNCHANGED running
      /\ \A q \in Runners : q # c => pc'[q] = pc[q]
  BY DEF TaskInv, TypeOK, CloseFlag, CloseDone, AwaitWorkers, Return, CloseAgain, Goto
<1>2. pc[c] = "orphans" => running[c] = None
  BY DEF CloseFlag, CloseDone, AwaitWorkers, Return, CloseAgain, At
<1>3. (WorkersGone' <=> WorkersGone) /\ (done => done')
  BY <1>1 DEF WorkersGone, At, CloseFlag, CloseDone, AwaitWorkers, Return, CloseAgain, Runners
<1>4. running[c] = None
  BY <1>2 DEF BusyInv
<1>5. BusyInv'
  BY <1>1, <1>4 DEF BusyInv, Runners
<1>6. CASE CloseFlag(c)
  <2>1. pc'[c] = "signal" /\ once = "free" /\ once' = "held" /\ done' = done
    BY <1>6 DEF CloseFlag, Goto, At, TaskInv, TypeOK, Runners
  <2>2. \A d \in Closers : pc[d] \notin Inside /\ pc[d] # "returned"
    BY <2>1 DEF CloserInv
  <2>. QED
    BY <1>1, <1>5, <2>1, <2>2 DEF CloserInv, Runners
<1>7. CASE CloseDone(c)
  <2>1. pc[c] = "signal" /\ pc'[c] = "wait" /\ once' = once /\ done'
    BY <1>7 DEF CloseDone, Goto, At, TaskInv, TypeOK, Runners
  <2>. QED
    BY <1>1, <1>3, <1>5, <2>1 DEF CloserInv, Runners
<1>8. CASE AwaitWorkers(c)
  <2>1. /\ pc[c] = "wait" /\ pc'[c] = "orphans" /\ once' = once /\ done' = done
        /\ WorkersGone
    BY <1>8 DEF AwaitWorkers, Goto, At, TaskInv, TypeOK, Runners
  <2>. QED
    BY <1>1, <1>3, <1>5, <2>1 DEF CloserInv, Runners
<1>9. CASE Return(c)
  <2>1. pc[c] = "orphans" /\ pc'[c] = "returned" /\ once' = "over" /\ done' = done
    BY <1>9 DEF Return, Goto, At, TaskInv, TypeOK, Runners
  <2>2. /\ \A d \in Closers : d # c => pc[d] \notin Inside
        /\ done /\ WorkersGone
    BY <2>1 DEF CloserInv
  <2>. QED
    BY <1>1, <1>3, <1>5, <2>1, <2>2 DEF CloserInv, Runners
<1>10. CASE CloseAgain(c)
  <2>1. pc'[c] = "returned" /\ once = "over" /\ once' = once /\ done' = done
    BY <1>10 DEF CloseAgain, Goto, At, TaskInv, TypeOK, Runners
  <2>. QED
    BY <1>1, <1>3, <1>5, <2>1 DEF CloserInv, Runners
<1>. QED
  BY <1>6, <1>7, <1>8, <1>9, <1>10

LEMMA InitClose == Init => CloseInv
<1>. SUFFICES ASSUME Init PROVE CloseInv
  OBVIOUS
<1>1. /\ \A r \in Runners : running[r] = None
      /\ \A c \in Closers : pc[c] = "idle"
      /\ once = "free"
  BY ActorsAssumption DEF Init, Runners
<1>. QED
  BY <1>1 DEF CloseInv, BusyInv, CloserInv, Inside, Runners

LEMMA StepKeepsClose == TaskInv /\ CloseInv /\ [Next]_vars => CloseInv'
<1>. SUFFICES ASSUME TaskInv, CloseInv, [Next]_vars PROVE CloseInv'
  OBVIOUS
<1>1. ASSUME NEW s \in Submitters, Validate(s) \/ Submitting(s) \/ Cancel(s) PROVE CloseInv'
  <2>1. /\ Goto(s, "select") \/ Goto(s, "await") \/ Goto(s, "done")
        /\ UNCHANGED <<done, once, running>>
    BY <1>1 DEF Validate, Submitting, Enqueue, Refuse, Receive, Cancel
  <2>. QED
    BY <2>1, SubmittersKeepClose
<1>2. ASSUME NEW w \in Workers, Working(w) PROVE CloseInv'
  BY <1>2, TasksKeepClose, WorkersKeepClose DEF Working, Runners
<1>3. ASSUME NEW c \in Closers, CloseFlag(c) \/ Closing(c) \/ CloseAgain(c) PROVE CloseInv'
  BY <1>3, TasksKeepClose, ClosersKeepClose DEF Closing, Runners
<1>4. CASE UNCHANGED vars
  BY <1>4 DEF vars, CloseInv, BusyInv, CloserInv, WorkersGone, At
<1>. QED
  BY <1>1, <1>2, <1>3, <1>4 DEF Next, Quiet

-----------------------------------------------------------------------------
(* EarlyInv is inductive, given both. *)

\* A task that is recorded is queued by the step that records it.
LEMMA OnlyEnqueuedIsRecorded ==
  ASSUME TaskInv, [Next]_vars, NEW s \in Submitters, Enqueues(s)
  PROVE  s \in Queued'
<1>. USE DEF TaskInv, TypeOK
<1>1. /\ tasks \in Seq(Submitters) /\ Len(tasks) \in Nat /\ Len(tasks') > Len(tasks)
      /\ tasks'[Len(tasks')] = s
  BY LenProperties DEF Enqueues
<1>2. TaskInv'
  BY StepKeepsTasks
<1>3. Len(tasks') \in DOMAIN tasks'
  BY <1>1, <1>2, LenProperties
<1>. QED
  BY <1>1, <1>3 DEF Queued

LEMMA StepKeepsEarly == TaskInv /\ CloseInv /\ EarlyInv /\ [HNext]_hvars => EarlyInv'
<1>. SUFFICES ASSUME TaskInv, CloseInv, EarlyInv, [HNext]_hvars PROVE EarlyInv'
  OBVIOUS
<1>1. CASE UNCHANGED hvars
  BY <1>1 DEF hvars, vars, EarlyInv, Queued, Busy
<1>2. CASE Next /\ Record
  <2>. DEFINE Known == Queued \cup Busy \cup ran
  <2>1. /\ Known \subseteq Known' /\ ran \subseteq ran'
        /\ once = "over" => Busy' \subseteq Busy
    <3>1. ASSUME NEW s \in Submitters, Enqueue(s)
          PROVE  Known \subseteq Known' /\ ran' = ran /\ Busy' = Busy
      <4>1. tasks' = Append(tasks, s) /\ UNCHANGED <<running, ran>>
        BY <3>1 DEF Enqueue
      <4>2. Queued' = Queued \cup {s}
        BY <4>1, QueueGrows DEF TaskInv, TypeOK
      <4>. QED
        BY <4>1, <4>2 DEF Busy
    <3>2. ASSUME NEW r \in Runners, Take(r) PROVE Known \subseteq Known' /\ ran' = ran
      <4>1. ran' = ran
        BY <3>2 DEF Take
      <4>. QED
        BY <3>2, <4>1, TakeKeepsTasks
    <3>3. ASSUME NEW r \in Runners, (r \in Workers /\ WorkerTake(r)) \/ (r \in Closers /\ OrphanTake(r))
          PROVE  once # "over"
      BY <3>3 DEF CloseInv, CloserInv, WorkersGone, At, WorkerTake, OrphanTake, Inside
    <3>4. ASSUME NEW r \in Runners, Finish(r)
          PROVE  Known \subseteq Known' /\ ran \subseteq ran' /\ Busy' \subseteq Busy
      <4>1. ran \subseteq ran'
        BY <3>4 DEF Finish
      <4>. QED
        BY <3>4, <4>1, FinishKeepsTasks
    <3>5. ASSUME UNCHANGED <<tasks, running, ran>>
          PROVE  Known \subseteq Known' /\ ran \subseteq ran' /\ Busy' \subseteq Busy
      BY <3>5 DEF Queued, Busy
    <3>6. \/ \E s \in Submitters : Enqueue(s)
          \/ \E r \in Runners : (r \in Workers /\ WorkerTake(r)) \/ (r \in Closers /\ OrphanTake(r))
          \/ \E r \in Runners : Finish(r)
          \/ UNCHANGED <<tasks, running, ran>>
      BY <1>2 DEF Next, Submitting, Working, Closing, Quiet, Validate, Refuse, Receive, Cancel,
                  SeeDone, Leave, CloseFlag, CloseDone, AwaitWorkers, Return, CloseAgain,
                  vars, Runners
    <3>7. ASSUME NEW r \in Runners, WorkerTake(r) \/ OrphanTake(r) PROVE Take(r)
      BY <3>7 DEF WorkerTake, OrphanTake
    <3>. HIDE DEF Known
    <3>. QED
      BY <3>1, <3>2, <3>3, <3>4, <3>5, <3>6, <3>7
  <2>2. early' \subseteq early \cup Queued' /\ (done => early' = early)
    BY <1>2, OnlyEnqueuedIsRecorded DEF Record
  <2>3. early' \subseteq Known'
    BY <2>1, <2>2 DEF EarlyInv
  <2>4. ASSUME once' = "over" PROVE early' \subseteq ran' /\ Busy' = {}
    <3>1. CASE once = "over"
      BY <2>1, <2>2, <3>1 DEF EarlyInv, CloseInv, CloserInv
    <3>2. CASE once # "over"
      <4>1. PICK c \in Closers : Return(c)
        BY <1>2, <2>4, <3>2
           DEF Next, Submitting, Working, Closing, Quiet, Validate, Enqueue, Refuse, Receive,
               Cancel, WorkerTake, OrphanTake, Take, Finish, SeeDone, Leave, CloseFlag,
               CloseDone, AwaitWorkers, CloseAgain, vars
      <4>2. /\ pc[c] = "orphans" /\ running[c] = None /\ tasks = <<>>
            /\ UNCHANGED <<tasks, running, ran>>
        BY <4>1 DEF Return, At, NothingQueued
      <4>3. WorkersGone /\ done
        BY <4>2 DEF CloseInv, CloserInv
      <4>4. \A r \in Runners : running[r] = None
        BY <4>2, <4>3 DEF CloseInv, BusyInv, CloserInv, WorkersGone, At, Inside, Runners
      <4>5. Busy' = {} /\ Queued' = {}
        BY <4>2, <4>4 DEF Busy, Queued
      <4>. QED
        BY <2>3, <4>5
    <3>. QED
      BY <3>1, <3>2
  <2>. QED
    BY <2>3, <2>4 DEF EarlyInv
<1>. QED
  BY <1>1, <1>2 DEF HNext

\* When any call of Close has returned, every task queued before its signal has
\* run and no runner is in a task, however many callers close and submit at the
\* same time (Close, drainOrphanedTasks).
THEOREM CloseRunsEveryEarlyTask == HSpec => []CloseRunsWhatWasQueued
<1>. DEFINE Inv == TaskInv /\ CloseInv /\ EarlyInv
<1>1. HInit => Inv
  <2>1. ASSUME HInit PROVE EarlyInv
    BY <2>1 DEF HInit, Init, EarlyInv
  <2>. QED
    BY <2>1, InitTasks, InitClose DEF HInit
<1>2. Inv /\ [HNext]_hvars => Inv'
  <2>1. [HNext]_hvars => [Next]_vars
    BY DEF HNext, hvars
  <2>. QED
    BY <2>1, StepKeepsTasks, StepKeepsClose, StepKeepsEarly
<1>3. Inv => CloseRunsWhatWasQueued
  BY DEF CloseInv, CloserInv, EarlyInv, CloseRunsWhatWasQueued, At
<1>. HIDE DEF Inv
<1>. QED
  BY <1>1, <1>2, <1>3, PTL DEF HSpec
=============================================================================
