------------------------------- MODULE Batch -------------------------------
(***************************************************************************)
(* poolx.Batch: a buffer that is taken as a whole, handed to a flush       *)
(* function, and put back in front of what has come in meanwhile if that   *)
(* fails.                                                                  *)
(*                                                                         *)
(* An item is named by the call of Add that brings it.  The flush function *)
(* takes all of a batch or fails; a panic counts as failing.               *)
(***************************************************************************)
EXTENDS Integers, Sequences, FiniteSets, Functions

CONSTANTS
  Adders,      \* calls of Add, and their items
  Flushers,    \* calls of Flush
  Ticker,      \* the goroutine of ticker
  Closers,     \* calls of Close
  BatchSize

VARIABLES
  buf, closed,
  done,        \* whether the channel done is closed
  once,        \* closeOnce: "new", "running" or "done"
  pc,
  batch,       \* what a goroutine has taken out of the buffer
  delivered,   \* history: how often the flush function took each item
  late         \* history: items put back after Close had taken the buffer

vars == <<buf, closed, done, once, pc, batch, delivered, late>>

Goroutines == Adders \cup Flushers \cup {Ticker} \cup Closers
Labels == {"idle", "flush", "take", "call", "requeue", "signal", "done", "rejected"}

TypeOK ==
  /\ buf \in Seq(Adders) /\ closed \in BOOLEAN /\ done \in BOOLEAN
  /\ once \in {"new", "running", "done"}
  /\ pc \in [Goroutines -> Labels]
  /\ batch \in [Goroutines -> Seq(Adders)]
  /\ delivered \in [Adders -> Nat]
  /\ late \subseteq Adders

Init ==
  /\ buf = <<>> /\ closed = FALSE /\ done = FALSE /\ once = "new"
  /\ pc = [g \in Goroutines |-> "idle"]
  /\ batch = [g \in Goroutines |-> <<>>]
  /\ delivered = [a \in Adders |-> 0]
  /\ late = {}

At(g, label)   == pc[g] = label
Goto(g, label) == pc' = [pc EXCEPT ![g] = label]
Takes(g)       == batch' = [batch EXCEPT ![g] = buf] /\ buf' = <<>>

\* The ticker waits again, everybody else is through; Close leaves its Once.
Finish(g) ==
  /\ Goto(g, IF g = Ticker THEN "idle" ELSE "done")
  /\ once' = IF g \in Closers THEN "done" ELSE once

-----------------------------------------------------------------------------
\* Add looks at closed under the mutex.
Add(g) ==
  /\ At(g, "idle")
  /\ IF closed THEN Goto(g, "rejected") /\ UNCHANGED buf
     ELSE /\ buf' = Append(buf, g)
          /\ Goto(g, IF Len(buf') >= BatchSize THEN "flush" ELSE "done")
  /\ UNCHANGED <<closed, done, once, batch, delivered, late>>

\* A call of Flush begins, or the ticker's select takes a tick; it may do so
\* although done is closed as well.
Begin(g) ==
  /\ At(g, "idle")
  /\ Goto(g, "flush")
  /\ UNCHANGED <<buf, closed, done, once, batch, delivered, late>>

StopTicker ==
  /\ At(Ticker, "idle") /\ done
  /\ Goto(Ticker, "done")
  /\ UNCHANGED <<buf, closed, done, once, batch, delivered, late>>

Flush(g) ==
  /\ At(g, "flush")
  /\ IF closed THEN Finish(g) ELSE Goto(g, "take") /\ UNCHANGED once
  /\ UNCHANGED <<buf, closed, done, batch, delivered, late>>

TakeBuffer(g) ==
  /\ At(g, "take")
  /\ IF buf = <<>> THEN Finish(g) ELSE Goto(g, "call") /\ UNCHANGED once
  /\ Takes(g)
  /\ UNCHANGED <<closed, done, delivered, late>>

\* flushBatch: the flush function takes the batch,
Deliver(g) ==
  /\ At(g, "call")
  /\ delivered' = [a \in Adders |->
                     delivered[a] + Cardinality({i \in DOMAIN batch[g] : batch[g][i] = a})]
  /\ batch' = [batch EXCEPT ![g] = <<>>]
  /\ Finish(g)
  /\ UNCHANGED <<buf, closed, done, late>>

\* or fails.
Fail(g) ==
  /\ At(g, "call")
  /\ Goto(g, "requeue")
  /\ UNCHANGED <<buf, closed, done, once, batch, delivered, late>>

BufferReplaced(g) == batch[g]                            \* mutant
Restored(g) == batch[g] \o buf

Requeue(g) ==
  /\ At(g, "requeue")
  /\ buf' = Restored(g)
  /\ batch' = [batch EXCEPT ![g] = <<>>]
  /\ late' = IF closed THEN late \cup Range(batch[g]) ELSE late
  /\ Finish(g)
  /\ UNCHANGED <<closed, done, delivered>>

Close(g) ==
  /\ At(g, "idle") /\ once = "new"
  /\ once' = "running"
  /\ closed' = TRUE
  /\ Takes(g)
  /\ Goto(g, "signal")
  /\ UNCHANGED <<done, delivered, late>>

CloseAgain(g) ==
  /\ At(g, "idle") /\ once = "done"
  /\ Goto(g, "done")
  /\ UNCHANGED <<buf, closed, done, once, batch, delivered, late>>

CloseSignal(g) ==
  /\ At(g, "signal")
  /\ done' = TRUE
  /\ IF batch[g] = <<>> THEN Finish(g) ELSE Goto(g, "call") /\ UNCHANGED once
  /\ UNCHANGED <<buf, closed, batch, delivered, late>>

Quiet == \A g \in Goroutines : pc[g] \in {"done", "rejected"}
Rest  == Quiet /\ UNCHANGED vars

Next ==
  \/ \E g \in Adders : Add(g)
  \/ \E g \in Flushers \cup {Ticker} : Begin(g)
  \/ StopTicker
  \/ \E g \in Goroutines : Flush(g) \/ TakeBuffer(g) \/ Deliver(g) \/ Fail(g) \/ Requeue(g)
  \/ \E g \in Closers : Close(g) \/ CloseAgain(g) \/ CloseSignal(g)
  \/ Rest

Spec == Init /\ [][Next]_vars

-----------------------------------------------------------------------------
(* Properties. *)

Accepted == {a \in Adders : pc[a] \notin {"idle", "rejected"}}
Times(a, s) == Cardinality({i \in DOMAIN s : s[i] = a})
Copies(a) ==
  Times(a, buf) + Cardinality({g \in Goroutines : Times(a, batch[g]) = 1}) + delivered[a]

\* An item that Add has taken is in the buffer, or in the hands of one flush, or
\* was delivered, and only one of the three, however many flushes fail and put
\* their batches back (takeBuffer, requeue, Close).
OneCopy == \A a \in Adders : Copies(a) = IF a \in Accepted THEN 1 ELSE 0

\* When Close has returned and all flushes have ended, what is left in the buffer
\* was put back by a flush that failed while Close was under way or later; an
\* item that merely came in, however late, is not left behind (Add, Close).
OnlyFailuresAreLeft ==
  once = "done" /\ (\A g \in Goroutines : batch[g] = <<>>) => Range(buf) \subseteq late
=============================================================================
