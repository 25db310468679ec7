------------------------------ MODULE Shutdown ------------------------------
(***************************************************************************)
(* signalx: Trap's watcher ends a context when a signal comes, and every   *)
(* Wait on that context then runs the hooks that were registered with      *)
(* OnShutdown and one of its own, under a deadline.                        *)
(*                                                                         *)
(* A registered hook is named by the goroutine that registers it, the hook *)
(* of a Wait by its caller.                                                *)
(***************************************************************************)
EXTENDS Integers, Sequences, Functions

CONSTANTS
  Registrars,   \* goroutines that register one hook each
  Waiters,      \* goroutines that call Wait
  Bounded       \* those of them with a positive timeout

VARIABLES
  globalHooks,
  ch,           \* a signal is in the channel of the watcher
  ctxDone,      \* the context that Trap returned has ended
  watcher,      \* "starting", "select", "cancel", "stop" or "gone"
  pc,
  all,          \* WaitWith's list of hooks
  next,         \* the hook of that list it is at; those before it have run
  ended,        \* the deadline of shutCtx has passed
  timedOut,
  due,          \* history: the hooks registered when the context ended and kept since
  trapped       \* history: a signal came while Trap was watching for it

waits   == <<pc, all, next, ended, timedOut>>
signals == <<ch, ctxDone, watcher, trapped>>
vars    == <<globalHooks, due, signals, waits>>

Hooks == Registrars \cup Waiters

TypeOK ==
  /\ globalHooks \in Seq(Registrars) /\ due \subseteq Registrars
  /\ ch \in BOOLEAN /\ ctxDone \in BOOLEAN /\ trapped \in BOOLEAN
  /\ watcher \in {"starting", "select", "cancel", "stop", "gone"}
  /\ ended \in [Waiters -> BOOLEAN] /\ timedOut \in [Waiters -> BOOLEAN]
  /\ pc \in [Registrars \cup Waiters -> {"idle", "loop", "hook", "after", "done"}]
  /\ all \in [Waiters -> Seq(Hooks)]
  /\ next \in [Waiters -> Nat]

\* Trap has just returned: it has asked for the signals and started the watcher.
Init ==
  /\ globalHooks = <<>> /\ due = {}
  /\ ch = FALSE /\ ctxDone = FALSE /\ watcher = "starting" /\ trapped = FALSE
  /\ pc = [g \in Registrars \cup Waiters |-> "idle"]
  /\ all = [w \in Waiters |-> <<>>]
  /\ next = [w \in Waiters |-> 1]
  /\ ended = [w \in Waiters |-> FALSE] /\ timedOut = [w \in Waiters |-> FALSE]

At(g, label)   == pc[g] = label
Goto(g, label) == pc' = [pc EXCEPT ![g] = label]

-----------------------------------------------------------------------------
(* The registry. *)

OnShutdown(g) ==
  /\ At(g, "idle")
  /\ globalHooks' = Append(globalHooks, g)
  /\ Goto(g, "done")
  /\ UNCHANGED <<due, signals, all, next, ended, timedOut>>

ResetHooks ==
  /\ globalHooks # <<>>
  /\ globalHooks' = <<>> /\ due' = {}
  /\ UNCHANGED <<signals, waits>>

-----------------------------------------------------------------------------
(* Trap. *)

\* The runtime does not wait for the channel, which has room for one signal.
OnlyToReceiver ==                                        \* mutant
  UNCHANGED ch /\ watcher' = IF watcher = "select" THEN "cancel" ELSE watcher
Deliver == ch' = TRUE /\ UNCHANGED watcher

Signal ==
  /\ ~ctxDone
  /\ Deliver
  /\ trapped' = TRUE
  /\ UNCHANGED <<globalHooks, due, ctxDone, waits>>

Watch ==
  /\ watcher = "starting"
  /\ watcher' = "select"
  /\ UNCHANGED <<globalHooks, due, ch, ctxDone, trapped, waits>>

Receive ==
  /\ watcher = "select" /\ ch
  /\ ch' = FALSE
  /\ watcher' = "cancel"
  /\ UNCHANGED <<globalHooks, due, ctxDone, trapped, waits>>

EndContext == ctxDone' = TRUE /\ due' = IF ctxDone THEN due ELSE Range(globalHooks)

WatcherCancels ==
  /\ watcher = "cancel"
  /\ EndContext
  /\ watcher' = "stop"
  /\ UNCHANGED <<globalHooks, ch, trapped, waits>>

SeeDone ==
  /\ watcher = "select" /\ ctxDone
  /\ watcher' = "stop"
  /\ UNCHANGED <<globalHooks, due, ch, ctxDone, trapped, waits>>

\* signal.Stop, when the watcher returns
Stop ==
  /\ watcher = "stop"
  /\ watcher' = "gone"
  /\ UNCHANGED <<globalHooks, due, ch, ctxDone, trapped, waits>>

\* The CancelFunc that Trap returned, or the end of its parent.
Cancel ==
  /\ ~ctxDone
  /\ EndContext
  /\ UNCHANGED <<globalHooks, ch, watcher, trapped, waits>>

-----------------------------------------------------------------------------
(* Wait and WaitWith. *)

\* A Wait blocks until the context has ended; then shutdownContext and collectHooks.
Collect(w) ==
  /\ At(w, "idle") /\ ctxDone
  /\ all' = [all EXCEPT ![w] = Append(globalHooks, w)]
  /\ Goto(w, "loop")
  /\ UNCHANGED <<globalHooks, due, signals, next, ended, timedOut>>

More(w) == next[w] <= Len(all[w])

\* The head of the loop: over, out of time, or on to the next hook.
Loop(w) ==
  /\ At(w, "loop")
  /\ timedOut' = [timedOut EXCEPT ![w] = More(w) /\ ended[w]]
  /\ Goto(w, IF More(w) /\ ~ended[w] THEN "hook" ELSE "after")
  /\ UNCHANGED <<globalHooks, due, signals, all, next, ended>>

\* runHook: a panic of the hook only adds an error to the answer.
RunHook(w) ==
  /\ At(w, "hook")
  /\ next' = [next EXCEPT ![w] = @ + 1]
  /\ Goto(w, "loop")
  /\ UNCHANGED <<globalHooks, due, signals, all, ended, timedOut>>

\* The last hook may have overrun the deadline.
OnlyInLoop(w) == FALSE                                   \* mutant
Overrun(w) == w \in Bounded /\ ended[w]
After(w) ==
  /\ At(w, "after")
  /\ timedOut' = [timedOut EXCEPT ![w] = @ \/ Overrun(w)]
  /\ Goto(w, "done")
  /\ UNCHANGED <<globalHooks, due, signals, all, next, ended>>

\* shutCtx has a deadline only if the timeout is positive.
Deadline(w) ==
  /\ w \in Bounded /\ ~ended[w] /\ pc[w] \in {"loop", "hook", "after"}
  /\ ended' = [ended EXCEPT ![w] = TRUE]
  /\ UNCHANGED <<globalHooks, due, signals, pc, all, next, timedOut>>

Rest == watcher = "gone" /\ (\A g \in Registrars \cup Waiters : At(g, "done")) /\ UNCHANGED vars

Next ==
  \/ \E g \in Registrars : OnShutdown(g)
  \/ ResetHooks
  \/ Signal \/ Watch \/ Receive \/ WatcherCancels \/ SeeDone \/ Stop \/ Cancel
  \/ \E w \in Waiters :
       Collect(w) \/ Loop(w) \/ RunHook(w) \/ After(w) \/ Deadline(w)
  \/ Rest

Spec == Init /\ [][Next]_vars

-----------------------------------------------------------------------------
(* Properties. *)

\* A Wait leaves hooks out only if it says that its time was up, and says so only then;
\* no hook that was there when the context ended is missed, unless it was reset, and its
\* own comes last, however many Waits and OnShutdowns there are (WaitWith).
HooksRunOrReported ==
  \A w \in Waiters :
    /\ At(w, "done") => (timedOut[w] <=> ended[w]) /\ (~timedOut[w] => ~More(w))
    /\ ~At(w, "idle") => due \subseteq Range(all[w]) /\ all[w][Len(all[w])] = w

\* A signal that came while Trap was watching ends the context, even one that came
\* before its goroutine did anything (Trap).
SignalNotLost ==
  trapped => ctxDone \/ watcher = "cancel" \/ (ch /\ watcher \in {"starting", "select"})
=============================================================================
