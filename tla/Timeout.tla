------------------------------ MODULE Timeout ------------------------------
(***************************************************************************)
(* toutx: one call of Execute.  The function runs in a goroutine of its    *)
(* own and sends its result into a channel with room for it; Execute       *)
(* selects between that and the end of the timeout context, a child of the *)
(* caller's.  Every look at a context is a step.                           *)
(***************************************************************************)
EXTENDS Integers

VARIABLES
  parent,    \* error of the caller's context: "none", "canceled", "deadline"
  tctx,      \* error of the timeout context
  fn,        \* step of the goroutine
  ret,       \* what the function returned
  pc,
  answer,
  early      \* history: the result was there before the timeout context ended

vars == <<parent, tctx, fn, ret, pc, answer, early>>

CtxErrs == {"canceled", "deadline"}
Returns == {"value", "error", "canceled", "deadline"}
\* How Execute returns: with the function's own outcome or one of the package's errors.
Answers == {"own", "ErrCancelled", "ErrDeadlineExceeded"}

TypeOK ==
  /\ parent \in CtxErrs \cup {"none"} /\ tctx \in CtxErrs \cup {"none"}
  /\ fn \in {"off", "running", "sending", "sent"} /\ ret \in Returns \cup {"none"}
  /\ pc \in {"start", "select", "recheck", "cause", "normalize", "parentLive", "tctxLive",
             "parentDone", "expired", "whose", "done"}
  /\ answer \in Answers \cup {"none"} /\ early \in BOOLEAN

Init ==
  /\ parent = "none" /\ tctx = "none" /\ fn = "off" /\ ret = "none"
  /\ pc = "start" /\ answer = "none" /\ early = FALSE

-----------------------------------------------------------------------------
Goto(label) == pc' = label /\ UNCHANGED answer
Answer(a)   == pc' = "done" /\ answer' = a
Looks       == UNCHANGED <<parent, tctx, fn, ret, early>>

\* Execute up to awaitResult; the function that is nil returns at once and is left out.
Start ==
  /\ pc = "start"
  /\ \/ parent # "none" /\ Answer("ErrCancelled") /\ UNCHANGED fn
     \/ parent = "none" /\ Goto("select") /\ fn' = "running"
  /\ UNCHANGED <<parent, tctx, ret, early>>

Return ==
  /\ fn = "running"
  /\ ret' \in Returns
  /\ fn' = "sending"
  /\ UNCHANGED <<parent, tctx, pc, answer, early>>

Send ==
  /\ fn = "sending"
  /\ fn' = "sent"
  /\ early' = (tctx = "none")
  /\ UNCHANGED <<parent, tctx, ret, pc, answer>>

-----------------------------------------------------------------------------
(* awaitResult *)

Receive == pc \in {"select", "recheck"} /\ fn = "sent" /\ Goto("normalize") /\ Looks

SeeExpiry == pc = "select" /\ tctx # "none" /\ Goto("recheck") /\ Looks

AnyResult == TRUE                                            \* mutant
NoResult  == fn # "sent"
NothingThere == pc = "recheck" /\ NoResult /\ Goto("cause") /\ Looks

ByCause ==
  /\ pc = "cause"
  /\ Answer(IF parent # "none" THEN "ErrCancelled" ELSE "ErrDeadlineExceeded")
  /\ Looks

-----------------------------------------------------------------------------
(* normalizeResult *)

Normalize ==
  /\ pc = "normalize"
  /\ \/ ret \in {"value", "error"} /\ Answer("own")
     \/ ret = "canceled" /\ Goto("parentLive")
     \/ ret = "deadline" /\ Goto("expired")
  /\ Looks

\* A Canceled: both contexts live, and else whose it was
ParentLive ==
  /\ pc = "parentLive"
  /\ Goto(IF parent = "none" THEN "tctxLive" ELSE "parentDone")
  /\ Looks
TctxLive ==
  /\ pc = "tctxLive"
  /\ IF tctx = "none" THEN Answer("own") ELSE Goto("parentDone")
  /\ Looks
ParentDone ==
  /\ pc = "parentDone"
  /\ Answer(IF parent # "none" THEN "ErrCancelled" ELSE "ErrDeadlineExceeded")
  /\ Looks

\* A DeadlineExceeded
Expired ==
  /\ pc = "expired"
  /\ IF tctx = "none" THEN Answer("own") ELSE Goto("whose")
  /\ Looks
Whose ==
  /\ pc = "whose"
  /\ Answer(IF parent = "canceled" THEN "ErrCancelled" ELSE "ErrDeadlineExceeded")
  /\ Looks

-----------------------------------------------------------------------------
(* The contexts.  The end of the caller's reaches the timeout context later. *)

ParentEnds ==
  /\ parent = "none"
  /\ parent' \in CtxErrs
  /\ UNCHANGED <<tctx, fn, ret, pc, answer, early>>

Propagates ==
  /\ parent # "none" /\ tctx = "none" /\ pc # "start"
  /\ tctx' = parent
  /\ UNCHANGED <<parent, fn, ret, pc, answer, early>>

TimeoutFires ==
  /\ tctx = "none" /\ pc # "start"
  /\ tctx' = "deadline"
  /\ UNCHANGED <<parent, fn, ret, pc, answer, early>>

Rest == pc = "done" /\ fn \in {"off", "sent"} /\ UNCHANGED vars

Next ==
  \/ Start \/ Return \/ Send \/ Receive \/ SeeExpiry \/ NothingThere \/ ByCause
  \/ Normalize \/ ParentLive \/ TctxLive \/ ParentDone \/ Expired \/ Whose
  \/ ParentEnds \/ Propagates \/ TimeoutFires \/ Rest

Spec == Init /\ [][Next]_vars

-----------------------------------------------------------------------------
(* Properties. *)

\* A value or an error of the function's own that was sent before the timeout context
\* ended is what Execute returns, though both cases of its select may be ready.  Its own
\* Canceled or DeadlineExceeded is returned as it is if no context has ended by the time
\* normalizeResult has looked at them; one that ends after the result was sent may still
\* rename it.  A call whose context was cancelled first is never told that its deadline
\* passed, although the contexts are looked at one after the other (awaitResult,
\* normalizeResult).
EarlyResultKept ==
  pc = "done" =>
    /\ early /\ ret \in {"value", "error"} => answer = "own"
    /\ answer = "own" => fn = "sent"
    /\ answer = "ErrCancelled" => parent # "none"
    /\ answer = "ErrDeadlineExceeded" => tctx = "deadline"
=============================================================================
