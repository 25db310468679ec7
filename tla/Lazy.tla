-------------------------------- MODULE Lazy --------------------------------
(***************************************************************************)
(* syncx.Lazy: a value that the first Get makes and the others share,      *)
(* until a Reset.  The mutex is held while the init function runs.  A      *)
(* value is named by the caller whose init made it.                        *)
(***************************************************************************)
EXTENDS Integers

CONSTANTS
  Callers,     \* goroutines that call Get once
  MaxResets,   \* a bound of the model
  None

VARIABLES
  mu,          \* the caller that holds the mutex, or None
  done, val,
  pc,
  got,         \* the value that a Get returned, or None with an error
  resets,      \* Resets so far
  asked,       \* history: Resets before each Get was called
  began        \* history: Resets before each init began

vars == <<mu, done, val, pc, got, resets, asked, began>>

TypeOK ==
  /\ mu \in Callers \cup {None} /\ done \in BOOLEAN /\ val \in Callers \cup {None}
  /\ pc \in [Callers -> {"idle", "lock", "init", "value", "error"}]
  /\ got \in [Callers -> Callers \cup {None}]
  /\ resets \in 0 .. MaxResets
  /\ asked \in [Callers -> Nat] /\ began \in [Callers -> Nat]

\* NewLazy
Init ==
  /\ mu = None /\ done = FALSE /\ val = None
  /\ pc = [c \in Callers |-> "idle"] /\ got = [c \in Callers |-> None]
  /\ resets = 0 /\ asked = [c \in Callers |-> 0] /\ began = [c \in Callers |-> 0]

At(c, label)   == pc[c] = label
Goto(c, label) == pc' = [pc EXCEPT ![c] = label]

-----------------------------------------------------------------------------
Get(c) ==
  /\ At(c, "idle")
  /\ asked' = [asked EXCEPT ![c] = resets]
  /\ Goto(c, "lock")
  /\ UNCHANGED <<mu, done, val, got, resets, began>>

Cached(c) ==
  /\ At(c, "lock") /\ mu = None /\ done
  /\ got' = [got EXCEPT ![c] = val]
  /\ Goto(c, "value")
  /\ UNCHANGED <<mu, done, val, resets, asked, began>>

UnlocksForInit(c) == None                                \* mutant
Holder(c) == c
BeginInit(c) ==
  /\ At(c, "lock") /\ mu = None /\ ~done
  /\ mu' = Holder(c)
  /\ began' = [began EXCEPT ![c] = resets]
  /\ Goto(c, "init")
  /\ UNCHANGED <<done, val, got, resets, asked>>

InitSucceeds(c) ==
  /\ At(c, "init")
  /\ val' = c /\ done' = TRUE
  /\ got' = [got EXCEPT ![c] = c]
  /\ mu' = None
  /\ Goto(c, "value")
  /\ UNCHANGED <<resets, asked, began>>

\* An error, or a panic: nothing is kept of it.
InitFails(c) ==
  /\ At(c, "init")
  /\ mu' = None
  /\ Goto(c, "error")
  /\ UNCHANGED <<done, val, got, resets, asked, began>>

Reset ==
  /\ mu = None /\ resets < MaxResets
  /\ val' = None /\ done' = FALSE
  /\ resets' = resets + 1
  /\ UNCHANGED <<mu, pc, got, asked, began>>

Rest == (\A c \in Callers : pc[c] \in {"value", "error"}) /\ UNCHANGED vars

Next ==
  \/ \E c \in Callers :
       Get(c) \/ Cached(c) \/ BeginInit(c) \/ InitSucceeds(c) \/ InitFails(c)
  \/ Reset \/ Rest

Spec == Init /\ [][Next]_vars

-----------------------------------------------------------------------------
(* Properties. *)

\* Between two Resets all Gets return one value, and a Get that is called after a Reset
\* returns one that was begun after it (Get, Reset).
OneFreshValue ==
  \A c \in Callers : At(c, "value") =>
    /\ got[c] # None /\ began[got[c]] >= asked[c]
    /\ \A d \in Callers :
         At(d, "value") /\ began[got[c]] = began[got[d]] => got[c] = got[d]
=============================================================================
