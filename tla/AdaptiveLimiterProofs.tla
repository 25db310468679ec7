----------------------- MODULE AdaptiveLimiterProofs -----------------------
(***************************************************************************)
(* Proofs about the adaptive limiter for any finite set of callers, any    *)
(* number of ResetStats and Close calls and any limits: types, where the   *)
(* permits are as long as ResetStats meets no caller half counted, and     *)
(* that whoever waits, for a permit or for the drain, waits for somebody.  *)
(***************************************************************************)
EXTENDS AdaptiveLimiterHistory, FiniteSetTheorems, TLAPS

Holders == {c \in Callers : pc[c] \in Holding}
Running == {c \in Callers : pc[c] \in Counted}

\* inFlight counts the callers between admit and the first release step.
CountInv == inFlight = Cardinality(Running)

\* Who may be where.
PlaceInv ==
  /\ \A c \in Callers : pc[c] \in Labels /\ (pc[c] = "giveBack" => closed)
  /\ \A r \in Resetters : pc[r] \in ResetPC /\ (pc[r] = "refill" <=> mu = r)
  /\ \A k \in Closers : pc[k] \in ClosePC /\ (pc[k] # "idle" => closed)

\* Outside ResetStats idle and held permits are what limit and debt say.
Settled ==
  /\ sem + Held <= limit + debt
  /\ Pooled => sem + Held = limit + debt
  /\ ~closed /\ debt > 0 => sem = 0

\* Inside, the pool is empty and holders can only leave.
Emptied ==
  /\ sem = 0 /\ debt = 0
  /\ inFlight <= limit
  /\ \A c \in Callers : pc[c] \in Holding => pc[c] \in Counted \cup {"put", "putLast"}

PoolInv ==
  clean => /\ limit + debt <= MaxLimit
           /\ mu = Nobody => Settled
           /\ mu # Nobody => Emptied

IInv == TypeOK /\ CountInv /\ PlaceInv /\ PoolInv

-----------------------------------------------------------------------------
(* Sets and their sizes. *)

LEMMA LabelSets ==
  /\ Counted = {"run", "count"}
  /\ Holding = {"run", "count", "recheck", "giveBack", "admit", "put", "putLast"}
  /\ Labels = {"run", "count", "recheck", "giveBack", "admit", "put", "putLast",
               "idle", "select", "blocked", "signal", "done"}
  /\ ResetPC = {"idle", "refill", "done"}
  /\ ClosePC = {"idle", "channel", "signal", "check", "wait", "drain", "return",
                "ok", "ErrDrainTimeout", "ErrClosed"}
  BY DEF Counted, Holding, Labels, ResetPC, ClosePC

SizesOK ==
  /\ IsFiniteSet(Holders) /\ Cardinality(Holders) \in Nat /\ Held = Cardinality(Holders)
  /\ IsFiniteSet(Running) /\ Cardinality(Running) \in Nat
  /\ Running \subseteq Holders /\ Cardinality(Running) <= Cardinality(Holders)

LEMMA Sizes == SizesOK
<1>1. Holders \subseteq Callers /\ Running \subseteq Holders
  BY LabelSets DEF Holders, Running
<1>2. IsFiniteSet(Holders)
  BY <1>1, ActorsAssumption, FS_Subset
<1>. QED
  BY <1>1, <1>2, FS_Subset, FS_CardinalityType DEF SizesOK, Held, Holders

LEMMA SizesNext == SizesOK'
  BY Sizes, PTL

\* One caller moves; the two counts follow it.
LEMMA Shift ==
  ASSUME TypeOK, NEW c \in Callers, NEW b \in Labels, Goto(c, b)
  PROVE  /\ pc' \in [Goroutines -> Labels \cup ResetPC \cup ClosePC]
         /\ pc'[c] = b /\ \A g \in Goroutines \ {c} : pc'[g] = pc[g]
         /\ (pc[c] \in Holding <=> b \in Holding) => Held' = Held
         /\ pc[c] \notin Holding /\ b \in Holding => Held' = Held + 1
         /\ pc[c] \in Holding /\ b \notin Holding => Held' = Held - 1
         /\ (pc[c] \in Counted <=> b \in Counted) => Running' = Running
         /\ pc[c] \notin Counted /\ b \in Counted =>
              Cardinality(Running') = Cardinality(Running) + 1
         /\ pc[c] \in Counted /\ b \notin Counted =>
              Cardinality(Running') = Cardinality(Running) - 1
<1>1. /\ pc' \in [Goroutines -> Labels \cup ResetPC \cup ClosePC]
      /\ pc'[c] = b /\ \A g \in Goroutines \ {c} : pc'[g] = pc[g]
  BY DEF TypeOK, Goto, Goroutines
<1>2. (pc[c] \in Holding <=> b \in Holding) => Holders' = Holders
  BY <1>1 DEF Holders, Goroutines
<1>3. pc[c] \notin Holding /\ b \in Holding => Holders' = Holders \cup {c} /\ c \notin Holders
  BY <1>1 DEF Holders, Goroutines
<1>4. pc[c] \in Holding /\ b \notin Holding => Holders' = Holders \ {c} /\ c \in Holders
  BY <1>1 DEF Holders, Goroutines
<1>5. (pc[c] \in Counted <=> b \in Counted) => Running' = Running
  BY <1>1 DEF Running, Goroutines
<1>6. pc[c] \notin Counted /\ b \in Counted => Running' = Running \cup {c} /\ c \notin Running
  BY <1>1 DEF Running, Goroutines
<1>7. pc[c] \in Counted /\ b \notin Counted => Running' = Running \ {c} /\ c \in Running
  BY <1>1 DEF Running, Goroutines
<1>8. ASSUME NEW S, IsFiniteSet(S), c \notin S PROVE Cardinality(S \cup {c}) = Cardinality(S) + 1
  BY <1>8, FS_AddElement
<1>9. ASSUME NEW S, IsFiniteSet(S), c \in S PROVE Cardinality(S \ {c}) = Cardinality(S) - 1
  BY <1>9, FS_RemoveElement
<1>. QED
  BY <1>1, <1>2, <1>3, <1>4, <1>5, <1>6, <1>7, <1>8, <1>9, Sizes, SizesNext DEF SizesOK

-----------------------------------------------------------------------------
(* Steps of one caller that neither sends nor changes the limit. *)

\* What a caller's move leaves alone.
LEMMA MoveKeepsPlaces ==
  ASSUME IInv, NEW c \in Callers, NEW b \in Labels, Goto(c, b),
         b = "giveBack" => closed, UNCHANGED <<mu, closed>>
  PROVE  PlaceInv' /\ Pooled' = Pooled
<1>1. \A g \in Goroutines \ {c} : pc'[g] = pc[g]
  BY Shift DEF IInv
<1>2. pc'[c] = b
  BY Shift DEF IInv
<1>3. c \notin Resetters /\ c \notin Closers /\ Resetters \subseteq Goroutines
      /\ Closers \subseteq Goroutines /\ Callers \subseteq Goroutines
  BY ActorsAssumption DEF Goroutines
<1>. QED
  BY <1>1, <1>2, <1>3 DEF IInv, PlaceInv, Pooled

LEMMA PlainMove ==
  ASSUME IInv, Remember, NEW c \in Callers,
         Enter(c) \/ Block(c) \/ SeeClosed(c) \/ GiveUp(c) \/ Recheck(c) \/ Record(c)
           \/ SignalDrain(c)
  PROVE  IInv'
<1>. USE DEF At, flags, pool
<1>1. PICK b \in Labels : Goto(c, b) /\ (b = "giveBack" => closed)
                          /\ (pc[c] \in Holding <=> b \in Holding)
                          /\ (pc[c] \in Counted <=> b \in Counted)
                          /\ (pc[c] \in Holding /\ pc[c] \notin Counted => pc[c] = "recheck")
  BY LabelSets DEF Enter, Block, SeeClosed, GiveUp, Recheck, Record, SignalDrain
<1>2. UNCHANGED <<sem, limit, debt, inFlight, mu, closed, closedCh, kind>> /\ drainCh' \in BOOLEAN
  BY DEF Enter, Block, SeeClosed, GiveUp, Recheck, Record, SignalDrain, DrainAfter, IInv, TypeOK
<1>3. PlaceInv' /\ Pooled' = Pooled
  BY <1>1, <1>2, MoveKeepsPlaces
<1>4. Held' = Held /\ Running' = Running
  BY <1>1, Shift DEF IInv
<1>5. TypeOK' /\ CountInv'
  BY <1>1, <1>2, <1>4, Shift DEF IInv, TypeOK, CountInv
<1>6. ASSUME Emptied PROVE Emptied'
  <2>1. pc'[c] \in Holding => pc'[c] \in Counted
    BY <1>1, <1>6, Shift DEF Emptied, IInv
  <2>2. \A d \in Callers \ {c} : pc'[d] = pc[d]
    BY <1>1, Shift DEF IInv, Goroutines
  <2>. QED
    BY <1>2, <1>6, <2>1, <2>2 DEF Emptied
<1>7. clean' => clean
  BY DEF Remember
<1>8. PoolInv'
  <2>1. Settled => Settled'
    BY <1>2, <1>3, <1>4 DEF Settled
  <2>. QED
    BY <1>2, <1>6, <1>7, <2>1 DEF IInv, PoolInv
<1>. QED
  BY <1>3, <1>5, <1>8 DEF IInv

\* A permit leaves the pool with its taker, which is possible only outside
\* ResetStats.
LEMMA TakeStep ==
  ASSUME IInv, Remember, NEW c \in Callers, Take(c)
  PROVE  IInv'
<1>. USE DEF Take, At, flags
<1>1. Goto(c, "recheck") /\ "recheck" \in Labels /\ pc[c] = "select"
  BY LabelSets
<1>2. PlaceInv' /\ Pooled' = Pooled
  BY <1>1, MoveKeepsPlaces
<1>3. Held' = Held + 1 /\ Running' = Running
  BY <1>1, LabelSets, Shift DEF IInv
<1>4. TypeOK' /\ CountInv'
  <2>1. sem' \in 0 .. MaxLimit
    BY LimitsAssumption DEF IInv, TypeOK
  <2>. QED
    BY <1>1, <1>3, <2>1, Shift DEF IInv, TypeOK, CountInv
<1>5. PoolInv'
  <2>1. clean' => clean
    BY DEF Remember
  <2>. QED
    BY <1>2, <1>3, <2>1, Sizes DEF IInv, TypeOK, PoolInv, Settled, Emptied, SizesOK
<1>. QED
  BY <1>2, <1>4, <1>5 DEF IInv

LEMMA AdmitStep ==
  ASSUME IInv, Remember, NEW c \in Callers, Admit(c)
  PROVE  IInv'
<1>. USE DEF Admit, At, flags, pool
<1>1. Goto(c, "run") /\ "run" \in Labels /\ pc[c] = "admit"
  BY LabelSets
<1>2. PlaceInv' /\ Pooled' = Pooled
  BY <1>1, MoveKeepsPlaces
<1>3. Held' = Held /\ Cardinality(Running') = Cardinality(Running) + 1
  BY <1>1, LabelSets, Shift DEF IInv
<1>4. TypeOK' /\ CountInv'
  BY <1>1, <1>3, Shift DEF IInv, TypeOK, CountInv
<1>5. PoolInv'
  <2>1. clean' => clean
    BY DEF Remember
  <2>2. ~Emptied
    BY <1>1, LabelSets DEF Emptied
  <2>. QED
    BY <1>2, <1>3, <2>1, <2>2 DEF IInv, PoolInv, Settled
<1>. QED
  BY <1>2, <1>4, <1>5 DEF IInv

LEMMA UncountStep ==
  ASSUME IInv, Remember, NEW c \in Callers, Uncount(c)
  PROVE  IInv'
<1>. USE DEF Uncount, At, flags, pool
<1>1. PICK b \in {"put", "putLast"} : Goto(c, b)
  OBVIOUS
<1>2. b \in Labels /\ b \in Holding /\ b \notin Counted /\ pc[c] = "count"
  BY LabelSets
<1>3. PlaceInv' /\ Pooled' = Pooled
  BY <1>1, <1>2, MoveKeepsPlaces
<1>4. Held' = Held /\ Cardinality(Running') = Cardinality(Running) - 1
  BY <1>1, <1>2, LabelSets, Shift DEF IInv
<1>5. TypeOK' /\ CountInv'
  <2>1. inFlight' = Cardinality(Running') /\ inFlight' \in Nat
    BY <1>4, SizesNext DEF IInv, CountInv, SizesOK
  <2>. QED
    BY <1>1, <1>2, <2>1, Shift DEF IInv, TypeOK, CountInv
<1>6. ASSUME Emptied PROVE Emptied'
  <2>1. \A d \in Callers \ {c} : pc'[d] = pc[d]
    BY <1>1, <1>2, Shift DEF IInv, Goroutines
  <2>2. pc'[c] = b
    BY <1>1, <1>2, Shift DEF IInv
  <2>3. inFlight' <= limit'
    BY <1>6 DEF Emptied, IInv, TypeOK
  <2>. QED
    BY <1>6, <2>1, <2>2, <2>3 DEF Emptied
<1>7. PoolInv'
  <2>1. clean' => clean
    BY DEF Remember
  <2>2. Settled => Settled'
    BY <1>3, <1>4 DEF Settled
  <2>. QED
    BY <1>6, <2>1, <2>2 DEF IInv, PoolInv
<1>. QED
  BY <1>3, <1>5, <1>7 DEF IInv

-----------------------------------------------------------------------------
(* Sends: permits go to blocked callers first. *)

LEMMA DisjointUnion ==
  ASSUME NEW S, NEW T, IsFiniteSet(S), IsFiniteSet(T), S \cap T = {}
  PROVE  Cardinality(S \cup T) = Cardinality(S) + Cardinality(T)
<1>1. Cardinality(S \cup T) = Cardinality(S) + Cardinality(T) - Cardinality(S \cap T)
  BY FS_Union
<1>2. Cardinality(S \cap T) = 0
  BY FS_EmptySet
<1>3. Cardinality(S) \in Nat /\ Cardinality(T) \in Nat
  BY FS_CardinalityType
<1>. QED
  BY <1>1, <1>2, <1>3

\* W is handed a permit each; the sender's own place may change as well.
LEMMA Handed ==
  ASSUME TypeOK, NEW g \in Goroutines, NEW n \in Nat,
         NEW label \in Labels \cup ResetPC, Send(g, n, label)
  PROVE  \E W \in SUBSET Callers :
           /\ IsFiniteSet(W) /\ Cardinality(W) \in 0 .. n
           /\ \A c \in W : pc[c] = "blocked" /\ ~closedCh
           /\ sem' = Smaller(sem + n - Cardinality(W), MaxLimit)
           /\ pc' = [c \in Goroutines |-> IF c = g THEN label
                                          ELSE IF c \in W THEN "recheck" ELSE pc[c]]
<1>1. PICK W \in SUBSET Blocked :
         /\ Cardinality(W) = Smaller(n, Cardinality(Blocked))
         /\ sem' = Smaller(sem + n - Cardinality(W), MaxLimit)
         /\ pc' = [c \in Goroutines |-> IF c = g THEN label
                                        ELSE IF c \in W THEN "recheck" ELSE pc[c]]
  BY DEF Send
<1>2. Blocked \in SUBSET Callers /\ \A c \in Blocked : pc[c] = "blocked" /\ ~closedCh
  BY DEF Blocked
<1>3. IsFiniteSet(W) /\ IsFiniteSet(Blocked)
  BY <1>2, ActorsAssumption, FS_Subset
<1>4. Cardinality(W) \in 0 .. n
  BY <1>1, <1>3, FS_CardinalityType DEF Smaller
<1>. QED
  BY <1>1, <1>2, <1>3, <1>4

\* A send by a goroutine that holds a permit before as after, or not at all.
LEMMA SendKeepsSender ==
  ASSUME TypeOK, NEW g \in Goroutines, NEW n \in Nat,
         NEW label \in Labels \cup ResetPC, Send(g, n, label),
         pc[g] # "blocked",
         g \in Callers => (pc[g] \in Holding <=> label \in Holding)
                           /\ (pc[g] \in Counted <=> label \in Counted)
  PROVE  /\ \E w \in 0 .. n : Held' = Held + w /\ sem' = Smaller(sem + n - w, MaxLimit)
         /\ Running' = Running
<1>1. PICK W \in SUBSET Callers :
           /\ IsFiniteSet(W) /\ Cardinality(W) \in 0 .. n
           /\ \A c \in W : pc[c] = "blocked" /\ ~closedCh
           /\ sem' = Smaller(sem + n - Cardinality(W), MaxLimit)
           /\ pc' = [c \in Goroutines |-> IF c = g THEN label
                                          ELSE IF c \in W THEN "recheck" ELSE pc[c]]
  BY Handed
<1>2. Holders' = Holders \cup W /\ Holders \cap W = {} /\ Running' = Running
  BY <1>1, LabelSets DEF Holders, Running, Goroutines
<1>3. Cardinality(Holders \cup W) = Cardinality(Holders) + Cardinality(W)
  BY <1>1, <1>2, Sizes, DisjointUnion DEF SizesOK
<1>. QED
  BY <1>1, <1>2, <1>3, Sizes, SizesNext DEF SizesOK

\* A send by a caller that gives its permit back.
LEMMA SendByLeaver ==
  ASSUME TypeOK, NEW g \in Callers, NEW label \in Labels, Send(g, 1, label),
         pc[g] \in Holding \ Counted, label \notin Holding
  PROVE  /\ \E w \in 0 .. 1 : Held' = Held - 1 + w /\ sem' = Smaller(sem + 1 - w, MaxLimit)
         /\ Running' = Running
         /\ Held >= 1
<1>0. g \in Goroutines
  BY DEF Goroutines
<1>1. PICK W \in SUBSET Callers :
           /\ IsFiniteSet(W) /\ Cardinality(W) \in 0 .. 1
           /\ \A c \in W : pc[c] = "blocked" /\ ~closedCh
           /\ sem' = Smaller(sem + 1 - Cardinality(W), MaxLimit)
           /\ pc' = [c \in Goroutines |-> IF c = g THEN label
                                          ELSE IF c \in W THEN "recheck" ELSE pc[c]]
  BY <1>0, Handed
<1>2. /\ g \in Holders /\ Holders' = (Holders \ {g}) \cup W
      /\ (Holders \ {g}) \cap W = {} /\ Running' = Running
  BY <1>1, LabelSets DEF Holders, Running, Goroutines
<1>3. /\ IsFiniteSet(Holders \ {g}) /\ Cardinality(Holders \ {g}) = Cardinality(Holders) - 1
      /\ Cardinality(Holders \ {g}) \in Nat
  BY <1>2, Sizes, FS_RemoveElement, FS_CardinalityType DEF SizesOK
<1>4. Cardinality(Holders') = Cardinality(Holders) - 1 + Cardinality(W)
  BY <1>1, <1>2, <1>3, DisjointUnion
<1>. QED
  BY <1>1, <1>2, <1>3, <1>4, Sizes, SizesNext DEF SizesOK

\* Handing out permits keeps everybody's place legal.
LEMMA SendKeepsPlaces ==
  ASSUME IInv, NEW g \in Goroutines, NEW n \in Nat,
         NEW label \in Labels \cup ResetPC, Send(g, n, label),
         pc[g] # "blocked", closed' = closed, closedCh' = closedCh, kind' = kind,
         g \in Callers => label \in Labels /\ label # "giveBack" /\ mu' = mu,
         g \in Resetters => label = "done" /\ pc[g] = "refill" /\ mu' = Nobody,
         g \notin Closers
  PROVE  /\ PlaceInv' /\ Pooled' = Pooled
         /\ pc' \in [Goroutines -> Labels \cup ResetPC \cup ClosePC]
         /\ sem' \in 0 .. MaxLimit
<1>1. PICK W \in SUBSET Callers :
           /\ IsFiniteSet(W) /\ Cardinality(W) \in 0 .. n
           /\ \A c \in W : pc[c] = "blocked" /\ ~closedCh
           /\ sem' = Smaller(sem + n - Cardinality(W), MaxLimit)
           /\ pc' = [c \in Goroutines |-> IF c = g THEN label
                                          ELSE IF c \in W THEN "recheck" ELSE pc[c]]
  BY Handed DEF IInv
<1>2. sem' \in 0 .. MaxLimit
  BY <1>1, LimitsAssumption DEF IInv, TypeOK, Smaller
<1>3. pc' \in [Goroutines -> Labels \cup ResetPC \cup ClosePC]
  BY <1>1, LabelSets DEF IInv, TypeOK
<1>4. \A c \in Callers : pc'[c] \in Labels /\ (pc'[c] = "giveBack" => closed')
  BY <1>1, LabelSets DEF IInv, PlaceInv, Goroutines
<1>5. \A k \in Closers : pc'[k] = pc[k]
  BY <1>1, ActorsAssumption DEF Goroutines
<1>6. \A r \in Resetters : pc'[r] \in ResetPC /\ (pc'[r] = "refill" <=> mu' = r)
  BY <1>1, ActorsAssumption, LabelSets DEF Goroutines, IInv, PlaceInv
<1>. QED
  BY <1>2, <1>3, <1>4, <1>5, <1>6 DEF IInv, PlaceInv, Pooled

\* A caller that sends one permit and leaves, for returnPermit and releasePermit.
LEMMA LeaverSends ==
  ASSUME IInv, Remember, NEW c \in Callers, NEW label \in {"done", "signal"},
         Send(c, 1, label), pc[c] \in Holding \ Counted,
         UNCHANGED <<limit, debt, inFlight, mu, flags, kind>>,
         clean => mu = Nobody /\ (closed \/ debt = 0)
  PROVE  IInv'
<1>. USE DEF flags
<1>1. /\ label \in Labels /\ label \notin Holding /\ label # "giveBack"
      /\ pc[c] # "blocked" /\ c \in Goroutines /\ c \notin Resetters /\ c \notin Closers
  BY LabelSets, ActorsAssumption DEF Goroutines
<1>2. /\ PlaceInv' /\ Pooled' = Pooled /\ sem' \in 0 .. MaxLimit
      /\ pc' \in [Goroutines -> Labels \cup ResetPC \cup ClosePC]
  BY <1>1, SendKeepsPlaces
<1>3. PICK w \in 0 .. 1 : Held' = Held - 1 + w /\ sem' = Smaller(sem + 1 - w, MaxLimit)
  BY <1>1, SendByLeaver DEF IInv
<1>4. Running' = Running /\ Held >= 1
  BY <1>1, SendByLeaver DEF IInv
<1>5. TypeOK' /\ CountInv'
  BY <1>2, <1>4 DEF IInv, TypeOK, CountInv
<1>6. PoolInv'
  <2>1. clean' => clean
    BY DEF Remember
  <2>2. Held \in Nat /\ sem \in Nat /\ limit \in Nat /\ debt \in Nat /\ MaxLimit \in Nat
    BY Sizes, LimitsAssumption DEF SizesOK, IInv, TypeOK
  <2>3. ASSUME clean PROVE Settled'
    <3>1. Settled /\ limit + debt <= MaxLimit
      BY <2>3 DEF IInv, PoolInv
    <3>2. sem' + Held' = sem + Held
      BY <1>3, <1>4, <2>2, <3>1 DEF Settled, Smaller
    <3>3. ~closed /\ debt > 0 => FALSE
      BY <2>2, <2>3
    <3>. QED
      BY <1>2, <3>1, <3>2, <3>3 DEF Settled
  <2>. QED
    BY <2>1, <2>3 DEF IInv, PoolInv
<1>. QED
  BY <1>2, <1>5, <1>6 DEF IInv

LEMMA GiveBackStep ==
  ASSUME IInv, Remember, NEW c \in Callers, GiveBack(c)
  PROVE  IInv'
<1>1. pc[c] = "giveBack" /\ pc[c] \in Holding \ Counted /\ closed
  BY LabelSets DEF GiveBack, At, IInv, PlaceInv
<1>2. clean => mu = Nobody
  BY <1>1, LabelSets DEF IInv, PoolInv, Emptied
<1>. QED
  BY <1>1, <1>2, LeaverSends DEF GiveBack

\* The debt is paid by a release that sends nothing.
LEMMA ReleaseStep ==
  ASSUME IInv, Remember, NEW c \in Callers, ReleasePermit(c)
  PROVE  IInv'
<1>1. pc[c] \in Holding \ Counted
  BY LabelSets DEF ReleasePermit
<1>2. CASE ~PaysDebt
  <2>1. PICK label \in {"done", "signal"} : Send(c, 1, label)
    BY <1>2 DEF ReleasePermit
  <2>2. UNCHANGED <<limit, debt, inFlight, mu, flags, kind>> /\ mu = Nobody
    BY <1>2 DEF ReleasePermit
  <2>3. debt = 0
    BY <1>2 DEF PaysDebt, IInv, TypeOK
  <2>. QED
    BY <1>1, <2>1, <2>2, <2>3, LeaverSends
<1>3. CASE PaysDebt
  <2>1. PICK b \in {"done", "signal"} : Goto(c, b)
    BY <1>3 DEF ReleasePermit
  <2>2. /\ debt' = debt - 1 /\ debt > 0 /\ sem' = sem /\ mu = Nobody
        /\ UNCHANGED <<limit, inFlight, mu, closed, closedCh, drainCh, kind>>
    BY <1>3 DEF ReleasePermit, PaysDebt, flags
  <2>3. b \in Labels /\ b \notin Holding /\ b \notin Counted /\ b # "giveBack"
    BY LabelSets
  <2>4. PlaceInv' /\ Pooled' = Pooled
    BY <2>1, <2>2, <2>3, MoveKeepsPlaces
  <2>5. Held' = Held - 1 /\ Running' = Running
    BY <1>1, <2>1, <2>3, Shift DEF IInv
  <2>6. TypeOK' /\ CountInv'
    <3>1. debt' \in Nat
      BY <2>2 DEF IInv, TypeOK
    <3>. QED
      BY <2>1, <2>2, <2>3, <2>5, <3>1, Shift DEF IInv, TypeOK, CountInv
  <2>7. PoolInv'
    <3>1. clean' => clean
      BY DEF Remember
    <3>. QED
      BY <2>2, <2>4, <2>5, <3>1, Sizes, LimitsAssumption DEF IInv, TypeOK, PoolInv, Settled, SizesOK
  <2>. QED
    BY <2>4, <2>6, <2>7 DEF IInv
<1>. QED
  BY <1>2, <1>3

-----------------------------------------------------------------------------
(* The limit moves. *)

LEMMA ShrinkStep ==
  ASSUME IInv, Remember, NEW c \in Callers, pc[c] = "run", mu = Nobody,
         NEW next \in MinLimit .. MaxLimit, next < limit, limit' = next,
         Shrink(c, next), UNCHANGED <<inFlight, mu, flags, kind>>
  PROVE  IInv'
<1>. USE DEF flags
<1>1. Goto(c, "count") /\ "count" \in Labels
  BY LabelSets DEF Shrink
<1>2. PlaceInv' /\ Pooled' = Pooled
  BY <1>1, MoveKeepsPlaces
<1>3. Held' = Held /\ Running' = Running
  BY <1>1, LabelSets, Shift DEF IInv
<1>4. /\ sem \in Nat /\ limit \in Nat /\ debt \in Nat /\ Held \in Nat /\ next \in Nat
      /\ MaxLimit \in Nat /\ sem <= MaxLimit
  BY LimitsAssumption, Sizes DEF IInv, TypeOK, SizesOK
<1>5. PICK idle \in Nat : /\ sem' = sem - idle /\ debt' = debt + (limit - next - idle)
                          /\ idle <= sem /\ idle <= limit - next
                          /\ idle = sem \/ idle = limit - next
  <2>1. Smaller(limit - next, sem) \in Nat /\ Smaller(limit - next, sem) <= sem
        /\ Smaller(limit - next, sem) <= limit - next
        /\ (Smaller(limit - next, sem) = sem \/ Smaller(limit - next, sem) = limit - next)
    BY <1>4 DEF Smaller
  <2>. QED
    BY <2>1 DEF Shrink
<1>6. sem' \in 0 .. MaxLimit /\ debt' \in Nat /\ limit' \in Nat /\ limit' >= MinLimit
  BY <1>4, <1>5, LimitsAssumption
<1>7. TypeOK' /\ CountInv'
  BY <1>1, <1>3, <1>6, Shift DEF IInv, TypeOK, CountInv
<1>8. PoolInv'
  <2>1. clean' => clean
    BY DEF Remember
  <2>2. sem' + Held' = sem + Held - idle /\ limit' + debt' = limit + debt - idle
    BY <1>3, <1>4, <1>5
  <2>3. debt' > 0 => debt > 0 \/ sem' = 0
    BY <1>4, <1>5
  <2>4. debt > 0 /\ sem = 0 => sem' = 0
    BY <1>4, <1>5
  <2>. QED
    BY <1>2, <1>4, <2>1, <2>2, <2>3, <2>4 DEF IInv, PoolInv, Settled
<1>. QED
  BY <1>2, <1>7, <1>8 DEF IInv

LEMMA GrowStep ==
  ASSUME IInv, Remember, NEW c \in Callers, pc[c] = "run", mu = Nobody,
         NEW next \in MinLimit .. MaxLimit, next > limit, limit' = next,
         Grow(c, next), UNCHANGED <<inFlight, mu, flags, kind>>
  PROVE  IInv'
<1>. USE DEF flags
<1>1. /\ sem \in Nat /\ limit \in Nat /\ debt \in Nat /\ Held \in Nat /\ next \in Nat
      /\ MaxLimit \in Nat /\ next <= MaxLimit
  BY LimitsAssumption, Sizes DEF IInv, TypeOK, SizesOK
<1>2. PICK paid \in Nat : /\ debt' = debt - paid /\ Send(c, next - limit - paid, "count")
                          /\ paid <= debt /\ paid <= next - limit
                          /\ paid = debt \/ paid = next - limit
  <2>1. /\ Smaller(debt, next - limit) \in Nat /\ Smaller(debt, next - limit) <= debt
        /\ Smaller(debt, next - limit) <= next - limit
        /\ (Smaller(debt, next - limit) = debt \/ Smaller(debt, next - limit) = next - limit)
    BY <1>1 DEF Smaller
  <2>. QED
    BY <2>1 DEF Grow
<1>3. /\ "count" \in Labels /\ "count" \in Holding /\ "count" \in Counted
      /\ pc[c] \in Holding /\ pc[c] \in Counted /\ pc[c] # "blocked"
      /\ c \in Goroutines /\ c \notin Resetters /\ c \notin Closers
  BY LabelSets, ActorsAssumption DEF Goroutines
<1>. DEFINE n == next - limit - paid
<1>4. n \in Nat /\ Send(c, n, "count")
  BY <1>1, <1>2
<1>. HIDE DEF n
<1>5. /\ PlaceInv' /\ Pooled' = Pooled /\ sem' \in 0 .. MaxLimit
      /\ pc' \in [Goroutines -> Labels \cup ResetPC \cup ClosePC]
  BY <1>3, <1>4, SendKeepsPlaces
<1>6. PICK w \in 0 .. n : Held' = Held + w /\ sem' = Smaller(sem + n - w, MaxLimit)
  BY <1>3, <1>4, SendKeepsSender DEF IInv
<1>7. Running' = Running
  BY <1>3, <1>4, SendKeepsSender DEF IInv
<1>8. debt' \in Nat /\ limit' \in Nat /\ limit' >= MinLimit
  BY <1>1, <1>2, LimitsAssumption
<1>9. TypeOK' /\ CountInv'
  BY <1>5, <1>7, <1>8 DEF IInv, TypeOK, CountInv
<1>10. PoolInv'
  <2>1. clean' => clean
    BY DEF Remember
  <2>2. limit' + debt' = limit + debt + n /\ (debt' = 0 \/ n = 0)
    BY <1>1, <1>2 DEF n
  <2>3. ASSUME clean PROVE limit' + debt' <= MaxLimit /\ Settled'
    <3>1. Settled /\ limit + debt <= MaxLimit
      BY <2>3 DEF IInv, PoolInv
    <3>2. limit' + debt' <= MaxLimit
      BY <1>1, <2>2, <3>1
    <3>3. sem' + Held' = sem + Held + n /\ sem' = sem + n - w
      BY <1>1, <1>4, <1>6, <2>2, <3>1, <3>2 DEF Settled, Smaller
    <3>4. debt' > 0 => debt > 0 /\ n = 0 /\ w = 0
      BY <1>1, <1>2, <1>4, <2>2
    <3>. QED
      BY <1>1, <1>4, <1>5, <2>2, <3>1, <3>2, <3>3, <3>4 DEF Settled
  <2>. QED
    BY <2>1, <2>3 DEF IInv, PoolInv
<1>. QED
  BY <1>5, <1>9, <1>10 DEF IInv

LEMMA AdjustStep ==
  ASSUME IInv, Remember, NEW c \in Callers, Adjust(c)
  PROVE  IInv'
<1>1. PICK next \in MinLimit .. MaxLimit \ {limit} :
         limit' = next /\ IF next > limit THEN Grow(c, next) ELSE Shrink(c, next)
  BY DEF Adjust, NextLimits
<1>2. next \in MinLimit .. MaxLimit /\ (next > limit \/ next < limit)
  BY LimitsAssumption DEF IInv, TypeOK
<1>3. pc[c] = "run" /\ mu = Nobody /\ UNCHANGED <<inFlight, mu, flags, kind>>
  BY DEF Adjust, At
<1>4. CASE next > limit
  BY <1>1, <1>2, <1>3, <1>4, GrowStep
<1>5. CASE next < limit
  <2>1. ~(next > limit)
    BY <1>2, <1>5, LimitsAssumption DEF IInv, TypeOK
  <2>. QED
    BY <1>1, <1>2, <1>3, <1>5, <2>1, ShrinkStep
<1>. QED
  BY <1>2, <1>4, <1>5

-----------------------------------------------------------------------------
(* Close. *)

\* A closer moves: the callers, and so the counts, stay where they are.
LEMMA CloserMoves ==
  ASSUME TypeOK, NEW k \in Closers, NEW b \in ClosePC, Goto(k, b)
  PROVE  /\ pc' \in [Goroutines -> Labels \cup ResetPC \cup ClosePC]
         /\ pc'[k] = b /\ \A g \in Goroutines \ {k} : pc'[g] = pc[g]
         /\ \A c \in Callers : pc'[c] = pc[c]
         /\ \A r \in Resetters : pc'[r] = pc[r]
         /\ Held' = Held /\ Running' = Running
<1>1. /\ pc' \in [Goroutines -> Labels \cup ResetPC \cup ClosePC]
      /\ pc'[k] = b /\ \A g \in Goroutines \ {k} : pc'[g] = pc[g]
  BY DEF TypeOK, Goto, Goroutines
<1>2. (\A c \in Callers : pc'[c] = pc[c]) /\ \A r \in Resetters : pc'[r] = pc[r]
  BY <1>1, ActorsAssumption DEF Goroutines
<1>3. Holders' = Holders /\ Running' = Running
  BY <1>2 DEF Holders, Running
<1>. QED
  BY <1>1, <1>2, <1>3, Sizes, SizesNext DEF SizesOK

LEMMA CloseStep ==
  ASSUME IInv, Remember, NEW k \in Closers, Closing(k)
  PROVE  IInv'
<1>. USE DEF At, flags, pool
<1>1. PICK b \in ClosePC :
         /\ Goto(k, b)
         /\ pc[k] \in {"return", "ok", "ErrDrainTimeout"} => b \in {"ok", "ErrDrainTimeout"}
         /\ sem' # sem => sem' = 0 /\ b = "return"
         /\ b \notin {"return", "ok", "ErrDrainTimeout"} => sem' = sem
         /\ b # "idle" /\ (closed' \/ (closed' = closed /\ pc[k] # "idle"))
  BY LabelSets DEF Closing, CloseFlag, CloseChannel, CloseSignal, CloseCheck, Drained,
     TimeOut, DrainSemaphore, CloseReturn
<1>2. UNCHANGED <<limit, debt, inFlight, mu, kind>>
  BY DEF Closing, CloseFlag, CloseChannel, CloseSignal, CloseCheck, Drained,
     TimeOut, DrainSemaphore, CloseReturn
<1>3. closedCh' \in BOOLEAN /\ drainCh' \in BOOLEAN
  BY DEF Closing, CloseFlag, CloseChannel, CloseSignal, CloseCheck, Drained,
     TimeOut, DrainSemaphore, CloseReturn, DrainAfter, IInv, TypeOK
<1>4. closed' = TRUE
  <2>1. closed' = TRUE \/ (closed' = closed /\ pc[k] # "idle")
    BY DEF Closing, CloseFlag, CloseChannel, CloseSignal, CloseCheck, Drained,
       TimeOut, DrainSemaphore, CloseReturn
  <2>. QED
    BY <2>1 DEF IInv, PlaceInv, TypeOK
<1>5. /\ pc' \in [Goroutines -> Labels \cup ResetPC \cup ClosePC]
      /\ pc'[k] = b /\ \A g \in Goroutines \ {k} : pc'[g] = pc[g]
      /\ \A c \in Callers : pc'[c] = pc[c]
      /\ \A r \in Resetters : pc'[r] = pc[r]
      /\ Held' = Held /\ Running' = Running
  BY <1>1, CloserMoves DEF IInv
<1>6. sem' \in 0 .. MaxLimit /\ sem' <= sem
  BY <1>1, LimitsAssumption DEF IInv, TypeOK
<1>7. TypeOK' /\ CountInv'
  BY <1>2, <1>3, <1>4, <1>5, <1>6 DEF IInv, TypeOK, CountInv
<1>8. PlaceInv'
  <2>1. \A j \in Closers : pc'[j] \in ClosePC
    BY <1>5 DEF IInv, PlaceInv, Goroutines
  <2>. QED
    BY <1>2, <1>4, <1>5, <2>1 DEF IInv, PlaceInv
<1>9. PoolInv'
  <2>1. clean' => clean
    BY DEF Remember
  <2>2. Pooled' => Pooled /\ sem' = sem
    <3>1. \A j \in Closers \ {k} : pc'[j] = pc[j]
      BY <1>5 DEF Goroutines
    <3>. QED
      BY <1>1, <1>5, <3>1 DEF Pooled
  <2>3. Settled => Settled'
    BY <1>2, <1>4, <1>5, <1>6, <2>2, Sizes DEF Settled, SizesOK, IInv, TypeOK
  <2>4. Emptied => Emptied'
    <3>1. Emptied => sem' = 0
      BY <1>6 DEF Emptied
    <3>. QED
      BY <1>2, <1>5, <3>1 DEF Emptied
  <2>. QED
    BY <1>2, <2>1, <2>3, <2>4 DEF IInv, PoolInv
<1>. QED
  BY <1>7, <1>8, <1>9 DEF IInv

-----------------------------------------------------------------------------
(* ResetStats. *)

LEMMA ResetLimitStep ==
  ASSUME IInv, Remember, NEW r \in Resetters, ResetLimit(r)
  PROVE  IInv'
<1>. USE DEF ResetLimit, At, flags
<1>1. /\ r \in Goroutines /\ r # Nobody /\ pc[r] = "idle"
      /\ pc' = [pc EXCEPT ![r] = "refill"] /\ mu = Nobody /\ mu' = r
  BY ActorsAssumption DEF Goroutines, Goto
<1>2. /\ pc' \in [Goroutines -> Labels \cup ResetPC \cup ClosePC]
      /\ pc'[r] = "refill" /\ \A g \in Goroutines \ {r} : pc'[g] = pc[g]
  BY <1>1, LabelSets DEF IInv, TypeOK
<1>3. (\A c \in Callers : pc'[c] = pc[c]) /\ \A k \in Closers : pc'[k] = pc[k]
  BY <1>2, ActorsAssumption DEF Goroutines
<1>4. Running' = Running
  BY <1>3 DEF Running
<1>5. limit' \in Nat /\ limit' >= MinLimit /\ inFlight <= limit' /\ inFlight \in Nat
      /\ (limit' = InitialLimit \/ limit' = inFlight)
  BY LimitsAssumption DEF IInv, TypeOK
<1>6. TypeOK' /\ CountInv'
  BY <1>1, <1>2, <1>4, <1>5, LimitsAssumption DEF IInv, TypeOK, CountInv
<1>7. PlaceInv'
  <2>1. \A q \in Resetters : pc'[q] \in ResetPC /\ (pc'[q] = "refill" <=> mu' = q)
    BY <1>1, <1>2, LabelSets, ActorsAssumption DEF IInv, PlaceInv, Goroutines
  <2>. QED
    BY <1>3, <2>1 DEF IInv, PlaceInv
<1>8. PoolInv'
  <2>1. clean' => clean /\ InStep
    BY <1>1, <1>2 DEF Remember
  <2>2. ASSUME clean, InStep PROVE limit' <= MaxLimit /\ Emptied'
    <3>1. Settled /\ limit + debt <= MaxLimit
      BY <1>1, <2>2 DEF IInv, PoolInv
    <3>2. inFlight <= Held /\ Held \in Nat
      BY Sizes DEF IInv, CountInv, SizesOK
    <3>3. inFlight <= MaxLimit
      BY <1>5, <3>1, <3>2, LimitsAssumption DEF Settled, IInv, TypeOK
    <3>4. \A c \in Callers : pc'[c] \in Holding => pc'[c] \in Counted
      BY <1>3, <2>2 DEF InStep
    <3>. QED
      BY <1>5, <3>3, <3>4, LimitsAssumption DEF Emptied
  <2>. QED
    BY <1>1, <1>5, <2>1, <2>2 DEF PoolInv
<1>. QED
  BY <1>6, <1>7, <1>8 DEF IInv

LEMMA RefillStep ==
  ASSUME IInv, Remember, NEW r \in Resetters, Refill(r)
  PROVE  IInv'
<1>. USE DEF Refill, At, flags
<1>1. /\ r \in Goroutines /\ r \notin Callers /\ r \notin Closers /\ pc[r] = "refill"
      /\ mu = r /\ mu # Nobody /\ mu' = Nobody /\ "done" \in Labels \cup ResetPC
  BY ActorsAssumption, LabelSets DEF Goroutines, IInv, PlaceInv
<1>2. Want \in Nat /\ Send(r, Want, "done")
  BY DEF Want, IInv, TypeOK
<1>3. /\ PlaceInv' /\ Pooled' = Pooled /\ sem' \in 0 .. MaxLimit
      /\ pc' \in [Goroutines -> Labels \cup ResetPC \cup ClosePC]
  BY <1>1, <1>2, SendKeepsPlaces
<1>4. PICK w \in 0 .. Want : Held' = Held + w /\ sem' = Smaller(sem + Want - w, MaxLimit)
  BY <1>1, <1>2, SendKeepsSender DEF IInv
<1>5. Running' = Running
  BY <1>1, <1>2, SendKeepsSender DEF IInv
<1>6. TypeOK' /\ CountInv'
  BY <1>1, <1>3, <1>5 DEF IInv, TypeOK, CountInv
<1>7. PoolInv'
  <2>1. clean' => clean /\ InStep
    <3>1. pc'[r] = "done"
      BY <1>1 DEF Send
    <3>. QED
      BY <1>1, <3>1 DEF Remember
  <2>2. ASSUME clean, InStep PROVE limit' + debt' <= MaxLimit /\ Settled'
    <3>1. Emptied /\ limit + debt <= MaxLimit
      BY <1>1, <2>2 DEF IInv, PoolInv
    <3>2. Holders = Running
      BY <2>2, Sizes DEF InStep, Holders, Running, SizesOK
    <3>3. Held = inFlight
      BY <3>2, Sizes DEF IInv, CountInv, SizesOK
    <3>4. sem' + Held' = limit
      BY <1>2, <1>4, <3>1, <3>3, LimitsAssumption DEF Emptied, Want, Smaller, IInv, TypeOK
    <3>. QED
      BY <3>1, <3>4 DEF Emptied, Settled, IInv, TypeOK
  <2>. QED
    BY <1>1, <2>1, <2>2 DEF PoolInv
<1>. QED
  BY <1>3, <1>6, <1>7 DEF IInv

-----------------------------------------------------------------------------
(* The invariant. *)

LEMMA InitInv == HInit => IInv
<1>. SUFFICES ASSUME HInit PROVE IInv
  OBVIOUS
<1>. USE DEF HInit, Init
<1>1. Holders = {} /\ Running = {}
  BY LabelSets DEF Holders, Running, Goroutines
<1>2. Held = 0 /\ Cardinality(Running) = 0
  BY <1>1, Sizes, FS_EmptySet DEF SizesOK
<1>3. closed = FALSE /\ closedCh = FALSE /\ drainCh = FALSE /\ pc = [g \in Goroutines |-> "idle"]
  OBVIOUS
<1>4. TypeOK
  <2>1. closed \in BOOLEAN /\ closedCh \in BOOLEAN /\ drainCh \in BOOLEAN
    BY <1>3
  <2>2. pc \in [Goroutines -> Labels \cup ResetPC \cup ClosePC]
    BY LabelSets
  <2>3. sem \in 0 .. MaxLimit /\ limit \in Nat /\ limit >= MinLimit /\ debt \in Nat
        /\ inFlight \in Nat /\ mu \in Resetters \cup {Nobody} /\ kind \in [Callers -> Kinds]
    BY LimitsAssumption
  <2>. QED
    BY <2>1, <2>2, <2>3 DEF TypeOK
<1>5. PlaceInv
  BY <1>3, LabelSets, ActorsAssumption DEF PlaceInv, Goroutines
<1>6. PoolInv
  BY <1>2, LimitsAssumption DEF PoolInv, Settled
<1>. QED
  BY <1>2, <1>4, <1>5, <1>6 DEF IInv, CountInv

LEMMA StutterStep == IInv /\ UNCHANGED vars /\ (clean' => clean) => IInv'
BY DEF vars, pool, flags, IInv, TypeOK, CountInv, Running, PlaceInv, PoolInv, Settled,
       Emptied, Held, Pooled

LEMMA NextInv == IInv /\ [HNext]_hvars => IInv'
<1>. SUFFICES ASSUME IInv, [HNext]_hvars PROVE IInv'
  OBVIOUS
<1>1. CASE HNext
  <2>1. Next /\ Remember /\ (clean' => clean)
    BY <1>1 DEF HNext, Remember
  <2>2. ASSUME NEW c \in Callers, Enter(c) \/ Acquiring(c) \/ Releasing(c) PROVE IInv'
    <3>1. CASE \/ Enter(c) \/ Block(c) \/ SeeClosed(c) \/ GiveUp(c) \/ Recheck(c)
               \/ Record(c) \/ SignalDrain(c)
      BY <2>1, <3>1, PlainMove
    <3>2. CASE Take(c)
      BY <2>1, <3>2, TakeStep
    <3>3. CASE GiveBack(c)
      BY <2>1, <3>3, GiveBackStep
    <3>4. CASE Admit(c)
      BY <2>1, <3>4, AdmitStep
    <3>5. CASE Adjust(c)
      BY <2>1, <3>5, AdjustStep
    <3>6. CASE Uncount(c)
      BY <2>1, <3>6, UncountStep
    <3>7. CASE ReleasePermit(c)
      BY <2>1, <3>7, ReleaseStep
    <3>. QED
      BY <2>2, <3>1, <3>2, <3>3, <3>4, <3>5, <3>6, <3>7 DEF Acquiring, Releasing
  <2>3. ASSUME NEW r \in Resetters, ResetLimit(r) \/ Refill(r) PROVE IInv'
    BY <2>1, <2>3, ResetLimitStep, RefillStep
  <2>4. ASSUME NEW k \in Closers, Closing(k) PROVE IInv'
    BY <2>1, <2>4, CloseStep
  <2>5. CASE Quiet
    BY <2>1, <2>5, StutterStep DEF Quiet
  <2>. QED
    BY <2>1, <2>2, <2>3, <2>4, <2>5 DEF Next
<1>2. CASE UNCHANGED hvars
  BY <1>2, StutterStep DEF hvars
<1>. QED
  BY <1>1, <1>2

LEMMA Invariant == HSpec => []IInv
BY InitInv, NextInv, PTL DEF HSpec

\* Every variable keeps its type.
THEOREM TypeCorrect == HSpec => []TypeOK
<1>1. IInv => TypeOK
  BY DEF IInv
<1>. QED
  BY <1>1, Invariant, PTL

\* Permits are neither made nor lost by any interleaving of acquires, releases,
\* limit moves and closes, and by no ResetStats that meets every holder counted.
THEOREM PermitsConserved == HSpec => []Conservation
<1>1. IInv => Conservation
  BY DEF IInv, PoolInv, Settled, Conservation
<1>. QED
  BY <1>1, Invariant, PTL

\* Nobody is handed a permit at or above the live limit, however often the
\* limit shrinks while permits are out.
THEOREM NeverAbove == HSpec => []NeverAboveLiveLimit
<1>1. IInv => NeverAboveLiveLimit
  <2>. SUFFICES ASSUME IInv, clean, ~closed, sem > 0 PROVE Held < limit
    BY DEF NeverAboveLiveLimit
  <2>1. mu = Nobody
    BY DEF IInv, PoolInv, Emptied, TypeOK
  <2>2. Settled /\ debt = 0
    BY <2>1 DEF IInv, PoolInv, Settled, TypeOK
  <2>. QED
    BY <2>2, Sizes, LimitsAssumption DEF IInv, TypeOK, Settled, SizesOK
<1>. QED
  BY <1>1, Invariant, PTL

\* The calls in flight stay within WithMaxLimit.
THEOREM InFlightIsBounded == HSpec => []InFlightBounded
<1>1. IInv => InFlightBounded
  <2>. SUFFICES ASSUME IInv, clean PROVE inFlight \in 0 .. MaxLimit
    BY DEF InFlightBounded
  <2>1. inFlight \in Nat /\ inFlight <= Held /\ Held \in Nat
    BY Sizes DEF IInv, TypeOK, CountInv, SizesOK
  <2>2. CASE mu = Nobody
    BY <2>1, <2>2, LimitsAssumption DEF IInv, PoolInv, Settled, TypeOK
  <2>3. CASE mu # Nobody
    BY <2>1, <2>3, LimitsAssumption DEF IInv, PoolInv, Emptied, TypeOK
  <2>. QED
    BY <2>2, <2>3
<1>. QED
  BY <1>1, Invariant, PTL
-----------------------------------------------------------------------------
(* Waiting for the drain. *)

\* The step that makes a closer wait sees a call in flight, and the call that
\* is counted last passes its duty to signal on until it has signalled.
LEMMA DrainStep ==
  ASSUME IInv, IInv', DrainWakesCloser, Next
  PROVE  DrainWakesCloser'
<1>. DEFINE LastOne(c) == pc[c] \in {"putLast", "signal"}
<1>1. ASSUME NEW g \in Goroutines, NEW n \in Nat, NEW label \in Labels \cup ResetPC,
             Send(g, n, label), g \notin Closers, UNCHANGED <<inFlight, drainCh>>,
             g \in Callers /\ LastOne(g) => label = "signal"
      PROVE  DrainWakesCloser'
  <2>1. PICK W \in SUBSET Callers :
           /\ IsFiniteSet(W) /\ Cardinality(W) \in 0 .. n
           /\ \A c \in W : pc[c] = "blocked" /\ ~closedCh
           /\ sem' = Smaller(sem + n - Cardinality(W), MaxLimit)
           /\ pc' = [c \in Goroutines |-> IF c = g THEN label
                                          ELSE IF c \in W THEN "recheck" ELSE pc[c]]
    BY <1>1, Handed DEF IInv
  <2>2. \A k \in Closers : pc'[k] = pc[k]
    BY <1>1, <2>1, ActorsAssumption DEF Goroutines
  <2>3. \A c \in Callers : LastOne(c) => LastOne(c)'
    BY <1>1, <2>1 DEF Goroutines
  <2>. QED
    BY <1>1, <2>2, <2>3 DEF DrainWakesCloser
<1>2. ASSUME NEW c \in Callers, NEW label \in Labels, Goto(c, label),
             \/ UNCHANGED <<inFlight, drainCh>> /\ (LastOne(c) => label = "signal")
             \/ drainCh' = drainCh /\ (inFlight' > 0 \/ label = "putLast")
             \/ inFlight' = inFlight /\ (drainCh' \/ (inFlight > 0 /\ drainCh' = drainCh)
                                         \/ ~closed)
      PROVE  DrainWakesCloser'
  <2>1. \A g \in Goroutines : pc'[g] = IF g = c THEN label ELSE pc[g]
    BY <1>2 DEF Goto, IInv, TypeOK
  <2>2. c \in Goroutines /\ \A k \in Closers : k \in Goroutines /\ k # c
    BY ActorsAssumption DEF Goroutines
  <2>3. \A k \in Closers : pc'[k] = pc[k] /\ (pc[k] = "wait" => closed)
    BY <2>1, <2>2 DEF IInv, PlaceInv
  <2>4. \A d \in Callers : d # c => pc'[d] = pc[d]
    BY <2>1 DEF Goroutines
  <2>. QED
    BY <1>2, <2>1, <2>2, <2>3, <2>4 DEF DrainWakesCloser
<1>3. ASSUME NEW c \in Callers, Enter(c) \/ Acquiring(c) \/ Releasing(c) PROVE DrainWakesCloser'
  <2>0. c \in Goroutines /\ c \notin Closers
    BY ActorsAssumption DEF Goroutines
  <2>1. CASE Enter(c) \/ Take(c) \/ Block(c) \/ SeeClosed(c) \/ GiveUp(c) \/ Recheck(c) \/ Record(c)
    <3>1. PICK label \in Labels : Goto(c, label)
      BY <2>1, LabelSets DEF Enter, Take, Block, SeeClosed, GiveUp, Recheck, Record
    <3>2. UNCHANGED <<inFlight, drainCh>> /\ ~LastOne(c)
      BY <2>1 DEF Enter, Take, Block, SeeClosed, GiveUp, Recheck, Record, At, pool, flags
    <3>. QED
      BY <1>2, <3>1, <3>2
  <2>2. CASE GiveBack(c)
    BY <1>1, <2>0, <2>2, LabelSets DEF GiveBack, At, flags
  <2>3. CASE Admit(c)
    <3>1. Goto(c, "run") /\ inFlight' > 0 /\ drainCh' = drainCh
      BY <2>3 DEF Admit, flags, IInv, TypeOK
    <3>. QED
      BY <1>2, <3>1, LabelSets
  <2>4. CASE Adjust(c)
    <3>1. PICK next \in MinLimit .. MaxLimit \ {limit} :
             IF next > limit THEN Grow(c, next) ELSE Shrink(c, next)
      BY <2>4 DEF Adjust, NextLimits
    <3>2. UNCHANGED <<inFlight, drainCh>> /\ ~LastOne(c)
      BY <2>4 DEF Adjust, At, flags
    <3>3. CASE next > limit
      <4>1. next - limit - Smaller(debt, next - limit) \in Nat
        BY <3>3, LimitsAssumption DEF Smaller, IInv, TypeOK
      <4>2. Send(c, next - limit - Smaller(debt, next - limit), "count")
        BY <3>1, <3>3 DEF Grow
      <4>. QED
        BY <1>1, <2>0, <3>2, <4>1, <4>2, LabelSets
    <3>4. CASE ~(next > limit)
      <4>1. Goto(c, "count")
        BY <3>1, <3>4 DEF Shrink
      <4>. QED
        BY <1>2, <3>2, <4>1, LabelSets
    <3>. QED
      BY <3>3, <3>4
  <2>5. CASE Uncount(c)
    <3>1. /\ Goto(c, IF LastOut THEN "putLast" ELSE "put")
          /\ inFlight' = inFlight - 1 /\ drainCh' = drainCh
      BY <2>5 DEF Uncount, flags
    <3>2. inFlight \in Nat /\ inFlight' \in Nat
      BY DEF IInv, TypeOK
    <3>3. CASE LastOut
      BY <1>2, <3>1, <3>3, LabelSets
    <3>4. CASE ~LastOut
      <4>1. inFlight' > 0
        BY <3>1, <3>2, <3>4 DEF LastOut
      <4>. QED
        BY <1>2, <3>1, <3>4, <4>1, LabelSets
    <3>. QED
      BY <3>3, <3>4
  <2>6. CASE ReleasePermit(c)
    <3>. DEFINE label == IF At(c, "putLast") THEN "signal" ELSE "done"
    <3>1. /\ label \in Labels /\ label \in Labels \cup ResetPC
          /\ LastOne(c) => label = "signal"
          /\ UNCHANGED <<inFlight, drainCh>>
          /\ Goto(c, label) \/ Send(c, 1, label)
      BY <2>6, LabelSets DEF ReleasePermit, At, flags
    <3>. HIDE DEF label
    <3>. QED
      BY <1>1, <1>2, <2>0, <3>1
  <2>7. CASE SignalDrain(c)
    <3>1. Goto(c, "done") /\ inFlight' = inFlight /\ drainCh' = DrainAfter
      BY <2>7 DEF SignalDrain, pool
    <3>2. drainCh' \/ (inFlight > 0 /\ drainCh' = drainCh) \/ ~closed
      BY <3>1 DEF DrainAfter, IInv, TypeOK
    <3>. QED
      BY <1>2, <3>1, <3>2, LabelSets
  <2>. QED
    BY <1>3, <2>1, <2>2, <2>3, <2>4, <2>5, <2>6, <2>7 DEF Acquiring, Releasing
<1>4. ASSUME NEW r \in Resetters, ResetLimit(r) PROVE DrainWakesCloser'
  <2>1. /\ \A g \in Goroutines : g # r => pc'[g] = pc[g]
        /\ UNCHANGED <<inFlight, drainCh>>
    BY <1>4 DEF ResetLimit, Goto, IInv, TypeOK, flags
  <2>2. (\A c \in Callers : pc'[c] = pc[c]) /\ \A k \in Closers : pc'[k] = pc[k]
    BY <2>1, ActorsAssumption DEF Goroutines
  <2>. QED
    BY <2>1, <2>2 DEF DrainWakesCloser
<1>5. ASSUME NEW r \in Resetters, Refill(r) PROVE DrainWakesCloser'
  <2>1. r \in Goroutines /\ r \notin Callers /\ r \notin Closers
    BY ActorsAssumption DEF Goroutines
  <2>2. Want \in Nat /\ Send(r, Want, "done") /\ UNCHANGED <<inFlight, drainCh>>
    BY <1>5 DEF Refill, Want, IInv, TypeOK, flags
  <2>. QED
    BY <1>1, <2>1, <2>2, LabelSets
<1>6. ASSUME NEW k \in Closers, Closing(k) PROVE DrainWakesCloser'
  <2>1. PICK b \in ClosePC : Goto(k, b) /\ (b = "wait" => inFlight > 0)
    BY <1>6, LabelSets
       DEF Closing, CloseFlag, CloseChannel, CloseSignal, CloseCheck, Drained, TimeOut,
           DrainSemaphore, CloseReturn
  <2>2. inFlight' = inFlight /\ (drainCh => drainCh')
    <3>1. inFlight' = inFlight /\ (drainCh' = drainCh \/ drainCh' = DrainAfter)
      BY <1>6
         DEF Closing, CloseFlag, CloseChannel, CloseSignal, CloseCheck, Drained, TimeOut,
             DrainSemaphore, CloseReturn, flags
    <3>2. drainCh => DrainAfter
      BY DEF DrainAfter
    <3>3. drainCh /\ drainCh' = DrainAfter => drainCh'
      BY <3>2
    <3>4. drainCh /\ drainCh' = drainCh => drainCh'
      OBVIOUS
    <3>. QED
      BY <3>1, <3>3, <3>4
  <2>3. /\ \A c \in Callers : pc'[c] = pc[c]
        /\ \A j \in Closers : j # k => pc'[j] = pc[j]
        /\ pc'[k] = b
    BY <2>1, CloserMoves DEF IInv, Goroutines
  <2>. QED
    BY <2>1, <2>2, <2>3 DEF DrainWakesCloser
<1>7. CASE Quiet
  BY <1>7 DEF Quiet, vars, flags, DrainWakesCloser
<1>. QED
  BY <1>3, <1>4, <1>5, <1>6, <1>7 DEF Next

\* Whoever waits in waitForDrain is owed a signal, however late calls were
\* admitted while the limiter closed (signalDrainIfIdle, admit).
THEOREM DrainIsSignalled == HSpec => []DrainWakesCloser
<1>1. HInit => DrainWakesCloser
  <2>. SUFFICES ASSUME HInit PROVE \A k \in Closers : pc[k] # "wait"
    BY DEF DrainWakesCloser
  <2>. QED
    BY DEF HInit, Init, Goroutines
<1>2. IInv /\ IInv' /\ DrainWakesCloser /\ [HNext]_hvars => DrainWakesCloser'
  <2>1. CASE HNext
    BY <2>1, DrainStep DEF HNext
  <2>2. CASE UNCHANGED hvars
    BY <2>2 DEF hvars, vars, flags, DrainWakesCloser
  <2>. QED
    BY <2>1, <2>2
<1>. QED
  BY <1>1, <1>2, Invariant, PTL DEF HSpec
-----------------------------------------------------------------------------
(* Waiting for a permit. *)

\* Nobody is blocked while a permit is idle.
ReceiverInv == Blocked # {} => sem = 0

\* The debt is forgotten inside ResetStats, and Close empties the pool only
\* after it has released the waiters.
LateInv ==
  /\ mu # Nobody => debt = 0
  /\ \A k \in Closers :
       pc[k] \in {"signal", "check", "wait", "drain", "return", "ok", "ErrDrainTimeout"} => closedCh

\* While the limit has stayed within its maximum there are at least as many
\* permits as the limit says; there may be more.
EnoughInv ==
  within => /\ limit + debt <= MaxLimit
            /\ mu = Nobody /\ ~closedCh => sem + Held >= limit + debt

WaitInv == ReceiverInv /\ LateInv /\ EnoughInv

\* Waiters come before the buffer: if one is left, all permits were handed out.
LEMMA SendServesBlocked ==
  ASSUME TypeOK, ReceiverInv, NEW g \in Goroutines, NEW n \in Nat,
         NEW label \in Labels \cup ResetPC, label # "blocked", Send(g, n, label),
         closedCh' = closedCh
  PROVE  ReceiverInv'
<1>1. PICK W \in SUBSET Blocked :
         /\ Cardinality(W) = Smaller(n, Cardinality(Blocked))
         /\ sem' = Smaller(sem + n - Cardinality(W), MaxLimit)
         /\ pc' = [c \in Goroutines |-> IF c = g THEN label
                                        ELSE IF c \in W THEN "recheck" ELSE pc[c]]
  BY DEF Send
<1>2. IsFiniteSet(Blocked) /\ Cardinality(Blocked) \in Nat
  <2>1. Blocked \in SUBSET Callers
    BY DEF Blocked
  <2>. QED
    BY <2>1, ActorsAssumption, FS_Subset, FS_CardinalityType
<1>3. Blocked' \subseteq Blocked \ W
  BY <1>1 DEF Blocked, Goroutines
<1>4. ASSUME Blocked' # {} PROVE sem' = 0
  <2>1. W # Blocked /\ Blocked # {}
    BY <1>3, <1>4
  <2>2. Cardinality(W) # Cardinality(Blocked)
    BY <1>2, <2>1, FS_Subset
  <2>3. Cardinality(W) = n
    BY <1>1, <1>2, <2>2 DEF Smaller
  <2>4. sem = 0
    BY <2>1 DEF ReceiverInv
  <2>. QED
    BY <1>1, <2>3, <2>4, LimitsAssumption DEF Smaller
<1>. QED
  BY <1>4 DEF ReceiverInv

\* A step after which no more callers are blocked, with no more idle permits.
LEMMA FewerBlocked ==
  ASSUME ReceiverInv, Blocked' \subseteq Blocked, sem' = sem \/ sem' = 0
  PROVE  ReceiverInv'
  BY DEF ReceiverInv

LEMMA CallerKeepsReceivers ==
  ASSUME IInv, ReceiverInv, NEW c \in Callers, Enter(c) \/ Acquiring(c) \/ Releasing(c)
  PROVE  ReceiverInv'
<1>0. /\ c \in Goroutines /\ TypeOK /\ closedCh' = closedCh
      /\ sem \in Nat /\ limit \in Nat /\ debt \in Nat
  BY DEF Goroutines, IInv, TypeOK, Enter, Acquiring, Releasing, Take, Block, SeeClosed, GiveUp,
         Recheck, GiveBack, Admit, Adjust, Record, Uncount, ReleasePermit, SignalDrain, flags
<1>1. ASSUME NEW label \in Labels, label # "blocked", Goto(c, label) PROVE Blocked' \subseteq Blocked
  <2>1. \A d \in Callers : pc'[d] = IF d = c THEN label ELSE pc[d]
    BY <1>0, <1>1 DEF Goto, TypeOK, Goroutines
  <2>. QED
    BY <1>0, <1>1, <2>1 DEF Blocked
<1>2. CASE \/ Enter(c) \/ SeeClosed(c) \/ GiveUp(c) \/ Recheck(c) \/ Admit(c)
           \/ Record(c) \/ Uncount(c) \/ SignalDrain(c)
  <2>1. PICK label \in Labels : Goto(c, label) /\ label # "blocked"
    BY <1>2, LabelSets DEF Enter, SeeClosed, GiveUp, Recheck, Admit, Record, Uncount, SignalDrain
  <2>2. sem' = sem
    BY <1>2 DEF Enter, SeeClosed, GiveUp, Recheck, Admit, Record, Uncount, SignalDrain, pool
  <2>. QED
    BY <1>1, <2>1, <2>2, FewerBlocked
<1>3. CASE Take(c)
  <2>1. Blocked' \subseteq Blocked
    BY <1>1, <1>3, LabelSets DEF Take
  <2>2. Blocked = {}
    BY <1>3 DEF Take, ReceiverInv
  <2>. QED
    BY <2>1, <2>2 DEF ReceiverInv
<1>4. CASE Block(c)
  BY <1>4 DEF Block, pool, ReceiverInv
<1>5. CASE GiveBack(c)
  BY <1>0, <1>5, SendServesBlocked, LabelSets DEF GiveBack
<1>6. CASE Adjust(c)
  <2>1. PICK next \in MinLimit .. MaxLimit \ {limit} :
           IF next > limit THEN Grow(c, next) ELSE Shrink(c, next)
    BY <1>6 DEF Adjust, NextLimits
  <2>2. CASE next > limit
    <3>1. next - limit - Smaller(debt, next - limit) \in Nat
      BY <1>0, <2>2, LimitsAssumption DEF Smaller
    <3>2. Send(c, next - limit - Smaller(debt, next - limit), "count")
      BY <2>1, <2>2 DEF Grow
    <3>. QED
      BY <1>0, <3>1, <3>2, SendServesBlocked, LabelSets
  <2>3. CASE ~(next > limit)
    <3>1. Goto(c, "count") /\ sem' = sem - Smaller(limit - next, sem)
      BY <2>1, <2>3 DEF Shrink
    <3>2. sem = 0 => sem' = 0
      <4>1. next \in Int /\ limit - next >= 0
        BY <1>0, <2>3, LimitsAssumption
      <4>2. Smaller(limit - next, 0) = 0
        BY <1>0, <4>1 DEF Smaller
      <4>. QED
        BY <3>1, <4>2
    <3>3. Blocked' \subseteq Blocked
      BY <1>1, <3>1, LabelSets
    <3>. QED
      BY <3>2, <3>3 DEF ReceiverInv
  <2>. QED
    BY <2>2, <2>3
<1>7. CASE ReleasePermit(c)
  <2>. DEFINE label == IF At(c, "putLast") THEN "signal" ELSE "done"
  <2>1. /\ label \in Labels /\ label \in Labels \cup ResetPC /\ label # "blocked"
        /\ (Goto(c, label) /\ sem' = sem) \/ Send(c, 1, label)
    BY <1>7, LabelSets DEF ReleasePermit
  <2>. HIDE DEF label
  <2>2. CASE Goto(c, label) /\ sem' = sem
    BY <1>1, <2>1, <2>2, FewerBlocked
  <2>3. CASE Send(c, 1, label)
    BY <1>0, <2>1, <2>3, SendServesBlocked
  <2>. QED
    BY <2>1, <2>2, <2>3
<1>. QED
  BY <1>2, <1>3, <1>4, <1>5, <1>6, <1>7 DEF Acquiring, Releasing

LEMMA ReceiverStep == IInv /\ ReceiverInv /\ Next => ReceiverInv'
<1>. SUFFICES ASSUME IInv, ReceiverInv, Next PROVE ReceiverInv'
  OBVIOUS
<1>1. ASSUME NEW r \in Resetters, ResetLimit(r) PROVE ReceiverInv'
  BY <1>1 DEF ResetLimit, ReceiverInv
<1>2. ASSUME NEW r \in Resetters, Refill(r) PROVE ReceiverInv'
  <2>1. r \in Goroutines /\ Want \in Nat /\ TypeOK /\ closedCh' = closedCh
    BY <1>2 DEF Goroutines, Refill, Want, IInv, TypeOK, flags
  <2>. QED
    BY <1>2, <2>1, SendServesBlocked, LabelSets DEF Refill
<1>3. ASSUME NEW k \in Closers, Closing(k) PROVE ReceiverInv'
  <2>1. PICK b \in ClosePC : Goto(k, b)
    BY <1>3, LabelSets
       DEF Closing, CloseFlag, CloseChannel, CloseSignal, CloseCheck, Drained, TimeOut,
           DrainSemaphore, CloseReturn
  <2>2. (sem' = sem \/ sem' = 0) /\ (closedCh' = closedCh \/ closedCh' = TRUE)
    BY <1>3
       DEF Closing, CloseFlag, CloseChannel, CloseSignal, CloseCheck, Drained, TimeOut,
           DrainSemaphore, CloseReturn, pool, flags
  <2>3. Blocked' \subseteq Blocked
    <3>1. \A c \in Callers : pc'[c] = pc[c]
      BY <2>1, CloserMoves DEF IInv
    <3>. QED
      BY <2>2, <3>1 DEF Blocked
  <2>. QED
    BY <2>2, <2>3, FewerBlocked
<1>4. CASE Quiet
  BY <1>4 DEF Quiet, vars, pool, flags, ReceiverInv, Blocked
<1>. QED
  BY <1>1, <1>2, <1>3, <1>4, CallerKeepsReceivers DEF Next

LEMMA LateStep == IInv /\ LateInv /\ Next => LateInv'
<1>. SUFFICES ASSUME IInv, LateInv, Next PROVE LateInv'
  OBVIOUS
<1>. DEFINE Late == {"signal", "check", "wait", "drain", "return", "ok", "ErrDrainTimeout"}
<1>1. ASSUME NEW c \in Callers, Enter(c) \/ Acquiring(c) \/ Releasing(c) PROVE LateInv'
  <2>1. \A k \in Closers : k \in Goroutines /\ k # c
    BY ActorsAssumption DEF Goroutines
  <2>2. UNCHANGED <<mu, closedCh>> /\ (debt' = debt \/ mu = Nobody)
    BY <1>1
       DEF Enter, Acquiring, Releasing, Take, Block, SeeClosed, GiveUp, Recheck, GiveBack, Admit,
           Adjust, Record, Uncount, ReleasePermit, SignalDrain, pool, flags
  <2>3. ASSUME NEW label, Goto(c, label) PROVE \A k \in Closers : pc'[k] = pc[k]
    BY <2>1, <2>3 DEF Goto, IInv, TypeOK
  <2>4. ASSUME NEW n, NEW label, Send(c, n, label) PROVE \A k \in Closers : pc'[k] = pc[k]
    <3>1. PICK W \in SUBSET Blocked :
            pc' = [d \in Goroutines |-> IF d = c THEN label
                                        ELSE IF d \in W THEN "recheck" ELSE pc[d]]
      BY <2>4 DEF Send
    <3>2. \A k \in Closers : k \notin W
      BY ActorsAssumption DEF Blocked
    <3>. QED
      BY <2>1, <3>1, <3>2
  <2>5. (\E label : Goto(c, label)) \/ (\E n, label : Send(c, n, label))
    BY <1>1
       DEF Enter, Acquiring, Releasing, Take, Block, SeeClosed, GiveUp, Recheck, GiveBack, Admit,
           Adjust, Grow, Shrink, Record, Uncount, ReleasePermit, SignalDrain
  <2>. QED
    BY <2>2, <2>3, <2>4, <2>5 DEF LateInv
<1>2. ASSUME NEW r \in Resetters, ResetLimit(r) \/ Refill(r) PROVE LateInv'
  <2>1. \A k \in Closers : k \in Goroutines /\ k # r /\ k \notin Callers
    BY ActorsAssumption DEF Goroutines
  <2>2. closedCh' = closedCh /\ (debt' = 0 \/ mu' = Nobody)
    BY <1>2 DEF ResetLimit, Refill, flags
  <2>3. \A k \in Closers : pc'[k] = pc[k]
    BY <1>2, <2>1 DEF ResetLimit, Refill, Send, Blocked, Goto, IInv, TypeOK
  <2>. QED
    BY <2>2, <2>3 DEF LateInv
<1>3. ASSUME NEW k \in Closers, Closing(k) PROVE LateInv'
  <2>1. PICK b \in ClosePC : Goto(k, b) /\ (b \in Late => pc[k] \in Late \/ closedCh' = TRUE)
    BY <1>3, LabelSets
       DEF Closing, CloseFlag, CloseChannel, CloseSignal, CloseCheck, Drained, TimeOut,
           DrainSemaphore, CloseReturn, At
  <2>2. UNCHANGED <<mu, debt>> /\ (closedCh' = closedCh \/ closedCh' = TRUE)
    BY <1>3
       DEF Closing, CloseFlag, CloseChannel, CloseSignal, CloseCheck, Drained, TimeOut,
           DrainSemaphore, CloseReturn, pool, flags
  <2>3. \A j \in Closers : pc'[j] = IF j = k THEN b ELSE pc[j]
    BY <2>1, CloserMoves DEF IInv, Goroutines
  <2>. QED
    BY <2>1, <2>2, <2>3 DEF LateInv
<1>4. CASE Quiet
  BY <1>4 DEF Quiet, vars, pool, flags, LateInv
<1>. QED
  BY <1>1, <1>2, <1>3, <1>4 DEF Next

\* A caller's step keeps the permits at what the limit says, or above.
LEMMA CallerKeepsEnough ==
  ASSUME IInv, IInv', EnoughInv, within, within', limit' <= MaxLimit, NEW c \in Callers,
         Enter(c) \/ Acquiring(c) \/ Releasing(c)
  PROVE  EnoughInv'
<1>. USE DEF At
<1>0. /\ c \in Goroutines /\ TypeOK
      /\ sem \in Nat /\ limit \in Nat /\ debt \in Nat /\ Held \in Nat /\ MaxLimit \in Nat
      /\ limit + debt <= MaxLimit
      /\ mu = Nobody /\ ~closedCh => sem + Held >= limit + debt
  BY Sizes, LimitsAssumption DEF Goroutines, IInv, TypeOK, SizesOK, EnoughInv
<1>1. UNCHANGED <<mu, closedCh>>
  BY DEF Enter, Acquiring, Releasing, Take, Block, SeeClosed, GiveUp, Recheck, GiveBack, Admit,
         Adjust, Record, Uncount, ReleasePermit, SignalDrain, flags
<1>2. CASE \/ Enter(c) \/ Block(c) \/ SeeClosed(c) \/ GiveUp(c) \/ Recheck(c) \/ Admit(c)
           \/ Record(c) \/ Uncount(c) \/ SignalDrain(c)
  <2>1. PICK label \in Labels : Goto(c, label) /\ (pc[c] \in Holding <=> label \in Holding)
    BY <1>2, LabelSets
       DEF Enter, Block, SeeClosed, GiveUp, Recheck, Admit, Record, Uncount, SignalDrain, IInv,
           PlaceInv
  <2>2. Held' = Held
    BY <1>0, <2>1, Shift
  <2>3. UNCHANGED pool
    BY <1>2 DEF Enter, Block, SeeClosed, GiveUp, Recheck, Admit, Record, Uncount, SignalDrain
  <2>. QED
    BY <1>0, <1>1, <2>2, <2>3 DEF EnoughInv, pool
<1>3. CASE Take(c)
  <2>1. Held' = Held + 1
    BY <1>0, <1>3, LabelSets, Shift DEF Take
  <2>. QED
    BY <1>0, <1>1, <1>3, <2>1 DEF EnoughInv, Take
<1>4. ASSUME NEW label \in {"done", "signal"}, Send(c, 1, label), pc[c] \in Holding \ Counted,
             UNCHANGED <<limit, debt>>
      PROVE  EnoughInv'
  <2>1. label \in Labels /\ label \notin Holding
    BY <1>4, LabelSets
  <2>2. PICK w \in 0 .. 1 : Held' = Held - 1 + w /\ sem' = Smaller(sem + 1 - w, MaxLimit)
    BY <1>0, <1>4, <2>1, SendByLeaver
  <2>3. Held >= 1
    BY <1>0, <1>4, <2>1, SendByLeaver
  <2>4. sem' + Held' >= sem + Held \/ sem' + Held' >= MaxLimit
    BY <1>0, <2>2, <2>3 DEF Smaller
  <2>5. sem' + Held' \in Nat
    BY <1>0, <2>2, <2>3 DEF Smaller
  <2>. QED
    BY <1>0, <1>1, <1>4, <2>4, <2>5 DEF EnoughInv
<1>5. CASE GiveBack(c)
  BY <1>4, <1>5, LabelSets DEF GiveBack
<1>6. CASE ReleasePermit(c)
  <2>1. pc[c] \in Holding \ Counted
    BY <1>6, LabelSets DEF ReleasePermit
  <2>2. CASE ~PaysDebt
    <3>1. PICK label \in {"done", "signal"} : Send(c, 1, label)
      BY <1>6, <2>2 DEF ReleasePermit
    <3>. QED
      BY <1>4, <1>6, <2>1, <2>2, <3>1 DEF ReleasePermit
  <2>3. CASE PaysDebt
    <3>1. PICK label \in {"done", "signal"} : Goto(c, label)
      BY <1>6, <2>3 DEF ReleasePermit
    <3>2. label \in Labels /\ label \notin Holding
      BY LabelSets
    <3>3. Held' = Held - 1
      BY <1>0, <2>1, <3>1, <3>2, Shift
    <3>4. debt' = debt - 1 /\ UNCHANGED <<sem, limit>>
      BY <1>6, <2>3 DEF ReleasePermit
    <3>. QED
      BY <1>0, <1>1, <3>3, <3>4 DEF EnoughInv
  <2>. QED
    BY <2>2, <2>3
<1>7. CASE Adjust(c)
  <2>1. PICK next \in MinLimit .. MaxLimit \ {limit} :
           limit' = next /\ IF next > limit THEN Grow(c, next) ELSE Shrink(c, next)
    BY <1>7 DEF Adjust, NextLimits
  <2>2. /\ next \in Nat /\ pc[c] = "run"
        /\ "count" \in Labels /\ "count" \in Labels \cup ResetPC /\ pc[c] # "blocked"
        /\ pc[c] \in Holding /\ "count" \in Holding /\ pc[c] \in Counted /\ "count" \in Counted
    BY <1>7, LabelSets, LimitsAssumption DEF Adjust
  <2>3. CASE next > limit
    <3>. DEFINE paid == Smaller(debt, next - limit)
                n == next - limit - paid
    <3>1. paid \in 0 .. debt /\ n \in Nat /\ limit' + debt - paid = limit + debt + n
      BY <1>0, <2>1, <2>2, <2>3 DEF Smaller
    <3>2. n = 0 \/ paid = debt
      BY <1>0, <2>2, <2>3 DEF Smaller
    <3>3. debt' = debt - paid /\ Send(c, n, "count")
      BY <2>1, <2>3 DEF Grow
    <3>. HIDE DEF paid, n
    <3>4. PICK w \in 0 .. n : Held' = Held + w /\ sem' = Smaller(sem + n - w, MaxLimit)
      BY <1>0, <2>2, <3>1, <3>3, SendKeepsSender
    <3>5. limit' + debt' = limit + debt + n /\ limit' + debt' <= MaxLimit
      BY <1>0, <2>1, <2>2, <3>1, <3>2, <3>3
    <3>6. sem' + Held' >= sem + Held + n \/ sem' + Held' >= MaxLimit
      BY <1>0, <3>1, <3>4 DEF Smaller
    <3>7. sem' + Held' \in Nat
      BY <1>0, <3>1, <3>4 DEF Smaller
    <3>. QED
      BY <1>0, <1>1, <3>1, <3>5, <3>6, <3>7 DEF EnoughInv
  <2>4. CASE ~(next > limit)
    <3>. DEFINE idle == Smaller(limit - next, sem)
    <3>1. idle \in 0 .. sem /\ idle <= limit - next
      BY <1>0, <2>2, <2>4 DEF Smaller
    <3>2. sem' = sem - idle /\ debt' = debt + (limit - next - idle) /\ Goto(c, "count")
      BY <2>1, <2>4 DEF Shrink
    <3>. HIDE DEF idle
    <3>3. Held' = Held
      BY <1>0, <2>2, <3>2, Shift
    <3>. QED
      BY <1>0, <1>1, <2>1, <2>2, <3>1, <3>2, <3>3 DEF EnoughInv
  <2>. QED
    BY <2>3, <2>4
<1>. QED
  BY <1>2, <1>3, <1>5, <1>6, <1>7 DEF Acquiring, Releasing

\* The first half of ResetStats forgets the debt; the second half is still to come.
LEMMA ResetKeepsEnough ==
  ASSUME IInv', limit' <= MaxLimit, NEW r \in Resetters, ResetLimit(r)
  PROVE  EnoughInv'
<1>1. mu' # Nobody /\ debt' = 0 /\ limit' \in Nat /\ MaxLimit \in Nat
  BY ActorsAssumption, LimitsAssumption DEF ResetLimit, IInv, TypeOK
<1>2. limit' + debt' <= MaxLimit
  <2>1. \A l, m \in Nat : l <= m => l + 0 <= m
    OBVIOUS
  <2>. QED
    BY <1>1, <2>1
<1>. QED
  BY <1>1, <1>2 DEF EnoughInv

\* The second half of ResetStats makes good for what the first half threw away.
LEMMA RefillKeepsEnough ==
  ASSUME IInv, LateInv, EnoughInv, within, NEW r \in Resetters, Refill(r)
  PROVE  EnoughInv'
<1>1. /\ r \in Goroutines /\ r \notin Callers /\ pc[r] = "refill" /\ mu # Nobody
      /\ "done" \in Labels \cup ResetPC /\ TypeOK
  BY ActorsAssumption, LabelSets DEF Refill, At, Goroutines, IInv, PlaceInv
<1>2. /\ sem \in Nat /\ limit \in Nat /\ Held \in Nat /\ MaxLimit \in Nat /\ inFlight \in Nat
      /\ debt = 0 /\ limit <= MaxLimit /\ inFlight <= Held
  BY <1>1, Sizes, LimitsAssumption
     DEF IInv, TypeOK, CountInv, SizesOK, LateInv, EnoughInv
<1>3. Want \in Nat /\ Want >= limit - inFlight
  BY <1>2 DEF Want
<1>4. Send(r, Want, "done") /\ UNCHANGED <<limit, debt>>
  BY DEF Refill
<1>5. PICK w \in 0 .. Want : Held' = Held + w /\ sem' = Smaller(sem + Want - w, MaxLimit)
  BY <1>1, <1>3, <1>4, SendKeepsSender
<1>6. sem' + Held' >= sem + Held + Want \/ sem' + Held' >= MaxLimit
  BY <1>2, <1>3, <1>5 DEF Smaller
<1>7. sem' + Held' >= limit
  <2>1. sem' + Held' \in Nat
    BY <1>2, <1>3, <1>5 DEF Smaller
  <2>. QED
    BY <1>2, <1>3, <1>6, <2>1
<1>. QED
  BY <1>2, <1>4, <1>7 DEF EnoughInv

LEMMA EnoughStep == IInv /\ IInv' /\ LateInv /\ EnoughInv /\ HNext => EnoughInv'
<1>. SUFFICES ASSUME IInv, IInv', LateInv, EnoughInv, HNext, within'
              PROVE  EnoughInv'
  BY DEF EnoughInv
<1>0. within /\ limit' <= MaxLimit /\ Next
  BY DEF HNext, Remember
<1>1. ASSUME NEW c \in Callers, Enter(c) \/ Acquiring(c) \/ Releasing(c) PROVE EnoughInv'
  BY <1>0, <1>1, CallerKeepsEnough
<1>2. ASSUME NEW r \in Resetters, ResetLimit(r) PROVE EnoughInv'
  BY <1>0, <1>2, ResetKeepsEnough
<1>3. ASSUME NEW r \in Resetters, Refill(r) PROVE EnoughInv'
  BY <1>0, <1>3, RefillKeepsEnough
<1>4. ASSUME NEW k \in Closers, Closing(k) PROVE EnoughInv'
  <2>1. PICK b \in ClosePC : Goto(k, b) /\ (sem' = sem \/ pc[k] = "drain")
    BY <1>4, LabelSets
       DEF Closing, CloseFlag, CloseChannel, CloseSignal, CloseCheck, Drained, TimeOut,
           DrainSemaphore, CloseReturn, pool, At
  <2>2. UNCHANGED <<mu, limit, debt>> /\ (closedCh' = closedCh \/ closedCh' = TRUE)
    BY <1>4
       DEF Closing, CloseFlag, CloseChannel, CloseSignal, CloseCheck, Drained, TimeOut,
           DrainSemaphore, CloseReturn, pool, flags
  <2>3. Held' = Held
    BY <2>1, CloserMoves DEF IInv
  <2>4. pc[k] = "drain" => closedCh
    BY DEF LateInv
  <2>5. sem' = sem \/ closedCh'
    BY <2>1, <2>2, <2>4
  <2>6. closedCh => closedCh'
    BY <2>2
  <2>. QED
    BY <1>0, <2>2, <2>3, <2>5, <2>6 DEF EnoughInv
<1>5. CASE Quiet
  <2>1. Held' = Held
    BY <1>5 DEF Quiet, vars, Held
  <2>. QED
    BY <1>0, <1>5, <2>1 DEF Quiet, vars, pool, flags, EnoughInv
<1>. QED
  BY <1>0, <1>1, <1>2, <1>3, <1>4, <1>5 DEF Next

LEMMA InitWait == HInit => WaitInv
<1>. SUFFICES ASSUME HInit PROVE WaitInv
  OBVIOUS
<1>1. \A g \in Goroutines : pc[g] = "idle"
  BY DEF HInit, Init
<1>2. ReceiverInv /\ LateInv
  BY <1>1 DEF HInit, Init, ReceiverInv, LateInv, Blocked, Goroutines
<1>3. EnoughInv
  BY Sizes, LimitsAssumption DEF HInit, Init, EnoughInv, SizesOK
<1>. QED
  BY <1>2, <1>3 DEF WaitInv

LEMMA WaitNext == IInv /\ IInv' /\ WaitInv /\ [HNext]_hvars => WaitInv'
<1>. SUFFICES ASSUME IInv, IInv', WaitInv, [HNext]_hvars PROVE WaitInv'
  OBVIOUS
<1>1. CASE HNext
  BY <1>1, ReceiverStep, LateStep, EnoughStep DEF HNext, WaitInv
<1>2. CASE UNCHANGED hvars
  <2>1. Held' = Held /\ Blocked' = Blocked
    BY <1>2 DEF hvars, vars, flags, Held, Blocked
  <2>2. ReceiverInv' /\ LateInv'
    BY <1>2, <2>1 DEF hvars, vars, pool, flags, WaitInv, ReceiverInv, LateInv
  <2>3. EnoughInv'
    BY <1>2, <2>1 DEF hvars, vars, pool, flags, WaitInv, EnoughInv
  <2>. QED
    BY <2>2, <2>3 DEF WaitInv
<1>. QED
  BY <1>1, <1>2

\* Whoever waits for a permit waits for a holder who will not pay debt with it:
\* the limit is at least one, and outside ResetStats there are as many permits
\* as it says (adjust, releasePermit, ResetStats).
THEOREM WaitersAreServed == HSpec => []NobodyWaitsInVain
<1>1. IInv /\ WaitInv => NobodyWaitsInVain
  <2>. SUFFICES ASSUME IInv, WaitInv, within, Blocked # {}, mu = Nobody
                PROVE  sem = 0 /\ Held > debt
    BY DEF NobodyWaitsInVain
  <2>1. ~closedCh /\ sem = 0
    BY DEF WaitInv, ReceiverInv, Blocked
  <2>2. sem + Held >= limit + debt
    BY <2>1 DEF WaitInv, EnoughInv
  <2>3. limit \in Nat /\ limit >= 1 /\ debt \in Nat /\ Held \in Nat
    BY Sizes, LimitsAssumption DEF IInv, TypeOK, SizesOK
  <2>. QED
    BY <2>1, <2>2, <2>3
<1>. QED
  BY <1>1, Invariant, InitWait, WaitNext, PTL DEF HSpec
=============================================================================
