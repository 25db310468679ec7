--------------------------- MODULE CallProofs -------------------------------
(***************************************************************************)
(* Proofs about what calls are counted and told: the loop of a retry, the  *)
(* counters of a fallback and the count of its cache, the capacity of a    *)
(* ramp, the limit of a control law, what all calls that the packages      *)
(* answer are told, and what newConfig of every package makes of its       *)
(* options, any options in any order.                                      *)
(***************************************************************************)
EXTENDS SharedProofs

-----------------------------------------------------------------------------
(* retryx.Do: a delay that the budget cut short is the last, and the error *)
(* says why the loop ended.                                                *)

retryNow     == x1
retryDead    == x2
retryAttempt == x3
retryAborted == x4
retryFailed  == x5
retryDelay   == x6
retryWake    == x7
retryClamped == x8
retryOver    == x9
retryPc      == x10
retryAnswer  == x11
USE DEF retryNow, retryDead, retryAttempt, retryAborted, retryFailed, retryDelay, retryWake,
        retryClamped, retryOver, retryPc, retryAnswer

\* Of what newConfig makes sure, what the proofs need.
RetryConfigured ==
  /\ MaxAttempts \in Nat /\ MaxAttempts >= 1
  /\ MaxElapsed \in Int /\ Delays \subseteq Int
  /\ MaxTime \in Nat

\* A!TypeOK in two parts: a leaf with both numbers and truth values is hard for SMT.
RetryNumbers ==
  /\ retryNow \in 0 .. MaxTime /\ retryAttempt \in 0 .. MaxAttempts
  /\ retryDelay \in Int /\ retryWake \in Int
RetryStates ==
  /\ retryDead \in BOOLEAN /\ retryAborted \in BOOLEAN /\ retryFailed \in BOOLEAN
  /\ retryClamped \in BOOLEAN /\ retryOver \in BOOLEAN
  /\ retryPc \in {"top", "budget", "fn", "look", "retryIf", "hook", "delay", "arm", "sleep", "done"}
  /\ retryAnswer \in A!Answers \cup {"none"}

\* How many attempts were made, and what became of the last, where the loop stands.
AttemptInv ==
  /\ retryPc \in {"fn", "look", "retryIf", "hook", "delay", "arm", "sleep"} => retryAttempt > 0
  /\ retryPc \in {"top", "budget", "hook", "delay", "arm", "sleep"} => retryAttempt < MaxAttempts
  /\ retryPc \in {"top", "budget", "look", "retryIf", "hook", "delay", "arm", "sleep"}
       /\ retryAttempt > 0 => retryFailed
  /\ retryPc \in {"look", "retryIf"} => ~retryAborted
AnswerInv == retryAnswer # "none" => retryPc = "done"

\* A context that has ended stays so, and a call that finds it goes no further.
OverInv ==
  /\ retryOver /\ retryPc = "look" => retryDead
  /\ retryPc = "retryIf" => ~retryOver

\* The budget is spent when a delay that it cut short is over.
ClampInv ==
  retryClamped =>
    /\ retryPc \in {"arm", "sleep", "top", "budget", "done"}
    /\ retryAttempt > 0 /\ MaxElapsed > 0
    /\ retryPc = "arm" => retryNow + retryDelay >= MaxElapsed
    /\ retryPc = "sleep" => retryWake >= MaxElapsed
    /\ retryPc \in {"top", "budget"} => retryNow >= MaxElapsed

RetryInv ==
  /\ RetryNumbers /\ RetryStates /\ AttemptInv /\ AnswerInv /\ OverInv /\ ClampInv
  /\ A!ReasonTrue

LEMMA LesserOfTwo ==
  ASSUME NEW i \in Int, NEW j \in Int PROVE A!Min({i, j}) = IF i <= j THEN i ELSE j
  BY DEF A!Min

LEMMA RetryInit == ASSUME RetryConfigured, A!Init PROVE RetryInv
<1>1. RetryNumbers
  BY DEF RetryConfigured, A!Init, RetryNumbers
<1>2. RetryStates
  BY DEF A!Init, RetryStates
<1>3. AttemptInv /\ AnswerInv /\ OverInv /\ ClampInv /\ A!ReasonTrue
  BY DEF RetryConfigured, A!Init, AttemptInv, AnswerInv, OverInv, ClampInv, A!ReasonTrue
<1>. QED
  BY <1>1, <1>2, <1>3 DEF RetryInv

\* Every step but delayAfter.
LEMMA RetryPlainStep ==
  ASSUME RetryConfigured, RetryInv,
         \/ A!Top \/ A!Budget \/ A!Abort \/ A!Succeed \/ A!Fail \/ A!Look \/ A!RetryIf \/ A!Hook
         \/ A!Arm \/ A!Sleep \/ A!Tick \/ A!Cancel
  PROVE  RetryInv'
<1>. USE DEF RetryConfigured, RetryInv, A!Goto, A!Answer, A!Spent
<1>0. RetryNumbers'
  BY DEF A!Top, A!Budget, A!Abort, A!Succeed, A!Fail, A!Look, A!RetryIf, A!Hook, A!Arm, A!Sleep,
         A!Tick, A!Cancel, RetryNumbers, AttemptInv
<1>1. RetryStates'
  BY ZenonT(60)
     DEF A!Top, A!Budget, A!Abort, A!Succeed, A!Fail, A!Look, A!RetryIf, A!Hook, A!Arm, A!Sleep,
         A!Tick, A!Cancel, RetryStates, A!Answers
<1>2. AttemptInv'
  BY DEF A!Top, A!Budget, A!Abort, A!Succeed, A!Fail, A!Look, A!RetryIf, A!Hook, A!Arm, A!Sleep,
         A!Tick, A!Cancel, RetryNumbers, RetryStates, AttemptInv
<1>3. AnswerInv'
  BY DEF A!Top, A!Budget, A!Abort, A!Succeed, A!Fail, A!Look, A!RetryIf, A!Hook, A!Arm, A!Sleep,
         A!Tick, A!Cancel, RetryNumbers, RetryStates, AnswerInv
<1>4. ClampInv'
  <2>1. CASE A!Top \/ A!Sleep
    <3>1. UNCHANGED <<retryClamped, retryNow, retryAttempt, retryWake>>
      BY <2>1 DEF A!Top, A!Sleep
    <3>2. \/ retryPc = "top" /\ retryPc' \in {"done", "budget"}
          \/ retryPc = "sleep" /\ retryPc' = "done"
          \/ retryPc = "sleep" /\ retryPc' = "top" /\ retryNow >= retryWake
      BY <2>1 DEF A!Top, A!Sleep
    <3>3. retryNow >= retryWake /\ retryWake >= MaxElapsed => retryNow >= MaxElapsed
      BY DEF RetryNumbers
    <3>. QED
      BY <3>1, <3>2, <3>3 DEF ClampInv
  <2>2. CASE A!Budget
    <3>1. retryClamped => retryPc' = "done" /\ retryAttempt' = retryAttempt
      BY <2>2 DEF A!Budget, ClampInv
    <3>2. UNCHANGED <<retryClamped, retryNow>>
      BY <2>2 DEF A!Budget
    <3>. QED
      BY <3>1, <3>2 DEF ClampInv
  <2>3. CASE A!Arm
    <3>1. UNCHANGED <<retryClamped, retryNow, retryAttempt>> /\ retryPc = "arm"
      BY <2>3 DEF A!Arm
    <3>2. retryWake' = retryNow + retryDelay
      BY <2>3 DEF A!Arm
    <3>3. retryPc' \in {"sleep", "done"} \/ (retryPc' = "top" /\ retryDelay <= 0)
      BY <2>3 DEF A!Arm, RetryNumbers
    <3>4. retryClamped => retryAttempt > 0 /\ MaxElapsed > 0 /\ retryNow + retryDelay >= MaxElapsed
      BY <3>1 DEF ClampInv
    <3>5. retryDelay <= 0 /\ retryNow + retryDelay >= MaxElapsed => retryNow >= MaxElapsed
      BY DEF RetryNumbers
    <3>. QED
      BY <3>1, <3>2, <3>3, <3>4, <3>5 DEF ClampInv
  <2>4. CASE A!Tick
    BY <2>4 DEF A!Tick, RetryNumbers, ClampInv
  <2>5. CASE A!Abort \/ A!Succeed \/ A!Fail \/ A!Look \/ A!RetryIf \/ A!Hook \/ A!Cancel
    BY <2>5 DEF A!Abort, A!Succeed, A!Fail, A!Look, A!RetryIf, A!Hook, A!Cancel, ClampInv
  <2>. QED
    BY <2>1, <2>2, <2>3, <2>4, <2>5
<1>5. A!ReasonTrue'
  <2>1. CASE A!Top \/ A!Budget
    BY <2>1 DEF A!Top, A!Budget, RetryNumbers, RetryStates, AttemptInv, AnswerInv, A!ReasonTrue
  <2>2. CASE A!Abort \/ A!Succeed \/ A!Fail
    BY <2>2 DEF A!Abort, A!Succeed, A!Fail, RetryNumbers, RetryStates, A!Answers, AttemptInv,
                AnswerInv, A!ReasonTrue
  <2>3. CASE A!Look \/ A!RetryIf \/ A!Hook
    BY <2>3 DEF A!Look, A!RetryIf, A!Hook, RetryNumbers, RetryStates, A!Answers, AttemptInv,
                AnswerInv, OverInv, A!ReasonTrue
  <2>4. CASE A!Arm \/ A!Sleep
    BY <2>4 DEF A!Arm, A!Sleep, RetryNumbers, RetryStates, A!Answers, AttemptInv, AnswerInv,
                A!ReasonTrue
  <2>5. CASE A!Tick \/ A!Cancel
    BY <2>5 DEF A!Tick, A!Cancel, RetryNumbers, RetryStates, AnswerInv, A!ReasonTrue
  <2>. QED
    BY <2>1, <2>2, <2>3, <2>4, <2>5
<1>6. OverInv'
  BY DEF A!Top, A!Budget, A!Abort, A!Succeed, A!Fail, A!Look, A!RetryIf, A!Hook, A!Arm, A!Sleep,
         A!Tick, A!Cancel, RetryStates, OverInv
<1>. QED
  BY <1>0, <1>1, <1>2, <1>3, <1>4, <1>5, <1>6

LEMMA RetryDelayStep == ASSUME RetryConfigured, RetryInv, A!Delay PROVE RetryInv'
<1>1. PICK d \in Delays :
        LET remaining == IF MaxElapsed > 0 THEN MaxElapsed - retryNow ELSE d
        IN  /\ retryDelay' = A!Min({d, remaining})
            /\ retryClamped' = (remaining < d)
  BY DEF A!Delay
<1>. DEFINE remaining == IF MaxElapsed > 0 THEN MaxElapsed - retryNow ELSE d
<1>2. d \in Int /\ remaining \in Int
  BY DEF RetryConfigured, RetryInv, RetryNumbers
<1>3. /\ retryDelay' = IF d <= remaining THEN d ELSE remaining
      /\ retryClamped' = (remaining < d)
  BY <1>1, <1>2, LesserOfTwo
<1>4. retryPc = "delay" /\ retryPc' = "arm"
      /\ UNCHANGED <<retryNow, retryDead, retryAttempt, retryAborted, retryFailed, retryWake,
                      retryOver, retryAnswer>>
  BY DEF A!Delay, A!Goto
<1>5. RetryNumbers' /\ RetryStates'
  <2>1. RetryNumbers'
    BY <1>2, <1>3, <1>4 DEF RetryInv, RetryNumbers
  <2>2. retryClamped' \in BOOLEAN
    BY <1>3
  <2>. QED
    BY <1>4, <2>1, <2>2 DEF RetryInv, RetryStates
<1>6. AttemptInv' /\ AnswerInv' /\ OverInv' /\ A!ReasonTrue'
  BY <1>4 DEF RetryInv, RetryNumbers, RetryStates, AttemptInv, AnswerInv, OverInv, A!ReasonTrue,
              A!Spent
<1>7. ClampInv'
  <2>1. ASSUME remaining < d
        PROVE  MaxElapsed > 0 /\ retryNow' + retryDelay' >= MaxElapsed /\ retryAttempt' > 0
    BY <1>2, <1>3, <1>4, <2>1 DEF RetryConfigured, RetryInv, RetryNumbers, RetryStates, AttemptInv
  <2>. HIDE DEF remaining
  <2>. QED
    BY <1>3, <1>4, <2>1 DEF ClampInv
<1>. QED
  BY <1>5, <1>6, <1>7 DEF RetryInv

LEMMA RetryInvariant == ASSUME RetryConfigured PROVE Spec => [](package = "retry" => RetryInv)
<1>1. Init => (package = "retry" => RetryInv)
  BY RetryInit, StartOfPackage
<1>2. (package = "retry" => RetryInv) /\ [Next]_vars => (package = "retry" => RetryInv)'
  <2>1. ASSUME RetryInv, A!Stop \/ UNCHANGED A!vars PROVE RetryInv'
    BY <2>1 DEF A!Stop, A!vars, RetryInv, RetryNumbers, RetryStates, AttemptInv, AnswerInv,
                OverInv, ClampInv, A!ReasonTrue, A!Spent
  <2>. QED
    BY <2>1, RetryPlainStep, RetryDelayStep, StepOfPackage DEF A!Next
<1>. QED
  BY <1>1, <1>2, PTL DEF Spec

\* A delay that the budget cut short is over when the budget is spent, whatever time the
\* steps between take (delayAfter, sleep, the top of Do's loop).
LEMMA RetryClampedIsLast == ASSUME RetryConfigured, RetryInv, [A!Next]_(A!vars)
  PROVE A!ClampedIsLast
<1>1. ASSUME A!Budget PROVE A!ClampedIsLast
  BY <1>1 DEF A!Budget, A!ClampedIsLast, A!Spent, A!Answer, RetryConfigured, RetryInv, ClampInv,
              RetryNumbers, RetryStates
<1>2. ASSUME UNCHANGED retryAttempt PROVE A!ClampedIsLast
  BY <1>2 DEF A!ClampedIsLast
<1>. QED
  BY <1>1, <1>2 DEF A!Next, A!Top, A!Abort, A!Succeed, A!Fail, A!Look, A!RetryIf, A!Hook, A!Delay,
                    A!Arm, A!Sleep, A!Tick, A!Cancel, A!Stop, A!vars

LEMMA RetryAnswersTrue == ASSUME RetryInv PROVE A!TypeOK /\ A!ReasonTrue
  BY DEF RetryInv, RetryNumbers, RetryStates, A!TypeOK

HIDE DEF retryNow, retryDead, retryAttempt, retryAborted, retryFailed, retryDelay,
         retryWake, retryClamped, retryOver, retryPc, retryAnswer

-----------------------------------------------------------------------------
\* shedx.tryReserve and retryx.delayAfter: no call that is not critical claims a slot
\* beyond the bound of its priority, and no attempt follows a delay that the budget of
\* time cut short.
THEOREM StepsStayWithinBounds ==
  ASSUME ShedConfigured, RetryConfigured PROVE Spec => StepsWithinBounds
<1>1. ASSUME package = "shed" => ShedInv, (package = "shed" => ShedInv)',
             package = "retry" => RetryInv, [Next]_vars
      PROVE  [/\ package = "shed" => S!ClaimWithinBound
              /\ package = "retry" => A!ClampedIsLast]_vars
  <2>1. CASE UNCHANGED vars
    BY <2>1
  <2>2. ASSUME package = "shed", ~UNCHANGED vars PROVE S!ClaimWithinBound
    <3>1. ShedInv /\ ShedInv' /\ [S!Next]_(S!vars)
      BY <1>1, <2>2, StepOfPackage
    <3>. QED
      BY <3>1, ShedClaimWithinBound
  <2>3. ASSUME package = "retry" PROVE A!ClampedIsLast
    BY <1>1, <2>3, StepOfPackage, RetryClampedIsLast
  <2>. QED
    BY <2>1, <2>2, <2>3
<1>. QED
  BY <1>1, ShedInvariant, RetryInvariant, PTL DEF Spec, StepsWithinBounds

\* How many are in a set that one element may have joined or left.
LEMMA OneMoves ==
  ASSUME NEW I, IsFiniteSet(I), NEW Z \in SUBSET I, NEW J \in SUBSET I, NEW c \in I,
         \A d \in I \ {c} : d \in Z <=> d \in J
  PROVE  /\ Cardinality(Z) \in Nat /\ Cardinality(J) \in Nat
         /\ (c \in Z <=> c \in J) => Cardinality(J) = Cardinality(Z)
         /\ c \in J /\ c \notin Z => Cardinality(J) = Cardinality(Z) + 1
         /\ c \in Z /\ c \notin J => Cardinality(J) = Cardinality(Z) - 1
<1>1. IsFiniteSet(Z) /\ IsFiniteSet(J)
  BY FS_Subset
<1>2. Cardinality(Z) \in Nat /\ Cardinality(J) \in Nat
  BY <1>1, FS_CardinalityType
<1>3. ASSUME c \in Z <=> c \in J PROVE Cardinality(J) = Cardinality(Z)
  <2>1. J = Z
    BY <1>3
  <2>. QED
    BY <2>1
<1>4. ASSUME c \in J, c \notin Z PROVE Cardinality(J) = Cardinality(Z) + 1
  <2>1. J = Z \cup {c}
    BY <1>4
  <2>. QED
    BY <1>1, <1>4, <2>1, FS_AddElement
<1>5. ASSUME c \in Z, c \notin J PROVE Cardinality(J) = Cardinality(Z) - 1
  <2>1. J = Z \ {c}
    BY <1>5
  <2>. QED
    BY <1>1, <1>5, <2>1, FS_RemoveElement
<1>. QED
  BY <1>2, <1>3, <1>4, <1>5

-----------------------------------------------------------------------------
(* fallx.Fallback: every call is in one of the counters, and a value is    *)
(* replayed only to calls with its key.                                    *)

fbStrategy == x1
fbExcuses  == x2
fbHasFunc  == x3
fbCache    == x4
fbClosed   == x5
fbKey      == x6
fbPc       == x7
fbAnswer   == x8
fbCalls    == x9
fbPrimary  == x10
fbUsed     == x11
fbSuccess  == x12
fbFailed   == x13
fbHits     == x14
fbMisses   == x15
fbStored   == x16
USE DEF fbStrategy, fbExcuses, fbHasFunc, fbCache, fbClosed, fbKey, fbPc, fbAnswer, fbCalls,
        fbPrimary, fbUsed, fbSuccess, fbFailed, fbHits, fbMisses, fbStored

FbSaid == {"closed", "primaryError", "static", "noFunction", "func", "fallbackFailed",
           "notCached"}

\* What a call answers with is told from the values of the primaries.
FbConfigured ==
  /\ IsFiniteSet(Others)
  /\ (Others \cup {Ticker, Nothing}) \cap FbSaid = {}

FbFirst   == {c \in Others : fbPc[c] \in {"primary", "filter", "fallback"}}
FbSecond  == {c \in Others : fbPc[c] \in {"dispatch", "func", "hit", "replayed", "miss", "missed"}}
FbHit     == {c \in Others : fbPc[c] \in {"replayed"}}
FbMiss    == {c \in Others : fbPc[c] \in {"missed"}}
FbExcused == {c \in Others : fbPc[c] = "done" /\ fbAnswer[c] \in {"primaryError"}}

FbTypes ==
  /\ E!TypeOK
  /\ fbStrategy \in {"static", "func", "cached"}
  /\ fbAnswer \in [Others -> Others \cup {Ticker, Nothing} \cup FbSaid]
FbNumbers ==
  /\ fbCalls \in Nat /\ fbPrimary \in Nat /\ fbUsed \in Nat /\ fbSuccess \in Nat
  /\ fbFailed \in Nat /\ fbHits \in Nat /\ fbMisses \in Nat
FbSums ==
  /\ fbCalls = fbPrimary + fbUsed + Cardinality(FbFirst) + Cardinality(FbExcused)
  /\ fbUsed = fbSuccess + fbFailed + Cardinality(FbSecond)
  /\ fbStrategy = "cached" => /\ fbHits = fbSuccess + Cardinality(FbHit)
                              /\ fbMisses = fbFailed + Cardinality(FbMiss)
FbUnderWay ==
  \A c \in Others : /\ fbPc[c] = "cache" => fbAnswer[c] = c
                    /\ fbPc[c] = "func" => fbStrategy = "func"
                    /\ fbPc[c] \in {"hit", "replayed", "miss", "missed"} => fbStrategy = "cached"
                    /\ fbPc[c] \in {"hit", "replayed"} => fbAnswer[c] \in fbStored[fbKey[c]]
FbInv == FbTypes /\ FbNumbers /\ FbSums /\ FbUnderWay /\ E!ReplaysItsKey

LEMMA FbCounts == \A Z : E!Cardinality(Z) = Cardinality(Z)
  BY DEF E!Cardinality, Cardinality

LEMMA FbSumsSame == FbSums <=> E!CallsAddUp
<1>1. E!In({"primary", "filter", "fallback"}) = Cardinality(FbFirst)
  BY FbCounts DEF E!In, FbFirst
<1>2. E!In({"dispatch", "func", "hit", "replayed", "miss", "missed"}) = Cardinality(FbSecond)
  BY FbCounts DEF E!In, FbSecond
<1>3. E!With({"primaryError"}) = Cardinality(FbExcused)
  BY FbCounts DEF E!With, FbExcused
<1>4. E!In({"replayed"}) = Cardinality(FbHit) /\ E!In({"missed"}) = Cardinality(FbMiss)
  BY FbCounts DEF E!In, FbHit, FbMiss
<1>. QED
  BY <1>1, <1>2, <1>3, <1>4 DEF FbSums, E!CallsAddUp

\* What a call at a label adds to the sums.
FbFirstOf(to)  == IF to \in {"primary", "filter", "fallback"} THEN 1 ELSE 0
FbSecondOf(to) == IF to \in {"dispatch", "func", "hit", "replayed", "miss", "missed"} THEN 1 ELSE 0
FbExcusedOf(a) == IF a = "primaryError" THEN 1 ELSE 0
FbHitOf(to)    == IF to = "replayed" THEN 1 ELSE 0
FbMissOf(to)   == IF to = "missed" THEN 1 ELSE 0

\* A call moves, and may get its answer.
LEMMA FbMove ==
  ASSUME FbConfigured, FbTypes, NEW c \in Others, NEW from, NEW to, E!Goto(c, from, to),
         \A d \in Others \ {c} : fbAnswer'[d] = fbAnswer[d], from # "done"
  PROVE  /\ \A d \in Others : fbPc'[d] = IF d = c THEN to ELSE fbPc[d]
         /\ Cardinality(FbFirst) \in Nat /\ Cardinality(FbSecond) \in Nat
         /\ Cardinality(FbExcused) \in Nat
         /\ Cardinality(FbHit) \in Nat /\ Cardinality(FbMiss) \in Nat
         /\ Cardinality(FbFirst') = Cardinality(FbFirst) + FbFirstOf(to) - FbFirstOf(from)
         /\ Cardinality(FbSecond') = Cardinality(FbSecond) + FbSecondOf(to) - FbSecondOf(from)
         /\ Cardinality(FbExcused') = Cardinality(FbExcused)
                                        + IF to = "done" THEN FbExcusedOf(fbAnswer'[c]) ELSE 0
         /\ Cardinality(FbHit') = Cardinality(FbHit) + FbHitOf(to) - FbHitOf(from)
         /\ Cardinality(FbMiss') = Cardinality(FbMiss) + FbMissOf(to) - FbMissOf(from)
<1>1. \A d \in Others : fbPc'[d] = IF d = c THEN to ELSE fbPc[d]
  BY DEF FbTypes, E!TypeOK, E!Goto
<1>2. \A d \in Others \ {c} : fbAnswer'[d] = fbAnswer[d]
  OBVIOUS
<1>3. fbPc[c] = from
  BY DEF E!Goto
<1>4. IsFiniteSet(Others)
  BY DEF FbConfigured
<1>5. /\ Cardinality(FbFirst) \in Nat
      /\ Cardinality(FbFirst') = Cardinality(FbFirst) + FbFirstOf(to) - FbFirstOf(from)
  <2>1. /\ FbFirst \in SUBSET Others /\ FbFirst' \in SUBSET Others
        /\ \A d \in Others \ {c} : d \in FbFirst <=> d \in FbFirst'
        /\ c \in FbFirst => FbFirstOf(from) = 1
        /\ c \notin FbFirst => FbFirstOf(from) = 0
        /\ c \in FbFirst' => FbFirstOf(to) = 1
        /\ c \notin FbFirst' => FbFirstOf(to) = 0
    BY <1>1, <1>3 DEF FbFirst, FbFirstOf
  <2>2. /\ Cardinality(FbFirst) \in Nat /\ Cardinality(FbFirst') \in Nat
        /\ (c \in FbFirst <=> c \in FbFirst') => Cardinality(FbFirst') = Cardinality(FbFirst)
        /\ c \in FbFirst' /\ c \notin FbFirst
             => Cardinality(FbFirst') = Cardinality(FbFirst) + 1
        /\ c \in FbFirst /\ c \notin FbFirst'
             => Cardinality(FbFirst') = Cardinality(FbFirst) - 1
    BY <2>1, <1>4, OneMoves
  <2>. QED
    BY <2>1, <2>2
<1>6. /\ Cardinality(FbSecond) \in Nat
      /\ Cardinality(FbSecond') = Cardinality(FbSecond) + FbSecondOf(to) - FbSecondOf(from)
  <2>1. /\ FbSecond \in SUBSET Others /\ FbSecond' \in SUBSET Others
        /\ \A d \in Others \ {c} : d \in FbSecond <=> d \in FbSecond'
        /\ c \in FbSecond => FbSecondOf(from) = 1
        /\ c \notin FbSecond => FbSecondOf(from) = 0
        /\ c \in FbSecond' => FbSecondOf(to) = 1
        /\ c \notin FbSecond' => FbSecondOf(to) = 0
    BY <1>1, <1>3 DEF FbSecond, FbSecondOf
  <2>2. /\ Cardinality(FbSecond) \in Nat /\ Cardinality(FbSecond') \in Nat
        /\ (c \in FbSecond <=> c \in FbSecond') => Cardinality(FbSecond') = Cardinality(FbSecond)
        /\ c \in FbSecond' /\ c \notin FbSecond
             => Cardinality(FbSecond') = Cardinality(FbSecond) + 1
        /\ c \in FbSecond /\ c \notin FbSecond'
             => Cardinality(FbSecond') = Cardinality(FbSecond) - 1
    BY <2>1, <1>4, OneMoves
  <2>. QED
    BY <2>1, <2>2
<1>7. /\ Cardinality(FbHit) \in Nat
      /\ Cardinality(FbHit') = Cardinality(FbHit) + FbHitOf(to) - FbHitOf(from)
  <2>1. /\ FbHit \in SUBSET Others /\ FbHit' \in SUBSET Others
        /\ \A d \in Others \ {c} : d \in FbHit <=> d \in FbHit'
        /\ c \in FbHit => FbHitOf(from) = 1
        /\ c \notin FbHit => FbHitOf(from) = 0
        /\ c \in FbHit' => FbHitOf(to) = 1
        /\ c \notin FbHit' => FbHitOf(to) = 0
    BY <1>1, <1>3 DEF FbHit, FbHitOf
  <2>2. /\ Cardinality(FbHit) \in Nat /\ Cardinality(FbHit') \in Nat
        /\ (c \in FbHit <=> c \in FbHit') => Cardinality(FbHit') = Cardinality(FbHit)
        /\ c \in FbHit' /\ c \notin FbHit
             => Cardinality(FbHit') = Cardinality(FbHit) + 1
        /\ c \in FbHit /\ c \notin FbHit'
             => Cardinality(FbHit') = Cardinality(FbHit) - 1
    BY <2>1, <1>4, OneMoves
  <2>. QED
    BY <2>1, <2>2
<1>8. /\ Cardinality(FbMiss) \in Nat
      /\ Cardinality(FbMiss') = Cardinality(FbMiss) + FbMissOf(to) - FbMissOf(from)
  <2>1. /\ FbMiss \in SUBSET Others /\ FbMiss' \in SUBSET Others
        /\ \A d \in Others \ {c} : d \in FbMiss <=> d \in FbMiss'
        /\ c \in FbMiss => FbMissOf(from) = 1
        /\ c \notin FbMiss => FbMissOf(from) = 0
        /\ c \in FbMiss' => FbMissOf(to) = 1
        /\ c \notin FbMiss' => FbMissOf(to) = 0
    BY <1>1, <1>3 DEF FbMiss, FbMissOf
  <2>2. /\ Cardinality(FbMiss) \in Nat /\ Cardinality(FbMiss') \in Nat
        /\ (c \in FbMiss <=> c \in FbMiss') => Cardinality(FbMiss') = Cardinality(FbMiss)
        /\ c \in FbMiss' /\ c \notin FbMiss
             => Cardinality(FbMiss') = Cardinality(FbMiss) + 1
        /\ c \in FbMiss /\ c \notin FbMiss'
             => Cardinality(FbMiss') = Cardinality(FbMiss) - 1
    BY <2>1, <1>4, OneMoves
  <2>. QED
    BY <2>1, <2>2
<1>9. /\ Cardinality(FbExcused) \in Nat
      /\ Cardinality(FbExcused') = Cardinality(FbExcused)
                                     + IF to = "done" THEN FbExcusedOf(fbAnswer'[c]) ELSE 0
  <2>1. /\ FbExcused \in SUBSET Others /\ FbExcused' \in SUBSET Others
        /\ \A d \in Others \ {c} : d \in FbExcused <=> d \in FbExcused'
        /\ c \notin FbExcused
        /\ c \in FbExcused' <=> to = "done" /\ fbAnswer'[c] = "primaryError"
    BY <1>1, <1>2, <1>3 DEF FbExcused
  <2>2. /\ Cardinality(FbExcused) \in Nat
        /\ (c \in FbExcused <=> c \in FbExcused')
             => Cardinality(FbExcused') = Cardinality(FbExcused)
        /\ c \in FbExcused' /\ c \notin FbExcused
             => Cardinality(FbExcused') = Cardinality(FbExcused) + 1
    BY <2>1, <1>4, OneMoves
  <2>. QED
    BY <2>1, <2>2 DEF FbExcusedOf
<1>. QED
  BY <1>1, <1>5, <1>6, <1>7, <1>8, <1>9

LEMMA FbInit == FbConfigured /\ E!Init => FbInv
<1>. SUFFICES ASSUME FbConfigured, E!Init PROVE FbInv
  OBVIOUS
<1>1. FbFirst = {} /\ FbSecond = {} /\ FbExcused = {} /\ FbHit = {} /\ FbMiss = {}
  BY DEF E!Init, FbFirst, FbSecond, FbExcused, FbHit, FbMiss
<1>2. /\ Cardinality(FbFirst) = 0 /\ Cardinality(FbSecond) = 0 /\ Cardinality(FbExcused) = 0
      /\ Cardinality(FbHit) = 0 /\ Cardinality(FbMiss) = 0
  BY <1>1, FS_EmptySet
<1>3. FbTypes
  BY DEF E!Init, E!TypeOK, E!Values, FbTypes
<1>4. FbNumbers /\ FbSums
  BY <1>2 DEF E!Init, FbNumbers, FbSums
<1>5. FbUnderWay /\ E!ReplaysItsKey
  BY DEF E!Init, FbUnderWay, E!ReplaysItsKey
<1>. QED
  BY <1>3, <1>4, <1>5 DEF FbInv

\* A call moves, and the counters move with it.
LEMMA FbSumsMove ==
  ASSUME FbConfigured, FbTypes, FbNumbers, FbSums, FbNumbers', fbStrategy' = fbStrategy,
         NEW c \in Others, NEW from, NEW to, E!Goto(c, from, to), from # "done",
         \A d \in Others \ {c} : fbAnswer'[d] = fbAnswer[d],
         fbCalls' - fbCalls = (fbPrimary' - fbPrimary) + (fbUsed' - fbUsed)
                                  + FbFirstOf(to) - FbFirstOf(from)
                              + IF to = "done" THEN FbExcusedOf(fbAnswer'[c]) ELSE 0,
         fbUsed' - fbUsed = (fbSuccess' - fbSuccess) + (fbFailed' - fbFailed)
                                + FbSecondOf(to) - FbSecondOf(from),
         fbStrategy = "cached"
           => /\ fbHits' - fbHits = (fbSuccess' - fbSuccess) + FbHitOf(to) - FbHitOf(from)
              /\ fbMisses' - fbMisses = (fbFailed' - fbFailed) + FbMissOf(to) - FbMissOf(from)
  PROVE  FbSums'
<1>. DEFINE I  == Cardinality(FbFirst)
            II == Cardinality(FbFirst')
            J  == Cardinality(FbSecond)
            JJ == Cardinality(FbSecond')
            Z  == Cardinality(FbExcused)
            ZZ == Cardinality(FbExcused')
            K  == Cardinality(FbHit)
            KK == Cardinality(FbHit')
            M  == Cardinality(FbMiss)
            MM == Cardinality(FbMiss')
<1>1. /\ I \in Nat /\ J \in Nat /\ Z \in Nat /\ K \in Nat /\ M \in Nat
      /\ II = I + FbFirstOf(to) - FbFirstOf(from)
      /\ JJ = J + FbSecondOf(to) - FbSecondOf(from)
      /\ ZZ = Z + IF to = "done" THEN FbExcusedOf(fbAnswer'[c]) ELSE 0
      /\ KK = K + FbHitOf(to) - FbHitOf(from)
      /\ MM = M + FbMissOf(to) - FbMissOf(from)
  BY FbMove
<1>2. /\ fbCalls = fbPrimary + fbUsed + I + Z /\ fbUsed = fbSuccess + fbFailed + J
      /\ fbStrategy = "cached" => fbHits = fbSuccess + K /\ fbMisses = fbFailed + M
  BY DEF FbSums
<1>3. /\ FbFirstOf(to) \in Int /\ FbFirstOf(from) \in Int /\ FbSecondOf(to) \in Int
      /\ FbSecondOf(from) \in Int /\ (IF to = "done" THEN FbExcusedOf(fbAnswer'[c]) ELSE 0) \in Int
      /\ FbHitOf(to) \in Int /\ FbHitOf(from) \in Int
      /\ FbMissOf(to) \in Int /\ FbMissOf(from) \in Int
  BY DEF FbFirstOf, FbSecondOf, FbExcusedOf, FbHitOf, FbMissOf
<1>. HIDE DEF I, II, J, JJ, Z, ZZ, K, KK, M, MM
<1>4. fbCalls' = fbPrimary' + fbUsed' + II + ZZ
  BY <1>1, <1>2, <1>3 DEF FbNumbers
<1>5. fbUsed' = fbSuccess' + fbFailed' + JJ
  BY <1>1, <1>2, <1>3 DEF FbNumbers
<1>6. fbStrategy' = "cached" => fbHits' = fbSuccess' + KK /\ fbMisses' = fbFailed' + MM
  BY <1>1, <1>2, <1>3 DEF FbNumbers
<1>. QED
  BY <1>4, <1>5, <1>6 DEF FbSums, II, JJ, ZZ, KK, MM

LEMMA FbAnswers ==
  ASSUME FbConfigured, FbTypes, FbUnderWay, E!ReplaysItsKey,
         NEW c \in Others, NEW from,
         NEW to \in {"idle", "primary", "cache", "filter", "fallback", "dispatch", "func", "hit",
                     "replayed", "miss", "missed", "done"},
         E!Goto(c, from, to),
         \/ fbAnswer' = fbAnswer
         \/ \E a \in Others \cup {Ticker,
            Nothing} \cup FbSaid : fbAnswer' = [fbAnswer EXCEPT ![c] = a],
         fbStrategy' = fbStrategy, fbKey' = fbKey, fbClosed' = fbClosed,
         fbCache' \in [FallbackKeys -> Others \cup {Ticker, Nothing}],
         fbStored' \in [FallbackKeys -> SUBSET (Others \cup {Ticker})],
         \A k \in FallbackKeys : fbStored[k] \subseteq fbStored'[k]
                                 /\ (fbCache'[k] # Nothing => fbCache'[k] \in fbStored'[k]),
         to = "cache" => fbAnswer'[c] = c,
         to = "func" => fbStrategy = "func",
         to \in {"hit", "replayed"} => fbAnswer'[c] \in fbStored'[fbKey[c]],
         to \in {"hit", "replayed", "miss", "missed"} => fbStrategy = "cached",
         to = "done" /\ fbAnswer'[c] \in E!Values
           => \/ fbAnswer'[c] = c
              \/ fbStrategy = "cached" /\ fbAnswer'[c] \in fbStored'[fbKey[c]]
  PROVE  FbTypes' /\ FbUnderWay' /\ E!ReplaysItsKey'
<1>1. /\ \A d \in Others : fbPc'[d] = IF d = c THEN to ELSE fbPc[d]
      /\ \A d \in Others \ {c} : fbAnswer'[d] = fbAnswer[d]
  BY DEF FbTypes, E!TypeOK, E!Goto
<1>2. fbPc' \in [Others -> {"idle", "primary", "cache", "filter", "fallback", "dispatch", "func",
      "hit", "replayed", "miss", "missed", "done"}]
  BY DEF FbTypes, E!TypeOK, E!Goto
<1>3. fbAnswer' \in [Others -> Others \cup {Ticker, Nothing} \cup FbSaid]
  BY DEF FbTypes
<1>4. FbTypes'
  BY <1>2, <1>3 DEF FbTypes, E!TypeOK, E!Values
<1>5. FbUnderWay'
  <2>1. ASSUME NEW d \in Others
        PROVE  /\ fbPc'[d] = "cache" => fbAnswer'[d] = d
               /\ fbPc'[d] = "func" => fbStrategy' = "func"
               /\ fbPc'[d] \in {"hit", "replayed", "miss", "missed"} => fbStrategy' = "cached"
    BY <1>1 DEF FbUnderWay
  <2>2. ASSUME NEW d \in Others, fbPc'[d] \in {"hit", "replayed"}
        PROVE  fbAnswer'[d] \in fbStored'[fbKey'[d]]
    <3>1. CASE d = c
      BY <1>1, <2>2, <3>1
    <3>2. CASE d # c
      <4>1. fbPc[d] \in {"hit", "replayed"} /\ fbAnswer'[d] = fbAnswer[d]
        BY <1>1, <2>2, <3>2
      <4>2. fbAnswer[d] \in fbStored[fbKey[d]] /\ fbKey[d] \in FallbackKeys
        BY <4>1 DEF FbUnderWay, FbTypes, E!TypeOK
      <4>. QED
        BY <4>1, <4>2
    <3>. QED
      BY <3>1, <3>2
  <2>. QED
    BY <2>1, <2>2 DEF FbUnderWay
<1>6. ASSUME NEW d \in Others, fbPc'[d] = "done", fbAnswer'[d] \in E!Values
      PROVE  fbAnswer'[d] = d \/ (fbStrategy' = "cached" /\ fbAnswer'[d] \in fbStored'[fbKey'[d]])
  <2>1. fbKey[d] \in FallbackKeys
    BY DEF FbTypes, E!TypeOK
  <2>2. CASE d = c
    BY <1>1, <1>6, <2>2
  <2>3. CASE d # c
    <3>1. fbPc[d] = "done" /\ fbAnswer[d] \in E!Values /\ fbAnswer'[d] = fbAnswer[d]
      BY <1>1, <1>6, <2>3
    <3>2. fbAnswer[d] = d \/ (fbStrategy = "cached" /\ fbAnswer[d] \in fbStored[fbKey[d]])
      BY <3>1 DEF E!ReplaysItsKey
    <3>. QED
      BY <2>1, <3>1, <3>2
  <2>. QED
    BY <2>2, <2>3
<1>. QED
  BY <1>4, <1>5, <1>6 DEF E!ReplaysItsKey, E!Values

LEMMA FbStep ==
  ASSUME FbConfigured, FbInv, [E!Next]_(E!vars) PROVE FbInv'
<1>1. FbTypes /\ FbNumbers /\ FbSums /\ FbUnderWay /\ E!ReplaysItsKey
  BY DEF FbInv
<1>2. /\ fbCache \in [FallbackKeys -> Others \cup {Ticker, Nothing}]
      /\ fbStored \in [FallbackKeys -> SUBSET (Others \cup {Ticker})]
      /\ \A k \in FallbackKeys : fbCache[k] # Nothing => fbCache[k] \in fbStored[k]
      /\ \A c \in Others : fbKey[c] \in FallbackKeys
  BY <1>1 DEF FbTypes, E!TypeOK, E!Values, E!ReplaysItsKey
<1>3. ASSUME NEW c \in Others, E!Enter(c) PROVE FbInv'
  <2>1. /\ UNCHANGED <<fbStrategy, fbKey, fbClosed>>
        /\ fbCache' \in [FallbackKeys -> Others \cup {Ticker, Nothing}]
        /\ fbStored' \in [FallbackKeys -> SUBSET (Others \cup {Ticker})]
        /\ \A k \in FallbackKeys : fbStored[k] \subseteq fbStored'[k]
                                   /\ (fbCache'[k] # Nothing => fbCache'[k] \in fbStored'[k])
    BY <1>1, <1>2, <1>3 DEF E!Enter, E!config, E!Stores, E!KeyOf
  <2>2. ASSUME fbClosed,
               E!Goto(c, "idle", "done"),
               fbAnswer' = [fbAnswer EXCEPT ![c] = "closed"],
               UNCHANGED <<fbCalls, fbPrimary, fbUsed, fbSuccess, fbFailed, fbHits, fbMisses>>
        PROVE  FbInv'
    <3>1. /\ "done" = "done" /\ fbAnswer'[c] \in E!Values
               => \/ fbAnswer'[c] = c
                  \/ fbStrategy = "cached" /\ fbAnswer'[c] \in fbStored'[fbKey[c]]
          /\ "done" = "cache" => fbAnswer'[c] = c
          /\ "done" = "func" => fbStrategy = "func"
          /\ "done" \in {"hit", "replayed"} => fbAnswer'[c] \in fbStored'[fbKey[c]]
          /\ "done" \in {"hit", "replayed", "miss", "missed"} => fbStrategy = "cached"
          /\ \/ fbAnswer' = fbAnswer
             \/ \E a \in Others \cup {Ticker,
                Nothing} \cup FbSaid : fbAnswer' = [fbAnswer EXCEPT ![c] = a]
          /\ \A d \in Others \ {c} : fbAnswer'[d] = fbAnswer[d]
      BY <1>1, <1>2, <2>1, <2>2 DEF FbTypes, FbSaid, FbConfigured, E!Values, FbUnderWay, E!Goto
    <3>2. FbTypes' /\ FbUnderWay' /\ E!ReplaysItsKey'
      BY <1>1, <2>1, <2>2, <3>1, FbAnswers
    <3>3. FbExcusedOf(fbAnswer'[c]) = 0
      BY <1>1, <1>2, <2>2 DEF FbTypes, FbSaid, FbConfigured, FbUnderWay, FbExcusedOf, E!Goto
    <3>4. FbNumbers'
      BY <1>1, <2>2 DEF FbNumbers
    <3>5. FbSums'
      BY <1>1, <2>1, <2>2, <3>1, <3>3, <3>4, FbSumsMove
         DEF FbNumbers, FbFirstOf, FbSecondOf, FbHitOf, FbMissOf
    <3>. QED
      BY <3>2, <3>4, <3>5 DEF FbInv
  <2>3. ASSUME ~fbClosed,
               E!Goto(c, "idle", "primary"),
               fbAnswer' = fbAnswer,
               fbCalls' = fbCalls + 1,
               UNCHANGED <<fbPrimary, fbUsed, fbSuccess, fbFailed, fbHits, fbMisses>>
        PROVE  FbInv'
    <3>1. /\ "primary" = "done" /\ fbAnswer'[c] \in E!Values
               => \/ fbAnswer'[c] = c
                  \/ fbStrategy = "cached" /\ fbAnswer'[c] \in fbStored'[fbKey[c]]
          /\ "primary" = "cache" => fbAnswer'[c] = c
          /\ "primary" = "func" => fbStrategy = "func"
          /\ "primary" \in {"hit", "replayed"} => fbAnswer'[c] \in fbStored'[fbKey[c]]
          /\ "primary" \in {"hit", "replayed", "miss", "missed"} => fbStrategy = "cached"
          /\ \/ fbAnswer' = fbAnswer
             \/ \E a \in Others \cup {Ticker,
                Nothing} \cup FbSaid : fbAnswer' = [fbAnswer EXCEPT ![c] = a]
          /\ \A d \in Others \ {c} : fbAnswer'[d] = fbAnswer[d]
      BY <1>1, <1>2, <2>1, <2>3 DEF FbTypes, FbSaid, FbConfigured, E!Values, FbUnderWay, E!Goto
    <3>2. FbTypes' /\ FbUnderWay' /\ E!ReplaysItsKey'
      BY <1>1, <2>1, <2>3, <3>1, FbAnswers
    <3>4. FbNumbers'
      BY <1>1, <2>3 DEF FbNumbers
    <3>5. FbSums'
      BY <1>1, <2>1, <2>3, <3>1, <3>4, FbSumsMove
         DEF FbNumbers, FbFirstOf, FbSecondOf, FbHitOf, FbMissOf
    <3>. QED
      BY <3>2, <3>4, <3>5 DEF FbInv
  <2>. QED
    BY <1>1, <1>3, <2>2, <2>3
       DEF E!Enter, E!Answers, E!Succeeds, E!Fails, E!counters, E!Goto, FbUnderWay
<1>4. ASSUME NEW c \in Others, E!Primary(c) PROVE FbInv'
  <2>1. /\ UNCHANGED <<fbStrategy, fbKey, fbClosed>>
        /\ fbCache' \in [FallbackKeys -> Others \cup {Ticker, Nothing}]
        /\ fbStored' \in [FallbackKeys -> SUBSET (Others \cup {Ticker})]
        /\ \A k \in FallbackKeys : fbStored[k] \subseteq fbStored'[k]
                                   /\ (fbCache'[k] # Nothing => fbCache'[k] \in fbStored'[k])
    BY <1>1, <1>2, <1>4 DEF E!Primary, E!config, E!Stores, E!KeyOf
  <2>2. ASSUME fbStrategy = "cached",
               E!Goto(c, "primary", "cache"),
               fbAnswer' = [fbAnswer EXCEPT ![c] = c],
               fbPrimary' = fbPrimary + 1,
               UNCHANGED <<fbCalls, fbUsed, fbSuccess, fbFailed, fbHits, fbMisses>>
        PROVE  FbInv'
    <3>1. /\ "cache" = "done" /\ fbAnswer'[c] \in E!Values
               => \/ fbAnswer'[c] = c
                  \/ fbStrategy = "cached" /\ fbAnswer'[c] \in fbStored'[fbKey[c]]
          /\ "cache" = "cache" => fbAnswer'[c] = c
          /\ "cache" = "func" => fbStrategy = "func"
          /\ "cache" \in {"hit", "replayed"} => fbAnswer'[c] \in fbStored'[fbKey[c]]
          /\ "cache" \in {"hit", "replayed", "miss", "missed"} => fbStrategy = "cached"
          /\ \/ fbAnswer' = fbAnswer
             \/ \E a \in Others \cup {Ticker,
                Nothing} \cup FbSaid : fbAnswer' = [fbAnswer EXCEPT ![c] = a]
          /\ \A d \in Others \ {c} : fbAnswer'[d] = fbAnswer[d]
      BY <1>1, <1>2, <2>1, <2>2 DEF FbTypes, FbSaid, FbConfigured, E!Values, FbUnderWay, E!Goto
    <3>2. FbTypes' /\ FbUnderWay' /\ E!ReplaysItsKey'
      BY <1>1, <2>1, <2>2, <3>1, FbAnswers
    <3>4. FbNumbers'
      BY <1>1, <2>2 DEF FbNumbers
    <3>5. FbSums'
      BY <1>1, <2>1, <2>2, <3>1, <3>4, FbSumsMove
         DEF FbNumbers, FbFirstOf, FbSecondOf, FbHitOf, FbMissOf
    <3>. QED
      BY <3>2, <3>4, <3>5 DEF FbInv
  <2>3. ASSUME fbStrategy # "cached",
               E!Goto(c, "primary", "done"),
               fbAnswer' = [fbAnswer EXCEPT ![c] = c],
               fbPrimary' = fbPrimary + 1,
               UNCHANGED <<fbCalls, fbUsed, fbSuccess, fbFailed, fbHits, fbMisses>>
        PROVE  FbInv'
    <3>1. /\ "done" = "done" /\ fbAnswer'[c] \in E!Values
               => \/ fbAnswer'[c] = c
                  \/ fbStrategy = "cached" /\ fbAnswer'[c] \in fbStored'[fbKey[c]]
          /\ "done" = "cache" => fbAnswer'[c] = c
          /\ "done" = "func" => fbStrategy = "func"
          /\ "done" \in {"hit", "replayed"} => fbAnswer'[c] \in fbStored'[fbKey[c]]
          /\ "done" \in {"hit", "replayed", "miss", "missed"} => fbStrategy = "cached"
          /\ \/ fbAnswer' = fbAnswer
             \/ \E a \in Others \cup {Ticker,
                Nothing} \cup FbSaid : fbAnswer' = [fbAnswer EXCEPT ![c] = a]
          /\ \A d \in Others \ {c} : fbAnswer'[d] = fbAnswer[d]
      BY <1>1, <1>2, <2>1, <2>3 DEF FbTypes, FbSaid, FbConfigured, E!Values, FbUnderWay, E!Goto
    <3>2. FbTypes' /\ FbUnderWay' /\ E!ReplaysItsKey'
      BY <1>1, <2>1, <2>3, <3>1, FbAnswers
    <3>3. FbExcusedOf(fbAnswer'[c]) = 0
      BY <1>1, <1>2, <2>3 DEF FbTypes, FbSaid, FbConfigured, FbUnderWay, FbExcusedOf, E!Goto
    <3>4. FbNumbers'
      BY <1>1, <2>3 DEF FbNumbers
    <3>5. FbSums'
      BY <1>1, <2>1, <2>3, <3>1, <3>3, <3>4, FbSumsMove
         DEF FbNumbers, FbFirstOf, FbSecondOf, FbHitOf, FbMissOf
    <3>. QED
      BY <3>2, <3>4, <3>5 DEF FbInv
  <2>4. ASSUME E!Goto(c, "primary", "filter"),
               fbAnswer' = fbAnswer,
               UNCHANGED <<fbCalls, fbPrimary, fbUsed, fbSuccess, fbFailed, fbHits, fbMisses>>
        PROVE  FbInv'
    <3>1. /\ "filter" = "done" /\ fbAnswer'[c] \in E!Values
               => \/ fbAnswer'[c] = c
                  \/ fbStrategy = "cached" /\ fbAnswer'[c] \in fbStored'[fbKey[c]]
          /\ "filter" = "cache" => fbAnswer'[c] = c
          /\ "filter" = "func" => fbStrategy = "func"
          /\ "filter" \in {"hit", "replayed"} => fbAnswer'[c] \in fbStored'[fbKey[c]]
          /\ "filter" \in {"hit", "replayed", "miss", "missed"} => fbStrategy = "cached"
          /\ \/ fbAnswer' = fbAnswer
             \/ \E a \in Others \cup {Ticker,
                Nothing} \cup FbSaid : fbAnswer' = [fbAnswer EXCEPT ![c] = a]
          /\ \A d \in Others \ {c} : fbAnswer'[d] = fbAnswer[d]
      BY <1>1, <1>2, <2>1, <2>4 DEF FbTypes, FbSaid, FbConfigured, E!Values, FbUnderWay, E!Goto
    <3>2. FbTypes' /\ FbUnderWay' /\ E!ReplaysItsKey'
      BY <1>1, <2>1, <2>4, <3>1, FbAnswers
    <3>4. FbNumbers'
      BY <1>1, <2>4 DEF FbNumbers
    <3>5. FbSums'
      BY <1>1, <2>1, <2>4, <3>1, <3>4, FbSumsMove
         DEF FbNumbers, FbFirstOf, FbSecondOf, FbHitOf, FbMissOf
    <3>. QED
      BY <3>2, <3>4, <3>5 DEF FbInv
  <2>. QED
    BY <1>1, <1>4, <2>2, <2>3, <2>4
       DEF E!Primary, E!Answers, E!Succeeds, E!Fails, E!counters, E!Goto, FbUnderWay
<1>5. ASSUME NEW c \in Others, E!CacheResult(c) PROVE FbInv'
  <2>1. /\ UNCHANGED <<fbStrategy, fbKey, fbClosed>>
        /\ fbCache' \in [FallbackKeys -> Others \cup {Ticker, Nothing}]
        /\ fbStored' \in [FallbackKeys -> SUBSET (Others \cup {Ticker})]
        /\ \A k \in FallbackKeys : fbStored[k] \subseteq fbStored'[k]
                                   /\ (fbCache'[k] # Nothing => fbCache'[k] \in fbStored'[k])
    BY <1>1, <1>2, <1>5 DEF E!CacheResult, E!config, E!Stores, E!KeyOf
  <2>2. ASSUME E!Goto(c, "cache", "done"),
               fbAnswer' = fbAnswer,
               UNCHANGED <<fbCalls, fbPrimary, fbUsed, fbSuccess, fbFailed, fbHits, fbMisses>>
        PROVE  FbInv'
    <3>1. /\ "done" = "done" /\ fbAnswer'[c] \in E!Values
               => \/ fbAnswer'[c] = c
                  \/ fbStrategy = "cached" /\ fbAnswer'[c] \in fbStored'[fbKey[c]]
          /\ "done" = "cache" => fbAnswer'[c] = c
          /\ "done" = "func" => fbStrategy = "func"
          /\ "done" \in {"hit", "replayed"} => fbAnswer'[c] \in fbStored'[fbKey[c]]
          /\ "done" \in {"hit", "replayed", "miss", "missed"} => fbStrategy = "cached"
          /\ \/ fbAnswer' = fbAnswer
             \/ \E a \in Others \cup {Ticker,
                Nothing} \cup FbSaid : fbAnswer' = [fbAnswer EXCEPT ![c] = a]
          /\ \A d \in Others \ {c} : fbAnswer'[d] = fbAnswer[d]
      BY <1>1, <1>2, <2>1, <2>2 DEF FbTypes, FbSaid, FbConfigured, E!Values, FbUnderWay, E!Goto
    <3>2. FbTypes' /\ FbUnderWay' /\ E!ReplaysItsKey'
      BY <1>1, <2>1, <2>2, <3>1, FbAnswers
    <3>3. FbExcusedOf(fbAnswer'[c]) = 0
      BY <1>1, <1>2, <2>2 DEF FbTypes, FbSaid, FbConfigured, FbUnderWay, FbExcusedOf, E!Goto
    <3>4. FbNumbers'
      BY <1>1, <2>2 DEF FbNumbers
    <3>5. FbSums'
      BY <1>1, <2>1, <2>2, <3>1, <3>3, <3>4, FbSumsMove
         DEF FbNumbers, FbFirstOf, FbSecondOf, FbHitOf, FbMissOf
    <3>. QED
      BY <3>2, <3>4, <3>5 DEF FbInv
  <2>. QED
    BY <1>1, <1>5, <2>2
       DEF E!CacheResult, E!Answers, E!Succeeds, E!Fails, E!counters, E!Goto, FbUnderWay
<1>6. ASSUME NEW c \in Others, E!Filter(c) PROVE FbInv'
  <2>1. /\ UNCHANGED <<fbStrategy, fbKey, fbClosed>>
        /\ fbCache' \in [FallbackKeys -> Others \cup {Ticker, Nothing}]
        /\ fbStored' \in [FallbackKeys -> SUBSET (Others \cup {Ticker})]
        /\ \A k \in FallbackKeys : fbStored[k] \subseteq fbStored'[k]
                                   /\ (fbCache'[k] # Nothing => fbCache'[k] \in fbStored'[k])
    BY <1>1, <1>2, <1>6 DEF E!Filter, E!config, E!Stores, E!KeyOf
  <2>2. ASSUME E!Goto(c, "filter", "done"),
               fbAnswer' = [fbAnswer EXCEPT ![c] = "primaryError"],
               UNCHANGED <<fbCalls, fbPrimary, fbUsed, fbSuccess, fbFailed, fbHits, fbMisses>>
        PROVE  FbInv'
    <3>1. /\ "done" = "done" /\ fbAnswer'[c] \in E!Values
               => \/ fbAnswer'[c] = c
                  \/ fbStrategy = "cached" /\ fbAnswer'[c] \in fbStored'[fbKey[c]]
          /\ "done" = "cache" => fbAnswer'[c] = c
          /\ "done" = "func" => fbStrategy = "func"
          /\ "done" \in {"hit", "replayed"} => fbAnswer'[c] \in fbStored'[fbKey[c]]
          /\ "done" \in {"hit", "replayed", "miss", "missed"} => fbStrategy = "cached"
          /\ \/ fbAnswer' = fbAnswer
             \/ \E a \in Others \cup {Ticker,
                Nothing} \cup FbSaid : fbAnswer' = [fbAnswer EXCEPT ![c] = a]
          /\ \A d \in Others \ {c} : fbAnswer'[d] = fbAnswer[d]
      BY <1>1, <1>2, <2>1, <2>2 DEF FbTypes, FbSaid, FbConfigured, E!Values, FbUnderWay, E!Goto
    <3>2. FbTypes' /\ FbUnderWay' /\ E!ReplaysItsKey'
      BY <1>1, <2>1, <2>2, <3>1, FbAnswers
    <3>3. FbExcusedOf(fbAnswer'[c]) = 1
      BY <1>1, <1>2, <2>2 DEF FbTypes, FbSaid, FbConfigured, FbUnderWay, FbExcusedOf, E!Goto
    <3>4. FbNumbers'
      BY <1>1, <2>2 DEF FbNumbers
    <3>5. FbSums'
      BY <1>1, <2>1, <2>2, <3>1, <3>3, <3>4, FbSumsMove
         DEF FbNumbers, FbFirstOf, FbSecondOf, FbHitOf, FbMissOf
    <3>. QED
      BY <3>2, <3>4, <3>5 DEF FbInv
  <2>3. ASSUME E!Goto(c, "filter", "fallback"),
               fbAnswer' = fbAnswer,
               UNCHANGED <<fbCalls, fbPrimary, fbUsed, fbSuccess, fbFailed, fbHits, fbMisses>>
        PROVE  FbInv'
    <3>1. /\ "fallback" = "done" /\ fbAnswer'[c] \in E!Values
               => \/ fbAnswer'[c] = c
                  \/ fbStrategy = "cached" /\ fbAnswer'[c] \in fbStored'[fbKey[c]]
          /\ "fallback" = "cache" => fbAnswer'[c] = c
          /\ "fallback" = "func" => fbStrategy = "func"
          /\ "fallback" \in {"hit", "replayed"} => fbAnswer'[c] \in fbStored'[fbKey[c]]
          /\ "fallback" \in {"hit", "replayed", "miss", "missed"} => fbStrategy = "cached"
          /\ \/ fbAnswer' = fbAnswer
             \/ \E a \in Others \cup {Ticker,
                Nothing} \cup FbSaid : fbAnswer' = [fbAnswer EXCEPT ![c] = a]
          /\ \A d \in Others \ {c} : fbAnswer'[d] = fbAnswer[d]
      BY <1>1, <1>2, <2>1, <2>3 DEF FbTypes, FbSaid, FbConfigured, E!Values, FbUnderWay, E!Goto
    <3>2. FbTypes' /\ FbUnderWay' /\ E!ReplaysItsKey'
      BY <1>1, <2>1, <2>3, <3>1, FbAnswers
    <3>4. FbNumbers'
      BY <1>1, <2>3 DEF FbNumbers
    <3>5. FbSums'
      BY <1>1, <2>1, <2>3, <3>1, <3>4, FbSumsMove
         DEF FbNumbers, FbFirstOf, FbSecondOf, FbHitOf, FbMissOf
    <3>. QED
      BY <3>2, <3>4, <3>5 DEF FbInv
  <2>. QED
    BY <1>1, <1>6, <2>2, <2>3
       DEF E!Filter, E!Answers, E!Succeeds, E!Fails, E!counters, E!Goto, FbUnderWay
<1>7. ASSUME NEW c \in Others, E!BeginFallback(c) PROVE FbInv'
  <2>1. /\ UNCHANGED <<fbStrategy, fbKey, fbClosed>>
        /\ fbCache' \in [FallbackKeys -> Others \cup {Ticker, Nothing}]
        /\ fbStored' \in [FallbackKeys -> SUBSET (Others \cup {Ticker})]
        /\ \A k \in FallbackKeys : fbStored[k] \subseteq fbStored'[k]
                                   /\ (fbCache'[k] # Nothing => fbCache'[k] \in fbStored'[k])
    BY <1>1, <1>2, <1>7 DEF E!BeginFallback, E!config, E!Stores, E!KeyOf
  <2>2. ASSUME E!Goto(c, "fallback", "dispatch"),
               fbAnswer' = fbAnswer,
               fbUsed' = fbUsed + 1,
               UNCHANGED <<fbCalls, fbPrimary, fbSuccess, fbFailed, fbHits, fbMisses>>
        PROVE  FbInv'
    <3>1. /\ "dispatch" = "done" /\ fbAnswer'[c] \in E!Values
               => \/ fbAnswer'[c] = c
                  \/ fbStrategy = "cached" /\ fbAnswer'[c] \in fbStored'[fbKey[c]]
          /\ "dispatch" = "cache" => fbAnswer'[c] = c
          /\ "dispatch" = "func" => fbStrategy = "func"
          /\ "dispatch" \in {"hit", "replayed"} => fbAnswer'[c] \in fbStored'[fbKey[c]]
          /\ "dispatch" \in {"hit", "replayed", "miss", "missed"} => fbStrategy = "cached"
          /\ \/ fbAnswer' = fbAnswer
             \/ \E a \in Others \cup {Ticker,
                Nothing} \cup FbSaid : fbAnswer' = [fbAnswer EXCEPT ![c] = a]
          /\ \A d \in Others \ {c} : fbAnswer'[d] = fbAnswer[d]
      BY <1>1, <1>2, <2>1, <2>2 DEF FbTypes, FbSaid, FbConfigured, E!Values, FbUnderWay, E!Goto
    <3>2. FbTypes' /\ FbUnderWay' /\ E!ReplaysItsKey'
      BY <1>1, <2>1, <2>2, <3>1, FbAnswers
    <3>4. FbNumbers'
      BY <1>1, <2>2 DEF FbNumbers
    <3>5. FbSums'
      BY <1>1, <2>1, <2>2, <3>1, <3>4, FbSumsMove
         DEF FbNumbers, FbFirstOf, FbSecondOf, FbHitOf, FbMissOf
    <3>. QED
      BY <3>2, <3>4, <3>5 DEF FbInv
  <2>. QED
    BY <1>1, <1>7, <2>2
       DEF E!BeginFallback, E!Answers, E!Succeeds, E!Fails, E!counters, E!Goto, FbUnderWay
<1>8. ASSUME NEW c \in Others, E!Dispatch(c) PROVE FbInv'
  <2>1. /\ UNCHANGED <<fbStrategy, fbKey, fbClosed>>
        /\ fbCache' \in [FallbackKeys -> Others \cup {Ticker, Nothing}]
        /\ fbStored' \in [FallbackKeys -> SUBSET (Others \cup {Ticker})]
        /\ \A k \in FallbackKeys : fbStored[k] \subseteq fbStored'[k]
                                   /\ (fbCache'[k] # Nothing => fbCache'[k] \in fbStored'[k])
    BY <1>1, <1>2, <1>8 DEF E!Dispatch, E!config, E!Stores, E!KeyOf
  <2>2. ASSUME fbStrategy = "static",
               E!Goto(c, "dispatch", "done"),
               fbAnswer' = [fbAnswer EXCEPT ![c] = "static"],
               fbSuccess' = fbSuccess + 1,
               UNCHANGED <<fbCalls, fbPrimary, fbUsed, fbFailed, fbHits, fbMisses>>
        PROVE  FbInv'
    <3>1. /\ "done" = "done" /\ fbAnswer'[c] \in E!Values
               => \/ fbAnswer'[c] = c
                  \/ fbStrategy = "cached" /\ fbAnswer'[c] \in fbStored'[fbKey[c]]
          /\ "done" = "cache" => fbAnswer'[c] = c
          /\ "done" = "func" => fbStrategy = "func"
          /\ "done" \in {"hit", "replayed"} => fbAnswer'[c] \in fbStored'[fbKey[c]]
          /\ "done" \in {"hit", "replayed", "miss", "missed"} => fbStrategy = "cached"
          /\ \/ fbAnswer' = fbAnswer
             \/ \E a \in Others \cup {Ticker,
                Nothing} \cup FbSaid : fbAnswer' = [fbAnswer EXCEPT ![c] = a]
          /\ \A d \in Others \ {c} : fbAnswer'[d] = fbAnswer[d]
      BY <1>1, <1>2, <2>1, <2>2 DEF FbTypes, FbSaid, FbConfigured, E!Values, FbUnderWay, E!Goto
    <3>2. FbTypes' /\ FbUnderWay' /\ E!ReplaysItsKey'
      BY <1>1, <2>1, <2>2, <3>1, FbAnswers
    <3>3. FbExcusedOf(fbAnswer'[c]) = 0
      BY <1>1, <1>2, <2>2 DEF FbTypes, FbSaid, FbConfigured, FbUnderWay, FbExcusedOf, E!Goto
    <3>4. FbNumbers'
      BY <1>1, <2>2 DEF FbNumbers
    <3>5. FbSums'
      BY <1>1, <2>1, <2>2, <3>1, <3>3, <3>4, FbSumsMove
         DEF FbNumbers, FbFirstOf, FbSecondOf, FbHitOf, FbMissOf
    <3>. QED
      BY <3>2, <3>4, <3>5 DEF FbInv
  <2>3. ASSUME fbStrategy = "func",
               E!Goto(c, "dispatch", "done"),
               fbAnswer' = [fbAnswer EXCEPT ![c] = "noFunction"],
               fbFailed' = fbFailed + 1,
               UNCHANGED <<fbCalls, fbPrimary, fbUsed, fbSuccess, fbHits, fbMisses>>
        PROVE  FbInv'
    <3>1. /\ "done" = "done" /\ fbAnswer'[c] \in E!Values
               => \/ fbAnswer'[c] = c
                  \/ fbStrategy = "cached" /\ fbAnswer'[c] \in fbStored'[fbKey[c]]
          /\ "done" = "cache" => fbAnswer'[c] = c
          /\ "done" = "func" => fbStrategy = "func"
          /\ "done" \in {"hit", "replayed"} => fbAnswer'[c] \in fbStored'[fbKey[c]]
          /\ "done" \in {"hit", "replayed", "miss", "missed"} => fbStrategy = "cached"
          /\ \/ fbAnswer' = fbAnswer
             \/ \E a \in Others \cup {Ticker,
                Nothing} \cup FbSaid : fbAnswer' = [fbAnswer EXCEPT ![c] = a]
          /\ \A d \in Others \ {c} : fbAnswer'[d] = fbAnswer[d]
      BY <1>1, <1>2, <2>1, <2>3 DEF FbTypes, FbSaid, FbConfigured, E!Values, FbUnderWay, E!Goto
    <3>2. FbTypes' /\ FbUnderWay' /\ E!ReplaysItsKey'
      BY <1>1, <2>1, <2>3, <3>1, FbAnswers
    <3>3. FbExcusedOf(fbAnswer'[c]) = 0
      BY <1>1, <1>2, <2>3 DEF FbTypes, FbSaid, FbConfigured, FbUnderWay, FbExcusedOf, E!Goto
    <3>4. FbNumbers'
      BY <1>1, <2>3 DEF FbNumbers
    <3>5. FbSums'
      BY <1>1, <2>1, <2>3, <3>1, <3>3, <3>4, FbSumsMove
         DEF FbNumbers, FbFirstOf, FbSecondOf, FbHitOf, FbMissOf
    <3>. QED
      BY <3>2, <3>4, <3>5 DEF FbInv
  <2>4. ASSUME fbStrategy = "func",
               E!Goto(c, "dispatch", "func"),
               fbAnswer' = fbAnswer,
               UNCHANGED <<fbCalls, fbPrimary, fbUsed, fbSuccess, fbFailed, fbHits, fbMisses>>
        PROVE  FbInv'
    <3>1. /\ "func" = "done" /\ fbAnswer'[c] \in E!Values
               => \/ fbAnswer'[c] = c
                  \/ fbStrategy = "cached" /\ fbAnswer'[c] \in fbStored'[fbKey[c]]
          /\ "func" = "cache" => fbAnswer'[c] = c
          /\ "func" = "func" => fbStrategy = "func"
          /\ "func" \in {"hit", "replayed"} => fbAnswer'[c] \in fbStored'[fbKey[c]]
          /\ "func" \in {"hit", "replayed", "miss", "missed"} => fbStrategy = "cached"
          /\ \/ fbAnswer' = fbAnswer
             \/ \E a \in Others \cup {Ticker,
                Nothing} \cup FbSaid : fbAnswer' = [fbAnswer EXCEPT ![c] = a]
          /\ \A d \in Others \ {c} : fbAnswer'[d] = fbAnswer[d]
      BY <1>1, <1>2, <2>1, <2>4 DEF FbTypes, FbSaid, FbConfigured, E!Values, FbUnderWay, E!Goto
    <3>2. FbTypes' /\ FbUnderWay' /\ E!ReplaysItsKey'
      BY <1>1, <2>1, <2>4, <3>1, FbAnswers
    <3>4. FbNumbers'
      BY <1>1, <2>4 DEF FbNumbers
    <3>5. FbSums'
      BY <1>1, <2>1, <2>4, <3>1, <3>4, FbSumsMove
         DEF FbNumbers, FbFirstOf, FbSecondOf, FbHitOf, FbMissOf
    <3>. QED
      BY <3>2, <3>4, <3>5 DEF FbInv
  <2>. QED
    BY <1>1, <1>8, <2>2, <2>3, <2>4
       DEF E!Dispatch, E!Answers, E!Succeeds, E!Fails, E!counters, E!Goto, FbUnderWay
<1>9. ASSUME NEW c \in Others, E!RunFunc(c) PROVE FbInv'
  <2>1. /\ UNCHANGED <<fbStrategy, fbKey, fbClosed>>
        /\ fbCache' \in [FallbackKeys -> Others \cup {Ticker, Nothing}]
        /\ fbStored' \in [FallbackKeys -> SUBSET (Others \cup {Ticker})]
        /\ \A k \in FallbackKeys : fbStored[k] \subseteq fbStored'[k]
                                   /\ (fbCache'[k] # Nothing => fbCache'[k] \in fbStored'[k])
    BY <1>1, <1>2, <1>9 DEF E!RunFunc, E!config, E!Stores, E!KeyOf
  <2>2. ASSUME fbStrategy = "func",
               E!Goto(c, "func", "done"),
               fbAnswer' = [fbAnswer EXCEPT ![c] = "func"],
               fbSuccess' = fbSuccess + 1,
               UNCHANGED <<fbCalls, fbPrimary, fbUsed, fbFailed, fbHits, fbMisses>>
        PROVE  FbInv'
    <3>1. /\ "done" = "done" /\ fbAnswer'[c] \in E!Values
               => \/ fbAnswer'[c] = c
                  \/ fbStrategy = "cached" /\ fbAnswer'[c] \in fbStored'[fbKey[c]]
          /\ "done" = "cache" => fbAnswer'[c] = c
          /\ "done" = "func" => fbStrategy = "func"
          /\ "done" \in {"hit", "replayed"} => fbAnswer'[c] \in fbStored'[fbKey[c]]
          /\ "done" \in {"hit", "replayed", "miss", "missed"} => fbStrategy = "cached"
          /\ \/ fbAnswer' = fbAnswer
             \/ \E a \in Others \cup {Ticker,
                Nothing} \cup FbSaid : fbAnswer' = [fbAnswer EXCEPT ![c] = a]
          /\ \A d \in Others \ {c} : fbAnswer'[d] = fbAnswer[d]
      BY <1>1, <1>2, <2>1, <2>2 DEF FbTypes, FbSaid, FbConfigured, E!Values, FbUnderWay, E!Goto
    <3>2. FbTypes' /\ FbUnderWay' /\ E!ReplaysItsKey'
      BY <1>1, <2>1, <2>2, <3>1, FbAnswers
    <3>3. FbExcusedOf(fbAnswer'[c]) = 0
      BY <1>1, <1>2, <2>2 DEF FbTypes, FbSaid, FbConfigured, FbUnderWay, FbExcusedOf, E!Goto
    <3>4. FbNumbers'
      BY <1>1, <2>2 DEF FbNumbers
    <3>5. FbSums'
      BY <1>1, <2>1, <2>2, <3>1, <3>3, <3>4, FbSumsMove
         DEF FbNumbers, FbFirstOf, FbSecondOf, FbHitOf, FbMissOf
    <3>. QED
      BY <3>2, <3>4, <3>5 DEF FbInv
  <2>3. ASSUME fbStrategy = "func",
               E!Goto(c, "func", "done"),
               fbAnswer' = [fbAnswer EXCEPT ![c] = "fallbackFailed"],
               fbFailed' = fbFailed + 1,
               UNCHANGED <<fbCalls, fbPrimary, fbUsed, fbSuccess, fbHits, fbMisses>>
        PROVE  FbInv'
    <3>1. /\ "done" = "done" /\ fbAnswer'[c] \in E!Values
               => \/ fbAnswer'[c] = c
                  \/ fbStrategy = "cached" /\ fbAnswer'[c] \in fbStored'[fbKey[c]]
          /\ "done" = "cache" => fbAnswer'[c] = c
          /\ "done" = "func" => fbStrategy = "func"
          /\ "done" \in {"hit", "replayed"} => fbAnswer'[c] \in fbStored'[fbKey[c]]
          /\ "done" \in {"hit", "replayed", "miss", "missed"} => fbStrategy = "cached"
          /\ \/ fbAnswer' = fbAnswer
             \/ \E a \in Others \cup {Ticker,
                Nothing} \cup FbSaid : fbAnswer' = [fbAnswer EXCEPT ![c] = a]
          /\ \A d \in Others \ {c} : fbAnswer'[d] = fbAnswer[d]
      BY <1>1, <1>2, <2>1, <2>3 DEF FbTypes, FbSaid, FbConfigured, E!Values, FbUnderWay, E!Goto
    <3>2. FbTypes' /\ FbUnderWay' /\ E!ReplaysItsKey'
      BY <1>1, <2>1, <2>3, <3>1, FbAnswers
    <3>3. FbExcusedOf(fbAnswer'[c]) = 0
      BY <1>1, <1>2, <2>3 DEF FbTypes, FbSaid, FbConfigured, FbUnderWay, FbExcusedOf, E!Goto
    <3>4. FbNumbers'
      BY <1>1, <2>3 DEF FbNumbers
    <3>5. FbSums'
      BY <1>1, <2>1, <2>3, <3>1, <3>3, <3>4, FbSumsMove
         DEF FbNumbers, FbFirstOf, FbSecondOf, FbHitOf, FbMissOf
    <3>. QED
      BY <3>2, <3>4, <3>5 DEF FbInv
  <2>. QED
    BY <1>1, <1>9, <2>2, <2>3
       DEF E!RunFunc, E!Answers, E!Succeeds, E!Fails, E!counters, E!Goto, FbUnderWay
<1>10. ASSUME NEW c \in Others, E!LookUp(c) PROVE FbInv'
  <2>1. /\ UNCHANGED <<fbStrategy, fbKey, fbClosed>>
        /\ fbCache' \in [FallbackKeys -> Others \cup {Ticker, Nothing}]
        /\ fbStored' \in [FallbackKeys -> SUBSET (Others \cup {Ticker})]
        /\ \A k \in FallbackKeys : fbStored[k] \subseteq fbStored'[k]
                                   /\ (fbCache'[k] # Nothing => fbCache'[k] \in fbStored'[k])
    BY <1>1, <1>2, <1>10 DEF E!LookUp, E!config, E!Stores, E!KeyOf
  <2>2. ASSUME fbStrategy = "cached",
               E!Goto(c, "dispatch", "hit"),
               fbCache[fbKey[c]] # Nothing,
               fbCache' = fbCache,
               fbStored' = fbStored,
               fbAnswer' = [fbAnswer EXCEPT ![c] = fbCache[fbKey[c]]],
               UNCHANGED <<fbCalls, fbPrimary, fbUsed, fbSuccess, fbFailed, fbHits, fbMisses>>
        PROVE  FbInv'
    <3>1. /\ "hit" = "done" /\ fbAnswer'[c] \in E!Values
               => \/ fbAnswer'[c] = c
                  \/ fbStrategy = "cached" /\ fbAnswer'[c] \in fbStored'[fbKey[c]]
          /\ "hit" = "cache" => fbAnswer'[c] = c
          /\ "hit" = "func" => fbStrategy = "func"
          /\ "hit" \in {"hit", "replayed"} => fbAnswer'[c] \in fbStored'[fbKey[c]]
          /\ "hit" \in {"hit", "replayed", "miss", "missed"} => fbStrategy = "cached"
          /\ \/ fbAnswer' = fbAnswer
             \/ \E a \in Others \cup {Ticker,
                Nothing} \cup FbSaid : fbAnswer' = [fbAnswer EXCEPT ![c] = a]
          /\ \A d \in Others \ {c} : fbAnswer'[d] = fbAnswer[d]
      BY <1>1, <1>2, <2>1, <2>2 DEF FbTypes, FbSaid, FbConfigured, E!Values, FbUnderWay, E!Goto
    <3>2. FbTypes' /\ FbUnderWay' /\ E!ReplaysItsKey'
      BY <1>1, <2>1, <2>2, <3>1, FbAnswers
    <3>4. FbNumbers'
      BY <1>1, <2>2 DEF FbNumbers
    <3>5. FbSums'
      BY <1>1, <2>1, <2>2, <3>1, <3>4, FbSumsMove
         DEF FbNumbers, FbFirstOf, FbSecondOf, FbHitOf, FbMissOf
    <3>. QED
      BY <3>2, <3>4, <3>5 DEF FbInv
  <2>3. ASSUME fbStrategy = "cached",
               E!Goto(c, "dispatch", "miss"),
               fbAnswer' = fbAnswer,
               UNCHANGED <<fbCalls, fbPrimary, fbUsed, fbSuccess, fbFailed, fbHits, fbMisses>>
        PROVE  FbInv'
    <3>1. /\ "miss" = "done" /\ fbAnswer'[c] \in E!Values
               => \/ fbAnswer'[c] = c
                  \/ fbStrategy = "cached" /\ fbAnswer'[c] \in fbStored'[fbKey[c]]
          /\ "miss" = "cache" => fbAnswer'[c] = c
          /\ "miss" = "func" => fbStrategy = "func"
          /\ "miss" \in {"hit", "replayed"} => fbAnswer'[c] \in fbStored'[fbKey[c]]
          /\ "miss" \in {"hit", "replayed", "miss", "missed"} => fbStrategy = "cached"
          /\ \/ fbAnswer' = fbAnswer
             \/ \E a \in Others \cup {Ticker,
                Nothing} \cup FbSaid : fbAnswer' = [fbAnswer EXCEPT ![c] = a]
          /\ \A d \in Others \ {c} : fbAnswer'[d] = fbAnswer[d]
      BY <1>1, <1>2, <2>1, <2>3 DEF FbTypes, FbSaid, FbConfigured, E!Values, FbUnderWay, E!Goto
    <3>2. FbTypes' /\ FbUnderWay' /\ E!ReplaysItsKey'
      BY <1>1, <2>1, <2>3, <3>1, FbAnswers
    <3>4. FbNumbers'
      BY <1>1, <2>3 DEF FbNumbers
    <3>5. FbSums'
      BY <1>1, <2>1, <2>3, <3>1, <3>4, FbSumsMove
         DEF FbNumbers, FbFirstOf, FbSecondOf, FbHitOf, FbMissOf
    <3>. QED
      BY <3>2, <3>4, <3>5 DEF FbInv
  <2>. QED
    BY <1>1, <1>10, <2>2, <2>3
       DEF E!LookUp, E!Answers, E!Succeeds, E!Fails, E!counters, E!Goto, FbUnderWay, E!KeyOf
<1>11. ASSUME NEW c \in Others, E!CountLookUp(c) PROVE FbInv'
  <2>1. /\ UNCHANGED <<fbStrategy, fbKey, fbClosed>>
        /\ fbCache' \in [FallbackKeys -> Others \cup {Ticker, Nothing}]
        /\ fbStored' \in [FallbackKeys -> SUBSET (Others \cup {Ticker})]
        /\ \A k \in FallbackKeys : fbStored[k] \subseteq fbStored'[k]
                                   /\ (fbCache'[k] # Nothing => fbCache'[k] \in fbStored'[k])
    BY <1>1, <1>2, <1>11 DEF E!CountLookUp, E!config, E!Stores, E!KeyOf
  <2>2. ASSUME fbStrategy = "cached",
               E!Goto(c, "hit", "replayed"),
               fbStored' = fbStored,
               fbAnswer' = fbAnswer,
               fbHits' = fbHits + 1,
               UNCHANGED <<fbCalls, fbPrimary, fbUsed, fbSuccess, fbFailed, fbMisses>>
        PROVE  FbInv'
    <3>1. /\ "replayed" = "done" /\ fbAnswer'[c] \in E!Values
               => \/ fbAnswer'[c] = c
                  \/ fbStrategy = "cached" /\ fbAnswer'[c] \in fbStored'[fbKey[c]]
          /\ "replayed" = "cache" => fbAnswer'[c] = c
          /\ "replayed" = "func" => fbStrategy = "func"
          /\ "replayed" \in {"hit", "replayed"} => fbAnswer'[c] \in fbStored'[fbKey[c]]
          /\ "replayed" \in {"hit", "replayed", "miss", "missed"} => fbStrategy = "cached"
          /\ \/ fbAnswer' = fbAnswer
             \/ \E a \in Others \cup {Ticker,
                Nothing} \cup FbSaid : fbAnswer' = [fbAnswer EXCEPT ![c] = a]
          /\ \A d \in Others \ {c} : fbAnswer'[d] = fbAnswer[d]
      BY <1>1, <1>2, <2>1, <2>2 DEF FbTypes, FbSaid, FbConfigured, E!Values, FbUnderWay, E!Goto
    <3>2. FbTypes' /\ FbUnderWay' /\ E!ReplaysItsKey'
      BY <1>1, <2>1, <2>2, <3>1, FbAnswers
    <3>4. FbNumbers'
      BY <1>1, <2>2 DEF FbNumbers
    <3>5. FbSums'
      BY <1>1, <2>1, <2>2, <3>1, <3>4, FbSumsMove
         DEF FbNumbers, FbFirstOf, FbSecondOf, FbHitOf, FbMissOf
    <3>. QED
      BY <3>2, <3>4, <3>5 DEF FbInv
  <2>3. ASSUME fbStrategy = "cached",
               E!Goto(c, "miss", "missed"),
               fbAnswer' = fbAnswer,
               fbMisses' = fbMisses + 1,
               UNCHANGED <<fbCalls, fbPrimary, fbUsed, fbSuccess, fbFailed, fbHits>>
        PROVE  FbInv'
    <3>1. /\ "missed" = "done" /\ fbAnswer'[c] \in E!Values
               => \/ fbAnswer'[c] = c
                  \/ fbStrategy = "cached" /\ fbAnswer'[c] \in fbStored'[fbKey[c]]
          /\ "missed" = "cache" => fbAnswer'[c] = c
          /\ "missed" = "func" => fbStrategy = "func"
          /\ "missed" \in {"hit", "replayed"} => fbAnswer'[c] \in fbStored'[fbKey[c]]
          /\ "missed" \in {"hit", "replayed", "miss", "missed"} => fbStrategy = "cached"
          /\ \/ fbAnswer' = fbAnswer
             \/ \E a \in Others \cup {Ticker,
                Nothing} \cup FbSaid : fbAnswer' = [fbAnswer EXCEPT ![c] = a]
          /\ \A d \in Others \ {c} : fbAnswer'[d] = fbAnswer[d]
      BY <1>1, <1>2, <2>1, <2>3 DEF FbTypes, FbSaid, FbConfigured, E!Values, FbUnderWay, E!Goto
    <3>2. FbTypes' /\ FbUnderWay' /\ E!ReplaysItsKey'
      BY <1>1, <2>1, <2>3, <3>1, FbAnswers
    <3>4. FbNumbers'
      BY <1>1, <2>3 DEF FbNumbers
    <3>5. FbSums'
      BY <1>1, <2>1, <2>3, <3>1, <3>4, FbSumsMove
         DEF FbNumbers, FbFirstOf, FbSecondOf, FbHitOf, FbMissOf
    <3>. QED
      BY <3>2, <3>4, <3>5 DEF FbInv
  <2>. QED
    BY <1>1, <1>11, <2>2, <2>3
       DEF E!CountLookUp, E!Answers, E!Succeeds, E!Fails, E!counters, E!Goto, FbUnderWay, E!KeyOf
<1>12. ASSUME NEW c \in Others, E!Replay(c) PROVE FbInv'
  <2>1. /\ UNCHANGED <<fbStrategy, fbKey, fbClosed>>
        /\ fbCache' \in [FallbackKeys -> Others \cup {Ticker, Nothing}]
        /\ fbStored' \in [FallbackKeys -> SUBSET (Others \cup {Ticker})]
        /\ \A k \in FallbackKeys : fbStored[k] \subseteq fbStored'[k]
                                   /\ (fbCache'[k] # Nothing => fbCache'[k] \in fbStored'[k])
    BY <1>1, <1>2, <1>12 DEF E!Replay, E!config, E!Stores, E!KeyOf
  <2>2. ASSUME fbStrategy = "cached",
               E!Goto(c, "replayed", "done"),
               fbStored' = fbStored,
               fbAnswer' = [fbAnswer EXCEPT ![c] = fbAnswer[c]],
               fbSuccess' = fbSuccess + 1,
               UNCHANGED <<fbCalls, fbPrimary, fbUsed, fbFailed, fbHits, fbMisses>>
        PROVE  FbInv'
    <3>1. /\ "done" = "done" /\ fbAnswer'[c] \in E!Values
               => \/ fbAnswer'[c] = c
                  \/ fbStrategy = "cached" /\ fbAnswer'[c] \in fbStored'[fbKey[c]]
          /\ "done" = "cache" => fbAnswer'[c] = c
          /\ "done" = "func" => fbStrategy = "func"
          /\ "done" \in {"hit", "replayed"} => fbAnswer'[c] \in fbStored'[fbKey[c]]
          /\ "done" \in {"hit", "replayed", "miss", "missed"} => fbStrategy = "cached"
          /\ \/ fbAnswer' = fbAnswer
             \/ \E a \in Others \cup {Ticker,
                Nothing} \cup FbSaid : fbAnswer' = [fbAnswer EXCEPT ![c] = a]
          /\ \A d \in Others \ {c} : fbAnswer'[d] = fbAnswer[d]
      BY <1>1, <1>2, <2>1, <2>2 DEF FbTypes, FbSaid, FbConfigured, E!Values, FbUnderWay, E!Goto
    <3>2. FbTypes' /\ FbUnderWay' /\ E!ReplaysItsKey'
      BY <1>1, <2>1, <2>2, <3>1, FbAnswers
    <3>3. FbExcusedOf(fbAnswer'[c]) = 0
      BY <1>1, <1>2, <2>2 DEF FbTypes, FbSaid, FbConfigured, FbUnderWay, FbExcusedOf, E!Goto
    <3>4. FbNumbers'
      BY <1>1, <2>2 DEF FbNumbers
    <3>5. FbSums'
      BY <1>1, <2>1, <2>2, <3>1, <3>3, <3>4, FbSumsMove
         DEF FbNumbers, FbFirstOf, FbSecondOf, FbHitOf, FbMissOf
    <3>. QED
      BY <3>2, <3>4, <3>5 DEF FbInv
  <2>3. ASSUME fbStrategy = "cached",
               E!Goto(c, "missed", "done"),
               fbAnswer' = [fbAnswer EXCEPT ![c] = "notCached"],
               fbFailed' = fbFailed + 1,
               UNCHANGED <<fbCalls, fbPrimary, fbUsed, fbSuccess, fbHits, fbMisses>>
        PROVE  FbInv'
    <3>1. /\ "done" = "done" /\ fbAnswer'[c] \in E!Values
               => \/ fbAnswer'[c] = c
                  \/ fbStrategy = "cached" /\ fbAnswer'[c] \in fbStored'[fbKey[c]]
          /\ "done" = "cache" => fbAnswer'[c] = c
          /\ "done" = "func" => fbStrategy = "func"
          /\ "done" \in {"hit", "replayed"} => fbAnswer'[c] \in fbStored'[fbKey[c]]
          /\ "done" \in {"hit", "replayed", "miss", "missed"} => fbStrategy = "cached"
          /\ \/ fbAnswer' = fbAnswer
             \/ \E a \in Others \cup {Ticker,
                Nothing} \cup FbSaid : fbAnswer' = [fbAnswer EXCEPT ![c] = a]
          /\ \A d \in Others \ {c} : fbAnswer'[d] = fbAnswer[d]
      BY <1>1, <1>2, <2>1, <2>3 DEF FbTypes, FbSaid, FbConfigured, E!Values, FbUnderWay, E!Goto
    <3>2. FbTypes' /\ FbUnderWay' /\ E!ReplaysItsKey'
      BY <1>1, <2>1, <2>3, <3>1, FbAnswers
    <3>3. FbExcusedOf(fbAnswer'[c]) = 0
      BY <1>1, <1>2, <2>3 DEF FbTypes, FbSaid, FbConfigured, FbUnderWay, FbExcusedOf, E!Goto
    <3>4. FbNumbers'
      BY <1>1, <2>3 DEF FbNumbers
    <3>5. FbSums'
      BY <1>1, <2>1, <2>3, <3>1, <3>3, <3>4, FbSumsMove
         DEF FbNumbers, FbFirstOf, FbSecondOf, FbHitOf, FbMissOf
    <3>. QED
      BY <3>2, <3>4, <3>5 DEF FbInv
  <2>. QED
    BY <1>1, <1>12, <2>2, <2>3
       DEF E!Replay, E!Answers, E!Succeeds, E!Fails, E!counters, E!Goto, FbUnderWay, E!KeyOf
<1>13. ASSUME \/ \E k \in FallbackKeys : E!Seed(k)
             \/ E!ClearCache \/ E!Close \/ UNCHANGED E!vars
      PROVE  FbInv'
  <2>1. UNCHANGED <<fbStrategy, fbKey, fbPc, fbAnswer, fbCalls, fbPrimary, fbUsed, fbSuccess,
        fbFailed,
                    fbHits, fbMisses>>
    BY <1>13 DEF E!Seed, E!ClearCache, E!Close, E!vars, E!config, E!counters
  <2>2. /\ FbFirst' = FbFirst /\ FbSecond' = FbSecond /\ FbExcused' = FbExcused
        /\ FbHit' = FbHit /\ FbMiss' = FbMiss
    BY <2>1 DEF FbFirst, FbSecond, FbExcused, FbHit, FbMiss
  <2>3. FbNumbers' /\ FbSums'
    BY <1>1, <2>1, <2>2 DEF FbNumbers, FbSums
  <2>4. /\ fbClosed' \in BOOLEAN
        /\ fbCache' \in [FallbackKeys -> Others \cup {Ticker, Nothing}]
        /\ fbStored' \in [FallbackKeys -> SUBSET (Others \cup {Ticker})]
        /\ \A k \in FallbackKeys : fbStored[k] \subseteq fbStored'[k]
                                   /\ (fbCache'[k] # Nothing => fbCache'[k] \in fbStored'[k])
    BY <1>1, <1>2, <1>13, ZenonT(60)
       DEF FbTypes, E!TypeOK, E!Seed, E!ClearCache, E!Close, E!Stores, E!vars
  <2>5. FbTypes'
    BY <1>1, <2>1, <2>4 DEF FbTypes, E!TypeOK, E!Values
  <2>6. E!ReplaysItsKey'
    BY <1>1, <1>2, <2>1, <2>4 DEF E!ReplaysItsKey, E!Values
  <2>7. FbUnderWay'
    BY <1>1, <1>2, <2>1, <2>4 DEF FbUnderWay
  <2>. QED
    BY <2>3, <2>5, <2>6, <2>7 DEF FbInv
<1>. QED
  BY <1>3, <1>4, <1>5, <1>6, <1>7, <1>8, <1>9, <1>10, <1>11, <1>12, <1>13 DEF E!Next

LEMMA FbInvariant == ASSUME FbConfigured PROVE Spec => [](package = "fallback" => FbInv)
<1>1. Init => (package = "fallback" => FbInv)
  BY FbInit, StartOfPackage
<1>2. (package = "fallback" => FbInv) /\ [Next]_vars => (package = "fallback" => FbInv)'
  BY FbStep, StepOfPackage
<1>. QED
  BY <1>1, <1>2, PTL DEF Spec

LEMMA FbBalances == FbInv => E!TypeOK /\ E!CallsAddUp /\ E!ReplaysItsKey
  BY FbSumsSame DEF FbInv, FbTypes

HIDE DEF fbStrategy, fbExcuses, fbHasFunc, fbCache, fbClosed, fbKey, fbPc, fbAnswer,
         fbCalls, fbPrimary, fbUsed, fbSuccess, fbFailed, fbHits, fbMisses, fbStored

-----------------------------------------------------------------------------
(* The cache of fallx: its count is the number of its entries, and they    *)
(* settle within its capacity, as long as no recount went wrong.           *)

fallDrifted == x1
fallEntries == x2
fallExpired == x3
fallOlder   == x4
fallSize    == x5
fallEvictMu == x6
fallClosed  == x7
fallStop    == x8
fallPc      == x9
fallKey     == x10
fallShard   == x11
fallCold    == x12
fallSum     == x13
USE DEF fallDrifted, fallEntries, fallExpired, fallOlder, fallSize, fallEvictMu, fallClosed,
        fallStop, fallPc, fallKey, fallShard, fallCold, fallSum

FallConfigured ==
  /\ IsFiniteSet(Callers) /\ IsFiniteSet(CacheKeys)
  /\ Nothing \notin Callers /\ Ticker \notin Callers
  /\ CacheShards \in Nat /\ CacheShards >= 1
  /\ CacheShardOf \in [CacheKeys -> 1 .. CacheShards]
  /\ CacheSize \in Nat

\* evictMu is held; an entry was inserted, or is about to be evicted, by a call that has
\* yet to see a count within maxCacheSize.
FallHolding == {"check", "sweep", "loop", "pick", "evict", "sum", "write", "clear"}
FallOwing   == {"look", "lock", "check", "sweep", "loop", "pick", "evict"}
FallDebtors == {c \in Callers : fallPc[c] \in FallOwing}

FallMutex == \A c \in Callers : fallPc[c] \in FallHolding <=> fallEvictMu = c
FallWalks ==
  \A c \in Callers :
    /\ fallPc[c] \notin {"pick", "evict"} => fallCold[c].entry = Nothing
    /\ fallPc[c] = "evict" => fallCold[c].entry # Nothing
    /\ fallPc[c] \in {"loop", "evict"} => fallShard[c] = 1
    /\ fallPc[c] = "store" => fallKey[c] \in CacheKeys

\* The candidate of c is gone, or c has none and will find none.
FallLost(c) ==
  IF fallCold[c].entry = Nothing
  THEN fallPc[c] = "pick" /\ \A k \in F!Used : CacheShardOf[k] < fallShard[c]
  ELSE fallPc[c] \in {"pick", "evict"} /\ \A k \in CacheKeys : fallEntries[k] # fallCold[c].entry

FallCount ==
  /\ fallSize >= Cardinality(F!Used)
  /\ ~F!Clearing => fallSize = Cardinality(F!Used)
FallBound ==
  /\ Cardinality(F!Used) <= CacheSize + Cardinality(FallDebtors)
  /\ \A c \in Callers : FallLost(c) => Cardinality(F!Used) < CacheSize + Cardinality(FallDebtors)

FallInv == F!TypeOK /\ FallMutex /\ FallWalks /\ (~Drifted => FallCount /\ FallBound)

LEMMA FallCards == \A Z : F!Cardinality(Z) = Cardinality(Z)
  BY DEF F!Cardinality, Cardinality

LEMMA FallFinite ==
  ASSUME FallConfigured
  PROVE  /\ IsFiniteSet(F!Used) /\ Cardinality(F!Used) \in Nat
         /\ IsFiniteSet(F!Used') /\ Cardinality(F!Used') \in Nat
         /\ IsFiniteSet(FallDebtors) /\ Cardinality(FallDebtors) \in Nat
         /\ IsFiniteSet(FallDebtors') /\ Cardinality(FallDebtors') \in Nat
<1>1. F!Used \subseteq CacheKeys /\ F!Used' \subseteq CacheKeys
  BY DEF F!Used
<1>2. FallDebtors \subseteq Callers /\ FallDebtors' \subseteq Callers
  BY DEF FallDebtors
<1>. HIDE DEF FallDebtors
<1>. QED
  BY <1>1, <1>2, FS_Subset, FS_CardinalityType DEF FallConfigured

LEMMA FallSomeKeys ==
  ASSUME FallConfigured, NEW Z \in SUBSET F!Used
  PROVE  /\ IsFiniteSet(Z) /\ Cardinality(Z) \in Nat
         /\ Cardinality(F!Used \ Z) = Cardinality(F!Used) - Cardinality(Z)
         /\ Z # {} => Cardinality(Z) >= 1
<1>. DEFINE all == F!Used
<1>1. IsFiniteSet(all) /\ Cardinality(all) \in Nat
  BY FallFinite
<1>. HIDE DEF all
<1>2. Z \subseteq all
  BY DEF all
<1>3. IsFiniteSet(Z) /\ Cardinality(Z) \in Nat
  BY <1>1, <1>2, FS_Subset, FS_CardinalityType
<1>4. all \cap Z = Z
  BY <1>2
<1>5. Cardinality(all \ Z) = Cardinality(all) - Cardinality(all \cap Z)
  BY <1>1, FS_Difference
<1>6. Z # {} => Cardinality(Z) # 0
  BY <1>3, FS_EmptySet
<1>7. Z # {} => Cardinality(Z) >= 1
  BY <1>3, <1>6
<1>. QED
  BY <1>3, <1>4, <1>5, <1>7 DEF all

LEMMA FallTouches ==
  ASSUME F!TypeOK, NEW e \in Callers, F!Touches(e)
  PROVE  /\ fallOlder' \in SUBSET (Callers \X Callers)
         /\ fallCold' \in [Callers -> [entry : Callers \cup {Nothing}, touched : BOOLEAN]]
         /\ \A c \in Callers : fallCold'[c].entry = fallCold[c].entry
<1>1. F!Known \subseteq Callers
  BY DEF F!TypeOK, F!Known, F!Used
<1>2. fallOlder' \in SUBSET (Callers \X Callers)
  <2>1. fallOlder \subseteq Callers \X Callers
    BY DEF F!TypeOK
  <2>2. fallOlder' = {p \in fallOlder : e \notin {p[1], p[2]}} \cup ((F!Known \ {e}) \X {e})
    BY DEF F!Touches
  <2>3. (F!Known \ {e}) \X {e} \subseteq Callers \X Callers
    BY <1>1
  <2>. QED
    BY <2>1, <2>2, <2>3
<1>3. \A c \in Callers : fallCold[c] \in [entry : Callers \cup {Nothing}, touched : BOOLEAN]
  BY DEF F!TypeOK
<1>4. fallCold' = [c \in Callers |-> [fallCold[c] EXCEPT !.touched = @ \/ fallCold[c].entry = e]]
  BY DEF F!Touches
<1>5. ASSUME NEW c \in Callers
      PROVE  /\ fallCold'[c] \in [entry : Callers \cup {Nothing}, touched : BOOLEAN]
             /\ fallCold'[c].entry = fallCold[c].entry
  <2>1. fallCold'[c] = [fallCold[c] EXCEPT !.touched = fallCold[c].touched \/ fallCold[c].entry = e]
    BY <1>4
  <2>2. fallCold[c] \in [entry : Callers \cup {Nothing}, touched : BOOLEAN]
    BY <1>3
  <2>. QED
    BY <2>1, <2>2
<1>. QED
  BY <1>2, <1>4, <1>5

LEMMA FallForgets ==
  ASSUME F!TypeOK, NEW gone, F!Forgets(gone)
  PROVE  fallOlder' \in SUBSET (Callers \X Callers) /\ fallExpired' \in SUBSET Callers
BY DEF F!TypeOK, F!Forgets

LEMMA FallRemoves ==
  ASSUME FallConfigured, F!TypeOK, NEW Z \in SUBSET F!Used, F!Removes(Z)
  PROVE  /\ fallEntries' \in [CacheKeys -> Callers \cup {Nothing}]
         /\ fallOlder' \in SUBSET (Callers \X Callers) /\ fallExpired' \in SUBSET Callers
         /\ F!Used' = F!Used \ Z /\ fallSize' \in Int
         /\ fallSize' = fallSize - Cardinality(Z)
<1>1. F!Forgets({fallEntries[k] : k \in Z})
  BY DEF F!Removes
<1>2. fallOlder' \in SUBSET (Callers \X Callers) /\ fallExpired' \in SUBSET Callers
  BY <1>1, FallForgets
<1>3. fallEntries' = [k \in CacheKeys |-> IF k \in Z THEN Nothing ELSE fallEntries[k]]
  BY DEF F!Removes, F!Without
<1>4. fallEntries' \in [CacheKeys -> Callers \cup {Nothing}] /\ F!Used' = F!Used \ Z
  BY <1>3 DEF F!TypeOK, F!Used
<1>5. fallSize' = fallSize - Cardinality(Z)
  BY FallCards DEF F!Removes, F!Uncounted
<1>6. Cardinality(Z) \in Nat
  BY FallSomeKeys
<1>7. fallSize' \in Int
  BY <1>5, <1>6 DEF F!TypeOK
<1>. QED
  BY <1>2, <1>4, <1>5, <1>7

LEMMA FallStart == FallConfigured /\ F!Init => FallInv
<1>. SUFFICES ASSUME FallConfigured, F!Init PROVE FallInv
  OBVIOUS
<1>1. F!Used = {} /\ FallDebtors = {}
  BY DEF F!Init, F!Used, FallDebtors, FallOwing, F!Goroutines
<1>2. Cardinality(F!Used) = 0 /\ Cardinality(FallDebtors) = 0
  BY <1>1, FS_EmptySet
<1>3. F!TypeOK
  <2>1. fallEntries \in [CacheKeys -> Callers \cup {Nothing}] /\
        fallKey \in [Callers -> CacheKeys \cup {Nothing}]
    BY DEF F!Init
  <2>2. fallPc \in [F!Goroutines -> F!Labels] /\
        fallShard \in [F!Goroutines -> 1 .. CacheShards + 1]
    BY DEF F!Init, F!Labels, FallConfigured
  <2>3. fallCold \in [Callers -> [entry : Callers \cup {Nothing}, touched : BOOLEAN]]
    BY DEF F!Init, F!Nobody
  <2>4. /\ fallExpired \subseteq Callers /\ fallOlder \subseteq Callers \X Callers /\
           fallSize \in Int
        /\ fallEvictMu \in Callers \cup {Nothing} /\ fallSum \in [Callers -> Nat]
    BY DEF F!Init
  <2>5. fallClosed \in BOOLEAN /\ fallStop \in BOOLEAN /\ fallDrifted \in BOOLEAN
    BY DEF F!Init
  <2>. QED
    BY <2>1, <2>2, <2>3, <2>4, <2>5 DEF F!TypeOK
<1>4. FallMutex
  BY DEF F!Init, FallMutex, FallHolding, F!Goroutines, FallConfigured
<1>5. FallWalks
  BY DEF F!Init, FallWalks, F!Goroutines, F!Nobody
<1>6. \A c \in Callers : ~FallLost(c)
  BY DEF F!Init, FallLost, F!Goroutines, F!Nobody
<1>7. FallCount /\ FallBound
  BY <1>2, <1>6 DEF F!Init, FallCount, FallBound, FallConfigured
<1>. QED
  BY <1>3, <1>4, <1>5, <1>7 DEF FallInv

\* evictMu is held by the call that is in it.
LEMMA FallMutexStep ==
  ASSUME FallConfigured, F!TypeOK, FallMutex, F!Next PROVE FallMutex'
<1>. USE DEF FallMutex, FallHolding, F!TypeOK, F!Goroutines, FallConfigured
<1>1. ASSUME NEW c \in Callers, F!Enter(c) PROVE FallMutex'
  BY <1>1 DEF F!Enter, F!At, F!Goto
<1>2. ASSUME NEW c \in Callers, F!Refresh(c) PROVE FallMutex'
  BY <1>2 DEF F!Refresh, F!At, F!Goto
<1>3. ASSUME NEW c \in Callers, F!Insert(c) PROVE FallMutex'
  BY <1>3 DEF F!Insert, F!At, F!Goto
<1>4. ASSUME NEW c \in Callers, F!Look(c) PROVE FallMutex'
  BY <1>4 DEF F!Look, F!At, F!Goto
<1>5. ASSUME NEW c \in Callers, F!Get(c) PROVE FallMutex'
  BY <1>5 DEF F!Get, F!At, F!Goto
<1>6. ASSUME NEW c \in Callers, F!Lock(c) PROVE FallMutex'
  BY <1>6 DEF F!Lock, F!At, F!Goto
<1>7. ASSUME NEW c \in Callers, F!Check(c) PROVE FallMutex'
  BY <1>7 DEF F!Check, F!Unlocks, F!At, F!Goto
<1>8. ASSUME NEW c \in Callers, F!Loop(c) PROVE FallMutex'
  BY <1>8 DEF F!Loop, F!Unlocks, F!At, F!Goto
<1>9. ASSUME NEW c \in Callers, F!Pick(c) PROVE FallMutex'
  BY <1>9 DEF F!Pick, F!Walks, F!At, F!Goto
<1>10. ASSUME NEW c \in Callers, F!Evict(c) PROVE FallMutex'
  BY <1>10 DEF F!Evict, F!At, F!Goto
<1>11. ASSUME NEW c \in Callers, F!Sum(c) PROVE FallMutex'
  BY <1>11 DEF F!Sum, F!Walks, F!At, F!Goto
<1>12. ASSUME NEW c \in Callers, F!Write(c) PROVE FallMutex'
  BY <1>12 DEF F!Write, F!Unlocks, F!At, F!Goto
<1>13. ASSUME NEW c \in Callers, F!Clear(c) PROVE FallMutex'
  BY <1>13 DEF F!Clear, F!Walks, F!At, F!Goto
<1>14. ASSUME NEW c \in Callers, F!Close(c) PROVE FallMutex'
  BY <1>14 DEF F!Close, F!At, F!Goto
<1>15. ASSUME NEW g \in F!Goroutines, F!Sweep(g) PROVE FallMutex'
  BY <1>15 DEF F!Sweep, F!Walks, F!At, F!Goto
<1>16. ASSUME F!Tick \/ F!StopSweeper \/ F!Expire \/ F!Rest PROVE FallMutex'
  BY <1>16 DEF F!Tick, F!StopSweeper, F!Expire, F!Rest, F!vars, F!At, F!Goto
<1>. QED
  BY <1>1, <1>2, <1>3, <1>4, <1>5, <1>6, <1>7, <1>8, <1>9, <1>10, <1>11, <1>12, <1>13, <1>14,
     <1>15, <1>16 DEF F!Next

\* What a call knows of its candidate and its walk.
LEMMA FallWalksStep ==
  ASSUME FallConfigured, F!TypeOK, FallWalks, F!Next PROVE FallWalks'
<1>. USE DEF FallWalks, F!TypeOK, F!Goroutines, FallConfigured
<1>1. ASSUME NEW c \in Callers, F!Enter(c) PROVE FallWalks'
  BY <1>1 DEF F!Enter, F!walks, F!At, F!Goto
<1>2. ASSUME NEW c \in Callers, F!Refresh(c) PROVE FallWalks'
  BY <1>2 DEF F!Refresh, F!Touches, F!At, F!Goto
<1>3. ASSUME NEW c \in Callers, F!Insert(c) PROVE FallWalks'
  BY <1>3 DEF F!Insert, F!Touches, F!At, F!Goto
<1>4. ASSUME NEW c \in Callers, F!Look(c) PROVE FallWalks'
  BY <1>4 DEF F!Look, F!walks, F!At, F!Goto
<1>5. ASSUME NEW c \in Callers, F!Get(c) PROVE FallWalks'
  BY <1>5 DEF F!Get, F!Removes, F!Forgets, F!Touches, F!At, F!Goto
<1>6. ASSUME NEW c \in Callers, F!Lock(c) PROVE FallWalks'
  BY <1>6 DEF F!Lock, F!walks, F!At, F!Goto
<1>7. ASSUME NEW c \in Callers, F!Check(c) PROVE FallWalks'
  BY <1>7 DEF F!Check, F!Unlocks, F!walks, F!At, F!Goto
<1>8. ASSUME NEW c \in Callers, F!Loop(c) PROVE FallWalks'
  BY <1>8 DEF F!Loop, F!Unlocks, F!walks, F!At, F!Goto
<1>9. ASSUME NEW c \in Callers, F!Pick(c) PROVE FallWalks'
  BY <1>9 DEF F!Pick, F!Walks, F!Roots, F!KeysIn, F!Used, F!At, F!Goto
<1>10. ASSUME NEW c \in Callers, F!Evict(c) PROVE FallWalks'
  BY <1>10 DEF F!Evict, F!Nobody, F!At, F!Goto
<1>11. ASSUME NEW c \in Callers, F!Sum(c) PROVE FallWalks'
  BY <1>11 DEF F!Sum, F!Walks, F!At, F!Goto
<1>12. ASSUME NEW c \in Callers, F!Write(c) PROVE FallWalks'
  BY <1>12 DEF F!Write, F!Unlocks, F!walks, F!At, F!Goto
<1>13. ASSUME NEW c \in Callers, F!Clear(c) PROVE FallWalks'
  BY <1>13 DEF F!Clear, F!Walks, F!At, F!Goto
<1>14. ASSUME NEW c \in Callers, F!Close(c) PROVE FallWalks'
  BY <1>14 DEF F!Close, F!walks, F!At, F!Goto
<1>15. ASSUME NEW g \in F!Goroutines, F!Sweep(g) PROVE FallWalks'
  BY <1>15 DEF F!Sweep, F!Walks, F!At, F!Goto
<1>16. ASSUME F!Tick \/ F!StopSweeper \/ F!Expire \/ F!Rest PROVE FallWalks'
  BY <1>16 DEF F!Tick, F!StopSweeper, F!Expire, F!Rest, F!vars, F!walks, F!At, F!Goto
<1>. QED
  BY <1>1, <1>2, <1>3, <1>4, <1>5, <1>6, <1>7, <1>8, <1>9, <1>10, <1>11, <1>12, <1>13, <1>14,
     <1>15, <1>16 DEF F!Next

LEMMA FallTypesStep ==
  ASSUME FallConfigured, F!TypeOK, FallWalks, F!Next PROVE F!TypeOK'
<1>. USE DEF F!TypeOK, F!Goroutines, F!Labels, F!walks
<1>1. ASSUME NEW c \in Callers, F!Enter(c) PROVE F!TypeOK'
  BY <1>1 DEF F!Enter, F!At, F!Goto
<1>2. ASSUME NEW c \in Callers, F!Refresh(c) PROVE F!TypeOK'
  <2>1. fallEntries[fallKey[c]] \in Callers /\ F!Touches(fallEntries[fallKey[c]])
    BY <1>2 DEF F!Refresh, F!Used
  <2>2. /\ fallOlder' \in SUBSET (Callers \X Callers)
        /\ fallCold' \in [Callers -> [entry : Callers \cup {Nothing}, touched : BOOLEAN]]
    BY <2>1, FallTouches
  <2>. QED
    BY <1>2, <2>2 DEF F!Refresh, F!At, F!Goto
<1>3. ASSUME NEW c \in Callers, F!Insert(c) PROVE F!TypeOK'
  <2>1. F!Touches(c)
    BY <1>3 DEF F!Insert
  <2>2. /\ fallOlder' \in SUBSET (Callers \X Callers)
        /\ fallCold' \in [Callers -> [entry : Callers \cup {Nothing}, touched : BOOLEAN]]
    BY <2>1, FallTouches
  <2>3. fallEntries' \in [CacheKeys -> Callers \cup {Nothing}]
    <3>1. fallEntries \in [CacheKeys -> Callers \cup {Nothing}]
      OBVIOUS
    <3>2. fallEntries' = [fallEntries EXCEPT ![fallKey[c]] = c]
      BY <1>3 DEF F!Insert
    <3>. QED
      BY <3>1, <3>2
  <2>5. fallSize' \in Int
    BY <1>3 DEF F!Insert
  <2>4. fallPc' \in [Callers \cup {Ticker} -> F!Labels]
    BY <1>3 DEF F!Insert, F!Goto
  <2>. QED
    BY <1>3, <2>2, <2>3, <2>4, <2>5 DEF F!Insert
<1>4. ASSUME NEW c \in Callers, F!Look(c) PROVE F!TypeOK'
  BY <1>4 DEF F!Look, F!At, F!Goto
<1>5. ASSUME NEW c \in Callers, F!Get(c) PROVE F!TypeOK'
  <2>. DEFINE Z == {k \in {fallKey[c]} \cap F!Used : fallEntries[k] \in fallExpired}
  <2>1. CASE F!Removes(Z) /\ UNCHANGED fallCold
    <3>1. Z \in SUBSET F!Used
      OBVIOUS
    <3>2. /\ fallEntries' \in [CacheKeys -> Callers \cup {Nothing}]
          /\ fallOlder' \in SUBSET (Callers \X Callers) /\ fallExpired' \in SUBSET Callers
          /\ fallSize' \in Int
      BY <2>1, <3>1, FallRemoves
    <3>. QED
      BY <1>5, <2>1, <3>2 DEF F!Get, F!At, F!Goto
  <2>2. CASE /\ fallKey[c] \in F!Used /\ F!Touches(fallEntries[fallKey[c]])
             /\ UNCHANGED <<fallEntries, fallExpired, fallSize>>
    <3>1. fallEntries[fallKey[c]] \in Callers
      BY <2>2 DEF F!Used
    <3>2. /\ fallOlder' \in SUBSET (Callers \X Callers)
          /\ fallCold' \in [Callers -> [entry : Callers \cup {Nothing}, touched : BOOLEAN]]
      BY <2>2, <3>1, FallTouches
    <3>. QED
      BY <1>5, <2>2, <3>2 DEF F!Get, F!At, F!Goto
  <2>3. CASE UNCHANGED <<fallEntries, fallExpired, fallSize, fallOlder, fallCold>>
    BY <1>5, <2>3 DEF F!Get, F!At, F!Goto
  <2>. QED
    BY <1>5, <2>1, <2>2, <2>3 DEF F!Get
<1>6. ASSUME NEW c \in Callers, F!Lock(c) PROVE F!TypeOK'
  BY <1>6 DEF F!Lock, F!At, F!Goto
<1>7. ASSUME NEW c \in Callers, F!Check(c) PROVE F!TypeOK'
  BY <1>7 DEF F!Check, F!Unlocks, F!At, F!Goto
<1>8. ASSUME NEW c \in Callers, F!Loop(c) PROVE F!TypeOK'
  BY <1>8 DEF F!Loop, F!Unlocks, F!At, F!Goto
<1>9. ASSUME NEW c \in Callers, F!Pick(c) PROVE F!TypeOK'
  <2>1. \A k \in F!Roots(fallShard[c]) : fallEntries[k] \in Callers
    BY DEF F!Roots, F!KeysIn, F!Used
  <2>2. fallCold' \in [Callers -> [entry : Callers \cup {Nothing}, touched : BOOLEAN]]
    <3>1. CASE fallCold' = fallCold
      BY <3>1
    <3>2. ASSUME NEW k \in F!Roots(fallShard[c]),
                 fallCold' = [fallCold EXCEPT ![c] = [entry |-> fallEntries[k], touched |-> FALSE]]
          PROVE  fallCold' \in [Callers -> [entry : Callers \cup {Nothing}, touched : BOOLEAN]]
      BY <2>1, <3>2
    <3>. QED
      BY <1>9, <3>1, <3>2 DEF F!Pick
  <2>3. /\ fallPc' \in [Callers \cup {Ticker} -> F!Labels]
        /\ fallShard' \in [Callers \cup {Ticker} -> 1 .. CacheShards + 1]
    BY <1>9 DEF F!Pick, F!Walks, F!Goto, FallConfigured
  <2>. QED
    BY <1>9, <2>2, <2>3 DEF F!Pick
<1>10. ASSUME NEW c \in Callers, F!Evict(c) PROVE F!TypeOK'
  <2>1. F!Victim(c) \in SUBSET F!Used /\ F!Removes(F!Victim(c))
    BY <1>10 DEF F!Evict, F!Victim
  <2>2. /\ fallEntries' \in [CacheKeys -> Callers \cup {Nothing}]
        /\ fallOlder' \in SUBSET (Callers \X Callers) /\ fallExpired' \in SUBSET Callers
        /\ fallSize' \in Int
    BY <2>1, FallRemoves
  <2>3. fallCold' \in [Callers -> [entry : Callers \cup {Nothing}, touched : BOOLEAN]]
    BY <1>10 DEF F!Evict, F!Nobody
  <2>. QED
    BY <1>10, <2>2, <2>3 DEF F!Evict, F!At, F!Goto
<1>11. ASSUME NEW c \in Callers, F!Sum(c) PROVE F!TypeOK'
  <2>1. F!KeysIn(fallShard[c]) \in SUBSET F!Used
    BY DEF F!KeysIn
  <2>2. F!Cardinality(F!KeysIn(fallShard[c])) \in Nat
    BY <2>1, FallSomeKeys, FallCards
  <2>3. fallSum' \in [Callers -> Nat]
    BY <1>11, <2>2 DEF F!Sum
  <2>4. /\ fallPc' \in [Callers \cup {Ticker} -> F!Labels]
        /\ fallShard' \in [Callers \cup {Ticker} -> 1 .. CacheShards + 1]
    BY <1>11 DEF F!Sum, F!Walks, F!Goto, FallConfigured
  <2>. QED
    BY <1>11, <2>3, <2>4 DEF F!Sum
<1>12. ASSUME NEW c \in Callers, F!Write(c) PROVE F!TypeOK'
  BY <1>12 DEF F!Write, F!Unlocks, F!At, F!Goto
<1>13. ASSUME NEW c \in Callers, F!Clear(c) PROVE F!TypeOK'
  <2>1. fallOlder' \in SUBSET (Callers \X Callers) /\ fallExpired' \in SUBSET Callers
    BY <1>13, FallForgets DEF F!Clear
  <2>2. fallEntries' \in [CacheKeys -> Callers \cup {Nothing}]
    BY <1>13 DEF F!Clear, F!Without
  <2>3. /\ fallPc' \in [Callers \cup {Ticker} -> F!Labels]
        /\ fallShard' \in [Callers \cup {Ticker} -> 1 .. CacheShards + 1]
    BY <1>13 DEF F!Clear, F!Walks, F!Goto, FallConfigured
  <2>. QED
    BY <1>13, <2>1, <2>2, <2>3 DEF F!Clear
<1>14. ASSUME NEW c \in Callers, F!Close(c) PROVE F!TypeOK'
  BY <1>14 DEF F!Close, F!At, F!Goto
<1>15. ASSUME NEW g \in F!Goroutines, F!Sweep(g) PROVE F!TypeOK'
  <2>1. F!Stale(fallShard[g]) \in SUBSET F!Used /\ F!Removes(F!Stale(fallShard[g]))
    BY <1>15 DEF F!Sweep, F!Stale, F!KeysIn
  <2>2. /\ fallEntries' \in [CacheKeys -> Callers \cup {Nothing}]
        /\ fallOlder' \in SUBSET (Callers \X Callers) /\ fallExpired' \in SUBSET Callers
        /\ fallSize' \in Int
    BY <2>1, FallRemoves
  <2>3. /\ fallPc' \in [Callers \cup {Ticker} -> F!Labels]
        /\ fallShard' \in [Callers \cup {Ticker} -> 1 .. CacheShards + 1]
    BY <1>15 DEF F!Sweep, F!Walks, F!Goto, FallConfigured
  <2>. QED
    BY <1>15, <2>2, <2>3 DEF F!Sweep
<1>16. ASSUME F!Tick \/ F!StopSweeper \/ F!Expire \/ F!Rest PROVE F!TypeOK'
  BY <1>16 DEF F!Tick, F!StopSweeper, F!Expire, F!Rest, F!vars, F!Used, F!At, F!Goto
<1>. QED
  BY <1>1, <1>2, <1>3, <1>4, <1>5, <1>6, <1>7, <1>8, <1>9, <1>10, <1>11, <1>12, <1>13, <1>14,
     <1>15, <1>16 DEF F!Next

-----------------------------------------------------------------------------
\* The count follows the entries, whoever changes them.
LEMMA FallCountKept ==
  ASSUME F!TypeOK, FallConfigured, FallCount, NEW n \in Int, F!Clearing => F!Clearing',
         fallSize' = fallSize + n, Cardinality(F!Used') = Cardinality(F!Used) + n
  PROVE  FallCount'
<1>1. fallSize \in Int /\ Cardinality(F!Used) \in Nat
  BY FallFinite DEF F!TypeOK
<1>2. fallSize' >= Cardinality(F!Used')
  BY <1>1 DEF FallCount
<1>3. ASSUME ~F!Clearing' PROVE fallSize' = Cardinality(F!Used')
  BY <1>1, <1>3 DEF FallCount
<1>. QED
  BY <1>2, <1>3 DEF FallCount

LEMMA FallCountSame ==
  ASSUME F!TypeOK, FallConfigured, FallCount, F!Clearing => F!Clearing',
         fallSize' = fallSize, fallEntries' = fallEntries
  PROVE  FallCount'
<1>1. F!Used' = F!Used
  BY DEF F!Used
<1>2. fallSize \in Int /\ Cardinality(F!Used) \in Nat
  BY FallFinite DEF F!TypeOK
<1>3. fallSize' = fallSize + 0 /\ Cardinality(F!Used') = Cardinality(F!Used) + 0
  BY <1>1, <1>2
<1>. QED
  BY <1>3, FallCountKept

LEMMA FallCountRemoves ==
  ASSUME F!TypeOK, FallConfigured, FallCount, F!Clearing => F!Clearing',
         NEW Z \in SUBSET F!Used, F!Removes(Z)
  PROVE  FallCount'
<1>1. F!Used' = F!Used \ Z /\ fallSize' = fallSize - Cardinality(Z)
  BY FallRemoves
<1>2. Cardinality(Z) \in Nat /\ Cardinality(F!Used \ Z) = Cardinality(F!Used) - Cardinality(Z)
  BY FallSomeKeys
<1>3. fallSize \in Int /\ Cardinality(F!Used) \in Nat
  BY FallFinite DEF F!TypeOK
<1>. DEFINE n == 0 - Cardinality(Z)
<1>4. n \in Int /\ fallSize' = fallSize + n /\ Cardinality(F!Used') = Cardinality(F!Used) + n
  BY <1>1, <1>2, <1>3
<1>. HIDE DEF n
<1>. QED
  BY <1>4, FallCountKept

LEMMA FallInserts ==
  ASSUME F!TypeOK, FallConfigured, FallWalks, NEW c \in Callers, F!Insert(c)
  PROVE  /\ Cardinality(F!Used') = Cardinality(F!Used) + 1
         /\ fallKey[c] \in CacheKeys /\ fallKey[c] \notin F!Used
<1>1. fallKey[c] \in CacheKeys /\ fallKey[c] \notin F!Used
  BY DEF FallWalks, F!Insert, F!At
<1>2. F!Used' = F!Used \cup {fallKey[c]}
  BY <1>1 DEF F!Insert, F!Used, F!TypeOK, FallConfigured
<1>3. IsFiniteSet(F!Used)
  BY FallFinite
<1>. DEFINE all == F!Used
<1>. HIDE DEF all
<1>4. Cardinality(all \cup {fallKey[c]}) = Cardinality(all) + 1
  BY <1>1, <1>3, FS_AddElement DEF all
<1>. QED
  BY <1>1, <1>2, <1>4 DEF all

\* Who is not in the recount of a ClearCache does not end it.
LEMMA FallClearingKept ==
  ASSUME FallConfigured, F!TypeOK, NEW g \in F!Goroutines,
         \A d \in F!Goroutines \ {g} : fallPc'[d] = fallPc[d],
         fallEvictMu' = fallEvictMu,
         \/ g = Ticker
         \/ fallPc[g] \in {"clear", "sum", "write"} => fallPc'[g] \in {"clear", "sum", "write"}
  PROVE  F!Clearing => F!Clearing'
BY DEF F!Clearing, F!TypeOK, F!Goroutines, FallConfigured

LEMMA FallCountStep ==
  ASSUME FallConfigured, F!TypeOK, FallMutex, FallWalks, FallCount, F!Next, ~Drifted'
  PROVE  FallCount'
<1>1. ASSUME NEW c \in Callers, F!Enter(c) \/ F!Refresh(c) \/ F!Look(c) \/ F!Close(c)
      PROVE FallCount'
  <2>1. F!Clearing => F!Clearing'
    <3>1. c \in F!Goroutines /\ fallEvictMu' = fallEvictMu
          /\ \A d \in F!Goroutines \ {c} : fallPc'[d] = fallPc[d]
      BY <1>1 DEF F!Enter, F!Refresh, F!Look, F!Close, F!Goto, F!Goroutines, F!TypeOK
    <3>2. fallPc[c] \notin {"clear", "sum", "write"}
      BY <1>1 DEF F!Enter, F!Refresh, F!Look, F!Close, F!At
    <3>. QED
      BY <3>1, <3>2, FallClearingKept
  <2>2. fallSize' = fallSize /\ fallEntries' = fallEntries
    BY <1>1 DEF F!Enter, F!Refresh, F!Look, F!Close
  <2>. QED
    BY <2>1, <2>2, FallCountSame
<1>2. ASSUME NEW c \in Callers, F!Lock(c) PROVE FallCount'
  <2>1. ~F!Clearing /\ fallSize' = fallSize /\ fallEntries' = fallEntries
    BY <1>2 DEF F!Lock, F!Clearing
  <2>. QED
    BY <2>1, FallCountSame
<1>3. ASSUME NEW c \in Callers, F!Check(c) \/ F!Loop(c) \/ F!Pick(c) PROVE FallCount'
  <2>1. fallEvictMu = c /\ ~F!Clearing
    BY <1>3 DEF F!Check, F!Loop, F!Pick, F!At, FallMutex, FallHolding, F!Clearing
  <2>2. fallSize' = fallSize /\ fallEntries' = fallEntries
    BY <1>3 DEF F!Check, F!Loop, F!Pick
  <2>. QED
    BY <2>1, <2>2, FallCountSame
<1>4. ASSUME NEW c \in Callers, F!Insert(c) PROVE FallCount'
  <2>1. F!Clearing => F!Clearing'
    <3>1. c \in F!Goroutines /\ fallEvictMu' = fallEvictMu /\ fallPc[c] = "store"
          /\ \A d \in F!Goroutines \ {c} : fallPc'[d] = fallPc[d]
      BY <1>4 DEF F!Insert, F!Goto, F!At, F!Goroutines, F!TypeOK
    <3>. QED
      BY <3>1, FallClearingKept
  <2>2. fallSize' = fallSize + 1 /\ Cardinality(F!Used') = Cardinality(F!Used) + 1
    BY <1>4, FallInserts DEF F!Insert
  <2>. QED
    BY <2>1, <2>2, FallCountKept, 1 \in Int
<1>5. ASSUME NEW c \in Callers, F!Get(c) PROVE FallCount'
  <2>1. F!Clearing => F!Clearing'
    <3>1. c \in F!Goroutines /\ fallEvictMu' = fallEvictMu /\ fallPc[c] = "get"
          /\ \A d \in F!Goroutines \ {c} : fallPc'[d] = fallPc[d]
      BY <1>5 DEF F!Get, F!Goto, F!At, F!Goroutines, F!TypeOK
    <3>. QED
      BY <3>1, FallClearingKept
  <2>. DEFINE Z == {k \in {fallKey[c]} \cap F!Used : fallEntries[k] \in fallExpired}
  <2>2. CASE F!Removes(Z)
    <3>1. Z \in SUBSET F!Used
      OBVIOUS
    <3>. HIDE DEF Z
    <3>. QED
      BY <2>1, <2>2, <3>1, FallCountRemoves
  <2>3. CASE fallSize' = fallSize /\ fallEntries' = fallEntries
    BY <2>1, <2>3, FallCountSame
  <2>. QED
    BY <1>5, <2>2, <2>3 DEF F!Get
<1>6. ASSUME NEW g \in F!Goroutines, F!Sweep(g) PROVE FallCount'
  <2>1. F!Clearing => F!Clearing'
    <3>1. fallEvictMu' = fallEvictMu /\ fallPc[g] = "sweep"
          /\ \A d \in F!Goroutines \ {g} : fallPc'[d] = fallPc[d]
      BY <1>6 DEF F!Sweep, F!Walks, F!Goto, F!At, F!TypeOK
    <3>. QED
      BY <3>1, FallClearingKept
  <2>2. F!Stale(fallShard[g]) \in SUBSET F!Used /\ F!Removes(F!Stale(fallShard[g]))
    BY <1>6 DEF F!Sweep, F!Stale, F!KeysIn
  <2>. QED
    BY <2>1, <2>2, FallCountRemoves
<1>7. ASSUME NEW c \in Callers, F!Evict(c) PROVE FallCount'
  <2>1. fallEvictMu = c /\ ~F!Clearing
    BY <1>7 DEF F!Evict, F!At, FallMutex, FallHolding, F!Clearing
  <2>2. F!Victim(c) \in SUBSET F!Used /\ F!Removes(F!Victim(c))
    BY <1>7 DEF F!Evict, F!Victim
  <2>. QED
    BY <2>1, <2>2, FallCountRemoves
<1>8. ASSUME NEW c \in Callers, F!Sum(c) PROVE FallCount'
  <2>1. F!Clearing => F!Clearing'
    <3>1. c \in F!Goroutines /\ fallEvictMu' = fallEvictMu /\ fallPc'[c] \in {"sum", "write"}
          /\ \A d \in F!Goroutines \ {c} : fallPc'[d] = fallPc[d]
      BY <1>8 DEF F!Sum, F!Walks, F!Goto, F!At, F!Goroutines, F!TypeOK
    <3>. QED
      BY <3>1, FallClearingKept
  <2>2. fallSize' = fallSize /\ fallEntries' = fallEntries
    BY <1>8 DEF F!Sum
  <2>. QED
    BY <2>1, <2>2, FallCountSame
<1>9. ASSUME NEW c \in Callers, F!Write(c) PROVE FallCount'
  <2>1. fallSize' = Cardinality(F!Used) /\ fallEntries' = fallEntries
    BY <1>9, FallCards DEF F!Write, Drifted
  <2>2. F!Used' = F!Used
    BY <2>1 DEF F!Used
  <2>3. Cardinality(F!Used) \in Nat
    BY FallFinite
  <2>. QED
    BY <2>1, <2>2, <2>3 DEF FallCount
<1>10. ASSUME NEW c \in Callers, F!Clear(c) PROVE FallCount'
  <2>1. F!Clearing'
    <3>1. fallEvictMu = c /\ fallEvictMu' = c /\ c # Nothing
      BY <1>10 DEF F!Clear, F!At, FallMutex, FallHolding, FallConfigured
    <3>2. fallPc'[c] \in {"clear", "sum"}
      BY <1>10 DEF F!Clear, F!Walks, F!Goto, F!At, F!Goroutines, F!TypeOK
    <3>. QED
      BY <3>1, <3>2 DEF F!Clearing
  <2>2. fallSize' = fallSize /\ F!Used' = F!Used \ F!KeysIn(fallShard[c])
    BY <1>10 DEF F!Clear, F!Without, F!Used, F!TypeOK
  <2>3. F!KeysIn(fallShard[c]) \in SUBSET F!Used
    BY DEF F!KeysIn
  <2>4. Cardinality(F!KeysIn(fallShard[c])) \in Nat
        /\ Cardinality(F!Used \ F!KeysIn(fallShard[c]))
             = Cardinality(F!Used) - Cardinality(F!KeysIn(fallShard[c]))
    BY <2>3, FallSomeKeys
  <2>5. fallSize \in Int /\ Cardinality(F!Used) \in Nat /\ fallSize >= Cardinality(F!Used)
    BY FallFinite DEF F!TypeOK, FallCount
  <2>6. fallSize' >= Cardinality(F!Used')
    BY <2>2, <2>4, <2>5
  <2>. QED
    BY <2>1, <2>6 DEF FallCount
<1>11. ASSUME F!Tick \/ F!StopSweeper \/ F!Expire \/ F!Rest PROVE FallCount'
  <2>1. F!Clearing => F!Clearing'
    <3>1. Ticker \in F!Goroutines /\ fallEvictMu' = fallEvictMu
          /\ \A d \in F!Goroutines \ {Ticker} : fallPc'[d] = fallPc[d]
      BY <1>11 DEF F!Tick, F!StopSweeper, F!Expire, F!Rest, F!vars, F!Goto, F!Goroutines, F!TypeOK
    <3>. QED
      BY <3>1, FallClearingKept
  <2>2. fallSize' = fallSize /\ fallEntries' = fallEntries
    BY <1>11 DEF F!Tick, F!StopSweeper, F!Expire, F!Rest, F!vars
  <2>. QED
    BY <2>1, <2>2, FallCountSame
<1>. QED
  BY <1>1, <1>2, <1>3, <1>4, <1>5, <1>6, <1>7, <1>8, <1>9, <1>10, <1>11 DEF F!Next

-----------------------------------------------------------------------------
\* One goroutine moves; who owes an eviction follows it.
LEMMA FallMove ==
  ASSUME FallConfigured, NEW c \in Callers, \A d \in Callers \ {c} : fallPc'[d] = fallPc[d]
  PROVE  /\ (fallPc[c] \in FallOwing <=> fallPc'[c] \in FallOwing)
              => Cardinality(FallDebtors') = Cardinality(FallDebtors)
         /\ fallPc[c] \notin FallOwing /\ fallPc'[c] \in FallOwing
              => Cardinality(FallDebtors') = Cardinality(FallDebtors) + 1
         /\ fallPc[c] \in FallOwing /\ fallPc'[c] \notin FallOwing
              => Cardinality(FallDebtors') = Cardinality(FallDebtors) - 1
<1>1. FallDebtors \in SUBSET Callers /\ FallDebtors' \in SUBSET Callers /\ IsFiniteSet(Callers)
  BY DEF FallDebtors, FallConfigured
<1>2. \A d \in Callers \ {c} : d \in FallDebtors <=> d \in FallDebtors'
  BY DEF FallDebtors
<1>3. (c \in FallDebtors <=> fallPc[c] \in FallOwing) /\
      (c \in FallDebtors' <=> fallPc'[c] \in FallOwing)
  BY DEF FallDebtors
<1>. HIDE DEF FallDebtors
<1>4. /\ (c \in FallDebtors <=> c \in FallDebtors') =>
         Cardinality(FallDebtors') = Cardinality(FallDebtors)
      /\ c \in FallDebtors' /\
         c \notin FallDebtors => Cardinality(FallDebtors') = Cardinality(FallDebtors) + 1
      /\ c \in FallDebtors /\
         c \notin FallDebtors' => Cardinality(FallDebtors') = Cardinality(FallDebtors) - 1
  BY <1>1, <1>2, OneMoves
<1>. QED
  BY <1>3, <1>4

\* Whoever lost its candidate is among those who owe an eviction.
LEMMA FallBoundSmall ==
  ASSUME FallConfigured, Cardinality(F!Used') <= CacheSize PROVE FallBound'
<1>1. Cardinality(F!Used') \in Nat /\ IsFiniteSet(FallDebtors') /\ Cardinality(FallDebtors') \in Nat
  BY FallFinite
<1>2. ASSUME NEW c \in Callers, FallLost(c)' PROVE Cardinality(FallDebtors') >= 1
  <2>1. c \in FallDebtors'
    BY <1>2 DEF FallLost, FallDebtors, FallOwing
  <2>. HIDE DEF FallDebtors
  <2>2. Cardinality(FallDebtors') # 0
    BY <1>1, <2>1, FS_EmptySet
  <2>. QED
    BY <1>1, <2>2
<1>3. CacheSize \in Nat
  BY DEF FallConfigured
<1>4. \A c \in Callers : FallLost(c)' =>
      Cardinality(F!Used') < CacheSize + Cardinality(FallDebtors')
  BY <1>1, <1>2, <1>3
<1>5. Cardinality(F!Used') <= CacheSize + Cardinality(FallDebtors')
  BY <1>1, <1>3
<1>. QED
  BY <1>4, <1>5 DEF FallBound

\* Fewer entries, and nobody sees an eviction through without one.
LEMMA FallBoundFewer ==
  ASSUME FallConfigured, FallBound, Cardinality(FallDebtors') = Cardinality(FallDebtors),
         \/ Cardinality(F!Used') < Cardinality(F!Used)
         \/ /\ Cardinality(F!Used') = Cardinality(F!Used)
            /\ \A c \in Callers : FallLost(c)' =>
                 FallLost(c) \/ Cardinality(F!Used) < CacheSize + Cardinality(FallDebtors)
  PROVE  FallBound'
<1>. DEFINE u  == Cardinality(F!Used)
            uu == Cardinality(F!Used')
            d  == Cardinality(FallDebtors)
<1>1. u \in Nat /\ uu \in Nat /\ d \in Nat /\ CacheSize \in Nat
  BY FallFinite DEF FallConfigured
<1>2. u <= CacheSize + d /\ \A c \in Callers : FallLost(c) => u < CacheSize + d
  BY DEF FallBound
<1>3. CASE uu < u
  <2>1. uu <= CacheSize + d /\ uu < CacheSize + d
    <3>. HIDE DEF u, uu, d
    <3>. QED
      BY <1>1, <1>2, <1>3
  <2>. QED
    BY <2>1 DEF FallBound
<1>4. CASE /\ uu = u
           /\ \A c \in Callers : FallLost(c)' => FallLost(c) \/ u < CacheSize + d
  BY <1>2, <1>4 DEF FallBound
<1>. QED
  BY <1>3, <1>4

LEMMA FallBoundRemoves ==
  ASSUME FallConfigured, F!TypeOK, FallBound, Cardinality(FallDebtors') = Cardinality(FallDebtors),
         NEW Z \in SUBSET F!Used, fallEntries' = F!Without(Z),
         \A c \in Callers : /\ fallCold'[c].entry = fallCold[c].entry
                            /\ FallLost(c)' => fallPc[c] = fallPc'[c] /\
                               fallShard[c] = fallShard'[c]
  PROVE  FallBound'
<1>1. F!Used' = F!Used \ Z
  BY DEF F!Without, F!Used, F!TypeOK
<1>2. IsFiniteSet(Z) /\ Cardinality(Z) \in Nat /\ (Z # {} => Cardinality(Z) >= 1)
      /\ Cardinality(F!Used \ Z) = Cardinality(F!Used) - Cardinality(Z)
  BY FallSomeKeys
<1>3. Cardinality(F!Used) \in Nat
  BY FallFinite
<1>4. CASE Z # {}
  <2>1. Cardinality(F!Used') < Cardinality(F!Used)
    BY <1>1, <1>2, <1>3, <1>4
  <2>. QED
    BY <2>1, FallBoundFewer
<1>5. CASE Z = {}
  <2>1. F!Used' = F!Used /\ \A k \in CacheKeys : fallEntries'[k] = fallEntries[k]
    BY <1>1, <1>5 DEF F!Without
  <2>2. \A c \in Callers : FallLost(c)' => FallLost(c)
    BY <2>1 DEF FallLost
  <2>. QED
    BY <2>1, <2>2, FallBoundFewer
<1>. QED
  BY <1>4, <1>5

LEMMA FallBoundStep ==
  ASSUME FallConfigured, F!TypeOK, F!TypeOK', FallMutex, FallWalks, FallCount, FallBound, F!Next
  PROVE  FallBound'
<1>1. /\ Cardinality(F!Used) \in Nat /\ Cardinality(FallDebtors) \in Nat
      /\ Cardinality(F!Used') \in Nat /\ Cardinality(FallDebtors') \in Nat
      /\ CacheSize \in Nat /\ fallSize \in Int
  BY FallFinite DEF FallConfigured, F!TypeOK
\* Entries and candidates stay, and who moves is no debtor, or stays one.
<1>2. ASSUME NEW c \in Callers, \A d \in Callers \ {c} : fallPc'[d] = fallPc[d],
             fallPc[c] \in FallOwing <=> fallPc'[c] \in FallOwing,
             fallEntries' = fallEntries, \A d \in Callers : fallCold'[d].entry = fallCold[d].entry,
             \A d \in Callers \ {c} : fallShard'[d] = fallShard[d],
             FallLost(c)' =>
             FallLost(c) \/ Cardinality(F!Used) < CacheSize + Cardinality(FallDebtors)
      PROVE  FallBound'
  <2>1. Cardinality(FallDebtors') = Cardinality(FallDebtors)
    BY <1>2, FallMove
  <2>2. F!Used' = F!Used
    BY <1>2 DEF F!Used
  <2>3. \A d \in Callers \ {c} : FallLost(d)' => FallLost(d)
    BY <1>2, <2>2 DEF FallLost
  <2>. QED
    BY <1>2, <2>1, <2>2, <2>3, FallBoundFewer
\* The count is within the bound.
<1>3. ASSUME ~F!Over, fallEntries' = fallEntries PROVE FallBound'
  <2>1. F!Used' = F!Used
    BY <1>3 DEF F!Used
  <2>2. Cardinality(F!Used) <= CacheSize
    BY <1>1, <1>3 DEF F!Over, FallCount
  <2>. QED
    BY <2>1, <2>2, FallBoundSmall
<1>4. ASSUME NEW c \in Callers,
             F!Enter(c) \/ F!Close(c) \/ F!Lock(c) \/ F!Refresh(c) \/ F!Sum(c) \/ F!Write(c)
      PROVE  FallBound'
  <2>1. /\ \A d \in Callers \ {c} : fallPc'[d] = fallPc[d] /\ fallShard'[d] = fallShard[d]
        /\ fallPc[c] \in FallOwing <=> fallPc'[c] \in FallOwing
        /\ fallPc'[c] \notin {"pick", "evict"}
    BY <1>4 DEF F!Enter, F!Close, F!Lock, F!Refresh, F!Sum, F!Write, F!Unlocks, F!Walks, F!walks,
                F!At,
         F!Goto, F!TypeOK, F!Goroutines, FallOwing
  <2>2. fallEntries' = fallEntries
    BY <1>4 DEF F!Enter, F!Close, F!Lock, F!Refresh, F!Sum, F!Write
  <2>3. \A d \in Callers : fallCold'[d].entry = fallCold[d].entry
    <3>1. CASE F!Refresh(c)
      <4>1. fallEntries[fallKey[c]] \in Callers /\ F!Touches(fallEntries[fallKey[c]])
        BY <3>1 DEF F!Refresh, F!Used, F!TypeOK
      <4>. QED
        BY <4>1, FallTouches
    <3>2. CASE ~F!Refresh(c)
      BY <1>4, <3>2 DEF F!Enter, F!Close, F!Lock, F!Sum, F!Write, F!walks
    <3>. QED
      BY <3>1, <3>2
  <2>4. ~FallLost(c)'
    BY <2>1 DEF FallLost
  <2>. QED
    BY <1>2, <2>1, <2>2, <2>3, <2>4
<1>5. ASSUME NEW c \in Callers, F!Look(c) \/ F!Check(c) PROVE FallBound'
  <2>1. fallEntries' = fallEntries
    BY <1>5 DEF F!Look, F!Check
  <2>2. CASE F!Over
    <3>1. /\ \A d \in Callers \ {c} : fallPc'[d] = fallPc[d] /\ fallShard'[d] = fallShard[d]
          /\ fallPc[c] \in FallOwing /\ fallPc'[c] \in FallOwing
          /\ fallPc'[c] \notin {"pick", "evict"} /\ fallCold' = fallCold
      BY <1>5, <2>2 DEF F!Look, F!Check, F!walks, F!At, F!Goto, F!TypeOK, F!Goroutines, FallOwing
    <3>2. ~FallLost(c)'
      BY <3>1 DEF FallLost
    <3>. QED
      BY <1>2, <2>1, <3>1, <3>2
  <2>. QED
    BY <1>3, <2>1, <2>2
<1>6. ASSUME NEW c \in Callers, F!Loop(c) PROVE FallBound'
  <2>1. fallEntries' = fallEntries
    BY <1>6 DEF F!Loop
  <2>2. CASE F!Over
    <3>1. /\ \A d \in Callers \ {c} : fallPc'[d] = fallPc[d] /\ fallShard'[d] = fallShard[d]
          /\ fallPc[c] = "loop" /\ fallPc'[c] = "pick" /\ fallCold' = fallCold /\
             fallShard' = fallShard
      BY <1>6, <2>2 DEF F!Loop, F!walks, F!At, F!Goto, F!TypeOK, F!Goroutines
    <3>2. fallCold[c].entry = Nothing /\ fallShard[c] = 1
      BY <3>1 DEF FallWalks
    <3>3. ASSUME FallLost(c)' PROVE Cardinality(F!Used) < CacheSize + Cardinality(FallDebtors)
      <4>1. \A k \in F!Used' : CacheShardOf[k] < 1
        BY <3>1, <3>2, <3>3 DEF FallLost
      <4>2. F!Used = {} /\ c \in FallDebtors
        BY <2>1, <3>1, <4>1 DEF F!Used, FallConfigured, FallDebtors, FallOwing
      <4>. HIDE DEF FallDebtors
      <4>3. Cardinality(F!Used) = 0 /\ Cardinality(FallDebtors) # 0
        BY <4>2, FallFinite, FS_EmptySet
      <4>. QED
        BY <1>1, <4>3
    <3>4. fallPc[c] \in FallOwing /\ fallPc'[c] \in FallOwing
      BY <3>1 DEF FallOwing
    <3>. QED
      BY <1>2, <2>1, <3>1, <3>3, <3>4
  <2>. QED
    BY <1>3, <2>1, <2>2
<1>7. ASSUME NEW c \in Callers, F!Pick(c) PROVE FallBound'
  <2>1. /\ fallPc[c] = "pick" /\ fallEntries' = fallEntries /\ F!Used' = F!Used
        /\ fallEvictMu = c /\ \A d \in Callers \ {c} : fallPc[d] \notin {"pick", "evict"}
    BY <1>7 DEF F!Pick, F!At, F!Used, FallMutex, FallHolding
  <2>2. /\ \A d \in Callers \ {c} : /\ fallPc'[d] = fallPc[d] /\ fallShard'[d] = fallShard[d]
                                    /\ fallCold'[d] = fallCold[d]
        /\ \/ fallPc'[c] = "pick" /\ fallShard'[c] = fallShard[c] + 1
           \/ fallShard[c] >= CacheShards /\
              fallPc'[c] = IF fallCold'[c].entry = Nothing THEN "sum" ELSE "evict"
    BY <1>7, <2>1 DEF F!Pick, F!Walks, F!Goto, F!TypeOK, F!Goroutines, FallConfigured
  <2>3. \A d \in Callers \ {c} : ~FallLost(d)'
    BY <2>1, <2>2 DEF FallLost
  \* A candidate was taken: it is there.
  <2>4. ASSUME NEW k \in F!Used, fallCold'[c].entry = fallEntries[k] PROVE FallBound'
    <3>1. fallCold'[c].entry # Nothing /\ k \in CacheKeys /\ fallEntries'[k] = fallEntries[k]
      BY <2>1, <2>4 DEF F!Used
    <3>2. ~FallLost(c)' /\ fallPc'[c] \in {"pick", "evict"}
      BY <2>2, <2>4, <3>1 DEF FallLost
    <3>3. fallPc[c] \in FallOwing /\ fallPc'[c] \in FallOwing
      BY <2>1, <3>2 DEF FallOwing
    <3>4. Cardinality(FallDebtors') = Cardinality(FallDebtors)
      BY <2>2, <3>3, FallMove
    <3>. QED
      BY <2>1, <2>3, <3>2, <3>4, FallBoundFewer
  \* The candidate stays, and is gone or not.
  <2>5. ASSUME fallCold' = fallCold, fallCold[c].entry # Nothing PROVE FallBound'
    <3>1. fallPc'[c] \in {"pick", "evict"}
      BY <2>2, <2>5
    <3>2. FallLost(c)' => FallLost(c)
      BY <2>1, <2>5, <3>1 DEF FallLost
    <3>3. fallPc[c] \in FallOwing /\ fallPc'[c] \in FallOwing
      BY <2>1, <3>1 DEF FallOwing
    <3>4. Cardinality(FallDebtors') = Cardinality(FallDebtors)
      BY <2>2, <3>3, FallMove
    <3>. QED
      BY <2>1, <2>3, <3>2, <3>4, FallBoundFewer
  \* There is none yet, and none in this shard.
  <2>6. ASSUME fallCold' = fallCold, fallCold[c].entry = Nothing, F!KeysIn(fallShard[c]) = {}
        PROVE  FallBound'
    <3>1. \A k \in F!Used : CacheShardOf[k] \in 1 .. CacheShards /\ CacheShardOf[k] # fallShard[c]
      BY <2>6 DEF F!KeysIn, F!Used, FallConfigured
    <3>2. fallShard[c] \in 1 .. CacheShards + 1 /\ CacheShards \in Nat
      BY DEF F!TypeOK, F!Goroutines, FallConfigured
    <3>3. CASE fallPc'[c] = "pick" /\ fallShard'[c] = fallShard[c] + 1
      <4>1. FallLost(c)' => FallLost(c)
        BY <2>1, <2>6, <3>1, <3>2, <3>3 DEF FallLost
      <4>2. fallPc[c] \in FallOwing /\ fallPc'[c] \in FallOwing
        BY <2>1, <3>3 DEF FallOwing
      <4>3. Cardinality(FallDebtors') = Cardinality(FallDebtors)
        BY <2>2, <4>2, FallMove
      <4>. QED
        BY <2>1, <2>3, <4>1, <4>3, FallBoundFewer
    <3>4. CASE fallShard[c] >= CacheShards /\ fallPc'[c] = "sum"
      <4>1. FallLost(c)
        BY <2>1, <2>6, <3>1, <3>2, <3>4 DEF FallLost
      <4>2. Cardinality(F!Used) < CacheSize + Cardinality(FallDebtors)
        BY <4>1 DEF FallBound
      <4>3. fallPc[c] \in FallOwing /\ fallPc'[c] \notin FallOwing
        BY <2>1, <3>4 DEF FallOwing
      <4>4. Cardinality(FallDebtors') = Cardinality(FallDebtors) - 1
        BY <2>2, <4>3, FallMove
      <4>5. ~FallLost(c)'
        BY <3>4, <2>6 DEF FallLost
      <4>6. Cardinality(F!Used') <= CacheSize + Cardinality(FallDebtors')
        BY <1>1, <2>1, <4>2, <4>4
      <4>. QED
        BY <2>3, <4>5, <4>6 DEF FallBound
    <3>. QED
      BY <2>2, <2>6, <3>3, <3>4
  <2>7. \/ fallCold' = fallCold
        \/ \E k \in F!Used : fallCold'[c].entry = fallEntries[k]
    BY <1>7 DEF F!Pick, F!Roots, F!KeysIn, F!TypeOK
  <2>8. fallCold' = fallCold /\ fallCold[c].entry = Nothing
          => F!KeysIn(fallShard[c]) = {} \/ \E k \in F!Used : fallCold'[c].entry = fallEntries[k]
    BY <1>7 DEF F!Pick, F!Roots, F!KeysIn, F!Colder, F!TypeOK
  <2>. QED
    BY <2>4, <2>5, <2>6, <2>7, <2>8
<1>8. ASSUME NEW c \in Callers, F!Evict(c) PROVE FallBound'
  <2>1. /\ fallPc[c] = "evict" /\ fallEvictMu = c /\ fallCold[c].entry # Nothing
        /\ \A d \in Callers \ {c} : fallPc[d] \notin {"pick", "evict"}
    BY <1>8 DEF F!Evict, F!At, FallMutex, FallHolding, FallWalks
  <2>2. /\ \A d \in Callers \ {c} : fallPc'[d] = fallPc[d]
        /\ fallPc'[c] = IF F!Victim(c) # {} THEN "loop" ELSE "sum"
    BY <1>8 DEF F!Evict, F!Goto, F!TypeOK, F!Goroutines
  <2>3. \A d \in Callers : ~FallLost(d)'
    BY <2>1, <2>2 DEF FallLost
  <2>4. F!Victim(c) \in SUBSET F!Used /\ F!Removes(F!Victim(c))
    BY <1>8 DEF F!Evict, F!Victim
  <2>5. F!Used' = F!Used \ F!Victim(c)
    BY <2>4, FallRemoves
  <2>6. CASE F!Victim(c) # {}
    <3>1. Cardinality(F!Used') < Cardinality(F!Used)
      <4>1. /\ Cardinality(F!Used \ F!Victim(c)) = Cardinality(F!Used) - Cardinality(F!Victim(c))
            /\ Cardinality(F!Victim(c)) \in Nat /\ Cardinality(F!Victim(c)) >= 1
        BY <2>4, <2>6, FallSomeKeys
      <4>. QED
        BY <1>1, <2>5, <4>1
    <3>2. fallPc[c] \in FallOwing /\ fallPc'[c] \in FallOwing
      BY <2>1, <2>2, <2>6 DEF FallOwing
    <3>3. Cardinality(FallDebtors') = Cardinality(FallDebtors)
      BY <2>2, <3>2, FallMove
    <3>. QED
      BY <3>1, <3>3, FallBoundFewer
  <2>7. CASE F!Victim(c) = {}
    <3>1. FallLost(c)
      BY <2>1, <2>7 DEF FallLost, F!Victim, F!Used
    <3>2. Cardinality(F!Used) < CacheSize + Cardinality(FallDebtors) /\ F!Used' = F!Used
      BY <2>5, <2>7, <3>1 DEF FallBound
    <3>3. fallPc[c] \in FallOwing /\ fallPc'[c] \notin FallOwing
      BY <2>1, <2>2, <2>7 DEF FallOwing
    <3>4. Cardinality(FallDebtors') = Cardinality(FallDebtors) - 1
      BY <2>2, <3>3, FallMove
    <3>5. Cardinality(F!Used') <= CacheSize + Cardinality(FallDebtors')
      BY <1>1, <3>2, <3>4
    <3>. QED
      BY <2>3, <3>5 DEF FallBound
  <2>. QED
    BY <2>6, <2>7
<1>9. ASSUME NEW c \in Callers, F!Insert(c) PROVE FallBound'
  <2>1. /\ Cardinality(F!Used') = Cardinality(F!Used) + 1
        /\ fallKey[c] \in CacheKeys /\ fallKey[c] \notin F!Used
    BY <1>9, FallInserts
  <2>2. /\ \A d \in Callers \ {c} : fallPc'[d] = fallPc[d]
        /\ fallPc[c] = "store" /\ fallPc'[c] = "look" /\ fallShard' = fallShard
    BY <1>9 DEF F!Insert, F!At, F!Goto, F!TypeOK, F!Goroutines
  <2>3. Cardinality(FallDebtors') = Cardinality(FallDebtors) + 1
    <3>1. fallPc[c] \notin FallOwing /\ fallPc'[c] \in FallOwing
      BY <2>2 DEF FallOwing
    <3>. QED
      BY <2>2, <3>1, FallMove
  <2>4. \A d \in Callers : fallCold'[d].entry = fallCold[d].entry
    BY <1>9, FallTouches DEF F!Insert
  <2>5. \A k \in F!Used : k \in CacheKeys /\ k # fallKey[c] /\ fallEntries'[k] = fallEntries[k] /\
        k \in F!Used'
    BY <1>9, <2>1 DEF F!Insert, F!Used, F!TypeOK
  <2>6. ASSUME NEW d \in Callers, FallLost(d)' PROVE FallLost(d)
    <3>1. d # c /\ fallPc'[d] = fallPc[d]
      BY <2>2, <2>6 DEF FallLost
    <3>2. CASE fallCold[d].entry = Nothing
      BY <2>2, <2>4, <2>5, <2>6, <3>1, <3>2 DEF FallLost
    <3>3. CASE fallCold[d].entry # Nothing
      <4>1. fallPc[d] \in {"pick", "evict"} /\
            \A k \in CacheKeys : fallEntries'[k] # fallCold[d].entry
        BY <2>4, <2>6, <3>1, <3>3 DEF FallLost
      <4>2. \A k \in CacheKeys : fallEntries[k] # fallCold[d].entry
        <5>1. \A k \in CacheKeys : k \notin F!Used => fallEntries[k] = Nothing
          BY DEF F!Used
        <5>. QED
          BY <2>5, <3>3, <4>1, <5>1
      <4>. QED
        BY <3>3, <4>1, <4>2 DEF FallLost
    <3>. QED
      BY <3>2, <3>3
  <2>7. Cardinality(F!Used') <= CacheSize + Cardinality(FallDebtors')
    BY <1>1, <2>1, <2>3 DEF FallBound
  <2>8. ASSUME NEW d \in Callers, FallLost(d)'
        PROVE  Cardinality(F!Used') < CacheSize + Cardinality(FallDebtors')
    <3>1. Cardinality(F!Used) < CacheSize + Cardinality(FallDebtors)
      BY <2>6, <2>8 DEF FallBound
    <3>. QED
      BY <1>1, <2>1, <2>3, <3>1
  <2>. QED
    BY <2>7, <2>8 DEF FallBound
<1>10. ASSUME NEW c \in Callers, F!Get(c) PROVE FallBound'
  <2>1. /\ \A d \in Callers \ {c} : fallPc'[d] = fallPc[d]
        /\ fallPc[c] = "get" /\ fallPc'[c] = "done" /\ fallShard' = fallShard
    BY <1>10 DEF F!Get, F!At, F!Goto, F!TypeOK, F!Goroutines
  <2>2. ~FallLost(c)' /\ \A d \in Callers : FallLost(d)' => fallPc[d] = fallPc'[d]
    BY <2>1 DEF FallLost
  <2>3. fallPc[c] \notin FallOwing /\ fallPc'[c] \notin FallOwing
    BY <2>1 DEF FallOwing
  <2>. DEFINE Z == {k \in {fallKey[c]} \cap F!Used : fallEntries[k] \in fallExpired}
  <2>4. CASE F!Removes(Z) /\ fallCold' = fallCold
    <3>1. Z \in SUBSET F!Used
      OBVIOUS
    <3>. HIDE DEF Z
    <3>2. fallEntries' = F!Without(Z)
      BY <2>4 DEF F!Removes
    <3>3. Cardinality(FallDebtors') = Cardinality(FallDebtors)
      BY <2>1, <2>3, FallMove
    <3>. QED
      BY <2>1, <2>2, <2>4, <3>1, <3>2, <3>3, FallBoundRemoves
  <2>5. CASE fallEntries' = fallEntries /\ \A d \in Callers : fallCold'[d].entry = fallCold[d].entry
    BY <1>2, <2>1, <2>2, <2>3, <2>5
  <2>6. CASE fallKey[c] \in F!Used /\ F!Touches(fallEntries[fallKey[c]]) /\
        fallEntries' = fallEntries
    <3>1. fallEntries[fallKey[c]] \in Callers
      BY <2>6 DEF F!Used, F!TypeOK
    <3>2. \A d \in Callers : fallCold'[d].entry = fallCold[d].entry
      BY <2>6, <3>1, FallTouches
    <3>. QED
      BY <2>5, <2>6, <3>2
  <2>. QED
    BY <1>10, <2>4, <2>5, <2>6 DEF F!Get
<1>11. ASSUME NEW g \in F!Goroutines, F!Sweep(g) PROVE FallBound'
  <2>1. F!Stale(fallShard[g]) \in SUBSET F!Used /\ fallEntries' = F!Without(F!Stale(fallShard[g]))
    BY <1>11 DEF F!Sweep, F!Stale, F!KeysIn, F!Removes
  <2>2. /\ \A d \in F!Goroutines \ {g} : fallPc'[d] = fallPc[d] /\ fallShard'[d] = fallShard[d]
        /\ fallPc[g] = "sweep" /\ fallPc'[g] \in {"sweep", IF g = Ticker THEN "idle" ELSE "loop"}
        /\ fallCold' = fallCold
    BY <1>11 DEF F!Sweep, F!Walks, F!At, F!Goto, F!TypeOK
  <2>3. Cardinality(FallDebtors') = Cardinality(FallDebtors)
    <3>1. \A d \in Callers : fallPc[d] \in FallOwing <=> fallPc'[d] \in FallOwing
      BY <2>2 DEF FallOwing, F!Goroutines, FallConfigured
    <3>2. FallDebtors' = FallDebtors
      BY <3>1 DEF FallDebtors
    <3>. QED
      BY <3>2
  <2>4. \A d \in Callers : FallLost(d)' => fallPc[d] = fallPc'[d] /\ fallShard[d] = fallShard'[d]
    BY <2>2 DEF FallLost, F!Goroutines, FallConfigured
  <2>. HIDE DEF FallDebtors
  <2>. QED
    BY <2>1, <2>2, <2>3, <2>4, FallBoundRemoves
<1>12. ASSUME NEW c \in Callers, F!Clear(c) PROVE FallBound'
  <2>1. F!KeysIn(fallShard[c]) \in SUBSET F!Used /\ fallEntries' = F!Without(F!KeysIn(fallShard[c]))
    BY <1>12 DEF F!Clear, F!KeysIn
  <2>2. /\ \A d \in Callers \ {c} : fallPc'[d] = fallPc[d] /\ fallShard'[d] = fallShard[d]
        /\ fallPc[c] = "clear" /\ fallPc'[c] \in {"clear", "sum"} /\ fallCold' = fallCold
    BY <1>12 DEF F!Clear, F!Walks, F!At, F!Goto, F!TypeOK, F!Goroutines
  <2>3. fallPc[c] \notin FallOwing /\ fallPc'[c] \notin FallOwing
    BY <2>2 DEF FallOwing
  <2>4. Cardinality(FallDebtors') = Cardinality(FallDebtors)
    BY <2>2, <2>3, FallMove
  <2>5. \A d \in Callers : FallLost(d)' => fallPc[d] = fallPc'[d] /\ fallShard[d] = fallShard'[d]
    BY <2>2 DEF FallLost
  <2>. QED
    BY <2>1, <2>2, <2>4, <2>5, FallBoundRemoves
<1>13. ASSUME F!Tick \/ F!StopSweeper \/ F!Expire \/ F!Rest PROVE FallBound'
  <2>1. /\ \A d \in Callers : fallPc'[d] = fallPc[d] /\ fallShard' = fallShard /\
           fallCold' = fallCold
        /\ fallEntries' = fallEntries
    BY <1>13 DEF F!Tick, F!StopSweeper, F!Expire, F!Rest, F!vars, F!walks, F!Goto, F!Goroutines,
                 F!TypeOK,
         FallConfigured
  <2>2. FallDebtors' = FallDebtors /\ F!Used' = F!Used
    BY <2>1 DEF FallDebtors, F!Used
  <2>3. \A c \in Callers : FallLost(c)' => FallLost(c)
    BY <2>1, <2>2 DEF FallLost
  <2>. QED
    BY <2>2, <2>3 DEF FallBound
<1>. QED
  BY <1>4, <1>5, <1>6, <1>7, <1>8, <1>9, <1>10, <1>11, <1>12, <1>13 DEF F!Next

LEMMA FallStep == ASSUME FallConfigured, FallInv, ~Drifted, F!Next PROVE FallInv'
<1>1. F!TypeOK /\ FallMutex /\ FallWalks /\ FallCount /\ FallBound
  BY DEF FallInv
<1>2. F!TypeOK'
  BY <1>1, FallTypesStep
<1>3. FallMutex' /\ FallWalks'
  BY <1>1, FallMutexStep, FallWalksStep
<1>4. FallBound'
  BY <1>1, <1>2, FallBoundStep
<1>5. ~Drifted' => FallCount'
  BY <1>1, FallCountStep
<1>. QED
  BY <1>2, <1>3, <1>4, <1>5 DEF FallInv

LEMMA FallStutter == ASSUME FallInv, UNCHANGED F!vars PROVE FallInv'
<1>1. F!TypeOK' /\ F!Used' = F!Used /\ FallDebtors' = FallDebtors /\ (F!Clearing' <=> F!Clearing)
  BY DEF FallInv, F!vars, F!walks, F!TypeOK, F!Used, FallDebtors, F!Clearing
<1>2. FallMutex' /\ FallWalks'
  BY DEF FallInv, F!vars, F!walks, FallMutex, FallWalks
<1>3. \A c \in Callers : FallLost(c)' <=> FallLost(c)
  BY <1>1 DEF F!vars, F!walks, FallLost
<1>4. ~Drifted' => FallCount' /\ FallBound'
  BY <1>1, <1>3 DEF FallInv, F!vars, Drifted, FallCount, FallBound
<1>. QED
  BY <1>1, <1>2, <1>4 DEF FallInv

LEMMA FallInvariant == ASSUME FallConfigured PROVE Spec => [](package = "fall" => FallInv)
<1>1. Init => (package = "fall" => FallInv)
  BY FallStart, StartOfPackage
<1>2. UNCHANGED vars => UNCHANGED F!vars
  BY DEF vars, F!vars, F!walks
<1>3. (package = "fall" => FallInv) /\ [Next]_vars => (package = "fall" => FallInv)'
  BY <1>2, FallStep, FallStutter, StepOfPackage
<1>. QED
  BY <1>1, <1>3, PTL DEF Spec

\* Once all calls have returned nobody owes an eviction.
LEMMA FallBalances == FallConfigured /\ FallInv => F!TypeOK /\ F!SizeExact /\ F!SettlesWithinBound
<1>. SUFFICES ASSUME FallConfigured, FallInv PROVE F!SizeExact /\ F!SettlesWithinBound
  BY DEF FallInv
<1>1. F!SizeExact
  BY FallCards DEF FallInv, FallCount, F!SizeExact, Drifted
<1>2. F!SettlesWithinBound
  <2>. SUFFICES ASSUME F!Quiet, ~Drifted PROVE F!Cardinality(F!Used) <= CacheSize
    BY DEF F!SettlesWithinBound, Drifted
  <2>1. FallDebtors = {}
    BY DEF FallDebtors, FallOwing, F!Quiet, F!At
  <2>2. Cardinality(FallDebtors) = 0
    BY <2>1, FS_EmptySet
  <2>3. CacheSize + 0 = CacheSize
    BY DEF FallConfigured
  <2>. QED
    BY <2>2, <2>3, FallCards DEF FallInv, FallBound
<1>. QED
  BY <1>1, <1>2

HIDE DEF fallDrifted, fallEntries, fallExpired, fallOlder, fallSize, fallEvictMu,
         fallClosed, fallStop, fallPc, fallKey, fallShard, fallCold, fallSum

-----------------------------------------------------------------------------
\* shedx: the count is the number of claims; ratex: no token is made, and allowed counts
\* the calls that keep theirs; fallx: every call is in one of the counters, and the cache
\* settles within its capacity, unless a recount went wrong (tryReserve, take, refund,
\* ExecuteWithKey, evictIfNeeded).
THEOREM AccountsAlwaysBalance ==
  ASSUME ShedConfigured, RateConfigured, FbConfigured, FallConfigured
  PROVE  Spec => []AccountsBalance
<1>1. ShedInv => S!TypeOK /\ S!CountIsExact
  BY DEF ShedInv
<1>2. RateInv => R!TypeOK /\ R!NoTokenMade /\ R!AllowedExact
  BY RateBalances
<1>3. FallInv => F!TypeOK /\ F!SizeExact /\ F!SettlesWithinBound
  BY FallBalances
<1>4. /\ package = "shed" => ShedInv
      /\ package = "rate" => RateInv
      /\ package = "fallback" => FbInv
      /\ package = "fall" => FallInv
      => AccountsBalance
  BY <1>1, <1>2, <1>3, FbBalances DEF AccountsBalance
<1>. QED
  BY <1>4, ShedInvariant, RateInvariant, FbInvariant, FallInvariant, PTL

-----------------------------------------------------------------------------
(* warmupx: what a ramp reached is not taken back, and what a call is told *)
(* goes together.                                                          *)

rampStrategy == x1
rampStarted  == x2
rampElapsed  == x3
rampCapacity == x4
rampProgress == x5
rampWarming  == x6
rampComplete == x7
rampClosed   == x8
rampAllowed  == x9
rampRejected == x10
rampPc       == x11
rampTold     == x12
rampPeak     == x13
rampShown    == x14
USE DEF rampStrategy, rampStarted, rampElapsed, rampCapacity, rampProgress, rampWarming,
        rampComplete, rampClosed, rampAllowed, rampRejected, rampPc, rampTold, rampPeak, rampShown

\* newConfig lets no maximum through that is below the minimum, and only positive
\* durations and counts of steps.  The units of capacity and time are so fine that every
\* capacity has a time on the line, and every step a capacity and a time.
RampDelta == RampMax - RampMin
RampConfigured ==
  /\ IsFiniteSet(RampCalls)
  /\ RampMin \in Int /\ RampMax \in Int /\ RampMin <= RampMax
  /\ RampTime \in Nat /\ RampTime > 0 /\ RampSteps \in Nat /\ RampSteps > 0
  /\ \E h \in Nat : RampDelta = RampSteps * h
  /\ \E d \in Nat : RampTime = RampSteps * d
  /\ RampDelta > 0 => \E q \in Nat : RampTime = RampDelta * q

\* Y!Calculate, Y!Invert and Y!Within, of a strategy.
RampAt(s, t) ==
  IF s = "linear" THEN RampMin + (RampDelta * t) \div RampTime
                  ELSE RampMin + (RampDelta \div RampSteps) * ((RampSteps * t) \div RampTime)
RampInverse(s, c) ==
  IF s = "linear" THEN (RampTime * (c - RampMin)) \div RampDelta
  ELSE (RampTime \div RampSteps)
       * ((2 * ((c - RampMin) * RampSteps) + RampDelta) \div (2 * RampDelta))
RampNear(s, high, low) ==
  IF s = "linear" THEN high <= low ELSE 2 * RampSteps * (high - low) <= RampDelta

LEMMA Quotient ==
  ASSUME NEW a \in Int, NEW b \in Int, b > 0
  PROVE  a \div b \in Int /\ b * (a \div b) <= a /\ a < b * (a \div b) + b
  OBVIOUS

LEMMA QuotientIs ==
  ASSUME NEW a \in Int, NEW b \in Int, b > 0, NEW k \in Int, b * k <= a, a < b * k + b
  PROVE  a \div b = k
  OBVIOUS

LEMMA QuotientGrows ==
  ASSUME NEW a \in Int, NEW b \in Int, b > 0, NEW c \in Int, a <= c PROVE a \div b <= c \div b
  OBVIOUS

LEMMA ProductGrows ==
  ASSUME NEW a \in Int, NEW b \in Int, a <= b, NEW c \in Int, c >= 0
  PROVE  a * c \in Int /\ b * c \in Int /\ a * c <= b * c /\ c * a <= c * b
  OBVIOUS

\* The line and its inverse.
LEMMA RampLine ==
  ASSUME NEW z \in Nat, NEW q \in Nat, z > 0, z * q > 0, NEW x \in Nat, x <= z
  PROVE  /\ ((z * q) * x) \div z = q * x /\ q * x \in Nat /\ q * x <= z * q
         /\ (z * (q * x)) \div (z * q) = x
<1>1. /\ z * q \in Nat /\ q * x \in Nat /\ (z * q) * x \in Int /\ z * (q * x) \in Int
  OBVIOUS
<1>2. (z * q) * x = z * (q * x) /\ z * (q * x) = (z * q) * x
  OBVIOUS
<1>3. ((z * q) * x) \div z = q * x
  BY <1>1, <1>2, QuotientIs
<1>4. (z * (q * x)) \div (z * q) = x
  BY <1>1, <1>2, QuotientIs
<1>5. q * x <= z * q
  BY ProductGrows
<1>. QED
  BY <1>1, <1>3, <1>4, <1>5

\* The curve starts at the minimum, does not fall, and ends at the maximum.
LEMMA RampCurve ==
  ASSUME RampConfigured, NEW s
  PROVE  /\ \A t \in 0 .. RampTime : RampAt(s, t) \in RampMin .. RampMax
         /\ \A t, u \in 0 .. RampTime : t <= u => RampAt(s, t) <= RampAt(s, u)
         /\ RampAt(s, 0) = RampMin /\ RampAt(s, RampTime) = RampMax
<1>1. /\ RampDelta \in Nat /\ RampMax = RampMin + RampDelta /\ RampMin \in Int
      /\ RampTime \in Nat /\ RampTime > 0 /\ RampSteps \in Nat /\ RampSteps > 0
  BY DEF RampConfigured, RampDelta
<1>2. PICK h \in Nat : RampDelta = RampSteps * h
  BY DEF RampConfigured
<1>. HIDE DEF RampConfigured, RampDelta
<1>3. RampDelta \div RampSteps = h
  BY <1>1, <1>2, QuotientIs
<1>4. \A n \in Nat : (n * RampTime) \div RampTime = n /\ (n * 0) \div RampTime = 0
  BY <1>1, QuotientIs
<1>5. ASSUME NEW n \in Nat, NEW t \in 0 .. RampTime
      PROVE  (n * t) \div RampTime \in 0 .. n
  <2>1. n * 0 <= n * t /\ n * t <= n * RampTime /\ n * t \in Int /\ n * RampTime \in Int
    BY <1>1, ProductGrows
  <2>2. (n * 0) \div RampTime <= (n * t) \div RampTime
    BY <1>1, <2>1, QuotientGrows
  <2>3. (n * t) \div RampTime <= (n * RampTime) \div RampTime
    BY <1>1, <2>1, QuotientGrows
  <2>4. (n * t) \div RampTime \in Int
    BY <1>1, <2>1, Quotient
  <2>. QED
    BY <1>4, <2>2, <2>3, <2>4
<1>6. ASSUME NEW n \in Nat, NEW t \in 0 .. RampTime, NEW u \in 0 .. RampTime, t <= u
      PROVE  (n * t) \div RampTime <= (n * u) \div RampTime
  <2>1. n * t <= n * u /\ n * t \in Int /\ n * u \in Int
    BY <1>1, <1>6, ProductGrows
  <2>. QED
    BY <1>1, <2>1, QuotientGrows
<1>7. CASE s = "linear"
  BY <1>1, <1>4, <1>5, <1>6, <1>7 DEF RampAt
<1>8. CASE s # "linear"
  <2>1. \A t : RampAt(s, t) = RampMin + h * ((RampSteps * t) \div RampTime)
    BY <1>3, <1>8 DEF RampAt
  <2>2. \A k \in 0 .. RampSteps : h * k \in Nat /\ h * k <= h * RampSteps
    BY <1>1, ProductGrows
  <2>3. h * RampSteps = RampDelta /\ h * 0 = 0
    BY <1>1, <1>2
  <2>4. \A t \in 0 .. RampTime : RampAt(s, t) \in RampMin .. RampMax
    BY <1>1, <1>5, <2>1, <2>2, <2>3
  <2>5. RampAt(s, 0) = RampMin /\ RampAt(s, RampTime) = RampMax
    BY <1>1, <1>4, <2>1, <2>3
  <2>6. ASSUME NEW t \in 0 .. RampTime, NEW u \in 0 .. RampTime, t <= u
        PROVE  RampAt(s, t) <= RampAt(s, u)
    <3>. DEFINE i == (RampSteps * t) \div RampTime
                j == (RampSteps * u) \div RampTime
    <3>1. i \in 0 .. RampSteps /\ j \in 0 .. RampSteps /\ i <= j
      BY <1>1, <1>5, <1>6, <2>6
    <3>2. RampAt(s, t) = RampMin + h * i /\ RampAt(s, u) = RampMin + h * j
      BY <2>1
    <3>. HIDE DEF i, j
    <3>3. h * i <= h * j /\ h * i \in Int /\ h * j \in Int
      BY <1>1, <3>1, ProductGrows
    <3>. QED
      BY <1>1, <3>2, <3>3
  <2>. QED
    BY <2>4, <2>5, <2>6
<1>. QED
  BY <1>7, <1>8

\* StartAt goes on from the time at which the curve has its capacity, or nearly so.
LEMMA RampBackdates ==
  ASSUME RampConfigured, NEW s, NEW c \in RampMin .. RampMax, c < RampMax
  PROVE  /\ RampInverse(s, c) \in 0 .. RampTime
         /\ RampNear(s, c, RampAt(s, RampInverse(s, c)))
<1>. DEFINE x == c - RampMin
<1>1. /\ RampDelta \in Nat /\ RampDelta > 0 /\ RampMin \in Int /\ c \in Int
      /\ x \in Nat /\ x <= RampDelta /\ c = RampMin + x
      /\ RampTime \in Nat /\ RampTime > 0 /\ RampSteps \in Nat /\ RampSteps > 0
  BY DEF RampConfigured, RampDelta
<1>2. PICK h \in Nat : RampDelta = RampSteps * h
  BY DEF RampConfigured
<1>3. PICK d \in Nat : RampTime = RampSteps * d
  BY DEF RampConfigured
<1>4. PICK q \in Nat : RampTime = RampDelta * q
  BY <1>1 DEF RampConfigured
<1>5. RampInverse(s, c) = IF s = "linear" THEN (RampTime * x) \div RampDelta
        ELSE (RampTime \div RampSteps)
             * ((2 * (x * RampSteps) + RampDelta) \div (2 * RampDelta))
  BY DEF RampInverse
<1>. HIDE DEF RampConfigured, RampDelta, x
<1>6. CASE s = "linear"
  <2>1. (RampTime * x) \div RampDelta = q * x /\ q * x \in Nat /\ q * x <= RampTime
    BY <1>1, <1>4, RampLine
  <2>2. (RampDelta * (q * x)) \div RampTime = x
    BY <1>1, <1>4, RampLine
  <2>3. RampInverse(s, c) = q * x
    BY <1>5, <1>6, <2>1
  <2>4. RampAt(s, q * x) = c
    BY <1>1, <1>6, <2>2 DEF RampAt
  <2>. QED
    BY <1>1, <1>6, <2>1, <2>3, <2>4 DEF RampNear
<1>7. CASE s # "linear"
  <2>. DEFINE a == 2 * (x * RampSteps) + RampDelta
              k == a \div (2 * RampDelta)
  <2>1. RampInverse(s, c) = (RampTime \div RampSteps) * k
    BY <1>5, <1>7
  <2>2. x * RampSteps \in Nat /\ a = 2 * (x * RampSteps) + RampDelta /\ a \in Nat
    BY <1>1
  <2>3. k = a \div (2 * RampDelta)
    OBVIOUS
  <2>. HIDE DEF a, k
  <2>4. RampDelta \div RampSteps = h /\ RampTime \div RampSteps = d /\ h > 0 /\ d > 0
    <3>1. h > 0 /\ d > 0
      BY <1>1, <1>2, <1>3
    <3>. QED
      BY <1>1, <1>2, <1>3, <3>1, QuotientIs
  <2>5. /\ k \in Int /\ (2 * RampDelta) * k <= a /\ a < (2 * RampDelta) * k + 2 * RampDelta
    BY <1>1, <2>2, <2>3, Quotient
  <2>6. h * k \in Int /\ d * k \in Int /\ (2 * RampDelta) * k = RampSteps * (2 * (h * k))
    BY <1>1, <1>2, <2>5
  <2>7. a = RampSteps * (2 * x + h)
    BY <1>1, <1>2, <2>2
  <2>8. 2 * (h * k) <= 2 * x + h
    BY <1>1, <2>5, <2>6, <2>7
  <2>9. 2 * x + h < 2 * (h * k) + 2 * h
    <3>1. RampSteps * (2 * x + h) < RampSteps * (2 * (h * k) + 2 * h)
      BY <1>1, <1>2, <2>5, <2>6, <2>7
    <3>. QED
      BY <1>1, <2>6, <3>1
  <2>10. k >= 0
    <3>1. SUFFICES ASSUME k <= -1 PROVE FALSE
      BY <2>5
    <3>2. h * k <= -h
      BY <2>4, <2>5, <3>1
    <3>. QED
      BY <1>1, <2>6, <2>9, <3>2
  <2>11. k <= RampSteps
    <3>1. SUFFICES ASSUME k >= RampSteps + 1 PROVE FALSE
      BY <1>1, <2>5
    <3>2. h * k >= h * RampSteps + h
      BY <1>1, <2>4, <2>5, <3>1
    <3>3. x <= h * RampSteps /\ h * RampSteps \in Int
      BY <1>1, <1>2
    <3>. QED
      BY <1>1, <2>4, <2>6, <2>8, <3>2, <3>3
  <2>12. d * k \in Nat /\ d * k <= RampTime
    BY <1>1, <1>3, <2>4, <2>5, <2>10, <2>11
  <2>13. (RampSteps * (d * k)) \div RampTime = k
    <3>1. RampSteps * (d * k) = RampTime * k /\ RampSteps * (d * k) \in Int
      BY <1>1, <1>3, <2>5, <2>12
    <3>. QED
      BY <1>1, <2>5, <3>1, QuotientIs
  <2>14. 2 * RampSteps * (x - h * k) <= RampDelta
    <3>1. 2 * (x - h * k) <= h
      BY <1>1, <2>6, <2>9
    <3>2. RampSteps * (2 * (x - h * k)) <= RampSteps * h
      BY <1>1, <2>6, <3>1
    <3>. QED
      BY <1>1, <1>2, <2>6, <3>2
  <2>15. RampInverse(s, c) = d * k
    BY <2>1, <2>4
  <2>16. RampAt(s, d * k) = RampMin + h * k
    BY <1>7, <2>4, <2>13 DEF RampAt
  <2>17. c - (RampMin + h * k) = x - h * k
    BY <1>1, <2>6
  <2>. QED
    BY <1>1, <1>7, <2>12, <2>14, <2>15, <2>16, <2>17 DEF RampNear
<1>. QED
  BY <1>6, <1>7

LEMMA RampNearness ==
  ASSUME RampConfigured, NEW s
  PROVE  /\ \A a \in Int : RampNear(s, a, a)
         /\ \A a, b, c, d \in Int : RampNear(s, a, b) /\ c <= a /\ b <= d => RampNear(s, c, d)
<1>1. RampDelta \in Nat /\ RampSteps \in Nat
  BY DEF RampConfigured, RampDelta
<1>2. ASSUME NEW a \in Int PROVE RampNear(s, a, a)
  BY <1>1, <1>2 DEF RampNear
<1>3. ASSUME NEW a \in Int, NEW b \in Int, NEW c \in Int, NEW d \in Int,
             RampNear(s, a, b), c <= a, b <= d
      PROVE  RampNear(s, c, d)
  <2>1. CASE s = "linear"
    BY <1>3, <2>1 DEF RampNear
  <2>2. CASE s # "linear"
    <3>1. c - d <= a - b /\ c - d \in Int /\ a - b \in Int
         /\ 2 * RampSteps \in Int /\ 2 * RampSteps >= 0
      BY <1>1, <1>3
    <3>2. /\ (2 * RampSteps) * (c - d) <= (2 * RampSteps) * (a - b)
          /\ (2 * RampSteps) * (c - d) \in Int /\ (2 * RampSteps) * (a - b) \in Int
      BY <3>1, ProductGrows
    <3>3. (2 * RampSteps) * (a - b) <= RampDelta
      BY <1>3, <2>2 DEF RampNear
    <3>. QED
      BY <1>1, <2>2, <3>2, <3>3 DEF RampNear
  <2>. QED
    BY <2>1, <2>2
<1>. QED
  BY <1>2, <1>3

-----------------------------------------------------------------------------
RampNumbers ==
  /\ rampElapsed \in 0 .. RampTime /\ rampProgress \in 0 .. RampTime
  /\ rampShown \in 0 .. RampTime
  /\ rampCapacity \in RampMin .. RampMax /\ rampPeak \in RampMin .. RampMax
RampFlags ==
  /\ rampStrategy \in {"linear", "step"}
  /\ rampStarted \in BOOLEAN /\ rampWarming \in BOOLEAN /\ rampComplete \in BOOLEAN
  /\ rampClosed \in BOOLEAN
RampSteppers ==
  /\ rampPc \in [RampCalls -> {"idle", "running", "ok", "failed", "rejected", "closed"}]
  /\ rampTold \in [RampCalls -> Y!Capacity \X (0 .. RampTime)]

\* A run is on only while it is neither complete nor closed; what it reached, and its
\* capacity, are near the curve at its progress, which did not fall.
RampRun ==
  /\ rampWarming => rampStarted /\ ~rampComplete /\ ~rampClosed
  /\ rampComplete => rampCapacity = RampMax
  /\ rampCapacity <= rampPeak /\ rampShown <= Y!Progress
  /\ RampNear(rampStrategy, rampPeak, rampCapacity)
  /\ RampNear(rampStrategy, rampPeak, RampAt(rampStrategy, Y!Progress))

RampIn(step) == {c \in RampCalls : rampPc[c] = step}
RampAnswers ==
  /\ \A c \in RampCalls : rampPc[c] \in {"running", "ok", "failed", "rejected"}
       => RampNear(rampStrategy, rampTold[c][1], RampAt(rampStrategy, rampTold[c][2]))
  /\ rampAllowed = Cardinality(RampIn("ok")) /\ rampRejected = Cardinality(RampIn("rejected"))

RampInv == RampNumbers /\ RampFlags /\ RampSteppers /\ RampRun /\ RampAnswers

LEMMA RampCounts == \A Z : Y!Cardinality(Z) = Cardinality(Z)
  BY DEF Y!Cardinality, Cardinality

LEMMA RampMaxOf == \A a, b \in Int : Y!Max({a, b}) = IF a >= b THEN a ELSE b
<1>. SUFFICES ASSUME NEW a \in Int, NEW b \in Int
              PROVE  Y!Max({a, b}) = IF a >= b THEN a ELSE b
  OBVIOUS
<1>1. Y!Max({a, b}) = CHOOSE x \in {a, b} : \A y \in {a, b} : x >= y
  BY DEF Y!Max
<1>2. \A x \in {a, b} : (\A y \in {a, b} : x >= y) <=> x = IF a >= b THEN a ELSE b
  OBVIOUS
<1>. QED
  BY <1>1, <1>2

LEMMA RampSame ==
  /\ \A t : Y!Calculate(t) = RampAt(rampStrategy, t)
  /\ \A c : Y!Invert(c) = RampInverse(rampStrategy, c)
  /\ \A a, b : Y!Within(a, b) <=> RampNear(rampStrategy, a, b)
  BY DEF Y!Calculate, Y!Invert, Y!Within, Y!Round, Y!Delta, RampAt, RampInverse, RampNear, RampDelta

LEMMA RampInit == ASSUME RampConfigured, Y!Init PROVE RampInv
<1>. USE DEF Y!Init
<1>1. RampMin \in RampMin .. RampMax /\ 0 \in 0 .. RampTime
  BY DEF RampConfigured
<1>2. RampNumbers
  BY <1>1 DEF RampNumbers
<1>3. RampFlags
  BY DEF RampFlags
<1>4. RampSteppers
  BY <1>1 DEF RampSteppers, Y!Capacity
<1>5. Y!Progress = 0
  BY DEF Y!Progress
<1>6. RampRun
  <2>1. RampNear(rampStrategy, rampPeak, rampCapacity)
    BY <1>1, RampNearness
  <2>2. RampAt(rampStrategy, Y!Progress) = RampMin
    BY <1>5, RampCurve
  <2>. QED
    BY <1>1, <1>5, <2>1, <2>2 DEF RampRun
<1>7. RampAnswers
  <2>1. RampIn("ok") = {} /\ RampIn("rejected") = {}
    BY DEF RampIn
  <2>. QED
    BY <2>1, FS_EmptySet DEF RampAnswers
<1>. QED
  BY <1>2, <1>3, <1>4, <1>6, <1>7 DEF RampInv

LEMMA RampProgressed == ASSUME RampConfigured, RampNumbers PROVE Y!Progress \in 0 .. RampTime
  BY DEF RampConfigured, RampNumbers, Y!Progress

\* A run begins at its capacity, at the time nearest to it.
LEMMA RampStartStep ==
  ASSUME RampConfigured, RampInv, NEW c \in Y!Capacity, Y!StartAt(c) PROVE RampInv'
<1>1. c \in RampMin .. RampMax /\ c \in Int
  BY DEF Y!Capacity, RampConfigured
<1>2. /\ ~rampClosed /\ rampStarted' = TRUE /\ rampCapacity' = c /\ rampPeak' = c
      /\ rampShown' = rampProgress'
      /\ UNCHANGED <<rampStrategy, rampClosed, rampAllowed, rampRejected, rampPc, rampTold>>
  BY DEF Y!StartAt, Y!calls
<1>3. /\ RampNumbers' /\ rampWarming' \in BOOLEAN /\ rampComplete' \in BOOLEAN
      /\ rampWarming' => ~rampComplete'
      /\ rampComplete' => c = RampMax
      /\ (Y!Progress)' = rampProgress'
      /\ RampNear(rampStrategy, c, RampAt(rampStrategy, rampProgress'))
  <2>1. CASE c = RampMax
    <3>1. /\ rampElapsed' = 0 /\ rampProgress' = RampTime
          /\ rampWarming' = FALSE /\ rampComplete' = TRUE
      <4>1. ~(c < RampMax)
        BY <1>1, <2>1 DEF RampConfigured
      <4>2. rampElapsed' = 0 /\ rampProgress' = RampTime
        BY <2>1 DEF Y!StartAt
      <4>3. rampWarming' = FALSE
        <5>1. rampWarming' = (c < RampMax)
          BY DEF Y!StartAt
        <5>2. (c < RampMax) = FALSE
          BY <4>1
        <5>. QED
          BY <5>1, <5>2
      <4>4. rampComplete' = TRUE
        BY <2>1 DEF Y!StartAt
      <4>. QED
        BY <4>2, <4>3, <4>4
    <3>2. RampAt(rampStrategy, RampTime) = c
      BY <2>1, RampCurve
    <3>3. RampNear(rampStrategy, c, c)
      BY <1>1, RampNearness
    <3>4. RampNumbers'
      BY <1>1, <1>2, <3>1 DEF RampNumbers, RampConfigured
    <3>. QED
      BY <2>1, <3>1, <3>2, <3>3, <3>4 DEF Y!Progress
  <2>2. CASE c # RampMax
    <3>1. c < RampMax
      BY <1>1, <2>2 DEF RampConfigured
    <3>2. /\ rampElapsed' = RampInverse(rampStrategy, c)
          /\ rampProgress' = RampInverse(rampStrategy, c)
          /\ rampWarming' = TRUE /\ rampComplete' = FALSE
      BY <2>2, <3>1, RampSame DEF Y!StartAt
    <3>3. /\ RampInverse(rampStrategy, c) \in 0 .. RampTime
          /\ RampNear(rampStrategy, c, RampAt(rampStrategy, RampInverse(rampStrategy, c)))
      BY <1>1, <3>1, RampBackdates
    <3>4. RampNumbers'
      BY <1>1, <1>2, <3>2, <3>3 DEF RampNumbers
    <3>. QED
      BY <1>2, <3>2, <3>3, <3>4 DEF Y!Progress
  <2>. QED
    BY <2>1, <2>2
<1>4. RampRun'
  <2>1. c <= c /\ rampProgress' <= rampProgress'
    BY <1>1, <1>3 DEF RampNumbers, RampConfigured
  <2>2. RampNear(rampStrategy, c, c)
    BY <1>1, RampNearness
  <2>. QED
    BY <1>2, <1>3, <2>1, <2>2 DEF RampRun
<1>5. RampFlags' /\ RampSteppers'
  BY <1>2, <1>3 DEF RampInv, RampFlags, RampSteppers, Y!Capacity
<1>6. RampAnswers'
  BY <1>2 DEF RampInv, RampAnswers, RampIn
<1>. QED
  BY <1>3, <1>4, <1>5, <1>6 DEF RampInv

\* Time passes.
LEMMA RampPassStep == ASSUME RampConfigured, RampInv, Y!Pass PROVE RampInv'
<1>1. /\ rampWarming /\ rampElapsed < RampTime /\ rampElapsed' = rampElapsed + 1
      /\ UNCHANGED <<rampStrategy, rampStarted, rampCapacity, rampProgress, rampWarming,
                     rampComplete, rampClosed, rampAllowed, rampRejected, rampPc, rampTold,
                     rampPeak>>
  BY DEF Y!Pass, Y!ramp, Y!calls
<1>2. rampStarted /\ ~rampComplete
  BY <1>1 DEF RampInv, RampRun
<1>3. Y!Progress = rampElapsed /\ (Y!Progress)' = rampElapsed'
  BY <1>1, <1>2 DEF Y!Progress
<1>4. rampElapsed \in 0 .. RampTime /\ rampElapsed' \in 0 .. RampTime /\ rampElapsed <= rampElapsed'
  BY <1>1 DEF RampInv, RampNumbers, RampConfigured
<1>5. rampShown' \in 0 .. RampTime /\ rampShown' <= rampElapsed'
  <2>1. rampShown' = Y!Max({rampShown, rampElapsed + 1})
    BY DEF Y!Pass
  <2>2. rampShown \in 0 .. RampTime /\ rampShown <= rampElapsed
    BY <1>3 DEF RampInv, RampNumbers, RampRun
  <2>. QED
    BY <1>1, <1>4, <2>1, <2>2, RampMaxOf DEF RampConfigured
<1>6. RampNumbers' /\ RampFlags' /\ RampSteppers' /\ RampAnswers'
  BY <1>1, <1>4, <1>5 DEF RampInv, RampNumbers, RampFlags, RampSteppers, RampAnswers, RampIn
<1>7. RampNear(rampStrategy, rampPeak, RampAt(rampStrategy, rampElapsed'))
  <2>1. /\ RampNear(rampStrategy, rampPeak, RampAt(rampStrategy, rampElapsed))
        /\ rampPeak \in Int /\ rampPeak <= rampPeak
    BY <1>3 DEF RampInv, RampRun, RampNumbers, RampConfigured
  <2>2. /\ RampAt(rampStrategy, rampElapsed) \in Int /\ RampAt(rampStrategy, rampElapsed') \in Int
        /\ RampAt(rampStrategy, rampElapsed) <= RampAt(rampStrategy, rampElapsed')
    BY <1>4, RampCurve DEF RampConfigured
  <2>. QED
    BY <2>1, <2>2, RampNearness
<1>8. RampRun'
  BY <1>1, <1>2, <1>3, <1>5, <1>7 DEF RampInv, RampRun
<1>. QED
  BY <1>6, <1>8 DEF RampInv

\* A tick moves the capacity to the curve, and completes the run at its end.
LEMMA RampTickStep == ASSUME RampConfigured, RampInv, Y!Tick PROVE RampInv'
<1>1. /\ rampWarming /\ ~rampComplete /\ rampStarted
      /\ UNCHANGED <<rampStrategy, rampStarted, rampElapsed, rampProgress,
                     rampClosed, rampAllowed, rampRejected, rampPc, rampTold, rampShown>>
  BY DEF Y!Tick, Y!calls, RampInv, RampRun
<1>2. rampElapsed \in 0 .. RampTime /\ rampPeak \in RampMin .. RampMax /\ rampPeak \in Int
  BY DEF RampInv, RampNumbers, RampConfigured
<1>3. /\ rampWarming' \in BOOLEAN /\ rampComplete' \in BOOLEAN
      /\ rampComplete' <=> rampElapsed = RampTime
      /\ rampWarming' <=> rampElapsed < RampTime
  <2>1. rampComplete' = (rampElapsed = RampTime) /\ rampWarming' = (rampElapsed < RampTime)
    BY DEF Y!Tick
  <2>. HIDE DEF Y!Tick
  <2>2. (rampElapsed < RampTime) \in BOOLEAN /\ (rampElapsed = RampTime) \in BOOLEAN
    OBVIOUS
  <2>3. rampWarming' \in BOOLEAN /\ rampComplete' \in BOOLEAN
    BY <2>1, <2>2
  <2>. QED
    BY <2>1, <2>3
<1>4. /\ rampCapacity' = RampAt(rampStrategy, rampElapsed)
      /\ rampComplete' => rampCapacity' = RampMax
  <2>1. rampCapacity' = IF rampElapsed = RampTime THEN RampMax
                        ELSE RampAt(rampStrategy, rampElapsed)
    BY RampSame DEF Y!Tick
  <2>2. RampAt(rampStrategy, RampTime) = RampMax
    BY RampCurve
  <2>. QED
    BY <1>3, <2>1, <2>2
<1>5. rampCapacity' \in RampMin .. RampMax /\ rampCapacity' \in Int
  BY <1>2, <1>4, RampCurve DEF RampConfigured
<1>6. rampPeak' = IF rampPeak >= rampCapacity' THEN rampPeak ELSE rampCapacity'
  <2>1. rampPeak' = Y!Max({rampPeak, rampCapacity'})
    BY DEF Y!Tick
  <2>. QED
    BY <1>2, <1>5, <2>1, RampMaxOf
<1>7. Y!Progress = rampElapsed /\ (Y!Progress)' = rampElapsed
  <2>1. ~(rampElapsed = RampTime) => rampElapsed < RampTime
    BY <1>2 DEF RampConfigured
  <2>. QED
    BY <1>1, <1>3, <2>1 DEF Y!Progress
<1>8. /\ RampNear(rampStrategy, rampPeak', rampCapacity')
      /\ rampCapacity' <= rampPeak'
      /\ rampPeak' \in RampMin .. RampMax
  <2>1. RampNear(rampStrategy, rampPeak, rampCapacity')
    BY <1>4, <1>7 DEF RampInv, RampRun
  <2>2. RampNear(rampStrategy, rampCapacity', rampCapacity')
    BY <1>5, RampNearness
  <2>. QED
    BY <1>2, <1>5, <1>6, <2>1, <2>2
<1>9. RampRun'
  <2>1. rampShown <= rampElapsed /\ ~rampClosed
    BY <1>1, <1>7 DEF RampInv, RampRun
  <2>2. rampWarming' => ~rampComplete'
    BY <1>2, <1>3 DEF RampConfigured
  <2>. QED
    BY <1>1, <1>4, <1>7, <1>8, <2>1, <2>2 DEF RampRun
<1>10. RampNumbers' /\ RampFlags'
  BY <1>1, <1>3, <1>5, <1>8 DEF RampInv, RampNumbers, RampFlags
<1>11. RampSteppers' /\ RampAnswers'
  BY <1>1 DEF RampInv, RampSteppers, RampAnswers, RampIn
<1>. QED
  BY <1>9, <1>10, <1>11 DEF RampInv

\* Stop and Close freeze the progress.
LEMMA RampFreezeStep == ASSUME RampConfigured, RampInv, Y!Stop \/ Y!Close PROVE RampInv'
<1>1. /\ rampProgress' = Y!Frozen /\ rampWarming' = FALSE /\ rampClosed' \in BOOLEAN
      /\ UNCHANGED <<rampStrategy, rampStarted, rampElapsed, rampCapacity, rampComplete,
                     rampAllowed, rampRejected, rampPc, rampTold, rampPeak, rampShown>>
  BY DEF Y!Stop, Y!Close, Y!calls, RampInv, RampFlags
<1>2. rampProgress' \in 0 .. RampTime
  BY <1>1 DEF Y!Frozen, RampInv, RampNumbers
<1>3. (Y!Progress)' = Y!Progress
  BY <1>1 DEF Y!Progress, Y!Frozen, RampInv, RampRun
<1>4. RampRun'
  BY <1>1, <1>3 DEF RampInv, RampRun
<1>. QED
  BY <1>1, <1>2, <1>4 DEF RampInv, RampNumbers, RampFlags, RampSteppers, RampAnswers, RampIn

\* A call moves on, and the counters with it.
LEMMA RampCallStep ==
  ASSUME RampConfigured, RampInv, NEW c \in RampCalls,
         Y!Turned(c) \/ Y!TryAdmit(c) \/ Y!ExecuteRun(c)
  PROVE  RampInv'
<1>1. UNCHANGED <<rampStrategy, rampStarted, rampElapsed, rampCapacity, rampProgress, rampWarming,
                  rampComplete, rampClosed, rampPeak, rampShown>>
  BY DEF Y!Turned, Y!TryAdmit, Y!ExecuteRun, Y!ramp
<1>2. PICK b \in {"running", "ok", "failed", "rejected", "closed"} :
        /\ rampPc' = [rampPc EXCEPT ![c] = b]
        /\ rampPc[c] \in {"idle", "running"} /\ (rampPc[c] = "running" => b # "running")
        /\ rampAllowed' = (IF b = "ok" THEN rampAllowed + 1 ELSE rampAllowed)
        /\ rampRejected' = (IF b = "rejected" THEN rampRejected + 1 ELSE rampRejected)
        /\ \/ rampTold' = rampTold /\ (rampPc[c] = "running" \/ b = "closed")
           \/ rampTold' = [rampTold EXCEPT ![c] = <<rampCapacity, Y!Progress>>]
  <2>1. CASE Y!Turned(c)
    BY <2>1 DEF Y!Turned, Y!At
  <2>2. CASE Y!TryAdmit(c)
    BY <2>2 DEF Y!TryAdmit, Y!At
  <2>3. CASE Y!ExecuteRun(c)
    BY <2>3 DEF Y!ExecuteRun, Y!At
  <2>. QED
    BY <2>1, <2>2, <2>3
<1>3. \A d \in RampCalls : rampPc'[d] = IF d = c THEN b ELSE rampPc[d]
  BY <1>2 DEF RampInv, RampSteppers
<1>4. /\ Cardinality(RampIn("ok"))' = rampAllowed'
      /\ Cardinality(RampIn("rejected"))' = rampRejected'
  <2>1. IsFiniteSet(RampCalls)
    BY DEF RampConfigured
  <2>2. ASSUME NEW s \in {"ok", "rejected"}
        PROVE  Cardinality(RampIn(s))' = IF b = s THEN Cardinality(RampIn(s)) + 1
                                         ELSE Cardinality(RampIn(s))
    <3>. DEFINE Z == RampIn(s)
                J == {d \in RampCalls : rampPc'[d] = s}
    <3>1. RampIn(s)' = J
      BY DEF RampIn
    <3>2. Z \in SUBSET RampCalls /\ J \in SUBSET RampCalls /\ c \notin Z /\ (c \in J <=> b = s)
      BY <1>2, <1>3 DEF RampIn
    <3>3. \A d \in RampCalls \ {c} : d \in Z <=> d \in J
      BY <1>3 DEF RampIn
    <3>. HIDE DEF Z, J
    <3>4. Cardinality(J) = IF b = s THEN Cardinality(Z) + 1 ELSE Cardinality(Z)
      BY <2>1, <3>2, <3>3, OneMoves
    <3>. QED
      BY <3>1, <3>4 DEF Z
  <2>. QED
    BY <1>2, <2>2 DEF RampInv, RampAnswers
<1>5. RampSteppers'
  <2>1. rampCapacity \in Y!Capacity /\ Y!Progress \in 0 .. RampTime
    BY RampProgressed DEF RampInv, RampNumbers, Y!Capacity
  <2>2. rampTold' \in [RampCalls -> Y!Capacity \X (0 .. RampTime)]
    BY <1>2, <2>1 DEF RampInv, RampSteppers
  <2>3. rampPc' \in [RampCalls -> {"idle", "running", "ok", "failed", "rejected", "closed"}]
    BY <1>2 DEF RampInv, RampSteppers
  <2>. QED
    BY <1>1, <2>2, <2>3 DEF RampSteppers, Y!Capacity
<1>6. RampNear(rampStrategy, rampCapacity, RampAt(rampStrategy, Y!Progress))
  <2>1. /\ RampNear(rampStrategy, rampPeak, RampAt(rampStrategy, Y!Progress))
        /\ rampCapacity <= rampPeak /\ rampCapacity \in Int /\ rampPeak \in Int
    BY DEF RampInv, RampRun, RampNumbers, RampConfigured
  <2>2. RampAt(rampStrategy, Y!Progress) \in Int
    BY RampCurve, RampProgressed DEF RampInv, RampConfigured
  <2>3. RampAt(rampStrategy, Y!Progress) <= RampAt(rampStrategy, Y!Progress)
    BY <2>2
  <2>. QED
    BY <2>1, <2>2, <2>3, RampNearness
<1>7. RampAnswers'
  <2>1. ASSUME NEW d \in RampCalls, rampPc'[d] \in {"running", "ok", "failed", "rejected"}
        PROVE  RampNear(rampStrategy, rampTold'[d][1], RampAt(rampStrategy, rampTold'[d][2]))
    <3>1. CASE d # c
      <4>1. rampTold'[d] = rampTold[d] /\ rampPc'[d] = rampPc[d]
        BY <1>2, <1>3, <3>1 DEF RampInv, RampSteppers
      <4>. QED
        BY <2>1, <4>1 DEF RampInv, RampAnswers
    <3>2. CASE d = c /\ rampTold' = rampTold /\ (rampPc[c] = "running" \/ b = "closed")
      <4>1. rampPc[c] = "running"
        BY <1>3, <2>1, <3>2
      <4>2. RampNear(rampStrategy, rampTold[c][1], RampAt(rampStrategy, rampTold[c][2]))
        BY <4>1 DEF RampInv, RampAnswers
      <4>. QED
        BY <3>2, <4>2
    <3>3. CASE d = c /\ rampTold' = [rampTold EXCEPT ![c] = <<rampCapacity, Y!Progress>>]
      <4>1. rampTold'[d] = <<rampCapacity, Y!Progress>>
        BY <3>3 DEF RampInv, RampSteppers
      <4>. QED
        BY <1>6, <4>1
    <3>. QED
      BY <1>2, <3>1, <3>2, <3>3
  <2>. QED
    BY <1>1, <1>4, <2>1 DEF RampAnswers
<1>8. (Y!Progress)' = Y!Progress
  BY <1>1 DEF Y!Progress
<1>. QED
  BY <1>1, <1>5, <1>7, <1>8 DEF RampInv, RampNumbers, RampFlags, RampRun

LEMMA RampNext == ASSUME RampConfigured, RampInv, [Y!Next]_(Y!vars) PROVE RampInv'
<1>1. ASSUME UNCHANGED Y!vars PROVE RampInv'
  BY <1>1 DEF Y!vars, Y!ramp, Y!calls, RampInv, RampNumbers, RampFlags, RampSteppers, RampRun,
              RampAnswers, RampIn, Y!Progress
<1>. QED
  BY <1>1, RampStartStep, RampPassStep, RampTickStep, RampFreezeStep, RampCallStep DEF Y!Next

LEMMA RampInvariant == ASSUME RampConfigured PROVE Spec => [](package = "ramp" => RampInv)
<1>1. Init => (package = "ramp" => RampInv)
  BY StartOfPackage, RampInit
<1>2. (package = "ramp" => RampInv) /\ [Next]_vars => (package = "ramp" => RampInv)'
  BY StepOfPackage, RampNext
<1>. QED
  BY <1>1, <1>2, PTL DEF Spec

LEMMA RampSaid ==
  ASSUME RampConfigured, RampInv PROVE Y!TypeOK /\ Y!NeverFallsBack /\ Y!ToldTogether
<1>1. rampAllowed \in Nat /\ rampRejected \in Nat
  <2>1. IsFiniteSet(RampIn("ok")) /\ IsFiniteSet(RampIn("rejected"))
    BY FS_Subset DEF RampIn, RampConfigured
  <2>. QED
    BY <2>1, FS_CardinalityType DEF RampInv, RampAnswers
<1>2. Y!TypeOK
  BY <1>1 DEF RampInv, RampNumbers, RampFlags, RampSteppers, Y!TypeOK, Y!Capacity
<1>3. Y!NeverFallsBack
  BY RampSame DEF RampInv, RampRun, Y!NeverFallsBack
<1>4. Y!ToldTogether
  <2>1. Y!Quantify(RampCalls, LAMBDA c : rampPc[c] = "ok") = Cardinality(RampIn("ok"))
    BY RampCounts DEF Y!Quantify, RampIn
  <2>2. Y!Quantify(RampCalls, LAMBDA c : rampPc[c] = "rejected") = Cardinality(RampIn("rejected"))
    BY RampCounts DEF Y!Quantify, RampIn
  <2>3. \A c \in RampCalls : rampPc[c] \in {"running", "ok", "failed", "rejected"}
          => Y!Within(rampTold[c][1], Y!Calculate(rampTold[c][2]))
    BY RampSame DEF RampInv, RampAnswers
  <2>. QED
    BY <2>1, <2>2, <2>3 DEF RampInv, RampAnswers, Y!ToldTogether
<1>. QED
  BY <1>2, <1>3, <1>4

HIDE DEF rampStrategy, rampStarted, rampElapsed, rampCapacity, rampProgress, rampWarming,
         rampComplete, rampClosed, rampAllowed, rampRejected, rampPc, rampTold, rampPeak, rampShown

-----------------------------------------------------------------------------
(* adaptx: the limit moves once a window, and only as its samples say.     *)

lawAlgorithm == x1
lawLimit     == x2
lawCredit    == x3
lawWindow    == x4
lawOver      == x5
lawSeen      == x6
lawAvg       == x7
lawLow       == x8
lawTaken     == x9
lawPrev      == x10
lawLately    == x11
lawJudged    == x12
lawFastest   == x13
lawEligible  == x14
USE DEF lawAlgorithm, lawLimit, lawCredit, lawWindow, lawOver, lawSeen, lawAvg, lawLow, lawTaken,
        lawPrev, lawLately, lawJudged, lawFastest, lawEligible

\* newConfig brings the limits in order; its options let no ratio, utilization, smoothing
\* or decay through that is below 0 or, the utilization apart, above 1, and nothing that
\* is negative.  Latencies are above 0 and bounded.
LawConfigured ==
  /\ LawMin \in Nat /\ LawMax \in Nat /\ LawInitial \in LawMin .. LawMax
  /\ Latencies \subseteq Nat \ {0} /\ \E m \in Latencies : \A l \in Latencies : m >= l
  /\ Unit \in Nat /\ Unit > 0
  /\ Ratio \in 0 .. Unit /\ Smoothing \in 0 .. Unit /\ Decay \in 0 .. Unit
  /\ Utilization \in Nat /\ Rate \in Nat /\ Tolerance \in Nat /\ Target \in Nat
  /\ BackoffBand \in Nat /\ FastStep \in Nat /\ LawSamples \in Nat /\ WarmupSamples \in Nat

-----------------------------------------------------------------------------
(* What the laws compute, for any numbers.                                 *)

LEMMA QuotientAtLeast ==
  ASSUME NEW a \in Int, NEW b \in Int, b > 0, NEW k \in Int, b * k <= a PROVE k <= a \div b
  OBVIOUS

LEMMA QuotientAtMost ==
  ASSUME NEW a \in Int, NEW b \in Int, b > 0, NEW k \in Int, a <= b * k PROVE a \div b <= k
  OBVIOUS

LEMMA OneMore ==
  ASSUME NEW a \in Int, NEW m \in Int PROVE (a + 1) * m = a * m + m /\ a * m \in Int
  OBVIOUS

\* A number reaches a share that is rounded up when it reaches the share.
LEMMA RoundedUp ==
  ASSUME NEW a \in Int, NEW u \in Int, u > 0, NEW i \in Int
  PROVE  i >= (a + u - 1) \div u <=> i * u >= a
<1>. DEFINE k == (a + u - 1) \div u
<1>1. k \in Int /\ u * k <= a + u - 1 /\ a + u - 1 < u * k + u
  BY Quotient
<1>. HIDE DEF k
<1>2. ASSUME i >= k PROVE i * u >= a
  <2>1. u * i >= u * k
    BY <1>1, <1>2
  <2>. QED
    BY <1>1, <2>1
<1>3. ASSUME i <= k - 1 PROVE i * u < a
  <2>1. u * i <= u * (k - 1)
    BY <1>1, <1>3
  <2>. QED
    BY <1>1, <2>1
<1>4. i >= k \/ i <= k - 1
  BY <1>1
<1>5. i >= k <=> i * u >= a
  <2>1. i * u \in Int
    OBVIOUS
  <2>2. CASE i >= k
    BY <1>2, <2>2
  <2>3. CASE i <= k - 1
    <3>1. ~(i >= k) /\ ~(i * u >= a)
      BY <1>1, <1>3, <2>1, <2>3
    <3>. QED
      BY <3>1
  <2>. QED
    BY <1>4, <2>2, <2>3
<1>. QED
  BY <1>5 DEF k

\* A fractional rate adds up: what is credited is the rest of what was not yet given.
LEMMA RestsAddUp ==
  ASSUME NEW u \in Int, u > 0, NEW r \in Nat, NEW e \in Nat, NEW c, c = (r * e) % u
  PROVE  /\ c \in 0 .. u - 1
         /\ (c + r) % u = (r * (e + 1)) % u
         /\ (c + r) \div u = (r * (e + 1)) \div u - (r * e) \div u
<1>. DEFINE k == (r * e) \div u
            j == (c + r) \div u
            d == (c + r) % u
<1>1. r * e \in Int /\ r * (e + 1) = r * e + r
  OBVIOUS
<1>2. c \in 0 .. u - 1 /\ k \in Int /\ r * e = u * k + c
  BY <1>1
<1>3. d \in 0 .. u - 1 /\ j \in Int /\ c + r = u * j + d
  BY <1>2
<1>4. k = (r * e) \div u
  OBVIOUS
<1>. HIDE DEF k, j, d
<1>5. r * (e + 1) = u * (k + j) + d /\ r * (e + 1) \in Int
  BY <1>1, <1>2, <1>3
<1>6. (r * (e + 1)) \div u = k + j
  <2>1. u * (k + j) <= r * (e + 1) /\ r * (e + 1) < u * (k + j) + u
    BY <1>2, <1>3, <1>5
  <2>. QED
    BY <1>2, <1>3, <1>5, <2>1, QuotientIs
<1>7. (r * (e + 1)) % u = d
  <2>1. r * (e + 1) = u * ((r * (e + 1)) \div u) + ((r * (e + 1)) % u)
    BY <1>5
  <2>2. (r * (e + 1)) % u \in Int
    BY <1>5
  <2>. QED
    BY <1>2, <1>3, <1>5, <1>6, <2>1, <2>2
<1>8. (c + r) \div u = (r * (e + 1)) \div u - (r * e) \div u
  BY <1>2, <1>3, <1>4, <1>6 DEF j
<1>. QED
  BY <1>2, <1>7, <1>8 DEF d

\* A mean with weights is between the two.
LEMMA Weighted ==
  ASSUME NEW u \in Int, u > 0, NEW p \in 0 .. u, NEW a \in Int, NEW b \in Int,
         NEW z \in Int, NEW y \in Int, z <= a, z <= b, a <= y, b <= y
  PROVE  (p * a + (u - p) * b) \div u \in z .. y
<1>1. /\ p * z <= p * a /\ p * a <= p * y /\ (u - p) * z <= (u - p) * b
      /\ (u - p) * b <= (u - p) * y
  BY ProductGrows
<1>2. p * z + (u - p) * z = u * z /\ p * y + (u - p) * y = u * y
  OBVIOUS
<1>3. /\ p * a \in Int /\ (u - p) * b \in Int /\ p * z \in Int /\ (u - p) * z \in Int
      /\ p * y \in Int /\ (u - p) * y \in Int /\ u * z \in Int /\ u * y \in Int
  OBVIOUS
<1>4. u * z <= p * a + (u - p) * b /\ p * a + (u - p) * b <= u * y
  BY <1>1, <1>2, <1>3
<1>. QED
  BY <1>3, <1>4, QuotientAtLeast, QuotientAtMost, Quotient

LEMMA Decayed ==
  ASSUME NEW u \in Int, u > 0, NEW p \in 0 .. u, NEW a \in Int, NEW b \in Int,
         NEW z \in Int, NEW y \in Int, z <= a, z <= b, a <= y, b <= y
  PROVE  b + (p * (a - b)) \div u \in z .. y
<1>. DEFINE k == (p * (a - b)) \div u
<1>1. p * (a - b) \in Int /\ k \in Int
  OBVIOUS
<1>2. CASE a >= b
  <2>1. u * 0 <= p * (a - b) /\ p * (a - b) <= u * (a - b)
    BY <1>2
  <2>2. 0 <= k /\ k <= a - b
    BY <1>1, <2>1, QuotientAtLeast, QuotientAtMost
  <2>. QED
    BY <1>1, <2>2
<1>3. CASE a < b
  <2>1. u * (a - b) <= p * (a - b) /\ p * (a - b) <= u * 0
    BY <1>3
  <2>2. a - b <= k /\ k <= 0
    BY <1>1, <2>1, QuotientAtLeast, QuotientAtMost
  <2>. QED
    BY <1>1, <2>2
<1>. QED
  BY <1>2, <1>3

-----------------------------------------------------------------------------
LawTop  == N!Max(Latencies)
LawCut  == (lawLimit * Ratio) \div Unit
LawNeed == (lawLimit * Utilization + Unit - 1) \div Unit

LawNumbers ==
  /\ lawLimit \in LawMin .. LawMax /\ lawCredit \in 0 .. Unit - 1
  /\ lawSeen \in Nat /\ lawTaken \in 0 .. LawSamples /\ lawEligible \in Nat
  /\ lawAvg \in 0 .. LawTop /\ lawLow \in 1 .. LawTop + 1 /\ lawFastest \in 1 .. LawTop + 1
LawWindow ==
  /\ lawWindow.n \in Nat /\ lawWindow.fails \in Nat /\ lawWindow.peak \in Nat
  /\ lawWindow.sum \in Nat
  /\ lawWindow.n <= lawTaken /\ lawWindow.fails <= lawWindow.n
LawFlags == lawAlgorithm \in {"aimd", "vegas", "gradient"} /\ lawOver \in BOOLEAN

\* The window sums up the samples since the last judgement, and what was estimated from
\* samples is not below the lowest of all.
LawSums ==
  /\ lawWindow.sum >= lawWindow.n * lawFastest
  /\ \A m \in Nat : (\A s \in lawLately : s.latency <= m) => lawWindow.sum <= lawWindow.n * m
  /\ lawWindow.fails > 0 <=> \E s \in lawLately : ~s.ok
  /\ \A s \in lawLately : s.inFlight \in Nat /\ s.inFlight <= lawWindow.peak
  /\ \A s \in lawLately : s.latency \in Nat /\ s.latency <= LawTop
  /\ IF lawLately = {} THEN lawWindow.peak = 0
     ELSE \E s \in lawLately : s.inFlight = lawWindow.peak
  /\ lawAvg = 0 \/ lawAvg >= lawFastest
  /\ lawLow >= lawFastest

\* What was credited of a fractional rate and not given yet.
LawCredit == lawAlgorithm = "aimd" => lawCredit = (Rate * lawEligible) % Unit

LawInv ==
  LawNumbers /\ LawWindow /\ LawFlags /\ LawSums /\ LawCredit /\ N!LimitFollowsWindow

LEMMA LawMaxOf == \A a, b \in Int : N!Max({a, b}) = IF a >= b THEN a ELSE b
<1>. SUFFICES ASSUME NEW a \in Int, NEW b \in Int
              PROVE  N!Max({a, b}) = IF a >= b THEN a ELSE b
  OBVIOUS
<1>1. N!Max({a, b}) = CHOOSE x \in {a, b} : \A y \in {a, b} : x >= y
  BY DEF N!Max
<1>2. \A x \in {a, b} : (\A y \in {a, b} : x >= y) <=> x = IF a >= b THEN a ELSE b
  OBVIOUS
<1>. QED
  BY <1>1, <1>2

LEMMA LawLatencies ==
  ASSUME LawConfigured
  PROVE  LawTop \in Nat /\ LawTop >= 1 /\ \A l \in Latencies : l \in Nat /\ 1 <= l /\ l <= LawTop
<1>1. LawTop = CHOOSE m \in Latencies : \A l \in Latencies : m >= l
  BY DEF LawTop, N!Max
<1>2. LawTop \in Latencies /\ \A l \in Latencies : LawTop >= l
  BY <1>1 DEF LawConfigured
<1>. QED
  BY <1>2 DEF LawConfigured

LEMMA LawCutBelow ==
  ASSUME LawConfigured, LawNumbers
  PROVE  lawLimit \in Nat /\ LawCut \in Nat /\ LawCut <= lawLimit
         /\ N!Cut = LawCut /\ N!Need = LawNeed
         /\ LawNeed \in Int
<1>1. lawLimit \in Nat /\ Ratio \in 0 .. Unit /\ Unit \in Nat /\ Unit > 0 /\ Utilization \in Nat
  BY DEF LawConfigured, LawNumbers
<1>2. Unit * 0 <= lawLimit * Ratio /\ lawLimit * Ratio <= Unit * lawLimit
      /\ lawLimit * Ratio \in Int
  BY <1>1
<1>3. LawCut \in Int /\ 0 <= LawCut /\ LawCut <= lawLimit
  BY <1>1, <1>2, QuotientAtLeast, QuotientAtMost DEF LawCut
<1>4. LawNeed \in Int
  <2>1. lawLimit * Utilization + Unit - 1 \in Int
    BY <1>1
  <2>. QED
    BY <1>1, <2>1, Quotient DEF LawNeed
<1>. QED
  BY <1>1, <1>3, <1>4 DEF LawCut, LawNeed, N!Cut, N!Need

\* Vegas cuts only for a queue, and there is none when no sample took longer than the
\* lowest latency.
LEMMA LawVegas ==
  ASSUME LawConfigured, LawNumbers, NEW w, w.n \in Nat, w.sum \in Nat, NEW low \in Nat
  PROVE  /\ N!Vegas(w, low) \in {lawLimit + 1, lawLimit, LawCut}
         /\ w.sum <= w.n * low => N!Vegas(w, low) \in {lawLimit + 1, lawLimit}
<1>. DEFINE queue == <<w.sum - w.n * low, w.sum>>
            alpha == IF Target > low THEN <<Tolerance * (Target - low), Unit * Target>>
                                     ELSE <<Tolerance, Unit>>
            beta  == <<BackoffBand * alpha[1], alpha[2]>>
<1>1. N!Vegas(w, low) = IF N!Less(queue, alpha) THEN lawLimit + 1
                        ELSE IF N!Less(beta, queue) THEN LawCut ELSE lawLimit
  BY LawCutBelow DEF N!Vegas
<1>2. alpha[1] \in Int /\ alpha[1] >= 0 /\ alpha[2] \in Int /\ alpha[2] >= 0
  <2>1. CASE Target > low
    <3>1. Tolerance * (Target - low) \in Int /\ Tolerance * (Target - low) >= 0
          /\ Unit * Target \in Int /\ Unit * Target >= 0
      BY <2>1 DEF LawConfigured
    <3>. QED
      BY <2>1, <3>1
  <2>2. CASE ~(Target > low)
    BY <2>2 DEF LawConfigured
  <2>. QED
    BY <2>1, <2>2
<1>. HIDE DEF alpha
<1>3. ASSUME w.sum <= w.n * low PROVE ~N!Less(beta, queue)
  <2>1. BackoffBand * alpha[1] \in Int /\ BackoffBand * alpha[1] >= 0
    BY <1>2 DEF LawConfigured
  <2>2. (BackoffBand * alpha[1]) * w.sum >= 0 /\ (BackoffBand * alpha[1]) * w.sum \in Int
    BY <2>1
  <2>3. w.sum - w.n * low \in Int /\ w.sum - w.n * low <= 0
    BY <1>3
  <2>4. (w.sum - w.n * low) * alpha[2] <= 0 /\ (w.sum - w.n * low) * alpha[2] \in Int
    BY <1>2, <2>3
  <2>5. ~((BackoffBand * alpha[1]) * w.sum < (w.sum - w.n * low) * alpha[2])
    BY <2>2, <2>4
  <2>. QED
    BY <2>5 DEF N!Less
<1>. HIDE DEF beta, queue
<1>. QED
  BY <1>1, <1>3

\* Gradient cuts for a failure, and backs off, by the same ratio at most, only when the
\* mean is above the average.
LEMMA LawGradient ==
  ASSUME LawConfigured, LawNumbers, NEW w, w.n \in Nat, w.n > 0, w.sum \in Nat, w.fails \in Nat
  PROVE  /\ N!Gradient(w) \in Int /\ N!Gradient(w) >= LawCut
         /\ w.fails > 0 => N!Gradient(w) = LawCut
         /\ w.fails = 0 /\ w.sum <= w.n * lawAvg => N!Gradient(w) >= lawLimit
<1>. DEFINE base == w.n * lawAvg
            g == <<w.sum - base, base>>
            f == N!Max({Unit * base - (w.sum - base) * Ratio, base * Ratio})
            eased == (lawLimit * f) \div (Unit * base)
            fast == N!Less(g, N!Negative(<<Tolerance, Unit>>))
            slow == N!Less(<<Tolerance, Unit>>, g)
<1>1. N!Gradient(w) = IF w.fails > 0 THEN LawCut
                      ELSE IF lawAvg = 0 THEN lawLimit
                      ELSE IF fast THEN lawLimit + FastStep
                      ELSE IF ~slow THEN lawLimit + 1 ELSE eased
  BY LawCutBelow DEF N!Gradient
<1>2. /\ lawLimit \in Nat /\ LawCut \in Nat /\ LawCut <= lawLimit /\ FastStep \in Nat
      /\ lawAvg \in Nat /\ base \in Nat /\ Unit \in Nat /\ Unit > 0 /\ Ratio \in Nat
      /\ Tolerance \in Nat
  BY LawCutBelow, LawLatencies DEF LawConfigured, LawNumbers
<1>3. ASSUME slow PROVE w.sum > base
  <2>1. Tolerance * base < (w.sum - base) * Unit
    BY <1>3 DEF N!Less
  <2>2. Tolerance * base >= 0
    BY <1>2
  <2>. HIDE DEF base
  <2>3. Tolerance * base \in Int /\ (w.sum - base) * Unit \in Int
    BY <1>2
  <2>4. (w.sum - base) * Unit > 0
    BY <2>1, <2>2, <2>3
  <2>. QED
    BY <1>2, <2>4
<1>4. ASSUME lawAvg # 0 PROVE eased \in Int /\ eased >= LawCut
  <2>1. base > 0
    BY <1>2, <1>4
  <2>. HIDE DEF base
  <2>2. f >= base * Ratio /\ f \in Int /\ base * Ratio \in Int
    <3>1. Unit * base - (w.sum - base) * Ratio \in Int /\ base * Ratio \in Int
      BY <1>2
    <3>. QED
      BY <3>1, LawMaxOf
  <2>. HIDE DEF f
  <2>3. lawLimit * (base * Ratio) <= lawLimit * f /\ lawLimit * f \in Int
        /\ lawLimit * (base * Ratio) \in Int
    BY <1>2, <2>2, ProductGrows
  <2>4. Unit * LawCut <= lawLimit * Ratio
    BY <1>2, Quotient DEF LawCut
  <2>5. (Unit * base) * LawCut <= lawLimit * (base * Ratio)
    <3>1. /\ base * (Unit * LawCut) <= base * (lawLimit * Ratio)
          /\ Unit * LawCut \in Int /\ lawLimit * Ratio \in Int
      BY <1>2, <2>4, ProductGrows
    <3>2. /\ base * (Unit * LawCut) = (Unit * base) * LawCut
          /\ base * (lawLimit * Ratio) = lawLimit * (base * Ratio)
      BY <1>2
    <3>. QED
      BY <3>1, <3>2
  <2>6. Unit * base \in Int /\ Unit * base > 0 /\ (Unit * base) * LawCut \in Int
    BY <1>2, <2>1
  <2>7. (Unit * base) * LawCut <= lawLimit * f
    BY <2>3, <2>5, <2>6
  <2>. QED
    BY <1>2, <2>3, <2>6, <2>7, QuotientAtLeast, Quotient
<1>. HIDE DEF fast, eased, slow
<1>5. w.sum <= base => ~slow
  BY <1>2, <1>3
<1>. HIDE DEF base
<1>6. w.fails = 0 => ~(w.fails > 0)
  OBVIOUS
<1>7. /\ N!Gradient(w) \in Int /\ N!Gradient(w) >= LawCut
      /\ w.fails > 0 => N!Gradient(w) = LawCut
  BY <1>1, <1>2, <1>4
<1>8. w.fails = 0 /\ w.sum <= base => N!Gradient(w) >= lawLimit
  BY <1>1, <1>2, <1>5, <1>6
<1>. QED
  BY <1>7, <1>8 DEF base

LEMMA LawAimd ==
  ASSUME LawConfigured, LawNumbers, NEW w, w.fails \in Nat, w.peak \in Nat
  PROVE  /\ N!Step(w) \in Nat
         /\ w.fails > 0 => N!Aimd(w) = LawCut
         /\ w.fails = 0 => N!Aimd(w) = lawLimit + N!Step(w)
<1>1. (lawCredit + Rate) \div Unit \in Nat
  <2>1. lawCredit + Rate \in Int /\ Unit * 0 <= lawCredit + Rate /\ Unit \in Int /\ Unit > 0
    BY DEF LawConfigured, LawNumbers
  <2>2. (lawCredit + Rate) \div Unit \in Int /\ 0 <= (lawCredit + Rate) \div Unit
    BY <2>1, Quotient, QuotientAtLeast
  <2>. QED
    BY <2>2
<1>. QED
  BY <1>1, LawCutBelow DEF N!Step, N!Aimd

\* What a law wants: no cut is deeper than the ratio's, and there is none without reason.
LEMMA LawWants ==
  ASSUME LawConfigured, LawNumbers, LawFlags,
         NEW w, w.n \in Nat, w.n > 0, w.sum \in Nat, w.fails \in Nat, w.peak \in Nat,
         NEW low \in Nat, NEW fast \in Nat, fast <= low, lawAvg = 0 \/ fast <= lawAvg
  PROVE  /\ N!Wants(w, low) \in Int /\ N!Wants(w, low) >= LawCut
         /\ N!Wants(w, low) < lawLimit => \/ lawAlgorithm # "vegas" /\ w.fails > 0
                                          \/ lawAlgorithm # "aimd" /\ w.sum > w.n * fast
         /\ lawAlgorithm # "vegas" /\ w.fails > 0 => N!Wants(w, low) <= lawLimit
         /\ lawAlgorithm = "aimd" /\ w.fails = 0 => N!Wants(w, low) = lawLimit + N!Step(w)
<1>. DEFINE v == N!Wants(w, low)
<1>1. lawLimit \in Nat /\ LawCut \in Nat /\ LawCut <= lawLimit
  BY LawCutBelow
<1>2. w.n * fast \in Nat /\ w.n * low \in Nat /\ w.n * fast <= w.n * low
  BY ProductGrows
<1>3. CASE lawAlgorithm = "aimd"
  <2>1. v = N!Aimd(w)
    BY <1>3 DEF N!Wants
  <2>2. /\ N!Step(w) \in Nat
        /\ w.fails > 0 => v = LawCut
        /\ w.fails = 0 => v = lawLimit + N!Step(w)
    BY <2>1, LawAimd
  <2>. HIDE DEF v
  <2>3. CASE w.fails > 0
    BY <1>1, <1>3, <2>2, <2>3 DEF v
  <2>4. CASE w.fails = 0
    BY <1>1, <1>3, <2>2, <2>4 DEF v
  <2>. QED
    BY <2>3, <2>4
<1>4. CASE lawAlgorithm = "vegas"
  <2>1. v = N!Vegas(w, low)
    BY <1>4 DEF N!Wants
  <2>2. /\ v \in {lawLimit + 1, lawLimit, LawCut}
        /\ w.sum <= w.n * low => v \in {lawLimit + 1, lawLimit}
    BY <2>1, LawVegas
  <2>. HIDE DEF v
  <2>3. v \in Int /\ v >= LawCut
    BY <1>1, <2>2
  <2>4. v < lawLimit => w.sum > w.n * fast
    BY <1>1, <1>2, <2>2
  <2>. QED
    BY <1>4, <2>3, <2>4 DEF v
<1>5. CASE lawAlgorithm = "gradient"
  <2>1. v = N!Gradient(w)
    BY <1>5 DEF N!Wants
  <2>2. /\ v \in Int /\ v >= LawCut
        /\ w.fails > 0 => v = LawCut
        /\ w.fails = 0 /\ w.sum <= w.n * lawAvg => v >= lawLimit
    BY <2>1, LawGradient
  <2>. HIDE DEF v
  <2>3. CASE w.fails > 0
    BY <1>1, <1>5, <2>2, <2>3 DEF v
  <2>4. ASSUME w.fails = 0, v < lawLimit PROVE w.sum > w.n * fast
    <3>1. lawAvg # 0
      <4>1. SUFFICES ASSUME lawAvg = 0 PROVE FALSE
        OBVIOUS
      <4>2. N!Gradient(w) = lawLimit
        BY <2>4, <4>1 DEF N!Gradient
      <4>. QED
        BY <1>1, <2>1, <2>4, <4>2
    <3>2. w.n * fast <= w.n * lawAvg /\ w.n * lawAvg \in Int
      <4>1. lawAvg \in Nat
        BY LawLatencies DEF LawNumbers
      <4>. QED
        BY <3>1, <4>1, ProductGrows
    <3>3. ~(w.sum <= w.n * lawAvg)
      BY <1>1, <2>2, <2>4
    <3>. QED
      BY <1>2, <3>2, <3>3
  <2>5. CASE w.fails = 0
    BY <1>1, <1>5, <2>2, <2>4, <2>5 DEF v
  <2>. QED
    BY <2>3, <2>5
<1>. QED
  BY <1>3, <1>4, <1>5 DEF LawFlags

\* The clamps bring what the law wants into the bounds, and jitter leaves some growth.
LEMMA LawClamps ==
  ASSUME LawConfigured, LawNumbers, NEW v \in Int, NEW j \in N!Jittered(v), LawCut <= v
  PROVE  /\ N!Clamped(j) \in LawMin .. LawMax
         /\ N!Clamped(j) < lawLimit => v < lawLimit /\ N!Clamped(j) >= LawCut
         /\ v <= lawLimit => N!Clamped(j) <= lawLimit
         /\ v = lawLimit => N!Clamped(j) = lawLimit
         /\ v > lawLimit => \E n \in 1 .. v - lawLimit :
              N!Clamped(j) - lawLimit = N!Lower(n, LawMax - lawLimit)
<1>1. /\ LawMin \in Nat /\ LawMax \in Nat /\ lawLimit \in LawMin .. LawMax /\ LawCut \in Nat
      /\ LawMin <= LawMax
  BY LawCutBelow DEF LawConfigured, LawNumbers
<1>2. j \in Int /\ (v > lawLimit => j \in lawLimit + 1 .. v) /\ (~(v > lawLimit) => j = v)
  BY <1>1 DEF N!Jittered
<1>3. N!Clamped(j) = IF j < LawMin THEN LawMin ELSE IF j <= LawMax THEN j ELSE LawMax
  BY DEF N!Clamped, N!Lower
<1>4. N!Clamped(j) \in LawMin .. LawMax /\ N!Clamped(j) \in Int
  BY <1>1, <1>2, <1>3
<1>5. N!Clamped(j) < lawLimit => v < lawLimit /\ N!Clamped(j) >= LawCut
  BY <1>1, <1>2, <1>3
<1>6. (v <= lawLimit => N!Clamped(j) <= lawLimit) /\ (v = lawLimit => N!Clamped(j) = lawLimit)
  BY <1>1, <1>2, <1>3
<1>7. ASSUME v > lawLimit
      PROVE  \E n \in 1 .. v - lawLimit : N!Clamped(j) - lawLimit = N!Lower(n, LawMax - lawLimit)
  <2>1. j - lawLimit \in 1 .. v - lawLimit
    BY <1>1, <1>2, <1>7
  <2>2. N!Lower(j - lawLimit, LawMax - lawLimit)
          = IF j - lawLimit <= LawMax - lawLimit THEN j - lawLimit ELSE LawMax - lawLimit
    BY DEF N!Lower
  <2>3. N!Clamped(j) - lawLimit = N!Lower(j - lawLimit, LawMax - lawLimit)
    BY <1>1, <1>2, <1>3, <1>7, <2>2
  <2>. QED
    BY <2>1, <2>3
<1>. QED
  BY <1>4, <1>5, <1>6, <1>7

\* N!LimitFollowsWindow of a judgement.
LawJudgement(alg, new, old, all, least, e) ==
  LET failed == \E s \in all : ~s.ok
      slow   == \E s \in all : s.latency > least
      steps  == (Rate * e) \div Unit - (Rate * (e - 1)) \div Unit
      busy   == \E s \in all : s.inFlight * Unit >= old * Utilization
  IN /\ new \in LawMin .. LawMax
     /\ new < old => /\ new >= (old * Ratio) \div Unit
                     /\ (alg # "vegas" /\ failed) \/ (alg # "aimd" /\ slow)
     /\ alg # "vegas" /\ failed => new <= old
     /\ alg = "aimd" /\ ~failed =>
          new - old \in IF busy THEN {N!Lower(n, LawMax - old) : n \in N!Lower(1, steps) .. steps}
                        ELSE {0}

LEMMA LawFollows ==
  N!LimitFollowsWindow <=>
    IF lawJudged = {} THEN lawLimit = lawPrev
    ELSE LawJudgement(lawAlgorithm, lawLimit, lawPrev, lawJudged, lawFastest, lawEligible)
  BY DEF N!LimitFollowsWindow, LawJudgement

LEMMA LawInit == ASSUME LawConfigured, N!Init PROVE LawInv
<1>. USE DEF N!Init
<1>1. LawTop \in Nat /\ LawTop >= 1 /\ N!Unknown = LawTop + 1
  BY LawLatencies DEF LawTop, N!Unknown
<1>2. LawNumbers
  BY <1>1 DEF LawNumbers, LawConfigured
<1>3. LawWindow /\ LawFlags
  <2>1. /\ lawWindow.n = 0 /\ lawWindow.fails = 0 /\ lawWindow.peak = 0 /\ lawWindow.sum = 0
        /\ lawTaken = 0
    BY DEF N!Empty
  <2>2. LawWindow
    BY <2>1 DEF LawWindow
  <2>. QED
    BY <2>2 DEF LawFlags
<1>4. LawSums
  BY <1>1 DEF LawSums, N!Empty
<1>5. LawCredit
  BY DEF LawCredit, LawConfigured
<1>6. N!LimitFollowsWindow
  BY LawFollows
<1>. QED
  BY <1>2, <1>3, <1>4, <1>5, <1>6 DEF LawInv

LEMMA LawResetStep ==
  ASSUME LawConfigured, LawInv, NEW i \in {0, LawMax}, N!ResetStats(i) PROVE LawInv'
<1>1. LawTop \in Nat /\ LawTop >= 1 /\ N!Unknown = LawTop + 1
  BY LawLatencies DEF LawTop, N!Unknown
<1>2. /\ lawCredit' = 0 /\ lawSeen' = 0 /\ lawAvg' = 0 /\ lawLow' = LawTop + 1
      /\ lawWindow' = N!Empty /\ lawOver' = FALSE /\ lawPrev' = lawLimit' /\ lawLately' = {}
      /\ lawJudged' = {} /\ lawFastest' = LawTop + 1 /\ lawEligible' = 0
      /\ lawAlgorithm' = lawAlgorithm /\ lawTaken' = lawTaken
  BY <1>1 DEF N!ResetStats
<1>3. lawLimit' \in LawMin .. LawMax
  <2>1. lawLimit' = N!Max({LawInitial, i})
    BY DEF N!ResetStats
  <2>. QED
    BY <2>1, LawMaxOf DEF LawConfigured
<1>4. LawNumbers'
  BY <1>1, <1>2, <1>3 DEF LawInv, LawNumbers, LawConfigured, LawTop
<1>5. LawWindow' /\ LawFlags'
  <2>1. /\ lawWindow'.n = 0 /\ lawWindow'.fails = 0 /\ lawWindow'.peak = 0 /\ lawWindow'.sum = 0
    BY <1>2 DEF N!Empty
  <2>2. lawTaken' \in Nat
    BY <1>2 DEF LawInv, LawNumbers, LawConfigured
  <2>3. LawWindow'
    BY <2>1, <2>2 DEF LawWindow
  <2>. QED
    BY <1>2, <2>3 DEF LawInv, LawFlags
<1>6. LawSums'
  BY <1>1, <1>2 DEF LawSums, N!Empty
<1>7. LawCredit'
  BY <1>2 DEF LawCredit, LawConfigured
<1>8. N!LimitFollowsWindow'
  BY <1>2 DEF N!LimitFollowsWindow
<1>. QED
  BY <1>4, <1>5, <1>6, <1>7, <1>8 DEF LawInv

LEMMA LawPassStep ==
  ASSUME LawInv, N!Pass \/ UNCHANGED N!vars PROVE LawInv'
<1>1. /\ UNCHANGED <<lawAlgorithm, lawLimit, lawCredit, lawWindow, lawSeen, lawAvg, lawLow,
                     lawTaken, lawPrev, lawLately, lawJudged, lawFastest, lawEligible>>
      /\ lawOver' \in BOOLEAN
  BY DEF N!Pass, N!past, N!vars, N!law, LawInv, LawFlags
<1>. QED
  BY <1>1 DEF LawInv, LawNumbers, LawWindow, LawFlags, LawSums, LawCredit, N!LimitFollowsWindow,
              LawTop

\* The window, the samples and the lowest latencies with one more sample.
LawSampling(t, ok, i, w, all, fast, low) ==
  /\ w = [n |-> lawWindow.n + 1, fails |-> lawWindow.fails + IF ok THEN 0 ELSE 1,
          peak |-> N!Max({lawWindow.peak, i}), sum |-> lawWindow.sum + t]
  /\ all = lawLately \cup {[latency |-> t, ok |-> ok, inFlight |-> i]}
  /\ fast = N!Lower(lawFastest, t) /\ low = N!Lower(lawLow, t)

LawSummary(w, all, fast, low) ==
  /\ w.n \in Nat /\ w.n > 0 /\ w.fails \in Nat /\ w.peak \in Nat /\ w.sum \in Nat
  /\ w.n <= lawTaken + 1 /\ w.fails <= w.n
  /\ fast \in 1 .. LawTop /\ low \in 1 .. LawTop /\ fast <= low
  /\ lawAvg = 0 \/ lawAvg >= fast
  /\ w.sum >= w.n * fast
  /\ \A m \in Nat : (\A s \in all : s.latency <= m) => w.sum <= w.n * m
  /\ w.fails > 0 <=> \E s \in all : ~s.ok
  /\ \A s \in all : s.inFlight \in Nat /\ s.inFlight <= w.peak
  /\ \E s \in all : s.inFlight = w.peak
  /\ \A s \in all : s.latency \in Nat /\ s.latency <= LawTop
  /\ w.sum <= w.n * LawTop

LEMMA LawSampled ==
  ASSUME LawConfigured, LawNumbers, LawWindow, LawSums, lawTaken < LawSamples,
         NEW t \in Latencies, NEW ok \in BOOLEAN, NEW i \in N!InFlights(lawLimit),
         NEW w, NEW all, NEW fast, NEW low, LawSampling(t, ok, i, w, all, fast, low)
  PROVE  LawSummary(w, all, fast, low)
<1>. USE DEF LawSampling
<1>. DEFINE z == [latency |-> t, ok |-> ok, inFlight |-> i]
<1>1. /\ t \in Nat /\ 1 <= t /\ t <= LawTop /\ LawTop \in Nat /\ lawLimit \in Nat /\ i \in Nat
      /\ z.latency = t /\ z.ok = ok /\ z.inFlight = i
  BY LawLatencies, LawCutBelow DEF N!InFlights
<1>2. all = lawLately \cup {z}
  OBVIOUS
<1>. HIDE DEF z
<1>3. /\ w.n = lawWindow.n + 1 /\ w.sum = lawWindow.sum + t
      /\ w.fails = (IF ok THEN lawWindow.fails ELSE lawWindow.fails + 1)
      /\ w.peak = (IF lawWindow.peak >= i THEN lawWindow.peak ELSE i)
  BY <1>1, LawMaxOf DEF LawWindow
<1>4. /\ fast = (IF lawFastest <= t THEN lawFastest ELSE t)
      /\ low = (IF lawLow <= t THEN lawLow ELSE t)
  BY DEF N!Lower
<1>5. /\ lawWindow.n \in Nat /\ lawWindow.sum \in Nat /\ lawWindow.fails \in Nat
      /\ lawWindow.peak \in Nat /\ lawFastest \in Nat /\ lawLow \in Nat /\ lawAvg \in Nat
      /\ lawFastest >= 1 /\ lawLow >= 1 /\ lawTaken \in Nat
      /\ lawWindow.n <= lawTaken /\ lawWindow.fails <= lawWindow.n
  BY <1>1 DEF LawWindow, LawNumbers, LawConfigured
<1>6. /\ w.n \in Nat /\ w.n > 0 /\ w.fails \in Nat /\ w.peak \in Nat /\ w.sum \in Nat
      /\ w.n <= lawTaken + 1 /\ w.fails <= w.n
  BY <1>1, <1>3, <1>5
<1>7. fast \in 1 .. LawTop /\ low \in 1 .. LawTop /\ fast <= low /\ fast <= t /\ fast <= lawFastest
  BY <1>1, <1>4, <1>5 DEF LawSums
<1>8. lawAvg = 0 \/ lawAvg >= fast
  BY <1>5, <1>7 DEF LawSums
<1>9. w.sum >= w.n * fast
  <2>1. /\ lawWindow.n * fast <= lawWindow.n * lawFastest
        /\ lawWindow.n * fast \in Int /\ lawWindow.n * lawFastest \in Int
    BY <1>5, <1>7, ProductGrows
  <2>2. (lawWindow.n + 1) * fast = lawWindow.n * fast + fast
    BY <1>5, <1>7, OneMore
  <2>3. lawWindow.sum >= lawWindow.n * lawFastest
    BY DEF LawSums
  <2>. QED
    BY <1>1, <1>3, <1>5, <1>7, <2>1, <2>2, <2>3
<1>10. ASSUME NEW m \in Nat, \A s \in all : s.latency <= m PROVE w.sum <= w.n * m
  <2>1. t <= m /\ \A s \in lawLately : s.latency <= m
    BY <1>1, <1>2, <1>10
  <2>2. lawWindow.sum <= lawWindow.n * m
    BY <2>1 DEF LawSums
  <2>3. \A k \in Nat : (k + 1) * m = k * m + m /\ k * m \in Int
    BY OneMore
  <2>4. (lawWindow.n + 1) * m = lawWindow.n * m + m /\ lawWindow.n * m \in Int
    BY <1>5, <2>3
  <2>. QED
    BY <1>1, <1>3, <1>5, <2>1, <2>2, <2>4
<1>11. w.fails > 0 <=> \E s \in all : ~s.ok
  <2>1. CASE ok = TRUE
    BY <1>1, <1>2, <1>3, <2>1 DEF LawSums
  <2>2. CASE ok = FALSE
    <3>1. w.fails > 0
      BY <1>3, <1>5, <2>2
    <3>2. \E s \in all : ~s.ok
      BY <1>1, <1>2, <2>2
    <3>. QED
      BY <3>1, <3>2
  <2>. QED
    BY <2>1, <2>2
<1>12. \A s \in all : s.inFlight \in Nat /\ s.inFlight <= w.peak
  BY <1>1, <1>2, <1>3, <1>5 DEF LawSums
<1>13. \E s \in all : s.inFlight = w.peak
  <2>1. CASE lawLately = {}
    <3>1. w.peak = i
      BY <1>1, <1>3, <2>1 DEF LawSums
    <3>. QED
      BY <1>1, <1>2, <3>1
  <2>2. CASE lawLately # {}
    BY <1>1, <1>2, <1>3, <2>2 DEF LawSums
  <2>. QED
    BY <2>1, <2>2
<1>14. \A s \in all : s.latency \in Nat /\ s.latency <= LawTop
  BY <1>1, <1>2 DEF LawSums
<1>15. w.sum <= w.n * LawTop
  BY <1>1, <1>10, <1>14
<1>. QED
  BY <1>6, <1>7, <1>8, <1>9, <1>10, <1>11, <1>12, <1>13, <1>14, <1>15 DEF LawSummary

\* The limit follows the samples of a window that is judged.
LEMMA LawJudges ==
  ASSUME LawConfigured, LawNumbers, LawFlags, LawCredit,
         NEW w, w.n \in Nat, w.n > 0, w.fails \in Nat, w.peak \in Nat, w.sum \in Nat,
         NEW all, NEW fast \in Nat, NEW low \in Nat, fast <= low,
         lawAvg = 0 \/ lawAvg >= fast,
         \A m \in Nat : (\A s \in all : s.latency <= m) => w.sum <= w.n * m,
         w.fails > 0 <=> \E s \in all : ~s.ok,
         \A s \in all : s.inFlight \in Nat /\ s.inFlight <= w.peak,
         \E s \in all : s.inFlight = w.peak,
         \A s \in all : s.latency \in Nat,
         NEW j \in N!Jittered(N!Wants(w, low)),
         NEW e \in Nat,
         e = IF w.fails > 0 THEN 0 ELSE IF w.peak >= LawNeed THEN lawEligible + 1 ELSE lawEligible
  PROVE  /\ LawJudgement(lawAlgorithm, N!Clamped(j), lawLimit, all, fast, e)
         /\ lawAlgorithm = "aimd" => /\ N!CreditAfter(w) = (Rate * e) % Unit
                                    /\ N!CreditAfter(w) \in 0 .. Unit - 1
         /\ N!Clamped(j) \in LawMin .. LawMax
<1>. DEFINE v == N!Wants(w, low)
            new == N!Clamped(j)
            failed == \E s \in all : ~s.ok
            slow == \E s \in all : s.latency > fast
            busy == \E s \in all : s.inFlight * Unit >= lawLimit * Utilization
            steps == (Rate * e) \div Unit - (Rate * (e - 1)) \div Unit
<1>1. /\ v \in Int /\ v >= LawCut
      /\ v < lawLimit => \/ lawAlgorithm # "vegas" /\ w.fails > 0
                         \/ lawAlgorithm # "aimd" /\ w.sum > w.n * fast
      /\ lawAlgorithm # "vegas" /\ w.fails > 0 => v <= lawLimit
      /\ lawAlgorithm = "aimd" /\ w.fails = 0 => v = lawLimit + N!Step(w)
  BY LawWants
<1>2. /\ new \in LawMin .. LawMax
      /\ new < lawLimit => v < lawLimit /\ new >= LawCut
      /\ v <= lawLimit => new <= lawLimit
      /\ v = lawLimit => new = lawLimit
      /\ v > lawLimit => \E n \in 1 .. v - lawLimit : new - lawLimit = N!Lower(n, LawMax - lawLimit)
  BY <1>1, LawClamps
<1>3. lawLimit \in Nat /\ LawCut \in Nat /\ N!Need = LawNeed /\ LawNeed \in Int
  BY LawCutBelow
<1>4. w.fails > 0 <=> failed
  OBVIOUS
<1>5. w.sum > w.n * fast => slow
  <2>1. ~slow => \A s \in all : s.latency <= fast
    OBVIOUS
  <2>2. ~slow => w.sum <= w.n * fast
    BY <2>1
  <2>3. w.n * fast \in Int
    OBVIOUS
  <2>. QED
    BY <2>2, <2>3
<1>6. w.peak >= LawNeed <=> busy
  <2>1. \A i \in Nat : i >= LawNeed <=> i * Unit >= lawLimit * Utilization
    <3>1. lawLimit * Utilization \in Int /\ Unit \in Int /\ Unit > 0
      BY <1>3 DEF LawConfigured
    <3>. QED
      BY <3>1, RoundedUp DEF LawNeed
  <2>2. ASSUME busy PROVE w.peak >= LawNeed
    <3>1. PICK s \in all : s.inFlight * Unit >= lawLimit * Utilization
      BY <2>2
    <3>2. s.inFlight \in Nat /\ s.inFlight >= LawNeed /\ s.inFlight <= w.peak
      BY <2>1, <3>1
    <3>. QED
      BY <1>3, <3>2
  <2>3. ASSUME w.peak >= LawNeed PROVE busy
    <3>1. PICK s \in all : s.inFlight = w.peak
      OBVIOUS
    <3>2. w.peak * Unit >= lawLimit * Utilization
      BY <2>1, <2>3
    <3>. QED
      BY <3>1, <3>2
  <2>. QED
    BY <2>2, <2>3
<1>7. /\ Unit \in Int /\ Unit > 0 /\ Rate \in Nat /\ LawMax \in Nat /\ lawEligible \in Nat
      /\ lawLimit <= LawMax /\ Utilization \in Nat
  BY DEF LawConfigured, LawNumbers
<1>8. ASSUME lawAlgorithm = "aimd"
      PROVE  /\ lawCredit \in 0 .. Unit - 1
             /\ (lawCredit + Rate) % Unit = (Rate * (lawEligible + 1)) % Unit
             /\ (lawCredit + Rate) \div Unit
                  = (Rate * (lawEligible + 1)) \div Unit - (Rate * lawEligible) \div Unit
             /\ (lawCredit + Rate) % Unit \in 0 .. Unit - 1
  <2>1. lawCredit = (Rate * lawEligible) % Unit
    BY <1>8 DEF LawCredit
  <2>2. lawCredit + Rate \in Int
    BY <1>7 DEF LawNumbers
  <2>3. (lawCredit + Rate) % Unit \in 0 .. Unit - 1
    BY <1>7, <2>2
  <2>. QED
    BY <1>7, <2>1, <2>3, RestsAddUp
<1>9. ASSUME lawAlgorithm = "aimd"
      PROVE  N!CreditAfter(w) = (Rate * e) % Unit /\ N!CreditAfter(w) \in 0 .. Unit - 1
  <2>1. CASE w.fails > 0
    <3>1. e = 0 /\ N!CreditAfter(w) = 0
      BY <2>1 DEF N!CreditAfter
    <3>2. Rate * 0 = 0 /\ 0 % Unit = 0
      BY <1>7
    <3>. QED
      BY <1>7, <3>1, <3>2
  <2>2. CASE ~(w.fails > 0) /\ w.peak >= LawNeed
    <3>1. e = lawEligible + 1 /\ ~(w.peak < LawNeed)
      BY <1>3, <2>2
    <3>2. N!CreditAfter(w) = (lawCredit + Rate) % Unit
      BY <1>3, <2>2, <3>1 DEF N!CreditAfter
    <3>. QED
      BY <1>8, <1>9, <3>1, <3>2
  <2>3. CASE ~(w.fails > 0) /\ ~(w.peak >= LawNeed)
    <3>1. e = lawEligible /\ w.peak < LawNeed
      BY <1>3, <2>3
    <3>2. N!CreditAfter(w) = lawCredit
      BY <1>3, <2>3, <3>1 DEF N!CreditAfter
    <3>. QED
      BY <1>8, <1>9, <3>1, <3>2 DEF LawCredit
  <2>. QED
    BY <2>1, <2>2, <2>3
<1>10. ASSUME lawAlgorithm = "aimd", ~failed
       PROVE  new - lawLimit \in IF busy THEN {N!Lower(n, LawMax - lawLimit) :
                                                n \in N!Lower(1, steps) .. steps}
                                 ELSE {0}
  <2>1. w.fails = 0 /\ ~(w.fails > 0)
    BY <1>4, <1>10
  <2>2. v = lawLimit + N!Step(w)
    BY <1>1, <1>10, <2>1
  <2>3. CASE ~busy
    <3>1. N!Step(w) = 0
      BY <1>3, <1>6, <2>3 DEF N!Step
    <3>2. new = lawLimit
      BY <1>2, <1>3, <2>2, <3>1
    <3>. QED
      BY <1>3, <2>3, <3>2
  <2>4. CASE busy
    <3>1. N!Step(w) = (lawCredit + Rate) \div Unit /\ e = lawEligible + 1
      BY <1>3, <1>6, <2>1, <2>4 DEF N!Step
    <3>2. steps = N!Step(w)
      <4>1. e - 1 = lawEligible
        BY <1>7, <3>1
      <4>. QED
        BY <1>8, <1>10, <3>1, <4>1
    <3>3. N!Step(w) \in Nat
      BY LawAimd
    <3>. HIDE DEF v, new, steps
    <3>4. \E n \in N!Lower(1, steps) .. steps : new - lawLimit = N!Lower(n, LawMax - lawLimit)
      <4>1. CASE steps = 0
        <5>1. new = lawLimit
          BY <1>2, <1>3, <2>2, <3>2, <4>1
        <5>2. 0 \in N!Lower(1, steps) .. steps /\ N!Lower(0, LawMax - lawLimit) = 0
          BY <1>3, <1>7, <4>1 DEF N!Lower
        <5>. QED
          BY <1>3, <5>1, <5>2
      <4>2. CASE steps > 0
        <5>1. v > lawLimit /\ v - lawLimit = steps /\ N!Lower(1, steps) = 1
          BY <1>3, <2>2, <3>2, <3>3, <4>2 DEF N!Lower
        <5>. QED
          BY <1>2, <5>1
      <4>. QED
        BY <3>2, <3>3, <4>1, <4>2
    <3>. QED
      BY <2>4, <3>4
  <2>. QED
    BY <2>3, <2>4
<1>. HIDE DEF v, new, failed, slow, busy, steps
<1>11. /\ new < lawLimit => /\ new >= LawCut
                            /\ (lawAlgorithm # "vegas" /\ failed) \/ (lawAlgorithm # "aimd" /\ slow)
       /\ lawAlgorithm # "vegas" /\ failed => new <= lawLimit
  BY <1>1, <1>2, <1>4, <1>5
<1>12. LawJudgement(lawAlgorithm, new, lawLimit, all, fast, e)
  BY <1>2, <1>10, <1>11 DEF LawJudgement, LawCut, failed, slow, busy, steps
<1>. QED
  BY <1>2, <1>9, <1>12 DEF new

\* The estimates of a window that is judged stay among the latencies.
LEMMA LawEstimates ==
  ASSUME LawConfigured, LawNumbers,
         NEW w, w.n \in Nat, w.n > 0, w.sum \in Nat,
         NEW fast \in 1 .. LawTop, NEW low \in 1 .. LawTop, fast <= low,
         lawAvg = 0 \/ lawAvg >= fast, w.sum >= w.n * fast, w.sum <= w.n * LawTop
  PROVE  N!NewAvg(w) \in fast .. LawTop /\ N!NewMin(w, low) \in fast .. LawTop
<1>1. /\ LawTop \in Nat /\ fast \in Int /\ low \in Int /\ low <= LawTop /\ fast <= LawTop
      /\ Unit \in Int /\ Unit > 0 /\ Smoothing \in 0 .. Unit /\ Decay \in 0 .. Unit
      /\ lawAvg \in Int /\ lawAvg <= LawTop
  BY LawLatencies DEF LawConfigured, LawNumbers
<1>2. w.sum \div w.n \in fast .. LawTop
  <2>1. w.n * fast <= w.sum /\ w.sum <= w.n * LawTop /\ w.n \in Int /\ w.sum \in Int
    BY <1>1
  <2>2. w.sum \div w.n \in Int
    BY <2>1, Quotient
  <2>3. fast <= w.sum \div w.n
    BY <1>1, <2>1, QuotientAtLeast
  <2>4. w.sum \div w.n <= LawTop
    BY <1>1, <2>1, QuotientAtMost
  <2>. QED
    BY <1>1, <2>2, <2>3, <2>4
<1>3. PICK mean : mean = w.sum \div w.n
  OBVIOUS
<1>4. N!NewAvg(w) = IF lawAvg = 0 THEN mean
                    ELSE (Smoothing * mean + (Unit - Smoothing) * lawAvg) \div Unit
  BY <1>3 DEF N!NewAvg
<1>5. mean \in Int /\ fast <= mean /\ mean <= LawTop
  BY <1>1, <1>2, <1>3
<1>6. ASSUME lawAvg # 0
      PROVE  (Smoothing * mean + (Unit - Smoothing) * lawAvg) \div Unit \in fast .. LawTop
  BY <1>1, <1>5, <1>6, Weighted
<1>7. N!NewAvg(w) \in fast .. LawTop
  BY <1>1, <1>4, <1>5, <1>6
<1>8. low + (Decay * (N!NewAvg(w) - low)) \div Unit \in fast .. LawTop
  BY <1>1, <1>7, Decayed
<1>. QED
  BY <1>7, <1>8 DEF N!NewMin

LEMMA LawRecordStep ==
  ASSUME LawConfigured, LawInv, NEW t \in Latencies, NEW ok \in BOOLEAN,
         NEW i \in N!InFlights(lawLimit), N!Record(t, ok, i)
  PROVE  LawInv'
<1>1. PICK w, low, all, fast : LawSampling(t, ok, i, w, all, fast, low)
  BY DEF LawSampling
<1>2. LawNumbers /\ LawWindow /\ LawFlags /\ LawSums /\ LawCredit
  BY DEF LawInv
<1>3. lawTaken < LawSamples /\ lawTaken' = lawTaken + 1 /\ lawSeen' = lawSeen + 1
      /\ lawPrev' = lawLimit /\ lawFastest' = fast /\ lawAlgorithm' = lawAlgorithm
  BY <1>1 DEF N!Record, LawSampling
<1>4. /\ w.n \in Nat /\ w.n > 0 /\ w.fails \in Nat /\ w.peak \in Nat /\ w.sum \in Nat
      /\ w.n <= lawTaken + 1 /\ w.fails <= w.n
      /\ fast \in 1 .. LawTop /\ low \in 1 .. LawTop /\ fast <= low
      /\ lawAvg = 0 \/ lawAvg >= fast
      /\ w.sum >= w.n * fast
      /\ \A m \in Nat : (\A s \in all : s.latency <= m) => w.sum <= w.n * m
      /\ w.fails > 0 <=> \E s \in all : ~s.ok
      /\ \A s \in all : s.inFlight \in Nat /\ s.inFlight <= w.peak
      /\ \E s \in all : s.inFlight = w.peak
      /\ \A s \in all : s.latency \in Nat /\ s.latency <= LawTop
      /\ w.sum <= w.n * LawTop
  <2>1. LawSummary(w, all, fast, low)
    BY <1>1, <1>2, <1>3, LawSampled
  <2>. QED
    BY <2>1 DEF LawSummary
<1>5. LawTop \in Nat /\ LawTop >= 1 /\ LawNeed \in Int /\ N!Need = LawNeed
      /\ LawMin \in Nat /\ LawMax \in Nat
  BY <1>2, LawLatencies, LawCutBelow DEF LawConfigured
<1>6. lawTaken' \in 0 .. LawSamples /\ lawTaken' = lawTaken + 1 /\ lawSeen' \in Nat
      /\ lawFastest' \in 1 .. LawTop + 1 /\ fast \in Nat /\ low \in Nat
  BY <1>2, <1>3, <1>4, <1>5 DEF LawNumbers, LawConfigured
<1>7. LawFlags'
  BY <1>1, <1>2, <1>3 DEF LawFlags, N!Record
<1>8. ASSUME lawOver /\ lawSeen' >= WarmupSamples
      PROVE  LawInv'
  <2>1. /\ \E j \in N!Jittered(N!Wants(w, low)) : lawLimit' = N!Clamped(j)
        /\ lawCredit' = IF lawAlgorithm = "aimd" THEN N!CreditAfter(w) ELSE lawCredit
        /\ lawAvg' = N!NewAvg(w) /\ lawLow' = N!NewMin(w, low)
        /\ lawWindow' = N!Empty /\ lawLately' = {} /\ lawJudged' = all
        /\ lawEligible' = IF \E s \in all : ~s.ok THEN 0
                          ELSE lawEligible + IF \E s \in all : s.inFlight >= N!Need THEN 1 ELSE 0
    BY <1>1, <1>8 DEF N!Record, N!Fresh, LawSampling
  <2>2. PICK j \in N!Jittered(N!Wants(w, low)) : lawLimit' = N!Clamped(j)
    BY <2>1
  <2>3. PICK e : e = IF w.fails > 0 THEN 0
                     ELSE IF w.peak >= LawNeed THEN lawEligible + 1 ELSE lawEligible
    OBVIOUS
  <2>4. lawEligible \in Nat
    BY <1>2 DEF LawNumbers
  <2>5. e \in Nat
    BY <2>3, <2>4
  <2>6. (\E s \in all : s.inFlight >= N!Need) <=> w.peak >= LawNeed
    BY <1>4, <1>5
  <2>7. lawEligible' = e
    BY <1>4, <2>1, <2>3, <2>4, <2>6
  <2>8. /\ LawJudgement(lawAlgorithm, N!Clamped(j), lawLimit, all, fast, e)
        /\ lawAlgorithm = "aimd" => /\ N!CreditAfter(w) = (Rate * e) % Unit
                                   /\ N!CreditAfter(w) \in 0 .. Unit - 1
        /\ N!Clamped(j) \in LawMin .. LawMax
    BY <1>2, <1>4, <1>6, <2>3, <2>5, LawJudges
  <2>9. N!NewAvg(w) \in fast .. LawTop /\ N!NewMin(w, low) \in fast .. LawTop
    BY <1>2, <1>4, LawEstimates
  <2>10. lawCredit' \in 0 .. Unit - 1
    BY <1>2, <2>1, <2>8 DEF LawNumbers
  <2>11. LawNumbers'
    <3>1. lawAvg' \in 0 .. LawTop /\ lawLow' \in 1 .. LawTop + 1
      BY <1>4, <1>5, <2>1, <2>9
    <3>2. lawLimit' \in LawMin .. LawMax /\ lawEligible' \in Nat
      BY <2>2, <2>5, <2>7, <2>8
    <3>. QED
      BY <1>6, <2>10, <3>1, <3>2 DEF LawNumbers, LawTop
  <2>12. LawWindow' /\ lawWindow'.sum = 0 /\ lawWindow'.n = 0 /\ lawWindow'.fails = 0
         /\ lawWindow'.peak = 0
    <3>1. /\ lawWindow'.n = 0 /\ lawWindow'.fails = 0 /\ lawWindow'.peak = 0
          /\ lawWindow'.sum = 0
      BY <2>1 DEF N!Empty
    <3>2. lawTaken' \in Nat
      BY <1>6 DEF LawConfigured
    <3>3. LawWindow'
      BY <3>1, <3>2 DEF LawWindow
    <3>. QED
      BY <3>1, <3>3
  <2>13. LawSums'
    <3>1. lawAvg' >= lawFastest' /\ lawLow' >= lawFastest' /\ lawFastest' \in Nat
      BY <1>3, <1>4, <1>6, <2>1, <2>9
    <3>2. lawLately' = {}
      BY <2>1
    <3>3. \A m \in Nat : lawWindow'.sum <= lawWindow'.n * m
      <4>1. \A m \in Nat : 0 * m = 0
        OBVIOUS
      <4>. QED
        BY <2>12, <4>1
    <3>4. lawWindow'.sum >= lawWindow'.n * lawFastest'
      <4>1. \A k \in Nat : 0 >= 0 * k
        OBVIOUS
      <4>. QED
        BY <2>12, <3>1, <4>1
    <3>5. ~(lawWindow'.fails > 0)
      BY <2>12
    <3>. QED
      BY <2>12, <3>1, <3>2, <3>3, <3>4, <3>5 DEF LawSums
  <2>14. LawCredit'
    BY <1>3, <2>1, <2>7, <2>8 DEF LawCredit
  <2>15. N!LimitFollowsWindow'
    <3>1. all # {}
      BY <1>4
    <3>2. /\ lawAlgorithm' = lawAlgorithm /\ lawLimit' = N!Clamped(j) /\ lawPrev' = lawLimit
          /\ lawJudged' = all /\ lawFastest' = fast /\ lawEligible' = e
      BY <1>3, <2>1, <2>2, <2>7
    <3>3. LawJudgement(lawAlgorithm', lawLimit', lawPrev', lawJudged', lawFastest', lawEligible')
      BY <2>8, <3>2
    <3>. QED
      BY <3>1, <3>2, <3>3, Zenon DEF N!LimitFollowsWindow, LawJudgement
  <2>. QED
    BY <1>7, <2>11, <2>12, <2>13, <2>14, <2>15 DEF LawInv
<1>9. ASSUME ~(lawOver /\ lawSeen' >= WarmupSamples)
      PROVE  LawInv'
  <2>1. /\ lawWindow' = w /\ lawLow' = low /\ lawLately' = all /\ lawJudged' = {}
        /\ lawLimit' = lawLimit /\ lawCredit' = lawCredit /\ lawAvg' = lawAvg
        /\ lawEligible' = lawEligible
    BY <1>1, <1>9 DEF N!Record, LawSampling
  <2>2. LawNumbers'
    <3>1. lawLow' \in 1 .. LawTop + 1
      BY <1>4, <1>5, <2>1
    <3>. QED
      BY <1>2, <1>6, <2>1, <3>1 DEF LawNumbers, LawTop
  <2>3. LawWindow'
    BY <1>4, <1>6, <2>1 DEF LawWindow
  <2>4. LawSums'
    <3>1. \A s \in all : s.inFlight \in Nat /\ s.inFlight <= w.peak
      BY <1>4
    <3>2. all # {}
      BY <1>4
    <3>. QED
      BY <1>3, <1>4, <1>6, <2>1, <3>1, <3>2 DEF LawSums, LawTop
  <2>5. LawCredit'
    BY <1>2, <1>3, <2>1 DEF LawCredit
  <2>6. N!LimitFollowsWindow'
    BY <1>3, <2>1 DEF N!LimitFollowsWindow
  <2>. QED
    BY <1>7, <2>2, <2>3, <2>4, <2>5, <2>6 DEF LawInv
<1>. QED
  BY <1>8, <1>9

LEMMA LawNext == ASSUME LawConfigured, LawInv, [N!Next]_(N!vars) PROVE LawInv'
<1>1. ASSUME NEW t \in Latencies, NEW ok \in BOOLEAN, NEW i \in N!InFlights(lawLimit),
             N!Record(t, ok, i)
      PROVE  LawInv'
  BY <1>1, LawRecordStep
<1>2. ASSUME N!Pass \/ UNCHANGED N!vars PROVE LawInv'
  BY <1>2, LawPassStep
<1>3. ASSUME NEW i \in {0, LawMax}, N!ResetStats(i) PROVE LawInv'
  BY <1>3, LawResetStep
<1>. QED
  BY <1>1, <1>2, <1>3 DEF N!Next

LEMMA LawInvariant == ASSUME LawConfigured PROVE Spec => [](package = "law" => LawInv)
<1>1. Init => (package = "law" => LawInv)
  BY StartOfPackage, LawInit
<1>2. (package = "law" => LawInv) /\ [Next]_vars => (package = "law" => LawInv)'
  BY StepOfPackage, LawNext
<1>. QED
  BY <1>1, <1>2, PTL DEF Spec

LEMMA LawSaid == ASSUME LawConfigured, LawInv PROVE N!TypeOK /\ N!LimitFollowsWindow
<1>1. LawTop \in Nat /\ N!Unknown = LawTop + 1 /\ N!Max(Latencies) = LawTop
  BY LawLatencies DEF LawTop, N!Unknown
<1>2. lawWindow.n \in 0 .. LawSamples /\ lawWindow.fails \in 0 .. lawWindow.n
  BY DEF LawInv, LawNumbers, LawWindow, LawConfigured
<1>3. lawLimit \in Nat
  BY DEF LawInv, LawNumbers, LawConfigured
<1>4. N!TypeOK
  BY <1>1, <1>2, <1>3 DEF LawInv, LawNumbers, LawFlags, N!TypeOK
<1>. QED
  BY <1>4 DEF LawInv

HIDE DEF lawAlgorithm, lawLimit, lawCredit, lawWindow, lawOver, lawSeen, lawAvg, lawLow,
         lawTaken, lawPrev, lawLately, lawJudged, lawFastest, lawEligible

-----------------------------------------------------------------------------
\* warmupx: runs do not mix, and no waiter stays on the channel of an earlier run (StartAt,
\* tick, WaitForCompletion); the ramp's progress never falls back, and what is told of
\* capacity and progress goes together (invert, freezeProgressLocked, tryAdmit); adaptx: the
\* limit moves once a window and as its samples say (recordLocked, adjust).
THEOREM LimitsAlwaysMoveAsTold ==
  ASSUME WarmConfigured, RampConfigured, LawConfigured PROVE Spec => []LimitsMoveAsTold
<1>1. WarmInv => W!TypeOK /\ W!RunsDoNotMix /\ W!NobodyLeftBehind
  BY WarmTold
<1>2. RampInv => Y!TypeOK /\ Y!NeverFallsBack /\ Y!ToldTogether
  BY RampSaid
<1>3. LawInv => N!TypeOK /\ N!LimitFollowsWindow
  BY LawSaid
<1>4. /\ package = "warm" => WarmInv
      /\ package = "ramp" => RampInv
      /\ package = "law" => LawInv
      => LimitsMoveAsTold
  BY <1>1, <1>2, <1>3 DEF LimitsMoveAsTold
<1>. QED
  BY <1>4, WarmInvariant, RampInvariant, LawInvariant, PTL

-----------------------------------------------------------------------------
\* toutx: a result that came before the deadline is returned; retryx: a retry gives up
\* for the reason it says; signalx: Wait ran or reported every hook that it owed, and no
\* signal is lost; hedgex: a call that waits is owed an answer, and what it answers is
\* so; healthx: no result that came in time is lost; fallx: a replayed value is of the
\* caller's key (awaitResult, normalizeResult, Do, Trap, WaitWith, dispatch, consumeResult,
\* ExecuteWithKey).
THEOREM AnswersAreTrue ==
  ASSUME RetryConfigured, ShutdownConfigured, HedgeConfigured, HealthConfigured, FbConfigured
  PROVE  Spec => []CallAnswersTrue
<1>1. /\ package = "timeout" => TimeoutInv
      /\ package = "retry" => RetryInv
      /\ package = "shutdown" => DownInv
      /\ package = "hedge" => HedgeInv
      /\ package = "health" => HealthInv
      /\ package = "fallback" => FbInv
      => CallAnswersTrue
  BY RetryAnswersTrue, TimeoutAnswersTrue, ShutdownAnswersTrue, HedgeAnswersTrue, HealthAnswersTrue,
     FbBalances DEF CallAnswersTrue
<1>. QED
  BY <1>1, TimeoutInvariant, RetryInvariant, ShutdownInvariant, HedgeInvariant,
     HealthInvariant, FbInvariant, PTL

-----------------------------------------------------------------------------
(* newConfig of every package: what the options leave is fit for use.      *)

optPackage == x1
optCfg == x2
optUsed == x3
USE DEF optPackage, optCfg, optUsed

\* What the source's constants are sure to be: 1.0 is not below the default cutoffs,
\* dividing by a constant is possible, and an interval has room (fallx's
\* shardCapDivisor, warmupx's newConfig).
SourceConstants ==
  /\ Raw \subseteq Int
  /\ Unit \in Int /\ Unit >= 3
  /\ MaxShardCount \in Nat \ {0}
  /\ ShardDivisor \in Nat \ {0}
  /\ IntervalDivisor \in Nat \ {0}
  /\ MinInterval \in Nat \ {0} /\ MaxInterval \in Nat /\ MinInterval <= MaxInterval
  /\ MaxOptions \in Nat

\* Fields that no clamp looks at: their options keep out what they must not be.
IsPositive(f) ==
  \/ optPackage = "bulkx"   /\ f = "timeout"
  \/ optPackage = "fallx"   /\ f = "maxCacheSize"
  \/ optPackage = "hedgex"  /\ f \in {"delay", "hedgeProb"}
  \/ optPackage = "poolx"   /\ f \in {"workers", "queueSize", "batchSize"}
  \/ optPackage = "retryx"  /\ f = "backoff"
  \/ optPackage = "sharded" /\ f = "shardCount"
  \/ optPackage = "toutx"   /\ f = "timeout"
  \/ optPackage = "warmupx" /\ f \in {"maxCap", "stepCount", "duration"}
IsNatural(f) ==
  \/ optPackage = "bulkx"   /\ f = "maxWaiters"
  \/ optPackage = "lrux"    /\ f \in {"capacity", "ttl", "computeTTL"}
  \/ optPackage = "sharded" /\ f \in {"capacity", "ttl"}
  \/ optPackage = "warmupx" /\ f = "minCap"
IsShare(f) ==
  \/ optPackage = "hedgex"  /\ f = "hedgeProb"
  \/ optPackage = "warmupx" /\ f \in {"minCap", "maxCap"}

Fits(f, x) ==
  /\ x \in Int
  /\ IsPositive(f) => x > 0
  /\ IsNatural(f) => x >= 0
  /\ IsShare(f) => x <= Unit

FieldsInv ==
  /\ optPackage \in O!Packages /\ optUsed \in 0 .. MaxOptions
  /\ optCfg \in [DOMAIN O!Table -> Int]
  /\ \A f \in DOMAIN O!Table : Fits(f, optCfg[f])
  /\ optPackage = "fallx" /\ optCfg["strategy"] = 1 => optCfg["fallbackFn"] = 1

-----------------------------------------------------------------------------
(* The tables. *)

\* What Taking and its like store.
LEMMA OptionStores ==
  ASSUME SourceConstants
  PROVE  /\ \A J, v : v \in DOMAIN O!Taking(J) => v \in J /\ O!Taking(J)[v] = v
         /\ \A v \in DOMAIN O!Every : O!Every[v] \in Int
         /\ \A v \in DOMAIN O!Positive : O!Positive[v] \in Int /\ O!Positive[v] > 0
         /\ \A v \in DOMAIN O!Natural : O!Natural[v] \in Int /\ O!Natural[v] >= 0
         /\ \A v \in DOMAIN O!Share : O!Share[v] \in Int /\ O!Share[v] > 0 /\ O!Share[v] <= Unit
         /\ \A v \in DOMAIN O!Portion : O!Portion[v] \in Int /\ O!Portion[v] >= 0 /\
            O!Portion[v] <= Unit
         /\ \A v \in DOMAIN O!Fraction : O!Fraction[v] \in Int
         /\ \A v \in DOMAIN O!Floored : O!Floored[v] \in Int /\ O!Floored[v] >= 0
         /\ \A most \in Int : most > 0 =>
              \A v \in DOMAIN O!UpTo(most) :
                O!UpTo(most)[v] \in Int /\ O!UpTo(most)[v] > 0 /\ O!UpTo(most)[v] <= most
         /\ \A v \in DOMAIN O!Handle : O!Handle[v] \in Int
         /\ \A v \in DOMAIN O!Given : O!Given[v] \in Int
  BY SMTT(60) DEF SourceConstants, O!Taking, O!Every, O!Positive, O!Natural, O!Share, O!Portion,
         O!Fraction, O!Floored, O!UpTo, O!Handle, O!Given

\* Every default fits its field, and so does whatever an option stores there.
TableFits(M) ==
  \A f \in DOMAIN M : Fits(f, M[f][1]) /\ \A v \in DOMAIN M[f][2] : Fits(f, M[f][2][v])

LEMMA TablesFit == SourceConstants /\ optPackage \in O!Packages => TableFits(O!Table)
<1>. SUFFICES ASSUME SourceConstants, optPackage \in O!Packages PROVE TableFits(O!Table)
  OBVIOUS
<1>. USE OptionStores DEF TableFits, Fits, IsPositive, IsNatural, IsShare, SourceConstants, O!Table
<1>1. CASE optPackage = "adaptx"
  BY <1>1 DEF O!AdaptxOptions
<1>2. CASE optPackage = "bulkx"
  BY <1>2 DEF O!BulkxOptions
<1>3. CASE optPackage = "circuitx"
  BY <1>3 DEF O!CircuitxOptions
<1>4. CASE optPackage = "fallx"
  BY <1>4 DEF O!FallxOptions
<1>5. CASE optPackage = "hedgex"
  BY <1>5 DEF O!HedgexOptions
<1>6. CASE optPackage = "lrux"
  BY <1>6 DEF O!LruxOptions
<1>7. CASE optPackage = "sharded"
  BY <1>7 DEF O!ShardedOptions
<1>8. CASE optPackage = "poolx"
  BY <1>8 DEF O!PoolxOptions
<1>9. CASE optPackage = "quotax"
  BY <1>9 DEF O!QuotaxOptions
<1>10. CASE optPackage = "ratex"
  BY <1>10 DEF O!RatexOptions
<1>11. CASE optPackage = "retryx"
  BY <1>11 DEF O!RetryxOptions
<1>12. CASE optPackage = "shedx"
  BY <1>12 DEF O!ShedxOptions
<1>13. CASE optPackage = "toutx"
  BY <1>13 DEF O!ToutxOptions
<1>14. CASE optPackage = "warmupx"
  BY <1>14 DEF O!WarmupxOptions
<1>. QED
  BY <1>1, <1>2, <1>3, <1>4, <1>5, <1>6, <1>7, <1>8, <1>9, <1>10, <1>11, <1>12, <1>13, <1>14,
     ZenonT(30) DEF O!Packages

LEMMA TableSets ==
  /\ optPackage = "fallx" => /\ "strategy" \in DOMAIN O!Table /\ "fallbackFn" \in DOMAIN O!Table
                             /\ "cacheTTL" \in DOMAIN O!Table /\ "maxCacheSize" \in DOMAIN O!Table
                             /\ DOMAIN O!Table["strategy"][2] = {}
                             /\ DOMAIN O!Table["fallbackFn"][2] = {}
                             /\ O!Table["strategy"][1] = 0
  /\ optPackage = "shedx" => {"cutoffLow", "cutoffNormal", "cutoffHigh"} \subseteq DOMAIN O!Table
  /\ optPackage = "toutx" => DOMAIN O!Table = {"timeout", "op"}
<1>1. CASE optPackage = "fallx"
  <2>1. O!Table = O!FallxOptions
    BY <1>1 DEF O!Table
  <2>. QED
    BY <1>1, <2>1 DEF O!FallxOptions, O!Taking
<1>2. CASE optPackage = "shedx"
  <2>1. O!Table = O!ShedxOptions
    BY <1>2 DEF O!Table
  <2>. QED
    BY <1>2, <2>1 DEF O!ShedxOptions
<1>3. CASE optPackage = "toutx"
  <2>1. O!Table = O!ToutxOptions
    BY <1>3 DEF O!Table
  <2>. QED
    BY <1>3, <2>1 DEF O!ToutxOptions
<1>. QED
  BY <1>1, <1>2, <1>3

-----------------------------------------------------------------------------
(* Options keep every field fit. *)

LEMMA FieldsAtFirst == SourceConstants /\ O!Init => FieldsInv
<1>. SUFFICES ASSUME SourceConstants, O!Init PROVE FieldsInv
  OBVIOUS
<1>1. optPackage \in O!Packages /\ optUsed = 0 /\ optCfg = [f \in DOMAIN O!Table |-> O!Table[f][1]]
  BY DEF O!Init, O!Defaults
<1>2. \A f \in DOMAIN O!Table : Fits(f, O!Table[f][1])
  BY <1>1, TablesFit DEF TableFits
<1>3. optCfg \in [DOMAIN O!Table -> Int]
  BY <1>1, <1>2 DEF Fits
<1>4. optPackage = "fallx" => optCfg["strategy"] = 0
  BY <1>1, TableSets
<1>. QED
  BY <1>1, <1>2, <1>3, <1>4 DEF FieldsInv, SourceConstants

\* The tables and what fits belong to the package, which stays.
LEMMA KeepsFields ==
  ASSUME optPackage \in O!Packages, optPackage' = optPackage, optUsed' \in 0 .. MaxOptions,
         optCfg' \in [DOMAIN O!Table -> Int], \A f \in DOMAIN O!Table : Fits(f, optCfg'[f]),
         optPackage = "fallx" /\ optCfg'["strategy"] = 1 => optCfg'["fallbackFn"] = 1
  PROVE  FieldsInv'
<1>1. O!Table' = O!Table
  BY DEF O!Table
<1>2. \A f, x : Fits(f, x) => /\ x \in Int
                              /\ (IsPositive(f))' => x > 0
                              /\ (IsNatural(f))' => x >= 0
                              /\ (IsShare(f))' => x <= Unit
  BY DEF Fits, IsPositive, IsNatural, IsShare
<1>3. \A f \in DOMAIN O!Table' : (Fits(f, optCfg[f]))'
  BY <1>1, <1>2 DEF Fits
<1>. QED
  BY <1>1, <1>3 DEF FieldsInv

LEMMA WithStep ==
  ASSUME SourceConstants, FieldsInv, UNCHANGED optPackage, optUsed' \in 0 .. MaxOptions,
         NEW f \in DOMAIN O!Table, NEW v \in DOMAIN O!Table[f][2], O!With(f, v)
  PROVE  FieldsInv'
<1>. DEFINE x == O!Table[f][2][v]
<1>1. Fits(f, x) /\ x \in Int
  BY TablesFit DEF TableFits, FieldsInv, Fits
<1>2. optCfg' = [optCfg EXCEPT ![f] = x]
  BY DEF O!With
<1>. HIDE DEF x
<1>3. optCfg' \in [DOMAIN O!Table -> Int] /\
      \A g \in DOMAIN O!Table : optCfg'[g] = IF g = f THEN x ELSE optCfg[g]
  BY <1>1, <1>2 DEF FieldsInv
<1>4. \A g \in DOMAIN O!Table : Fits(g, optCfg'[g])
  BY <1>1, <1>3 DEF FieldsInv
<1>5. optPackage = "fallx" => f # "strategy" /\ f # "fallbackFn"
  BY TableSets
<1>6. optPackage = "fallx" /\ optCfg'["strategy"] = 1 => optCfg'["fallbackFn"] = 1
  BY <1>3, <1>5, TableSets DEF FieldsInv
<1>. QED
  BY <1>3, <1>4, <1>6, KeepsFields DEF FieldsInv

LEMMA FallxStep ==
  ASSUME SourceConstants, FieldsInv, UNCHANGED optPackage, optUsed' \in 0 .. MaxOptions,
         optPackage = "fallx", O!Static \/ O!Func \/ \E ttl, max \in Raw : O!Cached(ttl, max)
  PROVE  FieldsInv'
<1>1. /\ optCfg \in [DOMAIN O!Table -> Int] /\ \A f \in DOMAIN O!Table : Fits(f, optCfg[f])
      /\ {"strategy", "fallbackFn", "cacheTTL", "maxCacheSize"} \subseteq DOMAIN O!Table
  BY TableSets DEF FieldsInv
<1>2. \A f, x : x \in Int /\ (f = "maxCacheSize" => x > 0) => Fits(f, x)
  BY DEF Fits, IsPositive, IsNatural, IsShare
<1>. DEFINE Keeps == /\ optCfg' \in [DOMAIN O!Table -> Int]
                     /\ \A f \in DOMAIN O!Table : Fits(f, optCfg'[f])
                     /\ optCfg'["strategy"] = 1 => optCfg'["fallbackFn"] = 1
<1>3. ASSUME O!Static PROVE Keeps
  <2>1. optCfg' = [optCfg EXCEPT !["strategy"] = 0]
    BY <1>3 DEF O!Static
  <2>2. \A f \in DOMAIN O!Table : optCfg'[f] = 0 \/ optCfg'[f] = optCfg[f]
    BY <1>1, <2>1
  <2>3. \A f \in DOMAIN O!Table : f # "maxCacheSize" \/ optCfg'[f] = optCfg[f]
    BY <1>1, <2>1
  <2>4. \A f \in DOMAIN O!Table : Fits(f, optCfg'[f])
    BY <1>1, <1>2, <2>2, <2>3
  <2>. QED
    BY <1>1, <2>1, <2>4
<1>4. ASSUME O!Func PROVE Keeps
  <2>1. optCfg' = [optCfg EXCEPT !["strategy"] = 1, !["fallbackFn"] = 1]
    BY <1>4 DEF O!Func
  <2>2. \A f \in DOMAIN O!Table : optCfg'[f] = 1 \/ optCfg'[f] = optCfg[f]
    BY <1>1, <2>1
  <2>3. \A f \in DOMAIN O!Table : Fits(f, optCfg'[f])
    BY <1>1, <1>2, <2>2
  <2>. QED
    BY <1>1, <2>1, <2>3
<1>5. ASSUME NEW ttl \in Raw, NEW max \in Raw, O!Cached(ttl, max) PROVE Keeps
  <2>. DEFINE t == IF ttl > 0 THEN ttl ELSE optCfg["cacheTTL"]
              m == IF max > 0 THEN max ELSE optCfg["maxCacheSize"]
  <2>1. optCfg' = [optCfg EXCEPT !["strategy"] = 2, !["cacheTTL"] = t, !["maxCacheSize"] = m]
    BY <1>5 DEF O!Cached
  <2>2. ttl \in Int /\ max \in Int
    BY DEF SourceConstants
  <2>3. optCfg["cacheTTL"] \in Int /\ optCfg["maxCacheSize"] \in Int /\ optCfg["maxCacheSize"] > 0
    <3>1. Fits("maxCacheSize", optCfg["maxCacheSize"]) /\ optCfg["cacheTTL"] \in Int
      BY <1>1
    <3>. QED
      BY <3>1 DEF Fits, IsPositive
  <2>4. t \in Int /\ m \in Int /\ m > 0
    BY <2>2, <2>3
  <2>. HIDE DEF t, m
  <2>5. optCfg' \in [DOMAIN O!Table -> Int] /\ optCfg'["strategy"] = 2
    BY <1>1, <2>1, <2>4
  <2>6. ASSUME NEW f \in DOMAIN O!Table PROVE Fits(f, optCfg'[f])
    <3>1. CASE f = "maxCacheSize"
      BY <1>1, <1>2, <2>1, <2>4, <3>1
    <3>2. CASE f # "maxCacheSize"
      BY <1>1, <1>2, <2>1, <2>4, <3>2
    <3>. QED
      BY <3>1, <3>2
  <2>. QED
    BY <2>5, <2>6
<1>6. Keeps
  BY <1>3, <1>4, <1>5
<1>. QED
  BY <1>6, KeepsFields DEF FieldsInv

LEMMA CutoffsStep ==
  ASSUME SourceConstants, FieldsInv, UNCHANGED optPackage, optUsed' \in 0 .. MaxOptions,
         optPackage = "shedx", NEW l \in Raw, NEW n \in Raw, NEW h \in Raw, O!WithCutoffs(l, n, h)
  PROVE  FieldsInv'
<1>1. \A f, x : x \in Int => Fits(f, x)
  BY DEF Fits, IsPositive, IsNatural, IsShare
<1>2. optCfg' \in [DOMAIN O!Table -> Int]
  BY TableSets DEF O!WithCutoffs, FieldsInv, SourceConstants
<1>. QED
  BY <1>1, <1>2, KeepsFields DEF FieldsInv

LEMMA TimerStep ==
  ASSUME SourceConstants, FieldsInv, UNCHANGED optPackage, optUsed' \in 0 .. MaxOptions,
         optPackage = "toutx", NEW d \in DOMAIN O!Positive, NEW op \in {0, 1}, O!WithTimer(d, op)
  PROVE  FieldsInv'
<1>1. d \in Int /\ d > 0
  BY DEF O!Positive, O!Taking, SourceConstants
<1>2. optCfg' \in [{"timeout", "op"} -> Int] /\ optCfg'["timeout"] = d /\ optCfg'["op"] = op
  BY <1>1 DEF O!WithTimer
<1>3. Fits("timeout", d) /\ Fits("op", op)
  BY <1>1 DEF Fits, IsPositive, IsNatural, IsShare
<1>4. \A f \in {"timeout", "op"} : Fits(f, optCfg'[f])
  BY <1>2, <1>3
<1>. QED
  BY <1>2, <1>4, TableSets, KeepsFields DEF FieldsInv

LEMMA FieldsStay == SourceConstants /\ FieldsInv /\ [O!Next]_(O!vars) => FieldsInv'
<1>. SUFFICES ASSUME SourceConstants, FieldsInv, [O!Next]_(O!vars) PROVE FieldsInv'
  OBVIOUS
<1>1. CASE UNCHANGED O!vars
  BY <1>1, KeepsFields DEF O!vars, FieldsInv
<1>2. CASE optUsed < MaxOptions /\ optUsed' = optUsed + 1 /\ UNCHANGED optPackage
  <2>1. optUsed' \in 0 .. MaxOptions
    BY <1>2 DEF FieldsInv, SourceConstants
  <2>2. \/ \E f \in DOMAIN O!Table : \E v \in DOMAIN O!Table[f][2] : O!With(f, v)
        \/ optPackage = "fallx" /\ (O!Static \/ O!Func \/ \E ttl, max \in Raw : O!Cached(ttl, max))
        \/ optPackage = "shedx" /\ \E l, n, h \in Raw : O!WithCutoffs(l, n, h)
        \/ optPackage = "toutx" /\ \E d \in DOMAIN O!Positive, op \in {0, 1} : O!WithTimer(d, op)
        \/ UNCHANGED O!vars
    BY DEF O!Next
  <2>. QED
    BY <1>1, <1>2, <2>1, <2>2, WithStep, FallxStep, CutoffsStep, TimerStep
<1>. QED
  BY <1>1, <1>2 DEF O!Next

-----------------------------------------------------------------------------
(* newConfig: one lemma per package. *)

LEMMA AdaptxSound ==
  ASSUME SourceConstants, FieldsInv, optPackage = "adaptx" PROVE O!ConfigSound
<1>1. O!Table = O!AdaptxOptions
  BY DEF O!Table
<1>. DEFINE Z == DOMAIN O!AdaptxOptions
<1>2. optCfg \in [Z -> Int] /\ {"minLimit", "maxLimit", "initialLimit"} \subseteq Z
  BY <1>1 DEF FieldsInv, O!AdaptxOptions
<1>. DEFINE floor == O!AtLeast(optCfg, "minLimit", 1)
            top   == O!AtLeast(floor, "maxLimit", floor["minLimit"])
            low   == O!AtLeast(top, "initialLimit", top["minLimit"])
            out   == O!AtMost(low, "initialLimit", low["maxLimit"])
<1>. HIDE DEF Z
<1>3. /\ floor \in [Z -> Int] /\ floor["minLimit"] >= 1
      /\ optCfg["minLimit"] >= 1 => floor = optCfg
  BY <1>2 DEF O!AtLeast
<1>. HIDE DEF floor
<1>4. /\ top \in [Z -> Int] /\ top["minLimit"] = floor["minLimit"] /\
         top["maxLimit"] >= top["minLimit"]
      /\ floor["maxLimit"] >= floor["minLimit"] => top = floor
  BY <1>2, <1>3 DEF O!AtLeast
<1>. HIDE DEF top
<1>5. /\ low \in [Z -> Int] /\ low["minLimit"] = top["minLimit"] /\
         low["maxLimit"] = top["maxLimit"]
      /\ low["initialLimit"] >= top["minLimit"]
      /\ top["initialLimit"] >= top["minLimit"] => low = top
  BY <1>2, <1>4 DEF O!AtLeast
<1>. HIDE DEF low
<1>6. /\ out \in [Z -> Int] /\ out["minLimit"] = low["minLimit"] /\
         out["maxLimit"] = low["maxLimit"]
      /\ out["initialLimit"] <= low["maxLimit"] /\ out["initialLimit"] >= low["minLimit"]
      /\ low["initialLimit"] <= low["maxLimit"] => out = low
  BY <1>2, <1>3, <1>4, <1>5 DEF O!AtMost
<1>7. O!Config(optCfg) = O!AtMost(O!AtLeast(top, "initialLimit", top["minLimit"]), "initialLimit",
      top["maxLimit"])
  BY DEF O!Config, O!AdaptxConfig, top, floor
<1>8. O!Config(optCfg) = out
  BY <1>5, <1>7 DEF low
<1>9. \A c : O!Usable(c) <=> /\ 1 <= c["minLimit"] /\ c["minLimit"] <= c["initialLimit"]
                             /\ c["initialLimit"] <= c["maxLimit"]
  BY DEF O!Usable
<1>. HIDE DEF out
<1>10. O!Usable(out)
  BY <1>2, <1>3, <1>4, <1>5, <1>6, <1>9
<1>11. O!Usable(optCfg) => out = optCfg
  BY <1>2, <1>3, <1>4, <1>5, <1>6, <1>9
<1>. QED
  BY <1>8, <1>10, <1>11 DEF O!ConfigSound

LEMMA BulkxSound == ASSUME SourceConstants, FieldsInv, optPackage = "bulkx" PROVE O!ConfigSound
<1>1. O!Table = O!BulkxOptions
  BY DEF O!Table
<1>2. optCfg \in [DOMAIN O!BulkxOptions -> Int] /\
      \A f \in DOMAIN O!BulkxOptions : Fits(f, optCfg[f])
  BY <1>1 DEF FieldsInv
<1>. QED
  BY <1>1, <1>2 DEF O!ConfigSound, O!Usable, O!Config, O!BulkxConfig, O!AtLeast, O!BulkxOptions,
         O!Defaults, Fits, IsPositive, IsNatural, IsShare, SourceConstants

LEMMA CircuitxSound ==
  ASSUME SourceConstants, FieldsInv, optPackage = "circuitx" PROVE O!ConfigSound
<1>1. O!Table = O!CircuitxOptions
  BY DEF O!Table
<1>. DEFINE Z == DOMAIN O!CircuitxOptions
<1>2. /\ optCfg \in [Z -> Int] /\ O!Defaults["resetTimeout"] = 2
      /\ {"resetTimeout", "maxFailures", "halfOpenMax", "successThreshold"} \subseteq Z
  BY <1>1 DEF FieldsInv, O!CircuitxOptions, O!Defaults
<1>. DEFINE t == IF optCfg["resetTimeout"] <= 0
                 THEN [optCfg EXCEPT !["resetTimeout"] = O!Defaults["resetTimeout"]]
                 ELSE optCfg
            m == O!AtLeast(t, "maxFailures", 1)
            h == O!AtLeast(m, "halfOpenMax", 1)
            s == O!AtLeast(h, "successThreshold", 1)
<1>. HIDE DEF Z
<1>3. t \in [Z -> Int] /\ t["resetTimeout"] > 0 /\ (optCfg["resetTimeout"] > 0 => t = optCfg)
  BY <1>2
<1>. HIDE DEF t
<1>4. /\ m \in [Z -> Int] /\ m["resetTimeout"] > 0 /\ m["maxFailures"] >= 1
      /\ t["maxFailures"] >= 1 => m = t
  BY <1>2, <1>3 DEF O!AtLeast
<1>. HIDE DEF m
<1>5. /\ h \in [Z -> Int] /\ h["resetTimeout"] > 0 /\ h["maxFailures"] >= 1 /\ h["halfOpenMax"] >= 1
      /\ m["halfOpenMax"] >= 1 => h = m
  BY <1>2, <1>4 DEF O!AtLeast
<1>. HIDE DEF h
<1>6. /\ s \in [Z -> Int] /\ s["resetTimeout"] > 0 /\ s["maxFailures"] >= 1 /\ s["halfOpenMax"] >= 1
      /\ s["successThreshold"] >= 1
      /\ h["successThreshold"] >= 1 => s = h
  BY <1>2, <1>5 DEF O!AtLeast
<1>7. O!Config(optCfg) = s
  BY DEF O!Config, O!CircuitxConfig, t, m, h
<1>8. \A c : O!Usable(c) <=> /\ c["maxFailures"] >= 1 /\ c["halfOpenMax"] >= 1
                             /\ c["successThreshold"] >= 1 /\ c["resetTimeout"] > 0
  BY DEF O!Usable
<1>. HIDE DEF s
<1>9. O!Usable(s)
  BY <1>6, <1>8
<1>10. O!Usable(optCfg) => s = optCfg
  BY <1>2, <1>3, <1>4, <1>5, <1>6, <1>8
<1>. QED
  BY <1>7, <1>9, <1>10 DEF O!ConfigSound

LEMMA FallxSound == ASSUME SourceConstants, FieldsInv, optPackage = "fallx" PROVE O!ConfigSound
<1>1. O!Table = O!FallxOptions
  BY DEF O!Table
<1>2. /\ optCfg \in [DOMAIN O!FallxOptions -> Int] /\
         \A f \in DOMAIN O!FallxOptions : Fits(f, optCfg[f])
      /\ optCfg["strategy"] = 1 => optCfg["fallbackFn"] = 1
  BY <1>1 DEF FieldsInv
<1>3. optCfg["maxCacheSize"] \in Nat /\ optCfg["maxCacheSize"] > 0 /\ optCfg["shardCount"] \in Int
  BY <1>2 DEF O!FallxOptions, Fits, IsPositive
<1>. DEFINE few == optCfg["maxCacheSize"] \div ShardDivisor
<1>4. few \in Int /\ few <= optCfg["maxCacheSize"]
  <2>1. \A m \in Nat, d \in Nat \ {0} : m \div d \in Int /\ m \div d <= m
    OBVIOUS
  <2>. QED
    BY <1>3, <2>1 DEF SourceConstants
<1>. HIDE DEF few
<1>. DEFINE most == optCfg["maxCacheSize"]
            some == IF optCfg["shardCount"] < 1 THEN 1 ELSE optCfg["shardCount"]
            n    == IF some > most THEN (IF few < 1 THEN 1 ELSE few) ELSE some
<1>5. O!FallxConfig(optCfg) = [optCfg EXCEPT !["shardCount"] = n]
  <2>. DEFINE s == [optCfg EXCEPT !["shardCount"] = some]
  <2>1. s = O!AtLeast(optCfg, "shardCount", 1)
    BY <1>2 DEF O!AtLeast, O!FallxOptions
  <2>2. O!FallxConfig(optCfg) = IF s["maxCacheSize"] > 0 /\ s["shardCount"] > s["maxCacheSize"]
                                THEN [s EXCEPT !["shardCount"] = IF few < 1 THEN 1 ELSE few] ELSE s
    BY <2>1 DEF O!FallxConfig, few
  <2>3. s["maxCacheSize"] = most /\ s["shardCount"] = some
    BY <1>2 DEF O!FallxOptions
  <2>. HIDE DEF some, most
  <2>4. \A x : [s EXCEPT !["shardCount"] = x] = [optCfg EXCEPT !["shardCount"] = x]
    BY <1>2 DEF O!FallxOptions
  <2>. QED
    BY <1>3, <2>2, <2>3, <2>4 DEF most
<1>9. /\ n \in Int /\ 1 <= n /\ n <= most
      /\ 1 <= optCfg["shardCount"] /\ optCfg["shardCount"] <= most => n = optCfg["shardCount"]
  BY <1>3, <1>4
<1>. HIDE DEF n
<1>6. O!Config(optCfg) = O!FallxConfig(optCfg)
  BY DEF O!Config
<1>7. \A c : O!Usable(c) <=> /\ 1 <= c["shardCount"] /\ c["shardCount"] <= c["maxCacheSize"]
                             /\ c["strategy"] = 1 => c["fallbackFn"] = 1
  BY DEF O!Usable
<1>8. /\ optCfg \in [DOMAIN O!FallxOptions -> Int]
      /\ {"shardCount", "maxCacheSize", "strategy", "fallbackFn"} \subseteq DOMAIN O!FallxOptions
  BY <1>2 DEF O!FallxOptions
<1>. QED
  BY <1>2, <1>5, <1>6, <1>7, <1>8, <1>9 DEF O!ConfigSound

LEMMA HedgexSound == ASSUME SourceConstants, FieldsInv, optPackage = "hedgex" PROVE O!ConfigSound
<1>1. O!Table = O!HedgexOptions
  BY DEF O!Table
<1>2. optCfg \in [DOMAIN O!HedgexOptions -> Int] /\
      \A f \in DOMAIN O!HedgexOptions : Fits(f, optCfg[f])
  BY <1>1 DEF FieldsInv
<1>. QED
  BY <1>1, <1>2 DEF O!ConfigSound, O!Usable, O!Config, O!HedgexConfig, O!AtLeast, O!HedgexOptions,
         O!Defaults, Fits, IsPositive, IsNatural, IsShare, SourceConstants

LEMMA LruxSound == ASSUME SourceConstants, FieldsInv, optPackage = "lrux" PROVE O!ConfigSound
<1>1. O!Table = O!LruxOptions
  BY DEF O!Table
<1>2. optCfg \in [DOMAIN O!LruxOptions -> Int] /\ \A f \in DOMAIN O!LruxOptions : Fits(f, optCfg[f])
  BY <1>1 DEF FieldsInv
<1>. QED
  BY <1>1, <1>2 DEF O!ConfigSound, O!Usable, O!Config, O!LruxOptions,
         O!Defaults, Fits, IsPositive, IsNatural, IsShare, SourceConstants

LEMMA PoolxSound == ASSUME SourceConstants, FieldsInv, optPackage = "poolx" PROVE O!ConfigSound
<1>1. O!Table = O!PoolxOptions
  BY DEF O!Table
<1>2. optCfg \in [DOMAIN O!PoolxOptions -> Int] /\
      \A f \in DOMAIN O!PoolxOptions : Fits(f, optCfg[f])
  BY <1>1 DEF FieldsInv
<1>. QED
  BY <1>1, <1>2 DEF O!ConfigSound, O!Usable, O!Config, O!PoolxOptions,
         O!Defaults, Fits, IsPositive, IsNatural, IsShare, SourceConstants

LEMMA QuotaxSound == ASSUME SourceConstants, FieldsInv, optPackage = "quotax" PROVE O!ConfigSound
<1>1. O!Table = O!QuotaxOptions
  BY DEF O!Table
<1>2. optCfg \in [DOMAIN O!QuotaxOptions -> Int] /\
      \A f \in DOMAIN O!QuotaxOptions : Fits(f, optCfg[f])
  BY <1>1 DEF FieldsInv
<1>. QED
  BY <1>1, <1>2 DEF O!ConfigSound, O!Usable, O!Config, O!RateConfig, O!AtLeast, O!QuotaxOptions,
         O!Defaults, Fits, IsPositive, IsNatural, IsShare, SourceConstants

LEMMA RatexSound == ASSUME SourceConstants, FieldsInv, optPackage = "ratex" PROVE O!ConfigSound
<1>1. O!Table = O!RatexOptions
  BY DEF O!Table
<1>2. optCfg \in [DOMAIN O!RatexOptions -> Int] /\
      \A f \in DOMAIN O!RatexOptions : Fits(f, optCfg[f])
  BY <1>1 DEF FieldsInv
<1>. QED
  BY <1>1, <1>2 DEF O!ConfigSound, O!Usable, O!Config, O!RateConfig, O!AtLeast, O!RatexOptions,
         O!Defaults, Fits, IsPositive, IsNatural, IsShare, SourceConstants

LEMMA RetryxSound == ASSUME SourceConstants, FieldsInv, optPackage = "retryx" PROVE O!ConfigSound
<1>1. O!Table = O!RetryxOptions
  BY DEF O!Table
<1>2. optCfg \in [DOMAIN O!RetryxOptions -> Int] /\
      \A f \in DOMAIN O!RetryxOptions : Fits(f, optCfg[f])
  BY <1>1 DEF FieldsInv
<1>. QED
  BY <1>1, <1>2 DEF O!ConfigSound, O!Usable, O!Config, O!RetryxConfig, O!AtLeast, O!RetryxOptions,
         O!Defaults, Fits, IsPositive, IsNatural, IsShare, SourceConstants

LEMMA ShedxSound == ASSUME SourceConstants, FieldsInv, optPackage = "shedx" PROVE O!ConfigSound
<1>1. O!Table = O!ShedxOptions
  BY DEF O!Table
<1>2. /\ optCfg \in [DOMAIN O!ShedxOptions -> Int]
      /\ DOMAIN O!ShedxOptions = {"capacity", "threshold", "hysteresis", "cutoffLow",
         "cutoffNormal",
                                  "cutoffHigh", "op"}
      /\ O!Defaults["threshold"] = 3 /\ O!Defaults["cutoffLow"] = 1
      /\ O!Defaults["cutoffNormal"] = 2 /\ O!Defaults["cutoffHigh"] = 3
      /\ Unit \in Int /\ Unit >= 3
  BY <1>1 DEF FieldsInv, O!ShedxOptions, O!Defaults, SourceConstants
<1>. DEFINE cap == O!AtLeast(optCfg, "capacity", 1)
            t   == IF cap["threshold"] > 0 /\ cap["threshold"] <= Unit THEN cap
                   ELSE [cap EXCEPT !["threshold"] = O!Defaults["threshold"]]
            h   == IF t["hysteresis"] > 0 /\ t["hysteresis"] < t["threshold"] THEN t
                   ELSE [t EXCEPT !["hysteresis"] = 0]
            Base(c) == /\ c \in [DOMAIN O!ShedxOptions -> Int]
                       /\ c["capacity"] >= 1 /\ 0 < c["threshold"] /\ c["threshold"] <= Unit
                       /\ 0 <= c["hysteresis"] /\ c["hysteresis"] < c["threshold"]
<1>3. cap \in [DOMAIN O!ShedxOptions -> Int] /\ cap["capacity"] >= 1
      /\ (optCfg["capacity"] >= 1 => cap = optCfg)
  BY <1>2 DEF O!AtLeast
<1>. HIDE DEF cap
<1>4. /\ t \in [DOMAIN O!ShedxOptions -> Int] /\ t["capacity"] >= 1
      /\ 0 < t["threshold"] /\ t["threshold"] <= Unit
      /\ (0 < cap["threshold"] /\ cap["threshold"] <= Unit => t = cap)
  BY <1>2, <1>3
<1>. HIDE DEF t
<1>5. Base(h)
  BY <1>2, <1>4
<1>6. 0 <= t["hysteresis"] /\ t["hysteresis"] < t["threshold"] => h = t
  <2>1. t["hysteresis"] = 0 => [t EXCEPT !["hysteresis"] = 0] = t
    BY <1>2, <1>4
  <2>. QED
    BY <1>2, <1>4, <2>1
<1>7. O!ShedxConfig(optCfg) =
        IF O!Ordered(h) THEN h
        ELSE [h EXCEPT !["cutoffLow"] = O!Defaults["cutoffLow"],
                       !["cutoffNormal"] = O!Defaults["cutoffNormal"],
                       !["cutoffHigh"] = O!Defaults["cutoffHigh"]]
  BY DEF O!ShedxConfig, cap, t
<1>8. O!Config(optCfg) = O!ShedxConfig(optCfg)
  BY DEF O!Config
<1>9. \A c \in [DOMAIN O!ShedxOptions -> Int] : O!Usable(c) <=> Base(c) /\ O!Ordered(c)
  BY <1>2 DEF O!Usable
<1>. HIDE DEF h
<1>10. Base(O!ShedxConfig(optCfg)) /\ O!Ordered(O!ShedxConfig(optCfg))
  <2>1. CASE O!Ordered(h)
    BY <1>5, <1>7, <2>1
  <2>2. CASE ~O!Ordered(h)
    <3>. DEFINE d == O!ShedxConfig(optCfg)
    <3>1. d = [h EXCEPT !["cutoffLow"] = 1, !["cutoffNormal"] = 2, !["cutoffHigh"] = 3]
      BY <1>2, <1>7, <2>2
    <3>. HIDE DEF d
    <3>2. d["cutoffLow"] = 1 /\ d["cutoffNormal"] = 2 /\ d["cutoffHigh"] = 3 /\ Base(d)
      BY <1>2, <1>5, <3>1
    <3>3. O!Ordered(d)
      BY <1>2, <3>2 DEF O!Ordered, O!ValidCutoff
    <3>. QED
      BY <3>2, <3>3 DEF d
  <2>. QED
    BY <2>1, <2>2
<1>11. Base(optCfg) => h = optCfg
  BY <1>3, <1>4, <1>6
<1>. QED
  BY <1>2, <1>7, <1>8, <1>9, <1>10, <1>11 DEF O!ConfigSound

LEMMA ToutxSound == ASSUME SourceConstants, FieldsInv, optPackage = "toutx" PROVE O!ConfigSound
<1>1. O!Table = O!ToutxOptions
  BY DEF O!Table
<1>2. optCfg \in [DOMAIN O!ToutxOptions -> Int] /\
      \A f \in DOMAIN O!ToutxOptions : Fits(f, optCfg[f])
  BY <1>1 DEF FieldsInv
<1>. QED
  BY <1>1, <1>2 DEF O!ConfigSound, O!Usable, O!Config, O!ToutxOptions,
         O!Defaults, Fits, IsPositive, IsNatural, IsShare, SourceConstants

LEMMA WarmupxSound == ASSUME SourceConstants, FieldsInv, optPackage = "warmupx" PROVE O!ConfigSound
<1>1. O!Table = O!WarmupxOptions
  BY DEF O!Table
<1>2. /\ optCfg \in [DOMAIN O!WarmupxOptions -> Int]
      /\ DOMAIN O!WarmupxOptions = {"strategy", "minCap", "maxCap", "duration", "interval",
         "stepCount",
                                    "expFactor", "onCapChange", "onComplete", "op", "now"}
  BY <1>1 DEF FieldsInv, O!WarmupxOptions
<1>3. /\ 0 <= optCfg["minCap"] /\ optCfg["minCap"] <= Unit /\ 0 < optCfg["maxCap"] /\
         optCfg["maxCap"] <= Unit
      /\ optCfg["stepCount"] >= 1 /\ optCfg["duration"] > 0
  BY <1>1, <1>2 DEF FieldsInv, Fits, IsPositive, IsNatural, IsShare
<1>4. /\ MinInterval \in Int /\ MinInterval > 0 /\ MaxInterval \in Int /\ MinInterval <= MaxInterval
      /\ Unit \in Int /\ optCfg["duration"] \div IntervalDivisor \in Int
  BY <1>2 DEF SourceConstants
<1>. DEFINE m == O!AtLeast(optCfg, "maxCap", optCfg["minCap"])
            i == IF m["interval"] <= 0
                 THEN [m EXCEPT !["interval"] = m["duration"] \div IntervalDivisor] ELSE m
            low == O!AtLeast(i, "interval", MinInterval)
            out == O!AtMost(low, "interval", MaxInterval)
            Base(c) == /\ c \in [DOMAIN O!WarmupxOptions -> Int]
                       /\ 0 <= c["minCap"] /\ c["minCap"] <= c["maxCap"] /\ 0 < c["maxCap"]
                       /\ c["maxCap"] <= Unit /\ c["stepCount"] >= 1 /\ c["duration"] > 0
<1>5. Base(m) /\ m["duration"] = optCfg["duration"] /\
      (optCfg["minCap"] <= optCfg["maxCap"] => m = optCfg)
  BY <1>2, <1>3, <1>4 DEF O!AtLeast
<1>. HIDE DEF m
<1>6. Base(i) /\ (m["interval"] >= MinInterval => i = m)
  BY <1>2, <1>4, <1>5
<1>. HIDE DEF i
<1>7. Base(low) /\ low["interval"] >= MinInterval /\ (i["interval"] >= MinInterval => low = i)
  BY <1>2, <1>4, <1>6 DEF O!AtLeast
<1>. HIDE DEF low
<1>8. /\ Base(out) /\ MinInterval <= out["interval"] /\ out["interval"] <= MaxInterval
      /\ low["interval"] <= MaxInterval => out = low
  BY <1>2, <1>4, <1>7 DEF O!AtMost
<1>9. O!Config(optCfg) = out
  BY DEF O!Config, O!WarmupxConfig, m, i, low
<1>. HIDE DEF out
<1>10. \A c \in [DOMAIN O!WarmupxOptions -> Int] :
         O!Usable(c) <=> Base(c) /\ MinInterval <= c["interval"] /\ c["interval"] <= MaxInterval
  BY <1>2 DEF O!Usable
<1>11. O!Usable(optCfg) => out = optCfg
  BY <1>2, <1>5, <1>6, <1>7, <1>8, <1>10
<1>. QED
  BY <1>2, <1>8, <1>9, <1>10, <1>11 DEF O!ConfigSound

-----------------------------------------------------------------------------
(* NewSharded: nextPow2 finds a power of two, and its argument if that is one. *)

\* The subsets of 1 .. n + 1 are those of 1 .. n, without and with n + 1.
LEMMA TwiceThePower == \A n \in Nat : 2 ^ (n + 1) = 2 * 2 ^ n /\ 2 ^ n \in Nat
<1>. SUFFICES ASSUME NEW n \in Nat PROVE 2 ^ (n + 1) = 2 * 2 ^ n /\ 2 ^ n \in Nat
  OBVIOUS
<1>. DEFINE Q == SUBSET (1 .. n)
            U == {J \cup {n + 1} : J \in Q}
            f == [J \in Q |-> J \cup {n + 1}]
<1>1. \A m \in Nat : /\ IsFiniteSet(SUBSET (1 .. m)) /\ Cardinality(SUBSET (1 .. m)) = 2 ^ m
  <2>1. \A m \in Nat : IsFiniteSet(1 .. m) /\ Cardinality(1 .. m) = m
    BY FS_Interval
  <2>. QED
    BY <2>1, FS_SUBSET
<1>2. SUBSET (1 .. n + 1) = Q \cup U /\ Q \cap U = {}
  <2>1. 1 .. n + 1 = (1 .. n) \cup {n + 1} /\ n + 1 \notin 1 .. n
    OBVIOUS
  <2>2. ASSUME NEW J \in SUBSET (1 .. n + 1), n + 1 \in J PROVE J \in U
    <3>1. J \ {n + 1} \in Q /\ J = (J \ {n + 1}) \cup {n + 1}
      BY <2>1, <2>2
    <3>. QED
      BY <3>1
  <2>. QED
    BY <2>1, <2>2, ZenonT(30)
<1>3. f \in Bijection(Q, U)
  <2>1. \A J, M \in Q : J \cup {n + 1} = M \cup {n + 1} => J = M
    <3>1. \A J \in Q : (J \cup {n + 1}) \ {n + 1} = J
      OBVIOUS
    <3>. QED
      BY <3>1
  <2>2. f \in [Q -> U] /\ (\A J \in Q : f[J] = J \cup {n + 1}) /\ \A M \in U : \E J \in Q : f[J] = M
    OBVIOUS
  <2>. HIDE DEF f, Q, U
  <2>. QED
    BY <2>1, <2>2, Fun_IsBij
<1>4. IsFiniteSet(Q) /\ Cardinality(Q) = 2 ^ n /\ IsFiniteSet(U) /\ Cardinality(U) = 2 ^ n
  BY <1>1, <1>3, FS_Bijection DEF ExistsBijection
<1>5. Cardinality(Q \cap U) = 0
  BY <1>2, FS_EmptySet
<1>6. 2 ^ n \in Nat
  BY <1>4, FS_CardinalityType
<1>7. Cardinality(Q \cup U) = 2 ^ (n + 1)
  <2>1. Cardinality(SUBSET (1 .. n + 1)) = 2 ^ (n + 1)
    BY <1>1
  <2>. HIDE DEF Q, U, f
  <2>. QED
    BY <1>2, <2>1
<1>. HIDE DEF Q, U, f
<1>. QED
  BY <1>4, <1>5, <1>6, <1>7, FS_Union

LEMMA Inductively ==
  ASSUME NEW J, J \subseteq Nat, 0 \in J, \A n \in J : n + 1 \in J PROVE J = Nat
<1>. DEFINE U == Nat \ J
<1>1. SUFFICES ASSUME U # {} PROVE FALSE
  OBVIOUS
<1>2. PICK n \in U : \A m \in U : n <= m
  <2>. HIDE DEF U
  <2>1. U \subseteq Nat
    BY DEF U
  <2>. QED
    BY <1>1, <2>1, LeastOf
<1>3. n - 1 \in Nat /\ (n - 1) + 1 = n
  OBVIOUS
<1>4. n - 1 \in J
  BY <1>2, <1>3
<1>. QED
  BY <1>3, <1>4

LEMMA PowerExceeds == \A n \in Nat : n < 2 ^ n
<1>. DEFINE J == {n \in Nat : n < 2 ^ n}
<1>1. 0 \in J
  OBVIOUS
<1>2. \A n \in J : n + 1 \in J
  BY TwiceThePower
<1>3. J = Nat
  BY <1>1, <1>2, Inductively
<1>. QED
  BY <1>3

LEMMA PowersGrow == \A i, j \in Nat : i < j => 2 * 2 ^ i <= 2 ^ j
<1>. SUFFICES ASSUME NEW i \in Nat PROVE \A j \in Nat : i < j => 2 * 2 ^ i <= 2 ^ j
  OBVIOUS
<1>. DEFINE J == {j \in Nat : i < j => 2 * 2 ^ i <= 2 ^ j}
<1>1. 0 \in J
  OBVIOUS
<1>2. \A j \in J : j + 1 \in J
  BY TwiceThePower
<1>3. J = Nat
  BY <1>1, <1>2, Inductively
<1>. QED
  BY <1>3

\* The exponent is the least that reaches n.
LEMMA NextPow2Found ==
  ASSUME NEW n \in Nat, n > 0
  PROVE  \E i \in 0 .. n : O!NextPow2(n) = 2 ^ i /\ 2 ^ i >= n
<1>. DEFINE Good(p) == p >= n /\ (p = 1 \/ p \div 2 < n)
            Reach   == {i \in Nat : 2 ^ i >= n}
<1>1. n \in Reach
  BY PowerExceeds, TwiceThePower
<1>2. PICK i \in Reach : \A k \in Reach : i <= k
  <2>1. Reach \subseteq Nat
    OBVIOUS
  <2>. HIDE DEF Reach
  <2>. QED
    BY <1>1, <2>1, LeastOf
<1>3. i \in 0 .. n /\ i \in Nat /\ 2 ^ i >= n
  BY <1>1, <1>2
<1>4. Good(2 ^ i)
  <2>1. CASE i = 0
    <3>1. 2 ^ i = 1
      BY <2>1
    <3>. QED
      BY <1>3, <3>1
  <2>2. CASE i > 0
    <3>1. i - 1 \in Nat /\ ~(2 ^ (i - 1) >= n) /\ (i - 1) + 1 = i
      BY <1>2, <1>3, <2>2
    <3>2. 2 ^ i = 2 * 2 ^ (i - 1) /\ 2 ^ (i - 1) \in Nat
      BY <3>1, TwiceThePower
    <3>3. \A m \in Nat : (2 * m) \div 2 = m
      OBVIOUS
    <3>4. (2 ^ i) \div 2 = 2 ^ (i - 1)
      BY <3>2, <3>3
    <3>. QED
      BY <1>3, <3>1, <3>2, <3>4
  <2>. QED
    BY <2>1, <2>2
<1>5. O!NextPow2(n) = CHOOSE p \in {2 ^ k : k \in 0 .. n} : Good(p)
  BY DEF O!NextPow2
<1>6. O!NextPow2(n) \in {2 ^ k : k \in 0 .. n} /\ Good(O!NextPow2(n))
  <2>1. 2 ^ i \in {2 ^ k : k \in 0 .. n}
    BY <1>3
  <2>. HIDE DEF Good
  <2>. QED
    BY <1>4, <1>5, <2>1
<1>. QED
  BY <1>6

LEMMA PowerKept ==
  ASSUME NEW i \in Nat, i <= 2 ^ i PROVE O!NextPow2(2 ^ i) = 2 ^ i
<1>. DEFINE n       == 2 ^ i
            Good(p) == p >= n /\ (p = 1 \/ p \div 2 < n)
<1>0. n \in Nat /\ n > 0
  BY PowerExceeds, TwiceThePower
<1>1. ASSUME NEW k \in Nat, Good(2 ^ k) PROVE k = i
  <2>1. CASE k < i
    <3>1. 2 * 2 ^ k <= n /\ 2 ^ k \in Nat
      BY <2>1, PowersGrow, TwiceThePower
    <3>. QED
      BY <1>0, <1>1, <3>1
  <2>2. CASE i < k
    <3>1. 2 * n <= 2 ^ k /\ 2 ^ k \in Nat
      BY <2>2, PowersGrow, TwiceThePower
    <3>2. \A p, m \in Nat : 2 * m <= p => m <= p \div 2
      OBVIOUS
    <3>. HIDE DEF n
    <3>. QED
      BY <1>0, <1>1, <3>1, <3>2
  <2>. QED
    BY <2>1, <2>2
<1>2. Good(n)
  <2>1. \A m \in Nat : m > 0 => m \div 2 < m
    OBVIOUS
  <2>. QED
    BY <1>0, <2>1
<1>3. O!NextPow2(n) = CHOOSE p \in {2 ^ k : k \in 0 .. n} : Good(p)
  BY DEF O!NextPow2
<1>4. n \in {2 ^ k : k \in 0 .. n}
  BY <1>0
<1>5. \A p \in {2 ^ k : k \in 0 .. n} : Good(p) => p = n
  BY <1>0, <1>1
<1>. HIDE DEF Good
<1>. QED
  BY <1>2, <1>3, <1>4, <1>5

LEMMA ShardedSound ==
  ASSUME SourceConstants, FieldsInv, optPackage = "sharded" PROVE O!ConfigSound
<1>1. O!Table = O!ShardedOptions
  BY DEF O!Table
<1>2. /\ optCfg \in [DOMAIN O!ShardedOptions -> Int]
      /\ {"shardCount", "capacity", "ttl"} \subseteq DOMAIN O!ShardedOptions
      /\ \A f \in DOMAIN O!ShardedOptions : Fits(f, optCfg[f])
  BY <1>1 DEF FieldsInv, O!ShardedOptions
<1>3. /\ optCfg["shardCount"] \in Nat /\ optCfg["shardCount"] > 0
      /\ optCfg["capacity"] >= 0 /\ optCfg["ttl"] >= 0
  BY <1>2 DEF Fits, IsPositive, IsNatural
<1>. DEFINE n == optCfg["shardCount"]
            p == O!NextPow2(n)
<1>4. PICK i \in 0 .. n : p = 2 ^ i /\ 2 ^ i >= n
  BY <1>3, NextPow2Found
<1>5. p \in Int /\ i \in 0 .. p
  BY <1>3, <1>4, TwiceThePower
<1>. HIDE DEF p
<1>6. O!Config(optCfg) = [optCfg EXCEPT !["shardCount"] = p]
  BY DEF O!Config, O!ShardedConfig, p
<1>7. \A c : O!Usable(c) <=> /\ c["capacity"] >= 0 /\ c["ttl"] >= 0
                             /\ \E k \in 0 .. c["shardCount"] : c["shardCount"] = 2 ^ k
  BY DEF O!Usable
<1>8. O!Usable(O!Config(optCfg))
  BY <1>2, <1>3, <1>4, <1>5, <1>6, <1>7
<1>9. O!Usable(optCfg) => p = n
  <2>. SUFFICES ASSUME O!Usable(optCfg) PROVE p = n
    OBVIOUS
  <2>1. PICK k \in 0 .. n : n = 2 ^ k
    BY <1>7
  <2>. QED
    BY <1>3, <2>1, PowerKept DEF p
<1>. QED
  BY <1>2, <1>6, <1>8, <1>9 DEF O!ConfigSound

-----------------------------------------------------------------------------
(* The theorem. *)

LEMMA FieldsFit == ASSUME SourceConstants PROVE Spec => [](package = "options" => FieldsInv)
<1>1. Init => (package = "options" => FieldsInv)
  BY FieldsAtFirst, StartOfPackage
<1>2. (package = "options" => FieldsInv) /\ [Next]_vars => (package = "options" => FieldsInv)'
  BY FieldsStay, StepOfPackage
<1>. QED
  BY <1>1, <1>2, PTL DEF Spec

\* Whatever options are given, repeated, and in whatever order, newConfig returns a
\* configuration the package can work with, and leaves one alone whose parts agree
\* (newConfig of every package, normalizeCutoffs, nextPow2).
THEOREM NewConfigIsSound == ASSUME SourceConstants PROVE Spec => []ConfigSound
<1>1. FieldsInv => O!TypeOK
  BY DEF FieldsInv, O!TypeOK
<1>2. FieldsInv => O!ConfigSound
  BY AdaptxSound, BulkxSound, CircuitxSound, FallxSound, HedgexSound, LruxSound, PoolxSound,
     QuotaxSound, RatexSound, RetryxSound, ShardedSound, ShedxSound, ToutxSound, WarmupxSound
     DEF FieldsInv, O!Packages
<1>3. (package = "options" => FieldsInv) => ConfigSound
  BY <1>1, <1>2 DEF ConfigSound
<1>. QED
  BY <1>3, FieldsFit, PTL
=============================================================================
