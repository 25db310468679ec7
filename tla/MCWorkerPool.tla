---------------------------- MODULE MCWorkerPool ----------------------------
EXTENDS WorkerPoolHistory, SequencesExt

\* Submitters are interchangeable, so it is enough to start those whose kinds are
\* in order.  (TLC's symmetry reduction is not sound for liveness.)
Rank == [Submit |-> 1, TrySubmit |-> 2, SubmitWait |-> 3]
KindsInOrder ==
  LET s == SetToSeq(Submitters)
  IN  \A i \in 1 .. Len(s) - 1 : Rank[kind[s[i]]] <= Rank[kind[s[i + 1]]]

MCInit == HInit /\ KindsInOrder
MCSpec == MCInit /\ [][HNext]_hvars /\ Progress
=============================================================================
