------------------------------ MODULE LruOrder ------------------------------
(***************************************************************************)
(* What a least-recently-used cache promises of its keys, apart from how   *)
(* the list and the map that lrux.Cache keeps look: which of two keys was  *)
(* used more recently, and that only the oldest give way to the capacity.  *)
(***************************************************************************)
EXTENDS Integers, Sequences, FiniteSets, SequencesExt

CONSTANT Keys

VARIABLES
  keys,        \* those the cache holds
  newer,       \* <<j, k>>: j was used more recently than k
  capacity     \* how many there may be; 0 is no bound

Within(R, K)       == R \cap (K \X K)
AmongRecent(k, R, n) == n = 0 \/ Cardinality({j \in Keys : <<j, k>> \in R}) < n
Recent(K, R, n)    == {k \in K : AmongRecent(k, R, n)}

\* The cache holds what is left of K and R.
Keeps(K, R) == keys' = K /\ newer' = Within(R, K)

Init == keys = {} /\ newer = {} /\ capacity \in Nat

\* The recency once the keys of ks were used, one after the other.
Index(ks, k)  == CHOOSE i \in DOMAIN ks : ks[i] = k
Used(ks) ==
  LET R == newer
  IN  {p \in Keys \X Keys :
         IF p[2] \in Range(ks) THEN p[1] \in Range(ks) /\ Index(ks, p[1]) > Index(ks, p[2])
         ELSE p[2] \in keys /\ (p[1] \in Range(ks) \/ p \in R)}

\* Keys are read or written, the last of them most recently.
Use(ks) ==
  /\ Keeps(Recent(keys \cup Range(ks), Used(ks), capacity), Used(ks))
  /\ UNCHANGED capacity

\* Keys expire or are deleted.
Forget(K) ==
  /\ Keeps(keys \ K, newer)
  /\ UNCHANGED capacity

Resize ==
  /\ capacity' \in Nat
  /\ Keeps(Recent(keys, newer, capacity'), newer)

Next ==
  \/ \E K \in SUBSET keys : Forget(K)
  \/ \E K \in (SUBSET Keys) \ {{}} : \E ks \in SetToSeqs(K) : Use(ks)
  \/ Resize

Spec == Init /\ [][Next]_<<keys, newer, capacity>>
=============================================================================
