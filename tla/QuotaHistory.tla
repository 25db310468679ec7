---------------------------- MODULE QuotaHistory ----------------------------
(***************************************************************************)
(* Quota with a memory of whether the table changed under a Reset.         *)
(***************************************************************************)
EXTENDS Quota, TLC

VARIABLE clean    \* nobody else changed the table while a Reset was under way

hvars == <<vars, clean>>

Resetting(a) == pc[a] = "reset"

Disturbs(a) == Resetting(a) /\ table' # table /\ pos'[a] = pos[a]

Remember == clean' = (clean /\ \A a \in Admins : ~Disturbs(a))

HInit == Init /\ clean = TRUE
HNext == Next /\ Remember
HSpec == HInit /\ [][HNext]_hvars

\* Model checking: a shard for each key.
OneEach  == CHOOSE f \in [Keys -> 0 .. NumShards - 1] : \A j, k \in Keys : f[j] = f[k] => j = k
Symmetry == Permutations(Callers)

-----------------------------------------------------------------------------
\* The key count, which no lock covers, is the number of keys whenever no Reset
\* is under way, if every Reset had the table for itself (reserveKey, Remove,
\* evict, Reset).
KeysCounted ==
  clean /\ (\A a \in Admins : ~Resetting(a)) => keyCount = Cardinality(Tracked)

\* The table holds no more keys than WithMaxKeys allows, also while a Reset that
\* nobody disturbs is under way (reserveKey's comment).
CapKept == TypeOK /\ (clean => Cardinality(Tracked) <= MaxKeys)
=============================================================================
