-------------------------- MODULE BulkheadHistory --------------------------
(***************************************************************************)
(* Bulkhead with a memory of who was already waiting when a caller took    *)
(* its slot on the fast path.                                              *)
(***************************************************************************)
EXTENDS Bulkhead

VARIABLE ahead    \* the waiters counted when the caller sent to sem

hvars == <<vars, ahead>>

Waiting(h) == pc[h] \in {"select", "blocked"}

Record ==
  ahead' = [g \in Callers |->
              IF pc[g] = "send" /\ pc'[g] = "recheck"
                THEN {h \in Callers : counted[h] /\ Waiting(h)}
                ELSE ahead[g]]

HInit == Init /\ ahead = [g \in Callers |-> {}]
HNext == Next /\ Record
HSpec == HInit /\ [][HNext]_hvars
HFairSpec == HSpec /\ Progress

\* A caller on the fast path is not admitted past anyone who was waiting when
\* it took its slot and waits still, though waiters come and go between its
\* first look at the count, its send and its second look (reserve, TryExecute).
NeverBarges ==
  [][\A g \in Callers :
       pc[g] = "recheck" /\ pc'[g] = "commit" => ~ \E h \in ahead[g] : Waiting(h)]_hvars
=============================================================================
