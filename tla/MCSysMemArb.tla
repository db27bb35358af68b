---------------------------- MODULE MCSysMemArb -----------------------------
(***************************************************************************)
(* The arbiter for TLC, with a bound on the requests of agent 0 (the host  *)
(* access) and another on those of the other agents (the line buffer).     *)
(* The partition of agent 0 is moved while requests are under way.         *)
(***************************************************************************)
EXTENDS SysMemArb, TLC

CONSTANTS Max0, Max1, Ver0

ReqBound == [a \in 0 .. NUM_AGENTS - 1 |-> IF a = 0 THEN Max0 ELSE Max1]
VerBound == [a \in 0 .. NUM_AGENTS - 1 |-> IF a = 0 THEN Ver0 ELSE 0]

\* least_filter's comparison chain finds the lowest index of the least value.
ASSUME LeastFilterCorrect ==
  \A n \in 1 .. 4 : \A data \in [0 .. n - 1 -> 0 .. 3] :
    LET k == CmpChain(n, data)
    IN  \A j \in 0 .. n - 1 : data[k] < data[j] \/ (data[k] = data[j] /\ k <= j)
=============================================================================
