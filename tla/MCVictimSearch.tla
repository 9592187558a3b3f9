-------------------------- MODULE MCVictimSearch --------------------------
(* Instances of VictimSearch for TLC. *)
EXTENDS VictimSearch

CONSTANTS a1, a2, a3, c1, c2

(* a2 is the heaviest process. *)
Weights == [pid \in Pids |-> IF pid = a2 THEN 2 ELSE 1]
=============================================================================
