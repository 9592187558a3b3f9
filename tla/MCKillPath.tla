----------------------------- MODULE MCKillPath -----------------------------
(* Small instances of KillPath. *)
EXTENDS KillPath, TLC

CONSTANTS p1, p2, p3

(* p1 and p2 share a pid, p3 has one of its own. *)
Reused   == [p \in Procs |-> IF p = p3 THEN 2 ELSE 1]
Symmetry == Permutations({p1, p2})

(* Two pids without faults, or with victims after whose kill the search   *)
(* goes on; or one pid that is reused, with such victims or every fault.   *)
Mixed == {[procs |-> {p, p3}, faults |-> faults] : p \in {p1, p2}, faults \in {{}, {"zero"}}}
           \cup {[procs |-> {p1, p2}, faults |-> faults] : faults \in {{"zero"}, FaultKinds}}

(* A victim may end just before the signal. *)
LateExit == {[procs |-> {p1, p3}, faults |-> {"race"}]}
=============================================================================
