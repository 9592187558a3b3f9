--------------------------- MODULE MCConnections ---------------------------
(* Instances of Connections for TLC. *)
EXTENDS Connections

CONSTANTS k1, k2, k3, c1, c2

(* k1 and k2 are connections of the same client. *)
Peers == [k \in Conns |-> IF k = k3 THEN c2 ELSE c1]
=============================================================================
