----------------------------- MODULE MCGroupCall ------------------------------
(* Instance of GroupCall for TLC: A on two sockets, B on one. *)
EXTENDS GroupCall, TLC

CONSTANTS A, B, a1, a2, b1, h1, h2

MCOwner == [s \in Socket |-> IF s = b1 THEN B ELSE A]

TaskSymmetry == Permutations({h1, h2})
Symmetry == TaskSymmetry \cup Permutations({a1, a2})
=============================================================================
