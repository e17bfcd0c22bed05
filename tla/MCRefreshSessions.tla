-------------------------- MODULE MCRefreshSessions --------------------------
(* Instance of RefreshSessions for TLC. *)
EXTENDS RefreshSessions, TLC

CONSTANTS t1, t2, t3, s1, s2, d1, p1, p2

(* With a legacy row t1, and without. *)
Symmetry ==
    Permutations({t2, t3}) \cup Permutations({s1, s2}) \cup Permutations({p1, p2})

FullSymmetry == Symmetry \cup Permutations({t1, t2, t3})
=============================================================================
