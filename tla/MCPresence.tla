----------------------------- MODULE MCPresence -------------------------------
(* Instance of Presence for TLC. *)
EXTENDS Presence, TLC

CONSTANTS s1, s2

Symmetry == Permutations({s1, s2})
=============================================================================
