----------------------------- MODULE MCSessions -----------------------------
(* Sessions for TLC: the ids and profiles are interchangeable. *)
EXTENDS SessionsInv, TLC

Symmetry == Permutations(Session) \cup Permutations(Profile)
=============================================================================
