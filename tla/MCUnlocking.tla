----------------------------- MODULE MCUnlocking ----------------------------
(* Unlocking for TLC: attempts are interchangeable, and so are passwords. *)
EXTENDS Unlocking, TLC

Symmetry == Permutations(Attempt) \cup Permutations(Password)
=============================================================================
