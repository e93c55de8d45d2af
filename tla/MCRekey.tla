------------------------------ MODULE MCRekey -------------------------------
(* Rekey for TLC: credentials and passwords are interchangeable. *)
EXTENDS Rekey, TLC

Symmetry == Permutations(Cred) \cup Permutations(Password)
=============================================================================
