------------------------------ MODULE MCConfig ------------------------------
(* An instance of Config for TLC. *)
EXTENDS Config, TLC

CONSTANTS s1, s2

\* "dark" is shorter than "light", and "true" than "false".
BytesMC ==
  [s \in Settings |-> (IF s.theme = "dark" THEN 4 ELSE 5)
                        + (IF s.launch THEN 4 ELSE 5) + (IF s.minutes = 5 THEN 1 ELSE 2)]

Perms == Permutations({s1, s2})
=============================================================================
