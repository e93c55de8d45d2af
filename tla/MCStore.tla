------------------------------ MODULE MCStore ------------------------------
(* Instances of CredentialStore for TLC. *)
EXTENDS CredentialStore, TLC

CONSTANTS p1, p2

a       == <<LetterN>>
b       == <<Other>>
KeysMC  == {a, b}
Plain1  == <<Other>>
Quoted  == <<Backslash, Quote>>
TypedMC == {Plain1, Quoted}

\* Files: one with a key twice, and one with the line b="x\n", which gives a
\* value of two lines.
FilesMC == { << <<a, Plain1>>, <<b, Quoted>>, <<a, Quoted>> >>,
             Import(b \o <<Equals, Quote, Other, Backslash, LetterN, Quote>>) }

ValuesMC == TypedMC \union UNION {{f[i][2] : i \in DOMAIN f} : f \in FilesMC}

Perms == Permutations({p1, p2})
=============================================================================
