---------------------------- MODULE AtomicRekey -----------------------------
(***************************************************************************)
(* What a change of the master password promises: seen from outside it     *)
(* happens in one step and afterwards every stored value can be read with  *)
(* the new password.  A value, or the password, is lost only by a change   *)
(* that a fault interrupts, or that is tried on a vault that has already   *)
(* lost a value.                                                           *)
(***************************************************************************)
EXTENDS Naturals

CONSTANTS Item, Password, NoPassword

VARIABLES
  opens,    \* the password that opens the vault, or NoPassword
  present,  \* the stored values
  readable, \* those that can be read after opening it
  faults    \* how many operations have failed so far

avars == <<opens, present, readable, faults>>

AInit ==
  /\ opens = NoPassword
  /\ present = {} /\ readable = {}
  /\ faults = 0

\* The first unlock makes the password chosen the one that opens the vault.
Create(pw) ==
  /\ opens = NoPassword /\ opens' = pw
  /\ UNCHANGED <<present, readable, faults>>

\* Values are added, replaced and deleted; no other value becomes unreadable
\* by it.
Edit ==
  /\ present' \in SUBSET Item
  /\ readable \cap present' \subseteq readable'
  /\ readable' \subseteq present'
  /\ faults' \in {faults, faults + 1}
  /\ UNCHANGED opens

\* A value is copied over another one, as readable as it is.
Copy(i, j) ==
  /\ i \in present /\ present' = present \cup {j}
  /\ readable' = IF i \in readable THEN readable \cup {j} ELSE readable \ {j}
  /\ faults' \in {faults, faults + 1}
  /\ UNCHANGED opens

\* The change itself.
Change(pw) ==
  /\ opens' = pw
  /\ readable' = present
  /\ UNCHANGED <<present, faults>>

\* A change that did not come to its end.
Interrupt ==
  /\ faults' = faults + 1 \/ (readable # present /\ UNCHANGED faults)
  /\ readable' \subseteq readable
  /\ opens' \in {opens, NoPassword}
  /\ opens' # opens => faults' = faults + 1
  /\ UNCHANGED present

ANext ==
  \/ \E pw \in Password : Create(pw) \/ Change(pw)
  \/ Edit \/ \E i, j \in Item : Copy(i, j)
  \/ Interrupt

ASpec == AInit /\ [][ANext]_avars
=============================================================================
