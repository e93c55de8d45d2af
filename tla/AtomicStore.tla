---------------------------- MODULE AtomicStore ----------------------------
(***************************************************************************)
(* What the credential store promises, whatever statements an operation is *)
(* made of and wherever it is cut off: every credential changes as a whole *)
(* and one at a time, a credential belongs to a profile that exists, and a *)
(* value is only overwritten once it can be restored.                      *)
(***************************************************************************)
EXTENDS Naturals

CONSTANTS Profiles, Keys, Values, Tags, Absent

VARIABLES
  exists,   \* the profiles there are
  cell,     \* cell[<<p, k>>]: the value and tags of a credential, or Absent
  past,     \* past[<<p, k>>]: the values that its history can restore
  beyond    \* the credentials whose history the clock keeps from growing

vars == <<exists, cell, past, beyond>>

Slots == Profiles \X Keys
Cell  == [value : Values, tags : Tags]

Init ==
  /\ exists \in SUBSET Profiles
  /\ cell \in [Slots -> Cell \union {Absent}]
  /\ \A s \in Slots : s[1] \notin exists => cell[s] = Absent
  /\ past = [s \in Slots |-> {}]
  /\ beyond = {}

\* A profile appears without credentials.
Create(p) ==
  /\ p \notin exists
  /\ exists' = exists \union {p}
  /\ UNCHANGED <<cell, past, beyond>>

\* A profile goes, and its credentials and their past values with it.
Remove(p) ==
  /\ p \in exists
  /\ exists' = exists \ {p}
  /\ cell' = [s \in Slots |-> IF s[1] = p THEN Absent ELSE cell[s]]
  /\ past' = [s \in Slots |-> IF s[1] = p THEN {} ELSE past[s]]
  /\ beyond' = {s \in beyond : s[1] # p}

\* A credential appears where there was none.
Put(s, c) ==
  /\ s[1] \in exists
  /\ cell[s] = Absent
  /\ cell' = [cell EXCEPT ![s] = c]
  /\ UNCHANGED <<exists, past, beyond>>

Drop(s) ==
  /\ cell[s] # Absent
  /\ cell' = [cell EXCEPT ![s] = Absent]
  /\ past' = [past EXCEPT ![s] = {}]
  /\ beyond' = beyond \ {s}
  /\ UNCHANGED exists

\* The current value joins the past ones, of which some may be forgotten.
Remember(s) ==
  /\ cell[s] # Absent
  /\ past' \in [Slots -> SUBSET Values]
  /\ \A t \in Slots \ {s} : past'[t] = past[t]
  /\ past'[s] \subseteq past[s] \union {cell[s].value}
  /\ UNCHANGED <<exists, cell, beyond>>

\* A value is overwritten: the tags stay, and the old value can be restored.
Overwrite(s, v) ==
  /\ cell[s] # Absent
  /\ cell[s].value \in past[s] \/ s \in beyond
  /\ cell' = [cell EXCEPT ![s].value = v]
  /\ UNCHANGED <<exists, past, beyond>>

\* The tags change: the value stays.
Retag(s, t) ==
  /\ cell[s] # Absent
  /\ cell' = [cell EXCEPT ![s].tags = t]
  /\ UNCHANGED <<exists, past, beyond>>

\* The clock is set or goes on.
ClockMoves ==
  /\ beyond' \in SUBSET Slots
  /\ UNCHANGED <<exists, cell, past>>

Next ==
  \/ \E p \in Profiles : Create(p) \/ Remove(p)
  \/ \E s \in Slots :
       \/ \E c \in Cell : Put(s, c)
       \/ Drop(s)
       \/ Remember(s)
       \/ \E v \in Values : Overwrite(s, v)
       \/ \E t \in Tags : Retag(s, t)
  \/ ClockMoves

Spec == Init /\ [][Next]_vars
=============================================================================
