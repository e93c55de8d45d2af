------------------------ MODULE CredentialStoreProof ------------------------
(***************************************************************************)
(* Proofs about CredentialStore for any sets of profiles, keys, values and *)
(* files, and any number of history rows kept.                             *)
(*                                                                         *)
(* IInv says how far the operation and the import in progress have come.   *)
(* Lemmas about sequences and about what an import keeps of the lines it   *)
(* has gone through come first, then one step per action.  HistoryInv is   *)
(* proved on top of it: for every m, the last m replaced values are among  *)
(* the first m rows but for the spoilt ones.  The theorems at the end read *)
(* the properties off both, map every step to AtomicStore, and apply what  *)
(* EnvFileProof says of texts to the credentials that are stored.          *)
(***************************************************************************)
EXTENDS CredentialStore, EnvFileProof, FiniteSetTheorems, TLAPS

-----------------------------------------------------------------------------
(* The rows of a history *)

\* Newest keeps the first Kept rows.
LEMMA NewestRows ==
  ASSUME NEW h \in Seq(Values)
  PROVE  /\ Newest(h) \in Seq(Values)
         /\ Len(Newest(h)) = IF Len(h) < Kept THEN Len(h) ELSE Kept
         /\ \A i \in 1 .. Len(Newest(h)) : Newest(h)[i] = h[i]
  BY StoreAssumption DEF Newest

\* A row inserted behind the first n keeps the others.
LEMMA InsertedRow ==
  ASSUME NEW h \in Seq(Values), NEW n \in Nat, n <= Len(h), NEW v \in Values
  PROVE  /\ Behind(h, n, v) \in Seq(Values)
         /\ Len(Behind(h, n, v)) = Len(h) + 1
         /\ Behind(h, n, v)[n + 1] = v
<1>. DEFINE a == SubSeq(h, 1, n)
            b == SubSeq(h, n + 1, Len(h))
<1>1. a \in Seq(Values) /\ Len(a) = n
  OBVIOUS
<1>2. b \in Seq(Values) /\ Len(b) = Len(h) - n
  OBVIOUS
<1>3. <<v>> \in Seq(Values) /\ Len(<<v>>) = 1 /\ <<v>>[1] = v
  OBVIOUS
<1>. HIDE DEF a, b
<1>4. /\ a \o <<v>> \in Seq(Values)
      /\ Len(a \o <<v>>) = n + 1
      /\ (a \o <<v>>)[n + 1] = v
  BY <1>1, <1>3
<1>. DEFINE c == a \o <<v>>
<1>. HIDE DEF c
<1>5. /\ c \o b \in Seq(Values)
      /\ Len(c \o b) = Len(h) + 1
      /\ (c \o b)[n + 1] = v
  BY <1>2, <1>4 DEF c
<1>. QED
  BY <1>5 DEF a, b, c, Behind

\* The values of a sequence are those at its positions.
LEMMA ToSetMember ==
  ASSUME NEW S, NEW h \in Seq(S), NEW v
  PROVE  v \in ToSet(h) <=> \E i \in 1 .. Len(h) : h[i] = v
<1>1. DOMAIN h = 1 .. Len(h)
  OBVIOUS
<1>. QED
  BY <1>1 DEF ToSet

\* The values that a pruned history can restore were there before.
LEMMA PrunedRange ==
  ASSUME NEW h \in Seq(Values)
  PROVE  ToSet(Newest(h)) \subseteq ToSet(h)
<1>1. SUFFICES ASSUME NEW v \in ToSet(Newest(h))
               PROVE  \E i \in 1 .. Len(h) : h[i] = v
  BY ToSetMember
<1>2. PICK i \in 1 .. Len(Newest(h)) : Newest(h)[i] = v
  BY ToSetMember, NewestRows
<1>. QED
  BY <1>2, NewestRows, StoreAssumption

\* A row that is inserted adds its value and no other.
LEMMA InsertedRange ==
  ASSUME NEW h \in Seq(Values), NEW n \in Nat, n <= Len(h), NEW v \in Values
  PROVE  ToSet(Behind(h, n, v)) \subseteq ToSet(h) \union {v}
<1>. DEFINE a == SubSeq(h, 1, n)
            b == SubSeq(h, n + 1, Len(h))
            c == a \o <<v>>
            g == c \o b
<1>1. /\ a \in Seq(Values) /\ Len(a) = n
      /\ \A i \in 1 .. n : a[i] = h[i]
  OBVIOUS
<1>2. /\ b \in Seq(Values) /\ Len(b) = Len(h) - n
      /\ \A i \in 1 .. Len(h) - n : b[i] = h[n + i]
  OBVIOUS
<1>. HIDE DEF a, b
<1>3. /\ c \in Seq(Values)
      /\ Len(c) = n + 1
      /\ c[n + 1] = v
      /\ \A i \in 1 .. n : c[i] = h[i]
  BY <1>1
<1>. HIDE DEF c
<1>4. /\ g \in Seq(Values)
      /\ Len(g) = Len(h) + 1
      /\ \A i \in 1 .. n + 1 : g[i] = c[i]
      /\ \A i \in n + 2 .. Len(h) + 1 : g[i] = b[i - n - 1]
  BY <1>2, <1>3 DEF g
<1>. HIDE DEF g
<1>5. ASSUME NEW i \in 1 .. Len(h) + 1
      PROVE  g[i] = v \/ \E j \in 1 .. Len(h) : h[j] = g[i]
  <2>1. CASE i <= n
    BY <2>1, <1>3, <1>4
  <2>2. CASE i = n + 1
    BY <2>2, <1>3, <1>4
  <2>3. CASE i > n + 1
    <3>1. /\ i - n - 1 \in 1 .. Len(h) - n
          /\ i \in n + 2 .. Len(h) + 1
          /\ n + (i - n - 1) = i - 1
      BY <2>3
    <3>2. g[i] = b[i - n - 1] /\ b[i - n - 1] = h[i - 1]
      BY <3>1, <1>2, <1>4
    <3>. QED
      BY <2>3, <3>2
  <2>. QED
    BY <2>1, <2>2, <2>3
<1>6. ASSUME NEW w \in ToSet(g)
      PROVE  w \in ToSet(h) \union {v}
  <2>1. PICK i \in 1 .. Len(h) + 1 : g[i] = w
    BY <1>4, ToSetMember
  <2>. QED
    BY <2>1, <1>5, ToSetMember
<1>. QED
  BY <1>6 DEF a, b, c, g, Behind

-----------------------------------------------------------------------------
(* The import in progress *)

\* A line that an import has gone through became a credential.
LEMMA LineType ==
  ASSUME TypeOK, ImportInFile, import # Idle, NEW i \in 1 .. Len(import.into)
  PROVE  i \in 1 .. Len(import.file) /\ Sent(i) \in Slots
<1>1. /\ import.file \in Seq(Keys \X Values) /\ import.into \in Seq(Profiles)
      /\ Len(import.into) <= Len(import.file)
  BY DEF TypeOK, Importing, ImportInFile
<1>2. i \in 1 .. Len(import.file)
  BY <1>1
<1>3. import.file[i] \in Keys \X Values /\ import.into[i] \in Profiles
  BY <1>1, <1>2
<1>. QED
  BY <1>2, <1>3 DEF Sent, Slots

\* So does the line that comes next, if its command succeeds.
LEMMA NextLineType ==
  ASSUME TypeOK, import # Idle, Len(import.into) < Len(import.file)
  PROVE  /\ NextLine[1] \in Keys /\ NextLine[2] \in Values
         /\ <<import.profile, NextLine[1]>> \in Slots
         /\ Len(import.into) \in Nat
<1>1. /\ import.file \in Seq(Keys \X Values) /\ import.into \in Seq(Profiles)
      /\ import.profile \in Profiles
  BY DEF TypeOK, Importing
<1>2. Len(import.into) \in Nat /\ Len(import.into) + 1 \in 1 .. Len(import.file)
  BY <1>1
<1>3. NextLine \in Keys \X Values
  BY <1>1, <1>2 DEF NextLine
<1>. QED
  BY <1>1, <1>2, <1>3 DEF Slots

\* Touch changes nothing of an import but what is touched of its lines.
LEMMA TouchedImport ==
  ASSUME TypeOK, NEW S \in SUBSET Slots, Touch(S)
  PROVE  /\ import' \in Importing \union {Idle}
         /\ import' = Idle <=> import = Idle
         /\ import # Idle =>
              /\ import'.file = import.file
              /\ import'.into = import.into
              /\ import'.touched = import.touched
                    \union (S \intersect {Sent(i) : i \in DOMAIN import.into})
<1>1. CASE import = Idle
  BY <1>1 DEF Touch
<1>2. CASE import # Idle
  <2>1. import \in Importing
    BY <1>2 DEF TypeOK
  <2>. DEFINE T == S \intersect {Sent(i) : i \in DOMAIN import.into}
  <2>2. T \subseteq Slots
    OBVIOUS
  <2>3. import' = [import EXCEPT !.touched = @ \union T]
    BY <1>2 DEF Touch
  <2>. HIDE DEF T
  <2>4. import' \in Importing /\ import'.file = import.file
        /\ import'.into = import.into /\ import'.touched = import.touched \union T
    BY <2>1, <2>2, <2>3 DEF Importing
  <2>. QED
    BY <1>2, <2>1, <2>4, StoreAssumption DEF T
<1>. QED
  BY <1>1, <1>2

\* Lines stay as they are when only credentials marked as touched change.
LEMMA PrefixTouched ==
  ASSUME IInv, NEW S \in SUBSET Slots, Touch(S),
         \A s \in Slots : s \notin S /\ cell[s] # Absent =>
            cell'[s] # Absent /\ cell'[s].value = cell[s].value
  PROVE  ImportIsPrefix'
<1>1. /\ TypeOK /\ ImportInFile /\ ImportIsPrefix
      /\ import' = Idle <=> import = Idle
      /\ import # Idle =>
           /\ import'.file = import.file
           /\ import'.into = import.into
           /\ import'.touched = import.touched
                 \union (S \intersect {Sent(i) : i \in DOMAIN import.into})
  BY TouchedImport DEF IInv
<1>2. SUFFICES ASSUME import # Idle, NEW i \in 1 .. Len(import.into),
                      Sent(i) \notin import'.touched
               PROVE  /\ cell'[Sent(i)] # Absent
                      /\ cell'[Sent(i)].value = import.file[i][2]
  BY <1>1 DEF ImportIsPrefix, Sent, Stored
<1>3. Sent(i) \in Slots
  BY <1>1, <1>2, LineType
<1>4. i \in DOMAIN import.into
  BY <1>1, <1>2 DEF TypeOK, Importing
<1>5. Sent(i) \notin import.touched /\ Sent(i) \notin S
  BY <1>1, <1>2, <1>4
<1>6. cell[Sent(i)] # Absent /\ cell[Sent(i)].value = import.file[i][2]
  BY <1>1, <1>2, <1>5 DEF ImportIsPrefix, Stored
<1>. QED
  BY <1>3, <1>5, <1>6

\* Lines stay as they are when no value does anything but appear, also when
\* another profile is selected.
LEMMA PrefixSame ==
  ASSUME IInv, import' = Idle <=> import = Idle,
         import # Idle => /\ import'.file = import.file
                          /\ import'.into = import.into
                          /\ import'.touched = import.touched,
         \A s \in Slots : cell[s] # Absent =>
            cell'[s] # Absent /\ cell'[s].value = cell[s].value
  PROVE  ImportIsPrefix'
<1>1. SUFFICES ASSUME import # Idle, NEW i \in 1 .. Len(import.into),
                      Sent(i) \notin import.touched
               PROVE  /\ cell'[Sent(i)] # Absent
                      /\ cell'[Sent(i)].value = import.file[i][2]
  BY DEF ImportIsPrefix, Sent, Stored
<1>2. Sent(i) \in Slots
  BY <1>1, LineType DEF IInv
<1>3. cell[Sent(i)] # Absent /\ cell[Sent(i)].value = import.file[i][2]
  BY <1>1 DEF IInv, ImportIsPrefix, Stored
<1>. QED
  BY <1>2, <1>3

-----------------------------------------------------------------------------
(* The invariant *)

LEMMA InitInv == Init => IInv
<1>. SUFFICES ASSUME Init PROVE IInv
  OBVIOUS
<1>1. PICK p \in Profiles, b \in Bases, r \in Rules,
           c \in [Keys -> [value : Typed, tags : {NoTags}] \union {Absent}] :
        /\ profile = [q \in Profiles |->
                        IF q = p THEN [name |-> <<b, 0>>, rules |-> r] ELSE Absent]
        /\ cell = [s \in Slots |-> IF s[1] = p THEN c[s[2]] ELSE Absent]
  BY DEF Init
<1>2. profile \in [Profiles -> Profile \union {Absent}]
  BY <1>1 DEF Profile, Names
<1>3. \A k \in Keys : c[k] \in Cell \union {Absent}
  BY StoreAssumption DEF Cell
<1>4. cell \in [Slots -> Cell \union {Absent}]
  BY <1>1, <1>3 DEF Slots
<1>5. profile[p] # Absent
  BY <1>1, <1>2, StoreAssumption DEF Profile, Names
<1>6. TypeOK /\ FutureRowsExist
  BY <1>2, <1>4, StoreAssumption DEF Init, TypeOK, FutureRowsExist
<1>7. NothingLeftBehind
  BY <1>1, <1>5 DEF Init, NothingLeftBehind, Stored, There, Slots
<1>8. UpdateSoFar /\ CopySoFar /\ ImportInFile /\ ImportIsPrefix
  BY DEF Init, UpdateSoFar, CopySoFar, ImportInFile, ImportIsPrefix
<1>. QED
  BY <1>6, <1>7, <1>8 DEF IInv

\* What holds of the operation in progress when there is none.
LEMMA NoOperation == op = Idle => UpdateSoFar /\ CopySoFar
  BY DEF UpdateSoFar, CopySoFar

\* Commands on profiles that leave the credentials alone.
LEMMA ProfileStep ==
  ASSUME IInv, NEW p \in Profiles,
         \/ \E n \in Names, r \in Rules : CreateProfile(p, n, r)
         \/ \E n \in Names : UpdateProfile(p, n)
         \/ \E r \in Rules : UpdateProfileRules(p, r)
  PROVE  IInv'
<1>1. /\ UNCHANGED <<open, cell, hist, newer, op, import, ghosts, jumps>>
      /\ op = Idle /\ commands' = commands + 1
  BY DEF CreateProfile, UpdateProfile, UpdateProfileRules, Ready, Counted
<1>2. /\ profile' \in [Profiles -> Profile \union {Absent}]
      /\ \A q \in Profiles : There(q) => There(q)'
  <2>1. CASE \E n \in Names, r \in Rules : CreateProfile(p, n, r)
    BY <2>1, StoreAssumption DEF CreateProfile, IInv, TypeOK, Profile, There, Fresh
  <2>2. CASE \E n \in Names : UpdateProfile(p, n)
    <3>1. PICK n \in Names : UpdateProfile(p, n)
      BY <2>2
    <3>2. [profile[p] EXCEPT !.name = n] \in Profile
      BY <3>1 DEF UpdateProfile, IInv, TypeOK, Profile, There
    <3>. QED
      BY <3>1, <3>2, StoreAssumption DEF UpdateProfile, IInv, TypeOK, There
  <2>3. CASE \E r \in Rules : UpdateProfileRules(p, r)
    <3>1. PICK r \in Rules : UpdateProfileRules(p, r)
      BY <2>3
    <3>2. [profile[p] EXCEPT !.rules = r] \in Profile
      BY <3>1 DEF UpdateProfileRules, IInv, TypeOK, Profile, There
    <3>. QED
      BY <3>1, <3>2, StoreAssumption DEF UpdateProfileRules, IInv, TypeOK, There
  <2>. QED
    BY <2>1, <2>2, <2>3
<1>3. TypeOK'
  BY <1>1, <1>2 DEF IInv, TypeOK, ghosts
<1>4. NothingLeftBehind' /\ FutureRowsExist'
  BY <1>1, <1>2 DEF IInv, NothingLeftBehind, FutureRowsExist, Stored, Slots
<1>5. ImportInFile' /\ ImportIsPrefix'
  BY <1>1, PrefixSame DEF IInv, ImportInFile
<1>6. UpdateSoFar' /\ CopySoFar'
  BY <1>1 DEF UpdateSoFar, CopySoFar
<1>. QED
  BY <1>3, <1>4, <1>5, <1>6 DEF IInv

\* Deletions take the credentials in S along.
LEMMA CascadeStep ==
  ASSUME IInv, NEW S \in SUBSET Slots, Cascade(S), op = Idle, UNCHANGED op
  PROVE  /\ cell' \in [Slots -> Cell \union {Absent}]
         /\ hist' \in [Slots -> Seq(Values)]
         /\ newer' \in [Slots -> Nat]
         /\ replaced' \in [Slots -> Seq(Values)]
         /\ spoilt' \in [Slots -> 0 .. Kept]
         /\ import' \in Importing \union {Idle}
         /\ FutureRowsExist' /\ ImportInFile' /\ ImportIsPrefix'
         /\ UpdateSoFar' /\ CopySoFar'
<1>1. /\ cell' \in [Slots -> Cell \union {Absent}]
      /\ hist' \in [Slots -> Seq(Values)]
      /\ newer' \in [Slots -> Nat]
      /\ replaced' \in [Slots -> Seq(Values)]
      /\ spoilt' \in [Slots -> 0 .. Kept]
  BY StoreAssumption DEF Cascade, IInv, TypeOK
<1>2. TypeOK /\ Touch(S)
  BY DEF IInv, Cascade
<1>3. import' \in Importing \union {Idle} /\ ImportInFile'
  BY <1>2, TouchedImport DEF IInv, ImportInFile
<1>4. FutureRowsExist'
  BY DEF Cascade, IInv, TypeOK, FutureRowsExist
<1>5. ImportIsPrefix'
  BY <1>2, PrefixTouched DEF Cascade
<1>6. UpdateSoFar' /\ CopySoFar'
  BY DEF UpdateSoFar, CopySoFar
<1>. QED
  BY <1>1, <1>3, <1>4, <1>5, <1>6

LEMMA DeleteStep ==
  ASSUME IInv, (\E p \in Profiles : DeleteProfile(p)) \/ (\E s \in Slots : DeleteCredential(s))
  PROVE  IInv'
<1>1. CASE \E p \in Profiles : DeleteProfile(p)
  <2>1. PICK p \in Profiles : DeleteProfile(p)
    BY <1>1
  <2>. DEFINE S == {p} \X Keys
  <2>2. S \in SUBSET Slots /\ Cascade(S) /\ op = Idle /\ UNCHANGED <<op, open, jumps>>
        /\ commands' = commands + 1 /\ profile' = [profile EXCEPT ![p] = Absent]
    BY <2>1 DEF DeleteProfile, Ready, Counted, Slots
  <2>3. TypeOK'
    BY <2>2, CascadeStep DEF IInv, TypeOK
  <2>4. NothingLeftBehind'
    BY <2>2 DEF Cascade, IInv, TypeOK, NothingLeftBehind, Stored, There, Slots
  <2>. QED
    BY <2>2, <2>3, <2>4, CascadeStep DEF IInv
<1>2. CASE \E s \in Slots : DeleteCredential(s)
  <2>1. PICK s \in Slots : DeleteCredential(s)
    BY <1>2
  <2>2. {s} \in SUBSET Slots /\ Cascade({s}) /\ op = Idle
        /\ UNCHANGED <<op, open, profile, jumps>> /\ commands' = commands + 1
    BY <2>1 DEF DeleteCredential, Ready, Counted
  <2>3. TypeOK'
    BY <2>2, CascadeStep DEF IInv, TypeOK
  <2>4. NothingLeftBehind'
    BY <2>2 DEF Cascade, IInv, TypeOK, NothingLeftBehind, Stored, There
  <2>. QED
    BY <2>2, <2>3, <2>4, CascadeStep DEF IInv
<1>. QED
  BY <1>1, <1>2

\* duplicate_profile: the copy grows by one credential at a time.
LEMMA DuplicateInv ==
  ASSUME IInv, NEW p \in Profiles, NEW q \in Profiles, DuplicateProfile(p, q)
  PROVE  IInv'
<1>1. /\ UNCHANGED <<open, cell, hist, newer, import, ghosts, jumps>>
      /\ commands' = commands + 1
      /\ There(p) /\ Fresh(q) /\ p # q
      /\ profile' = [profile EXCEPT ![q] = [profile[p] EXCEPT !.name = CopyOf(@)]]
      /\ op' = [kind |-> "duplicate", from |-> p, to |-> q,
                todo |-> {k \in Keys : Stored(<<p, k>>)}]
  BY DEF DuplicateProfile, Counted, Fresh
<1>2. profile[p] \in Profile
  BY <1>1 DEF IInv, TypeOK, There
<1>3. [profile[p] EXCEPT !.name = CopyOf(@)] \in Profile
  BY <1>2 DEF Profile, Names, CopyOf
<1>4. /\ profile' \in [Profiles -> Profile \union {Absent}]
      /\ \A r \in Profiles : There(r) => There(r)'
      /\ There(q)'
      /\ profile'[q].rules = profile'[p].rules
  BY <1>1, <1>2, <1>3, StoreAssumption DEF IInv, TypeOK, There, Profile
<1>5. op' \in Duplicate
  BY <1>1 DEF Duplicate
<1>6. TypeOK'
  BY <1>1, <1>4, <1>5 DEF IInv, TypeOK, ghosts
<1>7. NothingLeftBehind' /\ FutureRowsExist'
  BY <1>1, <1>4 DEF IInv, NothingLeftBehind, FutureRowsExist, Stored, Slots
<1>8. ImportInFile' /\ ImportIsPrefix'
  BY <1>1, PrefixSame DEF IInv, ImportInFile
<1>9. UpdateSoFar'
  BY <1>1 DEF UpdateSoFar
<1>10. CopySoFar'
  <2>1. \A k \in Keys : ~Stored(<<q, k>>)
    BY <1>1 DEF IInv, NothingLeftBehind, Slots, Fresh
  <2>. QED
    BY <2>1, <1>1, <1>4 DEF CopySoFar, Stored, Fresh, There
<1>. QED
  BY <1>6, <1>7, <1>8, <1>9, <1>10 DEF IInv

LEMMA CopyInv ==
  ASSUME IInv, NEW k \in Keys, CopyCredential(k)
  PROVE  IInv'
<1>. DEFINE from == <<op.from, k>>
            to   == <<op.to, k>>
<1>1. /\ op \in Duplicate /\ k \in op.todo
      /\ from \in Slots /\ to \in Slots /\ from # to
      /\ UNCHANGED <<open, profile, hist, newer, import, ghosts, commands, jumps>>
      /\ op' = [op EXCEPT !.todo = @ \ {k}]
      /\ op # Idle /\ op.kind = "duplicate"
  BY DEF CopyCredential, IInv, TypeOK, Update, Duplicate, Slots, CopySoFar
<1>2. /\ op' \in Duplicate /\ op'.from = op.from /\ op'.to = op.to
      /\ op'.todo = op.todo \ {k} /\ op'.kind = "duplicate"
  BY <1>1 DEF Duplicate
<1>3. cell[from] \in Cell
  BY <1>1 DEF IInv, TypeOK, CopySoFar, Stored
<1>4. /\ cell' \in [Slots -> Cell \union {Absent}]
      /\ cell'[to].value = cell[from].value /\ cell'[to] # Absent
      /\ \A s \in Slots : s # to => cell'[s] = cell[s]
  BY <1>1, <1>3, StoreAssumption DEF CopyCredential, IInv, TypeOK, Cell
<1>5. TypeOK'
  BY <1>1, <1>2, <1>4 DEF IInv, TypeOK, ghosts
<1>6. NothingLeftBehind'
  BY <1>1, <1>4 DEF IInv, NothingLeftBehind, CopySoFar, Stored, There
<1>7. FutureRowsExist'
  BY <1>1 DEF IInv, FutureRowsExist
<1>8. UpdateSoFar'
  BY <1>2 DEF UpdateSoFar
<1>9. CopySoFar'
  <2>1. /\ op.from # op.to /\ There(op.from)' /\ There(op.to)'
        /\ profile'[op.to].rules = profile'[op.from].rules
    BY <1>1 DEF IInv, CopySoFar, There
  <2>2. ASSUME NEW j \in Keys
        PROVE  LET a == <<op.from, j>>
                   b == <<op.to, j>>
               IN  /\ (j \in op'.todo => cell'[a] # Absent /\ cell'[b] = Absent)
                   /\ (j \notin op'.todo =>
                         /\ (cell'[b] # Absent) <=> (cell'[a] # Absent)
                         /\ (cell'[b] # Absent => cell'[b].value = cell'[a].value))
    <3>1. <<op.from, j>> \in Slots /\ <<op.to, j>> \in Slots /\ <<op.from, j>> # to
      BY <1>1, <2>1 DEF Duplicate, Slots
    <3>2. CASE j = k
      BY <3>1, <3>2, <1>1, <1>2, <1>3, <1>4, StoreAssumption
    <3>3. CASE j # k
      <4>1. <<op.to, j>> # to
        BY <3>3
      <4>2. j \in op'.todo <=> j \in op.todo
        BY <3>3, <1>2
      <4>3. cell'[<<op.from, j>>] = cell[<<op.from, j>>]
            /\ cell'[<<op.to, j>>] = cell[<<op.to, j>>]
        BY <3>1, <4>1, <1>4
      <4>. QED
        BY <4>2, <4>3, <1>1 DEF IInv, CopySoFar, Stored
    <3>. QED
      BY <3>2, <3>3
  <2>. QED
    BY <2>1, <2>2, <1>2 DEF CopySoFar, Stored
<1>10. ImportInFile'
  BY <1>1 DEF IInv, ImportInFile
<1>11. ImportIsPrefix'
  <2>1. cell[to] = Absent
    BY <1>1 DEF IInv, CopySoFar, Stored
  <2>. QED
    BY <2>1, <1>1, <1>4, PrefixSame
<1>. QED
  BY <1>5, <1>6, <1>7, <1>8, <1>9, <1>10, <1>11 DEF IInv

\* A new credential, added by its own command.
LEMMA AddInv ==
  ASSUME IInv, NEW p \in Profiles, NEW k \in Keys, NEW v \in Typed,
         AddCredential(p, k, v)
  PROVE  IInv'
<1>. DEFINE s == <<p, k>>
<1>1. /\ UNCHANGED <<open, profile, hist, newer, op, ghosts, jumps>>
      /\ commands' = commands + 1 /\ op = Idle
      /\ There(p) /\ ~Stored(s) /\ s \in Slots /\ Touch({s})
  BY DEF AddCredential, Ready, Counted, CanInsert, Slots
<1>2. /\ cell' \in [Slots -> Cell \union {Absent}]
      /\ \A t \in Slots : t # s => cell'[t] = cell[t]
      /\ cell'[s] # Absent
  BY <1>1, StoreAssumption DEF AddCredential, IInv, TypeOK, Cell
<1>3. TypeOK /\ import' \in Importing \union {Idle} /\ ImportInFile'
  BY <1>1, TouchedImport DEF IInv, ImportInFile
<1>4. TypeOK'
  BY <1>1, <1>2, <1>3 DEF TypeOK, ghosts
<1>5. NothingLeftBehind' /\ FutureRowsExist'
  BY <1>1, <1>2 DEF IInv, NothingLeftBehind, FutureRowsExist, Stored, There
<1>6. ImportIsPrefix'
  BY <1>1, <1>2, PrefixTouched
<1>7. UpdateSoFar' /\ CopySoFar'
  BY <1>1 DEF UpdateSoFar, CopySoFar
<1>. QED
  BY <1>3, <1>4, <1>5, <1>6, <1>7 DEF IInv

\* The spoilt updates of a credential are counted up to Kept.
LEMMA SpoilType ==
  ASSUME TypeOK, NEW s \in Slots
  PROVE  Spoil(s) \in [Slots -> 0 .. Kept]
  BY StoreAssumption DEF Spoil, TypeOK

\* update_credential, from the read to the upsert.
LEMMA UpdateInv ==
  ASSUME IInv, NEW s \in Slots,
         \/ \E v \in Typed : UpdateCredential(s, v)
         \/ InsertHistory(s) \/ PruneHistory(s) \/ WriteValue(s)
  PROVE  IInv'
<1>1. CASE \E v \in Typed : UpdateCredential(s, v)
  <2>1. PICK v \in Typed : UpdateCredential(s, v)
    BY <1>1
  <2>2. /\ UNCHANGED <<open, profile, cell, hist, newer, import, ghosts, jumps>>
        /\ commands' = commands + 1 /\ Stored(s)
        /\ op' = [kind |-> "update", step |-> "insert", slot |-> s, value |-> v]
    BY <2>1 DEF UpdateCredential, Counted
  <2>3. op' \in Update
    BY <2>2, StoreAssumption DEF Update
  <2>4. TypeOK'
    BY <2>2, <2>3 DEF IInv, TypeOK, ghosts
  <2>5. NothingLeftBehind' /\ FutureRowsExist' /\ ImportInFile'
    BY <2>2 DEF IInv, NothingLeftBehind, FutureRowsExist, ImportInFile, Stored, There
  <2>6. ImportIsPrefix'
    BY <2>2, PrefixSame
  <2>7. UpdateSoFar' /\ CopySoFar'
    BY <2>2 DEF UpdateSoFar, CopySoFar, Stored
  <2>. QED
    BY <2>4, <2>5, <2>6, <2>7 DEF IInv
<1>2. CASE InsertHistory(s)
  <2>1. /\ UNCHANGED <<open, profile, cell, newer, import, ghosts, commands, jumps>>
        /\ op' = [op EXCEPT !.step = "prune"]
        /\ op \in Update /\ op.slot = s /\ op.step = "insert" /\ Stored(s)
        /\ op.kind = "update" /\ op # Idle
    BY <1>2 DEF InsertHistory, Updating, IInv, TypeOK, UpdateSoFar, Update, Duplicate
  <2>2. /\ hist[s] \in Seq(Values) /\ newer[s] \in Nat /\ newer[s] <= Len(hist[s])
        /\ cell[s].value \in Values
    BY <2>1 DEF IInv, TypeOK, FutureRowsExist, Stored, Cell
  <2>. DEFINE g == Behind(hist[s], newer[s], cell[s].value)
  <2>3. hist' = [hist EXCEPT ![s] = g]
    BY <1>2 DEF InsertHistory
  <2>4. g \in Seq(Values) /\ Len(g) = Len(hist[s]) + 1 /\ g[newer[s] + 1] = cell[s].value
    <3>. DEFINE h == hist[s]
                n == newer[s]
                v == cell[s].value
    <3>1. h \in Seq(Values) /\ n \in Nat /\ n <= Len(h) /\ v \in Values
      BY <2>2
    <3>. HIDE DEF h, n, v
    <3>2. /\ Behind(h, n, v) \in Seq(Values) /\ Len(Behind(h, n, v)) = Len(h) + 1
          /\ Behind(h, n, v)[n + 1] = v
      BY ONLY <3>1, InsertedRow
    <3>. QED
      BY <3>2 DEF h, n, v
  <2>. HIDE DEF g
  <2>5. /\ op' \in Update /\ op'.slot = s /\ op'.step = "prune" /\ op'.kind = "update"
    BY <2>1 DEF Update
  <2>6. TypeOK'
    BY <2>1, <2>3, <2>4, <2>5 DEF IInv, TypeOK, ghosts
  <2>7. NothingLeftBehind' /\ FutureRowsExist' /\ ImportInFile'
    BY <2>1, <2>2, <2>3, <2>4
    DEF IInv, TypeOK, NothingLeftBehind, FutureRowsExist, ImportInFile, Stored, There
  <2>8. ImportIsPrefix'
    BY <2>1, PrefixSame
  <2>9. UpdateSoFar' /\ CopySoFar'
    BY <2>1, <2>2, <2>3, <2>4, <2>5 DEF IInv, TypeOK, UpdateSoFar, CopySoFar, Stored
  <2>. QED
    BY <2>6, <2>7, <2>8, <2>9 DEF IInv
<1>3. CASE PruneHistory(s)
  <2>1. /\ UNCHANGED <<open, profile, cell, import, ghosts, commands, jumps>>
        /\ op' = [op EXCEPT !.step = "upsert"]
        /\ hist' = [hist EXCEPT ![s] = Newest(hist[s])]
        /\ newer' = [newer EXCEPT ![s] = IF newer[s] > Kept THEN Kept ELSE newer[s]]
        /\ op \in Update /\ op.slot = s /\ op.step = "prune" /\ Stored(s)
        /\ op.kind = "update" /\ op # Idle
        /\ newer[s] < Len(hist[s]) /\ hist[s][newer[s] + 1] = cell[s].value
    BY <1>3 DEF PruneHistory, Updating, IInv, TypeOK, UpdateSoFar, Update, Duplicate
  <2>2. /\ hist[s] \in Seq(Values) /\ newer[s] \in Nat
        /\ Newest(hist[s]) \in Seq(Values)
        /\ Len(Newest(hist[s])) = IF Len(hist[s]) < Kept THEN Len(hist[s]) ELSE Kept
        /\ \A i \in 1 .. Len(Newest(hist[s])) : Newest(hist[s])[i] = hist[s][i]
    BY NewestRows DEF IInv, TypeOK
  <2>3. op' \in Update /\ op'.slot = s /\ op'.step = "upsert" /\ op'.kind = "update"
    BY <2>1 DEF Update
  <2>4. TypeOK'
    BY <2>1, <2>2, <2>3, StoreAssumption DEF IInv, TypeOK, ghosts
  <2>5. NothingLeftBehind' /\ ImportInFile'
    BY <2>1, <2>2 DEF IInv, TypeOK, NothingLeftBehind, ImportInFile, Stored, There
  <2>6. FutureRowsExist'
    BY <2>1, <2>2, StoreAssumption DEF IInv, TypeOK, FutureRowsExist
  <2>7. ImportIsPrefix'
    BY <2>1, PrefixSame
  <2>8. newer'[s] >= Kept \/ cell[s].value \in ToSet(hist'[s])
    <3>1. CASE newer[s] >= Kept
      BY <3>1, <2>1, <2>2, StoreAssumption DEF IInv, TypeOK
    <3>2. CASE newer[s] < Kept
      <4>1. newer[s] + 1 \in 1 .. Len(Newest(hist[s]))
        BY <3>2, <2>1, <2>2, StoreAssumption
      <4>2. Newest(hist[s])[newer[s] + 1] = cell[s].value
        BY <4>1, <2>1, <2>2
      <4>3. hist'[s] = Newest(hist[s])
        BY <2>1 DEF IInv, TypeOK
      <4>. QED
        BY <4>1, <4>2, <4>3, <2>2, ToSetMember
    <3>. QED
      BY <3>1, <3>2, <2>2, StoreAssumption
  <2>9. UpdateSoFar' /\ CopySoFar'
    BY <2>1, <2>3, <2>8 DEF UpdateSoFar, CopySoFar, Stored
  <2>. QED
    BY <2>4, <2>5, <2>6, <2>7, <2>9 DEF IInv
<1>4. CASE WriteValue(s)
  <2>1. /\ UNCHANGED <<open, profile, hist, newer, commands, jumps>>
        /\ op \in Update /\ op.value \in Values /\ Stored(s)
        /\ cell' = [cell EXCEPT ![s].value = op.value]
        /\ replaced' = [replaced EXCEPT ![s] = Newest(<<cell[s].value>> \o replaced[s])]
        /\ spoilt' = IF newer[s] > 0 THEN Spoil(s) ELSE spoilt
        /\ op' = Idle /\ Touch({s})
    BY <1>4 DEF WriteValue, Updating, IInv, TypeOK, UpdateSoFar, Update, Duplicate
  <2>2. cell[s] \in Cell
    BY <2>1 DEF IInv, TypeOK, Stored
  <2>3. /\ cell' \in [Slots -> Cell \union {Absent}]
        /\ \A t \in Slots : t # s => cell'[t] = cell[t]
        /\ cell'[s] # Absent
    BY <2>1, <2>2, StoreAssumption DEF IInv, TypeOK, Cell
  <2>4. replaced' \in [Slots -> Seq(Values)]
    <3>1. <<cell[s].value>> \o replaced[s] \in Seq(Values)
      BY <2>2 DEF IInv, TypeOK, Cell
    <3>2. Newest(<<cell[s].value>> \o replaced[s]) \in Seq(Values)
      BY <3>1, NewestRows
    <3>. QED
      BY <3>2, <2>1 DEF IInv, TypeOK
  <2>5. TypeOK /\ import' \in Importing \union {Idle} /\ ImportInFile'
    BY <2>1, TouchedImport DEF IInv, ImportInFile
  <2>6. TypeOK'
    BY <2>1, <2>3, <2>4, <2>5, SpoilType DEF TypeOK
  <2>7. NothingLeftBehind' /\ FutureRowsExist'
    BY <2>1, <2>3 DEF IInv, NothingLeftBehind, FutureRowsExist, Stored, There
  <2>8. ImportIsPrefix'
    BY <2>1, <2>3, PrefixTouched
  <2>9. UpdateSoFar' /\ CopySoFar'
    BY <2>1 DEF UpdateSoFar, CopySoFar
  <2>. QED
    BY <2>5, <2>6, <2>7, <2>8, <2>9 DEF IInv
<1>. QED
  BY <1>1, <1>2, <1>3, <1>4

\* Tags change, and the value stays.
LEMMA RetagInv ==
  ASSUME IInv, NEW s \in Slots, NEW t \in Tags, UpdateCredentialTags(s, t)
  PROVE  IInv'
<1>1. /\ UNCHANGED <<open, profile, hist, newer, op, import, ghosts, jumps>>
      /\ commands' = commands + 1 /\ op = Idle /\ Stored(s)
      /\ cell' = [cell EXCEPT ![s].tags = t]
  BY DEF UpdateCredentialTags, Ready, Counted
<1>2. cell[s] \in Cell
  BY <1>1 DEF IInv, TypeOK, Stored
<1>3. /\ cell' \in [Slots -> Cell \union {Absent}]
      /\ \A u \in Slots : u # s => cell'[u] = cell[u]
      /\ cell'[s] # Absent /\ cell'[s].value = cell[s].value
  BY <1>1, <1>2, StoreAssumption DEF IInv, TypeOK, Cell
<1>4. TypeOK'
  BY <1>1, <1>3 DEF IInv, TypeOK, ghosts
<1>5. NothingLeftBehind' /\ FutureRowsExist' /\ ImportInFile'
  BY <1>1, <1>3 DEF IInv, NothingLeftBehind, FutureRowsExist, ImportInFile, Stored, There
<1>6. ImportIsPrefix'
  <2>1. \A u \in Slots : cell[u] # Absent =>
          cell'[u] # Absent /\ cell'[u].value = cell[u].value
    BY <1>3
  <2>. QED
    BY <2>1, <1>1, PrefixSame
<1>7. UpdateSoFar' /\ CopySoFar'
  BY <1>1 DEF UpdateSoFar, CopySoFar
<1>. QED
  BY <1>4, <1>5, <1>6, <1>7 DEF IInv

\* The import, line by line.
LEMMA ImportInv ==
  ASSUME IInv,
         \/ \E p \in Profiles, f \in ImportFiles : StartImport(p, f)
         \/ \E p \in Profiles : SelectProfile(p)
         \/ ImportLine \/ ImportEnds
  PROVE  IInv'
<1>1. CASE \E p \in Profiles, f \in ImportFiles : StartImport(p, f)
  <2>1. PICK p \in Profiles, f \in ImportFiles : StartImport(p, f)
    BY <1>1
  <2>2. /\ UNCHANGED <<open, profile, cell, hist, newer, op, ghosts, jumps>>
        /\ op = Idle /\ commands' = commands + 1
        /\ import' = [profile |-> p, file |-> f, into |-> <<>>, touched |-> {}]
    BY <2>1 DEF StartImport, Ready, Counted
  <2>3. f \in Seq(Keys \X Values)
    BY StoreAssumption
  <2>4. import' \in Importing /\ Len(import'.into) = 0 /\ Len(import'.file) \in Nat
    BY <2>2, <2>3 DEF Importing
  <2>5. TypeOK'
    BY <2>2, <2>4 DEF IInv, TypeOK, ghosts
  <2>6. NothingLeftBehind' /\ FutureRowsExist'
    BY <2>2 DEF IInv, NothingLeftBehind, FutureRowsExist, Stored, There
  <2>7. ImportInFile' /\ ImportIsPrefix'
    BY <2>4 DEF ImportInFile, ImportIsPrefix
  <2>8. UpdateSoFar' /\ CopySoFar'
    BY <2>2 DEF UpdateSoFar, CopySoFar
  <2>. QED
    BY <2>5, <2>6, <2>7, <2>8 DEF IInv
<1>2. CASE ImportLine
  <2>. DEFINE s == <<import.profile, NextLine[1]>>
  <2>1. /\ UNCHANGED <<open, profile, hist, newer, op, ghosts, commands, jumps>>
        /\ op = Idle /\ import \in Importing /\ import # Idle
        /\ Len(import.into) < Len(import.file)
        /\ There(import.profile) /\ ~Stored(s)
        /\ cell' = [cell EXCEPT ![s] = [value |-> NextLine[2], tags |-> NoTags]]
        /\ import' = [import EXCEPT !.into = Append(@, import.profile)]
    BY <1>2 DEF ImportLine, CanInsert, IInv, TypeOK, Importing, ImportInFile
  <2>. DEFINE n == Len(import.into)
  <2>2. /\ NextLine[1] \in Keys /\ NextLine[2] \in Values /\ s \in Slots
        /\ n \in Nat
    BY <2>1, NextLineType DEF IInv
  <2>3. /\ cell' \in [Slots -> Cell \union {Absent}]
        /\ \A t \in Slots : t # s => cell'[t] = cell[t]
        /\ cell'[s] # Absent /\ cell'[s].value = NextLine[2]
    BY <2>1, <2>2, StoreAssumption DEF IInv, TypeOK, Cell
  <2>4. /\ import' \in Importing /\ import' # Idle
        /\ import'.file = import.file /\ import'.touched = import.touched
        /\ import'.into = Append(import.into, import.profile)
    <3>1. Append(import.into, import.profile) \in Seq(Profiles)
      BY <2>1 DEF Importing
    <3>2. import' \in Importing
      BY <2>1, <3>1 DEF Importing
    <3>. QED
      BY <2>1, <3>2, StoreAssumption DEF Importing
  <2>5. TypeOK'
    BY <2>1, <2>3, <2>4 DEF IInv, TypeOK, ghosts
  <2>6. NothingLeftBehind' /\ FutureRowsExist'
    BY <2>1, <2>3 DEF IInv, NothingLeftBehind, FutureRowsExist, Stored, There
  <2>7. /\ Len(import'.into) = n + 1 /\ import'.into[n + 1] = import.profile
        /\ \A i \in 1 .. n : import'.into[i] = import.into[i]
    BY <2>1, <2>4 DEF Importing
  <2>8. ImportInFile'
    BY <2>1, <2>2, <2>4, <2>7 DEF ImportInFile
  <2>. HIDE DEF n
  <2>9. ImportIsPrefix'
    <3>1. SUFFICES ASSUME NEW i \in 1 .. n + 1, Sent(i)' \notin import.touched
                   PROVE  /\ cell'[Sent(i)'] # Absent
                          /\ cell'[Sent(i)'].value = import.file[i][2]
      BY <2>4, <2>7 DEF ImportIsPrefix, Stored
    <3>2. CASE i = n + 1
      <4>1. Sent(i)' = s /\ NextLine = import.file[i]
        BY <3>2, <2>4, <2>7 DEF Sent, NextLine, n
      <4>. QED
        BY <4>1, <2>3
    <3>3. CASE i \in 1 .. n
      <4>1. Sent(i)' = Sent(i)
        BY <3>3, <2>4, <2>7 DEF Sent
      <4>2. Sent(i) \in Slots
        BY <3>3, <2>1, LineType DEF IInv, n
      <4>3. cell[Sent(i)] # Absent /\ cell[Sent(i)].value = import.file[i][2]
        BY <3>1, <3>3, <4>1, <2>1 DEF IInv, ImportIsPrefix, Stored, n
      <4>. QED
        BY <4>1, <4>2, <4>3, <2>1, <2>3 DEF Stored
    <3>. QED
      BY <3>2, <3>3, <2>2
  <2>10. UpdateSoFar' /\ CopySoFar'
    BY <2>1 DEF UpdateSoFar, CopySoFar
  <2>. QED
    BY <2>5, <2>6, <2>8, <2>9, <2>10 DEF IInv
<1>3. CASE ImportEnds
  <2>1. /\ UNCHANGED <<open, profile, cell, hist, newer, op, ghosts, commands, jumps>>
        /\ import' = Idle
    BY <1>3 DEF ImportEnds
  <2>. QED
    BY <2>1 DEF IInv, TypeOK, ghosts, NothingLeftBehind, FutureRowsExist, ImportInFile,
                ImportIsPrefix, UpdateSoFar, CopySoFar, Sent, Stored, There
<1>4. CASE \E p \in Profiles : SelectProfile(p)
  <2>1. PICK p \in Profiles : SelectProfile(p)
    BY <1>4
  <2>2. /\ UNCHANGED <<open, profile, cell, hist, newer, op, ghosts, commands, jumps>>
        /\ op = Idle /\ import # Idle /\ import \in Importing
        /\ import' = [import EXCEPT !.profile = p]
    BY <2>1 DEF SelectProfile, IInv, TypeOK
  <2>3. /\ import' \in Importing /\ import' # Idle
        /\ import'.file = import.file /\ import'.into = import.into
        /\ import'.touched = import.touched
    BY <2>2, StoreAssumption DEF Importing
  <2>4. TypeOK'
    BY <2>2, <2>3 DEF IInv, TypeOK, ghosts
  <2>5. NothingLeftBehind' /\ FutureRowsExist' /\ ImportInFile'
    BY <2>2, <2>3 DEF IInv, NothingLeftBehind, FutureRowsExist, ImportInFile, Stored, There
  <2>6. ImportIsPrefix'
    BY <2>2, <2>3, PrefixSame
  <2>7. UpdateSoFar' /\ CopySoFar'
    BY <2>2 DEF UpdateSoFar, CopySoFar
  <2>. QED
    BY <2>4, <2>5, <2>6, <2>7 DEF IInv
<1>. QED
  BY <1>1, <1>2, <1>3, <1>4

\* Errors, crashes, lock, unlock and the clock.
LEMMA EventInv ==
  ASSUME IInv,
         \/ Fail \/ Crash \/ Lock \/ Unlock
         \/ \E s \in Slots : \E n \in 0 .. Len(hist[s]) : ClockMoves(s, n)
  PROVE  IInv'
<1>1. CASE Fail \/ Crash
  <2>1. /\ UNCHANGED <<profile, cell, hist, newer, replaced, commands, jumps>>
        /\ open' \in BOOLEAN /\ op' = Idle /\ CutOff
        /\ import' = Idle \/ import' = import
    BY <1>1 DEF Fail, Crash, IInv, TypeOK
  <2>2. spoilt' \in [Slots -> 0 .. Kept]
    <3>1. CASE op # Idle /\ op.kind = "update" /\ op.step # "insert"
      <4>1. op.slot \in Slots
        BY <3>1 DEF IInv, TypeOK, Update, Duplicate
      <4>. QED
        BY <4>1, <3>1, <2>1, SpoilType DEF CutOff, IInv
    <3>2. CASE ~(op # Idle /\ op.kind = "update" /\ op.step # "insert")
      BY <3>2, <2>1 DEF CutOff, IInv, TypeOK
    <3>. QED
      BY <3>1, <3>2
  <2>3. TypeOK'
    BY <2>1, <2>2 DEF IInv, TypeOK
  <2>4. NothingLeftBehind' /\ FutureRowsExist' /\ ImportInFile' /\ ImportIsPrefix'
    BY <2>1 DEF IInv, NothingLeftBehind, FutureRowsExist, ImportInFile, ImportIsPrefix,
                Sent, Stored, There
  <2>. QED
    BY <2>1, <2>3, <2>4 DEF IInv, UpdateSoFar, CopySoFar
<1>2. CASE Lock \/ Unlock
  <2>1. /\ UNCHANGED <<profile, cell, hist, newer, op, import, ghosts, commands, jumps>>
        /\ open' \in BOOLEAN
    BY <1>2 DEF Lock, Unlock
  <2>. QED
    BY <2>1 DEF IInv, TypeOK, ghosts, NothingLeftBehind, FutureRowsExist, ImportInFile,
                ImportIsPrefix, UpdateSoFar, CopySoFar, Sent, Stored, There
<1>3. CASE \E s \in Slots : \E n \in 0 .. Len(hist[s]) : ClockMoves(s, n)
  <2>1. PICK s \in Slots : \E n \in 0 .. Len(hist[s]) : ClockMoves(s, n)
    BY <1>3
  <2>2. hist[s] \in Seq(Values)
    BY DEF IInv, TypeOK
  <2>3. PICK n \in Nat : n <= Len(hist[s]) /\ ClockMoves(s, n)
    BY <2>1, <2>2
  <2>4. /\ UNCHANGED <<open, profile, cell, hist, op, import, ghosts, commands>>
        /\ op = Idle /\ newer' = [newer EXCEPT ![s] = n] /\ jumps' = jumps + 1
    BY <2>3 DEF ClockMoves
  <2>5. TypeOK' /\ FutureRowsExist'
    BY <2>3, <2>4 DEF IInv, TypeOK, FutureRowsExist, ghosts
  <2>. QED
    BY <2>4, <2>5 DEF IInv, NothingLeftBehind, ImportInFile, ImportIsPrefix,
                      UpdateSoFar, CopySoFar, Sent, Stored, There
<1>. QED
  BY <1>1, <1>2, <1>3

LEMMA NextInv == IInv /\ [Next]_vars => IInv'
<1>. SUFFICES ASSUME IInv, [Next]_vars PROVE IInv'
  OBVIOUS
<1>1. CASE \E p \in Profiles, n \in Bases \X (0 .. MaxCopies) :
             (\E r \in Rules : CreateProfile(p, n, r)) \/ UpdateProfile(p, n)
  <2>1. \A n \in Bases \X (0 .. MaxCopies) : n \in Names
    BY StoreAssumption DEF Names
  <2>. QED
    BY <1>1, <2>1, ProfileStep
<1>2. CASE \E p \in Profiles, r \in Rules : UpdateProfileRules(p, r)
  BY <1>2, ProfileStep
<1>3. CASE \E p \in Profiles : DeleteProfile(p)
  BY <1>3, DeleteStep
<1>4. CASE \E p, q \in Profiles : DuplicateProfile(p, q)
  BY <1>4, DuplicateInv
<1>5. CASE \E k \in Keys : CopyCredential(k)
  BY <1>5, CopyInv
<1>6. CASE DuplicateReturns
  <2>1. UNCHANGED <<open, profile, cell, hist, newer, import, ghosts, commands, jumps>>
        /\ op' = Idle
    BY <1>6 DEF DuplicateReturns
  <2>. QED
    BY <2>1 DEF ghosts, IInv, TypeOK, NothingLeftBehind, FutureRowsExist,
                ImportInFile, ImportIsPrefix, UpdateSoFar, CopySoFar, Sent, Stored, There
<1>7. CASE \E p \in Profiles, k \in Keys, v \in Typed : AddCredential(p, k, v)
  BY <1>7, AddInv
<1>8. CASE \E s \in Slots : \/ DeleteCredential(s)
                            \/ \E v \in Typed : UpdateCredential(s, v)
                            \/ \E t \in Tags : UpdateCredentialTags(s, t)
                            \/ InsertHistory(s) \/ PruneHistory(s) \/ WriteValue(s)
                            \/ \E n \in 0 .. Len(hist[s]) : ClockMoves(s, n)
  <2>1. PICK s \in Slots : \/ DeleteCredential(s)
                           \/ \E v \in Typed : UpdateCredential(s, v)
                           \/ \E t \in Tags : UpdateCredentialTags(s, t)
                           \/ InsertHistory(s) \/ PruneHistory(s) \/ WriteValue(s)
                           \/ \E n \in 0 .. Len(hist[s]) : ClockMoves(s, n)
    BY <1>8
  <2>2. CASE DeleteCredential(s)
    BY <2>2, DeleteStep
  <2>3. CASE \/ \E v \in Typed : UpdateCredential(s, v)
             \/ InsertHistory(s) \/ PruneHistory(s) \/ WriteValue(s)
    BY <2>3, UpdateInv
  <2>4. CASE \E t \in Tags : UpdateCredentialTags(s, t)
    BY <2>4, RetagInv
  <2>5. CASE \E n \in 0 .. Len(hist[s]) : ClockMoves(s, n)
    BY <2>5, EventInv
  <2>. QED
    BY <2>1, <2>2, <2>3, <2>4, <2>5
<1>9. CASE \/ \E p \in Profiles, f \in ImportFiles : StartImport(p, f)
           \/ \E p \in Profiles : SelectProfile(p)
           \/ ImportLine \/ ImportEnds
  BY <1>9, ImportInv
<1>10. CASE Fail \/ Crash \/ Lock \/ Unlock
  BY <1>10, EventInv
<1>11. CASE UNCHANGED vars
  BY <1>11 DEF vars, ghosts, IInv, TypeOK, NothingLeftBehind, FutureRowsExist,
               ImportInFile, ImportIsPrefix, UpdateSoFar, CopySoFar, Sent, Stored, There
<1>. QED
  BY <1>1, <1>2, <1>3, <1>4, <1>5, <1>6, <1>7, <1>8, <1>9, <1>10, <1>11 DEF Next

-----------------------------------------------------------------------------
(* The refinement of AtomicStore *)

\* The state of AtomicStore that a state stands for.
Exists == {p \in Profiles : There(p)}
Past   == [s \in Slots |-> ToSet(hist[s])]
Beyond == {s \in Slots : newer[s] >= Kept}

LEMMA SameSets == A!Slots = Slots /\ A!Cell = Cell
  BY DEF A!Slots, Slots, A!Cell, Cell

LEMMA InitMaps == Init => A!Init
<1>. SUFFICES ASSUME Init PROVE A!Init
  OBVIOUS
<1>1. IInv
  BY InitInv
<1>2. \A s \in Slots : s[1] \notin Exists => cell[s] = Absent
  BY <1>1 DEF IInv, NothingLeftBehind, Stored, Exists, Slots
<1>3. Past = [s \in Slots |-> {}]
  BY DEF Init, Past, ToSet
<1>4. Beyond = {}
  BY StoreAssumption DEF Init, Beyond
<1>5. cell \in [Slots -> Cell \union {Absent}]
  BY <1>1 DEF IInv, TypeOK
<1>. QED
  BY <1>2, <1>3, <1>4, <1>5, SameSets DEF A!Init, Exists, Past, Beyond

\* Steps that change neither profiles nor credentials nor history.
LEMMA Stutters ==
  ASSUME \A p \in Profiles : There(p)' <=> There(p),
         UNCHANGED <<cell, hist, newer>>
  PROVE  UNCHANGED A!vars
<1>1. Exists' = Exists
  BY DEF Exists
<1>2. Past' = Past /\ Beyond' = Beyond
  BY DEF Past, Beyond
<1>. QED
  BY <1>1, <1>2 DEF A!vars, Exists, Past, Beyond

LEMMA ProfileMaps ==
  ASSUME IInv, NEW p \in Profiles, Fresh(p), There(p)',
         \A q \in Profiles : q # p => profile'[q] = profile[q],
         UNCHANGED <<cell, hist, newer>>
  PROVE  A!Create(p)
<1>1. p \notin Exists /\ Exists' = Exists \union {p}
  BY DEF Exists, Fresh, There
<1>. QED
  BY <1>1 DEF A!Create, Exists

LEMMA DeleteProfileMaps ==
  ASSUME IInv, NEW p \in Profiles, DeleteProfile(p)
  PROVE  A!Remove(p)
<1>1. /\ There(p) /\ profile' = [profile EXCEPT ![p] = Absent]
      /\ Cascade({p} \X Keys)
  BY DEF DeleteProfile
<1>2. \A s \in Slots : s \in {p} \X Keys <=> s[1] = p
  BY DEF Slots
<1>3. p \in Exists /\ Exists' = Exists \ {p}
  BY <1>1 DEF Exists, There, IInv, TypeOK
<1>4. cell' = [s \in Slots |-> IF s[1] = p THEN Absent ELSE cell[s]]
  BY <1>1, <1>2 DEF Cascade
<1>5. Past' = [s \in Slots |-> IF s[1] = p THEN {} ELSE Past[s]]
  BY <1>1, <1>2 DEF Cascade, Past, ToSet
<1>6. Beyond' = {s \in Beyond : s[1] # p}
  BY <1>1, <1>2, StoreAssumption DEF Cascade, Beyond
<1>. QED
  BY <1>3, <1>4, <1>5, <1>6, SameSets DEF A!Remove, Exists, Past, Beyond

LEMMA DeleteCredentialMaps ==
  ASSUME IInv, NEW s \in Slots, DeleteCredential(s)
  PROVE  A!Drop(s)
<1>1. Stored(s) /\ Cascade({s}) /\ UNCHANGED profile
  BY DEF DeleteCredential
<1>2. cell' = [cell EXCEPT ![s] = Absent]
  BY <1>1 DEF Cascade, IInv, TypeOK
<1>3. Past' = [Past EXCEPT ![s] = {}]
  <2>1. \A t \in Slots : hist'[t] = IF t = s THEN <<>> ELSE hist[t]
    BY <1>1 DEF Cascade
  <2>2. ToSet(<<>>) = {}
    BY DEF ToSet
  <2>3. \A t \in Slots : ToSet(hist'[t]) = IF t = s THEN {} ELSE ToSet(hist[t])
    BY <2>1, <2>2
  <2>. QED
    BY <2>3 DEF Past
<1>4. Beyond' = Beyond \ {s}
  BY <1>1, StoreAssumption DEF Cascade, Beyond
<1>5. Exists' = Exists
  BY <1>1 DEF Exists, There
<1>. QED
  BY <1>1, <1>2, <1>3, <1>4, <1>5 DEF A!Drop, Exists, Past, Beyond, Stored

LEMMA PutMaps ==
  ASSUME IInv, NEW s \in Slots, NEW v \in Values, There(s[1]), ~Stored(s),
         cell' = [cell EXCEPT ![s] = [value |-> v, tags |-> NoTags]],
         UNCHANGED <<profile, hist, newer>>
  PROVE  \E c \in Cell : A!Put(s, c)
<1>. DEFINE c == [value |-> v, tags |-> NoTags]
<1>1. c \in Cell
  BY StoreAssumption DEF Cell
<1>2. s[1] \in Exists
  BY DEF Exists, Slots
<1>3. Exists' = Exists /\ Past' = Past /\ Beyond' = Beyond
  BY DEF Exists, Past, Beyond, There
<1>4. A!Put(s, c)
  BY <1>2, <1>3 DEF A!Put, Exists, Past, Beyond, Stored
<1>. QED
  BY <1>1, <1>4

\* The insert and the prune of a history row remember the present value.
LEMMA RememberMaps ==
  ASSUME IInv, NEW s \in Slots, InsertHistory(s) \/ PruneHistory(s)
  PROVE  A!Remember(s)
<1>1. /\ Stored(s) /\ UNCHANGED <<profile, cell>>
      /\ \A t \in Slots : t # s => hist'[t] = hist[t]
      /\ DOMAIN hist' = Slots
  BY DEF InsertHistory, PruneHistory, Updating, IInv, TypeOK, UpdateSoFar
<1>2. cell[s].value \in Values
  BY <1>1 DEF IInv, TypeOK, Stored, Cell
<1>3. hist[s] \in Seq(Values) /\ newer[s] \in Nat /\ newer[s] <= Len(hist[s])
  BY DEF IInv, TypeOK, FutureRowsExist
<1>4. ToSet(hist'[s]) \subseteq ToSet(hist[s]) \union {cell[s].value}
  <2>1. CASE InsertHistory(s)
    <3>1. hist'[s] = Behind(hist[s], newer[s], cell[s].value)
      BY <2>1 DEF InsertHistory, IInv, TypeOK
    <3>. QED
      BY <3>1, <1>2, <1>3, InsertedRange
  <2>2. CASE PruneHistory(s)
    <3>1. hist'[s] = Newest(hist[s])
      BY <2>2 DEF PruneHistory, IInv, TypeOK
    <3>. QED
      BY <3>1, <1>3, PrunedRange
  <2>. QED
    BY <2>1, <2>2
<1>5. Beyond' = Beyond
  <2>1. CASE InsertHistory(s)
    BY <2>1 DEF InsertHistory, Beyond
  <2>2. CASE PruneHistory(s)
    BY <2>2, <1>3, StoreAssumption DEF PruneHistory, Beyond, IInv, TypeOK
  <2>. QED
    BY <2>1, <2>2
<1>6. \A t \in Slots : ToSet(hist'[t]) \subseteq Values
  <2>1. IInv'
    BY UpdateInv
  <2>2. \A t \in Slots : hist'[t] \in Seq(Values)
    BY <2>1 DEF IInv, TypeOK
  <2>3. ASSUME NEW t \in Slots, NEW v \in ToSet(hist'[t])
        PROVE  v \in Values
    <3>1. PICK i \in 1 .. Len(hist'[t]) : hist'[t][i] = v
      BY <2>2, ToSetMember
    <3>. QED
      BY <3>1, <2>2
  <2>. QED
    BY <2>3
<1>7. /\ Past' \in [Slots -> SUBSET Values]
      /\ \A t \in Slots \ {s} : Past'[t] = Past[t]
      /\ Past'[s] \subseteq Past[s] \union {cell[s].value}
  BY <1>1, <1>4, <1>6 DEF Past
<1>8. Exists' = Exists
  BY <1>1 DEF Exists, There
<1>. QED
  BY <1>1, <1>5, <1>7, <1>8, SameSets DEF A!Remember, Exists, Past, Beyond, Stored

LEMMA OverwriteMaps ==
  ASSUME IInv, NEW s \in Slots, WriteValue(s)
  PROVE  \E v \in Values : A!Overwrite(s, v)
<1>1. /\ UNCHANGED <<profile, hist, newer>> /\ Stored(s) /\ op.value \in Values
      /\ newer[s] >= Kept \/ cell[s].value \in ToSet(hist[s])
      /\ cell' = [cell EXCEPT ![s].value = op.value]
  BY DEF WriteValue, Updating, IInv, TypeOK, UpdateSoFar, Update, Duplicate
<1>2. cell[s].value \in Past[s] \/ s \in Beyond
  BY <1>1 DEF Past, Beyond
<1>3. Exists' = Exists /\ Past' = Past /\ Beyond' = Beyond
  BY <1>1 DEF Exists, Past, Beyond, There
<1>4. A!Overwrite(s, op.value)
  BY <1>1, <1>2, <1>3 DEF A!Overwrite, Exists, Past, Beyond, Stored
<1>. QED
  BY <1>1, <1>4

LEMMA RetagMaps ==
  ASSUME IInv, NEW s \in Slots, NEW t \in Tags, UpdateCredentialTags(s, t)
  PROVE  A!Retag(s, t)
<1>1. /\ UNCHANGED <<profile, hist, newer>> /\ Stored(s)
      /\ cell' = [cell EXCEPT ![s].tags = t]
  BY DEF UpdateCredentialTags
<1>2. Exists' = Exists /\ Past' = Past /\ Beyond' = Beyond
  BY <1>1 DEF Exists, Past, Beyond, There
<1>. QED
  BY <1>1, <1>2 DEF A!Retag, Exists, Past, Beyond, Stored

LEMMA ClockMaps ==
  ASSUME NEW s \in Slots, NEW n, ClockMoves(s, n)
  PROVE  A!ClockMoves
<1>1. Exists' = Exists /\ Past' = Past /\ Beyond' \in SUBSET Slots /\ UNCHANGED cell
  BY DEF ClockMoves, Exists, Past, Beyond, There
<1>. QED
  BY <1>1, SameSets DEF A!ClockMoves, Exists, Past, Beyond

\* Every step is one of AtomicStore or changes nothing that it sees.
LEMMA StepMaps == IInv /\ [Next]_vars => [A!Next]_A!vars
<1>. SUFFICES ASSUME IInv, [Next]_vars PROVE [A!Next]_A!vars
  OBVIOUS
<1>1. ASSUME NEW p \in Profiles, NEW n \in Bases \X (0 .. MaxCopies), NEW r \in Rules,
             CreateProfile(p, n, r)
      PROVE  A!Next
  <2>1. There(p)' /\ (\A q \in Profiles : q # p => profile'[q] = profile[q])
    BY <1>1, StoreAssumption DEF CreateProfile, There, Profile, Names, IInv, TypeOK
  <2>2. A!Create(p)
    BY <2>1, <1>1, ProfileMaps DEF CreateProfile
  <2>. QED
    BY <2>2 DEF A!Next
<1>2. ASSUME NEW p \in Profiles, NEW n \in Bases \X (0 .. MaxCopies), UpdateProfile(p, n)
      PROVE  UNCHANGED A!vars
  <2>1. profile[p] \in Profile /\ [profile[p] EXCEPT !.name = n] \in Profile
    <3>1. n \in Names
      BY StoreAssumption DEF Names
    <3>2. profile[p] \in Profile
      BY <1>2 DEF UpdateProfile, There, IInv, TypeOK
    <3>. QED
      BY <3>1, <3>2 DEF Profile
  <2>2. \A q \in Profiles : There(q)' <=> There(q)
    BY <1>2, <2>1, StoreAssumption DEF UpdateProfile, There, IInv, TypeOK
  <2>. QED
    BY <1>2, <2>2, Stutters DEF UpdateProfile
<1>3. ASSUME NEW p \in Profiles, NEW r \in Rules, UpdateProfileRules(p, r)
      PROVE  UNCHANGED A!vars
  <2>1. profile[p] \in Profile /\ [profile[p] EXCEPT !.rules = r] \in Profile
    BY <1>3 DEF UpdateProfileRules, There, IInv, TypeOK, Profile
  <2>2. \A q \in Profiles : There(q)' <=> There(q)
    BY <1>3, <2>1, StoreAssumption DEF UpdateProfileRules, There, IInv, TypeOK
  <2>. QED
    BY <1>3, <2>2, Stutters DEF UpdateProfileRules
<1>4. ASSUME NEW p \in Profiles, DeleteProfile(p)
      PROVE  A!Next
  BY <1>4, DeleteProfileMaps DEF A!Next
<1>5. ASSUME NEW p \in Profiles, NEW q \in Profiles, DuplicateProfile(p, q)
      PROVE  A!Next
  <2>1. [profile[p] EXCEPT !.name = CopyOf(@)] \in Profile
    <3>1. profile[p] \in Profile
      BY <1>5 DEF DuplicateProfile, There, IInv, TypeOK
    <3>. QED
      BY <3>1 DEF Profile, Names, CopyOf
  <2>2. There(q)' /\ (\A r \in Profiles : r # q => profile'[r] = profile[r])
    BY <1>5, <2>1, StoreAssumption DEF DuplicateProfile, There, IInv, TypeOK
  <2>3. A!Create(q)
    BY <2>2, <1>5, ProfileMaps DEF DuplicateProfile
  <2>. QED
    BY <2>3 DEF A!Next
<1>6. ASSUME NEW k \in Keys, CopyCredential(k)
      PROVE  A!Next
  <2>1. /\ op \in Duplicate /\ k \in op.todo /\ <<op.to, k>> \in Slots
        /\ <<op.from, k>> \in Slots
        /\ There(op.to) /\ ~Stored(<<op.to, k>>) /\ Stored(<<op.from, k>>)
    BY <1>6 DEF CopyCredential, IInv, TypeOK, CopySoFar, Update, Duplicate, Slots
  <2>2. cell[<<op.from, k>>].value \in Values
    BY <2>1 DEF IInv, TypeOK, Stored, Cell
  <2>3. \E c \in Cell : A!Put(<<op.to, k>>, c)
    BY <1>6, <2>1, <2>2, PutMaps DEF CopyCredential
  <2>. QED
    BY <2>1, <2>3, SameSets DEF A!Next
<1>7. ASSUME NEW p \in Profiles, NEW k \in Keys, NEW v \in Typed, AddCredential(p, k, v)
      PROVE  A!Next
  <2>1. <<p, k>> \in Slots /\ v \in Values
    BY StoreAssumption DEF Slots
  <2>2. \E c \in Cell : A!Put(<<p, k>>, c)
    BY <1>7, <2>1, PutMaps DEF AddCredential, CanInsert
  <2>. QED
    BY <2>1, <2>2, SameSets DEF A!Next
<1>8. ASSUME NEW s \in Slots,
             \/ DeleteCredential(s)
             \/ \E t \in Tags : UpdateCredentialTags(s, t)
             \/ InsertHistory(s) \/ PruneHistory(s) \/ WriteValue(s)
             \/ \E n \in 0 .. Len(hist[s]) : ClockMoves(s, n)
      PROVE  A!Next
  <2>1. CASE DeleteCredential(s)
    BY <2>1, DeleteCredentialMaps, SameSets DEF A!Next
  <2>2. CASE \E t \in Tags : UpdateCredentialTags(s, t)
    BY <2>2, RetagMaps, SameSets DEF A!Next
  <2>3. CASE InsertHistory(s) \/ PruneHistory(s)
    BY <2>3, RememberMaps, SameSets DEF A!Next
  <2>4. CASE WriteValue(s)
    BY <2>4, OverwriteMaps, SameSets DEF A!Next
  <2>5. CASE \E n \in 0 .. Len(hist[s]) : ClockMoves(s, n)
    BY <2>5, ClockMaps DEF A!Next
  <2>. QED
    BY <1>8, <2>1, <2>2, <2>3, <2>4, <2>5
<1>9. ASSUME NEW s \in Slots, NEW v \in Typed, UpdateCredential(s, v)
      PROVE  UNCHANGED A!vars
  BY <1>9, Stutters DEF UpdateCredential, There
<1>10. ASSUME ImportLine
       PROVE  A!Next
  <2>. DEFINE s == <<import.profile, NextLine[1]>>
  <2>1. /\ import # Idle /\ Len(import.into) < Len(import.file)
        /\ There(import.profile) /\ ~Stored(s)
    BY <1>10 DEF ImportLine, CanInsert
  <2>2. s \in Slots /\ NextLine[2] \in Values
    BY <2>1, NextLineType DEF IInv
  <2>3. \E c \in Cell : A!Put(s, c)
    BY <1>10, <2>1, <2>2, PutMaps DEF ImportLine
  <2>. QED
    BY <2>2, <2>3, SameSets DEF A!Next
<1>11. CASE \/ DuplicateReturns
            \/ \E p \in Profiles, f \in ImportFiles : StartImport(p, f)
            \/ \E p \in Profiles : SelectProfile(p)
            \/ ImportEnds \/ Fail \/ Crash \/ Lock \/ Unlock \/ UNCHANGED vars
  <2>1. UNCHANGED <<profile, cell, hist, newer>>
    BY <1>11 DEF DuplicateReturns, StartImport, SelectProfile, ImportEnds, Fail, Crash, Lock, Unlock, vars
  <2>. QED
    BY <2>1, Stutters DEF There
<1>. QED
  BY <1>1, <1>2, <1>3, <1>4, <1>5, <1>6, <1>7, <1>8, <1>9, <1>10, <1>11 DEF Next

-----------------------------------------------------------------------------
(* What a history lacks of the values replaced *)

\* Lacking is a finite set, of m members at most.
LEMMA LackingFinite ==
  ASSUME NEW r, NEW h, NEW m \in Int, NEW n
  PROVE  /\ IsFiniteSet(Lacking(r, h, m, n))
         /\ Cardinality(Lacking(r, h, m, n)) \in Nat
         /\ m \in Nat => Cardinality(Lacking(r, h, m, n)) <= m
<1>1. IsFiniteSet(1 .. m) /\ (m \in Nat => Cardinality(1 .. m) = m)
  BY FS_Interval
<1>2. Lacking(r, h, m, n) \in SUBSET (1 .. m)
  BY DEF Lacking
<1>3. /\ IsFiniteSet(Lacking(r, h, m, n))
      /\ Cardinality(Lacking(r, h, m, n)) <= Cardinality(1 .. m)
  BY <1>1, <1>2, FS_Subset
<1>4. Cardinality(Lacking(r, h, m, n)) \in Nat
  BY <1>3, FS_CardinalityType
<1>. QED
  BY <1>1, <1>3, <1>4

\* More rows lack no more.
LEMMA LackingSubset ==
  ASSUME NEW r, NEW h, NEW g, NEW m \in Int, NEW n, NEW k \in Nat, NEW l,
         Lacking(r, h, m, n) \subseteq Lacking(r, g, m, l),
         Cardinality(Lacking(r, g, m, l)) <= k
  PROVE  Cardinality(Lacking(r, h, m, n)) <= k
<1>1. /\ IsFiniteSet(Lacking(r, g, m, l))
      /\ Cardinality(Lacking(r, g, m, l)) \in Nat
      /\ Cardinality(Lacking(r, h, m, n)) \in Nat
  BY LackingFinite
<1>2. Cardinality(Lacking(r, h, m, n)) <= Cardinality(Lacking(r, g, m, l))
  BY <1>1, FS_Subset
<1>. QED
  BY <1>1, <1>2

\* A history pruned to Kept rows keeps the first m rows, m at most Kept.
LEMMA PruneLacks ==
  ASSUME NEW r, NEW h \in Seq(Values), NEW m \in Int, NEW n \in 1 .. Kept
  PROVE  Lacking(r, Newest(h), m, n) \subseteq Lacking(r, h, m, n)
  BY NewestRows, StoreAssumption DEF Lacking

\* The rows of a history and the one inserted keep their order.
LEMMA InsertedRows ==
  ASSUME NEW h \in Seq(Values), NEW n \in Nat, n <= Len(h), NEW v \in Values
  PROVE  \A j \in 1 .. Len(h) :
           Behind(h, n, v)[j] = h[j] \/ Behind(h, n, v)[j + 1] = h[j]
<1>. DEFINE a == SubSeq(h, 1, n)
            b == SubSeq(h, n + 1, Len(h))
            c == a \o <<v>>
            g == c \o b
<1>1. /\ a \in Seq(Values) /\ Len(a) = n
      /\ \A i \in 1 .. n : a[i] = h[i]
  OBVIOUS
<1>2. /\ b \in Seq(Values) /\ Len(b) = Len(h) - n
      /\ \A i \in 1 .. Len(h) - n : b[i] = h[n + i]
  OBVIOUS
<1>. HIDE DEF a, b
<1>3. /\ c \in Seq(Values)
      /\ Len(c) = n + 1
      /\ \A i \in 1 .. n : c[i] = h[i]
  BY <1>1
<1>. HIDE DEF c
<1>4. /\ \A i \in 1 .. n + 1 : g[i] = c[i]
      /\ \A i \in n + 2 .. Len(h) + 1 : g[i] = b[i - n - 1]
  BY <1>2, <1>3 DEF g
<1>. HIDE DEF g
<1>5. ASSUME NEW j \in 1 .. Len(h)
      PROVE  g[j] = h[j] \/ g[j + 1] = h[j]
  <2>1. CASE j <= n
    BY <2>1, <1>3, <1>4
  <2>2. CASE j > n
    <3>1. j + 1 \in n + 2 .. Len(h) + 1 /\ (j + 1) - n - 1 = j - n
          /\ j - n \in 1 .. Len(h) - n /\ n + (j - n) = j
      BY <2>2
    <3>. QED
      BY <3>1, <1>2, <1>4
  <2>. QED
    BY <2>1, <2>2
<1>. QED
  BY <1>5 DEF a, b, c, g, Behind

\* A row inserted takes one place.
LEMMA InsertLacks ==
  ASSUME NEW r, NEW h \in Seq(Values), NEW k \in Nat, k <= Len(h), NEW v \in Values,
         NEW m \in Int, NEW n \in Nat
  PROVE  Lacking(r, Behind(h, k, v), m, n + 1) \subseteq Lacking(r, h, m, n)
<1>. DEFINE g == Behind(h, k, v)
<1>1. Len(g) = Len(h) + 1 /\ \A j \in 1 .. Len(h) : g[j] = h[j] \/ g[j + 1] = h[j]
  BY InsertedRow, InsertedRows
<1>. HIDE DEF g
<1>2. ASSUME NEW i \in Lacking(r, g, m, n + 1), NEW j \in 1 .. n, j <= Len(h)
      PROVE  h[j] # r[i]
  <2>1. j \in 1 .. n + 1 /\ j + 1 \in 1 .. n + 1 /\ j <= Len(g) /\ j + 1 <= Len(g)
    BY <1>1, <1>2
  <2>2. g[j] # r[i] /\ g[j + 1] # r[i]
    BY <2>1 DEF Lacking
  <2>. QED
    BY <2>2, <1>1, <1>2
<1>3. Lacking(r, g, m, n + 1) \subseteq Lacking(r, h, m, n)
  BY <1>2 DEF Lacking
<1>. QED
  BY <1>3 DEF g

\* The rows of a history are all of them, however many one asks for.
LEMMA AllRowsLack ==
  ASSUME NEW r, NEW h \in Seq(Values), NEW m \in Int, NEW n \in Int
  PROVE  Lacking(r, h, m, Len(h)) \subseteq Lacking(r, h, m, n)
  BY DEF Lacking

\* One value more in sight is one more that can be missing.
LEMMA LastLacks ==
  ASSUME NEW r, NEW h, NEW m \in Nat, NEW n, NEW k \in Nat,
         Cardinality(Lacking(r, h, m, n)) <= k
  PROVE  Cardinality(Lacking(r, h, m + 1, n)) <= k + 1
<1>1. /\ IsFiniteSet(Lacking(r, h, m, n)) /\ Cardinality(Lacking(r, h, m, n)) \in Nat
      /\ Cardinality(Lacking(r, h, m + 1, n)) \in Nat
  BY LackingFinite
<1>. DEFINE T == Lacking(r, h, m, n) \union {m + 1}
<1>2. IsFiniteSet(T) /\ Cardinality(T) <= Cardinality(Lacking(r, h, m, n)) + 1
      /\ Cardinality(T) \in Nat
  <2>. DEFINE L == Lacking(r, h, m, n)
  <2>1. IsFiniteSet(L) /\ Cardinality(L) \in Nat
    BY <1>1
  <2>. HIDE DEF L
  <2>2. /\ IsFiniteSet(L \union {m + 1})
        /\ Cardinality(L \union {m + 1}) =
             IF m + 1 \in L THEN Cardinality(L) ELSE Cardinality(L) + 1
    BY <2>1, FS_AddElement
  <2>3. Cardinality(L \union {m + 1}) <= Cardinality(L) + 1 /\ Cardinality(L \union {m + 1}) \in Nat
    BY <2>1, <2>2
  <2>. QED
    BY <2>2, <2>3 DEF L
<1>3. Lacking(r, h, m + 1, n) \subseteq T
  BY DEF Lacking
<1>4. Cardinality(Lacking(r, h, m + 1, n)) <= Cardinality(T)
  BY <1>2, <1>3, FS_Subset
<1>. QED
  BY <1>1, <1>2, <1>4

\* The values replaced before move by one place.
LEMMA ShiftedLack ==
  ASSUME NEW r \in Seq(Values), NEW h, NEW m \in Nat, NEW n, NEW k \in Nat, NEW v \in Values,
         Cardinality(Lacking(r, h, m, n)) <= k
  PROVE  LET q == Newest(<<v>> \o r)
         IN  /\ Cardinality(Lacking(q, h, m + 1, n)) <= k + 1
             /\ (n \in Nat /\ n > 0 /\ Len(h) \in Nat /\ Len(h) > 0 /\ h[1] = v
                  => Cardinality(Lacking(q, h, m + 1, n)) <= k)
<1>. DEFINE q == Newest(<<v>> \o r)
            S == Lacking(r, h, m, n)
            Q == Lacking(q, h, m + 1, n)
            f == [i \in Q \ {1} |-> i - 1]
<1>1. /\ Len(q) <= Len(r) + 1 /\ Len(q) \in Nat
      /\ \A i \in 1 .. Len(q) : q[i] = IF i = 1 THEN v ELSE r[i - 1]
  <2>1. /\ <<v>> \o r \in Seq(Values) /\ Len(<<v>> \o r) = Len(r) + 1
        /\ \A i \in 1 .. Len(r) + 1 : (<<v>> \o r)[i] = IF i = 1 THEN v ELSE r[i - 1]
    OBVIOUS
  <2>. DEFINE p == <<v>> \o r
  <2>2. p \in Seq(Values) /\ Len(p) = Len(r) + 1
    BY <2>1
  <2>3. \A i \in 1 .. Len(r) + 1 : p[i] = IF i = 1 THEN v ELSE r[i - 1]
    BY <2>1
  <2>. HIDE DEF p
  <2>4. /\ Len(Newest(p)) = IF Len(p) < Kept THEN Len(p) ELSE Kept
        /\ \A i \in 1 .. Len(Newest(p)) : Newest(p)[i] = p[i]
    BY <2>2, NewestRows
  <2>5. Len(Newest(p)) <= Len(r) + 1 /\ Len(Newest(p)) \in Nat
    BY <2>2, <2>4, StoreAssumption
  <2>6. \A i \in 1 .. Len(Newest(p)) : Newest(p)[i] = IF i = 1 THEN v ELSE r[i - 1]
    BY <2>3, <2>4, <2>5
  <2>. QED
    BY <2>5, <2>6 DEF p
<1>2. /\ IsFiniteSet(S) /\ IsFiniteSet(Q)
      /\ Cardinality(S) \in Nat /\ Cardinality(Q) \in Nat
  BY LackingFinite
<1>3. ASSUME NEW i \in Q \ {1} PROVE i \in Nat /\ i > 1 /\ i - 1 \in S
  <2>1. i \in 2 .. m + 1 /\ i <= Len(q) /\ \A j \in 1 .. n : j <= Len(h) => h[j] # q[i]
    BY DEF Lacking
  <2>2. q[i] = r[i - 1] /\ i - 1 \in 1 .. m /\ i - 1 <= Len(r)
    BY <1>1, <2>1
  <2>. QED
    BY <2>1, <2>2 DEF Lacking
<1>4. f \in Injection(Q \ {1}, S)
  BY <1>3 DEF Injection, IsInjective
<1>. HIDE DEF f
<1>5. IsFiniteSet(Q \ {1}) /\ Cardinality(Q \ {1}) <= Cardinality(S)
  BY <1>2, <1>4, FS_Injection
<1>6. Cardinality(Q \ {1}) = IF 1 \in Q THEN Cardinality(Q) - 1 ELSE Cardinality(Q)
  BY <1>2, FS_RemoveElement
<1>7. ASSUME n \in Nat, n > 0, Len(h) \in Nat, Len(h) > 0, h[1] = v
      PROVE  1 \notin Q
  BY <1>1, <1>7 DEF Lacking
<1>8. Cardinality(Q) <= k + 1 /\ (1 \notin Q => Cardinality(Q) <= k)
  BY <1>2, <1>5, <1>6
<1>. QED
  BY <1>7, <1>8

-----------------------------------------------------------------------------
(* The history of a credential, step by step *)

\* A step that leaves a slot and the update of it alone.
LEMMA HistorySame ==
  ASSUME NEW s \in Slots, HistoryOf(s),
         replaced'[s] = replaced[s], hist'[s] = hist[s], spoilt'[s] = spoilt[s],
         Updating(s, "prune")' <=> Updating(s, "prune"),
         Updating(s, "upsert")' <=> Updating(s, "upsert"),
         Updating(s, "upsert") => newer'[s] = newer[s] /\ cell'[s] = cell[s]
  PROVE  HistoryOf(s)'
<1>1. RowAhead(s)' = RowAhead(s)
  BY DEF RowAhead
<1>. HIDE DEF Updating, RowAhead
<1>. QED
  BY <1>1 DEF HistoryOf

\* Without values replaced nothing is lacking.
LEMMA HistoryEmpty ==
  ASSUME NEW s \in Slots, replaced'[s] = <<>>, spoilt'[s] \in Nat,
         ~Updating(s, "prune")', ~Updating(s, "upsert")'
  PROVE  HistoryOf(s)'
<1>1. \A h, m, n : Lacking(<<>>, h, m, n) = {}
  BY DEF Lacking
<1>2. \A h, m, n : Cardinality(Lacking(<<>>, h, m, n)) = 0
  BY <1>1, FS_EmptySet
<1>3. Len(<<>>) = 0
  OBVIOUS
<1>. HIDE DEF Updating
<1>. QED
  BY <1>2, <1>3, StoreAssumption DEF HistoryOf

\* insert_credential_history
LEMMA HistoryInsert ==
  ASSUME IInv, NEW s \in Slots, HistoryOf(s), InsertHistory(s)
  PROVE  HistoryOf(s)'
<1>. DEFINE r == replaced[s]
            h == hist[s]
            k == newer[s]
            v == cell[s].value
            g == Behind(h, k, v)
<1>1. /\ hist'[s] = g /\ replaced'[s] = r /\ spoilt'[s] = spoilt[s]
      /\ Updating(s, "prune")' /\ ~Updating(s, "upsert")'
      /\ ~Updating(s, "prune") /\ ~Updating(s, "upsert")
      /\ op # Idle /\ op.kind = "update" /\ op.slot = s
  <2>1. op' = [op EXCEPT !.step = "prune"] /\ op \in Update
    BY DEF InsertHistory, Updating, IInv, TypeOK, Update, Duplicate
  <2>2. op' \in Update /\ op'.step = "prune" /\ op'.kind = "update" /\ op'.slot = op.slot
    BY <2>1 DEF Update
  <2>3. op' # Idle
    BY <2>2, StoreAssumption
  <2>. QED
    BY <2>2, <2>3 DEF InsertHistory, Updating, ghosts, IInv, TypeOK
<1>2. /\ r \in Seq(Values) /\ h \in Seq(Values) /\ k \in Nat /\ k <= Len(h)
      /\ v \in Values /\ spoilt[s] \in Nat
  BY <1>1, StoreAssumption DEF IInv, TypeOK, FutureRowsExist, UpdateSoFar, Stored, Cell
<1>3. RowAhead(s) = 0 /\ RowAhead(s)' = 1
  BY <1>1 DEF RowAhead
<1>4. /\ Len(r) <= Kept
      /\ \A m \in 1 .. Kept : Cardinality(Lacking(r, h, m, m)) <= spoilt[s]
  BY <1>3 DEF HistoryOf
<1>5. Len(g) = Len(h) + 1
  BY <1>2, InsertedRow
<1>. HIDE DEF r, h, k, v
<1>6. ASSUME NEW m \in 1 .. Kept
      PROVE  Cardinality(Lacking(r, g, m - 1, m)) <= spoilt[s]
  <2>1. CASE m = 1
    <3>1. Lacking(r, g, m - 1, m) = {}
      BY <2>1 DEF Lacking
    <3>2. Cardinality({}) = 0
      BY FS_EmptySet
    <3>3. Cardinality(Lacking(r, g, m - 1, m)) = 0
      BY <3>1, <3>2
    <3>4. \A c : c = 0 => c <= spoilt[s]
      BY <1>2
    <3>. QED
      BY <3>3, <3>4
  <2>2. CASE m > 1
    <3>. DEFINE n == m - 1
    <3>1. n \in 1 .. Kept /\ n \in Nat /\ n \in Int /\ n + 1 = m
      BY <2>2, StoreAssumption
    <3>. HIDE DEF n
    <3>2. Lacking(r, Behind(h, k, v), n, n + 1) \subseteq Lacking(r, h, n, n)
      BY <3>1, <1>2, InsertLacks
    <3>3. Cardinality(Lacking(r, h, n, n)) <= spoilt[s]
      BY <3>1, <1>4
    <3>4. Cardinality(Lacking(r, Behind(h, k, v), n, n + 1)) <= spoilt[s]
      BY <3>1, <3>2, <3>3, <1>2, LackingSubset
    <3>. QED
      BY <3>1, <3>4 DEF n
  <2>. QED
    BY <2>1, <2>2
<1>7. Cardinality(Lacking(r, g, Kept, Len(g))) <= spoilt[s]
  <2>1. Lacking(r, g, Kept, Len(g)) \subseteq Lacking(r, h, Kept, Len(h))
    BY <1>2, <1>5, StoreAssumption, InsertLacks
  <2>2. Lacking(r, h, Kept, Len(h)) \subseteq Lacking(r, h, Kept, Kept)
    BY <1>2, StoreAssumption, AllRowsLack
  <2>3. Cardinality(Lacking(r, h, Kept, Kept)) <= spoilt[s] /\ Kept \in Int
    BY <1>4, StoreAssumption
  <2>. QED
    BY <2>1, <2>2, <2>3, <1>2, LackingSubset
<1>. HIDE DEF g, Updating, RowAhead
<1>. QED
  BY <1>1, <1>3, <1>4, <1>6, <1>7 DEF HistoryOf, r

\* The rows behind the first Kept are deleted.
LEMMA HistoryPrune ==
  ASSUME IInv, NEW s \in Slots, HistoryOf(s), PruneHistory(s)
  PROVE  HistoryOf(s)'
<1>. DEFINE r == replaced[s]
            h == hist[s]
            g == Newest(h)
<1>1. /\ hist'[s] = g /\ replaced'[s] = r /\ spoilt'[s] = spoilt[s]
      /\ newer'[s] = (IF newer[s] > Kept THEN Kept ELSE newer[s]) /\ cell' = cell
      /\ Updating(s, "upsert")' /\ ~Updating(s, "prune")'
      /\ Updating(s, "prune")
  <2>1. op' = [op EXCEPT !.step = "upsert"] /\ op \in Update
    BY DEF PruneHistory, Updating, IInv, TypeOK, Update, Duplicate
  <2>2. op' \in Update /\ op'.step = "upsert" /\ op'.kind = "update" /\ op'.slot = op.slot
    BY <2>1 DEF Update
  <2>3. op' # Idle
    BY <2>2, StoreAssumption
  <2>. QED
    BY <2>2, <2>3 DEF PruneHistory, Updating, ghosts, IInv, TypeOK
<1>2. /\ r \in Seq(Values) /\ h \in Seq(Values) /\ newer[s] \in Nat
      /\ newer[s] < Len(h) /\ h[newer[s] + 1] = cell[s].value /\ spoilt[s] \in Nat
  BY <1>1, StoreAssumption DEF IInv, TypeOK, UpdateSoFar, Updating
<1>3. RowAhead(s) = 1 /\ RowAhead(s)' = 1
  BY <1>1 DEF RowAhead
<1>4. /\ Len(r) <= Kept
      /\ \A m \in 1 .. Kept : Cardinality(Lacking(r, h, m - 1, m)) <= spoilt[s]
  BY <1>3 DEF HistoryOf
<1>5. /\ Len(g) = IF Len(h) < Kept THEN Len(h) ELSE Kept
      /\ g \in Seq(Values) /\ \A i \in 1 .. Len(g) : g[i] = h[i]
  BY <1>2, NewestRows
<1>. HIDE DEF r, h
<1>6. ASSUME NEW m \in 1 .. Kept
      PROVE  Cardinality(Lacking(r, g, m - 1, m)) <= spoilt[s]
  <2>1. Lacking(r, g, m - 1, m) \subseteq Lacking(r, h, m - 1, m)
    BY <1>2, PruneLacks
  <2>. QED
    BY <2>1, <1>2, <1>4, LackingSubset
<1>. HIDE DEF g
<1>7. newer'[s] = 0 => g # <<>> /\ g[1] = cell[s].value
  BY <1>1, <1>2, <1>5, StoreAssumption
<1>. HIDE DEF Updating, RowAhead
<1>. QED
  BY <1>1, <1>3, <1>4, <1>6, <1>7 DEF HistoryOf

\* The new value: what it replaces is in the row written before, unless that
\* row went behind rows from the future.
LEMMA HistoryWrite ==
  ASSUME IInv, NEW s \in Slots, HistoryOf(s), WriteValue(s)
  PROVE  HistoryOf(s)'
<1>. DEFINE r == replaced[s]
            h == hist[s]
            v == cell[s].value
            q == Newest(<<v>> \o r)
<1>1. /\ hist'[s] = h /\ replaced'[s] = q
      /\ spoilt'[s] = (IF newer[s] > 0 /\ spoilt[s] < Kept THEN spoilt[s] + 1 ELSE spoilt[s])
      /\ Updating(s, "upsert")
      /\ ~Updating(s, "upsert")' /\ ~Updating(s, "prune")'
  <2>1. /\ hist' = hist /\ op' = Idle /\ Updating(s, "upsert")
        /\ replaced' = [replaced EXCEPT ![s] = q]
        /\ spoilt' = IF newer[s] > 0 THEN Spoil(s) ELSE spoilt
    BY DEF WriteValue
  <2>2. /\ replaced'[s] = q
        /\ Spoil(s)[s] = IF spoilt[s] < Kept THEN spoilt[s] + 1 ELSE Kept
        /\ spoilt[s] \in 0 .. Kept
    BY <2>1 DEF Spoil, IInv, TypeOK
  <2>3. spoilt'[s] = (IF newer[s] > 0 /\ spoilt[s] < Kept THEN spoilt[s] + 1 ELSE spoilt[s])
    BY <2>1, <2>2, StoreAssumption
  <2>. QED
    BY <2>1, <2>2, <2>3 DEF Updating
<1>2. /\ r \in Seq(Values) /\ h \in Seq(Values) /\ newer[s] \in Nat
      /\ v \in Values /\ spoilt[s] \in Nat /\ spoilt[s] <= Kept
  BY <1>1, StoreAssumption DEF IInv, TypeOK, UpdateSoFar, Updating, Stored, Cell
<1>3. RowAhead(s) = 1 /\ RowAhead(s)' = 0
  BY <1>1 DEF RowAhead
<1>4. /\ \A m \in 1 .. Kept : Cardinality(Lacking(r, h, m - 1, m)) <= spoilt[s]
      /\ newer[s] = 0 => h # <<>> /\ h[1] = v
  BY <1>1, <1>3 DEF HistoryOf
<1>5. Len(q) <= Kept
  <2>. DEFINE p == <<v>> \o r
  <2>1. p \in Seq(Values) /\ Len(p) \in Nat
    BY <1>2
  <2>. HIDE DEF p
  <2>2. Len(Newest(p)) <= Kept
    BY <2>1, NewestRows, StoreAssumption
  <2>. QED
    BY <2>2 DEF p
<1>6. ASSUME NEW m \in 1 .. Kept
      PROVE  Cardinality(Lacking(q, h, m, m)) <= spoilt'[s]
  <2>. DEFINE k == m - 1
  <2>1. k \in Nat /\ k + 1 = m /\ m \in Nat /\ m > 0 /\ m <= Kept
    BY StoreAssumption
  <2>2. Cardinality(Lacking(r, h, k, m)) <= spoilt[s]
    BY <1>4
  <2>. HIDE DEF r, h, v, k
  <2>3. /\ Cardinality(Lacking(Newest(<<v>> \o r), h, k + 1, m)) <= spoilt[s] + 1
        /\ (m \in Nat /\ m > 0 /\ Len(h) \in Nat /\ Len(h) > 0 /\ h[1] = v
              => Cardinality(Lacking(Newest(<<v>> \o r), h, k + 1, m)) <= spoilt[s])
    BY <2>1, <2>2, <1>2, ShiftedLack
  <2>4. newer[s] = 0 => Cardinality(Lacking(q, h, m, m)) <= spoilt[s]
    BY <2>1, <2>3, <1>2, <1>4
  <2>5. Cardinality(Lacking(q, h, m, m)) <= spoilt[s] + 1
    BY <2>1, <2>3
  <2>6. Cardinality(Lacking(q, h, m, m)) \in Nat /\ Cardinality(Lacking(q, h, m, m)) <= m
    BY <2>1, LackingFinite
  <2>. QED
    BY <2>1, <2>4, <2>5, <2>6, <1>1, <1>2, StoreAssumption
<1>. HIDE DEF q, Updating, RowAhead
<1>. QED
  BY <1>1, <1>3, <1>5, <1>6 DEF HistoryOf

\* An update cut off has written a row and no value.
LEMMA HistoryCut ==
  ASSUME IInv, NEW s \in Slots, HistoryOf(s), op' = Idle, CutOff,
         UNCHANGED <<hist, replaced>>
  PROVE  HistoryOf(s)'
<1>. DEFINE r == replaced[s]
            h == hist[s]
<1>1. ~Updating(s, "prune")' /\ ~Updating(s, "upsert")' /\ RowAhead(s)' = 0
  BY DEF Updating, RowAhead
<1>2. spoilt[s] \in Nat /\ spoilt[s] <= Kept /\ Len(r) <= Kept
  BY StoreAssumption DEF IInv, TypeOK, HistoryOf
<1>3. CASE Updating(s, "prune") \/ Updating(s, "upsert")
  <2>1. spoilt'[s] = IF spoilt[s] < Kept THEN spoilt[s] + 1 ELSE Kept
    BY <1>3 DEF CutOff, Spoil, Updating, IInv, TypeOK
  <2>2. \A m \in 1 .. Kept : Cardinality(Lacking(r, h, m - 1, m)) <= spoilt[s]
    BY <1>3 DEF HistoryOf, RowAhead
  <2>3. ASSUME NEW m \in 1 .. Kept
        PROVE  Cardinality(Lacking(r, h, m, m)) <= spoilt'[s]
    <3>. DEFINE k == m - 1
    <3>1. k \in Nat /\ k + 1 = m /\ m \in Nat /\ m <= Kept
      BY StoreAssumption
    <3>2. Cardinality(Lacking(r, h, k, m)) <= spoilt[s]
      BY <2>2
    <3>. HIDE DEF k, r, h
    <3>3. Cardinality(Lacking(r, h, k + 1, m)) <= spoilt[s] + 1
      BY <3>1, <3>2, <1>2, LastLacks
    <3>4. Cardinality(Lacking(r, h, m, m)) \in Nat /\ Cardinality(Lacking(r, h, m, m)) <= m
      BY <3>1, LackingFinite
    <3>. QED
      BY <3>1, <3>3, <3>4, <2>1, <1>2, StoreAssumption
  <2>. HIDE DEF Updating, RowAhead
  <2>. QED
    BY <1>1, <1>2, <2>3 DEF HistoryOf
<1>4. CASE ~Updating(s, "prune") /\ ~Updating(s, "upsert")
  <2>1. spoilt'[s] = spoilt[s]
    BY <1>4 DEF CutOff, Spoil, Updating, IInv, TypeOK, Update, Duplicate
  <2>2. hist'[s] = hist[s] /\ replaced'[s] = replaced[s]
    OBVIOUS
  <2>. QED
    BY <1>1, <1>4, <2>1, <2>2, HistorySame
<1>. QED
  BY <1>3, <1>4

\* A history that starts with a credential, or is deleted with it, lacks
\* nothing; every step but those of an update leaves the others alone.
LEMMA HistoryInit == Init => HistoryInv
<1>. SUFFICES ASSUME Init, NEW s \in Slots PROVE HistoryOf(s)
  BY DEF HistoryInv
<1>1. replaced[s] = <<>> /\ spoilt[s] = 0 /\ ~Updating(s, "prune") /\ ~Updating(s, "upsert")
  BY DEF Init, Updating
<1>2. \A h, m, n : Lacking(<<>>, h, m, n) = {}
  BY DEF Lacking
<1>3. \A h, m, n : Cardinality(Lacking(<<>>, h, m, n)) = 0
  BY <1>2, FS_EmptySet
<1>4. Len(<<>>) = 0
  OBVIOUS
<1>. HIDE DEF Updating
<1>. QED
  BY <1>1, <1>3, <1>4, StoreAssumption DEF HistoryOf

LEMMA HistoryCascade ==
  ASSUME IInv, NEW S, op = Idle, op' = Idle, Cascade(S), NEW s \in Slots, HistoryOf(s)
  PROVE  HistoryOf(s)'
<1>1. \A t : ~Updating(s, t) /\ ~Updating(s, t)'
  BY DEF Updating
<1>2. CASE s \in S
  BY <1>1, <1>2, HistoryEmpty DEF Cascade
<1>3. CASE s \notin S
  BY <1>1, <1>3, HistorySame DEF Cascade
<1>. QED
  BY <1>2, <1>3

\* No update is past its first step before or after.
LEMMA HistoryElsewhere ==
  ASSUME NEW s \in Slots, HistoryOf(s), UNCHANGED <<hist, ghosts>>,
         ~Updating(s, "prune"), ~Updating(s, "upsert"),
         ~Updating(s, "prune")', ~Updating(s, "upsert")'
  PROVE  HistoryOf(s)'
<1>. HIDE DEF Updating
<1>. QED
  BY HistorySame DEF ghosts

LEMMA HistoryNext == IInv /\ HistoryInv /\ [Next]_vars => HistoryInv'
<1>. SUFFICES ASSUME IInv, HistoryInv, [Next]_vars, NEW s \in Slots
              PROVE  HistoryOf(s)'
  BY DEF HistoryInv, Slots
<1>h. HistoryOf(s)
  BY DEF HistoryInv
<1>i. ASSUME op = Idle, UNCHANGED <<hist, ghosts>>,
             op' = Idle \/ op'.kind = "duplicate" \/ op'.step = "insert"
      PROVE  HistoryOf(s)'
  BY <1>h, <1>i, HistoryElsewhere DEF Updating
<1>1. CASE \E p \in Profiles, n \in Bases \X (0 .. MaxCopies) :
             (\E r \in Rules : CreateProfile(p, n, r)) \/ UpdateProfile(p, n)
  BY <1>1, <1>i DEF CreateProfile, UpdateProfile, Ready
<1>2. CASE \E p \in Profiles, r \in Rules : UpdateProfileRules(p, r)
  BY <1>2, <1>i DEF UpdateProfileRules, Ready
<1>3. CASE \E p \in Profiles : DeleteProfile(p)
  BY <1>3, <1>h, HistoryCascade DEF DeleteProfile, Ready
<1>4. CASE \E p, q \in Profiles : DuplicateProfile(p, q)
  BY <1>4, <1>i DEF DuplicateProfile, Ready
<1>5. CASE (\E k \in Keys : CopyCredential(k)) \/ DuplicateReturns
  <2>1. /\ op # Idle /\ op.kind = "duplicate" /\ UNCHANGED <<hist, ghosts>>
        /\ op' = Idle \/ op'.kind = "duplicate"
    <3>1. CASE DuplicateReturns
      BY <3>1 DEF DuplicateReturns
    <3>2. CASE \E k \in Keys : CopyCredential(k)
      <4>1. PICK k \in Keys : CopyCredential(k)
        BY <3>2
      <4>2. op \in Duplicate /\ op' = [op EXCEPT !.todo = op.todo \ {k}]
        BY <4>1 DEF CopyCredential, IInv, TypeOK, Update, Duplicate
      <4>. QED
        BY <4>1, <4>2 DEF CopyCredential, Duplicate
    <3>. QED
      BY <1>5, <3>1, <3>2
  <2>. QED
    BY <2>1, <1>h, HistoryElsewhere DEF Updating
<1>6. CASE \E p \in Profiles, k \in Keys, v \in Typed : AddCredential(p, k, v)
  BY <1>6, <1>i DEF AddCredential, Ready
<1>7. CASE \E t \in Slots : \/ DeleteCredential(t)
                            \/ \E v \in Typed : UpdateCredential(t, v)
                            \/ \E u \in Tags : UpdateCredentialTags(t, u)
                            \/ \E n \in 0 .. Len(hist[t]) : ClockMoves(t, n)
  <2>1. PICK t \in Slots : \/ DeleteCredential(t)
                           \/ \E v \in Typed : UpdateCredential(t, v)
                           \/ \E u \in Tags : UpdateCredentialTags(t, u)
                           \/ \E n \in 0 .. Len(hist[t]) : ClockMoves(t, n)
    BY <1>7
  <2>2. CASE DeleteCredential(t)
    BY <2>2, <1>h, HistoryCascade DEF DeleteCredential, Ready
  <2>3. CASE \E v \in Typed : UpdateCredential(t, v)
    BY <2>3, <1>i DEF UpdateCredential, Ready
  <2>4. CASE \E u \in Tags : UpdateCredentialTags(t, u)
    BY <2>4, <1>i DEF UpdateCredentialTags, Ready
  <2>5. CASE \E n \in 0 .. Len(hist[t]) : ClockMoves(t, n)
    BY <2>5, <1>i DEF ClockMoves
  <2>. QED
    BY <2>1, <2>2, <2>3, <2>4, <2>5
<1>8. CASE \E t \in Slots : InsertHistory(t) \/ PruneHistory(t) \/ WriteValue(t)
  <2>1. PICK t \in Slots : InsertHistory(t) \/ PruneHistory(t) \/ WriteValue(t)
    BY <1>8
  <2>2. CASE t = s
    BY <2>1, <2>2, <1>h, HistoryInsert, HistoryPrune, HistoryWrite
  <2>3. CASE t # s
    <3>1. op \in Update /\ op # Idle /\ op.slot = t
      BY <2>1 DEF InsertHistory, PruneHistory, WriteValue, Updating, IInv, TypeOK,
                  Update, Duplicate
    <3>2. op' = Idle \/ op'.slot = t
      BY <2>1, <3>1 DEF InsertHistory, PruneHistory, WriteValue, Update
    <3>3. hist'[s] = hist[s] /\ replaced'[s] = replaced[s] /\ spoilt'[s] = spoilt[s]
      BY <2>1, <2>3 DEF InsertHistory, PruneHistory, WriteValue, Spoil, ghosts, IInv, TypeOK
    <3>4. \A u : ~Updating(s, u) /\ ~Updating(s, u)'
      BY <2>3, <3>1, <3>2 DEF Updating
    <3>. QED
      BY <1>h, <3>3, <3>4, HistorySame
  <2>. QED
    BY <2>2, <2>3
<1>9. CASE \/ \E p \in Profiles, f \in ImportFiles : StartImport(p, f)
           \/ \E p \in Profiles : SelectProfile(p)
           \/ ImportLine \/ Lock
  BY <1>9, <1>i DEF StartImport, SelectProfile, ImportLine, Lock, Ready
<1>10. CASE Fail \/ Crash
  BY <1>10, <1>h, HistoryCut DEF Fail, Crash
<1>11. CASE ImportEnds \/ Unlock \/ UNCHANGED vars
  <2>1. /\ UNCHANGED <<hist, newer, op, ghosts>>
        /\ UNCHANGED cell
    BY <1>11 DEF ImportEnds, Unlock, vars, ghosts
  <2>2. Updating(s, "prune")' = Updating(s, "prune") /\ Updating(s, "upsert")' = Updating(s, "upsert")
    BY <2>1 DEF Updating
  <2>. QED
    BY <1>h, <2>1, <2>2, HistorySame DEF ghosts
<1>. QED
  BY <1>1, <1>2, <1>3, <1>4, <1>5, <1>6, <1>7, <1>8, <1>9, <1>10, <1>11 DEF Next

-----------------------------------------------------------------------------
(* Theorems *)

THEOREM Invariance == Spec => []IInv
  BY InitInv, NextInv, PTL DEF Spec

\* Every variable keeps its type.
THEOREM TypeCorrect == Spec => []TypeOK
<1>1. IInv => TypeOK
  BY DEF IInv
<1>. QED
  BY <1>1, Invariance, PTL

\* No credential without its profile and no old value without its credential,
\* whatever was under way when something was deleted.
THEOREM NothingEverLeftBehind == Spec => []NothingLeftBehind
<1>1. IInv => NothingLeftBehind
  BY DEF IInv
<1>. QED
  BY <1>1, Invariance, PTL

\* A copy that duplicate_profile answers Ok for is complete.
THEOREM CopiesAlwaysWhole == Spec => []CopiesWhole
<1>1. IInv => CopiesWhole
  BY DEF IInv, TypeOK, CopySoFar, CopiesWhole
<1>. QED
  BY <1>1, Invariance, PTL

\* An import never replaces a value, not even one of its own, also when it is
\* spread over several profiles.
THEOREM ImportAlwaysPrefix == Spec => []ImportIsPrefix
<1>1. IInv => ImportIsPrefix
  BY DEF IInv
<1>. QED
  BY <1>1, Invariance, PTL

\* Wherever the operations are cut off, the store is an AtomicStore: whole
\* changes of single credentials, and no value replaced before it is kept.
THEOREM Refinement == Spec => ImplementsAtomicStore
  BY InitMaps, StepMaps, Invariance, PTL DEF Spec, ImplementsAtomicStore, A!Spec

\* Of the values the last Kept updates have replaced, the history lacks at
\* most one for each update that was cut off, or put its row behind rows from
\* the future.
THEOREM HistoryAlwaysKeepsRecent == Spec => []HistoryKeepsRecent
<1>1. IInv /\ HistoryInv => HistoryKeepsRecent
  <2>. SUFFICES ASSUME IInv, HistoryInv, NEW s \in Slots, ~Updating(s, "upsert")
                PROVE  Cardinality(Lacking(replaced[s], hist[s], Kept, Len(hist[s]))) <= spoilt[s]
    BY DEF HistoryKeepsRecent
  <2>1. HistoryOf(s)
    BY DEF HistoryInv
  <2>2. CASE Updating(s, "prune")
    BY <2>1, <2>2 DEF HistoryOf
  <2>3. CASE ~Updating(s, "prune")
    <3>1. /\ hist[s] \in Seq(Values) /\ spoilt[s] \in Nat
          /\ Kept \in 1 .. Kept /\ Kept \in Int
      BY StoreAssumption DEF IInv, TypeOK
    <3>2. RowAhead(s) = 0
      BY <2>3 DEF RowAhead
    <3>3. Cardinality(Lacking(replaced[s], hist[s], Kept, Kept)) <= spoilt[s]
      BY <2>1, <3>1, <3>2 DEF HistoryOf
    <3>4. Lacking(replaced[s], hist[s], Kept, Len(hist[s]))
            \subseteq Lacking(replaced[s], hist[s], Kept, Kept)
      BY <3>1, AllRowsLack
    <3>. QED
      BY <3>1, <3>3, <3>4, LackingSubset
  <2>. QED
    BY <2>2, <2>3
<1>2. Spec => []HistoryInv
  BY HistoryInit, HistoryNext, Invariance, PTL DEF Spec
<1>. QED
  BY <1>1, <1>2, Invariance, PTL

\* What export_credentials writes for credentials of a profile, processBulkEnv
\* reads back exactly when every key fits on a line and every value is Plain,
\* whatever is stored.
THEOREM ExportsAlwaysReadBack == Spec => []ExportsReadBack
<1>1. IInv => ExportsReadBack
  <2>. SUFFICES ASSUME IInv, NEW p \in Profiles, NEW n \in 0 .. MaxExported,
                       NEW ks \in [1 .. n -> {k \in Keys : Stored(<<p, k>>)}]
                PROVE  LET pairs == [i \in 1 .. n |-> <<ks[i], cell[<<p, ks[i]>>].value>>]
                       IN  Import(Export(pairs)) = pairs
                             <=> \A i \in 1 .. n : Fits(pairs[i][1]) /\ Plain(pairs[i][2])
    BY DEF ExportsReadBack
  <2>. DEFINE pairs == [i \in 1 .. n |-> <<ks[i], cell[<<p, ks[i]>>].value>>]
  <2>1. \A i \in 1 .. n : ks[i] \in Text /\ cell[<<p, ks[i]>>].value \in Text
    <3>. TAKE i \in 1 .. n
    <3>1. ks[i] \in Keys /\ <<p, ks[i]>> \in Slots /\ cell[<<p, ks[i]>>] # Absent
      BY DEF Slots, Stored
    <3>2. cell[<<p, ks[i]>>] \in Cell
      BY <3>1 DEF IInv, TypeOK
    <3>. QED
      BY <3>1, <3>2, TextAssumption DEF Cell
  <2>2. pairs \in Seq(Text \X Text) /\ Len(pairs) = n
    BY <2>1
  <2>. HIDE DEF pairs
  <2>3. Import(Export(pairs)) = pairs
          <=> \A i \in 1 .. Len(pairs) : Fits(pairs[i][1]) /\ Plain(pairs[i][2])
    BY <2>2, ExportIsReadExactly
  <2>. QED
    BY <2>2, <2>3 DEF pairs
<1>. QED
  BY <1>1, Invariance, PTL
=============================================================================
