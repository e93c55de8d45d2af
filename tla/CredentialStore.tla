-------------------------- MODULE CredentialStore --------------------------
(***************************************************************************)
(* Profiles, credentials and the history of their values: the operations   *)
(* of EnvGuardEngine on them (mod.rs), statement by statement (storage.rs),*)
(* and the import of a .env file by the window (app.js).                   *)
(*                                                                         *)
(* A command holds VaultState.inner from its first statement to its last,  *)
(* so that no other command runs in between; but every statement commits   *)
(* by itself, and an error or the end of the process can come between any  *)
(* two of them.  An import is one command per line, each for the profile   *)
(* selected at the time: others may run between its lines, and the user    *)
(* may select another profile.                                             *)
(***************************************************************************)
EXTENDS Naturals, Sequences, FiniteSets, EnvFile

CONSTANTS
  Profiles, Keys, Bases, Rules,
  Values,        \* the values a credential can have
  Typed,         \* those that the user enters
  Tags, NoTags,  \* NoTags: the tags of a new credential
  ImportFiles,   \* the <<key, value>> sequences of the files imported
  Kept,          \* rows of history kept for a credential: LIMIT 3
  Absent, Idle,
  MaxCommands,   \* bound: commands
  MaxCopies,     \* bound: copies of copies
  MaxExported,   \* bound: credentials in one export
  MaxJumps       \* bound: moves of the clock

VARIABLES
  open,      \* whether an engine is published
  profile,   \* profiles: a record per profile, or Absent
  cell,      \* credentials: cell[<<p, k>>], or Absent
  hist,      \* credential_history: the old values, by timestamp, newest first
  newer,     \* how many of these rows have a timestamp after the present time
  op,        \* the command in progress
  import,    \* the import in progress
  replaced,  \* ghost: the last Kept values really replaced, newest first
  spoilt,    \* ghost: updates cut off, or made with rows from the future
  commands,  \* counts commands, for the bound
  jumps      \* counts moves of the clock, for the bound

vars == <<open, profile, cell, hist, newer, op, import, replaced, spoilt,
          commands, jumps>>
ghosts == <<replaced, spoilt>>

Slots == Profiles \X Keys
Cell  == [value : Values, tags : Tags]

\* A name: what the user typed, and how often " (Copy)" follows it.
Names   == Bases \X Nat
Profile == [name : Names, rules : Rules]
CopyOf(n) == <<n[1], n[2] + 1>>

Update    == [kind : {"update"}, step : {"insert", "prune", "upsert"},
              slot : Slots, value : Values]
Duplicate == [kind : {"duplicate"}, from : Profiles, to : Profiles,
              todo : SUBSET Keys]
\* profile: the one selected now; into: the profiles that the lines added so
\* far went to; touched: what other commands changed of them.
Importing == [profile : Profiles, file : Seq(Keys \X Values),
              into : Seq(Profiles), touched : SUBSET Slots]

ASSUME StoreAssumption ==
  /\ Kept \in Nat \ {0}
  /\ Typed \subseteq Values
  /\ NoTags \in Tags
  /\ ImportFiles \subseteq Seq(Keys \X Values)
  /\ MaxCommands \in Nat /\ MaxCopies \in Nat /\ MaxJumps \in Nat
  /\ Absent \notin Cell \union Profile
  /\ Idle \notin Update \union Duplicate \union Importing

\* Keys and values are what can stand in a file.
ASSUME TextAssumption ==
  Keys \subseteq Text /\ Values \subseteq Text /\ MaxExported \in Nat

There(p)    == profile[p] # Absent
Stored(s)   == cell[s] # Absent
Taken(n, p) == \E q \in Profiles \ {p} : There(q) /\ profile[q].name = n
Newest(h)   == SubSeq(h, 1, IF Len(h) < Kept THEN Len(h) ELSE Kept)

\* A new profile gets an id of its own, which no import in progress holds.
Fresh(p) == ~There(p) /\ (import # Idle => import.profile # p)

\* The engine is there and no command holds the mutex.
Ready == open /\ op = Idle /\ commands < MaxCommands
Counted == commands' = commands + 1 /\ UNCHANGED jumps

\* The credential that line i of the import became.
Sent(i) == <<import.into[i], import.file[i][1]>>

\* A command other than the import's changes or deletes credentials.
Touch(S) ==
  import' = IF import = Idle THEN Idle
            ELSE [import EXCEPT !.touched =
                    @ \union (S \intersect {Sent(i) : i \in DOMAIN import.into})]

\* A vault with one profile and what was added to it.
Init ==
  /\ open = TRUE
  /\ \E p \in Profiles, b \in Bases, r \in Rules,
        c \in [Keys -> [value : Typed, tags : {NoTags}] \union {Absent}] :
       /\ profile = [q \in Profiles |->
                       IF q = p THEN [name |-> <<b, 0>>, rules |-> r] ELSE Absent]
       /\ cell = [s \in Slots |-> IF s[1] = p THEN c[s[2]] ELSE Absent]
  /\ hist = [s \in Slots |-> <<>>]
  /\ newer = [s \in Slots |-> 0]
  /\ op = Idle
  /\ import = Idle
  /\ replaced = [s \in Slots |-> <<>>]
  /\ spoilt = [s \in Slots |-> 0]
  /\ commands = 0
  /\ jumps = 0

-----------------------------------------------------------------------------
(* Profiles *)

CreateProfile(p, n, r) ==
  /\ Ready
  /\ Fresh(p) /\ ~Taken(n, p)
  /\ profile' = [profile EXCEPT ![p] = [name |-> n, rules |-> r]]
  /\ Counted
  /\ UNCHANGED <<open, cell, hist, newer, op, import, ghosts>>

UpdateProfile(p, n) ==
  /\ Ready
  /\ There(p) /\ ~Taken(n, p)
  /\ profile' = [profile EXCEPT ![p].name = n]
  /\ Counted
  /\ UNCHANGED <<open, cell, hist, newer, op, import, ghosts>>

UpdateProfileRules(p, r) ==
  /\ Ready
  /\ There(p)
  /\ profile' = [profile EXCEPT ![p].rules = r]
  /\ Counted
  /\ UNCHANGED <<open, cell, hist, newer, op, import, ghosts>>

\* Slip: the history has no ON DELETE CASCADE.
CascadeCellsOnly(S) ==
  /\ cell' = [s \in Slots |-> IF s \in S THEN Absent ELSE cell[s]]
  /\ Touch(S)
  /\ UNCHANGED <<hist, newer, ghosts>>

\* What ON DELETE CASCADE takes along with the credentials in S.
Cascade(S) ==
  /\ cell' = [s \in Slots |-> IF s \in S THEN Absent ELSE cell[s]]
  /\ hist' = [s \in Slots |-> IF s \in S THEN <<>> ELSE hist[s]]
  /\ newer' = [s \in Slots |-> IF s \in S THEN 0 ELSE newer[s]]
  /\ replaced' = [s \in Slots |-> IF s \in S THEN <<>> ELSE replaced[s]]
  /\ spoilt' = [s \in Slots |-> IF s \in S THEN 0 ELSE spoilt[s]]
  /\ Touch(S)

DeleteProfile(p) ==
  /\ Ready
  /\ There(p)
  /\ profile' = [profile EXCEPT ![p] = Absent]
  /\ Cascade({p} \X Keys)
  /\ Counted
  /\ UNCHANGED <<open, op>>

\* Slip: the copy gets no rules.
DuplicateBare(p, q) ==
  /\ Ready
  /\ There(p) /\ Fresh(q)
  /\ profile[p].name[2] < MaxCopies
  /\ ~Taken(CopyOf(profile[p].name), q)
  /\ profile' = [profile EXCEPT ![q] = [name |-> CopyOf(profile[p].name), rules |-> Absent]]
  /\ op' = [kind |-> "duplicate", from |-> p, to |-> q,
            todo |-> {k \in Keys : Stored(<<p, k>>)}]
  /\ Counted
  /\ UNCHANGED <<open, cell, hist, newer, import, ghosts>>

\* duplicate_profile: reads the profile and inserts its copy, without
\* credentials.  A name already taken is an error that changes nothing.
DuplicateProfile(p, q) ==
  /\ Ready
  /\ There(p) /\ Fresh(q)
  /\ profile[p].name[2] < MaxCopies
  /\ ~Taken(CopyOf(profile[p].name), q)
  /\ profile' = [profile EXCEPT ![q] = [profile[p] EXCEPT !.name = CopyOf(@)]]
  /\ op' = [kind |-> "duplicate", from |-> p, to |-> q,
            todo |-> {k \in Keys : Stored(<<p, k>>)}]
  /\ Counted
  /\ UNCHANGED <<open, cell, hist, newer, import, ghosts>>

\* Slip: the loop ends after its first credential.
CopyFirst(k) ==
  /\ op # Idle /\ op.kind = "duplicate" /\ k \in op.todo
  /\ cell' = [cell EXCEPT ![<<op.to, k>>] =
                [value |-> cell[<<op.from, k>>].value, tags |-> NoTags]]
  /\ op' = [op EXCEPT !.todo = {}]
  /\ UNCHANGED <<open, profile, hist, newer, import, ghosts, commands, jumps>>

\* ... then adds the credentials one by one, in the order the query gives.
CopyCredential(k) ==
  /\ op # Idle /\ op.kind = "duplicate" /\ k \in op.todo
  /\ cell' = [cell EXCEPT ![<<op.to, k>>] =
                [value |-> cell[<<op.from, k>>].value, tags |-> NoTags]]
  /\ op' = [op EXCEPT !.todo = @ \ {k}]
  /\ UNCHANGED <<open, profile, hist, newer, import, ghosts, commands, jumps>>

DuplicateReturns ==
  /\ op # Idle /\ op.kind = "duplicate" /\ op.todo = {}
  /\ op' = Idle
  /\ UNCHANGED <<open, profile, cell, hist, newer, import, ghosts, commands, jumps>>

-----------------------------------------------------------------------------
(* Credentials *)

\* Slip: INSERT OR REPLACE.
CanReplace(p, k) == There(p)

\* INSERT INTO credentials: an error when the profile is not there (foreign
\* key) or has the key already (unique).
CanInsert(p, k) == There(p) /\ ~Stored(<<p, k>>)

AddCredential(p, k, v) ==
  /\ Ready
  /\ CanInsert(p, k)
  /\ cell' = [cell EXCEPT ![<<p, k>>] = [value |-> v, tags |-> NoTags]]
  /\ Touch({<<p, k>>})
  /\ Counted
  /\ UNCHANGED <<open, profile, hist, newer, op, ghosts>>

DeleteCredential(s) ==
  /\ Ready
  /\ Stored(s)
  /\ Cascade({s})
  /\ Counted
  /\ UNCHANGED <<open, profile, op>>

\* Slip: the value is written without its history.
UpdateAtOnce(s, v) ==
  /\ Ready
  /\ Stored(s)
  /\ op' = [kind |-> "update", step |-> "upsert", slot |-> s, value |-> v]
  /\ Counted
  /\ UNCHANGED <<open, profile, cell, hist, newer, import, ghosts>>

\* update_credential reads the row, then runs three statements.
UpdateCredential(s, v) ==
  /\ Ready
  /\ Stored(s)
  /\ op' = [kind |-> "update", step |-> "insert", slot |-> s, value |-> v]
  /\ Counted
  /\ UNCHANGED <<open, profile, cell, hist, newer, import, ghosts>>

Updating(s, step) ==
  op # Idle /\ op.kind = "update" /\ op.slot = s /\ op.step = step

\* The rows h with a row v behind the first n.
Behind(h, n, v) == SubSeq(h, 1, n) \o <<v>> \o SubSeq(h, n + 1, Len(h))

\* The present value becomes a row of the history, behind the rows whose
\* timestamps are still to come.
InsertHistory(s) ==
  /\ Updating(s, "insert")
  /\ hist' = [hist EXCEPT ![s] = Behind(@, newer[s], cell[s].value)]
  /\ op' = [op EXCEPT !.step = "prune"]
  /\ UNCHANGED <<open, profile, cell, newer, import, ghosts, commands, jumps>>

\* Slip: ORDER BY updated_at, the oldest first.
PruneNewest(s) ==
  /\ Updating(s, "prune")
  /\ hist' = [hist EXCEPT ![s] =
                SubSeq(@, IF Len(@) > Kept THEN Len(@) - Kept + 1 ELSE 1, Len(@))]
  /\ newer' = [newer EXCEPT ![s] = IF @ > Kept THEN Kept ELSE @]
  /\ op' = [op EXCEPT !.step = "upsert"]
  /\ UNCHANGED <<open, profile, cell, import, ghosts, commands, jumps>>

\* DELETE ... NOT IN (... ORDER BY updated_at DESC LIMIT 3)
PruneHistory(s) ==
  /\ Updating(s, "prune")
  /\ hist' = [hist EXCEPT ![s] = Newest(@)]
  /\ newer' = [newer EXCEPT ![s] = IF @ > Kept THEN Kept ELSE @]
  /\ op' = [op EXCEPT !.step = "upsert"]
  /\ UNCHANGED <<open, profile, cell, import, ghosts, commands, jumps>>

Spoil(s) == [spoilt EXCEPT ![s] = IF @ < Kept THEN @ + 1 ELSE Kept]

\* The upsert of the new value with the tags read before.
WriteValue(s) ==
  /\ Updating(s, "upsert")
  /\ cell' = [cell EXCEPT ![s].value = op.value]
  /\ replaced' = [replaced EXCEPT ![s] = Newest(<<cell[s].value>> \o @)]
  /\ spoilt' = IF newer[s] > 0 THEN Spoil(s) ELSE spoilt
  /\ op' = Idle
  /\ Touch({s})
  /\ UNCHANGED <<open, profile, hist, newer, commands, jumps>>

\* update_credential_tags: the row is read and written back with other tags.
UpdateCredentialTags(s, t) ==
  /\ Ready
  /\ Stored(s)
  /\ cell' = [cell EXCEPT ![s].tags = t]
  /\ Counted
  /\ UNCHANGED <<open, profile, hist, newer, op, import, ghosts>>

-----------------------------------------------------------------------------
(* processBulkEnv: one add_credential command per line *)

StartImport(p, f) ==
  /\ Ready /\ import = Idle
  /\ There(p)
  /\ import' = [profile |-> p, file |-> f, into |-> <<>>, touched |-> {}]
  /\ Counted
  /\ UNCHANGED <<open, profile, cell, hist, newer, op, ghosts>>

NextLine == import.file[Len(import.into) + 1]

\* Each line reads selectedProfile.id anew.
ImportLine ==
  /\ open /\ op = Idle /\ import # Idle /\ Len(import.into) < Len(import.file)
  /\ CanInsert(import.profile, NextLine[1])
  /\ cell' = [cell EXCEPT ![<<import.profile, NextLine[1]>>] =
                [value |-> NextLine[2], tags |-> NoTags]]
  /\ import' = [import EXCEPT !.into = Append(@, import.profile)]
  /\ UNCHANGED <<open, profile, hist, newer, op, ghosts, commands, jumps>>

\* selectProfile, from the command palette while the import goes on.
SelectProfile(p) ==
  /\ open /\ op = Idle /\ import # Idle
  /\ There(p)
  /\ import' = [import EXCEPT !.profile = p]
  /\ UNCHANGED <<open, profile, cell, hist, newer, op, ghosts, commands, jumps>>

\* The first line whose command fails, for whatever reason, ends the import;
\* so does one that finds no profile selected, and the end of the file.
ImportEnds ==
  /\ import # Idle
  /\ import' = Idle
  /\ UNCHANGED <<open, profile, cell, hist, newer, op, ghosts, commands, jumps>>

-----------------------------------------------------------------------------
(* Errors, the end of the process, lock and unlock, the clock *)

\* A statement that fails, or a process that ends: what was done stays.
CutOff ==
  spoilt' = IF op # Idle /\ op.kind = "update" /\ op.step # "insert"
            THEN Spoil(op.slot) ELSE spoilt

Fail ==
  /\ op # Idle
  /\ CutOff
  /\ op' = Idle
  /\ UNCHANGED <<open, profile, cell, hist, newer, import, replaced, commands, jumps>>

Crash ==
  /\ open
  /\ CutOff
  /\ open' = FALSE
  /\ op' = Idle
  /\ import' = Idle
  /\ UNCHANGED <<profile, cell, hist, newer, replaced, commands, jumps>>

Lock ==
  /\ open /\ op = Idle
  /\ open' = FALSE
  /\ UNCHANGED <<profile, cell, hist, newer, op, import, ghosts, commands, jumps>>

Unlock ==
  /\ ~open
  /\ open' = TRUE
  /\ UNCHANGED <<profile, cell, hist, newer, op, import, ghosts, commands, jumps>>

\* Time passes for the rows of s that lie in the future, or the clock is set
\* back so that n of them do.
ClockMoves(s, n) ==
  /\ op = Idle
  /\ n # newer[s] /\ n <= Len(hist[s])
  /\ jumps < MaxJumps
  /\ newer' = [newer EXCEPT ![s] = n]
  /\ jumps' = jumps + 1
  /\ UNCHANGED <<open, profile, cell, hist, op, import, ghosts, commands>>

Next ==
  \/ \E p \in Profiles, n \in Bases \X (0 .. MaxCopies) :
       \/ \E r \in Rules : CreateProfile(p, n, r)
       \/ UpdateProfile(p, n)
  \/ \E p \in Profiles, r \in Rules : UpdateProfileRules(p, r)
  \/ \E p \in Profiles : DeleteProfile(p)
  \/ \E p, q \in Profiles : DuplicateProfile(p, q)
  \/ \E k \in Keys : CopyCredential(k)
  \/ DuplicateReturns
  \/ \E p \in Profiles, k \in Keys, v \in Typed : AddCredential(p, k, v)
  \/ \E s \in Slots : \/ DeleteCredential(s)
                      \/ \E v \in Typed : UpdateCredential(s, v)
                      \/ \E t \in Tags : UpdateCredentialTags(s, t)
                      \/ InsertHistory(s) \/ PruneHistory(s) \/ WriteValue(s)
                      \/ \E n \in 0 .. Len(hist[s]) : ClockMoves(s, n)
  \/ \E p \in Profiles, f \in ImportFiles : StartImport(p, f)
  \/ \E p \in Profiles : SelectProfile(p)
  \/ ImportLine \/ ImportEnds
  \/ Fail \/ Crash \/ Lock \/ Unlock

Spec == Init /\ [][Next]_vars

-----------------------------------------------------------------------------
(* Properties *)

TypeOK ==
  /\ open \in BOOLEAN
  /\ profile \in [Profiles -> Profile \union {Absent}]
  /\ cell \in [Slots -> Cell \union {Absent}]
  /\ hist \in [Slots -> Seq(Values)]
  /\ newer \in [Slots -> Nat]
  /\ op \in Update \union Duplicate \union {Idle}
  /\ import \in Importing \union {Idle}
  /\ replaced \in [Slots -> Seq(Values)]
  /\ spoilt \in [Slots -> 0 .. Kept]
  /\ commands \in Nat /\ jumps \in Nat

\* Deleting a profile or a credential leaves nothing of its secrets behind,
\* also when an import into it or a copy of it was under way: no credential
\* without its profile, no old value without its credential.
NothingLeftBehind ==
  \A s \in Slots : /\ (Stored(s) => There(s[1]))
                    /\ (hist[s] # <<>> => Stored(s))

\* When duplicate_profile is about to answer Ok, the copy has the rules and
\* exactly the credentials of its source; a copy that lacks some is one whose
\* answer was an error, or never came.
CopiesWhole ==
  op # Idle /\ op.kind = "duplicate" /\ op.todo = {} =>
    /\ profile[op.to].rules = profile[op.from].rules
    /\ \A k \in Keys :
         /\ Stored(<<op.to, k>>) <=> Stored(<<op.from, k>>)
         /\ (Stored(<<op.to, k>>) =>
               cell[<<op.to, k>>].value = cell[<<op.from, k>>].value)

\* The lines an import has gone through are in the store as the file has them,
\* each in the profile that was selected when it was sent, unless another
\* command has changed them since: switching profiles in the middle loses no
\* line, and a later line of the same key stops the import and does not
\* replace the value of the earlier one.
ImportIsPrefix ==
  import # Idle =>
    \A i \in 1 .. Len(import.into) :
      Sent(i) \notin import.touched =>
        Stored(Sent(i)) /\ cell[Sent(i)].value = import.file[i][2]

\* The inductive invariant: what the operation and the import in progress have
\* done so far, in every state between two statements.
UpdateSoFar ==
  op # Idle /\ op.kind = "update" =>
    LET s == op.slot IN
    /\ Stored(s)
    /\ (op.step = "prune" => /\ newer[s] < Len(hist[s])
                             /\ hist[s][newer[s] + 1] = cell[s].value)
    /\ (op.step = "upsert" => newer[s] >= Kept \/ cell[s].value \in ToSet(hist[s]))

CopySoFar ==
  op # Idle /\ op.kind = "duplicate" =>
    /\ op.from # op.to
    /\ There(op.from) /\ There(op.to)
    /\ profile[op.to].rules = profile[op.from].rules
    /\ \A k \in Keys :
         /\ (k \in op.todo => Stored(<<op.from, k>>) /\ ~Stored(<<op.to, k>>))
         /\ (k \notin op.todo =>
               /\ Stored(<<op.to, k>>) <=> Stored(<<op.from, k>>)
               /\ (Stored(<<op.to, k>>) =>
                     cell[<<op.to, k>>].value = cell[<<op.from, k>>].value))

FutureRowsExist == \A s \in Slots : newer[s] <= Len(hist[s])

ImportInFile == import # Idle => Len(import.into) <= Len(import.file)

IInv ==
  /\ TypeOK
  /\ NothingLeftBehind
  /\ FutureRowsExist
  /\ UpdateSoFar
  /\ CopySoFar
  /\ ImportInFile
  /\ ImportIsPrefix

\* Among the first m values replaced, those that the first n rows lack.
Lacking(r, h, m, n) ==
  {i \in 1 .. m : i <= Len(r) /\ \A j \in 1 .. n : j <= Len(h) => h[j] # r[i]}

\* Between updates, of the last Kept values that they replaced the history
\* lacks at most one for every update that was cut off between its statements or made
\* with rows from the future.
HistoryKeepsRecent ==
  \A s \in Slots : ~Updating(s, "upsert") =>
    Cardinality(Lacking(replaced[s], hist[s], Kept, Len(hist[s]))) <= spoilt[s]

\* What makes it inductive.  For every m the first m rows have the last m
\* values replaced, but for the spoilt ones; while an update has its row and
\* not yet its value, the last m - 1.
RowAhead(s) == IF Updating(s, "prune") \/ Updating(s, "upsert") THEN 1 ELSE 0

HistoryOf(s) ==
  /\ Len(replaced[s]) <= Kept
  /\ \A m \in 1 .. Kept :
       Cardinality(Lacking(replaced[s], hist[s], m - RowAhead(s), m)) <= spoilt[s]
  /\ Updating(s, "prune") =>
       Cardinality(Lacking(replaced[s], hist[s], Kept, Len(hist[s]))) <= spoilt[s]
  /\ Updating(s, "upsert") /\ newer[s] = 0 =>
       hist[s] # <<>> /\ hist[s][1] = cell[s].value

HistoryInv == \A s \in Slots : HistoryOf(s)

\* Credentials of a profile, exported to a file in any order, are what an
\* import of this file adds exactly when each key fits on a line and each
\* value is Plain.
ExportsReadBack ==
  \A p \in Profiles, n \in 0 .. MaxExported :
    \A ks \in [1 .. n -> {k \in Keys : Stored(<<p, k>>)}] :
      LET pairs == [i \in 1 .. n |-> <<ks[i], cell[<<p, ks[i]>>].value>>]
      IN  Import(Export(pairs)) = pairs
            <=> \A i \in 1 .. n : Fits(pairs[i][1]) /\ Plain(pairs[i][2])

\* Every operation, cut off anywhere, is a sequence of whole changes of single
\* credentials, and no update replaces a value that is not in the history,
\* unless Kept rows from the future keep it out.
A == INSTANCE AtomicStore WITH
       exists <- {p \in Profiles : There(p)},
       past   <- [s \in Slots |-> ToSet(hist[s])],
       beyond <- {s \in Slots : newer[s] >= Kept}

ImplementsAtomicStore == A!Spec
=============================================================================
