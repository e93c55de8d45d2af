# EnvGuard in TLA+

EnvGuard is a desktop application (Tauri, Rust, Tokio, SQLCipher) that keeps
credentials in an encrypted vault and gives them to shells and processes for
the length of a session. This directory holds TLA+ models of its engine, the
configurations that check them with TLC, and proofs checked with TLAPS.

Paths are relative to the repository: `core` is
`crates/env_guard_core/src/env_guard`, `app` is `crates/env_guard_app/src`, `fe`
is `crates/env_guard_app/frontend`.

## 1. The system

| component | state it keeps | operations |
| --- | --- | --- |
| Vault state (`app/state.rs`, `app/commands.rs`) | `VaultState.inner`: a Tokio mutex around `Option<envGuard>` | every command takes the mutex for its whole length, except `unlock_vault`, which takes it only to publish |
| Unlocking and throttle (`app/commands.rs` 54-168, `core/mod.rs` 30-72) | `vault.salt`, `vault.db`, `vault.security` | `unlock_vault`, `lock_vault`, `wipe_vault` |
| Session engine (`core/session.rs`, `core/mod.rs`) | `active_sessions` map, `sessions` and `session_history` rows, `profiles.is_active`, `.envguard_ephemeral_<id>.env` files, the Windows User environment, child processes, one background task per session | `start_session`, `stop_session`, `spawn_process_with_env`, the expiry timer, the waiter of a child, `lock`, `perform_crash_recovery` |
| Credential store (`core/mod.rs`, `core/storage.rs`, `app/commands.rs` 531-557, `fe/app.js` 768-807) | `credentials`, `credential_history`, exported files | add, update (old value to the history, three rows kept), tags, delete, history, export, bulk import |
| Master password (`core/mod.rs` 140-182) | the key of every value, of the database and of the engine, `vault.salt` | `change_master_password` |
| Profiles (`core/storage.rs`) | `profiles` | create, update, rules, duplicate, delete with cascades |
| Cryptography (`core/crypto.rs`) | none | Argon2id, HKDF, AES-GCM, DPAPI |
| Keychain (`app/commands.rs` 622-686) | keyring entry, `vault.dpapi` | save, get, delete |
| Front end (`fe/app.js`, `fe/index.html`) | `locked`, `loading`, the password field, lists, timers | one method per command, idle and blur lock, the lock after a change of password, clipboard clearing |
| Configuration (`app/config.rs`) | `config.json`, the entry that starts the application with the desktop, the copy in the window | `load_config`, `save_config`, `update_startup_registration` |
| Scanning (`core/mod.rs`), start-up (`app/main.rs`) | none | walk a directory, open the window |

How they interact. A command runs while it holds the vault mutex, so commands
are serial; but the tasks that a session leaves behind (its timer, the waiter of
its child) never take that mutex. They hold clones of the connection pool and of
the map and run between any two awaits of a command, across lock and unlock, and
after the session they belong to has ended. Two unlocks can be in flight with
nothing to order them. The database, the files and the User environment are
written separately, with no transaction over them, and the process can die
between any two writes; `perform_crash_recovery` picks up what the rows still
say at the next unlock. The window sends its commands without waiting for one
another and handles their answers as they come; the settings are saved outside
the mutex altogether.

Hard parts, each listed at its line under `hazards` in `PROJECT.json`: the row,
the file, the map entry and the history of a session appear and disappear at
different awaits; nothing cancels a timer; the recovery finds only what Active
rows name; the change of the password is many statements and three kinds of
storage; the count of failed unlocks is read before a slow derivation and
written after it; a credential and its history are three statements, a copy of
a profile and an import one for each credential; the window decides by what it
believes of the vault whether to lock it; the settings and their registration
are two writes that nothing ties together.

What makes each component correct:

* sessions: plaintext files, names in the environment and open history rows
  always have somebody who will close them; commands come back; expiry takes
  effect whatever happened to the session meanwhile; a locked database is quiet.
* master password: seen from outside it changes in one step; no value is left
  under another key; a failed change, and a retry after it, lose nothing more.
* unlocking: failures are counted and delay the next attempt, as long as
  `vault.security` can be read and written; the right password is never shut out;
  salt, database and engine belong together.
* credential store: credentials change whole, old values stay restorable,
  nothing outlives its profile, a copy that is answered Ok is whole, an import
  stores a prefix of its file, and an export can be imported.
* configuration: what was saved is loaded, and the registration agrees with it.
* front end: the window shows the state of the vault, forgets the password, locks
  a vault left alone or given another password, and takes no running session from
  the user by unlocking again.

## 2. Modules

| module | models |
| --- | --- |
| `Sessions` | the session engine |
| `SessionsInv` | the inductive invariant of `Sessions`, and what holds of every step of a command and of its end |
| `SessionsProof` | the proofs: of the invariant, and of the safety theorems |
| `MCSessions` | `Sessions` for TLC: the symmetry of sessions and profiles |
| `AtomicRekey` | what a change of the master password promises |
| `Rekey` | `change_master_password` with unlock, lock and the credential commands; its refinement mapping to `AtomicRekey`; its inductive invariant |
| `RekeyProof` | the proofs about `Rekey` and of the refinement |
| `MCRekey` | `Rekey` for TLC |
| `Unlocking` | `unlock_vault`, `lock_vault`, `wipe_vault`, the throttle |
| `MCUnlocking` | `Unlocking` for TLC |
| `UnlockingProof` | the inductive invariant of `Unlocking`, its proof and the safety theorems |
| `AtomicStore` | what the credential store promises: credentials that change whole, one at a time |
| `EnvFile` | the conversions between credentials and the text of a `.env` file, both ways, as operators |
| `SequenceLemmas` | induction over numbers and sequences, and what `FlattenSeq` and `SubSeq` do to concatenations |
| `EnvFileProof` | when reading an export gives back what was exported |
| `CredentialStore` | profiles, credentials and their history, the copy of a profile, the bulk import; its refinement mapping to `AtomicStore`; its inductive invariant |
| `CredentialStoreProof` | the proofs about `CredentialStore`, its history and its exports, and of the refinement |
| `MCStore` | `CredentialStore` with the conversions of `EnvFile`, for TLC |
| `Config` | the settings in the window, `config.json`, the registration at login; its inductive invariant |
| `ConfigProof`, `MCConfig` | its proof, and the instance for TLC |
| `Desktop` | the window, the engine slot and the commands and answers between them; its inductive invariant |
| `DesktopProof` | its proof and the safety theorems |

`map` in `PROJECT.json` ties every definition that models code to its lines.
Operators introduced by "Slip:" are plausible mistakes that no action uses:
each is substituted for the definition it precedes to see that a property fails.

### Sessions

One action is one await (a statement, a file operation, a PowerShell call); `pc`
and `cur` say at which await the command in flight is. `row`, `hist` and
`flagged` are the tables, `files` and `env` the disk and the User environment,
`active` the map, `task[s]` the background task of a session, and `attached`
says whose task still has an open pool and the map in use: `ClosePool` and
`Crash` empty it. The map's guard (`MapHeld`) is held through `stop_session`,
through `lock` and over `update_profile_last_used`, and only `TimerUnlist` ever
waits for it. Any statement or file operation may fail, `MaxFaults` times, and
the action then takes the path of the code: `?` returns, `let _ =` goes on.
`Windows` selects the platform: on Unix nothing is injected and processes are
killed, on Windows names are set and unset and nothing is killed. The scripts
that unset names can fail as well, and every caller (`TimerWake`,
`UnsetCurrentKeys`) goes on as if they had not.

`lostFile`, `lostStop` and `lostEnv` are history variables. They record what a
failed operation, a crash or a cut-off task left with nobody in charge of it; no
action reads them. The invariants say that there is no other way to leave
something behind.

Left out: the values of credentials, exit codes, timestamps, process ids, shell
lookup, and statements that only read. The vault is unlocked by one
`unlock_vault` at a time, and only while it is locked. The code asks for neither
(`app/commands.rs` 108-141): a second unlock recovers beside the commands and
tasks of the open vault, ends their rows and replaces the engine without closing
its pool. No module covers what becomes of tasks, pools and rows then, and the
properties of `Sessions` do not speak of it; `Desktop` says when the window can
send such an unlock at all (`UnlockFindsNoSession`). When a timer's pool is closed its statements fail; one
that is being executed at that moment is taken to finish before the close.

### Rekey

A key pair is what it is derived from, `<<password, salt>>`: the derivations are
taken as injective and decryption under another key as failing. `item` gives the
key each value and each history row is encrypted with. `std::fs::write` is two
steps, a truncation and a write. `cut` is a history variable: the worst that an
interrupted change has left so far ("items": values under a dropped key, "salt":
a rekeyed database with the wrong salt). `PRAGMA rekey` is atomic, and the pool
is one connection. A failure before the first UPDATE changes nothing and is no
step of its own.

The abstract view (`OpensNow`, `ReadableNow`) shows the vault as it was until
the salt is written, then everything under the new password: `Change` of
`AtomicRekey` is refined by the last step, `WriteSalt`.

### Unlocking

Each element of `Attempt` is an `unlock_vault` command in flight. What it read
from `vault.security` before the derivation is in `at[a].seen`; the file is
truncated and written in two steps. Each of them may fail, and so may reading the
file: the code drops these errors (`app/commands.rs` 63-73), counts what it
cannot read as no failure, and goes on without having stored what it should.
Errors of the salt file and of the database, which may come after the file has
been created, are failures of the unlock and are counted like a wrong password.
Times are ages in seconds, which saturate at
the longest delay, so that the clock needs no bound; the clock may also be set
back. `wrongs` counts the real failures. `lost` records that the count cannot be
relied on any more: attempts overlapped on it, one died before it was stored, or
a read or write of `vault.security` failed. `clash` records that attempts
overlapped on the salt, or that a wipe was partial or met an attempt. Without
them the invariants are unconditional.

### CredentialStore and EnvFile

A credential is the cell of a slot, a profile and a key. `op` is the command
that holds the mutex between two of its statements (`update_credential`, the
copy of a profile), `import` the loop of `processBulkEnv`, which holds nothing:
every command may run between two of its lines, the vault may be locked, and a
line that fails ends the loop. Each line goes to the profile selected when it is
sent (`fe/app.js` 793), and the command palette can select another one meanwhile
(`SelectProfile`): `into` says which line went where, and `touched` which of
these credentials another command has changed or deleted since. `ImportIsPrefix`
says that all others are in the store as the file has them, and does not say that
they are in one profile, which the code does not see to. `Fail` and `Crash` cut an operation off between
any two statements. `hist` is in the order of the timestamps. A clock set back
is `ClockMoves`: the newest `newer[s]` rows of a slot have timestamps in the
future, a new row goes behind them, and pruning may take the new row itself.
Each slot has its own `newer`, which allows more than one clock does.
`replaced` and `spoilt` are history variables: the values the last updates
replaced, and for how many of them the history was cut off or beaten by rows
from the future.

`EnvFile` tells apart the characters that the export or the import treats in a
way of its own; keys and values of the store are texts of them. `Return` stands
for the ends of line at which the import does not split and which `.` of its
expression does not match. What depends on the length of a text is written with
`FlattenSeq`, which gives a piece for each character or line and joins the
pieces: so the conversions are in reach of a proof, and the module needs no
recursion of its own. `ExportsReadBack` says when an import of an export gives
back the credentials that were exported: exactly when every key `Fits` and every
value is `Plain`. For the others the code loses something without saying so: a
key with an `=` is cut there; the text `\n` comes back as a line end; a value of
several lines comes back as its first line (with the quote before it), and a
later line of it that holds an `=` becomes a credential of its own. The run looks
at every choice of up to `MaxExported` stored credentials, the theorem at all.

New ids are fresh (`Fresh`), labels and `last_used_at` are left out,
`duplicate_profile` copies no tags, as in the code. Under which key a value is
encrypted is the matter of `Rekey`.

The abstract view is `AtomicStore`: a map of slots to cells, the set of old
values of each slot and the slots whose history is `beyond` reach because rows
from the future fill it. A value is replaced only when it is among the old
values or its slot is beyond reach.

### Config

A `save_app_config` in flight is a call with the step it is at: the
registration, the truncation of the file, the write of its bytes. The commands
take no mutex, so calls interleave at every step. `Platforms` says which of
`update_startup_registration`'s forms are looked at: on Windows a value of the
registry, set or deleted in one step, elsewhere a file that is removed, or
truncated and then written (`app/config.rs` 195, 228), so that an error or the
end of the process in between leaves an `entry` that is `cut`. `saved`,
`disturbed` and `halfway` are history variables: what the last save that answered
Ok was given, whether it overlapped another one or a later one was cut off in the
middle of `config.json`, and whether a later one was cut off between the first
touch of the entry and `config.json`.
A shorter text written over a longer one by overlapping writes is `Garbled`, and
what cannot be parsed is loaded as the defaults.

On Windows the deletion of an entry that is not there reports an `HRESULT`
(0x80070002), which the code compares with 2 (`app/config.rs` 155-156). A save
with the start at login off is therefore refused before the file is written
unless an entry is there (`RegisterRefused`); the properties hold because a
refused save changes nothing.

### Desktop

`calls` counts the commands in flight by how far they have come: sent, open
(`unlock_vault` before it publishes), answered. A command runs when it gets the
mutex, and its answer is handled later, in any order with other answers.
An unlock comes from Enter in the form or from the keychain and the biometric
buttons. `loading` covers the window: it holds back clicks, but neither Enter in the
password field, nor Ctrl+L, the loss of focus or the timers. `locked` is what
the window believes. `idle` is that the user has been away for
`auto_lock_idle_minutes` (which is not zero), `relock` the timers of 1.5 seconds
started by changes of password. `stale` is an engine whose pool still has
connections with the key of before a change. A change may fail after
`PRAGMA rekey`, when the salt cannot be written (`core/mod.rs` 168-177): the engine
is stale then too, but the answer is an error and starts no timer. `torn` is the
history variable that records it, and what `ChangeRelocks` excepts. `listed` is
the map of the engine: sessions are started and stopped with or without an error,
and expire. It says nothing of the rows, which an error of a start, of a stop or
of the recovery leaves Active without a session in the map; that is the matter of
`Sessions`. `crossed` is a history variable: an
unlock was in flight together with another unlock, a lock or a wipe. Their
answers can then be handled in another order than the commands ran, the window
may show the unlock form over an open vault, and since a window that believes it
is locked does not look at the clock, that vault is not locked for inactivity
until it is opened again. Without such a crossing the properties are
unconditional.

The history dialog is no part of the locked or the unlocked view
(`fe/index.html` 13), so that `lock` leaves old values it shows on the screen;
dialogs, lists, the clipboard and crashes are not in this module.

`PasswordForgotten` is about the password field of the unlock form; the form that
changes the password has fields of its own. Since the button that saves the
password to the keychain sends the former and stands in the settings, it never
has one to save: a finding.

## 3. Runs

| run | question | bounds |
| --- | --- | --- |
| `sessions_unix` | type, plaintext files, Active rows, history, quiet locked database, commands that get on | 2 sessions, 2 profiles, 1 fault, any number of crashes, locks and unlocks; 2.1 million states |
| `sessions_windows` | names in the User environment | 2 sessions sharing a name, 1 profile, 1 fault, any number of crashes; 4.3 million states |
| `sessions_liveness` | commands return, expiry removes the file, timers finish | 2 sessions, 1 profile; no symmetry |
| `rekey` | the four invariants, changes that answer Ok are whole, and refinement of `AtomicRekey` | 2 credentials with a history row each, 2 passwords, 4 salts, 2 faults or crashes |
| `unlocking_races` | count, throttle, salt and database under overlap | 2 attempts, 2 passwords, 2 salts, 1 fault; the throttle starts at the first failure; 4.2 million states |
| `unlocking_liveness` | the right password gets in | 1 attempt at a time, the code's threshold of 3, count up to 5, 1 fault; 224 thousand states |
| `store` | type, cascades, whole copies, imports, history, export, refinement of `AtomicStore` | 2 profiles, 2 keys, 2 typed values and one of two lines, 2 files, 3 commands, 1 copy, 2 moves of the clock, 2 history rows kept, exports of up to 2 credentials; 292 thousand states |
| `config` | the settings survive, the registration agrees | 2 saves in flight, 3 changes, 2 faults or ends of the process, both platforms; 504 thousand states |
| `desktop` | the window agrees with the slot, forgets the password, takes no session by unlocking; the idle lock and the lock after a change happen | 2 unlocks, 1 lock, 1 wipe, 1 change and 1 start or stop in flight, 1 session; 342 thousand states, liveness included |

Why these bounds are enough to meet the cases. Interference in `Sessions` is
between one command, the task of its session and the task of another one: two
sessions give all three. Two profiles let one be deleted while the other's
sessions run. With one fault every single failure is combined with every
interleaving and every crash. In `Rekey` two credentials are needed for a change
that stops half way, two faults for a failed change followed by a failed retry,
and four salts for a creation and three changes. In `Unlocking` two attempts
give every overlap of a read with a write; the saturation of the count only
bounds the delay. In the store the code keeps three rows and the run two: with
three commands a history is filled, pruned and put out of order by the clock all
the same. A copy with two keys can be cut in the middle, and the file that has a
key twice lets a line meet another of the same import. In `Config` two saves
overlap, a third change comes after them. In `Desktop` two unlocks are one
double Enter; a lock and a wipe give two commands that empty the slot beside one
another, and an unlock that follows them meets the timer of a change before it.
`CHECK_DEADLOCK FALSE` in `rekey.cfg` and `viol_rekey.cfg`: a vault whose first
salt is torn does stop, and so does one whose salts are used up.

Three runs show a claim of the repository violated, each with a finding:

* `expiry_race`: the timer may run its `remove` before `start_session`'s
  `insert`; the expired session stays listed. It needs a lifetime that ends
  within the start (zero seconds is accepted), or a start that is held up.
* `delete_profile`: the dialog promises that active sessions are destroyed.
* `rekey_failed`: a change that "failed" has re-encrypted some of the values.

Two more are built into the models, and their invariants state what is left of
them: `EnvAccounted` excepts names that stop_session does not unset because
their credential was deleted while the session ran (`lostEnv`), and
`SaltFitsDatabase` excepts two overlapping first unlocks (`clash`), which can
leave the salt of one beside the database of the other.

A finding of another kind comes from a run that passes: `desktop` shows with
`PasswordForgotten` that "Save Current Password to Keychain" (`fe/index.html`
611-623, with the note to be unlocked first) never finds a password to save.

### Fairness

`Sessions`: Tokio polls a future until it is done, so the command in flight and
each background task are weakly fair; the map's mutex is FIFO, so the step of
the timer that waits for it is strongly fair. Users, children, crashes and
faults promise nothing. `Unlocking`: a command in flight and the clock go on
(weak fairness); for `RightPasswordOpens` somebody keeps trying, so that an
attempt with the right password that is let through again and again is made
(strong fairness of `TryRight`). `Desktop`: the mutex of the slot is fair and no
command waits for another one while it holds it, so each command runs and is
answered, the thirty second check and the timer after a change fire (weak
fairness); the user owes nothing.

## 4. Proofs

The proof modules hold for any sets of sessions, profiles, keys, values, files,
texts, passwords, attempts and calls and any bound, from the assumption that each
module states about its constants (special values are not members of the sets,
bounds are naturals).

`Sessions`: `FilesCovered` is not inductive alone. That stop and the timer have
removed the file before they end the row (`FilesInv`), that a fresh id has left
no trace (`FreshIds`), that recovery still has in `todo` every Active row it has
not handled, and that a locked vault has no attached task (`CommandShape`) are
what makes it so. `HistoryInv`, `ListInv` and `EnvInv` do the same for the other
three. `NextInv` is proved action by action, and the safety theorems and the
action property `LockedIsQuiet` follow from `Invariance`. `EndedStaysEnded` needs
`FreshIds` of a session whose start is still under way: the writes that open a
history entry or make a row Active meet no trace of the id, so that no timer can
have ended it before.

`Rekey`: salts are fresh, so the new key of a change is no key in use
(`KeysInv`); with that, `OperationInv` can say that during the first pass a
value is under the new key exactly when it is current and has been handled, and
in the second exactly when it has been handled. `RekeyedWhole` follows when the
second pass ends, and is what a retry after a cut change rests on. `Refinement`
combines `InitMaps` and `StepMaps` with the invariant: re-encrypting a value
does not change whether it counts as readable, interruptions map to `Interrupt`,
and only `WriteSalt` maps to `Change`. `ChangeOkIsWhole` says what an Ok answer
guarantees, also after failed and cut changes. `LossBlocksChange` is its other
side: once a failed change has left a value under a dropped key, every later
change stops at that value and never gets as far as the database, until the
credential is deleted or the value pruned from its history.

`CredentialStore`: the inductive part says what the operation in progress has
done so far. `UpdateSoFar`: before the old rows are pruned the value to be
replaced is the first row behind those from the future; after it, it is in the
history unless those fill it. `CopySoFar`: both profiles are there, the rules
agree, and a key is copied exactly when it is no more in `todo`, which holds
because the mutex keeps every other command out and an import into a profile
that is not there yet fails. From these `CopiesWhole` follows when `todo` is
empty, and each step of `WriteValue` is a permitted change of `AtomicStore`
(`Refinement`). `FutureRowsExist` is what makes the insertion behind the rows of
the future a position of the history.

`HistoryKeepsRecent` counts: of the values the last `Kept` updates replaced, all
but `spoilt` are in the history. It does not say which rows hold them, so nothing
says that pruning leaves them alone. `HistoryInv` says for every `m` up to
`Kept` that the first `m` rows lack at most `spoilt` of the last `m` replaced
values, one row being ahead of its value while an update has inserted the one and
not replaced the other (`RowAhead`). An insertion in front shifts both by one;
one that goes behind rows from the future, or that a failure or a crash leaves
without its value, adds to `spoilt`.

`EnvFile`: `ExportIsReadExactly` is the equivalence behind `ExportsReadBack`, for
texts of any length and any number of credentials. The library's rules of
induction have an operator as a parameter, which no installed prover can
instantiate; `SequenceLemmas` states induction with a set in its place
(`NumberInduction`, `SequenceInduction`), from the order on `Nat` being well founded.
`QuotesComeBack`: undoing the escapes of quotes undoes writing them, for every
text, so that only the second replacement, `\n`, and the ends of lines can go
wrong. Lines are read one by one (`ReadsConcat`), and a line that holds an
exportable credential gives back that credential (`ImportOfLine`, `ReadWhole`):
this is one direction, `ExportIsRead`. For the other, no import of any file yields a key
that does not fit (`LinesType`), and behind the credentials that come back the
first value that is not `Plain` is read as another one (`ReadBroken`), whatever
follows it.

`Config`: `AloneIsAlone` is the strengthening. A save that is alone is the only
one in flight, the entry it has cut is filled by nobody else, the entry it has
made is still there and what it has cut of `config.json` is still empty, so its
write leaves exactly what it was given.

`Unlocking`: `Counted` says what holds as long as the count is not lost: the file is right
unless somebody is about to store a failure, every attempt that has begun has
read what the file says, and an attempt that is alone in storing a failure stores
the right one. Once lost, the count stays lost (`LostForGood`). Whoever stores anything while another attempt is under way loses
the count, which is why the first and the third part survive an overlap that does
no harm. `SaltsFit` says that without a clash everybody who can still open or
publish has the salt that is stored. `ThrottleHolds` follows from the first part.
That the delays, powers of two, are natural numbers is part of
`UnlockAssumption`, which TLC evaluates: the provers know nothing of `2^n` for a
variable `n`, not even an equation that an induction could start from.
`OnlySuccessForgets` looks at the steps: unless the count is lost, nothing makes
it fall but an attempt that has opened the database, or the truncation by an
attempt that is alone and about to write one failure more. `Emptied`, that
nobody fills the file in between, is what that write needs.

`Desktop`: the two claims about the window speak of moments when nothing is in
flight, and say nothing of the moments before. `Exclusive` says what crossing
excludes: one unlock at most, and none beside a lock. `Agreement` says what the
window shows while an answer is on its way: an engine is in the slot exactly
when the unlock in flight has published it, and after a lock has run the slot
stays empty until somebody shows it. An unlock under way therefore finds the slot
empty, and with it the map (`ListedInSlot`): `UnlockFindsNoSession`. `Tally` turns each action into what it adds to
the commands in flight, so that the rest of the proof is about a few numbers.
`RelockInv` adds that, unless an unlock has crossed another command, no engine is
opened with the keys of before a change: a change, also one that fails half way,
needs an engine in the slot, and an unlock finds the slot empty.

The liveness properties stay with TLC, but most of them have a part that needs
no fairness, and that part is proved for every value of the constants:

| checked under fairness | its safety part | what it says |
| --- | --- | --- |
| `CommandsReturn` | `CommandsAdvance` | each step of a command takes it to a later await or takes a session from its loop, and nobody undoes that; so a command that keeps being scheduled cannot go round for ever |
| `ExpiryRemovesFile` | `ExpiredFileGone` | a timer past its cleanup has left no file, unless the removal failed |
| `ChangeRelocks` | `StaleIsRelocked` | an engine with old keys has a timer, a lock or a wipe coming, unless the change failed after `PRAGMA rekey` |
| `IdleLocks` | `OpenIsWatched` | the window of an open vault believes it is unlocked, or is about to be told so |

`CommandsAdvance` and `ChangeOkIsWhole` are checked by the runs too.
`EndedStaysEnded`, `ExpiredFileGone`, `LossBlocksChange`, `OnlySuccessForgets`,
`StaleIsRelocked` and `OpenIsWatched` are stated beside them and proved; no run
lists them.

Only model-checked: everything temporal under fairness (`CommandsReturn`,
`ExpiryRemovesFile`, `TimersFinish`, `RightPasswordOpens`, `ChangeRelocks`,
`IdleLocks`), because fairness is out of the provers' reach, and the violated
claims. Every other property of a passing run is
stated by a theorem.

## 5. Not modelled

* Cryptographic algorithms: derivations are taken as injective, decryption under
  another key as refused. DPAPI and the keyring are services of the system; the
  three keychain commands keep no state of their own.
* Scanning for `.env` files reads directories and changes nothing.
* The lists in the window, filters, dialogs, the command palette, rendering and
  the clipboard with its timers. A timer started by one copy clears what a later
  copy has put there.
* Labels, descriptions, `last_used_at` of credentials, exit codes, process ids,
  shell lookup, tokens, opening editors and directories.
* A second unlock of an open vault, statement by statement: the recovery beside
  running commands, and the tasks and the pool of an engine that is replaced.
  `Desktop` has it at the level of whole commands, where it says that the window
  sends one only beside another unlock; `Unlocking` has its effect on files and
  slot.
* A pool of several connections: `Rekey` treats it as one, and `Desktop` says how
  long an engine with old keys can stay in use.
