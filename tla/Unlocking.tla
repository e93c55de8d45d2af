----------------------------- MODULE Unlocking ------------------------------
(***************************************************************************)
(* The unlock_vault command with lock_vault and wipe_vault: the throttle   *)
(* kept in vault.security, the salt file, the key the database was created *)
(* with and the engine slot.  unlock_vault takes the mutex of the slot     *)
(* only to publish the engine, so that several attempts can be in flight   *)
(* and interleave at every await.                                          *)
(*                                                                         *)
(* Times are kept as ages, in seconds of the system clock, that saturate   *)
(* at MaxAge.                                                              *)
(***************************************************************************)
EXTENDS Integers, FiniteSets

CONSTANTS
  Attempt,          \* unlock_vault commands that can be in flight
  Password, NoPassword, NoKey,
  FreeFailures,     \* failures before the throttle sets in: 3
  MaxSalts,         \* bound: salts generated
  MaxFailed,        \* bound: where the count of failures saturates
  MaxFaults         \* bound: storage errors, crashes, clocks set back

NoSalt == 0                \* vault.salt does not exist
TornSalt == MaxSalts + 1   \* created and not written yet
Salt == 1 .. MaxSalts
Key == Password \X Salt

\* The wait after n failures: 2^(n - 3) seconds from the third on.
Delay(n) == IF n >= FreeFailures THEN 2^(n - FreeFailures) ELSE 0
MaxAge == Delay(MaxFailed)
Age == -1 .. MaxAge
AtMost(n, bound) == IF n < bound THEN n ELSE bound

ASSUME UnlockAssumption ==
  /\ MaxSalts \in Nat /\ MaxFaults \in Nat
  /\ FreeFailures \in Nat \ {0} /\ MaxFailed \in Nat
  /\ NoKey \notin Key /\ NoPassword \notin Password
  /\ \A n \in 0 .. MaxFailed : Delay(n) \in Nat   \* powers of two

VARIABLES
  salt,     \* vault.salt
  db,       \* the key vault.db was created with, NoKey if there is no file
  security, \* vault.security: the failures counted, the age of the last one
  engine,   \* the key of the engine in the slot
  at,       \* each attempt: where it is, its key and what it has read
  salts, faults,
  wrongs,   \* history variable: the failures since the last success
  lost,     \* history variable: the count was overwritten or cut short, or
            \* vault.security could not be read or written
  clash     \* history variable: attempts overlapped on the salt, or a wipe
            \* failed or overlapped an attempt

files == <<salt, db, security>>
history == <<wrongs, lost, clash>>
vars == <<files, engine, at, salts, faults, history>>

\* get_security_state: an absent file, and one that does not parse, count as
\* no failure at all.
Default == [failed |-> 0, age |-> 0]
SecurityState == [failed : 0 .. MaxFailed, age : Age]

PC == {"idle", "salt", "create", "fill", "open", "reset", "publish", "wrong", "write"}
InFlight == {a \in Attempt : at[a].pc # "idle"}
Go(a, pc) == at' = [at EXCEPT ![a].pc = pc]
Succeeds == UNCHANGED faults
Fails == faults < MaxFaults /\ faults' = faults + 1

Idle == [pc |-> "idle", pw |-> NoPassword, salt |-> NoSalt, seen |-> 0, age |-> 0]
Ended(a) == at' = [at EXCEPT ![a] = Idle]

Init ==
  /\ salt = NoSalt /\ db = NoKey /\ security = Default
  /\ engine = NoKey
  /\ at = [a \in Attempt |-> Idle]
  /\ salts = 0 /\ faults = 0
  /\ wrongs = Default /\ lost = FALSE /\ clash = FALSE

-----------------------------------------------------------------------------
(* unlock_vault.                                                           *)

Refused(s) == s.failed >= FreeFailures /\ s.age < Delay(s.failed)

\* Slip: a refused attempt is counted like a wrong password.
RefuseAndCount(a, pw) ==
  /\ at[a].pc = "idle" /\ Refused(security)
  /\ security' = [security EXCEPT !.age = 0]
  /\ UNCHANGED <<salt, db, engine, at, salts, faults, history>>

\* get_security_state, the clock and the comparison; a refusal stores nothing.
Refuse(a, pw) ==
  /\ at[a].pc = "idle" /\ Refused(security)
  /\ UNCHANGED vars

\* Slip: the exponent starts at the fourth failure.
BeginEarly(a, pw) ==
  /\ at[a].pc = "idle"
  /\ ~(security.failed > FreeFailures /\ security.age < Delay(security.failed))
  /\ at' = [at EXCEPT ![a] =
       [pc |-> "salt", pw |-> pw, salt |-> NoSalt, seen |-> security.failed, age |-> 0]]
  /\ UNCHANGED <<files, engine, salts, faults, history>>

Started(a, pw, seen) ==
  at' = [at EXCEPT ![a] =
           [pc |-> "salt", pw |-> pw, salt |-> NoSalt, seen |-> seen, age |-> 0]]

\* A file that cannot be read counts as no failure at all.
Begin(a, pw) ==
  /\ at[a].pc = "idle"
  /\ \/ /\ ~Refused(security) /\ Succeeds
        /\ Started(a, pw, security.failed)
        /\ UNCHANGED lost
     \/ Fails /\ Started(a, pw, 0) /\ lost' = TRUE
  /\ UNCHANGED <<files, engine, salts, wrongs, clash>>

\* unlock returns an error, whatever it is, and it counts as a failure.
Rejected(a) ==
  /\ Go(a, "wrong")
  /\ wrongs' = [failed |-> AtMost(wrongs.failed + 1, MaxFailed), age |-> at[a].age]

\* salt_path.exists(): the salt is read, or a new one is generated.
ReadSalt(a) ==
  /\ at[a].pc = "salt"
  /\ \/ /\ salt # NoSalt /\ Succeeds
        /\ at' = [at EXCEPT ![a].pc = "open", ![a].salt = salt]
        /\ UNCHANGED <<salts, wrongs>>
     \/ /\ salt # NoSalt /\ Fails
        /\ Rejected(a) /\ UNCHANGED salts
     \/ /\ salt = NoSalt /\ salts < MaxSalts /\ Succeeds
        /\ at' = [at EXCEPT ![a].pc = "create", ![a].salt = salts + 1]
        /\ salts' = salts + 1 /\ UNCHANGED wrongs
  /\ UNCHANGED <<files, engine, lost, clash>>

\* std::fs::write creates or truncates the file, whoever made it ...
CreateSalt(a) ==
  /\ at[a].pc = "create"
  /\ \/ /\ Succeeds /\ Go(a, "fill")
        /\ salt' = TornSalt
        /\ clash' = (clash \/ salt # NoSalt)
        /\ UNCHANGED wrongs
     \/ Fails /\ Rejected(a) /\ UNCHANGED <<salt, clash>>
  /\ UNCHANGED <<db, security, engine, salts, lost>>

\* ... and writes it; when that fails the torn file stays.
FillSalt(a) ==
  /\ at[a].pc = "fill"
  /\ \/ /\ Succeeds /\ Go(a, "open")
        /\ salt' = at[a].salt
        /\ clash' = (clash \/ salt # TornSalt)
        /\ UNCHANGED wrongs
     \/ Fails /\ Rejected(a) /\ UNCHANGED <<salt, clash>>
  /\ UNCHANGED <<db, security, engine, salts, lost>>

KeyOf(a) == <<at[a].pw, at[a].salt>>

\* Slip: the database is opened without checking its key.
OpenAnything(a) ==
  /\ at[a].pc = "open" /\ Go(a, "reset")
  /\ db' = KeyOf(a)
  /\ UNCHANGED <<salt, security, engine, salts, faults, history>>

\* The derived key is that of the database, or there is no database yet.
KeyFits(a) == at[a].salt \in Salt /\ db \in {NoKey, KeyOf(a)}

\* init_database creates vault.db under the derived key or opens it; a torn
\* salt, another key or a storage error fail.  The error may come after the
\* file has been created.
OpenDatabase(a) ==
  /\ at[a].pc = "open"
  /\ \/ /\ KeyFits(a) /\ Succeeds
        /\ db' = KeyOf(a) /\ Go(a, "reset")
        /\ UNCHANGED wrongs
     \/ ~KeyFits(a) /\ Succeeds /\ Rejected(a) /\ UNCHANGED db
     \/ Fails /\ Rejected(a) /\ UNCHANGED db
     \/ KeyFits(a) /\ Fails /\ Rejected(a) /\ db' = KeyOf(a)
  /\ UNCHANGED <<salt, security, engine, salts, lost, clash>>

\* The other attempts have read, or will not see, what this one stores.
Overlapped(a) == InFlight # {a}

\* save_security_state of a failure truncates the file, which may fail without
\* the command taking notice ...
TruncateCount(a) ==
  /\ at[a].pc = "wrong"
  /\ \/ /\ Succeeds /\ Go(a, "write")
        /\ security' = Default
        /\ lost' = (lost \/ Overlapped(a))
     \/ Fails /\ Ended(a) /\ UNCHANGED security /\ lost' = TRUE
  /\ UNCHANGED <<salt, db, engine, salts, wrongs, clash>>

\* Slip: the time of the failure is not stored.
WriteCountOnly(a) ==
  /\ at[a].pc = "write" /\ Ended(a)
  /\ security' = [failed |-> AtMost(at[a].seen + 1, MaxFailed), age |-> MaxAge]
  /\ lost' = (lost \/ Overlapped(a))
  /\ UNCHANGED <<salt, db, engine, salts, faults, wrongs, clash>>

\* ... and writes one failure more than was read, at the time the attempt
\* began; a write that fails leaves what the truncation has left.
WriteCount(a) ==
  /\ at[a].pc = "write" /\ Ended(a)
  /\ \/ /\ Succeeds
        /\ security' = [failed |-> AtMost(at[a].seen + 1, MaxFailed), age |-> at[a].age]
        /\ lost' = (lost \/ Overlapped(a))
     \/ Fails /\ UNCHANGED security /\ lost' = TRUE
  /\ UNCHANGED <<salt, db, engine, salts, wrongs, clash>>

\* After the recovery of the sessions the count that was read is reset, unless
\* the file cannot be opened for writing: that error is ignored as well.  (Cut
\* short after the truncation, it is reset all the same.)
ResetCount(a) ==
  /\ at[a].pc = "reset"
  /\ at' = [at EXCEPT ![a].pc = "publish", ![a].seen = 0, ![a].age = 0]
  /\ wrongs' = Default
  /\ \/ /\ Succeeds
        /\ security' = IF at[a].seen > 0 THEN Default ELSE security
        /\ lost' = (lost \/ Overlapped(a))
     \/ at[a].seen > 0 /\ Fails /\ UNCHANGED security /\ lost' = TRUE
  /\ UNCHANGED <<salt, db, engine, salts, clash>>

\* An engine that is in the slot is dropped for the new one.
Publish(a) ==
  /\ at[a].pc = "publish" /\ Ended(a)
  /\ engine' = KeyOf(a)
  /\ UNCHANGED <<files, salts, faults, history>>

Proceed(a) ==
  \/ ReadSalt(a) \/ CreateSalt(a) \/ FillSalt(a) \/ OpenDatabase(a)
  \/ TruncateCount(a) \/ WriteCount(a) \/ ResetCount(a) \/ Publish(a)

-----------------------------------------------------------------------------
(* The other commands, time, and the end of the process.                   *)

Lock ==
  /\ engine # NoKey /\ engine' = NoKey
  /\ UNCHANGED <<files, at, salts, faults, history>>

\* Slip: only the salt is deleted.
WipeSaltOnly ==
  /\ engine' = NoKey /\ salt' = NoSalt /\ clash' = (clash \/ InFlight # {})
  /\ Succeeds
  /\ UNCHANGED <<db, security, at, salts, wrongs, lost>>

\* wipe_vault ignores what becomes of the two deletions, and leaves
\* vault.security alone.
Wipe ==
  /\ engine' = NoKey
  /\ \/ Succeeds /\ db' = NoKey /\ salt' = NoSalt
     \/ Fails /\ db' = NoKey /\ UNCHANGED salt
     \/ Fails /\ UNCHANGED db /\ salt' = NoSalt
  /\ clash' = (clash \/ InFlight # {} \/ faults' # faults)
  /\ UNCHANGED <<security, at, salts, wrongs, lost>>

\* The system clock moves, one second on or back.
Shift(d) ==
  LET Moved(age) == AtMost(age + d, MaxAge) IN
  /\ security' = [security EXCEPT !.age = Moved(@)]
  /\ wrongs' = [wrongs EXCEPT !.age = Moved(@)]
  /\ at' = [a \in Attempt |->
              IF at[a].pc \notin {"idle", "reset", "publish"} THEN [at[a] EXCEPT !.age = Moved(@)] ELSE at[a]]

Tick ==
  /\ Shift(1)
  /\ UNCHANGED <<salt, db, engine, salts, faults, lost, clash>>

SetClockBack ==
  /\ Fails /\ InFlight = {} /\ security.age >= 0 /\ wrongs.age >= 0
  /\ Shift(-1)
  /\ UNCHANGED <<salt, db, engine, salts, lost, clash>>

Crash ==
  /\ Fails
  /\ engine' = NoKey
  /\ at' = [a \in Attempt |-> Idle]
  /\ lost' = (lost \/ \E a \in Attempt : at[a].pc \in {"wrong", "write"})
  /\ UNCHANGED <<files, salts, wrongs, clash>>

-----------------------------------------------------------------------------
Next ==
  \/ \E a \in Attempt, pw \in Password : Refuse(a, pw) \/ Begin(a, pw)
  \/ \E a \in Attempt : Proceed(a)
  \/ Lock \/ Wipe \/ Tick \/ SetClockBack \/ Crash

Spec == Init /\ [][Next]_vars

\* Somebody who knows the password keeps trying it.
TryRight == \E a \in Attempt, pw \in Password :
  db # NoKey /\ pw = db[1] /\ Begin(a, pw)

FairSpec ==
  /\ Spec
  /\ WF_vars(Tick)
  /\ SF_vars(TryRight)
  /\ \A a \in Attempt : WF_vars(Proceed(a))

-----------------------------------------------------------------------------
TypeOK ==
  /\ salt \in 0 .. MaxSalts + 1
  /\ db \in Key \cup {NoKey}
  /\ security \in SecurityState
  /\ engine \in Key \cup {NoKey}
  /\ at \in [Attempt -> [pc : PC, pw : Password \cup {NoPassword}, salt : 0 .. MaxSalts + 1,
                         seen : 0 .. MaxFailed, age : Age]]
  /\ salts \in 0 .. MaxSalts /\ faults \in 0 .. MaxFaults
  /\ wrongs \in SecurityState /\ lost \in BOOLEAN /\ clash \in BOOLEAN

\* Unless attempts overlapped, the application died between a failure and its
\* record or the file could not be read or written, vault.security counts the
\* failures since the last success and dates the last one, whatever was locked,
\* wiped or refused in between, and whatever else an unlock failed of.
CountsFailures ==
  (~lost /\ InFlight = {}) =>
    /\ security.failed = wrongs.failed
    /\ security.failed > 0 => security.age = wrongs.age

\* An attempt is let through only when the delay that the failures since the
\* last success call for has passed, for as long as the count is not lost: no
\* attempts overlapped, and no write of vault.security failed or was cut off.
ThrottleHolds ==
  [][\A a \in Attempt :
       (~lost' /\ InFlight = {} /\ at'[a].pc = "salt" /\ wrongs.failed >= FreeFailures) =>
          wrongs.age >= Delay(wrongs.failed)]_vars

\* The database and the salt its key is derived from stay together, and the
\* engine works on that database, over failures, crashes, locks and complete
\* wipes, unless first unlocks overlapped or a wipe was partial.
SaltFitsDatabase ==
  ~clash => /\ db # NoKey => salt = db[2]
            /\ engine \in {NoKey, db}

\* The count in vault.security falls only when an attempt that has opened the
\* database resets it, or for the moment in which an attempt that has read it
\* replaces it by one failure more.  Refused attempts, locks, wipes, crashes
\* elsewhere and the clock leave it alone; a write of vault.security that fails
\* is where the count is lost.
OnlySuccessForgets ==
  [][(~lost' /\ security'.failed < security.failed) =>
       \E a \in Attempt :
         \/ at[a].pc = "reset" /\ (~clash => db = KeyOf(a) /\ salt = at[a].salt)
         \/ at[a].pc = "wrong" /\ at[a].seen = security.failed /\ InFlight = {a}]_vars

\* The inductive invariant.  Each attempt knows its password, and one that has
\* generated a salt has it at hand.
Recording(a) == at[a].pc \in {"wrong", "write"}

AttemptsFit ==
  \A a \in Attempt :
    /\ at[a].pc # "idle" => at[a].pw \in Password
    /\ at[a].pc \in {"create", "fill", "reset", "publish"} => at[a].salt \in Salt

\* Without a clash every attempt that has a salt to open the database with has
\* the one that is stored, and those that have opened it hold its key.
SaltsFit ==
  ~clash => \A a \in Attempt :
    /\ (at[a].pc \in {"open", "reset", "publish"} /\ at[a].salt \in Salt) => salt = at[a].salt
    /\ at[a].pc \in {"reset", "publish"} => db = KeyOf(a)

\* As long as the count is not lost, vault.security is right whenever nobody is
\* about to store a failure; every attempt has read what is stored; and an
\* attempt that is alone in storing a failure stores the right one.
Counted ==
  ~lost =>
    /\ (\A a \in Attempt : ~Recording(a)) =>
         /\ security.failed = wrongs.failed
         /\ security.failed > 0 => security.age = wrongs.age
    /\ \A a \in Attempt :
         at[a].pc \in {"salt", "create", "fill", "open", "reset", "wrong"} =>
           at[a].seen = security.failed
    /\ \A a \in Attempt :
         (Recording(a) /\ \A b \in Attempt \ {a} : ~Recording(b)) =>
           /\ wrongs.failed = AtMost(at[a].seen + 1, MaxFailed)
           /\ wrongs.age = at[a].age

\* The file is still empty when an attempt writes what it has truncated it for.
Emptied ==
  ~lost => \A a \in Attempt : at[a].pc = "write" => security.failed = 0

IInv == TypeOK /\ AttemptsFit /\ SaltFitsDatabase /\ SaltsFit /\ Counted /\ Emptied

\* Somebody with the right password gets in: the throttle delays, it does not
\* shut out.
RightPasswordOpens ==
  (db # NoKey /\ salt = db[2]) ~> (engine # NoKey \/ db = NoKey \/ salt # db[2])
=============================================================================
