------------------------------ MODULE Desktop ------------------------------
(***************************************************************************)
(* The window (app.js) and the engine slot behind it (commands.rs): what   *)
(* the window believes, what the slot holds, and the commands in flight    *)
(* between them.  The window sends a command and goes on; the command runs *)
(* when it gets the mutex of the slot, and its answer is handled later, in *)
(* any order with the answers of other commands.  unlock_vault opens its   *)
(* engine before it asks for the mutex.                                    *)
(*                                                                         *)
(* A command in flight is told from another only by how far it has come:   *)
(* calls counts them by stage.                                             *)
(***************************************************************************)
EXTENDS Naturals

CONSTANTS
  Sessions,     \* the sessions that can be started
  MaxUnlocks,   \* bound: unlocks in flight
  MaxChanges,   \* bound: changes of password in flight or to be followed by a lock
  MaxLocks      \* bound: locks in flight

ASSUME DesktopAssumption == MaxUnlocks \in Nat /\ MaxChanges \in Nat /\ MaxLocks \in Nat

VARIABLES
  locked,    \* the window shows the unlock form
  loading,   \* the window is covered, so that nothing can be clicked
  password,  \* the password field is filled
  idle,      \* the user has been away for auto_lock_idle_minutes
  relock,    \* the timers that lock after a change of password
  calls,     \* the commands in flight
  open,      \* the slot holds an engine ...
  stale,     \* ... whose keys are not those of the database any more
  listed,    \* the sessions in the map of that engine
  torn,      \* ghost: a change of password has failed after the database had
             \* its new key
  crossed    \* ghost: an unlock was in flight together with another unlock,
             \* a lock or a wipe

front == <<locked, loading, password, idle, relock>>
slot  == <<open, stale, listed, torn>>
vars  == <<front, calls, slot, crossed>>

Unlocks == {"unlockSent", "unlockOpen", "unlockOutdated", "unlockOk", "unlockErr"}
Locks   == {"lockSent", "lockOk", "wipeSent", "wipeOk"}
Changes == {"changeSent", "changeOk", "changeErr"}
Others  == {"listsSent", "startSent", "stopSent", "sessionDone"}
Stage   == Unlocks \union Locks \union Changes \union Others

InFlight(S) == \E c \in S : calls[c] > 0

UnlocksInFlight ==
  calls["unlockSent"] + calls["unlockOpen"] + calls["unlockOutdated"]
    + calls["unlockOk"] + calls["unlockErr"]
LocksInFlight   == calls["lockSent"] + calls["lockOk"] + calls["wipeSent"] + calls["wipeOk"]
ChangesInFlight == calls["changeSent"] + calls["changeOk"] + calls["changeErr"]

Send(c)    == calls' = [calls EXCEPT ![c] = @ + 1]
Goes(c, d) == calls[c] > 0 /\ calls' = [calls EXCEPT ![c] = @ - 1, ![d] = @ + 1]
Ends(c)    == calls[c] > 0 /\ calls' = [calls EXCEPT ![c] = @ - 1]

\* The window covers itself until one of the commands has been answered.
Covered   == loading' = TRUE
Uncovered == loading' = FALSE

\* A command is sent while one of the stages S is in flight.
Meets(S) == crossed' = (crossed \/ InFlight(S))

Init ==
  /\ locked = TRUE /\ loading = FALSE /\ password = FALSE /\ idle = FALSE
  /\ relock = 0
  /\ calls = [c \in Stage |-> 0]
  /\ open = FALSE /\ stale = FALSE /\ listed = {} /\ torn = FALSE
  /\ crossed = FALSE

-----------------------------------------------------------------------------
(* Unlocking *)

TypePassword ==
  /\ locked /\ ~password
  /\ password' = TRUE /\ idle' = FALSE
  /\ UNCHANGED <<locked, loading, relock, calls, slot, crossed>>

SendUnlock ==
  /\ UnlocksInFlight + calls["listsSent"] < MaxUnlocks
  /\ Send("unlockSent") /\ Covered /\ Meets(Unlocks \union Locks)
  /\ idle' = FALSE
  /\ UNCHANGED <<locked, password, relock, slot>>

\* Enter in the password field, which the cover does not hold back.
SubmitUnlock == locked /\ password /\ SendUnlock

\* Slip: the buttons are in the settings, too.
UnlockFromAnywhere == ~loading /\ SendUnlock

\* A click on Keychain or Biometric, which needs no password in the field.
UnlockFromKeychain == locked /\ ~loading /\ SendUnlock

\* unlock and perform_crash_recovery, which destroys all sessions whose rows
\* are Active, as far as it can: its errors are ignored.
OpenEngine ==
  /\ Goes("unlockSent", "unlockOpen")
  /\ UNCHANGED <<front, slot, crossed>>

\* A wrong password, the throttle or an error of the storage.
OpenFails ==
  /\ Goes("unlockSent", "unlockErr")
  /\ UNCHANGED <<front, slot, crossed>>

\* The engine replaces whatever the slot holds.
Publish ==
  /\ \/ Goes("unlockOpen", "unlockOk") /\ stale' = FALSE
     \/ Goes("unlockOutdated", "unlockOk") /\ stale' = TRUE
  /\ open' = TRUE /\ listed' = {}
  /\ UNCHANGED <<front, torn, crossed>>

\* Slip: the password is kept for the keychain.
UnlockRepliedKeeping ==
  /\ Goes("unlockOk", "listsSent")
  /\ locked' = FALSE
  /\ UNCHANGED <<loading, password, idle, relock, slot, crossed>>

UnlockReplied ==
  /\ Goes("unlockOk", "listsSent")
  /\ password' = FALSE /\ locked' = FALSE
  /\ UNCHANGED <<loading, idle, relock, slot, crossed>>

UnlockRefused ==
  /\ Ends("unlockErr") /\ Uncovered
  /\ UNCHANGED <<locked, password, idle, relock, slot, crossed>>

\* loadProfiles, loadSessions and loadSessionHistory, errors ignored.
ListsLoaded ==
  /\ Ends("listsSent") /\ Uncovered
  /\ UNCHANGED <<locked, password, idle, relock, slot, crossed>>

-----------------------------------------------------------------------------
(* Locking *)

SendLock ==
  /\ calls["lockSent"] + calls["lockOk"] < MaxLocks
  /\ Send("lockSent") /\ Covered /\ Meets(Unlocks)

\* The button, Ctrl+L, or the window loses the focus (auto_lock_on_blur).
LockNow ==
  /\ ~locked /\ SendLock
  /\ idle' \in {idle, FALSE}
  /\ UNCHANGED <<locked, password, relock, slot>>

\* Slip: a running session counts as activity.
IdleCheckUnlessRunning ==
  /\ ~locked /\ idle /\ listed = {}
  /\ SendLock
  /\ UNCHANGED <<locked, password, idle, relock, slot>>

\* Every 30 seconds.
IdleCheck ==
  /\ ~locked /\ idle
  /\ SendLock
  /\ UNCHANGED <<locked, password, idle, relock, slot>>

SlotEmptied == open' = FALSE /\ stale' = FALSE /\ listed' = {} /\ torn' = FALSE

\* lock_vault: the engine is taken and its map drained; rows stay Active.
LockVault ==
  /\ Goes("lockSent", "lockOk")
  /\ SlotEmptied
  /\ UNCHANGED <<front, crossed>>

\* Slip: the form is not shown again.
LockRepliedOnly ==
  /\ Ends("lockOk") /\ Uncovered
  /\ UNCHANGED <<locked, password, idle, relock, slot, crossed>>

LockReplied ==
  /\ Ends("lockOk") /\ Uncovered
  /\ locked' = TRUE
  /\ UNCHANGED <<password, idle, relock, slot, crossed>>

\* The confirmation of a wipe, opened from the unlock form, outlives it.
SubmitWipe ==
  /\ ~InFlight({"wipeSent", "wipeOk"})
  /\ Send("wipeSent") /\ Covered /\ Meets(Unlocks)
  /\ idle' = FALSE
  /\ UNCHANGED <<locked, password, relock, slot>>

\* wipe_vault: the engine is taken, and the database is deleted.
WipeVault ==
  /\ Goes("wipeSent", "wipeOk")
  /\ SlotEmptied
  /\ UNCHANGED <<front, crossed>>

WipeReplied ==
  /\ Ends("wipeOk") /\ Uncovered
  /\ locked' = TRUE
  /\ UNCHANGED <<password, idle, relock, slot, crossed>>

-----------------------------------------------------------------------------
(* Changing the password *)

SubmitChange ==
  /\ ~locked /\ ~loading
  /\ ChangesInFlight + relock < MaxChanges
  /\ Send("changeSent") /\ Covered
  /\ idle' = FALSE
  /\ UNCHANGED <<locked, password, relock, slot, crossed>>

\* PRAGMA rekey: one connection of the pool has the new key, the others, and
\* an engine opened but not published yet, keep the old one.
Rekeyed(answer) ==
  /\ open /\ calls["changeSent"] > 0
  /\ calls' = [calls EXCEPT !["changeSent"] = @ - 1, ![answer] = @ + 1,
                 !["unlockOpen"] = 0, !["unlockOutdated"] = @ + calls["unlockOpen"]]
  /\ stale' = TRUE

\* change_master_password
ChangePassword ==
  /\ Rekeyed("changeOk")
  /\ UNCHANGED <<front, open, listed, torn, crossed>>

\* No engine in the slot, or an error of the storage: before PRAGMA rekey, or
\* after it when the salt cannot be written.
ChangeFails ==
  \/ /\ Goes("changeSent", "changeErr")
     /\ UNCHANGED <<front, slot, crossed>>
  \/ /\ Rekeyed("changeErr")
     /\ torn' = TRUE
     /\ UNCHANGED <<front, open, listed, crossed>>

\* Slip: the vault stays unlocked.
ChangeRepliedOnly ==
  /\ Ends("changeOk") /\ Uncovered
  /\ UNCHANGED <<locked, password, idle, relock, slot, crossed>>

\* Slip: a timer is started by the reply and another one by the toast.
ChangeRepliedTwice ==
  /\ Ends("changeOk") /\ Uncovered
  /\ relock' = relock + 2
  /\ UNCHANGED <<locked, password, idle, slot, crossed>>

ChangeReplied ==
  /\ Ends("changeOk") /\ Uncovered
  /\ relock' = relock + 1
  /\ UNCHANGED <<locked, password, idle, slot, crossed>>

ChangeRefused ==
  /\ Ends("changeErr") /\ Uncovered
  /\ UNCHANGED <<locked, password, idle, relock, slot, crossed>>

\* 1.5 seconds later, whatever the window shows by then.
RelockFires ==
  /\ relock > 0 /\ relock' = relock - 1
  /\ SendLock
  /\ UNCHANGED <<locked, password, idle, slot>>

-----------------------------------------------------------------------------
(* Sessions, and the user *)

Busy == InFlight({"startSent", "stopSent", "sessionDone"})

SubmitStart ==
  /\ ~locked /\ ~loading /\ ~Busy
  /\ Send("startSent") /\ Covered
  /\ idle' = FALSE
  /\ UNCHANGED <<locked, password, relock, slot, crossed>>

\* The confirmation, opened from the list of sessions, outlives a lock.
SubmitStop ==
  /\ ~Busy
  /\ Send("stopSent") /\ Covered
  /\ idle' = FALSE
  /\ UNCHANGED <<locked, password, relock, slot, crossed>>

\* start_session, with or without an error: the errors come before and after
\* the session is in the map.
StartSession ==
  /\ Goes("startSent", "sessionDone")
  /\ \/ open /\ \E s \in Sessions \ listed : listed' = listed \union {s}
     \/ UNCHANGED listed
  /\ UNCHANGED <<front, open, stale, torn, crossed>>

\* stop_session: the errors come when there is no engine, or after the session
\* has left the map.
StopSession ==
  /\ Goes("stopSent", "sessionDone")
  /\ \E s \in Sessions : listed' = listed \ {s}
  /\ UNCHANGED <<front, open, stale, torn, crossed>>

\* The timer of a session that expires.
SessionExpires(s) ==
  /\ s \in listed
  /\ listed' = listed \ {s}
  /\ UNCHANGED <<front, calls, open, stale, torn, crossed>>

SessionReplied ==
  /\ Ends("sessionDone") /\ Uncovered
  /\ UNCHANGED <<locked, password, idle, relock, slot, crossed>>

UserReturns ==
  /\ idle /\ idle' = FALSE
  /\ UNCHANGED <<locked, loading, password, relock, calls, slot, crossed>>

UserStaysAway ==
  /\ ~idle /\ idle' = TRUE
  /\ UNCHANGED <<locked, loading, password, relock, calls, slot, crossed>>

-----------------------------------------------------------------------------
\* What the user does.
User ==
  \/ TypePassword \/ SubmitUnlock \/ UnlockFromKeychain \/ LockNow \/ SubmitWipe
  \/ SubmitChange \/ SubmitStart \/ SubmitStop \/ UserReturns \/ UserStaysAway

\* The commands get the mutex and run.
Unlock == OpenEngine \/ OpenFails
Change == ChangePassword \/ ChangeFails
Commands ==
  \/ Unlock \/ Publish \/ LockVault \/ WipeVault \/ Change
  \/ StartSession \/ StopSession

\* Their answers reach the window.
Answers ==
  \/ UnlockReplied \/ UnlockRefused \/ ListsLoaded \/ LockReplied \/ WipeReplied
  \/ ChangeReplied \/ ChangeRefused \/ SessionReplied

Next ==
  \/ User \/ Commands \/ Answers \/ RelockFires \/ IdleCheck
  \/ \E s \in Sessions : SessionExpires(s)

Spec == Init /\ [][Next]_vars

\* tokio's mutex is fair and no command waits for another, so that each of
\* them runs and is answered; setTimeout and setInterval fire.  The user owes
\* nothing.
FairSpec ==
  /\ Spec
  /\ WF_vars(Unlock) /\ WF_vars(Publish) /\ WF_vars(LockVault) /\ WF_vars(WipeVault)
  /\ WF_vars(Change) /\ WF_vars(StartSession) /\ WF_vars(StopSession)
  /\ WF_vars(UnlockReplied) /\ WF_vars(UnlockRefused) /\ WF_vars(ListsLoaded)
  /\ WF_vars(LockReplied) /\ WF_vars(WipeReplied) /\ WF_vars(ChangeReplied)
  /\ WF_vars(ChangeRefused) /\ WF_vars(SessionReplied)
  /\ WF_vars(RelockFires) /\ WF_vars(IdleCheck)

-----------------------------------------------------------------------------
(* Properties *)

TypeOK ==
  /\ locked \in BOOLEAN /\ loading \in BOOLEAN /\ password \in BOOLEAN
  /\ idle \in BOOLEAN
  /\ relock \in 0 .. MaxChanges
  /\ calls \in [Stage -> Nat]
  /\ open \in BOOLEAN /\ stale \in BOOLEAN
  /\ listed \subseteq Sessions
  /\ torn \in BOOLEAN /\ crossed \in BOOLEAN

\* Once unlocks, locks and wipes are answered the window shows the unlock form
\* exactly when the slot is empty, unless an unlock was in flight together
\* with another one or with a lock: then their answers can come in another
\* order than they had at the mutex.
WindowAgrees ==
  ~crossed /\ ~InFlight(Unlocks \union Locks) => (locked <=> ~open)

\* The password field of the unlock form is empty in the window of an unlocked
\* vault, also when Enter was pressed again while the unlock was under way.
\* (So the button that saves this field to the keychain never has one to save.)
PasswordForgotten == ~locked => ~password

\* An unlock destroys all sessions whose rows are Active, and puts its engine
\* in the place of any other: while it is under way no session is listed that
\* it would take from the user, unless it was in flight together with another.
UnlockFindsNoSession ==
  ~crossed /\ InFlight({"unlockSent", "unlockOpen", "unlockOutdated"}) => listed = {}

\* An engine with the keys of before a change does not stay in the slot: its
\* change is still to be answered, the timer that follows runs, or a lock or a
\* wipe waits for the mutex.  Not so after a change that failed with the
\* database under its new key: the answer is an error, and starts no timer.
StaleIsRelocked ==
  stale /\ ~torn /\ ~crossed =>
    open /\ (calls["changeOk"] > 0 \/ relock > 0 \/ InFlight({"lockSent", "wipeSent"}))

\* An open vault is watched: the window that looks at the clock believes it is
\* unlocked, or is about to be told so.
OpenIsWatched ==
  open /\ ~crossed => ~locked \/ calls["unlockOk"] > 0

\* Locks that wait for their answer only, engines that wait for the slot.
LocksDone   == calls["lockOk"] + calls["wipeOk"]
EnginesOpen == calls["unlockOpen"] + calls["unlockOutdated"]

\* The inductive invariant.  Unless an unlock has crossed another command,
\* there is one at most, and none beside a lock or a wipe.
Exclusive ==
  ~crossed => UnlocksInFlight <= 1 /\ (UnlocksInFlight = 0 \/ LocksInFlight = 0)

\* What the window shows is the state of the slot, until a command has run
\* whose answer is still to come; an unlock works on an empty slot.
Agreement ==
  ~crossed =>
    /\ UnlocksInFlight = 0 =>
         IF LocksDone > 0 THEN ~open ELSE locked <=> ~open
    /\ UnlocksInFlight > 0 => locked /\ (open <=> calls["unlockOk"] > 0)

\* An empty slot has no map.
ListedInSlot == ~open => listed = {}

IInv ==
  /\ TypeOK /\ ChangesInFlight + relock <= MaxChanges
  /\ Exclusive /\ Agreement /\ ListedInSlot
  /\ PasswordForgotten

\* After a change that was answered Ok, an engine whose pool has the old key is
\* out of the slot before long, also when the user locks and unlocks before the
\* timer does.
ChangeRelocks ==
  (stale /\ ~torn /\ ~crossed) ~> (~stale \/ torn \/ crossed)

\* A vault left alone is locked.
IdleLocks == (open /\ idle /\ ~crossed) ~> (~open \/ ~idle \/ crossed)
=============================================================================
