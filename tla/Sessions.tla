------------------------------ MODULE Sessions ------------------------------
(***************************************************************************)
(* The session engine of EnvGuard: starting, running, expiring, stopping   *)
(* and recovering the sessions of an unlocked vault.                       *)
(*                                                                         *)
(* Every Tauri command holds the vault mutex from its first to its last    *)
(* line, so at most one command is in flight; pc is the await it is at.    *)
(* Two kinds of background task never take that mutex and run between any  *)
(* two awaits of a command: the expiry timer that spawn_session arms, and  *)
(* the waiter that spawn_process_with_env leaves behind for its child.     *)
(* They share the database, the disk and the active_sessions map.          *)
(*                                                                         *)
(* One action is one await: a single SQL statement, one file operation or  *)
(* one PowerShell call.  Code between two awaits that touches nothing      *)
(* shared is part of the action before it.                                 *)
(*                                                                         *)
(* The vault is unlocked by one unlock_vault at a time and only while it   *)
(* is locked, see UnlockVault.                                             *)
(***************************************************************************)
EXTENDS Naturals, FiniteSets

CONSTANTS
  Session,      \* session ids (Uuid::new_v4), each used once
  Profile,      \* the profiles the vault starts with
  Key,          \* environment variable names of credentials
  NoSession, NoProfile,
  Windows,      \* cfg!(windows): user environment written, no kill
  VaultDirDrop, \* the ephemeral files are dropped into the vault directory
  MaxFaults     \* bound: statements and file operations that fail

ASSUME SessionsAssumption ==
  /\ NoSession \notin Session
  /\ NoProfile \notin Profile
  /\ Windows \in BOOLEAN
  /\ VaultDirDrop \in BOOLEAN
  /\ MaxFaults \in Nat

VARIABLES
  profiles, \* rows of profiles
  creds,    \* the keys of each profile's credentials
  flagged,  \* profiles with is_active = 1
  row,      \* sessions.status, or "none" when there is no row
  hist,     \* session_history: no row, stopped_at NULL, stopped_at set
  files,    \* sessions with .envguard_ephemeral_<id>.env on disk
  env,      \* Windows: names set in the User environment
  child,    \* the process of a spawn_process_with_env session
  vault,    \* VaultState.inner: "locked" (None) or "open"
  active,   \* active_sessions of the open engine
  pc, cur,  \* the command in flight: the await it is at, its session
  todo,     \* rows perform_crash_recovery has fetched and not handled
  owner, drop, keys, \* fixed when a session starts: profile, has a file, keys
  task,     \* the background task of a session
  attached, \* sessions whose task holds the pool and the map now in use
  faults, lostFile, lostStop, lostEnv  \* history variables, see below

dbVars == <<profiles, creds, flagged, row, hist>>
diskVars == <<files, env>>
sessVars == <<owner, drop, keys>>
vars == <<dbVars, diskVars, child, vault, active, pc, cur, todo, sessVars,
          task, attached, faults, lostFile, lostStop, lostEnv>>

-----------------------------------------------------------------------------
StartPC == {"inject", "record", "histStart", "flagOn", "insert", "lastUsed"}
RunPC == {"runRecord", "runHist", "runInsert"}
StopPC == {"unset", "kill", "cleanup", "mark", "histStop", "flagOff"}
RecoveryPC == {"read", "rows", "rowHist", "sweep"}
PC == {"idle", "drain"} \cup StartPC \cup RunPC \cup StopPC \cup RecoveryPC

\* An expiry timer goes through the first line, a waiter through the second.
TaskState == {"none", "done"}
  \cup {"armed", "cleanup", "mark", "histStop", "flagOff", "unlist"}
  \cup {"waiting", "waitHist"}

\* Fixed by the code's own tables: an id that has never been used.
Unused(s) == owner[s] = NoProfile

\* A statement or a file operation succeeds or fails; MaxFaults bounds the
\* failures.
Succeeds == UNCHANGED faults
Fails == faults < MaxFaults /\ faults' = faults + 1

\* start_session's insert, stop_session and lock keep the guard of
\* active_sessions until they are done.
MapHeld == pc \in StopPC \cup {"lastUsed", "drain"}

(***************************************************************************)
(* The UPDATE statements.  They touch no row when the session's is gone    *)
(* (ON DELETE CASCADE), and a task whose pool is closed changes nothing.   *)
(***************************************************************************)
\* Slip: an unexpected status text is written as SessionStatus::Failed.
SetStatusFailed(s, status) ==
  row' = IF row[s] = "none" THEN row ELSE [row EXCEPT ![s] = "Failed"]

SetStatus(s, status) ==
  row' = IF row[s] = "none" THEN row ELSE [row EXCEPT ![s] = status]
CloseHistory(s) ==
  hist' = IF hist[s] = "none" THEN hist ELSE [hist EXCEPT ![s] = "stopped"]

\* [Environment]::SetEnvironmentVariable(k, $null, 'User') for the keys ks;
\* the keys the session was given and that are not among ks stay behind.
RemoveEnvironment(s, ks) ==
  IF Windows
    THEN /\ env' = env \ ks
         /\ lostEnv' = (lostEnv \ ks) \cup ((keys[s] \cap env) \ ks)
    ELSE UNCHANGED <<env, lostEnv>>

(***************************************************************************)
(* History variables: what a failed operation, a crash or a closed pool    *)
(* left behind with nobody in charge of it.  No action reads them.         *)
(*   lostFile  ephemeral files whose remove failed or was never reached    *)
(*             because the start was cut before its row was written        *)
(*   lostStop  sessions whose stopped_at write failed or was cut off       *)
(*   lostEnv   keys that a finished session did not unset                  *)
(***************************************************************************)
Init ==
  /\ profiles = Profile
  /\ creds = [p \in Profile |-> {}]
  /\ flagged = {}
  /\ row = [s \in Session |-> "none"]
  /\ hist = [s \in Session |-> "none"]
  /\ files = {}
  /\ env = {}
  /\ child = [s \in Session |-> "none"]
  /\ vault = "locked" /\ active = {}
  /\ pc = "idle" /\ cur = NoSession /\ todo = {}
  /\ owner = [s \in Session |-> NoProfile]
  /\ drop = {}
  /\ keys = [s \in Session |-> {}]
  /\ task = [s \in Session |-> "none"]
  /\ attached = {}
  /\ faults = 0 /\ lostFile = {} /\ lostStop = {} /\ lostEnv = {}

Idle == vault = "open" /\ pc = "idle"
At(l) == pc = l
Goto(l) == pc' = l /\ cur' = cur
Return == pc' = "idle" /\ cur' = NoSession

-----------------------------------------------------------------------------
(* start_session and spawn_session.                                        *)

\* The profile is read, its credentials decrypted, a fresh id drawn and, when
\* the rules ask for it, the ephemeral file written.
StartSession(s, p) ==
  /\ Idle /\ Unused(s) /\ p \in profiles
  /\ \/ drop' = drop \cup {s} /\ files' = files \cup {s}
     \/ UNCHANGED <<drop, files>>
  /\ owner' = [owner EXCEPT ![s] = p]
  /\ keys' = [keys EXCEPT ![s] = creds[p]]
  /\ pc' = "inject" /\ cur' = s
  /\ UNCHANGED <<dbVars, env, child, vault, active, todo, task, attached,
                 faults, lostFile, lostStop, lostEnv>>

\* write_ephemeral_env fails: before the write, or after it in
\* set_permissions; the command returns and the file, if any, stays.
StartSessionFails(s, p) ==
  /\ Idle /\ Unused(s) /\ p \in profiles
  /\ Fails
  /\ files' = files \cup {s} \/ UNCHANGED files
  /\ drop' = drop \cup {s}
  /\ owner' = [owner EXCEPT ![s] = p]
  /\ lostFile' = lostFile \cup {s}
  /\ UNCHANGED <<dbVars, env, child, vault, active, pc, cur, todo, keys,
                 task, attached, lostStop, lostEnv>>

\* The early return of a start that has dropped its file and set its keys.
AbandonStart ==
  /\ Return
  /\ lostFile' = lostFile \cup (drop \cap {cur})

\* inject_environment, on Windows and when the profile inherits; a failed
\* script may have set some of the keys.
InjectEnvironment ==
  /\ At("inject")
  /\ \/ /\ Succeeds /\ Goto("record")
        /\ UNCHANGED env \/ (Windows /\ env' = env \cup keys[cur])
        /\ UNCHANGED <<lostFile, lostEnv>>
     \/ /\ Windows /\ keys[cur] # {} /\ Fails /\ AbandonStart
        /\ \E set \in SUBSET keys[cur] :
             env' = env \cup set /\ lostEnv' = lostEnv \cup set
  /\ UNCHANGED <<dbVars, files, child, vault, active, todo, sessVars, task,
                 attached, lostStop>>

\* record_session: the INSERT, whose failure ends the command.
RecordSession ==
  /\ At("record")
  /\ \/ /\ Succeeds /\ Goto("histStart")
        /\ row' = [row EXCEPT ![cur] = "Active"]
        /\ UNCHANGED <<lostFile, lostEnv>>
     \/ /\ Fails /\ AbandonStart
        /\ lostEnv' = lostEnv \cup (keys[cur] \cap env)
        /\ UNCHANGED row
  /\ UNCHANGED <<profiles, creds, flagged, hist, diskVars, child, vault,
                 active, todo, sessVars, task, attached, lostStop>>

\* store_session_history_start, whose failure is ignored.
OpenHistory(from, to) ==
  /\ At(from) /\ Goto(to)
  /\ \/ Succeeds /\ hist' = [hist EXCEPT ![cur] = "open"]
     \/ Fails /\ UNCHANGED hist
  /\ UNCHANGED <<profiles, creds, flagged, row, diskVars, child, vault,
                 active, todo, sessVars, task, attached, lostFile, lostStop,
                 lostEnv>>

StartHistory == OpenHistory("histStart", "flagOn")

\* update_profile_active_status(true), then the timer is spawned when the
\* rules give the session a lifetime.
FlagProfile ==
  /\ At("flagOn")
  /\ \/ /\ Succeeds /\ Goto("insert")
        /\ flagged' = flagged \cup {owner[cur]}
        /\ \/ /\ task' = [task EXCEPT ![cur] = "armed"]
              /\ attached' = attached \cup {cur}
           \/ UNCHANGED <<task, attached>>
        /\ UNCHANGED lostEnv
     \/ /\ Fails /\ Return
        /\ lostEnv' = lostEnv \cup (keys[cur] \cap env)
        /\ UNCHANGED <<flagged, task, attached>>
  /\ UNCHANGED <<profiles, creds, row, hist, diskVars, child, vault, active,
                 todo, sessVars, lostFile, lostStop>>

\* Back in start_session: the map insert, with the timer already running.
InsertSession ==
  /\ At("insert") /\ Goto("lastUsed")
  /\ active' = active \cup {cur}
  /\ UNCHANGED <<dbVars, diskVars, child, vault, todo, sessVars, task,
                 attached, faults, lostFile, lostStop, lostEnv>>

\* update_profile_last_used with the map guard still held; Ok or Err, the
\* session stays.
TouchProfile ==
  /\ At("lastUsed")
  /\ Return
  /\ UNCHANGED <<dbVars, diskVars, child, vault, active, todo, sessVars, task,
                 attached, faults, lostFile, lostStop, lostEnv>>

-----------------------------------------------------------------------------
(* spawn_process_with_env.                                                 *)

\* The child is spawned with the credentials in its environment.
SpawnProcess(s, p) ==
  /\ Idle /\ Unused(s) /\ p \in profiles
  /\ owner' = [owner EXCEPT ![s] = p]
  /\ child' = [child EXCEPT ![s] = "running"]
  /\ pc' = "runRecord" /\ cur' = s
  /\ UNCHANGED <<dbVars, diskVars, vault, active, todo, drop, keys, task,
                 attached, faults, lostFile, lostStop, lostEnv>>

\* record_session with the pid; on an error the child runs on, unrecorded.
RecordProcess ==
  /\ At("runRecord")
  /\ \/ /\ Succeeds /\ Goto("runHist")
        /\ row' = [row EXCEPT ![cur] = "Active"]
     \/ Fails /\ Return /\ UNCHANGED row
  /\ UNCHANGED <<profiles, creds, flagged, hist, diskVars, child, vault,
                 active, todo, sessVars, task, attached, lostFile, lostStop,
                 lostEnv>>

ProcessHistory == OpenHistory("runHist", "runInsert")

\* The map insert, and the waiter is spawned before the guard is dropped.
InsertProcess ==
  /\ At("runInsert")
  /\ active' = active \cup {cur}
  /\ task' = [task EXCEPT ![cur] = "waiting"]
  /\ attached' = attached \cup {cur}
  /\ Return
  /\ UNCHANGED <<dbVars, diskVars, child, vault, todo, sessVars, faults,
                 lostFile, lostStop, lostEnv>>

-----------------------------------------------------------------------------
(* stop_session and terminate_session.  The map guard is held throughout.  *)

\* An id that is not in the map is answered with Ok and nothing happens.
StopSession(s) ==
  /\ Idle /\ s \in active
  /\ active' = active \ {s}
  /\ pc' = "unset" /\ cur' = s
  /\ UNCHANGED <<dbVars, diskVars, child, vault, todo, sessVars, task,
                 attached, faults, lostFile, lostStop, lostEnv>>

\* The keys unset are those of the credentials the profile has now; none
\* when they cannot be read (unwrap_or_default), some when the script fails.
UnsetCurrentKeys(s) ==
  \/ Succeeds /\ RemoveEnvironment(s, creds[owner[s]])
  \/ Fails /\ \E ks \in SUBSET creds[owner[s]] : RemoveEnvironment(s, ks)

StopUnset ==
  /\ At("unset") /\ Goto("kill")
  /\ UnsetCurrentKeys(cur)
  /\ UNCHANGED <<dbVars, files, child, vault, active, todo, sessVars, task,
                 attached, lostFile, lostStop>>

\* Slip: child.wait() where the code signals, sleeps and signals again.
StopKillAndWait ==
  /\ At("kill") /\ child[cur] # "running"
  /\ Succeeds /\ Goto("cleanup")
  /\ UNCHANGED <<dbVars, diskVars, child, vault, active, todo, sessVars, task,
                 attached, lostFile, lostStop, lostEnv>>

\* get_session_profile_and_pid, then kill_process for a recorded pid: SIGTERM
\* and five seconds later SIGKILL on Unix, nothing on Windows.
StopKill ==
  /\ At("kill")
  /\ \/ /\ Succeeds /\ row[cur] # "none" /\ Goto("cleanup")
        /\ child' = IF ~Windows /\ child[cur] = "running"
                      THEN [child EXCEPT ![cur] = "exited"] ELSE child
     \/ Succeeds /\ row[cur] = "none" /\ Return /\ UNCHANGED child
     \/ Fails /\ Return /\ UNCHANGED child
  /\ UNCHANGED <<dbVars, diskVars, vault, active, todo, sessVars, task,
                 attached, lostFile, lostStop, lostEnv>>

\* cleanup_ephemeral_env, whose failure is ignored.
RemoveFile(s) ==
  \/ Succeeds /\ files' = files \ ({s} \cap drop) /\ UNCHANGED lostFile
  \/ Fails /\ UNCHANGED files /\ lostFile' = lostFile \cup ({s} \cap drop)

StopCleanup ==
  /\ At("cleanup") /\ Goto("mark")
  /\ RemoveFile(cur)
  /\ UNCHANGED <<dbVars, env, child, vault, active, todo, sessVars, task,
                 attached, lostStop, lostEnv>>

StopMark ==
  /\ At("mark")
  /\ \/ Succeeds /\ Goto("histStop") /\ SetStatus(cur, "Terminated")
     \/ Fails /\ Return /\ UNCHANGED row
  /\ UNCHANGED <<profiles, creds, flagged, hist, diskVars, child, vault,
                 active, todo, sessVars, task, attached, lostFile, lostStop,
                 lostEnv>>

\* store_session_history_stop, whose failure is ignored everywhere.
StopHistory(s) ==
  \/ Succeeds /\ CloseHistory(s) /\ UNCHANGED lostStop
  \/ Fails /\ lostStop' = lostStop \cup {s} /\ UNCHANGED hist

StopCloseHistory ==
  /\ At("histStop") /\ Goto("flagOff")
  /\ StopHistory(cur)
  /\ UNCHANGED <<profiles, creds, flagged, row, diskVars, child, vault,
                 active, todo, sessVars, task, attached, lostFile, lostEnv>>

StopUnflag ==
  /\ At("flagOff") /\ Return
  /\ \/ Succeeds /\ flagged' = flagged \ {owner[cur]}
     \/ Fails /\ UNCHANGED flagged
  /\ UNCHANGED <<profiles, creds, row, hist, diskVars, child, vault, active,
                 todo, sessVars, task, attached, lostFile, lostStop, lostEnv>>

-----------------------------------------------------------------------------
(* The expiry timer of spawn_session.  Nothing ever cancels it; once the   *)
(* pool is closed its statements change nothing.                           *)

TimerVars == <<profiles, creds, child, vault, pc, cur, todo, sessVars, attached>>
Advance(s, from, to) == task[s] = from /\ task' = [task EXCEPT ![s] = to]

\* The sleep is over: remove_environment of the keys captured at the start,
\* whose failure is ignored.
TimerWake(s) ==
  /\ Advance(s, "armed", "cleanup")
  /\ \/ Succeeds /\ RemoveEnvironment(s, keys[s])
     \/ Windows /\ Fails /\ \E ks \in SUBSET keys[s] : RemoveEnvironment(s, ks)
  /\ UNCHANGED <<TimerVars, flagged, row, hist, files, active, lostFile, lostStop>>

\* Slip: the file is only removed while the session is still recorded.
TimerCleanupIfRecorded(s) ==
  /\ Advance(s, "cleanup", "mark")
  /\ IF row[s] = "Active" THEN RemoveFile(s)
                          ELSE UNCHANGED <<files, lostFile, faults>>
  /\ UNCHANGED <<TimerVars, flagged, row, hist, env, active, lostStop, lostEnv>>

TimerCleanup(s) ==
  /\ Advance(s, "cleanup", "mark")
  /\ RemoveFile(s)
  /\ UNCHANGED <<TimerVars, flagged, row, hist, env, active, lostStop, lostEnv>>

TimerMark(s) ==
  /\ Advance(s, "mark", "histStop")
  /\ \/ s \in attached /\ Succeeds /\ SetStatus(s, "Expired")
     \/ s \in attached /\ Fails /\ UNCHANGED row
     \/ s \notin attached /\ UNCHANGED <<row, faults>>
  /\ UNCHANGED <<TimerVars, flagged, hist, diskVars, active, lostFile,
                 lostStop, lostEnv>>

TaskCloseHistory(s) ==
  \/ s \in attached /\ StopHistory(s)
  \/ s \notin attached /\ UNCHANGED <<hist, lostStop, faults>>

\* Slip: the error of a closed pool is returned with ? and ends the task.
TimerCloseHistoryOrQuit(s) ==
  /\ s \in attached
  /\ Advance(s, "histStop", "flagOff")
  /\ TaskCloseHistory(s)
  /\ UNCHANGED <<TimerVars, flagged, row, diskVars, active, lostFile, lostEnv>>

TimerCloseHistory(s) ==
  /\ Advance(s, "histStop", "flagOff")
  /\ TaskCloseHistory(s)
  /\ UNCHANGED <<TimerVars, flagged, row, diskVars, active, lostFile, lostEnv>>

TimerUnflag(s) ==
  /\ Advance(s, "flagOff", "unlist")
  /\ \/ s \in attached /\ Succeeds /\ flagged' = flagged \ {owner[s]}
     \/ s \in attached /\ Fails /\ UNCHANGED flagged
     \/ s \notin attached /\ UNCHANGED <<flagged, faults>>
  /\ UNCHANGED <<TimerVars, row, hist, diskVars, active, lostFile, lostStop,
                 lostEnv>>

\* The map is that of the timer's own engine: gone with it, else shared.
TimerUnlist(s) ==
  /\ Advance(s, "unlist", "done")
  /\ s \in attached => ~MapHeld
  /\ active' = IF s \in attached THEN active \ {s} ELSE active
  /\ UNCHANGED <<TimerVars, flagged, row, hist, diskVars, faults, lostFile,
                 lostStop, lostEnv>>

-----------------------------------------------------------------------------
(* The child of spawn_process_with_env and its waiter.  The waiter never   *)
(* takes the session out of the map.                                       *)

ChildExit(s) ==
  /\ child[s] = "running"
  /\ child' = [child EXCEPT ![s] = "exited"]
  /\ UNCHANGED <<dbVars, diskVars, vault, active, pc, cur, todo, sessVars,
                 task, attached, faults, lostFile, lostStop, lostEnv>>

WaiterMark(s) ==
  /\ child[s] = "exited"
  /\ Advance(s, "waiting", "waitHist")
  /\ \/ s \in attached /\ Succeeds /\ SetStatus(s, "Terminated")
     \/ s \in attached /\ Fails /\ UNCHANGED row
     \/ s \notin attached /\ UNCHANGED <<row, faults>>
  /\ UNCHANGED <<TimerVars, flagged, hist, diskVars, active, lostFile,
                 lostStop, lostEnv>>

WaiterCloseHistory(s) ==
  /\ Advance(s, "waitHist", "done")
  /\ TaskCloseHistory(s)
  /\ UNCHANGED <<TimerVars, flagged, row, diskVars, active, lostFile, lostEnv>>

-----------------------------------------------------------------------------
(* Commands on profiles and credentials that the sessions depend on.       *)

\* One DELETE; sessions, session_history and credentials cascade.  The map,
\* the timers, the files and the processes are left alone.
DeleteProfile(p) ==
  /\ Idle /\ p \in profiles
  /\ profiles' = profiles \ {p}
  /\ creds' = [creds EXCEPT ![p] = {}]
  /\ flagged' = flagged \ {p}
  /\ row' = [s \in Session |-> IF owner[s] = p THEN "none" ELSE row[s]]
  /\ hist' = [s \in Session |-> IF owner[s] = p THEN "none" ELSE hist[s]]
  /\ UNCHANGED <<diskVars, child, vault, active, pc, cur, todo, sessVars, task,
                 attached, faults, lostFile, lostStop, lostEnv>>

AddCredential(p, k) ==
  /\ Idle /\ p \in profiles /\ k \notin creds[p]
  /\ creds' = [creds EXCEPT ![p] = @ \cup {k}]
  /\ UNCHANGED <<profiles, flagged, row, hist, diskVars, child, vault, active,
                 pc, cur, todo, sessVars, task, attached, faults, lostFile,
                 lostStop, lostEnv>>

DeleteCredential(p, k) ==
  /\ Idle /\ k \in creds[p]
  /\ creds' = [creds EXCEPT ![p] = @ \ {k}]
  /\ UNCHANGED <<profiles, flagged, row, hist, diskVars, child, vault, active,
                 pc, cur, todo, sessVars, task, attached, faults, lostFile,
                 lostStop, lostEnv>>

-----------------------------------------------------------------------------
(* lock_vault: the map is drained session by session, then the pool is     *)
(* closed under whatever the background tasks were doing.                  *)

LockVault ==
  /\ Idle /\ pc' = "drain" /\ cur' = NoSession
  /\ UNCHANGED <<dbVars, diskVars, child, vault, active, todo, sessVars, task,
                 attached, faults, lostFile, lostStop, lostEnv>>

\* Slip: the map is cleared without looking at the environment.
DrainSilently(s) ==
  /\ At("drain") /\ s \in active
  /\ active' = active \ {s}
  /\ UNCHANGED <<dbVars, diskVars, child, vault, pc, cur, todo, sessVars, task,
                 attached, faults, lostFile, lostStop, lostEnv>>

DrainSession(s) ==
  /\ At("drain") /\ s \in active
  /\ active' = active \ {s}
  /\ UnsetCurrentKeys(s)
  /\ UNCHANGED <<dbVars, files, child, vault, pc, cur, todo, sessVars, task,
                 attached, lostFile, lostStop>>

\* Sessions whose row has its final status and whose history does not yet.
MidStop == {s \in attached : task[s] \in {"histStop", "waitHist"}}

\* Slip: the engine is dropped and its pool, cloned by the tasks, stays open.
DropEngine ==
  /\ At("drain") /\ active = {}
  /\ vault' = "locked" /\ Return
  /\ UNCHANGED <<dbVars, diskVars, child, active, todo, sessVars, task,
                 attached, faults, lostFile, lostStop, lostEnv>>

ClosePool ==
  /\ At("drain") /\ active = {}
  /\ vault' = "locked" /\ attached' = {}
  /\ Return
  /\ lostStop' = lostStop \cup MidStop
  /\ UNCHANGED <<dbVars, diskVars, child, active, todo, sessVars, task,
                 faults, lostFile, lostEnv>>

-----------------------------------------------------------------------------
(* unlock_vault, from the opened database to the published engine, with    *)
(* perform_crash_recovery in between.                                      *)

\* One unlock at a time, of a locked vault.  The code asks for neither: a
\* second unlock_vault would recover beside the commands of the open vault
\* and replace its engine without closing the pool.  What that does to the
\* sessions is outside this module, and the properties below do not speak
\* of it.
UnlockVault ==
  /\ vault = "locked" /\ pc = "idle"
  /\ pc' = "read" /\ cur' = NoSession
  /\ UNCHANGED <<dbVars, diskVars, child, vault, active, todo, sessVars, task,
                 attached, faults, lostFile, lostStop, lostEnv>>

ActiveRows == {s \in Session : row[s] = "Active"}

\* When the SELECT fails the rows are not handled at all.
RecoverRead ==
  /\ At("read") /\ Goto("rows")
  /\ \/ /\ Succeeds /\ todo' = ActiveRows
        /\ UNCHANGED <<lostFile, lostStop>>
     \/ /\ Fails /\ todo' = {}
        /\ lostFile' = lostFile \cup (ActiveRows \cap drop)
        /\ lostStop' = lostStop \cup ActiveRows
  /\ UNCHANGED <<dbVars, diskVars, child, vault, active, sessVars, task,
                 attached, lostEnv>>

RecoverRemove(s) ==
  /\ At("rows") /\ s \in todo
  /\ pc' = "rowHist" /\ cur' = s
  /\ RemoveFile(s)
  /\ UNCHANGED <<dbVars, env, child, vault, active, todo, sessVars, task,
                 attached, lostStop, lostEnv>>

\* Slip: the history of a recovered row is left to the bulk UPDATE.
RecoverSkipHistory ==
  /\ At("rowHist") /\ pc' = "rows" /\ cur' = NoSession
  /\ todo' = todo \ {cur}
  /\ UNCHANGED <<dbVars, diskVars, child, vault, active, sessVars, task,
                 attached, faults, lostFile, lostStop, lostEnv>>

\* Slip: the Active rows are read again for each round; marking them comes last.
RecoverRequery ==
  /\ At("rowHist") /\ pc' = "rows" /\ cur' = NoSession
  /\ todo' = ActiveRows
  /\ StopHistory(cur)
  /\ UNCHANGED <<profiles, creds, flagged, row, diskVars, child, vault, active,
                 sessVars, task, attached, lostFile, lostEnv>>

RecoverCloseHistory ==
  /\ At("rowHist") /\ pc' = "rows" /\ cur' = NoSession
  /\ todo' = todo \ {cur}
  /\ StopHistory(cur)
  /\ UNCHANGED <<profiles, creds, flagged, row, diskVars, child, vault, active,
                 sessVars, task, attached, lostFile, lostEnv>>

\* Slip: the bulk UPDATE runs first, and a crash finds no Active rows again.
RecoverMarkFirst ==
  /\ At("rows") /\ Goto("sweep")
  /\ row' = [s \in Session |->
               IF row[s] = "Active" THEN "Terminated" ELSE row[s]]
  /\ todo' = {}
  /\ UNCHANGED <<profiles, creds, flagged, hist, diskVars, child, vault,
                 active, sessVars, task, attached, faults, lostFile, lostStop,
                 lostEnv>>

\* Slip: the UPDATE binds the status in another spelling and matches no row.
RecoverMarkNothing ==
  /\ At("rows") /\ todo = {} /\ Goto("sweep")
  /\ UNCHANGED <<dbVars, diskVars, child, vault, active, todo, sessVars, task,
                 attached, faults, lostFile, lostStop, lostEnv>>

\* UPDATE sessions SET status = Terminated WHERE status = Active.
RecoverMark ==
  /\ At("rows") /\ todo = {} /\ Goto("sweep")
  /\ \/ /\ Succeeds
        /\ row' = [s \in Session |->
                     IF row[s] = "Active" THEN "Terminated" ELSE row[s]]
     \/ Fails /\ UNCHANGED row
  /\ UNCHANGED <<profiles, creds, flagged, hist, diskVars, child, vault,
                 active, todo, sessVars, task, attached, lostFile, lostStop,
                 lostEnv>>

\* Stray files in the directory of vault.db are removed; the engine, with an
\* empty map, becomes the vault's.
PublishEngine ==
  /\ At("sweep") /\ Return
  /\ files' = IF VaultDirDrop THEN {} ELSE files
  /\ vault' = "open"
  /\ UNCHANGED <<dbVars, env, child, active, todo, sessVars, task, attached,
                 faults, lostFile, lostStop, lostEnv>>

-----------------------------------------------------------------------------
(* The application dies between any two steps.  Children outlive it.       *)

Crash ==
  /\ vault' = "locked" /\ active' = {} /\ attached' = {}
  /\ Return /\ todo' = {}
  /\ task' = [s \in Session |-> "none"]
  /\ lostFile' = IF pc \in {"inject", "record"}
                   THEN lostFile \cup (drop \cap {cur}) ELSE lostFile
  /\ lostStop' = lostStop \cup MidStop
                          \cup (IF pc = "histStop" THEN {cur} ELSE {})
  /\ lostEnv' = lostEnv \cup env
  /\ UNCHANGED <<dbVars, diskVars, child, sessVars, faults>>

-----------------------------------------------------------------------------
StartStep == InjectEnvironment \/ RecordSession \/ StartHistory
             \/ FlagProfile \/ InsertSession \/ TouchProfile
RunStep == RecordProcess \/ ProcessHistory \/ InsertProcess
StopStep == StopUnset \/ StopKill \/ StopCleanup \/ StopMark
            \/ StopCloseHistory \/ StopUnflag
LockStep == ClosePool \/ \E s \in Session : DrainSession(s)
UnlockStep == RecoverRead \/ RecoverCloseHistory \/ RecoverMark \/ PublishEngine
              \/ \E s \in Session : RecoverRemove(s)

\* A command that has begun goes on by itself.
CommandStep == StartStep \/ RunStep \/ StopStep \/ LockStep \/ UnlockStep

TimerStep(s) == TimerWake(s) \/ TimerCleanup(s) \/ TimerMark(s)
                \/ TimerCloseHistory(s) \/ TimerUnflag(s)
WaiterStep(s) == WaiterMark(s) \/ WaiterCloseHistory(s)

UserStep ==
  \/ LockVault \/ UnlockVault
  \/ \E s \in Session : StopSession(s)
  \/ \E s \in Session, p \in Profile :
       StartSession(s, p) \/ StartSessionFails(s, p) \/ SpawnProcess(s, p)
  \/ \E p \in Profile : DeleteProfile(p)
  \/ \E p \in Profile, k \in Key : AddCredential(p, k) \/ DeleteCredential(p, k)

Next ==
  \/ UserStep
  \/ CommandStep
  \/ \E s \in Session :
       TimerStep(s) \/ TimerUnlist(s) \/ ChildExit(s) \/ WaiterStep(s)
  \/ Crash

Spec == Init /\ [][Next]_vars

(***************************************************************************)
(* Futures are polled until they are done and a sleep ends, hence weak     *)
(* fairness of the command in flight and of every background task; tokio's *)
(* Mutex hands the map over in FIFO order, hence strong fairness of the    *)
(* one step that waits for it.  Users, children and crashes promise        *)
(* nothing.                                                                *)
(***************************************************************************)
Fairness ==
  /\ WF_vars(CommandStep)
  /\ \A s \in Session :
       WF_vars(TimerStep(s)) /\ WF_vars(WaiterStep(s)) /\ SF_vars(TimerUnlist(s))

FairSpec == Spec /\ Fairness

-----------------------------------------------------------------------------
\* Where a command answers for the names its session put into env.
InjectedPC == (StartPC \ {"inject"}) \cup {"unset"}

TypeOK ==
  /\ profiles \subseteq Profile
  /\ creds \in [Profile -> SUBSET Key]
  /\ flagged \subseteq Profile
  /\ row \in [Session -> {"none", "Active", "Expired", "Terminated"}]
  /\ hist \in [Session -> {"none", "open", "stopped"}]
  /\ files \subseteq Session
  /\ env \subseteq Key
  /\ child \in [Session -> {"none", "running", "exited"}]
  /\ vault \in {"locked", "open"}
  /\ active \subseteq Session
  /\ pc \in PC
  /\ cur \in Session \cup {NoSession}
  /\ todo \subseteq Session
  /\ owner \in [Session -> Profile \cup {NoProfile}]
  /\ drop \subseteq Session
  /\ keys \in [Session -> SUBSET Key]
  /\ task \in [Session -> TaskState]
  /\ attached \subseteq Session
  /\ faults \in 0 .. MaxFaults
  /\ lostFile \subseteq Session /\ lostStop \subseteq Session
  /\ lostEnv \subseteq Key

\* Every plaintext file on disk still has somebody who will remove it: an
\* Active row, which stop_session and crash recovery act on, or the start
\* that is about to write that row.  Only a failed remove, a start cut short
\* and the deletion of the profile leave a file behind.  For one unlock at a
\* time: a second one removes the stray files beside a start in flight.
FilesCovered ==
  \A s \in Session : s \in files =>
    \/ row[s] = "Active"
    \/ cur = s /\ pc \in {"inject", "record"}
    \/ owner[s] \notin profiles
    \/ s \in lostFile

\* While no operation has failed, every Active row of an open vault can be
\* stopped: it is listed, or the command in flight is starting, stopping or
\* draining it.  Rows of earlier, crashed or locked engines are never left
\* Active by the recovery that unlock_vault runs.  For one unlock at a time:
\* a second one replaces the map that lists them.
ActiveRowsListed ==
  (vault = "open" /\ faults = 0) =>
    \A s \in ActiveRows : s \in active \/ cur = s \/ pc = "drain"

\* A session_history entry is open only for an Active row or in the gap
\* between the two writes that end a session; a crash, a closed pool or a
\* failed write in that gap is the only way it stays open for ever.  For one
\* unlock at a time, as only then recovery meets no task of an open pool.
OpenHistoryExplained ==
  \A s \in Session : hist[s] = "open" =>
    \/ row[s] = "Active"
    \/ s \in MidStop
    \/ cur = s /\ pc = "histStop"
    \/ s \in lostStop

\* On Windows a name stays in the User environment only for a session that
\* is listed, being started or stopped, or whose end left the name behind:
\* because the profile's credentials no longer had it, because the script
\* that removes it failed, or because the application died.
EnvAccounted ==
  \A k \in env :
    \/ k \in lostEnv
    \/ \E s \in Session : k \in keys[s] /\
         (s \in active \/ (cur = s /\ pc \in InjectedPC))

\* Once lock_vault has closed the pool no background task changes the
\* database, until the next unlock.  For one unlock at a time: an engine that
\* a second unlock replaced keeps its pool open, and its tasks go on writing.
LockedIsQuiet ==
  [][(vault = "locked" /\ pc = "idle") => UNCHANGED dbVars]_vars

\* A command always comes back: it waits neither for a background task nor
\* for a child that ignores SIGTERM.
CommandsReturn == (pc # "idle") ~> (pc = "idle")

\* A session with a lifetime loses its plaintext file even when it was
\* stopped or the vault locked meanwhile, unless the application died or the
\* remove failed.
ExpiryRemovesFile ==
  \A s \in Session :
    (task[s] = "armed") ~> (s \notin files \/ s \in lostFile \/ task[s] = "none")

\* A timer that has gone off gets the map in the end, however many commands
\* hold it in between, and then the session is no longer listed by it.
TimersFinish ==
  \A s \in Session : (task[s] = "cleanup") ~> (task[s] \in {"done", "none"})

-----------------------------------------------------------------------------
(* What the repository says of sessions and the code does not keep.        *)

\* A session that has expired is no longer listed (the assertion of the test
\* session_terminates_on_expiry): fails when the timer takes its session out
\* of the map before start_session has put it in.
ExpiredNotListed ==
  \A s \in Session :
    (task[s] = "done" /\ row[s] = "Expired" /\ pc = "idle") => s \notin active

\* Deleting a profile destroys its active sessions (the confirmation dialog):
\* delete_profile only deletes rows.
DeleteDestroysSessions ==
  \A s \in Session :
    (pc = "idle" /\ owner[s] \in Profile \ profiles) =>
      s \notin active /\ s \notin files
=============================================================================
