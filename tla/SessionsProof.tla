--------------------------- MODULE SessionsProof ----------------------------
(***************************************************************************)
(* Proofs about Sessions for any sets of sessions, profiles and keys, with *)
(* or without Windows, and any number of failures.                         *)
(*                                                                         *)
(* IInv holds initially and is preserved by every action.  There is one    *)
(* lemma for each group of actions and one step in it for each action; the *)
(* theorems at the end read the invariants off IInv, and the properties of *)
(* single steps off the actions.                                           *)
(***************************************************************************)
EXTENDS SessionsInv, TLAPS

\* The invariant holds before the vault has ever been unlocked.
LEMMA InitInv == Init => IInv
  BY SessionsAssumption
  DEF Init, IInv, TypeOK, CommandShape, FreshIds, FilesInv, HistoryInv,
      ListInv, EnvInv, FilesCovered, OpenHistoryExplained, ActiveRowsListed,
      ActiveRows, PC, TaskState, StartPC, RunPC, StopPC, RecoveryPC

USE SessionsAssumption
USE DEF PC, TaskState, StartPC, RunPC, StopPC, RecoveryPC, InjectedPC,
        Succeeds, Fails, At, Goto, Return, dbVars, diskVars, sessVars,
        MidStop, ActiveRows, Unused
USE DEF IInv, TypeOK, CommandShape, FreshIds, FilesInv, HistoryInv, ListInv,
        EnvInv, FileRemoved, FilesCovered, HistoryClosed,
        OpenHistoryExplained, ActiveRowsListed

\* start_session after its first await.
LEMMA StartInv ==
  ASSUME IInv, StartStep
  PROVE  IInv'
<1>1. CASE InjectEnvironment
  BY <1>1 DEF InjectEnvironment, AbandonStart
<1>2. CASE RecordSession
  BY <1>2 DEF RecordSession, AbandonStart
<1>3. CASE StartHistory
  BY <1>3 DEF StartHistory, OpenHistory
<1>4. CASE FlagProfile
  BY <1>4 DEF FlagProfile
<1>5. CASE InsertSession
  BY <1>5 DEF InsertSession
<1>6. CASE TouchProfile
  BY <1>6 DEF TouchProfile
<1>. QED  BY <1>1, <1>2, <1>3, <1>4, <1>5, <1>6 DEF StartStep

\* spawn_process_with_env after its first await.
LEMMA RunInv ==
  ASSUME IInv, RunStep
  PROVE  IInv'
<1>1. CASE RecordProcess
  BY <1>1 DEF RecordProcess
<1>2. CASE ProcessHistory
  BY <1>2 DEF ProcessHistory, OpenHistory
<1>3. CASE InsertProcess
  BY <1>3 DEF InsertProcess
<1>. QED  BY <1>1, <1>2, <1>3 DEF RunStep

\* stop_session and terminate_session.
LEMMA StopInv ==
  ASSUME IInv, StopStep
  PROVE  IInv'
<1>1. CASE StopUnset
  BY <1>1 DEF StopUnset, UnsetCurrentKeys, RemoveEnvironment
<1>2. CASE StopKill
  BY <1>2 DEF StopKill
<1>3. CASE StopCleanup
  BY <1>3 DEF StopCleanup, RemoveFile
<1>4. CASE StopMark
  BY <1>4 DEF StopMark, SetStatus
<1>5. CASE StopCloseHistory
  BY <1>5 DEF StopCloseHistory, StopHistory, CloseHistory
<1>6. CASE StopUnflag
  BY <1>6 DEF StopUnflag
<1>. QED  BY <1>1, <1>2, <1>3, <1>4, <1>5, <1>6 DEF StopStep

\* lock: the drain of the map and the end of the pool.
LEMMA LockInv ==
  ASSUME IInv, LockStep
  PROVE  IInv'
<1>1. ASSUME NEW s \in Session, DrainSession(s)
      PROVE  IInv'
  BY <1>1 DEF DrainSession, UnsetCurrentKeys, RemoveEnvironment
<1>2. CASE ClosePool
  BY <1>2 DEF ClosePool
<1>. QED  BY <1>1, <1>2 DEF LockStep

\* perform_crash_recovery and the publication of the engine.
LEMMA UnlockInv ==
  ASSUME IInv, UnlockStep
  PROVE  IInv'
<1>1. CASE RecoverRead
  BY <1>1 DEF RecoverRead
<1>2. ASSUME NEW s \in Session, RecoverRemove(s)
      PROVE  IInv'
  BY <1>2 DEF RecoverRemove, RemoveFile
<1>3. CASE RecoverCloseHistory
  BY <1>3 DEF RecoverCloseHistory, StopHistory, CloseHistory
<1>4. CASE RecoverMark
  BY <1>4 DEF RecoverMark
<1>5. CASE PublishEngine
  BY <1>5 DEF PublishEngine
<1>. QED  BY <1>1, <1>2, <1>3, <1>4, <1>5 DEF UnlockStep

\* The commands that are about to begin, and those of one statement.
LEMMA UserInv ==
  ASSUME IInv, UserStep
  PROVE  IInv'
<1>1. CASE LockVault
  BY <1>1 DEF LockVault, Idle
<1>2. CASE UnlockVault
  BY <1>2 DEF UnlockVault
<1>3. ASSUME NEW s \in Session, StopSession(s)
      PROVE  IInv'
  BY <1>3 DEF StopSession, Idle
<1>4. ASSUME NEW s \in Session, NEW p \in Profile, StartSession(s, p)
      PROVE  IInv'
  BY <1>4 DEF StartSession, Idle
<1>5. ASSUME NEW s \in Session, NEW p \in Profile, StartSessionFails(s, p)
      PROVE  IInv'
  BY <1>5 DEF StartSessionFails, Idle
<1>6. ASSUME NEW s \in Session, NEW p \in Profile, SpawnProcess(s, p)
      PROVE  IInv'
  BY <1>6 DEF SpawnProcess, Idle
<1>7. ASSUME NEW p \in Profile, DeleteProfile(p)
      PROVE  IInv'
  BY <1>7 DEF DeleteProfile, Idle
<1>8. ASSUME NEW p \in Profile, NEW k \in Key, AddCredential(p, k)
      PROVE  IInv'
  BY <1>8 DEF AddCredential, Idle
<1>9. ASSUME NEW p \in Profile, NEW k \in Key, DeleteCredential(p, k)
      PROVE  IInv'
  BY <1>9 DEF DeleteCredential, Idle
<1>. QED
  BY <1>1, <1>2, <1>3, <1>4, <1>5, <1>6, <1>7, <1>8, <1>9
  DEF UserStep

\* The background tasks and the children.
LEMMA TaskInv ==
  ASSUME IInv, NEW t \in Session,
         TimerStep(t) \/ TimerUnlist(t) \/ ChildExit(t) \/ WaiterStep(t)
  PROVE  IInv'
<1>1. ASSUME NEW s \in Session, TimerWake(s)
      PROVE  IInv'
  BY <1>1 DEF TimerWake, TimerVars, Advance, RemoveEnvironment
<1>2. ASSUME NEW s \in Session, TimerCleanup(s)
      PROVE  IInv'
  BY <1>2 DEF TimerCleanup, TimerVars, Advance, RemoveFile
<1>3. ASSUME NEW s \in Session, TimerMark(s)
      PROVE  IInv'
  BY <1>3 DEF TimerMark, TimerVars, Advance, SetStatus
<1>4. ASSUME NEW s \in Session, TimerCloseHistory(s)
      PROVE  IInv'
  BY <1>4 DEF TimerCloseHistory, TaskCloseHistory, StopHistory,
        CloseHistory, TimerVars, Advance
<1>5. ASSUME NEW s \in Session, TimerUnflag(s)
      PROVE  IInv'
  BY <1>5 DEF TimerUnflag, TimerVars, Advance
<1>6. ASSUME NEW s \in Session, TimerUnlist(s)
      PROVE  IInv'
  BY <1>6 DEF TimerUnlist, TimerVars, Advance, MapHeld
<1>7. ASSUME NEW s \in Session, ChildExit(s)
      PROVE  IInv'
  BY <1>7 DEF ChildExit
<1>8. ASSUME NEW s \in Session, WaiterMark(s)
      PROVE  IInv'
  BY <1>8 DEF WaiterMark, TimerVars, Advance, SetStatus
<1>9. ASSUME NEW s \in Session, WaiterCloseHistory(s)
      PROVE  IInv'
  BY <1>9 DEF WaiterCloseHistory, TaskCloseHistory, StopHistory,
        CloseHistory, TimerVars, Advance
<1>. QED
  BY <1>1, <1>2, <1>3, <1>4, <1>5, <1>6, <1>7, <1>8, <1>9
  DEF TimerStep, WaiterStep

\* The death of the application.
LEMMA CrashInv == ASSUME IInv, Crash PROVE IInv'
  BY DEF Crash

\* IInv is inductive.
LEMMA NextInv == IInv /\ [Next]_vars => IInv'
<1> SUFFICES ASSUME IInv, [Next]_vars PROVE IInv'
  OBVIOUS
<1>1. CASE UserStep
  BY <1>1, UserInv
<1>2. CASE CommandStep
  BY <1>2, StartInv, RunInv, StopInv, LockInv, UnlockInv DEF CommandStep
<1>3. ASSUME NEW t \in Session,
             TimerStep(t) \/ TimerUnlist(t) \/ ChildExit(t) \/ WaiterStep(t)
      PROVE  IInv'
  BY <1>3, TaskInv
<1>4. CASE Crash
  BY <1>4, CrashInv
<1>5. CASE UNCHANGED vars
  BY <1>5 DEF vars
<1>. QED  BY <1>1, <1>2, <1>3, <1>4, <1>5 DEF Next

HIDE DEF IInv, TypeOK, CommandShape, FreshIds, FilesInv, HistoryInv, ListInv,
        EnvInv, FilesCovered, OpenHistoryExplained, ActiveRowsListed

\* IInv holds in every state of every behaviour.
THEOREM Invariance == Spec => []IInv
  BY InitInv, NextInv, PTL DEF Spec

\* Every variable keeps its type.
THEOREM TypeCorrect == Spec => []TypeOK
<1>1. IInv => TypeOK
  BY DEF IInv
<1>. QED  BY <1>1, Invariance, PTL

\* No plaintext file is ever left without somebody to remove it, but for the
\* losses that lostFile and the deletion of a profile account for.
THEOREM FilesAlwaysCovered == Spec => []FilesCovered
<1>1. IInv => FilesCovered
  BY DEF IInv, FilesInv
<1>. QED  BY <1>1, Invariance, PTL

\* The Active rows of an open vault can all be stopped.
THEOREM ActiveRowsAlwaysListed == Spec => []ActiveRowsListed
<1>1. IInv => ActiveRowsListed
  BY DEF IInv, ListInv
<1>. QED  BY <1>1, Invariance, PTL

\* History entries stay open only where a write was lost.
THEOREM OpenHistoryAlwaysExplained == Spec => []OpenHistoryExplained
<1>1. IInv => OpenHistoryExplained
  BY DEF IInv, HistoryInv
<1>. QED  BY <1>1, Invariance, PTL

\* Every name in the User environment has a session that answers for it, or
\* is accounted for as lost.
THEOREM EnvAlwaysAccounted == Spec => []EnvAccounted
<1>1. IInv => EnvAccounted
  BY DEF IInv, EnvInv, EnvAccounted
<1>. QED  BY <1>1, Invariance, PTL

\* The database is left alone while the vault is locked: the pool of every
\* timer and waiter that still runs is closed.
THEOREM LockedStaysQuiet == Spec => LockedIsQuiet
<1>1. IInv /\ [Next]_vars =>
        [(vault = "locked" /\ pc = "idle") => UNCHANGED dbVars]_vars
  <2> SUFFICES ASSUME IInv, Next, vault = "locked", pc = "idle"
               PROVE  UNCHANGED dbVars
    OBVIOUS
  <2>1. CASE UserStep
    BY <2>1 DEF UserStep, LockVault, UnlockVault, StopSession, StartSession,
         StartSessionFails, SpawnProcess, DeleteProfile, AddCredential,
         DeleteCredential, Idle
  <2>2. ~CommandStep
    BY DEF CommandStep, StartStep, RunStep, StopStep, LockStep, UnlockStep,
         InjectEnvironment, RecordSession, StartHistory, OpenHistory,
         FlagProfile, InsertSession, TouchProfile, RecordProcess,
         ProcessHistory, InsertProcess, StopUnset, StopKill, StopCleanup,
         StopMark, StopCloseHistory, StopUnflag, DrainSession, ClosePool,
         RecoverRead, RecoverRemove, RecoverCloseHistory, RecoverMark,
         PublishEngine
  <2>3. ASSUME NEW t \in Session,
               TimerStep(t) \/ TimerUnlist(t) \/ ChildExit(t) \/ WaiterStep(t)
        PROVE  UNCHANGED dbVars
    <3>1. t \notin attached
      BY DEF IInv, CommandShape
    <3>. QED
      BY <2>3, <3>1 DEF TimerStep, WaiterStep, TimerWake, TimerCleanup,
           TimerMark, TimerCloseHistory, TimerUnflag, TimerUnlist, ChildExit,
           WaiterMark, WaiterCloseHistory, TaskCloseHistory, TimerVars
  <2>4. CASE Crash
    BY <2>4 DEF Crash
  <2>. QED  BY <2>1, <2>2, <2>3, <2>4 DEF Next
<1>. QED  BY <1>1, Invariance, PTL DEF Spec, LockedIsQuiet
-----------------------------------------------------------------------------
(* Steps *)

\* A background task, or a child, leaves the command in flight alone.
LEMMA TaskLeavesAlone ==
  ASSUME IInv, NEW t \in Session,
         TimerStep(t) \/ TimerUnlist(t) \/ ChildExit(t) \/ WaiterStep(t)
  PROVE  UNCHANGED <<pc, cur, todo>> /\ (pc = "drain" => UNCHANGED active)
<1>1. CASE TimerUnlist(t)
  <2>1. UNCHANGED <<pc, cur, todo>>
    BY <1>1 DEF TimerUnlist, TimerVars
  <2>2. pc = "drain" => UNCHANGED active
    BY <1>1 DEF TimerUnlist, MapHeld
  <2>. QED BY <2>1, <2>2
<1>2. CASE TimerStep(t)
  BY <1>2 DEF TimerStep, TimerWake, TimerCleanup, TimerMark, TimerCloseHistory,
       TimerUnflag, TimerVars
<1>3. CASE ChildExit(t)
  BY <1>3 DEF ChildExit
<1>4. CASE WaiterStep(t)
  BY <1>4 DEF WaiterStep, WaiterMark, WaiterCloseHistory, TimerVars
<1>. QED  BY <1>1, <1>2, <1>3, <1>4

\* Each step of a command takes it forward.
LEMMA CommandForward ==
  ASSUME IInv, CommandStep
  PROVE  Forward
<1>. USE DEF Forward, AwaitsLeft
<1>1. CASE StartStep
  BY <1>1 DEF StartStep, InjectEnvironment, AbandonStart, RecordSession,
       StartHistory, OpenHistory, FlagProfile, InsertSession, TouchProfile
<1>2. CASE RunStep
  BY <1>2 DEF RunStep, RecordProcess, ProcessHistory, OpenHistory, InsertProcess
<1>3. CASE StopStep
  BY <1>3 DEF StopStep, StopUnset, StopKill, StopCleanup, StopMark,
       StopCloseHistory, StopUnflag
<1>4. CASE LockStep
  BY <1>4 DEF LockStep, DrainSession, ClosePool, Smaller
<1>5. CASE UnlockStep
  <2>1. pc = "rowHist" => cur \in todo
    BY DEF IInv, CommandShape
  <2>. QED
    BY <1>5, <2>1 DEF UnlockStep, RecoverRead, RecoverRemove, RecoverCloseHistory,
         RecoverMark, PublishEngine, Smaller
<1>. QED  BY <1>1, <1>2, <1>3, <1>4, <1>5 DEF CommandStep

\* Commands come nearer to their end with each of their steps, and nobody
\* else gives them more to do.
THEOREM CommandsAlwaysAdvance == Spec => CommandsAdvance
<1>1. IInv /\ [Next]_vars =>
        [pc # "idle" => IF CommandStep THEN Forward ELSE LeftAlone]_vars
  <2> SUFFICES ASSUME IInv, Next, pc # "idle"
               PROVE  IF CommandStep THEN Forward ELSE LeftAlone
    OBVIOUS
  <2>1. CASE CommandStep
    BY <2>1, CommandForward
  <2>2. CASE ~CommandStep
    <3>1. ~UserStep
      BY DEF UserStep, LockVault, UnlockVault, StopSession, StartSession,
           StartSessionFails, SpawnProcess, DeleteProfile, AddCredential,
           DeleteCredential, Idle
    <3>2. ASSUME NEW t \in Session,
                 TimerStep(t) \/ TimerUnlist(t) \/ ChildExit(t) \/ WaiterStep(t)
          PROVE  LeftAlone
      BY <3>2, TaskLeavesAlone DEF LeftAlone
    <3>3. ASSUME Crash PROVE LeftAlone
      BY <3>3 DEF Crash, LeftAlone
    <3>4. LeftAlone
      BY <2>2, <3>1, <3>2, <3>3 DEF Next
    <3>. QED BY <2>2, <3>4
  <2>. QED  BY <2>1, <2>2
<1>. QED  BY <1>1, Invariance, PTL DEF Spec, CommandsAdvance

\* No session that has ended becomes Active again, and no closed history
\* entry is opened again.
THEOREM EndedAlwaysStaysEnded == Spec => EndedStaysEnded
<1> DEFINE Stays == \A s \in Session :
              /\ row[s] \in {"Expired", "Terminated"} => row'[s] # "Active"
              /\ hist[s] = "stopped" => hist'[s] # "open"
<1>1. IInv /\ [Next]_vars => [Stays]_vars
  <2> SUFFICES ASSUME IInv, Next PROVE Stays
    OBVIOUS
  <2>0. /\ row \in [Session -> {"none", "Active", "Expired", "Terminated"}]
        /\ hist \in [Session -> {"none", "open", "stopped"}]
        /\ pc \in {"record", "runRecord"} => row[cur] = "none"
        /\ pc \in {"histStart", "runHist"} => hist[cur] = "none"
    BY DEF IInv, TypeOK, FreshIds
  <2>1. CASE UserStep
    BY <2>0, <2>1 DEF UserStep, LockVault, UnlockVault, StopSession, StartSession,
         StartSessionFails, SpawnProcess, DeleteProfile, AddCredential,
         DeleteCredential
  <2>2. CASE StartStep \/ RunStep
    BY <2>0, <2>2 DEF StartStep, RunStep, InjectEnvironment, RecordSession,
         StartHistory, OpenHistory, FlagProfile, InsertSession, TouchProfile,
         RecordProcess, ProcessHistory, InsertProcess
  <2>3. CASE StopStep
    BY <2>0, <2>3 DEF StopStep, StopUnset, StopKill, StopCleanup, StopMark,
         StopCloseHistory, StopUnflag, SetStatus, StopHistory, CloseHistory
  <2>4. CASE LockStep \/ UnlockStep
    BY <2>0, <2>4 DEF LockStep, UnlockStep, DrainSession, ClosePool, RecoverRead,
         RecoverRemove, RecoverCloseHistory, RecoverMark, PublishEngine,
         StopHistory, CloseHistory
  <2>5. ASSUME NEW t \in Session,
               TimerStep(t) \/ TimerUnlist(t) \/ ChildExit(t) \/ WaiterStep(t)
        PROVE  Stays
    BY <2>0, <2>5 DEF TimerStep, WaiterStep, TimerWake, TimerCleanup, TimerMark,
         TimerCloseHistory, TimerUnflag, TimerUnlist, ChildExit, WaiterMark,
         WaiterCloseHistory, TaskCloseHistory, StopHistory, CloseHistory,
         SetStatus, TimerVars
  <2>6. CASE Crash
    BY <2>6 DEF Crash
  <2>. QED  BY <2>1, <2>2, <2>3, <2>4, <2>5, <2>6 DEF Next, CommandStep
<1>. QED  BY <1>1, Invariance, PTL DEF Spec, EndedStaysEnded

\* The file of a session whose timer is past its cleanup is gone.
THEOREM ExpiredFileAlwaysGone == Spec => []ExpiredFileGone
<1>1. IInv => ExpiredFileGone
  BY DEF IInv, FilesInv, FileRemoved, ExpiredFileGone
<1>. QED  BY <1>1, Invariance, PTL
=============================================================================
