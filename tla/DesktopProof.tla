---------------------------- MODULE DesktopProof ----------------------------
(***************************************************************************)
(* Proofs about Desktop for any sessions and any bounds on the commands in *)
(* flight: IInv is inductive, so that the window agrees with the slot, has *)
(* forgotten the password, and no unlock takes a listed session.           *)
(***************************************************************************)
EXTENDS Desktop, Integers, TLAPS

\* The stages of a command, one by one.
LEMMA Stages ==
  /\ "unlockSent" \in Stage /\ "unlockOpen" \in Stage /\ "unlockOutdated" \in Stage
  /\ "unlockOk" \in Stage /\ "unlockErr" \in Stage /\ "lockSent" \in Stage
  /\ "lockOk" \in Stage /\ "wipeSent" \in Stage /\ "wipeOk" \in Stage
  /\ "changeSent" \in Stage /\ "changeOk" \in Stage /\ "changeErr" \in Stage
  /\ "listsSent" \in Stage /\ "startSent" \in Stage /\ "stopSent" \in Stage
  /\ "sessionDone" \in Stage
  BY DEF Stage, Unlocks, Locks, Changes, Others

\* A command is sent, goes on to its next stage, or has been answered.
LEMMA Sent ==
  ASSUME calls \in [Stage -> Nat], NEW c \in Stage, Send(c)
  PROVE  /\ calls' \in [Stage -> Nat] /\ calls'[c] = calls[c] + 1
         /\ \A e \in Stage \ {c} : calls'[e] = calls[e]
  BY DEF Send

LEMMA Gone ==
  ASSUME calls \in [Stage -> Nat], NEW c \in Stage, NEW d \in Stage, c # d, Goes(c, d)
  PROVE  /\ calls' \in [Stage -> Nat] /\ calls[c] > 0
         /\ calls'[c] = calls[c] - 1 /\ calls'[d] = calls[d] + 1
         /\ \A e \in Stage \ {c, d} : calls'[e] = calls[e]
<1>1. calls[c] \in Nat /\ calls[c] > 0 /\ calls[c] - 1 \in Nat /\ calls[d] + 1 \in Nat
  BY DEF Goes
<1>. QED
  BY <1>1 DEF Goes

LEMMA Ended ==
  ASSUME calls \in [Stage -> Nat], NEW c \in Stage, Ends(c)
  PROVE  /\ calls' \in [Stage -> Nat] /\ calls[c] > 0 /\ calls'[c] = calls[c] - 1
         /\ \A e \in Stage \ {c} : calls'[e] = calls[e]
<1>1. calls[c] \in Nat /\ calls[c] > 0 /\ calls[c] - 1 \in Nat
  BY DEF Ends
<1>. QED
  BY <1>1 DEF Ends

LEMMA CallsAreNat ==
  ASSUME calls \in [Stage -> Nat]
  PROVE  /\ calls["unlockSent"] \in Nat /\ calls["unlockOpen"] \in Nat
         /\ calls["unlockOutdated"] \in Nat /\ calls["unlockOk"] \in Nat
         /\ calls["unlockErr"] \in Nat /\ calls["listsSent"] \in Nat
         /\ calls["lockSent"] \in Nat /\ calls["lockOk"] \in Nat
         /\ calls["wipeSent"] \in Nat /\ calls["wipeOk"] \in Nat
         /\ calls["changeSent"] \in Nat /\ calls["changeOk"] \in Nat
         /\ calls["changeErr"] \in Nat
  BY Stages

\* To be in flight is to be counted.
LEMMA Counted ==
  ASSUME calls \in [Stage -> Nat]
  PROVE  /\ InFlight(Unlocks) <=> UnlocksInFlight > 0
         /\ InFlight(Locks) <=> LocksInFlight > 0
         /\ InFlight(Unlocks \union Locks) <=> (UnlocksInFlight > 0 \/ LocksInFlight > 0)
         /\ UnlocksInFlight \in Nat /\ LocksInFlight \in Nat
<1>1. InFlight(Unlocks) <=>
        \/ calls["unlockSent"] > 0 \/ calls["unlockOpen"] > 0 \/ calls["unlockOutdated"] > 0
        \/ calls["unlockOk"] > 0 \/ calls["unlockErr"] > 0
  BY DEF InFlight, Unlocks
<1>2. InFlight(Locks) <=>
        \/ calls["lockSent"] > 0 \/ calls["lockOk"] > 0
        \/ calls["wipeSent"] > 0 \/ calls["wipeOk"] > 0
  BY DEF InFlight, Locks
<1>3. InFlight(Unlocks \union Locks) <=> InFlight(Unlocks) \/ InFlight(Locks)
  BY DEF InFlight
<1>4. /\ UnlocksInFlight \in Nat
      /\ UnlocksInFlight > 0 <=>
           \/ calls["unlockSent"] > 0 \/ calls["unlockOpen"] > 0 \/ calls["unlockOutdated"] > 0
           \/ calls["unlockOk"] > 0 \/ calls["unlockErr"] > 0
  BY CallsAreNat DEF UnlocksInFlight
<1>5. /\ LocksInFlight \in Nat
      /\ LocksInFlight > 0 <=>
           \/ calls["lockSent"] > 0 \/ calls["lockOk"] > 0
           \/ calls["wipeSent"] > 0 \/ calls["wipeOk"] > 0
  BY CallsAreNat DEF LocksInFlight
<1>6. InFlight(Unlocks) <=> UnlocksInFlight > 0
  BY <1>1, <1>4
<1>7. InFlight(Locks) <=> LocksInFlight > 0
  BY <1>2, <1>5
<1>. QED
  BY <1>3, <1>4, <1>5, <1>6, <1>7

\* How many more there are after a step: unlocks, engines that wait for the
\* slot, unlocks to be answered, locks, locks to be answered, and changes.
Tally(u, e, a, l, d, k) ==
  /\ calls' \in [Stage -> Nat]
  /\ UnlocksInFlight' = UnlocksInFlight + u
  /\ EnginesOpen' = EnginesOpen + e
  /\ calls'["unlockOk"] = calls["unlockOk"] + a
  /\ LocksInFlight' = LocksInFlight + l
  /\ LocksDone' = LocksDone + d
  /\ ChangesInFlight' = ChangesInFlight + k

\* These are numbers, and some are part of others.
LEMMA TallyNat ==
  ASSUME calls \in [Stage -> Nat]
  PROVE  /\ UnlocksInFlight \in Nat /\ EnginesOpen \in Nat /\ calls["unlockOk"] \in Nat
         /\ LocksInFlight \in Nat /\ LocksDone \in Nat /\ ChangesInFlight \in Nat
         /\ EnginesOpen + calls["unlockOk"] <= UnlocksInFlight
         /\ calls["unlockErr"] > 0 \/ calls["unlockSent"] > 0 =>
              EnginesOpen + calls["unlockOk"] < UnlocksInFlight
         /\ LocksDone <= LocksInFlight
  BY CallsAreNat DEF UnlocksInFlight, EnginesOpen, LocksInFlight, LocksDone, ChangesInFlight

\* The invariant holds when the window opens.
LEMMA InitInv == Init => IInv
<1> SUFFICES ASSUME Init PROVE IInv
  OBVIOUS
<1>1. calls \in [Stage -> Nat]
  BY DEF Init
<1>2. /\ UnlocksInFlight = 0 /\ LocksInFlight = 0 /\ ChangesInFlight = 0
      /\ LocksDone = 0 /\ EnginesOpen = 0
  BY Stages DEF Init, UnlocksInFlight, LocksInFlight, ChangesInFlight, LocksDone, EnginesOpen
<1>3. TypeOK
  <2>1. relock \in 0 .. MaxChanges /\ listed \subseteq Sessions
    BY DesktopAssumption DEF Init
  <2>2. /\ locked \in BOOLEAN /\ loading \in BOOLEAN /\ password \in BOOLEAN
        /\ idle \in BOOLEAN
    BY DEF Init
  <2>3. open \in BOOLEAN /\ stale \in BOOLEAN /\ torn \in BOOLEAN /\ crossed \in BOOLEAN
    BY DEF Init
  <2>. QED
    BY <1>1, <2>1, <2>2, <2>3 DEF TypeOK
<1>4. ChangesInFlight + relock <= MaxChanges
  BY <1>2, DesktopAssumption DEF Init
<1>5. Exclusive
  BY <1>2 DEF Exclusive
<1>6. Agreement
  BY <1>2 DEF Init, Agreement
<1>7. ListedInSlot
  BY DEF Init, ListedInSlot
<1>8. PasswordForgotten
  BY DEF Init, PasswordForgotten
<1>. QED
  BY <1>3, <1>4, <1>5, <1>6, <1>7, <1>8
     DEF IInv

-----------------------------------------------------------------------------
(* Every step preserves the invariant.                                     *)

LEMMA TallyNext ==
  ASSUME calls' \in [Stage -> Nat]
  PROVE  /\ UnlocksInFlight' \in Nat /\ EnginesOpen' \in Nat /\ calls'["unlockOk"] \in Nat
         /\ LocksInFlight' \in Nat /\ LocksDone' \in Nat /\ ChangesInFlight' \in Nat
         /\ EnginesOpen' + calls'["unlockOk"] <= UnlocksInFlight'
         /\ calls'["unlockErr"] > 0 \/ calls'["unlockSent"] > 0 =>
              EnginesOpen' + calls'["unlockOk"] < UnlocksInFlight'
         /\ LocksDone' <= LocksInFlight'
<1>1. /\ calls'["unlockSent"] \in Nat /\ calls'["unlockOpen"] \in Nat
      /\ calls'["unlockOutdated"] \in Nat /\ calls'["unlockOk"] \in Nat
      /\ calls'["unlockErr"] \in Nat
      /\ calls'["lockSent"] \in Nat /\ calls'["lockOk"] \in Nat
      /\ calls'["wipeSent"] \in Nat /\ calls'["wipeOk"] \in Nat
      /\ calls'["changeSent"] \in Nat /\ calls'["changeOk"] \in Nat
      /\ calls'["changeErr"] \in Nat
  BY Stages
<1>. QED
  BY <1>1 DEF UnlocksInFlight, EnginesOpen, LocksInFlight, LocksDone, ChangesInFlight

LEMMA NextInv == IInv /\ [Next]_vars => IInv'
<1> SUFFICES ASSUME IInv, [Next]_vars PROVE IInv'
  OBVIOUS
<1> USE DEF Meets, Covered, Uncovered, slot, front
<1>p. /\ TypeOK /\ ChangesInFlight + relock <= MaxChanges
      /\ Exclusive /\ Agreement /\ ListedInSlot /\ PasswordForgotten
  BY DEF IInv
<1>t. /\ calls \in [Stage -> Nat] /\ relock \in Nat /\ relock <= MaxChanges
      /\ MaxChanges \in Nat
  BY <1>p, DesktopAssumption DEF TypeOK
<1>n. /\ UnlocksInFlight \in Nat /\ EnginesOpen \in Nat /\ calls["unlockOk"] \in Nat
      /\ LocksInFlight \in Nat /\ LocksDone \in Nat /\ ChangesInFlight \in Nat
      /\ EnginesOpen + calls["unlockOk"] <= UnlocksInFlight
      /\ calls["unlockErr"] > 0 \/ calls["unlockSent"] > 0 =>
           EnginesOpen + calls["unlockOk"] < UnlocksInFlight
      /\ LocksDone <= LocksInFlight
  BY <1>t, TallyNat
<1>i. /\ InFlight(Unlocks) <=> UnlocksInFlight > 0
      /\ InFlight(Unlocks \union Locks) <=> (UnlocksInFlight > 0 \/ LocksInFlight > 0)
  BY <1>t, Counted
<1>u. ASSUME UNCHANGED calls PROVE Tally(0, 0, 0, 0, 0, 0)
  BY <1>u, <1>t, <1>n DEF Tally, UnlocksInFlight, EnginesOpen, LocksInFlight, LocksDone, ChangesInFlight
<1>1. CASE TypePassword
  <2>1. Tally(0, 0, 0, 0, 0, 0)
    BY <1>u, <1>1 DEF TypePassword
  <2>2. TypeOK'
    BY <1>p, <1>1, <2>1 DEF TypePassword, Tally, TypeOK
  <2>3. (ChangesInFlight + relock <= MaxChanges)'
    BY <1>p, <1>t, <1>n, <1>1, <2>1 DEF TypePassword, Tally
  <2>5. Exclusive' /\ Agreement'
    BY <1>p, <1>n, <1>1, <2>1 DEF TypePassword, Tally, Exclusive, Agreement
  <2>6. ListedInSlot' /\ PasswordForgotten'
    BY <1>p, <1>n, <1>1, <2>1 DEF TypePassword, Tally, Exclusive, Agreement, ListedInSlot, PasswordForgotten
  <2>. QED
    BY <2>2, <2>3, <2>5, <2>6 DEF IInv
<1>2. CASE SubmitUnlock \/ UnlockFromKeychain
  <2>1. Tally(1, 0, 0, 0, 0, 0)
    BY <1>t, CallsAreNat, <1>2, Stages, Sent
       DEF SubmitUnlock, UnlockFromKeychain, SendUnlock, Tally, UnlocksInFlight, EnginesOpen, LocksInFlight, LocksDone, ChangesInFlight
  <2>2. TypeOK'
    BY <1>p, <1>2, <2>1 DEF SubmitUnlock, UnlockFromKeychain, SendUnlock, Tally, TypeOK
  <2>3. (ChangesInFlight + relock <= MaxChanges)'
    BY <1>p, <1>t, <1>n, <1>2, <2>1 DEF SubmitUnlock, UnlockFromKeychain, SendUnlock, Tally
  <2>4. ~crossed' => ~crossed /\ ~InFlight(Unlocks \union Locks)
    BY <1>2 DEF SubmitUnlock, UnlockFromKeychain, SendUnlock
  <2>5. ~crossed' => UnlocksInFlight = 0 /\ LocksInFlight = 0 /\ ~(LocksDone > 0)
    BY <1>p, <1>t, <1>n, <1>i, <2>1, <2>4, TallyNext DEF Tally, Exclusive
  <2>6. ~crossed' => UnlocksInFlight' > 0 /\ UnlocksInFlight' <= 1 /\ LocksInFlight' = 0 /\ ~(calls'["unlockOk"] > 0) /\ ~(EnginesOpen' > 0) /\ ~(UnlocksInFlight' = 0)
    BY <1>p, <1>t, <1>n, <2>1, <2>4, <2>5, TallyNext DEF Tally, Exclusive
  <2>7. ~crossed' => locked' /\ ~open'
    BY <1>p, <1>2, <2>4, <2>5 DEF SubmitUnlock, UnlockFromKeychain, SendUnlock, Agreement
  <2>8. Exclusive' /\ Agreement'
    BY <1>p, <1>2, <2>4, <2>5, <2>6, <2>7 DEF SubmitUnlock, UnlockFromKeychain, SendUnlock, Exclusive, Agreement
  <2>9. ListedInSlot' /\ PasswordForgotten'
    BY <1>p, <1>2, <2>4, <2>5, <2>6, <2>7 DEF SubmitUnlock, UnlockFromKeychain, SendUnlock, ListedInSlot, PasswordForgotten
  <2>. QED
    BY <2>2, <2>3, <2>8, <2>9 DEF IInv
<1>3. CASE LockNow
  <2>1. Tally(0, 0, 0, 1, 0, 0)
    BY <1>t, CallsAreNat, <1>3, Stages, Sent
       DEF LockNow, SendLock, Tally, UnlocksInFlight, EnginesOpen, LocksInFlight, LocksDone, ChangesInFlight
  <2>2. TypeOK'
    BY <1>p, <1>3, <2>1 DEF LockNow, SendLock, Tally, TypeOK
  <2>3. (ChangesInFlight + relock <= MaxChanges)'
    BY <1>p, <1>t, <1>n, <1>3, <2>1 DEF LockNow, SendLock, Tally
  <2>4. ~crossed' => ~crossed /\ ~InFlight(Unlocks)
    BY <1>3 DEF LockNow, SendLock
  <2>5. ~crossed' => UnlocksInFlight = 0
    BY <1>p, <1>t, <1>n, <1>i, <2>1, <2>4, TallyNext DEF Tally, Exclusive
  <2>6. ~crossed' => UnlocksInFlight' = 0 /\ UnlocksInFlight' <= 1 /\ ~(UnlocksInFlight' > 0) /\ ~(EnginesOpen' > 0) /\ LocksDone' = LocksDone
    BY <1>p, <1>t, <1>n, <2>1, <2>4, <2>5, TallyNext DEF Tally, Exclusive
  <2>7. ~crossed' => IF LocksDone > 0 THEN ~open ELSE locked <=> ~open
    BY <1>p, <1>3, <2>4, <2>5 DEF LockNow, SendLock, Agreement
  <2>8. Exclusive' /\ Agreement'
    BY <1>p, <1>3, <2>4, <2>5, <2>6, <2>7 DEF LockNow, SendLock, Exclusive, Agreement
  <2>9. ListedInSlot' /\ PasswordForgotten'
    BY <1>p, <1>3, <2>4, <2>5, <2>6, <2>7 DEF LockNow, SendLock, ListedInSlot, PasswordForgotten
  <2>. QED
    BY <2>2, <2>3, <2>8, <2>9 DEF IInv
<1>4. CASE SubmitWipe
  <2>1. Tally(0, 0, 0, 1, 0, 0)
    BY <1>t, CallsAreNat, <1>4, Stages, Sent
       DEF SubmitWipe, Tally, UnlocksInFlight, EnginesOpen, LocksInFlight, LocksDone, ChangesInFlight
  <2>2. TypeOK'
    BY <1>p, <1>4, <2>1 DEF SubmitWipe, Tally, TypeOK
  <2>3. (ChangesInFlight + relock <= MaxChanges)'
    BY <1>p, <1>t, <1>n, <1>4, <2>1 DEF SubmitWipe, Tally
  <2>4. ~crossed' => ~crossed /\ ~InFlight(Unlocks)
    BY <1>4 DEF SubmitWipe
  <2>5. ~crossed' => UnlocksInFlight = 0
    BY <1>p, <1>t, <1>n, <1>i, <2>1, <2>4, TallyNext DEF Tally, Exclusive
  <2>6. ~crossed' => UnlocksInFlight' = 0 /\ UnlocksInFlight' <= 1 /\ ~(UnlocksInFlight' > 0) /\ ~(EnginesOpen' > 0) /\ LocksDone' = LocksDone
    BY <1>p, <1>t, <1>n, <2>1, <2>4, <2>5, TallyNext DEF Tally, Exclusive
  <2>7. ~crossed' => IF LocksDone > 0 THEN ~open ELSE locked <=> ~open
    BY <1>p, <1>4, <2>4, <2>5 DEF SubmitWipe, Agreement
  <2>8. Exclusive' /\ Agreement'
    BY <1>p, <1>4, <2>4, <2>5, <2>6, <2>7 DEF SubmitWipe, Exclusive, Agreement
  <2>9. ListedInSlot' /\ PasswordForgotten'
    BY <1>p, <1>4, <2>4, <2>5, <2>6, <2>7 DEF SubmitWipe, ListedInSlot, PasswordForgotten
  <2>. QED
    BY <2>2, <2>3, <2>8, <2>9 DEF IInv
<1>5. CASE SubmitChange
  <2>1. Tally(0, 0, 0, 0, 0, 1)
    BY <1>t, CallsAreNat, <1>5, Stages, Sent
       DEF SubmitChange, Tally, UnlocksInFlight, EnginesOpen, LocksInFlight, LocksDone, ChangesInFlight
  <2>2. TypeOK'
    BY <1>p, <1>5, <2>1 DEF SubmitChange, Tally, TypeOK
  <2>3. (ChangesInFlight + relock <= MaxChanges)'
    BY <1>p, <1>t, <1>n, <1>5, <2>1 DEF SubmitChange, Tally
  <2>5. Exclusive' /\ Agreement'
    BY <1>p, <1>n, <1>5, <2>1 DEF SubmitChange, Tally, Exclusive, Agreement
  <2>6. ListedInSlot' /\ PasswordForgotten'
    BY <1>p, <1>n, <1>5, <2>1 DEF SubmitChange, Tally, Exclusive, Agreement, ListedInSlot, PasswordForgotten
  <2>. QED
    BY <2>2, <2>3, <2>5, <2>6 DEF IInv
<1>6. CASE SubmitStart \/ SubmitStop
  <2>1. Tally(0, 0, 0, 0, 0, 0)
    BY <1>t, CallsAreNat, <1>6, Stages, Sent
       DEF SubmitStart, SubmitStop, Tally, UnlocksInFlight, EnginesOpen, LocksInFlight, LocksDone, ChangesInFlight
  <2>2. TypeOK'
    BY <1>p, <1>6, <2>1 DEF SubmitStart, SubmitStop, Tally, TypeOK
  <2>3. (ChangesInFlight + relock <= MaxChanges)'
    BY <1>p, <1>t, <1>n, <1>6, <2>1 DEF SubmitStart, SubmitStop, Tally
  <2>5. Exclusive' /\ Agreement'
    BY <1>p, <1>n, <1>6, <2>1 DEF SubmitStart, SubmitStop, Tally, Exclusive, Agreement
  <2>6. ListedInSlot' /\ PasswordForgotten'
    BY <1>p, <1>n, <1>6, <2>1 DEF SubmitStart, SubmitStop, Tally, Exclusive, Agreement, ListedInSlot, PasswordForgotten
  <2>. QED
    BY <2>2, <2>3, <2>5, <2>6 DEF IInv
<1>7. CASE UserReturns \/ UserStaysAway
  <2>1. Tally(0, 0, 0, 0, 0, 0)
    BY <1>u, <1>7 DEF UserReturns, UserStaysAway
  <2>2. TypeOK'
    BY <1>p, <1>7, <2>1 DEF UserReturns, UserStaysAway, Tally, TypeOK
  <2>3. (ChangesInFlight + relock <= MaxChanges)'
    BY <1>p, <1>t, <1>n, <1>7, <2>1 DEF UserReturns, UserStaysAway, Tally
  <2>5. Exclusive' /\ Agreement'
    BY <1>p, <1>n, <1>7, <2>1 DEF UserReturns, UserStaysAway, Tally, Exclusive, Agreement
  <2>6. ListedInSlot' /\ PasswordForgotten'
    BY <1>p, <1>n, <1>7, <2>1 DEF UserReturns, UserStaysAway, Tally, Exclusive, Agreement, ListedInSlot, PasswordForgotten
  <2>. QED
    BY <2>2, <2>3, <2>5, <2>6 DEF IInv
<1>8. CASE OpenEngine
  <2>1. Tally(0, 1, 0, 0, 0, 0)
    BY <1>t, CallsAreNat, <1>8, Stages, Gone
       DEF OpenEngine, Tally, UnlocksInFlight, EnginesOpen, LocksInFlight, LocksDone, ChangesInFlight
  <2>2. TypeOK'
    BY <1>p, <1>8, <2>1 DEF OpenEngine, Tally, TypeOK
  <2>3. (ChangesInFlight + relock <= MaxChanges)'
    BY <1>p, <1>t, <1>n, <1>8, <2>1 DEF OpenEngine, Tally
  <2>4. ~crossed' => ~crossed
    BY <1>8 DEF OpenEngine
  <2>a. calls["unlockSent"] > 0
    BY <1>8 DEF OpenEngine, Goes, Ends
  <2>5. ~crossed' => UnlocksInFlight > 0 /\ UnlocksInFlight <= 1 /\ ~(calls["unlockOk"] > 0)
    BY <1>p, <1>t, <1>n, <1>i, <2>1, <2>4, <2>a, TallyNext DEF Tally, Exclusive
  <2>6. ~crossed' => UnlocksInFlight' = UnlocksInFlight /\ LocksInFlight' = LocksInFlight /\ LocksDone' = LocksDone /\ calls'["unlockOk"] = calls["unlockOk"]
    BY <1>p, <1>t, <1>n, <2>1, <2>4, <2>5, TallyNext DEF Tally, Exclusive
  <2>7. ~crossed' => locked' /\ ~open'
    BY <1>p, <1>8, <2>4, <2>5 DEF OpenEngine, Agreement
  <2>8. Exclusive' /\ Agreement'
    BY <1>p, <1>8, <2>4, <2>5, <2>6, <2>7 DEF OpenEngine, Exclusive, Agreement
  <2>9. ListedInSlot' /\ PasswordForgotten'
    BY <1>p, <1>8, <2>4, <2>5, <2>6, <2>7 DEF OpenEngine, ListedInSlot, PasswordForgotten
  <2>. QED
    BY <2>2, <2>3, <2>8, <2>9 DEF IInv
<1>9. CASE OpenFails
  <2>1. Tally(0, 0, 0, 0, 0, 0)
    BY <1>t, CallsAreNat, <1>9, Stages, Gone
       DEF OpenFails, Tally, UnlocksInFlight, EnginesOpen, LocksInFlight, LocksDone, ChangesInFlight
  <2>2. TypeOK'
    BY <1>p, <1>9, <2>1 DEF OpenFails, Tally, TypeOK
  <2>3. (ChangesInFlight + relock <= MaxChanges)'
    BY <1>p, <1>t, <1>n, <1>9, <2>1 DEF OpenFails, Tally
  <2>5. Exclusive' /\ Agreement'
    BY <1>p, <1>n, <1>9, <2>1 DEF OpenFails, Tally, Exclusive, Agreement
  <2>6. ListedInSlot' /\ PasswordForgotten'
    BY <1>p, <1>n, <1>9, <2>1 DEF OpenFails, Tally, Exclusive, Agreement, ListedInSlot, PasswordForgotten
  <2>. QED
    BY <2>2, <2>3, <2>5, <2>6 DEF IInv
<1>10. CASE Publish
  <2>1. Tally(0, -1, 1, 0, 0, 0)
    BY <1>t, CallsAreNat, <1>10, Stages, Gone
       DEF Publish, Tally, UnlocksInFlight, EnginesOpen, LocksInFlight, LocksDone, ChangesInFlight
  <2>2. TypeOK'
    BY <1>p, <1>10, <2>1 DEF Publish, Tally, TypeOK
  <2>3. (ChangesInFlight + relock <= MaxChanges)'
    BY <1>p, <1>t, <1>n, <1>10, <2>1 DEF Publish, Tally
  <2>4. ~crossed' => ~crossed
    BY <1>10 DEF Publish
  <2>5. ~crossed' => UnlocksInFlight > 0 /\ UnlocksInFlight <= 1 /\ EnginesOpen > 0
    BY <1>p, <1>t, <1>n, <1>i, <2>1, <2>4, TallyNext DEF Tally, Exclusive
  <2>6. ~crossed' => UnlocksInFlight' > 0 /\ UnlocksInFlight' <= 1 /\ LocksInFlight' = LocksInFlight /\ calls'["unlockOk"] > 0 /\ ~(UnlocksInFlight' = 0)
    BY <1>p, <1>t, <1>n, <2>1, <2>4, <2>5, TallyNext DEF Tally, Exclusive
  <2>7. ~crossed' => locked' /\ open'
    BY <1>p, <1>10, <2>4, <2>5 DEF Publish, Agreement, ListedInSlot
  <2>8. Exclusive' /\ Agreement'
    BY <1>p, <1>10, <2>4, <2>5, <2>6, <2>7 DEF Publish, Exclusive, Agreement
  <2>9. ListedInSlot' /\ PasswordForgotten'
    BY <1>p, <1>10, <2>4, <2>5, <2>6, <2>7 DEF Publish, ListedInSlot, PasswordForgotten
  <2>. QED
    BY <2>2, <2>3, <2>8, <2>9 DEF IInv
<1>11. CASE LockVault \/ WipeVault
  <2>1. Tally(0, 0, 0, 0, 1, 0)
    BY <1>t, CallsAreNat, <1>11, Stages, Gone
       DEF LockVault, WipeVault, SlotEmptied, Tally, UnlocksInFlight, EnginesOpen, LocksInFlight, LocksDone, ChangesInFlight
  <2>2. TypeOK'
    BY <1>p, <1>11, <2>1 DEF LockVault, WipeVault, SlotEmptied, Tally, TypeOK
  <2>3. (ChangesInFlight + relock <= MaxChanges)'
    BY <1>p, <1>t, <1>n, <1>11, <2>1 DEF LockVault, WipeVault, SlotEmptied, Tally
  <2>4. ~crossed' => ~crossed
    BY <1>11 DEF LockVault, WipeVault, SlotEmptied
  <2>5. ~crossed' => UnlocksInFlight = 0
    BY <1>p, <1>t, <1>n, <1>i, <2>1, <2>4, TallyNext DEF Tally, Exclusive
  <2>6. ~crossed' => UnlocksInFlight' = 0 /\ UnlocksInFlight' <= 1 /\ ~(UnlocksInFlight' > 0) /\ ~(EnginesOpen' > 0) /\ LocksDone' > 0
    BY <1>p, <1>t, <1>n, <2>1, <2>4, <2>5, TallyNext DEF Tally, Exclusive
  <2>7. ~crossed' => ~open'
    BY <1>p, <1>11, <2>4, <2>5 DEF LockVault, WipeVault, SlotEmptied, Agreement
  <2>8. Exclusive' /\ Agreement'
    BY <1>p, <1>11, <2>4, <2>5, <2>6, <2>7 DEF LockVault, WipeVault, SlotEmptied, Exclusive, Agreement
  <2>9. ListedInSlot' /\ PasswordForgotten'
    BY <1>p, <1>11, <2>4, <2>5, <2>6, <2>7 DEF LockVault, WipeVault, SlotEmptied, ListedInSlot, PasswordForgotten
  <2>. QED
    BY <2>2, <2>3, <2>8, <2>9 DEF IInv
<1>12. CASE ChangePassword
  <2>1. Tally(0, 0, 0, 0, 0, 0)
    BY <1>t, CallsAreNat, <1>12, Stages
       DEF ChangePassword, Rekeyed, Tally, UnlocksInFlight, EnginesOpen, LocksInFlight, LocksDone, ChangesInFlight
  <2>2. TypeOK'
    BY <1>p, <1>12, <2>1 DEF ChangePassword, Rekeyed, Tally, TypeOK
  <2>3. (ChangesInFlight + relock <= MaxChanges)'
    BY <1>p, <1>t, <1>n, <1>12, <2>1 DEF ChangePassword, Rekeyed, Tally
  <2>5. Exclusive' /\ Agreement'
    BY <1>p, <1>n, <1>12, <2>1 DEF ChangePassword, Rekeyed, Tally, Exclusive, Agreement
  <2>6. ListedInSlot' /\ PasswordForgotten'
    BY <1>p, <1>n, <1>12, <2>1 DEF ChangePassword, Rekeyed, Tally, Exclusive, Agreement, ListedInSlot, PasswordForgotten
  <2>. QED
    BY <2>2, <2>3, <2>5, <2>6 DEF IInv
<1>13. CASE ChangeFails
  <2>1. Tally(0, 0, 0, 0, 0, 0)
    <3>1. CASE Goes("changeSent", "changeErr")
      BY <1>t, CallsAreNat, <3>1, Stages, Gone
         DEF Tally, UnlocksInFlight, EnginesOpen, LocksInFlight, LocksDone, ChangesInFlight
    <3>2. CASE Rekeyed("changeErr")
      BY <1>t, CallsAreNat, <3>2, Stages
         DEF Rekeyed, Tally, UnlocksInFlight, EnginesOpen, LocksInFlight, LocksDone, ChangesInFlight
    <3>. QED
      BY <1>13, <3>1, <3>2 DEF ChangeFails
  <2>2. TypeOK'
    BY <1>p, <1>13, <2>1 DEF ChangeFails, Rekeyed, Tally, TypeOK
  <2>3. (ChangesInFlight + relock <= MaxChanges)'
    BY <1>p, <1>t, <1>n, <1>13, <2>1 DEF ChangeFails, Rekeyed, Tally
  <2>5. Exclusive' /\ Agreement'
    BY <1>p, <1>n, <1>13, <2>1 DEF ChangeFails, Rekeyed, Tally, Exclusive, Agreement
  <2>6. ListedInSlot' /\ PasswordForgotten'
    BY <1>p, <1>n, <1>13, <2>1 DEF ChangeFails, Rekeyed, Tally, Exclusive, Agreement, ListedInSlot, PasswordForgotten
  <2>. QED
    BY <2>2, <2>3, <2>5, <2>6 DEF IInv
<1>14. CASE StartSession \/ StopSession
  <2>1. Tally(0, 0, 0, 0, 0, 0)
    BY <1>t, CallsAreNat, <1>14, Stages, Gone
       DEF StartSession, StopSession, Tally, UnlocksInFlight, EnginesOpen, LocksInFlight, LocksDone, ChangesInFlight
  <2>2. TypeOK'
    BY <1>p, <1>14, <2>1 DEF StartSession, StopSession, Tally, TypeOK
  <2>3. (ChangesInFlight + relock <= MaxChanges)'
    BY <1>p, <1>t, <1>n, <1>14, <2>1 DEF StartSession, StopSession, Tally
  <2>5. Exclusive' /\ Agreement'
    BY <1>p, <1>n, <1>14, <2>1 DEF StartSession, StopSession, Tally, Exclusive, Agreement
  <2>6. ListedInSlot' /\ PasswordForgotten'
    BY <1>p, <1>n, <1>14, <2>1 DEF StartSession, StopSession, Tally, Exclusive, Agreement, ListedInSlot, PasswordForgotten
  <2>. QED
    BY <2>2, <2>3, <2>5, <2>6 DEF IInv
<1>15. CASE UnlockReplied
  <2>1. Tally(-1, 0, -1, 0, 0, 0)
    BY <1>t, CallsAreNat, <1>15, Stages, Gone
       DEF UnlockReplied, Tally, UnlocksInFlight, EnginesOpen, LocksInFlight, LocksDone, ChangesInFlight
  <2>2. TypeOK'
    BY <1>p, <1>15, <2>1 DEF UnlockReplied, Tally, TypeOK
  <2>3. (ChangesInFlight + relock <= MaxChanges)'
    BY <1>p, <1>t, <1>n, <1>15, <2>1 DEF UnlockReplied, Tally
  <2>4. ~crossed' => ~crossed
    BY <1>15 DEF UnlockReplied
  <2>5. ~crossed' => UnlocksInFlight > 0 /\ calls["unlockOk"] > 0
    BY <1>p, <1>t, <1>n, <1>i, <2>1, <2>4, TallyNext DEF Tally, Exclusive
  <2>6. ~crossed' => UnlocksInFlight' = 0 /\ UnlocksInFlight' <= 1 /\ ~(UnlocksInFlight' > 0) /\ ~(EnginesOpen' > 0) /\ ~(LocksDone' > 0)
    BY <1>p, <1>t, <1>n, <2>1, <2>4, <2>5, TallyNext DEF Tally, Exclusive
  <2>7. ~crossed' => ~locked' /\ open'
    BY <1>p, <1>15, <2>4, <2>5 DEF UnlockReplied, Agreement
  <2>8. Exclusive' /\ Agreement'
    BY <1>p, <1>15, <2>4, <2>5, <2>6, <2>7 DEF UnlockReplied, Exclusive, Agreement
  <2>9. ListedInSlot' /\ PasswordForgotten'
    BY <1>p, <1>15, <2>4, <2>5, <2>6, <2>7 DEF UnlockReplied, ListedInSlot, PasswordForgotten
  <2>. QED
    BY <2>2, <2>3, <2>8, <2>9 DEF IInv
<1>16. CASE UnlockRefused
  <2>1. Tally(-1, 0, 0, 0, 0, 0)
    BY <1>t, CallsAreNat, <1>16, Stages, Ended
       DEF UnlockRefused, Tally, UnlocksInFlight, EnginesOpen, LocksInFlight, LocksDone, ChangesInFlight
  <2>2. TypeOK'
    BY <1>p, <1>16, <2>1 DEF UnlockRefused, Tally, TypeOK
  <2>3. (ChangesInFlight + relock <= MaxChanges)'
    BY <1>p, <1>t, <1>n, <1>16, <2>1 DEF UnlockRefused, Tally
  <2>4. ~crossed' => ~crossed
    BY <1>16 DEF UnlockRefused
  <2>a. calls["unlockErr"] > 0
    BY <1>16 DEF UnlockRefused, Goes, Ends
  <2>5. ~crossed' => UnlocksInFlight > 0 /\ ~(calls["unlockOk"] > 0)
    BY <1>p, <1>t, <1>n, <1>i, <2>1, <2>4, <2>a, TallyNext DEF Tally, Exclusive
  <2>6. ~crossed' => UnlocksInFlight' = 0 /\ UnlocksInFlight' <= 1 /\ ~(UnlocksInFlight' > 0) /\ ~(EnginesOpen' > 0) /\ ~(LocksDone' > 0)
    BY <1>p, <1>t, <1>n, <2>1, <2>4, <2>5, TallyNext DEF Tally, Exclusive
  <2>7. ~crossed' => locked' /\ ~open'
    BY <1>p, <1>16, <2>4, <2>5 DEF UnlockRefused, Agreement
  <2>8. Exclusive' /\ Agreement'
    BY <1>p, <1>16, <2>4, <2>5, <2>6, <2>7 DEF UnlockRefused, Exclusive, Agreement
  <2>9. ListedInSlot' /\ PasswordForgotten'
    BY <1>p, <1>16, <2>4, <2>5, <2>6, <2>7 DEF UnlockRefused, ListedInSlot, PasswordForgotten
  <2>. QED
    BY <2>2, <2>3, <2>8, <2>9 DEF IInv
<1>17. CASE ListsLoaded
  <2>1. Tally(0, 0, 0, 0, 0, 0)
    BY <1>t, CallsAreNat, <1>17, Stages, Ended
       DEF ListsLoaded, Tally, UnlocksInFlight, EnginesOpen, LocksInFlight, LocksDone, ChangesInFlight
  <2>2. TypeOK'
    BY <1>p, <1>17, <2>1 DEF ListsLoaded, Tally, TypeOK
  <2>3. (ChangesInFlight + relock <= MaxChanges)'
    BY <1>p, <1>t, <1>n, <1>17, <2>1 DEF ListsLoaded, Tally
  <2>5. Exclusive' /\ Agreement'
    BY <1>p, <1>n, <1>17, <2>1 DEF ListsLoaded, Tally, Exclusive, Agreement
  <2>6. ListedInSlot' /\ PasswordForgotten'
    BY <1>p, <1>n, <1>17, <2>1 DEF ListsLoaded, Tally, Exclusive, Agreement, ListedInSlot, PasswordForgotten
  <2>. QED
    BY <2>2, <2>3, <2>5, <2>6 DEF IInv
<1>18. CASE LockReplied \/ WipeReplied
  <2>1. Tally(0, 0, 0, -1, -1, 0)
    BY <1>t, CallsAreNat, <1>18, Stages, Ended
       DEF LockReplied, WipeReplied, Tally, UnlocksInFlight, EnginesOpen, LocksInFlight, LocksDone, ChangesInFlight
  <2>2. TypeOK'
    BY <1>p, <1>18, <2>1 DEF LockReplied, WipeReplied, Tally, TypeOK
  <2>3. (ChangesInFlight + relock <= MaxChanges)'
    BY <1>p, <1>t, <1>n, <1>18, <2>1 DEF LockReplied, WipeReplied, Tally
  <2>4. ~crossed' => ~crossed
    BY <1>18 DEF LockReplied, WipeReplied
  <2>5. ~crossed' => UnlocksInFlight = 0 /\ LocksDone > 0
    BY <1>p, <1>t, <1>n, <1>i, <2>1, <2>4, TallyNext DEF Tally, Exclusive
  <2>6. ~crossed' => UnlocksInFlight' = 0 /\ UnlocksInFlight' <= 1 /\ ~(UnlocksInFlight' > 0) /\ ~(EnginesOpen' > 0)
    BY <1>p, <1>t, <1>n, <2>1, <2>4, <2>5, TallyNext DEF Tally, Exclusive
  <2>7. ~crossed' => locked' /\ ~open'
    BY <1>p, <1>18, <2>4, <2>5 DEF LockReplied, WipeReplied, Agreement
  <2>8. Exclusive' /\ Agreement'
    BY <1>p, <1>18, <2>4, <2>5, <2>6, <2>7 DEF LockReplied, WipeReplied, Exclusive, Agreement
  <2>9. ListedInSlot' /\ PasswordForgotten'
    BY <1>p, <1>18, <2>4, <2>5, <2>6, <2>7 DEF LockReplied, WipeReplied, ListedInSlot, PasswordForgotten
  <2>. QED
    BY <2>2, <2>3, <2>8, <2>9 DEF IInv
<1>19. CASE ChangeReplied
  <2>1. Tally(0, 0, 0, 0, 0, -1)
    BY <1>t, CallsAreNat, <1>19, Stages, Ended
       DEF ChangeReplied, Tally, UnlocksInFlight, EnginesOpen, LocksInFlight, LocksDone, ChangesInFlight
  <2>2. ChangesInFlight' \in Nat /\ relock' = relock + 1
    BY <1>t, <2>1, <1>19, TallyNext DEF Tally, ChangeReplied
  <2>3. relock' \in 0 .. MaxChanges /\ ChangesInFlight' + relock' <= MaxChanges
    BY <1>p, <1>t, <1>n, <2>1, <2>2 DEF Tally
  <2>4. TypeOK'
    BY <1>p, <2>1, <2>3, <1>19 DEF ChangeReplied, Tally, TypeOK
  <2>5. Exclusive' /\ Agreement'
    BY <1>p, <1>n, <1>19, <2>1 DEF ChangeReplied, Tally, Exclusive, Agreement
  <2>6. ListedInSlot' /\ PasswordForgotten'
    BY <1>p, <1>n, <1>19, <2>1 DEF ChangeReplied, Tally, Exclusive, Agreement, ListedInSlot, PasswordForgotten
  <2>. QED
    BY <2>4, <2>3, <2>5, <2>6 DEF IInv
<1>20. CASE ChangeRefused
  <2>1. Tally(0, 0, 0, 0, 0, -1)
    BY <1>t, CallsAreNat, <1>20, Stages, Ended
       DEF ChangeRefused, Tally, UnlocksInFlight, EnginesOpen, LocksInFlight, LocksDone, ChangesInFlight
  <2>2. TypeOK'
    BY <1>p, <1>20, <2>1 DEF ChangeRefused, Tally, TypeOK
  <2>3. (ChangesInFlight + relock <= MaxChanges)'
    BY <1>p, <1>t, <1>n, <1>20, <2>1 DEF ChangeRefused, Tally
  <2>5. Exclusive' /\ Agreement'
    BY <1>p, <1>n, <1>20, <2>1 DEF ChangeRefused, Tally, Exclusive, Agreement
  <2>6. ListedInSlot' /\ PasswordForgotten'
    BY <1>p, <1>n, <1>20, <2>1 DEF ChangeRefused, Tally, Exclusive, Agreement, ListedInSlot, PasswordForgotten
  <2>. QED
    BY <2>2, <2>3, <2>5, <2>6 DEF IInv
<1>21. CASE SessionReplied
  <2>1. Tally(0, 0, 0, 0, 0, 0)
    BY <1>t, CallsAreNat, <1>21, Stages, Ended
       DEF SessionReplied, Tally, UnlocksInFlight, EnginesOpen, LocksInFlight, LocksDone, ChangesInFlight
  <2>2. TypeOK'
    BY <1>p, <1>21, <2>1 DEF SessionReplied, Tally, TypeOK
  <2>3. (ChangesInFlight + relock <= MaxChanges)'
    BY <1>p, <1>t, <1>n, <1>21, <2>1 DEF SessionReplied, Tally
  <2>5. Exclusive' /\ Agreement'
    BY <1>p, <1>n, <1>21, <2>1 DEF SessionReplied, Tally, Exclusive, Agreement
  <2>6. ListedInSlot' /\ PasswordForgotten'
    BY <1>p, <1>n, <1>21, <2>1 DEF SessionReplied, Tally, Exclusive, Agreement, ListedInSlot, PasswordForgotten
  <2>. QED
    BY <2>2, <2>3, <2>5, <2>6 DEF IInv
<1>22. CASE RelockFires
  <2>1. Tally(0, 0, 0, 1, 0, 0)
    BY <1>t, CallsAreNat, <1>22, Stages, Sent
       DEF RelockFires, SendLock, Tally, UnlocksInFlight, EnginesOpen, LocksInFlight, LocksDone, ChangesInFlight
  <2>b. relock' \in 0 .. MaxChanges
    BY <1>t, <1>22 DEF RelockFires
  <2>2. TypeOK'
    BY <1>p, <1>22, <2>1, <2>b DEF RelockFires, SendLock, Tally, TypeOK
  <2>3. (ChangesInFlight + relock <= MaxChanges)'
    BY <1>p, <1>t, <1>n, <1>22, <2>1 DEF RelockFires, SendLock, Tally
  <2>4. ~crossed' => ~crossed /\ ~InFlight(Unlocks)
    BY <1>22 DEF RelockFires, SendLock
  <2>5. ~crossed' => UnlocksInFlight = 0
    BY <1>p, <1>t, <1>n, <1>i, <2>1, <2>4, TallyNext DEF Tally, Exclusive
  <2>6. ~crossed' => UnlocksInFlight' = 0 /\ UnlocksInFlight' <= 1 /\ ~(UnlocksInFlight' > 0) /\ ~(EnginesOpen' > 0) /\ LocksDone' = LocksDone
    BY <1>p, <1>t, <1>n, <2>1, <2>4, <2>5, TallyNext DEF Tally, Exclusive
  <2>7. ~crossed' => IF LocksDone > 0 THEN ~open ELSE locked <=> ~open
    BY <1>p, <1>22, <2>4, <2>5 DEF RelockFires, SendLock, Agreement
  <2>8. Exclusive' /\ Agreement'
    BY <1>p, <1>22, <2>4, <2>5, <2>6, <2>7 DEF RelockFires, SendLock, Exclusive, Agreement
  <2>9. ListedInSlot' /\ PasswordForgotten'
    BY <1>p, <1>22, <2>4, <2>5, <2>6, <2>7 DEF RelockFires, SendLock, ListedInSlot, PasswordForgotten
  <2>. QED
    BY <2>2, <2>3, <2>8, <2>9 DEF IInv
<1>23. CASE IdleCheck
  <2>1. Tally(0, 0, 0, 1, 0, 0)
    BY <1>t, CallsAreNat, <1>23, Stages, Sent
       DEF IdleCheck, SendLock, Tally, UnlocksInFlight, EnginesOpen, LocksInFlight, LocksDone, ChangesInFlight
  <2>2. TypeOK'
    BY <1>p, <1>23, <2>1 DEF IdleCheck, SendLock, Tally, TypeOK
  <2>3. (ChangesInFlight + relock <= MaxChanges)'
    BY <1>p, <1>t, <1>n, <1>23, <2>1 DEF IdleCheck, SendLock, Tally
  <2>4. ~crossed' => ~crossed /\ ~InFlight(Unlocks)
    BY <1>23 DEF IdleCheck, SendLock
  <2>5. ~crossed' => UnlocksInFlight = 0
    BY <1>p, <1>t, <1>n, <1>i, <2>1, <2>4, TallyNext DEF Tally, Exclusive
  <2>6. ~crossed' => UnlocksInFlight' = 0 /\ UnlocksInFlight' <= 1 /\ ~(UnlocksInFlight' > 0) /\ ~(EnginesOpen' > 0) /\ LocksDone' = LocksDone
    BY <1>p, <1>t, <1>n, <2>1, <2>4, <2>5, TallyNext DEF Tally, Exclusive
  <2>7. ~crossed' => IF LocksDone > 0 THEN ~open ELSE locked <=> ~open
    BY <1>p, <1>23, <2>4, <2>5 DEF IdleCheck, SendLock, Agreement
  <2>8. Exclusive' /\ Agreement'
    BY <1>p, <1>23, <2>4, <2>5, <2>6, <2>7 DEF IdleCheck, SendLock, Exclusive, Agreement
  <2>9. ListedInSlot' /\ PasswordForgotten'
    BY <1>p, <1>23, <2>4, <2>5, <2>6, <2>7 DEF IdleCheck, SendLock, ListedInSlot, PasswordForgotten
  <2>. QED
    BY <2>2, <2>3, <2>8, <2>9 DEF IInv
<1>24. CASE UNCHANGED vars
  <2>1. Tally(0, 0, 0, 0, 0, 0)
    BY <1>u, <1>24 DEF vars
  <2>2. TypeOK'
    BY <1>p, <1>24, <2>1 DEF vars, Tally, TypeOK
  <2>3. (ChangesInFlight + relock <= MaxChanges)'
    BY <1>p, <1>t, <1>n, <1>24, <2>1 DEF vars, Tally
  <2>5. Exclusive' /\ Agreement'
    BY <1>p, <1>n, <1>24, <2>1 DEF vars, Tally, Exclusive, Agreement
  <2>6. ListedInSlot' /\ PasswordForgotten'
    BY <1>p, <1>n, <1>24, <2>1 DEF vars, Tally, Exclusive, Agreement, ListedInSlot, PasswordForgotten
  <2>. QED
    BY <2>2, <2>3, <2>5, <2>6 DEF IInv
<1>25. ASSUME NEW s \in Sessions, SessionExpires(s) PROVE IInv'
  <2>1. Tally(0, 0, 0, 0, 0, 0)
    BY <1>u, <1>25 DEF SessionExpires
  <2>2. TypeOK'
    BY <1>p, <1>25, <2>1 DEF SessionExpires, Tally, TypeOK
  <2>3. (ChangesInFlight + relock <= MaxChanges)'
    BY <1>p, <1>t, <1>n, <1>25, <2>1 DEF SessionExpires, Tally
  <2>5. Exclusive' /\ Agreement'
    BY <1>p, <1>n, <1>25, <2>1 DEF SessionExpires, Tally, Exclusive, Agreement
  <2>6. ListedInSlot' /\ PasswordForgotten'
    BY <1>p, <1>n, <1>25, <2>1 DEF SessionExpires, Tally, Exclusive, Agreement, ListedInSlot, PasswordForgotten
  <2>. QED
    BY <2>2, <2>3, <2>5, <2>6 DEF IInv
<1>. QED
  BY <1>1, <1>2, <1>3, <1>4, <1>5, <1>6, <1>7, <1>8, <1>9, <1>10, <1>11, <1>12,
     <1>13, <1>14, <1>15, <1>16, <1>17, <1>18, <1>19, <1>20, <1>21, <1>22, <1>23, <1>24, <1>25
     DEF Next, User, Commands, Unlock, Change, Answers

-----------------------------------------------------------------------------
(* What becomes of an engine with the keys of before a change.  One that   *)
(* is opened and not published when the password changes has crossed a     *)
(* command: without a crossing the slot is empty while an unlock opens.    *)

RelockInv ==
  /\ StaleIsRelocked
  /\ ~crossed => calls["unlockOutdated"] = 0

\* Something is under way that locks the vault.
Relocks == calls["changeOk"] > 0 \/ relock > 0 \/ calls["lockSent"] > 0 \/ calls["wipeSent"] > 0

LEMMA RelocksIs ==
  /\ StaleIsRelocked <=> (stale /\ ~torn /\ ~crossed => open /\ Relocks)
  /\ StaleIsRelocked' <=> (stale' /\ ~torn' /\ ~crossed' => open' /\ Relocks')
  BY DEF StaleIsRelocked, Relocks, InFlight

LEMMA RelockInit == Init => RelockInv
  BY Stages DEF Init, RelockInv, StaleIsRelocked

LEMMA RelockNext == IInv /\ RelockInv /\ [Next]_vars => RelockInv'
<1> SUFFICES ASSUME IInv, RelockInv, [Next]_vars PROVE RelockInv'
  OBVIOUS
<1> USE DEF Covered, Uncovered, slot, front
<1>t. calls \in [Stage -> Nat] /\ relock \in Nat
  BY DesktopAssumption DEF IInv, TypeOK
<1>n. /\ calls["unlockOutdated"] \in Nat /\ calls["changeOk"] \in Nat
      /\ calls["lockSent"] \in Nat /\ calls["wipeSent"] \in Nat
      /\ calls["unlockOpen"] \in Nat /\ calls["changeSent"] \in Nat
  BY <1>t, CallsAreNat
<1>r. /\ stale /\ ~torn /\ ~crossed => open /\ Relocks
      /\ ~crossed => calls["unlockOutdated"] = 0
  BY RelocksIs DEF RelockInv
<1> DEFINE Goal == /\ stale' /\ ~torn' /\ ~crossed' => open' /\ Relocks'
                   /\ ~crossed' => calls'["unlockOutdated"] = 0
           Kept == /\ calls' \in [Stage -> Nat]
                   /\ calls'["changeOk"] >= calls["changeOk"]
                   /\ calls'["lockSent"] >= calls["lockSent"]
                   /\ calls'["wipeSent"] >= calls["wipeSent"]
                   /\ calls'["unlockOutdated"] = calls["unlockOutdated"]
           Awaited == {"changeOk", "lockSent", "wipeSent", "unlockOutdated"}
<1>g. SUFFICES Goal
  BY RelocksIs DEF RelockInv
<1>c. crossed => crossed'
  BY DEF Next, User, Commands, Unlock, Change, Answers, vars, TypePassword, SubmitUnlock,
         UnlockFromKeychain, SendUnlock, LockNow, SendLock, SubmitWipe, SubmitChange,
         SubmitStart, UserReturns, UserStaysAway, OpenEngine, OpenFails, Publish, LockVault,
         WipeVault, ChangePassword, ChangeFails, StartSession, UnlockReplied, UnlockRefused,
         ListsLoaded, LockReplied, WipeReplied, ChangeReplied, ChangeRefused, SessionReplied,
         RelockFires, IdleCheck, SubmitStop, StopSession, SessionExpires, Rekeyed, Meets
\* Commands that are sent, and answers that nothing waits for, take nothing
\* from what is under way.
<1>k. ASSUME Kept, stale' = stale, torn' = torn, open' = open, relock' = relock
      PROVE  Goal
  <2>1. calls'["changeOk"] \in Nat /\ calls'["lockSent"] \in Nat /\ calls'["wipeSent"] \in Nat
    BY <1>k, Stages
  <2>2. Relocks => Relocks'
    BY <1>k, <1>n, <1>t, <2>1 DEF Relocks
  <2>. QED
    BY <1>k, <1>c, <1>r, <2>2
<1>s. ASSUME NEW c \in Stage \ {"unlockOutdated"}, Send(c) PROVE Kept
  <2>1. /\ calls' \in [Stage -> Nat] /\ calls'[c] = calls[c] + 1 /\ calls[c] \in Nat
        /\ \A e \in Stage \ {c} : calls'[e] = calls[e]
    BY <1>s, <1>t, Sent
  <2>2. \A e \in Stage : calls'[e] >= calls[e]
    BY <1>t, <2>1
  <2>. QED
    BY <2>1, <2>2, Stages
<1>m. ASSUME NEW c \in Stage \ Awaited, NEW d \in Stage \ {"unlockOutdated"}, c # d, Goes(c, d)
      PROVE  Kept
  <2>1. /\ calls' \in [Stage -> Nat] /\ calls'[d] = calls[d] + 1 /\ calls[d] \in Nat
        /\ \A e \in Stage \ {c, d} : calls'[e] = calls[e]
    BY <1>m, <1>t, Gone
  <2>2. \A e \in Stage \ {c} : calls'[e] >= calls[e]
    BY <1>t, <2>1
  <2>. QED
    BY <2>1, <2>2, Stages
<1>e. ASSUME NEW c \in Stage \ Awaited, Ends(c) PROVE Kept
  <2>1. /\ calls' \in [Stage -> Nat]
        /\ \A e \in Stage \ {c} : calls'[e] = calls[e]
    BY <1>e, <1>t, Ended
  <2>. QED
    BY <1>n, <2>1, Stages
<1>. HIDE DEF Goal, Kept
<1>1. CASE \/ TypePassword \/ UserReturns \/ UserStaysAway \/ UNCHANGED vars
           \/ \E s \in Sessions : SessionExpires(s)
  <2>1. UNCHANGED <<calls, stale, torn, open, relock>>
    BY <1>1 DEF TypePassword, UserReturns, UserStaysAway, SessionExpires, vars
  <2>2. Kept
    BY <1>t, <1>n, <2>1 DEF Kept
  <2>. QED
    BY <1>k, <2>1, <2>2
<1>2. CASE SubmitUnlock \/ UnlockFromKeychain \/ LockNow \/ IdleCheck \/ SubmitWipe
           \/ SubmitChange \/ SubmitStart \/ SubmitStop
  <2>1. stale' = stale /\ torn' = torn /\ open' = open /\ relock' = relock
    BY <1>2 DEF SubmitUnlock, UnlockFromKeychain, SendUnlock, LockNow, IdleCheck, SendLock,
           SubmitWipe, SubmitChange, SubmitStart, SubmitStop
  <2>2. \E c \in Stage \ {"unlockOutdated"} : Send(c)
    BY <1>2, Stages DEF SubmitUnlock, UnlockFromKeychain, SendUnlock, LockNow, IdleCheck,
           SendLock, SubmitWipe, SubmitChange, SubmitStart, SubmitStop
  <2>. QED
    BY <1>k, <1>s, <2>1, <2>2
<1>3. CASE OpenEngine \/ OpenFails \/ StartSession \/ StopSession \/ UnlockReplied
  <2>1. stale' = stale /\ torn' = torn /\ open' = open /\ relock' = relock
    BY <1>3 DEF OpenEngine, OpenFails, StartSession, StopSession, UnlockReplied
  <2>2. \E c \in Stage \ Awaited, d \in Stage \ {"unlockOutdated"} : c # d /\ Goes(c, d)
    BY <1>3, Stages DEF OpenEngine, OpenFails, StartSession, StopSession, UnlockReplied
  <2>. QED
    BY <1>k, <1>m, <2>1, <2>2
<1>4. CASE UnlockRefused \/ ListsLoaded \/ LockReplied \/ WipeReplied \/ ChangeRefused
           \/ SessionReplied
  <2>1. stale' = stale /\ torn' = torn /\ open' = open /\ relock' = relock
    BY <1>4 DEF UnlockRefused, ListsLoaded, LockReplied, WipeReplied, ChangeRefused,
           SessionReplied
  <2>2. \E c \in Stage \ Awaited : Ends(c)
    BY <1>4, Stages DEF UnlockRefused, ListsLoaded, LockReplied, WipeReplied, ChangeRefused,
           SessionReplied
  <2>. QED
    BY <1>k, <1>e, <2>1, <2>2
\* The answer to a change starts the timer, and the timer sends a lock.
<1>5. CASE ChangeReplied
  <2>1. /\ stale' = stale /\ torn' = torn /\ open' = open /\ relock' > 0
        /\ calls'["unlockOutdated"] = calls["unlockOutdated"] /\ calls["changeOk"] > 0
    BY <1>5, <1>t, Stages, Ended DEF ChangeReplied
  <2>. QED
    BY <1>c, <1>r, <2>1 DEF Relocks, Goal
<1>6. CASE RelockFires
  <2>1. /\ stale' = stale /\ torn' = torn /\ open' = open
        /\ calls'["unlockOutdated"] = calls["unlockOutdated"]
        /\ calls'["lockSent"] = calls["lockSent"] + 1
    BY <1>6, <1>t, Stages, Sent DEF RelockFires, SendLock
  <2>2. calls'["lockSent"] > 0
    BY <1>n, <2>1
  <2>. QED
    BY <1>c, <1>r, <2>1, <2>2 DEF Relocks, Goal
\* The lock empties the slot.
<1>7. CASE LockVault \/ WipeVault
  <2>1. stale' = FALSE
    BY <1>7 DEF LockVault, WipeVault, SlotEmptied
  <2>2. calls'["unlockOutdated"] = calls["unlockOutdated"]
    BY <1>7, <1>t, Stages, Gone DEF LockVault, WipeVault, SlotEmptied
  <2>. QED
    BY <1>c, <1>r, <2>1, <2>2 DEF Goal
\* Without a crossing the engine that is published is not outdated.
<1>8. CASE Publish
  <2>1. CASE Goes("unlockOpen", "unlockOk") /\ stale' = FALSE
    <3>1. calls'["unlockOutdated"] = calls["unlockOutdated"]
      BY <2>1, <1>t, Stages, Gone
    <3>. QED
      BY <1>c, <1>r, <2>1, <3>1 DEF Goal
  <2>2. CASE Goes("unlockOutdated", "unlockOk")
    <3>1. calls["unlockOutdated"] > 0
      BY <2>2 DEF Goes
    <3>. QED
      BY <1>c, <1>r, <3>1, <1>n DEF Goal
  <2>. QED
    BY <1>8, <2>1, <2>2 DEF Publish
\* A change finds an engine in the slot, and then no unlock is opening one.
<1>o. ASSUME open, ~crossed PROVE calls["unlockOpen"] = 0
  <2>1. /\ UnlocksInFlight \in Nat /\ EnginesOpen \in Nat /\ calls["unlockOk"] \in Nat
        /\ EnginesOpen + calls["unlockOk"] <= UnlocksInFlight
    BY <1>t, TallyNat
  <2>2. EnginesOpen >= calls["unlockOpen"]
    BY <1>n DEF EnginesOpen
  <2>3. UnlocksInFlight <= 1 /\ (UnlocksInFlight > 0 => calls["unlockOk"] > 0)
    BY <1>o DEF IInv, Exclusive, Agreement
  <2>. QED
    BY <1>n, <2>1, <2>2, <2>3
<1>9. CASE ChangePassword
  <2>1. /\ open /\ open' = open /\ crossed' = crossed
        /\ calls' = [calls EXCEPT !["changeSent"] = @ - 1, !["changeOk"] = @ + 1,
                       !["unlockOpen"] = 0, !["unlockOutdated"] = @ + calls["unlockOpen"]]
    BY <1>9 DEF ChangePassword, Rekeyed
  <2>2. /\ calls'["changeOk"] = calls["changeOk"] + 1
        /\ calls'["unlockOutdated"] = calls["unlockOutdated"] + calls["unlockOpen"]
    BY <1>t, <2>1, Stages
  <2>3. Relocks'
    BY <1>n, <2>2 DEF Relocks
  <2>. QED
    BY <1>n, <1>r, <1>o, <2>1, <2>2, <2>3 DEF Goal
\* A change that fails has done nothing, or is torn.
<1>10. CASE ChangeFails
  <2>1. CASE Goes("changeSent", "changeErr") /\ UNCHANGED <<front, slot, crossed>>
    BY <2>1, <1>k, <1>m, Stages
  <2>2. CASE Rekeyed("changeErr") /\ torn' = TRUE /\ UNCHANGED crossed
    <3>1. /\ open
          /\ calls' = [calls EXCEPT !["changeSent"] = @ - 1, !["changeErr"] = @ + 1,
                         !["unlockOpen"] = 0, !["unlockOutdated"] = @ + calls["unlockOpen"]]
      BY <2>2 DEF Rekeyed
    <3>2. calls'["unlockOutdated"] = calls["unlockOutdated"] + calls["unlockOpen"]
      BY <1>t, <3>1, Stages
    <3>. QED
      BY <1>n, <1>r, <1>o, <2>2, <3>1, <3>2 DEF Goal
  <2>. QED
    BY <1>10, <2>1, <2>2 DEF ChangeFails
<1>. QED
  BY <1>1, <1>2, <1>3, <1>4, <1>5, <1>6, <1>7, <1>8, <1>9, <1>10
     DEF Next, User, Commands, Unlock, Change, Answers

-----------------------------------------------------------------------------
\* The invariant holds of every execution, in whatever order answers come.
THEOREM Invariance == Spec => []IInv
  BY InitInv, NextInv, PTL DEF Spec

\* Every variable of the window and the slot keeps its type, and a change of
\* password is followed by one timer.
THEOREM TypeCorrect == Spec => []TypeOK
<1>1. IInv => TypeOK
  BY DEF IInv
<1>. QED
  BY <1>1, Invariance, PTL

\* The window shows the unlock form exactly when the slot is empty, once
\* everything is answered and no unlock has crossed another command.
THEOREM WindowAlwaysAgrees == Spec => []WindowAgrees
<1>1. IInv => WindowAgrees
  <2> SUFFICES ASSUME IInv, ~crossed, ~InFlight(Unlocks \union Locks)
               PROVE  locked <=> ~open
    BY DEF WindowAgrees
  <2>1. calls \in [Stage -> Nat]
    BY DEF IInv, TypeOK
  <2>2. UnlocksInFlight = 0 /\ LocksInFlight = 0
    BY <2>1, Counted
  <2>3. LocksDone \in Nat /\ ~(LocksDone > 0)
    BY <2>1, <2>2, TallyNat
  <2>. QED
    BY <2>2, <2>3 DEF IInv, Agreement
<1>. QED
  BY <1>1, Invariance, PTL

\* In an unlocked window the field of the unlock form is empty.
THEOREM PasswordAlwaysForgotten == Spec => []PasswordForgotten
<1>1. IInv => PasswordForgotten
  BY DEF IInv
<1>. QED
  BY <1>1, Invariance, PTL

\* No unlock finds a session in the map of an engine that it would destroy,
\* unless it has crossed another command.
THEOREM UnlockAlwaysFindsNoSession == Spec => []UnlockFindsNoSession
<1>1. IInv => UnlockFindsNoSession
  <2> SUFFICES ASSUME IInv, ~crossed,
                      InFlight({"unlockSent", "unlockOpen", "unlockOutdated"})
               PROVE  listed = {}
    BY DEF UnlockFindsNoSession
  <2>1. calls \in [Stage -> Nat]
    BY DEF IInv, TypeOK
  <2>2. /\ UnlocksInFlight \in Nat /\ EnginesOpen \in Nat /\ calls["unlockOk"] \in Nat
        /\ EnginesOpen + calls["unlockOk"] <= UnlocksInFlight
        /\ calls["unlockErr"] > 0 \/ calls["unlockSent"] > 0 =>
             EnginesOpen + calls["unlockOk"] < UnlocksInFlight
    BY <2>1, TallyNat
  <2>3. calls["unlockSent"] > 0 \/ EnginesOpen > 0
    BY <2>1, CallsAreNat DEF InFlight, EnginesOpen
  <2>4. UnlocksInFlight <= 1
    BY DEF IInv, Exclusive
  <2>5. UnlocksInFlight > 0 /\ ~(calls["unlockOk"] > 0)
    BY <2>2, <2>3, <2>4
  <2>6. ~open
    BY <2>5 DEF IInv, Agreement
  <2>. QED
    BY <2>6 DEF IInv, ListedInSlot
<1>. QED
  BY <1>1, Invariance, PTL

\* An engine with old keys has a timer or a lock behind it that will take it
\* out of the slot, unless its change failed after PRAGMA rekey.
THEOREM StaleAlwaysRelocked == Spec => []StaleIsRelocked
<1>1. RelockInv => StaleIsRelocked
  BY DEF RelockInv
<1>2. Spec => []RelockInv
  BY RelockInit, RelockNext, Invariance, PTL DEF Spec
<1>. QED
  BY <1>1, <1>2, PTL

\* The window of an open vault looks at the clock, or is about to.
THEOREM OpenAlwaysWatched == Spec => []OpenIsWatched
<1>1. IInv => OpenIsWatched
  <2> SUFFICES ASSUME IInv, open, ~crossed, locked
               PROVE  calls["unlockOk"] > 0
    BY DEF OpenIsWatched
  <2>1. UnlocksInFlight \in Nat
    BY TallyNat DEF IInv, TypeOK
  <2>2. UnlocksInFlight # 0
    BY DEF IInv, Agreement
  <2>. QED
    BY <2>1, <2>2 DEF IInv, Agreement
<1>. QED
  BY <1>1, Invariance, PTL
=============================================================================
