--------------------------- MODULE UnlockingProof ---------------------------
(***************************************************************************)
(* Proofs about Unlocking for any attempts, passwords, thresholds and      *)
(* bounds: IInv is inductive, and with it the count, the delay and the     *)
(* salt are right in every execution.                                      *)
(***************************************************************************)
EXTENDS Unlocking, TLAPS

AttemptRecord ==
  [pc : PC, pw : Password \cup {NoPassword}, salt : 0 .. MaxSalts + 1,
   seen : 0 .. MaxFailed, age : Age]

\* The longest delay, where the ages saturate, is a number of seconds.
LEMMA Bounds ==
  /\ MaxAge \in Nat /\ MaxFailed \in Nat /\ MaxSalts \in Nat /\ MaxFaults \in Nat
  /\ FreeFailures \in Nat /\ FreeFailures > 0
  /\ \A n \in 0 .. MaxFailed : Delay(n) \in Nat
  BY UnlockAssumption DEF MaxAge

\* Counts and ages saturate within their types.
LEMMA CountUp ==
  ASSUME NEW n \in 0 .. MaxFailed
  PROVE  AtMost(n + 1, MaxFailed) \in 0 .. MaxFailed
  BY Bounds DEF AtMost

LEMMA AgeUp ==
  ASSUME NEW n \in Age
  PROVE  /\ AtMost(n + 1, MaxAge) \in Age
         /\ n >= 0 => AtMost(n + -1, MaxAge) \in Age
  BY Bounds DEF AtMost, Age

\* What a password and a generated salt derive is a key and not NoKey.
LEMMA Derived ==
  ASSUME NEW pw \in Password, NEW n \in Salt
  PROVE  /\ <<pw, n>> \in Key /\ <<pw, n>> # NoKey /\ <<pw, n>>[2] = n
  BY UnlockAssumption DEF Key

\* The salts that can be generated are neither absent nor torn.
LEMMA SaltRange ==
  /\ Salt \subseteq 0 .. MaxSalts + 1
  /\ NoSalt \in 0 .. MaxSalts + 1 /\ TornSalt \in 0 .. MaxSalts + 1
  /\ NoSalt \notin Salt /\ TornSalt \notin Salt /\ NoSalt # TornSalt
  BY Bounds DEF Salt, NoSalt, TornSalt

LEMMA IdleType == Idle \in AttemptRecord /\ Idle.pc = "idle" /\ Default \in SecurityState
  BY Bounds, SaltRange DEF Idle, AttemptRecord, PC, Age, NoSalt, Default, SecurityState

\* The invariant holds before the first attempt.
LEMMA InitInv == Init => IInv
<1> SUFFICES ASSUME Init PROVE IInv
  OBVIOUS
<1>1. TypeOK
  <2>1. at \in [Attempt -> AttemptRecord]
    BY IdleType DEF Init
  <2>2. /\ salt \in 0 .. MaxSalts + 1 /\ db \in Key \cup {NoKey} /\ engine \in Key \cup {NoKey}
        /\ salts \in 0 .. MaxSalts /\ faults \in 0 .. MaxFaults
    BY Bounds, SaltRange DEF Init
  <2>3. /\ security \in SecurityState /\ wrongs \in SecurityState
        /\ lost \in BOOLEAN /\ clash \in BOOLEAN
    BY IdleType DEF Init
  <2>. QED
    BY <2>1, <2>2, <2>3 DEF TypeOK, AttemptRecord
<1>2. AttemptsFit /\ SaltFitsDatabase /\ SaltsFit /\ Counted /\ Emptied
  BY IdleType DEF Init, AttemptsFit, SaltFitsDatabase, SaltsFit, Counted, Emptied,
                  Recording, Default
<1>. QED
  BY <1>1, <1>2 DEF IInv

-----------------------------------------------------------------------------
(* One lemma for each part of the invariant.                               *)

USE DEF Go, Succeeds, Fails, Ended, Started, files, history

LEMMA NextType == IInv /\ [Next]_vars => TypeOK'
<1> SUFFICES ASSUME IInv, [Next]_vars PROVE TypeOK'
  OBVIOUS
<1> USE Bounds, SaltRange, IdleType
<1>t. /\ at \in [Attempt -> AttemptRecord] /\ TypeOK
      /\ \A a \in Attempt : at[a].pc \in PC /\ at[a].salt \in 0 .. MaxSalts + 1
                         /\ at[a].seen \in 0 .. MaxFailed /\ at[a].age \in Age
  BY DEF IInv, TypeOK, AttemptRecord
<1>1. ASSUME NEW a \in Attempt, NEW pw \in Password, Refuse(a, pw) PROVE TypeOK'
  BY <1>t, <1>1 DEF Refuse, vars, TypeOK
<1>2. ASSUME NEW a \in Attempt, NEW pw \in Password, Begin(a, pw) PROVE TypeOK'
  <2>1. [pc |-> "salt", pw |-> pw, salt |-> NoSalt, seen |-> 0, age |-> 0] \in AttemptRecord
    BY DEF AttemptRecord, PC, Age
  <2>2. [pc |-> "salt", pw |-> pw, salt |-> NoSalt, seen |-> security.failed, age |-> 0]
          \in AttemptRecord
    BY <1>t DEF TypeOK, SecurityState, AttemptRecord, PC, Age
  <2>3. at' \in [Attempt -> AttemptRecord]
    BY <1>t, <1>2, <2>1, <2>2 DEF Begin
  <2>4. lost' \in BOOLEAN
    <3>1. lost' = lost \/ lost' = TRUE
      BY <1>2 DEF Begin
    <3>. QED
      BY <1>t, <3>1 DEF TypeOK
  <2>6. faults' \in 0 .. MaxFaults
    BY <1>t, <1>2 DEF Begin, TypeOK
  <2>5. UNCHANGED <<files, engine, salts, wrongs, clash>>
    BY <1>2 DEF Begin
  <2>. QED
    BY <1>t, <2>3, <2>4, <2>5, <2>6 DEF TypeOK, AttemptRecord
<1>p. ASSUME NEW a \in Attempt, NEW l \in PC, at' = [at EXCEPT ![a].pc = l]
      PROVE  at' \in [Attempt -> AttemptRecord]
  <2>1. [at[a] EXCEPT !.pc = l] \in AttemptRecord
    BY <1>t DEF AttemptRecord
  <2>. QED
    BY <1>t, <1>p, <2>1
<1>i. ASSUME NEW a \in Attempt, Ended(a) PROVE at' \in [Attempt -> AttemptRecord]
  BY <1>t, <1>i
\* The error of unlock, wherever it comes from.
<1>r. ASSUME NEW a \in Attempt, Rejected(a)
      PROVE  at' \in [Attempt -> AttemptRecord] /\ wrongs' \in SecurityState
  <2>1. wrongs.failed \in 0 .. MaxFailed
    BY <1>t DEF TypeOK, SecurityState
  <2>2. wrongs' \in SecurityState
    BY <1>t, <1>r, <2>1, CountUp DEF Rejected, SecurityState
  <2>3. "wrong" \in PC
    BY DEF PC
  <2>. QED
    BY <1>p, <1>r, <2>2, <2>3 DEF Rejected
<1>3. ASSUME NEW a \in Attempt, ReadSalt(a) PROVE TypeOK'
  <2>1. at' \in [Attempt -> AttemptRecord] /\ salts' \in 0 .. MaxSalts /\ wrongs' \in SecurityState
    <3>1. CASE Rejected(a) /\ UNCHANGED salts
      BY <1>t, <1>r, <3>1 DEF TypeOK
    <3>2. CASE ~(Rejected(a) /\ UNCHANGED salts)
      <4>1. \/ /\ at' = [at EXCEPT ![a].pc = "open", ![a].salt = salt]
               /\ UNCHANGED <<salts, wrongs>>
            \/ /\ salts < MaxSalts
               /\ at' = [at EXCEPT ![a].pc = "create", ![a].salt = salts + 1]
               /\ salts' = salts + 1 /\ UNCHANGED wrongs
        BY <1>3, <3>2 DEF ReadSalt
      <4>. QED
        BY <1>t, <4>1 DEF TypeOK, PC, AttemptRecord, Salt
    <3>. QED
      BY <3>1, <3>2
  <2>2. /\ salt' = salt /\ db' = db /\ security' = security /\ engine' = engine
        /\ lost' = lost /\ clash' = clash /\ faults' \in 0 .. MaxFaults
    BY <1>t, <1>3 DEF ReadSalt, TypeOK
  <2>. QED
    BY <1>t, <2>1, <2>2 DEF TypeOK, AttemptRecord
<1>4. ASSUME NEW a \in Attempt, CreateSalt(a) \/ FillSalt(a) PROVE TypeOK'
  <2>1. at' \in [Attempt -> AttemptRecord] /\ wrongs' \in SecurityState
    <3>1. CASE Rejected(a)
      BY <1>r, <3>1
    <3>2. CASE wrongs' = wrongs /\ \E l \in {"fill", "open"} : at' = [at EXCEPT ![a].pc = l]
      BY <1>t, <1>p, <3>2 DEF PC, TypeOK
    <3>. QED
      BY <1>4, <3>1, <3>2 DEF CreateSalt, FillSalt
  <2>2. /\ db' = db /\ security' = security /\ engine' = engine /\ salts' = salts
        /\ lost' = lost /\ faults' \in 0 .. MaxFaults
    BY <1>t, <1>4 DEF CreateSalt, FillSalt, TypeOK
  <2>3. salt' \in 0 .. MaxSalts + 1 /\ clash' \in BOOLEAN
    <3>1. CASE CreateSalt(a)
      BY <1>t, <3>1 DEF CreateSalt, TypeOK
    <3>2. CASE FillSalt(a)
      BY <1>t, <3>2 DEF FillSalt, TypeOK
    <3>. QED
      BY <1>4, <3>1, <3>2
  <2>. QED
    BY <1>t, <2>1, <2>2, <2>3 DEF TypeOK, AttemptRecord
<1>6. ASSUME NEW a \in Attempt, OpenDatabase(a) PROVE TypeOK'
  <2>1. at' \in [Attempt -> AttemptRecord] /\ wrongs' \in SecurityState
    <3>1. CASE Rejected(a)
      BY <1>r, <3>1
    <3>2. CASE wrongs' = wrongs /\ at' = [at EXCEPT ![a].pc = "reset"]
      BY <1>t, <1>p, <3>2 DEF PC, TypeOK
    <3>. QED
      BY <1>6, <3>1, <3>2 DEF OpenDatabase
  <2>4. /\ salt' = salt /\ security' = security /\ engine' = engine /\ salts' = salts
        /\ lost' = lost /\ clash' = clash /\ faults' \in 0 .. MaxFaults
    BY <1>t, <1>6 DEF OpenDatabase, TypeOK
  <2>2. db' \in Key \cup {NoKey}
    BY <1>t, <1>6, Derived DEF OpenDatabase, KeyFits, TypeOK, IInv, AttemptsFit, KeyOf
  <2>. QED
    BY <1>t, <2>1, <2>2, <2>4 DEF TypeOK, AttemptRecord
<1>7. ASSUME NEW a \in Attempt, TruncateCount(a) PROVE TypeOK'
  <2>1. at' \in [Attempt -> AttemptRecord]
    BY <1>p, <1>i, <1>7 DEF TruncateCount, PC
  <2>2. lost' \in BOOLEAN
    BY <1>7 DEF TruncateCount
  <2>3. /\ security' \in SecurityState /\ faults' \in 0 .. MaxFaults
        /\ UNCHANGED <<salt, db, engine, salts, wrongs, clash>>
    BY <1>t, <1>7 DEF TruncateCount, TypeOK
  <2>. QED
    BY <1>t, <2>1, <2>2, <2>3 DEF TypeOK, AttemptRecord
<1>8. ASSUME NEW a \in Attempt, WriteCount(a) PROVE TypeOK'
  <2>1. at' \in [Attempt -> AttemptRecord]
    BY <1>i, <1>8 DEF WriteCount
  <2>2. security' \in SecurityState
    BY <1>t, <1>8, CountUp DEF WriteCount, TypeOK, SecurityState
  <2>3. lost' \in BOOLEAN
    BY <1>8 DEF WriteCount
  <2>4. faults' \in 0 .. MaxFaults /\ UNCHANGED <<salt, db, engine, salts, wrongs, clash>>
    BY <1>t, <1>8 DEF WriteCount, TypeOK
  <2>. QED
    BY <1>t, <2>1, <2>2, <2>3, <2>4 DEF TypeOK, AttemptRecord
<1>9. ASSUME NEW a \in Attempt, ResetCount(a) PROVE TypeOK'
  <2>1. at' \in [Attempt -> AttemptRecord]
    <3>1. 0 \in Age /\ 0 \in 0 .. MaxFailed
      BY DEF Age
    <3>2. [at[a] EXCEPT !.pc = "publish", !.seen = 0, !.age = 0] \in AttemptRecord
      BY <1>t, <3>1 DEF PC, AttemptRecord
    <3>. QED
      BY <1>t, <1>9, <3>2 DEF ResetCount
  <2>2. lost' \in BOOLEAN
    BY <1>9 DEF ResetCount
  <2>3. /\ security' \in SecurityState /\ wrongs' \in SecurityState /\ faults' \in 0 .. MaxFaults
        /\ UNCHANGED <<salt, db, engine, salts, clash>>
    BY <1>t, <1>9 DEF ResetCount, TypeOK
  <2>. QED
    BY <1>t, <2>1, <2>2, <2>3 DEF TypeOK, AttemptRecord
<1>10. ASSUME NEW a \in Attempt, Publish(a) PROVE TypeOK'
  BY <1>t, <1>10, Derived DEF Publish, TypeOK, IInv, AttemptsFit, KeyOf, AttemptRecord
<1>11. CASE Lock
  BY <1>t, <1>11 DEF Lock, TypeOK
<1>12. CASE Wipe
  BY <1>t, <1>12 DEF Wipe, TypeOK
<1>s. /\ security.age \in Age /\ security.failed \in 0 .. MaxFailed
      /\ wrongs.age \in Age /\ wrongs.failed \in 0 .. MaxFailed
  BY <1>t DEF TypeOK, SecurityState
<1>13. CASE Tick
  BY <1>t, <1>s, <1>13, AgeUp DEF Tick, Shift, TypeOK, AttemptRecord, SecurityState
<1>14. CASE SetClockBack
  <2>1. /\ AtMost(security.age + -1, MaxAge) \in Age /\ AtMost(wrongs.age + -1, MaxAge) \in Age
    BY <1>14, <1>s, AgeUp DEF SetClockBack
  <2>2. at' = at
    BY <1>14, <1>t DEF SetClockBack, Shift, InFlight
  <2>. QED
    BY <1>t, <1>s, <1>14, <2>1, <2>2 DEF SetClockBack, Shift, TypeOK, SecurityState
<1>15. CASE Crash
  BY <1>t, <1>15 DEF Crash, TypeOK, AttemptRecord
<1>16. CASE UNCHANGED vars
  BY <1>t, <1>16 DEF vars, TypeOK
<1>. QED
  BY <1>1, <1>2, <1>3, <1>4, <1>6, <1>7, <1>8, <1>9, <1>10, <1>11,
     <1>12, <1>13, <1>14, <1>15, <1>16 DEF Next, Proceed

LEMMA NextAttempts == IInv /\ [Next]_vars => AttemptsFit'
<1> SUFFICES ASSUME IInv, [Next]_vars PROVE AttemptsFit'
  OBVIOUS
<1> USE SaltRange DEF AttemptsFit
<1>t. at \in [Attempt -> AttemptRecord] /\ AttemptsFit /\ salts \in 0 .. MaxSalts
  BY DEF IInv, TypeOK, AttemptRecord
<1>1. ASSUME NEW a \in Attempt, NEW pw \in Password, Refuse(a, pw) \/ Begin(a, pw)
      PROVE  AttemptsFit'
  BY <1>t, <1>1 DEF Refuse, Begin, vars, AttemptRecord
<1>2. ASSUME NEW a \in Attempt, ReadSalt(a) PROVE AttemptsFit'
  <2>1. CASE salt # NoSalt /\ at' = [at EXCEPT ![a].pc = "open", ![a].salt = salt]
    BY <1>t, <1>2, <2>1 DEF ReadSalt, AttemptRecord
  <2>2. CASE salts < MaxSalts /\ at' = [at EXCEPT ![a].pc = "create", ![a].salt = salts + 1]
    <3>1. salts + 1 \in Salt
      BY <1>t, <2>2, Bounds DEF Salt
    <3>. QED
      BY <1>t, <1>2, <2>2, <3>1 DEF ReadSalt, AttemptRecord
  <2>3. CASE at' = [at EXCEPT ![a].pc = "wrong"]
    BY <1>t, <1>2, <2>3 DEF ReadSalt, AttemptRecord
  <2>. QED
    BY <1>2, <2>1, <2>2, <2>3 DEF ReadSalt, Rejected
<1>3. ASSUME NEW a \in Attempt,
             CreateSalt(a) \/ FillSalt(a) \/ TruncateCount(a) \/ WriteCount(a)
      PROVE  AttemptsFit'
  <2>1. at[a].pc \in {"create", "fill", "wrong", "write"}
    BY <1>3 DEF CreateSalt, FillSalt, TruncateCount, WriteCount
  <2>2. \/ at[a].pc = "create" /\ at' = [at EXCEPT ![a].pc = "fill"]
        \/ \E l \in {"open", "wrong", "write"} : at' = [at EXCEPT ![a].pc = l]
        \/ at' = [at EXCEPT ![a] = Idle]
    BY <1>3 DEF CreateSalt, FillSalt, TruncateCount, WriteCount, Rejected
  <2>. QED
    BY <1>t, <2>1, <2>2, IdleType DEF AttemptRecord
<1>4. ASSUME NEW a \in Attempt, OpenDatabase(a) PROVE AttemptsFit'
  <2>1. /\ at[a].pc = "open"
        /\ \/ at[a].salt \in Salt /\ at' = [at EXCEPT ![a].pc = "reset"]
           \/ at' = [at EXCEPT ![a].pc = "wrong"]
    BY <1>4 DEF OpenDatabase, KeyFits, Rejected
  <2>. QED
    BY <1>t, <2>1 DEF AttemptRecord
<1>5. ASSUME NEW a \in Attempt, ResetCount(a) \/ Publish(a) PROVE AttemptsFit'
  BY <1>t, <1>5, IdleType DEF ResetCount, Publish, AttemptRecord
<1>6. CASE Lock \/ Wipe \/ UNCHANGED vars
  <2>1. at' = at
    BY <1>6 DEF Lock, Wipe, vars
  <2>. QED
    BY <1>t, <2>1
<1>7. CASE Tick \/ SetClockBack
  <2>1. \A a \in Attempt : at'[a].pc = at[a].pc /\ at'[a].pw = at[a].pw /\ at'[a].salt = at[a].salt
    BY <1>t, <1>7 DEF Tick, SetClockBack, Shift, AttemptRecord
  <2>. QED
    BY <1>t, <2>1
<1>8. CASE Crash
  BY <1>t, <1>8, IdleType DEF Crash
<1>. QED
  BY <1>1, <1>2, <1>3, <1>4, <1>5, <1>6, <1>7, <1>8 DEF Next, Proceed

\* The salt, the database and the engine, with the attempts that are under way.
LEMMA NextSalt == IInv /\ [Next]_vars => SaltFitsDatabase' /\ SaltsFit'
<1> SUFFICES ASSUME IInv, [Next]_vars PROVE SaltFitsDatabase' /\ SaltsFit'
  OBVIOUS
<1> USE SaltRange DEF SaltFitsDatabase, SaltsFit, KeyOf
<1>t. /\ at \in [Attempt -> AttemptRecord] /\ AttemptsFit /\ SaltFitsDatabase /\ SaltsFit
      /\ salts \in 0 .. MaxSalts /\ faults \in Nat /\ db \in Key \cup {NoKey}
  BY Bounds DEF IInv, TypeOK, AttemptRecord
<1>d. db # NoKey => db[2] \in Salt
  BY <1>t DEF Key
<1>1. ASSUME NEW a \in Attempt, NEW pw \in Password, Refuse(a, pw) \/ Begin(a, pw)
      PROVE  SaltFitsDatabase' /\ SaltsFit'
  BY <1>t, <1>1 DEF Refuse, Begin, vars, AttemptRecord
\* An attempt that unlock has rejected holds no salt and no key.
<1>r. ASSUME NEW a \in Attempt, Rejected(a), UNCHANGED <<salt, db, engine, clash>>
      PROVE  SaltFitsDatabase' /\ SaltsFit'
  <2>1. at' = [at EXCEPT ![a].pc = "wrong"]
    BY <1>r DEF Rejected
  <2>. QED
    BY <1>t, <1>r, <2>1 DEF AttemptRecord
<1>2. ASSUME NEW a \in Attempt, ReadSalt(a) PROVE SaltFitsDatabase' /\ SaltsFit'
  <2>1. CASE Rejected(a)
    BY <1>2, <1>r, <2>1 DEF ReadSalt
  <2>2. CASE ~Rejected(a)
    BY <1>t, <1>2, <2>2 DEF ReadSalt, AttemptRecord
  <2>. QED
    BY <2>1, <2>2
<1>3. ASSUME NEW a \in Attempt, CreateSalt(a) PROVE SaltFitsDatabase' /\ SaltsFit'
  <2>1. CASE Rejected(a) /\ UNCHANGED <<salt, clash>>
    BY <1>3, <1>r, <2>1 DEF CreateSalt
  <2>2. CASE /\ at' = [at EXCEPT ![a].pc = "fill"] /\ salt' = TornSalt
             /\ clash' = (clash \/ salt # NoSalt)
    BY <1>t, <1>d, <1>3, <2>2 DEF CreateSalt, AttemptRecord
  <2>. QED
    BY <1>3, <2>1, <2>2 DEF CreateSalt
<1>4. ASSUME NEW a \in Attempt, FillSalt(a) PROVE SaltFitsDatabase' /\ SaltsFit'
  <2>0. CASE Rejected(a) /\ UNCHANGED <<salt, clash>>
    BY <1>4, <1>r, <2>0 DEF FillSalt
  <2> SUFFICES ASSUME ~(Rejected(a) /\ UNCHANGED <<salt, clash>>)
               PROVE  SaltFitsDatabase' /\ SaltsFit'
    BY <2>0
  <2>1. /\ at[a].pc = "fill" /\ at[a].salt \in Salt /\ salt' = at[a].salt
        /\ at' = [at EXCEPT ![a].pc = "open"] /\ db' = db /\ engine' = engine
        /\ clash' = (clash \/ salt # TornSalt)
    BY <1>t, <1>4 DEF FillSalt, AttemptsFit
  <2>2. CASE clash \/ salt # TornSalt
    BY <2>1, <2>2
  <2>3. CASE ~clash /\ salt = TornSalt
    <3>1. db = NoKey
      BY <1>t, <1>d, <2>3
    <3>2. \A b \in Attempt : /\ at[b].pc \notin {"reset", "publish"}
                             /\ ~(at[b].pc = "open" /\ at[b].salt \in Salt)
      BY <1>t, <1>d, <2>3, <3>1, Derived DEF AttemptsFit
    <3>. QED
      BY <1>t, <2>1, <2>3, <3>1, <3>2 DEF AttemptRecord
  <2>. QED
    BY <2>2, <2>3
<1>5. ASSUME NEW a \in Attempt, OpenDatabase(a) PROVE SaltFitsDatabase' /\ SaltsFit'
  <2>0. at[a].pc = "open" /\ salt' = salt /\ engine' = engine /\ clash' = clash
    BY <1>5 DEF OpenDatabase
  <2>1. CASE /\ at[a].salt \in Salt /\ db \in {NoKey, KeyOf(a)} /\ db' = KeyOf(a)
             /\ at' = [at EXCEPT ![a].pc = "reset"]
    <3>1. /\ at[a].pw \in Password /\ KeyOf(a) # NoKey /\ KeyOf(a)[2] = at[a].salt
      BY <1>t, <2>0, <2>1, Derived DEF AttemptsFit
    <3>2. \A b \in Attempt : b # a => at'[b] = at[b]
      BY <1>t, <2>1
    <3>3. at'[a].pc = "reset" /\ at'[a].pw = at[a].pw /\ at'[a].salt = at[a].salt
      BY <1>t, <2>1 DEF AttemptRecord
    <3>4. ~clash => SaltsFit'
      BY <1>t, <2>0, <2>1, <3>1, <3>2, <3>3, Derived DEF AttemptsFit
    <3>5. ~clash => engine \in {NoKey, KeyOf(a)} /\ salt = at[a].salt
      BY <1>t, <2>0, <2>1
    <3>. QED
      BY <2>0, <2>1, <3>1, <3>4, <3>5
  <2>2. CASE Rejected(a) /\ db' = db
    BY <1>r, <2>0, <2>2
  <2>3. CASE Rejected(a) /\ KeyFits(a) /\ db' = KeyOf(a)
    <3>1. /\ at[a].salt \in Salt /\ KeyOf(a) # NoKey /\ KeyOf(a)[2] = at[a].salt
          /\ db \in {NoKey, KeyOf(a)}
      BY <1>t, <2>0, <2>3, Derived DEF AttemptsFit, KeyFits
    <3>2. at' = [at EXCEPT ![a].pc = "wrong"]
      BY <2>3 DEF Rejected
    <3>3. ~clash => engine \in {NoKey, KeyOf(a)} /\ salt = at[a].salt
      BY <1>t, <2>0, <3>1
    <3>4. \A b \in Attempt : b # a => at'[b] = at[b]
      BY <1>t, <3>2
    <3>5. at'[a].pc = "wrong"
      BY <1>t, <3>2 DEF AttemptRecord
    <3>6. ~clash => SaltsFit'
      BY <1>t, <2>0, <2>3, <3>1, <3>4, <3>5, Derived DEF AttemptsFit
    <3>. QED
      BY <2>0, <2>3, <3>1, <3>3, <3>6
  <2>. QED
    BY <1>5, <2>1, <2>2, <2>3 DEF OpenDatabase, KeyFits
<1>6. ASSUME NEW a \in Attempt, TruncateCount(a) \/ WriteCount(a)
      PROVE  SaltFitsDatabase' /\ SaltsFit'
  BY <1>t, <1>6, IdleType DEF TruncateCount, WriteCount, AttemptRecord
<1>7. ASSUME NEW a \in Attempt, ResetCount(a) PROVE SaltFitsDatabase' /\ SaltsFit'
  BY <1>t, <1>7 DEF ResetCount, AttemptRecord
<1>8. ASSUME NEW a \in Attempt, Publish(a) PROVE SaltFitsDatabase' /\ SaltsFit'
  BY <1>t, <1>8, IdleType DEF Publish, AttemptRecord
<1>9. CASE Lock
  BY <1>t, <1>9 DEF Lock
<1>10. CASE Wipe
  <2>1. CASE clash'
    BY <2>1
  <2>2. CASE ~clash'
    <3>1. /\ \A b \in Attempt : at[b].pc = "idle"
          /\ db' = NoKey /\ salt' = NoSalt /\ engine' = NoKey /\ at' = at
      <4>1. InFlight = {} /\ faults' = faults
        BY <1>10, <2>2 DEF Wipe
      <4>2. db' = NoKey /\ salt' = NoSalt /\ engine' = NoKey /\ at' = at
        BY <1>t, <1>10, <4>1 DEF Wipe
      <4>. QED
        BY <4>1, <4>2 DEF InFlight
    <3>. QED
      BY <3>1
  <2>. QED
    BY <2>1, <2>2
<1>11. CASE Tick \/ SetClockBack
  BY <1>t, <1>11 DEF Tick, SetClockBack, Shift, AttemptRecord
<1>12. CASE Crash
  BY <1>t, <1>12, IdleType DEF Crash
<1>13. CASE UNCHANGED vars
  BY <1>t, <1>13 DEF vars
<1>. QED
  BY <1>1, <1>2, <1>3, <1>4, <1>5, <1>6, <1>7, <1>8, <1>9, <1>10, <1>11, <1>12, <1>13
     DEF Next, Proceed

-----------------------------------------------------------------------------
(* The count.                                                              *)

\* vault.security says what has happened.
Agrees ==
  /\ security.failed = wrongs.failed
  /\ security.failed > 0 => security.age = wrongs.age

\* Once the count is lost it stays so.
LEMMA LostForGood == [Next]_vars /\ lost => lost'
<1> SUFFICES ASSUME [Next]_vars, lost PROVE lost'
  OBVIOUS
<1>1. ASSUME NEW a \in Attempt, Proceed(a) PROVE lost'
  BY <1>1 DEF Proceed, ReadSalt, CreateSalt, FillSalt, OpenDatabase, TruncateCount,
              WriteCount, ResetCount, Publish
<1>2. ASSUME NEW a \in Attempt, NEW pw \in Password, Refuse(a, pw) \/ Begin(a, pw)
      PROVE  lost'
  BY <1>2 DEF Refuse, Begin, vars
<1>3. CASE Lock \/ Wipe \/ Tick \/ SetClockBack \/ Crash \/ UNCHANGED vars
  BY <1>3 DEF Lock, Wipe, Tick, SetClockBack, Crash, vars
<1>. QED
  BY <1>1, <1>2, <1>3 DEF Next

LEMMA NextCount == IInv /\ [Next]_vars => Counted'
<1> SUFFICES ASSUME IInv, [Next]_vars, ~lost' PROVE Counted'
  BY DEF Counted
<1> USE DEF Recording
<1>t. /\ at \in [Attempt -> AttemptRecord]
      /\ security.failed \in Nat /\ security.age \in Int
      /\ wrongs.failed \in Nat /\ wrongs.age \in Int
  BY Bounds DEF IInv, TypeOK, AttemptRecord, SecurityState, Age
<1>n. \A a \in Attempt : at[a].seen \in Nat /\ at[a].age \in Int
  BY <1>t, Bounds DEF AttemptRecord, Age
<1>l. ~lost
  BY LostForGood
<1>c. /\ (\A a \in Attempt : ~Recording(a)) => Agrees
      /\ \A a \in Attempt :
           at[a].pc \in {"salt", "create", "fill", "open", "reset", "wrong"} =>
             at[a].seen = security.failed
      /\ \A a \in Attempt :
           (Recording(a) /\ \A b \in Attempt \ {a} : ~Recording(b)) =>
             /\ wrongs.failed = AtMost(at[a].seen + 1, MaxFailed)
             /\ wrongs.age = at[a].age
  BY <1>l DEF IInv, Counted, Agrees
\* Steps that touch neither the count nor what an attempt has read of it.
<1>q. ASSUME security' = security, wrongs' = wrongs,
             \A b \in Attempt :
                \/ at'[b].pc \in {"idle", "publish"} /\ ~Recording(b)
                \/ /\ at'[b].seen = at[b].seen /\ at'[b].age = at[b].age
                   /\ at'[b].pc = at[b].pc
                \/ /\ at'[b].pc \in {"salt", "create", "fill", "open", "reset"}
                   /\ at[b].pc \notin {"wrong", "write"}
                   /\ at'[b].seen = security.failed
      PROVE  Counted'
  <2>1. \A b \in Attempt : Recording(b)' <=> Recording(b)
    BY <1>q
  <2>. QED
    BY <1>q, <1>c, <2>1 DEF Counted, Agrees
<1>1. ASSUME NEW a \in Attempt, NEW pw \in Password, Refuse(a, pw) PROVE Counted'
  BY <1>1, <1>q DEF Refuse, vars
<1>2. ASSUME NEW a \in Attempt, NEW pw \in Password, Begin(a, pw) PROVE Counted'
  <2>1. /\ at[a].pc = "idle" /\ Started(a, pw, security.failed)
        /\ security' = security /\ wrongs' = wrongs
    BY <1>2 DEF Begin
  <2>. QED
    BY <2>1, <1>q, <1>t
\* The error of unlock, wherever it comes from.
<1>r. ASSUME NEW a \in Attempt, at[a].pc \in {"salt", "create", "fill", "open"},
             Rejected(a), security' = security
      PROVE  Counted'
  <2>0. at[a].seen = security.failed
    BY <1>r, <1>c
  <2>2. /\ at' = [at EXCEPT ![a].pc = "wrong"]
        /\ wrongs' = [failed |-> AtMost(wrongs.failed + 1, MaxFailed), age |-> at[a].age]
    BY <1>r DEF Rejected
  <2>3. /\ at'[a].pc = "wrong" /\ at'[a].seen = at[a].seen /\ at'[a].age = at[a].age
        /\ \A b \in Attempt \ {a} : at'[b] = at[b]
    BY <2>2, <1>t DEF AttemptRecord
  <2>4. Recording(a)'
    BY <2>3
  <2>5. \A b \in Attempt :
          at'[b].pc \in {"salt", "create", "fill", "open", "reset", "wrong"} =>
            at'[b].seen = security.failed
    BY <2>3, <2>0, <1>c
  <2>6. ASSUME NEW b \in Attempt, Recording(b)', \A d \in Attempt \ {b} : ~Recording(d)'
        PROVE  /\ wrongs'.failed = AtMost(at'[b].seen + 1, MaxFailed)
               /\ wrongs'.age = at'[b].age
    <3>1. b = a
      BY <2>4, <2>6
    <3>2. \A d \in Attempt : ~Recording(d)
      BY <2>3, <2>6, <3>1, <1>r
    <3>3. wrongs.failed = at[a].seen
      BY <3>2, <1>c, <2>0 DEF Agrees
    <3>. QED
      BY <2>2, <2>3, <3>1, <3>3
  <2>. QED
    BY <1>r, <2>4, <2>5, <2>6 DEF Counted
<1>3. ASSUME NEW a \in Attempt, ReadSalt(a) \/ CreateSalt(a) \/ FillSalt(a) PROVE Counted'
  <2>0. at[a].pc \in {"salt", "create", "fill"} /\ security' = security
    BY <1>3 DEF ReadSalt, CreateSalt, FillSalt
  <2>1. CASE Rejected(a)
    BY <1>r, <2>0, <2>1
  <2>2. CASE ~Rejected(a)
    <3>1. wrongs' = wrongs
      BY <1>3, <2>2 DEF ReadSalt, CreateSalt, FillSalt
    <3>2. /\ at'[a].pc \in {"create", "fill", "open"}
          /\ at'[a].seen = at[a].seen
          /\ \A b \in Attempt \ {a} : at'[b] = at[b]
      BY <1>3, <1>t, <2>2 DEF ReadSalt, CreateSalt, FillSalt, AttemptRecord
    <3>. QED
      BY <2>0, <3>1, <3>2, <1>q, <1>c
  <2>. QED
    BY <2>1, <2>2
<1>4. ASSUME NEW a \in Attempt, OpenDatabase(a) PROVE Counted'
  <2>0. at[a].pc = "open" /\ security' = security /\ at[a].seen = security.failed
    BY <1>4, <1>c DEF OpenDatabase
  <2>1. CASE at' = [at EXCEPT ![a].pc = "reset"] /\ wrongs' = wrongs
    <3>1. /\ at'[a].pc = "reset" /\ at'[a].seen = at[a].seen
          /\ \A b \in Attempt \ {a} : at'[b] = at[b]
      BY <2>1, <1>t DEF AttemptRecord
    <3>. QED
      BY <2>0, <2>1, <3>1, <1>q, <1>c
  <2>2. CASE Rejected(a)
    BY <1>r, <2>0, <2>2
  <2>. QED
    BY <1>4, <2>1, <2>2 DEF OpenDatabase
<1>a. ASSUME NEW a \in Attempt, ~Overlapped(a)
      PROVE  \A b \in Attempt : b # a => at[b].pc = "idle"
  BY <1>a DEF Overlapped, InFlight
<1>5. ASSUME NEW a \in Attempt, TruncateCount(a) PROVE Counted'
  <2>1. /\ at[a].pc = "wrong" /\ at'[a].pc = "write" /\ wrongs' = wrongs
        /\ at'[a].seen = at[a].seen /\ at'[a].age = at[a].age
        /\ \A b \in Attempt : b # a => at'[b].pc = "idle" /\ at[b].pc = "idle"
    BY <1>5, <1>a, <1>t DEF TruncateCount, AttemptRecord
  <2>2. /\ wrongs.failed = AtMost(at[a].seen + 1, MaxFailed) /\ wrongs.age = at[a].age
    BY <2>1, <1>c
  <2>. QED
    BY <2>1, <2>2 DEF Counted
<1>6. ASSUME NEW a \in Attempt, WriteCount(a) PROVE Counted'
  <2>1. /\ at[a].pc = "write" /\ \A b \in Attempt : b # a => at[b].pc = "idle"
        /\ \A b \in Attempt : at'[b].pc = "idle"
        /\ security' = [failed |-> AtMost(at[a].seen + 1, MaxFailed), age |-> at[a].age]
        /\ wrongs' = wrongs
    BY <1>6, <1>a, <1>t, IdleType DEF WriteCount
  <2>2. /\ wrongs.failed = AtMost(at[a].seen + 1, MaxFailed) /\ wrongs.age = at[a].age
    BY <2>1, <1>c
  <2>. QED
    BY <2>1, <2>2 DEF Counted
<1>7. ASSUME NEW a \in Attempt, ResetCount(a) PROVE Counted'
  <2>1. /\ at[a].pc = "reset" /\ at'[a].pc = "publish"
        /\ \A b \in Attempt : b # a => at'[b].pc = "idle"
        /\ security' = (IF at[a].seen > 0 THEN Default ELSE security)
        /\ wrongs' = Default
    BY <1>7, <1>a, <1>t DEF ResetCount, AttemptRecord
  <2>2. at[a].seen = security.failed /\ at[a].seen \in Nat
    BY <2>1, <1>c, <1>n
  <2>3. security'.failed = 0 /\ wrongs'.failed = 0
    BY <2>1, <2>2 DEF Default
  <2>. QED
    BY <2>1, <2>3 DEF Counted
<1>8. ASSUME NEW a \in Attempt, Publish(a) PROVE Counted'
  <2>1. /\ at[a].pc = "publish" /\ at'[a].pc = "idle" /\ security' = security /\ wrongs' = wrongs
        /\ \A b \in Attempt \ {a} : at'[b] = at[b]
    BY <1>8, <1>t, IdleType DEF Publish
  <2>. QED
    BY <2>1, <1>q
<1>9. CASE Lock \/ Wipe \/ UNCHANGED vars
  BY <1>9, <1>q DEF Lock, Wipe, vars
<1>10. CASE Tick \/ SetClockBack
  <2>1. PICK d \in Int : Shift(d)
    BY <1>10 DEF Tick, SetClockBack
  <2>2. /\ security'.failed = security.failed /\ wrongs'.failed = wrongs.failed
        /\ security'.age = AtMost(security.age + d, MaxAge)
        /\ wrongs'.age = AtMost(wrongs.age + d, MaxAge)
    BY <2>1, <1>10 DEF Shift, IInv, TypeOK, SecurityState
  <2>3. \A b \in Attempt : /\ at'[b].pc = at[b].pc /\ at'[b].seen = at[b].seen
                           /\ Recording(b) => at'[b].age = AtMost(at[b].age + d, MaxAge)
    BY <2>1, <1>t DEF Shift, AttemptRecord
  <2>4. \A b \in Attempt : Recording(b)' <=> Recording(b)
    BY <2>3
  <2>. QED
    BY <2>2, <2>3, <2>4, <1>c DEF Counted, Agrees
<1>11. CASE Crash
  <2>1. /\ \A a \in Attempt : ~Recording(a) /\ at'[a].pc = "idle"
        /\ security' = security /\ wrongs' = wrongs
    BY <1>11, IdleType DEF Crash
  <2>. QED
    BY <2>1, <1>c DEF Counted, Agrees
<1>. QED
  BY <1>1, <1>2, <1>3, <1>4, <1>5, <1>6, <1>7, <1>8, <1>9, <1>10, <1>11 DEF Next, Proceed

\* The file that an attempt has truncated stays empty until it writes it.
LEMMA NextEmptied == IInv /\ [Next]_vars => Emptied'
<1> SUFFICES ASSUME IInv, [Next]_vars, ~lost', NEW a \in Attempt, at'[a].pc = "write"
             PROVE  security'.failed = 0
  BY DEF Emptied
<1>t. /\ at \in [Attempt -> AttemptRecord] /\ security \in SecurityState
      /\ ~lost /\ (at[a].pc = "write" => security.failed = 0)
  <2>1. lost => lost'
    BY LostForGood
  <2>. QED
    BY <2>1 DEF IInv, TypeOK, Emptied, AttemptRecord
<1>1. ASSUME NEW b \in Attempt, TruncateCount(b) PROVE security'.failed = 0
  BY <1>1 DEF TruncateCount, Default
<1>2. ASSUME NEW b \in Attempt, WriteCount(b) \/ ResetCount(b) PROVE FALSE
  <2>1. InFlight = {b} /\ at[b].pc \in {"write", "reset"} /\ at'[b].pc \in {"idle", "publish"}
    BY <1>2, <1>t, IdleType DEF WriteCount, ResetCount, Overlapped, AttemptRecord
  <2>2. a # b /\ at'[a] = at[a]
    BY <1>2, <1>t, <2>1 DEF WriteCount, ResetCount
  <2>. QED
    BY <2>1, <2>2 DEF InFlight
<1>3. CASE Tick \/ SetClockBack
  <2>1. PICK d \in Int : Shift(d)
    BY <1>3 DEF Tick, SetClockBack
  <2>2. security'.failed = security.failed /\ at'[a].pc = at[a].pc
    BY <2>1, <1>t DEF Shift, AttemptRecord, SecurityState
  <2>. QED
    BY <2>2, <1>t
<1>4. ASSUME security' = security, at[a].pc = "write" \/ at'[a].pc # "write"
      PROVE  security'.failed = 0
  BY <1>4, <1>t
<1>5. ASSUME NEW b \in Attempt, NEW pw \in Password, Refuse(b, pw) \/ Begin(b, pw)
      PROVE  security' = security /\ (at[a].pc = "write" \/ at'[a].pc # "write")
  BY <1>5, <1>t DEF Refuse, Begin, vars
<1>6. ASSUME NEW b \in Attempt,
             ReadSalt(b) \/ CreateSalt(b) \/ FillSalt(b) \/ OpenDatabase(b) \/ Publish(b)
      PROVE  security' = security /\ (at[a].pc = "write" \/ at'[a].pc # "write")
  <2>1. CASE ReadSalt(b)
    BY <2>1, <1>t DEF ReadSalt, Rejected, AttemptRecord
  <2>2. CASE CreateSalt(b) \/ FillSalt(b)
    BY <2>2, <1>t DEF CreateSalt, FillSalt, Rejected, AttemptRecord
  <2>3. CASE OpenDatabase(b)
    <3>1. security' = security /\ \E l \in {"reset", "wrong"} : Go(b, l)
      BY <2>3 DEF OpenDatabase, Rejected
    <3>. QED
      BY <3>1, <1>t DEF AttemptRecord
  <2>4. CASE Publish(b)
    BY <2>4, <1>t, IdleType DEF Publish
  <2>. QED
    BY <1>6, <2>1, <2>2, <2>3, <2>4
<1>7. CASE Lock \/ Wipe \/ Crash \/ UNCHANGED vars
  <2>1. security' = security /\ (at[a].pc = "write" \/ at'[a].pc # "write")
    BY <1>7, IdleType DEF Lock, Wipe, Crash, vars
  <2>. QED
    BY <1>4, <2>1
<1>. QED
  BY <1>1, <1>2, <1>3, <1>4, <1>5, <1>6, <1>7 DEF Next, Proceed

\* Every step preserves the invariant.
LEMMA NextInv == IInv /\ [Next]_vars => IInv'
  BY NextType, NextAttempts, NextSalt, NextCount, NextEmptied DEF IInv

\* With the count right and nobody under way, an attempt begins only when the
\* delay has passed.
LEMMA StepThrottled ==
  ASSUME IInv, [Next]_vars
  PROVE  \A a \in Attempt :
           (~lost' /\ InFlight = {} /\ at'[a].pc = "salt" /\ wrongs.failed >= FreeFailures) =>
              wrongs.age >= Delay(wrongs.failed)
<1> SUFFICES ASSUME NEW a \in Attempt, ~lost', InFlight = {}, at'[a].pc = "salt",
                    wrongs.failed >= FreeFailures
             PROVE  wrongs.age >= Delay(wrongs.failed)
  OBVIOUS
<1>1. \A b \in Attempt : at[b].pc = "idle"
  BY DEF InFlight
<1>l. ~lost
  BY LostForGood
<1>2. security.failed = wrongs.failed /\ (security.failed > 0 => security.age = wrongs.age)
  BY <1>1, <1>l DEF IInv, Counted, Recording
<1>3. PICK pw \in Password : Begin(a, pw)
  <2>1. CASE \E b \in Attempt, pw \in Password : Begin(b, pw)
    <3>1. PICK b \in Attempt, pw \in Password : Begin(b, pw)
      BY <2>1
    <3>2. b = a
      BY <1>1, <3>1 DEF Begin, IInv, TypeOK
    <3>. QED
      BY <3>1, <3>2
  <2>2. CASE at' = at
    BY <1>1, <2>2
  <2>3. CASE Tick \/ SetClockBack
    BY <1>1, <2>3 DEF Tick, SetClockBack, Shift
  <2>4. CASE Crash
    BY <2>4, IdleType DEF Crash
  <2>. QED
    BY <1>1, <2>1, <2>2, <2>3, <2>4
       DEF Next, Proceed, vars, Refuse, Lock, Wipe, ReadSalt, CreateSalt, FillSalt,
           OpenDatabase, TruncateCount, WriteCount, ResetCount, Publish
<1>4. /\ wrongs.failed \in 0 .. MaxFailed /\ wrongs.age \in Int
      /\ Delay(wrongs.failed) \in Nat
  BY Bounds DEF IInv, TypeOK, SecurityState, Age
<1>5. ~(security.age < Delay(security.failed))
  BY <1>2, <1>3 DEF Begin, Refused
<1>6. security.age = wrongs.age
  BY <1>2, <1>4, Bounds
<1>. QED
  BY <1>2, <1>4, <1>5, <1>6

\* A step that lowers the count is a reset, or the truncation by an attempt
\* that has read the count.
LEMMA StepForgets ==
  ASSUME IInv, Next
  PROVE  (~lost' /\ security'.failed < security.failed) =>
           \E a \in Attempt :
             \/ at[a].pc = "reset" /\ (~clash => db = KeyOf(a) /\ salt = at[a].salt)
             \/ at[a].pc = "wrong" /\ at[a].seen = security.failed /\ InFlight = {a}
<1> SUFFICES ASSUME ~lost', security'.failed < security.failed
             PROVE  \E a \in Attempt :
               \/ at[a].pc = "reset" /\ (~clash => db = KeyOf(a) /\ salt = at[a].salt)
               \/ at[a].pc = "wrong" /\ at[a].seen = security.failed /\ InFlight = {a}
  OBVIOUS
<1>1. security.failed \in Nat /\ security'.failed # security.failed /\ security' # security
  BY Bounds DEF IInv, TypeOK, SecurityState
<1>2. ASSUME NEW a \in Attempt, ResetCount(a)
      PROVE  at[a].pc = "reset" /\ (~clash => db = KeyOf(a) /\ salt = at[a].salt)
  <2>1. at[a].pc = "reset" /\ at[a].salt \in Salt
    BY <1>2 DEF ResetCount, IInv, AttemptsFit
  <2>. QED
    BY <2>1 DEF IInv, SaltsFit
<1>3. ASSUME NEW a \in Attempt, TruncateCount(a)
      PROVE  at[a].pc = "wrong" /\ at[a].seen = security.failed /\ InFlight = {a}
  <2>1. at[a].pc = "wrong" /\ ~lost /\ InFlight = {a}
    BY <1>3 DEF TruncateCount, Overlapped
  <2>. QED
    BY <2>1 DEF IInv, Counted
<1>4. ASSUME NEW a \in Attempt, WriteCount(a)
      PROVE  FALSE
  <2>1. at[a].pc = "write" /\ ~lost
    BY <1>4 DEF WriteCount
  <2>2. security.failed = 0
    BY <2>1 DEF IInv, Emptied
  <2>3. at[a].seen \in 0 .. MaxFailed
    BY DEF IInv, TypeOK
  <2>4. AtMost(at[a].seen + 1, MaxFailed) \in Nat
    BY <2>3, CountUp
  <2>5. security'.failed = AtMost(at[a].seen + 1, MaxFailed)
    BY <1>4 DEF WriteCount
  <2>. QED
    BY <1>1, <2>2, <2>4, <2>5
<1>5. CASE Tick \/ SetClockBack
  <2>1. security'.failed = security.failed
    BY <1>5 DEF Tick, SetClockBack, Shift, IInv, TypeOK, SecurityState
  <2>. QED
    BY <1>1, <2>1
<1>6. CASE \E a \in Attempt : ResetCount(a) \/ TruncateCount(a)
  BY <1>2, <1>3, <1>6
<1>. QED
  BY <1>1, <1>4, <1>5, <1>6
     DEF Next, Proceed, vars, Refuse, Begin, Lock, Wipe, ReadSalt, CreateSalt, FillSalt,
         OpenDatabase, Publish, Crash

-----------------------------------------------------------------------------
HIDE DEF Go, Succeeds, Fails, Ended, files, history

\* The invariant holds of every execution, whatever attempts overlap.
THEOREM Invariance == Spec => []IInv
  BY InitInv, NextInv, PTL DEF Spec

\* Every variable of unlocking keeps its type; counts and ages stay in their
\* ranges.
THEOREM TypeCorrect == Spec => []TypeOK
<1>1. IInv => TypeOK
  BY DEF IInv
<1>. QED
  BY <1>1, Invariance, PTL

\* Without overlap vault.security counts the failures since the last success.
THEOREM FailuresAlwaysCounted == Spec => []CountsFailures
<1>1. IInv => CountsFailures
  BY DEF IInv, Counted, CountsFailures, InFlight, Recording
<1>. QED
  BY <1>1, Invariance, PTL

\* Unless first unlocks overlapped or a wipe was partial, vault.salt, vault.db
\* and the engine belong together.
THEOREM SaltAlwaysFits == Spec => []SaltFitsDatabase
<1>1. IInv => SaltFitsDatabase
  BY DEF IInv
<1>. QED
  BY <1>1, Invariance, PTL

\* No attempt that follows the others is let through before its delay.
THEOREM AlwaysThrottled == Spec => ThrottleHolds
<1>1. IInv /\ [Next]_vars =>
        [\A a \in Attempt :
          (~lost' /\ InFlight = {} /\ at'[a].pc = "salt" /\ wrongs.failed >= FreeFailures) =>
             wrongs.age >= Delay(wrongs.failed)]_vars
  BY StepThrottled
<1>. QED
  BY <1>1, Invariance, PTL DEF Spec, ThrottleHolds

\* The count of failures is forgotten by an attempt that has opened the
\* database, and by nothing else.
THEOREM OnlySuccessEverForgets == Spec => OnlySuccessForgets
<1>1. IInv /\ [Next]_vars =>
        [(~lost' /\ security'.failed < security.failed) =>
           \E a \in Attempt :
             \/ at[a].pc = "reset" /\ (~clash => db = KeyOf(a) /\ salt = at[a].salt)
             \/ at[a].pc = "wrong" /\ at[a].seen = security.failed /\ InFlight = {a}]_vars
  BY StepForgets
<1>. QED
  BY <1>1, Invariance, PTL DEF Spec, OnlySuccessForgets
=============================================================================
