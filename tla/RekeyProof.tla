----------------------------- MODULE RekeyProof -----------------------------
(***************************************************************************)
(* Proofs about Rekey for any credentials, passwords and bounds: IInv is   *)
(* inductive, and every step is a step of AtomicRekey or changes nothing   *)
(* of what that specification sees.                                        *)
(***************************************************************************)
EXTENDS Rekey, TLAPS

\* A key pair is NoKey or a password and a salt.
LEMMA KeyParts ==
  ASSUME NEW k \in Key
  PROVE  k # NoKey /\ k[1] \in Password /\ k[2] \in Nat /\ k[2] \in 1 .. MaxSalts
         /\ k[1] # NoPassword
  BY RekeyAssumption DEF Key, Salt

\* Two keys that differ in the salt differ.
LEMMA PairIsKey ==
  ASSUME NEW pw \in Password, NEW n \in Salt
  PROVE  <<pw, n>> \in Key /\ <<pw, n>>[1] = pw /\ <<pw, n>>[2] = n
  BY DEF Key

\* Sets with the same elements are the same set.
LEMMA SameSet ==
  ASSUME NEW S, NEW T, \A x : x \in S <=> x \in T
  PROVE  S = T
  OBVIOUS

USE RekeyAssumption
USE DEF PC, ChangePC, Present, Succeeds, Fails, Return, files, NoSalt, TornSalt

\* The invariant holds of an empty directory.
LEMMA InitInv == Init => IInv
  BY DEF Init, IInv, TypeOK, KeysInv, OperationInv, CutInv, VaultOpens,
         AllReadable, RekeyedWhole, UsedBefore, Salt

\* Every step preserves the invariant.
LEMMA NextInv == IInv /\ [Next]_vars => IInv'
<1> SUFFICES ASSUME IInv, [Next]_vars PROVE IInv'
  OBVIOUS
<1> USE KeyParts, PairIsKey DEF IInv, TypeOK, KeysInv, OperationInv, CutInv, VaultOpens,
         AllReadable, RekeyedWhole, UsedBefore, Salt
<1>1. ASSUME NEW pw \in Password, UnlockFirst(pw) PROVE IInv'
  BY <1>1 DEF UnlockFirst
<1>2. ASSUME NEW pw \in Password, UnlockRead(pw) PROVE IInv'
  BY <1>2 DEF UnlockRead
<1>3. ASSUME NEW pw \in Password, BeginChange(pw) PROVE IInv'
  BY <1>3 DEF BeginChange, Idle
<1>4. CASE WriteFirstSalt
  BY <1>4 DEF WriteFirstSalt
<1>5. CASE UnlockOpen
  BY <1>5 DEF UnlockOpen
<1>6. CASE Lock
  BY <1>6 DEF Lock
<1>7. ASSUME NEW c \in Cred, AddCredential(c) PROVE IInv'
  BY <1>7 DEF AddCredential, Idle, Item
<1>8. ASSUME NEW c \in Cred, DeleteCredential(c) PROVE IInv'
  BY <1>8 DEF DeleteCredential, Idle
<1>9. ASSUME NEW c \in Cred, NEW n \in 1 .. MaxHist, SaveHistory(c, n) PROVE IInv'
  BY <1>9 DEF SaveHistory, Idle, Item
<1>10. ASSUME NEW i \in Item, UpsertCredential(i) PROVE IInv'
  BY <1>10 DEF UpsertCredential
<1>11. ASSUME NEW i \in Item, Reencrypt(i) PROVE IInv'
  <2>1. CASE /\ pc \in {"creds", "hist"} /\ i \in todo
              /\ item[i] = memKey /\ Succeeds
              /\ item' = [item EXCEPT ![i] = newKey]
              /\ todo' = todo \ {i}
              /\ UNCHANGED <<files, memKey, newKey, pc, salts, cut>>
    <3>1. /\ item' \in [Item -> Key \cup {NoKey}] /\ newKey \in Key
          /\ item'[i] = newKey
          /\ \A j \in Item : j # i => item'[j] = item[j]
      BY <2>1
    <3>2. Present' = Present
      BY <2>1, <3>1
    <3>3. TypeOK'
      BY <2>1, <3>1
    <3>4. KeysInv'
      BY <2>1, <3>1, <3>2
    <3>5. OperationInv'
      BY <2>1, <3>1, <3>2
    <3>6. AllReadable'
      BY <2>1, <3>1, <3>2
    <3>. QED
      BY <2>1, <3>3, <3>4, <3>5, <3>6
  <2>2. CASE pc \in {"creds", "hist"} /\ ChangeFails /\ (Succeeds \/ Fails)
    BY <2>2 DEF ChangeFails, Damage
  <2>. QED
    BY <1>11, <2>1, <2>2 DEF Reencrypt
<1>12. CASE ReadHistory
  BY <1>12 DEF ReadHistory, ChangeFails, Damage
<1>13. CASE RekeyDatabase
  BY <1>13 DEF RekeyDatabase, ChangeFails, Damage
<1>14. CASE TruncateSalt
  BY <1>14 DEF TruncateSalt, ChangeFails, Damage
<1>15. CASE WriteSalt
  BY <1>15 DEF WriteSalt, ChangeFails, Damage
<1>16. CASE Crash
  BY <1>16 DEF Crash, Damage
<1>17. CASE UNCHANGED vars
  BY <1>17 DEF vars
<1>. QED
  BY <1>1, <1>2, <1>3, <1>4, <1>5, <1>6, <1>7, <1>8, <1>9, <1>10, <1>11,
     <1>12, <1>13, <1>14, <1>15, <1>16, <1>17 DEF Next

-----------------------------------------------------------------------------
(* The refinement.                                                         *)

\* An empty directory shows an empty vault that no password opens.
LEMMA InitMaps == Init => Abstract!AInit
  BY DEF Init, Abstract!AInit, OpensNow, ReadableNow, Openable

\* A step of Rekey is a step of AtomicRekey or is not seen by it: a change
\* shows only when the new salt is written, or when it is interrupted.
LEMMA StepMaps == IInv /\ IInv' /\ [Next]_vars => [Abstract!ANext]_(Abstract!avars)
<1> SUFFICES ASSUME IInv, IInv', [Next]_vars
             PROVE  Abstract!ANext \/ UNCHANGED Abstract!avars
  OBVIOUS
<1> USE KeyParts, PairIsKey
        DEF IInv, TypeOK, KeysInv, OperationInv, CutInv, VaultOpens,
            AllReadable, RekeyedWhole, Salt
<1> USE DEF OpensNow, Openable
<1> DEFINE CanRead(i) ==
      /\ OpensNow # NoPassword /\ i \in Item /\ item[i] # NoKey
      /\ \/ pc \in {"truncate", "salt"} \/ item[i] = dbKey
         \/ pc \in ChangePC /\ item[i] = newKey
<1>a. ASSUME NEW i PROVE i \in ReadableNow <=> CanRead(i)
  BY DEF ReadableNow
<1>b. ASSUME NEW i PROVE i \in ReadableNow' <=> CanRead(i)'
  BY DEF ReadableNow
<1>c. ASSUME OpensNow' = OpensNow, Present' = Present, UNCHANGED faults,
             \A i \in Item : CanRead(i)' <=> CanRead(i)
      PROVE  UNCHANGED Abstract!avars
  <2>1. ReadableNow' = ReadableNow
    <3>1. \A i : CanRead(i)' <=> CanRead(i)
      BY <1>c
    <3>. HIDE DEF CanRead
    <3>2. \A i : i \in ReadableNow' <=> i \in ReadableNow
      BY <1>a, <1>b, <3>1
    <3>. QED
      BY <3>2, SameSet
  <2>. QED
    BY <1>c, <2>1 DEF Abstract!avars
<1>20. ASSUME pc \in {"creds", "hist"}, ChangeFails, Fails \/ Succeeds,
              Fails \/ ReadableNow # Present
       PROVE  Abstract!Interrupt
  <2>1. /\ UNCHANGED <<files, item>> /\ pc' = "idle"
        /\ OpensNow' = OpensNow /\ Present' = Present
    BY <1>20 DEF ChangeFails, Damage
  <2>2. ReadableNow' \subseteq ReadableNow
    BY <1>a, <1>b, <1>20, <2>1
  <2>. QED
    BY <1>20, <2>1, <2>2 DEF Abstract!Interrupt
<1>30. ASSUME pc \in {"truncate", "salt"}, pc' = "idle", UNCHANGED <<files, item>>,
              cut' = "salt", Fails
       PROVE  Abstract!Interrupt
  <2>1. Present' = Present /\ OpensNow' = NoPassword
    BY <1>30
  <2>2. ReadableNow' = {}
    BY <2>1 DEF ReadableNow
  <2>3. OpensNow # NoPassword => ReadableNow = Present
    BY <1>30 DEF ReadableNow
  <2>. QED
    BY <1>30, <2>1, <2>2, <2>3 DEF Abstract!Interrupt
<1>1. ASSUME NEW pw \in Password, UnlockFirst(pw) PROVE  UNCHANGED Abstract!avars
  BY <1>c, <1>1 DEF UnlockFirst
<1>2. ASSUME NEW pw \in Password, UnlockRead(pw) PROVE  UNCHANGED Abstract!avars
  BY <1>c, <1>2 DEF UnlockRead
<1>3. ASSUME NEW pw \in Password, BeginChange(pw) PROVE  UNCHANGED Abstract!avars
  BY <1>c, <1>3 DEF BeginChange, Idle
<1>4. CASE WriteFirstSalt
  BY <1>c, <1>4 DEF WriteFirstSalt
<1>5. CASE UnlockOpen
  <2>1. CASE dbKey = NoKey
    <3>1. /\ newKey[1] \in Password /\ newKey # NoKey
          /\ OpensNow = NoPassword /\ OpensNow' = newKey[1]
      BY <1>5, <2>1 DEF UnlockOpen
    <3>2. Present = {} /\ Present' = {} /\ UNCHANGED faults
      BY <1>5, <2>1 DEF UnlockOpen
    <3>3. ReadableNow = {} /\ ReadableNow' = {}
      BY <3>2 DEF ReadableNow
    <3>4. Abstract!Create(newKey[1])
      BY <3>1, <3>2, <3>3 DEF Abstract!Create
    <3>. QED
      BY <3>1, <3>4 DEF Abstract!ANext
  <2>2. CASE dbKey # NoKey
    BY <1>c, <1>5, <2>2 DEF UnlockOpen
  <2>. QED
    BY <2>1, <2>2
<1>6. CASE Lock
  BY <1>c, <1>6 DEF Lock
<1>7. ASSUME NEW c \in Cred, AddCredential(c) PROVE Abstract!Edit
  BY <1>a, <1>b, <1>7 DEF AddCredential, Idle, Item, Abstract!Edit
<1>8. ASSUME NEW c \in Cred, DeleteCredential(c) PROVE Abstract!Edit
  BY <1>a, <1>b, <1>8 DEF DeleteCredential, Idle, Abstract!Edit
<1>9. ASSUME NEW c \in Cred, NEW n \in 1 .. MaxHist, SaveHistory(c, n)
      PROVE  Abstract!ANext
  <2>1. /\ <<c, 0>> \in Present /\ <<c, 0>> \in Item /\ <<c, n>> \in Item
        /\ Present' = Present \cup {<<c, n>>}
        /\ \A i \in Item : item'[i] = IF i = <<c, n>> THEN item[<<c, 0>>] ELSE item[i]
    BY <1>9 DEF SaveHistory, Idle, Item
  <2>2. /\ OpensNow' = OpensNow /\ UNCHANGED files
        /\ faults' \in {faults, faults + 1}
        /\ pc = "idle" /\ pc' \in {"idle", "upsert"}
    BY <1>9 DEF SaveHistory, Idle
  <2>3. Abstract!Copy(<<c, 0>>, <<c, n>>)
    BY <1>a, <1>b, <2>1, <2>2 DEF Abstract!Copy
  <2>. QED
    BY <2>1, <2>3 DEF Abstract!ANext
<1>10. ASSUME NEW i \in Item, UpsertCredential(i) PROVE Abstract!Edit
  BY <1>a, <1>b, <1>10 DEF UpsertCredential, Abstract!Edit
<1>11. ASSUME NEW i \in Item, Reencrypt(i)
       PROVE  Abstract!Interrupt \/ UNCHANGED Abstract!avars
  <2>1. CASE item[i] = memKey /\ Succeeds /\ item' = [item EXCEPT ![i] = newKey]
    <3>1. /\ i \in todo /\ i \in Present /\ pc \in {"creds", "hist"}
          /\ newKey \in Key /\ memKey # newKey
          /\ UNCHANGED <<files, pc, newKey, faults>>
      BY <1>11, <2>1 DEF Reencrypt, ChangeFails
    <3>2. Present' = Present /\ OpensNow' = OpensNow
      BY <2>1, <3>1
    <3>3. OpensNow # NoPassword => item[i] = dbKey /\ item'[i] = newKey
      BY <2>1, <3>1
    <3>. QED
      BY <1>c, <2>1, <3>1, <3>2, <3>3
  <2>2. CASE pc \in {"creds", "hist"} /\ Fails /\ ChangeFails
    BY <1>20, <2>2
  <2>3. CASE item[i] # memKey /\ Succeeds /\ ChangeFails
    <3>1. i \in todo /\ i \in Present /\ pc \in {"creds", "hist"}
      BY <1>11 DEF Reencrypt
    <3>2. item[i] # newKey
      BY <3>1
    <3>3. OpensNow # NoPassword => item[i] # dbKey
      BY <2>3, <3>1
    <3>4. i \notin ReadableNow
      BY <1>a, <3>1, <3>2, <3>3
    <3>. QED
      BY <1>20, <2>3, <3>1, <3>4
  <2>. QED
    BY <1>11, <2>1, <2>2, <2>3 DEF Reencrypt
<1>12. CASE ReadHistory
  <2>1. CASE Fails /\ ChangeFails
    BY <1>12, <1>20, <2>1 DEF ReadHistory, Abstract!ANext
  <2>2. CASE Succeeds /\ pc' = "hist"
    BY <1>c, <1>12, <2>2 DEF ReadHistory, ChangeFails
  <2>. QED
    BY <1>12, <2>1, <2>2 DEF ReadHistory
<1>13. CASE RekeyDatabase
  <2>1. CASE Fails /\ ChangeFails
    BY <1>13, <1>20, <2>1 DEF RekeyDatabase, Abstract!ANext
  <2>2. CASE Succeeds /\ dbKey' = newKey
    <3>1. /\ pc = "hist" /\ pc' = "truncate" /\ todo = {} /\ newKey \in Key
          /\ UNCHANGED <<saltFile, item, memKey, newKey, cut, faults>>
      BY <1>13, <2>2 DEF RekeyDatabase, ChangeFails
    <3>2. OpensNow' = OpensNow /\ Present' = Present
      BY <2>2, <3>1
    <3>. QED
      BY <1>c, <2>2, <3>1, <3>2
  <2>. QED
    BY <1>13, <2>1, <2>2 DEF RekeyDatabase
<1>14. CASE TruncateSalt
  <2>1. CASE Succeeds /\ pc' = "salt"
    BY <1>c, <1>14, <2>1 DEF TruncateSalt, ChangeFails
  <2>2. CASE Fails /\ ChangeFails
    BY <1>14, <1>30, <2>2 DEF TruncateSalt, ChangeFails, Damage, Abstract!ANext
  <2>. QED
    BY <1>14, <2>1, <2>2 DEF TruncateSalt
<1>15. CASE WriteSalt
  <2>1. CASE Succeeds /\ Return /\ saltFile' = newKey[2] /\ UNCHANGED dbKey
    <3>1. /\ newKey \in Key /\ dbKey = newKey /\ pc = "salt" /\ pc' = "idle"
          /\ UNCHANGED <<dbKey, item, faults>> /\ \A i \in Present : item[i] = newKey
      BY <1>15, <2>1 DEF WriteSalt, ChangeFails
    <3>2. OpensNow' = newKey[1] /\ Present' = Present
      BY <2>1, <3>1
    <3>3. ReadableNow' = Present
      BY <1>b, <2>1, <3>1, <3>2
    <3>4. Abstract!Change(newKey[1])
      BY <3>1, <3>2, <3>3 DEF Abstract!Change
    <3>. QED
      BY <3>1, <3>4 DEF Abstract!ANext
  <2>2. CASE Fails /\ ChangeFails
    BY <1>15, <1>30, <2>2 DEF WriteSalt, ChangeFails, Damage, Abstract!ANext
  <2>. QED
    BY <1>15, <2>1, <2>2 DEF WriteSalt, ChangeFails
<1>16. CASE Crash
  <2>1. UNCHANGED <<files, item>> /\ pc' = "idle" /\ pc # "idle" /\ faults' = faults + 1
    BY <1>16 DEF Crash
  <2>2. Present' = Present
    BY <2>1
  <2>3. CASE pc \in {"truncate", "salt"}
    BY <1>16, <1>30, <2>1, <2>2, <2>3 DEF Crash, Damage, Abstract!ANext
  <2>4. CASE pc \notin {"truncate", "salt"}
    <3>1. OpensNow' = OpensNow
      BY <2>1, <2>4
    <3>2. ReadableNow' \subseteq ReadableNow
      BY <1>a, <1>b, <2>1, <2>4, <3>1
    <3>. QED
      BY <2>1, <2>2, <3>1, <3>2 DEF Abstract!Interrupt, Abstract!ANext
  <2>. QED
    BY <2>3, <2>4
<1>17. CASE UNCHANGED vars
  BY <1>c, <1>17 DEF vars
<1>. QED
  <2>1. (\E c \in Cred : AddCredential(c) \/ DeleteCredential(c)) \/ (\E i \in Item : UpsertCredential(i))
        => Abstract!ANext
    BY <1>7, <1>8, <1>10 DEF Abstract!ANext
  <2>2. (\E i \in Item : Reencrypt(i)) => Abstract!ANext \/ UNCHANGED Abstract!avars
    BY <1>11 DEF Abstract!ANext
  <2>. QED
    BY <1>1, <1>2, <1>3, <1>4, <1>5, <1>6, <1>9, <1>12, <1>13, <1>14, <1>15,
       <1>16, <1>17, <2>1, <2>2 DEF Next

-----------------------------------------------------------------------------
HIDE DEF PC, ChangePC, Present, Succeeds, Fails, Return, files, NoSalt, TornSalt

\* The invariant holds of every execution of change_master_password and of
\* the commands around it.
THEOREM Invariance == Spec => []IInv
  BY InitInv, NextInv, PTL DEF Spec

\* Every variable keeps its type: the salt file holds nothing, a torn or a
\* generated salt, and each value is under a key that was derived.
THEOREM TypeCorrect == Spec => []TypeOK
<1>1. IInv => TypeOK
  BY DEF IInv
<1>. QED
  BY <1>1, Invariance, PTL

\* A change that returns an error before PRAGMA rekey leaves a vault that the
\* old password opens; only the gap between rekey and the salt file does not.
THEOREM VaultAlwaysOpens == Spec => []VaultOpens
<1>1. IInv => VaultOpens
  BY DEF IInv
<1>. QED
  BY <1>1, Invariance, PTL

\* As long as no change was cut, every stored value and every history row is
\* under the key of the database.
THEOREM AllAlwaysReadable == Spec => []AllReadable
<1>1. IInv => AllReadable
  BY DEF IInv
<1>. QED
  BY <1>1, Invariance, PTL

\* The salt file is touched only when every value is under the new key.
THEOREM AlwaysRekeyedWhole == Spec => []RekeyedWhole
<1>1. IInv => RekeyedWhole
  BY DEF IInv
<1>. QED
  BY <1>1, Invariance, PTL

\* Every execution is one of AtomicRekey: the new password is in force and
\* everything can be read with it in one step, the last one, or the change
\* was interrupted.
THEOREM Refinement == Spec => ChangeIsAtomic
  BY InitMaps, StepMaps, Invariance, PTL DEF Spec, ChangeIsAtomic, Abstract!ASpec

\* A change that answers Ok leaves the database, the salt file and every value
\* under the new password.
THEOREM ChangeOkAlwaysWhole == Spec => ChangeOkIsWhole
<1>1. IInv /\ [Next]_vars =>
        [pc = "salt" /\ memKey' \notin {memKey, NoKey} =>
           /\ dbKey' = memKey' /\ saltFile' = memKey'[2]
           /\ \A i \in Item : item'[i] \in {NoKey, memKey'}]_vars
  <2> SUFFICES ASSUME IInv, Next, pc = "salt", memKey' \notin {memKey, NoKey}
               PROVE  /\ dbKey' = memKey' /\ saltFile' = memKey'[2]
                      /\ \A i \in Item : item'[i] \in {NoKey, memKey'}
    OBVIOUS
  <2>1. WriteSalt /\ ~ChangeFails
    BY DEF Next, UnlockFirst, UnlockRead, BeginChange, WriteFirstSalt, UnlockOpen,
         Lock, AddCredential, DeleteCredential, SaveHistory, UpsertCredential,
         Reencrypt, ReadHistory, RekeyDatabase, TruncateSalt, WriteSalt, Crash,
         Idle, ChangeFails, Return
  <2>2. /\ saltFile' = newKey[2] /\ memKey' = newKey
        /\ UNCHANGED <<dbKey, item>>
    BY <2>1 DEF WriteSalt
  <2>3. dbKey = newKey
    BY DEF IInv, OperationInv
  <2>4. \A i \in Item : item[i] \in {NoKey, newKey}
    BY DEF IInv, RekeyedWhole, Present
  <2>. QED
    BY <2>2, <2>3, <2>4
<1>. QED
  BY <1>1, Invariance, PTL DEF Spec, ChangeOkIsWhole

\* While a value is under a dropped key, the key of the database stays.
THEOREM LossAlwaysBlocksChange == Spec => LossBlocksChange
<1>1. IInv /\ [Next]_vars =>
        [(\E i \in Present : item[i] \notin {dbKey, newKey}) => UNCHANGED dbKey]_vars
  <2> SUFFICES ASSUME IInv, Next, NEW i \in Present, item[i] \notin {dbKey, newKey}
               PROVE  dbKey' = dbKey
    OBVIOUS
  <2>1. CASE UnlockOpen
    <3>1. dbKey # NoKey
      BY DEF IInv, KeysInv
    <3>. QED
      BY <2>1, <3>1 DEF UnlockOpen
  <2>2. CASE RekeyDatabase
    <3>1. pc = "hist" /\ todo = {} => item[i] = newKey
      BY DEF IInv, OperationInv
    <3>. QED
      BY <2>2, <3>1 DEF RekeyDatabase
  <2>. QED
    BY <2>1, <2>2 DEF Next, UnlockFirst, UnlockRead, BeginChange, WriteFirstSalt,
         Lock, AddCredential, DeleteCredential, SaveHistory, UpsertCredential,
         Reencrypt, ReadHistory, TruncateSalt, WriteSalt, Crash, ChangeFails, files
<1>. QED
  BY <1>1, Invariance, PTL DEF Spec, LossBlocksChange
=============================================================================
