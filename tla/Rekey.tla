------------------------------- MODULE Rekey --------------------------------
(***************************************************************************)
(* change_master_password: the values of the vault are re-encrypted one by *)
(* one under a key derived from the new password and a new salt, then the  *)
(* database is rekeyed, then the salt file is replaced, each with its own  *)
(* await and no transaction around them.  Any step can fail, and the       *)
(* application can die between any two.                                    *)
(*                                                                         *)
(* A key pair (database key and master key) is modelled by what it is      *)
(* derived from, <<password, salt>>: Argon2id and HKDF are taken to be     *)
(* injective, and AES-GCM to refuse every key but the right one.           *)
(***************************************************************************)
EXTENDS Naturals

CONSTANTS
  Cred,      \* credentials
  MaxHist,   \* rows of credential_history a credential can have
  Password, NoPassword, NoKey,
  MaxSalts,  \* bound: salts generated in the life of the vault
  MaxFaults  \* bound: steps that fail or are cut by a crash

Salt == 1 .. MaxSalts
NoSalt == 0               \* vault.salt does not exist
TornSalt == MaxSalts + 1  \* vault.salt was truncated and not written
Key == Password \X Salt

\* <<c, 0>> is the current value of c, <<c, n>> a row of its history.
Item == Cred \X (0 .. MaxHist)

ASSUME RekeyAssumption ==
  /\ MaxHist \in Nat /\ MaxSalts \in Nat /\ MaxFaults \in Nat
  /\ NoKey \notin Key
  /\ NoPassword \notin Password

VARIABLES
  saltFile, \* vault.salt
  dbKey,    \* the key pair vault.db is encrypted with, NoKey before it exists
  item,     \* the key pair each value is encrypted with, NoKey if absent
  memKey,   \* the key pair of the open engine, NoKey when locked
  newKey,   \* the key pair the operation in flight has derived
  pc, todo, \* where it is and the items it has still to handle
  salts,    \* how many salts have been generated
  faults,   \* how many steps have failed
  cut       \* history variable: what an interrupted change left behind

files == <<saltFile, dbKey>>
vars == <<files, item, memKey, newKey, pc, todo, salts, faults, cut>>

ChangePC == {"creds", "hist", "truncate", "salt"}
PC == {"idle", "newSalt", "open", "upsert"} \cup ChangePC

Present == {i \in Item : item[i] # NoKey}
IsHistory(i) == i[2] # 0

Succeeds == UNCHANGED faults
Fails == faults < MaxFaults /\ faults' = faults + 1

Return == pc' = "idle" /\ newKey' = NoKey /\ todo' = {}

Init ==
  /\ saltFile = NoSalt /\ dbKey = NoKey
  /\ item = [i \in Item |-> NoKey]
  /\ memKey = NoKey /\ newKey = NoKey
  /\ pc = "idle" /\ todo = {}
  /\ salts = 0 /\ faults = 0 /\ cut = "no"

-----------------------------------------------------------------------------
(* envGuard::unlock.                                                       *)

\* No salt file: a salt is generated, the file is created empty and written.
UnlockFirst(pw) ==
  /\ pc = "idle" /\ memKey = NoKey /\ saltFile = NoSalt
  /\ salts < MaxSalts /\ salts' = salts + 1
  /\ saltFile' = TornSalt
  /\ newKey' = <<pw, salts + 1>> /\ pc' = "newSalt"
  /\ UNCHANGED <<dbKey, item, memKey, todo, faults, cut>>

WriteFirstSalt ==
  /\ pc = "newSalt" /\ pc' = "open"
  /\ saltFile' = newKey[2]
  /\ UNCHANGED <<dbKey, item, memKey, newKey, todo, salts, faults, cut>>

\* An empty salt file is too short for Argon2 and ends the unlock.
UnlockRead(pw) ==
  /\ pc = "idle" /\ memKey = NoKey /\ saltFile \in Salt
  /\ newKey' = <<pw, saltFile>> /\ pc' = "open"
  /\ UNCHANGED <<files, item, memKey, todo, salts, faults, cut>>

\* init_database creates the database or opens it with the key derived; a
\* wrong key is refused by SQLCipher.
UnlockOpen ==
  /\ pc = "open" /\ Return
  /\ \/ /\ dbKey \in {NoKey, newKey}
        /\ dbKey' = newKey /\ memKey' = newKey
     \/ dbKey \notin {NoKey, newKey} /\ UNCHANGED <<dbKey, memKey>>
  /\ UNCHANGED <<saltFile, item, salts, faults, cut>>

Lock ==
  /\ pc = "idle" /\ memKey # NoKey
  /\ memKey' = NoKey
  /\ UNCHANGED <<files, item, newKey, pc, todo, salts, faults, cut>>

-----------------------------------------------------------------------------
(* What the other commands do to the values.                               *)

Idle == pc = "idle" /\ memKey # NoKey

AddCredential(c) ==
  /\ Idle /\ item[<<c, 0>>] = NoKey
  /\ item' = [item EXCEPT ![<<c, 0>>] = memKey]
  /\ UNCHANGED <<files, memKey, newKey, pc, todo, salts, faults, cut>>

\* update_credential copies the old ciphertext into the history (the row n
\* is new, or the oldest one is pruned for it) without decrypting it; when
\* the pruning fails the command returns with the row already there ...
SaveHistory(c, n) ==
  /\ Idle /\ item[<<c, 0>>] # NoKey
  /\ item' = [item EXCEPT ![<<c, n>>] = item[<<c, 0>>]]
  /\ \/ Succeeds /\ pc' = "upsert" /\ todo' = {<<c, 0>>}
     \/ Fails /\ UNCHANGED <<pc, todo>>
  /\ UNCHANGED <<files, memKey, newKey, salts, cut>>

\* ... and then stores the new value.
UpsertCredential(i) ==
  /\ pc = "upsert" /\ i \in todo /\ Return
  /\ \/ Succeeds /\ item' = [item EXCEPT ![i] = memKey]
     \/ Fails /\ UNCHANGED item
  /\ UNCHANGED <<files, memKey, salts, cut>>

\* The history rows go with the credential (ON DELETE CASCADE).
DeleteCredential(c) ==
  /\ Idle /\ item[<<c, 0>>] # NoKey
  /\ item' = [i \in Item |-> IF i[1] = c THEN NoKey ELSE item[i]]
  /\ UNCHANGED <<files, memKey, newKey, pc, todo, salts, faults, cut>>

-----------------------------------------------------------------------------
(* change_master_password.                                                 *)

BeginChange(pw) ==
  /\ Idle
  /\ salts < MaxSalts /\ salts' = salts + 1
  /\ newKey' = <<pw, salts + 1>>
  /\ todo' = {i \in Present : ~IsHistory(i)}
  /\ pc' = "creds"
  /\ UNCHANGED <<files, item, memKey, faults, cut>>

\* What an interrupted change leaves: nothing yet, values under a key that
\* nobody keeps, or a rekeyed database with the wrong salt next to it.
Damage ==
  IF pc \in {"truncate", "salt"} \/ cut = "salt" THEN "salt"
  ELSE IF \E i \in Item : newKey # NoKey /\ item[i] = newKey THEN "items" ELSE cut

\* The error is returned with ?; master_key is still the old one.
ChangeFails ==
  /\ Return /\ cut' = Damage
  /\ UNCHANGED <<files, item, memKey, salts>>

\* Slip: a value that cannot be decrypted is skipped with continue.
ReencryptOrSkip(i) ==
  /\ pc \in {"creds", "hist"} /\ i \in todo /\ Succeeds
  /\ item' = IF item[i] = memKey THEN [item EXCEPT ![i] = newKey] ELSE item
  /\ todo' = todo \ {i}
  /\ UNCHANGED <<files, memKey, newKey, pc, salts, cut>>

\* decrypt_value with the old key, encrypt_value with the new one, UPDATE.
Reencrypt(i) ==
  /\ pc \in {"creds", "hist"} /\ i \in todo
  /\ \/ /\ item[i] = memKey /\ Succeeds
        /\ item' = [item EXCEPT ![i] = newKey]
        /\ todo' = todo \ {i}
        /\ UNCHANGED <<files, memKey, newKey, pc, salts, cut>>
     \/ item[i] = memKey /\ Fails /\ ChangeFails
     \/ item[i] # memKey /\ Succeeds /\ ChangeFails

\* Slip: the history table is forgotten.
ForgetHistory ==
  /\ pc = "creds" /\ todo = {}
  /\ Succeeds /\ pc' = "hist"
  /\ UNCHANGED <<files, item, memKey, newKey, todo, salts, cut>>

ReadHistory ==
  /\ pc = "creds" /\ todo = {}
  /\ \/ /\ Succeeds /\ pc' = "hist"
        /\ todo' = {i \in Present : IsHistory(i)}
        /\ UNCHANGED <<files, item, memKey, newKey, salts, cut>>
     \/ Fails /\ ChangeFails

\* Slip: the result of PRAGMA rekey is discarded with let _ =.
RekeyOrIgnore ==
  /\ pc = "hist" /\ todo = {} /\ pc' = "truncate"
  /\ \/ Succeeds /\ dbKey' = newKey
     \/ Fails /\ UNCHANGED dbKey
  /\ UNCHANGED <<saltFile, item, memKey, newKey, todo, salts, cut>>

\* PRAGMA rekey, atomic in SQLCipher.
RekeyDatabase ==
  /\ pc = "hist" /\ todo = {}
  /\ \/ /\ Succeeds /\ pc' = "truncate"
        /\ dbKey' = newKey
        /\ UNCHANGED <<saltFile, item, memKey, newKey, todo, salts, cut>>
     \/ Fails /\ ChangeFails

\* std::fs::write opens the file with O_TRUNC ...
TruncateSalt ==
  /\ pc = "truncate"
  /\ \/ /\ Succeeds /\ pc' = "salt"
        /\ saltFile' = TornSalt
        /\ UNCHANGED <<dbKey, item, memKey, newKey, todo, salts, cut>>
     \/ Fails /\ ChangeFails

\* Slip: the engine goes on with the old master key.
WriteSaltOnly ==
  /\ pc = "salt" /\ Succeeds /\ Return
  /\ saltFile' = newKey[2] /\ cut' = "no"
  /\ UNCHANGED <<dbKey, item, memKey, salts>>

\* Slip: the pair of what the key is derived from is taken the wrong way round.
WriteWrongHalf ==
  /\ pc = "salt" /\ Succeeds /\ Return
  /\ saltFile' = newKey[1] /\ memKey' = newKey /\ cut' = "no"
  /\ UNCHANGED <<dbKey, item, salts>>

\* ... and writes it; then the engine takes the new key.
WriteSalt ==
  /\ pc = "salt"
  /\ \/ /\ Succeeds /\ Return
        /\ saltFile' = newKey[2] /\ memKey' = newKey
        /\ cut' = "no"
        /\ UNCHANGED <<dbKey, item, salts>>
     \/ Fails /\ ChangeFails

\* The application dies in the middle of an operation.
Crash ==
  /\ pc # "idle" /\ Fails
  /\ memKey' = NoKey /\ Return
  /\ cut' = IF pc \in ChangePC THEN Damage ELSE cut
  /\ UNCHANGED <<files, item, salts>>

-----------------------------------------------------------------------------
Next ==
  \/ \E pw \in Password : UnlockFirst(pw) \/ UnlockRead(pw) \/ BeginChange(pw)
  \/ WriteFirstSalt \/ UnlockOpen \/ Lock
  \/ \E c \in Cred : AddCredential(c) \/ DeleteCredential(c)
  \/ \E c \in Cred, n \in 1 .. MaxHist : SaveHistory(c, n)
  \/ \E i \in Item : UpsertCredential(i) \/ Reencrypt(i)
  \/ ReadHistory \/ RekeyDatabase \/ TruncateSalt \/ WriteSalt
  \/ Crash

Spec == Init /\ [][Next]_vars

-----------------------------------------------------------------------------
TypeOK ==
  /\ saltFile \in 0 .. MaxSalts + 1
  /\ dbKey \in Key \cup {NoKey}
  /\ item \in [Item -> Key \cup {NoKey}]
  /\ memKey \in Key \cup {NoKey}
  /\ newKey \in Key \cup {NoKey}
  /\ pc \in PC
  /\ todo \subseteq Item
  /\ salts \in 0 .. MaxSalts
  /\ faults \in 0 .. MaxFaults
  /\ cut \in {"no", "items", "salt"}

\* Unless a change was cut between PRAGMA rekey and the salt file, the vault
\* can be opened: the salt on disk is the one the database key comes from,
\* and an open engine works with that key.  A change that fails earlier
\* leaves the old password in force.
VaultOpens ==
  (dbKey # NoKey /\ cut # "salt" /\ pc \notin {"truncate", "salt"}) =>
    saltFile = dbKey[2] /\ memKey \in {NoKey, dbKey}

\* Unless a change was cut, every stored value is under the database's key
\* whenever no change is running; while one is, under the old or the new.
AllReadable ==
  cut = "no" =>
    \A i \in Present : item[i] \in
      IF pc \in ChangePC THEN {memKey, newKey} ELSE {dbKey}

\* The database is rekeyed, and the salt replaced, only when every value has
\* been re-encrypted: a retry after a cut change cannot get past the values
\* that the lost key of the first attempt encrypts.
RekeyedWhole ==
  pc \in {"truncate", "salt"} => \A i \in Present : item[i] = newKey

\* A change that answers Ok leaves everything under the password it was given:
\* database, salt file, and every value, whatever was cut off or failed before.
ChangeOkIsWhole ==
  [][pc = "salt" /\ memKey' \notin {memKey, NoKey} =>
       /\ dbKey' = memKey' /\ saltFile' = memKey'[2]
       /\ \A i \in Item : item'[i] \in {NoKey, memKey'}]_vars

\* As long as a value is under a key that a failed change has dropped, no
\* change of the password gets as far as the database.
LossBlocksChange ==
  [][(\E i \in Present : item[i] \notin {dbKey, newKey}) => UNCHANGED dbKey]_vars

-----------------------------------------------------------------------------
(* The abstract view.  The change is in progress behind the vault mutex,   *)
(* so that until it ends the vault is what it was when it began.           *)
Openable == dbKey # NoKey /\ saltFile = dbKey[2]

OpensNow ==
  IF pc \in {"truncate", "salt"}
    THEN IF cut = "salt" THEN NoPassword ELSE memKey[1]
    ELSE IF Openable THEN dbKey[1] ELSE NoPassword

ReadableNow ==
  IF OpensNow = NoPassword THEN {}
  ELSE IF pc \in {"truncate", "salt"} THEN Present
  ELSE {i \in Present : item[i] = dbKey \/ (pc \in ChangePC /\ item[i] = newKey)}

Abstract == INSTANCE AtomicRekey
  WITH opens <- OpensNow, present <- Present, readable <- ReadableNow

\* Seen from outside, a change of the password is atomic unless a fault, or a
\* value already lost, interrupts it.
ChangeIsAtomic == Abstract!ASpec

-----------------------------------------------------------------------------
(* The inductive invariant of the proofs.  Salts are fresh, so the new key  *)
(* of a change is none of the keys in use.                                  *)

UsedBefore(k, n) == k # NoKey => k[2] <= n

KeysInv ==
  /\ UsedBefore(dbKey, salts) /\ UsedBefore(memKey, salts)
  /\ UsedBefore(newKey, salts)
  /\ \A i \in Item : UsedBefore(item[i], salts)
  /\ saltFile \in Salt => saltFile <= salts
  /\ saltFile = NoSalt => dbKey = NoKey
  /\ dbKey = NoKey => memKey = NoKey /\ Present = {} /\ cut = "no"

OperationInv ==
  /\ pc \in {"idle", "upsert"} => newKey = NoKey
  /\ pc = "upsert" => memKey # NoKey /\ todo \subseteq Present
  /\ pc = "newSalt" => newKey # NoKey /\ memKey = NoKey /\ dbKey = NoKey
  /\ pc = "open" => newKey # NoKey /\ memKey = NoKey /\ saltFile = newKey[2]
  /\ pc \in ChangePC =>
       newKey # NoKey /\ newKey[2] = salts /\ memKey # NoKey /\ memKey[2] < salts
  /\ pc \in {"creds", "hist"} =>
       dbKey # NoKey /\ dbKey[2] < salts /\ todo \subseteq Present
  /\ pc \in {"creds", "hist", "truncate"} => saltFile # salts
  /\ pc = "creds" => \A i \in todo : ~IsHistory(i)
  /\ pc = "creds" => \A i \in Present :
       item[i] = newKey <=> ~IsHistory(i) /\ i \notin todo
  /\ pc = "hist" => \A i \in Present : item[i] = newKey <=> i \notin todo
  /\ pc \in {"truncate", "salt"} => dbKey = newKey
  /\ pc = "salt" => saltFile = TornSalt

\* The salt of a cut change never comes back.
CutInv ==
  cut = "salt" /\ pc \notin {"truncate", "salt"} => saltFile # dbKey[2]

IInv == TypeOK /\ KeysInv /\ OperationInv /\ CutInv /\ VaultOpens
        /\ AllReadable /\ RekeyedWhole

-----------------------------------------------------------------------------
\* "Failed to change password" is what the application reports of a change
\* that returned an error: fails, since values stay behind under a key that
\* is gone.
FailedChangeKeepsValues ==
  (pc = "idle" /\ memKey # NoKey) => \A i \in Present : item[i] = memKey
=============================================================================
