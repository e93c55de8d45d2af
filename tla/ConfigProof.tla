----------------------------- MODULE ConfigProof -----------------------------
(***************************************************************************)
(* Proofs about Config for every number of saves in flight, every length   *)
(* of the settings and every bound.  IInv adds to the two properties what  *)
(* a save that is alone has done so far (AloneIsAlone): without it nothing *)
(* is known of the file a save finds when it writes.                       *)
(***************************************************************************)
EXTENDS Config, TLAPS

\* What load_config makes of any file is a set of settings.
LEMMA LoadedType == ASSUME NEW f \in File PROVE Loaded(f) \in Settings
BY ConfigAssumption DEF File, Loaded, Settings, OldFile, Default

\* Settings are read back as they were written.
LEMMA LoadedSettings == ASSUME NEW s \in Settings PROVE Loaded(s) = s
BY DEF Loaded

LEMMA EmptyIsNeither == Empty \notin Settings /\ Empty # Garbled
BY ConfigAssumption

LEMMA SavingSteps ==
  ASSUME NEW i \in Calls, call \in [Calls -> Saving \union {Idle}], call[i] # Idle
  PROVE  /\ call[i] \in Saving
         /\ call[i].config \in Settings /\ call[i].alone \in BOOLEAN
         /\ call[i].step \in {"register", "fill", "truncate", "write"}
BY DEF Saving

\* The program starts with the settings that it reads.
LEMMA InitInv == Init => IInv
<1> SUFFICES ASSUME Init PROVE IInv
  OBVIOUS
<1>1. file \in File /\ Loaded(file) \in Settings
  BY LoadedType DEF Init, File
<1>2. Settings \subseteq Shown
  BY DEF Settings, Shown
<1>3. TypeOK
  <2>1. appConfig \in Shown /\ saved \in Settings
    BY <1>1, <1>2 DEF Init
  <2>2. entry \in Entries
    BY DEF Init, EntryOf, Entries
  <2>3. call \in [Calls -> Saving \union {Idle}]
    BY DEF Init
  <2>4. platform \in Platforms /\ disturbed \in BOOLEAN /\ halfway \in BOOLEAN /\ changes \in Nat /\ faults \in Nat
    BY DEF Init
  <2> QED
    BY <1>1, <2>1, <2>2, <2>3, <2>4 DEF TypeOK
<1>4. InFlight = {}
  BY DEF Init, InFlight
<1> QED
  BY <1>3, <1>4 DEF Init, IInv, SettingsSurvive, RegistrationAgrees, AloneIsAlone

\* Every step keeps the inductive invariant.
LEMMA NextInv == IInv /\ [Next]_vars => IInv'
<1> SUFFICES ASSUME IInv, [Next]_vars PROVE IInv'
  OBVIOUS
<1> USE DEF IInv
<1>0. Settings \subseteq Shown /\ Default \in Settings /\ Loaded(file) \in Settings
  BY ConfigAssumption, LoadedType DEF Settings, Shown, Default, TypeOK
<1>1. ASSUME NEW i \in Calls, NEW s \in Shown, Change(i, s) PROVE IInv'
  <2> USE <1>1 DEF Change
  <2>1. CASE s \notin Settings
    <3>1. TypeOK'
      BY <2>1 DEF TypeOK
    <3> QED
      BY <2>1, <3>1 DEF SettingsSurvive, RegistrationAgrees, AloneIsAlone, Settled, At, InFlight
  <2>2. CASE s \in Settings
    <3> DEFINE first == [step |-> "register", config |-> s, alone |-> InFlight = {}]
    <3> DEFINE only == InFlight = {}
    <3>0. only \in BOOLEAN
      OBVIOUS
    <3>1. first \in Saving /\ first # Idle
      <4> HIDE DEF only
      <4>1. [step |-> "register", config |-> s, alone |-> only] \in Saving
        BY <2>2, <3>0 DEF Saving
      <4>2. first \in Saving
        BY <4>1 DEF only
      <4> QED
        BY <4>2, ConfigAssumption
    <3>2. ASSUME NEW j \in Calls, j # i, j \in InFlight
          PROVE  /\ call'[j] = [call[j] EXCEPT !.alone = FALSE]
                 /\ call'[j] \in Saving /\ call'[j] # Idle
                 /\ call'[j].alone = FALSE /\ call'[j].step = call[j].step
      <4>1. call'[j] = [call[j] EXCEPT !.alone = FALSE]
        BY <2>2, <3>2
      <4>2. call[j] \in Saving
        BY <3>2, SavingSteps DEF TypeOK, InFlight
      <4> QED
        BY <4>1, <4>2, ConfigAssumption DEF Saving
    <3>3. ASSUME NEW j \in Calls, j # i, j \notin InFlight PROVE call'[j] = Idle
      BY <2>2, <3>3
    <3>4. call'[i] = first /\ call[i] = Idle
      BY <2>2
    <3>5. InFlight' = InFlight \union {i}
      BY <3>1, <3>2, <3>3, <3>4 DEF InFlight
    <3>6. call' \in [Calls -> Saving \union {Idle}]
      <4>1. \A j \in Calls : call'[j] \in Saving \union {Idle}
        BY <3>1, <3>2, <3>3, <3>4
      <4> QED
        BY <4>1, <2>2
    <3>7. TypeOK'
      BY <3>6 DEF TypeOK
    <3>8. /\ Settled' => Settled
          /\ (\A j \in InFlight' : ~At(j, "write")') => \A j \in InFlight : ~At(j, "write")
      BY <3>2, <3>5, <3>4 DEF Settled, At, InFlight
    <3>9. AloneIsAlone'
      <4> SUFFICES ASSUME NEW j \in InFlight', call'[j].alone
                   PROVE  InFlight' = {j} /\ At(j, "register")'
        BY DEF AloneIsAlone, At
      <4>1. j = i
        BY <3>2, <3>5 DEF InFlight
      <4>2. InFlight = {}
        <5>1. first.alone
          BY <4>1, <3>4
        <5>2. first.alone = only
          OBVIOUS
        <5> QED
          BY <5>1, <5>2
      <4> QED
        BY <4>1, <4>2, <3>4, <3>5, <3>1 DEF At
    <3> QED
      BY <3>7, <3>8, <3>9 DEF SettingsSurvive, RegistrationAgrees
  <2> QED
    BY <2>1, <2>2
\* A save that leaves: the others stay as they are.
<1>2. ASSUME NEW i \in Calls, call[i] # Idle, call' = [call EXCEPT ![i] = Idle]
      PROVE  /\ call' \in [Calls -> Saving \union {Idle}]
             /\ InFlight' = InFlight \ {i}
             /\ \A j \in InFlight' : call'[j] = call[j]
             /\ (\A j \in InFlight' : ~call'[j].alone)
  <2>1. call' \in [Calls -> Saving \union {Idle}]
    BY <1>2 DEF TypeOK
  <2>2. \A j \in Calls : j # i => call'[j] = call[j]
    BY <1>2 DEF TypeOK
  <2>3. call'[i] = Idle
    BY <1>2 DEF TypeOK
  <2>4. InFlight' = InFlight \ {i}
    BY <2>2, <2>3 DEF InFlight
  <2>5. \A j \in InFlight' : call'[j] = call[j]
    BY <2>2, <2>4 DEF InFlight
  <2>6. ASSUME NEW j \in InFlight' PROVE ~call'[j].alone
    BY <1>2, <2>4, <2>5, <2>6 DEF AloneIsAlone, InFlight
  <2> QED
    BY <2>1, <2>4, <2>5, <2>6
\* A save that takes a step and goes on.
<1>3. ASSUME NEW i \in Calls, call[i] # Idle, NEW st \in {"fill", "truncate", "write"},
             Goes(i, st)
      PROVE  /\ call' \in [Calls -> Saving \union {Idle}]
             /\ InFlight' = InFlight
             /\ call'[i].step = st /\ call'[i].alone = call[i].alone
             /\ call'[i].config = call[i].config /\ call'[i] # Idle
             /\ \A j \in Calls \ {i} : call'[j] = call[j]
             /\ ~Settled'
  <2>1. call[i] \in Saving
    BY <1>3, SavingSteps DEF TypeOK
  <2>2. call'[i] = [call[i] EXCEPT !.step = st]
    BY <1>3 DEF TypeOK, Goes
  <2>3. /\ call'[i] \in Saving /\ call'[i] # Idle
        /\ call'[i].step = st /\ call'[i].alone = call[i].alone
        /\ call'[i].config = call[i].config
    BY <2>1, <2>2, ConfigAssumption DEF Saving
  <2>4. \A j \in Calls \ {i} : call'[j] = call[j]
    BY <1>3 DEF TypeOK, Goes
  <2>5. call' \in [Calls -> Saving \union {Idle}]
    BY <1>3, <2>3, <2>4 DEF TypeOK, Goes
  <2>6. InFlight' = InFlight
    BY <1>3, <2>3, <2>4 DEF InFlight
  <2>7. ~Settled'
    BY <1>3, <2>3, <2>6 DEF Settled, At, InFlight
  <2> QED
    BY <2>3, <2>4, <2>5, <2>6, <2>7
\* If it is alone, it is the one that IInv speaks about afterwards.
<1>4. ASSUME NEW i \in Calls, call[i] # Idle, NEW st \in {"fill", "truncate", "write"},
             Goes(i, st),
             call[i].alone => /\ (st = "fill" => entry' = "cut" /\ call[i].config.launch)
                              /\ (st # "fill" => entry' = EntryOf(call[i].config))
                              /\ (st = "write" => file' = Empty)
      PROVE  AloneIsAlone'
  <2> SUFFICES ASSUME NEW j \in InFlight', call'[j].alone
               PROVE  /\ InFlight' = {j}
                      /\ (At(j, "fill")' => entry' = "cut" /\ call'[j].config.launch)
                      /\ (At(j, "truncate")' \/ At(j, "write")' =>
                            entry' = EntryOf(call'[j].config))
                      /\ (At(j, "write")' => file' = Empty)
    BY DEF AloneIsAlone, EntryOf
  <2>1. InFlight' = InFlight /\ i \in InFlight
    BY <1>3, <1>4 DEF InFlight
  <2>2. InFlight = {j}
    <3>1. CASE j = i
      BY <3>1, <2>1, <1>3, <1>4 DEF AloneIsAlone
    <3>2. CASE j # i
      BY <3>2, <2>1, <1>3, <1>4 DEF AloneIsAlone, InFlight
    <3> QED
      BY <3>1, <3>2
  <2>3. j = i
    BY <2>1, <2>2
  <2> QED
    BY <1>3, <1>4, <2>1, <2>2, <2>3 DEF At
<1>5. ASSUME NEW i \in Calls, Register(i) PROVE IInv'
  <2>1. /\ At(i, "register") /\ call[i] # Idle
        /\ UNCHANGED <<platform, appConfig, file, saved, disturbed, halfway, changes, faults>>
    BY <1>5 DEF Register, At
  <2>2. PICK st \in {"fill", "truncate"} :
          /\ Goes(i, st)
          /\ st = "fill" => entry' = "cut" /\ call[i].config.launch
          /\ st = "truncate" => entry' = EntryOf(call[i].config)
    BY <1>5 DEF Register
  <2>3. entry' \in Entries
    BY <2>2 DEF EntryOf, Entries
  <2>4. TypeOK'
    BY <1>3, <2>1, <2>2, <2>3 DEF TypeOK
  <2>5. AloneIsAlone'
    BY <1>4, <2>1, <2>2
  <2>6. SettingsSurvive'
    <3>1. (\A j \in InFlight' : ~At(j, "write")') => \A j \in InFlight : ~At(j, "write")
      BY <1>3, <2>1, <2>2 DEF At, InFlight
    <3> QED
      BY <3>1, <2>1 DEF SettingsSurvive
  <2>7. ~Settled'
    BY <1>3, <2>1, <2>2
  <2> QED
    BY <2>4, <2>5, <2>6, <2>7 DEF RegistrationAgrees
<1>6. ASSUME NEW i \in Calls, RegisterRefused(i) PROVE IInv'
  <2> USE <1>6 DEF RegisterRefused, At
  <2>1. TypeOK' /\ AloneIsAlone'
    BY <1>2 DEF TypeOK, AloneIsAlone
  <2>2. /\ Settled' => Settled
        /\ (\A j \in InFlight' : ~At(j, "write")') => \A j \in InFlight : ~At(j, "write")
    BY <1>2 DEF Settled, InFlight
  <2> QED
    BY <2>1, <2>2 DEF SettingsSurvive, RegistrationAgrees
<1>7. ASSUME NEW i \in Calls, FillEntry(i) PROVE IInv'
  <2>1. /\ At(i, "fill") /\ call[i] # Idle /\ Goes(i, "truncate")
        /\ entry' = "whole" \/ (~call[i].alone /\ UNCHANGED entry)
        /\ UNCHANGED <<platform, appConfig, file, saved, disturbed, halfway, changes, faults>>
    BY <1>7 DEF FillEntry, At
  <2>2. TypeOK'
    BY <1>3, <2>1 DEF TypeOK, Entries
  <2>3. AloneIsAlone'
    <3>1. call[i].alone => call[i].config.launch
      BY <2>1 DEF AloneIsAlone, InFlight
    <3>2. call[i].alone => entry' = EntryOf(call[i].config)
      BY <3>1, <2>1 DEF EntryOf
    <3> QED
      BY <1>4, <2>1, <3>2
  <2>4. SettingsSurvive'
    <3>1. (\A j \in InFlight' : ~At(j, "write")') => \A j \in InFlight : ~At(j, "write")
      BY <1>3, <2>1 DEF At, InFlight
    <3> QED
      BY <3>1, <2>1 DEF SettingsSurvive
  <2>5. ~Settled'
    BY <1>3, <2>1
  <2> QED
    BY <2>2, <2>3, <2>4, <2>5 DEF RegistrationAgrees
<1>8. ASSUME NEW i \in Calls, Truncate(i) PROVE IInv'
  <2>1. /\ At(i, "truncate") /\ call[i] # Idle /\ Goes(i, "write") /\ file' = Empty
        /\ UNCHANGED <<platform, appConfig, entry, saved, disturbed, halfway, changes, faults>>
    BY <1>8 DEF Truncate, At
  <2>2. TypeOK'
    BY <1>3, <2>1 DEF TypeOK, File
  <2>3. AloneIsAlone'
    <3>1. call[i].alone => entry' = EntryOf(call[i].config)
      BY <2>1 DEF AloneIsAlone, InFlight
    <3> QED
      BY <1>4, <2>1, <3>1
  <2>4. i \in InFlight' /\ At(i, "write")'
    BY <1>3, <2>1 DEF At, InFlight
  <2>5. ~Settled'
    BY <1>3, <2>1
  <2> QED
    BY <2>2, <2>3, <2>4, <2>5 DEF SettingsSurvive, RegistrationAgrees
<1>9. ASSUME NEW i \in Calls, Write(i) PROVE IInv'
  <2> USE <1>9 DEF Write, At
  <2>1. call[i].config \in Settings /\ call[i].alone \in BOOLEAN
    BY SavingSteps DEF TypeOK
  <2>2. file' \in Settings \union {Garbled}
    BY <2>1 DEF Overwritten
  <2>3. TypeOK' /\ AloneIsAlone'
    <3>1. file' \in File
      BY <2>2 DEF File
    <3>2. TypeOK'
      BY <1>2, <2>1, <3>1 DEF TypeOK
    <3> QED
      BY <1>2, <3>2 DEF AloneIsAlone
  <2>4. ASSUME ~disturbed'
        PROVE  file' = call[i].config /\ entry' = EntryOf(call[i].config)
    <3>1. call[i].alone
      BY <2>4, <2>1 DEF TypeOK
    <3>2. file = Empty /\ entry = EntryOf(call[i].config)
      BY <3>1 DEF AloneIsAlone, InFlight
    <3> QED
      BY <3>2, EmptyIsNeither DEF Overwritten
  <2> QED
    BY <2>1, <2>3, <2>4, LoadedSettings DEF SettingsSurvive, RegistrationAgrees
\* Saves that are cut off leave behind what the two properties know of.
<1>10. ASSUME NEW S \in SUBSET InFlight, CutOff(S), UNCHANGED <<saved, entry>>,
              InFlight' = InFlight \ S, \A j \in InFlight' : call'[j] = call[j]
       PROVE  /\ SettingsSurvive' /\ RegistrationAgrees'
              /\ file' \in File /\ disturbed' \in BOOLEAN /\ halfway' \in BOOLEAN
  <2>1. file' \in File /\ disturbed' \in BOOLEAN /\ halfway' \in BOOLEAN
    BY <1>10 DEF CutOff, TypeOK, File
  <2>2. ASSUME ~disturbed' PROVE /\ ~disturbed /\ UNCHANGED file
                                 /\ \A i \in S : ~At(i, "write")
    BY <1>10, <2>2 DEF CutOff
  <2>3. SettingsSurvive'
    <3> SUFFICES ASSUME \A i \in InFlight' : ~At(i, "write")', ~disturbed'
                 PROVE  Loaded(file') = saved'
      BY DEF SettingsSurvive
    <3>1. \A i \in InFlight : ~At(i, "write")
      BY <1>10, <2>2 DEF At
    <3> QED
      BY <1>10, <2>2, <3>1 DEF SettingsSurvive
  <2>4. RegistrationAgrees'
    <3> SUFFICES ASSUME Settled', ~disturbed', ~halfway'
                 PROVE  entry' = EntryOf(Loaded(file'))
      BY DEF RegistrationAgrees
    <3>1. ~halfway /\ \A i \in S : ~At(i, "fill") /\ ~At(i, "truncate")
      BY <1>10 DEF CutOff
    <3>2. ASSUME NEW i \in InFlight PROVE At(i, "register")
      <4>1. CASE i \in S
        BY <4>1, <3>1, <3>2, <2>2, SavingSteps DEF At, TypeOK, InFlight
      <4>2. CASE i \notin S
        BY <4>2, <3>2, <1>10 DEF Settled, At
      <4> QED
        BY <4>1, <4>2
    <3> QED
      BY <1>10, <2>2, <3>1, <3>2 DEF RegistrationAgrees, Settled
  <2> QED
    BY <2>1, <2>3, <2>4
<1>11. ASSUME NEW i \in Calls, SaveFails(i) PROVE IInv'
  <2>1. /\ call[i] # Idle /\ call' = [call EXCEPT ![i] = Idle] /\ CutOff({i})
        /\ faults' = faults + 1
        /\ UNCHANGED <<platform, appConfig, entry, saved, changes>>
    BY <1>11 DEF SaveFails
  <2>2. {i} \in SUBSET InFlight
    BY <2>1 DEF InFlight
  <2>3. /\ SettingsSurvive' /\ RegistrationAgrees'
        /\ file' \in File /\ disturbed' \in BOOLEAN /\ halfway' \in BOOLEAN
    BY <1>2, <1>10, <2>1, <2>2
  <2>4. TypeOK'
    BY <1>2, <2>1, <2>3 DEF TypeOK
  <2>5. AloneIsAlone'
    BY <1>2, <2>1 DEF AloneIsAlone
  <2> QED
    BY <2>3, <2>4, <2>5
<1>12. CASE Restart
  <2>1. /\ call' = [i \in Calls |-> Idle] /\ CutOff(InFlight)
        /\ appConfig' \in {Loaded(file'), Default} /\ faults' \in {faults, faults + 1}
        /\ UNCHANGED <<platform, entry, saved, changes>>
    BY <1>12 DEF Restart
  <2>2. InFlight' = {}
    BY <2>1 DEF InFlight
  <2>3. /\ SettingsSurvive' /\ RegistrationAgrees'
        /\ file' \in File /\ disturbed' \in BOOLEAN /\ halfway' \in BOOLEAN
    BY <1>10, <2>1, <2>2
  <2>4. appConfig' \in Shown
    <3>1. Loaded(file') \in Settings
      BY <2>3, LoadedType
    <3> QED
      BY <1>0, <2>1, <3>1
  <2>5. TypeOK'
    BY <2>1, <2>3, <2>4 DEF TypeOK
  <2> QED
    BY <2>2, <2>3, <2>5 DEF AloneIsAlone
<1>13. CASE UNCHANGED vars
  BY <1>13 DEF vars, TypeOK, SettingsSurvive, RegistrationAgrees, AloneIsAlone, Settled, At, InFlight
<1> QED
  BY <1>1, <1>5, <1>6, <1>7, <1>8, <1>9, <1>11, <1>12, <1>13 DEF Next

\* The inductive invariant holds in every reachable state.
THEOREM Invariance == Spec => []IInv
BY InitInv, NextInv, PTL DEF Spec

\* TypeOK holds for every set of saves and every bound.
THEOREM TypeCorrect == Spec => []TypeOK
<1>1. IInv => TypeOK
  BY DEF IInv
<1> QED
  BY <1>1, Invariance, PTL

\* What the last save stored is what the next start loads, unless it overlapped
\* another or one was cut off in the middle of config.json.
THEOREM SettingsAlwaysSurvive == Spec => []SettingsSurvive
<1>1. IInv => SettingsSurvive
  BY DEF IInv
<1> QED
  BY <1>1, Invariance, PTL

\* The entry for the start with the desktop is complete or absent as
\* config.json says, unless moreover a save was cut off between the two.
THEOREM RegistrationAlwaysAgrees == Spec => []RegistrationAgrees
<1>1. IInv => RegistrationAgrees
  BY DEF IInv
<1> QED
  BY <1>1, Invariance, PTL
=============================================================================
