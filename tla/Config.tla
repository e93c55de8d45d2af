------------------------------- MODULE Config -------------------------------
(***************************************************************************)
(* The settings: the copy that the window edits (appConfig in app.js), the *)
(* file config.json (config.rs) and the entry that starts the application  *)
(* with the desktop.  Every change in the window sends all settings to     *)
(* save_app_config, which takes no mutex: several saves can be in flight,  *)
(* and each of their steps can fail.                                       *)
(***************************************************************************)
EXTENDS Naturals

CONSTANTS
  Calls,         \* save_app_config commands that can be in flight
  Themes,        \* the values of a field that config.json must have
  Minutes,       \* the numbers of a field that it may lack
  NoNumber,      \* what an emptied or negative number field holds
  DefaultTheme, DefaultMinutes,
  Bytes,         \* the length of settings written as JSON
  Missing, Empty, Garbled,   \* config.json: not there, cut to no byte, no JSON
  Idle,
  Platforms,     \* those among "windows" and "unix" that are looked at
  MaxChanges,    \* bound: changes in the window
  MaxFaults      \* bound: errors of the system, and ends of the process

VARIABLES
  platform,   \* never changes
  appConfig,  \* the settings the window shows
  file,       \* config.json
  entry,      \* the entry for the start with the desktop
  call,       \* the saves in flight
  saved,      \* ghost: the settings of the last save that answered Ok
  disturbed,  \* ghost: that save overlapped another, or one was cut off in
              \* the middle of config.json since
  halfway,    \* ghost: one was cut off between its entry and config.json since
  changes, faults

vars == <<platform, appConfig, file, entry, call, saved, disturbed, halfway,
          changes, faults>>

Settings == [theme : Themes, launch : BOOLEAN, minutes : Minutes]
\* What a version of the program without the number field has written.
OldFile == [theme : Themes, launch : BOOLEAN]
Default == [theme |-> DefaultTheme, launch |-> FALSE, minutes |-> DefaultMinutes]
File    == Settings \union OldFile \union {Missing, Empty, Garbled}

\* alone: no other save has been in flight since this one began
Saving == [step : {"register", "fill", "truncate", "write"}, config : Settings,
           alone : BOOLEAN]

\* The entry: not there, begun and not finished, or complete.
Entries == {"none", "cut", "whole"}
EntryOf(s) == IF s.launch THEN "whole" ELSE "none"

ASSUME ConfigAssumption ==
  /\ DefaultTheme \in Themes /\ DefaultMinutes \in Minutes
  /\ NoNumber \notin Minutes
  /\ Bytes \in [Settings -> Nat]
  /\ {Missing, Empty, Garbled} \intersect (Settings \union OldFile) = {}
  /\ Empty # Garbled
  /\ Idle \notin Saving
  /\ Platforms \subseteq {"windows", "unix"}
  /\ MaxChanges \in Nat /\ MaxFaults \in Nat

InFlight == {i \in Calls : call[i] # Idle}
At(i, step) == call[i] # Idle /\ call[i].step = step

\* Slip: no serde default for the number.
LoadedAsIs(f) == IF f \in Settings \union OldFile THEN f ELSE Default

\* load_config: what is missing or does not parse counts as the defaults,
\* and so does a number that an old file lacks.
Loaded(f) ==
  IF f \in Settings THEN f
  ELSE IF f \in OldFile
       THEN [theme |-> f.theme, launch |-> f.launch, minutes |-> DefaultMinutes]
       ELSE Default

Init ==
  /\ platform \in Platforms
  /\ file \in Settings \union OldFile \union {Missing}
  /\ appConfig = Loaded(file)
  /\ entry = EntryOf(Loaded(file))
  /\ call = [i \in Calls |-> Idle]
  /\ saved = Loaded(file)
  /\ disturbed = FALSE /\ halfway = FALSE
  /\ changes = 0 /\ faults = 0

-----------------------------------------------------------------------------
(* A change in the window, and saveConfig *)

\* Alpine has put the new value in appConfig; the command gets all of it.
\* Settings with a number that is no u64 are refused before save_config runs.
Change(i, s) ==
  /\ changes < MaxChanges
  /\ call[i] = Idle
  /\ s # appConfig
  /\ appConfig' = s
  /\ call' = IF s \in Settings
             THEN [j \in Calls |->
                     IF j = i THEN [step |-> "register", config |-> s,
                                    alone |-> InFlight = {}]
                     ELSE IF j \in InFlight THEN [call[j] EXCEPT !.alone = FALSE]
                     ELSE Idle]
             ELSE call
  /\ changes' = changes + 1
  /\ UNCHANGED <<platform, file, entry, saved, disturbed, halfway, faults>>

Goes(i, step) == call' = [call EXCEPT ![i].step = step]

\* RegDeleteValueW of a value that is not there answers with an HRESULT, which
\* is never the 2 that the code lets pass.
CannotRegister(i) ==
  platform = "windows" /\ ~call[i].config.launch /\ entry = "none"

\* Slip: an entry that is there is left alone.
RegisterOnly(i) ==
  /\ At(i, "register")
  /\ ~CannotRegister(i)
  /\ entry' = IF call[i].config.launch THEN "whole" ELSE entry
  /\ Goes(i, "truncate")
  /\ UNCHANGED <<platform, appConfig, file, saved, disturbed, halfway, changes, faults>>

\* update_startup_registration: on Windows a value of the registry is set or
\* deleted; elsewhere a file is removed, or cut to no byte and then written.
Register(i) ==
  /\ At(i, "register")
  /\ ~CannotRegister(i)
  /\ IF platform = "unix" /\ call[i].config.launch
     THEN entry' = "cut" /\ Goes(i, "fill")
     ELSE entry' = EntryOf(call[i].config) /\ Goes(i, "truncate")
  /\ UNCHANGED <<platform, appConfig, file, saved, disturbed, halfway, changes, faults>>

RegisterRefused(i) ==
  /\ At(i, "register")
  /\ CannotRegister(i)
  /\ call' = [call EXCEPT ![i] = Idle]
  /\ UNCHANGED <<platform, appConfig, file, entry, saved, disturbed, halfway,
                 changes, faults>>

\* The content is the same for every save.  It is lost when another save has
\* removed the file that was opened.
FillEntry(i) ==
  /\ At(i, "fill")
  /\ \/ entry # "none" /\ entry' = "whole"
     \/ ~call[i].alone /\ UNCHANGED entry
  /\ Goes(i, "truncate")
  /\ UNCHANGED <<platform, appConfig, file, saved, disturbed, halfway, changes, faults>>

\* Slip: the file is opened without being cut.
OpenOnly(i) ==
  /\ At(i, "truncate")
  /\ Goes(i, "write")
  /\ UNCHANGED <<platform, appConfig, file, entry, saved, disturbed, halfway,
                 changes, faults>>

\* fs::write creates the file or cuts it to no byte ...
Truncate(i) ==
  /\ At(i, "truncate")
  /\ file' = Empty
  /\ Goes(i, "write")
  /\ UNCHANGED <<platform, appConfig, entry, saved, disturbed, halfway, changes, faults>>

\* ... and writes from its start: what is there and longer sticks out behind.
Overwritten(f, s) ==
  IF \/ f = Garbled
     \/ f \in Settings /\ Bytes[f] > Bytes[s]
  THEN Garbled ELSE s

Write(i) ==
  /\ At(i, "write")
  /\ file' = Overwritten(file, call[i].config)
  /\ call' = [call EXCEPT ![i] = Idle]
  /\ saved' = call[i].config
  /\ disturbed' = ~call[i].alone
  /\ halfway' = FALSE
  /\ UNCHANGED <<platform, appConfig, entry, changes, faults>>

\* The saves in S go no further: the entry stays as their steps have left it,
\* and so does config.json, unless some of its bytes have been written.
CutOff(S) ==
  /\ disturbed' = (disturbed \/ \E i \in S : At(i, "write"))
  /\ halfway' = (halfway \/ \E i \in S : At(i, "fill") \/ At(i, "truncate"))
  /\ \/ UNCHANGED file
     \/ (\E i \in S : At(i, "write")) /\ file' = Garbled

\* A step fails: the command answers Err, and the window keeps what it shows.
\* (No directory, no permission, no space.)
SaveFails(i) ==
  /\ call[i] # Idle
  /\ faults < MaxFaults
  /\ call' = [call EXCEPT ![i] = Idle]
  /\ CutOff({i})
  /\ faults' = faults + 1
  /\ UNCHANGED <<platform, appConfig, entry, saved, changes>>

\* The process ends, in the middle of saves or not, and the next one loads
\* the file, or fails to read it.
Restart ==
  /\ call' = [i \in Calls |-> Idle]
  /\ CutOff(InFlight)
  /\ \/ InFlight = {} /\ appConfig' = Loaded(file') /\ UNCHANGED faults
     \/ /\ faults < MaxFaults /\ faults' = faults + 1
        /\ appConfig' \in {Loaded(file'), Default}
  /\ UNCHANGED <<platform, entry, saved, changes>>

Shown == [theme : Themes, launch : BOOLEAN, minutes : Minutes \union {NoNumber}]

Next ==
  \/ \E i \in Calls :
       \/ \E s \in Shown : Change(i, s)
       \/ Register(i) \/ RegisterRefused(i) \/ FillEntry(i)
       \/ Truncate(i) \/ Write(i)
       \/ SaveFails(i)
  \/ Restart

Spec == Init /\ [][Next]_vars

-----------------------------------------------------------------------------
(* Properties *)

TypeOK ==
  /\ platform \in Platforms
  /\ appConfig \in Shown
  /\ file \in File
  /\ entry \in Entries
  /\ call \in [Calls -> Saving \union {Idle}]
  /\ saved \in Settings
  /\ disturbed \in BOOLEAN /\ halfway \in BOOLEAN
  /\ changes \in Nat /\ faults \in Nat

\* What the last save stored is what the next start loads, however many saves
\* were refused, failed or were cut off since before they opened config.json,
\* and whatever the others in flight have done to the entry: only a save that
\* overlapped another, or one cut off in the middle of the file, loses it.
SettingsSurvive ==
  (\A i \in InFlight : ~At(i, "write")) /\ ~disturbed => Loaded(file) = saved

\* No save has done anything that it has not finished.
Settled == \A i \in InFlight : At(i, "register")

\* The application starts with the desktop exactly when config.json says so,
\* and the entry is never left cut, if moreover no save was cut off between
\* the two: the entry is changed before the file and not put back when the
\* file cannot be written.
RegistrationAgrees ==
  Settled /\ ~disturbed /\ ~halfway => entry = EntryOf(Loaded(file))

\* A save that is alone is the only one, its entry is made, and what it has
\* cut is empty until it writes.
AloneIsAlone ==
  \A i \in InFlight : call[i].alone =>
    /\ InFlight = {i}
    /\ (At(i, "fill") => entry = "cut" /\ call[i].config.launch)
    /\ (At(i, "truncate") \/ At(i, "write") => entry = EntryOf(call[i].config))
    /\ (At(i, "write") => file = Empty)

IInv == TypeOK /\ SettingsSurvive /\ RegistrationAgrees /\ AloneIsAlone
=============================================================================
