SPECIFICATION Spec
CONSTANTS
  s1 = s1
  s2 = s2
  Calls = {s1, s2}
  Themes = {"dark", "light"}
  Minutes = {5, 15}
  NoNumber = NoNumber
  DefaultTheme = "dark"
  DefaultMinutes = 15
  Bytes <- BytesMC
  Missing = Missing
  Empty = Empty
  Garbled = Garbled
  Idle = Idle
  Platforms = {"windows", "unix"}
  MaxChanges = 3
  MaxFaults = 2
SYMMETRY Perms
INVARIANTS
  TypeOK
  SettingsSurvive
  RegistrationAgrees
