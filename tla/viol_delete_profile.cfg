SPECIFICATION Spec
CONSTANTS
  Session = {s1}
  Profile = {p1}
  Key = {}
  NoSession = NoSession
  NoProfile = NoProfile
  Windows = FALSE
  VaultDirDrop = FALSE
  MaxFaults = 0
INVARIANT DeleteDestroysSessions
