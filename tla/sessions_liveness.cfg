SPECIFICATION FairSpec
CONSTANTS
  Session = {s1, s2}
  Profile = {p1}
  Key = {}
  NoSession = NoSession
  NoProfile = NoProfile
  Windows = FALSE
  VaultDirDrop = TRUE
  MaxFaults = 0
PROPERTIES
  CommandsReturn
  ExpiryRemovesFile
  TimersFinish
