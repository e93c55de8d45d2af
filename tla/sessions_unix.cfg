SPECIFICATION Spec
CONSTANTS
  Session = {s1, s2}
  Profile = {p1, p2}
  Key = {}
  NoSession = NoSession
  NoProfile = NoProfile
  Windows = FALSE
  VaultDirDrop = FALSE
  MaxFaults = 1
SYMMETRY Symmetry
INVARIANTS
  TypeOK
  FilesCovered
  ActiveRowsListed
  OpenHistoryExplained
PROPERTIES
  LockedIsQuiet
  CommandsAdvance
