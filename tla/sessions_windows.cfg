SPECIFICATION Spec
CONSTANTS
  Session = {s1, s2}
  Profile = {p1}
  Key = {k1}
  NoSession = NoSession
  NoProfile = NoProfile
  Windows = TRUE
  VaultDirDrop = TRUE
  MaxFaults = 1
SYMMETRY Symmetry
INVARIANTS
  EnvAccounted
