SPECIFICATION Spec
CONSTANTS
  Cred = {c1, c2}
  MaxHist = 1
  Password = {w1, w2}
  NoPassword = NoPassword
  NoKey = NoKey
  MaxSalts = 4
  MaxFaults = 2
SYMMETRY Symmetry
INVARIANTS
  TypeOK
  VaultOpens
  AllReadable
  RekeyedWhole
PROPERTIES
  ChangeIsAtomic
  ChangeOkIsWhole
CHECK_DEADLOCK FALSE
