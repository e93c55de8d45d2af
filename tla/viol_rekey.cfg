SPECIFICATION Spec
CONSTANTS
  Cred = {c1, c2}
  MaxHist = 1
  Password = {w1, w2}
  NoPassword = NoPassword
  NoKey = NoKey
  MaxSalts = 2
  MaxFaults = 1
SYMMETRY Symmetry
INVARIANTS
  FailedChangeKeepsValues
CHECK_DEADLOCK FALSE
