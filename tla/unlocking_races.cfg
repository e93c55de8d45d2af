SPECIFICATION Spec
CONSTANTS
  Attempt = {a1, a2}
  Password = {w1, w2}
  NoKey = NoKey
  MaxSalts = 2
  NoPassword = NoPassword
  FreeFailures = 1
  MaxFailed = 2
  MaxFaults = 1
SYMMETRY Symmetry
INVARIANTS
  TypeOK
  CountsFailures
  SaltFitsDatabase
PROPERTIES
  ThrottleHolds
