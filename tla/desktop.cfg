SPECIFICATION FairSpec
CONSTANTS
  Sessions = {s1}
  MaxUnlocks = 2
  MaxChanges = 1
  MaxLocks = 1
INVARIANTS
  TypeOK
  WindowAgrees
  PasswordForgotten
  UnlockFindsNoSession
PROPERTIES
  ChangeRelocks
  IdleLocks
