SPECIFICATION FairSpec
CONSTANTS
  Attempt = {a1}
  Password = {w1, w2}
  NoPassword = NoPassword
  NoKey = NoKey
  FreeFailures = 3
  MaxSalts = 2
  MaxFailed = 5
  MaxFaults = 1
PROPERTIES
  RightPasswordOpens
