SPECIFICATION Spec
CONSTANTS
  p1 = p1
  p2 = p2
  Profiles = {p1, p2}
  Keys <- KeysMC
  Bases = {"app"}
  Rules = {"short", "long"}
  Values <- ValuesMC
  Typed <- TypedMC
  Tags = {"none", "ci"}
  NoTags = "none"
  ImportFiles <- FilesMC
  Kept = 2
  Absent = Absent
  Idle = Idle
  MaxCommands = 3
  MaxCopies = 1
  MaxExported = 2
  MaxJumps = 2
SYMMETRY Perms
INVARIANTS
  TypeOK
  NothingLeftBehind
  CopiesWhole
  ImportIsPrefix
  HistoryKeepsRecent
  ExportsReadBack
PROPERTY ImplementsAtomicStore
