SPECIFICATION Spec
CONSTANTS
  Ids = {a1, a2}
  NoId = NoId
  Coins = {c1}
  Blank = Blank
  Torn = Torn
  Absent = Absent
  Handlers = {"store", "phrase"}
  Faults = FALSE
  MaxCrash = 1
  MaxRefused = 0
SYMMETRY Symm
INVARIANTS BackupIsRead
CHECK_DEADLOCK FALSE
