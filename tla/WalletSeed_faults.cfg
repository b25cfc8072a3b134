SPECIFICATION Spec
CONSTANTS
  Ids = {a1, a2}
  NoId = NoId
  Coins = {}
  Blank = Blank
  Torn = Torn
  Absent = Absent
  Handlers = {"store", "reset", "hwBreak"}
  Faults = TRUE
  MaxCrash = 1
  MaxRefused = 1
SYMMETRY Symm
INVARIANTS AccountIdFresh SeedFlagSound
PROPERTIES BootAgrees
CHECK_DEADLOCK FALSE
