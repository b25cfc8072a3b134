SPECIFICATION Spec
CONSTANTS
  Ids = {a1, a2}
  NoId = NoId
  Coins = {c1}
  Blank = Blank
  Torn = Torn
  Absent = Absent
  Handlers = {"store", "phrase", "set", "pair", "reset", "clean"}
  Faults = FALSE
  MaxCrash = 2
  MaxRefused = 0
SYMMETRY Symm
INVARIANTS Durable RecordAgrees
PROPERTIES PairingHasCoins
CHECK_DEADLOCK FALSE
