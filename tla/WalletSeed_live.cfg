SPECIFICATION FairSpec
CONSTANTS
  Ids = {a1}
  NoId = NoId
  Coins = {c1}
  Blank = Blank
  Torn = Torn
  Absent = Absent
  Handlers = {"store", "destroy", "set"}
  Faults = FALSE
  MaxCrash = 1
  MaxRefused = 0
PROPERTIES BootEnds BackupCatchesUp
CHECK_DEADLOCK FALSE
