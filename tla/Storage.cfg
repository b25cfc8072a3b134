SPECIFICATION FairSpec
CONSTANTS
  gui = gui
  camera = camera
  shut = shut
  Threads = {gui, camera, shut}
  Free = Free
  CallsOf <- AllCalls
  Faults = TRUE
  MaxCalls = 3
  MaxRows = 2
  MaxGen = 3
  MaxCrash = 1
INVARIANTS StmtOwned ConnSeesFile InitedComplete StuckOnlyByFetchOrLeak CacheCurrent
PROPERTIES DirtyFlushed CallsEnd
CHECK_DEADLOCK FALSE
