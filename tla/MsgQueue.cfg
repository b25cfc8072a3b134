SPECIFICATION FairSpec
CONSTANTS
  key = key
  battery = battery
  s1 = s1
  None = None
  What <- Kinds
  Delays <- NoneOneTwo
  Slots <- OneSlot
  Idle = 3
  MaxPosts = 3
  MaxTime = 4
INVARIANTS SlotsAccounted NoOversleep
PROPERTIES KeepsPromise EveryMessageEnds
CHECK_DEADLOCK FALSE
