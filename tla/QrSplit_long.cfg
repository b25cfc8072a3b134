SPECIFICATION Spec
CONSTANTS
  Sizes <- AroundLong
  Configs <- Shipped
  Faults = FALSE
INVARIANT ChunksCarryMessage
CHECK_DEADLOCK FALSE
