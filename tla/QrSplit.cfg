SPECIFICATION FairSpec
CONSTANTS
  Sizes <- AllShort
  Configs <- ManyConfigs
  Faults = TRUE
INVARIANTS PiecesCover Readable
PROPERTY AllShown
CHECK_DEADLOCK FALSE
