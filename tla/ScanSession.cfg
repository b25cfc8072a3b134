SPECIFICATION Spec
CONSTANTS
  a = a
  b = b
  c = c
  h = h
  g = g
  Text = Text
  Bad = Bad
  None = None
  Transfers <- Three
  Total <- TotalThree
  Header <- HeadThree
  Paired <- OnlyH
  MaxFrames = 5
  MaxKeys = 3
  Shuts = TRUE
INVARIANTS WholeTransfer PreviewFollowsWindow StuckOnlyByHandover
PROPERTY ResultHeld
CHECK_DEADLOCK FALSE
