SPECIFICATION Spec
CONSTANTS
  a = a
  b = b
  c = c
  h = h
  g = g
  Text = Text
  Bad = Bad
  None = None
  Transfers <- Three
  Total <- TotalThree
  Header <- HeadThree
  Paired <- OnlyH
  MaxFrames = 1
  MaxKeys = 2
  Shuts = TRUE
INVARIANT ClosedBeforeLogo
CHECK_DEADLOCK FALSE
