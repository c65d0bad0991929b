SPECIFICATION ClosedSpec
CONSTANTS
  NBD = 2
  FrameWords = 2
  MaxTx = 0
  MaxRx = 2
  InDepth = 1
  OutWords = 3
  OutSizes = 1
  FrameSpacing = TRUE
PROPERTIES CtlServed
CHECK_DEADLOCK FALSE
