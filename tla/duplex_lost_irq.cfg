SPECIFICATION FairSpec
CONSTANTS
  NBD = 2
  FrameWords = 2
  MaxTx = 1
  MaxRx = 1
  InDepth = 1
  OutWords = 3
  OutSizes = 1
  FrameSpacing = TRUE
PROPERTIES RxDrains
CHECK_DEADLOCK FALSE
