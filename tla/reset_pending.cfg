SPECIFICATION RFairSpec
CONSTANTS
  NBD = 2
  FrameWords = 1
  MaxTx = 3
  MaxRx = 0
  InDepth = 1
  OutWords = 1
  OutSizes = 1
  FrameSpacing = FALSE
  MaxResets = 1
  DrainedReset = FALSE
  OneWay = FALSE
PROPERTIES TxDrains
CHECK_DEADLOCK FALSE
