SPECIFICATION RFairSpec
CONSTANTS
  NBD = 3
  FrameWords = 1
  MaxTx = 2
  MaxRx = 4
  InDepth = 1
  OutWords = 1
  OutSizes = 1
  FrameSpacing = TRUE
  MaxResets = 1
  DrainedReset = TRUE
  OneWay = TRUE
INVARIANTS RunningOwnership ResetInOrder RunningNoticed
PROPERTIES TxDrains RxDrains CtlServed
CHECK_DEADLOCK FALSE
