SPECIFICATION Spec
CONSTANTS
  NBD = 2
  FrameWords = 2
  MaxTx = 2
  MaxRx = 2
  InDepth = 1
  OutWords = 3
  OutSizes = 1
  FrameSpacing = FALSE
INVARIANTS TypeOK TxOwnership RxOwnership OutFraming
PROPERTIES OnlyClearForgets LinkSpec
CHECK_DEADLOCK FALSE
