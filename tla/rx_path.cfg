SPECIFICATION RxFairSpec
CONSTANTS
  OutLens = {5, 8, 12}
  MaxFrames = 3
  DataDepth = 3
  SizeDepth = 2
  PacketBytes = 4
  UrbBytes = 12
  MinBytes = 1
  MaxFaults = 2
  MaxOpens = 2
INVARIANTS SkbsAreFrames SkbsInOrder TornOnlyByCuts IdleOnlyRefused
PROPERTIES FramesDelivered
CHECK_DEADLOCK FALSE
