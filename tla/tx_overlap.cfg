SPECIFICATION PathFairSpec
CONSTANTS
  QueueLimit = 2
  Lens = {5, 8}
  MaxFrames = 3
  DataDepth = 4
  SizeDepth = 1
  Radix = 8
  CounterRange = 16
  PacketSize = 7
  EpBuffer = 8
PROPERTIES QueueWakes
CHECK_DEADLOCK FALSE
