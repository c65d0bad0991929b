SPECIFICATION SmallSpec
CONSTANTS
  Skbs = {1, 2, 3, 4}
  MaxOpens = 2
  MaxTx = 2
  MaxFaults = 2
  Inputs = 4
  CoolDown = 13
  CounterRange = 16
  HighGap = 2
  FullGap = 12
  MaxLoops = 4
  MaxSize = 3
  Window = 4
  TcpPeriod = 2
  Total = 9
  UdpPeriod = 3
  Buffer = 3
INVARIANTS SkbOwned UrbsEndFirst AllReleased UdpEndsOnlyWithAll
PROPERTIES UnplugEnds OneStepPerPress RegWholeWrite RegLowBytes TcpBothEnd
CHECK_DEADLOCK FALSE
