SPECIFICATION CpSpec
CONSTANTS
  PhyId = {0}
  PhyRegs = {{}, {1}}
  PhyValues = {}
  CntRange = 64
  MaxRep = 1
  MaxTries = 1
  MaxBusyCalls = 1
  MaxLoose = 3
INVARIANTS MiiReadSettles
CHECK_DEADLOCK FALSE
