SPECIFICATION CpFairSpec
CONSTANTS
  PhyId = {0}
  PhyRegs = {{}, {1}}
  PhyValues <- McPhyValues
  CntRange = 64
  MaxRep = 2
  MaxTries = 2
  MaxBusyCalls = 1
  MaxLoose = 2
INVARIANTS MiiCallRight RestAgain
PROPERTIES PhyWrittenAsAsked CallsEnd
CHECK_DEADLOCK FALSE
