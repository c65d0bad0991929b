SPECIFICATION Spec
CONSTANTS
  RamCells = {r1}
  BdCells = {b1, b2}
  RegCells = {g1}
  Values = {v1, v2}
  MaxBurst = 2
  r1 = r1
  b1 = b1
  b2 = b2
  g1 = g1
  v1 = v1
  v2 = v2
SYMMETRY Alike
INVARIANTS NoStrayAck RestWithoutNeed
PROPERTIES AtomicSpec
