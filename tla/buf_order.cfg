CONSTANTS
  Blocks = {b1, b2, b3}
  Null = Null
  MaxLen = 4
  Modulus = 10
  GrowCap = 2
  InitSizes = {0, 2, 3}
  ItemSizes = {1, 2, 3}
  ReadSizes = {}
SYMMETRY BlockSymmetry
SPECIFICATION Spec
INVARIANT
  PointersOrdered
CHECK_DEADLOCK FALSE
