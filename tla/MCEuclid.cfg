SPECIFICATION Spec
CONSTANTS
  P = 8
  Widths = {4}
  Bounds = {1}
  Operands <- BorderOperands
  Radix = 2
  ChunkWidth = 4
  Surrogates = {7, 8}
  MaxChar = 13
  MaxShift = 3
  Further <- BorderResults
INVARIANTS
  EuclideanDivision
