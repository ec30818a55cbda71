\* Three variables, one-bit limbs, numbers of up to three limbs.
CONSTANTS
  Var = {x, y, z}
  Block = {b1, b2, b3, b4}
  Null = Null
  Tmp = Tmp
  W = 1
  IntMax = 3
  Bits = {0, 3, 4}
  Counts = {1, 2}
  MulMax = 3
SYMMETRY FullSymmetry
SPECIFICATION Spec
CHECK_DEADLOCK FALSE
INVARIANTS TypeOK Ownership Represents
