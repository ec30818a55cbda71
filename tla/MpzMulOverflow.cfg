\* mpz_mul of operands with more limbs together than INT_MAX.
CONSTANTS
  Var = {x, y}
  Block = {b1, b2, b3}
  Null = Null
  Tmp = Tmp
  W = 1
  IntMax = 3
  Bits = {0, 2, 3, 4}
  Counts = {1, 2}
  MulMax = 4
SYMMETRY BlockSymmetry
SPECIFICATION Spec
CHECK_DEADLOCK FALSE
INVARIANTS OverflowAborts
