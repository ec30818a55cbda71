\* One call on three variables of two-bit limbs.
CONSTANTS
  Var = {x, y, z}
  Block = {x, y, z, s1, s2}
  Spare = {s1, s2}
  First = x
  Second = y
  Null = Null
  Tmp = Tmp
  W = 2
  IntMax = 15
  MaxLimbs = 2
  Large = {63, 192}
  Few = {0, 1, 6}
  Bits = {0}
  Counts = {1, 2, 3}
  MulMax = 6
  Positions = {0, 1, 3, 5, 6}
  Exponents = {0, 1, 2, 3, 5, 21}
  PowMax = 10
  MiniFew = {0, 3, 20}
  MiniBlocks = 16
SYMMETRY SpareSymmetry
SPECIFICATION CallSpec
CHECK_DEADLOCK FALSE
INVARIANTS Ownership Represents Normalized ReadersAtFirst
