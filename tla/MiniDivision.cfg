\* Limbs of four bits; divisors of up to three limbs, dividends of up to four.
CONSTANTS
  LimbBits = 4
  Few = {0, 1, 8, 15}
  MaxNum = 4
  MaxDen = 3
SPECIFICATION Spec
CHECK_DEADLOCK FALSE
INVARIANTS Divides Computes
