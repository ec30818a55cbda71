\* One call on rationals of three-bit limbs.
CONSTANTS
  p1 = p1
  q1 = q1
  r1 = r1
  z1 = z1
  Spare = {s1}
  Rat = {p1, q1, r1}
  Whole = {z1}
  Given = {p1, q1}
  Var <- MCVar
  Block <- MCBlock
  Null = Null
  Tmp = Tmp
  W = 3
  IntMax = 20
  Counts = {0, 1, 3, 4}
  Words <- MCWords
  Floats <- MCFloats
SPECIFICATION CallSpec
CHECK_DEADLOCK FALSE
INVARIANTS Ownership Represents ReadersAtFirst
