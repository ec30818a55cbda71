CONSTANTS
  fx = fx
  fy = fy
  fz = fz
  bfx = bfx
  bfy = bfy
  bfz = bfz
  spare = spare
  Var = {fx, fy, fz}
  Block = {bfx, bfy, bfz, spare}
  Null = Null
  Tmp = Tmp
  W = 2
  IntMax = 8
  MinBits = 1
  Words = {0, 3}
  Wholes <- WholeSet
  BitCounts = {1, 4}
  Starts <- StartSet
SPECIFICATION Spec
CHECK_DEADLOCK FALSE
INVARIANTS Accurate Ownership Normalized Readers
PROPERTIES Elsewhere
