\* Every sink, every style of vsnprintf, with buffers of a few bytes.
CONSTANTS
  LimbBits = 4
  Formats <- Mixed
  InitAlloc = 4
  FormatSpace = 4
  ProbeAlloc = 2
  Limit = 48
  Sizes = {0, 1, 2, 4, 8, 9, 40}
  Widths = {3, 12}
  Precs = {0, 1, 3}
SPECIFICATION MCSpec
CHECK_DEADLOCK FALSE
INVARIANTS TypeOK NeverFull Inside Delivered NothingHeld FailsWithTheLibrary AsInC
PROPERTIES Returns
