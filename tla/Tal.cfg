\* Lists: two threads; a size that alloca takes and one from the heap, where three blocks
\* fit. Stack: room for three chunks at once; a size that is rounded up and one that needs
\* a chunk.
CONSTANTS
  Thread = {"t1", "t2"}
  Memory = 12
  Align = 4
  Hsiz = 2
  Sizes = {1, 2}
  SmallMax = 1
  MaxActive = 2
  StackRoom = 2
  StackMemory = 24
  StackAlign = 2
  Header = 1
  StackSizes = {1, 4}
  MaxDepth = 3
  MaxTotal = 18
SPECIFICATION EitherSpec
INVARIANTS FreedRight NoLeak Inside Accounting
PROPERTIES Promise FreeEnds StackPromise
