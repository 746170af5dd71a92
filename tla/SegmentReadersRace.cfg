SPECIFICATION SpecWithReaders
CONSTANTS
  a = a
  b = b
  x = x
  NoWriter = NoWriter
  Writers = {w1}
  Readers = {r1}
  Ids = {a, b}
  Bodies = {x}
  Batches <- MCBatches
  MaxName = 2
  InitialDisks <- MCInitialDisks
INVARIANTS
  OpenIsSnapshot
