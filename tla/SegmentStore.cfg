SPECIFICATION Spec
CONSTANTS
  w1 = w1
  w2 = w2
  a = a
  b = b
  x = x
  y = y
  NoWriter = NoWriter
  Writers = {w1, w2}
  Ids = {a, b}
  Bodies = {x, y}
  Batches <- MCBatches
  MaxName = 3
  InitialDisks <- MCInitialDisks
SYMMETRY Symmetry
INVARIANTS
  TypeOK
  PublishedIntact
  WriterIsCurrent
  CountsExact
PROPERTIES
  PublishedImmutable
  NamesNeverReused
  ImplementsDocStore
