SPECIFICATION FairWatchSpec
CONSTANTS
  f = f
  g = g
  x = x
  y = y
  q1 = q1
  q2 = q2
  Files = {f, g}
  Slots = {1, 2}
  Bodies = {x, y}
  ChunksOf <- MCChunksOf
  Gone = Gone
  MaxEdits = 3
  Searches = {q1}
CHECK_DEADLOCK FALSE
INVARIANTS
  BelievedIsRight
  FilesAreWhole
  NoEditLost
  NoticedEditsAreSeen
PROPERTIES
  BuildIsExact
  EventuallyExactOrFailed
