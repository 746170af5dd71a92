SPECIFICATION FairSpec
CONSTANTS
  Unknown = Unknown
  None = None
  Free = Free
  Sessions = {s1, s2}
  Pidless = {s2}
  Searchers = {}
  Stoppers = {k1}
  Watchers = {w1, w2}
  Foreground = {}
  Pids = {p1, p2}
  MayCrash = TRUE
  MaxVersion = 0
  MaxBursts = 1
CHECK_DEADLOCK FALSE
PROPERTIES
  Unpinned
  EventuallyServed
