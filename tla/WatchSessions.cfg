SPECIFICATION Spec
CONSTANTS
  Unknown = Unknown
  None = None
  Free = Free
  Sessions = {s1, s2}
  Pidless = {s2}
  Searchers = {q1}
  Stoppers = {}
  Watchers = {w1, w2, w3}
  Foreground = {f1}
  Pids = {p1, p2, p3}
  MayCrash = TRUE
  MaxVersion = 1
  MaxBursts = 0
INVARIANTS
  StatusNamesWatcher
  ServedUnlessRaced
