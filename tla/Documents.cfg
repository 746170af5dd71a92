SPECIFICATION DocumentsSpec
CONSTANTS
  f = f
  g = g
  x = x
  y = y
  Files = {f, g}
  Slots = {1}
  Bodies = {x, y}
  ChunksOf <- MCChunksOf
  Gone = Gone
  MaxEdits = 2
  Watching = TRUE
  MaxOthers = 1
  Hidden = {".h"}
  Skipped = {"x"}
  Unwatched = {"x"}
  Litter = {"#a"}
  Foreign = {"v.2"}
  MaxLines = 3
  MaxBytes = 5
  ProseBytes = 4
  WrapBytes = 3
  RunLines = 2
  ColumnLetters = 3
  MaxMembers = 6
  MaxExpanded = 40
  MaxText = 8
  Contents = {tx, ty}
  Damaged = Damaged
  NoCode = NoCode
  Clusters <- MCClusters
  MaxStops = 2
  MaxChanges = 1
  Ids = {1, 2}
  MaxSegments = 2
  MaxSourceEdits = 2
  MaxHalts = 1
  Lines <- MCLines
  Embeds = TRUE
  MaxSent = 1
  MaxMishaps = 1
  Places <- MCPlaces
  Worktrees <- MCWorktrees
  Requests <- MCRequests
  FilePaths <- MCFilePaths
  MaxStirs = 2
SYMMETRY Alike
INVARIANTS
  CallsAreAnswered
  TreeIsSeen
  GlobsAreExact
  FilesAreCut
  IndexIsWhole
  NeverLost
  RowsAreSound
