SPECIFICATION MCQueriesSpec
CONSTANTS
  a = a
  b = b
  p = p
  q = q
  Terms = {a, b}
  Paths = {p, q}
  Globs = {"p", "all"}
  NoGlob = NoGlob
  Accepts <- MCAccepts
  Rarity <- MCRarity
  Gain <- MCGain
  CommonDf = 3
  ScopesKept = 1
  AskedFor = 2
  PoolSize = 3
  Width = 2
  RangeSize = 2
  Modes <- MCModes
  WordShare = 15
  RankShare <- MCRankShare
  Degree = 1
  Breadth = 2
  MaxLayer = 2
  MaxEd = 2
  PrefixLen = 4
  ShortLen = 3
  LeastLen = 3
  MinDf = 3
  Small = {"a", "b"}
  Capital = {"A", "B"}
  Digit = {"1"}
  LowerOf <- MCLowerOf
  Stopwords <- MCStopwords
  Blanks = {" "}
  Unseen = {"~"}
  Ideographs = {"z"}
  Signs = {"[", "]"}
  Folded <- MCFolded
  Tokens <- MCTokens
  Unk = 1
  Cls = 2
  Sep = 2
  LongestWord = 4
  p1 = p1
  p2 = p2
  v1 = v1
  v2 = v2
  Processes = {p1, p2}
  Questions = {qa, qb}
  Warmup = warmup
  Recipe <- MCRecipe
  QueryCap = 2
  QueueCap = 1
  MaxAsked <- MCAsked
  MaxFaults = 1
  Words = {"u", "v", "w", "y"}
  RowOf <- MCRowOf
  Bases <- MCBases
  NoWords = NoWords
  Coarseness = 5
  MaxMisses = 4
  Loaders = {p1, p2}
  Versions = {v1, v2}
  NoFile = NoFile
  Garbage = Garbage
  MaxTries = 3
  Places = {0, 12, 60}
  MaxPlaces = 4
  Turns = 2
  Slots = 3
  BlockDocs = 2
  Coarse = 4
  QueryPad = 2
  Context = 3
  ClsFrom = 4
  LayerCount = 2
  PadToken = 0
CHECK_DEADLOCK FALSE
SYMMETRY Alike
INVARIANTS
  ScopesAreExact
  MergeIsExact
  FusionIsExact
  GraphAnswers
  WordsAreRead
  EncoderAnswers
  FlushedIsWritten
  LoadedIsWhole
  NumbersAreClose
