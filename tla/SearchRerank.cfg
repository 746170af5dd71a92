SPECIFICATION MCSpec
CONSTANTS
  a = a
  b = b
  p = p
  q = q
  Terms = {a, b}
  Paths = {p, q}
  Globs = {"p", "all"}
  NoGlob = NoGlob
  Accepts <- MCAccepts
  Rarity <- MCRarity
  Gain <- MCGain
  CommonDf = 3
  ScopesKept = 1
  AskedFor = 2
  PoolSize = 3
  Width = 2
  RangeSize = 2
  Modes <- MCRerankModes
  WordShare = 15
  RankShare <- MCRankShare
CHECK_DEADLOCK FALSE
INVARIANTS
  RerankByMeaning
