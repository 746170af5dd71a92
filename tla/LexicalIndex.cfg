SPECIFICATION MCLexicalSpec
CONSTANTS
  a = a
  b = b
  c = c
  Terms = {a, b, c}
  Idf <- MCIdf
  NumDocs = 4
  MaxTf = 1
  MaxLen = 2
  Gain <- MCGain
  BlockSize = 2
  MaxK = 2
  ChunkSize = 2
  SpillBudget = 3
  TitleWeight = 2
  MinPartition = 1
  PerBlock = 5
  ByteBits = 3
  WordBytes = 3
  DictGroup = 2
  MaxShared = 2
  MaxStr = 3
  Lead = 10
  Align = 4
  HashOf <- MCHashOf
CHECK_DEADLOCK FALSE
INVARIANTS
  ResultIsTop
  TurnsAreSound
  IndexIsExact
  StoredIsRead
PROPERTIES
  Terminates
