SPECIFICATION Spec
CONSTANTS
  r1 = r1
  r2 = r2
  r3 = r3
  f1 = f1
  NoRequest = NoRequest
  NoCache = NoCache
  Requests = {r1, r2, r3, f1}
  Pages <- MCPages
  Prompt <- MCPrompt
  MaxNew <- MCMaxNew
  Sampled <- MCSampled
  BlockSize = 3
  MaxBlocks = 2
  BMax = 3
  HangUps = {r1}
  Forks = {f1}
  ChunkSizes = {3}
  MaxFaults = 1
INVARIANTS TypeOK OnePlace PagesExact OwnTokens PoolSound RowsBound GoneHoldNothing
PROPERTY CacheKept
CHECK_DEADLOCK FALSE
