\* The governor and the cold tracker on two threads; the machine may show any sample.
SPECIFICATION Spec
CONSTANTS
  t1 = t1
  t2 = t2
  Missing = Missing
  Threads = {t1, t2}
  Kinds <- MCKinds
  ColdBytes <- MCColdBytes
  Needs <- MCNeeds
  Sizes = {30}
  Chunks = {15, 30}
  Samples <- MCSamples
  StaticCeiling = 100
  PromotionSamples = 2
  RecoverySamples = 2
  EmergencyOverage = 10
  CacheMin = 2
  CacheColdMax = 3
  CacheMax = 5
INVARIANTS
  TypeOK
  ReservedExact
  CacheWithinTarget
  WarmingOwned
  WarmBeforeUse
  SleepersAwaited
PROPERTIES
  LevelMovesSlowly
