CONSTANTS
  p = p
  a = a
  b = b
  r1 = r1
  r2 = r2
  r3 = r3
  c1 = c1
  c2 = c2
  Models = {p, a, b}
  Preload = {p}
  NoModel = NoModel
  Requests = {r1, r2}
  Controls = {c1}
  HangUps = {r1}
  Monitor = Monitor
  NoSlot = NoSlot
  MaxObjects = 1
  MaxLoaded = 2
  EvictsLru = TRUE
  MemoryTight = FALSE
SPECIFICATION FairSpec
CHECK_DEADLOCK FALSE
INVARIANTS
  TypeOK
  LeaseKeepsEngine
  ActiveCountsLeases
  CapRespected
  LoadingHasLoader
PROPERTIES
  PreloadStays
  FailedNeedsControl
  EveryCallEnds
  DrainingEnds
