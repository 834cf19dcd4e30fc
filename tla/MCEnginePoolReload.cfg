CONSTANTS
  p = p
  a = a
  b = b
  r1 = r1
  r2 = r2
  r3 = r3
  c1 = c1
  c2 = c2
  Models = {a, b}
  Preload = {}
  NoModel = NoModel
  Requests = {r1}
  Controls = {c1, c2}
  HangUps = {r1, c1}
  Monitor = Monitor
  NoSlot = NoSlot
  MaxObjects = 2
  MaxLoaded = 1
  EvictsLru = FALSE
  MemoryTight = TRUE
SPECIFICATION Spec
CHECK_DEADLOCK FALSE
INVARIANTS
  LeaseKeepsEngine
  ModelKept
