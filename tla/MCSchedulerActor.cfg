CONSTANTS
  r1 = r1
  r2 = r2
  r3 = r3
  r4 = r4
  Requests = {r1, r2, r3, r4}
  NoRequest = NoRequest
  BMax = 2
  MaxNew <- MCMaxNew
  Chunks <- MCChunks
  BatchLimit <- MCBatchLimit
  SessionFaults = {r4}
  QueueMax = 1
  ChannelCap = 1
  DecodeBurst = 2
  Refusable = {r3}
  HangUps = {r2, r3}
  MaxFaults = 1
  Offload = TRUE
  PressureVaries = TRUE
  MayClose = TRUE
SPECIFICATION Spec
CHECK_DEADLOCK FALSE
INVARIANTS
  TypeOK
  StreamsOwned
  MidAdmitOwnsSlot
  NoLostRequest
  IdleOwnsNothing
  CoreInvariants
