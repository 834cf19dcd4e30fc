CONSTANTS
  r1 = r1
  r2 = r2
  r3 = r3
  r4 = r4
  Requests = {r1, r2, r3, r4}
  NoRequest = NoRequest
  BMax = 2
  MaxNew <- MCMaxNew
  Chunks <- MCChunks
  BatchLimit <- MCBatchLimit
  SessionFaults = {}
  QueueMax = 1
  ChannelCap = 1
  DecodeBurst = 1
  Refusable = {}
  HangUps = {r3}
  MaxFaults = 0
  Offload = FALSE
  PressureVaries = FALSE
  MayClose = FALSE
SPECIFICATION Spec
CHECK_DEADLOCK FALSE
INVARIANTS
  IdleQueueEmpty
