CONSTANTS
  r1 = r1
  r2 = r2
  r3 = r3
  r4 = r4
  Requests = {r1, r2, r3, r4}
  NoRequest = NoRequest
  BMax = 2
  MaxNew <- MCMaxNew
  Chunks <- MCChunks
  BatchLimit <- MCBatchLimit
  SessionFaults = {}
  QueueMax = 1
  ChannelCap = 1
  DecodeBurst = 1
  Refusable = {r3}
  HangUps = {r2}
  MaxFaults = 1
  Offload = TRUE
  PressureVaries = FALSE
  MayClose = FALSE
SPECIFICATION FairSpec
CHECK_DEADLOCK FALSE
PROPERTIES
  ImplementsService
  EveryRequestAnswered
  EveryStreamEnds
