SPECIFICATION Spec
CONSTANTS
  PageSize = 256
  MaxPages = 2
  Data = {d1, d2}
  FrameLike = {}
  NoData = NoData
  PayloadSizes = {32}
  MsgTypes = {100}
  WriterPrefault = TRUE
  Faults = {"stop_any"}
  MaxSeq = 3
  MaxSessions = 2
  Readers = {r1}
INVARIANTS
  CommittedFramesIntact
CHECK_DEADLOCK FALSE
