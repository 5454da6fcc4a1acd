SPECIFICATION FairSpec
CONSTANTS
  PageSize = 256
  MaxPages = 3
  Data = {d1}
  FrameLike = {d1}
  NoData = NoData
  PayloadSizes = {0, 32, 33}
  MsgTypes = {100}
  WriterPrefault = TRUE
  Faults = {"stop"}
  MaxSeq = 6
  MaxSessions = 2
  Readers = {r1}
INVARIANTS
  FramesDisjoint
PROPERTIES
  ImplementsAppendLog
  JoinedReadersSurvive
  Delivery
CHECK_DEADLOCK FALSE
