SPECIFICATION Spec
CONSTANTS
  PageSize = 256
  MaxPages = 3
  Data = {d1}
  FrameLike = {}
  NoData = NoData
  PayloadSizes = {32, 33}
  MsgTypes = {100}
  WriterPrefault = TRUE
  Faults = {"stop", "abandon", "load_fails", "search_fails"}
  MaxSeq = 4
  MaxSessions = 2
  Readers = {r1}
INVARIANTS
  CommittedFramesIntact
PROPERTIES
  ImplementsAppendLog
CHECK_DEADLOCK FALSE
