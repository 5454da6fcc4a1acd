SPECIFICATION Spec
CONSTANTS
  PageSize = 256
  MaxPages = 4
  Data = {d1, d2}
  FrameLike = {d1}
  NoData = NoData
  PayloadSizes = {32, 33}
  MsgTypes = {100}
  WriterPrefault = FALSE
  Faults = {"stop"}
  MaxSeq = 5
  MaxSessions = 2
  Readers = {r1}
INVARIANTS
  TypeOK
  CommittedFramesIntact
  SequencesContiguous
  LastPositionCommitted
  JournalInv
CHECK_DEADLOCK FALSE
