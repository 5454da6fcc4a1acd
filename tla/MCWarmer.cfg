SPECIFICATION FairSpec
CONSTANTS
  RingSize = 5
  WarmupPages = 4
  RetainedLimit = 0
  Prefault = TRUE
  WarmFailures = {"open"}
  LoadFailures = {"open", "late"}
  Addrs = {a1, a2, a3, a4, a5, a6, a7, a8}
  MaxPage = 3
INVARIANTS
  WarmerOneOwner
  ClaimedPage
  RingPagesKept
PROPERTIES
  WriterShutdownEnds
CHECK_DEADLOCK FALSE
