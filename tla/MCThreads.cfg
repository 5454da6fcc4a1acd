SPECIFICATION FairSpec
CONSTANTS
  Addrs = {a1, a2, a3, a4}
  MaxPage = 2
  RetainedLimit = 1
INVARIANTS
  OneOwner
  RightPage
PROPERTIES
  PublishesLatest
  ShutdownEnds
CHECK_DEADLOCK FALSE
