SPECIFICATION FairSpec
CONSTANTS
  Types = {"Trade", "Quote", "PageEnd"}
  written <- MCwritten
  MaxLog = 2
  sizeof <- MCsizeof
  EmptyTypes = {"Quote"}
  HandledTypes = {"Trade", "Quote"}
  Unlimited = 3
  RunLimits = {}
  PyThreads = {1, 2, 3}
  readerOf <- MCreaderOf
  Spinners = {3}
  Peekers = {3}
  Timeouts = {1}
  Retained = 0
  MaxClock = 1
PROPERTIES
  ClientsImplementLog
  NoneMeansNothing
  ReadEnds
  DispatcherDrains
CHECK_DEADLOCK FALSE
