SPECIFICATION FairSpec
CONSTANTS
  Sources = {s1, s2}
  LinearLimit = 1
  HeapSettings = {TRUE, FALSE}
  EqualTimes = FALSE
  Times = {1, 2, 3}
  MaxFrames = 2
  MaxCalls = 4
INVARIANTS
  ScanOldestFirst
  HeapTracksFrames
PROPERTY MergeDelivers
CHECK_DEADLOCK FALSE
