SPECIFICATION FairSpec
CONSTANTS
  Liberties = {}
  MaxTime = 4
  MaxPages = 3
  PageFrames = 2
INVARIANT SeekMissesNothing
PROPERTY SeekEnds
CHECK_DEADLOCK FALSE
