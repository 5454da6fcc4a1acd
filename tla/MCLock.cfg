SPECIFICATION FairSpec
CONSTANTS
  Threads = {t1, t2, t3}
  ThrowsIn = {"openData", "writeBytes"}
  MaxFrames = 3
INVARIANTS
  WholeFrames
  LockInv
PROPERTY LockComesFree
CHECK_DEADLOCK FALSE
