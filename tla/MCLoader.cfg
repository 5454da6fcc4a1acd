SPECIFICATION Spec
CONSTANTS
  Writer = w
  WriterPrefault = TRUE
  Prefaulting = {p1}
  Lazy = {l1}
  Warmers = {m1}
  EarlyMasters = FALSE
  InOrder = TRUE
  FailingCalls = {"fallocate", "mlock", "populate"}
  MaxFrames = 2
INVARIANTS
  LoaderInv
  PageKept
  MastersGetThrough
CHECK_DEADLOCK FALSE
