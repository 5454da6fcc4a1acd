SPECIFICATION ScopesSpec
CONSTANTS
  Cores = {c1, c2}
  FirstPolicies = {"NORMAL", "BATCH", "FIFO"}
  Priorities = {0, 99}
  GetFails = TRUE
  RestoreFails = TRUE
  MaxDepth = 3
INVARIANTS
  UnwindRestores
CHECK_DEADLOCK FALSE
