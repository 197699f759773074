SPECIFICATION StreamFairSpec
CONSTANTS
  A = A
  B = B
  SndWnd = 2
  RcvWnd = 2
  RmtWndInit = 2
  NoCwnd = TRUE
  MaxFragments = 3
  FragCounts = {1}
  MaxSegs <- One
  MaxNet <- NetOne
  Reliable = FALSE
  Lockstep = FALSE
  Busy = FALSE
PROPERTIES
  UpdatedWhileUnacked
CHECK_DEADLOCK FALSE
