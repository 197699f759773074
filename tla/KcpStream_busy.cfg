SPECIFICATION StreamSpec
CONSTANTS
  A = A
  B = B
  SndWnd = 1
  RcvWnd = 2
  RmtWndInit = 2
  NoCwnd = TRUE
  MaxFragments = 3
  FragCounts = {1}
  MaxSegs <- OneTwo
  MaxNet <- NetOne
  Reliable = FALSE
  Lockstep = FALSE
  Busy = TRUE
INVARIANTS
  StreamTypeOK
  ReadsInOrder
CHECK_DEADLOCK FALSE
