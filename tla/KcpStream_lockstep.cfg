SPECIFICATION StreamFairSpec
CONSTANTS
  A = A
  B = B
  SndWnd = 2
  RcvWnd = 2
  RmtWndInit = 2
  NoCwnd = TRUE
  MaxFragments = 3
  FragCounts = {1}
  MaxSegs <- Two
  MaxNet <- NetTwo
  Reliable = TRUE
  Lockstep = TRUE
  Busy = FALSE
INVARIANTS
  NoMessageDropped
  AnswersMatch
PROPERTIES
  Answered
CHECK_DEADLOCK FALSE
