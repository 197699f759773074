SPECIFICATION FairSpec
CONSTANTS
  A = A
  B = B
  SndWnd = 1
  RcvWnd = 1
  RmtWndInit = 1
  NoCwnd = TRUE
  MaxFragments = 3
  FragCounts = {1}
  MaxSegs <- OneWay2
  MaxNet <- NetOne
PROPERTIES
  EventualDelivery
