SPECIFICATION Spec
CONSTANTS
  A = A
  B = B
  SndWnd = 2
  RcvWnd = 2
  RmtWndInit = 2
  NoCwnd = TRUE
  MaxFragments = 3
  FragCounts = {3}
  MaxSegs <- OneWay3
  MaxNet <- NetOne
INVARIANTS
  RecvNotWedged
