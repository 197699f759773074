SPECIFICATION Spec
CONSTANTS
  A = A
  B = B
  SndWnd = 2
  RcvWnd = 1
  RmtWndInit = 2
  NoCwnd = FALSE
  MaxFragments = 3
  FragCounts = {1}
  MaxSegs <- OneWay3
  MaxNet <- NetOne
INVARIANTS
  TypeOK
  ReceiveWindow
  SendWindow
  NothingForgotten
