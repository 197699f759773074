SPECIFICATION Spec
CONSTANTS
  A = A
  B = B
  SndWnd = 2
  RcvWnd = 2
  RmtWndInit = 2
  NoCwnd = TRUE
  MaxFragments = 3
  FragCounts = {2}
  MaxSegs <- OneWay2
  MaxNet <- NetTwo
INVARIANTS
  InOrderDelivery
  WholeMessages
  RecvNotWedged
  StreamInv
PROPERTIES
  Monotone
  ImplementsChannel
