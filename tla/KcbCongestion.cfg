SPECIFICATION FairSpec
CONSTANTS
  Mss = 26
  SndWnd = 5
  Windows = {0, 3, 5}
  FastResend = 2
  NoCwnd = FALSE
INVARIANTS
  TypeOK
  IncrAgrees
PROPERTIES
  WindowOpens
