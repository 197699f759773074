SPECIFICATION Spec
CONSTANTS
  Addr = {a1}
  a1 = a1
  Sizes = {12, 960, 1000}
  BufLen = 1024
  MaxConv = 2
  MaxMsgs <- TwoOne
  MaxUp = 2
  MaxDown = 2
INVARIANTS
  TypeOK
  ConversationsApart
  LostOnlyByDrop
  EachServed
CHECK_DEADLOCK FALSE
