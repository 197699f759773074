SPECIFICATION FairSpec
CONSTANTS
  Clients = {c1, c2}
  Greetings <- OneOrTwoMethods
  Requests <- NameOrIPv4
  BufLen = 13
  DataLen = 3
  Targets <- AnyTarget
  RelayLen = 2
INVARIANTS
  TypeOK
  HandlesFaithful
  EchoesInOrder
  NeverMisdirected
  RelayedInOrder
  EndedCopied
PROPERTIES
  EveryoneServed
CHECK_DEADLOCK FALSE
