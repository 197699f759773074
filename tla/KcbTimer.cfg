SPECIFICATION Spec
CONSTANTS
  Modulus = 36
  Interval = 2
  JumpLimit = 8
  Rtos = {4, 8}
  RtoMax = 8
  ProbeInit = 3
  ProbeLimit = 5
  MaxXmit = 2
  MaxGap = 2
  Callers = {"polls", "sleeps", "resets"}
  MaxOut <- OutByCaller
  Ids = {s1, s2}
  s1 = s1
  s2 = s2
INVARIANTS
  TypeOK
  FlushAhead
  FlushWithinInterval
  ResentOnTime
  ProbedOnTime
PROPERTIES
  NeverResentEarly
