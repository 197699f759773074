SPECIFICATION FairSpec
CONSTANTS
  Rtts = {0, 1, 9, 30, 40}
  MaxRtt = 40
  Intervals <- IntervalArguments
  MinInterval = 10
  MaxInterval = 12
  DefInterval = 11
  RtoNdl = 3
  RtoMin = 10
  RtoDef = 20
  RtoMax = 60
  Width = 321
INVARIANTS
  TypeOK
  NoOverflow
PROPERTIES
  NoSpuriousTimeout
  TimeoutForgets
