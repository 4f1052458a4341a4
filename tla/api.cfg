SPECIFICATION Spec
CONSTANTS
  Signals <- FiveSignals
  PageSize = 2
  Processes = {1, 2}
  Latencies = {1, 50, 51}
  MaxSamples = 3
  File <- Lines
  Strays = 2
INVARIANTS
  TypeOK
  NothingIsMissed
  RepeatsHaveACause
  SummaryAddsUp
  StrikeIsNearest
  PremiumIsNearTimeValue
  OneSideIsInTheMoney
  VerdictIsEarned
