SPECIFICATION FairSpec
CONSTANTS
  Threshold = 2
  ResetAfter = 2
  Trades = {t1, t2}
  Workers = {w1, w2}
  MaxRetries = 3
  RequestTime = 1
  Outages = 2
INVARIANTS
  TypeOK
PROPERTIES
  AttemptsAreLostInOutages
  EveryChainEnds
