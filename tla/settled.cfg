SPECIFICATION FairSpecR
CONSTANTS
  Trades = {1, 2}
  Workers = {w1}
  None = None
  MaxRetries = 0
  BatchLimit = 1
  Consumed = {"notifications", "reconciliation"}
  PromptQueue = FALSE
  QueueCap = 1
  Budget <- OneFault
INVARIANT
  DuplicatesHaveACause
PROPERTY
  EveryTradeIsSettled
