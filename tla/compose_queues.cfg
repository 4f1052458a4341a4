SPECIFICATION FairSpec
CONSTANTS
  Trades = {1}
  Workers = {w1}
  None = None
  MaxRetries = 1
  BatchLimit = 1
  Consumed = {"notifications", "celery"}
  PromptQueue = FALSE
  QueueCap = 1
  Budget <- OneFault
PROPERTY
  EveryTradeIsSettled
\* Beat fills a queue nobody empties, and nothing else is left to do.
CHECK_DEADLOCK FALSE
