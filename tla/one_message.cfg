SPECIFICATION Spec
CONSTANTS
  Trades = {1}
  Workers = {w1, w2}
  None = None
  MaxRetries = 1
  BatchLimit = 1
  Consumed = {"notifications", "reconciliation"}
  PromptQueue = TRUE
  QueueCap = 1
  Budget <- OneFault
INVARIANT
  AtMostOneMessage
