SPECIFICATION FairSpec
CONSTANTS
  MaxDelay = 2
  ReconnectAfter = 6
  ClockOffset = 100
PROPERTIES
  SilentFeedIsReconnected
