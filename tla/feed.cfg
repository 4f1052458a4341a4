SPECIFICATION FairSpec
CONSTANTS
  MaxDelay = 8
  ReconnectAfter = 6
  ClockOffset = 100
INVARIANTS
  TypeOK
  BackoffSchedule
PROPERTIES
  KeepsTrying
  StopEndsTheWait
