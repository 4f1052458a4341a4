SPECIFICATION Spec
CONSTANTS
  l1 = l1
  l2 = l2
  LiveTicks <- TwoTicks
  Replayer = replayer
  Prices <- Up
  File <- SpikeFile
  Replays = 1
  Window = 2
  Cooldown = 2
  KeyTTL = 4
  Lag = 1
  Start = 3
  End = 5
  Faults = 1
INVARIANTS
  TypeOK
  ReferenceIsEarlier
PROPERTIES
  SignalsAreApart
  SuppressionHasACause
CHECK_DEADLOCK FALSE
