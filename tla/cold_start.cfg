SPECIFICATION Spec
CONSTANTS
  l1 = l1
  l2 = l2
  LiveTicks <- TwoTicks
  Replayer = replayer
  Prices <- Up
  File <- NoFile
  Replays = 0
  Window = 2
  Cooldown = 2
  KeyTTL = 4
  Lag = 1
  Start = 0
  End = 3
  Faults = 0
INVARIANTS
  NoSignalOnColdStart
CHECK_DEADLOCK FALSE
