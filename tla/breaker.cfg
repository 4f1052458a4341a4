SPECIFICATION FairSpec
CONSTANTS
  Threshold = 3
  ResetAfter = 3
  Callers = {c1, c2}
  Watchers = {s1}
INVARIANTS
  TypeOK
  TrippedAtThreshold
PROPERTIES
  ProbesAreSpaced
  ClosesAfterRecovery
  OpensInOutages
