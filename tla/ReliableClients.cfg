SPECIFICATION FairSpec
CONSTANTS
  Callers = {p1, p2}
  MaxAttempts = 4
  BaseDelay = 2
  MaxDelay = 3
  Width = 4
  Rate = 2
  Burst = 1
  MaxFailures = 2
  ResetTimeout = 2
  DefaultReset = 2
  MaxLag = 1
  NoCall = NoCall
INVARIANTS
  RefusalIsEarned
PROPERTIES
  KeepsCall
  BacksOff
  EveryCallEnds
