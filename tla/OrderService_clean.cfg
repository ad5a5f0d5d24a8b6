SPECIFICATION FairSpec
CONSTANTS
  Calls = {c1, c2, c3}
  Keys = {k1}
  Payloads = {p1, p2}
  NaNPayloads = {}
  MaxAttempts = 2
  Faults <- CleanFaults
  MayCancel = FALSE
  MayCrash = FALSE
  None = None
INVARIANTS
  SettledConsistently
  ReturnedMeansSettled
  BlameIsFinal
PROPERTIES
  ReplayOfSuccessSucceeds
  EveryCallReturns
