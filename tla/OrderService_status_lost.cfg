SPECIFICATION FairSpec
CONSTANTS
  Calls = {c1, c2}
  Keys = {k1}
  Payloads = {p1, p2}
  NaNPayloads = {}
  MaxAttempts = 2
  Faults <- StatusUpdateFails
  MayCancel = FALSE
  MayCrash = FALSE
  None = None
PROPERTIES
  ReplayOfSuccessSucceeds
