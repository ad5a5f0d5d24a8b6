SPECIFICATION Spec
CONSTANTS
  Calls = {c1, c2}
  Keys = {k1}
  Payloads = {p1, p2}
  NaNPayloads = {}
  MaxAttempts = 2
  Faults <- NoFaults
  MayCancel = TRUE
  MayCrash = FALSE
  None = None
SYMMETRY Symmetry
INVARIANTS
  ErrorMeansNoCharge
