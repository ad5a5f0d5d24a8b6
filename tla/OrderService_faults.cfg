SPECIFICATION Spec
CONSTANTS
  Calls = {c1, c2}
  Keys = {k1}
  Payloads = {p1, p2, p3}
  NaNPayloads = {p3}
  MaxAttempts = 2
  Faults <- AllFaults
  MayCancel = TRUE
  MayCrash = TRUE
  None = None
SYMMETRY Symmetry
INVARIANTS
  TypeOK
  AtMostOneChargePerKey
  OkMeansFulfilled
  StatusTruthful
  AuditTruthful
  ConflictMeansReuse
  RefusalCostsNothing
  OrderInv
PROPERTIES
  SettledStays
  KeepsPromise
