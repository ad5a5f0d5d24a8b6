SPECIFICATION Spec
CONSTANTS
  Streams = {s1, s2}
  Drivers = {d1}
  NaNs = {TRUE, FALSE}
  HasTTL = TRUE
  MaxRetries = 1
  Faults = {"history", "pipe", "linger", "refuse", "cancel", "crash"}
  MaxLocations = 2
SYMMETRY IngestSymmetry
INVARIANTS
  TypeOK
  AckMeansStored
  NoGaps
  StaleHashesExpire
PROPERTIES
  LatestMovesForward
