SPECIFICATION Spec
CONSTANTS
  Streams = {s1, s2}
  Drivers = {d1}
  NaNs = {FALSE}
  HasTTL = FALSE
  MaxRetries = 0
  Faults = {}
  MaxLocations = 2
INVARIANTS
  LatestIsNewest
