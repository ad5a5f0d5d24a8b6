SPECIFICATION FairSpec
CONSTANTS
  Callers = {h1, h2, h3}
  MaxFailures = 2
  ResetTimeout = 0
  DefaultReset = 2
  MaxLag = 3
  NoCall = NoCall
INVARIANTS
  TypeOK
  FlightMeansHalfOpen
  HalfOpenHasTrial
  FailuresBounded
PROPERTIES
  NeverStuck
