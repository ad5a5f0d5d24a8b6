SPECIFICATION FairSpec
CONSTANTS
  Callers = {g1, g2, g3}
  Rate = 3
  Burst = 2
INVARIANTS
  TypeOK
  SleepersAreDue
PROPERTIES
  NeverExceedsBucket
  SomeoneGetsThrough
