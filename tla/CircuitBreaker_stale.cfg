SPECIFICATION Spec
CONSTANTS
  Callers = {h1, h2}
  MaxFailures = 2
  ResetTimeout = 2
  DefaultReset = 3
  MaxLag = 3
  NoCall = NoCall
PROPERTIES
  StopsCalls
