SPECIFICATION FairSpec
CONSTANTS
  Unary = {u1, u2}
  Streams = {t1, t2}
  Untracked = {t2}
  SetupMayFail = TRUE
  ServeMayFail = TRUE
  Environments <- OneOff
  Forgotten = Forgotten
INVARIANTS
  TypeOK
  MetricsAgree
  StoresReleased
  SignalLeavesNoCall
  WorkHasStores
PROPERTIES
  ServesOnlyConfigured
  ShutdownCompletes
