CONSTANTS
  r1 = r1
  r2 = r2
  r3 = r3
  r4 = r4
  Requests = {r1, r2, r3, r4}
  Launches = {r1, r2}
  Fits <- MCFits
  NoLaunch = NoLaunch
  Faults = TRUE
  MethodOf <- MCMethodOf
  MaxSent = 2
  MaxStarts = 2
  MaxSignals = 2
SPECIFICATION Spec
INVARIANTS
  LaunchedIsVerified
  BusOutlivesRequests
  CleanExit
  ClientFindsServer
PROPERTIES
  AskedEnds
  RequestsEnd
CHECK_DEADLOCK FALSE
