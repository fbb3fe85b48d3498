SPECIFICATION Spec
INVARIANTS
  BusyIsPolled
  ErrorIsNotShown
PROPERTIES
  EndOfUpdateShown
CHECK_DEADLOCK FALSE
