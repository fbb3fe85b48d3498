SPECIFICATION Spec
CONSTANTS
  Slots = 2
  Original <- MCOriginal
  MaxRequests = 3
  MaxInFlight = 2
  Faults = TRUE
  Free = Free
  NoDialog = NoDialog
  Asked = Asked
  Lost = Lost
INVARIANTS
  DeletesOneByOne
  TargetIsShown
  ListIsServers
  SelectedDiskIsListed
  LeftIsComplete
PROPERTIES
  WaitingEnds
CHECK_DEADLOCK FALSE
