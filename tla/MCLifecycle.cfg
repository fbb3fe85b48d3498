SPECIFICATION LifeSpec
CONSTANTS
  Monitors <- MCMonitors
  States <- MCStates
  MaxChanges = 5
  NoReply = NoReply
  Asked = Asked
  Lost = Lost
  MaxTries = 2
  Networks = {TRUE, FALSE}
  AutoConfirm = TRUE
INVARIANTS
  PagesOfRunningServer
  PagesAfterLoading
PROPERTIES
  EndIsShown
  InstallPageStays
  StartUpEnds
CHECK_DEADLOCK FALSE
