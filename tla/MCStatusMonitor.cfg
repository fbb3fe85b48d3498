SPECIFICATION Spec
CONSTANTS
  page = page
  wizard = wizard
  Monitors = {page, wizard}
  States <- MCStates
  MaxChanges = 5
  NoReply = NoReply
  Asked = Asked
  Lost = Lost
INVARIANTS
  SilentStreamSaidNull
PROPERTIES
  FeedSpec
CHECK_DEADLOCK FALSE
