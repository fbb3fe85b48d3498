CONSTANTS
  ann = ann
  root = root
  s1 = s1
  s2 = s2
  h0 = h0
  h1 = h1
  h2 = h2
  Users = {ann, root}
  Secrets = {s1, s2}
  HostNames = {h0, h1, h2}
  InitialHost = h0
  Existing = {root}
  Requests <- MCRequests
  MaxCalls = 2
  Faults = TRUE
  NoSecret = NoSecret
  NoIdentity = NoIdentity
  Nothing = Nothing
SPECIFICATION Spec
INVARIANTS
  AccountsAreKept
  NoOrphans
  HostNameRestored
  LoginHasAccount
PROPERTIES
  LaunchEnds
  AccountsSpec
CHECK_DEADLOCK FALSE
