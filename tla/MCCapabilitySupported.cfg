SPECIFICATION Spec
CONSTANTS
  disk1 = disk1
  disk2 = disk2
  shrink = shrink
  gap = gap
  replace = replace
  manual = manual
  Target <- MCTarget
  Kind <- MCKind
  Rank <- MCRank
  GapSize <- MCGapSize
  Allowed <- TpmAllowed
  TargetSets <- TwoDisksOnly
  Passphrase = {p1}
  Empty = Empty
  None = None
  UserWaits = TRUE
  MaxResets = 2
INVARIANT CapabilitySupported
CHECK_DEADLOCK FALSE
