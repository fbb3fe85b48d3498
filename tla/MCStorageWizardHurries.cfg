SPECIFICATION Spec
CONSTANTS
  disk1 = disk1
  disk2 = disk2
  shrink = shrink
  gap = gap
  replace = replace
  manual = manual
  Target <- MCTarget
  Kind <- MCKind
  Rank <- MCRank
  GapSize <- MCGapSize
  Allowed <- PlainAllowed
  TargetSets <- TwoDisksOnly
  Passphrase = {p1}
  Empty = Empty
  None = None
  UserWaits = FALSE
  MaxResets = 2
PROPERTIES
  GuidedOnlyAfterReset
  LoadEnds
CHECK_DEADLOCK FALSE
