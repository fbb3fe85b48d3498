SPECIFICATION Spec
CONSTANTS
  disk1 = disk1
  disk2 = disk2
  shrink = shrink
  gap = gap
  replace = replace
  manual = manual
  Target <- MCTarget
  Kind <- MCKind
  Rank <- MCRank
  GapSize <- MCGapSize
  Allowed <- TpmAllowed
  TargetSets <- MCTargetSets
  Passphrase = {p1}
  Empty = Empty
  None = None
  UserWaits = TRUE
  MaxResets = 1
INVARIANTS
  ReviewedIsInstalled
  ReviewedIsChosen
  PassphraseFitsCapability
  AllTargetsOffered
PROPERTIES
  ChoiceSpec
CHECK_DEADLOCK FALSE
