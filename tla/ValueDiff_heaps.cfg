SPECIFICATION FairSpec
CONSTANTS
  n1 = n1
  n2 = n2
  nan = nan
  k1 = k1
  k2 = k2
  Nodes = {n1, n2}
  First = n1
  Second = n2
  KeyOrder <- Sorted
  NaNs = {nan}
  Label <- KeyLabels
  MaxKids = 2
  DepthLimit = 1
  Limit = 2
INVARIANTS
  DiffIffUnequal
  NothingHidden
PROPERTIES
  WalkEnds
CHECK_DEADLOCK FALSE
