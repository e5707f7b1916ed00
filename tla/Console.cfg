SPECIFICATION FairSpec
CONSTANTS
  Devices = {"d1", "d2"}
  MaxNodes = 3
  Rank <- MCRank
  MaxOps = 5
  None = None
INVARIANTS
  HighlightIsTarget
PROPERTIES
  OnlyConfirmed
  CancelSettles
CHECK_DEADLOCK FALSE
