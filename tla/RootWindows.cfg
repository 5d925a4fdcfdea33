CONSTANTS
  Sets <- MCSets
  Leaves <- MCLeaves
  Blocks = {"b1", "b2", "b3", "c2"}
  None = None
  Published <- MCPublished
  RootWindow = 3
  MaxLeaves = 3
  OracleMaxAge = 2
  FutureSkew = 1
SPECIFICATION FairSpec
INVARIANTS OneSetPerHeight
PROPERTIES SelfHeals AdoptedIsCurrent SiblingsLeaveTogether PinnedGoLast
