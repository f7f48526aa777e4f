SPECIFICATION FSpec
CHECK_DEADLOCK FALSE
CONSTANTS
  Bodies = {b1}
  GenesisBody = b1
  NoBlock = NoBlock
  MaxBlocks = 4
  MaxParents = 2
  MaxRestarts = 1
  k = 0
  Margin = 2
VIEW View
INVARIANTS
  TraversalsAgree
  FinalIsClosed
  VspIsBestParent

  
