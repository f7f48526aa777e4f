SPECIFICATION GhostSpec
CONSTANTS
  Bodies = {b1}
  GenesisBody = b1
  NoBlock = NoBlock
  MaxBlocks = 4
  MaxParents = 2
  MaxRestarts = 1
  k = 0
VIEW WithoutAccepted
INVARIANTS
  OrderingIsTopological
  OrderingIsSnapshot
  CachedScoresCountPast
