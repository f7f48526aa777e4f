SPECIFICATION Spec
CONSTANTS
  Bodies = {b1, b2}
  GenesisBody = g
  NoBlock = NoBlock
  MaxBlocks = 4
  MaxParents = 2
  MaxRestarts = 1
INVARIANTS
  TopoIndexIsTopological
  TipsAreLeaves
  IndexMatchesStore
PROPERTIES
  ImplementsLedger
