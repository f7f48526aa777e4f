SPECIFICATION Spec
CONSTANTS
  Bodies = {b1, b2}
  GenesisBody = g
  NoBlock = NoBlock
  MaxBlocks = 3
  MaxParents = 2
  MaxRestarts = 1
INVARIANT
  AcceptedIsStored
