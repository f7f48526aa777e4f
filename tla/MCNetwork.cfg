SPECIFICATION FairSpec
CHECK_DEADLOCK FALSE
CONSTANTS
  n1 = n1
  n2 = n2
  n3 = n3
  x = x
  y = y
  g = g
  t = t
  NoBlock = NoBlock
INVARIANTS
  
  HeadersClosed

  
