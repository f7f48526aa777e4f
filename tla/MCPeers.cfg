SPECIFICATION Spec
CHECK_DEADLOCK FALSE
CONSTANTS
  p1 = p1
  p2 = p2
SYMMETRY Symmetry
INVARIANTS
  TableIsBounded
  
  ConnectionsCounted
  
PROPERTIES
  BansStand
