SPECIFICATION Spec
CONSTANTS
  b = b
  c = c
  d = d
  k = k
  l = l
  s = s
  Slots = {s}
  Addresses = {b, c, d, k, l}
  Pool <- MCPool
  MaxTxs = 5
  Funds = 3
CHECK_DEADLOCK FALSE
INVARIANTS
  SerialWhenOrderKept
  TokensAccounted
