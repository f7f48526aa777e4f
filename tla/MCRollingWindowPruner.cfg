SPECIFICATION PSpec
CONSTANTS
  p = p
  q = q
  h1 = h1
  h2 = h2
  h3 = h3
  x = x
  y = y
  Hashes = {h1, h2, h3}
  Txs = {x, y}
  TxsOf <- MCTxsOf
  HeightOf <- MCHeightOf
  Heights = {2, 7}
  window_size = 1
  snapshot_interval = 2
  pruning_threshold = 2
  U64_MAX = 15
  Threads = {p, q}
  cache_size_limit = 2
  MaxCalls = 5
  MaxCrashes = 1
SYMMETRY Callers
CHECK_DEADLOCK FALSE
INVARIANTS
  CacheAccounting
  DurableUntilDeleted
  WindowKept
  SnapshotBeforeDelete
  PrunedRangeEmpty
