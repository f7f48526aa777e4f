SPECIFICATION Spec
CONSTANTS
  t1 = t1
  t2 = t2
  t3 = t3
  s1 = s1
  s2 = s2
  Txs = {t1, t2, t3}
  Threads = {p, q}
  Senders = {s1, s2}
  Sources = {peer}
  NoSource = NoSource
  Price <- MCPrice
  Sender <- MCSender
  Fees = {1, 2}
  min_gas_price = 1
  max_size = 2
  MAX_TX_PER_SOURCE = 1
  MaxParents = 1
  MaxCalls = 3
INVARIANTS
  CapacityRespected
  PendingCoversPool

  
