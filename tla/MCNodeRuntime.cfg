SPECIFICATION MCSpec
CONSTANTS
  t1 = t1
  t2 = t2
  t3 = t3
  Bodies = {}
  GenesisBody <- MCGenesisBody
  NoBlock = NoBlock
  MaxBlocks = 5
  MaxParents = 1
  MaxRestarts = 1
  k = 2
  CTS_INITIAL_REWARD = 100
  CTS_MINIMUM_REWARD = 1
  MINING_SUPPLY = 250
  DAA_WINDOW = 3
  Txs = {t1, t2, t3}
  Senders = {"alice"}
  Price <- MCPrice
  Sender <- MCSender
  NoSource = NoSource
  min_gas_price = 1
  max_size = 2
  MAX_TX_PER_SOURCE = 1
  MaxCalls = 3
  Clients = {c1}
  Runtime = runtime
  max_transactions = 2
  activity_window_size = 144
  Pauses = {31, 60}
  MaxSwitches = 2
  target_block_interval = 30
  adjustment_window = 2
  min_difficulty = 1
  max_difficulty = 40
  U64_MAX = 255
  Times = {0, 2, 30, 99}
  Miners = {m1}
  MaxMined = 4
CHECK_DEADLOCK FALSE

  
  
PROPERTIES
  LeavesForBlock
  PendingIncluded
