SPECIFICATION MCSpec
CONSTANTS
  alice = alice
  founder = founder
  emission = emission
  c1 = c1
  c2 = c2
  k1 = k1
  k2 = k2
  Users = {alice}
  GENESIS_WALLET = founder
  EMISSION_STATE_ACCOUNT = emission
  CTS_MAX_SUPPLY = 104
  CTS_GENESIS_ALLOCATION = 2
  U64_MAX = 120
  Amounts = {0, 1, 2}
  Fees = {0, 1, 120}
  MaxNonce = 2
  MaxCalls = 6
  Codes = {c1, c2}
  Init_calls <- MCInit_calls
  Method_calls <- MCMethod_calls
  Blocks <- MCBlocks
  MaxExecuted = 2
  MaxCrashes = 1
CHECK_DEADLOCK FALSE
INVARIANTS
  SupplyConserved
  NoReplay
  FeesAreBurned
  RegisteredIsInitialised
