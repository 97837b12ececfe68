CONSTANTS
  Nodes <- MCNodes
  Rewards <- MCRewards
  Garbage <- MCGarbage
  Heights <- MCHeights
  COIN <- MCCOIN
  COLD_STAKER_FEE = 10
  UNLOCK_PoW_COINS_AFTER_BLOCKS = 100
  UNLOCK_PoS_COINS_AFTER_BLOCKS = 100
  COINBASE_MATURITY = 100
  INT_MAX <- MCINT_MAX
  NO_TIMEOUT <- MCNO_TIMEOUT
  SegwitArgs <- MCSegwitArgs
  VbEntries <- MCVbEntries
  MaxVbArgs = 2
SPECIFICATION Spec
INVARIANT TeamNoApproximationError
