\* A window and an epoch of three blocks, and clocks up to 4: long enough for
\* two full epochs, one of which is adjusted, and for the median's window to
\* slide past genesis.
CONSTANTS
  Address = {}
  kCoinbaseSender = "COINBASE"
  U64 = 256
  U32 = 16
  initial_difficulty = 2
  min_difficulty = 1
  target_block_time = 2
  retarget_interval = 3
  mtp_window = 3
  max_future_drift = 3
  mining_reward = 50
  MaxClock = 4
  MaxHeight = 6
SPECIFICATION Spec
INVARIANTS EpochsAdjustDifficulty MedianWithinDrift
PROPERTY MedianNeverDecreases
CHECK_DEADLOCK FALSE
