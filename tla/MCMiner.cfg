\* Two clock readings, so that the median exceeds the clock on s1, and at the
\* earlier one the bound; the coinbase pays 2.  The program may stop.
CONSTANTS
  Hash = {"g", "r1", "r2", "s1", "m1", "m2", "m3", "m4", "n2", "t1", "t2", "t4", "u1"}
  Genesis = "g"
  BlockTable <- MCBlk
  PastTable <- MCHistory
  Batches <- MCBatches
  Pending <- MCPending
  Time = {1, 2}
  Address = {"alice", "bob"}
  kCoinbaseSender = "COINBASE"
  U64 = 256
  U32 = 16
  initial_difficulty = 1
  min_difficulty = 1
  target_block_time = 2
  retarget_interval = 9
  mtp_window = 3
  max_future_drift = 2
  mining_reward = 2
  max_size = 1
  max_orphans = 1
  kMaxForkDepth = 2
  Relayed = {"r1", "r2", "s1"}
  RewardAddress = {"", "alice"}
  kMaxTxsPerBlock = 1
  kMaxTimestampBumps = 1
SPECIFICATION MinerSpec
PROPERTIES RefusedOnlyInARace StaleTemplateIsDropped MinerStops
CHECK_DEADLOCK FALSE
