\* A heavier branch whose last block skips a nonce.
CONSTANTS
  Hash = {"g", "p1", "p2", "w2", "w3"}
  Genesis = "g"
  BlockTable <- MCBlk
  PastTable <- MCHistory
  Batches <- MCBatches
  Pending <- MCPending
  Time = {9}
  Address = {"alice", "bob"}
  kCoinbaseSender = "COINBASE"
  U64 = 64
  U32 = 16
  initial_difficulty = 1
  min_difficulty = 1
  target_block_time = 1
  retarget_interval = 4
  mtp_window = 3
  max_future_drift = 2
  mining_reward = 2
  max_size = 2
  max_orphans = 2
  kMaxForkDepth = 3
SPECIFICATION Spec
INVARIANT StoredChainReloads
