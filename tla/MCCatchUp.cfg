\* A peer that gains two blocks, the later of which is ahead of the earliest
\* clock, and whose connection may break and come back once; a peer with a
\* taller chain that is always refused; a miner that finds a block of its own.
CONSTANTS
  Hash = {"g", "a1", "a2", "b1", "f1"}
  Genesis = "g"
  BlockTable <- MCBlk
  PastTable <- MCHistory
  Batches = {}
  Pending = {}
  Time = {1, 9}
  Address = {}
  kCoinbaseSender = "COINBASE"
  U64 = 256
  U32 = 16
  initial_difficulty = 1
  min_difficulty = 1
  target_block_time = 2
  retarget_interval = 9
  mtp_window = 3
  max_future_drift = 2
  mining_reward = 50
  max_size = 1
  max_orphans = 3
  kMaxForkDepth = 2
  dense_hashes = 2
  Peer = {"p", "q"}
  PeerTips <- MCTips
  Own = {"b1"}
  MAX_BLOCKS_PER_RESPONSE = 4
  CursorWrap = 2
  MaxConnects <- MCConnects
  PromptNetwork = TRUE
SPECIFICATION CatchUpSpec
PROPERTIES SessionEnds CatchesUp
CHECK_DEADLOCK FALSE
