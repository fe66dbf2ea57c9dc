\* Forks without transactions: branches up to three blocks deep are traced,
\* the pool holds three blocks, and the clock is either early (b4 is
\* too far in the future) or late.
CONSTANTS
  Hash = {"g", "a1", "a2", "a3", "a4", "b2", "b3", "b4", "x4", "u1"}
  Genesis = "g"
  BlockTable <- MCBlk
  PastTable <- MCHistory
  Batches <- MCBatches
  Pending = {}
  Time = {4, 9}
  Address = {}
  kCoinbaseSender = "COINBASE"
  U64 = 256
  U32 = 16
  initial_difficulty = 1
  min_difficulty = 1
  target_block_time = 2
  retarget_interval = 2
  mtp_window = 3
  max_future_drift = 2
  mining_reward = 50
  max_size = 1
  max_orphans = 3
  kMaxForkDepth = 3
SPECIFICATION Spec
INVARIANTS ChainIntact ChainObeysRules DiskMirrorsChain
PROPERTIES  TipVersionTracksTip AnnouncesWhatEntered ReorgClearsPool HandledBlockIsSettled
