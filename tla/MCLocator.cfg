\* The real number of dense hashes and the real limit on a locator.  Our
\* branch and the shared part reach several of the sparse hashes; answers are
\* cut at 18, fewer than the shared blocks.
CONSTANTS
  Hash = {"g"}
  Genesis = "g"
  BlockTable <- OneBlock
  PastTable <- OnePast
  Address = {}
  kCoinbaseSender = "COINBASE"
  U64 = 256
  U32 = 16
  initial_difficulty = 1
  min_difficulty = 1
  target_block_time = 2
  retarget_interval = 9
  mtp_window = 3
  max_future_drift = 2
  mining_reward = 50
  dense_hashes = 10
  kMaxLocatorHashes = 64
  MaxShared = 20
  MaxOurs = 30
  MaxTheirs = 4
  Limit = 18
SPECIFICATION Spec
INVARIANTS LocatorStaysSmall AnswerAttaches AnswerIsNew
CHECK_DEADLOCK FALSE
