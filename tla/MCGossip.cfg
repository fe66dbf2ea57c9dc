\* A ring and a line of three nodes, pools with room for one of two
\* transactions, a block with one.
CONSTANTS
  Node = {"a", "b", "c"}
  Networks <- MCNetworks
  Tx = {"t1", "t2"}
  fee <- MCFee
  max_size = 1
  BlockTx = {"t2"}
  Submitter <- MCSubmitter
SPECIFICATION Spec
INVARIANT PoolsAgree
PROPERTY GossipEnds
CHECK_DEADLOCK FALSE
