-------------------------------- MODULE Block --------------------------------
(***************************************************************************)
(* The blocks that exist in an instance.  Block::deserialize recomputes    *)
(* hash_ from the content, so a received block is its hash, and Blk gives  *)
(* the content a hash commits to:                                          *)
(*   prev        the hash of the parent,                                   *)
(*   time        timestamp_,                                               *)
(*   difficulty  the declared difficulty_,                                 *)
(*   mined       whether the hash has that many leading zero bits,         *)
(*   txs         the transactions.                                         *)
(* Because prev_hash_ is hashed too, a hash commits to the block's whole   *)
(* ancestry: History[h] is the sequence of the known ancestors of h, the   *)
(* oldest first and h last.                                                *)
(***************************************************************************)
EXTENDS Integers, Sequences, Consensus

CONSTANTS
  Hash,        \* the hashes of the blocks of the instance
  Genesis,     \* the hash of the genesis block
  BlockTable,  \* the content of each block
  PastTable    \* the ancestry of each block

(* TLC evaluates these definitions once, and a constant at every use.      *)
Blk == BlockTable
History == PastTable

BlockType ==
  [prev : Hash \cup {"none"}, time : Nat, difficulty : 0..(U32 - 1),
   mined : BOOLEAN, txs : Seq(Transaction)]

ASSUME BlockAssumption ==
  /\ Genesis \in Hash
  /\ "none" \notin Hash
  /\ Blk \in [Hash -> BlockType]
  /\ Blk[Genesis].prev = "none"
  /\ Blk[Genesis].txs = <<>>

(* Nothing but the acyclicity of prev_hash_: the history of h ends with h, *)
(* each member is its successor's parent, no block repeats, and every      *)
(* beginning of a history is the history of its own last block.            *)
ASSUME HistoryAssumption ==
  /\ History \in [Hash -> Seq(Hash)]
  /\ \A h \in Hash :
       /\ Len(History[h]) >= 1
       /\ History[h][Len(History[h])] = h
       /\ Blk[History[h][1]].prev \notin Hash
       /\ \A i \in 2..Len(History[h]) : Blk[History[h][i]].prev = History[h][i - 1]
       /\ \A i, j \in 1..Len(History[h]) : History[h][i] = History[h][j] => i = j
       /\ \A i \in 1..Len(History[h]) : History[History[h][i]] = SubSeq(History[h], 1, i)

(* The headers of a sequence of blocks, as the consensus rules read them.  *)
Headers(hashes) == [i \in DOMAIN hashes |-> Blk[hashes[i]]]

(* The transactions of a sequence of blocks, in order.                     *)
AllTxs(hashes) ==
  LET run[i \in 0..Len(hashes)] ==
        IF i = 0 THEN <<>> ELSE run[i - 1] \o Blk[hashes[i]].txs
  IN  run[Len(hashes)]
=============================================================================
