----------------------------- MODULE Blockchain -----------------------------
(***************************************************************************)
(* The main chain, src/core/Blockchain.cpp, as a record:                   *)
(*   blocks          the hashes of blocks_; blocks[i + 1] is at height i,  *)
(*   work            the cumulative_work_ of each of them,                 *)
(*   height_by_hash  the index.                                            *)
(***************************************************************************)
EXTENDS Integers, Sequences, Block

GenesisChain ==
  [blocks |-> <<Genesis>>, work |-> <<0>>, height_by_hash |-> [h \in {Genesis} |-> 0]]

size(bc) == Len(bc.blocks)

latest(bc) == bc.blocks[size(bc)]

has_block(bc, h) == h \in DOMAIN bc.height_by_hash

(***************************************************************************)
(* Cumulative work along a branch that starts on top of `start' work, in   *)
(* 64 bits; entry i is the work at the i-th block.                         *)
(***************************************************************************)
BranchWork(start, branch) ==
  LET run[i \in 0..Len(branch)] ==
        IF i = 0 THEN start ELSE Add64(run[i - 1], block_work(Blk[branch[i]]))
  IN  run

TruncateKeepsIndex(bc, base) ==   \* faulty: discarded blocks stay in the index
  [blocks |-> SubSeq(bc.blocks, 1, base),
   work   |-> SubSeq(bc.work, 1, base),
   height_by_hash |-> bc.height_by_hash]

(* Cutting the chain down to its first `base' blocks, index included.      *)
Truncate(bc, base) ==
  [blocks |-> SubSeq(bc.blocks, 1, base),
   work   |-> SubSeq(bc.work, 1, base),
   height_by_hash |->
     [h \in DOMAIN bc.height_by_hash \
              {bc.blocks[i] : i \in (base + 1)..size(bc)} |-> bc.height_by_hash[h]]]

(* add_block for each block of a branch.                                   *)
AddBlocks(bc, branch) ==
  LET n == size(bc)
      works == BranchWork(bc.work[n], branch)
      added == {branch[i] : i \in DOMAIN branch}
  IN  [blocks |-> bc.blocks \o branch,
       work   |-> bc.work \o [i \in DOMAIN branch |-> works[i]],
       height_by_hash |->
         [h \in DOMAIN bc.height_by_hash \cup added |->
            IF h \in added THEN n - 1 + (CHOOSE i \in DOMAIN branch : branch[i] = h)
            ELSE bc.height_by_hash[h]]]

add_block(bc, h) == AddBlocks(bc, <<h>>)

reorganize_to(bc, fork) == AddBlocks(Truncate(bc, fork.base), fork.blocks)

(* The blocks reorganize_to takes out of the chain, oldest first.          *)
Discarded(bc, fork) == SubSeq(bc.blocks, fork.base + 1, size(bc))

classify_new_block(bc, h) ==
  IF \E i \in DOMAIN Blk[h].txs : is_coinbase(Blk[h].txs[i]) /\ i # 1 THEN "Invalid"
  ELSE IF Blk[h].prev # latest(bc) THEN "ForkCandidate"
  ELSE "Valid"

-----------------------------------------------------------------------------
(* What a chain must be.  Its blocks run from genesis to the tip without a *)
(* gap, the index names exactly them at their heights, and the cumulative  *)
(* work adds up block by block.                                            *)
Intact(bc) ==
  /\ bc.blocks = History[latest(bc)]
  /\ bc.blocks[1] = Genesis
  /\ DOMAIN bc.height_by_hash = {bc.blocks[i] : i \in 1..size(bc)}
  /\ \A i \in 1..size(bc) : bc.height_by_hash[bc.blocks[i]] = i - 1
  /\ Len(bc.work) = size(bc) /\ bc.work[1] = 0
  /\ \A i \in 2..size(bc) :
       bc.work[i] = Add64(bc.work[i - 1], block_work(Blk[bc.blocks[i]]))

(* Each block declares the difficulty that the blocks below it require and *)
(* is later than their median.                                             *)
ObeysRules(blocks) ==
  LET hs == Headers(blocks)
  IN  \A i \in 2..Len(blocks) :
        /\ hs[i].difficulty = next_difficulty(i - 1, hs)
        /\ hs[i].time > median_time_past(i - 1, hs)
=============================================================================
