---------------------------- MODULE BlockLocator ----------------------------
(***************************************************************************)
(* Block locators, src/core/BlockLocator.cpp, and the answer to one,       *)
(* ChainManager::blocks_after_locator.                                     *)
(***************************************************************************)
EXTENDS Integers, Sequences, FiniteSets, Blockchain

CONSTANT dense_hashes   \* hashes taken one by one before the step doubles (10)

ASSUME LocatorAssumption == dense_hashes \in Nat \ {0}

GapsAlwaysOne(top) == [i \in 0..top |-> i]   \* faulty: the step never doubles

GapsQuadruple(top) ==   \* faulty: the step grows too fast
  LET gap[i \in 0..top] ==
        IF i = 0 THEN 0
        ELSE LET last == gap[i - 1]
                 step == IF i < dense_hashes THEN 1 ELSE 4^(i - dense_hashes + 1)
             IN  IF last >= top THEN top ELSE last + step
  IN  gap

(* How far below the tip the (i + 1)-th hash of a locator lies: the steps  *)
(* are 1 until dense_hashes hashes are taken, and double from then on,     *)
(* until genesis is reached or passed.                                     *)
Gaps(top) ==
  LET gap[i \in 0..top] ==
        IF i = 0 THEN 0
        ELSE LET last == gap[i - 1]
                 step == IF i < dense_hashes THEN 1 ELSE 2^(i - dense_hashes + 1)
             IN  IF last >= top THEN top ELSE last + step
  IN  gap

(* The heights of a locator, from the tip downwards and ending at genesis. *)
LocatorHeights(top) ==
  LET gap == Gaps(top)
      n   == Cardinality({i \in 0..top : gap[i] < top})
  IN  [i \in 1..(n + 1) |-> IF i <= n THEN top - gap[i - 1] ELSE 0]

build_locator(bc) ==
  LET heights == LocatorHeights(size(bc) - 1)
  IN  [i \in DOMAIN heights |-> bc.blocks[heights[i] + 1]]

MatchLast(bc, locator) ==   \* faulty: takes the oldest shared block
  LET shared == {i \in DOMAIN locator : has_block(bc, locator[i])}
  IN  {bc.height_by_hash[locator[i]] : i \in {j \in shared : \A k \in shared : k <= j}}

(* The height of the first hash of the list that is on the chain, if any.  *)
find_locator_match(bc, locator) ==
  LET shared == {i \in DOMAIN locator : has_block(bc, locator[i])}
  IN  {bc.height_by_hash[locator[i]] : i \in {j \in shared : \A k \in shared : j <= k}}

(* The blocks above the match, at most `limit' of them.                    *)
blocks_after_locator(bc, locator, limit) ==
  LET upto(from) == IF from + limit < size(bc) THEN from + limit ELSE size(bc)
      match == find_locator_match(bc, locator)
  IN  IF match = {} THEN <<>>
      ELSE LET from == 1 + CHOOSE height \in match : TRUE
           IN  SubSeq(bc.blocks, from + 1, upto(from))
=============================================================================
