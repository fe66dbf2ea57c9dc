------------------------------- MODULE MCForks -------------------------------
(***************************************************************************)
(* An instance of ChainManager about forks: no transactions, ten blocks.   *)
(*                                                                         *)
(*   g - a1 - a2 - a3 - a4    a4 follows fast blocks: difficulty 2         *)
(*    \     \                                                              *)
(*     u1    b2 - b3 - b4     slower blocks: difficulty stays 1            *)
(*                 \                                                       *)
(*                  x4        declares more than its height requires       *)
(*                                                                         *)
(* Work is 2^difficulty: a3 and b3 tie, b4 outweighs a3, a4 outweighs b4,  *)
(* and x4 would outweigh all if its declared difficulty counted.  u1 has   *)
(* not enough leading zero bits, and b4 is too far in the future for the   *)
(* early clock.                                                            *)
(***************************************************************************)
EXTENDS ChainManager

Row(prev, time, difficulty) ==
  [prev |-> prev, time |-> time, difficulty |-> difficulty, mined |-> TRUE, txs |-> <<>>]

Rows ==
  [g  |-> Row("none", 0, 0),
   a1 |-> Row("g", 1, 1),  a2 |-> Row("a1", 2, 1), a3 |-> Row("a2", 3, 1),
   a4 |-> Row("a3", 4, 2),
   b2 |-> Row("a1", 3, 1), b3 |-> Row("b2", 5, 1), b4 |-> Row("b3", 7, 1),
   x4 |-> Row("b3", 6, 4),
   u1 |-> [Row("g", 1, 1) EXCEPT !.mined = FALSE]]

MCBlk == [h \in Hash |-> Rows[h]]

MCHistory ==
  LET past[h \in Hash] == IF h = "g" THEN <<h>> ELSE Append(past[Rows[h].prev], h)
  IN  past

(* What catch-ups may have collected: a whole branch, its beginning, one   *)
(* starting with known blocks, one with a gap, and nothing.                *)
MCBatches ==
  Seq(Hash) \cap
  {<<>>, <<"a1", "a2">>, <<"a1", "a2", "a3", "a4">>, <<"b2", "b3", "b4">>,
   <<"a1", "b2", "b3", "x4">>, <<"b2", "b4">>, <<"u1">>}
=============================================================================
