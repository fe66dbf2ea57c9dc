----------------------------- MODULE MCCatchUp -----------------------------
(***************************************************************************)
(* Two peers with branches of their own and a block of the node's miner.   *)
(*                                                                         *)
(*   g - a1 - a2       a2 is too far in the future for the earliest clock  *)
(*   |\                                                                    *)
(*   | b1              found by the node itself                            *)
(*   |                                                                     *)
(*    f1               stamped too far in the future for any clock         *)
(***************************************************************************)
EXTENDS CatchUp, TLC

Row(prev, time) ==
  [prev |-> prev, time |-> time, difficulty |-> 1, mined |-> TRUE, txs |-> <<>>]

Rows ==
  [g  |-> [Row("none", 0) EXCEPT !.difficulty = 0],
   a1 |-> Row("g", 1), a2 |-> Row("a1", 5), b1 |-> Row("g", 1), f1 |-> Row("g", 50)]

(* `@@ <<>>' makes TLC compute these tables once.                          *)
MCBlk == [h \in Hash |-> Rows[h]] @@ <<>>

MCHistory ==
  LET past[h \in Hash] == IF h = "g" THEN <<h>> ELSE Append(past[Rows[h].prev], h)
  IN  past @@ <<>>

(* "p" may gain both a's, "q" has a chain that is refused.                 *)
MCTips == [p \in Peer |-> IF p = "q" THEN {"f1"} ELSE {"g", "a2"}]

(* Only the connection to "p" comes back after it broke.                   *)
MCConnects == [p \in Peer |-> IF p = "q" THEN 1 ELSE 2]
=============================================================================
