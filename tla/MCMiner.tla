------------------------------ MODULE MCMiner ------------------------------
(***************************************************************************)
(* An instance of Miner.  Peers send r1, r2 and s1; s1 is stamped ahead of *)
(* the clock, so that the median decides the time of a template on it.     *)
(* The other blocks are what the miner may find, with and without a reward *)
(* and with the payment once alice can afford it.                          *)
(***************************************************************************)
EXTENDS Miner

Row(prev, time, txs) ==
  [prev |-> prev, time |-> time, difficulty |-> 1, mined |-> TRUE, txs |-> txs]

Reward(recipient, amount) ==
  [sender |-> kCoinbaseSender, recipient |-> recipient, amount |-> amount, fee |-> 0,
   nonce |-> 0, signed |-> FALSE]

ToBob == [sender |-> "alice", recipient |-> "bob", amount |-> 1, fee |-> 1, nonce |-> 0,
          signed |-> TRUE]

Plain == <<Reward("alice", 2)>>
Paying == <<Reward("alice", 3), ToBob>>

Rows ==
  [g  |-> [Row("none", 0, <<>>) EXCEPT !.difficulty = 0],
   r1 |-> Row("g", 2, <<Reward("bob", 2)>>), r2 |-> Row("r1", 3, <<>>),
   s1 |-> Row("g", 3, Plain),
   m1 |-> Row("g", 1, Plain), m2 |-> Row("g", 2, Plain), m3 |-> Row("g", 1, <<>>),
   m4 |-> Row("g", 1, <<ToBob>>),
   n2 |-> Row("m1", 2, Paying),
   t1 |-> Row("s1", 4, Plain), t2 |-> Row("s1", 4, Paying), t4 |-> Row("s1", 2, Plain),
   u1 |-> Row("r1", 3, Plain)]

MCBlk == [h \in Hash |-> Rows[h]]

MCHistory ==
  LET past[h \in Hash] == IF h = "g" THEN <<h>> ELSE Append(past[Rows[h].prev], h)
  IN  past

MCPending == {ToBob}
MCBatches == {<<"r1", "r2">>}
=============================================================================
