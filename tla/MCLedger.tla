------------------------------ MODULE MCLedger ------------------------------
(***************************************************************************)
(* Instances of ChainManager about transactions.  Every block has the same *)
(* work, so the longer branch wins.  The configurations choose among these *)
(* blocks; a coinbase pays 2.                                              *)
(*                                                                         *)
(*   g - p1 - p2 - p3 - p4     p2 and q3 spend the coinbase of p1 in       *)
(*         \- q2 - q3          different transactions; r2 fails at its     *)
(*         \- r2               last transaction; w3 skips a nonce          *)
(*         \- w2 - w3                                                      *)
(***************************************************************************)
EXTENDS ChainManager

Pay(sender, recipient, amount, fee, nonce) ==
  [sender |-> sender, recipient |-> recipient, amount |-> amount, fee |-> fee,
   nonce |-> nonce, signed |-> TRUE]

Reward(recipient) == Pay(kCoinbaseSender, recipient, 2, 0, 0)

ToBob    == Pay("alice", "bob", 1, 1, 0)     \* spends alice's coinbase
ToBobAll == Pay("alice", "bob", 2, 0, 0)     \* spends it without a fee
ToSelf   == Pay("alice", "alice", 1, 1, 0)   \* to the sender's own account
Second   == Pay("alice", "bob", 0, 0, 1)     \* a later nonce
Unsigned == [ToBob EXCEPT !.signed = FALSE]

Row(prev, time, txs) ==
  [prev |-> prev, time |-> time, difficulty |-> 1, mined |-> TRUE, txs |-> txs]

Rows ==
  [g  |-> [Row("none", 0, <<>>) EXCEPT !.difficulty = 0],
   p1 |-> Row("g", 1, <<Reward("alice")>>),
   p2 |-> Row("p1", 2, <<ToBob>>),
   p3 |-> Row("p2", 3, <<Reward("bob")>>),
   p4 |-> Row("p3", 4, <<>>),
   q2 |-> Row("p1", 3, <<Reward("bob")>>),
   q3 |-> Row("q2", 4, <<ToSelf, Second>>),
   r2 |-> Row("p1", 5, <<Reward("bob"), ToBobAll, Unsigned>>),
   w2 |-> Row("p1", 3, <<Reward("alice")>>),
   w3 |-> Row("w2", 4, <<Second>>)]

MCBlk == [h \in Hash |-> Rows[h]]

MCHistory ==
  LET past[h \in Hash] == IF h = "g" THEN <<h>> ELSE Append(past[Rows[h].prev], h)
  IN  past

MCPending == {ToBob, ToSelf, Second, Unsigned}

MCBatches ==
  Seq(Hash) \cap {<<"p1", "p2", "p3", "p4">>, <<"p1", "q2", "q3">>}
=============================================================================
