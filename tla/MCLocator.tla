----------------------------- MODULE MCLocator -----------------------------
(* LocatorExchange names its blocks itself; the block table is not used.   *)
EXTENDS LocatorExchange

OneBlock ==
  [h \in {"g"} |->
     [prev |-> "none", time |-> 0, difficulty |-> 0, mined |-> TRUE, txs |-> <<>>]]

OnePast == [h \in {"g"} |-> <<"g">>]
=============================================================================
