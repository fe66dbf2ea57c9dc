----------------------------- MODULE MCTxGossip -----------------------------
EXTENDS TxGossip

(* Every pair of nodes is connected, or they form a line a - b - c.        *)
Ring == {p \in Node \X Node : p[1] # p[2]}
Line == Ring \ {<<"a", "c">>, <<"c", "a">>}
MCNetworks == {Ring, Line}

MCFee == [t \in Tx |-> IF t = "t1" THEN 1 ELSE 2]
MCSubmitter == [t \in Tx |-> IF t = "t1" THEN "a" ELSE "c"]
=============================================================================
