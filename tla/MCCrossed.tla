----------------------------- MODULE MCCrossed -----------------------------
(* Node "A" has the smaller node_id.                                       *)
EXTENDS PeerRegistry

MCId == [n \in Node |-> IF n = "A" THEN 1 ELSE 2]
MCNodeOf == [t \in Dialler |-> IF t = "A_loop" THEN "A" ELSE "B"]
=============================================================================
