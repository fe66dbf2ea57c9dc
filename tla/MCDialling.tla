----------------------------- MODULE MCDialling -----------------------------
(* "a" is a public node, "n" is behind a NAT, "l" is local.                *)
EXTENDS Dialling

MCConfigured == <<"a">>

(* Every node reports the port it was dialled at.                          *)
SameReports == [e \in Endpoint |-> e]
=============================================================================
