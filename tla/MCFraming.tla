----------------------------- MODULE MCFraming -----------------------------
(* A asks B for something or broadcasts; B answers and may hang.  There    *)
(* is a payload that looks like a header, an empty one and one too large.  *)
EXTENDS Framing

Ask == [type |-> 3, payload |-> <<>>]
Block == [type |-> 4, payload |-> <<MAGIC, 3>>]
MCPing == [type |-> 6, payload |-> <<>>]
Pong == [type |-> 7, payload |-> <<>>]
Long == [type |-> 5, payload |-> <<1, 1, 1>>]

MCMessage == {Ask, Block, MCPing, Pong, Long}
MCSays == [n \in Node |-> IF n = "A" THEN {Ask, Block} ELSE {}]
MCAnswer == [m \in Message |-> CASE m = Ask -> <<Long, Block>>
                                 [] m = Ping -> <<Pong>>
                                 [] OTHER -> <<>>]
MCMaxTicks == [n \in Node |-> IF n = "A" THEN 3 ELSE 0]
=============================================================================
