------------------------------- MODULE MCWire -------------------------------
(* Hashes of two symbols; empty and repeated entries in every format.      *)
EXTENDS WireDamage

TxA == <<1, <<2>>, <<>>, <<3>>, 0, 1, <<1>>>>
TxB == <<0, <<>>, <<1, 2>>, <<>>, 1, 0, <<>>>>

MCValue == [f \in Format |->
  CASE f = "version" -> {<<1, 2, 3, 4, 5>>}
    [] f = "inv" -> {<<<<>>>>, <<<<<<0, <<1, 2>>>>, <<1, <<2, 0>>>>>>>>}
    [] f = "getblocks" -> {<<<<>>>>, <<<<<<1, 2>>, <<0, 1>>>>>>}
    [] f = "peers" -> {<<<<>>>>, <<<<<<1, <<2>>>>, <<2, <<>>>>>>>>}
    [] f = "tx" -> {TxA, TxB}
    [] f = "block" -> {<<1, <<0, 1>>, <<2, 1>>, 3, 1, 2, <<>>>>,
                       <<1, <<0, 1>>, <<2, 1>>, 3, 1, 2, <<TxA, TxB>>>>}]
=============================================================================
