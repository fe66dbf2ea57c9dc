---------------------------- MODULE HeaviestChain ----------------------------
(***************************************************************************)
(* What a node promises about its chain, whatever reaches it, in whatever  *)
(* order, through whichever thread, and however often it is killed: it     *)
(* starts from genesis and only ever moves to a valid chain with more work.*)
(* A chain is named by its last block.                                     *)
(***************************************************************************)
EXTENDS Integers

CONSTANTS
  Genesis,
  ValidTip,    \* the blocks whose whole chain obeys the rules
  Work         \* the total work of the chain that ends with each block

VARIABLE tip

Init == tip = Genesis

MoveTo(b) == Work[b] > Work[tip] /\ tip' = b

Next == \E b \in ValidTip : MoveTo(b)

Spec == Init /\ [][Next]_tip
=============================================================================
