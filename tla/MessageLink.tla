---------------------------- MODULE MessageLink ----------------------------
(***************************************************************************)
(* What a connection promises.  In each direction messages are delivered   *)
(* whole, once and in the order in which they were sent.  When the         *)
(* connection breaks, the ones still in a queue are never delivered.       *)
(***************************************************************************)
EXTENDS Sequences

CONSTANTS Node, Message

VARIABLES
  queue,       \* messages of each node that are under way
  delivered    \* messages of each node the other one has handled, in order

Init ==
  /\ queue = [n \in Node |-> <<>>]
  /\ delivered = [n \in Node |-> <<>>]

Put(n, m) ==
  /\ queue' = [queue EXCEPT ![n] = Append(@, m)]
  /\ UNCHANGED delivered

Deliver(n) ==
  /\ queue[n] # <<>>
  /\ delivered' = [delivered EXCEPT ![n] = Append(@, Head(queue[n]))]
  /\ queue' = [queue EXCEPT ![n] = Tail(@)]

Next == \E n \in Node : Deliver(n) \/ \E m \in Message : Put(n, m)

Spec == Init /\ [][Next]_<<queue, delivered>>
=============================================================================
