------------------------------ MODULE TxGossip ------------------------------
(***************************************************************************)
(* Transactions between nodes: INV, GETDATA and TX over the FIFO links of  *)
(* connected peers (src/network/Node.cpp), into pools of bounded size      *)
(* (src/core/Mempool.cpp), while blocks with some of the transactions are  *)
(* applied.  A message is <<type, transaction>>, an INV or GETDATA having  *)
(* one item as broadcast_inv sends it.  How blocks travel is the matter of *)
(* CatchUp; here a node applies the block at any time.                     *)
(***************************************************************************)
EXTENDS Integers, Sequences, FiniteSets

CONSTANTS
  Node, Networks,   \* the nodes; which sets of ordered pairs may be connected
  Tx, fee,          \* correctly signed transactions and their fees
  max_size,         \* capacity of a pool
  BlockTx,          \* the transactions of the block
  Submitter         \* where each transaction is submitted

ASSUME GossipAssumption ==
  /\ \A net \in Networks : \A p \in net :
       p \in Node \X Node /\ p[1] # p[2] /\ <<p[2], p[1]>> \in net
  /\ fee \in [Tx -> Nat] /\ \A t, u \in Tx : t # u => fee[t] # fee[u]
  /\ BlockTx \subseteq Tx /\ max_size \in Nat \ {0}
  /\ Submitter \in [Tx -> Node]

VARIABLES
  pool,       \* pending_ of each node
  link,       \* messages under way, by <<sender, receiver>>
  connected,  \* the pairs of peers; connections do not change
  submitted,  \* the transactions users have handed in
  applied     \* the nodes whose chain has the block

vars == <<pool, link, connected, submitted, applied>>

Init ==
  /\ pool = [n \in Node |-> {}]
  /\ connected \in Networks
  /\ link = [p \in connected |-> <<>>]
  /\ submitted = {} /\ applied = {}

-----------------------------------------------------------------------------
Cheapest(s) == CHOOSE t \in s : \A u \in s : fee[t] <= fee[u]

CanAlwaysAdd(s, t) == t \notin s   \* faulty: a full pool takes any fee

(* add_transaction: no duplicate, and a full pool takes only a better fee. *)
CanAdd(s, t) ==
  /\ t \notin s
  /\ Cardinality(s) < max_size \/ fee[t] > fee[Cheapest(s)]

Added(s, t) ==
  (IF Cardinality(s) < max_size THEN s ELSE s \ {Cheapest(s)}) \union {t}

(* Links after n has sent the message m to every peer in `to'.             *)
Sent(links, n, to, m) ==
  [p \in connected |->
    IF p[1] = n /\ p[2] \in to THEN Append(links[p], m) ELSE links[p]]

Peers(n) == {m \in Node : <<n, m>> \in connected}

ToNobodyElse(n, exclude) ==   \* faulty: a received transaction is not relayed
  IF exclude = n THEN Peers(n) ELSE {}

(* broadcast_inv goes to every live peer except the one it came from.      *)
Targets(n, exclude) == Peers(n) \ {exclude}

(* submit_transaction, and the announcement if the pool took it.           *)
Offer(n, exclude, t, links) ==
  IF CanAdd(pool[n], t)
  THEN /\ pool' = [pool EXCEPT ![n] = Added(@, t)]
       /\ link' = Sent(links, n, Targets(n, exclude), <<"INV", t>>)
  ELSE link' = links /\ UNCHANGED pool

SubmitTransaction(t) ==
  /\ t \notin submitted /\ submitted' = submitted \union {t}
  /\ Offer(Submitter[t], Submitter[t], t, link)
  /\ UNCHANGED <<connected, applied>>

ApplyBlock(n) ==
  /\ BlockTx # {} /\ BlockTx \subseteq submitted /\ n \notin applied
  /\ applied' = applied \union {n}
  /\ pool' = [pool EXCEPT ![n] = @ \ BlockTx]
  /\ UNCHANGED <<link, connected, submitted>>

-----------------------------------------------------------------------------
(* peer_loop of n takes the next message of m.                             *)

handle_inv(n, m, t, links) ==
  /\ link' = IF t \in pool[n] THEN links ELSE Sent(links, n, {m}, <<"GETDATA", t>>)
  /\ UNCHANGED pool

handle_getdata(n, m, t, links) ==
  /\ link' = IF t \in pool[n] THEN Sent(links, n, {m}, <<"TX", t>>) ELSE links
  /\ UNCHANGED pool

handle_tx(n, m, t, links) == Offer(n, m, t, links)

Receive(m, n) ==
  /\ <<m, n>> \in connected /\ link[<<m, n>>] # <<>>
  /\ LET h == Head(link[<<m, n>>])
         links == [link EXCEPT ![<<m, n>>] = Tail(@)]
     IN  \/ h[1] = "INV" /\ handle_inv(n, m, h[2], links)
         \/ h[1] = "GETDATA" /\ handle_getdata(n, m, h[2], links)
         \/ h[1] = "TX" /\ handle_tx(n, m, h[2], links)
  /\ UNCHANGED <<connected, submitted, applied>>

Next ==
  \/ \E t \in Tx : SubmitTransaction(t)
  \/ \E n \in Node : ApplyBlock(n)
  \/ \E m, n \in Node : Receive(m, n)

(* Each peer thread keeps reading.                                         *)
Spec == Init /\ [][Next]_vars /\ \A m, n \in Node : WF_vars(Receive(m, n))

-----------------------------------------------------------------------------
(* Properties                                                              *)

Quiet == \A p \in connected : link[p] = <<>>

(* Relaying "is what makes propagation reach the whole network, not just   *)
(* the direct neighbor" (protocol 5): on a connected network, once nothing *)
(* is under way, every pool has the best submitted transactions that fit,  *)
(* whichever way and in whichever order they came.                         *)
PoolsAgree ==
  Quiet /\ applied = {} =>
    \A n \in Node, t \in submitted :
      t \in pool[n] <=> Cardinality({u \in submitted : fee[u] > fee[t]}) < max_size

(* Announcing ends: nothing a finite number of submissions and a block set *)
(* off goes round for ever, on a cycle of nodes and with full pools too.   *)
GossipEnds == <>[]Quiet
=============================================================================
