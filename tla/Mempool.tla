------------------------------- MODULE Mempool -------------------------------
(***************************************************************************)
(* The pool of pending transactions of src/core/Mempool.cpp.  The multiset *)
(* pending_, ordered by descending fee, is the sequence of its elements in *)
(* that order; an insertion goes after the elements with an equal fee.     *)
(***************************************************************************)
EXTENDS Integers, Sequences, FiniteSets, Ledger

CONSTANT max_size   \* capacity of the pool

ASSUME MempoolAssumption == max_size \in Nat \ {0}

has_transaction(pending, tx) ==
  \E i \in DOMAIN pending : compute_hash(pending[i]) = compute_hash(tx)

(* The pool that tx joins: the cheapest transaction makes room, last first.*)
AfterEviction(pending) ==
  IF Len(pending) < max_size THEN pending ELSE SubSeq(pending, 1, Len(pending) - 1)

CanAddTwice(pending, tx) ==   \* faulty: a pending transaction is added again
  /\ has_valid_signature(tx)
  /\ Len(pending) >= max_size => tx.fee > pending[Len(pending)].fee

(* add_transaction refuses an unsigned or pending transaction, and one     *)
(* that does not outbid the cheapest of a full pool.                       *)
CanAdd(pending, tx) ==
  /\ has_valid_signature(tx)
  /\ ~has_transaction(pending, tx)
  /\ Len(pending) >= max_size => tx.fee > pending[Len(pending)].fee

InsertByFee(pending, tx) ==
  LET k == CHOOSE k \in 0..Len(pending) :
             \A i \in DOMAIN pending : i <= k <=> pending[i].fee >= tx.fee
  IN  SubSeq(pending, 1, k) \o <<tx>> \o SubSeq(pending, k + 1, Len(pending))

add_transaction(pending, tx) ==
  IF CanAdd(pending, tx) THEN InsertByFee(AfterEviction(pending), tx) ELSE pending

remove_transaction(pending, tx) ==
  IF has_transaction(pending, tx)
  THEN LET i == CHOOSE i \in DOMAIN pending :
                  /\ compute_hash(pending[i]) = compute_hash(tx)
                  /\ \A j \in 1..(i - 1) : compute_hash(pending[j]) # compute_hash(tx)
       IN  SubSeq(pending, 1, i - 1) \o SubSeq(pending, i + 1, Len(pending))
  ELSE pending

(***************************************************************************)
(* RemoveRun removes a sequence of transactions, entry i being the pool    *)
(* after the first i.  ReturnRun adds one newest first, passing over       *)
(* coinbases and hashes in `skip', entry i being the pool when all but the *)
(* first i have been offered.                                              *)
(***************************************************************************)
RemoveRun(pending, txs) ==
  LET run[i \in 0..Len(txs)] ==
        IF i = 0 THEN pending ELSE remove_transaction(run[i - 1], txs[i])
  IN  run

ReturnNothing(pending, txs, skip) ==   \* faulty: the old branch is forgotten
  [i \in 0..Len(txs) |-> pending]

ReturnRun(pending, txs, skip) ==
  LET run[i \in 0..Len(txs)] ==
        IF i = Len(txs) THEN pending
        ELSE IF is_coinbase(txs[i + 1]) \/ compute_hash(txs[i + 1]) \in skip
        THEN run[i + 1]
        ELSE add_transaction(run[i + 1], txs[i + 1])
  IN  run

get_transactions_for_block(pending, limit) ==
  SubSeq(pending, 1, IF limit < Len(pending) THEN limit ELSE Len(pending))

(* What a pool must look like: each transaction once, all signed, best fee *)
(* first, up to the capacity.                                              *)
InOrder(pending) ==
  /\ Len(pending) <= max_size
  /\ \A i \in DOMAIN pending : has_valid_signature(pending[i])
  /\ \A i, j \in DOMAIN pending :
       i < j => /\ pending[i].fee >= pending[j].fee
                /\ compute_hash(pending[i]) # compute_hash(pending[j])
=============================================================================
