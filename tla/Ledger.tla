------------------------------- MODULE Ledger -------------------------------
(***************************************************************************)
(* The account ledger of src/core/Ledger.cpp and the two ways ChainManager *)
(* drives it: block by block, all or nothing (apply_block_to_ledger), and  *)
(* transaction by transaction with the results ignored (try_reorg).        *)
(*                                                                         *)
(* balances_ and nonces_ are hash maps.  balances_ is a total function     *)
(* plus the set `known' of the keys it holds, because apply_transaction    *)
(* refuses a sender that has no key at all; a missing key of nonces_ reads *)
(* as 0 everywhere, so nonces_ is just a total function.                   *)
(***************************************************************************)
EXTENDS Integers, Sequences, FiniteSetsExt

CONSTANTS
  Address,          \* account addresses
  kCoinbaseSender,  \* the reserved sender of block rewards
  U64               \* number of values of a uint64_t (2^64 in the program)

ASSUME LedgerAssumption ==
  /\ kCoinbaseSender \notin Address
  /\ U64 \in Nat \ {0, 1}

Word == 0..(U64 - 1)

(* Unsigned 64-bit addition and subtraction wrap around.                   *)
Add64(a, b) == IF a + b < U64 THEN a + b ELSE a + b - U64
Sub64(a, b) == IF b <= a THEN a - b ELSE a - b + U64

(* A transaction; `signed' says whether its key hashes to its sender and   *)
(* its signature verifies.                                                 *)
Transaction ==
  [sender : Address \cup {kCoinbaseSender}, recipient : Address,
   amount : Word, fee : Word, nonce : Word, signed : BOOLEAN]

LedgerState ==
  [known : SUBSET Address, balance : [Address -> Word], nonce : [Address -> Word]]

EmptyLedger ==
  [known |-> {}, balance |-> [a \in Address |-> 0], nonce |-> [a \in Address |-> 0]]

is_coinbase(tx) == tx.sender = kCoinbaseSender

(* The hash covers the signed bytes only, so two copies of a transaction   *)
(* that differ in their signature have the same hash.                      *)
compute_hash(tx) == [tx EXCEPT !.signed = TRUE]

has_valid_signature(tx) == ~is_coinbase(tx) /\ tx.signed

(***************************************************************************)
(* Ledger::apply_transaction.  The guard computes amount + fee in 64 bits. *)
(***************************************************************************)
CanApply(l, tx) ==
  \/ is_coinbase(tx)
  \/ /\ tx.sender \in l.known
     /\ Add64(tx.amount, tx.fee) <= l.balance[tx.sender]
     /\ tx.nonce = l.nonce[tx.sender]

Debit(l, tx) ==
  IF is_coinbase(tx) THEN l
  ELSE [l EXCEPT !.balance[tx.sender] = @ - Add64(tx.amount, tx.fee),
                 !.nonce[tx.sender] = Add64(tx.nonce, 1)]

apply_transaction(l, tx) ==
  IF CanApply(l, tx)
  THEN [Debit(l, tx) EXCEPT !.known = @ \cup {tx.recipient},
                            !.balance[tx.recipient] = Add64(@, tx.amount)]
  ELSE l

(***************************************************************************)
(* Ledger::reverse_transaction.                                            *)
(***************************************************************************)
CanReverse(l, tx) ==
  /\ tx.recipient \in l.known
  /\ tx.amount <= l.balance[tx.recipient]
  /\ is_coinbase(tx) \/ l.nonce[tx.sender] = Add64(tx.nonce, 1)

RefundKeepsNonce(l, tx) ==   \* faulty: the sender's nonce is not put back
  IF is_coinbase(tx) THEN l
  ELSE [l EXCEPT !.known = @ \cup {tx.sender},
                 !.balance[tx.sender] = Add64(@, Add64(tx.amount, tx.fee))]

Refund(l, tx) ==
  IF is_coinbase(tx) THEN l
  ELSE [l EXCEPT !.known = @ \cup {tx.sender},
                 !.balance[tx.sender] = Add64(@, Add64(tx.amount, tx.fee)),
                 !.nonce[tx.sender] = tx.nonce]

ReverseKeepsCredit(l, tx) ==   \* faulty: the recipient keeps the money
  IF CanReverse(l, tx) THEN Refund(l, tx) ELSE l

reverse_transaction(l, tx) ==
  IF CanReverse(l, tx)
  THEN [Refund(l, tx) EXCEPT !.balance[tx.recipient] = Sub64(@, tx.amount)]
  ELSE l

(***************************************************************************)
(* Applying a run of transactions in order, or undoing it newest first,    *)
(* whatever each call returns and passing over the ones whose hash is in   *)
(* `skip'.  ApplyRun(...)[i] is the ledger after the first i transactions, *)
(* UndoRun(...)[i] the ledger when all but the first i have been undone.   *)
(***************************************************************************)
ApplyRun(l, txs, skip) ==
  LET run[i \in 0..Len(txs)] ==
        IF i = 0 THEN l
        ELSE IF compute_hash(txs[i]) \in skip THEN run[i - 1]
        ELSE apply_transaction(run[i - 1], txs[i])
  IN  run

UndoRun(l, txs, skip) ==
  LET run[i \in 0..Len(txs)] ==
        IF i = Len(txs) THEN l
        ELSE IF compute_hash(txs[i + 1]) \in skip THEN run[i + 1]
        ELSE reverse_transaction(run[i + 1], txs[i + 1])
  IN  run

(***************************************************************************)
(* ChainManager::apply_block_to_ledger: stop at the first transaction that *)
(* is unsigned or does not apply, and undo the ones before it.             *)
(***************************************************************************)
Refused(l, txs) ==
  {i \in 1..Len(txs) :
     ~ /\ is_coinbase(txs[i]) \/ has_valid_signature(txs[i])
       /\ CanApply(ApplyRun(l, txs, {})[i - 1], txs[i])}

ApplyWithoutRollback(l, txs) ==   \* faulty: what was applied stays applied
  IF Refused(l, txs) = {}
  THEN [ok |-> TRUE, ledger |-> ApplyRun(l, txs, {})[Len(txs)]]
  ELSE [ok |-> FALSE, ledger |-> ApplyRun(l, txs, {})[Min(Refused(l, txs)) - 1]]

apply_block_to_ledger(l, txs) ==
  IF Refused(l, txs) = {}
  THEN [ok |-> TRUE, ledger |-> ApplyRun(l, txs, {})[Len(txs)]]
  ELSE LET good == Min(Refused(l, txs)) - 1
       IN  [ok |-> FALSE,
            ledger |-> UndoRun(ApplyRun(l, txs, {})[good], SubSeq(txs, 1, good), {})[0]]

(* Two ledgers agree when they give every address the same balance and     *)
(* nonce; they may still differ in which zero balances they hold a key for.*)
SameFunds(l, m) == l.balance = m.balance /\ l.nonce = m.nonce
=============================================================================
