---------------------------- MODULE LedgerProofs ----------------------------
(***************************************************************************)
(* What the ledger operations preserve, for every ledger and every         *)
(* transaction.                                                            *)
(***************************************************************************)
EXTENDS Ledger, Iteration, TLAPS

(* 64-bit addition and subtraction stay in range.                          *)
LEMMA WordArithmetic ==
  ASSUME NEW a \in Word, NEW b \in Word
  PROVE  Add64(a, b) \in Word /\ Sub64(a, b) \in Word /\ 1 \in Word /\ 0 \in Word
BY LedgerAssumption DEF Word, Add64, Sub64

(* apply_transaction and reverse_transaction keep a ledger a ledger.       *)
LEMMA ApplyType ==
  ASSUME NEW l \in LedgerState, NEW tx \in Transaction
  PROVE  apply_transaction(l, tx) \in LedgerState
<1>1. tx.recipient \in Address /\ tx.amount \in Word /\ tx.fee \in Word /\ tx.nonce \in Word
  BY DEF Transaction
<1>2. ~is_coinbase(tx) => tx.sender \in Address
  BY DEF Transaction, is_coinbase
<1>3. \A w \in Word : Add64(w, tx.amount) \in Word
  BY <1>1, WordArithmetic
<1>4. Add64(tx.amount, tx.fee) \in Word /\ Add64(tx.nonce, 1) \in Word
  BY <1>1, WordArithmetic
<1>5. CASE ~CanApply(l, tx)
  BY <1>5 DEF apply_transaction
<1>6. CASE CanApply(l, tx)
  <2> DEFINE d == Debit(l, tx)
  <2>1. d \in LedgerState
    <3>1. CASE is_coinbase(tx)
      BY <3>1 DEF Debit
    <3>2. CASE ~is_coinbase(tx)
      <4>1. l.balance[tx.sender] - Add64(tx.amount, tx.fee) \in Word
        BY <1>2, <1>4, <1>6, <3>2, LedgerAssumption DEF CanApply, LedgerState, Word
      <4> QED
        BY <1>2, <1>4, <3>2, <4>1 DEF Debit, LedgerState
    <3> QED BY <3>1, <3>2
  <2> HIDE DEF d
  <2>2. [d EXCEPT !.known = @ \cup {tx.recipient},
                  !.balance[tx.recipient] = Add64(@, tx.amount)] \in LedgerState
    BY <1>1, <1>3, <2>1 DEF LedgerState
  <2> QED BY <1>6, <2>2 DEF apply_transaction, d
<1> QED BY <1>5, <1>6

(* reverse_transaction keeps the ledger well typed.                        *)
LEMMA ReverseType ==
  ASSUME NEW l \in LedgerState, NEW tx \in Transaction
  PROVE  reverse_transaction(l, tx) \in LedgerState
<1>1. tx.recipient \in Address /\ tx.amount \in Word /\ tx.fee \in Word /\ tx.nonce \in Word
  BY DEF Transaction
<1>2. ~is_coinbase(tx) => tx.sender \in Address
  BY DEF Transaction, is_coinbase
<1>3. \A w \in Word : Sub64(w, tx.amount) \in Word
  BY <1>1, WordArithmetic
<1>4. \A w \in Word : Add64(w, Add64(tx.amount, tx.fee)) \in Word
  BY <1>1, WordArithmetic
<1> DEFINE r == Refund(l, tx)
<1>5. r \in LedgerState
  BY <1>1, <1>2, <1>4 DEF Refund, LedgerState
<1> HIDE DEF r
<1>6. [r EXCEPT !.balance[tx.recipient] = Sub64(@, tx.amount)] \in LedgerState
  BY <1>1, <1>3, <1>5 DEF LedgerState
<1> QED
  BY <1>6 DEF reverse_transaction, r

(* The recursion of ApplyRun is well founded: its entries are the ledgers  *)
(* of the loop it describes.                                               *)
LEMMA ApplyRunDef ==
  ASSUME NEW l \in LedgerState, NEW txs \in Seq(Transaction), NEW skip
  PROVE  /\ ApplyRun(l, txs, skip) \in [0..Len(txs) -> LedgerState]
         /\ ApplyRun(l, txs, skip)[0] = l
         /\ \A i \in 1..Len(txs) :
              ApplyRun(l, txs, skip)[i] =
                IF compute_hash(txs[i]) \in skip THEN ApplyRun(l, txs, skip)[i - 1]
                ELSE apply_transaction(ApplyRun(l, txs, skip)[i - 1], txs[i])
<1> DEFINE n == Len(txs)
           Step(i, x) == IF compute_hash(txs[i]) \in skip THEN x
                         ELSE apply_transaction(x, txs[i])
           step == [y \in (1..n) \X LedgerState |-> Step(y[1], y[2])]
           Def(f) == f = [i \in 0..n |-> IF i = 0 THEN l ELSE Step(i, f[i - 1])]
           run == ApplyRun(l, txs, skip)
<1>1. n \in Nat /\ \A i \in 1..n : txs[i] \in Transaction
  OBVIOUS
<1>2. \A i \in 1..n, x \in LedgerState : Step(i, x) \in LedgerState
  BY <1>1, ApplyType
<1>3. step \in [(1..n) \X LedgerState -> LedgerState]
  <2> HIDE DEF Step
  <2> QED BY <1>2
<1>4. \A i \in 1..n, x \in LedgerState : step[<<i, x>>] = Step(i, x)
  <2> HIDE DEF Step
  <2> QED OBVIOUS
<1>5. PICK g : IsRun(g, LedgerState, n, l, step)
  <2> HIDE DEF step, n
  <2> QED BY <1>1, <1>3, RunExists
<1>6. Def(g)
  <2> HIDE DEF Step, step, n
  <2>1. g = [i \in 0..n |-> g[i]] /\ g[0] = l
    BY <1>1, <1>5 DEF IsRun
  <2>2. ASSUME NEW i \in 0..n, i # 0 PROVE g[i] = Step(i, g[i - 1])
    <3>1. i \in 1..n /\ i - 1 \in 0..n
      BY <1>1, <2>2
    <3>2. g[i - 1] \in LedgerState /\ g[i] = step[<<i, g[i - 1]>>]
      BY <1>5, <3>1 DEF IsRun
    <3> QED BY <1>4, <3>1, <3>2
  <2> QED BY <2>1, <2>2
<1>7. run = CHOOSE f : Def(f)
  BY DEF ApplyRun
<1>8. Def(run)
  <2> HIDE DEF Def, run
  <2> QED BY <1>6, <1>7
<1> HIDE DEF run
<1>9. /\ run = [i \in 0..n |-> run[i]] /\ run[0] = l
      /\ \A i \in 1..n : run[i] = Step(i, run[i - 1])
  <2> HIDE DEF Step
  <2> QED BY <1>1, <1>8
<1>10. IsRun(run, LedgerState, n, l, step)
  <2> HIDE DEF Step, step, n
  <2> QED BY <1>1, <1>3, <1>4, <1>9, RunTyped
<1> QED
  BY <1>9, <1>10 DEF run, IsRun

(* The same for UndoRun.                                                   *)
LEMMA UndoRunDef ==
  ASSUME NEW l \in LedgerState, NEW txs \in Seq(Transaction), NEW skip
  PROVE  /\ UndoRun(l, txs, skip) \in [0..Len(txs) -> LedgerState]
         /\ UndoRun(l, txs, skip)[Len(txs)] = l
         /\ \A i \in 0..(Len(txs) - 1) :
              UndoRun(l, txs, skip)[i] =
                IF compute_hash(txs[i + 1]) \in skip THEN UndoRun(l, txs, skip)[i + 1]
                ELSE reverse_transaction(UndoRun(l, txs, skip)[i + 1], txs[i + 1])
<1> DEFINE n == Len(txs)
           Step(i, x) == IF compute_hash(txs[i]) \in skip THEN x
                         ELSE reverse_transaction(x, txs[i])
           step == [y \in (1..n) \X LedgerState |-> Step(y[1], y[2])]
           Def(f) == f = [i \in 0..n |-> IF i = n THEN l ELSE Step(i + 1, f[i + 1])]
           run == UndoRun(l, txs, skip)
<1>1. n \in Nat /\ \A i \in 1..n : txs[i] \in Transaction
  OBVIOUS
<1>2. \A i \in 1..n, x \in LedgerState : Step(i, x) \in LedgerState
  BY <1>1, ReverseType
<1>3. step \in [(1..n) \X LedgerState -> LedgerState]
  <2> HIDE DEF Step
  <2> QED BY <1>2
<1>4. \A i \in 1..n, x \in LedgerState : step[<<i, x>>] = Step(i, x)
  <2> HIDE DEF Step
  <2> QED OBVIOUS
<1>5. PICK g : IsDownRun(g, LedgerState, n, l, step)
  <2> HIDE DEF step, n
  <2> QED BY <1>1, <1>3, DownRunExists
<1>6. Def(g)
  <2> HIDE DEF Step, step, n
  <2>1. g = [i \in 0..n |-> g[i]] /\ g[n] = l
    BY <1>1, <1>5 DEF IsDownRun
  <2>2. ASSUME NEW i \in 0..n, i # n PROVE g[i] = Step(i + 1, g[i + 1])
    <3>1. i \in 0..(n - 1) /\ i + 1 \in 0..n /\ i + 1 \in 1..n
      BY <1>1, <2>2
    <3>2. g[i + 1] \in LedgerState /\ g[i] = step[<<i + 1, g[i + 1]>>]
      BY <1>5, <3>1 DEF IsDownRun
    <3> QED BY <1>4, <3>1, <3>2
  <2> QED BY <2>1, <2>2
<1>7. run = CHOOSE f : Def(f)
  BY DEF UndoRun
<1>8. Def(run)
  <2> HIDE DEF Def, run
  <2> QED BY <1>6, <1>7
<1> HIDE DEF run
<1>9. /\ run = [i \in 0..n |-> run[i]] /\ run[n] = l
      /\ \A i \in 0..(n - 1) : run[i] = Step(i + 1, run[i + 1])
  <2> HIDE DEF Step
  <2> QED BY <1>1, <1>8
<1>10. IsDownRun(run, LedgerState, n, l, step)
  <2> HIDE DEF Step, step, n
  <2>1. \A i \in 0..(n - 1) : i + 1 \in 1..n
    BY <1>1
  <2> QED BY <1>1, <1>3, <1>4, <1>9, <2>1, DownRunTyped
<1> QED
  BY <1>9, <1>10 DEF run, IsDownRun

(* The least element of a non-empty set of naturals is what Min picks.     *)
LEMMA MinIsLeast ==
  ASSUME NEW S, S \subseteq Nat, S # {}
  PROVE  Min(S) \in S /\ \A y \in S : Min(S) <= y
<1>1. \E x \in S : \A y \in S : x <= y
  BY NatMin
<1> QED
  BY <1>1 DEF Min

(* The beginning of a sequence that apply_block_to_ledger got through.     *)
LEMMA PrefixIsSeq ==
  ASSUME NEW T, NEW s \in Seq(T), NEW k \in 0..Len(s)
  PROVE  /\ SubSeq(s, 1, k) \in Seq(T)
         /\ Len(SubSeq(s, 1, k)) = k
         /\ \A i \in 1..k : SubSeq(s, 1, k)[i] = s[i]
OBVIOUS

(* apply_block_to_ledger returns a ledger, whether it succeeds or rolls    *)
(* back.                                                                   *)
LEMMA ApplyBlockType ==
  ASSUME NEW l \in LedgerState, NEW txs \in Seq(Transaction)
  PROVE  /\ apply_block_to_ledger(l, txs).ledger \in LedgerState
         /\ apply_block_to_ledger(l, txs).ok \in BOOLEAN
<1> DEFINE R == Refused(l, txs)
           run == ApplyRun(l, txs, {})
<1>1. run \in [0..Len(txs) -> LedgerState]
  BY ApplyRunDef
<1>2. R \subseteq 1..Len(txs)
  BY DEF Refused
<1> HIDE DEF R, run
<1>3. CASE R = {}
  BY <1>1, <1>3 DEF apply_block_to_ledger, R, run
<1>4. CASE R # {}
  <2> DEFINE good == Min(R) - 1
             pre == SubSeq(txs, 1, good)
  <2>1. good \in 0..Len(txs)
    <3>1. R \subseteq Nat
      BY <1>2
    <3>2. Min(R) \in 1..Len(txs)
      BY <1>2, <1>4, <3>1, MinIsLeast
    <3> QED BY <3>2
  <2> HIDE DEF good
  <2>2. run[good] \in LedgerState /\ pre \in Seq(Transaction)
    BY <1>1, <2>1, PrefixIsSeq
  <2> HIDE DEF pre
  <2>3. UndoRun(run[good], pre, {}) \in [0..Len(pre) -> LedgerState]
    BY <2>2, UndoRunDef
  <2>4. Len(pre) \in Nat
    BY <2>2
  <2>5. UndoRun(run[good], pre, {})[0] \in LedgerState
    BY <2>3, <2>4
  <2> QED BY <1>4, <2>5 DEF apply_block_to_ledger, R, run, good, pre
<1> QED BY <1>3, <1>4

(***************************************************************************)
(* m stands for l when it holds the same funds and at least l's keys.      *)
(***************************************************************************)
Covers(m, l) == SameFunds(m, l) /\ l.known \subseteq m.known

(* Crediting the recipient does not wrap around.                           *)
Fits(l, tx) == Debit(l, tx).balance[tx.recipient] + tx.amount < U64

(* reverse_transaction undoes apply_transaction, also on a ledger that     *)
(* only covers the one apply_transaction left.                             *)
LEMMA ReverseUndoesApply ==
  ASSUME NEW l \in LedgerState, NEW m \in LedgerState, NEW tx \in Transaction,
         CanApply(l, tx), Fits(l, tx), Covers(m, apply_transaction(l, tx))
  PROVE  Covers(reverse_transaction(m, tx), l)
<1> DEFINE a == tx.amount
           total == Add64(tx.amount, tx.fee)
           next == Add64(tx.nonce, 1)
           r == tx.recipient
           s == tx.sender
           u == reverse_transaction(m, tx)
<1>1. r \in Address /\ a \in Word /\ total \in Word /\ tx.nonce \in Word
  BY WordArithmetic DEF Transaction
<1>2. ~is_coinbase(tx) => s \in Address
  BY DEF Transaction, is_coinbase
<1>3. /\ l.balance \in [Address -> Word] /\ l.nonce \in [Address -> Word]
      /\ m.balance \in [Address -> Word] /\ m.nonce \in [Address -> Word]
  BY DEF LedgerState
<1>4. CASE is_coinbase(tx)
  <2>1. l.balance[r] + a < U64
    BY <1>4 DEF Fits, Debit
  <2>2. /\ m.balance = [l.balance EXCEPT ![r] = @ + a]
        /\ m.nonce = l.nonce /\ l.known \cup {r} \subseteq m.known
    BY <1>1, <1>3, <1>4, <2>1
       DEF Covers, SameFunds, apply_transaction, CanApply, Debit, Add64, LedgerState
  <2>3. a <= m.balance[r] /\ CanReverse(m, tx)
    BY <1>1, <1>3, <1>4, <2>2, LedgerAssumption DEF CanReverse, Word
  <2>4. /\ u.balance = [m.balance EXCEPT ![r] = @ - a]
        /\ u.nonce = m.nonce /\ u.known = m.known
    BY <1>1, <1>3, <1>4, <2>3 DEF reverse_transaction, Refund, Sub64, LedgerState
  <2>5. u.balance = l.balance
    BY <1>1, <1>3, <2>2, <2>4, LedgerAssumption DEF Word
  <2> QED BY <2>2, <2>4, <2>5 DEF Covers, SameFunds
<1>5. CASE ~is_coinbase(tx)
  <2> DEFINE debited == [l.balance EXCEPT ![s] = @ - total]
  <2>1. s \in Address /\ s \in l.known /\ total <= l.balance[s] /\ l.nonce[s] = tx.nonce
    BY <1>2, <1>5 DEF CanApply
  <2>2. debited \in [Address -> Word]
    BY <1>1, <1>3, <2>1, LedgerAssumption DEF Word
  <2>3. Debit(l, tx) = [l EXCEPT !.balance = debited, !.nonce = [@ EXCEPT ![s] = next]]
    BY <1>5, <2>1 DEF Debit, LedgerState
  <2> HIDE DEF debited
  <2>4. debited[r] + a < U64
    BY <2>3 DEF Fits, LedgerState
  <2>5. /\ m.balance = [debited EXCEPT ![r] = @ + a]
        /\ m.nonce = [l.nonce EXCEPT ![s] = next] /\ l.known \cup {r} \subseteq m.known
    <3>1. Add64(debited[r], a) = debited[r] + a
      BY <2>4 DEF Add64
    <3> QED BY <1>1, <2>2, <2>3, <3>1
            DEF Covers, SameFunds, apply_transaction, LedgerState
  <2>6. a <= m.balance[r] /\ CanReverse(m, tx)
    <3>1. m.nonce[s] = next
      BY <1>3, <2>1, <2>5
    <3>2. a <= m.balance[r]
      BY <1>1, <2>2, <2>5, LedgerAssumption DEF Word
    <3> QED BY <2>5, <3>1, <3>2 DEF CanReverse
  <2> DEFINE refunded == [m.balance EXCEPT ![s] = Add64(@, total)]
  <2>7. /\ u.balance = [refunded EXCEPT ![r] = Sub64(@, a)]
        /\ u.nonce = [m.nonce EXCEPT ![s] = tx.nonce] /\ m.known \subseteq u.known
    BY <1>5, <2>6 DEF reverse_transaction, Refund, LedgerState
  <2>8. u.nonce = l.nonce
    BY <1>1, <1>3, <2>1, <2>5, <2>7
  <2>9. u.balance = l.balance
    <3>1. ASSUME NEW x \in Address PROVE u.balance[x] = l.balance[x]
      <4> HIDE DEF total, a, u, s, r
      <4>1. U64 \in Nat /\ a \in 0..(U64 - 1) /\ total \in 0..(U64 - 1)
        BY <1>1, LedgerAssumption DEF Word
      <4>2. /\ l.balance[x] \in 0..(U64 - 1) /\ l.balance[s] \in 0..(U64 - 1)
            /\ total <= l.balance[s]
        BY <1>3, <2>1 DEF Word
      <4>3. debited[x] = IF x = s THEN l.balance[s] - total ELSE l.balance[x]
        BY <1>3 DEF debited
      <4>4. m.balance[x] = IF x = r THEN debited[x] + a ELSE debited[x]
        BY <1>3, <2>2, <2>5
      <4>5. refunded[x] = IF x = s THEN Add64(m.balance[x], total) ELSE m.balance[x]
        BY <1>3
      <4>6. u.balance[x] = IF x = r THEN Sub64(refunded[x], a) ELSE refunded[x]
        BY <1>3, <2>7
      <4>7. x = r => debited[x] + a < U64
        BY <2>4
      <4> HIDE DEF refunded
      <4> QED BY <4>1, <4>2, <4>3, <4>4, <4>5, <4>6, <4>7 DEF Add64, Sub64
    <3>2. DOMAIN u.balance = Address
      BY <1>3, <2>7
    <3> QED BY <1>3, <2>7, <3>1, <3>2
  <2> QED BY <2>5, <2>7, <2>8, <2>9 DEF Covers, SameFunds
<1> QED BY <1>4, <1>5

(* Crediting fits for each transaction of a block, as it is reached.       *)
AllFit(l, txs) ==
  \A i \in 1..Len(txs) : Fits(ApplyRun(l, txs, {})[i - 1], txs[i])

(* A block that apply_block_to_ledger refuses, whichever of its            *)
(* transactions is at fault, leaves every balance and every nonce as it    *)
(* found them: undoing the applied ones newest first goes back exactly     *)
(* over the ledgers they produced.  The hypothesis is that no credit       *)
(* overflows a uint64_t, which the code does not test.                     *)
THEOREM RefusedBlockRestoresFunds ==
  ASSUME NEW l \in LedgerState, NEW txs \in Seq(Transaction), AllFit(l, txs),
         ~apply_block_to_ledger(l, txs).ok
  PROVE  SameFunds(apply_block_to_ledger(l, txs).ledger, l)
<1> DEFINE R == Refused(l, txs)
           run == ApplyRun(l, txs, {})
           good == Min(R) - 1
           pre == SubSeq(txs, 1, good)
           undo == UndoRun(run[good], pre, {})
<1>1. /\ run \in [0..Len(txs) -> LedgerState] /\ run[0] = l
      /\ \A i \in 1..Len(txs) : run[i] = apply_transaction(run[i - 1], txs[i])
  BY ApplyRunDef
<1>2. R \subseteq 1..Len(txs) /\ R \subseteq Nat /\ R # {}
  BY DEF Refused, apply_block_to_ledger
<1>3. \A i \in 1..Len(txs) : i \notin R => CanApply(run[i - 1], txs[i])
  BY DEF Refused
<1>4. \A i \in 1..Len(txs) : Fits(run[i - 1], txs[i])
  BY DEF AllFit
<1>5. apply_block_to_ledger(l, txs).ledger = undo[0]
  BY <1>2 DEF apply_block_to_ledger
<1> HIDE DEF R, run
<1>6. good \in 0..Len(txs) /\ \A i \in 1..good : i \in 1..Len(txs) /\ i \notin R
  <2>1. Min(R) \in R /\ \A y \in R : Min(R) <= y
    BY <1>2, MinIsLeast
  <2>2. Min(R) \in 1..Len(txs)
    BY <1>2, <2>1
  <2> QED BY <2>1, <2>2
<1> HIDE DEF good
<1>7. /\ pre \in Seq(Transaction) /\ Len(pre) = good
      /\ \A i \in 1..good : pre[i] = txs[i] /\ txs[i] \in Transaction
  BY <1>6, PrefixIsSeq
<1>8. run[good] \in LedgerState
  BY <1>1, <1>6
<1> HIDE DEF pre
<1>9. /\ undo \in [0..good -> LedgerState] /\ undo[good] = run[good]
      /\ \A i \in 0..(good - 1) : undo[i] = reverse_transaction(undo[i + 1], pre[i + 1])
  BY <1>7, <1>8, UndoRunDef
<1> HIDE DEF undo
<1> DEFINE G == {i \in 0..good : Covers(undo[i], run[i])}
<1>10. good \in G
  BY <1>6, <1>9 DEF Covers, SameFunds
<1>11. ASSUME NEW i \in 0..(good - 1), i + 1 \in G PROVE i \in G
  <2>1. i + 1 \in 1..good /\ (i + 1) - 1 = i /\ i \in 0..Len(txs) /\ i \in 0..good
    BY <1>6
  <2> DEFINE j == i + 1
  <2>2. /\ run[i] \in LedgerState /\ undo[j] \in LedgerState
        /\ run[j] = apply_transaction(run[i], txs[j])
        /\ CanApply(run[i], txs[j]) /\ Fits(run[i], txs[j])
        /\ txs[j] \in Transaction
        /\ undo[i] = reverse_transaction(undo[j], txs[j])
    <3>1. j \in 1..good /\ j - 1 = i /\ j \in 1..Len(txs) /\ j \notin R /\ j \in 0..good
      BY <1>6, <2>1
    <3>2. undo[i] = reverse_transaction(undo[j], pre[j])
      BY <1>9
    <3> HIDE DEF j
    <3>3. run[j] = apply_transaction(run[j - 1], txs[j]) /\ run[j - 1] \in LedgerState
      BY <1>1, <2>1, <3>1
    <3>4. CanApply(run[j - 1], txs[j]) /\ Fits(run[j - 1], txs[j])
      BY <1>3, <1>4, <3>1
    <3>5. pre[j] = txs[j] /\ txs[j] \in Transaction /\ undo[j] \in LedgerState
      BY <1>7, <1>9, <3>1
    <3> QED BY <3>1, <3>2, <3>3, <3>4, <3>5
  <2>3. Covers(undo[i + 1], run[i + 1])
    BY <1>11
  <2>4. Covers(undo[i], run[i])
    BY <2>2, <2>3, ReverseUndoesApply
  <2> QED BY <2>1, <2>4
<1>12. 0..good \subseteq G
  <2>1. good \in Nat
    BY <1>6
  <2> HIDE DEF G
  <2> QED BY <1>10, <1>11, <2>1, DownFrom
<1> QED
  BY <1>1, <1>5, <1>6, <1>12 DEF Covers
=============================================================================
