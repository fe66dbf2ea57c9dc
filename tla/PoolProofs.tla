----------------------------- MODULE PoolProofs -----------------------------
(***************************************************************************)
(* What the two pools promise, for every sequence of calls: the mempool    *)
(* stays in order, the orphan pool stays a sequence of blocks.             *)
(***************************************************************************)
EXTENDS OrphanPool, Mempool, LedgerProofs

GoodPool == {p \in Seq(Transaction) : InOrder(p)}

(* The place InsertByFee looks for exists in an ordered pool: just before  *)
(* the first element with a smaller fee.                                   *)
LEMMA InsertionPoint ==
  ASSUME NEW p \in Seq(Transaction), InOrder(p), NEW tx \in Transaction
  PROVE  \E k \in 0..Len(p) : \A i \in DOMAIN p : i <= k <=> p[i].fee >= tx.fee
<1> DEFINE Lower == {i \in 1..Len(p) : ~(p[i].fee >= tx.fee)}
<1>1. \A i, j \in 1..Len(p) : i < j => p[i].fee >= p[j].fee
  BY DEF InOrder
<1>2. tx.fee \in Int /\ \A i \in 1..Len(p) : p[i].fee \in Int
  <2>1. \A t \in Transaction : t.fee \in Int
    BY LedgerAssumption DEF Transaction, Word
  <2> QED BY <2>1
<1>3. CASE Lower = {}
  <2>1. \A i \in DOMAIN p : i <= Len(p) <=> p[i].fee >= tx.fee
    BY <1>3
  <2> QED BY <2>1
<1>4. CASE Lower # {}
  <2>1. Lower \subseteq Nat
    OBVIOUS
  <2>2. PICK x \in Lower : \A y \in Lower : x <= y
    <3> HIDE DEF Lower
    <3> QED BY <1>4, <2>1, NatMin
  <2>3. \A i \in DOMAIN p : i <= x - 1 <=> p[i].fee >= tx.fee
    <3> SUFFICES ASSUME NEW i \in 1..Len(p)
                 PROVE  i <= x - 1 <=> p[i].fee >= tx.fee
      OBVIOUS
    <3>1. x \in 1..Len(p) /\ ~(p[x].fee >= tx.fee)
      OBVIOUS
    <3>2. CASE i < x
      <4>1. i \notin Lower
        BY <2>2, <3>1, <3>2
      <4> QED BY <3>1, <3>2, <4>1
    <3>3. CASE i = x
      BY <3>1, <3>3
    <3>4. CASE x < i
      BY <1>1, <1>2, <3>1, <3>4
    <3> QED BY <3>1, <3>2, <3>3, <3>4
  <2>4. x - 1 \in 0..Len(p)
    OBVIOUS
  <2> QED BY <2>3, <2>4
<1> QED BY <1>3, <1>4


(* Making room leaves an ordered pool with a free place, made of elements  *)
(* of the old one.                                                         *)
LEMMA EvictionMakesRoom ==
  ASSUME NEW p \in GoodPool
  PROVE  /\ AfterEviction(p) \in GoodPool
         /\ Len(AfterEviction(p)) < max_size
         /\ Len(AfterEviction(p)) <= Len(p)
         /\ \A i \in 1..Len(AfterEviction(p)) : AfterEviction(p)[i] = p[i]
<1> DEFINE q == AfterEviction(p)
<1>1. p \in Seq(Transaction) /\ InOrder(p) /\ Len(p) \in Nat /\ max_size \in Nat \ {0}
  BY MempoolAssumption DEF GoodPool
<1>2. Len(p) <= max_size
  BY <1>1 DEF InOrder
<1>3. CASE Len(p) < max_size
  BY <1>1, <1>3 DEF AfterEviction
<1>4. CASE ~(Len(p) < max_size)
  <2>1. Len(p) - 1 \in 0..Len(p) /\ Len(p) - 1 < max_size
    BY <1>1, <1>2, <1>4
  <2>2. q = SubSeq(p, 1, Len(p) - 1)
    BY <1>4 DEF AfterEviction
  <2>3. q \in Seq(Transaction) /\ Len(q) = Len(p) - 1 /\ \A i \in 1..Len(q) : q[i] = p[i]
    BY <1>1, <2>1, <2>2, PrefixIsSeq
  <2> HIDE DEF q
  <2>4. DOMAIN q = 1..Len(q) /\ DOMAIN p = 1..Len(p) /\ 1..Len(q) \subseteq 1..Len(p)
    BY <1>1, <2>3
  <2>5. InOrder(q)
    BY <1>1, <2>1, <2>3, <2>4 DEF InOrder
  <2> QED BY <1>1, <2>1, <2>3, <2>5 DEF GoodPool, q
<1> QED BY <1>3, <1>4

(* add_transaction keeps the pool in order.                                *)
LEMMA AddKeepsOrder ==
  ASSUME NEW p \in GoodPool, NEW tx \in Transaction
  PROVE  add_transaction(p, tx) \in GoodPool
<1>1. CASE ~CanAdd(p, tx)
  BY <1>1 DEF add_transaction
<1>2. CASE CanAdd(p, tx)
  <2> DEFINE b == AfterEviction(p)
             n == Len(b)
             IsPlace(k) == \A i \in DOMAIN b : i <= k <=> b[i].fee >= tx.fee
             k == CHOOSE k \in 0..n : IsPlace(k)
             q == SubSeq(b, 1, k) \o <<tx>> \o SubSeq(b, k + 1, n)
  <2>1. /\ b \in Seq(Transaction) /\ InOrder(b) /\ n < max_size /\ n <= Len(p)
        /\ \A i \in 1..n : b[i] = p[i]
    BY EvictionMakesRoom DEF GoodPool
  <2>2. /\ n \in Nat /\ DOMAIN b = 1..n /\ max_size \in Nat
        /\ Len(p) \in Nat /\ DOMAIN p = 1..Len(p)
    BY <2>1, MempoolAssumption DEF GoodPool
  <2>3. q = add_transaction(p, tx)
    <3>1. add_transaction(p, tx) = InsertByFee(b, tx)
      BY <1>2 DEF add_transaction
    <3> HIDE DEF b
    <3>2. InsertByFee(b, tx) = q
      BY Zenon DEF InsertByFee
    <3> QED BY <3>1, <3>2
  <2> HIDE DEF b
  <2>4. \E j \in 0..n : IsPlace(j)
    BY <2>1, InsertionPoint
  <2>5. k \in 0..n /\ \A i \in 1..n : i <= k <=> b[i].fee >= tx.fee
    <3> HIDE DEF IsPlace
    <3>1. k \in 0..n /\ IsPlace(k)
      BY <2>4
    <3> QED BY <2>2, <3>1 DEF IsPlace
  <2> HIDE DEF k
  <2>6. /\ q \in Seq(Transaction) /\ Len(q) = n + 1
        /\ \A i \in 1..(n + 1) :
             q[i] = IF i <= k THEN b[i] ELSE IF i = k + 1 THEN tx ELSE b[i - 1]
    <3> HIDE DEF n
    <3>1. k \in 0..Len(b)
      BY <2>5 DEF n
    <3>2. q = Inserted(b, k, tx)
      BY DEF n, Inserted
    <3>3. /\ Inserted(b, k, tx) \in Seq(Transaction)
          /\ Len(Inserted(b, k, tx)) = Len(b) + 1
          /\ \A i \in 1..(Len(b) + 1) :
               Inserted(b, k, tx)[i] =
                 IF i <= k THEN b[i] ELSE IF i = k + 1 THEN tx ELSE b[i - 1]
      BY <2>1, <3>1, InsertAt
    <3> HIDE DEF q
    <3> QED BY <3>2, <3>3 DEF n
  <2> HIDE DEF q
  <2>7. /\ has_valid_signature(tx)
        /\ \A i \in 1..n : compute_hash(b[i]) # compute_hash(tx)
    BY <1>2, <2>1, <2>2 DEF CanAdd, has_transaction
  <2>8. /\ \A i \in 1..n : has_valid_signature(b[i])
        /\ \A i, j \in 1..n : i < j => /\ b[i].fee >= b[j].fee
                                       /\ compute_hash(b[i]) # compute_hash(b[j])
    BY <2>1, <2>2 DEF InOrder
  <2>9. tx.fee \in Int /\ \A i \in 1..n : b[i].fee \in Int
    <3>1. \A t \in Transaction : t.fee \in Int
      BY LedgerAssumption DEF Transaction, Word
    <3> QED BY <2>1, <3>1
  <2>10. ASSUME NEW i \in 1..(n + 1) PROVE has_valid_signature(q[i])
    <3>1. i <= k \/ i = k + 1 \/ (i > k + 1 /\ i - 1 \in 1..n)
      BY <2>2, <2>5
    <3> QED BY <2>2, <2>5, <2>6, <2>7, <2>8, <3>1
  <2>11. ASSUME NEW i \in 1..(n + 1), NEW j \in 1..(n + 1), i < j
         PROVE  q[i].fee >= q[j].fee /\ compute_hash(q[i]) # compute_hash(q[j])
    <3> USE <2>2, <2>5
    <3>1. CASE j <= k
      <4>1. i \in 1..n /\ j \in 1..n /\ q[i] = b[i] /\ q[j] = b[j]
        BY <2>6, <2>11, <3>1
      <4> QED BY <2>8, <2>11, <4>1
    <3>2. CASE j = k + 1
      <4>1. i \in 1..n /\ i <= k /\ q[i] = b[i] /\ q[j] = tx
        BY <2>6, <2>11, <3>2
      <4> QED BY <2>7, <4>1
    <3>3. CASE j > k + 1 /\ i = k + 1
      <4>1. j - 1 \in 1..n /\ ~(j - 1 <= k) /\ q[j] = b[j - 1] /\ q[i] = tx
        BY <2>6, <3>3
      <4>2. ~(b[j - 1].fee >= tx.fee) /\ b[j - 1].fee \in Int
        BY <2>9, <4>1
      <4> QED BY <2>7, <2>9, <4>1, <4>2
    <3>4. CASE j > k + 1 /\ i <= k
      <4>1. i \in 1..n /\ j - 1 \in 1..n /\ i < j - 1 /\ q[j] = b[j - 1] /\ q[i] = b[i]
        BY <2>6, <3>4
      <4> QED BY <2>8, <4>1
    <3>5. CASE j > k + 1 /\ i > k + 1
      <4>1. i - 1 \in 1..n /\ j - 1 \in 1..n /\ i - 1 < j - 1
        BY <2>11, <3>5
      <4>2. q[j] = b[j - 1] /\ q[i] = b[i - 1]
        BY <2>6, <3>5
      <4> QED BY <2>8, <4>1, <4>2
    <3> QED BY <3>1, <3>2, <3>3, <3>4, <3>5
  <2>12. InOrder(q)
    <3>1. DOMAIN q = 1..(n + 1) /\ Len(q) <= max_size
      BY <2>1, <2>2, <2>6
    <3> QED BY <2>10, <2>11, <3>1 DEF InOrder
  <2> QED BY <2>3, <2>6, <2>12 DEF GoodPool
<1> QED BY <1>1, <1>2

(* remove_transaction keeps the pool in order.                             *)
LEMMA RemoveKeepsOrder ==
  ASSUME NEW p \in GoodPool, NEW tx
  PROVE  remove_transaction(p, tx) \in GoodPool
<1>1. CASE ~has_transaction(p, tx)
  BY <1>1 DEF remove_transaction
<1>2. CASE has_transaction(p, tx)
  <2> DEFINE n == Len(p)
             IsFirst(i) == /\ compute_hash(p[i]) = compute_hash(tx)
                           /\ \A j \in 1..(i - 1) : compute_hash(p[j]) # compute_hash(tx)
             k == CHOOSE i \in DOMAIN p : IsFirst(i)
             q == Removed(p, k)
             M == {i \in 1..n : compute_hash(p[i]) = compute_hash(tx)}
  <2>1. p \in Seq(Transaction) /\ InOrder(p) /\ n \in Nat /\ DOMAIN p = 1..n
    BY DEF GoodPool
  <2>2. M # {} /\ M \subseteq Nat
    BY <1>2, <2>1 DEF has_transaction
  <2>3. PICK x \in M : \A y \in M : x <= y
    <3> HIDE DEF M
    <3> QED BY <2>2, NatMin
  <2>4. x \in DOMAIN p /\ IsFirst(x)
    <3>1. ASSUME NEW j \in 1..(x - 1) PROVE compute_hash(p[j]) # compute_hash(tx)
      <4>1. j \in 1..n /\ ~(x <= j)
        BY <2>1
      <4> QED BY <2>3, <4>1
    <3> QED BY <2>1, <3>1
  <2>5. k \in 1..n
    <3> HIDE DEF IsFirst
    <3> QED BY <2>1, <2>4
  <2>6. remove_transaction(p, tx) = q
    BY <1>2, Zenon DEF remove_transaction, Removed
  <2> HIDE DEF k
  <2>7. /\ q \in Seq(Transaction) /\ Len(q) = n - 1
        /\ \A i \in 1..(n - 1) : q[i] = IF i < k THEN p[i] ELSE p[i + 1]
    BY <2>1, <2>5, RemoveAt
  <2> HIDE DEF q
  <2>8. ASSUME NEW i \in 1..(n - 1)
        PROVE  \E j \in 1..n : q[i] = p[j] /\ (i < k => j = i) /\ (~(i < k) => j = i + 1)
    <3>1. CASE i < k
      <4>1. i \in 1..n /\ q[i] = p[i]
        BY <2>1, <2>7, <3>1
      <4> QED BY <3>1, <4>1
    <3>2. CASE ~(i < k)
      <4>1. i + 1 \in 1..n /\ q[i] = p[i + 1]
        BY <2>1, <2>7, <3>2
      <4> QED BY <3>2, <4>1
    <3> QED BY <3>1, <3>2
  <2>9. /\ \A i \in 1..n : has_valid_signature(p[i])
        /\ \A i, j \in 1..n : i < j => /\ p[i].fee >= p[j].fee
                                       /\ compute_hash(p[i]) # compute_hash(p[j])
    BY <2>1 DEF InOrder
  <2>10. ASSUME NEW i \in 1..(n - 1), NEW j \in 1..(n - 1), i < j
         PROVE  q[i].fee >= q[j].fee /\ compute_hash(q[i]) # compute_hash(q[j])
    <3>1. PICK a \in 1..n : q[i] = p[a] /\ (i < k => a = i) /\ (~(i < k) => a = i + 1)
      BY <2>8
    <3>2. PICK b \in 1..n : q[j] = p[b] /\ (j < k => b = j) /\ (~(j < k) => b = j + 1)
      BY <2>8
    <3>3. a < b
      BY <2>1, <2>5, <2>10, <3>1, <3>2
    <3> QED BY <2>9, <3>1, <3>2, <3>3
  <2>11. InOrder(q)
    <3>1. Len(q) <= max_size /\ DOMAIN q = 1..(n - 1)
      BY <2>1, <2>7, MempoolAssumption DEF InOrder
    <3>2. \A i \in 1..(n - 1) : has_valid_signature(q[i])
      BY <2>8, <2>9
    <3> QED BY <2>10, <3>1, <3>2 DEF InOrder
  <2> QED BY <2>6, <2>7, <2>11 DEF GoodPool
<1> QED BY <1>1, <1>2

(* So does removing the transactions of a block one by one.                *)
LEMMA RemoveRunType ==
  ASSUME NEW p \in GoodPool, NEW txs \in Seq(Transaction)
  PROVE  RemoveRun(p, txs)[Len(txs)] \in GoodPool
<1> DEFINE n == Len(txs)
           Step(i, x) == remove_transaction(x, txs[i])
           step == [y \in (1..n) \X GoodPool |-> Step(y[1], y[2])]
           Def(f) == f = [i \in 0..n |-> IF i = 0 THEN p ELSE Step(i, f[i - 1])]
           run == RemoveRun(p, txs)
<1>1. n \in Nat
  OBVIOUS
<1>2. \A i \in 1..n, x \in GoodPool : Step(i, x) \in GoodPool
  BY RemoveKeepsOrder
<1>3. run = CHOOSE f : Def(f)
  BY DEF RemoveRun
<1> HIDE DEF n, Step, run
<1>4. step \in [(1..n) \X GoodPool -> GoodPool]
  BY <1>2
<1>5. \A i \in 1..n, x \in GoodPool : step[<<i, x>>] = Step(i, x)
  OBVIOUS
<1> HIDE DEF step
<1>6. PICK g : IsRun(g, GoodPool, n, p, step)
  BY <1>1, <1>4, RunExists
<1>7. Def(g)
  <2>1. g = [i \in 0..n |-> g[i]] /\ g[0] = p
    BY <1>1, <1>6 DEF IsRun
  <2>2. ASSUME NEW i \in 0..n, i # 0 PROVE g[i] = Step(i, g[i - 1])
    <3>1. i \in 1..n /\ i - 1 \in 0..n
      BY <1>1, <2>2
    <3>2. g[i - 1] \in GoodPool /\ g[i] = step[<<i, g[i - 1]>>]
      BY <1>6, <3>1 DEF IsRun
    <3> QED BY <1>5, <3>1, <3>2
  <2> QED BY <2>1, <2>2
<1>8. Def(run)
  <2> HIDE DEF Def
  <2> QED BY <1>3, <1>7
<1>9. /\ run = [i \in 0..n |-> run[i]] /\ run[0] = p
      /\ \A i \in 1..n : run[i] = Step(i, run[i - 1])
  BY <1>1, <1>8
<1>10. IsRun(run, GoodPool, n, p, step)
  BY <1>1, <1>4, <1>5, <1>9, RunTyped
<1> QED BY <1>1, <1>10 DEF IsRun, run, n

(* And so does returning the transactions of the discarded blocks.         *)
LEMMA ReturnRunType ==
  ASSUME NEW p \in GoodPool, NEW txs \in Seq(Transaction), NEW skip
  PROVE  ReturnRun(p, txs, skip)[0] \in GoodPool
<1> DEFINE n == Len(txs)
           Step(i, x) == IF is_coinbase(txs[i]) \/ compute_hash(txs[i]) \in skip THEN x
                         ELSE add_transaction(x, txs[i])
           step == [y \in (1..n) \X GoodPool |-> Step(y[1], y[2])]
           Def(f) == f = [i \in 0..n |-> IF i = n THEN p ELSE Step(i + 1, f[i + 1])]
           run == ReturnRun(p, txs, skip)
<1>1. n \in Nat
  OBVIOUS
<1>2. \A i \in 1..n, x \in GoodPool : Step(i, x) \in GoodPool
  BY AddKeepsOrder
<1>3. run = CHOOSE f : Def(f)
  BY DEF ReturnRun
<1> HIDE DEF n, Step, run
<1>4. step \in [(1..n) \X GoodPool -> GoodPool]
  BY <1>2
<1>5. \A i \in 1..n, x \in GoodPool : step[<<i, x>>] = Step(i, x)
  OBVIOUS
<1> HIDE DEF step
<1>6. PICK g : IsDownRun(g, GoodPool, n, p, step)
  BY <1>1, <1>4, DownRunExists
<1>7. Def(g)
  <2>1. g = [i \in 0..n |-> g[i]] /\ g[n] = p
    BY <1>1, <1>6 DEF IsDownRun
  <2>2. ASSUME NEW i \in 0..n, i # n PROVE g[i] = Step(i + 1, g[i + 1])
    <3>1. i \in 0..(n - 1) /\ i + 1 \in 0..n /\ i + 1 \in 1..n
      BY <1>1, <2>2
    <3>2. g[i + 1] \in GoodPool /\ g[i] = step[<<i + 1, g[i + 1]>>]
      BY <1>6, <3>1 DEF IsDownRun
    <3> QED BY <1>5, <3>1, <3>2
  <2> QED BY <2>1, <2>2
<1>8. Def(run)
  <2> HIDE DEF Def
  <2> QED BY <1>3, <1>7
<1>9. /\ run = [i \in 0..n |-> run[i]] /\ run[n] = p
      /\ \A i \in 0..(n - 1) : run[i] = Step(i + 1, run[i + 1])
  <2>1. \A i \in 0..(n - 1) : i \in 0..n /\ i # n
    BY <1>1
  <2>2. n \in 0..n
    BY <1>1
  <2> QED BY <1>8, <2>1, <2>2
<1>10. IsDownRun(run, GoodPool, n, p, step)
  <2>1. \A i \in 0..(n - 1) : i + 1 \in 1..n
    BY <1>1
  <2> QED BY <1>1, <1>4, <1>5, <1>9, <2>1, DownRunTyped
<1> QED BY <1>1, <1>10 DEF IsDownRun, run

-----------------------------------------------------------------------------
(* The orphan pool                                                         *)

(* add_orphan and remove_orphan keep the pool a sequence of blocks.        *)
LEMMA AddOrphanType ==
  ASSUME NEW p \in Seq(Hash), NEW h \in Hash
  PROVE  add_orphan(p, h) \in Seq(Hash)
<1>1. Append(p, h) \in Seq(Hash)
  OBVIOUS
<1>2. ASSUME Len(p) >= max_orphans PROVE Append(Tail(p), h) \in Seq(Hash)
  <2>1. p # <<>>
    BY <1>2, OrphanPoolAssumption
  <2>2. Tail(p) \in Seq(Hash)
    BY <2>1
  <2> QED BY <2>2
<1> QED BY <1>1, <1>2 DEF add_orphan

(* Removing an orphan leaves a sequence of block hashes.                   *)
LEMMA RemoveOrphanType ==
  ASSUME NEW p \in Seq(Hash), NEW h
  PROVE  remove_orphan(p, h) \in Seq(Hash)
<1>1. CASE ~has_orphan(p, h)
  BY <1>1 DEF remove_orphan
<1>2. CASE has_orphan(p, h)
  <2> DEFINE k == CHOOSE i \in DOMAIN p : p[i] = h
  <2>1. k \in 1..Len(p)
    BY <1>2 DEF has_orphan
  <2>2. remove_orphan(p, h) = Removed(p, k)
    BY <1>2, Zenon DEF remove_orphan, Removed
  <2> HIDE DEF k
  <2> QED BY <2>1, <2>2, RemoveAt
<1> QED BY <1>1, <1>2

(* Removing a branch removes its blocks one after the other.               *)
LEMMA RemoveOrphansDef ==
  ASSUME NEW p \in Seq(Hash), NEW hashes \in Seq(Hash)
  PROVE  \E run \in [0..Len(hashes) -> Seq(Hash)] :
           /\ RemoveOrphans(p, hashes) = run[Len(hashes)]
           /\ run[0] = p
           /\ \A i \in 1..Len(hashes) : run[i] = remove_orphan(run[i - 1], hashes[i])
<1> DEFINE n == Len(hashes)
           S == Seq(Hash)
           Step(i, x) == remove_orphan(x, hashes[i])
           step == [y \in (1..n) \X S |-> Step(y[1], y[2])]
           Def(f) == f = [i \in 0..n |-> IF i = 0 THEN p ELSE Step(i, f[i - 1])]
           run == CHOOSE f : Def(f)
<1>1. n \in Nat /\ p \in S
  OBVIOUS
<1>2. \A i \in 1..n, x \in S : Step(i, x) \in S
  BY RemoveOrphanType
<1>3. RemoveOrphans(p, hashes) = run[n]
  BY DEF RemoveOrphans
<1> HIDE DEF n, Step, S
<1>4. step \in [(1..n) \X S -> S]
  BY <1>2
<1>5. \A i \in 1..n, x \in S : step[<<i, x>>] = Step(i, x)
  OBVIOUS
<1> HIDE DEF step
<1>6. PICK g : IsRun(g, S, n, p, step)
  BY <1>1, <1>4, RunExists
<1>7. Def(g)
  <2>1. g = [i \in 0..n |-> g[i]] /\ g[0] = p
    BY <1>1, <1>6 DEF IsRun
  <2>2. ASSUME NEW i \in 0..n, i # 0 PROVE g[i] = Step(i, g[i - 1])
    <3>1. i \in 1..n /\ i - 1 \in 0..n
      BY <1>1, <2>2
    <3>2. g[i - 1] \in S /\ g[i] = step[<<i, g[i - 1]>>]
      BY <1>6, <3>1 DEF IsRun
    <3> QED BY <1>5, <3>1, <3>2
  <2> QED BY <2>1, <2>2
<1>8. Def(run)
  <2> HIDE DEF Def
  <2> QED BY <1>7
<1> HIDE DEF run
<1>9. /\ run = [i \in 0..n |-> run[i]] /\ run[0] = p
      /\ \A i \in 1..n : run[i] = Step(i, run[i - 1])
  BY <1>1, <1>8
<1>10. IsRun(run, S, n, p, step)
  BY <1>1, <1>4, <1>5, <1>9, RunTyped
<1>11. run \in [0..n -> S] /\ \A i \in 1..n : run[i] = remove_orphan(run[i - 1], hashes[i])
  BY <1>9, <1>10 DEF IsRun, Step
<1> QED BY <1>3, <1>9, <1>11 DEF n, S

(* What is left is a sequence of block hashes.                             *)
LEMMA RemoveOrphansType ==
  ASSUME NEW p \in Seq(Hash), NEW hashes \in Seq(Hash)
  PROVE  RemoveOrphans(p, hashes) \in Seq(Hash)
<1>1. PICK run \in [0..Len(hashes) -> Seq(Hash)] :
        RemoveOrphans(p, hashes) = run[Len(hashes)]
  BY RemoveOrphansDef
<1> QED BY <1>1
=============================================================================
