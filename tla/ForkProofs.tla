----------------------------- MODULE ForkProofs -----------------------------
(***************************************************************************)
(* What tracing, cutting and joining branches gives, for every chain and   *)
(* every branch.                                                           *)
(***************************************************************************)
EXTENDS ForkResolution, LedgerProofs

-----------------------------------------------------------------------------
(* Work                                                                    *)

(* The powers of two are positive.                                         *)
LEMMA PowerType == \A d \in 0..(U32 - 1) : TwoTo[d] \in Nat \ {0}
<1> DEFINE n == U32 - 1
           S == Nat \ {0}
           Step(i, x) == 2 * x
           step == [y \in (1..n) \X S |-> Step(y[1], y[2])]
           Def(f) == f = [i \in 0..n |-> IF i = 0 THEN 1 ELSE Step(i, f[i - 1])]
           run == CHOOSE f : Def(f)
<1>1. n \in Nat /\ 1 \in S
  BY ConsensusAssumption
<1>2. \A i \in 1..n, x \in S : Step(i, x) \in S
  OBVIOUS
<1>3. TwoTo = run
  BY DEF TwoTo
<1> HIDE DEF n, Step, S
<1>4. step \in [(1..n) \X S -> S]
  BY <1>2
<1>5. \A i \in 1..n, x \in S : step[<<i, x>>] = Step(i, x)
  OBVIOUS
<1> HIDE DEF step
<1>6. PICK g : IsRun(g, S, n, 1, step)
  BY <1>1, <1>4, RunExists
<1>7. Def(g)
  <2>1. g = [i \in 0..n |-> g[i]] /\ g[0] = 1
    BY <1>1, <1>6 DEF IsRun
  <2>2. ASSUME NEW i \in 0..n, i # 0 PROVE g[i] = Step(i, g[i - 1])
    <3>1. i \in 1..n /\ i - 1 \in 0..n
      BY <1>1, <2>2
    <3>2. g[i - 1] \in S /\ g[i] = step[<<i, g[i - 1]>>]
      BY <1>6, <3>1 DEF IsRun
    <3> QED BY <1>5, <3>1, <3>2
  <2> QED BY <2>1, <2>2
<1>8. Def(run)
  <2> HIDE DEF Def
  <2> QED BY <1>7
<1> HIDE DEF run
<1>9. /\ run = [i \in 0..n |-> run[i]] /\ run[0] = 1
      /\ \A i \in 1..n : run[i] = Step(i, run[i - 1])
  BY <1>1, <1>8
<1>10. IsRun(run, S, n, 1, step)
  BY <1>1, <1>4, <1>5, <1>9, RunTyped
<1> QED BY <1>1, <1>3, <1>10 DEF IsRun, S, n

(* The content of a block has its type.                                    *)
LEMMA BlockFields ==
  ASSUME NEW h \in Hash
  PROVE  /\ Blk[h].prev \in Hash \cup {"none"}
         /\ Blk[h].difficulty \in 0..(U32 - 1)
         /\ Blk[h].txs \in Seq(Transaction)
         /\ Blk[h].time \in Nat
BY BlockAssumption DEF BlockType

(* The work of a block is a 64-bit number and never 0.                     *)
LEMMA WorkType ==
  ASSUME NEW h \in Hash
  PROVE  block_work(Blk[h]) \in Word /\ block_work(Blk[h]) > 0
<1>1. TwoTo[Blk[h].difficulty] \in Nat \ {0}
  BY BlockFields, PowerType
<1> QED BY <1>1, LedgerAssumption DEF block_work, Word

(* BranchWork adds up the work of a branch block by block, in 64 bits.     *)
LEMMA BranchWorkDef ==
  ASSUME NEW start \in Word, NEW branch \in Seq(Hash)
  PROVE  /\ BranchWork(start, branch) \in [0..Len(branch) -> Word]
         /\ BranchWork(start, branch)[0] = start
         /\ \A i \in 1..Len(branch) :
              BranchWork(start, branch)[i] =
                Add64(BranchWork(start, branch)[i - 1], block_work(Blk[branch[i]]))
<1> DEFINE n == Len(branch)
           Step(i, x) == Add64(x, block_work(Blk[branch[i]]))
           step == [y \in (1..n) \X Word |-> Step(y[1], y[2])]
           Def(f) == f = [i \in 0..n |-> IF i = 0 THEN start ELSE Step(i, f[i - 1])]
           run == BranchWork(start, branch)
<1>1. n \in Nat /\ \A i \in 1..n : branch[i] \in Hash
  OBVIOUS
<1>2. \A i \in 1..n, x \in Word : Step(i, x) \in Word
  BY <1>1, WorkType, WordArithmetic
<1>3. run = CHOOSE f : Def(f)
  BY DEF BranchWork
<1> HIDE DEF n, Step, run
<1>4. step \in [(1..n) \X Word -> Word]
  BY <1>2
<1>5. \A i \in 1..n, x \in Word : step[<<i, x>>] = Step(i, x)
  OBVIOUS
<1> HIDE DEF step
<1>6. PICK g : IsRun(g, Word, n, start, step)
  BY <1>1, <1>4, RunExists
<1>7. Def(g)
  <2>1. g = [i \in 0..n |-> g[i]] /\ g[0] = start
    BY <1>1, <1>6 DEF IsRun
  <2>2. ASSUME NEW i \in 0..n, i # 0 PROVE g[i] = Step(i, g[i - 1])
    <3>1. i \in 1..n /\ i - 1 \in 0..n
      BY <1>1, <2>2
    <3>2. g[i - 1] \in Word /\ g[i] = step[<<i, g[i - 1]>>]
      BY <1>6, <3>1 DEF IsRun
    <3> QED BY <1>5, <3>1, <3>2
  <2> QED BY <2>1, <2>2
<1>8. Def(run)
  <2> HIDE DEF Def
  <2> QED BY <1>3, <1>7
<1>9. /\ run = [i \in 0..n |-> run[i]] /\ run[0] = start
      /\ \A i \in 1..n : run[i] = Step(i, run[i - 1])
  BY <1>1, <1>8
<1>10. IsRun(run, Word, n, start, step)
  BY <1>1, <1>4, <1>5, <1>9, RunTyped
<1> QED BY <1>9, <1>10 DEF IsRun, run, n, Step

(* The transactions of a branch are transactions.                          *)
LEMMA AllTxsType ==
  ASSUME NEW hashes \in Seq(Hash)
  PROVE  AllTxs(hashes) \in Seq(Transaction)
<1> DEFINE n == Len(hashes)
           S == Seq(Transaction)
           Step(i, x) == x \o Blk[hashes[i]].txs
           step == [y \in (1..n) \X S |-> Step(y[1], y[2])]
           Def(f) == f = [i \in 0..n |-> IF i = 0 THEN <<>> ELSE Step(i, f[i - 1])]
           run == CHOOSE f : Def(f)
<1>1. n \in Nat /\ <<>> \in S
  OBVIOUS
<1>2. \A i \in 1..n, x \in S : Step(i, x) \in S
  <2>1. \A i \in 1..n : Blk[hashes[i]].txs \in Seq(Transaction)
    BY BlockFields
  <2> QED BY <2>1
<1>3. AllTxs(hashes) = run[n]
  BY DEF AllTxs
<1> HIDE DEF n, Step, S
<1>4. step \in [(1..n) \X S -> S]
  BY <1>2
<1>5. \A i \in 1..n, x \in S : step[<<i, x>>] = Step(i, x)
  OBVIOUS
<1> HIDE DEF step
<1>6. PICK g : IsRun(g, S, n, <<>>, step)
  BY <1>1, <1>4, RunExists
<1>7. Def(g)
  <2>1. g = [i \in 0..n |-> g[i]] /\ g[0] = <<>>
    BY <1>1, <1>6 DEF IsRun
  <2>2. ASSUME NEW i \in 0..n, i # 0 PROVE g[i] = Step(i, g[i - 1])
    <3>1. i \in 1..n /\ i - 1 \in 0..n
      BY <1>1, <2>2
    <3>2. g[i - 1] \in S /\ g[i] = step[<<i, g[i - 1]>>]
      BY <1>6, <3>1 DEF IsRun
    <3> QED BY <1>5, <3>1, <3>2
  <2> QED BY <2>1, <2>2
<1>8. Def(run)
  <2> HIDE DEF Def
  <2> QED BY <1>7
<1> HIDE DEF run
<1>9. /\ run = [i \in 0..n |-> run[i]] /\ run[0] = <<>>
      /\ \A i \in 1..n : run[i] = Step(i, run[i - 1])
  BY <1>1, <1>8
<1>10. IsRun(run, S, n, <<>>, step)
  BY <1>1, <1>4, <1>5, <1>9, RunTyped
<1> QED BY <1>1, <1>3, <1>10 DEF IsRun, S

-----------------------------------------------------------------------------
(* Chains                                                                  *)

(* What the hash of a block commits to.                                    *)
LEMMA HistoryFacts ==
  ASSUME NEW h \in Hash
  PROVE  /\ History[h] \in Seq(Hash)
         /\ Len(History[h]) \in Nat \ {0}
         /\ History[h][Len(History[h])] = h
         /\ \A i, j \in 1..Len(History[h]) : History[h][i] = History[h][j] => i = j
         /\ \A i \in 1..Len(History[h]) : History[History[h][i]] = SubSeq(History[h], 1, i)
<1>1. /\ Len(History[h]) >= 1
      /\ History[h][Len(History[h])] = h
      /\ \A i, j \in 1..Len(History[h]) : History[h][i] = History[h][j] => i = j
      /\ \A i \in 1..Len(History[h]) : History[History[h][i]] = SubSeq(History[h], 1, i)
  BY HistoryAssumption, Zenon
<1>2. History[h] \in Seq(Hash)
  BY HistoryAssumption, Zenon
<1>3. Len(History[h]) \in Nat \ {0}
  BY <1>1, <1>2
<1> QED BY <1>1, <1>2, <1>3, Zenon

(* The history of a block is its parent's with the block at the end.       *)
LEMMA HistoryExtends ==
  ASSUME NEW h \in Hash, Blk[h].prev \in Hash
  PROVE  History[h] = History[Blk[h].prev] \o <<h>>
<1> DEFINE past == History[h]
           n == Len(past)
           parent == History[Blk[h].prev]
<1>1. past \in Seq(Hash) /\ n \in Nat \ {0} /\ past[n] = h
  BY HistoryFacts
<1>2. /\ Blk[past[1]].prev \notin Hash
      /\ \A i \in 2..n : Blk[past[i]].prev = past[i - 1]
      /\ \A i \in 1..n : History[past[i]] = SubSeq(past, 1, i)
  BY HistoryAssumption
<1>3. n = Len(past)
  OBVIOUS
<1> HIDE DEF past, n
<1>4. n \in 2..n /\ n - 1 \in 1..n /\ n - 1 \in 0..n
  BY <1>1, <1>2
<1>5. parent = SubSeq(past, 1, n - 1)
  <2>1. past[n - 1] = Blk[h].prev
    BY <1>1, <1>2, <1>4
  <2> QED BY <1>2, <1>4, <2>1
<1>6. /\ parent \in Seq(Hash) /\ Len(parent) = n - 1
      /\ \A i \in 1..(n - 1) : parent[i] = past[i]
  BY <1>1, <1>3, <1>4, <1>5, PrefixIsSeq
<1> HIDE DEF parent
<1>7. /\ parent \o <<h>> \in Seq(Hash) /\ Len(parent \o <<h>>) = n
      /\ \A i \in 1..n : (parent \o <<h>>)[i] = past[i]
  BY <1>1, <1>6
<1>8. parent \o <<h>> = past
  BY <1>1, <1>3, <1>7, SameSeq
<1> QED BY <1>8 DEF past, parent

(* A chain that is typed and intact.                                       *)
GoodChain(bc) ==
  /\ size(bc) >= 1
  /\ bc.blocks \in Seq(Hash) /\ bc.work \in Seq(Word)
  /\ bc.height_by_hash \in [DOMAIN bc.height_by_hash -> Nat]
  /\ Intact(bc)

(* A good chain is not empty, holds no block twice, and the history of     *)
(* each of its blocks is the chain up to there.                            *)
LEMMA ChainFacts ==
  ASSUME NEW bc, GoodChain(bc)
  PROVE  /\ size(bc) \in Nat \ {0} /\ latest(bc) \in Hash
         /\ \A i, j \in 1..size(bc) : bc.blocks[i] = bc.blocks[j] => i = j
         /\ \A i \in 1..size(bc) :
              /\ bc.blocks[i] \in Hash /\ has_block(bc, bc.blocks[i])
              /\ History[bc.blocks[i]] = SubSeq(bc.blocks, 1, i)
         /\ \A h : has_block(bc, h) =>
              /\ bc.height_by_hash[h] + 1 \in 1..size(bc)
              /\ bc.blocks[bc.height_by_hash[h] + 1] = h
<1> DEFINE n == size(bc)
<1>1. bc.blocks \in Seq(Hash) /\ n \in Nat \ {0} /\ n = Len(bc.blocks)
  BY DEF GoodChain, size
<1>2. /\ bc.blocks = History[latest(bc)]
      /\ DOMAIN bc.height_by_hash = {bc.blocks[i] : i \in 1..n}
      /\ \A i \in 1..n : bc.height_by_hash[bc.blocks[i]] = i - 1
  BY DEF GoodChain, Intact
<1>3. latest(bc) \in Hash
  BY <1>1 DEF latest
<1>4. /\ \A i, j \in 1..n : bc.blocks[i] = bc.blocks[j] => i = j
      /\ \A i \in 1..n : History[bc.blocks[i]] = SubSeq(bc.blocks, 1, i)
  BY <1>1, <1>2, <1>3, HistoryFacts
<1>5. \A i \in 1..n : bc.blocks[i] \in Hash /\ has_block(bc, bc.blocks[i])
  BY <1>1, <1>2 DEF has_block
<1>6. ASSUME NEW h, has_block(bc, h)
      PROVE  /\ bc.height_by_hash[h] + 1 \in 1..n
             /\ bc.blocks[bc.height_by_hash[h] + 1] = h
  <2>1. PICK i \in 1..n : h = bc.blocks[i]
    BY <1>2, <1>6 DEF has_block
  <2>2. bc.height_by_hash[h] = i - 1
    BY <1>2, <2>1
  <2>3. (i - 1) + 1 = i
    OBVIOUS
  <2> QED BY <2>1, <2>2, <2>3
<1> QED BY <1>1, <1>3, <1>4, <1>5, <1>6

(* The cumulative work of each block of a good chain is a 64-bit number.   *)
LEMMA ChainWorkType ==
  ASSUME NEW bc, GoodChain(bc), NEW i \in 1..size(bc)
  PROVE  bc.work[i] \in Word
<1> DEFINE w == bc.work
           n == size(bc)
<1>1. w \in Seq(Word) /\ Len(w) = n /\ i \in 1..n
  BY DEF GoodChain, Intact
<1> HIDE DEF w, n
<1>2. w[i] \in Word
  BY <1>1
<1> QED BY <1>2 DEF w

(* Cutting a good chain leaves a good chain.                               *)
LEMMA TruncateGood ==
  ASSUME NEW bc, GoodChain(bc), NEW base \in 1..size(bc)
  PROVE  /\ GoodChain(Truncate(bc, base))
         /\ Truncate(bc, base).blocks = SubSeq(bc.blocks, 1, base)
         /\ size(Truncate(bc, base)) = base
         /\ Truncate(bc, base).work[base] = bc.work[base]
<1> DEFINE t == Truncate(bc, base)
           n == size(bc)
<1>1. n \in Nat \ {0} /\ bc.blocks \in Seq(Hash) /\ Len(bc.blocks) = n /\ base \in 1..n
  BY ChainFacts DEF GoodChain, size
<1>2. bc.work \in Seq(Word) /\ Len(bc.work) = n
  BY DEF GoodChain, Intact
<1>3. /\ t.blocks \in Seq(Hash) /\ Len(t.blocks) = base
      /\ \A i \in 1..base : t.blocks[i] = bc.blocks[i]
  BY <1>1, PrefixIsSeq DEF Truncate
<1>4. /\ t.work \in Seq(Word) /\ Len(t.work) = base
      /\ \A i \in 1..base : t.work[i] = bc.work[i]
  BY <1>1, <1>2, PrefixIsSeq DEF Truncate
<1>5. t.blocks = SubSeq(bc.blocks, 1, base) /\ size(t) = base
  BY <1>3 DEF Truncate, size
<1>6. t.height_by_hash = [h \in DOMAIN bc.height_by_hash \
                            {bc.blocks[i] : i \in (base + 1)..n} |-> bc.height_by_hash[h]]
  BY DEF Truncate
<1> HIDE DEF t
<1>7. t.blocks = History[latest(t)] /\ t.blocks[1] = Genesis
  <2>1. latest(t) = bc.blocks[base]
    BY <1>1, <1>3, <1>5 DEF latest
  <2>2. History[bc.blocks[base]] = SubSeq(bc.blocks, 1, base)
    BY <1>1, ChainFacts
  <2>3. bc.blocks[1] = Genesis
    BY DEF GoodChain, Intact
  <2> QED BY <1>1, <1>3, <1>5, <2>1, <2>2, <2>3
<1>8. DOMAIN t.height_by_hash = {t.blocks[i] : i \in 1..base}
  <2>1. DOMAIN bc.height_by_hash = {bc.blocks[i] : i \in 1..n}
    BY DEF GoodChain, Intact
  <2>2. \A i, j \in 1..n : bc.blocks[i] = bc.blocks[j] => i = j
    BY ChainFacts
  <2>3. \A i \in 1..base : i \in 1..n /\ \A j \in (base + 1)..n : j \in 1..n /\ i # j
    BY <1>1
  <2>4. \A i \in 1..n : i \in 1..base \/ i \in (base + 1)..n
    BY <1>1
  <2>5. DOMAIN t.height_by_hash = {bc.blocks[i] : i \in 1..n} \ {bc.blocks[i] : i \in (base + 1)..n}
    BY <1>6, <2>1
  <2>6. \A i \in 1..base : t.blocks[i] \in DOMAIN t.height_by_hash
    <3> SUFFICES ASSUME NEW i \in 1..base PROVE t.blocks[i] \in DOMAIN t.height_by_hash
      OBVIOUS
    <3>1. t.blocks[i] = bc.blocks[i] /\ i \in 1..n
      BY <1>3, <2>3, Zenon
    <3>2. \A j \in (base + 1)..n : bc.blocks[j] # bc.blocks[i]
      BY <2>2, <2>3, <3>1, Zenon
    <3> QED BY <2>5, <3>1, <3>2, Zenon
  <2>7. \A x \in DOMAIN t.height_by_hash : \E i \in 1..base : x = t.blocks[i]
    BY <1>3, <2>4, <2>5, Zenon
  <2> QED BY <2>6, <2>7, Zenon
<1>9. \A i \in 1..base : t.height_by_hash[t.blocks[i]] = i - 1
  <2>1. \A i \in 1..n : bc.height_by_hash[bc.blocks[i]] = i - 1
    BY DEF GoodChain, Intact
  <2>2. \A i \in 1..base : i \in 1..n /\ t.blocks[i] \in DOMAIN t.height_by_hash
    BY <1>1, <1>8
  <2> QED BY <1>3, <1>6, <2>1, <2>2
<1>10. t.work[1] = 0 /\ \A i \in 2..base :
         t.work[i] = Add64(t.work[i - 1], block_work(Blk[t.blocks[i]]))
  <2>1. bc.work[1] = 0 /\ \A i \in 2..n :
          bc.work[i] = Add64(bc.work[i - 1], block_work(Blk[bc.blocks[i]]))
    BY DEF GoodChain, Intact
  <2>2. 1 \in 1..base /\ \A i \in 2..base : i \in 2..n /\ i \in 1..base /\ i - 1 \in 1..base
    BY <1>1
  <2> QED BY <1>3, <1>4, <2>1, <2>2
<1>11. t.height_by_hash \in [DOMAIN t.height_by_hash -> Nat]
  BY <1>6 DEF GoodChain
<1>12. GoodChain(t)
  <2>1. size(t) >= 1
    BY <1>1, <1>5
  <2> QED BY <1>3, <1>4, <1>5, <1>7, <1>8, <1>9, <1>10, <1>11, <2>1 DEF GoodChain, Intact
<1> QED BY <1>1, <1>4, <1>5, <1>12 DEF t

IsHistory(s) == s = History[s[Len(s)]]

(* Joining a branch to a good chain gives a good chain, provided the       *)
(* result is the history of its last block.                                *)
LEMMA AddBlocksGood ==
  ASSUME NEW bc, GoodChain(bc), NEW branch \in Seq(Hash), IsHistory(bc.blocks \o branch)
  PROVE  /\ GoodChain(AddBlocks(bc, branch))
         /\ AddBlocks(bc, branch).blocks = bc.blocks \o branch
         /\ size(AddBlocks(bc, branch)) = size(bc) + Len(branch)
         /\ AddBlocks(bc, branch).work[size(bc) + Len(branch)] =
              BranchWork(bc.work[size(bc)], branch)[Len(branch)]
<1> DEFINE all == bc.blocks \o branch
           n == size(bc)
           m == Len(branch)
           w == BranchWork(bc.work[n], branch)
           new == [i \in DOMAIN branch |-> w[i]]
           a == AddBlocks(bc, branch)
           added == {branch[i] : i \in DOMAIN branch}
<1>1. /\ n \in Nat \ {0} /\ bc.blocks \in Seq(Hash) /\ Len(bc.blocks) = n /\ n \in 1..n
      /\ m \in Nat /\ DOMAIN branch = 1..m
  BY ChainFacts DEF GoodChain, size
<1>2. bc.work \in Seq(Word) /\ Len(bc.work) = n
  BY DEF GoodChain, Intact
<1>3. /\ all \in Seq(Hash) /\ Len(all) = n + m
      /\ \A i \in 1..n : all[i] = bc.blocks[i]
      /\ \A i \in (n + 1)..(n + m) : all[i] = branch[i - n]
  <2> DEFINE p == bc.blocks
  <2>1. p \in Seq(Hash) /\ Len(p) = n /\ Len(branch) = m
    BY <1>1
  <2> HIDE DEF p, n, m
  <2>2. /\ p \o branch \in Seq(Hash) /\ Len(p \o branch) = Len(p) + Len(branch)
        /\ \A i \in 1..Len(p) : (p \o branch)[i] = p[i]
        /\ \A i \in (Len(p) + 1)..(Len(p) + Len(branch)) :
             (p \o branch)[i] = branch[i - Len(p)]
    BY <2>1, Join
  <2>3. all = p \o branch
    BY DEF p
  <2> HIDE DEF all
  <2>4. \A i \in 1..n : all[i] = p[i]
    BY <2>1, <2>2, <2>3
  <2> QED BY <2>1, <2>2, <2>3, <2>4 DEF p
<1>0. all = History[all[Len(all)]]
  BY DEF IsHistory
<1> HIDE DEF all
<1>4. \A i, j \in 1..(n + m) : all[i] = all[j] => i = j
  <2>1. n + m \in 1..(n + m)
    BY <1>1
  <2>2. all[Len(all)] \in Hash
    BY <1>3, <2>1
  <2>3. \A i, j \in 1..Len(all) : all[i] = all[j] => i = j
    BY <1>0, <2>2, HistoryFacts
  <2> QED BY <1>3, <2>3
<1>5. w \in [0..m -> Word] /\ w[0] = bc.work[n] /\ \A i \in 1..m :
        w[i] = Add64(w[i - 1], block_work(Blk[branch[i]]))
  <2>1. bc.work[n] \in Word
    BY <1>1, <1>2
  <2> QED BY <2>1, BranchWorkDef
<1>6. a.blocks = all /\ a.work = bc.work \o new
  BY DEF AddBlocks, all
<1>7. a.height_by_hash =
        [h \in DOMAIN bc.height_by_hash \cup added |->
           IF h \in added THEN n - 1 + (CHOOSE i \in DOMAIN branch : branch[i] = h)
           ELSE bc.height_by_hash[h]]
  BY DEF AddBlocks
<1> HIDE DEF w, a, n, m
<1>8. new \in Seq(Word) /\ Len(new) = m /\ \A i \in 1..m : new[i] = w[i]
  <2>1. \A i \in 1..m : w[i] \in Word
    BY <1>1, <1>5
  <2>2. new = [i \in 1..m |-> w[i]]
    BY <1>1
  <2> QED BY <1>1, <2>1, <2>2
<1> HIDE DEF new
<1>9. /\ a.work \in Seq(Word) /\ Len(a.work) = n + m
      /\ \A i \in 1..n : a.work[i] = bc.work[i]
      /\ \A i \in (n + 1)..(n + m) : a.work[i] = new[i - n]
  <2> DEFINE p == bc.work
  <2>1. p \in Seq(Word) /\ Len(p) = n
    BY <1>2
  <2>2. a.work = p \o new
    BY <1>6
  <2> HIDE DEF p
  <2>3. /\ p \o new \in Seq(Word) /\ Len(p \o new) = Len(p) + Len(new)
        /\ \A i \in 1..Len(p) : (p \o new)[i] = p[i]
        /\ \A i \in (Len(p) + 1)..(Len(p) + Len(new)) : (p \o new)[i] = new[i - Len(p)]
    <3>1. p \in Seq(Word) /\ new \in Seq(Word)
      BY <1>8, <2>1
    <3> QED BY <3>1, Join
  <2>4. \A i \in 1..n : a.work[i] = p[i]
    BY <2>1, <2>2, <2>3
  <2> QED BY <1>8, <2>1, <2>2, <2>3, <2>4 DEF p
<1>10. a.work[1] = 0 /\ \A i \in 2..(n + m) :
         a.work[i] = Add64(a.work[i - 1], block_work(Blk[all[i]]))
  <2>1. bc.work[1] = 0 /\ \A i \in 2..n :
          bc.work[i] = Add64(bc.work[i - 1], block_work(Blk[bc.blocks[i]]))
    BY DEF GoodChain, Intact, n
  <2>2. a.work[1] = 0
    BY <1>1, <1>9, <2>1
  <2>3. ASSUME NEW i \in 2..(n + m)
        PROVE  a.work[i] = Add64(a.work[i - 1], block_work(Blk[all[i]]))
    <3>1. CASE i <= n
      <4>1. i \in 2..n /\ i \in 1..n /\ i - 1 \in 1..n
        BY <1>1, <3>1
      <4> QED BY <1>3, <1>9, <2>1, <4>1
    <3>2. CASE i > n
      <4> DEFINE j == i - n
      <4>1. i \in (n + 1)..(n + m) /\ j \in 1..m
        BY <1>1, <3>2
      <4>2. a.work[i] = Add64(w[j - 1], block_work(Blk[branch[j]])) /\ all[i] = branch[j]
        BY <1>3, <1>5, <1>8, <1>9, <4>1
      <4>3. a.work[i - 1] = w[j - 1]
        <5>1. CASE j = 1
          <6>1. i - 1 = n /\ j - 1 = 0
            BY <1>1, <5>1
          <6> QED BY <1>1, <1>5, <1>9, <6>1
        <5>2. CASE j # 1
          <6>1. i - 1 \in (n + 1)..(n + m) /\ (i - 1) - n = j - 1 /\ j - 1 \in 1..m
            BY <1>1, <4>1, <5>2
          <6>2. a.work[i - 1] = new[(i - 1) - n]
            BY <1>9, <6>1
          <6> QED BY <1>8, <6>1, <6>2
        <5> QED BY <5>1, <5>2
      <4> HIDE DEF j
      <4> QED BY <4>2, <4>3
    <3> QED BY <1>1, <3>1, <3>2
  <2> QED BY <2>2, <2>3
<1>11. ASSUME NEW i \in 1..(n + m)
       PROVE  /\ all[i] \in DOMAIN bc.height_by_hash \cup added
              /\ a.height_by_hash[all[i]] = i - 1
  <2>1. CASE i <= n
    <3>1. i \in 1..n /\ all[i] = bc.blocks[i]
      BY <1>1, <1>3, <2>1
    <3>2. all[i] \in DOMAIN bc.height_by_hash /\ bc.height_by_hash[all[i]] = i - 1
      BY <3>1 DEF GoodChain, Intact, n
    <3>3. all[i] \notin added
      <4> SUFFICES ASSUME NEW j \in 1..m, all[i] = branch[j] PROVE FALSE
        BY <1>1
      <4>1. n + j \in (n + 1)..(n + m) /\ (n + j) - n = j /\ n + j \in 1..(n + m) /\ i # n + j
        BY <1>1, <2>1
      <4>2. all[n + j] = branch[(n + j) - n]
        BY <1>3, <4>1
      <4> QED BY <1>4, <4>1, <4>2
    <3> QED BY <1>7, <3>2, <3>3
  <2>2. CASE i > n
    <3> DEFINE j == i - n
    <3>1. i \in (n + 1)..(n + m) /\ j \in 1..m /\ n - 1 + j = i - 1
      BY <1>1, <2>2
    <3>2. all[i] = branch[j] /\ j \in DOMAIN branch
      BY <1>1, <1>3, <3>1
    <3>3. all[i] \in added
      BY <3>2
    <3>4. ASSUME NEW k \in DOMAIN branch, branch[k] = all[i] PROVE k = j
      <4>1. k \in 1..m
        BY <1>1
      <4>2. n + k \in (n + 1)..(n + m) /\ (n + k) - n = k /\ n + k \in 1..(n + m)
        BY <1>1, <4>1
      <4>3. all[n + k] = all[i]
        BY <1>3, <3>4, <4>2
      <4>4. n + k = i
        BY <1>4, <4>2, <4>3
      <4> QED BY <1>1, <4>1, <4>4
    <3>5. (CHOOSE k \in DOMAIN branch : branch[k] = all[i]) = j
      <4> HIDE DEF j
      <4> QED BY <3>2, <3>4
    <3> HIDE DEF j
    <3> QED BY <1>7, <3>1, <3>3, <3>5
  <2> QED BY <1>1, <2>1, <2>2
<1>12. DOMAIN a.height_by_hash = {all[i] : i \in 1..(n + m)}
  <2>1. DOMAIN a.height_by_hash = DOMAIN bc.height_by_hash \cup added
    BY <1>7
  <2>2. ASSUME NEW h \in DOMAIN bc.height_by_hash PROVE h \in {all[i] : i \in 1..(n + m)}
    <3>1. PICK i \in 1..n : h = bc.blocks[i]
      BY DEF GoodChain, Intact, n
    <3>2. i \in 1..(n + m) /\ all[i] = h
      BY <1>1, <1>3, <3>1
    <3> QED BY <3>2
  <2>3. ASSUME NEW j \in 1..m PROVE branch[j] \in {all[i] : i \in 1..(n + m)}
    <3>1. n + j \in (n + 1)..(n + m) /\ (n + j) - n = j /\ n + j \in 1..(n + m)
      BY <1>1
    <3>2. all[n + j] = branch[j]
      BY <1>3, <3>1
    <3> QED BY <3>1, <3>2
  <2>4. added \subseteq {all[i] : i \in 1..(n + m)}
    BY <1>1, <2>3
  <2>5. {all[i] : i \in 1..(n + m)} \subseteq DOMAIN bc.height_by_hash \cup added
    <3> HIDE DEF added
    <3> QED BY <1>11
  <2> HIDE DEF added
  <2> QED BY <2>1, <2>2, <2>4, <2>5
<1>13. a.height_by_hash \in [DOMAIN a.height_by_hash -> Nat]
  <2>1. \A h \in DOMAIN a.height_by_hash : a.height_by_hash[h] \in Nat
    BY <1>1, <1>11, <1>12
  <2>2. a.height_by_hash = [h \in DOMAIN a.height_by_hash |-> a.height_by_hash[h]]
    BY <1>7
  <2> QED BY <2>1, <2>2
<1>14. size(a) = n + m /\ size(a) >= 1 /\ latest(a) = all[n + m]
  BY <1>1, <1>3, <1>6 DEF size, latest
<1>15. GoodChain(a)
  <2>1. a.blocks = History[latest(a)]
    BY <1>0, <1>3, <1>6, <1>14
  <2>2. a.blocks[1] = Genesis
    <3>1. bc.blocks[1] = Genesis
      BY DEF GoodChain, Intact
    <3> QED BY <1>1, <1>3, <1>6, <3>1
  <2>3. /\ DOMAIN a.height_by_hash = {a.blocks[i] : i \in 1..size(a)}
        /\ \A i \in 1..size(a) : a.height_by_hash[a.blocks[i]] = i - 1
    BY <1>6, <1>11, <1>12, <1>14
  <2>4. /\ Len(a.work) = size(a) /\ a.work[1] = 0
        /\ \A i \in 2..size(a) :
             a.work[i] = Add64(a.work[i - 1], block_work(Blk[a.blocks[i]]))
    BY <1>6, <1>9, <1>10, <1>14
  <2>5. Intact(a)
    BY <2>1, <2>2, <2>3, <2>4 DEF Intact
  <2> QED BY <1>3, <1>6, <1>9, <1>13, <1>14, <2>5 DEF GoodChain
<1>16. a.work[n + m] = w[m]
  <2>1. CASE m = 0
    BY <1>1, <1>5, <1>9, <2>1
  <2>2. CASE m # 0
    <3>1. n + m \in (n + 1)..(n + m) /\ (n + m) - n = m /\ m \in 1..m
      BY <1>1, <2>2
    <3>2. a.work[n + m] = new[(n + m) - n]
      BY <1>9, <3>1
    <3> QED BY <1>8, <3>1, <3>2
  <2> QED BY <2>1, <2>2
<1> QED BY <1>6, <1>14, <1>15, <1>16 DEF a, n, m, w, all

-----------------------------------------------------------------------------
(* Header rules                                                            *)

(* next_difficulty and median_time_past read only the blocks below the     *)
(* height they are asked about.                                            *)
LEMMA DifficultyLocal ==
  ASSUME NEW height \in Nat \ {0}, NEW hs, NEW gs, \A j \in 1..height : hs[j] = gs[j]
  PROVE  next_difficulty(height, hs) = next_difficulty(height, gs)
<1>1. retarget_interval \in Nat
  BY ConsensusAssumption
<1>2. hs[height] = gs[height]
  OBVIOUS
<1>3. CASE retarget_interval < 2 \/ height <= retarget_interval
  BY <1>3 DEF next_difficulty
<1>4. CASE ~(retarget_interval < 2 \/ height <= retarget_interval)
  <2> DEFINE k == height - retarget_interval + 1
  <2>1. k \in 1..height
    BY <1>1, <1>4
  <2>2. hs[k] = gs[k]
    BY <2>1
  <2> QED BY <1>2, <1>4, <2>2 DEF next_difficulty
<1> QED BY <1>3, <1>4

(* median_time_past at a height depends only on the blocks below it.       *)
LEMMA MedianLocal ==
  ASSUME NEW height \in Nat, NEW hs, NEW gs, \A j \in 1..height : hs[j] = gs[j]
  PROVE  median_time_past(height, hs) = median_time_past(height, gs)
<1> DEFINE low == Max({height - mtp_window, 0})
           window == (low + 1)..height
<1>1. low \in Nat
  <2>1. height - mtp_window \in Int
    BY ConsensusAssumption
  <2> QED BY <2>1 DEF Max
<1> HIDE DEF low
<1>2. window \subseteq 1..height
  BY <1>1
<1> HIDE DEF window
<1>3. [i \in window |-> hs[i].time] = [i \in window |-> gs[i].time]
  BY <1>2
<1> QED BY <1>3 DEF median_time_past, window, low

-----------------------------------------------------------------------------
(* Forks                                                                   *)

(* A branch that sits on the first `base' blocks of the chain: with them,  *)
(* each beginning of it is the history of its last block.                  *)
IsFork(bc, fork) ==
  /\ fork \in [base : 1..size(bc), blocks : Seq(Hash)]
  /\ Len(fork.blocks) >= 1
  /\ \A k \in 1..Len(fork.blocks) :
       SubSeq(bc.blocks, 1, fork.base) \o SubSeq(fork.blocks, 1, k) = History[fork.blocks[k]]

(* Whatever build_fork_chain traces is such a branch.                      *)
LEMMA BuiltIsFork ==
  ASSUME NEW bc, GoodChain(bc), NEW pool, NEW tip \in Hash,
         NEW fork \in build_fork_chain(bc, pool, tip)
  PROVE  IsFork(bc, fork)
<1> DEFINE past == History[tip]
           len == Len(past)
<1>1. /\ past \in Seq(Hash) /\ len \in Nat \ {0} /\ len = Len(past)
      /\ \A i \in 1..len : History[past[i]] = SubSeq(past, 1, i)
  BY HistoryFacts
<1>2. PICK n \in 1..(len - 1) :
        /\ has_block(bc, past[len - n])
        /\ fork = [base |-> bc.height_by_hash[past[len - n]] + 1,
                   blocks |-> SubSeq(past, len - n + 1, len)]
  BY DEF build_fork_chain, Attach
<1> HIDE DEF past, len
<1> DEFINE b == len - n
           base == bc.height_by_hash[past[b]] + 1
<1>3. b \in 1..len /\ b \in 0..len /\ b + 1 <= len /\ len - b >= 1
  BY <1>1
<1>4. base \in 1..size(bc) /\ bc.blocks[base] = past[b] /\ bc.blocks \in Seq(Hash)
      /\ size(bc) = Len(bc.blocks)
  BY <1>2, ChainFacts DEF GoodChain, size
<1>5. SubSeq(bc.blocks, 1, base) = SubSeq(past, 1, b)
  <2>1. History[bc.blocks[base]] = SubSeq(bc.blocks, 1, base)
    BY <1>4, ChainFacts
  <2>2. History[past[b]] = SubSeq(past, 1, b)
    BY <1>1, <1>3
  <2> QED BY <1>4, <2>1, <2>2
<1>6. /\ SubSeq(past, 1, b) \in Seq(Hash) /\ Len(SubSeq(past, 1, b)) = b
      /\ \A i \in 1..b : SubSeq(past, 1, b)[i] = past[i]
  BY <1>1, <1>3, PrefixIsSeq
<1> DEFINE br == SubSeq(past, b + 1, len)
<1>7. br \in Seq(Hash) /\ Len(br) = len - b /\ \A i \in 1..(len - b) : br[i] = past[i + b]
  BY <1>1, <1>3, Piece
<1>8. fork = [base |-> base, blocks |-> br]
  BY <1>2
<1> HIDE DEF b, base, br
<1>9. ASSUME NEW k \in 1..(len - b)
      PROVE  SubSeq(past, 1, b) \o SubSeq(br, 1, k) = History[br[k]]
  <2> DEFINE l == SubSeq(past, 1, b)
             r == SubSeq(br, 1, k)
             c == SubSeq(past, 1, b + k)
  <2>1. History[br[k]] = c
    <3>1. k + b \in 1..len /\ k + b = b + k
      BY <1>1, <1>3
    <3> QED BY <1>1, <1>7, <3>1
  <2>2. r \in Seq(Hash) /\ Len(r) = k /\ \A i \in 1..k : r[i] = br[i]
    <3>1. k \in 0..Len(br)
      BY <1>1, <1>3, <1>7
    <3> QED BY <1>7, <3>1, PrefixIsSeq
  <2>3. c \in Seq(Hash) /\ Len(c) = b + k /\ \A i \in 1..(b + k) : c[i] = past[i]
    <3>1. b + k \in 0..Len(past)
      BY <1>1, <1>3
    <3> QED BY <1>1, <3>1, PrefixIsSeq
  <2>4. l \in Seq(Hash) /\ Len(l) = b /\ \A i \in 1..b : l[i] = past[i]
    BY <1>6
  <2> HIDE DEF l, r, c
  <2>5. l \o r = c
    <3>1. /\ l \o r \in Seq(Hash) /\ Len(l \o r) = b + k
          /\ \A i \in 1..b : (l \o r)[i] = l[i]
          /\ \A i \in (b + 1)..(b + k) : (l \o r)[i] = r[i - b]
      BY <1>3, <2>2, <2>4
    <3>2. ASSUME NEW i \in 1..(b + k) PROVE (l \o r)[i] = c[i]
      <4>1. CASE i <= b
        <5>1. i \in 1..b
          BY <1>3, <4>1
        <5> QED BY <2>3, <2>4, <3>1, <5>1
      <4>2. CASE i > b
        <5>1. i \in (b + 1)..(b + k) /\ i - b \in 1..k /\ i - b \in 1..(len - b) /\ (i - b) + b = i
          BY <1>1, <1>3, <4>2
        <5>2. r[i - b] = past[(i - b) + b]
          BY <1>7, <2>2, <5>1
        <5> QED BY <2>3, <3>1, <5>1, <5>2
      <4>3. i <= b \/ i > b
        BY <1>1, <1>3
      <4> QED BY <4>1, <4>2, <4>3
    <3> DEFINE s == l \o r
    <3>3. /\ s \in Seq(Hash) /\ Len(s) = Len(c)
          /\ \A i \in 1..Len(s) : s[i] = c[i]
      BY <2>3, <3>1, <3>2
    <3> HIDE DEF s
    <3>4. s = c
      BY <2>3, <3>3, SameSeq
    <3> QED BY <3>4 DEF s
  <2> QED BY <2>1, <2>5 DEF l, r
<1>10. fork.base = base /\ fork.blocks = br
  BY <1>8
<1>11. Len(br) >= 1
  BY <1>1, <1>3, <1>7
<1> QED BY <1>4, <1>5, <1>7, <1>8, <1>9, <1>10, <1>11 DEF IsFork

(* Cutting a branch to its valid prefix leaves a branch, on the same base, *)
(* every block of which obeys the header rules where it stands.            *)
LEMMA ValidPartIsFork ==
  ASSUME NEW bc, NEW f, IsFork(bc, f), NEW now, NEW g \in ValidPart(bc, f, now)
  PROVE  /\ IsFork(bc, g) /\ g.base = f.base
         /\ Len(g.blocks) <= Len(f.blocks)
         /\ \A i \in 1..Len(g.blocks) :
              /\ g.blocks[i] = f.blocks[i]
              /\ HeaderIsValid(Blk[f.blocks[i]], f.base + i - 1, now,
                               Headers(SubSeq(bc.blocks, 1, f.base) \o f.blocks))
<1> DEFINE hs == Headers(SubSeq(bc.blocks, 1, f.base) \o f.blocks)
           m == Len(f.blocks)
           bad == {i \in DOMAIN f.blocks :
                     ~HeaderIsValid(Blk[f.blocks[i]], f.base + i - 1, now, hs)}
           n == valid_prefix_length(bc, f, now)
<1>1. /\ f \in [base : 1..size(bc), blocks : Seq(Hash)] /\ m \in Nat
      /\ DOMAIN f.blocks = 1..m /\ m >= 1 /\ f.blocks \in Seq(Hash)
  BY DEF IsFork
<1>2. n = IF bad = {} THEN m ELSE Min(bad) - 1
  BY DEF valid_prefix_length
<1>3. n # 0 /\ g = [f EXCEPT !.blocks = SubSeq(@, 1, n)]
  BY DEF ValidPart
<1>4. \A i \in 1..m : i \notin bad => HeaderIsValid(Blk[f.blocks[i]], f.base + i - 1, now, hs)
  BY <1>1
<1>5. bad \subseteq 1..m
  BY <1>1
<1> HIDE DEF bad, n, hs, m
<1>6. n \in 1..m /\ \A i \in 1..n : i \notin bad
  <2>1. CASE bad = {}
    BY <1>1, <1>2, <2>1
  <2>2. CASE bad # {}
    <3>1. bad \subseteq Nat
      BY <1>1, <1>5
    <3>2. Min(bad) \in bad /\ \A y \in bad : Min(bad) <= y
      BY <2>2, <3>1, MinIsLeast
    <3>3. Min(bad) \in 1..m
      BY <1>5, <3>2
    <3> QED BY <1>1, <1>2, <1>3, <2>2, <3>2, <3>3
  <2> QED BY <2>1, <2>2
<1> DEFINE p == SubSeq(f.blocks, 1, n)
<1>7. p \in Seq(Hash) /\ Len(p) = n /\ \A i \in 1..n : p[i] = f.blocks[i]
  <2>1. n \in 0..Len(f.blocks)
    BY <1>1, <1>6 DEF m
  <2> QED BY <1>1, <2>1, PrefixIsSeq
<1>8. g.blocks = p /\ g.base = f.base /\ g \in [base : 1..size(bc), blocks : Seq(Hash)]
  BY <1>1, <1>3, <1>7
<1>9. ASSUME NEW k \in 1..n
      PROVE  SubSeq(bc.blocks, 1, f.base) \o SubSeq(p, 1, k) = History[p[k]]
  <2>1. k \in 1..m /\ k \in 0..Len(f.blocks) /\ n \in 0..Len(f.blocks) /\ k \in 0..n
    BY <1>1, <1>6 DEF m
  <2>2. SubSeq(p, 1, k) = SubSeq(f.blocks, 1, k)
    <3> DEFINE u == SubSeq(p, 1, k)
               v == SubSeq(f.blocks, 1, k)
    <3>1. v \in Seq(Hash) /\ Len(v) = k /\ \A i \in 1..k : v[i] = f.blocks[i]
      BY <1>1, <2>1, PrefixIsSeq
    <3> HIDE DEF p
    <3>2. u \in Seq(Hash) /\ Len(u) = k /\ \A i \in 1..k : u[i] = p[i]
      BY <1>7, <2>1, PrefixIsSeq
    <3> HIDE DEF u, v
    <3>3. \A i \in 1..k : i \in 1..n
      BY <1>6
    <3>4. u = v
      BY <1>7, <3>1, <3>2, <3>3, SameSeq
    <3> QED BY <3>4 DEF u, v
  <2>3. SubSeq(bc.blocks, 1, f.base) \o SubSeq(f.blocks, 1, k) = History[f.blocks[k]]
    BY <2>1 DEF IsFork, m
  <2> QED BY <1>7, <2>2, <2>3
<1> HIDE DEF p
<1>10. IsFork(bc, g)
  <2>1. Len(g.blocks) >= 1
    BY <1>1, <1>6, <1>7, <1>8
  <2> QED BY <1>7, <1>8, <1>9, <2>1 DEF IsFork
<1>11. \A i \in 1..n : i \in 1..m
  BY <1>1, <1>6
<1>12. n <= m
  BY <1>1, <1>6
<1> QED BY <1>4, <1>6, <1>7, <1>8, <1>10, <1>11, <1>12 DEF hs, m

(* Moving the chain onto a branch gives a good chain whose tip has the     *)
(* work the branch was weighed at.                                         *)
LEMMA ReorgGood ==
  ASSUME NEW bc, GoodChain(bc), NEW f, IsFork(bc, f)
  PROVE  /\ GoodChain(reorganize_to(bc, f))
         /\ reorganize_to(bc, f).blocks = SubSeq(bc.blocks, 1, f.base) \o f.blocks
         /\ size(reorganize_to(bc, f)) = f.base + Len(f.blocks)
         /\ reorganize_to(bc, f).work[f.base + Len(f.blocks)] = fork_work(bc, f)
<1> DEFINE t == Truncate(bc, f.base)
           all == SubSeq(bc.blocks, 1, f.base) \o f.blocks
<1>1. f.base \in 1..size(bc) /\ f.blocks \in Seq(Hash) /\ Len(f.blocks) \in Nat \ {0}
  BY DEF IsFork
<1>2. /\ GoodChain(t) /\ t.blocks = SubSeq(bc.blocks, 1, f.base) /\ size(t) = f.base
      /\ t.work[f.base] = bc.work[f.base]
  BY <1>1, TruncateGood
<1>3. IsHistory(t.blocks \o f.blocks)
  <2> DEFINE m == Len(f.blocks)
  <2>1. m \in 1..m /\ SubSeq(f.blocks, 1, m) = f.blocks
    BY <1>1
  <2>2. all = History[f.blocks[m]]
    BY <2>1 DEF IsFork
  <2>3. all[Len(all)] = f.blocks[m]
    <3>1. f.blocks[m] \in Hash
      BY <1>1
    <3> QED BY <2>2, <3>1, HistoryFacts
  <2>4. all = History[all[Len(all)]]
    <3> HIDE DEF all, m
    <3> QED BY <2>2, <2>3
  <2> QED BY <1>2, <2>4 DEF IsHistory
<1> HIDE DEF t
<1>4. reorganize_to(bc, f) = AddBlocks(t, f.blocks)
  BY DEF reorganize_to, t
<1>5. /\ GoodChain(AddBlocks(t, f.blocks))
      /\ AddBlocks(t, f.blocks).blocks = t.blocks \o f.blocks
      /\ size(AddBlocks(t, f.blocks)) = size(t) + Len(f.blocks)
      /\ AddBlocks(t, f.blocks).work[size(t) + Len(f.blocks)] =
           BranchWork(t.work[size(t)], f.blocks)[Len(f.blocks)]
  BY <1>1, <1>2, <1>3, AddBlocksGood
<1> QED BY <1>2, <1>4, <1>5 DEF fork_work

(* The blocks of a chain above the first `base' were checked against       *)
(* headers that agree with the chain below each of them.                   *)
CheckedAbove(base, blocks, now, ws) ==
  \A i \in (base + 1)..Len(blocks) :
    /\ \A j \in 1..(i - 1) : ws[j] = Blk[blocks[j]]
    /\ HeaderIsValid(Blk[blocks[i]], i - 1, now, ws)

(* A chain that keeps the first blocks of one that obeys the rules, and    *)
(* whose other blocks were checked against headers that agree with it,     *)
(* obeys the rules.                                                        *)
LEMMA RulesCarryOver ==
  ASSUME NEW old \in Seq(Hash), NEW new \in Seq(Hash), NEW base \in 1..Len(old),
         base <= Len(new), \A i \in 1..base : new[i] = old[i],
         ObeysRules(old), NEW now, NEW ws, CheckedAbove(base, new, now, ws)
  PROVE  ObeysRules(new)
<1> DEFINE hs == Headers(new)
           os == Headers(old)
<1>1. Len(new) \in Nat /\ Len(old) \in Nat /\ base \in Nat
  OBVIOUS
<1>2. /\ \A i \in 1..Len(new) : hs[i] = Blk[new[i]]
      /\ \A i \in 1..Len(old) : os[i] = Blk[old[i]]
  BY DEF Headers
<1>3. \A i \in 2..Len(old) : /\ os[i].difficulty = next_difficulty(i - 1, os)
                             /\ os[i].time > median_time_past(i - 1, os)
  BY DEF ObeysRules
<1> HIDE DEF hs, os
<1>4. ASSUME NEW i \in 2..Len(new)
      PROVE  hs[i].difficulty = next_difficulty(i - 1, hs) /\ hs[i].time > median_time_past(i - 1, hs)
  <2>1. i - 1 \in Nat \ {0} /\ i \in 1..Len(new) /\ \A j \in 1..(i - 1) : j \in 1..Len(new)
    BY <1>1
  <2>2. CASE i <= base
    <3>1. i \in 2..Len(old) /\ i \in 1..base /\ \A j \in 1..i : j \in 1..base /\ j \in 1..Len(old)
      BY <1>1, <2>2
    <3>2. hs[i] = os[i] /\ \A j \in 1..(i - 1) : hs[j] = os[j]
      <4>1. \A j \in 1..(i - 1) : j \in 1..i
        BY <1>1
      <4>2. \A j \in 1..i : hs[j] = Blk[new[j]]
        BY <1>1, <1>2
      <4>3. \A j \in 1..i : os[j] = Blk[old[j]]
        BY <1>2, <3>1
      <4>4. \A j \in 1..i : new[j] = old[j]
        BY <3>1
      <4>5. ASSUME NEW j \in 1..i PROVE hs[j] = os[j]
        <5>1. hs[j] = Blk[new[j]] /\ os[j] = Blk[old[j]] /\ new[j] = old[j]
          BY <4>2, <4>3, <4>4
        <5> QED BY <5>1, Zenon
      <4>6. i \in 1..i
        BY <1>1
      <4> QED BY <4>1, <4>5, <4>6, Zenon
    <3>3. next_difficulty(i - 1, hs) = next_difficulty(i - 1, os)
      BY <2>1, <3>2, DifficultyLocal
    <3>4. median_time_past(i - 1, hs) = median_time_past(i - 1, os)
      BY <2>1, <3>2, MedianLocal
    <3> QED BY <1>3, <3>1, <3>2, <3>3, <3>4
  <2>3. CASE i > base
    <3>1. i \in (base + 1)..Len(new)
      BY <1>1, <2>3
    <3>2. \A j \in 1..(i - 1) : hs[j] = ws[j]
      BY <1>2, <2>1, <3>1 DEF CheckedAbove
    <3>3. next_difficulty(i - 1, hs) = next_difficulty(i - 1, ws)
      BY <2>1, <3>2, DifficultyLocal
    <3>4. median_time_past(i - 1, hs) = median_time_past(i - 1, ws)
      BY <2>1, <3>2, MedianLocal
    <3>5. HeaderIsValid(hs[i], i - 1, now, ws)
      BY <1>2, <2>1, <3>1 DEF CheckedAbove
    <3> QED BY <3>3, <3>4, <3>5 DEF HeaderIsValid, timestamp_is_valid
  <2>4. i <= base \/ i > base
    BY <1>1
  <2> QED BY <2>2, <2>3, <2>4
<1> QED BY <1>4 DEF ObeysRules, hs

(* The valid prefix of a branch keeps the rules of the chain it joins.     *)
LEMMA ValidPartObeysRules ==
  ASSUME NEW bc, GoodChain(bc), ObeysRules(bc.blocks), NEW f, IsFork(bc, f),
         NEW now, NEW g \in ValidPart(bc, f, now)
  PROVE  ObeysRules(SubSeq(bc.blocks, 1, g.base) \o g.blocks)
<1> DEFINE b == f.base
           lower == SubSeq(bc.blocks, 1, b)
           all == lower \o f.blocks
           new == lower \o g.blocks
           ws == Headers(all)
           m == Len(g.blocks)
<1>1. /\ IsFork(bc, g) /\ g.base = b /\ m <= Len(f.blocks)
      /\ \A i \in 1..m : /\ g.blocks[i] = f.blocks[i]
                         /\ HeaderIsValid(Blk[f.blocks[i]], b + i - 1, now, ws)
  BY ValidPartIsFork
<1>2. /\ b \in 1..Len(bc.blocks) /\ f.blocks \in Seq(Hash) /\ g.blocks \in Seq(Hash)
      /\ bc.blocks \in Seq(Hash) /\ m \in Nat /\ b \in Nat
  <2>1. /\ b \in 1..Len(bc.blocks) /\ f.blocks \in Seq(Hash)
        /\ bc.blocks \in Seq(Hash)
    BY DEF IsFork, GoodChain, size
  <2>2. g.blocks \in Seq(Hash)
    BY <1>1 DEF IsFork
  <2>3. m \in Nat /\ b \in Nat
    BY <2>1, <2>2
  <2> QED BY <2>1, <2>2, <2>3, Zenon
<1>3. lower \in Seq(Hash) /\ Len(lower) = b /\ \A i \in 1..b : lower[i] = bc.blocks[i]
  <2>1. b \in 0..Len(bc.blocks)
    BY <1>2
  <2> QED BY <1>2, <2>1, PrefixIsSeq
<1> DEFINE fb == f.blocks
           gb == g.blocks
<1> HIDE DEF lower, b, fb, gb
<1>4. /\ lower \o fb \in Seq(Hash) /\ Len(lower \o fb) = b + Len(fb)
      /\ \A i \in 1..b : (lower \o fb)[i] = lower[i]
      /\ \A i \in (b + 1)..(b + Len(fb)) : (lower \o fb)[i] = fb[i - b]
  <2>1. fb \in Seq(Hash)
    BY <1>2 DEF fb
  <2>2. /\ lower \o fb \in Seq(Hash) /\ Len(lower \o fb) = Len(lower) + Len(fb)
        /\ \A i \in 1..Len(lower) : (lower \o fb)[i] = lower[i]
        /\ \A i \in (Len(lower) + 1)..(Len(lower) + Len(fb)) :
             (lower \o fb)[i] = fb[i - Len(lower)]
    <3>1. lower \in Seq(Hash)
      BY <1>3
    <3> QED BY <2>1, <3>1, Join
  <2> QED BY <1>3, <2>2
<1>5. /\ lower \o gb \in Seq(Hash) /\ Len(lower \o gb) = b + Len(gb)
      /\ \A i \in 1..b : (lower \o gb)[i] = lower[i]
      /\ \A i \in (b + 1)..(b + Len(gb)) : (lower \o gb)[i] = gb[i - b]
  <2>1. gb \in Seq(Hash)
    BY <1>2 DEF gb
  <2>2. /\ lower \o gb \in Seq(Hash) /\ Len(lower \o gb) = Len(lower) + Len(gb)
        /\ \A i \in 1..Len(lower) : (lower \o gb)[i] = lower[i]
        /\ \A i \in (Len(lower) + 1)..(Len(lower) + Len(gb)) :
             (lower \o gb)[i] = gb[i - Len(lower)]
    <3>1. lower \in Seq(Hash)
      BY <1>3
    <3> QED BY <2>1, <3>1, Join
  <2> QED BY <1>3, <2>2
<1>6. all = lower \o fb /\ new = lower \o gb /\ m = Len(gb) /\ Len(fb) \in Nat
  BY <1>2 DEF fb, gb
<1>7. /\ m <= Len(fb) /\ \A i \in 1..m : gb[i] = fb[i]
      /\ m \in Nat /\ b \in Nat
  BY <1>1, <1>2 DEF fb, gb
<1>8. \A i \in 1..m : HeaderIsValid(Blk[fb[i]], b + i - 1, now, ws)
  BY <1>1 DEF fb
<1>9. \A i \in 1..Len(all) : ws[i] = Blk[all[i]]
  BY <1>4, <1>6 DEF Headers
<1> HIDE DEF all, new, ws, m
<1>10. ASSUME NEW i \in 1..(b + m)
       PROVE  ws[i] = Blk[new[i]]
  <2>1. i \in 1..Len(all)
    BY <1>4, <1>6, <1>7
  <2>2. new[i] = all[i]
    <3>1. CASE i <= b
      <4>1. i \in 1..b
        BY <1>7, <3>1
      <4> QED BY <1>4, <1>5, <1>6, <4>1
    <3>2. CASE i > b
      <4>1. i - b \in 1..m /\ i \in (b + 1)..(b + m) /\ i \in (b + 1)..(b + Len(fb))
        BY <1>6, <1>7, <3>2
      <4> QED BY <1>4, <1>5, <1>6, <1>7, <4>1
    <3> QED BY <1>7, <3>1, <3>2
  <2> QED BY <1>9, <2>1, <2>2
<1>11. ASSUME NEW i \in (b + 1)..(b + m)
       PROVE  /\ \A j \in 1..(i - 1) : ws[j] = Blk[new[j]]
              /\ HeaderIsValid(Blk[new[i]], i - 1, now, ws)
  <2> DEFINE k == i - b
  <2>1. k \in 1..m /\ b + k - 1 = i - 1
    BY <1>7
  <2>2. \A j \in 1..(i - 1) : j \in 1..(b + m)
    BY <1>7
  <2>3. new[i] = fb[k]
    BY <1>5, <1>6, <1>7, <2>1
  <2> HIDE DEF k
  <2>4. HeaderIsValid(Blk[fb[k]], b + k - 1, now, ws)
    BY <1>8, <2>1
  <2>5. HeaderIsValid(Blk[new[i]], i - 1, now, ws)
    BY <2>1, <2>3, <2>4, Zenon
  <2> QED BY <1>10, <2>2, <2>5
<1>12. b <= Len(new) /\ \A i \in 1..b : new[i] = bc.blocks[i]
  BY <1>3, <1>5, <1>6, <1>7
<1>13. ObeysRules(new)
  <2>1. new \in Seq(Hash) /\ Len(new) = b + m
    BY <1>5, <1>6
  <2>2. CheckedAbove(b, new, now, ws)
    BY <1>11, <2>1 DEF CheckedAbove
  <2> QED BY <1>2, <1>12, <2>1, <2>2, RulesCarryOver
<1> QED BY <1>1, <1>13 DEF new, lower
=============================================================================
