------------------------- MODULE ChainManagerProofs -------------------------
(***************************************************************************)
(* The invariants of ChainManager, for every set of blocks, transactions   *)
(* and batches, every capacity, every depth and all consensus parameters.  *)
(***************************************************************************)
EXTENDS ChainManager, PoolProofs, ForkProofs, FiniteSetTheorems, TLAPS

-----------------------------------------------------------------------------
(* Where the forks come from                                               *)

(* The tips of the forward walk are blocks.                                *)
LEMMA TipsAreBlocks ==
  ASSUME NEW pool \in Seq(Hash), NEW h \in Hash, NEW seen \in Visits(pool, h)
  PROVE  find_fork_tips(pool, seen) \subseteq Hash
<1>1. {pool[i] : i \in DOMAIN pool} \subseteq Hash
  OBVIOUS
<1>2. \A g : children_of(pool, g) \subseteq Hash
  BY <1>1 DEF children_of
<1>3. Family(pool, h) \subseteq Hash
  BY <1>1 DEF Family
<1>4. seen \subseteq Hash
  BY <1>3 DEF Visits
<1> QED BY <1>2, <1>4 DEF find_fork_tips

(* Each branch that is weighed is the valid part of a branch that joins    *)
(* the chain.                                                              *)
LEMMA RivalIsValidPart ==
  ASSUME NEW bc, GoodChain(bc), NEW pool, NEW tips, tips \subseteq Hash, NEW now,
         NEW g \in Branches(bc, pool, tips, now)
  PROVE  \E f : IsFork(bc, f) /\ g \in ValidPart(bc, f, now)
<1>1. PICK tip \in tips : \E f \in build_fork_chain(bc, pool, tip) : g \in ValidPart(bc, f, now)
  BY DEF Branches
<1>2. PICK f \in build_fork_chain(bc, pool, tip) : g \in ValidPart(bc, f, now)
  BY <1>1
<1>3. IsFork(bc, f)
  <2>1. tip \in Hash
    BY <1>1
  <2> QED BY <1>2, <2>1, BuiltIsFork
<1> QED BY <1>2, <1>3

(* Blocks that follow one another from a parent on the chain are a branch. *)
LEMMA LinkedIsFork ==
  ASSUME NEW bc, GoodChain(bc), NEW fb \in Seq(Hash), Len(fb) >= 1,
         has_block(bc, Blk[fb[1]].prev),
         \A i \in 2..Len(fb) : Blk[fb[i]].prev = fb[i - 1]
  PROVE  IsFork(bc, [base |-> bc.height_by_hash[Blk[fb[1]].prev] + 1, blocks |-> fb])
<1> DEFINE parent == Blk[fb[1]].prev
           b == bc.height_by_hash[parent] + 1
           lower == SubSeq(bc.blocks, 1, b)
           n == Len(fb)
           G == {0} \cup {k \in 1..n : lower \o SubSeq(fb, 1, k) = History[fb[k]]}
<1>1. n \in Nat /\ n >= 1 /\ \A i \in 1..n : fb[i] \in Hash
  OBVIOUS
<1>2. b \in 1..size(bc) /\ bc.blocks[b] = parent
  BY ChainFacts
<1>3. History[parent] = lower /\ parent \in Hash
  <2> HIDE DEF b, parent
  <2>1. History[bc.blocks[b]] = SubSeq(bc.blocks, 1, b) /\ bc.blocks[b] \in Hash
    BY <1>2, ChainFacts
  <2> QED BY <1>2, <2>1
<1>4. lower \in Seq(Hash)
  BY <1>3, HistoryFacts
<1>5. \A i \in 1..n : SubSeq(fb, 1, i) \in Seq(Hash)
  <2>1. \A i \in 1..n : i \in 0..Len(fb)
    BY <1>1
  <2> QED BY <2>1, PrefixIsSeq
<1> HIDE DEF lower, b, n
<1>6. SubSeq(fb, 1, 1) = <<fb[1]>> /\ 1 \in 1..n
  <2> DEFINE u == SubSeq(fb, 1, 1)
             v == <<fb[1]>>
  <2>1. 1 \in 0..Len(fb) /\ 1 \in 1..n
    BY <1>1 DEF n
  <2>2. u \in Seq(Hash) /\ Len(u) = 1 /\ u[1] = fb[1]
    BY <2>1, PrefixIsSeq
  <2>3. v \in Seq(Hash) /\ Len(v) = 1 /\ v[1] = fb[1]
    BY <1>1, <2>1
  <2> HIDE DEF u, v
  <2>4. u = v
    BY <2>2, <2>3, SameSeq
  <2> QED BY <2>1, <2>4 DEF u, v
<1>7. 1 \in G
  <2>1. History[fb[1]] = lower \o <<fb[1]>>
    <3>1. fb[1] \in Hash
      BY <1>1, <1>6
    <3> QED BY <1>3, <3>1, HistoryExtends
  <2> QED BY <1>6, <2>1
<1>8. ASSUME NEW i \in 1..n, i - 1 \in G PROVE i \in G
  <2>1. CASE i = 1
    BY <1>7, <2>1
  <2>2. CASE i # 1
    <3>1. i \in 2..Len(fb) /\ i - 1 \in 1..n /\ i - 1 \in 0..Len(fb) /\ i \in 0..Len(fb)
      BY <1>1, <2>2 DEF n
    <3>2. lower \o SubSeq(fb, 1, i - 1) = History[fb[i - 1]]
      BY <1>8, <3>1
    <3>3. History[fb[i]] = History[fb[i - 1]] \o <<fb[i]>>
      <4>1. fb[i] \in Hash /\ fb[i - 1] \in Hash /\ Blk[fb[i]].prev = fb[i - 1]
        BY <1>1, <3>1
      <4> QED BY <4>1, HistoryExtends
    <3> DEFINE p == SubSeq(fb, 1, i - 1)
               e == <<fb[i]>>
    <3>4. SubSeq(fb, 1, i) = p \o e
      BY <1>1, <3>1 DEF n
    <3>5. p \in Seq(Hash) /\ e \in Seq(Hash)
      BY <1>1, <1>5, <3>1
    <3> HIDE DEF p, e
    <3>6. lower \o (p \o e) = (lower \o p) \o e
      BY <1>4, <3>5
    <3>7. lower \o SubSeq(fb, 1, i) = History[fb[i]]
      BY <3>2, <3>3, <3>4, <3>6 DEF p, e
    <3> QED BY <3>7
  <2> QED BY <2>1, <2>2
<1>9. 0..n \subseteq G
  <2>1. 0 \in G
    OBVIOUS
  <2> HIDE DEF G
  <2> QED BY <1>1, <1>8, <2>1, UpTo
<1>10. \A k \in 1..n : lower \o SubSeq(fb, 1, k) = History[fb[k]]
  BY <1>1, <1>9
<1> DEFINE fork == [base |-> b, blocks |-> fb]
<1>11. fork.base = b /\ fork.blocks = fb /\ fork \in [base : 1..size(bc), blocks : Seq(Hash)]
  BY <1>2
<1> HIDE DEF fork
<1>12. IsFork(bc, fork)
  BY <1>10, <1>11 DEF IsFork, lower, n
<1> QED BY <1>12 DEF fork, b

(* What adopt_branch makes of a batch is a branch that joins the chain.    *)
LEMMA BatchIsFork ==
  ASSUME GoodChain(blockchain), NEW blocks \in Seq(Hash), NEW f \in BatchFork(blocks)
  PROVE  IsFork(blockchain, f)
<1> DEFINE known == {i \in DOMAIN blocks : \A j \in 1..i : has_block(blockchain, blocks[j])}
           start == Cardinality(known) + 1
           n == Len(blocks)
           fb == SubSeq(blocks, start, n)
<1>1. /\ start <= n /\ has_block(blockchain, Blk[blocks[start]].prev)
      /\ \A i \in (start + 1)..n : Blk[blocks[i]].prev = blocks[i - 1]
      /\ f = [base |-> blockchain.height_by_hash[Blk[blocks[start]].prev] + 1, blocks |-> fb]
  BY DEF BatchFork
<1>2. start \in Nat \ {0}
  <2>1. known \in SUBSET (1..n) /\ n \in Int /\ 1 \in Int
    OBVIOUS
  <2> HIDE DEF known, n
  <2>2. IsFiniteSet(1..n)
    BY <2>1, FS_Interval
  <2>3. IsFiniteSet(known)
    BY <2>1, <2>2, FS_Subset
  <2> QED BY <2>3, FS_CardinalityType
<1> HIDE DEF start
<1>3. start \in 1..n /\ n \in Nat /\ start \in 1..(Len(blocks) + 1) /\ n \in 0..Len(blocks) /\ start <= n + 1
  BY <1>1, <1>2
<1>4. /\ fb \in Seq(Hash) /\ Len(fb) = n - start + 1
      /\ \A i \in 1..(n - start + 1) : fb[i] = blocks[i + start - 1]
  BY <1>3, Piece
<1> HIDE DEF n, fb
<1>5. Len(fb) >= 1
  BY <1>3, <1>4
<1>6. fb[1] = blocks[start]
  <2>1. 1 \in 1..(n - start + 1) /\ 1 + start - 1 = start
    BY <1>3
  <2> QED BY <1>4, <2>1
<1>7. ASSUME NEW i \in 2..Len(fb) PROVE Blk[fb[i]].prev = fb[i - 1]
  <2>1. /\ i \in 1..(n - start + 1) /\ i - 1 \in 1..(n - start + 1)
        /\ (i - 1) + start - 1 = (i + start - 1) - 1
        /\ i + start - 1 \in (start + 1)..n
    BY <1>3, <1>4
  <2>2. fb[i] = blocks[i + start - 1] /\ fb[i - 1] = blocks[(i - 1) + start - 1]
    BY <1>4, <2>1
  <2> QED BY <1>1, <2>1, <2>2
<1> QED BY <1>1, <1>4, <1>5, <1>6, <1>7, LinkedIsFork

-----------------------------------------------------------------------------
(* The blocks table                                                        *)

(* The table holds the blocks of a chain, height for height.               *)
Mirrors(table, blocks) == table = [k \in 0..(Len(blocks) - 1) |-> blocks[k + 1]]

Distinct(s) == \A i, j \in 1..Len(s) : s[i] = s[j] => i = j

(* save_block stores a new tip.                                            *)
LEMMA SaveMirrors ==
  ASSUME NEW table, NEW old \in Seq(Hash), Len(old) >= 1, Mirrors(table, old), NEW h \in Hash,
         Distinct(old \o <<h>>)
  PROVE  Mirrors(save_block(table, h, Len(old)), old \o <<h>>)
<1> DEFINE n == Len(old)
           new == old \o <<h>>
           saved == save_block(table, h, n)
<1>1. n \in Nat /\ n >= 1
  OBVIOUS
<1>2. /\ Len(new) = n + 1 /\ new[n + 1] = h
      /\ \A i \in 1..n : new[i] = old[i]
  OBVIOUS
<1>3. \A i \in 1..n : new[i] # h
  <2>1. n + 1 \in 1..Len(new) /\ \A i \in 1..n : i \in 1..Len(new) /\ i # n + 1
    BY <1>1, <1>2
  <2>2. Distinct(new)
    OBVIOUS
  <2> HIDE DEF new, n
  <2> QED BY <1>2, <2>1, <2>2 DEF Distinct
<1>4. DOMAIN table = 0..(n - 1) /\ \A k \in 0..(n - 1) : table[k] = old[k + 1]
  BY DEF Mirrors
<1>5. saved = [k \in {j \in DOMAIN table : table[j] # h} \cup {n} |->
                 IF k = n THEN h ELSE table[k]]
  BY DEF save_block
<1> HIDE DEF n, new, saved
<1>6. \A k \in 0..(n - 1) : k + 1 \in 1..n /\ k # n
  BY <1>1
<1>7. \A k \in 0..(n - 1) : table[k] = new[k + 1] /\ table[k] # h
  BY <1>2, <1>3, <1>4, <1>6
<1>8. {j \in DOMAIN table : table[j] # h} \cup {n} = 0..n
  <2>1. {j \in DOMAIN table : table[j] # h} = 0..(n - 1)
    BY <1>4, <1>7
  <2> QED BY <1>1, <2>1
<1>9. \A k \in 0..n : (IF k = n THEN h ELSE table[k]) = new[k + 1]
  <2>1. \A k \in 0..n : k = n \/ k \in 0..(n - 1)
    BY <1>1
  <2> QED BY <1>2, <1>7, <2>1
<1>10. saved = [k \in 0..n |-> new[k + 1]]
  BY <1>5, <1>8, <1>9
<1>11. Len(new) - 1 = n
  BY <1>1, <1>2
<1>12. Mirrors(saved, new)
  BY <1>10, <1>11 DEF Mirrors
<1> QED BY <1>12 DEF saved, new, n

(* replace_blocks_from stores a new branch over the old one.               *)
LEMMA ReplaceMirrors ==
  ASSUME NEW table, NEW old \in Seq(Hash), Mirrors(table, old), NEW base \in 1..Len(old),
         NEW branch \in Seq(Hash), NEW new \in Seq(Hash), Distinct(new),
         Len(new) = base + Len(branch),
         \A i \in 1..base : new[i] = old[i],
         \A i \in 1..Len(branch) : new[base + i] = branch[i]
  PROVE  Mirrors(replace_blocks_from(table, base, branch), new)
<1> DEFINE n == Len(old)
           m == Len(branch)
           saved == {branch[i] : i \in DOMAIN branch}
           kept == {j \in DOMAIN table : j < base /\ table[j] \notin saved}
           t == replace_blocks_from(table, base, branch)
<1>1. n \in Nat /\ m \in Nat /\ base \in Nat /\ base >= 1 /\ base <= n /\ DOMAIN branch = 1..m
  OBVIOUS
<1>2. DOMAIN table = 0..(n - 1) /\ \A k \in 0..(n - 1) : table[k] = old[k + 1]
  BY DEF Mirrors
<1>3. t = [k \in kept \cup base..(base + m - 1) |->
             IF k < base THEN table[k] ELSE branch[k - base + 1]]
  BY DEF replace_blocks_from
<1>4. \A k \in 0..(base - 1) : k \in 0..(n - 1) /\ k + 1 \in 1..base /\ k < base
  BY <1>1
<1>5. \A k \in 0..(base - 1) : table[k] = new[k + 1]
  BY <1>2, <1>4
<1>6. \A k \in 0..(base - 1) : table[k] \notin saved
  <2> SUFFICES ASSUME NEW k \in 0..(base - 1), NEW i \in 1..m, table[k] = branch[i]
               PROVE  FALSE
    BY <1>1
  <2>1. new[k + 1] = new[base + i]
    BY <1>5
  <2>2. k + 1 \in 1..Len(new) /\ base + i \in 1..Len(new) /\ k + 1 # base + i
    BY <1>1
  <2> QED BY <2>1, <2>2 DEF Distinct
<1>7. kept = 0..(base - 1)
  <2>1. \A j \in 0..(n - 1) : j < base => j \in 0..(base - 1)
    BY <1>1
  <2> HIDE DEF saved, n
  <2> QED BY <1>2, <1>4, <1>6, <2>1
<1> HIDE DEF kept, t, m
<1>8. kept \cup base..(base + m - 1) = 0..(base + m - 1)
  BY <1>1, <1>7
<1>9. ASSUME NEW k \in 0..(base + m - 1)
      PROVE  (IF k < base THEN table[k] ELSE branch[k - base + 1]) = new[k + 1]
  <2>1. CASE k < base
    <3>1. k \in 0..(base - 1)
      BY <1>1, <2>1
    <3> QED BY <1>5, <2>1, <3>1
  <2>2. CASE ~(k < base)
    <3>1. k - base + 1 \in 1..Len(branch) /\ base + (k - base + 1) = k + 1
      BY <1>1, <2>2 DEF m
    <3> QED BY <2>2, <3>1
  <2> QED BY <2>1, <2>2
<1>10. t = [k \in 0..(base + m - 1) |-> new[k + 1]]
  BY <1>3, <1>8, <1>9
<1>11. Len(new) - 1 = base + m - 1
  BY <1>1 DEF m
<1>12. Mirrors(t, new)
  BY <1>10, <1>11 DEF Mirrors
<1> QED BY <1>12 DEF t

-----------------------------------------------------------------------------
(* The three ways the chain changes                                        *)

(* A good chain that obeys the rules, with its mirror on disk.             *)
SoundAt(bc, table) ==
  GoodChain(bc) /\ ObeysRules(bc.blocks) /\ Mirrors(table, bc.blocks)

(* The blocks of a good chain are all different.                           *)
LEMMA GoodIsDistinct ==
  ASSUME NEW bc, GoodChain(bc)
  PROVE  Distinct(bc.blocks)
BY ChainFacts DEF Distinct, size

(* The genesis block has no parent.                                        *)
LEMMA GenesisHistory == History[Genesis] = <<Genesis>>
<1> DEFINE past == History[Genesis]
           n == Len(past)
<1>1. Genesis \in Hash /\ Blk[Genesis].prev \notin Hash
  BY BlockAssumption
<1>2. /\ past \in Seq(Hash) /\ n \in Nat \ {0} /\ past[n] = Genesis
      /\ \A i \in 2..n : Blk[past[i]].prev = past[i - 1]
  BY <1>1, HistoryAssumption
<1>3. n = Len(past)
  OBVIOUS
<1> HIDE DEF past, n
<1>4. n = 1
  <2> SUFFICES ASSUME n # 1 PROVE FALSE
    OBVIOUS
  <2>1. n \in 2..n /\ n - 1 \in 1..n
    BY <1>2
  <2>2. past[n - 1] \in Hash
    BY <1>2, <1>3, <2>1
  <2> QED BY <1>1, <1>2, <2>1, <2>2
<1> DEFINE g == <<Genesis>>
<1>5. g \in Seq(Hash) /\ Len(g) = 1 /\ g[1] = Genesis
  BY <1>1
<1> HIDE DEF g
<1>6. past = g
  <2>1. Len(past) = Len(g) /\ \A i \in 1..Len(past) : i = 1
    BY <1>3, <1>4, <1>5
  <2>2. \A i \in 1..Len(past) : past[i] = g[i]
    BY <1>2, <1>4, <1>5, <2>1
  <2> QED BY <1>2, <1>5, <2>1, <2>2, SameSeq
<1> QED BY <1>6 DEF past, g

(* The chain a node starts with is good.                                   *)
LEMMA GenesisGood ==
  /\ GoodChain(GenesisChain) /\ size(GenesisChain) = 1 /\ GenesisChain.blocks = <<Genesis>>
  /\ ObeysRules(<<Genesis>>)
<1> DEFINE bc == GenesisChain
<1>1. Genesis \in Hash /\ 0 \in Word
  BY BlockAssumption, LedgerAssumption DEF Word
<1>2. /\ bc.blocks = <<Genesis>> /\ bc.work = <<0>>
      /\ DOMAIN bc.height_by_hash = {Genesis} /\ bc.height_by_hash[Genesis] = 0
      /\ bc.height_by_hash \in [{Genesis} -> Nat]
  BY DEF GenesisChain
<1> HIDE DEF bc
<1>3. size(bc) = 1 /\ latest(bc) = Genesis
  BY <1>2 DEF size, latest
<1>4. bc.blocks \in Seq(Hash) /\ bc.work \in Seq(Word) /\ bc.blocks[1] = Genesis
      /\ bc.work[1] = 0 /\ Len(bc.work) = 1
  BY <1>1, <1>2
<1>5. \A i \in 1..1 : i = 1
  OBVIOUS
<1>6. Intact(bc)
  <2>1. bc.blocks = History[latest(bc)]
    BY <1>2, <1>3, GenesisHistory
  <2>2. DOMAIN bc.height_by_hash = {bc.blocks[i] : i \in 1..size(bc)}
    BY <1>2, <1>3, <1>4, <1>5
  <2>3. \A i \in 1..size(bc) : bc.height_by_hash[bc.blocks[i]] = i - 1
    BY <1>2, <1>3, <1>4, <1>5
  <2>4. \A i \in 2..size(bc) :
          bc.work[i] = Add64(bc.work[i - 1], block_work(Blk[bc.blocks[i]]))
    BY <1>3
  <2> QED BY <1>3, <1>4, <2>1, <2>2, <2>3, <2>4 DEF Intact
<1>7. GoodChain(bc)
  BY <1>2, <1>3, <1>4, <1>6 DEF GoodChain
<1>8. ObeysRules(<<Genesis>>)
  <2>1. 2..Len(<<Genesis>>) = {}
    OBVIOUS
  <2> QED BY <2>1 DEF ObeysRules
<1> QED BY <1>2, <1>3, <1>7, <1>8 DEF bc

(* An accepted block on top of the tip.                                    *)
LEMMA ExtensionIsSound ==
  ASSUME NEW bc, NEW table, SoundAt(bc, table), NEW h \in Hash, Blk[h].prev = latest(bc),
         NEW now, HeaderIsValid(Blk[h], size(bc), now, Headers(bc.blocks))
  PROVE  /\ SoundAt(add_block(bc, h), save_block(table, h, size(bc)))
         /\ add_block(bc, h).blocks = bc.blocks \o <<h>>
<1> DEFINE old == bc.blocks
           e == <<h>>
           new == old \o e
           n == Len(old)
           ws == Headers(old)
           nb == add_block(bc, h)
<1>1. /\ GoodChain(bc) /\ ObeysRules(old) /\ Mirrors(table, old) /\ old \in Seq(Hash)
      /\ size(bc) = n /\ n >= 1 /\ n \in Nat
  BY ChainFacts DEF SoundAt, GoodChain, size
<1>2. History[h] = new
  <2>1. old = History[Blk[h].prev] /\ Blk[h].prev \in Hash
    BY <1>1, ChainFacts DEF GoodChain, Intact
  <2> QED BY <2>1, HistoryExtends
<1>3. e \in Seq(Hash) /\ Len(e) = 1
  OBVIOUS
<1>4. /\ new \in Seq(Hash) /\ Len(new) = n + 1 /\ new[n + 1] = h
      /\ \A i \in 1..n : new[i] = old[i]
  <2>1. old \in Seq(Hash) /\ Len(old) = n
    BY <1>1
  <2> HIDE DEF old, n
  <2> QED BY <2>1
<1>5. \A i \in 1..n : ws[i] = Blk[old[i]]
  BY <1>1 DEF Headers
<1>6. HeaderIsValid(Blk[h], n, now, ws)
  BY <1>1
<1> HIDE DEF new, ws, n
<1>7. IsHistory(new)
  BY <1>2, <1>4 DEF IsHistory
<1>8. GoodChain(nb) /\ nb.blocks = new
  <2>1. nb = AddBlocks(bc, e)
    BY DEF add_block
  <2>2. IsHistory(bc.blocks \o e)
    BY <1>7 DEF new
  <2> HIDE DEF e
  <2>3. GoodChain(AddBlocks(bc, e)) /\ AddBlocks(bc, e).blocks = bc.blocks \o e
    BY <1>1, <1>3, <2>2, AddBlocksGood
  <2> QED BY <2>1, <2>3 DEF new
<1>9. CheckedAbove(n, new, now, ws)
  <2> SUFFICES ASSUME NEW i \in (n + 1)..Len(new)
               PROVE  /\ \A j \in 1..(i - 1) : ws[j] = Blk[new[j]]
                      /\ HeaderIsValid(Blk[new[i]], i - 1, now, ws)
    BY DEF CheckedAbove
  <2>1. i = n + 1 /\ i - 1 = n
    BY <1>1, <1>4
  <2> QED BY <1>4, <1>5, <1>6, <2>1
<1>10. ObeysRules(new)
  <2>1. n \in 1..Len(old) /\ n <= Len(new)
    BY <1>1, <1>4 DEF n
  <2> QED BY <1>1, <1>4, <1>9, <2>1, RulesCarryOver
<1>11. Mirrors(save_block(table, h, n), new)
  <2>1. Distinct(old \o <<h>>)
    BY <1>8, GoodIsDistinct DEF new
  <2>2. Len(old) >= 1
    BY <1>1 DEF n
  <2> QED BY <1>1, <2>1, <2>2, SaveMirrors DEF new, n
<1> QED BY <1>1, <1>8, <1>10, <1>11 DEF SoundAt, new

(* A reorganisation onto the valid part of a branch.                       *)
LEMMA ReorgIsSound ==
  ASSUME NEW bc, NEW table, SoundAt(bc, table), NEW f, IsFork(bc, f), NEW now,
         NEW g \in ValidPart(bc, f, now)
  PROVE  SoundAt(reorganize_to(bc, g), replace_blocks_from(table, g.base, g.blocks))
<1> DEFINE nb == reorganize_to(bc, g)
           lower == SubSeq(bc.blocks, 1, g.base)
           old == bc.blocks
           new == nb.blocks
           base == g.base
           branch == g.blocks
<1>1. GoodChain(bc) /\ ObeysRules(old) /\ Mirrors(table, old) /\ old \in Seq(Hash)
  BY DEF SoundAt, GoodChain
<1>2. IsFork(bc, g)
  BY ValidPartIsFork
<1>3. GoodChain(nb) /\ nb.blocks = lower \o branch
  BY <1>1, <1>2, ReorgGood
<1>4. ObeysRules(lower \o branch)
  BY <1>1, ValidPartObeysRules
<1>5. base \in 1..Len(old) /\ branch \in Seq(Hash)
  BY <1>2 DEF IsFork, size
<1>6. lower \in Seq(Hash) /\ Len(lower) = base /\ \A i \in 1..base : lower[i] = old[i]
  <2>1. base \in 0..Len(old)
    BY <1>1, <1>5
  <2> HIDE DEF base, old
  <2> QED BY <1>1, <2>1, PrefixIsSeq DEF base, old
<1>7. new \in Seq(Hash) /\ Distinct(new)
  BY <1>3, GoodIsDistinct DEF GoodChain
<1>8. new = lower \o branch
  BY <1>3
<1> HIDE DEF nb, lower, old, new, base, branch
<1>9. /\ Len(new) = base + Len(branch)
      /\ \A i \in 1..base : new[i] = old[i]
      /\ \A i \in 1..Len(branch) : new[base + i] = branch[i]
  <2>1. lower \in Seq(Hash)
    BY <1>6
  <2>2. /\ Len(lower \o branch) = Len(lower) + Len(branch)
        /\ \A i \in 1..Len(lower) : (lower \o branch)[i] = lower[i]
        /\ \A i \in (Len(lower) + 1)..(Len(lower) + Len(branch)) :
             (lower \o branch)[i] = branch[i - Len(lower)]
    BY <1>5, <2>1, Join
  <2>3. base \in Nat /\ Len(branch) \in Nat
    BY <1>1, <1>5
  <2>4. ASSUME NEW i \in 1..Len(branch) PROVE new[base + i] = branch[i]
    <3>1. base + i \in (base + 1)..(base + Len(branch)) /\ (base + i) - base = i
      BY <2>3
    <3> QED BY <1>6, <1>8, <2>2, <3>1
  <2> QED BY <1>6, <1>8, <2>2, <2>4
<1>10. Mirrors(replace_blocks_from(table, base, branch), new)
  BY <1>1, <1>5, <1>7, <1>9, ReplaceMirrors
<1> QED BY <1>3, <1>4, <1>8, <1>10 DEF SoundAt, nb, new, base, branch

(* A restart puts the stored chain back.                                   *)
LEMMA RestoreIsSound ==
  ASSUME NEW bc, NEW table, SoundAt(bc, table)
  PROVE  LET stored == [k \in 1..(block_count(table) - 1) |-> table[k]]
             nb == AddBlocks(GenesisChain, stored)
         IN  /\ SoundAt(nb, table) /\ nb.blocks = bc.blocks
             /\ block_count(table) \in Nat \ {0}
             /\ \A k \in 1..(block_count(table) - 1) : table[k] \in Hash
<1> DEFINE n == size(bc)
           c == block_count(table)
           stored == [k \in 1..(c - 1) |-> table[k]]
           g == <<Genesis>>
           nb == AddBlocks(GenesisChain, stored)
           old == bc.blocks
<1>1. /\ GoodChain(bc) /\ ObeysRules(old) /\ Mirrors(table, old) /\ old \in Seq(Hash)
      /\ n = Len(old) /\ n \in Nat \ {0} /\ old[1] = Genesis
  BY ChainFacts DEF SoundAt, GoodChain, Intact, size
<1>2. DOMAIN table = 0..(n - 1) /\ \A k \in 0..(n - 1) : table[k] = old[k + 1]
  BY <1>1 DEF Mirrors
<1>3. IsHistory(old)
  BY <1>1 DEF IsHistory, GoodChain, Intact, latest, size
<1> HIDE DEF n, old
<1>4. c = n
  <2>1. n - 1 \in Int /\ 0 \in Int /\ ~(0 > n - 1)
    BY <1>1
  <2>2. Cardinality(0..(n - 1)) = (n - 1) - 0 + 1
    BY <2>1, FS_Interval
  <2> QED BY <1>1, <1>2, <2>2 DEF block_count
<1> HIDE DEF c
<1>5. ASSUME NEW k \in 1..(n - 1)
      PROVE  table[k] = old[k + 1] /\ old[k + 1] \in Hash
  <2>1. k \in 0..(n - 1) /\ k + 1 \in 1..n
    BY <1>1
  <2> QED BY <1>1, <1>2, <2>1
<1>6. /\ stored \in Seq(Hash) /\ Len(stored) = n - 1
      /\ \A k \in 1..(n - 1) : stored[k] = old[k + 1]
  <2>1. n - 1 \in Nat /\ stored = [k \in 1..(n - 1) |-> table[k]]
    BY <1>1, <1>4
  <2>2. \A k \in 1..(n - 1) : table[k] \in Hash
    BY <1>5
  <2> HIDE DEF stored
  <2> QED BY <1>5, <2>1, <2>2
<1>7. g \in Seq(Hash) /\ Len(g) = 1 /\ g[1] = Genesis
  BY BlockAssumption
<1> HIDE DEF stored, g
<1>8. g \o stored = old
  <2> DEFINE all == g \o stored
  <2>1. /\ all \in Seq(Hash) /\ Len(all) = Len(g) + Len(stored)
        /\ \A i \in 1..Len(g) : all[i] = g[i]
        /\ \A i \in (Len(g) + 1)..(Len(g) + Len(stored)) : all[i] = stored[i - Len(g)]
    <3>1. g \in Seq(Hash) /\ stored \in Seq(Hash)
      BY <1>6, <1>7
    <3> QED BY <3>1, Join
  <2> HIDE DEF all
  <2>2. Len(all) = n
    BY <1>1, <1>6, <1>7, <2>1
  <2>3. ASSUME NEW i \in 1..n PROVE all[i] = old[i]
    <3>1. CASE i = 1
      <4>1. 1 \in 1..Len(g)
        BY <1>7
      <4> QED BY <1>1, <1>7, <2>1, <3>1, <4>1
    <3>2. CASE i # 1
      <4>1. i \in 2..n /\ i - 1 \in 1..(n - 1) /\ (i - 1) + 1 = i
        BY <1>1, <3>2
      <4>2. i \in (Len(g) + 1)..(Len(g) + Len(stored)) /\ i - Len(g) = i - 1
        BY <1>1, <1>6, <1>7, <4>1
      <4> QED BY <1>6, <2>1, <4>1, <4>2
    <3> QED BY <3>1, <3>2
  <2>4. all = old
    BY <1>1, <2>1, <2>2, <2>3, SameSeq
  <2> QED BY <2>4 DEF all
<1>9. GoodChain(nb) /\ nb.blocks = old
  <2>1. GoodChain(GenesisChain) /\ GenesisChain.blocks = g
    BY GenesisGood DEF g
  <2>2. IsHistory(GenesisChain.blocks \o stored)
    BY <1>3, <1>8, <2>1
  <2>3. GoodChain(AddBlocks(GenesisChain, stored))
        /\ AddBlocks(GenesisChain, stored).blocks = GenesisChain.blocks \o stored
    BY <1>6, <2>1, <2>2, AddBlocksGood
  <2> QED BY <1>8, <2>1, <2>3
<1>10. SoundAt(nb, table)
  BY <1>1, <1>9 DEF SoundAt
<1>11. \A k \in 1..(c - 1) : table[k] \in Hash
  BY <1>4, <1>5
<1> QED BY <1>1, <1>4, <1>9, <1>10, <1>11 DEF nb, stored, c, old

(* Whether it succeeds or throws, restoring works on ledgers.              *)
LEMMA RestoreRunType ==
  ASSUME block_count(rows) \in Nat \ {0},
         \A k \in 1..(block_count(rows) - 1) : rows[k] \in Hash
  PROVE  RestoreRun.ok \in BOOLEAN /\ RestoreRun.ledger \in LedgerState
<1> DEFINE n == block_count(rows) - 1
           S == [ok : BOOLEAN, ledger : LedgerState]
           first == [ok |-> TRUE, ledger |-> EmptyLedger]
           Step(i, x) == IF x.ok THEN apply_block_to_ledger(x.ledger, Blk[rows[i]].txs) ELSE x
           step == [y \in (1..n) \X S |-> Step(y[1], y[2])]
           Def(f) == f = [i \in 0..n |-> IF i = 0 THEN first ELSE Step(i, f[i - 1])]
           run == CHOOSE f : Def(f)
<1>1. n \in Nat /\ first \in S
  <2>1. EmptyLedger \in LedgerState
    BY LedgerAssumption DEF EmptyLedger, LedgerState, Word
  <2> QED BY <2>1
<1>2. \A i \in 1..n, x \in S : Step(i, x) \in S
  <2> SUFFICES ASSUME NEW i \in 1..n, NEW x \in S PROVE Step(i, x) \in S
    OBVIOUS
  <2> DEFINE txs == Blk[rows[i]].txs
             a == apply_block_to_ledger(x.ledger, txs)
  <2>1. txs \in Seq(Transaction)
    BY BlockFields
  <2>2. a.ledger \in LedgerState /\ a.ok \in BOOLEAN
    BY <2>1, ApplyBlockType
  <2>3. a = [ok |-> a.ok, ledger |-> a.ledger]
    BY DEF apply_block_to_ledger
  <2>4. a \in S
    BY <2>2, <2>3
  <2> QED BY <2>4
<1>3. RestoreRun = run[n]
  BY DEF RestoreRun
<1> HIDE DEF n, Step, run, first, S
<1>4. step \in [(1..n) \X S -> S]
  BY <1>2
<1>5. \A i \in 1..n, x \in S : step[<<i, x>>] = Step(i, x)
  OBVIOUS
<1> HIDE DEF step
<1>6. PICK g : IsRun(g, S, n, first, step)
  BY <1>1, <1>4, RunExists
<1>7. Def(g)
  <2>1. /\ g = [i \in 0..n |-> g[i]] /\ g[0] = first /\ 0 \in 0..n
        /\ \A i \in 1..n : g[i] = step[<<i, g[i - 1]>>] /\ g[i - 1] \in S
    BY <1>1, <1>6 DEF IsRun
  <2>2. \A i \in 1..n : g[i] = Step(i, g[i - 1])
    BY <1>5, <2>1
  <2>3. ASSUME NEW i \in 0..n, i # 0 PROVE g[i] = Step(i, g[i - 1])
    <3>1. i \in 1..n
      BY <1>1, <2>3
    <3> QED BY <2>2, <3>1
  <2> QED BY <2>1, <2>3
<1>8. Def(run)
  BY <1>7 DEF run
<1>9. /\ run = [i \in 0..n |-> run[i]] /\ run[0] = first
      /\ \A i \in 1..n : run[i - 1] \in S => run[i] = step[<<i, run[i - 1]>>]
  <2>1. \A i \in 1..n : i \in 0..n /\ i # 0
    BY <1>1
  <2>2. run[0] = first /\ \A i \in 1..n : run[i] = Step(i, run[i - 1])
    BY <1>1, <1>8, <2>1
  <2> QED BY <1>5, <1>8, <2>2
<1>10. IsRun(run, S, n, first, step)
  BY <1>1, <1>4, <1>9, RunTyped
<1>11. run[n] \in S
  BY <1>1, <1>10 DEF IsRun
<1> QED BY <1>3, <1>11 DEF S

-----------------------------------------------------------------------------
(* The inductive invariant: the state is typed, the chain is good and      *)
(* obeys the rules, the disk mirrors it, and the mempool is in order.      *)
IInv ==
  /\ TypeOK
  /\ SoundAt(blockchain, rows)
  /\ InOrder(mempool)

(* What is typed besides the chain and the disk, whose types follow from   *)
(* SoundAt.                                                                *)
RestTyped ==
  /\ orphan_pool \in Seq(Hash) /\ mempool \in GoodPool /\ ledger \in LedgerState
  /\ tip_version \in Nat /\ clock \in Time /\ to_broadcast \in Seq(Hash) /\ running \in BOOLEAN

(* A table that mirrors a sound chain holds block hashes only.             *)
LEMMA RowsType ==
  ASSUME NEW bc, NEW table, SoundAt(bc, table)
  PROVE  table \in [DOMAIN table -> Hash]
<1> DEFINE old == bc.blocks
           n == Len(old)
<1>1. old \in Seq(Hash) /\ table = [k \in 0..(n - 1) |-> old[k + 1]]
  BY DEF SoundAt, GoodChain, Mirrors
<1> HIDE DEF old
<1>2. n \in Nat
  BY <1>1
<1>3. \A k \in 0..(n - 1) : k + 1 \in 1..n
  BY <1>2
<1>4. \A k \in 0..(n - 1) : old[k + 1] \in Hash
  BY <1>1, <1>3
<1> QED BY <1>1, <1>4

(* The invariant in the form the step proofs use: what is said of the      *)
(* chain and the disk, and the types of everything else.                   *)
LEMMA IInvSplit == IInv <=> SoundAt(blockchain, rows) /\ RestTyped
<1>1. ASSUME SoundAt(blockchain, rows)
      PROVE  /\ blockchain.blocks \in Seq(Hash) /\ blockchain.work \in Seq(Word)
             /\ blockchain.height_by_hash \in [DOMAIN blockchain.height_by_hash -> Nat]
  BY <1>1 DEF SoundAt, GoodChain
<1>2. ASSUME SoundAt(blockchain, rows) PROVE rows \in [DOMAIN rows -> Hash]
  BY <1>2, RowsType
<1> QED BY <1>1, <1>2 DEF IInv, TypeOK, RestTyped, GoodPool

(* A fresh node, with genesis in memory and on disk, satisfies the         *)
(* invariant.                                                              *)
LEMMA InitHolds == Init => IInv
<1> SUFFICES ASSUME Init PROVE SoundAt(blockchain, rows) /\ RestTyped
  BY IInvSplit
<1>1. blockchain.blocks = <<Genesis>> /\ GoodChain(blockchain) /\ ObeysRules(blockchain.blocks)
  BY GenesisGood DEF Init
<1>2. Mirrors(rows, <<Genesis>>)
  <2>1. rows = [k \in {0} |-> Genesis]
    BY DEF Init
  <2>2. Len(<<Genesis>>) - 1 = 0 /\ 0..0 = {0} /\ <<Genesis>>[0 + 1] = Genesis
    OBVIOUS
  <2> QED BY <2>1, <2>2 DEF Mirrors
<1>3. SoundAt(blockchain, rows)
  BY <1>1, <1>2 DEF SoundAt
<1>4. EmptyLedger \in LedgerState
  BY LedgerAssumption DEF EmptyLedger, LedgerState, Word
<1>5. <<>> \in GoodPool
  BY MempoolAssumption DEF GoodPool, InOrder
<1> QED BY <1>3, <1>4, <1>5 DEF Init, RestTyped

(* A reorganisation onto the valid part of a branch keeps the invariant    *)
(* of everything it touches.                                               *)
LEMMA ReorgKeeps ==
  ASSUME IInv, NEW f, IsFork(blockchain, f), NEW g \in ValidPart(blockchain, f, clock), Reorg(g)
  PROVE  /\ SoundAt(blockchain, rows)' /\ mempool' \in GoodPool
         /\ ledger' \in LedgerState /\ tip_version' \in Nat /\ g.blocks \in Seq(Hash)
<1> DEFINE new == AllTxs(g.blocks)
           gone == Discarded(blockchain, g)
           old == AllTxs(gone)
           undone == UndoRun(ledger, old, SpendHashes(new))[0]
<1>1. SoundAt(blockchain, rows) /\ RestTyped
  BY IInvSplit
<1>2. IsFork(blockchain, g)
  BY ValidPartIsFork
<1>3. g.blocks \in Seq(Hash) /\ g.base \in 1..size(blockchain)
  BY <1>2 DEF IsFork
<1>4. gone \in Seq(Hash)
  <2>1. blockchain.blocks \in Seq(Hash)
    BY <1>1 DEF SoundAt, GoodChain
  <2> QED BY <1>3, <2>1 DEF Discarded, size
<1>5. new \in Seq(Transaction) /\ old \in Seq(Transaction)
  BY <1>3, <1>4, AllTxsType
<1>6. SoundAt(reorganize_to(blockchain, g), replace_blocks_from(rows, g.base, g.blocks))
  BY <1>1, ReorgIsSound
<1>7. /\ blockchain' = reorganize_to(blockchain, g)
      /\ rows' = replace_blocks_from(rows, g.base, g.blocks)
      /\ tip_version' = tip_version + 1
      /\ ledger' = ApplyRun(undone, new, SpendHashes(old))[Len(new)]
      /\ mempool' = ReturnRun(mempool, old, SpendHashes(new))[0]
  BY DEF Reorg
<1> HIDE DEF new, old, gone
<1>8. undone \in LedgerState
  <2>1. UndoRun(ledger, old, SpendHashes(new)) \in [0..Len(old) -> LedgerState]
    BY <1>1, <1>5, UndoRunDef DEF RestTyped
  <2> QED BY <1>5, <2>1
<1> HIDE DEF undone
<1>9. ledger' \in LedgerState
  <2>1. ApplyRun(undone, new, SpendHashes(old)) \in [0..Len(new) -> LedgerState]
    BY <1>5, <1>8, ApplyRunDef
  <2> QED BY <1>5, <1>7, <2>1
<1>10. mempool' \in GoodPool
  BY <1>1, <1>5, <1>7, ReturnRunType DEF RestTyped
<1>11. tip_version' \in Nat
  BY <1>1, <1>7 DEF RestTyped
<1> QED BY <1>3, <1>6, <1>7, <1>9, <1>10, <1>11

(* The heaviest rival is the valid part of a branch that joins the chain.  *)
LEMMA RivalJoins ==
  ASSUME IInv, NEW h \in Hash, NEW seen \in Visits(add_orphan(orphan_pool, h), h),
         NEW g \in Heaviest(blockchain, Rivals(add_orphan(orphan_pool, h), seen))
  PROVE  \E f : IsFork(blockchain, f) /\ g \in ValidPart(blockchain, f, clock)
<1> DEFINE pool == add_orphan(orphan_pool, h)
           tips == find_fork_tips(pool, seen)
<1>1. GoodChain(blockchain) /\ orphan_pool \in Seq(Hash)
  BY DEF IInv, SoundAt, TypeOK
<1>2. pool \in Seq(Hash)
  BY <1>1, AddOrphanType
<1>3. g \in Branches(blockchain, pool, tips, clock)
  BY DEF Heaviest, Rivals
<1>4. tips \subseteq Hash
  <2>1. seen \in Visits(pool, h)
    OBVIOUS
  <2> HIDE DEF pool
  <2> QED BY <1>2, <2>1, TipsAreBlocks
<1> HIDE DEF pool, tips
<1> QED BY <1>1, <1>3, <1>4, RivalIsValidPart

(* So is what adopt_branch may adopt.                                      *)
LEMMA BatchJoins ==
  ASSUME IInv, NEW blocks \in Batches, NEW g \in AdoptableForks(blocks)
  PROVE  \E f : IsFork(blockchain, f) /\ g \in ValidPart(blockchain, f, clock)
<1>1. PICK f \in BatchFork(blocks) : g \in ValidPart(blockchain, f, clock)
  BY DEF AdoptableForks
<1>2. GoodChain(blockchain) /\ blocks \in Seq(Hash)
  BY EnvironmentAssumption DEF IInv, SoundAt
<1>3. IsFork(blockchain, f)
  BY <1>1, <1>2, BatchIsFork
<1> QED BY <1>1, <1>3

-----------------------------------------------------------------------------
(* Every step keeps the invariant                                          *)

(* The Valid case of submit_block, which appends and saves the block,      *)
(* keeps the invariant.                                                    *)
LEMMA AcceptKeeps ==
  ASSUME IInv, NEW h \in Hash, AcceptBlock(h), UNCHANGED <<clock, running>>
  PROVE  IInv'
<1> DEFINE txs == Blk[h].txs
<1>1. SoundAt(blockchain, rows) /\ RestTyped
  BY IInvSplit
<1>2. txs \in Seq(Transaction)
  BY BlockFields
<1>3. Blk[h].prev = latest(blockchain)
  BY DEF AcceptBlock, ExtendsTip, classify_new_block
<1>4. HeaderIsValid(Blk[h], size(blockchain), clock, Headers(blockchain.blocks))
  BY DEF AcceptBlock, TipHeaderIsValid
<1>5. SoundAt(add_block(blockchain, h), save_block(rows, h, size(blockchain)))
  BY <1>1, <1>3, <1>4, ExtensionIsSound
<1>6. /\ blockchain' = add_block(blockchain, h)
      /\ rows' = save_block(rows, h, size(blockchain))
      /\ ledger' = apply_block_to_ledger(ledger, txs).ledger
      /\ mempool' = RemoveRun(mempool, txs)[Len(txs)]
      /\ tip_version' = tip_version + 1
      /\ to_broadcast' = <<h>>
      /\ orphan_pool' = orphan_pool /\ clock' = clock /\ running' = running
  BY DEF AcceptBlock
<1> HIDE DEF txs
<1>7. ledger' \in LedgerState
  BY <1>1, <1>2, <1>6, ApplyBlockType DEF RestTyped
<1>8. mempool' \in GoodPool
  BY <1>1, <1>2, <1>6, RemoveRunType DEF RestTyped
<1>9. SoundAt(blockchain, rows)'
  BY <1>5, <1>6
<1>10. RestTyped'
  BY <1>1, <1>6, <1>7, <1>8 DEF RestTyped
<1> QED BY <1>9, <1>10, IInvSplit, PTL

(* The reorganisation at the end of handle_fork_candidate keeps it,        *)
(* whatever the order in which the pool was searched.                      *)
LEMMA SwitchKeeps ==
  ASSUME IInv, NEW h \in Hash, SwitchBranch(h), UNCHANGED <<clock, running>>
  PROVE  IInv'
<1> DEFINE pool == add_orphan(orphan_pool, h)
<1>1. SoundAt(blockchain, rows) /\ RestTyped
  BY IInvSplit
<1>2. PICK seen \in Visits(pool, h) :
        \E g \in Heaviest(blockchain, Rivals(pool, seen)) :
          Reorg(g) /\ orphan_pool' = RemoveOrphans(pool, g.blocks) /\ to_broadcast' = g.blocks
  BY DEF SwitchBranch
<1>3. PICK g \in Heaviest(blockchain, Rivals(pool, seen)) :
        Reorg(g) /\ orphan_pool' = RemoveOrphans(pool, g.blocks) /\ to_broadcast' = g.blocks
  BY <1>2
<1>4. PICK f : IsFork(blockchain, f) /\ g \in ValidPart(blockchain, f, clock)
  BY <1>3, RivalJoins
<1>5. /\ SoundAt(blockchain, rows)' /\ mempool' \in GoodPool
      /\ ledger' \in LedgerState /\ tip_version' \in Nat /\ g.blocks \in Seq(Hash)
  BY <1>3, <1>4, ReorgKeeps
<1>6. pool \in Seq(Hash)
  BY <1>1, AddOrphanType DEF RestTyped
<1>7. orphan_pool' \in Seq(Hash)
  BY <1>3, <1>5, <1>6, RemoveOrphansType
<1>8. RestTyped'
  BY <1>1, <1>3, <1>5, <1>7 DEF RestTyped
<1> QED BY <1>5, <1>8, IInvSplit, PTL

(* The outcomes of submit_block that leave the chain alone.                *)
LEMMA SubmitElseKeeps ==
  ASSUME IInv, NEW h \in Hash, UNCHANGED <<clock, running>>,
         RejectBlock(h) \/ RefuseExtension(h) \/ NeedParent(h) \/ KeepSideBranch(h)
  PROVE  IInv'
<1>1. SoundAt(blockchain, rows) /\ RestTyped
  BY IInvSplit
<1>2. /\ blockchain' = blockchain /\ rows' = rows /\ tip_version' = tip_version
      /\ mempool' = mempool /\ to_broadcast' = <<>>
      /\ clock' = clock /\ running' = running
  BY DEF RejectBlock, RefuseExtension, NeedParent, KeepSideBranch
<1>3. ledger' \in LedgerState
  <2>1. CASE RefuseExtension(h)
    <3>1. Blk[h].txs \in Seq(Transaction)
      BY BlockFields
    <3>2. apply_block_to_ledger(ledger, Blk[h].txs).ledger \in LedgerState
      BY <1>1, <3>1, ApplyBlockType DEF RestTyped
    <3>3. ledger' = ledger \/ ledger' = apply_block_to_ledger(ledger, Blk[h].txs).ledger
      BY <2>1 DEF RefuseExtension
    <3> QED BY <1>1, <3>2, <3>3 DEF RestTyped
  <2>2. CASE ~RefuseExtension(h)
    BY <1>1, <2>2 DEF RejectBlock, NeedParent, KeepSideBranch, RestTyped
  <2> QED BY <2>1, <2>2
<1>4. orphan_pool' \in Seq(Hash)
  <2>1. add_orphan(orphan_pool, h) \in Seq(Hash)
    BY <1>1, AddOrphanType DEF RestTyped
  <2> QED BY <1>1, <2>1 DEF RejectBlock, RefuseExtension, NeedParent, KeepSideBranch, RestTyped
<1>5. SoundAt(blockchain, rows)'
  BY <1>1, <1>2
<1>6. RestTyped'
  BY <1>1, <1>2, <1>3, <1>4 DEF RestTyped
<1> QED BY <1>5, <1>6, IInvSplit, PTL

(* The reorganisation of adopt_branch keeps it.                            *)
LEMMA AdoptKeeps ==
  ASSUME IInv, NEW blocks \in Batches, AdoptBranch(blocks)
  PROVE  IInv'
<1>1. SoundAt(blockchain, rows) /\ RestTyped
  BY IInvSplit
<1>2. PICK g \in AdoptableForks(blocks) : Reorg(g)
  BY DEF AdoptBranch
<1>3. PICK f : IsFork(blockchain, f) /\ g \in ValidPart(blockchain, f, clock)
  BY <1>2, BatchJoins
<1>4. /\ SoundAt(blockchain, rows)' /\ mempool' \in GoodPool
      /\ ledger' \in LedgerState /\ tip_version' \in Nat
  BY <1>2, <1>3, ReorgKeeps
<1>5. RestTyped'
  BY <1>1, <1>4 DEF AdoptBranch, RestTyped
<1> QED BY <1>4, <1>5, IInvSplit, PTL

(* Rebuilding chain and ledger from the stored blocks, as the constructor  *)
(* of Orchestrator does, keeps it.                                         *)
LEMMA RestartKeeps ==
  ASSUME IInv, Restart
  PROVE  IInv'
<1>1. SoundAt(blockchain, rows) /\ RestTyped
  BY IInvSplit
<1>2. /\ SoundAt(AddBlocks(GenesisChain, Stored), rows)
      /\ block_count(rows) \in Nat \ {0}
      /\ \A k \in 1..(block_count(rows) - 1) : rows[k] \in Hash
  BY <1>1, RestoreIsSound DEF Stored
<1>3. RestoreRun.ok \in BOOLEAN /\ RestoreRun.ledger \in LedgerState
  BY <1>2, RestoreRunType
<1>4. CanRestore \in BOOLEAN
  BY <1>3 DEF CanRestore
<1>5. /\ rows' = rows /\ clock' = clock /\ to_broadcast' = <<>> /\ running' = CanRestore
      /\ orphan_pool' = <<>> /\ mempool' = <<>>
  BY DEF Restart
<1>6. /\ blockchain' = blockchain \/ blockchain' = AddBlocks(GenesisChain, Stored)
      /\ ledger' = ledger \/ ledger' = RestoreRun.ledger
      /\ tip_version' = tip_version \/ tip_version' = block_count(rows) - 1
  BY DEF Restart
<1>7. <<>> \in GoodPool
  BY MempoolAssumption DEF GoodPool, InOrder
<1>8. SoundAt(blockchain, rows)'
  BY <1>1, <1>2, <1>5, <1>6
<1>9. RestTyped'
  BY <1>1, <1>2, <1>3, <1>4, <1>5, <1>6, <1>7 DEF RestTyped
<1> QED BY <1>8, <1>9, IInvSplit, PTL

(* Every operation of the chain manager keeps the invariant.               *)
LEMMA StepKeeps == IInv /\ [Next]_vars => IInv'
<1> SUFFICES ASSUME IInv, [Next]_vars PROVE IInv'
  OBVIOUS
<1>1. SoundAt(blockchain, rows) /\ RestTyped
  BY IInvSplit
<1>2. ASSUME NEW h \in Hash, submit_block(h) PROVE IInv'
  BY <1>2, AcceptKeeps, SwitchKeeps, SubmitElseKeeps DEF submit_block
<1>3. ASSUME NEW blocks \in Batches, AdoptBranch(blocks) PROVE IInv'
  BY <1>3, AdoptKeeps
<1>4. ASSUME NEW blocks \in Batches, RefuseBranch(blocks) PROVE IInv'
  <2>1. SoundAt(blockchain, rows)'
    BY <1>1, <1>4 DEF RefuseBranch
  <2>2. RestTyped'
    BY <1>1, <1>4 DEF RefuseBranch, RestTyped
  <2> QED BY <2>1, <2>2, IInvSplit, PTL
<1>5. ASSUME NEW tx \in Pending, submit_transaction(tx) PROVE IInv'
  <2>1. SoundAt(blockchain, rows)'
    BY <1>1, <1>5 DEF submit_transaction
  <2>2. mempool' \in GoodPool
    BY <1>1, <1>5, AddKeepsOrder, EnvironmentAssumption DEF submit_transaction, RestTyped
  <2>3. RestTyped'
    BY <1>1, <1>5, <2>2 DEF submit_transaction, RestTyped
  <2> QED BY <2>1, <2>3, IInvSplit, PTL
<1>6. CASE ClockMoves
  <2>1. SoundAt(blockchain, rows)'
    BY <1>1, <1>6 DEF ClockMoves
  <2>2. RestTyped'
    BY <1>1, <1>6 DEF ClockMoves, RestTyped
  <2> QED BY <2>1, <2>2, IInvSplit, PTL
<1>7. CASE Restart
  BY <1>7, RestartKeeps
<1>8. CASE UNCHANGED vars
  <2>1. SoundAt(blockchain, rows)'
    BY <1>1, <1>8 DEF vars
  <2>2. RestTyped'
    BY <1>1, <1>8 DEF vars, RestTyped
  <2> QED BY <2>1, <2>2, IInvSplit, PTL
<1> QED BY <1>2, <1>3, <1>4, <1>5, <1>6, <1>7, <1>8 DEF Next

(* The invariant holds in every state the chain manager reaches.           *)
LEMMA InvariantHolds == Spec => []IInv
BY InitHolds, StepKeeps, PTL DEF Spec

-----------------------------------------------------------------------------
(* The theorems                                                            *)

(* Every value the program holds has its type: in particular cumulative    *)
(* work and balances stay 64-bit values and the pools hold only blocks and *)
(* transactions.                                                           *)
THEOREM TypeCorrect == Spec => []TypeOK
<1>1. IInv => TypeOK
  BY DEF IInv
<1> QED BY <1>1, InvariantHolds, PTL

(* Whatever is submitted, adopted or restored, the chain runs from genesis *)
(* to the tip, its index is exact and its cumulative work adds up.         *)
THEOREM ChainStaysIntact == Spec => []ChainIntact
<1>1. IInv => ChainIntact
  BY DEF IInv, SoundAt, GoodChain, ChainIntact
<1> QED BY <1>1, InvariantHolds, PTL

(* Whichever of extension, reorganisation and catch-up brought a block in, *)
(* it has the required difficulty and is later than the median.            *)
THEOREM ChainKeepsRules == Spec => []ChainObeysRules
<1>1. IInv => ChainObeysRules
  BY DEF IInv, SoundAt, ChainObeysRules
<1> QED BY <1>1, InvariantHolds, PTL

(* After every operation the blocks table holds exactly the chain.         *)
THEOREM DiskFollowsChain == Spec => []DiskMirrorsChain
<1>1. IInv => DiskMirrorsChain
  BY DEF IInv, SoundAt, Mirrors, DiskMirrorsChain, size
<1> QED BY <1>1, InvariantHolds, PTL

(* Submissions, mined blocks and reorganisations leave the mempool sorted, *)
(* signed, free of duplicates and within its capacity.                     *)
THEOREM MempoolStaysInOrder == Spec => []MempoolInOrder
<1>1. IInv => MempoolInOrder
  BY DEF IInv, MempoolInOrder
<1> QED BY <1>1, InvariantHolds, PTL

-----------------------------------------------------------------------------
(* What a step does to the tip                                             *)

(* Good chains of the same blocks have the same work.                      *)
LEMMA WorkIsDetermined ==
  ASSUME NEW a, NEW b, GoodChain(a), GoodChain(b), a.blocks = b.blocks
  PROVE  a.work[size(a)] = b.work[size(b)]
<1> DEFINE n == size(a)
           G == {0} \cup {i \in 1..n : a.work[i] = b.work[i]}
<1>1. n \in Nat \ {0} /\ size(b) = n
  BY ChainFacts DEF size
<1>2. /\ a.work[1] = 0 /\ b.work[1] = 0
      /\ \A i \in 2..n : a.work[i] = Add64(a.work[i - 1], block_work(Blk[a.blocks[i]]))
      /\ \A i \in 2..n : b.work[i] = Add64(b.work[i - 1], block_work(Blk[a.blocks[i]]))
  BY <1>1 DEF GoodChain, Intact
<1> HIDE DEF n
<1>3. ASSUME NEW i \in 1..n, i - 1 \in G PROVE i \in G
  <2>1. CASE i = 1
    BY <1>2, <2>1
  <2>2. CASE i # 1
    <3>1. i \in 2..n /\ i - 1 \in 1..n
      BY <1>1, <2>2
    <3>2. a.work[i - 1] = b.work[i - 1]
      BY <1>3, <3>1
    <3> QED BY <1>2, <3>1, <3>2
  <2> QED BY <2>1, <2>2
<1>4. 0 \in G
  OBVIOUS
<1>5. 0..n \subseteq G
  <2> HIDE DEF G
  <2> QED BY <1>1, <1>3, <1>4, UpTo
<1>6. n \in G /\ n # 0
  BY <1>1, <1>5
<1> QED BY <1>1, <1>6 DEF n

(* A reorganisation gives the chain other blocks and strictly more work.   *)
LEMMA ReorgIsHeavier ==
  ASSUME IInv, NEW f, IsFork(blockchain, f), NEW g \in ValidPart(blockchain, f, clock),
         CanReorg(g), Reorg(g)
  PROVE  /\ TipWork' > TipWork /\ blockchain'.blocks # blockchain.blocks
         /\ tip_version' = tip_version + 1
<1> DEFINE nb == reorganize_to(blockchain, g)
<1>1. GoodChain(blockchain) /\ IsFork(blockchain, g)
  BY ValidPartIsFork DEF IInv, SoundAt
<1>2. /\ GoodChain(nb) /\ size(nb) = g.base + Len(g.blocks)
      /\ nb.work[g.base + Len(g.blocks)] = fork_work(blockchain, g)
  BY <1>1, ReorgGood
<1>3. fork_work(blockchain, g) > blockchain.work[size(blockchain)]
  BY DEF CanReorg, is_fork_heavier
<1>4. nb.work[size(nb)] > blockchain.work[size(blockchain)]
  BY <1>2, <1>3
<1>5. blockchain' = nb /\ tip_version' = tip_version + 1
  BY DEF Reorg
<1> HIDE DEF nb
<1>6. TipWork' > TipWork
  BY <1>4, <1>5 DEF TipWork
<1>7. nb.blocks # blockchain.blocks
  <2> SUFFICES ASSUME nb.blocks = blockchain.blocks PROVE FALSE
    OBVIOUS
  <2>1. nb.work[size(nb)] = blockchain.work[size(blockchain)]
    BY <1>1, <1>2, WorkIsDetermined
  <2>2. nb.work[size(nb)] \in Int
    <3>1. size(nb) \in 1..size(nb)
      <4>1. size(nb) \in Nat \ {0}
        BY <1>2, ChainFacts, Zenon
      <4> QED BY <4>1
    <3>2. nb.work[size(nb)] \in Word
      BY <1>2, <3>1, ChainWorkType
    <3> QED BY <3>2, LedgerAssumption DEF Word
  <2> QED BY <1>4, <2>1, <2>2
<1> QED BY <1>5, <1>6, <1>7

(* The step either keeps the chain and its version, or is a restart on the *)
(* same chain, or extends the chain by one block, or moves it to other     *)
(* blocks with strictly more work.                                         *)
StepOfTip ==
  \/ blockchain'.blocks = blockchain.blocks /\ tip_version' = tip_version
  \/ Restart /\ blockchain'.blocks = blockchain.blocks
  \/ /\ \E h \in Hash : AcceptBlock(h)
     /\ tip_version' = tip_version + 1
  \/ /\ blockchain'.blocks # blockchain.blocks
     /\ TipWork' > TipWork
     /\ tip_version' = tip_version + 1

(* Every operation either leaves the chain alone or moves the tip and its  *)
(* version together.                                                       *)
LEMMA TipSteps == IInv /\ [Next]_vars => StepOfTip
<1> SUFFICES ASSUME IInv, [Next]_vars PROVE StepOfTip
  OBVIOUS
<1>1. ASSUME NEW h \in Hash, submit_block(h) PROVE StepOfTip
  <2>1. CASE AcceptBlock(h)
    BY <2>1 DEF AcceptBlock, StepOfTip
  <2>2. CASE SwitchBranch(h)
    <3>1. PICK seen \in Visits(add_orphan(orphan_pool, h), h) :
            \E g \in Heaviest(blockchain, Rivals(add_orphan(orphan_pool, h), seen)) :
              CanReorg(g) /\ Reorg(g)
      BY <2>2 DEF SwitchBranch
    <3>2. PICK g \in Heaviest(blockchain, Rivals(add_orphan(orphan_pool, h), seen)) :
            CanReorg(g) /\ Reorg(g)
      BY <3>1
    <3>3. PICK f : IsFork(blockchain, f) /\ g \in ValidPart(blockchain, f, clock)
      BY <3>2, RivalJoins
    <3> QED BY <3>2, <3>3, ReorgIsHeavier DEF StepOfTip
  <2>3. CASE RejectBlock(h) \/ RefuseExtension(h) \/ NeedParent(h) \/ KeepSideBranch(h)
    BY <2>3 DEF RejectBlock, RefuseExtension, NeedParent, KeepSideBranch, StepOfTip
  <2> QED BY <1>1, <2>1, <2>2, <2>3 DEF submit_block
<1>2. ASSUME NEW blocks \in Batches, AdoptBranch(blocks) PROVE StepOfTip
  <2>1. PICK g \in AdoptableForks(blocks) : Reorg(g)
    BY <1>2 DEF AdoptBranch
  <2>2. PICK f : IsFork(blockchain, f) /\ g \in ValidPart(blockchain, f, clock)
    BY <2>1, BatchJoins
  <2>3. CanReorg(g)
    BY <2>1 DEF AdoptableForks
  <2> QED BY <2>1, <2>2, <2>3, ReorgIsHeavier DEF StepOfTip
<1>3. ASSUME NEW blocks \in Batches, RefuseBranch(blocks) PROVE StepOfTip
  BY <1>3 DEF RefuseBranch, StepOfTip
<1>4. ASSUME NEW tx \in Pending, submit_transaction(tx) PROVE StepOfTip
  BY <1>4 DEF submit_transaction, StepOfTip
<1>5. CASE ClockMoves
  BY <1>5 DEF ClockMoves, StepOfTip
<1>6. CASE Restart
  <2>1. AddBlocks(GenesisChain, Stored).blocks = blockchain.blocks
    BY RestoreIsSound DEF IInv, Stored
  <2>2. blockchain' = blockchain \/ blockchain' = AddBlocks(GenesisChain, Stored)
    BY <1>6 DEF Restart
  <2> QED BY <1>6, <2>1, <2>2 DEF StepOfTip
<1>7. CASE UNCHANGED vars
  BY <1>7 DEF vars, StepOfTip
<1> QED BY <1>1, <1>2, <1>3, <1>4, <1>5, <1>6, <1>7 DEF Next

(* An accepted block makes the chain one block longer, and its work is     *)
(* added in 64 bits.                                                       *)
LEMMA AcceptExtends ==
  ASSUME IInv, NEW h \in Hash, AcceptBlock(h)
  PROVE  /\ blockchain'.blocks = blockchain.blocks \o <<h>>
         /\ size(blockchain)' = size(blockchain) + 1
         /\ GoodChain(blockchain)'
         /\ blockchain'.work[size(blockchain)] = TipWork
         /\ TipWork' = Add64(TipWork, block_work(Blk[h]))
<1> DEFINE nb == add_block(blockchain, h)
           e == <<h>>
           n == size(blockchain)
<1>1. SoundAt(blockchain, rows)
  BY DEF IInv
<1>2. Blk[h].prev = latest(blockchain)
  BY DEF AcceptBlock, ExtendsTip, classify_new_block
<1>3. HeaderIsValid(Blk[h], size(blockchain), clock, Headers(blockchain.blocks))
  BY DEF AcceptBlock, TipHeaderIsValid
<1>4. /\ SoundAt(nb, save_block(rows, h, n)) /\ nb.blocks = blockchain.blocks \o <<h>>
  BY <1>1, <1>2, <1>3, ExtensionIsSound
<1>5. GoodChain(nb) /\ GoodChain(blockchain) /\ n \in Nat \ {0} /\ blockchain.blocks \in Seq(Hash)
  BY <1>1, <1>4, ChainFacts DEF SoundAt, GoodChain
<1>6. nb.blocks[n + 1] = h /\ size(nb) = n + 1
  <2> DEFINE old == blockchain.blocks
             new == nb.blocks
  <2>1. old \in Seq(Hash) /\ Len(old) = n /\ new = old \o <<h>>
    BY <1>4, <1>5 DEF size
  <2>2. size(nb) = Len(new)
    BY DEF size
  <2> HIDE DEF old, new, n
  <2> QED BY <2>1, <2>2 DEF new
<1>7. nb.work[n + 1] = Add64(nb.work[n], block_work(Blk[h]))
  <2>1. n + 1 \in 2..size(nb) /\ (n + 1) - 1 = n
    BY <1>5, <1>6
  <2> HIDE DEF nb, n
  <2> QED BY <1>5, <1>6, <2>1 DEF GoodChain, Intact
<1>8. nb.work[n] = blockchain.work[n]
  <2>1. nb.work = blockchain.work \o
                    [i \in DOMAIN e |-> BranchWork(blockchain.work[n], e)[i]]
    BY DEF add_block, AddBlocks
  <2>2. blockchain.work \in Seq(Word) /\ Len(blockchain.work) = n
    BY <1>5 DEF GoodChain, Intact
  <2> DEFINE w == blockchain.work
             x == [i \in DOMAIN e |-> BranchWork(w[n], e)[i]]
  <2>3. x \in Seq(Word)
    <3>1. e \in Seq(Hash) /\ Len(e) = 1 /\ DOMAIN e = 1..1
      OBVIOUS
    <3>2. w[n] \in Word
      <4>1. n \in 1..n
        BY <1>5
      <4> QED BY <1>5, <4>1, ChainWorkType
    <3> HIDE DEF e
    <3>3. BranchWork(w[n], e) \in [0..1 -> Word]
      BY <3>1, <3>2, BranchWorkDef
    <3>4. BranchWork(w[n], e)[1] \in Word
      BY <3>3
    <3> HIDE DEF w
    <3> QED BY <3>1, <3>4
  <2>4. w \in Seq(Word) /\ n \in 1..Len(w) /\ nb.work = w \o x
    BY <1>5, <2>1, <2>2
  <2> HIDE DEF x, w, nb, n
  <2>5. (w \o x)[n] = w[n]
    BY <2>3, <2>4, Join
  <2> QED BY <2>4, <2>5 DEF w
<1>9. blockchain' = nb
  BY DEF AcceptBlock
<1> HIDE DEF nb
<1> QED BY <1>4, <1>5, <1>6, <1>7, <1>8, <1>9 DEF TipWork, n

(* The counter the miner polls moves exactly when the chain does.          *)
THEOREM TipVersionFollows == Spec => TipVersionTracksTip
<1>1. IInv /\ [Next]_vars =>
        (~Restart => IF blockchain'.blocks = blockchain.blocks
                     THEN tip_version' = tip_version
                     ELSE tip_version' = tip_version + 1)
  <2> SUFFICES ASSUME IInv, [Next]_vars, ~Restart
               PROVE  IF blockchain'.blocks = blockchain.blocks
                      THEN tip_version' = tip_version
                      ELSE tip_version' = tip_version + 1
    OBVIOUS
  <2>1. ASSUME NEW h \in Hash, AcceptBlock(h) PROVE blockchain'.blocks # blockchain.blocks
    <3>1. blockchain'.blocks = blockchain.blocks \o <<h>>
      BY <2>1, AcceptExtends
    <3>2. blockchain.blocks \in Seq(Hash)
      BY DEF IInv, TypeOK
    <3>3. Len(blockchain.blocks \o <<h>>) = Len(blockchain.blocks) + 1
          /\ Len(blockchain.blocks) \in Nat
      BY <3>2
    <3> QED BY <3>1, <3>3
  <2> QED BY <2>1, TipSteps DEF StepOfTip
<1> QED BY <1>1, InvariantHolds, PTL DEF Spec, TipVersionTracksTip

(* No good chain of the blocks that exist overflows its 64-bit work.       *)
WorkFits ==
  \A bc : GoodChain(bc) =>
    \A i \in 2..size(bc) : bc.work[i - 1] + block_work(Blk[bc.blocks[i]]) < U64

(* As long as cumulative work does not overflow 64 bits, a step that       *)
(* changes the chain ends with more work.                                  *)
LEMMA WorkStep ==
  ASSUME WorkFits
  PROVE  IInv /\ [Next]_vars => (blockchain'.blocks # blockchain.blocks => TipWork' > TipWork)
<1> SUFFICES ASSUME IInv, [Next]_vars, blockchain'.blocks # blockchain.blocks
             PROVE  TipWork' > TipWork
  OBVIOUS
<1>1. ASSUME NEW h \in Hash, AcceptBlock(h) PROVE TipWork' > TipWork
  <2> DEFINE n == size(blockchain)
             w == block_work(Blk[h])
             nb == blockchain'
  <2>1. /\ nb.blocks = blockchain.blocks \o <<h>> /\ size(nb) = n + 1
        /\ GoodChain(nb) /\ TipWork' = Add64(TipWork, w)
    BY <1>1, AcceptExtends
  <2>2. GoodChain(blockchain) /\ blockchain.blocks \in Seq(Hash) /\ n \in Nat \ {0}
    BY ChainFacts DEF IInv, SoundAt, GoodChain
  <2>3. TipWork \in Nat
    <3>1. n \in 1..n
      BY <2>2
    <3>2. TipWork \in Word
      BY <2>2, <3>1, ChainWorkType DEF TipWork
    <3> QED BY <3>2, LedgerAssumption DEF Word
  <2>4. w \in Nat /\ w > 0
    BY WorkType, LedgerAssumption DEF Word
  <2>5. TipWork + w < U64
    <3>1. nb.blocks[n + 1] = h
      BY <2>1, <2>2 DEF size
    <3>2. n + 1 \in 2..size(nb) /\ (n + 1) - 1 = n
      <4>1. size(nb) = n + 1 /\ n \in Nat \ {0}
        BY <2>1, <2>2
      <4> HIDE DEF n, nb
      <4> QED BY <4>1
    <3>3. nb.work[n] + w < U64
      <4>1. nb.work[(n + 1) - 1] + block_work(Blk[nb.blocks[n + 1]]) < U64
        BY <2>1, <3>2 DEF WorkFits
      <4> QED BY <3>1, <3>2, <4>1
    <3>4. nb.work[n] = TipWork
      BY <1>1, AcceptExtends
    <3> QED BY <3>3, <3>4
  <2> QED BY <2>1, <2>3, <2>4, <2>5 DEF Add64
<1> QED BY <1>1, TipSteps DEF StepOfTip

(* As long as cumulative work does not overflow 64 bits, the node only     *)
(* ever moves to a chain with strictly more work.                          *)
THEOREM WorkGrows == ASSUME WorkFits PROVE Spec => WorkNeverDecreases
BY WorkStep, InvariantHolds, PTL DEF Spec, WorkNeverDecreases

(* WorkOf adds up the work of a chain block by block.                      *)
LEMMA WorkOfDef ==
  ASSUME NEW blocks \in Seq(Hash)
  PROVE  \E run \in [0..Len(blocks) -> Nat] :
           /\ WorkOf(blocks) = run[Len(blocks)]
           /\ run[0] = 0
           /\ Len(blocks) >= 1 => run[1] = 0
           /\ \A i \in 2..Len(blocks) : run[i] = run[i - 1] + block_work(Blk[blocks[i]])
<1> DEFINE n == Len(blocks)
           Step(i, x) == IF i = 1 THEN 0 ELSE x + block_work(Blk[blocks[i]])
           step == [y \in (1..n) \X Nat |-> Step(y[1], y[2])]
           Def(f) == f = [i \in 0..n |-> IF i <= 1 THEN 0
                                          ELSE f[i - 1] + block_work(Blk[blocks[i]])]
           run == CHOOSE f : Def(f)
<1>1. n \in Nat /\ \A i \in 1..n : blocks[i] \in Hash
  OBVIOUS
<1>2. \A i \in 1..n, x \in Nat : Step(i, x) \in Nat
  BY <1>1, WorkType, LedgerAssumption DEF Word
<1>3. WorkOf(blocks) = run[n]
  BY DEF WorkOf
<1> HIDE DEF n, run
<1>4. step \in [(1..n) \X Nat -> Nat]
  BY <1>2
<1>5. \A i \in 1..n, x \in Nat : step[<<i, x>>] = Step(i, x)
  OBVIOUS
<1> HIDE DEF step
<1>6. PICK g : IsRun(g, Nat, n, 0, step)
  BY <1>1, <1>4, RunExists
<1>7. /\ g \in [0..n -> Nat] /\ g[0] = 0
      /\ \A i \in 1..n : g[i] = Step(i, g[i - 1])
  <2>1. ASSUME NEW i \in 1..n PROVE g[i] = Step(i, g[i - 1])
    <3>1. i - 1 \in 0..n
      BY <1>1
    <3>2. g[i - 1] \in Nat /\ g[i] = step[<<i, g[i - 1]>>]
      BY <1>6, <3>1 DEF IsRun
    <3> HIDE DEF Step
    <3> QED BY <1>5, <3>2
  <2> HIDE DEF Step
  <2> QED BY <1>6, <2>1 DEF IsRun
<1>8. Def(g)
  BY <1>1, <1>7
<1>9. Def(run)
  <2> HIDE DEF Def
  <2> QED BY <1>8 DEF run
<1>10. /\ run = [i \in 0..n |-> run[i]] /\ run[0] = 0 /\ (n >= 1 => run[1] = 0)
       /\ \A i \in 2..n : run[i] = run[i - 1] + block_work(Blk[blocks[i]])
  BY <1>1, <1>9
<1>11. ASSUME NEW i \in 1..n PROVE run[i] = Step(i, run[i - 1])
  <2>1. CASE i = 1
    BY <1>1, <1>10, <2>1
  <2>2. CASE i # 1
    <3>1. i \in 2..n
      BY <1>1, <2>2
    <3> QED BY <1>10, <2>2, <3>1
  <2> QED BY <2>1, <2>2
<1>12. IsRun(run, Nat, n, 0, step)
  <2> HIDE DEF Step
  <2> QED BY <1>1, <1>4, <1>5, <1>10, <1>11, RunTyped
<1> QED BY <1>3, <1>10, <1>12 DEF IsRun, n

(* As long as it does not overflow, the 64-bit work of a chain is its work.*)
LEMMA WorkIsExact ==
  ASSUME WorkFits, NEW bc, GoodChain(bc)
  PROVE  bc.work[size(bc)] = WorkOf(bc.blocks) /\ WorkOf(bc.blocks) \in Nat
<1> DEFINE n == size(bc)
<1>1. n \in Nat \ {0} /\ bc.blocks \in Seq(Hash) /\ n = Len(bc.blocks)
  BY ChainFacts DEF GoodChain, size
<1>2. PICK run \in [0..n -> Nat] :
        /\ WorkOf(bc.blocks) = run[n] /\ run[1] = 0
        /\ \A i \in 2..n : run[i] = run[i - 1] + block_work(Blk[bc.blocks[i]])
  <2> HIDE DEF n
  <2>1. n >= 1
    BY <1>1
  <2>2. PICK run \in [0..Len(bc.blocks) -> Nat] :
          /\ WorkOf(bc.blocks) = run[Len(bc.blocks)]
          /\ run[0] = 0
          /\ Len(bc.blocks) >= 1 => run[1] = 0
          /\ \A i \in 2..Len(bc.blocks) :
               run[i] = run[i - 1] + block_work(Blk[bc.blocks[i]])
    BY <1>1, WorkOfDef
  <2> QED BY <1>1, <2>1, <2>2
<1> DEFINE G == {0} \cup {i \in 1..n : bc.work[i] = run[i]}
<1>3. ASSUME NEW i \in 1..n, i - 1 \in G PROVE i \in G
  <2>1. CASE i = 1
    <3>1. bc.work[1] = 0
      BY DEF GoodChain, Intact
    <3> QED BY <1>2, <2>1, <3>1
  <2>2. CASE i # 1
    <3>1. i \in 2..n /\ i - 1 \in 1..n /\ i - 1 \in 0..n
      BY <1>1, <2>2
    <3> DEFINE w == block_work(Blk[bc.blocks[i]])
    <3>2. bc.work[i - 1] = run[i - 1] /\ run[i - 1] \in Nat
      <4> HIDE DEF n
      <4> QED BY <1>2, <1>3, <3>1
    <3>3. w \in Nat
      BY <1>1, WorkType, LedgerAssumption DEF Word
    <3>4. bc.work[i] = Add64(bc.work[i - 1], w)
      BY <3>1 DEF GoodChain, Intact
    <3>5. bc.work[i - 1] + w < U64
      BY <3>1 DEF WorkFits
    <3>6. run[i] = run[i - 1] + w
      BY <1>2, <3>1
    <3> HIDE DEF w, n
    <3>7. bc.work[i] = run[i]
      BY <3>2, <3>3, <3>4, <3>5, <3>6, LedgerAssumption DEF Add64
    <3> QED BY <3>7
  <2> QED BY <2>1, <2>2
<1>4. 0..n \subseteq G
  <2>1. 0 \in G
    OBVIOUS
  <2> HIDE DEF G, n
  <2> QED BY <1>1, <1>3, <2>1, UpTo
<1>5. n \in 0..n /\ n # 0
  BY <1>1
<1>6. bc.work[n] = run[n] /\ run[n] \in Nat
  <2> HIDE DEF n
  <2> QED BY <1>2, <1>4, <1>5
<1> QED BY <1>2, <1>6

(* Seen through its tip, the node starts from genesis and only ever moves  *)
(* to a valid chain with more total work: submissions, reorganisations,    *)
(* catch-ups and restarts together implement HeaviestChain.                *)
THEOREM ImplementsHeaviest == ASSUME WorkFits PROVE Spec => FollowsHeaviest
<1> DEFINE total == [h \in Hash |-> WorkOf(History[h])]
<1>1. Init => latest(blockchain) = Genesis
  BY DEF Init, GenesisChain, latest, size
<1>2. ASSUME IInv, IInv', [Next]_vars, blockchain'.blocks # blockchain.blocks
      PROVE  \E b \in ValidTip : total[b] > total[latest(blockchain)] /\ latest(blockchain)' = b
  <2> DEFINE old == blockchain
             new == blockchain'
  <2>1. TipWork' > TipWork
    BY <1>2, WorkStep
  <2>2. GoodChain(old) /\ GoodChain(new) /\ ObeysRules(new.blocks)
    BY <1>2 DEF IInv, SoundAt
  <2>3. latest(new) \in Hash /\ latest(old) \in Hash
    BY <2>2, ChainFacts
  <2>4. /\ History[latest(new)] = new.blocks /\ new.blocks[1] = Genesis
        /\ History[latest(old)] = old.blocks
    BY <2>2 DEF GoodChain, Intact
  <2>5. TipWork = WorkOf(old.blocks) /\ TipWork' = WorkOf(new.blocks)
    BY <2>2, WorkIsExact DEF TipWork
  <2>6. latest(new) \in ValidTip
    BY <2>2, <2>3, <2>4 DEF ValidTip
  <2>7. total[latest(new)] > total[latest(old)]
    BY <2>1, <2>3, <2>4, <2>5
  <2>8. latest(blockchain)' = latest(new)
    BY DEF latest, size
  <2> QED BY <2>6, <2>7, <2>8
<1>3. blockchain'.blocks = blockchain.blocks => latest(blockchain)' = latest(blockchain)
  BY DEF latest, size
<1>4. IInv /\ IInv' /\ [Next]_vars => [Promise!Next]_(latest(blockchain))
  BY <1>2, <1>3 DEF Promise!Next, Promise!MoveTo
<1>5. Spec => Promise!Init
  BY <1>1 DEF Spec, Promise!Init
<1> QED BY <1>4, <1>5, InvariantHolds, PTL DEF Spec, FollowsHeaviest, Promise!Spec
=============================================================================
