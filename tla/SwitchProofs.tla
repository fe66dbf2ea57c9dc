---------------------------- MODULE SwitchProofs ----------------------------
(***************************************************************************)
(* What a switch of branches gives the network and leaves in the pool, for *)
(* every set of blocks, every capacity and every depth.                    *)
(***************************************************************************)
EXTENDS ChainManagerProofs

-----------------------------------------------------------------------------
(* What enters the chain                                                   *)

(* build_fork_chain stops at the first parent on the chain, so of the      *)
(* blocks it collects only the tip it started from may be there.           *)
LEMMA OnlyTheTipIsKnown ==
  ASSUME NEW bc, NEW pool, NEW tip \in Hash, NEW f \in build_fork_chain(bc, pool, tip),
         NEW i \in 1..(Len(f.blocks) - 1)
  PROVE  ~has_block(bc, f.blocks[i])
<1> DEFINE past == History[tip]
           len == Len(past)
<1>1. past \in Seq(Hash) /\ len \in Nat \ {0} /\ len = Len(past)
  BY HistoryFacts
<1>2. PICK n \in Attach(bc, tip) :
        /\ f = [base |-> bc.height_by_hash[past[len - n]] + 1,
                blocks |-> SubSeq(past, len - n + 1, len)]
        /\ \A k \in 1..(n - 1) : k \notin Attach(bc, tip)
  BY DEF build_fork_chain
<1>3. n \in 1..(len - 1) /\ f.blocks = SubSeq(past, len - n + 1, len)
  BY <1>2 DEF Attach
<1>4. \A k \in 1..(n - 1) : ~has_block(bc, past[len - k])
  <2>1. \A k \in 1..(n - 1) : k \in 1..(len - 1)
    BY <1>3, <1>1
  <2> QED BY <1>2, <2>1 DEF Attach
<1> HIDE DEF past, len
<1> DEFINE a == len - n + 1
<1>5. a \in 1..(len + 1) /\ len \in 0..len /\ a <= len + 1 /\ len - a + 1 = n /\ n \in Nat
  BY <1>3, <1>1
<1>6. Len(f.blocks) = n /\ \A j \in 1..n : f.blocks[j] = past[j + a - 1]
  <2>1. /\ Len(SubSeq(past, a, len)) = len - a + 1
        /\ \A j \in 1..(len - a + 1) : SubSeq(past, a, len)[j] = past[j + a - 1]
    <3> HIDE DEF a
    <3> QED BY <1>1, <1>5, Piece
  <2> QED BY <1>3, <1>5, <2>1
<1>7. i \in 1..n /\ n - i \in 1..(n - 1) /\ i + a - 1 = len - (n - i)
  BY <1>1, <1>5, <1>6
<1> QED BY <1>4, <1>6, <1>7

(* Without overflow, work does not fall along a chain.                     *)
LEMMA WorkClimbs ==
  ASSUME WorkFits, NEW bc, GoodChain(bc), NEW k \in 1..size(bc)
  PROVE  bc.work[k] <= bc.work[size(bc)]
<1> DEFINE n == size(bc)
           m == n - k
           G == {d \in 0..m : bc.work[k] <= bc.work[k + d]}
<1>1. n \in Nat \ {0} /\ k \in 1..n /\ m \in Nat
  BY ChainFacts
<1>2. \A i \in 1..n : bc.work[i] \in Nat
  BY ChainWorkType, LedgerAssumption DEF Word
<1>3. ASSUME NEW d \in 1..m, d - 1 \in G PROVE d \in G
  <2> DEFINE i == k + d
             w == block_work(Blk[bc.blocks[i]])
  <2>1. i \in 2..n /\ i - 1 = k + (d - 1) /\ i - 1 \in 1..n /\ i \in 1..n
    BY <1>1
  <2>2. bc.work[i] = Add64(bc.work[i - 1], w) /\ bc.work[i - 1] + w < U64
    BY <2>1, Zenon DEF GoodChain, Intact, WorkFits
  <2>3. w \in Nat
    <3>1. bc.blocks[i] \in Hash
      BY <2>1, ChainFacts
    <3> QED BY <3>1, WorkType, LedgerAssumption DEF Word
  <2>4. bc.work[k] <= bc.work[i - 1] /\ bc.work[i - 1] \in Nat /\ bc.work[k] \in Nat
    BY <1>1, <1>2, <1>3, <2>1
  <2> HIDE DEF w
  <2>5. bc.work[k] <= bc.work[i]
    BY <2>2, <2>3, <2>4, LedgerAssumption DEF Add64
  <2> QED BY <2>5
<1>4. 0 \in G
  BY <1>1, <1>2
<1>5. 0..m \subseteq G
  <2> HIDE DEF G, m
  <2> QED BY <1>1, <1>3, <1>4, UpTo
<1>6. m \in 0..m /\ k + m = n
  BY <1>1
<1> QED BY <1>5, <1>6

(* Nor is the last block of a branch that outweighs the chain known: the   *)
(* chain would then contain the whole branch.                              *)
LEMMA HeavierEndsOutside ==
  ASSUME WorkFits, NEW bc, GoodChain(bc), NEW g, IsFork(bc, g), is_fork_heavier(bc, g)
  PROVE  ~has_block(bc, g.blocks[Len(g.blocks)])
<1> DEFINE x == g.blocks[Len(g.blocks)]
           m == bc.height_by_hash[x] + 1
           nb == reorganize_to(bc, g)
           cut == Truncate(bc, m)
<1> SUFFICES ASSUME has_block(bc, x) PROVE FALSE
  OBVIOUS
<1>1. m \in 1..size(bc) /\ bc.blocks[m] = x
  BY ChainFacts, SMTT(30)
<1>2. History[x] = SubSeq(bc.blocks, 1, m)
  BY <1>1, ChainFacts, Zenon
<1>3. /\ GoodChain(nb) /\ size(nb) = g.base + Len(g.blocks)
      /\ nb.blocks = SubSeq(bc.blocks, 1, g.base) \o g.blocks
      /\ nb.work[size(nb)] = fork_work(bc, g)
  BY ReorgGood, ZenonT(30)
<1>4. /\ GoodChain(cut) /\ cut.blocks = SubSeq(bc.blocks, 1, m) /\ size(cut) = m
      /\ cut.work[m] = bc.work[m]
  <2> HIDE DEF m
  <2> QED BY <1>1, TruncateGood
<1>5. nb.blocks = History[x]
  <2>1. /\ g.blocks \in Seq(Hash) /\ Len(g.blocks) \in 1..Len(g.blocks)
        /\ SubSeq(bc.blocks, 1, g.base) \o SubSeq(g.blocks, 1, Len(g.blocks)) = History[x]
    BY DEF IsFork
  <2>2. SubSeq(g.blocks, 1, Len(g.blocks)) = g.blocks
    BY <2>1
  <2> QED BY <1>3, <2>1, <2>2, Zenon
<1> HIDE DEF nb, cut, m
<1>6. nb.work[size(nb)] = bc.work[m]
  BY <1>2, <1>3, <1>4, <1>5, WorkIsDetermined, ZenonT(30)
<1>7. bc.work[m] <= bc.work[size(bc)]
  BY <1>1, WorkClimbs
<1>8. bc.work[m] \in Nat /\ bc.work[size(bc)] \in Nat
  <2>1. size(bc) \in 1..size(bc)
    BY ChainFacts
  <2> QED BY <1>1, <2>1, ChainWorkType, LedgerAssumption DEF Word
<1> QED BY <1>3, <1>6, <1>7, <1>8 DEF is_fork_heavier

(* What AnnouncesWhatEntered says of a step.                               *)
AnnouncedEntered ==
  to_broadcast' # <<>> =>
    LET n == size(blockchain') - Len(to_broadcast')
    IN  /\ to_broadcast' = SubSeq(blockchain'.blocks, n + 1, size(blockchain'))
        /\ \A i \in DOMAIN to_broadcast' : ~has_block(blockchain, to_broadcast'[i])
        /\ \A i \in 1..n : blockchain'.blocks[i] = blockchain.blocks[i]

(* New blocks on top of the first `base' blocks of the chain, announced as *)
(* they stand, are announced exactly.                                      *)
LEMMA AnnouncedOnTop ==
  ASSUME NEW base \in Nat, blockchain.blocks \in Seq(Hash), base <= Len(blockchain.blocks),
         to_broadcast' \in Seq(Hash),
         blockchain'.blocks = SubSeq(blockchain.blocks, 1, base) \o to_broadcast',
         \A i \in 1..Len(to_broadcast') : ~has_block(blockchain, to_broadcast'[i])
  PROVE  AnnouncedEntered
<1> DEFINE lower == SubSeq(blockchain.blocks, 1, base)
           top == to_broadcast'
           new == blockchain'.blocks
           m == Len(top)
<1>1. lower \in Seq(Hash) /\ Len(lower) = base /\ \A i \in 1..base : lower[i] = blockchain.blocks[i]
  BY PrefixIsSeq
<1>2. top \in Seq(Hash) /\ m \in Nat /\ DOMAIN top = 1..m /\ m = Len(top) /\ new = lower \o top
  OBVIOUS
<1>3. size(blockchain') = Len(new)
  BY DEF size
<1> HIDE DEF lower, top, new
<1>4. /\ new \in Seq(Hash) /\ Len(new) = base + m
      /\ \A i \in 1..base : new[i] = lower[i]
      /\ \A i \in (base + 1)..(base + m) : new[i] = top[i - base]
  <2>1. /\ lower \o top \in Seq(Hash) /\ Len(lower \o top) = Len(lower) + Len(top)
        /\ \A i \in 1..Len(lower) : (lower \o top)[i] = lower[i]
        /\ \A i \in (Len(lower) + 1)..(Len(lower) + Len(top)) :
             (lower \o top)[i] = top[i - Len(lower)]
    BY <1>1, <1>2, Join, ZenonT(30)
  <2> QED BY <1>1, <1>2, <2>1
<1> DEFINE piece == SubSeq(new, base + 1, base + m)
<1>5. piece \in Seq(Hash) /\ Len(piece) = m /\ \A i \in 1..m : piece[i] = new[i + base]
  <2>1. /\ base + 1 \in 1..(Len(new) + 1) /\ base + m \in 0..Len(new)
        /\ base + 1 <= (base + m) + 1 /\ (base + m) - (base + 1) + 1 = m
        /\ \A i \in 1..m : i + (base + 1) - 1 = i + base
    BY <1>2, <1>4
  <2> HIDE DEF m
  <2> QED BY <1>4, <2>1, Piece
<1>6. piece = top
  <2>1. ASSUME NEW i \in 1..m PROVE piece[i] = top[i]
    <3>1. i + base \in (base + 1)..(base + m) /\ (i + base) - base = i
      BY <1>2
    <3> QED BY <1>4, <1>5, <3>1
  <2> HIDE DEF piece
  <2> QED BY <1>2, <1>5, <2>1, SameSeq
<1>7. Len(new) - m = base
  BY <1>2, <1>4
<1>8. \A i \in 1..base : new[i] = blockchain.blocks[i]
  BY <1>1, <1>4
<1>9. \A i \in DOMAIN top : ~has_block(blockchain, top[i])
  BY <1>2 DEF top
<1> QED BY <1>3, <1>4, <1>6, <1>7, <1>8, <1>9, Zenon DEF AnnouncedEntered, top, new

(* AcceptBlock announces the block it appends.                             *)
LEMMA AcceptAnnounces ==
  ASSUME IInv, NEW h \in Hash, AcceptBlock(h)
  PROVE  AnnouncedEntered
<1> DEFINE old == blockchain.blocks
           n == Len(old)
<1>1. old \in Seq(Hash) /\ n \in Nat /\ GoodChain(blockchain)
  BY DEF IInv, TypeOK, SoundAt
<1>2. blockchain'.blocks = old \o <<h>> /\ GoodChain(blockchain') /\ size(blockchain') = n + 1
  BY AcceptExtends DEF size
<1>3. to_broadcast' = <<h>>
  BY DEF AcceptBlock
<1>4. SubSeq(old, 1, n) = old
  BY <1>1
<1>5. ~has_block(blockchain, h)
  <2> SUFFICES ASSUME has_block(blockchain, h) PROVE FALSE
    OBVIOUS
  <2>1. PICK i \in 1..n : old[i] = h
    BY <1>1, ChainFacts DEF size
  <2>2. blockchain'.blocks[i] = h /\ blockchain'.blocks[n + 1] = h
    BY <1>1, <1>2, <2>1
  <2>3. i \in 1..(n + 1) /\ n + 1 \in 1..(n + 1) /\ i # n + 1
    BY <1>1
  <2>4. \A k, j \in 1..(n + 1) : blockchain'.blocks[k] = blockchain'.blocks[j] => k = j
    BY <1>2, ChainFacts
  <2> QED BY <2>2, <2>3, <2>4
<1>6. /\ to_broadcast' \in Seq(Hash)
      /\ \A i \in 1..Len(to_broadcast') : ~has_block(blockchain, to_broadcast'[i])
  BY <1>3, <1>5
<1>7. blockchain'.blocks = SubSeq(old, 1, n) \o to_broadcast'
  BY <1>2, <1>3, <1>4, Zenon
<1>8. n <= n
  BY <1>1
<1> QED BY <1>1, <1>6, <1>7, <1>8, AnnouncedOnTop, Zenon

(* SwitchBranch announces the branch it moves to, none of which was known. *)
LEMMA SwitchAnnounces ==
  ASSUME WorkFits, IInv, NEW h \in Hash, SwitchBranch(h)
  PROVE  AnnouncedEntered
<1> DEFINE pool == add_orphan(orphan_pool, h)
<1>1. PICK seen \in Visits(pool, h) :
        \E g \in Heaviest(blockchain, Rivals(pool, seen)) :
          CanReorg(g) /\ Reorg(g) /\ to_broadcast' = g.blocks
  BY DEF SwitchBranch
<1>2. PICK g \in Heaviest(blockchain, Rivals(pool, seen)) :
        CanReorg(g) /\ Reorg(g) /\ to_broadcast' = g.blocks
  BY <1>1
<1>3. GoodChain(blockchain) /\ blockchain.blocks \in Seq(Hash) /\ pool \in Seq(Hash)
  BY AddOrphanType DEF IInv, TypeOK, SoundAt
<1>4. PICK tip \in find_fork_tips(pool, seen) :
        \E f \in build_fork_chain(blockchain, pool, tip) : g \in ValidPart(blockchain, f, clock)
  BY <1>2 DEF Heaviest, Rivals, Branches
<1>5. PICK f \in build_fork_chain(blockchain, pool, tip) : g \in ValidPart(blockchain, f, clock)
  BY <1>4
<1>6. tip \in Hash
  BY <1>1, <1>3, <1>4, TipsAreBlocks
<1>7. IsFork(blockchain, f)
  BY <1>3, <1>5, <1>6, BuiltIsFork, SMTT(30)
<1>8. /\ IsFork(blockchain, g) /\ Len(g.blocks) <= Len(f.blocks)
      /\ \A i \in 1..Len(g.blocks) : g.blocks[i] = f.blocks[i]
  BY <1>5, <1>7, ValidPartIsFork, SMTT(30)
<1>9. /\ g.blocks \in Seq(Hash) /\ g.base \in Nat /\ g.base <= Len(blockchain.blocks)
      /\ f.blocks \in Seq(Hash)
  BY <1>3, <1>7, <1>8 DEF IsFork, size
<1>10. ASSUME NEW i \in 1..Len(g.blocks) PROVE ~has_block(blockchain, g.blocks[i])
  <2>1. CASE i = Len(g.blocks)
    <3>1. is_fork_heavier(blockchain, g)
      BY <1>2 DEF CanReorg
    <3> QED BY <1>3, <1>8, <2>1, <3>1, HeavierEndsOutside, SMTT(30)
  <2>2. CASE i # Len(g.blocks)
    <3>1. i \in 1..(Len(f.blocks) - 1)
      BY <1>8, <1>9, <2>2, SMTT(30)
    <3>2. ~has_block(blockchain, f.blocks[i])
      BY <1>5, <1>6, <3>1, OnlyTheTipIsKnown, SMTT(30)
    <3> QED BY <1>8, <3>2, SMTT(30)
  <2> QED BY <2>1, <2>2
<1>11. blockchain'.blocks = SubSeq(blockchain.blocks, 1, g.base) \o g.blocks
  BY <1>2, <1>3, <1>8, ReorgGood, ZenonT(30) DEF Reorg
<1> QED BY <1>2, <1>3, <1>9, <1>10, <1>11, AnnouncedOnTop, Zenon

(* As long as cumulative work does not overflow 64 bits, what an operation *)
(* gives the network to announce is exactly what entered the chain.        *)
THEOREM AnnouncesExactly == ASSUME WorkFits PROVE Spec => AnnouncesWhatEntered
<1>1. IInv /\ [Next]_vars => [AnnouncedEntered]_vars
  <2> SUFFICES ASSUME IInv, Next PROVE AnnouncedEntered
    OBVIOUS
  <2>1. ASSUME NEW h \in Hash, submit_block(h) PROVE AnnouncedEntered
    <3>1. CASE AcceptBlock(h)
      BY <3>1, AcceptAnnounces
    <3>2. CASE SwitchBranch(h)
      BY <3>2, SwitchAnnounces, SMTT(30)
    <3>3. CASE RejectBlock(h) \/ RefuseExtension(h) \/ NeedParent(h) \/ KeepSideBranch(h)
      BY <3>3 DEF RejectBlock, RefuseExtension, NeedParent, KeepSideBranch, AnnouncedEntered
    <3> QED BY <2>1, <3>1, <3>2, <3>3 DEF submit_block
  <2>2. ASSUME to_broadcast' = <<>> PROVE AnnouncedEntered
    BY <2>2 DEF AnnouncedEntered
  <2> QED BY <2>1, <2>2 DEF Next, AdoptBranch, RefuseBranch, submit_transaction, ClockMoves, Restart
<1> QED BY <1>1, InvariantHolds, PTL DEF Spec, AnnouncesWhatEntered, AnnouncedEntered
-----------------------------------------------------------------------------
(* What leaves the pool                                                    *)

(* add_orphan never puts a block into the pool twice.                      *)
LEMMA AddKeepsDistinct ==
  ASSUME NEW p \in Seq(Hash), Distinct(p), NEW h \in Hash
  PROVE  Distinct(add_orphan(p, h))
<1>1. CASE has_orphan(p, h)
  BY <1>1 DEF add_orphan
<1>2. CASE ~has_orphan(p, h)
  <2>1. \A i \in 1..Len(p) : p[i] # h
    BY <1>2 DEF has_orphan
  <2>2. Distinct(Append(p, h))
    BY <2>1 DEF Distinct
  <2>3. ASSUME Len(p) >= max_orphans PROVE Distinct(Append(Tail(p), h))
    <3> DEFINE t == Tail(p)
    <3>1. p # <<>> /\ Len(p) \in Nat
      BY <2>3, OrphanPoolAssumption
    <3>2. t \in Seq(Hash) /\ Len(t) = Len(p) - 1 /\ \A i \in 1..Len(t) : t[i] = p[i + 1]
      BY <3>1
    <3> HIDE DEF t
    <3>3. \A i \in 1..Len(t) : i + 1 \in 1..Len(p)
      BY <3>1, <3>2
    <3>4. /\ \A i \in 1..Len(t) : t[i] # h
          /\ \A i, j \in 1..Len(t) : t[i] = t[j] => i = j
      <4>1. ASSUME NEW i \in 1..Len(t), NEW j \in 1..Len(t), t[i] = t[j] PROVE i = j
        <5>1. i + 1 = j + 1
          BY <3>2, <3>3, <4>1 DEF Distinct
        <5> QED BY <5>1
      <4> QED BY <2>1, <3>2, <3>3, <4>1
    <3>5. Distinct(Append(t, h))
      BY <3>2, <3>4 DEF Distinct
    <3> QED BY <3>5 DEF t
  <2> QED BY <1>2, <2>2, <2>3 DEF add_orphan
<1> QED BY <1>1, <1>2

(* remove_orphan removes the block, brings none back and repeats none.     *)
LEMMA RemoveOrphanFacts ==
  ASSUME NEW p \in Seq(Hash), Distinct(p), NEW h
  PROVE  /\ Distinct(remove_orphan(p, h))
         /\ ~has_orphan(remove_orphan(p, h), h)
         /\ \A g : has_orphan(remove_orphan(p, h), g) => has_orphan(p, g)
<1>1. CASE ~has_orphan(p, h)
  BY <1>1 DEF remove_orphan
<1>2. CASE has_orphan(p, h)
  <2> DEFINE k == CHOOSE i \in DOMAIN p : p[i] = h
             q == remove_orphan(p, h)
             n == Len(p)
             At(i) == IF i < k THEN i ELSE i + 1
  <2>1. k \in 1..n /\ p[k] = h /\ n \in Nat
    BY <1>2 DEF has_orphan
  <2>2. q = Removed(p, k)
    BY <1>2, Zenon, ZenonT(30) DEF remove_orphan, Removed
  <2> HIDE DEF k, q
  <2>3. /\ q \in Seq(Hash) /\ Len(q) = n - 1
        /\ \A i \in 1..(n - 1) : q[i] = IF i < k THEN p[i] ELSE p[i + 1]
    BY <2>1, <2>2, RemoveAt, Zenon
  <2>4. /\ \A i \in 1..(n - 1) : At(i) \in 1..n /\ At(i) # k
        /\ \A i, j \in 1..(n - 1) : At(i) = At(j) => i = j
    BY <2>1
  <2>5. \A i \in 1..Len(q) : q[i] = p[At(i)] /\ i \in 1..(n - 1)
    BY <2>1, <2>3
  <2> HIDE DEF At, n
  <2>6. Distinct(q)
    <3> SUFFICES ASSUME NEW i \in 1..Len(q), NEW j \in 1..Len(q), q[i] = q[j] PROVE i = j
      BY DEF Distinct
    <3>1. At(i) \in 1..n /\ At(j) \in 1..n /\ p[At(i)] = p[At(j)]
      BY <2>4, <2>5
    <3>2. At(i) = At(j)
      BY <3>1 DEF Distinct, n
    <3> QED BY <2>4, <2>5, <3>2
  <2>7. ~has_orphan(q, h)
    <3> SUFFICES ASSUME NEW i \in 1..Len(q), q[i] = h PROVE FALSE
      BY <2>3 DEF has_orphan
    <3>1. At(i) \in 1..n /\ At(i) # k /\ p[At(i)] = p[k]
      BY <2>1, <2>4, <2>5
    <3> QED BY <2>1, <3>1 DEF Distinct, n
  <2>8. ASSUME NEW g, has_orphan(q, g) PROVE has_orphan(p, g)
    <3>1. PICK i \in 1..Len(q) : q[i] = g
      BY <2>3, <2>8 DEF has_orphan
    <3>2. At(i) \in 1..n /\ p[At(i)] = g
      BY <2>4, <2>5, <3>1
    <3> QED BY <3>2 DEF has_orphan, n
  <2> QED BY <2>6, <2>7, <2>8 DEF q
<1> QED BY <1>1, <1>2

(* Removing a branch leaves none of its blocks and repeats none.           *)
LEMMA RemoveBranchFacts ==
  ASSUME NEW p \in Seq(Hash), Distinct(p), NEW hashes \in Seq(Hash)
  PROVE  /\ Distinct(RemoveOrphans(p, hashes))
         /\ \A j \in 1..Len(hashes) : ~has_orphan(RemoveOrphans(p, hashes), hashes[j])
<1> DEFINE n == Len(hashes)
<1>1. PICK run \in [0..n -> Seq(Hash)] :
        /\ RemoveOrphans(p, hashes) = run[n]
        /\ run[0] = p
        /\ \A i \in 1..n : run[i] = remove_orphan(run[i - 1], hashes[i])
  BY RemoveOrphansDef
<1> DEFINE Clear(i) == \A j \in 1..i : ~has_orphan(run[i], hashes[j])
           G == {i \in 0..n : Distinct(run[i]) /\ Clear(i)}
<1>2. n \in Nat
  OBVIOUS
<1> HIDE DEF n
<1>3. 0 \in G
  BY <1>1, <1>2
<1>4. ASSUME NEW i \in 1..n, i - 1 \in G PROVE i \in G
  <2>1. i - 1 \in 0..n /\ run[i - 1] \in Seq(Hash) /\ Distinct(run[i - 1])
    BY <1>1, <1>2, <1>4
  <2>2. /\ Distinct(run[i]) /\ ~has_orphan(run[i], hashes[i])
        /\ \A g : has_orphan(run[i], g) => has_orphan(run[i - 1], g)
    BY <1>1, <2>1, RemoveOrphanFacts
  <2>3. Clear(i)
    <3>1. \A j \in 1..i : j = i \/ j \in 1..(i - 1)
      BY <1>2
    <3>2. Clear(i - 1)
      BY <1>4
    <3> QED BY <2>2, <3>1, <3>2
  <2>4. i \in 0..n
    BY <1>2
  <2> HIDE DEF Clear
  <2> QED BY <2>2, <2>3, <2>4
<1>5. n \in G
  <2>1. 0..n \subseteq G
    <3> HIDE DEF G
    <3> QED BY <1>2, <1>3, <1>4, UpTo, Zenon
  <2> QED BY <1>2, <2>1
<1> QED BY <1>1, <1>5 DEF n

(* The pool holds no block twice: the set and the list of OrphanPool agree,*)
(* so removing a block once is enough.                                     *)
PoolDistinct == Distinct(orphan_pool)

(* SwitchBranch takes the branch it moves to out of the pool.              *)
LEMMA SwitchClears ==
  ASSUME IInv, PoolDistinct, NEW h \in Hash, SwitchBranch(h)
  PROVE  /\ PoolDistinct'
         /\ \A i \in DOMAIN to_broadcast' : ~has_orphan(orphan_pool', to_broadcast'[i])
<1> DEFINE pool == add_orphan(orphan_pool, h)
<1>1. PICK seen \in Visits(pool, h) :
        \E g \in Heaviest(blockchain, Rivals(pool, seen)) :
          orphan_pool' = RemoveOrphans(pool, g.blocks) /\ to_broadcast' = g.blocks
  BY DEF SwitchBranch
<1>2. PICK g \in Heaviest(blockchain, Rivals(pool, seen)) :
        orphan_pool' = RemoveOrphans(pool, g.blocks) /\ to_broadcast' = g.blocks
  BY <1>1
<1>3. PICK f : IsFork(blockchain, f) /\ g \in ValidPart(blockchain, f, clock)
  BY <1>2, RivalJoins, SMTT(30)
<1>4. g.blocks \in Seq(Hash)
  <2>1. IsFork(blockchain, g)
    BY <1>3, ValidPartIsFork
  <2> QED BY <2>1, SMTT(30) DEF IsFork
<1>5. pool \in Seq(Hash) /\ Distinct(pool)
  BY AddOrphanType, AddKeepsDistinct DEF IInv, TypeOK, PoolDistinct
<1> HIDE DEF pool
<1>6. /\ Distinct(RemoveOrphans(pool, g.blocks))
      /\ \A j \in 1..Len(g.blocks) : ~has_orphan(RemoveOrphans(pool, g.blocks), g.blocks[j])
  BY <1>4, <1>5, RemoveBranchFacts
<1>7. DOMAIN g.blocks = 1..Len(g.blocks)
  BY <1>4
<1> QED BY <1>2, <1>6, <1>7 DEF PoolDistinct

(* No operation puts a block into the pool a second time.                  *)
LEMMA PoolStaysDistinct == Spec => []PoolDistinct
<1>1. Init => PoolDistinct
  BY DEF Init, PoolDistinct, Distinct
<1>2. IInv /\ PoolDistinct /\ [Next]_vars => PoolDistinct'
  <2> SUFFICES ASSUME IInv, PoolDistinct, [Next]_vars PROVE PoolDistinct'
    OBVIOUS
  <2>1. ASSUME orphan_pool' = orphan_pool PROVE PoolDistinct'
    BY <2>1 DEF PoolDistinct
  <2>2. ASSUME NEW h \in Hash, submit_block(h) PROVE PoolDistinct'
    <3>1. CASE RejectBlock(h) \/ AcceptBlock(h) \/ RefuseExtension(h)
      BY <2>1, <3>1 DEF RejectBlock, AcceptBlock, RefuseExtension
    <3>2. CASE NeedParent(h) \/ KeepSideBranch(h)
      <4>1. orphan_pool' = add_orphan(orphan_pool, h)
        BY <3>2 DEF NeedParent, KeepSideBranch
      <4>2. orphan_pool \in Seq(Hash)
        BY DEF IInv, TypeOK
      <4> QED BY <4>1, <4>2, AddKeepsDistinct DEF PoolDistinct
    <3>3. CASE SwitchBranch(h)
      BY <3>3, SwitchClears
    <3> QED BY <2>2, <3>1, <3>2, <3>3, SMTT(30) DEF submit_block
  <2>3. CASE Restart
    BY <2>3 DEF Restart, PoolDistinct, Distinct
  <2> QED BY <2>1, <2>2, <2>3
          DEF Next, AdoptBranch, RefuseBranch, submit_transaction, ClockMoves, vars
<1> QED BY <1>1, <1>2, InvariantHolds, PTL DEF Spec

(* Once the node has moved to a branch, no block of it is left among the   *)
(* waiting ones.                                                           *)
THEOREM SwitchLeavesNoOrphan == Spec => ReorgClearsPool
<1>1. IInv /\ PoolDistinct =>
        (/\ to_broadcast' # <<>>
         /\ \E h \in Hash : SwitchBranch(h)
         => \A i \in DOMAIN to_broadcast' : ~has_orphan(orphan_pool', to_broadcast'[i]))
  BY SwitchClears
<1> QED BY <1>1, InvariantHolds, PoolStaysDistinct, PTL DEF Spec, ReorgClearsPool
=============================================================================
