---------------------------- MODULE ChainManager ----------------------------
(***************************************************************************)
(* src/chain/ChainManager.cpp with the storage it writes and the restart   *)
(* that reads it back (the constructor of src/app/Orchestrator.cpp).       *)
(* Every operation holds chain_mutex_ from its first access to the state   *)
(* to its last, so each is one action; the checks submit_block makes       *)
(* before locking read only the block.                                     *)
(*                                                                         *)
(* The environment hands over any block of the instance, any number of     *)
(* times and in any order (handle_block, the miner), any of a set of block *)
(* sequences collected by a catch-up (finish_sync_if_due), and any         *)
(* transaction; the clock shows any reading; and the process may be killed *)
(* and started again at any moment.  The storage write is the last step of *)
(* an operation and a failed one ends the process, so a crash inside an    *)
(* operation leaves the disk as a crash before it or after it does.        *)
(***************************************************************************)
EXTENDS Integers, Sequences, FiniteSets, ForkResolution, Mempool, Storage

CONSTANTS
  Pending,    \* the transactions clients may submit
  Batches,    \* the block sequences a catch-up may have collected
  Time        \* the readings of the clock

ASSUME EnvironmentAssumption ==
  /\ Pending \subseteq Transaction
  /\ Batches \subseteq Seq(Hash)
  /\ Time \subseteq Nat /\ Time # {}

VARIABLES
  blockchain,    \* blockchain_
  orphan_pool,   \* orphan_pool_
  mempool,       \* mempool_
  ledger,        \* ledger_
  tip_version,   \* tip_version_
  rows,          \* the blocks table on disk
  clock,         \* what clock_() returns
  to_broadcast,  \* what the last operation gives the network to announce
  running        \* FALSE once a restart has refused the stored chain

vars == <<blockchain, orphan_pool, mempool, ledger, tip_version, rows, clock,
          to_broadcast, running>>

Init ==
  /\ blockchain = GenesisChain
  /\ orphan_pool = <<>>
  /\ mempool = <<>>
  /\ ledger = EmptyLedger
  /\ tip_version = 0
  /\ rows = [k \in {0} |-> Genesis]
  /\ clock \in Time
  /\ to_broadcast = <<>>
  /\ running = TRUE

-----------------------------------------------------------------------------
(* Reorganising                                                            *)

SpendHashes(txs) ==
  {compute_hash(txs[i]) : i \in {j \in DOMAIN txs : ~is_coinbase(txs[j])}}

AllSigned(txs) == \A i \in DOMAIN txs : is_coinbase(txs[i]) \/ has_valid_signature(txs[i])

CanReorg(fork) == is_fork_heavier(blockchain, fork) /\ AllSigned(AllTxs(fork.blocks))

ReorgKeepsVersion(fork) ==   \* faulty: the miner is not told
  LET new == AllTxs(fork.blocks)
      old == AllTxs(Discarded(blockchain, fork))
      undone == UndoRun(ledger, old, SpendHashes(new))[0]
  IN  /\ blockchain' = reorganize_to(blockchain, fork)
      /\ ledger' = ApplyRun(undone, new, SpendHashes(old))[Len(new)]
      /\ mempool' = ReturnRun(mempool, old, SpendHashes(new))[0]
      /\ rows' = replace_blocks_from(rows, fork.base, fork.blocks)
      /\ UNCHANGED tip_version

(***************************************************************************)
(* try_reorg once its guard CanReorg holds: swap the branches, undo the    *)
(* transactions of the old one, newest first, returning them to the        *)
(* mempool, then apply the ones of the new one, in both cases passing over *)
(* the transactions that the branches share.  What apply and reverse       *)
(* return is ignored.                                                      *)
(***************************************************************************)
Reorg(fork) ==
  LET new == AllTxs(fork.blocks)
      old == AllTxs(Discarded(blockchain, fork))
      undone == UndoRun(ledger, old, SpendHashes(new))[0]
  IN  /\ blockchain' = reorganize_to(blockchain, fork)
      /\ tip_version' = tip_version + 1
      /\ ledger' = ApplyRun(undone, new, SpendHashes(old))[Len(new)]
      /\ mempool' = ReturnRun(mempool, old, SpendHashes(new))[0]
      /\ rows' = replace_blocks_from(rows, fork.base, fork.blocks)

-----------------------------------------------------------------------------
(* submit_block                                                            *)

meets_target(h) == Blk[h].mined

(* Checked before the lock, then by classify_new_block.                    *)
Admissible(h) ==
  /\ meets_target(h)
  /\ validate_coinbase_amount(Blk[h].txs)
  /\ classify_new_block(blockchain, h) # "Invalid"

RejectBlock(h) ==
  /\ ~Admissible(h)
  /\ to_broadcast' = <<>>
  /\ UNCHANGED <<blockchain, orphan_pool, mempool, ledger, tip_version, rows>>

(* What a block on top of the tip must satisfy besides its transactions.   *)
ExtendsTip(h) ==
  /\ Admissible(h)
  /\ classify_new_block(blockchain, h) = "Valid"

TipHeaderIsValid(h) ==
  HeaderIsValid(Blk[h], size(blockchain), clock, Headers(blockchain.blocks))

AcceptUnapplied(h) ==   \* faulty: the ledger's refusal is ignored
  /\ ExtendsTip(h)
  /\ TipHeaderIsValid(h)
  /\ ledger' = apply_block_to_ledger(ledger, Blk[h].txs).ledger
  /\ mempool' = RemoveRun(mempool, Blk[h].txs)[Len(Blk[h].txs)]
  /\ blockchain' = add_block(blockchain, h)
  /\ tip_version' = tip_version + 1
  /\ to_broadcast' = <<h>>
  /\ rows' = save_block(rows, h, size(blockchain))
  /\ UNCHANGED orphan_pool

AcceptBlock(h) ==
  /\ ExtendsTip(h)
  /\ TipHeaderIsValid(h)
  /\ LET applied == apply_block_to_ledger(ledger, Blk[h].txs)
     IN  applied.ok /\ ledger' = applied.ledger
  /\ mempool' = RemoveRun(mempool, Blk[h].txs)[Len(Blk[h].txs)]
  /\ blockchain' = add_block(blockchain, h)
  /\ tip_version' = tip_version + 1
  /\ to_broadcast' = <<h>>
  /\ rows' = save_block(rows, h, size(blockchain))
  /\ UNCHANGED orphan_pool

(* The header is refused, or a transaction is and the ledger rolls back.   *)
RefuseExtension(h) ==
  /\ ExtendsTip(h)
  /\ IF TipHeaderIsValid(h)
     THEN LET applied == apply_block_to_ledger(ledger, Blk[h].txs)
          IN  ~applied.ok /\ ledger' = applied.ledger
     ELSE UNCHANGED ledger
  /\ to_broadcast' = <<>>
  /\ UNCHANGED <<blockchain, orphan_pool, mempool, tip_version, rows>>

(* handle_fork_candidate: the block always enters the pool first.          *)
ForkCandidate(h) ==
  /\ Admissible(h)
  /\ classify_new_block(blockchain, h) = "ForkCandidate"

NeedParent(h) ==
  LET pool == add_orphan(orphan_pool, h)
  IN  /\ ForkCandidate(h)
      /\ build_fork_chain(blockchain, pool, h) = {}
      /\ orphan_pool' = pool
      /\ to_broadcast' = <<>>
      /\ UNCHANGED <<blockchain, mempool, ledger, tip_version, rows>>

(* The branches weighed once h connects, for one order of the search.      *)
Rivals(pool, seen) ==
  Branches(blockchain, pool, find_fork_tips(pool, seen), clock)

KeepSideBranch(h) ==
  LET pool == add_orphan(orphan_pool, h)
  IN  /\ ForkCandidate(h)
      /\ build_fork_chain(blockchain, pool, h) # {}
      /\ \E seen \in Visits(pool, h) :
           LET rivals == Rivals(pool, seen)
           IN  rivals = {} \/ \E fork \in Heaviest(blockchain, rivals) : ~CanReorg(fork)
      /\ orphan_pool' = pool
      /\ to_broadcast' = <<>>
      /\ UNCHANGED <<blockchain, mempool, ledger, tip_version, rows>>

SwitchAnnouncesOne(h) ==   \* faulty: only the block that arrived is announced
  LET pool == add_orphan(orphan_pool, h)
  IN  /\ ForkCandidate(h)
      /\ build_fork_chain(blockchain, pool, h) # {}
      /\ \E seen \in Visits(pool, h) :
           \E fork \in Heaviest(blockchain, Rivals(pool, seen)) :
             /\ CanReorg(fork)
             /\ Reorg(fork)
             /\ orphan_pool' = RemoveOrphans(pool, fork.blocks)
             /\ to_broadcast' = <<h>>

SwitchBranch(h) ==
  LET pool == add_orphan(orphan_pool, h)
  IN  /\ ForkCandidate(h)
      /\ build_fork_chain(blockchain, pool, h) # {}
      /\ \E seen \in Visits(pool, h) :
           \E fork \in Heaviest(blockchain, Rivals(pool, seen)) :
             /\ CanReorg(fork)
             /\ Reorg(fork)
             /\ orphan_pool' = RemoveOrphans(pool, fork.blocks)
             /\ to_broadcast' = fork.blocks

submit_block(h) ==
  /\ running
  /\ \/ RejectBlock(h) \/ AcceptBlock(h) \/ RefuseExtension(h)
     \/ NeedParent(h) \/ KeepSideBranch(h) \/ SwitchBranch(h)
  /\ UNCHANGED <<clock, running>>

-----------------------------------------------------------------------------
(* adopt_branch                                                            *)

(* The batch without its leading known blocks, as a fork, if its first new *)
(* block has its parent on the chain and the others follow one another.    *)
BatchFork(blocks) ==
  LET known == {i \in DOMAIN blocks :
                  \A j \in 1..i : has_block(blockchain, blocks[j])}
      start == Cardinality(known) + 1
  IN  IF /\ start <= Len(blocks)
         /\ has_block(blockchain, Blk[blocks[start]].prev)
         /\ \A i \in (start + 1)..Len(blocks) : Blk[blocks[i]].prev = blocks[i - 1]
      THEN {[base |-> blockchain.height_by_hash[Blk[blocks[start]].prev] + 1,
             blocks |-> SubSeq(blocks, start, Len(blocks))]}
      ELSE {}

AdoptableForks(blocks) ==
  {fork \in UNION {ValidPart(blockchain, f, clock) : f \in BatchFork(blocks)} :
     CanReorg(fork)}

AdoptBranch(blocks) ==
  /\ running
  /\ \E fork \in AdoptableForks(blocks) : Reorg(fork)
  /\ to_broadcast' = <<>>
  /\ UNCHANGED <<orphan_pool, clock, running>>

RefuseBranch(blocks) ==
  /\ running
  /\ AdoptableForks(blocks) = {}
  /\ to_broadcast' = <<>>
  /\ UNCHANGED <<blockchain, orphan_pool, mempool, ledger, tip_version, rows,
                 clock, running>>

-----------------------------------------------------------------------------
(* Transactions, time and restarts                                         *)

submit_transaction(tx) ==
  /\ running
  /\ mempool' = add_transaction(mempool, tx)
  /\ to_broadcast' = <<>>
  /\ UNCHANGED <<blockchain, orphan_pool, ledger, tip_version, rows, clock, running>>

ClockMoves ==
  /\ clock' \in Time \ {clock}
  /\ to_broadcast' = <<>>
  /\ UNCHANGED <<blockchain, orphan_pool, mempool, ledger, tip_version, rows, running>>

StoredButTheLast == [k \in 1..(block_count(rows) - 2) |-> rows[k]]   \* faulty: stops early

(***************************************************************************)
(* Kill the process and start it again: everything in memory is lost, and  *)
(* the stored blocks are put back one by one, each applied to the ledger   *)
(* whole.  A missing height, or a block that does not apply, throws and    *)
(* the program does not come up.                                           *)
(***************************************************************************)
Stored == [k \in 1..(block_count(rows) - 1) |-> rows[k]]

RestoreRun ==
  LET run[k \in 0..(block_count(rows) - 1)] ==
        IF k = 0 THEN [ok |-> TRUE, ledger |-> EmptyLedger]
        ELSE IF run[k - 1].ok
        THEN apply_block_to_ledger(run[k - 1].ledger, Blk[rows[k]].txs)
        ELSE run[k - 1]
  IN  run[block_count(rows) - 1]

CanRestore == 0..(block_count(rows) - 1) \subseteq DOMAIN rows /\ RestoreRun.ok

Restart ==
  /\ running
  /\ orphan_pool' = <<>>
  /\ mempool' = <<>>
  /\ running' = CanRestore
  /\ IF CanRestore
     THEN /\ blockchain' = AddBlocks(GenesisChain, Stored)
          /\ ledger' = RestoreRun.ledger
          /\ tip_version' = block_count(rows) - 1
     ELSE UNCHANGED <<blockchain, ledger, tip_version>>
  /\ to_broadcast' = <<>>
  /\ UNCHANGED <<rows, clock>>

Next ==
  \/ \E h \in Hash : submit_block(h)
  \/ \E blocks \in Batches : AdoptBranch(blocks) \/ RefuseBranch(blocks)
  \/ \E tx \in Pending : submit_transaction(tx)
  \/ ClockMoves
  \/ Restart

Spec == Init /\ [][Next]_vars

-----------------------------------------------------------------------------
(* Properties                                                              *)

TypeOK ==
  /\ blockchain.blocks \in Seq(Hash) /\ blockchain.work \in Seq(Word)
  /\ blockchain.height_by_hash \in [DOMAIN blockchain.height_by_hash -> Nat]
  /\ orphan_pool \in Seq(Hash)
  /\ mempool \in Seq(Transaction)
  /\ ledger \in LedgerState
  /\ tip_version \in Nat
  /\ rows \in [DOMAIN rows -> Hash]
  /\ clock \in Time
  /\ to_broadcast \in Seq(Hash)
  /\ running \in BOOLEAN

(* Whatever was submitted, adopted or restored, the chain runs from genesis*)
(* to its tip without a gap, height_by_hash names exactly its blocks at    *)
(* their heights, and cumulative_work_ adds up block by block: no          *)
(* reorganisation leaves an entry of the old branch behind.                *)
ChainIntact == Intact(blockchain)

(* Every block of the chain declares the difficulty that the blocks below  *)
(* it require and is later than their median, whichever of the three paths *)
(* (extension, reorganisation, catch-up) brought it in and however the     *)
(* branch was cut to its valid prefix.                                     *)
ChainObeysRules == ObeysRules(blockchain.blocks)

(* After every operation the blocks table holds the main chain, height for *)
(* height, so a crash at any point loses no block and leaves no block of   *)
(* a discarded branch.                                                     *)
DiskMirrorsChain ==
  rows = [k \in 0..(size(blockchain) - 1) |-> blockchain.blocks[k + 1]]

TipWork == blockchain.work[size(blockchain)]

(* The node only ever moves to a chain with strictly more work, also       *)
(* across a restart that recomputes the work from disk: it never trades    *)
(* its chain for an equal or lighter one.                                  *)
WorkNeverDecreases == [][blockchain'.blocks # blockchain.blocks => TipWork' > TipWork]_vars

(* The work of a chain, in unbounded integers; genesis counts for nothing. *)
WorkOf(blocks) ==
  LET run[i \in 0..Len(blocks)] ==
        IF i <= 1 THEN 0 ELSE run[i - 1] + block_work(Blk[blocks[i]])
  IN  run[Len(blocks)]

ValidTip == {h \in Hash : History[h][1] = Genesis /\ ObeysRules(History[h])}

Promise ==
  INSTANCE HeaviestChain WITH Work <- [h \in Hash |-> WorkOf(History[h])],
                              tip <- latest(blockchain)

(* The chain manager implements HeaviestChain: seen through its tip alone, *)
(* submissions, reorganisations, catch-ups and restarts are moves to valid *)
(* chains with more total work, counted without overflow, and nothing else.*)
FollowsHeaviest == Promise!Spec

(* "a tip version counter that increases every time the tip changes"       *)
(* (protocol 8.7), which the miner reads without a lock to drop a stale    *)
(* template: while the process lives, the counter moves exactly when the   *)
(* chain does.  A restart ends the miner too.                              *)
TipVersionTracksTip ==
  [][~Restart =>
       IF blockchain'.blocks = blockchain.blocks
       THEN tip_version' = tip_version
       ELSE tip_version' = tip_version + 1]_vars

(* What an operation gives the network to announce is exactly what entered *)
(* the chain: it is the end of the new chain, none of it was in the old    *)
(* one, and every block below it was.                                      *)
AnnouncesWhatEntered ==
  [][to_broadcast' # <<>> =>
       LET n == size(blockchain') - Len(to_broadcast')
       IN  /\ to_broadcast' = SubSeq(blockchain'.blocks, n + 1, size(blockchain'))
           /\ \A i \in DOMAIN to_broadcast' : ~has_block(blockchain, to_broadcast'[i])
           /\ \A i \in 1..n : blockchain'.blocks[i] = blockchain.blocks[i]]_vars

(* "After a successful reorganization, every block that entered the chain  *)
(* is removed from the pool" (protocol 7.2): no block of the new branch    *)
(* keeps its place among the waiting ones.                                 *)
ReorgClearsPool ==
  [][/\ to_broadcast' # <<>>
     /\ \E h \in Hash : SwitchBranch(h)
     => \A i \in DOMAIN to_broadcast' : ~has_orphan(orphan_pool', to_broadcast'[i])]_vars

(* The traceable valid branches through h that are heavier than the chain. *)
HeavierThrough(bc, pool, h, now) ==
  {fork \in Branches(bc, pool, Family(pool, h), now) : is_fork_heavier(bc, fork)}

(* h was handled as a competing block that connects: it was put into the   *)
(* pool, or its branch was adopted.                                        *)
Handled(h) ==
  IF to_broadcast' = <<>>
  THEN /\ orphan_pool' # orphan_pool /\ orphan_pool' = add_orphan(orphan_pool, h)
       /\ build_fork_chain(blockchain, orphan_pool', h) # {}
  ELSE SwitchBranch(h)

(* The forward walk of handle_fork_candidate: once a competing block that  *)
(* connects has been handled, no valid branch through it that the pool     *)
(* completes is heavier than the chain, in whatever order its blocks came  *)
(* in, provided the search was not cut short at kMaxForkDepth blocks.      *)
HandledBlockIsSettled ==
  [][\A h \in Hash :
       /\ Handled(h)
       /\ Cardinality(Family(add_orphan(orphan_pool, h), h)) <= kMaxForkDepth
       => HeavierThrough(blockchain', orphan_pool', h, clock') = {}]_vars

(* The ledger of "an independent Ledger that replays only the winning      *)
(* branch" (tests/network/NodeReorgLedgerTest.cpp).                        *)
Replay(blocks) == LET txs == AllTxs(blocks) IN ApplyRun(EmptyLedger, txs, {})[Len(txs)]

(* Undoing one branch and applying the other, transaction by transaction   *)
(* and skipping what they share, ends in the balances and nonces that the  *)
(* new chain gives when replayed from genesis.                             *)
LedgerMatchesReplay == SameFunds(ledger, Replay(blockchain.blocks))

(* Money is neither created nor lost: what the accounts hold is what the   *)
(* chain's coinbases paid out, less the fees its transactions gave up.     *)
MoneyIsConserved ==
  LET txs == AllTxs(blockchain.blocks)
      minted == {i \in DOMAIN txs : is_coinbase(txs[i])}
  IN  MapThenSumSet(LAMBDA a : ledger.balance[a], Address)
        + MapThenSumSet(LAMBDA i : txs[i].fee, DOMAIN txs \ minted)
      = MapThenSumSet(LAMBDA i : txs[i].amount, minted)

(* A block that is refused, held back or not adopted moves no money and no *)
(* nonce: balances and nonces change only together with the chain, so a    *)
(* block that fails at its last transaction is undone completely.          *)
FundsFollowChain ==
  [][blockchain'.blocks = blockchain.blocks => SameFunds(ledger, ledger')]_vars

(* The chain on disk can always be loaded again: a restart at any moment   *)
(* finds every height and applies every stored block, and never stops with *)
(* "storage corrupted".                                                    *)
StoredChainReloads == running

(* The mempool holds each transaction once, all signed, best fee first, up *)
(* to its capacity, however submissions, mined blocks and reorganisations  *)
(* follow one another.                                                     *)
MempoolInOrder == InOrder(mempool)

(* "Transactions that were only present in the discarded (losing) blocks   *)
(* are not simply lost" (protocol 7.6): when the chain drops a block, each *)
(* signed transaction of it that the new chain lacks is pending afterwards,*)
(* unless a full pool holds only better-paying ones.  The same goes for a  *)
(* pending transaction that was not mined.  A restart loses the pool.      *)
NothingIsForgotten ==
  [][~Restart =>
       LET before == AllTxs(blockchain.blocks) \o mempool
           mined  == SpendHashes(AllTxs(blockchain'.blocks))
       IN  \A i \in DOMAIN before :
             \/ is_coinbase(before[i]) \/ compute_hash(before[i]) \in mined
             \/ has_transaction(mempool', before[i])
             \/ /\ Len(mempool') = max_size
                /\ \A j \in DOMAIN mempool' : mempool'[j].fee >= before[i].fee]_vars
=============================================================================
