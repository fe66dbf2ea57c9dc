------------------------------- MODULE Miner -------------------------------
(***************************************************************************)
(* The mining thread, Orchestrator::mining_loop and mine_block, beside the *)
(* threads that hand blocks and transactions to the chain manager.         *)
(*                                                                         *)
(* The thread takes a template under the chain lock, then searches without *)
(* any lock.  Every kCancelCheckInterval nonces it compares tip_version_   *)
(* with the version of its template; between two checks it may find a      *)
(* block, which it submits like anyone else.  Which block a search finds   *)
(* is left open: any block of the instance that fits the template.         *)
(***************************************************************************)
EXTENDS Integers, Sequences, FiniteSets, ChainManager

CONSTANTS
  Relayed,              \* the blocks that peers may send
  RewardAddress,        \* what reward_address may be set to ("" for none)
  kMaxTxsPerBlock,
  kMaxTimestampBumps

ASSUME MinerAssumption ==
  /\ Relayed \subseteq Hash
  /\ RewardAddress \subseteq Address \cup {""} /\ RewardAddress # {}
  /\ {kMaxTxsPerBlock, kMaxTimestampBumps} \subseteq Nat

VARIABLES
  miner,            \* where the mining thread is, its template and its block
  reward_address,   \* config_.reward_address
  mining            \* Orchestrator::running_

mvars == <<vars, miner, reward_address, mining>>

NoTemplate == [prev |-> "none", height |-> 0, difficulty |-> 0, time |-> 0, txs |-> <<>>,
               tip_version |-> 0]

(* at: "idle" between two rounds, "check" before should_stop is asked,     *)
(* "hash" while an interval of nonces is tried, "found", and "done".       *)
IdleMiner == [at |-> "idle", tmpl |-> NoTemplate, bumps |-> 0, block |-> "none"]

MinerInit ==
  /\ Init
  /\ miner = IdleMiner
  /\ reward_address \in RewardAddress
  /\ mining = TRUE

-----------------------------------------------------------------------------
(* The template                                                            *)

SelectEverything(limit) ==   \* faulty: what does not apply is taken too
  get_transactions_for_block(mempool, limit)

(* The best-paying pending transactions, without the ones that do not      *)
(* apply after those before them.                                          *)
select_transactions(limit) ==
  LET candidates == get_transactions_for_block(mempool, limit)
      simulated == ApplyRun(ledger, candidates, {})
      valid[i \in 0..Len(candidates)] ==
        IF i = 0 THEN <<>>
        ELSE IF CanApply(simulated[i - 1], candidates[i])
        THEN Append(valid[i - 1], candidates[i]) ELSE valid[i - 1]
  IN  valid[Len(candidates)]

block_template(max_txs) ==
  LET height == size(blockchain)
      headers == Headers(blockchain.blocks)
  IN  [prev |-> latest(blockchain), height |-> height,
       difficulty |-> next_difficulty(height, headers),
       time |-> TemplateTime(height, clock, headers),
       txs |-> select_transactions(max_txs), tip_version |-> tip_version]

Coinbase(address, txs) ==
  LET fees_total == MapThenSumSet(LAMBDA i : txs[i].fee, DOMAIN txs) % U64
  IN  [sender |-> kCoinbaseSender, recipient |-> address, fee |-> 0, nonce |-> 0,
       amount |-> Add64(mining_reward, fees_total), signed |-> FALSE]

(* A round of the loop starts: the template, and the coinbase on top.      *)
TakeTemplate ==
  /\ miner.at = "idle" /\ mining
  /\ LET tmpl == block_template(kMaxTxsPerBlock)
         txs == IF reward_address = "" THEN tmpl.txs
                ELSE <<Coinbase(reward_address, tmpl.txs)>> \o tmpl.txs
     IN  miner' = [IdleMiner EXCEPT !.at = "check", !.tmpl = [tmpl EXCEPT !.txs = txs]]
  /\ UNCHANGED <<vars, reward_address, mining>>

-----------------------------------------------------------------------------
(* The search                                                              *)

CheckShutdownOnly ==   \* faulty: the tip version is not compared
  /\ miner.at = "check"
  /\ miner' = IF mining THEN [miner EXCEPT !.at = "hash"] ELSE IdleMiner
  /\ UNCHANGED <<vars, reward_address, mining>>

CheckTipOnly ==   \* faulty: a shutdown does not end the search
  /\ miner.at = "check"
  /\ miner' = IF tip_version = miner.tmpl.tip_version
              THEN [miner EXCEPT !.at = "hash"] ELSE IdleMiner
  /\ UNCHANGED <<vars, reward_address, mining>>

(* should_stop: give the template up when the tip has moved or the program *)
(* is stopping.                                                            *)
CheckCancelled ==
  /\ miner.at = "check"
  /\ miner' = IF mining /\ tip_version = miner.tmpl.tip_version
              THEN [miner EXCEPT !.at = "hash"] ELSE IdleMiner
  /\ UNCHANGED <<vars, reward_address, mining>>

Fits(h) ==
  LET b == Blk[h]
  IN  /\ meets_target(h)
      /\ b.prev = miner.tmpl.prev /\ b.difficulty = miner.tmpl.difficulty
      /\ b.time = miner.tmpl.time + miner.bumps
      /\ b.txs = miner.tmpl.txs

FindBlock(h) ==
  /\ miner.at = "hash" /\ Fits(h)
  /\ miner' = [miner EXCEPT !.at = "found", !.block = h]
  /\ UNCHANGED <<vars, reward_address, mining>>

NextInterval ==
  /\ miner.at = "hash"
  /\ miner' = [miner EXCEPT !.at = "check"]
  /\ UNCHANGED <<vars, reward_address, mining>>

(* All nonces have failed: one second more, up to kMaxTimestampBumps times.*)
NoncesExhausted ==
  /\ miner.at = "hash"
  /\ miner' = IF miner.bumps = kMaxTimestampBumps THEN IdleMiner
              ELSE [miner EXCEPT !.at = "check", !.bumps = @ + 1]
  /\ UNCHANGED <<vars, reward_address, mining>>

SubmitMined ==
  /\ miner.at = "found"
  /\ submit_block(miner.block)
  /\ miner' = IdleMiner
  /\ UNCHANGED <<reward_address, mining>>

LeaveLoop ==
  /\ miner.at = "idle" /\ ~mining
  /\ miner' = [IdleMiner EXCEPT !.at = "done"]
  /\ UNCHANGED <<vars, reward_address, mining>>

MinerStep ==
  \/ TakeTemplate \/ CheckCancelled \/ (\E h \in Hash : FindBlock(h))
  \/ NextInterval \/ NoncesExhausted \/ SubmitMined \/ LeaveLoop

-----------------------------------------------------------------------------
(* The other threads                                                       *)

(* handle_set_reward_address, which waits for state_mutex_.                *)
SetRewardAddress(address) ==
  /\ address # reward_address
  /\ reward_address' = address
  /\ UNCHANGED <<vars, miner, mining>>

Stop == mining /\ mining' = FALSE /\ UNCHANGED <<vars, miner, reward_address>>

Others ==
  \/ /\ \/ \E h \in Relayed : submit_block(h)
        \/ \E blocks \in Batches : AdoptBranch(blocks) \/ RefuseBranch(blocks)
        \/ \E tx \in Pending : submit_transaction(tx)
        \/ ClockMoves /\ clock' > clock
     /\ UNCHANGED <<miner, reward_address, mining>>
  \/ \E address \in RewardAddress : SetRewardAddress(address)
  \/ Stop

MinerNext == MinerStep \/ Others

(* The mining thread keeps running; nothing is assumed of the others, nor  *)
(* of the luck of a search.                                                *)
MinerSpec == MinerInit /\ [][MinerNext]_mvars /\ WF_mvars(MinerStep)

-----------------------------------------------------------------------------
(* Properties                                                              *)

(* "A block is rejected as stale only in a real race: another block became *)
(* the tip between the miner's last check and its submission" (protocol    *)
(* 8.7).  A block of the node's own miner that does not become the tip was *)
(* outdated by another thread after the template was taken, or bears a     *)
(* time beyond the future bound; no choice of pending transactions, reward *)
(* address or median ever makes the node refuse its own block.             *)
RefusedOnlyInARace ==
  [][/\ miner.at = "found" /\ miner'.at = "idle"
     /\ tip_version = miner.tmpl.tip_version
     /\ Blk[miner.block].time <= clock + max_future_drift
     => blockchain'.blocks = Append(blockchain.blocks, miner.block)]_mvars

(* "A miner works on one template at a time and drops it as soon as it is  *)
(* stale" (protocol 8.7): the search for a block on an outdated tip ends,  *)
(* although the miner learns of the new tip only by polling a counter.  As *)
(* the counter only grows, a stale template never becomes fresh again.     *)
StaleTemplateIsDropped ==
  LET stale == miner.at \in {"check", "hash"} /\ miner.tmpl.tip_version # tip_version
  IN  stale ~> ~stale

(* Orchestrator::stop can join the mining thread: whatever it is doing, it *)
(* leaves its loop once running_ is cleared.                               *)
MinerStops == ~mining ~> miner.at = "done"
=============================================================================
