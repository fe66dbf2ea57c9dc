------------------------------ MODULE Consensus ------------------------------
(***************************************************************************)
(* The consensus rules of src/consensus/ProofOfWork.cpp as operators.      *)
(* A chain is seen here as the sequence `hs' of its headers: the block at  *)
(* height h is hs[h + 1], and the rules for height h read only the blocks  *)
(* below it.                                                               *)
(***************************************************************************)
EXTENDS Integers, Sequences, FiniteSets, FiniteSetsExt, Ledger

CONSTANTS
  initial_difficulty, min_difficulty, target_block_time,   \* ConsensusParams
  retarget_interval, mtp_window, max_future_drift,
  mining_reward,     \* largest coinbase amount before fees
  U32                \* number of values of a uint32_t

ASSUME ConsensusAssumption ==
  /\ U32 \in Nat \ {0}
  /\ initial_difficulty \in 0..(U32 - 1) /\ min_difficulty \in 0..(U32 - 1)
  /\ {target_block_time, retarget_interval, mtp_window, max_future_drift} \subseteq Nat
  /\ mining_reward \in Word

kMaxStepBits == 2

(***************************************************************************)
(* retarget rounds log2(expected / actual) to the nearest integer.  For    *)
(* positive integers that rounding is an exact comparison of squares: the  *)
(* rounded value is at least k iff expected^2 >= 2^(2k-1) * actual^2.      *)
(***************************************************************************)
StepUp(e, a) ==
  Cardinality({k \in 1..kMaxStepBits : e * e >= 2^(2 * k - 1) * a * a})

retarget(old, actual, expected) ==
  LET a == IF actual = 0 THEN 1 ELSE actual
      new == old + StepUp(expected, a) - StepUp(a, expected)
  IN  IF expected = 0 THEN old ELSE Max({0, Min({new, U32 - 1})})

NextDifficultyFromGenesis(height, hs) ==   \* faulty: the first epoch is adjusted
  LET parent == hs[height]
      first  == hs[height - retarget_interval + 1].time
      actual == Max({parent.time - first, 0})
  IN  IF retarget_interval < 2 \/ height < retarget_interval
      THEN initial_difficulty
      ELSE IF height % retarget_interval # 0
      THEN parent.difficulty
      ELSE Max({retarget(parent.difficulty, actual,
                         (retarget_interval - 1) * target_block_time),
                min_difficulty})

next_difficulty(height, hs) ==
  LET parent == hs[height]
      first  == hs[height - retarget_interval + 1].time
      actual == Max({parent.time - first, 0})
  IN  IF retarget_interval < 2 \/ height <= retarget_interval
      THEN initial_difficulty
      ELSE IF height % retarget_interval # 0
      THEN parent.difficulty
      ELSE Max({retarget(parent.difficulty, actual,
                         (retarget_interval - 1) * target_block_time),
                min_difficulty})

(***************************************************************************)
(* The element at index count / 2 of the sorted timestamps: the one with   *)
(* at most count / 2 smaller ones and more than count / 2 not greater.     *)
(***************************************************************************)
Median(times) ==
  LET half == Cardinality(DOMAIN times) \div 2
  IN  CHOOSE t \in {times[i] : i \in DOMAIN times} :
        /\ Cardinality({i \in DOMAIN times : times[i] < t}) <= half
        /\ half < Cardinality({i \in DOMAIN times : times[i] <= t})

median_time_past(height, hs) ==
  LET window == (Max({height - mtp_window, 0}) + 1)..height
  IN  IF window = {} THEN 0 ELSE Median([i \in window |-> hs[i].time])

TimestampIgnoresMedian(time, height, now, hs) ==   \* faulty: no lower bound
  time <= now + max_future_drift

TimestampIgnoresClock(time, height, now, hs) ==   \* faulty: no upper bound
  time > median_time_past(height, hs)

timestamp_is_valid(time, height, now, hs) ==
  /\ time <= now + max_future_drift
  /\ time > median_time_past(height, hs)

(* The two header rules submit_block and valid_prefix_length both apply.   *)
HeaderIsValid(b, height, now, hs) ==
  /\ timestamp_is_valid(b.time, height, now, hs)
  /\ b.difficulty = next_difficulty(height, hs)

(* The timestamp block_template gives a block at this height.              *)
TemplateTime(height, now, hs) == Max({now, median_time_past(height, hs) + 1})

(***************************************************************************)
(* At most one coinbase, worth at most the reward plus the other fees; the *)
(* sum is computed in 64 bits.                                             *)
(***************************************************************************)
validate_coinbase_amount(txs) ==
  LET coinbases == {i \in DOMAIN txs : is_coinbase(txs[i])}
      fees_total(c) == MapThenSumSet(LAMBDA i : txs[i].fee, DOMAIN txs \ {c}) % U64
  IN  /\ Cardinality(coinbases) <= 1
      /\ \A c \in coinbases : txs[c].amount <= Add64(mining_reward, fees_total(c))

(* Work a block adds: 1 << difficulty, saturated at the largest uint64_t.  *)
TwoTo ==
  LET power[n \in 0..(U32 - 1)] == IF n = 0 THEN 1 ELSE 2 * power[n - 1] IN power

block_work(b) == IF TwoTo[b.difficulty] < U64 THEN TwoTo[b.difficulty] ELSE U64 - 1
=============================================================================
