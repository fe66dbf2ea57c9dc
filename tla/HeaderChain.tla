----------------------------- MODULE HeaderChain -----------------------------
(***************************************************************************)
(* A chain of headers growing under the rules of Consensus, as one node    *)
(* that never reorganises sees it: any miner may append any header the     *)
(* rules admit at the node's clock.  It asks what the timestamp and        *)
(* difficulty rules guarantee over a whole chain, apart from the fork      *)
(* machinery of ChainManager.                                              *)
(***************************************************************************)
EXTENDS Consensus

CONSTANTS MaxClock,   \* bound on the clock
          MaxHeight   \* bound on the number of blocks above genesis

VARIABLES headers,    \* the chain, genesis first
          clock       \* the node's clock

vars == <<headers, clock>>

Genesis == [time |-> 0, difficulty |-> 0]

Init == headers = <<Genesis>> /\ clock = 0

(* submit_block on a block that extends the tip.                           *)
AddBlock(time) ==
  /\ Len(headers) <= MaxHeight
  /\ LET b == [time |-> time, difficulty |-> next_difficulty(Len(headers), headers)]
     IN  /\ HeaderIsValid(b, Len(headers), clock, headers)
         /\ headers' = Append(headers, b)
  /\ UNCHANGED clock

Tick == clock < MaxClock /\ clock' = clock + 1 /\ UNCHANGED headers

Next == Tick \/ \E time \in 0..(MaxClock + max_future_drift) : AddBlock(time)

Spec == Init /\ [][Next]_vars

MTP == median_time_past(Len(headers), headers)

(* "the chain's time as a whole still cannot move backwards" (protocol     *)
(* 8.3): a single timestamp may lie before its parent's, but the median    *)
(* time past never decreases as the chain grows.                           *)
MedianNeverDecreases == [][MTP' >= MTP]_vars

(* Genesis has timestamp 0, far from any real block.  No adjustment        *)
(* window may contain it (protocol 8.2, rule 1): every difficulty change   *)
(* happens at an epoch boundary above the first full epoch, and is what    *)
(* the epoch's own non-genesis blocks imply, at most kMaxStepBits per      *)
(* epoch unless the floor lifts it.                                        *)
EpochsAdjustDifficulty ==
  \A i \in 3..Len(headers) :
    LET d == headers[i].difficulty
        before == headers[i - 1].difficulty
    IN  d # before =>
          /\ (i - 1) % retarget_interval = 0 /\ i - 1 > retarget_interval
          /\ d = min_difficulty \/ d - before \in -kMaxStepBits..kMaxStepBits
          /\ d > before => \/ d = min_difficulty
                           \/ headers[i - 1].time - headers[i - retarget_interval].time
                                < (retarget_interval - 1) * target_block_time

(* However timestamps were chosen, the median stays within the future      *)
(* bound of a node whose clock only moves forward, so the chain cannot be  *)
(* pushed to a point from which only a clock far ahead could extend it.    *)
MedianWithinDrift == MTP <= clock + max_future_drift
=============================================================================
