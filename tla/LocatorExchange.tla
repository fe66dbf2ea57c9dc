-------------------------- MODULE LocatorExchange --------------------------
(***************************************************************************)
(* One node asks another for the blocks it lacks, for any two chains that  *)
(* share their blocks up to some height: what the locator and the answer   *)
(* to it look like when the forks are longer than the dense part of the    *)
(* locator.  A block is its height and the side that mined it.             *)
(***************************************************************************)
EXTENDS BlockLocator

CONSTANTS MaxShared,   \* bound on the number of shared blocks above genesis
          MaxOurs,     \* bounds on the length of the two branches
          MaxTheirs,
          Limit,       \* MAX_BLOCKS_PER_RESPONSE
          kMaxLocatorHashes

VARIABLES shared,      \* height of the last block both chains have
          ours,        \* blocks the asking node has above it
          theirs       \* blocks the answering node has above it

vars == <<shared, ours, theirs>>

Chain(side, n) ==
  LET blocks == [i \in 1..(shared + n + 1) |->
                   <<IF i <= shared + 1 THEN "both" ELSE side, i - 1>>]
      index == [h \in {blocks[i] : i \in DOMAIN blocks} |-> h[2]]
  IN  [blocks |-> blocks, height_by_hash |-> index]

Init == shared \in 0..MaxShared /\ ours = 0 /\ theirs = 0

WeMine == ours < MaxOurs /\ ours' = ours + 1 /\ UNCHANGED <<shared, theirs>>
TheyMine == theirs < MaxTheirs /\ theirs' = theirs + 1 /\ UNCHANGED <<shared, ours>>

Next == WeMine \/ TheyMine

Spec == Init /\ [][Next]_vars

OurChain == Chain("ours", ours)
Locator == build_locator(OurChain)
Answer == blocks_after_locator(Chain("theirs", theirs), Locator, Limit)

(* The locator "stays small enough for one message no matter how long the  *)
(* chain grows" (protocol 3.5): its length beyond the dense part grows     *)
(* with the logarithm of the chain, and deserialize_getblocks accepts it.  *)
LocatorStaysSmall ==
  /\ Len(Locator) <= kMaxLocatorHashes
  /\ Len(Locator) > dense_hashes + 1 => 2^(Len(Locator) - dense_hashes) <= size(OurChain)

(* Whatever the fork, an answer can be attached: it starts on top of a     *)
(* block of the asking node, it is a run of consecutive blocks, and the    *)
(* blocks in it that the asking node already has are fewer than the ones   *)
(* it mined above the fork.                                                *)
AnswerAttaches ==
  Answer # <<>> =>
    LET known == {i \in DOMAIN Answer : has_block(OurChain, Answer[i])}
    IN  /\ OurChain.blocks[Answer[1][2]] = Chain("theirs", theirs).blocks[Answer[1][2]]
        /\ \A i \in 2..Len(Answer) : Answer[i][2] = Answer[i - 1][2] + 1
        /\ known # {} => Cardinality(known) < ours

(* A node that has blocks the asking one lacks answers with at least one   *)
(* of them, as long as the asking node's own branch is within the cap.     *)
AnswerIsNew ==
  theirs > 0 /\ ours <= Limit => \E i \in DOMAIN Answer : ~has_block(OurChain, Answer[i])
=============================================================================
