--------------------------- MODULE ForkResolution ---------------------------
(***************************************************************************)
(* Tracing, weighing and cutting competing branches:                       *)
(* src/core/ForkResolution.cpp and the const helpers of ChainManager that  *)
(* use it.  A fork is a record [base, blocks]: `blocks' sits on the first  *)
(* `base' blocks of the main chain, so the common ancestor is at height    *)
(* base - 1.  std::optional<ForkChain> is a set of at most one fork.       *)
(***************************************************************************)
EXTENDS Integers, Sequences, FiniteSets, FiniteSetsExt, Blockchain, OrphanPool

CONSTANT kMaxForkDepth

ASSUME ForkAssumption == kMaxForkDepth \in Nat \ {0}

(***************************************************************************)
(* build_fork_chain walks from the tip towards its ancestors through the   *)
(* pool until a parent is on the chain.  Attach(bc, tip) is the set of the *)
(* branch lengths at which a parent is found there.  The depth test comes  *)
(* first, so a branch has at most kMaxForkDepth blocks.                    *)
(***************************************************************************)
Attach(bc, tip) ==
  LET past == History[tip]
  IN  {n \in 1..(Len(past) - 1) : has_block(bc, past[Len(past) - n])}

build_fork_chain(bc, pool, tip) ==
  LET past == History[tip]
      len  == Len(past)
  IN  {[base |-> bc.height_by_hash[past[len - n]] + 1,
        blocks |-> SubSeq(past, len - n + 1, len)] :
         n \in {m \in Attach(bc, tip) :
                  /\ m <= kMaxForkDepth
                  /\ \A k \in 1..(m - 1) : /\ k \notin Attach(bc, tip)
                                           /\ has_orphan(pool, past[len - k])}}

fork_work(bc, fork) == BranchWork(bc.work[fork.base], fork.blocks)[Len(fork.blocks)]

IsForkAsHeavy(bc, fork) ==   \* faulty: a tie wins
  fork_work(bc, fork) >= bc.work[size(bc)]

is_fork_heavier(bc, fork) == fork_work(bc, fork) > bc.work[size(bc)]

ValidPrefixAndOne(bc, fork, now) ==   \* faulty: counts the first bad block too
  LET hs  == Headers(SubSeq(bc.blocks, 1, fork.base) \o fork.blocks)
      bad == {i \in DOMAIN fork.blocks :
                ~HeaderIsValid(Blk[fork.blocks[i]], fork.base + i - 1, now, hs)}
  IN  IF bad = {} THEN Len(fork.blocks) ELSE Min(bad)

(***************************************************************************)
(* The number of leading blocks of the fork that obey the header rules,    *)
(* each judged on the chain made of the main chain up to the ancestor and  *)
(* the fork's own earlier blocks.                                          *)
(***************************************************************************)
valid_prefix_length(bc, fork, now) ==
  LET hs  == Headers(SubSeq(bc.blocks, 1, fork.base) \o fork.blocks)
      bad == {i \in DOMAIN fork.blocks :
                ~HeaderIsValid(Blk[fork.blocks[i]], fork.base + i - 1, now, hs)}
  IN  IF bad = {} THEN Len(fork.blocks) ELSE Min(bad) - 1

(* The fork cut to its valid prefix; none if not even one block is valid.  *)
ValidPart(bc, fork, now) ==
  LET n == valid_prefix_length(bc, fork, now)
  IN  IF n = 0 THEN {} ELSE {[fork EXCEPT !.blocks = SubSeq(@, 1, n)]}

(***************************************************************************)
(* find_fork_tips searches the pool depth first from `start', visiting at  *)
(* most kMaxForkDepth blocks.  The order of a block's children is that of  *)
(* a hash map, so any set a depth-first search may have visited is         *)
(* possible: it holds start, is closed under the path to start, and at     *)
(* each block only the child entered last may be incomplete.  The tips are *)
(* the visited leaves and what is left on the stack.                       *)
(***************************************************************************)
Family(pool, start) ==
  LET waiting == {start} \cup {pool[i] : i \in DOMAIN pool}
      line(h) == {History[h][i] : i \in DOMAIN History[h]}
  IN  {h \in waiting : /\ start \in line(h)
                       /\ \A a \in line(h) : start \in line(a) => a \in waiting}

Visits(pool, start) ==
  LET family == Family(pool, start)
      below(h) == {d \in family : \E i \in DOMAIN History[d] : History[d][i] = h}
  IN  {seen \in SUBSET family :
         /\ start \in seen
         /\ Cardinality(seen) = Min({kMaxForkDepth, Cardinality(family)})
         /\ \A h \in seen \ {start} : Blk[h].prev \in seen
         /\ \A h \in seen :
              Cardinality({c \in children_of(pool, h) \cap seen :
                             ~(below(c) \subseteq seen)}) <= 1}

TipIsStart(pool, seen) ==   \* faulty: does not look forward
  {h \in seen : Blk[h].prev \notin seen}

find_fork_tips(pool, seen) ==
  {h \in seen : children_of(pool, h) = {}} \cup
  (UNION {children_of(pool, h) : h \in seen} \ seen)

(* The traceable, non-empty valid branches that end at the given tips, and *)
(* the heaviest of them; the code keeps the first of several equals.       *)
Branches(bc, pool, tips, now) ==
  UNION {ValidPart(bc, fork, now) :
           fork \in UNION {build_fork_chain(bc, pool, tip) : tip \in tips}}

Heaviest(bc, forks) ==
  {f \in forks : \A g \in forks : fork_work(bc, g) <= fork_work(bc, f)}
=============================================================================
