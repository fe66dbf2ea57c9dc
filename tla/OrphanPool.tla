----------------------------- MODULE OrphanPool -----------------------------
(***************************************************************************)
(* The pool of blocks that wait for a parent, src/core/OrphanPool.cpp: the *)
(* sequence of its hashes in order of arrival (order_).  The map from      *)
(* hashes to entries holds exactly the hashes of the list, so it is not a  *)
(* separate piece of state; a block is identified by its hash.             *)
(***************************************************************************)
EXTENDS Integers, Sequences, Block

CONSTANT max_orphans   \* capacity of the pool (kDefaultMaxOrphans)

ASSUME OrphanPoolAssumption == max_orphans \in Nat \ {0}

has_orphan(pool, h) == \E i \in DOMAIN pool : pool[i] = h

(* A full pool drops its oldest block.                                     *)
add_orphan(pool, h) ==
  IF has_orphan(pool, h) THEN pool
  ELSE IF Len(pool) >= max_orphans THEN Append(Tail(pool), h)
  ELSE Append(pool, h)

remove_orphan(pool, h) ==
  IF has_orphan(pool, h)
  THEN LET i == CHOOSE i \in DOMAIN pool : pool[i] = h
       IN  SubSeq(pool, 1, i - 1) \o SubSeq(pool, i + 1, Len(pool))
  ELSE pool

RemoveNoOrphans(pool, hashes) == pool   \* faulty: the entries stay

(* remove_orphan for each hash of a sequence in turn.                      *)
RemoveOrphans(pool, hashes) ==
  LET run[i \in 0..Len(hashes)] ==
        IF i = 0 THEN pool ELSE remove_orphan(run[i - 1], hashes[i])
  IN  run[Len(hashes)]

children_of(pool, h) == {c \in {pool[i] : i \in DOMAIN pool} : Blk[c].prev = h}
=============================================================================
