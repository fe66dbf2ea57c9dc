------------------------------- MODULE Storage -------------------------------
(***************************************************************************)
(* The blocks table of src/storage/Storage.cpp: a function from the stored *)
(* heights to hashes.  Each operator is one SQLite transaction, so after a *)
(* crash it has happened completely or not at all.                         *)
(***************************************************************************)
EXTENDS Integers, Sequences, FiniteSets

(* INSERT OR REPLACE, with height the primary key and hash UNIQUE: a row   *)
(* with the same height or the same hash gives way.                        *)
save_block(rows, h, height) ==
  [k \in {j \in DOMAIN rows : rows[j] # h} \cup {height} |->
     IF k = height THEN h ELSE rows[k]]

ReplaceFromAncestor(rows, height, blocks) ==   \* faulty: starts one height too low
  [k \in {j \in DOMAIN rows : j < height - 1} \cup (height - 1)..(height + Len(blocks) - 2) |->
     IF k < height - 1 THEN rows[k] ELSE blocks[k - height + 2]]

(* Deletes the rows from `height' on, then saves the blocks from there up, *)
(* which are all different.                                                *)
replace_blocks_from(rows, height, blocks) ==
  LET saved == {blocks[i] : i \in DOMAIN blocks}
  IN  [k \in {j \in DOMAIN rows : j < height /\ rows[j] \notin saved}
             \cup height..(height + Len(blocks) - 1) |->
         IF k < height THEN rows[k] ELSE blocks[k - height + 1]]

block_count(rows) == Cardinality(DOMAIN rows)
=============================================================================
