---------------------------- MODULE MCCompaction -----------------------------
(* A small instance of Compaction: two workers run the pass.                *)
EXTENDS Compaction, TLC

\* The first two turns are too much together; the fourth is by itself.
Sizes == <<2, 2, 1, 4, 1, 1>>

Alike == Permutations(Replicas)
=============================================================================
