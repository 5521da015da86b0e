---------------------------- MODULE MC_SqsQueue -----------------------------
(***************************************************************************)
(* One FIFO and one standard queue, either of which may be the dead letter *)
(* queue of the other or of itself; two groups, two deduplication ids.     *)
(***************************************************************************)
EXTENDS SqsQueue, TLC

Symmetry == Permutations(Group) \cup Permutations(Dedup)
=============================================================================
