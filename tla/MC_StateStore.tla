--------------------------- MODULE MC_StateStore ----------------------------
(***************************************************************************)
(* Bounds for TLC: two large values, so that one can be kept by a snapshot *)
(* while the other goes; two snapshots; two handlers waiting for the lock. *)
(***************************************************************************)
EXTENDS StateStore

\* Every fault except the two that make a restart give up the stored state.
SurvivableFaults == {"encode", "commit", "unlink", "sweep"}
=============================================================================
