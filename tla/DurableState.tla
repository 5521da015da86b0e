---------------------------- MODULE DurableState ----------------------------
(***************************************************************************)
(* What a simulated cloud expects of its state store, with no files, keys  *)
(* or transactions: a live state, one durable copy of it that changes all  *)
(* at once, and snapshots that only grow.  A crash loses the live state    *)
(* and nothing else; a restart finds exactly the durable copy.             *)
(***************************************************************************)
EXTENDS Sequences

CONSTANTS Value,      \* the resources a state may hold
          NoState     \* nothing has ever been saved

VARIABLES up,         \* the process is running
          mem,        \* the live state
          durable,    \* the last state saved, or NoState
          snaps       \* the snapshots taken, oldest first

absvars == <<up, mem, durable, snaps>>

AbsInit ==
  /\ up = FALSE
  /\ mem = {}
  /\ durable = NoState
  /\ snaps = <<>>

\* A request handler or a restore changes the live state.
Change ==
  /\ up /\ mem' \in SUBSET Value
  /\ UNCHANGED <<up, durable, snaps>>

\* A save replaces the durable copy in one step.
Persist ==
  /\ up /\ durable' # NoState /\ durable' \subseteq Value
  /\ UNCHANGED <<up, mem, snaps>>

TakeSnapshot ==
  /\ up /\ \E v \in SUBSET Value : snaps' = Append(snaps, v)
  /\ UNCHANGED <<up, mem, durable>>

Crash ==
  /\ up /\ up' = FALSE
  /\ mem' = {}
  /\ UNCHANGED <<durable, snaps>>

\* Only an installation that never saved starts from the empty default.
Restart ==
  /\ ~up /\ up' = TRUE
  /\ mem' = IF durable = NoState THEN {} ELSE durable
  /\ UNCHANGED <<durable, snaps>>

AbsNext ==
  Change \/ Persist \/ TakeSnapshot \/ Crash \/ Restart

AbsSpec == AbsInit /\ [][AbsNext]_absvars
=============================================================================
