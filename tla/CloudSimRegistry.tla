-------------------------- MODULE CloudSimRegistry --------------------------
(***************************************************************************)
(* The registry of the CloudSim engine (cloudsim-backbone, Java): the      *)
(* engine's own copy of every simulation space. Each call is synchronized, *)
(* hence one step. A space is a function from the keys it has to their     *)
(* values; upserts overlay the payload's keys on it. The simulation itself *)
(* and the engine's event log are left out.                                *)
(***************************************************************************)
EXTENDS Naturals, FiniteSets

CONSTANTS Space,            \* space ids
          DefaultProvider,  \* "aws"
          NoSpace           \* the answer to a call on a space the engine lacks

ASSUME NoSpaceAssumption == NoSpace \notin Space

VARIABLE engine  \* spaces: the record of each space the engine has

\* Map.put, and Map.putAll of `map' into `below'.
Put(map, key, value) ==
  [k \in {key} \cup DOMAIN map |-> IF k = key THEN value ELSE map[k]]
Overlay(map, below) ==
  [k \in DOMAIN map \cup DOMAIN below |-> IF k \in DOMAIN map THEN map[k] ELSE below[k]]

Has(sp) == sp \in DOMAIN engine
NoSpaces == [sp \in {} |-> NoSpace]

\* The CloudSimSpace constructor: what a space is before any payload is applied.
Bare == [provider |-> DefaultProvider, status |-> "running"]

\* upsertSpace: computeIfAbsent, then apply(payload).
UpsertSpace(sp, payload) ==
  engine' = Put(engine, sp, Overlay(payload, IF Has(sp) THEN engine[sp] ELSE Bare))

\* changeStatus; requireSpace throws on an unknown space.
ChangeStatus(sp, status) ==
  /\ Has(sp)
  /\ engine' = [engine EXCEPT ![sp] = Put(@, "status", status)]

\* switchSpace: the status, provider and lifetime are untouched.
SwitchSpace(sp) == Has(sp) /\ UNCHANGED engine

DeleteSpace(sp) ==
  /\ Has(sp)
  /\ engine' = [other \in DOMAIN engine \ {sp} |-> engine[other]]

\* The engine's process restarts without CLOUDLEARN_CLOUDSIM_STATE_FILE (the jar
\* the bridge launches has none): loadState returns at once.
RestartEmpty == engine # NoSpaces /\ engine' = NoSpaces
=============================================================================
