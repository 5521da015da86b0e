------------------------------- MODULE Copies -------------------------------
(***************************************************************************)
(* What StorageQueue, ServiceBus and PubSub share: the copies of messages. *)
(* Every list of the three is appended to and never reordered, so the      *)
(* numbers of the copies, given in the order they were appended, are their *)
(* order in any list.                                                      *)
(***************************************************************************)
EXTENDS Naturals, FiniteSets

CONSTANTS Copy,       \* 1..n; n bounds how many copies are ever made
          MaxLeases,  \* bound: times one copy is handed out
          MaxBatch    \* bound: messages put into or taken by one request

ASSUME CopyAssumption == Copy \subseteq Nat /\ IsFiniteSet(Copy)
ASSUME CopyBounds == MaxLeases \in Nat \ {0} /\ MaxBatch \in Nat \ {0}

\* The first n of the copies in S.
First(n, S) == {c \in S : Cardinality({d \in S : d < c}) < n}
=============================================================================
