--------------------------- MODULE LeasedBacklog ---------------------------
(***************************************************************************)
(* What a message service promises its consumers, whatever its protocol:   *)
(* each copy of a message is handed out under one lease at a time, comes   *)
(* back when its lease ends, and leaves either by settlement under its     *)
(* LAST lease or because it, or what held it, was thrown away.  What has   *)
(* left never comes back.                                                  *)
(*                                                                         *)
(* StorageQueue, ServiceBus and PubSub implement it.  Copies do not        *)
(* interact, so a step moves any of them at once, each by one move.        *)
(***************************************************************************)
EXTENDS Naturals

CONSTANT Copy        \* the copies of messages a backlog may ever hold
VARIABLE cell        \* per copy: where it is, its leases so far, and the
                     \* lease it was settled under (0: none)

Cell(place, leases, by) == [place |-> place, leases |-> leases, by |-> by]
Absent == Cell("absent", 0, 0)

Present(x) == x.place \in {"ready", "held"}

\* It may enter with a delay, and with a first lease for the one who put it.
Enters(x, y) ==
  x = Absent /\ \E p \in {"ready", "held"}, n \in {0, 1} : y = Cell(p, n, 0)

\* A lease may be over as soon as it was given.
HandedOut(x, y) ==
  x.place = "ready" /\ \E p \in {"ready", "held"} : y = Cell(p, x.leases + 1, 0)

Returns(x, y) == x.place = "held" /\ y = Cell("ready", x.leases, 0)

Settled(x, y) ==
  Present(x) /\ x.leases > 0 /\ y = Cell("settled", x.leases, x.leases)

\* Received and settled in one call.
Taken(x, y) ==
  x.place = "ready" /\ y = Cell("settled", x.leases + 1, x.leases + 1)

Dropped(x, y) == Present(x) /\ y = Cell("dropped", x.leases, 0)

Move(x, y) == \/ x = y
              \/ Enters(x, y) \/ HandedOut(x, y) \/ Returns(x, y)
              \/ Settled(x, y) \/ Taken(x, y) \/ Dropped(x, y)

Init == cell = [c \in Copy |-> Absent]
Next == DOMAIN cell' = Copy /\ \A c \in Copy : Move(cell[c], cell'[c])
Spec == Init /\ [][Next]_cell
=============================================================================
