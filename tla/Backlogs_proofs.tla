--------------------------- MODULE Backlogs_proofs ---------------------------
(***************************************************************************)
(* Proofs about the three leased backlogs for any number of messages,      *)
(* queues, topics and subscriptions: their type invariants, that Pub/Sub's *)
(* lists, names and ack ids agree, and that each service implements        *)
(* LeasedBacklog.                                                          *)
(*                                                                         *)
(* For each service one invariant says what a single message looks like    *)
(* (QueueFits, BusFits, PubSubFits), one lemma per kind of change says     *)
(* that a changed message still looks so and has moved as a leased backlog *)
(* lets it, and one lemma goes through the requests.                       *)
(***************************************************************************)
EXTENDS MC_Backlogs, FiniteSetTheorems, TLAPS

\* A receive takes finitely many of the messages it may take.
LEMMA FirstIsFinite ==
  ASSUME NEW n, NEW S \in SUBSET Copy
  PROVE  First(n, S) \in SUBSET S /\ IsFiniteSet(First(n, S)) /\ Cardinality(First(n, S)) \in Nat
<1>1. First(n, S) \subseteq S
  BY DEF First
<1>2. IsFiniteSet(S)
  BY CopyAssumption, FS_Subset
<1>3. IsFiniteSet(First(n, S))
  BY <1>1, <1>2, FS_Subset
<1> QED BY <1>1, <1>3, FS_CardinalityType

-----------------------------------------------------------------------------
(* Azure Storage queues.                                                   *)

\* One message among the names of the queues: where it is, and that it has no
\* history before it was put, and a receipt and no settlement while it is stored.
QueueFits(m, names) ==
  /\ m \in Message
  /\ IF m.state = "stored" THEN m.queue \in names ELSE m.queue = NoQueue
  /\ m.state = "absent" => m = NotYet
  /\ m.state = "stored" => m.receipts > 0 /\ m.by = 0

QueueInv == queues \subseteq Queue /\ message \in [Copy -> Message]
            /\ \A c \in Copy : QueueFits(message[c], queues)

CellOfMessage(m) ==
  [place |-> IF m.state # "stored" THEN m.state ELSE IF Visible(m) THEN "ready" ELSE "held",
   leases |-> m.receipts, by |-> m.by]

\* The bounds are not empty.
LEMMA Zeros == /\ 0 \in 0..MaxVisibility /\ 0 \in 0..MaxLife /\ MaxLife \in 0..MaxLife
               /\ 0 \in 0..MaxLeases /\ 1 \in 0..MaxLeases /\ MaxLeases \in Nat
  BY QueueAssumption, CopyBounds

\* A stored message is settled, or dropped with its queue or its time.
LEMMA GoneMessage ==
  ASSUME NEW names \in SUBSET Queue, NEW after \in SUBSET Queue, NEW m, QueueFits(m, names),
         m.state = "stored",
         NEW how \in {"settled", "dropped"}, NEW n,
         n = IF how = "settled" THEN m.receipts ELSE 0
  PROVE  /\ QueueFits(MessageGone(m, how, n), after)
         /\ Backlog!Move(CellOfMessage(m), CellOfMessage(MessageGone(m, how, n)))
<1> DEFINE g == MessageGone(m, how, n)
<1>1. m \in Message /\ m.receipts > 0 /\ m.by = 0
  BY DEF QueueFits
<1>2. n \in 0..MaxLeases
  BY <1>1, Zeros DEF Message
<1>3. g \in Message /\ g.state = how /\ g.queue = NoQueue /\ g.by = n /\ g.receipts = m.receipts
  BY <1>1, <1>2, Zeros DEF MessageGone, Message
<1>4. QueueFits(g, after)
  BY <1>3, QueueAssumption DEF QueueFits
<1>5. CellOfMessage(g) = [place |-> how, leases |-> m.receipts, by |-> n]
  BY <1>3 DEF CellOfMessage
<1>6. /\ CellOfMessage(m).place \in {"ready", "held"} /\ CellOfMessage(m).leases = m.receipts
  BY DEF CellOfMessage
<1> HIDE DEF g
<1>7. Backlog!Move(CellOfMessage(m), CellOfMessage(g))
  BY <1>1, <1>5, <1>6 DEF Backlog!Move, Backlog!Settled, Backlog!Dropped, Backlog!Present, Backlog!Cell
<1> QED BY <1>4, <1>7 DEF g

\* A message enters a queue that exists.
LEMMA MadeMessage ==
  ASSUME NEW after \in SUBSET Queue, NEW q \in after,
         NEW wait \in 0..MaxVisibility, NEW life \in 0..MaxLife
  PROVE  /\ QueueFits(NewMessage(q, wait, life), after)
         /\ Backlog!Move(CellOfMessage(NotYet), CellOfMessage(NewMessage(q, wait, life)))
<1> DEFINE g == NewMessage(q, wait, life)
<1>1. g \in Message /\ g.state = "stored" /\ g.queue = q /\ g.by = 0 /\ g.receipts = 1
  BY Zeros DEF NewMessage, NotYet, Message
<1>2. QueueFits(g, after)
  BY <1>1 DEF QueueFits
<1>3. CellOfMessage(NotYet) = Backlog!Absent
  BY DEF CellOfMessage, NotYet, Backlog!Absent, Backlog!Cell
<1>4. \E p \in {"ready", "held"} : CellOfMessage(g) = Backlog!Cell(p, 1, 0)
  BY <1>1 DEF CellOfMessage, Backlog!Cell
<1> HIDE DEF g
<1>5. Backlog!Move(CellOfMessage(NotYet), CellOfMessage(g))
  BY <1>3, <1>4 DEF Backlog!Move, Backlog!Enters
<1> QED BY <1>2, <1>5 DEF g

\* What a request for q leaves of a message that is not its subject.
LEMMA ReapedMessage ==
  ASSUME QueueInv, NEW q \in Queue, NEW c \in Copy, NEW after \in SUBSET Queue, queues \subseteq after
  PROVE  /\ QueueFits(Reaped(q)[c], after)
         /\ Backlog!Move(CellOfMessage(message[c]), CellOfMessage(Reaped(q)[c]))
         /\ Reaped(q)[c].queue = q => Reaped(q)[c] = message[c]
         /\ Reaped(q)[c].state = "absent" <=> message[c].state = "absent"
<1>1. CASE Reaped(q)[c] = message[c]
  BY <1>1 DEF QueueInv, QueueFits, Backlog!Move
<1>2. CASE InQueue(c, q) /\ Reaped(q)[c] = MessageGone(message[c], "dropped", 0)
  <2>1. QueueFits(message[c], queues) /\ message[c].state = "stored"
    BY <1>2 DEF QueueInv, InQueue, Stored
  <2>2. /\ QueueFits(Reaped(q)[c], after)
        /\ Backlog!Move(CellOfMessage(message[c]), CellOfMessage(Reaped(q)[c]))
    BY <1>2, <2>1, GoneMessage DEF QueueInv
  <2>3. Reaped(q)[c].queue = NoQueue /\ Reaped(q)[c].state = "dropped"
    BY <1>2, <2>1 DEF MessageGone, QueueFits, Message
  <2> QED BY <1>2, <2>1, <2>2, <2>3, QueueAssumption DEF QueueInv
<1> QED BY <1>1, <1>2 DEF Reaped

\* One request leaves every message fitting and moves it as a leased backlog may.
QueueMoved ==
  /\ queues' \subseteq Queue
  /\ message' = [c \in Copy |-> message'[c]]
  /\ \A c \in Copy : /\ QueueFits(message'[c], queues')
                     /\ Backlog!Move(CellOfMessage(message[c]), CellOfMessage(message'[c]))

\* A queue goes, or is cleared: what it held is dropped, the rest stays.
LEMMA EmptiedQueue ==
  ASSUME QueueInv, NEW q \in Queue, message' = Without(q),
         queues' \in SUBSET Queue, queues \ {q} \subseteq queues'
  PROVE  QueueMoved
<1>1. ASSUME NEW c \in Copy
      PROVE  /\ QueueFits(message'[c], queues')
             /\ Backlog!Move(CellOfMessage(message[c]), CellOfMessage(message'[c]))
  <2>1. QueueFits(message[c], queues)
    BY DEF QueueInv
  <2>2. CASE InQueue(c, q)
    <3>1. message'[c] = MessageGone(message[c], "dropped", 0) /\ message[c].state = "stored"
      BY <2>2 DEF Without, InQueue, Stored
    <3> QED BY <2>1, <3>1, GoneMessage DEF QueueInv
  <2>3. CASE ~InQueue(c, q)
    <3>1. message'[c] = message[c] /\ (message[c].state = "stored" => message[c].queue # q)
      BY <2>3 DEF Without, InQueue, Stored
    <3> QED BY <2>1, <3>1 DEF QueueFits, Backlog!Move
  <2> QED BY <2>2, <2>3
<1>2. message' = [c \in Copy |-> message'[c]]
  BY DEF Without
<1> QED BY <1>1, <1>2 DEF QueueMoved

\* A put and a copy through the expiry of a queue's messages.
LEMMA NewMessages ==
  ASSUME QueueInv, NEW q \in Queue, queues \subseteq queues', queues' \subseteq Queue, q \in queues',
         NEW new \in SUBSET Unused, NEW wait \in 0..MaxVisibility, NEW life \in 0..MaxLife,
         message' = [c \in Copy |-> IF c \in new THEN NewMessage(q, wait, life) ELSE Reaped(q)[c]]
  PROVE  QueueMoved
<1>1. ASSUME NEW c \in Copy, c \in new
      PROVE  /\ QueueFits(message'[c], queues')
             /\ Backlog!Move(CellOfMessage(message[c]), CellOfMessage(message'[c]))
  <2>1. message[c] = NotYet
    BY <1>1 DEF QueueInv, QueueFits, Unused
  <2>2. message'[c] = NewMessage(q, wait, life)
    BY <1>1
  <2> QED BY <2>1, <2>2, MadeMessage
<1>2. ASSUME NEW c \in Copy, c \notin new
      PROVE  /\ QueueFits(message'[c], queues')
             /\ Backlog!Move(CellOfMessage(message[c]), CellOfMessage(message'[c]))
  <2>1. message'[c] = Reaped(q)[c]
    BY <1>2
  <2> QED BY <2>1, ReapedMessage
<1> QED BY <1>1, <1>2 DEF QueueMoved

\* Handing a message out.
LEMMA TakenMessage ==
  ASSUME NEW names \in SUBSET Queue, NEW m, QueueFits(m, names), m.state = "stored", Visible(m),
         m.receipts < MaxLeases, NEW hide \in 0..MaxVisibility,
         NEW n, n = [m EXCEPT !.wait = hide, !.receipts = @ + 1]
  PROVE  QueueFits(n, names) /\ Backlog!Move(CellOfMessage(m), CellOfMessage(n))
<1>1. m \in Message /\ m.receipts > 0 /\ m.by = 0 /\ m.queue \in names
  BY DEF QueueFits
<1>2. m.receipts + 1 \in 0..MaxLeases /\ m.receipts + 1 > 0
  BY <1>1, Zeros DEF Message
<1>3. /\ n \in Message /\ n.state = "stored" /\ n.queue = m.queue /\ n.by = 0
      /\ n.receipts = m.receipts + 1
  BY <1>1, <1>2 DEF Message
<1>4. QueueFits(n, names)
  BY <1>1, <1>2, <1>3 DEF QueueFits
<1>5. \E p \in {"ready", "held"} : CellOfMessage(n) = Backlog!Cell(p, m.receipts + 1, 0)
  BY <1>3 DEF CellOfMessage, Backlog!Cell
<1>6. CellOfMessage(m).place = "ready" /\ CellOfMessage(m).leases = m.receipts
  BY DEF CellOfMessage
<1>7. Backlog!Move(CellOfMessage(m), CellOfMessage(n))
  BY <1>5, <1>6 DEF Backlog!Move, Backlog!HandedOut
<1> QED BY <1>4, <1>7

\* Every request to a storage queue keeps the invariant and moves each cell as it may.
LEMMA QueueRequests ==
  ASSUME QueueInv, NEW q \in Queue, QueueRequest(q)
  PROVE  QueueMoved
<1> USE DEF QueueMoved
<1>0. \A c \in Copy : Backlog!Move(CellOfMessage(message[c]), CellOfMessage(message[c]))
  BY DEF Backlog!Move
<1>1. CASE CreateQueue(q)
  BY <1>0, <1>1 DEF CreateQueue, QueueInv, QueueFits
<1>2. CASE DeleteQueue(q)
  BY <1>2, EmptiedQueue DEF DeleteQueue, QueueInv
<1>3. CASE LookAtQueue(q)
  <2>1. \A c \in Copy : message'[c] = Reaped(q)[c]
    BY <1>3 DEF LookAtQueue, Reaped
  <2>2. message' = [c \in Copy |-> message'[c]] /\ queues' = queues /\ queues \subseteq Queue
    BY <1>3 DEF LookAtQueue, Reaped, QueueInv
  <2> QED BY <2>1, <2>2, ReapedMessage
<1>4. CASE PutMessage(q)
  <2>1. PICK wait \in 0..MaxVisibility, life \in 0..MaxLife :
          message' = [c \in Copy |-> IF c \in First(1, Unused) THEN NewMessage(q, wait, life)
                                     ELSE Reaped(q)[c]]
    BY <1>4 DEF PutMessage
  <2>2. First(1, Unused) \subseteq Unused
    BY DEF First
  <2>3. q \in queues /\ queues' = queues /\ queues \subseteq Queue
    BY <1>4 DEF PutMessage, QueueInv
  <2> QED BY <2>1, <2>2, <2>3, NewMessages
<1>5. CASE Dequeue(q)
  <2>1. PICK n \in 1..MaxBatch, hide \in 0..MaxVisibility :
          LET list == Reaped(q)
              taken == First(n, {c \in Copy : list[c].queue = q /\ Visible(list[c])})
          IN /\ \A c \in taken : message[c].receipts < MaxLeases
             /\ message' = [c \in Copy |->
                  IF c \in taken THEN [list[c] EXCEPT !.wait = hide, !.receipts = @ + 1]
                  ELSE list[c]]
    BY <1>5 DEF Dequeue
  <2> DEFINE taken == First(n, {c \in Copy : Reaped(q)[c].queue = q /\ Visible(Reaped(q)[c])})
  <2>2. \A c \in taken : c \in Copy /\ Reaped(q)[c].queue = q /\ Visible(Reaped(q)[c])
    BY DEF First
  <2>3. q \in queues /\ queues' = queues /\ queues \subseteq Queue
    BY <1>5 DEF Dequeue, QueueInv
  <2>4. /\ message' = [c \in Copy |-> message'[c]]
        /\ \A c \in taken : /\ message[c].receipts < MaxLeases
                            /\ message'[c] = [Reaped(q)[c] EXCEPT !.wait = hide, !.receipts = @ + 1]
        /\ \A c \in Copy \ taken : message'[c] = Reaped(q)[c]
    BY <2>1, <2>2
  <2> HIDE DEF taken
  <2>5. ASSUME NEW c \in taken
        PROVE  /\ QueueFits(message'[c], queues')
               /\ Backlog!Move(CellOfMessage(message[c]), CellOfMessage(message'[c]))
    <3>1. Reaped(q)[c] = message[c] /\ QueueFits(message[c], queues) /\ message[c].queue = q
      BY <2>2, <2>3, ReapedMessage DEF QueueInv
    <3>2. message[c].state = "stored"
      BY <3>1, QueueAssumption DEF QueueFits
    <3>3. /\ Visible(message[c]) /\ message[c].receipts < MaxLeases
          /\ message'[c] = [message[c] EXCEPT !.wait = hide, !.receipts = @ + 1]
      BY <2>2, <2>4, <3>1
    <3> QED BY <2>3, <3>1, <3>2, <3>3, TakenMessage
  <2>6. ASSUME NEW c \in Copy \ taken
        PROVE  /\ QueueFits(message'[c], queues')
               /\ Backlog!Move(CellOfMessage(message[c]), CellOfMessage(message'[c]))
    BY <2>3, <2>4, ReapedMessage
  <2> QED BY <2>3, <2>4, <2>5, <2>6
<1>6. CASE DeleteMessage(q)
  <2>1. q \in queues /\ queues' = queues /\ queues \subseteq Queue
    BY <1>6 DEF DeleteMessage, QueueInv
  <2>2. PICK c \in Copy, how \in {"settled", "dropped"}, n \in 0..MaxLeases :
          /\ Reaped(q)[c].queue = q
          /\ n = IF how = "settled" THEN message[c].receipts ELSE 0
          /\ message' = [Reaped(q) EXCEPT ![c] = MessageGone(@, how, n)]
    <3>1. PICK c \in Copy :
            /\ Reaped(q)[c].queue = q
            /\ \/ message' = [Reaped(q) EXCEPT ![c] = MessageGone(@, "dropped", 0)]
               \/ \E receipt \in 1..message[c].receipts :
                    /\ Accepts(message[c], receipt)
                    /\ message' = [Reaped(q) EXCEPT ![c] = MessageGone(@, "settled", receipt)]
      BY <1>6 DEF DeleteMessage
    <3>2. message[c].receipts \in 0..MaxLeases
      BY DEF QueueInv, Message
    <3> QED BY <3>1, <3>2, Zeros DEF Accepts
  <2>3. Reaped(q)[c] = message[c] /\ QueueFits(message[c], queues) /\ message[c].queue = q
    BY <2>1, <2>2, ReapedMessage DEF QueueInv
  <2>4. message[c].state = "stored"
    BY <2>3, QueueAssumption DEF QueueFits
  <2>5. /\ message' = [d \in Copy |-> message'[d]]
        /\ message'[c] = MessageGone(message[c], how, n)
        /\ \A d \in Copy \ {c} : message'[d] = Reaped(q)[d]
    BY <2>2, <2>3 DEF Reaped
  <2>6. /\ QueueFits(message'[c], queues')
        /\ Backlog!Move(CellOfMessage(message[c]), CellOfMessage(message'[c]))
    BY <2>1, <2>2, <2>3, <2>4, <2>5, GoneMessage
  <2>7. \A d \in Copy \ {c} :
           /\ QueueFits(message'[d], queues')
           /\ Backlog!Move(CellOfMessage(message[d]), CellOfMessage(message'[d]))
    BY <2>1, <2>5, ReapedMessage
  <2> QED BY <2>1, <2>5, <2>6, <2>7
<1>7. CASE ClearMessages(q)
  BY <1>7, EmptiedQueue DEF ClearMessages, QueueInv
<1>8. CASE EventGridPublish(q)
  <2>1. PICK n \in 1..MaxBatch :
          message' = [c \in Copy |-> IF c \in First(n, Unused) THEN NewMessage(q, 0, MaxLife)
                                     ELSE Reaped(q)[c]]
    BY <1>8 DEF EventGridPublish
  <2>2. First(n, Unused) \subseteq Unused
    BY DEF First
  <2>3. q \in queues' /\ queues \subseteq queues' /\ queues' \subseteq Queue
    BY <1>8 DEF EventGridPublish, QueueInv
  <2> QED BY <2>1, <2>2, <2>3, Zeros, NewMessages
<1> QED BY <1>1, <1>2, <1>3, <1>4, <1>5, <1>6, <1>7, <1>8 DEF QueueRequest

\* Time passes: a message comes back, or stays where it is.
LEMMA QueueTicks == QueueInv /\ QueueTick => QueueMoved
<1> SUFFICES ASSUME QueueInv, QueueTick PROVE QueueMoved
  OBVIOUS
<1>1. /\ queues' = queues /\ queues \subseteq Queue
      /\ message' = [c \in Copy |-> message'[c]]
  BY DEF QueueTick, QueueInv
<1>2. ASSUME NEW c \in Copy
      PROVE  /\ QueueFits(message'[c], queues')
             /\ Backlog!Move(CellOfMessage(message[c]), CellOfMessage(message'[c]))
  <2> DEFINE m == message[c]
             n == message'[c]
  <2>1. m \in Message /\ QueueFits(m, queues) /\ n = [m EXCEPT !.wait = Less(@), !.life = Less(@)]
    BY DEF QueueInv, QueueTick
  <2>2. Less(m.wait) \in 0..MaxVisibility /\ Less(m.life) \in 0..MaxLife /\ (m.wait = 0 => Less(m.wait) = 0)
    BY <2>1, QueueAssumption DEF Message, Less
  <2>3. /\ n \in Message /\ n.state = m.state /\ n.queue = m.queue /\ n.receipts = m.receipts
        /\ n.by = m.by /\ n.wait = Less(m.wait) /\ n.life = Less(m.life)
    BY <2>1, <2>2 DEF Message
  <2>4. m.state = "absent" => n = NotYet
    <3>1. Less(0) = 0
      BY DEF Less
    <3>2. ASSUME m.wait = 0, m.life = 0 PROVE n = m
      <4>1. \A x \in Message : x = [state |-> x.state, queue |-> x.queue, wait |-> x.wait,
                                    life |-> x.life, receipts |-> x.receipts, by |-> x.by]
        BY DEF Message
      <4>2. n.wait = m.wait /\ n.life = m.life
        BY <2>3, <3>1, <3>2
      <4>3. m = [state |-> n.state, queue |-> n.queue, wait |-> n.wait, life |-> n.life,
                 receipts |-> n.receipts, by |-> n.by]
        BY <2>1, <2>3, <4>1, <4>2
      <4> QED BY <2>3, <4>1, <4>3
    <3>3. ASSUME m.state = "absent" PROVE m = NotYet /\ m.wait = 0 /\ m.life = 0
      BY <2>1, <3>3 DEF QueueFits, NotYet
    <3> QED BY <3>2, <3>3
  <2> HIDE DEF m, n
  <2>5. QueueFits(n, queues')
    BY <1>1, <2>1, <2>3, <2>4 DEF QueueFits
  <2>6. CASE CellOfMessage(m).place = CellOfMessage(n).place
    <3>1. CellOfMessage(m) = CellOfMessage(n)
      BY <2>3, <2>6 DEF CellOfMessage
    <3> QED BY <2>5, <3>1 DEF Backlog!Move, m, n
  <2>7. CASE CellOfMessage(m).place # CellOfMessage(n).place
    <3>1. m.state = "stored" /\ ~Visible(m) /\ Visible(n)
      BY <2>2, <2>3, <2>7 DEF CellOfMessage, Visible
    <3>2. CellOfMessage(m).place = "held" /\ CellOfMessage(n) = Backlog!Cell("ready", CellOfMessage(m).leases, 0)
      BY <2>1, <2>3, <3>1 DEF CellOfMessage, QueueFits, Backlog!Cell
    <3> QED BY <2>5, <3>2 DEF Backlog!Move, Backlog!Returns, m, n
  <2> QED BY <2>6, <2>7
<1> QED BY <1>1, <1>2 DEF QueueMoved

\* Storage queues: the invariant holds at first and is kept, and it implies the types.
LEMMA QueueInvariant ==
  /\ QueueInit => QueueInv
  /\ QueueInv /\ QueueNext => QueueInv' /\ QueueMoved
  /\ QueueInv => QueueTypeOK
<1>1. QueueInit => QueueInv
  <2>1. NotYet \in Message
    BY QueueAssumption, Zeros DEF NotYet, Message
  <2> QED BY <2>1 DEF QueueInit, QueueInv, QueueFits, NotYet
<1>2. QueueInv /\ QueueNext => QueueInv' /\ QueueMoved
  <2> SUFFICES ASSUME QueueInv, QueueNext PROVE QueueInv' /\ QueueMoved
    OBVIOUS
  <2>1. QueueMoved
    BY QueueRequests, QueueTicks DEF QueueNext
  <2>2. QueueInv'
    BY <2>1 DEF QueueMoved, QueueInv, QueueFits
  <2> QED BY <2>1, <2>2
<1>3. QueueInv => QueueTypeOK
  BY QueueAssumption DEF QueueInv, QueueFits, QueueTypeOK, Stored
<1> QED BY <1>1, <1>2, <1>3
-----------------------------------------------------------------------------
(* Azure Service Bus.                                                      *)

BusMessage ==
  [state : {"absent", "stored", "settled", "dropped"}, at : {<<>>} \cup (BusTopic \X BusSub),
   seq : Nat, locks : 0..MaxLeases, locked : BOOLEAN, by : 0..MaxLeases]

\* One copy: it lies in the backlog of a subscription that exists, a lock on it was
\* counted, and it has no history before it was sent and no settlement while it is stored.
BusFits(x, names, subs) ==
  /\ x \in BusMessage
  /\ x.state = "absent" => x = NotSent
  /\ x.state = "stored" =>
       /\ x.by = 0 /\ (x.locked => x.locks > 0)
       /\ \E t \in names : \E s \in subs[t] : x.at = <<t, s>>

BusInv ==
  /\ busTopics \subseteq BusTopic
  /\ busSubs \in [BusTopic -> SUBSET BusSub]
  /\ \A t \in BusTopic \ busTopics : busSubs[t] = {}
  /\ busSeq \in Nat
  /\ busCopy \in [Copy -> BusMessage]
  /\ \A c \in Copy : BusFits(busCopy[c], busTopics, busSubs)

CellOfCopy(x) ==
  [place |-> IF x.state # "stored" THEN x.state ELSE IF x.locked THEN "held" ELSE "ready",
   leases |-> x.locks, by |-> x.by]

\* A stored copy of Service Bus is settled, or dropped with its subscription.
LEMMA GoneCopy ==
  ASSUME NEW names, NEW subs, NEW after, NEW left, NEW x, BusFits(x, names, subs),
         x.state = "stored",
         NEW how \in {"settled", "dropped"}, NEW n,
         n = IF how = "settled" THEN x.locks ELSE 0,
         how = "settled" => x.locks > 0
  PROVE  /\ BusFits(CopyGone(x, how, n), after, left)
         /\ Backlog!Move(CellOfCopy(x), CellOfCopy(CopyGone(x, how, n)))
<1> DEFINE g == CopyGone(x, how, n)
<1>1. x \in BusMessage /\ x.by = 0
  BY DEF BusFits
<1>2. n \in 0..MaxLeases
  BY <1>1, Zeros DEF BusMessage
<1>3. g \in BusMessage /\ g.state = how /\ g.by = n /\ g.locks = x.locks
  BY <1>1, <1>2 DEF CopyGone, BusMessage
<1>4. BusFits(g, after, left)
  BY <1>3 DEF BusFits
<1>5. CellOfCopy(g) = [place |-> how, leases |-> x.locks, by |-> n]
  BY <1>3 DEF CellOfCopy
<1>6. CellOfCopy(x).place \in {"ready", "held"} /\ CellOfCopy(x).leases = x.locks
  BY DEF CellOfCopy
<1> HIDE DEF g
<1>7. Backlog!Move(CellOfCopy(x), CellOfCopy(g))
  BY <1>1, <1>5, <1>6 DEF Backlog!Move, Backlog!Settled, Backlog!Dropped, Backlog!Present, Backlog!Cell
<1> QED BY <1>4, <1>7 DEF g

\* A copy nothing happens to, as long as its subscription is still there.
LEMMA KeptCopy ==
  ASSUME NEW x, NEW names, NEW subs, NEW after, NEW left, BusFits(x, names, subs),
         x.state = "stored" => \E t \in after : \E s \in left[t] : x.at = <<t, s>>
  PROVE  BusFits(x, after, left) /\ Backlog!Move(CellOfCopy(x), CellOfCopy(x))
  BY DEF BusFits, Backlog!Move

\* The lock is taken, or given back.
LEMMA LockedCopy ==
  ASSUME NEW x, NEW names, NEW subs, BusFits(x, names, subs), x.state = "stored", ~x.locked,
         x.locks < MaxLeases, NEW y, y = [x EXCEPT !.locked = TRUE, !.locks = @ + 1]
  PROVE  BusFits(y, names, subs) /\ Backlog!Move(CellOfCopy(x), CellOfCopy(y))
<1>1. x \in BusMessage /\ x.by = 0 /\ x.locks + 1 \in 0..MaxLeases /\ x.locks + 1 > 0
  BY Zeros DEF BusFits, BusMessage
<1>2. /\ y \in BusMessage /\ y.state = "stored" /\ y.by = 0 /\ y.at = x.at /\ y.locked
      /\ y.locks = x.locks + 1
  BY <1>1 DEF BusMessage
<1>3. BusFits(y, names, subs)
  BY <1>1, <1>2 DEF BusFits, NotSent
<1>4. CellOfCopy(y) = Backlog!Cell("held", x.locks + 1, 0)
  BY <1>2 DEF CellOfCopy, Backlog!Cell
<1>5. CellOfCopy(x).place = "ready" /\ CellOfCopy(x).leases = x.locks
  BY DEF CellOfCopy
<1> QED BY <1>3, <1>4, <1>5 DEF Backlog!Move, Backlog!HandedOut

\* The lock is given back: the copy keeps the count of its leases.
LEMMA UnlockedCopy ==
  ASSUME NEW x, NEW names, NEW subs, BusFits(x, names, subs), x.state = "stored", x.locked,
         NEW y, y = [x EXCEPT !.locked = FALSE]
  PROVE  BusFits(y, names, subs) /\ Backlog!Move(CellOfCopy(x), CellOfCopy(y))
<1>1. x \in BusMessage /\ x.by = 0
  BY DEF BusFits
<1>2. /\ y \in BusMessage /\ y.state = "stored" /\ y.by = 0 /\ y.at = x.at /\ ~y.locked
      /\ y.locks = x.locks
  BY <1>1 DEF BusMessage
<1>3. BusFits(y, names, subs)
  BY <1>1, <1>2 DEF BusFits, NotSent
<1>4. CellOfCopy(y) = Backlog!Cell("ready", x.locks, 0)
  BY <1>2 DEF CellOfCopy, Backlog!Cell
<1>5. CellOfCopy(x).place = "held" /\ CellOfCopy(x).leases = x.locks
  BY DEF CellOfCopy
<1> QED BY <1>3, <1>4, <1>5 DEF Backlog!Move, Backlog!Returns

\* Received and deleted at once.
LEMMA ReceivedCopy ==
  ASSUME NEW x, NEW names, NEW subs, BusFits(x, names, subs), x.state = "stored", ~x.locked,
         x.locks < MaxLeases,
         NEW y, y = CopyGone([x EXCEPT !.locks = @ + 1], "settled", x.locks + 1)
  PROVE  BusFits(y, names, subs) /\ Backlog!Move(CellOfCopy(x), CellOfCopy(y))
<1>1. x \in BusMessage /\ x.by = 0 /\ x.locks + 1 \in 0..MaxLeases /\ x.locks + 1 > 0
  BY Zeros DEF BusFits, BusMessage
<1>2. y \in BusMessage /\ y.state = "settled" /\ y.by = x.locks + 1 /\ y.locks = x.locks + 1
  BY <1>1 DEF BusMessage, CopyGone
<1>3. BusFits(y, names, subs)
  BY <1>2 DEF BusFits
<1>4. CellOfCopy(y) = Backlog!Cell("settled", x.locks + 1, x.locks + 1)
  BY <1>2 DEF CellOfCopy, Backlog!Cell
<1>5. CellOfCopy(x).place = "ready" /\ CellOfCopy(x).leases = x.locks
  BY DEF CellOfCopy
<1> QED BY <1>3, <1>4, <1>5 DEF Backlog!Move, Backlog!Taken

\* A message is copied to a subscription that exists.
LEMMA SentCopy ==
  ASSUME NEW names, NEW subs, names \subseteq BusTopic, subs \in [BusTopic -> SUBSET BusSub],
         NEW t, NEW s, t \in names, s \in subs[t], NEW n \in Nat,
         NEW y, y = [NotSent EXCEPT !.state = "stored", !.at = <<t, s>>, !.seq = n]
  PROVE  BusFits(y, names, subs) /\ Backlog!Move(CellOfCopy(NotSent), CellOfCopy(y))
<1>1. /\ y \in BusMessage /\ y.state = "stored" /\ y.by = 0 /\ y.at = <<t, s>> /\ ~y.locked
      /\ y.locks = 0
  BY Zeros DEF BusMessage, NotSent
<1>2. BusFits(y, names, subs)
  BY <1>1 DEF BusFits, NotSent
<1>3. CellOfCopy(y) = Backlog!Cell("ready", 0, 0) /\ CellOfCopy(NotSent) = Backlog!Absent
  BY <1>1 DEF CellOfCopy, Backlog!Cell, Backlog!Absent, NotSent
<1> QED BY <1>2, <1>3 DEF Backlog!Move, Backlog!Enters

BusMoved ==
  /\ BusInv'
  /\ \A c \in Copy : Backlog!Move(CellOfCopy(busCopy[c]), CellOfCopy(busCopy'[c]))

\* What BusInv' asks for when the names are in order and every copy fits and moves.
LEMMA BusMoves ==
  ASSUME busTopics' \subseteq BusTopic, busSubs' \in [BusTopic -> SUBSET BusSub],
         \A t \in BusTopic \ busTopics' : busSubs'[t] = {}, busSeq' \in Nat,
         busCopy' = [c \in Copy |-> busCopy'[c]],
         \A c \in Copy : /\ BusFits(busCopy'[c], busTopics', busSubs')
                         /\ Backlog!Move(CellOfCopy(busCopy[c]), CellOfCopy(busCopy'[c]))
  PROVE  BusMoved
<1>1. \A c \in Copy : busCopy'[c] \in BusMessage
  BY DEF BusFits
<1>2. busCopy' \in [Copy -> BusMessage]
  BY <1>1
<1> QED BY <1>2 DEF BusMoved, BusInv, BusMessage, BusFits

\* The copies that lose their backlog are dropped, the others stay.
LEMMA BusNames ==
  ASSUME BusInv, busTopics' \subseteq BusTopic, busSubs' \in [BusTopic -> SUBSET BusSub],
         \A t \in BusTopic \ busTopics' : busSubs'[t] = {}, busSeq' = busSeq,
         NEW lost \in SUBSET Copy,
         \A c \in lost : busCopy[c].state = "stored",
         \A c \in Copy \ lost : busCopy[c].state = "stored" =>
            \E t \in busTopics' : \E s \in busSubs'[t] : busCopy[c].at = <<t, s>>,
         busCopy' = [c \in Copy |-> IF c \in lost THEN CopyGone(busCopy[c], "dropped", 0) ELSE busCopy[c]]
  PROVE  BusMoved
<1>1. ASSUME NEW c \in Copy
      PROVE  /\ BusFits(busCopy'[c], busTopics', busSubs')
             /\ Backlog!Move(CellOfCopy(busCopy[c]), CellOfCopy(busCopy'[c]))
  <2>1. BusFits(busCopy[c], busTopics, busSubs)
    BY DEF BusInv
  <2>2. CASE c \in lost
    <3>1. busCopy'[c] = CopyGone(busCopy[c], "dropped", 0)
      BY <2>2
    <3> QED BY <2>1, <2>2, <3>1, GoneCopy
  <2>3. CASE c \notin lost
    <3>1. busCopy'[c] = busCopy[c]
      BY <2>3
    <3> QED BY <2>1, <2>3, <3>1, KeptCopy
  <2> QED BY <2>2, <2>3
<1>2. busSeq' \in Nat /\ busCopy' = [c \in Copy |-> busCopy'[c]]
  BY DEF BusInv
<1> QED BY <1>1, <1>2, BusMoves

\* A request that changes one copy.
LEMMA BusChangesOne ==
  ASSUME BusInv, NEW c \in Copy, UNCHANGED <<busTopics, busSubs, busSeq>>,
         busCopy' = [busCopy EXCEPT ![c] = busCopy'[c]],
         BusFits(busCopy'[c], busTopics, busSubs),
         Backlog!Move(CellOfCopy(busCopy[c]), CellOfCopy(busCopy'[c]))
  PROVE  BusMoved
<1>1. ASSUME NEW d \in Copy
      PROVE  /\ BusFits(busCopy'[d], busTopics', busSubs')
             /\ Backlog!Move(CellOfCopy(busCopy[d]), CellOfCopy(busCopy'[d]))
  <2>1. CASE d = c
    BY <2>1
  <2>2. CASE d # c
    <3>1. busCopy'[d] = busCopy[d] /\ BusFits(busCopy[d], busTopics, busSubs)
      BY <2>2 DEF BusInv
    <3> QED BY <3>1, KeptCopy DEF Backlog!Move
  <2> QED BY <2>1, <2>2
<1>2. /\ busTopics' \subseteq BusTopic /\ busSubs' \in [BusTopic -> SUBSET BusSub]
      /\ \A t \in BusTopic \ busTopics' : busSubs'[t] = {}
      /\ busSeq' \in Nat /\ busCopy' = [d \in Copy |-> busCopy'[d]]
  BY DEF BusInv
<1> QED BY <1>1, <1>2, BusMoves

\* Sending keeps the invariant and moves each cell as it may; so do the three that follow.
LEMMA BusSends ==
  ASSUME BusInv, NEW t \in BusTopic, Send(t)
  PROVE  BusMoved
<1> DEFINE n == Cardinality(busSubs[t])
           new == First(n, Unsent)
           number(c) == Cardinality({d \in new : d <= c})
<1>0. t \in busTopics /\ UNCHANGED <<busTopics, busSubs>> /\ busSeq' = busSeq + n
  BY DEF Send
<1>1. \E to \in [new -> busSubs[t]] :
          busCopy' = [c \in Copy |->
            IF c \in new
            THEN [NotSent EXCEPT !.state = "stored", !.at = <<t, to[c]>>, !.seq = busSeq + number(c)]
            ELSE busCopy[c]]
  BY DEF Send
<1>2. n \in Nat
  <2>1. busSubs[t] \in SUBSET BusSub
    BY DEF BusInv
  <2> QED BY <2>1, BusAssumption, FS_Subset, FS_CardinalityType
<1>3. new \in SUBSET Unsent /\ IsFiniteSet(new)
  BY FirstIsFinite DEF Unsent
<1>4. \A c : number(c) \in Nat
  <2> SUFFICES ASSUME NEW c PROVE number(c) \in Nat
    OBVIOUS
  <2>1. {d \in new : d <= c} \in SUBSET new
    OBVIOUS
  <2> QED BY <1>3, <2>1, FS_Subset, FS_CardinalityType
<1> HIDE DEF n, new, number
<1>5. PICK to \in [new -> busSubs[t]] :
           busCopy' = [c \in Copy |->
             IF c \in new
             THEN [NotSent EXCEPT !.state = "stored", !.at = <<t, to[c]>>, !.seq = busSeq + number(c)]
             ELSE busCopy[c]]
  BY <1>1
<1>6. ASSUME NEW c \in Copy
      PROVE  /\ BusFits(busCopy'[c], busTopics', busSubs')
             /\ Backlog!Move(CellOfCopy(busCopy[c]), CellOfCopy(busCopy'[c]))
  <2>1. BusFits(busCopy[c], busTopics, busSubs)
    BY DEF BusInv
  <2>2. CASE c \in new
    <3>1. busCopy[c] = NotSent
      BY <1>3, <2>1, <2>2 DEF Unsent, BusFits
    <3>2. busSeq + number(c) \in Nat
      BY <1>4 DEF BusInv
    <3>3. /\ to[c] \in busSubs[t]
          /\ busCopy'[c] = [NotSent EXCEPT !.state = "stored", !.at = <<t, to[c]>>,
                                           !.seq = busSeq + number(c)]
      BY <1>5, <2>2
    <3>4. /\ busTopics \subseteq BusTopic /\ busSubs \in [BusTopic -> SUBSET BusSub]
          /\ t \in busTopics
      BY <1>0 DEF BusInv
    <3>5. /\ BusFits(busCopy'[c], busTopics, busSubs)
          /\ Backlog!Move(CellOfCopy(NotSent), CellOfCopy(busCopy'[c]))
      <4> DEFINE y == busCopy'[c]
                 k == busSeq + number(c)
                 r == to[c]
      <4>1. k \in Nat /\ r \in busSubs[t]
        BY <3>2, <3>3
      <4>2. y = [NotSent EXCEPT !.state = "stored", !.at = <<t, r>>, !.seq = k]
        BY <3>3
      <4> HIDE DEF y, k, r
      <4>3. BusFits(y, busTopics, busSubs) /\ Backlog!Move(CellOfCopy(NotSent), CellOfCopy(y))
        BY <3>4, <4>1, <4>2, SentCopy
      <4> QED BY <4>3 DEF y
    <3> QED BY <1>0, <3>1, <3>5
  <2>3. CASE c \notin new
    <3>1. busCopy'[c] = busCopy[c]
      BY <1>5, <2>3
    <3> QED BY <1>0, <2>1, <3>1, KeptCopy DEF Backlog!Move
  <2> QED BY <2>2, <2>3
<1>7. busSeq' \in Nat
  <2>1. busSeq \in Nat
    BY DEF BusInv
  <2> QED BY <1>0, <1>2, <2>1
<1>8. busCopy' = [c \in Copy |-> busCopy'[c]]
  BY <1>5
<1> QED BY <1>0, <1>6, <1>7, <1>8, BusMoves DEF BusInv

\* Topics come and go, with what they hold.
LEMMA BusTopics ==
  ASSUME BusInv, NEW t \in BusTopic, BusCreateTopic(t) \/ BusDeleteTopic(t)
  PROVE  BusMoved
<1>0. \A c \in Copy : BusFits(busCopy[c], busTopics, busSubs)
  BY DEF BusInv
<1>1. CASE BusCreateTopic(t)
  <2>1. busCopy' = [c \in Copy |-> IF c \in {} THEN CopyGone(busCopy[c], "dropped", 0) ELSE busCopy[c]]
    BY <1>1 DEF BusCreateTopic, BusInv
  <2>2. /\ busTopics' \subseteq BusTopic /\ busSubs' \in [BusTopic -> SUBSET BusSub]
        /\ \A u \in BusTopic \ busTopics' : busSubs'[u] = {}
        /\ busSeq' = busSeq /\ busSubs' = busSubs /\ busTopics \subseteq busTopics'
    BY <1>1 DEF BusCreateTopic, BusInv
  <2>3. \A c \in Copy \ {} : busCopy[c].state = "stored" =>
            \E u \in busTopics' : \E r \in busSubs'[u] : busCopy[c].at = <<u, r>>
    BY <1>0, <2>2 DEF BusFits
  <2> QED BY <2>1, <2>2, <2>3, BusNames
<1>2. CASE BusDeleteTopic(t)
  <2> DEFINE lost == {c \in Copy : \E r \in BusSub : InBacklog(c, t, r)}
  <2>1. busCopy' = [c \in Copy |-> IF c \in lost THEN CopyGone(busCopy[c], "dropped", 0) ELSE busCopy[c]]
    BY <1>2 DEF BusDeleteTopic, DiscardCopies
  <2>2. \A c \in lost : busCopy[c].state = "stored"
    BY DEF InBacklog
  <2>3. \A c \in Copy \ lost : busCopy[c].state = "stored" =>
            \E u \in busTopics \ {t} : \E r \in busSubs[u] : busCopy[c].at = <<u, r>>
    BY <1>0 DEF InBacklog, BusFits, BusInv
  <2> HIDE DEF lost
  <2>4. \A c \in Copy \ lost : busCopy[c].state = "stored" =>
            \E u \in busTopics' : \E r \in busSubs'[u] : busCopy[c].at = <<u, r>>
    BY <1>2, <2>3 DEF BusDeleteTopic, BusInv
  <2>5. lost \in SUBSET Copy
    BY DEF lost
  <2>6. /\ busTopics' \subseteq BusTopic /\ busSubs' \in [BusTopic -> SUBSET BusSub]
        /\ \A u \in BusTopic \ busTopics' : busSubs'[u] = {}
        /\ busSeq' = busSeq
    BY <1>2 DEF BusDeleteTopic, BusInv
  <2> QED BY <2>1, <2>2, <2>4, <2>5, <2>6, BusNames
<1> QED BY <1>1, <1>2

\* Subscriptions come and go, with what they hold.
LEMMA BusSubscriptions ==
  ASSUME BusInv, NEW t \in BusTopic, NEW s \in BusSub,
         BusCreateSubscription(t, s) \/ BusDeleteSubscription(t, s)
  PROVE  BusMoved
<1>0. \A c \in Copy : BusFits(busCopy[c], busTopics, busSubs)
  BY DEF BusInv
<1>1. CASE BusCreateSubscription(t, s)
  <2>1. busCopy' = [c \in Copy |-> IF c \in {} THEN CopyGone(busCopy[c], "dropped", 0) ELSE busCopy[c]]
    BY <1>1 DEF BusCreateSubscription, BusInv
  <2>2. /\ busTopics' \subseteq BusTopic /\ busSubs' \in [BusTopic -> SUBSET BusSub]
        /\ \A u \in BusTopic \ busTopics' : busSubs'[u] = {}
        /\ busSeq' = busSeq /\ busTopics' = busTopics
        /\ \A u \in BusTopic : busSubs[u] \subseteq busSubs'[u]
    BY <1>1 DEF BusCreateSubscription, BusInv
  <2>3. \A c \in Copy \ {} : busCopy[c].state = "stored" =>
            \E u \in busTopics' : \E r \in busSubs'[u] : busCopy[c].at = <<u, r>>
    BY <1>0, <2>2 DEF BusFits
  <2> QED BY <2>1, <2>2, <2>3, BusNames
<1>2. CASE BusDeleteSubscription(t, s)
  <2> DEFINE lost == {c \in Copy : InBacklog(c, t, s)}
  <2>1. busCopy' = [c \in Copy |-> IF c \in lost THEN CopyGone(busCopy[c], "dropped", 0) ELSE busCopy[c]]
    BY <1>2 DEF BusDeleteSubscription, DiscardCopies
  <2>2. \A c \in lost : busCopy[c].state = "stored"
    BY DEF InBacklog
  <2>3. \A c \in Copy \ lost : busCopy[c].state = "stored" =>
            \E u \in busTopics : \E r \in busSubs[u] : busCopy[c].at = <<u, r>> /\ (u # t \/ r # s)
    BY <1>0 DEF InBacklog, BusFits
  <2> HIDE DEF lost
  <2>4. /\ busTopics' = busTopics /\ busSeq' = busSeq
        /\ \A u \in BusTopic : busSubs'[u] = IF u = t THEN busSubs[u] \ {s} ELSE busSubs[u]
    BY <1>2 DEF BusDeleteSubscription, BusInv
  <2>5. \A c \in Copy \ lost : busCopy[c].state = "stored" =>
            \E u \in busTopics' : \E r \in busSubs'[u] : busCopy[c].at = <<u, r>>
    <3> SUFFICES ASSUME NEW c \in Copy \ lost, busCopy[c].state = "stored"
                 PROVE  \E u \in busTopics' : \E r \in busSubs'[u] : busCopy[c].at = <<u, r>>
      OBVIOUS
    <3>1. PICK u \in busTopics : \E r \in busSubs[u] : busCopy[c].at = <<u, r>> /\ (u # t \/ r # s)
      BY <2>3
    <3>2. u \in BusTopic
      BY DEF BusInv
    <3> QED BY <2>4, <3>1, <3>2
  <2>6. lost \in SUBSET Copy
    BY DEF lost
  <2>7. /\ busTopics' \subseteq BusTopic /\ busSubs' \in [BusTopic -> SUBSET BusSub]
        /\ \A u \in BusTopic \ busTopics' : busSubs'[u] = {}
    BY <1>2 DEF BusDeleteSubscription, BusInv
  <2> QED BY <2>1, <2>2, <2>4, <2>5, <2>6, <2>7, BusNames
<1> QED BY <1>1, <1>2

\* Receiving and settling.
LEMMA BusMessages ==
  ASSUME BusInv, NEW t \in BusTopic, NEW s \in BusSub,
         \/ ReceiveAndDelete(t, s) \/ PeekLock(t, s) \/ Complete(t, s) \/ Abandon(t, s)
  PROVE  BusMoved
<1>0. \A c \in Copy : BusFits(busCopy[c], busTopics, busSubs)
  BY DEF BusInv
<1>1. CASE ReceiveAndDelete(t, s)
  <2>1. PICK c \in Head(t, s) :
          /\ busCopy[c].locks < MaxLeases
          /\ busCopy' = [busCopy EXCEPT ![c] =
               CopyGone([busCopy[c] EXCEPT !.locks = @ + 1], "settled",
                        [busCopy[c] EXCEPT !.locks = @ + 1].locks)]
    BY <1>1 DEF ReceiveAndDelete
  <2>2. c \in Copy /\ busCopy[c].state = "stored" /\ ~busCopy[c].locked
    BY DEF Head, First, InBacklog
  <2>3. [busCopy[c] EXCEPT !.locks = @ + 1].locks = busCopy[c].locks + 1
    BY <2>2 DEF BusInv, BusMessage
  <2>4. /\ busCopy'[c] = CopyGone([busCopy[c] EXCEPT !.locks = @ + 1], "settled", busCopy[c].locks + 1)
        /\ busCopy' = [busCopy EXCEPT ![c] = busCopy'[c]]
    BY <2>1, <2>2, <2>3 DEF BusInv
  <2> QED BY <1>0, <1>1, <2>1, <2>2, <2>4, ReceivedCopy, BusChangesOne DEF ReceiveAndDelete
<1>2. CASE PeekLock(t, s)
  <2>1. PICK c \in Head(t, s) :
          /\ busCopy[c].locks < MaxLeases
          /\ busCopy' = [busCopy EXCEPT ![c].locked = TRUE, ![c].locks = @ + 1]
    BY <1>2 DEF PeekLock
  <2>2. c \in Copy /\ busCopy[c].state = "stored" /\ ~busCopy[c].locked
    BY DEF Head, First, InBacklog
  <2>3. /\ busCopy'[c] = [busCopy[c] EXCEPT !.locked = TRUE, !.locks = @ + 1]
        /\ busCopy' = [busCopy EXCEPT ![c] = busCopy'[c]]
    BY <2>1, <2>2 DEF BusInv, BusMessage
  <2> QED BY <1>0, <1>2, <2>1, <2>2, <2>3, LockedCopy, BusChangesOne DEF PeekLock
<1>3. CASE Complete(t, s)
  <2>1. PICK held \in Copy, n \in Nat :
          /\ n \in 1..busCopy[held].locks
          /\ \E c \in Copy : Matches(c, t, s, held, n)
          /\ busCopy' = [c \in Copy |-> IF Matches(c, t, s, held, n)
                                        THEN CopyGone(busCopy[c], "settled", n) ELSE busCopy[c]]
    BY <1>3 DEF Complete, BusInv, BusMessage
  <2>2. \A c \in Copy : Matches(c, t, s, held, n) <=> c = held
    BY <2>1 DEF Matches
  <2>3. busCopy[held].state = "stored" /\ busCopy[held].locks = n /\ n > 0
    BY <2>1, <2>2 DEF Matches, InBacklog
  <2>4. /\ busCopy'[held] = CopyGone(busCopy[held], "settled", busCopy[held].locks)
        /\ busCopy' = [busCopy EXCEPT ![held] = busCopy'[held]]
    BY <2>1, <2>2, <2>3 DEF BusInv
  <2> QED BY <1>0, <1>3, <2>3, <2>4, GoneCopy, BusChangesOne DEF Complete
<1>4. CASE Abandon(t, s)
  <2>1. PICK held \in Copy, n \in Nat :
          \E c \in First(1, {c \in Copy : Matches(c, t, s, held, n)}) :
            busCopy' = [busCopy EXCEPT ![c].locked = FALSE]
    <3>1. \A h \in Copy : \A m \in 1..busCopy[h].locks : m \in Nat
      BY DEF BusInv, BusMessage
    <3> QED BY <1>4, <3>1 DEF Abandon
  <2>2. PICK c \in Copy : Matches(c, t, s, held, n) /\ busCopy' = [busCopy EXCEPT ![c].locked = FALSE]
    BY <2>1 DEF First
  <2>3. busCopy[c].state = "stored" /\ busCopy[c].locked
    BY <2>2 DEF Matches, InBacklog
  <2>4. /\ busCopy'[c] = [busCopy[c] EXCEPT !.locked = FALSE]
        /\ busCopy' = [busCopy EXCEPT ![c] = busCopy'[c]]
    BY <2>2 DEF BusInv, BusMessage
  <2> QED BY <1>0, <1>4, <2>3, <2>4, UnlockedCopy, BusChangesOne DEF Abandon
<1> QED BY <1>1, <1>2, <1>3, <1>4

\* Service Bus: the invariant holds at first and is kept, and it implies the types.
LEMMA BusInvariant ==
  /\ BusInit => BusInv
  /\ BusInv /\ BusNext => BusMoved
  /\ BusInv => BusTypeOK
<1>1. BusInit => BusInv
  <2>1. NotSent \in BusMessage
    BY Zeros DEF NotSent, BusMessage
  <2> QED BY <2>1 DEF BusInit, BusInv, BusFits, NotSent
<1>2. BusInv /\ BusNext => BusMoved
  <2> SUFFICES ASSUME BusInv, BusNext PROVE BusMoved
    OBVIOUS
  <2>1. CASE BusRestart
    <3>1. \A c \in Copy : BusFits(busCopy[c], busTopics, busSubs)
      BY DEF BusInv
    <3>2. busCopy' = [c \in Copy |-> busCopy'[c]] /\ UNCHANGED <<busTopics, busSubs, busCopy>> /\ busSeq' = 0
      BY <2>1 DEF BusRestart, BusInv
    <3> QED BY <3>1, <3>2, BusMoves DEF BusInv, Backlog!Move
  <2>2. ASSUME NEW t \in BusTopic, BusRequest(t) PROVE BusMoved
    BY <2>2, BusSends, BusTopics, BusSubscriptions, BusMessages DEF BusRequest
  <2> QED BY <2>1, <2>2 DEF BusNext
<1>3. BusInv => BusTypeOK
  BY DEF BusInv, BusTypeOK, BusFits, BusMessage
<1> QED BY <1>1, <1>2, <1>3

-----------------------------------------------------------------------------
(* GCP Pub/Sub.                                                            *)

PubSubMessage ==
  [state : {"absent", "stored", "settled", "dropped"}, sub : SUBSET Sub,
   pulls : 0..MaxLeases, pending : BOOLEAN, by : 0..MaxLeases]

\* One copy: it lies in the backlog of one subscription that exists, a pull that made
\* it pending was counted, and its history is empty before and while it is stored.
PubSubFits(x, subs) ==
  /\ x \in PubSubMessage
  /\ x.state = "absent" => x = NotPublished
  /\ x.state = "stored" =>
       /\ x.by = 0 /\ (x.pending => x.pulls > 0)
       /\ \E s \in subs : x.sub = {s}

PubSubNames ==
  /\ topics \subseteq Topic /\ subscriptions \subseteq Sub
  /\ listed \in [Topic -> SUBSET Sub]
  /\ topicOf \in [Sub -> Topic \cup {DeletedTopic}]
  /\ \A s \in subscriptions : topicOf[s] \in topics \cup {DeletedTopic}

\* The ack ids of a subscription are those of the last pulls of its pending copies.
AcksExact ==
  /\ ackids \in [Sub -> SUBSET Ack]
  /\ \A s \in Sub : \A c \in Copy, n \in 1..MaxLeases :
       <<c, n>> \in ackids[s] <=>
         InSub(c, s) /\ pubsubCopy[c].pending /\ n = pubsubCopy[c].pulls

PubSubCopies ==
  /\ pubsubCopy \in [Copy -> PubSubMessage]
  /\ \A c \in Copy : PubSubFits(pubsubCopy[c], subscriptions)

PubSubInv == PubSubNames /\ TopicsAgree /\ PubSubCopies /\ AcksExact

CellOfPubSub(x) ==
  [place |-> IF x.state # "stored" THEN x.state ELSE IF x.pending THEN "held" ELSE "ready",
   leases |-> x.pulls, by |-> x.by]

\* A copy of Pub/Sub is acknowledged, or dropped with its subscription.
LEMMA GonePubSub ==
  ASSUME NEW subs, NEW after, NEW x, PubSubFits(x, subs), x.state = "stored",
         NEW how \in {"settled", "dropped"}, NEW n,
         n = IF how = "settled" THEN x.pulls ELSE 0,
         how = "settled" => x.pulls > 0
  PROVE  /\ PubSubFits(PubSubGone(x, how, n), after)
         /\ Backlog!Move(CellOfPubSub(x), CellOfPubSub(PubSubGone(x, how, n)))
         /\ PubSubGone(x, how, n).state = how
<1> DEFINE g == PubSubGone(x, how, n)
<1>1. x \in PubSubMessage /\ x.by = 0
  BY DEF PubSubFits
<1>2. n \in 0..MaxLeases
  BY <1>1, Zeros DEF PubSubMessage
<1>3. g \in PubSubMessage /\ g.state = how /\ g.by = n /\ g.pulls = x.pulls
  BY <1>1, <1>2 DEF PubSubGone, PubSubMessage
<1>4. PubSubFits(g, after)
  BY <1>3 DEF PubSubFits
<1>5. CellOfPubSub(g) = [place |-> how, leases |-> x.pulls, by |-> n]
  BY <1>3 DEF CellOfPubSub
<1>6. CellOfPubSub(x).place \in {"ready", "held"} /\ CellOfPubSub(x).leases = x.pulls
  BY DEF CellOfPubSub
<1> HIDE DEF g
<1>7. Backlog!Move(CellOfPubSub(x), CellOfPubSub(g))
  BY <1>1, <1>5, <1>6 DEF Backlog!Move, Backlog!Settled, Backlog!Dropped, Backlog!Present, Backlog!Cell
<1> QED BY <1>3, <1>4, <1>7 DEF g

\* A pull makes a copy pending and counts it.
LEMMA PulledPubSub ==
  ASSUME NEW x, NEW subs, PubSubFits(x, subs), x.state = "stored", ~x.pending,
         x.pulls < MaxLeases, NEW y, y = [x EXCEPT !.pending = TRUE, !.pulls = @ + 1]
  PROVE  /\ PubSubFits(y, subs) /\ Backlog!Move(CellOfPubSub(x), CellOfPubSub(y))
         /\ y.state = "stored" /\ y.sub = x.sub /\ y.pending /\ y.pulls = x.pulls + 1
         /\ x.pulls + 1 \in 1..MaxLeases
<1>1. x \in PubSubMessage /\ x.by = 0 /\ x.pulls + 1 \in 1..MaxLeases /\ x.pulls + 1 > 0
  BY Zeros DEF PubSubFits, PubSubMessage
<1>2. /\ y \in PubSubMessage /\ y.state = "stored" /\ y.by = 0 /\ y.sub = x.sub /\ y.pending
      /\ y.pulls = x.pulls + 1
  <2>1. x.pulls + 1 \in 0..MaxLeases
    BY <1>1
  <2>2. y.state = "stored" /\ y.by = 0 /\ y.sub = x.sub /\ y.pending /\ y.pulls = x.pulls + 1
    BY <1>1 DEF PubSubMessage
  <2>3. y \in PubSubMessage
    BY <1>1, <2>1 DEF PubSubMessage
  <2> QED BY <2>2, <2>3
<1>3. PubSubFits(y, subs)
  BY <1>1, <1>2 DEF PubSubFits, NotPublished
<1>4. CellOfPubSub(y) = Backlog!Cell("held", x.pulls + 1, 0)
  BY <1>2 DEF CellOfPubSub, Backlog!Cell
<1>5. CellOfPubSub(x).place = "ready" /\ CellOfPubSub(x).leases = x.pulls
  BY DEF CellOfPubSub
<1> QED BY <1>1, <1>2, <1>3, <1>4, <1>5 DEF Backlog!Move, Backlog!HandedOut

\* A published message is copied to a subscription that exists.
LEMMA MadePubSub ==
  ASSUME NEW subs, subs \subseteq Sub, NEW s, s \in subs,
         NEW y, y = [NotPublished EXCEPT !.state = "stored", !.sub = {s}]
  PROVE  /\ PubSubFits(y, subs) /\ Backlog!Move(CellOfPubSub(NotPublished), CellOfPubSub(y))
         /\ ~y.pending
<1>1. /\ y \in PubSubMessage /\ y.state = "stored" /\ y.by = 0 /\ y.sub = {s} /\ ~y.pending
      /\ y.pulls = 0
  BY Zeros DEF PubSubMessage, NotPublished
<1>2. PubSubFits(y, subs)
  BY <1>1 DEF PubSubFits, NotPublished
<1>3. CellOfPubSub(y) = Backlog!Cell("ready", 0, 0) /\ CellOfPubSub(NotPublished) = Backlog!Absent
  BY <1>1 DEF CellOfPubSub, Backlog!Cell, Backlog!Absent, NotPublished
<1> QED BY <1>1, <1>2, <1>3 DEF Backlog!Move, Backlog!Enters

PubSubMoves == \A c \in Copy : Backlog!Move(CellOfPubSub(pubsubCopy[c]), CellOfPubSub(pubsubCopy'[c]))

\* It suffices that each copy fits and moves as it may.
LEMMA PubSubCopiesFit ==
  ASSUME pubsubCopy' = [c \in Copy |-> pubsubCopy'[c]],
         \A c \in Copy : /\ PubSubFits(pubsubCopy'[c], subscriptions')
                         /\ Backlog!Move(CellOfPubSub(pubsubCopy[c]), CellOfPubSub(pubsubCopy'[c]))
  PROVE  PubSubCopies' /\ PubSubMoves
<1>1. \A c \in Copy : pubsubCopy'[c] \in PubSubMessage
  BY DEF PubSubFits
<1>2. pubsubCopy' \in [Copy -> PubSubMessage]
  BY <1>1
<1> QED BY <1>2 DEF PubSubMoves, PubSubCopies, PubSubMessage, PubSubFits

\* The lists of the topics.
LEMMA ListsAgree ==
  ASSUME PubSubInv, NEW s \in Sub, NEW t \in Topic, PubSubRequest(s, t)
  PROVE  (PubSubNames /\ TopicsAgree)'
<1> USE PubSubAssumption DEF PubSubInv, PubSubNames, TopicsAgree
<1>1. CASE CreateTopic(t)
  <2>1. PubSubNames'
    BY <1>1 DEF CreateTopic
  <2>2. ASSUME NEW u \in Topic PROVE listed'[u] = {r \in subscriptions' : u \in topics' /\ topicOf'[r] = u}
    <3>1. CASE u = t
      BY <1>1, <3>1 DEF CreateTopic
    <3>2. CASE u # t
      BY <1>1, <3>2 DEF CreateTopic
    <3> QED BY <3>1, <3>2
  <2> QED BY <2>1, <2>2
<1>2. CASE DeleteTopic(t)
  <2>1. PubSubNames'
    BY <1>2 DEF DeleteTopic
  <2>2. ASSUME NEW u \in Topic PROVE listed'[u] = {r \in subscriptions' : u \in topics' /\ topicOf'[r] = u}
    <3>1. CASE u = t
      BY <1>2, <3>1 DEF DeleteTopic
    <3>2. CASE u # t
      BY <1>2, <3>2 DEF DeleteTopic
    <3> QED BY <3>1, <3>2
  <2> QED BY <2>1, <2>2
<1>3. CASE CreateSubscription(s, t)
  <2>1. PubSubNames'
    BY <1>3 DEF CreateSubscription
  <2>2. ASSUME NEW u \in Topic PROVE listed'[u] = {r \in subscriptions' : u \in topics' /\ topicOf'[r] = u}
    <3>1. CASE u = t
      BY <1>3, <3>1 DEF CreateSubscription
    <3>2. CASE u # t
      BY <1>3, <3>2 DEF CreateSubscription
    <3> QED BY <3>1, <3>2
  <2> QED BY <2>1, <2>2
<1>4. CASE DeleteSubscription(s)
  <2>1. PubSubNames'
    BY <1>4 DEF DeleteSubscription
  <2>2. ASSUME NEW u \in Topic PROVE listed'[u] = {r \in subscriptions' : u \in topics' /\ topicOf'[r] = u}
    BY <1>4 DEF DeleteSubscription
  <2> QED BY <2>1, <2>2
<1>5. CASE Publish(t) \/ Pull(s) \/ Acknowledge(s)
  <2>1. UNCHANGED <<topics, listed, subscriptions, topicOf>>
    BY <1>5 DEF Publish, Pull, Acknowledge
  <2> QED BY <2>1
<1> QED BY <1>1, <1>2, <1>3, <1>4, <1>5 DEF PubSubRequest

\* What is published has no ack id yet.
LEMMA PublishedCopies ==
  ASSUME PubSubInv, NEW t \in Topic, Publish(t)
  PROVE  PubSubCopies' /\ AcksExact' /\ PubSubMoves
<1>0. /\ \A c \in Copy : PubSubFits(pubsubCopy[c], subscriptions)
      /\ pubsubCopy \in [Copy -> PubSubMessage]
  BY DEF PubSubInv, PubSubCopies
<1>1. UNCHANGED <<subscriptions, ackids>>
  BY DEF Publish
<1>2. PICK n \in 1..MaxBatch :
        LET to == listed[t] \cap subscriptions
            new == First(n * Cardinality(to), Unpublished)
        IN \E sub \in [new -> to] :
             pubsubCopy' = [c \in Copy |->
               IF c \in new THEN [NotPublished EXCEPT !.state = "stored", !.sub = {sub[c]}]
               ELSE pubsubCopy[c]]
  BY DEF Publish
<1> DEFINE new == First(n * Cardinality(listed[t] \cap subscriptions), Unpublished)
<1>3. new \subseteq Unpublished
  BY DEF First
<1>4. PICK sub \in [new -> listed[t] \cap subscriptions] :
        pubsubCopy' = [c \in Copy |->
          IF c \in new THEN [NotPublished EXCEPT !.state = "stored", !.sub = {sub[c]}]
          ELSE pubsubCopy[c]]
  BY <1>2
<1> HIDE DEF new
<1>5. ASSUME NEW c \in Copy, c \in new
      PROVE  /\ PubSubFits(pubsubCopy'[c], subscriptions')
             /\ Backlog!Move(CellOfPubSub(pubsubCopy[c]), CellOfPubSub(pubsubCopy'[c]))
             /\ ~pubsubCopy'[c].pending /\ pubsubCopy[c].state = "absent"
  <2> DEFINE y == pubsubCopy'[c]
             r == sub[c]
  <2>1. pubsubCopy[c] = NotPublished /\ pubsubCopy[c].state = "absent"
    BY <1>0, <1>3, <1>5 DEF Unpublished, PubSubFits
  <2>2. r \in subscriptions /\ y = [NotPublished EXCEPT !.state = "stored", !.sub = {r}]
    BY <1>4, <1>5
  <2>3. subscriptions \subseteq Sub
    BY DEF PubSubInv, PubSubNames
  <2> HIDE DEF y, r
  <2>4. PubSubFits(y, subscriptions) /\ Backlog!Move(CellOfPubSub(NotPublished), CellOfPubSub(y)) /\ ~y.pending
    BY <2>2, <2>3, MadePubSub
  <2> QED BY <1>1, <2>1, <2>4 DEF y
<1>6. ASSUME NEW c \in Copy, c \notin new
      PROVE  /\ PubSubFits(pubsubCopy'[c], subscriptions')
             /\ Backlog!Move(CellOfPubSub(pubsubCopy[c]), CellOfPubSub(pubsubCopy'[c]))
             /\ pubsubCopy'[c] = pubsubCopy[c]
  BY <1>0, <1>1, <1>4, <1>6 DEF Backlog!Move
<1>7. PubSubCopies' /\ PubSubMoves
  BY <1>4, <1>5, <1>6, PubSubCopiesFit
<1>8. ASSUME NEW r \in Sub, NEW c \in Copy, NEW m \in 1..MaxLeases
      PROVE  <<c, m>> \in ackids'[r] <=>
               InSub(c, r)' /\ pubsubCopy'[c].pending /\ m = pubsubCopy'[c].pulls
  BY <1>1, <1>5, <1>6 DEF PubSubInv, AcksExact, InSub
<1>9. AcksExact'
  BY <1>1, <1>8 DEF PubSubInv, AcksExact
<1> QED BY <1>7, <1>9

\* Pulling makes the ack id of the pull it counts.
LEMMA PulledCopies ==
  ASSUME PubSubInv, NEW s \in Sub, Pull(s)
  PROVE  PubSubCopies' /\ AcksExact' /\ PubSubMoves
<1>0. /\ \A c \in Copy : PubSubFits(pubsubCopy[c], subscriptions)
      /\ pubsubCopy \in [Copy -> PubSubMessage]
  BY DEF PubSubInv, PubSubCopies
<1>1. PICK n \in 1..MaxBatch :
        LET pulled == First(n, Offered(s))
            after(c) == [pubsubCopy[c] EXCEPT !.pending = TRUE, !.pulls = @ + 1]
        IN /\ \A c \in pulled : pubsubCopy[c].pulls < MaxLeases
           /\ pubsubCopy' = [c \in Copy |-> IF c \in pulled THEN after(c) ELSE pubsubCopy[c]]
           /\ ackids' = [ackids EXCEPT ![s] = @ \cup {<<c, after(c).pulls>> : c \in pulled}]
  BY DEF Pull
<1> DEFINE pulled == First(n, Offered(s))
           after(c) == [pubsubCopy[c] EXCEPT !.pending = TRUE, !.pulls = @ + 1]
<1>2. /\ \A c \in pulled : pubsubCopy[c].pulls < MaxLeases
      /\ pubsubCopy' = [c \in Copy |-> IF c \in pulled THEN after(c) ELSE pubsubCopy[c]]
      /\ ackids' = [ackids EXCEPT ![s] = @ \cup {<<c, after(c).pulls>> : c \in pulled}]
      /\ subscriptions' = subscriptions
  BY <1>1 DEF Pull
<1>3. \A c \in pulled : c \in Copy /\ InSub(c, s) /\ ~pubsubCopy[c].pending
  BY DEF First, Offered
<1> HIDE DEF pulled
<1>4. ASSUME NEW c \in pulled
      PROVE  /\ PubSubFits(pubsubCopy'[c], subscriptions')
             /\ Backlog!Move(CellOfPubSub(pubsubCopy[c]), CellOfPubSub(pubsubCopy'[c]))
             /\ InSub(c, s)' /\ pubsubCopy'[c].pending
             /\ pubsubCopy'[c].pulls = pubsubCopy[c].pulls + 1
             /\ after(c).pulls = pubsubCopy'[c].pulls /\ pubsubCopy'[c].pulls \in 1..MaxLeases
  <2>1. c \in Copy /\ pubsubCopy[c].state = "stored" /\ pubsubCopy[c].sub = {s} /\ ~pubsubCopy[c].pending
    BY <1>3 DEF InSub
  <2>2. pubsubCopy'[c] = [pubsubCopy[c] EXCEPT !.pending = TRUE, !.pulls = @ + 1] /\ pubsubCopy[c].pulls < MaxLeases
    BY <1>2, <2>1
  <2>3. /\ PubSubFits(pubsubCopy'[c], subscriptions)
        /\ Backlog!Move(CellOfPubSub(pubsubCopy[c]), CellOfPubSub(pubsubCopy'[c]))
        /\ pubsubCopy'[c].state = "stored" /\ pubsubCopy'[c].sub = pubsubCopy[c].sub
        /\ pubsubCopy'[c].pending /\ pubsubCopy'[c].pulls = pubsubCopy[c].pulls + 1
        /\ pubsubCopy[c].pulls + 1 \in 1..MaxLeases
    BY <1>0, <2>1, <2>2, PulledPubSub
  <2> QED BY <1>2, <2>1, <2>2, <2>3 DEF InSub
<1>5. ASSUME NEW c \in Copy \ pulled
      PROVE  /\ PubSubFits(pubsubCopy'[c], subscriptions')
             /\ Backlog!Move(CellOfPubSub(pubsubCopy[c]), CellOfPubSub(pubsubCopy'[c]))
             /\ pubsubCopy'[c] = pubsubCopy[c]
  BY <1>0, <1>2 DEF Backlog!Move
<1>6. PubSubCopies' /\ PubSubMoves
  BY <1>2, <1>4, <1>5, PubSubCopiesFit
<1>7. /\ ackids \in [Sub -> SUBSET Ack] /\ {<<c, after(c).pulls>> : c \in pulled} \subseteq Ack
  BY <1>3, <1>4 DEF PubSubInv, AcksExact, Ack
<1>8. ackids' \in [Sub -> SUBSET Ack]
  BY <1>2, <1>7
<1>9. ASSUME NEW r \in Sub, NEW c \in Copy, NEW m \in 1..MaxLeases
      PROVE  <<c, m>> \in ackids'[r] <=>
               InSub(c, r)' /\ pubsubCopy'[c].pending /\ m = pubsubCopy'[c].pulls
  <2>1. <<c, m>> \in ackids[r] <=> InSub(c, r) /\ pubsubCopy[c].pending /\ m = pubsubCopy[c].pulls
    BY DEF PubSubInv, AcksExact
  <2>2. CASE c \in pulled
    <3>1. <<c, m>> \notin ackids[r]
      BY <1>3, <2>1, <2>2
    <3>2. InSub(c, r)' <=> r = s
      BY <1>4, <2>2 DEF InSub
    <3>3. <<c, m>> \in ackids'[r] <=> r = s /\ m = after(c).pulls
      <4>1. CASE r = s
        <5>1. ackids'[r] = ackids[r] \cup {<<d, after(d).pulls>> : d \in pulled}
          BY <1>2, <1>7, <4>1
        <5> HIDE DEF after
        <5>2. <<c, m>> \in {<<d, after(d).pulls>> : d \in pulled} <=> m = after(c).pulls
          BY <2>2
        <5> QED BY <3>1, <4>1, <5>1, <5>2
      <4>2. CASE r # s
        BY <1>2, <1>7, <3>1, <4>2
      <4> QED BY <4>1, <4>2
    <3> QED BY <1>4, <2>2, <3>2, <3>3
  <2>3. CASE c \notin pulled
    <3>1. <<c, m>> \in ackids'[r] <=> <<c, m>> \in ackids[r]
      <4>1. CASE r = s
        <5>1. ackids'[r] = ackids[r] \cup {<<d, after(d).pulls>> : d \in pulled}
          BY <1>2, <1>7, <4>1
        <5> HIDE DEF after
        <5>2. <<c, m>> \notin {<<d, after(d).pulls>> : d \in pulled}
          BY <2>3
        <5> QED BY <5>1, <5>2
      <4>2. CASE r # s
        BY <1>2, <1>7, <4>2
      <4> QED BY <4>1, <4>2
    <3> QED BY <1>5, <2>1, <2>3, <3>1 DEF InSub
  <2> QED BY <2>2, <2>3
<1>10. AcksExact'
  BY <1>8, <1>9 DEF AcksExact
<1> QED BY <1>6, <1>10

\* Acknowledging uses up the only ack id of each copy it removes.
LEMMA AcknowledgedCopies ==
  ASSUME PubSubInv, NEW s \in Sub, Acknowledge(s)
  PROVE  PubSubCopies' /\ AcksExact' /\ PubSubMoves
<1>0. /\ \A c \in Copy : PubSubFits(pubsubCopy[c], subscriptions)
      /\ pubsubCopy \in [Copy -> PubSubMessage]
  BY DEF PubSubInv, PubSubCopies
<1>1. PICK given \in SUBSET Ack :
        LET removed == {a[1] : a \in Used(s, given)}
            lastPull(c) == CHOOSE n \in 1..MaxLeases : <<c, n>> \in Used(s, given)
        IN /\ ackids' = [ackids EXCEPT ![s] = @ \ Used(s, given)]
           /\ pubsubCopy' = [c \in Copy |->
                IF c \in removed /\ InSub(c, s)
                THEN PubSubGone(pubsubCopy[c], "settled", lastPull(c)) ELSE pubsubCopy[c]]
  BY DEF Acknowledge
<1> DEFINE used == Used(s, given)
           removed == {a[1] : a \in used}
           lastPull(c) == CHOOSE n \in 1..MaxLeases : <<c, n>> \in used
<1>2. /\ ackids' = [ackids EXCEPT ![s] = @ \ used]
      /\ pubsubCopy' = [c \in Copy |->
           IF c \in removed /\ InSub(c, s)
           THEN PubSubGone(pubsubCopy[c], "settled", lastPull(c)) ELSE pubsubCopy[c]]
      /\ subscriptions' = subscriptions
  BY <1>1 DEF Acknowledge
<1>3. used \subseteq ackids[s] /\ ackids[s] \subseteq Ack /\ ackids \in [Sub -> SUBSET Ack]
  BY DEF Used, PubSubInv, AcksExact
<1> HIDE DEF used
<1>4. \A c \in Copy : c \in removed <=> \E n \in 1..MaxLeases : <<c, n>> \in used
  <2>1. \A a \in used : a = <<a[1], a[2]>> /\ a[2] \in 1..MaxLeases
    BY <1>3 DEF Ack
  <2> SUFFICES ASSUME NEW c \in Copy PROVE c \in removed <=> \E n \in 1..MaxLeases : <<c, n>> \in used
    OBVIOUS
  <2>2. ASSUME c \in removed PROVE \E n \in 1..MaxLeases : <<c, n>> \in used
    <3>1. PICK a \in used : a[1] = c
      BY <2>2
    <3> QED BY <2>1, <3>1
  <2>3. ASSUME NEW n \in 1..MaxLeases, <<c, n>> \in used PROVE c \in removed
    <3>1. <<c, n>>[1] = c
      OBVIOUS
    <3> QED BY <2>3, <3>1
  <2> QED BY <2>2, <2>3
<1>5. ASSUME NEW c \in Copy, c \in removed
      PROVE  /\ PubSubFits(pubsubCopy'[c], subscriptions')
             /\ Backlog!Move(CellOfPubSub(pubsubCopy[c]), CellOfPubSub(pubsubCopy'[c]))
             /\ pubsubCopy'[c].state = "settled" /\ InSub(c, s)
             /\ \A n \in 1..MaxLeases : <<c, n>> \in ackids[s] => <<c, n>> \in used
  <2>1. PICK n \in 1..MaxLeases : <<c, n>> \in used
    BY <1>4, <1>5
  <2>2. \A m \in 1..MaxLeases : <<c, m>> \in ackids[s] <=>
           InSub(c, s) /\ pubsubCopy[c].pending /\ m = pubsubCopy[c].pulls
    BY DEF PubSubInv, AcksExact
  <2>3. /\ InSub(c, s) /\ pubsubCopy[c].pending /\ n = pubsubCopy[c].pulls
        /\ \A m \in 1..MaxLeases : <<c, m>> \in ackids[s] => m = n
    BY <1>3, <2>1, <2>2
  <2>4. lastPull(c) = pubsubCopy[c].pulls
    BY <1>3, <2>1, <2>3
  <2>5. pubsubCopy'[c] = PubSubGone(pubsubCopy[c], "settled", pubsubCopy[c].pulls)
    BY <1>2, <1>5, <2>3, <2>4
  <2>6. pubsubCopy[c].state = "stored" /\ pubsubCopy[c].pulls > 0
    BY <2>3 DEF InSub
  <2>7. /\ PubSubFits(pubsubCopy'[c], subscriptions')
        /\ Backlog!Move(CellOfPubSub(pubsubCopy[c]), CellOfPubSub(pubsubCopy'[c]))
        /\ pubsubCopy'[c].state = "settled"
    BY <1>0, <2>5, <2>6, GonePubSub
  <2> QED BY <2>1, <2>3, <2>7
<1>6. ASSUME NEW c \in Copy, c \notin removed
      PROVE  /\ PubSubFits(pubsubCopy'[c], subscriptions')
             /\ Backlog!Move(CellOfPubSub(pubsubCopy[c]), CellOfPubSub(pubsubCopy'[c]))
             /\ pubsubCopy'[c] = pubsubCopy[c]
             /\ \A n \in 1..MaxLeases : <<c, n>> \notin used
  <2>1. pubsubCopy'[c] = pubsubCopy[c]
    BY <1>2, <1>6
  <2> QED BY <1>0, <1>2, <1>4, <1>6, <2>1 DEF Backlog!Move
<1>7. PubSubCopies' /\ PubSubMoves
  <2>1. pubsubCopy' = [c \in Copy |-> pubsubCopy'[c]]
    BY <1>2
  <2> QED BY <1>5, <1>6, <2>1, PubSubCopiesFit
<1>8. ackids' \in [Sub -> SUBSET Ack]
  BY <1>2, <1>3
<1>9. ASSUME NEW r \in Sub, NEW c \in Copy, NEW m \in 1..MaxLeases
      PROVE  <<c, m>> \in ackids'[r] <=>
               InSub(c, r)' /\ pubsubCopy'[c].pending /\ m = pubsubCopy'[c].pulls
  <2>1. <<c, m>> \in ackids[r] <=> InSub(c, r) /\ pubsubCopy[c].pending /\ m = pubsubCopy[c].pulls
    BY DEF PubSubInv, AcksExact
  <2>2. <<c, m>> \in ackids'[r] <=> <<c, m>> \in ackids[r] /\ (r = s => <<c, m>> \notin used)
    BY <1>2, <1>3
  <2>3. CASE c \in removed
    <3>1. ~InSub(c, r)'
      BY <1>5, <2>3 DEF InSub
    <3>2. InSub(c, r) => r = s
      BY <1>5, <2>3 DEF InSub
    <3> QED BY <1>5, <2>1, <2>2, <2>3, <3>1, <3>2
  <2>4. CASE c \notin removed
    BY <1>6, <2>1, <2>2, <2>4 DEF InSub
  <2> QED BY <2>3, <2>4
<1>10. AcksExact'
  BY <1>8, <1>9 DEF AcksExact
<1> QED BY <1>7, <1>10

\* A subscription takes its copies and its ack ids with it.
LEMMA DiscardedCopies ==
  ASSUME PubSubInv, NEW s \in Sub, DeleteSubscription(s)
  PROVE  PubSubCopies' /\ AcksExact' /\ PubSubMoves
<1>0. /\ \A c \in Copy : PubSubFits(pubsubCopy[c], subscriptions)
      /\ pubsubCopy \in [Copy -> PubSubMessage]
  BY DEF PubSubInv, PubSubCopies
<1>1. /\ subscriptions' = subscriptions \ {s}
      /\ ackids' = [ackids EXCEPT ![s] = {}]
      /\ pubsubCopy' = [c \in Copy |-> IF InSub(c, s) THEN PubSubGone(pubsubCopy[c], "dropped", 0)
                                       ELSE pubsubCopy[c]]
  BY DEF DeleteSubscription
<1>2. ASSUME NEW c \in Copy, InSub(c, s)
      PROVE  /\ PubSubFits(pubsubCopy'[c], subscriptions')
             /\ Backlog!Move(CellOfPubSub(pubsubCopy[c]), CellOfPubSub(pubsubCopy'[c]))
             /\ pubsubCopy'[c].state = "dropped"
  <2>1. pubsubCopy'[c] = PubSubGone(pubsubCopy[c], "dropped", 0) /\ pubsubCopy[c].state = "stored"
    BY <1>1, <1>2 DEF InSub
  <2> QED BY <1>0, <2>1, GonePubSub
<1>3. ASSUME NEW c \in Copy, ~InSub(c, s)
      PROVE  /\ PubSubFits(pubsubCopy'[c], subscriptions')
             /\ Backlog!Move(CellOfPubSub(pubsubCopy[c]), CellOfPubSub(pubsubCopy'[c]))
             /\ pubsubCopy'[c] = pubsubCopy[c]
  <2>1. pubsubCopy'[c] = pubsubCopy[c]
    BY <1>1, <1>3
  <2> QED BY <1>0, <1>1, <1>3, <2>1 DEF InSub, PubSubFits, Backlog!Move
<1>4. PubSubCopies' /\ PubSubMoves
  BY <1>1, <1>2, <1>3, PubSubCopiesFit
<1>5. \A r \in Sub : \A c \in Copy : InSub(c, r)' <=> InSub(c, r) /\ r # s
  BY <1>2, <1>3 DEF InSub
<1>6. AcksExact'
  <2>1. ackids' \in [Sub -> SUBSET Ack]
    BY <1>1 DEF PubSubInv, AcksExact
  <2>2. ASSUME NEW r \in Sub, NEW c \in Copy, NEW n \in 1..MaxLeases
        PROVE  <<c, n>> \in ackids'[r] <=>
                 InSub(c, r)' /\ pubsubCopy'[c].pending /\ n = pubsubCopy'[c].pulls
    <3>1. CASE r = s
      BY <1>1, <1>5, <3>1 DEF PubSubInv, AcksExact
    <3>2. CASE r # s
      <4>1. ackids'[r] = ackids[r]
        BY <1>1, <3>2 DEF PubSubInv, AcksExact
      <4>2. InSub(c, r) => pubsubCopy'[c] = pubsubCopy[c]
        BY <1>3, <3>2 DEF InSub
      <4> QED BY <1>5, <3>2, <4>1, <4>2 DEF PubSubInv, AcksExact
    <3> QED BY <3>1, <3>2
  <2> QED BY <2>1, <2>2 DEF AcksExact
<1> QED BY <1>4, <1>6

\* The copies and their ack ids.
LEMMA AcksAgree ==
  ASSUME PubSubInv, NEW s \in Sub, NEW t \in Topic, PubSubRequest(s, t)
  PROVE  PubSubCopies' /\ AcksExact' /\ PubSubMoves
<1>0. /\ \A c \in Copy : PubSubFits(pubsubCopy[c], subscriptions)
      /\ pubsubCopy \in [Copy -> PubSubMessage]
  BY DEF PubSubInv, PubSubCopies
<1>1. CASE CreateTopic(t) \/ DeleteTopic(t)
  <2>1. UNCHANGED <<subscriptions, ackids, pubsubCopy>>
    BY <1>1 DEF CreateTopic, DeleteTopic
  <2>2. PubSubMoves
    BY <2>1 DEF PubSubMoves, Backlog!Move
  <2> QED BY <2>1, <2>2 DEF PubSubInv, PubSubCopies, AcksExact, InSub
<1>2. CASE CreateSubscription(s, t)
  <2>1. /\ s \notin subscriptions /\ subscriptions' = subscriptions \cup {s}
        /\ ackids' = [ackids EXCEPT ![s] = {}] /\ pubsubCopy' = pubsubCopy
    BY <1>2 DEF CreateSubscription
  <2>2. PubSubCopies' /\ PubSubMoves
    BY <1>0, <2>1 DEF PubSubCopies, PubSubMoves, PubSubFits, Backlog!Move
  <2>3. \A c \in Copy : ~InSub(c, s)
    BY <1>0, <2>1 DEF InSub, PubSubFits
  <2>4. AcksExact'
    BY <2>1, <2>3 DEF PubSubInv, AcksExact, InSub
  <2> QED BY <2>2, <2>4
<1>3. CASE DeleteSubscription(s)
  BY <1>3, DiscardedCopies
<1>4. CASE Publish(t) \/ Pull(s) \/ Acknowledge(s)
  BY <1>4, PublishedCopies, PulledCopies, AcknowledgedCopies
<1> QED BY <1>1, <1>2, <1>3, <1>4 DEF PubSubRequest

\* Pub/Sub: the invariant holds at first and is kept, and it implies types and agreement.
LEMMA PubSubInvariant ==
  /\ PubSubInit => PubSubInv
  /\ PubSubInv /\ PubSubNext => PubSubInv' /\ PubSubMoves
  /\ PubSubInv => PubSubTypeOK /\ PubSubConsistent
<1>1. PubSubInit => PubSubInv
  <2> SUFFICES ASSUME PubSubInit PROVE PubSubInv
    OBVIOUS
  <2>1. NotPublished \in PubSubMessage
    BY Zeros DEF NotPublished, PubSubMessage
  <2>2. PubSubCopies
    BY <2>1 DEF PubSubInit, PubSubCopies, PubSubFits, NotPublished
  <2>3. PubSubNames /\ TopicsAgree
    BY DEF PubSubInit, PubSubNames, TopicsAgree
  <2>4. AcksExact
    BY DEF PubSubInit, AcksExact, InSub, NotPublished
  <2> QED BY <2>2, <2>3, <2>4 DEF PubSubInv
<1>2. PubSubInv /\ PubSubNext => PubSubInv' /\ PubSubMoves
  BY ListsAgree, AcksAgree DEF PubSubNext, PubSubInv
<1>3. PubSubInv => PubSubTypeOK
  BY DEF PubSubInv, PubSubNames, PubSubCopies, PubSubFits, AcksExact, PubSubTypeOK, PubSubMessage, InSub
<1>4. PubSubInv => PendingIsAckable
  <2> SUFFICES ASSUME PubSubInv, NEW s \in Sub
               PROVE  /\ \A a \in ackids[s] : InSub(a[1], s) /\ pubsubCopy[a[1]].pending
                      /\ \A c \in Copy : InSub(c, s) /\ pubsubCopy[c].pending =>
                           Cardinality({a \in ackids[s] : a[1] = c}) = 1
    BY DEF PendingIsAckable
  <2>1. ackids[s] \subseteq Ack
    BY DEF PubSubInv, AcksExact
  <2>2. \A c \in Copy, n \in 1..MaxLeases : <<c, n>> \in ackids[s] <=>
           InSub(c, s) /\ pubsubCopy[c].pending /\ n = pubsubCopy[c].pulls
    BY DEF PubSubInv, AcksExact
  <2>3. \A a \in ackids[s] : InSub(a[1], s) /\ pubsubCopy[a[1]].pending
    BY <2>1, <2>2 DEF Ack
  <2>4. ASSUME NEW c \in Copy, InSub(c, s), pubsubCopy[c].pending
        PROVE  Cardinality({a \in ackids[s] : a[1] = c}) = 1
    <3>1. pubsubCopy[c].pulls \in 1..MaxLeases
      <4>1. pubsubCopy[c].pulls \in 0..MaxLeases /\ pubsubCopy[c].pulls > 0
        BY <2>4 DEF PubSubInv, PubSubCopies, PubSubFits, PubSubMessage, InSub
      <4> QED BY <4>1
    <3>2. {a \in ackids[s] : a[1] = c} = {<<c, pubsubCopy[c].pulls>>}
      BY <2>1, <2>2, <2>4, <3>1 DEF Ack
    <3> QED BY <3>2, FS_Singleton
  <2> QED BY <2>3, <2>4
<1> QED BY <1>1, <1>2, <1>3, <1>4 DEF PubSubConsistent, PubSubInv

-----------------------------------------------------------------------------
(* The three together.                                                     *)

BacklogInv == QueueInv /\ BusInv /\ PubSubInv

\* The three invariants together.
LEMMA BacklogInvariant == Spec => []BacklogInv
<1>1. Init => BacklogInv
  BY QueueInvariant, BusInvariant, PubSubInvariant DEF Init, BacklogInv
<1>2. BacklogInv /\ [Next]_vars => BacklogInv'
  <2> SUFFICES ASSUME BacklogInv, [Next]_vars PROVE BacklogInv'
    OBVIOUS
  <2>1. UNCHANGED queueVars => QueueInv'
    BY DEF BacklogInv, QueueInv, QueueFits, queueVars
  <2>2. UNCHANGED busVars => BusInv'
    BY DEF BacklogInv, BusInv, BusFits, busVars
  <2>3. UNCHANGED pubsubVars => PubSubInv'
    BY DEF BacklogInv, PubSubInv, PubSubNames, TopicsAgree, PubSubCopies, PubSubFits, AcksExact,
           InSub, pubsubVars
  <2>4. CASE UseQueue
    <3>1. QueueInv' /\ UNCHANGED busVars /\ UNCHANGED pubsubVars
      BY <2>4, QueueInvariant DEF UseQueue, BacklogInv
    <3> QED BY <2>2, <2>3, <3>1 DEF BacklogInv
  <2>5. CASE UseBus
    <3>1. BusInv' /\ UNCHANGED queueVars /\ UNCHANGED pubsubVars
      BY <2>5, BusInvariant DEF UseBus, BacklogInv, BusMoved
    <3> QED BY <2>1, <2>3, <3>1 DEF BacklogInv
  <2>6. CASE UsePubSub
    <3>1. PubSubInv' /\ UNCHANGED queueVars /\ UNCHANGED busVars
      BY <2>6, PubSubInvariant DEF UsePubSub, BacklogInv
    <3> QED BY <2>1, <2>2, <3>1 DEF BacklogInv
  <2>7. CASE UNCHANGED vars
    <3>1. UNCHANGED queueVars /\ UNCHANGED busVars /\ UNCHANGED pubsubVars
      BY <2>7 DEF vars
    <3> QED BY <2>1, <2>2, <2>3, <3>1 DEF BacklogInv
  <2> QED BY <2>4, <2>5, <2>6, <2>7 DEF Next
<1> QED BY <1>1, <1>2, PTL DEF Spec

\* The stores of the three services hold what they may, and every stored message is
\* in the list of a queue or subscription that exists (core/azure_queue_core.py,
\* core/azure_servicebus_core.py, core/gcp_pubsub_core.py).
THEOREM TypeCorrect == Spec => []TypeOK
<1>1. BacklogInv => TypeOK
  BY QueueInvariant, BusInvariant, PubSubInvariant DEF BacklogInv, TypeOK
<1> QED BY <1>1, BacklogInvariant, PTL

\* However topics and subscriptions come and go under the same names and consumers
\* pull and acknowledge, Pub/Sub's lists, names and ack ids agree.
THEOREM PubSubAgrees == Spec => []PubSubConsistent
<1>1. BacklogInv => PubSubConsistent
  BY PubSubInvariant DEF BacklogInv
<1> QED BY <1>1, BacklogInvariant, PTL

\* The three services start with every cell of the abstract backlogs empty.
LEMMA BacklogStart == Init => Backlog!Init
<1> SUFFICES ASSUME Init PROVE cellOf = [c \in Copy |-> Backlog!Absent]
  BY DEF Backlog!Init
<1>1. QueueCell = [c \in Copy |-> Backlog!Absent]
  BY DEF Init, QueueInit, QueueCell, Stored, NotYet, Backlog!Absent, Backlog!Cell
<1>2. BusCell = [c \in Copy |-> Backlog!Absent]
  BY DEF Init, BusInit, BusCell, NotSent, Backlog!Absent, Backlog!Cell
<1>3. PubSubCell = [c \in Copy |-> Backlog!Absent]
  BY DEF Init, PubSubInit, PubSubCell, NotPublished, Backlog!Absent, Backlog!Cell
<1> QED BY <1>1, <1>2, <1>3 DEF Init, cellOf

\* Every step of a service moves the cells as LeasedBacklog allows.
LEMMA BacklogStep == BacklogInv /\ [Next]_vars => [Backlog!Next]_cellOf
<1> SUFFICES ASSUME BacklogInv, [Next]_vars PROVE [Backlog!Next]_cellOf
  OBVIOUS
<1>1. CASE UseQueue
  <2>1. cellOf = QueueCell /\ cellOf' = QueueCell'
    BY <1>1 DEF UseQueue, cellOf
  <2>2. \A c \in Copy : QueueCell[c] = CellOfMessage(message[c]) /\ QueueCell'[c] = CellOfMessage(message'[c])
    BY DEF QueueCell, CellOfMessage, Stored
  <2>3. DOMAIN QueueCell' = Copy
    BY DEF QueueCell
  <2>4. QueueMoved
    BY <1>1, QueueInvariant DEF UseQueue, BacklogInv
  <2> QED BY <2>1, <2>2, <2>3, <2>4 DEF QueueMoved, Backlog!Next
<1>2. CASE UseBus
  <2>1. cellOf = BusCell /\ cellOf' = BusCell'
    BY <1>2 DEF UseBus, cellOf
  <2>2. \A c \in Copy : BusCell[c] = CellOfCopy(busCopy[c]) /\ BusCell'[c] = CellOfCopy(busCopy'[c])
    BY DEF BusCell, CellOfCopy
  <2>3. DOMAIN BusCell' = Copy
    BY DEF BusCell
  <2>4. BusMoved
    BY <1>2, BusInvariant DEF UseBus, BacklogInv
  <2> QED BY <2>1, <2>2, <2>3, <2>4 DEF BusMoved, Backlog!Next
<1>3. CASE UsePubSub
  <2>1. cellOf = PubSubCell /\ cellOf' = PubSubCell'
    BY <1>3 DEF UsePubSub, cellOf
  <2>2. \A c \in Copy : /\ PubSubCell[c] = CellOfPubSub(pubsubCopy[c])
                        /\ PubSubCell'[c] = CellOfPubSub(pubsubCopy'[c])
    BY DEF PubSubCell, CellOfPubSub
  <2>3. DOMAIN PubSubCell' = Copy
    BY DEF PubSubCell
  <2>4. PubSubMoves
    BY <1>3, PubSubInvariant DEF UsePubSub, BacklogInv
  <2> QED BY <2>1, <2>2, <2>3, <2>4 DEF PubSubMoves, Backlog!Next
<1>4. CASE UNCHANGED vars
  BY <1>4 DEF vars, queueVars, busVars, pubsubVars, cellOf, QueueCell, Stored, Visible, BusCell, PubSubCell
<1> QED BY <1>1, <1>2, <1>3, <1>4 DEF Next

\* Storage queues, Service Bus and Pub/Sub are leased backlogs: a copy of a message is
\* handed out under one lease at a time, is settled only under its last lease and
\* stays away once it has left.
THEOREM EachIsABacklog == Spec => ImplementsBacklog
  BY BacklogStart, BacklogStep, BacklogInvariant, PTL DEF Spec, ImplementsBacklog, Backlog!Spec
=============================================================================
