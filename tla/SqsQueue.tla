------------------------------ MODULE SqsQueue ------------------------------
(***************************************************************************)
(* The SQS data plane (core/sqs_core.py over core/messaging_store.py):     *)
(* standard and FIFO queues, leases with a visibility timeout, per-group   *)
(* order, deduplication, and redrive to a dead letter queue.               *)
(*                                                                         *)
(* One call of dispatch() runs to completion, so an action is a whole      *)
(* operation; calls that raise or only read change nothing and are left    *)
(* out.  Time is the number of ticks until a message becomes visible: 0    *)
(* stands for visible_at <= now.  A receipt handle is fresh with every     *)
(* lease: the message it was issued for and which of its leases that was.  *)
(***************************************************************************)
EXTENDS Naturals, Sequences, FiniteSets

CONSTANTS Queue,        \* queue names
          Fifo,         \* the names that end in .fifo
          Group,        \* message group ids
          Dedup,        \* deduplication ids, given or computed from the body
          None,         \* no group id, no deduplication id, no redrive policy
          MayOmit,      \* clients may leave out ReceiptHandle
          MaxSent,      \* bound: messages enqueued
          MaxLeases,    \* bound: leases of one message
          MaxReceive,   \* bound: maxReceiveCount of a policy
          MaxBatch,     \* bound: MaxNumberOfMessages
          MaxWait       \* bound: visibility timeouts and delays, in ticks

ASSUME FifoAssumption == Fifo \subseteq Queue
ASSUME NoneAssumption == None \notin Group \cup Dedup
ASSUME OmitAssumption == MayOmit \in BOOLEAN
ASSUME SqsBounds == /\ MaxSent \in Nat /\ MaxLeases \in Nat /\ MaxReceive \in Nat
                    /\ MaxBatch \in Nat /\ MaxWait \in Nat

VARIABLES
  exists,    \* the queues of the store
  messages,  \* per queue: its messages, oldest first
  seen,      \* per queue: dedup_seen
  policy,    \* per queue: its RedrivePolicy
  sent,      \* history: messages enqueued so far
  gone       \* history: messages deleted, purged, or dropped with their queue

vars == <<exists, messages, seen, policy, sent, gone>>

Id == 1..MaxSent
Policy == [max : 1..MaxReceive, dlq : Queue]
Message == [id : Id, group : Group \cup {None}, dedup : Dedup \cup {None},
            wait : 0..MaxWait,         \* visible_at
            receive_count : Nat,
            leases : 0..MaxLeases,     \* history: leases so far
            held : BOOLEAN,            \* receipt_handle # ""
            moved : BOOLEAN]           \* history: it came here by redrive

TypeOK ==
  /\ exists \subseteq Queue
  /\ messages \in [Queue -> Seq(Message)]
  /\ seen \in [Queue -> SUBSET Dedup]
  /\ DOMAIN policy = Queue /\ \A q \in Queue : policy[q] = None \/ policy[q] \in Policy
  /\ sent \in 0..MaxSent /\ gone \subseteq Id

Init ==
  /\ exists = {}
  /\ messages = [q \in Queue |-> <<>>]
  /\ seen = [q \in Queue |-> {}]
  /\ policy = [q \in Queue |-> None]
  /\ sent = 0 /\ gone = {}

Ids(s) == {s[i].id : i \in DOMAIN s}
Without(s, i) == SubSeq(s, 1, i - 1) \o SubSeq(s, i + 1, Len(s))

-----------------------------------------------------------------------------
(* Queues.                                                                 *)

CreateQueue(q) ==
  /\ q \notin exists
  /\ exists' = exists \cup {q}
  /\ \E p \in {None} \cup Policy : policy' = [policy EXCEPT ![q] = p]
  /\ UNCHANGED <<messages, seen, sent, gone>>

DeleteQueue(q) ==
  /\ q \in exists
  /\ exists' = exists \ {q}
  /\ messages' = [messages EXCEPT ![q] = <<>>]
  /\ seen' = [seen EXCEPT ![q] = {}]
  /\ policy' = [policy EXCEPT ![q] = None]
  /\ gone' = gone \cup Ids(messages[q])
  /\ UNCHANGED sent

SetQueueAttributes(q) ==
  /\ q \in exists
  /\ \E p \in {None} \cup Policy : policy' = [policy EXCEPT ![q] = p]
  /\ UNCHANGED <<exists, messages, seen, sent, gone>>

\* What was deduplicated before stays so: dedup_seen is kept.
PurgeQueue(q) ==
  /\ q \in exists
  /\ messages' = [messages EXCEPT ![q] = <<>>]
  /\ gone' = gone \cup Ids(messages[q])
  /\ UNCHANGED <<exists, seen, policy, sent>>

-----------------------------------------------------------------------------
(* Sending.                                                                *)

enqueue(q, group, dedup, delay) ==
  /\ sent < MaxSent /\ sent' = sent + 1
  /\ messages' = [messages EXCEPT ![q] = Append(@,
       [id |-> sent + 1, group |-> group, dedup |-> dedup, wait |-> delay,
        receive_count |-> 0, leases |-> 0, held |-> FALSE, moved |-> FALSE])]

SendStandard(q) ==
  /\ q \in exists \ Fifo
  /\ \E delay \in 0..MaxWait : enqueue(q, None, None, delay)
  /\ UNCHANGED <<exists, seen, policy, gone>>

\* Mutant of SendFifo: what was sent before is not remembered.
SendForgetful(q) ==
  /\ q \in exists \cap Fifo
  /\ \E g \in Group, d \in Dedup \ seen[q] : enqueue(q, g, d, 0)
  /\ UNCHANGED <<exists, seen, policy, gone>>

\* A retried send is accepted and not enqueued again; a delay is ignored.
SendFifo(q) ==
  /\ q \in exists \cap Fifo
  /\ \E g \in Group, d \in Dedup \ seen[q] :
       /\ enqueue(q, g, d, 0)
       /\ seen' = [seen EXCEPT ![q] = @ \cup {d}]
  /\ UNCHANGED <<exists, policy, gone>>

-----------------------------------------------------------------------------
(* Receiving.                                                              *)

Available(m) == m.wait = 0

\* _redrive_expired: what has been received often enough and is available again
\* moves to the end of the dead letter queue, if there is one.
CanRedrive(q) == policy[q] # None /\ policy[q].dlq \in exists

\* Mutant of Dead: received more often than maxReceiveCount, as the docstring of
\* _redrive_expired has it (see RedrivenPastMax).
DeadLate(q, m) == CanRedrive(q) /\ Available(m) /\ m.receive_count > policy[q].max

Dead(q, m) == CanRedrive(q) /\ Available(m) /\ m.receive_count >= policy[q].max

Redriven(m) ==
  [m EXCEPT !.receive_count = 0, !.held = FALSE, !.wait = 0, !.moved = TRUE]

\* The positions T in order, and what s holds at them.
Positions(T) ==
  [n \in 1..Cardinality(T) |-> CHOOSE i \in T : Cardinality({j \in T : j <= i}) = n]
At(s, T) == LET p == Positions(T) IN [n \in DOMAIN p |-> s[p[n]]]

DeadAt(q) == {i \in DOMAIN messages[q] : Dead(q, messages[q][i])}
AliveAt(q) == DOMAIN messages[q] \ DeadAt(q)
Moved(q) == LET dead == At(messages[q], DeadAt(q))
            IN  [n \in DOMAIN dead |-> Redriven(dead[n])]

\* Mutant of AfterRedrive: the dead messages are copied and not taken out.
RedriveCopies(q) ==
  IF ~CanRedrive(q) THEN messages
  ELSE [messages EXCEPT ![policy[q].dlq] = @ \o Moved(q)]

\* messages after the redrive that precedes every receive of q: the survivors stay
\* in order, and the others go to the end of the dead letter queue, in order.
AfterRedrive(q) ==
  IF ~CanRedrive(q) THEN messages
  ELSE LET left == [messages EXCEPT ![q] = At(messages[q], AliveAt(q))]
       IN  [left EXCEPT ![policy[q].dlq] = @ \o Moved(q)]

\* Mutant of Deliverable: a group is locked by what is in flight, not by what the
\* same scan has delivered.
DeliverableInBatch(q, s) ==
  {i \in DOMAIN s : /\ Available(s[i])
                    /\ q \in Fifo /\ s[i].group # None =>
                         \A j \in DOMAIN s : s[j].group = s[i].group => Available(s[j])}

\* The messages the scan of s may deliver: in a FIFO queue a group is locked by
\* a message of it that is not visible, and by one delivered earlier in the scan.
Deliverable(q, s) ==
  {i \in DOMAIN s : /\ Available(s[i])
                    /\ q \in Fifo /\ s[i].group # None =>
                         \A j \in DOMAIN s : s[j].group = s[i].group =>
                           Available(s[j]) /\ j >= i}

\* ... of which it takes the first n.
Delivered(q, s, n) ==
  {i \in Deliverable(q, s) : Cardinality({j \in Deliverable(q, s) : j < i}) < n}

Leased(m, vis) ==
  [m EXCEPT !.wait = vis, !.receive_count = @ + 1, !.leases = @ + 1, !.held = TRUE]

ReceiveMessage(q) ==
  /\ q \in exists
  /\ \E n \in 1..MaxBatch, vis \in 0..MaxWait :
       LET s == AfterRedrive(q)[q]
           out == Delivered(q, s, n)
       IN  /\ \A i \in out : s[i].leases < MaxLeases
           /\ messages' = [AfterRedrive(q) EXCEPT ![q] =
                [i \in DOMAIN s |-> IF i \in out THEN Leased(s[i], vis) ELSE s[i]]]
  /\ UNCHANGED <<exists, seen, policy, sent, gone>>

-----------------------------------------------------------------------------
(* Acting on a lease.                                                      *)

\* The first message whose receipt_handle equals the one given: the handle of a
\* lease is the current one of its message or nobody's, and a handle left out
\* equals that of every message without a lease.
Matches(q, i) ==
  LET s == messages[q] IN
  \/ s[i].held
  \/ MayOmit /\ ~s[i].held /\ \A j \in 1..(i - 1) : s[j].held

DeleteMessage(q) ==
  /\ q \in exists
  /\ \E i \in DOMAIN messages[q] :
       /\ Matches(q, i)
       /\ messages' = [messages EXCEPT ![q] = Without(@, i)]
       /\ gone' = gone \cup {messages[q][i].id}
  /\ UNCHANGED <<exists, seen, policy, sent>>

\* Mutant of ChangeMessageVisibility: the timeout is added to what is left, not set.
AddVisibility(q) ==
  /\ q \in exists
  /\ \E i \in DOMAIN messages[q], vis \in 0..MaxWait :
       /\ Matches(q, i)
       /\ messages' = [messages EXCEPT ![q][i].wait = @ + vis]
  /\ UNCHANGED <<exists, seen, policy, sent, gone>>

ChangeMessageVisibility(q) ==
  /\ q \in exists
  /\ \E i \in DOMAIN messages[q], vis \in 0..MaxWait :
       /\ Matches(q, i)
       /\ messages' = [messages EXCEPT ![q][i].wait = vis]
  /\ UNCHANGED <<exists, seen, policy, sent, gone>>

\* Time passes for every message at once.
Advance ==
  /\ \E q \in Queue : \E i \in DOMAIN messages[q] : ~Available(messages[q][i])
  /\ messages' = [q \in Queue |->
       [i \in DOMAIN messages[q] |->
         [messages[q][i] EXCEPT !.wait = IF @ = 0 THEN 0 ELSE @ - 1]]]
  /\ UNCHANGED <<exists, seen, policy, sent, gone>>

-----------------------------------------------------------------------------
Admin(q) == CreateQueue(q) \/ DeleteQueue(q) \/ SetQueueAttributes(q) \/ PurgeQueue(q)
Send(q) == SendStandard(q) \/ SendFifo(q)
Consume(q) == ReceiveMessage(q) \/ DeleteMessage(q) \/ ChangeMessageVisibility(q)

Next == Advance \/ \E q \in Queue : Admin(q) \/ Send(q) \/ Consume(q)

Spec == Init /\ [][Next]_vars

-----------------------------------------------------------------------------
(* Properties.                                                             *)

\* Every accepted message is in exactly one place of one queue until a consumer
\* deletes it or its queue is emptied: receiving, expiring and redriving, to
\* whatever queue the policy names, the queue itself included, neither lose nor
\* duplicate a message.
Conserved ==
  /\ UNION {Ids(messages[q]) : q \in Queue} = (1..sent) \ gone
  /\ \A q, r \in Queue : \A i \in DOMAIN messages[q], j \in DOMAIN messages[r] :
       messages[q][i].id = messages[r][j].id => q = r /\ i = j

\* In a FIFO queue only the oldest message of a group can be leased or have been
\* received: nothing overtakes it, whatever expires or is dead-lettered.
HeadOnly ==
  \A q \in Fifo : \A j \in DOMAIN messages[q] : \A i \in 1..(j - 1) :
    LET m == messages[q][j] IN
    m.group # None /\ messages[q][i].group = m.group =>
      ~m.held /\ m.receive_count = 0 /\ Available(m)

\* A producer that retries does not put its message into the queue twice, even
\* if the first copy has since been moved away and back.
RetriesCollapse ==
  \A q \in Fifo : \A i, j \in DOMAIN messages[q] :
    LET m == messages[q][i]  n == messages[q][j] IN
    i # j /\ m.dedup = n.dedup /\ m.dedup # None => m.moved \/ n.moved

\* A FIFO queue keeps both of its promises: no message of a group is overtaken
\* (HeadOnly), and a send that is repeated is one message (RetriesCollapse).
FifoKept == HeadOnly /\ RetriesCollapse

\* With a dead letter queue in place no message is delivered more often than
\* maxReceiveCount says since it entered the queue, although the redrive looks
\* at it only when somebody receives, after the policy may have changed.
NotOverdelivered ==
  [][\A q \in exists : CanRedrive(q) =>
       \A j \in DOMAIN messages'[q] : \A i \in DOMAIN messages[q] :
         LET m == messages[q][i]  n == messages'[q][j] IN
         n.id = m.id /\ n.receive_count > m.receive_count => n.receive_count <= policy[q].max]_vars

\* A message leaves its queue for the dead letter queue only after it has been
\* received more than maxReceiveCount times (the docstring of _redrive_expired,
\* sqs_core.py:236; the code moves it when it has been received that often).
RedrivenPastMax ==
  [][\A q, r \in Queue : \A i \in DOMAIN messages[q], j \in DOMAIN messages'[r] :
       q # r /\ messages[q][i].id = messages'[r][j].id =>
         messages[q][i].receive_count > policy[q].max]_vars

\* DeleteMessage takes a message only from a consumer that has been given it
\* (sqs_core.py: "removes it by the CURRENT ReceiptHandle").
DeletesWhatWasReceived ==
  [][\A q \in exists \cap exists' : \A i \in DOMAIN messages[q] :
       /\ messages'[q] = Without(messages[q], i)
       /\ gone' = gone \cup {messages[q][i].id} /\ messages'[q] # <<>>
       => messages[q][i].held]_vars
=============================================================================
