---------------------------- MODULE StorageQueue ----------------------------
(***************************************************************************)
(* The Azure Storage Queue data plane (core/azure_queue_core.py): messages *)
(* are hidden for a visibility timeout, deleted by pop receipt, and reaped *)
(* when their time to live is over, also while a consumer holds them.      *)
(*                                                                         *)
(* dispatch() runs to completion on one thread and saves what it changed   *)
(* before it answers (PersistentAzureQueueStore, core/persistent_store.py),*)
(* so an action is one request with the reaping that precedes it, and a    *)
(* restart of the appliance changes nothing. (In the browser edition       *)
(* core/nano_persist.py skips what is not JSON-safe, hence a store whose   *)
(* queues hold a _Message, and a reload forgets them: not modelled.)       *)
(* Time is counted in ticks left: wait = 0 stands for                      *)
(* time_next_visible <= now, life = 0 for expiration_time <= now.  The pop *)
(* receipts of a message are numbered from the one put answers with, and   *)
(* clients may present any of them at any time.                            *)
(***************************************************************************)
EXTENDS Copies

CONSTANTS Queue,          \* queue names
          NoQueue,        \* where a message is that no queue holds
          MaxVisibility,  \* bound: visibilitytimeout, in ticks
          MaxLife         \* bound: messagettl, in ticks

ASSUME QueueAssumption ==
  NoQueue \notin Queue /\ MaxVisibility \in Nat /\ MaxLife \in Nat

VARIABLES queues,   \* the names in store.queues
          message   \* per message: the list it is in, and its fields

queueVars == <<queues, message>>

\* by is history: the receipt it was deleted with.
Message == [state : {"absent", "stored", "settled", "dropped"},
            queue : Queue \cup {NoQueue},
            wait : 0..MaxVisibility, life : 0..MaxLife,
            receipts : 0..MaxLeases, by : 0..MaxLeases]

NotYet == [state |-> "absent", queue |-> NoQueue, wait |-> 0, life |-> 0,
           receipts |-> 0, by |-> 0]

Stored(c) == message[c].state = "stored"
InQueue(c, q) == Stored(c) /\ message[c].queue = q

QueueTypeOK ==
  /\ queues \subseteq Queue
  /\ message \in [Copy -> Message]
  /\ \A c \in Copy : Stored(c) <=> message[c].queue \in queues

QueueInit == queues = {} /\ message = [c \in Copy |-> NotYet]

-----------------------------------------------------------------------------
(* The lists.                                                              *)

MessageGone(m, how, receipt) ==
  [m EXCEPT !.state = how, !.queue = NoQueue, !.wait = 0, !.life = 0, !.by = receipt]

Without(q) ==
  [c \in Copy |-> IF InQueue(c, q) THEN MessageGone(message[c], "dropped", 0) ELSE message[c]]

Expired(m) == m.life = 0

\* _reap_expired: the first thing a request for a queue's messages does.
Reaped(q) ==
  [c \in Copy |-> IF InQueue(c, q) /\ Expired(message[c])
                  THEN MessageGone(message[c], "dropped", 0) ELSE message[c]]

Unused == {c \in Copy : message[c].state = "absent"}

NewMessage(q, wait, life) ==
  [NotYet EXCEPT !.state = "stored", !.queue = q, !.wait = wait, !.life = life,
                 !.receipts = 1]

-----------------------------------------------------------------------------
(* Requests.                                                               *)

CreateQueue(q) ==
  /\ q \notin queues
  /\ queues' = queues \cup {q}
  /\ UNCHANGED message

\* Mutant of DeleteQueue: the messages stay behind for the next queue of the name.
DeleteQueueOnly(q) ==
  /\ q \in queues
  /\ queues' = queues \ {q}
  /\ UNCHANGED message

DeleteQueue(q) ==
  /\ q \in queues
  /\ queues' = queues \ {q}
  /\ message' = Without(q)

\* Metadata, peeking, and every delete that is refused only reap.
LookAtQueue(q) ==
  /\ q \in queues
  /\ message' = Reaped(q)
  /\ UNCHANGED queues

PutMessage(q) ==
  /\ q \in queues /\ Unused # {}
  /\ \E wait \in 0..MaxVisibility, life \in 0..MaxLife :
       message' = [c \in Copy |-> IF c \in First(1, Unused) THEN NewMessage(q, wait, life)
                                  ELSE Reaped(q)[c]]
  /\ UNCHANGED queues

\* Mutant of Visible: what was handed out is not offered again.
VisibleOnce(m) == m.wait = 0 /\ m.receipts = 1

Visible(m) == m.wait = 0

\* A new pop receipt each time: the earlier ones no longer match.
Dequeue(q) ==
  /\ q \in queues
  /\ \E n \in 1..MaxBatch, hide \in 0..MaxVisibility :
       LET list == Reaped(q)
           taken == First(n, {c \in Copy : list[c].queue = q /\ Visible(list[c])})
       IN /\ \A c \in taken : message[c].receipts < MaxLeases
          /\ message' = [c \in Copy |->
               IF c \in taken THEN [list[c] EXCEPT !.wait = hide, !.receipts = @ + 1]
               ELSE list[c]]
  /\ UNCHANGED queues

Accepts(m, receipt) == receipt = m.receipts

\* The receipt may be left out, and whether it still hides the message is not asked.
DeleteMessage(q) ==
  /\ q \in queues
  /\ \E c \in Copy :
       /\ Reaped(q)[c].queue = q
       /\ \/ message' = [Reaped(q) EXCEPT ![c] = MessageGone(@, "dropped", 0)]
          \/ \E receipt \in 1..message[c].receipts :
               /\ Accepts(message[c], receipt)
               /\ message' = [Reaped(q) EXCEPT ![c] = MessageGone(@, "settled", receipt)]
  /\ UNCHANGED queues

ClearMessages(q) ==
  /\ q \in queues
  /\ message' = Without(q)
  /\ UNCHANGED queues

\* core/nano_triggers.py: Event Grid makes the queue it delivers to, if need be.
EventGridPublish(q) ==
  /\ queues' = queues \cup {q}
  /\ \E n \in 1..MaxBatch :
       /\ Cardinality(Unused) >= n
       /\ message' = [c \in Copy |-> IF c \in First(n, Unused) THEN NewMessage(q, 0, MaxLife)
                                     ELSE Reaped(q)[c]]

Less(n) == IF n = 0 THEN 0 ELSE n - 1

QueueTick ==
  /\ \E c \in Copy : Stored(c) /\ message[c].wait + message[c].life > 0
  /\ message' = [c \in Copy |-> [message[c] EXCEPT !.wait = Less(@), !.life = Less(@)]]
  /\ UNCHANGED queues

QueueRequest(q) ==
  \/ CreateQueue(q) \/ DeleteQueue(q) \/ LookAtQueue(q) \/ PutMessage(q) \/ Dequeue(q)
  \/ DeleteMessage(q) \/ ClearMessages(q) \/ EventGridPublish(q)

QueueNext == QueueTick \/ \E q \in Queue : QueueRequest(q)

QueueSpec == QueueInit /\ [][QueueNext]_queueVars /\ WF_queueVars(QueueTick)

-----------------------------------------------------------------------------
(* What it implements.                                                     *)

QueueCell ==
  [c \in Copy |->
     [place |-> IF ~Stored(c) THEN message[c].state
                ELSE IF Visible(message[c]) THEN "ready" ELSE "held",
      leases |-> message[c].receipts, by |-> message[c].by]]

\* A consumer that dies keeps nothing: what it holds is offered again, or has
\* left, once time has passed (time_next_visible; no request extends it).
HiddenComesBack ==
  \A c \in Copy : QueueCell[c].place = "held" ~> QueueCell[c].place # "held"

QueueBacklog == INSTANCE LeasedBacklog WITH cell <- QueueCell

=============================================================================
