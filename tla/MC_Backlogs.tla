---------------------------- MODULE MC_Backlogs ----------------------------
(***************************************************************************)
(* The three leased backlogs of the wire router (core/aws_wire_router.py:  *)
(* az_queue, az_sb and gcp_msg).  They are different stores and share      *)
(* nothing, so the clients of one behaviour use one of them.               *)
(***************************************************************************)
EXTENDS StorageQueue, ServiceBus, PubSub

VARIABLE service   \* the service whose clients are at work

vars == <<service, queueVars, busVars, pubsubVars>>

Init ==
  /\ service \in {"queue", "bus", "pubsub"}
  /\ QueueInit /\ BusInit /\ PubSubInit

UseQueue == service = "queue" /\ QueueNext /\ UNCHANGED <<service, busVars, pubsubVars>>
UseBus == service = "bus" /\ BusNext /\ UNCHANGED <<service, queueVars, pubsubVars>>
UsePubSub == service = "pubsub" /\ PubSubNext /\ UNCHANGED <<service, queueVars, busVars>>

Next == UseQueue \/ UseBus \/ UsePubSub

\* Time passes; clients may stop.
Spec == Init /\ [][Next]_vars /\ WF_vars(UseQueue /\ QueueTick)

\* Every name, list, message and ack id is of its kind, and every stored copy is
\* in the list of a queue or subscription that exists.
TypeOK == QueueTypeOK /\ BusTypeOK /\ PubSubTypeOK

cellOf == CASE service = "queue" -> QueueCell
            [] service = "bus" -> BusCell
            [] service = "pubsub" -> PubSubCell

Backlog == INSTANCE LeasedBacklog WITH cell <- cellOf

\* Stale receipts, repeated sequence numbers after a restart, reaping under a
\* consumer's hands and reused names: whatever happens, a copy is handed out
\* under one lease at a time, is settled only under its last one and stays away
\* once it has left (azure_queue_core.py DELETE, _complete, _acknowledge).
ImplementsBacklog == Backlog!Spec

MCCopy == 1..2
=============================================================================
