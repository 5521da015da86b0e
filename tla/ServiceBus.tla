----------------------------- MODULE ServiceBus -----------------------------
(***************************************************************************)
(* Azure Service Bus topics (core/azure_servicebus_core.py): sending       *)
(* copies a message into every subscription of the topic; a receiver takes *)
(* the first copy nobody has locked, at once or under a lock it later      *)
(* completes or abandons.                                                  *)
(*                                                                         *)
(* dispatch() runs to completion on one thread and saves topics and        *)
(* messages before it answers.  The counter of sequence numbers is an      *)
(* attribute of the store object and is not among what is saved: a restart *)
(* begins it again while messages with those numbers are still there.      *)
(* A lock token is a fresh uuid: the copy it was made for and which of its *)
(* locks that is.  Clients may present any token they were ever given.     *)
(***************************************************************************)
EXTENDS Copies

CONSTANTS BusTopic, BusSub,  \* names; that of a subscription is local to its topic
          MaxRestarts        \* bound

ASSUME BusAssumption == IsFiniteSet(BusSub) /\ MaxRestarts \in Nat

VARIABLES busTopics,   \* the topics of the store
          busSubs,     \* per topic: the names of its subscriptions
          busCopy,     \* per copy: the backlog it is in, and its fields
          busSeq,      \* store._sb_seq
          restarts

busVars == <<busTopics, busSubs, busCopy, busSeq, restarts>>

NotSent == [state |-> "absent", at |-> <<>>, seq |-> 0, locks |-> 0,
            locked |-> FALSE, by |-> 0]

InBacklog(c, t, s) == busCopy[c].state = "stored" /\ busCopy[c].at = <<t, s>>

BusTypeOK ==
  /\ busTopics \subseteq BusTopic
  /\ busSubs \in [BusTopic -> SUBSET BusSub]
  /\ \A t \in BusTopic \ busTopics : busSubs[t] = {}
  /\ \A c \in Copy :
       /\ busCopy[c].state \in {"absent", "stored", "settled", "dropped"}
       /\ busCopy[c].state = "stored" =>
            /\ busCopy[c].locked => busCopy[c].locks > 0
            /\ \E t \in busTopics : \E s \in busSubs[t] : busCopy[c].at = <<t, s>>

BusInit ==
  /\ busTopics = {} /\ busSubs = [t \in BusTopic |-> {}]
  /\ busCopy = [c \in Copy |-> NotSent]
  /\ busSeq = 0 /\ restarts = 0

-----------------------------------------------------------------------------
(* Topics and subscriptions: creating one that exists changes nothing.     *)

CopyGone(x, how, lock) == [x EXCEPT !.state = how, !.at = <<>>, !.locked = FALSE, !.by = lock]

DiscardCopies(lost(_)) ==
  busCopy' = [c \in Copy |-> IF lost(c) THEN CopyGone(busCopy[c], "dropped", 0) ELSE busCopy[c]]

BusCreateTopic(t) ==
  /\ t \notin busTopics
  /\ busTopics' = busTopics \cup {t}
  /\ UNCHANGED <<busSubs, busCopy, busSeq, restarts>>

BusDeleteTopic(t) ==
  /\ t \in busTopics
  /\ busTopics' = busTopics \ {t}
  /\ busSubs' = [busSubs EXCEPT ![t] = {}]
  /\ LET lost(c) == \E s \in BusSub : InBacklog(c, t, s) IN DiscardCopies(lost)
  /\ UNCHANGED <<busSeq, restarts>>

BusCreateSubscription(t, s) ==
  /\ t \in busTopics /\ s \notin busSubs[t]
  /\ busSubs' = [busSubs EXCEPT ![t] = @ \cup {s}]
  /\ UNCHANGED <<busTopics, busCopy, busSeq, restarts>>

BusDeleteSubscription(t, s) ==
  /\ t \in busTopics /\ s \in busSubs[t]
  /\ busSubs' = [busSubs EXCEPT ![t] = @ \ {s}]
  /\ LET lost(c) == InBacklog(c, t, s) IN DiscardCopies(lost)
  /\ UNCHANGED <<busTopics, busSeq, restarts>>

-----------------------------------------------------------------------------
(* Messages.                                                               *)

Unsent == {c \in Copy : busCopy[c].state = "absent"}

\* A copy, with a sequence number of its own, for every subscription there is;
\* in which order the subscriptions come is left open.
Send(t) ==
  /\ t \in busTopics
  /\ LET n == Cardinality(busSubs[t])
         new == First(n, Unsent)
         number(c) == Cardinality({d \in new : d <= c})
     IN /\ Cardinality(new) = n
        /\ busSeq' = busSeq + n
        /\ \E to \in [new -> busSubs[t]] :
             /\ \A s \in busSubs[t] : \E c \in new : to[c] = s
             /\ busCopy' = [c \in Copy |->
                  IF c \in new
                  THEN [NotSent EXCEPT !.state = "stored", !.at = <<t, to[c]>>,
                                       !.seq = busSeq + number(c)]
                  ELSE busCopy[c]]
  /\ UNCHANGED <<busTopics, busSubs, restarts>>

\* _head_message, as a set of at most one.
Head(t, s) == First(1, {c \in Copy : InBacklog(c, t, s) /\ ~busCopy[c].locked})

ReceiveAndDelete(t, s) ==
  /\ \E c \in Head(t, s) :
       /\ busCopy[c].locks < MaxLeases
       /\ LET received == [busCopy[c] EXCEPT !.locks = @ + 1]
          IN busCopy' = [busCopy EXCEPT ![c] = CopyGone(received, "settled", received.locks)]
  /\ UNCHANGED <<busTopics, busSubs, busSeq, restarts>>

PeekLock(t, s) ==
  /\ \E c \in Head(t, s) :
       /\ busCopy[c].locks < MaxLeases
       /\ busCopy' = [busCopy EXCEPT ![c].locked = TRUE, ![c].locks = @ + 1]
  /\ UNCHANGED <<busTopics, busSubs, busSeq, restarts>>

\* Mutant of Matches: by sequence number alone.
MatchesSequence(c, t, s, held, n) == InBacklog(c, t, s) /\ busCopy[c].seq = busCopy[held].seq

\* Does the request made with the n-th lock of held, and its sequence number,
\* name c?
Matches(c, t, s, held, n) ==
  /\ InBacklog(c, t, s) /\ busCopy[c].seq = busCopy[held].seq
  /\ busCopy[c].locked /\ c = held /\ busCopy[c].locks = n

Complete(t, s) ==
  /\ \E held \in Copy : \E n \in 1..busCopy[held].locks :
       /\ \E c \in Copy : Matches(c, t, s, held, n)
       /\ busCopy' = [c \in Copy |-> IF Matches(c, t, s, held, n)
                                     THEN CopyGone(busCopy[c], "settled", n) ELSE busCopy[c]]
  /\ UNCHANGED <<busTopics, busSubs, busSeq, restarts>>

Abandon(t, s) ==
  /\ \E held \in Copy : \E n \in 1..busCopy[held].locks :
       \E c \in First(1, {c \in Copy : Matches(c, t, s, held, n)}) :
         busCopy' = [busCopy EXCEPT ![c].locked = FALSE]
  /\ UNCHANGED <<busTopics, busSubs, busSeq, restarts>>

BusRestart ==
  /\ restarts < MaxRestarts /\ restarts' = restarts + 1
  /\ busSeq' = 0
  /\ UNCHANGED <<busTopics, busSubs, busCopy>>

BusRequest(t) ==
  \/ BusCreateTopic(t) \/ BusDeleteTopic(t) \/ Send(t)
  \/ \E s \in BusSub : \/ BusCreateSubscription(t, s) \/ BusDeleteSubscription(t, s)
                    \/ ReceiveAndDelete(t, s) \/ PeekLock(t, s)
                    \/ Complete(t, s) \/ Abandon(t, s)

BusNext == BusRestart \/ \E t \in BusTopic : BusRequest(t)

BusSpec == BusInit /\ [][BusNext]_busVars

-----------------------------------------------------------------------------
(* What it implements.                                                     *)

BusCell ==
  [c \in Copy |->
     [place |-> IF busCopy[c].state # "stored" THEN busCopy[c].state
                ELSE IF busCopy[c].locked THEN "held" ELSE "ready",
      leases |-> busCopy[c].locks, by |-> busCopy[c].by]]

BusBacklog == INSTANCE LeasedBacklog WITH cell <- BusCell

=============================================================================
