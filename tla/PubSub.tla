------------------------------- MODULE PubSub -------------------------------
(***************************************************************************)
(* GCP Pub/Sub (core/gcp_pubsub_core.py): a topic keeps the names of its   *)
(* subscriptions, a subscription the name of its topic and a backlog of    *)
(* its own.  Pulling marks messages as pending and makes an ack id for     *)
(* each; acknowledging removes what its ack ids name.  A topic may go      *)
(* before its subscriptions and its name be used again.                    *)
(*                                                                         *)
(* dispatch() runs to completion on one thread and saves topics and        *)
(* subscriptions before it answers.  An ack id is a fresh uuid: the copy   *)
(* it was made for and which of its pulls that was.  Topic settings and    *)
(* schemas are left out but for this: publishing may be refused, which     *)
(* changes nothing.                                                        *)
(***************************************************************************)
EXTENDS Copies

CONSTANTS Topic,         \* topic names
          DeletedTopic,  \* "_deleted-topic_"
          Sub            \* subscription names

ASSUME PubSubAssumption == IsFiniteSet(Sub) /\ DeletedTopic \notin Topic

VARIABLES topics,         \* the topics of the store
          listed,         \* per topic: its list of subscriptions
          subscriptions,  \* the subscriptions of the store
          topicOf,        \* per subscription: its topic
          ackids,         \* per subscription: the ack ids not yet used
          pubsubCopy      \* per copy: the backlog it is in, and its fields

pubsubVars == <<topics, listed, subscriptions, topicOf, ackids, pubsubCopy>>

Ack == Copy \X (1..MaxLeases)

NotPublished == [state |-> "absent", sub |-> {}, pulls |-> 0, pending |-> FALSE, by |-> 0]

InSub(c, s) == pubsubCopy[c].state = "stored" /\ pubsubCopy[c].sub = {s}

PubSubTypeOK ==
  /\ topics \subseteq Topic /\ subscriptions \subseteq Sub
  /\ listed \in [Topic -> SUBSET Sub]
  /\ topicOf \in [Sub -> Topic \cup {DeletedTopic}]
  /\ ackids \in [Sub -> SUBSET Ack]
  /\ \A c \in Copy :
       /\ pubsubCopy[c].state \in {"absent", "stored", "settled", "dropped"}
       /\ pubsubCopy[c].state = "stored" => \E s \in subscriptions : InSub(c, s)

PubSubInit ==
  /\ topics = {} /\ subscriptions = {}
  /\ listed = [t \in Topic |-> {}]
  /\ topicOf = [s \in Sub |-> DeletedTopic]
  /\ ackids = [s \in Sub |-> {}]
  /\ pubsubCopy = [c \in Copy |-> NotPublished]

-----------------------------------------------------------------------------
(* Topics and subscriptions.                                               *)

PubSubGone(x, how, pull) == [x EXCEPT !.state = how, !.sub = {}, !.pending = FALSE, !.by = pull]

CreateTopic(t) ==
  /\ t \notin topics
  /\ topics' = topics \cup {t}
  /\ listed' = [listed EXCEPT ![t] = {}]
  /\ UNCHANGED <<subscriptions, topicOf, ackids, pubsubCopy>>

\* The subscriptions stay, detached, with what they have.
DeleteTopic(t) ==
  /\ t \in topics
  /\ topics' = topics \ {t}
  /\ listed' = [listed EXCEPT ![t] = {}]
  /\ topicOf' = [s \in Sub |-> IF s \in listed[t] \cap subscriptions THEN DeletedTopic
                               ELSE topicOf[s]]
  /\ UNCHANGED <<subscriptions, ackids, pubsubCopy>>

CreateSubscription(s, t) ==
  /\ s \notin subscriptions /\ t \in topics
  /\ subscriptions' = subscriptions \cup {s}
  /\ topicOf' = [topicOf EXCEPT ![s] = t]
  /\ ackids' = [ackids EXCEPT ![s] = {}]
  /\ listed' = [listed EXCEPT ![t] = @ \cup {s}]
  /\ UNCHANGED <<topics, pubsubCopy>>

\* Mutant of DeleteSubscription: its topic goes on listing it.
DeleteUnlisted(s) ==
  /\ s \in subscriptions
  /\ subscriptions' = subscriptions \ {s}
  /\ pubsubCopy' = [c \in Copy |-> IF InSub(c, s) THEN PubSubGone(pubsubCopy[c], "dropped", 0)
                                   ELSE pubsubCopy[c]]
  /\ topicOf' = [topicOf EXCEPT ![s] = DeletedTopic]
  /\ ackids' = [ackids EXCEPT ![s] = {}]
  /\ UNCHANGED <<topics, listed>>

DeleteSubscription(s) ==
  /\ s \in subscriptions
  /\ subscriptions' = subscriptions \ {s}
  /\ listed' = [t \in Topic |-> IF t \in topics /\ t = topicOf[s] THEN listed[t] \ {s}
                                ELSE listed[t]]
  /\ pubsubCopy' = [c \in Copy |-> IF InSub(c, s) THEN PubSubGone(pubsubCopy[c], "dropped", 0)
                                   ELSE pubsubCopy[c]]
  /\ topicOf' = [topicOf EXCEPT ![s] = DeletedTopic]
  /\ ackids' = [ackids EXCEPT ![s] = {}]
  /\ UNCHANGED topics

-----------------------------------------------------------------------------
(* Messages.                                                               *)

Unpublished == {c \in Copy : pubsubCopy[c].state = "absent"}

\* Each of the n messages goes to every listed subscription that exists.
Publish(t) ==
  /\ t \in topics
  /\ \E n \in 1..MaxBatch :
       LET to == listed[t] \cap subscriptions
           new == First(n * Cardinality(to), Unpublished)
       IN /\ Cardinality(new) = n * Cardinality(to)
          /\ \E sub \in [new -> to] :
               /\ \A s \in to : Cardinality({c \in new : sub[c] = s}) = n
               /\ pubsubCopy' = [c \in Copy |->
                    IF c \in new
                    THEN [NotPublished EXCEPT !.state = "stored", !.sub = {sub[c]}]
                    ELSE pubsubCopy[c]]
  /\ UNCHANGED <<topics, listed, subscriptions, topicOf, ackids>>

Offered(s) == {c \in Copy : InSub(c, s) /\ ~pubsubCopy[c].pending}

Pull(s) ==
  /\ s \in subscriptions
  /\ \E n \in 1..MaxBatch :
       LET pulled == First(n, Offered(s))
           after(c) == [pubsubCopy[c] EXCEPT !.pending = TRUE, !.pulls = @ + 1]
       IN /\ pulled # {} /\ \A c \in pulled : pubsubCopy[c].pulls < MaxLeases
          /\ pubsubCopy' = [c \in Copy |-> IF c \in pulled THEN after(c) ELSE pubsubCopy[c]]
          /\ ackids' = [ackids EXCEPT ![s] = @ \cup {<<c, after(c).pulls>> : c \in pulled}]
  /\ UNCHANGED <<topics, listed, subscriptions, topicOf>>

\* The given ack ids that are there to be used; used and foreign ones are ignored.
Used(s, given) == given \cap ackids[s]

Acknowledge(s) ==
  /\ s \in subscriptions
  /\ \E given \in SUBSET {a \in Ack : a[2] <= pubsubCopy[a[1]].pulls} :
       LET removed == {a[1] : a \in Used(s, given)}
           lastPull(c) == CHOOSE n \in 1..MaxLeases : <<c, n>> \in Used(s, given)
       IN /\ ackids' = [ackids EXCEPT ![s] = @ \ Used(s, given)]
          /\ pubsubCopy' = [c \in Copy |->
               IF c \in removed /\ InSub(c, s)
               THEN PubSubGone(pubsubCopy[c], "settled", lastPull(c)) ELSE pubsubCopy[c]]
  /\ UNCHANGED <<topics, listed, subscriptions, topicOf>>

PubSubRequest(s, t) ==
  \/ CreateTopic(t) \/ DeleteTopic(t) \/ Publish(t)
  \/ CreateSubscription(s, t) \/ DeleteSubscription(s)
  \/ Pull(s) \/ Acknowledge(s)

PubSubNext == \E s \in Sub, t \in Topic : PubSubRequest(s, t)

PubSubSpec == PubSubInit /\ [][PubSubNext]_pubsubVars

-----------------------------------------------------------------------------
(* What it keeps and implements.                                           *)

\* A topic lists exactly the subscriptions that name it, whatever was deleted
\* and created again under the same names in between.
TopicsAgree ==
  \A t \in Topic : listed[t] = {s \in subscriptions : t \in topics /\ topicOf[s] = t}

\* What is pending can be acknowledged: its subscription holds exactly one ack
\* id for it, and none for anything else.
PendingIsAckable ==
  \A s \in Sub :
    /\ \A a \in ackids[s] : InSub(a[1], s) /\ pubsubCopy[a[1]].pending
    /\ \A c \in Copy : InSub(c, s) /\ pubsubCopy[c].pending =>
         Cardinality({a \in ackids[s] : a[1] = c}) = 1

\* Names that come and go, and pulls and acknowledgements of several consumers,
\* leave the lists, names and ack ids of core/gcp_pubsub_core.py in agreement.
PubSubConsistent == TopicsAgree /\ PendingIsAckable

PubSubCell ==
  [c \in Copy |->
     [place |-> IF pubsubCopy[c].state # "stored" THEN pubsubCopy[c].state
                ELSE IF pubsubCopy[c].pending THEN "held" ELSE "ready",
      leases |-> pubsubCopy[c].pulls, by |-> pubsubCopy[c].by]]

PubSubBacklog == INSTANCE LeasedBacklog WITH cell <- PubSubCell

=============================================================================
