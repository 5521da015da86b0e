------------------------- MODULE SnsDelivery_proofs -------------------------
(***************************************************************************)
(* Theorems of SnsDelivery, for any number of jobs, retries, crashes and   *)
(* faults: the state is well formed, a stored job keeps its turn until it  *)
(* has ended, and the end it comes to is earned.                           *)
(***************************************************************************)
EXTENDS SnsDelivery, SequenceTheorems, TLAPS

(***************************************************************************)
(* The inductive invariant, in parts.                                      *)
(***************************************************************************)
JobsIn(q) == {q[i][1] : i \in 1..Len(q)}
EachOnce(q) == \A a, b \in 1..Len(q) : q[a][1] = q[b][1] => a = b

Holding(j) == hand.step # "empty" /\ hand.job = j

\* The jobs up to this one have left the hook for the stream or the queue.
HandedOver == published - Len(publishing)

ProcessTypeOK ==
  /\ mode \in {"down", "jetstream", "memory"}
  /\ publishing \in Seq(Jobs)
  /\ queue \in Seq(Jobs \X (1..Retries + 1))
  /\ worker \in {"none", "starting", "stream", "queue"}
  /\ hand \in [job : Nat, attempt : Nat, step : Steps]
  /\ published \in 0..MaxJobs

BrokerTypeOK ==
  /\ mail \in [Jobs -> MailStates]
  /\ sent \in [Jobs -> Nat]
  /\ stored \subseteq Jobs

ResultsTypeOK ==
  /\ done \in [Jobs -> Nat] /\ failed \in [Jobs -> Nat] /\ dead \in [Jobs -> Nat]
  /\ dropped \subseteq Jobs

BoundsTypeOK == crashes \in 0..MaxCrashes /\ faults \in 0..MaxFaults

FlagsTypeOK == subscribed \in BOOLEAN /\ active \in BOOLEAN /\ consumer \in BOOLEAN

\* A process that is down holds nothing; what a worker has in hand it has taken
\* from where it reads.
HandFits ==
  /\ mode = "down" => worker = "none" /\ queue = <<>>
  /\ mode # "jetstream" => publishing = <<>>
  /\ hand.step = "empty" => hand = EmptyHand
  /\ hand.step # "empty" => worker \in {"stream", "queue"} /\ hand.job \in Jobs
  /\ worker = "queue" => hand.attempt <= Retries + 1
  /\ worker = "queue" /\ hand.step = "retry" => hand.attempt <= Retries
  /\ hand.step = "ack" => worker = "stream" /\ Ended(hand.job)

\* What awaits its publication is the latest jobs, in order; of those nobody else
\* has heard.
Unseen(j) ==
  /\ mail[j] = "none" /\ sent[j] = 0 /\ j \notin stored
  /\ j \notin JobsIn(queue) /\ ~Holding(j)
  /\ done[j] = 0 /\ failed[j] = 0 /\ dead[j] = 0 /\ j \notin dropped

PublishingFits ==
  /\ HandedOver >= 0
  /\ \A k \in 1..Len(publishing) : publishing[k] = HandedOver + k
  /\ \A j \in Jobs : j > HandedOver => Unseen(j)

\* A job is in the process once, and a job taken from the stream is still there.
CopiesFit ==
  /\ EachOnce(queue)
  /\ worker = "queue" /\ hand.step # "empty" => hand.job \notin JobsIn(queue)
  /\ worker = "stream" /\ hand.step # "empty" => mail[hand.job] = "out"

\* Every copy that may still come to an end counts like an end.
AtBroker(j) ==
  IF InStream(j) /\ ~ (worker = "stream" /\ hand.step = "ack" /\ hand.job = j) THEN 1 ELSE 0

InProcess(j) ==
  IF j \in JobsIn(queue) \/ (worker = "queue" /\ Holding(j)) THEN 1 ELSE 0

EndsFit == \A j \in Jobs : done[j] + dead[j] + AtBroker(j) + InProcess(j) <= 1 + crashes + faults

\* The number an attempt bears was reached by attempts, or by what broke.
Attempts(j) == failed[j] + done[j] + crashes + faults
Attempting(j) == IF hand.step \in {"attempt", "ack"} /\ hand.job = j THEN 1 ELSE 0

AttemptsFit ==
  /\ \A i \in 1..Len(queue) : queue[i][2] <= Attempts(queue[i][1]) + 1
  /\ hand.step = "attempt" => hand.attempt <= Attempts(hand.job) + 1
  /\ hand.step = "retry" => hand.attempt <= Attempts(hand.job)
  /\ \A j \in Jobs : InStream(j) => sent[j] <= Attempts(j) + Attempting(j)
  /\ RetriesAreUsed

\* While nothing broke: where a job is that was never attempted, and that no later
\* one was taken before it.
Untouched(j) == failed[j] = 0 /\ ~Ended(j)

PlacesFit ==
  /\ mode = "down" => published = 0
  /\ mode = "jetstream" => queue = <<>> /\ worker # "queue"
  /\ mode = "memory" => worker # "stream" /\ \A j \in Jobs : mail[j] = "none"
  /\ \A j \in Jobs : mail[j] = "out" => Holding(j)
  /\ \A j \in Jobs : mail[j] \in {"delayed", "again"} => failed[j] > 0
  /\ hand.step = "retry" => failed[hand.job] > 0
  /\ \A j \in 1..HandedOver : Untouched(j) => mail[j] = "new" \/ j \in JobsIn(queue) \/ Holding(j)

TurnsFit ==
  /\ \A a, b \in 1..Len(queue) :
       a < b /\ Untouched(queue[b][1]) => queue[a][1] < queue[b][1]
  /\ \A i, j \in Jobs :
       i < j /\ Untouched(i) => done[j] = 0 /\ failed[j] = 0 /\ ~Holding(j)

OrderFits == crashes + faults = 0 => PlacesFit /\ TurnsFit

DeliveryTypeOK == ProcessTypeOK /\ BrokerTypeOK /\ ResultsTypeOK /\ BoundsTypeOK /\ FlagsTypeOK

DeliveryInv ==
  /\ DeliveryTypeOK
  /\ HandFits /\ PublishingFits /\ CopiesFit /\ EndsFit /\ AttemptsFit /\ OrderFits
  /\ StoredUntilEnded

-----------------------------------------------------------------------------
(***************************************************************************)
(* The queue of the process.                                               *)
(***************************************************************************)
QueueItem == Jobs \X (1..Retries + 1)

\* Nothing waits in an empty queue.
LEMMA EmptyQueue == JobsIn(<<>>) = {} /\ EachOnce(<<>>)
BY DEF JobsIn, EachOnce

\* A job is put at the end of the queue.
LEMMA LongerQueue ==
  ASSUME NEW q \in Seq(QueueItem), NEW j \in Jobs, NEW a \in 1..Retries + 1,
         NEW r, r = Append(q, <<j, a>>)
  PROVE  /\ r \in Seq(QueueItem)
         /\ Len(r) = Len(q) + 1
         /\ \A i \in 1..Len(q) : r[i] = q[i]
         /\ r[Len(r)] = <<j, a>>
         /\ JobsIn(r) = JobsIn(q) \cup {j}
         /\ EachOnce(q) /\ j \notin JobsIn(q) => EachOnce(r)
<1>1. <<j, a>> \in QueueItem
  BY DEF QueueItem
<1>2. /\ r \in Seq(QueueItem) /\ Len(r) = Len(q) + 1 /\ Len(q) \in Nat
      /\ \A i \in 1..Len(q) : r[i] = q[i]
      /\ r[Len(q) + 1] = <<j, a>>
  BY <1>1, AppendProperties
<1>3. JobsIn(r) = JobsIn(q) \cup {j}
  <2>1. 1..Len(r) = 1..Len(q) \cup {Len(q) + 1}
    BY <1>2
  <2>2. r[Len(q) + 1][1] = j
    BY <1>2
  <2>3. QED
    BY <1>2, <2>1, <2>2 DEF JobsIn
<1>4. ASSUME EachOnce(q), j \notin JobsIn(q) PROVE EachOnce(r)
  <2>1. ASSUME NEW b \in 1..Len(r), NEW c \in 1..Len(r), r[b][1] = r[c][1] PROVE b = c
    <3>1. \A i \in 1..Len(q) : r[i][1] # j
      BY <1>2, <1>4 DEF JobsIn
    <3>2. r[Len(q) + 1][1] = j
      BY <1>2
    <3>3. CASE b \in 1..Len(q) /\ c \in 1..Len(q)
      BY <1>2, <1>4, <2>1, <3>3 DEF EachOnce
    <3>4. CASE b = Len(q) + 1 \/ c = Len(q) + 1
      BY <1>2, <2>1, <3>1, <3>2, <3>4
    <3>5. QED
      BY <1>2, <3>3, <3>4
  <2>2. QED
    BY <2>1 DEF EachOnce
<1>5. QED
  BY <1>2, <1>3, <1>4

\* The first job is read.
LEMMA ShorterQueue ==
  ASSUME NEW q \in Seq(QueueItem), q # <<>>, NEW r, r = Tail(q)
  PROVE  /\ r \in Seq(QueueItem)
         /\ Len(q) > 0 /\ Len(r) = Len(q) - 1 /\ Len(r) \in Nat
         /\ \A i \in 1..Len(r) : i + 1 \in 1..Len(q) /\ r[i] = q[i + 1]
         /\ Head(q) = q[1] /\ q[1] \in QueueItem /\ q[1][1] \in JobsIn(q)
         /\ JobsIn(r) \subseteq JobsIn(q)
         /\ \A j \in JobsIn(q) : j # q[1][1] => j \in JobsIn(r)
         /\ EachOnce(q) => EachOnce(r) /\ q[1][1] \notin JobsIn(r)
<1>1. /\ r \in Seq(QueueItem) /\ Head(q) \in QueueItem
      /\ Len(q) \in Nat \ {0} /\ Len(r) = Len(q) - 1
      /\ \A i \in 1..Len(r) : r[i] = q[i + 1]
  BY HeadTailProperties, EmptySeq
<1>2. Head(q) = q[1]
  BY <1>1
<1>3. q[1][1] \in JobsIn(q) /\ JobsIn(r) \subseteq JobsIn(q)
  BY <1>1 DEF JobsIn
<1>4. ASSUME NEW j \in JobsIn(q), j # q[1][1] PROVE j \in JobsIn(r)
  <2>1. PICK b \in 1..Len(q) : q[b][1] = j
    BY DEF JobsIn
  <2>2. b - 1 \in 1..Len(r) /\ r[b - 1] = q[b]
    BY <1>1, <1>4, <2>1
  <2>3. QED
    BY <2>1, <2>2 DEF JobsIn
<1>5. ASSUME EachOnce(q) PROVE EachOnce(r) /\ q[1][1] \notin JobsIn(r)
  BY <1>1, <1>5 DEF EachOnce, JobsIn
<1>6. QED
  BY <1>1, <1>2, <1>3, <1>4, <1>5

-----------------------------------------------------------------------------
(***************************************************************************)
(* The types.                                                              *)
(***************************************************************************)
\* The types hold at first.
LEMMA TypeStart == Init => DeliveryTypeOK
<1> SUFFICES ASSUME Init PROVE DeliveryTypeOK
  OBVIOUS
<1>1. <<>> \in Seq(Jobs) /\ <<>> \in Seq(Jobs \X (1..Retries + 1))
  BY EmptySeq
<1>2. ProcessTypeOK
  BY <1>1, BoundsAssumption DEF Init, ProcessTypeOK, Steps, EmptyHand
<1>3. BrokerTypeOK /\ ResultsTypeOK
  BY DEF Init, BrokerTypeOK, ResultsTypeOK, MailStates
<1>4. BoundsTypeOK
  BY BoundsAssumption DEF Init, BoundsTypeOK
<1>5. FlagsTypeOK
  BY DEF Init, FlagsTypeOK
<1>6. QED
  BY <1>2, <1>3, <1>4, <1>5 DEF DeliveryTypeOK

\* A fault that is counted stays within its bound.
LEMMA FaultKept ==
  ASSUME BoundsTypeOK, Fault \/ UNCHANGED bounds PROVE BoundsTypeOK'
BY BoundsAssumption DEF BoundsTypeOK, Fault, bounds

\* What a failure of the worker costs: a fault, and perhaps its task with what it had
\* in hand.
LEMMA WorkerFailures ==
  ASSUME DeliveryTypeOK, HandFits, WorkerFails
  PROVE  /\ Fault /\ hand \in [job : Nat, attempt : Nat, step : Steps]
         /\ UNCHANGED <<mode, publishing, queue, subscribed, active, published, consumer, stored>>
         /\ UNCHANGED <<done, dead, dropped>>
         /\ \/ hand' = hand /\ worker' = worker /\ hand = EmptyHand
            \/ hand' = EmptyHand /\ worker' = "none" /\ hand.step # "empty"
<1> USE DEF process, user, broker, results, bounds, around
<1>1. ASSUME NEW j \in Jobs, FetchLost(j)
      PROVE  /\ Fault /\ UNCHANGED <<process, user, consumer, stored, results>> /\ hand = EmptyHand
  BY <1>1 DEF FetchLost
<1>2. CASE RedriveRaises
  BY <1>2 DEF RedriveRaises, TaskEnds, DeliveryTypeOK, ProcessTypeOK
<1>3. CASE AnswerRaises
  BY <1>3 DEF AnswerRaises, TaskEnds, DeliveryTypeOK, ProcessTypeOK
<1>4. QED
  BY <1>1, <1>2, <1>3 DEF WorkerFails, DeliveryTypeOK, ProcessTypeOK

\* The process: its sequences, its worker, what it has in hand.
LEMMA ProcessTypes ==
  ASSUME DeliveryTypeOK, HandFits, [Next]_vars
  PROVE  ProcessTypeOK'
<1> USE DEF process, user, broker, results, bounds, around
<1>a. /\ ProcessTypeOK /\ BrokerTypeOK
      /\ <<>> \in Seq(Jobs) /\ <<>> \in Seq(Jobs \X (1..Retries + 1))
  BY EmptySeq DEF DeliveryTypeOK
<1>b. EmptyHand \in [job : Nat, attempt : Nat, step : Steps]
  BY DEF EmptyHand, Steps
<1>c. ASSUME NEW j \in Jobs, NEW n \in Nat, NEW step \in Steps
      PROVE  InHand(j, n, step) \in [job : Nat, attempt : Nat, step : Steps]
  BY <1>c, BoundsAssumption DEF InHand, Jobs
<1>d. ASSUME NEW j \in Jobs, NEW n \in 1..Retries + 1
      PROVE  Append(queue, <<j, n>>) \in Seq(Jobs \X (1..Retries + 1))
  BY <1>a, LongerQueue DEF ProcessTypeOK, QueueItem
<1>e. ASSUME NEW j \in Jobs, NEW n \in Nat, Take(j, n)
      PROVE  hand' \in [job : Nat, attempt : Nat, step : Steps]
  <2>1. hand' = EmptyHand \/ hand' = InHand(j, n, "attempt") \/ hand' = InHand(j, n, "ack")
    BY <1>e DEF Take
  <2>2. "attempt" \in Steps /\ "ack" \in Steps
    BY DEF Steps
  <2>3. QED
    BY <1>b, <1>c, <2>1, <2>2
<1>1. CASE BootJetStream \/ BootMemory
  BY <1>a, <1>1 DEF BootJetStream, BootMemory, Boot, ProcessTypeOK
<1>2. CASE Crash
  BY <1>a, <1>b, <1>2 DEF Crash, ProcessTypeOK
<1>3. CASE Enqueue
  <2>1. published' \in Jobs /\ published' \in 0..MaxJobs
    BY <1>a, <1>3, BoundsAssumption DEF Enqueue, ProcessTypeOK, Jobs
  <2>2. Append(publishing, published') \in Seq(Jobs)
    BY <1>a, <2>1, AppendProperties DEF ProcessTypeOK
  <2>3. Append(queue, <<published', 1>>) \in Seq(Jobs \X (1..Retries + 1))
    BY <2>1, <1>d, BoundsAssumption
  <2>4. QED
    BY <1>a, <1>3, <2>1, <2>2, <2>3 DEF Enqueue, ProcessTypeOK
<1>4. CASE PublishAcked \/ PublishFails
  <2>1. publishing # <<>> /\ publishing \in Seq(Jobs)
    BY <1>a, <1>4 DEF PublishAcked, PublishFails, Published, ProcessTypeOK
  <2>2. Head(publishing) \in Jobs /\ Tail(publishing) \in Seq(Jobs)
    BY <2>1, HeadTailProperties
  <2>3. Append(queue, <<Head(publishing), 1>>) \in Seq(Jobs \X (1..Retries + 1))
    BY <2>2, <1>d, BoundsAssumption
  <2>4. QED
    BY <1>a, <1>4, <2>2, <2>3 DEF PublishAcked, PublishFails, Published, ProcessTypeOK
<1>5. CASE WorkerStarts \/ WorkerRetires
  BY <1>a, <1>5 DEF WorkerStarts, WorkerSubscribes, WorkerSubscribeFails, WorkerWithoutBroker,
     WorkerRetires, Retires, WorkerTurns, ProcessTypeOK
<1>6. CASE FetchFromQueue
  <2>1. queue # <<>> /\ queue \in Seq(Jobs \X (1..Retries + 1))
    BY <1>a, <1>6 DEF FetchFromQueue, ProcessTypeOK
  <2>2. /\ Head(queue) \in Jobs \X (1..Retries + 1)
        /\ Tail(queue) \in Seq(Jobs \X (1..Retries + 1))
    BY <2>1, HeadTailProperties
  <2>3. Head(queue)[1] \in Jobs /\ Head(queue)[2] \in Nat
    BY <2>2, BoundsAssumption
  <2>4. hand' \in [job : Nat, attempt : Nat, step : Steps]
    BY <1>6, <1>e, <2>3 DEF FetchFromQueue
  <2>5. QED
    BY <1>a, <1>6, <2>2, <2>4 DEF FetchFromQueue, Take, ProcessTypeOK
<1>7. CASE \E j \in Jobs : FetchFromStream(j)
  <2>1. PICK j \in Jobs : FetchFromStream(j)
    BY <1>7
  <2>2. sent'[j] \in Nat
    BY <1>a, <2>1 DEF FetchFromStream, Fetch, BrokerTypeOK
  <2>3. hand' \in [job : Nat, attempt : Nat, step : Steps]
    BY <1>e, <2>1, <2>2 DEF FetchFromStream, Fetch
  <2>4. QED
    BY <1>a, <2>1, <2>3 DEF FetchFromStream, Fetch, Take, ProcessTypeOK
<1>8. CASE AttemptEnds
  <2>1. hand' = EmptyHand \/ \E step \in {"ack", "retry"} : hand' = [hand EXCEPT !.step = step]
    BY <1>8 DEF AttemptEnds, AttemptSucceeds, AttemptFails, GiveUp, FailsWithin, FailsBeyond,
       Settle, Answer
  <2>2. hand' \in [job : Nat, attempt : Nat, step : Steps]
    BY <1>a, <1>b, <2>1 DEF ProcessTypeOK, Steps
  <2>3. QED
    BY <1>a, <1>8, <2>2 DEF AttemptEnds, AttemptSucceeds, AttemptFails, GiveUp, FailsWithin,
       FailsBeyond, Attempted, Settle, Answer, ProcessTypeOK
<1>9. CASE Acknowledge \/ NegativeAck \/ AnswerLost
  BY <1>a, <1>b, <1>9 DEF Acknowledge, NegativeAck, AnswerLost, Replied, ProcessTypeOK, Reply
<1>10. CASE Requeue
  <2>1. hand.job \in Jobs /\ hand.attempt + 1 \in 1..Retries + 1
    BY <1>a, <1>10, BoundsAssumption DEF Requeue, HandFits, ProcessTypeOK
  <2>2. Append(queue, <<hand.job, hand.attempt + 1>>) \in Seq(Jobs \X (1..Retries + 1))
    BY <2>1, <1>d
  <2>3. QED
    BY <1>a, <1>b, <1>10, <2>2 DEF Requeue, ProcessTypeOK
<1>11. CASE \E j \in Jobs : DelayEnds(j) \/ AckWaitEnds(j)
  BY <1>a, <1>11 DEF DelayEnds, AckWaitEnds, DueAgain, ProcessTypeOK
<1>12. CASE Unsubscribe \/ SwitchSpace \/ UNCHANGED vars
  BY <1>a, <1>12 DEF Unsubscribe, vars, ProcessTypeOK, SwitchSpace
<1>13. CASE WorkerFails
  BY <1>a, <1>b, <1>13, WorkerFailures DEF ProcessTypeOK
<1>14. QED
  BY <1>1, <1>2, <1>3, <1>4, <1>5, <1>6, <1>7, <1>8, <1>9, <1>10, <1>11, <1>12, <1>13
     DEF Next, Fetches, Answered

\* The broker, the results and the bounds.
LEMMA OtherTypes ==
  ASSUME DeliveryTypeOK, HandFits, [Next]_vars
  PROVE  BrokerTypeOK' /\ ResultsTypeOK' /\ BoundsTypeOK' /\ FlagsTypeOK'
<1> USE DEF process, user, broker, results, bounds, around
<1>a. ProcessTypeOK /\ BrokerTypeOK /\ ResultsTypeOK /\ BoundsTypeOK /\ FlagsTypeOK
  BY DEF DeliveryTypeOK
<1>b. ASSUME UNCHANGED <<broker, results, subscribed, active>>, BoundsTypeOK'
      PROVE  BrokerTypeOK' /\ ResultsTypeOK' /\ BoundsTypeOK' /\ FlagsTypeOK'
  BY <1>a, <1>b DEF BrokerTypeOK, ResultsTypeOK, FlagsTypeOK
<1>c. UNCHANGED bounds => BoundsTypeOK'
  BY <1>a, FaultKept
<1>d. hand.step # "empty" => hand.job \in Jobs
  BY DEF HandFits
<1>1. CASE BootJetStream \/ BootMemory
  BY <1>a, <1>b, <1>1, FaultKept DEF BootJetStream, BootMemory, Boot
<1>2. CASE Crash
  <2>1. BoundsTypeOK'
    BY <1>a, <1>2, BoundsAssumption DEF Crash, BoundsTypeOK
  <2>2. QED
    BY <1>b, <1>2, <2>1 DEF Crash
<1>3. CASE Enqueue
  BY <1>b, <1>c, <1>3 DEF Enqueue
<1>4. CASE PublishAcked \/ PublishFails
  <2>1. Head(publishing) \in Jobs
    BY <1>a, <1>4, HeadTailProperties DEF PublishAcked, PublishFails, Published, ProcessTypeOK
  <2>2. BrokerTypeOK' /\ UNCHANGED consumer
    BY <1>a, <1>4, <2>1 DEF PublishAcked, PublishFails, Store, BrokerTypeOK, MailStates
  <2>3. ResultsTypeOK' /\ UNCHANGED <<subscribed, active>>
    BY <1>a, <1>4 DEF PublishAcked, PublishFails, Published, ResultsTypeOK
  <2>4. BoundsTypeOK'
    BY <1>a, <1>4, FaultKept DEF PublishAcked, PublishFails
  <2>5. FlagsTypeOK'
    BY <1>a, <2>2, <2>3 DEF FlagsTypeOK
  <2>6. QED
    BY <2>2, <2>3, <2>4, <2>5
<1>5. CASE WorkerStarts \/ WorkerRetires
  <2>1. BrokerTypeOK' /\ ResultsTypeOK'
    BY <1>a, <1>5 DEF WorkerStarts, WorkerSubscribes, WorkerSubscribeFails, WorkerWithoutBroker,
       WorkerRetires, Retires, WorkerTurns, BrokerTypeOK, ResultsTypeOK
  <2>2. BoundsTypeOK'
    BY <1>a, <1>5, FaultKept DEF WorkerStarts, WorkerSubscribes, WorkerSubscribeFails,
       WorkerWithoutBroker, WorkerRetires, Retires
  <2>3. FlagsTypeOK'
    BY <1>a, <1>5 DEF WorkerStarts, WorkerSubscribes, WorkerSubscribeFails, WorkerWithoutBroker,
       WorkerRetires, Retires, WorkerTurns, FlagsTypeOK
  <2>4. QED
    BY <2>1, <2>2, <2>3
<1>6. CASE Fetches
  <2>1. ASSUME NEW j \in Jobs, NEW n, Take(j, n)
        PROVE  ResultsTypeOK' /\ BoundsTypeOK' /\ FlagsTypeOK'
    <3>1. ResultsTypeOK'
      BY <1>a, <2>1 DEF Take, ResultsTypeOK
    <3>2. BoundsTypeOK' /\ FlagsTypeOK'
      BY <1>a, <1>c, <2>1 DEF Take, FlagsTypeOK
    <3>3. QED
      BY <3>1, <3>2
  <2>2. CASE FetchFromQueue
    <3>1. Head(queue) \in Jobs \X (1..Retries + 1)
      BY <1>a, <2>2, HeadTailProperties DEF FetchFromQueue, ProcessTypeOK
    <3>2. Head(queue)[1] \in Jobs
      BY <3>1
    <3>3. BrokerTypeOK' /\ Take(Head(queue)[1], Head(queue)[2])
      BY <1>a, <2>2 DEF FetchFromQueue, Take, BrokerTypeOK
    <3>4. QED
      BY <2>1, <3>2, <3>3
  <2>3. ASSUME NEW j \in Jobs, FetchFromStream(j)
        PROVE  BrokerTypeOK' /\ ResultsTypeOK' /\ BoundsTypeOK' /\ FlagsTypeOK'
    <3>1. BrokerTypeOK' /\ Take(j, sent'[j])
      BY <1>a, <2>3 DEF FetchFromStream, Fetch, Take, BrokerTypeOK, MailStates
    <3>2. QED
      BY <2>1, <3>1
  <2>4. QED
    BY <1>6, <2>2, <2>3 DEF Fetches
<1>7. CASE AttemptEnds
  <2>1. hand.job \in Jobs
    BY <1>d, <1>7 DEF AttemptEnds, AttemptSucceeds, AttemptFails, GiveUp, FailsWithin,
       FailsBeyond, Attempted
  <2>2. ResultsTypeOK'
    BY <1>a, <1>7, <2>1 DEF AttemptEnds, AttemptSucceeds, AttemptFails, GiveUp, FailsWithin,
       FailsBeyond, Attempted, ResultsTypeOK
  <2>3. BrokerTypeOK' /\ BoundsTypeOK' /\ FlagsTypeOK'
    BY <1>a, <1>c, <1>7 DEF AttemptEnds, AttemptSucceeds, AttemptFails, GiveUp, FailsWithin,
       FailsBeyond, Attempted, BrokerTypeOK, FlagsTypeOK
  <2>4. QED
    BY <2>2, <2>3
<1>8. CASE Answered
  <2>1. BrokerTypeOK' /\ ResultsTypeOK'
    BY <1>a, <1>8 DEF Answered, Acknowledge, NegativeAck, AnswerLost, Replied, Requeue,
       BrokerTypeOK, ResultsTypeOK, MailStates, Reply
  <2>2. BoundsTypeOK'
    BY <1>a, <1>8, FaultKept DEF Answered, Acknowledge, NegativeAck, AnswerLost, Replied,
       Requeue, Reply
  <2>3. FlagsTypeOK'
    BY <1>a, <1>8 DEF Answered, Acknowledge, NegativeAck, AnswerLost, Replied, Requeue,
       FlagsTypeOK, Reply
  <2>4. QED
    BY <2>1, <2>2, <2>3
<1>9. CASE \E j \in Jobs : DelayEnds(j) \/ AckWaitEnds(j)
  <2>1. BrokerTypeOK' /\ ResultsTypeOK'
    BY <1>a, <1>9 DEF DelayEnds, AckWaitEnds, DueAgain, BrokerTypeOK, ResultsTypeOK, MailStates
  <2>2. BoundsTypeOK' /\ FlagsTypeOK'
    BY <1>a, <1>c, <1>9 DEF DelayEnds, AckWaitEnds, DueAgain, FlagsTypeOK
  <2>3. QED
    BY <2>1, <2>2
<1>10. CASE Unsubscribe \/ SwitchSpace
  <2>1. BrokerTypeOK' /\ ResultsTypeOK'
    BY <1>a, <1>10 DEF Unsubscribe, BrokerTypeOK, ResultsTypeOK, SwitchSpace
  <2>2. BoundsTypeOK' /\ FlagsTypeOK'
    BY <1>a, <1>c, <1>10 DEF Unsubscribe, FlagsTypeOK, SwitchSpace
  <2>3. QED
    BY <2>1, <2>2
<1>11. CASE UNCHANGED vars
  BY <1>b, <1>c, <1>11 DEF vars
<1>12. CASE WorkerFails
  <2>1. hand.step # "empty" => hand.job \in Jobs
    BY <1>d
  <2>2. BrokerTypeOK'
    <3>1. ASSUME NEW j \in Jobs, FetchLost(j) PROVE BrokerTypeOK'
      BY <1>a, <3>1 DEF FetchLost, BrokerTypeOK, MailStates
    <3>2. CASE RedriveRaises \/ AnswerRaises
      BY <1>a, <2>1, <3>2
         DEF RedriveRaises, AnswerRaises, TaskEnds, Reply, BrokerTypeOK, MailStates
    <3>3. QED
      BY <1>12, <3>1, <3>2 DEF WorkerFails
  <2>3. ResultsTypeOK'
    <3>1. failed' = failed \/ (hand.job \in Jobs /\ failed' = [failed EXCEPT ![hand.job] = @ + 1])
      BY <1>12, <2>1 DEF WorkerFails, FetchLost, RedriveRaises, AnswerRaises
    <3>2. UNCHANGED <<done, dead, dropped>>
      BY <1>12, WorkerFailures
    <3>3. QED
      BY <1>a, <3>1, <3>2 DEF ResultsTypeOK
  <2>4. BoundsTypeOK' /\ FlagsTypeOK'
    BY <1>a, <1>12, WorkerFailures, FaultKept DEF FlagsTypeOK
  <2>5. QED
    BY <2>2, <2>3, <2>4
<1>13. QED
  BY <1>1, <1>2, <1>3, <1>4, <1>5, <1>6, <1>7, <1>8, <1>9, <1>10, <1>11, <1>12 DEF Next

-----------------------------------------------------------------------------
(***************************************************************************)
(* What the steps do to the hand, the queue and the ends of jobs.          *)
(***************************************************************************)
\* An end is never taken back.
LEMMA EndsStay ==
  ASSUME DeliveryTypeOK, HandFits, [Next]_vars, NEW j \in Jobs
  PROVE  /\ done[j] \in Nat /\ done'[j] \in Nat /\ done'[j] >= done[j]
         /\ failed[j] \in Nat /\ failed'[j] \in Nat /\ failed'[j] >= failed[j]
         /\ dead[j] \in Nat /\ dead'[j] \in Nat /\ dead'[j] >= dead[j]
         /\ Ended(j) => Ended(j)'
<1> USE DEF process, user, broker, results, bounds, around
<1>a. ResultsTypeOK
  BY DEF DeliveryTypeOK
<1>1. ASSUME UNCHANGED results
      PROVE  /\ done'[j] >= done[j] /\ failed'[j] >= failed[j] /\ dead'[j] >= dead[j]
             /\ dropped \subseteq dropped'
  BY <1>a, <1>1 DEF ResultsTypeOK
<1>2. ASSUME Fetches
      PROVE  /\ done'[j] >= done[j] /\ failed'[j] >= failed[j] /\ dead'[j] >= dead[j]
             /\ dropped \subseteq dropped'
  BY <1>a, <1>2 DEF Fetches, FetchFromQueue, FetchFromStream, Fetch, Take, ResultsTypeOK
<1>3. ASSUME AttemptEnds
      PROVE  /\ done'[j] >= done[j] /\ failed'[j] >= failed[j] /\ dead'[j] >= dead[j]
             /\ dropped \subseteq dropped'
  BY <1>a, <1>3 DEF AttemptEnds, AttemptSucceeds, AttemptFails, GiveUp, FailsWithin,
     FailsBeyond, Attempted, ResultsTypeOK
<1>4. ASSUME ~Fetches, ~AttemptEnds, ~WorkerFails PROVE UNCHANGED results
  BY <1>4 DEF Next, vars, BootJetStream, BootMemory, Boot, Crash, Enqueue, PublishAcked,
     PublishFails, Published, WorkerStarts, WorkerSubscribes, WorkerSubscribeFails,
     WorkerWithoutBroker, WorkerRetires, Retires, WorkerTurns, Answered, Acknowledge,
     NegativeAck, AnswerLost, Replied, Requeue, DelayEnds, AckWaitEnds, DueAgain, Unsubscribe,
     Reply, SwitchSpace, WorkerFails, FetchLost, RedriveRaises, AnswerRaises, TaskEnds
<1>9. ASSUME WorkerFails
      PROVE  /\ done'[j] >= done[j] /\ failed'[j] >= failed[j] /\ dead'[j] >= dead[j]
             /\ dropped \subseteq dropped'
  <2>1. failed' = failed \/ failed' = [failed EXCEPT ![hand.job] = @ + 1]
    BY <1>9 DEF WorkerFails, FetchLost, RedriveRaises, AnswerRaises
  <2>2. UNCHANGED <<done, dead, dropped>>
    BY <1>9, WorkerFailures
  <2>3. QED
    BY <1>a, <2>1, <2>2 DEF ResultsTypeOK
<1>5. /\ done'[j] >= done[j] /\ failed'[j] >= failed[j] /\ dead'[j] >= dead[j]
      /\ dropped \subseteq dropped'
  BY <1>1, <1>2, <1>3, <1>4, <1>9
<1>6. ResultsTypeOK'
  BY OtherTypes
<1>7. /\ done[j] \in Nat /\ failed[j] \in Nat /\ dead[j] \in Nat
      /\ done'[j] \in Nat /\ failed'[j] \in Nat /\ dead'[j] \in Nat
  BY <1>a, <1>6 DEF ResultsTypeOK
<1>8. Ended(j) => Ended(j)'
  BY <1>5, <1>7 DEF Ended
<1>10. QED
  BY <1>5, <1>7, <1>8

\* What the worker has in hand it took from where it reads.
LEMMA HandStep ==
  ASSUME DeliveryTypeOK, HandFits, [Next]_vars
  PROVE  HandFits'
<1> USE DEF process, user, broker, results, bounds, around
<1>a. ProcessTypeOK /\ BrokerTypeOK /\ ResultsTypeOK
  BY DEF DeliveryTypeOK
<1>b. \A j \in Jobs : Ended(j) => Ended(j)'
  BY EndsStay
<1>c. EmptyHand.step = "empty" /\ EmptyHand.attempt = 0 /\ 0 <= Retries
  BY BoundsAssumption DEF EmptyHand
<1>d. publishing = <<>> => ~Published
  BY DEF Published
<1>e. ASSUME hand' = EmptyHand, mode' # "down", mode' # "jetstream" => publishing' = <<>>
      PROVE  HandFits'
  BY <1>c, <1>e, BoundsAssumption DEF HandFits
<1>1. CASE BootJetStream \/ BootMemory
  BY <1>b, <1>c, <1>1 DEF BootJetStream, BootMemory, Boot, HandFits
<1>2. CASE Crash
  BY <1>b, <1>c, <1>2 DEF Crash, HandFits
<1>3. CASE Enqueue
  BY <1>b, <1>c, <1>3 DEF Enqueue, Up, HandFits
<1>4. CASE PublishAcked \/ PublishFails
  BY <1>b, <1>d, <1>4 DEF PublishAcked, PublishFails, Published, HandFits
<1>5. CASE WorkerStarts \/ WorkerRetires
  <2>1. hand = EmptyHand /\ UNCHANGED <<mode, publishing, queue, hand>> /\ mode # "down"
    BY <1>5 DEF WorkerStarts, WorkerSubscribes, WorkerSubscribeFails, WorkerWithoutBroker,
       WorkerRetires, Retires, WorkerTurns, HandFits
  <2>2. QED
    BY <1>c, <1>e, <2>1 DEF HandFits
<1>6. CASE FetchFromQueue
  <2>1. /\ Head(queue)[1] \in Jobs /\ Head(queue)[2] <= Retries + 1 /\ worker = "queue"
        /\ Take(Head(queue)[1], Head(queue)[2])
    BY <1>a, <1>6, ShorterQueue DEF FetchFromQueue, ProcessTypeOK, QueueItem
  <2>2. UNCHANGED <<mode, publishing, worker>> /\ mode # "down"
    BY <1>6 DEF FetchFromQueue, Take, HandFits
  <2>3. QED
    BY <1>b, <1>c, <2>1, <2>2 DEF Take, InHand, HandFits
<1>7. ASSUME NEW j \in Jobs, FetchFromStream(j) PROVE HandFits'
  <2>1. worker = "stream" /\ Take(j, sent'[j]) /\ UNCHANGED <<mode, publishing, worker, queue>>
    BY <1>7 DEF FetchFromStream, Fetch, Take
  <2>2. Found \/ Ended(j)'
    BY <2>1 DEF Take, Ended
  <2>3. hand' = InHand(j, sent'[j], "attempt") \/ (hand' = InHand(j, sent'[j], "ack") /\ Ended(j)')
    BY <2>1, <2>2 DEF Take
  <2>4. QED
    BY <1>b, <2>1, <2>3 DEF InHand, HandFits
<1>8. CASE AttemptEnds
  <2>1. /\ hand.step = "attempt" /\ hand.job \in Jobs /\ worker \in {"stream", "queue"}
        /\ UNCHANGED <<mode, publishing, worker, queue>>
    BY <1>8 DEF AttemptEnds, AttemptSucceeds, AttemptFails, GiveUp, FailsWithin, FailsBeyond,
       Attempted, Answer, Settle, HandFits
  <2>2. CASE AttemptFails
    <3>1. hand' = [hand EXCEPT !.step = "retry"] /\ hand.attempt <= Retries
      BY <2>2 DEF AttemptFails, FailsWithin, Answer
    <3>2. hand'.step = "retry" /\ hand'.job = hand.job /\ hand'.attempt = hand.attempt
      BY <1>a, <3>1 DEF ProcessTypeOK
    <3>3. QED
      BY <2>1, <3>1, <3>2 DEF HandFits
  <2>3. ASSUME Settle, done'[hand.job] > 0 \/ dead'[hand.job] > 0 PROVE HandFits'
    <3>1. CASE worker = "stream"
      <4>1. hand' = [hand EXCEPT !.step = "ack"]
        BY <2>3, <3>1 DEF Settle, Answer
      <4>2. hand'.step = "ack" /\ hand'.job = hand.job /\ hand'.attempt = hand.attempt
        BY <1>a, <4>1 DEF ProcessTypeOK
      <4>3. QED
        BY <2>1, <2>3, <3>1, <4>2 DEF HandFits, Ended
    <3>2. CASE worker # "stream"
      BY <1>e, <2>1, <2>3, <3>2 DEF Settle, HandFits
    <3>3. QED
      BY <3>1, <3>2
  <2>4. ASSUME AttemptSucceeds \/ GiveUp
        PROVE  Settle /\ (done'[hand.job] > 0 \/ dead'[hand.job] > 0)
    BY <1>a, <2>1, <2>4 DEF AttemptSucceeds, GiveUp, FailsBeyond, ResultsTypeOK
  <2>5. QED
    BY <1>8, <2>2, <2>3, <2>4 DEF AttemptEnds
<1>9. CASE Answered
  <2>1. hand' = EmptyHand /\ UNCHANGED <<mode, publishing, worker>> /\ worker # "none"
    BY <1>9 DEF Answered, Acknowledge, NegativeAck, AnswerLost, Replied, Requeue, Reply
  <2>2. QED
    BY <1>e, <2>1 DEF HandFits
<1>10. CASE \E j \in Jobs : DelayEnds(j) \/ AckWaitEnds(j)
  BY <1>b, <1>10 DEF DelayEnds, AckWaitEnds, DueAgain, HandFits
<1>11. CASE Unsubscribe \/ SwitchSpace \/ UNCHANGED vars
  BY <1>b, <1>11 DEF Unsubscribe, vars, HandFits, SwitchSpace
<1>12. CASE WorkerFails
  <2>1. UNCHANGED <<mode, publishing, queue>> /\ (mode = "down" => worker = "none" /\ queue = <<>>)
    BY <1>12, WorkerFailures DEF HandFits
  <2>2. hand' = EmptyHand /\ (mode' = "down" => worker' = "none")
    BY <1>12, <2>1, WorkerFailures
  <2>3. QED
    BY <1>e, <2>1, <2>2 DEF HandFits
<1>13. QED
  BY <1>1, <1>2, <1>3, <1>4, <1>5, <1>6, <1>7, <1>8, <1>9, <1>10, <1>11, <1>12 DEF Next, Fetches

-----------------------------------------------------------------------------
(***************************************************************************)
(* What awaits its publication, and the copies of a job.                   *)
(***************************************************************************)
\* The number of jobs handed over is an integer.
LEMMA HandedOverType ==
  ASSUME DeliveryTypeOK
  PROVE  HandedOver \in Int /\ Len(publishing) \in Nat /\ published \in Nat
BY LenProperties DEF DeliveryTypeOK, ProcessTypeOK, HandedOver

\* The first of the publications that are awaited is the next to be handed over.
LEMMA NextPublished ==
  ASSUME DeliveryTypeOK, PublishingFits, PublishAcked \/ PublishFails
  PROVE  /\ Head(publishing) = HandedOver + 1 /\ Head(publishing) \in Jobs
         /\ Len(publishing') = Len(publishing) - 1 /\ Len(publishing') \in Nat
         /\ HandedOver' = HandedOver + 1 /\ published' = published
         /\ \A k \in 1..Len(publishing') : publishing'[k] = publishing[k + 1]
         /\ Unseen(Head(publishing))
<1>1. publishing \in Seq(Jobs) /\ publishing # <<>> /\ publishing' = Tail(publishing)
      /\ published' = published
  BY DEF PublishAcked, PublishFails, Published, DeliveryTypeOK, ProcessTypeOK, user
<1>2. /\ Head(publishing) \in Jobs /\ Len(publishing') = Len(publishing) - 1
      /\ Len(publishing) \in Nat \ {0}
      /\ \A k \in 1..Len(publishing') : publishing'[k] = publishing[k + 1]
  BY <1>1, HeadTailProperties, EmptySeq
<1>3. Head(publishing) = publishing[1]
  BY <1>1
<1>4. publishing[1] = HandedOver + 1
  BY <1>2 DEF PublishingFits
<1>5. HandedOver' = HandedOver + 1
  BY <1>1, <1>2, HandedOverType DEF HandedOver
<1>6. Unseen(Head(publishing))
  BY <1>2, <1>3, <1>4, HandedOverType DEF PublishingFits, Jobs
<1>7. QED
  BY <1>1, <1>2, <1>3, <1>4, <1>5, <1>6

\* In the queue of the process there is at most one more job than before.
LEMMA QueueMoves ==
  ASSUME DeliveryTypeOK, HandFits, PublishingFits, CopiesFit, [Next]_vars
  PROVE  /\ EachOnce(queue')
         /\ \A j \in Jobs : j \in JobsIn(queue') =>
              \/ j \in JobsIn(queue)
              \/ Enqueue /\ j = published'
              \/ PublishFails /\ j = Head(publishing)
              \/ Requeue /\ j = hand.job
<1> USE DEF process, user, broker, results, bounds, around
<1>a. queue \in Seq(QueueItem)
  BY DEF DeliveryTypeOK, ProcessTypeOK, QueueItem
<1>b. 1 \in 1..Retries + 1
  BY BoundsAssumption
<1>c. EachOnce(queue)
  BY DEF CopiesFit
<1>d. ASSUME NEW j \in Jobs, NEW n \in 1..Retries + 1, NEW r, r = Append(queue, <<j, n>>),
             j \notin JobsIn(queue)
      PROVE  JobsIn(r) = JobsIn(queue) \cup {j} /\ EachOnce(r)
  BY <1>a, <1>c, <1>d, LongerQueue
<1>1. CASE Enqueue
  <2>1. published' \in Jobs /\ published' > HandedOver
    BY <1>1, HandedOverType, BoundsAssumption DEF Enqueue, Jobs, HandedOver
  <2>2. published' \notin JobsIn(queue)
    BY <2>1 DEF PublishingFits, Unseen
  <2>3. queue' = queue \/ queue' = Append(queue, <<published', 1>>)
    BY <1>1 DEF Enqueue
  <2>4. QED
    BY <1>1, <1>b, <1>c, <1>d, <2>1, <2>2, <2>3
<1>2. CASE PublishFails
  <2>1. Head(publishing) \in Jobs /\ Head(publishing) \notin JobsIn(queue)
    BY <1>2, NextPublished DEF Unseen
  <2>2. queue' = Append(queue, <<Head(publishing), 1>>)
    BY <1>2 DEF PublishFails
  <2>3. QED
    <3>1. JobsIn(queue') = JobsIn(queue) \cup {Head(publishing)} /\ EachOnce(queue')
      BY <1>b, <1>d, <2>1, <2>2
    <3>2. QED
      BY <1>2, <3>1
<1>3. CASE Requeue
  <2>1. hand.job \in Jobs /\ hand.attempt + 1 \in 1..Retries + 1
    BY <1>3, BoundsAssumption DEF Requeue, HandFits, DeliveryTypeOK, ProcessTypeOK
  <2>2. hand.job \notin JobsIn(queue)
    BY <1>3 DEF Requeue, CopiesFit
  <2>3. queue' = Append(queue, <<hand.job, hand.attempt + 1>>)
    BY <1>3 DEF Requeue
  <2>4. QED
    <3>1. JobsIn(queue') = JobsIn(queue) \cup {hand.job} /\ EachOnce(queue')
      BY <1>d, <2>1, <2>2, <2>3
    <3>2. QED
      BY <1>3, <3>1
<1>4. CASE FetchFromQueue
  BY <1>4, <1>a, <1>c, ShorterQueue DEF FetchFromQueue
<1>5. CASE Crash
  BY <1>5, EmptyQueue DEF Crash
<1>6. CASE ~ (Enqueue \/ PublishFails \/ Requeue \/ FetchFromQueue \/ Crash)
  <2>1. queue' = queue
    BY <1>6 DEF Next, vars, BootJetStream, BootMemory, Boot, PublishAcked, WorkerStarts,
       WorkerSubscribes, WorkerSubscribeFails, WorkerWithoutBroker, WorkerRetires, Retires,
       WorkerTurns, Fetches, FetchFromStream, Fetch, AttemptEnds, AttemptSucceeds, AttemptFails,
       FailsWithin, GiveUp, FailsBeyond, Settle, Answer, Answered, Acknowledge, NegativeAck,
       AnswerLost, Replied, DelayEnds, AckWaitEnds, DueAgain, Unsubscribe, Reply, SwitchSpace,
       WorkerFails, FetchLost, RedriveRaises, AnswerRaises, TaskEnds
  <2>2. QED
    BY <1>c, <2>1
<1>7. QED
  BY <1>1, <1>2, <1>3, <1>4, <1>5, <1>6

\* Only a fetch gives the worker another job.
LEMMA HandMoves ==
  ASSUME DeliveryTypeOK, HandFits, [Next]_vars, hand'.step # "empty"
  PROVE  \/ hand'.job = hand.job /\ hand.step # "empty" /\ UNCHANGED worker
            /\ (hand' = hand \/ AttemptEnds)
         \/ FetchFromQueue /\ hand'.job = Head(queue)[1] /\ hand = EmptyHand
         \/ \E j \in Jobs : FetchFromStream(j) /\ hand'.job = j /\ hand = EmptyHand
<1> USE DEF process, user, broker, results, bounds, around
<1>a. EmptyHand.step = "empty" /\ hand \in [job : Nat, attempt : Nat, step : Steps]
  BY DEF EmptyHand, DeliveryTypeOK, ProcessTypeOK
<1>1. CASE FetchFromQueue
  BY <1>a, <1>1 DEF FetchFromQueue, Take, InHand
<1>2. ASSUME NEW j \in Jobs, FetchFromStream(j) PROVE hand'.job = j /\ hand = EmptyHand
  BY <1>a, <1>2 DEF FetchFromStream, Fetch, Take, InHand
<1>3. CASE AttemptEnds
  BY <1>a, <1>3 DEF AttemptEnds, AttemptSucceeds, AttemptFails, FailsWithin, GiveUp, FailsBeyond,
     Settle, Answer, Attempted
<1>4. CASE ~ (Fetches \/ AttemptEnds)
  <2>1. hand' = EmptyHand \/ (hand' = hand /\ (worker' = worker \/ hand = EmptyHand))
    <3>1. CASE BootJetStream \/ BootMemory
      BY <3>1 DEF BootJetStream, BootMemory, Boot, HandFits
    <3>2. CASE Enqueue
      BY <3>2 DEF Enqueue, HandFits
    <3>3. CASE ~ (BootJetStream \/ BootMemory \/ Enqueue)
      BY <1>4, <3>3 DEF Next, vars, Crash, PublishAcked, PublishFails, Published, WorkerStarts,
         WorkerSubscribes, WorkerSubscribeFails, WorkerWithoutBroker, WorkerRetires, Retires,
         WorkerTurns, Answered, Acknowledge, NegativeAck, AnswerLost, Replied, Requeue,
         DelayEnds, AckWaitEnds, DueAgain, Unsubscribe, HandFits, Reply, SwitchSpace,
         WorkerFails, FetchLost, RedriveRaises, AnswerRaises, TaskEnds
    <3>4. QED
      BY <3>1, <3>2, <3>3
  <2>2. QED
    BY <1>a, <2>1
<1>5. QED
  BY <1>1, <1>2, <1>3, <1>4 DEF Fetches

\* A job that is not in the stream gets there by its publication only, and is
\* counted by the broker only when it is fetched.
LEMMA MailMoves ==
  ASSUME DeliveryTypeOK, HandFits, CopiesFit, [Next]_vars, NEW j \in Jobs, mail[j] = "none",
         ~ ((PublishAcked \/ PublishFails) /\ j = Head(publishing))
  PROVE  mail'[j] = "none" /\ sent'[j] = sent[j] /\ (j \in stored' => j \in stored)
<1> USE DEF process, user, broker, results, bounds, around
<1>a. BrokerTypeOK
  BY DEF DeliveryTypeOK
<1>1. CASE PublishAcked \/ PublishFails
  BY <1>a, <1>1 DEF PublishAcked, PublishFails, Store, BrokerTypeOK
<1>2. ASSUME NEW k \in Jobs, FetchFromStream(k)
      PROVE  mail'[j] = "none" /\ sent'[j] = sent[j] /\ stored' = stored
  <2>1. mail[k] # "none"
    BY <1>2 DEF FetchFromStream, Fetch, NextInStream, Due, New
  <2>2. /\ mail' = [mail EXCEPT ![k] = "out"] /\ sent' = [sent EXCEPT ![k] = @ + 1]
        /\ stored' = stored
    BY <1>2 DEF FetchFromStream, Fetch, Take
  <2>3. QED
    BY <1>a, <2>1, <2>2 DEF BrokerTypeOK
<1>3. CASE Acknowledge \/ NegativeAck
  BY <1>a, <1>3 DEF Acknowledge, NegativeAck, Replied, BrokerTypeOK, CopiesFit, Reply
<1>4. CASE \E k \in Jobs : DelayEnds(k) \/ AckWaitEnds(k)
  BY <1>a, <1>4 DEF DelayEnds, AckWaitEnds, DueAgain, BrokerTypeOK
<1>7. ASSUME NEW k \in Jobs, FetchLost(k)
      PROVE  mail'[j] = "none" /\ sent'[j] = sent[j] /\ stored' = stored
  <2>1. mail[k] # "none"
    BY <1>7 DEF FetchLost, NextInStream, Due, New
  <2>2. /\ mail' = [mail EXCEPT ![k] = "out"] /\ sent' = [sent EXCEPT ![k] = @ + 1]
        /\ stored' = stored
    BY <1>7 DEF FetchLost
  <2>3. QED
    BY <1>a, <2>1, <2>2 DEF BrokerTypeOK
<1>8. CASE AnswerRaises
  BY <1>a, <1>8 DEF AnswerRaises, TaskEnds, Reply, BrokerTypeOK, CopiesFit
<1>5. CASE ~ \/ AnswerRaises \/ PublishAcked \/ PublishFails \/ Acknowledge \/ NegativeAck
             \/ \E k \in Jobs : FetchFromStream(k) \/ FetchLost(k) \/ DelayEnds(k) \/ AckWaitEnds(k)
  BY <1>5 DEF Next, vars, BootJetStream, BootMemory, Boot, Crash, Enqueue, WorkerStarts,
     WorkerSubscribes, WorkerSubscribeFails, WorkerWithoutBroker, WorkerRetires, Retires,
     WorkerTurns, Fetches, FetchFromQueue, Take, AttemptEnds, AttemptSucceeds, AttemptFails,
     FailsWithin, GiveUp, FailsBeyond, Attempted, Answered, AnswerLost, Replied, Requeue,
     Unsubscribe, Reply, SwitchSpace, WorkerFails, FetchLost, RedriveRaises, AnswerRaises,
     TaskEnds
<1>6. QED
  BY <1>1, <1>2, <1>3, <1>4, <1>5, <1>7, <1>8

\* A job comes nearer to its end in the hand of the worker only, or it is dropped
\* when it is fetched.
LEMMA ResultMoves ==
  ASSUME DeliveryTypeOK, HandFits, [Next]_vars, NEW j \in Jobs
  PROVE  \/ /\ done'[j] = done[j] /\ failed'[j] = failed[j] /\ dead'[j] = dead[j]
            /\ j \in dropped' <=> j \in dropped
         \/ AttemptEnds /\ Holding(j)
         \/ WorkerFails /\ Holding(j) /\ done'[j] = done[j] /\ dead'[j] = dead[j]
         \/ FetchFromStream(j)
         \/ FetchFromQueue /\ j = Head(queue)[1]
<1> USE DEF process, user, broker, results, bounds, around
<1>a. ResultsTypeOK
  BY DEF DeliveryTypeOK
<1>1. CASE AttemptEnds
  <2>1. hand.job \in Jobs /\ hand.step # "empty" /\ dropped' = dropped
    BY <1>1 DEF AttemptEnds, AttemptSucceeds, AttemptFails, FailsWithin, GiveUp, FailsBeyond,
       Attempted, HandFits
  <2>2. j # hand.job => done'[j] = done[j] /\ failed'[j] = failed[j] /\ dead'[j] = dead[j]
    BY <1>a, <1>1, <2>1 DEF AttemptEnds, AttemptSucceeds, AttemptFails, FailsWithin, GiveUp,
       FailsBeyond, ResultsTypeOK
  <2>3. QED
    BY <1>1, <2>1, <2>2 DEF Holding
<1>2. CASE Fetches
  BY <1>2 DEF Fetches, FetchFromQueue, FetchFromStream, Fetch, Take
<1>5. CASE WorkerFails
  <2>1. failed' = failed \/ (Holding(hand.job) /\ failed' = [failed EXCEPT ![hand.job] = @ + 1])
    BY <1>5 DEF WorkerFails, FetchLost, RedriveRaises, AnswerRaises, Holding
  <2>2. UNCHANGED <<done, dead, dropped>>
    BY <1>5, WorkerFailures
  <2>3. QED
    BY <1>a, <1>5, <2>1, <2>2 DEF ResultsTypeOK, Holding
<1>3. CASE ~ (AttemptEnds \/ Fetches \/ WorkerFails)
  BY <1>3 DEF Next, vars, BootJetStream, BootMemory, Boot, Crash, Enqueue, PublishAcked,
     PublishFails, Published, WorkerStarts, WorkerSubscribes, WorkerSubscribeFails,
     WorkerWithoutBroker, WorkerRetires, Retires, WorkerTurns, Answered, Acknowledge,
     NegativeAck, AnswerLost, Replied, Requeue, DelayEnds, AckWaitEnds, DueAgain, Unsubscribe,
     Reply, SwitchSpace, WorkerFails, FetchLost, RedriveRaises, AnswerRaises, TaskEnds
<1>4. QED
  BY <1>1, <1>2, <1>3, <1>5

\* What is read from the queue, and what is read from the stream, was there.
LEMMA FetchedFromQueue ==
  ASSUME DeliveryTypeOK, FetchFromQueue
  PROVE  /\ Len(queue) > 0 /\ Head(queue) = queue[1]
         /\ queue[1][1] \in Jobs /\ queue[1][2] \in 1..Retries + 1
         /\ queue[1][1] \in JobsIn(queue)
<1>1. queue \in Seq(QueueItem) /\ queue # <<>>
  BY DEF DeliveryTypeOK, ProcessTypeOK, QueueItem, FetchFromQueue
<1>2. QED
  BY <1>1, ShorterQueue DEF QueueItem

\* A fetch takes a job that is available at the broker.
LEMMA FetchedFromStream ==
  ASSUME NEW j \in Jobs, FetchFromStream(j)
  PROVE  mail[j] \in {"new", "again"}
BY DEF FetchFromStream, Fetch, NextInStream, Due, New

\* Publications stay in order, and nobody has seen a job not handed over yet.
LEMMA PublishingStep ==
  ASSUME DeliveryTypeOK, HandFits, PublishingFits, CopiesFit, [Next]_vars
  PROVE  PublishingFits'
<1> USE DEF process, user, broker, results, bounds, around
<1>a. HandedOver \in Int /\ HandedOver >= 0 /\ Len(publishing) \in Nat /\ published \in Nat
  BY HandedOverType DEF PublishingFits
<1>b. Len(<<>>) = 0
  BY EmptySeq
\* The sequence.
<1>1. /\ HandedOver' \in Int /\ HandedOver' >= HandedOver
      /\ \A k \in 1..Len(publishing') : publishing'[k] = HandedOver' + k
      /\ PublishAcked \/ PublishFails => HandedOver' = Head(publishing)
      /\ Enqueue => published' <= HandedOver' \/ queue' = queue
  <2>1. CASE Enqueue
    <3>1. published' = published + 1
      BY <2>1 DEF Enqueue
    <3>2. CASE mode = "jetstream"
      <4>1. publishing \in Seq(Jobs) /\ published' \in Jobs
        BY <2>1, <3>1, <1>a, BoundsAssumption
           DEF Enqueue, DeliveryTypeOK, ProcessTypeOK, Jobs
      <4>2. publishing' = Append(publishing, published') /\ queue' = queue
        BY <2>1, <3>2 DEF Enqueue
      <4>3. /\ Len(publishing') = Len(publishing) + 1
            /\ \A k \in 1..Len(publishing) : publishing'[k] = publishing[k]
            /\ publishing'[Len(publishing) + 1] = published'
        BY <4>1, <4>2, AppendProperties
      <4>4. HandedOver' = HandedOver
        BY <1>a, <3>1, <4>3 DEF HandedOver
      <4>5. \A k \in 1..Len(publishing') : publishing'[k] = HandedOver + k
        BY <1>a, <3>1, <4>3 DEF PublishingFits, HandedOver
      <4>6. ~ (PublishAcked \/ PublishFails)
        BY <1>a, <2>1, <3>1 DEF PublishAcked, PublishFails, Published, Enqueue
      <4>7. QED
        BY <1>a, <4>2, <4>4, <4>5, <4>6
    <3>3. CASE mode # "jetstream"
      <4>1. publishing = <<>> /\ publishing' = <<>>
        BY <2>1, <3>3 DEF Enqueue, HandFits
      <4>2. HandedOver = published /\ HandedOver' = published'
        BY <1>a, <1>b, <3>1, <4>1 DEF HandedOver
      <4>3. ~ (PublishAcked \/ PublishFails)
        BY <4>1 DEF PublishAcked, PublishFails, Published
      <4>4. QED
        BY <1>a, <1>b, <3>1, <4>1, <4>2, <4>3
    <3>4. QED
      BY <3>2, <3>3
  <2>2. CASE PublishAcked \/ PublishFails
    <3>1. ~Enqueue
      BY <2>2, <1>a DEF PublishAcked, PublishFails, Published, Enqueue
    <3>2. /\ HandedOver' = HandedOver + 1 /\ Head(publishing) = HandedOver + 1
          /\ Len(publishing') = Len(publishing) - 1 /\ Len(publishing') \in Nat
          /\ \A k \in 1..Len(publishing') : publishing'[k] = publishing[k + 1]
      BY <2>2, NextPublished
    <3>3. \A k \in 1..Len(publishing') : publishing'[k] = HandedOver + (k + 1)
      BY <1>a, <3>2 DEF PublishingFits
    <3>4. QED
      BY <1>a, <3>1, <3>2, <3>3
  <2>3. CASE Crash
    <3>1. publishing' = <<>> /\ published' = published
      BY <2>3 DEF Crash
    <3>2. HandedOver' = published /\ published >= HandedOver
      BY <1>a, <1>b, <3>1 DEF HandedOver
    <3>3. ~Enqueue /\ ~ (PublishAcked \/ PublishFails)
      BY <1>a, <2>3 DEF PublishAcked, PublishFails, Published, Enqueue, Crash, Up
    <3>4. QED
      BY <1>a, <1>b, <3>1, <3>2, <3>3
  <2>4. CASE ~ (Enqueue \/ PublishAcked \/ PublishFails \/ Crash)
    <3>1. UNCHANGED <<published, publishing>>
      BY <2>4 DEF Next, vars, BootJetStream, BootMemory, Boot, WorkerStarts, WorkerSubscribes,
         WorkerSubscribeFails, WorkerWithoutBroker, WorkerRetires, Retires, WorkerTurns,
         Fetches, FetchFromQueue, FetchFromStream, Fetch, Take, AttemptEnds, AttemptSucceeds,
         AttemptFails, FailsWithin, GiveUp, FailsBeyond, Attempted, Answered, Acknowledge,
         NegativeAck, AnswerLost, Replied, Requeue, DelayEnds, AckWaitEnds, DueAgain,
         Unsubscribe, Reply, SwitchSpace, WorkerFails, FetchLost, RedriveRaises, AnswerRaises,
         TaskEnds
    <3>2. HandedOver' = HandedOver
      BY <3>1 DEF HandedOver
    <3>3. QED
      BY <1>a, <2>4, <3>1, <3>2 DEF PublishingFits
  <2>5. QED
    BY <2>1, <2>2, <2>3, <2>4
\* The jobs in it.
<1>2. ASSUME NEW j \in Jobs, j > HandedOver' PROVE Unseen(j)'
  <2>1. Unseen(j) /\ j \in Int
    BY <1>a, <1>1, <1>2 DEF PublishingFits, Jobs
  <2>2. ~ ((PublishAcked \/ PublishFails) /\ j = Head(publishing))
    BY <1>1, <1>2, <2>1
  <2>3. mail'[j] = "none" /\ sent'[j] = 0 /\ j \notin stored'
    BY <2>1, <2>2, MailMoves DEF Unseen
  <2>4. ~FetchFromStream(j) /\ ~ (FetchFromQueue /\ j = Head(queue)[1])
    BY <2>1, FetchedFromStream, FetchedFromQueue DEF Unseen
  <2>5. done'[j] = 0 /\ failed'[j] = 0 /\ dead'[j] = 0 /\ j \notin dropped'
    BY <2>1, <2>4, ResultMoves DEF Unseen
  <2>6. ~Holding(j)'
    BY <2>1, <2>4, HandMoves DEF Unseen, Holding
  <2>7. j \notin JobsIn(queue')
    <3>1. ~ (Requeue /\ j = hand.job)
      BY <2>1 DEF Unseen, Holding, Requeue
    <3>2. ASSUME Enqueue, j = published' PROVE j \notin JobsIn(queue')
      BY <1>1, <1>2, <2>1, <3>2 DEF Unseen
    <3>3. QED
      BY <2>1, <2>2, <3>1, <3>2, QueueMoves DEF Unseen
  <2>8. QED
    BY <2>3, <2>5, <2>6, <2>7 DEF Unseen
<1>3. QED
  BY <1>a, <1>1, <1>2 DEF PublishingFits

\* A job stays in the process once, and one taken from the stream stays there.
LEMMA CopiesStep ==
  ASSUME DeliveryTypeOK, HandFits, PublishingFits, CopiesFit, [Next]_vars
  PROVE  CopiesFit'
<1> USE DEF process, user, broker, results, bounds, around
<1>a. BrokerTypeOK
  BY DEF DeliveryTypeOK
<1>b. PublishAcked \/ PublishFails => Head(publishing) \in Jobs /\ Unseen(Head(publishing))
  BY NextPublished
<1>c. Enqueue => published' \in Jobs /\ Unseen(published')
  <2>1. Enqueue => published' \in Jobs /\ published' > HandedOver
    BY HandedOverType, BoundsAssumption DEF Enqueue, Jobs, HandedOver
  <2>2. QED
    BY <2>1 DEF PublishingFits
<1>1. EachOnce(queue')
  BY QueueMoves
<1>2. ASSUME worker' = "queue", hand'.step # "empty" PROVE hand'.job \notin JobsIn(queue')
  <2>1. CASE FetchFromQueue
    <3>1. hand'.job = queue[1][1]
      BY <1>2, <2>1, HandMoves, FetchedFromQueue DEF FetchFromQueue, FetchFromStream, Fetch,
         Take, EmptyHand
    <3>2. queue \in Seq(QueueItem) /\ queue # <<>> /\ queue' = Tail(queue) /\ EachOnce(queue)
      BY <2>1 DEF FetchFromQueue, DeliveryTypeOK, ProcessTypeOK, QueueItem, CopiesFit
    <3>3. QED
      BY <3>1, <3>2, ShorterQueue
  <2>2. CASE ~FetchFromQueue
    <3>1. ASSUME NEW j \in Jobs, FetchFromStream(j) PROVE FALSE
      BY <1>2, <3>1 DEF FetchFromStream, Fetch, Take
    <3>2. hand'.job = hand.job /\ hand.step # "empty" /\ worker = "queue"
      BY <1>2, <2>2, <3>1, HandMoves
    <3>3. hand.job \in Jobs /\ hand.job \notin JobsIn(queue)
      BY <3>2 DEF HandFits, CopiesFit
    <3>4. ~Requeue
      BY <1>2 DEF Requeue, EmptyHand
    <3>5. ~ (Enqueue /\ hand.job = published') /\ ~ (PublishFails /\ hand.job = Head(publishing))
      BY <1>b, <1>c, <3>2 DEF Unseen, Holding
    <3>6. QED
      BY <3>2, <3>3, <3>4, <3>5, QueueMoves
  <2>3. QED
    BY <2>1, <2>2
<1>3. ASSUME worker' = "stream", hand'.step # "empty" PROVE mail'[hand'.job] = "out"
  <2>1. ASSUME NEW j \in Jobs, FetchFromStream(j), hand'.job = j PROVE mail'[hand'.job] = "out"
    BY <1>a, <2>1 DEF FetchFromStream, Fetch, BrokerTypeOK
  <2>2. ~FetchFromQueue
    BY <1>3 DEF FetchFromQueue, Take
  <2>3. ASSUME hand'.job = hand.job, hand.step # "empty", worker = "stream",
               hand' = hand \/ AttemptEnds
        PROVE  mail'[hand'.job] = "out"
    <3>1. hand.job \in Jobs /\ mail[hand.job] = "out"
      BY <2>3 DEF HandFits, CopiesFit
    <3>2. CASE PublishAcked \/ PublishFails
      BY <1>a, <1>b, <2>3, <3>1, <3>2 DEF PublishAcked, PublishFails, Store, Unseen, Holding,
         BrokerTypeOK
    <3>3. CASE \E j \in Jobs : FetchFromStream(j)
      BY <2>3, <3>3 DEF FetchFromStream, Fetch, Take, EmptyHand
    <3>4. CASE Acknowledge \/ NegativeAck
      BY <1>3, <3>4 DEF Acknowledge, NegativeAck, Replied, EmptyHand, Reply
    <3>5. ASSUME NEW j \in Jobs, DelayEnds(j) \/ AckWaitEnds(j) PROVE mail'[hand'.job] = "out"
      BY <1>a, <2>3, <3>1, <3>5 DEF DelayEnds, AckWaitEnds, DueAgain, BrokerTypeOK
    <3>8. ~WorkerFails
      BY <1>3, <2>3, WorkerFailures DEF EmptyHand
    <3>6. CASE ~ \/ PublishAcked \/ PublishFails \/ Acknowledge \/ NegativeAck
                 \/ \E k \in Jobs : FetchFromStream(k) \/ DelayEnds(k) \/ AckWaitEnds(k)
      <4>1. mail' = mail
        BY <3>6, <3>8 DEF Next, vars, BootJetStream, BootMemory, Boot, Crash, Enqueue, WorkerStarts,
           WorkerSubscribes, WorkerSubscribeFails, WorkerWithoutBroker, WorkerRetires, Retires,
           WorkerTurns, Fetches, FetchFromQueue, Take, AttemptEnds, AttemptSucceeds,
           AttemptFails, FailsWithin, GiveUp, FailsBeyond, Attempted, Answered, AnswerLost,
           Replied, Requeue, Unsubscribe, Reply, SwitchSpace, WorkerFails, FetchLost,
           RedriveRaises, AnswerRaises, TaskEnds
      <4>2. QED
        BY <2>3, <3>1, <4>1
    <3>7. QED
      BY <3>2, <3>3, <3>4, <3>5, <3>6
  <2>4. QED
    BY <1>3, <2>1, <2>2, <2>3, HandMoves
<1>4. QED
  BY <1>1, <1>2, <1>3 DEF CopiesFit

-----------------------------------------------------------------------------
(***************************************************************************)
(* The ends a job may still come to.                                       *)
(***************************************************************************)
\* The counts of a job's copies are zero or one.
LEMMA CountTypes ==
  ASSUME NEW j \in Jobs
  PROVE  AtBroker(j) \in {0, 1} /\ InProcess(j) \in {0, 1}
BY DEF AtBroker, InProcess

\* Where a job may be found in the process, unless it was handed over just now.
LEMMA InProcessShrinks ==
  ASSUME DeliveryTypeOK, HandFits, PublishingFits, CopiesFit, [Next]_vars, NEW j \in Jobs,
         ~ (Enqueue /\ j = published'), ~ (PublishFails /\ j = Head(publishing)),
         InProcess(j)' = 1
  PROVE  InProcess(j) = 1
<1> USE DEF process, user, broker, results, bounds, around
<1>1. CASE j \in JobsIn(queue')
  <2>1. j \in JobsIn(queue) \/ (Requeue /\ j = hand.job)
    BY <1>1, QueueMoves
  <2>2. QED
    BY <2>1 DEF InProcess, Requeue, Holding
<1>2. CASE worker' = "queue" /\ hand'.step # "empty" /\ hand'.job = j
  <2>1. CASE FetchFromQueue /\ j = Head(queue)[1]
    BY <2>1, FetchedFromQueue DEF InProcess
  <2>2. ASSUME NEW k \in Jobs, FetchFromStream(k) PROVE FALSE
    BY <1>2, <2>2 DEF FetchFromStream, Fetch, Take
  <2>3. CASE hand'.job = hand.job /\ hand.step # "empty" /\ UNCHANGED worker
    BY <1>2, <2>3 DEF InProcess, Holding
  <2>4. QED
    BY <1>2, <2>1, <2>2, <2>3, HandMoves
<1>3. QED
  BY <1>1, <1>2 DEF InProcess, Holding

\* A job that is not in the stream any more comes back only with a new life of the
\* process, or because its acknowledgement was lost.
LEMMA AtBrokerShrinks ==
  ASSUME DeliveryTypeOK, HandFits, PublishingFits, CopiesFit, [Next]_vars, NEW j \in Jobs,
         ~ ((PublishAcked \/ PublishFails) /\ j = Head(publishing)),
         AtBroker(j)' = 1
  PROVE  AtBroker(j) = 1 \/ Crash \/ AnswerLost \/ WorkerFails
<1> USE DEF process, user, broker, results, bounds, around
<1>1. mail[j] # "none"
  BY MailMoves DEF AtBroker, InStream
<1>2. SUFFICES ASSUME worker = "stream", hand.step = "ack", hand.job = j, ~Crash, ~AnswerLost,
                      ~WorkerFails
               PROVE  FALSE
  BY <1>1 DEF AtBroker, InStream
<1>3. CASE Acknowledge
  BY <1>2, <1>3 DEF Acknowledge, Replied, AtBroker, InStream, DeliveryTypeOK, BrokerTypeOK,
     Reply
<1>4. CASE ~Acknowledge
  <2>1. hand' = hand /\ worker' = worker
    BY <1>2, <1>4 DEF Next, vars, Crash, Enqueue, BootJetStream, BootMemory, Boot, PublishAcked,
       PublishFails, Published, WorkerStarts, WorkerSubscribes, WorkerSubscribeFails,
       WorkerWithoutBroker, WorkerRetires, Retires, WorkerTurns, Fetches, FetchFromQueue,
       FetchFromStream, Fetch, Take, EmptyHand, AttemptEnds, AttemptSucceeds, AttemptFails,
       FailsWithin, GiveUp, FailsBeyond, Attempted, Answered, NegativeAck, Replied, Requeue,
       DelayEnds, AckWaitEnds, DueAgain, Unsubscribe, HandFits, Reply, SwitchSpace, WorkerFails,
       FetchLost, RedriveRaises, AnswerRaises, TaskEnds
  <2>2. QED
    BY <1>2, <2>1 DEF AtBroker
<1>5. QED
  BY <1>3, <1>4

\* Crashes and faults are counted.
LEMMA BoundsGrow ==
  ASSUME DeliveryTypeOK, HandFits, [Next]_vars
  PROVE  /\ crashes \in Nat /\ faults \in Nat /\ crashes' \in Nat /\ faults' \in Nat
         /\ crashes' >= crashes /\ faults' >= faults
<1> USE DEF process, user, broker, results, bounds, around
<1>a. crashes \in Nat /\ faults \in Nat
  BY BoundsAssumption DEF DeliveryTypeOK, BoundsTypeOK
<1>b. crashes' \in Nat /\ faults' \in Nat
  BY OtherTypes, BoundsAssumption DEF BoundsTypeOK
<1>c. crashes' >= crashes /\ faults' >= faults
  <2>1. CASE Fault
    BY <1>a, <2>1 DEF Fault, Crash
  <2>2. CASE Crash
    BY <1>a, <2>2 DEF Crash
  <2>3. CASE UNCHANGED bounds
    BY <1>a, <2>3
  <2>4. Fault \/ Crash \/ UNCHANGED bounds
    BY DEF Next, vars, BootJetStream, BootMemory, Enqueue, PublishAcked, PublishFails,
       WorkerStarts, WorkerSubscribes, WorkerSubscribeFails, WorkerWithoutBroker, WorkerRetires,
       Retires, Fetches, FetchFromQueue, FetchFromStream, Fetch, Take, AttemptEnds,
       AttemptSucceeds, AttemptFails, FailsWithin, GiveUp, FailsBeyond, Attempted, Answered,
       Acknowledge, NegativeAck, AnswerLost, Replied, Requeue, DelayEnds, AckWaitEnds, DueAgain,
       Unsubscribe, Reply, SwitchSpace, WorkerFails, FetchLost, RedriveRaises, AnswerRaises,
       TaskEnds
  <2>5. QED
    BY <2>1, <2>2, <2>3, <2>4
<1>d. QED
  BY <1>a, <1>b, <1>c

\* The copies and the ends of a job stay within what crashes and faults explain.
LEMMA EndsStep ==
  ASSUME DeliveryTypeOK, HandFits, PublishingFits, CopiesFit, EndsFit, [Next]_vars
  PROVE  EndsFit'
<1> USE DEF process, user, broker, results, bounds, around
<1>a. /\ crashes \in Nat /\ faults \in Nat /\ crashes' \in Nat /\ faults' \in Nat
      /\ crashes' >= crashes /\ faults' >= faults
  BY BoundsGrow
<1>d. ASSUME Crash \/ AnswerLost \/ WorkerFails \/ PublishFails
      PROVE  \/ crashes' = crashes + 1 /\ faults' = faults
             \/ faults' = faults + 1 /\ crashes' = crashes
  BY <1>d, WorkerFailures DEF Crash, AnswerLost, PublishFails, Fault
<1>1. ASSUME NEW j \in Jobs
      PROVE  done'[j] + dead'[j] + AtBroker(j)' + InProcess(j)' <= 1 + crashes' + faults'
  <2>a. /\ done[j] \in Nat /\ dead[j] \in Nat /\ done'[j] \in Nat /\ dead'[j] \in Nat
        /\ AtBroker(j) \in {0, 1} /\ InProcess(j) \in {0, 1}
        /\ AtBroker(j)' \in {0, 1} /\ InProcess(j)' \in {0, 1}
        /\ done[j] + dead[j] + AtBroker(j) + InProcess(j) <= 1 + crashes + faults
    BY EndsStay, CountTypes DEF EndsFit, AtBroker, InProcess
  <2>b. j \in Int
    BY DEF Jobs
\* A job that is handed over has come to no end yet.
  <2>1. ASSUME Unseen(j), ~FetchFromStream(j), ~ (FetchFromQueue /\ j = Head(queue)[1])
        PROVE  done'[j] = 0 /\ dead'[j] = 0
    BY <2>1, ResultMoves DEF Unseen
  <2>2. ASSUME Unseen(j) PROVE ~FetchFromStream(j) /\ ~ (FetchFromQueue /\ j = Head(queue)[1])
    BY <2>2, FetchedFromStream, FetchedFromQueue DEF Unseen
  <2>3. CASE PublishFails /\ j = Head(publishing)
    <3>1. Unseen(j)
      BY <2>3, NextPublished
    <3>2. done'[j] = 0 /\ dead'[j] = 0
      BY <2>1, <2>2, <3>1
    <3>3. \/ crashes' = crashes + 1 /\ faults' = faults
          \/ faults' = faults + 1 /\ crashes' = crashes
      BY <1>d, <2>3
    <3>4. QED
      BY <1>a, <2>a, <3>2, <3>3
  <2>4. CASE ~PublishFails /\ PublishAcked /\ j = Head(publishing)
    <3>1. Unseen(j)
      BY <2>4, NextPublished
    <3>2. ~Enqueue
      BY <2>4, HandedOverType DEF PublishAcked, Published, Enqueue
    <3>3. InProcess(j)' = 0
      BY <2>a, <2>4, <3>1, <3>2, InProcessShrinks DEF Unseen, InProcess
    <3>4. done'[j] = 0 /\ dead'[j] = 0
      BY <2>1, <2>2, <3>1
    <3>5. QED
      BY <1>a, <2>a, <3>3, <3>4
  <2>5. CASE Enqueue /\ j = published'
    <3>1. Unseen(j)
      BY <2>5, HandedOverType DEF Enqueue, PublishingFits, HandedOver
    <3>2. mail' = mail
      BY <2>5 DEF Enqueue
    <3>3. AtBroker(j)' = 0
      BY <3>1, <3>2 DEF AtBroker, InStream, Unseen
    <3>4. done'[j] = 0 /\ dead'[j] = 0
      BY <2>1, <2>2, <3>1
    <3>5. QED
      BY <1>a, <2>a, <3>3, <3>4
\* All others: no copy is made, and an end uses one up.
  <2>6. CASE /\ ~ ((PublishAcked \/ PublishFails) /\ j = Head(publishing))
             /\ ~ (Enqueue /\ j = published')
    <3>1. InProcess(j)' <= InProcess(j)
      BY <2>a, <2>6, InProcessShrinks
    <3>2. AtBroker(j)' <= AtBroker(j) \/ Crash \/ AnswerLost \/ WorkerFails
      BY <2>a, <2>6, AtBrokerShrinks
    <3>3. CASE AttemptEnds /\ Holding(j)
      <4>1. UNCHANGED <<worker, mail, queue, bounds>>
        BY <3>3 DEF AttemptEnds, AttemptSucceeds, AttemptFails, FailsWithin, GiveUp, FailsBeyond,
           Attempted, Settle, Answer
      <4>2. hand.step = "attempt" /\ hand.job = j
        BY <3>3 DEF AttemptEnds, AttemptSucceeds, AttemptFails, FailsWithin, GiveUp, FailsBeyond,
           Attempted, Holding
      <4>3. CASE AttemptFails
        <5>1. done' = done /\ dead' = dead
          BY <4>3 DEF AttemptFails, FailsWithin
        <5>2. ~Crash /\ ~AnswerLost /\ ~WorkerFails
          BY <4>2, <4>1, <1>a, <4>3, WorkerFailures DEF Crash, AnswerLost, Fault
        <5>3. QED
          BY <1>a, <2>a, <3>1, <3>2, <4>1, <5>1, <5>2
      <4>4. CASE AttemptSucceeds \/ GiveUp
        <5>1. Settle /\ done'[j] + dead'[j] = done[j] + dead[j] + 1
          BY <2>a, <4>2, <4>4 DEF AttemptSucceeds, GiveUp, FailsBeyond, DeliveryTypeOK,
             ResultsTypeOK
        <5>2. CASE worker = "stream"
          <6>1. mail[j] = "out" /\ AtBroker(j) = 1
            BY <4>2, <5>2 DEF CopiesFit, AtBroker, InStream
          <6>2. hand'.step = "ack" /\ hand'.job = j
            BY <4>2, <5>1, <5>2 DEF Settle, Answer, DeliveryTypeOK, ProcessTypeOK
          <6>3. AtBroker(j)' = 0
            BY <4>1, <5>2, <6>2 DEF AtBroker
          <6>4. QED
            BY <1>a, <2>a, <3>1, <4>1, <5>1, <6>1, <6>3
        <5>3. CASE worker # "stream"
          <6>1. worker = "queue" /\ InProcess(j) = 1 /\ j \notin JobsIn(queue)
            BY <4>2, <5>3 DEF HandFits, CopiesFit, InProcess, Holding
          <6>2. hand' = EmptyHand
            BY <5>1, <5>3 DEF Settle
          <6>3. InProcess(j)' = 0 /\ AtBroker(j)' = AtBroker(j)
            BY <4>1, <4>2, <6>1, <6>2 DEF InProcess, Holding, AtBroker, InStream, EmptyHand
          <6>4. QED
            BY <1>a, <2>a, <4>1, <5>1, <6>1, <6>3
        <5>4. QED
          BY <5>2, <5>3
      <4>5. QED
        BY <3>3, <4>3, <4>4 DEF AttemptEnds
    <3>4. CASE ~ (AttemptEnds /\ Holding(j))
      <4>1. done'[j] = done[j] /\ dead'[j] = dead[j]
        BY <3>4, ResultMoves DEF FetchFromStream, FetchFromQueue, Fetch, Take
      <4>2. QED
        <5>1. CASE Crash \/ AnswerLost \/ WorkerFails
          <6>1. \/ crashes' = crashes + 1 /\ faults' = faults
                \/ faults' = faults + 1 /\ crashes' = crashes
            BY <1>d, <5>1
          <6>2. AtBroker(j)' <= AtBroker(j) + 1
            BY <2>a
          <6>3. QED
            BY <1>a, <2>a, <3>1, <4>1, <6>1, <6>2
        <5>2. CASE AtBroker(j)' <= AtBroker(j)
          BY <1>a, <2>a, <3>1, <4>1, <5>2
        <5>3. QED
          BY <3>2, <5>1, <5>2
    <3>5. QED
      BY <3>3, <3>4
  <2>7. QED
    BY <2>3, <2>4, <2>5, <2>6
<1>2. QED
  BY <1>1 DEF EndsFit

-----------------------------------------------------------------------------
(***************************************************************************)
(* The attempts that were made.                                            *)
(***************************************************************************)
\* Every item of the queue was there, begins, or was put back by the worker.
LEMMA ItemsMove ==
  ASSUME DeliveryTypeOK, HandFits, PublishingFits, [Next]_vars, NEW i \in 1..Len(queue')
  PROVE  /\ queue'[i][1] \in Jobs
         /\ \/ \E k \in 1..Len(queue) : queue'[i] = queue[k]
            \/ queue'[i][2] = 1
            \/ Requeue /\ queue'[i] = <<hand.job, hand.attempt + 1>>
<1> USE DEF process, user, broker, results, bounds, around
<1>a. queue \in Seq(QueueItem) /\ 1 \in 1..Retries + 1 /\ Len(queue) \in Nat
  BY BoundsAssumption, LenProperties DEF DeliveryTypeOK, ProcessTypeOK, QueueItem
<1>1. queue'[i][1] \in Jobs
  <2>1. queue' \in Seq(QueueItem)
    BY ProcessTypes DEF ProcessTypeOK, QueueItem
  <2>2. queue'[i] \in QueueItem
    BY <2>1, ElementOfSeq
  <2>3. QED
    BY <2>2 DEF QueueItem
<1>2. ASSUME NEW j \in Jobs, NEW n \in 1..Retries + 1, queue' = Append(queue, <<j, n>>)
      PROVE  (\E k \in 1..Len(queue) : queue'[i] = queue[k]) \/ queue'[i] = <<j, n>>
  <2>1. /\ Len(queue') = Len(queue) + 1
        /\ \A k \in 1..Len(queue) : queue'[k] = queue[k]
        /\ queue'[Len(queue')] = <<j, n>>
    BY <1>a, <1>2, LongerQueue
  <2>2. i \in 1..Len(queue) \/ i = Len(queue')
    BY <1>a, <2>1
  <2>3. QED
    BY <2>1, <2>2
<1>3. CASE Enqueue
  <2>1. published' \in Jobs
    BY <1>3, HandedOverType, BoundsAssumption DEF Enqueue, Jobs
  <2>2. queue' = queue \/ queue' = Append(queue, <<published', 1>>)
    BY <1>3 DEF Enqueue
  <2>3. QED
    BY <1>1, <1>2, <1>a, <2>1, <2>2
<1>4. CASE PublishFails
  <2>1. Head(publishing) \in Jobs /\ queue' = Append(queue, <<Head(publishing), 1>>)
    BY <1>4, NextPublished DEF PublishFails
  <2>2. (\E k \in 1..Len(queue) : queue'[i] = queue[k]) \/ queue'[i] = <<Head(publishing), 1>>
    BY <1>2, <1>a, <2>1
  <2>3. QED
    BY <1>1, <2>2
<1>5. CASE Requeue
  <2>1. hand.job \in Jobs /\ hand.attempt + 1 \in 1..Retries + 1
    BY <1>5, BoundsAssumption DEF Requeue, HandFits, DeliveryTypeOK, ProcessTypeOK
  <2>2. queue' = Append(queue, <<hand.job, hand.attempt + 1>>)
    BY <1>5 DEF Requeue
  <2>3. (\E k \in 1..Len(queue) : queue'[i] = queue[k])
        \/ queue'[i] = <<hand.job, hand.attempt + 1>>
    BY <1>2, <2>1, <2>2
  <2>4. QED
    BY <1>1, <1>5, <2>3
<1>6. CASE FetchFromQueue
  <2>1. queue # <<>> /\ queue' = Tail(queue)
    BY <1>6 DEF FetchFromQueue
  <2>2. i + 1 \in 1..Len(queue) /\ queue'[i] = queue[i + 1]
    BY <1>a, <2>1, ShorterQueue
  <2>3. QED
    BY <1>1, <2>2
<1>7. CASE Crash
  BY <1>7, EmptySeq DEF Crash
<1>8. CASE ~ (Enqueue \/ PublishFails \/ Requeue \/ FetchFromQueue \/ Crash)
  <2>1. queue' = queue
    BY <1>8 DEF Next, vars, BootJetStream, BootMemory, Boot, PublishAcked, WorkerStarts,
       WorkerSubscribes, WorkerSubscribeFails, WorkerWithoutBroker, WorkerRetires, Retires,
       WorkerTurns, Fetches, FetchFromStream, Fetch, AttemptEnds, AttemptSucceeds, AttemptFails,
       FailsWithin, GiveUp, FailsBeyond, Settle, Answer, Answered, Acknowledge, NegativeAck,
       AnswerLost, Replied, DelayEnds, AckWaitEnds, DueAgain, Unsubscribe, Reply, SwitchSpace,
       WorkerFails, FetchLost, RedriveRaises, AnswerRaises, TaskEnds
  <2>2. QED
    BY <1>1, <2>1
<1>9. QED
  BY <1>3, <1>4, <1>5, <1>6, <1>7, <1>8

\* The number an attempt bears stays within the attempts made and the crashes.
LEMMA AttemptsStep ==
  ASSUME DeliveryTypeOK, HandFits, PublishingFits, CopiesFit, AttemptsFit, [Next]_vars
  PROVE  AttemptsFit'
<1> USE DEF process, user, broker, results, bounds, around
<1>a. /\ crashes \in Nat /\ crashes' \in Nat /\ crashes' >= crashes
      /\ faults \in Nat /\ faults' \in Nat /\ faults' >= faults
  BY BoundsGrow
<1>b. ASSUME NEW j \in Jobs
      PROVE  Attempts(j) \in Nat /\ Attempts(j)' \in Nat /\ Attempts(j)' >= Attempts(j)
  <2>1. /\ done[j] \in Nat /\ failed[j] \in Nat /\ done'[j] \in Nat /\ failed'[j] \in Nat
        /\ done'[j] >= done[j] /\ failed'[j] >= failed[j]
    BY EndsStay
  <2>2. QED
    BY <1>a, <2>1 DEF Attempts
<1>c. ASSUME AttemptEnds
      PROVE  /\ hand.step = "attempt" /\ hand.job \in Jobs
             /\ \A j \in Jobs : hand.job = j => Attempts(j)' = Attempts(j) + 1
             /\ UNCHANGED <<sent, mail>>
  <2>1. /\ hand.step = "attempt" /\ hand.job \in Jobs
        /\ UNCHANGED <<sent, mail, crashes, faults>>
    BY <1>c DEF AttemptEnds, AttemptSucceeds, AttemptFails, FailsWithin, GiveUp, FailsBeyond,
       Attempted, HandFits
  <2>2. ASSUME NEW j \in Jobs, hand.job = j PROVE Attempts(j)' = Attempts(j) + 1
    <3>1. done[j] \in Nat /\ failed[j] \in Nat
      BY EndsStay
    <3>2. \/ done'[j] = done[j] + 1 /\ failed'[j] = failed[j]
          \/ failed'[j] = failed[j] + 1 /\ done'[j] = done[j]
      BY <1>c, <2>1, <2>2 DEF AttemptEnds, AttemptSucceeds, AttemptFails, FailsWithin, GiveUp,
         FailsBeyond, DeliveryTypeOK, ResultsTypeOK
    <3>3. QED
      BY <1>a, <2>1, <3>1, <3>2 DEF Attempts
  <2>3. QED
    BY <2>1, <2>2
<1>d. hand \in [job : Nat, attempt : Nat, step : Steps]
  BY DEF DeliveryTypeOK, ProcessTypeOK
\* The queue.
<1>1. ASSUME NEW i \in 1..Len(queue') PROVE queue'[i][2] <= Attempts(queue[i][1])' + 1
  <2>1. PICK j \in Jobs : queue'[i][1] = j
    BY ItemsMove
  <2>2. Attempts(queue[i][1])' = Attempts(j)'
    BY <2>1
  <2>3. ASSUME NEW k \in 1..Len(queue), queue'[i] = queue[k] PROVE queue'[i][2] <= Attempts(j)' + 1
    <3>1. queue[k][2] <= Attempts(j) + 1
      BY <2>1, <2>3 DEF AttemptsFit
    <3>2. queue[k][2] \in Nat
      BY ElementOfSeq, BoundsAssumption DEF DeliveryTypeOK, ProcessTypeOK
    <3>3. QED
      BY <1>b, <2>3, <3>1, <3>2
  <2>4. CASE queue'[i][2] = 1
    BY <1>b, <2>2, <2>4
  <2>5. CASE Requeue /\ queue'[i] = <<hand.job, hand.attempt + 1>>
    <3>1. hand.job = j /\ queue'[i][2] = hand.attempt + 1
      BY <2>1, <2>5
    <3>2. hand.attempt <= Attempts(j)
      BY <2>5, <3>1 DEF Requeue, AttemptsFit
    <3>3. QED
      BY <1>b, <1>d, <2>2, <3>1, <3>2
  <2>6. QED
    BY <2>2, <2>3, <2>4, <2>5, ItemsMove
\* The hand.
<1>2. ASSUME hand'.step = "attempt" PROVE hand'.attempt <= Attempts(hand.job)' + 1
  <2>1. CASE hand' = hand
    <3>1. hand.step = "attempt" /\ hand.job \in Jobs
      BY <1>2, <2>1 DEF HandFits
    <3>2. PICK j \in Jobs : hand.job = j
      BY <3>1
    <3>3. hand.attempt <= Attempts(j) + 1 /\ Attempts(hand.job)' = Attempts(j)'
      BY <2>1, <3>1, <3>2 DEF AttemptsFit
    <3>4. QED
      BY <1>b, <1>d, <2>1, <3>3
  <2>2. CASE FetchFromQueue /\ hand = EmptyHand
    <3>1. PICK j \in Jobs : queue[1][1] = j
      BY <2>2, FetchedFromQueue
    <3>2. 1 \in 1..Len(queue) /\ queue[1][2] \in Nat
      BY <2>2, FetchedFromQueue, LenProperties DEF DeliveryTypeOK, ProcessTypeOK
    <3>3. queue[1][2] <= Attempts(j) + 1
      BY <3>1, <3>2 DEF AttemptsFit
    <3>4. hand'.job = j /\ hand'.attempt = queue[1][2]
      BY <1>2, <2>2, <3>1, FetchedFromQueue DEF FetchFromQueue, Take, InHand, EmptyHand
    <3>5. Attempts(hand.job)' = Attempts(j)'
      BY <3>4
    <3>6. QED
      BY <1>b, <3>2, <3>3, <3>4, <3>5
  <2>3. ASSUME NEW j \in Jobs, FetchFromStream(j), hand = EmptyHand
        PROVE  hand'.attempt <= Attempts(hand.job)' + 1
    <3>1. InStream(j) /\ hand' = InHand(j, sent'[j], "attempt")
      <4>1. mail[j] \in {"new", "again"}
        BY <2>3, FetchedFromStream
      <4>2. hand' = InHand(j, sent'[j], "attempt")
        BY <1>2, <2>3 DEF FetchFromStream, Fetch, Take, InHand, EmptyHand
      <4>3. QED
        BY <4>1, <4>2 DEF InStream
    <3>2. hand'.job = j /\ hand'.attempt = sent'[j] /\ Attempts(hand.job)' = Attempts(j)'
      BY <3>1 DEF InHand
    <3>3. sent[j] \in Nat /\ sent'[j] = sent[j] + 1
      BY <2>3 DEF FetchFromStream, Fetch, DeliveryTypeOK, BrokerTypeOK
    <3>4. Attempting(j) = 0
      BY <2>3 DEF Attempting, EmptyHand
    <3>5. sent[j] <= Attempts(j)
      <4>1. sent[j] <= Attempts(j) + Attempting(j)
        BY <3>1 DEF AttemptsFit
      <4>2. QED
        BY <1>b, <3>3, <3>4, <4>1
    <3>6. QED
      BY <1>b, <3>2, <3>3, <3>5
  <2>4. CASE AttemptEnds
    BY <1>2, <1>d, <2>4 DEF AttemptEnds, AttemptSucceeds, AttemptFails, FailsWithin, GiveUp,
       FailsBeyond, Settle, Answer, EmptyHand
  <2>5. QED
    BY <1>2, <2>1, <2>2, <2>3, <2>4, HandMoves
<1>3. ASSUME hand'.step = "retry" PROVE hand'.attempt <= Attempts(hand.job)'
  <2>1. CASE hand' = hand
    <3>1. PICK j \in Jobs : hand.job = j
      BY <1>3, <2>1 DEF HandFits
    <3>2. hand.attempt <= Attempts(j) /\ Attempts(hand.job)' = Attempts(j)'
      BY <1>3, <2>1, <3>1 DEF AttemptsFit
    <3>3. QED
      BY <1>b, <1>d, <2>1, <3>2
  <2>2. CASE AttemptEnds
    <3>1. PICK j \in Jobs : hand.job = j
      BY <1>c, <2>2
    <3>2. hand.attempt <= Attempts(j) + 1
      BY <1>c, <2>2, <3>1 DEF AttemptsFit
    <3>3. hand'.job = j /\ hand'.attempt = hand.attempt
      BY <1>3, <1>d, <2>2, <3>1 DEF AttemptEnds, AttemptSucceeds, AttemptFails, FailsWithin,
         GiveUp, FailsBeyond, Settle, Answer, EmptyHand
    <3>4. Attempts(hand.job)' = Attempts(j)' /\ Attempts(j)' = Attempts(j) + 1
      BY <1>c, <2>2, <3>1, <3>3
    <3>5. QED
      BY <3>2, <3>3, <3>4
  <2>3. ~FetchFromQueue /\ \A j \in Jobs : ~FetchFromStream(j)
    BY <1>3 DEF FetchFromQueue, FetchFromStream, Fetch, Take, InHand, EmptyHand
  <2>4. QED
    BY <1>3, <2>1, <2>2, <2>3, HandMoves
\* The count of the broker.
<1>4. ASSUME NEW j \in Jobs, InStream(j)' PROVE sent'[j] <= Attempts(j)' + Attempting(j)'
  <2>a. sent[j] \in Nat /\ sent'[j] \in Nat /\ Attempting(j) \in {0, 1} /\ Attempting(j)' \in {0, 1}
    BY OtherTypes DEF DeliveryTypeOK, BrokerTypeOK, Attempting
  <2>b. CASE mail[j] = "none"
    <3>1. (PublishAcked \/ PublishFails) /\ j = Head(publishing)
      BY <1>4, <2>b, MailMoves DEF InStream
    <3>2. sent[j] = 0
      BY <3>1, NextPublished DEF Unseen
    <3>3. sent' = sent
      BY <3>1 DEF PublishAcked, PublishFails, Store
    <3>4. QED
      BY <1>b, <2>a, <3>2, <3>3
  <2>c. CASE mail[j] # "none"
    <3>0. sent[j] <= Attempts(j) + Attempting(j)
      BY <2>c DEF AttemptsFit, InStream
    <3>1. CASE FetchFromStream(j)
      <4>1. hand = EmptyHand /\ sent'[j] = sent[j] + 1 /\ hand'.job = j
            /\ hand'.step \in {"attempt", "ack"}
        BY <3>1 DEF FetchFromStream, Fetch, Take, InHand, DeliveryTypeOK, BrokerTypeOK
      <4>2. Attempting(j) = 0 /\ Attempting(j)' = 1
        BY <4>1 DEF Attempting, EmptyHand
      <4>3. QED
        BY <1>b, <2>a, <3>0, <4>1, <4>2
    <3>2. CASE FetchLost(j)
      <4>1. sent'[j] = sent[j] + 1 /\ UNCHANGED <<hand, done, failed, crashes>>
            /\ faults' = faults + 1
        BY <3>2 DEF FetchLost, Fault, DeliveryTypeOK, BrokerTypeOK
      <4>2. Attempts(j)' = Attempts(j) + 1 /\ Attempting(j)' = Attempting(j)
        <5>1. done[j] \in Nat /\ failed[j] \in Nat
          BY EndsStay
        <5>2. QED
          BY <1>a, <4>1, <5>1 DEF Attempts, Attempting
      <4>3. QED
        BY <1>b, <2>a, <3>0, <4>1, <4>2
    <3>3. CASE ~FetchFromStream(j) /\ ~FetchLost(j)
      <4>1. sent'[j] = sent[j]
        <5>1. CASE \E k \in Jobs : FetchFromStream(k) \/ FetchLost(k)
          BY <3>3, <5>1 DEF FetchFromStream, Fetch, FetchLost, DeliveryTypeOK, BrokerTypeOK
        <5>2. CASE ~ \E k \in Jobs : FetchFromStream(k) \/ FetchLost(k)
          <6>1. sent' = sent
            BY <5>2 DEF Next, vars, BootJetStream, BootMemory, Boot, Crash, Enqueue, PublishAcked,
               PublishFails, Store, WorkerStarts, WorkerSubscribes, WorkerSubscribeFails,
               WorkerWithoutBroker, WorkerRetires, Retires, WorkerTurns, Fetches, FetchFromQueue,
               AttemptEnds, AttemptSucceeds, AttemptFails, FailsWithin, GiveUp, FailsBeyond,
               Attempted, Answered, Acknowledge, NegativeAck, AnswerLost, Replied, Requeue,
               DelayEnds, AckWaitEnds, DueAgain, Unsubscribe, SwitchSpace, WorkerFails,
               RedriveRaises, AnswerRaises, TaskEnds
          <6>2. QED
            BY <6>1
        <5>3. QED
          BY <5>1, <5>2
      <4>2. CASE Attempting(j)' >= Attempting(j)
        BY <1>b, <2>a, <3>0, <4>1, <4>2
      <4>3. CASE Attempts(j)' >= Attempts(j) + 1
        BY <1>b, <2>a, <3>0, <4>1, <4>3
      <4>4. ASSUME hand.step \in {"attempt", "ack"}, hand.job = j, ~(hand' = hand)
            PROVE  Attempts(j)' >= Attempts(j) + 1
        <5>1. done[j] \in Nat /\ failed[j] \in Nat /\ done'[j] \in Nat /\ failed'[j] \in Nat
              /\ done'[j] >= done[j] /\ failed'[j] >= failed[j]
          BY EndsStay
        <5>2. CASE AttemptEnds
          BY <1>b, <1>c, <4>4, <5>2
        <5>3. CASE WorkerFails \/ AnswerLost
          <6>1. faults' = faults + 1 /\ crashes' = crashes
            BY <5>3, WorkerFailures DEF AnswerLost, Fault
          <6>2. QED
            BY <1>a, <5>1, <6>1 DEF Attempts
        <5>4. CASE Crash
          BY <1>a, <5>1, <5>4 DEF Crash, Attempts
        <5>5. ~Acknowledge
          BY <1>4, <4>4 DEF Acknowledge, Reply, InStream, DeliveryTypeOK, BrokerTypeOK
        <5>6. ASSUME ~AttemptEnds, ~WorkerFails, ~AnswerLost, ~Crash, ~Acknowledge
              PROVE  hand' = hand
          <6>1. ~Fetches /\ ~Answered
            BY <4>4, <5>6 DEF Fetches, FetchFromQueue, FetchFromStream, Fetch, Take, EmptyHand,
               Answered, NegativeAck, Reply, Requeue
          <6>2. QED
            BY <4>4, <5>6, <6>1 DEF Next, vars, Enqueue, BootJetStream, BootMemory, Boot,
               PublishAcked, PublishFails, Published, WorkerStarts, WorkerSubscribes,
               WorkerSubscribeFails, WorkerWithoutBroker, WorkerRetires, Retires, WorkerTurns,
               DelayEnds, AckWaitEnds, DueAgain, Unsubscribe, SwitchSpace
        <5>7. QED
          BY <4>4, <5>2, <5>3, <5>4, <5>5, <5>6
      <4>5. CASE hand.step \in {"attempt", "ack"} /\ hand.job = j /\ ~(hand' = hand)
        BY <4>3, <4>4, <4>5
      <4>6. CASE ~ (hand.step \in {"attempt", "ack"} /\ hand.job = j) \/ hand' = hand
        <5>1. Attempting(j)' >= Attempting(j)
          BY <2>a, <4>6 DEF Attempting
        <5>2. QED
          BY <4>2, <5>1
      <4>7. QED
        BY <4>5, <4>6
    <3>4. QED
      BY <3>1, <3>2, <3>3
  <2>d. QED
    BY <2>b, <2>c
\* The jobs that were given up.
<1>5. ASSUME NEW j \in Jobs, dead'[j] > 0 PROVE Attempts(j)' >= Retries + 1
  <2>1. CASE dead[j] > 0
    <3>1. Attempts(j) >= Retries + 1
      BY <2>1 DEF AttemptsFit, RetriesAreUsed, Attempts
    <3>2. QED
      BY <1>b, <3>1, BoundsAssumption
  <2>2. CASE ~ (dead[j] > 0)
    <3>1. GiveUp /\ hand.job = j
      <4>1. dead'[j] # dead[j]
        BY <1>5, <2>2
      <4>2. ~FetchFromStream(j) /\ ~FetchFromQueue
        BY <4>1 DEF FetchFromStream, FetchFromQueue, Fetch, Take
      <4>3. AttemptEnds /\ Holding(j)
        BY <4>1, <4>2, ResultMoves
      <4>4. QED
        BY <4>1, <4>3 DEF AttemptEnds, AttemptSucceeds, AttemptFails, FailsWithin, Holding
    <3>2. hand.attempt > Retries /\ hand.step = "attempt"
      BY <3>1 DEF GiveUp, FailsBeyond, Attempted
    <3>3. hand.attempt <= Attempts(j) + 1
      BY <3>1, <3>2 DEF AttemptsFit
    <3>4. Attempts(j)' = Attempts(j) + 1
      BY <1>c, <3>1 DEF AttemptEnds
    <3>5. QED
      BY <1>b, <1>d, <3>2, <3>3, <3>4, BoundsAssumption
  <2>3. QED
    BY <2>1, <2>2
<1>6. QED
  BY <1>1, <1>2, <1>3, <1>4, <1>5 DEF AttemptsFit, RetriesAreUsed, Attempts

-----------------------------------------------------------------------------
(***************************************************************************)
(* The order, while nothing broke.                                         *)
(***************************************************************************)
Unbroken == crashes + faults = 0

\* Nothing that breaks has happened, then or before.
LEMMA UnbrokenSteps ==
  ASSUME DeliveryTypeOK, HandFits, [Next]_vars, Unbroken'
  PROVE  /\ Unbroken /\ crashes = 0 /\ ~Fault /\ ~Crash
         /\ ~PublishFails /\ ~WorkerSubscribeFails /\ ~AnswerLost /\ ~WorkerFails
<1>1. /\ crashes \in Nat /\ faults \in Nat /\ crashes' \in Nat /\ faults' \in Nat
      /\ crashes' >= crashes /\ faults' >= faults
  BY BoundsGrow
<1>2. \A a, b \in Nat : a + b = 0 => a = 0 /\ b = 0
  OBVIOUS
<1>3. crashes' = 0 /\ faults' = 0
  BY <1>1, <1>2 DEF Unbroken
<1>4. crashes = 0 /\ faults = 0
  BY <1>1, <1>3
<1>5. ~Fault /\ ~Crash
  BY <1>3, <1>4 DEF Fault, Crash
<1>6. Unbroken
  BY <1>4 DEF Unbroken
<1>7. QED
  BY <1>4, <1>5, <1>6, WorkerFailures DEF PublishFails, WorkerSubscribeFails, AnswerLost

\* A job stays in the queue until it is fetched or the process is killed.
LEMMA QueueKeeps ==
  ASSUME DeliveryTypeOK, HandFits, PublishingFits, [Next]_vars, NEW j \in Jobs,
         j \in JobsIn(queue), ~Crash, ~ (FetchFromQueue /\ j = Head(queue)[1])
  PROVE  j \in JobsIn(queue')
<1> USE DEF process, user, broker, results, bounds, around
<1>a. queue \in Seq(QueueItem) /\ 1 \in 1..Retries + 1
  BY BoundsAssumption DEF DeliveryTypeOK, ProcessTypeOK, QueueItem
<1>1. ASSUME NEW k \in Jobs, NEW n \in 1..Retries + 1, NEW r, r = Append(queue, <<k, n>>)
      PROVE  j \in JobsIn(r)
  <2>1. r = Append(queue, <<k, n>>)
    BY <1>1
  <2>2. /\ Len(r) = Len(queue) + 1 /\ Len(queue) \in Nat
        /\ \A i \in 1..Len(queue) : r[i] = queue[i]
    BY <1>a, <2>1, LongerQueue, LenProperties
  <2>3. PICK i \in 1..Len(queue) : queue[i][1] = j
    BY DEF JobsIn
  <2>4. i \in 1..Len(r) /\ r[i][1] = j
    BY <2>2, <2>3
  <2>5. QED
    BY <2>4 DEF JobsIn
<1>2. CASE Enqueue
  <2>1. published' \in Jobs
    BY <1>2, HandedOverType, BoundsAssumption DEF Enqueue, Jobs
  <2>2. queue' = queue \/ queue' = Append(queue, <<published', 1>>)
    BY <1>2 DEF Enqueue
  <2>3. QED
    BY <1>1, <1>a, <2>1, <2>2
<1>3. CASE PublishFails
  <2>1. Head(publishing) \in Jobs /\ queue' = Append(queue, <<Head(publishing), 1>>)
    BY <1>3, NextPublished DEF PublishFails
  <2>2. QED
    BY <1>1, <1>a, <2>1
<1>4. CASE Requeue
  <2>1. hand.job \in Jobs /\ hand.attempt + 1 \in 1..Retries + 1
    BY <1>4, BoundsAssumption DEF Requeue, HandFits, DeliveryTypeOK, ProcessTypeOK
  <2>2. queue' = Append(queue, <<hand.job, hand.attempt + 1>>)
    BY <1>4 DEF Requeue
  <2>3. QED
    BY <1>1, <2>1, <2>2
<1>5. CASE FetchFromQueue
  <2>1. queue # <<>> /\ queue' = Tail(queue)
    BY <1>5 DEF FetchFromQueue
  <2>2. QED
    BY <1>5, <1>a, <2>1, ShorterQueue
<1>6. CASE ~ (Enqueue \/ PublishFails \/ Requeue \/ FetchFromQueue)
  <2>1. queue' = queue
    BY <1>6 DEF Next, vars, BootJetStream, BootMemory, Boot, PublishAcked, WorkerStarts,
       WorkerSubscribes, WorkerSubscribeFails, WorkerWithoutBroker, WorkerRetires, Retires,
       WorkerTurns, Fetches, FetchFromStream, Fetch, AttemptEnds, AttemptSucceeds, AttemptFails,
       FailsWithin, GiveUp, FailsBeyond, Settle, Answer, Answered, Acknowledge, NegativeAck,
       AnswerLost, Replied, DelayEnds, AckWaitEnds, DueAgain, Unsubscribe, Reply, SwitchSpace,
       WorkerFails, FetchLost, RedriveRaises, AnswerRaises, TaskEnds
  <2>2. QED
    BY <2>1
<1>7. QED
  BY <1>2, <1>3, <1>4, <1>5, <1>6

\* The places of the jobs.
LEMMA PlacesStep ==
  ASSUME DeliveryInv, [Next]_vars, Unbroken'
  PROVE  PlacesFit'
<1> USE DEF process, user, broker, results, bounds, around
<1>a. /\ DeliveryTypeOK /\ HandFits /\ PublishingFits /\ CopiesFit /\ AttemptsFit
      /\ PlacesFit /\ TurnsFit
  BY UnbrokenSteps DEF DeliveryInv, OrderFits, Unbroken
<1>b. /\ crashes = 0 /\ ~Fault /\ ~Crash
      /\ ~PublishFails /\ ~WorkerSubscribeFails /\ ~AnswerLost /\ ~WorkerFails
  BY <1>a, UnbrokenSteps
<1>c. ProcessTypeOK /\ BrokerTypeOK /\ ResultsTypeOK
  BY <1>a DEF DeliveryTypeOK
<1>d. mode = "down" => worker = "none" /\ hand = EmptyHand /\ publishing = <<>>
  BY <1>a DEF HandFits
\* The mode decides where the jobs are.
<1>1. mode' = "down" => published' = 0
  BY <1>a, <1>b DEF PlacesFit, Next, vars, Enqueue, BootJetStream, BootMemory, Boot,
     PublishAcked, Published, WorkerStarts, WorkerSubscribes, WorkerWithoutBroker,
     WorkerRetires, Retires, WorkerTurns, Fetches, FetchFromQueue, FetchFromStream, Fetch, Take,
     AttemptEnds, AttemptSucceeds, AttemptFails, FailsWithin, GiveUp, FailsBeyond, Attempted,
     Answered, Acknowledge, NegativeAck, Replied, Requeue, DelayEnds, AckWaitEnds, DueAgain,
     Unsubscribe, Up, Reply, SwitchSpace, WorkerFails, FetchLost, RedriveRaises, AnswerRaises,
     TaskEnds

<1>2. mode' = "jetstream" => queue' = <<>> /\ worker' # "queue"
  <2>1. CASE BootJetStream
    BY <1>a, <2>1 DEF BootJetStream, Boot, HandFits
  <2>2. CASE ~BootJetStream
    BY <1>a, <1>b, <2>2 DEF PlacesFit, Next, vars, Enqueue, BootMemory, Boot, PublishAcked,
       Published, WorkerStarts, WorkerSubscribes, WorkerWithoutBroker, WorkerRetires, Retires,
       WorkerTurns, Fetches, FetchFromQueue, FetchFromStream, Fetch, Take, AttemptEnds,
       AttemptSucceeds, AttemptFails, FailsWithin, GiveUp, FailsBeyond, Attempted, Settle,
       Answer, Answered, Acknowledge, NegativeAck, Replied, Requeue, DelayEnds, AckWaitEnds,
       DueAgain, Unsubscribe, Reply, SwitchSpace, WorkerFails, FetchLost, RedriveRaises,
       AnswerRaises, TaskEnds
  <2>3. QED
    BY <2>1, <2>2
<1>e. \A j \in Jobs : mail[j] # "none" => mode = "jetstream" /\ worker # "queue"
  <2>1. ASSUME mode = "down", NEW j \in Jobs PROVE mail[j] = "none"
    <3>1. HandedOver = 0
      <4>1. published = 0 /\ publishing = <<>>
        BY <1>a, <1>d, <2>1 DEF PlacesFit
      <4>2. Len(<<>>) = 0
        BY EmptySeq
      <4>3. published = 0 /\ Len(publishing) = 0
        BY <4>1, <4>2
      <4>4. QED
        BY <4>3 DEF HandedOver
    <3>2. QED
      BY <1>a, <3>1 DEF PublishingFits, Unseen, Jobs
  <2>2. QED
    BY <1>a, <1>c, <2>1 DEF PlacesFit, ProcessTypeOK
<1>3. mode' = "memory" => worker' # "stream" /\ \A j \in Jobs : mail'[j] = "none"
  <2>1. CASE BootMemory
    <3>1. mode = "down" /\ worker' = "none" /\ mail' = mail
      BY <2>1 DEF BootMemory, Boot
    <3>2. QED
      BY <1>e, <3>1
  <2>2. CASE ~BootMemory /\ mode' = "memory"
    <3>1. mode = "memory"
      BY <2>2 DEF Next, vars, Enqueue, BootJetStream, Boot, Crash, PublishAcked, PublishFails,
         Published, WorkerStarts, WorkerSubscribes, WorkerSubscribeFails, WorkerWithoutBroker,
         WorkerRetires, Retires, WorkerTurns, Fetches, FetchFromQueue, FetchFromStream, Fetch,
         Take, AttemptEnds, AttemptSucceeds, AttemptFails, FailsWithin, GiveUp, FailsBeyond,
         Attempted, Answered, Acknowledge, NegativeAck, AnswerLost, Replied, Requeue, DelayEnds,
         AckWaitEnds, DueAgain, Unsubscribe, Reply, SwitchSpace, WorkerFails, FetchLost,
         RedriveRaises, AnswerRaises, TaskEnds
    <3>2. ~ (PublishAcked \/ PublishFails)
      BY <1>a, <3>1 DEF HandFits, PublishAcked, PublishFails, Published
    <3>3. \A j \in Jobs : mail'[j] = "none"
      BY <1>a, <3>1, <3>2, MailMoves DEF PlacesFit
    <3>4. worker' # "stream"
      BY <1>a, <3>1 DEF PlacesFit, Next, vars, Enqueue, BootJetStream, BootMemory, Boot, Crash,
         PublishAcked, PublishFails, Published, WorkerStarts, WorkerSubscribes,
         WorkerSubscribeFails, WorkerWithoutBroker, WorkerRetires, Retires, WorkerTurns,
         Fetches, FetchFromQueue, FetchFromStream, Fetch, Take, AttemptEnds, AttemptSucceeds,
         AttemptFails, FailsWithin, GiveUp, FailsBeyond, Attempted, Answered, Acknowledge,
         NegativeAck, AnswerLost, Replied, Requeue, DelayEnds, AckWaitEnds, DueAgain,
         Unsubscribe, Reply, SwitchSpace, WorkerFails, FetchLost, RedriveRaises, AnswerRaises,
         TaskEnds
    <3>5. QED
      BY <3>3, <3>4
  <2>3. QED
    BY <2>1, <2>2
\* What the broker has handed out is in hand, and what is due again has failed.
<1>f. ASSUME NEW j \in Jobs, mail[j] = "out"
      PROVE  hand.step # "empty" /\ hand.job = j /\ worker = "stream"
  BY <1>a, <1>e, <1>f DEF PlacesFit, Holding, HandFits
<1>4. ASSUME NEW j \in Jobs, mail'[j] = "out" PROVE Holding(j)'
  <2>1. CASE FetchFromStream(j)
    BY <2>1 DEF FetchFromStream, Fetch, Take, Holding, InHand
  <2>2. CASE ~FetchFromStream(j)
    <3>1. mail[j] = "out" /\ ~ ((Acknowledge \/ NegativeAck) /\ hand.job = j)
      BY <1>4, <1>b, <1>c, <2>2 DEF BrokerTypeOK, Next, vars, Enqueue, BootJetStream,
         BootMemory, Boot, PublishAcked, Store, WorkerStarts, WorkerSubscribes,
         WorkerWithoutBroker, WorkerRetires, Retires, WorkerTurns, Fetches, FetchFromQueue,
         FetchFromStream, Fetch, AttemptEnds, AttemptSucceeds, AttemptFails, FailsWithin,
         GiveUp, FailsBeyond, Attempted, Answered, Acknowledge, NegativeAck, Replied, Requeue,
         DelayEnds, AckWaitEnds, DueAgain, Unsubscribe, Reply, SwitchSpace, WorkerFails,
         FetchLost, RedriveRaises, AnswerRaises, TaskEnds
    <3>2. hand.step # "empty" /\ hand.job = j /\ worker = "stream"
      BY <1>f, <3>1
    <3>3. ~Fetches /\ ~Answered
      BY <1>b, <3>1, <3>2 DEF Fetches, FetchFromQueue, FetchFromStream, Fetch, Take, EmptyHand,
         Answered, Requeue
    <3>4. CASE AttemptEnds
      BY <1>c, <3>2, <3>4 DEF AttemptEnds, AttemptSucceeds, AttemptFails, FailsWithin, GiveUp,
         FailsBeyond, Settle, Answer, Holding, ProcessTypeOK
    <3>5. CASE ~AttemptEnds
      <4>1. hand' = hand
        BY <1>b, <3>3, <3>5 DEF Next, vars, Enqueue, BootJetStream, BootMemory, Boot,
           PublishAcked, Published, WorkerStarts, WorkerSubscribes, WorkerWithoutBroker,
           WorkerRetires, Retires, WorkerTurns, DelayEnds, AckWaitEnds, DueAgain, Unsubscribe,
           SwitchSpace, WorkerFails, FetchLost, RedriveRaises, AnswerRaises, TaskEnds, Reply
      <4>2. QED
        BY <3>2, <4>1 DEF Holding
    <3>6. QED
      BY <3>4, <3>5
  <2>3. QED
    BY <2>1, <2>2
<1>g. ASSUME NEW j \in Jobs
      PROVE  /\ failed[j] \in Nat /\ failed'[j] \in Nat
             /\ failed[j] > 0 => failed'[j] > 0
             /\ Untouched(j)' => Untouched(j)
  BY <1>a, EndsStay DEF Untouched
<1>5. ASSUME NEW j \in Jobs, mail'[j] \in {"delayed", "again"} PROVE failed'[j] > 0
  <2>1. CASE mail[j] \in {"delayed", "again"}
    BY <1>a, <1>g, <2>1 DEF PlacesFit
  <2>2. CASE mail[j] \notin {"delayed", "again"}
    <3>1. (NegativeAck /\ hand.job = j) \/ AckWaitEnds(j)
      BY <1>5, <1>b, <1>c, <2>2 DEF BrokerTypeOK, Next, vars, Enqueue, BootJetStream,
         BootMemory, Boot, PublishAcked, Store, WorkerStarts, WorkerSubscribes,
         WorkerWithoutBroker, WorkerRetires, Retires, WorkerTurns, Fetches, FetchFromQueue,
         FetchFromStream, Fetch, AttemptEnds, AttemptSucceeds, AttemptFails, FailsWithin,
         GiveUp, FailsBeyond, Attempted, Answered, Acknowledge, NegativeAck, Replied, Requeue,
         DelayEnds, AckWaitEnds, DueAgain, Unsubscribe, Reply, SwitchSpace, WorkerFails,
         FetchLost, RedriveRaises, AnswerRaises, TaskEnds
    <3>2. ~AckWaitEnds(j)
      BY <1>f DEF AckWaitEnds, DueAgain
    <3>3. failed[j] > 0
      BY <1>a, <3>1, <3>2 DEF NegativeAck, Replied, PlacesFit, Reply
    <3>4. QED
      BY <1>g, <3>3
  <2>3. QED
    BY <2>1, <2>2
<1>6. hand'.step = "retry" => failed'[hand'.job] > 0
  <2>1. SUFFICES ASSUME hand'.step = "retry" PROVE failed'[hand'.job] > 0
    OBVIOUS
  <2>2. ~FetchFromQueue /\ \A j \in Jobs : ~FetchFromStream(j)
    BY <2>1 DEF FetchFromQueue, FetchFromStream, Fetch, Take, InHand, EmptyHand
  <2>3. hand'.job = hand.job /\ hand.step # "empty" /\ (hand' = hand \/ AttemptEnds)
    BY <1>a, <2>1, <2>2, HandMoves
  <2>4. PICK j \in Jobs : hand.job = j /\ hand'.job = j
    BY <1>a, <2>3 DEF HandFits
  <2>5. CASE hand' = hand
    BY <1>a, <1>g, <2>1, <2>4, <2>5 DEF PlacesFit
  <2>6. CASE AttemptEnds
    <3>1. AttemptFails
      BY <1>c, <2>1, <2>6 DEF AttemptEnds, AttemptSucceeds, GiveUp, FailsBeyond, Settle, Answer,
         EmptyHand, ProcessTypeOK
    <3>2. failed'[j] = failed[j] + 1
      BY <1>c, <2>4, <3>1 DEF AttemptFails, FailsWithin, ResultsTypeOK
    <3>3. QED
      BY <1>g, <2>4, <3>2
  <2>7. QED
    BY <2>3, <2>5, <2>6
\* A job that was never attempted is where it was put, or in hand.
<1>7. ASSUME NEW j \in Jobs, j <= HandedOver', Untouched(j)'
      PROVE  mail'[j] = "new" \/ j \in JobsIn(queue') \/ Holding(j)'
  <2>a. Untouched(j)
    BY <1>7, <1>g
  <2>1. ASSUME FetchFromStream(j) PROVE Holding(j)'
    BY <2>1 DEF FetchFromStream, Fetch, Take, Holding, InHand
  <2>2. ASSUME FetchFromQueue, j = Head(queue)[1] PROVE Holding(j)'
    <3>1. j \notin dropped'
      BY <1>7 DEF Untouched, Ended
    <3>2. QED
      BY <2>2, <3>1 DEF FetchFromQueue, Take, Holding, InHand
  <2>3. CASE j <= HandedOver /\ mail[j] = "new"
    <3>1. mail'[j] = "new" \/ FetchFromStream(j)
      BY <1>b, <1>c, <1>a, <2>3 DEF CopiesFit, BrokerTypeOK, Next, vars, Enqueue, BootJetStream,
         BootMemory, Boot, PublishAcked, Store, WorkerStarts, WorkerSubscribes,
         WorkerWithoutBroker, WorkerRetires, Retires, WorkerTurns, Fetches, FetchFromQueue,
         FetchFromStream, Fetch, AttemptEnds, AttemptSucceeds, AttemptFails, FailsWithin,
         GiveUp, FailsBeyond, Attempted, Answered, Acknowledge, NegativeAck, Replied, Requeue,
         DelayEnds, AckWaitEnds, DueAgain, Unsubscribe, Reply, SwitchSpace, WorkerFails,
         FetchLost, RedriveRaises, AnswerRaises, TaskEnds
    <3>2. QED
      BY <2>1, <3>1
  <2>4. CASE j \in JobsIn(queue)
    BY <1>a, <1>b, <2>2, <2>4, QueueKeeps
  <2>5. CASE Holding(j)
    <3>a. hand.step = "attempt"
      BY <1>a, <1>c, <2>a, <2>5 DEF HandFits, PlacesFit, Untouched, Holding, ProcessTypeOK, Steps
    <3>1. CASE AttemptEnds
      <4>1. failed'[j] > 0 \/ done'[j] > 0
        BY <1>c, <2>5, <3>1 DEF AttemptEnds, AttemptSucceeds, AttemptFails, FailsWithin, GiveUp,
           FailsBeyond, ResultsTypeOK, Holding
      <4>2. QED
        BY <1>7, <4>1 DEF Untouched, Ended
    <3>2. ~Fetches /\ ~Answered
      BY <1>b, <3>a DEF Fetches, FetchFromQueue, FetchFromStream, Fetch, Take, EmptyHand,
         Answered, Acknowledge, NegativeAck, Replied, Requeue, Reply
    <3>3. CASE ~AttemptEnds
      <4>1. hand' = hand
        BY <1>b, <3>a, <3>2, <3>3 DEF Next, vars, Enqueue, BootJetStream, BootMemory, Boot,
           PublishAcked, Published, WorkerStarts, WorkerSubscribes, WorkerWithoutBroker,
           WorkerRetires, Retires, WorkerTurns, DelayEnds, AckWaitEnds, DueAgain, Unsubscribe,
           SwitchSpace, WorkerFails, FetchLost, RedriveRaises, AnswerRaises, TaskEnds, Reply
      <4>2. QED
        BY <2>5, <4>1 DEF Holding
    <3>4. QED
      BY <3>1, <3>3
  <2>6. CASE ~ (j <= HandedOver)
    <3>1. CASE PublishAcked
      <4>1. HandedOver' = HandedOver + 1 /\ Head(publishing) = HandedOver + 1
        BY <1>a, <3>1, NextPublished
      <4>2. j = Head(publishing)
        BY <1>7, <1>a, <2>6, <4>1, HandedOverType DEF Jobs
      <4>3. QED
        BY <1>c, <3>1, <4>2 DEF PublishAcked, Store, BrokerTypeOK
    <3>2. CASE Enqueue
      <4>1. CASE mode = "jetstream"
        <5>1. HandedOver' = HandedOver
          <6>1. publishing \in Seq(Jobs) /\ published' \in Jobs /\ published' = published + 1
            BY <1>a, <1>c, <3>2, HandedOverType, BoundsAssumption
               DEF Enqueue, ProcessTypeOK, Jobs
          <6>2. publishing' = Append(publishing, published')
            BY <3>2, <4>1 DEF Enqueue
          <6>3. Len(publishing') = Len(publishing) + 1
            BY <6>1, <6>2, AppendProperties
          <6>4. QED
            BY <1>a, <6>1, <6>3, HandedOverType DEF HandedOver
        <5>2. QED
          BY <1>7, <2>6, <5>1
      <4>2. CASE mode # "jetstream"
        <5>1. publishing = <<>> /\ publishing' = <<>> /\ published' = published + 1
          BY <1>a, <3>2, <4>2 DEF Enqueue, HandFits
        <5>2. HandedOver = published /\ HandedOver' = published + 1
          BY <1>a, <5>1, EmptySeq, HandedOverType DEF HandedOver
        <5>3. j = published'
          BY <1>7, <1>a, <2>6, <5>1, <5>2, HandedOverType DEF Jobs
        <5>4. queue' = Append(queue, <<j, 1>>)
          BY <3>2, <4>2, <5>3 DEF Enqueue
        <5>5. queue \in Seq(QueueItem) /\ 1 \in 1..Retries + 1
          BY <1>c, BoundsAssumption DEF ProcessTypeOK, QueueItem
        <5>6. JobsIn(queue') = JobsIn(queue) \cup {j}
          BY <5>4, <5>5, LongerQueue
        <5>7. QED
          BY <5>6
      <4>3. QED
        BY <4>1, <4>2
    <3>3. CASE ~ (PublishAcked \/ Enqueue)
      <4>1. UNCHANGED <<published, publishing>>
        BY <1>b, <3>3 DEF Next, vars, BootJetStream, BootMemory, Boot, WorkerStarts,
           WorkerSubscribes, WorkerWithoutBroker, WorkerRetires, Retires, WorkerTurns, Fetches,
           FetchFromQueue, FetchFromStream, Fetch, Take, AttemptEnds, AttemptSucceeds,
           AttemptFails, FailsWithin, GiveUp, FailsBeyond, Attempted, Answered, Acknowledge,
           NegativeAck, Replied, Requeue, DelayEnds, AckWaitEnds, DueAgain, Unsubscribe, Reply,
           SwitchSpace, WorkerFails, FetchLost, RedriveRaises, AnswerRaises, TaskEnds
      <4>2. HandedOver' = HandedOver
        BY <4>1 DEF HandedOver
      <4>3. QED
        BY <1>7, <2>6, <4>2
    <3>4. QED
      BY <3>1, <3>2, <3>3
  <2>7. j <= HandedOver => mail[j] = "new" \/ j \in JobsIn(queue) \/ Holding(j)
    BY <1>a, <2>a, HandedOverType DEF PlacesFit, Jobs
  <2>8. QED
    BY <2>3, <2>4, <2>5, <2>6, <2>7
<1>8. 1..HandedOver' \subseteq Jobs
  <2>1. DeliveryTypeOK'
    BY <1>a, ProcessTypes, OtherTypes DEF DeliveryTypeOK
  <2>2. published' \in 0..MaxJobs /\ Len(publishing') \in Nat
    BY <2>1, LenProperties DEF DeliveryTypeOK, ProcessTypeOK
  <2>3. QED
    BY <2>2, BoundsAssumption DEF HandedOver, Jobs
<1>9. \A j \in 1..HandedOver' : j <= HandedOver'
  BY <1>a, HandedOverType
<1>10. QED
  BY <1>1, <1>2, <1>3, <1>4, <1>5, <1>6, <1>7, <1>8, <1>9 DEF PlacesFit

\* The turns of the jobs.
LEMMA TurnsStep ==
  ASSUME DeliveryInv, [Next]_vars, Unbroken'
  PROVE  TurnsFit'
<1> USE DEF process, user, broker, results, bounds, around
<1>a. /\ DeliveryTypeOK /\ HandFits /\ PublishingFits /\ CopiesFit /\ AttemptsFit
      /\ PlacesFit /\ TurnsFit
  BY UnbrokenSteps DEF DeliveryInv, OrderFits, Unbroken
<1>b. ~Crash /\ ~PublishFails /\ ~WorkerFails
  BY <1>a, UnbrokenSteps
<1>c. ASSUME NEW j \in Jobs PROVE Untouched(j)' => Untouched(j)
  BY <1>a, <1>c, EndsStay DEF Untouched
<1>d. queue \in Seq(QueueItem) /\ Len(queue) \in Nat /\ 1 \in 1..Retries + 1
  BY <1>a, LenProperties, BoundsAssumption DEF DeliveryTypeOK, ProcessTypeOK, QueueItem
\* In the queue.
<1>1. ASSUME NEW a \in 1..Len(queue'), NEW b \in 1..Len(queue'), a < b,
             NEW i, i = queue'[a][1], NEW j, j = queue'[b][1], Untouched(j)'
      PROVE  i < j
  <2>1. i \in Jobs /\ j \in Jobs
    BY <1>a, <1>1, ItemsMove
  <2>2. Untouched(j)
    BY <1>1, <1>c, <2>1
  <2>3. ASSUME NEW k \in 1..Len(queue), NEW m \in 1..Len(queue), k < m,
               queue'[a] = queue[k], queue'[b] = queue[m]
        PROVE  i < j
    BY <1>1, <1>a, <2>2, <2>3 DEF TurnsFit
  <2>4. CASE Enqueue /\ queue' = Append(queue, <<published', 1>>)
    <3>1. published' = published + 1 /\ published' \in Jobs
      BY <1>a, <2>4, HandedOverType, BoundsAssumption DEF Enqueue, Jobs
    <3>2. /\ Len(queue') = Len(queue) + 1 /\ queue'[Len(queue')] = <<published', 1>>
          /\ \A k \in 1..Len(queue) : queue'[k] = queue[k]
      BY <1>d, <2>4, <3>1, LongerQueue
    <3>3. CASE b # Len(queue')
      BY <1>1, <1>d, <2>3, <3>2, <3>3
    <3>4. CASE b = Len(queue')
      <4>1. a \in 1..Len(queue) /\ j = published' /\ i = queue[a][1]
        BY <1>1, <1>d, <3>2, <3>4
      <4>2. i \in JobsIn(queue)
        BY <4>1 DEF JobsIn
      <4>3. i <= HandedOver
        BY <1>a, <2>1, <4>2, HandedOverType DEF PublishingFits, Unseen, Jobs
      <4>4. HandedOver <= published
        BY <1>a, HandedOverType DEF HandedOver
      <4>5. QED
        BY <1>a, <2>1, <3>1, <4>1, <4>3, <4>4, HandedOverType DEF Jobs
    <3>5. QED
      BY <3>3, <3>4
  <2>5. CASE Requeue
    <3>1. hand.job \in Jobs /\ hand.attempt + 1 \in 1..Retries + 1
      BY <1>a, <2>5, BoundsAssumption DEF Requeue, HandFits, DeliveryTypeOK, ProcessTypeOK
    <3>2. queue' = Append(queue, <<hand.job, hand.attempt + 1>>)
      BY <2>5 DEF Requeue
    <3>3. /\ Len(queue') = Len(queue) + 1 /\ queue'[Len(queue')] = <<hand.job, hand.attempt + 1>>
          /\ \A k \in 1..Len(queue) : queue'[k] = queue[k]
      BY <1>d, <3>1, <3>2, LongerQueue
    <3>4. ~Untouched(hand.job)
      BY <1>a, <2>5, <3>1 DEF Requeue, PlacesFit, Untouched, DeliveryTypeOK, ResultsTypeOK
    <3>5. b # Len(queue')
      BY <1>1, <2>2, <3>3, <3>4
    <3>6. QED
      BY <1>1, <1>d, <2>3, <3>3, <3>5
  <2>6. CASE FetchFromQueue
    <3>1. queue # <<>> /\ queue' = Tail(queue)
      BY <2>6 DEF FetchFromQueue
    <3>2. /\ a + 1 \in 1..Len(queue) /\ queue'[a] = queue[a + 1]
          /\ b + 1 \in 1..Len(queue) /\ queue'[b] = queue[b + 1]
      BY <1>d, <3>1, ShorterQueue
    <3>3. QED
      BY <1>1, <2>3, <3>2
  <2>7. CASE queue' = queue
    BY <1>1, <2>3, <2>7
  <2>8. QED
    BY <1>b, <2>4, <2>5, <2>6, <2>7
     DEF Next, vars, Enqueue, BootJetStream, BootMemory, Boot, PublishAcked, WorkerStarts,
        WorkerSubscribes, WorkerSubscribeFails, WorkerWithoutBroker, WorkerRetires, Retires,
        WorkerTurns, Fetches, FetchFromStream, Fetch, AttemptEnds, AttemptSucceeds,
        AttemptFails, FailsWithin, GiveUp, FailsBeyond, Settle, Answer, Answered, Acknowledge,
        NegativeAck, AnswerLost, Replied, DelayEnds, AckWaitEnds, DueAgain, Unsubscribe, Reply,
        SwitchSpace, WorkerFails, FetchLost, RedriveRaises, AnswerRaises, TaskEnds
\* What is fetched has no untouched job before it.
<1>2. ASSUME NEW i \in Jobs, NEW j \in Jobs, i < j, Untouched(i), FetchFromStream(j) PROVE FALSE
  <2>1. mode = "jetstream" /\ queue = <<>> /\ hand = EmptyHand
    <3>1. worker = "stream" /\ hand = EmptyHand
      BY <1>2 DEF FetchFromStream, Fetch, Take
    <3>2. QED
      BY <1>a, <3>1 DEF PlacesFit, HandFits, DeliveryTypeOK, ProcessTypeOK
  <2>2. failed[j] = 0 /\ mail[j] # "again"
    BY <1>a, <1>2 DEF TurnsFit, PlacesFit
  <2>3. mail[j] = "new" /\ (mail[i] = "new" => j <= i)
    BY <1>2, <2>2, FetchedFromStream DEF FetchFromStream, Fetch, NextInStream, Due, New
  <2>4. j <= HandedOver
    BY <1>a, <2>3, HandedOverType DEF PublishingFits, Unseen, Jobs
  <2>5. i \in 1..HandedOver
    BY <1>a, <1>2, <2>4, HandedOverType DEF Jobs
  <2>6. mail[i] = "new" \/ i \in JobsIn(queue) \/ Holding(i)
    BY <1>a, <1>2, <2>5 DEF PlacesFit
  <2>7. mail[i] = "new"
    BY <2>1, <2>6, EmptyQueue DEF Holding, EmptyHand
  <2>8. QED
    BY <1>2, <2>3, <2>7 DEF Jobs
<1>3. ASSUME NEW i \in Jobs, NEW j \in Jobs, i < j, Untouched(i),
             FetchFromQueue, j = Head(queue)[1]
      PROVE  FALSE
  <2>1. mode = "memory" /\ hand = EmptyHand
    <3>1. worker = "queue" /\ hand = EmptyHand
      BY <1>3 DEF FetchFromQueue, Take
    <3>2. QED
      BY <1>a, <3>1 DEF PlacesFit, HandFits, DeliveryTypeOK, ProcessTypeOK
  <2>2. j = queue[1][1] /\ j \in JobsIn(queue) /\ 1 \in 1..Len(queue)
    BY <1>3, <1>a, <1>d, FetchedFromQueue
  <2>3. j <= HandedOver
    BY <1>a, <2>2, HandedOverType DEF PublishingFits, Unseen, Jobs
  <2>4. i \in 1..HandedOver
    BY <1>a, <1>3, <2>3, HandedOverType DEF Jobs
  <2>5. mail[i] = "new" \/ i \in JobsIn(queue) \/ Holding(i)
    BY <1>a, <1>3, <2>4 DEF PlacesFit
  <2>6. i \in JobsIn(queue)
    BY <1>a, <2>1, <2>5 DEF PlacesFit, Holding, EmptyHand
  <2>7. PICK b \in 1..Len(queue) : queue[b][1] = i
    BY <2>6 DEF JobsIn
  <2>8. 1 < b
    BY <1>3, <2>2, <2>7, <1>d DEF Jobs
  <2>9. j < i
    BY <1>a, <1>3, <2>2, <2>7, <2>8 DEF TurnsFit
  <2>10. QED
    BY <1>3, <2>9 DEF Jobs
<1>4. ASSUME NEW i \in Jobs, NEW j \in Jobs, i < j, Untouched(i)'
      PROVE  done'[j] = 0 /\ failed'[j] = 0 /\ ~Holding(j)'
  <2>1. Untouched(i)
    BY <1>4, <1>c
  <2>2. done[j] = 0 /\ failed[j] = 0 /\ ~Holding(j)
    BY <1>a, <1>4, <2>1 DEF TurnsFit
  <2>3. ~FetchFromStream(j) /\ ~ (FetchFromQueue /\ j = Head(queue)[1])
    BY <1>2, <1>3, <1>4, <2>1
  <2>4. done'[j] = 0 /\ failed'[j] = 0
    BY <1>a, <1>b, <2>2, <2>3, ResultMoves
  <2>5. ~Holding(j)'
    BY <1>a, <2>2, <2>3, HandMoves DEF Holding
  <2>6. QED
    BY <2>4, <2>5
<1>5. QED
  BY <1>1, <1>4 DEF TurnsFit

-----------------------------------------------------------------------------
(***************************************************************************)
(* What was stored, and the whole invariant.                               *)
(***************************************************************************)
\* A stored job stays until it has ended.
LEMMA StoredStep ==
  ASSUME DeliveryTypeOK, HandFits, PublishingFits, StoredUntilEnded, [Next]_vars
  PROVE  StoredUntilEnded'
<1> USE DEF process, user, broker, results, bounds, around
<1>a. BrokerTypeOK
  BY DEF DeliveryTypeOK
<1>1. ASSUME NEW j \in stored' PROVE InStream(j)' \/ Ended(j)'
  <2>1. j \in Jobs
    BY OtherTypes DEF BrokerTypeOK
  <2>2. Ended(j) => Ended(j)'
    BY <2>1, EndsStay
  <2>3. CASE PublishAcked \/ PublishFails
    <3>1. Head(publishing) \in Jobs
      BY <2>3, NextPublished
    <3>2. \/ mail' = [mail EXCEPT ![Head(publishing)] = "new"]
             /\ stored' = stored \cup {Head(publishing)}
          \/ mail' = mail /\ stored' = stored
      BY <2>3 DEF PublishAcked, PublishFails, Store
    <3>3. QED
      BY <1>1, <1>a, <2>1, <2>2, <3>1, <3>2 DEF StoredUntilEnded, InStream, BrokerTypeOK
  <2>4. CASE Acknowledge /\ hand.job = j
    BY <2>2, <2>4 DEF Acknowledge, Replied, HandFits, Reply
  <2>7. CASE AnswerRaises
    <3>1. hand.step = "ack" /\ hand.job = j => Ended(j)
      BY DEF HandFits
    <3>2. stored' = stored /\ (mail[j] # "none" => mail'[j] # "none" \/ Ended(j))
      BY <1>a, <2>1, <2>7, <3>1 DEF AnswerRaises, TaskEnds, Reply, BrokerTypeOK
    <3>3. QED
      BY <1>1, <2>2, <3>2 DEF StoredUntilEnded, InStream
  <2>5. CASE ~ (PublishAcked \/ PublishFails \/ (Acknowledge /\ hand.job = j) \/ AnswerRaises)
    <3>1. stored' = stored
      BY <2>5 DEF Next, vars, BootJetStream, BootMemory, Boot, Crash, Enqueue, WorkerStarts,
         WorkerSubscribes, WorkerSubscribeFails, WorkerWithoutBroker, WorkerRetires, Retires,
         WorkerTurns, Fetches, FetchFromQueue, FetchFromStream, Fetch, Take, AttemptEnds,
         AttemptSucceeds, AttemptFails, FailsWithin, GiveUp, FailsBeyond, Attempted, Answered,
         Acknowledge, NegativeAck, AnswerLost, Replied, Requeue, DelayEnds, AckWaitEnds,
         DueAgain, Unsubscribe, Reply, SwitchSpace, WorkerFails, FetchLost, RedriveRaises,
         AnswerRaises, TaskEnds
    <3>2. mail[j] # "none" => mail'[j] # "none"
      BY <1>a, <2>1, <2>5 DEF BrokerTypeOK, Next, vars, BootJetStream, BootMemory, Boot, Crash,
         Enqueue, WorkerStarts, WorkerSubscribes, WorkerSubscribeFails, WorkerWithoutBroker,
         WorkerRetires, Retires, WorkerTurns, Fetches, FetchFromQueue, FetchFromStream, Fetch,
         AttemptEnds, AttemptSucceeds, AttemptFails, FailsWithin, GiveUp, FailsBeyond,
         Attempted, Answered, Acknowledge, NegativeAck, AnswerLost, Replied, Requeue, DelayEnds,
         AckWaitEnds, DueAgain, Unsubscribe, Reply, SwitchSpace, WorkerFails, FetchLost,
         RedriveRaises, AnswerRaises, TaskEnds
    <3>3. QED
      BY <1>1, <2>2, <3>1, <3>2 DEF StoredUntilEnded, InStream
  <2>6. QED
    BY <2>3, <2>4, <2>5, <2>7
<1>2. QED
  BY <1>1 DEF StoredUntilEnded

\* The inductive invariant holds at first ...
LEMMA DeliveryStart == Init => DeliveryInv
<1> SUFFICES ASSUME Init PROVE DeliveryInv
  OBVIOUS
<1>a. /\ hand.step = "empty" /\ hand = EmptyHand /\ hand.attempt = 0 /\ queue = <<>>
      /\ publishing = <<>> /\ worker = "none" /\ mode = "down" /\ published = 0
      /\ crashes = 0 /\ faults = 0 /\ stored = {} /\ dropped = {}
      /\ \A j \in Jobs : /\ mail[j] = "none" /\ sent[j] = 0
                         /\ done[j] = 0 /\ failed[j] = 0 /\ dead[j] = 0
  BY DEF Init, EmptyHand
<1>b. JobsIn(queue) = {} /\ EachOnce(queue) /\ Len(queue) = 0 /\ Len(publishing) = 0
  BY <1>a, EmptyQueue, EmptySeq
<1>c. HandedOver = 0
  <2>1. published = 0 /\ Len(publishing) = 0
    BY <1>a, <1>b
  <2>2. QED
    BY <2>1 DEF HandedOver
<1>1. DeliveryTypeOK
  BY TypeStart
<1>2. HandFits
  BY <1>a, BoundsAssumption DEF HandFits
<1>3. PublishingFits
  BY <1>a, <1>b, <1>c DEF PublishingFits, Unseen, Holding
<1>4. CopiesFit
  BY <1>a, <1>b DEF CopiesFit
<1>5. EndsFit
  <2>1. \A j \in Jobs : AtBroker(j) = 0 /\ InProcess(j) = 0
    BY <1>a, <1>b DEF AtBroker, InStream, InProcess, Holding
  <2>2. QED
    BY <1>a, <2>1 DEF EndsFit
<1>6. AttemptsFit
  <2>1. \A j \in Jobs : Attempts(j) = 0 /\ Attempting(j) = 0
    BY <1>a DEF Attempts, Attempting
  <2>2. RetriesAreUsed
    BY <1>a DEF RetriesAreUsed
  <2>3. QED
    BY <1>a, <1>b, <2>1, <2>2 DEF AttemptsFit
<1>7. PlacesFit
  BY <1>a, <1>c DEF PlacesFit
<1>8. TurnsFit
  BY <1>a, <1>b DEF TurnsFit, Holding
<1>9. StoredUntilEnded
  BY <1>a DEF StoredUntilEnded
<1>10. QED
  BY <1>1, <1>2, <1>3, <1>4, <1>5, <1>6, <1>7, <1>8, <1>9 DEF DeliveryInv, OrderFits

\* ... every step keeps it ...
LEMMA DeliveryStep == DeliveryInv /\ [Next]_vars => DeliveryInv'
<1> SUFFICES ASSUME DeliveryInv, [Next]_vars PROVE DeliveryInv'
  OBVIOUS
<1>1. DeliveryTypeOK' /\ HandFits'
  BY ProcessTypes, OtherTypes, HandStep DEF DeliveryInv, DeliveryTypeOK
<1>2. PublishingFits' /\ CopiesFit' /\ EndsFit'
  BY PublishingStep, CopiesStep, EndsStep DEF DeliveryInv
<1>3. AttemptsFit' /\ StoredUntilEnded'
  BY AttemptsStep, StoredStep DEF DeliveryInv
<1>4. Unbroken' => PlacesFit' /\ TurnsFit'
  BY PlacesStep, TurnsStep
<1>5. OrderFits'
  BY <1>4 DEF OrderFits, Unbroken
<1>6. QED
  BY <1>1, <1>2, <1>3, <1>5 DEF DeliveryInv

\* ... and so it always holds.
LEMMA DeliveryInvariant == Spec => []DeliveryInv
BY DeliveryStart, DeliveryStep, PTL DEF Spec

-----------------------------------------------------------------------------
\* The state of the publisher's hook, the worker, the queue and the stream of a
\* subscription is well formed (core/sns_delivery.py).
THEOREM TypeCorrect == Spec => []TypeOK
<1>1. DeliveryInv => TypeOK
  BY DEF DeliveryInv, DeliveryTypeOK, ProcessTypeOK, BrokerTypeOK, ResultsTypeOK, BoundsTypeOK,
     FlagsTypeOK, HandFits, TypeOK
<1>2. QED
  BY <1>1, DeliveryInvariant, PTL

\* A stored job stays in the stream until it has ended, and no later job is delivered
\* before it unless it failed an attempt or something broke (sns_delivery.py,
\* _enqueue, _worker and _process).
THEOREM StoredJobsKeepTheirTurn == Spec => []StoredInTurn
<1>1. ASSUME DeliveryInv, NEW i \in Jobs, NEW j \in Jobs, i < j, done[j] > 0, ~Ended(i)
      PROVE  failed[i] > 0 \/ crashes + faults > 0
  <2>1. failed[i] \in Nat /\ done[j] \in Nat /\ crashes \in Nat /\ faults \in Nat
    BY <1>1, BoundsAssumption DEF DeliveryInv, DeliveryTypeOK, ResultsTypeOK, BoundsTypeOK
  <2>2. crashes + faults = 0 => ~Untouched(i)
    BY <1>1, <2>1 DEF DeliveryInv, OrderFits, TurnsFit
  <2>3. CASE crashes + faults = 0
    BY <1>1, <2>1, <2>2, <2>3 DEF Untouched
  <2>4. CASE crashes + faults # 0
    BY <2>1, <2>4
  <2>5. QED
    BY <2>3, <2>4
<1>2. DeliveryInv => StoredInTurn
  BY <1>1 DEF DeliveryInv, StoredInTurn, OvertakenOnlyByFailure
<1>3. QED
  BY <1>2, DeliveryInvariant, PTL

\* A job has one end unless a crash or a fault paid for another, and every retry it
\* is redriven without was paid for by one, too: the broker counts deliveries, not
\* attempts (sns_delivery.py, _worker, _process and _redrive).
THEOREM EndsAreEarned == Spec => []OutcomesAreEarned
<1>1. ASSUME DeliveryInv, NEW j \in Jobs PROVE done[j] + dead[j] <= 1 + crashes + faults
  <2>1. /\ done[j] \in Nat /\ dead[j] \in Nat /\ crashes \in Nat /\ faults \in Nat
        /\ AtBroker(j) \in {0, 1} /\ InProcess(j) \in {0, 1}
    BY <1>1, CountTypes, BoundsAssumption
       DEF DeliveryInv, DeliveryTypeOK, ResultsTypeOK, BoundsTypeOK
  <2>2. done[j] + dead[j] + AtBroker(j) + InProcess(j) <= 1 + crashes + faults
    BY <1>1 DEF DeliveryInv, EndsFit
  <2>3. QED
    BY <2>1, <2>2
<1>2. DeliveryInv => OutcomesAreEarned
  BY <1>1 DEF DeliveryInv, AttemptsFit, OutcomesAreEarned, OutcomesAreBounded
<1>3. QED
  BY <1>2, DeliveryInvariant, PTL
=============================================================================
