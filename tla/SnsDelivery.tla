---------------------------- MODULE SnsDelivery ----------------------------
(***************************************************************************)
(* core/sns_delivery.py for ONE subscription: the publisher's hook, the    *)
(* worker task of the subscription, and the JetStream work queue behind    *)
(* it.  Subscriptions share nothing but the stream (each has its own       *)
(* subject, durable consumer, worker and queue), so one stands for all.    *)
(*                                                                         *)
(* A delivery job is its place in the order of publication.  The process   *)
(* may be killed at any moment and started again; the broker keeps what it *)
(* stored.  Retry delays are timers: how long they are is left out, that   *)
(* they end is kept.                                                       *)
(*                                                                         *)
(* Retries     - numRetries of the subscription's delivery policy          *)
(* MaxJobs     - how many jobs are published                               *)
(* MaxCrashes  - how often the process is killed                           *)
(* MaxFaults   - how often a call to the broker fails or loses its reply,  *)
(*               or building a redriven payload raises                     *)
(***************************************************************************)
EXTENDS Naturals, Sequences, SequencesExt

CONSTANTS Retries, MaxJobs, MaxCrashes, MaxFaults

ASSUME BoundsAssumption ==
  /\ Retries \in Nat /\ MaxCrashes \in Nat /\ MaxFaults \in Nat
  /\ MaxJobs \in Nat \ {0}

VARIABLES
  mode,        \* Delivery.mode, "down" while no process runs
  subscribed,  \* is the subscription in its topic?
  active,      \* is the subscription's space the active one?
  published,   \* jobs handed to the hook so far
  publishing,  \* jobs whose js.publish is awaited, in the order sent
  queue,       \* the subscription's asyncio.Queue: <<job, attempt>> pairs
  worker,      \* the worker task: what it reads, if it runs
  hand,        \* what _process has in hand
  consumer,    \* broker: does the durable consumer exist?
  mail,        \* broker: state of the stored message of each job
  sent,        \* broker: num_delivered of each stored message
  done,        \* per job: attempts the endpoint accepted
  failed,      \* per job: attempts that failed
  dead,        \* per job: times it was given up and redriven
  dropped,     \* jobs dropped because their subscription was not found
  stored,      \* jobs the broker ever stored
  crashes, faults

process == <<mode, publishing, queue, worker, hand>>
user    == <<subscribed, active, published>>
broker  == <<consumer, mail, sent, stored>>
results == <<done, failed, dead, dropped>>
bounds  == <<crashes, faults>>
vars    == <<process, user, broker, results, bounds>>

\* What a worker at work leaves alone.
around  == <<mode, publishing, worker, user, consumer, stored>>

Jobs == 1..MaxJobs

EmptyHand == [job |-> 0, attempt |-> 0, step |-> "empty"]
Steps == {"empty", "attempt", "retry", "ack"}

\* "new": never delivered; "out": delivered, no answer yet; "delayed": negatively
\* acknowledged, its delay running; "again": due for redelivery.
MailStates == {"none", "new", "out", "delayed", "again"}

TypeOK ==
  /\ mode \in {"down", "jetstream", "memory"}
  /\ subscribed \in BOOLEAN /\ active \in BOOLEAN /\ consumer \in BOOLEAN
  /\ published \in 0..MaxJobs
  /\ publishing \in Seq(Jobs)
  /\ queue \in Seq(Jobs \X (1..Retries + 1))
  /\ worker \in {"none", "starting", "stream", "queue"}
  /\ hand \in [job : Nat, attempt : Nat, step : Steps]
  /\ hand.step # "empty" => worker \in {"stream", "queue"} /\ hand.job \in Jobs
  /\ worker = "queue" => hand.attempt <= Retries + 1
  /\ mail \in [Jobs -> MailStates]
  /\ sent \in [Jobs -> Nat] /\ done \in [Jobs -> Nat]
  /\ failed \in [Jobs -> Nat] /\ dead \in [Jobs -> Nat]
  /\ dropped \subseteq Jobs /\ stored \subseteq Jobs
  /\ crashes \in 0..MaxCrashes /\ faults \in 0..MaxFaults

Up == mode # "down"
InStream(j) == mail[j] # "none"

\* _find: the store shows the topics of the active space only.
Found == subscribed /\ active

Ended(j) == done[j] > 0 \/ dead[j] > 0 \/ j \in dropped

\* The first process of a fresh appliance, before _boot has run.
Init ==
  /\ mode = "down" /\ subscribed = TRUE /\ active = TRUE /\ published = 0
  /\ publishing = <<>> /\ queue = <<>> /\ worker = "none" /\ hand = EmptyHand
  /\ consumer = FALSE
  /\ mail = [j \in Jobs |-> "none"] /\ sent = [j \in Jobs |-> 0]
  /\ done = [j \in Jobs |-> 0] /\ failed = [j \in Jobs |-> 0]
  /\ dead = [j \in Jobs |-> 0] /\ dropped = {} /\ stored = {}
  /\ crashes = 0 /\ faults = 0

\* A call to the broker fails, or its answer is lost.
Fault == faults < MaxFaults /\ faults' = faults + 1 /\ UNCHANGED crashes

(***************************************************************************)
(* _boot: connect and resume the durable consumers, or fall back to the    *)
(* in-process queues.  No broker from the start is an installation without *)
(* one; losing it between two lives of the process is a failure.           *)
(***************************************************************************)
Boot(m, task) ==
  /\ mode = "down" /\ mode' = m /\ worker' = task
  /\ UNCHANGED <<publishing, queue, hand, user, broker, results>>

\* Mutant of BootJetStream: the durable consumers are not resumed.
BootUnresumed == Boot("jetstream", "none") /\ UNCHANGED bounds

\* Whose consumers are listed is resumed; the listing may fail, and nobody is.
BootJetStream ==
  \/ Boot("jetstream", IF consumer THEN "starting" ELSE "none") /\ UNCHANGED bounds
  \/ Boot("jetstream", "none") /\ Fault

BootMemory == Boot("memory", "none") /\ (Fault \/ (crashes = 0 /\ UNCHANGED bounds))

\* The process is killed: the tasks, the queue and unanswered publications go.
Crash ==
  /\ Up /\ crashes < MaxCrashes
  /\ crashes' = crashes + 1
  /\ mode' = "down" /\ publishing' = <<>> /\ queue' = <<>>
  /\ worker' = "none" /\ hand' = EmptyHand
  /\ UNCHANGED <<user, broker, results, faults>>

(***************************************************************************)
(* enqueue and _enqueue up to its await: a worker is made sure of, then    *)
(* the job is sent to the stream, or without a broker queued at once.      *)
(* While no process is ready the hook returns False and nothing is queued. *)
(***************************************************************************)
Enqueue ==
  /\ Up /\ Found /\ published < MaxJobs
  /\ published' = published + 1
  /\ worker' = IF worker = "none" THEN "starting" ELSE worker
  /\ IF mode = "jetstream"
       THEN publishing' = Append(publishing, published') /\ UNCHANGED queue
       ELSE queue' = Append(queue, <<published', 1>>) /\ UNCHANGED publishing
  /\ UNCHANGED <<mode, subscribed, active, hand, broker, results, bounds>>

Store(j) ==
  /\ mail' = [mail EXCEPT ![j] = "new"] /\ stored' = stored \cup {j}
  /\ UNCHANGED <<consumer, sent>>

Published ==
  /\ publishing # <<>> /\ publishing' = Tail(publishing)
  /\ UNCHANGED <<mode, worker, hand, user, results>>

PublishAcked == Published /\ Store(Head(publishing)) /\ UNCHANGED <<queue, bounds>>

\* The publication raises: the job goes to the in-process queue, whether or
\* not the broker had stored it, and whatever the worker reads by then.
PublishFails ==
  /\ Published /\ Fault
  /\ Store(Head(publishing)) \/ UNCHANGED broker
  /\ queue' = Append(queue, <<Head(publishing), 1>>)

(***************************************************************************)
(* _worker: subscribe, then fetch one job at a time.                       *)
(***************************************************************************)
WorkerTurns(from, to) ==
  /\ worker = from /\ worker' = to
  /\ UNCHANGED <<mode, publishing, queue, hand, user, mail, sent, stored, results>>

WorkerSubscribes ==
  /\ mode = "jetstream" /\ WorkerTurns("starting", "stream")
  /\ consumer' = TRUE /\ UNCHANGED bounds

\* pull_subscribe raises, perhaps after the broker created the consumer.
WorkerSubscribeFails ==
  /\ mode = "jetstream" /\ WorkerTurns("starting", "queue")
  /\ consumer' \in {consumer, TRUE} /\ Fault

WorkerWithoutBroker ==
  mode = "memory" /\ WorkerTurns("starting", "queue") /\ UNCHANGED <<consumer, bounds>>

Retires == hand = EmptyHand /\ WorkerTurns("queue", "none") /\ UNCHANGED <<consumer, bounds>>

\* Mutant of WorkerRetires: only its own idleness is looked at.
RetiresBlindly == Retires

\* A worker on the in-process queue retires after five idle minutes.
WorkerRetires == Retires /\ queue = <<>>

\* What the broker hands out next: messages due again come before new ones,
\* and those in the order they were stored.
Due == {j \in Jobs : mail[j] = "again"}
New == {j \in Jobs : mail[j] = "new"}
NextInStream(j) == j \in Due \/ (Due = {} /\ j \in New /\ \A i \in New : j <= i)

InHand(j, attempt, step) == [job |-> j, attempt |-> attempt, step |-> step]

\* The first lines of _process: a job whose subscription is not found is dropped,
\* be it gone or in a space that is not active now.
Take(j, attempt) ==
  /\ hand = EmptyHand
  /\ IF Found
       THEN hand' = InHand(j, attempt, "attempt") /\ UNCHANGED dropped
       ELSE /\ dropped' = dropped \cup {j}
            /\ hand' = IF worker = "stream" THEN InHand(j, attempt, "ack") ELSE EmptyHand
  /\ UNCHANGED <<around, done, failed, dead, bounds>>

Fetch(j, kept) ==
  /\ worker = "stream" /\ NextInStream(j)
  /\ mail' = [mail EXCEPT ![j] = kept] /\ sent' = [sent EXCEPT ![j] = @ + 1]
  /\ Take(j, sent'[j])
  /\ UNCHANGED queue

\* Mutant of FetchFromStream: the message is acknowledged when it is fetched.
AcksOnFetch(j) == Fetch(j, "none")

FetchFromStream(j) == Fetch(j, "out")

\* The broker hands a job out and its reply is lost or cannot be read: the delivery
\* counts, and the worker fetches again.
FetchLost(j) ==
  /\ worker = "stream" /\ hand = EmptyHand /\ NextInStream(j) /\ Fault
  /\ mail' = [mail EXCEPT ![j] = "out"] /\ sent' = [sent EXCEPT ![j] = @ + 1]
  /\ UNCHANGED <<process, user, consumer, stored, results>>

\* Mutant of FetchFromQueue: the queue is read from the wrong end.
FetchesLatest ==
  /\ worker = "queue" /\ queue # <<>> /\ queue' = Front(queue)
  /\ Take(Last(queue)[1], Last(queue)[2])
  /\ UNCHANGED <<mail, sent>>

FetchFromQueue ==
  /\ worker = "queue" /\ queue # <<>> /\ queue' = Tail(queue)
  /\ Take(Head(queue)[1], Head(queue)[2])
  /\ UNCHANGED <<mail, sent>>

(***************************************************************************)
(* _process: one attempt in a thread, then the answer to the broker.       *)
(***************************************************************************)
Attempted == hand.step = "attempt" /\ UNCHANGED <<around, mail, sent, dropped, bounds>>

\* The worker turns to its answer to the broker, if there is one to give.
Answer(step) == hand' = [hand EXCEPT !.step = step] /\ UNCHANGED queue
Settle == IF worker = "stream" THEN Answer("ack") ELSE hand' = EmptyHand /\ UNCHANGED queue

AttemptSucceeds ==
  /\ Attempted /\ Settle
  /\ done' = [done EXCEPT ![hand.job] = @ + 1]
  /\ UNCHANGED <<failed, dead>>

FailsWithin(retries) ==
  /\ Attempted /\ hand.attempt <= retries /\ Answer("retry")
  /\ failed' = [failed EXCEPT ![hand.job] = @ + 1]
  /\ UNCHANGED <<done, dead>>

\* Mutant of AttemptFails: one retry too many.
RetriesOnceMore == FailsWithin(Retries + 1)

AttemptFails == FailsWithin(Retries)

FailsBeyond(retries) ==
  /\ Attempted /\ hand.attempt > retries
  /\ failed' = [failed EXCEPT ![hand.job] = @ + 1]
  /\ dead' = [dead EXCEPT ![hand.job] = @ + 1]
  /\ UNCHANGED done

\* Mutants of GiveUp: a retry too early; and returning before the acknowledgement.
GivesUpEarly      == FailsBeyond(Retries - 1) /\ Settle
GivesUpUnanswered == FailsBeyond(Retries) /\ hand' = EmptyHand /\ UNCHANGED queue

\* The last attempt fails: _redrive, in the same turn of the loop.
GiveUp == FailsBeyond(Retries) /\ Settle

\* What is raised outside the try of _process ends the worker's task; only the next
\* publication or restart makes a new one.  A job of the queue is gone with it.
TaskEnds ==
  /\ worker' = "none" /\ hand' = EmptyHand /\ Fault
  /\ UNCHANGED <<mode, publishing, queue, user, consumer, stored, sent>>

\* _redrive cannot build the payload of a job that is given up.
RedriveRaises ==
  /\ hand.step = "attempt" /\ hand.attempt > Retries /\ TaskEnds
  /\ failed' = [failed EXCEPT ![hand.job] = @ + 1]
  /\ UNCHANGED <<mail, done, dead, dropped>>

\* msg.ack() and msg.nak(delay).
Reply(step) ==
  /\ worker = "stream" /\ hand.step = step
  /\ mail' = [mail EXCEPT ![hand.job] = IF step = "ack" THEN "none" ELSE "delayed"]

Replied ==
  /\ hand' = EmptyHand
  /\ UNCHANGED <<around, queue, sent, results>>

Acknowledge == Reply("ack") /\ Replied /\ UNCHANGED bounds
NegativeAck == Reply("retry") /\ Replied /\ UNCHANGED bounds

\* Either is lost with the connection, and the worker does not hear of it.
AnswerLost ==
  /\ worker = "stream" /\ hand.step \in {"retry", "ack"}
  /\ Replied /\ Fault /\ UNCHANGED mail

\* Or it raises, whether or not the broker had it.
AnswerRaises ==
  /\ worker = "stream" /\ hand.step \in {"retry", "ack"}
  /\ TaskEnds /\ UNCHANGED results
  /\ Reply(hand.step) \/ UNCHANGED mail

\* Without a message the worker sleeps for the delay and puts the job back.
Requeue ==
  /\ worker = "queue" /\ hand.step = "retry" /\ hand' = EmptyHand
  /\ queue' = Append(queue, <<hand.job, hand.attempt + 1>>)
  /\ UNCHANGED <<around, mail, sent, results, bounds>>

(***************************************************************************)
(* The broker's timers: the delay of a negative acknowledgement, and       *)
(* ack_wait (120 s, longer than an attempt may take).                      *)
(***************************************************************************)
DueAgain(j, before) ==
  /\ mail[j] = before /\ mail' = [mail EXCEPT ![j] = "again"]
  /\ UNCHANGED <<process, user, consumer, sent, stored, results, bounds>>

DelayEnds(j)   == DueAgain(j, "delayed")
AckWaitEnds(j) == ~(worker = "stream" /\ hand.job = j) /\ DueAgain(j, "out")

\* sns_core _unsubscribe: the jobs already queued are not touched.
Unsubscribe ==
  /\ Up /\ Found /\ subscribed' = FALSE
  /\ UNCHANGED <<process, active, published, broker, results, bounds>>

\* The user turns to another space, or comes back.
SwitchSpace ==
  /\ Up /\ active' = ~active
  /\ UNCHANGED <<process, subscribed, published, broker, results, bounds>>

WorkerStarts == WorkerSubscribes \/ WorkerSubscribeFails \/ WorkerWithoutBroker
Fetches == FetchFromQueue \/ \E j \in Jobs : FetchFromStream(j)
AttemptEnds == AttemptSucceeds \/ AttemptFails \/ GiveUp
Answered == Acknowledge \/ NegativeAck \/ AnswerLost \/ Requeue
WorkerFails == (\E j \in Jobs : FetchLost(j)) \/ RedriveRaises \/ AnswerRaises

Next ==
  \/ BootJetStream \/ BootMemory \/ Crash
  \/ Enqueue \/ PublishAcked \/ PublishFails
  \/ WorkerStarts \/ WorkerRetires \/ Fetches \/ AttemptEnds \/ Answered \/ WorkerFails
  \/ \E j \in Jobs : DelayEnds(j) \/ AckWaitEnds(j)
  \/ Unsubscribe \/ SwitchSpace

(***************************************************************************)
(* The supervisor restarts the process; the worker's loop, which waits at  *)
(* most for a fetch or an attempt that times out, keeps running; and each  *)
(* timer of the broker ends.  Users and failures owe nothing.              *)
(***************************************************************************)
Fairness ==
  /\ WF_vars(BootJetStream \/ BootMemory)
  /\ WF_vars(WorkerStarts \/ Fetches \/ AttemptEnds \/ Answered)
  /\ \A j \in Jobs : WF_vars(DelayEnds(j) \/ AckWaitEnds(j))

Spec == Init /\ [][Next]_vars /\ Fairness

(***************************************************************************)
(* Properties.                                                             *)
(***************************************************************************)

\* What the broker has stored leaves it only when the job has ended: accepted
\* by the endpoint, redriven after its retries, or dropped because its
\* subscription was not found.  No crash, retry, lost answer or end of the
\* worker's task in between takes it away.
StoredUntilEnded == \A j \in stored : InStream(j) \/ Ended(j)

\* Every outcome beyond a job's first is paid for by a crash or by a failed
\* call to the broker: while nothing fails a job is delivered once or dead-
\* lettered once, and never both.
OutcomesAreBounded == \A j \in Jobs : done[j] + dead[j] <= 1 + crashes + faults

\* A job is redriven before Retries + 1 attempts were made on it only at the price
\* of as many crashes or faults: the broker's count, which decides, also counts a
\* delivery nobody attempted, because its reply was lost or a crash cut it short,
\* and an acceptance whose acknowledgement was lost.  Nothing else: not the drop
\* of a job while its space is not active, nor an unsubscription.
RetriesAreUsed ==
  \A j \in Jobs : dead[j] > 0 => failed[j] + done[j] + crashes + faults >= Retries + 1

\* A later job is delivered before an earlier one has ended only when the
\* earlier one has failed an attempt, or something broke: the workers
\* themselves never reorder.
OvertakenOnlyByFailure ==
  \A i, j \in Jobs :
    i < j /\ done[j] > 0 /\ ~Ended(i) => failed[i] > 0 \/ crashes + faults > 0

\* What was stored stays its turn: it is not lost before its end
\* (StoredUntilEnded), nor overtaken without a cause (OvertakenOnlyByFailure).
StoredInTurn == StoredUntilEnded /\ OvertakenOnlyByFailure

\* The end a job comes to is the one its attempts have earned: one outcome unless
\* something broke (OutcomesAreBounded), and no redrive before the retries are
\* used up unless something broke (RetriesAreUsed).
OutcomesAreEarned == OutcomesAreBounded /\ RetriesAreUsed

\* Once the durable consumer exists, a stored job is worked off and leaves the
\* stream whatever crashes come between, as long as the broker answers.
ResumesAfterRestart ==
  \A j \in Jobs : consumer /\ InStream(j) ~> ~InStream(j) \/ faults > 0

\* A worker that reads the place a job lies in empties it of that job, unless the
\* process is killed or another call fails first.  After a failure that the worker
\* outlives, a lost reply or answer, it is bound again; one that ends its task
\* leaves the job to the next publication or restart.
TendedJobsLeave ==
  \A j \in Jobs, n \in 0..MaxFaults :
    /\ (faults = n /\ worker = "stream" /\ InStream(j)) ~> (~InStream(j) \/ ~Up \/ faults > n)
    /\ (faults = n /\ worker = "queue" /\ \E a \in 1..Retries + 1 : Contains(queue, <<j, a>>))
         ~> (Ended(j) \/ ~Up \/ faults > n)

\* The module's docstring: "a subscription's messages are delivered in order".
DeliveredInOrder == \A i, j \in Jobs : i < j /\ done[j] > 0 /\ i <= published => Ended(i)

\* The comment at the drop: "unsubscribed meanwhile: drop".
DroppedWhenUnsubscribed == dropped # {} => ~subscribed
=============================================================================
