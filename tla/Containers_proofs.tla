------------------------- MODULE Containers_proofs -------------------------
(***************************************************************************)
(* Proofs about the two records that stand for a container: an EC2         *)
(* instance (Ec2Instances) and a backend's ProvisionState row              *)
(* (Provisioner), each for any number of threads.                          *)
(*                                                                         *)
(* OrphansWereEnded is      not inductive: a launch creates the container  *)
(* long after it looked the record up, and a crash goes back to what was   *)
(* saved.  RecordKept adds both: a launch that is under way, and the store.*)
(***************************************************************************)
EXTENDS Ec2Instances, Provisioner, TLAPS

\* Bringing a record up to date keeps its kind, never makes it "none", and makes no
\* record terminated.
LEMMA SyncedRecord ==
  ASSUME NEW r \in Records, NEW status \in Boxes
  PROVE  /\ Synced(r, status) \in Records
         /\ Synced(r, status).state # "none"
         /\ Synced(r, status).state = "terminated" => r.state = "terminated"
<1>1. CASE status = "none"
  BY <1>1 DEF Synced, Records, Down, Unsettled
<1>2. CASE status = "stopped"
  BY <1>2 DEF Synced, Records, Down, Unsettled
<1>3. CASE status = "running"
  BY <1>3 DEF Synced, Records, Down, Unsettled
<1> QED BY <1>1, <1>2, <1>3 DEF Boxes

\* What a restart makes of the saved record: it is loaded, and brought up to date if
\* LXD answers.
LEMMA RestartedRecord ==
  ASSUME TypeOK, Restart
  PROVE  \E r \in Records :
           /\ instance' = IF saved.listed THEN r ELSE saved.instance
           /\ listed' = (saved.listed /\ ~Expired(r))
           /\ saved.listed => r.state # "none"
           /\ r.state = "terminated" => saved.instance.state = "terminated"
<1>1. box' \in Boxes /\ saved.instance \in Records
  BY DEF Restart, TypeOK, PlaceType, StoreType, Boxes
<1>2. PICK r \in {saved.instance} \cup {Synced(saved.instance, status) : status \in {box', "none"}} :
        /\ instance' = IF saved.listed THEN r ELSE saved.instance
        /\ listed' = (saved.listed /\ ~Expired(r))
  BY DEF Restart
<1>3. CASE r = saved.instance
  BY <1>1, <1>2, <1>3 DEF TypeOK, StoreType
<1>4. CASE \E status \in {box', "none"} : r = Synced(saved.instance, status)
  BY <1>1, <1>2, <1>4, SyncedRecord DEF Boxes
<1> QED BY <1>2, <1>3, <1>4

\* The store changes only by a save of the whole state.
LEMMA OnlySaves == Next => Persist \/ saved' = saved
  BY DEF Next, Step, Worker, Arrive, Listing, WorkerBegin, WorkerCheck, WorkerLook, WorkerLaunch,
         WorkerLaunched, WorkerStatus, WorkerStart, WorkerMark, WorkerReady, WorkerFails,
         Outcome, StopLook, StopBox, StopMark, RebootLook, RebootWaits, RebootBox, RebootMark,
         TerminateLook, TerminateBox, TerminateMark, CleanUpLook, CleanUpBox, Create, Start,
         Stop, Reboot, TerminateSimulated, Terminate, CleanUp, DeleteSpace, RestoreSnapshot,
         Remove, ListPrunes, ListLook, ListSync, Pruned, Ages, ByHand, Save, Restart, record

\* A step of a thread keeps the record and the places well typed.
LEMMA StepTypes ==
  ASSUME TypeOK, NEW x \in Thread, Step(x)
  PROVE  RecordType' /\ PlaceType'
<1>1. RecordType'
  <2> USE DEF TypeOK, RecordType, record
  <2>1. CASE UNCHANGED record
    BY <2>1
  <2>2. CASE WorkerBegin(x)
    BY <2>2 DEF WorkerBegin, Records, Unsettled
  <2>3. CASE WorkerLook(x)
    BY <2>3 DEF WorkerLook, Records
  <2>4. CASE WorkerLaunched(x)
    BY <2>4 DEF WorkerLaunched, Records
  <2>5. CASE WorkerMark(x)
    BY <2>5 DEF WorkerMark, Records
  <2>6. CASE WorkerReady(x)
    BY <2>6 DEF WorkerReady, Outcome, Records
  <2>7. CASE WorkerFails(x)
    BY <2>7 DEF WorkerFails, Outcome, Records, Unsettled
  <2>8. CASE StopMark(x)
    BY <2>8 DEF StopMark, Records, Down
  <2>9. CASE RebootLook(x) \/ RebootWaits(x)
    <3>1. listed' = listed /\ instance' \in {instance, [instance EXCEPT !.state = "rebooting"]}
      BY <2>9 DEF RebootLook, RebootWaits, Reboots
    <3> QED BY <3>1 DEF Records
  <2>10. CASE RebootMark(x)
    BY <2>10 DEF RebootMark, Records
  <2>11. CASE TerminateMark(x)
    BY <2>11 DEF TerminateMark, Terminated, Records, Down
  <2>12. \/ UNCHANGED record \/ WorkerBegin(x) \/ WorkerLook(x) \/ WorkerLaunched(x)
         \/ WorkerMark(x) \/ WorkerReady(x) \/ WorkerFails(x) \/ StopMark(x)
         \/ RebootLook(x) \/ RebootWaits(x) \/ RebootMark(x) \/ TerminateMark(x)
    BY DEF Step, Worker, WorkerCheck, WorkerLaunch, WorkerStatus, WorkerStart, StopLook, StopBox,
           RebootBox, TerminateLook, TerminateBox, CleanUpLook, CleanUpBox
  <2> QED BY <2>1, <2>2, <2>3, <2>4, <2>5, <2>6, <2>7, <2>8, <2>9, <2>10, <2>11, <2>12
<1>2. PlaceType'
  <2> USE DEF TypeOK, PlaceType, WorkerPcs, RequestPcs, Boxes, Goto, Finish
  <2>1. CASE WorkerBegin(x) \/ WorkerCheck(x) \/ WorkerLook(x) \/ WorkerLaunch(x)
    BY <2>1 DEF WorkerBegin, WorkerCheck, WorkerLook, WorkerLaunch
  <2>2. CASE WorkerLaunched(x) \/ WorkerStatus(x) \/ WorkerStart(x) \/ WorkerMark(x)
    BY <2>2 DEF WorkerLaunched, WorkerStatus, WorkerStart, WorkerMark
  <2>3. CASE WorkerReady(x) \/ WorkerFails(x)
    BY <2>3 DEF WorkerReady, WorkerFails, Outcome
  <2>4. CASE StopLook(x) \/ StopBox(x) \/ StopMark(x)
    BY <2>4 DEF StopLook, StopBox, StopMark
  <2>5. CASE RebootLook(x) \/ RebootWaits(x) \/ RebootBox(x) \/ RebootMark(x)
    BY <2>5 DEF RebootLook, RebootWaits, RebootBox, RebootMark, Reboots
  <2>6. CASE TerminateLook(x) \/ TerminateBox(x) \/ TerminateMark(x)
    BY <2>6 DEF TerminateLook, TerminateBox, TerminateMark
  <2>7. CASE CleanUpLook(x) \/ CleanUpBox(x)
    BY <2>7 DEF CleanUpLook, CleanUpBox
  <2> QED BY <2>1, <2>2, <2>3, <2>4, <2>5, <2>6, <2>7 DEF Step, Worker
<1> QED BY <1>1, <1>2

\* So does the arrival of a request.
LEMMA ArriveTypes ==
  ASSUME TypeOK, NEW x \in Thread, Arrive(x)
  PROVE  RecordType' /\ PlaceType'
<1> USE DEF TypeOK, RecordType, PlaceType, Goto, Request, record
<1>1. RecordType'
  <2>1. CASE Create(x) \/ Start(x)
    BY <2>1 DEF Create, Start, NotMade, Records, Down, Unsettled
  <2>2. CASE Stop(x) \/ Reboot(x) \/ Terminate(x) \/ CleanUp(x)
    BY <2>2 DEF Stop, Reboot, Terminate, CleanUp
  <2>3. CASE TerminateSimulated(x)
    BY <2>3 DEF TerminateSimulated, Terminated, Records, Down
  <2>4. CASE DeleteSpace(x) \/ RestoreSnapshot(x)
    BY <2>4 DEF DeleteSpace, RestoreSnapshot, Remove
  <2> QED BY <2>1, <2>2, <2>3, <2>4, Arrive(x) DEF Arrive
<1>2. PlaceType'
  BY DEF Arrive, Create, Start, Stop, Reboot, Terminate, CleanUp, TerminateSimulated,
         DeleteSpace, RestoreSnapshot, Remove, WorkerPcs, RequestPcs
<1> QED BY <1>1, <1>2

\* So does everything that is no request: the listing, time, hands, saves, restarts.
LEMMA OtherTypes ==
  ASSUME TypeOK, Listing \/ Ages \/ ByHand \/ Save \/ Restart
  PROVE  RecordType' /\ PlaceType'
<1> USE DEF TypeOK, RecordType, PlaceType, record
<1>1. RecordType'
  <2>1. CASE ListPrunes \/ ListLook
    BY <2>1 DEF ListPrunes, ListLook, Pruned
  <2>2. CASE ListSync
    BY <2>2, SyncedRecord DEF ListSync, Pruned, Boxes
  <2>3. CASE Ages
    BY <2>3 DEF Ages, Records
  <2>5. CASE ByHand \/ Save
    BY <2>5 DEF ByHand, Save
  <2>4. CASE Restart
    BY <2>4, RestartedRecord DEF StoreType
  <2> QED BY <2>1, <2>2, <2>3, <2>4, <2>5 DEF Listing
<1>2. PlaceType'
  BY DEF Listing, ListPrunes, ListLook, ListSync, Pruned, Ages, ByHand, Save, Restart, Boxes,
         WorkerPcs
<1> QED BY <1>1, <1>2

\* What the bounds count goes up by one or not at all, and history stays Boolean.
LEMMA Counted == Next => requests' \in {requests, requests + 1} /\ events' \in {events, events + 1}
  BY DEF Next, Step, Worker, Arrive, Listing, WorkerBegin, WorkerCheck,
         WorkerLook, WorkerLaunch, WorkerLaunched, WorkerStatus, WorkerStart, WorkerMark,
         WorkerReady, WorkerFails, Outcome, StopLook, StopBox, StopMark, RebootLook,
         RebootWaits, RebootBox, RebootMark, TerminateLook, TerminateBox, TerminateMark,
         CleanUpLook, CleanUpBox, Create, Start, Stop, Reboot, TerminateSimulated, Terminate,
         CleanUp, DeleteSpace, RestoreSnapshot, Remove, ListPrunes, ListLook, ListSync, Ages, ByHand, Save, Restart, Request, Fault,
         NoFault, bounds
\* Every step keeps the types of the history variables.
LEMMA HistoryTypes == TypeOK /\ [Next]_vars => HistoryType'
  BY ZenonT(60) DEF TypeOK, HistoryType, Next, Step, Worker, Arrive, Listing, WorkerBegin, WorkerCheck,
         WorkerLook, WorkerLaunch, WorkerLaunched, WorkerStatus, WorkerStart, WorkerMark,
         WorkerReady, WorkerFails, Outcome, StopLook, StopBox, StopMark, RebootLook,
         RebootWaits, RebootBox, RebootMark, TerminateLook, TerminateBox, TerminateMark,
         CleanUpLook, CleanUpBox, Create, Start, Stop, Reboot, TerminateSimulated, Terminate,
         CleanUp, DeleteSpace, RestoreSnapshot, Remove, ListPrunes, ListLook, ListSync, Ages, ByHand, Save, Restart, Request, Fault,
         NoFault, vars

\* Type correctness: every variable of the module stays in its range.
THEOREM TypeCorrect == Spec => []TypeOK
<1>1. Init => TypeOK
  <2>1. NotMade \in Records
    BY DEF NotMade, Records, Down, Unsettled
  <2>2. ASSUME Init PROVE RecordType /\ StoreType
    <3>1. instance = NotMade /\ listed = FALSE /\ saved = [instance |-> NotMade, listed |-> FALSE]
      BY <2>2 DEF Init
    <3>2. RecordType
      BY <2>1, <3>1 DEF RecordType
    <3>3. StoreType
      BY <2>1, <3>1 DEF StoreType
    <3> QED BY <3>2, <3>3
  <2>3. Init => PlaceType
    BY DEF Init, PlaceType, Boxes
  <2>4. Init => CountType
    BY DEF Init, CountType
  <2>5. Init => HistoryType
    BY DEF Init, HistoryType
  <2> QED BY <2>2, <2>3, <2>4, <2>5 DEF TypeOK
<1>2. TypeOK /\ [Next]_vars => TypeOK'
  <2> SUFFICES ASSUME TypeOK, [Next]_vars PROVE TypeOK'
    OBVIOUS
  <2>1. RecordType' /\ PlaceType'
    <3>1. CASE UNCHANGED vars
      BY <3>1 DEF vars, record, TypeOK, RecordType, PlaceType
    <3> QED BY <3>1, StepTypes, ArriveTypes, OtherTypes DEF Next
  <2>2. StoreType'
    <3>1. CASE saved' = saved
      BY <3>1 DEF TypeOK, StoreType
    <3>2. CASE Persist
      BY <2>1, <3>2 DEF Persist, RecordType, StoreType
    <3> QED BY <3>1, <3>2, OnlySaves DEF vars
  <2>3. CountType'
    BY Counted DEF TypeOK, CountType, vars, bounds
  <2> QED BY <2>1, <2>2, <2>3, HistoryTypes DEF TypeOK
<1> QED BY <1>1, <1>2, PTL DEF Spec

-----------------------------------------------------------------------------
\* A thread on its way to a container stays there or was one whose record is in the
\* table it has and has just been saved; a container comes from such a thread only.
LEMMA MadeByLaunch ==
  ASSUME TypeOK, Next, Made'
  PROVE  Made \/ ended # {} \/ (listed /\ listed' /\ Persist)
<1> USE DEF Made, Past, WorkerPcs, TypeOK, PlaceType, At, Goto, Finish
<1>1. ASSUME NEW x \in Thread, Step(x) PROVE Made \/ ended # {} \/ (listed /\ listed' /\ Persist)
  <2>1. CASE WorkerBegin(x)
    BY <1>1, <2>1 DEF WorkerBegin, Kept
  <2>2. CASE th[x] \in Past
    BY <2>2
  <2>3. CASE ~WorkerBegin(x) /\ th[x] \notin Past
    BY <1>1, <2>3 DEF Step, Worker, WorkerCheck, WorkerLook, WorkerLaunch, WorkerLaunched,
         WorkerStatus, WorkerStart, WorkerMark, WorkerReady, WorkerFails, Outcome, StopLook,
         StopBox, StopMark, RebootLook, RebootWaits, RebootBox, RebootMark, Reboots,
         TerminateLook, TerminateBox, TerminateMark, CleanUpLook, CleanUpBox
  <2> QED BY <2>1, <2>2, <2>3
<1>2. ASSUME NEW x \in Thread, Arrive(x) PROVE Made
  BY <1>2, Made' DEF Arrive, Create, Start, Stop, Reboot, TerminateSimulated, Terminate, CleanUp,
                     DeleteSpace, RestoreSnapshot, Remove, Request
<1>3. CASE Listing \/ Ages \/ ByHand \/ Save
  BY <1>3, Made' DEF Listing, ListPrunes, ListLook, ListSync, Ages, ByHand, Save
<1>4. CASE Restart
  BY <1>4, Made' DEF Restart
<1> QED BY <1>1, <1>2, <1>3, <1>4 DEF Next

\* Only the answer to a termination makes a record terminated, and no answer is
\* forgotten.
LEMMA EndedFirst ==
  ASSUME TypeOK, Next
  PROVE  /\ ended \subseteq ended'
         /\ instance'.state = "terminated" =>
              ended' # {} \/ instance.state = "terminated" \/ saved.instance.state = "terminated"
<1>1. ended \subseteq ended'
  BY DEF Next, Step, Worker, Arrive, Listing, WorkerBegin, WorkerCheck,
         WorkerLook, WorkerLaunch, WorkerLaunched, WorkerStatus, WorkerStart, WorkerMark,
         WorkerReady, WorkerFails, Outcome, StopLook, StopBox, StopMark, RebootLook,
         RebootWaits, RebootBox, RebootMark, TerminateLook, TerminateBox, TerminateMark,
         CleanUpLook, CleanUpBox, Create, Start, Stop, Reboot, TerminateSimulated, Terminate,
         CleanUp, DeleteSpace, RestoreSnapshot, Remove, ListPrunes, ListLook, ListSync, Ages, ByHand, Save, Restart
<1> SUFFICES ASSUME instance'.state = "terminated", ended' = {}, instance.state # "terminated"
             PROVE  saved.instance.state = "terminated"
  BY <1>1
<1> instance \in Records
  BY DEF TypeOK, RecordType
<1>2. ASSUME NEW x \in Thread, Step(x) PROVE FALSE
  <2> USE DEF Records
  <2>1. CASE UNCHANGED instance
    BY <2>1
  <2>2. CASE WorkerBegin(x) \/ WorkerReady(x) \/ WorkerFails(x)
    BY <2>2 DEF WorkerBegin, WorkerReady, WorkerFails, Outcome, record
  <2>3. CASE WorkerLook(x)
    BY <2>3 DEF WorkerLook
  <2>4. CASE WorkerLaunched(x)
    BY <2>4 DEF WorkerLaunched
  <2>5. CASE WorkerMark(x) \/ StopMark(x)
    BY <2>5 DEF WorkerMark, StopMark
  <2>6. CASE RebootLook(x) \/ RebootWaits(x) \/ RebootMark(x)
    BY <2>6 DEF RebootLook, RebootWaits, RebootMark, Reboots
  <2>7. CASE TerminateMark(x)
    BY <2>7 DEF TerminateMark
  <2> QED
    BY <1>2, <2>1, <2>2, <2>3, <2>4, <2>5, <2>6, <2>7
       DEF Step, Worker, WorkerCheck, WorkerLaunch, WorkerStatus, WorkerStart, StopLook, StopBox,
           RebootBox, TerminateLook, TerminateBox, CleanUpLook, CleanUpBox, record
<1>3. ASSUME NEW x \in Thread, Arrive(x) PROVE FALSE
  BY <1>3 DEF Arrive, Create, Start, Stop, Reboot, TerminateSimulated, Terminate, CleanUp,
              DeleteSpace, RestoreSnapshot, Remove, NotMade, Records, record
<1>4. CASE Listing
  <2>1. CASE ListPrunes \/ ListLook
    BY <2>1 DEF ListPrunes, ListLook, Pruned, record
  <2>2. CASE ListSync
    BY <2>2, SyncedRecord DEF ListSync, Pruned, TypeOK, PlaceType, Boxes
  <2> QED BY <1>4, <2>1, <2>2 DEF Listing
<1>5. CASE Ages \/ ByHand \/ Save
  BY <1>5 DEF Ages, ByHand, Save, Records, record
<1>6. CASE Restart
  BY <1>6, RestartedRecord
<1> QED BY <1>2, <1>3, <1>4, <1>5, <1>6 DEF Next

\* A record leaves the listing only when it is terminated or removed, or in a crash
\* that goes back to a state in which it was not listed or was terminated.
LEMMA UnlistedWhenEnded ==
  ASSUME TypeOK, Next, ~listed', listed
  PROVE  \/ instance'.state = "terminated" \/ ended' # {}
         \/ ~saved.listed
         \/ saved.instance.state = "terminated"
<1>1. CASE Restart
  BY <1>1, RestartedRecord DEF Expired
<1>2. CASE ListPrunes \/ ListSync
  BY <1>2 DEF ListPrunes, ListSync, Pruned, Expired
<1>3. CASE ~(Restart \/ ListPrunes \/ ListSync)
  BY <1>3 DEF Next, Step, Worker, Arrive, Listing, WorkerBegin, WorkerCheck,
         WorkerLook, WorkerLaunch, WorkerLaunched, WorkerStatus, WorkerStart, WorkerMark,
         WorkerReady, WorkerFails, Outcome, StopLook, StopBox, StopMark, RebootLook,
         RebootWaits, RebootBox, RebootMark, TerminateLook, TerminateBox, TerminateMark,
         CleanUpLook, CleanUpBox, Create, Start, Stop, Reboot, TerminateSimulated, Terminate,
         CleanUp, DeleteSpace, RestoreSnapshot, Remove, ListLook, Ages, ByHand, Save, record
<1> QED BY <1>1, <1>2, <1>3

\* The inductive invariant holds in every reachable state.
LEMMA Inductive == Spec => []RecordKept
<1>1. ASSUME Init PROVE RecordKept
  <2>1. NotMade.state = "none"
    BY DEF NotMade
  <2>2. instance = NotMade /\ saved.instance = NotMade
    BY <1>1 DEF Init
  <2>3. ~Made
    BY <1>1 DEF Init, Made, Past, WorkerPcs
  <2> QED BY <2>1, <2>2, <2>3 DEF RecordKept
<1>2. TypeOK /\ RecordKept /\ [Next]_vars => RecordKept'
  <2> SUFFICES ASSUME TypeOK, RecordKept, [Next]_vars PROVE RecordKept'
    OBVIOUS
  <2>1. CASE UNCHANGED vars
    BY <2>1 DEF vars, record, RecordKept, Made, Past
  <2>2. CASE Next
    <3>1. instance'.state = "terminated" => ended' # {}
      BY <2>2, EndedFirst DEF RecordKept
    <3>2. saved'.instance.state = "terminated" => ended' # {}
      BY <2>2, <3>1, EndedFirst, OnlySaves DEF RecordKept, Persist
    <3>3. ASSUME Made', ended' = {} PROVE listed' /\ saved'.listed
      <4>1. ended = {}
        BY <2>2, <3>3, EndedFirst
      <4>2. CASE listed /\ listed' /\ Persist
        BY <4>2 DEF Persist
      <4>3. CASE Made
        <5>1. listed /\ saved.listed
          BY <4>1, <4>3 DEF RecordKept
        <5>2. listed'
          BY <2>2, <3>1, <3>3, <4>1, <5>1, UnlistedWhenEnded DEF RecordKept, TypeOK, RecordType
        <5> QED BY <2>2, <5>1, <5>2, OnlySaves DEF Persist
      <4> QED BY <2>2, <3>3, <4>1, <4>2, <4>3, MadeByLaunch
    <3> QED BY <3>1, <3>2, <3>3 DEF RecordKept
  <2> QED BY <2>1, <2>2
<1> QED BY <1>1, <1>2, TypeCorrect, PTL DEF Spec

\* For any number of threads, requests and events, a container without a record is
\* what a termination, the deletion of a space or the restore of a snapshot has left:
\* no crash and no failed launch makes one.
THEOREM OrphansExplained == Spec => []OrphansWereEnded
<1>1. RecordKept => OrphansWereEnded
  BY DEF RecordKept, OrphansWereEnded, Made
<1> QED BY <1>1, Inductive, PTL

-----------------------------------------------------------------------------
(* Calls that do not overlap.                                              *)

\* The record and the container agree.
Agree ==
  /\ instance.state = "running" <=> box = "running"
  /\ instance.state = "terminated" => box = "none"

\* Where a launch that may have just made the container is.
Lately == {"launching", "status", "start", "mark", "ready"}

\* What a thread that nothing disturbs can rely on, by the call it is about to make.
Fits(pc) ==
  /\ pc \in WorkerPcs => listed /\ pc # "fail"
  /\ pc \in WorkerPcs \ {"ready"} => instance.state = "pending"
  /\ pc \in {"launch", "removed"} => box = "none"
  /\ pc \in {"launching", "start"} => box = "stopped"
  /\ pc = "status" => box # "none"
  /\ pc \in {"mark", "ready", "stopping", "rebooting", "rebooted"} => box = "running"
  /\ pc = "ready" => instance.state = "running"
  /\ pc = "stopped" => box # "running"
  /\ pc \in Lately \ {"launching"} => instance.id
  /\ pc \in {"stopping?", "rebooting?", "waiting", "orphans?"} /\ listed => Agree

\* One thread is at work, or a listing whose status is still true.
Alone ==
  /\ \A x, y \in Thread : th[x] # "idle" /\ th[y] # "idle" => x = y
  /\ list # "idle" => list = box /\ \A x \in Thread : th[x] = "idle"

\* A container that no launch has just made is known to the record, in memory and in
\* the store: a restart does not take the instance for one that has none.
IdKept ==
  box # "none" /\ (\A x \in Thread : th[x] \notin Lately) => instance.id /\ saved.instance.id

\* What makes CallsAgree inductive.
Undisturbed ==
  ~disturbed =>
    /\ Alone
    /\ \A x \in Thread : Fits(th[x])
    /\ (\A x \in Thread : th[x] = "idle") /\ listed => Agree
    /\ IdKept

\* The only thread at work moves to `p': what has to hold afterwards.
LEMMA OneMoves ==
  ASSUME TypeOK, NEW x \in Thread, \A y \in Thread : y # x => th[y] = "idle", list' = "idle",
         NEW p, th' = [th EXCEPT ![x] = p], Fits(p)', p = "idle" /\ listed' => Agree',
         p \notin Lately /\ box' # "none" => instance'.id /\ saved'.instance.id
  PROVE  Undisturbed'
<1>1. th'[x] = p /\ \A y \in Thread : y # x => th'[y] = "idle"
  BY DEF TypeOK, PlaceType
<1>2. Fits("idle")'
  BY DEF Fits, WorkerPcs, Lately
<1>3. ASSUME NEW y \in Thread PROVE Fits(th[y])'
  <2>1. CASE y = x
    <3>1. th'[y] = p
      BY <1>1, <2>1
    <3> QED BY <3>1 DEF Fits, Agree
  <2>2. CASE y # x
    <3>1. th'[y] = "idle"
      BY <1>1, <2>2
    <3> QED BY <3>1, <1>2 DEF Fits, Agree
  <2> QED BY <2>1, <2>2
<1>4. Alone'
  BY <1>1 DEF Alone
<1>5. (\A y \in Thread : th[y] = "idle")' /\ listed' => Agree'
  BY <1>1
<1>6. IdKept'
  BY <1>1 DEF IdKept
<1> QED BY <1>3, <1>4, <1>5, <1>6 DEF Undisturbed

\* What overlapped or failed is not forgotten.
LEMMA DisturbedStays == TypeOK /\ Next /\ disturbed => disturbed'
  BY DEF Next, Step, Worker, Arrive, Listing, WorkerBegin, WorkerCheck,
         WorkerLook, WorkerLaunch, WorkerLaunched, WorkerStatus, WorkerStart, WorkerMark,
         WorkerReady, WorkerFails, Outcome, StopLook, StopBox, StopMark, RebootLook,
         RebootWaits, RebootBox, RebootMark, TerminateLook, TerminateBox, TerminateMark,
         CleanUpLook, CleanUpBox, Create, Start, Stop, Reboot, TerminateSimulated, Terminate,
         CleanUp, DeleteSpace, RestoreSnapshot, Remove, ListPrunes, ListLook, ListSync, Ages, ByHand, Save, Restart, Request, Fault,
         NoFault, TypeOK, HistoryType

\* A step of the thread at work, when none of its calls fails.
LEMMA StepUndisturbed ==
  ASSUME TypeOK, Undisturbed, NEW x \in Thread, Step(x), ~disturbed, ~disturbed'
  PROVE  Undisturbed'
<1>0. th[x] # "idle"
  BY DEF Step, Worker, WorkerBegin, WorkerCheck,
         WorkerLook, WorkerLaunch, WorkerLaunched, WorkerStatus, WorkerStart, WorkerMark,
         WorkerReady, WorkerFails, StopLook, StopBox, StopMark, RebootLook,
         RebootWaits, RebootBox, RebootMark, TerminateLook, TerminateBox, TerminateMark,
         CleanUpLook, CleanUpBox, At
<1>1. /\ \A y \in Thread : y # x => th[y] = "idle"
      /\ list = "idle"
  BY <1>0 DEF Undisturbed, Alone
<1>2. list' = list
  BY DEF Step, Worker, WorkerBegin, WorkerCheck,
         WorkerLook, WorkerLaunch, WorkerLaunched, WorkerStatus, WorkerStart, WorkerMark,
         WorkerReady, WorkerFails, Outcome, StopLook, StopBox, StopMark, RebootLook,
         RebootWaits, RebootBox, RebootMark, TerminateLook, TerminateBox, TerminateMark,
         CleanUpLook, CleanUpBox
<1>3. Fits(th[x]) /\ instance \in Records
  BY DEF Undisturbed, TypeOK, RecordType
<1>4. th[x] \notin Lately /\ box # "none" => instance.id /\ saved.instance.id
  BY <1>1 DEF Undisturbed, IdKept, Lately
<1>5. ~Fault
  BY DEF Fault
<1>6. listed /\ (WorkerBegin(x) \/ WorkerReady(x)) => saved'.instance = instance'
  <2>1. listed /\ (WorkerBegin(x) \/ WorkerReady(x)) => Persist
    BY DEF WorkerBegin, WorkerReady, Outcome, Kept
  <2> QED BY <2>1 DEF Persist
<1> SUFFICES \E p : /\ th' = [th EXCEPT ![x] = p]
                    /\ Fits(p)' /\ (p = "idle" /\ listed' => Agree')
                    /\ p \notin Lately /\ box' # "none" => instance'.id /\ saved'.instance.id
  BY <1>1, <1>2, OneMoves
<1> USE <1>3, <1>4, <1>5 DEF At, Goto, Finish, Fits, Lately, WorkerPcs, Records, record
<1>10. CASE WorkerBegin(x)
  <2>1. listed /\ th' = [th EXCEPT ![x] = "check"] /\ instance'.state = "pending" /\ listed'
    BY <1>10 DEF WorkerBegin, Kept
  <2>2. box' = box /\ instance'.id = instance.id /\ saved'.instance = instance'
    BY <1>6, <1>10, <2>1 DEF WorkerBegin
  <2> QED BY <1>10, <2>1, <2>2 DEF WorkerBegin
<1>11. CASE WorkerCheck(x)
  <2>0. listed /\ instance.state = "pending" /\ th[x] = "check"
    BY <1>11 DEF WorkerCheck
  <2>1. th' = [th EXCEPT ![x] = "look"] /\ UNCHANGED <<instance, listed, saved, box>>
    BY <1>11 DEF WorkerCheck
  <2> QED BY <2>0, <2>1
<1>12. CASE WorkerLook(x)
  <2>1. /\ instance'.state = "pending" /\ listed' /\ UNCHANGED <<listed, saved, box>>
        /\ box # "none" => instance'.id
    BY <1>12 DEF WorkerLook
  <2>2. CASE box = "none"
    <3>1. th' = [th EXCEPT ![x] = "launch"]
      BY <1>12, <2>2 DEF WorkerLook
    <3> QED BY <2>1, <2>2, <3>1
  <2>3. CASE box # "none"
    <3>1. th' = [th EXCEPT ![x] = "status"]
      BY <1>12, <2>3 DEF WorkerLook
    <3> QED BY <2>1, <2>3, <3>1
  <2> QED BY <2>2, <2>3
<1>13. CASE WorkerLaunch(x)
  <2>0. listed /\ instance.state = "pending"
    BY <1>13 DEF WorkerLaunch
  <2>1. th' = [th EXCEPT ![x] = "launching"] /\ box' = "stopped" /\ UNCHANGED <<instance, listed>>
    BY <1>13 DEF WorkerLaunch
  <2> QED BY <2>0, <2>1
<1>14. CASE WorkerLaunched(x)
  <2>0. listed /\ instance.state = "pending"
    BY <1>14 DEF WorkerLaunched
  <2>1. th' = [th EXCEPT ![x] = "status"] /\ box' = "running" /\ UNCHANGED listed
        /\ instance'.id /\ instance'.state = "pending"
    BY <1>14 DEF WorkerLaunched
  <2> QED BY <2>0, <2>1
<1>15. CASE WorkerStatus(x)
  <2>0. listed /\ instance.state = "pending" /\ instance.id
    BY <1>15 DEF WorkerStatus
  <2>1. UNCHANGED <<instance, listed, saved, box>> /\ box \in {"stopped", "running"}
    BY <1>15 DEF WorkerStatus, TypeOK, PlaceType, Boxes
  <2>2. CASE box = "running"
    <3>1. th' = [th EXCEPT ![x] = "mark"]
      BY <1>15, <2>2 DEF WorkerStatus
    <3> QED BY <2>0, <2>1, <2>2, <3>1
  <2>3. CASE box = "stopped"
    <3>1. th' = [th EXCEPT ![x] = "start"]
      BY <1>15, <2>3 DEF WorkerStatus
    <3> QED BY <2>0, <2>1, <2>3, <3>1
  <2> QED BY <2>1, <2>2, <2>3
<1>16. CASE WorkerStart(x)
  <2>0. listed /\ instance.state = "pending" /\ instance.id
    BY <1>16 DEF WorkerStart
  <2>1. th' = [th EXCEPT ![x] = "mark"] /\ box' = "running" /\ UNCHANGED <<instance, listed>>
    BY <1>16 DEF WorkerStart
  <2> QED BY <2>0, <2>1
<1>17. CASE WorkerMark(x)
  <2>0. listed /\ instance.id /\ box = "running"
    BY <1>17 DEF WorkerMark
  <2>1. th' = [th EXCEPT ![x] = "ready"] /\ UNCHANGED <<listed, box>>
        /\ instance'.id = instance.id /\ instance'.state = "running"
    BY <1>17 DEF WorkerMark
  <2> QED BY <2>0, <2>1
<1>18. CASE WorkerReady(x)
  <2>1. th' = [th EXCEPT ![x] = "idle"] /\ box' = box /\ listed' = listed
        /\ instance'.id = instance.id /\ instance'.state = instance.state
    BY <1>18 DEF WorkerReady, Outcome
  <2>2. saved'.instance = instance'
    BY <1>6, <1>18 DEF WorkerReady
  <2> QED BY <1>18, <2>1, <2>2 DEF WorkerReady, Agree
<1>19. CASE WorkerFails(x)
  BY <1>19 DEF WorkerFails
<1>20. CASE StopLook(x)
  <2>1. UNCHANGED <<instance, listed, saved, box>>
    BY <1>20 DEF StopLook
  <2>2. CASE box = "running"
    <3>1. th' = [th EXCEPT ![x] = "stopping"]
      BY <1>20, <2>2 DEF StopLook
    <3> QED BY <1>20, <2>1, <2>2, <3>1 DEF StopLook
  <2>3. CASE box # "running"
    <3>1. th' = [th EXCEPT ![x] = "stopped"]
      BY <1>20, <2>3 DEF StopLook
    <3> QED BY <1>20, <2>1, <2>3, <3>1 DEF StopLook
  <2> QED BY <2>2, <2>3
<1>21. CASE StopBox(x)
  <2>1. th' = [th EXCEPT ![x] = "stopped"] /\ box' = "stopped" /\ UNCHANGED <<instance, listed, saved>>
    BY <1>21 DEF StopBox
  <2> QED BY <1>21, <2>1 DEF StopBox
<1>22. CASE StopMark(x)
  <2>1. th' = [th EXCEPT ![x] = "idle"] /\ UNCHANGED <<listed, saved, box>>
        /\ instance'.id = instance.id /\ instance'.state = "stopped"
    BY <1>22 DEF StopMark
  <2> QED BY <1>22, <2>1 DEF StopMark, Agree
<1>23. CASE RebootLook(x) \/ RebootWaits(x)
  <2>1. UNCHANGED <<listed, saved, box>> /\ th[x] \in {"rebooting?", "waiting"}
    BY <1>23 DEF RebootLook, RebootWaits
  <2>2. CASE Reboots(x)
    <3>1. th' = [th EXCEPT ![x] = "rebooting"] /\ box = "running"
          /\ instance'.id = instance.id
      BY <2>2 DEF Reboots
    <3> QED BY <2>1, <3>1
  <2>3. CASE ~Reboots(x)
    <3>1. instance' = instance /\ \E p \in {"idle", "waiting"} : th' = [th EXCEPT ![x] = p]
      BY <1>23, <2>3 DEF RebootLook, RebootWaits
    <3> QED BY <2>1, <3>1 DEF Agree
  <2> QED BY <2>2, <2>3
<1>24. CASE RebootBox(x)
  <2>1. th' = [th EXCEPT ![x] = "rebooted"] /\ UNCHANGED <<instance, listed, saved, box>>
    BY <1>24 DEF RebootBox
  <2> QED BY <1>24, <2>1 DEF RebootBox
<1>25. CASE RebootMark(x)
  <2>1. th' = [th EXCEPT ![x] = "idle"] /\ UNCHANGED <<listed, saved, box>>
        /\ instance'.id = instance.id /\ instance'.state = "running"
    BY <1>25 DEF RebootMark
  <2> QED BY ZenonT(60), <1>25, <2>1 DEF RebootMark, Agree
<1>26. CASE TerminateLook(x)
  <2>1. UNCHANGED <<instance, listed, saved, box>>
    BY <1>26 DEF TerminateLook
  <2>2. CASE box # "none"
    <3>1. th' = [th EXCEPT ![x] = "removing"]
      BY <1>26, <2>2 DEF TerminateLook
    <3> QED BY <1>26, <2>1, <2>2, <3>1 DEF TerminateLook
  <2>3. CASE box = "none"
    <3>1. th' = [th EXCEPT ![x] = "removed"]
      BY <1>26, <2>3 DEF TerminateLook
    <3> QED BY <1>26, <2>1, <2>3, <3>1 DEF TerminateLook
  <2> QED BY <2>2, <2>3
<1>27. CASE TerminateBox(x)
  <2>1. th' = [th EXCEPT ![x] = "removed"] /\ box' = "none"
    BY <1>27 DEF TerminateBox
  <2> QED BY <2>1
<1>28. CASE TerminateMark(x)
  <2>1. th' = [th EXCEPT ![x] = "idle"] /\ box' = "none" /\ instance'.state = "terminated"
    BY <1>28 DEF TerminateMark, Terminated
  <2> QED BY <2>1 DEF Agree
<1>29. CASE CleanUpLook(x)
  <2>0. th[x] = "orphans?"
    BY <1>29 DEF CleanUpLook
  <2>1. UNCHANGED <<instance, listed, saved, box>> /\ (listed => Agree)
    BY <2>0, <1>29 DEF CleanUpLook
  <2>2. PICK p \in {"idle", "orphan"} : th' = [th EXCEPT ![x] = p]
    BY <1>29 DEF CleanUpLook
  <2>3. Fits(p)' /\ (listed' => Agree')
    BY <2>1, <2>2 DEF Agree
  <2> QED BY <2>0, <2>1, <2>2, <2>3
<1>30. CASE CleanUpBox(x)
  <2>1. th' = [th EXCEPT ![x] = "idle"] /\ box' = "none" /\ ~listed'
    BY <1>30 DEF CleanUpBox
  <2> QED BY <2>1
<1> QED
  BY <1>10, <1>11, <1>12, <1>13, <1>14, <1>15, <1>16, <1>17, <1>18, <1>19, <1>20, <1>21, <1>22,
     <1>23, <1>24, <1>25, <1>26, <1>27, <1>28, <1>29, <1>30 DEF Step, Worker

\* A request that arrives when nothing else is at work.
LEMMA ArriveUndisturbed ==
  ASSUME TypeOK, Undisturbed, NEW x \in Thread, Arrive(x), ~disturbed, ~disturbed'
  PROVE  Undisturbed'
<1>1. \E p : Request(x, p)
  BY DEF Arrive, Create, Start, Stop, Reboot, TerminateSimulated, Terminate, CleanUp,
         DeleteSpace, RestoreSnapshot, Remove
<1>2. AllIdle
  BY <1>1 DEF Request
<1>3. list = "idle" /\ \A y \in Thread : th[y] = "idle"
  BY <1>2 DEF AllIdle, Idle, At
<1>4. (listed => Agree) /\ (box # "none" => instance.id /\ saved.instance.id)
  BY <1>3 DEF Undisturbed, IdKept, Lately
<1>5. list' = "idle" /\ box' = box /\ instance \in Records
  BY <1>3 DEF Arrive, Create, Start, Stop, Reboot, TerminateSimulated, Terminate, CleanUp,
              DeleteSpace, RestoreSnapshot, Remove, TypeOK, RecordType
<1>12. saved' = saved \/ saved'.instance = instance'
  <2>1. saved' = saved \/ Persist
    BY DEF Arrive, Create, Start, Stop, Reboot, TerminateSimulated, Terminate, CleanUp,
           DeleteSpace, RestoreSnapshot, Remove
  <2> QED BY <2>1 DEF Persist
<1> SUFFICES \E p : /\ th' = [th EXCEPT ![x] = p]
                    /\ Fits(p)' /\ (p = "idle" /\ listed' => Agree')
                    /\ p \notin Lately /\ box' # "none" => instance'.id /\ saved'.instance.id
  BY <1>3, <1>5, OneMoves
<1> USE <1>4, <1>5, <1>12 DEF Request, Goto, Fits, Lately, WorkerPcs, Records, record
<1>6. CASE Create(x)
  <2>1. box = "none" /\ instance'.state = "pending" /\ listed'
    BY <1>6 DEF Create, NotMade
  <2>2. PICK p \in {"begin", "idle"} : th' = [th EXCEPT ![x] = p]
    BY <1>6 DEF Create
  <2> QED BY <2>1, <2>2 DEF Agree
<1>7. CASE Start(x)
  <2>1. /\ th' = [th EXCEPT ![x] = "begin"] /\ listed'
        /\ instance'.state = "pending" /\ instance'.id = instance.id
    BY <1>7 DEF Start
  <2> QED BY <2>1
<1>8. CASE Stop(x) \/ Reboot(x) \/ Terminate(x)
  <2>1. PICK p \in {"stopping?", "rebooting?", "removing?"} : th' = [th EXCEPT ![x] = p]
    BY <1>8 DEF Stop, Reboot, Terminate
  <2>2. UNCHANGED <<instance, listed>>
    BY <1>8 DEF Stop, Reboot, Terminate
  <2> QED BY <2>1, <2>2 DEF Agree
<1>9. CASE TerminateSimulated(x)
  <2>1. th' = [th EXCEPT ![x] = "idle"] /\ instance'.state = "terminated"
    BY <1>9 DEF TerminateSimulated, Terminated
  <2>2. box = "none"
    BY <1>9 DEF TerminateSimulated, NoBackingContainer
  <2> QED BY <2>1, <2>2 DEF Agree
<1>10. CASE CleanUp(x)
  <2>1. UNCHANGED <<instance, listed>>
        /\ th' = [th EXCEPT ![x] = IF listed /\ instance.spaced THEN "idle" ELSE "orphans?"]
    BY <1>10 DEF CleanUp
  <2> QED BY <2>1 DEF Agree
<1>11. CASE DeleteSpace(x) \/ RestoreSnapshot(x)
  <2>1. instance' = instance /\ ~listed' /\ th' = [th EXCEPT ![x] = "idle"]
    BY <1>11 DEF DeleteSpace, RestoreSnapshot, Remove
  <2> QED BY <2>1
<1> QED BY <1>6, <1>7, <1>8, <1>9, <1>10, <1>11 DEF Arrive

\* Bringing a record up to date with what the container is makes the two agree.
LEMMA SyncedAgrees ==
  ASSUME NEW r \in Records, NEW status \in Boxes
  PROVE  LET s == Synced(r, status) IN
         /\ s.state = "running" <=> status = "running"
         /\ s.state = "terminated" => status = "none"
         /\ s.state # "pending"
         /\ s.id = r.id
<1>1. CASE status = "none"
  BY <1>1 DEF Synced, Records, Down, Unsettled
<1>2. CASE status = "stopped"
  BY <1>2 DEF Synced, Records, Down, Unsettled
<1>3. CASE status = "running"
  BY <1>3 DEF Synced, Records, Down, Unsettled
<1> QED BY <1>1, <1>2, <1>3 DEF Boxes

\* The listing, time, saves and restarts that meet no thread at work.
LEMMA OtherUndisturbed ==
  ASSUME TypeOK, Undisturbed, Listing \/ Ages \/ Save \/ Restart, ~disturbed, ~disturbed'
  PROVE  Undisturbed'
<1> USE DEF TypeOK, RecordType, PlaceType, StoreType
<1>0. Alone /\ (\A x \in Thread : Fits(th[x])) /\ IdKept
      /\ ((\A x \in Thread : th[x] = "idle") /\ listed => Agree)
  BY DEF Undisturbed
<1>1. CASE ListPrunes \/ Ages
  <2>1. /\ instance.state = "terminated" /\ instance'.state = "terminated"
        /\ instance'.id = instance.id /\ UNCHANGED <<box, th, list, disturbed>>
        /\ listed' => listed
    <3>1. CASE ListPrunes
      BY <3>1 DEF ListPrunes, Pruned, Expired
    <3>2. CASE Ages
      BY <3>2 DEF Ages, Records
    <3> QED BY <1>1, <3>1, <3>2
  <2>2. saved'.instance.id \in {saved.instance.id, instance.id}
    BY <1>1, <2>1 DEF ListPrunes, Ages, Pruned, Persist
  <2>3. Agree => Agree'
    BY <2>1 DEF Agree
  <2>4. ASSUME NEW x \in Thread PROVE Fits(th[x])'
    <3>1. Fits(th[x])
      BY <1>0
    <3>2. th[x] \notin WorkerPcs
      BY <2>1, <3>1 DEF Fits, WorkerPcs
    <3> QED BY <2>1, <2>3, <3>1, <3>2 DEF Fits, WorkerPcs, Lately
  <2>5. Alone' /\ IdKept'
    BY <1>0, <2>1, <2>2 DEF Alone, IdKept
  <2> QED BY <1>0, <2>1, <2>3, <2>4, <2>5 DEF Undisturbed
<1>2. CASE ListLook
  <2>1. AllIdle /\ list' = box /\ UNCHANGED <<instance, listed, saved, box, th>>
    BY <1>2 DEF ListLook, Fault, record
  <2>2. \A x \in Thread : th'[x] = "idle"
    BY <2>1 DEF AllIdle, Idle, At
  <2>3. (\A x \in Thread : Fits(th[x]))'
    BY <2>2 DEF Fits, WorkerPcs, Lately
  <2>4. Alone' /\ IdKept'
    BY <1>0, <2>1, <2>2 DEF Alone, IdKept
  <2>5. listed' => Agree'
    BY <1>0, <2>1, <2>2 DEF Agree
  <2> QED BY <2>3, <2>4, <2>5 DEF Undisturbed
<1>3. CASE ListSync
  <2>1. /\ list = box /\ box \in Boxes /\ list' = "idle" /\ instance' = Synced(instance, box)
        /\ UNCHANGED <<box, th>> /\ \A x \in Thread : th'[x] = "idle"
    BY <1>0, <1>3 DEF ListSync, Pruned, Alone
  <2>2. Agree' /\ instance'.id = instance.id
    BY <2>1, SyncedAgrees DEF Agree
  <2>3. saved'.instance.id \in {saved.instance.id, instance'.id}
    BY <1>3 DEF ListSync, Pruned, Persist
  <2>4. (\A x \in Thread : Fits(th[x]))'
    BY <2>1 DEF Fits, WorkerPcs, Lately
  <2>5. Alone' /\ IdKept'
    BY <1>0, <2>1, <2>2, <2>3 DEF Alone, IdKept, Lately
  <2> QED BY <2>2, <2>4, <2>5 DEF Undisturbed
<1>4. CASE Save
  <2>1. UNCHANGED <<instance, listed, box, th, list>> /\ saved'.instance = instance
    BY <1>4 DEF Save, Persist, record
  <2>2. (Agree <=> Agree') /\ \A x \in Thread : Fits(th[x])'
    BY <1>0, <2>1 DEF Agree, Fits
  <2>3. Alone' /\ IdKept'
    BY <1>0, <2>1 DEF Alone, IdKept
  <2> QED BY <1>0, <2>1, <2>2, <2>3 DEF Undisturbed
<1>5. CASE Restart
  <2>1. AllIdle
    BY <1>5 DEF Restart
  <2>2. \A x \in Thread : th[x] = "idle"
    BY <2>1 DEF AllIdle, Idle, At
  <2>3. {y \in Thread : At(y, "launching") /\ box = "stopped"} = {}
    BY <2>2 DEF At
  <2>4. box' = box /\ box \in Boxes /\ saved.instance \in Records /\ list' = "idle"
    BY <1>5, <2>3 DEF Restart
  <2> DEFINE r == Synced(saved.instance, box)
  <2>5. /\ instance' = IF saved.listed THEN r ELSE saved.instance
        /\ listed' = (saved.listed /\ ~Expired(r))
        /\ th' = [x \in Thread |-> IF listed' /\ r.state = "pending" /\ x = CHOOSE y \in Thread : TRUE
                                   THEN "begin" ELSE "idle"]
        /\ IF saved.listed = listed' THEN UNCHANGED saved ELSE Persist
    BY <1>5, <2>4 DEF Restart
  <2>6. /\ r.state = "running" <=> box = "running"
        /\ r.state = "terminated" => box = "none"
        /\ r.state # "pending"
        /\ r.id = saved.instance.id
    BY <2>4, SyncedAgrees
  <2> HIDE DEF r
  <2>7. \A x \in Thread : th'[x] = "idle"
    BY <2>5, <2>6
  <2>8. instance'.id = saved.instance.id /\ saved'.instance.id = saved.instance.id
    <3>1. instance'.id = saved.instance.id
      BY <2>5, <2>6
    <3>2. saved' = saved \/ saved'.instance = instance'
      BY <2>5 DEF Persist
    <3> QED BY <3>1, <3>2
  <2>9. listed' => Agree'
    BY <2>4, <2>5, <2>6 DEF Agree
  <2>10. (\A x \in Thread : Fits(th[x]))'
    BY <2>7 DEF Fits, WorkerPcs, Lately
  <2>11. Alone' /\ IdKept'
    BY <1>0, <2>2, <2>4, <2>7, <2>8 DEF Alone, IdKept, Lately
  <2> QED BY <2>9, <2>10, <2>11 DEF Undisturbed
<1> QED BY <1>1, <1>2, <1>3, <1>4, <1>5 DEF Listing

\* Calls one after the other that meet no failure leave the record and the container
\* in agreement, whatever they are and whatever restarts lie between them.
THEOREM QuietCallsAgree == Spec => []CallsAgree
<1>1. Init => Undisturbed
  <2> SUFFICES ASSUME Init PROVE Undisturbed
    OBVIOUS
  <2>1. ~listed /\ box = "none" /\ list = "idle" /\ \A x \in Thread : th[x] = "idle"
    BY DEF Init
  <2>2. \A x \in Thread : Fits(th[x])
    BY <2>1 DEF Fits, WorkerPcs, Lately
  <2> QED BY <2>1, <2>2 DEF Undisturbed, Alone, IdKept
<1>2. TypeOK /\ Undisturbed /\ [Next]_vars => Undisturbed'
  <2> SUFFICES ASSUME TypeOK, Undisturbed, [Next]_vars, ~disturbed' PROVE Undisturbed'
    BY DEF Undisturbed
  <2>1. CASE UNCHANGED vars
    BY <2>1 DEF vars, record, Undisturbed, Alone, IdKept, Fits, Agree
  <2>2. CASE Next
    <3>1. ~disturbed
      BY <2>2, DisturbedStays
    <3>2. ~ByHand
      BY DEF ByHand, Fault
    <3> QED BY <2>2, <3>1, <3>2, StepUndisturbed, ArriveUndisturbed, OtherUndisturbed DEF Next
  <2> QED BY <2>1, <2>2
<1>3. TypeOK /\ Undisturbed => CallsAgree
  BY DEF Undisturbed, CallsAgree, AllIdle, Idle, At, Agree
<1> QED BY <1>1, <1>2, <1>3, TypeCorrect, PTL DEF Spec

(***************************************************************************)
(* The backend provisioner (Provisioner).                                  *)
(*                                                                         *)
(* The requests write the shared row with no lock, so neither safety       *)
(* property is inductive alone: both rest on Held, that the mutex names    *)
(* exactly the worker that is between its acquire and its release.         *)
(***************************************************************************)
Held == \A w \in Workers : wpc[w] \in Working <=> lock = w

ProvisionerInv == Held /\ InFlightIsWorked /\ NameIsFree

\* Type correctness: every variable of the module stays in its range.
THEOREM ProvisionerTypeCorrect == BPSpec => []BPTypeOK
<1>1. BPInit => BPTypeOK
  BY DEF BPInit, BPTypeOK, States, ServePcs, PollerPcs, WorkPcs
<1>2. BPTypeOK /\ [BPNext]_bpvars => BPTypeOK'
  <2> SUFFICES ASSUME BPTypeOK, [BPNext]_bpvars PROVE BPTypeOK'
    OBVIOUS
  <2> USE DEF BPTypeOK, States, ServePcs, PollerPcs, WorkPcs, RequestAt, PollerAt,
              WorkerAt, docker
  <2>1. ASSUME NEW r \in Requests, ProvisionCheck(r) \/ StopBegins(r) \/ Serve(r) PROVE BPTypeOK'
    BY <2>1 DEF ProvisionCheck, StopBegins, Serve, ProvisionReset, ProvisionSpawn,
                StopContainer, StopError, StopMarks
  <2>2. ASSUME NEW p \in Pollers, Poll(p) PROVE BPTypeOK'
    BY <2>2 DEF Poll, StatusLook, StatusMark
  <2>3. ASSUME NEW w \in Workers, Work(w) PROVE BPTypeOK'
    <3>1. CASE WorkerLock(w) \/ WorkerFind(w) \/ WorkerPull(w) \/ WorkerPulled(w) \/ WorkerRun(w)
      BY <3>1 DEF WorkerLock, WorkerFind, WorkerPull, WorkerPulled, WorkerRun
    <3>2. CASE \/ WorkerCreated(w) \/ WorkerInspect(w) \/ WorkerRestart(w)
               \/ WorkerHealthy(w) \/ WorkerTimesOut(w)
      BY <3>2 DEF WorkerCreated, WorkerInspect, WorkerRestart, WorkerHealthy, WorkerTimesOut
    <3>3. CASE \/ WorkerError(w) \/ WorkerStartFails(w) \/ WorkerIsReady(w)
               \/ WorkerFailed(w) \/ WorkerRelease(w)
      BY <3>3 DEF WorkerError, WorkerStartFails, WorkerIsReady, WorkerFailed, WorkerRelease
    <3> QED BY <2>3, <3>1, <3>2, <3>3 DEF Work
  <2>4. CASE ContainerExits \/ ContainerRestarts \/ ContainerRemoved
    BY <2>4 DEF ContainerExits, ContainerRestarts, ContainerRemoved
  <2>5. CASE UNCHANGED bpvars
    BY <2>5 DEF bpvars
  <2> QED BY <2>1, <2>2, <2>3, <2>4, <2>5 DEF BPNext
<1> QED BY <1>1, <1>2, PTL DEF BPSpec

\* A request thread never touches the mutex nor a worker at work, and never puts
\* the row in flight or a container under a free name.
LEMMA ProvisionerRequestStep ==
  ASSUME BPTypeOK, ProvisionerInv, NEW r \in Requests, ProvisionCheck(r) \/ StopBegins(r) \/ Serve(r)
  PROVE  ProvisionerInv'
<1> USE NoWorkerAssumption DEF ProvisionerInv, Held, InFlightIsWorked, NameIsFree, BPTypeOK, RequestAt,
        WorkerAt, docker, InFlight, Working, Settling, WorkPcs
<1>1. CASE ProvisionSpawn(r)
  BY <1>1 DEF ProvisionSpawn
<1>2. CASE ProvisionCheck(r) \/ StopBegins(r) \/ StopError(r)
  BY <1>2 DEF ProvisionCheck, StopBegins, StopError
<1>3. CASE ProvisionReset(r) \/ StopMarks(r)
  BY <1>3 DEF ProvisionReset, StopMarks
<1>4. CASE StopContainer(r)
  BY <1>4 DEF StopContainer
<1> QED BY <1>1, <1>2, <1>3, <1>4 DEF Serve

\* A step of one worker: the mutex holder's steps keep the row and the name, and
\* a worker that does not hold it can only return.
LEMMA ProvisionerWorkerStep ==
  ASSUME BPTypeOK, ProvisionerInv, NEW w \in Workers, Work(w)
  PROVE  ProvisionerInv'
<1> USE NoWorkerAssumption DEF ProvisionerInv, Held, InFlightIsWorked, NameIsFree, BPTypeOK, WorkerAt,
        docker, InFlight, Working, Settling, WorkPcs
<1>1. CASE WorkerLock(w)
  BY <1>1 DEF WorkerLock
<1>2. CASE WorkerFind(w)
  BY <1>2 DEF WorkerFind
<1>3. CASE WorkerPull(w) \/ WorkerPulled(w) \/ WorkerRun(w)
  BY <1>3 DEF WorkerPull, WorkerPulled, WorkerRun
<1>4. CASE WorkerCreated(w) \/ WorkerStartFails(w)
  BY <1>4 DEF WorkerCreated, WorkerStartFails
<1>5. CASE WorkerInspect(w) \/ WorkerRestart(w)
  BY <1>5 DEF WorkerInspect, WorkerRestart
<1>6. CASE WorkerHealthy(w) \/ WorkerTimesOut(w)
  BY <1>6 DEF WorkerHealthy, WorkerTimesOut
<1>7. CASE WorkerError(w)
  BY <1>7 DEF WorkerError
<1>8. CASE WorkerIsReady(w) \/ WorkerFailed(w)
  BY <1>8 DEF WorkerIsReady, WorkerFailed
<1>9. CASE WorkerRelease(w)
  BY <1>9 DEF WorkerRelease
<1> QED BY <1>1, <1>2, <1>3, <1>4, <1>5, <1>6, <1>7, <1>8, <1>9 DEF Work

\* The inductive invariant holds in every reachable state.
LEMMA ProvisionerInductive == BPSpec => []ProvisionerInv
<1>1. BPInit => ProvisionerInv
  BY NoWorkerAssumption DEF BPInit, ProvisionerInv, Held, InFlightIsWorked, NameIsFree, InFlight, Working
<1>2. BPTypeOK /\ ProvisionerInv /\ [BPNext]_bpvars => ProvisionerInv'
  <2> SUFFICES ASSUME BPTypeOK, ProvisionerInv, [BPNext]_bpvars PROVE ProvisionerInv'
    OBVIOUS
  <2>1. ASSUME NEW r \in Requests, ProvisionCheck(r) \/ StopBegins(r) \/ Serve(r) PROVE ProvisionerInv'
    BY <2>1, ProvisionerRequestStep
  <2>2. ASSUME NEW p \in Pollers, Poll(p) PROVE ProvisionerInv'
    BY <2>2 DEF Poll, StatusLook, StatusMark, ProvisionerInv, Held, InFlightIsWorked, NameIsFree,
                InFlight, docker
  <2>3. ASSUME NEW w \in Workers, Work(w) PROVE ProvisionerInv'
    BY <2>3, ProvisionerWorkerStep
  <2>4. CASE ContainerExits \/ ContainerRestarts \/ ContainerRemoved
    BY <2>4 DEF ContainerExits, ContainerRestarts, ContainerRemoved, ProvisionerInv, Held,
                InFlightIsWorked, NameIsFree, InFlight
  <2>5. CASE UNCHANGED bpvars
    BY <2>5 DEF bpvars, ProvisionerInv, Held, InFlightIsWorked, NameIsFree, InFlight
  <2> QED BY <2>1, <2>2, <2>3, <2>4, <2>5 DEF BPNext
<1> QED BY <1>1, <1>2, ProvisionerTypeCorrect, PTL DEF BPSpec

\* A row in PULLING or STARTING always has a live worker that will settle it.
THEOREM NobodyIsStranded == BPSpec => []InFlightIsWorked
<1>1. ProvisionerInv => InFlightIsWorked
  BY DEF ProvisionerInv
<1> QED BY <1>1, ProvisionerInductive, PTL

\* A worker about to create the container never meets its name in use.
THEOREM NoTwinContainer == BPSpec => []NameIsFree
<1>1. ProvisionerInv => NameIsFree
  BY DEF ProvisionerInv
<1> QED BY <1>1, ProvisionerInductive, PTL
=============================================================================
