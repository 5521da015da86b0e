---------------------------- MODULE Ec2Instances ----------------------------
(***************************************************************************)
(* The life of an EC2 instance on the appliance (server.py): its record in *)
(* ec2_state, the LXD container behind it, the threads that launch, stop,  *)
(* reboot and terminate it, the listing that brings the record up to date, *)
(* the clean-up of orphans (core/disk_health.py), crashes and restarts.    *)
(* Instances share nothing, so the module has one.                         *)
(*                                                                         *)
(* The threads write the record without a lock; a step goes from one call  *)
(* of LXD to the next.  The record's other fields, the devices and what is *)
(* run inside the container are left out.  A thread keeps the record it    *)
(* looked up, and a launch the table it is in: after the record is pruned, *)
(* or its space deleted, their writes reach nobody.  Restoring a snapshot  *)
(* that holds an older copy of the record is left out.                     *)
(***************************************************************************)
EXTENDS Naturals, FiniteSets, TLC

CONSTANTS Thread,
          MaxRequests,  \* bound: requests other than the listing
          MaxEvents     \* bound: calls of LXD that fail, hands on the container,
                        \* crashes

ASSUME InstanceBounds == MaxRequests \in Nat /\ MaxEvents \in Nat

VARIABLES
  instance,   \* the record
  listed,     \* is it in ec2_state["instances"]?
  saved,      \* what the last save of the state holds of the two
  box,        \* the container: "none", "stopped" or "running"
  th,         \* per thread of a request or a launch, the call it is about to make
  list,       \* the listing: "idle", or the status it has read
  requests, events,
  ended,      \* how it came to its end: "terminated", a request to terminate it was
              \* answered; "removed", its record was taken away and not terminated
  disturbed   \* history: something overlapped, failed or was done by hand, or the
              \* clean-up took the container of a record

record == <<instance, listed>>
bounds == <<requests, events>>
vars == <<record, saved, box, th, list, bounds, ended, disturbed>>

\* spaced: is the record in a space, or in the fallback of a deployment without an
\* active space?  launch: launch_status.  id: is container_id set?  gone: does container_status
\* say that there is no container?  halted: stopped_at.  old: is terminated_at
\* further back than EC2_TERMINATED_VISIBILITY_SECONDS?
NotMade == [state |-> "none", spaced |-> TRUE, launch |-> "", id |-> FALSE, gone |-> FALSE,
            halted |-> FALSE, old |-> FALSE]

Down == {"stopped", "terminated"}

At(x, pc) == th[x] = pc
Goto(x, pc) == th' = [th EXCEPT ![x] = pc]
Finish(x) == Goto(x, "idle")

Idle == {x \in Thread : At(x, "idle")}
Free == IF Idle = {} THEN {} ELSE {CHOOSE x \in Idle : TRUE}
AllIdle == Idle = Thread /\ list = "idle"

\* _persist_state: the whole state, whoever calls it.
Persist == saved' = [instance |-> instance', listed |-> listed']

\* A call of LXD fails, or its answer is lost.
Fault == events < MaxEvents /\ events' = events + 1 /\ disturbed' = TRUE
NoFault == UNCHANGED <<events, disturbed>>

-----------------------------------------------------------------------------
(* Launching: _queue_runtime_start_for_store, _start_lxd_instance.         *)

WorkerPcs == {"begin", "check", "look", "launch", "launching", "status", "start",
              "mark", "ready", "fail"}
\* Is the record in the table that a launch has captured?  A space that is deleted
\* keeps its tables.
Kept == listed \/ "removed" \in ended

Launching == \E x \in Thread : th[x] \in WorkerPcs

\* Mutant of WorkerBegin: the record is not saved before the launch.
WorkerBeginUnsaved(x) ==
  /\ At(x, "begin")
  /\ IF Kept THEN Goto(x, "check") ELSE Finish(x)
  /\ instance' = IF Kept THEN [instance EXCEPT !.launch = "starting"] ELSE instance
  /\ UNCHANGED <<saved, listed, box, list, bounds, ended, disturbed>>

WorkerBegin(x) ==
  /\ At(x, "begin")
  /\ IF Kept
     THEN /\ instance' = [instance EXCEPT !.launch = "starting"]
          /\ Goto(x, "check") /\ UNCHANGED listed /\ Persist
     ELSE Finish(x) /\ UNCHANGED <<record, saved>>
  /\ UNCHANGED <<box, list, bounds, ended, disturbed>>

\* _ensure_container: LXDUnavailable, InstanceTerminated.
WorkerCheck(x) ==
  /\ At(x, "check")
  /\ \/ Fault /\ Goto(x, "fail")
     \/ NoFault /\ Goto(x, IF instance.state = "terminated" THEN "fail" ELSE "look")
  /\ UNCHANGED <<record, saved, box, list, requests, ended>>

\* A status that cannot be read is taken for no container.
WorkerLook(x) ==
  /\ At(x, "look")
  /\ \/ Fault /\ Goto(x, "launch") /\ UNCHANGED instance
     \/ /\ NoFault
        /\ Goto(x, IF box = "none" THEN "launch" ELSE "status")
        /\ instance' = [instance EXCEPT !.id = @ \/ box # "none"]
  /\ UNCHANGED <<listed, saved, box, list, requests, ended>>

\* lxc launch creates the container, unless the name is taken ...
WorkerLaunch(x) ==
  /\ At(x, "launch")
  /\ \/ Fault /\ Goto(x, "fail") /\ UNCHANGED box
     \/ NoFault /\ box # "none" /\ Goto(x, "fail") /\ UNCHANGED box
     \/ NoFault /\ box = "none" /\ Goto(x, "launching") /\ box' = "stopped"
  /\ UNCHANGED <<record, saved, list, requests, ended>>

\* ... and starts it, unless it is gone or runs already.  After a timeout it
\* may or may not go on.
WorkerLaunched(x) ==
  /\ At(x, "launching")
  /\ \/ /\ Fault /\ Goto(x, "fail") /\ UNCHANGED instance
        /\ box' \in {box, IF box = "stopped" THEN "running" ELSE box}
     \/ NoFault /\ box # "stopped" /\ Goto(x, "fail") /\ UNCHANGED <<instance, box>>
     \/ /\ NoFault /\ box = "stopped" /\ box' = "running"
        /\ instance' = [instance EXCEPT !.id = TRUE, !.gone = FALSE]
        /\ Goto(x, "status")
  /\ UNCHANGED <<listed, saved, list, requests, ended>>

\* The workspace is mounted, then the status read.
WorkerStatus(x) ==
  /\ At(x, "status")
  /\ \/ Fault /\ Goto(x, "fail")
     \/ /\ NoFault
        /\ Goto(x, CASE box = "none" -> "fail" [] box = "running" -> "mark" [] OTHER -> "start")
  /\ UNCHANGED <<record, saved, box, list, requests, ended>>

\* lxc start, which fails on a container that runs already.
WorkerStart(x) ==
  /\ At(x, "start")
  /\ \/ Fault /\ Goto(x, "fail") /\ box' \in {box, IF box = "stopped" THEN "running" ELSE box}
     \/ NoFault /\ box # "stopped" /\ Goto(x, "fail") /\ UNCHANGED box
     \/ NoFault /\ box = "stopped" /\ Goto(x, "mark") /\ box' = "running"
  /\ UNCHANGED <<record, saved, list, requests, ended>>

WorkerMark(x) ==
  /\ At(x, "mark")
  /\ instance' = [instance EXCEPT !.state = "running", !.gone = FALSE, !.halted = FALSE]
  /\ Goto(x, "ready")
  /\ UNCHANGED <<listed, saved, box, list, bounds, ended, disturbed>>

\* The record is looked up once more, for the outcome.
Outcome(x, after) ==
  /\ IF Kept THEN instance' = after /\ UNCHANGED listed /\ Persist
     ELSE UNCHANGED <<record, saved>>
  /\ Finish(x)
  /\ UNCHANGED <<box, list, bounds, ended, disturbed>>

WorkerReady(x) == At(x, "ready") /\ Outcome(x, [instance EXCEPT !.launch = "ready"])

WorkerFails(x) ==
  At(x, "fail") /\ Outcome(x, [instance EXCEPT !.launch = "error", !.gone = TRUE])

-----------------------------------------------------------------------------
(* Requests.                                                               *)

\* A request begins on a thread of the pool.
Request(x, pc) ==
  /\ requests < MaxRequests /\ requests' = requests + 1
  /\ x \in Free /\ Goto(x, pc)
  /\ disturbed' = (disturbed \/ ~AllIdle)

\* api_ec2_create_instance; auto_start may be off.
Create(x) ==
  /\ instance = NotMade
  /\ \E pc \in {"begin", "idle"} : Request(x, pc)
  /\ \E spaced \in BOOLEAN : instance' = [NotMade EXCEPT !.state = "pending", !.spaced = spaced]
  /\ listed' = TRUE
  /\ UNCHANGED <<saved, box, list, events, ended>>

\* A terminated instance is not refused.
Start(x) ==
  /\ listed /\ Request(x, "begin")
  /\ instance' = [instance EXCEPT !.state = "pending"]
  /\ UNCHANGED <<listed, saved, box, list, events, ended>>

Stop(x) ==
  /\ listed /\ Request(x, "stopping?")
  /\ UNCHANGED <<record, saved, box, list, events, ended>>

\* LXDUnavailable, or the status.
StopLook(x) ==
  /\ At(x, "stopping?")
  /\ \/ Fault /\ \E pc \in {"idle", "stopped"} : Goto(x, pc)
     \/ NoFault /\ Goto(x, IF box = "running" THEN "stopping" ELSE "stopped")
  /\ UNCHANGED <<record, saved, box, list, requests, ended>>

\* lxc stop fails on a container that does not run.
StopBox(x) ==
  /\ At(x, "stopping")
  /\ \/ Fault /\ Finish(x) /\ box' \in {box, IF box = "running" THEN "stopped" ELSE box}
     \/ NoFault /\ box # "running" /\ Finish(x) /\ UNCHANGED box
     \/ NoFault /\ box = "running" /\ Goto(x, "stopped") /\ box' = "stopped"
  /\ UNCHANGED <<record, saved, list, requests, ended>>

StopMark(x) ==
  /\ At(x, "stopped")
  /\ instance' = [instance EXCEPT !.state = "stopped", !.gone = FALSE, !.halted = TRUE]
  /\ Finish(x)
  /\ UNCHANGED <<listed, saved, box, list, bounds, ended, disturbed>>

Reboot(x) ==
  /\ listed /\ Request(x, "rebooting?")
  /\ UNCHANGED <<record, saved, box, list, events, ended>>

Reboots(x) ==
  /\ box = "running" /\ Goto(x, "rebooting")
  /\ instance' = [instance EXCEPT !.state = "rebooting"]

\* _await_reboot_ready: refused at once if the record says that the instance is
\* down ...
RebootLook(x) ==
  /\ At(x, "rebooting?")
  /\ \/ NoFault /\ Reboots(x)
     \/ /\ Fault \/ (NoFault /\ box # "running")
        /\ Goto(x, IF instance.state \in Down THEN "idle" ELSE "waiting")
        /\ UNCHANGED instance
  /\ UNCHANGED <<listed, saved, box, list, requests, ended>>

\* ... and else after 45 s in which the container was not seen running.
RebootWaits(x) ==
  /\ At(x, "waiting")
  /\ Reboots(x) \/ (Finish(x) /\ UNCHANGED instance)
  /\ UNCHANGED <<listed, saved, box, list, bounds, ended, disturbed>>

RebootBox(x) ==
  /\ At(x, "rebooting")
  /\ \/ Fault /\ Finish(x)
     \/ NoFault /\ Goto(x, IF box = "running" THEN "rebooted" ELSE "idle")
  /\ UNCHANGED <<record, saved, box, list, requests, ended>>

RebootMark(x) ==
  /\ At(x, "rebooted")
  /\ instance' = [instance EXCEPT !.state = "running", !.gone = FALSE]
  /\ Finish(x)
  /\ UNCHANGED <<listed, saved, box, list, bounds, ended, disturbed>>

\* Terminate without a container to talk to: the XML request knows the first
\* case only.
NoBackingContainer ==
  /\ ~instance.id
  /\ instance.launch = "error" \/ instance.gone

Terminated(hidden) ==
  [instance EXCEPT !.state = "terminated", !.gone = hidden, !.old = FALSE]

TerminateSimulated(x) ==
  /\ listed /\ NoBackingContainer /\ Request(x, "idle")
  /\ instance' = [Terminated(FALSE) EXCEPT !.halted = TRUE]
  /\ ended' = ended \cup {"terminated"}
  /\ UNCHANGED <<listed, saved, box, list, events>>

Terminate(x) ==
  /\ listed /\ Request(x, "removing?")
  /\ instance.id \/ instance.launch # "error"
  /\ UNCHANGED <<record, saved, box, list, events, ended>>

\* Mutant of TerminateLook: lxc rm without --force, which removes a stopped container
\* only.
TerminateLookStopped(x) ==
  /\ At(x, "removing?")
  /\ NoFault /\ Goto(x, IF box = "stopped" THEN "removing" ELSE "removed")
  /\ UNCHANGED <<record, saved, box, list, requests, ended>>

TerminateLook(x) ==
  /\ At(x, "removing?")
  /\ \/ Fault /\ \E pc \in {"idle", "removed"} : Goto(x, pc)
     \/ NoFault /\ Goto(x, IF box # "none" THEN "removing" ELSE "removed")
  /\ UNCHANGED <<record, saved, box, list, requests, ended>>

\* Whether lxc rm has failed is not asked; a timeout ends the request.
TerminateBox(x) ==
  /\ At(x, "removing")
  /\ \/ Fault /\ box' \in {box, "none"} /\ \E pc \in {"idle", "removed"} : Goto(x, pc)
     \/ NoFault /\ box' = "none" /\ Goto(x, "removed")
  /\ UNCHANGED <<record, saved, list, requests, ended>>

TerminateMark(x) ==
  /\ At(x, "removed")
  /\ instance' = Terminated(TRUE)
  /\ ended' = ended \cup {"terminated"}
  /\ Finish(x)
  /\ UNCHANGED <<listed, saved, box, list, bounds, disturbed>>

\* delete_space, or restore_snapshot of a snapshot that is older than the instance:
\* the record goes, the container is not looked at.
Remove(x) ==
  /\ listed /\ Request(x, "idle")
  /\ listed' = FALSE /\ UNCHANGED instance /\ Persist
  /\ ended' = ended \cup {"removed"}
  /\ UNCHANGED <<box, list, events>>

DeleteSpace(x) == instance.spaced /\ Remove(x)
RestoreSnapshot(x) == Remove(x)

\* run_cleanup("lxd_orphans"): first the ids of the records, then the containers,
\* then the deletions.  It knows the records of the spaces only.
CleanUp(x) ==
  /\ Request(x, IF listed /\ instance.spaced THEN "idle" ELSE "orphans?")
  /\ UNCHANGED <<record, saved, box, list, events, ended>>

CleanUpLook(x) ==
  /\ At(x, "orphans?")
  /\ \/ Fault /\ Finish(x)
     \/ NoFault /\ Goto(x, IF box = "none" THEN "idle" ELSE "orphan")
  /\ UNCHANGED <<record, saved, box, list, requests, ended>>

CleanUpBox(x) ==
  /\ At(x, "orphan")
  /\ \/ Fault /\ UNCHANGED box
     \/ box' = "none" /\ disturbed' = (disturbed \/ listed) /\ UNCHANGED events
  /\ Finish(x)
  /\ UNCHANGED <<record, saved, list, requests, ended>>

-----------------------------------------------------------------------------
(* The listing, which brings the record up to date.                        *)

Unsettled == {"starting", "error"}

\* Mutant of Synced: the status is copied as the state.
SyncedRaw(r, status) ==
  [r EXCEPT !.state = status, !.launch = IF @ \in Unsettled THEN "ready" ELSE @,
            !.gone = (status = "none")]

\* Mutant of Synced: a terminated record is left alone.
SyncedUnlessTerminated(r, status) ==
  IF r.state = "terminated" THEN r
  ELSE [r EXCEPT !.state = IF status = "running" THEN "running" ELSE "stopped",
                 !.launch = IF @ \in Unsettled THEN "ready" ELSE @, !.gone = (status = "none")]

\* _sync_lxd_instance, with the status that was read.
Synced(r, status) ==
  LET launch == IF r.launch \in Unsettled THEN "ready" ELSE r.launch
      state == CASE status = "running" -> "running"
                 [] status = "stopped" -> "stopped"
                 [] OTHER -> IF r.state = "terminated" THEN r.state ELSE "stopped"
  IN [r EXCEPT !.state = state, !.launch = launch, !.gone = (status = "none")]

Expired(r) == r.state = "terminated" /\ r.old

\* _prune_expired_terminated_instances, which saves what it changes.
Pruned(r) ==
  /\ instance' = r
  /\ listed' = (listed /\ ~Expired(r))
  /\ IF listed' = listed THEN UNCHANGED saved ELSE Persist

ListPrunes ==
  /\ list = "idle" /\ listed /\ Expired(instance)
  /\ Pruned(instance)
  /\ UNCHANGED <<box, th, list, bounds, ended, disturbed>>

ListLook ==
  /\ list = "idle" /\ listed /\ ~Expired(instance)
  /\ \/ Fault /\ list' = "none"
     \/ /\ list' = box
        /\ disturbed' = (disturbed \/ ~AllIdle) /\ UNCHANGED events
  /\ UNCHANGED <<record, saved, box, th, requests, ended>>

ListSync ==
  /\ list # "idle" /\ list' = "idle"
  /\ Pruned(Synced(instance, list))
  /\ UNCHANGED <<box, th, bounds, ended, disturbed>>

-----------------------------------------------------------------------------
(* Time, hands on the container, saves of other requests, crashes.         *)

Ages ==
  /\ instance.state = "terminated" /\ ~instance.old
  /\ instance' = [instance EXCEPT !.old = TRUE]
  /\ UNCHANGED <<listed, saved, box, th, list, bounds, ended, disturbed>>

\* It is powered off from inside, started or deleted with lxc.
ByHand ==
  /\ box # "none" /\ Fault
  /\ box' \in {"none", "stopped", "running"} \ {box}
  /\ UNCHANGED <<record, saved, th, list, requests, ended>>

\* At the end of every request that may change something, this one's included,
\* the middleware saves the whole state.
Save ==
  /\ UNCHANGED record /\ Persist /\ saved' # saved
  /\ UNCHANGED <<box, th, list, bounds, ended, disturbed>>

\* The process dies and starts again; LXD may finish a launch that was under
\* way. _reconcile_runtime_instances brings the record up to date if LXD is
\* reachable, and queues a launch for one that is still pending.
Restart ==
  /\ events < MaxEvents /\ events' = events + 1
  /\ list' = "idle"
  /\ box' \in {box} \cup {"running" : x \in {y \in Thread : At(y, "launching") /\ box = "stopped"}}
  /\ LET loaded == saved.instance
     IN \E r \in {loaded} \cup {Synced(loaded, status) : status \in {box', "none"}} :
          /\ disturbed' = (disturbed \/ ~AllIdle \/ r # Synced(loaded, box'))
          /\ instance' = IF saved.listed THEN r ELSE loaded
          /\ listed' = (saved.listed /\ ~Expired(r))
          /\ th' = [x \in Thread |-> IF listed' /\ r.state = "pending" /\ x = CHOOSE y \in Thread : TRUE
                                     THEN "begin" ELSE "idle"]
  /\ IF saved.listed = listed' THEN UNCHANGED saved ELSE Persist
  /\ UNCHANGED <<requests, ended>>

-----------------------------------------------------------------------------
Init ==
  /\ instance = NotMade /\ listed = FALSE
  /\ saved = [instance |-> NotMade, listed |-> FALSE]
  /\ box = "none"
  /\ th = [x \in Thread |-> "idle"] /\ list = "idle"
  /\ requests = 0 /\ events = 0
  /\ ended = {} /\ disturbed = FALSE

Worker(x) ==
  \/ WorkerBegin(x) \/ WorkerCheck(x) \/ WorkerLook(x) \/ WorkerLaunch(x) \/ WorkerLaunched(x)
  \/ WorkerStatus(x) \/ WorkerStart(x) \/ WorkerMark(x) \/ WorkerReady(x) \/ WorkerFails(x)

Step(x) ==
  \/ Worker(x)
  \/ StopLook(x) \/ StopBox(x) \/ StopMark(x)
  \/ RebootLook(x) \/ RebootWaits(x) \/ RebootBox(x) \/ RebootMark(x)
  \/ TerminateLook(x) \/ TerminateBox(x) \/ TerminateMark(x)
  \/ CleanUpLook(x) \/ CleanUpBox(x)

Arrive(x) ==
  \/ Create(x) \/ Start(x) \/ Stop(x) \/ Reboot(x)
  \/ TerminateSimulated(x) \/ Terminate(x) \/ CleanUp(x)
  \/ DeleteSpace(x) \/ RestoreSnapshot(x)

Listing == ListPrunes \/ ListLook \/ ListSync

Next ==
  \/ \E x \in Thread : Step(x) \/ Arrive(x)
  \/ Listing \/ Ages \/ ByHand \/ Save \/ Restart

\* Every call of LXD has a timeout, so the threads run on; the console lists the
\* instances every 30 s (static/aws-console.html, _AUTO_REFRESH_MS).
Fairness == (\A x \in Thread : WF_vars(Step(x))) /\ WF_vars(Listing)

Spec == Init /\ [][Next]_vars /\ Fairness

-----------------------------------------------------------------------------
(* Properties                                                              *)

Boxes == {"none", "stopped", "running"}
RequestPcs == {"stopping?", "stopping", "stopped", "rebooting?", "waiting", "rebooting", "rebooted",
               "removing?", "removing", "removed", "orphans?", "orphan"}
Records == [state : {"none", "pending", "running", "rebooting"} \cup Down,
            launch : {"", "ready"} \cup Unsettled,
            spaced : BOOLEAN, id : BOOLEAN, gone : BOOLEAN, halted : BOOLEAN, old : BOOLEAN]

RecordType ==
  instance \in Records /\ listed \in BOOLEAN /\ (listed => instance.state # "none")
StoreType ==
  /\ saved \in [instance : Records, listed : BOOLEAN]
  /\ saved.listed => saved.instance.state # "none"
PlaceType ==
  /\ box \in Boxes /\ list \in Boxes \cup {"idle"}
  /\ th \in [Thread -> WorkerPcs \cup RequestPcs \cup {"idle"}]
CountType == requests \in Nat /\ events \in Nat
HistoryType == ended \in SUBSET {"terminated", "removed"} /\ disturbed \in BOOLEAN

\* Every variable is of its kind, and only an instance that was made is listed, in
\* memory and in the store.
TypeOK == RecordType /\ StoreType /\ PlaceType /\ CountType /\ HistoryType

\* A container without a record, an orphan (core/disk_health.py:201-205), is what is
\* left of an instance that a tenant ended: it was terminated, its space was deleted
\* or an older snapshot restored.  No crash and no failed launch makes one, for a
\* launch saves the record before it makes the container.
OrphansWereEnded == box # "none" /\ ~listed => ended # {}

\* Why: there is a container, or a launch on its way to one, only if the record is
\* listed and saved or the instance was ended, and only then is it terminated.
Past == WorkerPcs \ {"begin"}
Made == box # "none" \/ \E x \in Thread : th[x] \in Past
RecordKept ==
  /\ Made => ended # {} \/ (listed /\ saved.listed)
  /\ instance.state = "terminated" => ended # {}
  /\ saved.instance.state = "terminated" => ended # {}

\* Calls that do not overlap each other or a listing, and meet no failure, leave
\* the record and the container in agreement.
CallsAgree ==
  AllIdle /\ listed /\ ~disturbed =>
    /\ instance.state = "running" <=> box = "running"
    /\ instance.state = "terminated" => box = "none"

\* Whatever overlapped, failed or died, once requests and events stop and the
\* listing goes on, the record tells the truth: a launch is not shown as under
\* way, running means running, and what is terminated has no container left.
Truthful ==
  /\ instance.launch \notin Unsettled
  /\ instance.state = "running" <=> box = "running"
  /\ instance.state = "terminated" => box = "none"
RecordsSettle == <>[](listed => Truthful)

\* server.py:12634-12636 on _await_reboot_ready: "Give an in-flight launch time to finish
\* instead, so create -> reboot from the console or a script is not a race. A
\* genuinely stopped instance still fails fast."
CreateThenReboot ==
  [][\A x \in Thread :
       At(x, "rebooting?") /\ th'[x] = "idle" /\ Launching => instance.halted]_vars

\* core/disk_health.py:201-205 on the clean-up: "Containers in LXD but not in any
\* simulator instance record are 'orphans'", "safe to reclaim".
CleanUpTakesOrphans ==
  [][\A x \in Thread : At(x, "orphan") /\ th'[x] = "idle" /\ box # "none" /\ box' = "none"
       => ~listed]_vars
=============================================================================
