---------------------------- MODULE Provisioner ----------------------------
(***************************************************************************)
(* core/backend_provisioner.py for ONE backend recipe: the ProvisionState  *)
(* row every thread of the process shares, the per-backend mutex, and the  *)
(* backend's container in the Docker daemon.                               *)
(*                                                                         *)
(* The HTTP handlers are plain functions run by a thread pool, and each    *)
(* accepted provision starts a daemon thread, so every line that reads or  *)
(* writes the row interleaves with the others.  The row itself is guarded  *)
(* by no lock: the mutex only keeps two workers apart.                     *)
(*                                                                         *)
(* BP (backend provisioner) tells BPInit, BPSpec ... from the Init, Spec   *)
(* ... of Ec2Instances, with which Containers_proofs extends this module.  *)
(*                                                                         *)
(* Requests - threads serving /provision and /stop                         *)
(* Pollers  - threads serving /status                                      *)
(* Workers  - slots for background workers: the bound on how many run at   *)
(*            once                                                         *)
(***************************************************************************)
CONSTANTS Requests, Pollers, Workers, NoWorker

ASSUME NoWorkerAssumption == NoWorker \notin Workers

VARIABLES
  state,      \* ProvisionState.state
  lock,       \* the worker holding the backend's mutex
  container,  \* Docker: the container of that name: "none", "exited" or "running"
  image,      \* Docker: is the image present locally?
  rpc,        \* where each request thread is
  ppc,        \* where each status thread is
  wpc         \* where each worker thread is

bpvars == <<state, lock, container, image, rpc, ppc, wpc>>
docker == <<container, image>>

States == {"ABSENT", "PULLING", "STARTING", "READY", "FAILED", "STOPPED"}
InFlight == {"PULLING", "STARTING"}

ServePcs  == {"idle", "reset", "spawn", "halt", "halted"}
PollerPcs == {"idle", "stale"}
WorkPcs   == {"idle", "lock", "find", "pull", "pulling", "run", "running", "inspect",
              "restart", "wait", "ready", "fail", "release"}

BPTypeOK ==
  /\ state \in States
  /\ lock \in Workers \cup {NoWorker}
  /\ container \in {"none", "exited", "running"}
  /\ image \in BOOLEAN
  /\ rpc \in [Requests -> ServePcs]
  /\ ppc \in [Pollers -> PollerPcs]
  /\ wpc \in [Workers -> WorkPcs]

\* A fresh process: no row yet (read as ABSENT), and whatever containers and
\* images earlier processes left behind.
BPInit ==
  /\ state = "ABSENT"
  /\ lock = NoWorker
  /\ container \in {"none", "exited", "running"}
  /\ image \in BOOLEAN
  /\ rpc = [r \in Requests |-> "idle"]
  /\ ppc = [p \in Pollers |-> "idle"]
  /\ wpc = [w \in Workers |-> "idle"]

RequestAt(r, from, to) == rpc[r] = from /\ rpc' = [rpc EXCEPT ![r] = to]
PollerAt(p, from, to)  == ppc[p] = from /\ ppc' = [ppc EXCEPT ![p] = to]
WorkerAt(w, from, to)  == wpc[w] = from /\ wpc' = [wpc EXCEPT ![w] = to]

(***************************************************************************)
(* provision_async: the check, the reset and thread.start are three steps. *)
(* A call that finds the backend in flight or ready returns at the check   *)
(* and changes nothing.                                                    *)
(***************************************************************************)
ProvisionCheck(r) ==
  /\ state \notin InFlight \cup {"READY"}
  /\ RequestAt(r, "idle", "reset")
  /\ UNCHANGED <<state, lock, docker, ppc, wpc>>

ProvisionReset(r) ==
  /\ RequestAt(r, "reset", "spawn")
  /\ state' = "ABSENT"
  /\ UNCHANGED <<lock, docker, ppc, wpc>>

ProvisionSpawn(r) ==
  /\ RequestAt(r, "spawn", "idle")
  /\ \E w \in Workers : WorkerAt(w, "idle", "lock")
  /\ UNCHANGED <<state, lock, docker, ppc>>

(***************************************************************************)
(* stop: look the container up, stop it if that snapshot says it runs, and *)
(* only then write STOPPED.  An error on the way leaves the state alone.   *)
(***************************************************************************)
StopBegins(r) ==
  /\ RequestAt(r, "idle", IF container = "running" THEN "halt" ELSE "halted")
  /\ UNCHANGED <<state, lock, docker, ppc, wpc>>

StopContainer(r) ==
  /\ container # "none"
  /\ RequestAt(r, "halt", "halted")
  /\ container' = "exited"
  /\ UNCHANGED <<state, lock, image, ppc, wpc>>

StopError(r) ==
  /\ RequestAt(r, "halt", "idle")
  /\ UNCHANGED <<state, lock, docker, ppc, wpc>>

StopMarks(r) ==
  /\ RequestAt(r, "halted", "idle")
  /\ state' = "STOPPED"
  /\ UNCHANGED <<lock, docker, ppc, wpc>>

(***************************************************************************)
(* status: a READY row is checked against Docker.  A poll within 10 s of   *)
(* the last check, one that finds the daemon unreachable and one that      *)
(* finds the container running change nothing modelled here.               *)
(***************************************************************************)
StatusLook(p) ==
  /\ state = "READY"
  /\ container # "running"
  /\ PollerAt(p, "idle", "stale")
  /\ UNCHANGED <<state, lock, docker, rpc, wpc>>

StatusMark(p) ==
  /\ PollerAt(p, "stale", "idle")
  /\ state' = "STOPPED"
  /\ UNCHANGED <<lock, docker, rpc, wpc>>

(***************************************************************************)
(* _provision_worker.  acquire(blocking=False): a worker that does not get *)
(* the mutex returns at once.                                              *)
(***************************************************************************)
\* Mutant of WorkerLock: acquire's result is not looked at.
WorkerBarges(w) ==
  /\ WorkerAt(w, "lock", "find")
  /\ lock' = w
  /\ UNCHANGED <<state, docker, rpc, ppc>>

WorkerLock(w) ==
  /\ IF lock = NoWorker
     THEN WorkerAt(w, "lock", "find") /\ lock' = w
     ELSE WorkerAt(w, "lock", "idle") /\ UNCHANGED lock
  /\ UNCHANGED <<state, docker, rpc, ppc>>

WorkerFind(w) ==
  /\ WorkerAt(w, "find", IF container = "none" THEN "pull" ELSE "inspect")
  /\ UNCHANGED <<state, lock, docker, rpc, ppc>>

\* _pull_image marks the row, then uses the local image or pulls it.
WorkerPull(w) ==
  /\ WorkerAt(w, "pull", "pulling")
  /\ state' = "PULLING"
  /\ UNCHANGED <<lock, docker, rpc, ppc>>

WorkerPulled(w) ==
  /\ WorkerAt(w, "pulling", "run")
  /\ image' = TRUE
  /\ UNCHANGED <<state, lock, container, rpc, ppc>>

\* _start_container marks the row, then creates the network, the volume and the
\* container; Docker refuses a name already in use.
WorkerRun(w) ==
  /\ WorkerAt(w, "run", "running")
  /\ state' = "STARTING"
  /\ UNCHANGED <<lock, docker, rpc, ppc>>

WorkerCreated(w) ==
  /\ container = "none"
  /\ WorkerAt(w, "running", "wait")
  /\ container' = "running"
  /\ UNCHANGED <<state, lock, image, rpc, ppc>>

\* The container exists: start it unless it runs.
WorkerInspect(w) ==
  /\ container # "none"
  /\ IF container = "running"
     THEN WorkerAt(w, "inspect", "wait") /\ UNCHANGED state
     ELSE WorkerAt(w, "inspect", "restart") /\ state' = "STARTING"
  /\ UNCHANGED <<lock, docker, rpc, ppc>>

WorkerRestart(w) ==
  /\ container # "none"
  /\ WorkerAt(w, "restart", "wait")
  /\ container' = "running"
  /\ UNCHANGED <<state, lock, image, rpc, ppc>>

\* _wait_for_ready: the health probe answers, or the deadline passes.
WorkerHealthy(w) ==
  /\ container = "running"
  /\ WorkerAt(w, "wait", "ready")
  /\ UNCHANGED <<state, lock, docker, rpc, ppc>>

\* Mutant of WorkerTimesOut: only an answering container lets the wait look at the clock.
TimesOutIfAnswered(w) ==
  /\ container = "running"
  /\ WorkerAt(w, "wait", "fail")
  /\ UNCHANGED <<state, lock, docker, rpc, ppc>>

WorkerTimesOut(w) ==
  /\ WorkerAt(w, "wait", "fail")
  /\ UNCHANGED <<state, lock, docker, rpc, ppc>>

\* The Docker call the worker is making raises: the daemon is unreachable, the
\* container vanished or its name is taken, the image is nowhere to be had (with
\* the image present, too, neither the look for it nor the pull has to succeed).
WorkerError(w) ==
  /\ wpc[w] \in {"find", "pulling", "running", "inspect", "restart"}
  /\ wpc' = [wpc EXCEPT ![w] = "fail"]
  /\ UNCHANGED <<state, lock, docker, rpc, ppc>>

\* containers.run creates, then starts: a start that fails (a host port in use)
\* leaves the container behind, not running; one whose answer is lost, running.
WorkerStartFails(w) ==
  /\ container = "none"
  /\ WorkerAt(w, "running", "fail")
  /\ container' \in {"exited", "running"}
  /\ UNCHANGED <<state, lock, image, rpc, ppc>>

WorkerIsReady(w) ==
  /\ WorkerAt(w, "ready", "release")
  /\ state' = "READY"
  /\ UNCHANGED <<lock, docker, rpc, ppc>>

\* Mutant of WorkerFailed: the exception is logged and the row left as it is.
FailsSilently(w) ==
  /\ WorkerAt(w, "fail", "release")
  /\ UNCHANGED <<state, lock, docker, rpc, ppc>>

\* Mutant of WorkerFailed: a word that is none of the row's states.
FailsOffTheMap(w) ==
  /\ WorkerAt(w, "fail", "release")
  /\ state' = "ERROR"
  /\ UNCHANGED <<lock, docker, rpc, ppc>>

WorkerFailed(w) ==
  /\ WorkerAt(w, "fail", "release")
  /\ state' = "FAILED"
  /\ UNCHANGED <<lock, docker, rpc, ppc>>

WorkerRelease(w) ==
  /\ WorkerAt(w, "release", "idle")
  /\ lock' = NoWorker
  /\ UNCHANGED <<state, docker, rpc, ppc>>

(***************************************************************************)
(* Outside the process: a container exits or is removed by hand, and an    *)
(* exited one comes back by its restart policy ("unless-stopped").         *)
(***************************************************************************)
ContainerExits ==
  /\ container = "running"
  /\ container' = "exited"
  /\ UNCHANGED <<state, lock, image, rpc, ppc, wpc>>

ContainerRestarts ==
  /\ container = "exited"
  /\ container' = "running"
  /\ UNCHANGED <<state, lock, image, rpc, ppc, wpc>>

ContainerRemoved ==
  /\ container # "none"
  /\ container' = "none"
  /\ UNCHANGED <<state, lock, image, rpc, ppc, wpc>>

Serve(r) ==
  \/ ProvisionReset(r) \/ ProvisionSpawn(r)
  \/ StopContainer(r) \/ StopError(r) \/ StopMarks(r)

Poll(p) == StatusLook(p) \/ StatusMark(p)

Work(w) ==
  \/ WorkerLock(w) \/ WorkerFind(w) \/ WorkerPull(w) \/ WorkerPulled(w)
  \/ WorkerRun(w) \/ WorkerCreated(w) \/ WorkerInspect(w) \/ WorkerRestart(w)
  \/ WorkerHealthy(w) \/ WorkerTimesOut(w) \/ WorkerError(w) \/ WorkerStartFails(w)
  \/ WorkerIsReady(w) \/ WorkerFailed(w) \/ WorkerRelease(w)

BPNext ==
  \/ \E r \in Requests : ProvisionCheck(r) \/ StopBegins(r) \/ Serve(r)
  \/ \E p \in Pollers : Poll(p)
  \/ \E w \in Workers : Work(w)
  \/ ContainerExits \/ ContainerRestarts \/ ContainerRemoved

(***************************************************************************)
(* Threads the process has started run on: a request and a status call     *)
(* once past their first line, and a worker (whose wait has a deadline).   *)
(* Nobody owes the program another provision or another poll (callers stop *)
(* polling at READY or FAILED), and Docker owes it nothing.                *)
(***************************************************************************)
BPFairness ==
  /\ \A r \in Requests : WF_bpvars(Serve(r))
  /\ \A p \in Pollers : WF_bpvars(StatusMark(p))
  /\ \A w \in Workers : WF_bpvars(Work(w))

BPSpec == BPInit /\ [][BPNext]_bpvars /\ BPFairness

(***************************************************************************)
(* Safety                                                                  *)
(***************************************************************************)
Working == {"find", "pull", "pulling", "run", "running", "inspect",
            "restart", "wait", "ready", "fail", "release"}
Settling == {"pulling", "run", "running", "restart", "wait", "ready", "fail"}

\* A row that says PULLING or STARTING is always backed by a live worker that
\* holds the mutex and has yet to write READY or FAILED.  provision_async turns
\* every call away in those two states, so a row left in one of them by a dead
\* worker could never be provisioned again.
InFlightIsWorked ==
  state \in InFlight => \E w \in Workers : lock = w /\ wpc[w] \in Settling

\* Whatever the requests do to the unguarded row, a worker that is about to
\* create the container finds the name free: the lookup and the creation of one
\* worker are not interleaved with those of another (no 409 from Docker, and no
\* provision that fails because of a twin).
NameIsFree ==
  \A w \in Workers : wpc[w] \in {"pull", "pulling", "run", "running"} => container = "none"

(***************************************************************************)
(* Liveness                                                                *)
(***************************************************************************)
\* A pull or a start that was begun ends: the row leaves PULLING and STARTING
\* within the recipe's health timeout, whatever happens to the container.
InFlightEnds == state \in InFlight ~> state \notin InFlight

\* provision_async's docstring: having called it, a caller polls status "until
\* state == READY or FAILED".
PollingEnds ==
  \A r \in Requests : rpc[r] = "spawn" ~> state \in {"READY", "FAILED"}
=============================================================================
