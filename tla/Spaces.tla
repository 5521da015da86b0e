------------------------------- MODULE Spaces -------------------------------
(***************************************************************************)
(* Simulation spaces and tenants (core/vyomi_platform.py, routes/spaces.py,*)
(* routes/tenants.py, core/app_context.py) over the engine's registry.     *)
(*                                                                         *)
(* The request handlers are plain functions run by a thread pool and share *)
(* the state without a lock. A step goes from one blocking call (a save,   *)
(* a call of the engine) to the next; the quota check and the insertion it *)
(* guards are steps of their own. An engine call may fail without effect,  *)
(* fail after it took effect (a timeout), or answer. A space is a function *)
(* from its keys to their values, as in the engine, since the code merges  *)
(* key by key: provider, status, tenant, ttl, contents, auto.              *)
(***************************************************************************)
EXTENDS CloudSimRegistry

CONSTANTS Tenant, DefaultTenant, Provider, Thread,
          Lifetimes,    \* the lifetimes requests ask for
          Made,         \* spaces that may exist at the start
          Cap,          \* the number of spaces a tenant may have
          MaxSpaces,    \* settings.max_spaces: the number of spaces there may be
          MaxRequests   \* bound: requests (the listings of a tenant's spaces excepted)
                        \* and restarts of the appliance and of the engine

ASSUME TenantAssumption == DefaultTenant \in Tenant
ASSUME ProviderAssumption == DefaultProvider \in Provider
ASSUME MadeAssumption == Made \subseteq Space
ASSUME LifetimesAssumption == Lifetimes \subseteq {"none", "running"}
ASSUME SpacesBounds == Cap \in Nat /\ MaxSpaces \in Nat /\ MaxRequests \in Nat

VARIABLES
  db,            \* state["spaces"]["spaces"]
  active,        \* active_space_id, NoSpace for ""
  tenants, activeTenant,
  th,            \* each thread's request: see Idle
  requests,
  disturbed      \* history: spaces with a request that overlapped another one on the
                 \* space, or of which the engine missed a call

state == <<db, active, tenants, activeTenant>>
vars == <<engine, state, th, requests, disturbed>>

-----------------------------------------------------------------------------
(* Spaces as dictionaries *)

Get(rec, key, default) == IF key \in DOMAIN rec THEN rec[key] ELSE default

Status(rec) == Get(rec, "status", "")
Owner(rec) == Get(rec, "tenant", DefaultTenant)
IsAuto(rec) == "auto" \in DOMAIN rec

\* What create_space stores: no tenant yet, and nothing in it (contents: whether
\* service_states holds a resource).
NewSpace(p, ttl) == [provider |-> p, status |-> "running", ttl |-> ttl, contents |-> FALSE]

\* What _pivot_to_matching_space stores: no status and no lifetime.
AutoSpace(p, t) == [provider |-> p, tenant |-> t, contents |-> FALSE, auto |-> TRUE]

\* ttl: "none", or whether the deadline that was set has passed.
TTLs == {"none", "running", "lapsed"}
Lapsed(rec) == Get(rec, "ttl", "none") = "lapsed"
Aged(rec) == IF Get(rec, "ttl", "none") = "running" THEN Put(rec, "ttl", "lapsed") ELSE rec

Stopped == {"expired", "shutdown", "archived"}
Due(rec) == Lapsed(rec) /\ Status(rec) \notin Stopped

\* _tenant_usage: the spaces a tenant has.
Owned(t) == {sp \in DOMAIN db : Owner(db[sp]) = t}

-----------------------------------------------------------------------------
(* Requests in progress *)

\* held: the space object the request keeps, or the one the engine answered;
\* live: the object it refers to is still the one in the map.
Idle == [pc |-> "idle", sp |-> NoSpace, tid |-> DefaultTenant, held |-> Bare,
         answer |-> Bare, live |-> TRUE]

At(x, pc) == th[x].pc = pc
Goto(x, pc) == th' = [th EXCEPT ![x].pc = pc]
Finish(x) == th' = [th EXCEPT ![x] = Idle]

\* The pool gives a request to an idle thread, no matter which.
Free == CHOOSE x \in Thread : At(x, "idle")

\* A request other than a listing of the active tenant starts: it is counted.
Counted == requests < MaxRequests /\ requests' = requests + 1

\* The request of x on sp may overlap another one on sp.
Overlap(x, sp) ==
  disturbed' = IF \E y \in Thread \ {x} : th[y].sp = sp THEN disturbed \cup {sp} ELSE disturbed

\* An object of the map is replaced or removed: references held to it go stale.
Orphaned(f, sp) ==
  [y \in Thread |-> IF f[y].sp = sp /\ f[y].pc \in {"pausing", "marking", "pushing"}
                    THEN [f[y] EXCEPT !.live = FALSE] ELSE f[y]]

\* A request on sp, made as tenant t, that is about to make the call pc names.
Begun(t, sp, pc) == [Idle EXCEPT !.pc = pc, !.sp = sp, !.tid = t]

Start(x, request) ==
  /\ At(x, "idle") /\ x = Free
  /\ Counted
  /\ Overlap(x, request.sp)
  /\ th' = [th EXCEPT ![x] = request]

\* A request made as tenant t on a space it owns (_require_tenant_space): the
\* active tenant, or the known one its X-CloudLearn-Tenant header names.
Request(x, t, sp, request) ==
  /\ t \in tenants \cup {activeTenant}
  /\ sp \in Owned(t)
  /\ Start(x, request)

\* Missed: the call of thread x about sp failed, whether or not Op took effect.
Fails(sp, Op) ==
  /\ disturbed' = disturbed \cup {sp}
  /\ Op \/ UNCHANGED engine

\* A call whose answer the request ignores.
Told(sp, Op) == (Op /\ UNCHANGED disturbed) \/ Fails(sp, Op)

-----------------------------------------------------------------------------
(* POST /api/spaces *)

\* An id is a new one or one the client gives; of the ids nobody has used any will do.
Used == DOMAIN db \cup DOMAIN engine \cup {th[x].sp : x \in Thread}
Fresh == IF Space \subseteq Used THEN {} ELSE {CHOOSE sp \in Space \ Used : TRUE}

\* The tenant exists and is below its quota.
CreateCheck(x, t, sp, p, ttl) ==
  /\ t \in tenants
  /\ Cardinality(Owned(t)) < Cap
  /\ sp \in Used \cup Fresh
  /\ Start(x, [Begun(t, sp, "creating") EXCEPT !.held = NewSpace(p, ttl)])
  /\ UNCHANGED <<engine, state>>

\* SimulationKernel.create_space: an id given by the client may be taken already.
\* (The budgets of memory and disk refuse a request before it changes anything.)
CreateRefused(x) ==
  /\ At(x, "creating")
  /\ Cardinality(DOMAIN db) >= MaxSpaces
  /\ Finish(x)
  /\ UNCHANGED <<engine, state, requests, disturbed>>

CreateKernel(x) ==
  /\ At(x, "creating")
  /\ Cardinality(DOMAIN db) < MaxSpaces
  /\ LET sp == th[x].sp
     IN /\ db' = Put(db, sp, th[x].held)
        /\ active' = IF active = NoSpace THEN sp ELSE active
        /\ th' = [Orphaned(th, sp) EXCEPT ![x].pc = "upserting"]
  /\ UNCHANGED <<engine, tenants, activeTenant, requests, disturbed>>

\* The engine is told; only an answer leads to the write back.
CreateUpsert(x) ==
  /\ At(x, "upserting")
  /\ LET Op == UpsertSpace(th[x].sp, th[x].held)
     IN \/ Op /\ UNCHANGED disturbed /\ Goto(x, "writing")
        \/ Fails(th[x].sp, Op) /\ Goto(x, "tagging")
  /\ UNCHANGED <<state, requests>>

\* PLATFORM.create_space stores the copy it took before the call.
CreateWriteBack(x) ==
  /\ At(x, "writing")
  /\ db' = Put(db, th[x].sp, th[x].held)
  /\ th' = [Orphaned(th, th[x].sp) EXCEPT ![x].pc = "tagging"]
  /\ UNCHANGED <<engine, active, tenants, activeTenant, requests, disturbed>>

\* api_create_space gives the space to its tenant.
CreateTag(x) ==
  /\ At(x, "tagging")
  /\ db' = IF th[x].sp \in DOMAIN db
           THEN [db EXCEPT ![th[x].sp] = Put(@, "tenant", th[x].tid)] ELSE db
  /\ Finish(x)
  /\ UNCHANGED <<engine, active, tenants, activeTenant, requests, disturbed>>

-----------------------------------------------------------------------------
(* POST /api/spaces/{id}/switch *)

SwitchKernel(x, t, sp) ==
  /\ Request(x, t, sp, [Begun(t, sp, "switching") EXCEPT !.held = db[sp]])
  /\ active' = sp
  /\ UNCHANGED <<engine, db, tenants, activeTenant>>

\* An answer without a space (the engine lacks it) ends the request.
SwitchEngine(x) ==
  /\ At(x, "switching")
  /\ LET sp == th[x].sp
     IN \/ /\ SwitchSpace(sp)
           /\ th' = [th EXCEPT ![x].pc = "merging", ![x].answer = engine[sp]]
           /\ UNCHANGED disturbed
        \/ Fails(sp, UNCHANGED engine) /\ Finish(x)
  /\ UNCHANGED <<state, requests>>

\* Mutant of Merge: the engine's copy of the contents wins.
MergeClobbers(local, remote) == Overlay(remote, local)

\* {**local, **remote}, with the local service_states put back.
Merge(local, remote) == Put(Overlay(remote, local), "contents", local.contents)

SwitchMerge(x) ==
  /\ At(x, "merging")
  /\ LET sp == th[x].sp
         local == IF sp \in DOMAIN db THEN db[sp] ELSE th[x].held
     IN /\ db' = Put(db, sp, Merge(local, th[x].answer))
        /\ th' = [Orphaned(th, sp) EXCEPT ![x].pc = "syncing"]
  /\ UNCHANGED <<engine, active, tenants, activeTenant, requests, disturbed>>

\* sync_counts: a space the map lacks is not pushed ...
SyncLook(x) ==
  /\ At(x, "syncing")
  /\ IF th[x].sp \in DOMAIN db THEN Goto(x, "posting") ELSE Finish(x)
  /\ UNCHANGED <<engine, state, requests, disturbed>>

\* ... the others by an upsert of nothing but counts.
SyncPost(x) ==
  /\ At(x, "posting")
  /\ Told(th[x].sp, UpsertSpace(th[x].sp, <<>>))
  /\ Finish(x)
  /\ UNCHANGED <<state, requests>>

\* cloudsim_reconcile: the counts of the active space are pushed.
Reconcile(x) ==
  /\ active # NoSpace
  /\ Start(x, Begun(activeTenant, active, "syncing"))
  /\ UNCHANGED <<engine, state>>

\* A summary the engine fails to give: cloudsim_current and cloudsim_summary call
\* rehydrate_cloudsim, which lists the spaces and pushes them one after the other. Like
\* the expiry's, the steps about one space are a request of their own.
Rehydrate(x, sp) ==
  /\ sp \in DOMAIN db
  /\ Start(x, [Begun(activeTenant, sp, "pushing") EXCEPT !.held = db[sp]])
  /\ UNCHANGED <<engine, state>>

\* The object listed is pushed as it is by now, also when the map has lost it.
Pushed(x) == IF th[x].live /\ th[x].sp \in DOMAIN db THEN db[th[x].sp] ELSE th[x].held

Push(x) ==
  /\ At(x, "pushing")
  /\ Told(th[x].sp, UpsertSpace(th[x].sp, Pushed(x)))
  /\ Finish(x)
  /\ UNCHANGED <<state, requests>>

-----------------------------------------------------------------------------
(* Status and lifetime *)

\* pause, resume and archive: the status is stored, then the engine told.
SetStatus(x, t, sp, status) ==
  /\ Request(x, t, sp, [Begun(t, sp, "telling") EXCEPT !.answer = [status |-> status]])
  /\ db' = [db EXCEPT ![sp] = Put(@, "status", status)]
  /\ UNCHANGED <<engine, active, tenants, activeTenant>>

\* Mutant of Renew: the engine is not told of the revival.
RenewSilently(x, t, sp, ttl) ==
  /\ At(x, "idle") /\ x = Free
  /\ Counted
  /\ t \in tenants \cup {activeTenant}
  /\ sp \in Owned(t)
  /\ Status(db[sp]) \in {"expired", "shutdown", "paused"}
  /\ db' = [db EXCEPT ![sp] = Put(Put(@, "ttl", ttl), "status", "running")]
  /\ UNCHANGED <<engine, active, tenants, activeTenant, th, disturbed>>

\* renew_ttl revives a stopped or paused space ...
Halted == {"expired", "shutdown", "paused"}

Renew(x, t, sp, ttl) ==
  /\ Request(x, t, sp, [Begun(t, sp, "telling") EXCEPT !.answer = [status |-> "running"]])
  /\ Status(db[sp]) \in Halted
  /\ db' = [db EXCEPT ![sp] = Put(Put(@, "ttl", ttl), "status", "running")]
  /\ UNCHANGED <<engine, active, tenants, activeTenant>>

\* ... and only extends the others.
Extend(t, sp, ttl) ==
  /\ Counted
  /\ t \in tenants \cup {activeTenant}
  /\ sp \in Owned(t)
  /\ Status(db[sp]) \notin Halted
  /\ db' = [db EXCEPT ![sp] = Put(@, "ttl", ttl)]
  /\ UNCHANGED <<engine, active, tenants, activeTenant, th, disturbed>>

Tell(x) ==
  /\ At(x, "telling")
  /\ Told(th[x].sp, ChangeStatus(th[x].sp, th[x].answer.status))
  /\ Finish(x)
  /\ UNCHANGED <<state, requests>>

\* force_shutdown: the object is looked up, the engine paused, the object marked.
Shutdown(x, t, sp) ==
  /\ Request(x, t, sp, [Begun(t, sp, "pausing") EXCEPT !.answer = [status |-> "shutdown"]])
  /\ UNCHANGED <<engine, state>>

\* GET /api/spaces: ensure_sandbox_ttls stamps every space without a lifetime ...
Stamped(rec) == IF Get(rec, "ttl", "none") = "none" THEN Put(rec, "ttl", "running") ELSE rec

List ==
  /\ db' = [sp \in DOMAIN db |-> Stamped(db[sp])]
  /\ UNCHANGED <<engine, active, tenants, activeTenant, th, requests, disturbed>>

\* Mutant of ExpireIfDue: only running spaces expire, paused ones do not.
ExpireIfRunning(x, t, sp) ==
  /\ At(x, "idle") /\ x = Free
  /\ t \in tenants \cup {activeTenant}
  /\ sp \in Owned(t) /\ Lapsed(db[sp]) /\ Status(db[sp]) = "running"
  /\ Overlap(x, sp)
  /\ th' = [th EXCEPT ![x] = [Begun(t, sp, "pausing") EXCEPT !.answer = [status |-> "expired"]]]
  /\ UNCHANGED <<engine, state, requests>>

\* ... and the tenant's spaces are looked at one after the other, as a GET of one
\* of them does: expire_if_due pauses and marks a lapsed one that is not stopped.
ExpireIfDue(x, t, sp) ==
  /\ At(x, "idle") /\ x = Free
  /\ t \in tenants \cup {activeTenant}
  /\ sp \in Owned(t) /\ Due(db[sp])
  /\ Overlap(x, sp)
  /\ th' = [th EXCEPT ![x] = [Begun(t, sp, "pausing") EXCEPT !.answer = [status |-> "expired"]]]
  /\ UNCHANGED <<engine, state, requests>>

StopEngine(x) ==
  /\ At(x, "pausing")
  /\ Told(th[x].sp, ChangeStatus(th[x].sp, "paused"))
  /\ Goto(x, "marking")
  /\ UNCHANGED <<state, requests>>

\* The mark goes to the object looked up before the call.
StopMark(x) ==
  /\ At(x, "marking")
  /\ db' = IF th[x].live THEN [db EXCEPT ![th[x].sp] = Put(@, "status", th[x].answer.status)]
           ELSE db
  /\ Finish(x)
  /\ UNCHANGED <<engine, active, tenants, activeTenant, requests, disturbed>>

-----------------------------------------------------------------------------
(* DELETE /api/spaces/{id} *)

\* Mutant of DeleteKernel: the deleted space stays the active one.
DeleteKeepsActive(x, t, sp) ==
  /\ Request(x, t, sp, Begun(t, sp, "dropping"))
  /\ db' = [other \in DOMAIN db \ {sp} |-> db[other]]
  /\ UNCHANGED <<engine, active, tenants, activeTenant>>

\* Another space, of any tenant, becomes the active one.
DeleteKernel(x, t, sp) ==
  /\ Request(x, t, sp, Begun(t, sp, "dropping"))
  /\ db' = [other \in DOMAIN db \ {sp} |-> db[other]]
  /\ IF active # sp THEN UNCHANGED active
     ELSE active' \in IF DOMAIN db' = {} THEN {NoSpace} ELSE DOMAIN db'
  /\ UNCHANGED <<engine, tenants, activeTenant>>

DeleteEngine(x) ==
  /\ At(x, "dropping")
  /\ Told(th[x].sp, DeleteSpace(th[x].sp))
  /\ Finish(x)
  /\ UNCHANGED <<state, requests>>

-----------------------------------------------------------------------------
(* Requests of the simulated cloud services (_SpaceScopedDictProxy) *)

Matches(sp, t, p) == Owner(db[sp]) = t /\ db[sp].provider = p

\* The active space if it fits the request, else another that does.
Home(t, p) ==
  LET fitting == {sp \in DOMAIN db : Matches(sp, t, p)}
  IN IF active \in fitting THEN {active} ELSE fitting

Store(rec) == Put(rec, "contents", TRUE)

\* Without an active space a service writes elsewhere (the legacy state).
Write(t, p) ==
  /\ t \in tenants \cup {activeTenant}
  /\ active \in DOMAIN db
  /\ \E sp \in Home(t, p) : db' = [db EXCEPT ![sp] = Store(@)]
  /\ UNCHANGED <<engine, active, tenants, activeTenant, th, requests, disturbed>>

\* No space fits: one is made, under an id nobody has used.
WriteToNew(t, p, sp) ==
  /\ Counted
  /\ t \in tenants \cup {activeTenant}
  /\ active \in DOMAIN db
  /\ Home(t, p) = {}
  /\ sp \in Fresh
  /\ db' = Put(db, sp, Store(AutoSpace(p, t)))
  /\ UNCHANGED <<engine, active, tenants, activeTenant, th, disturbed>>

-----------------------------------------------------------------------------
(* Tenants (routes/tenants.py) *)

CreateTenant(t) ==
  /\ Counted
  /\ t \notin tenants
  /\ tenants' = tenants \cup {t}
  /\ UNCHANGED <<engine, db, active, activeTenant, th, disturbed>>

SwitchTenant(t) ==
  /\ Counted
  /\ t \in tenants
  /\ activeTenant' = t
  /\ active' = IF active \in DOMAIN db /\ Owner(db[active]) # t THEN NoSpace ELSE active
  /\ UNCHANGED <<engine, db, tenants, th, disturbed>>

DeleteTenant(t) ==
  /\ Counted
  /\ t \in tenants \ {DefaultTenant}
  /\ Owned(t) = {}
  /\ tenants' = tenants \ {t}
  /\ activeTenant' = IF activeTenant = t THEN DefaultTenant ELSE activeTenant
  /\ UNCHANGED <<engine, db, active, th, disturbed>>

-----------------------------------------------------------------------------
(* Time, crashes and restarts *)

\* The deadline of sp passes, in every copy that carries it.
DeadlinePasses(sp) ==
  /\ sp \in DOMAIN db
  /\ Get(db[sp], "ttl", "none") = "running"
  /\ db' = [db EXCEPT ![sp] = Aged(@)]
  /\ engine' = IF Has(sp) THEN [engine EXCEPT ![sp] = Aged(@)] ELSE engine
  /\ th' = [x \in Thread |-> IF th[x].sp = sp
              THEN [th[x] EXCEPT !.held = Aged(@), !.answer = Aged(@)] ELSE th[x]]
  /\ UNCHANGED <<active, tenants, activeTenant, requests, disturbed>>

\* The appliance dies and starts again: ensure_default_tenant adopts the spaces
\* without a tenant, rehydrate_cloudsim pushes every space unless the engine
\* says it has as many; each push may fail.
Restart ==
  /\ Counted
  /\ th' = [x \in Thread |-> Idle]
  /\ db' = [sp \in DOMAIN db |-> Put(db[sp], "tenant", Owner(db[sp]))]
  /\ LET cut == {th[x].sp : x \in Thread} \ {NoSpace}
     IN \/ /\ Cardinality(DOMAIN engine) >= Cardinality(DOMAIN db)
           /\ UNCHANGED engine
           /\ disturbed' = disturbed \cup cut
        \/ \E pushed \in SUBSET DOMAIN db :
             /\ engine' = Overlay([sp \in pushed |->
                                     Overlay(db'[sp], IF Has(sp) THEN engine[sp] ELSE Bare)],
                                  engine)
             /\ disturbed' = disturbed \cup cut \cup (DOMAIN db \ pushed)
  /\ UNCHANGED <<active, tenants, activeTenant>>

EngineRestarts ==
  /\ Counted
  /\ disturbed' = disturbed \cup DOMAIN engine
  /\ RestartEmpty
  /\ UNCHANGED <<state, th>>

-----------------------------------------------------------------------------
\* A fresh installation, or one in which the spaces Made were created before.
Init ==
  /\ \E made \in {{}, Made}, owner \in [Made -> Tenant] :
       /\ engine = [sp \in made |-> NewSpace(DefaultProvider, "running")]
       /\ db = [sp \in made |-> Put(engine[sp], "tenant", owner[sp])]
       /\ tenants \in {ts \in SUBSET Tenant : {DefaultTenant} \cup {Owner(db[sp]) : sp \in made} \subseteq ts}
  /\ active \in IF db = NoSpaces THEN {NoSpace} ELSE DOMAIN db
  /\ activeTenant = DefaultTenant
  /\ th = [x \in Thread |-> Idle]
  /\ requests = 0
  /\ disturbed = {}

\* What a request in progress does next.
Step(x) ==
  \/ CreateRefused(x) \/ CreateKernel(x) \/ CreateUpsert(x) \/ CreateWriteBack(x) \/ CreateTag(x)
  \/ SwitchEngine(x) \/ SwitchMerge(x) \/ SyncLook(x) \/ SyncPost(x)
  \/ Push(x) \/ Tell(x) \/ DeleteEngine(x)
  \/ StopEngine(x) \/ StopMark(x)

\* A request arrives.
Arrive(x, t, sp) ==
  \/ \E p \in Provider, ttl \in Lifetimes : CreateCheck(x, t, sp, p, ttl)
  \/ SwitchKernel(x, t, sp)
  \/ \E status \in {"paused", "running", "archived"} : SetStatus(x, t, sp, status)
  \/ \E ttl \in Lifetimes : Renew(x, t, sp, ttl)
  \/ Shutdown(x, t, sp)
  \/ DeleteKernel(x, t, sp)

Next ==
  \/ \E x \in Thread : Step(x) \/ Reconcile(x) \/ \E sp \in Space : Rehydrate(x, sp)
  \/ List \/ \E x \in Thread, t \in Tenant, sp \in Space : ExpireIfDue(x, t, sp)
  \/ \E x \in Thread, t \in Tenant, sp \in Space : Arrive(x, t, sp)
  \/ \E t \in Tenant, sp \in Space, ttl \in Lifetimes : Extend(t, sp, ttl)
  \/ \E t \in Tenant, p \in Provider : Write(t, p) \/ \E sp \in Space : WriteToNew(t, p, sp)
  \/ \E t \in Tenant : CreateTenant(t) \/ SwitchTenant(t) \/ DeleteTenant(t)
  \/ \E sp \in Space : DeadlinePasses(sp)
  \/ Restart \/ EngineRestarts

\* Threads run, and the active tenant's list of spaces is read again and again
\* (the consoles do): lapsed spaces are only found by those who look.
Fairness ==
  /\ \A x \in Thread : WF_vars(Step(x))
  /\ \A sp \in Space : WF_vars(\E x \in Thread : ExpireIfDue(x, activeTenant, sp))

Spec == Init /\ [][Next]_vars /\ Fairness

-----------------------------------------------------------------------------
(* Properties *)

Keys == {"provider", "status", "tenant", "ttl", "contents", "auto"}
Record(rec) ==
  /\ DOMAIN rec \subseteq Keys
  /\ rec.provider \in Provider
  /\ Status(rec) \in Stopped \cup {"running", "paused", ""}
  /\ Owner(rec) \in Tenant
  /\ Get(rec, "ttl", "none") \in TTLs
  /\ Get(rec, "contents", FALSE) \in BOOLEAN

\* The maps hold spaces, the active id is a space's or none, and every request
\* is at one of the points where the handlers block.
TypeOK ==
  /\ DOMAIN db \subseteq Space /\ DOMAIN engine \subseteq Space
  /\ \A sp \in DOMAIN db : Record(db[sp]) /\ "contents" \in DOMAIN db[sp]
  /\ \A sp \in DOMAIN engine : Record(engine[sp]) /\ "status" \in DOMAIN engine[sp]
  /\ active \in DOMAIN db \cup {NoSpace}
  /\ tenants \subseteq Tenant /\ {DefaultTenant, activeTenant} \subseteq tenants
  /\ \A x \in Thread :
       /\ th[x].pc \in {"idle", "creating", "upserting", "writing", "tagging", "switching",
                        "merging", "syncing", "posting", "telling", "dropping",
                        "pausing", "marking", "pushing"}
       /\ th[x].sp \in Space \cup {NoSpace}

\* What the simulated services stored in a space stays there through switches,
\* pauses, renewals, stops and restarts as long as the space exists (the merge of
\* switch_space must not clobber it); only its own creation writes over it.
Creating(sp) == \E x \in Thread : th[x].sp = sp /\ th[x].pc \in {"creating", "writing"}
ContentsSurvive ==
  [][\A sp \in DOMAIN db \cap DOMAIN db' :
       Creating(sp) \/ (db[sp].contents => db'[sp].contents)]_vars

\* With requests that do not overlap and an engine that misses no call, the
\* engine holds the spaces of the database (those made for a resource excepted)
\* and runs those that run, whatever order they were created, stopped, renewed,
\* switched to and deleted in.
Mode(status) == IF status \in Halted THEN "halted" ELSE IF status = "" THEN "running" ELSE status
EngineFollows ==
  \A sp \in Space \ disturbed :
    (\A x \in Thread : th[x].sp # sp) =>
      /\ Has(sp) => sp \in DOMAIN db /\ Mode(engine[sp].status) = Mode(Status(db[sp]))
      /\ sp \in DOMAIN db => Has(sp) \/ IsAuto(db[sp])

\* A space whose deadline has passed is stopped, renewed or deleted as long as
\* its tenant stays the active one and keeps listing its spaces: no stop is lost
\* for good, even when a switch replaces the object being marked.
LapsedSpacesStop ==
  \A sp \in Space :
    LET overdue == sp \in DOMAIN db /\ Due(db[sp]) /\ Owner(db[sp]) = activeTenant
    IN overdue ~> ~overdue

\* routes/spaces.py:278: a space has exactly one provider, set at create, immutable thereafter.
ProviderIsFixed ==
  [][\A sp \in DOMAIN db \cap DOMAIN db' :
       Creating(sp) \/ db[sp].provider = db'[sp].provider]_vars
=============================================================================
