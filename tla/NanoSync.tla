------------------------------ MODULE NanoSync ------------------------------
(***************************************************************************)
(* How the browser contexts of Nano share one set of resources             *)
(* (core/nano_persist.py, wasm/nano-boot.js, relay/relay-shared-worker.js) *)
(*                                                                         *)
(* Every context -- console tabs and the relay worker -- holds a full copy *)
(* of the stores.  It saves the whole copy as one IndexedDB value and      *)
(* posts a message; the others then read that value back and merge it      *)
(* (three-way, against the keys they last shared).  A context also reads   *)
(* it before serving a request.  IndexedDB runs the gets and puts of one   *)
(* context in the order issued; between contexts anything goes.  A tab     *)
(* waits until its put is complete before it posts and answers, the relay  *)
(* worker only until the put is issued.  Calls that fail are left out.     *)
(*                                                                         *)
(* A store is a function from keys to versions, 0 for an absent key; each  *)
(* change writes a version of its own.                                     *)
(***************************************************************************)
EXTENDS Naturals, Sequences

CONSTANTS Tab,        \* console tabs (nano-boot.js)
          Relay,      \* tunnel workers (relay-shared-worker.js)
          Key,        \* resource names
          NoSnap,     \* nothing saved yet
          MaxOps,     \* bound: requests and background changes
          MaxOverlap, \* bound: how many of them arrive while others are served
          MaxReloads, \* bound: times a context is closed and opened again
          Apart       \* which kinds of activity the environment keeps apart

Ctx == Tab \cup Relay
Op == 1..MaxOps
Kinds == {"create", "delete", "read"}
Store == [Key -> 0..MaxOps]

\* refresh: no notification, poll or restore runs in a context that is being
\* changed; timer: nothing else changes while a background change waits for its
\* debounced save.
AllKinds == {"refresh", "timer"}

ASSUME ContextsAssumption == Tab \cap Relay = {}
ASSUME ApartAssumption == Apart \subseteq AllKinds
ASSUME NoSnapAssumption == NoSnap \notin Store
ASSUME NanoBounds == MaxOps \in Nat /\ MaxOverlap \in Nat /\ MaxReloads \in Nat

VARIABLES
  shared,     \* the "nano:stores" record of IndexedDB
  ctx,        \* per context: its copy `local', _nano_synced, _lastStores
  restoring,  \* _restoring
  timer,      \* _storeTimer is set
  inbox,      \* messages posted to this context's channel
  idb,        \* IndexedDB calls made and not executed, in order
  got,        \* results of executed calls, not handled yet
  up,         \* boot has released requests
  req,        \* the requests
  edits,      \* history: keys changed here since the last capture
  fresh,      \* history: the copy comes from the record as it is now, but for
              \* what this context has changed and saved itself
  seen,       \* history: the versions that have been in the record
  ops, reloads

flow == <<idb, got, req>>
vars == <<shared, ctx, restoring, timer, inbox, flow, up, edits, fresh, seen, ops, reloads>>

Present(s) == {k \in Key : s[k] # 0}
Empty == [k \in Key |-> 0]
Blank == [local |-> Empty, synced |-> {}, last |-> NoSnap]

\* For whom a call was made: a request's number, or one of these.
Boot == 0
Background == MaxOps + 1      \* a notification, a poll or the debounce timer
Get(who) == [kind |-> "get", who |-> who]
Put(who, s, ks, f) ==
  [kind |-> "put", who |-> who, snap |-> s, issued |-> FALSE, edits |-> ks, fresh |-> f]
Read(who, s) == [kind |-> "get", who |-> who, snap |-> s, now |-> TRUE]
Done(who) == [kind |-> "put", who |-> who]

IsPut(q) == q.kind = "put"
Saving(c) == \E n \in DOMAIN idb[c] : IsPut(idb[c][n])

Init ==
  /\ shared = NoSnap
  /\ ctx = [c \in Ctx |-> Blank]
  /\ restoring = [c \in Ctx |-> FALSE] /\ timer = [c \in Ctx |-> FALSE]
  /\ inbox = [c \in Ctx |-> 0]
  /\ idb = [c \in Ctx |-> <<Get(Boot)>>] /\ got = [c \in Ctx |-> <<>>]
  /\ up = [c \in Ctx |-> FALSE]
  /\ req = [i \in Op |-> [phase |-> "none"]]
  /\ edits = [c \in Ctx |-> {}] /\ fresh = [c \in Ctx |-> FALSE] /\ seen = {}
  /\ ops = 0 /\ reloads = 0

-----------------------------------------------------------------------------
(* The stores' own functions.                                              *)

\* Mutant of Restored: merge without the keys shared before, so nothing that was
\* deleted elsewhere goes away.
RestoredTwoWay(s, snap) ==
  IF snap = NoSnap THEN s
  ELSE LET merged == [k \in Key |-> IF snap[k] # 0 THEN snap[k] ELSE s.local[k]]
       IN  [local |-> merged, synced |-> Present(snap), last |-> merged]

\* restore_store and _lastStores = captureStores(): a key of the snapshot wins, a
\* key shared before and missing now was deleted elsewhere, any other key stays.
Restored(s, snap) ==
  IF snap = NoSnap THEN s
  ELSE LET merged == [k \in Key |-> IF snap[k] # 0 THEN snap[k]
                                    ELSE IF k \in s.synced THEN 0 ELSE s.local[k]]
       IN  [local |-> merged, synced |-> Present(snap), last |-> merged]

\* dispatch / _handle: a creation writes the version of its request.
Dispatched(s, r) ==
  CASE r.op = "create" -> [s EXCEPT !.local[r.key] = r.version]
    [] r.op = "delete" -> [s EXCEPT !.local[r.key] = 0]
    [] r.op = "read"   -> s

\* Mutant of MarkSaved: mark_saved_registry() is not called.
MarkSavedHalf(s) == [s EXCEPT !.last = s.local]

\* The head of writeStores / saveStores, before its await.
Unsaved(s) == s.local # s.last
MarkSaved(s) == [s EXCEPT !.last = s.local, !.synced = Present(s.local)]

Changed(r) == IF r.op = "read" THEN {} ELSE {r.key}

-----------------------------------------------------------------------------
(* What the environment keeps apart.  Later changes than the first MaxOverlap *)
(* arrive when no request is served and no save is under way; beyond that,  *)
(* Apart = {} keeps nothing apart.                                          *)

InFlight(i) == req[i].phase \notin {"none", "done", "lost"}
ServingAt(c) == \E i \in Op : InFlight(i) /\ req[i].at = c
DebouncingAt(c) ==
  timer[c] \/ \E n \in DOMAIN idb[c] : IsPut(idb[c][n]) /\ idb[c][n].who = Background

MayChange(c) ==
  /\ ops < MaxOps
  /\ ops >= MaxOverlap => (\A i \in Op : ~InFlight(i)) /\ \A d \in Ctx : ~Saving(d)
  /\ "timer" \in Apart => \A d \in Ctx : ~DebouncingAt(d)
  /\ "refresh" \in Apart => ~restoring[c] /\ inbox[c] = 0

MayRefresh(c) ==
  "refresh" \in Apart => ~restoring[c] /\ ~ServingAt(c) /\ ~DebouncingAt(c)

-----------------------------------------------------------------------------
(* Serving a request.                                                      *)

\* Capture the copy; if it differs from what was last saved or restored, mark
\* it saved and make the put, else there is nothing to publish.
SaveFor(c, s, ks, who) ==
  IF Unsaved(s)
  THEN /\ ctx' = [ctx EXCEPT ![c] = MarkSaved(s)]
       /\ idb' = [idb EXCEPT ![c] = Append(@, Put(who, s.local, ks, fresh'[c]))]
       /\ edits' = [edits EXCEPT ![c] = {}]
  ELSE /\ ctx' = [ctx EXCEPT ![c] = s]
       /\ edits' = [edits EXCEPT ![c] = ks]
       /\ UNCHANGED idb

\* Mutant of TabServes: answer without waiting for the save.
AnswersFirst(c, i, s, r) ==
  /\ SaveFor(c, Dispatched(s, r), edits[c] \cup Changed(r), i)
  /\ req' = [req EXCEPT ![i] = [r EXCEPT !.phase = "done"]]

\* A tab dispatches and captures in one turn of its event loop.
TabServes(c, i, s, r) ==
  LET served == Dispatched(s, r) IN
  /\ SaveFor(c, served, edits[c] \cup Changed(r), i)
  /\ req' = [req EXCEPT ![i] = [r EXCEPT !.phase = IF Unsaved(served) THEN "put" ELSE "done"]]

\* A request arrives: unless a restore is under way, the snapshot is read first.
Arrive(c) ==
  /\ up[c] /\ MayChange(c)
  /\ ops' = ops + 1
  /\ UNCHANGED <<shared, timer, inbox, got, up, fresh, seen, reloads>>
  /\ \E op \in Kinds, k \in Key :
       LET i == ops + 1
           r == [at |-> c, op |-> op, key |-> k, version |-> i, phase |-> "refresh"] IN
       \/ /\ ~restoring[c]
          /\ restoring' = [restoring EXCEPT ![c] = TRUE]
          /\ idb' = [idb EXCEPT ![c] = Append(@, Get(i))]
          /\ req' = [req EXCEPT ![i] = r]
          /\ UNCHANGED <<ctx, edits>>
       \/ /\ restoring[c] /\ c \in Tab
          /\ TabServes(c, i, ctx[c], r)
          /\ UNCHANGED restoring
       \/ /\ restoring[c] /\ c \in Relay
          /\ req' = [req EXCEPT ![i] = [r EXCEPT !.phase = "serve"]]
          /\ UNCHANGED <<restoring, ctx, idb, edits>>

\* The relay runs the handler (await handle) ...
RelayServes(i) ==
  /\ req[i].phase = "serve"
  /\ LET r == req[i] IN
       /\ ctx' = [ctx EXCEPT ![r.at] = Dispatched(@, r)]
       /\ edits' = [edits EXCEPT ![r.at] = @ \cup Changed(r)]
       /\ req' = [req EXCEPT ![i].phase = "save"]
  /\ UNCHANGED <<shared, restoring, timer, inbox, idb, got, up, fresh, seen, ops, reloads>>

\* ... and saves when the handler has returned (await saveNow).
RelaySaves(i) ==
  /\ req[i].phase = "save"
  /\ UNCHANGED <<shared, restoring, timer, inbox, got, up, fresh, seen, ops, reloads>>
  /\ LET c == req[i].at IN
       /\ SaveFor(c, ctx[c], edits[c], i)
       /\ req' = [req EXCEPT ![i].phase = IF Unsaved(ctx[c]) THEN "put" ELSE "done"]

-----------------------------------------------------------------------------
(* IndexedDB.                                                              *)

\* The others are told of a save, and the request it was for is answered.
Tell(c, who) ==
  /\ inbox' = [d \in Ctx |-> IF d = c THEN inbox[d] ELSE inbox[d] + 1]
  /\ req' = IF who \in Op THEN [req EXCEPT ![who].phase = "done"] ELSE req

\* The database is open and the relay worker's put issued: idbPut resolves.
Issue(c) ==
  /\ c \in Relay
  /\ \E n \in DOMAIN idb[c] :
       /\ IsPut(idb[c][n]) /\ ~idb[c][n].issued
       /\ \A m \in 1..n - 1 : IsPut(idb[c][m]) => idb[c][m].issued
       /\ idb' = [idb EXCEPT ![c][n].issued = TRUE]
       /\ Tell(c, idb[c][n].who)
  /\ UNCHANGED <<shared, ctx, restoring, timer, got, up, edits, fresh, seen, ops, reloads>>

ExecuteGet(c) ==
  /\ idb[c] # <<>> /\ ~IsPut(Head(idb[c]))
  /\ got' = [got EXCEPT ![c] = Append(@, Read(Head(idb[c]).who, shared))]
  /\ idb' = [idb EXCEPT ![c] = Tail(@)]
  /\ UNCHANGED <<shared, ctx, restoring, timer, inbox, req, up, edits, fresh, seen, ops, reloads>>

\* History: what another context has saved in the meantime, or read before, is stale.
Outdated(q) == [n \in DOMAIN q |-> IF IsPut(q[n]) THEN [q[n] EXCEPT !.fresh = FALSE] ELSE q[n]]
Overtaken(g) == [n \in DOMAIN g |-> IF IsPut(g[n]) THEN g[n] ELSE [g[n] EXCEPT !.now = FALSE]]

\* The put takes effect; a tab waits for that (tx.oncomplete).
ExecutePut(c) ==
  /\ idb[c] # <<>> /\ IsPut(Head(idb[c]))
  /\ LET q == Head(idb[c]) IN
       /\ c \in Relay => q.issued
       /\ shared' = q.snap
       /\ seen' = seen \cup {q.snap[k] : k \in Key}
       /\ got' = [d \in Ctx |-> IF d = c /\ c \in Tab THEN Append(Overtaken(got[d]), Done(q.who))
                                ELSE Overtaken(got[d])]
  /\ idb' = [d \in Ctx |-> IF d = c THEN Tail(idb[d]) ELSE Outdated(idb[d])]
  /\ fresh' = [d \in Ctx |-> d = c /\ fresh[d]]
  /\ UNCHANGED <<ctx, restoring, timer, inbox, req, up, edits, ops, reloads>>

\* Mutant of Apply: _restoring is not cleared.
ApplyKeepsFlag(c) ==
  /\ got[c] # <<>> /\ ~IsPut(Head(got[c]))
  /\ got' = [got EXCEPT ![c] = Tail(@)]
  /\ LET g == Head(got[c])
         s == Restored(ctx[c], g.snap) IN
       /\ fresh' = [fresh EXCEPT ![c] = g.now /\ ~Saving(c)]
       /\ up' = [up EXCEPT ![c] = @ \/ g.who = Boot]
       /\ \/ g.who \in Op /\ c \in Tab /\ TabServes(c, g.who, s, req[g.who])
          \/ /\ g.who \in Op /\ c \in Relay
             /\ ctx' = [ctx EXCEPT ![c] = s]
             /\ req' = [req EXCEPT ![g.who].phase = "serve"]
             /\ UNCHANGED <<idb, edits>>
          \/ /\ g.who \notin Op
             /\ ctx' = [ctx EXCEPT ![c] = s]
             /\ UNCHANGED <<idb, req, edits>>
  /\ UNCHANGED <<shared, restoring, timer, inbox, seen, ops, reloads>>

\* The result of a get: restore, clear _restoring, and go on with whatever
\* waited for it.  At boot _restoring is not used.
Apply(c) ==
  /\ got[c] # <<>> /\ ~IsPut(Head(got[c]))
  /\ got' = [got EXCEPT ![c] = Tail(@)]
  /\ LET g == Head(got[c])
         s == Restored(ctx[c], g.snap) IN
       /\ fresh' = [fresh EXCEPT ![c] = g.now /\ ~Saving(c)]
       /\ restoring' = [restoring EXCEPT ![c] = @ /\ g.who = Boot]
       /\ up' = [up EXCEPT ![c] = @ \/ g.who = Boot]
       /\ \/ g.who \in Op /\ c \in Tab /\ TabServes(c, g.who, s, req[g.who])
          \/ /\ g.who \in Op /\ c \in Relay
             /\ ctx' = [ctx EXCEPT ![c] = s]
             /\ req' = [req EXCEPT ![g.who].phase = "serve"]
             /\ UNCHANGED <<idb, edits>>
          \/ /\ g.who \notin Op
             /\ ctx' = [ctx EXCEPT ![c] = s]
             /\ UNCHANGED <<idb, req, edits>>
  /\ UNCHANGED <<shared, timer, inbox, seen, ops, reloads>>

\* A tab's put is complete.
Complete(c) ==
  /\ got[c] # <<>> /\ IsPut(Head(got[c]))
  /\ got' = [got EXCEPT ![c] = Tail(@)]
  /\ Tell(c, Head(got[c]).who)
  /\ UNCHANGED <<shared, ctx, restoring, timer, idb, up, edits, fresh, seen, ops, reloads>>

-----------------------------------------------------------------------------
(* Notifications, background changes and polls.                            *)

\* Mutant of Deliver: a message is handled that was never posted.
DeliverUnposted(c) ==
  /\ MayRefresh(c)
  /\ inbox' = [inbox EXCEPT ![c] = @ - 1]
  /\ IF restoring[c] THEN UNCHANGED <<restoring, idb>>
     ELSE /\ restoring' = [restoring EXCEPT ![c] = TRUE]
          /\ idb' = [idb EXCEPT ![c] = Append(@, Get(Background))]
  /\ UNCHANGED <<shared, ctx, timer, got, req, up, edits, fresh, seen, ops, reloads>>

\* onmessage: ignored while a restore is under way.
Deliver(c) ==
  /\ inbox[c] > 0 /\ MayRefresh(c)
  /\ inbox' = [inbox EXCEPT ![c] = @ - 1]
  /\ IF restoring[c] THEN UNCHANGED <<restoring, idb>>
     ELSE /\ restoring' = [restoring EXCEPT ![c] = TRUE]
          /\ idb' = [idb EXCEPT ![c] = Append(@, Get(Background))]
  /\ UNCHANGED <<shared, ctx, timer, got, req, up, edits, fresh, seen, ops, reloads>>

\* listDesired of the in-browser VM host.
Poll(c) ==
  /\ c \in Tab /\ up[c] /\ MayRefresh(c)
  /\ ~restoring[c] /\ ~timer[c]
  /\ restoring' = [restoring EXCEPT ![c] = TRUE]
  /\ idb' = [idb EXCEPT ![c] = Append(@, Get(Background))]
  /\ UNCHANGED <<shared, ctx, timer, inbox, got, req, up, edits, fresh, seen, ops, reloads>>

\* annotate of the VM host, __nano_stores_dirty of the relay: an existing record
\* changes outside any request and a save is scheduled 400 ms later.
Annotate(c) ==
  /\ up[c] /\ MayChange(c)
  /\ ops' = ops + 1
  /\ \E k \in Present(ctx[c].local) :
       /\ ctx' = [ctx EXCEPT ![c].local[k] = ops + 1]
       /\ edits' = [edits EXCEPT ![c] = @ \cup {k}]
  /\ timer' = [timer EXCEPT ![c] = TRUE]
  /\ UNCHANGED <<shared, restoring, inbox, flow, up, fresh, seen, reloads>>

TimerFires(c) ==
  /\ timer[c]
  /\ timer' = [timer EXCEPT ![c] = FALSE]
  /\ UNCHANGED <<shared, restoring, inbox, got, req, up, fresh, seen, ops, reloads>>
  /\ SaveFor(c, ctx[c], edits[c], Background)

\* The tab or worker is closed and opened again: memory, calls not executed
\* and messages not handled are gone; boot reads the snapshot first.
Reload(c) ==
  /\ reloads < MaxReloads /\ reloads' = reloads + 1
  /\ ctx' = [ctx EXCEPT ![c] = Blank]
  /\ restoring' = [restoring EXCEPT ![c] = FALSE]
  /\ timer' = [timer EXCEPT ![c] = FALSE]
  /\ inbox' = [inbox EXCEPT ![c] = 0]
  /\ idb' = [idb EXCEPT ![c] = <<Get(Boot)>>] /\ got' = [got EXCEPT ![c] = <<>>]
  /\ up' = [up EXCEPT ![c] = FALSE]
  /\ edits' = [edits EXCEPT ![c] = {}] /\ fresh' = [fresh EXCEPT ![c] = FALSE]
  /\ req' = [i \in Op |-> IF InFlight(i) /\ req[i].at = c
                          THEN [req[i] EXCEPT !.phase = "lost"] ELSE req[i]]
  /\ UNCHANGED <<shared, seen, ops>>

-----------------------------------------------------------------------------
Machinery ==
  \/ \E c \in Ctx : \/ Issue(c) \/ ExecuteGet(c) \/ ExecutePut(c)
                    \/ Apply(c) \/ Complete(c) \/ Deliver(c) \/ TimerFires(c)
  \/ \E i \in Op : RelayServes(i) \/ RelaySaves(i)

Environment ==
  \E c \in Ctx : Arrive(c) \/ Annotate(c) \/ Poll(c) \/ Reload(c)

Next == Machinery \/ Environment

\* The browser goes on running event handlers, IndexedDB and timers; nobody
\* promises further requests, polls or reloads.
Fairness ==
  /\ \A c \in Ctx : /\ WF_vars(Issue(c)) /\ WF_vars(ExecuteGet(c)) /\ WF_vars(ExecutePut(c))
                    /\ WF_vars(Apply(c)) /\ WF_vars(Complete(c))
                    /\ WF_vars(Deliver(c)) /\ WF_vars(TimerFires(c))
  /\ \A i \in Op : WF_vars(RelayServes(i)) /\ WF_vars(RelaySaves(i))

Spec == Init /\ [][Next]_vars /\ Fairness

-----------------------------------------------------------------------------
(* Properties.                                                             *)

Snapshot == {NoSnap} \cup Store
Shared == IF shared = NoSnap THEN Empty ELSE shared
Who == {Boot, Background} \cup Op
Call == [kind : {"get"}, who : Who]
        \cup [kind : {"put"}, who : Who \ {Boot}, snap : Store, issued : BOOLEAN,
              edits : SUBSET Key, fresh : BOOLEAN]
Result == [kind : {"get"}, who : Who, snap : Snapshot, now : BOOLEAN]
          \cup [kind : {"put"}, who : Who \ {Boot}]
Phases == {"refresh", "serve", "save", "put", "done", "lost"}
Copy == [local : Store, synced : SUBSET Key, last : Snapshot]

\* The variables keep their types; a request that has not arrived has no phase.
TypeOK ==
  /\ shared \in Snapshot
  /\ \A c \in Ctx : /\ ctx[c] \in Copy
                     /\ \A n \in DOMAIN idb[c] : idb[c][n] \in Call
                     /\ \A m \in DOMAIN got[c] : got[c][m] \in Result
  /\ restoring \in [Ctx -> BOOLEAN] /\ timer \in [Ctx -> BOOLEAN] /\ up \in [Ctx -> BOOLEAN]
  /\ inbox \in [Ctx -> Nat]
  /\ edits \in [Ctx -> SUBSET Key] /\ fresh \in [Ctx -> BOOLEAN] /\ seen \subseteq Nat
  /\ \A i \in Op : i > ops => req[i].phase = "none"
  /\ \A i \in Op : req[i].phase # "none" => req[i].phase \in Phases /\ req[i].at \in Ctx

\* A copy whose context has read the record and been overtaken by nobody since is
\* the record, but for what the context itself has changed and not yet saved: the
\* merge (nano_persist.py:147) brings no deleted key back and takes none for deleted.
FreshCopiesAgree ==
  \A c \in Ctx : fresh[c] /\ ~Saving(c) =>
    \A k \in Key \ edits[c] : ctx[c].local[k] = Shared[k]

\* The put of context c that takes effect changes the record only at keys that c
\* changed itself.
Exact(c) == \A k \in Key : Shared'[k] # Shared[k] => k \in Head(idb[c]).edits
Executes(c) == idb[c] # <<>> /\ IsPut(Head(idb[c])) /\ idb'[c] = Tail(idb[c])

\* A save never undoes what another context did, although it writes its whole
\* copy, unless that context saved between the read the copy comes from and the put.
FreshSavesAreExact ==
  [][\A c \in Ctx : Executes(c) /\ Head(idb[c]).fresh => Exact(c)]_vars

\* relay-shared-worker.js:281: "serve the latest shared state: a save from a stale
\* copy would undo other tabs' changes".
SavesNeverUndo == [][\A c \in Relay : Executes(c) => Exact(c)]_vars

Created(i) == req[i].phase = "done" /\ req[i].op = "create"

\* When a tab answers a creation, the resource has been in the shared record
\* (nano-boot.js:327-330), whatever else the contexts do at the same time.
TabAnswersAreShared == \A i \in Op : Created(i) /\ req[i].at \in Tab => i \in seen

\* relay-shared-worker.js:283-284: "when the CLI/SDK gets the response, the change is
\* already in the shared snapshot the console reads".
AnsweredIsShared == \A i \in Op : Created(i) => i \in seen

\* The same line, "Persist + notify the consoles BEFORE answering", in a weaker
\* reading: the resource is in the shared record or in a put that was made.
AnsweredIsSaved ==
  \A i \in Op : Created(i) /\ i \notin seen =>
    \E n \in DOMAIN idb[req[i].at] :
      LET q == idb[req[i].at][n] IN IsPut(q) /\ i \in {q.snap[k] : k \in Key}

\* A pending debounced save is not clobbered: what a context changed in the
\* background is still there when its timer fires (nano-boot.js:307).
PendingSaveKept ==
  [][\A c \in Ctx : timer[c] /\ timer'[c] =>
       \A k \in edits[c] : ctx[c].local[k] # 0 => ctx'[c].local[k] >= ctx[c].local[k]]_vars

\* Nothing is forgotten, whatever overlaps: where _restoring is set, with which a
\* context drops notifications and skips refreshes (nano-boot.js:290), a read that
\* will clear it is under way; so is the call a request waits for; and for a change
\* that is not saved there is a timer or a request that will save it.
Calls(c, kind, who) ==
  \/ \E n \in DOMAIN idb[c] : idb[c][n].kind = kind /\ idb[c][n].who \in who
  \/ \E n \in DOMAIN got[c] : got[c][n].kind = kind /\ got[c][n].who \in who
FlagIsCleared == \A c \in Ctx : restoring[c] => Calls(c, "get", Who \ {Boot})
RequestsGoOn ==
  \A i \in Op : /\ req[i].phase = "refresh" => Calls(req[i].at, "get", {i})
                /\ req[i].phase = "put" => Calls(req[i].at, "put", {i})
ChangesAreSaved ==
  \A c \in Ctx : edits[c] # {} /\ Unsaved(ctx[c]) =>
    timer[c] \/ \E i \in Op : req[i].phase = "save" /\ req[i].at = c
NothingIsForgotten == FlagIsCleared /\ RequestsGoOn /\ ChangesAreSaved

\* Once requests and reloads stop, every request has been answered or lost with its
\* context and every save is made; and _restoring, with which a context drops
\* notifications and skips refreshes, is cleared again whatever goes on.
ComesToRest ==
  /\ <>[]((\A i \in Op : ~InFlight(i)) /\ \A c \in Ctx : up[c] /\ ~timer[c] /\ ~Saving(c))
  /\ \A c \in Ctx : []<>~restoring[c]
=============================================================================
