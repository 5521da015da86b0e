--------------------------- MODULE Spaces_proofs ---------------------------
(***************************************************************************)
(* Proofs about Spaces, for any spaces, tenants, providers, threads and    *)
(* bounds: type correctness, that the engine follows the database, and     *)
(* that what is stored in a space survives.                                *)
(*                                                                         *)
(* TypeOK is not inductive: a request in progress holds a space it will    *)
(* store, and the merge of two spaces is one only if each says whose       *)
(* provider it has.  EngineFollows speaks of the spaces nobody works on;   *)
(* Follows adds what holds at each call of a request on a space that no    *)
(* other request disturbs.                                                 *)
(***************************************************************************)
EXTENDS Spaces, TLAPS

Statuses == Stopped \cup {"running", "paused", ""}
Kind == [provider |-> Provider, status |-> Statuses, tenant |-> Tenant, ttl |-> TTLs,
         contents |-> BOOLEAN, auto |-> BOOLEAN]

\* A dictionary of a space's keys, one that says which provider it has, and what the
\* database and the engine hold.
Partial(rec) == DOMAIN rec \subseteq Keys /\ \A k \in DOMAIN rec : rec[k] \in Kind[k]
Full(rec) == Partial(rec) /\ "provider" \in DOMAIN rec
Stored(rec) == Full(rec) /\ "contents" \in DOMAIN rec
Known(rec) == Full(rec) /\ "status" \in DOMAIN rec

-----------------------------------------------------------------------------
(* Dictionaries                                                            *)

\* The upper dictionary decides, the lower one fills in.
LEMMA OverlayKeys ==
  ASSUME NEW m, NEW b
  PROVE  /\ DOMAIN Overlay(m, b) = DOMAIN m \cup DOMAIN b
         /\ \A i \in DOMAIN m : Overlay(m, b)[i] = m[i]
         /\ \A i \in DOMAIN b \ DOMAIN m : Overlay(m, b)[i] = b[i]
BY DEF Overlay

\* One entry set to a value of its kind.
LEMMA PutKinds ==
  ASSUME NEW m, NEW k \in Keys, NEW v \in Kind[k]
  PROVE  /\ Partial(m) => Partial(Put(m, k, v))
         /\ Full(m) => Full(Put(m, k, v))
         /\ Stored(m) => Stored(Put(m, k, v))
         /\ Known(m) => Known(Put(m, k, v))
<1> DEFINE s == Put(m, k, v)
<1>1. /\ DOMAIN s = DOMAIN m \cup {k} /\ s[k] = v
      /\ \A i \in DOMAIN m : i # k => s[i] = m[i]
  BY DEF Put
<1> HIDE DEF s
<1>2. Partial(m) => Partial(s)
  <2> SUFFICES ASSUME Partial(m) PROVE Partial(s)
    OBVIOUS
  <2>1. ASSUME NEW i \in DOMAIN s PROVE i \in Keys /\ s[i] \in Kind[i]
    <3>1. CASE i = k BY <1>1, <3>1
    <3>2. CASE i # k BY <1>1, <2>1, <3>2 DEF Partial
    <3> QED BY <3>1, <3>2
  <2> QED BY <2>1 DEF Partial
<1>3. /\ Full(m) => Full(s)
      /\ Stored(m) => Stored(s)
      /\ Known(m) => Known(s)
  BY <1>1, <1>2 DEF Full, Stored, Known
<1> QED BY <1>2, <1>3 DEF s

\* One dictionary of a space's keys laid over another.
LEMMA OverlayKinds ==
  ASSUME NEW m, NEW b, Partial(m)
  PROVE  /\ Full(b) => Full(Overlay(m, b))
         /\ Stored(b) => Stored(Overlay(m, b))
         /\ Known(b) => Known(Overlay(m, b))
<1> DEFINE s == Overlay(m, b)
<1>1. /\ DOMAIN s = DOMAIN m \cup DOMAIN b
      /\ \A i \in DOMAIN m : s[i] = m[i]
      /\ \A i \in DOMAIN b \ DOMAIN m : s[i] = b[i]
  BY OverlayKeys
<1> HIDE DEF s
<1>2. Partial(b) => Partial(s)
  <2> SUFFICES ASSUME Partial(b) PROVE Partial(s)
    OBVIOUS
  <2>1. ASSUME NEW i \in DOMAIN s PROVE i \in Keys /\ s[i] \in Kind[i]
    <3>1. CASE i \in DOMAIN m BY <1>1, <3>1 DEF Partial
    <3>2. CASE i \notin DOMAIN m BY <1>1, <2>1, <3>2 DEF Partial
    <3> QED BY <3>1, <3>2
  <2> QED BY <2>1 DEF Partial
<1>3. /\ Full(b) => Full(s)
      /\ Stored(b) => Stored(s)
      /\ Known(b) => Known(s)
  BY <1>1, <1>2 DEF Full, Stored, Known
<1> QED BY <1>3 DEF s

\* The kind of each key's value.
LEMMA Kinds ==
  /\ Kind["provider"] = Provider /\ Kind["status"] = Statuses /\ Kind["tenant"] = Tenant
  /\ Kind["ttl"] = TTLs /\ Kind["contents"] = BOOLEAN /\ Kind["auto"] = BOOLEAN
BY DEF Kind

\* The keys are those of TypeOK.
LEMMA FullIsRecord == ASSUME NEW rec, Full(rec) PROVE Record(rec)
<1>1. \A k \in DOMAIN rec : k \in Keys /\ rec[k] \in Kind[k]
  BY DEF Full, Partial
<1>2. rec.provider \in Provider
  BY <1>1, Kinds DEF Full
<1>3. Status(rec) \in Statuses
  BY <1>1, Kinds DEF Status, Get, Statuses
<1>4. Owner(rec) \in Tenant
  BY <1>1, Kinds, TenantAssumption DEF Owner, Get
<1>5. Get(rec, "ttl", "none") \in TTLs
  BY <1>1, Kinds DEF Get, TTLs
<1>6. Get(rec, "contents", FALSE) \in BOOLEAN
  BY <1>1, Kinds DEF Get
<1> QED BY <1>1, <1>2, <1>3, <1>4, <1>5, <1>6 DEF Record, Statuses

\* A deadline that passes changes the lifetime only.
LEMMA AgedKeys ==
  ASSUME NEW rec
  PROVE  /\ DOMAIN Aged(rec) = DOMAIN rec
         /\ \A k \in DOMAIN rec : k # "ttl" => Aged(rec)[k] = rec[k]
         /\ Partial(rec) => Partial(Aged(rec))
<1>1. CASE Get(rec, "ttl", "none") = "running"
  <2>1. "ttl" \in DOMAIN rec
    BY <1>1 DEF Get
  <2>2. Aged(rec) = Put(rec, "ttl", "lapsed")
    BY <1>1 DEF Aged
  <2>3. "ttl" \in Keys /\ "lapsed" \in Kind["ttl"]
    BY Kinds DEF Keys, TTLs
  <2>4. /\ DOMAIN Put(rec, "ttl", "lapsed") = DOMAIN rec \cup {"ttl"}
        /\ \A k \in DOMAIN rec : k # "ttl" => Put(rec, "ttl", "lapsed")[k] = rec[k]
    BY DEF Put
  <2>5. Partial(rec) => Partial(Put(rec, "ttl", "lapsed"))
    BY <2>3, PutKinds
  <2> QED BY <2>1, <2>2, <2>4, <2>5
<1>2. CASE Get(rec, "ttl", "none") # "running"
  BY <1>2 DEF Aged
<1> QED BY <1>1, <1>2

\* A deadline that passes keeps the kinds.
LEMMA AgedKinds ==
  ASSUME NEW rec
  PROVE  /\ Full(rec) => Full(Aged(rec))
         /\ Stored(rec) => Stored(Aged(rec))
         /\ Known(rec) => Known(Aged(rec))
BY AgedKeys DEF Full, Stored, Known

\* Spaces as they are made.
LEMMA NewKinds ==
  /\ \A p \in Provider, ttl \in Lifetimes : Stored(NewSpace(p, ttl)) /\ Known(NewSpace(p, ttl))
  /\ \A p \in Provider, t \in Tenant : Stored(AutoSpace(p, t))
  /\ Known(Bare)
<1> USE Kinds DEF Stored, Known, Full, Partial, Keys
<1>1. ASSUME NEW p \in Provider, NEW ttl \in Lifetimes
      PROVE  Stored(NewSpace(p, ttl)) /\ Known(NewSpace(p, ttl))
  <2> DEFINE r == NewSpace(p, ttl)
  <2>1. /\ DOMAIN r = {"provider", "status", "ttl", "contents"}
        /\ r["provider"] = p /\ r["status"] = "running" /\ r["ttl"] = ttl /\ r["contents"] = FALSE
    BY DEF NewSpace
  <2>2. ttl \in TTLs /\ "running" \in Statuses
    BY LifetimesAssumption DEF TTLs, Statuses
  <2>3. \A k \in DOMAIN r : k \in Keys /\ r[k] \in Kind[k]
    BY <2>1, <2>2
  <2> HIDE DEF r
  <2> QED BY <2>1, <2>3 DEF r
<1>2. ASSUME NEW p \in Provider, NEW t \in Tenant PROVE Stored(AutoSpace(p, t))
  <2> DEFINE r == AutoSpace(p, t)
  <2>1. /\ DOMAIN r = {"provider", "tenant", "contents", "auto"}
        /\ r["provider"] = p /\ r["tenant"] = t /\ r["contents"] = FALSE /\ r["auto"] = TRUE
    BY DEF AutoSpace
  <2>2. \A k \in DOMAIN r : k \in Keys /\ r[k] \in Kind[k]
    BY <2>1
  <2> HIDE DEF r
  <2> QED BY <2>1, <2>2 DEF r
<1>3. Known(Bare)
  <2>1. /\ DOMAIN Bare = {"provider", "status"}
        /\ Bare["provider"] = DefaultProvider /\ Bare["status"] = "running"
    BY DEF Bare
  <2>2. "running" \in Statuses
    BY DEF Statuses
  <2> QED BY <2>1, <2>2, ProviderAssumption
<1> QED BY <1>1, <1>2, <1>3

-----------------------------------------------------------------------------
(* Types                                                                   *)

Pcs == {"idle", "creating", "upserting", "writing", "tagging", "switching", "merging", "syncing",
        "posting", "telling", "dropping", "pausing", "marking", "pushing"}

\* The maps hold spaces.
MapsHold ==
  /\ DOMAIN db \subseteq Space /\ \A sp \in DOMAIN db : Stored(db[sp])
  /\ DOMAIN engine \subseteq Space /\ \A sp \in DOMAIN engine : Known(engine[sp])

\* A request has what its next steps read: the space it will store, the engine's
\* answer, the status it will tell or set.
WellFormed(r) ==
  /\ DOMAIN r = {"pc", "sp", "tid", "held", "answer", "live"}
  /\ r.pc \in Pcs /\ r.tid \in Tenant
  /\ r.sp \in Space \cup {NoSpace} /\ (r.sp = NoSpace <=> r.pc = "idle")
  /\ r.pc \in {"creating", "upserting", "writing"} =>
       Stored(r.held) /\ "status" \in DOMAIN r.held /\ r.held["status"] = "running"
  /\ r.pc \in {"switching", "merging", "pushing"} => Stored(r.held)
  /\ r.pc = "merging" => Known(r.answer)
  /\ r.pc \in {"telling", "pausing", "marking"} =>
       "status" \in DOMAIN r.answer /\ r.answer["status"] \in Statuses
RequestsHold == DOMAIN th = Thread /\ \A x \in Thread : WellFormed(th[x])

TenantsHold ==
  /\ active \in DOMAIN db \cup {NoSpace}
  /\ tenants \subseteq Tenant /\ {DefaultTenant, activeTenant} \subseteq tenants

TypesHold == MapsHold /\ RequestsHold /\ TenantsHold

\* The inductive invariant implies the type invariant.
LEMMA TypesAreTypeOK == TypesHold => TypeOK
<1> SUFFICES ASSUME TypesHold PROVE TypeOK
  OBVIOUS
<1>1. \A sp \in DOMAIN db : Record(db[sp]) /\ "contents" \in DOMAIN db[sp]
  BY FullIsRecord DEF TypesHold, MapsHold, Stored
<1>2. \A sp \in DOMAIN engine : Record(engine[sp]) /\ "status" \in DOMAIN engine[sp]
  BY FullIsRecord DEF TypesHold, MapsHold, Known
<1> QED BY <1>1, <1>2 DEF TypesHold, MapsHold, RequestsHold, TenantsHold, WellFormed, TypeOK, Pcs

\* What a thread does nothing with is well formed.
LEMMA IdleForm ==
  /\ WellFormed(Idle) /\ Idle.sp = NoSpace /\ Idle.pc = "idle" /\ Idle.live = TRUE
  /\ DOMAIN Idle = {"pc", "sp", "tid", "held", "answer", "live"}
BY TenantAssumption DEF Idle, WellFormed, Pcs

\* A request just begun, which holds a space, a status to tell, or neither.
LEMMA BegunForm ==
  ASSUME NEW t \in Tenant, NEW sp \in Space, NEW pc
  PROVE  LET b == Begun(t, sp, pc) IN
         /\ DOMAIN b = {"pc", "sp", "tid", "held", "answer", "live"}
         /\ b.pc = pc /\ b.sp = sp /\ b.tid = t /\ b.live = TRUE
         /\ pc \in {"syncing", "dropping"} => WellFormed(b)
<1> DEFINE b == Begun(t, sp, pc)
<1>1. /\ DOMAIN b = {"pc", "sp", "tid", "held", "answer", "live"}
      /\ b.pc = pc /\ b.sp = sp /\ b.tid = t /\ b.live = TRUE
  BY DEF Begun, Idle
<1> HIDE DEF b
<1>2. sp # NoSpace
  BY NoSpaceAssumption
<1>3. pc \in {"syncing", "dropping"} => WellFormed(b)
  BY <1>1, <1>2 DEF WellFormed, Pcs
<1> QED BY <1>1, <1>3 DEF b

\* A request just begun that holds a space.
LEMMA HoldingForm ==
  ASSUME NEW t \in Tenant, NEW sp \in Space, NEW pc \in {"switching", "creating", "pushing"},
         NEW h, Stored(h),
         pc = "creating" => "status" \in DOMAIN h /\ h["status"] = "running"
  PROVE  LET r == [Begun(t, sp, pc) EXCEPT !.held = h] IN
         WellFormed(r) /\ r.pc = pc /\ r.sp = sp /\ r.held = h
<1> DEFINE b == Begun(t, sp, pc)
           r == [b EXCEPT !.held = h]
<1>1. /\ DOMAIN b = {"pc", "sp", "tid", "held", "answer", "live"}
      /\ b.pc = pc /\ b.sp = sp /\ b.tid = t /\ b.live = TRUE
  BY DEF Begun, Idle
<1> HIDE DEF b
<1>2. /\ DOMAIN r = {"pc", "sp", "tid", "held", "answer", "live"}
      /\ r.pc = pc /\ r.sp = sp /\ r.tid = t /\ r.held = h
  BY <1>1
<1> HIDE DEF r
<1>3. sp # NoSpace
  BY NoSpaceAssumption
<1>4. WellFormed(r)
  BY <1>2, <1>3 DEF WellFormed, Pcs
<1> QED BY <1>2, <1>4 DEF r, b

\* A request just begun that has a status to tell or to set.
LEMMA TellingForm ==
  ASSUME NEW t \in Tenant, NEW sp \in Space, NEW pc \in {"telling", "pausing"}, NEW status \in Statuses
  PROVE  LET r == [Begun(t, sp, pc) EXCEPT !.answer = [status |-> status]] IN
         /\ WellFormed(r) /\ r.pc = pc /\ r.sp = sp /\ r.answer["status"] = status /\ r.live = TRUE
<1> DEFINE b == Begun(t, sp, pc)
           a == [status |-> status]
           r == [b EXCEPT !.answer = a]
<1>1. /\ DOMAIN b = {"pc", "sp", "tid", "held", "answer", "live"}
      /\ b.pc = pc /\ b.sp = sp /\ b.tid = t /\ b.live = TRUE
  BY DEF Begun, Idle
<1>2. "status" \in DOMAIN a /\ a["status"] = status
  OBVIOUS
<1> HIDE DEF b, a
<1>3. /\ DOMAIN r = {"pc", "sp", "tid", "held", "answer", "live"}
      /\ r.pc = pc /\ r.sp = sp /\ r.tid = t /\ r.answer = a /\ r.live = TRUE
  BY <1>1
<1> HIDE DEF r
<1>4. sp # NoSpace
  BY NoSpaceAssumption
<1>5. WellFormed(r)
  BY <1>2, <1>3, <1>4 DEF WellFormed, Pcs
<1> QED BY <1>2, <1>3, <1>5 DEF r, b, a

\* A request goes on: everything else it has stays.
LEMMA MovedForm ==
  ASSUME NEW r, WellFormed(r), r.pc # "idle", NEW pc
  PROVE  LET n == [r EXCEPT !.pc = pc] IN
         /\ DOMAIN n = DOMAIN r /\ n.pc = pc /\ n.sp = r.sp /\ n.tid = r.tid /\ n.held = r.held
         /\ n.answer = r.answer /\ n.live = r.live
BY DEF WellFormed

\* An object gone stale: the request goes on with it.
LEMMA StaleForm ==
  ASSUME NEW f, NEW sp, DOMAIN f = Thread, NEW y \in Thread, WellFormed(f[y])
  PROVE  /\ DOMAIN Orphaned(f, sp) = Thread
         /\ WellFormed(Orphaned(f, sp)[y])
         /\ Orphaned(f, sp)[y].pc = f[y].pc /\ Orphaned(f, sp)[y].sp = f[y].sp
         /\ Orphaned(f, sp)[y].answer = f[y].answer /\ Orphaned(f, sp)[y].held = f[y].held
         /\ Orphaned(f, sp)[y].tid = f[y].tid
         /\ f[y].sp # sp \/ f[y].pc \notin {"pausing", "marking", "pushing"} => Orphaned(f, sp)[y] = f[y]
<1> DEFINE o == Orphaned(f, sp)
<1>1. DOMAIN o = Thread /\ o[y] = IF f[y].sp = sp /\ f[y].pc \in {"pausing", "marking", "pushing"}
                    THEN [f[y] EXCEPT !.live = FALSE] ELSE f[y]
  BY DEF Orphaned
<1> HIDE DEF o
<1>2. CASE f[y].sp = sp /\ f[y].pc \in {"pausing", "marking", "pushing"}
  <2>1. o[y] = [f[y] EXCEPT !.live = FALSE]
    BY <1>1, <1>2
  <2>2. /\ DOMAIN o[y] = DOMAIN f[y] /\ o[y].pc = f[y].pc /\ o[y].sp = f[y].sp
        /\ o[y].answer = f[y].answer /\ o[y].held = f[y].held /\ o[y].tid = f[y].tid
    BY <2>1 DEF WellFormed
  <2>3. WellFormed(o[y])
    BY <2>2 DEF WellFormed
  <2> QED BY <1>1, <1>2, <2>2, <2>3 DEF o
<1>3. CASE ~(f[y].sp = sp /\ f[y].pc \in {"pausing", "marking", "pushing"})
  <2>1. o[y] = f[y]
    BY <1>1, <1>3
  <2> QED BY <1>1, <2>1 DEF o
<1> QED BY <1>2, <1>3

\* A space stored in the database.
LEMMA DbPut ==
  ASSUME MapsHold, NEW sp \in Space, NEW rec, Stored(rec), db' = Put(db, sp, rec)
  PROVE  /\ DOMAIN db' = DOMAIN db \cup {sp} /\ DOMAIN db' \subseteq Space
         /\ db'[sp] = rec
         /\ \A o \in DOMAIN db : o # sp => db'[o] = db[o]
         /\ \A o \in DOMAIN db' : Stored(db'[o])
<1>1. /\ DOMAIN db' = DOMAIN db \cup {sp} /\ db'[sp] = rec
      /\ \A o \in DOMAIN db : o # sp => db'[o] = db[o]
  BY DEF Put
<1>2. ASSUME NEW o \in DOMAIN db' PROVE Stored(db'[o])
  <2>1. CASE o = sp
    <3>1. db'[o] = rec
      BY <1>1, <2>1
    <3> QED BY <3>1
  <2>2. CASE o # sp
    <3>1. db'[o] = db[o] /\ o \in DOMAIN db
      BY <1>1, <2>2
    <3>2. Stored(db[o])
      BY <3>1 DEF MapsHold
    <3> QED BY <3>1, <3>2
  <2> QED BY <2>1, <2>2
<1> QED BY <1>1, <1>2 DEF MapsHold

\* A space of the database changed in place.
LEMMA DbExcept ==
  ASSUME MapsHold, NEW sp, NEW rec, sp \in DOMAIN db => Stored(rec), db' = [db EXCEPT ![sp] = rec]
  PROVE  /\ DOMAIN db' = DOMAIN db /\ DOMAIN db' \subseteq Space
         /\ sp \in DOMAIN db => db'[sp] = rec
         /\ \A o \in DOMAIN db : o # sp => db'[o] = db[o]
         /\ \A o \in DOMAIN db' : Stored(db'[o])
<1>1. /\ DOMAIN db' = DOMAIN db
      /\ sp \in DOMAIN db => db'[sp] = rec
      /\ \A o \in DOMAIN db : o # sp => db'[o] = db[o]
  OBVIOUS
<1>2. ASSUME NEW o \in DOMAIN db' PROVE Stored(db'[o])
  <2>1. CASE o = sp
    <3>1. db'[o] = rec /\ sp \in DOMAIN db
      BY <1>1, <2>1
    <3> QED BY <3>1
  <2>2. CASE o # sp
    <3>1. db'[o] = db[o] /\ o \in DOMAIN db
      BY <1>1, <2>2
    <3>2. Stored(db[o])
      BY <3>1 DEF MapsHold
    <3> QED BY <3>1, <3>2
  <2> QED BY <2>1, <2>2
<1> QED BY <1>1, <1>2 DEF MapsHold

\* An upsert: the payload's status, or the one the engine had, or a new space's.
LEMMA Upserted ==
  ASSUME MapsHold, NEW sp \in Space, NEW payload, Partial(payload), UpsertSpace(sp, payload)
  PROVE  /\ DOMAIN engine' = DOMAIN engine \cup {sp} /\ DOMAIN engine' \subseteq Space
         /\ engine'[sp]["status"] = IF "status" \in DOMAIN payload THEN payload["status"]
                                    ELSE IF sp \in DOMAIN engine THEN engine[sp]["status"]
                                    ELSE "running"
         /\ \A o \in DOMAIN engine : o # sp => engine'[o] = engine[o]
         /\ \A o \in DOMAIN engine' : Known(engine'[o])
<1> DEFINE below == IF sp \in DOMAIN engine THEN engine[sp] ELSE Bare
           rec == Overlay(payload, below)
<1>1. engine' = Put(engine, sp, rec)
  BY DEF UpsertSpace, Has
<1>2. Known(below)
  BY NewKinds DEF MapsHold
<1>3. below["status"] = IF sp \in DOMAIN engine THEN engine[sp]["status"] ELSE "running"
  BY DEF Bare
<1> HIDE DEF below
<1>4. Known(rec)
  BY <1>2, OverlayKinds
<1>5. rec["status"] = IF "status" \in DOMAIN payload THEN payload["status"] ELSE below["status"]
  <2>1. "status" \in DOMAIN below
    BY <1>2 DEF Known
  <2> QED BY <2>1 DEF Overlay
<1> HIDE DEF rec
<1>6. /\ DOMAIN engine' = DOMAIN engine \cup {sp} /\ engine'[sp] = rec
      /\ \A o \in DOMAIN engine : o # sp => engine'[o] = engine[o]
  BY <1>1 DEF Put
<1>7. ASSUME NEW o \in DOMAIN engine' PROVE Known(engine'[o])
  <2>1. CASE o = sp
    <3>1. engine'[o] = rec
      BY <1>6, <2>1
    <3> QED BY <1>4, <3>1
  <2>2. CASE o # sp
    <3>1. engine'[o] = engine[o] /\ o \in DOMAIN engine
      BY <1>6, <2>2
    <3>2. Known(engine[o])
      BY <3>1 DEF MapsHold
    <3> QED BY <3>1, <3>2
  <2> QED BY <2>1, <2>2
<1> QED BY <1>3, <1>5, <1>6, <1>7 DEF MapsHold

\* The engine is told a status.
LEMMA StatusChanged ==
  ASSUME MapsHold, NEW sp, NEW status \in Statuses, ChangeStatus(sp, status)
  PROVE  /\ sp \in DOMAIN engine
         /\ DOMAIN engine' = DOMAIN engine
         /\ engine'[sp]["status"] = status
         /\ \A o \in DOMAIN engine : o # sp => engine'[o] = engine[o]
         /\ \A o \in DOMAIN engine' : Known(engine'[o])
<1> DEFINE rec == Put(engine[sp], "status", status)
<1>1. sp \in DOMAIN engine /\ engine' = [engine EXCEPT ![sp] = rec]
  BY DEF ChangeStatus, Has
<1>2. Known(engine[sp])
  BY <1>1 DEF MapsHold
<1>3. "status" \in Keys /\ status \in Kind["status"]
  BY Kinds DEF Keys
<1>4. Known(rec)
  BY <1>2, <1>3, PutKinds
<1>5. rec["status"] = status
  BY DEF Put
<1> HIDE DEF rec
<1>6. /\ DOMAIN engine' = DOMAIN engine /\ engine'[sp] = rec
      /\ \A o \in DOMAIN engine : o # sp => engine'[o] = engine[o]
  BY <1>1
<1>7. ASSUME NEW o \in DOMAIN engine' PROVE Known(engine'[o])
  <2>1. CASE o = sp
    <3>1. engine'[o] = rec
      BY <1>6, <2>1
    <3> QED BY <1>4, <3>1
  <2>2. CASE o # sp
    <3>1. engine'[o] = engine[o] /\ o \in DOMAIN engine
      BY <1>6, <2>2
    <3>2. Known(engine[o])
      BY <3>1 DEF MapsHold
    <3> QED BY <3>1, <3>2
  <2> QED BY <2>1, <2>2
<1> QED BY <1>1, <1>5, <1>6, <1>7

\* The engine is told of a deletion.
LEMMA SpaceDeleted ==
  ASSUME MapsHold, NEW sp, DeleteSpace(sp)
  PROVE  /\ DOMAIN engine' = DOMAIN engine \ {sp}
         /\ \A o \in DOMAIN engine : o # sp => engine'[o] = engine[o]
         /\ \A o \in DOMAIN engine' : Known(engine'[o])
BY DEF DeleteSpace, MapsHold

\* The merge keeps the contents and takes the engine's status, if it has one.
LEMMA Merged ==
  ASSUME NEW local, NEW remote, Stored(local), Known(remote)
  PROVE  /\ Stored(Merge(local, remote))
         /\ Status(Merge(local, remote)) = remote["status"]
         /\ Merge(local, remote)["contents"] = local["contents"]
<1> DEFINE o == Overlay(remote, local)
<1>1. Stored(o) /\ "status" \in DOMAIN o /\ o["status"] = remote["status"]
  <2>1. Stored(o)
    BY OverlayKinds DEF Known, Full
  <2>2. "status" \in DOMAIN o /\ o["status"] = remote["status"]
    BY OverlayKeys DEF Known
  <2> QED BY <2>1, <2>2
<1>2. Merge(local, remote) = Put(o, "contents", local["contents"])
  BY DEF Merge
<1> HIDE DEF o
<1>3. local["contents"] \in Kind["contents"] /\ "contents" \in Keys
  BY DEF Stored, Full, Partial
<1>4. Stored(Put(o, "contents", local["contents"]))
  BY <1>1, <1>3, PutKinds
<1>5. Status(Put(o, "contents", local["contents"])) = remote["status"]
  BY <1>1 DEF Status, Get, Put
<1>6. Put(o, "contents", local["contents"])["contents"] = local["contents"]
  BY DEF Put
<1> QED BY <1>2, <1>4, <1>5, <1>6

\* A thread's request goes on to r, or ends; others' objects may go stale.
LEMMA RequestMoves ==
  ASSUME RequestsHold, NEW x \in Thread, NEW r, WellFormed(r), NEW f,
         f = th \/ \E sp : f = Orphaned(th, sp), th' = [f EXCEPT ![x] = r]
  PROVE  /\ RequestsHold' /\ th'[x] = r
         /\ \A y \in Thread : y # x => th'[y] = f[y]
<1>1. DOMAIN f = Thread /\ \A y \in Thread : WellFormed(f[y])
  BY StaleForm DEF RequestsHold
<1>2. DOMAIN th' = Thread /\ th'[x] = r /\ \A y \in Thread : y # x => th'[y] = f[y]
  BY <1>1
<1>3. ASSUME NEW y \in Thread PROVE WellFormed(th'[y])
  <2>1. CASE y = x
    <3>1. th'[y] = r
      BY <1>2, <2>1
    <3> QED BY <3>1
  <2>2. CASE y # x
    <3>1. th'[y] = f[y]
      BY <1>2, <2>2
    <3> QED BY <1>1, <3>1
  <2> QED BY <2>1, <2>2
<1> QED BY <1>2, <1>3 DEF RequestsHold

\* The calls a request makes one after the other.
LEMMA NextCall ==
  ASSUME NEW r, WellFormed(r), NEW pc,
         \/ r.pc = "creating" /\ pc = "upserting"
         \/ r.pc = "upserting" /\ pc \in {"writing", "tagging"}
         \/ r.pc = "writing" /\ pc = "tagging"
         \/ r.pc = "merging" /\ pc = "syncing"
         \/ r.pc = "syncing" /\ pc = "posting"
         \/ r.pc = "pausing" /\ pc = "marking"
  PROVE  LET n == [r EXCEPT !.pc = pc] IN
         /\ WellFormed(n) /\ n.pc = pc /\ n.sp = r.sp /\ n.tid = r.tid /\ n.held = r.held
         /\ n.answer = r.answer /\ n.live = r.live
<1> DEFINE n == [r EXCEPT !.pc = pc]
<1>1. r.pc # "idle"
  OBVIOUS
<1>2. /\ DOMAIN n = DOMAIN r /\ n.pc = pc /\ n.sp = r.sp /\ n.tid = r.tid /\ n.held = r.held
      /\ n.answer = r.answer /\ n.live = r.live
  BY <1>1, MovedForm
<1> HIDE DEF n
<1>3. WellFormed(n)
  BY <1>2 DEF WellFormed, Pcs
<1> QED BY <1>2, <1>3 DEF n

\* The active space stays one of the database's.
LEMMA TenantsStay ==
  ASSUME TenantsHold, UNCHANGED <<tenants, activeTenant>>, DOMAIN db \subseteq DOMAIN db',
         active' = active \/ active' \in DOMAIN db'
  PROVE  TenantsHold'
BY DEF TenantsHold

\* An engine call the request does not wait for the answer of, or that failed.
LEMMA EngineTold ==
  ASSUME MapsHold, UNCHANGED db,
         \/ UNCHANGED engine
         \/ /\ DOMAIN engine' \subseteq Space
            /\ \A o \in DOMAIN engine' : Known(engine'[o])
  PROVE  MapsHold'
BY DEF MapsHold

\* A request's own steps keep the types.
LEMMA StepTypes ==
  ASSUME TypesHold, NEW x \in Thread, Step(x)
  PROVE  TypesHold'
<1> DEFINE sp == th[x].sp
<1>0. MapsHold /\ RequestsHold /\ TenantsHold /\ WellFormed(th[x]) /\ WellFormed(Idle)
  BY IdleForm DEF TypesHold, RequestsHold
<1>a. ASSUME Finish(x) PROVE RequestsHold'
  BY <1>0, <1>a, RequestMoves DEF Finish
<1>b. th[x].pc # "idle" => sp \in Space
  BY <1>0 DEF WellFormed
<1>c. ASSUME UNCHANGED <<db, active, tenants, activeTenant>> PROVE TenantsHold'
  BY <1>0, <1>c DEF TenantsHold
<1>1. CASE CreateRefused(x)
  <2>1. MapsHold'
    BY <1>0, <1>1 DEF CreateRefused, MapsHold, state
  <2> QED BY <1>1, <1>a, <1>c, <2>1 DEF CreateRefused, state, TypesHold
<1>2. CASE CreateKernel(x)
  <2> DEFINE o == Orphaned(th, sp)
             r == [th[x] EXCEPT !.pc = "upserting"]
  <2>1. th[x].pc = "creating" /\ Stored(th[x].held) /\ db' = Put(db, sp, th[x].held)
    BY <1>0, <1>2 DEF CreateKernel, At, WellFormed
  <2>2. /\ DOMAIN db' = DOMAIN db \cup {sp} /\ DOMAIN db' \subseteq Space
        /\ \A p \in DOMAIN db' : Stored(db'[p])
    BY <1>0, <1>b, <2>1, DbPut
  <2>3. MapsHold'
    BY <1>0, <1>2, <2>2 DEF CreateKernel, MapsHold
  <2>4. o[x] = th[x]
    BY <1>0, <2>1, StaleForm DEF RequestsHold
  <2>5. th' = [o EXCEPT ![x].pc = "upserting"]
    BY <1>2 DEF CreateKernel
  <2>6. th' = [o EXCEPT ![x] = r]
    BY <2>4, <2>5
  <2>7. WellFormed(r)
    BY <1>0, <2>1, NextCall
  <2> HIDE DEF r
  <2>8. RequestsHold'
    BY <1>0, <2>6, <2>7, RequestMoves
  <2>9. active' = active \/ active' \in DOMAIN db'
    BY <1>2, <2>2 DEF CreateKernel
  <2>10. TenantsHold'
    BY <1>0, <1>2, <2>2, <2>9, TenantsStay DEF CreateKernel
  <2> QED BY <2>3, <2>8, <2>10 DEF TypesHold
<1>3. CASE CreateUpsert(x)
  <2>1. th[x].pc = "upserting" /\ Stored(th[x].held) /\ UNCHANGED <<db, active, tenants, activeTenant>>
    BY <1>0, <1>3 DEF CreateUpsert, At, WellFormed, state
  <2>2. UNCHANGED engine \/ UpsertSpace(sp, th[x].held)
    BY <1>3 DEF CreateUpsert, Fails
  <2>3. MapsHold'
    <3>1. CASE UNCHANGED engine
      BY <1>0, <2>1, <3>1, EngineTold
    <3>2. CASE UpsertSpace(sp, th[x].held)
      <4>1. DOMAIN engine' \subseteq Space /\ \A o \in DOMAIN engine' : Known(engine'[o])
        BY <1>0, <1>b, <2>1, <3>2, Upserted DEF Stored, Full
      <4> QED BY <1>0, <2>1, <4>1, EngineTold
    <3> QED BY <2>2, <3>1, <3>2
  <2>4. PICK pc \in {"writing", "tagging"} : th' = [th EXCEPT ![x].pc = pc]
    BY <1>3 DEF CreateUpsert, Goto
  <2> DEFINE r == [th[x] EXCEPT !.pc = pc]
  <2>5. th' = [th EXCEPT ![x] = r]
    BY <2>4
  <2>6. WellFormed(r)
    BY <1>0, <2>1, NextCall
  <2> HIDE DEF r
  <2>7. RequestsHold'
    BY <1>0, <2>5, <2>6, RequestMoves
  <2> QED BY <1>c, <2>1, <2>3, <2>7 DEF TypesHold
<1>4. CASE CreateWriteBack(x)
  <2> DEFINE o == Orphaned(th, sp)
             r == [th[x] EXCEPT !.pc = "tagging"]
  <2>1. th[x].pc = "writing" /\ Stored(th[x].held) /\ db' = Put(db, sp, th[x].held)
    BY <1>0, <1>4 DEF CreateWriteBack, At, WellFormed
  <2>2. /\ DOMAIN db' = DOMAIN db \cup {sp} /\ DOMAIN db' \subseteq Space
        /\ \A p \in DOMAIN db' : Stored(db'[p])
    BY <1>0, <1>b, <2>1, DbPut
  <2>3. MapsHold'
    BY <1>0, <1>4, <2>2 DEF CreateWriteBack, MapsHold
  <2>4. o[x] = th[x]
    BY <1>0, <2>1, StaleForm DEF RequestsHold
  <2>5. th' = [o EXCEPT ![x].pc = "tagging"]
    BY <1>4 DEF CreateWriteBack
  <2>6. th' = [o EXCEPT ![x] = r]
    BY <2>4, <2>5
  <2>7. WellFormed(r)
    BY <1>0, <2>1, NextCall
  <2> HIDE DEF r
  <2>8. RequestsHold'
    BY <1>0, <2>6, <2>7, RequestMoves
  <2>9. TenantsHold'
    BY <1>0, <1>4, <2>2, TenantsStay DEF CreateWriteBack
  <2> QED BY <2>3, <2>8, <2>9 DEF TypesHold
<1>5. CASE CreateTag(x)
  <2>1. \/ db' = db
        \/ sp \in DOMAIN db /\ db' = [db EXCEPT ![sp] = Put(db[sp], "tenant", th[x].tid)]
    BY <1>5 DEF CreateTag
  <2>2. "tenant" \in Keys /\ th[x].tid \in Kind["tenant"]
    BY <1>0, Kinds DEF Keys, WellFormed
  <2>3. DOMAIN db' = DOMAIN db /\ DOMAIN db' \subseteq Space /\ \A p \in DOMAIN db' : Stored(db'[p])
    <3>1. CASE db' = db
      BY <1>0, <3>1 DEF MapsHold
    <3>2. CASE sp \in DOMAIN db /\ db' = [db EXCEPT ![sp] = Put(db[sp], "tenant", th[x].tid)]
      <4>1. Stored(Put(db[sp], "tenant", th[x].tid))
        BY <1>0, <2>2, <3>2, PutKinds DEF MapsHold
      <4> QED BY <1>0, <3>2, <4>1, DbExcept
    <3> QED BY <2>1, <3>1, <3>2
  <2>4. MapsHold'
    BY <1>0, <1>5, <2>3 DEF CreateTag, MapsHold
  <2>5. TenantsHold'
    BY <1>0, <1>5, <2>3, TenantsStay DEF CreateTag
  <2> QED BY <1>5, <1>a, <2>4, <2>5 DEF CreateTag, TypesHold
<1>6. CASE SwitchEngine(x)
  <2>1. th[x].pc = "switching" /\ UNCHANGED <<engine, db, active, tenants, activeTenant>>
    BY <1>6 DEF SwitchEngine, SwitchSpace, Fails, At, state
  <2>2. MapsHold'
    BY <1>0, <2>1, EngineTold
  <2>3. CASE Finish(x)
    BY <1>a, <1>c, <2>1, <2>2, <2>3 DEF TypesHold
  <2>4. CASE ~Finish(x)
    <3>1. sp \in DOMAIN engine /\ th' = [th EXCEPT ![x].pc = "merging", ![x].answer = engine[sp]]
      BY <1>6, <2>4 DEF SwitchEngine, SwitchSpace, Has
    <3> DEFINE r == [th[x] EXCEPT !.pc = "merging", !.answer = engine[sp]]
    <3>2. th' = [th EXCEPT ![x] = r]
      BY <1>0, <3>1 DEF RequestsHold
    <3>3. /\ DOMAIN r = DOMAIN th[x] /\ r.pc = "merging" /\ r.sp = sp /\ r.tid = th[x].tid
          /\ r.held = th[x].held /\ r.answer = engine[sp]
      BY <1>0 DEF WellFormed
    <3> HIDE DEF r
    <3>4. Known(engine[sp])
      BY <1>0, <3>1 DEF MapsHold
    <3>5. WellFormed(r)
      BY <1>0, <2>1, <3>3, <3>4 DEF WellFormed, Pcs
    <3>6. RequestsHold'
      BY <1>0, <3>2, <3>5, RequestMoves
    <3> QED BY <1>c, <2>1, <2>2, <3>6 DEF TypesHold
  <2> QED BY <2>3, <2>4
<1>7. CASE SwitchMerge(x)
  <2> DEFINE o == Orphaned(th, sp)
             r == [th[x] EXCEPT !.pc = "syncing"]
             local == IF sp \in DOMAIN db THEN db[sp] ELSE th[x].held
             rec == Merge(local, th[x].answer)
  <2>1. th[x].pc = "merging" /\ Stored(th[x].held) /\ Known(th[x].answer) /\ db' = Put(db, sp, rec)
    BY <1>0, <1>7 DEF SwitchMerge, At, WellFormed
  <2>2. Stored(local)
    BY <1>0, <2>1 DEF MapsHold
  <2> HIDE DEF local
  <2>3. Stored(rec)
    BY <2>1, <2>2, Merged
  <2> HIDE DEF rec
  <2>4. /\ DOMAIN db' = DOMAIN db \cup {sp} /\ DOMAIN db' \subseteq Space
        /\ \A p \in DOMAIN db' : Stored(db'[p])
    BY <1>0, <1>b, <2>1, <2>3, DbPut
  <2>5. MapsHold'
    BY <1>0, <1>7, <2>4 DEF SwitchMerge, MapsHold
  <2>6. o[x] = th[x]
    BY <1>0, <2>1, StaleForm DEF RequestsHold
  <2>7. th' = [o EXCEPT ![x].pc = "syncing"]
    BY <1>7 DEF SwitchMerge
  <2>8. th' = [o EXCEPT ![x] = r]
    BY <2>6, <2>7
  <2>9. WellFormed(r)
    BY <1>0, <2>1, NextCall
  <2> HIDE DEF r
  <2>10. RequestsHold'
    BY <1>0, <2>8, <2>9, RequestMoves
  <2>11. TenantsHold'
    BY <1>0, <1>7, <2>4, TenantsStay DEF SwitchMerge
  <2> QED BY <2>5, <2>10, <2>11 DEF TypesHold
<1>8. CASE SyncLook(x)
  <2>1. th[x].pc = "syncing" /\ UNCHANGED <<engine, db, active, tenants, activeTenant>>
    BY <1>8 DEF SyncLook, At, state
  <2>2. MapsHold'
    BY <1>0, <2>1, EngineTold
  <2>3. CASE Finish(x)
    BY <1>a, <1>c, <2>1, <2>2, <2>3 DEF TypesHold
  <2>4. CASE ~Finish(x)
    <3> DEFINE r == [th[x] EXCEPT !.pc = "posting"]
    <3>1. th' = [th EXCEPT ![x] = r]
      BY <1>8, <2>4 DEF SyncLook, Goto
    <3>2. WellFormed(r)
      BY <1>0, <2>1, NextCall
    <3> HIDE DEF r
    <3>3. RequestsHold'
      BY <1>0, <3>1, <3>2, RequestMoves
    <3> QED BY <1>c, <2>1, <2>2, <3>3 DEF TypesHold
  <2> QED BY <2>3, <2>4
<1>9. CASE SyncPost(x)
  <2>1. th[x].pc = "posting" /\ UNCHANGED <<db, active, tenants, activeTenant>> /\ Finish(x)
    BY <1>9 DEF SyncPost, At, state
  <2>2. UNCHANGED engine \/ UpsertSpace(sp, <<>>)
    BY <1>9 DEF SyncPost, Told, Fails
  <2>3. CASE UNCHANGED engine
    BY <1>0, <1>a, <1>c, <2>1, <2>3, EngineTold DEF TypesHold
  <2>4. CASE UpsertSpace(sp, <<>>)
    <3>1. Partial(<<>>)
      BY DEF Partial
    <3>2. DOMAIN engine' \subseteq Space /\ \A o \in DOMAIN engine' : Known(engine'[o])
      BY <1>0, <1>b, <2>1, <2>4, <3>1, Upserted
    <3> QED BY <1>0, <1>a, <1>c, <2>1, <3>2, EngineTold DEF TypesHold
  <2> QED BY <2>2, <2>3, <2>4
<1>10. CASE Tell(x)
  <2>1. th[x].pc = "telling" /\ UNCHANGED <<db, active, tenants, activeTenant>> /\ Finish(x)
    BY <1>10 DEF Tell, At, state
  <2>2. UNCHANGED engine \/ ChangeStatus(sp, th[x].answer["status"])
    BY <1>10 DEF Tell, Told, Fails
  <2>3. CASE UNCHANGED engine
    BY <1>0, <1>a, <1>c, <2>1, <2>3, EngineTold DEF TypesHold
  <2>4. CASE ChangeStatus(sp, th[x].answer["status"])
    <3>1. th[x].answer["status"] \in Statuses
      BY <1>0, <2>1 DEF WellFormed
    <3>2. DOMAIN engine' = DOMAIN engine /\ \A o \in DOMAIN engine' : Known(engine'[o])
      BY <1>0, <2>4, <3>1, StatusChanged
    <3> QED BY <1>0, <1>a, <1>c, <2>1, <3>2, EngineTold DEF TypesHold, MapsHold
  <2> QED BY <2>2, <2>3, <2>4
<1>11. CASE DeleteEngine(x)
  <2>1. UNCHANGED <<db, active, tenants, activeTenant>> /\ Finish(x)
    BY <1>11 DEF DeleteEngine, state
  <2>2. UNCHANGED engine \/ DeleteSpace(sp)
    BY <1>11 DEF DeleteEngine, Told, Fails
  <2>3. CASE UNCHANGED engine
    BY <1>0, <1>a, <1>c, <2>1, <2>3, EngineTold DEF TypesHold
  <2>4. CASE DeleteSpace(sp)
    <3>1. DOMAIN engine' = DOMAIN engine \ {sp} /\ \A o \in DOMAIN engine' : Known(engine'[o])
      BY <1>0, <2>4, SpaceDeleted
    <3> QED BY <1>0, <1>a, <1>c, <2>1, <3>1, EngineTold DEF TypesHold, MapsHold
  <2> QED BY <2>2, <2>3, <2>4
<1>12. CASE StopEngine(x)
  <2>1. th[x].pc = "pausing" /\ UNCHANGED <<db, active, tenants, activeTenant>>
    BY <1>12 DEF StopEngine, At, state
  <2>2. UNCHANGED engine \/ ChangeStatus(sp, "paused")
    BY <1>12 DEF StopEngine, Told, Fails
  <2>3. MapsHold'
    <3>1. CASE UNCHANGED engine
      BY <1>0, <2>1, <3>1, EngineTold
    <3>2. CASE ChangeStatus(sp, "paused")
      <4>1. "paused" \in Statuses
        BY DEF Statuses
      <4>2. DOMAIN engine' = DOMAIN engine /\ \A o \in DOMAIN engine' : Known(engine'[o])
        BY <1>0, <3>2, <4>1, StatusChanged
      <4> QED BY <1>0, <2>1, <4>2, EngineTold DEF MapsHold
    <3> QED BY <2>2, <3>1, <3>2
  <2> DEFINE r == [th[x] EXCEPT !.pc = "marking"]
  <2>4. th' = [th EXCEPT ![x] = r]
    BY <1>12 DEF StopEngine, Goto
  <2>5. WellFormed(r)
    BY <1>0, <2>1, NextCall
  <2> HIDE DEF r
  <2>6. RequestsHold'
    BY <1>0, <2>4, <2>5, RequestMoves
  <2> QED BY <1>c, <2>1, <2>3, <2>6 DEF TypesHold
<1>13. CASE StopMark(x)
  <2>1. th[x].pc = "marking" /\ th[x].answer["status"] \in Kind["status"] /\ "status" \in Keys
    BY <1>0, <1>13, Kinds DEF StopMark, At, WellFormed, Keys
  <2>2. \/ db' = db
        \/ db' = [db EXCEPT ![sp] = Put(db[sp], "status", th[x].answer["status"])]
    BY <1>13 DEF StopMark
  <2>3. DOMAIN db' = DOMAIN db /\ DOMAIN db' \subseteq Space /\ \A p \in DOMAIN db' : Stored(db'[p])
    <3>1. CASE db' = db
      BY <1>0, <3>1 DEF MapsHold
    <3>2. CASE db' = [db EXCEPT ![sp] = Put(db[sp], "status", th[x].answer["status"])]
      <4>1. sp \in DOMAIN db => Stored(Put(db[sp], "status", th[x].answer["status"]))
        BY <1>0, <2>1, PutKinds DEF MapsHold
      <4> QED BY <1>0, <3>2, <4>1, DbExcept
    <3> QED BY <2>2, <3>1, <3>2
  <2>4. MapsHold'
    BY <1>0, <1>13, <2>3 DEF StopMark, MapsHold
  <2>5. TenantsHold'
    BY <1>0, <1>13, <2>3, TenantsStay DEF StopMark
  <2> QED BY <1>13, <1>a, <2>4, <2>5 DEF StopMark, TypesHold
<1>14. CASE Push(x)
  <2> DEFINE rec == Pushed(x)
  <2>1. /\ th[x].pc = "pushing" /\ UNCHANGED <<db, active, tenants, activeTenant>> /\ Finish(x)
        /\ UNCHANGED engine \/ UpsertSpace(sp, rec)
    BY <1>14 DEF Push, At, Told, Fails, state
  <2>2. Stored(rec)
    BY <1>0, <2>1 DEF Pushed, WellFormed, MapsHold
  <2> HIDE DEF rec
  <2>3. CASE UNCHANGED engine
    BY <1>0, <1>a, <1>c, <2>1, <2>3, EngineTold DEF TypesHold
  <2>4. CASE UpsertSpace(sp, rec)
    <3>1. DOMAIN engine' \subseteq Space /\ \A o \in DOMAIN engine' : Known(engine'[o])
      BY <1>0, <1>b, <2>1, <2>2, <2>4, Upserted DEF Stored, Full
    <3> QED BY <1>0, <1>a, <1>c, <2>1, <3>1, EngineTold DEF TypesHold
  <2> QED BY <2>1, <2>3, <2>4
<1> QED
  BY <1>1, <1>2, <1>3, <1>4, <1>5, <1>6, <1>7, <1>8, <1>9, <1>10, <1>11, <1>12, <1>13, <1>14
  DEF Step

\* A request that arrives keeps the types.
LEMMA ArriveTypes ==
  ASSUME TypesHold, NEW x \in Thread, NEW t \in Tenant, NEW sp \in Space, Arrive(x, t, sp)
  PROVE  TypesHold'
<1>0. MapsHold /\ RequestsHold /\ TenantsHold
  BY DEF TypesHold
<1>a. ASSUME NEW r, WellFormed(r), th' = [th EXCEPT ![x] = r] PROVE RequestsHold'
  BY <1>0, <1>a, RequestMoves
<1> DEFINE b(pc) == Begun(t, sp, pc)
<1>1. ASSUME NEW p \in Provider, NEW ttl \in Lifetimes, CreateCheck(x, t, sp, p, ttl)
      PROVE  TypesHold'
  <2> DEFINE r == [b("creating") EXCEPT !.held = NewSpace(p, ttl)]
  <2>1. UNCHANGED <<engine, db, active, tenants, activeTenant>> /\ th' = [th EXCEPT ![x] = r]
    BY <1>1 DEF CreateCheck, Start, state
  <2>2. NewSpace(p, ttl)["status"] = "running"
    BY DEF NewSpace
  <2>3. Stored(NewSpace(p, ttl)) /\ "status" \in DOMAIN NewSpace(p, ttl)
    BY NewKinds DEF Known
  <2>4. WellFormed(r)
    BY <2>2, <2>3, HoldingForm
  <2> HIDE DEF r
  <2>5. RequestsHold'
    BY <1>a, <2>1, <2>4
  <2> QED BY <1>0, <2>1, <2>5 DEF TypesHold, MapsHold, TenantsHold
<1>2. CASE SwitchKernel(x, t, sp)
  <2> DEFINE r == [b("switching") EXCEPT !.held = db[sp]]
  <2>1. /\ UNCHANGED <<engine, db, tenants, activeTenant>> /\ th' = [th EXCEPT ![x] = r]
        /\ sp \in DOMAIN db /\ active' = sp
    BY <1>2 DEF SwitchKernel, Request, Start, Owned
  <2>2. Stored(db[sp])
    BY <1>0, <2>1 DEF MapsHold
  <2>3. WellFormed(r)
    BY <2>2, HoldingForm
  <2> HIDE DEF r
  <2>4. RequestsHold'
    BY <1>a, <2>1, <2>3
  <2> QED BY <1>0, <2>1, <2>4 DEF TypesHold, MapsHold, TenantsHold
<1>3. ASSUME NEW status \in {"paused", "running", "archived"}, SetStatus(x, t, sp, status)
      PROVE  TypesHold'
  <2> DEFINE r == [b("telling") EXCEPT !.answer = [status |-> status]]
             rec == Put(db[sp], "status", status)
  <2>1. /\ UNCHANGED <<engine, active, tenants, activeTenant>> /\ th' = [th EXCEPT ![x] = r]
        /\ sp \in DOMAIN db /\ db' = [db EXCEPT ![sp] = rec]
    BY <1>3 DEF SetStatus, Request, Start, Owned
  <2>2. status \in Statuses
    BY DEF Statuses, Stopped
  <2>4. WellFormed(r)
    BY <2>2, TellingForm
  <2>5. Stored(rec)
    <3>1. "status" \in Keys /\ status \in Kind["status"] /\ Stored(db[sp])
      BY <1>0, <2>1, <2>2, Kinds DEF Keys, MapsHold
    <3> QED BY <3>1, PutKinds
  <2> HIDE DEF r, rec
  <2>6. RequestsHold'
    BY <1>a, <2>1, <2>4
  <2>7. DOMAIN db' = DOMAIN db /\ \A o \in DOMAIN db' : Stored(db'[o])
    BY <1>0, <2>1, <2>5, DbExcept
  <2> QED BY <1>0, <2>1, <2>6, <2>7 DEF TypesHold, MapsHold, TenantsHold
<1>4. ASSUME NEW ttl \in Lifetimes, Renew(x, t, sp, ttl)
      PROVE  TypesHold'
  <2> DEFINE r == [b("telling") EXCEPT !.answer = [status |-> "running"]]
             rec == Put(Put(db[sp], "ttl", ttl), "status", "running")
  <2>1. /\ UNCHANGED <<engine, active, tenants, activeTenant>> /\ th' = [th EXCEPT ![x] = r]
        /\ sp \in DOMAIN db /\ db' = [db EXCEPT ![sp] = rec]
    BY <1>4 DEF Renew, Request, Start, Owned
  <2>2. "running" \in Statuses /\ ttl \in TTLs
    BY LifetimesAssumption DEF Statuses, TTLs
  <2>4. WellFormed(r)
    BY <2>2, TellingForm
  <2>5. Stored(rec)
    <3>1. "status" \in Keys /\ "running" \in Kind["status"] /\ "ttl" \in Keys /\ ttl \in Kind["ttl"]
      BY <2>2, Kinds DEF Keys
    <3>2. Stored(db[sp])
      BY <1>0, <2>1 DEF MapsHold
    <3>3. Stored(Put(db[sp], "ttl", ttl))
      BY <3>1, <3>2, PutKinds
    <3> QED BY <3>1, <3>3, PutKinds
  <2> HIDE DEF r, rec
  <2>6. RequestsHold'
    BY <1>a, <2>1, <2>4
  <2>7. DOMAIN db' = DOMAIN db /\ \A o \in DOMAIN db' : Stored(db'[o])
    BY <1>0, <2>1, <2>5, DbExcept
  <2> QED BY <1>0, <2>1, <2>6, <2>7 DEF TypesHold, MapsHold, TenantsHold
<1>5. CASE Shutdown(x, t, sp)
  <2> DEFINE r == [b("pausing") EXCEPT !.answer = [status |-> "shutdown"]]
  <2>1. UNCHANGED <<engine, db, active, tenants, activeTenant>> /\ th' = [th EXCEPT ![x] = r]
    BY <1>5 DEF Shutdown, Request, Start, state
  <2>2. "shutdown" \in Statuses
    BY DEF Statuses, Stopped
  <2>3. WellFormed(r)
    BY <2>2, TellingForm
  <2> HIDE DEF r
  <2>4. RequestsHold'
    BY <1>a, <2>1, <2>3
  <2> QED BY <1>0, <2>1, <2>4 DEF TypesHold, MapsHold, TenantsHold
<1>6. CASE DeleteKernel(x, t, sp)
  <2> DEFINE r == b("dropping")
  <2>1. /\ UNCHANGED <<engine, tenants, activeTenant>> /\ th' = [th EXCEPT ![x] = r]
        /\ db' = [other \in DOMAIN db \ {sp} |-> db[other]]
        /\ active' \in DOMAIN db' \cup {NoSpace}
    <3>1. db' = [other \in DOMAIN db \ {sp} |-> db[other]] /\ DOMAIN db' = DOMAIN db \ {sp}
      BY <1>6 DEF DeleteKernel
    <3>2. active' \in DOMAIN db' \cup {NoSpace}
      BY <1>0, <1>6, <3>1 DEF DeleteKernel, TenantsHold
    <3> QED BY <1>6, <3>1, <3>2 DEF DeleteKernel, Request, Start
  <2>2. WellFormed(r)
    BY BegunForm
  <2> HIDE DEF r
  <2>3. RequestsHold'
    BY <1>a, <2>1, <2>2
  <2>4. DOMAIN db' = DOMAIN db \ {sp} /\ \A o \in DOMAIN db' : Stored(db'[o])
    BY <1>0, <2>1 DEF MapsHold
  <2> QED BY <1>0, <2>1, <2>3, <2>4 DEF TypesHold, MapsHold, TenantsHold
<1> QED BY <1>1, <1>2, <1>3, <1>4, <1>5, <1>6 DEF Arrive

\* The requests that are no tenant's, and those that never wait for the engine.
LEMMA LocalTypes ==
  ASSUME TypesHold,
         \/ \E x \in Thread : Reconcile(x) \/ \E sp \in Space : Rehydrate(x, sp)
         \/ List
         \/ \E x \in Thread, t \in Tenant, sp \in Space : ExpireIfDue(x, t, sp)
         \/ \E t \in Tenant, sp \in Space, ttl \in Lifetimes : Extend(t, sp, ttl)
         \/ \E t \in Tenant, p \in Provider : Write(t, p) \/ \E sp \in Space : WriteToNew(t, p, sp)
         \/ \E t \in Tenant : CreateTenant(t) \/ SwitchTenant(t) \/ DeleteTenant(t)
  PROVE  TypesHold'
<1>0. MapsHold /\ RequestsHold /\ TenantsHold
  BY DEF TypesHold
<1>a. ASSUME NEW sp, NEW rec, sp \in DOMAIN db => Stored(rec), db' = [db EXCEPT ![sp] = rec],
             UNCHANGED <<engine, active, tenants, activeTenant, th>>
      PROVE  TypesHold'
  <2>1. DOMAIN db' = DOMAIN db /\ \A o \in DOMAIN db' : Stored(db'[o])
    BY <1>0, <1>a, DbExcept
  <2> QED BY <1>0, <1>a, <2>1 DEF TypesHold, MapsHold, TenantsHold, RequestsHold
<1>1. ASSUME NEW x \in Thread, Reconcile(x) PROVE TypesHold'
  <2> DEFINE r == Begun(activeTenant, active, "syncing")
  <2>1. UNCHANGED <<engine, db, active, tenants, activeTenant>> /\ th' = [th EXCEPT ![x] = r]
    BY <1>1 DEF Reconcile, Start, state
  <2>2. active \in Space /\ activeTenant \in Tenant
    BY <1>0, <1>1 DEF Reconcile, TenantsHold, MapsHold
  <2>3. WellFormed(r)
    BY <2>2, BegunForm
  <2> HIDE DEF r
  <2>4. RequestsHold'
    BY <1>0, <2>1, <2>3, RequestMoves
  <2> QED BY <1>0, <2>1, <2>4 DEF TypesHold, MapsHold, TenantsHold
<1>2. CASE List
  <2>1. /\ DOMAIN db' = DOMAIN db /\ \A o \in DOMAIN db : db'[o] = Stamped(db[o])
        /\ UNCHANGED <<engine, active, tenants, activeTenant, th>>
    BY <1>2 DEF List
  <2>2. ASSUME NEW o \in DOMAIN db' PROVE Stored(db'[o])
    <3>1. "ttl" \in Keys /\ "running" \in Kind["ttl"] /\ Stored(db[o])
      BY <1>0, <2>1, Kinds DEF Keys, TTLs, MapsHold
    <3>2. Stored(Stamped(db[o]))
      BY <3>1, PutKinds DEF Stamped
    <3>3. db'[o] = Stamped(db[o])
      BY <2>1
    <3> QED BY <3>2, <3>3
  <2> QED BY <1>0, <2>1, <2>2 DEF TypesHold, MapsHold, TenantsHold, RequestsHold
<1>3. ASSUME NEW x \in Thread, NEW t \in Tenant, NEW sp \in Space, ExpireIfDue(x, t, sp)
      PROVE  TypesHold'
  <2> DEFINE r == [Begun(t, sp, "pausing") EXCEPT !.answer = [status |-> "expired"]]
  <2>1. UNCHANGED <<engine, db, active, tenants, activeTenant>> /\ th' = [th EXCEPT ![x] = r]
    BY <1>3 DEF ExpireIfDue, state
  <2>2. "expired" \in Statuses
    BY DEF Statuses, Stopped
  <2>3. WellFormed(r)
    BY <2>2, TellingForm
  <2> HIDE DEF r
  <2>4. RequestsHold'
    BY <1>0, <2>1, <2>3, RequestMoves
  <2> QED BY <1>0, <2>1, <2>4 DEF TypesHold, MapsHold, TenantsHold
<1>4. ASSUME NEW t \in Tenant, NEW sp \in Space, NEW ttl \in Lifetimes, Extend(t, sp, ttl)
      PROVE  TypesHold'
  <2> DEFINE rec == Put(db[sp], "ttl", ttl)
  <2>1. /\ db' = [db EXCEPT ![sp] = rec] /\ sp \in DOMAIN db
        /\ UNCHANGED <<engine, active, tenants, activeTenant, th>>
    BY <1>4 DEF Extend, Owned
  <2>2. "ttl" \in Keys /\ ttl \in Kind["ttl"] /\ Stored(db[sp])
    BY <1>0, <2>1, Kinds, LifetimesAssumption DEF Keys, TTLs, MapsHold
  <2>3. Stored(rec)
    BY <2>2, PutKinds
  <2> HIDE DEF rec
  <2> QED BY <1>a, <2>1, <2>3
<1>5. ASSUME NEW t \in Tenant, NEW p \in Provider, Write(t, p) PROVE TypesHold'
  <2>1. PICK sp \in Home(t, p) : db' = [db EXCEPT ![sp] = Store(db[sp])]
    BY <1>5 DEF Write
  <2>2. sp \in DOMAIN db
    BY DEF Home
  <2>3. "contents" \in Keys /\ TRUE \in Kind["contents"] /\ Stored(db[sp])
    BY <1>0, <2>2, Kinds DEF Keys, MapsHold
  <2>4. Stored(Store(db[sp]))
    BY <2>3, PutKinds DEF Store
  <2>5. UNCHANGED <<engine, active, tenants, activeTenant, th>>
    BY <1>5 DEF Write
  <2> QED BY <1>a, <2>1, <2>4, <2>5
<1>6. ASSUME NEW t \in Tenant, NEW p \in Provider, NEW sp \in Space, WriteToNew(t, p, sp)
      PROVE  TypesHold'
  <2> DEFINE rec == Store(AutoSpace(p, t))
  <2>1. /\ db' = Put(db, sp, rec)
        /\ UNCHANGED <<engine, active, tenants, activeTenant, th>>
    BY <1>6 DEF WriteToNew
  <2>2. "contents" \in Keys /\ TRUE \in Kind["contents"] /\ Stored(AutoSpace(p, t))
    BY Kinds, NewKinds DEF Keys
  <2>3. Stored(rec)
    BY <2>2, PutKinds DEF Store
  <2> HIDE DEF rec
  <2>4. /\ DOMAIN db' = DOMAIN db \cup {sp} /\ \A o \in DOMAIN db' : Stored(db'[o])
    BY <1>0, <2>1, <2>3, DbPut
  <2> QED BY <1>0, <2>1, <2>4 DEF TypesHold, MapsHold, TenantsHold, RequestsHold
<1>7. ASSUME NEW t \in Tenant, CreateTenant(t) \/ SwitchTenant(t) \/ DeleteTenant(t)
      PROVE  TypesHold'
  <2>1. UNCHANGED <<engine, db, th>>
    BY <1>7 DEF CreateTenant, SwitchTenant, DeleteTenant
  <2>2. TenantsHold'
    BY <1>0, <1>7, TenantAssumption DEF CreateTenant, SwitchTenant, DeleteTenant, TenantsHold
  <2> QED BY <1>0, <2>1, <2>2 DEF TypesHold, MapsHold, RequestsHold
<1>8. ASSUME NEW x \in Thread, NEW sp \in Space, Rehydrate(x, sp) PROVE TypesHold'
  <2> DEFINE r == [Begun(activeTenant, sp, "pushing") EXCEPT !.held = db[sp]]
  <2>1. /\ UNCHANGED <<engine, db, active, tenants, activeTenant>> /\ th' = [th EXCEPT ![x] = r]
        /\ sp \in DOMAIN db
    BY <1>8 DEF Rehydrate, Start, state
  <2>2. activeTenant \in Tenant /\ Stored(db[sp])
    BY <1>0, <2>1 DEF TenantsHold, MapsHold
  <2>3. WellFormed(r)
    BY <2>2, HoldingForm
  <2> HIDE DEF r
  <2>4. RequestsHold'
    BY <1>0, <2>1, <2>3, RequestMoves
  <2> QED BY <1>0, <2>1, <2>4 DEF TypesHold, MapsHold, TenantsHold
<1> QED BY <1>1, <1>2, <1>3, <1>4, <1>5, <1>6, <1>7, <1>8

\* What a restart of the appliance makes of the maps: the spaces without a tenant are
\* adopted, and those pushed are laid over what the engine has.
LEMMA Restarted ==
  ASSUME MapsHold, Restart
  PROVE  /\ DOMAIN db' = DOMAIN db
         /\ \A o \in DOMAIN db : db'[o] = Put(db[o], "tenant", Owner(db[o])) /\ Stored(db'[o])
         /\ \/ UNCHANGED engine
            \/ \E pushed \in SUBSET DOMAIN db :
                 /\ DOMAIN engine' = DOMAIN engine \cup pushed
                 /\ \A o \in DOMAIN engine \ pushed : engine'[o] = engine[o]
                 /\ \A o \in pushed :
                      engine'[o] = Overlay(db'[o], IF Has(o) THEN engine[o] ELSE Bare)
                 /\ \A o \in DOMAIN engine' : Known(engine'[o])
                 /\ DOMAIN db \ pushed \subseteq disturbed'
<1>1. DOMAIN db' = DOMAIN db /\ \A o \in DOMAIN db : db'[o] = Put(db[o], "tenant", Owner(db[o]))
  BY DEF Restart
<1>2. ASSUME NEW o \in DOMAIN db PROVE Stored(db'[o])
  <2>1. Stored(db[o])
    BY DEF MapsHold
  <2>2. "tenant" \in Keys /\ Owner(db[o]) \in Kind["tenant"]
    BY <2>1, Kinds, FullIsRecord DEF Keys, Stored, Record
  <2>3. Stored(Put(db[o], "tenant", Owner(db[o])))
    BY <2>1, <2>2, PutKinds
  <2>4. db'[o] = Put(db[o], "tenant", Owner(db[o]))
    BY <1>1
  <2> QED BY <2>3, <2>4
<1>3. CASE UNCHANGED engine
  BY <1>1, <1>2, <1>3
<1>4. ASSUME engine' # engine
      PROVE  \E pushed \in SUBSET DOMAIN db :
                 /\ DOMAIN engine' = DOMAIN engine \cup pushed
                 /\ \A o \in DOMAIN engine \ pushed : engine'[o] = engine[o]
                 /\ \A o \in pushed :
                      engine'[o] = Overlay(db'[o], IF Has(o) THEN engine[o] ELSE Bare)
                 /\ \A o \in DOMAIN engine' : Known(engine'[o])
                 /\ DOMAIN db \ pushed \subseteq disturbed'
  <2>1. PICK pushed \in SUBSET DOMAIN db :
          /\ engine' = Overlay([sp \in pushed |->
                                 Overlay(db'[sp], IF Has(sp) THEN engine[sp] ELSE Bare)], engine)
          /\ DOMAIN db \ pushed \subseteq disturbed'
    BY <1>4 DEF Restart
  <2> DEFINE top == [sp \in pushed |-> Overlay(db'[sp], IF Has(sp) THEN engine[sp] ELSE Bare)]
  <2>2. DOMAIN top = pushed
        /\ \A o \in pushed : top[o] = Overlay(db'[o], IF Has(o) THEN engine[o] ELSE Bare)
    OBVIOUS
  <2>3. engine' = Overlay(top, engine)
    BY <2>1
  <2> HIDE DEF top
  <2>4. /\ DOMAIN engine' = DOMAIN engine \cup pushed
        /\ \A o \in DOMAIN engine \ pushed : engine'[o] = engine[o]
        /\ \A o \in pushed : engine'[o] = top[o]
    BY <2>2, <2>3 DEF Overlay
  <2>5. ASSUME NEW o \in DOMAIN engine' PROVE Known(engine'[o])
    <3>1. CASE o \in pushed
      <4> DEFINE below == IF Has(o) THEN engine[o] ELSE Bare
      <4>1. Known(below)
        BY NewKinds DEF MapsHold, Has
      <4>2. Partial(db'[o])
        BY <1>2, <2>1, <3>1 DEF Stored, Full
      <4> HIDE DEF below
      <4>3. Known(Overlay(db'[o], below))
        BY <4>1, <4>2, OverlayKinds
      <4>4. engine'[o] = Overlay(db'[o], below)
        BY <2>2, <2>4, <3>1 DEF below
      <4> QED BY <4>3, <4>4
    <3>2. CASE o \notin pushed
      <4>1. engine'[o] = engine[o] /\ o \in DOMAIN engine
        BY <2>4, <3>2
      <4>2. Known(engine[o])
        BY <4>1 DEF MapsHold
      <4> QED BY <4>1, <4>2
    <3> QED BY <3>1, <3>2
  <2>6. \A o \in pushed : engine'[o] = Overlay(db'[o], IF Has(o) THEN engine[o] ELSE Bare)
    BY <2>2, <2>4
  <2> QED BY <2>1, <2>4, <2>5, <2>6
<1> QED BY <1>1, <1>2, <1>3, <1>4

\* A deadline that passes: every copy ages, nothing else changes.
LEMMA DeadlineAges ==
  ASSUME TypesHold, NEW sp \in Space, DeadlinePasses(sp)
  PROVE  /\ DOMAIN db' = DOMAIN db /\ DOMAIN engine' = DOMAIN engine
         /\ \A o \in DOMAIN db : db'[o] = IF o = sp THEN Aged(db[o]) ELSE db[o]
         /\ \A o \in DOMAIN engine : engine'[o] = IF o = sp THEN Aged(engine[o]) ELSE engine[o]
         /\ DOMAIN th' = Thread
         /\ \A y \in Thread :
              /\ th[y].sp # sp => th'[y] = th[y]
              /\ DOMAIN th'[y] = DOMAIN th[y] /\ th'[y].pc = th[y].pc /\ th'[y].sp = th[y].sp
              /\ th'[y].tid = th[y].tid /\ th'[y].live = th[y].live
              /\ th'[y].held \in {th[y].held, Aged(th[y].held)}
              /\ th'[y].answer \in {th[y].answer, Aged(th[y].answer)}
         /\ UNCHANGED <<active, tenants, activeTenant, disturbed>>
<1>1. DOMAIN db' = DOMAIN db /\ \A o \in DOMAIN db : db'[o] = IF o = sp THEN Aged(db[o]) ELSE db[o]
  BY DEF DeadlinePasses
<1>2. /\ DOMAIN engine' = DOMAIN engine
      /\ \A o \in DOMAIN engine : engine'[o] = IF o = sp THEN Aged(engine[o]) ELSE engine[o]
  BY DEF DeadlinePasses, Has
<1>3. /\ DOMAIN th' = Thread
      /\ \A y \in Thread : th'[y] = IF th[y].sp = sp
              THEN [th[y] EXCEPT !.held = Aged(th[y].held), !.answer = Aged(th[y].answer)] ELSE th[y]
  BY DEF DeadlinePasses, TypesHold, RequestsHold, WellFormed
<1>4. ASSUME NEW y \in Thread
      PROVE   /\ th[y].sp # sp => th'[y] = th[y]
              /\ DOMAIN th'[y] = DOMAIN th[y] /\ th'[y].pc = th[y].pc /\ th'[y].sp = th[y].sp
              /\ th'[y].tid = th[y].tid /\ th'[y].live = th[y].live
              /\ th'[y].held \in {th[y].held, Aged(th[y].held)}
              /\ th'[y].answer \in {th[y].answer, Aged(th[y].answer)}
  <2>1. CASE th[y].sp # sp
    <3>1. th'[y] = th[y]
      BY <1>3, <2>1
    <3> QED BY <2>1, <3>1
  <2>2. CASE th[y].sp = sp
    <3> DEFINE h == Aged(th[y].held)
               a == Aged(th[y].answer)
    <3>1. th'[y] = [th[y] EXCEPT !.held = h, !.answer = a]
      BY <1>3, <2>2
    <3>2. DOMAIN th[y] = {"pc", "sp", "tid", "held", "answer", "live"}
      BY DEF TypesHold, RequestsHold, WellFormed
    <3> HIDE DEF h, a
    <3>3. /\ DOMAIN th'[y] = DOMAIN th[y] /\ th'[y].pc = th[y].pc /\ th'[y].sp = th[y].sp
          /\ th'[y].tid = th[y].tid /\ th'[y].live = th[y].live
          /\ th'[y].held = h /\ th'[y].answer = a
      BY <3>1, <3>2
    <3> QED BY <2>2, <3>3 DEF h, a
  <2> QED BY <2>1, <2>2
<1>5. UNCHANGED <<active, tenants, activeTenant, disturbed>>
  BY DEF DeadlinePasses
<1> QED BY <1>1, <1>2, <1>3, <1>4, <1>5

\* Time and restarts keep the types.
LEMMA OtherTypes ==
  ASSUME TypesHold, (\E sp \in Space : DeadlinePasses(sp)) \/ Restart \/ EngineRestarts
  PROVE  TypesHold'
<1>0. MapsHold /\ RequestsHold /\ TenantsHold
  BY DEF TypesHold
<1>1. ASSUME NEW sp \in Space, DeadlinePasses(sp) PROVE TypesHold'
  <2>1. ASSUME NEW o \in DOMAIN db PROVE Stored(db'[o])
    <3>1. db'[o] \in {db[o], Aged(db[o])} /\ Stored(db[o])
      BY <1>0, <1>1, DeadlineAges DEF MapsHold
    <3> QED BY <3>1, AgedKinds
  <2>2. ASSUME NEW o \in DOMAIN engine PROVE Known(engine'[o])
    <3>1. engine'[o] \in {engine[o], Aged(engine[o])} /\ Known(engine[o])
      BY <1>0, <1>1, DeadlineAges DEF MapsHold
    <3> QED BY <3>1, AgedKinds
  <2>3. MapsHold'
    BY <1>0, <1>1, <2>1, <2>2, DeadlineAges DEF MapsHold
  <2>4. ASSUME NEW y \in Thread PROVE WellFormed(th'[y])
    <3> DEFINE r == th[y]
               n == th'[y]
    <3>1. WellFormed(r)
      BY <1>0 DEF RequestsHold
    <3>2. /\ DOMAIN n = DOMAIN r /\ n.pc = r.pc /\ n.sp = r.sp /\ n.tid = r.tid
          /\ n.held \in {r.held, Aged(r.held)} /\ n.answer \in {r.answer, Aged(r.answer)}
      BY <1>1, DeadlineAges
    <3> HIDE DEF r, n
    <3>3. Stored(r.held) => Stored(n.held)
      BY <3>2, AgedKinds
    <3>4. DOMAIN n.held = DOMAIN r.held
          /\ ("status" \in DOMAIN r.held => n.held["status"] = r.held["status"])
      BY <3>2, AgedKeys
    <3>5. Known(r.answer) => Known(n.answer)
      BY <3>2, AgedKinds
    <3>6. DOMAIN n.answer = DOMAIN r.answer
          /\ ("status" \in DOMAIN r.answer => n.answer["status"] = r.answer["status"])
      BY <3>2, AgedKeys
    <3>7. WellFormed(n)
      BY <3>1, <3>2, <3>3, <3>4, <3>5, <3>6 DEF WellFormed
    <3> QED BY <3>7 DEF n
  <2>5. RequestsHold'
    BY <1>1, <2>4, DeadlineAges DEF RequestsHold
  <2>6. TenantsHold'
    BY <1>0, <1>1, DeadlineAges DEF TenantsHold
  <2> QED BY <2>3, <2>5, <2>6 DEF TypesHold
<1>2. CASE Restart
  <2>1. MapsHold'
    <3>1. DOMAIN db' \subseteq Space /\ \A o \in DOMAIN db' : Stored(db'[o])
      BY <1>0, <1>2, Restarted DEF MapsHold
    <3>2. DOMAIN engine' \subseteq Space /\ \A o \in DOMAIN engine' : Known(engine'[o])
      <4>1. CASE UNCHANGED engine
        BY <1>0, <4>1 DEF MapsHold
      <4>2. CASE engine' # engine
        BY <1>0, <1>2, <4>2, Restarted DEF MapsHold
      <4> QED BY <4>1, <4>2
    <3> QED BY <3>1, <3>2 DEF MapsHold
  <2>2. RequestsHold'
    BY <1>2, IdleForm DEF Restart, RequestsHold
  <2>3. TenantsHold'
    BY <1>0, <1>2, Restarted DEF Restart, TenantsHold
  <2> QED BY <2>1, <2>2, <2>3 DEF TypesHold
<1>3. CASE EngineRestarts
  <2>1. UNCHANGED <<db, active, tenants, activeTenant, th>> /\ DOMAIN engine' = {}
    BY <1>3 DEF EngineRestarts, RestartEmpty, NoSpaces, state
  <2> QED BY <1>0, <2>1 DEF TypesHold, MapsHold, RequestsHold, TenantsHold
<1> QED BY <1>1, <1>2, <1>3

\* The types hold at first.
LEMMA InitTypes == Init => TypesHold
<1> SUFFICES ASSUME Init PROVE TypesHold
  OBVIOUS
<1>1. PICK made \in {{}, Made}, owner \in [Made -> Tenant] :
        /\ engine = [sp \in made |-> NewSpace(DefaultProvider, "running")]
        /\ db = [sp \in made |-> Put(engine[sp], "tenant", owner[sp])]
        /\ tenants \in {ts \in SUBSET Tenant :
                          {DefaultTenant} \cup {Owner(db[sp]) : sp \in made} \subseteq ts}
  BY DEF Init
<1>2. made \subseteq Space /\ made \subseteq Made
  BY MadeAssumption
<1>3. ASSUME NEW sp \in made PROVE Known(engine[sp]) /\ Stored(db[sp])
  <2> DEFINE e == NewSpace(DefaultProvider, "running")
  <2>1. /\ DOMAIN e = {"provider", "status", "ttl", "contents"} /\ e["provider"] = DefaultProvider
        /\ e["status"] = "running" /\ e["ttl"] = "running" /\ e["contents"] = FALSE
    BY DEF NewSpace
  <2>2. \A k \in DOMAIN e : k \in Keys /\ e[k] \in Kind[k]
    <3>1. "running" \in Statuses /\ "running" \in TTLs
      BY DEF Statuses, TTLs
    <3> QED BY <2>1, <3>1, Kinds, ProviderAssumption DEF Keys
  <2> HIDE DEF e
  <2>3. Known(e) /\ Stored(e)
    BY <2>1, <2>2 DEF Known, Stored, Full, Partial
  <2>4. "tenant" \in Keys /\ owner[sp] \in Kind["tenant"]
    BY <1>2, Kinds DEF Keys
  <2>5. Stored(Put(e, "tenant", owner[sp]))
    BY <2>3, <2>4, PutKinds
  <2>6. engine[sp] = e
    BY <1>1 DEF e
  <2>7. db[sp] = Put(e, "tenant", owner[sp])
    BY <1>1, <2>6
  <2> QED BY <2>3, <2>5, <2>6, <2>7
<1>4. DOMAIN engine = made /\ DOMAIN db = made
  BY <1>1
<1>5. MapsHold
  BY <1>2, <1>3, <1>4 DEF MapsHold
<1>6. RequestsHold
  BY IdleForm DEF Init, RequestsHold
<1>7. active \in DOMAIN db \cup {NoSpace}
  BY DEF Init
<1>8. tenants \subseteq Tenant /\ DefaultTenant \in tenants /\ activeTenant = DefaultTenant
  BY <1>1 DEF Init
<1> QED BY <1>5, <1>6, <1>7, <1>8 DEF TypesHold, TenantsHold

\* Every step keeps the types.
LEMMA NextTypes == TypesHold /\ [Next]_vars => TypesHold'
<1> SUFFICES ASSUME TypesHold, [Next]_vars PROVE TypesHold'
  OBVIOUS
<1>1. CASE UNCHANGED vars
  BY <1>1 DEF vars, state, TypesHold, MapsHold, RequestsHold, TenantsHold
<1>2. CASE Next
  BY <1>2, StepTypes, ArriveTypes, LocalTypes, OtherTypes DEF Next
<1> QED BY <1>1, <1>2

\* The maps hold spaces, the active id is a space's or none, and every request is
\* where a handler blocks, with what its next step reads: for any number of spaces,
\* tenants and threads.
THEOREM TypeCorrect == Spec => []TypeOK
<1> QED BY InitTypes, NextTypes, TypesAreTypeOK, PTL DEF Spec

-----------------------------------------------------------------------------
(* The engine follows the database                                         *)

\* What EngineFollows says of a space, and what a request on it that nobody disturbs
\* relies on when it makes its next call.
Synced(sp) ==
  /\ Has(sp) => sp \in DOMAIN db /\ Mode(engine[sp].status) = Mode(Status(db[sp]))
  /\ sp \in DOMAIN db /\ ~Has(sp) => IsAuto(db[sp]) /\ Mode(Status(db[sp])) = "running"

Fits(r) ==
  LET sp == r.sp IN
  /\ r.pc \in {"creating", "tagging", "switching", "merging", "syncing", "posting", "pausing",
               "pushing"} => Synced(sp)
  /\ r.pc \in {"upserting", "writing", "posting", "telling", "pausing", "marking", "pushing"} =>
       sp \in DOMAIN db
  /\ r.pc = "merging" => Has(sp) /\ r.answer.status = engine[sp].status
  /\ r.pc \in {"upserting", "writing"} => Status(db[sp]) = "running"
  /\ r.pc = "writing" => Has(sp) /\ engine[sp].status = "running"
  /\ r.pc = "telling" => Status(db[sp]) = r.answer.status
  /\ r.pc = "marking" => Has(sp) /\ engine[sp].status = "paused"
  /\ r.pc \in {"pausing", "marking"} => r.live = TRUE /\ r.answer.status \in Halted
  /\ r.pc = "pushing" => r.live = TRUE
  /\ r.pc = "dropping" => sp \notin DOMAIN db

Follow(sp) ==
  /\ \A x, y \in Thread : th[x].sp = sp /\ th[y].sp = sp => x = y
  /\ \A x \in Thread : th[x].sp = sp => Fits(th[x])
  /\ (\A x \in Thread : th[x].sp # sp) => Synced(sp)

Follows == \A sp \in Space \ disturbed : Follow(sp)

\* The inductive invariant implies the property.
LEMMA FollowsIsEngineFollows == Follows => EngineFollows
BY DEF Follows, Follow, Synced, EngineFollows

\* One entry set, as Status and IsAuto see it.
LEMMA StatusPut ==
  ASSUME NEW m, NEW k, NEW v
  PROVE  /\ Status(Put(m, k, v)) = IF k = "status" THEN v ELSE Status(m)
         /\ IsAuto(Put(m, k, v)) <=> k = "auto" \/ IsAuto(m)
BY DEF Put, Status, Get, IsAuto

\* Nothing that Synced speaks of changes.
Same(sp) ==
  /\ sp \in DOMAIN db' <=> sp \in DOMAIN db
  /\ sp \in DOMAIN engine' <=> sp \in DOMAIN engine
  /\ sp \in DOMAIN db => Status(db'[sp]) = Status(db[sp]) /\ (IsAuto(db'[sp]) <=> IsAuto(db[sp]))
  /\ sp \in DOMAIN engine => engine'[sp].status = engine[sp].status

\* A space stays in step if nothing of it changes.
LEMMA SameSynced == ASSUME NEW sp, Same(sp), Synced(sp) PROVE Synced(sp)'
BY DEF Same, Synced, Has

\* A request goes on unchanged, its lifetimes excepted.
Alike(n, r) ==
  /\ n.sp = r.sp /\ n.pc = r.pc /\ n.live = r.live
  /\ r.pc \in {"merging", "telling", "pausing", "marking"} => n.answer.status = r.answer.status

\* A request on a space stays ready for its call if nothing of the space changes.
LEMMA SameFits ==
  ASSUME NEW r, NEW n, Alike(n, r), Same(r.sp), Fits(r)
  PROVE  Fits(n)'
<1> DEFINE sp == r.sp
<1>1. n.sp = sp /\ n.pc = r.pc /\ n.live = r.live
  BY DEF Alike
<1>2. Synced(sp) => Synced(sp)'
  BY SameSynced
<1> HIDE DEF sp
<1>3. Fits(r) /\ Same(sp) /\ Alike(n, r) /\ r.sp = sp
  BY DEF sp
<1> QED BY <1>1, <1>2, <1>3 DEF Fits, Same, Alike, Has

\* A space that nothing touches, and whose requests go on unchanged, still follows.
LEMMA FollowStays ==
  ASSUME NEW sp, Follow(sp), Same(sp),
         \A y \in Thread : th[y].sp = sp \/ th'[y].sp = sp => Alike(th'[y], th[y])
  PROVE  Follow(sp)'
<1>1. \A y \in Thread : th'[y].sp = sp <=> th[y].sp = sp
  BY DEF Alike
<1>2. ASSUME NEW y \in Thread, th'[y].sp = sp PROVE Fits(th[y])'
  <2>1. ASSUME NEW r, r = th[y], NEW n, n = th'[y] PROVE Fits(n)'
    <3>1. Alike(n, r) /\ Same(r.sp) /\ Fits(r)
      BY <1>1, <1>2, <2>1 DEF Follow
    <3> QED BY <3>1, SameFits
  <2> QED BY <2>1
<1>3. (\A y \in Thread : th'[y].sp # sp) => Synced(sp)'
  BY <1>1, SameSynced DEF Follow
<1>4. \A x, y \in Thread : th'[x].sp = sp /\ th'[y].sp = sp => x = y
  BY <1>1 DEF Follow
<1> QED BY <1>2, <1>3, <1>4 DEF Follow

\* The one request on a space is thread x's, and goes on as r.
LEMMA AloneFollows ==
  ASSUME NEW sp, NEW x \in Thread, NEW r, th'[x] = r, \A y \in Thread \ {x} : th'[y].sp # sp,
         r.sp = sp => Fits(r)', r.sp # sp => Synced(sp)'
  PROVE  Follow(sp)'
BY DEF Follow

\* One entry of a space of the database set, not the status.
LEMMA SameExcept ==
  ASSUME NEW sp, NEW o, NEW k, NEW v, k \notin {"status", "auto"},
         db' = [db EXCEPT ![o] = Put(db[o], k, v)], UNCHANGED engine
  PROVE  Same(sp)
<1> DEFINE rec == Put(db[o], k, v)
<1>1. Status(rec) = Status(db[o]) /\ (IsAuto(rec) <=> IsAuto(db[o]))
  BY StatusPut
<1>2. db' = [db EXCEPT ![o] = rec]
  OBVIOUS
<1> HIDE DEF rec
<1> QED BY <1>1, <1>2 DEF Same

\* A step of a request changes its own space only, in the database, in the engine and
\* among the other requests.
LEMMA StepIsLocal ==
  ASSUME TypesHold, NEW x \in Thread, Step(x), NEW o \in Space, o # th[x].sp
  PROVE  /\ Same(o)
         /\ \A y \in Thread : th[y].sp = o \/ th'[y].sp = o => Alike(th'[y], th[y])
         /\ disturbed \subseteq disturbed'
<1> DEFINE sp == th[x].sp
<1>0. DOMAIN th = Thread /\ (\A y \in Thread : WellFormed(th[y])) /\ Idle.sp = NoSpace
  BY IdleForm DEF TypesHold, RequestsHold
<1>1. /\ o \in DOMAIN db' <=> o \in DOMAIN db
      /\ o \in DOMAIN db => db'[o] = db[o]
  <2>1. ASSUME NEW rec, db' = Put(db, sp, rec)
        PROVE  (o \in DOMAIN db' <=> o \in DOMAIN db) /\ (o \in DOMAIN db => db'[o] = db[o])
    BY <2>1 DEF Put
  <2>2. ASSUME NEW rec, db' = [db EXCEPT ![sp] = rec]
        PROVE  (o \in DOMAIN db' <=> o \in DOMAIN db) /\ (o \in DOMAIN db => db'[o] = db[o])
    BY <2>2
  <2>3. \/ UNCHANGED db
        \/ \E rec : db' = Put(db, sp, rec)
        \/ \E rec : db' = [db EXCEPT ![sp] = rec]
    BY DEF Step, CreateRefused, CreateKernel, CreateUpsert, CreateWriteBack, CreateTag, SwitchEngine,
           SwitchMerge, SyncLook, SyncPost, Tell, DeleteEngine, StopEngine, StopMark, Push, state
  <2> QED BY <2>1, <2>2, <2>3
<1>2. /\ o \in DOMAIN engine' <=> o \in DOMAIN engine
      /\ o \in DOMAIN engine => engine'[o] = engine[o]
  <2>1. ASSUME NEW payload, UpsertSpace(sp, payload)
        PROVE  (o \in DOMAIN engine' <=> o \in DOMAIN engine)
               /\ (o \in DOMAIN engine => engine'[o] = engine[o])
    <3>1. PICK rec : engine' = Put(engine, sp, rec)
      BY <2>1 DEF UpsertSpace
    <3> QED BY <3>1 DEF Put
  <2>2. ASSUME NEW status, ChangeStatus(sp, status)
        PROVE  (o \in DOMAIN engine' <=> o \in DOMAIN engine)
               /\ (o \in DOMAIN engine => engine'[o] = engine[o])
    <3>1. PICK rec : engine' = [engine EXCEPT ![sp] = rec]
      BY <2>2 DEF ChangeStatus
    <3> QED BY <3>1
  <2>3. ASSUME DeleteSpace(sp)
        PROVE  (o \in DOMAIN engine' <=> o \in DOMAIN engine)
               /\ (o \in DOMAIN engine => engine'[o] = engine[o])
    BY <2>3 DEF DeleteSpace
  <2>4. \/ UNCHANGED engine
        \/ \E payload : UpsertSpace(sp, payload)
        \/ \E status : ChangeStatus(sp, status)
        \/ DeleteSpace(sp)
    BY DEF Step, CreateRefused, CreateKernel, CreateUpsert, CreateWriteBack, CreateTag, SwitchEngine,
           SwitchMerge, SyncLook, SyncPost, Tell, DeleteEngine, StopEngine, StopMark, Push, Told, Fails,
           SwitchSpace
  <2> QED BY <2>1, <2>2, <2>3, <2>4
<1>3. Same(o)
  BY <1>1, <1>2 DEF Same
<1>4. disturbed \subseteq disturbed'
  BY DEF Step, CreateRefused, CreateKernel, CreateUpsert, CreateWriteBack, CreateTag, SwitchEngine,
         SwitchMerge, SyncLook, SyncPost, Tell, DeleteEngine, StopEngine, StopMark, Push, Told, Fails
<1>5. ASSUME NEW f, f \in {th, Orphaned(th, sp)}, NEW y \in Thread, y # x, th'[y] = f[y]
      PROVE  th[y].sp = o \/ th'[y].sp = o => Alike(th'[y], th[y])
  <2>1. f[y].sp = th[y].sp /\ (th[y].sp = o => f[y] = th[y])
    BY <1>0, <1>5, StaleForm
  <2> QED BY <1>5, <2>1 DEF Alike
<1>6. \/ th' = [th EXCEPT ![x] = Idle]
      \/ \E pc : th' = [th EXCEPT ![x].pc = pc]
      \/ \E pc : th' = [Orphaned(th, sp) EXCEPT ![x].pc = pc]
      \/ \E pc, a : th' = [th EXCEPT ![x].pc = pc, ![x].answer = a]
  BY DEF Step, CreateRefused, CreateKernel, CreateUpsert, CreateWriteBack, CreateTag, SwitchEngine,
         SwitchMerge, SyncLook, SyncPost, Tell, DeleteEngine, StopEngine, StopMark, Push, Finish, Goto
<1>7. \E f \in {th, Orphaned(th, sp)} : \A y \in Thread : y # x => th'[y] = f[y]
  <2>1. DOMAIN Orphaned(th, sp) = Thread
    BY DEF Orphaned
  <2> QED BY <1>0, <1>6, <2>1
<1>8. th'[x].sp # o
  <2>1. WellFormed(th[x]) /\ WellFormed(Orphaned(th, sp)[x]) /\ Orphaned(th, sp)[x].sp = sp
        /\ DOMAIN Orphaned(th, sp) = Thread
    BY <1>0, StaleForm
  <2>2. CASE th' = [th EXCEPT ![x] = Idle]
    BY <1>0, <2>2, NoSpaceAssumption
  <2>3. ASSUME NEW f, f \in {th, Orphaned(th, sp)}, NEW pc, th' = [f EXCEPT ![x].pc = pc]
        PROVE  th'[x].sp # o
    <3> DEFINE r == f[x]
    <3>1. WellFormed(r) /\ r.sp = sp /\ DOMAIN f = Thread
      BY <1>0, <2>1, <2>3
    <3>2. th'[x] = [r EXCEPT !.pc = pc]
      BY <2>3, <3>1
    <3> HIDE DEF r
    <3> QED BY <3>1, <3>2 DEF WellFormed
  <2>4. ASSUME NEW pc, NEW a, th' = [th EXCEPT ![x].pc = pc, ![x].answer = a]
        PROVE  th'[x].sp # o
    <3> DEFINE r == th[x]
    <3>1. th'[x] = [r EXCEPT !.pc = pc, !.answer = a]
      BY <1>0, <2>4
    <3>2. WellFormed(r) /\ r.sp = sp
      BY <2>1
    <3> HIDE DEF r
    <3> QED BY <3>1, <3>2 DEF WellFormed
  <2> QED BY <1>6, <2>2, <2>3, <2>4
<1> QED BY <1>3, <1>4, <1>5, <1>7, <1>8

\* A step of the only request on a space, of which the engine missed no call, leaves the
\* space in step or the request ready for its next call.
LEMMA StepFollows ==
  ASSUME TypesHold, NEW x \in Thread, Step(x), NEW sp \in Space, sp = th[x].sp, Follow(sp),
         sp \notin disturbed'
  PROVE  Follow(sp)'
<1>0. /\ MapsHold /\ DOMAIN th = Thread /\ (\A y \in Thread : WellFormed(th[y]))
      /\ Idle.sp = NoSpace /\ sp # NoSpace /\ Fits(th[x])
  BY IdleForm, NoSpaceAssumption DEF TypesHold, RequestsHold, Follow
<1>c. \A y \in Thread \ {x} : th[y].sp # sp
  BY DEF Follow
<1>d. \A y \in Thread \ {x} : th'[y].sp # sp
  <2>1. ASSUME NEW y \in Thread \ {x} PROVE th'[y].sp # sp
    <3>1. DOMAIN Orphaned(th, sp) = Thread /\ Orphaned(th, sp)[y].sp = th[y].sp
      BY <1>0, StaleForm
    <3>2. th'[y] \in {th[y], Orphaned(th, sp)[y]}
      BY <1>0, <3>1 DEF Step, CreateRefused, CreateKernel, CreateUpsert, CreateWriteBack, CreateTag,
           SwitchEngine, SwitchMerge, SyncLook, SyncPost, Tell, DeleteEngine, StopEngine, StopMark, Push,
           Finish, Goto
    <3> QED BY <1>c, <3>1, <3>2
  <2> QED BY <2>1
<1>a. ASSUME Finish(x), Synced(sp)' PROVE Follow(sp)'
  <2> DEFINE r == Idle
  <2>1. th'[x] = r /\ r.sp # sp
    BY <1>0, <1>a DEF Finish
  <2> HIDE DEF r
  <2> QED BY <1>d, <1>a, <2>1, AloneFollows
<1>b. ASSUME NEW f \in {th, Orphaned(th, sp)}, NEW pc, th' = [f EXCEPT ![x].pc = pc],
             th[x].pc \notin {"idle", "pausing", "marking", "pushing"} \/ f = th,
             ASSUME NEW r, r.pc = pc, r.sp = sp, r.held = th[x].held, r.answer = th[x].answer,
                    r.live = th[x].live
             PROVE  Fits(r)'
      PROVE  Follow(sp)'
  <2>1. f[x] = th[x] /\ DOMAIN f = Thread
    BY <1>0, <1>b, StaleForm
  <2> DEFINE r == [th[x] EXCEPT !.pc = pc]
  <2>2. th'[x] = r
    BY <1>b, <2>1
  <2>3. /\ r.pc = pc /\ r.sp = sp /\ r.held = th[x].held /\ r.answer = th[x].answer
        /\ r.live = th[x].live
    BY <1>0 DEF WellFormed
  <2> HIDE DEF r
  <2>4. ASSUME NEW n, n = th'[x] PROVE Fits(n)'
    BY <1>b, <2>2, <2>3, <2>4
  <2> QED BY <1>d, <2>2, <2>3, <2>4 DEF Follow
<1>1. CASE CreateRefused(x)
  <2>1. Same(sp) /\ Synced(sp)
    BY <1>0, <1>1 DEF CreateRefused, At, Fits, Same, state
  <2> QED BY <1>1, <1>a, <2>1, SameSynced DEF CreateRefused
<1>2. CASE CreateKernel(x)
  <2>1. /\ th[x].pc = "creating" /\ db' = Put(db, sp, th[x].held)
        /\ th' = [Orphaned(th, sp) EXCEPT ![x].pc = "upserting"]
    BY <1>2 DEF CreateKernel, At
  <2>2. Stored(th[x].held) /\ Status(th[x].held) = "running"
    BY <1>0, <2>1 DEF WellFormed, Status, Get
  <2>3. sp \in DOMAIN db' /\ db'[sp] = th[x].held
    BY <1>0, <2>1, <2>2, DbPut
  <2>4. ASSUME NEW r, r.pc = "upserting", r.sp = sp PROVE Fits(r)'
    BY <2>2, <2>3, <2>4 DEF Fits
  <2> QED BY <1>b, <2>1, <2>4
<1>3. CASE CreateUpsert(x)
  <2>1. /\ th[x].pc = "upserting" /\ UpsertSpace(sp, th[x].held) /\ UNCHANGED db
        /\ th' = [th EXCEPT ![x].pc = "writing"]
    BY <1>3 DEF CreateUpsert, At, Fails, Goto, state
  <2>2. Partial(th[x].held) /\ "status" \in DOMAIN th[x].held /\ th[x].held["status"] = "running"
    BY <1>0, <2>1 DEF WellFormed, Stored, Full
  <2>3. sp \in DOMAIN engine' /\ engine'[sp].status = "running"
    BY <1>0, <2>1, <2>2, Upserted
  <2>4. sp \in DOMAIN db' /\ Status(db'[sp]) = "running"
    BY <1>0, <2>1 DEF Fits
  <2>5. ASSUME NEW r, r.pc = "writing", r.sp = sp PROVE Fits(r)'
    BY <2>3, <2>4, <2>5 DEF Fits, Has
  <2> QED BY <1>b, <2>1, <2>5
<1>4. CASE CreateWriteBack(x)
  <2>1. /\ th[x].pc = "writing" /\ db' = Put(db, sp, th[x].held) /\ UNCHANGED engine
        /\ th' = [Orphaned(th, sp) EXCEPT ![x].pc = "tagging"]
    BY <1>4 DEF CreateWriteBack, At
  <2>2. Stored(th[x].held) /\ Status(th[x].held) = "running"
    BY <1>0, <2>1 DEF WellFormed, Status, Get
  <2>3. sp \in DOMAIN db' /\ db'[sp] = th[x].held
    BY <1>0, <2>1, <2>2, DbPut
  <2>4. sp \in DOMAIN engine' /\ engine'[sp].status = "running"
    BY <1>0, <2>1 DEF Fits, Has
  <2>5. Synced(sp)'
    BY <2>2, <2>3, <2>4 DEF Synced, Has
  <2>6. ASSUME NEW r, r.pc = "tagging", r.sp = sp PROVE Fits(r)'
    BY <2>5, <2>6 DEF Fits
  <2> QED BY <1>b, <2>1, <2>6
<1>5. CASE CreateTag(x)
  <2>1. Synced(sp) /\ UNCHANGED engine
    BY <1>0, <1>5 DEF CreateTag, At, Fits
  <2>2. db' = db \/ db' = [db EXCEPT ![sp] = Put(db[sp], "tenant", th[x].tid)]
    BY <1>5 DEF CreateTag
  <2>3. Same(sp)
    BY <2>1, <2>2, SameExcept DEF Same
  <2> QED BY <1>5, <1>a, <2>1, <2>3, SameSynced DEF CreateTag
<1>6. CASE SwitchEngine(x)
  <2>1. /\ Has(sp) /\ UNCHANGED <<engine, db>> /\ Synced(sp)
        /\ th' = [th EXCEPT ![x].pc = "merging", ![x].answer = engine[sp]]
    BY <1>0, <1>6 DEF SwitchEngine, SwitchSpace, At, Fails, Fits, state
  <2> DEFINE r == [th[x] EXCEPT !.pc = "merging", !.answer = engine[sp]]
  <2>2. th'[x] = r
    BY <1>0, <2>1
  <2>3. r.pc = "merging" /\ r.sp = sp /\ r.answer = engine[sp]
    BY <1>0 DEF WellFormed
  <2> HIDE DEF r
  <2>4. Same(sp)
    BY <2>1 DEF Same
  <2>5. Synced(sp)'
    BY <2>1, <2>4, SameSynced
  <2>6. ASSUME NEW n, n = th'[x] PROVE Fits(n)'
    BY <2>1, <2>2, <2>3, <2>5, <2>6 DEF Fits, Has
  <2> QED BY <1>d, <2>2, <2>3, <2>6 DEF Follow
<1>7. CASE SwitchMerge(x)
  <2> DEFINE local == IF sp \in DOMAIN db THEN db[sp] ELSE th[x].held
             rec == Merge(local, th[x].answer)
  <2>1. /\ th[x].pc = "merging" /\ db' = Put(db, sp, rec) /\ UNCHANGED engine
        /\ th' = [Orphaned(th, sp) EXCEPT ![x].pc = "syncing"]
    BY <1>7 DEF SwitchMerge, At
  <2>2. Stored(local) /\ Known(th[x].answer)
    BY <1>0, <2>1 DEF MapsHold, WellFormed
  <2> HIDE DEF local
  <2>3. Stored(rec) /\ Status(rec) = th[x].answer["status"]
    BY <2>2, Merged
  <2> HIDE DEF rec
  <2>4. sp \in DOMAIN db' /\ db'[sp] = rec
    BY <1>0, <2>1, <2>3, DbPut
  <2>5. sp \in DOMAIN engine' /\ engine'[sp].status = th[x].answer.status
    BY <1>0, <2>1 DEF Fits, Has
  <2>6. Synced(sp)'
    BY <2>3, <2>4, <2>5 DEF Synced, Has
  <2>7. ASSUME NEW r, r.pc = "syncing", r.sp = sp PROVE Fits(r)'
    BY <2>6, <2>7 DEF Fits
  <2> QED BY <1>b, <2>1, <2>7
<1>8. CASE SyncLook(x)
  <2>1. th[x].pc = "syncing" /\ Same(sp) /\ Synced(sp) /\ UNCHANGED db
    BY <1>0, <1>8 DEF SyncLook, At, Fits, Same, state
  <2>2. Synced(sp)'
    BY <2>1, SameSynced
  <2>3. CASE sp \in DOMAIN db
    <3>1. th' = [th EXCEPT ![x].pc = "posting"]
      BY <1>8, <2>3 DEF SyncLook, Goto
    <3>2. ASSUME NEW r, r.pc = "posting", r.sp = sp PROVE Fits(r)'
      BY <2>1, <2>2, <2>3, <3>2 DEF Fits
    <3> QED BY <1>b, <3>1, <3>2
  <2>4. CASE sp \notin DOMAIN db
    BY <1>8, <1>a, <2>2, <2>4 DEF SyncLook
  <2> QED BY <2>3, <2>4
<1>9. CASE SyncPost(x)
  <2>1. th[x].pc = "posting" /\ UpsertSpace(sp, <<>>) /\ UNCHANGED db /\ Finish(x)
    BY <1>9 DEF SyncPost, At, Told, Fails, state
  <2>2. sp \in DOMAIN db /\ Synced(sp)
    BY <1>0, <2>1 DEF Fits
  <2>3. Partial(<<>>) /\ "status" \notin DOMAIN <<>>
    BY DEF Partial
  <2>4. /\ sp \in DOMAIN engine'
        /\ engine'[sp]["status"] = IF sp \in DOMAIN engine THEN engine[sp]["status"] ELSE "running"
    BY <1>0, <2>1, <2>3, Upserted
  <2>5. Mode("running") = "running"
    BY DEF Mode, Halted
  <2>6. Synced(sp)'
    BY <2>1, <2>2, <2>4, <2>5 DEF Synced, Has
  <2> QED BY <1>a, <2>1, <2>6
<1>10. CASE Tell(x)
  <2>1. /\ th[x].pc = "telling" /\ ChangeStatus(sp, th[x].answer["status"]) /\ UNCHANGED db
        /\ Finish(x)
    BY <1>10 DEF Tell, At, Told, Fails, state
  <2>2. th[x].answer["status"] \in Statuses
    BY <1>0, <2>1 DEF WellFormed
  <2>3. sp \in DOMAIN engine' /\ engine'[sp]["status"] = th[x].answer["status"]
    BY <1>0, <2>1, <2>2, StatusChanged
  <2>4. sp \in DOMAIN db /\ Status(db[sp]) = th[x].answer["status"]
    BY <1>0, <2>1 DEF Fits
  <2>5. Synced(sp)'
    BY <2>1, <2>3, <2>4 DEF Synced, Has
  <2> QED BY <1>a, <2>1, <2>5
<1>11. CASE DeleteEngine(x)
  <2>1. th[x].pc = "dropping" /\ DeleteSpace(sp) /\ UNCHANGED db /\ Finish(x)
    BY <1>11 DEF DeleteEngine, At, Told, Fails, state
  <2>2. sp \notin DOMAIN db' /\ sp \notin DOMAIN engine'
    BY <1>0, <2>1, SpaceDeleted DEF Fits
  <2>3. Synced(sp)'
    BY <2>2 DEF Synced, Has
  <2> QED BY <1>a, <2>1, <2>3
<1>12. CASE StopEngine(x)
  <2>1. /\ th[x].pc = "pausing" /\ ChangeStatus(sp, "paused") /\ UNCHANGED db
        /\ th' = [th EXCEPT ![x].pc = "marking"]
    BY <1>12 DEF StopEngine, At, Told, Fails, Goto, state
  <2>2. "paused" \in Statuses
    BY DEF Statuses
  <2>3. sp \in DOMAIN engine' /\ engine'[sp]["status"] = "paused"
    BY <1>0, <2>1, <2>2, StatusChanged
  <2>4. sp \in DOMAIN db /\ th[x].live = TRUE /\ th[x].answer.status \in Halted
    BY <1>0, <2>1 DEF Fits
  <2>5. ASSUME NEW r, r.pc = "marking", r.sp = sp, r.answer = th[x].answer, r.live = th[x].live
        PROVE  Fits(r)'
    BY <2>1, <2>3, <2>4, <2>5 DEF Fits, Has
  <2> QED BY <1>b, <2>1, <2>5
<1>13. CASE StopMark(x)
  <2> DEFINE rec == Put(db[sp], "status", th[x].answer.status)
  <2>1. th[x].pc = "marking"
    BY <1>13 DEF StopMark, At
  <2>2. /\ th[x].live = TRUE /\ th[x].answer.status \in Halted /\ sp \in DOMAIN db
        /\ sp \in DOMAIN engine /\ engine[sp].status = "paused"
    BY <1>0, <2>1 DEF Fits, Has
  <2>3. db' = [db EXCEPT ![sp] = rec] /\ UNCHANGED engine /\ Finish(x)
    BY <1>13, <2>2 DEF StopMark
  <2>4. Status(rec) = th[x].answer.status
    BY StatusPut
  <2> HIDE DEF rec
  <2>5. sp \in DOMAIN db' /\ db'[sp] = rec
    BY <2>2, <2>3
  <2>6. Mode(Status(rec)) = "halted" /\ Mode("paused") = "halted"
    BY <2>2, <2>4 DEF Mode, Halted
  <2>7. Synced(sp)'
    BY <2>2, <2>3, <2>5, <2>6 DEF Synced, Has
  <2> QED BY <1>a, <2>3, <2>7
<1>14. CASE Push(x)
  <2> DEFINE rec == db[sp]
  <2>1. /\ th[x].pc = "pushing" /\ UpsertSpace(sp, Pushed(x)) /\ UNCHANGED db /\ Finish(x)
    BY <1>14 DEF Push, At, Told, Fails, state
  <2>2. sp \in DOMAIN db /\ Synced(sp) /\ Pushed(x) = rec
    BY <1>0, <2>1 DEF Fits, Pushed
  <2>3. Partial(rec) /\ UpsertSpace(sp, rec)
    BY <1>0, <2>1, <2>2 DEF MapsHold, Stored, Full
  <2>4. sp \in DOMAIN engine => Mode(engine[sp]["status"]) = Mode(Status(rec))
    BY <2>2 DEF Synced, Has
  <2>5. db'[sp] = rec
    BY <2>1
  <2> HIDE DEF rec
  <2>6. /\ sp \in DOMAIN engine'
        /\ engine'[sp]["status"] = IF "status" \in DOMAIN rec THEN rec["status"]
                                   ELSE IF sp \in DOMAIN engine THEN engine[sp]["status"]
                                   ELSE "running"
    BY <1>0, <2>3, Upserted
  <2>7. Status(rec) = IF "status" \in DOMAIN rec THEN rec["status"] ELSE ""
    BY DEF Status, Get
  <2>8. Mode("") = "running" /\ Mode("running") = "running"
    BY DEF Mode, Halted
  <2>9. Mode(engine'[sp]["status"]) = Mode(Status(rec))
    BY <2>4, <2>6, <2>7, <2>8
  <2>10. Synced(sp)'
    BY <2>1, <2>2, <2>5, <2>6, <2>9 DEF Synced, Has
  <2> QED BY <1>a, <2>1, <2>10
<1> QED
  BY <1>1, <1>2, <1>3, <1>4, <1>5, <1>6, <1>7, <1>8, <1>9, <1>10, <1>11, <1>12, <1>13, <1>14
  DEF Step

\* A request arrives on a space: if another one works on it they overlap, else the space
\* was in step and the request's first call finds it so.
LEMMA StartFollows ==
  ASSUME TypesHold, Follows, NEW x \in Thread, NEW r, r.sp \in Space, At(x, "idle"),
         Overlap(x, r.sp), th' = [th EXCEPT ![x] = r],
         \A o \in Space : o # r.sp => Same(o),
         \A n : n = r /\ Synced(r.sp) => Fits(n)'
  PROVE  Follows'
<1> DEFINE sp == r.sp
<1>0. DOMAIN th = Thread /\ th[x].sp = NoSpace
  BY DEF TypesHold, RequestsHold, WellFormed, At
<1>1. th'[x] = r /\ \A y \in Thread \ {x} : th'[y] = th[y]
  BY <1>0
<1>2. disturbed \subseteq disturbed'
  BY DEF Overlap
<1>3. ASSUME NEW o \in Space, o \notin disturbed' PROVE Follow(o)'
  <2>1. Follow(o) /\ th[x].sp # o
    BY <1>0, <1>2, <1>3, NoSpaceAssumption DEF Follows
  <2>2. CASE o # sp
    <3>1. Same(o)
      BY <2>2
    <3>2. \A y \in Thread : th[y].sp = o \/ th'[y].sp = o => Alike(th'[y], th[y])
      BY <1>1, <2>1, <2>2 DEF Alike
    <3> QED BY <2>1, <3>1, <3>2, FollowStays
  <2>3. CASE o = sp
    <3>1. \A y \in Thread \ {x} : th[y].sp # sp
      BY <1>3, <2>3 DEF Overlap
    <3>2. Synced(sp)
      BY <2>1, <2>3, <3>1 DEF Follow
    <3>3. Fits(r)' /\ \A y \in Thread \ {x} : th'[y].sp # sp
      BY <1>1, <3>1, <3>2
    <3> QED BY <1>1, <2>3, <3>3, AloneFollows
  <2> QED BY <2>2, <2>3
<1> QED BY <1>3 DEF Follows

\* A request that arrives finds its space in step, or disturbs it.
LEMMA ArriveFollows ==
  ASSUME TypesHold, Follows, NEW x \in Thread, NEW t \in Tenant, NEW sp \in Space, Arrive(x, t, sp)
  PROVE  Follows'
<1>0. MapsHold
  BY DEF TypesHold
<1>a. ASSUME UNCHANGED <<engine, db>> PROVE \A o \in Space : Same(o)
  BY <1>a DEF Same
<1>b. ASSUME UNCHANGED <<engine, db>>, Synced(sp) PROVE Synced(sp)'
  BY <1>a, <1>b, SameSynced
<1>c. ASSUME NEW rec, UNCHANGED engine, db' = [db EXCEPT ![sp] = rec]
      PROVE  \A o \in Space : o # sp => Same(o)
  BY <1>c DEF Same
<1>1. ASSUME NEW p \in Provider, NEW ttl \in Lifetimes, CreateCheck(x, t, sp, p, ttl)
      PROVE  Follows'
  <2> DEFINE r == [Begun(t, sp, "creating") EXCEPT !.held = NewSpace(p, ttl)]
  <2>1. /\ UNCHANGED <<engine, db>> /\ th' = [th EXCEPT ![x] = r]
        /\ At(x, "idle") /\ Overlap(x, r.sp)
    BY <1>1 DEF CreateCheck, Start, state
  <2>2. r.pc = "creating" /\ r.sp = sp
    BY DEF Begun, Idle
  <2> HIDE DEF r
  <2>3. ASSUME Synced(sp), NEW n, n = r PROVE Fits(n)'
    BY <1>b, <2>1, <2>2, <2>3 DEF Fits
  <2> QED BY <1>a, <2>1, <2>2, <2>3, StartFollows
<1>2. CASE SwitchKernel(x, t, sp)
  <2> DEFINE r == [Begun(t, sp, "switching") EXCEPT !.held = db[sp]]
  <2>1. /\ UNCHANGED <<engine, db>> /\ th' = [th EXCEPT ![x] = r]
        /\ At(x, "idle") /\ Overlap(x, r.sp) /\ sp \in DOMAIN db
    BY <1>2 DEF SwitchKernel, Request, Start, Owned
  <2>2. r.pc = "switching" /\ r.sp = sp
    BY DEF Begun, Idle
  <2> HIDE DEF r
  <2>3. ASSUME Synced(sp), NEW n, n = r PROVE Fits(n)'
    BY <1>b, <2>1, <2>2, <2>3 DEF Fits
  <2> QED BY <1>a, <2>1, <2>2, <2>3, StartFollows
<1>3. ASSUME NEW status \in {"paused", "running", "archived"}, SetStatus(x, t, sp, status)
      PROVE  Follows'
  <2> DEFINE r == [Begun(t, sp, "telling") EXCEPT !.answer = [status |-> status]]
             rec == Put(db[sp], "status", status)
  <2>1. /\ UNCHANGED engine /\ th' = [th EXCEPT ![x] = r] /\ db' = [db EXCEPT ![sp] = rec]
        /\ At(x, "idle") /\ Overlap(x, r.sp) /\ sp \in DOMAIN db
    BY <1>3 DEF SetStatus, Request, Start, Owned
  <2>2. r.pc = "telling" /\ r.sp = sp /\ r.answer.status = status
    BY DEF Begun, Idle
  <2>3. Status(rec) = status
    BY StatusPut
  <2> HIDE DEF r, rec
  <2>4. sp \in DOMAIN db' /\ db'[sp] = rec
    BY <2>1
  <2>5. ASSUME NEW n, n = r PROVE Fits(n)'
    BY <2>2, <2>3, <2>4, <2>5 DEF Fits
  <2> QED BY <1>c, <2>1, <2>2, <2>5, StartFollows
<1>4. ASSUME NEW ttl \in Lifetimes, Renew(x, t, sp, ttl)
      PROVE  Follows'
  <2> DEFINE r == [Begun(t, sp, "telling") EXCEPT !.answer = [status |-> "running"]]
             rec == Put(Put(db[sp], "ttl", ttl), "status", "running")
  <2>1. /\ UNCHANGED engine /\ th' = [th EXCEPT ![x] = r] /\ db' = [db EXCEPT ![sp] = rec]
        /\ At(x, "idle") /\ Overlap(x, r.sp) /\ sp \in DOMAIN db
    BY <1>4 DEF Renew, Request, Start, Owned
  <2>2. r.pc = "telling" /\ r.sp = sp /\ r.answer.status = "running"
    BY DEF Begun, Idle
  <2>3. Status(rec) = "running"
    BY StatusPut
  <2> HIDE DEF r, rec
  <2>4. sp \in DOMAIN db' /\ db'[sp] = rec
    BY <2>1
  <2>5. ASSUME NEW n, n = r PROVE Fits(n)'
    BY <2>2, <2>3, <2>4, <2>5 DEF Fits
  <2> QED BY <1>c, <2>1, <2>2, <2>5, StartFollows
<1>5. CASE Shutdown(x, t, sp)
  <2> DEFINE r == [Begun(t, sp, "pausing") EXCEPT !.answer = [status |-> "shutdown"]]
  <2>1. /\ UNCHANGED <<engine, db>> /\ th' = [th EXCEPT ![x] = r]
        /\ At(x, "idle") /\ Overlap(x, r.sp) /\ sp \in DOMAIN db
    BY <1>5 DEF Shutdown, Request, Start, Owned, state
  <2>2. r.pc = "pausing" /\ r.sp = sp /\ r.answer.status = "shutdown" /\ r.live = TRUE
    BY DEF Begun, Idle
  <2> HIDE DEF r
  <2>3. ASSUME Synced(sp), NEW n, n = r PROVE Fits(n)'
    BY <1>b, <2>1, <2>2, <2>3 DEF Fits, Halted
  <2> QED BY <1>a, <2>1, <2>2, <2>3, StartFollows
<1>6. CASE DeleteKernel(x, t, sp)
  <2> DEFINE r == Begun(t, sp, "dropping")
  <2>1. /\ UNCHANGED engine /\ th' = [th EXCEPT ![x] = r]
        /\ db' = [other \in DOMAIN db \ {sp} |-> db[other]]
        /\ At(x, "idle") /\ Overlap(x, r.sp)
    BY <1>6 DEF DeleteKernel, Request, Start
  <2>2. r.pc = "dropping" /\ r.sp = sp
    BY DEF Begun, Idle
  <2> HIDE DEF r
  <2>3. sp \notin DOMAIN db' /\ \A o \in Space : o # sp => Same(o)
    BY <2>1 DEF Same
  <2>4. ASSUME NEW n, n = r PROVE Fits(n)'
    BY <2>2, <2>3, <2>4 DEF Fits
  <2> QED BY <2>1, <2>2, <2>3, <2>4, StartFollows
<1> QED BY <1>1, <1>2, <1>3, <1>4, <1>5, <1>6 DEF Arrive

\* Nothing that Synced speaks of changes, nor does any request.
LEMMA AllStay ==
  ASSUME Follows, UNCHANGED <<th, disturbed>>, \A o \in Space : Same(o)
  PROVE  Follows'
<1>1. ASSUME NEW o \in Space \ disturbed PROVE Follow(o)'
  <2>1. Follow(o) /\ Same(o) /\ \A y \in Thread : Alike(th'[y], th[y])
    BY DEF Follows, Alike
  <2> QED BY <2>1, FollowStays
<1> QED BY <1>1 DEF Follows

\* The requests that are no tenant's, and those that never wait for the engine.
LEMMA LocalFollows ==
  ASSUME TypesHold, Follows,
         \/ \E x \in Thread : Reconcile(x) \/ \E sp \in Space : Rehydrate(x, sp)
         \/ List
         \/ \E x \in Thread, t \in Tenant, sp \in Space : ExpireIfDue(x, t, sp)
         \/ \E t \in Tenant, sp \in Space, ttl \in Lifetimes : Extend(t, sp, ttl)
         \/ \E t \in Tenant, p \in Provider : Write(t, p) \/ \E sp \in Space : WriteToNew(t, p, sp)
         \/ \E t \in Tenant : CreateTenant(t) \/ SwitchTenant(t) \/ DeleteTenant(t)
  PROVE  Follows'
<1>0. MapsHold /\ RequestsHold /\ TenantsHold
  BY DEF TypesHold
<1>a. ASSUME UNCHANGED <<engine, db>>
      PROVE  /\ \A o \in Space : Same(o)
             /\ \A o \in Space : Synced(o) => Synced(o)'
  <2>1. \A o \in Space : Same(o)
    BY <1>a DEF Same
  <2> QED BY <2>1, SameSynced
<1>1. ASSUME NEW x \in Thread, Reconcile(x) PROVE Follows'
  <2> DEFINE r == Begun(activeTenant, active, "syncing")
  <2>1. /\ UNCHANGED <<engine, db>> /\ th' = [th EXCEPT ![x] = r]
        /\ At(x, "idle") /\ Overlap(x, r.sp)
    BY <1>1 DEF Reconcile, Start, state
  <2>2. active \in Space
    BY <1>0, <1>1 DEF Reconcile, TenantsHold, MapsHold
  <2>3. r.pc = "syncing" /\ r.sp = active
    BY DEF Begun, Idle
  <2> HIDE DEF r
  <2>4. ASSUME Synced(r.sp), NEW n, n = r PROVE Fits(n)'
    <3>1. ASSUME NEW o, o = active PROVE Synced(o)'
      BY <1>a, <2>1, <2>2, <2>3, <2>4, <3>1
    <3> QED BY <2>3, <2>4, <3>1 DEF Fits
  <2> QED BY <1>a, <2>1, <2>2, <2>3, <2>4, StartFollows
<1>2. CASE List
  <2>1. /\ DOMAIN db' = DOMAIN db /\ \A o \in DOMAIN db : db'[o] = Stamped(db[o])
        /\ UNCHANGED <<engine, th, disturbed>>
    BY <1>2 DEF List
  <2>2. ASSUME NEW rec PROVE Status(Stamped(rec)) = Status(rec) /\ (IsAuto(Stamped(rec)) <=> IsAuto(rec))
    BY StatusPut DEF Stamped
  <2>3. \A o \in Space : Same(o)
    BY <2>1, <2>2 DEF Same
  <2> QED BY <2>1, <2>3, AllStay
<1>3. ASSUME NEW x \in Thread, NEW t \in Tenant, NEW sp \in Space, ExpireIfDue(x, t, sp)
      PROVE  Follows'
  <2> DEFINE r == [Begun(t, sp, "pausing") EXCEPT !.answer = [status |-> "expired"]]
  <2>1. /\ UNCHANGED <<engine, db>> /\ th' = [th EXCEPT ![x] = r]
        /\ At(x, "idle") /\ Overlap(x, sp) /\ sp \in DOMAIN db
    BY <1>3 DEF ExpireIfDue, Owned, state
  <2>2. r.pc = "pausing" /\ r.sp = sp /\ r.answer.status = "expired" /\ r.live = TRUE
    BY DEF Begun, Idle
  <2> HIDE DEF r
  <2>3. ASSUME Synced(sp), NEW n, n = r PROVE Fits(n)'
    BY <1>a, <2>1, <2>2, <2>3 DEF Fits, Halted
  <2> QED BY <1>a, <2>1, <2>2, <2>3, StartFollows
<1>4. ASSUME NEW t \in Tenant, NEW sp \in Space, NEW ttl \in Lifetimes, Extend(t, sp, ttl)
      PROVE  Follows'
  <2> DEFINE rec == Put(db[sp], "ttl", ttl)
  <2>1. db' = [db EXCEPT ![sp] = rec] /\ UNCHANGED <<engine, th, disturbed>>
    BY <1>4 DEF Extend
  <2>2. Status(rec) = Status(db[sp]) /\ (IsAuto(rec) <=> IsAuto(db[sp]))
    BY StatusPut
  <2> HIDE DEF rec
  <2>3. \A o \in Space : Same(o)
    BY <2>1, <2>2 DEF Same
  <2> QED BY <2>1, <2>3, AllStay
<1>5. ASSUME NEW t \in Tenant, NEW p \in Provider, Write(t, p) PROVE Follows'
  <2>1. PICK sp \in Home(t, p) : db' = [db EXCEPT ![sp] = Put(db[sp], "contents", TRUE)]
    BY <1>5 DEF Write, Store
  <2>2. UNCHANGED <<engine, th, disturbed>>
    BY <1>5 DEF Write
  <2> DEFINE rec == Put(db[sp], "contents", TRUE)
  <2>3. Status(rec) = Status(db[sp]) /\ (IsAuto(rec) <=> IsAuto(db[sp]))
    BY DEF Put, Status, Get, IsAuto
  <2>4. db' = [db EXCEPT ![sp] = rec]
    BY <2>1
  <2> HIDE DEF rec
  <2>5. \A o \in Space : Same(o)
    BY <2>2, <2>3, <2>4 DEF Same
  <2> QED BY <2>2, <2>5, AllStay
<1>6. ASSUME NEW t \in Tenant, NEW p \in Provider, NEW sp \in Space, WriteToNew(t, p, sp)
      PROVE  Follows'
  <2> DEFINE rec == Store(AutoSpace(p, t))
  <2>1. db' = Put(db, sp, rec) /\ UNCHANGED <<engine, th, disturbed>>
    BY <1>6 DEF WriteToNew
  <2>2. sp \notin DOMAIN engine /\ \A y \in Thread : th[y].sp # sp
    BY <1>6 DEF WriteToNew, Fresh, Used
  <2>3. Status(rec) = "" /\ IsAuto(rec)
    <3>1. Status(AutoSpace(p, t)) = "" /\ IsAuto(AutoSpace(p, t))
      BY DEF AutoSpace, Status, Get, IsAuto
    <3> QED BY <3>1, StatusPut DEF Store
  <2> HIDE DEF rec
  <2>4. sp \in DOMAIN db' /\ db'[sp] = rec
    BY <2>1 DEF Put
  <2>5. Mode("") = "running"
    BY DEF Mode, Halted
  <2>6. Synced(sp)'
    BY <2>1, <2>2, <2>3, <2>4, <2>5 DEF Synced, Has
  <2>7. ASSUME NEW o \in Space \ disturbed PROVE Follow(o)'
    <3>1. CASE o = sp
      BY <2>1, <2>2, <2>6, <3>1 DEF Follow
    <3>2. CASE o # sp
      <4>1. Same(o)
        BY <2>1, <3>2 DEF Same, Put
      <4>2. Follow(o) /\ \A y \in Thread : Alike(th'[y], th[y])
        BY <2>1, <2>7 DEF Follows, Alike
      <4> QED BY <4>1, <4>2, FollowStays
    <3> QED BY <3>1, <3>2
  <2> QED BY <2>1, <2>7 DEF Follows
<1>7. ASSUME NEW t \in Tenant, CreateTenant(t) \/ SwitchTenant(t) \/ DeleteTenant(t)
      PROVE  Follows'
  <2>1. UNCHANGED <<engine, db, th, disturbed>>
    BY <1>7 DEF CreateTenant, SwitchTenant, DeleteTenant
  <2> QED BY <1>a, <2>1, AllStay
<1>8. ASSUME NEW x \in Thread, NEW sp \in Space, Rehydrate(x, sp) PROVE Follows'
  <2> DEFINE r == [Begun(activeTenant, sp, "pushing") EXCEPT !.held = db[sp]]
  <2>1. /\ UNCHANGED <<engine, db>> /\ th' = [th EXCEPT ![x] = r]
        /\ At(x, "idle") /\ Overlap(x, r.sp) /\ sp \in DOMAIN db
    BY <1>8 DEF Rehydrate, Start, state
  <2>2. r.pc = "pushing" /\ r.sp = sp /\ r.live = TRUE
    BY DEF Begun, Idle
  <2> HIDE DEF r
  <2>3. ASSUME Synced(sp), NEW n, n = r PROVE Fits(n)'
    BY <1>a, <2>1, <2>2, <2>3 DEF Fits
  <2> QED BY <1>a, <2>1, <2>2, <2>3, StartFollows
<1> QED BY <1>1, <1>2, <1>3, <1>4, <1>5, <1>6, <1>7, <1>8

\* Time and restarts: a push that fails disturbs the space, and so does a request cut short.
LEMMA OtherFollows ==
  ASSUME TypesHold, Follows, (\E sp \in Space : DeadlinePasses(sp)) \/ Restart \/ EngineRestarts
  PROVE  Follows'
<1>0. MapsHold /\ RequestsHold
  BY DEF TypesHold
<1>1. ASSUME NEW sp \in Space, DeadlinePasses(sp) PROVE Follows'
  <2>1. ASSUME NEW rec, NEW new \in {rec, Aged(rec)}
        PROVE  /\ Status(new) = Status(rec) /\ (IsAuto(new) <=> IsAuto(rec))
               /\ "status" \in DOMAIN rec => new["status"] = rec["status"]
    BY AgedKeys DEF Status, Get, IsAuto
  <2>2. ASSUME NEW o \in Space PROVE Same(o)
    <3>1. o \in DOMAIN db => db'[o] \in {db[o], Aged(db[o])}
      BY <1>1, DeadlineAges
    <3>2. o \in DOMAIN engine => engine'[o] \in {engine[o], Aged(engine[o])} /\ "status" \in DOMAIN engine[o]
      BY <1>0, <1>1, DeadlineAges DEF MapsHold, Known
    <3>3. DOMAIN db' = DOMAIN db /\ DOMAIN engine' = DOMAIN engine
      BY <1>1, DeadlineAges
    <3> QED BY <2>1, <3>1, <3>2, <3>3 DEF Same
  <2>3. ASSUME NEW y \in Thread PROVE Alike(th'[y], th[y])
    <3>1. /\ th'[y].pc = th[y].pc /\ th'[y].sp = th[y].sp /\ th'[y].live = th[y].live
          /\ th'[y].answer \in {th[y].answer, Aged(th[y].answer)}
      BY <1>1, DeadlineAges
    <3>2. th[y].pc \in {"merging", "telling", "pausing", "marking"} => "status" \in DOMAIN th[y].answer
      BY <1>0 DEF RequestsHold, WellFormed, Known
    <3> QED BY <2>1, <3>1, <3>2 DEF Alike
  <2>4. ASSUME NEW o \in Space \ disturbed PROVE Follow(o)'
    <3>1. Follow(o) /\ Same(o)
      BY <2>2, <2>4 DEF Follows
    <3> QED BY <2>3, <3>1, FollowStays
  <2>5. UNCHANGED disturbed
    BY <1>1, DeadlineAges
  <2> QED BY <2>4, <2>5 DEF Follows
<1>2. CASE Restart
  <2>1. DOMAIN th' = Thread /\ \A y \in Thread : th'[y].sp = NoSpace
    BY <1>2, IdleForm DEF Restart
  <2>2. disturbed \cup ({th[x].sp : x \in Thread} \ {NoSpace}) \subseteq disturbed'
    BY <1>2 DEF Restart
  <2>3. ASSUME NEW o \in Space, o \notin disturbed' PROVE Synced(o)'
    <3>1. Synced(o)
      BY <2>2, <2>3, NoSpaceAssumption DEF Follows, Follow
    <3>2. /\ DOMAIN db' = DOMAIN db
          /\ o \in DOMAIN db => Status(db'[o]) = Status(db[o]) /\ (IsAuto(db'[o]) <=> IsAuto(db[o]))
      <4>1. \A i \in DOMAIN db : db'[i] = Put(db[i], "tenant", Owner(db[i]))
        BY <1>0, <1>2, Restarted
      <4>2. ASSUME NEW rec, NEW t
            PROVE  /\ Status(Put(rec, "tenant", t)) = Status(rec)
                   /\ IsAuto(Put(rec, "tenant", t)) <=> IsAuto(rec)
        BY DEF Put, Status, Get, IsAuto
      <4> QED BY <1>0, <1>2, <4>1, <4>2, Restarted
    <3>3. CASE UNCHANGED engine
      <4>1. Same(o)
        BY <3>2, <3>3 DEF Same
      <4> QED BY <3>1, <4>1, SameSynced
    <3>4. CASE engine' # engine
      <4>1. PICK pushed \in SUBSET DOMAIN db :
                 /\ DOMAIN engine' = DOMAIN engine \cup pushed
                 /\ \A i \in DOMAIN engine \ pushed : engine'[i] = engine[i]
                 /\ \A i \in pushed :
                      engine'[i] = Overlay(db'[i], IF Has(i) THEN engine[i] ELSE Bare)
                 /\ DOMAIN db \ pushed \subseteq disturbed'
        BY <1>0, <1>2, <3>4, Restarted
      <4>2. CASE o \notin pushed
        <5>1. Same(o)
          BY <2>3, <3>2, <4>1, <4>2 DEF Same
        <5> QED BY <3>1, <5>1, SameSynced
      <4>3. CASE o \in pushed
        <5> DEFINE below == IF Has(o) THEN engine[o] ELSE Bare
                   mine == db'[o]
        <5>1. "status" \in DOMAIN below
              /\ below["status"] = IF Has(o) THEN engine[o]["status"] ELSE "running"
          BY <1>0 DEF Bare, Has, MapsHold, Known
        <5>2. engine'[o] = Overlay(mine, below) /\ o \in DOMAIN engine' /\ o \in DOMAIN db
          BY <4>1, <4>3
        <5>3. Status(mine) = Status(db[o]) /\ (IsAuto(mine) <=> IsAuto(db[o]))
          BY <3>2, <5>2
        <5> HIDE DEF below, mine
        <5>4. engine'[o]["status"] = IF "status" \in DOMAIN mine THEN mine["status"] ELSE below["status"]
          BY <5>1, <5>2 DEF Overlay
        <5>5. Status(mine) = IF "status" \in DOMAIN mine THEN mine["status"] ELSE ""
          BY DEF Status, Get
        <5>6. Mode("") = "running" /\ Mode("running") = "running"
          BY DEF Mode, Halted
        <5>7. Mode(engine'[o]["status"]) = Mode(Status(mine))
          <6>1. CASE "status" \in DOMAIN mine
            BY <5>4, <5>5, <6>1
          <6>2. CASE "status" \notin DOMAIN mine
            <7>1. engine'[o]["status"] = below["status"] /\ Status(mine) = ""
              BY <5>4, <5>5, <6>2
            <7>2. Mode(below["status"]) = "running"
              BY <3>1, <5>1, <5>3, <5>6, <7>1 DEF Synced
            <7> QED BY <5>6, <7>1, <7>2
          <6> QED BY <6>1, <6>2
        <5> QED BY <3>2, <5>2, <5>7 DEF Synced, Has, mine
      <4> QED BY <4>2, <4>3
    <3> QED BY <3>3, <3>4
  <2> QED BY <2>1, <2>3, NoSpaceAssumption DEF Follows, Follow
<1>3. CASE EngineRestarts
  <2>1. /\ UNCHANGED <<db, th>> /\ DOMAIN engine' = {}
        /\ disturbed' = disturbed \cup DOMAIN engine
    BY <1>3 DEF EngineRestarts, RestartEmpty, NoSpaces, state
  <2>2. ASSUME NEW o \in Space \ disturbed' PROVE Follow(o)'
    <3>1. Same(o) /\ Follow(o)
      BY <2>1, <2>2 DEF Same, Follows
    <3>2. \A y \in Thread : Alike(th'[y], th[y])
      BY <2>1 DEF Alike
    <3> QED BY <3>1, <3>2, FollowStays
  <2> QED BY <2>2 DEF Follows
<1> QED BY <1>1, <1>2, <1>3

\* The spaces made before the start are in step.
LEMMA InitFollows == Init => Follows
<1> SUFFICES ASSUME Init PROVE Follows
  OBVIOUS
<1>1. PICK made \in {{}, Made}, owner \in [Made -> Tenant] :
        /\ engine = [sp \in made |-> NewSpace(DefaultProvider, "running")]
        /\ db = [sp \in made |-> Put(engine[sp], "tenant", owner[sp])]
  BY DEF Init
<1>2. ASSUME NEW sp \in made PROVE engine[sp].status = "running" /\ Status(db[sp]) = "running"
  <2>1. engine[sp].status = "running" /\ Status(engine[sp]) = "running"
    BY <1>1 DEF NewSpace, Status, Get
  <2>2. db[sp] = Put(engine[sp], "tenant", owner[sp])
    BY <1>1
  <2>3. ASSUME NEW rec, NEW t PROVE Status(Put(rec, "tenant", t)) = Status(rec)
    BY DEF Put, Status, Get
  <2> QED BY <2>1, <2>2, <2>3
<1>3. DOMAIN engine = made /\ DOMAIN db = made
  BY <1>1
<1>4. ASSUME NEW sp \in Space PROVE Synced(sp)
  BY <1>2, <1>3 DEF Synced, Has
<1>5. \A y \in Thread : th[y].sp = NoSpace
  BY IdleForm DEF Init
<1> QED BY <1>4, <1>5, NoSpaceAssumption DEF Follows, Follow

\* Every step keeps the spaces in step that nothing disturbed.
LEMMA NextFollows == TypesHold /\ Follows /\ [Next]_vars => Follows'
<1> SUFFICES ASSUME TypesHold, Follows, [Next]_vars PROVE Follows'
  OBVIOUS
<1>1. CASE UNCHANGED vars
  <2>1. UNCHANGED <<th, disturbed>> /\ \A o \in Space : Same(o)
    BY <1>1 DEF vars, state, Same
  <2> QED BY <2>1, AllStay
<1>2. ASSUME NEW x \in Thread, Step(x) PROVE Follows'
  <2>1. ASSUME NEW o \in Space, o \notin disturbed' PROVE Follow(o)'
    <3>1. disturbed \subseteq disturbed'
      BY <1>2 DEF Step, CreateRefused, CreateKernel, CreateUpsert, CreateWriteBack, CreateTag,
           SwitchEngine, SwitchMerge, SyncLook, SyncPost, Tell, DeleteEngine, StopEngine, StopMark, Push,
           Told, Fails
    <3>2. Follow(o)
      BY <2>1, <3>1 DEF Follows
    <3>3. CASE o = th[x].sp
      BY <1>2, <2>1, <3>2, <3>3, StepFollows
    <3>4. CASE o # th[x].sp
      <4>1. Same(o) /\ \A y \in Thread : th[y].sp = o \/ th'[y].sp = o => Alike(th'[y], th[y])
        BY <1>2, <3>4, StepIsLocal
      <4> QED BY <3>2, <4>1, FollowStays
    <3> QED BY <3>3, <3>4
  <2> QED BY <2>1 DEF Follows
<1>3. CASE Next
  BY <1>2, <1>3, ArriveFollows, LocalFollows, OtherFollows DEF Next
<1> QED BY <1>1, <1>3

\* The engine holds and runs what the database says as long as requests do not overlap
\* and no call of the engine is missed: for any number of spaces, tenants and threads,
\* and across restarts of the appliance.
THEOREM EngineKeepsUp == Spec => []EngineFollows
<1>1. Init => TypesHold /\ Follows
  BY InitTypes, InitFollows
<1>2. TypesHold /\ Follows /\ [Next]_vars => (TypesHold /\ Follows)'
  BY NextTypes, NextFollows
<1> QED BY <1>1, <1>2, FollowsIsEngineFollows, PTL DEF Spec

-----------------------------------------------------------------------------
(* What is stored in a space stays there                                   *)

Kept(new, old) == new["contents"] = old["contents"] \/ new["contents"] = TRUE

\* The steps of a request that is not creating the space: the merge keeps the contents.
LEMMA StepKeeps ==
  ASSUME TypesHold, NEW x \in Thread, Step(x), NEW sp \in DOMAIN db, sp \in DOMAIN db', ~Creating(sp)
  PROVE  Kept(db'[sp], db[sp])
<1>0. MapsHold /\ WellFormed(th[x]) /\ sp \in Space /\ "contents" \in DOMAIN db[sp]
  BY DEF TypesHold, RequestsHold, MapsHold, Stored
<1>1. CASE CreateKernel(x) \/ CreateWriteBack(x)
  <2>1. th[x].sp # sp
    BY <1>1 DEF CreateKernel, CreateWriteBack, At, Creating
  <2>2. db'[sp] = db[sp]
    BY <1>1, <2>1 DEF CreateKernel, CreateWriteBack, Put
  <2> QED BY <2>2 DEF Kept
<1>2. CASE CreateTag(x)
  <2> DEFINE rec == Put(db[th[x].sp], "tenant", th[x].tid)
  <2>1. th[x].sp = sp => rec["contents"] = db[sp]["contents"]
    BY <1>0 DEF Put
  <2>2. db' = db \/ db' = [db EXCEPT ![th[x].sp] = rec]
    BY <1>2 DEF CreateTag
  <2> HIDE DEF rec
  <2> QED BY <2>1, <2>2 DEF Kept
<1>3. CASE SwitchMerge(x)
  <2> DEFINE o == th[x].sp
             local == IF o \in DOMAIN db THEN db[o] ELSE th[x].held
             rec == Merge(local, th[x].answer)
  <2>1. db' = Put(db, o, rec) /\ th[x].pc = "merging"
    BY <1>3 DEF SwitchMerge, At
  <2>2. Stored(local) /\ Known(th[x].answer)
    BY <1>0, <2>1 DEF MapsHold, WellFormed
  <2>3. rec["contents"] = local["contents"]
    <3> HIDE DEF local
    <3> QED BY <2>2, Merged
  <2>4. sp = o => local = db[sp]
    OBVIOUS
  <2> HIDE DEF rec, local
  <2>5. db'[sp] = IF sp = o THEN rec ELSE db[sp]
    BY <2>1 DEF Put
  <2> QED BY <2>3, <2>4, <2>5 DEF Kept
<1>4. CASE StopMark(x)
  <2> DEFINE rec == Put(db[th[x].sp], "status", th[x].answer.status)
  <2>1. th[x].sp = sp => rec["contents"] = db[sp]["contents"]
    BY <1>0 DEF Put
  <2>2. db' = db \/ db' = [db EXCEPT ![th[x].sp] = rec]
    BY <1>4 DEF StopMark
  <2> HIDE DEF rec
  <2> QED BY <2>1, <2>2 DEF Kept
<1>5. CASE UNCHANGED db
  BY <1>5 DEF Kept
<1> QED
  BY <1>1, <1>2, <1>3, <1>4, <1>5
  DEF Step, CreateRefused, CreateUpsert, SwitchEngine, SyncLook, SyncPost, Tell, DeleteEngine,
      StopEngine, Push, state

\* Everything else that changes a space that exists sets its tenant, its status or its
\* lifetime, or stores something in it.
LEMMA OtherKeep ==
  ASSUME TypesHold, Next, ~(\E x \in Thread : Step(x)), NEW sp \in DOMAIN db, sp \in DOMAIN db'
  PROVE  Kept(db'[sp], db[sp])
<1>0. MapsHold /\ "contents" \in DOMAIN db[sp]
  BY DEF TypesHold, MapsHold, Stored
<1>a. ASSUME NEW o, NEW rec, db' = [db EXCEPT ![o] = rec], o = sp => Kept(rec, db[sp])
      PROVE  Kept(db'[sp], db[sp])
  BY <1>a DEF Kept
<1>1. ASSUME NEW x \in Thread, NEW t \in Tenant, NEW o \in Space, Arrive(x, t, o)
      PROVE  Kept(db'[sp], db[sp])
  <2>1. CASE UNCHANGED db
    BY <2>1 DEF Kept
  <2>2. ASSUME NEW status, SetStatus(x, t, o, status) PROVE Kept(db'[sp], db[sp])
    <3> DEFINE rec == Put(db[o], "status", status)
    <3>1. db' = [db EXCEPT ![o] = rec]
      BY <2>2 DEF SetStatus
    <3>2. o = sp => rec["contents"] = db[sp]["contents"]
      BY <1>0 DEF Put
    <3> HIDE DEF rec
    <3> QED BY <1>a, <3>1, <3>2 DEF Kept
  <2>3. ASSUME NEW ttl, Renew(x, t, o, ttl) PROVE Kept(db'[sp], db[sp])
    <3> DEFINE rec == Put(Put(db[o], "ttl", ttl), "status", "running")
    <3>1. db' = [db EXCEPT ![o] = rec]
      BY <2>3 DEF Renew
    <3>2. o = sp => rec["contents"] = db[sp]["contents"]
      BY <1>0 DEF Put
    <3> HIDE DEF rec
    <3> QED BY <1>a, <3>1, <3>2 DEF Kept
  <2>4. CASE DeleteKernel(x, t, o)
    BY <2>4 DEF DeleteKernel, Kept
  <2> QED BY <1>1, <2>1, <2>2, <2>3, <2>4 DEF Arrive, CreateCheck, SwitchKernel, Shutdown, state
<1>2. CASE List
  <2>1. Stamped(db[sp])["contents"] = db[sp]["contents"]
    BY <1>0 DEF Stamped, Put
  <2> QED BY <1>2, <2>1 DEF List, Kept
<1>3. ASSUME NEW t \in Tenant, NEW o \in Space, NEW ttl \in Lifetimes, Extend(t, o, ttl)
      PROVE  Kept(db'[sp], db[sp])
  <2> DEFINE rec == Put(db[o], "ttl", ttl)
  <2>1. db' = [db EXCEPT ![o] = rec]
    BY <1>3 DEF Extend
  <2>2. o = sp => rec["contents"] = db[sp]["contents"]
    BY <1>0 DEF Put
  <2> HIDE DEF rec
  <2> QED BY <1>a, <2>1, <2>2 DEF Kept
<1>4. ASSUME NEW t \in Tenant, NEW p \in Provider, Write(t, p) PROVE Kept(db'[sp], db[sp])
  <2>1. PICK o \in Home(t, p) : db' = [db EXCEPT ![o] = Put(db[o], "contents", TRUE)]
    BY <1>4 DEF Write, Store
  <2> DEFINE rec == Put(db[o], "contents", TRUE)
  <2>2. db' = [db EXCEPT ![o] = rec] /\ rec["contents"] = TRUE
    BY <2>1 DEF Put
  <2> HIDE DEF rec
  <2> QED BY <1>a, <2>2 DEF Kept
<1>5. ASSUME NEW t \in Tenant, NEW p \in Provider, NEW o \in Space, WriteToNew(t, p, o)
      PROVE  Kept(db'[sp], db[sp])
  <2>1. db' = Put(db, o, Store(AutoSpace(p, t))) /\ o # sp
    BY <1>5 DEF WriteToNew, Fresh, Used
  <2>2. db'[sp] = db[sp]
    BY <2>1 DEF Put
  <2> QED BY <2>2 DEF Kept
<1>6. ASSUME NEW o \in Space, DeadlinePasses(o) PROVE Kept(db'[sp], db[sp])
  <2>1. db'[sp] \in {db[sp], Aged(db[sp])}
    BY <1>6, DeadlineAges
  <2> QED BY <1>0, <2>1, AgedKeys DEF Kept
<1>7. CASE Restart
  <2>1. db'[sp] = Put(db[sp], "tenant", Owner(db[sp]))
    BY <1>0, <1>7, Restarted
  <2>2. Put(db[sp], "tenant", Owner(db[sp]))["contents"] = db[sp]["contents"]
    BY <1>0 DEF Put
  <2> QED BY <2>1, <2>2 DEF Kept
<1>8. CASE UNCHANGED db
  BY <1>8 DEF Kept
<1> QED
  BY <1>1, <1>2, <1>3, <1>4, <1>5, <1>6, <1>7, <1>8
  DEF Next, Reconcile, Rehydrate, ExpireIfDue, CreateTenant, SwitchTenant, DeleteTenant, EngineRestarts, state

\* No switch, pause, renewal, stop, deadline or restart takes away what the simulated
\* services stored in a space, whatever the interleaving: only its own creation does.
THEOREM ContentsAreKept == Spec => ContentsSurvive
<1> DEFINE Survive == \A sp \in DOMAIN db \cap DOMAIN db' :
                        Creating(sp) \/ (db[sp].contents => db'[sp].contents)
<1>1. TypesHold /\ [Next]_vars => [Survive]_vars
  <2> SUFFICES ASSUME TypesHold, Next PROVE Survive
    OBVIOUS
  <2>1. ASSUME NEW sp \in DOMAIN db, sp \in DOMAIN db', ~Creating(sp), db[sp].contents
        PROVE  db'[sp].contents
    <3>1. Kept(db'[sp], db[sp])
      BY <2>1, StepKeeps, OtherKeep
    <3> QED BY <2>1, <3>1 DEF Kept
  <2> QED BY <2>1
<1> QED BY <1>1, InitTypes, NextTypes, PTL DEF Spec, ContentsSurvive
=============================================================================
