-------------------------- MODULE NanoSync_proofs --------------------------
(***************************************************************************)
(* Proofs about NanoSync for any tabs, relay workers, keys and bounds.     *)
(***************************************************************************)
EXTENDS NanoSync, Integers, TLAPS

(***************************************************************************)
(* Types.  The records of a queue of calls and of the requests have to be  *)
(* known exactly, because their fields are what the steps go by.           *)
(***************************************************************************)
Request == [at : Ctx, op : Kinds, key : Key, version : Op, phase : Phases]
NoRequest == [phase |-> "none"]

\* A call is only ever made for a request that has arrived.
Asked(i) == req[i].phase # "none"
KnownCall == {q \in Call : q.who \in Op => Asked(q.who)}
KnownResult == {g \in Result : g.who \in Op => Asked(g.who)}

TypesHold ==
  /\ shared \in Snapshot
  /\ ctx \in [Ctx -> Copy]
  /\ idb \in [Ctx -> Seq(KnownCall)]
  /\ got \in [Ctx -> Seq(KnownResult)]
  /\ restoring \in [Ctx -> BOOLEAN] /\ timer \in [Ctx -> BOOLEAN] /\ up \in [Ctx -> BOOLEAN]
  /\ inbox \in [Ctx -> Nat]
  /\ edits \in [Ctx -> SUBSET Key] /\ fresh \in [Ctx -> BOOLEAN] /\ seen \subseteq Nat
  /\ ops \in 0..MaxOps
  /\ req \in [Op -> Request \cup {NoRequest}]
  /\ \A i \in Op : Asked(i) => req[i] \in Request /\ i <= ops /\ req[i].version = i

LEMMA Appended ==
  ASSUME NEW S, NEW s \in Seq(S), NEW e \in S
  PROVE  /\ Append(s, e) \in Seq(S) /\ Len(Append(s, e)) = Len(s) + 1
         /\ \A n \in 1..Len(s) : Append(s, e)[n] = s[n]
         /\ Append(s, e)[Len(s) + 1] = e
OBVIOUS

LEMMA Shortened ==
  ASSUME NEW S, NEW s \in Seq(S), s # <<>>
  PROVE  /\ Len(s) \in Nat /\ Len(s) > 0 /\ Head(s) = s[1] /\ s[1] \in S
         /\ Tail(s) \in Seq(S) /\ Len(Tail(s)) = Len(s) - 1
         /\ \A n \in 1..Len(s) - 1 : Tail(s)[n] = s[n + 1]
OBVIOUS

LEMMA RestoredTyped ==
  ASSUME NEW s \in Copy, NEW snap \in Snapshot
  PROVE  Restored(s, snap) \in Copy
BY NanoBounds DEF Restored, Copy, Snapshot, Store, Present

LEMMA DispatchedTyped ==
  ASSUME NEW s \in Copy, NEW r \in Request
  PROVE  Dispatched(s, r) \in Copy
<1>1. r.key \in Key /\ r.version \in 0..MaxOps /\ r.op \in Kinds /\ 0 \in 0..MaxOps
  BY NanoBounds DEF Request, Op
<1>2. ASSUME NEW v \in 0..MaxOps PROVE [s EXCEPT !.local[r.key] = v] \in Copy
  BY <1>1 DEF Copy, Store
<1> QED BY <1>1, <1>2 DEF Dispatched, Kinds

LEMMA MarkSavedTyped ==
  ASSUME NEW s \in Copy
  PROVE  MarkSaved(s) \in Copy
BY DEF MarkSaved, Copy, Snapshot, Present

LEMMA GetTyped ==
  ASSUME NEW who \in Who
  PROVE  Get(who) \in Call /\ Get(who).who = who /\ ~IsPut(Get(who))
BY DEF Get, Call, Who, IsPut

LEMMA PutTyped ==
  ASSUME NEW who \in Who, who # Boot, NEW s \in Store, NEW ks \in SUBSET Key, NEW f \in BOOLEAN
  PROVE  /\ Put(who, s, ks, f) \in Call /\ IsPut(Put(who, s, ks, f))
         /\ Put(who, s, ks, f).who = who /\ Put(who, s, ks, f).snap = s
         /\ Put(who, s, ks, f).edits = ks /\ Put(who, s, ks, f).fresh = f
BY DEF Put, Call, IsPut

LEMMA ReadTyped ==
  ASSUME NEW who \in Who, NEW s \in Snapshot
  PROVE  /\ Read(who, s) \in Result /\ Read(who, s).who = who /\ ~IsPut(Read(who, s))
         /\ Read(who, s).snap = s /\ Read(who, s).now = TRUE
BY DEF Read, Result, IsPut

LEMMA DoneTyped ==
  ASSUME NEW who \in Who, who # Boot
  PROVE  Done(who) \in Result /\ Done(who).who = who /\ IsPut(Done(who))
BY DEF Done, Result, IsPut

\* What a call and a result have, by their kind.
LEMMA CallKinds ==
  ASSUME NEW q \in Call
  PROVE  /\ q.who \in Who
         /\ IsPut(q) => /\ q.who # Boot /\ q.snap \in Store /\ q.edits \in SUBSET Key
                        /\ q.fresh \in BOOLEAN
BY DEF Call, IsPut

LEMMA ResultKinds ==
  ASSUME NEW g \in Result
  PROVE  /\ g.who \in Who
         /\ IsPut(g) => g.who # Boot
         /\ ~IsPut(g) => g.snap \in Snapshot /\ g.now \in BOOLEAN
BY DEF Result, IsPut

\* The histories that go stale keep everything else.
LEMMA StaleCall ==
  ASSUME NEW q \in Call, IsPut(q)
  PROVE  LET p == [q EXCEPT !.fresh = FALSE] IN
         /\ p \in Call /\ IsPut(p) /\ p.who = q.who /\ p.snap = q.snap /\ p.edits = q.edits
         /\ p.fresh = FALSE
BY DEF Call, IsPut

LEMMA StaleResult ==
  ASSUME NEW g \in Result, ~IsPut(g)
  PROVE  LET p == [g EXCEPT !.now = FALSE] IN
         /\ p \in Result /\ ~IsPut(p) /\ p.who = g.who /\ p.snap = g.snap /\ p.now = FALSE
BY DEF Result, IsPut

LEMMA IssuedCall ==
  ASSUME NEW q \in Call, IsPut(q)
  PROVE  LET p == [q EXCEPT !.issued = TRUE] IN
         /\ p \in Call /\ IsPut(p) /\ p.who = q.who /\ p.snap = q.snap /\ p.edits = q.edits
         /\ p.fresh = q.fresh
BY DEF Call, IsPut

LEMMA OutdatedTyped ==
  ASSUME NEW q \in Seq(KnownCall)
  PROVE  /\ Outdated(q) \in Seq(KnownCall) /\ Len(Outdated(q)) = Len(q)
         /\ \A n \in DOMAIN q :
              /\ (IsPut(Outdated(q)[n]) <=> IsPut(q[n])) /\ Outdated(q)[n].who = q[n].who
              /\ ~IsPut(q[n]) => Outdated(q)[n] = q[n]
              /\ IsPut(q[n]) => /\ Outdated(q)[n].fresh = FALSE
                                /\ Outdated(q)[n].snap = q[n].snap
                                /\ Outdated(q)[n].edits = q[n].edits
<1>1. ASSUME NEW n \in DOMAIN q
      PROVE  /\ Outdated(q)[n] \in KnownCall
             /\ (IsPut(Outdated(q)[n]) <=> IsPut(q[n])) /\ Outdated(q)[n].who = q[n].who
             /\ ~IsPut(q[n]) => Outdated(q)[n] = q[n]
             /\ IsPut(q[n]) => /\ Outdated(q)[n].fresh = FALSE
                               /\ Outdated(q)[n].snap = q[n].snap
                               /\ Outdated(q)[n].edits = q[n].edits
  <2>1. q[n] \in KnownCall
    OBVIOUS
  <2>2. Outdated(q)[n] = IF IsPut(q[n]) THEN [q[n] EXCEPT !.fresh = FALSE] ELSE q[n]
    BY DEF Outdated
  <2>3. CASE IsPut(q[n])
    BY <2>1, <2>2, <2>3, StaleCall DEF KnownCall
  <2>4. CASE ~IsPut(q[n])
    BY <2>1, <2>2, <2>4
  <2> QED BY <2>3, <2>4
<1>2. DOMAIN Outdated(q) = 1..Len(q) /\ Outdated(q) = [n \in 1..Len(q) |-> Outdated(q)[n]]
  BY DEF Outdated
<1>3. \A n \in 1..Len(q) : Outdated(q)[n] \in KnownCall
  <2>1. DOMAIN q = 1..Len(q)
    OBVIOUS
  <2> HIDE DEF Outdated, KnownCall
  <2> QED BY <1>1, <2>1
<1> HIDE DEF Outdated, KnownCall
<1>4. Outdated(q) \in Seq(KnownCall) /\ Len(Outdated(q)) = Len(q)
  BY <1>2, <1>3
<1> QED BY <1>1, <1>4

LEMMA OvertakenTyped ==
  ASSUME NEW g \in Seq(KnownResult)
  PROVE  /\ Overtaken(g) \in Seq(KnownResult) /\ Len(Overtaken(g)) = Len(g)
         /\ \A m \in DOMAIN g :
              /\ (IsPut(Overtaken(g)[m]) <=> IsPut(g[m])) /\ Overtaken(g)[m].who = g[m].who
              /\ IsPut(g[m]) => Overtaken(g)[m] = g[m]
              /\ ~IsPut(g[m]) => /\ Overtaken(g)[m].now = FALSE
                                 /\ Overtaken(g)[m].snap = g[m].snap
<1>1. ASSUME NEW m \in DOMAIN g
      PROVE  /\ Overtaken(g)[m] \in KnownResult
             /\ (IsPut(Overtaken(g)[m]) <=> IsPut(g[m])) /\ Overtaken(g)[m].who = g[m].who
             /\ IsPut(g[m]) => Overtaken(g)[m] = g[m]
             /\ ~IsPut(g[m]) => /\ Overtaken(g)[m].now = FALSE
                                /\ Overtaken(g)[m].snap = g[m].snap
  <2>1. g[m] \in KnownResult
    OBVIOUS
  <2>2. Overtaken(g)[m] = IF IsPut(g[m]) THEN g[m] ELSE [g[m] EXCEPT !.now = FALSE]
    BY DEF Overtaken
  <2>3. CASE ~IsPut(g[m])
    <3> DEFINE p == [g[m] EXCEPT !.now = FALSE]
    <3>1. g[m] \in Result /\ (g[m].who \in Op => Asked(g[m].who))
      BY <2>1 DEF KnownResult
    <3>2. p \in Result /\ ~IsPut(p) /\ p.who = g[m].who /\ p.snap = g[m].snap /\ p.now = FALSE
      BY <2>3, <3>1, StaleResult
    <3>3. Overtaken(g)[m] = p
      BY <2>2, <2>3
    <3>4. p \in KnownResult
      BY <3>1, <3>2 DEF KnownResult
    <3> HIDE DEF p
    <3> QED BY <2>3, <3>2, <3>3, <3>4
  <2>4. CASE IsPut(g[m])
    BY <2>1, <2>2, <2>4
  <2> QED BY <2>3, <2>4
<1>2. DOMAIN Overtaken(g) = 1..Len(g) /\ Overtaken(g) = [m \in 1..Len(g) |-> Overtaken(g)[m]]
  BY DEF Overtaken
<1>3. \A m \in 1..Len(g) : Overtaken(g)[m] \in KnownResult
  <2>1. DOMAIN g = 1..Len(g)
    OBVIOUS
  <2> HIDE DEF Overtaken, KnownResult
  <2> QED BY <1>1, <2>1
<1> HIDE DEF Overtaken, KnownResult
<1>4. Overtaken(g) \in Seq(KnownResult) /\ Len(Overtaken(g)) = Len(g)
  BY <1>2, <1>3
<1> QED BY <1>1, <1>4

LEMMA QueuesGrow ==
  ASSUME NEW S, NEW T, S \subseteq T
  PROVE  Seq(S) \subseteq Seq(T)
OBVIOUS

\* Once a request is asked it stays asked, and what was known stays known.
LEMMA KnownStays ==
  ASSUME \A i \in Op : Asked(i) => Asked(i)'
  PROVE  /\ Seq(KnownCall) \subseteq Seq(KnownCall') /\ Seq(KnownResult) \subseteq Seq(KnownResult')
<1>1. Call' = Call /\ Result' = Result
  BY DEF Call, Result, Who, Op, Boot, Background, Snapshot, Store
<1>2. KnownCall \subseteq KnownCall' /\ KnownResult \subseteq KnownResult'
  BY <1>1 DEF KnownCall, KnownResult, Op
<1> QED BY <1>2, QueuesGrow

LEMMA SaveForTyped ==
  ASSUME TypesHold, NEW c \in Ctx, NEW s \in Copy, NEW ks \in SUBSET Key,
         NEW who \in Who, who # Boot, SaveFor(c, s, ks, who), fresh'[c] \in BOOLEAN,
         \A i \in Op : Asked(i) => Asked(i)', who \in Op => Asked(who)'
  PROVE  /\ ctx' \in [Ctx -> Copy] /\ edits' \in [Ctx -> SUBSET Key]
         /\ idb' \in [Ctx -> Seq(KnownCall')]
<1>1. MarkSaved(s) \in Copy /\ s.local \in Store
  BY MarkSavedTyped DEF Copy
<1>2. Put(who, s.local, ks, fresh'[c]) \in KnownCall'
  <2>1. Call' = Call
    BY DEF Call, Who, Op, Boot, Background, Store
  <2>2. Put(who, s.local, ks, fresh'[c]) \in Call /\ Put(who, s.local, ks, fresh'[c]).who = who
    BY <1>1, PutTyped
  <2> QED BY <2>1, <2>2 DEF KnownCall
<1>3. idb \in [Ctx -> Seq(KnownCall')]
  BY KnownStays DEF TypesHold
<1>4. Append(idb[c], Put(who, s.local, ks, fresh'[c])) \in Seq(KnownCall')
  BY <1>2, <1>3, Appended
<1> QED BY <1>1, <1>3, <1>4 DEF SaveFor, TypesHold

\* A request's phase may change to any other.
LEMMA PhaseTyped ==
  ASSUME TypesHold, NEW i \in Op, Asked(i), NEW ph \in Phases,
         req' = [req EXCEPT ![i].phase = ph]
  PROVE  /\ req' \in [Op -> Request \cup {NoRequest}]
         /\ \A j \in Op : Asked(j)' => req'[j] \in Request /\ j <= ops /\ req'[j].version = j
         /\ \A j \in Op : Asked(j) => Asked(j)'
<1>1. req[i] \in Request /\ i <= ops /\ req[i].version = i
  BY DEF TypesHold
<1>2. [req[i] EXCEPT !.phase = ph] \in Request /\ [req[i] EXCEPT !.phase = ph].version = i
      /\ [req[i] EXCEPT !.phase = ph].phase # "none"
  BY <1>1 DEF Request, Phases
<1>3. req' = [req EXCEPT ![i] = [req[i] EXCEPT !.phase = ph]]
  OBVIOUS
<1> HIDE DEF Request, NoRequest
<1> QED BY <1>1, <1>2, <1>3 DEF TypesHold, Asked

\* What a tab's turn leaves: restored or not, the copy is dispatched on and saved.
LEMMA TabServesTyped ==
  ASSUME TypesHold, NEW c \in Ctx, NEW i \in Op, NEW s \in Copy, NEW r \in Request,
         TabServes(c, i, s, r), fresh'[c] \in BOOLEAN,
         \A j \in Op : Asked(j) => Asked(j)', Asked(i)'
  PROVE  /\ ctx' \in [Ctx -> Copy] /\ edits' \in [Ctx -> SUBSET Key]
         /\ idb' \in [Ctx -> Seq(KnownCall')]
<1> DEFINE served == Dispatched(s, r)
           ks == edits[c] \cup Changed(r)
<1>1. served \in Copy /\ SaveFor(c, served, ks, i)
  BY DispatchedTyped DEF TabServes
<1>2. ks \in SUBSET Key
  BY DEF TypesHold, Changed, Request
<1>3. i \in Who /\ i # Boot
  BY DEF Who, Op, Boot
<1> HIDE DEF served, ks
<1> QED BY <1>1, <1>2, <1>3, SaveForTyped

LEMMA ArriveTyped ==
  ASSUME TypesHold, NEW c \in Ctx, Arrive(c)
  PROVE  TypesHold'
<1>0. PICK i \in Op : i = ops + 1
  BY NanoBounds DEF Arrive, MayChange, Op, TypesHold
<1>1. PICK op \in Kinds, k \in Key :
        LET r == [at |-> c, op |-> op, key |-> k, version |-> i, phase |-> "refresh"] IN
        \/ /\ ~restoring[c]
           /\ restoring' = [restoring EXCEPT ![c] = TRUE]
           /\ idb' = [idb EXCEPT ![c] = Append(@, Get(i))]
           /\ req' = [req EXCEPT ![i] = r]
           /\ UNCHANGED <<ctx, edits>>
        \/ /\ restoring[c] /\ c \in Tab
           /\ TabServes(c, i, ctx[c], r)
           /\ UNCHANGED restoring
        \/ /\ restoring[c] /\ c \in Relay
           /\ req' = [req EXCEPT ![i] = [r EXCEPT !.phase = "serve"]]
           /\ UNCHANGED <<restoring, ctx, idb, edits>>
  BY <1>0 DEF Arrive
<1> DEFINE r == [at |-> c, op |-> op, key |-> k, version |-> i, phase |-> "refresh"]
           q == req'[i]
<1>2. ops' \in 0..MaxOps /\ ops' = i /\ \A j \in Op : j <= ops => j <= ops'
  BY <1>0, NanoBounds DEF Arrive, Op, TypesHold
<1>3. r \in Request
  BY <1>2 DEF Request, Phases
<1>4. q \in Request /\ q.version = i /\ q.phase # "none" /\ req' = [req EXCEPT ![i] = q]
  <2>1. q = r \/ \E ph \in Phases : q = [r EXCEPT !.phase = ph]
    BY <1>1, <1>2 DEF TabServes, Phases, TypesHold
  <2>2. ASSUME NEW ph \in Phases
        PROVE  /\ [r EXCEPT !.phase = ph] \in Request /\ [r EXCEPT !.phase = ph].version = i
               /\ [r EXCEPT !.phase = ph].phase # "none"
    BY <1>3 DEF Request, Phases
  <2>3. req' = [req EXCEPT ![i] = q]
    BY <1>1, <1>2 DEF TabServes, TypesHold
  <2>4. q \in Request /\ q.version = i /\ q.phase # "none"
    <3>1. r \in Request /\ r.version = i /\ r.phase # "none"
      BY <1>3
    <3>2. ASSUME NEW ph \in Phases, q = [r EXCEPT !.phase = ph]
          PROVE  q \in Request /\ q.version = i /\ q.phase # "none"
      <4> HIDE DEF q, r
      <4> QED BY <2>2, <3>2
    <3> HIDE DEF q, r
    <3> QED BY <2>1, <3>1, <3>2
  <2> QED BY <2>3, <2>4
<1>5. /\ req' \in [Op -> Request \cup {NoRequest}]
      /\ \A j \in Op : Asked(j) => Asked(j)'
      /\ \A j \in Op : Asked(j)' => req'[j] \in Request /\ j <= ops' /\ req'[j].version = j
      /\ Asked(i)'
  <2> HIDE DEF q, r
  <2>1. i <= ops'
    BY <1>2 DEF Op
  <2>2. \A j \in Op : j # i => req'[j] = req[j]
    BY <1>2, <1>4 DEF TypesHold
  <2>3. req'[i] = q /\ req' \in [Op -> Request \cup {NoRequest}]
    BY <1>2, <1>4 DEF TypesHold
  <2>4. \A j \in Op : Asked(j) => req[j] \in Request /\ j <= ops /\ req[j].version = j
    BY DEF TypesHold
  <2>5. \A j \in Op : Asked(j) => Asked(j)'
    BY <1>4, <2>2, <2>3 DEF Asked
  <2>6. ASSUME NEW j \in Op, Asked(j)'
        PROVE  req'[j] \in Request /\ j <= ops' /\ req'[j].version = j
    BY <1>2, <1>4, <2>1, <2>2, <2>3, <2>4, <2>6 DEF Asked
  <2>7. Asked(i)'
    BY <1>4, <2>3 DEF Asked
  <2> QED BY <2>3, <2>5, <2>6, <2>7
<1>6. Seq(KnownCall) \subseteq Seq(KnownCall') /\ Seq(KnownResult) \subseteq Seq(KnownResult')
  BY <1>5, KnownStays
<1>7. /\ ctx' \in [Ctx -> Copy] /\ edits' \in [Ctx -> SUBSET Key]
      /\ idb' \in [Ctx -> Seq(KnownCall')] /\ restoring' \in [Ctx -> BOOLEAN]
  <2>1. CASE TabServes(c, i, ctx[c], r) /\ UNCHANGED restoring
    <3>1. ctx[c] \in Copy
      BY DEF TypesHold
    <3> HIDE DEF r
    <3>2. TabServes(c, i, ctx[c], r)
      BY <2>1
    <3>3. /\ ctx' \in [Ctx -> Copy] /\ edits' \in [Ctx -> SUBSET Key]
          /\ idb' \in [Ctx -> Seq(KnownCall')]
      <4>1. fresh'[c] \in BOOLEAN
        BY DEF Arrive, TypesHold
      <4> QED BY <3>1, <3>2, <1>2, <1>3, <1>5, <4>1, TabServesTyped
    <3> QED BY <2>1, <3>3 DEF TypesHold
  <2>2. CASE UNCHANGED <<restoring, ctx, idb, edits>>
    BY <2>2, <1>6 DEF TypesHold
  <2>3. CASE /\ restoring' = [restoring EXCEPT ![c] = TRUE]
             /\ idb' = [idb EXCEPT ![c] = Append(@, Get(i))]
             /\ UNCHANGED <<ctx, edits>>
    <3>1. Get(i) \in KnownCall'
      <4>1. i \in Who
        BY <1>2 DEF Who
      <4>2. Get(i) \in Call /\ Get(i).who = i
        BY <4>1, GetTyped
      <4> QED BY <4>2, <1>5 DEF KnownCall, Asked
    <3>2. idb \in [Ctx -> Seq(KnownCall')]
      BY <1>6 DEF TypesHold
    <3>3. Append(idb[c], Get(i)) \in Seq(KnownCall')
      BY <3>1, <3>2, Appended
    <3> QED BY <2>3, <3>2, <3>3 DEF TypesHold
  <2> QED BY <1>1, <2>1, <2>2, <2>3
<1> QED BY <1>2, <1>5, <1>6, <1>7 DEF TypesHold, Arrive

LEMMA RelayTyped ==
  ASSUME TypesHold, NEW i \in Op, RelayServes(i) \/ RelaySaves(i)
  PROVE  TypesHold'
<1> DEFINE c == req[i].at
<1>1. req[i] \in Request /\ c \in Ctx /\ ctx[c] \in Copy /\ Asked(i)
  BY DEF TypesHold, RelayServes, RelaySaves, Asked, Request
<1>2. \E ph \in Phases : req' = [req EXCEPT ![i].phase = ph]
  BY DEF RelayServes, RelaySaves, Phases
<1>3. /\ req' \in [Op -> Request \cup {NoRequest}]
      /\ \A j \in Op : Asked(j)' => req'[j] \in Request /\ j <= ops /\ req'[j].version = j
      /\ \A j \in Op : Asked(j) => Asked(j)'
  BY <1>1, <1>2, PhaseTyped DEF Asked
<1>4. Seq(KnownCall) \subseteq Seq(KnownCall') /\ Seq(KnownResult) \subseteq Seq(KnownResult')
  BY <1>3, KnownStays
<1>5. /\ ctx' \in [Ctx -> Copy] /\ edits' \in [Ctx -> SUBSET Key]
      /\ idb' \in [Ctx -> Seq(KnownCall')]
  <2>1. CASE RelayServes(i)
    <3>1. Dispatched(ctx[c], req[i]) \in Copy /\ Changed(req[i]) \in SUBSET Key
      BY <1>1, DispatchedTyped DEF Changed, Request
    <3> QED BY <2>1, <3>1, <1>1, <1>4 DEF RelayServes, TypesHold
  <2>2. CASE RelaySaves(i)
    <3>1. SaveFor(c, ctx[c], edits[c], i) /\ edits[c] \in SUBSET Key
      BY <2>2, <1>1 DEF RelaySaves, TypesHold
    <3>2. i \in Who /\ i # Boot
      BY DEF Who, Op, Boot
    <3>3. fresh'[c] \in BOOLEAN
      BY <2>2, <1>1 DEF RelaySaves, TypesHold
    <3> HIDE DEF c
    <3> QED BY <3>1, <3>2, <3>3, <1>1, <1>3, SaveForTyped
  <2> QED BY <2>1, <2>2
<1> QED BY <1>3, <1>4, <1>5 DEF RelayServes, RelaySaves, TypesHold

\* Telling the others leaves requests and messages in their ranges.
LEMMA TellTyped ==
  ASSUME TypesHold, NEW c \in Ctx, NEW who \in Who, who \in Op => Asked(who), Tell(c, who)
  PROVE  /\ inbox' \in [Ctx -> Nat]
         /\ req' \in [Op -> Request \cup {NoRequest}]
         /\ \A j \in Op : Asked(j)' => req'[j] \in Request /\ j <= ops /\ req'[j].version = j
         /\ \A j \in Op : Asked(j) => Asked(j)'
         /\ Seq(KnownCall) \subseteq Seq(KnownCall') /\ Seq(KnownResult) \subseteq Seq(KnownResult')
<1>1. inbox' \in [Ctx -> Nat]
  BY DEF Tell, TypesHold
<1>2. /\ req' \in [Op -> Request \cup {NoRequest}]
      /\ \A j \in Op : Asked(j)' => req'[j] \in Request /\ j <= ops /\ req'[j].version = j
      /\ \A j \in Op : Asked(j) => Asked(j)'
  <2>1. CASE who \notin Op
    BY <2>1 DEF Tell, TypesHold, Asked
  <2>2. CASE who \in Op
    <3>1. "done" \in Phases /\ req' = [req EXCEPT ![who].phase = "done"]
      BY <2>2 DEF Phases, Tell
    <3> QED BY <2>2, <3>1, PhaseTyped
  <2> QED BY <2>1, <2>2
<1> QED BY <1>1, <1>2, KnownStays

LEMMA IssueTyped ==
  ASSUME TypesHold, NEW c \in Ctx, Issue(c)
  PROVE  TypesHold'
<1>1. PICK n \in DOMAIN idb[c] :
        /\ IsPut(idb[c][n]) /\ idb' = [idb EXCEPT ![c][n].issued = TRUE] /\ Tell(c, idb[c][n].who)
  BY DEF Issue
<1> DEFINE q == idb[c][n]
           p == [q EXCEPT !.issued = TRUE]
<1>2. idb[c] \in Seq(KnownCall) /\ q \in KnownCall
  BY DEF TypesHold
<1>3. p \in KnownCall /\ q.who \in Who /\ (q.who \in Op => Asked(q.who))
  BY <1>1, <1>2, IssuedCall, CallKinds DEF KnownCall
<1>4. idb' = [idb EXCEPT ![c] = [idb[c] EXCEPT ![n] = p]]
  BY <1>1
<1> HIDE DEF p
<1>5. [idb[c] EXCEPT ![n] = p] \in Seq(KnownCall)
  <2> HIDE DEF KnownCall
  <2> QED BY <1>2, <1>3
<1>6. idb' \in [Ctx -> Seq(KnownCall)]
  BY <1>4, <1>5 DEF TypesHold
<1> HIDE DEF q
<1>7. Tell(c, q.who)
  BY <1>1 DEF q
<1> QED BY <1>3, <1>6, <1>7, TellTyped DEF Issue, TypesHold

LEMMA ExecuteGetTyped ==
  ASSUME TypesHold, NEW c \in Ctx, ExecuteGet(c)
  PROVE  TypesHold'
<1> DEFINE p == Head(idb[c])
<1>1. p \in KnownCall /\ Tail(idb[c]) \in Seq(KnownCall)
  BY Shortened DEF TypesHold, ExecuteGet
<1>2. Read(p.who, shared) \in KnownResult
  BY <1>1, CallKinds, ReadTyped DEF KnownCall, KnownResult, TypesHold
<1>3. Append(got[c], Read(p.who, shared)) \in Seq(KnownResult)
  BY <1>2, Appended DEF TypesHold
<1>4. /\ got' \in [Ctx -> Seq(KnownResult)] /\ idb' \in [Ctx -> Seq(KnownCall)]
      /\ UNCHANGED <<shared, ctx, restoring, timer, inbox, req, up, edits, fresh, seen, ops>>
  BY <1>1, <1>3 DEF ExecuteGet, TypesHold
<1>5. KnownCall' = KnownCall /\ KnownResult' = KnownResult
  BY <1>4 DEF KnownCall, KnownResult, Asked, Call, Result, Snapshot
<1> QED BY <1>4, <1>5 DEF TypesHold, Asked

LEMMA ExecutePutTyped ==
  ASSUME TypesHold, NEW c \in Ctx, ExecutePut(c)
  PROVE  TypesHold'
<1> DEFINE q == Head(idb[c])
<1>1. q \in KnownCall /\ IsPut(q) /\ Tail(idb[c]) \in Seq(KnownCall)
  BY Shortened DEF TypesHold, ExecutePut
<1>2. q.who \in Who /\ q.who # Boot /\ q.snap \in Store /\ (q.who \in Op => Asked(q.who))
  BY <1>1, CallKinds DEF KnownCall
<1>3. Done(q.who) \in KnownResult
  BY <1>2, DoneTyped DEF KnownResult
<1>4. ASSUME NEW d \in Ctx
      PROVE  /\ Overtaken(got[d]) \in Seq(KnownResult) /\ Outdated(idb[d]) \in Seq(KnownCall)
             /\ Append(Overtaken(got[d]), Done(q.who)) \in Seq(KnownResult)
  <2>1. got[d] \in Seq(KnownResult) /\ idb[d] \in Seq(KnownCall)
    BY DEF TypesHold
  <2>2. Overtaken(got[d]) \in Seq(KnownResult) /\ Outdated(idb[d]) \in Seq(KnownCall)
    BY <2>1, OvertakenTyped, OutdatedTyped
  <2> QED BY <2>2, <1>3, Appended
<1> HIDE DEF q
<1>5. got' \in [Ctx -> Seq(KnownResult)] /\ idb' \in [Ctx -> Seq(KnownCall)]
  BY <1>1, <1>4 DEF ExecutePut, q
<1>6. shared' \in Snapshot /\ seen' \subseteq Nat /\ fresh' \in [Ctx -> BOOLEAN]
  <2>1. \A k \in Key : q.snap[k] \in Nat
    BY <1>2, NanoBounds DEF Store
  <2>2. shared' = q.snap /\ seen' = seen \cup {q.snap[k] : k \in Key}
    BY DEF ExecutePut, q
  <2>3. fresh' \in [Ctx -> BOOLEAN]
    <3>1. \A d \in Ctx : (d = c /\ fresh[d]) \in BOOLEAN
      BY DEF TypesHold
    <3> QED BY <3>1 DEF ExecutePut
  <2>4. {q.snap[k] : k \in Key} \subseteq Nat /\ seen \subseteq Nat
    BY <2>1 DEF TypesHold
  <2>5. seen' \subseteq Nat
    BY <2>2, <2>4
  <2>6. shared' \in Snapshot
    BY <1>2, <2>2 DEF Snapshot
  <2> QED BY <2>3, <2>5, <2>6
<1>7. UNCHANGED <<ctx, restoring, timer, inbox, req, up, edits, ops>>
  BY DEF ExecutePut
<1>8. KnownCall' = KnownCall /\ KnownResult' = KnownResult
  BY <1>7 DEF KnownCall, KnownResult, Asked, Call, Result, Snapshot
<1> QED BY <1>5, <1>6, <1>7, <1>8 DEF TypesHold, Asked

LEMMA CompleteTyped ==
  ASSUME TypesHold, NEW c \in Ctx, Complete(c)
  PROVE  TypesHold'
<1> DEFINE g == Head(got[c])
<1>1. g \in KnownResult /\ Tail(got[c]) \in Seq(KnownResult) /\ Tell(c, g.who)
  BY Shortened DEF TypesHold, Complete
<1>2. g.who \in Who /\ (g.who \in Op => Asked(g.who))
  BY <1>1, ResultKinds DEF KnownResult
<1>3. got' \in [Ctx -> Seq(KnownResult)]
  BY <1>1 DEF TypesHold, Complete
<1> HIDE DEF g
<1> QED BY <1>1, <1>2, <1>3, TellTyped DEF Complete, TypesHold

LEMMA ApplyTyped ==
  ASSUME TypesHold, NEW c \in Ctx, Apply(c)
  PROVE  TypesHold'
<1> DEFINE g == Head(got[c])
           s == Restored(ctx[c], g.snap)
<1>1. g \in KnownResult /\ Tail(got[c]) \in Seq(KnownResult)
  <2>1. got[c] \in Seq(KnownResult) /\ got[c] # <<>>
    BY DEF TypesHold, Apply
  <2> QED BY <2>1, Shortened
<1>2. /\ g.who \in Who /\ g.snap \in Snapshot /\ g.now \in BOOLEAN
      /\ g.who \in Op => Asked(g.who)
  BY <1>1, ResultKinds DEF KnownResult, Apply
<1>3. s \in Copy
  BY <1>2, RestoredTyped DEF TypesHold
<1> HIDE DEF g, s
<1>4. \/ \E ph \in Phases : g.who \in Op /\ req' = [req EXCEPT ![g.who].phase = ph]
      \/ req' = req
  BY DEF Apply, TabServes, Phases, g
<1>5. /\ req' \in [Op -> Request \cup {NoRequest}]
      /\ \A j \in Op : Asked(j)' => req'[j] \in Request /\ j <= ops /\ req'[j].version = j
      /\ \A j \in Op : Asked(j) => Asked(j)'
  <2>1. CASE req' = req
    BY <2>1 DEF TypesHold, Asked
  <2>2. ASSUME NEW w \in Op, Asked(w), NEW ph \in Phases, req' = [req EXCEPT ![w].phase = ph]
        PROVE  /\ req' \in [Op -> Request \cup {NoRequest}]
               /\ \A j \in Op : Asked(j)' =>
                                  req'[j] \in Request /\ j <= ops /\ req'[j].version = j
               /\ \A j \in Op : Asked(j) => Asked(j)'
    BY <2>2, PhaseTyped
  <2> QED BY <1>2, <1>4, <2>1, <2>2
<1>6. Seq(KnownCall) \subseteq Seq(KnownCall') /\ Seq(KnownResult) \subseteq Seq(KnownResult')
  BY <1>5, KnownStays
<1>10. fresh'[c] \in BOOLEAN /\ fresh' \in [Ctx -> BOOLEAN]
  <2>1. fresh' = [fresh EXCEPT ![c] = g.now /\ ~Saving(c)]
    BY DEF Apply, g
  <2>2. (g.now /\ ~Saving(c)) \in BOOLEAN
    OBVIOUS
  <2> QED BY <2>1, <2>2 DEF TypesHold
<1>7. /\ ctx' \in [Ctx -> Copy] /\ edits' \in [Ctx -> SUBSET Key]
      /\ idb' \in [Ctx -> Seq(KnownCall')]
  <2>1. ASSUME NEW w \in Op, w = g.who, TabServes(c, w, s, req[w])
        PROVE  /\ ctx' \in [Ctx -> Copy] /\ edits' \in [Ctx -> SUBSET Key]
               /\ idb' \in [Ctx -> Seq(KnownCall')]
    <3>1. req[w] \in Request /\ Asked(w)'
      BY <2>1, <1>2, <1>5 DEF TypesHold
    <3> QED BY <2>1, <3>1, <1>3, <1>5, <1>10, TabServesTyped
  <2>2. CASE ctx' = [ctx EXCEPT ![c] = s] /\ UNCHANGED <<idb, edits>>
    BY <2>2, <1>3, <1>6 DEF TypesHold
  <2> QED BY <2>1, <2>2 DEF Apply, g, s
<1>8. got' \in [Ctx -> Seq(KnownResult')]
  BY <1>1, <1>6 DEF TypesHold, Apply
<1>9. restoring' \in [Ctx -> BOOLEAN] /\ up' \in [Ctx -> BOOLEAN]
  <2>1. \A x, y \in BOOLEAN : (x /\ y) \in BOOLEAN /\ (x \/ y) \in BOOLEAN
    OBVIOUS
  <2> QED BY DEF Apply, TypesHold
<1> QED BY <1>5, <1>6, <1>7, <1>8, <1>9, <1>10 DEF Apply, TypesHold

LEMMA BackgroundTyped ==
  ASSUME TypesHold, NEW c \in Ctx, Deliver(c) \/ Poll(c)
  PROVE  TypesHold'
<1>1. Get(Background) \in KnownCall
  <2>1. Background \in Who /\ Background \notin Op
    BY NanoBounds DEF Who, Background, Op
  <2> QED BY <2>1, GetTyped DEF KnownCall
<1>2. Append(idb[c], Get(Background)) \in Seq(KnownCall)
  BY <1>1, Appended DEF TypesHold
<1>3. UNCHANGED <<shared, ctx, timer, got, req, up, edits, fresh, seen, ops>>
  BY DEF Deliver, Poll
<1>4. KnownCall' = KnownCall /\ KnownResult' = KnownResult
  BY <1>3 DEF KnownCall, KnownResult, Asked
<1>5. inbox' \in [Ctx -> Nat]
  <2>1. CASE Deliver(c)
    <3>1. inbox[c] - 1 \in Nat
      BY <2>1 DEF Deliver, TypesHold
    <3> QED BY <2>1, <3>1 DEF Deliver, TypesHold
  <2>2. CASE Poll(c)
    BY <2>2 DEF Poll, TypesHold
  <2> QED BY <2>1, <2>2
<1>6. restoring' \in [Ctx -> BOOLEAN] /\ idb' \in [Ctx -> Seq(KnownCall)]
  BY <1>2 DEF Deliver, Poll, TypesHold
<1> QED BY <1>3, <1>4, <1>5, <1>6 DEF TypesHold, Asked

LEMMA ChangeTyped ==
  ASSUME TypesHold, NEW c \in Ctx, Annotate(c) \/ TimerFires(c)
  PROVE  TypesHold'
<1>1. ctx[c] \in Copy /\ edits[c] \in SUBSET Key
  BY DEF TypesHold
<1>2. req' = req /\ got' = got
  BY DEF Annotate, TimerFires, flow
<1>3. \A j \in Op : Asked(j)' = Asked(j)
  BY <1>2 DEF Asked
<1>4. KnownCall' = KnownCall /\ KnownResult' = KnownResult
  BY <1>2 DEF KnownCall, KnownResult, Asked
<1>5. timer' \in [Ctx -> BOOLEAN]
  BY DEF Annotate, TimerFires, TypesHold
<1>6. CASE Annotate(c)
  <2>1. ops \in 0..MaxOps /\ ops < MaxOps /\ ops' = ops + 1
    BY <1>6, NanoBounds DEF Annotate, MayChange, TypesHold
  <2>2. ops' \in 0..MaxOps /\ \A j \in Op : j <= ops => j <= ops'
    BY <2>1, NanoBounds DEF Op
  <2>3. ASSUME NEW k \in Key
        PROVE  [ctx[c] EXCEPT !.local[k] = ops + 1] \in Copy
    BY <1>1, <2>1, <2>2 DEF Copy, Store
  <2>4. PICK k \in Key : /\ ctx' = [ctx EXCEPT ![c] = [ctx[c] EXCEPT !.local[k] = ops + 1]]
                         /\ edits' = [edits EXCEPT ![c] = @ \cup {k}]
    BY <1>6 DEF Annotate, Present
  <2>5. ctx' \in [Ctx -> Copy]
    BY <2>3, <2>4 DEF TypesHold
  <2>6. edits' \in [Ctx -> SUBSET Key]
    BY <1>1, <2>4 DEF TypesHold
  <2> QED BY <1>2, <1>3, <1>4, <1>5, <1>6, <2>2, <2>5, <2>6 DEF Annotate, TypesHold, flow
<1>7. CASE TimerFires(c)
  <2>1. SaveFor(c, ctx[c], edits[c], Background)
    BY <1>7 DEF TimerFires
  <2>2. Background \in Who /\ Background # Boot /\ Background \notin Op
    BY NanoBounds DEF Who, Background, Boot, Op
  <2>4. fresh'[c] \in BOOLEAN
    BY <1>7 DEF TimerFires, TypesHold
  <2>3. /\ ctx' \in [Ctx -> Copy] /\ edits' \in [Ctx -> SUBSET Key]
        /\ idb' \in [Ctx -> Seq(KnownCall')]
    BY <1>1, <1>3, <2>1, <2>2, <2>4, SaveForTyped
  <2> QED BY <1>2, <1>3, <1>4, <1>5, <1>7, <2>3 DEF TimerFires, TypesHold
<1> QED BY <1>6, <1>7

LEMMA ReloadTyped ==
  ASSUME TypesHold, NEW c \in Ctx, Reload(c)
  PROVE  TypesHold'
<1>1. Blank \in Copy
  BY NanoBounds DEF Blank, Copy, Snapshot, Empty, Store
<1>2. ASSUME NEW j \in Op
      PROVE  /\ req'[j] \in Request \cup {NoRequest} /\ Asked(j)' = Asked(j)
             /\ Asked(j) => req'[j] \in Request /\ req'[j].version = j
  <2>1. req'[j] = IF InFlight(j) /\ req[j].at = c THEN [req[j] EXCEPT !.phase = "lost"] ELSE req[j]
    BY DEF Reload
  <2>2. CASE InFlight(j) /\ req[j].at = c
    <3>1. Asked(j) /\ req[j] \in Request /\ req[j].version = j
      BY <2>2 DEF InFlight, Asked, TypesHold
    <3>2. [req[j] EXCEPT !.phase = "lost"] \in Request
      BY <3>1 DEF Request, Phases
    <3>3. /\ [req[j] EXCEPT !.phase = "lost"].phase = "lost"
          /\ [req[j] EXCEPT !.phase = "lost"].version = j
      BY <3>1 DEF Request
    <3> QED BY <2>1, <2>2, <3>1, <3>2, <3>3 DEF Asked
  <2>3. CASE ~(InFlight(j) /\ req[j].at = c)
    BY <2>1, <2>3 DEF TypesHold, Asked
  <2> QED BY <2>2, <2>3
<1>3. req' \in [Op -> Request \cup {NoRequest}]
  BY <1>2 DEF Reload
<1>4. Seq(KnownCall) \subseteq Seq(KnownCall') /\ Seq(KnownResult) \subseteq Seq(KnownResult')
  BY <1>2, KnownStays
<1>5. Get(Boot) \in KnownCall'
  <2>1. Boot \in Who /\ Boot \notin Op
    BY DEF Who, Boot, Op
  <2> QED BY <2>1, GetTyped DEF KnownCall
<1>6. <<Get(Boot)>> \in Seq(KnownCall') /\ <<>> \in Seq(KnownResult')
  BY <1>5
<1>7. /\ ctx' \in [Ctx -> Copy] /\ idb' \in [Ctx -> Seq(KnownCall')]
      /\ got' \in [Ctx -> Seq(KnownResult')] /\ edits' \in [Ctx -> SUBSET Key]
      /\ inbox' \in [Ctx -> Nat] /\ restoring' \in [Ctx -> BOOLEAN]
      /\ timer' \in [Ctx -> BOOLEAN] /\ up' \in [Ctx -> BOOLEAN]
  BY <1>1, <1>4, <1>6 DEF Reload, TypesHold
<1>8. \A j \in Op : Asked(j) => j <= ops
  BY DEF TypesHold
<1> QED BY <1>2, <1>3, <1>7, <1>8 DEF Reload, TypesHold

LEMMA TypesInductive == Spec => []TypesHold
<1>1. Init => TypesHold
  <2> SUFFICES ASSUME Init PROVE TypesHold
    OBVIOUS
  <2>1. Blank \in Copy
    BY NanoBounds DEF Blank, Copy, Snapshot, Empty, Store
  <2>2. Get(Boot) \in KnownCall
    <3>1. Boot \in Who /\ Boot \notin Op
      BY DEF Who, Boot, Op
    <3> QED BY <3>1, GetTyped DEF KnownCall
  <2>3. <<Get(Boot)>> \in Seq(KnownCall) /\ <<>> \in Seq(KnownResult)
    BY <2>2
  <2>4. \A j \in Op : req[j] = NoRequest /\ ~Asked(j)
    BY DEF Init, NoRequest, Asked
  <2> QED BY <2>1, <2>3, <2>4, NanoBounds DEF Init, TypesHold, Snapshot, NoRequest
<1>2. TypesHold /\ [Next]_vars => TypesHold'
  <2> SUFFICES ASSUME TypesHold, [Next]_vars PROVE TypesHold'
    OBVIOUS
  <2>1. CASE UNCHANGED vars
    <3>1. KnownCall' = KnownCall /\ KnownResult' = KnownResult
      BY <2>1 DEF vars, flow, KnownCall, KnownResult, Asked
    <3> QED BY <2>1, <3>1 DEF vars, flow, TypesHold, Asked
  <2> QED BY <2>1, ArriveTyped, RelayTyped, IssueTyped, ExecuteGetTyped, ExecutePutTyped,
             CompleteTyped, ApplyTyped, BackgroundTyped, ChangeTyped, ReloadTyped
             DEF Next, Machinery, Environment
<1> QED BY <1>1, <1>2, PTL DEF Spec

\* Type correctness: every variable of the module stays in its range.
THEOREM TypeCorrect == Spec => []TypeOK
<1>1. TypesHold => TypeOK
  <2> SUFFICES ASSUME TypesHold PROVE TypeOK
    OBVIOUS
  <2>1. ASSUME NEW c \in Ctx PROVE ctx[c] \in Copy
    BY DEF TypesHold
  <2>2. ASSUME NEW c \in Ctx, NEW n \in DOMAIN idb[c] PROVE idb[c][n] \in Call
    <3>1. idb[c] \in Seq(KnownCall)
      BY DEF TypesHold
    <3>2. idb[c][n] \in KnownCall
      BY <3>1
    <3> QED BY <3>2 DEF KnownCall
  <2>3. ASSUME NEW c \in Ctx, NEW m \in DOMAIN got[c] PROVE got[c][m] \in Result
    <3>1. got[c] \in Seq(KnownResult)
      BY DEF TypesHold
    <3>2. got[c][m] \in KnownResult
      BY <3>1
    <3> QED BY <3>2 DEF KnownResult
  <2>4. ASSUME NEW i \in Op
        PROVE  /\ i > ops => req[i].phase = "none"
               /\ req[i].phase # "none" => req[i].phase \in Phases /\ req[i].at \in Ctx
    <3>1. Asked(i) => req[i] \in Request /\ i <= ops
      BY DEF TypesHold
    <3>2. req[i] \in Request => req[i].phase \in Phases /\ req[i].at \in Ctx
      BY DEF Request
    <3> QED BY <3>1, <3>2 DEF Asked, TypesHold, Op
  <2> QED BY <2>1, <2>2, <2>3, <2>4 DEF TypesHold, TypeOK
<1> QED BY <1>1, TypesInductive, PTL

(***************************************************************************)
(* What a save rests on.  RestsOn(q, n, s, ks, base): store s, at place n  *)
(* of the calls q, differs at the keys ks at most from what the record     *)
(* will be when the calls before n have been executed: from the last put   *)
(* among them, and from the record as it is if there is none.              *)
(***************************************************************************)
Full(snap) == IF snap = NoSnap THEN Empty ELSE snap
Agrees(s, t, ks) == \A k \in Key \ ks : s[k] = t[k]
RestsOn(q, n, s, ks, base) ==
  /\ \A m \in 1..n - 1 :
       IsPut(q[m]) /\ (\A l \in m + 1..n - 1 : ~IsPut(q[l])) => Agrees(s, q[m].snap, ks)
  /\ (\A l \in 1..n - 1 : ~IsPut(q[l])) => Agrees(s, base, ks)

LEMMA RestsAppended ==
  ASSUME NEW S, NEW q \in Seq(S), NEW e \in S, NEW n \in 1..Len(q) + 1,
         NEW s, NEW ks, NEW base, RestsOn(q, n, s, ks, base)
  PROVE  RestsOn(Append(q, e), n, s, ks, base)
<1>1. \A m \in 1..n - 1 : Append(q, e)[m] = q[m]
  OBVIOUS
<1> DEFINE p == Append(q, e)
<1>2. \A m \in 1..n - 1 : p[m] = q[m]
  BY <1>1
<1> HIDE DEF p
<1>3. RestsOn(p, n, s, ks, base)
  BY <1>2, Len(q) \in Nat DEF RestsOn
<1> QED BY <1>3 DEF p

LEMMA RestsPastGet ==
  ASSUME NEW S, NEW q \in Seq(S), NEW e \in S, ~IsPut(e),
         NEW s, NEW ks, NEW base, RestsOn(q, Len(q) + 1, s, ks, base)
  PROVE  RestsOn(Append(q, e), Len(Append(q, e)) + 1, s, ks, base)
<1> DEFINE p == Append(q, e)
           L == Len(q)
<1>1. L \in Nat /\ Len(p) = L + 1 /\ p[L + 1] = e /\ \A m \in 1..L : p[m] = q[m]
  OBVIOUS
<1>2. RestsOn(q, L + 1, s, ks, base)
  OBVIOUS
<1> HIDE DEF p, L
<1>3. ASSUME NEW m \in 1..L + 1, IsPut(p[m]), \A l \in m + 1..L + 1 : ~IsPut(p[l])
      PROVE  Agrees(s, p[m].snap, ks)
  <2>1. m \in 1..L /\ IsPut(q[m])
    BY <1>1, <1>3
  <2>2. \A l \in m + 1..L : ~IsPut(q[l])
    BY <1>1, <1>3
  <2> QED BY <1>1, <1>2, <2>1, <2>2 DEF RestsOn
<1>4. ASSUME \A l \in 1..L + 1 : ~IsPut(p[l])
      PROVE  Agrees(s, base, ks)
  BY <1>1, <1>2, <1>4 DEF RestsOn
<1>5. RestsOn(p, L + 2, s, ks, base)
  BY <1>1, <1>3, <1>4 DEF RestsOn
<1> QED BY <1>1, <1>5 DEF p

LEMMA RestsPastPut ==
  ASSUME NEW S, NEW q \in Seq(S), NEW e \in S, IsPut(e),
         NEW s, NEW ks, NEW base, Agrees(s, e.snap, ks)
  PROVE  RestsOn(Append(q, e), Len(Append(q, e)) + 1, s, ks, base)
<1> DEFINE p == Append(q, e)
           L == Len(q)
<1>1. L \in Nat /\ Len(p) = L + 1 /\ p[L + 1] = e
  OBVIOUS
<1> HIDE DEF p, L
<1>2. ASSUME NEW m \in 1..L + 1, IsPut(p[m]), \A l \in m + 1..L + 1 : ~IsPut(p[l])
      PROVE  Agrees(s, p[m].snap, ks)
  BY <1>1, <1>2
<1>3. RestsOn(p, L + 2, s, ks, base)
  BY <1>1, <1>2 DEF RestsOn
<1> QED BY <1>1, <1>3 DEF p

\* When the first call is executed, what it put is the new base.
LEMMA RestsShortened ==
  ASSUME NEW S, NEW q \in Seq(S), q # <<>>, NEW n \in 2..Len(q) + 1,
         NEW s, NEW ks, NEW base, RestsOn(q, n, s, ks, base)
  PROVE  RestsOn(Tail(q), n - 1, s, ks, IF IsPut(q[1]) THEN q[1].snap ELSE base)
<1> DEFINE p == Tail(q)
           b == IF IsPut(q[1]) THEN q[1].snap ELSE base
<1>1. Len(q) \in Nat /\ n \in Nat /\ n > 1 /\ \A m \in 1..n - 2 : p[m] = q[m + 1]
  OBVIOUS
<1> HIDE DEF p
<1>2. ASSUME NEW m \in 1..n - 2, IsPut(p[m]), \A l \in m + 1..n - 2 : ~IsPut(p[l])
      PROVE  Agrees(s, p[m].snap, ks)
  <2>1. m + 1 \in 1..n - 1 /\ IsPut(q[m + 1]) /\ p[m] = q[m + 1]
    BY <1>1, <1>2
  <2>2. ASSUME NEW l \in m + 2..n - 1 PROVE ~IsPut(q[l])
    <3>1. l - 1 \in m + 1..n - 2 /\ l - 1 \in 1..n - 2 /\ (l - 1) + 1 = l
      BY <1>1
    <3> QED BY <1>1, <1>2, <3>1
  <2>3. \A l \in (m + 1) + 1..n - 1 : ~IsPut(q[l])
    BY <2>2
  <2> QED BY <2>1, <2>3 DEF RestsOn
<1>3. ASSUME \A l \in 1..n - 2 : ~IsPut(p[l])
      PROVE  Agrees(s, b, ks)
  <2>1. ASSUME NEW l \in 2..n - 1 PROVE ~IsPut(q[l])
    <3>1. l - 1 \in 1..n - 2 /\ (l - 1) + 1 = l
      BY <1>1
    <3> QED BY <1>1, <1>3, <3>1
  <2>2. CASE IsPut(q[1])
    <3>1. 1 \in 1..n - 1 /\ \A l \in 1 + 1..n - 1 : ~IsPut(q[l])
      BY <1>1, <2>1
    <3> QED BY <2>2, <3>1 DEF RestsOn
  <2>3. CASE ~IsPut(q[1])
    <3>1. \A l \in 1..n - 1 : ~IsPut(q[l])
      BY <1>1, <2>1, <2>3
    <3> QED BY <2>3, <3>1 DEF RestsOn
  <2> QED BY <2>2, <2>3
<1> HIDE DEF b
<1>4. RestsOn(p, n - 1, s, ks, b)
  BY <1>1, <1>2, <1>3 DEF RestsOn
<1> QED BY <1>4 DEF p, b

\* Only which calls are puts, and of what, matters.
LEMMA RestsAlike ==
  ASSUME NEW q, NEW p, NEW n \in Nat,
         \A m \in 1..n - 1 : (IsPut(p[m]) <=> IsPut(q[m])) /\ (IsPut(q[m]) => p[m].snap = q[m].snap),
         NEW s, NEW ks, NEW base, RestsOn(q, n, s, ks, base)
  PROVE  RestsOn(p, n, s, ks, base)
BY DEF RestsOn

\* A copy that rests on the calls before it still does so, but for what changes in it.
LEMMA RestsChanged ==
  ASSUME NEW q, NEW n \in Nat, NEW s, NEW ks, NEW base, RestsOn(q, n, s, ks, base),
         NEW t, NEW more, Agrees(t, s, more)
  PROVE  RestsOn(q, n, t, ks \cup more, base)
BY DEF RestsOn, Agrees

(***************************************************************************)
(* The invariant.  A key a context has and never shared, it changed        *)
(* itself; a copy, or a put, that nothing has overtaken rests on the calls *)
(* before it; a read that nothing has overtaken is what the record is.     *)
(***************************************************************************)
HasPut(q) == \E n \in 1..Len(q) : IsPut(q[n])
CopyRests(q, s, ks, f, sh) ==
  /\ \A k \in Key : s.local[k] # 0 /\ k \notin s.synced => k \in ks
  /\ s.synced # {} => sh # NoSnap \/ HasPut(q)
  /\ f => RestsOn(q, Len(q) + 1, s.local, ks, Full(sh))
PutsRest(q, sh) ==
  \A n \in 1..Len(q) : IsPut(q[n]) /\ q[n].fresh => RestsOn(q, n, q[n].snap, q[n].edits, Full(sh))
ReadsRest(g, sh) ==
  \A m \in 1..Len(g) : ~IsPut(g[m]) => /\ g[m].now => g[m].snap = sh
                                       /\ g[m].snap # NoSnap => sh # NoSnap
RestsAt(c) ==
  /\ CopyRests(idb[c], ctx[c], edits[c], fresh[c], shared)
  /\ PutsRest(idb[c], shared) /\ ReadsRest(got[c], shared)
RestsInv == \A c \in Ctx : RestsAt(c)

LEMMA Elsewhere ==
  ASSUME NEW d \in Ctx, RestsAt(d), idb'[d] = idb[d], ctx'[d] = ctx[d], edits'[d] = edits[d],
         fresh'[d] = fresh[d], got'[d] = got[d], shared' = shared
  PROVE  RestsAt(d)'
<1>1. \A s : Full(s)' = Full(s)
  BY DEF Full, Empty
<1> QED BY DEF RestsAt, CopyRests, PutsRest, ReadsRest, RestsOn, Agrees, HasPut, IsPut, Full, Empty

LEMMA GetRests ==
  ASSUME NEW q \in Seq(Call), NEW e \in Call, ~IsPut(e), NEW s, NEW ks, NEW f, NEW sh,
         CopyRests(q, s, ks, f, sh), PutsRest(q, sh)
  PROVE  CopyRests(Append(q, e), s, ks, f, sh) /\ PutsRest(Append(q, e), sh)
<1> DEFINE p == Append(q, e)
           L == Len(q)
<1>1. L \in Nat /\ Len(p) = L + 1 /\ p[L + 1] = e /\ \A m \in 1..L : p[m] = q[m]
  OBVIOUS
<1>2. HasPut(q) => HasPut(p)
  <2> HIDE DEF p
  <2> QED BY <1>1 DEF HasPut
<1>3. f => RestsOn(p, Len(p) + 1, s.local, ks, Full(sh))
  BY RestsPastGet DEF CopyRests
<1>4. ASSUME NEW n \in 1..L + 1, IsPut(p[n]), p[n].fresh
      PROVE  RestsOn(p, n, p[n].snap, p[n].edits, Full(sh))
  <2>1. n \in 1..L /\ p[n] = q[n]
    <3> HIDE DEF p, L
    <3> QED BY <1>1, <1>4
  <2>2. RestsOn(q, n, q[n].snap, q[n].edits, Full(sh))
    BY <1>4, <2>1 DEF PutsRest
  <2>3. n \in 1..Len(q) + 1
    BY <2>1
  <2>4. RestsOn(p, n, q[n].snap, q[n].edits, Full(sh))
    BY <2>2, <2>3, RestsAppended
  <2> QED BY <2>1, <2>4
<1> HIDE DEF p, L
<1>5. PutsRest(p, sh)
  BY <1>1, <1>4 DEF PutsRest
<1>6. CopyRests(p, s, ks, f, sh)
  BY <1>2, <1>3 DEF CopyRests
<1> QED BY <1>5, <1>6 DEF p

\* Capturing a copy that rests on the calls before: the put rests on them too, and
\* the copy on the put.
LEMMA SaveForRests ==
  ASSUME TypesHold, NEW c \in Ctx, NEW s \in Copy, NEW ks \in SUBSET Key, NEW who \in Who, who # Boot,
         who \in Op => Asked(who)', fresh'[c] \in BOOLEAN,
         SaveFor(c, s, ks, who), CopyRests(idb[c], s, ks, fresh'[c], shared), PutsRest(idb[c], shared)
  PROVE  /\ CopyRests(idb'[c], ctx'[c], edits'[c], fresh'[c], shared) /\ PutsRest(idb'[c], shared)
         /\ \A d \in Ctx \ {c} : idb'[d] = idb[d] /\ ctx'[d] = ctx[d] /\ edits'[d] = edits[d]
<1> DEFINE q == idb[c]
           e == Put(who, s.local, ks, fresh'[c])
           p == Append(q, e)
           L == Len(q)
<1>1. /\ q \in Seq(KnownCall) /\ ctx \in [Ctx -> Copy] /\ edits \in [Ctx -> SUBSET Key]
      /\ idb \in [Ctx -> Seq(KnownCall)]
  BY DEF TypesHold
<1>2. \A d \in Ctx \ {c} : idb'[d] = idb[d] /\ ctx'[d] = ctx[d] /\ edits'[d] = edits[d]
  BY <1>1 DEF SaveFor
<1>3. CASE ~Unsaved(s)
  <2>1. idb'[c] = q /\ ctx'[c] = s /\ edits'[c] = ks
    BY <1>1, <1>3 DEF SaveFor
  <2> QED BY <1>2, <2>1
<1>4. CASE Unsaved(s)
  <2>1. idb'[c] = p /\ ctx'[c] = MarkSaved(s) /\ edits'[c] = {}
    BY <1>1, <1>4 DEF SaveFor
  <2>2. s.local \in Store
    BY DEF Copy
  <2>3. IsPut(e) /\ e.snap = s.local /\ e.edits = ks /\ e.fresh = fresh'[c] /\ e \in Call
    BY <2>2, PutTyped
  <2>4. q \in Seq(Call)
    <3>1. KnownCall \subseteq Call
      BY DEF KnownCall
    <3> QED BY <1>1, <3>1, QueuesGrow
  <2> DEFINE t == MarkSaved(s)
  <2>5. t.local = s.local /\ t.synced = Present(s.local)
    BY DEF MarkSaved, Copy
  <2> HIDE DEF e, t
  <2>6. L \in Nat /\ Len(p) = L + 1 /\ p[L + 1] = e /\ \A m \in 1..L : p[m] = q[m]
    BY <2>3, <2>4
  <2>7. RestsOn(p, Len(p) + 1, t.local, {}, Full(shared))
    <3>1. Agrees(t.local, e.snap, {})
      BY <2>3, <2>5 DEF Agrees
    <3> QED BY <3>1, <2>3, <2>4, RestsPastPut
  <2>8. HasPut(p)
    <3> HIDE DEF p
    <3> QED BY <2>3, <2>6 DEF HasPut
  <2>9. ASSUME NEW n \in 1..L + 1, IsPut(p[n]), p[n].fresh
        PROVE  RestsOn(p, n, p[n].snap, p[n].edits, Full(shared))
    <3>1. n \in 1..Len(q) + 1
      OBVIOUS
    <3>2. CASE n \in 1..L
      <4>1. p[n] = q[n]
        BY <2>6, <3>2
      <4>2. RestsOn(q, n, q[n].snap, q[n].edits, Full(shared))
        BY <2>9, <3>2, <4>1 DEF PutsRest
      <4>3. RestsOn(p, n, q[n].snap, q[n].edits, Full(shared))
        BY <4>2, <3>1, <2>3, <2>4, RestsAppended
      <4> QED BY <4>1, <4>3
    <3>3. CASE n = L + 1
      <4>1. p[n] = e /\ fresh'[c]
        BY <2>3, <2>6, <2>9, <3>3
      <4>2. RestsOn(q, n, s.local, ks, Full(shared))
        BY <3>3, <4>1 DEF CopyRests
      <4>3. RestsOn(p, n, s.local, ks, Full(shared))
        BY <4>2, <3>1, <2>3, <2>4, RestsAppended
      <4> QED BY <2>3, <4>1, <4>3
    <3> QED BY <2>6, <3>2, <3>3
  <2> HIDE DEF p, L
  <2>10. PutsRest(p, shared)
    BY <2>6, <2>9 DEF PutsRest
  <2>11. CopyRests(p, t, {}, fresh'[c], shared)
    <3>1. \A k \in Key : t.local[k] # 0 => k \in t.synced
      BY <2>5 DEF Present
    <3> QED BY <3>1, <2>7, <2>8 DEF CopyRests
  <2> QED BY <1>2, <2>1, <2>10, <2>11 DEF t
<1> QED BY <1>3, <1>4

LEMMA ChangedRests ==
  ASSUME NEW q \in Seq(KnownCall), NEW s, NEW ks, NEW f, NEW sh, CopyRests(q, s, ks, f, sh),
         NEW t, NEW more, t.synced = s.synced, Agrees(t.local, s.local, more)
  PROVE  CopyRests(q, t, ks \cup more, f, sh)
<1>1. \A k \in Key : t.local[k] # 0 /\ k \notin t.synced => k \in ks \cup more
  BY DEF CopyRests, Agrees
<1>2. f => RestsOn(q, Len(q) + 1, t.local, ks \cup more, Full(sh))
  <2>1. Len(q) + 1 \in Nat
    OBVIOUS
  <2> QED BY <2>1, RestsChanged DEF CopyRests
<1> QED BY <1>1, <1>2 DEF CopyRests

LEMMA DispatchedRests ==
  ASSUME NEW s \in Copy, NEW r \in Request
  PROVE  /\ Dispatched(s, r).synced = s.synced
         /\ Agrees(Dispatched(s, r).local, s.local, Changed(r))
<1>1. CASE r.op = "read"
  BY <1>1 DEF Dispatched, Agrees
<1>2. CASE r.op # "read"
  <2>1. PICK v : Dispatched(s, r) = [s EXCEPT !.local[r.key] = v]
    BY <1>2 DEF Dispatched, Request, Kinds
  <2>2. Changed(r) = {r.key}
    BY <1>2 DEF Changed
  <2> QED BY <2>1, <2>2 DEF Copy, Store, Agrees
<1> QED BY <1>1, <1>2

\* The merge: what it takes from the snapshot is the snapshot's, what it keeps this
\* context changed itself, and what it drops the snapshot has not.
LEMMA RestoredRests ==
  ASSUME NEW q \in Seq(KnownCall), NEW s \in Copy, NEW ks, NEW f, NEW sh \in Snapshot,
         CopyRests(q, s, ks, f, sh), NEW snap \in Snapshot, snap # NoSnap => sh # NoSnap,
         NEW now, now => snap = sh /\ ~HasPut(q)
  PROVE  CopyRests(q, Restored(s, snap), ks, now, sh)
<1>1. CASE snap = NoSnap
  <2>1. Restored(s, snap) = s
    BY <1>1 DEF Restored
  <2>2. ASSUME now PROVE RestsOn(q, Len(q) + 1, s.local, ks, Full(sh))
    <3>1. s.synced = {} /\ Full(sh) = Empty
      BY <1>1, <2>2 DEF CopyRests, Full
    <3>2. Agrees(s.local, Full(sh), ks)
      BY <3>1 DEF CopyRests, Agrees, Empty
    <3> QED BY <2>2, <3>2 DEF RestsOn, HasPut
  <2> QED BY <2>1, <2>2 DEF CopyRests
<1>2. CASE snap # NoSnap
  <2> DEFINE merged == [k \in Key |-> IF snap[k] # 0 THEN snap[k]
                                      ELSE IF k \in s.synced THEN 0 ELSE s.local[k]]
             t == Restored(s, snap)
  <2>1. t.local = merged /\ t.synced = Present(snap)
    BY <1>2 DEF Restored
  <2>2. \A k \in Key : merged[k] # snap[k] => snap[k] = 0 /\ k \notin s.synced /\ s.local[k] # 0
    OBVIOUS
  <2>3. \A k \in Key : merged[k] # snap[k] => k \in ks
    BY <2>2 DEF CopyRests
  <2>4. \A k \in Key : t.local[k] # 0 /\ k \notin t.synced => k \in ks
    <3>1. \A k \in Key : k \notin t.synced => snap[k] = 0
      BY <2>1 DEF Present
    <3> HIDE DEF merged, t
    <3> QED BY <2>1, <2>3, <3>1
  <2>5. ASSUME now PROVE RestsOn(q, Len(q) + 1, t.local, ks, Full(sh))
    <3>1. Full(sh) = snap
      BY <1>2, <2>5 DEF Full
    <3> HIDE DEF merged
    <3>2. Agrees(t.local, Full(sh), ks)
      BY <2>1, <2>3, <3>1 DEF Agrees
    <3> QED BY <2>5, <3>2 DEF RestsOn, HasPut
  <2> HIDE DEF t
  <2>6. CopyRests(q, t, ks, now, sh)
    BY <1>2, <2>4, <2>5 DEF CopyRests
  <2> QED BY <2>6 DEF t
<1> QED BY <1>1, <1>2

\* Adding a read to the calls of one context, nothing else that counts.
LEMMA AskRests ==
  ASSUME TypesHold, RestsInv, NEW c \in Ctx, NEW e \in Call, ~IsPut(e),
         idb' = [idb EXCEPT ![c] = Append(@, e)], UNCHANGED <<shared, ctx, got, edits, fresh>>
  PROVE  RestsInv'
<1>1. \A d \in Ctx \ {c} : RestsAt(d)'
  BY Elsewhere DEF RestsInv, TypesHold
<1>2. RestsAt(c)'
  <2>1. CopyRests(idb'[c], ctx[c], edits[c], fresh[c], shared) /\ PutsRest(idb'[c], shared)
    <3>1. idb[c] \in Seq(KnownCall) /\ idb'[c] = Append(idb[c], e) /\ KnownCall \subseteq Call
      BY DEF TypesHold, KnownCall
    <3>2. idb[c] \in Seq(Call)
      BY <3>1, QueuesGrow
    <3> QED BY <3>1, <3>2, GetRests DEF RestsInv, RestsAt
  <2>2. ReadsRest(got[c], shared)
    BY DEF RestsInv, RestsAt
  <2> QED BY <2>1, <2>2 DEF RestsAt, CopyRests, PutsRest, ReadsRest, RestsOn, Agrees, HasPut,
                            IsPut, Full, Empty
<1> QED BY <1>1, <1>2 DEF RestsInv

\* The turn of one context: the others keep what they have.
LEMMA TurnRests ==
  ASSUME RestsInv, NEW c \in Ctx, shared' = shared,
         \A d \in Ctx \ {c} : /\ idb'[d] = idb[d] /\ ctx'[d] = ctx[d] /\ edits'[d] = edits[d]
                              /\ fresh'[d] = fresh[d] /\ got'[d] = got[d],
         CopyRests(idb'[c], ctx'[c], edits'[c], fresh'[c], shared), PutsRest(idb'[c], shared),
         ReadsRest(got'[c], shared)
  PROVE  RestsInv'
<1>1. \A d \in Ctx \ {c} : RestsAt(d)'
  BY Elsewhere DEF RestsInv
<1>2. RestsAt(c)'
  BY DEF RestsAt, CopyRests, PutsRest, ReadsRest, RestsOn, Agrees, HasPut, IsPut, Full, Empty
<1> QED BY <1>1, <1>2 DEF RestsInv

LEMMA TabServesRests ==
  ASSUME TypesHold, NEW c \in Ctx, NEW i \in Op, NEW s \in Copy, NEW r \in Request,
         TabServes(c, i, s, r), Asked(i)', fresh'[c] \in BOOLEAN,
         CopyRests(idb[c], s, edits[c], fresh'[c], shared), PutsRest(idb[c], shared)
  PROVE  /\ CopyRests(idb'[c], ctx'[c], edits'[c], fresh'[c], shared) /\ PutsRest(idb'[c], shared)
         /\ \A d \in Ctx \ {c} : idb'[d] = idb[d] /\ ctx'[d] = ctx[d] /\ edits'[d] = edits[d]
<1> DEFINE t == Dispatched(s, r)
           ks == edits[c] \cup Changed(r)
<1>1. t \in Copy /\ SaveFor(c, t, ks, i) /\ i \in Who /\ i # Boot
  BY DispatchedTyped DEF TabServes, Who, Op, Boot
<1>2. ks \in SUBSET Key /\ idb[c] \in Seq(KnownCall)
  BY DEF TypesHold, Changed, Request
<1>3. t.synced = s.synced /\ Agrees(t.local, s.local, Changed(r))
  BY DispatchedRests
<1> HIDE DEF t
<1>4. CopyRests(idb[c], t, ks, fresh'[c], shared)
  BY <1>2, <1>3, ChangedRests
<1> HIDE DEF ks
<1> QED BY <1>1, <1>2, <1>4, SaveForRests

LEMMA ArriveRests ==
  ASSUME TypesHold, RestsInv, TypesHold', NEW c \in Ctx, Arrive(c)
  PROVE  RestsInv'
<1>0. PICK i \in Op : i = ops + 1
  BY NanoBounds DEF Arrive, MayChange, Op, TypesHold
<1>1. PICK op \in Kinds, k \in Key :
        LET r == [at |-> c, op |-> op, key |-> k, version |-> i, phase |-> "refresh"] IN
        \/ /\ ~restoring[c]
           /\ restoring' = [restoring EXCEPT ![c] = TRUE]
           /\ idb' = [idb EXCEPT ![c] = Append(@, Get(i))]
           /\ req' = [req EXCEPT ![i] = r]
           /\ UNCHANGED <<ctx, edits>>
        \/ /\ restoring[c] /\ c \in Tab
           /\ TabServes(c, i, ctx[c], r)
           /\ UNCHANGED restoring
        \/ /\ restoring[c] /\ c \in Relay
           /\ req' = [req EXCEPT ![i] = [r EXCEPT !.phase = "serve"]]
           /\ UNCHANGED <<restoring, ctx, idb, edits>>
  BY <1>0 DEF Arrive
<1> DEFINE r == [at |-> c, op |-> op, key |-> k, version |-> i, phase |-> "refresh"]
<1>2. UNCHANGED <<shared, got, fresh>>
  BY DEF Arrive
<1>3. r \in Request
  BY DEF Request, Phases
<1>4. CASE idb' = [idb EXCEPT ![c] = Append(@, Get(i))] /\ UNCHANGED <<ctx, edits>>
           /\ req' = [req EXCEPT ![i] = r]
  <2>1. Get(i) \in Call /\ ~IsPut(Get(i))
    BY GetTyped DEF Who
  <2> QED BY <1>2, <1>4, <2>1, AskRests
<1>5. CASE TabServes(c, i, ctx[c], r)
  <2>1. Asked(i)'
    <3>1. req'[i] = [r EXCEPT !.phase = IF Unsaved(Dispatched(ctx[c], r)) THEN "put" ELSE "done"]
      BY <1>5 DEF TabServes, TypesHold
    <3> QED BY <3>1 DEF Asked
  <2>2. /\ CopyRests(idb[c], ctx[c], edits[c], fresh'[c], shared) /\ PutsRest(idb[c], shared)
        /\ ReadsRest(got'[c], shared)
    BY <1>2 DEF RestsInv, RestsAt
  <2>3. ctx[c] \in Copy /\ fresh'[c] \in BOOLEAN
    BY <1>2 DEF TypesHold
  <2> HIDE DEF r
  <2>4. /\ CopyRests(idb'[c], ctx'[c], edits'[c], fresh'[c], shared) /\ PutsRest(idb'[c], shared)
        /\ \A d \in Ctx \ {c} : idb'[d] = idb[d] /\ ctx'[d] = ctx[d] /\ edits'[d] = edits[d]
    BY <1>3, <1>5, <2>1, <2>2, <2>3, TabServesRests
  <2> QED BY <1>2, <2>2, <2>4, TurnRests
<1>6. CASE UNCHANGED <<ctx, idb, edits>>
  BY <1>2, <1>6, Elsewhere DEF RestsInv
<1> QED BY <1>1, <1>4, <1>5, <1>6

LEMMA RelayRests ==
  ASSUME TypesHold, RestsInv, TypesHold', NEW i \in Op, RelayServes(i) \/ RelaySaves(i)
  PROVE  RestsInv'
<1> DEFINE c == req[i].at
<1>1. req[i] \in Request /\ c \in Ctx /\ ctx[c] \in Copy /\ Asked(i)
  BY DEF TypesHold, RelayServes, RelaySaves, Asked, Request
<1>2. UNCHANGED <<shared, got, fresh>>
  BY DEF RelayServes, RelaySaves
<1>3. /\ CopyRests(idb[c], ctx[c], edits[c], fresh'[c], shared) /\ PutsRest(idb[c], shared)
      /\ ReadsRest(got'[c], shared) /\ idb[c] \in Seq(KnownCall)
  BY <1>1, <1>2 DEF RestsInv, RestsAt, TypesHold
<1>4. CASE RelayServes(i)
  <2> DEFINE t == Dispatched(ctx[c], req[i])
  <2>1. t.synced = ctx[c].synced /\ Agrees(t.local, ctx[c].local, Changed(req[i]))
    BY <1>1, DispatchedRests
  <2>2. /\ ctx'[c] = t /\ edits'[c] = edits[c] \cup Changed(req[i]) /\ idb' = idb
        /\ \A d \in Ctx \ {c} : ctx'[d] = ctx[d] /\ edits'[d] = edits[d]
    BY <1>1, <1>4 DEF RelayServes, TypesHold
  <2> HIDE DEF c, t
  <2>3. CopyRests(idb'[c], ctx'[c], edits'[c], fresh'[c], shared)
    <3> DEFINE more == Changed(req[i])
    <3>1. t.synced = ctx[c].synced /\ Agrees(t.local, ctx[c].local, more)
      BY <2>1
    <3> HIDE DEF more
    <3>2. CopyRests(idb[c], t, edits[c] \cup more, fresh'[c], shared)
      BY <1>3, <3>1, ChangedRests
    <3> QED BY <2>2, <3>2 DEF more
  <2>4. /\ PutsRest(idb'[c], shared) /\ c \in Ctx /\ shared' = shared
        /\ \A d \in Ctx \ {c} : /\ idb'[d] = idb[d] /\ ctx'[d] = ctx[d] /\ edits'[d] = edits[d]
                              /\ fresh'[d] = fresh[d] /\ got'[d] = got[d]
    BY <1>1, <1>2, <1>3, <2>2
  <2> QED BY <1>3, <2>3, <2>4, TurnRests
<1>5. CASE RelaySaves(i)
  <2>1. SaveFor(c, ctx[c], edits[c], i) /\ edits[c] \in SUBSET Key /\ fresh'[c] \in BOOLEAN
    BY <1>1, <1>2, <1>5 DEF RelaySaves, TypesHold
  <2>2. i \in Who /\ i # Boot
    BY DEF Who, Op, Boot
  <2>3. Asked(i)'
    <3>1. req'[i].phase \in {"put", "done"}
      BY <1>1, <1>5 DEF RelaySaves, TypesHold, Request
    <3> QED BY <3>1 DEF Asked
  <2> HIDE DEF c
  <2>4. /\ CopyRests(idb'[c], ctx'[c], edits'[c], fresh'[c], shared) /\ PutsRest(idb'[c], shared)
        /\ \A d \in Ctx \ {c} : idb'[d] = idb[d] /\ ctx'[d] = ctx[d] /\ edits'[d] = edits[d]
    BY <1>1, <1>3, <2>1, <2>2, <2>3, SaveForRests
  <2> QED BY <1>1, <1>2, <1>3, <2>4, TurnRests
<1> QED BY <1>4, <1>5

LEMMA ApplyRests ==
  ASSUME TypesHold, RestsInv, TypesHold', NEW c \in Ctx, Apply(c)
  PROVE  RestsInv'
<1> DEFINE g == Head(got[c])
           s == Restored(ctx[c], g.snap)
           now == g.now /\ ~Saving(c)
<1>1. /\ g \in KnownResult /\ got[c] \in Seq(KnownResult) /\ g = got[c][1] /\ ~IsPut(g)
      /\ Len(got[c]) \in Nat /\ Len(got[c]) > 0
  BY Shortened DEF TypesHold, Apply
<1>2. g.who \in Who /\ g.snap \in Snapshot /\ (g.who \in Op => Asked(g.who))
  BY <1>1, ResultKinds DEF KnownResult
<1>3. s \in Copy
  BY <1>2, RestoredTyped DEF TypesHold
<1>4. /\ UNCHANGED shared /\ fresh' = [fresh EXCEPT ![c] = now] /\ got' = [got EXCEPT ![c] = Tail(@)]
  BY DEF Apply
<1>5. /\ \A d \in Ctx \ {c} : fresh'[d] = fresh[d] /\ got'[d] = got[d]
      /\ fresh'[c] = now /\ got'[c] = Tail(got[c]) /\ fresh'[c] \in BOOLEAN
  <2> HIDE DEF now
  <2> QED BY <1>4 DEF TypesHold
<1>6. (g.snap # NoSnap => shared # NoSnap) /\ (now => g.snap = shared /\ ~HasPut(idb[c]))
  <2>1. (g.now => g.snap = shared) /\ (g.snap # NoSnap => shared # NoSnap)
    BY <1>1 DEF RestsInv, RestsAt, ReadsRest
  <2>2. HasPut(idb[c]) => Saving(c)
    <3>1. DOMAIN idb[c] = 1..Len(idb[c])
      BY DEF TypesHold
    <3> QED BY <3>1 DEF HasPut, Saving
  <2> QED BY <2>1, <2>2
<1>7. PutsRest(idb[c], shared) /\ idb[c] \in Seq(KnownCall) /\ shared \in Snapshot /\ ctx[c] \in Copy
      /\ CopyRests(idb[c], ctx[c], edits[c], fresh[c], shared)
  BY DEF RestsInv, RestsAt, TypesHold
<1>8. ReadsRest(got'[c], shared)
  <2>1. got'[c] = Tail(got[c]) /\ Len(got'[c]) = Len(got[c]) - 1
        /\ \A m \in 1..Len(got[c]) - 1 : got'[c][m] = got[c][m + 1]
    BY <1>1, <1>5, Shortened
  <2>2. ReadsRest(got[c], shared)
    BY DEF RestsInv, RestsAt
  <2>3. \A m \in 1..Len(got'[c]) : m + 1 \in 1..Len(got[c]) /\ got'[c][m] = got[c][m + 1]
    BY <1>1, <2>1
  <2> QED BY <2>2, <2>3 DEF ReadsRest
<1> HIDE DEF g, now
<1>9. CopyRests(idb[c], s, edits[c], now, shared)
  BY <1>2, <1>6, <1>7, RestoredRests
<1> HIDE DEF s
<1>10. CopyRests(idb[c], s, edits[c], fresh'[c], shared)
  BY <1>5, <1>9
<1>11. ASSUME NEW w \in Op, w = g.who, TabServes(c, w, s, req[w])
       PROVE  RestsInv'
  <2>1. req[w] \in Request
    BY <1>2, <1>11 DEF TypesHold
  <2>2. Asked(w)'
    <3>1. req'[w] = [req[w] EXCEPT !.phase = IF Unsaved(Dispatched(s, req[w])) THEN "put" ELSE "done"]
      BY <1>11 DEF TabServes, TypesHold
    <3> QED BY <2>1, <3>1 DEF Asked, Request
  <2>3. /\ CopyRests(idb'[c], ctx'[c], edits'[c], fresh'[c], shared) /\ PutsRest(idb'[c], shared)
        /\ \A d \in Ctx \ {c} : idb'[d] = idb[d] /\ ctx'[d] = ctx[d] /\ edits'[d] = edits[d]
    BY <1>3, <1>5, <1>7, <1>10, <1>11, <2>1, <2>2, TabServesRests
  <2> QED BY <1>4, <1>5, <1>8, <2>3, TurnRests
<1>12. CASE ctx' = [ctx EXCEPT ![c] = s] /\ UNCHANGED <<idb, edits>>
  <2>1. ctx'[c] = s /\ \A d \in Ctx \ {c} : ctx'[d] = ctx[d]
    BY <1>12 DEF TypesHold
  <2> QED BY <1>4, <1>5, <1>7, <1>8, <1>10, <1>12, <2>1, TurnRests
<1>13. \/ \E w \in Op : w = g.who /\ TabServes(c, w, s, req[w])
       \/ ctx' = [ctx EXCEPT ![c] = s] /\ UNCHANGED <<idb, edits>>
  BY DEF Apply, g, s
<1> QED BY <1>11, <1>12, <1>13

LEMMA IssueRests ==
  ASSUME TypesHold, RestsInv, NEW c \in Ctx, Issue(c)
  PROVE  RestsInv'
<1>1. PICK n \in DOMAIN idb[c] : IsPut(idb[c][n]) /\ idb' = [idb EXCEPT ![c][n].issued = TRUE]
  BY DEF Issue
<1> DEFINE q == idb[c]
           e == [q[n] EXCEPT !.issued = TRUE]
           p == idb'[c]
<1>2. UNCHANGED <<shared, ctx, got, edits, fresh>>
  BY DEF Issue
<1>3. q \in Seq(KnownCall) /\ q[n] \in Call /\ idb \in [Ctx -> Seq(KnownCall)]
  <2>1. q \in Seq(KnownCall) /\ idb \in [Ctx -> Seq(KnownCall)]
    BY DEF TypesHold
  <2>2. q[n] \in KnownCall
    BY <2>1
  <2> QED BY <2>1, <2>2 DEF KnownCall
<1>4. p = [q EXCEPT ![n] = e] /\ \A d \in Ctx \ {c} : idb'[d] = idb[d]
  BY <1>1, <1>3
<1>5. /\ IsPut(e) /\ e.snap = q[n].snap /\ e.edits = q[n].edits /\ e.fresh = q[n].fresh
  BY <1>1, <1>3, IssuedCall
<1>6. Len(q) \in Nat /\ Len(p) = Len(q) /\ DOMAIN q = 1..Len(q) /\ p[n] = e
      /\ \A m \in 1..Len(q) : m # n => p[m] = q[m]
  <2> HIDE DEF e, KnownCall
  <2> QED BY <1>3, <1>4
<1>7. \A m \in 1..Len(q) : /\ IsPut(p[m]) <=> IsPut(q[m])
                           /\ IsPut(q[m]) => /\ p[m].snap = q[m].snap /\ p[m].edits = q[m].edits
                                             /\ p[m].fresh = q[m].fresh
  <2> HIDE DEF e, p, q
  <2>1. ASSUME NEW m \in 1..Len(q), m = n
        PROVE  /\ IsPut(p[m]) <=> IsPut(q[m])
               /\ p[m].snap = q[m].snap /\ p[m].edits = q[m].edits /\ p[m].fresh = q[m].fresh
    BY <1>1, <1>5, <1>6, <2>1 DEF q
  <2>2. ASSUME NEW m \in 1..Len(q), m # n PROVE p[m] = q[m]
    BY <1>6, <2>2
  <2> QED BY <2>1, <2>2
<1>8. /\ CopyRests(q, ctx[c], edits[c], fresh[c], shared) /\ PutsRest(q, shared)
      /\ ReadsRest(got[c], shared)
  BY DEF RestsInv, RestsAt
<1> HIDE DEF p, q, e
<1>9. \A m \in 1..Len(q) + 1 : \A s, ks, base : RestsOn(q, m, s, ks, base) => RestsOn(p, m, s, ks, base)
  <2>1. ASSUME NEW m \in 1..Len(q) + 1, NEW s, NEW ks, NEW base, RestsOn(q, m, s, ks, base)
        PROVE  RestsOn(p, m, s, ks, base)
    <3>1. m \in Nat /\ \A l \in 1..m - 1 : l \in 1..Len(q)
      BY <1>6
    <3>2. \A l \in 1..m - 1 : (IsPut(p[l]) <=> IsPut(q[l])) /\ (IsPut(q[l]) => p[l].snap = q[l].snap)
      BY <1>7, <3>1
    <3> QED BY <2>1, <3>1, <3>2, RestsAlike
  <2> QED BY <2>1
<1>10. PutsRest(p, shared)
  BY <1>6, <1>7, <1>8, <1>9 DEF PutsRest
<1>11. CopyRests(p, ctx[c], edits[c], fresh[c], shared)
  <2>1. HasPut(q) => HasPut(p)
    BY <1>6, <1>7 DEF HasPut
  <2>2. Len(q) + 1 \in 1..Len(q) + 1
    BY <1>6
  <2> QED BY <1>6, <1>8, <1>9, <2>1, <2>2 DEF CopyRests
<1> QED BY <1>2, <1>4, <1>8, <1>10, <1>11, TurnRests DEF p

LEMMA ExecuteGetRests ==
  ASSUME TypesHold, RestsInv, NEW c \in Ctx, ExecuteGet(c)
  PROVE  RestsInv'
<1> DEFINE q == idb[c]
           g == got[c]
           L == Len(q)
           e == Read(Head(q).who, shared)
<1>1. UNCHANGED <<shared, ctx, edits, fresh>> /\ q # <<>> /\ ~IsPut(Head(q))
  BY DEF ExecuteGet
<1>2. q \in Seq(KnownCall) /\ g \in Seq(KnownResult) /\ got \in [Ctx -> Seq(KnownResult)]
      /\ idb \in [Ctx -> Seq(KnownCall)]
  BY DEF TypesHold
<1>3. /\ idb'[c] = Tail(q) /\ got'[c] = Append(g, e)
      /\ \A d \in Ctx \ {c} : idb'[d] = idb[d] /\ got'[d] = got[d]
  BY <1>2 DEF ExecuteGet
<1>4. /\ L \in Nat /\ L > 0 /\ ~IsPut(q[1]) /\ Len(Tail(q)) = L - 1
      /\ \A n \in 1..L - 1 : Tail(q)[n] = q[n + 1]
  BY <1>1, <1>2, Shortened
<1>5. e \in Result /\ ~IsPut(e) /\ e.snap = shared
  <2>1. Head(q) \in KnownCall
    BY <1>1, <1>2, Shortened
  <2> QED BY <2>1, CallKinds, ReadTyped DEF KnownCall, TypesHold
<1>6. /\ CopyRests(q, ctx[c], edits[c], fresh[c], shared) /\ PutsRest(q, shared)
      /\ ReadsRest(g, shared)
  BY DEF RestsInv, RestsAt
<1>7. ASSUME NEW n \in 2..L + 1, NEW s, NEW ks, NEW base, RestsOn(q, n, s, ks, base)
      PROVE  RestsOn(Tail(q), n - 1, s, ks, base)
  <2>1. RestsOn(Tail(q), n - 1, s, ks, IF IsPut(q[1]) THEN q[1].snap ELSE base)
    BY <1>1, <1>2, <1>7, RestsShortened
  <2> QED BY <1>4, <2>1
<1> DEFINE p == Tail(q)
<1>8. PutsRest(p, shared)
  <2>1. ASSUME NEW n \in 1..L - 1, IsPut(p[n]), p[n].fresh
        PROVE  RestsOn(p, n, p[n].snap, p[n].edits, Full(shared))
    <3>1. n + 1 \in 1..L /\ n + 1 \in 2..L + 1 /\ p[n] = q[n + 1] /\ (n + 1) - 1 = n
      BY <1>4
    <3>2. RestsOn(q, n + 1, q[n + 1].snap, q[n + 1].edits, Full(shared))
      BY <1>6, <2>1, <3>1 DEF PutsRest
    <3>3. RestsOn(p, (n + 1) - 1, q[n + 1].snap, q[n + 1].edits, Full(shared))
      BY <1>7, <3>1, <3>2
    <3> QED BY <3>1, <3>3
  <2> HIDE DEF p, L
  <2> QED BY <1>4, <2>1 DEF PutsRest, p, L
<1>9. CopyRests(p, ctx[c], edits[c], fresh[c], shared)
  <2>1. HasPut(q) => HasPut(p)
    <3>1. ASSUME NEW n \in 1..L, IsPut(q[n]) PROVE HasPut(p)
      <4>1. n - 1 \in 1..L - 1 /\ p[n - 1] = q[n]
        <5>1. n # 1
          BY <1>4, <3>1
        <5>2. n - 1 \in 1..L - 1 /\ (n - 1) + 1 = n
          BY <1>4, <5>1
        <5> QED BY <1>4, <5>2
      <4> HIDE DEF p, L
      <4> QED BY <1>4, <3>1, <4>1 DEF HasPut, p
    <3> QED BY <3>1 DEF HasPut
  <2>2. L + 1 \in 2..L + 1 /\ (L + 1) - 1 = Len(p) + 1
    BY <1>4
  <2>3. fresh[c] => RestsOn(p, (L + 1) - 1, ctx[c].local, edits[c], Full(shared))
    BY <1>6, <1>7, <2>2 DEF CopyRests
  <2> HIDE DEF p
  <2> QED BY <1>6, <2>1, <2>2, <2>3 DEF CopyRests
<1>10. ReadsRest(Append(g, e), shared)
  <2> DEFINE a == Append(g, e)
  <2>1. Len(g) \in Nat /\ Len(a) = Len(g) + 1 /\ a[Len(g) + 1] = e /\ \A m \in 1..Len(g) : a[m] = g[m]
    BY <1>2
  <2> HIDE DEF a, e, g
  <2>2. \A m \in 1..Len(a) : m \in 1..Len(g) \/ m = Len(g) + 1
    BY <2>1
  <2>3. ReadsRest(a, shared)
    BY <1>5, <1>6, <2>1, <2>2 DEF ReadsRest
  <2> QED BY <2>3 DEF a
<1> HIDE DEF p, e
<1> QED BY <1>1, <1>3, <1>8, <1>9, <1>10, TurnRests DEF p

\* The only step that changes the record: what the context that put it has left rests
\* on it, and the other contexts' copies, puts and reads are no longer fresh.
LEMMA ExecutePutRests ==
  ASSUME TypesHold, RestsInv, NEW c \in Ctx, ExecutePut(c)
  PROVE  RestsInv'
<1> DEFINE q == idb[c]
           L == Len(q)
           p == Tail(q)
<1>1. /\ q # <<>> /\ IsPut(Head(q)) /\ shared' = Head(q).snap /\ UNCHANGED <<ctx, edits>>
      /\ fresh' = [d \in Ctx |-> d = c /\ fresh[d]]
      /\ idb' = [d \in Ctx |-> IF d = c THEN p ELSE Outdated(idb[d])]
  BY DEF ExecutePut
<1>2. q \in Seq(KnownCall) /\ L \in Nat
  BY DEF TypesHold
<1>3. /\ L > 0 /\ Head(q) = q[1] /\ q[1] \in KnownCall /\ Len(p) = L - 1
      /\ \A n \in 1..L - 1 : p[n] = q[n + 1]
  BY <1>1, <1>2, Shortened
<1>4. shared' = q[1].snap /\ shared' \in Store /\ shared' # NoSnap /\ Full(shared') = shared'
  <2>1. q[1].snap \in Store
    BY <1>1, <1>3, CallKinds DEF KnownCall
  <2> QED BY <1>1, <1>3, <2>1, NoSnapAssumption DEF Full
<1>5. ASSUME NEW d \in Ctx
      PROVE  ReadsRest(got'[d], shared')
  <2> DEFINE o == Overtaken(got[d])
  <2>1. got[d] \in Seq(KnownResult)
    BY DEF TypesHold
  <2>2. /\ o \in Seq(KnownResult) /\ Len(o) = Len(got[d]) /\ Len(got[d]) \in Nat
        /\ \A m \in 1..Len(got[d]) : ~IsPut(o[m]) => o[m].now = FALSE
    <3>1. DOMAIN got[d] = 1..Len(got[d])
      BY <2>1
    <3>2. /\ o \in Seq(KnownResult) /\ Len(o) = Len(got[d])
          /\ \A m \in DOMAIN got[d] : /\ IsPut(o[m]) <=> IsPut(got[d][m])
                                      /\ ~IsPut(got[d][m]) => o[m].now = FALSE
      BY <2>1, OvertakenTyped
    <3> HIDE DEF o
    <3> QED BY <2>1, <3>1, <3>2
  <2>3. ReadsRest(o, shared')
    <3> HIDE DEF o
    <3> QED BY <1>4, <2>2 DEF ReadsRest
  <2>4. ReadsRest(Append(o, Done(q[1].who)), shared')
    <3> DEFINE e == Done(q[1].who)
               a == Append(o, e)
    <3>1. IsPut(e)
      BY DEF IsPut, Done
    <3> HIDE DEF e, o
    <3>2. Len(o) \in Nat /\ Len(a) = Len(o) + 1 /\ a[Len(o) + 1] = e /\ \A m \in 1..Len(o) : a[m] = o[m]
      BY <2>2
    <3> HIDE DEF a
    <3>3. \A m \in 1..Len(a) : m \in 1..Len(o) \/ m = Len(o) + 1
      BY <3>2
    <3>4. ReadsRest(a, shared')
      BY <2>3, <3>1, <3>2, <3>3 DEF ReadsRest
    <3> QED BY <3>4 DEF a, e
  <2>5. got'[d] = o \/ got'[d] = Append(o, Done(q[1].who))
    BY <1>3 DEF ExecutePut
  <2> QED BY <2>3, <2>4, <2>5
<1>6. /\ CopyRests(q, ctx[c], edits[c], fresh[c], shared) /\ PutsRest(q, shared)
  BY DEF RestsInv, RestsAt
<1>7. ASSUME NEW n \in 2..L + 1, NEW s, NEW ks, RestsOn(q, n, s, ks, Full(shared))
      PROVE  RestsOn(p, n - 1, s, ks, Full(shared'))
  <2>1. RestsOn(p, n - 1, s, ks, IF IsPut(q[1]) THEN q[1].snap ELSE Full(shared))
    BY <1>1, <1>2, <1>7, RestsShortened
  <2>2. IsPut(q[1]) /\ q[1].snap = Full(shared')
    BY <1>1, <1>3, <1>4
  <2> HIDE DEF p
  <2> QED BY <2>1, <2>2
<1>8. PutsRest(p, shared')
  <2>1. ASSUME NEW n \in 1..L - 1, IsPut(p[n]), p[n].fresh
        PROVE  RestsOn(p, n, p[n].snap, p[n].edits, Full(shared'))
    <3>1. n + 1 \in 1..L /\ n + 1 \in 2..L + 1 /\ p[n] = q[n + 1] /\ (n + 1) - 1 = n
      BY <1>2, <1>3
    <3>2. RestsOn(q, n + 1, q[n + 1].snap, q[n + 1].edits, Full(shared))
      BY <1>6, <2>1, <3>1 DEF PutsRest
    <3>3. RestsOn(p, (n + 1) - 1, q[n + 1].snap, q[n + 1].edits, Full(shared'))
      BY <1>7, <3>1, <3>2
    <3> QED BY <3>1, <3>3
  <2> HIDE DEF p
  <2> QED BY <1>3, <2>1 DEF PutsRest
<1>9. CopyRests(p, ctx[c], edits[c], fresh[c], shared')
  <2>1. L + 1 \in 2..L + 1 /\ (L + 1) - 1 = Len(p) + 1
    BY <1>2, <1>3
  <2>2. fresh[c] => RestsOn(p, (L + 1) - 1, ctx[c].local, edits[c], Full(shared'))
    BY <1>6, <1>7, <2>1 DEF CopyRests
  <2> HIDE DEF p
  <2> QED BY <1>4, <1>6, <2>1, <2>2 DEF CopyRests
<1>10. CopyRests(idb'[c], ctx'[c], edits'[c], fresh'[c], shared') /\ PutsRest(idb'[c], shared')
  <2>1. idb'[c] = p /\ (fresh'[c] <=> fresh[c]) /\ ctx' = ctx /\ edits' = edits
    BY <1>1
  <2> HIDE DEF p
  <2> QED BY <1>8, <1>9, <2>1 DEF CopyRests
<1>11. ASSUME NEW d \in Ctx \ {c}
       PROVE  CopyRests(idb'[d], ctx'[d], edits'[d], fresh'[d], shared') /\ PutsRest(idb'[d], shared')
  <2> DEFINE o == Outdated(idb[d])
  <2>1. idb'[d] = o /\ ~fresh'[d] /\ ctx' = ctx /\ edits' = edits
    BY <1>1
  <2>2. Len(o) = Len(idb[d]) /\ \A n \in 1..Len(o) : IsPut(o[n]) => ~o[n].fresh
    <3>1. idb[d] \in Seq(KnownCall)
      BY DEF TypesHold
    <3>2. DOMAIN idb[d] = 1..Len(idb[d])
      BY <3>1
    <3>3. /\ Len(o) = Len(idb[d])
          /\ \A n \in DOMAIN idb[d] : /\ IsPut(o[n]) <=> IsPut(idb[d][n])
                                      /\ IsPut(idb[d][n]) => o[n].fresh = FALSE
      BY <3>1, OutdatedTyped
    <3> HIDE DEF o
    <3> QED BY <3>2, <3>3
  <2>3. CopyRests(idb[d], ctx[d], edits[d], fresh[d], shared)
    BY DEF RestsInv, RestsAt
  <2> HIDE DEF o
  <2>4. PutsRest(o, shared')
    BY <2>2 DEF PutsRest
  <2> QED BY <1>4, <2>1, <2>3, <2>4 DEF CopyRests
<1>12. ASSUME NEW d \in Ctx
       PROVE  RestsAt(d)'
  <2>1. CopyRests(idb'[d], ctx'[d], edits'[d], fresh'[d], shared') /\ PutsRest(idb'[d], shared')
    BY <1>10, <1>11
  <2> QED BY <1>5, <2>1 DEF RestsAt, CopyRests, PutsRest, ReadsRest, RestsOn, Agrees, HasPut,
                            IsPut, Full, Empty
<1> QED BY <1>12 DEF RestsInv

LEMMA CompleteRests ==
  ASSUME TypesHold, RestsInv, NEW c \in Ctx, Complete(c)
  PROVE  RestsInv'
<1>1. UNCHANGED <<shared, ctx, idb, edits, fresh>> /\ got' = [got EXCEPT ![c] = Tail(@)] /\ got[c] # <<>>
  BY DEF Complete
<1>2. got[c] \in Seq(KnownResult) /\ got'[c] = Tail(got[c]) /\ \A d \in Ctx \ {c} : got'[d] = got[d]
  BY <1>1 DEF TypesHold
<1>3. /\ Len(got[c]) \in Nat /\ Len(got'[c]) = Len(got[c]) - 1
      /\ \A m \in 1..Len(got[c]) - 1 : got'[c][m] = got[c][m + 1]
  <2>1. got[c] # <<>>
    BY <1>1
  <2>2. /\ Len(got[c]) \in Nat /\ Len(Tail(got[c])) = Len(got[c]) - 1
        /\ \A m \in 1..Len(got[c]) - 1 : Tail(got[c])[m] = got[c][m + 1]
    BY <1>2, <2>1, Shortened
  <2> QED BY <1>2, <2>2
<1>4. /\ CopyRests(idb[c], ctx[c], edits[c], fresh[c], shared) /\ PutsRest(idb[c], shared)
      /\ ReadsRest(got[c], shared)
  BY DEF RestsInv, RestsAt
<1>5. ReadsRest(got'[c], shared)
  <2>1. \A m \in 1..Len(got'[c]) : m + 1 \in 1..Len(got[c]) /\ got'[c][m] = got[c][m + 1]
    BY <1>3
  <2> QED BY <1>4, <2>1 DEF ReadsRest
<1> QED BY <1>1, <1>2, <1>4, <1>5, TurnRests

LEMMA BackgroundRests ==
  ASSUME TypesHold, RestsInv, NEW c \in Ctx, Deliver(c) \/ Poll(c)
  PROVE  RestsInv'
<1>1. UNCHANGED <<shared, ctx, got, edits, fresh>>
  BY DEF Deliver, Poll
<1>2. CASE idb' = idb
  BY <1>1, <1>2, Elsewhere DEF RestsInv
<1>3. CASE idb' = [idb EXCEPT ![c] = Append(@, Get(Background))]
  <2>1. Get(Background) \in Call /\ ~IsPut(Get(Background))
    BY GetTyped DEF Who
  <2> QED BY <1>1, <1>3, <2>1, AskRests
<1> QED BY <1>2, <1>3 DEF Deliver, Poll

LEMMA ChangeRests ==
  ASSUME TypesHold, RestsInv, NEW c \in Ctx, Annotate(c) \/ TimerFires(c)
  PROVE  RestsInv'
<1>1. UNCHANGED <<shared, got, fresh>>
  BY DEF Annotate, TimerFires, flow
<1>2. /\ CopyRests(idb[c], ctx[c], edits[c], fresh'[c], shared) /\ PutsRest(idb[c], shared)
      /\ ReadsRest(got'[c], shared) /\ idb[c] \in Seq(KnownCall)
      /\ ctx[c] \in Copy /\ edits[c] \in SUBSET Key /\ fresh'[c] \in BOOLEAN
  BY <1>1 DEF RestsInv, RestsAt, TypesHold
<1>3. CASE Annotate(c)
  <2>1. PICK k \in Key : /\ ctx' = [ctx EXCEPT ![c].local[k] = ops + 1]
                         /\ edits' = [edits EXCEPT ![c] = @ \cup {k}]
    BY <1>3 DEF Annotate, Present
  <2> DEFINE t == [ctx[c] EXCEPT !.local[k] = ops + 1]
  <2>2. /\ ctx'[c] = t /\ edits'[c] = edits[c] \cup {k} /\ idb' = idb
        /\ \A d \in Ctx \ {c} : ctx'[d] = ctx[d] /\ edits'[d] = edits[d]
    BY <1>3, <2>1 DEF Annotate, TypesHold, flow
  <2>3. t.synced = ctx[c].synced /\ Agrees(t.local, ctx[c].local, {k})
    BY <1>2 DEF Copy, Store, Agrees
  <2> HIDE DEF t
  <2>4. CopyRests(idb[c], t, edits[c] \cup {k}, fresh'[c], shared)
    BY <1>2, <2>3, ChangedRests
  <2>5. CopyRests(idb'[c], ctx'[c], edits'[c], fresh'[c], shared) /\ PutsRest(idb'[c], shared)
    BY <1>2, <2>2, <2>4
  <2> QED BY <1>1, <1>2, <2>2, <2>5, TurnRests
<1>4. CASE TimerFires(c)
  <2>1. Background \in Who /\ Background # Boot /\ Background \notin Op
    BY NanoBounds DEF Who, Background, Boot, Op
  <2>2. SaveFor(c, ctx[c], edits[c], Background)
    BY <1>4 DEF TimerFires
  <2>3. /\ CopyRests(idb'[c], ctx'[c], edits'[c], fresh'[c], shared) /\ PutsRest(idb'[c], shared)
        /\ \A d \in Ctx \ {c} : idb'[d] = idb[d] /\ ctx'[d] = ctx[d] /\ edits'[d] = edits[d]
    BY <1>2, <2>1, <2>2, SaveForRests
  <2> QED BY <1>1, <1>2, <2>3, TurnRests
<1> QED BY <1>3, <1>4

\* A context that has just been opened: nothing shared, nothing fresh, one read.
LEMMA BlankRests ==
  ASSUME NEW q, q = <<Get(Boot)>>, NEW s, s = Blank, NEW sh
  PROVE  CopyRests(q, s, {}, FALSE, sh) /\ PutsRest(q, sh) /\ ReadsRest(<<>>, sh)
<1>1. Len(q) = 1 /\ q[1] = Get(Boot) /\ ~IsPut(q[1]) /\ Len(<<>>) = 0
  BY DEF IsPut, Get
<1>2. s.synced = {} /\ \A k \in Key : s.local[k] = 0
  BY DEF Blank, Empty
<1>3. \A n \in 1..Len(q) : ~IsPut(q[n])
  BY <1>1
<1> QED BY <1>1, <1>2, <1>3 DEF CopyRests, PutsRest, ReadsRest

LEMMA ReloadRests ==
  ASSUME TypesHold, RestsInv, NEW c \in Ctx, Reload(c)
  PROVE  RestsInv'
<1>1. /\ shared' = shared /\ ctx'[c] = Blank /\ idb'[c] = <<Get(Boot)>> /\ got'[c] = <<>>
      /\ edits'[c] = {} /\ fresh'[c] = FALSE
      /\ \A d \in Ctx \ {c} : /\ idb'[d] = idb[d] /\ ctx'[d] = ctx[d] /\ edits'[d] = edits[d]
                              /\ fresh'[d] = fresh[d] /\ got'[d] = got[d]
  BY DEF Reload, TypesHold
<1>2. /\ CopyRests(idb'[c], ctx'[c], edits'[c], fresh'[c], shared) /\ PutsRest(idb'[c], shared)
      /\ ReadsRest(got'[c], shared)
  BY <1>1, BlankRests
<1> QED BY <1>1, <1>2, TurnRests

LEMMA RestsInductive == Spec => [](TypesHold /\ RestsInv)
<1>1. Init => RestsInv
  <2> SUFFICES ASSUME Init, NEW c \in Ctx PROVE RestsAt(c)
    BY DEF RestsInv
  <2>1. ctx[c] = Blank /\ idb[c] = <<Get(Boot)>> /\ got[c] = <<>> /\ edits[c] = {} /\ fresh[c] = FALSE
    BY DEF Init
  <2> QED BY <2>1, BlankRests DEF RestsAt
<1>2. TypesHold /\ TypesHold' /\ RestsInv /\ [Next]_vars => RestsInv'
  <2> SUFFICES ASSUME TypesHold, TypesHold', RestsInv, [Next]_vars PROVE RestsInv'
    OBVIOUS
  <2>1. CASE UNCHANGED vars
    BY <2>1, Elsewhere DEF vars, flow, RestsInv
  <2> QED BY <2>1, ArriveRests, RelayRests, IssueRests, ExecuteGetRests, ExecutePutRests, ApplyRests,
             CompleteRests, BackgroundRests, ChangeRests, ReloadRests
             DEF Next, Machinery, Environment
<1> QED BY <1>1, <1>2, TypesInductive, PTL DEF Spec

\* A copy whose context has read the record, and been overtaken by nobody since, is
\* the record but for what the context itself has changed and not yet saved: what
\* restore_store's merge (nano_persist.py:147) is for.
THEOREM CopiesAgree == Spec => []FreshCopiesAgree
<1>1. TypesHold /\ RestsInv => FreshCopiesAgree
  <2> SUFFICES ASSUME TypesHold, RestsInv, NEW c \in Ctx, fresh[c], ~Saving(c),
                      NEW k \in Key \ edits[c]
               PROVE  ctx[c].local[k] = Shared[k]
    BY DEF FreshCopiesAgree
  <2> DEFINE q == idb[c]
  <2>1. q \in Seq(KnownCall)
    BY DEF TypesHold
  <2>2. DOMAIN q = 1..Len(q) /\ Len(q) \in Nat
    BY <2>1
  <2>3. \A l \in 1..Len(q) : ~IsPut(q[l])
    BY <2>2 DEF Saving
  <2>4. RestsOn(q, Len(q) + 1, ctx[c].local, edits[c], Full(shared))
    BY DEF RestsInv, RestsAt, CopyRests
  <2>5. (Len(q) + 1) - 1 = Len(q)
    BY <2>2
  <2>6. Agrees(ctx[c].local, Full(shared), edits[c])
    BY <2>3, <2>4, <2>5 DEF RestsOn
  <2> QED BY <2>6 DEF Agrees, Full, Shared
<1> QED BY <1>1, RestsInductive, PTL

\* A save writes the whole copy and yet undoes nothing of another context's, unless
\* one of them saved between the read the copy comes from and the put.
THEOREM SavesExact == Spec => FreshSavesAreExact
<1>1. TypesHold /\ RestsInv /\ [Next]_vars
      => [\A c \in Ctx : Executes(c) /\ Head(idb[c]).fresh => Exact(c)]_vars
  <2> SUFFICES ASSUME TypesHold, RestsInv, Next, NEW c \in Ctx, Executes(c), Head(idb[c]).fresh
               PROVE  Exact(c)
    BY DEF vars
  <2> DEFINE q == idb[c]
  <2>1. q \in Seq(KnownCall) /\ q # <<>> /\ IsPut(Head(q)) /\ idb'[c] = Tail(q)
    BY DEF TypesHold, Executes
  <2>2. Len(q) \in Nat /\ Len(q) > 0 /\ Head(q) = q[1] /\ Len(Tail(q)) = Len(q) - 1
    BY <2>1, Shortened
  <2>3. CASE shared' = shared
    BY <2>3 DEF Exact, Shared, Empty
  <2>4. CASE ExecutePut(c)
    <3>1. shared' = q[1].snap /\ shared' # NoSnap
      <4>1. q[1] \in KnownCall
        BY <2>1, Shortened
      <4>2. q[1].snap \in Store /\ shared' = q[1].snap
        BY <2>1, <2>2, <2>4, <4>1, CallKinds DEF KnownCall, ExecutePut
      <4> QED BY <4>2, NoSnapAssumption
    <3>2. RestsOn(q, 1, q[1].snap, q[1].edits, Full(shared))
      BY <2>1, <2>2 DEF RestsInv, RestsAt, PutsRest
    <3>3. Agrees(q[1].snap, Full(shared), q[1].edits)
      BY <3>2 DEF RestsOn
    <3> QED BY <2>2, <3>1, <3>3 DEF Exact, Shared, Full, Agrees
  <2>5. ASSUME NEW d \in Ctx, d # c, ExecutePut(d) PROVE FALSE
    <3>1. idb'[c] = Outdated(q)
      BY <2>5 DEF ExecutePut
    <3>2. Len(Outdated(q)) = Len(q)
      BY <2>1, OutdatedTyped
    <3>3. Len(idb'[c]) = Len(q)
      BY <3>1, <3>2
    <3>4. Len(idb'[c]) = Len(q) - 1
      BY <2>1, <2>2
    <3> QED BY <2>2, <3>3, <3>4
  <2>6. shared' = shared \/ \E d \in Ctx : ExecutePut(d)
    BY DEF Next, Machinery, Environment, Issue, ExecuteGet, Apply, Complete, Deliver, TimerFires,
           RelayServes, RelaySaves, Arrive, Annotate, Poll, Reload
  <2> QED BY <2>3, <2>4, <2>5, <2>6
<1>2. [](TypesHold /\ RestsInv) /\ [][Next]_vars => FreshSavesAreExact
  BY <1>1, PTL DEF FreshSavesAreExact
<1> QED BY <1>2, RestsInductive, PTL DEF Spec
=============================================================================
