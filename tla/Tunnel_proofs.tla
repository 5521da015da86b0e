--------------------------- MODULE Tunnel_proofs ---------------------------
(***************************************************************************)
(* Theorems of Tunnel, for any number of windows, connections and          *)
(* requests: the state is well formed, the relay's table holds exactly the *)
(* requests that wait, and every window has the one socket it should have. *)
(***************************************************************************)
EXTENDS Tunnel, FiniteSetTheorems, TLAPS

(***************************************************************************)
(* The inductive invariant.  SocketsInHand counts sockets; what keeps the  *)
(* count is that a live socket is the one its worker refers to, and that   *)
(* connect() asks that one before it opens another.                        *)
(***************************************************************************)
WorkerTypeOK ==
  /\ phase \in [Window -> {"off", "connecting", "connected", "idle"}]
  /\ mode \in [Window -> {"local", "cloud"}]
  /\ ws \in [Window -> Socket \cup {NoSocket, Null}]
  /\ starting \in [Window -> {"no", "boot", "probe"}]
  /\ boot \in [Window -> {"no", "ok", "failed"}]

FlagsTypeOK ==
  /\ stopped \in [Window -> BOOLEAN] /\ idle \in [Window -> BOOLEAN]
  /\ monitor \in [Window -> BOOLEAN] /\ probing \in [Window -> BOOLEAN]
  /\ localUp \in BOOLEAN /\ used \in BOOLEAN

CountsTypeOK ==
  /\ timers \in [Window -> 0..MaxTimers]
  /\ fails \in [Window -> 0..1]
  /\ budget \in 0..MaxEvents

SocksTypeOK == socks \in [Socket -> SocketState]

\* A connection that is not closed has a worker, which has it in ws and was not
\* stopped as long as the connection is alive.
SocketFits(k) ==
  /\ socks[k].ready # "closed" => socks[k].owner \in Window
  /\ Alive(k) => ws[socks[k].owner] = k /\ ~stopped[socks[k].owner]

SocketsFit == \A k \in Socket : SocketFits(k)

TunnelInv ==
  /\ RelayTypeOK /\ WorkerTypeOK /\ FlagsTypeOK /\ CountsTypeOK /\ SocksTypeOK
  /\ PendingIsWaiting
  /\ SocketsFit

-----------------------------------------------------------------------------
(***************************************************************************)
(* The steps, in the terms of the parts they disturb.                      *)
(***************************************************************************)
\* A socket that is opened is one of the identifiers nobody uses.
LEMMA OpenedSocket ==
  ASSUME NEW w \in Window, NEW m, opens(w, m)
  PROVE  \E k \in Socket :
           /\ Unused(k)
           /\ phase' = [phase EXCEPT ![w] = "connecting"]
           /\ ws' = [ws EXCEPT ![w] = k]
           /\ socks' = [socks EXCEPT ![k] = [owner |-> w, relay |-> m, ready |-> "connecting"]]
           /\ told' = told \ {k}
<1> DEFINE k == CHOOSE k \in Socket : Unused(k)
<1>1. k \in Socket /\ Unused(k)
  BY DEF opens
<1>2. QED
  BY <1>1 DEF opens

\* What connect() does keeps the sockets in order.
LEMMA ConnectFits ==
  ASSUME TunnelInv, NEW w \in Window, NEW m \in {"local", "cloud"}, connect(w, m)
  PROVE  /\ phase' \in [Window -> {"off", "connecting", "connected", "idle"}]
         /\ ws' \in [Window -> Socket \cup {NoSocket, Null}]
         /\ told' \subseteq Socket
         /\ SocksTypeOK'
         /\ stopped' = stopped => SocketsFit'
<1>1. CASE stopped[w] \/ Live(w)
  BY <1>1 DEF connect, TunnelInv, WorkerTypeOK, RelayTypeOK, SocksTypeOK, SocketsFit,
              SocketFits, Alive
<1>2. CASE ~ (stopped[w] \/ Live(w))
  <2>1. opens(w, m)
    BY <1>2 DEF connect
  <2>2. PICK k \in Socket :
           /\ Unused(k)
           /\ phase' = [phase EXCEPT ![w] = "connecting"]
           /\ ws' = [ws EXCEPT ![w] = k]
           /\ socks' = [socks EXCEPT ![k] = [owner |-> w, relay |-> m, ready |-> "connecting"]]
           /\ told' = told \ {k}
    BY <2>1, OpenedSocket
  <2>3. [owner |-> w, relay |-> m, ready |-> "connecting"] \in SocketState
    BY DEF SocketState
  <2>4. SocksTypeOK'
    BY <2>2, <2>3 DEF TunnelInv, SocksTypeOK
  <2>5. ASSUME stopped' = stopped, NEW j \in Socket PROVE SocketFits(j)'
    <3>1. CASE j = k
      BY <2>2, <2>5, <3>1, <1>2 DEF SocketFits, Alive, TunnelInv, WorkerTypeOK, SocksTypeOK
    <3>2. CASE j # k
      <4>1. socks'[j] = socks[j] /\ SocketFits(j)
        BY <2>2, <3>2 DEF TunnelInv, SocketsFit, SocksTypeOK
      <4>2. Alive(j) => socks[j].owner # w
        BY <4>1, <1>2 DEF SocketFits, Live
      <4>3. Alive(j) => ws'[socks[j].owner] = ws[socks[j].owner]
        BY <4>1, <4>2, <2>2 DEF SocketFits, TunnelInv, WorkerTypeOK
      <4>4. QED
        BY <4>1, <4>3, <2>5 DEF SocketFits, Alive
    <3>3. QED
      BY <3>1, <3>2
  <2>6. QED
    BY <2>2, <2>4, <2>5 DEF TunnelInv, WorkerTypeOK, RelayTypeOK, SocketsFit
<1>3. QED
  BY <1>1, <1>2

\* ws.close() leaves the worker without a live socket.
LEMMA ClosedFits ==
  ASSUME TunnelInv, NEW w \in Window, socks' = Closed(w), ws' = ws,
         \A v \in Window \ {w} : stopped'[v] = stopped[v]
  PROVE  SocksTypeOK' /\ SocketsFit'
<1>1. SocksTypeOK'
  BY DEF TunnelInv, SocksTypeOK, Closed, Live, SocketState
<1>2. ASSUME NEW j \in Socket PROVE SocketFits(j)'
  <2>1. SocketFits(j)
    BY DEF TunnelInv, SocketsFit
  <2>2. CASE j = ws[w] /\ Live(w)
    <3>1. socks'[j].owner = socks[j].owner /\ socks'[j].ready = "closing"
      BY <2>2 DEF Closed, TunnelInv, SocksTypeOK, SocketState
    <3>2. QED
      BY <2>1, <2>2, <3>1 DEF SocketFits, Alive, Live
  <2>3. CASE ~ (j = ws[w] /\ Live(w))
    <3>1. socks'[j] = socks[j]
      BY <2>3 DEF Closed, TunnelInv, SocksTypeOK
    <3>2. Alive(j) => socks[j].owner \in Window \ {w}
      BY <2>1, <2>3 DEF SocketFits, Live, Alive
    <3>3. QED
      BY <2>1, <3>1, <3>2 DEF SocketFits, Alive
  <2>4. QED
    BY <2>2, <2>3
<1>3. QED
  BY <1>1, <1>2 DEF SocketsFit

\* sock.onclose forgets the connection, and no other.
LEMMA ClosedByFits ==
  ASSUME TunnelInv, NEW k \in Socket, NEW b, closedBy(k, b), socks[k].ready # "closed"
  PROVE  /\ WorkerTypeOK' /\ SocksTypeOK' /\ SocketsFit'
         /\ timers' \in [Window -> 0..MaxTimers]
<1> DEFINE w == socks[k].owner
<1>1. w \in Window /\ SocketsFit
  BY DEF TunnelInv, SocketsFit, SocketFits
<1>2. SocksTypeOK'
  BY DEF closedBy, TunnelInv, SocksTypeOK, SocketState, Gone
<1>3. timers' \in [Window -> 0..MaxTimers]
  <2>1. timers \in [Window -> 0..MaxTimers] /\ MaxTimers \in Nat
    BY TunnelAssumption DEF TunnelInv, CountsTypeOK
  <2>2. UNCHANGED timers \/ (timers[w] < MaxTimers /\ timers' = [timers EXCEPT ![w] = @ + 1])
    BY DEF closedBy, Retries
  <2>3. QED
    BY <1>1, <2>1, <2>2
<1>4. WorkerTypeOK'
  BY <1>1 DEF closedBy, Retries, TunnelInv, WorkerTypeOK
<1>5. ASSUME NEW j \in Socket PROVE SocketFits(j)'
  <2>1. CASE j = k
    BY <2>1 DEF closedBy, TunnelInv, SocksTypeOK, SocketFits, Alive, Gone
  <2>2. CASE j # k
    <3>1. socks'[j] = socks[j] /\ SocketFits(j) /\ stopped' = stopped
      BY <2>2, <1>1 DEF closedBy, TunnelInv, SocksTypeOK, SocketsFit
    <3>2. Alive(j) /\ socks[j].owner = w => ws[w] = j
      BY <3>1 DEF SocketFits
    <3>3. Alive(j) => ws'[socks[j].owner] = ws[socks[j].owner]
      BY <3>1, <3>2, <1>1, <2>2 DEF closedBy, SocketFits, Alive, TunnelInv, WorkerTypeOK
    <3>4. QED
      BY <3>1, <3>3 DEF SocketFits, Alive
  <2>3. QED
    BY <2>1, <2>2
<1>6. QED
  BY <1>2, <1>3, <1>4, <1>5 DEF SocketsFit

-----------------------------------------------------------------------------
(***************************************************************************)
(* The relay's steps.                                                      *)
(***************************************************************************)
RelayInv == RelayTypeOK /\ PendingIsWaiting

\* A request that ends leaves the table, one that is sent enters it.
LEMMA RequestMoves ==
  ASSUME RelayInv, NEW r \in Request, Relays(r) \/ Arrive(r)
  PROVE  RelayInv'
<1> USE DEF RelayInv, RelayTypeOK
<1>1. ASSUME Finish(r), job' \in [Request -> {"none", "down", "tab", "up"}],
             UNCHANGED <<tab, told, alarm>>
      PROVE  RelayInv'
  BY <1>1 DEF Finish, PendingIsWaiting
<1>2. ASSUME job' = [job EXCEPT ![r] = "none"] \/ UNCHANGED job
      PROVE  job' \in [Request -> {"none", "down", "tab", "up"}]
  BY <1>2
<1>3. CASE TooLarge(r)
  BY <1>1, <1>2, <1>3 DEF TooLarge
<1>4. CASE Send(r)
  <2>1. CASE sentTo[r] = tab
    BY <1>4, <2>1 DEF Send, Enter, PendingIsWaiting
  <2>2. CASE sentTo[r] # tab
    BY <1>1, <1>2, <1>4, <2>2 DEF Send
  <2>3. QED
    BY <2>1, <2>2
<1>5. CASE Answered(r)
  BY <1>1, <1>2, <1>5 DEF Answered
<1>6. CASE TimesOut(r)
  BY <1>1, <1>2, <1>6 DEF TimesOut
<1>7. CASE Arrive(r)
  BY <1>7 DEF Arrive, PendingIsWaiting
<1>8. QED
  BY <1>3, <1>4, <1>5, <1>6, <1>7 DEF Relays

\* What a step of the windows and the network does to the relay.
LEMMA RelayKept ==
  ASSUME RelayInv, UNCHANGED <<alarm, requests>>,
         told' \subseteq Socket, tab' \in Socket \cup {NoSocket}
  PROVE  RelayInv'
BY DEF RelayInv, RelayTypeOK, requests, PendingIsWaiting

\* A request's message moves on, which the relay's table does not see.
LEMMA MessageKept ==
  ASSUME RelayInv, NEW r \in Request, NEW from,
         NEW to \in {"tab", "up"}, MessageMoves(r, from, to)
  PROVE  RelayInv'
BY DEF RelayInv, RelayTypeOK, MessageMoves, PendingIsWaiting

-----------------------------------------------------------------------------
(***************************************************************************)
(* The invariant, action by action.                                        *)
(***************************************************************************)
\* Events of users and networks only use up the budget.
LEMMA SpendsCounts == ASSUME TunnelInv, Spends PROVE budget' \in 0..MaxEvents
BY TunnelAssumption DEF TunnelInv, CountsTypeOK, Spends

\* The invariant holds before any window has started.
LEMMA TunnelStart == Init => TunnelInv
<1> SUFFICES ASSUME Init PROVE TunnelInv
  OBVIOUS
<1>1. RelayTypeOK /\ PendingIsWaiting
  BY DEF Init, RelayInit, RelayTypeOK, PendingIsWaiting
<1>2. WorkerTypeOK
  BY DEF Init, WorkerTypeOK
<1>3. FlagsTypeOK
  BY DEF Init, FlagsTypeOK
<1>4. CountsTypeOK
  BY TunnelAssumption DEF Init, CountsTypeOK
<1>5. SocksTypeOK /\ SocketsFit
  BY DEF Init, SocksTypeOK, SocketState, Gone, SocketsFit, SocketFits, Alive
<1>6. QED
  BY <1>1, <1>2, <1>3, <1>4, <1>5 DEF TunnelInv

\* The steps of the network and the relays with a connection.
LEMMA SocketSteps ==
  ASSUME TunnelInv, NEW k \in Socket, SocketRuns(k) \/ OnFailed(k)
  PROVE  TunnelInv'
<1>a. RelayInv /\ WorkerTypeOK /\ FlagsTypeOK /\ CountsTypeOK /\ SocksTypeOK /\ SocketsFit
  BY DEF TunnelInv, RelayInv
<1>1. CASE Accept(k)
  <2>1. told' \subseteq Socket /\ tab' \in Socket \cup {NoSocket} /\ alarm' \in BOOLEAN
    BY <1>a, <1>1 DEF Accept, Register, RelayInv, RelayTypeOK
  <2>2. RelayInv'
    BY <1>a, <1>1, <2>1 DEF Accept, Register, requests, RelayInv, RelayTypeOK, PendingIsWaiting
  <2>3. UNCHANGED <<worker, socks, world>>
    BY <1>1 DEF Accept
  <2>4. QED
    BY <1>a, <2>2, <2>3 DEF TunnelInv, RelayInv, worker, world, WorkerTypeOK, FlagsTypeOK,
       CountsTypeOK, SocksTypeOK, SocketsFit, SocketFits, Alive
<1>2. CASE OnOpen(k)
  <2> DEFINE w == socks[k].owner
  <2>1. RelayInv'
    BY <1>a, <1>2 DEF OnOpen, relayVars, RelayInv, RelayTypeOK, PendingIsWaiting
  <2>2. w \in Window /\ SocketFits(k)
    BY <1>a, <1>2 DEF OnOpen, SocketsFit, SocketFits
  <2>3. CASE k # ws[w]
    BY <1>a, <1>2, <2>2, <2>3 DEF OnOpen, SocketFits, Alive
  <2>4. CASE k = ws[w]
    <3>1. socks' = [socks EXCEPT ![k].ready = "open"] /\ UNCHANGED <<stopped, ws>>
      BY <1>2, <2>4 DEF OnOpen
    <3>2. WorkerTypeOK'
      BY <1>a, <1>2, <2>2, <2>4 DEF OnOpen, WorkerTypeOK
    <3>3. FlagsTypeOK'
      BY <1>a, <1>2, <2>2, <2>4 DEF OnOpen, FlagsTypeOK, world
    <3>4. CountsTypeOK'
      BY <1>a, <1>2 DEF OnOpen, CountsTypeOK, world
    <3>5. SocksTypeOK'
      BY <1>a, <3>1 DEF SocksTypeOK, SocketState
    <3>6. socks[k].ready = "connecting"
      BY <1>2 DEF OnOpen
    <3>7. ASSUME NEW j \in Socket PROVE SocketFits(j)'
      BY <1>a, <2>2, <3>1, <3>6 DEF SocketsFit, SocketFits, Alive, SocksTypeOK, SocketState
    <3>8. QED
      BY <2>1, <3>2, <3>3, <3>4, <3>5, <3>7 DEF TunnelInv, RelayInv, SocketsFit
  <2>5. QED
    BY <2>3, <2>4
<1>3. ASSUME NEW b, closedBy(k, b), socks[k].ready # "closed",
             budget' \in 0..MaxEvents, UNCHANGED used
      PROVE  TunnelInv'
  <2>1. WorkerTypeOK' /\ SocksTypeOK' /\ SocketsFit' /\ timers' \in [Window -> 0..MaxTimers]
    BY <1>3, ClosedByFits
  <2>2. RelayInv'
    BY <1>a, <1>3 DEF closedBy, relayVars, RelayInv, RelayTypeOK, PendingIsWaiting
  <2>3. FlagsTypeOK'
    BY <1>a, <1>3 DEF closedBy, FlagsTypeOK
  <2>4. fails' \in [Window -> 0..1]
    BY <1>a, <1>3 DEF closedBy, CountsTypeOK
  <2>5. QED
    BY <1>3, <2>1, <2>2, <2>3, <2>4 DEF TunnelInv, RelayInv, CountsTypeOK
<1>b. budget \in 0..MaxEvents
  BY <1>a DEF CountsTypeOK
<1>4. CASE OnSuperseded(k)
  BY <1>3, <1>4, <1>b DEF OnSuperseded
<1>5. CASE OnClosed(k)
  BY <1>3, <1>5, <1>b DEF OnClosed
<1>6. CASE OnRefused(k)
  BY <1>3, <1>6, <1>b DEF OnRefused, Alive
<1>7. CASE OnFailed(k)
  <2>1. budget' \in 0..MaxEvents
    BY <1>7, SpendsCounts DEF OnFailed
  <2>2. closedBy(k, FALSE) /\ socks[k].ready # "closed" /\ UNCHANGED used
    BY <1>7 DEF OnFailed, Alive, Spends
  <2>3. QED
    BY <1>3, <2>1, <2>2
<1>8. CASE Forget(k)
  <2>1. RelayInv'
    BY <1>a, <1>8, RelayKept DEF Forget, TabGone, RelayInv, RelayTypeOK
  <2>2. UNCHANGED <<worker, socks, world>>
    BY <1>8 DEF Forget
  <2>3. QED
    BY <1>a, <2>1, <2>2 DEF TunnelInv, RelayInv, worker, world, WorkerTypeOK, FlagsTypeOK,
       CountsTypeOK, SocksTypeOK, SocketsFit, SocketFits, Alive
<1>9. QED
  BY <1>1, <1>2, <1>4, <1>5, <1>6, <1>7, <1>8 DEF SocketRuns

\* The steps of a window's worker and its user.
LEMMA WorkerSteps ==
  ASSUME TunnelInv, NEW w \in Window,
         \/ TimerFires(w) \/ Start(w) \/ Booted(w) \/ Probed(w) \/ Stop(w)
         \/ IdlePause(w) \/ MonitorTick(w) \/ MonitorProbed(w)
  PROVE  TunnelInv'
<1>a. RelayInv /\ WorkerTypeOK /\ FlagsTypeOK /\ CountsTypeOK /\ SocksTypeOK /\ SocketsFit
  BY DEF TunnelInv, RelayInv
<1>b. mode[w] \in {"local", "cloud"}
  BY <1>a DEF WorkerTypeOK
<1>c. ASSUME UNCHANGED relayVars PROVE RelayInv'
  BY <1>a, <1>c DEF relayVars, RelayInv, RelayTypeOK, PendingIsWaiting
<1>d. ASSUME UNCHANGED <<socks, ws>>,
             stopped' = stopped \/ stopped' = [stopped EXCEPT ![w] = FALSE]
      PROVE  SocksTypeOK' /\ SocketsFit'
  <2>1. ASSUME NEW v \in Window, ~stopped[v] PROVE ~stopped'[v]
    BY <1>a, <1>d, <2>1 DEF FlagsTypeOK
  <2>2. QED
    BY <1>a, <1>d, <2>1 DEF SocksTypeOK, SocketsFit, SocketFits, Alive
<1>1. CASE TimerFires(w)
  <2>1. connect(w, mode[w])
    BY <1>1 DEF TimerFires
  <2>2. /\ phase' \in [Window -> {"off", "connecting", "connected", "idle"}]
        /\ ws' \in [Window -> Socket \cup {NoSocket, Null}]
        /\ told' \subseteq Socket
        /\ SocksTypeOK'
        /\ stopped' = stopped => SocketsFit'
    BY <2>1, <1>b, ConnectFits
  <2>3. RelayInv'
    BY <1>a, <1>1, <2>2, RelayKept DEF TimerFires, RelayInv, RelayTypeOK
  <2>4. WorkerTypeOK'
    BY <1>a, <1>1, <2>2 DEF TimerFires, WorkerTypeOK
  <2>5. FlagsTypeOK' /\ SocketsFit'
    BY <1>a, <1>1, <2>2 DEF TimerFires, FlagsTypeOK, world
  <2>6. CountsTypeOK'
    BY <1>a, <1>1, TunnelAssumption DEF TimerFires, CountsTypeOK, world
  <2>7. QED
    BY <2>2, <2>3, <2>4, <2>5, <2>6 DEF TunnelInv, RelayInv
<1>2. CASE Start(w)
  <2>1. RelayInv'
    BY <1>2, <1>c DEF Start
  <2>2. WorkerTypeOK'
    BY <1>a, <1>2 DEF Start, WorkerTypeOK
  <2>3. FlagsTypeOK'
    BY <1>a, <1>2 DEF Start, Spends, FlagsTypeOK
  <2>4. SocksTypeOK' /\ SocketsFit'
    BY <1>2, <1>d DEF Start
  <2>5. CountsTypeOK'
    BY <1>a, <1>2, SpendsCounts DEF Start, CountsTypeOK
  <2>6. QED
    BY <2>1, <2>2, <2>3, <2>4, <2>5 DEF TunnelInv, RelayInv
<1>3. CASE Booted(w)
  <2>1. PICK outcome \in {"ok", "failed"} :
          /\ boot' = [boot EXCEPT ![w] = outcome]
          /\ IF outcome = "ok"
             THEN starting' = [starting EXCEPT ![w] = "probe"] /\ UNCHANGED phase
             ELSE /\ starting' = [starting EXCEPT ![w] = "no"]
                  /\ phase' = [phase EXCEPT ![w] = "off"]
    BY <1>a, <1>3 DEF Booted, WorkerTypeOK
  <2>2. /\ UNCHANGED <<relayVars, stopped, idle, mode, ws, timers, monitor, probing, fails, socks>>
        /\ UNCHANGED world
    BY <1>3 DEF Booted
  <2>3. WorkerTypeOK'
    BY <1>a, <2>1, <2>2 DEF WorkerTypeOK
  <2>4. RelayInv' /\ SocksTypeOK' /\ SocketsFit'
    BY <2>2, <1>c, <1>d
  <2>5. FlagsTypeOK'
    BY <1>a, <2>2 DEF FlagsTypeOK, world
  <2>6. CountsTypeOK'
    BY <1>a, <2>2 DEF CountsTypeOK, world
  <2>7. QED
    BY <2>3, <2>4, <2>5, <2>6 DEF TunnelInv, RelayInv
<1>4. CASE Probed(w)
  <2> DEFINE m == IF localUp THEN "local" ELSE "cloud"
  <2>1. m \in {"local", "cloud"} /\ connect(w, m) /\ mode' = [mode EXCEPT ![w] = m]
    BY <1>4 DEF Probed
  <2> HIDE DEF m
  <2>2. /\ phase' \in [Window -> {"off", "connecting", "connected", "idle"}]
        /\ ws' \in [Window -> Socket \cup {NoSocket, Null}]
        /\ told' \subseteq Socket
        /\ SocksTypeOK'
        /\ stopped' = stopped => SocketsFit'
    BY <2>1, ConnectFits
  <2>3. RelayInv'
    BY <1>a, <1>4, <2>2, RelayKept DEF Probed, RelayInv, RelayTypeOK
  <2>4. WorkerTypeOK'
    BY <1>a, <1>4, <2>1, <2>2 DEF Probed, WorkerTypeOK
  <2>5. FlagsTypeOK' /\ SocketsFit'
    BY <1>a, <1>4, <2>2 DEF Probed, FlagsTypeOK, world
  <2>6. CountsTypeOK'
    BY <1>a, <1>4 DEF Probed, CountsTypeOK, world
  <2>7. QED
    BY <2>2, <2>3, <2>4, <2>5, <2>6 DEF TunnelInv, RelayInv
<1>5. CASE Stop(w)
  <2>1. socks' = Closed(w) /\ ws' = ws /\ \A v \in Window \ {w} : stopped'[v] = stopped[v]
    BY <1>a, <1>5 DEF Stop, FlagsTypeOK
  <2>2. SocksTypeOK' /\ SocketsFit'
    BY <2>1, ClosedFits
  <2>3. RelayInv'
    BY <1>5, <1>c DEF Stop
  <2>4. WorkerTypeOK'
    BY <1>a, <1>5 DEF Stop, WorkerTypeOK
  <2>5. FlagsTypeOK'
    BY <1>a, <1>5 DEF Stop, Spends, FlagsTypeOK
  <2>6. CountsTypeOK'
    BY <1>a, <1>5, SpendsCounts DEF Stop, CountsTypeOK
  <2>7. QED
    BY <2>2, <2>3, <2>4, <2>5, <2>6 DEF TunnelInv, RelayInv
<1>6. CASE IdlePause(w)
  <2>1. socks' = Closed(w) /\ ws' = ws /\ \A v \in Window \ {w} : stopped'[v] = stopped[v]
    BY <1>6 DEF IdlePause
  <2>2. SocksTypeOK' /\ SocketsFit'
    BY <2>1, ClosedFits
  <2>3. RelayInv'
    BY <1>6, <1>c DEF IdlePause
  <2>4. WorkerTypeOK'
    BY <1>a, <1>6 DEF IdlePause, WorkerTypeOK
  <2>5. FlagsTypeOK'
    BY <1>a, <1>6 DEF IdlePause, Spends, FlagsTypeOK
  <2>6. CountsTypeOK'
    BY <1>a, <1>6, SpendsCounts DEF IdlePause, CountsTypeOK
  <2>7. QED
    BY <2>2, <2>3, <2>4, <2>5, <2>6 DEF TunnelInv, RelayInv
<1>7. CASE MonitorTick(w)
  <2>1. RelayInv' /\ SocksTypeOK' /\ SocketsFit'
    BY <1>7, <1>c, <1>d DEF MonitorTick
  <2>2. WorkerTypeOK'
    BY <1>a, <1>7 DEF MonitorTick, WorkerTypeOK
  <2>3. FlagsTypeOK'
    BY <1>a, <1>7 DEF MonitorTick, FlagsTypeOK, world
  <2>4. CountsTypeOK'
    BY <1>a, <1>7 DEF MonitorTick, CountsTypeOK, world
  <2>5. QED
    BY <2>1, <2>2, <2>3, <2>4 DEF TunnelInv, RelayInv
<1>8. CASE MonitorProbed(w)
  <2>1. /\ mode' \in [Window -> {"local", "cloud"}]
        /\ UNCHANGED <<relayVars, phase, stopped, idle, ws, timers, starting, boot, monitor, world>>
    BY <1>a, <1>8 DEF MonitorProbed, WorkerTypeOK
  <2>2. SocksTypeOK' /\ SocketsFit'
    <3>1. CASE socks' = Closed(w)
      BY <2>1, <3>1, ClosedFits
    <3>2. CASE socks' = socks
      BY <2>1, <3>2, <1>d
    <3>3. QED
      BY <1>8, <3>1, <3>2 DEF MonitorProbed
  <2>3. RelayInv'
    BY <2>1, <1>c
  <2>4. WorkerTypeOK'
    BY <1>a, <2>1 DEF WorkerTypeOK
  <2>5. FlagsTypeOK'
    BY <1>a, <1>8 DEF MonitorProbed, FlagsTypeOK, world
  <2>6. fails' \in [Window -> 0..1]
    BY <1>a, <1>8 DEF MonitorProbed, CountsTypeOK
  <2>7. QED
    BY <1>a, <2>1, <2>2, <2>3, <2>4, <2>5, <2>6 DEF TunnelInv, RelayInv, CountsTypeOK, world
<1>9. QED
  BY <1>1, <1>2, <1>3, <1>4, <1>5, <1>6, <1>7, <1>8

\* Every step keeps the invariant.
LEMMA TunnelStep == TunnelInv /\ [Next]_vars => TunnelInv'
<1> SUFFICES ASSUME TunnelInv, [Next]_vars PROVE TunnelInv'
  OBVIOUS
<1>a. RelayInv /\ WorkerTypeOK /\ FlagsTypeOK /\ CountsTypeOK /\ SocksTypeOK /\ SocketsFit
  BY DEF TunnelInv, RelayInv
<1>b. ASSUME RelayInv', UNCHANGED <<worker, socks, world>> PROVE TunnelInv'
  BY <1>a, <1>b DEF TunnelInv, RelayInv, worker, world, WorkerTypeOK, FlagsTypeOK,
     CountsTypeOK, SocksTypeOK, SocketsFit, SocketFits, Alive
<1>1. CASE \E k \in Socket : SocketRuns(k) \/ OnFailed(k)
  BY <1>1, SocketSteps
<1>2. CASE \E w \in Window :
             \/ TimerFires(w) \/ Start(w) \/ Booted(w) \/ Probed(w) \/ Stop(w)
             \/ IdlePause(w) \/ MonitorTick(w) \/ MonitorProbed(w)
  BY <1>2, WorkerSteps
<1>3. CASE \E r \in Request : Relay(r) \/ TabTakes(r) \/ TabAnswers(r)
  <2>1. PICK r \in Request : Relay(r) \/ TabTakes(r) \/ TabAnswers(r)
    BY <1>3
  <2>2. CASE Relay(r)
    <3>1. (Relays(r) \/ Arrive(r)) /\ UNCHANGED <<worker, socks, world>>
      BY <2>2 DEF Relay
    <3>2. QED
      BY <1>a, <1>b, <3>1, RequestMoves
  <2>3. CASE TabTakes(r)
    <3>1. MessageMoves(r, "down", "tab")
      BY <2>3 DEF TabTakes
    <3>2. RelayInv'
      BY <1>a, <3>1, MessageKept
    <3>3. QED
      BY <1>b, <3>1, <3>2 DEF MessageMoves
  <2>4. CASE TabAnswers(r)
    <3>1. MessageMoves(r, "tab", "up")
      BY <2>4 DEF TabAnswers
    <3>2. RelayInv'
      BY <1>a, <3>1, MessageKept
    <3>3. QED
      BY <1>b, <3>1, <3>2 DEF MessageMoves
  <2>5. QED
    BY <2>1, <2>2, <2>3, <2>4
<1>4. CASE Alarm /\ UNCHANGED <<worker, socks, world>>
  <2>1. RelayInv'
    BY <1>a, <1>4 DEF Alarm, requests, RelayInv, RelayTypeOK, PendingIsWaiting
  <2>2. QED
    BY <1>4, <1>b, <2>1
<1>5. CASE LocalRelayFlips
  <2>1. RelayInv'
    BY <1>a, <1>5 DEF LocalRelayFlips, relayVars, RelayInv, RelayTypeOK, PendingIsWaiting
  <2>2. UNCHANGED <<worker, socks>> /\ budget' \in 0..MaxEvents
    BY <1>5, SpendsCounts DEF LocalRelayFlips
  <2>3. localUp' \in BOOLEAN /\ used' \in BOOLEAN
    BY <1>a, <1>5 DEF LocalRelayFlips, Spends, FlagsTypeOK
  <2>4. QED
    BY <1>a, <2>1, <2>2, <2>3 DEF TunnelInv, RelayInv, worker, WorkerTypeOK, FlagsTypeOK,
       CountsTypeOK, SocksTypeOK, SocketsFit, SocketFits, Alive
<1>6. CASE UNCHANGED vars
  <2>1. RelayInv'
    BY <1>a, <1>6 DEF vars, relayVars, RelayInv, RelayTypeOK, PendingIsWaiting
  <2>2. QED
    BY <1>6, <1>b, <2>1 DEF vars
<1>7. QED
  BY <1>1, <1>2, <1>3, <1>4, <1>5, <1>6 DEF Next

\* The invariant holds always.
LEMMA TunnelInvariant == Spec => []TunnelInv
BY TunnelStart, TunnelStep, PTL DEF Spec

-----------------------------------------------------------------------------
\* The state of the relay, of every window and of every connection is well formed
\* (relay/worker.js, relay-shared-worker.js).
THEOREM TypeCorrect == Spec => []TypeOK
<1>1. TunnelInv => TypeOK
  BY DEF TunnelInv, WorkerTypeOK, FlagsTypeOK, CountsTypeOK, SocksTypeOK, TypeOK
<1>2. QED
  BY <1>1, TunnelInvariant, PTL

\* The relay's table holds exactly the requests that wait, however failed sends,
\* answers and timeouts follow each other (worker.js, fetch and webSocketMessage).
THEOREM TableIsExact == Spec => []PendingIsWaiting
<1>1. TunnelInv => PendingIsWaiting
  BY DEF TunnelInv
<1>2. QED
  BY <1>1, TunnelInvariant, PTL

\* No window ever has two live connections, and a stopped one has none
\* (relay-shared-worker.js: connect, stop and the events of a socket).
THEOREM SocketsStayInHand == Spec => []SocketsInHand
<1>1. ASSUME TunnelInv, NEW w \in Window PROVE Cardinality(Sockets(w)) <= 1
  <2>1. Sockets(w) \subseteq {ws[w]}
    BY <1>1 DEF TunnelInv, SocketsFit, SocketFits, Sockets
  <2>2. IsFiniteSet({ws[w]}) /\ Cardinality({ws[w]}) = 1
    BY FS_Singleton
  <2>3. Cardinality(Sockets(w)) <= Cardinality({ws[w]})
    BY <2>1, <2>2, FS_Subset
  <2>4. QED
    BY <2>2, <2>3
<1>2. ASSUME TunnelInv, NEW w \in Window, stopped[w] PROVE Sockets(w) = {}
  BY <1>2 DEF TunnelInv, SocketsFit, SocketFits, Sockets
<1>3. TunnelInv => SocketsInHand
  BY <1>1, <1>2 DEF SocketsInHand, OneLiveSocket, StopSticks
<1>4. QED
  BY <1>3, TunnelInvariant, PTL
=============================================================================
