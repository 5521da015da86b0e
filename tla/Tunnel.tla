------------------------------- MODULE Tunnel -------------------------------
(***************************************************************************)
(* The connection half of wasm/relay/relay-shared-worker.js in several     *)
(* browser windows that share one session, composed with the relay that    *)
(* holds their sockets (RelaySession).                                     *)
(*                                                                         *)
(* A window's worker opens a socket to the cloud relay or to a relay on    *)
(* its own host (prefer "local" when its probe answers), retries when it   *)
(* closes, pauses when idle, and stands back when another window has taken *)
(* the session over (close code 1012).  An origin in production is         *)
(* modelled: on localhost the choice is always "local" and the session's   *)
(* relay plays no part.                                                    *)
(***************************************************************************)
EXTENDS RelaySession

CONSTANTS
  Window,      \* browser windows, one shared worker each
  Null,        \* the worker's ws before its first socket
  MaxTimers,   \* bound on a worker's reconnect timers
  MaxEvents,   \* bound on what users and networks do: starts, stops, failures
  MaxBusyEvents \* the same in behaviours in which outside programs send requests

ASSUME TunnelAssumption ==
  /\ NoSocket # Null /\ Null \notin Socket
  /\ MaxTimers \in Nat /\ MaxEvents \in Nat /\ MaxBusyEvents \in 0..MaxEvents

VARIABLES
  phase,     \* state.phase
  stopped,   \* state.stopped
  idle,      \* state.idle
  mode,      \* state.mode
  ws,        \* the worker's socket; NoSocket once it is closed
  timers,    \* setTimeout(connect) that have not fired
  starting,  \* where _start is: "no", "boot" or "probe"
  boot,      \* the cached promise of bootPyodide
  monitor,   \* is the 15 s interval set?
  probing,   \* does one of its ticks await its probe?
  fails,     \* localFails
  socks,     \* per identifier: its worker, its relay and the browser's readyState
  localUp,   \* does the relay on this host answer?
  used,      \* do outside programs send requests in this behaviour?
  budget     \* users' and networks' events left

worker == <<phase, stopped, idle, mode, ws, timers, starting, boot, monitor, probing, fails>>
world == <<localUp, used, budget>>
vars == <<relayVars, worker, socks, world>>

Gone == [owner |-> Null, relay |-> "cloud", ready |-> "closed"]
SocketState ==
  [owner : Window \cup {Null}, relay : {"local", "cloud"},
   ready : {"connecting", "open", "closing", "closed"}]

TypeOK ==
  /\ RelayTypeOK
  /\ phase \in [Window -> {"off", "connecting", "connected", "idle"}]
  /\ stopped \in [Window -> BOOLEAN] /\ idle \in [Window -> BOOLEAN]
  /\ mode \in [Window -> {"local", "cloud"}]
  /\ ws \in [Window -> Socket \cup {NoSocket, Null}]
  /\ timers \in [Window -> 0..MaxTimers]
  /\ starting \in [Window -> {"no", "boot", "probe"}]
  /\ boot \in [Window -> {"no", "ok", "failed"}]
  /\ monitor \in [Window -> BOOLEAN] /\ probing \in [Window -> BOOLEAN]
  /\ fails \in [Window -> 0..1]
  /\ socks \in [Socket -> SocketState]
  /\ localUp \in BOOLEAN /\ used \in BOOLEAN
  /\ budget \in 0..MaxEvents

\* mode is null in the code until the first probe; nothing reads it before.
Init ==
  /\ RelayInit
  /\ phase = [w \in Window |-> "off"]
  /\ stopped = [w \in Window |-> FALSE]
  /\ idle = [w \in Window |-> FALSE]
  /\ mode = [w \in Window |-> "cloud"]
  /\ ws = [w \in Window |-> Null]
  /\ timers = [w \in Window |-> 0]
  /\ starting = [w \in Window |-> "no"]
  /\ boot = [w \in Window |-> "no"]
  /\ monitor = [w \in Window |-> FALSE]
  /\ probing = [w \in Window |-> FALSE]
  /\ fails = [w \in Window |-> 0]
  /\ socks = [k \in Socket |-> Gone]
  /\ localUp \in BOOLEAN
  /\ used \in BOOLEAN
  /\ budget = IF used THEN MaxBusyEvents ELSE MaxEvents

Spends == budget > 0 /\ budget' = budget - 1 /\ UNCHANGED used

Alive(k) == socks[k].ready \in {"connecting", "open"}
Live(w) == ws[w] \in Socket /\ Alive(ws[w])
Sockets(w) == {k \in Socket : socks[k].owner = w /\ Alive(k)}

\* Nobody refers to the identifier any more.
Unused(k) ==
  /\ socks[k].ready = "closed"
  /\ k # tab
  /\ \A r \in Request : sentTo[r] # k

\* ws.close(): nothing happens to a socket that is closing or closed.
Closed(w) == IF Live(w) THEN [socks EXCEPT ![ws[w]].ready = "closing"] ELSE socks

(***************************************************************************)
(* connect().  connected(w, m) says what it does to phase, ws and socks    *)
(* when the worker's mode is m.                                            *)
(***************************************************************************)
opens(w, m) ==
  LET k == CHOOSE k \in Socket : Unused(k) IN
    /\ \E j \in Socket : Unused(j)
    /\ phase' = [phase EXCEPT ![w] = "connecting"]
    /\ ws' = [ws EXCEPT ![w] = k]
    /\ socks' = [socks EXCEPT ![k] = [owner |-> w, relay |-> m, ready |-> "connecting"]]
    /\ told' = told \ {k}

\* Mutant of connect: a timer opens a socket beside the live one.
connectAnyway(w, m) ==
  IF stopped[w] THEN UNCHANGED <<phase, ws, socks, told>> ELSE opens(w, m)

connect(w, m) ==
  IF stopped[w] \/ Live(w) THEN UNCHANGED <<phase, ws, socks, told>> ELSE opens(w, m)

(***************************************************************************)
(* What the network and the relays do with a socket.                       *)
(***************************************************************************)
\* The registration of a connecting socket reaches the session's relay.
Accept(k) ==
  /\ socks[k].ready = "connecting" /\ socks[k].relay = "cloud"
  /\ k # tab /\ k \notin told
  /\ Register(k)
  /\ UNCHANGED <<worker, socks, world>>

\* sock.onopen.  A socket that was replaced while it connected is closed.
OnOpen(k) ==
  LET w == socks[k].owner IN
  /\ socks[k].ready = "connecting"
  /\ IF socks[k].relay = "cloud" THEN k = tab \/ k \in told ELSE localUp
  /\ IF k # ws[w]
     THEN socks' = [socks EXCEPT ![k].ready = "closing"] /\ UNCHANGED <<phase, idle>>
     ELSE /\ socks' = [socks EXCEPT ![k].ready = "open"]
          /\ phase' = [phase EXCEPT ![w] = "connected"]
          /\ idle' = [idle EXCEPT ![w] = FALSE]
  /\ UNCHANGED <<relayVars, stopped, mode, ws, timers, starting, boot, monitor, probing,
                 fails, world>>

\* Mutant of Retries: a phase no view has a word for.
RetriesUnnamed(w) ==
  /\ timers[w] < MaxTimers
  /\ phase' = [phase EXCEPT ![w] = "reconnecting"]
  /\ timers' = [timers EXCEPT ![w] = @ + 1]

\* setTimeout(connect) after a socket that was not meant to close.
Retries(w) ==
  /\ timers[w] < MaxTimers
  /\ phase' = [phase EXCEPT ![w] = "connecting"]
  /\ timers' = [timers EXCEPT ![w] = @ + 1]

\* sock.onclose; standsBack says that the code is 1012, which it is if the relay
\* closed the socket before it learned of the worker's own close.
closedBy(k, standsBack) ==
  LET w == socks[k].owner IN
  /\ socks' = [socks EXCEPT ![k] = Gone]
  /\ IF k # ws[w] THEN UNCHANGED <<phase, timers, ws>>
     ELSE /\ ws' = [ws EXCEPT ![w] = NoSocket]
          /\ IF stopped[w] \/ standsBack \/ idle[w]
             THEN /\ phase' = [phase EXCEPT ![w] = IF stopped[w] \/ standsBack THEN "off" ELSE "idle"]
                  /\ UNCHANGED timers
             ELSE Retries(w)
  /\ UNCHANGED <<relayVars, stopped, idle, mode, starting, boot, monitor, probing, fails, localUp>>

\* Mutant of OnSuperseded: 1012 is a disconnection like any other.
TakesBack(k) ==
  /\ k \in told
  /\ socks[k].ready \in {"open", "closing"}
  /\ closedBy(k, FALSE)
  /\ UNCHANGED <<used, budget>>

OnSuperseded(k) ==
  /\ k \in told
  /\ socks[k].ready \in {"open", "closing"}
  /\ closedBy(k, TRUE)
  /\ UNCHANGED <<used, budget>>

\* The worker's own close completes.
OnClosed(k) ==
  /\ socks[k].ready = "closing" /\ k \notin told
  /\ closedBy(k, FALSE)
  /\ UNCHANGED <<used, budget>>

\* No relay answers on this host (any more).
OnRefused(k) ==
  /\ Alive(k) /\ socks[k].relay = "local" /\ ~localUp
  /\ closedBy(k, FALSE)
  /\ UNCHANGED <<used, budget>>

\* The session's relay cannot be reached, or the connection breaks, perhaps before
\* the relay's 1012 gets through.
OnFailed(k) ==
  /\ Alive(k)
  /\ Spends
  /\ closedBy(k, FALSE)

\* The relay's side learns that its peer is gone.
Forget(k) ==
  /\ ~Alive(k)
  /\ TabGone(k)
  /\ UNCHANGED <<worker, socks, world>>

LocalRelayFlips ==
  /\ Spends
  /\ localUp' = ~localUp
  /\ UNCHANGED <<relayVars, worker, socks>>

(***************************************************************************)
(* The worker.                                                             *)
(***************************************************************************)
TimerFires(w) ==
  /\ timers[w] > 0
  /\ timers' = [timers EXCEPT ![w] = @ - 1]
  /\ connect(w, mode[w])
  /\ UNCHANGED <<tab, alarm, requests, stopped, idle, mode, starting, boot, monitor, probing,
                 fails, world>>

\* start(): joins a start in progress, does nothing when connected or connecting.
\* A sign-in of a paused user ("noidle") starts in the same way.
Start(w) ==
  /\ starting[w] = "no"
  /\ phase[w] # "connected"
  /\ ~ (phase[w] = "connecting" /\ ~stopped[w] /\ ws[w] # Null)
  /\ Spends
  /\ stopped' = [stopped EXCEPT ![w] = FALSE]
  /\ idle' = [idle EXCEPT ![w] = FALSE]
  /\ phase' = [phase EXCEPT ![w] = "connecting"]
  /\ starting' = [starting EXCEPT ![w] = "boot"]
  /\ UNCHANGED <<relayVars, mode, ws, timers, boot, monitor, probing, fails, socks, localUp>>

\* bootPyodide runs once; its promise, kept or broken, answers every later start.
Booted(w) ==
  /\ starting[w] = "boot"
  /\ \E outcome \in IF boot[w] = "no" THEN {"ok", "failed"} ELSE {boot[w]} :
       /\ boot' = [boot EXCEPT ![w] = outcome]
       /\ IF outcome = "ok"
          THEN starting' = [starting EXCEPT ![w] = "probe"] /\ UNCHANGED phase
          ELSE /\ starting' = [starting EXCEPT ![w] = "no"]
               /\ phase' = [phase EXCEPT ![w] = "off"]
  /\ UNCHANGED <<relayVars, stopped, idle, mode, ws, timers, monitor, probing, fails, socks, world>>

\* The probe chooses the relay; connect and start the monitor.
Probed(w) ==
  LET m == IF localUp THEN "local" ELSE "cloud" IN
  /\ starting[w] = "probe"
  /\ starting' = [starting EXCEPT ![w] = "no"]
  /\ mode' = [mode EXCEPT ![w] = m]
  /\ fails' = [fails EXCEPT ![w] = 0]
  /\ connect(w, m)
  /\ monitor' = [monitor EXCEPT ![w] = TRUE]
  /\ UNCHANGED <<tab, alarm, requests, stopped, idle, timers, boot, probing, world>>

\* Mutant of Stop: the socket is left to the relay.
StopQuietly(w) ==
  /\ Spends
  /\ stopped' = [stopped EXCEPT ![w] = TRUE]
  /\ monitor' = [monitor EXCEPT ![w] = FALSE]
  /\ phase' = [phase EXCEPT ![w] = "off"]
  /\ UNCHANGED <<relayVars, idle, mode, ws, timers, starting, boot, probing, fails, socks, localUp>>

Stop(w) ==
  /\ Spends
  /\ stopped' = [stopped EXCEPT ![w] = TRUE]
  /\ monitor' = [monitor EXCEPT ![w] = FALSE]
  /\ socks' = Closed(w)
  /\ phase' = [phase EXCEPT ![w] = "off"]
  /\ UNCHANGED <<relayVars, idle, mode, ws, timers, starting, boot, probing, fails, localUp>>

\* A request is under way at this worker: state.lastActivity is recent.
Busy(w) == \E r \in Request : job[r] # "none" /\ socks[sentTo[r]].owner = w

\* The monitor pauses a tunnel that served nothing for 30 minutes; by then every
\* timer of at most 5 s has fired.
IdlePause(w) ==
  /\ monitor[w] /\ ~stopped[w]
  /\ phase[w] = "connected" /\ timers[w] = 0 /\ ~Busy(w)
  /\ Spends
  /\ idle' = [idle EXCEPT ![w] = TRUE]
  /\ phase' = [phase EXCEPT ![w] = "idle"]
  /\ socks' = Closed(w)
  /\ UNCHANGED <<relayVars, stopped, mode, ws, timers, starting, boot, monitor, probing, fails, localUp>>

MonitorTick(w) ==
  /\ monitor[w] /\ ~stopped[w] /\ ~probing[w]
  /\ probing' = [probing EXCEPT ![w] = TRUE]
  /\ UNCHANGED <<relayVars, phase, stopped, idle, mode, ws, timers, starting, boot, monitor,
                 fails, socks, world>>

\* The tick's probe answers: switch up to local, fall back after two misses.
MonitorProbed(w) ==
  LET m == IF localUp THEN "local"
           ELSE IF mode[w] = "local" /\ fails[w] = 1 THEN "cloud" ELSE mode[w]
  IN
  /\ probing[w]
  /\ probing' = [probing EXCEPT ![w] = FALSE]
  /\ mode' = [mode EXCEPT ![w] = m]
  /\ fails' = [fails EXCEPT ![w] = IF m = "local" /\ ~localUp THEN 1
                                   ELSE IF m = "cloud" /\ mode[w] = "cloud" THEN @ ELSE 0]
  /\ socks' = IF m # mode[w] THEN Closed(w) ELSE socks
  /\ UNCHANGED <<relayVars, phase, stopped, idle, ws, timers, starting, boot, monitor, world>>

(***************************************************************************)
(* sock.onmessage: a request is taken if it reaches an open socket; its    *)
(* answer is dropped by a socket that has closed meanwhile.                *)
(***************************************************************************)
MessageMoves(r, from, to) ==
  LET arrives == socks[sentTo[r]].ready = "open" IN
  /\ job[r] = from
  /\ socks[sentTo[r]].ready # "connecting"
  /\ job' = [job EXCEPT ![r] = IF arrives THEN to ELSE "none"]
  /\ sentTo' = [sentTo EXCEPT ![r] = IF arrives \/ at[r] = "wait" THEN @ ELSE NoSocket]
  /\ UNCHANGED <<tab, told, alarm, pending, at, worker, socks, world>>

TabTakes(r) == MessageMoves(r, "down", "tab")

TabAnswers(r) == MessageMoves(r, "tab", "up")

Relay(r) ==
  /\ Relays(r) \/ (used /\ Arrive(r))
  /\ UNCHANGED <<worker, socks, world>>

SocketRuns(k) ==
  Accept(k) \/ OnOpen(k) \/ OnSuperseded(k) \/ OnClosed(k) \/ OnRefused(k) \/ Forget(k)

Next ==
  \/ \E k \in Socket : SocketRuns(k) \/ OnFailed(k)
  \/ \E w \in Window :
       \/ TimerFires(w) \/ Start(w) \/ Booted(w) \/ Probed(w) \/ Stop(w)
       \/ IdlePause(w) \/ MonitorTick(w) \/ MonitorProbed(w)
  \/ \E r \in Request : Relay(r) \/ TabTakes(r) \/ TabAnswers(r)
  \/ Alarm /\ UNCHANGED <<worker, socks, world>>
  \/ LocalRelayFlips

(***************************************************************************)
(* Browsers run their timers, probes and socket events, the network        *)
(* delivers, and the relay's own steps happen.  Users, failures and        *)
(* requests have no fairness.                                              *)
(***************************************************************************)
Fairness ==
  /\ \A k \in Socket : WF_vars(SocketRuns(k))
  /\ \A w \in Window :
       /\ WF_vars(TimerFires(w))
       /\ WF_vars(Booted(w) \/ Probed(w))
       /\ WF_vars(MonitorTick(w) \/ MonitorProbed(w))
  /\ \A r \in Request :
       /\ WF_vars(Relays(r) /\ UNCHANGED <<worker, socks, world>>)
       /\ WF_vars(TabTakes(r) \/ TabAnswers(r))

Spec == Init /\ [][Next]_vars /\ Fairness

-----------------------------------------------------------------------------
\* A worker never has two live sockets: the relay would let the newer supersede
\* the older, and the two would close each other for ever.  connect() is called by
\* timers, starts and the monitor's switches, in any order.
OneLiveSocket == \A w \in Window : Cardinality(Sockets(w)) <= 1

\* Stop means stop: no timer, probe, boot or late event gives a stopped worker a
\* live socket before the user starts it again.
StopSticks == \A w \in Window : stopped[w] => Sockets(w) = {}

\* Whatever timers, starts, probes and switches do, a window has the one socket it
\* is meant to have: at most one while it runs (OneLiveSocket), none once it was
\* stopped (StopSticks).
SocketsInHand == OneLiveSocket /\ StopSticks

\* The windows of a session do not take turns for ever: once users and networks leave
\* them alone, every window stops opening sockets.
TurnsEnd == \A w \in Window : <>[](phase[w] # "connecting")
=============================================================================
