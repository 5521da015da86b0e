---------------------------- MODULE RelaySession ----------------------------
(***************************************************************************)
(* wasm/relay/worker.js: the Durable Object of one tunnel session.  It     *)
(* holds the socket of the newest tab that registered, relays requests of  *)
(* outside programs over it and hands the answers back.                    *)
(*                                                                         *)
(* JavaScript runs one turn at a time, so an action is what happens        *)
(* between two awaits; a request awaits its own body between the checks it *)
(* passed and its entry in the table of pending requests.                  *)
(*                                                                         *)
(* Socket identifiers are recycled: one that both ends have forgotten may  *)
(* name a new connection.                                                  *)
(***************************************************************************)
EXTENDS Naturals, FiniteSets

CONSTANTS
  Socket,      \* identifiers of connections
  Request,     \* requests of outside programs
  MaxPending,  \* MAX_PENDING: requests in flight per session
  NoSocket

ASSUME RelayAssumption == NoSocket \notin Socket /\ MaxPending \in Nat

VARIABLES
  tab,      \* the socket held for the session (getWebSockets)
  told,     \* sockets the relay closed with 1012, "superseded"
  alarm,    \* is a keepalive alarm armed?
  pending,  \* the requests in this.pending
  at,       \* where each request is in fetch()
  sentTo,   \* the tab a request captured before it awaited its body
  job       \* where its message is: on its way to the tab, handled there, on its way back

relayVars == <<tab, told, alarm, pending, at, sentTo, job>>
requests == <<pending, at, sentTo, job>>

RelayTypeOK ==
  /\ tab \in Socket \cup {NoSocket}
  /\ told \subseteq Socket
  /\ alarm \in BOOLEAN
  /\ pending \subseteq Request
  /\ at \in [Request -> {"new", "body", "wait"}]
  /\ sentTo \in [Request -> Socket \cup {NoSocket}]
  /\ job \in [Request -> {"none", "down", "tab", "up"}]

RelayInit ==
  /\ tab = NoSocket
  /\ told = {}
  /\ alarm = FALSE
  /\ pending = {}
  /\ at = [r \in Request |-> "new"]
  /\ sentTo = [r \in Request |-> NoSocket]
  /\ job = [r \in Request |-> "none"]

\* A fresh tab supersedes the one that is held, and arms the keepalive.
Register(k) ==
  /\ told' = IF tab = NoSocket THEN told ELSE told \cup {tab}
  /\ tab' = k
  /\ alarm' = TRUE
  /\ UNCHANGED requests

\* webSocketClose, webSocketError: the runtime forgets a socket whose peer is gone.
TabGone(k) ==
  /\ tab = k
  /\ tab' = NoSocket
  /\ UNCHANGED <<told, alarm, requests>>

\* A keepalive tick re-arms itself while a tab is connected.
Alarm ==
  /\ alarm
  /\ alarm' = (tab # NoSocket)
  /\ UNCHANGED <<tab, told, requests>>

(***************************************************************************)
(* fetch() in proxy mode.  A program that got its answer may ask again, so *)
(* a finished request is one that has not begun.  Arrive takes the newest  *)
(* tab and looks at the table (503 without a tab, 429 when it is full: no  *)
(* step here), then awaits the body.                                       *)
(***************************************************************************)
Arrive(r) ==
  /\ at[r] = "new" /\ job[r] = "none"
  /\ tab # NoSocket
  /\ Cardinality(pending) < MaxPending
  /\ at' = [at EXCEPT ![r] = "body"]
  /\ sentTo' = [sentTo EXCEPT ![r] = tab]
  /\ UNCHANGED <<tab, told, alarm, pending, job>>

\* A response was returned; the tab is kept only as long as the message to it.
Finish(r) ==
  /\ at' = [at EXCEPT ![r] = "new"]
  /\ pending' = pending \ {r}
  /\ sentTo' = [sentTo EXCEPT ![r] = IF job'[r] = "none" THEN NoSocket ELSE @]

TooLarge(r) ==
  /\ at[r] = "body"
  /\ UNCHANGED job
  /\ Finish(r)
  /\ UNCHANGED <<tab, told, alarm>>

Enter(r) ==
  /\ pending' = pending \cup {r}
  /\ at' = [at EXCEPT ![r] = "wait"]
  /\ job' = [job EXCEPT ![r] = "down"]
  /\ UNCHANGED sentTo

\* Mutant of Send: the entry stays in the table when the send throws.
SendLeaks(r) ==
  /\ at[r] = "body"
  /\ IF sentTo[r] = tab THEN Enter(r)
     ELSE /\ at' = [at EXCEPT ![r] = "new"]
          /\ pending' = pending \cup {r}
          /\ sentTo' = [sentTo EXCEPT ![r] = NoSocket]
          /\ UNCHANGED job
  /\ UNCHANGED <<tab, told, alarm>>

\* The body is here: enter the table and send.  A captured tab that was closed
\* meanwhile makes send throw, and the entry is taken out again (503).
Send(r) ==
  /\ at[r] = "body"
  /\ IF sentTo[r] = tab THEN Enter(r) ELSE UNCHANGED job /\ Finish(r)
  /\ UNCHANGED <<tab, told, alarm>>

\* webSocketMessage: an answer to a request that is still pending resolves it;
\* one that comes after the timeout finds no entry.
Answered(r) ==
  /\ job[r] = "up"
  /\ job' = [job EXCEPT ![r] = "none"]
  /\ Finish(r)
  /\ UNCHANGED <<tab, told, alarm>>

\* Mutant of TimesOut: the clock runs only until the tab has taken the request.
TimesOutUntaken(r) ==
  /\ r \in pending
  /\ job[r] = "down"
  /\ UNCHANGED job
  /\ Finish(r)
  /\ UNCHANGED <<tab, told, alarm>>

\* REQ_TIMEOUT_MS after it was sent (504).
TimesOut(r) ==
  /\ r \in pending
  /\ UNCHANGED job
  /\ Finish(r)
  /\ UNCHANGED <<tab, told, alarm>>

\* The steps the relay takes by itself.
Relays(r) == TooLarge(r) \/ Send(r) \/ Answered(r) \/ TimesOut(r)

-----------------------------------------------------------------------------
\* The table holds exactly the requests that wait for an answer: an entry left
\* behind by a failed send, a timeout or an answer would count against the cap
\* for ever, and a request that waits without one could never be answered.
PendingIsWaiting == pending = {r \in Request : at[r] = "wait"}

\* worker.js:17 calls MAX_PENDING the "per-session in-flight cap".
PendingCapped == Cardinality(pending) <= MaxPending

\* Every relayed request is answered, by the tab or with an error, whatever the
\* tab does meanwhile.
EveryRequestEnds == \A r \in Request : at[r] \in {"body", "wait"} ~> at[r] = "new"
=============================================================================
