--------------------------- MODULE SocketManager ---------------------------
(***************************************************************************)
(* The WebSocket of the web client: one socket, kept by socketManager.ts   *)
(* in a SharedWorker (shared.worker.ts) for all tabs, with the heartbeat,  *)
(* the reconnect timer, and in each tab the connection state the user is   *)
(* shown and the poll that connects again (ws.ts, ws.manager.ts,           *)
(* auth.slice.ts).                                                         *)
(*                                                                         *)
(* Everything happens in event loops, so a callback is one step. The       *)
(* browser's part is external: a socket opens, fails, goes silent, and     *)
(* says so some time after. Messages between a tab and the worker are      *)
(* taken to arrive at once.                                                *)
(***************************************************************************)
EXTENDS Naturals, FiniteSets

CONSTANTS Tab,
          Url,        \* the server URLs the client is pointed at
          Socket,     \* the WebSocket objects there may be at a time
          MaxFails,   \* bound: failures of the network or the server
          MaxPorts,   \* bound: ports of one tab
          Unset

ASSUME UnsetAssumption == Unset \notin Socket \cup Url
ASSUME SocketBounds    == MaxFails \in Nat /\ MaxPorts \in Nat

VARIABLES
  state,         \* socket -> "none", "connecting", "open", "silent", "closing"
  code,          \* socket -> will its close event say "normal" or "abnormal"
  socket,        \* the manager's current socket, or Unset
  lastUrl,       \* the URL it was told last
  disconnected,  \* the manager was told to disconnect
  heart,         \* heartbeatTimer and livenessTimer run
  retry,         \* reconnectTimer runs
  base,          \* the URL the tabs use
  worker,        \* tab -> it has a port to the worker
  ports,         \* tab -> its ports in the worker's registry
  started,       \* tab -> initWebSocket has been called: the poll runs
  user,          \* tab -> somebody is logged in there
  wsState,       \* tab -> the connection state it shows
  fails,         \* failures so far
  late,          \* a socket that had been replaced has reported its end since the
                 \* last socket opened (history)
  asked          \* a tab has asked for a connection since the worker began or
                 \* the last logout (history)

connection == <<state, code, socket, lastUrl, disconnected, heart, retry>>
tabs       == <<worker, ports, started, user, wsState>>
socketHistory == <<late, asked>>
socketVars == <<connection, base, tabs, fails, socketHistory>>

SocketTypeOK ==
  /\ state \in [Socket -> {"none", "connecting", "open", "silent", "closing"}]
  /\ code \in [Socket -> {"normal", "abnormal"}]
  /\ socket \in Socket \cup {Unset}
  /\ lastUrl \in Url \cup {Unset} /\ base \in Url
  /\ disconnected \in BOOLEAN /\ heart \in BOOLEAN /\ retry \in BOOLEAN /\ late \in BOOLEAN
  /\ asked \in BOOLEAN
  /\ worker \in [Tab -> BOOLEAN]
  /\ started \in [Tab -> BOOLEAN]
  /\ user \in [Tab -> BOOLEAN]
  /\ ports \in [Tab -> 0 .. MaxPorts]
  /\ wsState \in [Tab -> {"connected", "connecting", "disconnected"}]
  /\ fails \in 0 .. MaxFails
  /\ \A t \in Tab : /\ user[t] => worker[t]
                    /\ worker[t] => started[t]
                    /\ started[t] => ports[t] > 0

AllNone == [s \in Socket |-> "none"]

SocketInit ==
  /\ state = AllNone
  /\ code = [s \in Socket |-> "normal"]
  /\ socket = Unset /\ lastUrl = Unset
  /\ disconnected = FALSE /\ heart = FALSE /\ retry = FALSE
  /\ base \in Url
  /\ worker = [t \in Tab |-> FALSE]
  /\ ports = [t \in Tab |-> 0]
  /\ started = [t \in Tab |-> FALSE]
  /\ user = [t \in Tab |-> FALSE]
  /\ wsState = [t \in Tab |-> "disconnected"]
  /\ fails = 0 /\ late = FALSE /\ asked = FALSE

\* What the browser calls OPEN; nobody can tell a silent one.
IsOpen == socket # Unset /\ state[socket] \in {"open", "silent"}

\* A socket that need not be replaced when the manager is told to connect to u.
InUse(s) == s # Unset /\ state[s] \in {"connecting", "open", "silent"}

\* A tab with a port hears what the worker broadcasts.
Broadcast(shown) == wsState' = [t \in Tab |-> IF ports[t] > 0 THEN shown ELSE wsState[t]]

-----------------------------------------------------------------------------
(* connect, disconnect *)

\* Mutant: any socket is kept, one that is closed included.
KeepsAny(u) == socket # Unset /\ u = lastUrl

Keeps(u) == InUse(socket) /\ u = lastUrl

Closing(s) == /\ state' = [state EXCEPT ![s] = "closing"]
              /\ code' = [code EXCEPT ![s] = IF state[s] = "connecting" THEN "abnormal" ELSE "normal"]

Open(n, old) ==
  /\ state' = [s \in Socket |-> IF s = n THEN "connecting"
                                ELSE IF s \in old THEN "closing" ELSE state[s]]
  /\ code' = [s \in Socket |-> IF s \in old /\ state[s] = "connecting" THEN "abnormal"
                               ELSE IF s \in old \cup {n} THEN "normal" ELSE code[s]]
  /\ socket' = n

\* Mutant: the socket for the old URL is left as it is.
NothingReplaced == {}

\* A socket for another URL is closed, then replaced.
Replaced == {s \in Socket : s = socket /\ InUse(s)}

Connect(u) ==
  /\ disconnected' = FALSE
  /\ IF Keeps(u)
     THEN UNCHANGED <<state, code, socket, lastUrl>>
     ELSE /\ \E n \in Socket : state[n] = "none" /\ Open(n, Replaced)
          /\ lastUrl' = u
  /\ UNCHANGED <<heart, retry>>

\* connectWS: the tab shows it is connecting; a new port hears at once if it is.
ConnectWS(t) ==
  /\ started' = [started EXCEPT ![t] = TRUE]
  /\ worker' = [worker EXCEPT ![t] = TRUE]
  /\ IF worker[t]
     THEN UNCHANGED ports
     ELSE ports[t] < MaxPorts /\ ports' = [ports EXCEPT ![t] = @ + 1]
  /\ wsState' = [wsState EXCEPT ![t] = IF ~worker[t] /\ IsOpen THEN "connected" ELSE "connecting"]
  /\ Connect(base)
  /\ asked' = TRUE

Login(t) ==
  /\ ~user[t]
  /\ user' = [user EXCEPT ![t] = TRUE]
  /\ ConnectWS(t)
  /\ UNCHANGED <<base, fails, late>>

\* online, visibilitychange and every fifteen seconds, logged in or not.
ReconnectIfNeeded(t) ==
  /\ started[t]
  /\ wsState[t] # "connected"
  /\ ConnectWS(t)
  /\ UNCHANGED <<user, base, fails, late>>

RetryAfterDisconnect == FALSE

\* logout: disconnectWS, for the worker and so for all tabs.
Logout(t) ==
  /\ user[t]
  /\ user' = [user EXCEPT ![t] = FALSE]
  /\ worker' = [worker EXCEPT ![t] = FALSE]
  /\ wsState' = [wsState EXCEPT ![t] = "disconnected"]
  /\ disconnected' = TRUE
  /\ retry' = RetryAfterDisconnect
  /\ heart' = FALSE
  /\ socket' = Unset
  /\ asked' = FALSE
  /\ IF InUse(socket) THEN Closing(socket) ELSE UNCHANGED <<state, code>>
  /\ UNCHANGED <<lastUrl, base, ports, started, fails, late>>

\* The first port of a tab leaves with it. The worker ends with the last tab.
CloseTab(t) ==
  /\ started[t]
  /\ IF \E o \in Tab \ {t} : started[o]
     THEN UNCHANGED <<connection, socketHistory>> /\ ports' = [ports EXCEPT ![t] = @ - 1]
     ELSE /\ state' = AllNone
          /\ code' = [s \in Socket |-> "normal"]
          /\ socket' = Unset /\ lastUrl' = Unset
          /\ disconnected' = FALSE /\ heart' = FALSE /\ retry' = FALSE
          /\ ports' = [o \in Tab |-> 0]
          /\ late' = FALSE /\ asked' = FALSE
  /\ started' = [started EXCEPT ![t] = FALSE]
  /\ user' = [user EXCEPT ![t] = FALSE]
  /\ worker' = [worker EXCEPT ![t] = FALSE]
  /\ wsState' = [wsState EXCEPT ![t] = "disconnected"]
  /\ UNCHANGED <<base, fails>>

SetBaseUrl(u) ==
  /\ u # base
  /\ base' = u
  /\ UNCHANGED <<connection, tabs, fails, socketHistory>>

-----------------------------------------------------------------------------
(* Socket events and timers *)

\* Mutant: a heartbeat is started only where one runs.
OnlyRestarts == heart

StartHeartbeat == TRUE

OnOpen(s) ==
  /\ state[s] = "connecting"
  /\ state' = [state EXCEPT ![s] = "open"]
  /\ Broadcast("connected")
  /\ heart' = StartHeartbeat
  /\ late' = FALSE
  /\ UNCHANGED <<code, socket, lastUrl, disconnected, retry, base,
                 worker, ports, started, user, fails, asked>>

\* Mutant: a logout does not count.
RetriesAnyway(s) == code[s] = "abnormal"

Retries(s) == ~disconnected /\ code[s] = "abnormal"

OnClose(s) ==
  /\ state[s] = "closing"
  /\ state' = [state EXCEPT ![s] = "none"]
  /\ code' = [code EXCEPT ![s] = "normal"]
  /\ heart' = FALSE
  /\ Broadcast("disconnected")
  /\ retry' = (retry \/ Retries(s))
  /\ late' = (late \/ (socket # Unset /\ s # socket))
  /\ UNCHANGED <<socket, lastUrl, disconnected, base, worker, ports, started, user, fails, asked>>

ReconnectTimer ==
  /\ retry
  /\ retry' = FALSE
  /\ disconnected' = FALSE
  /\ IF InUse(socket)
     THEN UNCHANGED <<state, code, socket>>
     ELSE \E n \in Socket : state[n] = "none" /\ Open(n, {})
  /\ UNCHANGED <<lastUrl, heart, base, tabs, fails, socketHistory>>

\* No traffic for two heartbeats: the socket is closed.
LivenessTimer ==
  /\ heart
  /\ socket # Unset /\ state[socket] = "silent"
  /\ state' = [state EXCEPT ![socket] = "closing"]
  /\ code' = [code EXCEPT ![socket] = "abnormal"]
  /\ UNCHANGED <<socket, lastUrl, disconnected, heart, retry, base, tabs, fails, socketHistory>>

\* The connection is refused or lost, or the server closes it.
Fail(s, how) ==
  /\ state[s] \in {"connecting", "open", "silent"}
  /\ state[s] = "connecting" => how = "abnormal"
  /\ fails < MaxFails /\ fails' = fails + 1
  /\ state' = [state EXCEPT ![s] = "closing"]
  /\ code' = [code EXCEPT ![s] = how]
  /\ UNCHANGED <<socket, lastUrl, disconnected, heart, retry, base, tabs, socketHistory>>

\* The connection is lost and nothing says so.
GoSilent(s) ==
  /\ state[s] = "open"
  /\ fails < MaxFails /\ fails' = fails + 1
  /\ state' = [state EXCEPT ![s] = "silent"]
  /\ UNCHANGED <<code, socket, lastUrl, disconnected, heart, retry, base, tabs, socketHistory>>

-----------------------------------------------------------------------------
Timers == ReconnectTimer \/ LivenessTimer

SocketNext ==
  \/ \E t \in Tab : Login(t) \/ Logout(t) \/ ReconnectIfNeeded(t) \/ CloseTab(t)
  \/ \E u \in Url : SetBaseUrl(u)
  \/ \E s \in Socket : OnOpen(s) \/ OnClose(s) \/ GoSilent(s)
  \/ \E s \in Socket, how \in {"normal", "abnormal"} : Fail(s, how)
  \/ Timers

SocketSpec == SocketInit /\ [][SocketNext]_socketVars

\* Timers fire, attempts to connect end, ends are reported. Whether anybody logs
\* in, logs out or closes a tab is theirs to decide.
Fairness ==
  /\ WF_socketVars(ReconnectTimer) /\ WF_socketVars(LivenessTimer)
  /\ \A t \in Tab : WF_socketVars(ReconnectIfNeeded(t))
  /\ \A s \in Socket : WF_socketVars(OnOpen(s)) /\ WF_socketVars(OnClose(s))

FairSpec == SocketSpec /\ Fairness

-----------------------------------------------------------------------------
(* Safety. *)

\* However logins, polls, timers, URL changes and late close events interleave,
\* the client never holds two connections: a second one would deliver and count
\* every message twice. And the manager lets go of no socket that is alive.
OneConnection ==
  \A s \in Socket : InUse(s) => s = socket

\* Nothing of a connection goes on that no tab has asked for: a logout, and the end
\* of the worker, leave no live socket, no heartbeat and no reconnect timer, though the
\* end of the closed socket is reported only later, and though one that never opened
\* ends abnormally whatever it was closed with. (The poll asks every fifteen seconds,
\* logged in or not, so this is no promise that a client stays silent after a logout.)
\* And a tab shows a connection only while there is one whose end it has yet to hear:
\* the poll believes what the tab shows, and would never ask again.
ConnectedAsAsked ==
  /\ ~asked => ~heart /\ ~retry /\ \A s \in Socket : ~InUse(s)
  /\ \A t \in Tab : started[t] /\ wsState[t] = "connected" =>
        \E s \in Socket : state[s] \in {"open", "silent", "closing"}

\* An open socket has its heartbeat, whatever was closed, replaced or retried on
\* the way, unless a replaced socket reported its end after it had opened.
OpenIsWatched ==
  IsOpen /\ ~late => heart

-----------------------------------------------------------------------------
(* Liveness. *)

LoggedIn == \E t \in Tab : user[t]

\* Nobody logs in or out any more and the URL stays.
Settles == <>[][FALSE]_<<user, base>>

\* Once the failures stop, a client that stays logged in has a live connection,
\* unless a replaced socket reported its end after that one had opened and took the
\* heartbeat along.
Reconnects ==
  Settles => <>[](LoggedIn => late \/ (socket # Unset /\ state[socket] = "open"))
=============================================================================
