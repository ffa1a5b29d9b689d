----------------------------- MODULE SocketMode -----------------------------
(***************************************************************************)
(* The Socket Mode connection of the Slack bridge: openSocket, its         *)
(* reconnects and the listeners of its sockets (service/slack.mjs).  What  *)
(* travels over it is SlackBridge's.                                       *)
(*                                                                         *)
(* A call to apps.connections.open is an await: timers and sockets go on   *)
(* meanwhile, and a second call may begin.  How long a reconnect is put    *)
(* off is left out; that it is put off is not.                             *)
(***************************************************************************)
EXTENDS Naturals, FiniteSets

CONSTANTS
  Sockets,   \* WebSocket objects; one that is closed and forgotten is used again
  None,      \* no socket
  MaxCalls,  \* bound on calls of apps.connections.open in flight
  MaxFaults  \* bound on calls that throw: the network fails, or the URL is no URL

ASSUME SocketsAssumption == IsFiniteSet(Sockets) /\ None \notin Sockets
ASSUME BoundsAssumption == MaxCalls \in Nat \ {0} /\ MaxFaults \in Nat

VARIABLES
  phase,      \* start() is opening the first socket, the bridge runs, or it exited
  stopped,
  ws,         \* the current socket
  socket,     \* readyState of each socket; a closed one is "none"
  scheduled,  \* reconnectScheduled: the timer is set
  calls,      \* openSocket calls at their await
  lost,       \* history: a reconnect threw, and no other has begun since
  faults

vars == <<phase, stopped, ws, socket, scheduled, calls, lost, faults>>

Live == {"connecting", "open"}

Init ==
  /\ phase = "opening"
  /\ stopped = FALSE
  /\ ws = None
  /\ socket = [s \in Sockets |-> "none"]
  /\ scheduled = FALSE
  /\ calls = 1
  /\ lost = FALSE
  /\ faults = 0

----------------------------------------------------------------------------
(***************************************************************************)
(* openSocket                                                              *)
(***************************************************************************)
scheduleReconnect == scheduled' = (scheduled \/ ~stopped)

\* Mutant: the previous socket is left to itself.
ClosedNot(s) == socket[s]
\* close() of a socket that is not closed yet.
Closed(s) == IF socket[s] \in Live THEN "closing" ELSE socket[s]

\* Slack answered with a URL: the new socket takes the place of the current one.
Opened ==
  /\ phase # "exited"
  /\ calls > 0
  /\ \E s \in Sockets \ {ws} :
       /\ socket[s] = "none"
       /\ socket' = [t \in Sockets |-> IF t = s THEN "connecting"
                                       ELSE IF t = ws THEN Closed(t) ELSE socket[t]]
       /\ ws' = s
  /\ calls' = calls - 1
  /\ phase' = "running"
  /\ UNCHANGED <<stopped, scheduled, lost, faults>>

\* Mutant: a refusal schedules nothing.
RefusedForGood ==
  /\ phase # "exited"
  /\ calls > 0
  /\ calls' = calls - 1
  /\ phase' = "running"
  /\ UNCHANGED <<stopped, ws, socket, scheduled, lost, faults>>

\* Slack answered without one.
Refused ==
  /\ phase # "exited"
  /\ calls > 0
  /\ calls' = calls - 1
  /\ phase' = "running"
  /\ scheduleReconnect
  /\ UNCHANGED <<stopped, ws, socket, lost, faults>>

\* The call or connect() throws: start() rejects and the process exits; a
\* reconnect is only logged.
Throws ==
  /\ phase # "exited"
  /\ calls > 0
  /\ faults < MaxFaults
  /\ faults' = faults + 1
  /\ calls' = calls - 1
  /\ phase' = IF phase = "opening" THEN "exited" ELSE phase
  /\ lost' = TRUE
  /\ UNCHANGED <<stopped, ws, socket, scheduled>>

\* The timer of scheduleReconnect.
Reconnect ==
  /\ phase = "running"
  /\ scheduled
  /\ calls < MaxCalls
  /\ scheduled' = FALSE
  /\ calls' = IF stopped THEN calls ELSE calls + 1
  /\ lost' = (lost /\ stopped)
  /\ UNCHANGED <<phase, stopped, ws, socket, faults>>

----------------------------------------------------------------------------
(***************************************************************************)
(* The listeners, and stop                                                 *)
(***************************************************************************)
Connects(s) ==
  /\ phase = "running"
  /\ socket[s] = "connecting"
  /\ socket' = [socket EXCEPT ![s] = "open"]
  /\ UNCHANGED <<phase, stopped, ws, scheduled, calls, lost, faults>>

\* 'close', of a socket the bridge closed or one that the other side dropped.
Close(s) ==
  /\ phase = "running"
  /\ socket' = [socket EXCEPT ![s] = "none"]
  /\ IF s = ws THEN scheduleReconnect ELSE UNCHANGED scheduled
  /\ UNCHANGED <<phase, stopped, ws, calls, lost, faults>>
Drops(s) == socket[s] \in Live /\ Close(s)
Finishes(s) == socket[s] = "closing" /\ Close(s)

\* A disconnect frame, on any socket that still delivers.
Disconnect(s) ==
  /\ phase = "running"
  /\ socket[s] \in {"open", "closing"}
  /\ scheduleReconnect
  /\ UNCHANGED <<phase, stopped, ws, socket, calls, lost, faults>>

Stop ==
  /\ phase # "exited"
  /\ ~stopped
  /\ stopped' = TRUE
  /\ socket' = [s \in Sockets |-> IF s = ws THEN Closed(s) ELSE socket[s]]
  /\ ws' = None
  /\ UNCHANGED <<phase, scheduled, calls, lost, faults>>

Next ==
  \/ Opened \/ Refused \/ Throws \/ Reconnect \/ Stop
  \/ \E s \in Sockets : Connects(s) \/ Drops(s) \/ Finishes(s) \/ Disconnect(s)

Spec == Init /\ [][Next]_vars

----------------------------------------------------------------------------
(***************************************************************************)
(* Properties                                                              *)
(***************************************************************************)
TypeOK ==
  /\ phase \in {"opening", "running", "exited"} /\ stopped \in BOOLEAN
  /\ ws \in Sockets \cup {None}
  /\ socket \in [Sockets -> Live \cup {"none", "closing"}]
  /\ scheduled \in BOOLEAN /\ calls \in 0..MaxCalls /\ lost \in BOOLEAN /\ faults \in 0..MaxFaults
  /\ phase = "opening" => calls = 1 /\ ws = None /\ ~scheduled

\* However many calls overlap, no socket but the current one stays live: a socket
\* that lost its place was closed (slack.mjs:980-982, :999-1005).
OnlyCurrentLive ==
  \A s \in Sockets : socket[s] \in Live => s = ws

Trying == scheduled \/ calls > 0
Connected == ws # None /\ socket[ws] \in Live
Wanted == phase = "running" /\ ~stopped

\* Unless a reconnect threw, a bridge that is meant to run has a live socket, or a
\* reconnect set or under way (service/README.md:567-570).
NeverAbandoned == Wanted /\ ~lost => Connected \/ Trying

\* "Reconnects automatically" (service/README.md:567): whatever a reconnect meets, a
\* bridge without a live socket goes on trying.
KeepsReconnecting == Wanted => Connected \/ Trying

\* "never a gap with zero live connections" (service/README.md:569-570,
\* slack.mjs:997-998): the bridge closes an open connection only beside another one.
NeverAGap ==
  [][\A s \in Sockets : socket[s] = "open" /\ socket'[s] = "closing" =>
       stopped' \/ \E t \in Sockets : socket'[t] = "open"]_vars
=============================================================================
