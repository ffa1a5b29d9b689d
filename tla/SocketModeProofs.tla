-------------------------- MODULE SocketModeProofs --------------------------
(***************************************************************************)
(* Theorems about the Socket Mode connection, for any number of sockets,   *)
(* calls in flight and calls that throw.  The invariant needs no more than *)
(* the properties: what replaces a socket, drops it or gives up on it also *)
(* leaves a call or a timer.                                               *)
(***************************************************************************)
EXTENDS SocketMode, TLAPS

SocketInv == TypeOK /\ OnlyCurrentLive /\ NeverAbandoned

LEMMA SocketInit ==
  ASSUME Init PROVE SocketInv
<1>1. socket \in [Sockets -> Live \cup {"none", "closing"}]  BY DEF Init, Live
<1>2. calls \in 0..MaxCalls /\ faults \in 0..MaxFaults  BY BoundsAssumption DEF Init
<1>3. TypeOK  BY <1>1, <1>2 DEF Init, TypeOK
<1>4. OnlyCurrentLive /\ NeverAbandoned  BY DEF Init, OnlyCurrentLive, NeverAbandoned, Wanted, Live
<1> QED  BY <1>3, <1>4 DEF SocketInv

\* The current socket is live unless it was dropped, and then a reconnect is set.
LEMMA OpenedStep ==
  ASSUME SocketInv, Opened PROVE SocketInv'
<1>1. PICK s \in Sockets \ {ws} :
        /\ socket[s] = "none" /\ ws' = s
        /\ socket' = [t \in Sockets |-> IF t = s THEN "connecting"
                                        ELSE IF t = ws THEN Closed(t) ELSE socket[t]]
  BY DEF Opened
<1>2. TypeOK  BY DEF SocketInv
<1>3. \A t \in Sockets : Closed(t) \in {"none", "closing"}
  BY <1>2 DEF TypeOK, Closed, Live
<1>4. \A t \in Sockets : socket'[t] = (IF t = s THEN "connecting" ELSE IF t = ws THEN Closed(t) ELSE socket[t])
  BY <1>1
<1>5. TypeOK'
  <2>1. socket' \in [Sockets -> Live \cup {"none", "closing"}]  BY <1>1, <1>2, <1>3 DEF TypeOK, Live
  <2>2. calls' \in 0..MaxCalls  BY <1>2, BoundsAssumption DEF Opened, TypeOK
  <2> QED  BY <1>1, <1>2, <2>1, <2>2 DEF Opened, TypeOK
<1>6. OnlyCurrentLive'
  <2> SUFFICES ASSUME NEW t \in Sockets, t # s PROVE socket'[t] \notin Live
    BY <1>1 DEF OnlyCurrentLive
  <2>1. CASE t = ws  BY <1>3, <1>4, <2>1 DEF Live
  <2>2. CASE t # ws  BY <1>4, <2>2 DEF SocketInv, OnlyCurrentLive
  <2> QED  BY <2>1, <2>2
<1>7. Connected'  BY <1>1, <1>4, SocketsAssumption DEF Connected, Live
<1> QED  BY <1>5, <1>6, <1>7 DEF SocketInv, NeverAbandoned

LEMMA CallStep ==
  ASSUME SocketInv, Refused \/ Throws \/ Reconnect PROVE SocketInv'
<1>1. TypeOK /\ OnlyCurrentLive /\ NeverAbandoned  BY DEF SocketInv
<1>2. TypeOK'
  <2>1. CASE Refused  BY <1>1, <2>1, BoundsAssumption DEF Refused, scheduleReconnect, TypeOK
  <2>2. CASE Throws  BY <1>1, <2>2, BoundsAssumption DEF Throws, TypeOK
  <2>3. CASE Reconnect
    <3>1. calls' \in 0..MaxCalls  BY <1>1, <2>3, BoundsAssumption DEF Reconnect, TypeOK
    <3>2. lost' \in BOOLEAN  BY <2>3 DEF Reconnect
    <3> QED  BY <1>1, <2>3, <3>1, <3>2 DEF Reconnect, TypeOK
  <2> QED  BY <2>1, <2>2, <2>3
<1>3. OnlyCurrentLive'  BY <1>1 DEF Refused, Throws, Reconnect, OnlyCurrentLive
<1>4. NeverAbandoned'
  <2>1. CASE Refused  BY <2>1 DEF Refused, scheduleReconnect, NeverAbandoned, Wanted, Trying
  <2>2. CASE Throws  BY <2>2 DEF Throws, NeverAbandoned
  <2>3. CASE Reconnect
    <3>1. ~stopped => calls' > 0  BY <1>1, <2>3 DEF Reconnect, TypeOK
    <3> QED  BY <2>3, <3>1 DEF Reconnect, NeverAbandoned, Wanted, Trying
  <2> QED  BY <2>1, <2>2, <2>3
<1> QED  BY <1>2, <1>3, <1>4 DEF SocketInv

LEMMA ListenerStep ==
  ASSUME SocketInv, NEW s \in Sockets, Connects(s) \/ Drops(s) \/ Finishes(s) \/ Disconnect(s)
  PROVE  SocketInv'
<1>1. TypeOK /\ OnlyCurrentLive /\ NeverAbandoned  BY DEF SocketInv
<1>2. CASE Connects(s)
  <2>1. TypeOK'  BY <1>1, <1>2 DEF Connects, TypeOK, Live
  <2>2. \A t \in Sockets : socket'[t] \in Live <=> socket[t] \in Live
    BY <1>1, <1>2 DEF Connects, TypeOK, Live
  <2>3. OnlyCurrentLive'  BY <1>1, <1>2, <2>2 DEF Connects, OnlyCurrentLive
  <2>4. NeverAbandoned'
    <3>1. Connected => Connected'  BY <1>1, <1>2, <2>2 DEF Connects, Connected, TypeOK
    <3> QED  BY <1>1, <1>2, <3>1 DEF Connects, NeverAbandoned, Wanted, Trying
  <2> QED  BY <2>1, <2>3, <2>4 DEF SocketInv
<1>3. CASE Close(s)
  <2>1. \A t \in Sockets : socket'[t] = (IF t = s THEN "none" ELSE socket[t])
    BY <1>1, <1>3 DEF Close, TypeOK
  <2>2. TypeOK'  BY <1>1, <1>3 DEF Close, scheduleReconnect, TypeOK, Live
  <2>3. OnlyCurrentLive'  BY <1>1, <1>3, <2>1 DEF Close, OnlyCurrentLive, Live
  <2>4. NeverAbandoned'
    <3>1. CASE s = ws  BY <1>3, <3>1 DEF Close, scheduleReconnect, NeverAbandoned, Wanted, Trying
    <3>2. CASE s # ws
      <4>1. Connected => Connected'  BY <1>1, <1>3, <2>1, <3>2 DEF Close, Connected, TypeOK
      <4> QED  BY <1>1, <1>3, <3>2, <4>1 DEF Close, NeverAbandoned, Wanted, Trying
    <3> QED  BY <3>1, <3>2
  <2> QED  BY <2>2, <2>3, <2>4 DEF SocketInv
<1>4. CASE Disconnect(s)
  <2>1. TypeOK'  BY <1>1, <1>4 DEF Disconnect, scheduleReconnect, TypeOK
  <2>2. OnlyCurrentLive'  BY <1>1, <1>4 DEF Disconnect, OnlyCurrentLive
  <2>3. NeverAbandoned'  BY <1>4 DEF Disconnect, scheduleReconnect, NeverAbandoned, Wanted, Trying
  <2> QED  BY <2>1, <2>2, <2>3 DEF SocketInv
<1> QED  BY <1>2, <1>3, <1>4 DEF Drops, Finishes

LEMMA StopStep ==
  ASSUME SocketInv, Stop PROVE SocketInv'
<1>1. TypeOK /\ OnlyCurrentLive  BY DEF SocketInv
<1>2. \A t \in Sockets : Closed(t) \in {"none", "closing"}  BY <1>1 DEF TypeOK, Closed, Live
<1>3. \A t \in Sockets : socket'[t] = (IF t = ws THEN Closed(t) ELSE socket[t])  BY DEF Stop
<1>4. TypeOK'
  <2>1. socket' \in [Sockets -> Live \cup {"none", "closing"}]  BY <1>1, <1>2 DEF Stop, TypeOK
  <2> QED  BY <1>1, <2>1 DEF Stop, TypeOK
<1>5. OnlyCurrentLive'
  <2> SUFFICES ASSUME NEW t \in Sockets PROVE socket'[t] \notin Live
    BY DEF OnlyCurrentLive
  <2>1. CASE t = ws  BY <1>2, <1>3, <2>1 DEF Live
  <2>2. CASE t # ws  BY <1>1, <1>3, <2>2 DEF OnlyCurrentLive
  <2> QED  BY <2>1, <2>2
<1>6. NeverAbandoned'  BY DEF Stop, NeverAbandoned, Wanted
<1> QED  BY <1>4, <1>5, <1>6 DEF SocketInv

LEMMA SocketStep ==
  ASSUME SocketInv, [Next]_vars PROVE SocketInv'
<1>1. CASE UNCHANGED vars
  BY <1>1 DEF vars, SocketInv, TypeOK, OnlyCurrentLive, NeverAbandoned, Wanted, Connected, Trying
<1> QED  BY <1>1, OpenedStep, CallStep, ListenerStep, StopStep DEF Next

\* The inductive invariant behind the theorems below.
THEOREM SocketsSafe == Spec => []SocketInv
BY SocketInit, SocketStep, PTL DEF Spec

\* Overlapping reconnects never leave a second live socket behind.
THEOREM OneLiveSocket == Spec => []OnlyCurrentLive
<1>1. SocketInv => OnlyCurrentLive  BY DEF SocketInv
<1> QED  BY <1>1, SocketsSafe, PTL

\* Short of a reconnect that throws, a running bridge is connected or about to be.
THEOREM AlwaysTrying == Spec => []NeverAbandoned
<1>1. SocketInv => NeverAbandoned  BY DEF SocketInv
<1> QED  BY <1>1, SocketsSafe, PTL

\* Every variable has its type, and start() has one call in flight until it resolves.
THEOREM SocketTypes == Spec => []TypeOK
<1>1. SocketInv => TypeOK  BY DEF SocketInv
<1> QED  BY <1>1, SocketsSafe, PTL
=============================================================================
