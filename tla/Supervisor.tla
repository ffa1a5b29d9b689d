----------------------------- MODULE Supervisor -----------------------------
(***************************************************************************)
(* The container's long-running process (service/supervise.mjs): it starts *)
(* the planner service, waits until /healthz answers, starts the Slack     *)
(* bridge, restarts whichever child dies with an exponential backoff, and  *)
(* takes the container down when one dies too often.                       *)
(*                                                                         *)
(* Time is counted in ticks of one second.  Nothing here takes longer than *)
(* a tick except waiting, so Tick waits for every step that is due.  Uptime*)
(* and ages stop counting where the code no longer tells them apart.       *)
(***************************************************************************)
EXTENDS Naturals, Sequences, FiniteSets

CONSTANTS
  MaxRestarts,    \* MAX_RESTARTS: strictly more within the window is fatal
  Window,         \* RESTART_WINDOW_MS
  BackoffBase, BackoffCap,  \* backoffBaseMs, BACKOFF_CAP_MS
  ResetUptime,    \* BACKOFF_RESET_UPTIME_MS
  HealthTimeout,  \* healthTimeoutMs
  Grace,          \* SHUTDOWN_GRACE_MS
  Tight           \* a child that dies this soon after each start is in a tight crash loop

ASSUME RestartsAssumption == MaxRestarts \in Nat \ {0} /\ Window \in Nat \ {0}
ASSUME BackoffAssumption ==
  BackoffBase \in Nat \ {0} /\ BackoffCap \in Nat /\ BackoffBase <= BackoffCap /\ ResetUptime \in Nat
ASSUME TimeoutsAssumption == HealthTimeout \in Nat /\ Grace \in Nat

\* Such a life is not long enough to reset the backoff, and as many of them as may
\* be restarted fit in the window with the longest delays (29 s do for the code's
\* 5 restarts, 300 s, 30 s and 60 s).
ASSUME TightAssumption ==
  Tight \in Nat /\ Tight < ResetUptime /\ MaxRestarts * (BackoffCap + Tight) < Window

Children == {"server", "bridge"}

VARIABLES
  phase,   \* "up"; "stopping" after a signal; exited with 0 ("stopped") or 1 ("failed")
  boot,    \* the health loop: a probe in flight or answered, asleep, due to probe, or over
  waited,  \* ticks since the health loop began
  grace,   \* ticks since the signal
  child,   \* the records of makeChild
  deaths,  \* history: ages of the deaths of each child that were in the window at the last one
  lives    \* history: how many lives in a row each child lost within Tight of a start

vars == <<phase, boot, waited, grace, child, deaths, lives>>

\* process: not started or its death noticed, running, or dead; notices: 'error' and
\* 'exit' events yet to be handled; timer: what is left of the restart delay, if
\* one is set; termed: history, the process was sent SIGTERM.
NewChild ==
  [process |-> "none", notices |-> 0, deathHandled |-> FALSE, uptime |-> 0, termed |-> FALSE,
   backoff |-> BackoffBase, restartTimes |-> <<>>, timer |-> {}]

shuttingDown == phase # "up"
Least(a, b) == IF a < b THEN a ELSE b
Older(ages) == [i \in DOMAIN ages |-> Least(ages[i] + 1, Window)]

\* The filter of onChildExit: the oldest come first, so it keeps a suffix.
Expired(ages) == {i \in DOMAIN ages : ages[i] >= Window}
Recent(ages) == SubSeq(ages, Cardinality(Expired(ages)) + 1, Len(ages))
WithDeath(ages) == Append(Recent(ages), 0)

Mourned(c) ==
  /\ deaths' = [deaths EXCEPT ![c] = WithDeath(@)]
  /\ lives' = [lives EXCEPT ![c] = IF child[c].uptime <= Tight THEN Least(@ + 1, MaxRestarts + 1) ELSE 0]

\* startChild: a spawn that fails leaves a dead process behind, with the 'error'
\* event and perhaps 'exit' too.
Started(record) == [record EXCEPT !.process = "running", !.notices = 0, !.deathHandled = FALSE,
                                  !.uptime = 0, !.termed = FALSE]
\* Mutant: the 'error' event has no listener.
NotSpawnedUnheard(record, n) == [Started(record) EXCEPT !.process = "dead", !.notices = n - 1]
NotSpawned(record, n) == [Started(record) EXCEPT !.process = "dead", !.notices = n]
StartChild(c, record) ==
  \/ child' = [child EXCEPT ![c] = Started(record)] /\ UNCHANGED <<deaths, lives>>
  \/ /\ \E n \in 1..2 : child' = [child EXCEPT ![c] = NotSpawned(record, n)]
     /\ deaths' = [deaths EXCEPT ![c] = WithDeath(@)]
     /\ lives' = [lives EXCEPT ![c] = Least(@ + 1, MaxRestarts + 1)]

\* killAll; a process that is already dead is left alone.
Killed(record) == [record EXCEPT !.timer = {}, !.termed = record.process = "running" \/ @]
KillAll(records) == [c \in Children |-> Killed(records[c])]

Init ==
  /\ phase = "up"
  /\ boot = "probing"
  /\ waited = 0
  /\ grace = 0
  /\ deaths = [c \in Children |-> <<>>]
  /\ lives = [c \in Children |-> 0]
  /\ child = [c \in Children |-> IF c = "server" THEN Started(NewChild) ELSE NewChild]

----------------------------------------------------------------------------
(***************************************************************************)
(* The children                                                            *)
(***************************************************************************)
\* The process dies, by itself or of a signal.
Dies(c) ==
  /\ phase \in {"up", "stopping"}
  /\ child[c].process = "running"
  /\ child' = [child EXCEPT ![c].process = "dead", ![c].notices = 1]
  /\ Mourned(c)
  /\ UNCHANGED <<phase, boot, waited, grace>>

Backoff(record) == IF record.uptime >= ResetUptime THEN BackoffBase ELSE record.backoff

\* onChildExit while the supervisor is up.
Restarting(record) ==
  [record EXCEPT !.process = "none", !.restartTimes = WithDeath(@),
                 !.timer = {Backoff(record)}, !.backoff = Least(Backoff(record) * 2, BackoffCap)]
GivenUp(record) ==
  [record EXCEPT !.process = "none", !.restartTimes = WithDeath(@), !.backoff = Backoff(record)]

\* Mutant: no guard per death, so 'error' and 'exit' of one spawn both count.
NoticedTwice(c) == [child[c] EXCEPT !.notices = @ - 1]
Noticed(c) == [child[c] EXCEPT !.notices = @ - 1, !.deathHandled = TRUE]

\* Mutant: one restart more than the budget.
OnChildExitLenient(c, record) ==
  IF shuttingDown THEN
    child' = [child EXCEPT ![c] = [record EXCEPT !.process = "none"]] /\ UNCHANGED phase
  ELSE IF Len(WithDeath(record.restartTimes)) > MaxRestarts + 1 THEN
    phase' = "failed" /\ child' = KillAll([child EXCEPT ![c] = GivenUp(record)])
  ELSE
    child' = [child EXCEPT ![c] = Restarting(record)] /\ UNCHANGED phase

OnChildExit(c, record) ==
  IF shuttingDown THEN
    child' = [child EXCEPT ![c] = [record EXCEPT !.process = "none"]] /\ UNCHANGED phase
  ELSE IF Len(WithDeath(record.restartTimes)) > MaxRestarts THEN
    phase' = "failed" /\ child' = KillAll([child EXCEPT ![c] = GivenUp(record)])
  ELSE
    child' = [child EXCEPT ![c] = Restarting(record)] /\ UNCHANGED phase

\* handleDeath: one death, one onChildExit.
HandleDeath(c) ==
  /\ phase \in {"up", "stopping"}
  /\ child[c].notices > 0
  /\ IF child[c].deathHandled
     THEN child' = [child EXCEPT ![c] = Noticed(c)] /\ UNCHANGED phase
     ELSE OnChildExit(c, Noticed(c))
  /\ UNCHANGED <<boot, waited, grace, deaths, lives>>

RestartTimer(c) ==
  /\ phase \in {"up", "stopping"}
  /\ 0 \in child[c].timer
  /\ IF shuttingDown
     THEN child' = [child EXCEPT ![c].timer = {}] /\ UNCHANGED <<deaths, lives>>
     ELSE StartChild(c, [child[c] EXCEPT !.timer = {}])
  /\ UNCHANGED <<phase, boot, waited, grace>>

----------------------------------------------------------------------------
(***************************************************************************)
(* The health loop of run() and shutdown                                   *)
(***************************************************************************)
\* Only a server that runs answers a probe.
ProbeAnswered ==
  /\ phase \in {"up", "stopping"}
  /\ boot = "probing"
  /\ child["server"].process = "running"
  /\ boot' = "answered"
  /\ UNCHANGED <<phase, waited, grace, child, deaths, lives>>

\* Mutant: the bridge is started although a signal came during the probe.
HealthyHeedless ==
  /\ phase \in {"up", "stopping"}
  /\ boot = "answered"
  /\ boot' = "over"
  /\ StartChild("bridge", child["bridge"])
  /\ UNCHANGED <<phase, waited, grace>>

\* healthOk resolves with true, whatever has become of the server meanwhile.
Healthy ==
  /\ phase \in {"up", "stopping"}
  /\ boot = "answered"
  /\ boot' = "over"
  /\ IF shuttingDown THEN UNCHANGED <<child, deaths, lives>>
     ELSE StartChild("bridge", child["bridge"])
  /\ UNCHANGED <<phase, waited, grace>>

\* It resolves with false: the deadline is looked at, shuttingDown is not.
Unhealthy ==
  /\ phase \in {"up", "stopping"}
  /\ boot = "probing"
  /\ IF waited > HealthTimeout
     THEN phase' = "failed" /\ boot' = "over" /\ child' = KillAll(child)
     ELSE boot' = "asleep" /\ UNCHANGED <<phase, child>>
  /\ UNCHANGED <<waited, grace, deaths, lives>>

NextProbe ==
  /\ phase \in {"up", "stopping"}
  /\ boot = "due"
  /\ boot' = IF shuttingDown THEN "over" ELSE "probing"
  /\ UNCHANGED <<phase, waited, grace, child, deaths, lives>>

\* SIGTERM or SIGINT, up to the first await of shutdown.
Shutdown ==
  /\ phase = "up"
  /\ phase' = "stopping"
  /\ child' = KillAll(child)
  /\ UNCHANGED <<boot, waited, grace, deaths, lives>>

AllDown == \A c \in Children : child[c].process = "none"

\* Its loop ends; a child that is still alive gets SIGKILL.
ExitZero ==
  /\ phase = "stopping"
  /\ AllDown \/ grace = Grace
  /\ phase' = "stopped"
  /\ UNCHANGED <<boot, waited, grace, child, deaths, lives>>

Due == boot \in {"probing", "answered", "due"} \/ \E c \in Children : child[c].notices > 0 \/ 0 \in child[c].timer

Aged(record) == [record EXCEPT !.uptime = Least(@ + 1, ResetUptime), !.timer = {left - 1 : left \in @},
                               !.restartTimes = Older(@)]

Tick ==
  /\ phase = "up" \/ (phase = "stopping" /\ ~AllDown /\ grace < Grace)
  /\ ~Due
  /\ boot' = IF boot = "asleep" THEN "due" ELSE boot
  /\ waited' = IF boot = "over" THEN 0 ELSE Least(waited + 1, HealthTimeout + 1)
  /\ grace' = IF shuttingDown THEN grace + 1 ELSE grace
  /\ child' = [c \in Children |-> Aged(child[c])]
  /\ deaths' = [c \in Children |-> Older(deaths[c])]
  /\ UNCHANGED <<phase, lives>>

Next ==
  \/ \E c \in Children : Dies(c) \/ HandleDeath(c) \/ RestartTimer(c)
  \/ ProbeAnswered \/ Healthy \/ Unhealthy \/ NextProbe \/ Shutdown \/ ExitZero \/ Tick

\* The event loop runs what is due and time passes; nothing makes a child die,
\* the server answer or a signal come.
Fairness ==
  /\ \A c \in Children : WF_vars(HandleDeath(c)) /\ WF_vars(RestartTimer(c))
  /\ WF_vars(Healthy \/ Unhealthy) /\ WF_vars(NextProbe) /\ WF_vars(ExitZero) /\ WF_vars(Tick)

Spec == Init /\ [][Next]_vars /\ Fairness

----------------------------------------------------------------------------
(***************************************************************************)
(* Properties                                                              *)
(***************************************************************************)
TypeOK ==
  /\ phase \in {"up", "stopping", "stopped", "failed"}
  /\ boot \in {"probing", "answered", "asleep", "due", "over"}
  /\ waited \in 0..(HealthTimeout + 1)
  /\ grace \in 0..Grace
  /\ child \in [Children -> [process : {"none", "running", "dead"}, notices : 0..2,
                             deathHandled : BOOLEAN, uptime : 0..ResetUptime, termed : BOOLEAN,
                             backoff : 1..BackoffCap, restartTimes : Seq(0..Window),
                             timer : SUBSET (0..BackoffCap)]]
  /\ deaths \in [Children -> Seq(0..Window)]
  /\ lives \in [Children -> 0..(MaxRestarts + 1)]

\* Once the supervisor is going down, every child that runs was sent SIGTERM:
\* nothing restarts mid-shutdown, neither a timer nor a server found healthy too
\* late, and no child outlives the container unasked (supervise.mjs:19-20).
SignalledOnExit ==
  shuttingDown => \A c \in Children :
    child[c].process = "running" => child[c].termed

\* The supervisor fails the container only if one child really died more than
\* MaxRestarts times within the window, or the health deadline passed: a failed
\* spawn, which may report both 'error' and 'exit', is one death (:98-107, :132-138).
FatalOnlyForCause ==
  phase = "failed" =>
    waited > HealthTimeout \/ \E c \in Children : Len(deaths[c]) > MaxRestarts

\* A tight crash loop is never restarted for ever: the window, the backoff and its
\* reset leave no way for it to stay below the budget (:14-18, :129-138).
TightLoopEscalates ==
  \A c \in Children :
    lives[c] > MaxRestarts /\ child[c].process # "dead" => shuttingDown

\* Nothing waits for ever, whatever the children do: a dead child is running again
\* unless the container goes down (:14-20), boot ends with the bridge started or the
\* container failed (:7-10, :216-237), and a shutdown ends (:187-195).
NothingHangs ==
  /\ \A c \in Children :
       child[c].process = "dead" ~> (child[c].process = "running" \/ shuttingDown)
  /\ <>(boot = "over" \/ shuttingDown)
  /\ phase = "stopping" ~> phase \in {"stopped", "failed"}

\* The header: "SIGTERM/SIGINT -> forward SIGTERM to both children, wait up to 10s,
\* exit 0" (:19-20).  A shutdown never ends in exit 1.
ShutdownExitsZero == [][phase = "stopping" => phase' # "failed"]_vars
=============================================================================
