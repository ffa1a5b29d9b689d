---------------------------- MODULE SlackBridge ----------------------------
(***************************************************************************)
(* The Slack bridge and one plan of the planner service: wizard            *)
(* submissions, button clicks and the poller, which run interleaved on the *)
(* bridge's event loop, and the delivery cursor that outlives the process. *)
(*                                                                         *)
(* The service's side is PlanLifecycle, whose transitions happen at any    *)
(* time.  A call to the service or to Slack may fail without effect, or    *)
(* take effect and lose its answer.  A handler is split at its awaits.     *)
(*                                                                         *)
(* JavaScript objects matter here: the poller holds the watch entry it     *)
(* read when its round began, and a click puts a NEW entry in the map.     *)
(***************************************************************************)
EXTENDS Naturals

CONSTANTS
  Elsewhere,    \* humans may also act through the API, not only in Slack
  Crowded,      \* other plans may push this one off the page GET /plans returns
  MaxVisits,    \* bound on status changes of the plan
  MaxRestarts,  \* bound on crashes of the bridge
  MaxFaults     \* bound on calls that fail

ASSUME SwitchesAssumption == Elsewhere \in BOOLEAN /\ Crowded \in BOOLEAN
ASSUME BoundsAssumption == MaxVisits \in Nat /\ MaxRestarts \in Nat /\ MaxFaults \in Nat

VARIABLES
  stage, stalled, shapeOK, contentOK, handle,   \* the plan, as PlanLifecycle has it
  surface,    \* the plan record names a Slack channel
  cursor,     \* announced_status of the plan record
  up,         \* the bridge runs
  watched,    \* its watch entry for the plan
  wizard,     \* the /plan form is open in Slack
  submission, \* handleViewSubmission: idle, or the await it is at
  click,      \* handleBlockAction: the status its accepted POST put the plan in
  poll,       \* pollOnce: the await it is at and what it holds
  seen,       \* history: statuses whose message reached the channel
  visit,      \* history: status changes so far
  posts,      \* history: messages that announced the current visit
  crossed,    \* history: clicks answered after the plan, or the poller, moved on
  untold,     \* history: the plan left this bridge's sight as the code accepts
  restarts, faults

Plan == INSTANCE PlanLifecycle

plan == <<stage, stalled, shapeOK, contentOK, handle>>
store == <<surface, cursor>>
history == <<seen, visit, posts, crossed>>
vars == <<stage, stalled, shapeOK, contentOK, handle, surface, cursor, up, watched,
          wizard, submission, click, poll, seen, visit, posts, crossed, untold, restarts, faults>>

Silent == Plan!Phases
StopWatching == {"created", "rejected", "cancelled"}
TerminalNonSuccess == {"failed", "budget_blocked", "rejected"}
\* The statuses pollOnce has a message for.
Announced == {"shape_ready", "plan_ready", "created", "cancelled"} \cup TerminalNonSuccess
Stage == Silent \cup Announced
Cursor == Stage \cup {"none"}

Entry == [last: Cursor, channel: BOOLEAN]
Unwatched == [last |-> "none", channel |-> FALSE]
Watching == watched # Unwatched

\* live: the entry in hand is still the one in the map.
Poll == [pc: {"idle", "get", "post", "save"}, entry: Entry, live: BOOLEAN,
         got: Cursor, visit: Nat]
NoPoll == [pc |-> "idle", entry |-> Unwatched, live |-> FALSE, got |-> "none", visit |-> 0]

Init ==
  /\ Plan!Init
  /\ surface = FALSE
  /\ cursor = "none"
  /\ up = TRUE
  /\ watched = Unwatched
  /\ wizard = FALSE
  /\ submission = "idle"
  /\ click = "none"
  /\ poll = NoPoll
  /\ seen = {}
  /\ visit = 0
  /\ posts = 0
  /\ crossed = 0
  /\ untold = FALSE
  /\ restarts = 0
  /\ faults = 0

Fault == faults < MaxFaults /\ faults' = faults + 1

\* A step of the service that changes the plan's status.
Moves(A) ==
  /\ visit < MaxVisits
  /\ A
  /\ visit' = visit + 1
  /\ posts' = 0
  /\ UNCHANGED <<seen, crossed>>

----------------------------------------------------------------------------
(***************************************************************************)
(* The service                                                             *)
(***************************************************************************)
\* A worker's result, an edit of the shape, a sweep of the service's own boot.
WorkerStep ==
  /\ Moves(Plan!Present \/ Plan!Written \/ Plan!Stall \/ Plan!Undone)
  /\ UNCHANGED <<store, up, wizard, watched, submission, click, poll, untold, restarts, faults>>

\* A human acts through the API.  A created plan is watched no longer, so the
\* bridge does not see it being cancelled.
ActElsewhere ==
  /\ Elsewhere
  /\ Moves(Plan!ApproveShape \/ Plan!ApproveContent \/ Plan!RejectPlan
             \/ Plan!Resume \/ Plan!Undo)
  /\ untold' = (untold \/ stage = "created")
  /\ UNCHANGED <<store, up, wizard, watched, submission, click, poll, restarts, faults>>

SubmitElsewhere ==
  /\ Elsewhere
  /\ Moves(Plan!Submit)
  /\ UNCHANGED <<store, up, wizard, watched, submission, click, poll, untold, restarts, faults>>

----------------------------------------------------------------------------
(***************************************************************************)
(* handleSlashCommand and handleViewSubmission                             *)
(***************************************************************************)
\* views.open; a call that fails leaves the user a hint and nothing else.
SlashCommand ==
  /\ up
  /\ stage = "absent" /\ visit < MaxVisits
  /\ ~wizard
  /\ wizard' = TRUE
  /\ UNCHANGED <<plan, store, up, watched, submission, click, poll, history, untold,
                 restarts, faults>>

\* POST /plan takes effect at the service; the record carries the surface.
\* (An empty description keeps the form open.)  The form outlives the bridge.
Submit ==
  /\ up
  /\ wizard
  /\ wizard' = FALSE
  /\ Moves(Plan!Submit)
  /\ surface' = TRUE
  /\ submission' = "accepted"
  /\ UNCHANGED <<cursor, up, watched, click, poll, untold, restarts, faults>>

\* The answer came and the placeholder was posted, or refused, which is not looked
\* at: the plan is watched either way.
SubmissionAnswered ==
  /\ submission = "accepted"
  /\ \/ /\ watched' = [last |-> "breaking_down", channel |-> TRUE]
        /\ submission' = "placed"
        /\ \/ seen' = seen \cup {"breaking_down"} /\ UNCHANGED faults
           \/ Fault /\ UNCHANGED seen
     \/ \* either call throws, the placeholder perhaps shown
        /\ Fault
        /\ submission' = "idle"
        /\ seen' \in {seen, seen \cup {"breaking_down"}}
        /\ UNCHANGED watched
  /\ UNCHANGED <<plan, store, up, wizard, click, poll, visit, posts, crossed, untold, restarts>>

\* writeSurface with the initial cursor, the last writer wins.
SubmissionSaved ==
  /\ submission = "placed"
  /\ submission' = "idle"
  /\ \/ cursor' = "breaking_down" /\ UNCHANGED faults
     \/ Fault /\ cursor' \in {cursor, "breaking_down"}
  /\ UNCHANGED <<plan, surface, up, wizard, watched, click, poll, history, untold, restarts>>

----------------------------------------------------------------------------
(***************************************************************************)
(* handleBlockAction.  A button is there once its message was posted; one  *)
(* click at a time.  A click the service refuses changes nothing.          *)
(***************************************************************************)
Offered(status) == status \in seen

ClickApprove == Offered("shape_ready") /\ Plan!ApproveShape
ClickCreate  == Offered("plan_ready") /\ Plan!ApproveContent
ClickRetry   == (Offered("failed") \/ Offered("budget_blocked")) /\ Plan!Resume
ClickCancel  == (Offered("created") \/ Offered("failed")) /\ Plan!Undo

\* The POST of an advancing click takes effect at the service.
ClickAccepted ==
  /\ up
  /\ click = "none"
  /\ Moves(ClickApprove \/ ClickCreate \/ ClickRetry \/ ClickCancel)
  /\ click' = stage'
  /\ UNCHANGED <<store, up, wizard, watched, submission, poll, untold, restarts, faults>>

\* A rejection re-captures nothing.
ClickReject ==
  /\ up
  /\ click = "none"
  /\ Offered("shape_ready") \/ Offered("plan_ready")
  /\ Moves(Plan!RejectPlan)
  /\ UNCHANGED <<store, up, wizard, watched, submission, click, poll, untold, restarts, faults>>

\* Its answer: a fresh entry at the status the click produced, then writeSurface.
ClickAnswered ==
  /\ click # "none"
  /\ \/ /\ watched' = [last |-> click, channel |-> TRUE]
        /\ poll' = [poll EXCEPT !.live = FALSE]
        /\ crossed' = IF stage # click \/ poll.pc # "idle" THEN crossed + 1 ELSE crossed
        /\ untold' = FALSE
        /\ \/ surface' = TRUE /\ UNCHANGED faults
           \/ Fault /\ UNCHANGED surface
     \/ \* the answer is lost
        /\ Fault
        /\ untold' = (untold \/ click = "cancelling")
        /\ UNCHANGED <<watched, poll, crossed, surface>>
  /\ click' = "none"
  /\ UNCHANGED <<plan, cursor, up, wizard, submission, seen, visit, posts, restarts>>

----------------------------------------------------------------------------
(***************************************************************************)
(* pollOnce, never reentered (the `polling` flag)                          *)
(***************************************************************************)
PollStart ==
  /\ up
  /\ poll.pc = "idle"
  /\ Watching
  /\ poll' = [NoPoll EXCEPT !.pc = "get", !.entry = watched, !.live = TRUE]
  /\ UNCHANGED <<plan, store, up, wizard, watched, submission, click, history, untold, restarts, faults>>

\* The status of GET /plan/{id} against the entry.  Without a channel, or for a
\* silent status, the entry advances at once.
Advance(status) ==
  IF ~poll.entry.channel /\ status \in StopWatching THEN Unwatched
  ELSE IF poll.live THEN [watched EXCEPT !.last = status] ELSE watched

PollGet ==
  /\ poll.pc = "get"
  /\ IF stage # poll.entry.last /\ poll.entry.channel /\ stage \notin Silent
     THEN /\ poll' = [poll EXCEPT !.pc = "post", !.got = stage, !.visit = visit]
          /\ UNCHANGED watched
     ELSE /\ poll' = NoPoll
          /\ watched' = IF stage = poll.entry.last THEN watched ELSE Advance(stage)
  /\ UNCHANGED <<plan, store, up, wizard, submission, click, history, untold, restarts, faults>>

\* A message, or for plan_ready its plain-text fallback, reaches the channel.
Show ==
  /\ seen' = seen \cup {poll.got}
  /\ posts' = IF poll.visit = visit THEN posts + 1 ELSE posts
  /\ UNCHANGED <<visit, crossed>>

\* Mutant: the cursor is written before the message is posted.
CursorFirst ==
  /\ poll.pc = "post"
  /\ cursor' = poll.got
  /\ \/ Show /\ poll' = [poll EXCEPT !.pc = "save", !.visit = 0] /\ UNCHANGED faults
     \/ Fault /\ UNCHANGED history /\ poll' = NoPoll
  /\ UNCHANGED <<plan, surface, up, wizard, watched, submission, click, untold, restarts>>

PollPost ==
  /\ poll.pc = "post"
  /\ \/ Show /\ poll' = [poll EXCEPT !.pc = "save", !.visit = 0] /\ UNCHANGED faults
     \/ Fault /\ Show /\ poll' = NoPoll              \* shown, but the answer is lost
     \/ Fault /\ UNCHANGED history /\ poll' = NoPoll \* refused
  /\ UNCHANGED <<plan, store, up, wizard, watched, submission, click, untold, restarts>>

\* Mutant: a finished plan is dropped whatever entry the map now holds.
DropAlways(w, status) == IF status \in StopWatching THEN Unwatched ELSE w

\* A finished plan is dropped, unless a click put another entry in its place.
Drop(w, status) ==
  IF status \in StopWatching /\ w.last = status THEN Unwatched ELSE w

\* Mutant: the entry does not advance with the cursor.
PollSaveStoreOnly ==
  /\ poll.pc = "save"
  /\ cursor' = poll.got
  /\ poll' = NoPoll
  /\ UNCHANGED <<plan, surface, up, wizard, watched, submission, click, history, untold, restarts, faults>>

\* writeSurface({announced_status}), then the entry in hand advances.
PollSave ==
  /\ poll.pc = "save"
  /\ \/ /\ cursor' = poll.got
        /\ watched' = Drop(IF poll.live THEN [watched EXCEPT !.last = poll.got] ELSE watched,
                           poll.got)
        /\ UNCHANGED faults
     \/ /\ Fault
        /\ cursor' \in {cursor, poll.got}
        /\ watched' = Drop(watched, poll.got)
  /\ poll' = NoPoll
  /\ UNCHANGED <<plan, surface, up, wizard, submission, click, history, untold, restarts>>

----------------------------------------------------------------------------
(***************************************************************************)
(* Crash, and the boot that resumes from the store                         *)
(***************************************************************************)
Crash ==
  /\ up
  /\ restarts < MaxRestarts
  /\ restarts' = restarts + 1
  /\ up' = FALSE
  /\ watched' = Unwatched
  /\ submission' = "idle"
  /\ click' = "none"
  /\ poll' = NoPoll
  /\ UNCHANGED <<plan, store, wizard, history, untold, faults>>

\* Mutant: the entry starts at the plan's current status.
ResumedAtStatus ==
  IF stage \in StopWatching \cup {"absent"}
  THEN Unwatched ELSE [last |-> stage, channel |-> surface]

\* resume(): the entry starts at the cursor; a plan that finished and was
\* announced so is left alone.
Resumed ==
  LET last == IF cursor = "none" THEN stage ELSE cursor IN
  IF stage = "absent" \/ (stage \in StopWatching /\ last = stage)
  THEN Unwatched ELSE [last |-> last, channel |-> surface]

\* Whether GET /plans, the 50 plans changed last, lists this plan.
Listed == IF Crowded THEN BOOLEAN ELSE {TRUE}

Boot ==
  /\ ~up
  /\ up' = TRUE
  /\ \/ \E listed \in Listed :
          /\ watched' = IF listed THEN Resumed ELSE Unwatched
          /\ untold' = (~listed \/ cursor = "none")  \* the current status passes for announced
          /\ UNCHANGED faults
     \/ \* GET /plans fails
        Fault /\ UNCHANGED watched /\ untold' = TRUE
  /\ UNCHANGED <<plan, store, wizard, submission, click, poll, history, restarts>>

----------------------------------------------------------------------------
PollStep == PollStart \/ PollGet \/ PollPost \/ PollSave
Handlers == SubmissionAnswered \/ SubmissionSaved \/ ClickAnswered

Next ==
  \/ WorkerStep \/ ActElsewhere \/ SubmitElsewhere
  \/ SlashCommand \/ Submit \/ ClickAccepted \/ ClickReject
  \/ Handlers \/ PollStep \/ Crash \/ Boot

\* The poll timer ticks, every await settles and the supervisor restarts the
\* bridge; humans and the service's workers owe nothing.
Fairness == WF_vars(PollStep) /\ WF_vars(Handlers) /\ WF_vars(Boot)

Spec == Init /\ [][Next]_vars
FairSpec == Spec /\ Fairness

----------------------------------------------------------------------------
(***************************************************************************)
(* Properties                                                              *)
(***************************************************************************)
\* Types, and what pollOnce and a crash leave in memory: the entry in hand is in the
\* map or was replaced, and a bridge that is down holds nothing (slack.mjs:843-906).
TypeOK ==
  /\ stage \in Stage \cup {"absent"}
  /\ surface \in BOOLEAN
  /\ cursor \in Cursor
  /\ up \in BOOLEAN
  /\ watched \in Entry
  /\ wizard \in BOOLEAN
  /\ submission \in {"idle", "accepted", "placed"}
  /\ click \in Silent \cup {"none"}
  /\ poll \in Poll
  /\ poll.live => Watching
  /\ seen \subseteq Stage
  /\ ~up => watched = Unwatched /\ submission = "idle" /\ click = "none" /\ poll = NoPoll

\* The delivery cursor never names an announcement no human saw
\* (slack.mjs:805-817), whatever crashed, failed or was overtaken by a click.
\* The initial `breaking_down` is excepted: it is written even when Slack refused
\* the placeholder it stands for (slack.mjs:488-518).
CursorNotAhead == cursor \notin {"none", "breaking_down"} => cursor \in seen

\* No announcement is forgotten (slack.mjs:692-699).  Once a Slack plan has a
\* cursor, a status nobody has seen yet is one the running bridge still has to
\* announce: it watches the plan, at another status, with a channel.
Following == up /\ submission = "idle" /\ click = "none" /\ ~untold
                /\ surface /\ cursor # "none"

NothingForgotten ==
  Following /\ stage \in Announced \ seen
    => Watching /\ watched.channel /\ watched.last # stage

\* One status change is announced once (slack.mjs:1014-1022), but for one more
\* message per crash, per failed call and per click whose answer came late.
DuplicatesBounded == posts <= 1 + restarts + faults + crossed

\* A status the plan rests in is announced in the end (slack.mjs:692-699).
Delivered ==
  (stage \in Announced \ seen /\ surface /\ cursor # "none")
    ~> (stage \in seen \cup Silent \/ untold)

\* service/README.md:581: "the cursor never moves past what a human actually saw".
\* A refused placeholder breaks it.
CursorShown == cursor # "none" => cursor \in seen

\* service/README.md:584: "a plan that reached ANY further status while the
\* bridge was down ... is announced".  Every visit to a status is shown, or
\* still will be.
EveryVisitAnnounced ==
  Following /\ stage \in Announced /\ posts = 0
    => Watching /\ watched.channel /\ watched.last # stage
====
