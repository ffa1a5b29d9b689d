------------------------- MODULE SlackBridgeProofs -------------------------
(***************************************************************************)
(* The delivery cursor and the announcements, for any number of status     *)
(* changes, crashes and failing calls, whoever else acts on the plan.      *)
(*                                                                         *)
(* The argument: what a watch entry with a channel says was announced is a *)
(* status nobody announces, or one that was seen; and a plan is let go     *)
(* only at a final status that was seen, or in a case `untold` names.  The *)
(* entry in the poller's hand is the one in the map until a click replaces *)
(* it, and then the map holds an entry at a silent status, which the       *)
(* poller does not drop.                                                   *)
(***************************************************************************)
EXTENDS SlackBridge, TLAPS

PlanInv ==
  /\ stalled \in Silent \cup {"absent"}
  /\ stage # "absent" => stalled \in Silent
  /\ visit \in Nat /\ untold \in BOOLEAN
  /\ stage = "absent" => ~surface /\ ~Watching /\ poll.pc = "idle"

\* Only a plan that came from Slack is shown there.
SurfaceInv ==
  /\ ~surface => cursor = "none" /\ submission = "idle" /\ click = "none" /\ seen = {}
  /\ Watching => watched.channel = surface /\ watched.last # "none"
  /\ submission = "accepted" =>
       seen = {} /\ ~Watching /\ poll.pc = "idle" /\ click = "none" /\ cursor = "none"

\* The entry in the poller's hand.
PollInv ==
  /\ poll.pc = "idle" => ~poll.live
  /\ poll.pc # "idle" => Watching /\ poll.entry.channel = surface
  /\ poll.live => watched = poll.entry
  /\ poll.pc # "idle" /\ ~poll.live => watched.last \in Silent
  /\ poll.pc \in {"post", "save"} =>
       surface /\ poll.got \in Announced /\ poll.entry.last # poll.got
  /\ poll.pc = "save" => poll.got \in seen

\* What an entry calls announced needs no announcement.
EntryInv == Watching /\ surface /\ ~untold => watched.last \in Silent \cup seen

\* A status that ends the watch is still the plan's when it is written down.
EndInv ==
  poll.pc \in {"post", "save"} /\ poll.live /\ poll.got \in StopWatching
      /\ ~untold /\ click # "cancelling"
    => stage = poll.got

\* A plan the bridge has let go has ended, and its end was seen.
LetGoInv ==
  up /\ ~untold /\ surface /\ (cursor # "none" \/ submission = "placed")
      /\ click # "cancelling" /\ ~Watching
    => stage \in StopWatching \cap seen

Inv ==
  /\ TypeOK /\ PlanInv /\ SurfaceInv /\ PollInv
  /\ CursorNotAhead /\ EntryInv /\ EndInv /\ LetGoInv

------------------------------------------------------------------------------
(***************************************************************************)
(* What the service does to the plan's status                              *)
(***************************************************************************)
\* A worker leaves a phase for a status that is announced.
LEMMA WorkerMoves ==
  ASSUME PlanInv, Plan!Present \/ Plan!Written \/ Plan!Stall \/ Plan!Undone
  PROVE  stage \in Silent /\ stage' \in Announced /\ UNCHANGED stalled
BY DEF PlanInv, Silent, Announced, TerminalNonSuccess,
       Plan!Present, Plan!Written, Plan!Stall, Plan!Undone, Plan!Phases

\* A human's advance enters a phase; of the ended plans only a created one moves.
LEMMA HumanMoves ==
  ASSUME PlanInv, Plan!ApproveShape \/ Plan!ApproveContent \/ Plan!Resume \/ Plan!Undo
  PROVE  /\ stage # "absent" /\ stage \notin Silent
         /\ stage' \in Silent /\ stalled' \in Silent
         /\ stage \in StopWatching => stage = "created" /\ stage' = "cancelling"
BY DEF PlanInv, Silent, StopWatching, Plan!Enter,
       Plan!ApproveShape, Plan!ApproveContent, Plan!Resume, Plan!Undo, Plan!Phases

LEMMA RejectMoves ==
  ASSUME Plan!RejectPlan
  PROVE  /\ stage \in {"shape_ready", "plan_ready"} /\ stage' = "rejected"
         /\ UNCHANGED stalled
BY DEF Plan!RejectPlan

LEMMA SubmitMoves ==
  ASSUME Plan!Submit
  PROVE  stage = "absent" /\ stage' = "breaking_down" /\ stalled' \in Silent
BY DEF Plan!Submit, Plan!Enter, Silent, Plan!Phases

------------------------------------------------------------------------------
LEMMA NothingInHand ==
  /\ Unwatched \in Entry /\ NoPoll \in Poll /\ NoPoll.pc = "idle" /\ ~NoPoll.live
BY DEF Entry, Unwatched, NoPoll, Poll, Cursor

LEMMA InvInit == Init => Inv
<1> SUFFICES ASSUME Init PROVE Inv
  OBVIOUS
<1>1. stage = "absent" /\ stalled = "absent"
  BY DEF Init, Plan!Init
<1>2. TypeOK /\ PlanInv
  BY <1>1, NothingInHand DEF Init, TypeOK, PlanInv, Cursor, Watching
<1>3. SurfaceInv /\ PollInv /\ CursorNotAhead /\ EntryInv /\ EndInv /\ LetGoInv
  BY NothingInHand DEF Init, SurfaceInv, PollInv, CursorNotAhead, EntryInv, EndInv,
                       LetGoInv, Watching
<1> QED BY <1>2, <1>3 DEF Inv

\* Only the plan's status changed.
LEMMA StatusKeeps ==
  ASSUME Inv, visit' \in Nat, UNCHANGED <<store, up, wizard, watched, submission, click, poll, seen>>,
         stage \in Stage, stage' \in Stage, stalled' \in Silent,
         untold' \in BOOLEAN, untold => untold',
         ~untold' /\ stage \in StopWatching => FALSE
  PROVE  Inv'
<1> USE DEF Inv, store
<1>1. TypeOK' /\ PlanInv'
  BY DEF TypeOK, PlanInv, Watching, Stage, Announced, Silent, TerminalNonSuccess, Plan!Phases
<1>2. SurfaceInv' /\ PollInv' /\ CursorNotAhead' /\ EntryInv'
  BY DEF SurfaceInv, PollInv, CursorNotAhead, EntryInv, Watching
<1>3. EndInv' /\ LetGoInv'
  BY DEF EndInv, LetGoInv, Watching
<1> QED BY <1>1, <1>2, <1>3

LEMMA WorkerStepKeeps == Inv /\ WorkerStep => Inv'
<1> SUFFICES ASSUME Inv, WorkerStep PROVE Inv'
  OBVIOUS
<1>1. stage \in Silent /\ stage' \in Announced /\ UNCHANGED stalled
  BY WorkerMoves DEF Inv, WorkerStep, Moves
<1>2. stage \in Stage /\ stage' \in Stage /\ stalled' \in Silent /\ stage \notin StopWatching
  BY <1>1 DEF Inv, PlanInv, Stage, Silent, StopWatching, Plan!Phases
<1> QED BY <1>1, <1>2, StatusKeeps DEF WorkerStep, Moves, Inv, PlanInv

LEMMA ActElsewhereKeeps == Inv /\ ActElsewhere => Inv'
<1> SUFFICES ASSUME Inv, ActElsewhere PROVE Inv'
  OBVIOUS
<1>1. CASE Plan!RejectPlan
  <2>1. stage \in Stage /\ stage' \in Stage /\ stalled' \in Silent /\ stage \notin StopWatching
    BY <1>1, RejectMoves
    DEF Inv, PlanInv, Stage, Announced, TerminalNonSuccess, Silent, StopWatching
  <2> QED BY <2>1, StatusKeeps DEF ActElsewhere, Moves, Inv, PlanInv
<1>2. CASE Plan!ApproveShape \/ Plan!ApproveContent \/ Plan!Resume \/ Plan!Undo
  <2>1. /\ stage # "absent" /\ stage' \in Silent /\ stalled' \in Silent
        /\ stage \in StopWatching => stage = "created"
    BY <1>2, HumanMoves DEF Inv
  <2>2. stage \in Stage /\ stage' \in Stage
    BY <2>1 DEF Inv, TypeOK, Stage
  <2>3. visit' \in Nat /\ UNCHANGED <<store, up, wizard, watched, submission, click, poll, seen>>
    BY DEF ActElsewhere, Moves, Inv, PlanInv
  <2>4. untold \in BOOLEAN /\ untold' = (untold \/ stage = "created")
    BY DEF ActElsewhere, Inv, PlanInv
  <2>5. untold' \in BOOLEAN /\ (untold => untold') /\ (~untold' => stage # "created")
    BY <2>4, Zenon
  <2> QED BY <2>1, <2>2, <2>3, <2>5, StatusKeeps
<1> QED BY <1>1, <1>2 DEF ActElsewhere, Moves

LEMMA SubmitElsewhereKeeps == Inv /\ SubmitElsewhere => Inv'
<1> SUFFICES ASSUME Inv, SubmitElsewhere PROVE Inv'
  OBVIOUS
<1> USE DEF Inv, store
<1>1. stage = "absent" /\ stage' = "breaking_down" /\ stalled' \in Silent /\ visit' \in Nat
  BY SubmitMoves DEF SubmitElsewhere, Moves, PlanInv
<1>2. UNCHANGED <<surface, cursor, up, wizard, watched, submission, click, poll, seen, untold>>
  BY DEF SubmitElsewhere, Moves
<1>3. TypeOK' /\ PlanInv'
  BY <1>1, <1>2 DEF TypeOK, PlanInv, Watching, Stage, Silent, Plan!Phases
<1>4. SurfaceInv' /\ PollInv' /\ CursorNotAhead' /\ EntryInv' /\ EndInv' /\ LetGoInv'
  BY <1>1, <1>2 DEF PlanInv, SurfaceInv, PollInv, CursorNotAhead, EntryInv, EndInv,
                    LetGoInv, Watching
<1> QED BY <1>3, <1>4

LEMMA SubmitKeeps == Inv /\ Submit => Inv'
<1> SUFFICES ASSUME Inv, Submit PROVE Inv'
  OBVIOUS
<1> USE DEF Inv
<1>1. stage = "absent" /\ stage' = "breaking_down" /\ stalled' \in Silent /\ visit' \in Nat
  BY SubmitMoves DEF Submit, Moves, PlanInv
<1>2. /\ UNCHANGED <<cursor, up, watched, click, poll, seen, untold>>
      /\ wizard' = FALSE /\ surface' = TRUE /\ submission' = "accepted" /\ up
  BY DEF Submit, Moves
<1>3. TypeOK' /\ PlanInv'
  BY <1>1, <1>2 DEF TypeOK, PlanInv, Watching, Stage, Silent, Plan!Phases
<1>4. SurfaceInv' /\ PollInv' /\ CursorNotAhead' /\ EntryInv' /\ EndInv' /\ LetGoInv'
  BY <1>1, <1>2 DEF PlanInv, SurfaceInv, PollInv, CursorNotAhead, EntryInv, EndInv,
                    LetGoInv, Watching
<1> QED BY <1>3, <1>4

------------------------------------------------------------------------------
LEMMA SlashCommandKeeps == Inv /\ SlashCommand => Inv'
<1> SUFFICES ASSUME Inv, SlashCommand PROVE Inv'
  OBVIOUS
<1>1. /\ wizard' = TRUE
      /\ UNCHANGED <<stage, stalled, surface, cursor, up, watched, submission, click, poll,
                     seen, visit, untold>>
  BY DEF SlashCommand, plan, store, history
<1> QED
  BY <1>1 DEF Inv, TypeOK, PlanInv, SurfaceInv, PollInv, CursorNotAhead, EntryInv,
              EndInv, LetGoInv, Watching

LEMMA SubmissionAnsweredKeeps == Inv /\ SubmissionAnswered => Inv'
<1> SUFFICES ASSUME Inv, SubmissionAnswered PROVE Inv'
  OBVIOUS
<1> USE DEF Inv
<1>1. UNCHANGED <<stage, stalled, surface, cursor, up, wizard, click, poll, visit, untold>>
  BY DEF SubmissionAnswered, plan, store
<1>2. /\ submission = "accepted" /\ seen = {} /\ ~Watching /\ poll.pc = "idle" /\ ~poll.live
      /\ cursor = "none" /\ surface /\ click = "none" /\ up /\ stage # "absent"
  BY NothingInHand DEF SubmissionAnswered, SurfaceInv, PollInv, PlanInv, TypeOK
<1>3. CASE /\ watched' = [last |-> "breaking_down", channel |-> TRUE]
           /\ seen' \in {seen, seen \cup {"breaking_down"}} /\ submission' = "placed"
  <2>1. Watching' /\ watched' \in Entry /\ watched'.last = "breaking_down" /\ watched'.channel
    BY <1>3 DEF Watching, Unwatched, Entry, Cursor, Stage, Silent, Plan!Phases
  <2>2. "breaking_down" \in Stage /\ "breaking_down" \in Silent
    BY DEF Stage, Silent, Plan!Phases
  <2>3. TypeOK' /\ PlanInv'
    BY <1>1, <1>2, <1>3, <2>1, <2>2 DEF TypeOK, PlanInv
  <2>4. SurfaceInv' /\ PollInv' /\ CursorNotAhead' /\ EntryInv' /\ EndInv' /\ LetGoInv'
    BY <1>1, <1>2, <1>3, <2>1, <2>2, NothingInHand
    DEF SurfaceInv, PollInv, CursorNotAhead, EntryInv, EndInv, LetGoInv
  <2> QED BY <2>3, <2>4
<1>4. CASE /\ submission' = "idle" /\ UNCHANGED watched
           /\ seen' \in {seen, seen \cup {"breaking_down"}}
  <2>1. TypeOK' /\ PlanInv'
    BY <1>1, <1>4 DEF TypeOK, PlanInv, Watching, Stage, Silent, Plan!Phases
  <2>2. SurfaceInv' /\ PollInv' /\ CursorNotAhead' /\ EntryInv' /\ EndInv' /\ LetGoInv'
    BY <1>1, <1>2, <1>4
    DEF SurfaceInv, PollInv, CursorNotAhead, EntryInv, EndInv, LetGoInv, Watching
  <2> QED BY <2>1, <2>2
<1> QED BY <1>3, <1>4 DEF SubmissionAnswered, Fault

LEMMA SubmissionSavedKeeps == Inv /\ SubmissionSaved => Inv'
<1> SUFFICES ASSUME Inv, SubmissionSaved PROVE Inv'
  OBVIOUS
<1> USE DEF Inv
<1>1. /\ UNCHANGED <<stage, stalled, surface, up, wizard, watched, click, poll, visit, untold, seen>>
      /\ submission = "placed" /\ submission' = "idle"
      /\ cursor' \in {cursor, "breaking_down"}
  BY DEF SubmissionSaved, plan, history
<1>2. TypeOK' /\ PlanInv'
  BY <1>1 DEF TypeOK, PlanInv, Watching, Cursor, Stage, Silent, Plan!Phases
<1>3. SurfaceInv' /\ PollInv' /\ CursorNotAhead' /\ EntryInv' /\ EndInv' /\ LetGoInv'
  BY <1>1 DEF SurfaceInv, PollInv, CursorNotAhead, EntryInv, EndInv, LetGoInv, Watching
<1> QED BY <1>2, <1>3

LEMMA ClickAcceptedKeeps == Inv /\ ClickAccepted => Inv'
<1> SUFFICES ASSUME Inv, ClickAccepted PROVE Inv'
  OBVIOUS
<1> USE DEF Inv
<1>1. /\ up /\ click = "none" /\ click' = stage' /\ visit' \in Nat /\ seen # {}
      /\ UNCHANGED <<surface, cursor, up, wizard, watched, submission, poll, seen, untold>>
  BY DEF ClickAccepted, Moves, store, PlanInv, ClickApprove, ClickCreate, ClickRetry, ClickCancel,
         Offered
<1>2. /\ stage # "absent" /\ stage \notin Silent
      /\ stage' \in Silent /\ stalled' \in Silent
      /\ stage \in StopWatching => stage' = "cancelling"
  BY HumanMoves DEF ClickAccepted, Moves, ClickApprove, ClickCreate, ClickRetry, ClickCancel
<1>3. TypeOK' /\ PlanInv'
  BY <1>1, <1>2 DEF TypeOK, PlanInv, Watching, Stage, Silent, Plan!Phases
<1>4. SurfaceInv' /\ PollInv' /\ CursorNotAhead' /\ EntryInv'
  BY <1>1 DEF SurfaceInv, PollInv, CursorNotAhead, EntryInv, Watching
<1>5. EndInv' /\ LetGoInv'
  BY <1>1, <1>2 DEF EndInv, LetGoInv, Watching
<1> QED BY <1>3, <1>4, <1>5

LEMMA ClickRejectKeeps == Inv /\ ClickReject => Inv'
<1> SUFFICES ASSUME Inv, ClickReject PROVE Inv'
  OBVIOUS
<1>1. stage \in {"shape_ready", "plan_ready"} /\ stage' = "rejected" /\ UNCHANGED stalled
  BY RejectMoves DEF ClickReject, Moves
<1>2. stage \in Stage /\ stage' \in Stage /\ stalled' \in Silent /\ stage \notin StopWatching
  BY <1>1 DEF Inv, PlanInv, Stage, Announced, TerminalNonSuccess, Silent, StopWatching
<1> QED BY <1>2, StatusKeeps DEF ClickReject, Moves, Inv, PlanInv

LEMMA ClickAnsweredKeeps == Inv /\ ClickAnswered => Inv'
<1> SUFFICES ASSUME Inv, ClickAnswered PROVE Inv'
  OBVIOUS
<1> USE DEF Inv
<1>1. /\ UNCHANGED <<stage, stalled, cursor, up, wizard, submission, seen, visit>>
      /\ click # "none" /\ click \in Silent /\ click' = "none"
      /\ surface /\ up /\ stage # "absent" /\ submission # "accepted"
  BY DEF ClickAnswered, plan, SurfaceInv, TypeOK, PlanInv
<1>0. surface = TRUE /\ surface' = TRUE
  BY <1>1 DEF ClickAnswered, TypeOK
<1>2. CASE /\ watched' = [last |-> click, channel |-> TRUE]
           /\ poll' = [poll EXCEPT !.live = FALSE]
           /\ untold' = FALSE
  <2>1. /\ Watching' /\ watched' \in Entry /\ watched'.last = click /\ watched'.channel
    BY <1>1, <1>2 DEF Watching, Unwatched, Entry, Cursor, Stage, TypeOK
  <2>2. /\ poll' \in Poll /\ ~poll'.live /\ poll'.pc = poll.pc /\ poll'.entry = poll.entry
        /\ poll'.got = poll.got
    BY <1>2 DEF TypeOK, Poll
  <2>4. TypeOK' /\ PlanInv'
    <3>1. TypeOK'
      BY <1>0, <1>1, <2>1, <2>2 DEF TypeOK
    <3>2. PlanInv'
      BY <1>1, <1>2 DEF PlanInv
    <3> QED BY <3>1, <3>2
  <2>5. SurfaceInv' /\ PollInv' /\ CursorNotAhead' /\ EntryInv' /\ EndInv' /\ LetGoInv'
    <3>1. click \notin {"none"} /\ "none" \notin Silent
      BY <1>1 DEF Silent, Plan!Phases
    <3>2. SurfaceInv' /\ CursorNotAhead' /\ EntryInv' /\ EndInv' /\ LetGoInv'
      BY <1>0, <1>1, <1>2, <2>1, <2>2
      DEF SurfaceInv, CursorNotAhead, EntryInv, EndInv, LetGoInv
    <3>3. PollInv'
      <4>1. CASE poll.pc = "idle"
        BY <4>1, <2>2 DEF PollInv
      <4>2. CASE poll.pc # "idle"
        BY <4>2, <1>0, <1>1, <2>1, <2>2 DEF PollInv
      <4> QED BY <4>1, <4>2 DEF PollInv
    <3> QED BY <3>2, <3>3
  <2> QED BY <2>4, <2>5
<1>3. CASE untold' = (untold \/ click = "cancelling") /\ UNCHANGED <<watched, poll, surface>>
  <2>1. TypeOK' /\ PlanInv'
    BY <1>1, <1>3 DEF TypeOK, PlanInv, Watching
  <2>2. SurfaceInv' /\ PollInv' /\ CursorNotAhead' /\ EntryInv' /\ EndInv' /\ LetGoInv'
    BY <1>1, <1>3
    DEF SurfaceInv, PollInv, CursorNotAhead, EntryInv, EndInv, LetGoInv, Watching
  <2> QED BY <2>1, <2>2
<1> QED BY <1>1, <1>2, <1>3 DEF ClickAnswered, Fault

------------------------------------------------------------------------------
LEMMA PollStartKeeps == Inv /\ PollStart => Inv'
<1> SUFFICES ASSUME Inv, PollStart PROVE Inv'
  OBVIOUS
<1> USE DEF Inv
<1>1. /\ UNCHANGED <<stage, stalled, surface, cursor, up, wizard, watched, submission, click,
                     seen, visit, untold>>
      /\ up /\ Watching /\ poll.pc = "idle"
  BY DEF PollStart, plan, store, history
<1>2. /\ poll' \in Poll /\ poll'.pc = "get" /\ poll'.entry = watched /\ poll'.live
  BY DEF PollStart, TypeOK, NoPoll, Poll, Cursor
<1>3. TypeOK' /\ PlanInv'
  BY <1>1, <1>2 DEF TypeOK, PlanInv, Watching
<1>4. SurfaceInv' /\ PollInv' /\ CursorNotAhead' /\ EntryInv' /\ EndInv' /\ LetGoInv'
  BY <1>1, <1>2
  DEF SurfaceInv, PollInv, CursorNotAhead, EntryInv, EndInv, LetGoInv, Watching
<1> QED BY <1>3, <1>4

LEMMA PollGetKeeps == Inv /\ PollGet => Inv'
<1> SUFFICES ASSUME Inv, PollGet PROVE Inv'
  OBVIOUS
<1> USE DEF Inv
<1>1. /\ UNCHANGED <<stage, stalled, surface, cursor, up, wizard, submission, click,
                     seen, visit, untold>>
      /\ up /\ Watching /\ poll.pc = "get" /\ stage \in Stage /\ stage # "absent"
      /\ poll.entry.channel = surface /\ watched.channel = surface
      /\ poll.live => watched = poll.entry
  <2>1. UNCHANGED <<stage, stalled, surface, cursor, up, wizard, submission, click,
                    seen, visit, untold>>
    BY DEF PollGet, plan, store, history
  <2>2. poll.pc = "get" /\ poll # NoPoll
    BY NothingInHand DEF PollGet
  <2> QED BY <2>1, <2>2 DEF TypeOK, PlanInv, PollInv, SurfaceInv, Stage
<1>2. CASE stage # poll.entry.last /\ poll.entry.channel /\ stage \notin Silent
  <2>1. /\ UNCHANGED watched
        /\ poll' = [poll EXCEPT !.pc = "post", !.got = stage, !.visit = visit]
    BY <1>2 DEF PollGet
  <2>2. /\ poll' \in Poll /\ poll'.pc = "post" /\ poll'.got = stage /\ poll'.entry = poll.entry
        /\ poll'.live = poll.live
    BY <1>1, <2>1 DEF TypeOK, PlanInv, Poll, Cursor
  <2>3. TypeOK' /\ PlanInv'
    BY <1>1, <2>1, <2>2 DEF TypeOK, PlanInv, Watching
  <2>4. SurfaceInv' /\ CursorNotAhead' /\ EntryInv' /\ EndInv' /\ LetGoInv'
    BY <1>1, <2>1, <2>2
    DEF SurfaceInv, CursorNotAhead, EntryInv, EndInv, LetGoInv, Watching
  <2>5. PollInv'
    BY <1>1, <1>2, <2>1, <2>2 DEF PollInv, Watching, Stage
  <2> QED BY <2>3, <2>4, <2>5
<1>3. CASE ~(stage # poll.entry.last /\ poll.entry.channel /\ stage \notin Silent)
  <2>1. poll' = NoPoll /\ watched' = (IF stage = poll.entry.last THEN watched ELSE Advance(stage))
    BY <1>3 DEF PollGet
  <2>2. CASE watched' = watched
    <3>1. TypeOK' /\ PlanInv'
      BY <1>1, <2>1, <2>2, NothingInHand DEF TypeOK, PlanInv, Watching
    <3>2. SurfaceInv' /\ PollInv' /\ CursorNotAhead' /\ EntryInv' /\ EndInv' /\ LetGoInv'
      BY <1>1, <2>1, <2>2, NothingInHand
      DEF SurfaceInv, PollInv, CursorNotAhead, EntryInv, EndInv, LetGoInv, Watching
    <3> QED BY <3>1, <3>2
  <2>3. CASE watched' = Unwatched /\ ~surface
    <3>1. TypeOK' /\ PlanInv'
      BY <1>1, <2>1, <2>3, NothingInHand DEF TypeOK, PlanInv, Watching
    <3>2. SurfaceInv' /\ PollInv' /\ CursorNotAhead' /\ EntryInv' /\ EndInv' /\ LetGoInv'
      BY <1>1, <2>1, <2>3, NothingInHand
      DEF SurfaceInv, PollInv, CursorNotAhead, EntryInv, EndInv, LetGoInv, Watching
    <3> QED BY <3>1, <3>2
  <2>4. CASE /\ watched' = [watched EXCEPT !.last = stage]
             /\ ~surface \/ stage \in Silent
    <3>1. /\ watched' \in Entry /\ watched'.last = stage /\ watched'.channel = watched.channel
          /\ Watching' /\ stage # "none"
      <4>1. stage # "none"
        BY <1>1 DEF Stage, Silent, Announced, TerminalNonSuccess, Plan!Phases
      <4>2. watched' \in Entry /\ watched'.last = stage /\ watched'.channel = watched.channel
        BY <1>1, <2>4 DEF TypeOK, Entry, Cursor
      <4> QED BY <4>1, <4>2 DEF Watching, Unwatched
    <3>2. TypeOK' /\ PlanInv'
      BY <1>1, <2>1, <3>1, NothingInHand DEF TypeOK, PlanInv
    <3>3. SurfaceInv' /\ PollInv' /\ CursorNotAhead' /\ EndInv' /\ LetGoInv'
      BY <1>1, <2>1, <3>1, NothingInHand
      DEF SurfaceInv, PollInv, CursorNotAhead, EndInv, LetGoInv
    <3>4. EntryInv'
      BY <1>1, <2>4, <3>1 DEF EntryInv
    <3> QED BY <3>2, <3>3, <3>4
  <2> QED BY <1>1, <1>3, <2>1, <2>2, <2>3, <2>4 DEF Advance
<1> QED BY <1>2, <1>3

LEMMA PollPostKeeps == Inv /\ PollPost => Inv'
<1> SUFFICES ASSUME Inv, PollPost PROVE Inv'
  OBVIOUS
<1> USE DEF Inv
<1>1. /\ UNCHANGED <<stage, stalled, surface, cursor, up, wizard, watched, submission, click,
                     visit, untold>>
      /\ poll.pc = "post" /\ seen' \in {seen, seen \cup {poll.got}}
  BY DEF PollPost, Show, plan, store, history
<1>2. /\ surface /\ up /\ poll.got \in Announced /\ submission # "accepted"
      /\ stage # "absent"
  BY <1>1, NothingInHand DEF PollInv, SurfaceInv, TypeOK, PlanInv
<1>3. seen' \subseteq Stage
  BY <1>1, <1>2 DEF TypeOK, Stage
<1>4. PlanInv' /\ SurfaceInv' /\ CursorNotAhead' /\ EntryInv' /\ LetGoInv'
  BY <1>1, <1>2
  DEF PlanInv, SurfaceInv, CursorNotAhead, EntryInv, LetGoInv, Watching
<1>5. CASE poll' = [poll EXCEPT !.pc = "save", !.visit = 0] /\ seen' = seen \cup {poll.got}
  <2>1. /\ poll' \in Poll /\ poll'.pc = "save" /\ poll'.got = poll.got /\ poll'.entry = poll.entry
        /\ poll'.live = poll.live
    BY <1>5 DEF TypeOK, Poll
  <2>2. TypeOK'
    BY <1>1, <1>2, <1>3, <2>1 DEF TypeOK, Watching
  <2>3. PollInv' /\ EndInv'
    BY <1>1, <1>2, <1>5, <2>1 DEF PollInv, EndInv, Watching
  <2> QED BY <1>4, <2>2, <2>3
<1>6. CASE poll' = NoPoll
  <2>1. TypeOK' /\ PollInv' /\ EndInv'
    BY <1>1, <1>2, <1>3, <1>6, NothingInHand DEF TypeOK, PollInv, EndInv, Watching
  <2> QED BY <1>4, <2>1
<1> QED BY <1>5, <1>6 DEF PollPost, Show, Fault

LEMMA PollSaveKeeps == Inv /\ PollSave => Inv'
<1> SUFFICES ASSUME Inv, PollSave PROVE Inv'
  OBVIOUS
<1> USE DEF Inv
<1>1. /\ UNCHANGED <<stage, stalled, surface, up, wizard, submission, click, seen, visit, untold>>
      /\ poll.pc = "save" /\ poll' = NoPoll /\ cursor' \in {cursor, poll.got}
  BY DEF PollSave, plan, history
<1>2. /\ poll.got \in Announced /\ poll.got \in seen /\ poll.entry.last # poll.got
      /\ Watching /\ watched.channel /\ surface /\ up /\ stage # "absent"
      /\ poll.live => watched = poll.entry
      /\ ~poll.live => watched.last \in Silent
      /\ submission # "accepted"
  BY <1>1, NothingInHand DEF PollInv, SurfaceInv, TypeOK, PlanInv
<1>3. poll.got \notin Silent /\ poll.got \in Stage /\ poll.got # "none" /\ watched.last # poll.got
  <2>1. poll.got \notin Silent /\ poll.got \in Stage /\ poll.got # "none"
    BY <1>2 DEF Silent, Stage, Announced, TerminalNonSuccess, StopWatching, Plan!Phases
  <2> QED BY <1>2, <2>1
<1>4. CursorNotAhead' /\ cursor' \in Cursor
  BY <1>1, <1>2, <1>3 DEF CursorNotAhead, Cursor, TypeOK
<1>5. CASE UNCHANGED watched
  <2>1. TypeOK' /\ PlanInv'
    BY <1>1, <1>2, <1>4, <1>5, NothingInHand DEF TypeOK, PlanInv, Watching
  <2>2. SurfaceInv' /\ PollInv' /\ EntryInv' /\ EndInv' /\ LetGoInv'
    BY <1>1, <1>2, <1>5, NothingInHand
    DEF SurfaceInv, PollInv, EntryInv, EndInv, LetGoInv, Watching
  <2> QED BY <1>4, <2>1, <2>2
<1>6. CASE poll.live /\ watched' = [watched EXCEPT !.last = poll.got]
  <2>1. /\ watched' \in Entry /\ watched'.last = poll.got /\ watched'.channel = watched.channel
        /\ Watching'
    BY <1>2, <1>3, <1>6 DEF TypeOK, Entry, Cursor, Watching, Unwatched
  <2>2. TypeOK' /\ PlanInv'
    BY <1>1, <1>2, <1>4, <2>1, NothingInHand DEF TypeOK, PlanInv
  <2>3. SurfaceInv' /\ PollInv' /\ EntryInv' /\ EndInv' /\ LetGoInv'
    BY <1>1, <1>2, <1>3, <2>1, NothingInHand
    DEF SurfaceInv, PollInv, EntryInv, EndInv, LetGoInv
  <2> QED BY <1>4, <2>2, <2>3
<1>7. CASE poll.live /\ poll.got \in StopWatching /\ watched' = Unwatched
  <2>1. TypeOK' /\ PlanInv'
    BY <1>1, <1>2, <1>4, <1>7, NothingInHand DEF TypeOK, PlanInv, Watching
  <2>2. SurfaceInv' /\ PollInv' /\ EntryInv' /\ EndInv'
    BY <1>1, <1>2, <1>7, NothingInHand DEF SurfaceInv, PollInv, EntryInv, EndInv, Watching
  <2>3. LetGoInv'
    BY <1>1, <1>2, <1>7 DEF LetGoInv, EndInv
  <2> QED BY <1>4, <2>1, <2>2, <2>3
<1>8. \/ UNCHANGED watched
      \/ poll.live /\ watched' = [watched EXCEPT !.last = poll.got]
      \/ poll.live /\ poll.got \in StopWatching /\ watched' = Unwatched
  <2>1. CASE watched' = Drop(watched, poll.got)
    BY <1>3, <2>1 DEF Drop
  <2>2. CASE watched' = Drop(IF poll.live THEN [watched EXCEPT !.last = poll.got] ELSE watched,
                             poll.got)
    BY <1>3, <2>2 DEF Drop
  <2> QED BY <2>1, <2>2 DEF PollSave
<1> QED BY <1>5, <1>6, <1>7, <1>8

------------------------------------------------------------------------------
LEMMA CrashKeeps == Inv /\ Crash => Inv'
<1> SUFFICES ASSUME Inv, Crash PROVE Inv'
  OBVIOUS
<1> USE DEF Inv
<1>1. /\ UNCHANGED <<stage, stalled, surface, cursor, wizard, seen, visit, untold>>
      /\ up' = FALSE /\ watched' = Unwatched /\ submission' = "idle" /\ click' = "none"
      /\ poll' = NoPoll
  BY DEF Crash, plan, store, history
<1>2. TypeOK' /\ PlanInv'
  BY <1>1, NothingInHand DEF TypeOK, PlanInv, Watching
<1>3. SurfaceInv' /\ PollInv' /\ CursorNotAhead' /\ EntryInv' /\ EndInv' /\ LetGoInv'
  BY <1>1, NothingInHand
  DEF SurfaceInv, PollInv, CursorNotAhead, EntryInv, EndInv, LetGoInv, Watching
<1> QED BY <1>2, <1>3

LEMMA BootKeeps == Inv /\ Boot => Inv'
<1> SUFFICES ASSUME Inv, Boot PROVE Inv'
  OBVIOUS
<1> USE DEF Inv
<1>1. /\ UNCHANGED <<stage, stalled, surface, cursor, wizard, submission, click, poll, seen, visit>>
      /\ ~up /\ up'
      /\ ~Watching /\ submission = "idle" /\ click = "none" /\ poll = NoPoll
      /\ poll.pc = "idle" /\ ~poll.live
  BY NothingInHand DEF Boot, plan, store, history, TypeOK, Watching
<1>2. untold' \in BOOLEAN /\ up' = TRUE
  BY DEF Boot, Listed
<1>3. CASE watched' = Unwatched /\ (~untold' => Resumed = Unwatched /\ cursor # "none")
  <2>1. TypeOK' /\ PlanInv'
    BY <1>1, <1>2, <1>3, NothingInHand DEF TypeOK, PlanInv, Watching
  <2>2. SurfaceInv' /\ PollInv' /\ CursorNotAhead' /\ EntryInv' /\ EndInv'
    BY <1>1, <1>2, <1>3, NothingInHand
    DEF SurfaceInv, PollInv, CursorNotAhead, EntryInv, EndInv, Watching
  <2>3. LetGoInv'
    <3> SUFFICES ASSUME ~untold', surface PROVE stage \in StopWatching \cap seen
      BY <1>1 DEF LetGoInv
    <3>1. stage # "absent" => stage \in StopWatching /\ cursor = stage
      BY <1>3 DEF Resumed, Unwatched
    <3>2. "breaking_down" \notin StopWatching
      BY DEF StopWatching
    <3> QED BY <1>3, <3>1, <3>2 DEF PlanInv, CursorNotAhead
  <2> QED BY <2>1, <2>2, <2>3
<1>4. CASE /\ watched' = Resumed /\ Resumed # Unwatched
           /\ ~untold' => cursor # "none"
  <2>1. /\ stage \in Stage /\ stage # "absent"
        /\ Resumed = [last |-> IF cursor = "none" THEN stage ELSE cursor, channel |-> surface]
    BY <1>4 DEF Resumed, TypeOK
  <2>2. /\ watched' \in Entry /\ watched'.channel = surface
        /\ watched'.last = (IF cursor = "none" THEN stage ELSE cursor)
        /\ Watching' /\ watched'.last # "none"
    <3>1. stage # "none"
      BY <2>1 DEF Stage, Silent, Announced, TerminalNonSuccess, Plan!Phases
    <3> QED BY <1>4, <2>1, <3>1 DEF TypeOK, Entry, Cursor, Watching, Unwatched
  <2>3. TypeOK' /\ PlanInv'
    BY <1>1, <1>2, <2>1, <2>2, NothingInHand DEF TypeOK, PlanInv
  <2>4. SurfaceInv' /\ PollInv' /\ CursorNotAhead' /\ EntryInv' /\ EndInv' /\ LetGoInv'
    <3>1. "breaking_down" \in Silent
      BY DEF Silent, Plan!Phases
    <3> QED
      BY <1>1, <1>2, <1>4, <2>2, <3>1, NothingInHand
      DEF SurfaceInv, PollInv, CursorNotAhead, EntryInv, EndInv, LetGoInv
  <2> QED BY <2>3, <2>4
<1>5. \/ watched' = Unwatched /\ (~untold' => Resumed = Unwatched /\ cursor # "none")
      \/ watched' = Resumed /\ Resumed # Unwatched /\ (~untold' => cursor # "none")
  <2>1. ASSUME NEW listed \in Listed, watched' = (IF listed THEN Resumed ELSE Unwatched),
               untold' = (~listed \/ cursor = "none")
        PROVE  \/ watched' = Unwatched /\ (~untold' => Resumed = Unwatched /\ cursor # "none")
               \/ watched' = Resumed /\ Resumed # Unwatched /\ (~untold' => cursor # "none")
    <3>1. CASE listed /\ cursor # "none"
      BY <2>1, <3>1
    <3>2. CASE ~(listed /\ cursor # "none")
      <4>1. untold'
        BY <2>1, <3>2, Zenon
      <4>2. watched' \in {Resumed, Unwatched}
        BY <2>1
      <4> QED BY <4>1, <4>2
    <3> QED BY <3>1, <3>2
  <2>2. CASE UNCHANGED watched /\ untold' = TRUE
    BY <1>1, <2>2 DEF Watching
  <2> QED BY <2>1, <2>2 DEF Boot
<1> QED BY <1>3, <1>4, <1>5

LEMMA InvNext == Inv /\ [Next]_vars => Inv'
<1> SUFFICES ASSUME Inv, [Next]_vars PROVE Inv'
  OBVIOUS
<1>1. CASE UNCHANGED vars
  BY <1>1 DEF vars, Inv, TypeOK, PlanInv, SurfaceInv, PollInv, CursorNotAhead,
              EntryInv, EndInv, LetGoInv, Watching
<1>2. CASE Next
  BY <1>2, WorkerStepKeeps, ActElsewhereKeeps, SubmitElsewhereKeeps, SlashCommandKeeps, SubmitKeeps,
     ClickAcceptedKeeps, ClickRejectKeeps, SubmissionAnsweredKeeps, SubmissionSavedKeeps,
     ClickAnsweredKeeps, PollStartKeeps, PollGetKeeps, PollPostKeeps, PollSaveKeeps, CrashKeeps,
     BootKeeps
  DEF Next, Handlers, PollStep
<1> QED BY <1>1, <1>2

------------------------------------------------------------------------------
\* The bridge's memory is well formed in every interleaving of its handlers
\* (slack.mjs:843-906): the poller's entry is the map's or was replaced, and a crash
\* leaves nothing behind.
THEOREM BridgeTyped == Spec => []TypeOK
<1>1. Inv => TypeOK
  BY DEF Inv
<1> QED BY <1>1, InvInit, InvNext, PTL DEF Spec

\* The cursor in the plan record never names an announcement that did not reach the
\* channel (slack.mjs:805-817), whatever fails, crashes or crosses.  The initial
\* `breaking_down`, written for a placeholder Slack may have refused, is excepted.
THEOREM CursorHolds == Spec => []CursorNotAhead
<1>1. Inv => CursorNotAhead
  BY DEF Inv
<1> QED BY <1>1, InvInit, InvNext, PTL DEF Spec

\* No announcement is forgotten (slack.mjs:692-699): a status nobody saw yet is one
\* the running bridge still has to announce, after any number of crashes, failed
\* calls and crossing clicks.
THEOREM AnnouncementsKept == Spec => []NothingForgotten
<1>1. Inv => NothingForgotten
  <2> SUFFICES ASSUME Inv, Following, stage \in Announced \ seen
               PROVE  Watching /\ watched.channel /\ watched.last # stage
    BY DEF NothingForgotten
  <2>1. Watching
    BY DEF Inv, LetGoInv, Following
  <2>2. watched.channel /\ watched.last \in Silent \cup seen
    BY <2>1 DEF Inv, SurfaceInv, EntryInv, Following
  <2>3. stage \notin Silent
    BY DEF Announced, TerminalNonSuccess, Silent, Plan!Phases
  <2> QED BY <2>1, <2>2, <2>3
<1> QED BY <1>1, InvInit, InvNext, PTL DEF Spec

------------------------------------------------------------------------------
(***************************************************************************)
(* How often one status change is announced.  The messages of a visit stay *)
(* within `Extra`, and the one message beyond it is posted only when the   *)
(* entry that will stop the next one is in the map or about to be.         *)
(***************************************************************************)
Extra == restarts + faults + crossed
Spent == posts > Extra

CountTyped ==
  /\ posts \in Nat /\ restarts \in Nat /\ faults \in Nat /\ crossed \in Nat
  /\ seen = {} => posts = 0

\* A poll round that a click has overtaken is accounted for by that click.
RoundInv ==
  /\ poll.pc = "post" =>
       /\ poll.visit <= visit
       /\ poll.visit = visit => poll.got = stage
       /\ posts <= Extra
       /\ ~poll.live => posts + 1 <= Extra
  /\ poll.pc # "idle" /\ ~poll.live => crossed >= 1
  /\ poll.pc = "get" /\ ~poll.live => posts + 1 <= Extra \/ poll.entry.last = stage

SpentInv ==
  /\ posts <= Extra + 1
  /\ Spent =>
       /\ up
       /\ poll.pc \in {"get", "save"} => poll.live
       /\ poll.pc = "save" => poll.got = stage
       /\ poll.pc # "save" /\ Watching => watched.last = stage

CountInv == CountTyped /\ RoundInv /\ SpentInv

LEMMA CountInit == Init => CountInv
BY NothingInHand DEF Init, CountInv, CountTyped, RoundInv, SpentInv, Spent, Extra

\* A new visit starts at no message.
LEMMA MoveCounts ==
  ASSUME Inv, CountInv, visit' = visit + 1, posts' = 0,
         UNCHANGED <<seen, crossed, restarts, faults, poll>>
  PROVE  CountInv'
<1>1. visit \in Nat /\ poll.visit \in Nat
  BY DEF Inv, PlanInv, TypeOK, Poll
<1> QED BY <1>1 DEF CountInv, CountTyped, RoundInv, SpentInv, Spent, Extra

LEMMA MovesCount ==
  ASSUME Inv, CountInv,
         \/ WorkerStep \/ ActElsewhere \/ SubmitElsewhere
         \/ Submit \/ ClickAccepted \/ ClickReject
  PROVE  CountInv'
BY MoveCounts DEF WorkerStep, ActElsewhere, SubmitElsewhere, Submit, ClickAccepted, ClickReject,
                  Moves

LEMMA SubmissionCounts ==
  ASSUME Inv, CountInv, SubmissionAnswered \/ SubmissionSaved \/ SlashCommand
  PROVE  CountInv'
<1>1. CASE SubmissionSaved \/ SlashCommand
  <2>1. /\ UNCHANGED <<stage, visit, posts, seen, crossed, restarts, poll, watched, up>>
        /\ faults' = faults \/ faults' = faults + 1
    BY <1>1 DEF SubmissionSaved, SlashCommand, Fault, history, plan
  <2> QED BY <2>1 DEF CountInv, CountTyped, RoundInv, SpentInv, Spent, Extra, Watching
<1>2. CASE SubmissionAnswered
  <2>1. /\ UNCHANGED <<stage, visit, posts, crossed, restarts, poll, up>>
        /\ faults' = faults \/ faults' = faults + 1
        /\ posts = 0 /\ poll.pc = "idle"
    BY <1>2 DEF SubmissionAnswered, Fault, plan, CountInv, CountTyped, Inv, SurfaceInv
  <2> QED BY <2>1 DEF CountInv, CountTyped, RoundInv, SpentInv, Spent, Extra
<1> QED BY <1>1, <1>2

LEMMA ExtraCounts ==
  /\ CountTyped => Extra \in Nat
  /\ CountTyped' => Extra' \in Nat
BY DEF CountTyped, Extra

\* A click that crosses the poller, or the plan, is counted when it is answered.
LEMMA ClickAnsweredCounts ==
  ASSUME Inv, CountInv, ClickAnswered
  PROVE  CountInv'
<1> USE DEF CountInv
<1>1. UNCHANGED <<stage, visit, posts, seen, restarts, up>>
  BY DEF ClickAnswered, plan
<1>2. CASE UNCHANGED <<watched, poll, crossed>> /\ faults' = faults + 1
  BY <1>1, <1>2 DEF CountTyped, RoundInv, SpentInv, Spent, Extra, Watching
<1>3. CASE /\ watched' = [last |-> click, channel |-> TRUE]
           /\ poll' = [poll EXCEPT !.live = FALSE]
           /\ crossed' = IF stage # click \/ poll.pc # "idle" THEN crossed + 1 ELSE crossed
           /\ faults' = faults \/ faults' = faults + 1
  <2>1. /\ ~poll'.live /\ poll'.pc = poll.pc /\ poll'.entry = poll.entry
        /\ poll'.got = poll.got /\ poll'.visit = poll.visit /\ watched'.last = click
    BY <1>3 DEF Inv, TypeOK, Poll
  <2>2. CountTyped'
    BY <1>1, <1>3 DEF CountTyped
  <2>3. CASE poll.pc = "idle"
    BY <1>1, <1>3, <2>1, <2>2, <2>3 DEF CountTyped, RoundInv, SpentInv, Spent, Extra
  <2>4. CASE poll.pc # "idle"
    <3>1. crossed' = crossed + 1 /\ crossed' >= 1
      BY <1>3, <2>4 DEF CountTyped
    <3>2. Extra' >= Extra + 1 /\ posts' = posts
      BY <1>1, <1>3, <3>1 DEF Extra, CountTyped
    <3>3. Extra \in Nat /\ Extra' \in Nat /\ posts \in Nat
      BY <2>2, ExtraCounts DEF CountTyped
    <3>4. SpentInv'
      <4>1. posts <= Extra + 1
        BY DEF SpentInv
      <4>2. posts' <= Extra'
        BY <3>2, <3>3, <4>1
      <4>3. posts' \in Nat
        BY <3>2, <3>3
      <4>4. ~(posts' > Extra')
        BY <3>3, <4>2, <4>3
      <4>5. posts' <= Extra' + 1
        <5>1. \A m, n \in Nat : m <= n => m <= n + 1
          OBVIOUS
        <5> QED BY <3>3, <4>2, <4>3, <5>1
      <4> QED BY <4>4, <4>5 DEF SpentInv, Spent
    <3>5. poll.pc = "get" => posts' + 1 <= Extra' \/ poll.entry.last = stage
      BY <3>2, <3>3 DEF SpentInv, Spent, RoundInv, Inv, PollInv
    <3>6. RoundInv'
      BY <1>1, <2>1, <3>1, <3>2, <3>3, <3>5 DEF RoundInv
    <3> QED BY <2>2, <3>4, <3>6
  <2> QED BY <2>3, <2>4
<1> QED BY <1>2, <1>3 DEF ClickAnswered, Fault

LEMMA PollStartCounts ==
  ASSUME Inv, CountInv, PollStart
  PROVE  CountInv'
<1>1. /\ UNCHANGED <<stage, visit, posts, seen, crossed, restarts, faults, watched, up>>
      /\ poll.pc = "idle" /\ poll'.pc = "get" /\ poll'.live
  BY DEF PollStart, plan, history, NoPoll
<1> QED BY <1>1 DEF CountInv, CountTyped, RoundInv, SpentInv, Spent, Extra, Watching

LEMMA PollGetCounts ==
  ASSUME Inv, CountInv, PollGet
  PROVE  CountInv'
<1> USE DEF CountInv
<1>1. /\ UNCHANGED <<stage, visit, posts, seen, crossed, restarts, faults, up>>
      /\ poll.pc = "get" /\ Watching /\ (poll.live => watched = poll.entry)
  BY DEF PollGet, plan, history, Inv, PollInv
<1>2. /\ Extra' = Extra /\ Extra \in Nat /\ posts \in Nat /\ visit \in Nat /\ CountTyped'
  BY <1>1 DEF Extra, CountTyped, Inv, PlanInv
<1>3. CASE stage # poll.entry.last /\ poll.entry.channel /\ stage \notin Silent
  <2>1. /\ poll'.pc = "post" /\ poll'.got = stage /\ poll'.visit = visit
        /\ poll'.live = poll.live
    BY <1>3 DEF PollGet, Inv, TypeOK, Poll
  <2>2. ~Spent /\ (~poll.live => posts + 1 <= Extra /\ crossed >= 1)
    BY <1>1, <1>3 DEF SpentInv, RoundInv
  <2>3. RoundInv'
    BY <1>1, <1>2, <2>1, <2>2 DEF RoundInv, Spent
  <2>4. SpentInv'
    BY <1>1, <1>2, <2>2 DEF SpentInv, Spent
  <2> QED BY <1>2, <2>3, <2>4
<1>4. CASE ~(stage # poll.entry.last /\ poll.entry.channel /\ stage \notin Silent)
  <2>1. poll' = NoPoll /\ watched' = (IF stage = poll.entry.last THEN watched ELSE Advance(stage))
    BY <1>4 DEF PollGet
  <2>2. RoundInv'
    BY <2>1, NothingInHand DEF RoundInv
  <2>3. Spent => (Watching' => watched'.last = stage)
    <3> SUFFICES ASSUME Spent, Watching' PROVE watched'.last = stage
      OBVIOUS
    <3>1. poll.live /\ watched.last = stage
      BY <1>1 DEF SpentInv
    <3>2. watched = poll.entry
      BY <1>1, <3>1
    <3> QED BY <2>1, <3>1, <3>2
  <2>4. SpentInv'
    BY <1>1, <1>2, <2>1, <2>3, NothingInHand DEF SpentInv, Spent
  <2> QED BY <1>2, <2>2, <2>4
<1> QED BY <1>3, <1>4

LEMMA PollPostCounts ==
  ASSUME Inv, CountInv, PollPost
  PROVE  CountInv'
<1> USE DEF CountInv
<1>1. /\ UNCHANGED <<stage, visit, crossed, restarts, up, watched>>
      /\ poll.pc = "post" /\ up
  BY NothingInHand DEF PollPost, Show, plan, history, Inv, TypeOK
<1>2. /\ poll.visit <= visit /\ (poll.visit = visit => poll.got = stage)
      /\ posts <= Extra /\ (~poll.live => posts + 1 <= Extra /\ crossed >= 1)
  BY <1>1 DEF RoundInv
<1>3. CASE /\ Show /\ UNCHANGED faults
           /\ poll' = [poll EXCEPT !.pc = "save", !.visit = 0]
  <2>1. poll'.pc = "save" /\ poll'.got = poll.got /\ poll'.live = poll.live
    BY <1>3 DEF Inv, TypeOK, Poll
  <2>2. posts' = (IF poll.visit = visit THEN posts + 1 ELSE posts) /\ seen' # {}
    BY <1>3 DEF Show
  <2>3. CountTyped' /\ Extra' = Extra /\ Extra \in Nat /\ posts \in Nat
    BY <1>1, <1>3, <2>2 DEF CountTyped, Extra
  <2>4. RoundInv'
    BY <1>1, <1>2, <2>1 DEF RoundInv
  <2>5. SpentInv'
    BY <1>1, <1>2, <2>1, <2>2, <2>3 DEF SpentInv, Spent
  <2> QED BY <2>3, <2>4, <2>5
<1>4. CASE /\ faults' = faults + 1 /\ poll' = NoPoll
           /\ Show \/ UNCHANGED history
  <2>1. posts' \in {posts, posts + 1} /\ (seen' = {} => seen = {} /\ posts' = posts)
    BY <1>4 DEF Show, history
  <2>2. CountTyped' /\ Extra' = Extra + 1 /\ Extra \in Nat /\ posts \in Nat
    BY <1>1, <1>4, <2>1 DEF CountTyped, Extra
  <2>3. RoundInv' /\ SpentInv'
    BY <1>1, <1>2, <1>4, <2>1, <2>2, NothingInHand DEF RoundInv, SpentInv, Spent
  <2> QED BY <2>2, <2>3
<1> QED BY <1>3, <1>4 DEF PollPost, Fault

LEMMA PollSaveCounts ==
  ASSUME Inv, CountInv, PollSave
  PROVE  CountInv'
<1> USE DEF CountInv
<1>1. /\ UNCHANGED <<stage, visit, posts, seen, crossed, restarts, up>>
      /\ poll.pc = "save" /\ poll' = NoPoll
  BY DEF PollSave, plan, history
<1>2. RoundInv'
  BY <1>1, NothingInHand DEF RoundInv
<1>3. CASE faults' = faults + 1
  BY <1>1, <1>2, <1>3 DEF CountTyped, SpentInv, Spent, Extra
<1>4. CASE /\ UNCHANGED faults
           /\ watched' = Drop(IF poll.live THEN [watched EXCEPT !.last = poll.got] ELSE watched,
                              poll.got)
  <2>1. Spent /\ Watching' => watched'.last = stage
    <3> SUFFICES ASSUME Spent, Watching' PROVE watched'.last = stage
      OBVIOUS
    <3>1. poll.live /\ poll.got = stage
      BY <1>1 DEF SpentInv
    <3>2. watched' = [watched EXCEPT !.last = stage]
      BY <1>4, <3>1 DEF Drop, Watching
    <3> QED BY <3>2 DEF Inv, TypeOK, Entry
  <2> QED BY <1>1, <1>2, <1>4, <2>1, NothingInHand DEF CountTyped, SpentInv, Spent, Extra
<1> QED BY <1>3, <1>4 DEF PollSave, Fault

LEMMA CrashCounts ==
  ASSUME Inv, CountInv, Crash \/ Boot
  PROVE  CountInv'
<1> USE DEF CountInv
<1>1. CASE Crash
  <2>1. /\ UNCHANGED <<visit, posts, seen, crossed, faults>> /\ restarts' = restarts + 1
        /\ poll' = NoPoll
    BY <1>1 DEF Crash, history
  <2> QED BY <2>1, NothingInHand DEF CountTyped, RoundInv, SpentInv, Spent, Extra
<1>2. CASE Boot
  <2>1. /\ UNCHANGED <<stage, visit, posts, seen, crossed, restarts, poll>>
        /\ faults' = faults \/ faults' = faults + 1
        /\ ~up
    BY <1>2 DEF Boot, Fault, history, plan
  <2> QED BY <2>1 DEF CountTyped, RoundInv, SpentInv, Spent, Extra
<1> QED BY <1>1, <1>2

LEMMA CountNext == Inv /\ CountInv /\ [Next]_vars => CountInv'
<1> SUFFICES ASSUME Inv, CountInv, [Next]_vars PROVE CountInv'
  OBVIOUS
<1>1. CASE UNCHANGED vars
  BY <1>1 DEF vars, CountInv, CountTyped, RoundInv, SpentInv, Spent, Extra, Watching
<1>2. CASE Next
  BY <1>2, MovesCount, SubmissionCounts, ClickAnsweredCounts, PollStartCounts, PollGetCounts,
     PollPostCounts, PollSaveCounts, CrashCounts
  DEF Next, Handlers, PollStep
<1> QED BY <1>1, <1>2

\* One status change is announced once (slack.mjs:1014-1022), and once more at most
\* for each crash, each failed call and each click that crossed it.
THEOREM AnnouncedOnce == Spec => []DuplicatesBounded
<1>1. CountInv => DuplicatesBounded
  BY DEF CountInv, CountTyped, SpentInv, Extra, DuplicatesBounded
<1>2. Init => Inv /\ CountInv
  BY InvInit, CountInit
<1>3. Inv /\ CountInv /\ [Next]_vars => (Inv /\ CountInv)'
  BY InvNext, CountNext
<1> QED BY <1>1, <1>2, <1>3, PTL DEF Spec
====
