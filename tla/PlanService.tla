---------------------------- MODULE PlanService ----------------------------
(***************************************************************************)
(* The lifecycle of one plan in the planner service: the plan store (a     *)
(* record in memory and its JSON file), the HTTP handlers that move the    *)
(* plan through its two human gates, the background workers they start,    *)
(* and the create-tree child process that writes the tracker.              *)
(*                                                                         *)
(* Handlers run on one Node event loop: a handler is atomic between two    *)
(* awaits.  Each handler that awaits its request body is an arrival step   *)
(* (the check before the await) and a commit step (everything after it).   *)
(* Workers are split at the awaits of an engine call, a gate run and a     *)
(* tracker tool.  The create-tree child is a process of its own and runs   *)
(* concurrently with all of them; it may outlive a crash of the service.   *)
(*                                                                         *)
(* Plans share nothing but the spend ledger, which appears here only as    *)
(* the nondeterministic verdict of the spend breakers.                     *)
(***************************************************************************)
EXTENDS Naturals, FiniteSets

CONSTANTS
  Shapes,          \* contents a skeleton.json can have
  GoodShapes,      \* those the skeleton gate passes (its verdict reads nothing else)
  NoShape,         \* no skeleton.json / plan.json
  Requests,        \* concurrent HTTP requests
  Workers,         \* background workers that can exist at once
  TreeSize,        \* issues in the tree, created in the order 1..TreeSize
  MaxRegen,        \* MAX_REGEN_ATTEMPTS
  OrphansSurvive,  \* a create-tree child may outlive a crash of the service
  MaxRestarts,     \* bound on crashes
  MaxFaults,       \* bound on plan-file writes that throw
  MaxLost          \* bound on tracker responses lost after the write committed

ASSUME ShapesAssumption ==
  /\ GoodShapes \subseteq Shapes
  /\ NoShape \notin Shapes
ASSUME WorkersAssumption == IsFiniteSet(Workers)
ASSUME SizesAssumption ==
  /\ TreeSize \in Nat \ {0}
  /\ MaxRegen \in Nat
ASSUME BoundsAssumption ==
  /\ OrphansSurvive \in BOOLEAN
  /\ MaxRestarts \in Nat
  /\ MaxFaults \in Nat
  /\ MaxLost \in Nat

VARIABLES
  mem,        \* state.plans.get(plan_id): the plan record in memory
  disk,       \* the plan record in its JSON file
  skelFile,   \* <runDir>/skeleton.json
  planFile,   \* <runDir>/plan.json, as the shape it was groomed from
  session,    \* the shape the agent session plan.session_id knows
  req,        \* handlers suspended at their body read
  worker,     \* background workers
  child,      \* the create-tree --live child of each worker slot
  rec,        \* <runDir>/created-record.json
  copies,     \* issues on the tracker: how many of each
  swept,      \* what cleanups did with each issue of the record
  approved,   \* history: the shape the human approved at gate 1
  createOK,   \* history: the human approved the creation at gate 2
  regens,     \* history: regenerations each planning worker made
  phase,      \* history: the transient status entered last
  restarts, faults, lost   \* what the bounds count

planVars  == <<mem, disk>>
fileVars  == <<skelFile, planFile, session>>
treeVars  == <<rec, copies, swept>>
pastVars  == <<approved, createOK, regens>>
bounds    == <<restarts, faults, lost>>
vars == <<mem, disk, skelFile, planFile, session, req, worker, child, rec,
          copies, swept, approved, createOK, regens, phase, restarts, faults, lost>>

----------------------------------------------------------------------------
Transient  == {"breaking_down", "grooming", "creating", "cancelling"}
Rejectable == {"shape_ready", "plan_ready"}
Retryable  == {"failed", "budget_blocked"}
Final      == {"rejected", "cancelled"}
Status     == Transient \cup Rejectable \cup Retryable \cup Final
                \cup {"absent", "created"}

MaybeShape == Shapes \cup {NoShape}
Verdict    == {"none", "ok", "bad"}
Issues     == 1..TreeSize

\* created: no marker, a marker of a completed create, or one flagged partial.
Plan == [status: Status, skel: MaybeShape, skelGate: Verdict, planGate: Verdict,
         created: {"none", "full", "partial"},
         regenShape: 0..MaxRegen, regenGroom: 0..MaxRegen]

NoPlan == [status |-> "absent", skel |-> NoShape, skelGate |-> "none",
           planGate |-> "none", created |-> "none",
           regenShape |-> 0, regenGroom |-> 0]

Ops == {"none", "approve", "create", "reject", "retry", "cancel"}
Request == [op: Ops, edit: MaybeShape]
NoRequest == [op |-> "none", edit |-> NoShape]

Kinds == {"none", "phase1", "groom", "create", "verify", "verifyPartial", "cancel"}
WorkerPC == {"check", "engine", "gate", "search", "guard", "live", "verify", "sweep"}
Worker == [kind: Kinds, pc: WorkerPC, attempt: 0..MaxRegen, edited: BOOLEAN]
NoWorker == [kind |-> "none", pc |-> "check", attempt |-> 0, edited |-> FALSE]

ChildPC == {"none", "boot", "init", "post", "ack", "tail", "exit0", "exit1"}
Child == [pc: ChildPC, next: 1..(TreeSize + 1)]
NoChild == [pc |-> "none", next |-> 1]

\* len: issues a readable record lists; one cut short by a kill parses to nothing.
Record == [state: {"absent", "ok", "torn"}, len: 0..TreeSize]
Torn == [state |-> "torn", len |-> 0]
\* Mutant: an unreadable record counts as one that proves zero writes.
TornIsEmpty(r) == r.state = "torn" \/ (r.state = "ok" /\ r.len = 0)
CleanEmpty(r) == r.state = "ok" /\ r.len = 0

Active == {w \in Workers : worker[w].kind # "none"}
Alive  == {c \in Workers : child[c].pc # "none"}

Init ==
  /\ mem = NoPlan
  /\ disk = NoPlan
  /\ skelFile = NoShape
  /\ planFile = NoShape
  /\ session = NoShape
  /\ req = [r \in Requests |-> NoRequest]
  /\ worker = [w \in Workers |-> NoWorker]
  /\ child = [w \in Workers |-> NoChild]
  /\ rec = [state |-> "absent", len |-> 0]
  /\ copies = [k \in Issues |-> 0]
  /\ swept = [k \in Issues |-> "open"]
  /\ approved = NoShape
  /\ createOK = FALSE
  /\ regens = [kind \in {"phase1", "groom"} |-> 0]
  /\ phase = "absent"
  /\ restarts = 0
  /\ faults = 0
  /\ lost = 0

----------------------------------------------------------------------------
(***************************************************************************)
(* The plan store.  create, update and transition all set the Map first    *)
(* and write the file second; a write that throws leaves memory ahead.     *)
(***************************************************************************)
Persist(p) ==
  /\ mem' = p
  /\ disk' = p
  /\ UNCHANGED faults

PersistThrows(p) ==
  /\ faults < MaxFaults
  /\ mem' = p
  /\ faults' = faults + 1
  /\ UNCHANGED disk

\* A worker's write that throws: its catch saves `failed` over what memory
\* already holds.
CaughtThrow(p) ==
  LET q == [p EXCEPT !.status = "failed"] IN
  /\ faults < MaxFaults
  /\ mem' = q
  /\ disk' = q
  /\ faults' = faults + 1

\* Mutant: a worker counts its regenerations from zero.
StartFresh(kind, pc, edited) ==
  \E w \in Workers :
    /\ worker[w].kind = "none"
    /\ child[w].pc = "none"
    /\ worker' = [worker EXCEPT ![w] =
         [kind |-> kind, pc |-> pc, edited |-> edited, attempt |-> 0]]

\* The worker `kind` starts; its counter comes from the plan record.
Start(kind, pc, edited) ==
  \E w \in Workers :
    /\ worker[w].kind = "none"
    /\ child[w].pc = "none"
    /\ worker' = [worker EXCEPT ![w] =
         [kind |-> kind, pc |-> pc, edited |-> edited,
          attempt |-> CASE kind = "phase1" -> mem.regenShape
                        [] kind = "groom"  -> mem.regenGroom
                        [] OTHER -> 0]]

\* A worker that called state.update for the last time.
Done(w) == worker' = [worker EXCEPT ![w] = NoWorker]

Goto(w, pc) == worker' = [worker EXCEPT ![w].pc = pc]

\* state.transition to a transient status, then audit, response and dispatch.
\* When the file write throws the client gets a 500 and no worker starts.
TransitionAndStart(to, kind, pc) ==
  /\ phase' = to
  /\ \/ /\ Persist([mem EXCEPT !.status = to])
        /\ Start(kind, pc, FALSE)
     \/ /\ PersistThrows([mem EXCEPT !.status = to])
        /\ UNCHANGED worker

----------------------------------------------------------------------------
(***************************************************************************)
(* Handlers                                                                *)
(***************************************************************************)
\* POST /plan
CreatePlan ==
  /\ mem.status = "absent"
  /\ TransitionAndStart("breaking_down", "phase1", "check")
  /\ UNCHANGED <<fileVars, req, child, treeVars, pastVars, restarts, lost>>

\* What each handler requires of the plan record it holds before its body read.
\* (Cancel tests it after the read, on the record fetched before.)
Legal(op) ==
  CASE op = "approve" -> mem.status = "shape_ready"
    [] op = "create"  -> mem.status = "plan_ready"
    [] op = "reject"  -> mem.status \in Rejectable
    [] op = "retry"   -> mem.status \in Retryable
    [] op = "cancel"  -> mem.created # "none" /\ mem.status \in {"created", "failed"}

Arrive(r) ==
  /\ req[r].op = "none"
  /\ \E op \in Ops \ {"none"}, edit \in MaybeShape :
       /\ Legal(op)
       /\ op # "approve" => edit = NoShape
       /\ req' = [req EXCEPT ![r] = [op |-> op, edit |-> edit]]
  /\ UNCHANGED <<planVars, fileVars, worker, child, treeVars, pastVars, phase, bounds>>

Respond(r) == req' = [req EXCEPT ![r] = NoRequest]

\* A 4xx after the body: invalid body, failed edit gate, lost compare-and-swap.
Refuse(r) ==
  /\ req[r].op # "none"
  /\ Respond(r)
  /\ UNCHANGED <<planVars, fileVars, worker, child, treeVars, pastVars, phase, bounds>>

\* POST /plan/{id}/approve-shape, from the edit gate's verdict on.  The edited
\* skeleton is renamed into place and saved on the plan before the
\* compare-and-swap decides whether this approval counts.
EditedPlan(r) ==
  IF req[r].edit = NoShape THEN mem
  ELSE [mem EXCEPT !.skel = req[r].edit, !.skelGate = "ok"]

\* Mutant: the edit gate lets every edit through.
ApproveAnyEdit(r) ==
  skelFile' = IF req[r].edit = NoShape THEN skelFile ELSE req[r].edit

ApproveEdit(r) ==
  /\ req[r].edit \in GoodShapes \cup {NoShape}
  /\ skelFile' = IF req[r].edit = NoShape THEN skelFile ELSE req[r].edit

ApproveShape(r) ==
  LET p == EditedPlan(r)
      q == [p EXCEPT !.status = "grooming"]
  IN
  /\ req[r].op = "approve"
  /\ ApproveEdit(r)
  /\ Respond(r)
  /\ \/ \* the compare-and-swap succeeds
        /\ mem.status = "shape_ready"
        /\ approved' = p.skel
        /\ phase' = "grooming"
        /\ \/ Persist(q) /\ Start("groom", "check", req[r].edit # NoShape)
           \/ /\ faults < MaxFaults    \* transition's write throws
              /\ faults' = faults + 1
              /\ mem' = q /\ disk' = IF p = mem THEN disk ELSE p
              /\ UNCHANGED worker
     \/ \* 409, or the write of the edited skeleton throws
        /\ \/ mem.status # "shape_ready" /\ p = mem /\ UNCHANGED <<mem, disk, faults>>
           \/ mem.status # "shape_ready" /\ p # mem /\ Persist(p)
           \/ p # mem /\ PersistThrows(p)
        /\ UNCHANGED <<worker, approved, phase>>
  /\ UNCHANGED <<planFile, session, child, treeVars, createOK, regens, restarts, lost>>

\* POST /plan/{id}/create
Create(r) ==
  /\ req[r].op = "create"
  /\ mem.status = "plan_ready"
  /\ Respond(r)
  /\ TransitionAndStart("creating", "create", "guard")
  /\ createOK' = TRUE
  /\ UNCHANGED <<fileVars, child, treeVars, approved, regens, restarts, lost>>

\* POST /plan/{id}/reject
Reject(r) ==
  /\ req[r].op = "reject"
  /\ mem.status \in Rejectable
  /\ Respond(r)
  /\ LET p == [mem EXCEPT !.status = "rejected"] IN Persist(p) \/ PersistThrows(p)
  /\ UNCHANGED <<fileVars, worker, child, treeVars, pastVars, phase, restarts, lost>>

\* POST /plan/{id}/retry judges the plan and its run directory as they are now.
\* Mutant: a partial marker is taken for a complete one.
RetryVerifyAny ==
  /\ mem.created # "none"
  /\ TransitionAndStart("creating", "verify", "verify")

\* Case A: a marker of a completed create is verified, never re-created.
RetryVerify ==
  /\ mem.created = "full"
  /\ TransitionAndStart("creating", "verify", "verify")

\* Case B: a partial marker, or a record that does not prove zero writes.  A
\* readable record plants the partial marker in a second save before the 202.
RecordBlocks == mem.created = "partial" \/ (rec.state # "absent" /\ ~CleanEmpty(rec))

RetryBlocked ==
  LET p == [mem EXCEPT !.status = "creating"]
      plants == rec.state = "ok" /\ rec.len > 0
      q == IF plants THEN [p EXCEPT !.created = "partial"] ELSE p
  IN
  /\ mem.created # "full"
  /\ RecordBlocks
  /\ phase' = "creating"
  /\ \/ Persist(q) /\ Start("verifyPartial", "verify", FALSE)
     \/ PersistThrows(p) /\ UNCHANGED worker
     \/ /\ plants /\ faults < MaxFaults
        /\ mem' = q /\ disk' = p /\ faults' = faults + 1
        /\ UNCHANGED worker

\* Mutant: artifacts count whatever their gate said of them.
RetryLadderByFiles ==
  /\ mem.created # "full"
  /\ ~RecordBlocks
  /\ IF skelFile = NoShape
     THEN TransitionAndStart("breaking_down", "phase1", "check")
     ELSE IF planFile = NoShape
     THEN TransitionAndStart("grooming", "groom", "check")
     ELSE TransitionAndStart("creating", "create", "guard")

\* The ladder: the first phase without an artifact that passed its gate.
RetryLadder ==
  /\ mem.created # "full"
  /\ ~RecordBlocks
  /\ IF skelFile = NoShape \/ mem.skelGate # "ok"
     THEN TransitionAndStart("breaking_down", "phase1", "check")
     ELSE IF planFile = NoShape \/ mem.planGate # "ok"
     THEN TransitionAndStart("grooming", "groom", "check")
     ELSE TransitionAndStart("creating", "create", "guard")

\* Mutant: the status checked before the body await is not checked again.
RetryUnchecked(r) ==
  /\ req[r].op = "retry"
  /\ Respond(r)
  /\ RetryVerify \/ RetryBlocked \/ RetryLadder
  /\ UNCHANGED <<fileVars, child, treeVars, pastVars, restarts, lost>>

Retry(r) ==
  /\ req[r].op = "retry"
  /\ mem.status \in Retryable
  /\ Respond(r)
  /\ RetryVerify \/ RetryBlocked \/ RetryLadder
  /\ UNCHANGED <<fileVars, child, treeVars, pastVars, restarts, lost>>

\* POST /plan/{id}/cancel.  The new sweep looks again at what one before it
\* passed over.
Cancel(r) ==
  /\ req[r].op = "cancel"
  /\ mem.status \in {"created", "failed"}
  /\ Respond(r)
  /\ TransitionAndStart("cancelling", "cancel", "sweep")
  /\ swept' = [k \in Issues |-> IF swept[k] = "moved" THEN "moved" ELSE "open"]
  /\ UNCHANGED <<fileVars, child, rec, copies, pastVars, restarts, lost>>

\* POST /plan/{id}/surface: the client's metadata is not modelled, the save of
\* the whole record it triggers is.
Surface ==
  /\ mem.status # "absent"
  /\ Persist(mem)
  /\ UNCHANGED <<fileVars, req, worker, child, treeVars, pastVars, phase, restarts, lost>>

----------------------------------------------------------------------------
(***************************************************************************)
(* Planning workers: runPhase1Worker and runGroomWorker                    *)
(***************************************************************************)
At(w, kind, pc) == worker[w].kind = kind /\ worker[w].pc = pc

\* Every exit of a worker is one save of the plan.
Exit(w, p) == (Persist(p) \/ CaughtThrow(p)) /\ Done(w)

\* Mutants: a worker's last save omits the status; a failure resets the marker.
FailedUnsaid == mem
FailedAndReset == [mem EXCEPT !.status = "failed", !.created = "none"]
Failed == [mem EXCEPT !.status = "failed"]

\* The breakers block the call, something before the call throws, or the engine
\* deletes the phase's artifact and spawns the agent.
Check(w) ==
  /\ worker[w].kind \in {"phase1", "groom"} /\ worker[w].pc = "check"
  /\ \/ /\ \E to \in Retryable : Exit(w, [mem EXCEPT !.status = to])
        /\ UNCHANGED <<skelFile, planFile>>
     \/ /\ Goto(w, "engine")
        /\ IF worker[w].kind = "phase1"
           THEN skelFile' = NoShape /\ UNCHANGED planFile
           ELSE planFile' = NoShape /\ UNCHANGED skelFile
        /\ UNCHANGED <<planVars, faults>>
  /\ UNCHANGED <<session, req, child, treeVars, pastVars, phase, restarts, lost>>

\* engine.phase1 returns: it wrote the skeleton, or extracted none.
Phase1Returns(w) ==
  /\ At(w, "phase1", "engine")
  /\ skelFile' \in MaybeShape
  /\ Goto(w, "gate")
  /\ UNCHANGED <<planVars, planFile, session, req, child, treeVars, pastVars, phase, bounds>>

\* What the resumed session takes as the approved shape: the file when it is
\* told of human edits or when the session is lost and restarted from the file,
\* else what it remembers.
Knows(w) ==
  IF worker[w].edited /\ worker[w].attempt = 0 THEN {skelFile} ELSE {session, skelFile}

\* engine.groom returns: the plan follows the shape the session knows.
GroomReturns(w) ==
  /\ At(w, "groom", "engine")
  /\ session' \in Knows(w)
  /\ planFile' \in {session', NoShape}
  /\ Goto(w, "gate")
  /\ UNCHANGED <<planVars, skelFile, req, child, treeVars, pastVars, phase, bounds>>

\* The engine throws: the artifact is deleted again and the plan fails.
EngineThrows(w) ==
  /\ worker[w].kind \in {"phase1", "groom"} /\ worker[w].pc = "engine"
  /\ Exit(w, Failed)
  /\ IF worker[w].kind = "phase1"
     THEN skelFile' = NoShape /\ UNCHANGED <<planFile, session>>
     ELSE planFile' = NoShape /\ session' \in Knows(w) \cup {session} /\ UNCHANGED skelFile
  /\ UNCHANGED <<req, child, treeVars, pastVars, phase, restarts, lost>>

\* The engine returned but recording its spend throws; the artifact stays.
SpendThrows(w) ==
  /\ worker[w].kind \in {"phase1", "groom"} /\ worker[w].pc = "gate"
  /\ Exit(w, Failed)
  /\ UNCHANGED <<fileVars, req, child, treeVars, pastVars, phase, restarts, lost>>

\* Mutant: the bound is not tested.
RegenerateUnbounded(w, p) ==
  /\ Persist(p)
  /\ worker' = [worker EXCEPT ![w].pc = "check", ![w].attempt = @ + 1]
  /\ regens' = [regens EXCEPT ![worker[w].kind] = @ + 1]

\* The gate failed with a complaint and attempts are left: save and loop.
Regenerate(w, p) ==
  /\ worker[w].attempt < MaxRegen
  /\ \/ /\ Persist(p)
        /\ worker' = [worker EXCEPT ![w].pc = "check", ![w].attempt = @ + 1]
        /\ regens' = [regens EXCEPT ![worker[w].kind] = @ + 1]
     \/ CaughtThrow(p) /\ Done(w) /\ UNCHANGED regens

Phase1Gated(w) ==
  LET n == worker[w].attempt
      p == [mem EXCEPT !.skel = skelFile, !.regenShape = n]
  IN
  /\ At(w, "phase1", "gate")
  /\ session' = skelFile
  /\ \/ /\ skelFile \in GoodShapes
        /\ Exit(w, [p EXCEPT !.status = "shape_ready", !.skelGate = "ok"])
        /\ UNCHANGED regens
     \/ /\ Exit(w, [p EXCEPT !.status = "failed", !.skelGate = "bad"])
        /\ UNCHANGED regens
     \/ Regenerate(w, [p EXCEPT !.skelGate = "bad", !.regenShape = n + 1])
  /\ UNCHANGED <<skelFile, planFile, req, child, treeVars, approved, createOK, phase,
                 restarts, lost>>

GroomGated(w) ==
  LET n == worker[w].attempt
      p == [mem EXCEPT !.planGate = "bad", !.regenGroom = n]
  IN
  /\ At(w, "groom", "gate")
  /\ \/ /\ planFile # NoShape
        /\ Goto(w, "search")
        /\ UNCHANGED <<planVars, regens, faults>>
     \/ /\ Exit(w, [p EXCEPT !.status = "failed"])
        /\ UNCHANGED regens
     \/ Regenerate(w, [p EXCEPT !.regenGroom = n + 1])
  /\ UNCHANGED <<fileVars, req, child, treeVars, approved, createOK, phase, restarts, lost>>

\* The advisory duplicate search never throws; the plan is then ready.
GroomSearched(w) ==
  /\ At(w, "groom", "search")
  /\ Exit(w, [mem EXCEPT !.status = "plan_ready", !.planGate = "ok",
                         !.regenGroom = worker[w].attempt])
  /\ UNCHANGED <<fileVars, req, child, treeVars, pastVars, phase, restarts, lost>>

----------------------------------------------------------------------------
(***************************************************************************)
(* Tracker workers: runCreateWorker, runVerifyRecoverWorker, runCancelWorker*)
(***************************************************************************)
\* engine.create refuses to run over a record of acknowledged writes.
CreateGuard(w) ==
  /\ At(w, "create", "guard")
  /\ IF planFile # NoShape /\ (rec.state = "absent" \/ CleanEmpty(rec))
     THEN /\ Goto(w, "live")
          /\ child' = [child EXCEPT ![w] = [pc |-> "boot", next |-> 1]]
          /\ UNCHANGED <<planVars, faults>>
     ELSE /\ Exit(w, Failed)
          /\ UNCHANGED child
  /\ UNCHANGED <<fileVars, req, treeVars, pastVars, phase, restarts, lost>>

\* What a SIGKILL leaves of the record: as it was, or cut short while the child
\* was writing it.
KilledRecords(c) ==
  IF child[c].pc \in {"init", "post", "ack", "tail"} THEN {rec, Torn} ELSE {rec}

\* The create timeout kills the child and rejects.
CreateTimeout(w) ==
  /\ At(w, "create", "live")
  /\ child[w].pc \notin {"exit0", "exit1"}
  /\ child[w].pc = "ack" => lost < MaxLost
  /\ lost' = IF child[w].pc = "ack" THEN lost + 1 ELSE lost
  /\ rec' \in KilledRecords(w)
  /\ child' = [child EXCEPT ![w] = NoChild]
  /\ Exit(w, Failed)
  /\ UNCHANGED <<fileVars, req, copies, swept, pastVars, phase, restarts>>

\* The child exited: only a clean exit with a readable record goes on to verify.
CreateExited(w) ==
  /\ At(w, "create", "live")
  /\ child[w].pc \in {"exit0", "exit1"}
  /\ child' = [child EXCEPT ![w] = NoChild]
  /\ IF child[w].pc = "exit0" /\ rec.state = "ok"
     THEN Goto(w, "verify") /\ UNCHANGED <<planVars, faults>>
     ELSE Exit(w, Failed)
  /\ UNCHANGED <<fileVars, req, treeVars, pastVars, phase, restarts, lost>>

\* The verify tool answered, or could not run at all and the engine rejects.
CreateVerified(w) ==
  /\ At(w, "create", "verify")
  /\ \/ \E to \in {"created", "failed"} :
          Exit(w, [mem EXCEPT !.status = to, !.created = "full"])
     \/ Exit(w, Failed)
  /\ UNCHANGED <<fileVars, req, child, treeVars, pastVars, phase, restarts, lost>>

\* Case A: a green read-back promotes.  Case B: never; a readable record (the
\* marker is planted from it) or none, the plan stays failed.
Verified(w) ==
  /\ worker[w].pc = "verify"
  /\ \/ /\ worker[w].kind = "verify"
        /\ \E to \in {"created", "failed"} : Exit(w, [mem EXCEPT !.status = to])
     \/ /\ worker[w].kind = "verifyPartial"
        /\ \/ rec.state = "ok" /\ Exit(w, [Failed EXCEPT !.created = "partial"])
           \/ Exit(w, Failed)
  /\ UNCHANGED <<fileVars, req, child, treeVars, pastVars, phase, restarts, lost>>

\* The cleanup tool moves one recorded issue to a terminal state, or passes over
\* it, without a failure, when the board offers it no matching transition.
Sweep(w) ==
  /\ At(w, "cancel", "sweep")
  /\ rec.state = "ok"
  /\ \E k \in 1..rec.len, to \in {"moved", "skipped"} :
       /\ swept[k] = "open"
       /\ swept' = [swept EXCEPT ![k] = to]
  /\ UNCHANGED <<planVars, fileVars, req, worker, child, rec, copies, pastVars, phase, bounds>>

\* Mutant: the sweep's exit code is not looked at.
CancelDoneAnyway(w) ==
  /\ At(w, "cancel", "sweep")
  /\ Exit(w, [mem EXCEPT !.status = "cancelled"])
  /\ UNCHANGED <<fileVars, req, child, treeVars, pastVars, phase, restarts, lost>>

\* It exits 0 only when no recorded issue failed; any other end fails.
CancelDone(w) ==
  /\ At(w, "cancel", "sweep")
  /\ \/ /\ rec.state = "ok" /\ \A k \in 1..rec.len : swept[k] # "open"
        /\ Exit(w, [mem EXCEPT !.status = "cancelled"])
     \/ Exit(w, Failed)
  /\ UNCHANGED <<fileVars, req, child, treeVars, pastVars, phase, restarts, lost>>

----------------------------------------------------------------------------
(***************************************************************************)
(* The child process: create-tree.mjs --live                               *)
(***************************************************************************)
ChildAt(c, pc) == child[c].pc = pc
ChildGoto(c, pc) == child' = [child EXCEPT ![c].pc = pc]
\* Mutant: the journal is written only once the tree is complete.
WriteRecordAtEnd(n) == rec' = [state |-> "ok", len |-> IF n = TreeSize THEN n ELSE 0]
WriteRecord(n) == rec' = [state |-> "ok", len |-> n]
ChildFrame == UNCHANGED <<planVars, fileVars, req, worker, swept, pastVars, phase, restarts, faults>>

\* Refuse over an existing record, or die on a bad token; else go on to the
\* requests that read the epic and the project.
ChildBoot(c) ==
  /\ ChildAt(c, "boot")
  /\ \/ ChildGoto(c, "exit1")
     \/ /\ rec.state = "absent" \/ CleanEmpty(rec)
        /\ ChildGoto(c, "init")
  /\ UNCHANGED <<rec, copies, lost>>
  /\ ChildFrame

\* One of them fails, or the empty record is journalled before the first POST,
\* over whatever the record has become meanwhile.
ChildInit(c) ==
  /\ ChildAt(c, "init")
  /\ \/ ChildGoto(c, "exit1") /\ UNCHANGED rec
     \/ ChildGoto(c, "post") /\ WriteRecord(0)
  /\ UNCHANGED <<copies, lost>>
  /\ ChildFrame

\* The POST of the next issue commits on the tracker, or fails and the child
\* journals what it has and exits 1.
ChildPost(c) ==
  /\ ChildAt(c, "post")
  /\ \/ /\ copies' = [copies EXCEPT ![child[c].next] = @ + 1]
        /\ ChildGoto(c, "ack")
        /\ UNCHANGED rec
     \/ /\ WriteRecord(child[c].next - 1)
        /\ ChildGoto(c, "exit1")
        /\ UNCHANGED copies
  /\ UNCHANGED lost
  /\ ChildFrame

\* Its response arrives and is journalled, or never arrives.
ChildAck(c) ==
  LET n == child[c].next IN
  /\ ChildAt(c, "ack")
  /\ \/ /\ WriteRecord(n)
        /\ child' = [child EXCEPT ![c] =
             [pc |-> IF n = TreeSize THEN "tail" ELSE "post", next |-> n + 1]]
        /\ UNCHANGED lost
     \/ /\ lost < MaxLost
        /\ lost' = lost + 1
        /\ WriteRecord(n - 1)
        /\ ChildGoto(c, "exit1")
  /\ UNCHANGED copies
  /\ ChildFrame

\* Links and comments, then the final record.
ChildTail(c) ==
  /\ ChildAt(c, "tail")
  /\ WriteRecord(TreeSize)
  /\ ChildGoto(c, "exit0") \/ ChildGoto(c, "exit1")
  /\ UNCHANGED <<copies, lost>>
  /\ ChildFrame

\* An orphan exits with nobody waiting for it.
OrphanExits(c) ==
  /\ child[c].pc \in {"exit0", "exit1"}
  /\ worker[c].kind = "none"
  /\ child' = [child EXCEPT ![c] = NoChild]
  /\ UNCHANGED <<rec, copies, lost>>
  /\ ChildFrame

----------------------------------------------------------------------------
(***************************************************************************)
(* Crash and restart                                                       *)
(***************************************************************************)
\* Mutant: load() takes the file as it is.
ReloadAsSaved == mem' = disk /\ disk' = disk

\* The process dies: memory, handlers and workers are gone.  load() reads the
\* file back and corrects a transient status to failed.
Reload ==
  LET p == IF disk.status \in Transient THEN [disk EXCEPT !.status = "failed"] ELSE disk
  IN mem' = p /\ disk' = p

ChildrenDie ==
  LET acked == {c \in Alive : child[c].pc = "ack"} IN
  /\ lost + Cardinality(acked) <= MaxLost
  /\ lost' = lost + Cardinality(acked)
  /\ child' = [c \in Workers |-> NoChild]
  /\ rec' \in {rec} \cup UNION {KilledRecords(c) : c \in Alive}

\* The process may die between the rename of an edited skeleton and the save of
\* the plan that records it.
Restart ==
  /\ restarts < MaxRestarts
  /\ restarts' = restarts + 1
  /\ Reload
  /\ req' = [r \in Requests |-> NoRequest]
  /\ worker' = [w \in Workers |-> NoWorker]
  /\ \/ ChildrenDie
     \/ OrphansSurvive /\ UNCHANGED <<child, rec, lost>>
  /\ \/ UNCHANGED skelFile
     \/ \E r \in Requests : /\ req[r].op = "approve"
                            /\ req[r].edit \in GoodShapes
                            /\ skelFile' = req[r].edit
  /\ UNCHANGED <<planFile, session, copies, swept, pastVars, phase, faults>>

----------------------------------------------------------------------------
Handler(r) ==
  \/ Arrive(r) \/ Refuse(r)
  \/ ApproveShape(r) \/ Create(r) \/ Reject(r) \/ Retry(r) \/ Cancel(r)

WorkerStep(w) ==
  \/ Check(w) \/ Phase1Returns(w) \/ GroomReturns(w) \/ EngineThrows(w)
  \/ SpendThrows(w) \/ Phase1Gated(w) \/ GroomGated(w) \/ GroomSearched(w)
  \/ CreateGuard(w) \/ CreateTimeout(w) \/ CreateExited(w) \/ CreateVerified(w)
  \/ Verified(w) \/ Sweep(w) \/ CancelDone(w)

ChildStep(c) ==
  \/ ChildBoot(c) \/ ChildInit(c) \/ ChildPost(c)
  \/ ChildAck(c) \/ ChildTail(c) \/ OrphanExits(c)

Next ==
  \/ CreatePlan
  \/ Surface
  \/ \E r \in Requests : Handler(r)
  \/ \E w \in Workers : WorkerStep(w)
  \/ \E c \in Workers : ChildStep(c)
  \/ Restart

Spec == Init /\ [][Next]_vars

\* Engine calls and tool spawns carry timeouts, and the gates' local checker is
\* taken to terminate, so a worker never waits for ever; neither does the child.
\* Nothing obliges a human to click or a crash to happen.
Fairness == \A w \in Workers : WF_vars(WorkerStep(w)) /\ WF_vars(ChildStep(w))

FairSpec == Spec /\ Fairness

----------------------------------------------------------------------------
(***************************************************************************)
(* Type correctness                                                        *)
(***************************************************************************)
\* Every variable keeps its type; in particular the regeneration counters of
\* the record stay within MAX_REGEN_ATTEMPTS.
TypeOK ==
  /\ mem \in Plan
  /\ disk \in Plan
  /\ skelFile \in MaybeShape
  /\ planFile \in MaybeShape
  /\ session \in MaybeShape
  /\ req \in [Requests -> Request]
  /\ worker \in [Workers -> Worker]
  /\ child \in [Workers -> Child]
  /\ rec \in Record
  /\ copies \in [Issues -> Nat]
  /\ swept \in [Issues -> {"open", "moved", "skipped"}]
  /\ approved \in MaybeShape
  /\ createOK \in BOOLEAN
  /\ regens \in [{"phase1", "groom"} -> Nat]
  /\ phase \in Transient \cup {"absent"}
  /\ restarts \in Nat
  /\ faults \in Nat
  /\ lost \in Nat

(***************************************************************************)
(* Safety                                                                  *)
(***************************************************************************)
\* The kind of worker that runs a transient status.
RunsAs(kind) ==
  CASE kind = "phase1" -> "breaking_down"
    [] kind = "groom"  -> "grooming"
    [] kind = "cancel" -> "cancelling"
    [] kind = "none"   -> "none"
    [] OTHER -> "creating"

\* Racing requests never start two workers for one plan: an active worker runs
\* the plan's current status and is the only one (server.mjs: the
\* compare-and-swap of every handler, one last save by every worker).
OneWorker ==
  \A v, w \in Active : v = w /\ mem.status = RunsAs(worker[w].kind)

\* A plan is in a transient status only while a worker is running it, so it
\* never dangles (server.mjs:722-726, state.mjs:34).
TransientHasWorker ==
  mem.status \in Transient => Active # {}

\* The two human gates: grooming starts only after a human approved the shape,
\* and nothing is created or even spawned before a human approved the content.
TwoHumanGates ==
  /\ mem.status \in {"grooming", "plan_ready"} => approved # NoShape
  /\ mem.status = "creating" \/ Alive # {} \/ copies # [k \in Issues |-> 0]
       => approved # NoShape /\ createOK

\* Titles are taken from a skeleton the deterministic gate passed, whatever
\* edits, refused edits and lost races happened on the way.
CreateUsesGatedShape ==
  \A c \in Alive : child[c].pc = "boot" => skelFile \in GoodShapes

\* The journal is write-ahead: while the record can be read, every issue on the
\* tracker is in it, in a request still in flight, or was lost with an unanswered
\* request.  A record torn by a kill proves nothing, and is exempt.
JournalCoversTracker ==
  rec.state # "torn" =>
    \A k \in Issues :
      copies[k] <= (IF k <= rec.len THEN 1 ELSE 0)
                   + Cardinality({c \in Alive : child[c].pc = "ack" /\ child[c].next = k})
                   + lost

\* A retry never re-creates an already-written tree: a second copy of an issue
\* exists only where a response was lost or a crash left a child writing, which
\* may empty the record twice: when it starts it and when its first POST fails.
NoDuplicateTree ==
  \A k \in Issues :
    copies[k] <= 1 + lost + (IF OrphansSurvive THEN 2 * restarts ELSE 0)

\* `created` is only claimed for a complete journalled tree.
CreatedIsComplete ==
  mem.status = "created" => /\ mem.created = "full"
                            /\ rec.len = TreeSize
                            /\ \A k \in Issues : copies[k] >= 1

\* `cancelled` is only claimed when the record is readable and the last sweep
\* failed on no issue on the tracker: each was moved to a terminal state, or
\* passed over because the board offered none, which may leave it open.  Only an
\* issue whose creation was never answered escapes the sweep.
CancelledIsSwept ==
  mem.status = "cancelled" =>
    rec.state = "ok" /\ \A k \in Issues : copies[k] > lost => swept[k] # "open"

\* Regeneration is bounded over the life of the plan: the record counts every
\* regeneration a planning worker made, whatever retries, restarts and throwing
\* writes came between, and never more than MAX_REGEN_ATTEMPTS.
RegenBounded ==
  /\ regens["phase1"] <= mem.regenShape /\ mem.regenShape <= MaxRegen
  /\ regens["groom"] <= mem.regenGroom /\ mem.regenGroom <= MaxRegen

(***************************************************************************)
(* What a step may never do                                                *)
(***************************************************************************)
\* A rejected or cancelled plan is never resurrected.
FinalIsFinal ==
  [][mem.status \in Final => mem'.status = mem.status]_vars

\* A retry resumes at the phase that failed; a failed cancel resumes with a
\* verify-only `creating`.  (Cancel itself also leaves `failed`.)
ResumesFailedPhase ==
  [][mem.status \in Retryable /\ mem'.status \in Transient =>
       \/ mem'.status \in {phase, "cancelling"}
       \/ phase = "cancelling" /\ mem'.status = "creating"]_vars

\* The handle to undo a tree: once the plan has a created marker, the marker is
\* never cleared and the record it names stays readable and whole.  Before that
\* a readable record never loses an acknowledged issue except to a kill that cuts
\* its write short; after such a kill neither the record nor the tracker changes.
HandleSurvives ==
  [][/\ mem.created # "none" =>
          mem'.created # "none" /\ rec.state = "ok" /\ rec' = rec
     /\ \/ rec'.state # "torn" /\ rec'.len >= rec.len
        \/ rec' = Torn /\ \E c \in Alive : child'[c] = NoChild
        \/ rec = Torn /\ UNCHANGED <<rec, copies>>]_vars

(***************************************************************************)
(* Liveness                                                                *)
(***************************************************************************)
\* Every phase ends: a transient status is always left.
PhasesEnd == mem.status \in Transient ~> mem.status \notin Transient

(***************************************************************************)
(* What the documentation promises beyond that                             *)
(***************************************************************************)
\* The human sees exactly what they are approving: the tree's titles are read
\* from the shape approved at gate 1 (README.md:145-147).
TitlesAsApproved ==
  \A c \in Alive : child[c].pc = "boot" => skelFile = approved

\* A groomed plan presented at gate 2 details the shape approved at gate 1: the
\* edit was applied in the first groom call (server.mjs:972-974).
GroomedAsApproved ==
  mem.status = "plan_ready" => planFile = approved

----------------------------------------------------------------------------
(***************************************************************************)
(* The abstract lifecycle this module implements                           *)
(***************************************************************************)
Lifecycle == INSTANCE PlanLifecycle WITH
  stage <- mem.status,
  stalled <- phase,
  shapeOK <- approved # NoShape,
  contentOK <- createOK,
  handle <- mem.created

\* Handlers, workers, crashes and the tracker tool together only make the
\* transitions the service documents (server.mjs:8-26).
ImplementsLifecycle == Lifecycle!Spec
====
