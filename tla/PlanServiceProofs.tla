------------------------- MODULE PlanServiceProofs -------------------------
(***************************************************************************)
(* Theorems about the lifecycle of one plan, for every number of requests  *)
(* and workers, every tree, every bound on crashes and faults.             *)
(***************************************************************************)
EXTENDS PlanService, FiniteSetTheorems, TLAPS

\* A child that is still to write an issue is inside the tree.
ChildrenInTree ==
  \A c \in Workers : child[c].pc \in {"boot", "init", "post", "ack"} => child[c].next \in Issues

TypeInv == TypeOK /\ ChildrenInTree

StoreOK == mem \in Plan /\ disk \in Plan /\ faults \in Nat

----------------------------------------------------------------------------
(***************************************************************************)
(* What the pieces that the actions are built from preserve.               *)
(***************************************************************************)
\* Changing the status keeps a plan a plan.
LEMMA StatusPatch ==
  ASSUME NEW p \in Plan, NEW s \in Status
  PROVE  [p EXCEPT !.status = s] \in Plan
  BY DEF Plan

\* A save stores a plan in memory and in the file, whether it throws or not.
LEMMA StoreTyped ==
  ASSUME TypeOK, NEW p \in Plan,
         Persist(p) \/ PersistThrows(p) \/ CaughtThrow(p)
  PROVE  StoreOK'
<1>1. [p EXCEPT !.status = "failed"] \in Plan
  BY DEF Plan, Status, Retryable
<1> QED
  BY <1>1, BoundsAssumption DEF TypeOK, StoreOK, Persist, PersistThrows, CaughtThrow

\* A started worker takes its attempt from the record, within MAX_REGEN_ATTEMPTS.
LEMMA StartTyped ==
  ASSUME TypeOK, NEW kind \in Kinds, NEW pc \in WorkerPC, NEW edited \in BOOLEAN,
         Start(kind, pc, edited)
  PROVE  worker' \in [Workers -> Worker]
<1> DEFINE n == CASE kind = "phase1" -> mem.regenShape
                  [] kind = "groom"  -> mem.regenGroom
                  [] OTHER -> 0
<1>1. n \in 0..MaxRegen
  BY SizesAssumption DEF TypeOK, Plan
<1> HIDE DEF n
<1>2. PICK w \in Workers :
        worker' = [worker EXCEPT ![w] =
          [kind |-> kind, pc |-> pc, edited |-> edited, attempt |-> n]]
  BY DEF Start, n
<1>3. [kind |-> kind, pc |-> pc, edited |-> edited, attempt |-> n] \in Worker
  BY <1>1 DEF Worker
<1> QED
  BY <1>2, <1>3 DEF TypeOK

\* A transition that dispatches a worker keeps every type it touches.
LEMMA TransitionTyped ==
  ASSUME TypeOK, NEW to \in Transient, NEW kind \in Kinds, NEW pc \in WorkerPC,
         TransitionAndStart(to, kind, pc)
  PROVE  /\ StoreOK'
         /\ worker' \in [Workers -> Worker]
         /\ phase' \in Transient
<1>1. [mem EXCEPT !.status = to] \in Plan
  BY StatusPatch DEF TypeOK, Status
<1>2. StoreOK'
  BY <1>1, StoreTyped DEF TransitionAndStart
<1>3. worker' \in [Workers -> Worker]
  BY StartTyped DEF TransitionAndStart, TypeOK
<1> QED
  BY <1>2, <1>3 DEF TransitionAndStart

\* So does the last save of a worker.
LEMMA ExitTyped ==
  ASSUME TypeOK, NEW w \in Workers, NEW p \in Plan, Exit(w, p)
  PROVE  StoreOK' /\ worker' \in [Workers -> Worker]
<1>1. StoreOK'
  BY StoreTyped DEF Exit
<1>2. NoWorker \in Worker
  BY SizesAssumption DEF NoWorker, Worker, Kinds, WorkerPC
<1> QED
  BY <1>1, <1>2 DEF Exit, Done, TypeOK

\* And a worker's move to its next await.
LEMMA GotoTyped ==
  ASSUME TypeOK, NEW w \in Workers, NEW pc \in WorkerPC, Goto(w, pc)
  PROVE  worker' \in [Workers -> Worker]
  BY DEF Goto, TypeOK, Worker

\* Counting one more leaves a family of counters one.
LEMMA CountUp ==
  ASSUME NEW S, NEW f \in [S -> Nat], NEW k
  PROVE  [f EXCEPT ![k] = @ + 1] \in [S -> Nat]
<1>1. \A x \in S : f[x] \in Nat /\ f[x] + 1 \in Nat
  OBVIOUS
<1> QED
  BY <1>1

\* The failed plan is a plan.
LEMMA FailedTyped ==
  ASSUME TypeOK
  PROVE  Failed \in Plan
  BY StatusPatch DEF Failed, TypeOK, Status, Retryable

\* A response only empties its request's slot.
LEMMA RespondTyped ==
  ASSUME TypeOK, NEW r \in Requests, Respond(r)
  PROVE  req' \in [Requests -> Request]
  BY DEF Respond, TypeOK, NoRequest, Request, Ops, MaybeShape

----------------------------------------------------------------------------
(***************************************************************************)
(* Type correctness: the handlers, the workers, the child and the restart. *)
(***************************************************************************)
\* Nothing a handler does reaches past its own request, the plan, the worker
\* it starts and the skeleton file.
LEMMA HandlerTyped ==
  ASSUME TypeInv, NEW r \in Requests, Handler(r)
  PROVE  TypeInv'
<1> USE DEF TypeInv
<1>1. CASE Arrive(r)
  <2>1. PICK op \in Ops \ {"none"}, edit \in MaybeShape :
          req' = [req EXCEPT ![r] = [op |-> op, edit |-> edit]]
    BY <1>1 DEF Arrive
  <2>2. req' \in [Requests -> Request]
    BY <2>1 DEF TypeOK, Request
  <2> QED
    BY <1>1, <2>2 DEF Arrive, planVars, fileVars, treeVars, pastVars, bounds, TypeOK, ChildrenInTree
<1>2. CASE Refuse(r)
  BY <1>2, RespondTyped DEF Refuse, planVars, fileVars, treeVars, pastVars, bounds, TypeOK, ChildrenInTree
<1>3. CASE ApproveShape(r)
  <2> DEFINE p == EditedPlan(r)
             q == [p EXCEPT !.status = "grooming"]
  <2>1. p \in Plan /\ req[r].edit \in MaybeShape
    BY <1>3 DEF EditedPlan, TypeOK, Plan, Verdict, Request
  <2>2. q \in Plan
    BY <2>1, StatusPatch DEF Status, Transient
  <2>3. skelFile' \in MaybeShape
    BY <1>3, <2>1 DEF ApproveShape, ApproveEdit, TypeOK
  <2>4. StoreOK' /\ approved' \in MaybeShape /\ phase' \in Transient \cup {"absent"}
    <3>1. CASE /\ mem.status = "shape_ready"
               /\ approved' = p.skel
               /\ phase' = "grooming"
               /\ Persist(q) \/ (/\ faults < MaxFaults /\ faults' = faults + 1
                                 /\ mem' = q /\ disk' = IF p = mem THEN disk ELSE p)
      <4>1. StoreOK'
        BY <3>1, <2>1, <2>2, BoundsAssumption DEF StoreOK, Persist, TypeOK
      <4> QED
        BY <3>1, <2>1, <4>1 DEF Plan, Transient
    <3>2. CASE /\ \/ p = mem /\ UNCHANGED <<mem, disk, faults>>
                  \/ Persist(p) \/ PersistThrows(p)
               /\ UNCHANGED <<approved, phase>>
      <4>1. StoreOK'
        BY <3>2, <2>1, StoreTyped DEF StoreOK, TypeOK
      <4> QED
        BY <3>2, <4>1 DEF TypeOK
    <3> QED
      BY <1>3, <3>1, <3>2 DEF ApproveShape
  <2>5. worker' \in [Workers -> Worker]
    BY <1>3, StartTyped DEF ApproveShape, TypeOK, Kinds, WorkerPC
  <2>6. req' \in [Requests -> Request]
    BY <1>3, RespondTyped DEF ApproveShape
  <2> QED
    BY <1>3, <2>3, <2>4, <2>5, <2>6
    DEF ApproveShape, StoreOK, treeVars, TypeOK, ChildrenInTree
<1>4. CASE Create(r)
  BY <1>4, TransitionTyped, RespondTyped
  DEF Create, StoreOK, fileVars, treeVars, TypeOK, ChildrenInTree, Transient, Kinds, WorkerPC
<1>5. CASE Reject(r)
  <2>1. [mem EXCEPT !.status = "rejected"] \in Plan
    BY StatusPatch DEF TypeOK, Status, Final
  <2> QED
    BY <1>5, <2>1, StoreTyped, RespondTyped
    DEF Reject, StoreOK, fileVars, treeVars, pastVars, TypeOK, ChildrenInTree
<1>6. CASE Retry(r)
  <2>1. /\ StoreOK'
        /\ worker' \in [Workers -> Worker]
        /\ phase' \in Transient
    <3>1. CASE RetryVerify
      BY <3>1, TransitionTyped DEF RetryVerify, Transient, Kinds, WorkerPC
    <3>2. CASE RetryBlocked
      <4> DEFINE p == [mem EXCEPT !.status = "creating"]
                 q == [p EXCEPT !.created = "partial"]
      <4>1. p \in Plan /\ q \in Plan
        BY StatusPatch DEF TypeOK, Status, Transient, Plan
      <4>2. \/ Persist(p) \/ Persist(q) \/ PersistThrows(p)
            \/ mem' = q /\ disk' = p /\ faults' = faults + 1
        BY <3>2 DEF RetryBlocked
      <4> HIDE DEF p, q
      <4>3. StoreOK'
        <5>1. CASE Persist(p) \/ Persist(q) \/ PersistThrows(p)
          BY <4>1, <5>1, StoreTyped
        <5>2. CASE mem' = q /\ disk' = p /\ faults' = faults + 1
          BY <4>1, <5>2 DEF StoreOK, TypeOK
        <5> QED
          BY <4>2, <5>1, <5>2
      <4>4. worker' \in [Workers -> Worker]
        BY <3>2, StartTyped DEF RetryBlocked, TypeOK, Kinds, WorkerPC
      <4> QED
        BY <3>2, <4>3, <4>4 DEF RetryBlocked, Transient
    <3>3. CASE RetryLadder
      BY <3>3, TransitionTyped DEF RetryLadder, Transient, Kinds, WorkerPC
    <3> QED
      BY <1>6, <3>1, <3>2, <3>3 DEF Retry
  <2> QED
    BY <1>6, <2>1, RespondTyped
    DEF Retry, StoreOK, fileVars, treeVars, pastVars, TypeOK, ChildrenInTree
<1>7. CASE Cancel(r)
  BY <1>7, TransitionTyped, RespondTyped
  DEF Cancel, StoreOK, fileVars, pastVars, TypeOK, ChildrenInTree, Transient, Kinds, WorkerPC
<1> QED
  BY <1>1, <1>2, <1>3, <1>4, <1>5, <1>6, <1>7 DEF Handler

\* A planning worker touches the plan, its own slot and its phase's artifact.
LEMMA PlanningTyped ==
  ASSUME TypeInv, NEW w \in Workers,
         \/ Check(w) \/ Phase1Returns(w) \/ GroomReturns(w) \/ EngineThrows(w)
         \/ SpendThrows(w) \/ Phase1Gated(w) \/ GroomGated(w) \/ GroomSearched(w)
  PROVE  TypeInv'
<1> USE DEF TypeInv
<1>1. CASE Check(w)
  <2>1. StoreOK' /\ worker' \in [Workers -> Worker]
    <3>1. ASSUME NEW to \in Retryable, Exit(w, [mem EXCEPT !.status = to])
          PROVE  StoreOK' /\ worker' \in [Workers -> Worker]
      BY <3>1, StatusPatch, ExitTyped DEF TypeOK, Status
    <3>2. CASE Goto(w, "engine") /\ UNCHANGED <<planVars, faults>>
      BY <3>2, GotoTyped DEF StoreOK, TypeOK, WorkerPC, planVars
    <3> QED
      BY <1>1, <3>1, <3>2 DEF Check
  <2> QED
    BY <1>1, <2>1 DEF Check, StoreOK, treeVars, pastVars, TypeOK, ChildrenInTree, MaybeShape
<1>2. CASE Phase1Returns(w)
  BY <1>2, GotoTyped
  DEF Phase1Returns, planVars, treeVars, pastVars, bounds, TypeOK, ChildrenInTree, WorkerPC
<1>3. CASE GroomReturns(w)
  <2>1. Knows(w) \subseteq MaybeShape
    BY DEF Knows, TypeOK
  <2> QED
    BY <1>3, <2>1, GotoTyped
    DEF GroomReturns, planVars, treeVars, pastVars, bounds, TypeOK, ChildrenInTree, WorkerPC, MaybeShape
<1>4. CASE EngineThrows(w)
  <2>1. StoreOK' /\ worker' \in [Workers -> Worker]
    BY <1>4, FailedTyped, ExitTyped DEF EngineThrows
  <2>2. Knows(w) \subseteq MaybeShape
    BY DEF Knows, TypeOK
  <2> QED
    BY <1>4, <2>1, <2>2
    DEF EngineThrows, StoreOK, treeVars, pastVars, TypeOK, ChildrenInTree, MaybeShape
<1>5. CASE SpendThrows(w)
  <2>1. StoreOK' /\ worker' \in [Workers -> Worker]
    BY <1>5, FailedTyped, ExitTyped DEF SpendThrows
  <2> QED
    BY <1>5, <2>1 DEF SpendThrows, StoreOK, fileVars, treeVars, pastVars, TypeOK, ChildrenInTree
<1>6. ASSUME NEW p \in Plan, Regenerate(w, p)
      PROVE  /\ StoreOK' /\ worker' \in [Workers -> Worker]
             /\ regens' \in [{"phase1", "groom"} -> Nat]
  <2>1. CASE /\ Persist(p)
             /\ worker' = [worker EXCEPT ![w].pc = "check", ![w].attempt = @ + 1]
             /\ regens' = [regens EXCEPT ![worker[w].kind] = @ + 1]
    <3>1. worker[w].attempt + 1 \in 0..MaxRegen
      BY <1>6, SizesAssumption DEF Regenerate, TypeOK, Worker
    <3>2. worker' \in [Workers -> Worker]
      BY <2>1, <3>1 DEF TypeOK, Worker, WorkerPC
    <3>3. regens' \in [{"phase1", "groom"} -> Nat]
      BY <2>1, CountUp DEF TypeOK
    <3> QED
      BY <2>1, <3>2, <3>3, StoreTyped
  <2>2. CASE CaughtThrow(p) /\ Done(w) /\ UNCHANGED regens
    BY <2>2, ExitTyped DEF Exit, TypeOK
  <2> QED
    BY <1>6, <2>1, <2>2 DEF Regenerate
<1>7. worker[w].attempt \in 0..MaxRegen
  BY DEF TypeOK, Worker
<1>8. CASE Phase1Gated(w)
  <2> DEFINE n == worker[w].attempt
             p == [mem EXCEPT !.skel = skelFile, !.regenShape = n]
             ready == [p EXCEPT !.status = "shape_ready", !.skelGate = "ok"]
             fails == [p EXCEPT !.status = "failed", !.skelGate = "bad"]
             again == [p EXCEPT !.skelGate = "bad", !.regenShape = n + 1]
  <2>1. ready \in Plan /\ fails \in Plan /\ (n < MaxRegen => again \in Plan)
    <3>1. n \in 0..MaxRegen /\ (n < MaxRegen => n + 1 \in 0..MaxRegen)
      BY <1>7, SizesAssumption
    <3> HIDE DEF n
    <3>2. p \in Plan
      BY <3>1 DEF TypeOK, Plan
    <3> HIDE DEF p
    <3> QED
      BY <3>1, <3>2 DEF Plan, Status, Rejectable, Retryable, Verdict
  <2>2. \/ (Exit(w, ready) \/ Exit(w, fails)) /\ UNCHANGED regens
        \/ Regenerate(w, again)
    BY <1>8 DEF Phase1Gated
  <2>3. Regenerate(w, again) => n < MaxRegen
    BY DEF Regenerate
  <2> HIDE DEF ready, fails, again, n
  <2>4. /\ StoreOK' /\ worker' \in [Workers -> Worker]
        /\ regens' \in [{"phase1", "groom"} -> Nat]
    BY <2>1, <2>2, <2>3, <1>6, ExitTyped DEF TypeOK
  <2> QED
    BY <1>8, <2>4 DEF Phase1Gated, StoreOK, treeVars, TypeOK, ChildrenInTree
<1>9. CASE GroomGated(w)
  <2> DEFINE n == worker[w].attempt
             p == [mem EXCEPT !.planGate = "bad", !.regenGroom = n]
             fails == [p EXCEPT !.status = "failed"]
             again == [p EXCEPT !.regenGroom = n + 1]
  <2>1. fails \in Plan /\ (n < MaxRegen => again \in Plan)
    <3>1. n \in 0..MaxRegen /\ (n < MaxRegen => n + 1 \in 0..MaxRegen)
      BY <1>7, SizesAssumption
    <3> HIDE DEF n
    <3>2. p \in Plan
      BY <3>1 DEF TypeOK, Plan, Verdict
    <3> HIDE DEF p
    <3> QED
      BY <3>1, <3>2 DEF Plan, Status, Retryable
  <2>2. \/ Goto(w, "search") /\ UNCHANGED <<planVars, regens, faults>>
        \/ Exit(w, fails) /\ UNCHANGED regens
        \/ Regenerate(w, again)
    BY <1>9 DEF GroomGated
  <2>3. Regenerate(w, again) => n < MaxRegen
    BY DEF Regenerate
  <2> HIDE DEF fails, again, n
  <2>4. /\ StoreOK' /\ worker' \in [Workers -> Worker]
        /\ regens' \in [{"phase1", "groom"} -> Nat]
    <3>1. CASE Goto(w, "search") /\ UNCHANGED <<planVars, regens, faults>>
      BY <3>1, GotoTyped DEF StoreOK, TypeOK, planVars, WorkerPC
    <3> QED
      BY <2>1, <2>2, <2>3, <3>1, <1>6, ExitTyped DEF TypeOK
  <2> QED
    BY <1>9, <2>4 DEF GroomGated, StoreOK, fileVars, treeVars, TypeOK, ChildrenInTree
<1>10. CASE GroomSearched(w)
  <2> DEFINE ready == [mem EXCEPT !.status = "plan_ready", !.planGate = "ok",
                                  !.regenGroom = worker[w].attempt]
  <2>1. ready \in Plan
    BY <1>7 DEF TypeOK, Plan, Status, Rejectable, Verdict
  <2>2. Exit(w, ready)
    BY <1>10 DEF GroomSearched
  <2> HIDE DEF ready
  <2>3. StoreOK' /\ worker' \in [Workers -> Worker]
    BY <2>1, <2>2, ExitTyped
  <2> QED
    BY <1>10, <2>3 DEF GroomSearched, StoreOK, fileVars, treeVars, pastVars, TypeOK, ChildrenInTree
<1> QED
  BY <1>1, <1>2, <1>3, <1>4, <1>5, <1>8, <1>9, <1>10

\* What a kill leaves of the record is a record.
LEMMA KilledRecordsTyped ==
  ASSUME TypeInv, NEW c \in Workers
  PROVE  KilledRecords(c) \subseteq Record
  BY SizesAssumption DEF KilledRecords, Torn, TypeInv, TypeOK, Record

\* A tracker worker touches the plan, its own slot, and its child and record.
LEMMA TrackerTyped ==
  ASSUME TypeInv, NEW w \in Workers,
         \/ CreateGuard(w) \/ CreateTimeout(w) \/ CreateExited(w)
         \/ CreateVerified(w) \/ Verified(w) \/ Sweep(w) \/ CancelDone(w)
  PROVE  TypeInv'
<1> USE DEF TypeInv
<1>1. ASSUME NEW c \in Workers, child' = [child EXCEPT ![c] = NoChild]
      PROVE  child' \in [Workers -> Child] /\ ChildrenInTree'
  BY <1>1, SizesAssumption DEF TypeOK, NoChild, Child, ChildPC, ChildrenInTree
<1>2. CASE CreateGuard(w)
  <2>1. StoreOK' /\ worker' \in [Workers -> Worker]
    <3>1. CASE Goto(w, "live") /\ UNCHANGED <<planVars, faults>>
      BY <3>1, GotoTyped DEF StoreOK, TypeOK, planVars, WorkerPC
    <3>2. CASE Exit(w, Failed)
      BY <3>2, FailedTyped, ExitTyped
    <3> QED
      BY <1>2, <3>1, <3>2 DEF CreateGuard
  <2>2. child' \in [Workers -> Child] /\ ChildrenInTree'
    <3>1. CASE child' = [child EXCEPT ![w] = [pc |-> "boot", next |-> 1]]
      <4>1. 1 \in Issues /\ 1 \in 1..(TreeSize + 1)
        BY SizesAssumption DEF Issues
      <4>2. [pc |-> "boot", next |-> 1] \in Child
        BY <4>1 DEF Child, ChildPC
      <4> QED
        BY <3>1, <4>1, <4>2 DEF TypeOK, ChildrenInTree
    <3>2. CASE UNCHANGED child
      BY <3>2 DEF TypeOK, ChildrenInTree
    <3> QED
      BY <1>2, <3>1, <3>2 DEF CreateGuard
  <2> QED
    BY <1>2, <2>1, <2>2 DEF CreateGuard, StoreOK, fileVars, treeVars, pastVars, TypeOK
<1>3. CASE CreateTimeout(w)
  <2>1. StoreOK' /\ worker' \in [Workers -> Worker]
    BY <1>3, FailedTyped, ExitTyped DEF CreateTimeout
  <2>2. rec' \in Record
    BY <1>3, KilledRecordsTyped DEF CreateTimeout
  <2>3. lost' \in Nat
    BY <1>3 DEF CreateTimeout, TypeOK
  <2> QED
    BY <1>1, <1>3, <2>1, <2>2, <2>3 DEF CreateTimeout, StoreOK, fileVars, pastVars, TypeOK
<1>4. CASE CreateExited(w)
  <2>1. StoreOK' /\ worker' \in [Workers -> Worker]
    <3>1. CASE Goto(w, "verify") /\ UNCHANGED <<planVars, faults>>
      BY <3>1, GotoTyped DEF StoreOK, TypeOK, planVars, WorkerPC
    <3>2. CASE Exit(w, Failed)
      BY <3>2, FailedTyped, ExitTyped
    <3> QED
      BY <1>4, <3>1, <3>2 DEF CreateExited
  <2> QED
    BY <1>1, <1>4, <2>1 DEF CreateExited, StoreOK, fileVars, treeVars, pastVars, TypeOK
<1>5. CASE CreateVerified(w)
  <2>1. ASSUME NEW to \in {"created", "failed"}
        PROVE  [mem EXCEPT !.status = to, !.created = "full"] \in Plan
    BY DEF TypeOK, Plan, Status, Retryable
  <2>2. StoreOK' /\ worker' \in [Workers -> Worker]
    BY <1>5, <2>1, FailedTyped, ExitTyped DEF CreateVerified
  <2> QED
    BY <1>5, <2>2 DEF CreateVerified, StoreOK, fileVars, treeVars, pastVars, TypeOK, ChildrenInTree
<1>6. CASE Verified(w)
  <2>1. ASSUME NEW to \in {"created", "failed"}
        PROVE  [mem EXCEPT !.status = to] \in Plan
    BY StatusPatch DEF TypeOK, Status, Retryable
  <2>2. [Failed EXCEPT !.created = "partial"] \in Plan
    BY FailedTyped DEF Plan
  <2>3. StoreOK' /\ worker' \in [Workers -> Worker]
    BY <1>6, <2>1, <2>2, FailedTyped, ExitTyped DEF Verified
  <2> QED
    BY <1>6, <2>3 DEF Verified, StoreOK, fileVars, treeVars, pastVars, TypeOK, ChildrenInTree
<1>7. CASE Sweep(w)
  <2>1. swept' \in [Issues -> {"open", "moved", "skipped"}]
    BY <1>7, SizesAssumption DEF Sweep, TypeOK, Record, Issues
  <2> QED
    BY <1>7, <2>1 DEF Sweep, planVars, fileVars, pastVars, bounds, TypeOK, ChildrenInTree
<1>8. CASE CancelDone(w)
  <2>1. [mem EXCEPT !.status = "cancelled"] \in Plan
    BY StatusPatch DEF TypeOK, Status, Final
  <2>2. StoreOK' /\ worker' \in [Workers -> Worker]
    BY <1>8, <2>1, FailedTyped, ExitTyped DEF CancelDone
  <2> QED
    BY <1>8, <2>2 DEF CancelDone, StoreOK, fileVars, treeVars, pastVars, TypeOK, ChildrenInTree
<1> QED
  BY <1>2, <1>3, <1>4, <1>5, <1>6, <1>7, <1>8

\* The child moves through the tree one issue at a time and never past its end.
LEMMA ChildTyped ==
  ASSUME TypeInv, NEW c \in Workers, ChildStep(c)
  PROVE  TypeInv'
<1> USE DEF TypeInv
<1>1. ASSUME NEW pc \in ChildPC,
             \/ pc \notin {"boot", "init", "post", "ack"}
             \/ child[c].next \in Issues,
             ChildGoto(c, pc)
      PROVE  child' \in [Workers -> Child] /\ ChildrenInTree'
  BY <1>1 DEF ChildGoto, TypeOK, Child, ChildrenInTree
<1>2. ASSUME NEW n \in 0..TreeSize, WriteRecord(n)
      PROVE  rec' \in Record
  BY <1>2 DEF WriteRecord, Record
<1>3. CASE ChildBoot(c) \/ ChildInit(c)
  <2>1. child[c].next \in Issues
    BY <1>3 DEF ChildBoot, ChildInit, ChildAt, ChildrenInTree
  <2>2. child' \in [Workers -> Child] /\ ChildrenInTree'
    BY <1>1, <1>3, <2>1 DEF ChildBoot, ChildInit, ChildPC
  <2>3. rec' \in Record
    BY <1>2, <1>3, SizesAssumption DEF ChildBoot, ChildInit, TypeOK
  <2> QED
    BY <1>3, <2>2, <2>3
    DEF ChildBoot, ChildInit, ChildFrame, planVars, fileVars, pastVars, TypeOK
<1>4. CASE ChildPost(c)
  <2>1. child[c].next \in Issues
    BY <1>4 DEF ChildPost, ChildAt, ChildrenInTree
  <2>2. CASE /\ copies' = [copies EXCEPT ![child[c].next] = @ + 1]
             /\ ChildGoto(c, "ack") /\ UNCHANGED rec
    <3>1. child' \in [Workers -> Child] /\ ChildrenInTree'
      BY <2>1, <2>2 DEF ChildGoto, TypeOK, Child, ChildPC, ChildrenInTree
    <3>2. copies' \in [Issues -> Nat]
      BY <2>1, <2>2 DEF TypeOK
    <3> QED
      BY <1>4, <2>2, <3>1, <3>2 DEF ChildPost, ChildFrame, planVars, fileVars, pastVars, TypeOK
  <2>3. CASE WriteRecord(child[c].next - 1) /\ ChildGoto(c, "exit1") /\ UNCHANGED copies
    <3>1. rec' \in Record
      BY <1>2, <2>1, <2>3, SizesAssumption DEF Issues
    <3> QED
      BY <1>1, <1>4, <2>3, <3>1
      DEF ChildPost, ChildFrame, planVars, fileVars, pastVars, TypeOK, ChildPC
  <2> QED
    BY <1>4, <2>2, <2>3 DEF ChildPost
<1>5. CASE ChildAck(c)
  <2> DEFINE n == child[c].next
  <2>1. n \in Issues
    BY <1>5 DEF ChildAck, ChildAt, ChildrenInTree
  <2>2. CASE /\ WriteRecord(n)
             /\ child' = [child EXCEPT ![c] =
                  [pc |-> IF n = TreeSize THEN "tail" ELSE "post", next |-> n + 1]]
             /\ UNCHANGED lost
    <3>1. child' \in [Workers -> Child] /\ ChildrenInTree'
      BY <2>1, <2>2, SizesAssumption DEF TypeOK, Child, ChildPC, ChildrenInTree, Issues
    <3>2. rec' \in Record
      BY <1>2, <2>1, <2>2 DEF Issues
    <3> QED
      BY <1>5, <2>2, <3>1, <3>2 DEF ChildAck, ChildFrame, planVars, fileVars, pastVars, TypeOK
  <2>3. CASE lost' = lost + 1 /\ WriteRecord(n - 1) /\ ChildGoto(c, "exit1")
    <3>1. rec' \in Record
      BY <1>2, <2>1, <2>3, SizesAssumption DEF Issues
    <3> QED
      BY <1>1, <1>5, <2>3, <3>1
      DEF ChildAck, ChildFrame, planVars, fileVars, pastVars, TypeOK, ChildPC
  <2> QED
    BY <1>5, <2>2, <2>3 DEF ChildAck
<1>6. CASE ChildTail(c)
  <2>1. rec' \in Record
    BY <1>2, <1>6, SizesAssumption DEF ChildTail
  <2> QED
    BY <1>1, <1>6, <2>1 DEF ChildTail, ChildFrame, planVars, fileVars, pastVars, TypeOK, ChildPC
<1>7. CASE OrphanExits(c)
  BY <1>7, SizesAssumption
  DEF OrphanExits, ChildFrame, planVars, fileVars, pastVars, TypeOK, ChildrenInTree, NoChild, Child, ChildPC
<1> QED
  BY <1>3, <1>4, <1>5, <1>6, <1>7 DEF ChildStep

\* The file read back is a plan, corrected to failed if it was transient.
LEMMA RestartTyped ==
  ASSUME TypeInv, Restart
  PROVE  TypeInv'
<1> USE DEF TypeInv
<1>1. mem' \in Plan /\ disk' \in Plan
  BY StatusPatch DEF Restart, Reload, TypeOK, Status, Retryable
<1>2. NoRequest \in Request /\ NoWorker \in Worker
  BY SizesAssumption
  DEF NoRequest, Request, Ops, MaybeShape, NoWorker, Worker, Kinds, WorkerPC
<1>3. /\ child' \in [Workers -> Child] /\ ChildrenInTree'
      /\ rec' \in Record
      /\ lost' \in Nat
  <2>1. CASE ChildrenDie
    <3> DEFINE acked == {c \in Alive : child[c].pc = "ack"}
    <3>1. Cardinality(acked) \in Nat
      BY WorkersAssumption, FS_Subset, FS_CardinalityType DEF Alive
    <3>2. lost' = lost + Cardinality(acked)
      BY <2>1 DEF ChildrenDie
    <3>3. NoChild \in Child /\ NoChild.pc = "none"
      BY SizesAssumption DEF NoChild, Child, ChildPC
    <3>4. child' \in [Workers -> Child] /\ ChildrenInTree'
      BY <2>1, <3>3 DEF ChildrenDie, ChildrenInTree
    <3>5. rec' \in Record
      BY <2>1, KilledRecordsTyped DEF ChildrenDie, Alive, TypeOK
    <3> HIDE DEF acked
    <3> QED
      BY <3>1, <3>2, <3>4, <3>5 DEF TypeOK
  <2>2. CASE UNCHANGED <<child, rec, lost>>
    BY <2>2 DEF TypeOK, ChildrenInTree
  <2> QED
    BY <2>1, <2>2 DEF Restart
<1>4. skelFile' \in MaybeShape
  BY ShapesAssumption DEF Restart, TypeOK, MaybeShape
<1> QED
  BY <1>1, <1>2, <1>3, <1>4 DEF Restart, pastVars, TypeOK

\* Type correctness is inductive: no handler, worker, child, crash or failed
\* write leaves the types or lets a child write past the tree.
THEOREM TypeStep == TypeInv /\ [Next]_vars => TypeInv'
<1> SUFFICES ASSUME TypeInv, [Next]_vars PROVE TypeInv'
  OBVIOUS
<1>1. CASE CreatePlan
  BY <1>1, TransitionTyped
  DEF CreatePlan, TypeInv, StoreOK, fileVars, treeVars, pastVars, TypeOK, ChildrenInTree,
      Transient, Kinds, WorkerPC
<1>2. CASE Surface
  BY <1>2, StoreTyped
  DEF Surface, TypeInv, StoreOK, fileVars, treeVars, pastVars, TypeOK, ChildrenInTree
<1>3. CASE \E r \in Requests : Handler(r)
  BY <1>3, HandlerTyped
<1>4. CASE \E w \in Workers : WorkerStep(w)
  BY <1>4, PlanningTyped, TrackerTyped DEF WorkerStep
<1>5. CASE \E c \in Workers : ChildStep(c)
  BY <1>5, ChildTyped
<1>6. CASE Restart
  BY <1>6, RestartTyped
<1>7. CASE UNCHANGED vars
  BY <1>7 DEF vars, TypeInv, TypeOK, ChildrenInTree
<1> QED
  BY <1>1, <1>2, <1>3, <1>4, <1>5, <1>6, <1>7 DEF Next

\* Nothing has happened at boot.
LEMMA TypeInit == Init => TypeInv
<1> SUFFICES ASSUME Init PROVE TypeInv
  OBVIOUS
<1>1. NoPlan \in Plan
  BY SizesAssumption
  DEF NoPlan, Plan, Status, MaybeShape, Verdict
<1>2. NoRequest \in Request /\ NoWorker \in Worker /\ NoChild \in Child /\ NoChild.pc = "none"
  BY SizesAssumption
  DEF NoRequest, Request, Ops, MaybeShape, NoWorker, Worker, Kinds, WorkerPC, NoChild, Child, ChildPC
<1>3. [state |-> "absent", len |-> 0] \in Record
  BY SizesAssumption DEF Record
<1> QED
  BY <1>1, <1>2, <1>3 DEF Init, TypeInv, TypeOK, ChildrenInTree, MaybeShape

\* Every reachable state is well typed, so in particular the regeneration
\* counters of the record never pass MAX_REGEN_ATTEMPTS, whatever retries,
\* crashes and failed writes a plan goes through.
THEOREM TypeCorrect == Spec => []TypeOK
<1>1. TypeInv => TypeOK
  BY DEF TypeInv
<1> QED
  BY TypeInit, TypeStep, <1>1, PTL DEF Spec

----------------------------------------------------------------------------
(***************************************************************************)
(* One worker.  OneWorker is inductive over the well-typed states: only a  *)
(* handler whose compare-and-swap found a non-transient status starts a    *)
(* worker, and a worker's last save is the only one that leaves the        *)
(* transient status it runs.                                               *)
(***************************************************************************)
\* Every kind of worker runs a transient status.
LEMMA RunsTransient ==
  ASSUME NEW kind \in Kinds \ {"none"}
  PROVE  RunsAs(kind) \in Transient
  BY DEF Kinds, RunsAs, Transient

\* Under OneWorker a plan at rest has no worker.
LEMMA Idle ==
  ASSUME TypeOK, OneWorker, mem.status \notin Transient
  PROVE  \A w \in Workers : worker[w].kind = "none"
  BY RunsTransient DEF OneWorker, Active, TypeOK, Worker

\* Starting a worker for the status entered, where there was none.
LEMMA StartsOne ==
  ASSUME TypeOK, \A w \in Workers : worker[w].kind = "none",
         NEW kind \in Kinds, NEW pc, NEW edited, Start(kind, pc, edited),
         mem'.status = RunsAs(kind)
  PROVE  OneWorker'
<1>1. PICK w \in Workers : worker'[w].kind = kind /\ \A v \in Workers \ {w} : worker'[v] = worker[v]
  BY DEF Start, TypeOK
<1>2. Active' \subseteq {w}
  BY <1>1 DEF Active
<1> QED
  BY <1>1, <1>2 DEF OneWorker

\* A transition out of a status at rest leaves exactly the worker it started.
LEMMA TransitionStartsOne ==
  ASSUME TypeOK, OneWorker, mem.status \notin Transient,
         NEW to \in Transient, NEW kind \in Kinds, NEW pc, RunsAs(kind) = to,
         TransitionAndStart(to, kind, pc)
  PROVE  OneWorker'
<1>1. mem'.status = to
  BY DEF TransitionAndStart, Persist, PersistThrows, TypeOK, Plan
<1>2. CASE Start(kind, pc, FALSE)
  BY <1>1, <1>2, Idle, StartsOne
<1>3. CASE UNCHANGED worker
  BY <1>3, Idle DEF OneWorker, Active
<1> QED
  BY <1>2, <1>3 DEF TransitionAndStart

\* A worker that ends was the only one.
LEMMA DoneLeavesNone ==
  ASSUME TypeOK, OneWorker, NEW w \in Workers, worker[w].kind # "none", Done(w)
  PROVE  OneWorker' /\ Active' = {}
  BY DEF OneWorker, Active, Done, NoWorker, TypeOK

\* A worker that goes on keeps its kind, and the plan its status.
LEMMA SameWorkers ==
  ASSUME OneWorker, mem'.status = mem.status,
         \A w \in Workers : worker'[w].kind = worker[w].kind
  PROVE  OneWorker'
  BY DEF OneWorker, Active

\* A move keeps every worker's kind.
LEMMA GotoSame ==
  ASSUME TypeOK, NEW w \in Workers, NEW pc, Goto(w, pc)
  PROVE  \A v \in Workers : worker'[v].kind = worker[v].kind
  BY DEF Goto, TypeOK, Worker

\* A handler starts a worker only after its compare-and-swap found the plan at rest.
LEMMA HandlerOneWorker ==
  ASSUME TypeOK, OneWorker, NEW r \in Requests, Handler(r)
  PROVE  OneWorker'
<1>1. CASE Arrive(r) \/ Refuse(r)
  BY <1>1, SameWorkers DEF Arrive, Refuse, planVars
<1>2. CASE ApproveShape(r)
  <2> DEFINE p == EditedPlan(r)
             q == [p EXCEPT !.status = "grooming"]
  <2>1. p.status = mem.status /\ p \in Plan
    BY <1>2 DEF EditedPlan, TypeOK, Plan, Request, Verdict
  <2>2. q.status = "grooming"
    BY <2>1 DEF Plan
  <2> HIDE DEF p, q
  <2>3. CASE mem.status = "shape_ready" /\ Persist(q) /\ Start("groom", "check", req[r].edit # NoShape)
    <3>1. mem'.status = RunsAs("groom") /\ "groom" \in Kinds
      BY <2>2, <2>3 DEF Persist, RunsAs, Kinds
    <3>2. \A w \in Workers : worker[w].kind = "none"
      BY <2>3, Idle DEF Transient
    <3> QED
      BY <2>3, <3>1, <3>2, StartsOne
  <2>4. CASE mem.status = "shape_ready" /\ UNCHANGED worker
    BY <2>4, Idle DEF OneWorker, Active, Transient
  <2>5. CASE mem' \in {p, mem} /\ UNCHANGED worker
    BY <2>1, <2>5, SameWorkers
  <2> QED
    BY <1>2, <2>3, <2>4, <2>5 DEF ApproveShape, Persist, PersistThrows, p, q
<1>3. CASE Create(r)
  BY <1>3, TransitionStartsOne DEF Create, Transient, Kinds, RunsAs
<1>4. CASE Reject(r)
  BY <1>4, Idle DEF Reject, Rejectable, Transient, OneWorker, Active
<1>5. CASE Retry(r)
  <2>1. mem.status \notin Transient
    BY <1>5 DEF Retry, Retryable, Transient
  <2>2. CASE RetryVerify \/ RetryLadder
    BY <2>1, <2>2, TransitionStartsOne DEF RetryVerify, RetryLadder, Transient, Kinds, RunsAs
  <2>3. CASE RetryBlocked
    <3> DEFINE p == [mem EXCEPT !.status = "creating"]
               q == [p EXCEPT !.created = "partial"]
    <3>1. p.status = "creating" /\ q.status = "creating"
      BY DEF TypeOK, Plan
    <3>2. CASE UNCHANGED worker
      BY <2>1, <3>2, Idle DEF OneWorker, Active
    <3>3. CASE (Persist(p) \/ Persist(q)) /\ Start("verifyPartial", "verify", FALSE)
      <4>1. mem'.status = RunsAs("verifyPartial") /\ "verifyPartial" \in Kinds
        BY <3>1, <3>3 DEF Persist, RunsAs, Kinds
      <4> QED
        BY <2>1, <3>3, <4>1, Idle, StartsOne
    <3> QED
      BY <2>3, <3>2, <3>3 DEF RetryBlocked
  <2> QED
    BY <1>5, <2>2, <2>3 DEF Retry
<1>6. CASE Cancel(r)
  BY <1>6, TransitionStartsOne DEF Cancel, Transient, Kinds, RunsAs
<1> QED
  BY <1>1, <1>2, <1>3, <1>4, <1>5, <1>6 DEF Handler

\* A worker step is a save that ends it, or leaves every worker's kind and the
\* plan's status alone.
LEMMA WorkerEndsOrGoesOn ==
  ASSUME TypeOK, NEW w \in Workers, WorkerStep(w)
  PROVE  \/ worker[w].kind # "none" /\ Done(w)
         \/ /\ mem'.status = mem.status
            /\ \A v \in Workers : worker'[v].kind = worker[v].kind
<1>1. CASE Check(w)
  <2>1. CASE Goto(w, "engine") /\ UNCHANGED planVars
    BY <2>1, GotoSame DEF planVars
  <2> QED
    BY <1>1, <2>1 DEF Check, Exit
<1>2. CASE Phase1Returns(w)
  BY <1>2, GotoSame DEF Phase1Returns, planVars
<1>3. CASE GroomReturns(w)
  BY <1>3, GotoSame DEF GroomReturns, planVars
<1>4. CASE EngineThrows(w) \/ SpendThrows(w)
  BY <1>4 DEF EngineThrows, SpendThrows, Exit
<1>5. ASSUME NEW p, p.status = mem.status, worker[w].kind # "none", Regenerate(w, p)
      PROVE  \/ Done(w)
             \/ /\ mem'.status = mem.status
                /\ \A v \in Workers : worker'[v].kind = worker[v].kind
  BY <1>5 DEF Regenerate, Persist, TypeOK, Worker
<1>6. CASE Phase1Gated(w)
  <2> DEFINE p == [mem EXCEPT !.skel = skelFile, !.regenShape = worker[w].attempt]
             again == [p EXCEPT !.skelGate = "bad", !.regenShape = worker[w].attempt + 1]
  <2>1. again.status = mem.status
    BY DEF TypeOK, Plan
  <2>2. Done(w) \/ Regenerate(w, again)
    BY <1>6 DEF Phase1Gated, Exit
  <2> HIDE DEF again
  <2> QED
    BY <1>5, <1>6, <2>1, <2>2 DEF Phase1Gated, At
<1>7. CASE GroomGated(w)
  <2> DEFINE p == [mem EXCEPT !.planGate = "bad", !.regenGroom = worker[w].attempt]
             again == [p EXCEPT !.regenGroom = worker[w].attempt + 1]
  <2>1. again.status = mem.status
    BY DEF TypeOK, Plan
  <2>2. (Goto(w, "search") /\ UNCHANGED planVars) \/ Done(w) \/ Regenerate(w, again)
    BY <1>7 DEF GroomGated, Exit
  <2> HIDE DEF again
  <2> QED
    BY <1>5, <1>7, <2>1, <2>2, GotoSame DEF GroomGated, At, planVars
<1>8. CASE GroomSearched(w)
  BY <1>8 DEF GroomSearched, At, Exit
<1>9. CASE CreateGuard(w)
  BY <1>9, GotoSame DEF CreateGuard, At, Exit, planVars
<1>10. CASE CreateTimeout(w) \/ CreateVerified(w) \/ CancelDone(w)
  BY <1>10 DEF CreateTimeout, CreateVerified, CancelDone, At, Exit
<1>11. CASE CreateExited(w)
  BY <1>11, GotoSame DEF CreateExited, At, Exit, planVars
<1>12. CASE Verified(w)
  BY <1>12 DEF Verified, Exit
<1>13. CASE Sweep(w)
  BY <1>13 DEF Sweep, planVars
<1> QED
  BY <1>1, <1>2, <1>3, <1>4, <1>6, <1>7, <1>8, <1>9, <1>10, <1>11, <1>12, <1>13 DEF WorkerStep

\* One worker at a time is inductive: a handler dispatches only from a status
\* at rest, and a worker's last save is the only way out of a transient one.
THEOREM OneWorkerStep == TypeOK /\ OneWorker /\ [Next]_vars => OneWorker'
<1> SUFFICES ASSUME TypeOK, OneWorker, [Next]_vars PROVE OneWorker'
  OBVIOUS
<1>1. CASE CreatePlan
  BY <1>1, TransitionStartsOne DEF CreatePlan, Transient, Kinds, RunsAs
<1>2. CASE Surface
  BY <1>2, SameWorkers DEF Surface, Persist
<1>3. CASE \E r \in Requests : Handler(r)
  BY <1>3, HandlerOneWorker
<1>4. CASE \E w \in Workers : WorkerStep(w)
  BY <1>4, WorkerEndsOrGoesOn, DoneLeavesNone, SameWorkers
<1>5. CASE \E c \in Workers : ChildStep(c)
  BY <1>5, SameWorkers
  DEF ChildStep, ChildBoot, ChildInit, ChildPost, ChildAck, ChildTail, OrphanExits, ChildFrame, planVars
<1>6. CASE Restart
  BY <1>6 DEF Restart, OneWorker, Active, NoWorker
<1>7. CASE UNCHANGED vars
  BY <1>7, SameWorkers DEF vars
<1> QED
  BY <1>1, <1>2, <1>3, <1>4, <1>5, <1>6, <1>7 DEF Next

\* There is no worker at boot.
LEMMA OneWorkerInit == Init => OneWorker
  BY DEF Init, OneWorker, Active, NoWorker

\* However many requests race, however many workers could exist, and whatever
\* crashes and fails on the way, a plan never has two workers, and the one it
\* has runs the plan's status: no handler acts on a status it checked before
\* its await.
THEOREM OneWorkerAlways == Spec => []OneWorker
<1>1. TypeInv => TypeOK
  BY DEF TypeInv
<1> QED
  BY TypeInit, TypeStep, OneWorkerInit, OneWorkerStep, <1>1, PTL DEF Spec

----------------------------------------------------------------------------
(***************************************************************************)
(* The two human gates, when the plan file's writes succeed.               *)
(***************************************************************************)
\* Memory and file agree.  A gate verdict of "ok" on the plan means that the
\* artifact it speaks of is the one on file, and stays so: planning never
\* returns to phase 1 behind it.  Everything past a gate, up to what is on the
\* tracker, carries the approval that opened it.
GateInv ==
  /\ mem = disk
  /\ \/ mem.status = "shape_ready"
     \/ \E r \in Requests : req[r].op = "approve"
     \/ approved # NoShape
     => mem.skelGate = "ok"
  /\ mem.skelGate = "ok" =>
       /\ mem.skel \in GoodShapes
       /\ skelFile \in GoodShapes
       /\ mem.status \notin {"absent", "breaking_down"}
       /\ mem.status \in {"shape_ready", "rejected"} \/ approved # NoShape
  /\ mem.status \in {"grooming", "plan_ready"} \/ mem.planGate = "ok" \/ createOK
       => approved # NoShape
  /\ mem.planGate = "ok" => mem.status \in {"plan_ready", "rejected"} \/ createOK
  /\ \/ mem.status = "creating"
     \/ mem.created # "none"
     \/ Alive # {}
     \/ rec.state # "absent"
     \/ copies # [k \in Issues |-> 0]
     => createOK

GateState == TypeInv /\ OneWorker /\ GateInv /\ MaxFaults = 0

\* Without write faults no save throws.
LEMMA NoThrow ==
  ASSUME GateState, NEW p
  PROVE  ~PersistThrows(p) /\ ~CaughtThrow(p)
  BY DEF GateState, TypeInv, TypeOK, PersistThrows, CaughtThrow

\* Without write faults a worker's last save reaches memory and file.
LEMMA ExitSaves ==
  ASSUME GateState, NEW w \in Workers, NEW p, Exit(w, p)
  PROVE  mem' = p /\ disk' = p
  BY NoThrow DEF Exit, Persist

\* And so does a transition.
LEMMA TransitionSaves ==
  ASSUME GateState, NEW to \in Transient, NEW kind, NEW pc, TransitionAndStart(to, kind, pc)
  PROVE  mem' = [mem EXCEPT !.status = to] /\ disk' = mem'
  BY NoThrow DEF TransitionAndStart, Persist

\* The plan's status is the one its worker runs.
LEMMA RunsStatus ==
  ASSUME GateState, NEW w \in Workers, worker[w].kind # "none"
  PROVE  mem.status = RunsAs(worker[w].kind) /\ mem.status \in Transient
  BY RunsTransient DEF GateState, TypeInv, TypeOK, Worker, OneWorker, Active

\* What the gates need of a step beside the plan: no approval request or
\* skeleton appears behind an open gate 1, nothing reaches the tracker or the
\* record without the second approval.
Around ==
  /\ \A r \in Requests : req'[r].op = "approve" => req[r].op = "approve"
  /\ UNCHANGED skelFile \/ mem.skelGate # "ok"
  /\ UNCHANGED approved
  /\ Alive' # {} \/ rec'.state # "absent" \/ copies' # [k \in Issues |-> 0] => createOK'
  /\ mem'.created # "none" => createOK'

\* The tracker's side of Around, where the step leaves it alone.
LEMMA TreeAlone ==
  ASSUME GateInv, UNCHANGED <<child, rec, copies>>, createOK => createOK'
  PROVE  Alive' # {} \/ rec'.state # "absent" \/ copies' # [k \in Issues |-> 0] => createOK'
<1>1. Alive' = Alive
  BY DEF Alive
<1> QED
  BY <1>1 DEF GateInv

\* A save that leaves the verdicts alone and enters a status they allow.
LEMMA StatusChange ==
  ASSUME GateState, Around,
         UNCHANGED createOK \/ (createOK' /\ mem.status = "plan_ready"),
         disk' = mem',
         mem'.skelGate = mem.skelGate,
         mem'.planGate = mem.planGate,
         mem'.skel = mem.skel,
         mem.status # "rejected",
         mem'.status \notin {"absent", "shape_ready", "plan_ready"},
         mem'.status = "breaking_down" => mem.skelGate # "ok",
         mem'.status # "rejected" => mem.status # "shape_ready",
         mem'.status # "rejected" /\ mem.status = "plan_ready" => createOK',
         mem'.status = "grooming" => approved # NoShape,
         mem'.status = "creating" => createOK'
  PROVE  GateInv'
<1> USE DEF GateState, GateInv, Around
<1>1. createOK' => approved # NoShape
  OBVIOUS
<1>2. createOK => createOK'
  BY Zenon
<1>3. \/ mem'.status = "shape_ready"
      \/ \E r \in Requests : req'[r].op = "approve"
      \/ approved' # NoShape
      => mem'.skelGate = "ok"
  OBVIOUS
<1>4. mem'.skelGate = "ok" =>
        /\ mem'.skel \in GoodShapes
        /\ skelFile' \in GoodShapes
        /\ mem'.status \notin {"absent", "breaking_down"}
        /\ mem'.status \in {"shape_ready", "rejected"} \/ approved' # NoShape
  OBVIOUS
<1>5. mem'.status \in {"grooming", "plan_ready"} \/ mem'.planGate = "ok" \/ createOK'
        => approved' # NoShape
  BY <1>1
<1>6. mem'.planGate = "ok" => mem'.status \in {"plan_ready", "rejected"} \/ createOK'
  BY <1>2
<1>7. \/ mem'.status = "creating"
      \/ mem'.created # "none"
      \/ Alive' # {}
      \/ rec'.state # "absent"
      \/ copies' # [k \in Issues |-> 0]
      => createOK'
  OBVIOUS
<1> QED
  BY <1>3, <1>4, <1>5, <1>6, <1>7

\* A step that saves nothing.
LEMMA NoSave ==
  ASSUME GateState, Around, UNCHANGED <<mem, disk, createOK>>
  PROVE  GateInv'
  BY DEF GateState, GateInv, Around

\* A status patch changes nothing but the status.
LEMMA StatusOnly ==
  ASSUME TypeOK, NEW s
  PROVE  LET p == [mem EXCEPT !.status = s] IN
         /\ p.status = s /\ p.created = mem.created
         /\ p.skelGate = mem.skelGate /\ p.planGate = mem.planGate /\ p.skel = mem.skel
  BY DEF TypeOK, Plan

\* No handler moves a plan past a gate without the human's approval.
LEMMA HandlerGates ==
  ASSUME GateState, NEW r \in Requests, Handler(r)
  PROVE  GateInv'
<1> USE DEF GateState
<1>1. Respond(r) => \A q \in Requests : req'[q].op = "approve" => req[q].op = "approve"
  BY DEF Respond, TypeInv, TypeOK, NoRequest
<1>2. CASE Arrive(r)
  <2>1. PICK op \in Ops \ {"none"}, edit \in MaybeShape :
          Legal(op) /\ req' = [req EXCEPT ![r] = [op |-> op, edit |-> edit]]
    BY <1>2 DEF Arrive
  <2>2. (\E q \in Requests : req'[q].op = "approve") => mem.skelGate = "ok"
    BY <2>1 DEF Legal, GateInv, TypeInv, TypeOK
  <2>3. UNCHANGED <<mem, disk, skelFile, approved, createOK, child, rec, copies>>
    BY <1>2 DEF Arrive, planVars, fileVars, treeVars, pastVars
  <2> QED
    BY <2>2, <2>3, TreeAlone DEF GateInv
<1>3. CASE Refuse(r)
  <2>1. UNCHANGED <<mem, disk, skelFile, approved, createOK, child, rec, copies>>
    BY <1>3 DEF Refuse, planVars, fileVars, treeVars, pastVars
  <2>2. Around
    BY <1>1, <1>3, <2>1, TreeAlone DEF Refuse, Around, GateInv
  <2> QED
    BY <2>1, <2>2, NoSave
<1>4. CASE ApproveShape(r)
  <2> DEFINE p == EditedPlan(r)
             q == [p EXCEPT !.status = "grooming"]
  <2>1. mem.skelGate = "ok"
    BY <1>4 DEF ApproveShape, GateInv
  <2>2. /\ p.status = mem.status /\ p.created = mem.created
        /\ p.skelGate = "ok" /\ p.planGate = mem.planGate
        /\ p.skel \in GoodShapes /\ skelFile' \in GoodShapes
    BY <1>4, <2>1 DEF ApproveShape, ApproveEdit, EditedPlan, GateInv, TypeInv, TypeOK, Plan
  <2>3. /\ q.status = "grooming" /\ q.created = p.created
        /\ q.skelGate = p.skelGate /\ q.planGate = p.planGate /\ q.skel = p.skel
    BY DEF EditedPlan, TypeInv, TypeOK, Plan
  <2>4. UNCHANGED <<createOK, child, rec, copies>>
    BY <1>4 DEF ApproveShape, treeVars
  <2>5. \/ mem.status = "shape_ready" /\ approved' = p.skel /\ mem' = q /\ disk' = q
        \/ UNCHANGED approved /\ mem' = p /\ disk' = p
    BY <1>4, NoThrow DEF ApproveShape, Persist, PersistThrows, GateInv, TypeInv, TypeOK
  <2> HIDE DEF p, q
  <2>6. CASE mem.status = "shape_ready" /\ approved' = p.skel /\ mem' = q /\ disk' = q
    <3>1. approved' # NoShape
      BY <2>2, <2>6, ShapesAssumption
    <3> QED
      BY <2>2, <2>3, <2>4, <2>6, <3>1, TreeAlone DEF GateInv
  <2>7. CASE UNCHANGED approved /\ mem' = p /\ disk' = p
    BY <2>1, <2>2, <2>4, <2>7, TreeAlone DEF GateInv
  <2> QED
    BY <2>5, <2>6, <2>7
<1>5. CASE Create(r)
  <2>1. mem' = [mem EXCEPT !.status = "creating"] /\ disk' = mem'
    BY <1>5, TransitionSaves DEF Create, Transient
  <2>2. Around
    BY <1>1, <1>5 DEF Create, Around, fileVars
  <2> QED
    BY <1>5, <2>1, <2>2, StatusOnly, StatusChange DEF Create, TypeInv
<1>6. CASE Reject(r)
  <2>1. mem' = [mem EXCEPT !.status = "rejected"] /\ disk' = mem'
    BY <1>6, NoThrow DEF Reject, Persist
  <2>2. UNCHANGED <<skelFile, approved, createOK, child, rec, copies>>
    BY <1>6 DEF Reject, fileVars, treeVars, pastVars
  <2>3. Around
    BY <1>1, <1>6, <2>1, <2>2, StatusOnly, TreeAlone DEF Reject, Around, GateInv, TypeInv
  <2> QED
    BY <1>6, <2>1, <2>2, <2>3, StatusOnly, StatusChange DEF Reject, Rejectable, TypeInv
<1>7. CASE Retry(r)
  <2>1. UNCHANGED <<skelFile, approved, createOK, child, rec, copies>>
    BY <1>7 DEF Retry, fileVars, treeVars, pastVars
  <2>2. mem.status \in Retryable
    BY <1>7 DEF Retry
  <2>3. ASSUME mem'.created # "none" => createOK
        PROVE  Around
    BY <1>1, <1>7, <2>1, <2>3, TreeAlone DEF Retry, Around
  <2>4. CASE RetryVerify
    <3>1. mem' = [mem EXCEPT !.status = "creating"] /\ disk' = mem' /\ createOK
      BY <2>4, TransitionSaves DEF RetryVerify, Transient, GateInv
    <3> QED
      BY <2>1, <2>2, <2>3, <3>1, StatusOnly, StatusChange DEF Retryable, TypeInv
  <2>5. CASE RetryBlocked
    <3> DEFINE p == [mem EXCEPT !.status = "creating"]
               q == [p EXCEPT !.created = "partial"]
    <3>1. disk' = mem' /\ mem' \in {p, q}
      <4>1. Persist(p) \/ Persist(q) \/ PersistThrows(p) \/ faults < MaxFaults
        BY <2>5 DEF RetryBlocked
      <4>2. ~(faults < MaxFaults)
        BY DEF TypeInv, TypeOK
      <4> HIDE DEF p, q
      <4> QED
        BY <4>1, <4>2 DEF Persist, PersistThrows
    <3>2. createOK
      BY <2>5 DEF RetryBlocked, RecordBlocks, GateInv
    <3>3. /\ mem'.status = "creating"
          /\ mem'.skelGate = mem.skelGate /\ mem'.planGate = mem.planGate /\ mem'.skel = mem.skel
      BY <3>1 DEF TypeInv, TypeOK, Plan
    <3> QED
      BY <2>1, <2>2, <2>3, <3>1, <3>2, <3>3, StatusChange DEF Retryable
  <2>6. CASE RetryLadder
    <3>1. PICK to \in {"breaking_down", "grooming", "creating"} :
            /\ mem' = [mem EXCEPT !.status = to] /\ disk' = mem'
            /\ to = "breaking_down" => skelFile = NoShape \/ mem.skelGate # "ok"
            /\ to # "breaking_down" => mem.skelGate = "ok"
            /\ to = "creating" => mem.planGate = "ok"
      BY <2>6, TransitionSaves DEF RetryLadder, Transient
    <3>2. to = "breaking_down" => mem.skelGate # "ok"
      BY <3>1, ShapesAssumption DEF GateInv
    <3>3. to = "grooming" => approved # NoShape
      BY <2>2, <3>1 DEF GateInv, Retryable
    <3>4. to = "creating" => createOK
      BY <2>2, <3>1 DEF GateInv, Retryable
    <3>5. Around
      BY <2>3, <3>1, StatusOnly DEF GateInv, TypeInv
    <3> QED
      BY <2>1, <2>2, <3>1, <3>2, <3>3, <3>4, <3>5, StatusOnly, StatusChange DEF Retryable, TypeInv
  <2> QED
    BY <1>7, <2>4, <2>5, <2>6 DEF Retry
<1>8. CASE Cancel(r)
  <2>1. mem' = [mem EXCEPT !.status = "cancelling"] /\ disk' = mem'
    BY <1>8, TransitionSaves DEF Cancel, Transient
  <2>2. UNCHANGED <<skelFile, approved, createOK, child, rec, copies>>
    BY <1>8 DEF Cancel, fileVars, treeVars, pastVars
  <2>3. Around
    BY <1>1, <1>8, <2>1, <2>2, StatusOnly, TreeAlone DEF Cancel, Around, GateInv, TypeInv
  <2> QED
    BY <1>8, <2>1, <2>2, <2>3, StatusOnly, StatusChange DEF Cancel, TypeInv
<1> QED
  BY <1>2, <1>3, <1>4, <1>5, <1>6, <1>7, <1>8 DEF Handler

\* No planning worker does: it starts with its artifact deleted and ends with the
\* verdict of its gate on the artifact it produced.
LEMMA PlanningGates ==
  ASSUME GateState, NEW w \in Workers,
         \/ Check(w) \/ Phase1Returns(w) \/ GroomReturns(w) \/ EngineThrows(w)
         \/ SpendThrows(w) \/ Phase1Gated(w) \/ GroomGated(w) \/ GroomSearched(w)
  PROVE  GateInv'
<1> USE DEF GateState
<1>1. /\ UNCHANGED <<approved, createOK, child, rec, copies, req>>
      /\ worker[w].kind \in {"phase1", "groom"}
  BY DEF Check, Phase1Returns, GroomReturns, EngineThrows, SpendThrows, Phase1Gated,
         GroomGated, GroomSearched, treeVars, pastVars, At
<1>2. /\ worker[w].kind = "phase1" => mem.status = "breaking_down"
      /\ worker[w].kind = "groom" => mem.status = "grooming"
  BY <1>1, RunsStatus DEF RunsAs
<1>3. worker[w].kind = "phase1" => mem.skelGate # "ok" /\ approved = NoShape
  BY <1>2 DEF GateInv
<1>4. UNCHANGED skelFile \/ mem.skelGate # "ok"
  BY <1>1, <1>3
  DEF Check, Phase1Returns, GroomReturns, EngineThrows, SpendThrows, Phase1Gated,
      GroomGated, GroomSearched, fileVars, At
<1>5. mem'.created = mem.created => Around
  BY <1>1, <1>4, TreeAlone DEF Around, GateInv
<1>6. ASSUME NEW s \in Retryable, mem' = [mem EXCEPT !.status = s], disk' = mem'
      PROVE  GateInv'
  BY <1>1, <1>2, <1>5, <1>6, StatusOnly, StatusChange DEF TypeInv, Retryable
<1>7. CASE UNCHANGED <<mem, disk>>
  BY <1>1, <1>5, <1>7, NoSave
<1>8. CASE Check(w)
  BY <1>6, <1>7, <1>8, ExitSaves DEF Check, planVars, Retryable
<1>9. CASE Phase1Returns(w) \/ GroomReturns(w)
  BY <1>7, <1>9 DEF Phase1Returns, GroomReturns, planVars
<1>10. CASE EngineThrows(w) \/ SpendThrows(w)
  BY <1>6, <1>10, ExitSaves DEF EngineThrows, SpendThrows, Failed, Retryable
<1>11. CASE Phase1Gated(w)
  <2>1. /\ mem.status = "breaking_down" /\ mem.skelGate # "ok" /\ approved = NoShape
        /\ UNCHANGED skelFile
    BY <1>2, <1>3, <1>11 DEF Phase1Gated, At, fileVars
  <2>2. ~createOK /\ mem.planGate # "ok"
    BY <2>1 DEF GateInv
  <2>3. /\ disk' = mem'
        /\ mem'.planGate = mem.planGate /\ mem'.created = mem.created
        /\ \/ mem'.status = "shape_ready" /\ mem'.skelGate = "ok" /\ skelFile \in GoodShapes
                /\ mem'.skel = skelFile
           \/ mem'.status \in {"failed", "breaking_down"} /\ mem'.skelGate = "bad"
    <3> DEFINE n == worker[w].attempt
               p == [mem EXCEPT !.skel = skelFile, !.regenShape = n]
               ready == [p EXCEPT !.status = "shape_ready", !.skelGate = "ok"]
               fails == [p EXCEPT !.status = "failed", !.skelGate = "bad"]
               again == [p EXCEPT !.skelGate = "bad", !.regenShape = n + 1]
    <3>1. /\ ready.status = "shape_ready" /\ ready.skelGate = "ok" /\ ready.skel = skelFile
          /\ fails.status = "failed" /\ fails.skelGate = "bad"
          /\ again.status = mem.status /\ again.skelGate = "bad"
          /\ \A q \in {ready, fails, again} : q.planGate = mem.planGate /\ q.created = mem.created
      BY DEF TypeInv, TypeOK, Plan
    <3>2. \/ skelFile \in GoodShapes /\ Exit(w, ready)
          \/ Exit(w, fails)
          \/ Persist(again) \/ CaughtThrow(again)
      BY <1>11 DEF Phase1Gated, Regenerate
    <3> HIDE DEF ready, fails, again
    <3>3. /\ disk' = mem'
          /\ (mem' = ready /\ skelFile \in GoodShapes) \/ mem' = fails \/ mem' = again
      BY <3>2, ExitSaves, NoThrow DEF Persist
    <3> QED
      BY <2>1, <3>1, <3>3
  <2>4. Around
    BY <1>5, <2>3
  <2> QED
    BY <1>1, <2>1, <2>2, <2>3, <2>4 DEF GateInv, Around
<1>12. CASE GroomGated(w)
  <2> DEFINE n == worker[w].attempt
             p == [mem EXCEPT !.planGate = "bad", !.regenGroom = n]
             fails == [p EXCEPT !.status = "failed"]
             again == [p EXCEPT !.regenGroom = n + 1]
  <2>1. /\ fails.status = "failed" /\ again.status = mem.status
        /\ \A q \in {fails, again} : /\ q.planGate = "bad" /\ q.created = mem.created
                                     /\ q.skelGate = mem.skelGate /\ q.skel = mem.skel
    BY DEF TypeInv, TypeOK, Plan
  <2>2. \/ UNCHANGED planVars
        \/ Exit(w, fails) \/ Persist(again) \/ CaughtThrow(again)
    BY <1>12 DEF GroomGated, Regenerate
  <2> HIDE DEF fails, again
  <2>3. UNCHANGED <<mem, disk>> \/ (disk' = mem' /\ mem' \in {fails, again})
    BY <2>2, ExitSaves, NoThrow DEF Persist, planVars
  <2>4. mem.status = "grooming" /\ UNCHANGED skelFile
    BY <1>2, <1>12 DEF GroomGated, At, fileVars
  <2>5. CASE disk' = mem' /\ mem' \in {fails, again}
    <3>1. Around
      BY <1>5, <2>1, <2>5
    <3> QED
      BY <1>1, <2>1, <2>4, <2>5, <3>1 DEF GateInv, Around
  <2> QED
    BY <1>7, <2>3, <2>5
<1>13. CASE GroomSearched(w)
  <2> DEFINE ready == [mem EXCEPT !.status = "plan_ready", !.planGate = "ok",
                                  !.regenGroom = worker[w].attempt]
  <2>1. /\ ready.status = "plan_ready" /\ ready.planGate = "ok"
        /\ ready.created = mem.created /\ ready.skelGate = mem.skelGate /\ ready.skel = mem.skel
    BY DEF TypeInv, TypeOK, Plan
  <2>2. Exit(w, ready)
    BY <1>13 DEF GroomSearched
  <2> HIDE DEF ready
  <2>3. mem' = ready /\ disk' = mem'
    BY <2>2, ExitSaves
  <2>4. mem.status = "grooming" /\ UNCHANGED skelFile
    BY <1>2, <1>13 DEF GroomSearched, At, fileVars
  <2>5. Around
    BY <1>5, <2>1, <2>3
  <2> QED
    BY <1>1, <2>1, <2>3, <2>4, <2>5 DEF GateInv, Around
<1> QED
  BY <1>8, <1>9, <1>10, <1>11, <1>12, <1>13

\* Whatever a tracker worker does, the second approval was given.
LEMMA TrackerGates ==
  ASSUME GateState, NEW w \in Workers,
         \/ CreateGuard(w) \/ CreateTimeout(w) \/ CreateExited(w)
         \/ CreateVerified(w) \/ Verified(w) \/ Sweep(w) \/ CancelDone(w)
  PROVE  GateInv'
<1> USE DEF GateState
<1>1. UNCHANGED <<skelFile, approved, createOK, req>>
  BY DEF CreateGuard, CreateTimeout, CreateExited, CreateVerified, Verified, Sweep,
         CancelDone, fileVars, pastVars
<1>2. CASE UNCHANGED <<mem, disk>> /\ createOK
  BY <1>1, <1>2, NoSave DEF Around
<1>3. ASSUME disk' = mem', mem'.status \in {"created", "failed", "cancelled"},
             mem'.skelGate = mem.skelGate, mem'.planGate = mem.planGate, mem'.skel = mem.skel,
             createOK, mem.status \in Transient
      PROVE  GateInv'
  <2>1. Around
    BY <1>1, <1>3 DEF Around
  <2> QED
    BY <1>1, <1>3, <2>1, StatusChange DEF Transient
<1>4. Exit(w, Failed) =>
        /\ disk' = mem' /\ mem'.status = "failed"
        /\ mem'.skelGate = mem.skelGate /\ mem'.planGate = mem.planGate /\ mem'.skel = mem.skel
  BY ExitSaves, StatusOnly DEF Failed, TypeInv
<1>5. worker[w].kind \in {"create", "verify", "verifyPartial"} => mem.status = "creating" /\ createOK
  BY RunsStatus DEF RunsAs, GateInv
<1>6. CASE CreateGuard(w)
  BY <1>2, <1>3, <1>4, <1>5, <1>6 DEF CreateGuard, At, planVars, Transient
<1>7. CASE CreateTimeout(w)
  BY <1>3, <1>4, <1>5, <1>7 DEF CreateTimeout, At, Transient
<1>8. CASE CreateExited(w)
  BY <1>2, <1>3, <1>4, <1>5, <1>8 DEF CreateExited, At, planVars, Transient
<1>9. CASE CreateVerified(w)
  <2>1. ASSUME NEW to \in {"created", "failed"},
               Exit(w, [mem EXCEPT !.status = to, !.created = "full"])
        PROVE  /\ disk' = mem' /\ mem'.status = to
               /\ mem'.skelGate = mem.skelGate /\ mem'.planGate = mem.planGate /\ mem'.skel = mem.skel
    BY <2>1, ExitSaves DEF TypeInv, TypeOK, Plan
  <2> QED
    BY <1>3, <1>4, <1>5, <1>9, <2>1 DEF CreateVerified, At, Transient
<1>10. CASE Verified(w)
  <2>1. ASSUME NEW to \in {"created", "failed"}, Exit(w, [mem EXCEPT !.status = to])
        PROVE  /\ disk' = mem' /\ mem'.status = to
               /\ mem'.skelGate = mem.skelGate /\ mem'.planGate = mem.planGate /\ mem'.skel = mem.skel
    BY <2>1, ExitSaves, StatusOnly DEF TypeInv
  <2>2. ASSUME Exit(w, [Failed EXCEPT !.created = "partial"])
        PROVE  /\ disk' = mem' /\ mem'.status = "failed"
               /\ mem'.skelGate = mem.skelGate /\ mem'.planGate = mem.planGate /\ mem'.skel = mem.skel
    BY <2>2, ExitSaves DEF Failed, TypeInv, TypeOK, Plan
  <2> QED
    BY <1>3, <1>4, <1>5, <1>10, <2>1, <2>2 DEF Verified, Transient
<1>11. At(w, "cancel", "sweep") => mem.status = "cancelling"
  BY RunsStatus DEF RunsAs, At
<1>12. CASE Sweep(w)
  <2>1. UNCHANGED <<mem, disk, child, rec, copies>>
    BY <1>12 DEF Sweep, planVars
  <2> QED
    BY <1>1, <2>1, TreeAlone, NoSave DEF Around, GateInv
<1>13. CASE CancelDone(w)
  <2>1. \E to \in {"cancelled", "failed"} : mem' = [mem EXCEPT !.status = to] /\ disk' = mem'
    BY <1>13, ExitSaves DEF CancelDone, Failed
  <2>2. UNCHANGED <<child, rec, copies>>
    BY <1>13 DEF CancelDone, treeVars
  <2>3. Around
    BY <1>1, <2>1, <2>2, TreeAlone, StatusOnly DEF Around, GateInv, TypeInv
  <2> QED
    BY <1>1, <1>11, <1>13, <2>1, <2>3, StatusOnly, StatusChange DEF CancelDone, TypeInv
<1> QED
  BY <1>6, <1>7, <1>8, <1>9, <1>10, <1>12, <1>13

\* The child writes only for a creation that was approved.
LEMMA ChildGates ==
  ASSUME GateState, NEW c \in Workers, ChildStep(c)
  PROVE  GateInv'
<1>1. child[c].pc # "none"
  BY DEF ChildStep, ChildBoot, ChildInit, ChildPost, ChildAck, ChildTail, OrphanExits, ChildAt
<1>2. createOK
  BY <1>1 DEF Alive, GateState, GateInv
<1>3. UNCHANGED <<mem, disk, skelFile, approved, createOK, req>>
  BY DEF ChildStep, ChildBoot, ChildInit, ChildPost, ChildAck, ChildTail, OrphanExits, ChildFrame,
         planVars, fileVars, pastVars
<1> QED
  BY <1>2, <1>3, NoSave DEF Around

\* A crash forgets requests and workers, never an approval already acted on.
LEMMA RestartGates ==
  ASSUME GateState, Restart
  PROVE  GateInv'
<1> USE DEF GateState
<1>1. /\ UNCHANGED <<approved, createOK, copies>>
      /\ \A r \in Requests : req'[r].op # "approve"
  BY DEF Restart, pastVars, NoRequest
<1>2. \/ UNCHANGED skelFile
      \/ skelFile' \in GoodShapes
  BY DEF Restart
<1>3. Alive' # {} \/ rec'.state # "absent" \/ copies' # [k \in Issues |-> 0] => createOK
  <2>1. CASE ChildrenDie
    BY <1>1, <2>1 DEF ChildrenDie, Alive, NoChild, GateInv
  <2>2. CASE UNCHANGED <<child, rec, lost>>
    BY <1>1, <2>2, TreeAlone
  <2> QED
    BY <2>1, <2>2 DEF Restart
<1>4. /\ disk' = mem'
      /\ mem'.status = IF mem.status \in Transient THEN "failed" ELSE mem.status
      /\ mem'.skelGate = mem.skelGate /\ mem'.planGate = mem.planGate
      /\ mem'.skel = mem.skel /\ mem'.created = mem.created
  BY StatusOnly DEF Restart, Reload, GateInv, TypeInv
<1> QED
  BY <1>1, <1>2, <1>3, <1>4 DEF GateInv, Transient

\* The gate invariant is inductive: the verdicts on the record, the artifacts in
\* the run directory and the approvals given stay in step.
THEOREM GateStep == GateState /\ [Next]_vars => GateInv'
<1> SUFFICES ASSUME GateState, [Next]_vars PROVE GateInv'
  OBVIOUS
<1>1. CASE CreatePlan
  <2>1. mem' = [mem EXCEPT !.status = "breaking_down"] /\ disk' = mem'
    BY <1>1, TransitionSaves DEF CreatePlan, Transient
  <2>2. UNCHANGED <<skelFile, approved, createOK, child, rec, copies, req>>
    BY <1>1 DEF CreatePlan, fileVars, treeVars, pastVars
  <2>3. Around
    BY <2>1, <2>2, TreeAlone, StatusOnly DEF Around, GateState, GateInv, TypeInv
  <2> QED
    BY <1>1, <2>1, <2>2, <2>3, StatusOnly, StatusChange DEF CreatePlan, GateState, GateInv, TypeInv
<1>2. CASE Surface
  <2>1. UNCHANGED <<mem, disk, skelFile, approved, createOK, child, rec, copies, req>>
    BY <1>2 DEF Surface, Persist, fileVars, treeVars, pastVars, GateState, GateInv
  <2> QED
    BY <2>1, TreeAlone, NoSave DEF Around, GateState, GateInv
<1>3. CASE \E r \in Requests : Handler(r)
  BY <1>3, HandlerGates
<1>4. CASE \E w \in Workers : WorkerStep(w)
  BY <1>4, PlanningGates, TrackerGates DEF WorkerStep
<1>5. CASE \E c \in Workers : ChildStep(c)
  BY <1>5, ChildGates
<1>6. CASE Restart
  BY <1>6, RestartGates
<1>7. CASE UNCHANGED vars
  <2>1. UNCHANGED <<mem, disk, skelFile, approved, createOK, child, rec, copies, req>>
    BY <1>7 DEF vars
  <2> QED
    BY <2>1, TreeAlone, NoSave DEF Around, GateState, GateInv
<1> QED
  BY <1>1, <1>2, <1>3, <1>4, <1>5, <1>6, <1>7 DEF Next

\* Nothing is approved and nothing written at boot.
LEMMA GateInit == Init => GateInv
  BY DEF Init, GateInv, NoPlan, NoRequest, Alive, NoChild

\* Therefore it always holds.
LEMMA GateAlways ==
  ASSUME MaxFaults = 0
  PROVE  Spec => [](TypeInv /\ OneWorker /\ GateInv)
<1>1. Init => TypeInv /\ OneWorker /\ GateInv
  BY TypeInit, OneWorkerInit, GateInit
<1>2. TypeInv /\ OneWorker /\ GateInv /\ [Next]_vars => (TypeInv /\ OneWorker /\ GateInv)'
  BY TypeStep, OneWorkerStep, GateStep DEF GateState, TypeInv
<1> QED
  BY <1>1, <1>2, PTL DEF Spec

\* As long as the plan file can be written, no order of requests, retries,
\* failures, lost responses, crashes and surviving children brings a plan past
\* a gate that no human opened.
THEOREM TwoHumanGatesAlways ==
  ASSUME MaxFaults = 0
  PROVE  Spec => []TwoHumanGates
<1>1. GateInv => TwoHumanGates
  BY DEF GateInv, TwoHumanGates
<1> QED
  BY GateAlways, <1>1, PTL

\* A rejected or cancelled plan is never resurrected, not even by a restart.
THEOREM FinalForGood ==
  ASSUME MaxFaults = 0
  PROVE  Spec => FinalIsFinal
<1>1. ASSUME GateState, [Next]_vars, mem.status \in Final
      PROVE  mem'.status = mem.status
  <2> USE <1>1 DEF GateState, Final
  <2>1. \A w \in Workers : worker[w].kind = "none"
    BY Idle DEF TypeInv, Transient
  <2>2. CASE CreatePlan
    BY <2>2 DEF CreatePlan
  <2>3. CASE Surface
    BY <2>3 DEF Surface, Persist
  <2>4. ASSUME NEW r \in Requests, Handler(r)
        PROVE  mem'.status = mem.status
    <3>1. CASE Arrive(r) \/ Refuse(r)
      BY <3>1 DEF Arrive, Refuse, planVars
    <3>2. CASE ApproveShape(r)
      <4>1. EditedPlan(r).status = mem.status
        BY DEF EditedPlan, TypeInv, TypeOK, Plan
      <4> QED
        BY <3>2, <4>1 DEF ApproveShape, Persist, PersistThrows
    <3>3. ~Create(r) /\ ~Reject(r) /\ ~Retry(r) /\ ~Cancel(r)
      BY DEF Create, Reject, Retry, Cancel, Rejectable, Retryable
    <3> QED
      BY <2>4, <3>1, <3>2, <3>3 DEF Handler
  <2>5. \A w \in Workers : ~WorkerStep(w)
    BY <2>1 DEF WorkerStep, Check, Phase1Returns, GroomReturns, EngineThrows, SpendThrows,
       Phase1Gated, GroomGated, GroomSearched, CreateGuard, CreateTimeout, CreateExited,
       CreateVerified, Verified, Sweep, CancelDone, At
  <2>6. ASSUME NEW c \in Workers, ChildStep(c)
        PROVE  mem'.status = mem.status
    BY <2>6 DEF ChildStep, ChildBoot, ChildInit, ChildPost, ChildAck, ChildTail, OrphanExits, ChildFrame, planVars
  <2>7. CASE Restart
    BY <2>7 DEF Restart, Reload, Transient, GateInv
  <2>8. CASE UNCHANGED vars
    BY <2>8 DEF vars
  <2> QED
    BY <2>2, <2>3, <2>4, <2>5, <2>6, <2>7, <2>8 DEF Next
<1>2. TypeInv /\ OneWorker /\ GateInv /\ [Next]_vars
        => [mem.status \in Final => mem'.status = mem.status]_vars
  BY <1>1 DEF GateState
<1> QED
  BY GateAlways, <1>2, PTL DEF Spec, FinalIsFinal

----------------------------------------------------------------------------
(***************************************************************************)
(* The bound on regeneration.  Memory and file hold the same counters, even *)
(* when a write throws; a planning worker's attempt is the record's, and    *)
(* the record is never behind the regenerations made.                       *)
(***************************************************************************)
SameCounts(p) == p.regenShape = mem.regenShape /\ p.regenGroom = mem.regenGroom

RegenCounted ==
  /\ SameCounts(disk)
  /\ regens["phase1"] <= mem.regenShape
  /\ regens["groom"] <= mem.regenGroom
  /\ \A w \in Workers :
       /\ worker[w].kind = "phase1" => worker[w].attempt = mem.regenShape
       /\ worker[w].kind = "groom"  => worker[w].attempt = mem.regenGroom

CountsKept == SameCounts(mem') /\ SameCounts(disk') /\ UNCHANGED regens

\* A save of a plan with the record's counters.
LEMMA SaveCounts ==
  ASSUME TypeOK, RegenCounted, NEW p \in Plan, SameCounts(p),
         Persist(p) \/ PersistThrows(p) \/ CaughtThrow(p)
  PROVE  SameCounts(mem') /\ SameCounts(disk')
  BY DEF SameCounts, RegenCounted, Persist, PersistThrows, CaughtThrow, Plan

\* A step that keeps the counters and what the planning workers hold of them.
LEMMA CountsStay ==
  ASSUME RegenCounted, CountsKept,
         \A w \in Workers :
           \/ worker'[w].kind = worker[w].kind /\ worker'[w].attempt = worker[w].attempt
           \/ worker'[w].kind \notin {"phase1", "groom"}
  PROVE  RegenCounted'
  BY DEF RegenCounted, CountsKept, SameCounts

\* A started worker takes its attempt from the record.
LEMMA StartCounted ==
  ASSUME TypeOK, RegenCounted, CountsKept,
         NEW kind \in Kinds, NEW pc, NEW edited, Start(kind, pc, edited)
  PROVE  RegenCounted'
<1> DEFINE n == CASE kind = "phase1" -> mem.regenShape
                  [] kind = "groom"  -> mem.regenGroom
                  [] OTHER -> 0
           new == [kind |-> kind, pc |-> pc, edited |-> edited, attempt |-> n]
<1>1. PICK w \in Workers : worker' = [worker EXCEPT ![w] = new]
  BY DEF Start
<1>2. /\ kind = "phase1" => n = mem.regenShape
      /\ kind = "groom"  => n = mem.regenGroom
  OBVIOUS
<1>3. new.kind = kind /\ new.attempt = n
  OBVIOUS
<1> HIDE DEF n, new
<1>4. \A v \in Workers : worker'[v] = IF v = w THEN new ELSE worker[v]
  BY <1>1 DEF TypeOK
<1> QED
  BY <1>2, <1>3, <1>4 DEF RegenCounted, CountsKept, SameCounts

\* So does one that a transition starts.
LEMMA TransitionCounted ==
  ASSUME TypeOK, RegenCounted, UNCHANGED regens,
         NEW to \in Transient, NEW kind \in Kinds, NEW pc, TransitionAndStart(to, kind, pc)
  PROVE  RegenCounted'
<1>1. [mem EXCEPT !.status = to] \in Plan /\ SameCounts([mem EXCEPT !.status = to])
  BY StatusPatch DEF TypeOK, Status, SameCounts, Plan
<1>2. CountsKept
  BY <1>1, SaveCounts DEF TransitionAndStart, CountsKept
<1>3. CASE UNCHANGED worker
  BY <1>2, <1>3, CountsStay
<1> QED
  BY <1>2, <1>3, StartCounted DEF TransitionAndStart

\* No handler touches the counters.
LEMMA HandlerCounted ==
  ASSUME TypeOK, RegenCounted, NEW r \in Requests, Handler(r)
  PROVE  RegenCounted'
<1>1. UNCHANGED regens
  BY DEF Handler, Arrive, Refuse, ApproveShape, Create, Reject, Retry, Cancel, pastVars
<1>2. CASE Arrive(r) \/ Refuse(r)
  BY <1>1, <1>2, CountsStay DEF Arrive, Refuse, planVars, CountsKept, SameCounts, RegenCounted
<1>3. CASE ApproveShape(r)
  <2> DEFINE p == EditedPlan(r)
             q == [p EXCEPT !.status = "grooming"]
  <2>1. p \in Plan /\ SameCounts(p)
    BY <1>3 DEF EditedPlan, TypeOK, Plan, Verdict, Request, SameCounts
  <2>2. q \in Plan /\ SameCounts(q)
    BY <2>1, StatusPatch DEF Status, Transient, SameCounts, Plan
  <2>3. \/ Start("groom", "check", req[r].edit # NoShape)
        \/ UNCHANGED worker
    BY <1>3 DEF ApproveShape
  <2>4. \/ Persist(p) \/ Persist(q) \/ PersistThrows(p) \/ UNCHANGED <<mem, disk>>
        \/ mem' = q /\ disk' = IF p = mem THEN disk ELSE p
    BY <1>3 DEF ApproveShape
  <2> HIDE DEF p, q
  <2>5. CountsKept
    BY <1>1, <2>1, <2>2, <2>4, SaveCounts DEF CountsKept, RegenCounted, SameCounts
  <2> QED
    BY <2>3, <2>5, StartCounted, CountsStay DEF Kinds
<1>4. CASE Create(r) \/ Cancel(r)
  BY <1>1, <1>4, TransitionCounted DEF Create, Cancel, Transient, Kinds
<1>5. CASE Reject(r)
  <2>1. [mem EXCEPT !.status = "rejected"] \in Plan
        /\ SameCounts([mem EXCEPT !.status = "rejected"])
    BY StatusPatch DEF TypeOK, Status, Final, SameCounts, Plan
  <2>2. CountsKept
    BY <1>1, <1>5, <2>1, SaveCounts DEF Reject, CountsKept
  <2> QED
    BY <1>5, <2>2, CountsStay DEF Reject
<1>6. CASE Retry(r)
  <2>1. CASE RetryVerify \/ RetryLadder
    BY <1>1, <2>1, TransitionCounted DEF RetryVerify, RetryLadder, Transient, Kinds
  <2>2. CASE RetryBlocked
    <3> DEFINE p == [mem EXCEPT !.status = "creating"]
               q == [p EXCEPT !.created = "partial"]
    <3>1. p \in Plan /\ SameCounts(p) /\ q \in Plan /\ SameCounts(q)
      BY StatusPatch DEF TypeOK, Status, Transient, Plan, SameCounts
    <3>2. \/ Persist(p) \/ Persist(q) \/ PersistThrows(p)
          \/ mem' = q /\ disk' = p
      BY <2>2 DEF RetryBlocked
    <3> HIDE DEF p, q
    <3>3. CountsKept
      BY <1>1, <3>1, <3>2, SaveCounts DEF CountsKept
    <3>4. Start("verifyPartial", "verify", FALSE) \/ UNCHANGED worker
      BY <2>2 DEF RetryBlocked
    <3> QED
      BY <3>3, <3>4, StartCounted, CountsStay DEF Kinds
  <2> QED
    BY <1>6, <2>1, <2>2 DEF Retry
<1> QED
  BY <1>2, <1>3, <1>4, <1>5, <1>6 DEF Handler

\* A worker's exit ends its hold on the counters.
LEMMA ExitCounted ==
  ASSUME TypeOK, RegenCounted, UNCHANGED regens,
         NEW w \in Workers, NEW p \in Plan, SameCounts(p), Exit(w, p)
  PROVE  RegenCounted'
<1>1. CountsKept
  BY SaveCounts DEF Exit, CountsKept
<1>2. \A v \in Workers : worker'[v] = IF v = w THEN NoWorker ELSE worker[v]
  BY DEF Exit, Done, TypeOK
<1> QED
  BY <1>1, <1>2, CountsStay DEF NoWorker

\* A worker that goes on, saving nothing, leaves the counters alone.
LEMMA GotoCounted ==
  ASSUME TypeOK, RegenCounted, UNCHANGED <<mem, disk, regens>>,
         NEW w \in Workers, NEW pc, Goto(w, pc) \/ UNCHANGED worker
  PROVE  RegenCounted'
<1>1. CountsKept
  BY DEF CountsKept, SameCounts, RegenCounted
<1>2. \A v \in Workers : worker'[v].kind = worker[v].kind /\ worker'[v].attempt = worker[v].attempt
  BY DEF Goto, TypeOK, Worker
<1> QED
  BY <1>1, <1>2, CountsStay

\* A regeneration is counted in the record before the worker loops; a save that
\* throws counts one that is not made.
LEMMA RegenerateCounted ==
  ASSUME TypeOK, OneWorker, RegenCounted, NEW w \in Workers, NEW p \in Plan,
         Regenerate(w, p),
         LET n == worker[w].attempt IN
         \/ worker[w].kind = "phase1" /\ p.regenShape = n + 1 /\ p.regenGroom = mem.regenGroom
         \/ worker[w].kind = "groom" /\ p.regenShape = mem.regenShape /\ p.regenGroom = n + 1
  PROVE  RegenCounted'
<1> DEFINE n == worker[w].attempt
<1>1. n \in Nat /\ mem.regenShape \in Nat /\ mem.regenGroom \in Nat
  BY SizesAssumption DEF TypeOK, Worker, Plan
<1>2. regens["phase1"] \in Nat /\ regens["groom"] \in Nat
  BY DEF TypeOK
<1>3. \A v \in Workers \ {w} : worker[v].kind = "none"
  BY DEF OneWorker, Active
<1>4. /\ worker[w].kind = "phase1" => n = mem.regenShape
      /\ worker[w].kind = "groom" => n = mem.regenGroom
  BY DEF RegenCounted
<1>5. CASE /\ Persist(p)
           /\ worker' = [worker EXCEPT ![w].pc = "check", ![w].attempt = @ + 1]
           /\ regens' = [regens EXCEPT ![worker[w].kind] = @ + 1]
  <2>1. /\ worker'[w].kind = worker[w].kind /\ worker'[w].attempt = n + 1
        /\ \A v \in Workers \ {w} : worker'[v] = worker[v]
    BY <1>5 DEF TypeOK, Worker
  <2>2. mem' = p /\ disk' = p
    BY <1>5 DEF Persist
  <2>3. CASE worker[w].kind = "phase1"
    <3>1. regens'["phase1"] = regens["phase1"] + 1 /\ regens'["groom"] = regens["groom"]
      BY <1>5, <2>3 DEF TypeOK
    <3> QED
      BY <1>1, <1>2, <1>3, <1>4, <2>1, <2>2, <2>3, <3>1 DEF RegenCounted, SameCounts
  <2>4. CASE worker[w].kind = "groom"
    <3>1. regens'["groom"] = regens["groom"] + 1 /\ regens'["phase1"] = regens["phase1"]
      BY <1>5, <2>4 DEF TypeOK
    <3> QED
      BY <1>1, <1>2, <1>3, <1>4, <2>1, <2>2, <2>4, <3>1 DEF RegenCounted, SameCounts
  <2> QED
    BY <2>3, <2>4
<1>6. CASE CaughtThrow(p) /\ Done(w) /\ UNCHANGED regens
  <2>1. /\ mem' = disk'
        /\ mem'.regenShape = p.regenShape /\ mem'.regenGroom = p.regenGroom
    BY <1>6 DEF CaughtThrow, Plan
  <2>2. \A v \in Workers : worker'[v].kind = "none"
    BY <1>3, <1>6 DEF Done, NoWorker, TypeOK
  <2> QED
    BY <1>1, <1>2, <1>4, <1>6, <2>1, <2>2 DEF RegenCounted, SameCounts
<1> QED
  BY <1>5, <1>6 DEF Regenerate

\* A planning worker's own saves.
LEMMA WorkerCounted ==
  ASSUME TypeOK, OneWorker, RegenCounted, NEW w \in Workers, WorkerStep(w)
  PROVE  RegenCounted'
<1>1. worker[w].attempt \in Nat /\ mem \in Plan
  BY SizesAssumption DEF TypeOK, Worker
<1>2. ASSUME NEW to \in Status, NEW made \in {"none", "full", "partial"}, UNCHANGED regens,
             \/ Exit(w, [mem EXCEPT !.status = to])
             \/ Exit(w, [mem EXCEPT !.status = to, !.created = made])
      PROVE  RegenCounted'
  <2> DEFINE p == [mem EXCEPT !.status = to]
             q == [mem EXCEPT !.status = to, !.created = made]
  <2>1. p \in Plan /\ SameCounts(p) /\ q \in Plan /\ SameCounts(q)
    BY <1>1 DEF Plan, SameCounts
  <2>2. Exit(w, p) \/ Exit(w, q)
    BY <1>2
  <2> HIDE DEF p, q
  <2> QED
    BY <1>2, <2>1, <2>2, ExitCounted
<1>3. CASE Check(w)
  <2>1. UNCHANGED regens
    BY <1>3 DEF Check, pastVars
  <2>2. CASE Goto(w, "engine") /\ UNCHANGED planVars
    BY <2>1, <2>2, GotoCounted DEF planVars
  <2> QED
    BY <1>2, <1>3, <2>1, <2>2 DEF Check, Status
<1>4. CASE Phase1Returns(w) \/ GroomReturns(w) \/ Sweep(w)
  BY <1>4, GotoCounted DEF Phase1Returns, GroomReturns, Sweep, planVars, pastVars
<1>5. CASE EngineThrows(w) \/ SpendThrows(w)
  BY <1>2, <1>5 DEF EngineThrows, SpendThrows, Failed, Status, Retryable, pastVars
<1>6. CASE Phase1Gated(w)
  <2> DEFINE n == worker[w].attempt
             p == [mem EXCEPT !.skel = skelFile, !.regenShape = n]
             ready == [p EXCEPT !.status = "shape_ready", !.skelGate = "ok"]
             fails == [p EXCEPT !.status = "failed", !.skelGate = "bad"]
             again == [p EXCEPT !.skelGate = "bad", !.regenShape = n + 1]
  <2>1. worker[w].kind = "phase1" /\ n = mem.regenShape
    BY <1>6 DEF Phase1Gated, At, RegenCounted
  <2>2. /\ ready \in Plan /\ SameCounts(ready) /\ fails \in Plan /\ SameCounts(fails)
        /\ again.regenShape = n + 1 /\ again.regenGroom = mem.regenGroom
        /\ n + 1 \in 0..MaxRegen => again \in Plan
    <3>1. p \in Plan /\ SameCounts(p)
      BY <1>1, <2>1 DEF Plan, SameCounts, TypeOK
    <3> HIDE DEF p
    <3> QED
      BY <3>1 DEF Plan, SameCounts, Status, Rejectable, Retryable, Verdict
  <2>3. \/ (Exit(w, ready) \/ Exit(w, fails)) /\ UNCHANGED regens
        \/ Regenerate(w, again)
    BY <1>6 DEF Phase1Gated
  <2>4. Regenerate(w, again) => n + 1 \in 0..MaxRegen
    BY <1>1, SizesAssumption DEF Regenerate
  <2> HIDE DEF ready, fails, again
  <2> QED
    BY <2>1, <2>2, <2>3, <2>4, ExitCounted, RegenerateCounted
<1>7. CASE GroomGated(w)
  <2> DEFINE n == worker[w].attempt
             p == [mem EXCEPT !.planGate = "bad", !.regenGroom = n]
             fails == [p EXCEPT !.status = "failed"]
             again == [p EXCEPT !.regenGroom = n + 1]
  <2>1. worker[w].kind = "groom" /\ n = mem.regenGroom
    BY <1>7 DEF GroomGated, At, RegenCounted
  <2>2. /\ fails \in Plan /\ SameCounts(fails)
        /\ again.regenGroom = n + 1 /\ again.regenShape = mem.regenShape
        /\ n + 1 \in 0..MaxRegen => again \in Plan
    <3>1. p \in Plan /\ SameCounts(p)
      BY <1>1, <2>1 DEF Plan, SameCounts, Verdict
    <3> HIDE DEF p
    <3> QED
      BY <3>1 DEF Plan, SameCounts, Status, Retryable
  <2>3. \/ Goto(w, "search") /\ UNCHANGED <<mem, disk, regens>>
        \/ Exit(w, fails) /\ UNCHANGED regens
        \/ Regenerate(w, again)
    BY <1>7 DEF GroomGated, planVars
  <2>4. Regenerate(w, again) => n + 1 \in 0..MaxRegen
    BY <1>1, SizesAssumption DEF Regenerate
  <2> HIDE DEF fails, again
  <2> QED
    BY <2>1, <2>2, <2>3, <2>4, ExitCounted, RegenerateCounted, GotoCounted
<1>8. CASE GroomSearched(w)
  <2> DEFINE ready == [mem EXCEPT !.status = "plan_ready", !.planGate = "ok",
                                  !.regenGroom = worker[w].attempt]
  <2>1. worker[w].attempt = mem.regenGroom
    BY <1>8 DEF GroomSearched, At, RegenCounted
  <2>2. ready \in Plan /\ SameCounts(ready)
    BY <1>1, <2>1 DEF Plan, SameCounts, Status, Rejectable, Verdict
  <2>3. Exit(w, ready) /\ UNCHANGED regens
    BY <1>8 DEF GroomSearched, pastVars
  <2> HIDE DEF ready
  <2> QED
    BY <2>2, <2>3, ExitCounted
<1>9. CASE CreateGuard(w) \/ CreateTimeout(w) \/ CreateExited(w)
  BY <1>2, <1>9, GotoCounted
  DEF CreateGuard, CreateTimeout, CreateExited, Failed, Status, Retryable, planVars, pastVars
<1>10. CASE CreateVerified(w) \/ CancelDone(w)
  BY <1>2, <1>10 DEF CreateVerified, CancelDone, Failed, Status, Retryable, Final, pastVars
<1>11. CASE Verified(w)
  <2>1. [Failed EXCEPT !.created = "partial"] = [mem EXCEPT !.status = "failed", !.created = "partial"]
    BY <1>1 DEF Failed, Plan
  <2> QED
    BY <1>2, <1>11, <2>1 DEF Verified, Failed, Status, Retryable, pastVars
<1> QED
  BY <1>3, <1>4, <1>5, <1>6, <1>7, <1>8, <1>9, <1>10, <1>11 DEF WorkerStep

\* Over its whole life, through retries, crashes and throwing writes, a plan is
\* regenerated at most MAX_REGEN_ATTEMPTS times in each phase: the record's counter
\* is never behind the regenerations made, and every worker starts from it.
THEOREM RegenBoundedAlways == Spec => []RegenBounded
<1>1. Init => RegenCounted
  BY DEF Init, RegenCounted, SameCounts, NoPlan, NoWorker
<1>2. TypeInv /\ OneWorker /\ RegenCounted /\ [Next]_vars => RegenCounted'
  <2> SUFFICES ASSUME TypeOK, OneWorker, RegenCounted, [Next]_vars PROVE RegenCounted'
    BY DEF TypeInv
  <2>1. CASE CreatePlan
    BY <2>1, TransitionCounted DEF CreatePlan, pastVars, Transient, Kinds
  <2>2. CASE \E r \in Requests : Handler(r)
    BY <2>2, HandlerCounted
  <2>3. CASE \E w \in Workers : WorkerStep(w)
    BY <2>3, WorkerCounted
  <2>4. CASE UNCHANGED <<mem, disk, regens, worker>>
    BY <2>4 DEF RegenCounted, SameCounts
  <2>5. CASE Surface
    BY <2>5, CountsStay
    DEF Surface, Persist, pastVars, CountsKept, SameCounts
  <2>6. CASE Restart
    <3>1. CountsKept
      BY <2>6 DEF Restart, Reload, pastVars, CountsKept, SameCounts, RegenCounted, TypeOK, Plan
    <3> QED
      BY <2>6, <3>1, CountsStay DEF Restart, NoWorker
  <2>7. (\E c \in Workers : ChildStep(c)) \/ UNCHANGED vars => UNCHANGED <<mem, disk, regens, worker>>
    BY DEF ChildStep, ChildBoot, ChildInit, ChildPost, ChildAck, ChildTail, OrphanExits,
           ChildFrame, planVars, pastVars, vars
  <2> QED
    BY <2>1, <2>2, <2>3, <2>4, <2>5, <2>6, <2>7 DEF Next
<1>3. TypeInv /\ RegenCounted => RegenBounded
  BY DEF TypeInv, TypeOK, Plan, RegenCounted, RegenBounded
<1>4. TypeInv => TypeOK
  BY DEF TypeInv
<1> QED
  BY TypeInit, TypeStep, OneWorkerInit, OneWorkerStep, <1>1, <1>2, <1>3, <1>4, PTL DEF Spec

----------------------------------------------------------------------------
(***************************************************************************)
(* The shape gate under failing writes.  A throwing write may lose a       *)
(* status, never a verdict: the gate's verdict is saved by a worker whose  *)
(* catch saves again.  And once the shape passed, phase 1 is over for good, *)
(* so the skeleton on file stays one that passed.                          *)
(***************************************************************************)
Passed == mem.skelGate = "ok"

VerdictKept ==
  /\ disk.skelGate = mem.skelGate
  /\ \A p \in {mem, disk} :
       /\ p.status \in {"shape_ready", "plan_ready"} => p.skelGate = "ok"
       /\ p.status = "absent" => p.skelGate # "ok"

\* Phase 1 runs before the verdict, grooming and creation after it.
KindsMatch ==
  \A w \in Workers : /\ worker[w].kind = "phase1" => ~Passed
                     /\ worker[w].kind \in {"groom", "create"} => Passed

ShapeInv ==
  /\ VerdictKept
  /\ KindsMatch
  /\ Passed => skelFile \in GoodShapes
  /\ \A r \in Requests : req[r].op = "approve" => Passed
  /\ \A c \in Workers : child[c].pc = "boot" => Passed

\* How a worker's slot changes.
Moves(w) ==
  \/ UNCHANGED worker
  \/ Done(w)
  \/ \E pc \in WorkerPC \ {"check"} : Goto(w, pc)
  \/ worker' = [worker EXCEPT ![w].pc = "check", ![w].attempt = @ + 1]

\* What a worker step does to its slot.
LEMMA WorkerMoves ==
  ASSUME NEW w \in Workers, WorkerStep(w)
  PROVE  Moves(w)
  BY DEF WorkerStep, Moves, WorkerPC, Check, Phase1Returns, GroomReturns, EngineThrows,
         SpendThrows, Phase1Gated, GroomGated, GroomSearched, CreateGuard, CreateTimeout,
         CreateExited, CreateVerified, Verified, Sweep, CancelDone, At, Exit, Regenerate

ShapeState == TypeOK /\ OneWorker /\ ShapeInv

\* Any save of a plan with the verdict of before, whether it throws or not.
LEMMA SaveKeepsVerdict ==
  ASSUME ShapeState, NEW p \in Plan, p.skelGate = mem.skelGate,
         p.status = "absent" => ~Passed,
         p.status \in {"shape_ready", "plan_ready"} => Passed,
         Persist(p) \/ PersistThrows(p) \/ CaughtThrow(p)
  PROVE  VerdictKept' /\ UNCHANGED Passed
<1>1. CASE CaughtThrow(p)
  <2>1. /\ [p EXCEPT !.status = "failed"].status = "failed"
        /\ [p EXCEPT !.status = "failed"].skelGate = p.skelGate
    BY DEF Plan
  <2> QED
    BY <1>1, <2>1 DEF CaughtThrow, VerdictKept, Passed
<1>2. CASE Persist(p) \/ PersistThrows(p)
  BY <1>2 DEF Persist, PersistThrows, ShapeState, ShapeInv, VerdictKept, Passed
<1> QED
  BY <1>1, <1>2

\* So a status patch that enters no gate keeps the verdict.
LEMMA PatchKeepsVerdict ==
  ASSUME ShapeState, NEW s \in Transient \cup Retryable \cup Final \cup {"created"},
         LET p == [mem EXCEPT !.status = s] IN Persist(p) \/ PersistThrows(p) \/ CaughtThrow(p)
  PROVE  VerdictKept' /\ UNCHANGED Passed
<1> DEFINE p == [mem EXCEPT !.status = s]
<1>1. p \in Plan /\ p.status = s /\ p.skelGate = mem.skelGate
  BY StatusOnly, StatusPatch DEF ShapeState, TypeOK, Status
<1>2. s \notin {"absent", "shape_ready", "plan_ready"}
  BY DEF Transient, Retryable, Final
<1> HIDE DEF p
<1>3. Persist(p) \/ PersistThrows(p) \/ CaughtThrow(p)
  BY DEF p
<1> QED
  BY <1>1, <1>2, <1>3, SaveKeepsVerdict

\* A started worker is of a kind that its verdict allows.
LEMMA StartMatches ==
  ASSUME ShapeState, UNCHANGED Passed, NEW kind, NEW pc, NEW edited, Start(kind, pc, edited),
         kind = "phase1" => ~Passed,
         kind \in {"groom", "create"} => Passed
  PROVE  KindsMatch'
<1>1. PICK w \in Workers : worker'[w].kind = kind /\ \A v \in Workers \ {w} : worker'[v] = worker[v]
  BY DEF Start, ShapeState, TypeOK
<1> QED
  BY <1>1 DEF ShapeState, ShapeInv, KindsMatch

\* So is one that a transition dispatches.
LEMMA TransitionMatches ==
  ASSUME ShapeState, NEW to \in Transient, NEW kind, NEW pc, TransitionAndStart(to, kind, pc),
         kind = "phase1" => ~Passed,
         kind \in {"groom", "create"} => Passed
  PROVE  VerdictKept' /\ UNCHANGED Passed /\ KindsMatch'
<1>1. VerdictKept' /\ UNCHANGED Passed
  BY PatchKeepsVerdict DEF TransitionAndStart
<1>2. CASE UNCHANGED worker
  BY <1>1, <1>2 DEF ShapeState, ShapeInv, KindsMatch
<1> QED
  BY <1>1, <1>2, StartMatches DEF TransitionAndStart

\* What is left to see of a step that keeps the verdict.
LEMMA VerdictStays ==
  ASSUME ShapeState, VerdictKept', UNCHANGED Passed, KindsMatch',
         UNCHANGED skelFile \/ ~Passed \/ skelFile' \in GoodShapes,
         \A r \in Requests : req'[r].op = "approve" => Passed,
         \A c \in Workers : child'[c].pc = "boot" => Passed
  PROVE  ShapeInv'
  BY DEF ShapeState, ShapeInv

\* No handler changes the verdict; an edit it puts in place passed the gate.
LEMMA HandlerShape ==
  ASSUME ShapeState, NEW r \in Requests, Handler(r)
  PROVE  ShapeInv'
<1> USE DEF ShapeState
<1>1. Respond(r) => \A q \in Requests : req'[q].op = "approve" => Passed
  BY DEF Respond, TypeOK, NoRequest, ShapeInv
<1>2. UNCHANGED child => \A c \in Workers : child'[c].pc = "boot" => Passed
  BY DEF ShapeInv
<1>3. CASE Arrive(r)
  <2>1. UNCHANGED <<mem, disk, skelFile, worker, child>>
    BY <1>3 DEF Arrive, planVars, fileVars
  <2>2. PICK op \in Ops \ {"none"}, edit \in MaybeShape :
          Legal(op) /\ req' = [req EXCEPT ![r] = [op |-> op, edit |-> edit]]
    BY <1>3 DEF Arrive
  <2>3. op = "approve" => Passed
    BY <2>2 DEF Legal, ShapeInv, VerdictKept, Passed
  <2>4. \A q \in Requests : req'[q].op = "approve" => Passed
    BY <2>2, <2>3 DEF TypeOK, ShapeInv
  <2> QED
    BY <2>1, <2>4 DEF ShapeInv, VerdictKept, KindsMatch, Passed
<1>4. CASE Refuse(r)
  BY <1>1, <1>4 DEF Refuse, planVars, fileVars, ShapeInv, VerdictKept, KindsMatch, Passed
<1>5. CASE ApproveShape(r)
  <2> DEFINE p == EditedPlan(r)
             q == [p EXCEPT !.status = "grooming"]
  <2>1. Passed
    BY <1>5 DEF ApproveShape, ShapeInv
  <2>2. p \in Plan /\ p.status = mem.status /\ p.skelGate = mem.skelGate
    BY <2>1 DEF EditedPlan, TypeOK, Plan, Request, Passed, Verdict
  <2>3. q \in Plan /\ q.status = "grooming" /\ q.skelGate = mem.skelGate
    BY <2>2 DEF Plan, Status, Transient
  <2>4. skelFile' = skelFile \/ skelFile' \in GoodShapes
    BY <1>5 DEF ApproveShape, ApproveEdit
  <2>5. mem.status # "absent" /\ disk.status # "absent"
    BY <2>1 DEF ShapeInv, VerdictKept, Passed
  <2>6. \/ Persist(q)
        \/ mem' = q /\ disk' \in {p, disk}
        \/ UNCHANGED <<mem, disk>>
        \/ Persist(p) \/ PersistThrows(p)
    BY <1>5 DEF ApproveShape
  <2>7. UNCHANGED worker \/ Start("groom", "check", req[r].edit # NoShape)
    BY <1>5 DEF ApproveShape
  <2> HIDE DEF p, q
  <2>8. VerdictKept' /\ UNCHANGED Passed
    <3>1. CASE mem' = q /\ disk' \in {p, disk}
      BY <2>1, <2>2, <2>3, <2>5, <3>1 DEF VerdictKept, Passed, ShapeInv
    <3>2. CASE UNCHANGED <<mem, disk>>
      BY <3>2 DEF VerdictKept, Passed, ShapeInv
    <3>3. CASE Persist(q)
      BY <2>1, <2>3, <3>3, SaveKeepsVerdict
    <3>4. CASE Persist(p) \/ PersistThrows(p)
      BY <2>1, <2>2, <2>5, <3>4, SaveKeepsVerdict
    <3> QED
      BY <2>6, <3>1, <3>2, <3>3, <3>4
  <2>9. KindsMatch'
    <3>1. CASE UNCHANGED worker
      BY <2>8, <3>1 DEF KindsMatch, ShapeInv
    <3> QED
      BY <2>1, <2>7, <2>8, <3>1, StartMatches
  <2> QED
    BY <1>1, <1>2, <1>5, <2>4, <2>8, <2>9, VerdictStays DEF ApproveShape
<1>6. CASE Create(r)
  <2>1. Passed
    BY <1>6 DEF Create, ShapeInv, VerdictKept, Passed
  <2>2. VerdictKept' /\ UNCHANGED Passed /\ KindsMatch'
    BY <1>6, <2>1, TransitionMatches DEF Create, Transient
  <2> QED
    BY <1>1, <1>2, <1>6, <2>2, VerdictStays DEF Create, fileVars
<1>7. CASE Reject(r)
  <2>1. VerdictKept' /\ UNCHANGED Passed
    BY <1>7, PatchKeepsVerdict DEF Reject, Final
  <2>2. KindsMatch'
    BY <1>7, <2>1 DEF Reject, KindsMatch, ShapeInv
  <2> QED
    BY <1>1, <1>2, <1>7, <2>1, <2>2, VerdictStays DEF Reject, fileVars
<1>8. CASE Retry(r)
  <2>1. ASSUME RetryVerify
        PROVE  VerdictKept' /\ UNCHANGED Passed /\ KindsMatch'
    BY <2>1, TransitionMatches DEF RetryVerify, Transient
  <2>2. ASSUME RetryLadder
        PROVE  VerdictKept' /\ UNCHANGED Passed /\ KindsMatch'
    <3>1. skelFile = NoShape \/ mem.skelGate # "ok" <=> ~Passed
      BY ShapesAssumption DEF ShapeInv, Passed
    <3> QED
      BY <2>2, <3>1, TransitionMatches DEF RetryLadder, Transient
  <2>3. ASSUME RetryBlocked
        PROVE  VerdictKept' /\ UNCHANGED Passed /\ KindsMatch'
    <3> DEFINE p == [mem EXCEPT !.status = "creating"]
               q == [p EXCEPT !.created = "partial"]
    <3>1. p \in Plan /\ p.status = "creating" /\ p.skelGate = mem.skelGate
      BY StatusOnly, StatusPatch DEF TypeOK, Status, Transient
    <3>2. q \in Plan /\ q.status = "creating" /\ q.skelGate = mem.skelGate
      BY <3>1 DEF Plan
    <3>3. \/ Persist(p) \/ Persist(q) \/ PersistThrows(p)
          \/ mem' = q /\ disk' = p
      BY <2>3 DEF RetryBlocked
    <3>4. UNCHANGED worker \/ Start("verifyPartial", "verify", FALSE)
      BY <2>3 DEF RetryBlocked
    <3> HIDE DEF p, q
    <3>5. VerdictKept' /\ UNCHANGED Passed
      <4>1. CASE mem' = q /\ disk' = p
        BY <3>1, <3>2, <4>1 DEF VerdictKept, Passed
      <4> QED
        BY <3>1, <3>2, <3>3, <4>1, SaveKeepsVerdict
    <3>6. CASE UNCHANGED worker
      BY <3>5, <3>6 DEF KindsMatch, ShapeInv
    <3>7. CASE Start("verifyPartial", "verify", FALSE)
      BY <3>5, <3>7, StartMatches
    <3> QED
      BY <3>4, <3>5, <3>6, <3>7
  <2> QED
    BY <1>1, <1>2, <1>8, <2>1, <2>2, <2>3, VerdictStays DEF Retry, fileVars
<1>9. CASE Cancel(r)
  <2>1. VerdictKept' /\ UNCHANGED Passed /\ KindsMatch'
    BY <1>9, TransitionMatches DEF Cancel, Transient
  <2> QED
    BY <1>1, <1>2, <1>9, <2>1, VerdictStays DEF Cancel, fileVars
<1> QED
  BY <1>3, <1>4, <1>5, <1>6, <1>7, <1>8, <1>9 DEF Handler

\* A worker that goes on keeps its kind, one that ends leaves its slot empty.
LEMMA MovesSame ==
  ASSUME TypeOK, NEW w \in Workers, Moves(w)
  PROVE  \A v \in Workers : worker'[v].kind \in {worker[v].kind, "none"}
<1> DEFINE Same == \A v \in Workers : worker'[v].kind \in {worker[v].kind, "none"}
<1>1. ASSUME UNCHANGED worker \/ Done(w)
      PROVE  Same
  BY <1>1 DEF Done, NoWorker, TypeOK
<1>2. ASSUME NEW pc \in WorkerPC, Goto(w, pc)
      PROVE  Same
  BY <1>2, GotoSame
<1>3. ASSUME worker' = [worker EXCEPT ![w].pc = "check", ![w].attempt = @ + 1]
      PROVE  Same
  BY <1>3 DEF TypeOK, Worker
<1> HIDE DEF Same
<1>4. Same
  BY <1>1, <1>2, <1>3 DEF Moves
<1> QED
  BY <1>4 DEF Same

\* So no worker appears where its kind does not match.
LEMMA WorkerMatches ==
  ASSUME ShapeState, UNCHANGED Passed, NEW w \in Workers, WorkerStep(w)
  PROVE  KindsMatch'
  BY WorkerMoves, MovesSame DEF ShapeState, ShapeInv, KindsMatch

\* A worker answers no request, and only a create starts a child.
LEMMA WorkerAround ==
  ASSUME ShapeState, NEW w \in Workers, WorkerStep(w)
  PROVE  /\ \A r \in Requests : req'[r].op = "approve" => Passed
         /\ \A c \in Workers : child'[c].pc = "boot" => Passed
<1>1. UNCHANGED req
  BY DEF WorkerStep, Check, Phase1Returns, GroomReturns, EngineThrows, SpendThrows, Phase1Gated,
         GroomGated, GroomSearched, CreateGuard, CreateTimeout, CreateExited, CreateVerified,
         Verified, Sweep, CancelDone
<1>2. \/ UNCHANGED child
      \/ child' = [child EXCEPT ![w] = NoChild]
      \/ /\ At(w, "create", "guard")
         /\ child' = [child EXCEPT ![w] = [pc |-> "boot", next |-> 1]]
  BY DEF WorkerStep, Check, Phase1Returns, GroomReturns, EngineThrows, SpendThrows, Phase1Gated,
         GroomGated, GroomSearched, CreateGuard, CreateTimeout, CreateExited, CreateVerified,
         Verified, Sweep, CancelDone
<1> QED
  BY <1>1, <1>2 DEF ShapeState, ShapeInv, KindsMatch, TypeOK, NoChild, At

\* The gate's verdict: the only step that changes it, when no approval, groom or
\* create exists.
LEMMA VerdictSaved ==
  ASSUME ShapeState, NEW w \in Workers, Phase1Gated(w)
  PROVE  ShapeInv'
<1> USE DEF ShapeState
<1> DEFINE n == worker[w].attempt
           p == [mem EXCEPT !.skel = skelFile, !.regenShape = n]
           ok == [p EXCEPT !.status = "shape_ready", !.skelGate = "ok"]
           bad == [p EXCEPT !.status = "failed", !.skelGate = "bad"]
           again == [p EXCEPT !.skelGate = "bad", !.regenShape = n + 1]
<1>1. ~Passed /\ worker[w].kind = "phase1" /\ UNCHANGED <<skelFile, req, child>>
  BY DEF Phase1Gated, At, ShapeInv, KindsMatch
<1>2. /\ \A r \in Requests : req'[r].op # "approve"
      /\ \A c \in Workers : child'[c].pc # "boot"
  BY <1>1 DEF ShapeInv
<1>3. /\ ok.status = "shape_ready" /\ ok.skelGate = "ok"
      /\ [ok EXCEPT !.status = "failed"].status = "failed"
      /\ [ok EXCEPT !.status = "failed"].skelGate = "ok"
  BY DEF TypeOK, Plan
<1>4. /\ bad.status = "failed" /\ bad.skelGate = "bad"
      /\ [bad EXCEPT !.status = "failed"].status = "failed"
      /\ [bad EXCEPT !.status = "failed"].skelGate = "bad"
  BY DEF TypeOK, Plan
<1>5. /\ again.status = mem.status /\ again.skelGate = "bad"
      /\ [again EXCEPT !.status = "failed"].status = "failed"
      /\ [again EXCEPT !.status = "failed"].skelGate = "bad"
  BY DEF TypeOK, Plan
<1>6. \/ skelFile \in GoodShapes /\ Exit(w, ok)
      \/ Exit(w, bad)
      \/ Regenerate(w, again)
  BY DEF Phase1Gated
<1> HIDE DEF ok, bad, again
<1>7. CASE skelFile \in GoodShapes /\ Exit(w, ok)
  <2>1. Passed' /\ VerdictKept'
    BY <1>3, <1>7 DEF Exit, Persist, CaughtThrow, Passed, VerdictKept
  <2>2. \A v \in Workers : worker'[v].kind = "none"
    BY <1>1, <1>7, DoneLeavesNone DEF Exit, Active
  <2> QED
    BY <1>1, <1>2, <1>7, <2>1, <2>2 DEF ShapeInv, KindsMatch
<1>8. ASSUME ~Passed', VerdictKept'
      PROVE  ShapeInv'
  <2>1. \A v \in Workers : worker'[v].kind \notin {"groom", "create"}
    BY <1>1, WorkerMoves, MovesSame DEF WorkerStep, ShapeInv, KindsMatch
  <2> QED
    BY <1>2, <1>8, <2>1 DEF ShapeInv, KindsMatch
<1>9. CASE Exit(w, bad)
  BY <1>4, <1>8, <1>9 DEF Exit, Persist, CaughtThrow, Passed, VerdictKept
<1>10. CASE Regenerate(w, again)
  <2>1. mem.status \notin {"shape_ready", "plan_ready"}
    BY <1>1 DEF ShapeInv, VerdictKept, Passed
  <2> QED
    BY <1>5, <1>8, <1>10, <2>1 DEF Regenerate, Persist, CaughtThrow, Passed, VerdictKept
<1> QED
  BY <1>6, <1>7, <1>9, <1>10

\* The planning workers: phase 1 writes the skeleton only before the verdict.
LEMMA PlanningShape ==
  ASSUME ShapeState, NEW w \in Workers,
         \/ Check(w) \/ Phase1Returns(w) \/ GroomReturns(w) \/ EngineThrows(w)
         \/ SpendThrows(w) \/ Phase1Gated(w) \/ GroomGated(w) \/ GroomSearched(w)
  PROVE  ShapeInv'
<1> USE DEF ShapeState
<1>1. WorkerStep(w)
  BY DEF WorkerStep
<1>2. ASSUME VerdictKept', UNCHANGED Passed, UNCHANGED skelFile \/ worker[w].kind = "phase1"
      PROVE  ShapeInv'
  BY <1>1, <1>2, WorkerMatches, WorkerAround, VerdictStays DEF ShapeInv, KindsMatch
<1>3. ASSUME UNCHANGED <<mem, disk>>, UNCHANGED skelFile \/ worker[w].kind = "phase1"
      PROVE  ShapeInv'
  BY <1>2, <1>3 DEF ShapeInv, VerdictKept, Passed
<1>4. ASSUME Exit(w, Failed)
      PROVE  VerdictKept' /\ UNCHANGED Passed
  BY <1>4, PatchKeepsVerdict DEF Exit, Failed, Retryable
<1>5. CASE Check(w)
  <2>1. UNCHANGED skelFile \/ worker[w].kind = "phase1"
    BY <1>5 DEF Check
  <2>2. ASSUME NEW to \in Retryable, Exit(w, [mem EXCEPT !.status = to])
        PROVE  VerdictKept' /\ UNCHANGED Passed
    BY <2>2, PatchKeepsVerdict DEF Exit
  <2> QED
    BY <1>2, <1>3, <1>5, <2>1, <2>2 DEF Check, planVars
<1>6. CASE Phase1Returns(w) \/ GroomReturns(w)
  BY <1>3, <1>6 DEF Phase1Returns, GroomReturns, At, planVars
<1>7. CASE EngineThrows(w) \/ SpendThrows(w)
  BY <1>2, <1>4, <1>7 DEF EngineThrows, SpendThrows, fileVars
<1>8. CASE Phase1Gated(w)
  BY <1>8, VerdictSaved
<1>9. CASE GroomGated(w)
  <2> DEFINE n == worker[w].attempt
             p == [mem EXCEPT !.planGate = "bad", !.regenGroom = n]
             failed == [p EXCEPT !.status = "failed"]
             again == [p EXCEPT !.regenGroom = n + 1]
  <2>1. /\ failed.skelGate = mem.skelGate /\ failed.status = "failed"
        /\ [failed EXCEPT !.status = "failed"] = failed
        /\ again.skelGate = mem.skelGate /\ again.status = mem.status
        /\ [again EXCEPT !.status = "failed"].skelGate = mem.skelGate
        /\ [again EXCEPT !.status = "failed"].status = "failed"
    BY DEF TypeOK, Plan
  <2>2. \/ UNCHANGED planVars
        \/ Exit(w, failed)
        \/ Regenerate(w, again)
    BY <1>9 DEF GroomGated, planVars
  <2>3. UNCHANGED skelFile
    BY <1>9 DEF GroomGated, fileVars
  <2> HIDE DEF failed, again
  <2>4. CASE UNCHANGED planVars
    BY <1>3, <2>3, <2>4 DEF planVars
  <2>5. CASE Exit(w, failed)
    <3>1. VerdictKept' /\ UNCHANGED Passed
      BY <2>1, <2>5 DEF Exit, Persist, CaughtThrow, VerdictKept, Passed
    <3> QED
      BY <1>2, <2>3, <3>1
  <2>6. CASE Regenerate(w, again)
    <3>1. VerdictKept' /\ UNCHANGED Passed
      BY <2>1, <2>6 DEF Regenerate, Persist, CaughtThrow, ShapeInv, VerdictKept, Passed
    <3> QED
      BY <1>2, <2>3, <3>1
  <2> QED
    BY <2>2, <2>4, <2>5, <2>6
<1>10. CASE GroomSearched(w)
  <2> DEFINE p == [mem EXCEPT !.status = "plan_ready", !.planGate = "ok",
                              !.regenGroom = worker[w].attempt]
  <2>1. /\ p.skelGate = mem.skelGate /\ p.status = "plan_ready"
        /\ [p EXCEPT !.status = "failed"].skelGate = mem.skelGate
        /\ [p EXCEPT !.status = "failed"].status = "failed"
    BY DEF TypeOK, Plan
  <2>2. Passed /\ Exit(w, p) /\ UNCHANGED skelFile
    BY <1>10 DEF GroomSearched, At, ShapeInv, KindsMatch, fileVars
  <2> HIDE DEF p
  <2>3. VerdictKept' /\ UNCHANGED Passed
    BY <2>1, <2>2 DEF Exit, Persist, CaughtThrow, VerdictKept, Passed
  <2> QED
    BY <1>2, <2>2, <2>3
<1> QED
  BY <1>5, <1>6, <1>7, <1>8, <1>9, <1>10

\* The tracker workers leave verdict and skeleton alone.
LEMMA TrackerShape ==
  ASSUME ShapeState, NEW w \in Workers,
         \/ CreateGuard(w) \/ CreateTimeout(w) \/ CreateExited(w) \/ CreateVerified(w)
         \/ Verified(w) \/ Sweep(w) \/ CancelDone(w)
  PROVE  ShapeInv'
<1> USE DEF ShapeState
<1>1. WorkerStep(w)
  BY DEF WorkerStep
<1>2. UNCHANGED skelFile
  BY DEF CreateGuard, CreateTimeout, CreateExited, CreateVerified, Verified, Sweep, CancelDone, fileVars
<1>3. ASSUME NEW s \in {"created", "failed", "cancelled"}, NEW m \in {"none", "partial", "full"},
             LET p == [mem EXCEPT !.status = s, !.created = m] IN Exit(w, p)
      PROVE  VerdictKept' /\ UNCHANGED Passed
  <2> DEFINE p == [mem EXCEPT !.status = s, !.created = m]
  <2>1. /\ p.skelGate = mem.skelGate /\ p.status = s
        /\ [p EXCEPT !.status = "failed"].skelGate = mem.skelGate
        /\ [p EXCEPT !.status = "failed"].status = "failed"
    BY DEF TypeOK, Plan
  <2>2. Exit(w, p)
    BY <1>3
  <2> HIDE DEF p
  <2> QED
    BY <2>1, <2>2 DEF Exit, Persist, CaughtThrow, VerdictKept, Passed
<1>4. /\ \A s : [mem EXCEPT !.status = s] = [mem EXCEPT !.status = s, !.created = mem.created]
      /\ Failed = [mem EXCEPT !.status = "failed", !.created = mem.created]
      /\ [Failed EXCEPT !.created = "partial"] = [mem EXCEPT !.status = "failed", !.created = "partial"]
      /\ mem.created \in {"none", "partial", "full"}
  BY DEF Failed, TypeOK, Plan
<1>5. UNCHANGED planVars
      \/ \E s \in {"created", "failed", "cancelled"}, m \in {"none", "partial", "full"} :
           Exit(w, [mem EXCEPT !.status = s, !.created = m])
  <2>1. CASE CreateGuard(w) \/ CreateTimeout(w) \/ CreateExited(w)
    BY <1>4, <2>1 DEF CreateGuard, CreateTimeout, CreateExited, planVars
  <2>2. CASE CreateVerified(w)
    BY <1>4, <2>2 DEF CreateVerified
  <2>3. CASE Verified(w)
    BY <1>4, <2>3 DEF Verified
  <2>4. CASE Sweep(w) \/ CancelDone(w)
    BY <1>4, <2>4 DEF Sweep, CancelDone, planVars
  <2> QED
    BY <2>1, <2>2, <2>3, <2>4
<1>6. VerdictKept' /\ UNCHANGED Passed
  BY <1>3, <1>5 DEF planVars, ShapeInv, VerdictKept, Passed
<1> QED
  BY <1>1, <1>2, <1>6, WorkerMatches, WorkerAround, VerdictStays

\* Therefore no step breaks it.
LEMMA ShapeStep == ShapeState /\ [Next]_vars => ShapeInv'
<1> SUFFICES ASSUME ShapeState, [Next]_vars PROVE ShapeInv'
  OBVIOUS
<1> USE DEF ShapeState
<1>1. UNCHANGED <<req, child>> =>
        /\ \A r \in Requests : req'[r].op = "approve" => Passed
        /\ \A c \in Workers : child'[c].pc = "boot" => Passed
  BY DEF ShapeInv
<1>2. CASE CreatePlan
  <2>1. ~Passed
    BY <1>2 DEF CreatePlan, ShapeInv, VerdictKept, Passed
  <2>2. VerdictKept' /\ UNCHANGED Passed /\ KindsMatch'
    BY <1>2, <2>1, TransitionMatches DEF CreatePlan, Transient
  <2> QED
    BY <1>1, <1>2, <2>1, <2>2, VerdictStays DEF CreatePlan
<1>3. CASE Surface
  <2>1. VerdictKept' /\ UNCHANGED Passed
    BY <1>3 DEF Surface, Persist, ShapeInv, VerdictKept, Passed
  <2>2. KindsMatch'
    BY <1>3, <2>1 DEF Surface, ShapeInv, KindsMatch
  <2> QED
    BY <1>1, <1>3, <2>1, <2>2, VerdictStays DEF Surface, fileVars
<1>4. CASE \E r \in Requests : Handler(r)
  BY <1>4, HandlerShape
<1>5. CASE \E w \in Workers : WorkerStep(w)
  BY <1>5, PlanningShape, TrackerShape DEF WorkerStep
<1>6. CASE \E c \in Workers : ChildStep(c)
  <2>1. PICK c \in Workers : ChildStep(c)
    BY <1>6
  <2>2. UNCHANGED <<mem, disk, skelFile, req, worker>>
    BY <2>1 DEF ChildStep, ChildBoot, ChildInit, ChildPost, ChildAck, ChildTail, OrphanExits, ChildFrame,
                planVars, fileVars
  <2>3. \A d \in Workers : child'[d].pc = "boot" => child[d].pc = "boot"
    BY <2>1 DEF ChildStep, ChildBoot, ChildInit, ChildPost, ChildAck, ChildTail, OrphanExits, ChildGoto,
                NoChild, TypeOK, Child
  <2> QED
    BY <2>2, <2>3 DEF ShapeInv, VerdictKept, KindsMatch, Passed
<1>7. CASE Restart
  <2> DEFINE p == IF disk.status \in Transient THEN [disk EXCEPT !.status = "failed"] ELSE disk
  <2>1. /\ p.skelGate = mem.skelGate
        /\ p.status \in {"shape_ready", "plan_ready"} => p.skelGate = "ok"
        /\ p.status = "absent" => p.skelGate # "ok"
    BY DEF TypeOK, Plan, ShapeInv, VerdictKept
  <2>2. mem' = p /\ disk' = p
    BY <1>7 DEF Restart, Reload
  <2> HIDE DEF p
  <2>3. VerdictKept' /\ UNCHANGED Passed
    BY <2>1, <2>2 DEF VerdictKept, Passed
  <2>4. KindsMatch'
    BY <1>7 DEF Restart, KindsMatch, NoWorker
  <2>5. \A r \in Requests : req'[r].op # "approve"
    BY <1>7 DEF Restart, NoRequest
  <2>6. \A c \in Workers : child'[c].pc = "boot" => child[c].pc = "boot"
    BY <1>7 DEF Restart, ChildrenDie, NoChild
  <2>7. UNCHANGED skelFile \/ skelFile' \in GoodShapes
    BY <1>7 DEF Restart
  <2> QED
    BY <2>3, <2>4, <2>5, <2>6, <2>7, VerdictStays DEF ShapeInv
<1>8. CASE UNCHANGED vars
  BY <1>8 DEF vars, ShapeInv, VerdictKept, KindsMatch, Passed
<1> QED
  BY <1>2, <1>3, <1>4, <1>5, <1>6, <1>7, <1>8 DEF Next

\* A create reads its titles from a skeleton that passed the deterministic gate,
\* whatever writes throw, children outlive the service, edits lose their race or
\* crashes fall between the rename of an edit and its save.
THEOREM GatedShapeAlways == Spec => []CreateUsesGatedShape
<1>1. Init => ShapeInv
  BY DEF Init, ShapeInv, VerdictKept, KindsMatch, Passed, NoPlan, NoRequest, NoWorker, NoChild
<1>2. TypeInv /\ OneWorker /\ ShapeInv /\ [Next]_vars => ShapeInv'
  BY ShapeStep DEF ShapeState, TypeInv
<1>3. ShapeInv => CreateUsesGatedShape
  BY DEF ShapeInv, CreateUsesGatedShape, Alive
<1>4. TypeInv /\ OneWorker /\ [Next]_vars => TypeInv' /\ OneWorker'
  BY TypeStep, OneWorkerStep DEF TypeInv
<1> QED
  BY TypeInit, OneWorkerInit, <1>1, <1>2, <1>3, <1>4, PTL DEF Spec
====
