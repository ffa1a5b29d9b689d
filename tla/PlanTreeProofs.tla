-------------------------- MODULE PlanTreeProofs --------------------------
(***************************************************************************)
(* Theorems about the tree a plan writes: how often an issue can be on the *)
(* tracker, what the journal knows of it, and what `created`, `cancelled`  *)
(* and the handle to an undo may be trusted for; then that the service     *)
(* implements the lifecycle of PlanLifecycle.                              *)
(***************************************************************************)
EXTENDS PlanServiceProofs

----------------------------------------------------------------------------
(***************************************************************************)
(* A budget of copies.  A record that is absent or empty lets a create     *)
(* begin and is worth one more copy of every issue, until the child that   *)
(* the create starts has taken that one over.  Only a child that is still  *)
(* to write the first issue empties the record again: when it begins to    *)
(* journal, which matters only when nobody waits for it, and when its      *)
(* first POST fails, and then it writes no issue itself.  A lost response  *)
(* adds one copy, an orphan two.                                           *)
(***************************************************************************)
\* The worker of the slot waits for the child.
Attended(c) == At(c, "create", "live")

\* The child has journalled no issue.
Early(c) == child[c].pc \in {"boot", "init"} \/ (child[c].pc \in {"post", "ack"} /\ child[c].next = 1)

\* The record lets a create begin.
Permits == rec.state = "absent" \/ CleanEmpty(rec)

\* A create that begins now would be one more than those counted.
Fresh == Permits /\ ~\E c \in Workers : Attended(c) /\ Early(c)

\* The child may still write issue k.
Writes(c, k) ==
  \/ child[c].pc \in {"boot", "init"}
  \/ child[c].pc = "post" /\ child[c].next <= k
  \/ child[c].pc = "ack" /\ child[c].next < k

Writers(k) == {c \in Workers : Writes(c, k)}

\* Orphans that may yet empty the record when they begin their journal.
Emptiers == {c \in Workers : child[c].pc \in {"boot", "init"} /\ ~Attended(c)}

\* What crashes add where children outlive the service.
Outlived == IF OrphansSurvive THEN 2 * restarts ELSE 0

One(b) == IF b THEN 1 ELSE 0

CopiesBudget ==
  \A k \in Issues :
    copies[k] + Cardinality(Writers(k)) + Cardinality(Emptiers) + One(Fresh)
      <= 1 + lost + Outlived

\* The writers of an issue can be counted.
LEMMA WritersFinite ==
  ASSUME NEW k
  PROVE  IsFiniteSet(Writers(k)) /\ Cardinality(Writers(k)) \in Nat
<1>1. Writers(k) \in SUBSET Workers
  BY DEF Writers
<1> QED
  BY <1>1, WorkersAssumption, FS_Subset, FS_CardinalityType

\* And so can the orphans; a step that makes none keeps their number.
LEMMA EmptiersFinite == IsFiniteSet(Emptiers) /\ Cardinality(Emptiers) \in Nat
<1>1. Emptiers \in SUBSET Workers
  BY DEF Emptiers
<1> QED
  BY <1>1, WorkersAssumption, FS_Subset, FS_CardinalityType

LEMMA EmptiersFall ==
  ASSUME Emptiers' \subseteq Emptiers
  PROVE  Cardinality(Emptiers') \in Nat /\ Cardinality(Emptiers') <= Cardinality(Emptiers)
  BY EmptiersFinite, FS_Subset, FS_CardinalityType

\* A step of one child changes the count by that child.
LEMMA WritersStep ==
  ASSUME NEW c \in Workers, NEW k,
         \A d \in Workers \ {c} : child'[d] = child[d]
  PROVE  Cardinality(Writers(k))' + One(Writes(c, k))
           = Cardinality(Writers(k)) + One(Writes(c, k)')
<1> DEFINE others == Writers(k) \ {c}
<1>1. IsFiniteSet(others) /\ Cardinality(others) \in Nat
  BY WritersFinite, FS_RemoveElement, FS_CardinalityType
<1>2. Writers(k) = IF Writes(c, k) THEN others \cup {c} ELSE others
  BY DEF Writers
<1>3. Writers(k)' = IF Writes(c, k)' THEN others \cup {c} ELSE others
  BY DEF Writers, Writes
<1>4. c \notin others
  OBVIOUS
<1> HIDE DEF others
<1>5. Cardinality(others \cup {c}) = Cardinality(others) + 1
  BY <1>1, <1>4, FS_AddElement
<1>6. Cardinality(Writers(k)) = Cardinality(others) + One(Writes(c, k))
  BY <1>1, <1>2, <1>5 DEF One
<1>7. Cardinality(Writers(k)') = Cardinality(others) + One(Writes(c, k)')
  BY <1>1, <1>3, <1>5 DEF One
<1> QED
  BY <1>1, <1>6, <1>7 DEF One

\* What a step leaves alone that does not touch the tree.
TreeQuiet ==
  /\ UNCHANGED <<child, rec, copies, lost>>
  /\ \A c \in Workers : Attended(c) => Attended(c)'

\* The budget then stays.
LEMMA QuietBudget ==
  ASSUME TypeOK, CopiesBudget, TreeQuiet, restarts' = restarts
  PROVE  CopiesBudget'
<1>1. Fresh' => Fresh
  BY DEF Fresh, Permits, CleanEmpty, Early, TreeQuiet
<1>2. \A k \in Issues : Writers(k)' = Writers(k)
  BY DEF Writers, Writes, TreeQuiet
<1>3. \A k \in Issues : copies[k] \in Nat /\ Cardinality(Writers(k)) \in Nat
  BY WritersFinite DEF TypeOK
<1>4. Emptiers' \subseteq Emptiers
  BY DEF Emptiers, TreeQuiet
<1>5. /\ Cardinality(Emptiers)' \in Nat /\ Cardinality(Emptiers) \in Nat
      /\ Cardinality(Emptiers)' <= Cardinality(Emptiers)
  BY <1>4, EmptiersFall, EmptiersFinite
<1>6. lost \in Nat /\ restarts \in Nat /\ Outlived' = Outlived /\ Outlived \in Nat
  BY DEF TypeOK, Outlived
<1> QED
  BY <1>1, <1>2, <1>3, <1>5, <1>6 DEF CopiesBudget, TreeQuiet, One

\* A worker is started in an empty slot.
LEMMA StartQuiet ==
  ASSUME NEW kind, NEW pc, NEW edited, UNCHANGED <<child, rec, copies, lost>>,
         TypeOK, Start(kind, pc, edited) \/ UNCHANGED worker
  PROVE  TreeQuiet
  BY DEF Start, TreeQuiet, Attended, At, TypeOK

\* A worker ends or goes on that waits for no child.
LEMMA SlotQuiet ==
  ASSUME TypeOK, NEW w \in Workers, ~Attended(w), UNCHANGED <<child, rec, copies, lost>>,
         \A v \in Workers \ {w} : worker'[v] = worker[v]
  PROVE  TreeQuiet
  BY DEF TreeQuiet, Attended, At

\* No handler touches the tree.
LEMMA HandlerQuiet ==
  ASSUME TypeOK, NEW r \in Requests, Handler(r)
  PROVE  TreeQuiet /\ restarts' = restarts
<1>1. UNCHANGED <<child, rec, copies, lost, restarts>>
  BY DEF Handler, Arrive, Refuse, ApproveShape, Create, Reject, Retry, Cancel, treeVars, bounds
<1>2. \/ UNCHANGED worker
      \/ \E kind, pc, edited : Start(kind, pc, edited)
  BY DEF Handler, Arrive, Refuse, ApproveShape, Create, Reject, Retry, Cancel,
         RetryVerify, RetryBlocked, RetryLadder, TransitionAndStart
<1> QED
  BY <1>1, <1>2, StartQuiet

\* Nor does a worker that waits for no child.
LEMMA WorkerQuiet ==
  ASSUME TypeOK, NEW w \in Workers, WorkerStep(w),
         ~CreateGuard(w), ~CreateTimeout(w), ~CreateExited(w)
  PROVE  TreeQuiet /\ restarts' = restarts
<1>1. UNCHANGED <<child, rec, copies, lost, restarts>>
  BY DEF WorkerStep, Check, Phase1Returns, GroomReturns, EngineThrows, SpendThrows,
         Phase1Gated, GroomGated, GroomSearched, CreateVerified, Verified, Sweep, CancelDone,
         treeVars, bounds
<1>2. CASE Sweep(w)
  BY <1>1, <1>2 DEF Sweep, TreeQuiet, Attended, At
<1>3. CASE ~Sweep(w)
  <2>1. ~Attended(w)
    BY <1>3 DEF WorkerStep, Check, Phase1Returns, GroomReturns, EngineThrows, SpendThrows,
       Phase1Gated, GroomGated, GroomSearched, CreateVerified, Verified, CancelDone, Attended, At
  <2>2. \A v \in Workers \ {w} : worker'[v] = worker[v]
    BY WorkerMoves DEF Moves, Done, Goto, TypeOK
  <2> QED
    BY <1>1, <2>1, <2>2, SlotQuiet
<1> QED
  BY <1>2, <1>3

\* A child starts at the first issue.
BootsAtFirst == \A c \in Workers : child[c].pc \in {"boot", "init"} => child[c].next = 1

BudgetInv == BootsAtFirst /\ CopiesBudget

\* Only one worker can wait for a child.
LEMMA OneAttended ==
  ASSUME OneWorker, NEW w \in Workers, worker[w].kind # "none", NEW c \in Workers, Attended(c)
  PROVE  c = w
  BY DEF OneWorker, Active, Attended, At

\* The child keeps the budget: a POST turns the copy it was to write into one it
\* has written, and a record it empties is paid for.
LEMMA ChildBudget ==
  ASSUME TypeInv, BudgetInv, NEW c \in Workers, ChildStep(c)
  PROVE  BudgetInv'
<1> USE DEF TypeInv
<1>1. /\ restarts' = restarts /\ UNCHANGED worker
      /\ \A d \in Workers \ {c} : child'[d] = child[d]
      /\ c \in Workers /\ child[c].pc # "none"
      /\ child'[c].pc # "boot"
      /\ child'[c].pc = "init" => child[c].pc = "boot" /\ child'[c].next = child[c].next
  BY DEF ChildStep, ChildBoot, ChildInit, ChildPost, ChildAck, ChildTail, OrphanExits, ChildFrame,
         ChildAt, ChildGoto, TypeOK, Child, NoChild
<1>2. BootsAtFirst'
  BY <1>1 DEF BudgetInv, BootsAtFirst
<1>3. SUFFICES ASSUME NEW k \in Issues
      PROVE  copies'[k] + Cardinality(Writers(k))' + Cardinality(Emptiers)' + One(Fresh)'
               <= 1 + lost' + Outlived
  BY <1>1, <1>2 DEF BudgetInv, CopiesBudget, Outlived
<1>4. /\ copies[k] \in Nat /\ Cardinality(Writers(k)) \in Nat /\ Cardinality(Writers(k))' \in Nat
      /\ lost \in Nat /\ Outlived \in Nat
      /\ k \in 1..TreeSize /\ TreeSize \in Nat \ {0} /\ child[c].next \in 1..(TreeSize + 1)
      /\ child[c].pc \in {"boot", "init", "post", "ack"} => child[c].next \in 1..TreeSize
      /\ One(Fresh) \in {0, 1} /\ One(Fresh)' \in {0, 1}
  <2>1. Cardinality(Writers(k))' \in Nat
    <3>1. Writers(k)' \in SUBSET Workers
      BY DEF Writers
    <3> QED
      BY <3>1, WorkersAssumption, FS_Subset, FS_CardinalityType
  <2>2. Outlived \in Nat
    BY DEF Outlived, TypeOK
  <2> QED
    BY <2>1, <2>2, WritersFinite, SizesAssumption DEF TypeOK, One, Issues, Child, ChildrenInTree
<1>5. Cardinality(Writers(k))' + One(Writes(c, k)) = Cardinality(Writers(k)) + One(Writes(c, k)')
  BY <1>1, WritersStep
<1>6. copies[k] + Cardinality(Writers(k)) + Cardinality(Emptiers) + One(Fresh)
        <= 1 + lost + Outlived
  BY DEF BudgetInv, CopiesBudget
<1>7. \A d \in Workers : Attended(d)' = Attended(d)
  BY <1>1 DEF Attended, At
<1>8. /\ Cardinality(Emptiers) \in Nat /\ Cardinality(Emptiers)' \in Nat
      /\ Cardinality(Emptiers)' <= Cardinality(Emptiers)
  <2>1. Emptiers' \subseteq Emptiers
    BY <1>1, <1>7 DEF Emptiers
  <2> QED
    BY <2>1, EmptiersFall, EmptiersFinite
<1>9. CASE ChildBoot(c) \/ ChildInit(c)
  <2>1. /\ copies' = copies /\ lost' = lost /\ Writes(c, k) /\ Early(c)
        /\ child[c].pc \in {"boot", "init"} /\ child[c].next = 1
    BY <1>9 DEF ChildBoot, ChildInit, ChildAt, Writes, Early, BudgetInv, BootsAtFirst
  <2>2. CASE ChildGoto(c, "exit1") /\ UNCHANGED rec
    <3>1. ~Writes(c, k)'
      BY <2>2 DEF ChildGoto, Writes, TypeOK
    <3> QED
      BY <1>4, <1>5, <1>6, <1>8, <2>1, <3>1 DEF One
  <2>3. CASE Permits /\ UNCHANGED rec /\ ChildGoto(c, "init")
    <3>1. \A d \in Workers : Early(d)' = Early(d)
      BY <1>1, <2>1, <2>3 DEF ChildGoto, Early, TypeOK, Child
    <3>2. Fresh' => Fresh
      BY <1>7, <2>3, <3>1 DEF Fresh
    <3> QED
      BY <1>4, <1>5, <1>6, <1>8, <2>1, <3>2 DEF One
  <2>4. CASE WriteRecord(0) /\ ChildGoto(c, "post")
    <3>1. Early(c)' /\ child'[c].pc = "post"
      BY <2>1, <2>4 DEF ChildGoto, Early, TypeOK, Child
    <3>2. CASE Attended(c)
      <4>1. ~Fresh'
        BY <1>7, <3>1, <3>2 DEF Fresh
      <4> QED
        BY <1>4, <1>5, <1>6, <1>8, <2>1, <4>1 DEF One
    <3>3. CASE ~Attended(c)
      <4>1. c \in Emptiers /\ Emptiers' \subseteq Emptiers \ {c}
        BY <1>1, <1>7, <2>1, <3>1, <3>3 DEF Emptiers
      <4>2. Cardinality(Emptiers \ {c}) = Cardinality(Emptiers) - 1 /\ IsFiniteSet(Emptiers \ {c})
        BY <4>1, EmptiersFinite, FS_RemoveElement
      <4>3. Cardinality(Emptiers') <= Cardinality(Emptiers \ {c})
        BY <4>1, <4>2, FS_Subset
      <4> QED
        BY <1>4, <1>5, <1>6, <1>8, <2>1, <4>2, <4>3 DEF One
    <3> QED
      BY <3>2, <3>3
  <2> QED
    BY <1>9, <2>2, <2>3, <2>4 DEF ChildBoot, ChildInit, Permits
<1>10. CASE ChildPost(c)
  <2>1. lost' = lost /\ child[c].pc = "post"
    BY <1>10 DEF ChildPost, ChildAt
  <2>2. CASE /\ copies' = [copies EXCEPT ![child[c].next] = @ + 1]
             /\ ChildGoto(c, "ack") /\ UNCHANGED rec
    <3>1. child'[c].pc = "ack" /\ child'[c].next = child[c].next
      BY <2>2 DEF ChildGoto, TypeOK, Child
    <3>2. copies'[k] = copies[k] + One(child[c].next = k)
      BY <1>4, <2>2 DEF TypeOK, One, Issues
    <3>3. /\ Writes(c, k) <=> child[c].next <= k
          /\ Writes(c, k)' <=> child[c].next < k
      BY <2>1, <3>1 DEF Writes
    <3>4. \A d \in Workers : Early(d)' = Early(d)
      BY <1>1, <2>1, <3>1 DEF Early
    <3>5. Fresh' = Fresh
      BY <1>7, <2>2, <3>4 DEF Fresh, Permits, CleanEmpty
    <3>6. One(Writes(c, k)) = One(Writes(c, k)') + One(child[c].next = k)
      BY <1>4, <3>3 DEF One
    <3> QED
      BY <1>4, <1>5, <1>6, <1>8, <2>1, <3>2, <3>5, <3>6 DEF One
  <2>3. CASE WriteRecord(child[c].next - 1) /\ ChildGoto(c, "exit1") /\ UNCHANGED copies
    <3>1. ~Writes(c, k)'
      BY <2>3 DEF ChildGoto, Writes, TypeOK
    <3>2. child[c].next = 1 => Writes(c, k)
      BY <1>4, <2>1 DEF Writes
    <3>3. child[c].next # 1 => ~Fresh'
      BY <1>4, <2>3 DEF WriteRecord, Fresh, Permits, CleanEmpty
    <3> QED
      BY <1>4, <1>5, <1>6, <1>8, <2>1, <2>3, <3>1, <3>2, <3>3 DEF One
  <2> QED
    BY <1>10, <2>2, <2>3 DEF ChildPost
<1>11. CASE ChildAck(c)
  <2>1. copies' = copies /\ child[c].pc = "ack"
    BY <1>11 DEF ChildAck, ChildAt
  <2>2. CASE /\ WriteRecord(child[c].next)
             /\ child' = [child EXCEPT ![c] =
                  [pc |-> IF child[c].next = TreeSize THEN "tail" ELSE "post",
                   next |-> child[c].next + 1]]
             /\ UNCHANGED lost
    <3>1. ~Fresh'
      BY <1>4, <2>2 DEF WriteRecord, Fresh, Permits, CleanEmpty
    <3>2. Writes(c, k)' => Writes(c, k)
      BY <1>4, <2>1, <2>2 DEF Writes, TypeOK
    <3> QED
      BY <1>4, <1>5, <1>6, <1>8, <2>1, <2>2, <3>1, <3>2 DEF One
  <2>3. CASE lost' = lost + 1 /\ ChildGoto(c, "exit1")
    <3>1. ~Writes(c, k)'
      BY <2>3 DEF ChildGoto, Writes, TypeOK
    <3> QED
      BY <1>4, <1>5, <1>6, <1>8, <2>1, <2>3, <3>1 DEF One
  <2> QED
    BY <1>11, <2>2, <2>3 DEF ChildAck
<1>12. CASE ChildTail(c)
  <2>1. ~Fresh'
    BY <1>4, <1>12 DEF ChildTail, WriteRecord, Fresh, Permits, CleanEmpty
  <2>2. ~Writes(c, k)'
    BY <1>12 DEF ChildTail, ChildGoto, Writes, TypeOK, Child
  <2> QED
    BY <1>4, <1>5, <1>6, <1>8, <1>12, <2>1, <2>2 DEF ChildTail, One
<1>13. CASE OrphanExits(c)
  <2>1. ~Writes(c, k)'
    BY <1>13 DEF OrphanExits, NoChild, Writes, TypeOK
  <2>2. \A d \in Workers : Early(d) => Early(d)'
    BY <1>1, <1>13 DEF OrphanExits, Early
  <2>3. Fresh' => Fresh
    BY <1>7, <1>13, <2>2 DEF OrphanExits, Fresh, Permits, CleanEmpty
  <2> QED
    BY <1>4, <1>5, <1>6, <1>8, <1>13, <2>1, <2>3 DEF OrphanExits, One
<1> QED
  BY <1>9, <1>10, <1>11, <1>12, <1>13 DEF ChildStep

\* A worker that starts a child spends what the record was worth; one that kills
\* its child gets back at most the copy the child was to write, or the one whose
\* response it loses with it.
LEMMA TrackerBudget ==
  ASSUME TypeInv, OneWorker, BudgetInv, NEW w \in Workers,
         CreateGuard(w) \/ CreateTimeout(w) \/ CreateExited(w)
  PROVE  BudgetInv'
<1> USE DEF TypeInv
<1>1. /\ restarts' = restarts /\ UNCHANGED copies
      /\ worker[w].kind = "create"
      /\ \A d \in Workers \ {w} : worker'[d] = worker[d] /\ child'[d] = child[d]
  BY DEF CreateGuard, CreateTimeout, CreateExited, At, Exit, Done, Goto, TypeOK, treeVars
<1>2. \A c \in Workers \ {w} : ~Attended(c) /\ ~Attended(c)'
  BY <1>1, OneAttended DEF Attended, At
<1>3. CASE UNCHANGED <<child, rec, lost>> /\ worker[w].pc = "guard"
  <2>1. TreeQuiet
    BY <1>1, <1>2, <1>3 DEF TreeQuiet, Attended, At
  <2> QED
    BY <1>1, <1>3, <2>1, QuietBudget DEF BudgetInv, BootsAtFirst
<1>4. CASE ~(UNCHANGED <<child, rec, lost>> /\ worker[w].pc = "guard")
  <2>1. BootsAtFirst'
    BY <1>1 DEF BudgetInv, BootsAtFirst, CreateGuard, CreateTimeout, CreateExited, NoChild, TypeOK
  <2>2. SUFFICES ASSUME NEW k \in Issues
        PROVE  copies[k] + Cardinality(Writers(k))' + Cardinality(Emptiers)' + One(Fresh)'
                 <= 1 + lost' + Outlived
    BY <1>1, <2>1 DEF BudgetInv, CopiesBudget, Outlived
  <2>3. /\ copies[k] \in Nat /\ Cardinality(Writers(k)) \in Nat /\ Cardinality(Writers(k))' \in Nat
        /\ lost \in Nat /\ lost' \in Nat /\ Outlived \in Nat
        /\ k \in 1..TreeSize /\ TreeSize \in Nat \ {0} /\ child[w].next \in 1..(TreeSize + 1)
    <3>1. Cardinality(Writers(k))' \in Nat
      <4>1. Writers(k)' \in SUBSET Workers
        BY DEF Writers
      <4> QED
        BY <4>1, WorkersAssumption, FS_Subset, FS_CardinalityType
    <3> QED
      BY <3>1, WritersFinite, SizesAssumption
      DEF TypeOK, Outlived, Issues, Child, CreateGuard, CreateTimeout, CreateExited
  <2>4. Cardinality(Writers(k))' + One(Writes(w, k)) = Cardinality(Writers(k)) + One(Writes(w, k)')
    BY <1>1, WritersStep
  <2>5. /\ copies[k] + Cardinality(Writers(k)) + Cardinality(Emptiers) + One(Fresh)
             <= 1 + lost + Outlived
        /\ Cardinality(Emptiers) \in Nat /\ Cardinality(Emptiers)' \in Nat
        /\ Cardinality(Emptiers)' <= Cardinality(Emptiers)
    <3>1. child'[w].pc \in {"boot", "init"} => Attended(w)'
      <4>1. CASE CreateGuard(w)
        BY <1>4, <4>1 DEF CreateGuard, At, Goto, TypeOK, Worker, Attended, treeVars
      <4>2. CASE CreateTimeout(w) \/ CreateExited(w)
        BY <4>2 DEF CreateTimeout, CreateExited, NoChild, TypeOK
      <4> QED
        BY <4>1, <4>2
    <3>2. Emptiers' \subseteq Emptiers
      BY <1>1, <1>2, <3>1 DEF Emptiers
    <3> QED
      BY <3>2, EmptiersFall, EmptiersFinite DEF BudgetInv, CopiesBudget
  <2>6. CASE CreateGuard(w)
    <3>1. /\ Permits /\ lost' = lost
          /\ worker[w].pc = "guard" /\ worker'[w].kind = "create" /\ worker'[w].pc = "live"
          /\ child'[w] = [pc |-> "boot", next |-> 1]
      BY <1>4, <2>6 DEF CreateGuard, At, Goto, TypeOK, Worker, Permits, treeVars
    <3>2. Fresh
      BY <1>2, <3>1 DEF Fresh, Attended, At
    <3>3. ~Fresh'
      BY <3>1 DEF Fresh, Attended, At, Early
    <3> QED
      BY <2>3, <2>4, <2>5, <3>1, <3>2, <3>3 DEF One
  <2>7. ASSUME child'[w] = NoChild, lost' \in {lost, lost + 1},
               Fresh' => Permits /\ (Early(w) => Writes(w, k) \/ lost' = lost + 1)
        PROVE  copies[k] + Cardinality(Writers(k))' + Cardinality(Emptiers)' + One(Fresh)'
                 <= 1 + lost' + Outlived
    <3>1. ~Writes(w, k)'
      BY <2>7 DEF Writes, NoChild
    <3>2. Fresh' => Fresh \/ Writes(w, k) \/ lost' = lost + 1
      BY <1>2, <2>7 DEF Fresh
    <3> QED
      BY <2>3, <2>4, <2>5, <2>7, <3>1, <3>2 DEF One
  <2>8. CASE CreateTimeout(w)
    <3>1. /\ child'[w] = NoChild
          /\ lost' = IF child[w].pc = "ack" THEN lost + 1 ELSE lost
          /\ rec' \in KilledRecords(w)
      BY <2>8 DEF CreateTimeout, TypeOK
    <3>2. Permits' => Permits
      BY <3>1 DEF Permits, CleanEmpty, KilledRecords, Torn
    <3>3. Early(w) => Writes(w, k) \/ child[w].pc = "ack"
      BY <2>3 DEF Early, Writes
    <3> QED
      BY <2>7, <3>1, <3>2, <3>3 DEF Fresh
  <2>9. CASE CreateExited(w)
    <3>1. child'[w] = NoChild /\ lost' = lost /\ UNCHANGED rec /\ ~Early(w)
      BY <2>9 DEF CreateExited, TypeOK, Early, treeVars
    <3> QED
      BY <2>7, <3>1 DEF Fresh, Permits, CleanEmpty
  <2> QED
    BY <2>6, <2>8, <2>9
<1> QED
  BY <1>3, <1>4

\* A crash takes the children with it, or lets them go on at the price of one copy.
LEMMA RestartBudget ==
  ASSUME TypeInv, OneWorker, BudgetInv, Restart
  PROVE  BudgetInv'
<1> USE DEF TypeInv
<1>1. /\ restarts' = restarts + 1 /\ UNCHANGED copies
      /\ \A c \in Workers : ~Attended(c)'
  BY DEF Restart, Attended, At, NoWorker
<1>2. BootsAtFirst'
  BY DEF Restart, ChildrenDie, BudgetInv, BootsAtFirst, NoChild
<1>3. SUFFICES ASSUME NEW k \in Issues
      PROVE  copies[k] + Cardinality(Writers(k))' + Cardinality(Emptiers)' + One(Fresh)'
               <= 1 + lost' + Outlived'
  BY <1>1, <1>2 DEF BudgetInv, CopiesBudget
<1>4. /\ copies[k] \in Nat /\ Cardinality(Writers(k)) \in Nat /\ lost \in Nat
      /\ Cardinality(Emptiers) \in Nat /\ Outlived \in Nat
      /\ Outlived' = Outlived + (IF OrphansSurvive THEN 2 ELSE 0)
  BY <1>1, WritersFinite, EmptiersFinite DEF TypeOK, Outlived
<1>5. copies[k] + Cardinality(Writers(k)) + Cardinality(Emptiers) + One(Fresh)
        <= 1 + lost + Outlived
  BY DEF BudgetInv, CopiesBudget
<1>6. CASE ChildrenDie
  <2> DEFINE acked == {c \in Alive : child[c].pc = "ack"}
  <2>1. Writers(k)' = {} /\ Emptiers' = {}
    BY <1>6 DEF ChildrenDie, Writers, Writes, Emptiers, NoChild
  <2>2. IsFiniteSet(acked) /\ Cardinality(acked) \in Nat /\ lost' = lost + Cardinality(acked)
    <3>1. acked \in SUBSET Workers
      BY DEF Alive
    <3> QED
      BY <1>6, <3>1, WorkersAssumption, FS_Subset, FS_CardinalityType DEF ChildrenDie
  <2>3. Fresh' => Permits
    <3>1. rec' = rec \/ \E c \in Workers : rec' \in KilledRecords(c)
      BY <1>6 DEF ChildrenDie, Alive
    <3> QED
      BY <3>1 DEF Fresh, Permits, CleanEmpty, KilledRecords, Torn
  <2>4. Fresh' => Fresh \/ Cardinality(Writers(k)) > 0 \/ Cardinality(acked) > 0
    <3>1. SUFFICES ASSUME Permits, ~Fresh
          PROVE  Cardinality(Writers(k)) > 0 \/ Cardinality(acked) > 0
      BY <2>3
    <3>2. PICK c \in Workers : Early(c)
      BY <3>1 DEF Fresh
    <3>3. c \in Writers(k) \/ c \in acked
      BY <3>2, SizesAssumption DEF Early, Writers, Writes, Alive, Issues
    <3> HIDE DEF acked
    <3>4. \A S : IsFiniteSet(S) /\ Cardinality(S) = 0 => S = {}
      BY FS_EmptySet
    <3> QED
      BY <1>4, <2>2, <3>3, <3>4, WritersFinite
  <2> HIDE DEF acked
  <2>5. Cardinality(Writers(k)') = 0 /\ Cardinality(Emptiers') = 0
    BY <2>1, FS_EmptySet
  <2> QED
    BY <1>4, <1>5, <2>2, <2>4, <2>5 DEF One
<1>7. CASE OrphansSurvive /\ UNCHANGED <<child, rec, lost>>
  <2>1. Writers(k)' = Writers(k)
    BY <1>7 DEF Writers, Writes
  <2>2. \E w : Emptiers' \subseteq Emptiers \cup {w}
    <3>1. CASE \A c \in Workers : ~Attended(c)
      <4>1. Emptiers' \subseteq Emptiers
        BY <1>7, <3>1 DEF Emptiers
      <4> QED
        BY <4>1
    <3>2. ASSUME NEW w \in Workers, Attended(w)
          PROVE  Emptiers' \subseteq Emptiers \cup {w}
      <4>1. \A c \in Workers : Attended(c) => c = w
        BY <3>2, OneAttended DEF Attended, At
      <4> QED
        BY <1>7, <4>1 DEF Emptiers
    <3> QED
      BY <3>1, <3>2
  <2>3. Cardinality(Emptiers') \in Nat /\ Cardinality(Emptiers') <= Cardinality(Emptiers) + 1
    <3>1. PICK w : Emptiers' \subseteq Emptiers \cup {w}
      BY <2>2
    <3>2. /\ IsFiniteSet(Emptiers \cup {w})
          /\ Cardinality(Emptiers \cup {w}) \in {Cardinality(Emptiers), Cardinality(Emptiers) + 1}
      BY EmptiersFinite, FS_AddElement
    <3> QED
      BY <1>4, <3>1, <3>2, FS_Subset, FS_CardinalityType
  <2> QED
    BY <1>4, <1>5, <1>7, <2>1, <2>3 DEF One
<1> QED
  BY <1>6, <1>7 DEF Restart

\* The budget of lost answers is kept by every step: each second issue of an item is
\* paid for, or still to be paid for by one child only.
THEOREM BudgetStep == TypeInv /\ OneWorker /\ BudgetInv /\ [Next]_vars => BudgetInv'
<1> SUFFICES ASSUME TypeInv, OneWorker, BudgetInv, [Next]_vars PROVE BudgetInv'
  OBVIOUS
<1> USE DEF TypeInv
<1>1. ASSUME TreeQuiet, restarts' = restarts
      PROVE  BudgetInv'
  BY <1>1, QuietBudget DEF BudgetInv, BootsAtFirst, TreeQuiet
<1>2. CASE CreatePlan
  <2>1. UNCHANGED <<child, rec, copies, lost, restarts>>
    BY <1>2 DEF CreatePlan, treeVars
  <2> QED
    BY <1>1, <1>2, <2>1, StartQuiet DEF CreatePlan, TransitionAndStart
<1>3. CASE Surface
  BY <1>1, <1>3, StartQuiet DEF Surface, treeVars
<1>4. CASE \E r \in Requests : Handler(r)
  BY <1>1, <1>4, HandlerQuiet
<1>5. CASE \E w \in Workers : WorkerStep(w)
  BY <1>1, <1>5, WorkerQuiet, TrackerBudget
<1>6. CASE \E c \in Workers : ChildStep(c)
  BY <1>6, ChildBudget
<1>7. CASE Restart
  BY <1>7, RestartBudget
<1>8. CASE UNCHANGED vars
  BY <1>1, <1>8 DEF vars, TreeQuiet, Attended, At
<1> QED
  BY <1>2, <1>3, <1>4, <1>5, <1>6, <1>7, <1>8 DEF Next

LEMMA BudgetInit == Init => BudgetInv
<1> SUFFICES ASSUME Init PROVE BudgetInv
  OBVIOUS
<1>1. BootsAtFirst
  BY DEF Init, BootsAtFirst, NoChild
<1>2. ASSUME NEW k \in Issues
      PROVE  copies[k] = 0 /\ Cardinality(Writers(k)) = 0 /\ Cardinality(Emptiers) = 0
  <2>1. Writers(k) = {} /\ Emptiers = {} /\ copies[k] = 0
    BY DEF Init, Writers, Writes, Emptiers, NoChild
  <2> QED
    BY <2>1, FS_EmptySet
<1>3. One(Fresh) \in {0, 1} /\ lost = 0 /\ Outlived = 0
  BY DEF Init, One, Outlived
<1>4. CopiesBudget
  BY <1>2, <1>3 DEF CopiesBudget
<1> QED
  BY <1>1, <1>4 DEF BudgetInv

\* Requests, retries, crashes, failing writes and orphans may come in any order:
\* an issue is on the tracker once, once more for each response that was lost and,
\* where children outlive the service, at most twice more for each crash.
THEOREM NoDuplicateAlways == Spec => []NoDuplicateTree
<1>1. Init => TypeInv /\ OneWorker /\ BudgetInv
  BY TypeInit, OneWorkerInit, BudgetInit
<1>2. TypeInv /\ OneWorker /\ BudgetInv /\ [Next]_vars => (TypeInv /\ OneWorker /\ BudgetInv)'
  BY TypeStep, OneWorkerStep, BudgetStep DEF TypeInv
<1>3. TypeInv /\ BudgetInv => NoDuplicateTree
  <2> SUFFICES ASSUME TypeInv, BudgetInv, NEW k \in Issues
      PROVE  copies[k] <= 1 + lost + Outlived
    BY DEF NoDuplicateTree, Outlived
  <2>1. /\ copies[k] \in Nat /\ lost \in Nat /\ Outlived \in Nat
        /\ Cardinality(Writers(k)) \in Nat /\ Cardinality(Emptiers) \in Nat
    BY WritersFinite, EmptiersFinite DEF TypeInv, TypeOK, Outlived
  <2>2. copies[k] + Cardinality(Writers(k)) + Cardinality(Emptiers) + One(Fresh)
          <= 1 + lost + Outlived
    BY DEF BudgetInv, CopiesBudget
  <2> QED
    BY <2>1, <2>2 DEF One
<1> QED
  BY <1>1, <1>2, <1>3, PTL DEF Spec

----------------------------------------------------------------------------
(***************************************************************************)
(* The journal, when no child outlives the service.  A child then has the  *)
(* record to itself: it runs beside the one worker that waits for it.      *)
(***************************************************************************)
\* A request for issue k is in flight, or committed and not yet journalled.
Flying(k) == \E c \in Workers : child[c].pc = "ack" /\ child[c].next = k

\* Issue k is in the record, or in what a kill tore.
Kept(k) == k <= rec.len \/ rec.state = "torn"

\* The child and its record are in step, and no child is without its worker.  A
\* torn record stays: nothing writes over it.
JournalInv ==
  /\ rec.state # "ok" => rec.len = 0
  /\ \A c \in Workers :
       /\ child[c].pc # "none" => Attended(c) /\ rec.state # "torn"
       /\ child[c].pc \in {"boot", "init"} => Permits /\ child[c].next = 1
       /\ child[c].pc \in {"post", "ack"} => rec.state = "ok" /\ rec.len = child[c].next - 1
       /\ child[c].pc \in {"tail", "exit0"} => rec.state = "ok" /\ rec.len = TreeSize

\* What is on the tracker, issue by issue.
CopiesInv ==
  \A k \in Issues :
    /\ copies[k] <= One(Kept(k)) + One(Flying(k)) + lost
    /\ k <= rec.len \/ Flying(k) => copies[k] >= 1

\* What a step may do to the record.
RecordKept ==
  \/ rec'.state # "torn" /\ rec'.len >= rec.len
  \/ rec' = Torn /\ \E c \in Alive : child'[c] = NoChild
  \/ rec = Torn /\ UNCHANGED <<rec, copies>>

TreeInv == JournalInv /\ CopiesInv

TreeState == TypeInv /\ OneWorker /\ TreeInv /\ OrphansSurvive = FALSE

\* Beside a child no other runs, and its worker is the plan's.
LEMMA ChildAlone ==
  ASSUME TreeState, NEW c \in Workers, child[c].pc # "none"
  PROVE  /\ Attended(c)
         /\ \A d \in Workers \ {c} : child[d].pc = "none"
         /\ mem.status = "creating"
  BY DEF TreeState, TreeInv, JournalInv, OneWorker, Active, Attended, At, RunsAs

\* A step that does not touch the tree keeps all this.
LEMMA QuietTree ==
  ASSUME TreeInv, TypeOK, TreeQuiet
  PROVE  TreeInv' /\ RecordKept
<1>1. \A k \in Issues : Flying(k)' = Flying(k) /\ Kept(k)' = Kept(k)
  BY DEF Flying, Kept, TreeQuiet
<1>2. CopiesInv'
  BY <1>1 DEF TreeInv, CopiesInv, TreeQuiet, One
<1>3. JournalInv'
  BY DEF TreeInv, JournalInv, TreeQuiet, Permits, CleanEmpty
<1>4. rec = Torn \/ rec.state # "torn"
  BY DEF TreeInv, JournalInv, TypeOK, Record, Torn
<1>5. RecordKept
  BY <1>4 DEF RecordKept, TreeQuiet, TypeOK, Record
<1> QED
  BY <1>2, <1>3, <1>5 DEF TreeInv

\* The child writes ahead: what it commits it was seen to send, and what it
\* journals it has committed.
LEMMA ChildTree ==
  ASSUME TreeState, NEW c \in Workers, ChildStep(c)
  PROVE  TreeInv' /\ rec'.state # "torn" /\ rec'.len >= rec.len
<1> USE DEF TreeState, TypeInv
<1>1. /\ child[c].pc # "none" /\ UNCHANGED worker
      /\ \A d \in Workers \ {c} : child'[d] = child[d]
  BY DEF ChildStep, ChildBoot, ChildInit, ChildPost, ChildAck, ChildTail, OrphanExits, ChildFrame,
         ChildAt, ChildGoto, TypeOK
<1>2. /\ Attended(c) /\ Attended(c)'
      /\ \A d \in Workers \ {c} : child'[d].pc = "none"
  BY <1>1, ChildAlone DEF Attended, At
<1>3. /\ TreeSize \in Nat \ {0} /\ rec.len \in 0..TreeSize /\ lost \in Nat
      /\ child[c].next \in 1..(TreeSize + 1)
      /\ child[c].pc \in {"boot", "init", "post", "ack"} => child[c].next \in 1..TreeSize
      /\ \A k \in Issues : copies[k] \in Nat /\ k \in 1..TreeSize
      /\ child[c] \in Child /\ rec \in Record
  BY SizesAssumption DEF TypeOK, Record, Child, ChildrenInTree, Issues
<1>4. \A k \in Issues : Flying(k) <=> child[c].pc = "ack" /\ child[c].next = k
  BY <1>1, <1>2 DEF Flying
<1>5. \A k \in Issues : Flying(k)' <=> child'[c].pc = "ack" /\ child'[c].next = k
  BY <1>2 DEF Flying
<1>0. rec.state # "torn" /\ \A k \in Issues : Kept(k) <=> k <= rec.len
  BY <1>1 DEF TreeInv, JournalInv, Kept
<1>13. rec'.state # "torn" => \A k \in Issues : Kept(k)' <=> k <= rec'.len
  BY DEF Kept
<1>6. CASE ChildBoot(c) \/ ChildInit(c)
  <2>1. /\ child[c].pc \in {"boot", "init"} /\ child[c].next = 1 /\ rec.len = 0
        /\ copies' = copies /\ lost' = lost /\ Permits
    BY <1>6 DEF ChildBoot, ChildInit, ChildAt, TreeInv, JournalInv, Permits, CleanEmpty
  <2>2. /\ rec'.len = 0 /\ child'[c].next = 1 /\ rec'.state # "torn"
        /\ \/ child'[c].pc \in {"init", "exit1"} /\ UNCHANGED rec
           \/ child'[c].pc = "post" /\ rec'.state = "ok"
    BY <1>0, <1>6, <2>1 DEF ChildBoot, ChildInit, ChildGoto, WriteRecord, TypeOK, Child
  <2>3. JournalInv'
    BY <1>2, <1>3, <2>1, <2>2 DEF TreeInv, JournalInv, Permits, CleanEmpty
  <2>4. CopiesInv'
    BY <1>0, <1>3, <1>4, <1>5, <1>13, <2>1, <2>2 DEF TreeInv, CopiesInv, One
  <2> QED
    BY <2>1, <2>2, <2>3, <2>4 DEF TreeInv
<1>7. CASE ChildPost(c)
  <2>1. child[c].pc = "post" /\ rec.state = "ok" /\ rec.len = child[c].next - 1 /\ lost' = lost
    BY <1>7 DEF ChildPost, ChildAt, TreeInv, JournalInv
  <2>2. CASE /\ copies' = [copies EXCEPT ![child[c].next] = @ + 1]
             /\ ChildGoto(c, "ack") /\ UNCHANGED rec
    <3>1. child'[c].pc = "ack" /\ child'[c].next = child[c].next
      BY <2>2 DEF ChildGoto, TypeOK, Child
    <3>2. JournalInv'
      BY <1>2, <2>1, <2>2, <3>1 DEF TreeInv, JournalInv
    <3>3. ASSUME NEW k \in Issues
          PROVE  /\ copies'[k] <= One(Kept(k)') + One(Flying(k)') + lost
                 /\ k <= rec.len \/ Flying(k)' => copies'[k] >= 1
      <4>1. copies'[k] = IF k = child[c].next THEN copies[k] + 1 ELSE copies[k]
        BY <2>2 DEF TypeOK
      <4>2. /\ copies[k] <= One(Kept(k)) + One(Flying(k)) + lost
            /\ k <= rec.len => copies[k] >= 1
        BY DEF TreeInv, CopiesInv
      <4>3. Kept(k)' <=> k <= rec.len
        BY <1>0, <1>13, <2>2
      <4> QED
        BY <1>0, <1>3, <1>4, <1>5, <2>1, <3>1, <4>1, <4>2, <4>3 DEF One
    <3> QED
      BY <1>3, <2>1, <2>2, <3>2, <3>3 DEF TreeInv, CopiesInv
  <2>3. CASE WriteRecord(child[c].next - 1) /\ ChildGoto(c, "exit1") /\ UNCHANGED copies
    <3>1. child'[c].pc = "exit1" /\ rec'.state = "ok" /\ rec'.len = rec.len
      BY <2>1, <2>3 DEF ChildGoto, WriteRecord, TypeOK, Child
    <3>2. JournalInv'
      BY <1>2, <3>1 DEF TreeInv, JournalInv
    <3>3. CopiesInv'
      BY <1>0, <1>3, <1>4, <1>5, <1>13, <2>1, <2>3, <3>1 DEF TreeInv, CopiesInv, One
    <3> QED
      BY <1>3, <3>1, <3>2, <3>3 DEF TreeInv
  <2> QED
    BY <1>7, <2>2, <2>3 DEF ChildPost
<1>8. CASE ChildAck(c)
  <2>1. /\ child[c].pc = "ack" /\ rec.state = "ok" /\ rec.len = child[c].next - 1
        /\ copies' = copies
    BY <1>8 DEF ChildAck, ChildAt, TreeInv, JournalInv
  <2>2. CASE /\ WriteRecord(child[c].next)
             /\ child' = [child EXCEPT ![c] =
                  [pc |-> IF child[c].next = TreeSize THEN "tail" ELSE "post",
                   next |-> child[c].next + 1]]
             /\ UNCHANGED lost
    <3>1. /\ rec'.state = "ok" /\ rec'.len = child[c].next
          /\ child'[c].pc = IF child[c].next = TreeSize THEN "tail" ELSE "post"
          /\ child'[c].next = child[c].next + 1
      BY <2>2 DEF WriteRecord, TypeOK
    <3>2. JournalInv'
      BY <1>2, <1>3, <2>1, <3>1 DEF TreeInv, JournalInv
    <3>3. CopiesInv'
      BY <1>0, <1>3, <1>4, <1>5, <1>13, <2>1, <2>2, <3>1 DEF TreeInv, CopiesInv, One
    <3> QED
      BY <1>3, <2>1, <3>1, <3>2, <3>3 DEF TreeInv
  <2>3. CASE lost' = lost + 1 /\ WriteRecord(child[c].next - 1) /\ ChildGoto(c, "exit1")
    <3>1. child'[c].pc = "exit1" /\ rec'.state = "ok" /\ rec'.len = rec.len
      BY <2>1, <2>3 DEF ChildGoto, WriteRecord, TypeOK, Child
    <3>2. JournalInv'
      BY <1>2, <3>1 DEF TreeInv, JournalInv
    <3>3. CopiesInv'
      BY <1>0, <1>3, <1>4, <1>5, <1>13, <2>1, <2>3, <3>1 DEF TreeInv, CopiesInv, One
    <3> QED
      BY <1>3, <3>1, <3>2, <3>3 DEF TreeInv
  <2> QED
    BY <1>8, <2>2, <2>3 DEF ChildAck
<1>9. CASE ChildTail(c)
  <2>1. child[c].pc = "tail" /\ rec.len = TreeSize /\ copies' = copies /\ lost' = lost
    BY <1>9 DEF ChildTail, ChildAt, TreeInv, JournalInv
  <2>2. child'[c].pc \in {"exit0", "exit1"} /\ rec'.state = "ok" /\ rec'.len = TreeSize
    BY <1>9 DEF ChildTail, ChildGoto, WriteRecord, TypeOK, Child
  <2>3. JournalInv'
    BY <1>2, <2>2 DEF TreeInv, JournalInv
  <2>4. CopiesInv'
    BY <1>0, <1>3, <1>4, <1>5, <1>13, <2>1, <2>2 DEF TreeInv, CopiesInv, One
  <2> QED
    BY <1>3, <2>1, <2>2, <2>3, <2>4 DEF TreeInv
<1>10. ~OrphanExits(c)
  BY <1>2 DEF OrphanExits, Attended, At
<1> QED
  BY <1>6, <1>7, <1>8, <1>9, <1>10 DEF ChildStep

\* When every child is gone and at most its unanswered request lost, the tracker
\* is covered by what is left of the record.
LEMMA TreeAfterKill ==
  ASSUME TreeState, UNCHANGED copies, \A c \in Workers : child'[c].pc = "none",
         \/ rec' = rec
         \/ rec' = Torn /\ \E c \in Alive : child'[c] = NoChild,
         lost' \in Nat, lost' >= lost, (\E c \in Workers : child[c].pc = "ack") => lost' >= lost + 1
  PROVE  TreeInv' /\ RecordKept
<1> USE DEF TreeState, TypeInv
<1>1. RecordKept /\ (rec'.state # "ok" => rec'.len = 0)
  <2>1. rec = Torn \/ rec.state # "torn"
    BY DEF TreeInv, JournalInv, TypeOK, Record, Torn
  <2>2. rec.len \in Nat
    BY SizesAssumption DEF TypeOK, Record
  <2> QED
    BY <2>1, <2>2 DEF RecordKept, TreeInv, JournalInv, Torn
<1>2. JournalInv'
  BY <1>1 DEF JournalInv
<1>3. \A k \in Issues : ~Flying(k)'
  BY DEF Flying
<1>4. ASSUME NEW k \in Issues
      PROVE  /\ copies'[k] <= One(Kept(k)') + One(Flying(k)') + lost'
             /\ k <= rec'.len \/ Flying(k)' => copies'[k] >= 1
  <2>1. copies[k] \in Nat /\ lost \in Nat /\ k >= 1
    BY DEF TypeOK, Issues
  <2>2. /\ copies[k] <= One(Kept(k)) + One(Flying(k)) + lost
        /\ k <= rec.len \/ Flying(k) => copies[k] >= 1
    BY DEF TreeInv, CopiesInv
  <2>3. Flying(k) => lost' >= lost + 1
    BY DEF Flying
  <2>4. Kept(k) => Kept(k)'
    BY DEF Kept, Torn
  <2>5. copies[k] <= One(Kept(k)') + lost'
    BY <2>1, <2>2, <2>3, <2>4 DEF One
  <2>6. k <= rec'.len => k <= rec.len
    <3>1. rec' = Torn => ~(k <= rec'.len)
      BY DEF Torn, Issues
    <3> QED
      BY <3>1
  <2> QED
    BY <1>3, <2>2, <2>5, <2>6 DEF One
<1> QED
  BY <1>1, <1>2, <1>4 DEF TreeInv, CopiesInv

\* A worker that starts, kills or collects its child keeps the journal.
LEMMA TrackerTree ==
  ASSUME TreeState, NEW w \in Workers, CreateGuard(w) \/ CreateTimeout(w) \/ CreateExited(w)
  PROVE  TreeInv' /\ RecordKept
<1> USE DEF TreeState, TypeInv
<1>1. \A d \in Workers \ {w} : worker'[d] = worker[d] /\ child'[d] = child[d]
  BY DEF CreateGuard, CreateTimeout, CreateExited, Exit, Done, Goto, TypeOK
<1>2. \A d \in Workers \ {w} : child[d].pc = "none"
  <2>1. worker[w].kind = "create"
    BY DEF CreateGuard, CreateTimeout, CreateExited, At
  <2> QED
    BY <2>1, ChildAlone, OneAttended
<1>3. rec.len \in Nat /\ lost \in Nat
  BY SizesAssumption DEF TypeOK, Record
<1>4. CASE CreateGuard(w)
  <2>1. UNCHANGED <<rec, copies, lost>> /\ ~Attended(w)
    BY <1>4 DEF CreateGuard, At, treeVars, Attended
  <2>2. CASE UNCHANGED child
    BY <1>1, <1>3, <2>1, <2>2, SlotQuiet, QuietTree
  <2>3. CASE /\ Goto(w, "live") /\ Permits
             /\ child' = [child EXCEPT ![w] = [pc |-> "boot", next |-> 1]]
    <3>1. child'[w] = [pc |-> "boot", next |-> 1] /\ Attended(w)'
      BY <1>4, <2>3 DEF CreateGuard, At, Goto, Attended, TypeOK, Worker
    <3>2. JournalInv'
      BY <1>1, <1>2, <2>1, <2>3, <3>1 DEF TreeInv, JournalInv, Permits, CleanEmpty
    <3>3. child[w].pc = "none"
      BY <2>1 DEF TreeInv, JournalInv
    <3>4. \A k \in Issues : Flying(k)' = Flying(k) /\ Kept(k)' = Kept(k)
      BY <1>1, <2>1, <3>1, <3>3 DEF Flying, Kept
    <3>5. CopiesInv'
      BY <2>1, <3>4 DEF TreeInv, CopiesInv, One
    <3> QED
      BY <1>3, <2>1, <2>3, <3>2, <3>5 DEF TreeInv, RecordKept, Permits, CleanEmpty
  <2> QED
    BY <1>4, <2>2, <2>3 DEF CreateGuard, Permits
<1>5. CASE CreateTimeout(w)
  <2>1. /\ UNCHANGED copies /\ child'[w].pc = "none" /\ rec' \in KilledRecords(w)
        /\ lost' = IF child[w].pc = "ack" THEN lost + 1 ELSE lost
    BY <1>5 DEF CreateTimeout, TypeOK, NoChild
  <2>2. child[w].pc = "none" => rec' = rec
    BY <2>1 DEF KilledRecords
  <2>3. lost' \in Nat /\ lost' >= lost /\ ((\E c \in Workers : child[c].pc = "ack") => lost' >= lost + 1)
    BY <1>2, <1>3, <2>1
  <2>4. /\ \A c \in Workers : child'[c].pc = "none"
        /\ rec' = rec \/ (rec' = Torn /\ \E c \in Alive : child'[c] = NoChild)
    BY <1>1, <1>2, <1>5, <2>1, <2>2 DEF KilledRecords, Alive, CreateTimeout, TypeOK
  <2> QED
    BY <2>1, <2>3, <2>4, TreeAfterKill
<1>6. CASE CreateExited(w)
  <2>1. UNCHANGED <<rec, copies, lost>> /\ child'[w].pc = "none" /\ child[w].pc # "ack"
    BY <1>6 DEF CreateExited, TypeOK, NoChild, treeVars
  <2>2. lost' \in Nat /\ lost' >= lost /\ ~\E c \in Workers : child[c].pc = "ack"
    BY <1>2, <1>3, <2>1
  <2>3. \A c \in Workers : child'[c].pc = "none"
    BY <1>1, <1>2, <2>1
  <2> QED
    BY <2>1, <2>2, <2>3, TreeAfterKill
<1> QED
  BY <1>4, <1>5, <1>6

\* So does a crash that takes the child along.
LEMMA RestartTree ==
  ASSUME TreeState, Restart
  PROVE  TreeInv' /\ RecordKept
<1> USE DEF TreeState, TypeInv
<1> DEFINE acked == {c \in Alive : child[c].pc = "ack"}
<1>1. /\ UNCHANGED copies /\ \A c \in Workers : child'[c].pc = "none"
      /\ lost' = lost + Cardinality(acked)
      /\ rec' = rec \/ (rec' = Torn /\ \E c \in Alive : child'[c] = NoChild)
  BY DEF Restart, ChildrenDie, KilledRecords, NoChild, Alive
<1>2. IsFiniteSet(acked) /\ Cardinality(acked) \in Nat
  <2>1. acked \in SUBSET Workers
    BY DEF Alive
  <2> QED
    BY <2>1, WorkersAssumption, FS_Subset, FS_CardinalityType
<1>3. (\E c \in Workers : child[c].pc = "ack") => acked # {}
  BY DEF Alive
<1> HIDE DEF acked
<1>4. Cardinality(acked) = 0 => acked = {}
  BY <1>2, FS_EmptySet
<1>5. lost \in Nat
  BY DEF TypeOK
<1>6. lost' \in Nat /\ lost' >= lost /\ ((\E c \in Workers : child[c].pc = "ack") => lost' >= lost + 1)
  BY <1>1, <1>2, <1>3, <1>4, <1>5
<1> QED
  BY <1>1, <1>6, TreeAfterKill

\* Every step keeps the journal; only a kill takes anything out of the record.
LEMMA TreeStep ==
  ASSUME TreeState, [Next]_vars
  PROVE  TreeInv' /\ RecordKept
<1>2. ASSUME TreeQuiet
      PROVE  TreeInv' /\ RecordKept
  BY <1>2, QuietTree DEF TreeState, TypeInv
<1> USE DEF TreeState, TypeInv
<1>3. CASE CreatePlan
  <2>1. UNCHANGED <<child, rec, copies, lost>>
    BY <1>3 DEF CreatePlan, treeVars
  <2> QED
    BY <1>2, <1>3, <2>1, StartQuiet DEF CreatePlan, TransitionAndStart
<1>4. CASE Surface
  BY <1>2, <1>4, StartQuiet DEF Surface, treeVars
<1>5. CASE \E r \in Requests : Handler(r)
  BY <1>2, <1>5, HandlerQuiet
<1>6. CASE \E w \in Workers : WorkerStep(w)
  BY <1>2, <1>6, WorkerQuiet, TrackerTree
<1>7. CASE \E c \in Workers : ChildStep(c)
  BY <1>7, ChildTree DEF RecordKept
<1>8. CASE Restart
  BY <1>8, RestartTree
<1>9. CASE UNCHANGED vars
  BY <1>2, <1>9 DEF vars, TreeQuiet, Attended, At
<1> QED
  BY <1>3, <1>4, <1>5, <1>6, <1>7, <1>8, <1>9 DEF Next

LEMMA TreeInit == Init => TreeInv
<1> SUFFICES ASSUME Init PROVE TreeInv
  OBVIOUS
<1>1. rec.len = 0 /\ lost = 0 /\ \A c \in Workers : child[c].pc = "none"
  BY DEF Init, NoChild
<1>2. JournalInv
  BY <1>1 DEF JournalInv
<1>3. ASSUME NEW k \in Issues PROVE copies[k] = 0 /\ ~Flying(k) /\ ~Kept(k) /\ ~(k <= rec.len)
  BY <1>1 DEF Init, Flying, Issues, Kept
<1> QED
  BY <1>1, <1>2, <1>3 DEF TreeInv, CopiesInv, One

LEMMA TreeAlways ==
  ASSUME OrphansSurvive = FALSE
  PROVE  Spec => [](TypeInv /\ OneWorker /\ TreeInv)
<1>1. Init => TypeInv /\ OneWorker /\ TreeInv
  BY TypeInit, OneWorkerInit, TreeInit
<1>2. TypeInv /\ OneWorker /\ TreeInv /\ [Next]_vars => (TypeInv /\ OneWorker /\ TreeInv)'
  BY TypeStep, OneWorkerStep, TreeStep DEF TreeState, TypeInv
<1> QED
  BY <1>1, <1>2, PTL DEF Spec

\* The journal is write-ahead: with no child outliving the service, whatever is
\* on the tracker is in the record, in a request still in flight, or was lost
\* with an unanswered request; through timeouts, crashes and failed saves, and
\* through every kill that does not cut a write of the record short.
THEOREM JournalCoversAlways ==
  ASSUME OrphansSurvive = FALSE
  PROVE  Spec => []JournalCoversTracker
<1>1. ASSUME TypeInv, TreeInv, rec.state # "torn", NEW k \in Issues
      PROVE  copies[k] <= (IF k <= rec.len THEN 1 ELSE 0)
                 + Cardinality({c \in Alive : child[c].pc = "ack" /\ child[c].next = k})
                 + lost
  <2> DEFINE flying == {c \in Alive : child[c].pc = "ack" /\ child[c].next = k}
  <2>1. IsFiniteSet(flying) /\ Cardinality(flying) \in Nat
    <3>1. flying \in SUBSET Workers
      BY DEF Alive
    <3> QED
      BY <3>1, WorkersAssumption, FS_Subset, FS_CardinalityType
  <2>2. Flying(k) => flying # {}
    BY DEF Flying, Alive
  <2> HIDE DEF flying
  <2>3. Flying(k) => Cardinality(flying) >= 1
    BY <2>1, <2>2, FS_EmptySet
  <2>4. copies[k] \in Nat /\ lost \in Nat
    BY <1>1 DEF TypeInv, TypeOK
  <2>5. copies[k] <= One(k <= rec.len) + One(Flying(k)) + lost
    BY <1>1 DEF TreeInv, CopiesInv, Kept
  <2>6. copies[k] <= (IF k <= rec.len THEN 1 ELSE 0) + Cardinality(flying) + lost
    BY <2>1, <2>3, <2>4, <2>5 DEF One
  <2> QED
    BY <2>6 DEF flying
<1>2. TypeInv /\ TreeInv => JournalCoversTracker
  BY <1>1 DEF JournalCoversTracker
<1> QED
  BY TreeAlways, <1>2, PTL

----------------------------------------------------------------------------
(***************************************************************************)
(* What `created` and `cancelled` may be trusted for, when no child        *)
(* outlives the service.  Memory and file can differ after a save that     *)
(* threw, and a restart promotes the file: both have to tell the truth.    *)
(***************************************************************************)
\* The status and the marker of a copy of the plan.
Same(q, p) == q.status = p.status /\ q.created = p.created

\* A copy with a marker is past its create, and the marker names a readable record.
Marked(q) == q.status \in {"creating", "created", "failed", "cancelling", "cancelled"}

\* A copy that claims nothing of the tree it did not claim before.
Modest(q) ==
  /\ q.status \notin {"created", "cancelled"} /\ q.created \in {mem.created, "partial"}
  /\ q.created # "none" => Marked(q) /\ rec.state = "ok"

\* A handler claims nothing new, and moves only a plan that no worker runs.
HandlerStores ==
  /\ \/ Same(mem', mem)
     \/ mem.status \notin Transient \cup {"cancelled"} /\ Modest(mem')
  /\ \/ disk' = disk \/ Same(disk', mem') \/ Same(disk', mem)
     \/ Modest(disk') /\ disk'.created = mem.created

\* A worker saves memory and file alike.
WorkerStores ==
  /\ mem.status \in Transient
  /\ \/ UNCHANGED <<mem, disk>>
     \/ /\ disk' = mem'
        /\ \/ Modest(mem') /\ (mem'.created # mem.created => UNCHANGED rec)
           \/ /\ rec.state = "ok" /\ rec.len = TreeSize /\ UNCHANGED rec
              /\ mem'.status \in {"created", "failed"} /\ mem'.created = "full"
           \/ /\ mem'.status = "cancelled" /\ mem'.created = mem.created
              /\ rec.state = "ok" /\ \A k \in 1..rec.len : swept[k] # "open"
              /\ UNCHANGED <<rec, swept>>

\* A copy that promises a complete tree is right.
Truthful(p) ==
  /\ p.created = "full" => rec.len = TreeSize
  /\ p.status = "created" => p.created = "full"

CompleteInv ==
  /\ Truthful(mem) /\ Truthful(disk)
  /\ \A w \in Workers :
       /\ At(w, "create", "verify") => rec.len = TreeSize
       /\ worker[w].kind = "verify" => mem.created = "full"

SweptInv ==
  /\ disk.status = "cancelled" => mem.status = "cancelled"
  /\ mem.status = "cancelled" =>
       rec.state = "ok" /\ \A k \in 1..rec.len : swept[k] # "open"

\* A marker names a record that is readable and that no child will write again.
MarkerInv ==
  /\ mem.created # "none" => Marked(mem) /\ rec.state = "ok"
  /\ disk.created # "none" => Marked(disk) /\ mem.created # "none"
  /\ \A w \in Workers :
       /\ worker[w].kind = "create" => mem.created = "none"
       /\ At(w, "create", "verify") => rec.state = "ok"

ClaimInv == CompleteInv /\ SweptInv /\ MarkerInv

ClaimState == TreeState /\ ClaimInv

\* A handler that hands the plan to a worker claims nothing.
LEMMA TransitionStores ==
  ASSUME TypeOK, MarkerInv, NEW to \in Transient, NEW kind, NEW pc,
         mem.status \notin Transient \cup {"cancelled"}, TransitionAndStart(to, kind, pc),
         mem.created # "none" => to \in {"creating", "cancelling"}
  PROVE  HandlerStores /\ mem'.created = mem.created
<1>1. mem' = [mem EXCEPT !.status = to] /\ disk' \in {mem', disk}
  BY DEF TransitionAndStart, Persist, PersistThrows
<1>2. mem'.status = to /\ mem'.created = mem.created
  BY <1>1 DEF TypeOK, Plan
<1> QED
  BY <1>1, <1>2 DEF HandlerStores, Same, Modest, Marked, MarkerInv, Transient

\* The worker a handler starts is at its first await, and knows its marker.
Starts ==
  \A w \in Workers :
    \/ worker'[w] = worker[w]
    \/ /\ worker'[w].kind = "verify" => mem'.created = "full"
       /\ worker'[w].kind = "create" => mem'.created = "none"
       /\ ~At(w, "create", "verify")'

LEMMA StartStarts ==
  ASSUME TypeOK, NEW kind, NEW pc, NEW edited, Start(kind, pc, edited) \/ UNCHANGED worker,
         kind = "verify" => mem'.created = "full",
         kind = "create" => mem'.created = "none" /\ pc # "verify"
  PROVE  Starts
  BY DEF Start, Starts, At, TypeOK

LEMMA TransitionStarts ==
  ASSUME TypeOK, MarkerInv, NEW to \in Transient, NEW kind, NEW pc,
         mem.status \notin Transient \cup {"cancelled"}, TransitionAndStart(to, kind, pc),
         mem.created # "none" => to \in {"creating", "cancelling"},
         kind = "verify" => mem.created = "full",
         kind = "create" => mem.created = "none" /\ pc # "verify"
  PROVE  HandlerStores /\ Starts
  BY TransitionStores, StartStarts DEF TransitionAndStart

LEMMA HandlerClaims ==
  ASSUME TypeOK, MarkerInv, NEW r \in Requests, Handler(r)
  PROVE  HandlerStores /\ Starts
<1>1. CASE Arrive(r) \/ Refuse(r)
  BY <1>1 DEF Arrive, Refuse, planVars, HandlerStores, Starts, Same
<1>2. CASE ApproveShape(r)
  <2> DEFINE p == EditedPlan(r)
             q == [p EXCEPT !.status = "grooming"]
  <2>1. Same(p, mem) /\ q.status = "grooming" /\ q.created = mem.created
    BY DEF EditedPlan, Same, TypeOK, Plan
  <2>2. \/ mem.status = "shape_ready" /\ mem' = q /\ disk' \in {q, p, disk}
        \/ mem' \in {p, mem} /\ disk' \in {p, disk}
    BY <1>2 DEF ApproveShape, Persist, PersistThrows
  <2> HIDE DEF p, q
  <2>3. HandlerStores
    BY <2>1, <2>2 DEF HandlerStores, Same, Modest, Marked, MarkerInv, Transient
  <2>4. Starts
    BY <1>2, StartStarts DEF ApproveShape
  <2> QED
    BY <2>3, <2>4
<1>3. CASE Create(r) \/ Cancel(r)
  <2>1. Create(r) => mem.created = "none"
    BY DEF Create, MarkerInv, Marked
  <2> QED
    BY <1>3, <2>1, TransitionStarts DEF Create, Cancel, Transient
<1>4. CASE Reject(r)
  <2>1. mem' = [mem EXCEPT !.status = "rejected"] /\ disk' \in {mem', disk} /\ UNCHANGED worker
    BY <1>4 DEF Reject, Persist, PersistThrows
  <2>2. mem'.status = "rejected" /\ mem'.created = mem.created
    BY <2>1 DEF TypeOK, Plan
  <2> QED
    BY <1>4, <2>1, <2>2 DEF Reject, Rejectable, HandlerStores, Starts, Same, Modest, Marked,
       MarkerInv, Transient
<1>5. CASE Retry(r)
  <2>1. mem.status \notin Transient \cup {"cancelled"}
    BY <1>5 DEF Retry, Retryable, Transient
  <2>2. CASE RetryVerify \/ RetryLadder
    <3>1. RetryLadder => mem.created = "none"
      BY DEF RetryLadder, RecordBlocks, TypeOK, Plan
    <3>2. CASE RetryVerify
      BY <2>1, <3>2, TransitionStarts DEF RetryVerify, Transient
    <3>3. ASSUME NEW to \in Transient, NEW kind \in {"phase1", "groom", "create"},
                 NEW pc \in {"check", "guard"}, TransitionAndStart(to, kind, pc),
                 mem.created = "none"
          PROVE  HandlerStores /\ Starts
      BY <2>1, <3>3, TransitionStarts
    <3>4. ASSUME RetryLadder
          PROVE  HandlerStores /\ Starts
      <4>1. \E to \in Transient, kind \in {"phase1", "groom", "create"}, pc \in {"check", "guard"} :
              TransitionAndStart(to, kind, pc)
        BY <3>4 DEF RetryLadder, Transient
      <4> QED
        BY <3>1, <3>3, <3>4, <4>1
    <3> QED
      BY <2>2, <3>2, <3>4
  <2>3. CASE RetryBlocked
    <3> DEFINE p == [mem EXCEPT !.status = "creating"]
               q == [p EXCEPT !.created = "partial"]
    <3>1. /\ p.status = "creating" /\ p.created = mem.created
          /\ q.status = "creating" /\ q.created = "partial"
      BY DEF TypeOK, Plan
    <3>2. mem' \in {p, q} /\ disk' \in {p, mem', disk}
      BY <2>3 DEF RetryBlocked, Persist, PersistThrows
    <3>3. mem.created # "none" \/ mem' = q => rec.state = "ok"
      <4>1. mem.created # "none" => rec.state = "ok"
        BY DEF MarkerInv
      <4>2. p = q => mem.created # "none"
        BY <3>1
      <4>3. (rec.state = "ok" /\ rec.len > 0) \/ mem' = p
        BY <2>3 DEF RetryBlocked, Persist, PersistThrows
      <4> QED
        BY <4>1, <4>2, <4>3
    <3> HIDE DEF p, q
    <3>4. HandlerStores
      BY <2>1, <3>1, <3>2, <3>3 DEF HandlerStores, Same, Modest, Marked, MarkerInv
    <3>5. Starts
      BY <2>3, StartStarts DEF RetryBlocked
    <3> QED
      BY <3>4, <3>5
  <2> QED
    BY <1>5, <2>2, <2>3 DEF Retry
<1> QED
  BY <1>1, <1>2, <1>3, <1>4, <1>5 DEF Handler

\* A worker's last save, thrown or not.
LEMMA ExitStores ==
  ASSUME TypeOK, NEW w \in Workers, NEW p \in Plan, Exit(w, p)
  PROVE  /\ disk' = mem' /\ mem'.created = p.created
         /\ mem'.status \in {p.status, "failed"}
         /\ worker' = [worker EXCEPT ![w] = NoWorker]
  BY DEF Exit, Done, Persist, CaughtThrow, Plan

\* One that only tells how the phase ended.
LEMMA ExitModest ==
  ASSUME TypeOK, NEW w \in Workers, NEW p \in Plan, Exit(w, p), mem.status \in Transient,
         p.status \notin {"created", "cancelled"}, p.created \in {mem.created, "partial"},
         p.created # "none" => Marked(p) /\ rec.state = "ok",
         p.created # mem.created => UNCHANGED rec
  PROVE  WorkerStores
  BY ExitStores DEF WorkerStores, Modest, Marked

LEMMA FailedModest ==
  ASSUME TypeOK, MarkerInv, NEW w \in Workers, Exit(w, Failed), mem.status \in Transient
  PROVE  WorkerStores
  BY ExitModest, FailedTyped DEF Failed, TypeOK, Plan, MarkerInv, Marked

\* A planning worker leaves the marker alone.
LEMMA PlanningStores ==
  ASSUME TypeInv, OneWorker, MarkerInv, NEW w \in Workers, mem.status \in Transient,
         \/ Check(w) \/ Phase1Returns(w) \/ GroomReturns(w) \/ EngineThrows(w)
         \/ SpendThrows(w) \/ Phase1Gated(w) \/ GroomGated(w) \/ GroomSearched(w)
  PROVE  WorkerStores
<1> USE DEF TypeInv
<1>0. mem.created = "none"
  <2>1. worker[w].kind \in {"phase1", "groom"}
    BY DEF Check, Phase1Returns, GroomReturns, EngineThrows, SpendThrows, Phase1Gated,
       GroomGated, GroomSearched, At
  <2> QED
    BY <2>1 DEF OneWorker, Active, RunsAs, MarkerInv, Marked
<1>1. CASE Check(w)
  <2>1. ASSUME NEW to \in Retryable, Exit(w, [mem EXCEPT !.status = to])
        PROVE  WorkerStores
    <3>1. [mem EXCEPT !.status = to] \in Plan
      BY StatusPatch DEF TypeOK, Status
    <3> QED
      BY <1>0, <2>1, <3>1, ExitModest, StatusOnly DEF Retryable
  <2> QED
    BY <1>1, <2>1 DEF Check, WorkerStores, planVars
<1>2. CASE Phase1Returns(w) \/ GroomReturns(w)
  BY <1>2 DEF Phase1Returns, GroomReturns, WorkerStores, planVars
<1>3. CASE EngineThrows(w) \/ SpendThrows(w)
  BY <1>3, FailedModest DEF EngineThrows, SpendThrows
<1>4. worker[w].attempt \in 0..MaxRegen /\ (worker[w].attempt < MaxRegen => worker[w].attempt + 1 \in 0..MaxRegen)
  BY SizesAssumption DEF TypeOK, Worker
<1>5. ASSUME NEW p \in Plan, Regenerate(w, p), p.status = mem.status, p.created = mem.created
      PROVE  WorkerStores
  <2>1. disk' = mem' /\ mem'.created = p.created /\ mem'.status \in {p.status, "failed"}
    BY <1>5 DEF Regenerate, Persist, CaughtThrow, Plan
  <2> QED
    BY <1>0, <1>5, <2>1 DEF WorkerStores, Modest, Transient
<1>6. CASE Phase1Gated(w)
  <2> DEFINE n == worker[w].attempt
             p == [mem EXCEPT !.skel = skelFile, !.regenShape = n]
             ready == [p EXCEPT !.status = "shape_ready", !.skelGate = "ok"]
             fails == [p EXCEPT !.status = "failed", !.skelGate = "bad"]
             again == [p EXCEPT !.skelGate = "bad", !.regenShape = n + 1]
  <2>1. /\ ready \in Plan /\ ready.status = "shape_ready" /\ ready.created = mem.created
        /\ fails \in Plan /\ fails.status = "failed" /\ fails.created = mem.created
        /\ n < MaxRegen => again \in Plan
        /\ again.status = mem.status /\ again.created = mem.created
    <3> HIDE DEF n
    <3>1. n \in 0..MaxRegen => p \in Plan /\ p.created = mem.created /\ p.status = mem.status
      BY DEF TypeOK, Plan
    <3>2. n \in 0..MaxRegen /\ (n < MaxRegen => n + 1 \in 0..MaxRegen)
      BY <1>4 DEF n
    <3> HIDE DEF p
    <3> QED
      BY <3>1, <3>2 DEF Plan, Status, Rejectable, Retryable, Verdict
  <2>2. Exit(w, ready) \/ Exit(w, fails) \/ (n < MaxRegen /\ Regenerate(w, again))
    BY <1>6 DEF Phase1Gated, Regenerate
  <2> HIDE DEF ready, fails, again, n
  <2> QED
    BY <1>0, <2>1, <2>2, <1>5, ExitModest
<1>7. CASE GroomGated(w)
  <2> DEFINE n == worker[w].attempt
             p == [mem EXCEPT !.planGate = "bad", !.regenGroom = n]
             fails == [p EXCEPT !.status = "failed"]
             again == [p EXCEPT !.regenGroom = n + 1]
  <2>1. /\ fails \in Plan /\ fails.status = "failed" /\ fails.created = mem.created
        /\ n < MaxRegen => again \in Plan
        /\ again.status = mem.status /\ again.created = mem.created
    <3> HIDE DEF n
    <3>1. n \in 0..MaxRegen => p \in Plan /\ p.created = mem.created /\ p.status = mem.status
      BY DEF TypeOK, Plan, Verdict
    <3>2. n \in 0..MaxRegen /\ (n < MaxRegen => n + 1 \in 0..MaxRegen)
      BY <1>4 DEF n
    <3> HIDE DEF p
    <3> QED
      BY <3>1, <3>2 DEF Plan, Status, Retryable
  <2>2. \/ UNCHANGED <<mem, disk>> \/ Exit(w, fails)
        \/ n < MaxRegen /\ Regenerate(w, again)
    BY <1>7 DEF GroomGated, Regenerate, planVars
  <2> HIDE DEF fails, again, n
  <2> QED
    BY <1>0, <2>1, <2>2, <1>5, ExitModest DEF WorkerStores
<1>8. CASE GroomSearched(w)
  <2> DEFINE ready == [mem EXCEPT !.status = "plan_ready", !.planGate = "ok",
                                  !.regenGroom = worker[w].attempt]
  <2>1. ready \in Plan /\ ready.status = "plan_ready" /\ ready.created = mem.created
    BY <1>4 DEF TypeOK, Plan, Status, Rejectable, Verdict
  <2>2. Exit(w, ready)
    BY <1>8 DEF GroomSearched
  <2> HIDE DEF ready
  <2> QED
    BY <1>0, <2>1, <2>2, ExitModest
<1> QED
  BY <1>1, <1>2, <1>3, <1>6, <1>7, <1>8

\* A tracker worker claims a complete tree after it saw the record complete, and
\* a cancelled one after the sweep.
LEMMA TrackerStores ==
  ASSUME ClaimState, NEW w \in Workers, mem.status \in Transient,
         \/ CreateGuard(w) \/ CreateTimeout(w) \/ CreateExited(w)
         \/ CreateVerified(w) \/ Verified(w) \/ Sweep(w) \/ CancelDone(w)
  PROVE  WorkerStores
<1> USE DEF ClaimState, TreeState, TypeInv, ClaimInv
<1>1. CASE CreateGuard(w) \/ CreateTimeout(w) \/ CreateExited(w)
  BY <1>1, FailedModest DEF CreateGuard, CreateTimeout, CreateExited, WorkerStores, planVars
<1>2. CASE CreateVerified(w)
  <2>1. rec.state = "ok" /\ rec.len = TreeSize /\ UNCHANGED rec
    BY <1>2 DEF CreateVerified, CompleteInv, MarkerInv, treeVars
  <2>2. ASSUME NEW to \in {"created", "failed"},
               Exit(w, [mem EXCEPT !.status = to, !.created = "full"])
        PROVE  WorkerStores
    <3> DEFINE p == [mem EXCEPT !.status = to, !.created = "full"]
    <3>1. p \in Plan /\ p.status = to /\ p.created = "full"
      BY DEF TypeOK, Plan, Status, Retryable
    <3> HIDE DEF p
    <3> QED
      BY <2>1, <2>2, <3>1, ExitStores DEF WorkerStores, p
  <2> QED
    BY <1>2, <2>2, FailedModest DEF CreateVerified
<1>3. CASE Verified(w)
  <2>1. ASSUME worker[w].kind = "verify", NEW to \in {"created", "failed"},
               Exit(w, [mem EXCEPT !.status = to])
        PROVE  WorkerStores
    <3> DEFINE p == [mem EXCEPT !.status = to]
    <3>1. p \in Plan /\ p.status = to /\ p.created = "full" /\ rec.len = TreeSize
      BY <2>1, StatusPatch DEF TypeOK, Plan, Status, Retryable, CompleteInv, Truthful
    <3>2. rec.state = "ok" /\ UNCHANGED rec
      BY <1>3, <2>1 DEF CompleteInv, MarkerInv, Verified, treeVars
    <3> HIDE DEF p
    <3> QED
      BY <2>1, <3>1, <3>2, ExitStores DEF WorkerStores, p
  <2>2. ASSUME rec.state = "ok", Exit(w, [Failed EXCEPT !.created = "partial"])
        PROVE  WorkerStores
    <3> DEFINE p == [Failed EXCEPT !.created = "partial"]
    <3>1. p \in Plan /\ p.status = "failed" /\ p.created = "partial"
      BY FailedTyped DEF Failed, TypeOK, Plan
    <3> HIDE DEF p
    <3>2. UNCHANGED rec
      BY <1>3 DEF Verified, treeVars
    <3> QED
      BY <2>2, <3>1, <3>2, ExitModest DEF p, Marked
  <2> QED
    BY <1>3, <2>1, <2>2, FailedModest DEF Verified
<1>4. CASE Sweep(w)
  BY <1>4 DEF Sweep, WorkerStores, planVars
<1>5. CASE CancelDone(w)
  <2>1. CASE /\ rec.state = "ok" /\ \A k \in 1..rec.len : swept[k] # "open"
             /\ Exit(w, [mem EXCEPT !.status = "cancelled"])
    <3> DEFINE p == [mem EXCEPT !.status = "cancelled"]
    <3>1. p \in Plan /\ p.status = "cancelled" /\ p.created = mem.created
      BY StatusPatch DEF TypeOK, Plan, Status, Final
    <3>2. UNCHANGED <<rec, swept>>
      BY <1>5 DEF CancelDone, treeVars
    <3> HIDE DEF p
    <3>3. disk' = mem' /\ mem'.created = mem.created /\ mem'.status \in {"cancelled", "failed"}
      BY <2>1, <3>1, ExitStores DEF p
    <3> QED
      BY <2>1, <3>2, <3>3 DEF WorkerStores, Modest, Marked, MarkerInv
  <2> QED
    BY <1>5, <2>1, FailedModest DEF CancelDone
<1> QED
  BY <1>1, <1>2, <1>3, <1>4, <1>5

\* Once there is a marker no step touches the record.
LEMMA MarkerHolds ==
  ASSUME ClaimState, mem.created # "none", [Next]_vars
  PROVE  UNCHANGED rec
<1> USE DEF ClaimState, TreeState, TypeInv, ClaimInv
<1>1. \A w \in Workers : worker[w].kind # "create" /\ child[w].pc = "none"
  BY ChildAlone DEF MarkerInv, Attended, At
<1>2. CASE CreatePlan \/ Surface \/ UNCHANGED vars \/ \E r \in Requests : Handler(r)
  BY <1>2 DEF CreatePlan, Surface, vars, treeVars, Handler, Arrive, Refuse, ApproveShape,
     Create, Reject, Retry, Cancel
<1>3. ASSUME NEW w \in Workers, WorkerStep(w)
      PROVE  UNCHANGED rec
  <2>1. ~CreateTimeout(w)
    BY <1>1 DEF CreateTimeout, At
  <2> QED
    BY <1>3, <2>1 DEF WorkerStep, Check, Phase1Returns, GroomReturns, EngineThrows,
       SpendThrows, Phase1Gated, GroomGated, GroomSearched, CreateGuard,
       CreateExited, CreateVerified, Verified, Sweep, CancelDone, treeVars
<1>4. ~\E c \in Workers : ChildStep(c)
  BY <1>1 DEF ChildStep, ChildBoot, ChildInit, ChildPost, ChildAck, ChildTail, OrphanExits, ChildAt
<1>5. CASE Restart
  <2>1. Alive = {}
    BY <1>1 DEF Alive
  <2> QED
    BY <1>5, <2>1 DEF Restart, ChildrenDie
<1> QED
  BY <1>2, <1>3, <1>4, <1>5 DEF Next

\* A claim that was true, or is made over a complete record, stays true.
LEMMA TruthStays ==
  ASSUME ClaimState, mem.created # "none" => UNCHANGED rec,
         NEW q, \/ Same(q, mem) \/ Same(q, disk) \/ Modest(q)
                \/ rec.len = TreeSize /\ UNCHANGED rec /\ q.created = "full"
  PROVE  /\ q.created = "full" => rec'.len = TreeSize
         /\ q.status = "created" => q.created = "full"
  BY DEF ClaimState, ClaimInv, MarkerInv, CompleteInv, Truthful, Same, Modest

\* A handler finds every claim true, and leaves it so.
LEMMA HandlerClaimsKept ==
  ASSUME ClaimState, HandlerStores, Starts, UNCHANGED rec,
         UNCHANGED swept \/ mem.status # "cancelled"
  PROVE  ClaimInv'
<1> USE DEF ClaimState, TreeState, TypeInv, ClaimInv
<1>2. Truthful(mem)' /\ Truthful(disk)'
  <2>1. Same(disk, disk)
    BY DEF Same
  <2>2. \/ Same(mem', mem) \/ Modest(mem')
    BY DEF HandlerStores
  <2>3. \/ Same(disk', mem) \/ Same(disk', disk) \/ Modest(disk')
    BY <2>1, <2>2 DEF HandlerStores, Same, Modest, Marked
  <2> QED
    BY <2>2, <2>3, TruthStays DEF Truthful
<1>3. ASSUME NEW w \in Workers
      PROVE  /\ At(w, "create", "verify")' => rec'.len = TreeSize /\ rec'.state = "ok"
             /\ worker'[w].kind = "verify" => mem'.created = "full"
             /\ worker'[w].kind = "create" => mem'.created = "none"
  <2>1. CASE worker'[w] = worker[w] /\ worker[w].kind # "none"
    <3>1. mem.status \in Transient
      BY <2>1, RunsTransient DEF OneWorker, Active, TypeOK, Worker
    <3>2. mem'.created = mem.created
      BY <3>1 DEF HandlerStores, Same
    <3> QED
      BY <2>1, <3>2 DEF CompleteInv, MarkerInv, At
  <2>2. CASE worker'[w] = worker[w] /\ worker[w].kind = "none"
    BY <2>2 DEF At
  <2> QED
    BY <2>1, <2>2 DEF Starts
<1>4. SweptInv'
  BY DEF SweptInv, HandlerStores, Same, Modest
<1>5. /\ mem'.created # "none" => Marked(mem') /\ rec'.state = "ok"
      /\ disk'.created # "none" => Marked(disk') /\ mem'.created # "none"
  BY DEF HandlerStores, MarkerInv, Same, Modest, Marked
<1>6. MarkerInv'
  BY <1>3, <1>5 DEF MarkerInv, Marked
<1> QED
  BY <1>2, <1>3, <1>4, <1>6 DEF CompleteInv

\* A worker goes to the read-back only over a complete record, and plants no
\* marker while a create goes on.
LEMMA WorkerReadsBack ==
  ASSUME ClaimState, NEW w \in Workers, WorkerStep(w)
  PROVE  \A v \in Workers :
           /\ At(v, "create", "verify")' => rec'.state = "ok" /\ rec'.len = TreeSize
           /\ worker'[v].kind = "create" => mem'.created = "none"
           /\ worker'[v].kind # "verify"
<1> USE DEF ClaimState, TreeState, TypeInv, ClaimInv
<1>1. /\ Moves(w) /\ worker[w].kind # "none"
      /\ \A v \in Workers \ {w} : worker[v].kind = "none"
  BY WorkerMoves DEF WorkerStep, Check, Phase1Returns, GroomReturns, EngineThrows,
     SpendThrows, Phase1Gated, GroomGated, GroomSearched, CreateGuard, CreateTimeout,
     CreateExited, CreateVerified, Verified, Sweep, CancelDone, At, OneWorker, Active
<1>2. /\ \A v \in Workers \ {w} : worker'[v].kind = "none"
      /\ worker'[w].kind \in {worker[w].kind, "none"}
  BY <1>1 DEF Moves, Done, Goto, NoWorker, TypeOK, Worker
<1>3. worker'[w].kind # "verify"
  <2>1. CASE Verified(w)
    BY <2>1 DEF Verified, Exit, Done, NoWorker, TypeOK
  <2>2. CASE ~Verified(w)
    <3>1. worker[w].kind # "verify"
      BY <2>2 DEF WorkerStep, Check, Phase1Returns, GroomReturns, EngineThrows,
         SpendThrows, Phase1Gated, GroomGated, GroomSearched, CreateGuard, CreateTimeout,
         CreateExited, CreateVerified, Sweep, CancelDone, At
    <3> QED
      BY <1>2, <3>1
  <2> QED
    BY <2>1, <2>2
<1>4. ASSUME worker'[w].kind = "create"
      PROVE  /\ worker'[w].pc = "verify" => rec'.state = "ok" /\ rec'.len = TreeSize
             /\ mem'.created = "none"
  <2>1. worker[w].kind = "create" /\ mem.created = "none"
    BY <1>2, <1>4 DEF MarkerInv
  <2>2. CreateGuard(w) \/ CreateTimeout(w) \/ CreateExited(w) \/ CreateVerified(w)
    BY <2>1 DEF WorkerStep, Check, Phase1Returns, GroomReturns, EngineThrows,
       SpendThrows, Phase1Gated, GroomGated, GroomSearched, Verified, Sweep, CancelDone, At
  <2>3. \A p : ~Exit(w, p)
    BY <1>4 DEF Exit, Done, NoWorker, TypeOK
  <2>4. CASE CreateGuard(w)
    BY <2>1, <2>3, <2>4 DEF CreateGuard, Goto, planVars, TypeOK, Worker
  <2>5. CASE CreateExited(w)
    <3>1. rec.state = "ok" /\ rec.len = TreeSize /\ UNCHANGED <<mem, rec>>
      BY <2>3, <2>5 DEF CreateExited, TreeInv, JournalInv, planVars, treeVars
    <3> QED
      BY <2>1, <3>1
  <2> QED
    BY <2>2, <2>3, <2>4, <2>5 DEF CreateTimeout, CreateVerified
<1> QED
  BY <1>2, <1>3, <1>4 DEF At

\* Whatever a worker does, the claims stay true.
LEMMA WorkerClaims ==
  ASSUME ClaimState, NEW w \in Workers, WorkerStep(w), mem.created # "none" => UNCHANGED rec
  PROVE  ClaimInv'
<1> USE DEF ClaimState, TreeState, TypeInv, ClaimInv
<1>1. mem.status \in Transient /\ mem.status # "cancelled"
  <2>1. worker[w].kind # "none"
    BY DEF WorkerStep, Check, Phase1Returns, GroomReturns, EngineThrows,
       SpendThrows, Phase1Gated, GroomGated, GroomSearched, CreateGuard, CreateTimeout,
       CreateExited, CreateVerified, Verified, Sweep, CancelDone, At
  <2> QED
    BY <2>1, RunsTransient DEF OneWorker, Active, TypeOK, Worker, Transient
<1>2. WorkerStores
  BY <1>1, PlanningStores, TrackerStores DEF WorkerStep
<1>3. Truthful(mem)' /\ Truthful(disk)'
  <2>1. CASE UNCHANGED <<mem, disk>>
    BY <2>1, TruthStays DEF Truthful, Same
  <2>2. CASE /\ disk' = mem'
             /\ \/ Modest(mem')
                \/ rec.len = TreeSize /\ UNCHANGED rec /\ mem'.created = "full"
    BY <2>2, TruthStays DEF Truthful
  <2>3. CASE disk' = mem' /\ mem'.status = "cancelled" /\ mem'.created = mem.created /\ UNCHANGED rec
    BY <2>3 DEF Truthful, CompleteInv
  <2> QED
    BY <1>2, <2>1, <2>2, <2>3 DEF WorkerStores
<1>4. SweptInv'
  BY <1>1, <1>2 DEF SweptInv, WorkerStores, Modest
<1>5. CompleteInv'
  BY <1>3, WorkerReadsBack DEF CompleteInv
<1>6. /\ mem'.created # "none" => Marked(mem') /\ rec'.state = "ok"
      /\ disk'.created # "none" => Marked(disk') /\ mem'.created # "none"
  BY <1>2 DEF WorkerStores, MarkerInv, Modest, Marked
<1>7. MarkerInv'
  BY <1>6, WorkerReadsBack DEF MarkerInv, Marked
<1> QED
  BY <1>4, <1>5, <1>7

\* The child runs under `creating`, so it finds no such claim to disturb.
LEMMA ChildClaims ==
  ASSUME ClaimState, NEW c \in Workers, ChildStep(c)
  PROVE  ClaimInv'
<1> USE DEF ClaimState, TreeState, TypeInv, ClaimInv
<1>1. /\ UNCHANGED <<mem, disk, worker>> /\ child[c].pc # "none"
  BY DEF ChildStep, ChildBoot, ChildInit, ChildPost, ChildAck, ChildTail, OrphanExits, ChildFrame,
         ChildAt, planVars
<1>2. Attended(c) /\ mem.status = "creating"
  BY <1>1, ChildAlone
<1>3. mem.created = "none" /\ disk.created = "none"
  BY <1>2 DEF Attended, At, MarkerInv
<1>4. \A w \in Workers : ~At(w, "create", "verify")
  BY <1>2 DEF Attended, At, OneWorker, Active
<1>5. SweptInv'
  BY <1>1, <1>2 DEF SweptInv
<1>6. CompleteInv'
  BY <1>1, <1>3, <1>4 DEF CompleteInv, Truthful, At
<1>7. MarkerInv'
  BY <1>1, <1>3, <1>4 DEF MarkerInv, At
<1> QED
  BY <1>5, <1>6, <1>7

\* A restart promotes the file, which tells the truth too.
LEMMA RestartClaims ==
  ASSUME ClaimState, Restart, mem.created # "none" => UNCHANGED rec
  PROVE  ClaimInv'
<1> USE DEF ClaimState, TreeState, TypeInv, ClaimInv
<1>1. /\ disk' = mem' /\ UNCHANGED swept
      /\ \A w \in Workers : worker'[w].kind = "none"
      /\ mem' = disk \/ (mem'.status = "failed" /\ mem'.created = disk.created)
  BY DEF Restart, Reload, NoWorker, TypeOK, Plan
<1>2. Truthful(mem)' /\ Truthful(disk)'
  BY <1>1 DEF Truthful, CompleteInv, MarkerInv
<1>3. SweptInv'
  <2>1. mem'.status = "cancelled" => mem.status = "cancelled"
    BY <1>1 DEF SweptInv
  <2>2. mem.status = "cancelled" => UNCHANGED rec
    <3>1. mem.status = "cancelled" => Alive = {}
      BY ChildAlone DEF Alive
    <3> QED
      BY <3>1 DEF Restart, ChildrenDie
  <2> QED
    BY <1>1, <2>1, <2>2 DEF SweptInv
<1>4. MarkerInv'
  BY <1>1 DEF MarkerInv, Marked, At
<1> QED
  BY <1>1, <1>2, <1>3, <1>4 DEF CompleteInv, At

LEMMA ClaimStep ==
  ASSUME ClaimState, [Next]_vars
  PROVE  ClaimInv'
<1> USE DEF ClaimState, TreeState, TypeInv, ClaimInv
<1>1. mem.created # "none" => UNCHANGED rec
  BY MarkerHolds
<1>2. CASE CreatePlan
  <2>1. HandlerStores /\ Starts
    BY <1>2, TransitionStarts DEF CreatePlan, Transient, MarkerInv, Marked
  <2> QED
    BY <1>2, <2>1, HandlerClaimsKept DEF CreatePlan, treeVars
<1>3. CASE Surface
  <2>1. HandlerStores /\ Starts
    BY <1>3 DEF Surface, Persist, HandlerStores, Same, Starts
  <2> QED
    BY <1>3, <2>1, HandlerClaimsKept DEF Surface, treeVars
<1>4. ASSUME NEW r \in Requests, Handler(r)
      PROVE  ClaimInv'
  <2>1. UNCHANGED rec /\ (UNCHANGED swept \/ mem.status # "cancelled")
    BY <1>4 DEF Handler, Arrive, Refuse, ApproveShape, Create, Reject, Retry, Cancel, treeVars
  <2> QED
    BY <1>4, <2>1, HandlerClaims, HandlerClaimsKept
<1>5. CASE \E w \in Workers : WorkerStep(w)
  BY <1>1, <1>5, WorkerClaims
<1>6. CASE \E c \in Workers : ChildStep(c)
  BY <1>6, ChildClaims
<1>7. CASE Restart
  BY <1>1, <1>7, RestartClaims
<1>8. CASE UNCHANGED vars
  <2>1. HandlerStores /\ Starts
    BY <1>8 DEF vars, HandlerStores, Same, Starts
  <2> QED
    BY <1>8, <2>1, HandlerClaimsKept DEF vars
<1> QED
  BY <1>2, <1>3, <1>4, <1>5, <1>6, <1>7, <1>8 DEF Next

LEMMA ClaimInit == Init => ClaimInv
  BY DEF Init, ClaimInv, CompleteInv, SweptInv, MarkerInv, Truthful, At, NoPlan, NoWorker

LEMMA ClaimsAlways ==
  ASSUME OrphansSurvive = FALSE
  PROVE  Spec => [](TypeInv /\ OneWorker /\ TreeInv /\ ClaimInv)
<1>1. Init => TypeInv /\ OneWorker /\ TreeInv /\ ClaimInv
  BY TypeInit, OneWorkerInit, TreeInit, ClaimInit
<1>2. /\ TypeInv /\ OneWorker /\ TreeInv /\ ClaimInv
      /\ [Next]_vars
      => (TypeInv /\ OneWorker /\ TreeInv /\ ClaimInv)'
  BY TypeStep, OneWorkerStep, TreeStep, ClaimStep DEF ClaimState, TreeState, TypeInv
<1> QED
  BY <1>1, <1>2, PTL DEF Spec

\* A plan that says `created` has its whole tree in the journal and on the
\* tracker: through killed children, failed saves, restarts and retries, and for
\* a restart that promotes a file memory had overtaken.
THEOREM CreatedAlways ==
  ASSUME OrphansSurvive = FALSE
  PROVE  Spec => []CreatedIsComplete
<1>1. TypeInv /\ TreeInv /\ CompleteInv => CreatedIsComplete
  <2> SUFFICES ASSUME TypeInv, TreeInv, CompleteInv, mem.status = "created"
      PROVE  /\ mem.created = "full" /\ rec.len = TreeSize
             /\ \A k \in Issues : copies[k] >= 1
    BY DEF CreatedIsComplete
  <2>1. mem.created = "full" /\ rec.len = TreeSize
    BY DEF CompleteInv, Truthful
  <2>2. \A k \in Issues : k <= TreeSize
    BY SizesAssumption DEF Issues
  <2> QED
    BY <2>1, <2>2 DEF TreeInv, CopiesInv
<1> QED
  BY ClaimsAlways, <1>1, PTL DEF ClaimInv

\* A plan that says `cancelled` has a readable record, and its last sweep failed on
\* no issue that is on the tracker: moved, or passed over for want of a transition.
\* Only an issue whose creation was never answered can have escaped it.
THEOREM CancelledAlways ==
  ASSUME OrphansSurvive = FALSE
  PROVE  Spec => []CancelledIsSwept
<1>1. ASSUME TypeInv, OneWorker, TreeInv, SweptInv, mem.status = "cancelled",
             NEW k \in Issues, copies[k] > lost
      PROVE  swept[k] # "open"
  <2>1. ~Flying(k)
    <3>1. \A c \in Workers : child[c].pc = "none"
      BY <1>1, ChildAlone DEF TreeState
    <3> QED
      BY <3>1 DEF Flying
  <2>2. rec.state = "ok" /\ \A j \in 1..rec.len : swept[j] # "open"
    BY <1>1 DEF SweptInv
  <2>3. copies[k] <= One(Kept(k)) + One(Flying(k)) + lost
    BY <1>1 DEF TreeInv, CopiesInv
  <2>4. copies[k] \in Nat /\ lost \in Nat /\ rec.len \in Nat /\ k \in Nat /\ k >= 1
    BY <1>1, SizesAssumption DEF TypeInv, TypeOK, Record, Issues
  <2>5. k <= rec.len
    BY <1>1, <2>1, <2>2, <2>3, <2>4 DEF One, Kept
  <2> QED
    BY <2>2, <2>4, <2>5
<1>2. TypeInv /\ OneWorker /\ TreeInv /\ SweptInv => CancelledIsSwept
  BY <1>1 DEF SweptInv, CancelledIsSwept
<1> QED
  BY ClaimsAlways, <1>2, PTL DEF ClaimInv

\* The handle to undo a tree survives everything but a plan file that cannot be
\* written: a marker is never cleared, and the record it names stays readable and
\* as it was.  Before there is a marker, a readable record loses nothing except to
\* a kill that cuts its write short, after which nothing is written any more.
THEOREM HandleAlways ==
  ASSUME OrphansSurvive = FALSE, MaxFaults = 0
  PROVE  Spec => HandleSurvives
<1>1. ASSUME ClaimState, mem = disk, [Next]_vars, mem.created # "none"
      PROVE  mem'.created # "none"
  <2> USE <1>1 DEF ClaimState, TreeState, TypeInv, ClaimInv
  <2>1. HandlerStores \/ UNCHANGED mem => mem'.created # "none"
    BY DEF HandlerStores, Same, Modest
  <2>2. CASE CreatePlan
    BY <2>2 DEF CreatePlan, MarkerInv, Marked
  <2>3. CASE Surface
    BY <2>1, <2>3 DEF Surface, Persist
  <2>4. CASE \E r \in Requests : Handler(r)
    BY <2>1, <2>4, HandlerClaims
  <2>5. ASSUME NEW w \in Workers, WorkerStep(w)
        PROVE  mem'.created # "none"
    <3>1. mem.status \in Transient
      <4>1. worker[w].kind # "none"
        BY <2>5 DEF WorkerStep, Check, Phase1Returns, GroomReturns, EngineThrows,
           SpendThrows, Phase1Gated, GroomGated, GroomSearched, CreateGuard, CreateTimeout,
           CreateExited, CreateVerified, Verified, Sweep, CancelDone, At
      <4> QED
        BY <4>1, RunsTransient DEF OneWorker, Active, TypeOK, Worker
    <3>2. WorkerStores
      BY <2>5, <3>1, PlanningStores, TrackerStores DEF WorkerStep
    <3> QED
      BY <3>2 DEF WorkerStores, Modest
  <2>6. CASE \E c \in Workers : ChildStep(c)
    BY <2>1, <2>6 DEF ChildStep, ChildBoot, ChildInit, ChildPost, ChildAck, ChildTail, OrphanExits,
       ChildFrame, planVars
  <2>7. CASE Restart
    BY <2>7 DEF Restart, Reload, TypeOK, Plan
  <2>8. CASE UNCHANGED vars
    BY <2>1, <2>8 DEF vars
  <2> QED
    BY <2>2, <2>3, <2>4, <2>5, <2>6, <2>7, <2>8 DEF Next
<1>2. ASSUME ClaimState, mem = disk, [Next]_vars
      PROVE  /\ mem.created # "none" =>
                  mem'.created # "none" /\ rec.state = "ok" /\ rec' = rec
             /\ RecordKept
  <2>1. RecordKept
    BY <1>2, TreeStep DEF ClaimState
  <2>2. mem.created # "none" => rec.state = "ok" /\ rec' = rec
    BY <1>2, MarkerHolds DEF ClaimState, ClaimInv, MarkerInv
  <2> QED
    BY <1>1, <1>2, <2>1, <2>2
<1>3. /\ TypeInv /\ OneWorker /\ TreeInv /\ ClaimInv
      /\ TypeInv /\ OneWorker /\ GateInv
      /\ [Next]_vars
      => [/\ mem.created # "none" =>
               mem'.created # "none" /\ rec.state = "ok" /\ rec' = rec
          /\ \/ rec'.state # "torn" /\ rec'.len >= rec.len
             \/ rec' = Torn /\ \E c \in Alive : child'[c] = NoChild
             \/ rec = Torn /\ UNCHANGED <<rec, copies>>]_vars
  BY <1>2 DEF ClaimState, TreeState, GateInv, RecordKept
<1> QED
  BY ClaimsAlways, GateAlways, <1>3, PTL DEF Spec, HandleSurvives

----------------------------------------------------------------------------
(***************************************************************************)
(* The refinement.  Every step of a handler, a worker, the child process   *)
(* or a crash is one of the documented transitions of the plan, or none.   *)
(***************************************************************************)

----------------------------------------------------------------------------
(***************************************************************************)
(* What the refinement needs to know of a reachable state, besides the     *)
(* gates: how far the plan got.                                            *)
(***************************************************************************)
\* The status against the phase entered last, and the approvals given for it.
Standing ==
  /\ mem.status \in Transient => phase = mem.status
  /\ mem.status = "shape_ready" => phase = "breaking_down"
  /\ mem.status = "plan_ready" => phase = "grooming" /\ mem.planGate = "ok"
  /\ mem.status = "created" => phase = "creating"
  /\ mem.status = "absent" <=> phase = "absent"
  /\ createOK <=> phase \in {"creating", "cancelling"}
  /\ approved # NoShape <=> phase \in {"grooming", "creating", "cancelling"}
  /\ createOK => mem.planGate = "ok"

\* A gated plan is on file, and only what was created is undone.
Founded ==
  /\ mem.planGate = "ok" => planFile # NoShape
  /\ phase = "cancelling" => mem.created # "none"
  /\ \A r \in Requests : req[r].op = "cancel" => mem.created # "none"

\* What a worker relies on at its await.
WorkersKnow ==
  \A w \in Workers :
    /\ At(w, "groom", "search") => planFile # NoShape
    /\ worker[w].kind = "create" => mem.created = "none"
    /\ worker[w].kind = "verify" => mem.created = "full"
    /\ worker[w].kind = "verifyPartial" => mem.created # "full"

PhaseInv == Standing /\ Founded /\ WorkersKnow

PhaseState == GateState /\ PhaseInv

\* A step of the lifecycle, or none.
LifeStep == [Lifecycle!Next]_(Lifecycle!vars)

LEMMA Stutter ==
  ASSUME mem'.status = mem.status, mem'.created = mem.created,
         UNCHANGED <<approved, createOK, phase>>
  PROVE  LifeStep
  BY DEF LifeStep, Lifecycle!vars

\* A step that leaves the plan where it is.
LEMMA Rests ==
  ASSUME PhaseState, mem'.status = mem.status, mem'.created = mem.created,
         mem'.planGate = mem.planGate, UNCHANGED <<approved, createOK, phase, planFile, worker>>,
         \A r \in Requests : req'[r].op = "cancel" => req[r].op = "cancel" \/ mem.created # "none"
  PROVE  PhaseInv' /\ LifeStep
<1>1. PhaseInv'
  BY DEF PhaseState, PhaseInv, Standing, Founded, WorkersKnow, At
<1> QED
  BY <1>1, Stutter

\* A handler hands the plan to a worker.
LEMMA Transits ==
  ASSUME PhaseState, NEW to \in Transient, NEW kind, NEW pc, TransitionAndStart(to, kind, pc)
  PROVE  /\ mem'.status = to /\ mem'.created = mem.created /\ mem'.planGate = mem.planGate
         /\ phase' = to /\ Start(kind, pc, FALSE)
<1>1. mem' = [mem EXCEPT !.status = to] /\ phase' = to /\ Start(kind, pc, FALSE)
  BY TransitionSaves, NoThrow DEF TransitionAndStart, PhaseState
<1> QED
  BY <1>1 DEF PhaseState, GateState, TypeInv, TypeOK, Plan

\* The one worker there then is knows what it relies on.
LEMMA StartKnows ==
  ASSUME PhaseState, mem.status \notin Transient, NEW kind, NEW pc, NEW edited,
         Start(kind, pc, edited),
         kind = "groom" => pc # "search",
         kind = "create" => mem'.created = "none",
         kind = "verify" => mem'.created = "full",
         kind = "verifyPartial" => mem'.created # "full"
  PROVE  WorkersKnow'
<1>1. \A w \in Workers : worker[w].kind = "none"
  BY Idle DEF PhaseState, GateState, TypeInv
<1> QED
  BY <1>1 DEF Start, WorkersKnow, At, PhaseState, GateState, TypeInv, TypeOK

----------------------------------------------------------------------------
(***************************************************************************)
(* Handlers                                                                *)
(***************************************************************************)
\* An answered request is forgotten.
LEMMA Answered ==
  ASSUME PhaseState, NEW r \in Requests, Respond(r), NEW s \in Requests, req'[s].op = "cancel"
  PROVE  req[s].op = "cancel"
  BY DEF Respond, NoRequest, PhaseState, GateState, TypeInv, TypeOK

\* Submitting, approving, rejecting and undoing are transitions of their own.
LEMMA SubmitLife ==
  ASSUME PhaseState, CreatePlan
  PROVE  PhaseInv' /\ LifeStep
<1> USE DEF PhaseState, PhaseInv
<1>1. /\ mem.status = "absent" /\ mem'.status = "breaking_down"
      /\ mem'.created = mem.created /\ mem'.planGate = mem.planGate
      /\ phase' = "breaking_down" /\ Start("phase1", "check", FALSE)
      /\ UNCHANGED <<approved, createOK, planFile, req>>
  BY Transits DEF CreatePlan, Transient, fileVars, pastVars
<1>2. WorkersKnow'
  BY <1>1, StartKnows DEF Transient
<1>3. Standing' /\ Founded'
  BY <1>1 DEF Standing, Founded, Transient
<1>4. LifeStep
  BY <1>1 DEF LifeStep, Lifecycle!Next, Lifecycle!Submit, Lifecycle!Enter
<1> QED
  BY <1>2, <1>3, <1>4

LEMMA ApproveLife ==
  ASSUME PhaseState, NEW r \in Requests, ApproveShape(r)
  PROVE  PhaseInv' /\ LifeStep
<1> USE DEF PhaseState, PhaseInv
<1> DEFINE p == EditedPlan(r)
           q == [p EXCEPT !.status = "grooming"]
<1>1. /\ p.status = mem.status /\ p.created = mem.created /\ p.planGate = mem.planGate
      /\ q.status = "grooming" /\ q.created = mem.created /\ q.planGate = mem.planGate
      /\ p.skel = mem.skel \/ p.skel \in GoodShapes
  BY DEF EditedPlan, GateState, TypeInv, TypeOK, Plan, ApproveShape, ApproveEdit
<1>2. /\ UNCHANGED <<createOK, planFile>>
      /\ \A s \in Requests : req'[s].op = "cancel" => req[s].op = "cancel"
  BY Answered DEF ApproveShape
<1>3. CASE /\ mem.status = "shape_ready" /\ mem' = q
           /\ approved' = p.skel /\ phase' = "grooming"
           /\ Start("groom", "check", req[r].edit # NoShape)
  <2>1. approved' # NoShape
    BY <1>1, <1>3, ShapesAssumption DEF GateState, GateInv
  <2>2. WorkersKnow'
    BY <1>3, StartKnows DEF Transient
  <2>3. Standing' /\ Founded'
    BY <1>1, <1>2, <1>3, <2>1 DEF Standing, Founded, Transient
  <2>4. LifeStep
    BY <1>1, <1>2, <1>3, <2>1
    DEF LifeStep, Lifecycle!Next, Lifecycle!ApproveShape, Lifecycle!Enter
  <2> QED
    BY <2>2, <2>3, <2>4
<1>4. CASE mem' \in {mem, p} /\ UNCHANGED <<worker, approved, phase>>
  BY <1>1, <1>2, <1>4, Rests
<1>5. ~(faults < MaxFaults)
  BY DEF GateState, TypeInv, TypeOK
<1> QED
  BY <1>3, <1>4, <1>5 DEF ApproveShape, Persist, PersistThrows

LEMMA CreateLife ==
  ASSUME PhaseState, NEW r \in Requests, Create(r)
  PROVE  PhaseInv' /\ LifeStep
<1> USE DEF PhaseState, PhaseInv
<1>1. /\ mem.status = "plan_ready" /\ mem'.status = "creating"
      /\ mem'.created = mem.created /\ mem'.planGate = mem.planGate
      /\ phase' = "creating" /\ Start("create", "guard", FALSE)
      /\ createOK' = TRUE /\ UNCHANGED <<approved, planFile>>
      /\ \A s \in Requests : req'[s].op = "cancel" => req[s].op = "cancel"
  BY Transits, Answered DEF Create, Transient, fileVars
<1>2. mem.created = "none"
  BY <1>1 DEF Standing, GateState, GateInv
<1>3. WorkersKnow'
  BY <1>1, <1>2, StartKnows DEF Transient
<1>4. Standing' /\ Founded'
  BY <1>1 DEF Standing, Founded, Transient
<1>5. LifeStep
  BY <1>1 DEF LifeStep, Lifecycle!Next, Lifecycle!ApproveContent, Lifecycle!Enter
<1> QED
  BY <1>3, <1>4, <1>5

LEMMA RejectLife ==
  ASSUME PhaseState, NEW r \in Requests, Reject(r)
  PROVE  PhaseInv' /\ LifeStep
<1> USE DEF PhaseState, PhaseInv
<1>1. mem' = [mem EXCEPT !.status = "rejected"]
  BY NoThrow DEF Reject, Persist
<1>2. /\ mem.status \in Rejectable /\ mem'.status = "rejected"
      /\ mem'.created = mem.created /\ mem'.planGate = mem.planGate
      /\ UNCHANGED <<approved, createOK, phase, planFile, worker>>
      /\ \A s \in Requests : req'[s].op = "cancel" => req[s].op = "cancel"
  BY <1>1, Answered DEF Reject, fileVars, pastVars, GateState, TypeInv, TypeOK, Plan
<1>3. WorkersKnow'
  BY <1>2 DEF WorkersKnow, At
<1>4. Standing' /\ Founded'
  BY <1>2 DEF Standing, Founded, Transient, Rejectable
<1>5. LifeStep
  BY <1>2 DEF LifeStep, Lifecycle!Next, Lifecycle!RejectPlan, Rejectable
<1> QED
  BY <1>3, <1>4, <1>5

LEMMA CancelLife ==
  ASSUME PhaseState, NEW r \in Requests, Cancel(r)
  PROVE  PhaseInv' /\ LifeStep
<1> USE DEF PhaseState, PhaseInv
<1>1. /\ mem.status \in {"created", "failed"} /\ mem'.status = "cancelling"
      /\ mem'.created = mem.created /\ mem'.planGate = mem.planGate
      /\ phase' = "cancelling" /\ Start("cancel", "sweep", FALSE)
      /\ UNCHANGED <<approved, createOK, planFile>>
      /\ \A s \in Requests : req'[s].op = "cancel" => req[s].op = "cancel"
  BY Transits, Answered DEF Cancel, Transient, fileVars, pastVars
<1>2. mem.created # "none" /\ createOK /\ approved # NoShape
  BY DEF Cancel, Founded, GateState, GateInv
<1>3. WorkersKnow'
  BY <1>1, StartKnows DEF Transient
<1>4. Standing' /\ Founded'
  BY <1>1, <1>2 DEF Standing, Founded, Transient
<1>5. LifeStep
  BY <1>1, <1>2 DEF LifeStep, Lifecycle!Next, Lifecycle!Undo, Lifecycle!Enter
<1> QED
  BY <1>3, <1>4, <1>5

\* A retry re-enters the phase that stalled: the ladder finds the first artifact
\* that has not passed its gate, and after a create the record or the marker
\* keeps it from writing again.
LEMMA RetryLife ==
  ASSUME PhaseState, NEW r \in Requests, Retry(r)
  PROVE  PhaseInv' /\ LifeStep
<1> USE DEF PhaseState, PhaseInv
<1>1. /\ mem.status \in Retryable /\ phase # "absent" /\ phase \in Transient
      /\ UNCHANGED <<approved, createOK, planFile>>
      /\ \A s \in Requests : req'[s].op = "cancel" => req[s].op = "cancel"
  BY Answered DEF Retry, Retryable, Standing, fileVars, pastVars, GateState, TypeInv, TypeOK
<1>2. CASE RetryVerify
  <2>1. /\ mem'.status = "creating" /\ mem.created = "full" /\ mem'.created = "full"
        /\ mem'.planGate = mem.planGate
        /\ phase' = "creating" /\ Start("verify", "verify", FALSE)
    BY <1>2, Transits DEF RetryVerify, Transient
  <2>2. createOK /\ approved # NoShape
    BY <2>1 DEF GateState, GateInv
  <2>3. WorkersKnow'
    BY <1>1, <2>1, StartKnows DEF Transient, Retryable
  <2>4. Standing' /\ Founded'
    BY <1>1, <2>1, <2>2 DEF Standing, Founded, Transient
  <2>5. LifeStep
    BY <1>1, <2>1, <2>2
    DEF Standing, LifeStep, Lifecycle!Next, Lifecycle!Resume, Lifecycle!Enter, Retryable
  <2> QED
    BY <2>3, <2>4, <2>5
<1>3. CASE RetryBlocked
  <2> DEFINE p == [mem EXCEPT !.status = "creating"]
             q == [p EXCEPT !.created = "partial"]
  <2>1. /\ p.status = "creating" /\ p.created = mem.created /\ p.planGate = mem.planGate
        /\ q.status = "creating" /\ q.created = "partial" /\ q.planGate = mem.planGate
    BY DEF GateState, TypeInv, TypeOK, Plan
  <2>2. mem' \in {p, q} /\ phase' = "creating" /\ Start("verifyPartial", "verify", FALSE)
    <3>1. ~(faults < MaxFaults)
      BY DEF GateState, TypeInv, TypeOK
    <3> QED
      BY <1>3, <3>1, NoThrow DEF RetryBlocked, Persist
  <2> HIDE DEF p, q
  <2>3. /\ mem'.status = "creating" /\ mem'.planGate = mem.planGate
        /\ mem.created # "full" /\ mem'.created \in {mem.created, "partial"}
    BY <1>3, <2>1, <2>2 DEF RetryBlocked
  <2>4. createOK /\ approved # NoShape
    BY <1>3 DEF RetryBlocked, RecordBlocks, GateState, GateInv
  <2>5. WorkersKnow'
    BY <1>1, <2>2, <2>3, StartKnows DEF Transient, Retryable
  <2>6. Standing' /\ Founded'
    BY <1>1, <2>2, <2>3, <2>4 DEF Standing, Founded, Transient
  <2>7. mem.created \in {"none", "partial"}
    BY <2>3 DEF GateState, TypeInv, TypeOK, Plan
  <2>8. LifeStep
    BY <1>1, <2>2, <2>3, <2>4, <2>7
    DEF Standing, LifeStep, Lifecycle!Next, Lifecycle!Resume, Lifecycle!Enter, Retryable
  <2> QED
    BY <2>5, <2>6, <2>8
<1>4. CASE RetryLadder
  <2>1. mem.created = "none" /\ phase # "cancelling"
    BY <1>4 DEF RetryLadder, RecordBlocks, Founded, GateState, TypeInv, TypeOK, Plan
  <2>2. \E kind \in {"phase1", "groom", "create"}, pc \in {"check", "guard"} :
          TransitionAndStart(phase, kind, pc)
    <3>1. CASE phase = "breaking_down"
      <4>1. mem.skelGate # "ok"
        BY <1>1, <3>1 DEF Standing, GateState, GateInv, Retryable
      <4> QED
        BY <1>4, <3>1, <4>1 DEF RetryLadder
    <3>2. CASE phase = "grooming"
      <4>1. /\ mem.skelGate = "ok" /\ skelFile \in GoodShapes /\ mem.planGate # "ok"
        BY <1>1, <3>2 DEF Standing, GateState, GateInv, Retryable
      <4> QED
        BY <1>4, <3>2, <4>1, ShapesAssumption DEF RetryLadder
    <3>3. CASE phase = "creating"
      <4>1. /\ mem.skelGate = "ok" /\ skelFile \in GoodShapes /\ mem.planGate = "ok"
            /\ planFile # NoShape
        BY <3>3 DEF Standing, Founded, GateState, GateInv
      <4> QED
        BY <1>4, <3>3, <4>1, ShapesAssumption DEF RetryLadder
    <3> QED
      BY <1>1, <2>1, <3>1, <3>2, <3>3 DEF Transient
  <2>3. PICK kind \in {"phase1", "groom", "create"}, pc \in {"check", "guard"} :
          TransitionAndStart(phase, kind, pc)
    BY <2>2
  <2>4. /\ mem'.status = phase /\ mem'.created = mem.created /\ mem'.planGate = mem.planGate
        /\ phase' = phase /\ Start(kind, pc, FALSE)
    BY <1>1, <2>3, Transits
  <2>5. WorkersKnow'
    BY <1>1, <2>1, <2>4, StartKnows DEF Transient, Retryable
  <2>6. Standing' /\ Founded'
    BY <1>1, <2>1, <2>4 DEF Standing, Founded, Transient
  <2>7. LifeStep
    BY <1>1, <2>1, <2>4
    DEF LifeStep, Lifecycle!Next, Lifecycle!Resume, Lifecycle!Enter, Retryable
  <2> QED
    BY <2>5, <2>6, <2>7
<1> QED
  BY <1>2, <1>3, <1>4 DEF Retry

LEMMA HandlerLife ==
  ASSUME PhaseState, NEW r \in Requests, Handler(r)
  PROVE  PhaseInv' /\ LifeStep
<1>1. CASE Arrive(r)
  <2>1. PICK op \in Ops \ {"none"}, edit \in MaybeShape :
          Legal(op) /\ req' = [req EXCEPT ![r] = [op |-> op, edit |-> edit]]
    BY <1>1 DEF Arrive
  <2>2. \A s \in Requests : req'[s].op = "cancel" => req[s].op = "cancel" \/ mem.created # "none"
    BY <2>1 DEF Legal, PhaseState, GateState, TypeInv, TypeOK
  <2> QED
    BY <1>1, <2>2, Rests DEF Arrive, planVars, fileVars, pastVars
<1>2. CASE Refuse(r)
  BY <1>2, Answered, Rests DEF Refuse, planVars, fileVars, pastVars
<1> QED
  BY <1>1, <1>2, ApproveLife, CreateLife, RejectLife, RetryLife, CancelLife DEF Handler

----------------------------------------------------------------------------
(***************************************************************************)
(* Workers                                                                 *)
(***************************************************************************)
\* A worker's last save is the plan's next state, and leaves no worker behind.
LEMMA Leaves ==
  ASSUME PhaseState, NEW w \in Workers, worker[w].kind # "none", NEW p, Exit(w, p)
  PROVE  mem' = p /\ WorkersKnow'
<1>1. \A v \in Workers \ {w} : worker[v].kind = "none"
  BY DEF PhaseState, GateState, OneWorker, Active
<1> QED
  BY <1>1, ExitSaves DEF Exit, Done, NoWorker, WorkersKnow, At,
     PhaseState, GateState, TypeInv, TypeOK

\* A phase that fails stalls the plan where it was.
LEMMA FailsLife ==
  ASSUME PhaseState, WorkersKnow', NEW w \in Workers, worker[w].kind # "none",
         \/ mem'.status = "failed"
         \/ mem'.status = "budget_blocked" /\ worker[w].kind \in {"phase1", "groom"},
         mem'.created = mem.created,
         \/ mem'.planGate = mem.planGate /\ UNCHANGED planFile
         \/ mem'.planGate # "ok" /\ ~createOK,
         UNCHANGED <<approved, createOK, phase, req>>
  PROVE  PhaseInv' /\ LifeStep
<1> USE DEF PhaseState, PhaseInv
<1>1. mem.status = RunsAs(worker[w].kind) /\ mem.status \in Transient
  BY RunsStatus
<1>2. Standing' /\ Founded'
  BY <1>1 DEF Standing, Founded, Transient
<1>3. LifeStep
  BY <1>1 DEF RunsAs, LifeStep, Lifecycle!Next, Lifecycle!Stall, Lifecycle!Phases, Transient
<1> QED
  BY <1>2, <1>3

LEMMA FailedLife ==
  ASSUME PhaseState, NEW w \in Workers, worker[w].kind # "none", Exit(w, Failed),
         UNCHANGED planFile \/ (mem.planGate # "ok" /\ ~createOK),
         UNCHANGED <<approved, createOK, phase, req>>
  PROVE  PhaseInv' /\ LifeStep
<1>1. Failed.status = "failed" /\ Failed.created = mem.created /\ Failed.planGate = mem.planGate
  BY StatusOnly DEF Failed, PhaseState, GateState, TypeInv
<1>2. mem' = Failed /\ WorkersKnow'
  BY Leaves
<1> QED
  BY <1>1, <1>2, FailsLife

\* While it is groomed no plan counts as gated.
LEMMA GroomingUngated ==
  ASSUME PhaseState, mem.status = "grooming"
  PROVE  mem.planGate # "ok" /\ ~createOK
  BY DEF PhaseState, PhaseInv, Standing, GateState, GateInv, Transient

\* A planning worker presents its artifact, or stalls.
LEMMA PlanningLife ==
  ASSUME PhaseState, NEW w \in Workers,
         \/ Check(w) \/ Phase1Returns(w) \/ GroomReturns(w) \/ EngineThrows(w)
         \/ SpendThrows(w) \/ Phase1Gated(w) \/ GroomGated(w) \/ GroomSearched(w)
  PROVE  PhaseInv' /\ LifeStep
<1> USE DEF PhaseState, PhaseInv
<1>1. /\ worker[w].kind \in {"phase1", "groom"}
      /\ mem.status = RunsAs(worker[w].kind) /\ mem.status \in Transient
      /\ \A v \in Workers \ {w} : worker[v].kind = "none"
      /\ UNCHANGED <<approved, createOK, phase, req>>
  BY RunsStatus DEF Check, Phase1Returns, GroomReturns, EngineThrows, SpendThrows, Phase1Gated,
     GroomGated, GroomSearched, At, pastVars, GateState, OneWorker, Active
<1>2. mem.status = "grooming" => mem.planGate # "ok" /\ ~createOK
  BY GroomingUngated
<1>3. mem.status = "breaking_down" => ~createOK
  BY DEF Standing, Transient
<1>4. ASSUME mem'.status = mem.status, mem'.created = mem.created,
             mem'.planGate = mem.planGate \/ (~createOK /\ mem'.planGate # "ok"),
             planFile' = planFile \/ mem'.planGate # "ok",
             \A v \in Workers \ {w} : worker'[v] = worker[v],
             worker'[w].kind = worker[w].kind, At(w, "groom", "search")' => planFile' # NoShape
      PROVE  PhaseInv' /\ LifeStep
  <2>1. Standing' /\ Founded'
    BY <1>1, <1>4 DEF Standing, Founded
  <2>2. WorkersKnow'
    BY <1>1, <1>4 DEF WorkersKnow, At
  <2> QED
    BY <1>1, <1>4, <2>1, <2>2, Stutter
<1>5. CASE Check(w)
  <2>1. ASSUME NEW to \in Retryable, Exit(w, [mem EXCEPT !.status = to]), UNCHANGED planFile
        PROVE  PhaseInv' /\ LifeStep
    <3> DEFINE p == [mem EXCEPT !.status = to]
    <3>1. p.status = to /\ p.created = mem.created /\ p.planGate = mem.planGate
      BY StatusOnly DEF GateState, TypeInv
    <3>2. mem' = p /\ WorkersKnow'
      BY <1>1, <2>1, Leaves
    <3> HIDE DEF p
    <3> QED
      BY <1>1, <2>1, <3>1, <3>2, FailsLife DEF Retryable
  <2>2. CASE /\ Goto(w, "engine")
             /\ (worker[w].kind = "phase1" /\ UNCHANGED planFile) \/ worker[w].kind = "groom"
             /\ UNCHANGED <<planVars, faults>>
    <3>1. worker'[w].kind = worker[w].kind /\ worker'[w].pc = "engine" /\ UNCHANGED mem
      BY <2>2 DEF Goto, planVars, GateState, TypeInv, TypeOK, Worker
    <3>2. planFile' = planFile \/ mem'.planGate # "ok"
      BY <1>1, <1>2, <2>2, <3>1 DEF RunsAs
    <3> QED
      BY <1>4, <2>2, <3>1, <3>2 DEF Goto, At, GateState, TypeInv, TypeOK
  <2> QED
    BY <1>1, <1>5, <2>1, <2>2 DEF Check
<1>6. CASE Phase1Returns(w) \/ GroomReturns(w)
  <2>1. /\ UNCHANGED mem /\ Goto(w, "gate")
        /\ UNCHANGED planFile \/ worker[w].kind = "groom"
    BY <1>6 DEF Phase1Returns, GroomReturns, planVars, At
  <2>2. worker'[w].kind = worker[w].kind /\ worker'[w].pc = "gate"
    BY <2>1 DEF Goto, GateState, TypeInv, TypeOK, Worker
  <2>3. planFile' = planFile \/ mem'.planGate # "ok"
    BY <1>1, <1>2, <2>1 DEF RunsAs
  <2> QED
    BY <1>4, <2>1, <2>2, <2>3 DEF At, Goto, GateState, TypeInv, TypeOK
<1>7. CASE EngineThrows(w) \/ SpendThrows(w)
  <2>1. Exit(w, Failed) /\ (UNCHANGED planFile \/ worker[w].kind = "groom")
    BY <1>7 DEF EngineThrows, SpendThrows, fileVars
  <2> QED
    BY <1>1, <1>2, <2>1, FailedLife DEF RunsAs
<1>8. ASSUME NEW p \in Plan, Regenerate(w, p), p.status = mem.status, p.created = mem.created,
             p.planGate = mem.planGate \/ (~createOK /\ p.planGate # "ok"), UNCHANGED planFile
      PROVE  PhaseInv' /\ LifeStep
  <2>1. /\ mem' = p /\ worker' = [worker EXCEPT ![w].pc = "check", ![w].attempt = @ + 1]
    BY <1>8, NoThrow DEF Regenerate, Persist
  <2>2. worker'[w].kind = worker[w].kind /\ worker'[w].pc = "check"
    BY <2>1 DEF GateState, TypeInv, TypeOK, Worker
  <2> QED
    BY <1>4, <1>8, <2>1, <2>2 DEF At, GateState, TypeInv, TypeOK
<1>9. worker[w].attempt \in 0..MaxRegen /\ (worker[w].attempt < MaxRegen => worker[w].attempt + 1 \in 0..MaxRegen)
  BY SizesAssumption DEF GateState, TypeInv, TypeOK, Worker
<1>10. CASE Phase1Gated(w)
  <2> DEFINE n == worker[w].attempt
             p == [mem EXCEPT !.skel = skelFile, !.regenShape = n]
             ready == [p EXCEPT !.status = "shape_ready", !.skelGate = "ok"]
             fails == [p EXCEPT !.status = "failed", !.skelGate = "bad"]
             again == [p EXCEPT !.skelGate = "bad", !.regenShape = n + 1]
  <2>1. /\ ready.status = "shape_ready" /\ ready.created = mem.created /\ ready.planGate = mem.planGate
        /\ fails.status = "failed" /\ fails.created = mem.created /\ fails.planGate = mem.planGate
        /\ n < MaxRegen => again \in Plan
        /\ again.status = mem.status /\ again.created = mem.created /\ again.planGate = mem.planGate
    <3> HIDE DEF n
    <3>1. n \in 0..MaxRegen =>
            p \in Plan /\ p.created = mem.created /\ p.status = mem.status /\ p.planGate = mem.planGate
      BY DEF GateState, TypeInv, TypeOK, Plan
    <3>2. n \in 0..MaxRegen /\ (n < MaxRegen => n + 1 \in 0..MaxRegen)
      BY <1>9 DEF n
    <3> HIDE DEF p
    <3> QED
      BY <3>1, <3>2 DEF Plan, Status, Rejectable, Retryable, Verdict
  <2>2. /\ Exit(w, ready) \/ Exit(w, fails) \/ (n < MaxRegen /\ Regenerate(w, again))
        /\ UNCHANGED planFile /\ mem.status = "breaking_down"
    BY <1>1, <1>10 DEF Phase1Gated, Regenerate, At, RunsAs
  <2> HIDE DEF ready, fails, again, n
  <2>3. CASE Exit(w, ready)
    <3>1. mem' = ready /\ WorkersKnow'
      BY <1>1, <2>3, Leaves
    <3>2. Standing' /\ Founded'
      BY <1>1, <2>1, <2>2, <3>1 DEF Standing, Founded, Transient
    <3>3. LifeStep
      BY <1>1, <2>1, <2>2, <3>1 DEF LifeStep, Lifecycle!Next, Lifecycle!Present
    <3> QED
      BY <3>1, <3>2, <3>3
  <2>4. CASE Exit(w, fails)
    <3>1. mem' = fails /\ WorkersKnow'
      BY <1>1, <2>4, Leaves
    <3> QED
      BY <1>1, <2>1, <2>2, <3>1, FailsLife
  <2> QED
    BY <2>1, <2>2, <2>3, <2>4, <1>8
<1>11. CASE GroomGated(w)
  <2> DEFINE n == worker[w].attempt
             p == [mem EXCEPT !.planGate = "bad", !.regenGroom = n]
             fails == [p EXCEPT !.status = "failed"]
             again == [p EXCEPT !.regenGroom = n + 1]
  <2>1. /\ fails.status = "failed" /\ fails.created = mem.created /\ fails.planGate = "bad"
        /\ n < MaxRegen => again \in Plan
        /\ again.status = mem.status /\ again.created = mem.created /\ again.planGate = "bad"
    <3> HIDE DEF n
    <3>1. n \in 0..MaxRegen =>
            p \in Plan /\ p.created = mem.created /\ p.status = mem.status /\ p.planGate = "bad"
      BY DEF GateState, TypeInv, TypeOK, Plan, Verdict
    <3>2. n \in 0..MaxRegen /\ (n < MaxRegen => n + 1 \in 0..MaxRegen)
      BY <1>9 DEF n
    <3> HIDE DEF p
    <3> QED
      BY <3>1, <3>2 DEF Plan, Status, Retryable
  <2>2. /\ \/ planFile # NoShape /\ Goto(w, "search") /\ UNCHANGED mem
           \/ Exit(w, fails) \/ (n < MaxRegen /\ Regenerate(w, again))
        /\ UNCHANGED planFile /\ mem.status = "grooming"
    BY <1>1, <1>11 DEF GroomGated, Regenerate, planVars, fileVars, At, RunsAs
  <2> HIDE DEF fails, again, n
  <2>3. CASE planFile # NoShape /\ Goto(w, "search") /\ UNCHANGED mem
    <3>1. worker'[w].kind = worker[w].kind
      BY <2>3 DEF Goto, GateState, TypeInv, TypeOK, Worker
    <3> QED
      BY <1>4, <2>2, <2>3, <3>1 DEF Goto, GateState, TypeInv, TypeOK
  <2>4. CASE Exit(w, fails)
    <3>1. mem' = fails /\ WorkersKnow'
      BY <1>1, <2>4, Leaves
    <3> QED
      BY <1>1, <1>2, <2>1, <2>2, <3>1, FailsLife
  <2> QED
    BY <1>2, <2>1, <2>2, <2>3, <2>4, <1>8
<1>12. CASE GroomSearched(w)
  <2> DEFINE ready == [mem EXCEPT !.status = "plan_ready", !.planGate = "ok",
                                  !.regenGroom = worker[w].attempt]
  <2>1. ready.status = "plan_ready" /\ ready.created = mem.created /\ ready.planGate = "ok"
    BY <1>9 DEF GateState, TypeInv, TypeOK, Plan
  <2>2. Exit(w, ready) /\ UNCHANGED planFile /\ planFile # NoShape /\ mem.status = "grooming"
    BY <1>1, <1>12 DEF GroomSearched, fileVars, WorkersKnow, At, RunsAs
  <2> HIDE DEF ready
  <2>3. mem' = ready /\ WorkersKnow'
    BY <1>1, <2>2, Leaves
  <2>4. Standing' /\ Founded'
    BY <1>1, <2>1, <2>2, <2>3 DEF Standing, Founded, Transient
  <2>5. LifeStep
    BY <1>1, <2>1, <2>2, <2>3 DEF LifeStep, Lifecycle!Next, Lifecycle!Present
  <2> QED
    BY <2>3, <2>4, <2>5
<1> QED
  BY <1>5, <1>6, <1>7, <1>10, <1>11, <1>12

\* A read-back ends `creating`: the tree is there, or what is there can be undone.
LEMMA ReadBackLife ==
  ASSUME PhaseState, NEW w \in Workers, mem.status = "creating", WorkersKnow',
         \/ mem'.status = "created" /\ mem'.created = "full" /\ mem.created # "partial"
         \/ /\ mem'.status = "failed"
            /\ \/ mem'.created = mem.created
               \/ mem.created = "none" /\ mem'.created \in {"full", "partial"},
         mem'.planGate = mem.planGate, UNCHANGED <<approved, createOK, phase, req, planFile>>
  PROVE  PhaseInv' /\ LifeStep
<1> USE DEF PhaseState, PhaseInv
<1>1. Standing' /\ Founded'
  BY DEF Standing, Founded, Transient
<1>2. LifeStep
  BY DEF LifeStep, Lifecycle!Next, Lifecycle!Stall, Lifecycle!Written, Lifecycle!Phases
<1> QED
  BY <1>1, <1>2

\* A tracker worker promotes a plan it read back, or stalls it.
LEMMA TrackerLife ==
  ASSUME PhaseState, NEW w \in Workers,
         \/ CreateGuard(w) \/ CreateTimeout(w) \/ CreateExited(w)
         \/ CreateVerified(w) \/ Verified(w) \/ Sweep(w) \/ CancelDone(w)
  PROVE  PhaseInv' /\ LifeStep
<1> USE DEF PhaseState, PhaseInv
<1>1. /\ worker[w].kind \in {"create", "verify", "verifyPartial", "cancel"}
      /\ mem.status = RunsAs(worker[w].kind)
      /\ UNCHANGED <<approved, createOK, phase, req, planFile>>
  BY RunsStatus DEF CreateGuard, CreateTimeout, CreateExited, CreateVerified, Verified, Sweep,
     CancelDone, At, pastVars, fileVars
<1>2. mem.created \in {"none", "full", "partial"}
  BY DEF GateState, TypeInv, TypeOK, Plan
<1>3. CASE Exit(w, Failed)
  BY <1>1, <1>3, FailedLife
<1>4. ASSUME UNCHANGED mem, NEW pc \in {"live", "verify"}, Goto(w, pc)
      PROVE  PhaseInv' /\ LifeStep
  <2>1. \A v \in Workers : worker'[v].kind = worker[v].kind /\ (At(v, "groom", "search")' => At(v, "groom", "search"))
    BY <1>4 DEF Goto, At, GateState, TypeInv, TypeOK, Worker
  <2>2. WorkersKnow'
    BY <1>1, <1>4, <2>1 DEF WorkersKnow
  <2>3. Standing' /\ Founded'
    BY <1>1, <1>4 DEF Standing, Founded
  <2> QED
    BY <1>1, <1>4, <2>2, <2>3, Stutter
<1>5. CASE CreateGuard(w) \/ CreateTimeout(w) \/ CreateExited(w)
  BY <1>3, <1>4, <1>5 DEF CreateGuard, CreateTimeout, CreateExited, planVars
<1>6. CASE CreateVerified(w)
  <2>1. mem.status = "creating" /\ mem.created = "none"
    BY <1>1, <1>6 DEF CreateVerified, At, RunsAs, WorkersKnow
  <2>2. ASSUME NEW to \in {"created", "failed"},
               Exit(w, [mem EXCEPT !.status = to, !.created = "full"])
        PROVE  PhaseInv' /\ LifeStep
    <3>1. mem' = [mem EXCEPT !.status = to, !.created = "full"] /\ WorkersKnow'
      BY <1>1, <2>2, Leaves
    <3>2. mem'.status = to /\ mem'.created = "full" /\ mem'.planGate = mem.planGate
      BY <3>1 DEF GateState, TypeInv, TypeOK, Plan
    <3> QED
      BY <1>1, <2>1, <3>1, <3>2, ReadBackLife
  <2> QED
    BY <1>3, <1>6, <2>2 DEF CreateVerified
<1>7. CASE Verified(w)
  <2>1. /\ mem.status = "creating"
        /\ worker[w].kind = "verify" => mem.created = "full"
        /\ worker[w].kind = "verifyPartial" => mem.created # "full"
    BY <1>1, <1>7 DEF Verified, RunsAs, WorkersKnow
  <2>2. ASSUME worker[w].kind = "verify", NEW to \in {"created", "failed"}, Exit(w, [mem EXCEPT !.status = to])
        PROVE  PhaseInv' /\ LifeStep
    <3>1. mem' = [mem EXCEPT !.status = to] /\ WorkersKnow'
      BY <1>1, <2>2, Leaves
    <3>2. mem'.status = to /\ mem'.created = "full" /\ mem'.planGate = mem.planGate
      BY <2>1, <2>2, <3>1 DEF GateState, TypeInv, TypeOK, Plan
    <3> QED
      BY <1>1, <2>1, <2>2, <3>1, <3>2, ReadBackLife
  <2>3. ASSUME worker[w].kind = "verifyPartial", Exit(w, [Failed EXCEPT !.created = "partial"])
        PROVE  PhaseInv' /\ LifeStep
    <3>1. mem' = [Failed EXCEPT !.created = "partial"] /\ WorkersKnow'
      BY <1>1, <2>3, Leaves
    <3>2. mem'.status = "failed" /\ mem'.created = "partial" /\ mem'.planGate = mem.planGate
      BY <3>1 DEF Failed, GateState, TypeInv, TypeOK, Plan
    <3> QED
      BY <1>1, <1>2, <2>1, <2>3, <3>1, <3>2, ReadBackLife
  <2> QED
    BY <1>3, <1>7, <2>2, <2>3 DEF Verified
<1>8. CASE Sweep(w)
  <2>1. UNCHANGED <<mem, worker>>
    BY <1>8 DEF Sweep, planVars
  <2> QED
    BY <1>1, <2>1, Rests
<1>9. CASE CancelDone(w)
  <2>1. CASE Exit(w, [mem EXCEPT !.status = "cancelled"])
    <3>1. mem' = [mem EXCEPT !.status = "cancelled"] /\ WorkersKnow'
      BY <1>1, <2>1, Leaves
    <3>2. mem'.status = "cancelled" /\ mem'.created = mem.created /\ mem'.planGate = mem.planGate
      BY <3>1 DEF GateState, TypeInv, TypeOK, Plan
    <3>3. mem.status = "cancelling"
      BY <1>1, <1>9 DEF CancelDone, At, RunsAs
    <3>4. Standing' /\ Founded'
      BY <1>1, <3>2, <3>3 DEF Standing, Founded, Transient
    <3>5. LifeStep
      BY <1>1, <3>2, <3>3 DEF LifeStep, Lifecycle!Next, Lifecycle!Undone
    <3> QED
      BY <3>1, <3>4, <3>5
  <2> QED
    BY <1>3, <1>9, <2>1 DEF CancelDone
<1> QED
  BY <1>5, <1>6, <1>7, <1>8, <1>9

----------------------------------------------------------------------------
(***************************************************************************)
(* Crashes, and the theorems                                               *)
(***************************************************************************)
\* A crash stalls the phase that runs, and no other plan notices it.
LEMMA RestartLife ==
  ASSUME PhaseState, Restart
  PROVE  PhaseInv' /\ LifeStep
<1> USE DEF PhaseState, PhaseInv
<1>1. /\ \A w \in Workers : worker'[w].kind = "none"
      /\ \A r \in Requests : req'[r].op # "cancel"
      /\ UNCHANGED <<approved, createOK, phase, planFile>>
      /\ mem' = IF mem.status \in Transient THEN [mem EXCEPT !.status = "failed"] ELSE mem
  BY DEF Restart, Reload, NoWorker, NoRequest, pastVars, GateState, GateInv
<1>2. /\ mem'.status = (IF mem.status \in Transient THEN "failed" ELSE mem.status)
      /\ mem'.created = mem.created /\ mem'.planGate = mem.planGate
  BY <1>1, StatusOnly DEF GateState, TypeInv
<1>3. WorkersKnow'
  BY <1>1 DEF WorkersKnow, At
<1>4. Standing' /\ Founded'
  BY <1>1, <1>2 DEF Standing, Founded, Transient
<1>5. LifeStep
  <2>1. CASE mem.status \in Transient
    BY <1>1, <1>2, <2>1
    DEF LifeStep, Lifecycle!Next, Lifecycle!Stall, Lifecycle!Phases, Transient
  <2>2. CASE mem.status \notin Transient
    BY <1>1, <1>2, <2>2, Stutter
  <2> QED
    BY <2>1, <2>2
<1> QED
  BY <1>3, <1>4, <1>5

\* Every step is a step of the lifecycle, or none.
THEOREM PhaseStep == PhaseState /\ [Next]_vars => PhaseInv' /\ LifeStep
<1> SUFFICES ASSUME PhaseState, [Next]_vars PROVE PhaseInv' /\ LifeStep
  OBVIOUS
<1>1. CASE Surface
  BY <1>1, Rests DEF Surface, Persist, fileVars, pastVars
<1>2. CASE \E c \in Workers : ChildStep(c)
  <2>1. UNCHANGED <<mem, approved, createOK, phase, planFile, worker, req>>
    BY <1>2 DEF ChildStep, ChildBoot, ChildInit, ChildPost, ChildAck, ChildTail, OrphanExits, ChildFrame,
       planVars, fileVars, pastVars
  <2> QED
    BY <2>1, Rests
<1>3. CASE UNCHANGED vars
  BY <1>3, Rests DEF vars
<1> QED
  BY <1>1, <1>2, <1>3, SubmitLife, HandlerLife, PlanningLife, TrackerLife, RestartLife
  DEF Next, WorkerStep

\* Before its submission a plan is absent in both.
LEMMA PhaseInit == Init => PhaseInv /\ Lifecycle!Init
<1> SUFFICES ASSUME Init PROVE PhaseInv /\ Lifecycle!Init
  OBVIOUS
<1>1. /\ mem.status = "absent" /\ mem.created = "none" /\ mem.planGate = "none"
      /\ phase = "absent" /\ approved = NoShape /\ createOK = FALSE
      /\ \A w \in Workers : worker[w].kind = "none"
      /\ \A r \in Requests : req[r].op = "none"
  BY DEF Init, NoPlan, NoWorker, NoRequest
<1> QED
  BY <1>1 DEF PhaseInv, Standing, Founded, WorkersKnow, At, Transient, Lifecycle!Init

LEMMA PhaseAlways ==
  ASSUME MaxFaults = 0
  PROVE  Spec => [](TypeInv /\ OneWorker /\ GateInv /\ PhaseInv)
<1>1. Init => TypeInv /\ OneWorker /\ GateInv /\ PhaseInv
  BY TypeInit, OneWorkerInit, GateInit, PhaseInit
<1>2. TypeInv /\ OneWorker /\ GateInv /\ PhaseInv /\ [Next]_vars
        => (TypeInv /\ OneWorker /\ GateInv /\ PhaseInv)'
  BY TypeStep, OneWorkerStep, GateStep, PhaseStep DEF PhaseState, GateState, TypeInv
<1> QED
  BY <1>1, <1>2, PTL DEF Spec

\* As long as the plan file can be written, requests, retries, workers, timeouts,
\* crashes and surviving children together only make the documented transitions.
THEOREM LifecycleImplemented ==
  ASSUME MaxFaults = 0
  PROVE  Spec => ImplementsLifecycle
<1>1. TypeInv /\ OneWorker /\ GateInv /\ PhaseInv /\ [Next]_vars
        => [Lifecycle!Next]_(Lifecycle!vars)
  BY PhaseStep DEF PhaseState, GateState, LifeStep
<1>2. Init => Lifecycle!Init
  BY PhaseInit
<1> QED
  BY PhaseAlways, <1>1, <1>2, PTL DEF Spec, ImplementsLifecycle, Lifecycle!Spec

\* A retry resumes the phase that failed, whatever the run directory holds; after
\* a failed undo it only looks at the tree.
THEOREM ResumesAlways ==
  ASSUME MaxFaults = 0
  PROVE  Spec => ResumesFailedPhase
<1>1. TypeInv /\ OneWorker /\ GateInv /\ PhaseInv /\ [Next]_vars
        => [mem.status \in Retryable /\ mem'.status \in Transient =>
              \/ mem'.status \in {phase, "cancelling"}
              \/ phase = "cancelling" /\ mem'.status = "creating"]_vars
  <2> SUFFICES ASSUME PhaseState, Next, mem.status \in Retryable, mem'.status \in Transient
      PROVE  \/ mem'.status \in {phase, "cancelling"}
             \/ phase = "cancelling" /\ mem'.status = "creating"
    BY DEF PhaseState, GateState
  <2>1. LifeStep
    BY PhaseStep
  <2> QED
    BY <2>1 DEF LifeStep, Lifecycle!Next, Lifecycle!vars, Lifecycle!Submit, Lifecycle!Present,
       Lifecycle!ApproveShape, Lifecycle!ApproveContent, Lifecycle!RejectPlan, Lifecycle!Written,
       Lifecycle!Stall, Lifecycle!Resume, Lifecycle!Undo, Lifecycle!Undone, Lifecycle!Enter,
       Lifecycle!Phases, Retryable, Transient
<1> QED
  BY PhaseAlways, <1>1, PTL DEF Spec, ResumesFailedPhase

----------------------------------------------------------------------------
(***************************************************************************)
(* No dangling plan                                                        *)
(***************************************************************************)
\* A worker's last save takes the plan out of its transient status.
LEMMA EndsAtRest ==
  ASSUME GateState, NEW w \in Workers, worker[w].kind # "none", WorkerStep(w), Done(w)
  PROVE  mem'.status \notin Transient
<1> USE DEF GateState, TypeInv
<1>1. worker'[w].kind = "none"
  BY DEF Done, NoWorker, TypeOK
<1>2. \A pc : ~Goto(w, pc)
  BY <1>1, GotoSame
<1>3. /\ worker' # [worker EXCEPT ![w].pc = "check", ![w].attempt = @ + 1]
      /\ worker' # worker
  BY <1>1 DEF TypeOK, Worker
<1>4. \A p : ~Regenerate(w, p)
  BY <1>3, NoThrow DEF Regenerate
<1>5. ASSUME NEW s \in {"failed", "budget_blocked", "created", "cancelled"},
             Exit(w, [mem EXCEPT !.status = s])
      PROVE  mem'.status \notin Transient
  BY <1>5, ExitSaves, StatusOnly DEF Transient
<1>6. Exit(w, Failed) => mem'.status \notin Transient
  BY <1>5 DEF Failed
<1>7. CASE Check(w)
  BY <1>2, <1>5, <1>7 DEF Check, Retryable
<1>8. CASE EngineThrows(w) \/ SpendThrows(w)
  BY <1>6, <1>8 DEF EngineThrows, SpendThrows
<1>9. CASE Phase1Gated(w)
  <2> DEFINE p == [mem EXCEPT !.skel = skelFile, !.regenShape = worker[w].attempt]
             ready == [p EXCEPT !.status = "shape_ready", !.skelGate = "ok"]
             fails == [p EXCEPT !.status = "failed", !.skelGate = "bad"]
  <2>1. Exit(w, ready) \/ Exit(w, fails)
    BY <1>4, <1>9 DEF Phase1Gated
  <2>2. ready.status = "shape_ready" /\ fails.status = "failed"
    BY DEF TypeOK, Plan
  <2> HIDE DEF ready, fails
  <2> QED
    BY <2>1, <2>2, ExitSaves DEF Transient
<1>10. CASE GroomGated(w)
  <2> DEFINE p == [mem EXCEPT !.planGate = "bad", !.regenGroom = worker[w].attempt]
             fails == [p EXCEPT !.status = "failed"]
  <2>1. Exit(w, fails)
    BY <1>2, <1>4, <1>10 DEF GroomGated
  <2>2. fails.status = "failed"
    BY DEF TypeOK, Plan
  <2> HIDE DEF fails
  <2> QED
    BY <2>1, <2>2, ExitSaves DEF Transient
<1>11. CASE GroomSearched(w)
  <2> DEFINE ready == [mem EXCEPT !.status = "plan_ready", !.planGate = "ok",
                                  !.regenGroom = worker[w].attempt]
  <2>1. Exit(w, ready) /\ ready.status = "plan_ready"
    BY <1>11 DEF GroomSearched, TypeOK, Plan
  <2> HIDE DEF ready
  <2> QED
    BY <2>1, ExitSaves DEF Transient
<1>12. CASE CreateGuard(w) \/ CreateTimeout(w) \/ CreateExited(w)
  BY <1>2, <1>6, <1>12 DEF CreateGuard, CreateTimeout, CreateExited
<1>13. CASE CreateVerified(w)
  <2>1. ASSUME NEW to \in {"created", "failed"},
               Exit(w, [mem EXCEPT !.status = to, !.created = "full"])
        PROVE  mem'.status \notin Transient
    BY <2>1, ExitSaves DEF TypeOK, Plan, Transient
  <2> QED
    BY <1>6, <1>13, <2>1 DEF CreateVerified
<1>14. CASE Verified(w)
  <2>1. Exit(w, [Failed EXCEPT !.created = "partial"]) => mem'.status \notin Transient
    BY ExitSaves DEF Failed, TypeOK, Plan, Transient
  <2> QED
    BY <1>5, <1>6, <1>14, <2>1 DEF Verified
<1>15. CASE CancelDone(w)
  BY <1>5, <1>6, <1>15 DEF CancelDone
<1>16. ~Phase1Returns(w) /\ ~GroomReturns(w) /\ ~Sweep(w)
  BY <1>2, <1>3 DEF Phase1Returns, GroomReturns, Sweep
<1> QED
  BY <1>7, <1>8, <1>9, <1>10, <1>11, <1>12, <1>13, <1>14, <1>15, <1>16 DEF WorkerStep

\* A handler that enters a transient status starts its worker.
LEMMA EntersWithWorker ==
  ASSUME GateState, NEW r \in Requests, Handler(r)
  PROVE  \/ mem'.status = mem.status /\ UNCHANGED worker
         \/ mem'.status = "rejected"
         \/ \E w \in Workers : worker'[w].kind # "none"
<1> USE DEF GateState, TypeInv
<1>1. ASSUME NEW kind \in Kinds \ {"none"}, NEW pc, NEW edited, Start(kind, pc, edited)
      PROVE  \E w \in Workers : worker'[w].kind # "none"
  BY <1>1 DEF Start, TypeOK
<1>2. ASSUME NEW to \in Transient, NEW kind \in Kinds \ {"none"}, NEW pc, TransitionAndStart(to, kind, pc)
      PROVE  \E w \in Workers : worker'[w].kind # "none"
  BY <1>1, <1>2, NoThrow DEF TransitionAndStart
<1>3. CASE Arrive(r) \/ Refuse(r)
  BY <1>3 DEF Arrive, Refuse, planVars
<1>4. ~(faults < MaxFaults)
  BY DEF TypeOK
<1>5. CASE ApproveShape(r)
  <2>1. EditedPlan(r).status = mem.status
    BY DEF EditedPlan, TypeOK, Plan
  <2>2. \/ \E edited : Start("groom", "check", edited)
        \/ mem'.status = mem.status /\ UNCHANGED worker
    BY <1>4, <1>5, <2>1 DEF ApproveShape, Persist, PersistThrows
  <2> QED
    BY <1>1, <2>2 DEF Kinds
<1>6. CASE Create(r) \/ Cancel(r)
  BY <1>2, <1>6 DEF Create, Cancel, Transient, Kinds
<1>7. CASE Reject(r)
  <2>1. mem' = [mem EXCEPT !.status = "rejected"]
    BY <1>7, NoThrow DEF Reject, Persist
  <2> QED
    BY <2>1, StatusOnly
<1>8. CASE Retry(r)
  <2>1. CASE RetryVerify \/ RetryLadder
    BY <1>2, <2>1 DEF RetryVerify, RetryLadder, Transient, Kinds
  <2>2. CASE RetryBlocked
    <3>1. Start("verifyPartial", "verify", FALSE)
      BY <1>4, <2>2, NoThrow DEF RetryBlocked
    <3> QED
      BY <1>1, <3>1 DEF Kinds
  <2> QED
    BY <1>8, <2>1, <2>2 DEF Retry
<1> QED
  BY <1>3, <1>5, <1>6, <1>7, <1>8 DEF Handler

\* A plan is in a transient status only while a worker runs it: as long as the
\* plan file can be written, no order of requests, failures and crashes leaves a
\* plan that nothing will ever move.
THEOREM NeverDangles ==
  ASSUME MaxFaults = 0
  PROVE  Spec => []TransientHasWorker
<1>1. ASSUME GateState, TransientHasWorker, [Next]_vars
      PROVE  TransientHasWorker'
  <2> USE <1>1 DEF GateState, TypeInv
  <2>1. ASSUME mem'.status = mem.status, \A w \in Workers : worker'[w].kind = worker[w].kind
        PROVE  TransientHasWorker'
    BY <2>1 DEF TransientHasWorker, Active
  <2>2. ASSUME \/ mem'.status = mem.status /\ UNCHANGED worker
               \/ mem'.status = "rejected"
               \/ \E w \in Workers : worker'[w].kind # "none"
        PROVE  TransientHasWorker'
    BY <2>1, <2>2 DEF TransientHasWorker, Active, Transient
  <2>3. CASE CreatePlan
    <3>1. ASSUME NEW pc, Start("phase1", pc, FALSE)
          PROVE  \E w \in Workers : worker'[w].kind # "none"
      BY <3>1 DEF Start, TypeOK
    <3> QED
      BY <2>2, <2>3, <3>1, NoThrow DEF CreatePlan, TransitionAndStart
  <2>4. CASE \E r \in Requests : Handler(r)
    BY <2>2, <2>4, EntersWithWorker
  <2>5. CASE \E w \in Workers : WorkerStep(w)
    BY <2>1, <2>5, WorkerEndsOrGoesOn, EndsAtRest DEF TransientHasWorker
  <2>6. CASE Surface \/ (\E c \in Workers : ChildStep(c)) \/ UNCHANGED vars
    BY <2>2, <2>6 DEF Surface, Persist, ChildStep, ChildBoot, ChildInit, ChildPost, ChildAck, ChildTail,
       OrphanExits, ChildFrame, planVars, vars
  <2>7. CASE Restart
    BY <2>7, StatusOnly DEF Restart, Reload, GateInv, TransientHasWorker, Transient
  <2> QED
    BY <2>3, <2>4, <2>5, <2>6, <2>7 DEF Next
<1>2. Init => TransientHasWorker
  BY DEF Init, NoPlan, TransientHasWorker, Transient
<1>3. /\ TypeInv /\ OneWorker /\ GateInv /\ TransientHasWorker /\ [Next]_vars
      => TransientHasWorker'
  BY <1>1 DEF GateState
<1> QED
  BY GateAlways, <1>2, <1>3, PTL DEF Spec
===========================================================================
