-------------------------- MODULE TicketTreeProofs --------------------------
(***************************************************************************)
(* Theorems about the gate and the tracker tool, for any jobs the engine   *)
(* may hand over: trees of any size, any board workflow, any number of     *)
(* runs, kills and faults.                                                 *)
(***************************************************************************)
EXTENDS TicketTree, FiniteSetTheorems, TLAPS

----------------------------------------------------------------------------
(***************************************************************************)
(* What an accepted plan is, taken from the checks it passed.              *)
(***************************************************************************)
\* The tree is one the decoders let through.
LEMMA JobTree ==
  ASSUME job \in SkeletonJobs \cup PlanJobs
  PROVE  /\ Tree \in TreeRecord
         /\ \A i \in DOMAIN Tree.items : Tree.items[i] \in ItemRecord
         /\ job.mode \in {"skeleton", "plan"}
<1>1. Tree \in TreeRecord /\ job.mode \in {"skeleton", "plan"}
  BY JobsAssumption DEF Tree
<1>2. Tree.items \in Seq(ItemRecord)
  BY <1>1 DEF TreeRecord
<1> QED  BY <1>1, <1>2

LEMMA PlanPasses ==
  ASSUME NEW t, NEW map, PlanFailures(t, map) = {}
  PROVE  /\ t.items # <<>>
         /\ DOMAIN t.items # {} => PlanStructure(t)
         /\ \A i \in DOMAIN t.items : t.items[i].type \in ItemTypes /\ PlanHierarchyLegal(t, t.items[i])
<1>1. PlanContract(t)
  BY DEF PlanFailures
<1>2. ASSUME NEW i \in DOMAIN t.items PROVE PlanStructure(t) /\ PlanHierarchyLegal(t, t.items[i])
  <2> DEFINE names == {"plan_structure", "hierarchy_legal", "fields_present", "single_repo",
               "anchors_exist", "zone_routing"}
             Holds(c, it) == CASE c = "plan_structure" -> PlanStructure(t)
               [] c = "hierarchy_legal" -> PlanHierarchyLegal(t, it)
               [] c = "fields_present" -> FieldsPresent(it)
               [] c = "single_repo" -> SingleRepo(it)
               [] c = "anchors_exist" -> \A a \in it.anchors : AnchorExists(a)
               [] c = "zone_routing" -> ZoneRouting(it, map)
  <2>1. PlanFailures(t, map) = {c \in names : \E j \in DOMAIN t.items : ~Holds(c, t.items[j])}
    BY <1>1 DEF PlanFailures
  <2> HIDE DEF Holds
  <2>2. Holds("plan_structure", t.items[i]) /\ Holds("hierarchy_legal", t.items[i])
    BY <1>2, <2>1
  <2> QED  BY <2>2 DEF Holds
<1> QED  BY <1>1, <1>2 DEF PlanContract

LEMMA SkeletonPasses ==
  ASSUME NEW t, SkeletonFailures(t) = {}
  PROVE  /\ t.items # <<>>
         /\ HierarchyLegal(t) /\ OrderConsistent(t) /\ MilestoneShippable(t)
<1>1. SkeletonContract(t)
  BY DEF SkeletonFailures
<1>2. HierarchyLegal(t) /\ OrderConsistent(t) /\ MilestoneShippable(t)
  <2> DEFINE names == {"acyclic", "hierarchy_legal", "order_consistent", "milestone_shippable", "sizing_sane"}
             Holds(c) == CASE c = "acyclic" -> Acyclic(t)
               [] c = "hierarchy_legal" -> HierarchyLegal(t)
               [] c = "order_consistent" -> OrderConsistent(t)
               [] c = "milestone_shippable" -> MilestoneShippable(t)
               [] c = "sizing_sane" -> SizingSane(t)
  <2>1. SkeletonFailures(t) = {c \in names : ~Holds(c)}
    BY <1>1 DEF SkeletonFailures
  <2> HIDE DEF Holds
  <2>2. Holds("hierarchy_legal") /\ Holds("order_consistent") /\ Holds("milestone_shippable")
    BY <2>1
  <2> QED  BY <2>2 DEF Holds
<1> QED  BY <1>1, <1>2 DEF SkeletonContract

\* Where ids are unique, the last item or milestone with an id is the only one.
LEMMA UniqueLast ==
  ASSUME NEW S, NEW seq \in Seq(S), NoDuplicates(seq), NEW i \in DOMAIN seq
  PROVE  WithId(seq, seq[i].id) = {i} /\ LastWith(seq, seq[i].id) = seq[i]
<1>1. i \in Int
  OBVIOUS
<1>2. WithId(seq, seq[i].id) = {i}
  BY DEF WithId, NoDuplicates
<1>3. Max({i}) = i
  BY <1>1 DEF Max
<1> QED  BY <1>2, <1>3 DEF LastWith

LEMMA ElementOf ==
  ASSUME NEW S, NEW seq \in Seq(S), NEW i \in DOMAIN seq PROVE seq[i] \in S
  OBVIOUS

LEMMA NonEmptyItems ==
  ASSUME NEW S, NEW seq \in Seq(S), seq # <<>>
  PROVE  Len(seq) \in Nat \ {0} /\ 1 \in DOMAIN seq
<1>1. Len(seq) # 0
  OBVIOUS
<1> QED  BY <1>1

\* The parent of an item that is not directly below the epic.
LEMMA SubtaskParent ==
  ASSUME NEW t \in TreeRecord, UniqueIds(t), NEW i \in DOMAIN t.items,
         LegalParent(t, t.items[i]), Resolves(t, t.items[i].parent)
  PROVE  IF t.items[i].type = "Sub-task"
         THEN \E j \in DOMAIN t.items : t.items[j].id = t.items[i].parent /\ t.items[j].type \in L0Types
         ELSE t.items[i].parent = t.epic /\ t.epic \notin {Null, Blank}
<1>1. t.items \in Seq(ItemRecord)
  BY DEF TreeRecord
<1>2. CASE t.items[i].type = "Sub-task"
  <2>1. t.items[i].parent \in Ids(t) /\ Item(t, t.items[i].parent).type \in L0Types
    BY <1>2 DEF LegalParent, Resolves
  <2>2. PICK j \in DOMAIN t.items : t.items[j].id = t.items[i].parent
    BY <2>1 DEF Ids
  <2>3. Item(t, t.items[i].parent) = t.items[j]
    BY <1>1, <2>2, UniqueLast DEF Item, UniqueIds
  <2> QED  BY <1>2, <2>1, <2>2, <2>3
<1>3. CASE t.items[i].type # "Sub-task"
  BY <1>3 DEF LegalParent, IsEpic
<1> QED  BY <1>2, <1>3

\* Items directly below the epic, or standing alone, are no sub-tasks; the others
\* hang below one of those, or have a blank parent and will find none.
LEMMA PlanShape ==
  ASSUME job \in SkeletonJobs \cup PlanJobs, job.mode = "plan", Failures = {}, PlanItemIDs
  PROVE  /\ DOMAIN Tree.items # {}
         /\ UniqueIds(Tree)
         /\ \A n \in AllL0 : TypeAt(n) \in L0Types
         /\ \A n \in DOMAIN Tree.items \ AllL0 :
              \/ Tree.items[n].parent = Blank /\ Tree.epic # Blank
              \/ /\ TypeAt(n) = "Sub-task"
                 /\ \E m \in DOMAIN Tree.items : Tree.items[m].id = Tree.items[n].parent /\ TypeAt(m) \in L0Types
<1>1. Tree \in TreeRecord /\ Tree.items \in Seq(ItemRecord) /\ Tree.items # <<>>
  BY JobTree DEF TreeRecord, PlanItemIDs
<1>2. DOMAIN Tree.items # {}
  BY <1>1, NonEmptyItems
<1>3. PlanFailures(Tree, job.map) = {}
  BY DEF Failures
<1>4. /\ PlanStructure(Tree)
      /\ \A n \in DOMAIN Tree.items : TypeAt(n) \in ItemTypes /\ PlanHierarchyLegal(Tree, Tree.items[n])
  BY <1>2, <1>3, PlanPasses DEF TypeAt
<1>5. /\ UniqueIds(Tree)
      /\ \A n \in DOMAIN Tree.items : NoParent(Tree.items[n]) \/ Resolves(Tree, Tree.items[n].parent)
  BY <1>4 DEF PlanStructure
<1>6. ASSUME NEW n \in AllL0 PROVE TypeAt(n) \in L0Types
  <2>1. n \in DOMAIN Tree.items /\ Tree.items[n].parent \in {Tree.epic, Null}
    BY <1>6 DEF AllL0, IsL0
  <2>2. CASE NoParent(Tree.items[n])
    BY <1>4, <2>1, <2>2 DEF PlanHierarchyLegal, TypeAt, ItemTypes
  <2>3. CASE ~NoParent(Tree.items[n])
    <3>1. LegalParent(Tree, Tree.items[n]) /\ IsEpic(Tree, Tree.items[n].parent)
      BY <1>4, <1>5, <2>1, <2>3 DEF PlanHierarchyLegal, IsEpic, NoParent
    <3> QED  BY <1>4, <2>1, <3>1 DEF LegalParent, TypeAt, ItemTypes
  <2> QED  BY <2>2, <2>3
<1>7. ASSUME NEW n \in DOMAIN Tree.items \ AllL0, ~(Tree.items[n].parent = Blank /\ Tree.epic # Blank)
      PROVE  /\ TypeAt(n) = "Sub-task"
             /\ \E m \in DOMAIN Tree.items : Tree.items[m].id = Tree.items[n].parent /\ TypeAt(m) \in L0Types
  <2>1. Tree.items[n].parent \notin {Tree.epic, Null}
    BY <1>7 DEF AllL0, IsL0
  <2>2. ~NoParent(Tree.items[n])
    BY <1>7, <2>1 DEF NoParent
  <2>3. LegalParent(Tree, Tree.items[n]) /\ Resolves(Tree, Tree.items[n].parent)
    BY <1>4, <1>5, <2>2 DEF PlanHierarchyLegal
  <2> QED  BY <1>1, <1>5, <2>1, <2>3, SubtaskParent DEF TypeAt
<1> QED  BY <1>2, <1>5, <1>6, <1>7

----------------------------------------------------------------------------
(***************************************************************************)
(* A tree that passed the gate.                                            *)
(***************************************************************************)
Accepted == gate = "pass" /\ job.mode = "plan"

\* A green verdict is that of the checks, and the tool runs behind it only.
GateInv ==
  /\ job \in SkeletonJobs \cup PlanJobs
  /\ gate \in {"none", "pass", "fail"}
  /\ gate = "pass" => Failures = {} /\ (job.mode = "plan" => PlanItemIDs)
  /\ tool.pc # "idle" \/ record # Absent => Accepted
  /\ tool.pc \in {"post", "ack"} => AttachVerified

\* In an accepted plan an item below another is a sub-task of one that is not.
LEMMA PlanSound ==
  ASSUME job \in SkeletonJobs \cup PlanJobs, job.mode = "plan", Failures = {}, PlanItemIDs
  PROVE  AcceptedTreeSound
<1>1. Tree \in TreeRecord /\ Tree.items \in Seq(ItemRecord)
  BY JobTree DEF TreeRecord
<1>2. PlanFailures(Tree, job.map) = {} /\ DOMAIN Tree.items # {} /\ UniqueIds(Tree)
  BY PlanShape DEF Failures
<1>3. /\ PlanStructure(Tree)
      /\ \A n \in DOMAIN Tree.items : PlanHierarchyLegal(Tree, Tree.items[n])
  BY <1>2, PlanPasses
<1>4. \A n \in DOMAIN Tree.items : NoParent(Tree.items[n]) \/ Resolves(Tree, Tree.items[n].parent)
  BY <1>3 DEF PlanStructure
<1>5. ASSUME NEW n \in DOMAIN Tree.items
      PROVE  IF Tree.items[n].type = "Sub-task"
             THEN \E m \in DOMAIN Tree.items : Tree.items[m].id = Tree.items[n].parent /\ Tree.items[m].type \in L0Types
             ELSE Tree.items[n].parent \in Tops
  <2>1. CASE NoParent(Tree.items[n])
    BY <1>3, <2>1 DEF PlanHierarchyLegal, NoParent, Tops
  <2>2. CASE ~NoParent(Tree.items[n])
    <3>1. LegalParent(Tree, Tree.items[n]) /\ Resolves(Tree, Tree.items[n].parent)
      BY <1>3, <1>4, <2>2 DEF PlanHierarchyLegal
    <3> QED  BY <1>1, <1>2, <3>1, SubtaskParent DEF Tops
  <2> QED  BY <2>1, <2>2
<1>6. \A n \in DOMAIN Tree.items : Tree.items[n].type \in L0Types => Tree.items[n].parent \in Tops
  BY <1>5 DEF L0Types
<1>7. \A it \in Items :
        \/ it.parent \in Tops /\ it.type # "Sub-task"
        \/ \E up \in Items : up.id = it.parent /\ up.parent \in Tops
  BY <1>5, <1>6 DEF Items
<1> QED  BY <1>2, <1>7 DEF AcceptedTreeSound, Items

\* In an accepted skeleton a prerequisite comes before its item.
LEMMA OrderSound ==
  ASSUME NEW t \in TreeRecord, HierarchyLegal(t), OrderConsistent(t),
         NEW i \in DOMAIN t.items, NEW dep \in t.items[i].deps
  PROVE  \E j \in 1..(i - 1) : t.items[j].id = dep
<1>1. t.items \in Seq(ItemRecord) /\ NoDuplicates(t.items)
  BY DEF TreeRecord, HierarchyLegal, UniqueIds
<1>2. PICK j \in DOMAIN t.items : t.items[j].id = dep
  BY DEF HierarchyLegal, Ids
<1>3. WithId(t.items, dep) = {j}
  BY <1>1, <1>2, UniqueLast
<1>4. Max({j}) = j /\ j \in 1..Len(t.items) /\ i \in 1..Len(t.items)
  BY <1>1 DEF Max
<1>5. Max(WithId(t.items, dep)) < i
  BY <1>2 DEF OrderConsistent, Ids
<1> QED  BY <1>2, <1>3, <1>4, <1>5

\* ... and in a milestone that is no later.
LEMMA MilestoneSound ==
  ASSUME NEW t \in TreeRecord, HierarchyLegal(t), MilestoneShippable(t), t.milestones # <<>>,
         NEW i \in DOMAIN t.items, NEW j \in DOMAIN t.items, t.items[j].id \in t.items[i].deps
  PROVE  LastWith(t.milestones, t.items[j].milestone).order
           <= LastWith(t.milestones, t.items[i].milestone).order
<1>1. t.items \in Seq(ItemRecord) /\ NoDuplicates(t.items)
  BY DEF TreeRecord, HierarchyLegal, UniqueIds
<1> DEFINE placed == {n \in DOMAIN t.items : t.items[n].milestone \in MilestoneIds(t)}
<1>2. placed = DOMAIN t.items
  BY DEF HierarchyLegal, ItemMilestone
<1>3. ASSUME NEW n \in DOMAIN t.items
      PROVE  /\ t.items[n].id \in DOMAIN MilestoneOrderOf(t)
             /\ MilestoneOrderOf(t)[t.items[n].id] = LastWith(t.milestones, t.items[n].milestone).order
  <2>1. placed \cap WithId(t.items, t.items[n].id) = {n}
    BY <1>1, <1>2, UniqueLast
  <2>2. Max({n}) = n
    BY <1>1 DEF Max
  <2> HIDE DEF placed
  <2>3. MilestoneOrderOf(t) = [id \in {t.items[m].id : m \in placed} |->
          LastWith(t.milestones, t.items[Max(placed \cap WithId(t.items, id))].milestone).order]
    BY DEF MilestoneOrderOf, placed
  <2> DEFINE id == t.items[n].id
  <2>4. id \in {t.items[m].id : m \in placed}
    BY <1>2
  <2> HIDE DEF id
  <2>5. /\ id \in DOMAIN MilestoneOrderOf(t)
        /\ MilestoneOrderOf(t)[id]
             = LastWith(t.milestones, t.items[Max(placed \cap WithId(t.items, id))].milestone).order
    BY <2>3, <2>4
  <2> QED  BY <2>1, <2>2, <2>5 DEF id
<1> QED  BY <1>3 DEF MilestoneShippable

LEMMA SkeletonSound ==
  ASSUME job \in SkeletonJobs \cup PlanJobs, job.mode = "skeleton", Failures = {}
  PROVE  AcceptedTreeSound
<1>1. Tree \in TreeRecord /\ Tree.items \in Seq(ItemRecord)
      /\ Tree.milestones \in Seq([id : STRING, order : Int])
  BY JobTree DEF TreeRecord
<1>2. /\ Tree.items # <<>>
      /\ HierarchyLegal(Tree) /\ OrderConsistent(Tree) /\ MilestoneShippable(Tree)
  BY SkeletonPasses DEF Failures
<1>3. /\ UniqueIds(Tree) /\ NoDuplicates(Tree.milestones)
      /\ \A n \in DOMAIN Tree.items : /\ SkeletonParent(Tree, Tree.items[n])
                                      /\ ItemMilestone(Tree, Tree.items[n])
  BY <1>2 DEF HierarchyLegal
<1>4. ASSUME NEW n \in DOMAIN Tree.items
      PROVE  IF Tree.items[n].type = "Sub-task"
             THEN \E m \in DOMAIN Tree.items : Tree.items[m].id = Tree.items[n].parent /\ Tree.items[m].type \in L0Types
             ELSE Tree.items[n].parent \in Tops
  BY <1>1, <1>3, SubtaskParent DEF SkeletonParent, Tops
<1>5. \A n \in DOMAIN Tree.items : Tree.items[n].type \in L0Types => Tree.items[n].parent \in Tops
  BY <1>4 DEF L0Types
<1>6. \A it \in Items :
        \/ it.parent \in Tops /\ it.type # "Sub-task"
        \/ \E up \in Items : up.id = it.parent /\ up.parent \in Tops
  BY <1>4, <1>5 DEF Items
<1>7. \A i \in DOMAIN Tree.items : Tree.items[i].deps \subseteq {Tree.items[j].id : j \in 1..(i - 1)}
  BY <1>1, <1>2, OrderSound
<1>8. ASSUME NEW n \in DOMAIN Tree.milestones, NEW it \in Until(n), NEW dep \in it.deps
      PROVE  dep \in {done.id : done \in Until(n)}
  <2>1. PICK i \in DOMAIN Tree.items :
          it = Tree.items[i] /\ LastWith(Tree.milestones, it.milestone).order <= n
    BY DEF Until, Items
  <2>2. PICK j \in DOMAIN Tree.items : Tree.items[j].id = dep
    BY <1>2, <2>1 DEF HierarchyLegal, Ids
  <2>3. Tree.milestones # <<>> /\ n \in Int
    BY <1>1
  <2>4. LastWith(Tree.milestones, Tree.items[j].milestone).order
          <= LastWith(Tree.milestones, Tree.items[i].milestone).order
    BY <1>1, <1>2, <2>1, <2>2, <2>3, MilestoneSound
  <2>5. \A m \in DOMAIN Tree.items : LastWith(Tree.milestones, Tree.items[m].milestone).order \in Int
    <3> SUFFICES ASSUME NEW m \in DOMAIN Tree.items
                 PROVE  LastWith(Tree.milestones, Tree.items[m].milestone).order \in Int
      OBVIOUS
    <3>1. PICK k \in DOMAIN Tree.milestones : Tree.milestones[k].id = Tree.items[m].milestone
      BY <1>3, <2>3 DEF ItemMilestone, MilestoneIds
    <3>2. LastWith(Tree.milestones, Tree.items[m].milestone) = Tree.milestones[k]
      BY <1>1, <1>3, <3>1, UniqueLast
    <3>3. Tree.milestones[k] \in [id : STRING, order : Int]
      BY <1>1, ElementOf
    <3> QED  BY <3>2, <3>3
  <2>6. Tree.items[j] \in Until(n)
    BY <2>1, <2>3, <2>4, <2>5 DEF Until, Items
  <2> QED  BY <2>2, <2>6
<1>9. Items # {}
  BY <1>1, <1>2, NonEmptyItems DEF Items
<1> QED  BY <1>6, <1>7, <1>8, <1>9 DEF AcceptedTreeSound

LEMMA AcceptedSound ==
  ASSUME GateInv PROVE AcceptedTreeSound
<1>1. gate = "pass" => /\ job \in SkeletonJobs \cup PlanJobs /\ Failures = {}
                       /\ job.mode = "skeleton" \/ (job.mode = "plan" /\ PlanItemIDs)
  BY JobTree DEF GateInv
<1> QED  BY <1>1, PlanSound, SkeletonSound DEF AcceptedTreeSound

----------------------------------------------------------------------------
(***************************************************************************)
(* The board: where every issue of the tool hangs, recorded or not.        *)
(***************************************************************************)
IssueRecord == [id : {"old", Tree.epic} \cup Ids(Tree), type : {"Epic"} \cup ItemTypes,
                parent : Nat, state : States, mine : BOOLEAN]

\* An issue of the tool has its parent on the board before it, of the rank above.
Placed(k) ==
  \/ /\ board[k].type = "Epic" /\ board[k].parent = 0
     /\ ~Attaches(Tree)
  \/ /\ board[k].type \in L0Types
     /\ IF Tree.epic = Null THEN board[k].parent = 0
        ELSE /\ board[k].parent \in 1..(k - 1) /\ board[board[k].parent].type = "Epic"
             /\ Attaches(Tree) => board[k].parent = Old
  \/ /\ board[k].type = "Sub-task"
     /\ board[k].parent \in 1..(k - 1) /\ board[board[k].parent].type \in L0Types

BoardInv ==
  /\ board \in Seq(IssueRecord)
  /\ Tree.existing = "epic" => Old \in DOMAIN board /\ board[Old].type = "Epic"
  /\ \A k \in DOMAIN board : IF board[k].mine THEN Placed(k) ELSE k = Old /\ board[k].parent = 0

----------------------------------------------------------------------------
(***************************************************************************)
(* What a create has made so far, and what the record says of it.          *)
(***************************************************************************)
TempId(n) == IF n = Epic THEN Tree.epic ELSE Tree.items[n].id

\* The parent that the plan gives item n, as an issue among those created.
Hangs(n, k, created) ==
  CASE n \in Subtasks -> board[k].parent \in created /\ board[board[k].parent].id = Tree.items[n].parent
    [] n \in L0 \ Subtasks /\ Tree.epic # Null ->
         IF AttachesTo THEN board[k].parent = Old
         ELSE board[k].parent \in created /\ board[board[k].parent].id = Tree.epic
    [] OTHER -> board[k].parent = 0

\* Issue k is what the plan wants for item n.
Made(n, k, created) ==
  /\ board[k].mine /\ board[k].id = TempId(n)
  /\ board[k].type = (CASE n = Epic -> "Epic" [] n \in Subtasks -> "Sub-task" [] OTHER -> TypeAt(n))
  /\ Hangs(n, k, created)

\* One issue for each of the items, and none for another.
Covers(created, items) ==
  /\ created \subseteq DOMAIN board
  /\ \A k \in created : \E n \in items : Made(n, k, created)
  /\ \A n \in items : \E k \in created : Made(n, k, created)
  /\ \A j, k \in created : board[j].id = board[k].id => j = k

Creating == tool.pc \in {"post", "ack"}

ToolInv ==
  /\ tool \in [pc : {"idle", "post", "ack", "sweep"}, todo : SUBSET Nat, at : Nat, key : Nat,
               created : SUBSET Nat, hard : BOOLEAN]
  /\ Creating => tool.todo \subseteq Posts /\ Covers(tool.created, Posts \ tool.todo)
  /\ tool.pc = "ack" => /\ tool.at \in tool.todo
                        /\ tool.key \in DOMAIN board \ tool.created
                        /\ Made(tool.at, tool.key, tool.created)
  /\ ~Creating => tool.created = {}
  /\ tool.pc = "idle" => tool = NoTool
  /\ tool.pc # "idle" => exit = "none"

\* The record lists issues of the tool only; during a create, those acknowledged.
RecordInv ==
  /\ record.state \in {"absent", "torn", "written"}
  /\ record.created \subseteq DOMAIN board
  /\ \A k \in record.created : board[k].mine
  /\ record.state # "written" => record.created = {}
  /\ Creating => record = Written(tool.created)
  /\ tool.pc = "sweep" => tool.todo \subseteq record.created

----------------------------------------------------------------------------
(***************************************************************************)
(* What the exit codes claim.                                              *)
(***************************************************************************)
\* The issues in keys were cancelled, or the workflow has no way to.
SweptBut(keys) ==
  \A k \in record.created \ keys : board[k].state # "open" \/ job.workflow \cap Range(CancelLike) = {}

ExitInv ==
  /\ exit \in {"none", "live0", "live1", "cleanup0", "cleanup1", "verify0", "verify1", "killed"}
  /\ exit = "live0" => BuiltAsPlanned
  /\ exit = "cleanup0" => SweptBut({})
  /\ tool.pc = "sweep" /\ ~tool.hard => SweptBut(tool.todo)

LinkInv == links \subseteq (DOMAIN board) \X (DOMAIN board)

TreeInv == GateInv /\ BoardInv /\ ToolInv /\ RecordInv /\ ExitInv /\ LinkInv

----------------------------------------------------------------------------
(***************************************************************************)
(* What no step changes: the job, and what is read off it.                 *)
(***************************************************************************)
LEMMA SameJob ==
  ASSUME job' = job
  PROVE  /\ Tree' = Tree /\ AttachesTo' = AttachesTo
         /\ L0' = L0 /\ Subtasks' = Subtasks /\ Posts' = Posts
         /\ LinksToPost' = LinksToPost /\ Selected' = Selected
         /\ Failures' = Failures /\ PlanItemIDs' = PlanItemIDs /\ AttachVerified' = AttachVerified
<1>1. Tree' = Tree
  BY DEF Tree
<1>2. AttachesTo' = AttachesTo
  BY <1>1 DEF AttachesTo
<1>3. AllL0' = AllL0
  BY <1>1 DEF AllL0, IsL0
<1>4. FirstTask' = FirstTask /\ FirstStory' = FirstStory
  BY <1>1, <1>3 DEF FirstTask, FirstStory, TypeAt
<1>5. L0' = L0
  BY <1>3, <1>4 DEF L0
<1>6. Subtasks' = Subtasks
  BY <1>1, <1>3, <1>4 DEF Subtasks, TypeAt
<1>7. Posts' = Posts
  BY <1>1, <1>2, <1>5, <1>6 DEF Posts
<1>8. Selected' = Selected
  BY <1>1, <1>5, <1>6 DEF Selected
<1>9. LinksToPost' = LinksToPost
  BY <1>1, <1>8 DEF LinksToPost
<1>10. Failures' = Failures /\ PlanItemIDs' = PlanItemIDs /\ AttachVerified' = AttachVerified
  BY <1>1, <1>2 DEF Failures, PlanItemIDs, AttachVerified
<1> QED  BY <1>1, <1>2, <1>5, <1>6, <1>7, <1>8, <1>9, <1>10

LEMMA JobFixed ==
  ASSUME [Next]_vars PROVE job' = job
<1>1. CASE UNCHANGED vars
  BY <1>1 DEF vars
<1>2. CASE Next
  BY <1>2 DEF Next, Gate, Create, LiveRefused, LiveBegins, PostIssue, PostRefused, AckIssue, LoseAnswer,
     PostLink, LinkRefused, LiveEnds, Cleanup, CleanupBegins, CleanupRefused, SweepIssue, SweepFails,
     CleanupEnds, Verify, Kill
<1> QED  BY <1>1, <1>2

----------------------------------------------------------------------------
(***************************************************************************)
(* The items of an accepted plan that a create posts.                      *)
(***************************************************************************)
LEMMA FirstOf ==
  ASSUME NEW P PROVE First(P) \subseteq P
  BY DEF First

LEMMA PostsShape ==
  ASSUME GateInv, Accepted
  PROVE  /\ UniqueIds(Tree)
         /\ Tree.items \in Seq(ItemRecord) /\ Tree.epic \in STRING
         /\ L0 \subseteq DOMAIN Tree.items /\ Subtasks \subseteq DOMAIN Tree.items
         /\ L0 \cap Subtasks = {}
         /\ Posts \subseteq Nat /\ Epic \notin DOMAIN Tree.items
         /\ \A n \in L0 : TypeAt(n) \in L0Types
         /\ \A n \in Subtasks : Tree.items[n].parent # Tree.epic
         /\ \A n \in Subtasks :
              \/ Tree.items[n].parent = Blank
              \/ /\ TypeAt(n) = "Sub-task"
                 /\ \E m \in DOMAIN Tree.items : Tree.items[m].id = Tree.items[n].parent /\ TypeAt(m) \in L0Types
<1>1. /\ Tree.items \in Seq(ItemRecord) /\ Tree.epic \in STRING
      /\ \A n \in DOMAIN Tree.items : Tree.items[n] \in ItemRecord
      /\ DOMAIN Tree.items \subseteq Nat \ {0}
  BY JobTree DEF GateInv, TreeRecord
<1>2. /\ UniqueIds(Tree)
      /\ \A n \in AllL0 : TypeAt(n) \in L0Types
      /\ \A n \in DOMAIN Tree.items \ AllL0 :
           \/ Tree.items[n].parent = Blank /\ Tree.epic # Blank
           \/ /\ TypeAt(n) = "Sub-task"
              /\ \E m \in DOMAIN Tree.items : Tree.items[m].id = Tree.items[n].parent /\ TypeAt(m) \in L0Types
  BY PlanShape DEF GateInv, Accepted
<1>3. AllL0 \subseteq DOMAIN Tree.items /\ FirstTask \subseteq AllL0 /\ FirstStory \subseteq AllL0
  BY FirstOf DEF AllL0, FirstTask, FirstStory
<1>4. L0 \subseteq AllL0
  <2>1. First(AllL0) \subseteq AllL0
    BY FirstOf
  <2> QED  BY <1>3, <2>1 DEF L0
<1>5. Subtasks \subseteq DOMAIN Tree.items \ AllL0
  <2>1. CASE job.scope = "full"
    BY <2>1 DEF Subtasks
  <2>2. CASE job.scope # "full"
    <3>1. Subtasks \subseteq {n \in DOMAIN Tree.items :
            TypeAt(n) = "Sub-task" /\ \E s \in FirstStory : Tree.items[n].parent = Tree.items[s].id}
      BY <2>2, FirstOf DEF Subtasks
    <3>2. \A s \in DOMAIN Tree.items : Tree.items[s].id \notin {Tree.epic, Null}
      BY <1>1, <1>2 DEF UniqueIds, Ids, ItemRecord
    <3> QED  BY <1>3, <3>1, <3>2 DEF AllL0, IsL0
  <2> QED  BY <2>1, <2>2
<1>6. \A n \in DOMAIN Tree.items \ AllL0 : Tree.items[n].parent # Tree.epic
  BY DEF AllL0, IsL0
<1>7. Posts \subseteq Nat /\ Epic \notin DOMAIN Tree.items
  BY <1>1, <1>3, <1>4, <1>5 DEF Posts, Epic
<1> QED  BY <1>1, <1>2, <1>3, <1>4, <1>5, <1>6, <1>7

\* No two posts share a temp_id, and only the epic has the epic's.
LEMMA TempIds ==
  ASSUME GateInv, Accepted
  PROVE  /\ \A n \in Posts : TempId(n) \in {Tree.epic} \cup Ids(Tree)
         /\ \A m, n \in Posts : TempId(m) = TempId(n) => m = n
         /\ \A n \in DOMAIN Tree.items : TempId(n) = Tree.items[n].id /\ TempId(n) \notin {Tree.epic, Blank, Null}
<1>1. /\ UniqueIds(Tree) /\ Tree.items \in Seq(ItemRecord) /\ Tree.epic \in STRING
      /\ L0 \cup Subtasks \subseteq DOMAIN Tree.items /\ Epic \notin DOMAIN Tree.items
  BY PostsShape
<1>2. \A n \in DOMAIN Tree.items : Tree.items[n].id \in STRING \ {Null}
  <2>1. \A n \in DOMAIN Tree.items : Tree.items[n] \in ItemRecord
    BY JobTree DEF GateInv
  <2> QED  BY <2>1 DEF ItemRecord
<1>3. \A n \in DOMAIN Tree.items : TempId(n) = Tree.items[n].id /\ TempId(n) \notin {Tree.epic, Blank, Null}
  BY <1>1, <1>2 DEF TempId, UniqueIds, Ids, GateInv, Accepted, PlanItemIDs
<1>4. TempId(Epic) = Tree.epic
  BY DEF TempId
<1>5. Posts \subseteq DOMAIN Tree.items \cup {Epic}
  BY <1>1 DEF Posts
<1>6. \A n \in Posts : TempId(n) \in {Tree.epic} \cup Ids(Tree)
  BY <1>3, <1>4, <1>5 DEF Ids
<1> QED  BY <1>1, <1>3, <1>4, <1>5, <1>6 DEF UniqueIds, NoDuplicates

\* tempToKey has the key of an issue made in this run.
LEMMA KeyOfMade ==
  ASSUME NEW k \in tool.created, ~(AttachesTo /\ board[k].id = Tree.epic),
         \A i, j \in tool.created : board[i].id = board[j].id => i = j
  PROVE  KeyOf(board[k].id) = k
  BY DEF KeyOf

LEMMA KeyOfFound ==
  ASSUME NEW id, KeyOf(id) # 0, ~(AttachesTo /\ id = Tree.epic)
  PROVE  KeyOf(id) \in tool.created /\ board[KeyOf(id)].id = id
<1> DEFINE made == {k \in tool.created : board[k].id = id}
<1>1. KeyOf(id) = CHOOSE k \in made : TRUE
  BY DEF KeyOf
<1>2. made # {}
  BY DEF KeyOf
<1> QED  BY <1>1, <1>2

\* The type on the board of what was made for an item.
LEMMA MadeType ==
  ASSUME GateInv, Accepted, NEW created, NEW k \in created, Covers(created, Posts \ tool.todo)
  PROVE  /\ k \in DOMAIN board /\ board[k].mine
         /\ \E n \in Posts \ tool.todo : Made(n, k, created)
         /\ board[k].id = Tree.epic => board[k].type = "Epic"
         /\ \A m \in DOMAIN Tree.items :
              board[k].id = Tree.items[m].id /\ TypeAt(m) \in L0Types => board[k].type \in L0Types
<1>1. PICK n \in Posts \ tool.todo : Made(n, k, created)
  BY DEF Covers
<1>2. board[k].mine /\ board[k].id = TempId(n) /\ k \in DOMAIN board
  BY <1>1 DEF Made, Covers
<1>3. board[k].type = (CASE n = Epic -> "Epic" [] n \in Subtasks -> "Sub-task" [] OTHER -> TypeAt(n))
  BY <1>1 DEF Made
<1>4. n = Epic \/ n \in DOMAIN Tree.items
  BY PostsShape DEF Posts
<1>5. board[k].id = Tree.epic => board[k].type = "Epic"
  <2>1. board[k].id = Tree.epic => n = Epic
    BY <1>2, <1>4, TempIds
  <2>2. Epic \notin Subtasks
    BY PostsShape
  <2> QED  BY <1>3, <2>1, <2>2
<1>6. ASSUME NEW m \in DOMAIN Tree.items, board[k].id = Tree.items[m].id, TypeAt(m) \in L0Types
      PROVE  board[k].type \in L0Types
  <2>1. n = m
    BY <1>2, <1>4, <1>6, PostsShape, TempIds DEF UniqueIds, NoDuplicates, TempId
  <2>2. n \notin Subtasks
    <3> SUFFICES ASSUME n \in Subtasks PROVE FALSE
      OBVIOUS
    <3>1. Hangs(n, k, created)
      BY <1>1 DEF Made
    <3>2. board[k].parent \in created /\ board[board[k].parent].id = Tree.items[n].parent
      BY <3>1 DEF Hangs
    <3>3. Tree.items[n].parent = Blank
      BY <1>6, <2>1, PostsShape DEF L0Types
    <3>4. PICK p \in Posts : board[board[k].parent].id = TempId(p)
      BY <3>2 DEF Covers, Made
    <3>5. p = Epic
      BY <3>2, <3>3, <3>4, PostsShape, TempIds DEF Posts
    <3> QED  BY <3>2, <3>4, <3>5, PostsShape DEF TempId
  <2> QED  BY <1>3, <1>4, <1>6, <2>1, <2>2, PostsShape
<1> QED  BY <1>1, <1>2, <1>5, <1>6

\* The epic is posted before anything that goes below it.
LEMMA EpicFirst ==
  ASSUME GateInv, Accepted, NEW n \in L0, Posting(n) PROVE Epic \notin tool.todo
<1>1. n \notin Subtasks /\ n # Epic /\ Epic \notin Subtasks
  BY PostsShape
<1>2. Turn(Epic) = 0
  BY <1>1 DEF Turn
<1>3. Turn(n) \in {1, 2}
  BY <1>1 DEF Turn
<1> QED  BY <1>2, <1>3 DEF Posting, IsNextPost

LEMMA EpicKey ==
  ASSUME TreeInv, Creating, Tree.epic # Null, Epic \notin tool.todo
  PROVE  /\ KeyOf(Tree.epic) \in DOMAIN board /\ board[KeyOf(Tree.epic)].type = "Epic"
         /\ IF AttachesTo THEN KeyOf(Tree.epic) = Old
            ELSE KeyOf(Tree.epic) \in tool.created /\ board[KeyOf(Tree.epic)].id = Tree.epic
<1>1. GateInv /\ Accepted /\ BoardInv /\ Covers(tool.created, Posts \ tool.todo)
  BY DEF TreeInv, GateInv, ToolInv, Creating
<1>2. CASE AttachesTo
  <2>1. KeyOf(Tree.epic) = Old
    BY <1>2 DEF KeyOf
  <2>2. Tree.existing = "epic"
    BY <1>1, <1>2 DEF GateInv, Creating, AttachVerified
  <2> QED  BY <1>1, <1>2, <2>1, <2>2 DEF BoardInv
<1>3. CASE ~AttachesTo
  <2>1. Epic \in Posts \ tool.todo
    BY <1>3 DEF Posts
  <2>2. PICK k \in tool.created : Made(Epic, k, tool.created)
    BY <1>1, <2>1 DEF Covers
  <2>3. board[k].id = Tree.epic
    BY <2>2 DEF Made, TempId
  <2>4. KeyOf(Tree.epic) = k
    BY <1>1, <1>3, <2>3, KeyOfMade DEF Covers
  <2> QED  BY <1>1, <1>3, <2>3, <2>4, MadeType
<1> QED  BY <1>2, <1>3

LEMMA SubtaskKey ==
  ASSUME TreeInv, Creating, NEW n \in Subtasks, ~MissingParent(n)
  PROVE  /\ ParentKey(n) \in tool.created /\ board[ParentKey(n)].id = Tree.items[n].parent
         /\ board[ParentKey(n)].type \in L0Types
<1>1. GateInv /\ Accepted /\ Covers(tool.created, Posts \ tool.todo)
  BY DEF TreeInv, GateInv, ToolInv, Creating
<1>2. Epic \notin Subtasks /\ Tree.items[n].parent # Tree.epic
  BY <1>1, PostsShape
<1>3. ParentKey(n) = KeyOf(Tree.items[n].parent) /\ ParentKey(n) # 0
  BY <1>2 DEF ParentKey, MissingParent
<1>4. ParentKey(n) \in tool.created /\ board[ParentKey(n)].id = Tree.items[n].parent
  BY <1>2, <1>3, KeyOfFound
<1>5. Tree.items[n].parent # Blank
  <2>1. PICK p \in Posts : board[ParentKey(n)].id = TempId(p)
    BY <1>1, <1>4 DEF Covers, Made
  <2>2. p = Epic \/ p \in DOMAIN Tree.items
    BY <1>1, PostsShape DEF Posts
  <2> QED  BY <1>1, <1>2, <1>4, <2>1, <2>2, TempIds DEF TempId
<1>6. PICK m \in DOMAIN Tree.items : Tree.items[m].id = Tree.items[n].parent /\ TypeAt(m) \in L0Types
  BY <1>1, <1>5, PostsShape
<1> QED  BY <1>1, <1>4, <1>6, MadeType

LEMMA IssueTyped ==
  ASSUME NEW id \in {Tree.epic} \cup Ids(Tree), NEW type \in {"Epic"} \cup ItemTypes, NEW parent \in Nat
  PROVE  Issue(id, type, parent, TRUE) \in IssueRecord
<1>1. "open" \in States
  BY DEF States
<1> QED  BY <1>1 DEF Issue, IssueRecord

\* What is posted for an item goes where the plan and the board want it.
LEMMA BodyFits ==
  ASSUME TreeInv, NEW n \in Posts, Posting(n), ~MissingParent(n)
  PROVE  /\ Body(n) \in IssueRecord /\ Body(n).mine = TRUE /\ Body(n).id = TempId(n)
         /\ \/ /\ n = Epic /\ Body(n).type = "Epic" /\ Body(n).parent = 0 /\ ~Attaches(Tree)
            \/ /\ n \in L0 /\ Body(n).type = TypeAt(n) /\ TypeAt(n) \in L0Types
               /\ Tree.epic = Null => Body(n).parent = 0
               /\ Tree.epic # Null =>
                    /\ Body(n).parent \in DOMAIN board /\ board[Body(n).parent].type = "Epic"
                    /\ IF AttachesTo THEN Body(n).parent = Old
                       ELSE Body(n).parent \in tool.created /\ board[Body(n).parent].id = Tree.epic
            \/ /\ n \in Subtasks /\ Body(n).type = "Sub-task"
               /\ Body(n).parent \in tool.created /\ board[Body(n).parent].id = Tree.items[n].parent
               /\ board[Body(n).parent].type \in L0Types
<1>1. Creating /\ GateInv /\ Accepted /\ BoardInv /\ tool.created \subseteq DOMAIN board
  BY DEF TreeInv, GateInv, ToolInv, Creating, Posting, Covers
<1>2. DOMAIN board \subseteq Nat
  BY <1>1 DEF BoardInv
<1>3. /\ L0 \cap Subtasks = {} /\ Epic \notin L0 /\ Epic \notin Subtasks
      /\ \A m \in L0 : TypeAt(m) \in L0Types
  BY <1>1, PostsShape
<1>4. TempId(n) \in {Tree.epic} \cup Ids(Tree)
  BY <1>1, TempIds
<1>5. ItemTypes = L0Types \cup {"Sub-task"}
  BY DEF ItemTypes
<1>6. CASE n = Epic
  <2>1. ParentKey(n) = 0 /\ ~Attaches(Tree)
    BY <1>3, <1>6 DEF ParentKey, Posts, AttachesTo
  <2>2. Body(n) = Issue(TempId(n), "Epic", 0, TRUE)
    BY <1>3, <1>6 DEF Body, TempId
  <2>3. Body(n) \in IssueRecord
    BY <1>4, <1>5, <2>2, IssueTyped
  <2>4. Body(n).id = TempId(n) /\ Body(n).type = "Epic" /\ Body(n).parent = 0 /\ Body(n).mine = TRUE
    BY <2>2 DEF Issue
  <2> QED  BY <1>6, <2>1, <2>3, <2>4
<1>7. CASE n \in L0
  <2>1. Body(n) = Issue(TempId(n), TypeAt(n), ParentKey(n), TRUE)
    BY <1>3, <1>7 DEF Body, TempId
  <2>2. TypeAt(n) \in L0Types
    BY <1>3, <1>7
  <2>3. Tree.epic = Null => ParentKey(n) = 0
    BY <1>3, <1>7 DEF ParentKey
  <2>4. Tree.epic # Null => ParentKey(n) = KeyOf(Tree.epic)
    BY <1>3, <1>7 DEF ParentKey
  <2>5. Tree.epic # Null =>
          /\ ParentKey(n) \in DOMAIN board /\ board[ParentKey(n)].type = "Epic"
          /\ IF AttachesTo THEN ParentKey(n) = Old
             ELSE ParentKey(n) \in tool.created /\ board[ParentKey(n)].id = Tree.epic
    BY <1>1, <1>7, <2>4, EpicFirst, EpicKey
  <2>6. ParentKey(n) \in Nat
    BY <1>2, <2>3, <2>5
  <2>7. Body(n) \in IssueRecord
    BY <1>4, <1>5, <2>1, <2>2, <2>6, IssueTyped
  <2>8. /\ Body(n).id = TempId(n) /\ Body(n).type = TypeAt(n) /\ Body(n).parent = ParentKey(n)
        /\ Body(n).mine = TRUE
    BY <2>1 DEF Issue
  <2> QED  BY <1>7, <2>2, <2>3, <2>5, <2>7, <2>8
<1>8. CASE n \in Subtasks
  <2>1. Body(n) = Issue(TempId(n), "Sub-task", ParentKey(n), TRUE)
    BY <1>3, <1>8 DEF Body, TempId
  <2>2. /\ ParentKey(n) \in tool.created /\ board[ParentKey(n)].id = Tree.items[n].parent
        /\ board[ParentKey(n)].type \in L0Types
    BY <1>1, <1>8, SubtaskKey
  <2>3. ParentKey(n) \in Nat
    BY <1>1, <1>2, <2>2
  <2>4. Body(n) \in IssueRecord
    BY <1>4, <1>5, <2>1, <2>3, IssueTyped
  <2>5. /\ Body(n).id = TempId(n) /\ Body(n).type = "Sub-task" /\ Body(n).parent = ParentKey(n)
        /\ Body(n).mine = TRUE
    BY <2>1 DEF Issue
  <2> QED  BY <1>8, <2>2, <2>4, <2>5
<1> QED  BY <1>6, <1>7, <1>8 DEF Posts

----------------------------------------------------------------------------
(***************************************************************************)
(* Issues stay where they are: a board that only grows or changes states.  *)
(***************************************************************************)
IssuesStay ==
  \A j \in DOMAIN board :
    /\ j \in DOMAIN board'
    /\ board'[j].mine = board[j].mine /\ board'[j].id = board[j].id
    /\ board'[j].type = board[j].type /\ board'[j].parent = board[j].parent

LEMMA BoardKept ==
  ASSUME board' = board PROVE IssuesStay
  BY DEF IssuesStay

LEMMA PlacedStays ==
  ASSUME job' = job, BoardInv, IssuesStay, NEW k \in DOMAIN board, Placed(k)
  PROVE  Placed(k)'
<1>1. Tree' = Tree /\ Attaches(Tree)' = Attaches(Tree)
  BY SameJob DEF Attaches
<1>2. k \in Nat /\ 1..(k - 1) \subseteq DOMAIN board
  BY DEF BoardInv
<1> QED  BY <1>1, <1>2 DEF Placed, IssuesStay

\* What was made stays made, and more may be made beside it.
LEMMA MadeStays ==
  ASSUME job' = job, IssuesStay, NEW created, NEW more, created \subseteq more,
         created \subseteq DOMAIN board,
         NEW n, NEW k \in DOMAIN board, Made(n, k, created)
  PROVE  Made(n, k, more)'
<1>1. /\ Tree' = Tree /\ AttachesTo' = AttachesTo /\ L0' = L0 /\ Subtasks' = Subtasks
  BY SameJob
<1>2. /\ board'[k].mine = board[k].mine /\ board'[k].id = board[k].id
      /\ board'[k].type = board[k].type /\ board'[k].parent = board[k].parent
  BY DEF IssuesStay
<1>3. TempId(n)' = TempId(n) /\ TypeAt(n)' = TypeAt(n)
  BY <1>1 DEF TempId, TypeAt
<1>4. \A j \in created : board'[j].id = board[j].id
  BY DEF IssuesStay
<1>5. Hangs(n, k, more)'
  BY <1>1, <1>2, <1>4 DEF Hangs, Made
<1>6. board'[k].type = (CASE n = Epic -> "Epic" [] n \in Subtasks' -> "Sub-task" [] OTHER -> TypeAt(n)')
  BY <1>1, <1>2, <1>3 DEF Made
<1> QED  BY <1>2, <1>3, <1>5, <1>6 DEF Made

LEMMA CoversStays ==
  ASSUME job' = job, IssuesStay, NEW created, NEW items, Covers(created, items)
  PROVE  Covers(created, items)'
<1>1. created \subseteq DOMAIN board /\ created \subseteq DOMAIN board'
  BY DEF Covers, IssuesStay
<1>2. \A n, k : k \in created /\ Made(n, k, created) => Made(n, k, created)'
  BY <1>1, MadeStays
<1>3. \A j \in created : board'[j].id = board[j].id
  BY <1>1 DEF IssuesStay
<1> QED  BY <1>1, <1>2, <1>3 DEF Covers

\* One more issue for one more item.
LEMMA CoversMore ==
  ASSUME job' = job, IssuesStay, NEW created, NEW items, Covers(created, items),
         NEW n, NEW k \in DOMAIN board \ created, Made(n, k, created),
         \A m \in items : TempId(m) # TempId(n)
  PROVE  Covers(created \cup {k}, items \cup {n})'
<1> DEFINE more == created \cup {k}
<1>1. created \subseteq DOMAIN board /\ more \subseteq DOMAIN board'
  BY DEF Covers, IssuesStay
<1>2. \A m, j : j \in more /\ Made(m, j, created) => Made(m, j, more)'
  BY <1>1, MadeStays
<1>3. \A j \in more : board'[j].id = board[j].id
  BY <1>1 DEF IssuesStay
<1>4. \A j \in created : board[j].id # board[k].id
  BY DEF Covers, Made
<1>5. \A i, j \in more : board'[i].id = board'[j].id => i = j
  BY <1>3, <1>4 DEF Covers
<1>6. \A j \in more : \E m \in items \cup {n} : Made(m, j, created)
  BY DEF Covers
<1>7. \A m \in items \cup {n} : \E j \in more : Made(m, j, created)
  BY DEF Covers
<1> QED  BY <1>1, <1>2, <1>5, <1>6, <1>7 DEF Covers

----------------------------------------------------------------------------
(***************************************************************************)
(* The invariant: initial states.                                          *)
(***************************************************************************)
LEMMA TreeInit ==
  ASSUME Init PROVE TreeInv
<1>1. tool = NoTool /\ record = Absent /\ links = {} /\ exit = "none" /\ gate = "none"
  BY DEF Init
<1>2. GateInv
  BY <1>1 DEF Init, GateInv, NoTool
<1>3. BoardInv
  <2>1. board \in {<<>>, <<Issue("old", "Epic", 0, FALSE)>>, <<Issue("old", "Story", 0, FALSE)>>}
    BY DEF Init
  <2>2. Tree.existing = "epic" => board = <<Issue("old", "Epic", 0, FALSE)>>
    BY DEF Init
  <2>3. \A type \in {"Epic", "Story"} : Issue("old", type, 0, FALSE) \in IssueRecord
    BY DEF Issue, IssueRecord, States, ItemTypes, L0Types
  <2>4. board \in Seq(IssueRecord)
    <3>1. <<>> \in Seq(IssueRecord) /\ \A x \in IssueRecord : <<x>> \in Seq(IssueRecord)
      OBVIOUS
    <3> QED  BY <2>1, <2>3, <3>1
  <2>5. Tree.existing = "epic" => Old \in DOMAIN board /\ board[Old].type = "Epic"
    BY <2>2 DEF Old, Issue
  <2>6. \A k \in DOMAIN board : ~board[k].mine /\ k = Old /\ board[k].parent = 0
    BY <2>1 DEF Old, Issue
  <2> QED  BY <2>4, <2>5, <2>6 DEF BoardInv
<1>4. ToolInv
  BY <1>1 DEF ToolInv, NoTool, Creating
<1>5. RecordInv
  BY <1>1 DEF RecordInv, NoTool, Absent, Creating
<1>6. ExitInv /\ LinkInv
  BY <1>1 DEF ExitInv, LinkInv, NoTool
<1> QED  BY <1>2, <1>3, <1>4, <1>5, <1>6 DEF TreeInv

----------------------------------------------------------------------------
(***************************************************************************)
(* The invariant: parts that most steps leave alone.                       *)
(***************************************************************************)
LEMMA GateKept ==
  ASSUME GateInv, job' = job, gate' = gate,
         tool'.pc # "idle" \/ record' # Absent => Accepted,
         tool'.pc \in {"post", "ack"} => AttachVerified
  PROVE  GateInv'
<1>1. Failures' = Failures /\ PlanItemIDs' = PlanItemIDs /\ AttachVerified' = AttachVerified
  BY SameJob
<1>2. Absent' = Absent
  BY DEF Absent
<1> QED  BY <1>1, <1>2 DEF GateInv, Accepted

LEMMA BoardSame ==
  ASSUME BoardInv, job' = job, board' = board PROVE BoardInv' /\ IssuesStay
<1>1. Tree' = Tree /\ IssueRecord' = IssueRecord
  BY SameJob DEF IssueRecord, Ids
<1>2. IssuesStay
  BY BoardKept
<1>3. \A k \in DOMAIN board : Placed(k) => Placed(k)'
  BY <1>2, PlacedStays
<1> QED  BY <1>1, <1>2, <1>3 DEF BoardInv

\* A run that ends, or is over in one step: no claim but the one it exits with.
LEMMA Ended ==
  ASSUME TreeInv, job' = job, gate' = gate, board' = board, LinkInv', tool' = NoTool,
         record' = record \/ Accepted,
         record'.state \in {"absent", "torn", "written"}, record'.created \subseteq DOMAIN board,
         \A k \in record'.created : board[k].mine,
         record'.state # "written" => record'.created = {},
         exit' \in {"live0", "live1", "cleanup0", "cleanup1", "verify0", "verify1", "killed"},
         exit' = "live0" => BuiltAsPlanned', exit' = "cleanup0" => SweptBut({})'
  PROVE  TreeInv'
<1>1. GateInv /\ BoardInv
  BY DEF TreeInv
<1>2. record' # Absent => Accepted
  BY <1>1 DEF GateInv
<1>3. GateInv'
  BY <1>1, <1>2, GateKept DEF NoTool
<1>4. BoardInv'
  BY <1>1, BoardSame
<1>5. ToolInv'
  BY DEF ToolInv, NoTool, Creating
<1>6. RecordInv'
  BY DEF RecordInv, NoTool, Creating, Absent
<1>7. ExitInv'
  BY DEF ExitInv, NoTool
<1> QED  BY <1>3, <1>4, <1>5, <1>6, <1>7 DEF TreeInv

----------------------------------------------------------------------------
(***************************************************************************)
(* The invariant: one lemma per kind of step.                              *)
(***************************************************************************)
LEMMA BuiltKept ==
  ASSUME UNCHANGED <<job, record, board, links, exit>>, BuiltAsPlanned PROVE BuiltAsPlanned'
<1>1. Tree' = Tree /\ Selected' = Selected
  BY SameJob
<1>2. \A id : Recorded(id)' = Recorded(id)
  BY DEF Recorded
<1>3. Attaches(Tree)' = Attaches(Tree)
  BY <1>1 DEF Attaches
<1> QED  BY <1>1, <1>2, <1>3 DEF BuiltAsPlanned

LEMMA GateStep ==
  ASSUME TreeInv, NEW a \in Answers, Gate(a) PROVE TreeInv'
<1>1. UNCHANGED <<job, tool, record, board, links, exit>> /\ gate = "none"
  BY DEF Gate
<1>2. GateInv /\ BoardInv /\ ToolInv /\ RecordInv /\ ExitInv /\ LinkInv
  BY DEF TreeInv
<1>3. tool.pc = "idle" /\ record = Absent
  BY <1>1, <1>2 DEF GateInv, Accepted
<1>4. GateInv'
  <2>1. Failures' = Failures /\ PlanItemIDs' = PlanItemIDs
    BY <1>1, SameJob
  <2>2. gate' \in {"pass", "fail"} /\ (gate' = "pass" => Failures = {} /\ (job.mode = "plan" => PlanItemIDs))
    BY DEF Gate, Treecheck, ExpectedOutput
  <2> QED  BY <1>1, <1>2, <1>3, <2>1, <2>2 DEF GateInv, Absent
<1>5. BoardInv' /\ LinkInv'
  BY <1>1, <1>2, BoardSame DEF LinkInv
<1>6. ToolInv'
  BY <1>1, <1>2, <1>3 DEF ToolInv, Creating, NoTool
<1>7. RecordInv'
  BY <1>1, <1>2, <1>3 DEF RecordInv, Creating, Absent
<1>8. ExitInv'
  <2>1. exit = "live0" => BuiltAsPlanned'
    BY <1>1, <1>2, BuiltKept DEF ExitInv
  <2> QED  BY <1>1, <1>2, <1>3, <2>1 DEF ExitInv, SweptBut
<1> QED  BY <1>4, <1>5, <1>6, <1>7, <1>8 DEF TreeInv

\* Refusals and --verify leave nothing but an exit code.
LEMMA ReportStep ==
  ASSUME TreeInv, LiveRefused \/ CleanupRefused \/ Verify PROVE TreeInv'
<1>1. /\ UNCHANGED <<job, gate, tool, record, board, links>> /\ tool.pc = "idle"
      /\ exit' \in {"live1", "cleanup1", "verify0", "verify1"}
  BY DEF LiveRefused, CleanupRefused, Verify, Start
<1>2. tool' = NoTool /\ RecordInv /\ LinkInv'
  BY <1>1 DEF TreeInv, ToolInv, LinkInv
<1> QED  BY <1>1, <1>2, Ended DEF RecordInv

LEMMA LiveBeginsStep ==
  ASSUME TreeInv, LiveBegins PROVE TreeInv'
<1>1. /\ UNCHANGED <<job, gate, board, links>> /\ Accepted /\ AttachVerified
      /\ record' = Written({}) /\ exit' = "none"
      /\ tool' = [NoTool EXCEPT !.pc = "post", !.todo = Posts]
  BY DEF LiveBegins, Accepted
<1>2. GateInv /\ BoardInv /\ LinkInv
  BY DEF TreeInv
<1>3. tool' = [pc |-> "post", todo |-> Posts, at |-> 0, key |-> 0, created |-> {}, hard |-> FALSE]
  BY <1>1 DEF NoTool
<1>4. GateInv'
  BY <1>1, <1>2, GateKept
<1>5. BoardInv' /\ LinkInv'
  BY <1>1, <1>2, BoardSame DEF LinkInv
<1>6. ToolInv'
  <2>1. Posts' = Posts /\ Posts \subseteq Nat
    BY <1>1, <1>2, SameJob, PostsShape
  <2>2. tool'.pc = "post" /\ tool'.todo = Posts' /\ tool'.created = {}
    BY <1>3, <2>1
  <2>3. Covers(tool.created, Posts \ tool.todo)'
    BY <2>2 DEF Covers
  <2>4. tool' \in [pc : {"idle", "post", "ack", "sweep"}, todo : SUBSET Nat, at : Nat, key : Nat,
                   created : SUBSET Nat, hard : BOOLEAN]
    BY <1>3, <2>1
  <2> QED  BY <1>1, <2>2, <2>3, <2>4 DEF ToolInv, Creating
<1>7. RecordInv'
  <2>1. tool'.pc = "post" /\ tool'.created = {}
    BY <1>3
  <2>2. record' = Written(tool.created)' /\ record'.state = "written" /\ record'.created = {}
    BY <1>1, <2>1 DEF Written
  <2> QED  BY <2>1, <2>2 DEF RecordInv, Creating
<1>8. ExitInv'
  BY <1>1, <1>3 DEF ExitInv
<1> QED  BY <1>4, <1>5, <1>6, <1>7, <1>8 DEF TreeInv

\* A create that goes on: its record is what was acknowledged.
LEMMA CreateGoesOn ==
  ASSUME TreeInv, Creating, job' = job, gate' = gate, exit' = exit,
         BoardInv', LinkInv', ToolInv', tool'.pc \in {"post", "ack"},
         record' = Written(tool'.created)
  PROVE  TreeInv'
<1>1. GateInv /\ Accepted /\ AttachVerified /\ exit = "none"
  BY DEF TreeInv, GateInv, ToolInv, Creating
<1>2. GateInv'
  BY <1>1, GateKept
<1>3. Covers(tool.created, Posts \ tool.todo)'
  BY DEF ToolInv, Creating
<1>4. RecordInv'
  <2>1. record' = Written(tool.created)' /\ record'.state = "written" /\ record'.created = tool'.created
    BY DEF Written
  <2>2. tool'.created \subseteq DOMAIN board' /\ \A k \in tool'.created : board'[k].mine
    BY <1>3 DEF Covers, Made
  <2>3. record' # Absent'
    BY <2>1 DEF Absent
  <2> QED  BY <2>1, <2>2, <2>3 DEF RecordInv, Creating
<1>5. ExitInv'
  BY <1>1 DEF ExitInv
<1> QED  BY <1>2, <1>4, <1>5 DEF TreeInv

LEMMA PostIssueStep ==
  ASSUME TreeInv, NEW n \in Posts, PostIssue(n) PROVE TreeInv'
<1>0. PICK key : key = Len(board) + 1
  OBVIOUS
<1>1. /\ Posting(n) /\ ~MissingParent(n) /\ n \in tool.todo /\ tool.pc = "post"
      /\ board' = Append(board, Body(n))
      /\ tool' = [tool EXCEPT !.pc = "ack", !.at = n, !.key = key]
      /\ UNCHANGED <<job, gate, record, links, exit>>
  BY <1>0 DEF PostIssue, Posting
<1>2. /\ GateInv /\ Accepted /\ BoardInv /\ ToolInv /\ LinkInv /\ RecordInv /\ Creating
      /\ Covers(tool.created, Posts \ tool.todo) /\ tool.todo \subseteq Posts
  BY <1>1 DEF TreeInv, GateInv, ToolInv, Creating
<1>3. /\ board \in Seq(IssueRecord) /\ Body(n) \in IssueRecord /\ Body(n).mine = TRUE
      /\ Body(n).id = TempId(n)
  BY <1>1, <1>2, BodyFits DEF BoardInv
<1>4. /\ board' \in Seq(IssueRecord) /\ key \in Nat /\ DOMAIN board' = DOMAIN board \cup {key}
      /\ key \notin DOMAIN board /\ board'[key] = Body(n)
      /\ \A j \in DOMAIN board : board'[j] = board[j]
      /\ DOMAIN board = 1..(key - 1)
  BY <1>0, <1>1, <1>3
<1>5. IssuesStay
  BY <1>4 DEF IssuesStay
<1>6. /\ Tree' = Tree /\ Posts' = Posts /\ Attaches(Tree)' = Attaches(Tree) /\ L0' = L0 /\ Subtasks' = Subtasks
      /\ AttachesTo' = AttachesTo /\ IssueRecord' = IssueRecord /\ TypeAt(n)' = TypeAt(n)
      /\ TempId(n)' = TempId(n)
  BY <1>1, SameJob DEF Attaches, IssueRecord, Ids, TypeAt, TempId
<1>7. Placed(key)' /\ Made(n, key, tool.created)'
  <2>1. /\ board'[key].type = Body(n).type /\ board'[key].parent = Body(n).parent
        /\ board'[key].id = TempId(n)' /\ board'[key].mine
    BY <1>3, <1>4, <1>6
  <2>2. Hangs(n, key, tool.created)' /\ board'[key].type = (CASE n = Epic -> "Epic"
          [] n \in Subtasks' -> "Sub-task" [] OTHER -> TypeAt(n)') => Made(n, key, tool.created)'
    BY <2>1 DEF Made
  <2>3. tool'.created = tool.created /\ tool.created \subseteq DOMAIN board
    BY <1>1, <1>2 DEF ToolInv, Covers
  <2>4. L0 \cap Subtasks = {} /\ Epic \notin L0 /\ Epic \notin Subtasks
    BY <1>2, PostsShape
  <2>5. CASE n = Epic
    <3>1. Body(n).type = "Epic" /\ Body(n).parent = 0 /\ ~Attaches(Tree)
      BY <1>1, <2>4, <2>5, BodyFits
    <3>2. Placed(key)'
      BY <1>6, <2>1, <3>1 DEF Placed
    <3>3. Hangs(n, key, tool.created)'
      BY <1>6, <2>1, <2>4, <2>5, <3>1 DEF Hangs
    <3> QED  BY <2>1, <2>2, <2>4, <2>5, <1>6, <3>1, <3>2, <3>3
  <2>6. CASE n \in L0
    <3>1. /\ Body(n).type = TypeAt(n) /\ TypeAt(n) \in L0Types
          /\ Tree.epic = Null => Body(n).parent = 0
          /\ Tree.epic # Null =>
               /\ Body(n).parent \in DOMAIN board /\ board[Body(n).parent].type = "Epic"
               /\ IF AttachesTo THEN Body(n).parent = Old
                  ELSE Body(n).parent \in tool.created /\ board[Body(n).parent].id = Tree.epic
      BY <1>1, <2>4, <2>6, BodyFits
    <3>2. Placed(key)'
      BY <1>4, <1>6, <2>1, <3>1 DEF Placed, AttachesTo, Old
    <3>3. Hangs(n, key, tool.created)'
      BY <1>4, <1>6, <2>1, <2>3, <2>4, <2>6, <3>1 DEF Hangs, Old
    <3> QED  BY <2>1, <2>2, <2>4, <2>6, <1>6, <3>1, <3>2, <3>3
  <2>7. CASE n \in Subtasks
    <3>1. /\ Body(n).type = "Sub-task"
          /\ Body(n).parent \in tool.created /\ board[Body(n).parent].id = Tree.items[n].parent
          /\ board[Body(n).parent].type \in L0Types
      BY <1>1, <2>4, <2>7, BodyFits
    <3>2. Placed(key)'
      BY <1>4, <1>6, <2>1, <2>3, <3>1 DEF Placed
    <3>3. Hangs(n, key, tool.created)'
      BY <1>4, <1>6, <2>1, <2>3, <2>4, <2>7, <3>1 DEF Hangs
    <3> QED  BY <2>1, <2>2, <2>4, <2>7, <1>6, <3>1, <3>2, <3>3
  <2> QED  BY <2>5, <2>6, <2>7 DEF Posts
<1>8. BoardInv'
  <2>1. \A k \in DOMAIN board : Placed(k) => Placed(k)'
    BY <1>1, <1>2, <1>5, PlacedStays
  <2> QED  BY <1>2, <1>3, <1>4, <1>6, <1>7, <2>1 DEF BoardInv
<1>9. ToolInv'
  <2>1. /\ tool'.pc = "ack" /\ tool'.at = n /\ tool'.key = key /\ tool'.created = tool.created
        /\ tool'.todo = tool.todo
    BY <1>1, <1>2 DEF ToolInv
  <2>2. n \in Nat
    BY <1>2, PostsShape
  <2>3. tool' \in [pc : {"idle", "post", "ack", "sweep"}, todo : SUBSET Nat, at : Nat, key : Nat,
                   created : SUBSET Nat, hard : BOOLEAN]
    BY <1>1, <1>2, <1>4, <2>2 DEF ToolInv
  <2>4. Covers(tool.created, Posts \ tool.todo)'
    BY <1>1, <1>2, <1>5, <1>6, <2>1, CoversStays
  <2>5. key \in DOMAIN board' \ tool.created
    BY <1>2, <1>4 DEF Covers
  <2>6. exit' = "none"
    BY <1>1, <1>2 DEF ToolInv
  <2> QED  BY <1>1, <1>2, <1>6, <1>7, <2>1, <2>3, <2>4, <2>5, <2>6 DEF ToolInv, Creating
<1>10. LinkInv'
  BY <1>1, <1>2, <1>4 DEF LinkInv
<1>11. record' = Written(tool'.created) /\ tool'.pc = "ack"
  BY <1>1, <1>2 DEF RecordInv, ToolInv
<1> QED  BY <1>1, <1>2, <1>8, <1>9, <1>10, <1>11, CreateGoesOn

LEMMA AckStep ==
  ASSUME TreeInv, AckIssue PROVE TreeInv'
<1>0. PICK done, n, k : done = tool.created /\ n = tool.at /\ k = tool.key
  OBVIOUS
<1>1. /\ tool.pc = "ack"
      /\ tool' = [tool EXCEPT !.pc = "post", !.todo = @ \ {tool.at}, !.created = @ \cup {tool.key}]
      /\ record' = Written(tool'.created)
      /\ UNCHANGED <<job, gate, board, links, exit>>
  BY DEF AckIssue
<1>2. /\ GateInv /\ Accepted /\ BoardInv /\ ToolInv /\ LinkInv /\ Creating
      /\ Covers(tool.created, Posts \ tool.todo) /\ tool.todo \subseteq Posts
      /\ tool.at \in tool.todo /\ tool.key \in DOMAIN board \ tool.created
      /\ Made(tool.at, tool.key, tool.created)
  BY <1>1 DEF TreeInv, GateInv, ToolInv, Creating
<1>3. BoardInv' /\ IssuesStay /\ LinkInv' /\ Posts' = Posts
  BY <1>1, <1>2, BoardSame, SameJob DEF LinkInv
<1>4. /\ tool'.pc = "post" /\ tool'.todo = tool.todo \ {tool.at}
      /\ tool'.created = tool.created \cup {tool.key}
  BY <1>1, <1>2 DEF ToolInv
<1>5. Covers(tool.created, Posts \ tool.todo)'
  <2>1. PICK items : items = Posts \ tool.todo
    OBVIOUS
  <2>2. \A m \in items : TempId(m) # TempId(n)
    BY <1>0, <1>2, <2>1, TempIds
  <2>3. Covers(done \cup {k}, items \cup {n})'
    BY <1>0, <1>1, <1>2, <1>3, <2>1, <2>2, CoversMore
  <2>4. (Posts \ tool.todo)' = items \cup {n} /\ tool'.created = done \cup {k}
    BY <1>0, <1>2, <1>3, <1>4, <2>1
  <2> QED  BY <2>3, <2>4
<1>6. ToolInv'
  <2>1. tool' \in [pc : {"idle", "post", "ack", "sweep"}, todo : SUBSET Nat, at : Nat, key : Nat,
                   created : SUBSET Nat, hard : BOOLEAN]
    BY <1>1, <1>2 DEF ToolInv
  <2>2. exit' = "none"
    BY <1>1, <1>2 DEF ToolInv
  <2> QED  BY <1>2, <1>3, <1>4, <1>5, <2>1, <2>2 DEF ToolInv, Creating
<1> QED  BY <1>1, <1>2, <1>3, <1>4, <1>6, CreateGoesOn

\* The catch block keeps what was acknowledged.
LEMMA AbortStep ==
  ASSUME TreeInv, Creating, Abort, UNCHANGED <<job, gate, board>>, LinkInv' PROVE TreeInv'
<1>1. GateInv /\ ToolInv /\ Accepted /\ Covers(tool.created, Posts \ tool.todo)
  BY DEF TreeInv, GateInv, ToolInv, Creating
<1>2. record' = Written(tool.created) /\ tool' = NoTool /\ exit' = "live1"
  BY DEF Abort, Exit
<1>3. record'.state = "written" /\ record'.created = tool.created /\ record' # Absent
  BY <1>2 DEF Written, Absent
<1>4. tool.created \subseteq DOMAIN board /\ \A k \in tool.created : board[k].mine
  BY <1>1 DEF Covers, Made
<1> QED  BY <1>1, <1>2, <1>3, <1>4, Ended

LEMMA AbortSteps ==
  ASSUME TreeInv, NEW n, PostRefused(n) \/ LoseAnswer \/ LinkRefused PROVE TreeInv'
<1>1. Creating /\ Abort /\ UNCHANGED <<job, gate, board, links>>
  BY DEF PostRefused, LoseAnswer, LinkRefused, Posting, Linked, Creating
<1>2. LinkInv'
  BY <1>1 DEF TreeInv, LinkInv
<1> QED  BY <1>1, <1>2, AbortStep

\* When everything is posted, every item of the selection has its one issue.
LEMMA AllMade ==
  ASSUME TreeInv, Linked
  PROVE  /\ Creating /\ GateInv /\ Accepted /\ Covers(tool.created, Posts)
         /\ \A n \in L0 \cup Subtasks :
              /\ n \in DOMAIN Tree.items /\ TempId(n) = Tree.items[n].id /\ n # Epic
              /\ KeyOf(TempId(n)) \in tool.created /\ Made(n, KeyOf(TempId(n)), tool.created)
              /\ \A k \in tool.created : board[k].id = TempId(n) => k = KeyOf(TempId(n))
<1>1. Creating /\ GateInv /\ Accepted /\ Covers(tool.created, Posts)
  <2>1. Posts \ {} = Posts
    OBVIOUS
  <2> QED  BY <2>1 DEF TreeInv, GateInv, ToolInv, Creating, Linked
<1>2. ASSUME NEW n \in L0 \cup Subtasks
      PROVE  /\ n \in DOMAIN Tree.items /\ TempId(n) = Tree.items[n].id /\ n # Epic
             /\ KeyOf(TempId(n)) \in tool.created /\ Made(n, KeyOf(TempId(n)), tool.created)
             /\ \A k \in tool.created : board[k].id = TempId(n) => k = KeyOf(TempId(n))
  <2>1. n \in DOMAIN Tree.items /\ n # Epic /\ n \in Posts
    BY <1>1, PostsShape DEF Posts
  <2>2. TempId(n) = Tree.items[n].id /\ TempId(n) # Tree.epic
    BY <1>1, <2>1, TempIds
  <2>3. PICK k \in tool.created : Made(n, k, tool.created)
    BY <1>1, <2>1 DEF Covers
  <2>4. board[k].id = TempId(n) /\ \A i, j \in tool.created : board[i].id = board[j].id => i = j
    BY <1>1, <2>3 DEF Made, Covers
  <2>5. KeyOf(TempId(n)) = k
    BY <2>2, <2>4, KeyOfMade
  <2> QED  BY <2>1, <2>2, <2>3, <2>4, <2>5
<1> QED  BY <1>1, <1>2

LEMMA LinkKeys ==
  ASSUME TreeInv, Linked, NEW link \in LinksToPost
  PROVE  Keys(link) \in (DOMAIN board) \X (DOMAIN board)
<1>1. Creating /\ Covers(tool.created, Posts) /\ Epic \notin tool.todo
  BY AllMade DEF Linked
<1>2. \A n \in L0 \cup Subtasks : KeyOf(Tree.items[n].id) \in DOMAIN board
  BY <1>1, AllMade DEF Covers
<1>3. Tree.epic # Null => KeyOf(Tree.epic) \in DOMAIN board
  BY <1>1, EpicKey
<1>4. \A id \in {it.id : it \in Selected} \cup ({Tree.epic} \ {Null}) : KeyOf(id) \in DOMAIN board
  BY <1>2, <1>3 DEF Selected
<1>5. /\ link[1] \in {it.id : it \in Selected} \cup ({Tree.epic} \ {Null})
      /\ link[2] \in {it.id : it \in Selected} \cup ({Tree.epic} \ {Null})
  BY DEF LinksToPost
<1> QED  BY <1>4, <1>5 DEF Keys

LEMMA PostLinkStep ==
  ASSUME TreeInv, PostLink PROVE TreeInv'
<1>1. Creating /\ UNCHANGED <<job, gate, board>> /\ Linked
  BY DEF PostLink, Linked, Creating
<1>2. LinkInv'
  <2>1. PICK link \in LinksToPost : links' = links \cup {Keys(link)}
    BY DEF PostLink
  <2>2. Keys(link) \in (DOMAIN board) \X (DOMAIN board)
    BY <1>1, LinkKeys
  <2> QED  BY <1>1, <2>1, <2>2 DEF TreeInv, LinkInv
<1>3. CASE Abort
  BY <1>1, <1>2, <1>3, AbortStep
<1>4. CASE record' = Written(tool.created) /\ UNCHANGED <<tool, exit, faults>>
  <2>1. BoardInv' /\ IssuesStay /\ Posts' = Posts
    BY <1>1, BoardSame, SameJob DEF TreeInv
  <2>2. Covers(tool.created, Posts)'
    <3>1. PICK done, items : done = tool.created /\ items = Posts
      OBVIOUS
    <3>2. Covers(done, items)'
      BY <1>1, <2>1, <3>1, AllMade, CoversStays
    <3> QED  BY <1>4, <2>1, <3>1, <3>2
  <2>3. ToolInv'
    <3>1. Covers(tool.created, Posts \ tool.todo)'
      BY <1>1, <1>4, <2>1, <2>2 DEF Linked
    <3> QED  BY <1>1, <1>4, <2>1, <3>1 DEF TreeInv, ToolInv, Creating, Linked
  <2> QED  BY <1>1, <1>2, <1>4, <2>1, <2>3, CreateGoesOn DEF Creating
<1> QED  BY <1>3, <1>4 DEF PostLink

\* The run has made what it was asked for, and says so.
LEMMA LiveEndsBuilt ==
  ASSUME TreeInv, LiveEnds PROVE BuiltAsPlanned'
<1>1. /\ Linked /\ UNCHANGED <<job, board, links>>
      /\ record'.created = tool.created
      /\ \A link \in LinksToPost : Keys(link) \in links
  BY DEF LiveEnds, Written
<1>2. /\ Tree' = Tree /\ Selected' = Selected /\ Attaches(Tree)' = Attaches(Tree)
  BY <1>1, SameJob DEF Attaches
<1>3. Covers(tool.created, Posts) /\ GateInv /\ Accepted
  BY <1>1, AllMade
<1>4. \A id : Recorded(id)' = {k \in tool.created : board[k].id = id}
  BY <1>1 DEF Recorded
<1>5. ASSUME NEW k \in tool.created
      PROVE  board[k].id \in {it.id : it \in Selected} \cup {Tree.epic}
  <2>1. PICK n \in Posts : board[k].id = TempId(n)
    BY <1>3 DEF Covers, Made
  <2>2. CASE n = Epic
    BY <2>1, <2>2 DEF TempId
  <2>3. CASE n \in L0 \cup Subtasks
    BY <1>1, <2>1, <2>3, AllMade DEF Selected
  <2> QED  BY <2>2, <2>3 DEF Posts
<1>6. ASSUME NEW it \in Selected
      PROVE  /\ Cardinality(Recorded(it.id)') = 1
             /\ \A k \in Recorded(it.id)' :
                  /\ it.type = "Sub-task" => board[k].parent \in Recorded(it.parent)'
                  /\ it.type # "Sub-task" /\ Tree.epic # Null =>
                       board[k].parent \in (IF Attaches(Tree) THEN {Old} ELSE Recorded(Tree.epic)')
                  /\ \A dep \in Selected : dep.id \in it.deps =>
                       \A p \in Recorded(dep.id)' : <<p, k>> \in links
  <2>1. PICK n \in L0 \cup Subtasks : it = Tree.items[n]
    BY DEF Selected
  <2>2. PICK key : key = KeyOf(it.id)
    OBVIOUS
  <2>3. /\ n \in DOMAIN Tree.items /\ TempId(n) = it.id /\ n # Epic
        /\ key \in tool.created /\ Made(n, key, tool.created)
        /\ \A k \in tool.created : board[k].id = it.id => k = key
    BY <1>1, <2>1, <2>2, AllMade
  <2>4. Recorded(it.id)' = {key}
    BY <1>4, <2>3 DEF Made
  <2>5. /\ L0 \cap Subtasks = {} /\ (n \in L0 => it.type \in L0Types)
        /\ n \in Subtasks => it.parent # Tree.epic /\ (it.parent = Blank \/ it.type = "Sub-task")
    BY <1>3, <2>1, PostsShape DEF TypeAt
  <2>6. Hangs(n, key, tool.created)
    BY <2>3 DEF Made
  <2>7. ASSUME n \in Subtasks
        PROVE  it.type = "Sub-task" /\ board[key].parent \in Recorded(it.parent)'
    <3>1. board[key].parent \in tool.created /\ board[board[key].parent].id = it.parent
      BY <2>1, <2>6, <2>7 DEF Hangs
    <3>2. PICK p \in Posts : it.parent = TempId(p)
      BY <1>3, <3>1 DEF Covers, Made
    <3>3. it.parent # Blank
      <4>1. p # Epic
        BY <2>5, <2>7, <3>2 DEF TempId
      <4>2. p \in DOMAIN Tree.items
        BY <1>3, <4>1, PostsShape DEF Posts
      <4> QED  BY <1>3, <3>2, <4>2, TempIds
    <3> QED  BY <1>4, <2>5, <2>7, <3>1, <3>3
  <2>8. ASSUME n \in L0
        PROVE  /\ it.type # "Sub-task"
               /\ Tree.epic # Null =>
                    board[key].parent \in (IF Attaches(Tree) THEN {Old} ELSE Recorded(Tree.epic)')
    <3>1. it.type # "Sub-task"
      BY <2>5, <2>8 DEF L0Types
    <3>2. Tree.epic # Null => IF AttachesTo THEN board[key].parent = Old
            ELSE board[key].parent \in tool.created /\ board[board[key].parent].id = Tree.epic
      BY <2>5, <2>6, <2>8 DEF Hangs
    <3>3. Recorded(Tree.epic)' = {k \in tool.created : board[k].id = Tree.epic}
      BY <1>1, <1>2 DEF Recorded
    <3>4. AttachesTo = Attaches(Tree)
      BY DEF AttachesTo
    <3>5. Tree.epic # Null /\ ~AttachesTo => board[key].parent \in Recorded(Tree.epic)'
      BY <3>2, <3>3
    <3> QED  BY <3>1, <3>2, <3>4, <3>5
  <2>9. ASSUME NEW dep \in Selected, dep.id \in it.deps, NEW p \in Recorded(dep.id)'
        PROVE  <<p, key>> \in links
    <3>1. PICK m \in L0 \cup Subtasks : dep = Tree.items[m]
      BY DEF Selected
    <3>2. p = KeyOf(dep.id)
      BY <1>1, <1>4, <2>9, <3>1, AllMade
    <3>3. <<dep.id, it.id>> \in LinksToPost
      BY <2>9 DEF LinksToPost
    <3>4. Keys(<<dep.id, it.id>>) \in links
      BY <1>1, <3>3
    <3> QED  BY <2>2, <3>2, <3>4 DEF Keys
  <2> QED  BY <2>1, <2>4, <2>7, <2>8, <2>9, FS_Singleton
<1> QED  BY <1>1, <1>2, <1>5, <1>6 DEF BuiltAsPlanned

LEMMA LiveEndsStep ==
  ASSUME TreeInv, LiveEnds PROVE TreeInv'
<1>1. /\ Linked /\ UNCHANGED <<job, gate, board, links>>
      /\ record' = Written(tool.created) /\ tool' = NoTool /\ exit' = "live0"
  BY DEF LiveEnds, Exit
<1>2. Accepted /\ Covers(tool.created, Posts)
  BY <1>1, AllMade
<1>3. tool.created \subseteq DOMAIN board /\ \A k \in tool.created : board[k].mine
  BY <1>2 DEF Covers, Made
<1>4. record'.state = "written" /\ record'.created = tool.created /\ record' # Absent
  BY <1>1 DEF Written, Absent
<1>5. LinkInv' /\ BuiltAsPlanned'
  BY <1>1, LiveEndsBuilt DEF TreeInv, LinkInv
<1> QED  BY <1>1, <1>2, <1>3, <1>4, <1>5, Ended

----------------------------------------------------------------------------
(***************************************************************************)
(* The sweep.                                                              *)
(***************************************************************************)
\* The transition found is a state to be cancelled to; none is found when there is none.
LEMMA FindCancelFinds ==
  ASSUME NEW list
  PROVE  /\ FindCancel(list) # "none" => FindCancel(list) \in {"cancel", "closed", "done"}
         /\ FindCancel(list) = "none" => list \cap Range(CancelLike) = {}
<1>1. /\ DOMAIN CancelLike = 1..3
      /\ CancelLike[1] = "cancel" /\ CancelLike[2] = "closed" /\ CancelLike[3] = "done"
  BY DEF CancelLike
<1>2. Range(CancelLike) = {"cancel", "closed", "done"}
  BY <1>1 DEF Range
<1> DEFINE First3(i) == i \in DOMAIN CancelLike /\ CancelLike[i] \in list
                          /\ \A j \in 1..(i - 1) : CancelLike[j] \notin list
<1>3. CASE \E i \in DOMAIN CancelLike : CancelLike[i] \in list
  <2>1. \E i : First3(i)
    <3>1. CASE CancelLike[1] \in list
      <4>1. First3(1)
        BY <1>1, <3>1
      <4> QED  BY <4>1
    <3>2. CASE CancelLike[1] \notin list /\ CancelLike[2] \in list
      <4>1. First3(2)
        BY <1>1, <3>2
      <4> QED  BY <4>1
    <3>3. CASE CancelLike[1] \notin list /\ CancelLike[2] \notin list
      <4>1. First3(3)
        BY <1>1, <1>3, <3>3
      <4> QED  BY <4>1
    <3> QED  BY <3>1, <3>2, <3>3
  <2>2. PICK i \in DOMAIN CancelLike : FindCancel(list) = CancelLike[i]
    BY <1>3, <2>1 DEF FindCancel
  <2> QED  BY <1>1, <2>2
<1>4. CASE ~\E i \in DOMAIN CancelLike : CancelLike[i] \in list
  BY <1>1, <1>2, <1>4 DEF FindCancel
<1> QED  BY <1>3, <1>4

LEMMA CleanupBeginsStep ==
  ASSUME TreeInv, CleanupBegins PROVE TreeInv'
<1>1. /\ UNCHANGED <<job, gate, record, board, links>> /\ tool.pc = "idle"
      /\ record.state = "written" /\ exit' = "none"
      /\ tool' = [NoTool EXCEPT !.pc = "sweep", !.todo = record.created]
  BY DEF CleanupBegins, Start
<1>2. GateInv /\ BoardInv /\ RecordInv /\ LinkInv
  BY DEF TreeInv
<1>3. tool' = [pc |-> "sweep", todo |-> record.created, at |-> 0, key |-> 0, created |-> {},
               hard |-> FALSE]
  BY <1>1 DEF NoTool
<1>4. GateInv'
  BY <1>1, <1>2, <1>3, GateKept DEF GateInv, Absent
<1>5. BoardInv' /\ LinkInv'
  BY <1>1, <1>2, BoardSame DEF LinkInv
<1>6. ToolInv'
  <2>1. record.created \subseteq Nat
    BY <1>2 DEF RecordInv, BoardInv
  <2>2. tool' \in [pc : {"idle", "post", "ack", "sweep"}, todo : SUBSET Nat, at : Nat, key : Nat,
                   created : SUBSET Nat, hard : BOOLEAN]
    BY <1>3, <2>1
  <2>3. tool'.pc = "sweep" /\ tool'.created = {}
    BY <1>3
  <2> QED  BY <1>1, <2>2, <2>3 DEF ToolInv, Creating
<1>7. RecordInv'
  BY <1>1, <1>2, <1>3 DEF RecordInv, Creating, Absent
<1>8. ExitInv'
  <2>1. SweptBut(tool.todo)'
    BY <1>1, <1>3 DEF SweptBut
  <2> QED  BY <1>1, <1>3, <2>1 DEF ExitInv
<1> QED  BY <1>4, <1>5, <1>6, <1>7, <1>8 DEF TreeInv

\* An issue that is swept changes its state only.
LEMMA CancelKeeps ==
  ASSUME TreeInv, job' = job, NEW k \in DOMAIN board,
         UNCHANGED board \/ (CancelIssue(k) /\ FindCancel(Transitions(k)) # "none")
  PROVE  /\ BoardInv' /\ DOMAIN board' = DOMAIN board
         /\ \A j \in DOMAIN board \ {k} : board'[j] = board[j]
         /\ board'[k].state # "open" \/ board'[k].state = board[k].state
         /\ \A j \in DOMAIN board : board'[j].mine = board[j].mine
<1>1. BoardInv /\ board \in Seq(IssueRecord) /\ board[k] \in IssueRecord
  <2>1. BoardInv /\ board \in Seq(IssueRecord)
    BY DEF TreeInv, BoardInv
  <2> QED  BY <2>1, ElementOf
<1>2. CASE UNCHANGED board
  BY <1>1, <1>2, BoardSame
<1>3. CASE CancelIssue(k) /\ FindCancel(Transitions(k)) # "none"
  <2>1. PICK to : to = FindCancel(Transitions(k))
    OBVIOUS
  <2>2. to \in {"cancel", "closed", "done"} /\ board' = [board EXCEPT ![k].state = to]
    BY <1>3, <2>1, FindCancelFinds DEF CancelIssue
  <2>3. /\ DOMAIN board' = DOMAIN board /\ \A j \in DOMAIN board \ {k} : board'[j] = board[j]
        /\ board'[k] = [board[k] EXCEPT !.state = to]
    BY <2>2
  <2>4. /\ board'[k] \in IssueRecord /\ board'[k].state = to /\ board'[k].mine = board[k].mine
        /\ board'[k].id = board[k].id /\ board'[k].type = board[k].type
        /\ board'[k].parent = board[k].parent
    BY <1>1, <2>2, <2>3 DEF IssueRecord, States
  <2>5. IssuesStay
    BY <2>3, <2>4 DEF IssuesStay
  <2>6. board' \in Seq(IssueRecord)
    <3>1. \A j \in DOMAIN board : board'[j] \in IssueRecord
      BY <1>1, <2>3, <2>4, ElementOf
    <3>2. board' \in [1..Len(board) -> IssueRecord] /\ Len(board) \in Nat
      BY <1>1, <2>2, <2>3, <3>1
    <3> QED  BY <3>2
  <2>7. Tree' = Tree /\ IssueRecord' = IssueRecord
    BY SameJob DEF IssueRecord, Ids
  <2>8. \A j \in DOMAIN board : Placed(j) => Placed(j)'
    BY <1>1, <2>5, PlacedStays
  <2>9. BoardInv'
    BY <1>1, <2>3, <2>5, <2>6, <2>7, <2>8 DEF BoardInv, IssuesStay
  <2> QED  BY <2>2, <2>3, <2>4, <2>9
<1> QED  BY <1>2, <1>3

\* A sweep that goes on: the issue was tried, or hardFailures counts it.
LEMMA SweepStep ==
  ASSUME TreeInv, NEW k \in DOMAIN board, SweepIssue(k) \/ SweepFails(k) PROVE TreeInv'
<1>1. /\ tool.pc = "sweep" /\ k \in tool.todo
      /\ UNCHANGED <<job, gate, record, links, exit>>
      /\ UNCHANGED board \/ (CancelIssue(k) /\ FindCancel(Transitions(k)) # "none")
  BY DEF SweepIssue, SweepFails, Sweeping
<1>2. GateInv /\ ToolInv /\ RecordInv /\ ExitInv /\ LinkInv
  BY DEF TreeInv
<1>3. /\ BoardInv' /\ DOMAIN board' = DOMAIN board
      /\ \A j \in DOMAIN board \ {k} : board'[j] = board[j]
      /\ \A j \in DOMAIN board : board'[j].mine = board[j].mine
      /\ board'[k].state # "open" \/ board'[k].state = board[k].state
  BY <1>1, CancelKeeps
<1>4. /\ tool'.pc = "sweep" /\ tool'.todo = tool.todo \ {k} /\ tool'.created = tool.created
      /\ tool' \in [pc : {"idle", "post", "ack", "sweep"}, todo : SUBSET Nat, at : Nat, key : Nat,
                    created : SUBSET Nat, hard : BOOLEAN]
      /\ ~tool'.hard => ~tool.hard /\ SweepIssue(k)
  BY <1>1, <1>2 DEF SweepIssue, SweepFails, ToolInv
<1>5. GateInv'
  BY <1>1, <1>2, <1>4, GateKept DEF GateInv
<1>6. ToolInv'
  BY <1>1, <1>2, <1>4 DEF ToolInv, Creating
<1>7. RecordInv'
  BY <1>1, <1>2, <1>3, <1>4 DEF RecordInv, Creating, Absent
<1>8. LinkInv'
  BY <1>1, <1>2, <1>3 DEF LinkInv
<1>9. ExitInv'
  <2>1. exit' = "none"
    BY <1>1, <1>2 DEF ToolInv
  <2>2. ASSUME ~tool'.hard PROVE SweptBut(tool.todo)'
    <3>1. SweptBut(tool.todo) /\ SweepIssue(k)
      BY <1>1, <1>2, <1>4, <2>2 DEF ExitInv
    <3>2. board'[k].state # "open" \/ job.workflow \cap Range(CancelLike) = {}
      <4>1. CASE FindCancel(Transitions(k)) = "none"
        <5>1. Transitions(k) \cap Range(CancelLike) = {} /\ board' = board
          BY <3>1, <4>1, FindCancelFinds DEF SweepIssue
        <5> QED  BY <5>1 DEF Transitions
      <4>2. CASE FindCancel(Transitions(k)) # "none"
        <5>1. CancelIssue(k) /\ FindCancel(Transitions(k)) \in {"cancel", "closed", "done"}
          BY <3>1, <4>2, FindCancelFinds DEF SweepIssue
        <5>2. board[k] \in IssueRecord
          BY ElementOf DEF TreeInv, BoardInv
        <5>3. board'[k].state = FindCancel(Transitions(k))
          BY <5>1, <5>2 DEF CancelIssue, IssueRecord
        <5> QED  BY <5>1, <5>3
      <4> QED  BY <4>1, <4>2
    <3>3. \A j \in record.created \ tool.todo : board'[j].state = board[j].state
      BY <1>1, <1>2, <1>3 DEF RecordInv
    <3> QED  BY <1>1, <1>4, <3>1, <3>2, <3>3 DEF SweptBut
  <2> QED  BY <2>1, <2>2 DEF ExitInv
<1> QED  BY <1>3, <1>5, <1>6, <1>7, <1>8, <1>9 DEF TreeInv

LEMMA CleanupEndsStep ==
  ASSUME TreeInv, CleanupEnds PROVE TreeInv'
<1>1. /\ UNCHANGED <<job, gate, record, board, links>> /\ tool' = NoTool
      /\ tool.pc = "sweep" /\ tool.todo = {}
      /\ exit' = IF tool.hard THEN "cleanup1" ELSE "cleanup0"
  BY DEF CleanupEnds, Exit
<1>2. exit' = "cleanup0" => SweptBut({})'
  BY <1>1 DEF TreeInv, ExitInv, SweptBut
<1>3. RecordInv /\ LinkInv'
  BY <1>1 DEF TreeInv, LinkInv
<1> QED  BY <1>1, <1>2, <1>3, Ended DEF RecordInv

LEMMA KillStep ==
  ASSUME TreeInv, Kill PROVE TreeInv'
<1>1. /\ UNCHANGED <<job, gate, board, links>> /\ tool' = NoTool /\ exit' = "killed"
      /\ tool.pc # "idle" /\ record' \in {record, Torn}
  BY DEF Kill, Exit
<1>2. GateInv /\ RecordInv /\ LinkInv' /\ Accepted
  BY <1>1 DEF TreeInv, LinkInv, GateInv
<1>3. /\ record'.state \in {"absent", "torn", "written"} /\ record'.created \subseteq DOMAIN board
      /\ \A k \in record'.created : board[k].mine
      /\ record'.state # "written" => record'.created = {}
  BY <1>1, <1>2 DEF RecordInv, Torn
<1> QED  BY <1>1, <1>2, <1>3, Ended

LEMMA StutterStep ==
  ASSUME TreeInv, UNCHANGED vars PROVE TreeInv'
<1>1. UNCHANGED <<job, gate, tool, record, board, links, exit>>
  BY DEF vars
<1>2. GateInv /\ ToolInv /\ RecordInv /\ ExitInv /\ LinkInv
  BY DEF TreeInv
<1>3. BoardInv' /\ IssuesStay /\ Posts' = Posts
  BY <1>1, BoardSame, SameJob DEF TreeInv
<1>4. GateInv'
  BY <1>1, <1>2, GateKept DEF GateInv, Creating
<1>5. ToolInv'
  <2>1. PICK done, items, n, k :
          done = tool.created /\ items = Posts \ tool.todo /\ n = tool.at /\ k = tool.key
    OBVIOUS
  <2>2. Creating => Covers(done, items)'
    BY <1>1, <1>2, <1>3, <2>1, CoversStays DEF ToolInv
  <2>3. tool.pc = "ack" => done \subseteq DOMAIN board /\ k \in DOMAIN board /\ Made(n, k, done)
    BY <1>2, <2>1 DEF ToolInv, Creating, Covers
  <2>4. tool.pc = "ack" => Made(n, k, done)'
    BY <1>1, <1>3, <2>3, MadeStays
  <2>5. Creating => Covers(tool.created, Posts \ tool.todo)'
    BY <1>1, <1>3, <2>1, <2>2
  <2>6. tool.pc = "ack" => Made(tool.at, tool.key, tool.created)'
    BY <1>1, <2>1, <2>4
  <2> QED  BY <1>1, <1>2, <1>3, <2>5, <2>6 DEF ToolInv, Creating, NoTool
<1>6. RecordInv'
  BY <1>1, <1>2 DEF RecordInv, Creating, Written, Absent
<1>7. ExitInv'
  <2>1. SweptBut({})' = SweptBut({}) /\ SweptBut(tool.todo)' = SweptBut(tool.todo)
    BY <1>1 DEF SweptBut
  <2>2. exit = "live0" => BuiltAsPlanned'
    BY <1>1, <1>2, BuiltKept DEF ExitInv
  <2> QED  BY <1>1, <1>2, <2>1, <2>2 DEF ExitInv
<1>8. LinkInv'
  BY <1>1, <1>2 DEF LinkInv
<1> QED  BY <1>3, <1>4, <1>5, <1>6, <1>7, <1>8 DEF TreeInv

LEMMA TreeStep ==
  ASSUME TreeInv, [Next]_vars PROVE TreeInv'
<1>1. CASE UNCHANGED vars
  BY <1>1, StutterStep
<1>2. CASE \E a \in Answers : Gate(a)
  BY <1>2, GateStep
<1>3. CASE Create
  <2>1. CASE LiveRefused
    BY <2>1, ReportStep
  <2>2. CASE LiveBegins
    BY <2>2, LiveBeginsStep
  <2>3. CASE \E n \in Posts : PostIssue(n)
    BY <2>3, PostIssueStep
  <2>4. CASE (\E n \in Posts : PostRefused(n)) \/ LoseAnswer \/ LinkRefused
    BY <2>4, AbortSteps
  <2>5. CASE AckIssue
    BY <2>5, AckStep
  <2>6. CASE PostLink
    BY <2>6, PostLinkStep
  <2>7. CASE LiveEnds
    BY <2>7, LiveEndsStep
  <2> QED  BY <1>3, <2>1, <2>2, <2>3, <2>4, <2>5, <2>6, <2>7 DEF Create
<1>4. CASE Cleanup
  <2>1. CASE CleanupBegins
    BY <2>1, CleanupBeginsStep
  <2>2. CASE CleanupRefused
    BY <2>2, ReportStep
  <2>3. CASE \E k \in DOMAIN board : SweepIssue(k) \/ SweepFails(k)
    BY <2>3, SweepStep
  <2>4. CASE CleanupEnds
    BY <2>4, CleanupEndsStep
  <2> QED  BY <1>4, <2>1, <2>2, <2>3, <2>4 DEF Cleanup
<1>5. CASE Verify
  BY <1>5, ReportStep
<1>6. CASE Kill
  BY <1>6, KillStep
<1> QED  BY <1>1, <1>2, <1>3, <1>4, <1>5, <1>6 DEF Next

\* The invariant holds at every step of the gate and the tool.
THEOREM TreeInvariant == Spec => []TreeInv
<1>1. Init => TreeInv
  BY TreeInit
<1>2. TreeInv /\ [Next]_vars => TreeInv'
  BY TreeStep
<1> QED  BY <1>1, <1>2, PTL DEF Spec

----------------------------------------------------------------------------
(***************************************************************************)
(* What follows from it.                                                   *)
(***************************************************************************)
\* The gate, the tool, its record and the board have their types: what a record or a
\* running create names is on the board, and no parent comes after its child.
THEOREM TypeOKAlways == Spec => []TypeOK
<1>1. TreeInv => TypeOK
  <2> SUFFICES ASSUME TreeInv PROVE TypeOK
    OBVIOUS
  <2>1. GateInv /\ BoardInv /\ ToolInv /\ RecordInv /\ ExitInv /\ LinkInv
    BY DEF TreeInv
  <2>2. tool.created \cup record.created \subseteq DOMAIN board
    BY <2>1 DEF ToolInv, RecordInv, Creating, Covers
  <2>3. tool.todo \subseteq (IF tool.pc = "sweep" THEN DOMAIN board ELSE Posts)
    <3>1. tool.pc = "idle" => tool.todo = {}
      BY <2>1 DEF ToolInv, NoTool
    <3>2. tool.pc = "sweep" => tool.todo \subseteq DOMAIN board
      BY <2>1 DEF RecordInv
    <3> QED  BY <2>1, <3>1, <3>2 DEF ToolInv, Creating
  <2>4. ASSUME NEW k \in DOMAIN board
        PROVE  board[k].state \in States /\ board[k].parent \in 0..(k - 1)
    <3>1. board[k] \in IssueRecord /\ k \in Nat \ {0}
      BY <2>1, ElementOf DEF BoardInv
    <3>2. board[k].parent \in {0} \cup 1..(k - 1)
      BY <2>1 DEF BoardInv, Placed
    <3> QED  BY <3>1, <3>2 DEF IssueRecord
  <2>5. tool.pc \in {"idle", "post", "ack", "sweep"}
    BY <2>1 DEF ToolInv
  <2> QED  BY <2>1, <2>2, <2>3, <2>4, <2>5 DEF TypeOK, GateInv, RecordInv, ExitInv, LinkInv
<1> QED  BY <1>1, TreeInvariant, PTL

\* A tree that passed treecheck has items, each below the epic or alone within three
\* levels; a skeleton's array order is an order of execution, milestone by milestone.
THEOREM AcceptedTreeSoundAlways == Spec => []AcceptedTreeSound
<1>1. TreeInv => AcceptedTreeSound
  BY AcceptedSound DEF TreeInv
<1> QED  BY <1>1, TreeInvariant, PTL

\* A plan that names an existing epic never makes a second one, through any number of
\* runs, kills and lost answers, and all its L0 issues go under that epic.
THEOREM AttachNeverDuplicatesAlways == Spec => []AttachNeverDuplicates
<1>1. TreeInv => AttachNeverDuplicates
  <2> SUFFICES ASSUME TreeInv, Attaches(Tree), NEW k \in DOMAIN board, board[k].mine
               PROVE  /\ board[k].type # "Epic"
                      /\ board[k].type \in L0Types => board[k].parent = Old /\ board[Old].type = "Epic"
    BY DEF AttachNeverDuplicates
  <2>1. Placed(k) /\ Tree.epic # Null
    BY DEF TreeInv, BoardInv, Attaches
  <2> QED  BY <2>1 DEF Placed, L0Types
<1> QED  BY <1>1, TreeInvariant, PTL

\* A create that exits 0 has recorded one issue for each selected item and none for
\* another, each below the issue its item names, and every link, the right way round.
THEOREM BuiltAsPlannedAlways == Spec => []BuiltAsPlanned
<1>1. TreeInv => BuiltAsPlanned
  BY DEF TreeInv, ExitInv, BuiltAsPlanned
<1> QED  BY <1>1, TreeInvariant, PTL

\* A cleanup that exits 0 leaves no recorded issue open that the board offered a way
\* to cancel.
THEOREM ExitZeroSweptAlways == Spec => []ExitZeroSwept
<1>1. TreeInv => ExitZeroSwept
  BY DEF TreeInv, ExitInv, SweptBut, ExitZeroSwept
<1> QED  BY <1>1, TreeInvariant, PTL

\* The sweep takes an issue after its recorded children.
LEMMA ChildrenFirst ==
  ASSUME TreeInv, NEW k \in DOMAIN board, Sweeping(k), NEW c \in tool.todo, board[c].parent = k
  PROVE  FALSE
<1>1. c \in record.created /\ c \in DOMAIN board /\ board[c].mine /\ BoardInv
  BY DEF TreeInv, RecordInv, Sweeping
<1>2. Placed(c) /\ c \in Nat /\ k \in Nat \ {0}
  BY <1>1 DEF BoardInv
<1>3. c # k
  BY <1>2 DEF Placed
<1>4. CancelOrder(k, c)
  BY <1>3 DEF Sweeping
<1>5. CASE board[c].type = "Sub-task"
  <2>1. board[k].type \in L0Types
    BY <1>2, <1>5 DEF Placed, L0Types
  <2>2. Rank(board[k].type) = 1 /\ Rank(board[c].type) = 0
    BY <1>5, <2>1 DEF Rank, L0Types
  <2> QED  BY <1>4, <2>2 DEF CancelOrder
<1>6. CASE board[c].type \in L0Types
  <2>1. board[k].type = "Epic"
    BY <1>2, <1>6 DEF Placed, L0Types
  <2>2. Rank(board[k].type) = 2 /\ Rank(board[c].type) = 1
    BY <1>6, <2>1 DEF Rank, L0Types
  <2> QED  BY <1>4, <2>2 DEF CancelOrder
<1>7. CASE board[c].type = "Epic"
  BY <1>2, <1>7 DEF Placed, L0Types
<1> QED  BY <1>2, <1>5, <1>6, <1>7 DEF Placed

\* A sweep moves only issues this tool made and recorded, never the attached epic, and
\* an issue only after every recorded child was tried.
THEOREM SweepsOwnChildrenFirstAlways == Spec => SweepsOwnChildrenFirst
<1> DEFINE Step == \A k \in DOMAIN board : board'[k].state # board[k].state =>
                     /\ board[k].mine /\ k \in record.created
                     /\ \A c \in record.created : board[c].parent = k => c \notin tool.todo
<1>1. TreeInv /\ [Next]_vars => [Step]_vars
  <2> SUFFICES ASSUME TreeInv, Next, NEW k \in DOMAIN board, board'[k].state # board[k].state
               PROVE  /\ board[k].mine /\ k \in record.created
                      /\ \A c \in record.created : board[c].parent = k => c \notin tool.todo
    OBVIOUS
  <2>1. board \in Seq(IssueRecord)
    BY DEF TreeInv, BoardInv
  <2>2. ASSUME NEW n, PostIssue(n) PROVE FALSE
    BY <2>1, <2>2 DEF PostIssue
  <2>3. PICK j \in DOMAIN board : SweepIssue(j) \/ SweepFails(j)
    BY <2>2 DEF Next, Gate, Create, LiveRefused, LiveBegins, PostRefused, AckIssue, LoseAnswer,
       PostLink, LinkRefused, LiveEnds, Cleanup, CleanupBegins, CleanupRefused, CleanupEnds, Verify, Kill
  <2>4. Sweeping(j) /\ (UNCHANGED board \/ CancelIssue(j))
    BY <2>3 DEF SweepIssue, SweepFails
  <2>5. j = k
    BY <2>1, <2>4 DEF CancelIssue
  <2> QED  BY <2>4, <2>5, ChildrenFirst DEF TreeInv, RecordInv, Sweeping
<1> QED  BY <1>1, TreeInvariant, PTL DEF Spec, SweepsOwnChildrenFirst

----------------------------------------------------------------------------
(***************************************************************************)
(* The journal.                                                            *)
(***************************************************************************)
\* The record changes in three ways: a create begins on one that lists nothing, an
\* answer is journalled, or a kill tears it.
LEMMA RecordMoves ==
  ASSUME TreeInv, [Next]_vars
  PROVE  \/ record' = record
         \/ record.created = {} /\ record.state # "torn" /\ record' = Written({}) /\ LiveBegins
         \/ AckIssue /\ record = Written(tool.created) /\ record' = Written(tool.created \cup {tool.key})
         \/ record.state = "written" /\ record' = Torn /\ Kill
<1>1. RecordInv /\ ToolInv /\ (Creating => record = Written(tool.created) /\ record.state = "written")
  BY DEF TreeInv, RecordInv, Written
<1>2. CASE LiveBegins
  BY <1>1, <1>2 DEF LiveBegins, Overwritable, RecordInv
<1>3. CASE AckIssue
  BY <1>1, <1>3 DEF AckIssue, Creating, ToolInv
<1>4. CASE Kill
  BY <1>1, <1>4 DEF Kill, Creating
<1>5. CASE LoseAnswer \/ (\E n \in Posts : PostRefused(n)) \/ PostLink \/ LinkRefused \/ LiveEnds
  BY <1>1, <1>5 DEF LoseAnswer, PostRefused, PostLink, LinkRefused, LiveEnds, Abort, Posting, Linked, Creating
<1>6. CASE \/ UNCHANGED vars \/ (\E a \in Answers : Gate(a)) \/ LiveRefused \/ Cleanup \/ Verify
           \/ \E n \in Posts : PostIssue(n)
  BY <1>6 DEF vars, Gate, LiveRefused, Cleanup, CleanupBegins, CleanupRefused, SweepIssue, SweepFails,
     CleanupEnds, Verify, PostIssue
<1> QED  BY <1>2, <1>3, <1>4, <1>5, <1>6 DEF Next, Create

\* No run of the tool forgets a recorded issue, whether it creates again, aborts or
\* sweeps; only a kill can tear the record, and a torn record is never replaced.
THEOREM JournalKeptAlways == Spec => JournalKept
<1>1. TreeInv /\ [Next]_vars =>
        [/\ record'.state = "written" => record.created \subseteq record'.created
         /\ record.state = "torn" => record' = record]_vars
  BY RecordMoves DEF Written, Torn
<1> QED  BY <1>1, TreeInvariant, PTL DEF Spec, JournalKept

JournalInv == faults \in Nat /\ kills \in Nat /\ JournalCoversBoard

LEMMA UnrecordedFinite ==
  ASSUME BoardInv
  PROVE  /\ IsFiniteSet(Unrecorded) /\ Cardinality(Unrecorded) \in Nat
<1>1. IsFiniteSet(1..Len(board)) /\ DOMAIN board = 1..Len(board)
  BY FS_Interval DEF BoardInv
<1>2. Unrecorded \subseteq DOMAIN board
  BY DEF Unrecorded
<1>3. IsFiniteSet(Unrecorded)
  BY <1>1, <1>2, FS_Subset
<1> QED  BY <1>3, FS_CardinalityType

\* Steps that neither post an issue nor journal one.
LEMMA UnrecordedKept ==
  ASSUME TreeInv, [Next]_vars, record'.state # "torn", ~AckIssue, ~\E n \in Posts : PostIssue(n)
  PROVE  Unrecorded' = Unrecorded /\ record.state # "torn"
<1>1. record'.created = record.created /\ record.state # "torn"
  BY RecordMoves DEF Written, Torn
<1>2. DOMAIN board' = DOMAIN board /\ \A k \in DOMAIN board : board'[k].mine = board[k].mine
  <2>1. CASE \E k \in DOMAIN board : SweepIssue(k) \/ SweepFails(k)
    <3>1. PICK k \in DOMAIN board : SweepIssue(k) \/ SweepFails(k)
      BY <2>1
    <3>2. job' = job /\ (UNCHANGED board \/ (CancelIssue(k) /\ FindCancel(Transitions(k)) # "none"))
      BY <3>1 DEF SweepIssue, SweepFails
    <3> QED  BY <3>2, CancelKeeps
  <2>2. CASE ~\E k \in DOMAIN board : SweepIssue(k) \/ SweepFails(k)
    <3>1. board' = board
      BY <2>2 DEF vars, Next, Gate, Create, LiveRefused, LiveBegins, PostRefused, LoseAnswer,
         PostLink, LinkRefused, LiveEnds, Cleanup, CleanupBegins, CleanupRefused, CleanupEnds, Verify, Kill
    <3> QED  BY <3>1
  <2> QED  BY <2>1, <2>2
<1> QED  BY <1>1, <1>2 DEF Unrecorded

\* An answer that does not come is paid for by a fault or a kill.
LEMMA CountsGrow ==
  ASSUME JournalInv, [Next]_vars, ~AckIssue
  PROVE  /\ faults' \in Nat /\ kills' \in Nat /\ faults' >= faults /\ kills' >= kills
         /\ tool.pc = "ack" /\ tool'.pc # "ack" => faults' + kills' >= faults + kills + 1
<1>1. CASE LoseAnswer
  BY <1>1 DEF JournalInv, LoseAnswer, Fault
<1>2. CASE Kill
  BY <1>2 DEF JournalInv, Kill
<1>3. ASSUME ~LoseAnswer, ~Kill
      PROVE  /\ faults' \in {faults, faults + 1} /\ kills' = kills
             /\ tool.pc # "ack" \/ tool' = tool
  <2>1. CASE UNCHANGED vars \/ (\E a \in Answers : Gate(a))
    BY <2>1 DEF vars, Gate
  <2>2. CASE LiveRefused \/ LiveBegins
    BY <2>2 DEF LiveRefused, LiveBegins, Start, Fault
  <2>3. CASE \E n \in Posts : PostIssue(n) \/ PostRefused(n)
    BY <2>3 DEF PostIssue, PostRefused, Posting, Fault
  <2>4. CASE PostLink \/ LinkRefused \/ LiveEnds
    BY <2>4 DEF PostLink, LinkRefused, LiveEnds, Linked, Fault
  <2>5. CASE CleanupBegins \/ CleanupRefused \/ CleanupEnds \/ Verify
    BY <2>5 DEF CleanupBegins, CleanupRefused, CleanupEnds, Verify, Start, Fault
  <2>6. CASE \E k \in DOMAIN board : SweepIssue(k) \/ SweepFails(k)
    BY <2>6 DEF SweepIssue, SweepFails, Sweeping, Fault
  <2> QED  BY <1>3, <2>1, <2>2, <2>3, <2>4, <2>5, <2>6 DEF Next, Create, Cleanup
<1> QED  BY <1>1, <1>2, <1>3 DEF JournalInv

LEMMA JournalStep ==
  ASSUME TreeInv, JournalInv, [Next]_vars PROVE JournalInv'
<1>1. ToolInv /\ RecordInv /\ BoardInv /\ IsFiniteSet(Unrecorded) /\ Cardinality(Unrecorded) \in Nat
  BY UnrecordedFinite DEF TreeInv
<1>2. CASE AckIssue
  <2>1. /\ record = Written(tool.created) /\ record' = Written(tool.created \cup {tool.key})
        /\ UNCHANGED <<board, faults, kills>> /\ tool'.pc = "post" /\ tool.pc = "ack"
    BY <1>1, <1>2 DEF AckIssue, RecordInv, ToolInv, Creating
  <2>2. tool.key \in DOMAIN board \ tool.created /\ board[tool.key].mine
    BY <1>1, <2>1 DEF ToolInv, Made
  <2>3. tool.key \in Unrecorded /\ Unrecorded' = Unrecorded \ {tool.key}
    BY <2>1, <2>2 DEF Unrecorded, Written
  <2>4. Cardinality(Unrecorded') = Cardinality(Unrecorded) - 1
    BY <1>1, <2>3, FS_RemoveElement
  <2> QED  BY <1>1, <2>1, <2>4 DEF JournalInv, JournalCoversBoard, Written
<1>3. CASE \E n \in Posts : PostIssue(n)
  <2>1. PICK n \in Posts : PostIssue(n)
    BY <1>3
  <2>2. PICK key : key = Len(board) + 1
    OBVIOUS
  <2>3. /\ board' = Append(board, Body(n)) /\ UNCHANGED <<record, faults, kills>>
        /\ tool.pc = "post" /\ tool'.pc = "ack"
    BY <1>1, <2>1 DEF PostIssue, Posting, ToolInv
  <2>4. /\ Body(n).mine = TRUE /\ board \in Seq(IssueRecord) /\ record.created \subseteq DOMAIN board
    BY <1>1, <2>1, BodyFits DEF PostIssue, BoardInv, RecordInv
  <2>5. /\ DOMAIN board' = DOMAIN board \cup {key} /\ key \notin DOMAIN board /\ board'[key] = Body(n)
        /\ \A j \in DOMAIN board : board'[j] = board[j]
    BY <2>2, <2>3, <2>4
  <2>6. Unrecorded' = Unrecorded \cup {key} /\ key \notin Unrecorded
    BY <2>3, <2>4, <2>5 DEF Unrecorded
  <2>7. Cardinality(Unrecorded') = Cardinality(Unrecorded) + 1
    BY <1>1, <2>6, FS_AddElement
  <2> QED  BY <1>1, <2>3, <2>7 DEF JournalInv, JournalCoversBoard
<1>4. CASE ~AckIssue /\ ~\E n \in Posts : PostIssue(n)
  <2>1. /\ faults' \in Nat /\ kills' \in Nat /\ faults' >= faults /\ kills' >= kills
        /\ tool.pc = "ack" /\ tool'.pc # "ack" => faults' + kills' >= faults + kills + 1
    BY <1>4, CountsGrow
  <2>2. record'.state # "torn" => Unrecorded' = Unrecorded /\ record.state # "torn"
    BY <1>4, UnrecordedKept
  <2>3. record'.state # "torn" => Cardinality(Unrecorded)'
          <= faults' + kills' + (IF tool'.pc = "ack" THEN 1 ELSE 0)
    <3> SUFFICES ASSUME record'.state # "torn"
                 PROVE  Cardinality(Unrecorded)' <= faults' + kills' + (IF tool'.pc = "ack" THEN 1 ELSE 0)
      OBVIOUS
    <3>1. Cardinality(Unrecorded)' = Cardinality(Unrecorded)
      BY <2>2
    <3>2. /\ Cardinality(Unrecorded) <= faults + kills + (IF tool.pc = "ack" THEN 1 ELSE 0)
          /\ faults \in Nat /\ kills \in Nat
      BY <2>2 DEF JournalInv, JournalCoversBoard
    <3>3. CASE tool.pc = "ack"
      <4>1. PICK c, f, k, g, h :
              c = Cardinality(Unrecorded) /\ f = faults /\ k = kills /\ g = faults' /\ h = kills'
        OBVIOUS
      <4>2. c \in Nat /\ f \in Nat /\ k \in Nat /\ g \in Nat /\ h \in Nat /\ c <= f + k + 1
        BY <1>1, <2>1, <3>2, <3>3, <4>1
      <4>3. CASE tool'.pc = "ack"
        <5>1. c <= g + h + 1
          BY <2>1, <4>1, <4>2
        <5> QED  BY <3>1, <4>1, <4>3, <5>1
      <4>4. CASE tool'.pc # "ack"
        <5>1. g + h >= f + k + 1
          BY <2>1, <3>3, <4>1, <4>4
        <5>2. c <= g + h + 0
          BY <4>2, <5>1
        <5> QED  BY <3>1, <4>1, <4>4, <5>2
      <4> QED  BY <4>3, <4>4
    <3>4. CASE tool.pc # "ack"
      BY <1>1, <2>1, <3>1, <3>2, <3>4
    <3> QED  BY <3>3, <3>4
  <2> QED  BY <2>1, <2>3 DEF JournalInv, JournalCoversBoard
<1> QED  BY <1>2, <1>3, <1>4

\* The journal covers the board: an issue of this tool that no record lists is the one
\* whose answer is under way, or one for a call that failed or a run that was killed.
THEOREM JournalCoversBoardAlways == Spec => []JournalCoversBoard
<1>1. Init => JournalInv
  <2> SUFFICES ASSUME Init PROVE JournalInv
    OBVIOUS
  <2>1. Unrecorded = {}
    BY DEF Init, Unrecorded, Issue
  <2> QED  BY <2>1, FS_EmptySet DEF Init, JournalInv, JournalCoversBoard, NoTool
<1>2. TreeInv /\ JournalInv /\ [Next]_vars => JournalInv'
  BY JournalStep
<1>3. JournalInv => JournalCoversBoard
  BY DEF JournalInv
<1> QED  BY <1>1, <1>2, <1>3, TreeInvariant, PTL DEF Spec
=============================================================================
