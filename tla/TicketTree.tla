----------------------------- MODULE TicketTree -----------------------------
(***************************************************************************)
(* From a tree to the board: the deterministic gate, and the create tool   *)
(* that turns an accepted plan into epic, L0 issues, sub-tasks and links,  *)
(* journals them, and later sweeps them to a terminal state.               *)
(*                                                                         *)
(* PlanService treats the tree as a row of issues; here they have types,   *)
(* parents and a workflow.  A run may be killed at any step, and a call to *)
(* the board may fail, or take effect and lose its answer.                 *)
(***************************************************************************)
EXTENDS TreeChecks

CONSTANTS
  SkeletonJobs, PlanJobs,  \* what the engine may hand to the gate
  Answers,    \* how the checker process may end
  MaxRuns,    \* bound on runs of the tool
  MaxFaults,  \* bound on board calls that fail or lose their answer
  MaxKills    \* bound on kills of the tool

ASSUME BoundsAssumption == MaxRuns \in Nat /\ MaxFaults \in Nat /\ MaxKills \in Nat
\* What the decoders let through, before any check; Null stands for a JSON null.
ItemRecord ==
  [id : STRING \ {Null}, type : STRING, parent : STRING, deps : SUBSET STRING,
   milestone : STRING, repo : STRING, complete : BOOLEAN, effort : STRING, tier1 : STRING,
   zones : SUBSET STRING, anchors : SUBSET [repo : STRING, path : Seq(STRING)]]
TreeRecord ==
  [epic : STRING, existing : STRING, items : Seq(ItemRecord),
   milestones : Seq([id : STRING, order : Int])]

ASSUME JobsAssumption ==
  /\ \A j \in SkeletonJobs : j.mode = "skeleton"
  /\ \A j \in PlanJobs : j.mode = "plan"
  /\ \A j \in SkeletonJobs \cup PlanJobs : j.tree \in TreeRecord
ASSUME AnswersAssumption == Answers \subseteq {"honest", "spawn_error", "junk", "other_plan"}

VARIABLES
  job,       \* [mode, tree, map, scope, workflow]
  gate,      \* none, pass, fail
  failures,  \* the checks an honest checker reported
  tool,      \* the running create or cleanup
  record,    \* the record file
  board,     \* the board's issues; an issue's key is its index
  links,     \* Blocks links: <<prerequisite, dependent>>
  exit,      \* how the last run of the tool ended
  runs, faults, kills

vars == <<job, gate, failures, tool, record, board, links, exit, runs, faults, kills>>

\* created: the keys the record lists, in the order in which they were made.
Absent == [state |-> "absent", created |-> {}]
Torn == [state |-> "torn", created |-> {}]
Written(created) == [state |-> "written", created |-> created]

\* pc: the await the run is at; todo: what its loop still has to go through, items
\* of the plan or keys to sweep; at, key: the item and the issue of a POST under
\* way; created: the keys acknowledged; hard: hardFailures > 0.
NoTool == [pc |-> "idle", todo |-> {}, at |-> 0, key |-> 0, created |-> {}, hard |-> FALSE]

Tree == job.tree
Old == 1  \* the issue that epic.existing_key names, when there is one
Issue(id, type, parent, mine) ==
  [id |-> id, type |-> type, parent |-> parent, state |-> "open", mine |-> mine]

Init ==
  /\ job \in SkeletonJobs \cup PlanJobs
  /\ gate = "none"
  /\ failures = {}
  /\ tool = NoTool
  /\ record = Absent
  /\ board = CASE Tree.existing = "epic" -> <<Issue("old", "Epic", 0, FALSE)>>
               [] Tree.existing = "other" -> <<Issue("old", "Story", 0, FALSE)>>
               [] OTHER -> <<>>
  /\ links = {}
  /\ exit = "none"
  /\ runs = 0 /\ faults = 0 /\ kills = 0

Fault == faults < MaxFaults /\ faults' = faults + 1

----------------------------------------------------------------------------
(***************************************************************************)
(* The gate                                                                *)
(***************************************************************************)
Failures == IF job.mode = "skeleton" THEN SkeletonFailures(Tree)
            ELSE PlanFailures(Tree, job.map)

\* The ids a plan's verdict must cover: none blank, none twice.
PlanItemIDs == Tree.items # <<>> /\ Blank \notin Ids(Tree) /\ NoDuplicates(Tree.items)

\* A verdict with every required check, consistent in itself, on these very items.
Honest(answer) == answer \notin {"spawn_error", "junk", "other_plan"}
ExpectedOutput(answer) == Honest(answer) /\ (job.mode = "plan" => PlanItemIDs)

\* runTreecheck: exit code 0 AND such a verdict.
Treecheck(answer) == ExpectedOutput(answer) /\ Failures = {}

Gate(answer) ==
  /\ gate = "none"
  /\ gate' = IF Treecheck(answer) THEN "pass" ELSE "fail"
  /\ failures' = IF Honest(answer) THEN Failures ELSE {}
  /\ UNCHANGED <<job, tool, record, board, links, exit, runs, faults, kills>>

----------------------------------------------------------------------------
(***************************************************************************)
(* Create                                                                  *)
(***************************************************************************)
\* selectScope, as positions in the plan's items; the epic is position 0.  A null
\* parent counts as the epic's child; a blank one does not.
Epic == 0
IsL0(n) == Tree.items[n].parent \in {Tree.epic, Null}
AllL0 == {n \in DOMAIN Tree.items : IsL0(n)}
TypeAt(n) == Tree.items[n].type
First(positions) == {n \in positions : \A m \in positions : n <= m}

FirstTask == First({n \in AllL0 : TypeAt(n) = "Task"})
FirstStory == First({n \in AllL0 : TypeAt(n) = "Story"})

L0 == CASE job.scope = "full" -> AllL0
        [] job.scope # "full" /\ FirstTask \cup FirstStory # {} -> FirstTask \cup FirstStory
        [] OTHER -> First(AllL0)

Subtasks ==
  IF job.scope = "full" THEN DOMAIN Tree.items \ AllL0
  ELSE First({n \in DOMAIN Tree.items : /\ TypeAt(n) = "Sub-task"
                                       /\ \E s \in FirstStory : Tree.items[n].parent = Tree.items[s].id})

\* Mutant: a key that cannot be used falls back to a fresh epic.
AttachesToVerified == Attaches(Tree) /\ Tree.existing = "epic"

\* epicExistingKey: trimmed, a malformed key kills the run.
AttachesTo == Attaches(Tree)

\* The key is read from the board before any write, and must name an Epic.
AttachVerified == AttachesTo => Tree.existing = "epic"

\* What is POSTed: the epic unless attached, L0 items, sub-tasks ...
Posts == (IF Tree.epic # Null /\ ~AttachesTo THEN {Epic} ELSE {}) \cup L0 \cup Subtasks

\* ... in this order, and in the order of the array; smoke takes the task first.
Turn(n) == CASE n = Epic -> 0
             [] n \in Subtasks -> 3
             [] n \notin Subtasks /\ n # Epic /\ job.scope # "full" /\ TypeAt(n) # "Task" -> 2
             [] OTHER -> 1
IsNextPost(n) == \A m \in tool.todo : Turn(n) < Turn(m) \/ (Turn(n) = Turn(m) /\ n <= m)

\* tempToKey: 0 when the temp_id has no issue.  Behind the gate ids are unique.
KeyOf(id) ==
  LET made == {k \in tool.created : board[k].id = id}
  IN CASE AttachesTo /\ id = Tree.epic -> Old
       [] ~(AttachesTo /\ id = Tree.epic) /\ made # {} -> CHOOSE k \in made : TRUE
       [] OTHER -> 0

ParentKey(n) ==
  CASE n = Epic -> 0
    [] n \in Subtasks -> KeyOf(Tree.items[n].parent)
    [] OTHER -> IF Tree.epic = Null THEN 0 ELSE KeyOf(Tree.epic)

\* epicBody, l0Body, subtaskBody: whatever follows the L0 items becomes a sub-task.
Body(n) ==
  CASE n = Epic -> Issue(Tree.epic, "Epic", 0, TRUE)
    [] n \in Subtasks -> Issue(Tree.items[n].id, "Sub-task", ParentKey(n), TRUE)
    [] OTHER -> Issue(Tree.items[n].id, TypeAt(n), ParentKey(n), TRUE)

MissingParent(n) == n \in Subtasks /\ ParentKey(n) = 0

\* Links among the created items only; Jira refuses an issue linked to itself.
Selected == {Tree.items[n] : n \in L0 \cup Subtasks}
LinksToPost ==
  LET ids == {it.id : it \in Selected} \cup ({Tree.epic} \ {Null})
  IN {link \in ids \X ids : \E it \in Selected : it.id = link[2] /\ link[1] \in it.deps}

\* An existing record is overwritten only when it parses and lists nothing.
Overwritable == record.state = "absent" \/ (record.state = "written" /\ record.created = {})

Start == runs < MaxRuns /\ runs' = runs + 1 /\ tool.pc = "idle"
Exit(code) == tool' = NoTool /\ exit' = code

\* die() before the write-ahead record: no write of any kind.
LiveRefused ==
  /\ gate = "pass" /\ job.mode = "plan"
  /\ Start
  /\ \/ ~Overwritable /\ UNCHANGED faults
     \/ ~AttachVerified /\ UNCHANGED faults
     \/ Fault  \* the epic or the project could not be read, or has no sub-task type
  /\ exit' = "live1"
  /\ UNCHANGED <<job, gate, failures, tool, record, board, links, kills>>

\* runLive up to the write-ahead record.
LiveBegins ==
  /\ gate = "pass" /\ job.mode = "plan"
  /\ Start
  /\ Overwritable /\ AttachVerified
  /\ record' = Written({})
  /\ tool' = [NoTool EXCEPT !.pc = "post", !.todo = Posts]
  /\ exit' = "none"
  /\ UNCHANGED <<job, gate, failures, board, links, faults, kills>>

\* Mutant: the catch block journals the issue in hand as created.
AbortWithIssueInHand == record' = Written(tool.created \cup {tool.key}) /\ Exit("live1")

\* The catch block: journal what is acknowledged, exit 1.
Abort == record' = Written(tool.created) /\ Exit("live1")

Posting(n) == tool.pc = "post" /\ n \in tool.todo /\ IsNextPost(n)

\* The POST of an issue commits; its answer is still to come.
PostIssue(n) ==
  /\ Posting(n) /\ ~MissingParent(n)
  /\ board' = Append(board, Body(n))
  /\ tool' = [tool EXCEPT !.pc = "ack", !.at = n, !.key = Len(board) + 1]
  /\ UNCHANGED <<job, gate, failures, record, links, exit, runs, faults, kills>>

\* The board refuses it, or a sub-task's parent has no issue.
PostRefused(n) ==
  /\ Posting(n)
  /\ IF MissingParent(n) THEN UNCHANGED faults ELSE Fault
  /\ Abort
  /\ UNCHANGED <<job, gate, failures, board, links, runs, kills>>

\* The answer arrives and is journalled at once.
AckIssue ==
  /\ tool.pc = "ack"
  /\ tool' = [tool EXCEPT !.pc = "post", !.todo = @ \ {tool.at}, !.created = @ \cup {tool.key}]
  /\ record' = Written(tool'.created)
  /\ UNCHANGED <<job, gate, failures, board, links, exit, runs, faults, kills>>

LoseAnswer ==
  /\ tool.pc = "ack"
  /\ Fault
  /\ Abort
  /\ UNCHANGED <<job, gate, failures, board, links, runs, kills>>

Linked == tool.pc = "post" /\ tool.todo = {}

\* Mutant: inward and outward issue swapped.
KeysSwapped(link) == <<KeyOf(link[2]), KeyOf(link[1])>>

Keys(link) == <<KeyOf(link[1]), KeyOf(link[2])>>

\* The next link in the loop; the answer may be lost after it committed.
PostLink ==
  /\ Linked
  /\ \E link \in LinksToPost :
       /\ link[1] # link[2] /\ Keys(link) \notin links
       /\ links' = links \cup {Keys(link)}
  /\ \/ record' = Written(tool.created) /\ UNCHANGED <<tool, exit, faults>>
     \/ Fault /\ Abort
  /\ UNCHANGED <<job, gate, failures, board, runs, kills>>

\* A self-link is refused; any other link, or a comment, may fail.
LinkRefused ==
  /\ Linked
  /\ IF \E link \in LinksToPost : link[1] = link[2] THEN UNCHANGED faults ELSE Fault
  /\ Abort
  /\ UNCHANGED <<job, gate, failures, board, links, runs, kills>>

\* All links and comments are there: the final record.
LiveEnds ==
  /\ Linked
  /\ \A link \in LinksToPost : link[1] # link[2] /\ Keys(link) \in links
  /\ record' = Written(tool.created)
  /\ Exit("live0")
  /\ UNCHANGED <<job, gate, failures, board, links, runs, faults, kills>>

----------------------------------------------------------------------------
(***************************************************************************)
(* Cleanup                                                                 *)
(***************************************************************************)
Rank(type) == CASE type = "Sub-task" -> 0 [] type = "Epic" -> 2 [] OTHER -> 1

\* Mutant: the record is swept in the order it was written.
CancelOrderAsWritten(j, k) == j < k

\* cancelOrder: sub-tasks, then L0 issues, then the epic; stable.
CancelOrder(j, k) ==
  \/ Rank(board[j].type) < Rank(board[k].type)
  \/ Rank(board[j].type) = Rank(board[k].type) /\ j < k

\* findCancelTransition: cancel first, then closed, then done.
CancelLike == <<"cancel", "closed", "done">>
Transitions(k) == IF board[k].state = "open" THEN job.workflow ELSE {}
FindCancel(list) ==
  IF \E i \in DOMAIN CancelLike : CancelLike[i] \in list
  THEN CancelLike[CHOOSE i \in DOMAIN CancelLike :
         CancelLike[i] \in list /\ \A j \in 1..(i - 1) : CancelLike[j] \notin list]
  ELSE "none"

CleanupBegins ==
  /\ record.state = "written"
  /\ Start
  /\ tool' = [NoTool EXCEPT !.pc = "sweep", !.todo = record.created]
  /\ exit' = "none"
  /\ UNCHANGED <<job, gate, failures, record, board, links, faults, kills>>

\* No record, or one that does not parse.
CleanupRefused ==
  /\ gate = "pass" /\ job.mode = "plan"
  /\ record.state # "written"
  /\ Start
  /\ exit' = "cleanup1"
  /\ UNCHANGED <<job, gate, failures, tool, record, board, links, faults, kills>>

Sweeping(k) == tool.pc = "sweep" /\ k \in tool.todo /\ \A j \in tool.todo \ {k} : CancelOrder(k, j)
CancelIssue(k) == board' = [board EXCEPT ![k].state = FindCancel(Transitions(k))]

\* The transition is read and posted, or nothing matches and the issue is left.
SweepIssue(k) ==
  /\ Sweeping(k)
  /\ IF FindCancel(Transitions(k)) = "none" THEN UNCHANGED board ELSE CancelIssue(k)
  /\ tool' = [tool EXCEPT !.todo = @ \ {k}]
  /\ UNCHANGED <<job, gate, failures, record, links, exit, runs, faults, kills>>

\* Mutant: a failed read of the transitions is not counted.
SweepFailsQuietly(k) ==
  /\ Sweeping(k)
  /\ Fault
  /\ UNCHANGED board
  /\ tool' = [tool EXCEPT !.todo = @ \ {k}]
  /\ UNCHANGED <<job, gate, failures, record, links, exit, runs, kills>>

\* Read or POST fails, or the POST commits and its answer is lost.
SweepFails(k) ==
  /\ Sweeping(k)
  /\ Fault
  /\ \/ UNCHANGED board
     \/ FindCancel(Transitions(k)) # "none" /\ CancelIssue(k)
  /\ tool' = [tool EXCEPT !.todo = @ \ {k}, !.hard = TRUE]
  /\ UNCHANGED <<job, gate, failures, record, links, exit, runs, kills>>

CleanupEnds ==
  /\ tool.pc = "sweep" /\ tool.todo = {}
  /\ Exit(IF tool.hard THEN "cleanup1" ELSE "cleanup0")
  /\ UNCHANGED <<job, gate, failures, record, board, links, runs, faults, kills>>

\* --verify, in one step as it writes nothing: green when every recorded issue can
\* be read back, in whatever state it is, and for a record without any.
Verify ==
  /\ gate = "pass" /\ job.mode = "plan"
  /\ Start
  /\ \/ record.state = "written" /\ exit' = "verify0" /\ UNCHANGED faults
     \/ record.state # "written" /\ exit' = "verify1" /\ UNCHANGED faults
     \/ record.created # {} /\ Fault /\ exit' = "verify1"
  /\ UNCHANGED <<job, gate, failures, tool, record, board, links, kills>>

\* SIGKILL.  A create may be writing its record, which is then torn.
Kill ==
  /\ tool.pc # "idle"
  /\ kills < MaxKills /\ kills' = kills + 1
  /\ record' \in {record} \cup (IF tool.pc \in {"post", "ack"} THEN {Torn} ELSE {})
  /\ Exit("killed")
  /\ UNCHANGED <<job, gate, failures, board, links, runs, faults>>

----------------------------------------------------------------------------
Create == LiveRefused \/ LiveBegins \/ (\E n \in Posts : PostIssue(n) \/ PostRefused(n))
            \/ AckIssue \/ LoseAnswer \/ PostLink \/ LinkRefused \/ LiveEnds
Cleanup == CleanupBegins \/ CleanupRefused \/ (\E k \in DOMAIN board : SweepIssue(k) \/ SweepFails(k))
             \/ CleanupEnds
Next == (\E a \in Answers : Gate(a)) \/ Create \/ Cleanup \/ Verify \/ Kill

Spec == Init /\ [][Next]_vars

----------------------------------------------------------------------------
(***************************************************************************)
(* Properties                                                              *)
(***************************************************************************)
States == {"open", "cancel", "closed", "done"}

\* Types of the record, the board and the running tool.
TypeOK ==
  /\ gate \in {"none", "pass", "fail"}
  /\ tool.pc \in {"idle", "post", "ack", "sweep"}
  /\ record.state \in {"absent", "torn", "written"}
  /\ tool.created \cup record.created \subseteq DOMAIN board
  /\ tool.todo \subseteq (IF tool.pc = "sweep" THEN DOMAIN board ELSE Posts)
  /\ \A k \in DOMAIN board : board[k].state \in States /\ board[k].parent \in 0..(k - 1)
  /\ links \subseteq (DOMAIN board) \X (DOMAIN board)
  /\ exit \in {"none", "live0", "live1", "cleanup0", "cleanup1",
              "verify0", "verify1", "killed"}

\* Reference: the nodes can be numbered so that every edge goes up.
Numbered(nodes, edges) ==
  \E rank \in [nodes -> 1..Cardinality(nodes)] : \A e \in edges : rank[e[1]] < rank[e[2]]

Checked == (gate = "pass" \/ failures # {}) /\ "contract" \notin failures
Items == {Tree.items[i] : i \in DOMAIN Tree.items}

\* The depth-first search over depends_on and the walk up the parent chains
\* find a cycle exactly when there is one: no diamond is taken for a cycle and
\* no cycle hides behind an explored node.
GraphWalksExact ==
  Checked =>
    IF job.mode = "skeleton"
    THEN "acyclic" \notin failures
           <=> Numbered(Ids(Tree), UNION {(it.deps \cap Ids(Tree)) \X {it.id} : it \in Items})
    ELSE "plan_structure" \notin failures
           <=> /\ Cardinality(Ids(Tree)) = Len(Tree.items) /\ Tree.epic \notin Ids(Tree)
               /\ \A it \in Items : NoParent(it) \/ it.parent \in Ids(Tree) \cup {Tree.epic}
               /\ Numbered(Ids(Tree), {<<it.parent, it.id>> : it \in {i \in Items : ~NoParent(i) /\ i.parent \in Ids(Tree)}})
               /\ Tree.existing # "malformed"

Tops == {Null, Blank, Tree.epic}
Until(n) == {it \in Items : LastWith(Tree.milestones, it.milestone).order <= n}

\* A tree that passed the gate has items, every item hangs below the epic or
\* alone within three levels, its array order is an order of execution, and
\* each milestone can ship before the next begins.
AcceptedTreeSound ==
  gate = "pass" =>
    /\ Items # {}
    /\ \A it \in Items :
         \/ it.parent \in Tops /\ it.type # "Sub-task"
         \/ \E up \in Items : up.id = it.parent /\ up.parent \in Tops
    /\ job.mode = "skeleton" =>
         /\ \A i \in DOMAIN Tree.items :
              Tree.items[i].deps \subseteq {Tree.items[j].id : j \in 1..(i - 1)}
         /\ \A n \in DOMAIN Tree.milestones :
              \A it \in Until(n) : it.deps \subseteq {done.id : done \in Until(n)}

\* Reference: cancel one "x/.." or "." after the other.
Reduce[path \in Seq(STRING)] ==
  LET dots == {i \in DOMAIN path : path[i] = "."}
      ups == {i \in 2..Len(path) : path[i] = ".." /\ path[i - 1] \notin {".", ".."}}
  IN CASE dots # {} -> Reduce[RemoveAt(path, CHOOSE i \in dots : TRUE)]
       [] dots = {} /\ ups # {} ->
            LET i == CHOOSE i \in ups : TRUE IN Reduce[RemoveAt(RemoveAt(path, i), i - 1)]
       [] OTHER -> path

SamePlace(a, b) == Len(a) = Len(b) /\ \A i \in DOMAIN a : LowerCase(a[i]) = LowerCase(b[i])

\* Work anchored at or below a no-go zone, however its path is spelled, is
\* accepted only when the item names the zone and routes to a human at high effort.
ZonedWorkRouted ==
  (gate = "pass" /\ job.mode = "plan") =>
    \A it \in Items : \A a \in it.anchors : \A i \in DOMAIN job.map.zones :
      (\E m \in job.map.zones[i].members : \E p \in m.paths :
         /\ LowerCase(m.repo) = LowerCase(a.repo)
         /\ \E n \in 0..Len(Reduce[a.path]) : SamePlace(SubSeq(Reduce[a.path], 1, n), Reduce[p]))
      => /\ job.map.zones[i].id \in it.zones
         /\ it.tier1 = "needs-human" /\ it.effort \in {"high", "max"}

\* A plan that names an existing epic never makes a second one, and all its
\* L0 issues go under that epic.
AttachNeverDuplicates ==
  Attaches(Tree) =>
    \A k \in DOMAIN board : board[k].mine =>
      /\ board[k].type # "Epic"
      /\ board[k].type \in L0Types => board[k].parent = Old /\ board[Old].type = "Epic"

Recorded(id) == {k \in record.created : board[k].id = id}

\* A create that exits 0 has recorded exactly one issue for each selected item and
\* none for another, each sub-task under the issue of the item it names, the others
\* under the plan's epic, and every link between two of them in the direction
\* prerequisite blocks dependent.
BuiltAsPlanned ==
  exit = "live0" =>
    /\ \A k \in record.created : board[k].id \in {it.id : it \in Selected} \cup {Tree.epic}
    /\ \A it \in Selected :
         /\ Cardinality(Recorded(it.id)) = 1
         /\ \A k \in Recorded(it.id) :
              /\ it.type = "Sub-task" => board[k].parent \in Recorded(it.parent)
              /\ it.type # "Sub-task" /\ Tree.epic # Null =>
                   board[k].parent \in (IF Attaches(Tree) THEN {Old} ELSE Recorded(Tree.epic))
              /\ \A dep \in Selected : dep.id \in it.deps =>
                   \A p \in Recorded(dep.id) : <<p, k>> \in links

\* Every issue the tool made is placed on the board where its plan item says.
BoardMirrorsPlan ==
  \A k \in DOMAIN board : \A it \in Items :
    (board[k].mine /\ board[k].id = it.id /\ NoParent(it)) => board[k].parent = 0

\* A sweep moves only issues this tool made and recorded, never the attached
\* epic, and an issue only after every recorded child was tried.
SweepsOwnChildrenFirst ==
  [][\A k \in DOMAIN board : board'[k].state # board[k].state =>
       /\ board[k].mine /\ k \in record.created
       /\ \A c \in record.created : board[c].parent = k => c \notin tool.todo]_vars

\* A cleanup that exits 0 leaves no recorded issue open that the board offered
\* a way to cancel.
ExitZeroSwept ==
  exit = "cleanup0" =>
    \A k \in record.created :
      board[k].state # "open" \/ job.workflow \cap Range(CancelLike) = {}

\* The journal covers the board: an issue of this tool that no record lists is the one
\* whose answer is under way, or one for a call that failed or a run that was killed;
\* unless a kill tore the record itself.
Unrecorded == {k \in DOMAIN board : board[k].mine} \ record.created
JournalCoversBoard ==
  record.state # "torn" =>
    Cardinality(Unrecorded) <= faults + kills + (IF tool.pc = "ack" THEN 1 ELSE 0)

\* No run of the tool forgets a recorded issue, whether it creates again, aborts or
\* sweeps; only a kill can tear the record, and a torn record is never replaced.
JournalKept ==
  [][/\ record'.state = "written" => record.created \subseteq record'.created
     /\ record.state = "torn" => record' = record]_vars

=============================================================================
