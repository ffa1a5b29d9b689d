----------------------------- MODULE TreeChecks -----------------------------
(***************************************************************************)
(* The deterministic checks of internal/checks: which skeletons and which  *)
(* groomed plans treecheck accepts.  A tree is a record; a path is a       *)
(* sequence of segments whose first may be the root "/".                   *)
(*                                                                         *)
(* Checks that only advise (costs, widths, shared anchors, near-equal      *)
(* summaries, symbols) always pass and are left out.                       *)
(***************************************************************************)
EXTENDS Integers, Sequences, FiniteSets, SequencesExt

CONSTANTS
  Known,       \* repos.known of thresholds.yaml
  Lockstep,    \* repos.lockstep_marker
  RepoEnum,    \* the repos the contract admits
  MaxDepth,    \* sizing.max_depth
  Mainline,    \* repo -> the paths that exist on its origin/main
  Lower        \* segment -> its lower-case form, where that differs

ASSUME ReposAssumption == Lockstep \notin Known /\ MaxDepth \in Nat \ {0}
ASSUME MainlineAssumption ==
  \A r \in DOMAIN Mainline : \A p \in Mainline[r] : p \in Seq(STRING)

Null == "null"     \* a JSON null
Blank == ""        \* an empty string

L0Types == {"Story", "Task", "Feature", "Request", "Bug", "Test"}
ItemTypes == L0Types \cup {"Sub-task"}
EffortTiers == {"low", "medium", "high", "max"}
Tier1 == {"single-repo-sequenced", "needs-human"}
ZoneEnum == {"none", "shared-write"}

Ids(t) == {t.items[i].id : i \in DOMAIN t.items}
MilestoneIds(t) == {t.milestones[i].id : i \in DOMAIN t.milestones}

\* Maps keyed by an id keep the last item or milestone that has it.
WithId(seq, id) == {i \in DOMAIN seq : seq[i].id = id}
LastWith(seq, id) == seq[Max(WithId(seq, id))]
Item(t, id) == LastWith(t.items, id)

NoDuplicates(seq) == \A i, j \in DOMAIN seq : seq[i].id = seq[j].id => i = j
UniqueIds(t) ==
  /\ NoDuplicates(t.items)
  /\ t.epic \notin Ids(t)

----------------------------------------------------------------------------
(***************************************************************************)
(* Skeleton                                                                *)
(***************************************************************************)
Dependencies(t) ==
  [u \in Ids(t) |-> SetToSeq(
     Ids(t) \cap UNION {t.items[i].deps : i \in {j \in DOMAIN t.items : t.items[j].id = u}})]

Walks(nodes) == [color : [nodes -> {"white", "gray", "black"}], cyclic : BOOLEAN]

\* Mutant: a node stays gray once its edges are explored.
VisitKeepsGray(adj) ==
  LET visit[walk \in Walks(DOMAIN adj), u \in DOMAIN adj] ==
        LET Edge(w, v) == CASE w.cyclic \/ w.color[v] = "black" -> w
                            [] w.color[v] = "gray" -> [w EXCEPT !.cyclic = TRUE]
                            [] OTHER -> visit[w, v]
        IN FoldLeft(Edge, [walk EXCEPT !.color[u] = "gray"], adj[u])
  IN visit

\* The depth-first search from a node: a gray neighbour closes a cycle.
Visit(adj) ==
  LET visit[walk \in Walks(DOMAIN adj), u \in DOMAIN adj] ==
        LET Edge(w, v) == CASE w.cyclic \/ w.color[v] = "black" -> w
                            [] w.color[v] = "gray" -> [w EXCEPT !.cyclic = TRUE]
                            [] OTHER -> visit[w, v]
        IN [FoldLeft(Edge, [walk EXCEPT !.color[u] = "gray"], adj[u]) EXCEPT !.color[u] = "black"]
  IN visit

Acyclic(t) ==
  LET adj == Dependencies(t)
      Start(w, item) == IF w.cyclic \/ w.color[item.id] # "white" THEN w
                        ELSE Visit(adj)[w, item.id]
      white == [color |-> [u \in Ids(t) |-> "white"], cyclic |-> FALSE]
  IN ~FoldLeft(Start, white, t.items).cyclic

\* epicID != "" && pid == epicID
IsEpic(t, id) == t.epic \notin {Null, Blank} /\ id = t.epic
Resolves(t, parent) == parent \in Ids(t) \/ IsEpic(t, parent)

\* The type-versus-parent rules that both modes share, for a parent that is set.
LegalParent(t, item) ==
  IF item.type = "Sub-task"
  THEN ~IsEpic(t, item.parent) /\ Item(t, item.parent).type \in L0Types
  ELSE IsEpic(t, item.parent)

SkeletonParent(t, item) ==
  IF item.parent = Null THEN item.type # "Sub-task"
  ELSE Resolves(t, item.parent) /\ LegalParent(t, item)

ItemMilestone(t, item) ==
  IF t.milestones = <<>> THEN item.milestone = Null
  ELSE item.milestone \in MilestoneIds(t)

\* Exactly 1..N, each once.
MilestoneOrders(t) ==
  {t.milestones[i].order : i \in DOMAIN t.milestones} = 1..Len(t.milestones)

HierarchyLegal(t) ==
  /\ UniqueIds(t)
  /\ NoDuplicates(t.milestones)
  /\ MilestoneOrders(t)
  /\ \A i \in DOMAIN t.items :
       /\ t.items[i].deps \subseteq Ids(t)
       /\ SkeletonParent(t, t.items[i])
       /\ ItemMilestone(t, t.items[i])

\* Every prerequisite comes before its item in the array.
OrderConsistent(t) ==
  \A i \in DOMAIN t.items : \A dep \in t.items[i].deps \cap Ids(t) : Max(WithId(t.items, dep)) < i

\* The milestone order of each item whose milestone is declared.
MilestoneOrderOf(t) ==
  LET placed == {i \in DOMAIN t.items : t.items[i].milestone \in MilestoneIds(t)}
  IN [id \in {t.items[i].id : i \in placed} |->
        LastWith(t.milestones, t.items[Max(placed \cap WithId(t.items, id))].milestone).order]

\* Mutant: the comparison is the other way round.
MilestoneShippableSwapped(t) ==
  \A i \in DOMAIN t.items : \A dep \in t.items[i].deps \cap DOMAIN MilestoneOrderOf(t) :
    t.items[i].id \in DOMAIN MilestoneOrderOf(t)
      => MilestoneOrderOf(t)[t.items[i].id] <= MilestoneOrderOf(t)[dep]

\* No dependency points forward across a milestone boundary.
MilestoneShippable(t) ==
  LET order == MilestoneOrderOf(t) IN
  \A i \in DOMAIN t.items : \A dep \in t.items[i].deps \cap DOMAIN order :
    t.items[i].id \in DOMAIN order => order[dep] <= order[t.items[i].id]

ItemLevel(item) == IF item.type = "Sub-task" THEN 3 ELSE 2
RepoKnown(repo) == repo = Lockstep \/ repo \in Known

SizingSane(t) ==
  \A i \in DOMAIN t.items :
    RepoKnown(t.items[i].repo) /\ ItemLevel(t.items[i]) <= MaxDepth

SkeletonContract(t) ==
  /\ t.items # <<>>
  /\ \A i \in DOMAIN t.items : t.items[i].type \in ItemTypes /\ t.items[i].repo \in RepoEnum

\* ValidateSkeleton: the names of the checks that fail.
SkeletonFailures(t) ==
  IF ~SkeletonContract(t) THEN {"contract"}
  ELSE {c \in {"acyclic", "hierarchy_legal", "order_consistent", "milestone_shippable", "sizing_sane"} :
         ~ CASE c = "acyclic" -> Acyclic(t)
             [] c = "hierarchy_legal" -> HierarchyLegal(t)
             [] c = "order_consistent" -> OrderConsistent(t)
             [] c = "milestone_shippable" -> MilestoneShippable(t)
             [] c = "sizing_sane" -> SizingSane(t)}

----------------------------------------------------------------------------
(***************************************************************************)
(* Plan                                                                    *)
(***************************************************************************)
NoParent(item) == item.parent \in {Null, Blank}

\* The parent edges between items, as the loop walk gets them.
ParentEdges(t) ==
  LET edge == {i \in DOMAIN t.items : LET it == t.items[i] IN
                 /\ ~NoParent(it) /\ it.parent \notin {it.id, t.epic}
                 /\ it.parent \in Ids(t)}
  IN [u \in {t.items[i].id : i \in edge} |->
        t.items[Max(edge \cap WithId(t.items, u))].parent]

\* A finished walk marks its whole path done.
Settle(walk) ==
  [walk EXCEPT !.mark = [u \in DOMAIN walk.mark |->
     IF walk.mark[u] = "walking" THEN "done" ELSE walk.mark[u]]]

\* One walk up the parent chain from u, over the nodes of the plan.
Follow(parent, nodes) ==
  LET follow[walk \in [mark : [nodes -> {"unvisited", "walking", "done"}], loops : BOOLEAN],
             u \in nodes] ==
        LET here == [walk EXCEPT !.mark[u] = "walking"] IN
        CASE u \notin DOMAIN parent -> here
          [] u \in DOMAIN parent /\ here.mark[parent[u]] = "done" -> here
          [] u \in DOMAIN parent /\ here.mark[parent[u]] = "walking" -> [here EXCEPT !.loops = TRUE]
          [] OTHER -> follow[here, parent[u]]
  IN follow

LoopFree(t) ==
  LET Start(w, item) == IF w.mark[item.id] # "unvisited" THEN w
                        ELSE Settle(Follow(ParentEdges(t), Ids(t))[w, item.id])
      fresh == [mark |-> [u \in Ids(t) |-> "unvisited"], loops |-> FALSE]
  IN ~FoldLeft(Start, fresh, t.items).loops

\* epic.existing_key, trimmed: blank counts as null.
Attaches(t) == t.epic # Null /\ t.existing \notin {Null, Blank}
LegalKey(key) == key # "malformed"

PlanStructure(t) ==
  /\ UniqueIds(t)
  /\ \A i \in DOMAIN t.items : LET it == t.items[i] IN
       NoParent(it) \/ (it.parent # it.id /\ Resolves(t, it.parent))
  /\ LoopFree(t)
  /\ Attaches(t) => LegalKey(t.existing)

\* A parent that does not resolve is left to PlanStructure.
PlanHierarchyLegal(t, item) ==
  IF NoParent(item) THEN item.type # "Sub-task"
  ELSE Resolves(t, item.parent) => LegalParent(t, item)

\* fields.why, definition_of_done, the analysis and every criterion are filled in.
FieldsPresent(item) == item.complete

SingleRepo(item) ==
  IF item.repo = Lockstep THEN item.tier1 = "needs-human" ELSE item.repo \in Known

\* filepath.Clean: "." goes, ".." takes the segment before it with it.
Clean(path) ==
  LET Step(out, s) ==
        CASE s = "." -> out
          [] s = ".." /\ out # <<>> /\ Last(out) \notin {"..", "/"} -> Front(out)
          [] s = ".." /\ out # <<>> /\ Last(out) = "/" -> out
          [] OTHER -> Append(out, s)
  IN FoldLeft(Step, <<>>, path)

Escapes(cleaned) == cleaned # <<>> /\ cleaned[1] \in {"/", ".."}

\* parseAnchor: a bare repo and a path that stays inside it.
WellFormed(anchor) ==
  /\ anchor.repo # Blank
  /\ anchor.path # <<>>
  /\ ~Escapes(Clean(anchor.path))

\* origin/main of the repo resolves; a missing ref is a "no" as well.
OriginMainAvailable(repo) == repo \in DOMAIN Mainline

\* origin/main:<path> names a file or a directory of the last-pushed mainline.
AnchorOnOriginMain(repo, path) == \E p \in Mainline[repo] : IsPrefix(path, p)

AnchorExists(anchor) ==
  /\ WellFormed(anchor)
  /\ OriginMainAvailable(anchor.repo)
  /\ AnchorOnOriginMain(anchor.repo, Clean(anchor.path))

LowerCase(s) == IF s \in DOMAIN Lower THEN Lower[s] ELSE s
Lowered(path) == [i \in DOMAIN path |-> LowerCase(path[i])]

\* parseZoneMember: braces and "+" are already expanded into a set of paths.
LegalMember(m) ==
  /\ m.repo # Blank /\ m.paths # {}
  /\ \A p \in m.paths : Clean(p) # <<>> /\ ~Escapes(Clean(p))

\* "none" is what an item says that is in no zone.
LegalZone(id) == id \in ZoneEnum \ {"none"}

\* loadNoGoZones: one bad zone or member fails the whole map.
MapLoads(map) ==
  /\ map.readable
  /\ NoDuplicates(map.zones)
  /\ \A i \in DOMAIN map.zones :
       /\ LegalZone(map.zones[i].id)
       /\ map.zones[i].members # {}
       /\ \A m \in map.zones[i].members : LegalMember(m)

\* Mutant: the prefix is matched against the path as it was written.
AnchorInZoneRaw(anchor, zone) ==
  \E m \in zone.members : \E p \in m.paths :
    /\ LowerCase(m.repo) = LowerCase(anchor.repo)
    /\ IsPrefix(Lowered(Clean(p)), Lowered(anchor.path))

\* Exact match or a prefix at a segment boundary, whatever the case.
AnchorInZone(anchor, zone) ==
  \E m \in zone.members : \E p \in m.paths :
    /\ LowerCase(m.repo) = LowerCase(anchor.repo)
    /\ IsPrefix(Lowered(Clean(p)), Lowered(Clean(anchor.path)))

\* A map that does not load fails every item.
ZoneRouting(item, map) ==
  /\ MapLoads(map)
  /\ item.zones \ {"none"} # {} => item.tier1 = "needs-human" /\ item.effort \in {"high", "max"}
  /\ \A a \in item.anchors : WellFormed(a) =>
       \A i \in DOMAIN map.zones :
         AnchorInZone(a, map.zones[i]) => map.zones[i].id \in item.zones

PlanContract(t) ==
  /\ t.items # <<>>
  /\ \A i \in DOMAIN t.items : LET it == t.items[i] IN
       /\ it.type \in ItemTypes /\ it.repo \in RepoEnum
       /\ it.effort \in EffortTiers /\ it.tier1 \in Tier1 /\ it.zones \subseteq ZoneEnum

\* PrecheckPlan: the names of the checks that fail for some item.
PlanFailures(t, map) ==
  IF ~PlanContract(t) THEN {"contract"}
  ELSE {c \in {"plan_structure", "hierarchy_legal", "fields_present", "single_repo",
               "anchors_exist", "zone_routing"} :
         \E i \in DOMAIN t.items : LET it == t.items[i] IN
           ~ CASE c = "plan_structure" -> PlanStructure(t)
               [] c = "hierarchy_legal" -> PlanHierarchyLegal(t, it)
               [] c = "fields_present" -> FieldsPresent(it)
               [] c = "single_repo" -> SingleRepo(it)
               [] c = "anchors_exist" -> \A a \in it.anchors : AnchorExists(a)
               [] c = "zone_routing" -> ZoneRouting(it, map)}
=============================================================================
