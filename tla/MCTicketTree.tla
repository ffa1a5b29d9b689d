---------------------------- MODULE MCTicketTree ----------------------------
(***************************************************************************)
(* Small trees for TLC: families that vary one aspect exhaustively.        *)
(***************************************************************************)
EXTENDS TicketTree

MCMainline == [web |-> {<<"src", "pay", "a.ts">>, <<"src", "ui", "b.ts">>}, api |-> {<<"lib", "c.go">>}]
MCLower == [PAY |-> "pay", WEB |-> "web"]

Zone(id, members) == [id |-> id, members |-> members]
Member(repo, paths) == [repo |-> repo, paths |-> paths]
Map(zones) == [readable |-> TRUE, zones |-> zones]
PayMap == Map(<<Zone("shared-write", {Member("web", {<<"src", "ui", "..", "pay">>, <<"ops">>})})>>)
Maps == {
  PayMap, Map(<<>>), [readable |-> FALSE, zones |-> <<>>],
  Map(<<Zone("none", {Member("web", {<<"src">>})})>>),
  Map(<<Zone("shared-write", {})>>),
  Map(<<Zone("shared-write", {Member("web", {<<"src", "..">>})})>>),
  Map(<<Zone("shared-write", {Member("web", {<<"src">>})}), Zone("shared-write", {Member("api", {<<"lib">>})})>>)}

Basic(id, type, parent) ==
  [id |-> id, type |-> type, parent |-> parent, deps |-> {}, milestone |-> Null,
   repo |-> "web", complete |-> TRUE, effort |-> "low", tier1 |-> "single-repo-sequenced",
   zones |-> {"none"}, anchors |-> {}]

TreeOf(epic, items) == [epic |-> epic, existing |-> Null, items |-> items, milestones |-> <<>>]
Job(mode, tree) ==
  [mode |-> mode, tree |-> tree, map |-> PayMap, scope |-> "full", workflow |-> {"done", "cancel"}]
Three == {"a", "b", "c"}

\* Every dependency graph over three items.
DependencyShapes ==
  {TreeOf(Null, <<[Basic("a", "Task", Null) EXCEPT !.deps = x],
                  [Basic("b", "Task", Null) EXCEPT !.deps = y],
                  [Basic("c", "Task", Null) EXCEPT !.deps = z]>>) :
     x, y, z \in SUBSET Three}

\* Parent relations over three items, with a ghost, a blank and a duplicate id.
HierarchyShapes ==
  {TreeOf(e, <<Basic("a", "Story", x), Basic("b", s, y), Basic(id, t, z)>>) :
     e \in {Null, "E"}, id \in {"c", "a", "E", Blank}, s, t \in {"Story", "Sub-task"},
     x \in {Null, "E", "b", "c"}, y, z \in Three \cup {Null, Blank, "E", "ghost"}}

\* Two items in milestones whose ids and orders may be wrong.
MilestoneShapes ==
  {[TreeOf(Null, <<[Basic("a", "Task", Null) EXCEPT !.milestone = m, !.deps = x],
                   [Basic("b", "Task", Null) EXCEPT !.milestone = n, !.deps = y]>>)
      EXCEPT !.milestones = ms] :
     m, n \in {Null, "m1", "m2", "ghost"}, x \in {{}, {"b"}}, y \in {{}, {"a"}, {"b"}},
     ms \in {<<>>} \cup {<<[id |-> "m1", order |-> i], [id |-> k, order |-> j]>> :
                          i, j \in 0..3, k \in {"m1", "m2"}}}

MCSkeletonJobs ==
  {Job("skeleton", t) : t \in DependencyShapes \cup HierarchyShapes \cup MilestoneShapes
     \cup {TreeOf(Null, <<>>)}
     \cup {TreeOf(Null, <<[Basic("a", "Task", Null) EXCEPT !.repo = r]>>) : r \in {"web", "both", "shared", "ghost"}}}

Anchor(repo, path) == [repo |-> repo, path |-> path]
Anchors == {
  Anchor("web", <<"src", "pay", "a.ts">>), Anchor("web", <<"src", "ui", "..", "pay", ".", "a.ts">>),
  Anchor("web", <<"src", "ui", "b.ts">>), Anchor("web", <<"src">>), Anchor("web", <<"src", "PAY">>),
  Anchor("web", <<"..", "web", "src", "pay">>), Anchor("web", <<"/", "..", "src", "pay">>),
  Anchor("shared", <<"lib">>), Anchor("api", <<"lib", "c.go">>)}

\* One item, routed and anchored in every way.
RoutingPlans ==
  {Job("plan", TreeOf(Null, <<[Basic("a", "Task", Null) EXCEPT
       !.zones = z, !.tier1 = h, !.effort = f, !.anchors = as, !.repo = r, !.complete = full]>>)) :
     z \in SUBSET ZoneEnum, h \in Tier1, f \in {"low", "high", "urgent"}, r \in {"web", "both", "ghost"},
     as \in {{}} \cup {{x, y} : x, y \in Anchors}, full \in BOOLEAN}

MapPlans ==
  {[Job("plan", TreeOf(Null, <<[Basic("a", "Task", Null) EXCEPT !.anchors = {x}]>>)) EXCEPT !.map = m] :
     x \in Anchors, m \in Maps}

\* Trees worth building, in each scope and under each workflow.
Buildable ==
  {[TreeOf("E", <<Basic("s", "Story", "E"),
                  [Basic("t", "Task", p) EXCEPT !.deps = d],
                  [Basic("u", "Sub-task", "s") EXCEPT !.deps = {"t", "E"}]>>) EXCEPT !.existing = x] :
     p \in {"E", Null, Blank}, d \in {{}, {"s"}, {"t"}},
     x \in {Null, Blank, "epic", "other", "missing", "malformed"}}
  \cup {TreeOf(Null, <<Basic("f", "Feature", Null), Basic("g", "Bug", Null)>>)}

BuildPlans ==
  {[Job("plan", t) EXCEPT !.scope = sc, !.workflow = w] :
     t \in Buildable, sc \in {"full", "smoke"}, w \in {{"progress"}, {"done", "cancel", "progress"}}}

MCPlanJobs ==
  {Job("plan", t) : t \in HierarchyShapes \cup {TreeOf(Null, <<>>)}}
    \cup RoutingPlans \cup MapPlans \cup BuildPlans
=============================================================================
