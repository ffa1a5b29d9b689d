SPECIFICATION Spec
CONSTANTS
  Known = {"web", "api"}
  Lockstep = "both"
  RepoEnum = {"web", "api", "shared", "both"}
  MaxDepth = 3
  Mainline <- MCMainline
  Lower <- MCLower
  SkeletonJobs <- MCSkeletonJobs
  PlanJobs <- MCPlanJobs
  Answers = {"honest", "spawn_error", "junk", "other_plan"}
  MaxRuns = 3
  MaxFaults = 1
  MaxKills = 1
INVARIANTS
  TypeOK
  GraphWalksExact
  AcceptedTreeSound
  ZonedWorkRouted
  AttachNeverDuplicates
  BuiltAsPlanned
  ExitZeroSwept
PROPERTIES
  SweepsOwnChildrenFirst
CHECK_DEADLOCK FALSE
