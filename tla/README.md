# Radsvinn, verified: the planner's lifecycle in TLA+

Radsvinn turns a free-text request into a tree of tracker issues. A model decomposes it into
a *skeleton* (the shape), a human approves the shape, the model grooms it into a *plan*, a
human approves the content, and a deterministic tool writes the tree to Jira. This directory
holds TLA+ models of that program, TLC configurations that check them on small instances, and
theorems proved with TLAPS for every value of the constants.

Source paths below are relative to the repository root.

## 1. Inventory

| component | state | operations | talks to | what is hard |
|---|---|---|---|---|
| plan store `service/state.mjs` | a Map of plan records, one JSON file each | `create`, `update`, `transition` (compare-and-swap), `load` | file system | memory set before the file is written; transient statuses found at boot |
| HTTP handlers `service/server.mjs` | none of their own | `POST /plan`, `approve-shape`, `create`, `reject`, `retry`, `cancel`, `surface`; lists, summary, audit | store, gates, workers, audit | every handler checks a status, awaits its body, then acts |
| background workers `service/server.mjs` | loop counters, a snapshot of the plan taken at the start | phase 1, groom, create, verify-recovery, cancel | engine, gates, breakers, store | every exit must leave the transient status, exactly once; bounded regeneration |
| engine `service/engine.mjs`, `service/runtimes/` | artifacts in the run directory, an agent session | `phase1`, `groom`, `create`, `verify`, `cleanup`, `search` | agent CLI, tracker tool | timeouts, artifacts left by a failed call, lost sessions |
| tracker tool `tools/create-tree.mjs` | `created-record.json`, a write-ahead journal | `--live`, `--verify`, `--cleanup`, `--search` | Jira | killed at any moment, lost responses, half-written trees, its parent may die first |
| gates `service/gates.mjs`, `internal/checks` | none | skeleton and plan verdicts | the Go checker | fail closed on every malformed answer; no timeout |
| breakers `service/breakers.mjs`, `service/openrouter-meter.mjs` | daily ledger, telemetry lock, serialised queue | `checkDaily`, `checkPlanBudget`, `recordSpendNanos`, lock | file system, metering proxy | concurrent spend, a lock racing a known cost, midnight |
| Slack bridge `service/slack.mjs` | watch map, Socket Mode connection; delivery cursor kept by the service | polls, clicks, boot resume, reconnect | service, Slack | at-least-once announcements, cursor races, reconnects |
| supervisor `service/supervise.mjs` | two children, backoff, restart times | start, restart, give up, shut down | the two processes | restart budget, one death reported twice, shutdown |
| audit `service/audit.mjs` | append-only ledger | append, paged read | file system | written after the change it records |
| dashboard `dashboard/` | sessions, role cache, rate buckets, planner-client cache and semaphore | login, proxying reads and mutations | planner, GitHub | roles re-verified across an await, cache invalidation |
| Go checks `internal/checks` | none | hierarchy, cycles, ordering, sizing, zones | git objects | graph algorithms |
| demo, harness, deploy, prompts, contracts | none that matters | scripts and data | | |

What makes each of the stateful parts correct:

- *store and handlers*: one worker per plan, no status acted on that was checked before an
  await, final statuses stay final, two human gates before any write.
- *workers and engine*: every phase ends, a retry resumes the phase that failed, regeneration
  is bounded over retries and restarts, a failed phase donates no artifact to a retry.
- *tracker tool*: a journal that can be read covers the tracker, one that cannot blocks every
  further create; a written tree is never written again, a partial tree is never promoted, an undo
  in which an issue failed is never claimed.
- *breakers*: every billed unit is recorded or known to be due, no call starts beyond a cap, an
  unknown cost locks, one failed write never stops the accounting. A crash is the gap: it locks
  nothing.
- *bridge*: no status is forgotten, restart or not; the cursor never runs ahead of what was seen,
  but for the one a refused placeholder leaves (finding 13).
- *gates and Go checks*: an accepted tree is a tree, can be executed in its order, and nothing
  inside a no-go zone passes unrouted.
- *dashboard*: no request writes with a role that was lost, no stale read after a mutation,
  every request is answered.
- *supervisor*: no duplicate child, a crash loop is given up and only a crash loop is, nothing
  starts during a shutdown, boot and shutdown end.
- *audit*: nothing is recorded that did not happen, a fault costs few records, a reader misses none.

## 2. Modules

| module | models |
|---|---|
| `PlanService.tla` | one plan: store, handlers, workers, create-tree child, crash and restart |
| `PlanLifecycle.tla` | what the service promises of one plan: the abstract specification |
| `MCPlanService.tla` | instances of `PlanService` for TLC |
| `PlanServiceProofs.tla` | theorems about `PlanService`: types, workers, gates |
| `PlanTreeProofs.tla` | theorems about its tree (copies, journal, `created`, `cancelled`, the handle), and that `PlanService` implements `PlanLifecycle` |
| `SlackBridge.tla` | the bridge's handlers, poller and crashes; the service is `PlanLifecycle` (INSTANCE) |
| `OpenRouterMeter.tla` | the metering proxy of one engine call, as operators on a record |
| `Spend.tla` | ledger, lock, caps and the workers that pay; extends the meter |
| `TreeChecks.tla` | the Go checks as operators |
| `TicketTree.tla` | the gate and the tracker tool on a board with types, parents and a workflow; extends the checks |
| `MCTicketTree.tla` | families of small trees |
| `Dashboard.tla`, `MCDashboard.tla` | dashboard server, session, role cache and planner client |
| `Supervisor.tla` | the container's supervisor and its two children, on a clock |
| `SocketMode.tla` | the bridge's Socket Mode connection |
| `SlackBridgeProofs.tla`, `SpendProofs.tla`, `TicketTreeProofs.tla`, `DashboardProofs.tla`, `SupervisorProofs.tla`, `SocketModeProofs.tla` | theorems about the module they are named after |

`PlanService` knows a tree as a row of issues and a gate as a verdict; `TicketTree` opens both up
and leaves the service out. `PlanService` lets the breakers answer anything; `Spend` says what
they answer. `SlackBridge` needs of the service only what `PlanLifecycle` promises, and
`ImplementsLifecycle` shows that the service keeps it.

### PlanService

Node runs one callback at a time, so code between two awaits is atomic. That fixes the
granularity of the actions:

- A handler is two actions. `Arrive` is the early status check and the start of the body read
  (`readJsonBody`); the second action (`ApproveShape`, `Create`, `Reject`, `Retry`, `Cancel`)
  is everything after it: validation, compare-and-swap, response and dispatch of the worker.
  Between the two, any other request or worker step may happen. `Refuse` is every 4xx answer
  of the second half. `POST /plan` and `surface` have nothing to check before the read and are
  one action each. An edit of the skeleton has two further awaits (staging and the gate); the
  verdict depends on nothing but the content, so they are folded into the commit.
- A worker is a slot with a program counter at the await it is suspended in: `check`
  (breakers; also the grounding fetch), `engine`, `gate`, `search`, `guard`, `live`, `verify`,
  `sweep`. `runPhase1Worker` is `Check`, `Phase1Returns` or `EngineThrows`, `SpendThrows` or
  `Phase1Gated`; groom alike; create is `CreateGuard`, `CreateTimeout` or `CreateExited`,
  `CreateVerified`; verify-recovery is `Verified`; cancel is `Sweep` and `CancelDone`.
- The create-tree child is a process beside the service: `ChildBoot` (the record guard),
  `ChildInit` (the requests that read epic and project, then the empty write-ahead record),
  `ChildPost` and `ChildAck` for each issue in tree order, `ChildTail` (links, comments, the final
  record). A POST commits on the tracker in one step and its response is journalled in another, so
  a kill or a lost response can fall between them. Since guard and first write are two steps, two
  children may both be past the guard.
- A kill may fall into any write of the record, the one in the tool's catch block included
  (`KilledRecords`). What it leaves is `Torn`: a file that parses to nothing, so its length is 0.
- A sweep moves a recorded issue, or skips it when the board offers no matching transition
  (`Sweep`); only an issue it failed on stays `open`. `CancelDone` is exit 0 when none did: the
  plan is then `cancelled`, although a skipped issue may be open still. The next `Cancel` looks
  again at whatever was not moved.
- `Restart` is a crash at any moment: handlers and workers vanish, the plan is read back from
  its file and corrected (`State.load`), the child dies with the service or, if
  `OrphansSurvive`, goes on alone; an edited skeleton may be renamed but not yet saved.

State correspondence: `mem` and `disk` are the plan record in the Map and in its file; of the
record the model keeps `status`, `skeleton` (`skel`), the two gate verdicts, the `created`
marker and `regen_counts`. `skelFile`, `planFile` are the artifacts in the run directory, a
plan being identified with the shape it details; `session` is the shape the agent session
knows. `rec` is `created-record.json` (absent, readable with its length, or torn), `copies`
the tracker, `swept` what cleanups did with each issue (open, moved, skipped). `approved`,
`createOK`, `regens` and `phase` are history variables: the shape approved at gate 1, the approval
at gate 2, the regenerations each planning phase made, the transient status entered last.

`Workers` are slots, not a pool of the program: the code starts a worker unconditionally. With
one slot more than the code ever uses, a second worker would show (`OneWorker` is checked, and
its proof needs no bound on the slots).

Abstractions: a skeleton is one of `Shapes`, and the deterministic gate passes exactly
`GoodShapes`; the plan gate, the breakers and the verify tool answer anything. A plan file that
throws is one fault of `MaxFaults`; the handlers' own `.catch` after a worker is not reached
because workers catch everything but a second throw. Audit entries, responses and logs are left
out. An epic is one more issue of the tree.

### PlanLifecycle

Five variables and ten actions: the transitions of the header comment of
`service/server.mjs:8-26`, with the two approvals as history and the undo handle. It knows
nothing of requests, workers, files or crashes. `ImplementsLifecycle` in `PlanService` is the
refinement: `stage` is the status, `stalled` the phase entered last, `handle` the marker.

### SlackBridge

One plan, since the bridge's plans share nothing but the page `GET /plans` returns (`Crowded`
lets the plan fall off it). The service moves on its own (`WorkerStep`, `ActElsewhere`). A wizard
submission is `Submit`, `SubmissionAnswered` (the placeholder is shown, refused, or the call throws;
a refusal is not looked at and the submission goes on), `SubmissionSaved`; a click is `ClickAccepted` (the
POST takes effect) and `ClickAnswered` (a new watch entry); the poller is `PollStart`, `PollGet`,
`PollPost`, `PollSave`. `poll.live` says whether the entry object the poller holds is still the
one in the map, which is what its race guard is about. `surface` and `cursor` are in the plan
record and survive `Crash`; `Boot` is `resume`. A call that fails has no effect, or has one and
loses its answer. `seen`, `visit`, `posts`, `crossed` and `untold` are history; `untold` marks the
cases in which the code knowingly gives an announcement up: a plan off the page, a list that could
not be read, a plan without a cursor, a cancel of a created plan made elsewhere.

### Spend and OpenRouterMeter

A worker per plan: `Start` tests both breakers and starts the call in one step (the code has no
await between them), `Requests` and `Answered` are the proxy, `AgentExits`, `Finalize` close and
reconcile, then the record waits in `queue` (`spendQueue`), `RecordSpend` runs the next update
and `Persist` adds the cost to the plan and owes the lock for a call whose cost is not exact. A
request costs one unit and is billed when it is forwarded (`paid`). The lock is set in memory
first and its file may fail. `Crash` loses memory, the queue and the proxies.

`todayUtc` is asked for the read and again for the write of the ledger, so a midnight between them
carries the old day's total into the new day's file: `RecordSpend` may cross it, and `extra` is
what was counted twice that way.

What the code does not promise, and the model shows as it is: a crash during a call forgets what
was billed in it without a lock (`lost`); a crash also drops a lock whose file could not be written,
which was held in memory only (`unlocked`); a call straight to Anthropic that fails reports no cost
and is not a metered call, so it is outside `paid`; a corrupt or overflowing ledger locks and is
left out.

### TreeChecks and TicketTree

A tree is a record with an epic, items in array order and milestones. `SkeletonFailures` and
`PlanFailures` are the names of the checks that fail, in the way the code computes them: maps
keyed by id keep the last item, `Visit` is the coloured depth-first search, `Follow` and `Settle`
the parent walk, `Clean` is `filepath.Clean` on segments. Checks that only advise always pass and
are left out. The contract is reduced to what the other checks see: a non-empty list and enum
values. The walks are recursive functions on the state of the walk, so that theorems can use the
module.

`TicketTree` takes a job (a tree, its coupling map, a scope, a board workflow) through `Gate`,
where the checker may also crash, print junk or answer for another plan, and then runs the tool up
to `MaxRuns` times. A create is `LiveBegins` (write-ahead record), `PostIssue` and `AckIssue` per
issue, `PostLink` per link, `LiveEnds`; it ends early in `LiveRefused`, `PostRefused`,
`LoseAnswer`, `LinkRefused` or `Kill`, which may tear the record. A cleanup is `CleanupBegins`,
`SweepIssue` or `SweepFails` per issue, `CleanupEnds`. `Verify` is one step since it writes
nothing; like the code it is green for issues that were swept and for an empty record. An item's
`depends_on` is a set here, so links may be posted in any order. What a loop has still to go through
is a set of positions or keys as well (`todo`), and `Turn` and `CancelOrder` say which comes next; a
plan's verdict must name its items, so blank or repeated ids stop it at the gate (`PlanItemIDs`).

### Dashboard

One user with one session and one plan whose `version` counts its changes. A request is split at
its awaits: `Arrive` (session, refusals, cached role), `GitHubAnswers` and `RecheckReturns` or
`RecheckFails`, `BodyRead`, then calls to the planner: `queued` in the semaphore, `flying`,
`served`, answered by `CallAnswered` or `CallFails` (a transport failure, evicted from the
cache, or `Garbled`, a GET answered with something that is not JSON: it stays cached, and a
reject goes on from it); `await` is a request on its own or another's
cached promise (`from`). `Kinds` are the three ways a route is guarded: a read, a mutation on the
cached role (reject, retry), a mutation behind a forced check (approve-shape, create, cancel).
`lost` and `old` record at arrival whether the user had lost the role, and for longer than the
role TTL; `floor` is the version a read must show.

As in the code: a logout does not stop what is in flight; a failed old GET evicts the newer entry
of its key, which costs a shared call and nothing else; a demoted user's rechecks may return out
of order and put an older role back into the session, for one TTL. `RolesAge` therefore only
happens while no recheck is in flight (its timeout is seconds, the TTL fifteen minutes). Creating
a plan is another plan's POST and not modelled.

### Supervisor

A tick is one second, and `Tick` waits until nothing is due (`Due`): an event to handle, a timer
that has run out, a probe. So a handler is never late by a tick, and the order of what falls into
one second is open. `Dies` is the end of a process, `HandleDeath` the callback, at which the
model's `deathHandled` makes one death of the 'error' and the 'exit' event of a failed spawn;
`RestartTimer` and `StartChild` start it again. The health loop is `ProbeAnswered`,
`Healthy`, `Unhealthy`, `NextProbe`; only a server that runs can answer, but it may be dead by the
time the loop resumes from the answer, and the loop does not look. `Shutdown` and `ExitZero` are
the two ends of `shutdown()`, `fatalExit` is part of the two steps that call it. Ages and uptimes stop counting
where the code no longer compares them. `deaths` is history: the ages of the real deaths of a
child, noticed or not; `lives` counts how often in a row a child died within `Tight` of its start.

### SocketMode

`openSocket` is a call in flight (`calls`) that ends in `Opened`, `Refused` (an answer without a
URL) or `Throws`. Timers, frames and closes go on meanwhile, so calls overlap. A socket is
connecting, open, closing or gone; `Close` is its listener, which schedules a reconnect only for
the current one (`ws`). `Stop` is `stop()`. The delays are left out.

## 3. Runs

| run | bounds | distinct states | shows |
|---|---|---|---|
| `plan_safety` | 2 requests, 2 regenerations, 2 crashes, 1 lost response, writes succeed, children die with the service | 0.24 million | nine invariants, the handle, the end of every phase, the refinement of `PlanLifecycle` |
| `plan_faults` | 2 requests, 1 regeneration, 1 crash, 1 failing write, orphans survive | 3.6 million | the shape gate holds all the same |
| `slack_delivery` | 8 status changes, 1 crash, 1 failed call, others act too, a crowded page | 1.5 million | announcements and cursor |
| `spend_ledger` | 2 plans, 2 requests a call, daily cap 1, plan cap 2, 2 days, 1 crash, 1 failing write | 0.68 million | ledger, lock and caps |
| `tree_write` | the families of `MCTicketTree`, 3 runs of the tool, 1 failed call, 1 kill | 0.30 million | checks, creation and sweep |
| `dashboard_requests` | a read, a reject and a gated mutation, 1 slot, 1 change, 1 failed call | 0.50 million | roles, cache and slots |
| `supervision` | 2 restarts in 7 ticks, delays 1 and 2, reset after 3, health 2, grace 1 | 0.14 million | restarts, boot and shutdown |
| `socket_reconnects` | 3 sockets, 2 calls in flight, 1 that throws | 1 thousand | one live socket, always trying |
| `titles_change` | 2 requests, no crash | | finding 1 |
| `gate_skipped` | 1 request, 1 failing write | | finding 3 |
| `orphan_overwritten` | 1 crash, orphans survive | | finding 4 |
| `reconnect_throws` | as `socket_reconnects` | | finding 8 |

The bounds, and why they are enough:

- *PlanService.* Shapes `g1`, `g2` pass the gate and `bad` does not (`plan_safety` has only `g1`
  and `bad`: none of its properties tells two good shapes apart); the tree has two issues (the
  first and the last are different, and there is a state in which the tree is half written); two
  worker slots. A race needs two requests on one plan and no more, since a third finds what the
  second found; the code has no state that counts crashes, lost responses or failing writes, and one of
  each already separates every pair of await points (`plan_safety` has two crashes, so that a record
  torn by one meets another); two regenerations are the program's
  own `MAX_REGEN_ATTEMPTS`. The plan may be created, fail, be retried and cancelled without any
  bound on the number of rounds.
- *SlackBridge.* Eight status changes take a plan through its whole life with two visits to
  a status, so that a cursor can be equal to a later status; the code remembers one status only.
- *Spend.* Two workers are the smallest number that share the ledger; a call of two requests can
  be known in part; a daily cap below one call and a plan cap of one call let both be passed.
- *TicketTree.* The families vary one aspect each: all dependency graphs over three items; parent
  relations over three items, where the first may hang under nothing, the epic or another item, the
  others also under a blank, a ghost or themselves, with a blank and a duplicate id; all milestone
  assignments of two items over right and wrong orders; all routings of one item with up to two
  anchors; seven coupling maps; and buildable trees in each scope, under a workflow that can cancel
  and one that cannot. Three items are a smallest cycle behind a branch and a smallest chain below
  the epic. A create, a second one and a cleanup are three runs.
- *Dashboard.* One request of each kind meets one slot, so one call flies, one queues, one shares
  a promise. Other mixes (two mutations of either kind with a read, two reads with either) were
  checked with the same result and are not repeated in the run.

- *Supervisor.* The smallest numbers in the order of the code's own: a delay below the cap and one
  at it, a reset after more than a tight life, a window that holds as many tight lives as may be
  restarted (`TightAssumption`; it holds of 5 restarts, 300 s, 30 s and 60 s with lives of 29 s), and
  that old deaths leave before the next one.
- *SocketMode.* Two calls overlap, and three sockets are the current one, the one it replaced and the
  one that comes next; more calls only repeat the replacement.

Symmetry (requests, worker slots, the two passing shapes) is used in `plan_faults` and the three
violation runs of `MCPlanService`, none of which asks for liveness. Deadlock is checked in the runs
of `MCPlanService`. The other runs end where their bounded humans, requests or tool runs end, so
there it is off; `Settles`, `EveryRequestAnswered`, `Delivered` and `NothingHangs` ask whether
anything is stuck.

### The properties

- `OneWorker`: racing requests never leave a plan with two workers, or one that runs another
  status than the plan's.
- `TransientHasWorker`: a plan never dangles in `breaking_down`, `grooming`, `creating` or
  `cancelling`, crash included.
- `TwoHumanGates`, `CreateUsesGatedShape`: nothing is groomed, spawned or written that the two
  approvals and the deterministic gate have not let through.
- `JournalCoversTracker`, `NoDuplicateTree`: a journal that can be read knows every issue but those
  whose response was lost; a retry never writes an issue again but for those. A torn journal knows
  nothing, and what keeps the tree single is that no create begins over it.
- `CreatedIsComplete`, `CancelledIsSwept`: `created` is claimed for a whole journalled tree,
  `cancelled` only when the record is readable and the last sweep failed on none of its issues. That
  is less than "nothing is open": an issue passed over for want of a transition does not count as a
  failure in the code, and stays as it was.
- `HandleSurvives`: a marker is never cleared, and the record it names stays readable and whole.
  Before there is one, a kill that cuts a write short may cost the whole record; nothing is written
  after that, and the issues must be found by hand.
- `RegenBounded`: the record counts every regeneration a phase ever made and never passes
  `MAX_REGEN_ATTEMPTS`; a worker that counted from zero after a retry would break it.
- `PhasesEnd`, `ImplementsLifecycle`: progress and refinement.
- `FinalIsFinal`, `ResumesFailedPhase` are proved (section 4) and in no run: a rejected or cancelled
  plan stays, a retry resumes the phase that failed.
- `CursorNotAhead`, `NothingForgotten`, `DuplicatesBounded`, `Delivered`: whatever crashed, failed
  or crossed, the cursor names only what was seen (but for the `breaking_down` of a refused
  placeholder, finding 13), a status nobody saw yet is still to be announced and in the end is, and
  every message too many has a crash, a fault or a crossing click to account for it.
- `UnknownSpendLocks`: billed is recorded, due, or was due from a call that a crash cut off, or no
  call starts any more. It claims no lock for a crash, since the code sets none, and nothing after a
  crash has dropped a lock held in memory only.
  `DailyOvershoot`, `PlanOvershoot`: how far the caps can be passed by the calls already running.
  `Settles`: no record wedges the queue.
- `GraphWalksExact`: the two hand-written walks against a reference (a numbering of the nodes).
  `AcceptedTreeSound`: what the single checks together mean for the tree. `ZonedWorkRouted`: no
  spelling of an anchor dodges a zone, against a reference that reduces paths step by step. An
  anchor at a directory above a zone is not routed, in the code as in the model.
- `AttachNeverDuplicates`, `BuiltAsPlanned`, `SweepsOwnChildrenFirst`, `ExitZeroSwept`: what the
  tool leaves on the board, and what its exit codes may claim. `JournalCoversBoard` and `JournalKept`
  (in no run; TLC checked them with the bounds of `TreeWrite.cfg`, and section 4 proves them): what the
  record knows of the board through creates, sweeps and kills.
- `RevokedWritesNothing`, `ReadYourWrites`, `EveryRequestAnswered`: revocation, the micro-cache and
  the slots.
- `SignalledOnExit`, `FatalOnlyForCause`, `TightLoopEscalates`: a child never comes back in a
  shutdown, and the container is given up for a crash loop or a missed deadline, always and only.
  `NothingHangs`: a dead child comes back or the container ends, the boot ends, and so does a shutdown.
- `OnlyCurrentLive`, `NeverAbandoned`: overlapping reconnects leave one live socket, and a running
  bridge without one is trying to get one unless a reconnect threw.
- Each `TypeOK` also carries the bookkeeping its component promises: one queued update per waiting
  worker (`Spend`), the semaphore's count and queue (`Dashboard`), record and keys within the
  board (`TicketTree`). The one of `SlackBridge` (an empty bridge after a crash) is in no run and
  proved in section 4.

### Fairness

`PlanService!FairSpec` assumes weak fairness of every worker and of every child. Agent calls and
tool spawns carry timeouts (`runToolSpawn`, the runtimes), and a worker catches every throw, so a
worker that is suspended is resumed. The gate's local checker is the exception
(`service/gates.mjs:134` spawns it without a timeout): its termination is an assumption here.
`Spend` assumes that an agent ends and that a settled promise runs its continuation;
`SlackBridge` that the poll timer ticks, handlers resume and the supervisor restarts a dead
bridge; `Dashboard` that each request's handler goes on, since calls to GitHub and the planner
and the reading of a body have timeouts. `Supervisor` assumes that events are handled, timers fire
and time passes. `SocketMode` assumes nothing: it asks whether something is under way, not whether
Slack answers. Nothing is assumed of humans, browsers, crashes, faults, answers of the tracker or,
in `SlackBridge`, the service's workers.

### Findings

Numbered as in `PROJECT.json`. Four are shown by a run of their own:

- 1, `TitlesAsApproved` (`service/server.mjs:1743`): a losing `approve-shape` with edits has
  already replaced the skeleton that another approval approved.
- 3, `TwoHumanGates` (`service/state.mjs:126`): after a throwing save the verdict stays in memory,
  and the retry ladder walks past the human gate.
- 4, `JournalCoversTracker` (`tools/create-tree.mjs:853`): an orphaned child and the child of a
  later retry overwrite each other's record.
- 8, `KeepsReconnecting` (`service/slack.mjs:934`): a reconnect that throws is logged and never
  tried again; the bridge stays deaf until it is restarted.

Six are stated in a module, where TLC finds the counterexample with the bounds named here when the
property is put into the configuration:

- 2, `GroomedAsApproved` (`service/server.mjs:2026`), `TitlesChange.cfg` with one request: a retry
  of groom loses the note that the shape was edited.
- 5, `BoardMirrorsPlan` (`tools/create-tree.mjs:463`), `TreeWrite.cfg`: an item without a parent,
  "standalone" in the contract, is created under the plan's epic.
- 7, `EveryVisitAnnounced` (`service/slack.mjs:900`), `SlackDelivery.cfg`: a second visit to the
  status the cursor names is not announced after a restart, nor when it comes while the first
  message is on its way.
- 9, `NeverAGap` (`service/slack.mjs:1001`), `SocketReconnects.cfg`: the old socket is closed when
  the new one is created, not when it is open.
- 10, `ShutdownExitsZero` (`service/supervise.mjs:228`), `Supervision.cfg`: a probe that fails past
  the deadline turns a shutdown into exit 1, without the grace.
- 13, `CursorShown` (`service/slack.mjs:517`), `SlackDelivery.cfg`: the cursor `breaking_down` is
  planted even when Slack refused the placeholder it stands for.

Three were met in the code and have no property:

- 6 (`tools/create-tree.mjs:892`): a blank parent, or an item that depends on itself, passes the
  plan gate and fails the create after issues were written (`PostRefused`, `LinkRefused`).
- 11 (`service/audit.mjs:61`): a record appended after a torn line is lost with it, and
  `appendAudit` says it succeeded.
- 12 (`dashboard/lib/planner-client.mjs:72`): an answer that is not JSON counts as an empty
  success, against the comment at 130 (`Garbled` in `Dashboard`).

A failing write also leaves a plan in a transient status without a worker until the next boot
(the handler answers 500 before it dispatches); `TransientHasWorker` is therefore claimed for
runs without failing writes.

## 4. Proofs

### PlanService

`PlanServiceProofs.tla` and `PlanTreeProofs.tla`, for any sets of requests, workers and shapes, any
tree size and regeneration bound, any number of crashes and lost responses;
the module's `ASSUME`s are assumed throughout:

| theorem | statement | assumes |
|---|---|---|
| `TypeCorrect` | `Spec => []TypeOK` | nothing: writes may fail, children may outlive the service |
| `OneWorkerAlways` | `Spec => []OneWorker` | nothing |
| `RegenBoundedAlways` | `Spec => []RegenBounded` | nothing |
| `TwoHumanGatesAlways` | `Spec => []TwoHumanGates` | `MaxFaults = 0` |
| `GatedShapeAlways` | `Spec => []CreateUsesGatedShape` | nothing |
| `FinalForGood` | `Spec => FinalIsFinal` | `MaxFaults = 0` |
| `NoDuplicateAlways` | `Spec => []NoDuplicateTree` | nothing |
| `JournalCoversAlways` | `Spec => []JournalCoversTracker` | `~OrphansSurvive` |
| `CreatedAlways` | `Spec => []CreatedIsComplete` | `~OrphansSurvive` |
| `CancelledAlways` | `Spec => []CancelledIsSwept` | `~OrphansSurvive` |
| `HandleAlways` | `Spec => HandleSurvives` | `~OrphansSurvive`, `MaxFaults = 0` |
| `LifecycleImplemented` | `Spec => ImplementsLifecycle` | `MaxFaults = 0` |
| `ResumesAlways` | `Spec => ResumesFailedPhase` | `MaxFaults = 0` |
| `NeverDangles` | `Spec => []TransientHasWorker` | `MaxFaults = 0` |

`MaxFaults = 0` says that plan files can be written; finding 3 (gates) and the 500 of a handler whose
save throws (workers) are the counterexamples without it. `~OrphansSurvive` says that the container
goes down with the service and takes the create-tree child with it; finding 4 is the counterexample.
Both are properties of the surroundings, and the theorems that assume nothing say what survives
without them.

The arguments:

- *Types.* `TypeOK` is not inductive: a child's record would grow past the tree. `TypeInv` adds
  `ChildrenInTree` (a child that is still to write stands inside the tree).
- *One worker.* `OneWorker` is inductive: an active worker runs the plan's status, that status
  is transient, every dispatching handler's compare-and-swap wants one at rest, so no worker is
  active; and a worker leaves the transient status in the step in which it ends.
- *Gates.* `GateInv` relates the record, the artifacts and the approvals: memory and file agree;
  a shape that is presented or approved has a green verdict, and under a green verdict record and
  file both hold gated shapes and the plan is either at gate 1 or approved; a green verdict on the
  plan means it is at gate 2 or the creation was approved; a record, a marker, a child or an issue
  exists only after that approval. It needs `OneWorker`, since only the one worker may touch the
  artifacts whose verdict is on the record.
- *The shape a create reads.* `GateInv` fails when a write throws, yet the shape gate holds.
  `ShapeInv` says why: a throwing write may lose a status but never a verdict, since the worker that
  gives one saves again in its catch, so memory and file agree on it (`VerdictKept`). Once the shape
  has passed, phase 1, the only one that writes ungated skeletons, is over for good (`KindsMatch`),
  and the skeleton on file is a gated one; an edit is gated before it is renamed, whatever then
  becomes of its compare-and-swap and its save.
  TLC checked `ShapeInv` with the bounds of `PlanFaults.cfg` before it was proved.
- *Regeneration.* `RegenCounted`: memory and file hold the same two counters even when a write
  throws, neither is behind the regenerations made (`regens`), and a planning worker's `attempt` is
  its counter, so the test of `attempt` in `Regenerate` is a test of the plan's whole history. That
  a worker is the only one (`OneWorker`) keeps the two equal while it runs.
- *Copies.* `NoDuplicateTree` bounds the copies of an issue by one plus the lost responses (plus two
  for each crash, where orphans survive). The induction needs a budget (`CopiesBudget`): copies
  written, children that may still write the issue, orphans that may yet empty the record when they
  begin their journal (`Emptiers`), and one more while the record lets a create begin, together stay
  within that bound. A `POST` moves a unit from the second to the first, a spawn one from the last
  to the second, and only a lost response or a surviving child adds one: an orphan past its guard is
  a writer and an emptier at once, which is where the two come from. With one worker, two children
  exist only after a crash; and a torn record lets no create begin.
- *Journal.* Without orphans the child runs beside the one worker that waits for it and has the
  record to itself; a torn record has no child and stays (`JournalInv`). An issue is on the board
  once if it is journalled, or was in what a kill tore (`Kept`), or its answer is under way, and
  else only if a response was lost (`CopiesInv`).
- *Claims.* A marker `full`, in memory or in the file, is right about the record's length
  (`CompleteInv`): the tool exits 0 only after the last issue, and no later step shortens the record.
  `cancelled` in memory means a readable record of which the last sweep left nothing open, and the
  file says it only when memory does (`SweptInv`); with `CopiesInv` the issues not in the record had
  no answer. A marker is planted only from a readable record, and after that no create begins, hence
  no child that could write or tear it (`MarkerInv`); this is what `HandleSurvives` needs. None of
  the three needs the gates.
- *Refinement.* A step of `PlanLifecycle` tests its `stage`, `stalled`, approvals and handle; the step
  of the service tests requests, workers, files and markers. `PhaseInv` says what the second imply of
  the first: how the status stands to the phase entered last and the approvals (`Standing`), what is
  on file for it (`Founded`), what a worker may assume at its await (`WorkersKnow`). Then each
  action of handler, worker, child and crash is shown to be one named transition, or none.
  `Standing` is also what `ResumesFailedPhase` and, with `OneWorker`, `TransientHasWorker` need.

### SlackBridge

`SlackBridgeProofs.tla`, for any number of status changes, crashes and failing calls, with or
without humans who act elsewhere and a crowded page; assumed are the module's `ASSUME`s:

| theorem | statement |
|---|---|
| `BridgeTyped` | `Spec => []TypeOK` |
| `CursorHolds` | `Spec => []CursorNotAhead` |
| `AnnouncementsKept` | `Spec => []NothingForgotten` |
| `AnnouncedOnce` | `Spec => []DuplicatesBounded` |

The first three follow from one inductive invariant, `Inv`; `CursorNotAhead` is a part of it,
with its exception for the initial `breaking_down`. The entry in the poller's hand is the
one in the map until a click replaces it, and the click's entry stands at a silent status, which
the poller never drops (`PollInv`). What an entry with a channel calls announced is a silent status
or one that was seen (`EntryInv`). A final status on its way to the cursor is still the plan's
status unless a cancel was clicked (`EndInv`), so a plan that is let go has ended and its end was
seen (`LetGoInv`). For the fourth, `CountInv` adds that the messages of a visit stay within
`Extra` (crashes, faults and crossing clicks), and that the one beyond it is posted only when the
entry that stops the next is in the map or about to be (`SpentInv`); a round a click has overtaken
has been paid for by that click (`RoundInv`).

### Spend

`SpendProofs.tla`, for any set of plans, caps, length of a call, days, crashes and failing writes;
assumed are the `ASSUME`s of `Spend` and `OpenRouterMeter`:

| theorem | statement |
|---|---|
| `DayBounded` | `Spec => []DailyOvershoot` |
| `PlanBounded` | `Spec => []PlanOvershoot` |
| `NothingUnnoticed` | `Spec => []UnknownSpendLocks` |
| `SpendTypes` | `Spec => []TypeOK` |

*A day.* Once the cap is met no call starts, and each worker that has not recorded yet does so
once: what is beyond the cap is at most one call for each worker that has (`DayInv`). That a worker
records once is the queue's invariant: one update for every waiting worker, none for another
(`QueueInv`). *A plan.* Everything billed before a call is on the plan's record, but for one call
per crash; a call whose cost does not get there locks, and only a crash forgets a lock (`PlanInv`).
Record in memory and in the file differ only under a lock. *Sums.* `UnknownSpendLocks` compares sums
over all plans. A sum by recursion would need an induction over the set; `Total` is the number of
pairs of a plan and one of its units instead, so that a step that changes one plan's summand changes
the sum by the lemmas on cardinalities. `SumInv` then keeps the books: unless a lock is set, or was
dropped by a crash that found it in memory only, what was billed and what midnight counted twice is
what the ledger holds, what is due and what crashes cut off, to the unit.

### Dashboard

`DashboardProofs.tla`, for any number of requests of any kinds, slots, failing calls and
role changes; assumed are the module's `ASSUME`s:

| theorem | statement |
|---|---|
| `RevocationHolds` | `Spec => []RevokedWritesNothing` |
| `SlotsAccounted` | `Spec => []TypeOK` |
| `ReadsAreFresh` | `Spec => []ReadYourWrites` |

*Roles.* A mutation passes the check only with an answer GitHub gave after its arrival or with a
role that is still fresh, and the queue of the semaphore holds only requests past the check, so
whoever is woken may go on (`RoleInv`). *Slots.* The count is the number of calls in flight, the
queue holds the waiting requests once each, and nobody waits beside a free slot (`SlotInv`). *Reads.*
A request waits for a call that gave or will give a version it may be shown, and so does the cache for
whoever comes next, since it is emptied whenever the version last answered grows (`ReadInv`).

### Supervisor

`SupervisorProofs.tla`, for all limits that satisfy the module's `ASSUME`s; the one that matters is
`TightAssumption` (the delays and lives of a crash loop fit in the window):

| theorem | statement |
|---|---|
| `SupervisorTypes` | `Spec => []TypeOK` |
| `ExitSignalsAll` | `Spec => []SignalledOnExit` |
| `FatalForCause` | `Spec => []FatalOnlyForCause` |
| `TightLoopsEnd` | `Spec => []TightLoopEscalates` |

`SupervisorInv` has four parts. One death is noticed once and a delay runs only for a dead child
(`RecordInv`); the bridge does not exist before the health loop ends (`BridgeWaits`); going down, no
delay is left and who runs was told (`GoingDown`); what the code counts in `restartTimes` is what
happened (`Counted`). For the crash loop, `LoopInv` follows the ages: the j-th newest death of a
child that keeps dying early is at most j - 1 times a delay and a life behind the newest, so after
`MaxRestarts` of them none has left the window, and the next one is fatal.

### SocketMode

`SocketModeProofs.tla`, for any finite set of sockets, calls in flight and faults:

| theorem | statement |
|---|---|
| `SocketTypes` | `Spec => []TypeOK` |
| `OneLiveSocket` | `Spec => []OnlyCurrentLive` |
| `AlwaysTrying` | `Spec => []NeverAbandoned` |

The three together are inductive: while `start()` opens the first socket its call is the only one,
and afterwards whoever takes a live socket away schedules a reconnect or puts another in its place.

### TicketTree

`TicketTreeProofs.tla`, for any jobs the engine may hand over (trees of any size and shape that the
decoders let through, any coupling map, workflow and scope), any number of runs, failed calls and
kills; assumed are the `ASSUME`s of `TreeChecks` and `TicketTree`, which say no more than that a job
is a decoded tree with its mode:

| theorem | statement |
|---|---|
| `TypeOKAlways` | `Spec => []TypeOK` |
| `AcceptedTreeSoundAlways` | `Spec => []AcceptedTreeSound` |
| `AttachNeverDuplicatesAlways` | `Spec => []AttachNeverDuplicates` |
| `BuiltAsPlannedAlways` | `Spec => []BuiltAsPlanned` |
| `ExitZeroSweptAlways` | `Spec => []ExitZeroSwept` |
| `SweepsOwnChildrenFirstAlways` | `Spec => SweepsOwnChildrenFirst` |
| `JournalKeptAlways` | `Spec => JournalKept` |
| `JournalCoversBoardAlways` | `Spec => []JournalCoversBoard` |

One inductive invariant, `TreeInv`, carries them; TLC checked its parts with the buildable plans of
`TreeWrite.cfg` before they were proved.

- *From the checks to the tree.* The gate's verdict is green only if every check passed (`GateInv`).
  What the checks say one by one makes the tree: ids are unique, so the maps that keep the last item
  with an id lose none (`UniqueLast`); an item that is not directly below the epic is a sub-task of
  one that is, or has the blank parent of finding 6 (`PlanShape`); a skeleton's order and milestones
  follow item by item (`OrderSound`, `MilestoneSound`).
- *From the tree to the board.* Every issue of the tool hangs below an older one of the rank above
  (`Placed`), recorded or not. During a create the acknowledged issues are one for each item that was
  posted and none for another, each below the issue of the item the plan names (`Covers`, `Made`).
  For a step this needs that the parent's key is found under its temp_id (`EpicKey`, `SubtaskKey`),
  hence that no two items share one and that the epic is posted before what goes below it
  (`EpicFirst`); that a blank parent finds nothing is why it ends in `PostRefused`.
- *Exit codes.* Exit 0 of a create follows from `Covers` once nothing is left to post, and from the
  guard of `LiveEnds` for the links; it stays true as long as the exit code stands. A sweep that
  counted no failure has cancelled what it went past, or the workflow offers no way (`SweptBut`).
- *Order of the sweep.* By `Placed` an issue ranks above its children, so `CancelOrder` never takes it
  before one that is still to be swept.
- *Journal.* The record changes in three ways only (`RecordMoves`). An issue that is posted is
  unrecorded until it is acknowledged; if that never happens, a fault or a kill was spent
  (`CountsGrow`), and cardinalities do the rest.

### Only model-checked

- `PhasesEnd`, `Settles`, `Delivered`, `EveryRequestAnswered`, `NothingHangs`: liveness is out of
  the prover's reach.
- `GraphWalksExact` and `ZonedWorkRouted`: they say what `Visit`, `Follow` and `Clean` compute for
  every graph and every path. These are recursive functions and folds, and such a fact needs an
  induction over data, which the installed provers cannot be given. The theorems about accepted trees
  use neither: a parent chain is bounded by the types along it, an order by the positions in it.

## 5. Plan

1. What holds of the tree where children outlive the service: which part of the journal survives.
2. An abstract create tool that both `PlanService`'s child and `TicketTree` implement.

## 6. Not modelled

- Rendering: `slack-blocks.mjs` but for its buttons, `app.js`, the ADF of the tracker tool.
- The listing endpoints but for the page the bridge resumes from, and the audit ledger: lines
  appended after the change they record, which no transition reads.
- How long a reconnect of the bridge is put off.
- The staging directory of an edit: `PlanService` commits an edit in one step.
- Grounding, coupling-map lookup, agent runtimes: what they can do to a plan is the engine's
  return or throw.
- Configuration, deployment, demo, calibration harness, prompts and contracts: no state, or
  straight-line input and output.
