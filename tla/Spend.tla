------------------------------- MODULE Spend -------------------------------
(***************************************************************************)
(* What the planner spends: the daily ledger and its serialised updates,   *)
(* the telemetry lock, the daily and the per-plan cap, and the workers     *)
(* that pay.  One worker runs per plan; workers share the ledger, the lock *)
(* and the queue of spend records.                                         *)
(*                                                                         *)
(* An engine call is metered by OpenRouterMeter; costs are in its units.   *)
(* The ledger is written by rename, so a reader sees an old or a new file. *)
(***************************************************************************)
EXTENDS OpenRouterMeter, Sequences, FiniteSets

CONSTANTS
  Plans,
  Hard,         \* RADSVINN_DAILY_HARD_USD
  Cap,          \* RADSVINN_PLAN_BUDGET_USD
  Days,         \* bound on the days that pass: 0..Days
  MaxCrashes,   \* bound on crashes of the service
  MaxFaults     \* bound on file writes that throw

ASSUME PlansAssumption == IsFiniteSet(Plans)
ASSUME CapsAssumption == Hard \in Nat \ {0} /\ Cap \in Nat \ {0}
ASSUME BoundsAssumption == Days \in Nat /\ MaxCrashes \in Nat /\ MaxFaults \in Nat

VARIABLES
  day,        \* todayUtc()
  ledger,     \* total_nanos of each day's daily-spend file
  lockMem,    \* telemetryLocks
  lockFile,   \* cost-telemetry.lock.json
  queue,      \* spendQueue: the updates not yet run
  costMem,    \* cost_nanos of each plan in memory
  costDisk,   \* and in its file
  worker,     \* the worker of each plan
  paid,       \* history: what the provider billed each plan
  lost,       \* history: what crashes made the service forget, in all
  unlocked,   \* history: a crash has dropped a lock that had no file
  extra,      \* history: what midnight counted on two days
  crashes, faults

files == <<ledger, lockFile, costDisk>>
history == <<paid, lost, unlocked, extra>>
vars == <<day, ledger, lockMem, lockFile, queue, costMem, costDisk, worker, history,
          crashes, faults>>

\* A spend record: `cost` is what is known of a call's cost, or all of it.
Record == [plan: Plans, cost: 0..MaxRequests]

\* due: billed in this call and not yet in the ledger.
Worker == [pc: {"idle", "engine", "closing", "queued", "persist"}, proxy: Proxy,
           exact: BOOLEAN, cost: 0..MaxRequests, due: 0..MaxRequests]
Idle == [pc |-> "idle", proxy |-> NewProxy, exact |-> TRUE,
         cost |-> 0, due |-> 0]

\* A sum, as the number of its units.
Units(f) == UNION {{x} \X (1..f[x]) : x \in DOMAIN f}
Total(f) == Cardinality(Units(f))
InFlight == Total([p \in Plans |-> worker[p].due])

Init ==
  /\ day = 0
  /\ ledger = [d \in 0..Days |-> 0]
  /\ lockMem = FALSE
  /\ lockFile = FALSE
  /\ queue = <<>>
  /\ costMem = [p \in Plans |-> 0]
  /\ costDisk = [p \in Plans |-> 0]
  /\ worker = [p \in Plans |-> Idle]
  /\ paid = [p \in Plans |-> 0]
  /\ lost = 0
  /\ unlocked = FALSE
  /\ extra = 0
  /\ crashes = 0
  /\ faults = 0

Fault == faults < MaxFaults /\ faults' = faults + 1

----------------------------------------------------------------------------
(***************************************************************************)
(* The breakers                                                            *)
(***************************************************************************)
Locked == lockMem \/ lockFile

\* Mutant: the cap is met only when it is passed.
CheckDailyLate == ~Locked /\ ledger[day] <= Hard

CheckDaily == ~Locked /\ ledger[day] < Hard

\* Mutant: a plan's spend is compared with the cap of all plans.
CheckPlanBudgetShared(p) == costMem[p] < Cap * Cardinality(Plans)

CheckPlanBudget(p) == costMem[p] < Cap

\* lockCostTelemetry, whose file may fail to be written (flt: a write has
\* failed in this step already).
LockAfter(flt) ==
  /\ lockMem' = TRUE
  /\ \/ lockFile' = TRUE /\ faults' = faults + flt
     \/ faults + flt < MaxFaults /\ faults' = faults + flt + 1 /\ UNCHANGED lockFile

Lock == LockAfter(0)
NoLock == UNCHANGED <<lockMem, lockFile, faults>>

----------------------------------------------------------------------------
(***************************************************************************)
(* A worker's engine call                                                  *)
(***************************************************************************)
\* Both breakers, then the call, with no await in between.  A first phase with
\* nothing spent skips the plan's own cap, which it could not meet.
Start(p) ==
  /\ worker[p].pc = "idle"
  /\ CheckDaily
  /\ CheckPlanBudget(p)
  /\ worker' = [worker EXCEPT ![p].pc = "engine"]
  /\ UNCHANGED <<day, files, lockMem, queue, costMem, history, crashes, faults>>

Requests(p) ==
  /\ worker[p].pc = "engine"
  /\ \/ /\ Sent(worker[p].proxy) < MaxRequests
        /\ worker' = [worker EXCEPT ![p].proxy = Forwarded(@), ![p].due = @ + 1]
        /\ paid' = [paid EXCEPT ![p] = @ + 1]
     \/ /\ worker' = [worker EXCEPT ![p].proxy = Refused(@)]
        /\ UNCHANGED paid
  /\ UNCHANGED <<day, files, lockMem, queue, costMem, lost, unlocked, extra, crashes, faults>>

\* The agent may still be running, or gone while the proxy closes.
Answered(p) ==
  /\ worker[p].pc \in {"engine", "closing"}
  /\ worker[p].proxy.active > 0
  /\ \E x \in Answers(worker[p].proxy) : worker' = [worker EXCEPT ![p].proxy = x]
  /\ UNCHANGED <<day, files, lockMem, queue, costMem, history, crashes, faults>>

AgentExits(p) ==
  /\ worker[p].pc = "engine"
  /\ worker' = [worker EXCEPT ![p].pc = "closing"]
  /\ UNCHANGED <<day, files, lockMem, queue, costMem, history, crashes, faults>>

\* The accounting decides how the call ends, before the agent's exit code does.
\* What is known goes to recordSpendNanos; a failed call without a receipt has
\* nothing to record, and one whose cost is unknown then locks at once.
Finalize(p) ==
  /\ worker[p].pc = "closing"
  /\ \E x \in Closed(worker[p].proxy) : \E found \in Reconciled(x) :
     LET acc == Accounting(x, found) IN
     \/ /\ acc.exact \/ acc.known > 0
        /\ worker' = [worker EXCEPT ![p] =
             [Idle EXCEPT !.pc = "queued", !.exact = acc.exact, !.cost = acc.known,
                          !.due = worker[p].due]]
        /\ queue' = Append(queue, [plan |-> p, cost |-> acc.known])
        /\ NoLock
     \/ /\ acc.known = 0
        /\ worker' = [worker EXCEPT ![p] = Idle]
        /\ IF acc.exact THEN NoLock ELSE Lock
        /\ UNCHANGED queue
  /\ UNCHANGED <<day, ledger, costMem, costDisk, history, crashes>>

----------------------------------------------------------------------------
(***************************************************************************)
(* The ledger and the plan's own total                                     *)
(***************************************************************************)
\* Mutant: a rejected update stays at the head of the queue.
RecordSpendWedged ==
  /\ queue # <<>>
  /\ ~Locked
  /\ LET r == Head(queue) IN
       /\ queue' = Tail(queue)
       /\ ledger' = [ledger EXCEPT ![day] = @ + r.cost]
       /\ worker' = [worker EXCEPT ![r.plan].pc = "persist", ![r.plan].due = @ - r.cost]
  /\ UNCHANGED <<day, lockMem, lockFile, costMem, costDisk, history, crashes, faults>>

\* Mutant: a rejection does not reach the worker that waits for it.
RecordSpendSilent ==
  /\ queue # <<>>
  /\ LET r == Head(queue) IN
     /\ queue' = Tail(queue)
     /\ IF Locked
        THEN UNCHANGED <<ledger, worker>>
        ELSE /\ ledger' = [ledger EXCEPT ![day] = @ + r.cost]
             /\ worker' = [worker EXCEPT ![r.plan].pc = "persist", ![r.plan].due = @ - r.cost]
  /\ NoLock
  /\ UNCHANGED <<day, costMem, costDisk, history, crashes>>

\* The next update of the queue.  The day is asked for the read and again for
\* the write, so over midnight the old day's total is written to the new day's
\* file.  A rejected update locks and ends its worker; the queue goes on.
RecordSpend ==
  /\ queue # <<>>
  /\ LET r == Head(queue) IN
     /\ queue' = Tail(queue)
     /\ \/ /\ ~Locked
           /\ day' \in {day, day + 1} /\ day' <= Days
           /\ ledger' = [ledger EXCEPT ![day'] = ledger[day] + r.cost]
           /\ extra' = IF day' = day THEN extra ELSE extra + ledger[day]
           /\ worker' = [worker EXCEPT ![r.plan].pc = "persist", ![r.plan].due = @ - r.cost]
           /\ NoLock
        \/ /\ \/ Locked /\ Lock
              \/ ~Locked /\ faults < MaxFaults /\ LockAfter(1)   \* writeDaily throws
           /\ worker' = [worker EXCEPT ![r.plan] = Idle]
           /\ UNCHANGED <<day, ledger, extra>>
  /\ UNCHANGED <<costMem, costDisk, paid, lost, unlocked, crashes>>

\* Mutant: the lock that a call of unknown cost owes is forgotten.
PersistUnlocked(p) ==
  /\ worker[p].pc = "persist"
  /\ costMem' = [costMem EXCEPT ![p] = @ + worker[p].cost]
  /\ costDisk' = [costDisk EXCEPT ![p] = costMem'[p]]
  /\ NoLock
  /\ worker' = [worker EXCEPT ![p] = Idle]
  /\ UNCHANGED <<day, ledger, queue, history, crashes>>

\* persistPhaseCost, and for a call of unknown cost the lock it owes.
Persist(p) ==
  /\ worker[p].pc = "persist"
  /\ costMem' = [costMem EXCEPT ![p] = @ + worker[p].cost]
  /\ \/ /\ costDisk' = [costDisk EXCEPT ![p] = costMem'[p]]
        /\ IF worker[p].exact THEN NoLock ELSE Lock
     \/ /\ faults < MaxFaults
        /\ LockAfter(1)
        /\ UNCHANGED costDisk
  /\ worker' = [worker EXCEPT ![p] = Idle]
  /\ UNCHANGED <<day, ledger, queue, history, crashes>>

----------------------------------------------------------------------------
Midnight ==
  /\ day < Days
  /\ day' = day + 1
  /\ UNCHANGED <<files, lockMem, queue, costMem, worker, history, crashes, faults>>

\* Memory is gone, a lock that could not be written with it; the proxies die
\* with the service, and so does what they knew.  Nothing is locked for that.
Crash ==
  /\ crashes < MaxCrashes
  /\ crashes' = crashes + 1
  /\ lockMem' = FALSE
  /\ queue' = <<>>
  /\ costMem' = costDisk
  /\ worker' = [p \in Plans |-> Idle]
  /\ lost' = lost + InFlight
  /\ unlocked' = (unlocked \/ (lockMem /\ ~lockFile))
  /\ UNCHANGED <<day, files, paid, extra, faults>>

WorkerStep(p) == Answered(p) \/ AgentExits(p) \/ Finalize(p) \/ Persist(p)

Next ==
  \/ \E p \in Plans : Start(p) \/ Requests(p) \/ WorkerStep(p)
  \/ RecordSpend \/ Midnight \/ Crash

\* An agent ends (the engine's timeout), a promise settles.
Fairness == WF_vars(RecordSpend) /\ \A p \in Plans : WF_vars(WorkerStep(p))

Spec == Init /\ [][Next]_vars /\ Fairness

----------------------------------------------------------------------------
(***************************************************************************)
(* Properties                                                              *)
(***************************************************************************)
\* Types, and the promises of recordSpendNanos: a worker waits for exactly one
\* update, which is in the queue, and nobody else's update is.
TypeOK ==
  /\ day \in 0..Days
  /\ ledger \in [0..Days -> Nat]
  /\ lockMem \in BOOLEAN /\ lockFile \in BOOLEAN
  /\ queue \in Seq(Record)
  /\ costMem \in [Plans -> Nat] /\ costDisk \in [Plans -> Nat]
  /\ worker \in [Plans -> Worker]
  /\ paid \in [Plans -> Nat]
  /\ lost \in Nat /\ unlocked \in BOOLEAN /\ extra \in Nat
  /\ \A p \in Plans : Cardinality({i \in DOMAIN queue : queue[i].plan = p})
                        = IF worker[p].pc = "queued" THEN 1 ELSE 0

\* "Any uncertainty is a hard failure" (openrouter-meter.mjs:8): unless calls
\* are locked out, every unit billed is in the ledger, or due from a call that
\* runs, or was due from one that a crash cut off; and the ledger holds nothing
\* else but what midnight counted twice.  Two gaps are the code's: a crash locks
\* nothing, and it drops a lock whose file could not be written.
UnknownSpendLocks ==
  Locked \/ unlocked \/ Total(paid) + extra = Total(ledger) + InFlight + lost

\* The cap is tested when a call starts, other calls are still running then: a
\* day passes its hard cap by less than one call per worker (breakers.mjs:137).
DailyOvershoot ==
  \A d \in 0..Days : ledger[d] <= Hard - 1 + MaxRequests * Cardinality(Plans)

\* A plan passes its cap by less than one call (breakers.mjs:172), and by one more
\* for each crash that made the service forget a call before it was persisted.
PlanOvershoot ==
  \A p \in Plans : paid[p] <= Cap - 1 + MaxRequests * (1 + crashes)

\* A rejected update never wedges the queue (breakers.mjs:236-238): a call that
\* ended is accounted or refused in the end, and its worker goes on.
Settles == \A p \in Plans : (worker[p].pc = "queued") ~> (worker[p].pc = "idle")
====
