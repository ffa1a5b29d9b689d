---------------------------- MODULE SpendProofs ----------------------------
(***************************************************************************)
(* How far the caps can be passed, and what the ledger may miss, for any   *)
(* number of plans, any length of a call, any caps and any number of       *)
(* crashes and failing writes.                                             *)
(*                                                                         *)
(* The argument for a plan: a call starts below the cap, with everything   *)
(* billed before on the plan's record but for at most one call per crash;  *)
(* a call whose cost does not get there locks, and only a crash can forget *)
(* a lock.  For a day: once its cap is met no call starts, and each call   *)
(* that still runs is recorded once.                                       *)
(*                                                                         *)
(* For the ledger: a unit billed is due until it is recorded, a call that  *)
(* ends owing one locks, and what a crash cuts off or midnight counts on   *)
(* two days is told apart from what went missing.                          *)
(***************************************************************************)
EXTENDS Spend, FiniteSetTheorems, TLAPS

Calling == {"engine", "closing"}
Unrecorded == Calling \cup {"queued"}

\* One worker: its proxy counts what the agent sent, and nothing is due but that.
WorkerInv(w) ==
  /\ w \in Worker
  /\ Sent(w.proxy) <= MaxRequests
  /\ w.pc \in Calling => w.due = Sent(w.proxy)
  /\ w.pc = "queued" => w.cost <= w.due
  /\ w.pc = "idle" => w = Idle

\* The queue holds the update of every worker that waits, once.
QueueInv ==
  /\ queue \in Seq(Record)
  /\ \A i \in 1..Len(queue) : worker[queue[i].plan].pc = "queued"
                                /\ queue[i].cost = worker[queue[i].plan].cost
  /\ \A i, j \in 1..Len(queue) : queue[i].plan = queue[j].plan => i = j
  /\ \A p \in Plans : worker[p].pc = "queued" => \E i \in 1..Len(queue) : queue[i].plan = p

BookInv ==
  /\ day \in 0..Days
  /\ ledger \in [0..Days -> Nat]
  /\ lockMem \in BOOLEAN /\ lockFile \in BOOLEAN
  /\ costMem \in [Plans -> Nat] /\ costDisk \in [Plans -> Nat]
  /\ paid \in [Plans -> Nat]
  /\ crashes \in Nat /\ faults \in Nat
  /\ worker \in [Plans -> Worker]
  /\ \A p \in Plans : WorkerInv(worker[p])

\* What crashes may have made the service forget of one plan.
Forgiven == MaxRequests * crashes

PlanInv(p) ==
  /\ costMem[p] # costDisk[p] => Locked /\ worker[p].pc = "idle"
  /\ paid[p] <= costDisk[p] + Forgiven + MaxRequests
  /\ paid[p] <= Cap - 1 + Forgiven + MaxRequests
  /\ worker[p].pc = "idle" /\ ~Locked => paid[p] <= costMem[p] + Forgiven
  /\ worker[p].pc \in Calling =>
       paid[p] <= costMem[p] + Forgiven + Sent(worker[p].proxy) /\ costMem[p] < Cap
  /\ worker[p].pc \in {"queued", "persist"} /\ worker[p].exact =>
       paid[p] <= costMem[p] + Forgiven + worker[p].cost

Owing == {p \in Plans : worker[p].pc \in Unrecorded}
Free == Cardinality(Plans) - Cardinality(Owing)

DayInv ==
  /\ \A d \in 0..Days : d > day => ledger[d] = 0
  /\ \A d \in 0..Days : ledger[d] <= Hard - 1 + MaxRequests * Cardinality(Plans)
  /\ ledger[day] >= Hard => ledger[day] <= Hard - 1 + MaxRequests * Free

SpendInv == BookInv /\ QueueInv /\ (\A p \in Plans : PlanInv(p)) /\ DayInv

------------------------------------------------------------------------------
LEMMA Times ==
  /\ \A m, a \in Nat : m * a \in Nat /\ m * (a + 1) = m * a + m
  /\ \A m, a, b \in Nat : a <= b => m * a <= m * b
<1>1. \A m, a \in Nat : m * a \in Nat /\ m * (a + 1) = m * a + m
  OBVIOUS
<1>2. \A m, a, b \in Nat : a <= b => m * a <= m * b
  <2> SUFFICES ASSUME NEW m \in Nat, NEW a \in Nat, NEW b \in Nat, a <= b
               PROVE  m * a <= m * b
    OBVIOUS
  <2>1. PICK k \in Nat : b = a + k
    <3>1. b - a \in Nat /\ b = a + (b - a)
      OBVIOUS
    <3> QED BY <3>1
  <2>2. m * b = m * a + m * k /\ m * k \in Nat /\ m * a \in Nat
    BY <2>1
  <2> QED BY <2>2
<1> QED BY <1>1, <1>2

\* What the proxy's events do to the count of requests sent.
LEMMA Metered ==
  ASSUME NEW x \in Proxy
  PROVE  /\ Sent(x) \in Nat
         /\ Refused(x) \in Proxy /\ Sent(Refused(x)) = Sent(x)
         /\ \A y \in Closed(x) : y \in Proxy /\ Sent(y) = Sent(x)
         /\ Sent(x) < MaxRequests =>
              Forwarded(x) \in Proxy /\ Sent(Forwarded(x)) = Sent(x) + 1
         /\ Sent(x) <= MaxRequests /\ x.active > 0 =>
              \A y \in Answers(x) : y \in Proxy /\ Sent(y) = Sent(x)
<1> USE RequestsAssumption
<1>1. Sent(x) \in Nat
  BY DEF Sent, Proxy
<1>2. Refused(x) \in Proxy /\ Sent(Refused(x)) = Sent(x)
  BY DEF Refused, Sent, Proxy
<1>3. \A y \in Closed(x) : y \in Proxy /\ Sent(y) = Sent(x)
  BY DEF Closed, Sent, Proxy
<1>4. ASSUME Sent(x) < MaxRequests
      PROVE  Forwarded(x) \in Proxy /\ Sent(Forwarded(x)) = Sent(x) + 1
  BY <1>4 DEF Forwarded, Sent, Proxy
<1>5. ASSUME Sent(x) <= MaxRequests, x.active > 0, NEW y \in Answers(x)
      PROVE  y \in Proxy /\ Sent(y) = Sent(x)
  <2> DEFINE a == [x EXCEPT !.active = @ - 1]
             b == [a EXCEPT !.receipts = @ + 1]
             c == [a EXCEPT !.blind = @ + 1, !.anomaly = TRUE]
  <2>0. /\ x.active - 1 \in 0..MaxRequests /\ x.receipts + 1 \in 0..MaxRequests
        /\ x.blind + 1 \in 0..MaxRequests
        /\ (x.active - 1) + (x.receipts + 1) + x.blind = x.active + x.receipts + x.blind
        /\ (x.active - 1) + x.receipts + (x.blind + 1) = x.active + x.receipts + x.blind
    BY <1>5 DEF Sent, Proxy
  <2>5. /\ a \in Proxy /\ a.active = x.active - 1 /\ a.receipts = x.receipts
        /\ a.blind = x.blind
    BY <2>0 DEF Proxy
  <2>1. b \in Proxy /\ Sent(b) = Sent(x)
    <3> HIDE DEF a
    <3>1. /\ b \in Proxy /\ b.active = a.active /\ b.receipts = x.receipts + 1
          /\ b.blind = a.blind
      BY <2>0, <2>5 DEF Proxy
    <3> QED BY <2>0, <2>5, <3>1 DEF Sent
  <2>2. c \in Proxy /\ Sent(c) = Sent(x)
    <3> HIDE DEF a
    <3>1. /\ c \in Proxy /\ c.active = a.active /\ c.receipts = a.receipts
          /\ c.blind = x.blind + 1
      BY <2>0, <2>5 DEF Proxy
    <3> QED BY <2>0, <2>5, <3>1 DEF Sent
  <2>3. y \in {b, [b EXCEPT !.anomaly = TRUE], c}
    BY <1>5 DEF Answers, Relayed
  <2> HIDE DEF b, c
  <2>4. [b EXCEPT !.anomaly = TRUE] \in Proxy /\ Sent([b EXCEPT !.anomaly = TRUE]) = Sent(x)
    BY <2>1 DEF Sent, Proxy
  <2> QED BY <2>1, <2>2, <2>3, <2>4
<1> QED BY <1>1, <1>2, <1>3, <1>4, <1>5

\* An exact accounting knows every request; any other knows no more than were sent.
LEMMA Accounted ==
  ASSUME NEW x \in Proxy, NEW found \in Reconciled(x)
  PROVE  /\ Accounting(x, found).known \in 0..MaxRequests
         /\ Accounting(x, found).known <= Sent(x)
         /\ Accounting(x, found).exact \in BOOLEAN
         /\ Accounting(x, found).exact => Accounting(x, found).known = Sent(x)
<1> DEFINE e == ~x.anomaly /\ x.active = 0 /\ x.blind = 0 /\ found = x.receipts
<1>1. /\ found \in 0..MaxRequests /\ found <= Sent(x)
      /\ e \in BOOLEAN /\ (e => found = Sent(x))
  BY RequestsAssumption DEF Reconciled, Sent, Proxy
<1>2. Accounting(x, found) = [known |-> found, exact |-> e]
  BY DEF Accounting
<1> HIDE DEF e
<1> QED BY <1>1, <1>2

LEMMA FreshWorker ==
  /\ NewProxy \in Proxy /\ Sent(NewProxy) = 0
  /\ Idle \in Worker /\ WorkerInv(Idle)
  /\ Idle.pc = "idle" /\ Idle.proxy = NewProxy /\ Idle.due = 0
<1>1. NewProxy \in Proxy /\ Sent(NewProxy) = 0
  BY RequestsAssumption DEF NewProxy, Proxy, Sent
<1>2. Idle \in Worker /\ Idle.pc = "idle" /\ Idle.proxy = NewProxy /\ Idle.due = 0
  BY <1>1, RequestsAssumption DEF Idle, Worker
<1> QED BY <1>1, <1>2, RequestsAssumption DEF WorkerInv, Calling

\* A lock is set in memory at least, and no step of a call takes one away.
LEMMA LockSets ==
  ASSUME BookInv, NEW flt \in {0, 1}, LockAfter(flt)
  PROVE  lockMem' \in BOOLEAN /\ lockFile' \in BOOLEAN /\ faults' \in Nat /\ Locked'
<1>1. lockMem' = TRUE
  BY DEF LockAfter
<1>2. (lockFile' = TRUE \/ lockFile' = lockFile) /\ faults' \in {faults + flt, faults + flt + 1}
  BY DEF LockAfter
<1>3. faults' \in Nat
  BY <1>2 DEF BookInv
<1>4. lockFile' \in BOOLEAN
  BY <1>2, Zenon DEF BookInv
<1> QED BY <1>1, <1>3, <1>4, Zenon DEF Locked

LEMMA LockTypes ==
  ASSUME BookInv, Lock \/ NoLock \/ LockAfter(1)
  PROVE  /\ lockMem' \in BOOLEAN /\ lockFile' \in BOOLEAN /\ faults' \in Nat
         /\ Locked => Locked'
<1>1. CASE NoLock
  BY <1>1 DEF NoLock, Locked, BookInv
<1>2. CASE Lock \/ LockAfter(1)
  BY <1>2, LockSets DEF Lock
<1> QED BY <1>1, <1>2

LEMMA OwingFinite ==
  /\ IsFiniteSet(Owing) /\ Cardinality(Owing) \in Nat
  /\ Cardinality(Plans) \in Nat /\ Cardinality(Owing) <= Cardinality(Plans)
  /\ Free \in Nat
<1>1. /\ IsFiniteSet(Owing) /\ Cardinality(Owing) \in Nat
      /\ Cardinality(Plans) \in Nat /\ Cardinality(Owing) <= Cardinality(Plans)
  BY PlansAssumption, FS_Subset, FS_CardinalityType DEF Owing
<1> QED BY <1>1 DEF Free

------------------------------------------------------------------------------
LEMMA SpendInit == Init => SpendInv
<1> SUFFICES ASSUME Init PROVE SpendInv
  OBVIOUS
<1> USE DEF Init
<1>1. BookInv
  <2>1. worker \in [Plans -> Worker] /\ \A p \in Plans : WorkerInv(worker[p])
    BY FreshWorker
  <2>2. lockMem \in BOOLEAN /\ lockFile \in BOOLEAN
    BY Zenon
  <2>3. /\ day \in 0..Days /\ ledger \in [0..Days -> Nat]
        /\ costMem \in [Plans -> Nat] /\ costDisk \in [Plans -> Nat]
        /\ paid \in [Plans -> Nat] /\ crashes \in Nat /\ faults \in Nat
    BY BoundsAssumption
  <2> QED BY <2>1, <2>2, <2>3, Zenon DEF BookInv
<1>2. QueueInv
  BY FreshWorker DEF QueueInv
<1>3. ASSUME NEW p \in Plans PROVE PlanInv(p)
  <2>1. Forgiven = 0 /\ MaxRequests \in Nat
    BY RequestsAssumption DEF Forgiven
  <2> QED BY <2>1, FreshWorker, CapsAssumption DEF PlanInv, Calling, Locked
<1>4. DayInv
  <2>1. MaxRequests * Cardinality(Plans) \in Nat
    BY RequestsAssumption, OwingFinite, Times
  <2> QED BY <2>1, CapsAssumption, BoundsAssumption DEF DayInv
<1> QED BY <1>1, <1>2, <1>3, <1>4 DEF SpendInv

\* A plan that no step touched.
LEMMA OtherPlan ==
  ASSUME NEW q \in Plans, PlanInv(q), Locked => Locked', crashes' = crashes,
         worker'[q] = worker[q], costMem'[q] = costMem[q], costDisk'[q] = costDisk[q],
         paid'[q] = paid[q]
  PROVE  PlanInv(q)'
BY DEF PlanInv, Forgiven, Locked

\* A step of a worker that neither waits nor comes to wait.
LEMMA QuietQueue ==
  ASSUME BookInv, QueueInv, NEW p \in Plans, NEW w, worker' = [worker EXCEPT ![p] = w],
         UNCHANGED queue, worker[p].pc # "queued", w.pc # "queued"
  PROVE  QueueInv'
<1>1. \A q \in Plans : q # p => worker'[q] = worker[q]
  BY DEF BookInv
<1>2. worker'[p].pc # "queued"
  BY DEF BookInv
<1>3. \A i \in 1..Len(queue) : queue[i].plan \in Plans /\ queue[i].plan # p
  <2> TAKE i \in 1..Len(queue)
  <2>1. queue[i] \in Record
    BY DEF QueueInv
  <2> QED BY <2>1 DEF QueueInv, Record
<1> QED BY <1>1, <1>2, <1>3 DEF QueueInv

\* The day's books when nothing is recorded and no call starts.
LEMMA QuietDay ==
  ASSUME DayInv, UNCHANGED <<day, ledger>>, Owing' \subseteq Owing, BookInv
  PROVE  DayInv'
<1>1. Cardinality(Owing') <= Cardinality(Owing) /\ Cardinality(Owing') \in Nat
  BY OwingFinite, FS_Subset, FS_CardinalityType
<1>2. Free' \in Nat /\ Free <= Free'
  BY <1>1, OwingFinite DEF Free
<1>3. MaxRequests * Free <= MaxRequests * Free'
  BY <1>2, OwingFinite, Times, RequestsAssumption
<1>4. /\ MaxRequests * Free \in Nat /\ MaxRequests * Free' \in Nat /\ Hard \in Nat
      /\ ledger[day] \in Nat
  BY <1>2, OwingFinite, Times, RequestsAssumption, CapsAssumption DEF BookInv
<1> QED BY <1>3, <1>4 DEF DayInv

\* A worker goes on with its call, or ends it with nothing to record.
LEMMA OwingShrinks ==
  ASSUME BookInv, NEW p \in Plans, NEW w, worker' = [worker EXCEPT ![p] = w],
         w.pc \in Unrecorded => worker[p].pc \in Unrecorded
  PROVE  Owing' \subseteq Owing
BY DEF BookInv, Owing

\* The books after a step of one worker.
LEMMA BooksKept ==
  ASSUME BookInv, NEW p \in Plans, NEW w, WorkerInv(w), worker' = [worker EXCEPT ![p] = w],
         UNCHANGED <<day, ledger, crashes>>, paid' \in [Plans -> Nat],
         costMem' \in [Plans -> Nat], costDisk' \in [Plans -> Nat],
         lockMem' \in BOOLEAN, lockFile' \in BOOLEAN, faults' \in Nat
  PROVE  BookInv'
<1>1. worker' \in [Plans -> Worker] /\ \A q \in Plans : WorkerInv(worker'[q])
  BY DEF BookInv, WorkerInv
<1>2. (\A q \in Plans : WorkerInv(worker[q]))'
  BY <1>1 DEF WorkerInv
<1> QED BY <1>1, <1>2 DEF BookInv

\* The plans after a step of one worker.
LEMMA PlansKept ==
  ASSUME SpendInv, NEW p \in Plans, NEW w, worker' = [worker EXCEPT ![p] = w],
         Locked => Locked', crashes' = crashes, PlanInv(p)',
         \A q \in Plans : q # p => /\ costMem'[q] = costMem[q] /\ costDisk'[q] = costDisk[q]
                                    /\ paid'[q] = paid[q]
  PROVE  (\A q \in Plans : PlanInv(q))'
<1> SUFFICES ASSUME NEW q \in Plans, q # p PROVE PlanInv(q)'
  OBVIOUS
<1>1. worker'[q] = worker[q]
  BY DEF SpendInv, BookInv
<1> QED BY <1>1, OtherPlan DEF SpendInv

\* A worker makes its call: nothing is recorded, locked or persisted.
LEMMA CallGoesOn ==
  ASSUME SpendInv, NEW p \in Plans, NEW w, worker' = [worker EXCEPT ![p] = w],
         worker[p].pc \in Calling, w.pc \in Calling, WorkerInv(w),
         UNCHANGED <<day, files, lockMem, queue, costMem, crashes, faults>>,
         paid' = [paid EXCEPT ![p] = @ + (Sent(w.proxy) - Sent(worker[p].proxy))],
         Sent(w.proxy) >= Sent(worker[p].proxy)
  PROVE  SpendInv'
<1> USE DEF SpendInv
<1>0. /\ worker'[p] = w /\ Sent(w.proxy) \in Nat /\ Sent(worker[p].proxy) \in Nat
      /\ Sent(w.proxy) <= MaxRequests
  BY Metered DEF BookInv, WorkerInv, Worker
<1>1. paid' \in [Plans -> Nat] /\ paid'[p] = paid[p] + (Sent(w.proxy) - Sent(worker[p].proxy))
  BY <1>0 DEF BookInv
<1>2. BookInv'
  BY <1>1, BooksKept DEF BookInv, files
<1>3. QueueInv'
  BY QuietQueue DEF Calling
<1>4. DayInv'
  <2>1. Owing' \subseteq Owing
    BY OwingShrinks DEF Unrecorded
  <2> QED BY <2>1, QuietDay DEF files
<1>5. PlanInv(p)'
  <2>1. /\ paid[p] \in Nat /\ costMem[p] \in Nat /\ costDisk[p] \in Nat
        /\ Forgiven \in Nat /\ Forgiven' = Forgiven /\ MaxRequests \in Nat /\ Cap \in Nat
    BY RequestsAssumption, CapsAssumption, Times DEF BookInv, Forgiven
  <2>2. /\ paid[p] <= costMem[p] + Forgiven + Sent(worker[p].proxy) /\ costMem[p] < Cap
        /\ costMem[p] = costDisk[p]
    BY DEF PlanInv, Calling
  <2>3. /\ paid'[p] <= costMem[p] + Forgiven + Sent(w.proxy)
        /\ paid'[p] <= costDisk[p] + Forgiven + MaxRequests
        /\ paid'[p] <= Cap - 1 + Forgiven + MaxRequests
    BY <1>0, <1>1, <2>1, <2>2
  <2>4. costMem' = costMem /\ costDisk' = costDisk
    BY DEF files
  <2> QED BY <1>0, <2>1, <2>2, <2>3, <2>4 DEF PlanInv, Calling
<1>6. (\A q \in Plans : PlanInv(q))'
  <2>1. Locked => Locked'
    BY DEF Locked, files
  <2>2. \A q \in Plans : q # p => paid'[q] = paid[q]
    BY DEF BookInv
  <2> QED BY <1>5, <2>1, <2>2, PlansKept DEF files
<1> QED BY <1>2, <1>3, <1>4, <1>6

LEMMA StartKeeps ==
  ASSUME SpendInv, NEW p \in Plans, Start(p)
  PROVE  SpendInv'
<1> USE DEF SpendInv
<1> DEFINE w == [worker[p] EXCEPT !.pc = "engine"]
<1>0. /\ worker[p] = Idle /\ worker' = [worker EXCEPT ![p] = w] /\ worker'[p] = w
      /\ UNCHANGED <<day, ledger, lockMem, lockFile, queue, costMem, costDisk, paid, crashes, faults>>
  BY DEF Start, BookInv, WorkerInv, files, history
<1>1. /\ w \in Worker /\ w.pc = "engine" /\ w.proxy = NewProxy /\ w.due = 0
  <2>1. worker[p] \in Worker /\ worker[p].proxy = NewProxy /\ worker[p].due = 0
    BY <1>0, FreshWorker
  <2> QED BY <2>1 DEF Worker
<1>2. WorkerInv(w)
  BY <1>1, FreshWorker, RequestsAssumption DEF WorkerInv, Calling
<1> HIDE DEF w
<1>3. BookInv'
  BY <1>0, <1>2, BooksKept DEF BookInv
<1>4. QueueInv'
  BY <1>0, <1>1, FreshWorker, QuietQueue
<1>5. DayInv'
  <2>1. ledger[day] < Hard /\ ledger[day] \in Nat /\ Hard \in Nat
    BY CapsAssumption DEF Start, CheckDaily, BookInv
  <2> QED BY <1>0, <2>1 DEF DayInv
<1>6. PlanInv(p)'
  <2>1. /\ paid[p] \in Nat /\ costMem[p] \in Nat /\ Cap \in Nat
        /\ Forgiven \in Nat /\ Forgiven' = Forgiven
    BY <1>0, RequestsAssumption, CapsAssumption, Times DEF BookInv, Forgiven
  <2>2. ~Locked /\ costMem[p] < Cap
    BY DEF Start, CheckDaily, CheckPlanBudget
  <2>3. paid[p] <= costMem[p] + Forgiven /\ costMem[p] = costDisk[p]
    BY <1>0, <2>2, FreshWorker DEF PlanInv
  <2> QED BY <1>0, <1>1, <2>1, <2>2, <2>3, FreshWorker DEF PlanInv, Calling
<1>7. (\A q \in Plans : PlanInv(q))'
  <2>1. Locked => Locked'
    BY <1>0 DEF Locked
  <2> QED BY <1>0, <1>6, <2>1, PlansKept
<1> QED BY <1>3, <1>4, <1>5, <1>7

LEMMA RequestsKeeps ==
  ASSUME SpendInv, NEW p \in Plans, Requests(p)
  PROVE  SpendInv'
<1> DEFINE x == worker[p].proxy
<1>0. /\ worker[p] \in Worker /\ x \in Proxy /\ worker[p].pc = "engine"
      /\ worker[p].due = Sent(x) /\ Sent(x) \in Nat /\ Sent(x) <= MaxRequests
  BY Metered DEF SpendInv, BookInv, WorkerInv, Requests, Worker, Calling
<1>1. CASE /\ Sent(x) < MaxRequests
           /\ worker' = [worker EXCEPT ![p].proxy = Forwarded(@), ![p].due = @ + 1]
           /\ paid' = [paid EXCEPT ![p] = @ + 1]
  <2> DEFINE w == [worker[p] EXCEPT !.proxy = Forwarded(x), !.due = @ + 1]
  <2>1. worker' = [worker EXCEPT ![p] = w]
    BY <1>1 DEF SpendInv, BookInv
  <2>2. Forwarded(x) \in Proxy /\ Sent(Forwarded(x)) = Sent(x) + 1
    BY <1>0, <1>1, Metered
  <2>3. w \in Worker /\ w.pc = "engine" /\ w.proxy = Forwarded(x) /\ w.due = Sent(x) + 1
    <3>1. worker[p].due + 1 \in 0..MaxRequests
      BY <1>0, <1>1, RequestsAssumption
    <3> QED BY <1>0, <2>2, <3>1 DEF Worker
  <2>4. WorkerInv(w)
    BY <1>0, <1>1, <2>2, <2>3, RequestsAssumption DEF WorkerInv
  <2>5. paid' = [paid EXCEPT ![p] = @ + (Sent(w.proxy) - Sent(worker[p].proxy))]
    <3>1. Sent(w.proxy) - Sent(worker[p].proxy) = 1
      BY <1>0, <2>2, <2>3
    <3> QED BY <1>1, <3>1
  <2> HIDE DEF w
  <2>6. Sent(w.proxy) >= Sent(worker[p].proxy)
        /\ worker[p].pc \in Calling /\ w.pc \in Calling
    BY <1>0, <2>2, <2>3 DEF Calling
  <2>7. UNCHANGED <<day, files, lockMem, queue, costMem, crashes, faults>>
    BY DEF Requests
  <2> QED BY <2>1, <2>4, <2>5, <2>6, <2>7, CallGoesOn
<1>2. CASE worker' = [worker EXCEPT ![p].proxy = Refused(@)] /\ UNCHANGED paid
  <2> DEFINE w == [worker[p] EXCEPT !.proxy = Refused(x)]
  <2>1. worker' = [worker EXCEPT ![p] = w]
    BY <1>2 DEF SpendInv, BookInv
  <2>2. Refused(x) \in Proxy /\ Sent(Refused(x)) = Sent(x)
    BY <1>0, Metered
  <2>3. w \in Worker /\ w.pc = "engine" /\ w.proxy = Refused(x) /\ w.due = Sent(x)
    BY <1>0, <2>2 DEF Worker
  <2>4. WorkerInv(w)
    BY <1>0, <2>2, <2>3 DEF WorkerInv
  <2>5. paid' = [paid EXCEPT ![p] = @ + (Sent(w.proxy) - Sent(worker[p].proxy))]
    <3>1. Sent(w.proxy) - Sent(worker[p].proxy) = 0
      BY <1>0, <2>2, <2>3
    <3>2. paid = [paid EXCEPT ![p] = @ + 0]
      BY DEF SpendInv, BookInv
    <3> QED BY <1>2, <3>1, <3>2
  <2> HIDE DEF w
  <2>6. Sent(w.proxy) >= Sent(worker[p].proxy)
        /\ worker[p].pc \in Calling /\ w.pc \in Calling
    BY <1>0, <2>2, <2>3 DEF Calling
  <2>7. UNCHANGED <<day, files, lockMem, queue, costMem, crashes, faults>>
    BY DEF Requests
  <2> QED BY <2>1, <2>4, <2>5, <2>6, <2>7, CallGoesOn
<1> QED BY <1>1, <1>2 DEF Requests

LEMMA AnsweredKeeps ==
  ASSUME SpendInv, NEW p \in Plans, Answered(p) \/ AgentExits(p)
  PROVE  SpendInv'
<1> DEFINE x == worker[p].proxy
<1>0. /\ worker[p] \in Worker /\ x \in Proxy /\ worker[p].pc \in Calling
      /\ worker[p].due = Sent(x) /\ Sent(x) \in Nat /\ Sent(x) <= MaxRequests
  BY Metered DEF SpendInv, BookInv, WorkerInv, Answered, AgentExits, Worker, Calling
<1>1. PICK w : /\ worker' = [worker EXCEPT ![p] = w] /\ w \in Worker /\ w.pc \in Calling
               /\ Sent(w.proxy) = Sent(x) /\ w.due = Sent(x)
  <2>1. CASE Answered(p)
    <3>1. PICK y \in Answers(x) : worker' = [worker EXCEPT ![p].proxy = y]
      BY <2>1 DEF Answered
    <3>2. y \in Proxy /\ Sent(y) = Sent(x)
      BY <1>0, <2>1, Metered DEF Answered
    <3> DEFINE v == [worker[p] EXCEPT !.proxy = y]
    <3>3. worker' = [worker EXCEPT ![p] = v]
      BY <3>1 DEF SpendInv, BookInv
    <3>4. v \in Worker /\ v.pc = worker[p].pc /\ v.proxy = y /\ v.due = Sent(x)
      BY <1>0, <3>2 DEF Worker
    <3> HIDE DEF v
    <3> QED BY <1>0, <3>2, <3>3, <3>4
  <2>2. CASE AgentExits(p)
    <3> DEFINE v == [worker[p] EXCEPT !.pc = "closing"]
    <3>3. worker' = [worker EXCEPT ![p] = v]
      BY <2>2 DEF AgentExits, SpendInv, BookInv
    <3>4. v \in Worker /\ v.pc = "closing" /\ v.proxy = x /\ v.due = Sent(x)
      BY <1>0 DEF Worker
    <3> HIDE DEF v
    <3> QED BY <1>0, <3>3, <3>4 DEF Calling
  <2> QED BY <2>1, <2>2
<1>2. WorkerInv(w)
  BY <1>0, <1>1 DEF WorkerInv, Calling
<1>3. paid' = [paid EXCEPT ![p] = @ + (Sent(w.proxy) - Sent(worker[p].proxy))]
  <2>1. Sent(w.proxy) - Sent(worker[p].proxy) = 0
    BY <1>0, <1>1
  <2>2. paid = [paid EXCEPT ![p] = @ + 0]
    BY DEF SpendInv, BookInv
  <2> QED BY <2>1, <2>2 DEF Answered, AgentExits, history
<1>4. Sent(w.proxy) >= Sent(worker[p].proxy)
  BY <1>0, <1>1
<1>5. UNCHANGED <<day, files, lockMem, queue, costMem, crashes, faults>>
  BY DEF Answered, AgentExits
<1> QED BY <1>0, <1>1, <1>2, <1>3, <1>4, <1>5, CallGoesOn

------------------------------------------------------------------------------
\* What a plan's record and caps are made of.
LEMMA PlanNumbers ==
  ASSUME BookInv, NEW p \in Plans
  PROVE  /\ paid[p] \in Nat /\ costMem[p] \in Nat /\ costDisk[p] \in Nat
         /\ Forgiven \in Nat /\ MaxRequests \in Nat /\ Cap \in Nat
BY RequestsAssumption, CapsAssumption, Times DEF BookInv, Forgiven

\* A worker joins the queue behind the others.
LEMMA JoinQueue ==
  ASSUME BookInv, QueueInv, NEW p \in Plans, NEW w, worker' = [worker EXCEPT ![p] = w],
         worker[p].pc # "queued", w.pc = "queued", w.cost \in 0..MaxRequests,
         queue' = Append(queue, [plan |-> p, cost |-> w.cost])
  PROVE  QueueInv'
<1> DEFINE r == [plan |-> p, cost |-> w.cost]
           n == Len(queue)
<1>1. r \in Record /\ r.plan = p /\ r.cost = w.cost
  BY DEF Record
<1> HIDE DEF r
<1>2. /\ n \in Nat /\ queue' \in Seq(Record) /\ Len(queue') = n + 1 /\ queue'[n + 1] = r
      /\ \A i \in 1..n : queue'[i] = queue[i]
  BY <1>1 DEF QueueInv, r
<1>3. worker'[p] = w /\ \A q \in Plans : q # p => worker'[q] = worker[q]
  BY DEF BookInv
<1>4. \A i \in 1..n : queue[i].plan \in Plans /\ queue[i].plan # p
  <2> TAKE i \in 1..n
  <2>1. queue[i] \in Record
    BY DEF QueueInv
  <2> QED BY <2>1 DEF QueueInv, Record
<1>5. \A i \in 1..Len(queue') : i \in 1..n \/ i = n + 1
  BY <1>2
<1>6. \A i \in 1..Len(queue') : worker'[queue'[i].plan].pc = "queued"
                                 /\ queue'[i].cost = worker'[queue'[i].plan].cost
  <2> TAKE i \in 1..Len(queue')
  <2>1. CASE i \in 1..n
    BY <1>2, <1>3, <1>4, <2>1 DEF QueueInv
  <2>2. CASE i = n + 1
    BY <1>1, <1>2, <1>3, <2>2
  <2> QED BY <1>5, <2>1, <2>2
<1>7. \A i, j \in 1..Len(queue') : queue'[i].plan = queue'[j].plan => i = j
  BY <1>1, <1>2, <1>4, <1>5 DEF QueueInv
<1>8. \A q \in Plans : worker'[q].pc = "queued"
                          => \E i \in 1..Len(queue') : queue'[i].plan = q
  <2> TAKE q \in Plans
  <2>1. CASE q = p
    BY <1>1, <1>2, <2>1
  <2>2. CASE q # p
    <3> HAVE worker'[q].pc = "queued"
    <3>1. PICK i \in 1..n : queue[i].plan = q
      BY <1>3, <2>2 DEF QueueInv
    <3> QED BY <1>2, <3>1
  <2> QED BY <2>1, <2>2
<1> QED BY <1>2, <1>6, <1>7, <1>8 DEF QueueInv

\* The first in the queue is served.
LEMMA LeaveQueue ==
  ASSUME BookInv, QueueInv, queue # <<>>, queue' = Tail(queue),
         NEW p \in Plans, p = Head(queue).plan,
         NEW w, worker' = [worker EXCEPT ![p] = w], w.pc # "queued"
  PROVE  QueueInv'
<1> DEFINE n == Len(queue)
<1>1. /\ n \in Nat \ {0} /\ queue' \in Seq(Record) /\ Len(queue') = n - 1
      /\ \A i \in 1..(n - 1) : queue'[i] = queue[i + 1]
      /\ queue[1].plan = p
  BY DEF QueueInv
<1>2. worker'[p] = w /\ \A q \in Plans : q # p => worker'[q] = worker[q]
  BY DEF BookInv
<1>3. \A i \in 1..(n - 1) : /\ i + 1 \in 1..n /\ queue'[i] = queue[i + 1]
                            /\ queue[i + 1].plan \in Plans /\ queue[i + 1].plan # p
  <2> TAKE i \in 1..(n - 1)
  <2>1. i + 1 \in 1..n /\ 1 \in 1..n /\ i + 1 # 1
    BY <1>1
  <2>2. queue[i + 1] \in Record
    BY <2>1 DEF QueueInv
  <2>3. queue[i + 1].plan # queue[1].plan
    BY <2>1 DEF QueueInv
  <2> QED BY <1>1, <2>1, <2>2, <2>3 DEF Record
<1>4. \A i \in 1..Len(queue') : worker'[queue'[i].plan].pc = "queued"
                                 /\ queue'[i].cost = worker'[queue'[i].plan].cost
  BY <1>1, <1>2, <1>3 DEF QueueInv
<1>5. \A i, j \in 1..Len(queue') : queue'[i].plan = queue'[j].plan => i = j
  <2> TAKE i, j \in 1..Len(queue')
  <2> HAVE queue'[i].plan = queue'[j].plan
  <2>1. i + 1 = j + 1
    BY <1>1, <1>3 DEF QueueInv
  <2> QED BY <1>1, <2>1
<1>6. \A q \in Plans : worker'[q].pc = "queued"
                          => \E i \in 1..Len(queue') : queue'[i].plan = q
  <2> TAKE q \in Plans
  <2> HAVE worker'[q].pc = "queued"
  <2>1. q # p /\ worker[q].pc = "queued"
    BY <1>2
  <2>2. PICK i \in 1..n : queue[i].plan = q
    BY <2>1 DEF QueueInv
  <2>3. i # 1 /\ i - 1 \in 1..(n - 1) /\ (i - 1) + 1 = i
    BY <1>1, <2>1, <2>2
  <2> QED BY <1>1, <2>2, <2>3
<1> QED BY <1>1, <1>4, <1>5, <1>6 DEF QueueInv

------------------------------------------------------------------------------
LEMMA FinalizeKeeps ==
  ASSUME SpendInv, NEW p \in Plans, Finalize(p)
  PROVE  SpendInv'
<1> USE DEF SpendInv
<1>1. /\ worker[p] \in Worker /\ worker[p].proxy \in Proxy /\ worker[p].pc = "closing"
      /\ worker[p].due = Sent(worker[p].proxy) /\ Sent(worker[p].proxy) \in Nat
      /\ Sent(worker[p].proxy) <= MaxRequests
  BY Metered DEF BookInv, WorkerInv, Finalize, Worker, Calling
<1>2. /\ UNCHANGED <<day, ledger, costMem, costDisk, paid, crashes>>
  BY DEF Finalize, history
<1>3. PICK x, found :
        /\ x \in Closed(worker[p].proxy) /\ found \in Reconciled(x)
        /\ LET acc == Accounting(x, found) IN
           \/ /\ acc.exact \/ acc.known > 0
              /\ worker' = [worker EXCEPT ![p] =
                   [Idle EXCEPT !.pc = "queued", !.exact = acc.exact, !.cost = acc.known,
                                !.due = worker[p].due]]
              /\ queue' = Append(queue, [plan |-> p, cost |-> acc.known])
              /\ NoLock
           \/ /\ acc.known = 0
              /\ worker' = [worker EXCEPT ![p] = Idle]
              /\ IF acc.exact THEN NoLock ELSE Lock
              /\ UNCHANGED queue
  BY DEF Finalize
<1> DEFINE acc == Accounting(x, found)
<1>4. /\ acc.known \in 0..MaxRequests /\ acc.known <= Sent(worker[p].proxy)
      /\ acc.exact \in BOOLEAN
      /\ acc.exact => acc.known = Sent(worker[p].proxy)
  <2>1. x \in Proxy /\ Sent(x) = Sent(worker[p].proxy)
    BY <1>1, <1>3, Metered
  <2> QED BY <1>3, <2>1, Accounted
<1>5. /\ paid[p] <= costMem[p] + Forgiven + Sent(worker[p].proxy) /\ costMem[p] = costDisk[p]
      /\ paid[p] <= costDisk[p] + Forgiven + MaxRequests
      /\ paid[p] <= Cap - 1 + Forgiven + MaxRequests
  BY <1>1 DEF PlanInv, Calling
<1>6. Forgiven' = Forgiven
  BY <1>2 DEF Forgiven
<1> HIDE DEF acc
<1>7. CASE /\ worker' = [worker EXCEPT ![p] =
                [Idle EXCEPT !.pc = "queued", !.exact = acc.exact, !.cost = acc.known,
                             !.due = worker[p].due]]
           /\ queue' = Append(queue, [plan |-> p, cost |-> acc.known])
           /\ NoLock
  <2> DEFINE w == [Idle EXCEPT !.pc = "queued", !.exact = acc.exact, !.cost = acc.known,
                               !.due = worker[p].due]
  <2>1. worker[p].due \in 0..MaxRequests
    BY <1>1 DEF Worker
  <2>2. /\ w \in Worker /\ w.pc = "queued" /\ w.exact = acc.exact /\ w.cost = acc.known
        /\ w.due = worker[p].due /\ w.proxy = NewProxy
    BY <1>4, <2>1, FreshWorker DEF Worker
  <2>3. worker' = [worker EXCEPT ![p] = w]
    BY <1>7
  <2> HIDE DEF w
  <2>4. WorkerInv(w)
    BY <1>1, <1>4, <2>2, FreshWorker, RequestsAssumption DEF WorkerInv, Calling
  <2>5. BookInv'
    BY <1>2, <1>7, <2>3, <2>4, BooksKept DEF BookInv, NoLock
  <2>6. QueueInv'
    BY <1>1, <1>4, <1>7, <2>2, <2>3, JoinQueue
  <2>7. DayInv'
    <3>1. Owing' \subseteq Owing
      BY <1>1, <2>3, OwingShrinks DEF Unrecorded, Calling
    <3> QED BY <1>2, <3>1, QuietDay
  <2>8. PlanInv(p)'
    <3>1. worker'[p] = w
      BY <2>3 DEF BookInv
    <3>2. UNCHANGED Locked
      BY <1>7 DEF Locked, NoLock
    <3> QED BY <1>2, <1>4, <1>5, <1>6, <2>2, <3>1, PlanNumbers DEF PlanInv, Calling
  <2>9. (\A q \in Plans : PlanInv(q))'
    <3>1. Locked => Locked'
      BY <1>7 DEF Locked, NoLock
    <3> QED BY <1>2, <2>3, <2>8, <3>1, PlansKept
  <2> QED BY <2>5, <2>6, <2>7, <2>9
<1>8. CASE /\ acc.known = 0
           /\ worker' = [worker EXCEPT ![p] = Idle]
           /\ IF acc.exact THEN NoLock ELSE Lock
           /\ UNCHANGED queue
  <2>1. /\ lockMem' \in BOOLEAN /\ lockFile' \in BOOLEAN /\ faults' \in Nat
        /\ Locked => Locked'
    BY <1>8, LockTypes
  <2>2. ~Locked' => acc.exact
    BY <1>8, LockSets DEF Lock
  <2>3. BookInv'
    BY <1>2, <1>8, <2>1, FreshWorker, BooksKept DEF BookInv
  <2>4. QueueInv'
    BY <1>1, <1>8, FreshWorker, QuietQueue
  <2>5. DayInv'
    <3>1. Owing' \subseteq Owing
      BY <1>8, FreshWorker, OwingShrinks DEF Unrecorded, Calling
    <3> QED BY <1>2, <3>1, QuietDay
  <2>6. PlanInv(p)'
    <3>1. worker'[p] = Idle
      BY <1>8 DEF BookInv
    <3>2. ~Locked' => paid[p] <= costMem[p] + Forgiven
      BY <1>4, <1>5, <1>8, <2>2, PlanNumbers
    <3> QED BY <1>2, <1>5, <1>6, <3>1, <3>2, FreshWorker, PlanNumbers DEF PlanInv, Calling
  <2>7. (\A q \in Plans : PlanInv(q))'
    BY <1>2, <1>8, <2>1, <2>6, PlansKept
  <2> QED BY <2>3, <2>4, <2>5, <2>7
<1> QED BY <1>3, <1>7, <1>8 DEF acc

LEMMA PersistKeeps ==
  ASSUME SpendInv, NEW p \in Plans, Persist(p)
  PROVE  SpendInv'
<1> USE DEF SpendInv
<1>1. /\ worker[p] \in Worker /\ worker[p].pc = "persist" /\ worker[p].cost \in Nat
      /\ UNCHANGED <<day, ledger, queue, paid, crashes>>
      /\ worker' = [worker EXCEPT ![p] = Idle]
  BY RequestsAssumption DEF BookInv, Persist, history, Worker
<1>2. /\ costMem' \in [Plans -> Nat] /\ costMem'[p] = costMem[p] + worker[p].cost
      /\ \A q \in Plans : q # p => costMem'[q] = costMem[q]
  BY <1>1 DEF Persist, BookInv
<1>3. \/ /\ costDisk' = [costDisk EXCEPT ![p] = costMem'[p]]
         /\ IF worker[p].exact THEN NoLock ELSE Lock
      \/ LockAfter(1) /\ UNCHANGED costDisk
  BY DEF Persist
<1>4. /\ lockMem' \in BOOLEAN /\ lockFile' \in BOOLEAN /\ faults' \in Nat
      /\ Locked => Locked'
  BY <1>3, LockTypes
<1>5. /\ costDisk' \in [Plans -> Nat]
      /\ costDisk'[p] = costMem'[p] \/ (costDisk'[p] = costDisk[p] /\ Locked')
      /\ \A q \in Plans : q # p => costDisk'[q] = costDisk[q]
  <2>1. CASE costDisk' = [costDisk EXCEPT ![p] = costMem'[p]]
    BY <1>2, <2>1 DEF BookInv
  <2>2. CASE LockAfter(1) /\ UNCHANGED costDisk
    BY <2>2, LockSets DEF BookInv
  <2> QED BY <1>3, <2>1, <2>2
<1>6. ~Locked' => worker[p].exact
  BY <1>3, LockSets DEF Lock
<1>7. BookInv'
  BY <1>1, <1>2, <1>4, <1>5, FreshWorker, BooksKept DEF BookInv
<1>8. QueueInv'
  BY <1>1, FreshWorker, QuietQueue
<1>9. DayInv'
  <2>1. Owing' \subseteq Owing
    BY <1>1, FreshWorker, OwingShrinks DEF Unrecorded, Calling
  <2> QED BY <1>1, <2>1, QuietDay
<1>10. PlanInv(p)'
  <2>1. worker'[p] = Idle /\ Forgiven' = Forgiven /\ paid' = paid
    BY <1>1 DEF BookInv, Forgiven
  <2>2. /\ costMem[p] = costDisk[p]
        /\ worker[p].exact => paid[p] <= costMem[p] + Forgiven + worker[p].cost
        /\ paid[p] <= costDisk[p] + Forgiven + MaxRequests
        /\ paid[p] <= Cap - 1 + Forgiven + MaxRequests
    BY <1>1 DEF PlanInv
  <2>3. costDisk'[p] >= costDisk[p] /\ costDisk'[p] \in Nat
    BY <1>1, <1>2, <1>5, <2>2, PlanNumbers
  <2>4. paid[p] <= costDisk'[p] + Forgiven + MaxRequests
    BY <2>2, <2>3, PlanNumbers
  <2>5. ~Locked' => paid[p] <= costMem'[p] + Forgiven
    BY <1>1, <1>2, <1>6, <2>2, PlanNumbers
  <2> QED BY <1>5, <2>1, <2>2, <2>4, <2>5, FreshWorker DEF PlanInv, Calling
<1>11. (\A q \in Plans : PlanInv(q))'
  BY <1>1, <1>2, <1>4, <1>5, <1>10, PlansKept
<1> QED BY <1>7, <1>8, <1>9, <1>11

LEMMA RecordSpendKeeps ==
  ASSUME SpendInv, RecordSpend
  PROVE  SpendInv'
<1> USE DEF SpendInv
<1>0. PICK r : r = Head(queue)
  OBVIOUS
<1> DEFINE p == r.plan
<1>1. /\ queue # <<>> /\ queue' = Tail(queue)
      /\ UNCHANGED <<costMem, costDisk, paid, crashes>>
  BY DEF RecordSpend
<1>2. r \in Record /\ worker[p].pc = "queued" /\ r.cost = worker[p].cost
  <2>1. queue \in Seq(Record) /\ Len(queue) \in Nat \ {0} /\ 1 \in 1..Len(queue) /\ r = queue[1]
    BY <1>0, <1>1 DEF QueueInv
  <2> QED BY <2>1 DEF QueueInv
<1>3. p \in Plans /\ r.cost \in 0..MaxRequests
  BY <1>2 DEF Record
<1>4. \/ /\ ~Locked
         /\ day' \in {day, day + 1} /\ day' <= Days
         /\ ledger' = [ledger EXCEPT ![day'] = ledger[day] + r.cost]
         /\ worker' = [worker EXCEPT ![p].pc = "persist", ![p].due = @ - r.cost]
         /\ NoLock
      \/ /\ Lock \/ LockAfter(1)
         /\ worker' = [worker EXCEPT ![p] = Idle]
         /\ UNCHANGED <<day, ledger>>
  BY <1>0 DEF RecordSpend
<1> HIDE DEF p
<1>5. /\ worker[p] \in Worker /\ worker[p].cost <= worker[p].due
      /\ Sent(worker[p].proxy) <= MaxRequests
      /\ p = Head(queue).plan
  BY <1>0, <1>2, <1>3 DEF BookInv, WorkerInv, p
<1>6. /\ costMem[p] = costDisk[p]
      /\ paid[p] <= costDisk[p] + Forgiven + MaxRequests
      /\ paid[p] <= Cap - 1 + Forgiven + MaxRequests
      /\ worker[p].exact => paid[p] <= costMem[p] + Forgiven + worker[p].cost
      /\ Forgiven' = Forgiven
  BY <1>1, <1>2, <1>3 DEF PlanInv, Forgiven
<1>7. CASE /\ ~Locked
           /\ day' \in {day, day + 1} /\ day' <= Days
           /\ ledger' = [ledger EXCEPT ![day'] = ledger[day] + r.cost]
           /\ worker' = [worker EXCEPT ![p].pc = "persist", ![p].due = @ - r.cost]
           /\ NoLock
  <2> DEFINE w == [worker[p] EXCEPT !.pc = "persist", !.due = @ - r.cost]
  <2>1. worker' = [worker EXCEPT ![p] = w]
    BY <1>3, <1>7 DEF BookInv
  <2>2. /\ w \in Worker /\ w.pc = "persist" /\ w.proxy = worker[p].proxy
        /\ w.cost = worker[p].cost /\ w.exact = worker[p].exact
    <3>1. worker[p].due - r.cost \in 0..MaxRequests
      BY <1>2, <1>3, <1>5, RequestsAssumption DEF Worker
    <3> QED BY <1>5, <3>1 DEF Worker
  <2> HIDE DEF w
  <2>3. WorkerInv(w)
    BY <1>5, <2>2 DEF WorkerInv, Calling
  <2>4. /\ ledger' \in [0..Days -> Nat] /\ ledger'[day'] = ledger[day] + r.cost
        /\ day \in 0..Days /\ day' \in 0..Days /\ day <= day'
        /\ \A d \in 0..Days : d # day' => ledger'[d] = ledger[d]
    <3>1. day' \in 0..Days /\ day <= day' /\ day \in 0..Days
      BY <1>7, BoundsAssumption DEF BookInv
    <3>2. ledger[day] + r.cost \in Nat /\ ledger \in [0..Days -> Nat]
      <4>1. ledger[day] \in Nat /\ ledger \in [0..Days -> Nat]
        BY <3>1 DEF BookInv
      <4>2. r.cost \in Nat
        BY <1>3, RequestsAssumption
      <4> QED BY <4>1, <4>2
    <3> QED BY <1>7, <3>1, <3>2
  <2>5. BookInv'
    <3>1. worker' \in [Plans -> Worker]
      BY <1>3, <2>1, <2>2 DEF BookInv
    <3>2. (\A q \in Plans : WorkerInv(worker[q]))'
      <4> SUFFICES ASSUME NEW q \in Plans PROVE WorkerInv(worker'[q])
        BY DEF WorkerInv
      <4> QED BY <1>3, <2>1, <2>3 DEF BookInv
    <3> QED BY <1>1, <1>7, <2>4, <3>1, <3>2 DEF BookInv, NoLock
  <2>6. QueueInv'
    BY <1>1, <1>3, <1>5, <2>1, <2>2, LeaveQueue
  <2>7. DayInv'
    <3>1. Owing' = Owing \ {p} /\ p \in Owing
      BY <1>2, <1>3, <2>1, <2>2 DEF Owing, BookInv, Unrecorded, Calling
    <3>2. Free' = Free + 1 /\ Free \in Nat /\ Free' \in Nat /\ Free' <= Cardinality(Plans)
      <4>1. Cardinality(Owing') = Cardinality(Owing) - 1 /\ Cardinality(Owing') \in Nat
        BY <3>1, OwingFinite, FS_RemoveElement, FS_CardinalityType
      <4> QED BY <4>1, OwingFinite DEF Free
    <3> DEFINE few == MaxRequests * Free
               more == MaxRequests * Free'
               most == MaxRequests * Cardinality(Plans)
    <3>3. /\ more = few + MaxRequests /\ more <= most
          /\ few \in Nat /\ more \in Nat /\ most \in Nat
      <4>1. MaxRequests \in Nat /\ Cardinality(Plans) \in Nat
        BY RequestsAssumption, OwingFinite
      <4>2. MaxRequests * (Free + 1) = MaxRequests * Free + MaxRequests
        BY <3>2, <4>1, Times
      <4> QED BY <3>2, <4>1, <4>2, Times
    <3>4. /\ ledger[day] \in Nat /\ Hard \in Nat \ {0} /\ r.cost \in Nat /\ r.cost <= MaxRequests
          /\ ledger[day] >= Hard => ledger[day] <= Hard - 1 + few
          /\ MaxRequests \in Nat
      <4>1. ledger[day] \in Nat /\ Hard \in Nat \ {0} /\ MaxRequests \in Nat
        BY <2>4, CapsAssumption, RequestsAssumption DEF BookInv
      <4>2. r.cost \in Nat /\ r.cost <= MaxRequests
        BY <1>3, RequestsAssumption
      <4>3. ledger[day] >= Hard => ledger[day] <= Hard - 1 + few
        BY DEF DayInv
      <4> QED BY <4>1, <4>2, <4>3
    <3> HIDE DEF few, more, most
    <3>5. ledger'[day'] <= Hard - 1 + more
      BY <2>4, <3>3, <3>4
    <3>6. ledger'[day'] <= Hard - 1 + most
      BY <2>4, <3>3, <3>4, <3>5
    <3>7. \A d \in 0..Days : ledger'[d] <= Hard - 1 + most
      BY <2>4, <3>6 DEF DayInv, most
    <3>8. \A d \in 0..Days : d > day' => ledger'[d] = 0
      BY <2>4 DEF DayInv
    <3> QED BY <1>1, <3>5, <3>7, <3>8 DEF DayInv, more, most
  <2>8. PlanInv(p)'
    <3>1. worker'[p] = w
      BY <1>3, <2>1 DEF BookInv
    <3> QED BY <1>1, <1>6, <2>2, <3>1 DEF PlanInv, Calling
  <2>9. (\A q \in Plans : PlanInv(q))'
    <3>1. Locked => Locked'
      BY <1>7 DEF Locked, NoLock
    <3> QED BY <1>1, <1>3, <2>1, <2>8, <3>1, PlansKept
  <2> QED BY <2>5, <2>6, <2>7, <2>9
<1>8. CASE /\ Lock \/ LockAfter(1)
           /\ worker' = [worker EXCEPT ![p] = Idle]
           /\ UNCHANGED <<day, ledger>>
  <2>1. lockMem' \in BOOLEAN /\ lockFile' \in BOOLEAN /\ faults' \in Nat /\ Locked'
    BY <1>8, LockSets DEF Lock
  <2>2. BookInv'
    BY <1>1, <1>3, <1>8, <2>1, FreshWorker, BooksKept DEF BookInv
  <2>3. QueueInv'
    BY <1>1, <1>3, <1>5, <1>8, FreshWorker, LeaveQueue
  <2>4. DayInv'
    <3>1. Owing' \subseteq Owing
      BY <1>3, <1>8, FreshWorker, OwingShrinks DEF Unrecorded, Calling
    <3> QED BY <1>1, <1>8, <3>1, QuietDay
  <2>5. PlanInv(p)'
    <3>1. worker'[p] = Idle
      BY <1>3, <1>8 DEF BookInv
    <3> QED BY <1>1, <1>6, <2>1, <3>1, FreshWorker DEF PlanInv, Calling
  <2>6. (\A q \in Plans : PlanInv(q))'
    BY <1>1, <1>3, <1>8, <2>1, <2>5, PlansKept
  <2> QED BY <2>2, <2>3, <2>4, <2>6
<1> QED BY <1>4, <1>7, <1>8

LEMMA MidnightKeeps ==
  ASSUME SpendInv, Midnight
  PROVE  SpendInv'
<1> USE DEF SpendInv
<1>1. /\ day < Days /\ day' = day + 1
      /\ UNCHANGED <<ledger, lockMem, lockFile, costDisk, queue, costMem, worker, paid, crashes, faults>>
  BY DEF Midnight, files, history
<1>2. day \in 0..Days /\ Days \in Nat /\ day' \in 0..Days
  BY <1>1, BoundsAssumption DEF BookInv
<1>3. BookInv' /\ QueueInv'
  BY <1>1, <1>2 DEF BookInv, QueueInv, WorkerInv
<1>4. DayInv'
  <2>1. ledger[day'] = 0 /\ Hard \in Nat \ {0}
    BY <1>1, <1>2, CapsAssumption DEF DayInv
  <2>2. \A d \in 0..Days : d > day' => d > day
    BY <1>1, <1>2
  <2> QED BY <1>1, <2>1, <2>2 DEF DayInv
<1>5. (\A q \in Plans : PlanInv(q))'
  BY <1>1 DEF PlanInv, Forgiven, Locked
<1> QED BY <1>3, <1>4, <1>5

LEMMA CrashKeeps ==
  ASSUME SpendInv, Crash
  PROVE  SpendInv'
<1> USE DEF SpendInv
<1>1. /\ crashes' = crashes + 1 /\ lockMem' = FALSE /\ queue' = <<>> /\ costMem' = costDisk
      /\ worker' = [q \in Plans |-> Idle]
      /\ UNCHANGED <<day, ledger, lockFile, costDisk, paid, faults>>
  BY DEF Crash, files
<1>2. BookInv'
  <2>1. worker' \in [Plans -> Worker] /\ \A q \in Plans : worker'[q] = Idle
    BY <1>1, FreshWorker
  <2>2. (\A q \in Plans : WorkerInv(worker[q]))'
    BY <2>1, FreshWorker DEF WorkerInv
  <2>3. /\ crashes' \in Nat /\ lockMem' \in BOOLEAN /\ lockFile' \in BOOLEAN
        /\ costMem' \in [Plans -> Nat] /\ costDisk' \in [Plans -> Nat]
        /\ paid' \in [Plans -> Nat] /\ faults' \in Nat
    <3>1. crashes' \in Nat
      BY <1>1 DEF BookInv
    <3>2. lockMem' \in BOOLEAN /\ lockFile' \in BOOLEAN
      BY <1>1, Zenon DEF BookInv
    <3>3. /\ costMem' \in [Plans -> Nat] /\ costDisk' \in [Plans -> Nat]
          /\ paid' \in [Plans -> Nat] /\ faults' \in Nat
      BY <1>1 DEF BookInv
    <3> QED BY <3>1, <3>2, <3>3
  <2>4. day' \in 0..Days /\ ledger' \in [0..Days -> Nat]
    BY <1>1 DEF BookInv
  <2> QED BY <2>1, <2>2, <2>3, <2>4 DEF BookInv
<1>3. QueueInv'
  BY <1>1, FreshWorker DEF QueueInv
<1>4. DayInv'
  <2>1. Owing' \subseteq Owing
    BY <1>1, FreshWorker DEF Owing, Unrecorded, Calling
  <2> QED BY <1>1, <2>1, QuietDay
<1>5. ASSUME NEW q \in Plans PROVE PlanInv(q)'
  <2>1. Forgiven' = Forgiven + MaxRequests
    BY <1>1, RequestsAssumption, Times DEF Forgiven, BookInv
  <2>2. /\ paid[q] <= costDisk[q] + Forgiven + MaxRequests
        /\ paid[q] <= Cap - 1 + Forgiven + MaxRequests
    BY DEF PlanInv
  <2>3. worker'[q] = Idle /\ paid' = paid /\ costDisk' = costDisk /\ costMem'[q] = costDisk[q]
    BY <1>1
  <2>4. /\ paid[q] <= costDisk[q] + Forgiven'
        /\ paid[q] <= costDisk[q] + Forgiven' + MaxRequests
        /\ paid[q] <= Cap - 1 + Forgiven' + MaxRequests
    BY <2>1, <2>2, PlanNumbers
  <2> QED BY <2>3, <2>4, FreshWorker DEF PlanInv, Calling
<1> QED BY <1>2, <1>3, <1>4, <1>5

LEMMA SpendNext == SpendInv /\ [Next]_vars => SpendInv'
<1> SUFFICES ASSUME SpendInv, [Next]_vars PROVE SpendInv'
  OBVIOUS
<1>1. CASE UNCHANGED vars
  BY <1>1 DEF vars, history, SpendInv, BookInv, QueueInv, PlanInv, DayInv, WorkerInv, Forgiven, Locked,
              Owing, Free
<1>2. CASE Next
  BY <1>2, StartKeeps, RequestsKeeps, AnsweredKeeps, FinalizeKeeps, PersistKeeps, RecordSpendKeeps,
     MidnightKeeps, CrashKeeps
  DEF Next, WorkerStep
<1> QED BY <1>1, <1>2

------------------------------------------------------------------------------
\* A day passes its hard cap by less than one call per worker (breakers.mjs:137), on
\* every day, across midnight and crashes.
THEOREM DayBounded == Spec => []DailyOvershoot
<1>1. SpendInv => DailyOvershoot
  BY DEF SpendInv, DayInv, DailyOvershoot
<1> QED BY <1>1, SpendInit, SpendNext, PTL DEF Spec

\* A plan passes its cap by less than one call, and by one more for each crash
\* (breakers.mjs:172): an unknown cost locks before the plan can go on.
THEOREM PlanBounded == Spec => []PlanOvershoot
<1>1. SpendInv => PlanOvershoot
  <2> SUFFICES ASSUME SpendInv, NEW p \in Plans
               PROVE  paid[p] <= Cap - 1 + MaxRequests * (1 + crashes)
    BY DEF PlanOvershoot
  <2>1. /\ paid[p] <= Cap - 1 + Forgiven + MaxRequests
        /\ crashes \in Nat
    BY DEF SpendInv, PlanInv, BookInv
  <2>2. MaxRequests * (1 + crashes) = Forgiven + MaxRequests
    <3>1. 1 + crashes = crashes + 1
      BY <2>1
    <3> QED BY <2>1, <3>1, RequestsAssumption, Times DEF Forgiven
  <2> QED BY <2>1, <2>2, PlanNumbers DEF SpendInv
<1> QED BY <1>1, SpendInit, SpendNext, PTL DEF Spec

------------------------------------------------------------------------------
(***************************************************************************)
(* Nothing billed goes unnoticed: sums over plans and days, counted unit   *)
(* by unit.                                                                *)
(***************************************************************************)
LEMMA UnitsFinite ==
  ASSUME NEW S, IsFiniteSet(S), NEW f \in [S -> Nat]
  PROVE  IsFiniteSet(Units(f)) /\ Total(f) \in Nat
<1> DEFINE Column(x) == {x} \X (1..f[x])
           Columns == {Column(x) : x \in S}
           column == [x \in S |-> Column(x)]
<1>1. column \in Surjection(S, Columns)
  BY DEF Surjection
<1>2. IsFiniteSet(Columns)
  BY <1>1, FS_Surjection
<1>3. ASSUME NEW x \in S PROVE IsFiniteSet(Column(x))
  <2>1. 1 \in Int /\ f[x] \in Int
    OBVIOUS
  <2>2. IsFiniteSet({x}) /\ IsFiniteSet(1..f[x])
    BY <2>1, FS_Singleton, FS_Interval
  <2> QED BY <2>2, FS_Product
<1>4. \A T \in Columns : IsFiniteSet(T)
  BY <1>3
<1>5. Units(f) = UNION Columns
  BY DEF Units
<1> HIDE DEF Columns
<1> QED BY <1>2, <1>4, <1>5, FS_UNION, FS_CardinalityType DEF Total

\* A sum grows by as much as one of its terms.
LEMMA TotalGrows ==
  ASSUME NEW S, IsFiniteSet(S), NEW f \in [S -> Nat], NEW g \in [S -> Nat],
         NEW x \in S, \A y \in S : y # x => g[y] = f[y], f[x] <= g[x]
  PROVE  Total(g) = Total(f) + (g[x] - f[x])
<1> DEFINE more == {x} \X ((f[x] + 1)..g[x])
<1>1. Units(g) = Units(f) \cup more
  <2>1. \A y, n : <<y, n>> \in Units(g) <=> y \in S /\ n \in 1..g[y]
    BY DEF Units
  <2>2. \A y, n : <<y, n>> \in Units(f) <=> y \in S /\ n \in 1..f[y]
    BY DEF Units
  <2>3. \A y, n : <<y, n>> \in Units(g) <=> <<y, n>> \in Units(f) \/ <<y, n>> \in more
    <3> SUFFICES ASSUME NEW y, NEW n
                 PROVE  <<y, n>> \in Units(g) <=> <<y, n>> \in Units(f) \/ <<y, n>> \in more
      OBVIOUS
    <3>1. <<y, n>> \in more <=> y = x /\ n \in (f[x] + 1)..g[x]
      OBVIOUS
    <3>2. f[x] \in Nat /\ g[x] \in Nat
      OBVIOUS
    <3>3. n \in 1..g[x] <=> n \in 1..f[x] \/ n \in (f[x] + 1)..g[x]
      BY <3>2
    <3> QED BY <2>1, <2>2, <3>1, <3>3
  <2>4. \A z \in Units(g) \cup Units(f) \cup more : \E y, n : z = <<y, n>>
    BY DEF Units
  <2> HIDE DEF more
  <2> QED BY <2>3, <2>4
<1>2. Units(f) \cap more = {}
  BY DEF Units
<1>3. IsFiniteSet(more) /\ Cardinality(more) = g[x] - f[x]
  <2>1. f[x] + 1 \in Int /\ g[x] \in Int /\ f[x] \in Nat
    OBVIOUS
  <2>2. /\ IsFiniteSet((f[x] + 1)..g[x])
        /\ Cardinality((f[x] + 1)..g[x]) = g[x] - f[x]
    BY <2>1, FS_Interval
  <2>3. IsFiniteSet({x}) /\ Cardinality({x}) = 1
    BY FS_Singleton
  <2> DEFINE column == (f[x] + 1)..g[x]
  <2> HIDE DEF column
  <2>4. IsFiniteSet({x} \X column)
          /\ Cardinality({x} \X column) = Cardinality({x}) * Cardinality(column)
    BY <2>2, <2>3, FS_Product DEF column
  <2>5. Cardinality({x} \X column) = 1 * (g[x] - f[x])
    BY <2>2, <2>3, <2>4 DEF column
  <2>6. 1 * (g[x] - f[x]) = g[x] - f[x]
    BY <2>1
  <2> QED BY <2>4, <2>5, <2>6 DEF column
<1>4. Cardinality(Units(f) \cup more)
        = Cardinality(Units(f)) + Cardinality(more) - Cardinality(Units(f) \cap more)
  BY <1>3, UnitsFinite, FS_Union
<1>5. Cardinality(Units(f)) \in Nat /\ Cardinality({}) = 0 /\ g[x] - f[x] \in Nat
  BY UnitsFinite, FS_EmptySet DEF Total
<1> HIDE DEF more
<1>6. Total(g) = Cardinality(Units(f)) + (g[x] - f[x]) - 0
  BY <1>1, <1>2, <1>3, <1>4, <1>5 DEF Total
<1> QED BY <1>5, <1>6 DEF Total

LEMMA TotalMoves ==
  ASSUME NEW S, IsFiniteSet(S), NEW f \in [S -> Nat], NEW g \in [S -> Nat],
         NEW x \in S, \A y \in S : y # x => g[y] = f[y]
  PROVE  /\ Total(g) + f[x] = Total(f) + g[x]
         /\ Total(f) \in Nat /\ Total(g) \in Nat
<1>0. Total(f) \in Nat /\ Total(g) \in Nat /\ f[x] \in Nat /\ g[x] \in Nat
  BY UnitsFinite
<1>1. CASE f[x] <= g[x]
  <2>1. Total(g) = Total(f) + (g[x] - f[x])
    BY <1>1, TotalGrows
  <2> QED BY <1>0, <2>1
<1>2. CASE g[x] <= f[x]
  <2>1. \A y \in S : y # x => f[y] = g[y]
    OBVIOUS
  <2>2. Total(f) = Total(g) + (f[x] - g[x])
    BY <1>2, <2>1, TotalGrows
  <2> QED BY <1>0, <2>2
<1> QED BY <1>0, <1>1, <1>2

LEMMA TotalZero ==
  ASSUME NEW S
  PROVE  Total([x \in S |-> 0]) = 0
<1>1. Units([x \in S |-> 0]) = {}
  BY DEF Units
<1> QED BY <1>1, FS_EmptySet DEF Total

Dues == [p \in Plans |-> worker[p].due]

\* What a call of known cost owes is all that is due from it.
DueKnown(w) ==
  /\ w.exact /\ w.pc = "queued" => w.cost = w.due
  /\ w.exact /\ w.pc = "persist" => w.due = 0

SumInv ==
  /\ lost \in Nat /\ extra \in Nat /\ unlocked \in BOOLEAN
  /\ \A p \in Plans : DueKnown(worker[p])
  /\ UnknownSpendLocks

LEMMA TotalsAreNumbers ==
  ASSUME BookInv
  PROVE  /\ Total(ledger) \in Nat /\ Total(paid) \in Nat /\ InFlight \in Nat
         /\ Dues \in [Plans -> Nat] /\ InFlight = Total(Dues)
<1>1. Dues \in [Plans -> Nat]
  <2>1. \A p \in Plans : worker[p].due \in Nat
    BY RequestsAssumption DEF BookInv, Worker
  <2> QED BY <2>1 DEF Dues
<1>2. InFlight = Total(Dues)
  BY DEF InFlight, Dues
<1>3. IsFiniteSet(0..Days)
  BY FS_Interval, BoundsAssumption
<1>4. IsFiniteSet(Plans) /\ paid \in [Plans -> Nat] /\ ledger \in [0..Days -> Nat]
  BY PlansAssumption DEF BookInv
<1> HIDE DEF Dues
<1> QED BY <1>1, <1>2, <1>3, <1>4, UnitsFinite

\* One worker moves: what is in flight moves with what is due from it.
LEMMA InFlightMoves ==
  ASSUME BookInv, BookInv', NEW p \in Plans, \A q \in Plans : q # p => worker'[q] = worker[q]
  PROVE  /\ InFlight' + worker[p].due = InFlight + worker'[p].due
         /\ InFlight \in Nat /\ InFlight' \in Nat
         /\ worker[p].due \in Nat /\ worker'[p].due \in Nat
<1> DEFINE after == [q \in Plans |-> worker'[q].due]
<1>1. /\ Dues \in [Plans -> Nat] /\ InFlight = Total(Dues) /\ Dues[p] = worker[p].due
      /\ \A q \in Plans : Dues[q] = worker[q].due
  BY TotalsAreNumbers DEF Dues
<1>2. /\ after \in [Plans -> Nat] /\ InFlight' = Total(after) /\ after[p] = worker'[p].due
      /\ \A q \in Plans : after[q] = worker'[q].due
  <2>1. \A q \in Plans : worker'[q].due \in Nat
    BY RequestsAssumption DEF BookInv, Worker
  <2> QED BY <2>1 DEF InFlight
<1>3. \A q \in Plans : q # p => after[q] = Dues[q]
  BY <1>1, <1>2
<1>4. Dues[p] \in Nat /\ after[p] \in Nat
  BY <1>1, <1>2
<1> HIDE DEF after
<1>5. Total(after) + Dues[p] = Total(Dues) + after[p] /\ Total(Dues) \in Nat /\ Total(after) \in Nat
  BY <1>1, <1>2, <1>3, PlansAssumption, TotalMoves
<1> QED BY <1>1, <1>2, <1>4, <1>5

\* A worker moves on with nothing billed or recorded: what was due from it stays due,
\* or the service is locked.
LEMMA SumKept ==
  ASSUME SpendInv, SpendInv', SumInv, NEW p \in Plans,
         \A q \in Plans : q # p => worker'[q] = worker[q],
         UNCHANGED <<ledger, history>>, Locked => Locked',
         worker'[p].due <= worker[p].due, Locked' \/ worker'[p].due = worker[p].due,
         DueKnown(worker'[p])
  PROVE  SumInv'
<1>1. /\ InFlight' + worker[p].due = InFlight + worker'[p].due
      /\ InFlight \in Nat /\ InFlight' \in Nat
      /\ worker[p].due \in Nat /\ worker'[p].due \in Nat
  BY InFlightMoves DEF SpendInv
<1>2. lost \in Nat /\ extra \in Nat /\ unlocked \in BOOLEAN /\ UnknownSpendLocks
  BY DEF SumInv
<1>3. /\ Total(ledger)' = Total(ledger) /\ Total(paid)' = Total(paid)
      /\ lost' = lost /\ extra' = extra /\ unlocked' = unlocked
  BY DEF history
<1>4. Locked' \/ InFlight' = InFlight
  BY <1>1
<1>6. UnknownSpendLocks'
  BY <1>2, <1>3, <1>4 DEF UnknownSpendLocks
<1>7. (\A q \in Plans : DueKnown(worker[q]))'
  <2> SUFFICES ASSUME NEW q \in Plans PROVE DueKnown(worker'[q])
    BY DEF DueKnown
  <2> QED BY DEF SumInv
<1> QED BY <1>2, <1>3, <1>6, <1>7 DEF SumInv

\* A record's cost is bounded by what is due, and is all of it when it is exact.
LEMMA OneWorker ==
  ASSUME SpendInv, SumInv, NEW p \in Plans
  PROVE  /\ worker[p] \in Worker /\ worker[p].due \in Nat /\ WorkerInv(worker[p])
         /\ DueKnown(worker[p]) /\ worker \in [Plans -> Worker]
BY RequestsAssumption DEF SpendInv, BookInv, SumInv, Worker

LEMMA CallSums ==
  ASSUME SpendInv, SpendInv', SumInv, NEW p \in Plans,
         Start(p) \/ Answered(p) \/ AgentExits(p)
  PROVE  SumInv'
<1>0. /\ worker[p] \in Worker /\ worker[p].due \in Nat /\ worker \in [Plans -> Worker]
      /\ UNCHANGED <<ledger, lockMem, lockFile, history>>
  BY OneWorker DEF Start, Answered, AgentExits, files
<1>1. \E w : worker' = [worker EXCEPT ![p] = w] /\ w.due = worker[p].due /\ w.pc \in Calling
  <2>1. CASE Start(p)
    <3> DEFINE w == [worker[p] EXCEPT !.pc = "engine"]
    <3>1. worker' = [worker EXCEPT ![p] = w]
      BY <1>0, <2>1 DEF Start
    <3>2. w.due = worker[p].due /\ w.pc \in Calling
      BY <1>0 DEF Worker, Calling
    <3> QED BY <3>1, <3>2
  <2>2. CASE Answered(p)
    <3>1. PICK x \in Answers(worker[p].proxy) : worker' = [worker EXCEPT ![p].proxy = x]
      BY <2>2 DEF Answered
    <3> DEFINE w == [worker[p] EXCEPT !.proxy = x]
    <3>2. worker' = [worker EXCEPT ![p] = w]
      BY <1>0, <3>1
    <3>3. w.due = worker[p].due /\ w.pc = worker[p].pc
      BY <1>0 DEF Worker
    <3>4. worker[p].pc \in Calling
      BY <2>2 DEF Answered, Calling
    <3> HIDE DEF w
    <3> QED BY <3>2, <3>3, <3>4
  <2>3. CASE AgentExits(p)
    <3> DEFINE w == [worker[p] EXCEPT !.pc = "closing"]
    <3>1. worker' = [worker EXCEPT ![p] = w]
      BY <1>0, <2>3 DEF AgentExits
    <3>2. w.due = worker[p].due /\ w.pc \in Calling
      BY <1>0 DEF Worker, Calling
    <3> QED BY <3>1, <3>2
  <2> QED BY <2>1, <2>2, <2>3
<1>2. PICK w : worker' = [worker EXCEPT ![p] = w] /\ w.due = worker[p].due /\ w.pc \in Calling
  BY <1>1
<1>3. worker'[p] = w /\ \A q \in Plans : q # p => worker'[q] = worker[q]
  BY <1>0, <1>2
<1>4. DueKnown(worker'[p])
  BY <1>2, <1>3 DEF DueKnown, Calling
<1>5. Locked => Locked'
  BY <1>0 DEF Locked
<1> QED BY <1>0, <1>2, <1>3, <1>4, <1>5, SumKept

\* A unit billed is due at once.
LEMMA RequestsSums ==
  ASSUME SpendInv, SpendInv', SumInv, NEW p \in Plans, Requests(p)
  PROVE  SumInv'
<1>0. /\ worker[p] \in Worker /\ worker[p].due \in Nat /\ worker \in [Plans -> Worker]
      /\ UNCHANGED <<ledger, lockMem, lockFile, lost, unlocked, extra>> /\ worker[p].pc = "engine"
      /\ paid \in [Plans -> Nat]
  BY OneWorker DEF Requests, files, SpendInv, BookInv
<1>1. CASE worker' = [worker EXCEPT ![p].proxy = Refused(@)] /\ UNCHANGED paid
  <2>1. /\ worker'[p].due = worker[p].due /\ worker'[p].pc = "engine"
        /\ \A q \in Plans : q # p => worker'[q] = worker[q]
    BY <1>0, <1>1 DEF Worker
  <2>2. DueKnown(worker'[p]) /\ (Locked => Locked')
    BY <1>0, <2>1 DEF DueKnown, Locked
  <2>3. UNCHANGED history /\ worker'[p].due <= worker[p].due
    BY <1>0, <1>1, <2>1 DEF history
  <2> QED BY <1>0, <2>1, <2>2, <2>3, SumKept
<1>2. CASE /\ worker' = [worker EXCEPT ![p].proxy = Forwarded(@), ![p].due = @ + 1]
           /\ paid' = [paid EXCEPT ![p] = @ + 1]
  <2>1. /\ worker'[p].due = worker[p].due + 1 /\ worker'[p].pc = "engine"
        /\ \A q \in Plans : q # p => worker'[q] = worker[q]
    BY <1>0, <1>2 DEF Worker
  <2>2. InFlight' = InFlight + 1 /\ InFlight \in Nat
    <3>1. /\ InFlight' + worker[p].due = InFlight + worker'[p].due
          /\ InFlight \in Nat /\ InFlight' \in Nat
      BY <2>1, InFlightMoves DEF SpendInv
    <3> QED BY <1>0, <2>1, <3>1
  <2>3. Total(paid)' = Total(paid) + 1 /\ Total(paid) \in Nat
    <3>1. paid' \in [Plans -> Nat] /\ paid'[p] = paid[p] + 1 /\ paid[p] \in Nat
            /\ \A q \in Plans : q # p => paid'[q] = paid[q]
      BY <1>0, <1>2
    <3> DEFINE g == paid'
    <3>2. Total(g) + paid[p] = Total(paid) + g[p] /\ Total(paid) \in Nat /\ Total(g) \in Nat
      BY <1>0, <3>1, PlansAssumption, TotalMoves
    <3>3. Total(paid)' = Total(g)
      BY DEF Total, Units
    <3> QED BY <3>1, <3>2, <3>3
  <2>4. /\ Total(ledger)' = Total(ledger) /\ Total(ledger) \in Nat /\ (Locked => Locked')
        /\ lost' = lost /\ extra' = extra /\ unlocked' = unlocked
        /\ lost \in Nat /\ extra \in Nat /\ unlocked \in BOOLEAN
    BY <1>0, TotalsAreNumbers DEF SpendInv, SumInv, Locked
  <2>5. (\A q \in Plans : DueKnown(worker[q]))'
    <3> SUFFICES ASSUME NEW q \in Plans PROVE DueKnown(worker'[q])
      BY DEF DueKnown
    <3> QED BY <2>1 DEF SumInv, DueKnown
  <2>6. UnknownSpendLocks'
    BY <2>2, <2>3, <2>4 DEF SumInv, UnknownSpendLocks
  <2> QED BY <2>4, <2>5, <2>6 DEF SumInv
<1> QED BY <1>1, <1>2 DEF Requests

\* The end of a call: what is known is owed, and an unknown rest will lock.
LEMMA FinalizeSums ==
  ASSUME SpendInv, SpendInv', SumInv, NEW p \in Plans, Finalize(p)
  PROVE  SumInv'
<1>1. /\ worker[p] \in Worker /\ worker[p].due \in Nat /\ worker \in [Plans -> Worker]
      /\ worker[p].proxy \in Proxy /\ worker[p].due = Sent(worker[p].proxy)
      /\ UNCHANGED <<ledger, history>>
  BY OneWorker DEF Finalize, WorkerInv, Calling, Worker
<1>2. PICK x \in Closed(worker[p].proxy) : \E found \in Reconciled(x) :
        LET acc == Accounting(x, found) IN
        \/ /\ acc.exact \/ acc.known > 0
           /\ worker' = [worker EXCEPT ![p] =
                [Idle EXCEPT !.pc = "queued", !.exact = acc.exact, !.cost = acc.known,
                             !.due = worker[p].due]]
           /\ queue' = Append(queue, [plan |-> p, cost |-> acc.known])
           /\ NoLock
        \/ /\ acc.known = 0
           /\ worker' = [worker EXCEPT ![p] = Idle]
           /\ IF acc.exact THEN NoLock ELSE Lock
           /\ UNCHANGED queue
  BY DEF Finalize
<1>7. PICK found \in Reconciled(x) :
        LET acc == Accounting(x, found) IN
        \/ /\ acc.exact \/ acc.known > 0
           /\ worker' = [worker EXCEPT ![p] =
                [Idle EXCEPT !.pc = "queued", !.exact = acc.exact, !.cost = acc.known,
                             !.due = worker[p].due]]
           /\ queue' = Append(queue, [plan |-> p, cost |-> acc.known])
           /\ NoLock
        \/ /\ acc.known = 0
           /\ worker' = [worker EXCEPT ![p] = Idle]
           /\ IF acc.exact THEN NoLock ELSE Lock
           /\ UNCHANGED queue
  BY <1>2
<1> DEFINE acc == Accounting(x, found)
<1>3. /\ acc.known \in 0..MaxRequests /\ acc.exact \in BOOLEAN
      /\ acc.exact => acc.known = worker[p].due
  <2>1. x \in Proxy /\ Sent(x) = Sent(worker[p].proxy)
    BY <1>1, Metered
  <2> QED BY <1>1, <2>1, Accounted
<1>4. Locked => Locked'
  BY <1>7, LockTypes DEF SpendInv
<1>5. CASE /\ worker' = [worker EXCEPT ![p] =
                [Idle EXCEPT !.pc = "queued", !.exact = acc.exact, !.cost = acc.known,
                             !.due = worker[p].due]]
  <2> HIDE DEF acc
  <2>1. /\ worker'[p].due = worker[p].due /\ worker'[p].pc = "queued"
        /\ worker'[p].exact = acc.exact /\ worker'[p].cost = acc.known
        /\ \A q \in Plans : q # p => worker'[q] = worker[q]
    BY <1>1, <1>5, FreshWorker DEF Worker
  <2>2. DueKnown(worker'[p])
    BY <1>3, <2>1 DEF DueKnown
  <2> QED BY <1>1, <1>4, <2>1, <2>2, SumKept
<1>6. CASE /\ acc.known = 0
           /\ worker' = [worker EXCEPT ![p] = Idle]
           /\ IF acc.exact THEN NoLock ELSE Lock
  <2>1. ~acc.exact => Locked'
    BY <1>6, LockSets DEF Lock, SpendInv
  <2> HIDE DEF acc
  <2>2. /\ worker'[p] = Idle /\ worker'[p].due = 0 /\ worker'[p].pc = "idle"
        /\ \A q \in Plans : q # p => worker'[q] = worker[q]
    BY <1>1, <1>6, FreshWorker
  <2>3. Locked' \/ worker'[p].due = worker[p].due
    BY <1>3, <1>6, <2>1, <2>2
  <2>4. DueKnown(worker'[p])
    BY <2>2 DEF DueKnown
  <2> QED BY <1>1, <1>4, <2>2, <2>3, <2>4, SumKept
<1> QED BY <1>7, <1>5, <1>6

\* A call is over: nothing was due but what was recorded, or it locks.
LEMMA PersistSums ==
  ASSUME SpendInv, SpendInv', SumInv, NEW p \in Plans, Persist(p)
  PROVE  SumInv'
<1>1. /\ worker[p] \in Worker /\ worker[p].due \in Nat /\ worker \in [Plans -> Worker]
      /\ worker[p].exact => worker[p].due = 0
      /\ UNCHANGED <<ledger, history>> /\ worker' = [worker EXCEPT ![p] = Idle]
  BY OneWorker DEF Persist, DueKnown
<1>2. \/ IF worker[p].exact THEN NoLock ELSE Lock
      \/ LockAfter(1)
  BY DEF Persist
<1>3. (Locked => Locked') /\ (~Locked' => worker[p].exact)
  BY <1>2, LockTypes, LockSets DEF Lock, SpendInv
<1>4. /\ worker'[p].due = 0 /\ worker'[p].pc = "idle"
      /\ \A q \in Plans : q # p => worker'[q] = worker[q]
  BY <1>1, FreshWorker
<1>5. DueKnown(worker'[p])
  BY <1>4 DEF DueKnown
<1> QED BY <1>1, <1>3, <1>4, <1>5, SumKept

\* What is recorded is no longer due; a rejected record locks.
LEMMA RecordSpendSums ==
  ASSUME SpendInv, SpendInv', SumInv, RecordSpend
  PROVE  SumInv'
<1>0. PICK r : r = Head(queue)
  OBVIOUS
<1> DEFINE p == r.plan
<1>1. r \in Record /\ worker[p].pc = "queued" /\ r.cost = worker[p].cost
  <2>1. queue \in Seq(Record) /\ Len(queue) \in Nat \ {0} /\ 1 \in 1..Len(queue) /\ r = queue[1]
    BY <1>0 DEF SpendInv, QueueInv, RecordSpend
  <2> QED BY <2>1 DEF SpendInv, QueueInv
<1>2. p \in Plans /\ r.cost \in Nat /\ UNCHANGED <<paid, lost, unlocked>>
  BY <1>1, RequestsAssumption DEF Record, RecordSpend
<1>3. \/ /\ ~Locked
         /\ day' \in {day, day + 1} /\ day' <= Days
         /\ ledger' = [ledger EXCEPT ![day'] = ledger[day] + r.cost]
         /\ extra' = IF day' = day THEN extra ELSE extra + ledger[day]
         /\ worker' = [worker EXCEPT ![p].pc = "persist", ![p].due = @ - r.cost]
         /\ NoLock
      \/ /\ Lock \/ LockAfter(1)
         /\ worker' = [worker EXCEPT ![p] = Idle]
         /\ UNCHANGED <<ledger, extra>>
  BY <1>0 DEF RecordSpend
<1> HIDE DEF p
<1>4. /\ worker[p] \in Worker /\ worker[p].due \in Nat /\ worker \in [Plans -> Worker]
      /\ r.cost <= worker[p].due /\ DueKnown(worker[p])
  BY <1>1, <1>2, OneWorker DEF WorkerInv, p
<1>5. CASE /\ Lock \/ LockAfter(1)
           /\ worker' = [worker EXCEPT ![p] = Idle]
           /\ UNCHANGED <<ledger, extra>>
  <2>1. Locked'
    BY <1>5, LockSets DEF Lock, SpendInv
  <2>2. /\ worker'[p].due = 0 /\ worker'[p].pc = "idle"
        /\ \A q \in Plans : q # p => worker'[q] = worker[q]
    BY <1>2, <1>4, <1>5, FreshWorker
  <2>3. DueKnown(worker'[p])
    BY <2>2 DEF DueKnown
  <2> QED BY <1>2, <1>4, <1>5, <2>1, <2>2, <2>3, SumKept DEF history
<1>6. CASE /\ ~Locked
           /\ day' \in {day, day + 1} /\ day' <= Days
           /\ ledger' = [ledger EXCEPT ![day'] = ledger[day] + r.cost]
           /\ extra' = IF day' = day THEN extra ELSE extra + ledger[day]
           /\ worker' = [worker EXCEPT ![p].pc = "persist", ![p].due = @ - r.cost]
           /\ NoLock
  <2>1. /\ worker'[p].due = worker[p].due - r.cost /\ worker'[p].pc = "persist"
        /\ worker'[p].exact = worker[p].exact
        /\ \A q \in Plans : q # p => worker'[q] = worker[q]
    BY <1>2, <1>4, <1>6 DEF Worker
  <2>2. InFlight' + r.cost = InFlight /\ InFlight \in Nat /\ InFlight' \in Nat
    <3>1. /\ InFlight' + worker[p].due = InFlight + worker'[p].due
          /\ InFlight \in Nat /\ InFlight' \in Nat
      BY <1>2, <2>1, InFlightMoves DEF SpendInv
    <3> QED BY <1>2, <1>4, <2>1, <3>1
  <2>3. /\ Total(ledger)' + extra = Total(ledger) + extra' + r.cost
        /\ Total(ledger) \in Nat /\ Total(ledger)' \in Nat /\ extra \in Nat /\ extra' \in Nat
    <3>0. IsFiniteSet(0..Days)
      <4>1. 0 \in Int /\ Days \in Int
        BY BoundsAssumption
      <4> QED BY <4>1, FS_Interval
    <3>1. /\ day \in 0..Days /\ day' \in 0..Days /\ ledger \in [0..Days -> Nat]
          /\ ledger[day] \in Nat /\ extra \in Nat
          /\ day' # day => ledger[day'] = 0
      <4>1. /\ day \in 0..Days /\ ledger \in [0..Days -> Nat]
            /\ \A d \in 0..Days : d > day => ledger[d] = 0
        BY DEF SpendInv, BookInv, DayInv
      <4>2. extra \in Nat
        BY DEF SumInv
      <4>3. day' \in {day, day + 1} /\ day' <= Days
        BY <1>6
      <4> QED BY <4>1, <4>2, <4>3, BoundsAssumption
    <3>2. /\ ledger' \in [0..Days -> Nat] /\ ledger'[day'] = ledger[day] + r.cost
          /\ \A d \in 0..Days : d # day' => ledger'[d] = ledger[d]
      BY <1>2, <1>6, <3>1
    <3> DEFINE g == ledger'
               e == day'
    <3>3. /\ Total(g) + ledger[e] = Total(ledger) + g[e]
          /\ Total(ledger) \in Nat /\ Total(g) \in Nat
      <4>1. /\ g \in [0..Days -> Nat] /\ \A d \in 0..Days : d # e => g[d] = ledger[d]
            /\ e \in 0..Days /\ ledger \in [0..Days -> Nat]
        BY <3>1, <3>2
      <4> HIDE DEF g, e
      <4> QED BY <3>0, <4>1, TotalMoves
    <3>4. Total(ledger)' = Total(g)
      BY DEF Total, Units
    <3>5. CASE day' = day
      <4>1. extra' = extra /\ ledger[e] = ledger[day] /\ g[e] = ledger[day] + r.cost
        BY <1>6, <3>2, <3>5
      <4> HIDE DEF g, e
      <4> QED BY <1>2, <3>1, <3>3, <3>4, <4>1
    <3>6. CASE day' # day
      <4>1. extra' = extra + ledger[day] /\ ledger[e] = 0 /\ g[e] = ledger[day] + r.cost
        BY <1>6, <3>1, <3>2, <3>6
      <4> HIDE DEF g, e
      <4> DEFINE old == ledger[day]
                 cost == r.cost
      <4>2. old \in Nat /\ cost \in Nat /\ extra' = extra + old /\ extra \in Nat
        BY <1>2, <3>1, <4>1
      <4>3. Total(g) + 0 = Total(ledger) + (old + cost)
        BY <3>3, <4>1
      <4> HIDE DEF old, cost
      <4>4. Total(g) + extra = Total(ledger) + extra' + cost /\ extra' \in Nat
        BY <3>3, <4>2, <4>3
      <4> QED BY <3>3, <3>4, <4>2, <4>4 DEF cost
    <3> QED BY <3>5, <3>6
  <2>4. /\ Total(paid)' = Total(paid) /\ Total(paid) \in Nat /\ lost' = lost /\ lost \in Nat
    BY <1>2, TotalsAreNumbers DEF SpendInv, SumInv
  <2>9. unlocked' = unlocked /\ unlocked \in BOOLEAN
    BY <1>2, Zenon DEF SumInv
  <2>5. (\A q \in Plans : DueKnown(worker[q]))'
    <3> SUFFICES ASSUME NEW q \in Plans PROVE DueKnown(worker'[q])
      BY DEF DueKnown
    <3>1. CASE q = p
      BY <1>1, <1>4, <2>1, <3>1 DEF DueKnown, p
    <3>2. CASE q # p
      BY <2>1, <3>2 DEF SumInv
    <3> QED BY <3>1, <3>2
  <2>6. unlocked \/ Total(paid) + extra = Total(ledger) + InFlight + lost
    BY <1>6 DEF SumInv, UnknownSpendLocks
  <2>7. Total(paid) + extra = Total(ledger) + InFlight + lost
          => Total(paid)' + extra' = Total(ledger)' + InFlight' + lost'
    <3>1. \A book, after, bill, flying, cost, old, new, gone \in Nat :
            after + old = book + new + cost /\ bill + old = book + (flying + cost) + gone
              => bill + new = after + flying + gone
      OBVIOUS
    <3>2. /\ Total(ledger) \in Nat /\ Total(ledger)' \in Nat /\ extra \in Nat /\ extra' \in Nat
          /\ Total(paid) \in Nat /\ InFlight' \in Nat /\ r.cost \in Nat /\ lost \in Nat
          /\ Total(ledger)' + extra = Total(ledger) + extra' + r.cost
          /\ InFlight = InFlight' + r.cost /\ Total(paid)' = Total(paid) /\ lost' = lost
      BY <1>2, <2>2, <2>3, <2>4
    <3>3. Total(paid) + extra = Total(ledger) + (InFlight' + r.cost) + lost
            => Total(paid) + extra' = Total(ledger)' + InFlight' + lost
      BY <3>1, <3>2
    <3> QED BY <3>2, <3>3
  <2>8. UnknownSpendLocks'
    BY <2>6, <2>7, <2>9, Zenon DEF UnknownSpendLocks
  <2> QED BY <2>3, <2>4, <2>5, <2>8, <2>9, Zenon DEF SumInv
<1> QED BY <1>3, <1>5, <1>6

\* What a crash forgets was due, or the lock for it was only in memory.
LEMMA CrashSums ==
  ASSUME SpendInv, SumInv, Crash
  PROVE  SumInv'
<1>1. /\ worker' = [q \in Plans |-> Idle] /\ lost' = lost + InFlight /\ extra' = extra
      /\ unlocked' = (unlocked \/ (lockMem /\ ~lockFile))
      /\ UNCHANGED <<ledger, lockFile, paid>>
  BY DEF Crash, files
<1>2. /\ Total(ledger) \in Nat /\ Total(paid) \in Nat /\ InFlight \in Nat
      /\ lost \in Nat /\ extra \in Nat
  BY TotalsAreNumbers DEF SpendInv, SumInv
<1>3. lost' \in Nat /\ extra' \in Nat /\ unlocked' \in BOOLEAN
  <2>1. lost' \in Nat /\ extra' \in Nat
    BY <1>1, <1>2
  <2>2. unlocked' \in BOOLEAN
    BY <1>1, Zenon
  <2> QED BY <2>1, <2>2
<1>4. InFlight' = 0
  <2>1. [q \in Plans |-> worker'[q].due] = [q \in Plans |-> 0]
    BY <1>1, FreshWorker
  <2> QED BY <2>1, TotalZero DEF InFlight
<1>5. Total(ledger)' = Total(ledger) /\ Total(paid)' = Total(paid)
  BY <1>1
<1>6. (\A q \in Plans : DueKnown(worker[q]))'
  BY <1>1, FreshWorker DEF DueKnown
<1>7. Locked => Locked' \/ unlocked'
  BY <1>1, Zenon DEF Locked
<1>8. unlocked => unlocked'
  BY <1>1, Zenon
<1>9. Total(paid) + extra = Total(ledger) + InFlight + lost
        => Total(paid)' + extra' = Total(ledger)' + InFlight' + lost'
  BY <1>1, <1>2, <1>4, <1>5
<1>10. UnknownSpendLocks'
  BY <1>7, <1>8, <1>9, Zenon DEF SumInv, UnknownSpendLocks
<1> QED BY <1>3, <1>6, <1>10 DEF SumInv

LEMMA SumInit == Init => SumInv
<1> SUFFICES ASSUME Init PROVE SumInv
  OBVIOUS
<1>1. Total(ledger) = 0 /\ Total(paid) = 0
  BY TotalZero DEF Init
<1>2. InFlight = 0
  <2>1. [p \in Plans |-> worker[p].due] = [p \in Plans |-> 0]
    BY FreshWorker DEF Init
  <2> QED BY <2>1, TotalZero DEF InFlight
<1>3. lost \in Nat /\ extra \in Nat
  BY DEF Init
<1>4. unlocked \in BOOLEAN
  BY Zenon DEF Init
<1>5. \A p \in Plans : DueKnown(worker[p])
  BY FreshWorker DEF Init, DueKnown
<1>6. Total(paid) + extra = Total(ledger) + InFlight + lost
  BY <1>1, <1>2 DEF Init
<1> QED BY <1>3, <1>4, <1>5, <1>6, Zenon DEF SumInv, UnknownSpendLocks

LEMMA SumNext == SpendInv /\ SumInv /\ [Next]_vars => SumInv'
<1> SUFFICES ASSUME SpendInv, SumInv, [Next]_vars PROVE SumInv'
  OBVIOUS
<1>0. SpendInv'
  BY SpendNext
<1>1. CASE UNCHANGED vars
  BY <1>1 DEF vars, history, SumInv, DueKnown, UnknownSpendLocks, Locked, InFlight
<1>2. CASE Midnight
  BY <1>2 DEF Midnight, files, history, SumInv, DueKnown, UnknownSpendLocks, Locked, InFlight
<1>3. CASE Crash
  BY <1>3, CrashSums
<1>4. CASE RecordSpend
  BY <1>0, <1>4, RecordSpendSums
<1>5. ASSUME NEW p \in Plans, Start(p) \/ Requests(p) \/ WorkerStep(p)
      PROVE  SumInv'
  BY <1>0, <1>5, CallSums, RequestsSums, FinalizeSums, PersistSums DEF WorkerStep
<1> QED BY <1>1, <1>2, <1>3, <1>4, <1>5 DEF Next

\* "Any uncertainty is a hard failure" (openrouter-meter.mjs:8), whatever calls,
\* records, crashes, midnights and failing writes interleave: unless calls are locked
\* out, or a crash dropped a lock that had no file, every unit billed is in the ledger,
\* due from a call that runs, or was due from one that a crash cut off.
THEOREM NothingUnnoticed == Spec => []UnknownSpendLocks
<1>1. SumInv => UnknownSpendLocks
  BY DEF SumInv
<1> QED BY <1>1, SpendInit, SpendNext, SumInit, SumNext, PTL DEF Spec

\* Types, and the promises of recordSpendNanos: the queue holds the update of each
\* waiting worker once, and of nobody else.
THEOREM SpendTypes == Spec => []TypeOK
<1>1. SpendInv /\ SumInv => TypeOK
  <2> SUFFICES ASSUME SpendInv, SumInv PROVE TypeOK
    OBVIOUS
  <2> USE DEF SpendInv
  <2>1. queue \in Seq(Record) /\ DOMAIN queue = 1..Len(queue)
    BY DEF QueueInv
  <2>2. ASSUME NEW p \in Plans
        PROVE  Cardinality({i \in DOMAIN queue : queue[i].plan = p})
                 = IF worker[p].pc = "queued" THEN 1 ELSE 0
    <3>1. CASE worker[p].pc = "queued"
      <4>1. PICK i \in 1..Len(queue) : queue[i].plan = p
        BY <3>1 DEF QueueInv
      <4>2. {j \in DOMAIN queue : queue[j].plan = p} = {i}
        BY <2>1, <4>1 DEF QueueInv
      <4> QED BY <3>1, <4>2, FS_Singleton
    <3>2. CASE worker[p].pc # "queued"
      <4>1. {j \in DOMAIN queue : queue[j].plan = p} = {}
        BY <2>1, <3>2 DEF QueueInv
      <4> QED BY <3>2, <4>1, FS_EmptySet
    <3> QED BY <3>1, <3>2
  <2> QED BY <2>1, <2>2 DEF TypeOK, BookInv, SumInv
<1> QED BY <1>1, SpendInit, SpendNext, SumInit, SumNext, PTL DEF Spec
====
