-------------------------- MODULE SupervisorProofs --------------------------
(***************************************************************************)
(* Theorems about the supervisor, for every value of its limits.           *)
(***************************************************************************)
EXTENDS Supervisor, FiniteSetTheorems, SequenceTheorems, TLAPS

Ages == 0..Window
Span == BackoffCap + Tight  \* the longest cycle of a tight crash loop

----------------------------------------------------------------------------
(***************************************************************************)
(* The filter and the ages                                                 *)
(***************************************************************************)
LEMMA Interval ==
  ASSUME NEW n \in Nat
  PROVE  IsFiniteSet(1..n) /\ Cardinality(1..n) = n
<1>1. IsFiniteSet(1..n) /\ Cardinality(1..n) = IF 1 > n THEN 0 ELSE n - 1 + 1  BY FS_Interval
<1> QED  BY <1>1

LEMMA ExpiredFinite ==
  ASSUME NEW s \in Seq(Ages)
  PROVE  /\ IsFiniteSet(Expired(s))
         /\ Cardinality(Expired(s)) \in 0..Len(s)
<1>1. Expired(s) \subseteq 1..Len(s)  BY DEF Expired
<1>2. IsFiniteSet(1..Len(s)) /\ Cardinality(1..Len(s)) = Len(s)
  BY Interval, LenProperties
<1> QED  BY <1>1, <1>2, FS_Subset, FS_CardinalityType, LenProperties

LEMMA RecentType ==
  ASSUME NEW s \in Seq(Ages)
  PROVE  /\ Recent(s) \in Seq(Ages)
         /\ Len(Recent(s)) = Len(s) - Cardinality(Expired(s))
         /\ \A i \in 1..Len(Recent(s)) : Recent(s)[i] = s[Cardinality(Expired(s)) + i]
<1> DEFINE n == Cardinality(Expired(s))
<1>1. n \in 0..Len(s) /\ Len(s) \in Nat  BY ExpiredFinite, LenProperties
<1>2. \A i \in (n + 1)..Len(s) : s[i] \in Ages  BY <1>1, ElementOfSeq
<1>3. /\ Recent(s) = SubSeq(s, n + 1, Len(s))
      /\ Len(Recent(s)) = Len(s) - n
  BY <1>1, SubSeqProperties DEF Recent
<1> QED  BY <1>1, <1>2, <1>3, SubSeqProperties DEF Recent

\* A death is the newest age of a sequence of ages.
LEMMA WithDeathType ==
  ASSUME NEW s \in Seq(Ages)
  PROVE  /\ WithDeath(s) \in Seq(Ages)
         /\ Len(WithDeath(s)) = Len(Recent(s)) + 1
         /\ WithDeath(s)[Len(WithDeath(s))] = 0
         /\ \A i \in 1..Len(Recent(s)) : WithDeath(s)[i] = Recent(s)[i]
<1>1. 0 \in Ages  BY RestartsAssumption DEF Ages
<1> QED  BY <1>1, RecentType, AppendProperties DEF WithDeath

LEMMA OlderType ==
  ASSUME NEW s \in Seq(Ages)
  PROVE  /\ Older(s) \in Seq(Ages)
         /\ Len(Older(s)) = Len(s)
         /\ \A i \in 1..Len(s) : Older(s)[i] <= s[i] + 1
<1>1. Len(s) \in Nat /\ DOMAIN s = 1..Len(s)  BY LenProperties
<1>2. \A i \in 1..Len(s) : s[i] \in Ages  BY ElementOfSeq
<1>3. \A i \in 1..Len(s) : Least(s[i] + 1, Window) \in Ages /\ Least(s[i] + 1, Window) <= s[i] + 1
  BY <1>2, RestartsAssumption DEF Least, Ages
<1>4. Older(s) \in [1..Len(s) -> Ages]  BY <1>1, <1>3 DEF Older
<1> QED  BY <1>1, <1>3, <1>4, IsASeq, LenProperties DEF Older

LEMMA Times ==
  ASSUME NEW j \in Nat, NEW m \in Nat, NEW l \in Nat, j <= m
  PROVE  /\ j * l \in Nat /\ j * l <= m * l
         /\ (j + 1) * l = j * l + l
<1>1. (m - j) * l \in Nat /\ m = (m - j) + j  OBVIOUS
<1> QED  BY <1>1

\* What is young enough stays when a death is added.
LEMMA RecentKeeps ==
  ASSUME NEW s \in Seq(Ages), NEW k \in 0..Len(s),
         \A j \in 1..k : s[Len(s) - j + 1] < Window
  PROVE  /\ k <= Len(Recent(s))
         /\ \A j \in 1..k : Recent(s)[Len(Recent(s)) - j + 1] = s[Len(s) - j + 1]
<1> DEFINE n == Cardinality(Expired(s))
<1>1. Len(s) \in Nat /\ DOMAIN s = 1..Len(s)  BY LenProperties
<1>2. Expired(s) \subseteq 1..(Len(s) - k)
  <2> SUFFICES ASSUME NEW i \in 1..Len(s), s[i] >= Window, i > Len(s) - k
               PROVE  FALSE
    BY <1>1 DEF Expired
  <2> DEFINE j == Len(s) - i + 1
  <2>1. j \in 1..k /\ i = Len(s) - j + 1  BY <1>1
  <2>2. s[i] < Window  BY <2>1
  <2>3. s[i] \in Ages  BY <1>1, ElementOfSeq
  <2> QED  BY <2>2, <2>3, RestartsAssumption DEF Ages
<1>3. IsFiniteSet(1..(Len(s) - k)) /\ Cardinality(1..(Len(s) - k)) = Len(s) - k
  <2>1. Len(s) - k \in Nat  BY <1>1
  <2> QED  BY <2>1, Interval
<1>4. n <= Len(s) - k  BY <1>2, <1>3, FS_Subset
<1>5. n \in 0..Len(s)  BY ExpiredFinite
<1>6. Len(Recent(s)) = Len(s) - n  BY RecentType
<1> HIDE DEF n
<1>7. \A i \in 1..Len(Recent(s)) : Recent(s)[i] = s[n + i]  BY RecentType DEF n
<1>8. ASSUME NEW j \in 1..k
      PROVE  Recent(s)[Len(Recent(s)) - j + 1] = s[Len(s) - j + 1]
  <2>1. Len(Recent(s)) - j + 1 \in 1..Len(Recent(s))  BY <1>1, <1>4, <1>5, <1>6
  <2>2. n + (Len(Recent(s)) - j + 1) = Len(s) - j + 1  BY <1>1, <1>5, <1>6
  <2> QED  BY <1>7, <2>1, <2>2
<1> QED  BY <1>1, <1>4, <1>5, <1>6, <1>8

\* The last k deaths of a crash loop, counted from the newest: the (j)th is at
\* most (j - 1) cycles older than the newest, which is e old.
Loop(s, k, e) == \A j \in 1..k : s[Len(s) - j + 1] <= (j - 1) * Span + e

\* When a crash loop goes on within a cycle, no death of it has left the window.
LEMMA LoopGrows ==
  ASSUME NEW s \in Seq(Ages), NEW k \in 0..MaxRestarts, k <= Len(s),
         NEW e \in 0..Span, Loop(s, k, e)
  PROVE  /\ k + 1 <= Len(WithDeath(s))
         /\ Loop(WithDeath(s), k + 1, 0)
<1> DEFINE t == WithDeath(s)
<1>1. /\ Len(s) \in Nat /\ MaxRestarts \in Nat /\ Window \in Nat /\ Span \in Nat
      /\ MaxRestarts * Span < Window
  BY LenProperties, RestartsAssumption, BackoffAssumption, TightAssumption DEF Span
<1>2. ASSUME NEW j \in 1..k
      PROVE  /\ s[Len(s) - j + 1] <= j * Span
             /\ s[Len(s) - j + 1] < Window
  <2>1. s[Len(s) - j + 1] <= (j - 1) * Span + e  BY DEF Loop
  <2>2. j - 1 \in Nat /\ j \in Nat /\ j <= MaxRestarts /\ j - 1 <= j  BY <1>1
  <2>3. /\ (j - 1) * Span \in Nat /\ ((j - 1) + 1) * Span = (j - 1) * Span + Span
        /\ j * Span \in Nat /\ j * Span <= MaxRestarts * Span /\ MaxRestarts * Span \in Nat
    BY <1>1, <2>2, Times
  <2>4. (j - 1) + 1 = j  BY <2>2
  <2>5. s[Len(s) - j + 1] \in Ages
    <3>1. Len(s) - j + 1 \in 1..Len(s)  BY <1>1
    <3> QED  BY <3>1, ElementOfSeq
  <2>6. j * Span = (j - 1) * Span + Span  BY <2>3, <2>4
  <2> DEFINE x == s[Len(s) - j + 1]
             y == (j - 1) * Span
             z == j * Span
             w == MaxRestarts * Span
  <2>7. x <= y + e /\ x \in Nat /\ y \in Nat /\ z = y + Span /\ z <= w /\ w < Window /\ z \in Nat /\ w \in Nat
    BY <1>1, <2>1, <2>3, <2>5, <2>6 DEF Ages
  <2> HIDE DEF x, y, z, w
  <2>8. x <= z /\ x < Window  BY <1>1, <2>7
  <2> QED  BY <2>8 DEF x, z
<1>3. /\ k <= Len(Recent(s))
      /\ \A j \in 1..k : Recent(s)[Len(Recent(s)) - j + 1] = s[Len(s) - j + 1]
  <2>1. k \in 0..Len(s)  BY <1>1
  <2> QED  BY <1>2, <2>1, RecentKeeps
<1>4. /\ Len(t) = Len(Recent(s)) + 1 /\ t[Len(t)] = 0 /\ Len(Recent(s)) \in Nat
      /\ \A i \in 1..Len(Recent(s)) : t[i] = Recent(s)[i]
  BY WithDeathType, RecentType, LenProperties
<1> HIDE DEF t
<1>5. ASSUME NEW j \in 1..(k + 1)
      PROVE  t[Len(t) - j + 1] <= (j - 1) * Span + 0
  <2>1. CASE j = 1  BY <2>1, <1>1, <1>4
  <2>2. CASE j # 1
    <3> DEFINE i == j - 1
    <3>1. i \in 1..k /\ i = j - 1  BY <2>2, <1>1
    <3> HIDE DEF i
    <3>2. Len(Recent(s)) - i + 1 \in 1..Len(Recent(s)) /\ Len(t) - j + 1 = Len(Recent(s)) - i + 1
      BY <3>1, <1>3, <1>4, <1>1
    <3>3. t[Len(t) - j + 1] = s[Len(s) - i + 1]  BY <3>1, <3>2, <1>3, <1>4
    <3>4. i * Span \in Nat  BY <3>1, <1>1, Times
    <3> QED  BY <3>1, <3>3, <3>4, <1>2
  <2> QED  BY <2>1, <2>2
<1>6. k + 1 <= Len(t)  BY <1>1, <1>3, <1>4
<1> QED  BY <1>5, <1>6 DEF Loop, t

----------------------------------------------------------------------------
(***************************************************************************)
(* Types                                                                   *)
(***************************************************************************)
Record ==
  [process : {"none", "running", "dead"}, notices : 0..2, deathHandled : BOOLEAN,
   uptime : 0..ResetUptime, termed : BOOLEAN, backoff : 1..BackoffCap,
   restartTimes : Seq(Ages), timer : SUBSET (0..BackoffCap)]

LEMMA NumbersType ==
  /\ MaxRestarts \in Nat \ {0} /\ Window \in Nat \ {0} /\ BackoffBase \in 1..BackoffCap
  /\ BackoffCap \in Nat /\ ResetUptime \in Nat /\ HealthTimeout \in Nat /\ Grace \in Nat /\ Tight \in Nat
BY RestartsAssumption, BackoffAssumption, TimeoutsAssumption, TightAssumption

LEMMA SetProcess ==
  ASSUME NEW r \in Record, NEW p \in {"none", "running", "dead"}
  PROVE  [r EXCEPT !.process = p] \in Record
BY DEF Record

LEMMA SetNotices ==
  ASSUME NEW r \in Record, NEW p \in {"none", "running", "dead"}, NEW n \in 0..2
  PROVE  [r EXCEPT !.process = p, !.notices = n] \in Record
BY DEF Record

LEMMA SetHandled ==
  ASSUME NEW r \in Record, NEW n \in 0..2
  PROVE  [r EXCEPT !.notices = n, !.deathHandled = TRUE] \in Record
BY DEF Record

LEMMA ClearTimer ==
  ASSUME NEW r \in Record
  PROVE  [r EXCEPT !.timer = {}] \in Record
BY DEF Record

LEMMA StartedType ==
  ASSUME NEW r \in Record
  PROVE  /\ Started(r) \in Record /\ \A n \in 1..2 : NotSpawned(r, n) \in Record
         /\ Killed(r) \in Record
<1>1. Started(r) \in Record
  <2> DEFINE s == [r EXCEPT !.process = "running", !.notices = 0]
             t == [s EXCEPT !.uptime = 0]
             u == [t EXCEPT !.deathHandled = FALSE]
  <2>0. 0 \in 0..ResetUptime /\ 0 \in 0..2  BY NumbersType
  <2>1. s \in Record  BY <2>0, SetNotices
  <2> HIDE DEF s
  <2>2. t \in Record  BY <2>0, <2>1 DEF Record
  <2> HIDE DEF t
  <2>3. u \in Record  BY <2>2 DEF Record
  <2> HIDE DEF u
  <2>4. [u EXCEPT !.termed = FALSE] \in Record  BY <2>3 DEF Record
  <2>5. [u EXCEPT !.termed = FALSE] = Started(r)  BY DEF Started, u, t, s, Record
  <2> QED  BY <2>4, <2>5
<1>2. ASSUME NEW n \in 1..2 PROVE NotSpawned(r, n) \in Record
  <2>1. n \in 0..2  OBVIOUS
  <2> QED  BY <1>1, <2>1, SetNotices DEF NotSpawned
<1>3. (r.process = "running" \/ r.termed) \in BOOLEAN  OBVIOUS
<1>4. Killed(r) \in Record  BY <1>3 DEF Killed, Record
<1> QED  BY <1>1, <1>2, <1>4

LEMMA AgedType ==
  ASSUME NEW r \in Record, 0 \notin r.timer
  PROVE  Aged(r) \in Record
<1>1. Older(r.restartTimes) \in Seq(Ages)  BY OlderType DEF Record
<1>2. {left - 1 : left \in r.timer} \in SUBSET (0..BackoffCap)  BY NumbersType DEF Record
<1>3. Least(r.uptime + 1, ResetUptime) \in 0..ResetUptime  BY NumbersType DEF Record, Least
<1> QED  BY <1>1, <1>2, <1>3 DEF Aged, Record

LEMMA RestartingType ==
  ASSUME NEW r \in Record
  PROVE  Restarting(r) \in Record /\ GivenUp(r) \in Record
<1>0. BackoffCap \in Nat  BY NumbersType
<1>1. WithDeath(r.restartTimes) \in Seq(Ages)  BY WithDeathType DEF Record
<1>2. Backoff(r) \in 1..BackoffCap /\ Least(Backoff(r) * 2, BackoffCap) \in 1..BackoffCap
  BY NumbersType DEF Record, Least, Backoff
<1>3. {Backoff(r)} \in SUBSET (0..BackoffCap)  BY <1>0, <1>2
<1>4. Restarting(r) \in Record  BY <1>1, <1>2, <1>3 DEF Restarting, Record
<1>5. GivenUp(r) \in Record  BY <1>1, <1>2 DEF GivenUp, Record
<1> QED  BY <1>4, <1>5

LEMMA TypeParts ==
  TypeOK <=> /\ phase \in {"up", "stopping", "stopped", "failed"}
             /\ boot \in {"probing", "answered", "asleep", "due", "over"}
             /\ waited \in 0..(HealthTimeout + 1)
             /\ grace \in 0..Grace
             /\ child \in [Children -> Record]
             /\ deaths \in [Children -> Seq(Ages)]
             /\ lives \in [Children -> 0..(MaxRestarts + 1)]
BY DEF TypeOK, Record, Ages

LEMMA StartType ==
  ASSUME TypeOK, NEW c \in Children, NEW r \in Record, StartChild(c, r)
  PROVE  /\ child' \in [Children -> Record]
         /\ deaths' \in [Children -> Seq(Ages)]
         /\ lives' \in [Children -> 0..(MaxRestarts + 1)]
<1>1. WithDeath(deaths[c]) \in Seq(Ages)  BY TypeParts, WithDeathType
<1>2. Least(lives[c] + 1, MaxRestarts + 1) \in 0..(MaxRestarts + 1)
  BY TypeParts, NumbersType DEF Least
<1>3. Started(r) \in Record /\ \A n \in 1..2 : NotSpawned(r, n) \in Record  BY StartedType
<1> QED  BY <1>1, <1>2, <1>3, TypeParts DEF StartChild

LEMMA KillAllType ==
  ASSUME NEW f \in [Children -> Record]
  PROVE  KillAll(f) \in [Children -> Record]
BY StartedType DEF KillAll

LEMMA TypeInit ==
  ASSUME Init PROVE TypeOK
<1>1. <<>> \in Seq(Ages)  BY EmptySeq
<1>2. NewChild \in Record  BY <1>1, NumbersType DEF NewChild, Record
<1>3. Started(NewChild) \in Record  BY <1>2, StartedType
<1> QED  BY <1>1, <1>2, <1>3, NumbersType, TypeParts DEF Init

LEMMA TypeStep ==
  ASSUME TypeOK, [Next]_vars
  PROVE  TypeOK'
<1>t. /\ phase \in {"up", "stopping", "stopped", "failed"} /\ boot \in {"probing", "answered", "asleep", "due", "over"}
      /\ waited \in 0..(HealthTimeout + 1) /\ grace \in 0..Grace /\ child \in [Children -> Record]
      /\ deaths \in [Children -> Seq(Ages)] /\ lives \in [Children -> 0..(MaxRestarts + 1)]
  BY TypeParts
<1>n. /\ MaxRestarts \in Nat \ {0} /\ HealthTimeout \in Nat /\ Grace \in Nat
  BY NumbersType
<1>s. /\ phase' \in {"up", "stopping", "stopped", "failed"}
      /\ boot' \in {"probing", "answered", "asleep", "due", "over"}
      /\ waited' \in 0..(HealthTimeout + 1) /\ grace' \in 0..Grace
      /\ child' \in [Children -> Record] /\ deaths' \in [Children -> Seq(Ages)]
      /\ lives' \in [Children -> 0..(MaxRestarts + 1)]
  <2>1. ASSUME NEW c \in Children, Dies(c) PROVE <1>s!:
    <3>1. WithDeath(deaths[c]) \in Seq(Ages)  BY <1>t, WithDeathType
    <3>2. Least(lives[c] + 1, MaxRestarts + 1) \in 0..(MaxRestarts + 1)  BY <1>t, <1>n DEF Least
    <3>3. [child[c] EXCEPT !.process = "dead", !.notices = 1] \in Record  
      <4>1. child[c] \in Record /\ 1 \in 0..2  BY <1>t
      <4> QED  BY <4>1, SetNotices
    <3>4. child' \in [Children -> Record]  BY <1>t, <1>n, <2>1, <3>3 DEF Dies
    <3> QED  BY <1>t, <1>n, <2>1, <3>1, <3>2, <3>4 DEF Dies, Mourned
  <2>2. ASSUME NEW c \in Children, HandleDeath(c) PROVE <1>s!:
    <3>0. child[c] \in Record /\ child[c].notices > 0  BY <1>t, <2>2 DEF HandleDeath
    <3>1. Noticed(c) \in Record
      <4>1. child[c].notices \in 0..2  BY <3>0 DEF Record
      <4>2. child[c].notices - 1 \in 0..2  BY <3>0, <4>1
      <4> QED  BY <3>0, <4>2, SetHandled DEF Noticed
    <3>2. /\ Restarting(Noticed(c)) \in Record /\ GivenUp(Noticed(c)) \in Record
          /\ [Noticed(c) EXCEPT !.process = "none"] \in Record
      BY <3>1, RestartingType, SetProcess
    <3>3. KillAll([child EXCEPT ![c] = GivenUp(Noticed(c))]) \in [Children -> Record]

      <4>1. [child EXCEPT ![c] = GivenUp(Noticed(c))] \in [Children -> Record]  BY <1>t, <3>2
      <4> QED  BY <4>1, KillAllType
    <3> QED  BY <1>t, <1>n, <2>2, <3>1, <3>2, <3>3 DEF HandleDeath, OnChildExit
  <2>3. ASSUME NEW c \in Children, RestartTimer(c) PROVE <1>s!:
    <3>1. [child[c] EXCEPT !.timer = {}] \in Record  
      <4>1. child[c] \in Record  BY <1>t
      <4> QED  BY <4>1, ClearTimer
    <3>2. [child EXCEPT ![c].timer = {}] \in [Children -> Record]  BY <1>t, <3>1
    <3> QED  BY <1>t, <1>n, <2>3, <3>1, <3>2, StartType DEF RestartTimer
  <2>4. CASE Healthy
    <3>1. child["bridge"] \in Record /\ "bridge" \in Children  BY <1>t DEF Children
    <3> QED  BY <1>t, <1>n, <2>4, <3>1, StartType DEF Healthy
  <2>5. CASE Unhealthy  BY <1>t, <1>n, <2>5, KillAllType DEF Unhealthy
  <2>6. CASE ProbeAnswered \/ NextProbe  BY <1>t, <1>n, <2>6 DEF ProbeAnswered, NextProbe
  <2>7. CASE Shutdown  BY <1>t, <1>n, <2>7, KillAllType DEF Shutdown
  <2>8. CASE ExitZero  BY <1>t, <1>n, <2>8 DEF ExitZero
  <2>9. CASE Tick
    <3>1. \A c \in Children : 0 \notin child[c].timer  BY <1>t, <1>n, <2>9 DEF Tick, Due
    <3>2. child' \in [Children -> Record]  BY <1>t, <1>n, <2>9, <3>1, AgedType DEF Tick
    <3>3. deaths' \in [Children -> Seq(Ages)]  BY <1>t, <1>n, <2>9, OlderType DEF Tick
    <3>4. waited' \in 0..(HealthTimeout + 1)  BY <1>t, <1>n, <2>9 DEF Tick, Least
    <3>5. grace' \in 0..Grace  BY <1>t, <1>n, <2>9 DEF Tick, shuttingDown
    <3>6. boot' \in {"probing", "answered", "asleep", "due", "over"} /\ phase' = phase /\ lives' = lives
      BY <1>t, <1>n, <2>9 DEF Tick
    <3> QED  BY <1>t, <1>n, <3>2, <3>3, <3>4, <3>5, <3>6
  <2>10. CASE UNCHANGED vars  BY <1>t, <2>10 DEF vars
  <2> QED  BY <2>1, <2>2, <2>3, <2>4, <2>5, <2>6, <2>7, <2>8, <2>9, <2>10 DEF Next
<1> QED  BY <1>s DEF TypeOK, Record, Ages

\* Every variable has its type: in particular a restart delay never passes the cap.
THEOREM SupervisorTypes == Spec => []TypeOK
BY TypeInit, TypeStep, PTL DEF Spec

----------------------------------------------------------------------------
(***************************************************************************)
(* The records of the children                                             *)
(***************************************************************************)
\* A process is dead until its first notice; a delay runs only for no process.
RecordInv(r) ==
  /\ r.process = "dead" <=> r.notices > 0 /\ ~r.deathHandled
  /\ r.process = "running" => r.notices = 0 /\ ~r.deathHandled
  /\ r.timer # {} => r.process = "none"

\* The bridge waits for the health loop.
BridgeWaits ==
  boot # "over" => /\ child["bridge"].process = "none" /\ child["bridge"].notices = 0
                   /\ child["bridge"].timer = {} /\ lives["bridge"] = 0

\* Going down: no delay is left, and whoever runs was told.
GoingDown ==
  shuttingDown => \A c \in Children :
    child[c].timer = {} /\ (child[c].process = "running" => child[c].termed)

\* What the code counts is what happened, up to a death it has not noticed.
Counted(c) ==
  deaths[c] = IF child[c].process = "dead" THEN WithDeath(child[c].restartTimes)
              ELSE child[c].restartTimes

\* How old the newest death of a crash loop can be.
Behind(r) ==
  IF r.process = "dead" THEN {0}
  ELSE IF r.process = "none" THEN {BackoffCap - left : left \in r.timer}
  ELSE {BackoffCap + u : u \in {r.uptime} \cap (0..Tight)}

LoopInv(c) ==
  /\ lives[c] <= Len(deaths[c])
  /\ child[c].process # "dead" => lives[c] <= MaxRestarts
  /\ child[c].process = "none" /\ child[c].timer = {} => lives[c] = 0
  /\ \A e \in Behind(child[c]) : Loop(deaths[c], lives[c], e)

SupervisorInv ==
  /\ \A c \in Children : RecordInv(child[c])
  /\ BridgeWaits
  /\ GoingDown
  /\ phase = "up" => \A c \in Children : Counted(c) /\ LoopInv(c)
  /\ FatalOnlyForCause

ChildInv(c) == RecordInv(child[c]) /\ (phase = "up" => Counted(c) /\ LoopInv(c))
Told(c) == child[c].timer = {} /\ (child[c].process = "running" => child[c].termed)

LEMMA InvParts ==
  SupervisorInv <=> /\ \A c \in Children : ChildInv(c)
                    /\ BridgeWaits
                    /\ shuttingDown => \A c \in Children : Told(c)
                    /\ FatalOnlyForCause
BY DEF SupervisorInv, ChildInv, GoingDown, Told

\* A child a step does not touch.
LEMMA Untouched ==
  ASSUME NEW c \in Children, ChildInv(c), phase' = "up" => phase = "up",
         child'[c] = child[c], deaths'[c] = deaths[c], lives'[c] = lives[c]
  PROVE  ChildInv(c)' /\ (Told(c) => Told(c)')
BY DEF ChildInv, Counted, LoopInv, Told

\* A death ends a life of a crash loop, or a long life.
LEMMA DeathCounts ==
  ASSUME TypeOK, NEW c \in Children, NEW e \in 0..Span, Loop(deaths[c], lives[c], e),
         lives[c] <= MaxRestarts, lives[c] <= Len(deaths[c]),
         deaths'[c] = WithDeath(deaths[c]), child'[c].process = "dead",
         lives'[c] = Least(lives[c] + 1, MaxRestarts + 1) \/ lives'[c] = 0
  PROVE  LoopInv(c)'
<1>1. /\ deaths[c] \in Seq(Ages) /\ lives[c] \in 0..MaxRestarts /\ MaxRestarts \in Nat
  BY TypeParts, NumbersType
<1>2. Behind(child'[c]) = {0}  BY DEF Behind
<1>3. CASE lives'[c] = Least(lives[c] + 1, MaxRestarts + 1)
  <2>1. lives'[c] = lives[c] + 1  BY <1>1, <1>3 DEF Least
  <2>2. /\ lives[c] + 1 <= Len(WithDeath(deaths[c]))
        /\ Loop(WithDeath(deaths[c]), lives[c] + 1, 0)
    BY <1>1, LoopGrows
  <2> QED  BY <1>2, <2>1, <2>2 DEF LoopInv
<1>4. CASE lives'[c] = 0
  <2>1. Len(deaths'[c]) \in Nat  BY <1>1, WithDeathType, LenProperties
  <2>2. Loop(deaths'[c], 0, 0)  BY DEF Loop
  <2> QED  BY <1>2, <1>4, <2>1, <2>2 DEF LoopInv
<1> QED  BY <1>3, <1>4

\* startChild for a child whose newest death is at most a full delay old.
LEMMA StartKeeps ==
  ASSUME TypeOK, NEW c \in Children, NEW r \in Record, StartChild(c, r),
         r.timer = {}, r.restartTimes = child[c].restartTimes,
         child[c].process = "none", Counted(c),
         Loop(deaths[c], lives[c], BackoffCap), lives[c] <= MaxRestarts,
         lives[c] <= Len(deaths[c])
  PROVE  /\ ChildInv(c)'
         /\ \A d \in Children \ {c} : /\ child'[d] = child[d] /\ deaths'[d] = deaths[d]
                                      /\ lives'[d] = lives[d]
<1>1. /\ child \in [Children -> Record] /\ deaths \in [Children -> Seq(Ages)]
      /\ lives \in [Children -> 0..(MaxRestarts + 1)] /\ BackoffCap \in Nat /\ Tight \in Nat
  BY TypeParts, NumbersType
<1>2. \A d \in Children \ {c} : child'[d] = child[d] /\ deaths'[d] = deaths[d] /\ lives'[d] = lives[d]
  BY <1>1 DEF StartChild
<1>3. deaths[c] = child[c].restartTimes  BY DEF Counted
<1>4. CASE child' = [child EXCEPT ![c] = Started(r)] /\ UNCHANGED <<deaths, lives>>
  <2>1. child'[c] = Started(r) /\ deaths' = deaths /\ lives' = lives  BY <1>1, <1>4
  <2>2. /\ child'[c].process = "running" /\ child'[c].notices = 0 /\ child'[c].deathHandled = FALSE
        /\ child'[c].timer = {} /\ child'[c].uptime = 0 /\ child'[c].restartTimes = child[c].restartTimes
    BY <2>1 DEF Started, Record
  <2>3. RecordInv(child'[c]) /\ Counted(c)'  BY <1>3, <2>1, <2>2 DEF RecordInv, Counted
  <2>4. Behind(child'[c]) \subseteq {BackoffCap}  BY <1>1, <2>2 DEF Behind
  <2>5. LoopInv(c)'
    <3>1. \A e \in Behind(child'[c]) : Loop(deaths'[c], lives'[c], e)  BY <2>1, <2>4
    <3> QED  BY <2>1, <2>2, <3>1 DEF LoopInv
  <2> QED  BY <1>2, <2>3, <2>5 DEF ChildInv
<1>5. CASE /\ \E n \in 1..2 : child' = [child EXCEPT ![c] = NotSpawned(r, n)]
           /\ deaths' = [deaths EXCEPT ![c] = WithDeath(@)]
           /\ lives' = [lives EXCEPT ![c] = Least(@ + 1, MaxRestarts + 1)]
  <2>1. PICK n \in 1..2 : child' = [child EXCEPT ![c] = NotSpawned(r, n)]  BY <1>5
  <2>2. /\ child'[c] = NotSpawned(r, n) /\ deaths'[c] = WithDeath(deaths[c])
        /\ lives'[c] = Least(lives[c] + 1, MaxRestarts + 1)
    BY <1>1, <1>5, <2>1
  <2>3. /\ child'[c].process = "dead" /\ child'[c].notices = n /\ child'[c].deathHandled = FALSE
        /\ child'[c].timer = {} /\ child'[c].restartTimes = child[c].restartTimes
    BY <2>2 DEF NotSpawned, Started, Record
  <2>4. RecordInv(child'[c]) /\ Counted(c)'  BY <1>3, <2>2, <2>3 DEF RecordInv, Counted
  <2>5. BackoffCap \in 0..Span  BY <1>1 DEF Span
  <2>6. LoopInv(c)'  BY <2>2, <2>3, <2>5, DeathCounts
  <2> QED  BY <1>2, <2>4, <2>6 DEF ChildInv
<1> QED  BY <1>4, <1>5 DEF StartChild

LEMMA LoopVacuous ==
  ASSUME NEW s, NEW e
  PROVE  Loop(s, 0, e)
BY DEF Loop

LEMMA DiesStep ==
  ASSUME TypeOK, SupervisorInv, NEW c \in Children, Dies(c)
  PROVE  SupervisorInv'
<1>1. /\ child \in [Children -> Record] /\ deaths \in [Children -> Seq(Ages)]
      /\ lives \in [Children -> 0..(MaxRestarts + 1)] /\ BackoffCap \in Nat /\ Tight \in Nat
      /\ MaxRestarts \in Nat /\ ResetUptime \in Nat
  BY TypeParts, NumbersType
<1>2. /\ child[c].process = "running" /\ child' = [child EXCEPT ![c].process = "dead", ![c].notices = 1]
      /\ deaths' = [deaths EXCEPT ![c] = WithDeath(@)] /\ phase' = phase /\ boot' = boot /\ waited' = waited
      /\ phase # "failed"
      /\ lives' = [lives EXCEPT ![c] = IF child[c].uptime <= Tight THEN Least(@ + 1, MaxRestarts + 1) ELSE 0]
  BY DEF Dies, Mourned
<1>3. \A d \in Children \ {c} : child'[d] = child[d] /\ deaths'[d] = deaths[d] /\ lives'[d] = lives[d]
  BY <1>1, <1>2
<1>4. /\ child'[c].process = "dead" /\ child'[c].notices = 1 /\ child'[c].deathHandled = child[c].deathHandled
      /\ child'[c].timer = child[c].timer /\ child'[c].restartTimes = child[c].restartTimes
  BY <1>1, <1>2 DEF Record
<1>5. /\ deaths'[c] = WithDeath(deaths[c])
      /\ lives'[c] = IF child[c].uptime <= Tight THEN Least(lives[c] + 1, MaxRestarts + 1) ELSE 0
  BY <1>1, <1>2
<1>6. ChildInv(c)  BY InvParts
<1>7. RecordInv(child'[c])
  <2>1. /\ ~child[c].deathHandled /\ child[c].timer = {}  BY <1>2, <1>6 DEF ChildInv, RecordInv
  <2>2. child[c].deathHandled \in BOOLEAN  BY <1>1 DEF Record
  <2>3. child'[c].deathHandled = FALSE  BY <1>4, <2>1, <2>2
  <2> QED  BY <1>4, <2>1, <2>3 DEF RecordInv
<1>8. ASSUME phase = "up" PROVE Counted(c)' /\ LoopInv(c)'
  <2>1. Counted(c) /\ LoopInv(c)  BY <1>6, <1>8 DEF ChildInv
  <2>2. Counted(c)'  BY <1>2, <1>4, <1>5, <2>1 DEF Counted
  <2>3. lives[c] <= MaxRestarts /\ lives[c] <= Len(deaths[c])  BY <1>2, <2>1 DEF LoopInv
  <2>4. CASE child[c].uptime <= Tight
    <3>1. child[c].uptime \in 0..Tight  BY <1>1, <2>4 DEF Record
    <3>2. BackoffCap + child[c].uptime \in Behind(child[c])  BY <1>2, <3>1 DEF Behind
    <3>3. Loop(deaths[c], lives[c], BackoffCap + child[c].uptime)  BY <2>1, <3>2 DEF LoopInv
    <3>4. BackoffCap + child[c].uptime \in 0..Span  BY <1>1, <3>1 DEF Span
    <3> QED  BY <1>4, <1>5, <2>2, <2>3, <2>4, <3>3, <3>4, DeathCounts
  <2>5. CASE ~(child[c].uptime <= Tight)
    <3>1. lives'[c] = 0  BY <1>5, <2>5
    <3>2. Len(deaths'[c]) \in Nat  BY <1>1, <1>5, WithDeathType, LenProperties
    <3>3. \A e \in Behind(child'[c]) : Loop(deaths'[c], lives'[c], e)  BY <3>1, LoopVacuous
    <3> QED  BY <1>4, <2>2, <3>1, <3>2, <3>3 DEF LoopInv
  <2> QED  BY <2>4, <2>5
<1>9. \A d \in Children : ChildInv(d)'
  <2>1. ChildInv(c)'  BY <1>2, <1>7, <1>8 DEF ChildInv
  <2>2. ASSUME NEW d \in Children \ {c} PROVE ChildInv(d)'
    BY <1>2, <1>3, InvParts, Untouched
  <2> QED  BY <2>1, <2>2
<1>10. BridgeWaits'
  <2>1. BridgeWaits /\ "bridge" \in Children  BY InvParts DEF Children
  <2> QED  BY <1>2, <1>3, <2>1 DEF BridgeWaits
<1>11. shuttingDown' => \A d \in Children : Told(d)'
  <2>1. shuttingDown => \A d \in Children : Told(d)  BY InvParts
  <2> QED  BY <1>2, <1>3, <1>4, <2>1 DEF Told, shuttingDown
<1>12. FatalOnlyForCause'  BY <1>2 DEF FatalOnlyForCause
<1> QED  BY <1>9, <1>10, <1>11, <1>12, InvParts DEF SupervisorInv, ChildInv, GoingDown, Told

LEMMA HandledRecord ==
  ASSUME TypeOK, NEW c \in Children, child[c].notices > 0
  PROVE  /\ Noticed(c) \in Record /\ Noticed(c).process = child[c].process
         /\ Noticed(c).deathHandled = TRUE /\ Noticed(c).notices \in 0..2
         /\ Noticed(c).timer = child[c].timer /\ Noticed(c).restartTimes = child[c].restartTimes
<1>1. child[c] \in Record  BY TypeParts
<1>2. child[c].notices - 1 \in 0..2  BY <1>1 DEF Record
<1> QED  BY <1>1, <1>2, SetHandled DEF Noticed, Record

\* killAll leaves every child that runs told.
LEMMA KilledKeeps ==
  ASSUME TypeOK, NEW d \in Children, ChildInv(d), child'[d] = Killed(child[d]), phase' # "up"
  PROVE  ChildInv(d)' /\ Told(d)'
<1>1. child[d] \in Record /\ RecordInv(child[d])  BY TypeParts DEF ChildInv
<1>2. /\ child'[d].timer = {} /\ child'[d].process = child[d].process
      /\ child'[d].notices = child[d].notices /\ child'[d].deathHandled = child[d].deathHandled
      /\ child[d].process = "running" => child'[d].termed
  BY <1>1 DEF Killed, Record
<1> QED  BY <1>1, <1>2 DEF ChildInv, RecordInv, Told

LEMMA HandleDeathStep ==
  ASSUME TypeOK, SupervisorInv, NEW c \in Children, HandleDeath(c)
  PROVE  SupervisorInv'
<1> DEFINE n == Noticed(c)
<1>1. /\ child \in [Children -> Record] /\ deaths \in [Children -> Seq(Ages)]
      /\ lives \in [Children -> 0..(MaxRestarts + 1)] /\ MaxRestarts \in Nat /\ BackoffCap \in Nat
  BY TypeParts, NumbersType
<1>2. /\ child[c].notices > 0 /\ boot' = boot /\ waited' = waited /\ deaths' = deaths /\ lives' = lives
      /\ phase \in {"up", "stopping"}
  BY DEF HandleDeath
<1>3. /\ n \in Record /\ n.process = child[c].process /\ n.deathHandled = TRUE /\ n.notices \in 0..2
      /\ n.timer = child[c].timer /\ n.restartTimes = child[c].restartTimes
  BY <1>2, HandledRecord
<1>4. /\ \A d \in Children : ChildInv(d)
      /\ BridgeWaits /\ (shuttingDown => \A d \in Children : Told(d))
      /\ FatalOnlyForCause
  BY InvParts
<1>5. "bridge" \in Children  BY DEF Children
<1>6. ~(c = "bridge" /\ boot # "over")  BY <1>2, <1>4 DEF BridgeWaits
<1>7. SUFFICES /\ \A d \in Children : ChildInv(d)'
               /\ BridgeWaits'
               /\ shuttingDown' => \A d \in Children : Told(d)'
               /\ FatalOnlyForCause'
  BY DEF SupervisorInv, ChildInv, GoingDown, Told
<1> HIDE DEF n
<1>8. CASE child[c].deathHandled
  <2>1. child' = [child EXCEPT ![c] = n] /\ phase' = phase  BY <1>8 DEF HandleDeath, n
  <2>2. child'[c] = n /\ \A d \in Children \ {c} : child'[d] = child[d]  BY <1>1, <2>1
  <2>3. child[c].process = "none"
    <3>1. child[c].process \in {"none", "running", "dead"}  BY <1>1 DEF Record
    <3> QED  BY <1>4, <1>8, <3>1 DEF ChildInv, RecordInv
  <2>4. ChildInv(c)'
    <3>1. RecordInv(child'[c])  BY <1>3, <2>2, <2>3 DEF RecordInv
    <3>2. Behind(child'[c]) = Behind(child[c])  BY <1>3, <2>2, <2>3 DEF Behind
    <3>3. ASSUME phase = "up" PROVE Counted(c)' /\ LoopInv(c)'
      <4>1. Counted(c) /\ LoopInv(c)  BY <1>4, <3>3 DEF ChildInv
      <4>2. Counted(c)'  BY <1>2, <1>3, <2>2, <2>3, <4>1 DEF Counted
      <4>3. LoopInv(c)'  BY <1>2, <1>3, <2>2, <2>3, <3>2, <4>1 DEF LoopInv
      <4> QED  BY <4>2, <4>3
    <3> QED  BY <2>1, <3>1, <3>3 DEF ChildInv
  <2>5. \A d \in Children : ChildInv(d)'  BY <1>2, <1>4, <2>1, <2>2, <2>4, Untouched
  <2>6. BridgeWaits'  BY <1>2, <1>4, <1>5, <1>6, <2>2 DEF BridgeWaits
  <2>7. shuttingDown' => \A d \in Children : Told(d)'
    BY <1>3, <1>4, <2>1, <2>2, <2>3 DEF shuttingDown, Told
  <2>8. FatalOnlyForCause'  BY <1>2, <2>1 DEF FatalOnlyForCause
  <2> QED  BY <2>5, <2>6, <2>7, <2>8
<1>9. CASE ~child[c].deathHandled /\ shuttingDown
  <2>1. child' = [child EXCEPT ![c] = [n EXCEPT !.process = "none"]] /\ phase' = phase
    BY <1>9 DEF HandleDeath, OnChildExit, n
  <2>2. child'[c] = [n EXCEPT !.process = "none"] /\ \A d \in Children \ {c} : child'[d] = child[d]
    BY <1>1, <2>1
  <2>3. /\ child'[c].process = "none" /\ child'[c].deathHandled = TRUE /\ child'[c].timer = child[c].timer
    BY <1>3, <2>2 DEF Record
  <2>4. phase # "up" /\ phase' # "up"  BY <1>9, <2>1 DEF shuttingDown
  <2>5. ChildInv(c)'  BY <2>3, <2>4 DEF ChildInv, RecordInv
  <2>6. \A d \in Children : ChildInv(d)'  BY <1>2, <1>4, <2>1, <2>2, <2>5, Untouched
  <2>7. BridgeWaits'  BY <1>2, <1>4, <1>5, <1>6, <2>2 DEF BridgeWaits
  <2>8. shuttingDown' => \A d \in Children : Told(d)'
    BY <1>4, <1>9, <2>2, <2>3 DEF Told
  <2>9. FatalOnlyForCause'  BY <1>2, <2>1 DEF FatalOnlyForCause
  <2> QED  BY <2>6, <2>7, <2>8, <2>9
<1>10. CASE ~child[c].deathHandled /\ ~shuttingDown
  <2>1. phase = "up"  BY <1>10 DEF shuttingDown
  <2>2. child[c].process = "dead"
    BY <1>2, <1>4, <1>10 DEF ChildInv, RecordInv
  <2>3. /\ deaths[c] = WithDeath(child[c].restartTimes) /\ lives[c] <= Len(deaths[c])
        /\ Loop(deaths[c], lives[c], 0)
    <3>1. 0 \in Behind(child[c])  BY <2>2 DEF Behind
    <3> QED  BY <1>4, <2>1, <2>2, <3>1 DEF ChildInv, Counted, LoopInv
  <2>4. CASE Len(WithDeath(n.restartTimes)) > MaxRestarts
    <3>1. phase' = "failed" /\ child' = KillAll([child EXCEPT ![c] = GivenUp(n)])
      BY <1>10, <2>4 DEF HandleDeath, OnChildExit, n
    <3>2. \A d \in Children \ {c} : child'[d] = Killed(child[d])  BY <1>1, <3>1 DEF KillAll
    <3>3. child'[c] = Killed(GivenUp(n))  BY <1>1, <3>1 DEF KillAll
    <3>4. \A d \in Children \ {c} : ChildInv(d)' /\ Told(d)'
      BY <1>4, <3>1, <3>2, KilledKeeps
    <3>5. ChildInv(c)' /\ Told(c)'
      <4>1. GivenUp(n) \in Record /\ GivenUp(n).process = "none" /\ GivenUp(n).deathHandled = TRUE
        BY <1>3, RestartingType DEF GivenUp, Record
      <4>2. child'[c].timer = {} /\ child'[c].process = "none" /\ child'[c].deathHandled = TRUE
        BY <3>3, <4>1 DEF Killed, Record
      <4> QED  BY <3>1, <4>2 DEF ChildInv, RecordInv, Told
    <3>6. BridgeWaits'
      <4> SUFFICES ASSUME boot # "over" PROVE BridgeWaits'  BY <1>2 DEF BridgeWaits
      <4>1. "bridge" \in Children \ {c}  BY <1>5, <1>6
      <4>2. child'["bridge"] = Killed(child["bridge"]) /\ child["bridge"] \in Record  BY <1>1, <3>2, <4>1
      <4> QED  BY <1>2, <1>4, <4>2 DEF BridgeWaits, Killed, Record
    <3>7. FatalOnlyForCause'  BY <1>2, <1>3, <2>3, <2>4 DEF FatalOnlyForCause
    <3> QED  BY <3>4, <3>5, <3>6, <3>7
  <2>5. CASE ~(Len(WithDeath(n.restartTimes)) > MaxRestarts)
    <3>1. phase' = phase /\ child' = [child EXCEPT ![c] = Restarting(n)]
      BY <1>10, <2>5 DEF HandleDeath, OnChildExit, n
    <3>2. child'[c] = Restarting(n) /\ \A d \in Children \ {c} : child'[d] = child[d]  BY <1>1, <3>1
    <3>3. /\ child'[c].process = "none" /\ child'[c].deathHandled = TRUE
          /\ child'[c].timer = {Backoff(n)} /\ child'[c].restartTimes = WithDeath(n.restartTimes)
      BY <1>3, <3>2 DEF Restarting, Record
    <3>4. Backoff(n) \in 0..BackoffCap  BY <1>3, NumbersType DEF Backoff, Record
    <3>5. Counted(c)'  BY <1>2, <1>3, <2>3, <3>3 DEF Counted
    <3>6. LoopInv(c)'
      <4>1. Len(deaths[c]) \in Nat /\ lives[c] \in Nat  BY <1>1, LenProperties
      <4>2. lives[c] <= MaxRestarts  BY <1>1, <1>3, <2>3, <2>5, <4>1
      <4>3. Behind(child'[c]) = {BackoffCap - Backoff(n)}  BY <3>3 DEF Behind
      <4>4. Loop(deaths[c], lives[c], BackoffCap - Backoff(n))
        <5> DEFINE s == deaths[c]
        <5> SUFFICES ASSUME NEW j \in 1..lives[c]
                     PROVE  s[Len(s) - j + 1] <= (j - 1) * Span + (BackoffCap - Backoff(n))
          BY DEF Loop
        <5>1. s[Len(s) - j + 1] <= (j - 1) * Span + 0  BY <2>3 DEF Loop
        <5>2. Span \in Nat /\ j - 1 \in Nat /\ Len(s) - j + 1 \in 1..Len(s)
          BY <1>1, <2>3, <4>1, NumbersType DEF Span
        <5>3. (j - 1) * Span \in Nat /\ s[Len(s) - j + 1] \in Nat
          <6>1. (j - 1) * Span \in Nat  BY <5>2, Times
          <6>2. s[Len(s) - j + 1] \in Ages  BY <1>1, <5>2, ElementOfSeq
          <6> QED  BY <6>1, <6>2, NumbersType DEF Ages
        <5>4. BackoffCap - Backoff(n) \in Nat  BY <1>1, <3>4
        <5> HIDE DEF s
        <5> QED  BY <5>1, <5>3, <5>4
      <4> QED  BY <1>2, <2>3, <3>3, <4>2, <4>3, <4>4 DEF LoopInv
    <3>7. ChildInv(c)'
      <4>1. RecordInv(child'[c])  BY <3>3 DEF RecordInv
      <4> QED  BY <3>5, <3>6, <4>1 DEF ChildInv
    <3>8. \A d \in Children : ChildInv(d)'  BY <1>2, <1>4, <3>1, <3>2, <3>7, Untouched
    <3>9. BridgeWaits'  BY <1>2, <1>4, <1>5, <1>6, <3>2 DEF BridgeWaits
    <3>10. ~shuttingDown'  BY <2>1, <3>1 DEF shuttingDown
    <3>11. FatalOnlyForCause'  BY <2>1, <3>1 DEF FatalOnlyForCause
    <3> QED  BY <3>8, <3>9, <3>10, <3>11
  <2> QED  BY <2>4, <2>5
<1> QED  BY <1>8, <1>9, <1>10

LEMMA RestartTimerStep ==
  ASSUME TypeOK, SupervisorInv, NEW c \in Children, RestartTimer(c)
  PROVE  SupervisorInv'
<1> DEFINE r == [child[c] EXCEPT !.timer = {}]
<1>1. /\ child \in [Children -> Record] /\ deaths \in [Children -> Seq(Ages)]
      /\ lives \in [Children -> 0..(MaxRestarts + 1)] /\ MaxRestarts \in Nat /\ BackoffCap \in Nat
  BY TypeParts, NumbersType
<1>0. shuttingDown => \A d \in Children : Told(d)  BY InvParts
<1>2. /\ 0 \in child[c].timer /\ boot' = boot /\ waited' = waited /\ phase' = phase /\ StartChild(c, r)
  BY <1>0 DEF RestartTimer, Told
<1>3. r \in Record /\ r.timer = {} /\ r.restartTimes = child[c].restartTimes
  <2>1. child[c] \in Record  BY <1>1
  <2> QED  BY <2>1, ClearTimer DEF Record
<1> HIDE DEF r
<1>4. /\ \A d \in Children : ChildInv(d)
      /\ BridgeWaits /\ (shuttingDown => \A d \in Children : Told(d))
  BY InvParts
<1>5. phase = "up"  BY <1>2, <1>4 DEF shuttingDown, Told
<1>6. child[c].process = "none"  BY <1>2, <1>4 DEF ChildInv, RecordInv
<1>7. /\ Counted(c) /\ lives[c] <= MaxRestarts /\ lives[c] <= Len(deaths[c])
      /\ Loop(deaths[c], lives[c], BackoffCap)
  <2>1. Counted(c) /\ LoopInv(c)  BY <1>4, <1>5 DEF ChildInv
  <2>2. BackoffCap - 0 \in Behind(child[c])  BY <1>2, <1>6 DEF Behind
  <2>3. BackoffCap - 0 = BackoffCap  BY <1>1
  <2> QED  BY <1>6, <2>1, <2>2, <2>3 DEF LoopInv
<1>8. /\ ChildInv(c)'
      /\ \A d \in Children \ {c} : /\ child'[d] = child[d] /\ deaths'[d] = deaths[d]
                                   /\ lives'[d] = lives[d]
  BY <1>2, <1>3, <1>6, <1>7, StartKeeps
<1>9. \A d \in Children : ChildInv(d)'  BY <1>2, <1>4, <1>8, Untouched
<1>10. BridgeWaits'
  <2>1. "bridge" \in Children  BY DEF Children
  <2> QED  BY <1>2, <1>4, <1>8, <2>1 DEF BridgeWaits
<1> QED  BY <1>2, <1>5, <1>9, <1>10
         DEF SupervisorInv, ChildInv, GoingDown, shuttingDown, FatalOnlyForCause

LEMMA HealthyStep ==
  ASSUME TypeOK, SupervisorInv, Healthy
  PROVE  SupervisorInv'
<1>1. boot = "answered" /\ boot' = "over" /\ phase' = phase /\ waited' = waited /\ phase # "failed"
  BY DEF Healthy
<1>2. /\ \A d \in Children : ChildInv(d)
      /\ BridgeWaits /\ (shuttingDown => \A d \in Children : Told(d))
  BY InvParts
<1>3. BridgeWaits' /\ FatalOnlyForCause'  BY <1>1 DEF BridgeWaits, FatalOnlyForCause
<1>4. CASE shuttingDown
  <2>1. UNCHANGED <<child, deaths, lives>>  BY <1>4 DEF Healthy
  <2>2. \A d \in Children : ChildInv(d)' /\ Told(d)'  BY <1>1, <1>2, <1>4, <2>1, Untouched
  <2> QED  BY <1>3, <2>2 DEF SupervisorInv, ChildInv, GoingDown, Told
<1>5. CASE ~shuttingDown
  <2> DEFINE b == child["bridge"]
  <2>1. "bridge" \in Children /\ b \in Record /\ deaths["bridge"] \in Seq(Ages) /\ MaxRestarts \in Nat
    BY TypeParts, NumbersType DEF Children
  <2>2. /\ b.process = "none" /\ b.timer = {} /\ lives["bridge"] = 0
    BY <1>1, <1>2 DEF BridgeWaits
  <2>3. StartChild("bridge", b) /\ phase = "up"  BY <1>5 DEF Healthy, shuttingDown
  <2>4. Counted("bridge")  BY <1>2, <2>1, <2>3 DEF ChildInv
  <2>5. /\ Loop(deaths["bridge"], lives["bridge"], BackoffCap) /\ lives["bridge"] <= MaxRestarts
        /\ lives["bridge"] <= Len(deaths["bridge"])
    BY <2>1, <2>2, LoopVacuous, LenProperties
  <2> HIDE DEF b
  <2>6. b.restartTimes = child["bridge"].restartTimes  BY DEF b
  <2>7. /\ ChildInv("bridge")'
        /\ \A d \in Children \ {"bridge"} : /\ child'[d] = child[d] /\ deaths'[d] = deaths[d]
                                            /\ lives'[d] = lives[d]
    <3>1. child["bridge"].process = "none"  BY <2>2 DEF b
    <3> QED  BY <2>1, <2>2, <2>3, <2>4, <2>5, <2>6, <3>1, StartKeeps
  <2>8. \A d \in Children : ChildInv(d)'  BY <1>1, <1>2, <2>7, Untouched
  <2> QED  BY <1>1, <1>3, <2>3, <2>8 DEF SupervisorInv, ChildInv, GoingDown, shuttingDown
<1> QED  BY <1>4, <1>5

LEMMA KillAllKeeps ==
  ASSUME TypeOK, SupervisorInv, child' = KillAll(child), phase' # "up", lives' = lives,
         boot' # "over" => boot # "over"
  PROVE  BridgeWaits' /\ \A d \in Children : ChildInv(d)' /\ Told(d)'
<1>1. \A d \in Children : child'[d] = Killed(child[d])  BY DEF KillAll
<1>2. \A d \in Children : ChildInv(d)' /\ Told(d)'  BY <1>1, InvParts, KilledKeeps
<1>3. BridgeWaits'
  <2>1. "bridge" \in Children /\ child["bridge"] \in Record  BY TypeParts DEF Children
  <2>2. BridgeWaits  BY InvParts
  <2> QED  BY <1>1, <2>1, <2>2 DEF BridgeWaits, Killed, Record
<1> QED  BY <1>2, <1>3

\* The steps of the health loop and of shutdown that start nobody.
LEMMA ControlStep ==
  ASSUME TypeOK, SupervisorInv, ProbeAnswered \/ Unhealthy \/ NextProbe \/ Shutdown \/ ExitZero \/ UNCHANGED vars
  PROVE  SupervisorInv'
<1>1. CASE phase' # "up" /\ child' = KillAll(child) /\ UNCHANGED <<deaths, lives, waited>>
  <2>1. boot' # "over" => boot # "over"
    BY <1>1 DEF ProbeAnswered, Unhealthy, NextProbe, Shutdown, ExitZero, vars
  <2>2. BridgeWaits' /\ \A d \in Children : ChildInv(d)' /\ Told(d)'  BY <1>1, <2>1, KillAllKeeps
  <2>3. FatalOnlyForCause'
    BY <1>1 DEF ProbeAnswered, Unhealthy, NextProbe, Shutdown, ExitZero, vars, FatalOnlyForCause, SupervisorInv
  <2> QED  BY <2>2, <2>3 DEF SupervisorInv, ChildInv, GoingDown, Told
<1>2. CASE /\ UNCHANGED <<child, deaths, lives, waited>> /\ (phase' = "up" => phase = "up")
           /\ (phase' # "up" => phase # "up") /\ (phase' = "failed" => phase = "failed")
           /\ (boot' # "over" => boot # "over")
  <2>1. \A d \in Children : ChildInv(d)' /\ (Told(d) => Told(d)')  BY <1>2, InvParts, Untouched
  <2>2. BridgeWaits' /\ FatalOnlyForCause'  BY <1>2, InvParts DEF BridgeWaits, FatalOnlyForCause
  <2>3. shuttingDown' => \A d \in Children : Told(d)'  BY <1>2, <2>1, InvParts DEF shuttingDown
  <2> QED  BY <2>1, <2>2, <2>3 DEF SupervisorInv, ChildInv, GoingDown, Told
<1> QED  BY <1>1, <1>2 DEF ProbeAnswered, Unhealthy, NextProbe, Shutdown, ExitZero, vars

LEMMA TickStep ==
  ASSUME TypeOK, SupervisorInv, Tick
  PROVE  SupervisorInv'
<1>1. /\ child \in [Children -> Record] /\ deaths \in [Children -> Seq(Ages)]
      /\ lives \in [Children -> 0..(MaxRestarts + 1)] /\ MaxRestarts \in Nat /\ BackoffCap \in Nat
      /\ Tight \in Nat /\ ResetUptime \in Nat /\ Tight < ResetUptime
  BY TypeParts, NumbersType, TightAssumption
<1>2. /\ phase' = phase /\ lives' = lives /\ phase # "failed"
      /\ child' = [c \in Children |-> Aged(child[c])] /\ deaths' = [c \in Children |-> Older(deaths[c])]
      /\ boot' # "over" => boot # "over"
      /\ \A c \in Children : ~(child[c].notices > 0)
  BY DEF Tick, Due
<1>3. \A c \in Children : child'[c] = Aged(child[c]) /\ deaths'[c] = Older(deaths[c]) /\ lives'[c] = lives[c]
  BY <1>2
<1>4. /\ \A d \in Children : ChildInv(d)
      /\ BridgeWaits /\ (shuttingDown => \A d \in Children : Told(d))
  BY InvParts
<1>5. ASSUME NEW c \in Children
      PROVE  /\ child'[c].process = child[c].process /\ child'[c].notices = child[c].notices
             /\ child'[c].deathHandled = child[c].deathHandled /\ child'[c].termed = child[c].termed
             /\ child'[c].timer = {left - 1 : left \in child[c].timer}
             /\ child'[c].restartTimes = Older(child[c].restartTimes)
             /\ child'[c].uptime = Least(child[c].uptime + 1, ResetUptime)
  <2>1. child[c] \in Record  BY <1>1
  <2> QED  BY <1>3, <2>1 DEF Aged, Record
<1>6. ASSUME NEW c \in Children PROVE ChildInv(c)'
  <2>1. RecordInv(child[c])  BY <1>4 DEF ChildInv
  <2>2. child[c].process # "dead"  BY <1>2, <2>1 DEF RecordInv
  <2>3. RecordInv(child'[c])
    <3>1. child'[c].timer # {} => child[c].timer # {}  BY <1>5
    <3> QED  BY <1>5, <2>1, <3>1 DEF RecordInv
  <2>4. ASSUME phase = "up" PROVE Counted(c)' /\ LoopInv(c)'
    <3>1. Counted(c) /\ LoopInv(c)  BY <1>4, <2>4 DEF ChildInv
    <3>2. Counted(c)'  BY <1>3, <1>5, <2>2, <3>1 DEF Counted
    <3>3. Len(deaths'[c]) = Len(deaths[c])  BY <1>1, <1>3, OlderType
    <3>4. ASSUME NEW e \in Behind(child'[c]) PROVE Loop(deaths'[c], lives'[c], e)
      <4>1. e \in Int
        <5>1. child[c].timer \subseteq 0..BackoffCap /\ child[c].uptime \in 0..ResetUptime  BY <1>1 DEF Record
        <5> QED  BY <1>1, <1>5, <5>1 DEF Behind, Least
      <4>2. e - 1 \in Behind(child[c])
        <5>1. child[c].timer \subseteq 0..BackoffCap /\ child[c].uptime \in 0..ResetUptime  BY <1>1 DEF Record
        <5>2. CASE child[c].process = "none"
          <6>1. PICK left \in child[c].timer : e = BackoffCap - (left - 1)  BY <1>5, <5>2 DEF Behind
          <6>2. e - 1 = BackoffCap - left  BY <1>1, <5>1, <6>1
          <6> QED  BY <5>2, <6>1, <6>2 DEF Behind
        <5>3. CASE child[c].process # "none"
          <6>1. child'[c].uptime \in 0..Tight /\ e = BackoffCap + child'[c].uptime
            BY <1>5, <2>2, <5>3 DEF Behind
          <6>2. child'[c].uptime = child[c].uptime + 1  BY <1>1, <1>5, <5>1, <6>1 DEF Least
          <6>3. child[c].uptime \in 0..Tight /\ e - 1 = BackoffCap + child[c].uptime
            BY <1>1, <5>1, <6>1, <6>2
          <6> QED  BY <2>2, <5>3, <6>3 DEF Behind
        <5> QED  BY <5>2, <5>3
      <4>3. Loop(deaths[c], lives[c], e - 1)  BY <3>1, <4>2 DEF LoopInv
      <4> DEFINE s == deaths[c]
                 t == Older(s)
      <4>4. /\ s \in Seq(Ages) /\ Len(s) \in Nat /\ lives[c] \in Nat /\ lives[c] <= Len(s)
        BY <1>1, <3>1, LenProperties DEF LoopInv
      <4>5. Len(t) = Len(s) /\ t \in Seq(Ages) /\ \A i \in 1..Len(s) : t[i] <= s[i] + 1
        BY <4>4, OlderType
      <4> HIDE DEF s, t
      <4>6. ASSUME NEW j \in 1..lives[c] PROVE t[Len(t) - j + 1] <= (j - 1) * Span + e
        <5>1. Len(s) - j + 1 \in 1..Len(s) /\ j - 1 \in Nat /\ Span \in Nat
          BY <1>1, <4>4 DEF Span
        <5>2. s[Len(s) - j + 1] <= (j - 1) * Span + (e - 1)  BY <4>3 DEF Loop, s
        <5>3. (j - 1) * Span \in Nat  BY <5>1, Times
        <5>4. s[Len(s) - j + 1] \in Ages /\ t[Len(s) - j + 1] \in Ages  BY <4>4, <4>5, <5>1, ElementOfSeq
        <5>5. s[Len(s) - j + 1] \in Nat /\ t[Len(s) - j + 1] \in Nat  BY <5>4, NumbersType DEF Ages
        <5>6. t[Len(s) - j + 1] <= s[Len(s) - j + 1] + 1  BY <4>5, <5>1
        <5> DEFINE x == s[Len(s) - j + 1]
                   x2 == t[Len(s) - j + 1]
                   y == (j - 1) * Span
        <5>7. x \in Nat /\ x2 \in Nat /\ y \in Nat /\ x <= y + (e - 1) /\ x2 <= x + 1
          BY <5>2, <5>3, <5>5, <5>6
        <5>8. t[Len(t) - j + 1] = x2  BY <4>5
        <5> HIDE DEF x, x2, y
        <5>9. x2 <= y + e  BY <4>1, <5>7
        <5> QED  BY <5>8, <5>9 DEF y
      <4> QED  BY <1>3, <4>6 DEF Loop, s, t
    <3>5. child'[c].timer = {} => child[c].timer = {}  BY <1>5
    <3> QED  BY <1>3, <1>5, <2>2, <3>1, <3>2, <3>3, <3>4, <3>5 DEF LoopInv
  <2> QED  BY <1>2, <2>3, <2>4 DEF ChildInv
<1>7. BridgeWaits'
  <2>1. "bridge" \in Children  BY DEF Children
  <2> QED  BY <1>2, <1>3, <1>4, <1>5, <2>1 DEF BridgeWaits
<1>8. shuttingDown' => \A d \in Children : Told(d)'
  BY <1>2, <1>4, <1>5 DEF shuttingDown, Told
<1> QED  BY <1>2, <1>6, <1>7, <1>8 DEF SupervisorInv, ChildInv, GoingDown, Told, FatalOnlyForCause

LEMMA SupervisorInit ==
  ASSUME Init PROVE SupervisorInv
<1>1. TypeOK /\ "bridge" \in Children  BY TypeInit DEF Children
<1>2. \A c \in Children : /\ child[c] = (IF c = "server" THEN Started(NewChild) ELSE NewChild)
                          /\ deaths[c] = <<>> /\ lives[c] = 0
  BY DEF Init
<1>3. \A c \in Children :
        /\ child[c].process = (IF c = "server" THEN "running" ELSE "none") /\ child[c].notices = 0
        /\ child[c].deathHandled = FALSE /\ child[c].timer = {} /\ child[c].restartTimes = <<>>
  <2> SUFFICES ASSUME NEW c \in Children
               PROVE  /\ child[c].process = (IF c = "server" THEN "running" ELSE "none")
                      /\ child[c].notices = 0 /\ child[c].deathHandled = FALSE
                      /\ child[c].timer = {} /\ child[c].restartTimes = <<>>
    OBVIOUS
  <2>1. CASE c = "server"
    <3>1. child[c] = Started(NewChild)  BY <1>2, <2>1
    <3> QED  BY <2>1, <3>1 DEF Started, NewChild
  <2>2. CASE c # "server"
    <3>1. child[c] = NewChild  BY <1>2, <2>2
    <3> QED  BY <2>2, <3>1 DEF NewChild
  <2> QED  BY <2>1, <2>2
<1>4. ASSUME NEW c \in Children PROVE ChildInv(c)
  <2>1. RecordInv(child[c])  BY <1>3 DEF RecordInv
  <2>2. Counted(c)  BY <1>2, <1>3 DEF Counted
  <2>3. \A e \in Behind(child[c]) : Loop(deaths[c], lives[c], e)  BY <1>2, LoopVacuous
  <2>4. Len(deaths[c]) \in Nat  BY <1>1, TypeParts, LenProperties
  <2>5. LoopInv(c)  BY <1>2, <2>3, <2>4, NumbersType DEF LoopInv
  <2> QED  BY <2>1, <2>2, <2>5 DEF ChildInv
<1>5. BridgeWaits  BY <1>1, <1>2, <1>3 DEF BridgeWaits
<1>6. ~shuttingDown /\ FatalOnlyForCause  BY DEF Init, shuttingDown, FatalOnlyForCause
<1> QED  BY <1>4, <1>5, <1>6, InvParts

LEMMA SupervisorStep ==
  ASSUME TypeOK, SupervisorInv, [Next]_vars
  PROVE  SupervisorInv'
BY DiesStep, HandleDeathStep, RestartTimerStep, HealthyStep, ControlStep, TickStep DEF Next

\* The inductive invariant behind the safety theorems below.
THEOREM SupervisorSafe == Spec => []SupervisorInv
<1>1. Init => TypeOK /\ SupervisorInv  BY TypeInit, SupervisorInit
<1>2. TypeOK /\ SupervisorInv /\ [Next]_vars => TypeOK' /\ SupervisorInv'
  BY TypeStep, SupervisorStep
<1> QED  BY <1>1, <1>2, PTL DEF Spec

\* No child restarts during a shutdown, and none is left without a SIGTERM.
THEOREM ExitSignalsAll == Spec => []SignalledOnExit
<1>1. SupervisorInv => SignalledOnExit  BY DEF SupervisorInv, GoingDown, SignalledOnExit
<1> QED  BY <1>1, SupervisorSafe, PTL

\* The container is failed for a real crash loop or a missed health deadline only.
THEOREM FatalForCause == Spec => []FatalOnlyForCause
<1>1. SupervisorInv => FatalOnlyForCause  BY DEF SupervisorInv
<1> QED  BY <1>1, SupervisorSafe, PTL

\* Whatever the limits, as long as MaxRestarts cycles of the longest delay and a
\* tight life fit in the window, a tight crash loop ends in exit 1: with the code's
\* numbers, any child that keeps dying within 29 s of its start.
THEOREM TightLoopsEnd == Spec => []TightLoopEscalates
<1>1. ASSUME TypeOK, SupervisorInv PROVE TightLoopEscalates
  <2> SUFFICES ASSUME NEW c \in Children, lives[c] > MaxRestarts, child[c].process # "dead", phase = "up"
               PROVE  FALSE
    BY DEF TightLoopEscalates, shuttingDown
  <2>1. lives[c] <= MaxRestarts  BY <1>1 DEF SupervisorInv, LoopInv
  <2>2. lives[c] \in Nat /\ MaxRestarts \in Nat  BY <1>1, TypeParts, NumbersType
  <2> QED  BY <2>1, <2>2
<1> QED  BY <1>1, SupervisorTypes, SupervisorSafe, PTL
=============================================================================
