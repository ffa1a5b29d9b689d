--------------------------- MODULE DashboardProofs ---------------------------
(***************************************************************************)
(* Revocation reaches every write, for any number of requests of any kind, *)
(* any number of slots and any number of failing calls.                    *)
(*                                                                         *)
(* The argument: a mutation gets past the role check only with an answer   *)
(* GitHub gave after its arrival, or with a role that is still fresh.  The *)
(* queue of the semaphore holds only requests that are past the check, so  *)
(* whoever is woken may go on.                                             *)
(***************************************************************************)
EXTENDS Dashboard, FiniteSetTheorems, TLAPS

PCs == {"new", "recheck", "observed", "body", "await", "done"} \cup InCall
Request ==
  [pc : PCs, kind : Kinds, seen : {"none", "member", "demoted", "gone"},
   call : {"none", "get", "post"}, got : Nat, from : Requests \cup {"none"},
   result : Nat, lost : BOOLEAN, old : BOOLEAN, floor : Nat]

\* The user still had the role when the request came in, as far as its kind asks.
Cleared(q) == IsMutation(q.kind) => ~q.old /\ (q.kind = "forced" => ~q.lost)

PastCheck == {"body", "await"} \cup InCall

\* One request: it goes past the role check only when it is cleared.
Checked(q) ==
  /\ q.pc \in {"new", "recheck", "observed"} => q.call = "none"
  /\ q.pc \in PastCheck => Cleared(q)
  /\ q.call = "post" => Cleared(q)

\* A role that was lost when the request came in stays lost.
Since(q) ==
  /\ q.old \/ q.lost => github # "member"
  /\ q.old => q.kind # "read"
Remembered(q) ==
  /\ Since(q)
  /\ q.pc = "observed" /\ q.seen = "member" => ~q.old /\ ~q.lost /\ ~aged

\* Whoever waits for a slot may go on.
MayWait(q) == q.pc # "new" /\ Cleared(q)

RequestsInv ==
  /\ req \in [Requests -> Request]
  /\ waiters \in Seq(Requests)
  /\ \A r \in Requests : Checked(req[r]) /\ Remembered(req[r])
  /\ \A i \in 1..Len(waiters) : MayWait(req[waiters[i]])

\* The session: minted once, and never fresh with a role that has aged away.
SessionInv ==
  /\ session \in [live : BOOLEAN, role : BOOLEAN, fresh : BOOLEAN]
  /\ login \in {"none", "member", "demoted", "over"}
  /\ github \in {"member", "demoted", "gone"}
  /\ aged \in BOOLEAN
  /\ session.live \/ session.fresh => login = "over"
  /\ aged => github # "member" /\ login = "over"
  /\ session.fresh /\ session.role => ~aged

PlannerInv ==
  /\ cache \in Requests \cup {"none"}
  /\ version \in Nat /\ acked \in Nat

RoleInv == RequestsInv /\ SessionInv /\ PlannerInv

------------------------------------------------------------------------------
\* A request that moves on keeps the rest.
LEMMA MovedTo ==
  ASSUME NEW q \in Request, NEW pc \in PCs
  PROVE  /\ [q EXCEPT !.pc = pc] \in Request /\ [q EXCEPT !.pc = pc].pc = pc
         /\ [q EXCEPT !.pc = pc].call = q.call /\ [q EXCEPT !.pc = pc].old = q.old
         /\ [q EXCEPT !.pc = pc].lost = q.lost /\ [q EXCEPT !.pc = pc].kind = q.kind
BY DEF Request

\* A handler that changes its own request only.
LEMMA SetKeeps ==
  ASSUME RequestsInv, UNCHANGED <<github, aged, waiters>>,
         NEW r \in Requests, NEW q \in Request, Set(r, q),
         Checked(q), Remembered(q), MayWait(req[r]) => MayWait(q)
  PROVE  RequestsInv'
<1>1. req' = [req EXCEPT ![r] = q] /\ req' \in [Requests -> Request] /\ waiters' \in Seq(Requests)
  BY DEF Set, RequestsInv
<1>2. req'[r] = q /\ \A s \in Requests : s # r => req'[s] = req[s]
  BY <1>1 DEF RequestsInv
<1>3. \A s \in Requests : Checked(req[s])' /\ Remembered(req[s])'
  <2> TAKE s \in Requests
  <2>1. CASE s = r
    BY <2>1, <1>2 DEF Checked, Remembered, Since, Cleared, IsMutation
  <2>2. CASE s # r
    BY <2>2, <1>2 DEF RequestsInv, Checked, Remembered, Since, Cleared, IsMutation
  <2> QED BY <2>1, <2>2
<1>4. ASSUME NEW i \in 1..Len(waiters)
      PROVE  MayWait(req'[waiters[i]])
  <2>1. waiters[i] \in Requests /\ MayWait(req[waiters[i]])
    BY DEF RequestsInv
  <2> QED BY <2>1, <1>2
<1> QED
  BY <1>1, <1>3, <1>4 DEF RequestsInv, MayWait, Cleared, IsMutation

\* The request that goes to the planner, now or when a slot is free.
LEMMA AcquireKeeps ==
  ASSUME RequestsInv, UNCHANGED <<github, aged>>,
         NEW r \in Requests, NEW q \in Request, Acquire(r, q), Cleared(q), Since(q)
  PROVE  RequestsInv'
<1> DEFINE f == [q EXCEPT !.pc = "flying"]
           w == [q EXCEPT !.pc = "queued"]
<1>1. /\ f \in Request /\ Checked(f) /\ Remembered(f) /\ MayWait(f)
      /\ w \in Request /\ Checked(w) /\ Remembered(w) /\ MayWait(w)
  BY DEF Request, PCs, InCall, Checked, Remembered, Since, MayWait, Cleared, IsMutation
<1>2. CASE inFlight < Concurrency
  <2>1. Set(r, f) /\ UNCHANGED waiters
    BY <1>2 DEF Acquire
  <2> QED BY <2>1, <1>1, SetKeeps
<1>3. CASE ~(inFlight < Concurrency)
  <2>1. Set(r, w) /\ waiters' = Append(waiters, r)
    BY <1>3 DEF Acquire
  <2>2. req' = [req EXCEPT ![r] = w] /\ req' \in [Requests -> Request]
    BY <2>1, <1>1 DEF Set, RequestsInv
  <2>3. req'[r] = w /\ \A s \in Requests : s # r => req'[s] = req[s]
    BY <2>2 DEF RequestsInv
  <2>4. \A s \in Requests : Checked(req'[s]) /\ Remembered(req'[s])
    BY <2>3, <1>1 DEF RequestsInv
  <2>5. /\ waiters' \in Seq(Requests) /\ Len(waiters') = Len(waiters) + 1
        /\ \A i \in 1..Len(waiters) : waiters'[i] = waiters[i]
        /\ waiters'[Len(waiters) + 1] = r
    BY <2>1 DEF RequestsInv
  <2>6. ASSUME NEW i \in 1..Len(waiters')
        PROVE  MayWait(req'[waiters'[i]])
    <3>1. CASE i = Len(waiters) + 1
      BY <3>1, <2>5, <2>3, <1>1
    <3>2. CASE i \in 1..Len(waiters)
      <4>1. waiters[i] \in Requests /\ MayWait(req[waiters[i]]) /\ waiters'[i] = waiters[i]
        BY <3>2, <2>5 DEF RequestsInv
      <4> QED BY <4>1, <2>3, <1>1
    <3>3. Len(waiters) \in Nat
      BY DEF RequestsInv
    <3> QED BY <3>1, <3>2, <3>3, <2>5
  <2> QED
    BY <2>2, <2>4, <2>5, <2>6
       DEF RequestsInv, Checked, Remembered, Since, MayWait, Cleared, IsMutation
<1> QED BY <1>2, <1>3

\* A GET through the cache.
LEMMA GetKeeps ==
  ASSUME RequestsInv, PlannerInv, UNCHANGED <<github, aged>>,
         NEW r \in Requests, NEW q \in Request, Get(r, q), Cleared(q), Since(q)
  PROVE  RequestsInv' /\ cache' \in Requests \cup {"none"}
<1>1. CASE cache # "none"
  <2> DEFINE a == [q EXCEPT !.pc = "await", !.from = cache, !.floor = acked]
  <2>1. a \in Request /\ Checked(a) /\ Remembered(a) /\ MayWait(a)
    BY DEF PlannerInv, Request, PCs, InCall, Checked, Remembered, Since, MayWait, Cleared, IsMutation
  <2>2. Set(r, a) /\ UNCHANGED <<cache, waiters>>
    BY <1>1 DEF Get, client
  <2> QED BY <2>1, <2>2, SetKeeps DEF PlannerInv
<1>2. CASE ~(cache # "none")
  <2> DEFINE g == [q EXCEPT !.call = "get", !.from = r, !.floor = acked]
  <2>1. g \in Request /\ Cleared(g) /\ Since(g)
    BY DEF PlannerInv, Request, Since, Cleared, IsMutation
  <2>2. cache' = r /\ Acquire(r, g)
    BY <1>2 DEF Get
  <2> QED BY <2>1, <2>2, AcquireKeeps
<1> QED BY <1>1, <1>2

LEMMA BeginPostKeeps ==
  ASSUME RequestsInv, UNCHANGED <<github, aged>>,
         NEW r \in Requests, BeginPost(r), Cleared(req[r])
  PROVE  RequestsInv'
<1> DEFINE p == [req[r] EXCEPT !.call = "post", !.from = "none", !.floor = 0]
<1>1. p \in Request /\ Cleared(p) /\ Since(p)
  BY DEF RequestsInv, Request, Remembered, Since, Cleared, IsMutation
<1> QED BY <1>1, AcquireKeeps DEF BeginPost

\* An answered request remembers nothing.
LEMMA AnsweredOK ==
  ASSUME NEW q \in Request
  PROVE  Answered(q) \in Request /\ Checked(Answered(q)) /\ Remembered(Answered(q)) /\ MayWait(Answered(q))
BY DEF Answered, NewRequest, Request, PCs, InCall, Kinds, Checked, PastCheck, Remembered, Since,
       MayWait, Cleared, IsMutation

LEMMA DoneKeeps ==
  ASSUME RequestsInv, UNCHANGED <<github, aged, waiters>>, NEW r \in Requests, Done(r)
  PROVE  RequestsInv'
<1>1. req[r] \in Request
  BY DEF RequestsInv
<1>2. Set(r, Answered(req[r]))
  BY DEF Done, Set
<1> QED BY <1>1, <1>2, AnsweredOK, SetKeeps

\* The role is known; a mutation goes on only with a role that clears it.
LEMMA AuthorisedKeeps ==
  ASSUME RequestsInv, PlannerInv, UNCHANGED <<github, aged>>,
         NEW r \in Requests, NEW q \in Request, NEW role \in BOOLEAN,
         Authorised(r, q, role), Since(q), q.call = "none",
         role /\ IsMutation(q.kind) => Cleared(q)
  PROVE  RequestsInv' /\ cache' \in Requests \cup {"none"}
<1>1. CASE ~IsMutation(q.kind)
  <2>1. Get(r, q) /\ Cleared(q)
    BY <1>1 DEF Authorised, Cleared
  <2> QED BY <2>1, GetKeeps
<1>2. CASE IsMutation(q.kind) /\ ~role
  <2>1. Done(r) /\ UNCHANGED <<cache, waiters>>
    BY <1>2 DEF Authorised, client
  <2> QED BY <2>1, DoneKeeps DEF PlannerInv
<1>3. CASE IsMutation(q.kind) /\ role
  <2> DEFINE b == [q EXCEPT !.pc = "body"]
  <2>1. Set(r, b) /\ UNCHANGED <<cache, waiters>>
    BY <1>3 DEF Authorised, client
  <2>2. b \in Request /\ Checked(b) /\ Remembered(b) /\ MayWait(b)
    BY <1>3 DEF Request, PCs, Checked, Remembered, Since, MayWait, Cleared, IsMutation
  <2> QED BY <2>1, <2>2, SetKeeps DEF PlannerInv
<1> QED BY <1>1, <1>2, <1>3

\* A call has ended: its slot goes to the first waiter.
LEMMA ReleaseKeeps ==
  ASSUME RequestsInv, UNCHANGED <<github, aged>>,
         NEW served \in [Requests -> Request], Release(served),
         \A s \in Requests : Checked(served[s]) /\ Remembered(served[s])
                               /\ (MayWait(req[s]) => MayWait(served[s]))
  PROVE  RequestsInv'
<1>1. CASE waiters = <<>>
  BY <1>1 DEF Release, RequestsInv, Checked, Remembered, Since, MayWait, Cleared, IsMutation
<1>2. CASE waiters # <<>>
  <2> DEFINE h == Head(waiters)
             f == [served[h] EXCEPT !.pc = "flying"]
  <2>1. h \in Requests /\ h = waiters[1] /\ 1 \in 1..Len(waiters)
    BY <1>2 DEF RequestsInv
  <2>2. MayWait(req[h]) /\ MayWait(served[h]) /\ served[h] \in Request
    BY <2>1 DEF RequestsInv
  <2>3. f \in Request /\ Checked(f) /\ Remembered(f) /\ MayWait(f)
    <3>1. f \in Request /\ f.pc = "flying" /\ f.old = served[h].old /\ f.lost = served[h].lost
            /\ f.kind = served[h].kind
      BY <2>2 DEF Request, PCs, InCall
    <3>2. Remembered(served[h])
      BY <2>1
    <3> QED BY <3>1, <3>2, <2>2 DEF Checked, Remembered, Since, MayWait, Cleared, IsMutation
  <2>4. req' = [served EXCEPT ![h] = f] /\ waiters' = Tail(waiters)
    BY <1>2 DEF Release
  <2>5. /\ req' \in [Requests -> Request] /\ req'[h] = f
        /\ \A s \in Requests : s # h => req'[s] = served[s]
    BY <2>4, <2>3, <2>1
  <2>6. \A s \in Requests : /\ Checked(req'[s]) /\ Remembered(req'[s])
                            /\ MayWait(req[s]) => MayWait(req'[s])
    BY <2>5, <2>3
  <2>7. /\ waiters' \in Seq(Requests) /\ Len(waiters') = Len(waiters) - 1
        /\ \A i \in 1..Len(waiters') : waiters'[i] = waiters[i + 1]
    BY <2>4, <1>2 DEF RequestsInv
  <2>8. ASSUME NEW i \in 1..Len(waiters')
        PROVE  MayWait(req'[waiters'[i]])
    <3>1. i + 1 \in 1..Len(waiters) /\ waiters'[i] = waiters[i + 1]
      BY <2>7 DEF RequestsInv
    <3>2. waiters[i + 1] \in Requests /\ MayWait(req[waiters[i + 1]])
      BY <3>1 DEF RequestsInv
    <3> QED BY <3>1, <3>2, <2>6
  <2> QED
    BY <2>5, <2>6, <2>7, <2>8
       DEF RequestsInv, Checked, Remembered, Since, MayWait, Cleared, IsMutation
<1> QED BY <1>1, <1>2

------------------------------------------------------------------------------
\* The steps that touch no request.
LEMMA OutsideKeeps ==
  ASSUME RoleInv,
         LoseRole \/ RolesAge \/ SessionEnds \/ LoginChecks \/ LoginCreates \/ CacheExpires
  PROVE  RoleInv'
<1> USE DEF RoleInv
<1>q. ASSUME UNCHANGED <<req, waiters>>, \A r \in Requests : Remembered(req[r])'
      PROVE  RequestsInv'
  BY <1>q DEF RequestsInv, Checked, MayWait, Cleared, IsMutation
<1>1. CASE LoseRole
  <2>1. UNCHANGED <<aged, session, login, req, cache, inFlight, waiters, version, acked>>
          /\ github' \in {"demoted", "gone"}
    BY <1>1 DEF LoseRole, client
  <2>2. \A r \in Requests : Remembered(req[r])'
    BY <2>1 DEF RequestsInv, Remembered, Since
  <2> QED BY <2>1, <2>2, <1>q DEF SessionInv, PlannerInv
<1>2. CASE RolesAge
  <2>1. /\ \A r \in Requests : req[r].pc # "observed"
        /\ session.fresh /\ session' = [session EXCEPT !.fresh = FALSE]
        /\ aged' = (github # "member")
        /\ UNCHANGED <<github, login, req, cache, inFlight, waiters, version, acked>>
    BY <1>2 DEF RolesAge, client
  <2>2. \A r \in Requests : Remembered(req[r])'
    BY <2>1 DEF RequestsInv, Remembered, Since
  <2>3. SessionInv'
    <3>1. login = "over" /\ session' \in [live : BOOLEAN, role : BOOLEAN, fresh : BOOLEAN]
            /\ session'.fresh = FALSE
      BY <2>1 DEF SessionInv
    <3> QED BY <3>1, <2>1 DEF SessionInv
  <2> QED BY <2>1, <2>2, <2>3, <1>q DEF PlannerInv
<1>3. CASE SessionEnds
  <2>1. session' = NoSession /\ UNCHANGED <<github, aged, login, req, cache, waiters, version, acked>>
    BY <1>3 DEF SessionEnds, client, outside
  <2>2. \A r \in Requests : Remembered(req[r])'
    BY <2>1 DEF RequestsInv, Remembered, Since
  <2>3. SessionInv'
    BY <2>1 DEF SessionInv, NoSession
  <2> QED BY <2>1, <2>2, <2>3, <1>q DEF PlannerInv
<1>4. CASE LoginChecks
  <2>1. /\ login = "none" /\ github # "gone" /\ login' = github
        /\ UNCHANGED <<github, aged, session, req, cache, waiters, version, acked>>
    BY <1>4 DEF LoginChecks, client, outside
  <2>2. \A r \in Requests : Remembered(req[r])'
    BY <2>1 DEF RequestsInv, Remembered, Since
  <2>3. SessionInv'
    BY <2>1 DEF SessionInv
  <2> QED BY <2>1, <2>2, <2>3, <1>q DEF PlannerInv
<1>5. CASE LoginCreates
  <2>1. /\ login \in {"member", "demoted"} /\ login' = "over"
        /\ session' = [live |-> TRUE, role |-> login = "member", fresh |-> TRUE]
        /\ UNCHANGED <<github, aged, req, cache, waiters, version, acked>>
    BY <1>5 DEF LoginCreates, client, outside
  <2>2. \A r \in Requests : Remembered(req[r])'
    BY <2>1 DEF RequestsInv, Remembered, Since
  <2>3. SessionInv'
    <3>1. ~aged
      BY <2>1 DEF SessionInv
    <3>2. session' \in [live : BOOLEAN, role : BOOLEAN, fresh : BOOLEAN]
      BY <2>1
    <3> QED BY <2>1, <3>1, <3>2 DEF SessionInv
  <2> QED BY <2>1, <2>2, <2>3, <1>q DEF PlannerInv
<1>6. CASE CacheExpires
  <2>1. cache' = "none" /\ UNCHANGED <<github, aged, session, login, req, waiters, version, acked>>
    BY <1>6 DEF CacheExpires, outside
  <2>2. \A r \in Requests : Remembered(req[r])'
    BY <2>1 DEF RequestsInv, Remembered, Since
  <2> QED BY <2>1, <2>2, <1>q DEF SessionInv, PlannerInv
<1> QED BY <1>1, <1>2, <1>3, <1>4, <1>5, <1>6

\* A session nobody touches stays as good as it was.
LEMMA SessionKept ==
  ASSUME SessionInv, UNCHANGED <<github, aged, session, login>>
  PROVE  SessionInv'
BY DEF SessionInv

\* What RequestsInv says of one request.
LEMMA OfOne ==
  ASSUME RequestsInv, NEW r \in Requests
  PROVE  req[r] \in Request /\ Checked(req[r]) /\ Remembered(req[r]) /\ Since(req[r])
BY DEF RequestsInv, Remembered

LEMMA ArriveKeeps ==
  ASSUME RoleInv, NEW r \in Requests, Arrive(r)
  PROVE  RoleInv'
<1> DEFINE kind == req[r].kind
           came == [req[r] EXCEPT !.lost = kind = "forced" /\ github # "member",
                                  !.old = IsMutation(kind) /\ aged]
<1>0. /\ At(r, "new") /\ UNCHANGED <<github, aged, session, login, version, acked>>
      /\ RequestsInv /\ PlannerInv /\ SessionInv
  BY DEF Arrive, outside, RoleInv
<1>1. /\ came \in Request /\ came.kind = kind /\ came.pc = "new" /\ came.call = "none"
      /\ came.old = (IsMutation(kind) /\ aged)
      /\ came.lost = (kind = "forced" /\ github # "member")
  <2>1. req[r] \in Request /\ req[r].pc = "new" /\ req[r].call = "none"
    BY <1>0, OfOne DEF At, Checked
  <2>2. (IsMutation(kind) /\ aged) \in BOOLEAN /\ (kind = "forced" /\ github # "member") \in BOOLEAN
    BY <1>0 DEF SessionInv, IsMutation
  <2> QED BY <2>1, <2>2 DEF Request
<1>2. Since(came)
  BY <1>0, <1>1 DEF SessionInv, Since, IsMutation
<1>3. RequestsInv' /\ cache' \in Requests \cup {"none"}
  <2>1. CASE Done(r) /\ UNCHANGED client
    BY <2>1, <1>0, DoneKeeps DEF client, PlannerInv
  <2>2. CASE session.live /\ kind # "forced" /\ session.fresh /\ Authorised(r, came, session.role)
    <3>1. session.role \in BOOLEAN
      BY <1>0 DEF SessionInv
    <3>2. session.role => Cleared(came)
      BY <2>2, <1>0, <1>1 DEF SessionInv, Cleared
    <3> QED BY <3>1, <3>2, <2>2, <1>0, <1>1, <1>2, AuthorisedKeeps
  <2>3. CASE Set(r, [came EXCEPT !.pc = "recheck"]) /\ UNCHANGED client
    <3> DEFINE q == [came EXCEPT !.pc = "recheck"]
    <3>1. /\ q \in Request /\ q.pc = "recheck" /\ q.call = "none"
          /\ q.old = came.old /\ q.lost = came.lost /\ q.kind = came.kind
      <4> HIDE DEF came, kind
      <4>1. "recheck" \in PCs
        BY DEF PCs
      <4> QED BY <1>1, <4>1, MovedTo
    <3>2. Checked(q) /\ Remembered(q) /\ (MayWait(req[r]) => MayWait(q))
      BY <3>1, <1>0, <1>2 DEF Checked, PastCheck, InCall, Remembered, Since, MayWait, At
    <3> QED BY <2>3, <3>1, <3>2, <1>0, SetKeeps DEF client, PlannerInv
  <2> QED BY <2>1, <2>2, <2>3 DEF Arrive
<1> QED BY <1>0, <1>3, SessionKept DEF RoleInv, PlannerInv

LEMMA GitHubAnswersKeeps ==
  ASSUME RoleInv, NEW r \in Requests, GitHubAnswers(r)
  PROVE  RoleInv'
<1> DEFINE q == [req[r] EXCEPT !.pc = "observed", !.seen = github]
<1>0. /\ At(r, "recheck") /\ Set(r, q)
      /\ UNCHANGED <<github, aged, session, login, cache, waiters, version, acked>>
      /\ RequestsInv /\ PlannerInv /\ SessionInv
  BY DEF GitHubAnswers, client, outside, RoleInv
<1>1. req[r] \in Request /\ Checked(req[r]) /\ Since(req[r])
  BY <1>0, OfOne
<1>2. /\ q \in Request /\ q.pc = "observed" /\ q.seen = github /\ q.kind = req[r].kind
      /\ q.call = req[r].call /\ q.old = req[r].old /\ q.lost = req[r].lost
  BY <1>0, <1>1 DEF Request, PCs, SessionInv
<1>3. Checked(q) /\ (MayWait(req[r]) => MayWait(q))
  BY <1>0, <1>1, <1>2 DEF At, Checked, PastCheck, InCall, MayWait, Cleared, IsMutation
<1>4. Remembered(q)
  BY <1>0, <1>1, <1>2 DEF Remembered, Since, SessionInv
<1> QED BY <1>0, <1>2, <1>3, <1>4, SetKeeps, SessionKept DEF RoleInv, PlannerInv

LEMMA RecheckReturnsKeeps ==
  ASSUME RoleInv, NEW r \in Requests, RecheckReturns(r)
  PROVE  RoleInv'
<1>0. /\ At(r, "observed") /\ UNCHANGED <<github, aged, login, version, acked>>
      /\ RequestsInv /\ PlannerInv /\ SessionInv
      /\ req[r] \in Request /\ Remembered(req[r]) /\ Since(req[r]) /\ req[r].call = "none"
  BY OfOne DEF RecheckReturns, outside, RoleInv, Checked, At
<1>1. CASE req[r].seen = "gone"
  <2>1. session' = NoSession /\ Done(r) /\ UNCHANGED <<cache, waiters>>
    BY <1>1 DEF RecheckReturns, client
  <2>2. SessionInv'
    BY <1>0, <2>1 DEF SessionInv, NoSession
  <2> QED BY <1>0, <2>1, <2>2, DoneKeeps DEF RoleInv, PlannerInv
<1>2. CASE req[r].seen # "gone"
  <2>1. /\ session' = IF session.live
                      THEN [live |-> TRUE, role |-> req[r].seen = "member", fresh |-> TRUE]
                      ELSE session
        /\ Authorised(r, req[r], req[r].seen = "member")
    BY <1>2 DEF RecheckReturns
  <2>2. SessionInv'
    <3>1. CASE session.live
      <4>1. session' = [live |-> TRUE, role |-> req[r].seen = "member", fresh |-> TRUE]
        BY <2>1, <3>1
      <4>2. session' \in [live : BOOLEAN, role : BOOLEAN, fresh : BOOLEAN] /\ login = "over"
        BY <4>1, <3>1, <1>0 DEF SessionInv
      <4>3. session'.role => ~aged
        BY <4>1, <1>0 DEF Remembered, At
      <4> QED BY <4>2, <4>3, <1>0 DEF SessionInv
    <3>2. CASE ~session.live
      BY <3>2, <2>1, <1>0, SessionKept
    <3> QED BY <3>1, <3>2
  <2>3. (req[r].seen = "member") \in BOOLEAN /\ (req[r].seen = "member" => Cleared(req[r]))
    BY <1>0 DEF Remembered, At, Cleared
  <2>4. RequestsInv' /\ cache' \in Requests \cup {"none"}
    BY <2>1, <2>3, <1>0, AuthorisedKeeps
  <2> QED BY <1>0, <2>2, <2>4 DEF RoleInv, PlannerInv
<1> QED BY <1>1, <1>2

LEMMA RecheckFailsKeeps ==
  ASSUME RoleInv, NEW r \in Requests, RecheckFails(r)
  PROVE  RoleInv'
<1>0. /\ UNCHANGED <<github, aged, session, login, version, acked>>
      /\ RequestsInv /\ PlannerInv /\ SessionInv
      /\ req[r] \in Request /\ Since(req[r]) /\ session.role \in BOOLEAN /\ req[r].call = "none"
  BY OfOne DEF RecheckFails, outside, RoleInv, SessionInv, Checked, At
<1>1. RequestsInv' /\ cache' \in Requests \cup {"none"}
  <2>1. CASE IsMutation(req[r].kind)
    <3>1. Done(r) /\ UNCHANGED <<cache, waiters>>
      BY <2>1 DEF RecheckFails, client
    <3> QED BY <3>1, <1>0, DoneKeeps DEF PlannerInv
  <2>2. CASE ~IsMutation(req[r].kind)
    <3>1. Authorised(r, req[r], session.role)
      BY <2>2 DEF RecheckFails
    <3> QED BY <3>1, <2>2, <1>0, AuthorisedKeeps
  <2> QED BY <2>1, <2>2
<1> QED BY <1>0, <1>1, SessionKept DEF RoleInv, PlannerInv

LEMMA BodyReadKeeps ==
  ASSUME RoleInv, NEW r \in Requests, BodyRead(r)
  PROVE  RoleInv'
<1>0. /\ UNCHANGED <<github, aged, session, login, version, acked>>
      /\ RequestsInv /\ PlannerInv /\ SessionInv
      /\ req[r] \in Request /\ Since(req[r]) /\ Cleared(req[r])
  BY OfOne DEF BodyRead, outside, RoleInv, Checked, PastCheck, At
<1>1. CASE Done(r) /\ UNCHANGED client
  BY <1>0, <1>1, DoneKeeps, SessionKept DEF RoleInv, PlannerInv, client
<1>2. CASE Get(r, req[r])
  <2>1. RequestsInv' /\ cache' \in Requests \cup {"none"}
    BY <1>0, <1>2, GetKeeps
  <2> QED BY <1>0, <2>1, SessionKept DEF RoleInv, PlannerInv
<1>3. CASE BeginPost(r) /\ UNCHANGED cache
  BY <1>0, <1>3, BeginPostKeeps, SessionKept DEF RoleInv, PlannerInv
<1> QED BY <1>1, <1>2, <1>3 DEF BodyRead

LEMMA ResumeKeeps ==
  ASSUME RoleInv, NEW r \in Requests, Resume(r)
  PROVE  RoleInv'
<1>0. /\ UNCHANGED <<github, aged, session, login, version, acked>>
      /\ RequestsInv /\ PlannerInv /\ SessionInv
      /\ Cleared(req[r])
  BY OfOne DEF Resume, outside, RoleInv, Checked, PastCheck, At
<1>1. CASE Done(r) /\ UNCHANGED client
  BY <1>0, <1>1, DoneKeeps, SessionKept DEF RoleInv, PlannerInv, client
<1>2. CASE BeginPost(r) /\ UNCHANGED cache
  BY <1>0, <1>2, BeginPostKeeps, SessionKept DEF RoleInv, PlannerInv
<1> QED BY <1>1, <1>2 DEF Resume

LEMMA PlannerServesKeeps ==
  ASSUME RoleInv, NEW r \in Requests, PlannerServes(r)
  PROVE  RoleInv'
<1>0. /\ At(r, "flying") /\ UNCHANGED <<github, aged, session, login, cache, waiters, acked>>
      /\ RequestsInv /\ PlannerInv /\ SessionInv
      /\ req[r] \in Request /\ Since(req[r]) /\ Cleared(req[r])
  BY OfOne DEF PlannerServes, client, RoleInv, Checked, PastCheck, InCall, At
<1>1. PICK v \in Nat : Set(r, [req[r] EXCEPT !.pc = "served", !.got = v]) /\ version' \in Nat
  <2>1. CASE Set(r, [req[r] EXCEPT !.pc = "served", !.got = version]) /\ UNCHANGED version
    BY <2>1, <1>0 DEF PlannerInv
  <2>2. CASE /\ version' \in {version, version + 1}
             /\ Set(r, [req[r] EXCEPT !.pc = "served", !.got = version'])
    <3>1. version' \in Nat
      BY <2>2, <1>0 DEF PlannerInv
    <3> QED BY <2>2, <3>1
  <2> QED BY <2>1, <2>2 DEF PlannerServes
<1> DEFINE q == [req[r] EXCEPT !.pc = "served", !.got = v]
<1>2. q \in Request /\ Checked(q) /\ Remembered(q) /\ MayWait(q)
  BY <1>0 DEF Request, PCs, InCall, Checked, Remembered, Since, MayWait, Cleared, IsMutation
<1> QED BY <1>0, <1>1, <1>2, SetKeeps, SessionKept DEF RoleInv, PlannerInv

\* The requests once a call has ended, before the slot is passed on.
LEMMA ServedOK ==
  ASSUME RequestsInv, NEW r \in Requests, req[r].pc \in {"flying", "served"},
         NEW served,
         \/ \E result \in Nat : served = Settle(r, result)
         \/ served = [req EXCEPT ![r] = Answered(@)]
  PROVE  /\ served \in [Requests -> Request]
         /\ \A s \in Requests : Checked(served[s]) /\ Remembered(served[s])
                                  /\ (MayWait(req[s]) => MayWait(served[s]))
<1>0. /\ req \in [Requests -> Request] /\ req[r] \in Request /\ Since(req[r]) /\ Cleared(req[r])
      /\ \A s \in Requests : Checked(req[s]) /\ Remembered(req[s])
  BY OfOne DEF RequestsInv, Checked, PastCheck, InCall
<1>s. ASSUME NEW q \in Request, served = [req EXCEPT ![r] = q],
             Checked(q), Remembered(q), MayWait(q)
      PROVE  /\ served \in [Requests -> Request]
             /\ \A s \in Requests : Checked(served[s]) /\ Remembered(served[s])
                                      /\ (MayWait(req[s]) => MayWait(served[s]))
  <2>1. /\ served \in [Requests -> Request] /\ served[r] = q
        /\ \A s \in Requests : s # r => served[s] = req[s]
    BY <1>0, <1>s
  <2> QED BY <1>0, <1>s, <2>1
<1>1. ASSUME NEW result \in Nat, served = Settle(r, result)
      PROVE  served = [req EXCEPT ![r] = [req[r] EXCEPT !.pc = "await", !.call = "none",
                                                       !.got = 0, !.result = result]]
  BY <1>0, <1>1 DEF Settle, Request
<1>2. CASE \E result \in Nat : served = Settle(r, result)
  <2>1. PICK result \in Nat : served = Settle(r, result)
    BY <1>2
  <2> DEFINE q == [req[r] EXCEPT !.pc = "await", !.call = "none", !.got = 0, !.result = result]
  <2>2. q \in Request /\ Checked(q) /\ Remembered(q) /\ MayWait(q)
    BY <1>0 DEF Request, PCs, Checked, Remembered, Since, MayWait, Cleared, IsMutation
  <2>3. served = [req EXCEPT ![r] = q]
    BY <2>1, <1>1
  <2> QED BY <2>2, <2>3, <1>s
<1>3. CASE served = [req EXCEPT ![r] = Answered(@)]
  <2>1. served = [req EXCEPT ![r] = Answered(req[r])]
    BY <1>3, <1>0
  <2> QED BY <2>1, <1>0, <1>s, AnsweredOK
<1> QED BY <1>2, <1>3

LEMMA CallAnsweredKeeps ==
  ASSUME RoleInv, NEW r \in Requests, CallAnswered(r)
  PROVE  RoleInv'
<1>0. /\ req[r].pc \in {"flying", "served"} /\ UNCHANGED <<github, aged, session, login, version>>
      /\ RequestsInv /\ PlannerInv /\ SessionInv /\ req[r] \in Request /\ req[r].got \in Nat
  BY OfOne DEF CallAnswered, At, RoleInv, Request
<1>1. CASE req[r].call = "get"
  <2>1. Release(Settle(r, req[r].got)) /\ UNCHANGED <<cache, acked>>
    BY <1>1 DEF CallAnswered
  <2>2. RequestsInv'
    BY <1>0, <2>1, ServedOK, ReleaseKeeps
  <2> QED BY <1>0, <2>1, <2>2, SessionKept DEF RoleInv, PlannerInv
<1>2. CASE req[r].call # "get"
  <2>1. /\ Release([req EXCEPT ![r] = Answered(@)]) /\ cache' = "none"
        /\ acked' \in {req[r].got, acked}
    BY <1>2 DEF CallAnswered, Invalidate
  <2>2. RequestsInv'
    BY <1>0, <2>1, ServedOK, ReleaseKeeps
  <2> QED BY <1>0, <2>1, <2>2, SessionKept DEF RoleInv, PlannerInv
<1> QED BY <1>1, <1>2

LEMMA CallFailsKeeps ==
  ASSUME RoleInv, NEW r \in Requests, CallFails(r)
  PROVE  RoleInv'
<1>0. /\ req[r].pc \in {"flying", "served"}
      /\ UNCHANGED <<github, aged, session, login, version, acked>>
      /\ RequestsInv /\ PlannerInv /\ SessionInv /\ Failed \in Nat /\ Garbled \in Nat
  BY BoundsAssumption DEF CallFails, outside, RoleInv, Failed, Garbled
<1>1. CASE req[r].call = "get"
  <2>1. PICK result \in {Failed, Garbled} : Release(Settle(r, result)) /\ cache' \in {cache, "none"}
    BY <1>1 DEF CallFails
  <2>2. RequestsInv'
    BY <1>0, <2>1, ServedOK, ReleaseKeeps
  <2> QED BY <1>0, <2>1, <2>2, SessionKept DEF RoleInv, PlannerInv
<1>2. CASE req[r].call # "get"
  <2>1. Release([req EXCEPT ![r] = Answered(@)]) /\ cache' = "none"
    BY <1>2 DEF CallFails, Invalidate
  <2>2. RequestsInv'
    BY <1>0, <2>1, ServedOK, ReleaseKeeps
  <2> QED BY <1>0, <2>1, <2>2, SessionKept DEF RoleInv, PlannerInv
<1> QED BY <1>1, <1>2

------------------------------------------------------------------------------
LEMMA RoleInit ==
  ASSUME Init
  PROVE  RoleInv
<1>1. PICK mix \in Mixes : req = [r \in Requests |-> [NewRequest EXCEPT !.kind = mix[r]]]
  BY DEF Init
<1>2. \A r \in Requests : mix[r] \in Kinds
  BY MixesAssumption
<1>3. \A r \in Requests : /\ req[r] \in Request /\ req[r].pc = "new" /\ req[r].call = "none"
                          /\ ~req[r].old /\ ~req[r].lost
  BY <1>1, <1>2 DEF NewRequest, Request, PCs
<1>4. RequestsInv
  BY <1>1, <1>3 DEF Init, RequestsInv, Checked, PastCheck, InCall, Remembered, Since
<1>5. SessionInv /\ PlannerInv
  BY DEF Init, SessionInv, PlannerInv, NoSession
<1> QED BY <1>4, <1>5 DEF RoleInv

LEMMA RoleNext ==
  ASSUME RoleInv, [Next]_vars
  PROVE  RoleInv'
<1>1. CASE \E r \in Requests : Arrive(r) \/ Handle(r)
  <2> PICK r \in Requests : Arrive(r) \/ Handle(r)
    BY <1>1
  <2> QED
    BY ArriveKeeps, GitHubAnswersKeeps, RecheckReturnsKeeps, RecheckFailsKeeps, BodyReadKeeps,
       PlannerServesKeeps, CallAnsweredKeeps, CallFailsKeeps, ResumeKeeps DEF Handle
<1>2. CASE LoseRole \/ RolesAge \/ SessionEnds \/ LoginChecks \/ LoginCreates \/ CacheExpires
  BY <1>2, OutsideKeeps
<1>3. CASE UNCHANGED vars
  BY <1>3 DEF vars, RoleInv, RequestsInv, SessionInv, PlannerInv, Checked, PastCheck, Remembered,
              Since, MayWait, Cleared, IsMutation
<1> QED BY <1>1, <1>2, <1>3 DEF Next

\* A user who lost the role writes nothing: enforceRole (rbac.mjs:81-114) holds back
\* every mutation that came in too late, whatever runs beside it.
THEOREM RevocationHolds == Spec => []RevokedWritesNothing
<1>1. RoleInv => RevokedWritesNothing
  BY DEF RoleInv, RequestsInv, Checked, Remembered, Cleared, IsMutation, RevokedWritesNothing,
         Request, Kinds, Since
<1> QED BY <1>1, RoleInit, RoleNext, PTL DEF Spec

------------------------------------------------------------------------------
(***************************************************************************)
(* The slots of the planner client: every call is counted once, whoever    *)
(* waits is in the queue once, and nobody waits beside a free slot.        *)
(***************************************************************************)
Flying == {r \in Requests : req[r].pc \in {"flying", "served"}}

Bounded(q) == q.got <= version /\ q.result <= Garbled

SlotInv ==
  /\ inFlight \in Nat /\ inFlight <= Concurrency
  /\ inFlight = Cardinality(Flying)
  /\ \A r \in Requests : At(r, "queued") <=> \E i \in 1..Len(waiters) : waiters[i] = r
  /\ \A i, j \in 1..Len(waiters) : waiters[i] = waiters[j] => i = j
  /\ waiters # <<>> => inFlight = Concurrency

VersionInv ==
  /\ version \in 1..MaxVersion /\ acked \in 0..version
  /\ \A r \in Requests : Bounded(req[r])

\* A step of a request that neither had a slot nor waited for one, and does not now.
LEMMA QuietSlots ==
  ASSUME SlotInv, req \in [Requests -> Request], UNCHANGED <<inFlight, waiters>>,
         NEW r \in Requests, NEW q \in Request, Set(r, q),
         req[r].pc \notin InCall, q.pc \notin InCall
  PROVE  SlotInv'
<1>1. req' \in [Requests -> Request] /\ req'[r] = q /\ \A s \in Requests : s # r => req'[s] = req[s]
  BY DEF Set
<1>2. Flying' = Flying
  BY <1>1 DEF Flying, InCall
<1>3. \A s \in Requests : At(s, "queued")' <=> At(s, "queued")
  BY <1>1 DEF At, InCall
<1> QED BY <1>2, <1>3 DEF SlotInv

\* A request takes a free slot, or the end of the queue.
LEMMA AcquireSlots ==
  ASSUME SlotInv, req \in [Requests -> Request], waiters \in Seq(Requests),
         NEW r \in Requests, NEW q \in Request, Acquire(r, q), req[r].pc \notin InCall
  PROVE  SlotInv'
<1>1. CASE inFlight < Concurrency
  <2> DEFINE f == [q EXCEPT !.pc = "flying"]
  <2>1. Set(r, f) /\ inFlight' = inFlight + 1 /\ UNCHANGED waiters
    BY <1>1 DEF Acquire
  <2>2. f \in Request /\ f.pc = "flying"
    BY DEF Request, PCs, InCall
  <2>3. req'[r] = f /\ \A s \in Requests : s # r => req'[s] = req[s]
    BY <2>1, <2>2 DEF Set
  <2>4. Flying' = Flying \cup {r} /\ r \notin Flying
    BY <2>2, <2>3 DEF Flying, InCall
  <2>5. Cardinality(Flying') = Cardinality(Flying) + 1
    <3>1. IsFiniteSet(Flying)
      BY RequestsAssumption, FS_Subset DEF Flying
    <3> QED BY <3>1, <2>4, FS_AddElement
  <2>6. \A s \in Requests : At(s, "queued")' <=> At(s, "queued")
    BY <2>2, <2>3 DEF At, InCall
  <2>7. waiters = <<>>
    BY <1>1, ConcurrencyAssumption DEF SlotInv
  <2> QED BY <1>1, <2>1, <2>5, <2>6, <2>7, ConcurrencyAssumption DEF SlotInv
<1>2. CASE ~(inFlight < Concurrency)
  <2> DEFINE w == [q EXCEPT !.pc = "queued"]
  <2>1. Set(r, w) /\ waiters' = Append(waiters, r) /\ UNCHANGED inFlight
    BY <1>2 DEF Acquire
  <2>2. w \in Request /\ w.pc = "queued"
    BY DEF Request, PCs, InCall
  <2>3. req'[r] = w /\ \A s \in Requests : s # r => req'[s] = req[s]
    BY <2>1, <2>2 DEF Set
  <2>4. Flying' = Flying
    BY <2>2, <2>3 DEF Flying, InCall
  <2>5. /\ Len(waiters) \in Nat /\ Len(waiters') = Len(waiters) + 1
        /\ \A i \in 1..Len(waiters) : waiters'[i] = waiters[i]
        /\ waiters'[Len(waiters) + 1] = r
    BY <2>1
  <2>6. \A i \in 1..Len(waiters) : waiters[i] # r
    BY DEF SlotInv, At, InCall
  <2>7. \A s \in Requests : At(s, "queued")' <=> \E i \in 1..Len(waiters') : waiters'[i] = s
    <3> TAKE s \in Requests
    <3>1. CASE s = r
      BY <3>1, <2>2, <2>3, <2>5 DEF At
    <3>2. CASE s # r
      <4>1. At(s, "queued")' <=> \E i \in 1..Len(waiters) : waiters[i] = s
        BY <3>2, <2>3 DEF At, SlotInv
      <4>2. (\E i \in 1..Len(waiters') : waiters'[i] = s)
              <=> \E i \in 1..Len(waiters) : waiters[i] = s
        BY <3>2, <2>5
      <4> QED BY <4>1, <4>2
    <3> QED BY <3>1, <3>2
  <2>8. \A i, j \in 1..Len(waiters') : waiters'[i] = waiters'[j] => i = j
    BY <2>5, <2>6 DEF SlotInv
  <2>9. inFlight = Concurrency
    BY <1>2, ConcurrencyAssumption DEF SlotInv
  <2> QED BY <2>1, <2>4, <2>7, <2>8, <2>9 DEF SlotInv
<1> QED BY <1>1, <1>2

\* A call ends: its slot is free, or goes to the first in the queue.
LEMMA ReleaseSlots ==
  ASSUME SlotInv, req \in [Requests -> Request], waiters \in Seq(Requests),
         NEW r \in Requests, r \in Flying,
         NEW served \in [Requests -> Request], Release(served),
         served[r].pc \notin InCall, \A s \in Requests : s # r => served[s] = req[s]
  PROVE  SlotInv'
<1>0. IsFiniteSet(Flying) /\ Cardinality(Flying) \in Nat
  BY RequestsAssumption, FS_Subset, FS_CardinalityType DEF Flying
<1>1. IsFiniteSet(Flying \ {r}) /\ Cardinality(Flying \ {r}) = Cardinality(Flying) - 1
  BY <1>0, FS_RemoveElement
<1>2. CASE waiters = <<>>
  <2>1. inFlight' = inFlight - 1 /\ req' = served /\ UNCHANGED waiters
    BY <1>2 DEF Release
  <2>2. Flying' = Flying \ {r}
    BY <2>1 DEF Flying, InCall
  <2>3. inFlight - 1 \in Nat
    BY <1>1, <1>0, FS_CardinalityType DEF SlotInv
  <2>4. \A s \in Requests : At(s, "queued")' <=> At(s, "queued")
    BY <2>1 DEF At, Flying, InCall
  <2> QED BY <1>1, <1>2, <2>1, <2>2, <2>3, <2>4, ConcurrencyAssumption DEF SlotInv
<1>3. CASE waiters # <<>>
  <2> DEFINE h == Head(waiters)
  <2>1. /\ waiters' = Tail(waiters) /\ UNCHANGED inFlight
        /\ req' = [served EXCEPT ![h].pc = "flying"]
    BY <1>3 DEF Release
  <2>2. h \in Requests /\ h = waiters[1] /\ Len(waiters) \in Nat \ {0}
    BY <1>3
  <2>3. At(h, "queued") /\ h # r
    BY <2>2 DEF SlotInv, At, Flying
  <2>4. /\ req'[h].pc = "flying"
        /\ \A s \in Requests : s # h => req'[s] = served[s]
    <3> DEFINE f == [served[h] EXCEPT !.pc = "flying"]
    <3>1. req' = [served EXCEPT ![h] = f]
      BY <2>1
    <3>2. f.pc = "flying"
      BY <2>2 DEF Request
    <3> QED BY <3>1, <3>2, <2>2
  <2>5. Flying' = (Flying \ {r}) \cup {h} /\ h \notin Flying \ {r}
    <3> HIDE DEF h
    <3>1. \A s \in Requests : s # h /\ s # r => req'[s].pc = req[s].pc
      BY <2>4
    <3>2. req'[r].pc \notin {"flying", "served"}
      BY <2>3, <2>4 DEF InCall
    <3>3. \A s \in Requests : s \in Flying' <=> s = h \/ (s \in Flying /\ s # r)
      <4> TAKE s \in Requests
      <4>1. CASE s = h
        BY <4>1, <2>4 DEF Flying, InCall
      <4>2. CASE s = r
        BY <4>2, <3>2, <2>3 DEF Flying, InCall
      <4>3. CASE s # h /\ s # r
        BY <4>3, <3>1 DEF Flying, InCall
      <4> QED BY <4>1, <4>2, <4>3
    <3>4. Flying \subseteq Requests /\ Flying' \subseteq Requests
      BY DEF Flying
    <3>5. h \notin Flying
      BY <2>2, <2>3 DEF Flying, At
    <3>6. Flying' = (Flying \ {r}) \cup {h}
      <4> HIDE DEF Flying
      <4> QED BY <2>2, <3>3, <3>4
    <3> QED BY <3>5, <3>6
  <2>6. Cardinality(Flying') = Cardinality(Flying)
    <3>1. Cardinality((Flying \ {r}) \cup {h}) = Cardinality(Flying \ {r}) + 1
      BY <2>5, <1>1, FS_AddElement
    <3>2. Cardinality(Flying') = Cardinality(Flying \ {r}) + 1
      BY <2>5, <3>1
    <3> HIDE DEF h
    <3> QED BY <3>2, <1>0, <1>1
  <2>7. /\ Len(waiters') = Len(waiters) - 1
        /\ \A i \in 1..Len(waiters') : waiters'[i] = waiters[i + 1]
    BY <2>1, <1>3
  <2>8. \A s \in Requests : At(s, "queued")' <=> \E i \in 1..Len(waiters') : waiters'[i] = s
    <3> TAKE s \in Requests
    <3>1. At(s, "queued")' <=> At(s, "queued") /\ s # h
      BY <2>2, <2>3, <2>4 DEF At, Flying, InCall
    <3>2. (\E i \in 1..Len(waiters) : waiters[i] = s) /\ s # h
            => \E i \in 1..Len(waiters') : waiters'[i] = s
      <4> SUFFICES ASSUME NEW i \in 1..Len(waiters), waiters[i] = s, s # h
                   PROVE  \E k \in 1..Len(waiters') : waiters'[k] = s
        OBVIOUS
      <4>1. i # 1 /\ i - 1 \in 1..Len(waiters') /\ (i - 1) + 1 = i
        BY <2>2, <2>7
      <4> QED BY <4>1, <2>7
    <3>3. (\E i \in 1..Len(waiters') : waiters'[i] = s)
            => (\E i \in 1..Len(waiters) : waiters[i] = s) /\ s # h
      <4> SUFFICES ASSUME NEW i \in 1..Len(waiters'), waiters'[i] = s
                   PROVE  (\E k \in 1..Len(waiters) : waiters[k] = s) /\ s # h
        OBVIOUS
      <4>1. i + 1 \in 1..Len(waiters) /\ waiters[i + 1] = s /\ i + 1 # 1
        BY <2>2, <2>7
      <4>2. 1 \in 1..Len(waiters)
        BY <2>2
      <4>3. waiters[i + 1] # waiters[1]
        BY <4>1, <4>2 DEF SlotInv
      <4> QED BY <4>1, <4>3, <2>2
    <3> QED BY <3>1, <3>2, <3>3 DEF SlotInv
  <2>9. \A i, j \in 1..Len(waiters') : waiters'[i] = waiters'[j] => i = j
    <3> TAKE i, j \in 1..Len(waiters')
    <3>1. i + 1 \in 1..Len(waiters) /\ j + 1 \in 1..Len(waiters)
      BY <2>2, <2>7
    <3>2. waiters[i + 1] = waiters[j + 1] => i + 1 = j + 1
      BY <3>1 DEF SlotInv
    <3> QED BY <3>2, <2>7
  <2> QED BY <1>3, <2>1, <2>6, <2>8, <2>9 DEF SlotInv
<1> QED BY <1>2, <1>3

\* The versions a step passes around stay within the plan's.
LEMMA VersionKept ==
  ASSUME VersionInv, req \in [Requests -> Request], UNCHANGED <<version, acked>>,
         NEW r \in Requests, NEW q \in Request, Set(r, q), Bounded(q)
  PROVE  VersionInv'
<1>1. req'[r] = q /\ \A s \in Requests : s # r => req'[s] = req[s]
  BY DEF Set
<1> QED BY <1>1 DEF VersionInv, Bounded, Failed, Garbled

\* The same for each way a request goes on.
LEMMA AcquireBooks ==
  ASSUME RoleInv, SlotInv, VersionInv, UNCHANGED <<version, acked>>,
         NEW r \in Requests, NEW q \in Request, Acquire(r, q), req[r].pc \notin InCall, Bounded(q)
  PROVE  SlotInv' /\ VersionInv'
<1>0. req \in [Requests -> Request] /\ waiters \in Seq(Requests)
  BY DEF RoleInv, RequestsInv
<1>1. SlotInv'
  BY <1>0, AcquireSlots
<1>2. ASSUME NEW pc \in {"flying", "queued"}, Set(r, [q EXCEPT !.pc = pc])
      PROVE  VersionInv'
  <2>1. [q EXCEPT !.pc = pc] \in Request /\ Bounded([q EXCEPT !.pc = pc])
    BY DEF Request, PCs, InCall, Bounded
  <2> QED BY <2>1, <1>0, <1>2, VersionKept
<1> QED BY <1>1, <1>2 DEF Acquire

LEMMA QuietBooks ==
  ASSUME RoleInv, SlotInv, VersionInv, UNCHANGED <<version, acked, inFlight, waiters>>,
         NEW r \in Requests, NEW q \in Request, Set(r, q), req[r].pc \notin InCall,
         q.pc \notin InCall, Bounded(q)
  PROVE  SlotInv' /\ VersionInv'
BY QuietSlots, VersionKept DEF RoleInv, RequestsInv

LEMMA DoneBooks ==
  ASSUME RoleInv, SlotInv, VersionInv, UNCHANGED <<version, acked, inFlight, waiters>>,
         NEW r \in Requests, Done(r), req[r].pc \notin InCall
  PROVE  SlotInv' /\ VersionInv'
<1> DEFINE q == Answered(req[r])
<1>1. req[r] \in Request /\ Bounded(req[r]) /\ 0 <= version
  BY DEF RoleInv, RequestsInv, VersionInv
<1>2. q \in Request /\ q.pc = "done" /\ q.got = 0 /\ q.result = req[r].result
  BY <1>1, AnsweredOK DEF Answered, NewRequest
<1>3. Set(r, q) /\ q.pc \notin InCall /\ Bounded(q)
  BY <1>1, <1>2 DEF Done, Set, Bounded, InCall
<1> HIDE DEF q
<1> QED BY <1>2, <1>3, QuietBooks

LEMMA GetBooks ==
  ASSUME RoleInv, SlotInv, VersionInv, UNCHANGED <<version, acked>>,
         NEW r \in Requests, NEW q \in Request, Get(r, q), req[r].pc \notin InCall, Bounded(q)
  PROVE  SlotInv' /\ VersionInv'
<1>1. CASE cache # "none"
  <2> DEFINE a == [q EXCEPT !.pc = "await", !.from = cache, !.floor = acked]
  <2>1. a \in Request /\ a.pc \notin InCall /\ Bounded(a)
    BY DEF RoleInv, PlannerInv, Request, PCs, InCall, Bounded
  <2>2. Set(r, a) /\ UNCHANGED <<inFlight, waiters>>
    BY <1>1 DEF Get, client
  <2> QED BY <2>1, <2>2, QuietBooks
<1>2. CASE ~(cache # "none")
  <2> DEFINE g == [q EXCEPT !.call = "get", !.from = r, !.floor = acked]
  <2>1. g \in Request /\ Bounded(g)
    BY DEF RoleInv, PlannerInv, Request, Bounded
  <2>2. Acquire(r, g)
    BY <1>2 DEF Get
  <2> QED BY <2>1, <2>2, AcquireBooks
<1> QED BY <1>1, <1>2

LEMMA BeginPostBooks ==
  ASSUME RoleInv, SlotInv, VersionInv, UNCHANGED <<version, acked>>,
         NEW r \in Requests, BeginPost(r), req[r].pc \notin InCall
  PROVE  SlotInv' /\ VersionInv'
<1> DEFINE p == [req[r] EXCEPT !.call = "post", !.from = "none", !.floor = 0]
<1>1. p \in Request /\ Bounded(p)
  BY DEF RoleInv, RequestsInv, VersionInv, Request, Bounded
<1> QED BY <1>1, AcquireBooks DEF BeginPost

LEMMA AuthorisedBooks ==
  ASSUME RoleInv, SlotInv, VersionInv, UNCHANGED <<version, acked>>,
         NEW r \in Requests, NEW q \in Request, NEW role \in BOOLEAN,
         Authorised(r, q, role), req[r].pc \notin InCall, Bounded(q)
  PROVE  SlotInv' /\ VersionInv'
<1>1. CASE ~IsMutation(q.kind)
  BY <1>1, GetBooks DEF Authorised
<1>2. CASE IsMutation(q.kind) /\ ~role
  BY <1>2, DoneBooks DEF Authorised, client
<1>3. CASE IsMutation(q.kind) /\ role
  <2> DEFINE b == [q EXCEPT !.pc = "body"]
  <2>1. Set(r, b) /\ UNCHANGED <<inFlight, waiters>>
    BY <1>3 DEF Authorised, client
  <2>2. b \in Request /\ b.pc \notin InCall /\ Bounded(b)
    BY DEF Request, PCs, InCall, Bounded
  <2> QED BY <2>1, <2>2, QuietBooks
<1> QED BY <1>1, <1>2, <1>3

\* The end of a call, answered or failed.
LEMMA CallEnds ==
  ASSUME RoleInv, SlotInv, VersionInv, version' = version, acked' \in 0..version,
         NEW r \in Requests, r \in Flying,
         NEW q \in Request, q.pc \notin InCall, Bounded(q), Release([req EXCEPT ![r] = q])
  PROVE  SlotInv' /\ VersionInv'
<1> DEFINE served == [req EXCEPT ![r] = q]
<1>0. req \in [Requests -> Request] /\ waiters \in Seq(Requests)
  BY DEF RoleInv, RequestsInv
<1>1. /\ served \in [Requests -> Request] /\ served[r] = q
      /\ \A s \in Requests : s # r => served[s] = req[s]
  BY <1>0
<1>2. \A s \in Requests : Bounded(served[s])
  BY <1>1 DEF VersionInv
<1> HIDE DEF served
<1>3. SlotInv'
  BY <1>0, <1>1, ReleaseSlots DEF served
<1>4. \A s \in Requests : req'[s].got = served[s].got /\ req'[s].result = served[s].result
  <2>1. CASE waiters = <<>>
    BY <2>1 DEF Release, served
  <2>2. CASE waiters # <<>>
    <3>1. Head(waiters) \in Requests /\ req' = [served EXCEPT ![Head(waiters)].pc = "flying"]
      BY <2>2, <1>0 DEF Release, served
    <3> DEFINE f == [served[Head(waiters)] EXCEPT !.pc = "flying"]
    <3>2. req' = [served EXCEPT ![Head(waiters)] = f]
      BY <3>1
    <3>3. f.got = served[Head(waiters)].got /\ f.result = served[Head(waiters)].result
      BY <3>1, <1>1 DEF Request
    <3> QED BY <3>1, <3>2, <3>3, <1>1
  <2> QED BY <2>1, <2>2
<1>5. VersionInv'
  BY <1>2, <1>4 DEF VersionInv, Bounded, Failed, Garbled
<1> QED BY <1>3, <1>5

------------------------------------------------------------------------------
LEMMA SlotInit ==
  ASSUME Init
  PROVE  SlotInv /\ VersionInv
<1>1. PICK mix \in Mixes : req = [r \in Requests |-> [NewRequest EXCEPT !.kind = mix[r]]]
  BY DEF Init
<1>2. \A r \in Requests : req[r].pc = "new" /\ req[r].got = 0 /\ req[r].result = 0
  BY <1>1 DEF NewRequest
<1>3. Flying = {}
  BY <1>2 DEF Flying
<1>4. SlotInv
  BY <1>2, <1>3, FS_EmptySet, ConcurrencyAssumption DEF Init, SlotInv, At
<1>5. VersionInv
  BY <1>2, BoundsAssumption DEF Init, VersionInv, Bounded, Failed, Garbled
<1> QED BY <1>4, <1>5

LEMMA ArriveBooks ==
  ASSUME RoleInv, SlotInv, VersionInv, NEW r \in Requests, Arrive(r)
  PROVE  SlotInv' /\ VersionInv'
<1> DEFINE kind == req[r].kind
           lost == kind = "forced" /\ github # "member"
           old == IsMutation(kind) /\ aged
           came == [req[r] EXCEPT !.lost = lost, !.old = old]
<1>0. /\ req[r].pc \notin InCall /\ UNCHANGED <<version, acked>>
      /\ req[r] \in Request /\ Bounded(req[r])
  BY DEF Arrive, At, InCall, outside, RoleInv, RequestsInv, VersionInv
<1>1. came \in Request /\ Bounded(came)
  <2>1. lost \in BOOLEAN /\ old \in BOOLEAN
    BY DEF RoleInv, SessionInv, IsMutation
  <2> HIDE DEF lost, old
  <2> QED BY <1>0, <2>1 DEF Request, Bounded
<1>2. CASE Done(r) /\ UNCHANGED client
  BY <1>0, <1>2, DoneBooks DEF client
<1>3. CASE Authorised(r, came, session.role)
  <2>1. session.role \in BOOLEAN
    BY DEF RoleInv, SessionInv
  <2> QED BY <1>0, <1>1, <1>3, <2>1, AuthorisedBooks
<1>4. CASE Set(r, [came EXCEPT !.pc = "recheck"]) /\ UNCHANGED client
  <2> HIDE DEF came, kind
  <2>1. /\ [came EXCEPT !.pc = "recheck"] \in Request /\ Bounded([came EXCEPT !.pc = "recheck"])
        /\ [came EXCEPT !.pc = "recheck"].pc \notin InCall
    BY <1>1 DEF Request, PCs, InCall, Bounded
  <2> QED BY <1>0, <1>4, <2>1, QuietBooks DEF client
<1> QED BY <1>2, <1>3, <1>4 DEF Arrive

LEMMA RoleCheckBooks ==
  ASSUME RoleInv, SlotInv, VersionInv, NEW r \in Requests,
         GitHubAnswers(r) \/ RecheckReturns(r) \/ RecheckFails(r)
  PROVE  SlotInv' /\ VersionInv'
<1>0. /\ req[r].pc \notin InCall /\ UNCHANGED <<version, acked>>
      /\ req[r] \in Request /\ Bounded(req[r])
  BY DEF GitHubAnswers, RecheckReturns, RecheckFails, At, InCall, outside,
         RoleInv, RequestsInv, VersionInv
<1>1. CASE GitHubAnswers(r)
  <2> DEFINE q == [req[r] EXCEPT !.pc = "observed", !.seen = github]
  <2>1. q \in Request /\ q.pc \notin InCall /\ Bounded(q)
    BY <1>0 DEF RoleInv, SessionInv, Request, PCs, InCall, Bounded
  <2> QED BY <1>0, <1>1, <2>1, QuietBooks DEF GitHubAnswers, client
<1>2. CASE RecheckReturns(r)
  <2>1. CASE Done(r) /\ UNCHANGED client
    BY <1>0, <2>1, DoneBooks DEF client
  <2>2. CASE Authorised(r, req[r], req[r].seen = "member")
    BY <1>0, <2>2, AuthorisedBooks
  <2> QED BY <1>2, <2>1, <2>2 DEF RecheckReturns
<1>3. CASE RecheckFails(r)
  <2>1. CASE Done(r) /\ UNCHANGED client
    BY <1>0, <2>1, DoneBooks DEF client
  <2>2. CASE Authorised(r, req[r], session.role)
    <3>1. session.role \in BOOLEAN
      BY DEF RoleInv, SessionInv
    <3> QED BY <1>0, <2>2, <3>1, AuthorisedBooks
  <2> QED BY <1>3, <2>1, <2>2 DEF RecheckFails
<1> QED BY <1>1, <1>2, <1>3

LEMMA BodyReadBooks ==
  ASSUME RoleInv, SlotInv, VersionInv, NEW r \in Requests, BodyRead(r) \/ Resume(r)
  PROVE  SlotInv' /\ VersionInv'
<1>0. /\ req[r].pc \notin InCall /\ UNCHANGED <<version, acked>>
      /\ req[r] \in Request /\ Bounded(req[r])
  BY DEF BodyRead, Resume, At, InCall, outside, RoleInv, RequestsInv, VersionInv
<1>1. CASE Done(r) /\ UNCHANGED client
  BY <1>0, <1>1, DoneBooks DEF client
<1>2. CASE Get(r, req[r])
  BY <1>0, <1>2, GetBooks
<1>3. CASE BeginPost(r)
  BY <1>0, <1>3, BeginPostBooks
<1> QED BY <1>1, <1>2, <1>3 DEF BodyRead, Resume

LEMMA PlannerServesBooks ==
  ASSUME RoleInv, SlotInv, VersionInv, NEW r \in Requests, PlannerServes(r)
  PROVE  SlotInv' /\ VersionInv'
<1>0. /\ req[r].pc = "flying" /\ UNCHANGED <<inFlight, waiters, acked>>
      /\ req \in [Requests -> Request] /\ req[r] \in Request /\ Bounded(req[r])
      /\ version \in Nat /\ acked \in Nat /\ acked <= version
  BY DEF PlannerServes, At, client, RoleInv, RequestsInv, PlannerInv, VersionInv
<1>1. /\ version' \in Nat /\ version <= version' /\ version' \in 1..MaxVersion
      /\ Set(r, [req[r] EXCEPT !.pc = "served", !.got = version'])
  <2>1. CASE Set(r, [req[r] EXCEPT !.pc = "served", !.got = version]) /\ UNCHANGED version
    BY <2>1, <1>0 DEF VersionInv
  <2>2. CASE /\ version' \in {version, version + 1} /\ version' <= MaxVersion
             /\ Set(r, [req[r] EXCEPT !.pc = "served", !.got = version'])
    <3>1. version' \in Nat /\ version <= version' /\ version' \in 1..MaxVersion
      BY <2>2, <1>0, BoundsAssumption DEF VersionInv
    <3> QED BY <2>2, <3>1
  <2> QED BY <2>1, <2>2 DEF PlannerServes
<1> DEFINE q == [req[r] EXCEPT !.pc = "served", !.got = version']
<1>2. q \in Request /\ q.pc = "served" /\ q.got = version' /\ q.result = req[r].result
  BY <1>0, <1>1 DEF Request, PCs, InCall
<1>3. req'[r] = q /\ \A s \in Requests : s # r => req'[s] = req[s]
  BY <1>0, <1>1, <1>2 DEF Set
<1> HIDE DEF q
<1>4. SlotInv'
  <2>1. Flying' = Flying
    BY <1>0, <1>2, <1>3 DEF Flying
  <2>2. \A s \in Requests : At(s, "queued")' <=> At(s, "queued")
    BY <1>0, <1>2, <1>3 DEF At
  <2> QED BY <1>0, <2>1, <2>2 DEF SlotInv
<1>5. VersionInv'
  <2>1. \A s \in Requests : Bounded(req[s])'
    <3> TAKE s \in Requests
    <3>1. CASE s = r
      BY <3>1, <1>0, <1>1, <1>2, <1>3 DEF Bounded, Failed, Garbled
    <3>2. CASE s # r
      <4>1. req'[s] = req[s] /\ req[s] \in Request /\ Bounded(req[s])
        BY <3>2, <1>0, <1>3 DEF VersionInv
      <4>2. req[s].got \in Nat
        BY <4>1 DEF Request
      <4> QED BY <4>1, <4>2, <1>0, <1>1 DEF Bounded, Failed, Garbled
    <3> QED BY <3>1, <3>2
  <2> QED BY <1>0, <1>1, <2>1 DEF VersionInv
<1> QED BY <1>4, <1>5

LEMMA CallBooks ==
  ASSUME RoleInv, SlotInv, VersionInv, NEW r \in Requests, CallAnswered(r) \/ CallFails(r)
  PROVE  SlotInv' /\ VersionInv'
<1>0. /\ r \in Flying /\ version' = version /\ acked' \in 0..version
      /\ req \in [Requests -> Request] /\ req[r] \in Request /\ Bounded(req[r])
      /\ version \in Nat /\ 0 <= version /\ version <= MaxVersion /\ MaxVersion \in Nat
  <2>1. /\ req \in [Requests -> Request] /\ req[r] \in Request /\ Bounded(req[r])
        /\ version \in Nat /\ version <= MaxVersion /\ MaxVersion \in Nat /\ acked \in 0..version
    BY BoundsAssumption DEF RoleInv, RequestsInv, PlannerInv, VersionInv
  <2>2. r \in Flying /\ version' = version
    BY DEF CallAnswered, CallFails, At, Flying, outside
  <2>3. acked' \in {acked, req[r].got}
    BY DEF CallAnswered, CallFails, outside
  <2>4. req[r].got \in 0..version
    BY <2>1 DEF Request, Bounded
  <2> QED BY <2>1, <2>2, <2>3, <2>4
<1>1. ASSUME NEW result \in Nat, result <= Garbled, Release(Settle(r, result))
      PROVE  SlotInv' /\ VersionInv'
  <2> DEFINE q == [req[r] EXCEPT !.pc = "await", !.call = "none", !.got = 0, !.result = result]
  <2>1. q \in Request /\ q.pc \notin InCall /\ Bounded(q)
    BY <1>0, <1>1 DEF Request, PCs, InCall, Bounded
  <2>2. Settle(r, result) = [req EXCEPT ![r] = q]
    BY <1>0 DEF Settle, Request
  <2> HIDE DEF q
  <2>3. Release([req EXCEPT ![r] = q])
    BY <1>1, <2>2
  <2> QED BY <1>0, <2>1, <2>3, CallEnds
<1>2. ASSUME Release([req EXCEPT ![r] = Answered(@)])
      PROVE  SlotInv' /\ VersionInv'
  <2> DEFINE q == Answered(req[r])
  <2>1. q \in Request /\ q.pc = "done" /\ q.got = 0 /\ q.result = req[r].result
    BY <1>0, AnsweredOK DEF Answered, NewRequest
  <2>2. q.pc \notin InCall /\ Bounded(q)
    BY <1>0, <2>1 DEF InCall, Bounded
  <2>3. Release([req EXCEPT ![r] = q])
    BY <1>2
  <2> HIDE DEF q
  <2> QED BY <1>0, <2>1, <2>2, <2>3, CallEnds
<1>3. /\ req[r].got \in Nat /\ req[r].got <= Garbled
      /\ Failed \in Nat /\ Garbled \in Nat /\ Failed <= Garbled
  BY <1>0 DEF Request, Bounded, Failed, Garbled
<1> QED BY <1>1, <1>2, <1>3 DEF CallAnswered, CallFails

LEMMA SlotNext ==
  ASSUME RoleInv, SlotInv, VersionInv, [Next]_vars
  PROVE  SlotInv' /\ VersionInv'
<1>1. CASE \E r \in Requests : Arrive(r) \/ Handle(r)
  <2> PICK r \in Requests : Arrive(r) \/ Handle(r)
    BY <1>1
  <2> QED
    BY ArriveBooks, RoleCheckBooks, BodyReadBooks, PlannerServesBooks, CallBooks DEF Handle
<1>2. CASE \/ LoseRole \/ RolesAge \/ SessionEnds \/ LoginChecks \/ LoginCreates \/ CacheExpires
           \/ UNCHANGED vars
  <2>1. UNCHANGED <<req, inFlight, waiters, version, acked>>
    BY <1>2 DEF LoseRole, RolesAge, SessionEnds, LoginChecks, LoginCreates, CacheExpires,
                vars, client, outside
  <2> QED BY <2>1 DEF SlotInv, VersionInv, Flying, At, Bounded
<1> QED BY <1>1, <1>2 DEF Next

\* The semaphore's books are right (planner-client.mjs:30-44): never more calls than
\* slots, no waiter lost or queued twice, none waiting beside a free slot.
THEOREM SlotsAccounted == Spec => []TypeOK
<1>1. RoleInv /\ SlotInv /\ VersionInv => TypeOK
  <2> SUFFICES ASSUME RoleInv, SlotInv, VersionInv PROVE TypeOK
    OBVIOUS
  <2>1. \A r \in Requests : req[r].kind \in Kinds /\ req[r].result \in 0..Garbled
    BY BoundsAssumption DEF RoleInv, RequestsInv, VersionInv, Request, Bounded, Failed, Garbled
  <2>2. waiters \in Seq(Requests) /\ DOMAIN waiters = 1..Len(waiters)
    BY DEF RoleInv, RequestsInv
  <2>3. Range(waiters) = {r \in Requests : At(r, "queued")}
    <3>1. \A i \in 1..Len(waiters) : waiters[i] \in Requests
      BY <2>2
    <3> QED BY <2>2, <3>1 DEF Range, SlotInv
  <2>4. IsInjective(waiters)
    BY <2>2 DEF IsInjective, SlotInv
  <2> QED BY <2>1, <2>3, <2>4 DEF TypeOK, RoleInv, SessionInv, PlannerInv, SlotInv, VersionInv, Flying
<1> QED BY <1>1, RoleInit, RoleNext, SlotInit, SlotNext, PTL DEF Spec
------------------------------------------------------------------------------
(***************************************************************************)
(* What a shared GET owes to those who await it.                           *)
(*                                                                         *)
(* A promise delivers a version when it has settled with one at least as   *)
(* new, or is pending and was not served an older one.  The cache always   *)
(* holds a promise that delivers the last acknowledged version, because    *)
(* the entry goes whenever that version grows; so whoever joins it may.    *)
(***************************************************************************)
Early == {"new", "recheck", "observed", "body"}
Pending(q) == q.pc \in InCall /\ q.call = "get"
Awaits(q) == q.pc = "await" \/ Pending(q)

Delivers(q, n) ==
  \/ q.result > 0 /\ q.result >= n
  \/ Pending(q) /\ (q.pc = "served" => q.got > 0 /\ q.got >= n)

\* A request has no result before its GET settles; no version is 0.
Regular(q) ==
  /\ q.pc \in Early \/ Pending(q) => q.result = 0
  /\ q.pc = "served" => q.got > 0

ReadInv ==
  /\ \A r \in Requests : Regular(req[r])
  /\ \A r \in Requests : req[r].floor <= acked
  /\ \A r \in Requests : Awaits(req[r]) =>
       req[r].from \in Requests /\ Delivers(req[req[r].from], req[r].floor)
  /\ cache # "none" => Delivers(req[cache], acked)

\* A request that at most got its slot.
Same(p, q) ==
  /\ q.pc = p.pc \/ (p.pc = "queued" /\ q.pc = "flying")
  /\ q.call = p.call /\ q.got = p.got /\ q.from = p.from
  /\ q.result = p.result /\ q.floor = p.floor

LEMMA SameReads ==
  ASSUME NEW p, NEW q, Same(p, q)
  PROVE  /\ \A n : Delivers(p, n) => Delivers(q, n)
         /\ Pending(q) <=> Pending(p)
         /\ Awaits(q) <=> Awaits(p)
         /\ Regular(p) => Regular(q)
BY DEF Same, Delivers, Pending, Awaits, InCall, Early, Regular

\* One request moves, others may get its slot, and the last acknowledged version
\* may grow; every promise still delivers what it owed.
LEMMA ReadsKept ==
  ASSUME RoleInv, ReadInv, acked' \in Nat, acked <= acked',
         NEW next \in [Requests -> Request], req' = next,
         NEW r \in Requests, \A s \in Requests : s # r => Same(req[s], next[s]),
         Regular(next[r]),
         next[r].floor <= acked',
         \A n \in 0..acked : Delivers(req[r], n) => Delivers(next[r], n),
         Awaits(next[r]) =>
           next[r].from \in Requests /\ Delivers(next[next[r].from], next[r].floor),
         cache' # "none" => Delivers(next[cache'], acked')
  PROVE  ReadInv'
<1>0. /\ acked \in Nat /\ req \in [Requests -> Request]
      /\ \A s \in Requests : req[s].floor \in Nat /\ next[s].floor \in Nat
  BY DEF RoleInv, PlannerInv, RequestsInv, Request
<1>1. \A s \in Requests : \A n \in 0..acked : Delivers(req[s], n) => Delivers(next[s], n)
  BY SameReads
<1>2. \A s \in Requests : Regular(next[s])
  <2> TAKE s \in Requests
  <2>1. CASE s # r
    BY <2>1, SameReads DEF ReadInv
  <2> QED BY <2>1
<1>3. \A s \in Requests : next[s].floor <= acked'
  <2> TAKE s \in Requests
  <2>1. CASE s # r
    <3>1. next[s].floor = req[s].floor /\ req[s].floor <= acked
      BY <2>1 DEF ReadInv, Same
    <3> QED BY <3>1, <1>0
  <2> QED BY <2>1
<1>4. ASSUME NEW s \in Requests, Awaits(next[s])
      PROVE  next[s].from \in Requests /\ Delivers(next[next[s].from], next[s].floor)
  <2>1. CASE s # r
    <3>1. Awaits(req[s]) /\ next[s].from = req[s].from /\ next[s].floor = req[s].floor
      BY <1>4, <2>1, SameReads DEF Same
    <3>2. /\ req[s].from \in Requests /\ Delivers(req[req[s].from], req[s].floor)
          /\ req[s].floor \in 0..acked
      BY <3>1, <1>0 DEF ReadInv
    <3> QED BY <3>1, <3>2, <1>1
  <2> QED BY <2>1, <1>4
<1> QED BY <1>2, <1>3, <1>4 DEF ReadInv

\* A request that is in no GET before and awaits nothing after.
LEMMA QuietReads ==
  ASSUME RoleInv, ReadInv, UNCHANGED acked, cache' \in {cache, "none"},
         NEW r \in Requests, NEW q \in Request, Set(r, q),
         ~Pending(req[r]), ~Awaits(q), q.pc # "served", q.pc \in Early => req[r].pc \in Early,
         q.result = req[r].result, q.floor <= acked
  PROVE  ReadInv'
<1> DEFINE next == [req EXCEPT ![r] = q]
<1>1. /\ next \in [Requests -> Request] /\ next[r] = q
      /\ \A s \in Requests : s # r => next[s] = req[s]
  BY DEF RoleInv, RequestsInv
<1>2. req' = next /\ acked \in Nat /\ acked' = acked /\ cache \in Requests \cup {"none"}
  BY DEF Set, RoleInv, PlannerInv
<1> HIDE DEF next
<1>3. \A s \in Requests : s # r => Same(req[s], next[s])
  BY <1>1 DEF Same
<1>4. \A n : Delivers(req[r], n) => Delivers(next[r], n)
  BY <1>1 DEF Delivers
<1>5. Regular(next[r])
  BY <1>1 DEF ReadInv, Regular, Awaits
<1>6. cache' # "none" => Delivers(next[cache'], acked')
  BY <1>1, <1>2, <1>4 DEF ReadInv
<1> QED BY <1>1, <1>2, <1>3, <1>4, <1>5, <1>6, ReadsKept

LEMMA DoneReads ==
  ASSUME RoleInv, ReadInv, UNCHANGED acked, cache' \in {cache, "none"},
         NEW r \in Requests, Done(r), ~Pending(req[r])
  PROVE  ReadInv'
<1> DEFINE q == Answered(req[r])
<1>1. req[r] \in Request /\ acked \in Nat
  BY DEF RoleInv, RequestsInv, PlannerInv
<1>2. q \in Request /\ q.pc = "done" /\ q.result = req[r].result /\ q.floor = 0
  BY <1>1, AnsweredOK DEF Answered, NewRequest
<1>3. Set(r, q)
  BY DEF Done, Set
<1> HIDE DEF q
<1>4. ~Awaits(q) /\ q.pc \notin Early
  BY <1>2 DEF Awaits, Pending, InCall, Early
<1>5. q.floor <= acked
  BY <1>1, <1>2
<1> QED BY <1>2, <1>3, <1>4, <1>5, QuietReads

\* A POST awaits nobody's promise.
LEMMA BeginPostReads ==
  ASSUME RoleInv, ReadInv, UNCHANGED <<acked, cache>>,
         NEW r \in Requests, BeginPost(r), ~Pending(req[r])
  PROVE  ReadInv'
<1> DEFINE p == [req[r] EXCEPT !.call = "post", !.from = "none", !.floor = 0]
<1>1. req[r] \in Request /\ acked \in Nat
  BY DEF RoleInv, RequestsInv, PlannerInv
<1>2. ASSUME NEW pc \in {"flying", "queued"}, Set(r, [p EXCEPT !.pc = pc])
      PROVE  ReadInv'
  <2> DEFINE q == [p EXCEPT !.pc = pc]
  <2>1. /\ q \in Request /\ q.pc = pc /\ q.call = "post" /\ q.result = req[r].result
        /\ q.floor = 0
    BY <1>1 DEF Request, PCs, InCall
  <2>2. Set(r, q)
    BY <1>2
  <2> HIDE DEF q
  <2>3. ~Awaits(q) /\ q.pc \notin Early /\ q.floor <= acked
    BY <2>1, <1>1 DEF Awaits, Pending, Early
  <2> QED BY <2>1, <2>2, <2>3, QuietReads
<1> QED BY <1>2 DEF BeginPost, Acquire

\* A GET joins a promise that delivers what was acknowledged, or makes its own.
LEMMA GetReads ==
  ASSUME RoleInv, ReadInv, UNCHANGED acked,
         NEW r \in Requests, NEW q \in Request, Get(r, q), req[r].pc \in Early,
         q.result = req[r].result
  PROVE  ReadInv'
<1>0. /\ req \in [Requests -> Request] /\ acked \in Nat /\ acked' = acked /\ q.result = 0
      /\ cache \in Requests \cup {"none"}
      /\ \A n : ~Delivers(req[r], n)
  <2>1. ~Pending(req[r]) /\ req[r].result = 0
    BY DEF ReadInv, Regular, Pending, Early, InCall
  <2> QED BY <2>1 DEF RoleInv, RequestsInv, PlannerInv, Delivers
<1>1. CASE cache # "none"
  <2> DEFINE a == [q EXCEPT !.pc = "await", !.from = cache, !.floor = acked]
             next == [req EXCEPT ![r] = a]
  <2>1. a \in Request /\ a.pc = "await" /\ a.from = cache /\ a.floor = acked
    BY <1>0 DEF Request, PCs, InCall
  <2>2. cache \in Requests /\ cache # r /\ Delivers(req[cache], acked)
    BY <1>0, <1>1 DEF ReadInv
  <2>3. req' = next /\ cache' = cache
    BY <1>1 DEF Get, Set, client
  <2> HIDE DEF a
  <2>4. /\ next \in [Requests -> Request] /\ next[r] = a
        /\ \A s \in Requests : s # r => next[s] = req[s]
    BY <1>0, <2>1
  <2> HIDE DEF next
  <2>5. \A s \in Requests : s # r => Same(req[s], next[s])
    BY <2>4 DEF Same
  <2>6. Regular(next[r]) /\ next[r].floor <= acked
    BY <1>0, <2>1, <2>4 DEF Regular, Early, Pending, InCall
  <2>7. Delivers(next[cache], acked)
    BY <2>2, <2>4
  <2> QED BY <1>0, <2>1, <2>2, <2>3, <2>4, <2>5, <2>6, <2>7, ReadsKept
<1>2. CASE ~(cache # "none")
  <2> DEFINE g == [q EXCEPT !.call = "get", !.from = r, !.floor = acked]
  <2>1. cache' = r /\ Acquire(r, g)
    BY <1>2 DEF Get
  <2>2. ASSUME NEW pc \in {"flying", "queued"}, Set(r, [g EXCEPT !.pc = pc])
        PROVE  ReadInv'
    <3> DEFINE a == [g EXCEPT !.pc = pc]
               next == [req EXCEPT ![r] = a]
    <3>1. /\ a \in Request /\ a.pc = pc /\ a.call = "get" /\ a.from = r /\ a.floor = acked
          /\ a.result = 0
      BY <1>0 DEF Request, PCs, InCall
    <3>2. req' = next
      BY <2>2 DEF Set
    <3> HIDE DEF a
    <3>3. /\ next \in [Requests -> Request] /\ next[r] = a
          /\ \A s \in Requests : s # r => next[s] = req[s]
      BY <1>0, <3>1
    <3> HIDE DEF next
    <3>4. \A s \in Requests : s # r => Same(req[s], next[s])
      BY <3>3 DEF Same
    <3>5. Delivers(next[r], acked) /\ Regular(next[r]) /\ next[r].floor <= acked
      BY <1>0, <3>1, <3>3 DEF Delivers, Regular, Pending, InCall
    <3> QED BY <1>0, <2>1, <3>1, <3>2, <3>3, <3>4, <3>5, ReadsKept
  <2> QED BY <2>1, <2>2 DEF Acquire
<1> QED BY <1>1, <1>2

LEMMA AuthorisedReads ==
  ASSUME RoleInv, ReadInv, UNCHANGED acked,
         NEW r \in Requests, NEW q \in Request, NEW role,
         Authorised(r, q, role), req[r].pc \in Early, q.result = req[r].result, q.floor <= acked
  PROVE  ReadInv'
<1>0. ~Pending(req[r])
  BY DEF Early, Pending, InCall
<1>1. CASE ~IsMutation(q.kind)
  BY <1>1, GetReads DEF Authorised
<1>2. CASE IsMutation(q.kind) /\ ~role
  <2>1. Done(r) /\ cache' = cache
    BY <1>2 DEF Authorised, client
  <2> QED BY <1>0, <2>1, DoneReads
<1>3. CASE IsMutation(q.kind) /\ role
  <2> DEFINE b == [q EXCEPT !.pc = "body"]
  <2>1. Set(r, b) /\ cache' = cache
    BY <1>3 DEF Authorised, client
  <2>2. b \in Request /\ b.pc = "body" /\ b.result = req[r].result /\ b.floor = q.floor
    BY DEF Request, PCs
  <2> HIDE DEF b
  <2>3. ~Awaits(b)
    BY <2>2 DEF Awaits, Pending, InCall
  <2> QED BY <1>0, <2>1, <2>2, <2>3, QuietReads
<1> QED BY <1>1, <1>2, <1>3

LEMMA ArriveReads ==
  ASSUME RoleInv, ReadInv, NEW r \in Requests, Arrive(r)
  PROVE  ReadInv'
<1> DEFINE kind == req[r].kind
           lost == kind = "forced" /\ github # "member"
           old == IsMutation(kind) /\ aged
           came == [req[r] EXCEPT !.lost = lost, !.old = old]
           q == [came EXCEPT !.pc = "recheck"]
<1>0. /\ req[r].pc = "new" /\ req[r].pc \in Early /\ ~Pending(req[r]) /\ UNCHANGED acked
      /\ req[r] \in Request /\ req[r].floor <= acked
  BY DEF Arrive, At, InCall, Early, Pending, outside, RoleInv, RequestsInv, ReadInv
<1>1. /\ came \in Request /\ came.result = req[r].result /\ came.floor = req[r].floor
      /\ q \in Request /\ q.pc = "recheck" /\ q.result = req[r].result /\ q.floor = req[r].floor
  <2>1. lost \in BOOLEAN /\ old \in BOOLEAN
    BY DEF RoleInv, SessionInv, IsMutation
  <2> HIDE DEF lost, old
  <2> QED BY <1>0, <2>1 DEF Request, PCs
<1>2. CASE Done(r) /\ UNCHANGED client
  BY <1>0, <1>2, DoneReads DEF client
<1>3. CASE Authorised(r, came, session.role)
  <2> HIDE DEF came
  <2> QED BY <1>0, <1>1, <1>3, AuthorisedReads
<1>4. CASE Set(r, q) /\ UNCHANGED client
  <2>1. cache' = cache
    BY <1>4 DEF client
  <2> HIDE DEF q
  <2>2. ~Awaits(q)
    BY <1>1 DEF Awaits, Pending, InCall
  <2> QED BY <1>0, <1>1, <1>4, <2>1, <2>2, QuietReads
<1> QED BY <1>2, <1>3, <1>4 DEF Arrive

LEMMA RoleCheckReads ==
  ASSUME RoleInv, ReadInv, NEW r \in Requests,
         GitHubAnswers(r) \/ RecheckReturns(r) \/ RecheckFails(r)
  PROVE  ReadInv'
<1>0. /\ req[r].pc \in Early /\ ~Pending(req[r]) /\ UNCHANGED acked
      /\ req[r] \in Request /\ req[r].floor <= acked
  BY DEF GitHubAnswers, RecheckReturns, RecheckFails, At, InCall, Early, Pending, outside,
         RoleInv, RequestsInv, ReadInv
<1>1. CASE GitHubAnswers(r)
  <2> DEFINE q == [req[r] EXCEPT !.pc = "observed", !.seen = github]
  <2>1. q \in Request /\ q.pc = "observed" /\ q.result = req[r].result /\ q.floor = req[r].floor
    BY <1>0 DEF RoleInv, SessionInv, Request, PCs
  <2>2. Set(r, q) /\ cache' = cache
    BY <1>1 DEF GitHubAnswers, client
  <2> HIDE DEF q
  <2>3. ~Awaits(q)
    BY <2>1 DEF Awaits, Pending, InCall
  <2> QED BY <1>0, <2>1, <2>2, <2>3, QuietReads
<1>2. CASE Done(r) /\ UNCHANGED client
  BY <1>0, <1>2, DoneReads DEF client
<1>3. ASSUME NEW role, Authorised(r, req[r], role)
      PROVE  ReadInv'
  BY <1>0, <1>3, AuthorisedReads
<1> QED BY <1>1, <1>2, <1>3 DEF RecheckReturns, RecheckFails

LEMMA BodyReadReads ==
  ASSUME RoleInv, ReadInv, NEW r \in Requests, BodyRead(r) \/ Resume(r)
  PROVE  ReadInv'
<1>0. /\ req[r].pc \in {"body", "await"} /\ ~Pending(req[r]) /\ UNCHANGED acked
      /\ req[r] \in Request
  BY DEF BodyRead, Resume, At, InCall, Pending, outside, RoleInv, RequestsInv
<1>1. CASE Done(r) /\ UNCHANGED client
  BY <1>0, <1>1, DoneReads DEF client
<1>2. CASE At(r, "body") /\ Get(r, req[r])
  BY <1>0, <1>2, GetReads DEF At, Early
<1>3. CASE BeginPost(r) /\ UNCHANGED cache
  BY <1>0, <1>3, BeginPostReads
<1> QED BY <1>1, <1>2, <1>3 DEF BodyRead, Resume

\* A GET is served the current version, which is at least the last acknowledged one.
LEMMA PlannerServesReads ==
  ASSUME RoleInv, VersionInv, ReadInv, NEW r \in Requests, PlannerServes(r)
  PROVE  ReadInv'
<1>0. /\ req[r].pc = "flying" /\ cache' = cache /\ acked' = acked
      /\ req \in [Requests -> Request] /\ req[r] \in Request
      /\ cache \in Requests \cup {"none"}
      /\ version \in Nat /\ acked \in Nat /\ acked <= version /\ version >= 1
  BY DEF PlannerServes, At, client, RoleInv, RequestsInv, PlannerInv, VersionInv
<1>1. /\ version' \in Nat /\ version <= version'
      /\ Set(r, [req[r] EXCEPT !.pc = "served", !.got = version'])
  <2>1. CASE Set(r, [req[r] EXCEPT !.pc = "served", !.got = version]) /\ version' = version
    BY <2>1, <1>0
  <2>2. CASE /\ version' \in {version, version + 1}
             /\ Set(r, [req[r] EXCEPT !.pc = "served", !.got = version'])
    <3>1. version' \in Nat /\ version <= version'
      BY <2>2, <1>0
    <3> QED BY <2>2, <3>1
  <2> QED BY <2>1, <2>2 DEF PlannerServes
<1> DEFINE q == [req[r] EXCEPT !.pc = "served", !.got = version']
           next == [req EXCEPT ![r] = q]
<1>2. /\ q \in Request /\ q.pc = "served" /\ q.got = version' /\ q.call = req[r].call
      /\ q.result = req[r].result /\ q.from = req[r].from /\ q.floor = req[r].floor
  BY <1>0, <1>1 DEF Request, PCs, InCall
<1>3. req' = next
  BY <1>1 DEF Set
<1> HIDE DEF q
<1>4. /\ next \in [Requests -> Request] /\ next[r] = q
      /\ \A s \in Requests : s # r => next[s] = req[s]
  BY <1>0, <1>2
<1> HIDE DEF next
<1>5. \A s \in Requests : s # r => Same(req[s], next[s])
  BY <1>4 DEF Same
<1>6. \A n \in 0..acked : Delivers(req[r], n) => Delivers(next[r], n)
  BY <1>0, <1>1, <1>2, <1>4 DEF Delivers, Pending, InCall
<1>7. \A s \in Requests : \A n \in 0..acked : Delivers(req[s], n) => Delivers(next[s], n)
  BY <1>4, <1>6
<1>8. next[r].floor <= acked
        /\ (Awaits(next[r]) <=> Pending(next[r])) /\ (Pending(next[r]) <=> Pending(req[r]))
  BY <1>0, <1>2, <1>4 DEF Awaits, Pending, InCall, ReadInv
<1>9. ASSUME Pending(req[r])
      PROVE  /\ next[r].from \in Requests
             /\ Delivers(next[next[r].from], next[r].floor)
  <2>1. /\ req[r].from \in Requests /\ req[r].floor \in 0..acked
        /\ Delivers(req[req[r].from], req[r].floor)
    BY <1>0, <1>9 DEF ReadInv, Awaits, Request
  <2> QED BY <1>2, <1>4, <1>7, <2>1
<1>10. cache' # "none" => Delivers(next[cache'], acked')
  BY <1>0, <1>7 DEF ReadInv
<1>11. Regular(next[r])
  <2>1. next[r].got > 0 /\ next[r].pc = "served"
    BY <1>0, <1>1, <1>2, <1>4
  <2> QED BY <2>1, <1>2, <1>4, <1>8 DEF Regular, Early, ReadInv
<1> QED BY <1>0, <1>3, <1>4, <1>5, <1>6, <1>8, <1>9, <1>10, <1>11, ReadsKept

\* The end of a call moves its request, and gives a slot to at most one other.
LEMMA ReleaseMoves ==
  ASSUME RoleInv, SlotInv, NEW r \in Requests, r \in Flying,
         NEW q \in Request, Release([req EXCEPT ![r] = q])
  PROVE  /\ req' \in [Requests -> Request] /\ req'[r] = q
         /\ \A s \in Requests : s # r => Same(req[s], req'[s])
<1> DEFINE served == [req EXCEPT ![r] = q]
<1>0. req \in [Requests -> Request] /\ waiters \in Seq(Requests)
  BY DEF RoleInv, RequestsInv
<1>1. /\ served \in [Requests -> Request] /\ served[r] = q
      /\ \A s \in Requests : s # r => served[s] = req[s]
  BY <1>0
<1>2. CASE waiters = <<>>
  <2>1. req' = served
    BY <1>2 DEF Release
  <2> HIDE DEF served
  <2> QED BY <1>1, <2>1 DEF Same
<1>3. CASE waiters # <<>>
  <2> DEFINE h == Head(waiters)
             f == [served[h] EXCEPT !.pc = "flying"]
  <2>1. h \in Requests /\ req' = [served EXCEPT ![h] = f]
    BY <1>0, <1>3 DEF Release
  <2>2. req[h].pc = "queued" /\ h # r
    BY <1>0, <1>3 DEF SlotInv, At, Flying
  <2> HIDE DEF served, h
  <2>3. f \in Request /\ Same(req[h], f)
    BY <1>0, <1>1, <2>1, <2>2 DEF Same, Request, PCs, InCall
  <2> HIDE DEF f
  <2>4. /\ req' \in [Requests -> Request] /\ req'[h] = f
        /\ \A s \in Requests : s # h => req'[s] = served[s]
    BY <1>1, <2>1, <2>3
  <2>5. \A s \in Requests : s # r => Same(req[s], req'[s])
    BY <1>1, <2>3, <2>4 DEF Same
  <2> QED BY <1>1, <2>2, <2>4, <2>5
<1> QED BY <1>2, <1>3

LEMMA CallReads ==
  ASSUME RoleInv, SlotInv, VersionInv, ReadInv, NEW r \in Requests, CallAnswered(r) \/ CallFails(r)
  PROVE  ReadInv'
<1>0. /\ r \in Flying /\ req \in [Requests -> Request] /\ req[r] \in Request
      /\ req[r].pc \in {"flying", "served"}
      /\ version \in Nat /\ acked \in 0..version /\ acked \in Nat /\ version <= MaxVersion
      /\ MaxVersion \in Nat /\ cache \in Requests \cup {"none"}
  <2>1. r \in Flying /\ req[r].pc \in {"flying", "served"}
    BY DEF CallAnswered, CallFails, At, Flying
  <2> QED BY <2>1, BoundsAssumption DEF RoleInv, RequestsInv, PlannerInv, VersionInv
<1>1. ASSUME NEW result \in Nat, req[r].call = "get", Release(Settle(r, result)),
             result > 0, cache' \in {cache, "none"}, acked' = acked,
             \A n \in 0..acked : Delivers(req[r], n) => result >= n
      PROVE  ReadInv'
  <2> DEFINE q == [req[r] EXCEPT !.pc = "await", !.call = "none", !.got = 0, !.result = result]
  <2>1. /\ q \in Request /\ q.pc = "await" /\ q.result = result /\ q.from = req[r].from
        /\ q.floor = req[r].floor
    BY <1>0 DEF Request, PCs
  <2>2. Settle(r, result) = [req EXCEPT ![r] = q]
    BY <1>0 DEF Settle, Request
  <2> HIDE DEF q
  <2>3. /\ req' \in [Requests -> Request] /\ req'[r] = q
        /\ \A s \in Requests : s # r => Same(req[s], req'[s])
    BY <1>0, <1>1, <2>1, <2>2, ReleaseMoves
  <2>4. \A n \in 0..acked : Delivers(req[r], n) => Delivers(q, n)
    BY <1>1, <2>1 DEF Delivers
  <2>5. \A s \in Requests : \A n \in 0..acked : Delivers(req[s], n) => Delivers(req'[s], n)
    BY <2>3, <2>4, SameReads
  <2>6. Regular(q)
    BY <2>1 DEF Regular, Early, Pending, InCall
  <2>7. /\ req[r].from \in Requests /\ req[r].floor \in 0..acked
        /\ Delivers(req[req[r].from], req[r].floor)
    BY <1>0, <1>1 DEF ReadInv, Awaits, Pending, InCall, Request
  <2>8. cache' # "none" => Delivers(req'[cache'], acked')
    BY <1>0, <1>1, <2>5 DEF ReadInv
  <2> DEFINE next == req'
  <2>9. /\ next[r].floor <= acked' /\ next[r].from \in Requests
        /\ Delivers(next[next[r].from], next[r].floor)
    BY <1>0, <1>1, <2>1, <2>3, <2>5, <2>7
  <2> QED BY <1>0, <1>1, <2>3, <2>4, <2>6, <2>8, <2>9, ReadsKept
<1>2. ASSUME req[r].call # "get", Release([req EXCEPT ![r] = Answered(@)]), cache' = "none",
             acked' \in Nat, acked <= acked'
      PROVE  ReadInv'
  <2> DEFINE q == Answered(req[r])
  <2>1. q \in Request /\ q.pc = "done" /\ q.result = req[r].result /\ q.floor = 0
    BY <1>0, AnsweredOK DEF Answered, NewRequest
  <2>2. Release([req EXCEPT ![r] = q])
    BY <1>2
  <2> HIDE DEF q
  <2>3. /\ req' \in [Requests -> Request] /\ req'[r] = q
        /\ \A s \in Requests : s # r => Same(req[s], req'[s])
    BY <1>0, <2>1, <2>2, ReleaseMoves
  <2>4. \A n \in 0..acked : Delivers(req[r], n) => Delivers(q, n)
    BY <1>2, <2>1 DEF Delivers, Pending
  <2>5. Regular(q) /\ ~Awaits(q) /\ q.floor <= acked'
    BY <1>2, <2>1 DEF Regular, Early, Awaits, Pending, InCall
  <2> QED BY <1>0, <1>2, <2>3, <2>4, <2>5, ReadsKept
<1>3. CASE CallAnswered(r) /\ req[r].call = "get"
  <2>1. /\ Release(Settle(r, req[r].got)) /\ UNCHANGED <<cache, acked>> /\ req[r].pc = "served"
    BY <1>3 DEF CallAnswered, At
  <2>2. req[r].result = 0 /\ req[r].got \in Nat /\ req[r].got > 0
    BY <1>0, <1>3, <2>1 DEF Pending, InCall, ReadInv, Regular, Request
  <2>3. \A n \in 0..acked : Delivers(req[r], n) => req[r].got >= n
    BY <2>1, <2>2 DEF Delivers
  <2> QED BY <1>1, <1>3, <2>1, <2>2, <2>3
<1>4. CASE CallFails(r) /\ req[r].call = "get"
  <2>1. PICK result \in {Failed, Garbled} :
          Release(Settle(r, result)) /\ cache' \in {cache, "none"} /\ acked' = acked
    BY <1>4 DEF CallFails, outside
  <2>2. result \in Nat /\ result > 0 /\ \A n \in 0..acked : result >= n
    BY <1>0 DEF Failed, Garbled
  <2> QED BY <1>1, <1>4, <2>1, <2>2
<1>5. CASE CallAnswered(r) /\ req[r].call # "get"
  <2>1. /\ Release([req EXCEPT ![r] = Answered(@)]) /\ cache' = "none"
        /\ acked' = IF req[r].got > acked THEN req[r].got ELSE acked
    BY <1>5 DEF CallAnswered, Invalidate
  <2>2. req[r].got \in Nat
    BY <1>0 DEF Request
  <2>3. acked' \in Nat /\ acked <= acked'
    BY <1>0, <2>1, <2>2
  <2> QED BY <1>2, <1>5, <2>1, <2>3
<1>6. CASE CallFails(r) /\ req[r].call # "get"
  <2>1. Release([req EXCEPT ![r] = Answered(@)]) /\ cache' = "none" /\ acked' = acked
    BY <1>6 DEF CallFails, Invalidate, outside
  <2> QED BY <1>0, <1>2, <1>6, <2>1
<1> QED BY <1>3, <1>4, <1>5, <1>6

LEMMA ReadInit ==
  ASSUME Init
  PROVE  ReadInv
<1>1. PICK mix \in Mixes : req = [r \in Requests |-> [NewRequest EXCEPT !.kind = mix[r]]]
  BY DEF Init
<1>2. \A r \in Requests : req[r].pc = "new" /\ req[r].result = 0 /\ req[r].floor = 0
  BY <1>1 DEF NewRequest
<1>3. \A r \in Requests : ~Awaits(req[r])
  BY <1>2 DEF Awaits, Pending, InCall
<1> QED BY <1>2, <1>3 DEF Init, ReadInv, Awaits, Regular

LEMMA ReadNext ==
  ASSUME RoleInv, SlotInv, VersionInv, ReadInv, [Next]_vars
  PROVE  ReadInv'
<1>1. CASE \E r \in Requests : Arrive(r) \/ Handle(r)
  <2> PICK r \in Requests : Arrive(r) \/ Handle(r)
    BY <1>1
  <2> QED
    BY ArriveReads, RoleCheckReads, BodyReadReads, PlannerServesReads, CallReads DEF Handle
<1>2. CASE \/ LoseRole \/ RolesAge \/ SessionEnds \/ LoginChecks \/ LoginCreates \/ CacheExpires
           \/ UNCHANGED vars
  <2>1. UNCHANGED <<req, acked>> /\ cache' \in {cache, "none"}
    BY <1>2 DEF LoseRole, RolesAge, SessionEnds, LoginChecks, LoginCreates, CacheExpires,
                vars, client, outside
  <2> QED BY <2>1 DEF ReadInv
<1> QED BY <1>1, <1>2 DEF Next

\* A read that begins after a mutation was answered shows it, whoever made the call
\* it is answered from (planner-client.mjs:85-100, 102-117): the micro-cache never
\* holds, and no shared promise ever gives, a plan older than that answer.
THEOREM ReadsAreFresh == Spec => []ReadYourWrites
<1>1. RoleInv /\ ReadInv => ReadYourWrites
  <2> SUFFICES ASSUME RoleInv, ReadInv, NEW r \in Requests, At(r, "await"),
                      req[req[r].from].result # 0
               PROVE  req[req[r].from].result >= req[r].floor
    BY DEF ReadYourWrites
  <2>1. req[r].from \in Requests /\ Delivers(req[req[r].from], req[r].floor)
    BY DEF ReadInv, Awaits, At
  <2> QED BY <2>1 DEF ReadInv, Delivers, Regular
<1> QED
  BY <1>1, RoleInit, RoleNext, SlotInit, SlotNext, ReadInit, ReadNext, PTL DEF Spec
==============================================================================
