----------------------------- MODULE Dashboard ------------------------------
(***************************************************************************)
(* The dashboard server between the browsers of one user, GitHub and the   *)
(* planner: the session, the role check and its cache, the micro-cache of  *)
(* GETs with its shared promises, and the slots of the planner client.     *)
(*                                                                         *)
(* Requests run interleaved on one event loop and are split at each await. *)
(* They name one plan, whose version counts its changes.  Rate limits, the *)
(* clock and the browser's headers are choices.                            *)
(***************************************************************************)
EXTENDS Naturals, Sequences, FiniteSets, Functions

CONSTANTS
  Requests,     \* requests, each handled once
  Mixes,        \* what they may be: functions from Requests to Kinds
  Concurrency,  \* calls the planner client keeps in flight
  MaxVersion,   \* bound on changes of the plan
  MaxFaults     \* bound on calls to GitHub or the planner that fail

Kinds == {"read", "planner", "forced"}  \* get_plan; reject, retry; approve-shape, create, cancel

ASSUME RequestsAssumption == IsFiniteSet(Requests) /\ "none" \notin Requests
ASSUME MixesAssumption == Mixes \subseteq [Requests -> Kinds]
ASSUME ConcurrencyAssumption == Concurrency \in Nat \ {0}
ASSUME BoundsAssumption == MaxVersion \in Nat \ {0} /\ MaxFaults \in Nat

VARIABLES
  github,    \* member with the role, demoted, or gone from the organisation
  aged,      \* history: the role TTL has passed since the role was lost
  session,   \* the session record of the user
  login,     \* the OAuth callback: not yet, what it read from GitHub, or over
  req,       \* the requests
  cache,     \* the request whose promise the cache entry of the plan holds
  inFlight, waiters,   \* the semaphore of the planner client
  version,   \* of the plan, at the planner
  acked,     \* history: version left by the last POST that was answered
  faults

vars == <<github, aged, session, login, req, cache, inFlight, waiters, version, acked, faults>>

IsMutation(kind) == kind # "read"
NoSession == [live |-> FALSE, role |-> FALSE, fresh |-> FALSE]

\* seen: GitHub's answer; call: the upstream call it is in; got: the version the
\* planner served to that call; from: whose promise it awaits; result: of the GET
\* it began, 0 while pending.  lost, old, floor: history, at arrival and at the GET.
NewRequest ==
  [pc |-> "new", kind |-> "read", seen |-> "none", call |-> "none", got |-> 0,
   from |-> "none", result |-> 0, lost |-> FALSE, old |-> FALSE, floor |-> 0]

InCall == {"queued", "flying", "served"}
Failed == MaxVersion + 1  \* a transport failure
Garbled == Failed + 1     \* an answer that is no JSON, read as {}

Init ==
  /\ github = "member"
  /\ aged = FALSE
  /\ session = NoSession
  /\ login = "none"
  /\ req \in {[r \in Requests |-> [NewRequest EXCEPT !.kind = mix[r]]] : mix \in Mixes}
  /\ cache = "none"
  /\ inFlight = 0
  /\ waiters = <<>>
  /\ version = 1
  /\ acked = 0
  /\ faults = 0

client == <<cache, inFlight, waiters>>
outside == <<github, aged, version, acked>>
Fault == faults < MaxFaults /\ faults' = faults + 1
At(r, pc) == req[r].pc = pc
Set(r, request) == req' = [req EXCEPT ![r] = request]
Answered(request) == [NewRequest EXCEPT !.pc = "done", !.result = request.result]
Done(r) == req' = [req EXCEPT ![r] = Answered(@)]

----------------------------------------------------------------------------
(***************************************************************************)
(* The planner client, as its callers use it                               *)
(***************************************************************************)
\* acquire(): fly now, or queue.
Acquire(r, request) ==
  IF inFlight < Concurrency
  THEN /\ Set(r, [request EXCEPT !.pc = "flying"])
       /\ inFlight' = inFlight + 1
       /\ UNCHANGED waiters
  ELSE /\ Set(r, [request EXCEPT !.pc = "queued"])
       /\ waiters' = Append(waiters, r)
       /\ UNCHANGED inFlight

BeginPost(r) == Acquire(r, [req[r] EXCEPT !.call = "post", !.from = "none", !.floor = 0])

\* get(): the cached promise, pending or settled, or a call of its own.
Get(r, request) ==
  IF cache # "none"
  THEN /\ Set(r, [request EXCEPT !.pc = "await", !.from = cache, !.floor = acked])
       /\ UNCHANGED client
  ELSE /\ cache' = r
       /\ Acquire(r, [request EXCEPT !.call = "get", !.from = r, !.floor = acked])

----------------------------------------------------------------------------
(***************************************************************************)
(* Session and roles                                                       *)
(***************************************************************************)
LoseRole ==
  /\ github # "gone"
  /\ github' \in {"demoted", "gone"} \ {github}
  /\ UNCHANGED <<aged, session, login, req, client, version, acked, faults>>

\* roles_verified_at passes the TTL.  A recheck ends within seconds.
RolesAge ==
  /\ \A r \in Requests : req[r].pc \notin {"recheck", "observed"}
  /\ session.fresh
  /\ session' = [session EXCEPT !.fresh = FALSE]
  /\ aged' = (github # "member")
  /\ UNCHANGED <<github, login, req, client, version, acked, faults>>

\* Logout, the idle or absolute TTL, or the sweeper.  What is in flight goes on.
SessionEnds ==
  /\ session.live
  /\ session' = NoSession
  /\ UNCHANGED <<login, req, client, outside, faults>>

\* The callback reads membership and teams, and later mints a session from them.
\* A second login would start another session like this one.
LoginChecks ==
  /\ login = "none" /\ github # "gone"
  /\ login' = github
  /\ UNCHANGED <<session, req, client, outside, faults>>

LoginCreates ==
  /\ login \in {"member", "demoted"}
  /\ session' = [live |-> TRUE, role |-> login = "member", fresh |-> TRUE]
  /\ login' = "over"
  /\ UNCHANGED <<req, client, outside, faults>>

\* Where a request goes once its role is known.
Authorised(r, request, role) ==
  CASE ~IsMutation(request.kind) -> Get(r, request)
    [] IsMutation(request.kind) /\ ~role -> Done(r) /\ UNCHANGED client
    [] IsMutation(request.kind) /\ role -> Set(r, [request EXCEPT !.pc = "body"]) /\ UNCHANGED client

\* Session lookup, then rate limit, Origin and CSRF header may refuse.
Arrive(r) ==
  LET kind == req[r].kind
      came == [req[r] EXCEPT !.lost = kind = "forced" /\ github # "member",
                             !.old = IsMutation(kind) /\ aged]
  IN
  /\ At(r, "new")
  /\ \/ Done(r) /\ UNCHANGED client
     \/ /\ session.live /\ kind # "forced" /\ session.fresh
        /\ Authorised(r, came, session.role)
     \/ /\ session.live /\ (kind = "forced" \/ ~session.fresh)
        /\ Set(r, [came EXCEPT !.pc = "recheck"])
        /\ UNCHANGED client
  /\ UNCHANGED <<session, login, outside, faults>>

\* GitHub's answer is fixed here and arrives later.
GitHubAnswers(r) ==
  /\ At(r, "recheck")
  /\ Set(r, [req[r] EXCEPT !.pc = "observed", !.seen = github])
  /\ UNCHANGED <<session, login, client, outside, faults>>

\* updateRoles is a no-op on a session that is gone.
RecheckReturns(r) ==
  /\ At(r, "observed")
  /\ IF req[r].seen = "gone"
     THEN session' = NoSession /\ Done(r) /\ UNCHANGED client
     ELSE /\ session' = IF session.live
                        THEN [live |-> TRUE, role |-> req[r].seen = "member", fresh |-> TRUE]
                        ELSE session
          /\ Authorised(r, req[r], req[r].seen = "member")
  /\ UNCHANGED <<login, outside, faults>>

\* Mutant: a mutation may ride the cached role when GitHub is unreachable.
RecheckFailsOpen(r) ==
  /\ req[r].pc \in {"recheck", "observed"}
  /\ Fault
  /\ IF req[r].kind = "forced" THEN Done(r) /\ UNCHANGED client
     ELSE Authorised(r, req[r], session.role)
  /\ UNCHANGED <<session, login, outside>>

\* GitHub is unreachable: a read rides the cache, a mutation is refused.
RecheckFails(r) ==
  /\ req[r].pc \in {"recheck", "observed"}
  /\ Fault
  /\ IF IsMutation(req[r].kind) THEN Done(r) /\ UNCHANGED client
     ELSE Authorised(r, req[r], session.role)
  /\ UNCHANGED <<session, login, outside>>

----------------------------------------------------------------------------
(***************************************************************************)
(* The planner client                                                      *)
(***************************************************************************)
\* The body is read: too large, not JSON or unconfirmed, else on to the planner.
\* A reject first reads the plan; a retry does not.
BodyRead(r) ==
  /\ At(r, "body")
  /\ \/ Done(r) /\ UNCHANGED client
     \/ req[r].kind = "planner" /\ Get(r, req[r])
     \/ BeginPost(r) /\ UNCHANGED cache
  /\ UNCHANGED <<session, login, outside, faults>>

CacheExpires ==
  /\ cache # "none"
  /\ cache' = "none"
  /\ UNCHANGED <<session, login, req, inFlight, waiters, outside, faults>>

\* The planner serves a call; a POST may be refused.
PlannerServes(r) ==
  /\ At(r, "flying")
  /\ \/ req[r].call = "get" /\ Set(r, [req[r] EXCEPT !.pc = "served", !.got = version]) /\ UNCHANGED version
     \/ /\ req[r].call = "post"
        /\ version' \in {version, version + 1} /\ version' <= MaxVersion
        /\ Set(r, [req[r] EXCEPT !.pc = "served", !.got = version'])
  /\ UNCHANGED <<github, aged, acked, session, login, client, faults>>

\* Mutant: the slot of the finished call is freed, but nobody is woken.
ReleaseWakesNobody(served) ==
  /\ inFlight' = inFlight - 1
  /\ req' = served
  /\ UNCHANGED waiters

\* release(): the slot goes to the first waiter.
Release(served) ==
  IF waiters = <<>>
  THEN inFlight' = inFlight - 1 /\ req' = served /\ UNCHANGED waiters
  ELSE /\ waiters' = Tail(waiters)
       /\ req' = [served EXCEPT ![Head(waiters)].pc = "flying"]
       /\ UNCHANGED inFlight

\* Mutant: the cache entry is dropped when the POST is sent, not when it is answered.
InvalidateEarly == cache

\* invalidate(planId), whatever became of the POST.
Invalidate == "none"

\* A settled GET resumes everyone who awaits its promise.
Settle(r, result) ==
  [req EXCEPT ![r].pc = "await", ![r].call = "none", ![r].got = 0, ![r].result = result]

CallAnswered(r) ==
  /\ At(r, "served")
  /\ IF req[r].call = "get"
     THEN Release(Settle(r, req[r].got)) /\ UNCHANGED <<cache, acked>>
     ELSE /\ Release([req EXCEPT ![r] = Answered(@)])
          /\ cache' = Invalidate
          /\ acked' = IF req[r].got > acked THEN req[r].got ELSE acked
  /\ UNCHANGED <<github, aged, version, session, login, faults>>

\* Unreachable, or the 30 s timeout, before or after the planner served it.  A
\* failed GET evicts the entry of its key, whosever promise that holds by now; one
\* whose answer is no JSON counts as answered and stays.
CallFails(r) ==
  /\ req[r].pc \in {"flying", "served"}
  /\ Fault
  /\ IF req[r].call = "get"
     THEN \/ Release(Settle(r, Failed)) /\ cache' = "none"
          \/ Release(Settle(r, Garbled)) /\ UNCHANGED cache
     ELSE Release([req EXCEPT ![r] = Answered(@)]) /\ cache' = Invalidate
  /\ UNCHANGED <<outside, session, login>>

\* The awaited promise has settled.  A read answers; a reject posts, unless the
\* read failed or another requester's plan was not acknowledged; {} has no requester.
Resume(r) ==
  LET result == req[req[r].from].result IN
  /\ At(r, "await")
  /\ result # 0
  /\ \/ Done(r) /\ UNCHANGED client
     \/ /\ req[r].kind = "planner" /\ result # Failed
        /\ BeginPost(r)
        /\ UNCHANGED cache
  /\ UNCHANGED <<session, login, outside, faults>>

----------------------------------------------------------------------------
Handle(r) ==
  GitHubAnswers(r) \/ RecheckReturns(r) \/ RecheckFails(r) \/ BodyRead(r)
    \/ PlannerServes(r) \/ CallAnswered(r) \/ CallFails(r) \/ Resume(r)

Next ==
  \/ LoseRole \/ RolesAge \/ SessionEnds \/ LoginChecks \/ LoginCreates
  \/ CacheExpires
  \/ \E r \in Requests : Arrive(r) \/ Handle(r)

\* Each call has a timeout, and the server bounds how long a body may take.
Fairness == \A r \in Requests : WF_vars(Handle(r))
Spec == Init /\ [][Next]_vars /\ Fairness

----------------------------------------------------------------------------
(***************************************************************************)
(* Properties                                                              *)
(***************************************************************************)
\* Types, and the semaphore's books: its count is the calls in flight, its queue
\* is the calls that wait, and they wait only while every slot is taken.
TypeOK ==
  /\ github \in {"member", "demoted", "gone"} /\ login \in {"none", "member", "demoted", "over"}
  /\ session \in [live : BOOLEAN, role : BOOLEAN, fresh : BOOLEAN]
  /\ cache \in Requests \cup {"none"}
  /\ inFlight = Cardinality({r \in Requests : req[r].pc \in {"flying", "served"}})
  /\ inFlight <= Concurrency
  /\ Range(waiters) = {r \in Requests : At(r, "queued")} /\ IsInjective(waiters)
  /\ waiters # <<>> => inFlight = Concurrency
  /\ version \in 1..MaxVersion /\ acked \in 0..version
  /\ \A r \in Requests : req[r].kind \in Kinds /\ req[r].result \in 0..Garbled

\* A user who lost the role posts nothing behind a forced gate from then on, and
\* nothing at all once the role TTL has passed, whatever else is in flight,
\* however late GitHub's answers come and whether or not GitHub can be reached.
RevokedWritesNothing ==
  \A r \in Requests : req[r].call = "post" =>
    /\ ~req[r].old
    /\ req[r].kind = "forced" => ~req[r].lost

\* A read that begins after a mutation was answered shows that mutation, though
\* it may be served from the cache or share another request's call.
ReadYourWrites ==
  \A r \in Requests : At(r, "await") =>
    LET result == req[req[r].from].result IN result = 0 \/ result >= req[r].floor

\* Every request that came in is answered: none is left behind in the queue of
\* the semaphore or on a promise that never settles.
EveryRequestAnswered ==
  \A r \in Requests : ~At(r, "new") ~> At(r, "done")
=============================================================================
