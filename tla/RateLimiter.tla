---------------------------- MODULE RateLimiter ----------------------------
(***************************************************************************)
(* The rate limiter of the api-gateway (RateLimiter in                     *)
(* services/api-gateway): a sliding window of requests in a sorted set of  *)
(* Redis.  The module is about the key of one team; keys share nothing.    *)
(*                                                                         *)
(* A pipeline is no transaction: Redis executes the four commands of a     *)
(* request in order, with commands of other requests, and time, between    *)
(* them.  Every request is recorded, the refused ones too.  Time is        *)
(* counted in ticks; the window is 1 minute in the code, the limit 10.     *)
(***************************************************************************)
EXTENDS Naturals, FiniteSets

CONSTANTS
  Request,
  Limit,        \* requests per window
  Window,       \* ticks per window
  MaxClock,     \* bound on the clock
  MaxFailures   \* bound on failed pipelines and losses of Redis

ASSUME RateLimiterAssumption ==
  /\ IsFiniteSet(Request)
  /\ Limit \in Nat
  /\ Window \in Nat \ {0}
  /\ MaxClock \in Nat
  /\ MaxFailures \in Nat

VARIABLES
  clock,      \* the time, starting at 1
  members,    \* the sorted set: the requests in it; its scores are their stamps
  expires,    \* when Redis drops the key; 0 if it has no time to live
  req,        \* where each request is, and the time it was stamped with
  before,     \* requests that were recorded when this one counted
  spanned,    \* requests during whose pipeline the clock went on
  failures    \* failures so far

vars == <<clock, members, expires, req, before, spanned, failures>>

PC == {"new", "trim", "count", "add", "expire", "allowed", "refused"}

ReqRec == [pc : PC, stamp : Nat, count : Nat]

TypeOK ==
  /\ clock \in 1..(MaxClock + 1)
  /\ members \subseteq Request
  /\ expires \in Nat
  /\ req \in [Request -> ReqRec]
  /\ before \in [Request -> SUBSET Request]
  /\ spanned \subseteq Request
  /\ failures \in 0..MaxFailures

Init ==
  /\ clock = 1
  /\ members = {}
  /\ expires = 0
  /\ req = [r \in Request |-> [pc |-> "new", stamp |-> 0, count |-> 0]]
  /\ before = [r \in Request |-> {}]
  /\ spanned = {}
  /\ failures = 0

InFlight == {r \in Request : req[r].pc \in {"trim", "count", "add", "expire"}}

\* Requests that have executed ZADD, whatever became of their entry.
Recorded == {r \in Request : req[r].pc \in {"expire", "allowed", "refused"}}

\* Allow: the request is stamped with the clock of the gateway.
Stamp(r) ==
  /\ req[r].pc = "new"
  /\ req' = [req EXCEPT ![r] = [pc |-> "trim", stamp |-> clock, count |-> 0]]
  /\ UNCHANGED <<clock, members, expires, before, spanned, failures>>

\* Defect: only entries as old as two windows are removed.
TrimLate(r) ==
  /\ req[r].pc = "trim"
  /\ members' = {q \in members : req[q].stamp + 2 * Window > req[r].stamp}
  /\ expires' = IF members' = {} THEN 0 ELSE expires
  /\ req' = [req EXCEPT ![r].pc = "count"]
  /\ UNCHANGED <<clock, before, spanned, failures>>

\* ZREMRANGEBYSCORE 0 .. now - window; Redis drops a set that has become empty.
Trim(r) ==
  /\ req[r].pc = "trim"
  /\ members' = {q \in members : req[q].stamp + Window > req[r].stamp}
  /\ expires' = IF members' = {} THEN 0 ELSE expires
  /\ req' = [req EXCEPT ![r].pc = "count"]
  /\ UNCHANGED <<clock, before, spanned, failures>>

\* ZCARD.
Count(r) ==
  /\ req[r].pc = "count"
  /\ req' = [req EXCEPT ![r].pc = "add", ![r].count = Cardinality(members)]
  /\ before' = [before EXCEPT ![r] = Recorded]
  /\ UNCHANGED <<clock, members, expires, spanned, failures>>

\* Defect: the member is the time, so a request replaces another of the same time.
AddByTime(r) ==
  /\ req[r].pc = "add"
  /\ members' = {q \in members : req[q].stamp # req[r].stamp} \cup {r}
  /\ req' = [req EXCEPT ![r].pc = "expire"]
  /\ UNCHANGED <<clock, expires, before, spanned, failures>>

\* ZADD of a member of its own (a fresh uuid).
Add(r) ==
  /\ req[r].pc = "add"
  /\ members' = members \cup {r}
  /\ req' = [req EXCEPT ![r].pc = "expire"]
  /\ UNCHANGED <<clock, expires, before, spanned, failures>>

\* EXPIRE, without effect if the key is gone again; then the answer.
Expire(r) ==
  /\ req[r].pc = "expire"
  /\ expires' = IF members = {} THEN 0 ELSE clock + Window
  /\ req' = [req EXCEPT ![r].pc = IF req[r].count < Limit THEN "allowed" ELSE "refused"]
  /\ UNCHANGED <<clock, members, before, spanned, failures>>

Fails == failures < MaxFailures /\ failures' = failures + 1

\* The pipeline fails after some of its commands: "fail open on Redis error".
FailOpen(r) ==
  /\ r \in InFlight
  /\ Fails
  /\ req' = [req EXCEPT ![r].pc = "allowed"]
  /\ UNCHANGED <<clock, members, expires, before, spanned>>

\* Redis restarts empty or evicts the key.
RedisLoses ==
  /\ members # {}
  /\ Fails
  /\ members' = {}
  /\ expires' = 0
  /\ UNCHANGED <<clock, req, before, spanned>>

\* Time passes, and Redis drops a key whose time has come.  No pipeline takes as long
\* as a window: the client gives Redis 3 s for an answer.
Tick ==
  /\ clock <= MaxClock
  /\ \A r \in InFlight : clock + 1 < req[r].stamp + Window
  /\ clock' = clock + 1
  /\ spanned' = spanned \cup InFlight
  /\ LET dropped == expires # 0 /\ expires <= clock'
     IN  /\ members' = IF dropped THEN {} ELSE members
         /\ expires' = IF dropped THEN 0 ELSE expires
  /\ UNCHANGED <<req, before, failures>>

Next ==
  \/ \E r \in Request : Stamp(r) \/ Trim(r) \/ Count(r) \/ Add(r) \/ Expire(r) \/ FailOpen(r)
  \/ RedisLoses
  \/ Tick

Spec == Init /\ [][Next]_vars

-----------------------------------------------------------------------------
\* Requests whose stamp is less than a window older than that of r.
InWindowOf(r, requests) == {q \in requests \ {r} : req[q].stamp + Window > req[r].stamp}

\* Nobody is refused for what lies outside the window, however the pipelines of the
\* team interleave: a refused request had Limit others in its window.
RefusedIsJust ==
  \A r \in Request : req[r].pc = "refused" =>
    Cardinality(InWindowOf(r, before[r])) >= Limit

\* Nor is the limit missed, but for requests that had not reached ZADD: an allowed
\* request counted all that came before it in its window, the refused ones included.
\* It may miss others if Redis failed, if its own pipeline took some time, or if that
\* of the other did: the key can expire between ZADD and EXPIRE.
LimitExact ==
  \A r \in Request : req[r].pc = "allowed" /\ r \notin spanned /\ failures = 0 =>
    Cardinality(InWindowOf(r, before[r] \ spanned)) < Limit
=============================================================================
