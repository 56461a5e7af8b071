---------------------------- MODULE Orchestrator ----------------------------
(***************************************************************************)
(* The bot-orchestrator service (services/bot-orchestrator/main.go): the   *)
(* benchmark sessions, the registered workers with their command channels, *)
(* the long polls through which workers fetch commands, and the copies of  *)
(* sessions kept in Redis.                                                 *)
(*                                                                         *)
(* One call of StartSession is a chain of goroutines (the HTTP handler,    *)
(* dispatchToWorkers, the auto-stop timer), each started by the one before *)
(* it: the chain is one "run", with a program counter.  Every step that    *)
(* the code takes under o.mu is one action; o.mu itself is not a variable. *)
(* Left out as data: urls, team names, tps and latency figures, log lines. *)
(* Workers and clients of the HTTP API are the environment: they poll,     *)
(* take answers, send heartbeats and stop sessions whenever they like.     *)
(***************************************************************************)
EXTENDS Platform, Naturals, Sequences, FiniteSets

CONSTANTS
  ChanCap,      \* capacity of a command channel (64 in the code)
  OrderTotals,  \* orders_sent values that heartbeats report
  MaxCredit,    \* bound on the orders credited to a session
  Measured,     \* sessions for which Redis has a hash metrics:<id>
  Lossy,        \* workers whose process or network may fail
  MaxRestarts,  \* bound on restarts of the orchestrator
  NoCmd

ASSUME ConstantsAssumption ==
  /\ ChanCap \in Nat \ {0}
  /\ BotCounts \subseteq Nat \ {0}
  /\ OrderTotals \subseteq Nat
  /\ MaxCredit \in Nat
  /\ MaxRestarts \in Nat
  /\ Measured \subseteq Session
  /\ Lossy \subseteq Worker
  /\ IsFiniteSet(Worker)
  /\ NoSession \notin Session
  /\ NoRun \notin Run

VARIABLES
  sessions,      \* o.sessions: the run whose session object the map holds
  obj,           \* the BenchmarkSession object that each run allocated
  lastReported,  \* o.lastReportedOrders, keyed by worker and session
  workers,       \* the keys of o.workers, which are the keys of o.cmdChans
  seen,          \* WorkerInfo.LastSeen: "fresh", or "stale" after 60 s
  cmdChan,       \* contents of the channel o.cmdChans[w]
  poll,          \* the WorkerPoll handler of w: "off", "registered", "waiting"
  sub,           \* first Pub/Sub message that reached the waiting handler
  reply,         \* command answered to w, not yet read by the worker
  run,           \* the goroutine chain of each StartSession call
  agg,           \* metricsAggLoop: sessions still to be persisted in this tick
  redisSession,  \* Redis keys session:<id>
  sessionMeta,   \* sessions whose hash session_meta:<id> has been stored in Redis
  handed,        \* history: <<w, n>> when START of run n was answered to w
  restarts       \* number of restarts so far

sessVars  == <<sessions, obj, lastReported>>
poolVars  == <<workers, seen, cmdChan>>
pollVars  == <<poll, sub, reply, handed>>
redisVars == <<redisSession, sessionMeta>>
vars == <<sessVars, poolVars, pollVars, run, agg, redisVars, restarts>>

Status == {"absent", "pending", "running", "done"}

SessionRec == [status : Status \ {"absent"}, orders : Nat]

Pending == [status |-> "pending", orders |-> 0]

\* WorkerCmd; run stands for target_url and endpoint_type, which STOP leaves empty.
Cmd == [kind : {"START"}, sid : Session, run : Run, bots : Nat]
         \cup [kind : {"STOP"}, sid : Session, run : {NoRun}, bots : {0}]

ASSUME NoCmdAssumption == NoCmd \notin Cmd

PC == {"unused", "marshal", "persist", "meta", "dispatch", "timer",
       "unassigned", "failed", "stopped", "lost", "orphan"}

\* copy: the status in the marshalled session; share: bots sent to each worker.
RunRec == [pc : PC, sid : Session \cup {NoSession}, bots : Nat,
           copy : Status, share : [Worker -> Nat]]

RedisRec == [status : Status, ttl : BOOLEAN]

TypeOK ==
  /\ sessions \in [Session -> Run \cup {NoRun}]
  /\ obj \in [Run -> SessionRec]
  /\ lastReported \in [Worker -> [Session -> Nat]]
  /\ workers \subseteq Worker
  /\ seen \in [Worker -> {"fresh", "stale"}]
  /\ cmdChan \in [Worker -> Seq(Cmd)]
  /\ \A w \in Worker : Len(cmdChan[w]) <= ChanCap
  /\ poll \in [Worker -> {"off", "registered", "waiting"}]
  /\ sub \in [Worker -> Cmd \cup {NoCmd}]
  /\ reply \in [Worker -> Cmd \cup {NoCmd}]
  /\ run \in [Run -> RunRec]
  /\ \A n \in Run : run[n].pc # "unused" => run[n].sid \in Session
  /\ agg \subseteq Session
  /\ redisSession \in [Session -> RedisRec]
  /\ sessionMeta \subseteq Session
  /\ handed \subseteq Worker \X Run
  /\ restarts \in Nat

\* NewOrchestrator: empty maps; Redis is empty too.
Init ==
  /\ sessions = [s \in Session |-> NoRun]
  /\ lastReported = [w \in Worker |-> [s \in Session |-> 0]]
  /\ workers = {}
  /\ seen = [w \in Worker |-> "fresh"]
  /\ cmdChan = [w \in Worker |-> <<>>]
  /\ poll = [w \in Worker |-> "off"]
  /\ sub = [w \in Worker |-> NoCmd]
  /\ agg = {}
  /\ obj = [n \in Run |-> Pending]
  /\ reply = [w \in Worker |-> NoCmd]
  /\ run = [n \in Run |-> [pc |-> "unused", sid |-> NoSession, bots |-> 0,
                           copy |-> "pending", share |-> [w \in Worker |-> 0]]]
  /\ redisSession = [s \in Session |-> [status |-> "absent", ttl |-> FALSE]]
  /\ sessionMeta = {}
  /\ handed = {}
  /\ restarts = 0

Known(s) == sessions[s] # NoRun

StatusOf(s) == IF Known(s) THEN obj[sessions[s]].status ELSE "absent"

StartCmd(n, b) == [kind |-> "START", sid |-> run[n].sid, run |-> n, bots |-> b]

StopCmd(s) == [kind |-> "STOP", sid |-> s, run |-> NoRun, bots |-> 0]

\* Redis Pub/Sub keeps nothing: only a subscribed handler gets the message, and
\* as WorkerPoll answers one message and unsubscribes, only its first one counts.
\* up is FALSE when the PUBLISH fails, which every caller ignores.
Publish(up, w, c) ==
  IF up /\ poll[w] = "waiting" /\ sub[w] = NoCmd THEN c ELSE sub[w]

\* Defect: the channel is unbounded.
NeverFull(w) == w \notin Worker

Full(w) == Len(cmdChan[w]) >= ChanCap

-----------------------------------------------------------------------------
(* StartSession and the goroutines it starts.                              *)

\* The handler puts a new session object into the map, over an old one if any.
StartSession(n, s, b) ==
  /\ run[n].pc = "unused"
  /\ sessions' = [sessions EXCEPT ![s] = n]
  /\ run' = [run EXCEPT ![n].pc = "marshal", ![n].sid = s, ![n].bots = b]
  /\ UNCHANGED <<obj, lastReported, poolVars, pollVars, agg, redisVars, restarts>>

\* The object is marshalled without the lock, as it is by now.
MarshalSession(n) ==
  /\ run[n].pc = "marshal"
  /\ run' = [run EXCEPT ![n].pc = "persist", ![n].copy = obj[n].status]
  /\ UNCHANGED <<sessVars, poolVars, pollVars, agg, redisVars, restarts>>

\* SET session:<id>, without expiry.
PersistSession(n) ==
  /\ run[n].pc = "persist"
  /\ redisSession' = [redisSession EXCEPT ![run[n].sid] =
                        [status |-> run[n].copy, ttl |-> FALSE]]
  /\ run' = [run EXCEPT ![n].pc = "meta"]
  /\ UNCHANGED <<sessVars, poolVars, pollVars, agg, sessionMeta, restarts>>

\* Defect: the error of HSET is ignored.
SaveMetaUnchecked(n) ==
  /\ run[n].pc = "meta"
  /\ sessionMeta' \in {sessionMeta, sessionMeta \cup {run[n].sid}}
  /\ run' = [run EXCEPT ![n].pc = "dispatch"]
  /\ UNCHANGED <<sessVars, poolVars, pollVars, agg, redisSession, restarts>>

\* HSET session_meta:<id>, then the dispatch goroutine is started.
SaveMeta(n) ==
  /\ run[n].pc = "meta"
  /\ sessionMeta' = sessionMeta \cup {run[n].sid}
  /\ run' = [run EXCEPT ![n].pc = "dispatch"]
  /\ UNCHANGED <<sessVars, poolVars, pollVars, agg, redisSession, restarts>>

\* Either Redis call fails: StartSession returns the error, the session stays.
RedisError(n) ==
  /\ run[n].pc \in {"persist", "meta"}
  /\ run' = [run EXCEPT ![n].pc = "failed"]
  /\ UNCHANGED <<sessVars, poolVars, pollVars, agg, redisVars, restarts>>

\* Defect: the remainder is forgotten.
ShareNoRemainder(b, W, extra, w) == b \div Cardinality(W)

\* The share of w when b bots are split over W and the workers of extra come
\* first in the (random) iteration order of the map.
Share(b, W, extra, w) ==
  b \div Cardinality(W) + (IF w \in extra THEN 1 ELSE 0)

\* dispatchToWorkers with workers connected.  The wait of up to 10 s before it is
\* the time the run spends in "dispatch".  Each worker whose channel is full is sent
\* its START by a PUBLISH of its own; those to the workers of up go through.
DispatchToWorkers(n) ==
  /\ run[n].pc = "dispatch"
  /\ workers # {}
  /\ \E extra \in SUBSET workers, up \in SUBSET workers :
       LET b    == run[n].bots
           s    == run[n].sid
           c(w) == StartCmd(n, Share(b, workers, extra, w))
       IN
       /\ Cardinality(extra) = b % Cardinality(workers)
       /\ cmdChan' = [w \in Worker |->
            IF w \in workers /\ ~Full(w) THEN Append(cmdChan[w], c(w)) ELSE cmdChan[w]]
       /\ sub' = [w \in Worker |->
            IF w \in workers /\ Full(w) THEN Publish(w \in up, w, c(w)) ELSE sub[w]]
       /\ run' = [run EXCEPT ![n].pc = "timer", ![n].share =
            [w \in Worker |-> IF w \in workers THEN Share(b, workers, extra, w) ELSE 0]]
       /\ obj' = IF Known(s)
            THEN [obj EXCEPT ![sessions[s]].status = "running"] ELSE obj
  /\ UNCHANGED <<sessions, lastReported, workers, seen, poll, reply, handed, agg, redisVars, restarts>>

\* Defect: the session is marked running before the check for workers.
DispatchNoWorkersRuns(n) ==
  /\ run[n].pc = "dispatch"
  /\ workers = {}
  /\ run' = [run EXCEPT ![n].pc = "unassigned"]
  /\ obj' = [obj EXCEPT ![sessions[run[n].sid]].status = "running"]
  /\ UNCHANGED <<sessions, lastReported, poolVars, pollVars, agg, redisVars, restarts>>

\* Defect: the wait for workers has no deadline.
DispatchKeepsWaiting(n) ==
  /\ run[n].pc = "dispatch"
  /\ workers = {}
  /\ UNCHANGED vars

\* dispatchToWorkers when the wait ended with no worker: the command is published
\* on worker:broadcast and the goroutine returns, leaving the session pending.
DispatchNoWorkers(n) ==
  /\ run[n].pc = "dispatch"
  /\ workers = {}
  /\ \E up \in BOOLEAN :
       sub' = [w \in Worker |-> Publish(up, w, StartCmd(n, run[n].bots))]
  /\ run' = [run EXCEPT ![n].pc = "unassigned"]
  /\ UNCHANGED <<sessVars, poolVars, poll, reply, handed, agg, redisVars, restarts>>

\* Defect: nothing is done when no worker is connected.
StopSessionNeedsWorkers(s) ==
  /\ obj' = IF Known(s) /\ workers # {}
       THEN [obj EXCEPT ![sessions[s]].status = "done"] ELSE obj
  /\ cmdChan' = [w \in Worker |->
       IF Known(s) /\ w \in workers /\ ~Full(w)
         THEN Append(cmdChan[w], StopCmd(s)) ELSE cmdChan[w]]
  /\ UNCHANGED <<sessions, lastReported, workers, seen, pollVars, agg, redisVars, restarts>>

\* Defect: a stopped session is deleted from the map.
StopSessionForgets(s) ==
  /\ sessions' = [sessions EXCEPT ![s] = NoRun]
  /\ UNCHANGED <<obj, lastReported, poolVars, pollVars, agg, redisVars, restarts>>

\* StopSession: mark the session and send STOP both ways to every worker; a full
\* channel drops it.
StopSession(s) ==
  /\ obj' = IF Known(s)
       THEN [obj EXCEPT ![sessions[s]].status = "done"]
       ELSE obj
  /\ cmdChan' = [w \in Worker |->
       IF Known(s) /\ w \in workers /\ ~Full(w)
         THEN Append(cmdChan[w], StopCmd(s)) ELSE cmdChan[w]]
  /\ \E up \in BOOLEAN : sub' =
       [w \in Worker |-> IF Known(s) THEN Publish(up, w, StopCmd(s)) ELSE sub[w]]
  /\ UNCHANGED <<sessions, lastReported, workers, seen, poll, reply, handed, agg,
                 redisVars, restarts>>

\* The timer started by dispatchToWorkers expires.
AutoStop(n) ==
  /\ run[n].pc = "timer"
  /\ StopSession(run[n].sid)
  /\ run' = [run EXCEPT ![n].pc = "stopped"]

\* POST /api/sessions/:id/stop.
APIStopSession(s) ==
  /\ StopSession(s)
  /\ UNCHANGED run

-----------------------------------------------------------------------------
(* Workers: long polls, heartbeats, eviction.                              *)

\* Defect: LastSeen of a known worker is not refreshed.
RegisterWorkerKeepsSeen(w) ==
  /\ poll[w] = "off"
  /\ reply[w] = NoCmd
  /\ workers' = workers \cup {w}
  /\ cmdChan' = [cmdChan EXCEPT ![w] = <<>>]
  /\ poll' = [poll EXCEPT ![w] = "registered"]
  /\ UNCHANGED <<sessVars, seen, sub, reply, handed, run, agg, redisVars, restarts>>

\* A poll arrives: RegisterWorker makes a new channel for w and drops the old one.
\* The worker polls again only after it has read the answer to its last poll.
RegisterWorker(w) ==
  /\ poll[w] = "off"
  /\ reply[w] = NoCmd
  /\ workers' = workers \cup {w}
  /\ seen' = [seen EXCEPT ![w] = "fresh"]
  /\ cmdChan' = [cmdChan EXCEPT ![w] = <<>>]
  /\ poll' = [poll EXCEPT ![w] = "registered"]
  /\ UNCHANGED <<sessVars, sub, reply, handed, run, agg, redisVars, restarts>>

\* Redis takes up the subscription to worker:broadcast and worker:<id>; the handler
\* does not wait for that before it selects.
Subscribe(w) ==
  /\ poll[w] = "registered"
  /\ poll' = [poll EXCEPT ![w] = "waiting"]
  /\ UNCHANGED <<sessVars, poolVars, sub, reply, handed, run, agg, redisVars, restarts>>

\* Defect: the subscription outlives the answer.
AnswerKeepsSub(w, c) ==
  /\ reply' = [reply EXCEPT ![w] = c]
  /\ poll' = [poll EXCEPT ![w] = "off"]
  /\ handed' = IF c.kind = "START" THEN handed \cup {<<w, c.run>>} ELSE handed
  /\ UNCHANGED <<sessVars, workers, seen, sub, run, agg, redisVars, restarts>>

\* The handler answers command c; its subscription closes.
Answer(w, c) ==
  /\ reply' = [reply EXCEPT ![w] = c]
  /\ poll' = [poll EXCEPT ![w] = "off"]
  /\ sub' = [sub EXCEPT ![w] = NoCmd]
  /\ handed' = IF c.kind = "START" THEN handed \cup {<<w, c.run>>} ELSE handed
  /\ UNCHANGED <<sessVars, workers, seen, run, agg, redisVars, restarts>>

PollChannel(w) ==
  /\ poll[w] # "off"
  /\ cmdChan[w] # <<>>
  /\ Answer(w, Head(cmdChan[w]))
  /\ cmdChan' = [cmdChan EXCEPT ![w] = Tail(@)]

PollPubSub(w) ==
  /\ poll[w] = "waiting"
  /\ sub[w] # NoCmd
  /\ Answer(w, sub[w])
  /\ UNCHANGED cmdChan

\* 30 s pass and the handler answers 204.
PollTimeout(w) ==
  /\ poll[w] # "off"
  /\ poll' = [poll EXCEPT ![w] = "off"]
  /\ sub' = [sub EXCEPT ![w] = NoCmd]
  /\ UNCHANGED <<sessVars, poolVars, reply, handed, run, agg, redisVars, restarts>>

\* The connection of the poll breaks: the request context is done and an answer
\* on its way is lost.
PollBroken(w) ==
  /\ w \in Lossy
  /\ poll[w] # "off" \/ reply[w] # NoCmd
  /\ poll' = [poll EXCEPT ![w] = "off"]
  /\ sub' = [sub EXCEPT ![w] = NoCmd]
  /\ reply' = [reply EXCEPT ![w] = NoCmd]
  /\ UNCHANGED <<sessVars, poolVars, handed, run, agg, redisVars, restarts>>

\* The worker reads the answer (environment).
WorkerReads(w) ==
  /\ reply[w] # NoCmd
  /\ reply' = [reply EXCEPT ![w] = NoCmd]
  /\ UNCHANGED <<sessVars, poolVars, poll, sub, handed, run, agg, redisVars, restarts>>

\* Defect: the total is credited, not the difference.
UpdateWorkerHeartbeatTotal(w, sid, total) ==
  /\ seen' = IF w \in workers THEN [seen EXCEPT ![w] = "fresh"] ELSE seen
  /\ IF sid \in Session /\ Known(sid)
       THEN /\ obj' = [obj EXCEPT ![sessions[sid]].orders = @ + total]
            /\ lastReported' = [lastReported EXCEPT ![w][sid] = total]
       ELSE UNCHANGED <<obj, lastReported>>
  /\ UNCHANGED <<sessions, workers, cmdChan, pollVars, run, agg, redisVars, restarts>>

\* A heartbeat of w that names session sid and total orders.
UpdateWorkerHeartbeat(w, sid, total) ==
  /\ seen' = IF w \in workers THEN [seen EXCEPT ![w] = "fresh"] ELSE seen
  /\ IF sid \in Session /\ Known(sid)
       THEN /\ obj' = IF total > lastReported[w][sid]
                 THEN [obj EXCEPT ![sessions[sid]].orders =
                         @ + (total - lastReported[w][sid])]
                 ELSE obj
            /\ lastReported' = [lastReported EXCEPT ![w][sid] = total]
       ELSE UNCHANGED <<obj, lastReported>>
  /\ UNCHANGED <<sessions, workers, cmdChan, pollVars, run, agg, redisVars, restarts>>

\* A heartbeat as the environment may send it, within the bound on credit.
Heartbeat(w, sid, total) ==
  /\ sid \in Session /\ Known(sid) => obj[sessions[sid]].orders + total <= MaxCredit
  /\ UpdateWorkerHeartbeat(w, sid, total)

\* 60 s without poll or heartbeat.  An open poll is at most 30 s old.
Silence(w) ==
  /\ w \in Lossy \cap workers
  /\ poll[w] = "off"
  /\ seen[w] = "fresh"
  /\ seen' = [seen EXCEPT ![w] = "stale"]
  /\ UNCHANGED <<sessVars, workers, cmdChan, pollVars, run, agg, redisVars, restarts>>

\* Defect: the age of LastSeen is not compared with the limit.
TimeoutsAll == workers

\* One tick of reconcileLoop evicts every worker that timed out.
Timeouts == {w \in workers : seen[w] = "stale"}

Reconcile ==
  /\ Timeouts # {}
  /\ workers' = workers \ Timeouts
  /\ cmdChan' = [w \in Worker |-> IF w \in Timeouts THEN <<>> ELSE cmdChan[w]]
  /\ UNCHANGED <<sessVars, seen, pollVars, run, agg, redisVars, restarts>>

-----------------------------------------------------------------------------
(* The copies in Redis, and restarts.                                      *)

\* metricsAggLoop lists the running sessions ...
MetricsTick ==
  /\ agg = {}
  /\ agg' = {s \in Session : StatusOf(s) = "running"}
  /\ UNCHANGED <<sessVars, poolVars, pollVars, run, redisVars, restarts>>

\* ... and later, one at a time, persists each as it is by then, for one hour;
\* a session without metrics, or whose metrics cannot be read, is skipped.
MetricsPersist(s) ==
  /\ s \in agg
  /\ agg' = agg \ {s}
  /\ \/ UNCHANGED redisSession
     \/ /\ s \in Measured
        /\ Known(s)
        /\ redisSession' = [redisSession EXCEPT ![s] =
                              [status |-> StatusOf(s), ttl |-> TRUE]]
  /\ UNCHANGED <<sessVars, poolVars, pollVars, run, sessionMeta, restarts>>

\* Redis drops a key whose hour is over.
RedisExpire(s) ==
  /\ redisSession[s].ttl
  /\ redisSession' = [redisSession EXCEPT ![s] = [status |-> "absent", ttl |-> FALSE]]
  /\ UNCHANGED <<sessVars, poolVars, pollVars, run, agg, sessionMeta, restarts>>

\* Where the goroutine of a run is after the process died.
AfterCrash(pc) ==
  CASE pc = "timer" -> "orphan"
    [] pc \in {"marshal", "persist", "meta", "dispatch"} -> "lost"
    [] OTHER -> pc

\* The process dies and comes back with empty maps; Redis keeps its keys.
Restart ==
  /\ restarts < MaxRestarts
  /\ restarts' = restarts + 1
  /\ sessions' = [s \in Session |-> NoRun]
  /\ lastReported' = [w \in Worker |-> [s \in Session |-> 0]]
  /\ workers' = {}
  /\ seen' = [w \in Worker |-> "fresh"]
  /\ cmdChan' = [w \in Worker |-> <<>>]
  /\ poll' = [w \in Worker |-> "off"]
  /\ sub' = [w \in Worker |-> NoCmd]
  /\ agg' = {}
  /\ run' = [n \in Run |-> [run[n] EXCEPT !.pc = AfterCrash(@)]]
  /\ UNCHANGED <<obj, reply, handed, redisVars>>

-----------------------------------------------------------------------------
RunStep(n) ==
  \/ \E s \in Session, b \in BotCounts : StartSession(n, s, b)
  \/ MarshalSession(n)
  \/ PersistSession(n)
  \/ SaveMeta(n)
  \/ RedisError(n)
  \/ DispatchToWorkers(n)
  \/ DispatchNoWorkers(n)
  \/ AutoStop(n)

PollStep(w) ==
  \/ RegisterWorker(w)
  \/ Subscribe(w)
  \/ PollChannel(w)
  \/ PollPubSub(w)
  \/ PollTimeout(w)
  \/ PollBroken(w)

\* What happens to the service apart from the requests of workers.
ServiceStep ==
  \/ \E n \in Run : RunStep(n)
  \/ \E s \in Session : APIStopSession(s)
  \/ \E w \in Worker : Silence(w)
  \/ Reconcile
  \/ MetricsTick
  \/ \E s \in Session : MetricsPersist(s)
  \/ \E s \in Session : RedisExpire(s)
  \/ Restart

Next ==
  \/ ServiceStep
  \/ \E w \in Worker : PollStep(w)
  \/ \E w \in Worker : WorkerReads(w)
  \/ \E w \in Worker, sid \in Session \cup {NoSession}, t \in OrderTotals :
       Heartbeat(w, sid, t)

Spec == Init /\ [][Next]_vars
-----------------------------------------------------------------------------
(* Fairness: the goroutines of a run go on, for sleeps and Redis calls     *)
(* end.  Nothing is promised of workers, polls, clients, heartbeats,       *)
(* failures or restarts.                                                   *)

RunProgress(n) ==
  \/ MarshalSession(n)
  \/ PersistSession(n) \/ SaveMeta(n) \/ RedisError(n)
  \/ DispatchToWorkers(n) \/ DispatchNoWorkers(n)
  \/ AutoStop(n)

Fairness == \A n \in Run : WF_vars(RunProgress(n))

FairSpec == Spec /\ Fairness

-----------------------------------------------------------------------------
(* Properties.                                                             *)

TimersOf(s) == {n \in Run : run[n].pc = "timer" /\ run[n].sid = s}

\* A running session is always going to be stopped: at least one auto-stop
\* goroutine of dispatchToWorkers sleeps on its behalf, however StartSession,
\* StopSession and restarts of the process interleave.
RunningHasTimer == \A s \in Session : StatusOf(s) = "running" => TimersOf(s) # {}

\* The abstract view: a lease of s is a sleeping auto-stop goroutine.
stBar == [s \in Session |-> StatusOf(s)]
leasesBar == [s \in Session |-> TimersOf(s)]

Lease == INSTANCE SessionLease WITH st <- stBar, leases <- leasesBar

\* Seen from outside, the maps, goroutines, channels and polls of the service do
\* nothing but grant, use up and lose leases, as SessionLease allows.
LeaseSafety == Lease!Spec

Alive(n) == run[n].pc \in {"marshal", "persist", "meta", "dispatch", "timer"}

\* The session map and the goroutines agree: the object under a session id belongs
\* to a run of that session, an object is as StartSession made it until then, and
\* a goroutine that is still to act on its session finds it in the map.  So the
\* nil checks of dispatchToWorkers and of the auto-stop never fire.
MapAgrees ==
  /\ \A s \in Session : Known(s) =>
       run[sessions[s]].pc # "unused" /\ run[sessions[s]].sid = s
  /\ \A n \in Run : run[n].pc = "unused" => obj[n].status = "pending"
  /\ \A n \in Run : Alive(n) => Known(run[n].sid)

\* The scoring service reads team and language from session_meta:<id>: no session
\* runs before StartSession has stored that hash (whether Redis, which may evict any
\* key, still has it is another matter; the orchestrator never reads it).
RunningIsRecorded == \A s \in Session : StatusOf(s) = "running" => s \in sessionMeta

Commands(w) ==
  ({cmdChan[w][i] : i \in 1..Len(cmdChan[w])} \cup {sub[w], reply[w]}) \ {NoCmd}

Assigned(n) == run[n].pc \in {"timer", "stopped", "orphan"}

\* There may be more workers than bots, and then some get a share of 0.
TooFew(n) == run[n].bots < Cardinality(Worker)

\* c, if it is a START, carries the share of w in a session that was split.
Genuine(w, c) ==
  c.kind = "START" =>
    /\ Assigned(c.run)
    /\ c.sid = run[c.run].sid
    /\ c.bots = run[c.run].share[w]
    /\ c.bots > 0 \/ TooFew(c.run)

\* The eviction of silent workers never hits a worker with an open poll: the waiting
\* handler's channel is the one that dispatchToWorkers and StopSession fill.
PollIsRegistered ==
  \A w \in Worker : poll[w] # "off" => w \in workers /\ seen[w] = "fresh"

\* A START on its way to a worker carries that worker's share of a session that
\* dispatchToWorkers split over the registered workers, and a share of 0 only if the
\* bots are fewer than the workers.  So the command that is
\* published when nobody is registered (DispatchNoWorkers) reaches no worker.
StartsAreAssigned ==
  /\ \A w \in Worker : \A c \in Commands(w) : Genuine(w, c)
  /\ \A h \in handed : Assigned(h[2])

\* The bots of a run, each named by its worker and its number there.
BotsOf(n) == {b \in Worker \X (1..run[n].bots) : b[2] <= run[n].share[b[1]]}

\* dispatchToWorkers hands out exactly the bots that were asked for, whatever the
\* number of workers, and as evenly as can be over those it counts.
SharesExact ==
  \A n \in Run : Assigned(n) =>
    LET share == run[n].share IN
    /\ Cardinality(BotsOf(n)) = run[n].bots
    /\ \A w \in Worker : share[w] <= run[n].bots
    /\ \A v, w \in Worker : share[v] > 0 => share[w] <= share[v] + 1

IsStart(c, n) == c # NoCmd /\ c.kind = "START" /\ c.run = n

Queued(w, n) == {i \in 1..Len(cmdChan[w]) : IsStart(cmdChan[w][i], n)}

\* A worker gets the START of a dispatch at most once, although there are two
\* ways to it (the channel and Pub/Sub) and polls are repeated: a second START
\* would replace the bots of the first.
StartAtMostOnce ==
  \A w \in Worker, n \in Run :
    /\ Cardinality(Queued(w, n)) <= 1
    /\ Queued(w, n) # {} => ~IsStart(sub[w], n)
    /\ <<w, n>> \in handed => Queued(w, n) = {} /\ ~IsStart(sub[w], n)

\* Every call of StartSession comes to an end: it fails, finds no worker, dies with
\* the process, or its timer has stopped the session.
RunSettles ==
  \A n \in Run :
    run[n].pc = "marshal" ~> run[n].pc \in {"failed", "unassigned", "lost", "stopped", "orphan"}

\* No session runs for ever, whichever of its runs made it running.
RunningEnds == \A s \in Session : StatusOf(s) = "running" ~> StatusOf(s) # "running"
=============================================================================
