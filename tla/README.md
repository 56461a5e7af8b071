# OrderFurnace: TLA+ models, checks and proofs

OrderFurnace benchmarks trading engines. Contestants upload an engine, it is built and
started, a fleet of bots trades against it, and telemetry is turned into a leaderboard.
The platform is seven Go services that talk over HTTP, Redis and Kafka. This directory
holds TLA+ models of the services that carry state, the TLC runs that check them, and
TLAPS proofs about most of them.

## Inventory

| component | state | operations | hard behaviours |
|---|---|---|---|
| **bot-orchestrator** (`services/bot-orchestrator`) | maps of sessions, workers, command channels and last reports under `o.mu`; copies of sessions in Redis | start/stop session, dispatch, auto-stop, long poll, heartbeat, eviction, metric copies | chains of goroutines around one lock; a stop during the wait for workers; channel replaced at every poll; two delivery paths; restart forgets everything |
| **bot-worker** (`services/bot-worker`) | current session and its context, active bots, per-bot counters; per bot a connection, pending orders, a channel of answers | START, STOP, SpawnBots, bot loops, heartbeat | SpawnBots is asynchronous; heartbeat reads two pieces of state under two locks; a bot's reader and writer wait for each other through the engine |
| **telemetry-service** (`services/telemetry-service`) | order-book mirror per session, batch of rows, counts per session, Kafka offsets | consume, validate, batch and flush, count, publish | two flushers, a lock held through Redis calls, asynchronous commits, redelivery, failed writes |
| **ws-gateway** (`services/ws-gateway`) | map of clients with buffered channels | register, unregister, broadcast, three goroutines per client | closing a channel others send on, slow and vanished clients, two writers on one connection |
| **scoring-service** (`services/scoring-service`) | last `updated_at` per session; scores, sorted set and leaderboard snapshot in Redis | score all sessions every 5 s, serve the leaderboard | skipped updates, boards put together from different moments, two publishers, keys that expire |
| **submission-service** (`services/submission-service`) | tables `teams` and `submissions`, temp files, object store, containers | upload, scan, build, deploy, notify | a chain of effects of which any may fail and most errors are ignored |
| **api-gateway** (`services/api-gateway`) | teams and rate-limit sets in Redis | register, login, limit, proxy | check-then-act, pipelines that interleave, accounts that Redis loses |
| frontend, nginx, SQL, proto, compose | none of their own | | |

How they interact: api-gateway passes uploads to submission-service with the team of the
token; submission-service asks the orchestrator to start a session; workers
poll the orchestrator for START and STOP and send it heartbeats; bots send events to
Kafka; telemetry-service consumes them, writes rows to TimescaleDB and counts to Redis;
scoring-service reads the counts and `session_meta:<id>` and publishes the leaderboard;
ws-gateway forwards both Pub/Sub channels to browsers.

What makes each component correct: the orchestrator must not let a session run for ever
or without its record, must split bots exactly, and must deliver a command at most once
and only to the worker it is for; a worker must trade for one session and fall quiet
after STOP; orders must not be credited twice; the book mirror must know the top of the
book; telemetry must not commit what it has not counted, nor write a row twice; the hub
must not send on a closed channel, nor let one client disturb another, nor keep dead
clients; a bot must report each order once, with the first answer, and end when told; a
team that registered must be able to submit, and "running" must mean deployed; the rate
limiter must neither refuse without cause nor let too many pass; every published second
must be scored, and the leaderboard must come to show the scores.

## Modules

| module | models | lines of source |
|---|---|---|
| `Platform` | what the next two share: sessions, workers, runs | both |
| `Orchestrator` | bot-orchestrator, all operations that change state | `bot-orchestrator/main.go` |
| `SessionLease` | abstract promise about the life of a session | none (specification) |
| `BotWorker` | bot-worker: commands, batches of bots, heartbeats | `bot-worker/main.go` 454-677 |
| `Bot` | one bot, its reader, its connection, the engine; refines `BotWorker` | `bot-worker/main.go` 145-327 |
| `Fleet` | `Orchestrator` and `BotWorker` composed through polls and heartbeats | both |
| `OrderBook` | book mirror and price checks | `telemetry-service/main.go` 30-221 |
| `Telemetry` | consumer, writer, publisher | `telemetry-service/main.go` 223-510 |
| `WsHub` | hub and client goroutines | `ws-gateway/main.go` 26-184 |
| `Teams` | registration of teams | `api-gateway/main.go` 228-268 |
| `Submission` | the way of a submission to a running container | `submission-service/main.go` |
| `Intake` | `Teams` and `Submission` composed through the token | both |
| `RateLimiter` | the sliding window of one team | `api-gateway/main.go` 64-91 |
| `Scoring` | scoring rounds and leaderboard | `scoring-service/main.go` 69-266 |
| `MCOrchestrator`, `MCFleet`, `MCIntake`, `MCRateLimiter` | model-checking parts: symmetry, views | |
| `FleetProofs` | theorems about `Orchestrator`, `BotWorker` and `Fleet` | |
| `ScoringProofs`, `BotProofs`, `TelemetryProofs`, `OrderBookProofs`, `IntakeProofs`, `RateLimiterProofs`, `WsHubProofs` | theorems about the module of that name | |

Operators marked "Defect" in a comment are not part of a specification. Each is a variant
of the operator that follows it, with a bug a programmer could plausibly make, and shows
that some property notices that bug.

### Orchestrator

One call of `StartSession` is a chain of goroutines: the handler, `dispatchToWorkers`, the
auto-stop timer. Each is started by the one before it, so the chain has one program
counter, `run[n].pc`: `marshal`, `persist`, `meta` (the handler), `dispatch` (waiting for
workers and dispatching), `timer` (the auto-stop sleeps), and the ends `stopped`,
`unassigned`, `failed`, `lost` and `orphan` (the last two: the process died before or
after the dispatch). Every critical section of `o.mu` is one action, as is each Redis
call outside it. `obj` holds the session objects and `sessions` the one that the map
refers to, since a second `StartSession` with the same id replaces the object.
`metricsAggLoop` lists sessions in one critical section and copies each in a later one
(`agg`). A long poll is `registered` until Redis has taken up its subscription and
`waiting` from then on; `sub` is the first message of the subscription; `reply` is the
answer on its way to the worker. `handed` is a history variable. In `DispatchToWorkers` each
worker whose channel is full gets its START by a PUBLISH of its own, which may fail by itself.
`sessionMeta` is the set of sessions whose hash was stored: compose lets Redis evict any key
(`allkeys-lru`), but the orchestrator never reads these.

Abstractions: time is a choice (the 10 s wait, the 30 s poll, the 60 s eviction and the
duration of a session end at any moment, except that an open poll is never 60 s old);
URLs, team names and metric values are left out; a Redis PUBLISH reaches subscribers at
once or fails.

### SessionLease and the refinement

`SessionLease` knows only a status per session and a set of leases. The mapping takes
a lease to be a sleeping auto-stop goroutine: `st <- stBar`, `leases <- leasesBar`.
`LeaseSafety` is the abstract specification under this mapping.

### BotWorker and Fleet

A batch is the set of bots of one START: they share a context and a session. `SpawnBots`
waits for `w.mu` as long as it likes. Bots whose context is cancelled may still send an
order before they notice. STOP finds the cancel functions in a map keyed by a bot's
index, where a later batch overwrites an earlier one; the earlier one has been cancelled
by the START of the later, so the model cancels all active bots. A worker that crashes is
not replaced: no deployment file sets `WORKER_ID`, so it returns under a new id, as
another worker. Two constants bound what is modelled: `Reporting` names the workers with a
heartbeat goroutine, `Stalling` the runs whose engine may stop reading from its connections,
which leaves their bots in `WriteMessage` for good.

`Fleet` extends `Orchestrator` and `BotWorker`; to tell the two apart, the initial states, steps
and specification of the latter are called `WorkerInit`, `WorkerNext`, `WorkerSpec`. The worker's
reading of an answer and its handling of the command are one step, a heartbeat is delivered or
lost as it was composed, and a dead worker does not poll.

What the code sums up in a loop is written as the cardinality of a set, so that it can be reasoned
about: `TotalOrdersSent` counts the orders of the active batches (`OrdersOf`), `SharesExact` the
pairs of a worker and one of its bots, `CreditBounded` the orders of the fleet (`SentByFleet`).

### Bot

The unit that `BotWorker` calls a bot. `pc` is the bot's goroutine: `dial`, `select`, `write`
(an order is generated, `WriteMessage` has not returned), `book` (it has, but the order is not
pending yet), `rest` and `post` for REST. `reader` and `held` are the goroutine that reads the
connection, `acks` the channel between the two. The connection is two bounded queues, so
that a reader that stands still is felt by the engine and a silent engine by the bot. The
engine is any program: it answers an order it has received with any status, once, several
times or never, and the connection may break at any moment. `answers` and `reported` are
history variables.

A dial that fails makes the bot go on with REST at the same `ws://` address; every request
is then an error, and the model has it so (`Post`). If no request can be made at all, the
loop sleeps and goes on, and the order is neither counted nor reported. `ImplementsWorker` maps a bot to a
worker with a batch of one: `Life` is the state of the batch. `Stop` is what STOP does to this
bot, whether `SpawnBots` has run or not.

### Teams, Submission and Intake

`Teams` has two steps per registration, `EXISTS` and `HSET`, since Redis keeps nothing locked
in between; errors of both are ignored by the code. Redis may lose accounts: compose starts
it without persistence and with eviction. `overlap` records the names of which two
registrations were between check and store at the same time.

`Submission` follows one upload through one call after the other: `job[s].pc` is `scan`, `team`,
`insert` (the handler), `building` to `end` (the goroutine), or one of the ends `refused`,
`locked_out` (the insert violates the foreign key because the team's row is missing) and
`lost` (the process died). `hurt` says that some call made for the submission failed, so that a
property can say what holds when none did. `docker build` failures are no failures to the
code: they yield an image called mock, which `docker run` cannot start, and `Deploy` still
returns a session. `Deploy` is two steps, `DockerRun` and `DockerPort`; in between, as at any other
moment, the engine may exit (`EngineExits`), and `docker port` then fails like any call may. Its
error is ignored, so the orchestrator is asked for bots at port 8080 (`job[s].port`). `Hanging`
names the submissions whose `docker build` may never return: it has no deadline.

In `Intake` a submission carries the team of a token, or none when it does not come through
the gateway. Callers who reach the service directly and set the identity headers themselves are
not modelled.

### RateLimiter

Redis executes the four commands of a pipeline one by one, and a request is one of `trim`,
`count`, `add`, `expire` until its answer. The set is per team, so one set is enough. Stamps are
made by the gateway before the pipeline is sent; the time to live is Redis's. `before` and
`spanned` are history variables. The one timing assumption is that no pipeline lasts a
whole window (`Tick`): the client's timeout is 3 s, the window 60 s.

### Scoring

Each call to Redis is a step. `scorer` is `RunOnce`, `board[p]` the `publishLeaderboard` of the
ticker or of a request whose `GET` found no snapshot or failed. Telemetry is one action (`Publish`), and
`Second` is its truncation of the time to seconds: two publications may fall into one second
with different values. A record of metrics stands for its composite score.

### OrderBook

Every order has a side, type and price, fixed at the start; events about it come in any
order and any number of times, ACKs up to `MaxAcks`. Levels and their lazily pruned
queues are as in the code, sorting included. `Sort` places each level by its `Rank`, the number of
levels that do not come after it; prices of levels differ, so this is what `sort.Slice` does. An
empty side of asks has the price `NoAsk`, above every other (`math.MaxFloat64`). Prices are
continuous in the code; here they are natural numbers in a unit as fine as need be, and the
`0.001` by which a fill may be off is `Tolerance` of these units.

### Telemetry

Sessions are Kafka keys, so each session is given a partition. The verdict on an event is
a choice (the validator is `OrderBook`'s subject). `cons.pc` follows `Consumer.Run`
through `Add`, an inline `Flush`, the look-up under `p.mu` and the count under `m.mu`;
the ticker's flush and the publisher's round interleave with it. `pub.pc # "idle"` is
`p.mu` held by the publisher. Commits are only marked and reach Kafka later; a restart
begins at the committed offset or, without one, at the end of the log (`StartOffset:
LastOffset`), which `skipped` records. `added` numbers the events given to the writer, so
that `rows` can count the rows of each. A consumer may lose its membership at any time; `Rejoin` has it happen while it waits
for a message, since what is handled meanwhile is handled all the same. A process that found no
database at its start (`tsWriter == nil`), and so writes no rows, is left out.

### WsHub

`casting` and `todo` are a broadcast under the read lock; `Register` and `Unregister` need
it released and keep the next broadcast waiting; a client on its way to either keeps it
waiting from the start, which leaves out the broadcasts that are over before it gets there. A connection is `open`, `silent` (the
peer is gone but nobody knows), `broken` or `closed`. `WriteMessage` has a beginning and
an end: if the write pump and the ping ticker overlap there, the library may panic, and
`died` ends the process. That overlap is real; what is checked is what holds until then.

## Runs

Bounds are named in the `.cfg` files. Times are for two workers on a small machine.

| run | bounds | shows |
|---|---|---|
| `orch_lifecycle` (about 2 min) | 1 worker, 1 session, 2 runs, channel of 1, 1 restart | `TypeOK`; `RunningHasTimer`, `RunningIsRecorded`, `MapAgrees`; refinement of `SessionLease`; liveness `RunSettles`, `RunningEnds`, across a restart. Two runs of one session id are the least that replace an object under a live goroutine; one worker is enough for every branch of these properties, which do not read commands |
| `orch_delivery` (45 s) | `Fleet` with 2 workers, 1 session, 1 run, 1 or 3 bots, channel of 1, no orders, no heartbeats | `StartsAreAssigned`, `StartAtMostOnce`, `PollIsRegistered`, `SharesExact`, `BotsBelongToDispatch`. 3 bots on 2 workers leave a remainder, 1 bot leaves a share of 0, a channel of 1 is soon full; heartbeats and orders touch nothing these properties read, but for the LastSeen that a poll renews as well |
| `bot_worker` (5 s) | 1 worker, 2 sessions, 2 runs, 0 or 1 bots; the engine of the second run may stall | `OneSessionAtATime`; liveness `StopQuiets`. The types of workers are proved and have no run. Workers share nothing, so one is enough |
| `fleet` (about 100 s) | 1 worker, 1 session, 2 runs, 1 order per batch | `CreditBounded` |
| `order_book` (35 to 50 s) | 3 orders, 3 prices, tolerance of 1, 4 ACKs | `TypeOK` (levels sorted, one per price), `BestIsTop`, `FlagsExact`. Of 3 prices two are within the tolerance of the one in the middle, and the outer ones are not within it of each other |
| `telemetry` (30 s) | 1 session, 2 events, batch of 2, 1 failure | `TypeOK`, `CommittedIsCounted`, `RowsExact`, `TotalsGrow`; liveness `EventsCounted`, `CountsPublished`. With redelivery three events are added, so a batch fills and another begins |
| `ws_hub` (about 70 s) | 2 clients, 2 frames, buffer of 1 | `TypeOK`, `NoSendOnClosed`, `FramesComplete`; liveness `DeadClientsLeave` |
| `bot` (about 20 s) | 3 orders, 2 answers to each, room for 1 in `acks` and 1 message in each direction | `AnswersAccounted`; liveness `BotEnds`; refinement `ImplementsWorker`. With queues of 1 all three are full at once while a third order waits; twice the room passes as well |
| `intake` (about 160 s) | 2 registrations of 1 name, 2 submissions, 1 failure, loss or crash; the build of the second submission may hang | `TeamsCanSubmit`, `RunningIsDeployed`; liveness `JobsSettle`. A name can be contested by two registrations and both submit; names share nothing |
| `rate_limiter` (16 s) | 4 requests, limit 2, window of 2 ticks, clock from 1 to 5, 1 failure | `RefusedIsJust`, `LimitExact`. Two windows pass, the set fills beyond the limit and empties, and the key expires |
| `scoring` (about 105 s) | 2 sessions, 2 scores, 1 request beside the ticker, board of 2, 3 publications, 1 failure, expiry or restart | `TypeOK` (boards sorted, no session twice), `MarkedIsScored`; liveness `SecondsScored`, `BoardSettles`. Three publications in half seconds put two into one second |

Symmetry (among runs in `fleet`, among workers in `orch_delivery`, among requests in `rate_limiter`)
is used with safety properties only. Four runs use a VIEW; what a view leaves out makes no difference to any
property of its run, nor to what the successors of a state look like under the view.

- `FleetView` (`fleet`) leaves out the copies in Redis, the list `agg`, the status that was
  marshalled and `handed`; `DeliveryView` (`orch_delivery`) keeps `handed`.
- `LifecycleView` (`orch_lifecycle`) keeps of commands only how many wait, and leaves out `handed`: no
  branch of the orchestrator looks into a command.
- `IntakeView` (`intake`) leaves out the port of a job that is hurt, and whether its engine has
  exited when `RunningIsDeployed` no longer asks.

`orch_lifecycle` and `intake` check liveness as well. That is sound because two states with one view have the
same successors up to the view, and because each step that fairness speaks of changes the program
counter of a run or a job, which the views keep. `CHECK_DEADLOCK FALSE` appears where the system may come to rest:
all bots gone and all workers dead, all events counted, all clients gone or the process
dead, all requests answered, all submissions settled.

### What the properties say, and what they do not

- `AnswersAccounted` holds although an answer can reach the reader before its order is
  pending: the reader only passes it to `select`, which runs after the booking. It also
  says what is lost: the answers after the first, a FILL after an ACK included, are never
  reported, and on a broken connection orders stay pending for ever.
- `StopQuiets` grants an engine that stops reading (`Stalling`) what it gets: its bots are `Stuck`, told to
  stop and blocked in `WriteMessage`. It asks that they are all that remains.
- `BotsBelongToDispatch` spells out the share of 0: when there are fewer bots than workers, a
  worker is sent a START for 0 bots and starts 8 that nobody asked for. In every other case a batch is
  as large as its share.
- `BotEnds` needs an engine that goes on reading. `WriteMessage` has no deadline, so an engine
  that waits for room to answer, while the reader waits for room in `acks`, keeps the bot in
  `write` for ever, and STOP does not reach it. A reader caught on a full `acks` stays for
  ever even then, and the property allows it.
- `TeamsCanSubmit` is as far as "resolve Redis vs Postgres split-brain"
  (`submission-service/main.go:98`) holds. Two registrations of one name at the same time both
  get a token, and a name that Redis lost can be registered anew: in both cases the second
  team's id never gets a row in `teams`, whose name is taken, and each of its submissions is
  refused with a database error.
- `RunningIsDeployed` says that the orchestrator is asked for bots only if `docker run -d` returned success,
  and for the port of that container unless a call failed or the engine had exited: whether the
  engine still runs nobody looks at again. Of rows that say running it has the exceptions the
  code has: a mock image, and a failed `docker run`. The status never becomes anything else after
  that; no code writes `done`.
- `JobsSettle` admits that a build hangs for ever, as it does under `context.Background()`, but not that it
  keeps another submission from ending. It asks nothing of the row of a mock image, for which the code
  writes running.
- `FlagsExact` is exact up to the tolerance: a fill is flagged if and only if a live order on the other
  side is better by more than that.
- `LimitExact` is what remains of "10 per minute" when pipelines interleave: requests that had
  not reached `ZADD` are not counted, so a burst of overlapping requests may pass whole.
  `RefusedIsJust` counts refused requests too, as the code does: a client that keeps asking
  while it is refused stays refused.
- `MarkedIsScored` compares the score and the leaderboard entry of a session with `lastUpdate`, the
  mark that makes `RunOnce` skip a second. The mark is set first, and `SET` and `ZADD` ignore their
  errors: after one failed call the skipped second may be missing in either, for good, hence the
  condition `failures = 0`. Restarts are no exception: they forget the mark, not the score.
- `SecondsScored` is about whole seconds. Metrics published twice in one second may be scored
  by the first value only, and if telemetry stops then, for good; `BoardSettles` is
  therefore about scores, not metrics.
- The sorted set is never trimmed while scores live for two hours, so `Leaders` can name
  sessions without a score, and the board then shows fewer than its 50.

### A disagreement between code and comment

| run | statement | behaviour |
|---|---|---|
| `stop_lost` | "Broadcast STOP to all workers" (`bot-orchestrator/main.go:241`) | a STOP queued between two polls is dropped with the old channel (`StopReachesBots`) |

Others, found while modelling, are visible in the modules without a run of their own:

- "publishing session to Redis for pickup" (`bot-orchestrator/main.go:173-174`): Pub/Sub keeps
  nothing and no worker reads Redis, so a session dispatched to nobody ends `unassigned`
  (`DispatchNoWorkers`); `RunSettles` counts that as an end.
- "Distribute bots evenly across workers" (`:187`): a share of 0 becomes 8 bots in the worker
  (`BotCount`), the exception that `BotsBelongToDispatch` names.
- "Compute delta ... to avoid inflating totals" (`:277`): the first report for a session
  may contain orders of the worker's earlier session. `CreditBounded` says that the orders
  credited to one object never exceed what the fleet has sent in all.

## Fairness

- `Orchestrator`: weak fairness of each chain of goroutines: the Go scheduler runs goroutines that are
  ready, Redis calls time out, timers fire. Nothing is promised of polls, stops by clients,
  heartbeats, silence, eviction, metric copies and restarts.
- `BotWorker`: weak fairness of `SpawnBots`, which only waits for a mutex, and of cancelled bots
  noticing `ctx.Done()`, each one step that stays enabled. The latter is granted only to runs outside `Stalling`,
  those whose engine goes on reading: `WriteMessage` has no deadline, and a bot blocked in it sees
  no context.
- `Fleet`: the above, and live workers handle their answers and poll again. Only the violation
  `stop_lost` uses it, with every engine reading: STOP is lost before any bot hears of it.
- `Telemetry`: the goroutines go on, and the process is restarted (compose restarts it). The
  step that takes `p.mu` has strong fairness, since a waiter of `sync.Mutex` is not starved.
- `Bot`: goroutines go on. `select` picks among ready cases at random, so it sees
  `ctx.Done()` in the end (strong fairness of `SelectDone`). That the engine reads
  (`EngineReads`) is an assumption about a program that is not ours; see above. Answers,
  breaks and stops are not fair.
- `Submission`, `Intake`: the steps of a job are weakly fair (`Certain`), since calls to Postgres, MinIO and
  the docker daemon return; `docker build` of a submission in `Hanging` is not among them. The notifying
  goroutine, crashes and restarts are not fair.
- `Scoring`: scoring rounds and boards under way go on, and the ticker ticks. Requests,
  publications, expiry and restarts are not fair.
- `RateLimiter` has safety properties only.
- `WsHub`: the goroutines go on. A ping ticker whose `done` channel is closed does not choose
  the tick for ever (strong fairness of `PingEnds`): `select` chooses at random. Ticks
  themselves are not required.

## Proofs

The theorems hold for every value of the constants that satisfies the assumptions named below.
Every safety property that a passing run checks is one of them.

### Orchestrator

In `FleetProofs`, under `ConstantsAssumption` (positive channel capacity, natural bounds, finitely
many workers) and `NoCmdAssumption` (`NoCmd` is no command). The lemmas are about `AnyStep`, which is
`Next` with heartbeats of any total, so that they serve the composition as well.

| theorem | statement | argument |
|---|---|---|
| `TypeCorrect` | `Spec => []TypeOK` | inductive as it stands; one lemma per action. The work is in channel capacity, and in `share`, a function of naturals because quotients of naturals are |
| `MapsAgree` | `Spec => []MapAgrees` | inductive with `TypeOK`. It says that objects of unused runs are pending, which `StartSession` needs, and that live goroutines find their session |
| `ImplementsLease` | `Spec => LeaseSafety` | each action maps to a step of `SessionLease` or a stutter, given `TypeOK` and `MapAgrees`: without the latter `DispatchToWorkers` could add a lease to an absent session |
| `RunningIsTimed` | `Spec => []RunningHasTimer` | inductive with the above: the step that ends a timer also ends the session |
| `RunningIsInMeta` | `Spec => []RunningIsRecorded` | strengthened by `MetaSaved`: a run past `meta` has stored its hash, and hashes are never deleted |
| `PollsAreRegistered` | `Spec => []PollIsRegistered` | inductive with `TypeOK`: eviction only takes stale workers, and silence needs a closed poll |
| `OnlySharesDelivered` | `Spec => []StartsAreAssigned` | uses `PollIsRegistered`: when nobody is registered no poll is open, so the broadcast reaches nobody. `NoShare`: a share is 0 only if the bots are fewer than the workers, which is the case the property names (`TooFew`) |
| `GivenOnce` | `Spec => []StartAtMostOnce` | `OnceInv` says it with indices instead of cardinalities and is inductive given the three above: by `StartsAreAssigned` a run that is only now dispatched is in no channel, at no handler and in no history, so the one copy `dispatchToWorkers` makes is the first |
| `SharesAreExact` | `Spec => []SharesExact` | `SharesAddUp`: quotient and remainder, counted as a set of pairs by a bijection with the bots of the session |

### Fleet

Also in `FleetProofs`, under the assumptions of both parts. Each step of the fleet is a step of the
orchestrator, of a worker, or of both (`FleetSteps`), and the invariants of either part are preserved
by the lemmas proved of it alone (`FleetOrcStep`, `WorkersStep`).

| theorem | statement | argument |
|---|---|---|
| `BotsBelong` | `FleetSpec => []BotsBelongToDispatch` | `BotsInv`: the invariants of the two parts and `Given`, which ties them: a worker that has bots of a run was given its START, and has none as long as the START waits to be read. By `GivenOnce` no second START comes to find bots; by `StartsAreAssigned` the one that comes names the share of a dispatch, 0 only when bots are fewer than workers; the default number of bots is then as the property says (`Fits`) |
| `CreditIsBounded` | `FleetSpec => []CreditBounded` | see below |
| `FleetKeepsPromises` | `FleetSpec =>` `LeaseSafety`, `[]` of `RunningHasTimer`, `RunningIsRecorded`, `StartAtMostOnce`, `SharesExact`, `OneSessionAtATime` | from `BotsInv` and the lemmas of the parts |

`CreditBounded` alone is far from inductive. `CreditInv` splits the credit of a session into what
each worker's heartbeats have brought it (`Accounted`: the sum is the cardinality of `Credited(c)`).
A worker has orders in active batches (`TotalOrdersSent`) and in batches that are gone (`Gone`); both grow
except that a STOP or START moves all of the first into the second. The credit of a worker after a
last report of `t` is `Covered` if it is within `Gone`, or `t` is within `TotalOrdersSent` and the credit within
`Gone + t`. The first disjunct absorbs totals that drop, the second makes the next delta count
only orders after the last report. `Backed` says it for the present and for the heartbeat on its
way, whose total was read before the orders or the session changed, and `TotalOnWay` that this
total was once true. TLC checked these parts as invariants of a fleet with 2 orders per batch and a
restart before they were proved.

### BotWorker and Bot

In `FleetProofs` and `BotProofs`, under `BotWorkerAssumption` and `BotAssumption` (natural bounds and counts, positive capacities,
finitely many runs, `NoSession` and `NoRun` outside their sets). They put no bound on `Stalling` or `Reporting`.

| theorem | statement | argument |
|---|---|---|
| `OneSession` | `WorkerSpec => []OneSessionAtATime` | `BatchInv`: the typing without `hb`, and the property for dead workers as well (`OneEverywhere`), which a crash then preserves. START cancels what the context cancels, and by the invariant that is all that is not cancelled yet |
| `WorkerTypesCorrect` | `WorkerSpec => []WorkerTypeOK` | `BatchInv` with `SentFits`, so that the sets of orders are finite and totals natural numbers (`CountTypes`) |
| `BotIsABatch` | `Spec => ImplementsWorker` | `LifeInv`: an order that is generated but not yet counted leaves room below `MaxOrders`, and a bot that has not started is neither cancelled nor active. Each step then maps to one step of `BotWorker` or to a stutter (`WorkerStep`) |
| `AnswersAreAccounted` | `Spec => []AnswersAccounted` | `AnswerInv`. `BookInv`: all orders are pending or reported, and counted, but for the one being sent and those for which no request could be made, which are nowhere. `WireInv`: only what was written arrives. `WayInv(o)`, while `o` has no report: read from `acks` through `held` to `in`, the oldest answer to `o` is the first that the engine gave, and while the connection stands there is one if the engine gave any. `select` takes an answer only when nothing is being booked, so the first answer to reach it is to a pending order: that an answer may overtake the booking does no harm |

### Telemetry and OrderBook

Under `TelemetryAssumption` (a session, a positive batch size, natural bounds) and
`OrderBookAssumption` (positive prices below `NoAsk`).

| theorem | statement | argument |
|---|---|---|
| `TelemetryProofs!TypeCorrect` | `Spec => []TypeOK` | part of `PipelineInv`, as are the next three. `Flow`: the consumer flushes at once when the batch is full, so it never overflows |
| `CommitsAreCounted` | `Spec => []CommittedIsCounted` | `Progress`: what was fetched is handled, but for the event in hand, and so is all below every offset that was committed or only marked; a restart begins at a committed one |
| `RowsAreExact` | `Spec => []RowsExact` | `OnePlace`: the batch, the two batches in flight, the written rows and the dropped events are disjoint, without repetition, and all there is. Counting occurrences follows from it |
| `TotalsOnlyGrow` | `Spec => TotalsGrow` | `Published`: what the publisher has read and not yet written lies between what it wrote last and what is counted |
| `OrderBookProofs!TypeCorrect` | `Spec => []TypeOK` | `Sort` yields a sorted permutation (`Rank` is a bijection when prices differ) |
| `TopIsTrue` | `Spec => []BestIsTop` | `BookInv`: `Fits`, the orders of a level have its price and side, and `Covers`, each live limit order is in a level of its side. The first level with a live order is then the best |
| `VerdictsAreExact` | `Spec => FlagsExact` | from `BookInv`: a live price is better by more than the tolerance exactly if the best one is; for every tolerance, so also one of many price units |

### RateLimiter, Intake and WsHub

Under `RateLimiterAssumption` (finitely many requests, natural limit and bounds, a positive window),
`IntakeAssumption` (natural bound on failures; `NoReg` and `NoName` outside their sets) and
`WsHubAssumption`.

| theorem | statement | argument |
|---|---|---|
| `RateLimiterProofs!TypeCorrect` | `Spec => []TypeOK` | inductive |
| `RefusalsAreJust` | `Spec => []RefusedIsJust` | `LimiterInv`: stamps are not in the future and pipelines in flight are younger than a window (`Timely`); after its trim a request finds nothing older than its window in the set (`Trimmed`); what was recorded within the window of a request in flight is still in the set unless it failed, or spanned a tick (`Kept`); the count is that of a set between the two (`Counted`), and stays so when the answer is given (`Judged`) |
| `LimitIsExact` | `Spec => []LimitExact` | from the same invariant |
| `DeployedOnly` | `Spec => []RunningIsDeployed` | `SettlingInv`: typing and, for each submission, `Settling`: from `docker run`'s success on, the container is among those started, a notifier exists only past that, and it is without the container's port only if `docker port` failed or found no running engine; only the last two steps of the job write "running"; a job that came past `Deploy` with a real image and no failure has its notifier; what a crash interrupts is hurt |
| `OnlyTwinsLockedOut` | `Spec => []TeamsCanSubmit` | `TeamInv` adds `TokensNameTeams` (tokens and rows name finished registrations) and, while nothing has failed, `NamesOverlap`: the account of a finished registration exists, so a second one of the name must have been under way at once, and a team that is missing when its submission is stored lost its name to such a twin |
| `WsHubProofs!TypeCorrect` | `Spec => []TypeOK` | `HubInv` adds `Served`: nobody is to be served outside a broadcast, and inside one there is a frame to send |
| `NeverSendsOnClosed` | `Spec => []NoSendOnClosed` | from `HubInv`: the map holds only clients with open channels |
| `FramesAreComplete` | `Spec => []FramesComplete` | `FrameInv` adds `Ascending` (also for clients that left, and strictly below the frame under way for those still to get it) and `Complete` |

### Scoring

In `ScoringProofs`, under `ScoringAssumption` (sessions finitely many and numbered in the order in
which Redis sorts their ids, positive scores, a leaderboard of at least one entry, natural bounds).

| theorem | statement | argument |
|---|---|---|
| `ScoringProofs!TypeCorrect` | `Spec => []TypeOK` | `SoundData`: what is there to be scored, or on its way to the board, has a value and a second that is not in the future. What a board goes through is bounded by the lemma `LeadersInOrder`: `InOrder` lists the leaders once each, since ranks differ and each rank from 0 on is that of one leader (`LeaderRanks`); the boards themselves are sorted because `Boards` picks the sorted ones, as `sort.Slice` does |
| `MarksAreTrue` | `Spec => []MarkedIsScored` | `Marks`: while a score is stored the mark is its second, and from `SET` to `ZADD` the stored score is the one that comes next on the board. Only then is the property kept by the step that ends the scoring of a session. A key can only expire in a step that counts as a failure; a restart clears the marks |
| `ScoresOnlyAdvance` | `Spec => [][ScoresAdvance]_vars` | `Advancing`: score, what is being scored and metrics follow each other in time. Needed because the mark, which compares for equality only, is lost in a restart: that nothing older comes is due to the metrics. No run checks it; TLC checked it, and the three invariants named here, with 2 failures or restarts before the proof |

### Only model-checked

- Liveness, which needs fairness and ENABLED: `RunSettles`, `RunningEnds`, `StopQuiets`,
  `EventsCounted`, `CountsPublished`, `DeadClientsLeave`, `BotEnds`, `JobsSettle`, `SecondsScored`,
  `BoardSettles`, and the violation of `StopReachesBots`.

## Not modelled

The frontend, SQL, compose files and the unused proto file hold no behaviour to check; the
unique name and the foreign key of the schema, and the Redis options of compose, are in
`Submission` and `Teams`. Inside modelled services: floating-point scores and latency
percentiles, how bots choose orders, the market simulation, what a scan looks for,
Dockerfiles, log lines, read-only handlers, login, the proxied routes that only read, and
the WebSocket proxy of the gateway, which copies messages both ways and keeps nothing.
Also left out: the eviction of `session_meta` by Redis, negative bot counts, which the orchestrator lets pass
(the models start from counts a session can be split into), identity headers set by callers that go around the
gateway, a telemetry process without a database, and WebSocket clients' wait before they queue for the lock.

## Plan

1. Done: all services that keep state, each with its hazards; `Fleet` and `Intake` as compositions;
   `SessionLease` and `BotWorker` as abstractions that `Orchestrator` and `Bot` implement.
2. Compositions left: `Submission`'s `Notify` with `Orchestrator`'s `StartSession`; `Bot` with
   `OrderBook`, to state which fills the validator sees; `Scoring` with `Telemetry`.
3. Done: every safety property of the runs as a theorem. Proofs left: the
   compositions of item 2, each from the invariants of its parts, as `FleetProofs` does it.
