----------------------------- MODULE Telemetry -----------------------------
(***************************************************************************)
(* The pipeline of the telemetry-service: the consumer takes events from   *)
(* Kafka, hands them to the TimescaleDB writer and counts them; the writer *)
(* is flushed by the consumer and by a ticker; the publisher copies the    *)
(* counts to Redis.                                                        *)
(*                                                                         *)
(* Bot workers key their events by session, so a session lies in one       *)
(* partition; here each session has a partition of its own.  The verdict   *)
(* of the validator (module OrderBook) is a choice.  Latencies are left    *)
(* out.  Kafka, TimescaleDB and Redis may fail, MaxFailures times.         *)
(***************************************************************************)
EXTENDS Naturals, Sequences, FiniteSets, SequencesExt

CONSTANTS
  Session,
  BatchCap,     \* size at which Add flushes (5000 in the code)
  MaxLog,       \* bound on the events of a session
  MaxFailures   \* bound on crashes, lost memberships and failed calls

ASSUME TelemetryAssumption ==
  /\ Session # {}
  /\ BatchCap \in Nat \ {0}
  /\ MaxLog \in Nat
  /\ MaxFailures \in Nat

VARIABLES
  \* Kafka
  log,         \* events of each session: "event", or "garbage" that is no JSON
  committed,   \* offset committed for the consumer group, as a set of one, or {}
  marked,      \* offsets given to CommitMessages and not yet sent to Kafka
  pos,         \* number of messages the reader has fetched
  \* the consumer
  up,          \* the process runs
  cons,        \* the consumer goroutine: where it is, and with which message
  \* the writer
  added,       \* number of events given to the writer in this life
  batch,       \* w.batch, as the numbers of its events
  inflight,    \* the batch that each flusher has taken and not yet written
  rows,        \* how many rows each event of this life has in the database
  dropped,     \* events of batches whose CopyFrom failed
  \* the metrics
  counts,      \* SessionMetrics of each session
  pub,         \* the publisher goroutine
  metrics,     \* Redis hash metrics:<id>
  \* history
  counted,     \* events that Record has counted, in any life
  skipped,     \* events that were passed over because no offset was committed
  life, failures

kafkaVars == <<log, committed, marked, pos>>
writerVars == <<added, batch, inflight, rows, dropped>>
metricVars == <<counts, pub, metrics>>
vars == <<kafkaVars, up, cons, writerVars, metricVars, counted, skipped, life, failures>>

Flusher == {"consumer", "ticker"}

Counts == [known : BOOLEAN, total : Nat, violations : Nat]

NoCounts == [known |-> FALSE, total |-> 0, violations |-> 0]

\* life is not part of the hash: it tells which life of the process wrote it.
Sample == [tps : Nat, total : Nat, violations : Nat, life : Nat]

NoSample == [tps |-> 0, total |-> 0, violations |-> 0, life |-> 0]

IdleCons == [pc |-> "fetch", sid |-> CHOOSE s \in Session : TRUE, at |-> 0, bad |-> FALSE]

IdlePub == [pc |-> "idle", todo |-> {}, sid |-> CHOOSE s \in Session : TRUE, seen |-> NoSample]

\* The batch never exceeds the size at which it is flushed.
TypeOK ==
  /\ log \in [Session -> Seq({"event", "garbage"})]
  /\ committed \in [Session -> SUBSET Nat]
  /\ marked \in [Session -> SUBSET Nat]
  /\ pos \in [Session -> Nat]
  /\ up \in BOOLEAN
  /\ cons \in [pc : {"fetch", "validate", "add", "flush", "write", "lookup", "count", "commit"},
               sid : Session, at : Nat, bad : BOOLEAN]
  /\ added \in Nat
  /\ batch \in Seq(Nat) /\ Len(batch) <= BatchCap
  /\ inflight \in [Flusher -> Seq(Nat)]
  /\ rows \in Seq(Nat) /\ Len(rows) = added
  /\ dropped \subseteq Nat
  /\ counts \in [Session -> Counts]
  /\ pub \in [pc : {"idle", "sample", "counts", "hset"}, todo : SUBSET Session,
              sid : Session, seen : Sample]
  /\ metrics \in [Session -> Sample]
  /\ counted \in [Session -> SUBSET Nat]
  /\ skipped \in [Session -> SUBSET Nat]
  /\ life \in Nat
  /\ failures \in 0..MaxFailures

Init ==
  /\ log = [s \in Session |-> <<>>]
  /\ committed = [s \in Session |-> {}]
  /\ marked = [s \in Session |-> {}]
  /\ pos = [s \in Session |-> 0]
  /\ up = FALSE
  /\ cons = IdleCons
  /\ added = 0
  /\ batch = <<>>
  /\ inflight = [f \in Flusher |-> <<>>]
  /\ rows = <<>>
  /\ dropped = {}
  /\ counts = [s \in Session |-> NoCounts]
  /\ pub = IdlePub
  /\ metrics = [s \in Session |-> NoSample]
  /\ counted = [s \in Session |-> {}]
  /\ skipped = [s \in Session |-> {}]
  /\ life = 0
  /\ failures = 0

Fails == failures < MaxFailures /\ failures' = failures + 1

-----------------------------------------------------------------------------
(* Kafka.                                                                  *)

\* A worker's producer appends an event.
Produce(s, e) ==
  /\ Len(log[s]) < MaxLog
  /\ log' = [log EXCEPT ![s] = Append(@, e)]
  /\ UNCHANGED <<committed, marked, pos, up, cons, writerVars, metricVars, counted, skipped,
                 life, failures>>

\* Where the reader (re)starts when offsets are committed: after them, or, with
\* StartOffset LastOffset and none committed, at the end of the log.
StartAt(offsets, s) ==
  IF offsets[s] = {} THEN Len(log[s]) ELSE CHOOSE i \in offsets[s] : TRUE

Join(offsets) ==
  /\ pos' = [s \in Session |-> StartAt(offsets, s)]
  /\ skipped' = [s \in Session |->
       IF offsets[s] = {} THEN skipped[s] \cup 1..Len(log[s]) ELSE skipped[s]]

\* The process starts, with empty memory, and joins the consumer group.
Start ==
  /\ ~up
  /\ up' = TRUE
  /\ Join(committed)
  /\ life' = life + 1
  /\ UNCHANGED <<log, committed, marked, cons, writerVars, metricVars, counted, failures>>

\* The offsets marked so far reach Kafka, once a second (CommitInterval).
CommitFlush(s) ==
  /\ up
  /\ marked[s] # {}
  /\ committed' = [committed EXCEPT ![s] = marked[s]]
  /\ marked' = [marked EXCEPT ![s] = {}]
  /\ UNCHANGED <<log, pos, up, cons, writerVars, metricVars, counted, skipped, life, failures>>

\* The reader loses its membership while it waits for a message, and joins again.
\* Marks not yet sent are sent then, or lost.  (It may also lose it while an event is
\* handled; that is taken to happen before the fetch or after the commit.)
Rejoin ==
  /\ up
  /\ cons.pc = "fetch"
  /\ Fails
  /\ \E sent \in BOOLEAN :
       committed' = [s \in Session |->
         IF sent /\ marked[s] # {} THEN marked[s] ELSE committed[s]]
  /\ marked' = [s \in Session |-> {}]
  /\ Join(committed')
  /\ UNCHANGED <<log, up, cons, writerVars, metricVars, counted, life>>

\* The process dies: batches that no flusher has taken are lost with the counts; the
\* database may or may not have got one that was being written.
Crash ==
  /\ up
  /\ Fails
  /\ up' = FALSE
  /\ marked' = [s \in Session |-> {}]
  /\ cons' = IdleCons
  /\ added' = 0 /\ batch' = <<>> /\ rows' = <<>> /\ dropped' = {}
  /\ inflight' = [f \in Flusher |-> <<>>]
  /\ counts' = [s \in Session |-> NoCounts]
  /\ pub' = IdlePub
  /\ UNCHANGED <<log, committed, pos, metrics, counted, skipped, life>>

-----------------------------------------------------------------------------
(* Consumer.Run.                                                           *)

Step(from, to) ==
  /\ up
  /\ cons.pc = from
  /\ cons' = [cons EXCEPT !.pc = to]

\* Defect: a message is committed as soon as it is fetched.
FetchCommits(s) ==
  /\ up
  /\ cons.pc = "fetch"
  /\ pos[s] < Len(log[s])
  /\ pos' = [pos EXCEPT ![s] = @ + 1]
  /\ marked' = [marked EXCEPT ![s] = {pos'[s]}]
  /\ cons' = [pc |-> IF log[s][pos'[s]] = "garbage" THEN "commit" ELSE "validate",
              sid |-> s, at |-> pos'[s], bad |-> FALSE]
  /\ UNCHANGED <<log, committed, up, writerVars, metricVars, counted, skipped, life, failures>>

\* FetchMessage; a message that cannot be decoded is committed and passed over.
Fetch(s) ==
  /\ up
  /\ cons.pc = "fetch"
  /\ pos[s] < Len(log[s])
  /\ pos' = [pos EXCEPT ![s] = @ + 1]
  /\ cons' = [pc |-> IF log[s][pos'[s]] = "garbage" THEN "commit" ELSE "validate",
              sid |-> s, at |-> pos'[s], bad |-> FALSE]
  /\ UNCHANGED <<log, committed, marked, up, writerVars, metricVars, counted, skipped, life, failures>>

\* Validate gives its verdict, and the event goes on to the writer.
Validate ==
  /\ up
  /\ cons.pc = "validate"
  /\ \E v \in BOOLEAN : cons' = [cons EXCEPT !.pc = "add", !.bad = v]
  /\ UNCHANGED <<kafkaVars, up, writerVars, metricVars, counted, skipped, life, failures>>

\* Defect: the length is read before the append.
AddLate ==
  /\ Step("add", IF Len(batch) >= BatchCap THEN "flush" ELSE "lookup")
  /\ added' = added + 1
  /\ batch' = Append(batch, added')
  /\ rows' = Append(rows, 0)
  /\ UNCHANGED <<kafkaVars, up, inflight, dropped, metricVars, counted, skipped, life, failures>>

\* TSWriter.Add, up to the call of Flush.
Add ==
  /\ Step("add", IF Len(batch) + 1 >= BatchCap THEN "flush" ELSE "lookup")
  /\ added' = added + 1
  /\ batch' = Append(batch, added')
  /\ rows' = Append(rows, 0)
  /\ UNCHANGED <<kafkaVars, up, inflight, dropped, metricVars, counted, skipped, life, failures>>

\* Defect: the batch is emptied after it has been written, not when it is taken.
TakeKeeps(f) ==
  /\ inflight' = [inflight EXCEPT ![f] = batch]
  /\ UNCHANGED batch

\* Flush, under the lock: the flusher takes the batch and leaves an empty one.
Take(f) ==
  /\ inflight' = [inflight EXCEPT ![f] = batch]
  /\ batch' = <<>>

\* Flush, without the lock: CopyFrom writes all rows or none.
Write(f) ==
  /\ inflight[f] # <<>>
  /\ inflight' = [inflight EXCEPT ![f] = <<>>]
  /\ \/ /\ rows' = [i \in 1..added |-> rows[i] + (IF i \in Range(inflight[f]) THEN 1 ELSE 0)]
        /\ UNCHANGED <<dropped, failures>>
     \/ /\ Fails
        /\ dropped' = dropped \cup Range(inflight[f])
        /\ UNCHANGED rows

\* Flush called by Add; the ticker may have emptied the batch meanwhile.
ConsumerTake ==
  /\ Step("flush", IF batch = <<>> THEN "lookup" ELSE "write")
  /\ Take("consumer")
  /\ UNCHANGED <<kafkaVars, up, added, rows, dropped, metricVars, counted, skipped, life, failures>>

ConsumerWrite ==
  /\ Step("write", "lookup")
  /\ Write("consumer")
  /\ UNCHANGED <<kafkaVars, up, added, batch, metricVars, counted, skipped, life>>

\* flushLoop, every 500 ms.
TickerTake ==
  /\ up
  /\ inflight["ticker"] = <<>>
  /\ batch # <<>>
  /\ Take("ticker")
  /\ UNCHANGED <<kafkaVars, up, cons, added, rows, dropped, metricVars, counted, skipped, life, failures>>

TickerWrite ==
  /\ up
  /\ Write("ticker")
  /\ UNCHANGED <<kafkaVars, up, cons, added, batch, metricVars, counted, skipped, life>>

\* Defect: the session's counts are made anew for each event.
RecordLookupAnew ==
  /\ Step("lookup", "count")
  /\ pub.pc = "idle"
  /\ counts' = [counts EXCEPT ![cons.sid] = [NoCounts EXCEPT !.known = TRUE]]
  /\ UNCHANGED <<kafkaVars, up, writerVars, pub, metrics, counted, skipped, life, failures>>

\* MetricsPublisher.Record finds or makes the session's counts under p.mu, which the
\* publisher holds through a whole round of Redis calls ...
RecordLookup ==
  /\ Step("lookup", "count")
  /\ pub.pc = "idle"
  /\ counts' = [counts EXCEPT ![cons.sid].known = TRUE]
  /\ UNCHANGED <<kafkaVars, up, writerVars, pub, metrics, counted, skipped, life, failures>>

\* ... and counts the event under the lock of the session's counts.
RecordCount ==
  /\ Step("count", "commit")
  /\ counts' = [counts EXCEPT ![cons.sid].total = @ + 1,
                              ![cons.sid].violations = @ + (IF cons.bad THEN 1 ELSE 0)]
  /\ counted' = [counted EXCEPT ![cons.sid] = @ \cup {cons.at}]
  /\ UNCHANGED <<kafkaVars, up, writerVars, pub, metrics, skipped, life, failures>>

\* CommitMessages only marks the offset.
Commit ==
  /\ Step("commit", "fetch")
  /\ marked' = [marked EXCEPT ![cons.sid] = {cons.at}]
  /\ UNCHANGED <<log, committed, pos, up, writerVars, metricVars, counted, skipped, life, failures>>

-----------------------------------------------------------------------------
(* publishLoop.                                                            *)

\* A tick: p.mu is taken, to be released after the last session.
PublishBegin ==
  /\ up
  /\ pub.pc = "idle"
  /\ \E s \in Session : counts[s].known
  /\ \E s \in {x \in Session : counts[x].known} :
       pub' = [IdlePub EXCEPT !.pc = "sample", !.sid = s,
                              !.todo = {x \in Session : counts[x].known} \ {s}]
  /\ UNCHANGED <<kafkaVars, up, cons, writerVars, counts, metrics, counted, skipped, life, failures>>

\* TPS reads the total in one critical section of m.mu ...
PublishTPS ==
  /\ up
  /\ pub.pc = "sample"
  /\ pub' = [pub EXCEPT !.pc = "counts", !.seen.tps = counts[pub.sid].total]
  /\ UNCHANGED <<kafkaVars, up, cons, writerVars, counts, metrics, counted, skipped, life, failures>>

\* ... violations and total are read in another, together.
PublishCounts ==
  /\ up
  /\ pub.pc = "counts"
  /\ pub' = [pub EXCEPT !.pc = "hset", !.seen.total = counts[pub.sid].total,
                        !.seen.violations = counts[pub.sid].violations]
  /\ UNCHANGED <<kafkaVars, up, cons, writerVars, counts, metrics, counted, skipped, life, failures>>

\* Defect: p.mu is taken once, outside the loop over the ticks.
NextSessionHolds ==
  {[IdlePub EXCEPT !.pc = "sample", !.sid = s] : s \in {x \in Session : counts[x].known}}

\* Where the round goes on after a session.
NextSession ==
  IF pub.todo = {} THEN {IdlePub}
  ELSE {[IdlePub EXCEPT !.pc = "sample", !.sid = s, !.todo = pub.todo \ {s}] : s \in pub.todo}

\* Defect: the fields are written by HSETNX, so that the first value stays.
PublishHSetNX ==
  /\ up
  /\ pub.pc = "hset"
  /\ pub' \in NextSession
  /\ metrics' = IF metrics[pub.sid] = NoSample
       THEN [metrics EXCEPT ![pub.sid] = [pub.seen EXCEPT !.life = life]] ELSE metrics
  /\ UNCHANGED <<kafkaVars, up, cons, writerVars, counts, counted, skipped, life, failures>>

\* HSET, EXPIRE and PUBLISH of one session; their errors are ignored.
PublishHSet ==
  /\ up
  /\ pub.pc = "hset"
  /\ pub' \in NextSession
  /\ \/ metrics' = [metrics EXCEPT ![pub.sid] = [pub.seen EXCEPT !.life = life]] /\ UNCHANGED failures
     \/ Fails /\ UNCHANGED metrics
  /\ UNCHANGED <<kafkaVars, up, cons, writerVars, counts, counted, skipped, life>>

-----------------------------------------------------------------------------
ConsumerStep ==
  \/ \E s \in Session : Fetch(s)
  \/ Validate \/ Add \/ ConsumerTake \/ ConsumerWrite
  \/ RecordLookup \/ RecordCount \/ Commit

TickerStep == TickerTake \/ TickerWrite

PublisherStep == PublishBegin \/ PublishTPS \/ PublishCounts \/ PublishHSet

Next ==
  \/ \E s \in Session, e \in {"event", "garbage"} : Produce(s, e)
  \/ Start \/ Rejoin \/ Crash
  \/ \E s \in Session : CommitFlush(s)
  \/ ConsumerStep \/ TickerStep \/ PublisherStep

Spec == Init /\ [][Next]_vars

\* The goroutines go on and the process is restarted when it dies.  The consumer needs
\* p.mu, which the publisher keeps releasing, and sync.Mutex starves nobody: strong
\* fairness for the step that takes it.
FairSpec ==
  /\ Spec
  /\ WF_vars(ConsumerStep) /\ SF_vars(RecordLookup)
  /\ WF_vars(TickerStep) /\ WF_vars(PublisherStep) /\ WF_vars(Start)

-----------------------------------------------------------------------------
\* Kafka is never told that an event is done before it has been counted: whatever lies
\* below the committed offset was counted, in this life or an earlier one, or is no
\* event, or was passed over because nothing had been committed yet.
CommittedIsCounted ==
  \A s \in Session : \A c \in committed[s] : \A i \in 1..c :
    log[s][i] = "garbage" \/ i \in counted[s] \/ i \in skipped[s]

Occurrences(i, seq) == Cardinality({k \in 1..Len(seq) : seq[k] = i})

\* Two goroutines flush one batch, but no event is written twice or forgotten: each
\* event given to the writer is waiting, being written, written once, or was in a
\* batch whose write failed.
RowsExact ==
  \A i \in 1..added :
    Occurrences(i, batch) + Occurrences(i, inflight["consumer"])
      + Occurrences(i, inflight["ticker"]) + rows[i]
      + (IF i \in dropped THEN 1 ELSE 0) = 1

\* While the process lives, the published total of a session never goes down: the
\* scoring service never sees a session lose orders.
TotalsGrow ==
  [][\A s \in Session : metrics'[s].life = metrics[s].life =>
       metrics'[s].total >= metrics[s].total]_vars

\* Every event in the log is counted in the end, or passed over as above, although the
\* publisher holds the lock that the consumer needs through its calls to Redis.
EventsCounted ==
  \A s \in Session, i \in 1..MaxLog :
    Len(log[s]) >= i /\ log[s][i] = "event" ~> i \in counted[s] \cup skipped[s]

\* What is counted shows up in Redis, unless the process dies first.
CountsPublished ==
  \A s \in Session, k \in 1..MaxLog :
    counts[s].total >= k ~>
      counts[s].total < k \/ (metrics[s].life = life /\ metrics[s].total >= k)
=============================================================================
