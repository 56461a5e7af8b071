-------------------------- MODULE TelemetryProofs --------------------------
(***************************************************************************)
(* Proofs about Telemetry, for any number of sessions and events, any      *)
(* batch size and any number of failures.                                  *)
(***************************************************************************)
EXTENDS Telemetry, SequenceTheorems, FiniteSetTheorems, TLAPS

-----------------------------------------------------------------------------
(* The inductive invariant, in the parts that its theorems need.           *)

\* The consumer flushes as soon as the batch is full, it holds a batch exactly while it
\* writes, and a dead process does nothing.
Flow ==
  /\ cons.pc # "flush" => Len(batch) < BatchCap
  /\ cons.pc = "write" <=> inflight["consumer"] # <<>>
  /\ ~up => cons.pc = "fetch" /\ pub.pc = "idle"

\* The event is done as far as Kafka is concerned.
Handled(s, i) == log[s][i] = "garbage" \/ i \in counted[s] \/ i \in skipped[s]

\* The consumer has fetched this event and not counted it yet.
InHand(s, i) ==
  /\ cons.pc \in {"validate", "add", "flush", "write", "lookup", "count"}
  /\ cons.sid = s /\ cons.at = i

\* Offsets are handled in order: what was fetched is done, but for the event in hand,
\* and so is all that a committed or marked offset covers.
Progress ==
  /\ \A s \in Session : pos[s] <= Len(log[s])
  /\ \A s \in Session : \A c \in committed[s] \cup marked[s] :
       c <= Len(log[s]) /\ \A i \in 1..c : Handled(s, i)
  /\ up => \A s \in Session : \A i \in 1..pos[s] : Handled(s, i) \/ InHand(s, i)
  /\ cons.pc # "fetch" => cons.at \in 1..pos[cons.sid]

Elems(seq) == {seq[k] : k \in 1..Len(seq)}

Distinct(seq) == \A k, l \in 1..Len(seq) : seq[k] = seq[l] => k = l

Written == {i \in 1..added : rows[i] = 1}

\* The five places of an event are disjoint and cover all events.
Places(n, b, c, t, w, d) ==
  /\ 1..n = b \cup c \cup t \cup w \cup d
  /\ b \cap (c \cup t \cup w \cup d) = {}
  /\ c \cap (t \cup w \cup d) = {}
  /\ t \cap (w \cup d) = {}
  /\ w \cap d = {}

\* An event has one place: the batch, a batch being written, the database, or a batch
\* that was dropped.
OnePlace ==
  /\ \A i \in 1..added : rows[i] \in {0, 1}
  /\ Distinct(batch) /\ \A f \in Flusher : Distinct(inflight[f])
  /\ Places(added, Elems(batch), Elems(inflight["consumer"]), Elems(inflight["ticker"]),
            Written, dropped)

\* What this life of the process has published is no more than it has counted, nor is
\* what it is about to publish less than what it has published.
Published ==
  /\ \A s \in Session : metrics[s].life <= life
  /\ up => \A s \in Session : metrics[s].life = life => metrics[s].total <= counts[s].total
  /\ pub.pc = "hset" =>
       /\ pub.seen.total <= counts[pub.sid].total
       /\ metrics[pub.sid].life = life => metrics[pub.sid].total <= pub.seen.total

-----------------------------------------------------------------------------
(* Types.                                                                  *)

LEMMA IdleType ==
  /\ IdleCons \in [pc : {"fetch", "validate", "add", "flush", "write", "lookup", "count", "commit"},
                   sid : Session, at : Nat, bad : BOOLEAN]
  /\ IdlePub \in [pc : {"idle", "sample", "counts", "hset"}, todo : SUBSET Session,
                  sid : Session, seen : Sample]
  /\ NoCounts \in Counts /\ NoSample \in Sample
  /\ IdleCons.pc = "fetch" /\ IdlePub.pc = "idle"
<1>1. (CHOOSE s \in Session : TRUE) \in Session
  BY TelemetryAssumption
<1>2. NoSample \in Sample /\ NoCounts \in Counts
  BY DEF NoSample, Sample, NoCounts, Counts
<1> QED
  BY <1>1, <1>2 DEF IdleCons, IdlePub

\* The publisher begins with a session of its round.
LEMMA SampleType ==
  ASSUME NEW s \in Session, NEW T \in SUBSET Session
  PROVE  /\ [IdlePub EXCEPT !.pc = "sample", !.sid = s, !.todo = T] \in
              [pc : {"idle", "sample", "counts", "hset"}, todo : SUBSET Session,
               sid : Session, seen : Sample]
         /\ [IdlePub EXCEPT !.pc = "sample", !.sid = s, !.todo = T].pc = "sample"
BY IdleType DEF IdlePub

LEMMA InitType == Init => TypeOK
<1> SUFFICES ASSUME Init PROVE TypeOK
  OBVIOUS
<1>1. /\ 0 \in Nat /\ 0 \in 0..MaxFailures /\ Len(<<>>) = 0 /\ 0 <= BatchCap
      /\ <<>> \in Seq(Nat) /\ <<>> \in Seq({"event", "garbage"})
  BY TelemetryAssumption
<1> QED
  BY <1>1, IdleType DEF Init, TypeOK

\* Joining the group puts the reader behind what the offsets cover, or at the end.
LEMMA JoinType ==
  ASSUME log \in [Session -> Seq({"event", "garbage"})], skipped \in [Session -> SUBSET Nat],
         NEW offsets \in [Session -> SUBSET Nat], Join(offsets)
  PROVE  pos' \in [Session -> Nat] /\ skipped' \in [Session -> SUBSET Nat]
<1>1. \A s \in Session : StartAt(offsets, s) \in Nat
  BY DEF StartAt
<1>2. \A s \in Session : 1..Len(log[s]) \subseteq Nat
  OBVIOUS
<1> QED
  BY <1>1, <1>2 DEF Join

LEMMA FailsType == Fails => failures' \in 0..MaxFailures \/ failures \notin 0..MaxFailures
<1> SUFFICES ASSUME Fails, failures \in 0..MaxFailures PROVE failures' \in 0..MaxFailures
  OBVIOUS
<1> QED BY TelemetryAssumption DEF Fails

\* A flusher writes its batch: one row more for each event of it, or none.
LEMMA WriteType ==
  ASSUME rows \in Seq(Nat), Len(rows) = added, added \in Nat, dropped \subseteq Nat,
         inflight \in [Flusher -> Seq(Nat)], failures \in 0..MaxFailures,
         NEW f \in Flusher, Write(f)
  PROVE  /\ rows' \in Seq(Nat) /\ Len(rows') = added /\ dropped' \subseteq Nat
         /\ inflight' \in [Flusher -> Seq(Nat)] /\ failures' \in 0..MaxFailures
<1>1. inflight' \in [Flusher -> Seq(Nat)]
  BY DEF Write
<1>2. Range(inflight[f]) \subseteq Nat
  BY RangeOfSeq
<1>3. CASE rows' = rows
  BY <1>1, <1>2, <1>3, FailsType DEF Write
<1>4. CASE /\ rows' = [i \in 1..added |-> rows[i] + (IF i \in Range(inflight[f]) THEN 1 ELSE 0)]
           /\ UNCHANGED <<dropped, failures>>
  <2>1. \A i \in 1..added : rows[i] + (IF i \in Range(inflight[f]) THEN 1 ELSE 0) \in Nat
    OBVIOUS
  <2>2. rows' \in [1..added -> Nat]
    BY <1>4, <2>1
  <2>3. rows' \in Seq(Nat) /\ Len(rows') = added
    BY <2>2
  <2> QED BY <1>1, <1>4, <2>3
<1> QED
  BY <1>3, <1>4 DEF Write

LEMMA KafkaType ==
  ASSUME TypeOK,
         \/ \E s \in Session, e \in {"event", "garbage"} : Produce(s, e)
         \/ Start \/ Rejoin \/ Crash
         \/ \E s \in Session : CommitFlush(s)
  PROVE  TypeOK'
<1> USE DEF TypeOK
<1>1. ASSUME NEW s \in Session, NEW e \in {"event", "garbage"}, Produce(s, e) PROVE TypeOK'
  <2>1. Append(log[s], e) \in Seq({"event", "garbage"})
    OBVIOUS
  <2>2. log' \in [Session -> Seq({"event", "garbage"})]
    BY <1>1, <2>1 DEF Produce
  <2> QED BY <1>1, <2>2 DEF Produce, writerVars, metricVars
<1>2. CASE Start
  <2>1. pos' \in [Session -> Nat] /\ skipped' \in [Session -> SUBSET Nat]
    BY <1>2, JoinType DEF Start
  <2> QED BY <1>2, <2>1 DEF Start, writerVars, metricVars
<1>3. CASE Rejoin
  <2>1. committed' \in [Session -> SUBSET Nat]
    BY <1>3 DEF Rejoin
  <2>2. pos' \in [Session -> Nat] /\ skipped' \in [Session -> SUBSET Nat]
    BY <1>3, <2>1, JoinType DEF Rejoin
  <2>3. failures' \in 0..MaxFailures
    BY <1>3, FailsType DEF Rejoin
  <2> QED BY <1>3, <2>1, <2>2, <2>3 DEF Rejoin, writerVars, metricVars
<1>4. CASE Crash
  <2>1. failures' \in 0..MaxFailures
    BY <1>4, FailsType DEF Crash
  <2>2. /\ cons' = IdleCons /\ pub' = IdlePub /\ up' = FALSE
        /\ added' = 0 /\ batch' = <<>> /\ rows' = <<>> /\ dropped' = {}
        /\ inflight' = [f \in Flusher |-> <<>>]
        /\ counts' = [s \in Session |-> NoCounts] /\ marked' = [s \in Session |-> {}]
        /\ UNCHANGED <<log, committed, pos, metrics, counted, skipped, life>>
    BY <1>4 DEF Crash
  <2>3. 0 \in Nat /\ Len(<<>>) = 0 /\ 0 <= BatchCap /\ <<>> \in Seq(Nat)
    BY TelemetryAssumption
  <2> QED BY <2>1, <2>2, <2>3, IdleType
<1>5. ASSUME NEW s \in Session, CommitFlush(s) PROVE TypeOK'
  BY <1>5 DEF CommitFlush, writerVars, metricVars
<1> QED BY <1>1, <1>2, <1>3, <1>4, <1>5

\* The consumer and the ticker; that a batch has room when an event is added is Flow.
LEMMA WriterStepType ==
  ASSUME TypeOK, Flow, ConsumerStep \/ TickerStep
  PROVE  TypeOK'
<1> USE DEF TypeOK
<1>1. ASSUME NEW s \in Session, Fetch(s) PROVE TypeOK'
  <2>1. pos' \in [Session -> Nat] /\ pos'[s] \in Nat
    BY <1>1 DEF Fetch
  <2> QED BY <1>1, <2>1 DEF Fetch, writerVars, metricVars
<1>2. CASE Validate
  BY <1>2 DEF Validate, kafkaVars, writerVars, metricVars
<1>3. CASE Add
  <2>1. added' \in Nat /\ added' = added + 1
    BY <1>3 DEF Add
  <2>2. Len(batch) < BatchCap
    BY <1>3 DEF Add, Step, Flow
  <2>3. /\ Append(batch, added') \in Seq(Nat) /\ Len(Append(batch, added')) = Len(batch) + 1
        /\ Append(rows, 0) \in Seq(Nat) /\ Len(Append(rows, 0)) = Len(rows) + 1
    BY <2>1
  <2>4. Len(batch) \in Nat /\ Len(batch) + 1 <= BatchCap
    BY <2>2, TelemetryAssumption
  <2>5. batch' \in Seq(Nat) /\ Len(batch') <= BatchCap /\ rows' \in Seq(Nat) /\ Len(rows') = added'
    BY <1>3, <2>1, <2>3, <2>4 DEF Add
  <2>6. cons' \in [pc : {"fetch", "validate", "add", "flush", "write", "lookup", "count", "commit"},
                   sid : Session, at : Nat, bad : BOOLEAN]
    BY <1>3 DEF Add, Step
  <2> QED BY <1>3, <2>1, <2>5, <2>6 DEF Add, kafkaVars, metricVars
<1>4. \A f \in Flusher : Take(f) => /\ inflight' \in [Flusher -> Seq(Nat)]
                                    /\ batch' \in Seq(Nat) /\ Len(batch') <= BatchCap
  BY TelemetryAssumption DEF Take
<1>5. "consumer" \in Flusher /\ "ticker" \in Flusher
  BY DEF Flusher
<1>6. CASE ConsumerTake
  <2>1. cons' \in [pc : {"fetch", "validate", "add", "flush", "write", "lookup", "count", "commit"},
                   sid : Session, at : Nat, bad : BOOLEAN]
    BY <1>6 DEF ConsumerTake, Step
  <2> QED BY <1>4, <1>5, <1>6, <2>1 DEF ConsumerTake, kafkaVars, metricVars
<1>7. CASE ConsumerWrite
  <2>1. cons' \in [pc : {"fetch", "validate", "add", "flush", "write", "lookup", "count", "commit"},
                   sid : Session, at : Nat, bad : BOOLEAN]
    BY <1>7 DEF ConsumerWrite, Step
  <2>2. /\ rows' \in Seq(Nat) /\ Len(rows') = added /\ dropped' \subseteq Nat
        /\ inflight' \in [Flusher -> Seq(Nat)] /\ failures' \in 0..MaxFailures
    BY <1>5, <1>7, WriteType DEF ConsumerWrite
  <2> QED BY <1>7, <2>1, <2>2 DEF ConsumerWrite, kafkaVars, metricVars
<1>8. CASE RecordLookup
  <2>1. [counts[cons.sid] EXCEPT !.known = TRUE] \in Counts
    BY DEF Counts
  <2>2. counts' \in [Session -> Counts]
    BY <1>8, <2>1 DEF RecordLookup
  <2> QED BY <1>8, <2>2 DEF RecordLookup, Step, kafkaVars, writerVars
<1>9. CASE RecordCount
  <2> DEFINE d == IF cons.bad THEN 1 ELSE 0
             c == [counts[cons.sid] EXCEPT !.total = @ + 1, !.violations = @ + d]
  <2>1. counts[cons.sid] \in Counts /\ d \in Nat
    OBVIOUS
  <2> HIDE DEF d
  <2>2. c \in Counts
    <3>1. counts[cons.sid].total + 1 \in Nat /\ counts[cons.sid].violations + d \in Nat
      BY <2>1 DEF Counts
    <3> QED BY <2>1, <3>1 DEF Counts
  <2>3. counts' = [counts EXCEPT ![cons.sid] = c]
    BY <1>9 DEF RecordCount, d
  <2> HIDE DEF c
  <2>4. counts' \in [Session -> Counts]
    BY <2>2, <2>3
  <2> QED BY <1>9, <2>4 DEF RecordCount, Step, kafkaVars, writerVars
<1>10. CASE Commit
  BY <1>10 DEF Commit, Step, writerVars, metricVars
<1>11. CASE TickerTake
  BY <1>4, <1>5, <1>11 DEF TickerTake, kafkaVars, metricVars
<1>12. CASE TickerWrite
  <2>1. /\ rows' \in Seq(Nat) /\ Len(rows') = added /\ dropped' \subseteq Nat
        /\ inflight' \in [Flusher -> Seq(Nat)] /\ failures' \in 0..MaxFailures
    BY <1>5, <1>12, WriteType DEF TickerWrite
  <2> QED BY <1>12, <2>1 DEF TickerWrite, kafkaVars, metricVars
<1> QED
  BY <1>1, <1>2, <1>3, <1>6, <1>7, <1>8, <1>9, <1>10, <1>11, <1>12 DEF ConsumerStep, TickerStep

LEMMA PublisherType ==
  ASSUME TypeOK, PublisherStep
  PROVE  TypeOK'
<1> DEFINE PubRec == [pc : {"idle", "sample", "counts", "hset"}, todo : SUBSET Session,
                      sid : Session, seen : Sample]
<1> USE DEF TypeOK
<1>1. CASE PublishBegin
  <2>1. PICK s \in Session : pub' = [IdlePub EXCEPT !.pc = "sample", !.sid = s,
                                       !.todo = {x \in Session : counts[x].known} \ {s}]
    BY <1>1 DEF PublishBegin
  <2>2. {x \in Session : counts[x].known} \ {s} \in SUBSET Session
    OBVIOUS
  <2>3. pub' \in PubRec
    BY <2>1, <2>2, SampleType
  <2> QED BY <1>1, <2>3 DEF PublishBegin, kafkaVars, writerVars
<1>2. CASE PublishTPS
  <2>1. [pub.seen EXCEPT !.tps = counts[pub.sid].total] \in Sample
    BY DEF Sample, Counts
  <2>2. pub' \in PubRec
    BY <1>2, <2>1 DEF PublishTPS
  <2> QED BY <1>2, <2>2 DEF PublishTPS, kafkaVars, writerVars
<1>3. CASE PublishCounts
  <2>1. [pub.seen EXCEPT !.total = counts[pub.sid].total,
                         !.violations = counts[pub.sid].violations] \in Sample
    BY DEF Sample, Counts
  <2>2. pub' \in PubRec
    BY <1>3, <2>1 DEF PublishCounts
  <2> QED BY <1>3, <2>2 DEF PublishCounts, kafkaVars, writerVars
<1>4. CASE PublishHSet
  <2>1. pub' \in PubRec
    <3>1. CASE pub.todo = {}
      BY <1>4, <3>1, IdleType DEF PublishHSet, NextSession
    <3>2. CASE pub.todo # {}
      <4>1. PICK s \in pub.todo : pub' = [IdlePub EXCEPT !.pc = "sample", !.sid = s,
                                            !.todo = pub.todo \ {s}]
        BY <1>4, <3>2 DEF PublishHSet, NextSession
      <4>2. s \in Session /\ pub.todo \ {s} \in SUBSET Session
        OBVIOUS
      <4> QED BY <4>1, <4>2, SampleType
    <3> QED BY <3>1, <3>2
  <2>2. [pub.seen EXCEPT !.life = life] \in Sample
    BY DEF Sample
  <2>3. metrics' \in [Session -> Sample]
    BY <1>4, <2>2 DEF PublishHSet
  <2>4. failures' \in 0..MaxFailures
    BY <1>4, FailsType DEF PublishHSet
  <2> QED BY <1>4, <2>1, <2>3, <2>4 DEF PublishHSet, kafkaVars, writerVars
<1> QED BY <1>1, <1>2, <1>3, <1>4 DEF PublisherStep

LEMMA NextType == TypeOK /\ Flow /\ [Next]_vars => TypeOK'
<1> SUFFICES ASSUME TypeOK, Flow, [Next]_vars PROVE TypeOK'
  OBVIOUS
<1>1. CASE UNCHANGED vars
  BY <1>1 DEF TypeOK, vars, kafkaVars, writerVars, metricVars
<1> QED BY <1>1, KafkaType, WriterStepType, PublisherType DEF Next

-----------------------------------------------------------------------------
(* Flow.                                                                   *)

LEMMA InitFlow == Init => Flow
<1> SUFFICES ASSUME Init PROVE Flow
  OBVIOUS
<1>1. Len(<<>>) = 0 /\ 0 < BatchCap
  BY TelemetryAssumption
<1> QED BY <1>1, IdleType DEF Init, Flow, Flusher

LEMMA NextFlow == TypeOK /\ Flow /\ [Next]_vars => Flow'
<1> SUFFICES ASSUME TypeOK, Flow, [Next]_vars PROVE Flow'
  OBVIOUS
<1> DEFINE ConsRec == [pc : {"fetch", "validate", "add", "flush", "write", "lookup", "count", "commit"},
                       sid : Session, at : Nat, bad : BOOLEAN]
<1>a. cons \in ConsRec /\ inflight \in [Flusher -> Seq(Nat)] /\ Len(batch) \in Nat /\ BatchCap \in Nat
  BY TelemetryAssumption DEF TypeOK
<1>b. Len(<<>>) = 0 /\ 0 < BatchCap
  BY TelemetryAssumption
<1>c. "consumer" \in Flusher /\ "ticker" \in Flusher
  BY DEF Flusher
<1>1. ASSUME UNCHANGED <<up, cons, batch, inflight, pub>> PROVE Flow'
  BY <1>1 DEF Flow
\* Steps of the consumer that stay away from the writer.
<1>2. ASSUME up, UNCHANGED <<batch, inflight, pub, up>>,
             cons.pc \notin {"flush", "write"}, cons'.pc \notin {"flush", "write"}
      PROVE  Flow'
  BY <1>2 DEF Flow
<1>3. CASE UNCHANGED vars
  BY <1>3, <1>1 DEF vars, kafkaVars, writerVars, metricVars
<1>4. ASSUME NEW s \in Session, NEW e \in {"event", "garbage"}, Produce(s, e) PROVE Flow'
  BY <1>4, <1>1 DEF Produce, writerVars, metricVars
<1>5. CASE Start
  BY <1>5 DEF Start, Flow, writerVars, metricVars
<1>6. CASE Rejoin
  BY <1>6, <1>1 DEF Rejoin, writerVars, metricVars
<1>7. CASE Crash
  BY <1>7, <1>b, <1>c, IdleType DEF Crash, Flow
<1>8. ASSUME NEW s \in Session, CommitFlush(s) PROVE Flow'
  BY <1>8, <1>1 DEF CommitFlush, writerVars, metricVars
<1>9. ASSUME NEW s \in Session, Fetch(s) PROVE Flow'
  BY <1>9, <1>2 DEF Fetch, writerVars, metricVars
<1>10. CASE Validate
  BY <1>10, <1>2, <1>a DEF Validate, writerVars, metricVars
<1>11. CASE Add
  <2>1. Len(batch') = Len(batch) + 1 /\ inflight' = inflight /\ pub' = pub /\ up' = up /\ up
    BY <1>11 DEF Add, Step, metricVars, TypeOK
  <2>2. cons.pc = "add" /\ cons'.pc = IF Len(batch) + 1 >= BatchCap THEN "flush" ELSE "lookup"
    BY <1>11, <1>a DEF Add, Step
  <2> QED BY <1>a, <2>1, <2>2 DEF Flow
<1>12. CASE ConsumerTake
  <2>1. batch' = <<>> /\ inflight'["consumer"] = batch
    BY <1>12, <1>a, <1>c DEF ConsumerTake, Take
  <2>2. cons'.pc = IF batch = <<>> THEN "lookup" ELSE "write"
    BY <1>12, <1>a DEF ConsumerTake, Step
  <2> QED BY <1>12, <1>b, <2>1, <2>2 DEF Flow, ConsumerTake, Step, metricVars
<1>13. CASE ConsumerWrite
  <2>1. inflight'["consumer"] = <<>> /\ batch' = batch
    BY <1>13, <1>a, <1>c DEF ConsumerWrite, Write
  <2>2. cons'.pc = "lookup" /\ cons.pc = "write"
    BY <1>13, <1>a DEF ConsumerWrite, Step
  <2> QED BY <1>13, <2>1, <2>2 DEF Flow, ConsumerWrite, Step, metricVars
<1>14. CASE RecordLookup
  BY <1>14, <1>2, <1>a DEF RecordLookup, Step, writerVars
<1>15. CASE RecordCount
  BY <1>15, <1>2, <1>a DEF RecordCount, Step, writerVars
<1>16. CASE Commit
  BY <1>16, <1>2, <1>a DEF Commit, Step, writerVars, metricVars
<1>17. CASE TickerTake
  BY <1>17, <1>a, <1>b, <1>c DEF TickerTake, Take, Flow, metricVars
<1>18. CASE TickerWrite
  BY <1>18, <1>a, <1>c DEF TickerWrite, Write, Flow, metricVars
<1>19. CASE PublisherStep
  BY <1>19 DEF PublisherStep, PublishBegin, PublishTPS, PublishCounts, PublishHSet, Flow, writerVars
<1> QED
  BY <1>3, <1>4, <1>5, <1>6, <1>7, <1>8, <1>9, <1>10, <1>11, <1>12, <1>13, <1>14, <1>15, <1>16,
     <1>17, <1>18, <1>19 DEF Next, ConsumerStep, TickerStep

-----------------------------------------------------------------------------
(* Offsets.                                                                *)

\* Joining the group behind handled offsets leaves only handled messages behind the reader.
LEMMA JoinProgress ==
  ASSUME TypeOK, NEW offsets \in [Session -> SUBSET Nat], Join(offsets),
         UNCHANGED <<log, counted>>,
         \A s \in Session : \A c \in offsets[s] :
           c <= Len(log[s]) /\ \A i \in 1..c : Handled(s, i)
  PROVE  /\ \A s \in Session : pos'[s] <= Len(log'[s])
         /\ \A s \in Session : \A i \in 1..pos'[s] : Handled(s, i)'
         /\ \A s \in Session, i \in Nat : Handled(s, i) => Handled(s, i)'
<1>1. \A s \in Session : skipped[s] \subseteq skipped'[s]
  BY DEF Join
<1>2. \A s \in Session, i \in Nat : Handled(s, i) => Handled(s, i)'
  BY <1>1 DEF Handled
<1>3. ASSUME NEW s \in Session
      PROVE  pos'[s] <= Len(log'[s]) /\ \A i \in 1..pos'[s] : Handled(s, i)'
  <2>1. Len(log[s]) \in Nat /\ log' = log
    BY DEF TypeOK
  <2>2. CASE offsets[s] = {}
    <3>1. pos'[s] = Len(log[s]) /\ 1..Len(log[s]) \subseteq skipped'[s]
      BY <2>2 DEF Join, StartAt
    <3> QED BY <2>1, <3>1 DEF Handled
  <2>3. CASE offsets[s] # {}
    <3>1. pos'[s] \in offsets[s]
      BY <2>3 DEF Join, StartAt
    <3>2. pos'[s] <= Len(log[s]) /\ \A i \in 1..pos'[s] : Handled(s, i)
      BY <3>1
    <3>3. \A i \in 1..pos'[s] : Handled(s, i)'
      BY <1>2, <3>2
    <3> QED BY <2>1, <3>2, <3>3
  <2> QED BY <2>2, <2>3
<1> QED BY <1>2, <1>3

LEMMA InitProgress == Init => Progress
<1> SUFFICES ASSUME Init PROVE Progress
  OBVIOUS
<1> QED BY IdleType DEF Init, Progress

\* A step that forgets nothing and leaves the offsets, the reader and the message in hand
\* alone keeps Progress.
LEMMA ProgressSame ==
  ASSUME TypeOK, Progress, UNCHANGED <<log, committed, marked, pos, up>>,
         \A s \in Session : counted[s] \subseteq counted'[s] /\ skipped[s] \subseteq skipped'[s],
         cons'.at = cons.at, cons'.sid = cons.sid, cons.pc # "fetch",
         \A s \in Session : \A i \in 1..pos[s] : InHand(s, i) => InHand(s, i)' \/ Handled(s, i)'
  PROVE  Progress'
<1>1. \A s \in Session, i \in Nat : Handled(s, i) => Handled(s, i)'
  BY DEF Handled
<1>2. \A s \in Session : pos[s] \in Nat /\ \A c \in committed[s] \cup marked[s] : c \in Nat
  BY DEF TypeOK
<1>3. \A s \in Session : \A c \in committed[s] \cup marked[s] :
        c <= Len(log[s]) /\ \A i \in 1..c : Handled(s, i)'
  BY <1>1, <1>2 DEF Progress
<1>4. up => \A s \in Session : \A i \in 1..pos[s] : Handled(s, i)' \/ InHand(s, i)'
  BY <1>1, <1>2 DEF Progress
<1>5. cons'.at \in 1..pos[cons'.sid]
  BY DEF Progress
<1> QED BY <1>3, <1>4, <1>5 DEF Progress

LEMMA KafkaProgress ==
  ASSUME TypeOK, Flow, Progress,
         \/ \E s \in Session, e \in {"event", "garbage"} : Produce(s, e)
         \/ Start \/ Rejoin \/ Crash
         \/ \E s \in Session : CommitFlush(s)
  PROVE  Progress'
<1>a. /\ log \in [Session -> Seq({"event", "garbage"})] /\ pos \in [Session -> Nat]
      /\ committed \in [Session -> SUBSET Nat] /\ marked \in [Session -> SUBSET Nat]
      /\ \A s \in Session : Len(log[s]) \in Nat
  BY DEF TypeOK
<1>1. ASSUME NEW s \in Session, NEW e \in {"event", "garbage"}, Produce(s, e) PROVE Progress'
  <2>1. /\ log' = [log EXCEPT ![s] = Append(log[s], e)]
        /\ UNCHANGED <<committed, marked, pos, up, cons, counted, skipped>>
    BY <1>1 DEF Produce
  <2>2. /\ Len(Append(log[s], e)) = Len(log[s]) + 1
        /\ \A i \in 1..Len(log[s]) : Append(log[s], e)[i] = log[s][i]
    BY <1>a
  <2>3. \A t \in Session : Len(log[t]) <= Len(log'[t]) /\ Len(log'[t]) \in Nat
    BY <1>a, <2>1, <2>2
  <2>4. \A t \in Session : \A i \in 1..Len(log[t]) : Handled(t, i) => Handled(t, i)'
    <3>1. \A t \in Session : \A i \in 1..Len(log[t]) : log'[t][i] = log[t][i]
      BY <1>a, <2>1, <2>2
    <3> QED BY <2>1, <3>1 DEF Handled
  <2>5. \A t \in Session : pos'[t] <= Len(log'[t])
    BY <1>a, <2>1, <2>3 DEF Progress
  <2>6. \A t \in Session : \A c \in committed'[t] \cup marked'[t] :
          c <= Len(log'[t]) /\ \A i \in 1..c : Handled(t, i)'
    <3> SUFFICES ASSUME NEW t \in Session, NEW c \in committed[t] \cup marked[t]
                 PROVE  c <= Len(log'[t]) /\ \A i \in 1..c : Handled(t, i)'
      BY <2>1
    <3>1. c \in Nat /\ c <= Len(log[t]) /\ \A i \in 1..c : Handled(t, i)
      BY <1>a DEF Progress
    <3>2. \A i \in 1..c : i \in 1..Len(log[t])
      BY <1>a, <3>1
    <3> QED BY <1>a, <2>3, <2>4, <3>1, <3>2
  <2>7. up' => \A t \in Session : \A i \in 1..pos'[t] : Handled(t, i)' \/ InHand(t, i)'
    <3> SUFFICES ASSUME up, NEW t \in Session, NEW i \in 1..pos[t]
                 PROVE  Handled(t, i)' \/ InHand(t, i)'
      BY <2>1
    <3>1. i \in 1..Len(log[t])
      BY <1>a DEF Progress
    <3>2. Handled(t, i) \/ InHand(t, i)
      BY DEF Progress
    <3>3. InHand(t, i) => InHand(t, i)'
      BY <2>1 DEF InHand
    <3> QED BY <2>4, <3>1, <3>2, <3>3
  <2> QED BY <2>1, <2>5, <2>6, <2>7 DEF Progress
<1>2. CASE Start
  <2>1. /\ Join(committed) /\ UNCHANGED <<log, committed, marked, cons, counted>>
        /\ cons.pc = "fetch"
    BY <1>2 DEF Start, Flow
  <2>2. /\ \A s \in Session : pos'[s] <= Len(log'[s])
        /\ \A s \in Session : \A i \in 1..pos'[s] : Handled(s, i)'
        /\ \A s \in Session, i \in Nat : Handled(s, i) => Handled(s, i)'
    BY <1>a, <2>1, JoinProgress DEF Progress
  <2> QED BY <1>a, <2>1, <2>2 DEF Progress
<1>3. CASE Rejoin
  <2>1. PICK sent \in BOOLEAN :
          committed' = [s \in Session |-> IF sent /\ marked[s] # {} THEN marked[s] ELSE committed[s]]
    BY <1>3 DEF Rejoin
  <2>2. committed' \in [Session -> SUBSET Nat]
    BY <1>a, <2>1
  <2>3. \A s \in Session : committed'[s] \subseteq committed[s] \cup marked[s]
    BY <2>1
  <2>4. /\ Join(committed') /\ UNCHANGED <<log, up, cons, counted>>
        /\ cons.pc = "fetch" /\ marked' = [s \in Session |-> {}]
    BY <1>3 DEF Rejoin
  <2>5. \A s \in Session : \A c \in committed'[s] :
          c <= Len(log[s]) /\ \A i \in 1..c : Handled(s, i)
    BY <2>3 DEF Progress
  <2>6. /\ \A s \in Session : pos'[s] <= Len(log'[s])
        /\ \A s \in Session : \A i \in 1..pos'[s] : Handled(s, i)'
        /\ \A s \in Session, i \in Nat : Handled(s, i) => Handled(s, i)'
    BY <2>2, <2>4, <2>5, JoinProgress
  <2>7. \A s \in Session : \A c \in committed'[s] \cup marked'[s] :
          c <= Len(log'[s]) /\ \A i \in 1..c : Handled(s, i)'
    BY <2>2, <2>4, <2>5, <2>6
  <2> QED BY <2>4, <2>6, <2>7 DEF Progress
<1>4. CASE Crash
  <2>1. /\ UNCHANGED <<log, committed, pos, counted, skipped>> /\ ~up'
        /\ marked' = [s \in Session |-> {}] /\ cons'.pc = "fetch"
    BY <1>4, IdleType DEF Crash
  <2> QED BY <2>1 DEF Progress, Handled
<1>5. ASSUME NEW s \in Session, CommitFlush(s) PROVE Progress'
  <2>1. /\ UNCHANGED <<log, pos, up, cons, counted, skipped>>
        /\ \A t \in Session : committed'[t] \cup marked'[t] \subseteq committed[t] \cup marked[t]
    BY <1>5, <1>a DEF CommitFlush
  <2> QED BY <2>1 DEF Progress, Handled, InHand
<1> QED BY <1>1, <1>2, <1>3, <1>4, <1>5

LEMMA ConsumerProgress ==
  ASSUME TypeOK, Flow, Progress, ConsumerStep
  PROVE  Progress'
<1>a. /\ log \in [Session -> Seq({"event", "garbage"})] /\ pos \in [Session -> Nat]
      /\ committed \in [Session -> SUBSET Nat] /\ marked \in [Session -> SUBSET Nat]
      /\ counted \in [Session -> SUBSET Nat]
      /\ \A s \in Session : Len(log[s]) \in Nat
      /\ cons \in [pc : {"fetch", "validate", "add", "flush", "write", "lookup", "count", "commit"},
                   sid : Session, at : Nat, bad : BOOLEAN]
  BY DEF TypeOK
<1>1. ASSUME NEW s \in Session, Fetch(s) PROVE Progress'
  <2>1. /\ cons.pc = "fetch" /\ pos[s] < Len(log[s]) /\ up
        /\ pos' = [pos EXCEPT ![s] = pos[s] + 1] /\ pos'[s] = pos[s] + 1
        /\ cons' = [pc |-> IF log[s][pos'[s]] = "garbage" THEN "commit" ELSE "validate",
                    sid |-> s, at |-> pos'[s], bad |-> FALSE]
        /\ UNCHANGED <<log, committed, marked, up, counted, skipped>>
    BY <1>1, <1>a DEF Fetch
  <2>2. \A t \in Session : \A i \in 1..pos[t] : Handled(t, i)
    BY <2>1 DEF Progress, InHand
  <2>3. \A t \in Session : pos'[t] <= Len(log'[t])
    BY <1>a, <2>1 DEF Progress
  <2>4. ASSUME NEW t \in Session, NEW i \in 1..pos'[t] PROVE Handled(t, i)' \/ InHand(t, i)'
    <3>1. CASE i \in 1..pos[t]
      BY <2>1, <2>2, <3>1 DEF Handled
    <3>2. CASE i \notin 1..pos[t]
      <4>1. t = s /\ i = pos'[s]
        BY <1>a, <2>1, <3>2
      <4>2. CASE log[s][pos'[s]] = "garbage"
        BY <2>1, <4>1, <4>2 DEF Handled
      <4>3. CASE log[s][pos'[s]] # "garbage"
        <5>1. cons'.pc = "validate" /\ cons'.sid = s /\ cons'.at = pos'[s]
          BY <2>1, <4>3
        <5> QED BY <4>1, <5>1 DEF InHand
      <4> QED BY <4>2, <4>3
    <3> QED BY <3>1, <3>2
  <2>5. cons'.at \in 1..pos'[cons'.sid]
    <3>1. pos[s] + 1 \in 1..(pos[s] + 1)
      BY <1>a
    <3> QED BY <2>1, <3>1
  <2>6. \A t \in Session : \A c \in committed'[t] \cup marked'[t] :
          c <= Len(log'[t]) /\ \A i \in 1..c : Handled(t, i)'
    BY <2>1 DEF Progress, Handled
  <2> QED BY <2>3, <2>4, <2>5, <2>6 DEF Progress
<1>2. CASE Validate
  <2>1. cons'.pc = "add" /\ cons'.at = cons.at /\ cons'.sid = cons.sid /\ cons.pc # "fetch"
    BY <1>2, <1>a DEF Validate
  <2> QED BY <1>2, <2>1, ProgressSame DEF Validate, kafkaVars, InHand
<1>3. CASE Add
  <2>1. /\ cons'.pc \in {"flush", "lookup"} /\ cons'.at = cons.at /\ cons'.sid = cons.sid
        /\ cons.pc # "fetch"
    BY <1>3, <1>a DEF Add, Step
  <2> QED BY <1>3, <2>1, ProgressSame DEF Add, kafkaVars, InHand
<1>4. CASE ConsumerTake
  <2>1. /\ cons'.pc \in {"write", "lookup"} /\ cons'.at = cons.at /\ cons'.sid = cons.sid
        /\ cons.pc # "fetch"
    BY <1>4, <1>a DEF ConsumerTake, Step
  <2> QED BY <1>4, <2>1, ProgressSame DEF ConsumerTake, kafkaVars, InHand
<1>5. CASE ConsumerWrite
  <2>1. /\ cons'.pc = "lookup" /\ cons'.at = cons.at /\ cons'.sid = cons.sid
        /\ cons.pc # "fetch"
    BY <1>5, <1>a DEF ConsumerWrite, Step
  <2> QED BY <1>5, <2>1, ProgressSame DEF ConsumerWrite, kafkaVars, InHand
<1>6. CASE RecordLookup
  <2>1. /\ cons'.pc = "count" /\ cons'.at = cons.at /\ cons'.sid = cons.sid
        /\ cons.pc # "fetch"
    BY <1>6, <1>a DEF RecordLookup, Step
  <2> QED BY <1>6, <2>1, ProgressSame DEF RecordLookup, kafkaVars, InHand
<1>7. CASE RecordCount
  <2>1. /\ cons'.pc = "commit" /\ cons'.at = cons.at /\ cons'.sid = cons.sid
        /\ cons.pc # "fetch"
    BY <1>7, <1>a DEF RecordCount, Step
  <2>2. counted' = [counted EXCEPT ![cons.sid] = counted[cons.sid] \cup {cons.at}]
    BY <1>7 DEF RecordCount
  <2>3. cons.at \in counted'[cons.sid] /\ \A s \in Session : counted[s] \subseteq counted'[s]
    BY <1>a, <2>2
  <2>4. \A s \in Session : \A i \in 1..pos[s] : InHand(s, i) => Handled(s, i)'
    BY <2>3 DEF InHand, Handled
  <2> QED BY <1>7, <2>1, <2>3, <2>4, ProgressSame DEF RecordCount, kafkaVars
\* What is marked is behind the message in hand, which is done itself.
<1>8. CASE Commit
  <2>1. /\ cons.pc = "commit" /\ cons'.pc = "fetch" /\ up
        /\ marked' = [marked EXCEPT ![cons.sid] = {cons.at}]
        /\ UNCHANGED <<log, committed, pos, up, counted, skipped>>
    BY <1>8, <1>a DEF Commit, Step
  <2>2. cons.at \in 1..pos[cons.sid] /\ cons.sid \in Session
    BY <1>a, <2>1 DEF Progress
  <2>3. \A s \in Session : \A i \in 1..pos[s] : Handled(s, i)
    BY <2>1 DEF Progress, InHand
  <2>4. ASSUME NEW s \in Session, NEW c \in committed'[s] \cup marked'[s]
        PROVE  c <= Len(log[s]) /\ \A i \in 1..c : Handled(s, i)
    <3>1. CASE c \in committed[s] \cup marked[s]
      BY <3>1 DEF Progress
    <3>2. CASE c \notin committed[s] \cup marked[s]
      <4>1. s = cons.sid /\ c = cons.at
        BY <1>a, <2>1, <3>2
      <4>2. c \in 1..pos[s] /\ pos[s] <= Len(log[s])
        BY <2>2, <4>1 DEF Progress
      <4>3. \A i \in 1..c : i \in 1..pos[s]
        BY <1>a, <4>2
      <4> QED BY <1>a, <2>3, <4>2, <4>3
    <3> QED BY <3>1, <3>2
  <2>5. \A s \in Session : \A c \in committed'[s] \cup marked'[s] :
          c <= Len(log'[s]) /\ \A i \in 1..c : Handled(s, i)'
    BY <2>1, <2>4 DEF Handled
  <2>6. \A s \in Session : \A i \in 1..pos'[s] : Handled(s, i)'
    BY <2>1, <2>3 DEF Handled
  <2> QED BY <2>1, <2>5, <2>6 DEF Progress
<1> QED BY <1>1, <1>2, <1>3, <1>4, <1>5, <1>6, <1>7, <1>8 DEF ConsumerStep

LEMMA NextProgress == TypeOK /\ Flow /\ Progress /\ [Next]_vars => Progress'
<1> SUFFICES ASSUME TypeOK, Flow, Progress, [Next]_vars PROVE Progress'
  OBVIOUS
<1>1. ASSUME UNCHANGED <<log, committed, marked, pos, up, cons, counted, skipped>> PROVE Progress'
  BY <1>1 DEF Progress, Handled, InHand
<1>2. CASE UNCHANGED vars
  BY <1>1, <1>2 DEF vars, kafkaVars
<1>3. CASE TickerStep
  BY <1>1, <1>3 DEF TickerStep, TickerTake, TickerWrite, kafkaVars
<1>4. CASE PublisherStep
  BY <1>1, <1>4 DEF PublisherStep, PublishBegin, PublishTPS, PublishCounts, PublishHSet, kafkaVars
<1> QED BY <1>2, <1>3, <1>4, KafkaProgress, ConsumerProgress DEF Next

LEMMA ProgressImplies == TypeOK /\ Progress => CommittedIsCounted
BY DEF TypeOK, Progress, Handled, CommittedIsCounted

-----------------------------------------------------------------------------
(* The writer.                                                             *)

LEMMA ElemsAppend ==
  ASSUME NEW seq \in Seq(Nat), Distinct(seq), NEW e \in Nat, e \notin Elems(seq)
  PROVE  Distinct(Append(seq, e)) /\ Elems(Append(seq, e)) = Elems(seq) \cup {e}
<1> DEFINE app == Append(seq, e)
<1>1. /\ Len(app) = Len(seq) + 1 /\ Len(seq) \in Nat
      /\ \A k \in 1..Len(seq) : app[k] = seq[k]
      /\ app[Len(seq) + 1] = e
  OBVIOUS
<1> HIDE DEF app
<1>2. \A k \in 1..Len(app) : k \in 1..Len(seq) \/ k = Len(seq) + 1
  BY <1>1
<1>3. Elems(app) = Elems(seq) \cup {e}
  <2>1. \A k \in 1..Len(app) : app[k] \in Elems(seq) \cup {e}
    BY <1>1, <1>2 DEF Elems
  <2>2. \A k \in 1..Len(seq) : k \in 1..Len(app)
    BY <1>1
  <2>3. \A x \in Elems(seq) : x \in Elems(app)
    BY <1>1, <2>2 DEF Elems
  <2>4. Len(seq) + 1 \in 1..Len(app)
    BY <1>1
  <2>5. e \in Elems(app)
    BY <1>1, <2>4 DEF Elems
  <2>6. Elems(app) \subseteq Elems(seq) \cup {e}
    BY <2>1 DEF Elems
  <2> QED BY <2>3, <2>5, <2>6
<1>4. Distinct(app)
  <2> SUFFICES ASSUME NEW k \in 1..Len(app), NEW l \in 1..Len(app), app[k] = app[l]
               PROVE  k = l
    BY DEF Distinct
  <2>1. \A m \in 1..Len(seq) : seq[m] # e
    BY DEF Elems
  <2> QED BY <1>1, <1>2, <2>1 DEF Distinct
<1> QED BY <1>3, <1>4 DEF app

LEMMA ElemsEmpty == Distinct(<<>>) /\ Elems(<<>>) = {}
BY DEF Distinct, Elems

LEMMA ElemsRange == ASSUME NEW seq \in Seq(Nat) PROVE Range(seq) = Elems(seq)
BY RangeEquality DEF Elems

\* How often an event occurs in a sequence without repetitions.
LEMMA OccursOnce ==
  ASSUME NEW seq \in Seq(Nat), Distinct(seq), NEW i
  PROVE  Occurrences(i, seq) = IF i \in Elems(seq) THEN 1 ELSE 0
<1> DEFINE at == {k \in 1..Len(seq) : seq[k] = i}
<1>1. CASE i \in Elems(seq)
  <2>1. PICK k \in 1..Len(seq) : seq[k] = i
    BY <1>1 DEF Elems
  <2>2. at = {k}
    BY <2>1 DEF Distinct
  <2>3. Cardinality({k}) = 1
    BY FS_Singleton
  <2> QED BY <1>1, <2>2, <2>3 DEF Occurrences
<1>2. CASE i \notin Elems(seq)
  <2>1. at = {}
    BY <1>2 DEF Elems
  <2> QED BY <1>2, <2>1, FS_EmptySet DEF Occurrences
<1> QED BY <1>1, <1>2

LEMMA OnePlaceImplies == TypeOK /\ OnePlace => RowsExact
<1> SUFFICES ASSUME TypeOK, OnePlace, NEW i \in 1..added
             PROVE  Occurrences(i, batch) + Occurrences(i, inflight["consumer"])
                      + Occurrences(i, inflight["ticker"]) + rows[i]
                      + (IF i \in dropped THEN 1 ELSE 0) = 1
  BY DEF RowsExact
<1> DEFINE In(S) == IF i \in S THEN 1 ELSE 0
<1>1. /\ Occurrences(i, batch) = In(Elems(batch))
      /\ Occurrences(i, inflight["consumer"]) = In(Elems(inflight["consumer"]))
      /\ Occurrences(i, inflight["ticker"]) = In(Elems(inflight["ticker"]))
  BY OccursOnce DEF TypeOK, OnePlace, Flusher
<1>2. rows[i] = In(Written)
  <2>1. i \in Written <=> rows[i] = 1
    BY DEF Written
  <2>2. rows[i] \in {0, 1}
    BY DEF OnePlace
  <2> QED BY <2>1, <2>2
<1> DEFINE b == Elems(batch)
           c == Elems(inflight["consumer"])
           t == Elems(inflight["ticker"])
<1>3. Places(added, b, c, t, Written, dropped)
  BY DEF OnePlace
<1> HIDE DEF b, c, t
<1>4. \/ i \in b /\ i \notin c /\ i \notin t /\ i \notin Written /\ i \notin dropped
      \/ i \notin b /\ i \in c /\ i \notin t /\ i \notin Written /\ i \notin dropped
      \/ i \notin b /\ i \notin c /\ i \in t /\ i \notin Written /\ i \notin dropped
      \/ i \notin b /\ i \notin c /\ i \notin t /\ i \in Written /\ i \notin dropped
      \/ i \notin b /\ i \notin c /\ i \notin t /\ i \notin Written /\ i \in dropped
  BY <1>3 DEF Places
<1>5. In(b) + In(c) + In(t) + In(Written) + In(dropped) = 1
  BY <1>4
<1> QED BY <1>1, <1>2, <1>5 DEF b, c, t

LEMMA InitOnePlace == Init => OnePlace
<1> SUFFICES ASSUME Init PROVE OnePlace
  OBVIOUS
<1>1. added = 0 /\ 1..0 = {} /\ Written = {} /\ dropped = {}
  BY DEF Init, Written
<1>2. /\ batch = <<>> /\ inflight["consumer"] = <<>> /\ inflight["ticker"] = <<>>
      /\ \A f \in Flusher : inflight[f] = <<>>
  BY DEF Init, Flusher
<1>3. Places(0, {}, {}, {}, {}, {})
  BY <1>1 DEF Places
<1> QED BY <1>1, <1>2, <1>3, ElemsEmpty DEF OnePlace

\* A flusher that has written its batch, or failed to.
LEMMA WritePlace ==
  ASSUME TypeOK, OnePlace, NEW f \in Flusher, Write(f), UNCHANGED <<batch, added>>
  PROVE  OnePlace'
<1> DEFINE e == Elems(inflight[f])
<1>1. /\ inflight \in [Flusher -> Seq(Nat)] /\ rows \in Seq(Nat) /\ Len(rows) = added /\ added \in Nat
      /\ batch \in Seq(Nat) /\ "consumer" \in Flusher /\ "ticker" \in Flusher
      /\ f = "consumer" \/ f = "ticker"
  BY DEF TypeOK, Flusher
<1>2. inflight' = [inflight EXCEPT ![f] = <<>>]
  BY DEF Write
<1>3. Range(inflight[f]) = e
  BY <1>1, ElemsRange
<1>4. Distinct(batch') /\ \A g \in Flusher : Distinct(inflight'[g])
  BY <1>1, <1>2, ElemsEmpty DEF OnePlace
<1>5. /\ Elems(batch') = Elems(batch) /\ added' = added
      /\ Elems(inflight'["consumer"]) =
           IF f = "consumer" THEN {} ELSE Elems(inflight["consumer"])
      /\ Elems(inflight'["ticker"]) = IF f = "ticker" THEN {} ELSE Elems(inflight["ticker"])
  BY <1>1, <1>2, ElemsEmpty
<1> DEFINE b == Elems(batch)
           c == Elems(inflight["consumer"])
           t == Elems(inflight["ticker"])
<1>6. Places(added, b, c, t, Written, dropped)
  BY DEF OnePlace
<1>7. (e = c /\ f = "consumer") \/ (e = t /\ f = "ticker")
  BY <1>1
<1>8. CASE /\ rows' = [i \in 1..added |-> rows[i] + (IF i \in e THEN 1 ELSE 0)]
           /\ UNCHANGED dropped
  <2>1. e \cap Written = {} /\ e \subseteq 1..added
    BY <1>6, <1>7 DEF Places
  <2>2. \A i \in 1..added : /\ rows[i] \in {0, 1}
                            /\ i \in e => rows[i] = 0
                            /\ rows'[i] = rows[i] + (IF i \in e THEN 1 ELSE 0)
    BY <1>8, <2>1 DEF Written, OnePlace
  <2> HIDE DEF e
  <2>3. \A i \in 1..added : rows'[i] \in {0, 1} /\ (rows'[i] = 1 <=> rows[i] = 1 \/ i \in e)
    BY <2>2
  <2>4. Written' = Written \cup e
    BY <1>5, <2>1, <2>3 DEF Written
  <2>5. Places(added, b, IF f = "consumer" THEN {} ELSE c, IF f = "ticker" THEN {} ELSE t,
               Written \cup e, dropped)
    <3> HIDE DEF b, c, t
    <3> QED BY <1>6, <1>7 DEF Places
  <2> QED BY <1>4, <1>5, <1>8, <2>3, <2>4, <2>5 DEF OnePlace
<1>9. CASE dropped' = dropped \cup e /\ UNCHANGED rows
  <2>1. Written' = Written
    BY <1>5, <1>9 DEF Written
  <2> HIDE DEF e
  <2>2. Places(added, b, IF f = "consumer" THEN {} ELSE c, IF f = "ticker" THEN {} ELSE t,
               Written, dropped \cup e)
    <3> HIDE DEF b, c, t
    <3> QED BY <1>6, <1>7 DEF Places
  <2>3. \A i \in 1..added' : rows'[i] \in {0, 1}
    BY <1>5, <1>9 DEF OnePlace
  <2> QED BY <1>4, <1>5, <1>9, <2>1, <2>2, <2>3 DEF OnePlace
<1> QED BY <1>3, <1>8, <1>9 DEF Write

\* A flusher with empty hands takes the batch.
LEMMA TakePlace ==
  ASSUME TypeOK, OnePlace, NEW f \in Flusher, inflight[f] = <<>>, Take(f),
         UNCHANGED <<added, rows, dropped>>
  PROVE  OnePlace'
<1>1. /\ inflight \in [Flusher -> Seq(Nat)] /\ "consumer" \in Flusher /\ "ticker" \in Flusher
      /\ f = "consumer" \/ f = "ticker"
  BY DEF TypeOK, Flusher
<1>2. inflight' = [inflight EXCEPT ![f] = batch] /\ batch' = <<>>
  BY DEF Take
<1> DEFINE b == Elems(batch)
           c == Elems(inflight["consumer"])
           t == Elems(inflight["ticker"])
<1>3. /\ Elems(batch') = {} /\ Written' = Written
      /\ Elems(inflight'["consumer"]) = IF f = "consumer" THEN b ELSE c
      /\ Elems(inflight'["ticker"]) = IF f = "ticker" THEN b ELSE t
      /\ f = "consumer" => c = {}
      /\ f = "ticker" => t = {}
  BY <1>1, <1>2, ElemsEmpty DEF Written
<1>4. Distinct(batch') /\ \A g \in Flusher : Distinct(inflight'[g])
  BY <1>1, <1>2, ElemsEmpty DEF OnePlace
<1>5. Places(added, b, c, t, Written, dropped)
  BY DEF OnePlace
<1>6. Places(added, {}, IF f = "consumer" THEN b ELSE c, IF f = "ticker" THEN b ELSE t,
             Written, dropped)
  <2> HIDE DEF b, c, t
  <2> QED BY <1>1, <1>3, <1>5 DEF Places
<1>7. \A i \in 1..added' : rows'[i] \in {0, 1}
  BY DEF OnePlace
<1> QED BY <1>3, <1>4, <1>6, <1>7 DEF OnePlace

LEMMA AddPlace ==
  ASSUME TypeOK, OnePlace, Add
  PROVE  OnePlace'
<1> DEFINE b == Elems(batch)
           c == Elems(inflight["consumer"])
           t == Elems(inflight["ticker"])
<1>1. /\ batch \in Seq(Nat) /\ rows \in Seq(Nat) /\ Len(rows) = added /\ added \in Nat
  BY DEF TypeOK
<1>2. /\ added' = added + 1 /\ batch' = Append(batch, added + 1) /\ rows' = Append(rows, 0)
      /\ UNCHANGED <<inflight, dropped>>
  BY DEF Add
<1>3. Places(added, b, c, t, Written, dropped)
  BY DEF OnePlace
<1>4. 1..(added + 1) = 1..added \cup {added + 1} /\ added + 1 \notin 1..added /\ added + 1 \in Nat
  BY <1>1
<1>5. Distinct(batch') /\ Elems(batch') = b \cup {added + 1}
  <2>1. added + 1 \notin b
    BY <1>3, <1>4 DEF Places
  <2> QED BY <1>1, <1>2, <1>4, <2>1, ElemsAppend DEF OnePlace
<1>6. (\A i \in 1..added : rows'[i] = rows[i]) /\ rows'[added + 1] = 0
  BY <1>1, <1>2
<1>7. \A i \in 1..added' : rows'[i] \in {0, 1}
  BY <1>2, <1>4, <1>6 DEF OnePlace
<1>8. Written' = Written
  <2>1. Written' = {i \in 1..(added + 1) : rows'[i] = 1}
    BY <1>2 DEF Written
  <2>2. \A i : i \in 1..(added + 1) <=> i \in 1..added \/ i = added + 1
    BY <1>4
  <2>3. \A i : i \in Written' <=> i \in Written
    BY <1>6, <2>1, <2>2 DEF Written
  <2> QED BY <2>3
<1>9. Places(added + 1, b \cup {added + 1}, c, t, Written, dropped)
  <2> HIDE DEF b, c, t
  <2> QED BY <1>3, <1>4 DEF Places
<1>10. \A f \in Flusher : Distinct(inflight'[f])
  BY <1>2 DEF OnePlace
<1> QED BY <1>2, <1>5, <1>7, <1>8, <1>9, <1>10 DEF OnePlace

LEMMA NextOnePlace == TypeOK /\ Flow /\ OnePlace /\ [Next]_vars => OnePlace'
<1> SUFFICES ASSUME TypeOK, Flow, OnePlace, [Next]_vars PROVE OnePlace'
  OBVIOUS
<1>1. ASSUME UNCHANGED writerVars PROVE OnePlace'
  BY <1>1 DEF OnePlace, Written, writerVars
<1>2. CASE UNCHANGED vars
  BY <1>1, <1>2 DEF vars
<1>3. ASSUME NEW s \in Session, NEW e \in {"event", "garbage"}, Produce(s, e) PROVE OnePlace'
  BY <1>1, <1>3 DEF Produce
<1>4. CASE Start \/ Rejoin
  BY <1>1, <1>4 DEF Start, Rejoin
<1>5. CASE Crash
  <2>1. /\ added' = 0 /\ batch' = <<>> /\ dropped' = {} /\ 1..0 = {}
        /\ inflight' = [f \in Flusher |-> <<>>]
    BY <1>5 DEF Crash
  <2>2. Written' = {} /\ \A f \in Flusher : inflight'[f] = <<>>
    BY <2>1 DEF Written
  <2>3. inflight'["consumer"] = <<>> /\ inflight'["ticker"] = <<>>
    BY <2>2 DEF Flusher
  <2>4. Places(0, {}, {}, {}, {}, {})
    BY <2>1 DEF Places
  <2> QED BY <2>1, <2>2, <2>3, <2>4, ElemsEmpty DEF OnePlace
<1>6. ASSUME NEW s \in Session, CommitFlush(s) \/ Fetch(s) PROVE OnePlace'
  BY <1>1, <1>6 DEF CommitFlush, Fetch
<1>7. CASE Validate \/ RecordLookup \/ RecordCount \/ Commit
  BY <1>1, <1>7 DEF Validate, RecordLookup, RecordCount, Commit
<1>8. CASE ConsumerTake
  <2>1. inflight["consumer"] = <<>>
    BY <1>8 DEF ConsumerTake, Step, Flow
  <2> QED BY <1>8, <2>1, TakePlace DEF ConsumerTake, Flusher
<1>9. CASE ConsumerWrite
  BY <1>9, WritePlace DEF ConsumerWrite, Flusher
<1>10. CASE TickerTake
  BY <1>10, TakePlace DEF TickerTake, Flusher
<1>11. CASE TickerWrite
  BY <1>11, WritePlace DEF TickerWrite, Flusher
<1>12. CASE PublisherStep
  BY <1>1, <1>12 DEF PublisherStep, PublishBegin, PublishTPS, PublishCounts, PublishHSet
<1> QED
  BY <1>2, <1>3, <1>4, <1>5, <1>6, <1>7, <1>8, <1>9, <1>10, <1>11, <1>12, AddPlace
  DEF Next, ConsumerStep, TickerStep

-----------------------------------------------------------------------------
(* The published counts.                                                   *)

LEMMA InitPublished == Init => Published
<1> SUFFICES ASSUME Init PROVE Published
  OBVIOUS
<1>1. 0 <= 0
  OBVIOUS
<1> QED BY <1>1, IdleType DEF Init, Published, NoSample

\* Counts that only grow, while nothing is published, keep Published.
LEMMA CountsGrow ==
  ASSUME TypeOK, Published, UNCHANGED <<up, life, metrics, pub>>,
         counts' \in [Session -> Counts],
         \A s \in Session : counts[s].total <= counts'[s].total
  PROVE  Published'
<1>1. \A s \in Session : /\ counts[s].total \in Nat /\ counts'[s].total \in Nat
                         /\ metrics[s].total \in Nat
  BY DEF TypeOK, Counts, Sample
<1>2. pub.sid \in Session /\ pub.seen.total \in Nat
  BY DEF TypeOK, Sample
<1>3. up' => \A s \in Session : metrics'[s].life = life' => metrics'[s].total <= counts'[s].total
  BY <1>1 DEF Published
<1>4. pub'.pc = "hset" =>
        /\ pub'.seen.total <= counts'[pub'.sid].total
        /\ metrics'[pub'.sid].life = life' => metrics'[pub'.sid].total <= pub'.seen.total
  BY <1>1, <1>2 DEF Published
<1> QED BY <1>3, <1>4 DEF Published

LEMMA NextPublished == TypeOK /\ TypeOK' /\ Flow /\ Published /\ [Next]_vars => Published'
<1> SUFFICES ASSUME TypeOK, TypeOK', Flow, Published, [Next]_vars PROVE Published'
  OBVIOUS
<1>1. ASSUME UNCHANGED <<up, life, metrics, pub, counts>> PROVE Published'
  BY <1>1 DEF Published
<1>2. CASE UNCHANGED vars
  BY <1>1, <1>2 DEF vars, metricVars
<1>3. ASSUME NEW s \in Session, NEW e \in {"event", "garbage"}, Produce(s, e) PROVE Published'
  BY <1>1, <1>3 DEF Produce, metricVars
<1>4. CASE Start
  <2>1. /\ life' = life + 1 /\ UNCHANGED <<metrics, pub, counts>> /\ pub.pc = "idle"
    BY <1>4 DEF Start, Flow, metricVars
  <2>2. life \in Nat /\ \A s \in Session : metrics[s].life \in Nat
    BY DEF TypeOK, Sample
  <2>3. \A s \in Session : metrics'[s].life <= life' /\ metrics'[s].life # life'
    BY <2>1, <2>2 DEF Published
  <2> QED BY <2>1, <2>3 DEF Published
<1>5. CASE Rejoin
  BY <1>1, <1>5 DEF Rejoin, metricVars
<1>6. CASE Crash
  BY <1>6, IdleType DEF Crash, Published
<1>7. ASSUME NEW s \in Session, CommitFlush(s) \/ Fetch(s) PROVE Published'
  BY <1>1, <1>7 DEF CommitFlush, Fetch, metricVars
<1>8. CASE Validate \/ Add \/ ConsumerTake \/ ConsumerWrite \/ Commit
  BY <1>1, <1>8 DEF Validate, Add, ConsumerTake, ConsumerWrite, Commit, Step, metricVars
<1>9. CASE RecordLookup
  <2>1. counts' = [counts EXCEPT ![cons.sid].known = TRUE] /\ UNCHANGED <<up, life, metrics, pub>>
    BY <1>9 DEF RecordLookup, Step
  <2>2. counts \in [Session -> Counts] /\ counts' \in [Session -> Counts]
    BY DEF TypeOK
  <2>3. \A s \in Session : counts[s].total \in Nat /\ counts'[s].total = counts[s].total
    BY <2>1, <2>2 DEF Counts
  <2>4. \A s \in Session : counts[s].total <= counts'[s].total
    BY <2>3
  <2> QED BY <2>1, <2>2, <2>4, CountsGrow
<1>10. CASE RecordCount
  <2>1. /\ counts' = [counts EXCEPT ![cons.sid].total = @ + 1,
                                    ![cons.sid].violations = @ + (IF cons.bad THEN 1 ELSE 0)]
        /\ UNCHANGED <<up, life, metrics, pub>>
    BY <1>10 DEF RecordCount, Step
  <2>2. counts \in [Session -> Counts] /\ counts' \in [Session -> Counts]
    BY DEF TypeOK
  <2>3. \A s \in Session : /\ counts[s].total \in Nat
                           /\ counts'[s].total \in {counts[s].total, counts[s].total + 1}
    BY <2>1, <2>2 DEF Counts
  <2>4. \A s \in Session : counts[s].total <= counts'[s].total
    BY <2>3
  <2> QED BY <2>1, <2>2, <2>4, CountsGrow
<1>11. CASE TickerStep
  BY <1>1, <1>11 DEF TickerStep, TickerTake, TickerWrite, metricVars
<1>12. CASE PublishBegin
  <2>1. UNCHANGED <<up, life, metrics, counts>>
    BY <1>12 DEF PublishBegin
  <2>2. PICK s \in Session : pub' = [IdlePub EXCEPT !.pc = "sample", !.sid = s,
                                       !.todo = {x \in Session : counts[x].known} \ {s}]
    BY <1>12 DEF PublishBegin
  <2>3. {x \in Session : counts[x].known} \ {s} \in SUBSET Session
    OBVIOUS
  <2>4. pub'.pc = "sample"
    BY <2>2, <2>3, SampleType
  <2> QED BY <2>1, <2>4 DEF Published
<1>13. CASE PublishTPS
  <2>1. UNCHANGED <<up, life, metrics, counts>> /\ pub'.pc = "counts"
    BY <1>13 DEF PublishTPS, TypeOK
  <2> QED BY <2>1 DEF Published
\* What the publisher reads is at least what it has published in this life.
<1>14. CASE PublishCounts
  <2>1. /\ UNCHANGED <<up, life, metrics, counts>> /\ up /\ pub'.sid = pub.sid
        /\ pub'.seen.total = counts[pub.sid].total
    BY <1>14 DEF PublishCounts, TypeOK, Sample
  <2>2. pub.sid \in Session /\ counts[pub.sid].total \in Nat
    BY DEF TypeOK, Counts
  <2> QED BY <2>1, <2>2 DEF Published
<1>15. CASE PublishHSet
  <2>1. UNCHANGED <<up, life, counts>> /\ up /\ pub.pc = "hset" /\ pub.sid \in Session
    BY <1>15 DEF PublishHSet, TypeOK
  <2>2. pub'.pc # "hset"
    <3>1. CASE pub.todo = {}
      BY <1>15, <3>1, IdleType DEF PublishHSet, NextSession
    <3>2. CASE pub.todo # {}
      <4>1. PICK s \in pub.todo : pub' = [IdlePub EXCEPT !.pc = "sample", !.sid = s,
                                            !.todo = pub.todo \ {s}]
        BY <1>15, <3>2 DEF PublishHSet, NextSession
      <4>2. s \in Session /\ pub.todo \ {s} \in SUBSET Session
        BY DEF TypeOK
      <4> QED BY <4>1, <4>2, SampleType
    <3> QED BY <3>1, <3>2
  <2>3. CASE UNCHANGED metrics
    BY <2>1, <2>2, <2>3 DEF Published
  <2>4. CASE metrics' = [metrics EXCEPT ![pub.sid] = [pub.seen EXCEPT !.life = life]]
    <3> DEFINE new == [pub.seen EXCEPT !.life = life]
    <3>1. new.life = life /\ new.total = pub.seen.total
      BY DEF TypeOK, Sample
    <3> HIDE DEF new
    <3>2. \A s \in Session : metrics'[s] = IF s = pub.sid THEN new ELSE metrics[s]
      BY <2>4 DEF TypeOK, new
    <3>3. life \in Nat /\ pub.seen.total <= counts[pub.sid].total
      BY <2>1 DEF TypeOK, Published
    <3>4. \A s \in Session : metrics'[s].life <= life
      BY <3>1, <3>2, <3>3 DEF Published
    <3>5. \A s \in Session : metrics'[s].life = life => metrics'[s].total <= counts[s].total
      BY <2>1, <3>1, <3>2, <3>3 DEF Published
    <3> QED BY <2>1, <2>2, <3>4, <3>5 DEF Published
  <2> QED BY <1>15, <2>3, <2>4 DEF PublishHSet
<1> QED
  BY <1>2, <1>3, <1>4, <1>5, <1>6, <1>7, <1>8, <1>9, <1>10, <1>11, <1>12, <1>13, <1>14, <1>15
  DEF Next, ConsumerStep, PublisherStep

\* Published says why a sample that replaces another of the same life is not below it.
LEMMA PublishGrows ==
  ASSUME TypeOK, Flow, Published, [Next]_vars, NEW s \in Session, metrics'[s].life = metrics[s].life
  PROVE  metrics'[s].total >= metrics[s].total
<1>1. metrics[s].total \in Nat /\ pub.seen.total \in Nat /\ pub.sid \in Session
  BY DEF TypeOK, Sample
<1>2. CASE UNCHANGED metrics
  BY <1>1, <1>2
<1>3. CASE /\ PublishHSet
           /\ metrics' = [metrics EXCEPT ![pub.sid] = [pub.seen EXCEPT !.life = life]]
  <2> DEFINE new == [pub.seen EXCEPT !.life = life]
  <2>1. new.life = life /\ new.total = pub.seen.total
    BY DEF TypeOK, Sample
  <2> HIDE DEF new
  <2>2. metrics'[s] = IF s = pub.sid THEN new ELSE metrics[s]
    BY <1>3 DEF TypeOK, new
  <2>3. pub.pc = "hset"
    BY <1>3 DEF PublishHSet
  <2> QED BY <1>1, <2>1, <2>2, <2>3 DEF Published
<1>4. UNCHANGED metrics \/ PublishHSet
  BY DEF Next, vars, metricVars, Produce, Start, Rejoin, Crash, CommitFlush, ConsumerStep, Fetch,
     Validate, Add, ConsumerTake, ConsumerWrite, RecordLookup, RecordCount, Commit, TickerStep,
     TickerTake, TickerWrite, PublisherStep, PublishBegin, PublishTPS, PublishCounts
<1> QED BY <1>2, <1>3, <1>4 DEF PublishHSet

-----------------------------------------------------------------------------
(* The theorems.                                                           *)

PipelineInv == TypeOK /\ Flow /\ Progress /\ OnePlace /\ Published

LEMMA PipelineInvariant == Spec => []PipelineInv
<1>1. Init => PipelineInv
  BY InitType, InitFlow, InitProgress, InitOnePlace, InitPublished DEF PipelineInv
<1>2. PipelineInv /\ [Next]_vars => PipelineInv'
  BY NextType, NextFlow, NextProgress, NextOnePlace, NextPublished DEF PipelineInv
<1> QED BY <1>1, <1>2, PTL DEF Spec

\* The pipeline's state keeps its shape, and the writer's batch never exceeds its size.
THEOREM TypeCorrect == Spec => []TypeOK
<1>1. PipelineInv => TypeOK
  BY DEF PipelineInv
<1> QED BY <1>1, PipelineInvariant, PTL

\* No event below the offset that Kafka has is left uncounted, however often the process
\* dies, loses its membership or commits late.
THEOREM CommitsAreCounted == Spec => []CommittedIsCounted
<1>1. PipelineInv => CommittedIsCounted
  BY ProgressImplies DEF PipelineInv
<1> QED BY <1>1, PipelineInvariant, PTL

\* The two flushers write no event twice and forget none.
THEOREM RowsAreExact == Spec => []RowsExact
<1>1. PipelineInv => RowsExact
  BY OnePlaceImplies DEF PipelineInv
<1> QED BY <1>1, PipelineInvariant, PTL

\* The totals in Redis grow as long as one process writes them.
THEOREM TotalsOnlyGrow == Spec => TotalsGrow
<1>1. PipelineInv /\ [Next]_vars =>
        [\A s \in Session : metrics'[s].life = metrics[s].life =>
           metrics'[s].total >= metrics[s].total]_vars
  BY PublishGrows DEF PipelineInv
<1> QED BY <1>1, PipelineInvariant, PTL DEF Spec, TotalsGrow
=============================================================================
