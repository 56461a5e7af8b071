---------------------------- MODULE FleetProofs ----------------------------
(***************************************************************************)
(* Proofs about Orchestrator and BotWorker, each alone and both in Fleet,  *)
(* for any number of sessions, workers and calls of StartSession and any   *)
(* channel capacity: types; the life of sessions, by a refinement of       *)
(* SessionLease; the delivery of commands; the bots that come of it, their *)
(* sessions and the credit for their orders.                               *)
(***************************************************************************)
EXTENDS Fleet, FiniteSetTheorems, TLAPS

-----------------------------------------------------------------------------
(* The steps of the service with any workers.                              *)

\* As Next, but heartbeats report any totals.
AnyStep ==
  \/ ServiceStep
  \/ \E w \in Worker : PollStep(w)
  \/ \E w \in Worker : WorkerReads(w)
  \/ \E w \in Worker, sid \in Session \cup {NoSession}, t \in Nat :
       UpdateWorkerHeartbeat(w, sid, t)

LEMMA NextIsAny == [Next]_vars => [AnyStep]_vars
BY ConstantsAssumption DEF Next, AnyStep, Heartbeat

-----------------------------------------------------------------------------
(* Lemmas about the operators of the model.                                *)

\* What dispatchToWorkers gives each of a non-empty set of workers is a number.
LEMMA ShareType ==
  ASSUME NEW W \in SUBSET Worker, W # {}, NEW b \in Nat, NEW extra, NEW w
  PROVE  Share(b, W, extra, w) \in Nat
<1>1. IsFiniteSet(W)
  BY FS_Subset, ConstantsAssumption
<1>2. Cardinality(W) \in Nat \ {0}
  BY <1>1, FS_CardinalityType, FS_EmptySet
<1>3. b \div Cardinality(W) \in Nat
  BY <1>2
<1> QED
  BY <1>3 DEF Share

\* Appending a command to a channel that is not full keeps it within its capacity.
LEMMA AppendFits ==
  ASSUME TypeOK, NEW w \in Worker, NEW c \in Cmd, ~Full(w)
  PROVE  /\ Append(cmdChan[w], c) \in Seq(Cmd)
         /\ Len(Append(cmdChan[w], c)) <= ChanCap
BY ConstantsAssumption DEF TypeOK, Full

\* Publishing a command leaves a handler with a command or nothing.
LEMMA PublishType ==
  ASSUME TypeOK, NEW w \in Worker, NEW c \in Cmd, NEW up
  PROVE  Publish(up, w, c) \in Cmd \cup {NoCmd}
BY DEF TypeOK, Publish

\* Changing the status of a session object, or its order count, keeps it one.
LEMMA SetStatusType ==
  ASSUME obj \in [Run -> SessionRec], NEW m \in Run, NEW st \in Status \ {"absent"}
  PROVE  [obj EXCEPT ![m].status = st] \in [Run -> SessionRec]
BY DEF SessionRec

LEMMA CreditType ==
  ASSUME obj \in [Run -> SessionRec], NEW m \in Run, NEW d \in Nat
  PROVE  [obj EXCEPT ![m].orders = @ + d] \in [Run -> SessionRec]
BY DEF SessionRec

\* So do the changes of a run's record.
LEMMA ToTimerType ==
  ASSUME run \in [Run -> RunRec], NEW n \in Run, NEW sh \in [Worker -> Nat],
         NEW r, r = [run EXCEPT ![n].pc = "timer", ![n].share = sh]
  PROVE  r \in [Run -> RunRec] /\ \A m \in Run :
           r[m].sid = run[m].sid /\ (m # n => r[m].pc = run[m].pc)
BY DEF RunRec, PC

LEMMA SetPcType ==
  ASSUME TypeOK, NEW n \in Run, run[n].pc # "unused",
         NEW pc \in PC, NEW r, r = [run EXCEPT ![n].pc = pc]
  PROVE  r \in [Run -> RunRec] /\ \A m \in Run :
           r[m].pc # "unused" => r[m].sid \in Session
BY DEF TypeOK, RunRec

LEMMA NewRunType ==
  ASSUME TypeOK, NEW n \in Run, NEW s \in Session, NEW b \in Nat,
         NEW r, r = [run EXCEPT ![n].pc = "marshal", ![n].sid = s, ![n].bots = b]
  PROVE  r \in [Run -> RunRec] /\ \A m \in Run :
           r[m].pc # "unused" => r[m].sid \in Session
<1>1. run \in [Run -> RunRec] /\ run[n] \in RunRec
  BY DEF TypeOK
<1>2. r[n] = [pc |-> "marshal", sid |-> s, bots |-> b, copy |-> run[n].copy,
              share |-> run[n].share]
  BY <1>1 DEF RunRec
<1>3. r[n] \in RunRec
  BY <1>1, <1>2 DEF RunRec, PC
<1>4. r \in [Run -> RunRec] /\ \A m \in Run : m # n => r[m] = run[m]
  BY <1>1, <1>3
<1> QED
  BY <1>2, <1>4 DEF TypeOK

LEMMA SetCopyType ==
  ASSUME TypeOK, NEW n \in Run, run[n].pc # "unused", NEW st \in Status,
         NEW r, r = [run EXCEPT ![n].pc = "persist", ![n].copy = st]
  PROVE  r \in [Run -> RunRec] /\ \A m \in Run :
           r[m].pc # "unused" => r[m].sid \in Session
<1>1. run \in [Run -> RunRec] /\ run[n] \in RunRec
  BY DEF TypeOK
<1>2. r[n] = [pc |-> "persist", sid |-> run[n].sid, bots |-> run[n].bots,
              copy |-> st, share |-> run[n].share]
  BY <1>1 DEF RunRec
<1>3. r[n] \in RunRec
  BY <1>1, <1>2 DEF RunRec, PC
<1>4. r \in [Run -> RunRec] /\ \A m \in Run : m # n => r[m] = run[m]
  BY <1>1, <1>3
<1> QED
  BY <1>2, <1>4 DEF TypeOK

LEMMA CmdRun ==
  ASSUME NEW c \in Cmd, c.kind = "START"
  PROVE  c.run \in Run
BY DEF Cmd

LEMMA StopCmdType ==
  ASSUME NEW s \in Session
  PROVE  StopCmd(s) \in Cmd
BY DEF StopCmd, Cmd

LEMMA StartCmdType ==
  ASSUME TypeOK, NEW n \in Run, run[n].sid \in Session, NEW b \in Nat
  PROVE  StartCmd(n, b) \in Cmd
BY DEF TypeOK, StartCmd, Cmd

-----------------------------------------------------------------------------
(* Type correctness, one lemma per kind of step.                           *)

LEMMA InitType == Init => TypeOK
BY ConstantsAssumption DEF Init, TypeOK, Pending, SessionRec, RunRec, RedisRec, PC, Status

LEMMA StopSessionType ==
  ASSUME TypeOK, NEW s \in Session, StopSession(s)
  PROVE  /\ obj' \in [Run -> SessionRec]
         /\ cmdChan' \in [Worker -> Seq(Cmd)]
         /\ \A w \in Worker : Len(cmdChan'[w]) <= ChanCap
         /\ sub' \in [Worker -> Cmd \cup {NoCmd}]
<1>1. obj' \in [Run -> SessionRec]
  BY SetStatusType DEF StopSession, TypeOK, Known, Status
<1>2. \A w \in Worker : /\ cmdChan'[w] \in Seq(Cmd)
                        /\ Len(cmdChan'[w]) <= ChanCap
  <2> TAKE w \in Worker
  <2>1. CASE Known(s) /\ w \in workers /\ ~Full(w)
    BY <2>1, AppendFits, StopCmdType DEF StopSession
  <2>2. CASE ~(Known(s) /\ w \in workers /\ ~Full(w))
    BY <2>2 DEF StopSession, TypeOK
  <2> QED
    BY <2>1, <2>2
<1>3. cmdChan' \in [Worker -> Seq(Cmd)]
  BY <1>2 DEF StopSession
<1>4. sub' \in [Worker -> Cmd \cup {NoCmd}]
  <2> PICK up \in BOOLEAN : sub' =
        [w \in Worker |-> IF Known(s) THEN Publish(up, w, StopCmd(s)) ELSE sub[w]]
    BY DEF StopSession
  <2>1. \A w \in Worker : sub'[w] \in Cmd \cup {NoCmd}
    BY PublishType, StopCmdType DEF TypeOK
  <2> QED
    BY <2>1
<1> QED
  BY <1>1, <1>2, <1>3, <1>4

LEMMA DispatchType ==
  ASSUME TypeOK, NEW n \in Run, DispatchToWorkers(n)
  PROVE  TypeOK'
<1> PICK extra \in SUBSET workers, up \in SUBSET workers : DispatchToWorkers(n)!3!(extra, up)
  BY DEF DispatchToWorkers
<1> DEFINE b == run[n].bots
           s == run[n].sid
           c(w) == StartCmd(n, Share(b, workers, extra, w))
<1>1. s \in Session /\ b \in Nat
  BY DEF TypeOK, DispatchToWorkers, RunRec
<1>2. workers \in SUBSET Worker /\ workers # {}
  BY DEF TypeOK, DispatchToWorkers
<1>3. \A w \in Worker : Share(b, workers, extra, w) \in Nat
  BY <1>1, <1>2, ShareType
<1>4. \A w \in Worker : c(w) \in Cmd
  BY <1>1, <1>3, StartCmdType
<1>5. \A w \in Worker : cmdChan'[w] \in Seq(Cmd) /\ Len(cmdChan'[w]) <= ChanCap
  <2> TAKE w \in Worker
  <2>1. CASE w \in workers /\ ~Full(w)
    BY <2>1, <1>4, AppendFits
  <2>2. CASE ~(w \in workers /\ ~Full(w))
    BY <2>2 DEF TypeOK
  <2> QED
    BY <2>1, <2>2
<1>6. cmdChan' \in [Worker -> Seq(Cmd)]
  BY <1>5
<1>7. \A w \in Worker : sub'[w] \in Cmd \cup {NoCmd}
  BY <1>4, PublishType DEF TypeOK
<1>8. sub' \in [Worker -> Cmd \cup {NoCmd}]
  BY <1>7
<1>9. obj' \in [Run -> SessionRec]
  BY <1>1, SetStatusType DEF TypeOK, Known, Status
<1> DEFINE sh == [w \in Worker |->
                    IF w \in workers THEN Share(b, workers, extra, w) ELSE 0]
<1>12. sh \in [Worker -> Nat]
  BY <1>3
<1>13. run' = [run EXCEPT ![n].pc = "timer", ![n].share = sh]
  OBVIOUS
<1> HIDE DEF sh
<1>10. run' \in [Run -> RunRec]
  BY <1>12, <1>13, ToTimerType DEF TypeOK
<1>11. \A m \in Run : run'[m].pc # "unused" => run'[m].sid \in Session
  BY <1>1, <1>12, <1>13, ToTimerType DEF TypeOK
<1> QED
  BY <1>5, <1>6, <1>8, <1>9, <1>10, <1>11 DEF TypeOK, DispatchToWorkers, redisVars

LEMMA RunStepType ==
  ASSUME TypeOK, NEW n \in Run, RunStep(n)
  PROVE  TypeOK'
<1> USE DEF sessVars, poolVars, pollVars, redisVars
<1>1. ASSUME NEW s \in Session, NEW b \in BotCounts, StartSession(n, s, b)
      PROVE  TypeOK'
  <2>1. run' \in [Run -> RunRec] /\ \A m \in Run :
          run'[m].pc # "unused" => run'[m].sid \in Session
    BY <1>1, ConstantsAssumption, NewRunType DEF TypeOK, StartSession
  <2> QED
    BY <1>1, <2>1 DEF TypeOK, StartSession
<1>2. ASSUME MarshalSession(n) PROVE TypeOK'
  <2>1. obj[n].status \in Status
    BY DEF TypeOK, SessionRec
  <2>2. run' \in [Run -> RunRec] /\ \A m \in Run :
          run'[m].pc # "unused" => run'[m].sid \in Session
    BY <1>2, <2>1, SetCopyType DEF TypeOK, MarshalSession
  <2> QED
    BY <1>2, <2>2 DEF TypeOK, MarshalSession
<1>3. ASSUME PersistSession(n) PROVE TypeOK'
  <2>1. run' = [run EXCEPT ![n].pc = "meta"] /\ run[n].pc # "unused"
    BY <1>3 DEF PersistSession
  <2>2. [status |-> run[n].copy, ttl |-> FALSE] \in RedisRec
    BY DEF TypeOK, RunRec, RedisRec
  <2>3. redisSession' \in [Session -> RedisRec]
    BY <1>3, <2>2 DEF TypeOK, PersistSession
  <2> QED
    BY <1>3, <2>1, <2>3, SetPcType DEF TypeOK, PersistSession, PC
<1>4. ASSUME SaveMeta(n) PROVE TypeOK'
  <2>1. run' = [run EXCEPT ![n].pc = "dispatch"] /\ run[n].pc # "unused"
    BY <1>4 DEF SaveMeta
  <2> QED
    BY <1>4, <2>1, SetPcType DEF TypeOK, SaveMeta, PC
<1>5. ASSUME RedisError(n) PROVE TypeOK'
  <2>1. run' = [run EXCEPT ![n].pc = "failed"] /\ run[n].pc # "unused"
    BY <1>5 DEF RedisError
  <2> QED
    BY <1>5, <2>1, SetPcType DEF TypeOK, RedisError, PC
<1>6. ASSUME DispatchNoWorkers(n) PROVE TypeOK'
  <2>1. run' = [run EXCEPT ![n].pc = "unassigned"] /\ run[n].pc # "unused"
    BY <1>6 DEF DispatchNoWorkers
  <2>2. StartCmd(n, run[n].bots) \in Cmd
    BY <2>1, StartCmdType DEF TypeOK, RunRec
  <2>3. PICK up \in BOOLEAN :
          sub' = [w \in Worker |-> Publish(up, w, StartCmd(n, run[n].bots))]
    BY <1>6 DEF DispatchNoWorkers
  <2>4. sub' \in [Worker -> Cmd \cup {NoCmd}]
    BY <2>2, <2>3, PublishType
  <2> QED
    BY <1>6, <2>1, <2>4, SetPcType DEF TypeOK, DispatchNoWorkers, PC
<1>7. ASSUME AutoStop(n) PROVE TypeOK'
  <2>1. run' = [run EXCEPT ![n].pc = "stopped"] /\ run[n].pc # "unused"
    BY <1>7 DEF AutoStop
  <2>2. run[n].sid \in Session /\ StopSession(run[n].sid)
    BY <1>7, <2>1 DEF TypeOK, AutoStop
  <2>3. run' \in [Run -> RunRec] /\ \A m \in Run :
          run'[m].pc # "unused" => run'[m].sid \in Session
    BY <2>1, SetPcType DEF TypeOK, PC
  <2> QED
    BY <2>2, <2>3, StopSessionType DEF TypeOK, StopSession
<1> QED
  BY <1>1, <1>2, <1>3, <1>4, <1>5, <1>6, <1>7, DispatchType DEF RunStep

LEMMA PollStepType ==
  ASSUME TypeOK, NEW w \in Worker, PollStep(w)
  PROVE  TypeOK'
<1> USE DEF sessVars, poolVars, redisVars
<1>1. CASE RegisterWorker(w)
  BY <1>1, ConstantsAssumption DEF TypeOK, RegisterWorker
<1>2. CASE Subscribe(w)
  BY <1>2 DEF TypeOK, Subscribe
<1>3. ASSUME NEW c \in Cmd, Answer(w, c), cmdChan' \in [Worker -> Seq(Cmd)],
             \A v \in Worker : Len(cmdChan'[v]) <= ChanCap
      PROVE  TypeOK'
  BY <1>3, CmdRun DEF TypeOK, Answer
<1>4. CASE PollChannel(w)
  <2>1. /\ cmdChan[w] \in Seq(Cmd) /\ cmdChan[w] # <<>>
        /\ Len(cmdChan[w]) <= ChanCap
    BY <1>4 DEF TypeOK, PollChannel
  <2>2. /\ Head(cmdChan[w]) \in Cmd /\ Tail(cmdChan[w]) \in Seq(Cmd)
        /\ Len(Tail(cmdChan[w])) <= ChanCap
    BY <2>1, ConstantsAssumption
  <2>3. /\ cmdChan' \in [Worker -> Seq(Cmd)]
        /\ \A v \in Worker : Len(cmdChan'[v]) <= ChanCap
    BY <1>4, <2>2 DEF TypeOK, PollChannel
  <2> QED
    BY <1>4, <1>3, <2>2, <2>3 DEF PollChannel
<1>5. CASE PollPubSub(w)
  BY <1>5, <1>3 DEF TypeOK, PollPubSub
<1>6. CASE PollTimeout(w)
  BY <1>6 DEF TypeOK, PollTimeout
<1>7. CASE PollBroken(w)
  BY <1>7 DEF TypeOK, PollBroken
<1> QED
  BY <1>1, <1>2, <1>4, <1>5, <1>6, <1>7 DEF PollStep

LEMMA CrashType ==
  ASSUME TypeOK, Restart
  PROVE  TypeOK'
<1>1. \A n \in Run : /\ [run[n] EXCEPT !.pc = AfterCrash(@)] \in RunRec
                     /\ AfterCrash(run[n].pc) # "unused" => run[n].pc # "unused"
  <2> TAKE n \in Run
  <2>1. run[n] \in RunRec
    BY DEF TypeOK
  <2>2. run[n].pc \in PC
    BY <2>1 DEF RunRec
  <2>3. /\ AfterCrash(run[n].pc) \in PC
        /\ AfterCrash(run[n].pc) # "unused" => run[n].pc # "unused"
    BY <2>2 DEF AfterCrash, PC
  <2> HIDE DEF AfterCrash
  <2> QED
    BY <2>1, <2>3 DEF RunRec
<1>2. run' \in [Run -> RunRec]
  BY <1>1 DEF Restart
<1>3. \A n \in Run : run'[n].pc # "unused" => run'[n].sid \in Session
  BY <1>1 DEF Restart, TypeOK, RunRec
<1>4. /\ sessions' \in [Session -> Run \cup {NoRun}]
      /\ lastReported' \in [Worker -> [Session -> Nat]]
      /\ workers' \subseteq Worker
      /\ seen' \in [Worker -> {"fresh", "stale"}]
      /\ poll' \in [Worker -> {"off", "registered", "waiting"}]
      /\ sub' \in [Worker -> Cmd \cup {NoCmd}]
      /\ agg' \subseteq Session
      /\ restarts' \in Nat
  BY DEF TypeOK, Restart
<1>5. /\ cmdChan' \in [Worker -> Seq(Cmd)]
      /\ \A w \in Worker : Len(cmdChan'[w]) <= ChanCap
  BY ConstantsAssumption DEF Restart
<1>6. UNCHANGED <<obj, reply, handed, redisSession, sessionMeta>>
  BY DEF Restart, redisVars
<1> QED
  BY <1>2, <1>3, <1>4, <1>5, <1>6 DEF TypeOK

LEMMA HeartbeatType ==
  ASSUME TypeOK, NEW w \in Worker, NEW sid \in Session \cup {NoSession},
         NEW t \in Nat, UpdateWorkerHeartbeat(w, sid, t)
  PROVE  TypeOK'
<1> USE DEF pollVars, redisVars
<1>1. seen' \in [Worker -> {"fresh", "stale"}]
  BY DEF TypeOK, UpdateWorkerHeartbeat
<1>2. CASE sid \in Session /\ Known(sid)
  <2>1. lastReported' \in [Worker -> [Session -> Nat]]
    <3>1. lastReported' = [lastReported EXCEPT ![w] = [lastReported[w] EXCEPT ![sid] = t]]
      BY <1>2 DEF UpdateWorkerHeartbeat
    <3>2. [lastReported[w] EXCEPT ![sid] = t] \in [Session -> Nat]
      BY <1>2 DEF TypeOK
    <3> QED
      BY <3>1, <3>2 DEF TypeOK
  <2>2. sessions[sid] \in Run /\ lastReported[w][sid] \in Nat
    BY <1>2 DEF TypeOK, Known
  <2>3. CASE t > lastReported[w][sid]
    <3>1. t - lastReported[w][sid] \in Nat
      BY <2>2, <2>3
    <3>2. obj' = [obj EXCEPT ![sessions[sid]].orders = @ + (t - lastReported[w][sid])]
      BY <1>2, <2>3 DEF UpdateWorkerHeartbeat
    <3>3. obj' \in [Run -> SessionRec]
      BY <2>2, <3>1, <3>2, CreditType DEF TypeOK
    <3> QED
      BY <1>1, <2>1, <3>3 DEF TypeOK, UpdateWorkerHeartbeat
  <2>4. CASE ~(t > lastReported[w][sid])
    BY <1>1, <1>2, <2>1, <2>4 DEF TypeOK, UpdateWorkerHeartbeat
  <2> QED
    BY <2>3, <2>4
<1>3. CASE ~(sid \in Session /\ Known(sid))
  BY <1>1, <1>3 DEF TypeOK, UpdateWorkerHeartbeat
<1> QED
  BY <1>2, <1>3

LEMMA ServiceStepType ==
  ASSUME TypeOK, ServiceStep
  PROVE  TypeOK'
<1> USE DEF sessVars, poolVars, pollVars, redisVars
<1>1. ASSUME NEW s \in Session, APIStopSession(s) PROVE TypeOK'
  BY <1>1, StopSessionType DEF TypeOK, APIStopSession, StopSession
<1>2. ASSUME NEW w \in Worker, Silence(w) PROVE TypeOK'
  BY <1>2 DEF TypeOK, Silence
<1>3. CASE Reconcile
  BY <1>3, ConstantsAssumption DEF TypeOK, Reconcile
<1>4. CASE MetricsTick
  BY <1>4 DEF TypeOK, MetricsTick
<1>5. ASSUME NEW s \in Session, MetricsPersist(s) PROVE TypeOK'
  <2>1. Known(s) => [status |-> StatusOf(s), ttl |-> TRUE] \in RedisRec
    BY DEF TypeOK, Known, StatusOf, SessionRec, RedisRec
  <2>2. redisSession' \in [Session -> RedisRec]
    BY <1>5, <2>1 DEF TypeOK, MetricsPersist
  <2> QED
    BY <1>5, <2>2 DEF TypeOK, MetricsPersist
<1>6. ASSUME NEW s \in Session, RedisExpire(s) PROVE TypeOK'
  <2>1. [status |-> "absent", ttl |-> FALSE] \in RedisRec
    BY DEF RedisRec, Status
  <2> QED
    BY <1>6, <2>1 DEF TypeOK, RedisExpire
<1> QED
  BY <1>1, <1>2, <1>3, <1>4, <1>5, <1>6, RunStepType, CrashType DEF ServiceStep

\* Every step of the service and of its clients keeps the types.
LEMMA NextType == TypeOK /\ [AnyStep]_vars => TypeOK'
<1> SUFFICES ASSUME TypeOK, [AnyStep]_vars PROVE TypeOK'
  OBVIOUS
<1>1. CASE UNCHANGED vars
  BY <1>1 DEF TypeOK, vars, sessVars, poolVars, pollVars, redisVars
<1>2. ASSUME NEW w \in Worker, WorkerReads(w) PROVE TypeOK'
  BY <1>2 DEF TypeOK, WorkerReads, sessVars, poolVars, redisVars
<1>3. ASSUME NEW w \in Worker, NEW sid \in Session \cup {NoSession},
             NEW t \in Nat, UpdateWorkerHeartbeat(w, sid, t)
      PROVE  TypeOK'
  BY <1>3, HeartbeatType
<1> QED
  BY <1>1, <1>2, <1>3, ServiceStepType, PollStepType DEF AnyStep

\* The orchestrator's state keeps its shape: maps hold the right keys, channels stay
\* within their capacity, and a run that has begun has a session.
THEOREM TypeCorrect == Spec => []TypeOK
BY InitType, NextType, NextIsAny, PTL DEF Spec

-----------------------------------------------------------------------------
(* The life of sessions: Orchestrator implements SessionLease, and so a    *)
(* running session always has an auto-stop goroutine.                      *)

\* What the invariants below are about.
lifeVars == <<sessions, obj, run, sessionMeta>>

\* The steps that leave the life of sessions alone, apart from order counts.
LEMMA QuietSteps ==
  ASSUME TypeOK, [AnyStep]_vars
  PROVE  \/ /\ UNCHANGED <<sessions, run, sessionMeta>>
            /\ \A n \in Run : obj'[n].status = obj[n].status
         \/ \E n \in Run : RunStep(n)
         \/ \E s \in Session : APIStopSession(s)
         \/ Restart
<1> DEFINE Quiet == /\ UNCHANGED <<sessions, run, sessionMeta>>
                    /\ \A n \in Run : obj'[n].status = obj[n].status
<1>1. ASSUME UNCHANGED lifeVars PROVE Quiet
  BY <1>1 DEF lifeVars
<1>2. CASE UNCHANGED vars
  BY <1>2, <1>1 DEF vars, sessVars, redisVars, lifeVars
<1>3. ASSUME NEW w \in Worker, PollStep(w) PROVE Quiet
  BY <1>3, <1>1 DEF PollStep, RegisterWorker, Subscribe, PollChannel, PollPubSub,
    PollTimeout, PollBroken, Answer, sessVars, redisVars, lifeVars
<1>4. ASSUME NEW w \in Worker, WorkerReads(w) PROVE Quiet
  BY <1>4, <1>1 DEF WorkerReads, sessVars, redisVars, lifeVars
<1>5. ASSUME NEW w \in Worker, NEW sid \in Session \cup {NoSession},
             NEW t \in Nat, UpdateWorkerHeartbeat(w, sid, t)
      PROVE  Quiet
  <2>1. UNCHANGED <<sessions, run, sessionMeta>>
    BY <1>5 DEF UpdateWorkerHeartbeat, redisVars
  <2>2. \/ obj' = obj
        \/ /\ sessions[sid] \in Run
           /\ obj' = [obj EXCEPT ![sessions[sid]].orders =
                        @ + (t - lastReported[w][sid])]
    BY <1>5 DEF UpdateWorkerHeartbeat, Known, TypeOK
  <2>3. \A n \in Run : obj'[n].status = obj[n].status
    <3>1. CASE obj' = obj
      BY <3>1
    <3>2. CASE obj' # obj
      <4>1. PICK x : obj' = [obj EXCEPT ![sessions[sid]].orders = x]
        BY <2>2, <3>2
      <4>2. sessions[sid] \in Run
        BY <2>2, <3>2
      <4> QED
        BY <4>1, <4>2 DEF TypeOK, SessionRec
    <3> QED
      BY <3>1, <3>2
  <2> QED
    BY <2>1, <2>3
<1>6. ASSUME NEW w \in Worker, Silence(w) PROVE Quiet
  BY <1>6, <1>1 DEF Silence, sessVars, redisVars, lifeVars
<1>7. CASE Reconcile
  BY <1>7, <1>1 DEF Reconcile, sessVars, redisVars, lifeVars
<1>8. CASE MetricsTick
  BY <1>8, <1>1 DEF MetricsTick, sessVars, redisVars, lifeVars
<1>9. ASSUME NEW s \in Session, MetricsPersist(s) PROVE Quiet
  BY <1>9, <1>1 DEF MetricsPersist, sessVars, lifeVars
<1>10. ASSUME NEW s \in Session, RedisExpire(s) PROVE Quiet
  BY <1>10, <1>1 DEF RedisExpire, sessVars, lifeVars
<1> QED
  BY <1>2, <1>3, <1>4, <1>5, <1>6, <1>7, <1>8, <1>9, <1>10 DEF AnyStep, ServiceStep

-----------------------------------------------------------------------------
(* What the steps of a run do to its record and to session objects.        *)

\* The steps of a run before it dispatches, or that end it early.
LEMMA MovePc ==
  ASSUME TypeOK, NEW n \in Run,
         MarshalSession(n) \/ PersistSession(n) \/ SaveMeta(n) \/ RedisError(n)
           \/ DispatchNoWorkers(n)
  PROVE  /\ run[n].pc \notin {"unused", "timer"}
         /\ run'[n].pc \notin {"unused", "timer"}
         /\ run'[n].sid = run[n].sid
         /\ \A m \in Run : m # n => run'[m] = run[m]
         /\ Alive(n)
         /\ UNCHANGED <<sessions, obj>>
         /\ sessionMeta \subseteq sessionMeta'
         /\ run'[n].pc = "dispatch" => run[n].sid \in sessionMeta'
BY DEF TypeOK, RunRec, MarshalSession, PersistSession, SaveMeta, RedisError,
  DispatchNoWorkers, Alive, sessVars, redisVars

\* StartSession puts the fresh object of n under s.
LEMMA StartEffect ==
  ASSUME TypeOK, NEW n \in Run, NEW s \in Session, NEW b \in BotCounts,
         StartSession(n, s, b)
  PROVE  /\ run[n].pc = "unused" /\ run'[n].pc = "marshal" /\ run'[n].sid = s
         /\ \A m \in Run : m # n => run'[m] = run[m]
         /\ sessions'[s] = n
         /\ \A t \in Session : t # s => sessions'[t] = sessions[t]
         /\ UNCHANGED <<obj, sessionMeta>>
BY DEF TypeOK, RunRec, StartSession, redisVars

\* An object in the map has a status of its own: "absent" is none of them.
LEMMA ObjPresent ==
  ASSUME TypeOK, NEW s \in Session, Known(s)
  PROVE  obj[sessions[s]].status # "absent"
BY DEF TypeOK, Known, SessionRec

LEMMA DispatchEffect ==
  ASSUME TypeOK, MapAgrees, NEW n \in Run, DispatchToWorkers(n)
  PROVE  LET s == run[n].sid IN
         /\ s \in Session /\ sessions[s] \in Run /\ Known(s)
         /\ run[n].pc = "dispatch" /\ run'[n].pc = "timer" /\ run'[n].sid = s
         /\ \A m \in Run : m # n => run'[m] = run[m]
         /\ obj'[sessions[s]].status = "running"
         /\ \A m \in Run : m # sessions[s] => obj'[m] = obj[m]
         /\ UNCHANGED <<sessions, sessionMeta>>
<1> DEFINE s == run[n].sid
<1>1. run[n].pc = "dispatch" /\ UNCHANGED <<sessions, sessionMeta>>
  BY DEF DispatchToWorkers, redisVars
<1>2. s \in Session /\ Known(s) /\ sessions[s] \in Run
  BY <1>1 DEF TypeOK, MapAgrees, Alive, Known
<1>3. obj' = [obj EXCEPT ![sessions[s]].status = "running"]
  BY <1>2 DEF DispatchToWorkers
<1>4. PICK sh : run' = [run EXCEPT ![n].pc = "timer", ![n].share = sh]
  BY DEF DispatchToWorkers
<1>5. /\ run'[n].pc = "timer" /\ run'[n].sid = s
      /\ \A m \in Run : m # n => run'[m] = run[m]
  BY <1>4 DEF TypeOK, RunRec
<1>6. /\ obj'[sessions[s]].status = "running"
      /\ \A m \in Run : m # sessions[s] => obj'[m] = obj[m]
  BY <1>2, <1>3 DEF TypeOK, SessionRec
<1> QED
  BY <1>1, <1>2, <1>5, <1>6

LEMMA StopEffect ==
  ASSUME TypeOK, NEW s \in Session, StopSession(s)
  PROVE  /\ Known(s) => obj'[sessions[s]].status = "done"
         /\ \A m \in Run : ~Known(s) \/ m # sessions[s] => obj'[m] = obj[m]
         /\ UNCHANGED <<sessions, sessionMeta>>
<1>1. CASE Known(s)
  <2>1. sessions[s] \in Run
    BY <1>1 DEF TypeOK, Known
  <2> QED
    BY <1>1, <2>1 DEF StopSession, TypeOK, SessionRec, redisVars
<1>2. CASE ~Known(s)
  BY <1>2 DEF StopSession, redisVars
<1> QED
  BY <1>1, <1>2

LEMMA AutoStopEffect ==
  ASSUME TypeOK, NEW n \in Run, AutoStop(n)
  PROVE  /\ run[n].pc = "timer" /\ run'[n].pc = "stopped" /\ run'[n].sid = run[n].sid
         /\ run[n].sid \in Session
         /\ \A m \in Run : m # n => run'[m] = run[m]
         /\ StopSession(run[n].sid)
BY DEF TypeOK, RunRec, AutoStop

LEMMA RestartEffect ==
  ASSUME TypeOK, Restart
  PROVE  /\ \A s \in Session : sessions'[s] = NoRun
         /\ UNCHANGED <<obj, sessionMeta>>
         /\ \A n \in Run : /\ run'[n].pc = AfterCrash(run[n].pc)
                           /\ run'[n].pc = "unused" => run[n].pc = "unused"
                           /\ run'[n].pc \notin
                                {"marshal", "persist", "meta", "dispatch", "timer"}
BY DEF TypeOK, RunRec, PC, Restart, AfterCrash, redisVars

-----------------------------------------------------------------------------
(* The session map and the goroutines agree.                               *)

LEMMA InitAgrees == Init => MapAgrees
BY ConstantsAssumption DEF Init, MapAgrees, Known, Alive, Pending

LEMMA NextAgrees == TypeOK /\ MapAgrees /\ [AnyStep]_vars => MapAgrees'
<1> SUFFICES ASSUME TypeOK, MapAgrees, [AnyStep]_vars PROVE MapAgrees'
  OBVIOUS
<1>1. \A s \in Session : Known(s) => /\ sessions[s] \in Run
                                    /\ run[sessions[s]].pc # "unused"
                                    /\ run[sessions[s]].sid = s
  BY DEF TypeOK, MapAgrees, Known
<1>2. \A n \in Run : run[n].pc = "unused" => obj[n].status = "pending"
  BY DEF MapAgrees
<1>3. \A n \in Run : Alive(n) => run[n].sid \in Session /\ Known(run[n].sid)
  BY DEF TypeOK, MapAgrees, Alive
<1>4. ASSUME UNCHANGED <<sessions, run, sessionMeta>>,
             \A n \in Run : obj'[n].status = obj[n].status
      PROVE  MapAgrees'
  BY <1>4 DEF MapAgrees, Known, Alive
<1>5. ASSUME NEW n \in Run, NEW s \in Session, NEW b \in BotCounts, StartSession(n, s, b)
      PROVE  MapAgrees'
  <2>1. /\ run[n].pc = "unused" /\ run'[n].pc = "marshal" /\ run'[n].sid = s
        /\ \A m \in Run : m # n => run'[m] = run[m]
        /\ sessions'[s] = n
        /\ \A t \in Session : t # s => sessions'[t] = sessions[t]
        /\ obj' = obj
    BY <1>5, StartEffect
  <2>2. ASSUME NEW t \in Session, sessions'[t] # NoRun
        PROVE  run'[sessions'[t]].pc # "unused" /\ run'[sessions'[t]].sid = t
    <3>1. CASE t = s
      BY <2>1, <3>1
    <3>2. CASE t # s
      <4>1. Known(t) /\ sessions'[t] = sessions[t]
        BY <2>1, <2>2, <3>2 DEF Known
      <4>2. sessions[t] \in Run /\ sessions[t] # n
        BY <1>1, <2>1, <4>1
      <4> QED
        BY <1>1, <2>1, <4>1, <4>2
    <3> QED
      BY <3>1, <3>2
  <2>3. \A m \in Run : run'[m].pc = "unused" => obj'[m].status = "pending"
    BY <1>2, <2>1
  <2>4. sessions'[s] # NoRun /\ \A t \in Session : Known(t) => sessions'[t] # NoRun
    BY <2>1, ConstantsAssumption DEF Known
  <2>5. \A m \in Run : Alive(m)' => sessions'[run'[m].sid] # NoRun
    BY <1>3, <2>1, <2>4 DEF Alive
  <2> QED
    BY <2>2, <2>3, <2>5 DEF MapAgrees, Known
<1>6. ASSUME NEW n \in Run, UNCHANGED sessions, run'[n].sid = run[n].sid,
             Alive(n), run'[n].pc # "unused",
             \A m \in Run : m # n => run'[m] = run[m],
             \A m \in Run : run[m].pc = "unused" => obj'[m] = obj[m]
      PROVE  MapAgrees'
  <2>1. ASSUME NEW t \in Session, Known(t)
        PROVE  run'[sessions[t]].pc # "unused" /\ run'[sessions[t]].sid = t
    BY <1>1, <1>6, <2>1
  <2>2. \A m \in Run : run'[m].pc = "unused" => obj'[m].status = "pending"
    BY <1>2, <1>6
  <2>3. \A m \in Run : Alive(m)' => Known(run'[m].sid)
    BY <1>3, <1>6 DEF Alive
  <2> QED
    BY <1>6, <2>1, <2>2, <2>3 DEF MapAgrees, Known
<1>7. ASSUME NEW n \in Run,
             MarshalSession(n) \/ PersistSession(n) \/ SaveMeta(n) \/ RedisError(n)
               \/ DispatchNoWorkers(n)
      PROVE  MapAgrees'
  BY <1>6, <1>7, MovePc
<1>8. ASSUME NEW n \in Run, DispatchToWorkers(n) PROVE MapAgrees'
  <2>1. Alive(n)
    BY <1>8 DEF DispatchToWorkers, Alive
  <2>2. \A m \in Run : run[m].pc = "unused" => obj'[m] = obj[m]
    BY <1>1, <1>8, DispatchEffect
  <2> QED
    BY <1>6, <1>8, <2>1, <2>2, DispatchEffect
<1>9. ASSUME NEW s \in Session, StopSession(s)
      PROVE  \A m \in Run : run[m].pc = "unused" => obj'[m] = obj[m]
  BY <1>1, <1>9, StopEffect
<1>10. ASSUME NEW s \in Session, APIStopSession(s) PROVE MapAgrees'
  <2>1. UNCHANGED <<sessions, run>>
    BY <1>10, StopEffect DEF APIStopSession
  <2> QED
    BY <1>1, <1>2, <1>3, <1>9, <1>10, <2>1 DEF APIStopSession, MapAgrees, Known, Alive
<1>11. ASSUME NEW n \in Run, AutoStop(n) PROVE MapAgrees'
  <2>1. Alive(n)
    BY <1>11 DEF AutoStop, Alive
  <2> QED
    BY <1>6, <1>9, <1>11, <2>1, AutoStopEffect, StopEffect
<1>12. CASE Restart
  <2>1. \A m \in Run : run'[m].pc = "unused" => obj'[m].status = "pending"
    BY <1>2, <1>12, RestartEffect
  <2>2. \A s \in Session : sessions'[s] = NoRun
    BY <1>12, RestartEffect
  <2>3. \A m \in Run : ~Alive(m)'
    BY <1>12, RestartEffect DEF Alive
  <2> QED
    BY <2>1, <2>2, <2>3 DEF MapAgrees, Known
<1> QED
  BY <1>4, <1>5, <1>7, <1>8, <1>10, <1>11, <1>12, QuietSteps DEF RunStep

\* No goroutine of a session ever misses it in o.sessions, and no session id leads to
\* the object of another session.
THEOREM MapsAgree == Spec => []MapAgrees
BY TypeCorrect, InitAgrees, NextAgrees, NextIsAny, PTL DEF Spec

-----------------------------------------------------------------------------
(* Every step is a step of SessionLease.                                   *)

LEMMA InitLease == Init => Lease!Init
BY ConstantsAssumption DEF Init, Lease!Init, stBar, leasesBar, StatusOf, Known, TimersOf

LEMMA NextLease ==
  TypeOK /\ MapAgrees /\ [AnyStep]_vars => [Lease!Next]_<<stBar, leasesBar>>
<1> SUFFICES ASSUME TypeOK, MapAgrees, [AnyStep]_vars
             PROVE  [Lease!Next]_<<stBar, leasesBar>>
  OBVIOUS
<1> USE ConstantsAssumption
<1>1. ASSUME UNCHANGED <<sessions, run, sessionMeta>>,
             \A n \in Run : obj'[n].status = obj[n].status
      PROVE  UNCHANGED <<stBar, leasesBar>>
  BY <1>1 DEF stBar, leasesBar, StatusOf, Known, TimersOf, TypeOK
<1>2. ASSUME NEW n \in Run, NEW s \in Session, NEW b \in BotCounts, StartSession(n, s, b)
      PROVE  Lease!Create(s)
  <2>1. \A t \in Session : StatusOf(t)' = IF t = s THEN "pending" ELSE StatusOf(t)
    BY <1>2, StartEffect DEF StatusOf, Known, MapAgrees
  <2>2. \A t \in Session : TimersOf(t)' = TimersOf(t)
    BY <1>2, StartEffect DEF TimersOf
  <2> QED
    BY <2>1, <2>2 DEF Lease!Create, stBar, leasesBar
<1>3. ASSUME NEW n \in Run,
             MarshalSession(n) \/ PersistSession(n) \/ SaveMeta(n) \/ RedisError(n)
               \/ DispatchNoWorkers(n)
      PROVE  UNCHANGED <<stBar, leasesBar>>
  <2>1. \A t \in Session : StatusOf(t)' = StatusOf(t)
    BY <1>3, MovePc DEF StatusOf, Known
  <2>2. \A t \in Session : TimersOf(t)' = TimersOf(t)
    BY <1>3, MovePc DEF TimersOf
  <2> QED
    BY <2>1, <2>2 DEF stBar, leasesBar
<1>4. ASSUME NEW n \in Run, DispatchToWorkers(n)
      PROVE  Lease!Launch(run[n].sid, n)
  <2> DEFINE s == run[n].sid
  <2>1. s \in Session /\ Known(s) /\ StatusOf(s) # "absent"
    <3>1. s \in Session /\ Known(s) /\ sessions[s] \in Run
      BY <1>4, DispatchEffect
    <3> QED
      BY <3>1, ObjPresent DEF StatusOf
  <2>2. \A t \in Session : n \notin TimersOf(t)
    BY <1>4, DispatchEffect DEF TimersOf
  <2>3. \A t \in Session : Known(t) /\ t # s => sessions[t] # sessions[s]
    BY <2>1 DEF MapAgrees
  <2>4. \A t \in Session : StatusOf(t)' = IF t = s THEN "running" ELSE StatusOf(t)
    BY <1>4, <2>1, <2>3, DispatchEffect DEF StatusOf, Known, TypeOK
  <2>5. \A t \in Session : TimersOf(t)' = IF t = s THEN TimersOf(t) \cup {n} ELSE TimersOf(t)
    BY <1>4, DispatchEffect DEF TimersOf
  <2> QED
    BY <2>1, <2>2, <2>4, <2>5 DEF Lease!Launch, stBar, leasesBar
<1>5. ASSUME NEW s \in Session, StopSession(s)
      PROVE  \A t \in Session : StatusOf(t)' =
               IF t = s /\ Known(s) THEN "done" ELSE StatusOf(t)
  <2>1. \A t \in Session : Known(s) /\ Known(t) /\ t # s => sessions[t] # sessions[s]
    BY <1>5 DEF MapAgrees
  <2> QED
    BY <1>5, <2>1, StopEffect DEF StatusOf, Known, TypeOK
<1>6. ASSUME NEW s \in Session, APIStopSession(s)
      PROVE  Lease!Stop(s) \/ UNCHANGED <<stBar, leasesBar>>
  <2>1. \A t \in Session : TimersOf(t)' = TimersOf(t)
    BY <1>6 DEF APIStopSession, TimersOf
  <2>2. CASE Known(s)
    <3>1. StatusOf(s) # "absent"
      BY <2>2, ObjPresent DEF StatusOf, Known, TypeOK
    <3> QED
      BY <1>5, <1>6, <2>1, <2>2, <3>1 DEF APIStopSession, Lease!Stop, stBar, leasesBar
  <2>3. CASE ~Known(s)
    BY <1>5, <1>6, <2>1, <2>3 DEF APIStopSession, stBar, leasesBar
  <2> QED
    BY <2>2, <2>3
<1>7. ASSUME NEW n \in Run, AutoStop(n)
      PROVE  Lease!Expire(run[n].sid, n)
  <2> DEFINE s == run[n].sid
  <2>1. s \in Session /\ Known(s) /\ n \in TimersOf(s)
    BY <1>7, AutoStopEffect DEF MapAgrees, Alive, TimersOf
  <2>2. \A t \in Session : StatusOf(t)' = IF t = s THEN "done" ELSE StatusOf(t)
    BY <1>5, <1>7, <2>1, AutoStopEffect
  <2>3. \A t \in Session : TimersOf(t)' = IF t = s THEN TimersOf(t) \ {n} ELSE TimersOf(t)
    BY <1>7, AutoStopEffect DEF TimersOf
  <2> QED
    BY <2>1, <2>2, <2>3 DEF Lease!Expire, stBar, leasesBar
<1>8. CASE Restart
  <2>1. \A t \in Session : StatusOf(t)' = "absent" /\ TimersOf(t)' = {}
    BY <1>8, RestartEffect DEF StatusOf, Known, TimersOf
  <2> QED
    BY <2>1 DEF Lease!Next, Lease!Crash, stBar, leasesBar
<1>9. \A n \in Run : run[n].pc # "unused" => run[n].sid \in Session
  BY DEF TypeOK
<1>10. ASSUME NEW n \in Run, RunStep(n) PROVE [Lease!Next]_<<stBar, leasesBar>>
  <2>1. CASE DispatchToWorkers(n)
    BY <2>1, <1>4, DispatchEffect DEF Lease!Next
  <2>2. CASE AutoStop(n)
    BY <2>2, <1>7, AutoStopEffect DEF Lease!Next
  <2> QED
    BY <1>2, <1>3, <1>10, <2>1, <2>2 DEF RunStep, Lease!Next
<1>11. ASSUME NEW s \in Session, APIStopSession(s)
       PROVE  [Lease!Next]_<<stBar, leasesBar>>
  BY <1>6, <1>11 DEF Lease!Next
<1> QED
  BY <1>1, <1>8, <1>10, <1>11, QuietSteps

\* Whatever calls, goroutines, polls and restarts interleave, the service is a correct
\* implementation of SessionLease.
THEOREM ImplementsLease == Spec => LeaseSafety
<1>1. Init => Lease!Init
  BY InitLease
<1>2. TypeOK /\ MapAgrees /\ [AnyStep]_vars => [Lease!Next]_Lease!vars
  BY NextLease DEF Lease!vars
<1> QED
  BY <1>1, <1>2, TypeCorrect, MapsAgree, NextIsAny, PTL DEF Spec, LeaseSafety, Lease!Spec

-----------------------------------------------------------------------------
(* What follows from the leases.                                           *)

LEMMA LeaseKept ==
  RunningHasTimer /\ [Lease!Next]_<<stBar, leasesBar>> => RunningHasTimer'
<1> SUFFICES ASSUME RunningHasTimer, [Lease!Next]_<<stBar, leasesBar>>
             PROVE  RunningHasTimer'
  OBVIOUS
<1>1. \A s \in Session : stBar[s] = "running" => leasesBar[s] # {}
  BY DEF RunningHasTimer, stBar, leasesBar
<1> SUFFICES \A s \in Session : stBar'[s] = "running" => leasesBar'[s] # {}
  BY DEF RunningHasTimer, stBar, leasesBar
<1>2. /\ \A s \in Session : stBar[s] = StatusOf(s)
      /\ stBar = [s \in Session |-> stBar[s]]
      /\ leasesBar = [s \in Session |-> leasesBar[s]]
  BY DEF stBar, leasesBar
<1> HIDE DEF stBar, leasesBar
<1>3. CASE UNCHANGED <<stBar, leasesBar>>
  BY <1>1, <1>3
<1>4. ASSUME NEW s \in Session, Lease!Create(s) \/ Lease!Stop(s)
      PROVE  \A t \in Session : stBar'[t] = "running" => leasesBar'[t] # {}
  BY <1>1, <1>2, <1>4 DEF Lease!Create, Lease!Stop
<1>5. ASSUME NEW s \in Session, NEW n \in Run, Lease!Launch(s, n)
      PROVE  \A t \in Session : stBar'[t] = "running" => leasesBar'[t] # {}
  BY <1>1, <1>2, <1>5 DEF Lease!Launch
<1>6. ASSUME NEW s \in Session, NEW n \in Run, Lease!Expire(s, n)
      PROVE  \A t \in Session : stBar'[t] = "running" => leasesBar'[t] # {}
  BY <1>1, <1>2, <1>6 DEF Lease!Expire
<1>7. CASE Lease!Crash
  BY <1>7 DEF Lease!Crash
<1> QED
  BY <1>3, <1>4, <1>5, <1>6, <1>7 DEF Lease!Next

\* A running session always has an auto-stop goroutine that is still to stop it.
THEOREM RunningIsTimed == Spec => []RunningHasTimer
<1>1. Init => RunningHasTimer
  BY DEF Init, RunningHasTimer, StatusOf, Known
<1>2. TypeOK /\ MapAgrees /\ RunningHasTimer /\ [AnyStep]_vars => RunningHasTimer'
  BY NextLease, LeaseKept
<1> QED
  BY <1>1, <1>2, TypeCorrect, MapsAgree, NextIsAny, PTL DEF Spec

\* A run dispatches only after its HSET succeeded, and the hash is never deleted.
MetaSaved ==
  \A n \in Run : run[n].pc \in {"dispatch", "timer"} => run[n].sid \in sessionMeta

LEMMA NextMeta == TypeOK /\ MapAgrees /\ MetaSaved /\ [AnyStep]_vars => MetaSaved'
<1> SUFFICES ASSUME TypeOK, MapAgrees, MetaSaved, [AnyStep]_vars PROVE MetaSaved'
  OBVIOUS
<1>1. CASE UNCHANGED <<sessions, run, sessionMeta>>
  BY <1>1 DEF MetaSaved
<1>2. ASSUME NEW n \in Run, NEW s \in Session, NEW b \in BotCounts, StartSession(n, s, b)
      PROVE  MetaSaved'
  BY <1>2, StartEffect DEF MetaSaved
<1>3. ASSUME NEW n \in Run,
             MarshalSession(n) \/ PersistSession(n) \/ SaveMeta(n) \/ RedisError(n)
               \/ DispatchNoWorkers(n)
      PROVE  MetaSaved'
  BY <1>3, MovePc DEF MetaSaved
<1>4. ASSUME NEW n \in Run, DispatchToWorkers(n) PROVE MetaSaved'
  BY <1>4, DispatchEffect DEF MetaSaved
<1>5. ASSUME NEW s \in Session, APIStopSession(s) PROVE MetaSaved'
  BY <1>5, StopEffect DEF MetaSaved, APIStopSession
<1>6. ASSUME NEW n \in Run, AutoStop(n) PROVE MetaSaved'
  BY <1>6, AutoStopEffect, StopEffect DEF MetaSaved
<1>7. CASE Restart
  BY <1>7, RestartEffect DEF MetaSaved
<1> QED
  BY <1>1, <1>2, <1>3, <1>4, <1>5, <1>6, <1>7, QuietSteps DEF RunStep

\* A running session always has the hash session_meta:<id> that scoring needs.
THEOREM RunningIsInMeta == Spec => []RunningIsRecorded
<1>1. Init => MetaSaved
  BY DEF Init, MetaSaved
<1>2. Spec => []MetaSaved
  BY <1>1, NextMeta, TypeCorrect, MapsAgree, NextIsAny, PTL DEF Spec
<1>3. MetaSaved /\ RunningHasTimer => RunningIsRecorded
  BY DEF MetaSaved, RunningHasTimer, RunningIsRecorded, TimersOf
<1> QED
  BY <1>2, <1>3, RunningIsTimed, PTL

-----------------------------------------------------------------------------
(* Open polls belong to registered workers.                                *)

LEMMA NextPolls == TypeOK /\ PollIsRegistered /\ [AnyStep]_vars => PollIsRegistered'
<1> SUFFICES ASSUME TypeOK, PollIsRegistered, [AnyStep]_vars PROVE PollIsRegistered'
  OBVIOUS
<1> USE DEF PollIsRegistered
<1>1. ASSUME UNCHANGED <<poll, workers, seen>> PROVE PollIsRegistered'
  BY <1>1
<1>2. CASE UNCHANGED vars
  BY <1>2, <1>1 DEF vars, poolVars, pollVars
<1>3. ASSUME NEW n \in Run, RunStep(n) PROVE PollIsRegistered'
  BY <1>3, <1>1 DEF RunStep, StartSession, MarshalSession, PersistSession, SaveMeta,
    RedisError, DispatchToWorkers, DispatchNoWorkers, AutoStop, StopSession, poolVars, pollVars
<1>4. ASSUME NEW s \in Session, APIStopSession(s) PROVE PollIsRegistered'
  BY <1>4, <1>1 DEF APIStopSession, StopSession
<1>5. ASSUME NEW w \in Worker, PollStep(w) PROVE PollIsRegistered'
  BY <1>5 DEF PollStep, RegisterWorker, Subscribe, PollChannel, PollPubSub, PollTimeout,
    PollBroken, Answer, poolVars, TypeOK
<1>6. ASSUME NEW w \in Worker, WorkerReads(w) PROVE PollIsRegistered'
  BY <1>6, <1>1 DEF WorkerReads, poolVars
<1>7. ASSUME NEW w \in Worker, NEW sid \in Session \cup {NoSession},
             NEW t \in Nat, UpdateWorkerHeartbeat(w, sid, t)
      PROVE  PollIsRegistered'
  BY <1>7 DEF UpdateWorkerHeartbeat, pollVars, TypeOK
<1>8. ASSUME NEW w \in Worker, Silence(w) PROVE PollIsRegistered'
  BY <1>8 DEF Silence, pollVars, TypeOK
<1>9. CASE Reconcile
  BY <1>9 DEF Reconcile, Timeouts, pollVars
<1>10. CASE MetricsTick
  BY <1>10, <1>1 DEF MetricsTick, poolVars, pollVars
<1>11. ASSUME NEW s \in Session, MetricsPersist(s) PROVE PollIsRegistered'
  BY <1>11, <1>1 DEF MetricsPersist, poolVars, pollVars
<1>12. ASSUME NEW s \in Session, RedisExpire(s) PROVE PollIsRegistered'
  BY <1>12, <1>1 DEF RedisExpire, poolVars, pollVars
<1>13. CASE Restart
  BY <1>13 DEF Restart
<1> QED
  BY <1>2, <1>3, <1>4, <1>5, <1>6, <1>7, <1>8, <1>9, <1>10, <1>11, <1>12, <1>13
    DEF AnyStep, ServiceStep

\* A worker whose poll is open is registered, so commands go to the channel that its
\* handler waits on.
THEOREM PollsAreRegistered == Spec => []PollIsRegistered
<1>1. Init => PollIsRegistered
  BY DEF Init, PollIsRegistered
<1> QED
  BY <1>1, NextPolls, TypeCorrect, NextIsAny, PTL DEF Spec

-----------------------------------------------------------------------------
(* A share, once dealt out, stays.                                         *)

LEMMA AssignedKept ==
  ASSUME TypeOK, MapAgrees, [AnyStep]_vars, NEW m \in Run, Assigned(m)
  PROVE  Assigned(m)' /\ run'[m].sid = run[m].sid
         /\ run'[m].bots = run[m].bots /\ run'[m].share = run[m].share
<1>1. CASE UNCHANGED run
  BY <1>1 DEF Assigned
<1>2. ASSUME NEW n \in Run, NEW s \in Session, NEW b \in BotCounts, StartSession(n, s, b)
      PROVE  run'[m] = run[m]
  BY <1>2, StartEffect DEF Assigned
<1>3. ASSUME NEW n \in Run,
             MarshalSession(n) \/ PersistSession(n) \/ SaveMeta(n) \/ RedisError(n)
               \/ DispatchNoWorkers(n)
      PROVE  run'[m] = run[m]
  BY <1>3, MovePc DEF Assigned, Alive
<1>4. ASSUME NEW n \in Run, DispatchToWorkers(n) PROVE run'[m] = run[m]
  BY <1>4, DispatchEffect DEF Assigned
<1>5. ASSUME NEW n \in Run, AutoStop(n)
      PROVE  Assigned(m)' /\ run'[m].sid = run[m].sid
         /\ run'[m].bots = run[m].bots /\ run'[m].share = run[m].share
  BY <1>5 DEF AutoStop, Assigned, TypeOK, RunRec
<1>6. CASE Restart
  BY <1>6 DEF Restart, AfterCrash, Assigned, TypeOK, RunRec
<1> QED
  BY <1>1, <1>2, <1>3, <1>4, <1>5, <1>6, QuietSteps
    DEF RunStep, APIStopSession, Assigned

LEMMA GenuineKept ==
  ASSUME TypeOK, MapAgrees, [AnyStep]_vars, NEW w \in Worker, NEW c \in Cmd, Genuine(w, c)
  PROVE  Genuine(w, c)'
BY AssignedKept, CmdRun DEF Genuine, TooFew

\* N shares of q, and one more for r of them.
LEMMA DivMod ==
  ASSUME NEW b \in Nat, NEW N \in Nat \ {0}, NEW q, NEW r, q = b \div N, r = b % N
  PROVE  q \in Nat /\ r \in Nat /\ b = N * q + r /\ q <= b /\ (r > 0 => q + 1 <= b)
<1>1. q \in Nat /\ r \in Nat
  OBVIOUS
<1>2. b = N * q + r
  BY <1>1
<1>3. q <= N * q
  BY <1>1
<1> QED BY <1>1, <1>2, <1>3

\* A worker gets no share only if the bots are fewer than the workers.
LEMMA NoShare ==
  ASSUME NEW W \in SUBSET Worker, W # {}, NEW b \in Nat, NEW extra, NEW w,
         Share(b, W, extra, w) = 0
  PROVE  b < Cardinality(Worker)
<1>1. /\ IsFiniteSet(W)
      /\ Cardinality(W) <= Cardinality(Worker)
  BY FS_Subset, ConstantsAssumption
<1>2. Cardinality(W) \in Nat \ {0} /\ Cardinality(Worker) \in Nat
  BY <1>1, FS_CardinalityType, FS_EmptySet, ConstantsAssumption
<1> DEFINE N == Cardinality(W)
           q == b \div N
           r == b % N
<1>3. Share(b, W, extra, w) = q + (IF w \in extra THEN 1 ELSE 0)
  BY DEF Share
<1>4. q \in Nat /\ r \in Nat /\ b = N * q + r /\ q <= b /\ (r > 0 => q + 1 <= b)
  BY <1>2, DivMod
<1>5. r < N
  BY <1>2
<1> HIDE DEF q, r
<1>6. q = 0
  BY <1>3, <1>4
<1>7. b = r
  BY <1>2, <1>4, <1>6
<1> QED
  BY <1>1, <1>2, <1>5, <1>7

-----------------------------------------------------------------------------
(* Where the commands on their way to a worker come from.                  *)

Queue(w) == {cmdChan[w][i] : i \in 1..Len(cmdChan[w])}

LEMMA CommandsAre ==
  ASSUME NEW w \in Worker
  PROVE  Commands(w) = (Queue(w) \cup {sub[w], reply[w]}) \ {NoCmd}
BY DEF Commands, Queue

LEMMA CommandsType ==
  ASSUME TypeOK, NEW w \in Worker
  PROVE  Commands(w) \subseteq Cmd
<1>1. cmdChan[w] \in Seq(Cmd)
  BY DEF TypeOK
<1>2. \A i \in 1..Len(cmdChan[w]) : cmdChan[w][i] \in Cmd
  BY <1>1
<1> QED
  BY <1>2 DEF TypeOK, Commands

LEMMA QueueAppend ==
  ASSUME NEW q \in Seq(Cmd), NEW c \in Cmd
  PROVE  {Append(q, c)[i] : i \in 1..Len(Append(q, c))}
           \subseteq {q[i] : i \in 1..Len(q)} \cup {c}
OBVIOUS

LEMMA QueueTail ==
  ASSUME NEW q \in Seq(Cmd), q # <<>>
  PROVE  /\ Head(q) \in {q[i] : i \in 1..Len(q)}
         /\ {Tail(q)[i] : i \in 1..Len(Tail(q))} \subseteq {q[i] : i \in 1..Len(q)}
<1>1. Len(q) \in Nat \ {0}
  OBVIOUS
<1>2. Head(q) = q[1] /\ 1 \in 1..Len(q)
  BY <1>1
<1>3. ASSUME NEW i \in 1..Len(Tail(q))
      PROVE  Tail(q)[i] = q[i+1] /\ i+1 \in 1..Len(q)
  BY <1>1
<1> QED
  BY <1>2, <1>3

LEMMA PublishAdds ==
  ASSUME NEW up, NEW w \in Worker, NEW c
  PROVE  Publish(up, w, c) \in {sub[w], c}
BY DEF Publish

\* StopSession adds nothing but STOP commands.
LEMMA StopCommands ==
  ASSUME TypeOK, NEW s \in Session, StopSession(s), NEW w \in Worker
  PROVE  Commands(w)' \subseteq Commands(w) \cup {StopCmd(s)}
<1>1. Queue(w)' \subseteq Queue(w) \cup {StopCmd(s)}
  <2>1. cmdChan'[w] = cmdChan[w] \/ cmdChan'[w] = Append(cmdChan[w], StopCmd(s))
    BY DEF StopSession
  <2>2. cmdChan[w] \in Seq(Cmd) /\ StopCmd(s) \in Cmd
    BY StopCmdType DEF TypeOK
  <2> QED
    BY <2>1, <2>2, QueueAppend DEF Queue
<1>2. sub'[w] \in {sub[w], StopCmd(s)}
  <2> PICK up \in BOOLEAN : sub' =
        [v \in Worker |-> IF Known(s) THEN Publish(up, v, StopCmd(s)) ELSE sub[v]]
    BY DEF StopSession
  <2> QED
    BY PublishAdds
<1>3. reply' = reply
  BY DEF StopSession
<1> QED
  BY <1>1, <1>2, <1>3 DEF Commands, Queue

\* dispatchToWorkers adds, for each worker, at most the START with its share.
LEMMA DispatchCommands ==
  ASSUME TypeOK, MapAgrees, NEW n \in Run, DispatchToWorkers(n), NEW w \in Worker,
         NEW c \in Commands(w)'
  PROVE  c \in Commands(w) \/ Genuine(w, c)'
<1> PICK extra \in SUBSET workers, up \in SUBSET workers : DispatchToWorkers(n)!3!(extra, up)
  BY DEF DispatchToWorkers
<1> DEFINE x == StartCmd(n, Share(run[n].bots, workers, extra, w))
<1>1. CASE w \in workers
  <2>1. Share(run[n].bots, workers, extra, w) \in Nat
    BY <1>1, ShareType DEF TypeOK, RunRec
  <2>2. x \in Cmd
    BY <2>1, StartCmdType DEF TypeOK, DispatchToWorkers
  <2>3. cmdChan'[w] = cmdChan[w] \/ cmdChan'[w] = Append(cmdChan[w], x)
    OBVIOUS
  <2>4. Queue(w)' \subseteq Queue(w) \cup {x}
    BY <2>2, <2>3, QueueAppend DEF Queue, TypeOK
  <2>5. sub'[w] \in {sub[w], x}
    BY PublishAdds
  <2>6. c \in Commands(w) \/ c = x
    BY <2>4, <2>5 DEF Commands, Queue, DispatchToWorkers
  <2>7. /\ run'[n].pc = "timer" /\ run'[n].sid = run[n].sid
        /\ run'[n].share[w] = Share(run[n].bots, workers, extra, w)
    BY <1>1 DEF TypeOK, RunRec
  <2>8. CASE c = x
    <3>1. /\ c.run = n /\ c.sid = run[n].sid
          /\ c.bots = Share(run[n].bots, workers, extra, w)
      BY <2>8 DEF StartCmd
    <3>2. run'[n].bots = run[n].bots /\ run[n].bots \in Nat
      BY DEF TypeOK, RunRec
    <3>3. workers \in SUBSET Worker /\ workers # {}
      BY <1>1 DEF TypeOK
    <3>4. c.bots > 0 \/ TooFew(c.run)'
      <4>1. c.bots = 0 => run[n].bots < Cardinality(Worker)
        BY <3>1, <3>2, <3>3, NoShare
      <4> QED
        BY <2>1, <3>1, <3>2, <4>1 DEF TooFew
    <3> QED
      BY <2>7, <3>1, <3>4 DEF Genuine, Assigned
  <2> QED
    BY <2>6, <2>8
<1>2. CASE w \notin workers
  BY <1>2 DEF Commands, DispatchToWorkers
<1> QED
  BY <1>1, <1>2

\* Answering moves a command of the worker's own.
LEMMA AnswerCommands ==
  ASSUME TypeOK, NEW v \in Worker, PollChannel(v) \/ PollPubSub(v)
  PROVE  \E c \in Commands(v) :
           /\ \A w \in Worker : Commands(w)' \subseteq Commands(w)
           /\ handed' \subseteq handed \cup (IF c.kind = "START" THEN {<<v, c.run>>} ELSE {})
<1>1. CASE PollChannel(v)
  <2> DEFINE c == Head(cmdChan[v])
  <2>1. cmdChan[v] \in Seq(Cmd) /\ cmdChan[v] # <<>>
    BY <1>1 DEF TypeOK, PollChannel
  <2>2. c \in Queue(v) /\ Queue(v)' \subseteq Queue(v)
    BY <1>1, <2>1, QueueTail DEF PollChannel, Queue, TypeOK
  <2>3. \A w \in Worker : w # v => Queue(w)' = Queue(w)
    BY <1>1 DEF PollChannel, Queue, TypeOK
  <2>4. reply' = [reply EXCEPT ![v] = c] /\ sub' = [sub EXCEPT ![v] = NoCmd]
    BY <1>1 DEF PollChannel, Answer
  <2>5. c \in Commands(v)
    BY <2>1, <2>2, NoCmdAssumption DEF Commands, Queue
  <2>6. \A w \in Worker : Commands(w)' \subseteq Commands(w)
    <3> TAKE w \in Worker
    <3>1. CASE w = v
      <4>1. reply'[v] = c /\ sub'[v] = NoCmd
        BY <2>4 DEF TypeOK
      <4>2. Commands(v)' = (Queue(v)' \cup {NoCmd, c}) \ {NoCmd}
        BY <4>1 DEF Commands, Queue
      <4>3. Queue(v) \ {NoCmd} \subseteq Commands(v)
        BY DEF Commands, Queue
      <4> HIDE DEF c
      <4>4. Commands(v)' \subseteq Commands(v)
        BY <2>2, <2>5, <4>2, <4>3
      <4> QED
        BY <3>1, <4>4
    <3>2. CASE w # v
      <4>1. reply'[w] = reply[w] /\ sub'[w] = sub[w] /\ cmdChan'[w] = cmdChan[w]
        BY <1>1, <2>4, <3>2 DEF TypeOK, PollChannel
      <4> QED
        BY <4>1 DEF Commands
    <3> QED
      BY <3>1, <3>2
  <2>7. handed' \subseteq handed \cup (IF c.kind = "START" THEN {<<v, c.run>>} ELSE {})
    BY <1>1 DEF PollChannel, Answer
  <2> QED
    BY <2>5, <2>6, <2>7
<1>2. CASE PollPubSub(v)
  <2>1. sub[v] \in Commands(v)
    BY <1>2 DEF PollPubSub, Commands
  <2>2. \A w \in Worker : Commands(w)' \subseteq Commands(w)
    BY <1>2 DEF PollPubSub, Answer, Commands, TypeOK
  <2> QED
    BY <1>2, <2>1, <2>2 DEF PollPubSub, Answer
<1> QED
  BY <1>1, <1>2

LEMMA NextStarts ==
  TypeOK /\ MapAgrees /\ PollIsRegistered /\ StartsAreAssigned /\ [AnyStep]_vars
    => StartsAreAssigned'
<1> SUFFICES ASSUME TypeOK, MapAgrees, PollIsRegistered, StartsAreAssigned, [AnyStep]_vars
             PROVE  StartsAreAssigned'
  OBVIOUS
\* Only new commands and new entries of handed are of interest.
<1>1. ASSUME \A w \in Worker : \A c \in Commands(w)' : c \in Commands(w) \/ Genuine(w, c)',
             \A h \in handed' : h \in handed \/ (h[2] \in Run /\ Assigned(h[2]))
      PROVE  StartsAreAssigned'
  <2>1. \A w \in Worker : \A c \in Commands(w)' : Genuine(w, c)'
    BY <1>1, GenuineKept, CommandsType DEF StartsAreAssigned
  <2>2. \A h \in handed' : h[2] \in Run /\ Assigned(h[2])
    BY <1>1 DEF StartsAreAssigned, TypeOK
  <2>3. \A h \in handed' : Assigned(h[2])'
    BY <2>2, AssignedKept
  <2> QED
    BY <2>1, <2>3 DEF StartsAreAssigned
<1>2. ASSUME UNCHANGED <<cmdChan, sub, reply, handed>> PROVE StartsAreAssigned'
  BY <1>1, <1>2 DEF Commands
<1>3. CASE UNCHANGED vars
  BY <1>3, <1>2 DEF vars, poolVars, pollVars
<1>4. ASSUME NEW s \in Session, StopSession(s), NEW w \in Worker, NEW c \in Commands(w)'
      PROVE  c \in Commands(w) \/ Genuine(w, c)'
  <2>1. c \in Commands(w) \/ c = StopCmd(s)
    BY <1>4, StopCommands
  <2>2. c = StopCmd(s) => c.kind = "STOP"
    BY DEF StopCmd
  <2> QED
    BY <2>1, <2>2 DEF Genuine
<1>5. ASSUME NEW n \in Run, RunStep(n) PROVE StartsAreAssigned'
  <2>1. CASE DispatchToWorkers(n)
    BY <1>1, <2>1, DispatchCommands DEF DispatchToWorkers
  <2>2. CASE DispatchNoWorkers(n)
    <3> PICK up \in BOOLEAN :
          sub' = [w \in Worker |-> Publish(up, w, StartCmd(n, run[n].bots))]
      BY <2>2 DEF DispatchNoWorkers
    <3>1. \A w \in Worker : poll[w] = "off"
      BY <2>2 DEF DispatchNoWorkers, PollIsRegistered, TypeOK
    <3>2. sub' = sub
      BY <3>1 DEF Publish, TypeOK
    <3> QED
      BY <1>2, <2>2, <3>2 DEF DispatchNoWorkers, poolVars
  <2>3. CASE AutoStop(n)
    <3>1. run[n].sid \in Session /\ StopSession(run[n].sid) /\ handed' = handed
      BY <2>3, AutoStopEffect DEF StopSession
    <3> QED
      BY <1>1, <3>1, <1>4
  <2> QED
    BY <1>2, <1>5, <2>1, <2>2, <2>3 DEF RunStep, StartSession, MarshalSession,
      PersistSession, SaveMeta, RedisError, poolVars, pollVars
<1>6. ASSUME NEW s \in Session, APIStopSession(s) PROVE StartsAreAssigned'
  BY <1>1, <1>4, <1>6 DEF APIStopSession, StopSession
<1>7. ASSUME NEW v \in Worker, PollStep(v) PROVE StartsAreAssigned'
  <2>1. CASE PollChannel(v) \/ PollPubSub(v)
    <3>1. PICK c \in Commands(v) :
            /\ \A w \in Worker : Commands(w)' \subseteq Commands(w)
            /\ handed' \subseteq handed \cup (IF c.kind = "START" THEN {<<v, c.run>>} ELSE {})
      BY <2>1, AnswerCommands
    <3>2. c.kind = "START" => c.run \in Run /\ Assigned(c.run)
      BY CommandsType, CmdRun DEF StartsAreAssigned, Genuine
    <3> QED
      BY <1>1, <3>1, <3>2
  <2>2. CASE RegisterWorker(v)
    <3>1. cmdChan' = [cmdChan EXCEPT ![v] = <<>>] /\ UNCHANGED <<sub, reply, handed>>
      BY <2>2 DEF RegisterWorker
    <3>2. \A w \in Worker : Commands(w)' \subseteq Commands(w)
      BY <3>1 DEF Commands, TypeOK
    <3> QED
      BY <1>1, <3>1, <3>2
  <2>3. CASE Subscribe(v)
    BY <1>2, <2>3 DEF Subscribe, poolVars
  <2>4. CASE PollTimeout(v) \/ PollBroken(v)
    <3>1. /\ UNCHANGED <<cmdChan, handed>>
          /\ sub' = [sub EXCEPT ![v] = NoCmd]
          /\ reply' = reply \/ reply' = [reply EXCEPT ![v] = NoCmd]
      BY <2>4 DEF PollTimeout, PollBroken, poolVars
    <3>2. \A w \in Worker : Commands(w)' \subseteq Commands(w)
      BY <3>1 DEF Commands, TypeOK
    <3> QED
      BY <1>1, <3>1, <3>2
  <2> QED
    BY <1>7, <2>1, <2>2, <2>3, <2>4 DEF PollStep
<1>8. ASSUME NEW v \in Worker, WorkerReads(v) PROVE StartsAreAssigned'
  <2>1. \A w \in Worker : Commands(w)' \subseteq Commands(w)
    BY <1>8 DEF WorkerReads, Commands, TypeOK, poolVars
  <2> QED
    BY <1>1, <1>8, <2>1 DEF WorkerReads
<1>9. ASSUME NEW w \in Worker, NEW sid \in Session \cup {NoSession},
             NEW t \in Nat, UpdateWorkerHeartbeat(w, sid, t)
      PROVE  StartsAreAssigned'
  BY <1>2, <1>9 DEF UpdateWorkerHeartbeat, pollVars
<1>10. ASSUME NEW w \in Worker, Silence(w) PROVE StartsAreAssigned'
  BY <1>2, <1>10 DEF Silence, pollVars
<1>11. CASE Reconcile
  <2>1. \A w \in Worker : Commands(w)' \subseteq Commands(w)
    BY <1>11 DEF Reconcile, Commands, TypeOK, pollVars
  <2> QED
    BY <1>1, <1>11, <2>1 DEF Reconcile, pollVars
<1>12. CASE MetricsTick
  BY <1>2, <1>12 DEF MetricsTick, poolVars, pollVars
<1>13. ASSUME NEW s \in Session, MetricsPersist(s) PROVE StartsAreAssigned'
  BY <1>2, <1>13 DEF MetricsPersist, poolVars, pollVars
<1>14. ASSUME NEW s \in Session, RedisExpire(s) PROVE StartsAreAssigned'
  BY <1>2, <1>14 DEF RedisExpire, poolVars, pollVars
<1>15. CASE Restart
  <2>1. \A w \in Worker : Commands(w)' \subseteq Commands(w)
    BY <1>15 DEF Restart, Commands, TypeOK
  <2> QED
    BY <1>1, <1>15, <2>1 DEF Restart
<1> QED
  BY <1>3, <1>5, <1>6, <1>7, <1>8, <1>9, <1>10, <1>11, <1>12, <1>13, <1>14, <1>15
    DEF AnyStep, ServiceStep

\* Every START that is queued, published, answered or handed over is a share of a
\* session that was split over registered workers; in particular nobody ever gets
\* the command that is published when no worker is registered.
THEOREM OnlySharesDelivered == Spec => []StartsAreAssigned
<1>1. Init => StartsAreAssigned
  BY DEF Init, StartsAreAssigned, Commands
<1> QED
  BY <1>1, NextStarts, TypeCorrect, MapsAgree, PollsAreRegistered, NextIsAny, PTL DEF Spec

-----------------------------------------------------------------------------
(* No START is given to a worker twice.                                    *)

\* StartAtMostOnce of w with indices instead of cardinalities.
Once(w) ==
  \A n \in Run :
    /\ \A i, j \in 1..Len(cmdChan[w]) :
         IsStart(cmdChan[w][i], n) /\ IsStart(cmdChan[w][j], n) => i = j
    /\ \A i \in 1..Len(cmdChan[w]) :
         IsStart(cmdChan[w][i], n) => ~IsStart(sub[w], n) /\ <<w, n>> \notin handed
    /\ <<w, n>> \in handed => ~IsStart(sub[w], n)

OnceInv == \A w \in Worker : Once(w)

LEMMA OnceImplies == OnceInv => StartAtMostOnce
<1> SUFFICES ASSUME OnceInv, NEW w \in Worker, NEW n \in Run
             PROVE  /\ Cardinality(Queued(w, n)) <= 1
                    /\ Queued(w, n) # {} => ~IsStart(sub[w], n)
                    /\ <<w, n>> \in handed => Queued(w, n) = {} /\ ~IsStart(sub[w], n)
  BY DEF StartAtMostOnce
<1>1. \A i, j \in Queued(w, n) : i = j
  BY DEF OnceInv, Once, Queued
<1>2. Cardinality(Queued(w, n)) <= 1
  <2>1. CASE Queued(w, n) = {}
    <3>1. Cardinality(Queued(w, n)) = 0
      BY <2>1, FS_EmptySet
    <3> QED BY <3>1
  <2>2. CASE Queued(w, n) # {}
    <3> PICK i \in Queued(w, n) : TRUE
      BY <2>2
    <3>1. Queued(w, n) = {i}
      BY <1>1
    <3>2. Cardinality(Queued(w, n)) = 1
      BY <3>1, FS_Singleton
    <3> QED BY <3>2
  <2> QED BY <2>1, <2>2
<1> QED BY <1>2 DEF OnceInv, Once, Queued

LEMMA OnceInit == Init => OnceInv
  BY DEF Init, OnceInv, Once, IsStart

\* A worker whose channel is as it was or new, and whose handler got nothing, is fine.
LEMMA OnceSame ==
  ASSUME NEW w \in Worker, Once(w),
         cmdChan'[w] = cmdChan[w] \/ cmdChan'[w] = <<>>, sub'[w] \in {sub[w], NoCmd},
         \A n \in Run : <<w, n>> \in handed' <=> <<w, n>> \in handed
  PROVE  Once(w)'
<1>1. \A n : ~IsStart(NoCmd, n)
  BY DEF IsStart
<1>2. CASE cmdChan'[w] = cmdChan[w]
  BY <1>1, <1>2 DEF Once, IsStart
<1>3. CASE cmdChan'[w] = <<>>
  BY <1>1, <1>3 DEF Once, IsStart
<1> QED BY <1>2, <1>3

\* A command comes by one way: behind the others in the channel, or to the handler.
LEMMA OnceGets ==
  ASSUME TypeOK, NEW w \in Worker, Once(w), NEW c \in Cmd,
         \/ cmdChan'[w] = Append(cmdChan[w], c) /\ sub'[w] = sub[w]
         \/ cmdChan'[w] = cmdChan[w] /\ sub'[w] \in {sub[w], c}
         \/ c.kind = "STOP" /\ cmdChan'[w] \in {cmdChan[w], Append(cmdChan[w], c)}
                           /\ sub'[w] \in {sub[w], c},
         handed' = handed,
         \A n \in Run : IsStart(c, n) =>
           /\ \A i \in 1..Len(cmdChan[w]) : ~IsStart(cmdChan[w][i], n)
           /\ ~IsStart(sub[w], n) /\ <<w, n>> \notin handed
  PROVE  Once(w)'
<1> DEFINE q == cmdChan[w]
<1>1. q \in Seq(Cmd)
  BY DEF TypeOK
<1>2. /\ Len(q) \in Nat /\ Len(Append(q, c)) = Len(q) + 1
      /\ \A i \in 1..Len(q) : Append(q, c)[i] = q[i]
      /\ Append(q, c)[Len(q) + 1] = c
      /\ \A i \in 1..(Len(q) + 1) : i \in 1..Len(q) \/ i = Len(q) + 1
  BY <1>1
<1>3. c.kind = "STOP" => \A n \in Run : ~IsStart(c, n)
  BY DEF IsStart
<1>4. CASE cmdChan'[w] = q
  <2>1. \A n \in Run : IsStart(sub'[w], n) =>
          IsStart(sub[w], n) \/ (IsStart(c, n) /\ sub'[w] = c)
    BY DEF IsStart
  <2> QED BY <1>4, <2>1 DEF Once, IsStart
<1>5. CASE cmdChan'[w] = Append(q, c)
  <2> HIDE DEF q
  <2>1. \A n \in Run : IsStart(sub'[w], n) => IsStart(sub[w], n)
    BY <1>2, <1>3, <1>5 DEF q, IsStart
  <2>2. \A n \in Run :
          /\ \A i, j \in 1..Len(q) : IsStart(q[i], n) /\ IsStart(q[j], n) => i = j
          /\ \A i \in 1..Len(q) :
               IsStart(q[i], n) => ~IsStart(sub[w], n) /\ <<w, n>> \notin handed
          /\ <<w, n>> \in handed => ~IsStart(sub[w], n)
    BY DEF Once, q
  <2>3. \A n \in Run : IsStart(c, n) =>
           /\ \A i \in 1..Len(q) : ~IsStart(q[i], n)
           /\ ~IsStart(sub[w], n) /\ <<w, n>> \notin handed
    BY DEF q
  <2> SUFFICES ASSUME NEW n \in Run
               PROVE  /\ \A i, j \in 1..Len(cmdChan'[w]) :
                           IsStart(cmdChan'[w][i], n) /\ IsStart(cmdChan'[w][j], n) => i = j
                      /\ \A i \in 1..Len(cmdChan'[w]) :
                           IsStart(cmdChan'[w][i], n) =>
                             ~IsStart(sub'[w], n) /\ <<w, n>> \notin handed'
                      /\ <<w, n>> \in handed' => ~IsStart(sub'[w], n)
    BY DEF Once, IsStart
  <2>4. \A i \in 1..(Len(q) + 1) : IsStart(cmdChan'[w][i], n) =>
          \/ i \in 1..Len(q) /\ IsStart(q[i], n)
          \/ i = Len(q) + 1 /\ IsStart(c, n)
    BY <1>2, <1>5
  <2>5. Len(cmdChan'[w]) = Len(q) + 1
    BY <1>2, <1>5
  <2> QED BY <2>1, <2>2, <2>3, <2>4, <2>5
<1> QED BY <1>4, <1>5

\* What is answered is in no other place any more.
LEMMA OnceAnswered ==
  ASSUME TypeOK, OnceInv, NEW v \in Worker, PollChannel(v) \/ PollPubSub(v)
  PROVE  OnceInv'
<1>1. ASSUME NEW w \in Worker, w # v PROVE Once(w)'
  <2>1. cmdChan'[w] = cmdChan[w] /\ sub'[w] = sub[w]
    BY <1>1 DEF PollChannel, PollPubSub, Answer, TypeOK
  <2>2. \A n \in Run : <<w, n>> \in handed' <=> <<w, n>> \in handed
    BY <1>1 DEF PollChannel, PollPubSub, Answer
  <2> QED BY <2>1, <2>2, OnceSame DEF OnceInv
<1>2. sub'[v] = NoCmd /\ \A n : ~IsStart(NoCmd, n)
  BY DEF PollChannel, PollPubSub, Answer, TypeOK, IsStart
<1>3. CASE PollPubSub(v)
  <2>1. cmdChan' = cmdChan
    BY <1>3 DEF PollPubSub
  <2>2. \A n \in Run : <<v, n>> \in handed' => <<v, n>> \in handed \/ IsStart(sub[v], n)
    BY <1>3 DEF PollPubSub, Answer, IsStart
  <2>3. Once(v)'
    BY <1>2, <2>1, <2>2 DEF OnceInv, Once, IsStart
  <2> QED BY <1>1, <2>3 DEF OnceInv
<1>4. CASE PollChannel(v)
  <2> DEFINE q == cmdChan[v]
  <2>1. q \in Seq(Cmd) /\ q # <<>> /\ cmdChan'[v] = Tail(q)
    BY <1>4 DEF TypeOK, PollChannel
  <2>2. /\ Len(q) \in Nat \ {0} /\ Head(q) = q[1] /\ 1 \in 1..Len(q)
        /\ Len(Tail(q)) = Len(q) - 1
    BY <2>1
  <2>3. \A i \in 1..Len(Tail(q)) : /\ Tail(q)[i] = q[i + 1] /\ i + 1 \in 1..Len(q)
                                  /\ i + 1 # 1 /\ i \in Nat
    BY <2>1, <2>2
  <2>4. q[1] # NoCmd
    BY <2>1, <2>2, NoCmdAssumption
  <2>5. \A n \in Run : <<v, n>> \in handed' => <<v, n>> \in handed \/ IsStart(q[1], n)
    BY <1>4, <2>2, <2>4 DEF PollChannel, Answer, IsStart
  <2>6. \A n \in Run :
          /\ \A i, j \in 1..Len(q) : IsStart(q[i], n) /\ IsStart(q[j], n) => i = j
          /\ \A i \in 1..Len(q) : IsStart(q[i], n) => <<v, n>> \notin handed
    BY DEF OnceInv, Once
  <2> HIDE DEF q
  <2>7. ASSUME NEW n \in Run, NEW i \in 1..Len(Tail(q)), IsStart(Tail(q)[i], n)
        PROVE  /\ \A j \in 1..Len(Tail(q)) : IsStart(Tail(q)[j], n) => i = j
               /\ <<v, n>> \notin handed'
    <3>1. i + 1 \in 1..Len(q) /\ IsStart(q[i + 1], n) /\ i + 1 # 1 /\ i \in Nat
      BY <2>3, <2>7
    <3>2. ~IsStart(q[1], n)
      BY <2>2, <2>6, <3>1
    <3>3. \A j \in 1..Len(Tail(q)) : IsStart(Tail(q)[j], n) => i = j
      <4> SUFFICES ASSUME NEW j \in 1..Len(Tail(q)), IsStart(Tail(q)[j], n)
                   PROVE  i = j
        OBVIOUS
      <4>1. j + 1 \in 1..Len(q) /\ IsStart(q[j + 1], n) /\ j \in Nat
        BY <2>3
      <4>2. i + 1 = j + 1
        BY <2>6, <3>1, <4>1
      <4> QED BY <3>1, <4>1, <4>2
    <3> QED BY <2>5, <2>6, <3>1, <3>2, <3>3
  <2>8. Once(v)'
    BY <1>2, <2>1, <2>7 DEF Once, IsStart
  <2> QED BY <1>1, <2>8 DEF OnceInv
<1> QED BY <1>3, <1>4

LEMMA NextOnce ==
  TypeOK /\ MapAgrees /\ PollIsRegistered /\ StartsAreAssigned /\ OnceInv /\ [AnyStep]_vars
    => OnceInv'
<1> SUFFICES ASSUME TypeOK, MapAgrees, PollIsRegistered, StartsAreAssigned, OnceInv, [AnyStep]_vars
             PROVE  OnceInv'
  OBVIOUS
<1>1. ASSUME \A w \in Worker : cmdChan'[w] = cmdChan[w] \/ cmdChan'[w] = <<>>,
             \A w \in Worker : sub'[w] \in {sub[w], NoCmd}, handed' = handed
      PROVE  OnceInv'
  BY <1>1, OnceSame DEF OnceInv
<1>2. ASSUME UNCHANGED <<cmdChan, sub, handed>> PROVE OnceInv'
  BY <1>1, <1>2
<1>3. ASSUME NEW s \in Session, StopSession(s) PROVE OnceInv'
  <2>1. StopCmd(s) \in Cmd /\ StopCmd(s).kind = "STOP" /\ handed' = handed
    BY <1>3, StopCmdType DEF StopCmd, StopSession
  <2>2. \A w \in Worker : cmdChan'[w] \in {cmdChan[w], Append(cmdChan[w], StopCmd(s))}
    BY <1>3 DEF StopSession
  <2>3. \A w \in Worker : sub'[w] \in {sub[w], StopCmd(s)}
    BY <1>3, PublishAdds DEF StopSession
  <2>4. \A n \in Run : ~IsStart(StopCmd(s), n)
    BY <2>1 DEF IsStart
  <2> QED BY <2>1, <2>2, <2>3, <2>4, OnceGets DEF OnceInv
\* What was not dealt out yet is nowhere.
<1>4. ASSUME NEW n \in Run, DispatchToWorkers(n) PROVE OnceInv'
  <2> PICK extra \in SUBSET workers, up \in SUBSET workers : DispatchToWorkers(n)!3!(extra, up)
    BY <1>4 DEF DispatchToWorkers
  <2>1. ~Assigned(n) /\ handed' = handed
    BY <1>4 DEF DispatchToWorkers, Assigned
  <2>2. ASSUME NEW w \in Worker
        PROVE  /\ \A i \in 1..Len(cmdChan[w]) : ~IsStart(cmdChan[w][i], n)
               /\ ~IsStart(sub[w], n) /\ <<w, n>> \notin handed
    <3>1. \A c \in Commands(w) : ~IsStart(c, n)
      BY <2>1 DEF StartsAreAssigned, Genuine, IsStart
    <3> QED BY <2>1, <3>1 DEF Commands, IsStart, StartsAreAssigned
  <2>3. ASSUME NEW w \in Worker, w \in workers PROVE Once(w)'
    <3> DEFINE x == StartCmd(n, Share(run[n].bots, workers, extra, w))
    <3>1. Share(run[n].bots, workers, extra, w) \in Nat
      BY <2>3, ShareType DEF TypeOK, RunRec
    <3>2. x \in Cmd /\ x.run = n
      BY <1>4, <3>1, StartCmdType DEF TypeOK, DispatchToWorkers, StartCmd
    <3>3. \A m \in Run : IsStart(x, m) => m = n
      BY <3>2 DEF IsStart
    <3>4. \/ cmdChan'[w] = Append(cmdChan[w], x) /\ sub'[w] = sub[w]
          \/ cmdChan'[w] = cmdChan[w] /\ sub'[w] \in {sub[w], x}
      BY <2>3, PublishAdds
    <3> HIDE DEF x
    <3> QED BY <2>1, <2>2, <3>2, <3>3, <3>4, OnceGets DEF OnceInv
  <2>4. ASSUME NEW w \in Worker, w \notin workers PROVE Once(w)'
    <3>1. cmdChan'[w] = cmdChan[w] /\ sub'[w] = sub[w]
      BY <2>4
    <3> QED BY <2>1, <3>1, OnceSame DEF OnceInv
  <2> QED BY <2>3, <2>4 DEF OnceInv
<1>5. ASSUME NEW n \in Run, DispatchNoWorkers(n) PROVE OnceInv'
  <2> PICK up \in BOOLEAN :
        sub' = [w \in Worker |-> Publish(up, w, StartCmd(n, run[n].bots))]
    BY <1>5 DEF DispatchNoWorkers
  <2>1. \A w \in Worker : poll[w] = "off"
    BY <1>5 DEF DispatchNoWorkers, PollIsRegistered, TypeOK
  <2>2. sub' = sub
    BY <2>1 DEF Publish, TypeOK
  <2> QED BY <1>2, <1>5, <2>2 DEF DispatchNoWorkers, poolVars
<1>6. ASSUME NEW n \in Run, AutoStop(n) PROVE OnceInv'
  <2>1. run[n].sid \in Session /\ StopSession(run[n].sid)
    BY <1>6, AutoStopEffect
  <2> QED BY <1>3, <2>1
<1>7. ASSUME NEW n \in Run, RunStep(n) PROVE OnceInv'
  BY <1>2, <1>4, <1>5, <1>6, <1>7 DEF RunStep, StartSession, MarshalSession,
    PersistSession, SaveMeta, RedisError, poolVars, pollVars
<1>8. ASSUME NEW v \in Worker, PollStep(v) PROVE OnceInv'
  <2>1. CASE RegisterWorker(v)
    BY <1>1, <2>1 DEF RegisterWorker, TypeOK
  <2>2. CASE Subscribe(v)
    BY <1>2, <2>2 DEF Subscribe, poolVars
  <2>3. CASE PollTimeout(v) \/ PollBroken(v)
    BY <1>1, <2>3 DEF PollTimeout, PollBroken, poolVars, TypeOK
  <2> QED BY <1>8, <2>1, <2>2, <2>3, OnceAnswered DEF PollStep
<1>9. ASSUME NEW w \in Worker, WorkerReads(w) PROVE OnceInv'
  BY <1>2, <1>9 DEF WorkerReads, poolVars
<1>10. ASSUME NEW w \in Worker, NEW sid \in Session \cup {NoSession},
              NEW t \in Nat, UpdateWorkerHeartbeat(w, sid, t)
       PROVE  OnceInv'
  BY <1>2, <1>10 DEF UpdateWorkerHeartbeat, pollVars
<1>11. ASSUME NEW w \in Worker, Silence(w) PROVE OnceInv'
  BY <1>2, <1>11 DEF Silence, pollVars
<1>12. CASE Reconcile
  BY <1>1, <1>12 DEF Reconcile, pollVars
<1>13. CASE MetricsTick
  BY <1>2, <1>13 DEF MetricsTick, poolVars, pollVars
<1>14. ASSUME NEW s \in Session, MetricsPersist(s) \/ RedisExpire(s) PROVE OnceInv'
  BY <1>2, <1>14 DEF MetricsPersist, RedisExpire, poolVars, pollVars
<1>15. CASE Restart
  BY <1>1, <1>15 DEF Restart
<1>16. CASE UNCHANGED vars
  BY <1>2, <1>16 DEF vars, poolVars, pollVars
<1> QED
  BY <1>3, <1>7, <1>8, <1>9, <1>10, <1>11, <1>12, <1>13, <1>14, <1>15, <1>16
    DEF AnyStep, ServiceStep, APIStopSession

\* A worker is never given the START of one dispatch twice, by neither of the two ways
\* nor by both: a second START would replace the bots of the first.
THEOREM GivenOnce == Spec => []StartAtMostOnce
<1> QED
  BY OnceInit, NextOnce, OnceImplies, TypeCorrect, MapsAgree, PollsAreRegistered,
     OnlySharesDelivered, NextIsAny, PTL DEF Spec

-----------------------------------------------------------------------------
(* The shares of a dispatch add up.                                        *)

LEMMA SharesAddUp ==
  ASSUME NEW W \in SUBSET Worker, W # {}, NEW b \in Nat, NEW extra \in SUBSET W,
         Cardinality(extra) = b % Cardinality(W), NEW share,
         share = [w \in Worker |-> IF w \in W THEN Share(b, W, extra, w) ELSE 0]
  PROVE  /\ Cardinality({x \in Worker \X (1..b) : x[2] <= share[x[1]]}) = b
         /\ \A w \in Worker : share[w] <= b
<1> DEFINE N == Cardinality(W)
           q == b \div N
           r == b % N
<1>1. /\ IsFiniteSet(W) /\ IsFiniteSet(extra) /\ N \in Nat \ {0}
  BY FS_Subset, FS_CardinalityType, FS_EmptySet, ConstantsAssumption
<1>2. q \in Nat /\ r \in Nat /\ b = N * q + r /\ q <= b /\ (r > 0 => q + 1 <= b)
  BY <1>1, DivMod
<1>3. \A w \in Worker :
        share[w] = IF w \in W THEN (IF w \in extra THEN q + 1 ELSE q + 0) ELSE 0
  BY DEF Share
<1>4. extra # {} => q + 1 <= b
  BY <1>1, <1>2, FS_CardinalityType, FS_EmptySet
<1> HIDE DEF q
<1>5. {x \in Worker \X (1..b) : x[2] <= share[x[1]]} = (W \X (1..q)) \cup (extra \X {q + 1})
  <2> DEFINE T == {x \in Worker \X (1..b) : x[2] <= share[x[1]]}
             U == (W \X (1..q)) \cup (extra \X {q + 1})
  <2>1. ASSUME NEW w \in Worker, NEW k \in 1..b
        PROVE  k <= share[w] <=> (w \in W /\ k \in 1..q) \/ (w \in extra /\ k = q + 1)
    BY <1>2, <1>3
  <2>2. \A x \in T : x \in U
    BY <2>1
  <2>3. \A x \in U : x \in Worker \X (1..b)
    BY <1>2, <1>4
  <2>4. \A x \in U : x \in T
    BY <2>1, <2>3
  <2> QED BY <2>2, <2>4
<1>6. Cardinality(W \X (1..q)) = N * q /\ IsFiniteSet(W \X (1..q))
  <2>1. IsFiniteSet(1..q) /\ Cardinality(1..q) = q
    BY <1>2, FS_Interval
  <2> QED BY <1>1, <2>1, FS_Product
<1>7. Cardinality(extra \X {q + 1}) = r /\ IsFiniteSet(extra \X {q + 1})
  <2>1. IsFiniteSet({q + 1}) /\ Cardinality({q + 1}) = 1
    BY FS_Singleton
  <2>2. Cardinality(extra \X {q + 1}) = Cardinality(extra) * 1
    BY <1>1, <2>1, FS_Product
  <2> QED BY <1>1, <1>2, <2>1, <2>2, FS_Product
<1>8. (W \X (1..q)) \cap (extra \X {q + 1}) = {}
  BY <1>2
<1>9. Cardinality((W \X (1..q)) \cup (extra \X {q + 1})) = N * q + r - 0
  BY <1>6, <1>7, <1>8, FS_Union, FS_EmptySet
<1>10. N * q \in Nat
  BY <1>1, <1>2
<1>11. Cardinality({x \in Worker \X (1..b) : x[2] <= share[x[1]]}) = b
  <2>1. Cardinality({x \in Worker \X (1..b) : x[2] <= share[x[1]]}) = N * q + r - 0
    BY <1>5, <1>9
  <2>2. N * q + r - 0 = b
    BY <1>2, <1>10
  <2> QED BY <2>1, <2>2
<1>12. \A w \in Worker : share[w] <= b
  BY <1>2, <1>3, <1>4
<1> QED BY <1>11, <1>12

LEMMA SharesEven ==
  ASSUME NEW W \in SUBSET Worker, W # {}, NEW b \in Nat, NEW extra, NEW share,
         share = [w \in Worker |-> IF w \in W THEN Share(b, W, extra, w) ELSE 0]
  PROVE  \A v, w \in Worker : share[v] > 0 => share[w] <= share[v] + 1
<1>1. PICK q \in Nat : q = b \div Cardinality(W)
  BY FS_Subset, FS_CardinalityType, FS_EmptySet, ConstantsAssumption
<1>2. \A w \in Worker : share[w] = IF w \in W THEN q + (IF w \in extra THEN 1 ELSE 0) ELSE 0
  BY <1>1 DEF Share
<1> QED BY <1>2

\* Only a dispatch deals out shares.
LEMMA NewlyAssigned ==
  ASSUME TypeOK, MapAgrees, [AnyStep]_vars, NEW m \in Run, ~Assigned(m), Assigned(m)'
  PROVE  DispatchToWorkers(m)
<1>1. ASSUME NEW n \in Run, NEW s \in Session, NEW b \in BotCounts, StartSession(n, s, b)
      PROVE  FALSE
  BY <1>1, StartEffect DEF Assigned
<1>2. ASSUME NEW n \in Run,
             MarshalSession(n) \/ PersistSession(n) \/ SaveMeta(n) \/ RedisError(n)
               \/ DispatchNoWorkers(n)
      PROVE  FALSE
  <2>1. m # n => run'[m] = run[m]
    BY <1>2, MovePc
  <2>2. run'[n].pc \in {"persist", "meta", "dispatch", "failed", "unassigned"}
    BY <1>2 DEF MarshalSession, PersistSession, SaveMeta, RedisError, DispatchNoWorkers,
      TypeOK, RunRec
  <2> QED BY <2>1, <2>2 DEF Assigned
<1>3. ASSUME NEW n \in Run, DispatchToWorkers(n) PROVE m = n
  BY <1>3, DispatchEffect DEF Assigned
<1>4. ASSUME NEW n \in Run, AutoStop(n) PROVE FALSE
  BY <1>4, AutoStopEffect DEF Assigned
<1>5. CASE Restart
  BY <1>5, RestartEffect DEF Assigned, AfterCrash
<1>6. UNCHANGED run => FALSE
  BY DEF Assigned
<1> QED BY <1>1, <1>2, <1>3, <1>4, <1>5, <1>6, QuietSteps DEF RunStep, APIStopSession

LEMMA NextShares == TypeOK /\ MapAgrees /\ SharesExact /\ [AnyStep]_vars => SharesExact'
<1> SUFFICES ASSUME TypeOK, MapAgrees, SharesExact, [AnyStep]_vars, NEW m \in Run, Assigned(m)'
             PROVE  /\ Cardinality(BotsOf(m)') = run'[m].bots
                    /\ \A w \in Worker : run'[m].share[w] <= run'[m].bots
                    /\ \A v, w \in Worker :
                         run'[m].share[v] > 0 => run'[m].share[w] <= run'[m].share[v] + 1
  BY DEF SharesExact
<1>1. CASE Assigned(m)
  <2>1. run'[m].bots = run[m].bots /\ run'[m].share = run[m].share
    BY <1>1, AssignedKept
  <2>2. BotsOf(m)' = BotsOf(m)
    BY <2>1 DEF BotsOf
  <2> QED BY <1>1, <2>1, <2>2 DEF SharesExact
<1>2. CASE ~Assigned(m)
  <2>1. DispatchToWorkers(m)
    BY <1>2, NewlyAssigned
  <2>2. PICK extra \in SUBSET workers, up \in SUBSET workers : DispatchToWorkers(m)!3!(extra, up)
    BY <2>1 DEF DispatchToWorkers
  <2> DEFINE b  == run[m].bots
             sh == [w \in Worker |-> IF w \in workers THEN Share(b, workers, extra, w) ELSE 0]
  <2>3. b \in Nat /\ workers \in SUBSET Worker /\ workers # {}
    BY <2>1 DEF TypeOK, RunRec, DispatchToWorkers
  <2>4. Cardinality(extra) = b % Cardinality(workers)
    BY <2>2
  <2>5. run'[m].bots = b /\ run'[m].share = sh
    BY <2>2 DEF TypeOK, RunRec
  <2>6. sh = [w \in Worker |-> IF w \in workers THEN Share(b, workers, extra, w) ELSE 0]
    OBVIOUS
  <2> HIDE DEF b, sh
  <2>7. Cardinality({x \in Worker \X (1..b) : x[2] <= sh[x[1]]}) = b
    BY <2>3, <2>4, <2>6, SharesAddUp
  <2>8. \A w \in Worker : sh[w] <= b
    BY <2>3, <2>4, <2>6, SharesAddUp
  <2>9. \A v, w \in Worker : sh[v] > 0 => sh[w] <= sh[v] + 1
    BY <2>3, <2>6, SharesEven
  <2>10. BotsOf(m)' = {x \in Worker \X (1..b) : x[2] <= sh[x[1]]}
    BY <2>5 DEF BotsOf
  <2> QED BY <2>5, <2>7, <2>8, <2>9, <2>10
<1> QED BY <1>1, <1>2

\* Every dispatch hands out exactly the bots of its session, evenly.
THEOREM SharesAreExact == Spec => []SharesExact
<1>1. Init => SharesExact
  BY DEF Init, SharesExact, Assigned
<1> QED BY <1>1, NextShares, TypeCorrect, MapsAgree, NextIsAny, PTL DEF Spec

-----------------------------------------------------------------------------
(* BotWorker, for any commands: its types, that one session trades at a    *)
(* time, and how the counts of orders change, on which the accounting of   *)
(* Fleet rests.                                                            *)

BatchType ==
  /\ alive \subseteq Worker
  /\ curSession \in [Worker -> Session \cup {NoSession}]
  /\ ctx \in [Worker -> Run \cup {NoRun}]
  /\ batch \in [Worker -> [Run -> BatchRec]]
  /\ \A w \in Worker : active[w] \subseteq {n \in Run : batch[w][n].st \in {"live", "gone"}}
  /\ active \in [Worker -> SUBSET Run]

\* OneSessionAtATime of dead workers as well.
OneEverywhere ==
  \A w \in Worker, n \in Run :
    Running(w, n) /\ ~batch[w][n].cancelled =>
      n = ctx[w] /\ batch[w][n].sid = curSession[w]

\* Bots send nothing before they are spawned.
SentFits ==
  \A w \in Worker, n \in Run :
    /\ batch[w][n].sent <= MaxSent
    /\ batch[w][n].st \in {"none", "spawning"} => batch[w][n].sent = 0

BatchInv == BatchType /\ OneEverywhere /\ SentFits

\* No step takes back an order, and batches become active before they have sent any.
OrdersStay(w) ==
  /\ \A n \in Run : batch[w][n].sent <= batch'[w][n].sent
  /\ active[w] \subseteq active'[w]
  /\ \A n \in active'[w] \ active[w] : batch[w][n].sent = 0

\* Cancelling changes nothing but the mark.
LEMMA CancelKeeps ==
  ASSUME NEW b \in [Run -> BatchRec], NEW ns
  PROVE  /\ Cancel(b, ns) \in [Run -> BatchRec]
         /\ \A n \in Run :
              /\ Cancel(b, ns)[n].st = b[n].st /\ Cancel(b, ns)[n].sid = b[n].sid
              /\ Cancel(b, ns)[n].sent = b[n].sent /\ Cancel(b, ns)[n].size = b[n].size
              /\ Cancel(b, ns)[n].cancelled <=> b[n].cancelled \/ n \in ns
<1>1. \A n \in Run : [b[n] EXCEPT !.cancelled = b[n].cancelled \/ n \in ns] \in BatchRec
  BY DEF BatchRec
<1>2. Cancel(b, ns) = [n \in Run |-> [b[n] EXCEPT !.cancelled = b[n].cancelled \/ n \in ns]]
  BY DEF Cancel
<1> QED BY <1>1, <1>2 DEF BatchRec

LEMMA BatchInit == WorkerInit => BatchInv
<1> SUFFICES ASSUME WorkerInit PROVE BatchInv
  OBVIOUS
<1>1. NoBatch \in BatchRec /\ NoBatch.st = "none" /\ NoBatch.sent = 0
  BY DEF NoBatch, BatchRec
<1> QED BY <1>1, BotWorkerAssumption
          DEF WorkerInit, BatchInv, BatchType, OneEverywhere, SentFits, Running

\* START: what ran before is cancelled, and the new batch is the one that counts.
LEMMA StartStep ==
  ASSUME BatchInv, NEW w \in Worker, NEW n \in Run, NEW s \in Session, NEW b \in Nat,
         batch[w][n].st = "none", HandleStart(w, n, s, b)
  PROVE  BatchInv' /\ \A v \in Worker : OrdersStay(v)
<1>1. BatchType /\ OneEverywhere /\ SentFits
  BY DEF BatchInv
<1> DEFINE new == [NoBatch EXCEPT !.st = "spawning", !.sid = s, !.size = BotCount(b)]
           row == [Cancel(batch[w], {ctx[w]}) EXCEPT ![n] = new]
<1>2. new \in BatchRec /\ new.st = "spawning" /\ new.sid = s /\ new.sent = 0
  BY BotWorkerAssumption DEF NoBatch, BatchRec, BotCount
<1>3. batch' = [batch EXCEPT ![w] = row]
  BY DEF HandleStart
<1>4. /\ Cancel(batch[w], {ctx[w]}) \in [Run -> BatchRec]
      /\ \A m \in Run :
           /\ Cancel(batch[w], {ctx[w]})[m].st = batch[w][m].st
           /\ Cancel(batch[w], {ctx[w]})[m].sid = batch[w][m].sid
           /\ Cancel(batch[w], {ctx[w]})[m].sent = batch[w][m].sent
           /\ Cancel(batch[w], {ctx[w]})[m].cancelled <=>
                batch[w][m].cancelled \/ m \in {ctx[w]}
  BY <1>1, CancelKeeps DEF BatchType
<1> HIDE DEF new
<1>5. /\ row \in [Run -> BatchRec] /\ row[n] = new
      /\ \A m \in Run \ {n} : /\ row[m].st = batch[w][m].st
                              /\ row[m].sent = batch[w][m].sent
                              /\ row[m].cancelled <=> batch[w][m].cancelled \/ m = ctx[w]
  BY <1>2, <1>4
<1> HIDE DEF row
<1>6. /\ ctx' = [ctx EXCEPT ![w] = n] /\ curSession' = [curSession EXCEPT ![w] = s]
      /\ UNCHANGED <<alive, active>>
  BY DEF HandleStart
<1>7. BatchType'
  <2>1. /\ batch' \in [Worker -> [Run -> BatchRec]] /\ ctx' \in [Worker -> Run \cup {NoRun}]
        /\ curSession' \in [Worker -> Session \cup {NoSession}]
    BY <1>1, <1>3, <1>5, <1>6 DEF BatchType
  <2>2. \A v \in Worker : active'[v] \subseteq {m \in Run : batch'[v][m].st \in {"live", "gone"}}
    <3> TAKE v \in Worker
    <3>1. CASE v = w
      <4>1. n \notin active[w]
        BY <1>1 DEF BatchType
      <4> QED BY <1>1, <1>3, <1>5, <1>6, <3>1, <4>1 DEF BatchType
    <3>2. CASE v # w
      BY <1>1, <1>3, <1>6, <3>2 DEF BatchType
    <3> QED BY <3>1, <3>2
  <2> QED BY <1>1, <1>6, <2>1, <2>2 DEF BatchType
<1>8. OneEverywhere'
  <2> SUFFICES ASSUME NEW v \in Worker, NEW m \in Run,
                      batch'[v][m].st \in {"spawning", "live"}, ~batch'[v][m].cancelled
               PROVE  m = ctx'[v] /\ batch'[v][m].sid = curSession'[v]
    BY DEF OneEverywhere, Running
  <2>1. CASE v # w
    <3>1. batch'[v] = batch[v] /\ ctx'[v] = ctx[v] /\ curSession'[v] = curSession[v]
      BY <1>1, <1>3, <1>6, <2>1 DEF BatchType
    <3> QED BY <1>1, <3>1 DEF OneEverywhere, Running
  <2>2. CASE v = w
    <3>1. batch'[w] = row /\ ctx'[w] = n /\ curSession'[w] = s
      BY <1>1, <1>3, <1>6 DEF BatchType
    <3>2. CASE m = n
      BY <1>2, <1>5, <2>2, <3>1, <3>2
    <3>3. CASE m # n
      BY <1>1, <1>5, <2>2, <3>1, <3>3 DEF OneEverywhere, Running
    <3> QED BY <3>2, <3>3
  <2> QED BY <2>1, <2>2
<1>9. \A v \in Worker, m \in Run : /\ batch'[v][m].sent = batch[v][m].sent
                                   /\ batch'[v][m].sent = 0 \/ batch'[v][m].st = batch[v][m].st
  <2> TAKE v \in Worker, m \in Run
  <2>1. CASE v = w
    <3>1. batch[w][n].sent = 0 /\ batch'[w] = row
      BY <1>1, <1>3 DEF SentFits, BatchType
    <3> QED BY <1>2, <1>5, <2>1, <3>1
  <2>2. CASE v # w
    BY <1>1, <1>3, <2>2 DEF BatchType
  <2> QED BY <2>1, <2>2
<1>10. SentFits'
  BY <1>1, <1>9, BotWorkerAssumption DEF SentFits
<1>11. \A v \in Worker : OrdersStay(v)
  BY <1>1, <1>6, <1>7, <1>9 DEF OrdersStay, SentFits, BatchType, BatchRec
<1> QED BY <1>7, <1>8, <1>10, <1>11 DEF BatchInv

\* STOP: whatever runs and is not cancelled is of the context, so all is cancelled.
LEMMA StopStep ==
  ASSUME BatchInv, NEW w \in Worker, HandleStop(w)
  PROVE  /\ BatchInv'
         /\ \A v \in Worker, n \in Run : batch'[v][n].sent = batch[v][n].sent
         /\ \A v \in Worker : active'[v] = IF v = w THEN {} ELSE active[v]
<1>1. BatchType /\ OneEverywhere /\ SentFits
  BY DEF BatchInv
<1> DEFINE told == active[w] \cup {ctx[w]}
           row == Cancel(batch[w], told)
<1>2. /\ row \in [Run -> BatchRec]
      /\ \A n \in Run : /\ row[n].st = batch[w][n].st /\ row[n].sid = batch[w][n].sid
                        /\ row[n].sent = batch[w][n].sent
                        /\ row[n].cancelled <=> batch[w][n].cancelled \/ n \in told
  BY <1>1, CancelKeeps DEF BatchType
<1> HIDE DEF row, told
<1>3. /\ batch' = [batch EXCEPT ![w] = row] /\ active' = [active EXCEPT ![w] = {}]
      /\ ctx' = [ctx EXCEPT ![w] = NoRun] /\ curSession' = [curSession EXCEPT ![w] = NoSession]
      /\ alive' = alive
  BY DEF HandleStop, row, told
<1>4. BatchType'
  BY <1>1, <1>2, <1>3 DEF BatchType
<1>5. OneEverywhere'
  <2> SUFFICES ASSUME NEW v \in Worker, NEW m \in Run,
                      batch'[v][m].st \in {"spawning", "live"}, ~batch'[v][m].cancelled
               PROVE  m = ctx'[v] /\ batch'[v][m].sid = curSession'[v]
    BY DEF OneEverywhere, Running
  <2>1. CASE v # w
    <3>1. batch'[v] = batch[v] /\ ctx'[v] = ctx[v] /\ curSession'[v] = curSession[v]
      BY <1>1, <1>3, <2>1 DEF BatchType
    <3> QED BY <1>1, <3>1 DEF OneEverywhere, Running
  <2>2. CASE v = w
    <3>1. batch'[w] = row
      BY <1>1, <1>3 DEF BatchType
    <3>2. ~row[m].cancelled /\ row[m].st \in {"spawning", "live"}
      BY <2>2, <3>1
    <3>3. m \notin told /\ ~batch[w][m].cancelled /\ batch[w][m].st \in {"spawning", "live"}
      BY <1>2, <3>2
    <3> QED BY <1>1, <3>3 DEF OneEverywhere, Running, told
  <2> QED BY <2>1, <2>2
<1>6. \A v \in Worker, m \in Run : /\ batch'[v][m].sent = batch[v][m].sent
                                   /\ batch'[v][m].st = batch[v][m].st
  BY <1>1, <1>2, <1>3 DEF BatchType
<1>7. SentFits'
  BY <1>1, <1>6 DEF SentFits
<1>8. \A v \in Worker : active'[v] = IF v = w THEN {} ELSE active[v]
  BY <1>1, <1>3 DEF BatchType
<1> QED BY <1>4, <1>5, <1>6, <1>7, <1>8 DEF BatchInv

\* A step of bots changes how far one batch is, and never makes it run again.
LEMMA BotSteps ==
  ASSUME BatchInv, NEW w \in Worker, NEW n \in Run, BotStep(w, n)
  PROVE  BatchInv' /\ \A v \in Worker : OrdersStay(v)
<1>1. BatchType /\ OneEverywhere /\ SentFits
  BY DEF BatchInv
<1>2. PICK r \in BatchRec :
        /\ batch' = [batch EXCEPT ![w][n] = r]
        /\ r.sid = batch[w][n].sid /\ r.cancelled = batch[w][n].cancelled
        /\ r.st \in {"live", "gone"} /\ batch[w][n].st \in {"spawning", "live"}
        /\ batch[w][n].sent <= r.sent /\ r.sent <= MaxSent
  <2> DEFINE b == batch[w][n]
  <2>0. b \in BatchRec /\ b.sent \in Nat /\ b.sent <= MaxSent
    BY <1>1 DEF BatchType, SentFits, BatchRec
  <2>1. CASE SpawnBots(w, n)
    <3> DEFINE r == [b EXCEPT !.st = "live"]
    <3>1. r \in BatchRec /\ r.sid = b.sid /\ r.cancelled = b.cancelled /\ r.st = "live"
          /\ r.sent = b.sent
      BY <2>0 DEF BatchRec
    <3>2. batch' = [batch EXCEPT ![w][n] = r] /\ b.st = "spawning"
      BY <2>1 DEF SpawnBots
    <3>3. b.sent <= r.sent /\ r.sent <= MaxSent
      BY <2>0, <3>1
    <3> QED BY <3>1, <3>2, <3>3
  <2>2. CASE BotSend(w, n)
    <3> DEFINE r == [b EXCEPT !.sent = b.sent + 1]
    <3>1. r \in BatchRec /\ r.sid = b.sid /\ r.cancelled = b.cancelled /\ r.st = b.st
          /\ r.sent = b.sent + 1
      BY <2>0 DEF BatchRec
    <3>2. batch' = [batch EXCEPT ![w][n] = r] /\ b.st = "live" /\ b.sent < MaxSent
      BY <2>2 DEF BotSend
    <3>3. b.sent <= b.sent + 1 /\ b.sent + 1 <= MaxSent
      BY <2>0, <3>2, BotWorkerAssumption
    <3> QED BY <3>1, <3>2, <3>3
  <2>3. CASE BotsDone(w, n) \/ BotsFail(w, n)
    <3> DEFINE r == [b EXCEPT !.st = "gone"]
    <3>1. r \in BatchRec /\ r.sid = b.sid /\ r.cancelled = b.cancelled /\ r.st = "gone"
          /\ r.sent = b.sent
      BY <2>0 DEF BatchRec
    <3>2. batch' = [batch EXCEPT ![w][n] = r] /\ b.st = "live"
      BY <2>3 DEF BotsDone, BotsFail
    <3>3. b.sent <= r.sent /\ r.sent <= MaxSent
      BY <2>0, <3>1
    <3> QED BY <3>1, <3>2, <3>3
  <2> QED BY <2>1, <2>2, <2>3 DEF BotStep
<1>3. UNCHANGED <<alive, curSession, ctx>>
  BY DEF BotStep, SpawnBots, BotSend, BotsDone, BotsFail
<1>4. \/ active' = active
      \/ batch[w][n].st = "spawning" /\ active' = [active EXCEPT ![w] = active[w] \cup {n}]
  BY DEF BotStep, SpawnBots, BotSend, BotsDone, BotsFail
<1>5. batch' \in [Worker -> [Run -> BatchRec]]
      /\ \A v \in Worker, m \in Run :
           batch'[v][m] = IF v = w /\ m = n THEN r ELSE batch[v][m]
  BY <1>1, <1>2 DEF BatchType
<1>6. active' \in [Worker -> SUBSET Run]
      /\ \A v \in Worker : active'[v] \subseteq active[v] \cup (IF v = w THEN {n} ELSE {})
  BY <1>1, <1>4 DEF BatchType
<1>7. BatchType'
  BY <1>1, <1>2, <1>3, <1>5, <1>6 DEF BatchType
<1>8. OneEverywhere'
  BY <1>1, <1>2, <1>3, <1>5 DEF OneEverywhere, Running
<1>9. SentFits'
  BY <1>1, <1>2, <1>5 DEF SentFits
<1>10. \A v \in Worker : OrdersStay(v)
  <2>0. \A v \in Worker, m \in Run : batch[v][m].sent \in Nat
    BY <1>1 DEF BatchType, BatchRec
  <2>1. \A v \in Worker, m \in Run : batch[v][m].sent <= batch'[v][m].sent
    BY <1>2, <1>5, <2>0
  <2>2. \A v \in Worker : /\ active[v] \subseteq active'[v]
                          /\ \A m \in active'[v] \ active[v] : batch[v][m].sent = 0
    <3>1. CASE active' = active
      BY <3>1
    <3>2. CASE active' # active
      <4>1. batch[w][n].sent = 0
        BY <1>1, <1>4, <3>2 DEF SentFits
      <4>2. \A v \in Worker : active'[v] = IF v = w THEN active[w] \cup {n} ELSE active[v]
        BY <1>1, <1>4, <3>2 DEF BatchType
      <4> QED BY <4>1, <4>2
    <3> QED BY <3>1, <3>2
  <2> QED BY <2>1, <2>2 DEF OrdersStay
<1> QED BY <1>7, <1>8, <1>9, <1>10 DEF BatchInv

LEMMA CrashStep ==
  ASSUME BatchInv, NEW w \in Worker, Crash(w)
  PROVE  BatchInv' /\ \A v \in Worker : OrdersStay(v)
<1>1. BatchType /\ OneEverywhere /\ SentFits
  BY DEF BatchInv
<1> DEFINE row == [n \in Run |-> IF batch[w][n].st = "none" THEN NoBatch
                                 ELSE [batch[w][n] EXCEPT !.st = "gone"]]
<1>2. NoBatch \in BatchRec /\ NoBatch.st = "none" /\ NoBatch.sent = 0
  BY DEF NoBatch, BatchRec
<1>3. \A n \in Run : /\ batch[w][n] \in BatchRec
                     /\ [batch[w][n] EXCEPT !.st = "gone"] \in BatchRec
                     /\ [batch[w][n] EXCEPT !.st = "gone"].st = "gone"
                     /\ [batch[w][n] EXCEPT !.st = "gone"].sent = batch[w][n].sent
  <2> TAKE n \in Run
  <2> DEFINE b == batch[w][n]
  <2>1. b \in BatchRec
    BY <1>1 DEF BatchType
  <2> HIDE DEF b
  <2>2. [b EXCEPT !.st = "gone"] \in BatchRec /\ [b EXCEPT !.st = "gone"].st = "gone"
        /\ [b EXCEPT !.st = "gone"].sent = b.sent
    BY <2>1 DEF BatchRec
  <2> QED BY <2>1, <2>2 DEF b
<1>4. /\ row \in [Run -> BatchRec]
      /\ \A n \in Run : row[n].st \in {"none", "gone"}
      /\ \A n \in Run : batch[w][n].st # "none" => row[n].st = "gone"
      /\ \A n \in Run : row[n].sent = batch[w][n].sent
  BY <1>1, <1>2, <1>3 DEF SentFits
<1> HIDE DEF row
<1>5. /\ batch' = [batch EXCEPT ![w] = row] /\ alive' = alive \ {w}
      /\ UNCHANGED <<curSession, ctx, active>>
  BY DEF Crash, row
<1>6. BatchType'
  BY <1>1, <1>4, <1>5 DEF BatchType
<1>7. OneEverywhere'
  BY <1>1, <1>4, <1>5 DEF OneEverywhere, Running, BatchType
<1>8. \A v \in Worker, m \in Run : batch'[v][m].sent = batch[v][m].sent
                                   /\ (batch'[v][m].st = batch[v][m].st \/ batch'[v][m].st = "gone")
  BY <1>1, <1>4, <1>5 DEF BatchType
<1>9. SentFits'
  BY <1>1, <1>8 DEF SentFits
<1>10. \A v \in Worker : OrdersStay(v)
  BY <1>1, <1>5, <1>8 DEF OrdersStay, BatchType, BatchRec
<1> QED BY <1>6, <1>7, <1>9, <1>10 DEF BatchInv

LEMMA BatchStep == BatchInv /\ [WorkerNext]_bwVars => BatchInv'
<1> SUFFICES ASSUME BatchInv, [WorkerNext]_bwVars PROVE BatchInv'
  OBVIOUS
<1>1. ASSUME UNCHANGED <<alive, curSession, ctx, batch, active>> PROVE BatchInv'
  BY <1>1 DEF BatchInv, BatchType, OneEverywhere, SentFits, Running
<1>2. ASSUME NEW w \in Worker, HbStep(w) \/ HbPost(w) PROVE BatchInv'
  BY <1>1, <1>2 DEF HbStep, HbReadSession, HbReadOrders, HbPost
<1>3. ASSUME NEW w \in Worker, Receive(w) PROVE BatchInv'
  BY <1>3, StartStep, StopStep, BotWorkerAssumption DEF Receive
<1>4. CASE UNCHANGED bwVars
  BY <1>1, <1>4 DEF bwVars
<1> QED BY <1>2, <1>3, <1>4, BotSteps, CrashStep DEF WorkerNext

\* Bots that nobody has told to stop are of the last START and trade for the session the
\* heartbeats name, for any commands and however long SpawnBots waits for its lock.
THEOREM OneSession == WorkerSpec => []OneSessionAtATime
<1>1. BatchInv => OneSessionAtATime
  BY DEF BatchInv, BatchType, OneEverywhere, OneSessionAtATime
<1> QED BY <1>1, BatchInit, BatchStep, PTL DEF WorkerSpec

-----------------------------------------------------------------------------
(* Counting orders.                                                        *)

\* The orders of batches that are active no more, or not yet.
Gone(w) == Cardinality(OrdersOf(w, Run \ active[w]))

LEMMA OrdersFinite ==
  ASSUME NEW S \in SUBSET (Run \X (1..MaxSent))
  PROVE  IsFiniteSet(S) /\ Cardinality(S) \in Nat
<1>1. IsFiniteSet(1..MaxSent)
  BY BotWorkerAssumption, FS_Interval
<1>2. IsFiniteSet(Run \X (1..MaxSent))
  BY <1>1, BotWorkerAssumption, FS_Product
<1> QED BY <1>2, FS_Subset, FS_CardinalityType

LEMMA OrdersAreOrders ==
  ASSUME NEW w, NEW ns \in SUBSET Run
  PROVE  OrdersOf(w, ns) \subseteq Run \X (1..MaxSent)
BY DEF OrdersOf

LEMMA CountTypes ==
  ASSUME BatchInv, NEW w \in Worker
  PROVE  /\ TotalOrdersSent(w) \in Nat /\ Gone(w) \in Nat
         /\ IsFiniteSet(OrdersOf(w, Run))
         /\ Cardinality(OrdersOf(w, Run)) = Gone(w) + TotalOrdersSent(w)
<1> DEFINE A == OrdersOf(w, active[w])
           G == OrdersOf(w, Run \ active[w])
<1>1. active[w] \subseteq Run
  BY DEF BatchInv, BatchType
<1>2. A \subseteq Run \X (1..MaxSent) /\ G \subseteq Run \X (1..MaxSent)
  BY <1>1, OrdersAreOrders
<1>3. OrdersOf(w, Run) = G \cup A /\ G \cap A = {}
  BY <1>1 DEF OrdersOf
<1> HIDE DEF A, G
<1>4. /\ IsFiniteSet(A) /\ Cardinality(A) \in Nat /\ IsFiniteSet(G) /\ Cardinality(G) \in Nat
  BY <1>2, OrdersFinite
<1>5. /\ IsFiniteSet(G \cup A)
      /\ Cardinality(G \cup A) = Cardinality(G) + Cardinality(A) - 0
  BY <1>3, <1>4, FS_Union, FS_EmptySet
<1> QED BY <1>3, <1>4, <1>5 DEF A, G, TotalOrdersSent, Gone

\* As long as no orders are taken back and no batch is struck off, both counts grow.
LEMMA CountsGrow ==
  ASSUME BatchInv, BatchInv', NEW w \in Worker, OrdersStay(w)
  PROVE  TotalOrdersSent(w)' >= TotalOrdersSent(w) /\ Gone(w)' >= Gone(w)
<1>1. active[w] \subseteq active'[w] /\ active'[w] \subseteq Run
  BY DEF BatchInv, BatchType, OrdersStay
<1>2. \A n \in Run : /\ batch[w][n].sent \in Nat /\ batch'[w][n].sent \in Nat
                     /\ batch[w][n].sent <= batch'[w][n].sent
  BY DEF BatchInv, BatchType, BatchRec, OrdersStay
<1>3. OrdersOf(w, active[w]) \subseteq OrdersOf(w, active[w])'
  BY <1>1, <1>2 DEF OrdersOf
<1>4. OrdersOf(w, Run \ active[w]) \subseteq OrdersOf(w, Run \ active[w])'
  <2> SUFFICES ASSUME NEW n \in Run \ active[w], NEW k \in 1..MaxSent, k <= batch[w][n].sent
               PROVE  n \notin active'[w] /\ k <= batch'[w][n].sent
    BY DEF OrdersOf
  <2>1. batch[w][n].sent # 0
    BY <1>2
  <2> QED BY <1>2, <2>1 DEF OrdersStay
<1>5. OrdersOf(w, active[w])' \subseteq Run \X (1..MaxSent)
      /\ OrdersOf(w, Run \ active[w])' \subseteq Run \X (1..MaxSent)
  BY <1>1 DEF OrdersOf
<1>6. /\ IsFiniteSet(OrdersOf(w, active[w])') /\ IsFiniteSet(OrdersOf(w, Run \ active[w])')
  BY <1>5, OrdersFinite
<1> QED BY <1>3, <1>4, <1>6, FS_Subset DEF TotalOrdersSent, Gone

\* A STOP turns the orders of the active batches into orders that are gone.
LEMMA CountsStop ==
  ASSUME BatchInv, BatchInv', NEW w \in Worker,
         \A n \in Run : batch'[w][n].sent = batch[w][n].sent, active'[w] = {}
  PROVE  Gone(w)' = Gone(w) + TotalOrdersSent(w)
<1>1. OrdersOf(w, Run \ active[w])' = OrdersOf(w, Run)
  BY DEF OrdersOf
<1> QED BY <1>1, CountTypes DEF Gone

-----------------------------------------------------------------------------
(* Types.                                                                  *)

HbType == hb \in [Worker -> Heartbeats]

LEMMA HbSteps ==
  ASSUME BatchInv, HbType, NEW w \in Worker,
         HbStep(w) \/ HbPost(w) \/ Crash(w)
  PROVE  HbType'
<1>1. \A v \in Worker : hb[v].pc \in {"idle", "session", "ready"}
                        /\ hb[v].sid \in Session \cup {NoSession} /\ hb[v].total \in Nat
  BY DEF HbType, Heartbeats
<1>2. IdleHb \in Heartbeats
  BY DEF IdleHb, Heartbeats
<1>3. CASE HbReadSession(w)
  <2>1. curSession[w] \in Session \cup {NoSession}
    BY DEF BatchInv, BatchType
  <2>2. [IdleHb EXCEPT !.pc = "session", !.sid = curSession[w]] \in Heartbeats
    BY <2>1 DEF IdleHb, Heartbeats
  <2> QED BY <1>3, <2>2 DEF HbReadSession, HbType
<1>4. CASE HbReadOrders(w)
  <2>1. TotalOrdersSent(w) \in Nat
    BY CountTypes
  <2>2. [hb[w] EXCEPT !.pc = "ready", !.total = TotalOrdersSent(w)] \in Heartbeats
    BY <2>1 DEF HbType, Heartbeats
  <2>3. hb' = [hb EXCEPT ![w] = [hb[w] EXCEPT !.pc = "ready", !.total = TotalOrdersSent(w)]]
    BY <1>4 DEF HbReadOrders, HbType, Heartbeats
  <2> QED BY <2>2, <2>3 DEF HbType
<1>5. CASE HbPost(w) \/ Crash(w)
  BY <1>2, <1>5 DEF HbPost, Crash, HbType
<1> QED BY <1>3, <1>4, <1>5 DEF HbStep

LEMMA HbSame ==
  ASSUME NEW w \in Worker,
         \/ \E n \in Run : \E s, b : HandleStart(w, n, s, b)
         \/ HandleStop(w)
         \/ \E n \in Run : BotStep(w, n)
  PROVE  hb' = hb
BY DEF HandleStart, HandleStop, BotStep, SpawnBots, BotSend, BotsDone, BotsFail

\* A worker's state keeps its shape: only batches that were spawned are active, and what
\* heartbeats report is a number of orders.
THEOREM WorkerTypesCorrect == WorkerSpec => []WorkerTypeOK
<1>1. WorkerInit => HbType
  BY DEF WorkerInit, HbType, Heartbeats, IdleHb
<1>2. BatchInv /\ HbType /\ [WorkerNext]_bwVars => HbType'
  <2> SUFFICES ASSUME BatchInv, HbType, [WorkerNext]_bwVars PROVE HbType'
    OBVIOUS
  <2>1. CASE UNCHANGED bwVars
    BY <2>1 DEF bwVars, HbType
  <2>2. CASE hb' = hb
    BY <2>2 DEF HbType
  <2> QED BY <2>1, <2>2, HbSteps, HbSame DEF WorkerNext, Receive
<1>3. BatchInv /\ HbType => WorkerTypeOK
  BY DEF BatchInv, BatchType, HbType, WorkerTypeOK
<1> QED BY <1>1, <1>2, <1>3, BatchInit, BatchStep, PTL DEF WorkerSpec

-----------------------------------------------------------------------------
(* Who the bots of a batch are.                                            *)

\* A batch that is there was there before, for the same session and of the same size.
SameBatch(v, n) ==
  batch'[v][n].st # "none" =>
    /\ batch[v][n].st # "none"
    /\ batch'[v][n].sid = batch[v][n].sid /\ batch'[v][n].size = batch[v][n].size

LEMMA BatchesStay ==
  ASSUME BatchInv, NEW w \in Worker,
         \/ HandleStop(w)
         \/ \E n \in Run : BotStep(w, n)
         \/ HbStep(w) \/ HbPost(w) \/ Crash(w),
         NEW v \in Worker, NEW m \in Run
  PROVE  SameBatch(v, m)
<1>1. batch \in [Worker -> [Run -> BatchRec]]
  BY DEF BatchInv, BatchType
<1>2. CASE HandleStop(w)
  BY <1>1, <1>2, CancelKeeps DEF HandleStop, SameBatch
<1>3. ASSUME NEW n \in Run, BotStep(w, n) PROVE SameBatch(v, m)
  <2>1. batch[w][n].st # "none"
    BY <1>3 DEF BotStep, SpawnBots, BotSend, BotsDone, BotsFail
  <2>2. batch[w][n] \in BatchRec
    BY <1>1
  <2>3. /\ batch'[w][n].sid = batch[w][n].sid /\ batch'[w][n].size = batch[w][n].size
        /\ \A x \in Worker, k \in Run : (x = w /\ k = n) \/ batch'[x][k] = batch[x][k]
    <3>1. CASE SpawnBots(w, n)
      <4>1. batch' = [batch EXCEPT ![w] = [batch[w] EXCEPT ![n] = [batch[w][n] EXCEPT !.st = "live"]]]
        BY <3>1 DEF SpawnBots
      <4> QED BY <1>1, <2>2, <4>1 DEF BatchRec
    <3>2. CASE BotSend(w, n)
      <4>1. PICK k : batch' = [batch EXCEPT ![w] = [batch[w] EXCEPT ![n] = [batch[w][n] EXCEPT !.sent = k]]]
        BY <3>2 DEF BotSend
      <4> QED BY <1>1, <2>2, <4>1 DEF BatchRec
    <3>3. CASE BotsDone(w, n) \/ BotsFail(w, n)
      <4>1. batch' = [batch EXCEPT ![w] = [batch[w] EXCEPT ![n] = [batch[w][n] EXCEPT !.st = "gone"]]]
        BY <3>3 DEF BotsDone, BotsFail
      <4> QED BY <1>1, <2>2, <4>1 DEF BatchRec
    <3> QED BY <1>3, <3>1, <3>2, <3>3 DEF BotStep
  <2> QED BY <2>1, <2>3 DEF SameBatch
<1>4. CASE HbStep(w) \/ HbPost(w)
  BY <1>4 DEF HbStep, HbReadSession, HbReadOrders, HbPost, SameBatch
<1>5. CASE Crash(w)
  BY <1>1, <1>5 DEF Crash, SameBatch, NoBatch, BatchRec
<1> QED BY <1>2, <1>3, <1>4, <1>5

LEMMA BatchBegins ==
  ASSUME BatchInv, NEW w \in Worker, NEW n \in Run, NEW s, NEW b, HandleStart(w, n, s, b)
  PROVE  /\ batch'[w][n].sid = s /\ batch'[w][n].size = BotCount(b)
         /\ \A v \in Worker, m \in Run : SameBatch(v, m) \/ (v = w /\ m = n)
<1>1. batch \in [Worker -> [Run -> BatchRec]] /\ batch[w] \in [Run -> BatchRec]
  BY DEF BatchInv, BatchType
<1> DEFINE new == [NoBatch EXCEPT !.st = "spawning", !.sid = s, !.size = BotCount(b)]
           row == [Cancel(batch[w], {ctx[w]}) EXCEPT ![n] = new]
<1>2. new.sid = s /\ new.size = BotCount(b)
  BY DEF NoBatch
<1> HIDE DEF new
<1>3. /\ row[n] = new
      /\ \A m \in Run \ {n} : /\ row[m].st = batch[w][m].st /\ row[m].sid = batch[w][m].sid
                              /\ row[m].size = batch[w][m].size
  BY <1>1, CancelKeeps
<1>4. batch' = [batch EXCEPT ![w] = row]
  BY DEF HandleStart, new
<1> QED BY <1>1, <1>2, <1>3, <1>4 DEF SameBatch

-----------------------------------------------------------------------------
(* Fleet: the bots that come of the commands.                              *)

StartArrives(w) ==
  /\ WorkerReads(w)
  /\ reply[w].kind = "START"
  /\ HandleStart(w, reply[w].run, reply[w].sid, reply[w].bots)

StopArrives(w) == WorkerReads(w) /\ HandleStop(w)

Reports(w) == UpdateWorkerHeartbeat(w, hb[w].sid, hb[w].total) /\ HbPost(w)

Works(w) ==
  /\ \/ \E n \in Run : BotStep(w, n)
     \/ HbStep(w) \/ HbPost(w) \/ Crash(w)
  /\ UNCHANGED vars

ServiceAlone ==
  /\ ServiceStep \/ (\E w \in Worker : PollStep(w)) \/ UNCHANGED vars
  /\ UNCHANGED bwVars

LEMMA FleetSteps ==
  ASSUME [FleetNext]_fleetVars
  PROVE  \/ ServiceAlone
         \/ \E w \in Worker : StartArrives(w) \/ StopArrives(w) \/ Reports(w) \/ Works(w)
<1>1. CASE UNCHANGED fleetVars
  BY <1>1 DEF fleetVars, ServiceAlone
<1>2. CASE ServiceStep /\ UNCHANGED bwVars
  BY <1>2 DEF ServiceAlone
<1>3. ASSUME NEW w \in Worker, Handle(w) PROVE StartArrives(w) \/ StopArrives(w)
  BY <1>3 DEF Handle, StartArrives, StopArrives
<1>4. ASSUME NEW w \in Worker, Poll(w) PROVE ServiceAlone
  BY <1>4 DEF Poll, ServiceAlone
<1>5. ASSUME NEW w \in Worker, HeartbeatArrives(w) PROVE Reports(w)
  BY <1>5 DEF HeartbeatArrives, Reports
<1>6. ASSUME NEW w \in Worker, HeartbeatLost(w) \/ WorkerStep(w) PROVE Works(w)
  BY <1>6 DEF HeartbeatLost, WorkerStep, Works
<1> QED BY <1>1, <1>2, <1>3, <1>4, <1>5, <1>6 DEF FleetNext

LEMMA FleetStarts == FleetInit => Init /\ WorkerInit
BY DEF FleetInit, WorkerInit, NoBatch, IdleHb

-----------------------------------------------------------------------------
(* What is proved of the orchestrator for any workers holds with these.    *)

OrcInv == TypeOK /\ MapAgrees /\ PollIsRegistered /\ StartsAreAssigned /\ OnceInv

LEMMA OrcInit == Init => OrcInv
<1>1. Init => PollIsRegistered
  BY DEF Init, PollIsRegistered
<1>2. Init => StartsAreAssigned
  BY DEF Init, StartsAreAssigned, Commands
<1> QED BY <1>1, <1>2, InitType, InitAgrees, OnceInit DEF OrcInv

LEMMA OrcStep == OrcInv /\ [AnyStep]_vars => OrcInv'
BY NextType, NextAgrees, NextPolls, NextStarts, NextOnce DEF OrcInv

\* The heartbeat goroutines report the totals of sessions, or of none.
WorkersInv == BatchInv /\ HbType

LEMMA FleetOrcStep ==
  ASSUME WorkersInv, [FleetNext]_fleetVars
  PROVE  [AnyStep]_vars
<1>1. CASE ServiceAlone
  BY <1>1 DEF ServiceAlone, AnyStep
<1>2. ASSUME NEW w \in Worker, StartArrives(w) \/ StopArrives(w) PROVE AnyStep
  BY <1>2 DEF StartArrives, StopArrives, AnyStep
<1>3. ASSUME NEW w \in Worker, Reports(w) PROVE AnyStep
  <2>1. hb[w].sid \in Session \cup {NoSession} /\ hb[w].total \in Nat
    BY DEF WorkersInv, HbType, Heartbeats
  <2> QED BY <1>3, <2>1 DEF Reports, AnyStep
<1>4. ASSUME NEW w \in Worker, Works(w) PROVE UNCHANGED vars
  BY <1>4 DEF Works
<1> QED BY <1>1, <1>2, <1>3, <1>4, FleetSteps

-----------------------------------------------------------------------------
(* Bots exist only for shares that were dealt out.                         *)

\* A START is handled once: as long as it waits to be read it has made no bots.
Given ==
  \A w \in Worker, n \in Run :
    /\ IsStart(reply[w], n) => <<w, n>> \in handed /\ batch[w][n].st = "none"
    /\ batch[w][n].st # "none" => <<w, n>> \in handed

BotsInv == OrcInv /\ WorkersInv /\ Given /\ BotsBelongToDispatch

LEMMA BotsInit == FleetInit => BotsInv
<1> SUFFICES ASSUME FleetInit PROVE BotsInv
  OBVIOUS
<1>1. OrcInv /\ Init /\ WorkerInit
  BY FleetStarts, OrcInit
<1>2. BatchInv
  BY <1>1, BatchInit
<1>3. HbType
  BY <1>1 DEF WorkerInit, HbType, Heartbeats, IdleHb
<1>4. \A w \in Worker, n \in Run : batch[w][n].st = "none" /\ reply[w] = NoCmd
  BY <1>1 DEF WorkerInit, NoBatch, Init
<1> QED BY <1>1, <1>2, <1>3, <1>4 DEF BotsInv, WorkersInv, Given, BotsBelongToDispatch, IsStart

\* A START that waits to be read names a share that was dealt out.
LEMMA StartRead ==
  ASSUME OrcInv, NEW w \in Worker, reply[w] # NoCmd, reply[w].kind = "START"
  PROVE  LET n == reply[w].run IN
         /\ n \in Run /\ reply[w].sid \in Session /\ reply[w].bots \in Nat
         /\ IsStart(reply[w], n)
         /\ Assigned(n) /\ reply[w].sid = run[n].sid /\ reply[w].bots = run[n].share[w]
         /\ reply[w].bots > 0 \/ TooFew(n)
<1>1. reply[w] \in Commands(w) /\ reply[w] \in Cmd
  BY DEF OrcInv, TypeOK, Commands
<1>2. Genuine(w, reply[w])
  BY <1>1 DEF OrcInv, StartsAreAssigned
<1> QED BY <1>1, <1>2 DEF Cmd, Genuine, IsStart

\* What is answered had not been handed out before.
LEMMA NewlyAnswered ==
  ASSUME OrcInv, ServiceStep \/ (\E w \in Worker : PollStep(w)) \/ UNCHANGED vars
  PROVE  /\ handed \subseteq handed'
         /\ \A w \in Worker, n \in Run :
              IsStart(reply'[w], n) =>
                \/ IsStart(reply[w], n)
                \/ <<w, n>> \in handed' /\ <<w, n>> \notin handed
<1> DEFINE Fresh == \A w \in Worker, n \in Run :
                      IsStart(reply'[w], n) =>
                        \/ IsStart(reply[w], n)
                        \/ <<w, n>> \in handed' /\ <<w, n>> \notin handed
<1>1. TypeOK /\ OnceInv
  BY DEF OrcInv
<1>2. ASSUME UNCHANGED <<reply, handed>> PROVE handed \subseteq handed' /\ Fresh
  BY <1>2 DEF IsStart
<1>3. ASSUME NEW v \in Worker, NEW c, Answer(v, c),
             \A n \in Run : IsStart(c, n) => <<v, n>> \notin handed
      PROVE  handed \subseteq handed' /\ Fresh
  <2>1. /\ reply' = [reply EXCEPT ![v] = c]
        /\ handed' = IF c.kind = "START" THEN handed \cup {<<v, c.run>>} ELSE handed
    BY <1>3 DEF Answer
  <2>2. \A n \in Run : IsStart(c, n) => <<v, n>> \in handed'
    BY <2>1 DEF IsStart
  <2>3. reply'[v] = c /\ \A w \in Worker : w # v => reply'[w] = reply[w]
    BY <1>1, <2>1 DEF TypeOK
  <2> QED BY <1>3, <2>1, <2>2, <2>3 DEF IsStart
<1>4. ASSUME NEW v \in Worker, PollChannel(v) PROVE handed \subseteq handed' /\ Fresh
  <2>1. cmdChan[v] \in Seq(Cmd) /\ cmdChan[v] # <<>>
    BY <1>1, <1>4 DEF TypeOK, PollChannel
  <2>2. 1 \in 1..Len(cmdChan[v]) /\ Head(cmdChan[v]) = cmdChan[v][1]
    BY <2>1
  <2>3. \A n \in Run : IsStart(Head(cmdChan[v]), n) => <<v, n>> \notin handed
    BY <1>1, <2>2 DEF OnceInv, Once
  <2>4. Answer(v, Head(cmdChan[v]))
    BY <1>4 DEF PollChannel
  <2> QED BY <1>3, <2>3, <2>4
<1>5. ASSUME NEW v \in Worker, PollPubSub(v) PROVE handed \subseteq handed' /\ Fresh
  <2>1. \A n \in Run : IsStart(sub[v], n) => <<v, n>> \notin handed
    BY <1>1 DEF OnceInv, Once
  <2>2. Answer(v, sub[v])
    BY <1>5 DEF PollPubSub
  <2> QED BY <1>3, <2>1, <2>2
<1>6. ASSUME NEW v \in Worker, PollBroken(v) PROVE handed \subseteq handed' /\ Fresh
  <2>1. \A w \in Worker : reply'[w] \in {reply[w], NoCmd}
    BY <1>1, <1>6 DEF PollBroken, TypeOK
  <2> QED BY <1>6, <2>1 DEF PollBroken, IsStart
<1>7. ASSUME NEW v \in Worker, PollStep(v) PROVE handed \subseteq handed' /\ Fresh
  BY <1>2, <1>4, <1>5, <1>6, <1>7 DEF PollStep, RegisterWorker, Subscribe, PollTimeout
<1>8. ASSUME NEW s, StopSession(s) PROVE UNCHANGED <<reply, handed>>
  BY <1>8 DEF StopSession
<1>9. ASSUME NEW n \in Run, RunStep(n) PROVE UNCHANGED <<reply, handed>>
  BY <1>8, <1>9 DEF RunStep, StartSession, MarshalSession, PersistSession, SaveMeta,
    RedisError, DispatchToWorkers, DispatchNoWorkers, AutoStop, pollVars
<1>10. CASE ServiceStep
  BY <1>2, <1>8, <1>9, <1>10 DEF ServiceStep, APIStopSession, Silence, Reconcile, MetricsTick,
    MetricsPersist, RedisExpire, Restart, pollVars
<1>11. CASE UNCHANGED vars
  BY <1>2, <1>11 DEF vars, pollVars
<1> QED BY <1>7, <1>10, <1>11

\* The steps of the workers, as far as their own state goes.
LEMMA WorkersStep == BotsInv /\ [FleetNext]_fleetVars => WorkersInv'
<1> SUFFICES ASSUME BotsInv, [FleetNext]_fleetVars PROVE WorkersInv'
  OBVIOUS
<1>1. OrcInv /\ BatchInv /\ HbType /\ Given
  BY DEF BotsInv, WorkersInv
<1>2. CASE UNCHANGED bwVars
  <2>1. BatchInv'
    BY <1>1, <1>2 DEF bwVars, BatchInv, BatchType, OneEverywhere, SentFits, Running
  <2>2. HbType'
    BY <1>1, <1>2 DEF bwVars, HbType
  <2> QED BY <2>1, <2>2 DEF WorkersInv
<1>3. ASSUME BatchInv', hb' = hb PROVE WorkersInv'
  BY <1>1, <1>3 DEF WorkersInv, HbType
<1>4. ASSUME NEW w \in Worker, StartArrives(w) PROVE WorkersInv'
  <2> DEFINE n == reply[w].run
  <2>1. /\ n \in Run /\ reply[w].sid \in Session /\ reply[w].bots \in Nat
        /\ HandleStart(w, n, reply[w].sid, reply[w].bots) /\ IsStart(reply[w], n)
    BY <1>1, <1>4, StartRead DEF StartArrives, WorkerReads
  <2>2. batch[w][n].st = "none"
    BY <1>1, <2>1 DEF Given
  <2> HIDE DEF n
  <2>3. BatchInv'
    BY <1>1, <2>1, <2>2, StartStep
  <2>4. hb' = hb
    BY <2>1, HbSame
  <2> QED BY <1>3, <2>3, <2>4
<1>5. ASSUME NEW w \in Worker, StopArrives(w) PROVE WorkersInv'
  <2>1. BatchInv'
    BY <1>1, <1>5, StopStep DEF StopArrives
  <2>2. hb' = hb
    BY <1>5, HbSame DEF StopArrives
  <2> QED BY <1>3, <2>1, <2>2
<1>6. ASSUME NEW w \in Worker, HbStep(w) \/ HbPost(w) PROVE WorkersInv'
  <2>1. UNCHANGED <<alive, curSession, ctx, batch, active>>
    BY <1>6 DEF HbStep, HbReadSession, HbReadOrders, HbPost
  <2>2. BatchInv'
    BY <1>1, <2>1 DEF BatchInv, BatchType, OneEverywhere, SentFits, Running
  <2>3. HbType'
    BY <1>1, <1>6, HbSteps
  <2> QED BY <2>2, <2>3 DEF WorkersInv
<1>7. ASSUME NEW w \in Worker, Crash(w) PROVE WorkersInv'
  <2>1. BatchInv'
    BY <1>1, <1>7, CrashStep
  <2>2. HbType'
    BY <1>1, <1>7, HbSteps
  <2> QED BY <2>1, <2>2 DEF WorkersInv
<1>8. ASSUME NEW w \in Worker, NEW n \in Run, BotStep(w, n) PROVE WorkersInv'
  <2>1. BatchInv'
    BY <1>1, <1>8, BotSteps
  <2>2. hb' = hb
    BY <1>8, HbSame
  <2> QED BY <1>3, <2>1, <2>2
<1> QED BY <1>2, <1>4, <1>5, <1>6, <1>7, <1>8, FleetSteps DEF ServiceAlone, Reports, Works

\* Only the START of a batch makes one, and only that one.
LEMMA BatchesBegin ==
  ASSUME BotsInv, [FleetNext]_fleetVars, NEW v \in Worker, NEW m \in Run
  PROVE  \/ SameBatch(v, m)
         \/ /\ StartArrives(v) /\ m = reply[v].run
            /\ batch'[v][m].sid = reply[v].sid
            /\ batch'[v][m].size = BotCount(reply[v].bots)
<1>1. OrcInv /\ BatchInv
  BY DEF BotsInv, WorkersInv
<1>2. CASE ServiceAlone
  BY <1>2 DEF ServiceAlone, bwVars, SameBatch
<1>3. ASSUME NEW w \in Worker, StartArrives(w)
      PROVE  \/ SameBatch(v, m)
             \/ /\ v = w /\ m = reply[v].run
                /\ batch'[v][m].sid = reply[v].sid
                /\ batch'[v][m].size = BotCount(reply[v].bots)
  <2> DEFINE n == reply[w].run
  <2>1. n \in Run /\ HandleStart(w, n, reply[w].sid, reply[w].bots)
    BY <1>1, <1>3, StartRead DEF StartArrives, WorkerReads
  <2> HIDE DEF n
  <2>2. /\ batch'[w][n].sid = reply[w].sid
        /\ batch'[w][n].size = BotCount(reply[w].bots)
        /\ SameBatch(v, m) \/ (v = w /\ m = n)
    BY <1>1, <2>1, BatchBegins
  <2> QED BY <2>2 DEF n, BotCount
<1>4. ASSUME NEW w \in Worker, StopArrives(w) \/ Reports(w) \/ Works(w)
      PROVE  SameBatch(v, m)
  <2>1. CASE UNCHANGED batch
    BY <2>1 DEF SameBatch
  <2> QED BY <1>1, <1>4, <2>1, BatchesStay DEF StopArrives, Reports, Works
<1> QED BY <1>2, <1>3, <1>4, FleetSteps

LEMMA GivenStep == BotsInv /\ [FleetNext]_fleetVars => Given'
<1> SUFFICES ASSUME BotsInv, [FleetNext]_fleetVars, NEW w \in Worker, NEW n \in Run
             PROVE  /\ IsStart(reply'[w], n) => <<w, n>> \in handed' /\ batch'[w][n].st = "none"
                    /\ batch'[w][n].st # "none" => <<w, n>> \in handed'
  BY DEF Given, IsStart
<1>1. OrcInv /\ Given /\ TypeOK
  BY DEF BotsInv, OrcInv
<1>2. CASE ServiceAlone
  <2>1. /\ handed \subseteq handed'
        /\ IsStart(reply'[w], n) =>
             IsStart(reply[w], n) \/ (<<w, n>> \in handed' /\ <<w, n>> \notin handed)
    BY <1>1, <1>2, NewlyAnswered DEF ServiceAlone
  <2>2. batch' = batch
    BY <1>2 DEF ServiceAlone, bwVars
  <2> QED BY <1>1, <2>1, <2>2 DEF Given
<1>3. ASSUME ~ServiceAlone
      PROVE  /\ handed' = handed /\ reply'[w] \in {reply[w], NoCmd}
             /\ StartArrives(w) => reply'[w] = NoCmd
  <2>1. ASSUME NEW v \in Worker, StartArrives(v) \/ StopArrives(v)
        PROVE  handed' = handed /\ reply' = [reply EXCEPT ![v] = NoCmd]
    BY <2>1 DEF StartArrives, StopArrives, WorkerReads
  <2>2. ASSUME NEW v \in Worker, Reports(v) \/ Works(v)
        PROVE  handed' = handed /\ reply' = reply
    BY <2>2 DEF Reports, Works, UpdateWorkerHeartbeat, vars, pollVars
  <2>3. reply \in [Worker -> Cmd \cup {NoCmd}]
    BY <1>1 DEF TypeOK
  <2> QED BY <1>3, <2>1, <2>2, <2>3, FleetSteps
<1>4. \/ SameBatch(w, n)
      \/ StartArrives(w) /\ IsStart(reply[w], n)
  <2>1. StartArrives(w) => IsStart(reply[w], reply[w].run)
    BY DEF StartArrives, WorkerReads, IsStart
  <2> QED BY <2>1, BatchesBegin
<1>5. CASE ~ServiceAlone
  <2>1. ~IsStart(NoCmd, n)
    BY DEF IsStart
  <2>2. IsStart(reply'[w], n) => IsStart(reply[w], n) /\ ~StartArrives(w)
    BY <1>3, <1>5, <2>1
  <2> QED BY <1>1, <1>3, <1>4, <1>5, <2>2 DEF Given, SameBatch
<1> QED BY <1>2, <1>5

\* A batch of that size is right for the share, if few says that bots are too few.
Fits(size, share, few) ==
  \/ share > 0 /\ size = share
  \/ share = 0 /\ size = DefaultBots /\ few

LEMMA BelongStep == BotsInv /\ [FleetNext]_fleetVars => BotsBelongToDispatch'
<1> SUFFICES ASSUME BotsInv, [FleetNext]_fleetVars, NEW w \in Worker, NEW n \in Run,
                    batch'[w][n].st # "none"
             PROVE  /\ Assigned(n)'
                    /\ batch'[w][n].sid = run'[n].sid
                    /\ Fits(batch'[w][n].size, run'[n].share[w], TooFew(n)')
  BY DEF BotsBelongToDispatch, Fits
<1>1. TypeOK /\ MapAgrees /\ OrcInv /\ BotsBelongToDispatch /\ [AnyStep]_vars
  BY FleetOrcStep DEF BotsInv, OrcInv
<1>2. /\ Assigned(n)
      /\ batch'[w][n].sid = run[n].sid
      /\ Fits(batch'[w][n].size, run[n].share[w], TooFew(n))
  <2>1. CASE SameBatch(w, n)
    BY <1>1, <2>1 DEF SameBatch, BotsBelongToDispatch, Fits
  <2>2. CASE /\ StartArrives(w) /\ n = reply[w].run
             /\ batch'[w][n].sid = reply[w].sid
             /\ batch'[w][n].size = BotCount(reply[w].bots)
    <3>1. /\ Assigned(n) /\ reply[w].sid = run[n].sid
          /\ reply[w].bots \in Nat /\ reply[w].bots = run[n].share[w]
          /\ reply[w].bots > 0 \/ TooFew(n)
      BY <1>1, <2>2, StartRead DEF StartArrives, WorkerReads
    <3> QED BY <2>2, <3>1 DEF BotCount, Fits
  <2> QED BY <2>1, <2>2, BatchesBegin
<1> QED BY <1>1, <1>2, AssignedKept DEF TooFew

LEMMA BotsStep == BotsInv /\ [FleetNext]_fleetVars => BotsInv'
<1>1. BotsInv /\ [FleetNext]_fleetVars => OrcInv'
  BY FleetOrcStep, OrcStep DEF BotsInv
<1> QED BY <1>1, WorkersStep, GivenStep, BelongStep DEF BotsInv

\* Every bot of the fleet belongs to a dispatch and to the share that dispatch gave its
\* worker, whichever way the START came, however polls break and workers crash.
THEOREM BotsBelong == FleetSpec => []BotsBelongToDispatch
<1>1. BotsInv => BotsBelongToDispatch
  BY DEF BotsInv
<1> QED BY <1>1, BotsInit, BotsStep, PTL DEF FleetSpec

-----------------------------------------------------------------------------
(* No session is credited with more orders than the fleet has sent.        *)

\* What heartbeats of w that took the total t for granted may have been credited with:
\* orders that are gone, or else also orders among the t that are active now.
Covered(w, c, t) == c <= Gone(w) \/ (t <= TotalOrdersSent(w) /\ c <= Gone(w) + t)

\* The credit c after a total of t when the last one was last.
Plus(c, last, t) == IF t > last THEN c + (t - last) ELSE c

\* The credit c of w is covered, and will be when the heartbeat on its way arrives.
Backed(w, s, c, last) ==
  /\ Covered(w, c, last)
  /\ hb[w].pc = "ready" /\ hb[w].sid = s =>
       Covered(w, Plus(c, last, hb[w].total), hb[w].total)

\* The total on its way was that of the batches active now, or of those gone by now.
TotalOnWay(w) == hb[w].pc = "ready" => hb[w].total <= TotalOrdersSent(w) \/ hb[w].total <= Gone(w)

Counts(w) == TotalOrdersSent(w) \in Nat /\ Gone(w) \in Nat

LEMMA CountsAre == BatchInv => \A w \in Worker : Counts(w)
BY CountTypes DEF Counts, TotalOrdersSent, Gone

LEMMA CountsAreNext == BatchInv' => (\A w \in Worker : Counts(w))'
BY CountsAre, PTL

\* Orders are not taken back; a STOP turns active orders into orders that are gone.
LEMMA CountsMove ==
  ASSUME BotsInv, [FleetNext]_fleetVars, NEW w \in Worker
  PROVE  /\ Counts(w) /\ Counts(w)'
         /\ \/ TotalOrdersSent(w)' >= TotalOrdersSent(w) /\ Gone(w)' >= Gone(w)
            \/ Gone(w)' >= Gone(w) + TotalOrdersSent(w)
<1>1. OrcInv /\ BatchInv /\ BatchInv' /\ Given
  BY WorkersStep DEF BotsInv, WorkersInv
<1>2. Counts(w) /\ Counts(w)'
  BY <1>1, CountsAre, CountsAreNext DEF Counts
<1>3. ASSUME OrdersStay(w) PROVE TotalOrdersSent(w)' >= TotalOrdersSent(w) /\ Gone(w)' >= Gone(w)
  BY <1>1, <1>3, CountsGrow DEF TotalOrdersSent, Gone
<1>4. ASSUME UNCHANGED <<batch, active>>
      PROVE  TotalOrdersSent(w)' = TotalOrdersSent(w) /\ Gone(w)' = Gone(w)
  BY <1>4 DEF TotalOrdersSent, Gone, OrdersOf
<1>5. ASSUME NEW v \in Worker, StartArrives(v) PROVE OrdersStay(w)
  <2> DEFINE n == reply[v].run
  <2>1. /\ n \in Run /\ reply[v].sid \in Session /\ reply[v].bots \in Nat
        /\ HandleStart(v, n, reply[v].sid, reply[v].bots) /\ IsStart(reply[v], n)
    BY <1>1, <1>5, StartRead DEF StartArrives, WorkerReads
  <2>2. batch[v][n].st = "none"
    BY <1>1, <2>1 DEF Given
  <2> HIDE DEF n
  <2> QED BY <1>1, <2>1, <2>2, StartStep
<1>6. ASSUME NEW v \in Worker, StopArrives(v)
      PROVE  \/ TotalOrdersSent(w)' = TotalOrdersSent(w) /\ Gone(w)' = Gone(w)
             \/ Gone(w)' = Gone(w) + TotalOrdersSent(w)
  <2>1. /\ \A x \in Worker, n \in Run : batch'[x][n].sent = batch[x][n].sent
        /\ \A x \in Worker : active'[x] = IF x = v THEN {} ELSE active[x]
    BY <1>1, <1>6, StopStep DEF StopArrives
  <2>2. CASE w = v
    BY <1>1, <2>1, <2>2, CountsStop DEF TotalOrdersSent, Gone
  <2>3. CASE w # v
    <3>1. active'[w] = active[w] /\ active[w] \subseteq Run
      BY <1>1, <2>1, <2>3 DEF BatchInv, BatchType
    <3> QED BY <2>1, <3>1 DEF TotalOrdersSent, Gone, OrdersOf
  <2> QED BY <2>2, <2>3
<1>7. ASSUME NEW v \in Worker, NEW n \in Run, BotStep(v, n) PROVE OrdersStay(w)
  BY <1>1, <1>7, BotSteps
<1>8. ASSUME NEW v \in Worker, Crash(v) PROVE OrdersStay(w)
  BY <1>1, <1>8, CrashStep
<1>9. \/ TotalOrdersSent(w)' >= TotalOrdersSent(w) /\ Gone(w)' >= Gone(w)
      \/ TotalOrdersSent(w)' = TotalOrdersSent(w) /\ Gone(w)' = Gone(w)
      \/ Gone(w)' = Gone(w) + TotalOrdersSent(w)
  BY <1>3, <1>4, <1>5, <1>6, <1>7, <1>8, FleetSteps
    DEF ServiceAlone, bwVars, Reports, Works, HbPost, HbStep, HbReadSession, HbReadOrders
<1> QED BY <1>2, <1>9 DEF Counts

\* What a step does to the heartbeat of w.
LEMMA HbMoves ==
  ASSUME BotsInv, [FleetNext]_fleetVars, NEW w \in Worker
  PROVE  \/ hb'[w] = hb[w]
         \/ hb'[w].pc # "ready"
         \/ /\ hb'[w].sid = hb[w].sid /\ hb'[w].total = TotalOrdersSent(w)
            /\ TotalOrdersSent(w)' = TotalOrdersSent(w) /\ Gone(w)' = Gone(w)
<1>1. OrcInv /\ hb \in [Worker -> Heartbeats]
  BY DEF BotsInv, WorkersInv, HbType
<1>2. IdleHb.pc # "ready"
  BY DEF IdleHb
<1>3. ASSUME NEW v \in Worker, HbPost(v) \/ Crash(v)
      PROVE  hb'[w] = hb[w] \/ hb'[w].pc # "ready"
  <2>1. hb' = [hb EXCEPT ![v] = IdleHb]
    BY <1>3 DEF HbPost, Crash
  <2> QED BY <1>1, <1>2, <2>1
<1>4. ASSUME NEW v \in Worker, HbReadSession(v)
      PROVE  hb'[w] = hb[w] \/ hb'[w].pc # "ready"
  <2> DEFINE r == [IdleHb EXCEPT !.pc = "session", !.sid = curSession[v]]
  <2>1. r.pc # "ready"
    BY DEF IdleHb
  <2>2. hb' = [hb EXCEPT ![v] = r]
    BY <1>4 DEF HbReadSession
  <2> HIDE DEF r
  <2> QED BY <1>1, <2>1, <2>2
<1>5. ASSUME NEW v \in Worker, HbReadOrders(v)
      PROVE  \/ hb'[w] = hb[w]
             \/ /\ hb'[w].sid = hb[w].sid /\ hb'[w].total = TotalOrdersSent(w)
                /\ TotalOrdersSent(w)' = TotalOrdersSent(w) /\ Gone(w)' = Gone(w)
  <2>1. hb' = [hb EXCEPT ![v] = [hb[v] EXCEPT !.pc = "ready", !.total = TotalOrdersSent(v)]]
    BY <1>5 DEF HbReadOrders, TotalOrdersSent
  <2>2. UNCHANGED <<batch, active>>
    BY <1>5 DEF HbReadOrders
  <2>3. TotalOrdersSent(w)' = TotalOrdersSent(w) /\ Gone(w)' = Gone(w)
    BY <2>2 DEF TotalOrdersSent, Gone, OrdersOf
  <2>4. hb'[w] = hb[w] \/ (hb'[w].sid = hb[w].sid /\ hb'[w].total = TotalOrdersSent(w))
    BY <1>1, <2>1 DEF Heartbeats
  <2> QED BY <2>3, <2>4
<1>6. ASSUME NEW v \in Worker, StartArrives(v) \/ StopArrives(v) PROVE hb' = hb
  BY <1>6, HbSame DEF StartArrives, StopArrives, HandleStart, HandleStop
<1>7. ASSUME NEW v \in Worker, NEW n \in Run, BotStep(v, n) PROVE hb' = hb
  BY <1>7, HbSame
<1>8. ServiceAlone => hb' = hb
  BY DEF ServiceAlone, bwVars
<1> QED BY <1>3, <1>4, <1>5, <1>6, <1>7, <1>8, FleetSteps DEF Reports, Works, HbStep

\* Covers stay covers as counts move; a fresh total covers what the old one did.
LEMMA CoverMoves ==
  ASSUME NEW w, Counts(w), Counts(w)', NEW c \in Nat, NEW t \in Nat,
         \/ TotalOrdersSent(w)' >= TotalOrdersSent(w) /\ Gone(w)' >= Gone(w)
         \/ Gone(w)' >= Gone(w) + TotalOrdersSent(w),
         Covered(w, c, t)
  PROVE  Covered(w, c, t)'
BY DEF Counts, Covered

LEMMA CoverReads ==
  ASSUME NEW w, Counts(w), NEW c \in Nat, NEW t \in Nat, Covered(w, c, t)
  PROVE  Covered(w, Plus(c, t, TotalOrdersSent(w)), TotalOrdersSent(w))
BY DEF Counts, Covered, Plus

LEMMA PlusType ==
  ASSUME NEW c \in Nat, NEW last \in Nat, NEW t \in Nat
  PROVE  Plus(c, last, t) \in Nat
BY DEF Plus

\* Whatever the workers do, a covered credit that is not touched stays covered.
LEMMA BackedStays ==
  ASSUME BotsInv, [FleetNext]_fleetVars, NEW w \in Worker, NEW s,
         NEW c \in Nat, NEW last \in Nat, Backed(w, s, c, last)
  PROVE  Backed(w, s, c, last)'
<1>1. /\ Counts(w) /\ Counts(w)'
      /\ \/ TotalOrdersSent(w)' >= TotalOrdersSent(w) /\ Gone(w)' >= Gone(w)
         \/ Gone(w)' >= Gone(w) + TotalOrdersSent(w)
  BY CountsMove
<1>2. Covered(w, c, last) /\ Covered(w, c, last)'
  BY <1>1, CoverMoves DEF Backed
<1> SUFFICES ASSUME hb'[w].pc = "ready", hb'[w].sid = s
             PROVE  Covered(w, Plus(c, last, hb[w].total), hb[w].total)'
  BY <1>2 DEF Backed
<1>3. CASE hb'[w] = hb[w]
  <2>1. hb[w].total \in Nat
    BY DEF BotsInv, WorkersInv, HbType, Heartbeats
  <2>2. Covered(w, Plus(c, last, hb[w].total), hb[w].total)
    BY <1>3 DEF Backed
  <2> DEFINE t == hb[w].total
             x == Plus(c, last, t)
  <2>3. x \in Nat
    BY <2>1, PlusType
  <2> HIDE DEF t, x
  <2>4. Covered(w, x, t)
    BY <2>2 DEF t, x
  <2>5. t \in Nat
    BY <2>1 DEF t
  <2>6. x <= Gone(w)' \/ (t <= TotalOrdersSent(w)' /\ x <= Gone(w)' + t)
    BY <1>1, <2>3, <2>4, <2>5 DEF Counts, Covered
  <2> QED BY <1>3, <2>6 DEF Covered, Plus, x, t
<1>4. CASE /\ hb'[w].total = TotalOrdersSent(w)
           /\ TotalOrdersSent(w)' = TotalOrdersSent(w) /\ Gone(w)' = Gone(w)
  <2>1. Covered(w, Plus(c, last, TotalOrdersSent(w)), TotalOrdersSent(w))
    BY <1>1, <1>2, CoverReads
  <2> QED BY <1>4, <2>1 DEF Covered, Plus
<1> QED BY <1>3, <1>4, HbMoves

LEMMA TotalStays ==
  ASSUME BotsInv, [FleetNext]_fleetVars, NEW w \in Worker, TotalOnWay(w)
  PROVE  TotalOnWay(w)'
<1>1. /\ Counts(w) /\ Counts(w)'
      /\ \/ TotalOrdersSent(w)' >= TotalOrdersSent(w) /\ Gone(w)' >= Gone(w)
         \/ Gone(w)' >= Gone(w) + TotalOrdersSent(w)
  BY CountsMove
<1>2. hb[w].total \in Nat
  BY DEF BotsInv, WorkersInv, HbType, Heartbeats
<1>3. CASE hb'[w] = hb[w]
  BY <1>1, <1>2, <1>3 DEF Counts, TotalOnWay
<1>4. CASE hb'[w].total = TotalOrdersSent(w) /\ TotalOrdersSent(w)' = TotalOrdersSent(w)
  BY <1>1, <1>4 DEF Counts, TotalOnWay
<1> QED BY <1>3, <1>4, HbMoves DEF TotalOnWay

\* A session that was just started is credited with nothing, which is covered.
LEMMA NothingIsBacked ==
  ASSUME BotsInv, NEW w \in Worker, NEW s \in Session, TotalOnWay(w)
  PROVE  Backed(w, s, 0, lastReported[w][s])
<1>1. Counts(w)
  BY CountsAre DEF BotsInv, WorkersInv
<1>2. hb[w].total \in Nat /\ lastReported[w][s] \in Nat
  BY DEF BotsInv, WorkersInv, HbType, Heartbeats, OrcInv, TypeOK
<1>3. Covered(w, 0, lastReported[w][s])
  BY <1>1 DEF Counts, Covered
<1>4. hb[w].pc = "ready" => Covered(w, Plus(0, lastReported[w][s], hb[w].total), hb[w].total)
  BY <1>1, <1>2 DEF Counts, Covered, Plus, TotalOnWay
<1> QED BY <1>3, <1>4 DEF Backed

\* Apart from heartbeats nothing counts orders; a session that appears is of a new run.
LEMMA OrdersKept ==
  ASSUME OrcInv,
         ServiceStep \/ (\E w \in Worker : PollStep(w) \/ WorkerReads(w)) \/ UNCHANGED vars
  PROVE  /\ \A n \in Run : obj'[n].orders = obj[n].orders
         /\ \A n \in Run : run'[n].pc = "unused" => run[n].pc = "unused"
         /\ \A s \in Session : sessions'[s] # NoRun =>
              \/ sessions'[s] = sessions[s]
              \/ sessions'[s] \in Run /\ run[sessions'[s]].pc = "unused"
         /\ lastReported' = lastReported \/ \A s \in Session : sessions'[s] = NoRun
<1> DEFINE Goal == /\ \A n \in Run : obj'[n].orders = obj[n].orders
                   /\ \A n \in Run : run'[n].pc = "unused" => run[n].pc = "unused"
                   /\ \A s \in Session : sessions'[s] # NoRun =>
                        \/ sessions'[s] = sessions[s]
                        \/ sessions'[s] \in Run /\ run[sessions'[s]].pc = "unused"
                   /\ lastReported' = lastReported \/ \A s \in Session : sessions'[s] = NoRun
<1>1. TypeOK /\ MapAgrees
  BY DEF OrcInv
<1>2. ASSUME UNCHANGED <<sessVars, run>> PROVE Goal
  BY <1>2 DEF sessVars
<1>3. ASSUME NEW s \in Session, StopSession(s)
      PROVE  /\ \A n \in Run : obj'[n].orders = obj[n].orders
             /\ UNCHANGED <<sessions, lastReported>>
  <2>1. CASE Known(s)
    <3>1. obj' = [obj EXCEPT ![sessions[s]].status = "done"] /\ sessions[s] \in Run
      BY <1>1, <1>3, <2>1 DEF StopSession, TypeOK, Known
    <3> QED BY <1>1, <1>3, <3>1 DEF StopSession, TypeOK, SessionRec
  <2>2. CASE ~Known(s)
    BY <1>3, <2>2 DEF StopSession
  <2> QED BY <2>1, <2>2
<1>4. ASSUME NEW n \in Run, NEW s \in Session, NEW b \in BotCounts, StartSession(n, s, b)
      PROVE  Goal
  <2>1. lastReported' = lastReported
    BY <1>4 DEF StartSession
  <2>2. \A m \in Run : run'[m].pc = "unused" => run[m].pc = "unused"
    BY <1>1, <1>4, StartEffect
  <2> QED BY <1>1, <1>4, <2>1, <2>2, StartEffect
<1>5. ASSUME NEW n \in Run,
             MarshalSession(n) \/ PersistSession(n) \/ SaveMeta(n) \/ RedisError(n)
               \/ DispatchNoWorkers(n)
      PROVE  Goal
  <2>1. \A m \in Run : run'[m].pc = "unused" => run[m].pc = "unused"
    BY <1>1, <1>5, MovePc
  <2>2. UNCHANGED sessVars
    BY <1>5 DEF MarshalSession, PersistSession, SaveMeta, RedisError, DispatchNoWorkers
  <2> QED BY <2>1, <2>2 DEF sessVars
<1>6. ASSUME NEW n \in Run, DispatchToWorkers(n) PROVE Goal
  <2> DEFINE s == run[n].sid
  <2>1. Known(s) /\ sessions[s] \in Run
    BY <1>1, <1>6, DispatchEffect
  <2>2. obj' = [obj EXCEPT ![sessions[s]].status = "running"]
    BY <1>6, <2>1 DEF DispatchToWorkers
  <2>3. \A m \in Run : obj'[m].orders = obj[m].orders
    BY <1>1, <2>1, <2>2 DEF TypeOK, SessionRec
  <2>4. \A m \in Run : run'[m].pc = "unused" => run[m].pc = "unused"
    BY <1>1, <1>6, DispatchEffect
  <2>5. UNCHANGED <<sessions, lastReported>>
    BY <1>6 DEF DispatchToWorkers
  <2> QED BY <2>3, <2>4, <2>5
<1>7. ASSUME NEW n \in Run, AutoStop(n) PROVE Goal
  <2>1. \A m \in Run : run'[m].pc = "unused" => run[m].pc = "unused"
    BY <1>1, <1>7, AutoStopEffect
  <2> QED BY <1>1, <1>3, <1>7, <2>1, AutoStopEffect
<1>8. ASSUME NEW n \in Run, RunStep(n) PROVE Goal
  BY <1>4, <1>5, <1>6, <1>7, <1>8 DEF RunStep
<1>9. CASE Restart
  BY <1>1, <1>9, RestartEffect
<1>10. ASSUME NEW s \in Session, APIStopSession(s) PROVE Goal
  BY <1>3, <1>10 DEF APIStopSession
<1>11. CASE ServiceStep
  BY <1>2, <1>8, <1>9, <1>10, <1>11 DEF ServiceStep, Silence, Reconcile, MetricsTick,
    MetricsPersist, RedisExpire
<1>12. ASSUME NEW w \in Worker, PollStep(w) \/ WorkerReads(w) PROVE Goal
  BY <1>2, <1>12 DEF PollStep, RegisterWorker, Subscribe, PollChannel, PollPubSub,
    PollTimeout, PollBroken, Answer, WorkerReads
<1>13. CASE UNCHANGED vars
  BY <1>2, <1>13 DEF vars
<1> QED BY <1>11, <1>12, <1>13

-----------------------------------------------------------------------------
(* Credits as sets: the credits c of the workers, each counted one by one. *)

Credited(c) == {x \in Worker \X Nat : 1 <= x[2] /\ x[2] <= c[x[1]]}

LEMMA CreditNothing ==
  ASSUME NEW c, \A w \in Worker : c[w] = 0
  PROVE  IsFiniteSet(Credited(c)) /\ Cardinality(Credited(c)) = 0
<1>1. Credited(c) = {}
  BY DEF Credited
<1> QED BY <1>1, FS_EmptySet

LEMMA CreditMore ==
  ASSUME NEW c \in [Worker -> Nat], IsFiniteSet(Credited(c)), NEW w \in Worker, NEW d \in Nat
  PROVE  LET e == [c EXCEPT ![w] = c[w] + d] IN
         /\ IsFiniteSet(Credited(e))
         /\ Cardinality(Credited(e)) = Cardinality(Credited(c)) + d
<1> DEFINE e == [c EXCEPT ![w] = c[w] + d]
           I == (c[w] + 1)..(c[w] + d)
           P == {w} \X I
<1>1. c[w] \in Nat /\ e[w] = c[w] + d /\ \A v \in Worker : v # w => e[v] = c[v]
  OBVIOUS
<1>2. Credited(e) = Credited(c) \cup P
  <2>1. ASSUME NEW x \in Worker \X Nat
        PROVE  (1 <= x[2] /\ x[2] <= e[x[1]])
                 <=> (1 <= x[2] /\ x[2] <= c[x[1]]) \/ (x[1] = w /\ x[2] \in I)
    <3>1. x[1] \in Worker /\ x[2] \in Nat
      OBVIOUS
    <3>2. CASE x[1] = w
      BY <1>1, <3>1, <3>2
    <3>3. CASE x[1] # w
      BY <1>1, <3>1, <3>3
    <3> QED BY <3>2, <3>3
  <2>2. P = {x \in Worker \X Nat : x[1] = w /\ x[2] \in I}
    BY <1>1
  <2> HIDE DEF e, P, I
  <2> QED BY <2>1, <2>2 DEF Credited
<1>3. Credited(c) \cap P = {}
  BY <1>1 DEF Credited
<1>4. IsFiniteSet(I) /\ Cardinality(I) = d
  <2> DEFINE a == c[w] + 1
             b == c[w] + d
  <2>1. a \in Int /\ b \in Int /\ d = b - a + 1 /\ (a > b => d = 0)
    BY <1>1
  <2>2. I = a..b
    OBVIOUS
  <2> HIDE DEF a, b, I
  <2>3. IsFiniteSet(a..b) /\ Cardinality(a..b) = IF a > b THEN 0 ELSE b - a + 1
    BY <2>1, FS_Interval
  <2> QED BY <2>1, <2>2, <2>3
<1>5. IsFiniteSet({w}) /\ Cardinality({w}) = 1
  BY FS_Singleton
<1> HIDE DEF I
<1>6. IsFiniteSet(P) /\ Cardinality(P) = 1 * d
  BY <1>4, <1>5, FS_Product
<1> HIDE DEF P
<1>7. /\ IsFiniteSet(Credited(c) \cup P)
      /\ Cardinality(Credited(c) \cup P)
           = Cardinality(Credited(c)) + Cardinality(P) - Cardinality(Credited(c) \cap P)
  BY <1>6, FS_Union
<1>8. Cardinality(Credited(c) \cap P) = 0
  BY <1>3, FS_EmptySet
<1>9. Cardinality(Credited(c)) \in Nat
  BY FS_CardinalityType
<1> HIDE DEF e
<1>10. Cardinality(Credited(e)) = Cardinality(Credited(c)) + d
  BY <1>2, <1>6, <1>7, <1>8, <1>9
<1> QED BY <1>2, <1>7, <1>10 DEF e

\* c is what each worker's heartbeats have brought s.
Accounted(s, c) ==
  /\ c \in [Worker -> Nat]
  /\ IsFiniteSet(Credited(c))
  /\ obj[sessions[s]].orders = Cardinality(Credited(c))
  /\ \A w \in Worker : Backed(w, s, c[w], lastReported[w][s])

CreditInv ==
  /\ \A n \in Run : run[n].pc = "unused" => obj[n].orders = 0
  /\ \A w \in Worker : TotalOnWay(w)
  /\ \A s \in Session : Known(s) => \E c : Accounted(s, c)

LEMMA CreditInit == FleetInit => CreditInv
BY FleetStarts DEF Init, Pending, WorkerInit, IdleHb, CreditInv, TotalOnWay, Known

\* Where the service goes on alone, or a worker does, credits are as they were.
LEMMA CreditKept ==
  ASSUME BotsInv, CreditInv, [FleetNext]_fleetVars,
         ServiceStep \/ (\E w \in Worker : PollStep(w) \/ WorkerReads(w)) \/ UNCHANGED vars
  PROVE  CreditInv'
<1>1. OrcInv /\ TypeOK
  BY DEF BotsInv, OrcInv
<1>2. /\ \A n \in Run : obj'[n].orders = obj[n].orders
      /\ \A n \in Run : run'[n].pc = "unused" => run[n].pc = "unused"
      /\ \A s \in Session : sessions'[s] # NoRun =>
           \/ sessions'[s] = sessions[s]
           \/ sessions'[s] \in Run /\ run[sessions'[s]].pc = "unused"
      /\ lastReported' = lastReported \/ \A s \in Session : sessions'[s] = NoRun
  BY <1>1, OrdersKept
<1>3. \A n \in Run : run'[n].pc = "unused" => obj'[n].orders = 0
  BY <1>2 DEF CreditInv
<1>4. \A w \in Worker : TotalOnWay(w)'
  BY TotalStays DEF CreditInv
<1>5. ASSUME NEW s \in Session, Known(s)' PROVE (\E c : Accounted(s, c))'
  <2>0. sessions'[s] # NoRun /\ lastReported' = lastReported
    BY <1>2, <1>5 DEF Known
  <2>1. CASE sessions'[s] = sessions[s]
    <3>1. Known(s) /\ sessions[s] \in Run
      BY <1>1, <2>0, <2>1 DEF Known, TypeOK
    <3>2. PICK c : Accounted(s, c)
      BY <3>1 DEF CreditInv
    <3>3. obj'[sessions'[s]].orders = Cardinality(Credited(c))
      BY <1>2, <2>1, <3>1, <3>2 DEF Accounted
    <3>4. \A w \in Worker : c[w] \in Nat /\ lastReported[w][s] \in Nat
      BY <1>1, <3>2 DEF Accounted, TypeOK
    <3>5. ASSUME NEW w \in Worker PROVE Backed(w, s, c[w], lastReported[w][s])'
      <4>1. \A x, y \in Nat : Backed(w, s, x, y) => Backed(w, s, x, y)'
        BY BackedStays
      <4>2. Backed(w, s, c[w], lastReported[w][s])
        BY <3>2 DEF Accounted
      <4> QED BY <2>0, <3>4, <4>1, <4>2 DEF Backed, Covered, Plus
    <3> QED BY <3>2, <3>3, <3>5 DEF Accounted
  <2>2. CASE sessions'[s] \in Run /\ run[sessions'[s]].pc = "unused"
    <3> DEFINE c == [w \in Worker |-> 0]
    <3>1. c \in [Worker -> Nat] /\ \A w \in Worker : c[w] = 0
      OBVIOUS
    <3> HIDE DEF c
    <3>2. IsFiniteSet(Credited(c)) /\ Cardinality(Credited(c)) = 0
      BY <3>1, CreditNothing
    <3>3. obj'[sessions'[s]].orders = 0
      BY <1>2, <2>2 DEF CreditInv
    <3>4. ASSUME NEW w \in Worker PROVE Backed(w, s, 0, lastReported[w][s])'
      <4>1. \A y \in Nat : Backed(w, s, 0, y) => Backed(w, s, 0, y)'
        BY BackedStays
      <4>2. Backed(w, s, 0, lastReported[w][s]) /\ lastReported[w][s] \in Nat
        BY <1>1, NothingIsBacked DEF CreditInv, TypeOK
      <4> QED BY <2>0, <4>1, <4>2 DEF Backed, Covered, Plus
    <3>5. c' = c
      BY DEF c
    <3>6. Accounted(s, c)'
      BY <3>1, <3>2, <3>3, <3>4, <3>5 DEF Accounted, Credited, Backed, Covered, Plus
    <3> QED BY <3>6
  <2> QED BY <1>2, <2>0, <2>1, <2>2
<1> QED BY <1>3, <1>4, <1>5 DEF CreditInv

\* What a heartbeat changes: the orders of one object, and one last total.
LEMMA ReportEffect ==
  ASSUME OrcInv, NEW w \in Worker, NEW sid \in Session, Known(sid), NEW t \in Nat,
         UpdateWorkerHeartbeat(w, sid, t)
  PROVE  LET m == sessions[sid] IN
         /\ m \in Run /\ run[m].pc # "unused"
         /\ \A s \in Session : s # sid => sessions[s] # m
         /\ obj'[m].orders = Plus(obj[m].orders, lastReported[w][sid], t)
         /\ \A n \in Run : n # m => obj'[n] = obj[n]
         /\ lastReported'[w][sid] = t
         /\ \A v \in Worker, s \in Session :
              (v = w /\ s = sid) \/ lastReported'[v][s] = lastReported[v][s]
<1> DEFINE m == sessions[sid]
           last == lastReported[w][sid]
<1>1. TypeOK /\ MapAgrees
  BY DEF OrcInv
<1>2. m \in Run /\ run[m].pc # "unused" /\ run[m].sid = sid
  BY <1>1 DEF TypeOK, MapAgrees, Known
<1>3. \A s \in Session : s # sid => sessions[s] # m
  BY <1>1, <1>2, ConstantsAssumption DEF MapAgrees, Known
<1>4. lastReported' = [lastReported EXCEPT ![w] = [lastReported[w] EXCEPT ![sid] = t]]
  BY DEF UpdateWorkerHeartbeat
<1>5. /\ lastReported'[w][sid] = t
      /\ \A v \in Worker, s \in Session :
           (v = w /\ s = sid) \/ lastReported'[v][s] = lastReported[v][s]
  BY <1>1, <1>4 DEF TypeOK
<1>6. /\ obj'[m].orders = Plus(obj[m].orders, last, t)
      /\ \A n \in Run : n # m => obj'[n] = obj[n]
  <2>1. obj' = IF t > last
                 THEN [obj EXCEPT ![m] = [obj[m] EXCEPT !.orders = obj[m].orders + (t - last)]]
                 ELSE obj
    BY DEF UpdateWorkerHeartbeat
  <2>2. obj \in [Run -> SessionRec] /\ obj[m] \in SessionRec
    BY <1>1, <1>2 DEF TypeOK
  <2> HIDE DEF m, last
  <2>3. CASE t > last
    BY <1>2, <2>1, <2>2, <2>3 DEF Plus, SessionRec
  <2>4. CASE ~(t > last)
    BY <2>1, <2>4 DEF Plus
  <2> QED BY <2>3, <2>4
<1> QED BY <1>2, <1>3, <1>5, <1>6

\* The heartbeat that arrives adds its difference to the credit of its worker.
LEMMA AccountMore ==
  ASSUME BotsInv, [FleetNext]_fleetVars, NEW w \in Worker, NEW s \in Session, NEW t \in Nat,
         hb[w].pc = "ready", hb[w].sid = s, hb[w].total = t, hb'[w].pc # "ready",
         sessions' = sessions,
         obj'[sessions[s]].orders = Plus(obj[sessions[s]].orders, lastReported[w][s], t),
         lastReported'[w][s] = t,
         \A v \in Worker : v # w => lastReported'[v][s] = lastReported[v][s],
         NEW c, Accounted(s, c)
  PROVE  (\E e : Accounted(s, e))'
<1>1. \A v \in Worker : c[v] \in Nat /\ lastReported[v][s] \in Nat
  BY DEF Accounted, BotsInv, OrcInv, TypeOK
<1>2. PICK d \in Nat : d = IF t > lastReported[w][s] THEN t - lastReported[w][s] ELSE 0
  BY <1>1
<1>3. /\ Plus(c[w], lastReported[w][s], t) = c[w] + d
      /\ Plus(obj[sessions[s]].orders, lastReported[w][s], t) = obj[sessions[s]].orders + d
  <2>1. Cardinality(Credited(c)) \in Nat /\ obj[sessions[s]].orders = Cardinality(Credited(c))
    BY FS_CardinalityType DEF Accounted
  <2> QED BY <1>1, <1>2, <2>1 DEF Plus
<1>4. PICK e \in [Worker -> Nat] :
        /\ e[w] = c[w] + d /\ \A v \in Worker : v # w => e[v] = c[v]
        /\ IsFiniteSet(Credited(e))
        /\ Cardinality(Credited(e)) = Cardinality(Credited(c)) + d
  <2> DEFINE e == [c EXCEPT ![w] = c[w] + d]
  <2>1. c \in [Worker -> Nat] /\ IsFiniteSet(Credited(c))
    BY DEF Accounted
  <2>2. /\ e \in [Worker -> Nat]
        /\ e[w] = c[w] + d /\ \A v \in Worker : v # w => e[v] = c[v]
    BY <1>1, <2>1
  <2>3. IsFiniteSet(Credited(e)) /\ Cardinality(Credited(e)) = Cardinality(Credited(c)) + d
    BY <2>1, CreditMore
  <2> HIDE DEF e
  <2> QED BY <2>2, <2>3
<1>5. obj'[sessions'[s]].orders = Cardinality(Credited(e))
  BY <1>3, <1>4 DEF Accounted
<1>6. ASSUME NEW v \in Worker, v # w PROVE Backed(v, s, e[v], lastReported[v][s])'
  <2>1. \A x, y \in Nat : Backed(v, s, x, y) => Backed(v, s, x, y)'
    BY BackedStays
  <2>2. Backed(v, s, c[v], lastReported[v][s])
    BY DEF Accounted
  <2>3. e[v] = c[v] /\ lastReported'[v][s] = lastReported[v][s]
    BY <1>4, <1>6
  <2> QED BY <1>1, <2>1, <2>2, <2>3 DEF Backed, Covered, Plus
<1>7. Backed(w, s, e[w], lastReported[w][s])'
  <2>1. Covered(w, e[w], t)
    BY <1>3, <1>4 DEF Accounted, Backed
  <2>2. /\ Counts(w) /\ Counts(w)'
        /\ \/ TotalOrdersSent(w)' >= TotalOrdersSent(w) /\ Gone(w)' >= Gone(w)
           \/ Gone(w)' >= Gone(w) + TotalOrdersSent(w)
    BY CountsMove
  <2>3. e[w] \in Nat
    BY <1>4
  <2>4. Covered(w, e[w], t)'
    BY <2>1, <2>2, <2>3, CoverMoves
  <2> QED BY <2>4 DEF Backed, Covered
<1> QED BY <1>4, <1>5, <1>6, <1>7 DEF Accounted

LEMMA CreditReported ==
  ASSUME BotsInv, CreditInv, [FleetNext]_fleetVars, NEW w \in Worker, Reports(w)
  PROVE  CreditInv'
<1>1. OrcInv /\ TypeOK
  BY DEF BotsInv, OrcInv
<1>2. PICK sid \in Session \cup {NoSession}, t \in Nat : sid = hb[w].sid /\ t = hb[w].total
  BY DEF BotsInv, WorkersInv, HbType, Heartbeats
<1>3. /\ UpdateWorkerHeartbeat(w, sid, t) /\ hb[w].pc = "ready" /\ hb'[w].pc # "ready"
      /\ UNCHANGED <<sessions, run>>
  <2>1. hb \in [Worker -> Heartbeats]
    BY DEF BotsInv, WorkersInv, HbType
  <2> QED BY <1>2, <2>1 DEF Reports, UpdateWorkerHeartbeat, HbPost, IdleHb
<1>4. \A v \in Worker : TotalOnWay(v)'
  BY TotalStays DEF CreditInv
<1>5. ASSUME NEW s \in Session, Known(s),
             obj'[sessions[s]].orders = obj[sessions[s]].orders,
             \A v \in Worker : lastReported'[v][s] = lastReported[v][s]
      PROVE  (\E c : Accounted(s, c))'
  <2>1. PICK c : Accounted(s, c)
    BY <1>5 DEF CreditInv
  <2>2. \A v \in Worker : c[v] \in Nat /\ lastReported[v][s] \in Nat
    BY <1>1, <2>1 DEF Accounted, TypeOK
  <2>3. ASSUME NEW v \in Worker PROVE Backed(v, s, c[v], lastReported[v][s])'
    <3>1. \A x, y \in Nat : Backed(v, s, x, y) => Backed(v, s, x, y)'
      BY BackedStays
    <3>2. Backed(v, s, c[v], lastReported[v][s])
      BY <2>1 DEF Accounted
    <3> QED BY <1>5, <2>2, <3>1, <3>2 DEF Backed, Covered, Plus
  <2> QED BY <1>3, <1>5, <2>1, <2>3 DEF Accounted
<1>6. CASE ~(sid \in Session /\ Known(sid))
  <2>1. UNCHANGED <<obj, lastReported>>
    BY <1>3, <1>6 DEF UpdateWorkerHeartbeat
  <2>2. \A s \in Session : Known(s)' => (\E c : Accounted(s, c))'
    BY <1>3, <1>5, <2>1 DEF Known
  <2> QED BY <1>3, <1>4, <2>1, <2>2 DEF CreditInv
<1>7. CASE sid \in Session /\ Known(sid)
  <2>1. /\ sessions[sid] \in Run /\ run[sessions[sid]].pc # "unused"
        /\ \A s \in Session : s # sid => sessions[s] # sessions[sid]
        /\ obj'[sessions[sid]].orders
             = Plus(obj[sessions[sid]].orders, lastReported[w][sid], t)
        /\ \A n \in Run : n # sessions[sid] => obj'[n] = obj[n]
        /\ lastReported'[w][sid] = t
        /\ \A v \in Worker, s \in Session :
             (v = w /\ s = sid) \/ lastReported'[v][s] = lastReported[v][s]
    BY <1>1, <1>3, <1>7, ReportEffect
  <2>2. \A n \in Run : run'[n].pc = "unused" => obj'[n].orders = 0
    BY <1>3, <2>1 DEF CreditInv
  <2>3. ASSUME NEW s \in Session, Known(s)', s # sid PROVE (\E c : Accounted(s, c))'
    <3>1. Known(s) /\ sessions[s] \in Run /\ sessions[s] # sessions[sid]
      BY <1>1, <1>3, <2>1, <2>3 DEF Known, TypeOK
    <3> QED BY <1>5, <2>1, <2>3, <3>1
  <2>4. (\E c : Accounted(sid, c))'
    <3>1. PICK c : Accounted(sid, c)
      BY <1>7 DEF CreditInv
    <3>2. hb[w].pc = "ready" /\ hb[w].sid = sid /\ hb[w].total = t /\ hb'[w].pc # "ready"
      BY <1>2, <1>3
    <3>3. /\ sessions' = sessions
          /\ \A v \in Worker : v # w => lastReported'[v][sid] = lastReported[v][sid]
      BY <1>3, <1>7, <2>1
    <3>4. /\ sid \in Session
          /\ obj'[sessions[sid]].orders
               = Plus(obj[sessions[sid]].orders, lastReported[w][sid], t)
          /\ lastReported'[w][sid] = t
      BY <1>7, <2>1
    <3> QED BY <3>1, <3>2, <3>3, <3>4, AccountMore
  <2> QED BY <1>4, <2>2, <2>3, <2>4 DEF CreditInv
<1> QED BY <1>6, <1>7

LEMMA CreditStep == BotsInv /\ CreditInv /\ [FleetNext]_fleetVars => CreditInv'
BY CreditKept, CreditReported, FleetSteps DEF ServiceAlone, StartArrives, StopArrives, Works

-----------------------------------------------------------------------------
(* Covered credits, worker by worker, are no more than what was sent.      *)

OrdersBy(w) == OrdersOf(w, Run)

LEMMA OrdersByFinite ==
  /\ \A w \in Worker : OrdersBy(w) \subseteq Run \X (1..MaxSent) /\ IsFiniteSet(OrdersBy(w))
  /\ IsFiniteSet(SentByFleet)
<1>1. IsFiniteSet(1..MaxSent)
  BY BotWorkerAssumption, FS_Interval
<1>2. IsFiniteSet(Run \X (1..MaxSent))
  BY <1>1, BotWorkerAssumption, FS_Product
<1>3. IsFiniteSet(Worker \X (Run \X (1..MaxSent)))
  BY <1>2, ConstantsAssumption, FS_Product
<1>4. SentByFleet \subseteq Worker \X (Run \X (1..MaxSent))
  BY DEF SentByFleet
<1>5. \A w \in Worker : OrdersBy(w) \subseteq Run \X (1..MaxSent)
  BY DEF OrdersBy, OrdersOf
<1>6. \A w \in Worker : IsFiniteSet(OrdersBy(w))
  BY <1>2, <1>5, FS_Subset
<1>7. IsFiniteSet(SentByFleet)
  BY <1>3, <1>4, FS_Subset
<1> QED BY <1>5, <1>6, <1>7

\* One order of its own for every order credited.
LEMMA CreditFits ==
  ASSUME NEW c \in [Worker -> Nat],
         \A w \in Worker : c[w] <= Cardinality(OrdersBy(w))
  PROVE  Cardinality(Credited(c)) <= Cardinality(SentByFleet)
<1> DEFINE f == [w \in Worker |-> CHOOSE g :
                   g \in Bijection(1..Cardinality(OrdersBy(w)), OrdersBy(w))]
           F == [x \in Credited(c) |-> <<x[1], f[x[1]][x[2]]>>]
<1>1. ASSUME NEW w \in Worker
      PROVE  f[w] \in Bijection(1..Cardinality(OrdersBy(w)), OrdersBy(w))
  <2>1. ExistsBijection(1..Cardinality(OrdersBy(w)), OrdersBy(w))
    BY OrdersByFinite, FS_CardinalityType
  <2>2. \E g : g \in Bijection(1..Cardinality(OrdersBy(w)), OrdersBy(w))
    BY <2>1 DEF ExistsBijection
  <2> QED BY <2>2
<1> HIDE DEF f
<1>2. ASSUME NEW w \in Worker, NEW i \in Nat, 1 <= i, i <= c[w]
      PROVE  /\ f[w][i] \in OrdersBy(w)
             /\ \A j \in Nat : 1 <= j /\ j <= c[w] /\ f[w][i] = f[w][j] => i = j
  <2>1. Cardinality(OrdersBy(w)) \in Nat
    BY OrdersByFinite, FS_CardinalityType
  <2>2. \A j \in Nat : 1 <= j /\ j <= c[w] => j \in 1..Cardinality(OrdersBy(w))
    BY <2>1
  <2>3. i \in 1..Cardinality(OrdersBy(w))
    BY <1>2, <2>2
  <2> QED BY <1>1, <2>2, <2>3 DEF Bijection, Injection, IsInjective
<1>3. \A x \in Credited(c) :
        x[1] \in Worker /\ x[2] \in Nat /\ 1 <= x[2] /\ x[2] <= c[x[1]]
  BY DEF Credited
<1>4. F \in [Credited(c) -> SentByFleet]
  <2>1. ASSUME NEW x \in Credited(c) PROVE <<x[1], f[x[1]][x[2]]>> \in SentByFleet
    <3>1. x[1] \in Worker /\ f[x[1]][x[2]] \in OrdersBy(x[1])
      BY <1>2, <1>3
    <3>2. f[x[1]][x[2]] \in Run \X (1..MaxSent)
      BY <3>1, OrdersByFinite
    <3> QED BY <3>1, <3>2 DEF SentByFleet, OrdersBy
  <2> QED BY <2>1
<1>5. ASSUME NEW x \in Credited(c), NEW y \in Credited(c), F[x] = F[y] PROVE x = y
  <2>1. x[1] = y[1] /\ f[x[1]][x[2]] = f[y[1]][y[2]]
    BY <1>5
  <2>2. x[2] = y[2]
    BY <1>2, <1>3, <2>1
  <2> QED BY <2>1, <2>2 DEF Credited
<1>6. F \in Injection(Credited(c), SentByFleet)
  BY <1>4, <1>5 DEF Injection, IsInjective
<1> HIDE DEF F
<1> QED BY <1>6, OrdersByFinite, FS_Injection

\* The delta accounting of UpdateWorkerHeartbeat never credits a session with more orders
\* than the whole fleet has sent, for any number of workers, sessions, restarts and lost
\* heartbeats, though totals drop at every STOP and sessions change while a heartbeat is
\* being made.
THEOREM CreditIsBounded == FleetSpec => []CreditBounded
<1>1. BotsInv /\ CreditInv => CreditBounded
  <2> SUFFICES ASSUME BotsInv, CreditInv, NEW s \in Session, Known(s)
               PROVE  obj[sessions[s]].orders <= Cardinality(SentByFleet)
    BY DEF CreditBounded
  <2>1. PICK c : Accounted(s, c)
    BY DEF CreditInv
  <2>2. ASSUME NEW w \in Worker PROVE c[w] <= Cardinality(OrdersBy(w))
    <3>1. c[w] \in Nat /\ lastReported[w][s] \in Nat /\ Covered(w, c[w], lastReported[w][s])
      BY <2>1 DEF Accounted, Backed, BotsInv, OrcInv, TypeOK
    <3>2. TotalOrdersSent(w) \in Nat /\ Gone(w) \in Nat
      BY CountsAre DEF Counts, BotsInv, WorkersInv
    <3>3. Cardinality(OrdersOf(w, Run)) = Gone(w) + TotalOrdersSent(w)
      BY CountTypes DEF BotsInv, WorkersInv, TotalOrdersSent, Gone
    <3>4. OrdersOf(w, Run) = OrdersBy(w)
      BY DEF OrdersBy, OrdersOf
    <3>5. Cardinality(OrdersBy(w)) = Gone(w) + TotalOrdersSent(w)
      BY <3>3, <3>4
    <3> QED BY <3>1, <3>2, <3>5 DEF Covered
  <2>3. obj[sessions[s]].orders = Cardinality(Credited(c)) /\ c \in [Worker -> Nat]
    BY <2>1 DEF Accounted
  <2>4. Cardinality(Credited(c)) <= Cardinality(SentByFleet)
    BY <2>2, <2>3, CreditFits
  <2> QED BY <2>3, <2>4
<1> QED BY <1>1, BotsInit, BotsStep, CreditInit, CreditStep, PTL DEF FleetSpec

-----------------------------------------------------------------------------
(* What is true of each part alone is true of the two together.            *)

LEMMA FleetInvariant == FleetSpec => []BotsInv
BY BotsInit, BotsStep, PTL DEF FleetSpec

LEMMA FleetIsAny == FleetSpec => [][AnyStep]_vars
<1>1. BotsInv /\ [FleetNext]_fleetVars => [AnyStep]_vars
  BY FleetOrcStep DEF BotsInv
<1> QED BY <1>1, FleetInvariant, PTL DEF FleetSpec

\* With the heartbeats and polls of real workers the orchestrator still implements the
\* promise about sessions, records every running one, splits bots exactly and gives each
\* START once; and a worker still trades for one session at a time.
THEOREM FleetKeepsPromises ==
  FleetSpec => /\ LeaseSafety
               /\ [](RunningHasTimer /\ RunningIsRecorded)
               /\ [](StartAtMostOnce /\ SharesExact)
               /\ []OneSessionAtATime
<1>1. BotsInv => TypeOK /\ MapAgrees
  BY DEF BotsInv, OrcInv
<1>2. FleetInit => Init
  BY FleetStarts
<1>3. FleetSpec => LeaseSafety
  <2>1. Init => Lease!Init
    BY InitLease
  <2>2. TypeOK /\ MapAgrees /\ [AnyStep]_vars => [Lease!Next]_Lease!vars
    BY NextLease DEF Lease!vars
  <2> QED BY <1>1, <1>2, <2>1, <2>2, FleetInvariant, FleetIsAny, PTL
          DEF FleetSpec, LeaseSafety, Lease!Spec
<1>4. FleetSpec => [](RunningHasTimer /\ RunningIsRecorded)
  <2>1. Init => RunningHasTimer /\ MetaSaved
    BY DEF Init, RunningHasTimer, StatusOf, Known, MetaSaved
  <2>2. TypeOK /\ MapAgrees /\ RunningHasTimer /\ [AnyStep]_vars => RunningHasTimer'
    BY NextLease, LeaseKept
  <2>3. MetaSaved /\ RunningHasTimer => RunningIsRecorded
    BY DEF MetaSaved, RunningHasTimer, RunningIsRecorded, TimersOf
  <2> QED BY <1>1, <1>2, <2>1, <2>2, <2>3, NextMeta, FleetInvariant, FleetIsAny, PTL DEF FleetSpec
<1>5. FleetSpec => [](StartAtMostOnce /\ SharesExact)
  <2>1. Init => SharesExact
    BY DEF Init, SharesExact, Assigned
  <2>2. BotsInv => StartAtMostOnce
    BY OnceImplies DEF BotsInv, OrcInv
  <2> QED BY <1>1, <1>2, <2>1, <2>2, NextShares, FleetInvariant, FleetIsAny, PTL DEF FleetSpec
<1>6. FleetSpec => []OneSessionAtATime
  <2>1. BotsInv => OneSessionAtATime
    BY DEF BotsInv, WorkersInv, BatchInv, OneEverywhere, BatchType, OneSessionAtATime, Running
  <2> QED BY <2>1, FleetInvariant, PTL
<1> QED BY <1>3, <1>4, <1>5, <1>6
=============================================================================
