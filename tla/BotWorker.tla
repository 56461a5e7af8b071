----------------------------- MODULE BotWorker -----------------------------
(***************************************************************************)
(* The bot-worker processes (services/bot-worker/main.go): the loop that   *)
(* handles START and STOP, the bots it spawns and cancels, and the         *)
(* heartbeat goroutine.                                                    *)
(*                                                                         *)
(* The bots of one START are one batch, named by the run the START belongs *)
(* to: they share a context and a session.  The poll loop holds no lock    *)
(* while it handles a command, but what other goroutines see of a handler  *)
(* in the middle they also see before or after it, so a handler is one     *)
(* step; SpawnBots is a goroutine of its own and waits for w.mu.  Left out *)
(* as data: orders, prices, telemetry events, the market simulation.       *)
(***************************************************************************)
EXTENDS Platform, Naturals, FiniteSets

CONSTANTS
  DefaultBots,  \* bots started for a count of 0 (8 in the code)
  MaxSent,      \* bound on the orders of one batch
  Reporting,    \* bound: the workers whose heartbeat goroutine is modelled
  Stalling      \* runs whose engine may stop reading from its connections

ASSUME BotWorkerAssumption ==
  /\ IsFiniteSet(Run)
  /\ BotCounts \subseteq Nat
  /\ DefaultBots \in Nat \ {0}
  /\ MaxSent \in Nat
  /\ Reporting \subseteq Worker
  /\ Stalling \subseteq Run
  /\ NoSession \notin Session
  /\ NoRun \notin Run

VARIABLES
  alive,       \* workers whose process runs
  curSession,  \* currentSessionID
  ctx,         \* the batch that currentSessionCancel cancels
  batch,       \* the bots of each START
  active,      \* w.activeBots, as a set of batches
  hb           \* the heartbeat goroutine: what it has read so far

bwVars == <<alive, curSession, ctx, batch, active, hb>>

BatchRec == [st : {"none", "spawning", "live", "gone"}, sid : Session \cup {NoSession},
             size : Nat, cancelled : BOOLEAN, sent : Nat]

NoBatch == [st |-> "none", sid |-> NoSession, size |-> 0, cancelled |-> FALSE, sent |-> 0]

Heartbeats == [pc : {"idle", "session", "ready"}, sid : Session \cup {NoSession}, total : Nat]

IdleHb == [pc |-> "idle", sid |-> NoSession, total |-> 0]

WorkerTypeOK ==
  /\ alive \subseteq Worker
  /\ curSession \in [Worker -> Session \cup {NoSession}]
  /\ ctx \in [Worker -> Run \cup {NoRun}]
  /\ batch \in [Worker -> [Run -> BatchRec]]
  /\ \A w \in Worker : active[w] \subseteq {n \in Run : batch[w][n].st \in {"live", "gone"}}
  /\ hb \in [Worker -> Heartbeats]

WorkerInit ==
  /\ alive = Worker
  /\ curSession = [w \in Worker |-> NoSession]
  /\ ctx = [w \in Worker |-> NoRun]
  /\ batch = [w \in Worker |-> [n \in Run |-> NoBatch]]
  /\ active = [w \in Worker |-> {}]
  /\ hb = [w \in Worker |-> IdleHb]

\* Cancelling a context that is done already, or none, does nothing.
Cancel(batches, ns) ==
  [n \in Run |-> [batches[n] EXCEPT !.cancelled = @ \/ n \in ns]]

BotCount(b) == IF b = 0 THEN DefaultBots ELSE b

\* Defect: START does not cancel the session that runs.
HandleStartKeeps(w, n, s, b) ==
  /\ batch' = [batch EXCEPT ![w][n] =
       [NoBatch EXCEPT !.st = "spawning", !.sid = s, !.size = BotCount(b)]]
  /\ ctx' = [ctx EXCEPT ![w] = n]
  /\ curSession' = [curSession EXCEPT ![w] = s]
  /\ UNCHANGED <<alive, active, hb>>

\* START of run n: the old context is cancelled, the old bots stay in activeBots.
HandleStart(w, n, s, b) ==
  /\ batch' = [batch EXCEPT ![w] =
       [Cancel(@, {ctx[w]}) EXCEPT ![n] =
          [NoBatch EXCEPT !.st = "spawning", !.sid = s, !.size = BotCount(b)]]]
  /\ ctx' = [ctx EXCEPT ![w] = n]
  /\ curSession' = [curSession EXCEPT ![w] = s]
  /\ UNCHANGED <<alive, active, hb>>

\* Defect: only StopBots cancels, so bots that are still to be spawned are missed.
HandleStopActiveOnly(w) ==
  /\ batch' = [batch EXCEPT ![w] = Cancel(@, active[w])]
  /\ active' = [active EXCEPT ![w] = {}]
  /\ ctx' = [ctx EXCEPT ![w] = NoRun]
  /\ curSession' = [curSession EXCEPT ![w] = NoSession]
  /\ UNCHANGED <<alive, hb>>

\* STOP, for whatever session: the context is cancelled, then StopBots cancels and
\* forgets every active bot.
HandleStop(w) ==
  /\ batch' = [batch EXCEPT ![w] = Cancel(@, active[w] \cup {ctx[w]})]
  /\ active' = [active EXCEPT ![w] = {}]
  /\ ctx' = [ctx EXCEPT ![w] = NoRun]
  /\ curSession' = [curSession EXCEPT ![w] = NoSession]
  /\ UNCHANGED <<alive, hb>>

\* SpawnBots gets w.mu: the bots start and become active, cancelled or not.
SpawnBots(w, n) ==
  /\ w \in alive
  /\ batch[w][n].st = "spawning"
  /\ batch' = [batch EXCEPT ![w][n].st = "live"]
  /\ active' = [active EXCEPT ![w] = @ \cup {n}]
  /\ UNCHANGED <<alive, curSession, ctx, hb>>

\* A bot sends an order.  One that is cancelled may still do so: the select of
\* runWS picks any ready case, and runREST looks at its context once per order.
BotSend(w, n) ==
  /\ w \in alive
  /\ batch[w][n].st = "live"
  /\ batch[w][n].sent < MaxSent
  /\ batch' = [batch EXCEPT ![w][n].sent = @ + 1]
  /\ UNCHANGED <<alive, curSession, ctx, active, hb>>

\* The cancelled bots have seen ctx.Done() and returned.
BotsDone(w, n) ==
  /\ w \in alive
  /\ batch[w][n].st = "live"
  /\ batch[w][n].cancelled
  /\ batch' = [batch EXCEPT ![w][n].st = "gone"]
  /\ UNCHANGED <<alive, curSession, ctx, active, hb>>

\* The target closes the connections and the bots return from runWS on their own.
BotsFail(w, n) ==
  /\ w \in alive
  /\ batch[w][n].st = "live"
  /\ ~batch[w][n].cancelled
  /\ batch' = [batch EXCEPT ![w][n].st = "gone"]
  /\ UNCHANGED <<alive, curSession, ctx, active, hb>>

-----------------------------------------------------------------------------
(* The heartbeat goroutine: it reads the session under sessionMu, then the *)
(* totals under w.mu, then posts, one heartbeat after the other.           *)

\* The orders that the batches ns have sent: each is named by its batch and its number.
OrdersOf(w, ns) == {o \in ns \X (1..MaxSent) : o[2] <= batch[w][o[1]].sent}

TotalOrdersSent(w) == Cardinality(OrdersOf(w, active[w]))

HbReadSession(w) ==
  /\ w \in alive \cap Reporting
  /\ hb[w].pc = "idle"
  /\ hb' = [hb EXCEPT ![w] = [IdleHb EXCEPT !.pc = "session", !.sid = curSession[w]]]
  /\ UNCHANGED <<alive, curSession, ctx, batch, active>>

HbReadOrders(w) ==
  /\ w \in alive
  /\ hb[w].pc = "session"
  /\ hb' = [hb EXCEPT ![w].pc = "ready", ![w].total = TotalOrdersSent(w)]
  /\ UNCHANGED <<alive, curSession, ctx, batch, active>>

\* The request ends, answered or not: there is no retry.
HbPost(w) ==
  /\ w \in alive
  /\ hb[w].pc = "ready"
  /\ hb' = [hb EXCEPT ![w] = IdleHb]
  /\ UNCHANGED <<alive, curSession, ctx, batch, active>>

\* The process dies.  It comes back under a new id: no deployment file sets WORKER_ID.
Crash(w) ==
  /\ w \in alive
  /\ alive' = alive \ {w}
  /\ batch' = [batch EXCEPT ![w] = [n \in Run |->
       IF batch[w][n].st = "none" THEN NoBatch ELSE [batch[w][n] EXCEPT !.st = "gone"]]]
  /\ hb' = [hb EXCEPT ![w] = IdleHb]
  /\ UNCHANGED <<curSession, ctx, active>>

-----------------------------------------------------------------------------
BotStep(w, n) ==
  \/ SpawnBots(w, n)
  \/ BotSend(w, n)
  \/ BotsDone(w, n)
  \/ BotsFail(w, n)

HbStep(w) == HbReadSession(w) \/ HbReadOrders(w)

\* A command arrives, in any order; the START of a run at most once.
Receive(w) ==
  /\ w \in alive
  /\ \/ \E n \in Run, s \in Session, b \in BotCounts :
          batch[w][n].st = "none" /\ HandleStart(w, n, s, b)
     \/ HandleStop(w)

WorkerNext ==
  \E w \in Worker :
    \/ Receive(w)
    \/ \E n \in Run : BotStep(w, n)
    \/ HbStep(w)
    \/ HbPost(w)
    \/ Crash(w)

WorkerSpec == WorkerInit /\ [][WorkerNext]_bwVars

\* Goroutines that can run do.  That a cancelled bot sees ctx.Done() is promised only
\* where the engine goes on reading: WriteMessage has no deadline, and a bot that
\* waits in it looks at nothing else (module Bot has the connection in detail).
WorkerFairness ==
  /\ \A w \in Worker, n \in Run : WF_bwVars(SpawnBots(w, n))
  /\ \A w \in Worker, n \in Run \ Stalling : WF_bwVars(BotsDone(w, n))

WorkerFairSpec == WorkerSpec /\ WorkerFairness

-----------------------------------------------------------------------------
Running(w, n) == batch[w][n].st \in {"spawning", "live"}

\* A worker "manages a pool of bots for one session": bots that nobody has told to
\* stop are those of the last START and trade for the session that heartbeats
\* name, even when SpawnBots gets its lock long after the command.
OneSessionAtATime ==
  \A w \in alive, n \in Run :
    Running(w, n) /\ ~batch[w][n].cancelled =>
      n = ctx[w] /\ batch[w][n].sid = curSession[w]

\* Bots that have been told to stop and wait for an engine that has stopped reading.
Stuck(w, n) == n \in Stalling /\ batch[w][n].st = "live" /\ batch[w][n].cancelled

\* After a STOP all bots of the worker end, those included whose SpawnBots was still
\* waiting when the STOP came, unless a new START follows.  What may remain are the
\* bots of an engine that stopped reading; they keep no bots of other runs alive.
StopQuiets ==
  \A w \in Worker :
    curSession[w] = NoSession ~>
      curSession[w] # NoSession \/ \A n \in Run : Running(w, n) => Stuck(w, n)
=============================================================================
