------------------------------- MODULE Fleet -------------------------------
(***************************************************************************)
(* The orchestrator together with its bot workers: the answers to polls    *)
(* are the commands that workers handle, and the heartbeats that workers   *)
(* compose are those that the orchestrator accounts.                       *)
(***************************************************************************)
EXTENDS Orchestrator, BotWorker

fleetVars == <<vars, bwVars>>

FleetInit == Init /\ WorkerInit

\* The worker decodes the answer of its poll and handles the command.
Handle(w) ==
  /\ w \in alive
  /\ WorkerReads(w)
  /\ \/ /\ reply[w].kind = "START"
        /\ HandleStart(w, reply[w].run, reply[w].sid, reply[w].bots)
     \/ /\ reply[w].kind = "STOP"
        /\ HandleStop(w)

\* Only a running process polls.
Poll(w) ==
  /\ w \in alive \/ poll[w] # "off" \/ reply[w] # NoCmd
  /\ PollStep(w)
  /\ UNCHANGED bwVars

HeartbeatArrives(w) ==
  /\ UpdateWorkerHeartbeat(w, hb[w].sid, hb[w].total)
  /\ HbPost(w)

HeartbeatLost(w) ==
  /\ w \in Lossy
  /\ HbPost(w)
  /\ UNCHANGED vars

WorkerStep(w) ==
  /\ \/ \E n \in Run : BotStep(w, n)
     \/ HbStep(w)
     \/ w \in Lossy /\ Crash(w)
  /\ UNCHANGED vars

FleetNext ==
  \/ ServiceStep /\ UNCHANGED bwVars
  \/ \E w \in Worker :
       Handle(w) \/ Poll(w) \/ HeartbeatArrives(w) \/ HeartbeatLost(w) \/ WorkerStep(w)

FleetSpec == FleetInit /\ [][FleetNext]_fleetVars

\* As in Orchestrator and BotWorker; polls end, and a live worker handles its answer
\* and polls again.
FleetFairSpec ==
  /\ FleetSpec
  /\ \A n \in Run : WF_fleetVars(RunProgress(n) /\ UNCHANGED bwVars)
  /\ \A w \in Worker : WF_fleetVars(Handle(w)) /\ WF_fleetVars(Poll(w))
  /\ \A w \in Worker, n \in Run : WF_fleetVars(SpawnBots(w, n) /\ UNCHANGED vars)
  /\ \A w \in Worker, n \in Run \ Stalling : WF_fleetVars(BotsDone(w, n) /\ UNCHANGED vars)

-----------------------------------------------------------------------------
\* The orders that the bots of all workers have sent.
SentByFleet == {x \in Worker \X (Run \X (1..MaxSent)) : x[2] \in OrdersOf(x[1], Run)}

\* The delta accounting of UpdateWorkerHeartbeat never credits a session with more
\* orders than the whole fleet has sent, although totals drop when bots are
\* forgotten, sessions change between the two reads of a heartbeat, and
\* heartbeats get lost.
CreditBounded ==
  \A s \in Session : Known(s) => obj[sessions[s]].orders <= Cardinality(SentByFleet)

\* Bots exist only because dispatchToWorkers sent this worker a START of the run, and
\* they are as many as its share.  The exception is a worker that comes out with no
\* share because there are more workers than bots: it is sent a START all the same,
\* takes the 0 for a count left out, and runs the default number of bots, which
\* nobody asked for.
BotsBelongToDispatch ==
  \A w \in Worker, n \in Run : batch[w][n].st # "none" =>
    /\ Assigned(n)
    /\ batch[w][n].sid = run[n].sid
    /\ \/ run[n].share[w] > 0 /\ batch[w][n].size = run[n].share[w]
       \/ run[n].share[w] = 0 /\ batch[w][n].size = DefaultBots /\ TooFew(n)

Trades(s) ==
  \E w \in Worker, n \in Run :
    batch[w][n].sid = s /\ batch[w][n].st = "live" /\ ~batch[w][n].cancelled

\* "Broadcast STOP to all workers" (StopSession): the bots of a session that is done
\* are told to stop.
StopReachesBots ==
  \A s \in Session : StatusOf(s) = "done" ~> ~Trades(s) \/ StatusOf(s) # "done"
=============================================================================
