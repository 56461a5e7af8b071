--------------------------- MODULE MCOrchestrator ---------------------------
(***************************************************************************)
(* Model-checking module of Orchestrator: the life of runs and sessions.   *)
(***************************************************************************)
EXTENDS Orchestrator

\* How many commands wait in each channel, and whether one waits to be answered or
\* read, is all that guards ask of commands; what is in them, like the history
\* variable, has no part in the life of a session.
LifecycleView ==
  <<sessVars, workers, seen, poll, run, agg, redisVars, restarts,
    [w \in Worker |-> <<Len(cmdChan[w]), sub[w] = NoCmd, reply[w] = NoCmd>>]>>
=============================================================================
