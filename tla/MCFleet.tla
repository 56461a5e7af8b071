------------------------------ MODULE MCFleet ------------------------------
(***************************************************************************)
(* Model-checking module of Fleet.                                         *)
(***************************************************************************)
EXTENDS Fleet, TLC

RunSymmetry == Permutations(Run)
WorkerSymmetry == Permutations(Worker)

\* States that differ only in the copies in Redis, in what metricsAggLoop is about to
\* write there, or in the history variable are one: no guard, no other update and
\* no property of the run with this view reads those.
FleetView ==
  <<sessVars, poolVars, poll, sub, reply, restarts, bwVars,
    [n \in Run |-> <<run[n].pc, run[n].sid, run[n].bots, run[n].share>>]>>

\* With the history variable, for the properties about the delivery of commands.
DeliveryView == <<FleetView, handed>>
=============================================================================
