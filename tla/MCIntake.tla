------------------------------ MODULE MCIntake ------------------------------
(***************************************************************************)
(* Model-checking module of Intake.                                        *)
(***************************************************************************)
EXTENDS Intake

\* The port of a job, and whether its engine has exited, decide nothing but
\* RunningIsDeployed, which looks at them only while the job is not hurt, and at exited
\* only while the job has no port of its own.
IntakeView ==
  <<teamVars, up, hasDB, teams, row, tempFile, containers, notify, failures,
    [s \in Sub |-> IF job[s].hurt THEN [job[s] EXCEPT !.port = "8080"] ELSE job[s]],
    {s \in exited : ~job[s].hurt /\ job[s].port = "8080"}>>
=============================================================================
