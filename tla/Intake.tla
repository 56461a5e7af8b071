------------------------------- MODULE Intake -------------------------------
(***************************************************************************)
(* The way of a submission into the platform: accounts of the api-gateway  *)
(* and the submission-service.  The gateway passes a request on with the   *)
(* team id and the team name of its token.                                 *)
(***************************************************************************)
EXTENDS Naturals

CONSTANTS Name, Reg, Sub, MaxFailures, Hanging, NoReg, NoName

ASSUME IntakeAssumption ==
  NoReg \notin Reg /\ NoName \notin Name /\ MaxFailures \in Nat /\ Hanging \subseteq Sub

VARIABLES
  account, reg, overlap,
  up, hasDB, teams, row, tempFile, containers, exited, job, notify,
  failures

T == INSTANCE Teams
S == INSTANCE Submission WITH TeamId <- Reg, NoTeam <- NoReg

teamVars == <<account, reg, overlap>>
subVars == <<up, hasDB, teams, row, tempFile, containers, exited, job, notify>>
vars == <<teamVars, subVars, failures>>

Init == T!Init /\ S!Init

\* POST /v1/submissions with a token, through the gateway.
SubmitWithToken(s, r) ==
  /\ reg[r].pc = "created"
  /\ S!Submit(s, r, reg[r].name)
  /\ UNCHANGED teamVars

\* POST to the service itself, without identity headers: "anonymous", no team.  Callers
\* who set those headers themselves are not modelled.
SubmitAnonymous(s) ==
  /\ S!Submit(s, NoReg, NoName)
  /\ UNCHANGED teamVars

Next ==
  \/ T!Next /\ UNCHANGED subVars
  \/ S!Service /\ UNCHANGED teamVars
  \/ \E s \in Sub : SubmitAnonymous(s) \/ \E r \in Reg : SubmitWithToken(s, r)

Spec == Init /\ [][Next]_vars

FairSpec == Spec /\ \A s \in Sub : WF_vars(S!Certain(s) /\ UNCHANGED teamVars)

-----------------------------------------------------------------------------
TypeOK == T!TypeOK /\ S!TypeOK

\* Accounts live in Redis and teams in Postgres.  "Upsert the team to resolve Redis vs
\* Postgres split-brain" (CreateSubmission) holds as far as this: a team is refused
\* because of its name only if the name was registered twice, and that takes two
\* registrations at once, or a failure.
TeamsCanSubmit ==
  \A s \in Sub : job[s].pc = "locked_out" /\ failures = 0 => job[s].name \in overlap

RunningIsDeployed == S!RunningIsDeployed

JobsSettle == S!JobsSettle
=============================================================================
