----------------------------- MODULE Submission -----------------------------
(***************************************************************************)
(* The submission-service (services/submission-service): the upload of an  *)
(* engine, its way through scan, object store and database, the background *)
(* job that builds and deploys it, and the goroutine that asks the         *)
(* orchestrator for a benchmark session.                                   *)
(*                                                                         *)
(* Each step is one call to the file system, MinIO, Postgres, docker or    *)
(* the orchestrator; any of them may fail, MaxFailures times, and an       *)
(* engine may exit at any moment.  A submission is deployed once, so it    *)
(* also names its session.  Left out: archives, what MinIO stores (nobody  *)
(* reads it), languages, Dockerfiles and urls but for their port.          *)
(***************************************************************************)
EXTENDS Naturals

CONSTANTS
  Sub,          \* submissions
  TeamId, Name, \* what X-Team-ID and X-Team-Name carry
  MaxFailures,  \* bound on failed calls, losses and crashes
  Hanging,      \* submissions, of Sub, whose build may never return
  NoTeam, NoName

VARIABLES
  up,          \* the process runs
  hasDB,       \* it found Postgres when it started; if not, it never writes to it
  teams,       \* table teams: the name of each team id
  row,         \* table submissions
  tempFile,    \* submissions whose uploaded file lies in the temp directory
  containers,  \* submissions whose container was started by docker run -d
  exited,      \* those whose engine, and with it the container, has exited since
  job,         \* the handler, then the background job, of each submission
  notify,      \* the goroutine notifyOrchestrator of each submission
  failures     \* failures so far

subVars == <<up, hasDB, teams, row, tempFile, containers, exited, job, notify>>
vars == <<subVars, failures>>

Status == {"none", "pending", "building", "build_failed", "deploying", "running"}

RowRec == [status : Status, team : TeamId \cup {NoTeam}, session : BOOLEAN]

NoRow == [status |-> "none", team |-> NoTeam, session |-> FALSE]

PC == {"idle", "scan", "team", "insert", "refused", "locked_out",
       "building", "build", "failing", "deploying", "deploy", "port", "running", "force",
       "end", "lost"}

\* hurt: some call made for the submission failed, or the process died under it.
\* port: the port of the address for the orchestrator, the container's own or 8080.
JobRec == [pc : PC, team : TeamId \cup {NoTeam}, name : Name \cup {NoName},
           image : {"none", "real", "mock"}, port : {"8080", "own"}, hurt : BOOLEAN]

NoJob == [pc |-> "idle", team |-> NoTeam, name |-> NoName, image |-> "none",
          port |-> "8080", hurt |-> FALSE]

TypeOK ==
  /\ up \in BOOLEAN
  /\ hasDB \in BOOLEAN
  /\ teams \in [TeamId -> Name \cup {NoName}]
  /\ row \in [Sub -> RowRec]
  /\ tempFile \subseteq Sub
  /\ containers \subseteq Sub
  /\ exited \subseteq containers
  /\ job \in [Sub -> JobRec]
  /\ notify \in [Sub -> {"none", "waiting", "asked", "gone"}]
  /\ failures \in 0..MaxFailures

Init ==
  /\ up = TRUE
  /\ hasDB \in BOOLEAN
  /\ teams = [t \in TeamId |-> NoName]
  /\ row = [s \in Sub |-> NoRow]
  /\ tempFile = {}
  /\ containers = {}
  /\ exited = {}
  /\ job = [s \in Sub |-> NoJob]
  /\ notify = [s \in Sub |-> "none"]
  /\ failures = 0

Fails == failures < MaxFailures /\ failures' = failures + 1

\* The job of s goes on; or it goes on although a call failed.
Goes(s, from, to) ==
  /\ job[s].pc = from
  /\ job' = [job EXCEPT ![s].pc = to]
  /\ UNCHANGED failures

GoesHurt(s, from, to) ==
  /\ job[s].pc = from
  /\ Fails
  /\ job' = [job EXCEPT ![s].pc = to, ![s].hurt = TRUE]

-----------------------------------------------------------------------------
(* SubmitCode.                                                             *)

\* The file of the request has been copied to a temp file.
Submit(s, t, n) ==
  /\ up
  /\ job[s].pc = "idle"
  /\ job' = [job EXCEPT ![s] = [NoJob EXCEPT !.pc = "scan", !.team = t, !.name = n]]
  /\ tempFile' = tempFile \cup {s}
  /\ UNCHANGED <<up, hasDB, teams, row, containers, exited, notify, failures>>

\* The scan and the upload to MinIO.  A request refused by either leaves its temp file
\* behind.
ScanAndUpload(s) ==
  /\ \/ \E to \in {"team", "refused"} : Goes(s, "scan", to)
     \/ GoesHurt(s, "scan", "refused")
  /\ UNCHANGED <<up, hasDB, teams, row, tempFile, containers, exited, notify>>

Holders(n) == {t \in TeamId : teams[t] = n}

\* CreateSubmission inserts the team unless its id is there.  team_name is UNIQUE, so
\* the insert fails if another id has the name; as any error, that is ignored.
UpsertTeam(s) ==
  /\ \/ /\ Goes(s, "team", "insert")
        /\ teams' = IF /\ hasDB /\ job[s].team # NoTeam
                       /\ teams[job[s].team] = NoName /\ Holders(job[s].name) = {}
             THEN [teams EXCEPT ![job[s].team] = job[s].name] ELSE teams
     \/ hasDB /\ GoesHurt(s, "team", "insert") /\ UNCHANGED teams
  /\ UNCHANGED <<up, hasDB, row, tempFile, containers, exited, notify>>

\* team_id REFERENCES teams: without the team's row the insert fails.
TeamMissing(s) == job[s].team # NoTeam /\ teams[job[s].team] = NoName

\* The row is inserted (or nothing is, without a database), the background job starts
\* and the client is told 202.
InsertRow(s) ==
  /\ \/ /\ ~(hasDB /\ TeamMissing(s))
        /\ Goes(s, "insert", "building")
        /\ row' = IF hasDB
             THEN [row EXCEPT ![s] = [NoRow EXCEPT !.status = "pending", !.team = job[s].team]]
             ELSE row
     \/ hasDB /\ TeamMissing(s) /\ Goes(s, "insert", "locked_out") /\ UNCHANGED row
     \/ hasDB /\ GoesHurt(s, "insert", "refused") /\ UNCHANGED row
  /\ UNCHANGED <<up, hasDB, teams, tempFile, containers, exited, notify>>

-----------------------------------------------------------------------------
(* buildAndDeploy.                                                         *)

\* UpdateSubmission, whose error nobody looks at.
Update(s, from, to, status, session) ==
  \/ /\ Goes(s, from, to)
     /\ row' = IF hasDB /\ row[s].status # "none"
          THEN [row EXCEPT ![s].status = status, ![s].session = session] ELSE row
  \/ hasDB /\ GoesHurt(s, from, to) /\ UNCHANGED row

MarkBuilding(s) ==
  /\ Update(s, "building", "build", "building", FALSE)
  /\ UNCHANGED <<up, hasDB, teams, tempFile, containers, exited, notify>>

\* An archive that cannot be laid out is an error.  If docker build fails, because
\* docker is missing or because the code does not compile, the image is called mock.
Build(s) ==
  /\ job[s].pc = "build"
  /\ \/ job' = [job EXCEPT ![s].pc = "failing"]
     \/ \E i \in {"real", "mock"} : job' = [job EXCEPT ![s].pc = "deploying", ![s].image = i]
  /\ UNCHANGED <<up, hasDB, teams, row, tempFile, containers, exited, notify, failures>>

\* Defect: an early return without the deferred os.Remove.
MarkBuildFailedLeaves(s) ==
  /\ Update(s, "failing", "end", "build_failed", FALSE)
  /\ UNCHANGED <<up, hasDB, teams, tempFile, containers, exited, notify>>

MarkBuildFailed(s) ==
  /\ Update(s, "failing", "end", "build_failed", FALSE)
  /\ tempFile' = tempFile \ {s}
  /\ UNCHANGED <<up, hasDB, teams, containers, exited, notify>>

MarkDeploying(s) ==
  /\ Update(s, "deploying", "deploy", "deploying", FALSE)
  /\ UNCHANGED <<up, hasDB, teams, tempFile, containers, exited, notify>>

\* Defect: the error of docker run is ignored.
DockerRunUnchecked(s) ==
  /\ \/ /\ job[s].image = "real" /\ Goes(s, "deploy", "port")
        /\ containers' = containers \cup {s}
     \/ job[s].image = "real" /\ GoesHurt(s, "deploy", "port") /\ UNCHANGED containers
     \/ job[s].image = "mock" /\ Goes(s, "deploy", "port") /\ UNCHANGED containers
  /\ UNCHANGED <<up, hasDB, teams, row, tempFile, exited, notify>>

\* Deploy: docker run -d.  If it fails (as it must for a mock image) Deploy returns a
\* session and no error, and nobody is notified.
DockerRun(s) ==
  /\ \/ /\ job[s].image = "real" /\ Goes(s, "deploy", "port")
        /\ containers' = containers \cup {s}
     \/ job[s].image = "real" /\ GoesHurt(s, "deploy", "running") /\ UNCHANGED containers
     \/ job[s].image = "mock" /\ Goes(s, "deploy", "running") /\ UNCHANGED containers
  /\ UNCHANGED <<up, hasDB, teams, row, tempFile, exited, notify>>

\* Deploy: docker port, which knows only the ports of running containers, and then the
\* goroutine that will notify the orchestrator.  If docker port fails, for whatever
\* reason, the address keeps the port 8080 and the goroutine is started all the same.
DockerPort(s) ==
  /\ job[s].pc = "port"
  /\ \/ /\ s \in containers \ exited
        /\ job' = [job EXCEPT ![s].pc = "running", ![s].port = "own"]
        /\ UNCHANGED failures
     \/ s \notin containers \ exited /\ Goes(s, "port", "running")
     \/ GoesHurt(s, "port", "running")
  /\ notify' = [notify EXCEPT ![s] = "waiting"]
  /\ UNCHANGED <<up, hasDB, teams, row, tempFile, containers, exited>>

\* The engine exits or crashes (environment).  Nobody is told.
EngineExits(s) ==
  /\ s \in containers \ exited
  /\ exited' = exited \cup {s}
  /\ UNCHANGED <<up, hasDB, teams, row, tempFile, containers, job, notify, failures>>

MarkRunning(s) ==
  /\ Update(s, "running", "force", "running", TRUE)
  /\ UNCHANGED <<up, hasDB, teams, tempFile, containers, exited, notify>>

\* The same again by a second UPDATE; then the temp file is removed.
ForceRunning(s) ==
  /\ Update(s, "force", "end", "running", TRUE)
  /\ tempFile' = tempFile \ {s}
  /\ UNCHANGED <<up, hasDB, teams, containers, exited, notify>>

\* After 3 s the orchestrator is asked for a session, once; no answer is acted upon.
Notify(s) ==
  /\ notify[s] = "waiting"
  /\ \/ notify' = [notify EXCEPT ![s] = "asked"] /\ UNCHANGED <<job, failures>>
     \/ /\ Fails
        /\ notify' = [notify EXCEPT ![s] = "gone"]
        /\ job' = [job EXCEPT ![s].hurt = TRUE]
  /\ UNCHANGED <<up, hasDB, teams, row, tempFile, containers, exited>>

-----------------------------------------------------------------------------
Resting == {"idle", "refused", "locked_out", "end", "lost"}

\* The process dies; rows, files and containers stay as they are, and nothing
\* takes up the jobs again.
Crash ==
  /\ up
  /\ Fails
  /\ up' = FALSE
  /\ job' = [s \in Sub |->
       IF job[s].pc \in Resting /\ notify[s] # "waiting" THEN job[s]
       ELSE [job[s] EXCEPT !.pc = IF @ \in Resting THEN @ ELSE "lost", !.hurt = TRUE]]
  /\ notify' = [s \in Sub |-> IF notify[s] = "waiting" THEN "gone" ELSE notify[s]]
  /\ UNCHANGED <<hasDB, teams, row, tempFile, containers, exited>>

Restart ==
  /\ ~up
  /\ up' = TRUE
  /\ hasDB' \in BOOLEAN
  /\ UNCHANGED <<teams, row, tempFile, containers, exited, job, notify, failures>>

Job(s) ==
  \/ ScanAndUpload(s) \/ UpsertTeam(s) \/ InsertRow(s)
  \/ MarkBuilding(s) \/ Build(s) \/ MarkBuildFailed(s) \/ MarkDeploying(s)
  \/ DockerRun(s) \/ DockerPort(s) \/ MarkRunning(s) \/ ForceRunning(s)

Service == Crash \/ Restart \/ \E s \in Sub : Job(s) \/ Notify(s) \/ EngineExits(s)

Next == Service \/ \E s \in Sub, t \in TeamId \cup {NoTeam}, n \in Name : Submit(s, t, n)

Spec == Init /\ [][Next]_vars

\* What the job of s is certain to go on with.  docker build runs the contestant's own
\* build files without any deadline, so it may hang.
Certain(s) == Job(s) /\ (s \in Hanging => job[s].pc # "build")

\* Other calls to other services end, and the goroutine of a job goes on.
Fairness == \A s \in Sub : WF_vars(Certain(s))

FairSpec == Spec /\ Fairness

-----------------------------------------------------------------------------
\* The orchestrator is asked for bots only after docker run has started the engine's
\* container, and at that container's own port unless a call failed or the engine has
\* exited.  And what the database calls running has a session that the orchestrator
\* has been or will be asked for, unless the image was a mock or some call failed.
RunningIsDeployed ==
  /\ \A s \in Sub : notify[s] # "none" =>
       s \in containers /\ (job[s].port = "own" \/ job[s].hurt \/ s \in exited)
  /\ \A s \in Sub : row[s].status = "running" /\ job[s].image = "real" /\ ~job[s].hurt =>
       notify[s] \in {"waiting", "asked"} /\ row[s].session

\* What was accepted comes to an end, also if builds, docker or the database fail, or
\* hangs in a build that never returns, without holding up another submission: the temp
\* file is removed and, if every call worked, the row says that the build failed or
\* that a real image is running.  (For a mock image the code writes "running" too;
\* nothing is asked of that.)
JobsSettle ==
  \A s \in Sub :
    job[s].pc = "building" ~>
      \/ job[s].pc = "lost"
      \/ s \in Hanging /\ job[s].pc = "build"
      \/ /\ job[s].pc = "end" /\ s \notin tempFile
         /\ hasDB /\ ~job[s].hurt /\ row[s].status # "none" =>
              /\ job[s].image = "none" => row[s].status = "build_failed"
              /\ job[s].image = "real" => row[s].status = "running"
=============================================================================
