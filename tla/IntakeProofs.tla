---------------------------- MODULE IntakeProofs ----------------------------
(***************************************************************************)
(* Proofs about Intake, for any number of names, registrations and         *)
(* submissions and for any number of failed calls, losses and crashes.     *)
(***************************************************************************)
EXTENDS Intake, TLAPS

\* What the steps of the way add up to for one submission: a mark "lost" or a session
\* that nobody asks for goes with hurt, only the last two steps write "running", and
\* who is notified of a foreign port is so for a reason.
Settling(s) ==
  /\ job[s].pc \in {"idle", "scan", "team", "insert", "building", "build", "failing"} =>
       job[s].image = "none"
  /\ job[s].pc \in {"running", "force", "end"} /\ job[s].image = "real" /\ ~job[s].hurt =>
       notify[s] \in {"waiting", "asked"}
  /\ job[s].pc = "lost" => job[s].hurt
  /\ row[s].status = "running" => row[s].session /\ job[s].pc \in {"force", "end", "lost"}
  /\ job[s].pc = "port" => s \in containers
  /\ notify[s] # "none" =>
       /\ job[s].pc \in {"running", "force", "end", "lost"}
       /\ s \in containers
       /\ job[s].port = "own" \/ job[s].hurt \/ s \in exited

SettlingInv == TypeOK /\ \A s \in Sub : Settling(s)

LEMMA IntakeTypes ==
  ASSUME TypeOK
  PROVE  /\ account \in [Name -> Reg \cup {NoReg}] /\ reg \in [Reg -> T!RegRec]
         /\ overlap \subseteq Name
         /\ up \in BOOLEAN /\ hasDB \in BOOLEAN /\ teams \in [Reg -> Name \cup {NoName}]
         /\ row \in [Sub -> S!RowRec] /\ job \in [Sub -> S!JobRec]
         /\ tempFile \subseteq Sub /\ containers \subseteq Sub /\ exited \subseteq containers
         /\ notify \in [Sub -> {"none", "waiting", "asked", "gone"}]
         /\ failures \in Nat
  BY IntakeAssumption DEF TypeOK, T!TypeOK, S!TypeOK

\* Going on changes where a job is and, if a call failed, marks it as hurt.
LEMMA GoesOn ==
  ASSUME TypeOK, NEW s \in Sub, NEW from, NEW to \in S!PC,
         S!Goes(s, from, to) \/ S!GoesHurt(s, from, to)
  PROVE  /\ job' \in [Sub -> S!JobRec] /\ failures' \in 0..MaxFailures
         /\ job[s].pc = from /\ job'[s].pc = to
         /\ job'[s].team = job[s].team /\ job'[s].name = job[s].name
         /\ job'[s].image = job[s].image /\ job'[s].port = job[s].port
         /\ \A q \in Sub \ {s} : job'[q] = job[q]
         /\ S!Goes(s, from, to) => job'[s].hurt = job[s].hurt /\ failures' = failures
         /\ S!GoesHurt(s, from, to) => job'[s].hurt = TRUE /\ failures' = failures + 1
<1> DEFINE j == job[s]
<1>1. j \in S!JobRec /\ failures \in 0..MaxFailures /\ job \in [Sub -> S!JobRec]
  BY IntakeTypes DEF TypeOK, S!TypeOK
<1>2. CASE S!Goes(s, from, to)
  <2>1. /\ job' = [job EXCEPT ![s] = [j EXCEPT !.pc = to]]
        /\ j.pc = from /\ failures' = failures
    BY <1>2 DEF S!Goes
  <2>2. /\ [j EXCEPT !.pc = to] \in S!JobRec /\ [j EXCEPT !.pc = to].pc = to
        /\ [j EXCEPT !.pc = to].team = j.team /\ [j EXCEPT !.pc = to].name = j.name
        /\ [j EXCEPT !.pc = to].image = j.image /\ [j EXCEPT !.pc = to].port = j.port
        /\ [j EXCEPT !.pc = to].hurt = j.hurt
    BY <1>1 DEF S!JobRec
  <2>3. ~S!GoesHurt(s, from, to)
    BY <1>1, <2>1 DEF S!GoesHurt, S!Fails
  <2> QED BY <1>1, <2>1, <2>2, <2>3
<1>3. CASE S!GoesHurt(s, from, to)
  <2>1. /\ job' = [job EXCEPT ![s] = [j EXCEPT !.pc = to, !.hurt = TRUE]]
        /\ j.pc = from /\ failures' = failures + 1 /\ failures < MaxFailures
    BY <1>3 DEF S!GoesHurt, S!Fails
  <2> DEFINE k == [j EXCEPT !.pc = to, !.hurt = TRUE]
  <2>2. /\ k \in S!JobRec /\ k.pc = to /\ k.team = j.team /\ k.name = j.name
        /\ k.image = j.image /\ k.port = j.port /\ k.hurt = TRUE
    BY <1>1 DEF S!JobRec
  <2>3. ~S!Goes(s, from, to)
    BY <1>1, <2>1 DEF S!Goes
  <2>4. failures' \in 0..MaxFailures
    BY <1>1, <2>1, IntakeAssumption
  <2> HIDE DEF k
  <2>5. job' = [job EXCEPT ![s] = k]
    BY <2>1 DEF k
  <2> QED BY <1>1, <2>1, <2>2, <2>3, <2>4, <2>5
<1> QED BY <1>2, <1>3

\* UPDATE writes status and session of one row, or nothing.
LEMMA UpdateEffect ==
  ASSUME TypeOK, NEW s \in Sub, NEW from, NEW to \in S!PC, NEW status \in S!Status,
         NEW session \in BOOLEAN, S!Update(s, from, to, status, session)
  PROVE  /\ S!Goes(s, from, to) \/ S!GoesHurt(s, from, to)
         /\ row' \in [Sub -> S!RowRec]
         /\ \A q \in Sub \ {s} : row'[q] = row[q]
         /\ \/ row'[s] = row[s]
            \/ row'[s].status = status /\ row'[s].session = session
<1> DEFINE w == row[s]
           v == [w EXCEPT !.status = status, !.session = session]
<1>1. w \in S!RowRec /\ row \in [Sub -> S!RowRec]
  BY IntakeTypes
<1>2. v \in S!RowRec /\ v.status = status /\ v.session = session
  BY <1>1 DEF S!RowRec
<1>3. row' = row \/ row' = [row EXCEPT ![s] = v]
  BY DEF S!Update
<1> HIDE DEF v
<1>4. S!Goes(s, from, to) \/ S!GoesHurt(s, from, to)
  BY DEF S!Update
<1> QED BY <1>1, <1>2, <1>3, <1>4

LEMMA SettlingInit == Init => SettlingInv
<1> SUFFICES ASSUME Init PROVE SettlingInv
  OBVIOUS
<1>1. S!NoJob \in S!JobRec /\ S!NoJob.pc = "idle" /\ S!NoJob.image = "none"
  BY DEF S!NoJob, S!JobRec, S!PC
<1>2. S!NoRow \in S!RowRec /\ S!NoRow.status = "none"
  BY DEF S!NoRow, S!RowRec, S!Status
<1>3. [pc |-> "new", name |-> NoName] \in T!RegRec
  BY DEF T!RegRec
<1>4. 0 \in 0..MaxFailures
  BY IntakeAssumption
<1>5. T!TypeOK
  BY <1>3, <1>4 DEF Init, T!Init, T!TypeOK
<1>6. S!TypeOK
  BY <1>1, <1>2, <1>4 DEF Init, S!Init, S!TypeOK
<1>7. \A s \in Sub : Settling(s)
  BY <1>1, <1>2 DEF Init, S!Init, Settling
<1> QED BY <1>5, <1>6, <1>7 DEF SettlingInv, TypeOK

\* A step of the job of s leaves the other submissions alone.
LEMMA SettlingJob ==
  ASSUME SettlingInv, NEW s \in Sub, S!Job(s), UNCHANGED teamVars
  PROVE  SettlingInv'
<1>1. TypeOK /\ Settling(s) /\ \A q \in Sub : Settling(q)
  BY DEF SettlingInv
<1>2. ASSUME job' \in [Sub -> S!JobRec], row' \in [Sub -> S!RowRec],
             teams' \in [Reg -> Name \cup {NoName}],
             tempFile' \subseteq Sub, containers' \subseteq Sub, containers \subseteq containers',
             notify' \in [Sub -> {"none", "waiting", "asked", "gone"}],
             failures' \in 0..MaxFailures, UNCHANGED <<up, hasDB, exited>>,
             \A q \in Sub \ {s} : /\ job'[q] = job[q] /\ row'[q] = row[q]
                                  /\ notify'[q] = notify[q],
             Settling(s)'
      PROVE  SettlingInv'
  <2>1. S!TypeOK'
    BY <1>1, <1>2 DEF TypeOK, S!TypeOK
  <2>2. T!TypeOK'
    BY <1>1, <1>2 DEF TypeOK, T!TypeOK, teamVars
  <2>3. \A q \in Sub \ {s} : Settling(q)'
    BY <1>1, <1>2 DEF Settling
  <2> QED BY <1>2, <2>1, <2>2, <2>3 DEF SettlingInv, TypeOK
<1>3. ASSUME NEW from \in S!PC, NEW to \in S!PC,
             S!Goes(s, from, to) \/ S!GoesHurt(s, from, to),
             row' \in [Sub -> S!RowRec], \A q \in Sub \ {s} : row'[q] = row[q],
             teams' \in [Reg -> Name \cup {NoName}], tempFile' \subseteq tempFile,
             UNCHANGED <<up, hasDB, containers, exited, notify>>, Settling(s)'
      PROVE  SettlingInv'
  <2>1. /\ job' \in [Sub -> S!JobRec] /\ failures' \in 0..MaxFailures
        /\ \A q \in Sub \ {s} : job'[q] = job[q]
    BY <1>1, <1>3, GoesOn
  <2> QED BY <1>1, <1>2, <1>3, <2>1, IntakeTypes
<1>4. ASSUME S!ScanAndUpload(s) PROVE SettlingInv'
  <2>1. PICK to \in {"team", "refused"} : S!Goes(s, "scan", to) \/ S!GoesHurt(s, "scan", to)
    BY <1>4 DEF S!ScanAndUpload
  <2>2. UNCHANGED <<up, hasDB, teams, row, tempFile, containers, exited, notify>>
    BY <1>4 DEF S!ScanAndUpload
  <2>3. to \in S!PC /\ "scan" \in S!PC
    BY DEF S!PC
  <2>4. job[s].pc = "scan" /\ job'[s].pc = to /\ job'[s].image = job[s].image
    BY <1>1, <2>1, <2>3, GoesOn
  <2>5. Settling(s)'
    BY <1>1, <2>2, <2>4 DEF Settling
  <2> QED BY <1>1, <1>3, <2>1, <2>2, <2>3, <2>5, IntakeTypes
<1>5. ASSUME S!UpsertTeam(s) PROVE SettlingInv'
  <2>1. S!Goes(s, "team", "insert") \/ S!GoesHurt(s, "team", "insert")
    BY <1>5 DEF S!UpsertTeam
  <2>2. UNCHANGED <<up, hasDB, row, tempFile, containers, exited, notify>>
    BY <1>5 DEF S!UpsertTeam
  <2>3. "team" \in S!PC /\ "insert" \in S!PC
    BY DEF S!PC
  <2>4. job[s].pc = "team" /\ job'[s].pc = "insert" /\ job'[s].image = job[s].image
    BY <1>1, <2>1, <2>3, GoesOn
  <2>5. Settling(s)'
    BY <1>1, <2>2, <2>4 DEF Settling
  <2>6. teams' \in [Reg -> Name \cup {NoName}]
    <3>1. job[s].name \in Name \cup {NoName} /\ teams \in [Reg -> Name \cup {NoName}]
      BY <1>1, IntakeTypes DEF S!JobRec
    <3>2. teams' = teams \/ teams' = [teams EXCEPT ![job[s].team] = job[s].name]
      BY <1>5 DEF S!UpsertTeam
    <3> QED BY <3>1, <3>2
  <2> QED BY <1>1, <1>3, <2>1, <2>2, <2>3, <2>5, <2>6, IntakeTypes
<1>6. ASSUME S!InsertRow(s) PROVE SettlingInv'
  <2>1. PICK to \in {"building", "locked_out", "refused"} :
          S!Goes(s, "insert", to) \/ S!GoesHurt(s, "insert", to)
    BY <1>6 DEF S!InsertRow
  <2>2. UNCHANGED <<up, hasDB, teams, tempFile, containers, exited, notify>>
    BY <1>6 DEF S!InsertRow
  <2>3. to \in S!PC /\ "insert" \in S!PC
    BY DEF S!PC
  <2>4. job[s].pc = "insert" /\ job'[s].pc = to /\ job'[s].image = job[s].image
    BY <1>1, <2>1, <2>3, GoesOn
  <2> DEFINE w == [S!NoRow EXCEPT !.status = "pending", !.team = job[s].team]
  <2>5. w \in S!RowRec /\ w.status = "pending"
    <3>1. job[s].team \in Reg \cup {NoReg}
      BY <1>1, IntakeTypes DEF S!JobRec
    <3> QED BY <3>1 DEF S!NoRow, S!RowRec, S!Status
  <2>6. row' = row \/ row' = [row EXCEPT ![s] = w]
    BY <1>6 DEF S!InsertRow
  <2> HIDE DEF w
  <2>7. /\ row' \in [Sub -> S!RowRec] /\ \A q \in Sub \ {s} : row'[q] = row[q]
        /\ row'[s] = row[s] \/ row'[s].status = "pending"
    BY <1>1, <2>5, <2>6, IntakeTypes
  <2>8. Settling(s)'
    BY <1>1, <2>2, <2>4, <2>7 DEF Settling
  <2> QED BY <1>1, <1>3, <2>1, <2>2, <2>3, <2>7, <2>8, IntakeTypes
<1>7. ASSUME NEW from \in S!PC, NEW to \in S!PC, NEW status \in S!Status,
             NEW session \in BOOLEAN, S!Update(s, from, to, status, session),
             UNCHANGED <<up, hasDB, teams, containers, exited, notify>>, tempFile' \subseteq tempFile,
             <<from, to, status, session>> \in
               {<<"building", "build", "building", FALSE>>, <<"failing", "end", "build_failed", FALSE>>,
                <<"deploying", "deploy", "deploying", FALSE>>, <<"running", "force", "running", TRUE>>,
                <<"force", "end", "running", TRUE>>}
      PROVE  SettlingInv'
  <2>1. /\ S!Goes(s, from, to) \/ S!GoesHurt(s, from, to)
        /\ row' \in [Sub -> S!RowRec] /\ \A q \in Sub \ {s} : row'[q] = row[q]
        /\ \/ row'[s] = row[s]
           \/ row'[s].status = status /\ row'[s].session = session
    <3>1. /\ from \in S!PC /\ to \in S!PC /\ status \in S!Status /\ session \in BOOLEAN
          /\ S!Update(s, from, to, status, session)
      BY <1>7
    <3> QED BY <1>1, <3>1, UpdateEffect
  <2>2. /\ job[s].pc = from /\ job'[s].pc = to /\ job'[s].image = job[s].image
        /\ job'[s].port = job[s].port
        /\ S!Goes(s, from, to) => job'[s].hurt = job[s].hurt
        /\ S!GoesHurt(s, from, to) => job'[s].hurt = TRUE
    BY <1>1, <1>7, <2>1, GoesOn
  <2>4. job'[s].hurt = job[s].hurt \/ job'[s].hurt = TRUE
    BY <2>1, <2>2
  <2>3. Settling(s)'
    <3>1. /\ notify'[s] = notify[s] /\ (s \in containers' <=> s \in containers)
          /\ (s \in exited' <=> s \in exited)
      BY <1>7
    <3>2. CASE from \in {"running", "force"} /\ status = "running" /\ session = TRUE
      BY <1>1, <1>7, <2>1, <2>2, <2>4, <3>1, <3>2 DEF Settling
    <3>3. CASE from \in {"building", "failing", "deploying"} /\ status # "running"
      BY <1>1, <1>7, <2>1, <2>2, <2>4, <3>1, <3>3 DEF Settling
    <3> QED BY <1>7, <3>2, <3>3
  <2> QED BY <1>1, <1>3, <1>7, <2>1, <2>3, IntakeTypes
<1>8. ASSUME S!MarkBuilding(s) PROVE SettlingInv'
  BY <1>7, <1>8 DEF S!MarkBuilding, S!PC, S!Status
<1>9. ASSUME S!MarkBuildFailed(s) PROVE SettlingInv'
  BY <1>7, <1>9 DEF S!MarkBuildFailed, S!PC, S!Status
<1>10. ASSUME S!MarkDeploying(s) PROVE SettlingInv'
  BY <1>7, <1>10 DEF S!MarkDeploying, S!PC, S!Status
<1>11. ASSUME S!MarkRunning(s) PROVE SettlingInv'
  BY <1>7, <1>11 DEF S!MarkRunning, S!PC, S!Status
<1>12. ASSUME S!ForceRunning(s) PROVE SettlingInv'
  BY <1>7, <1>12 DEF S!ForceRunning, S!PC, S!Status
<1>13. ASSUME S!Build(s) PROVE SettlingInv'
  <2> DEFINE j == job[s]
  <2>1. j \in S!JobRec /\ j.pc = "build"
    BY <1>1, <1>13, IntakeTypes DEF S!Build
  <2>2. PICK k \in S!JobRec :
          /\ job' = [job EXCEPT ![s] = k]
          /\ (k.pc = "failing" /\ k.image = j.image) \/ k.pc = "deploying"
    <3>1. CASE job' = [job EXCEPT ![s].pc = "failing"]
      <4> DEFINE k == [j EXCEPT !.pc = "failing"]
      <4>1. k \in S!JobRec /\ k.pc = "failing" /\ k.image = j.image
        BY <2>1 DEF S!JobRec, S!PC
      <4> QED BY <3>1, <4>1
    <3>2. ASSUME NEW i \in {"real", "mock"},
                 job' = [job EXCEPT ![s].pc = "deploying", ![s].image = i]
          PROVE  \E k \in S!JobRec : job' = [job EXCEPT ![s] = k] /\ k.pc = "deploying"
      <4> DEFINE k == [j EXCEPT !.pc = "deploying", !.image = i]
      <4>1. k \in S!JobRec /\ k.pc = "deploying"
        BY <2>1 DEF S!JobRec, S!PC
      <4>2. job' = [job EXCEPT ![s] = k]
        BY <1>1, <3>2, IntakeTypes
      <4> QED BY <4>1, <4>2
    <3> QED BY <1>13, <3>1, <3>2 DEF S!Build
  <2>3. /\ UNCHANGED <<up, hasDB, teams, row, tempFile, containers, exited, notify, failures>>
        /\ failures \in 0..MaxFailures
    BY <1>1, <1>13 DEF S!Build, TypeOK, S!TypeOK
  <2>4. /\ job' \in [Sub -> S!JobRec] /\ job'[s] = k
        /\ \A q \in Sub \ {s} : job'[q] = job[q]
    BY <1>1, <2>2, IntakeTypes
  <2>5. Settling(s)'
    BY <1>1, <2>1, <2>2, <2>3, <2>4 DEF Settling
  <2> QED BY <1>1, <1>2, <2>3, <2>4, <2>5, IntakeTypes
<1>14. ASSUME S!DockerRun(s) PROVE SettlingInv'
  <2>1. PICK to \in {"port", "running"} :
          /\ S!Goes(s, "deploy", to) \/ S!GoesHurt(s, "deploy", to)
          /\ \/ to = "port" /\ containers' = containers \cup {s}
             \/ /\ to = "running" /\ containers' = containers
                /\ S!GoesHurt(s, "deploy", to) \/ job[s].image = "mock"
    BY <1>14 DEF S!DockerRun
  <2>2. "deploy" \in S!PC /\ to \in S!PC
    BY DEF S!PC
  <2>3. /\ job' \in [Sub -> S!JobRec] /\ failures' \in 0..MaxFailures
        /\ job[s].pc = "deploy" /\ job'[s].pc = to /\ job'[s].image = job[s].image
        /\ \A q \in Sub \ {s} : job'[q] = job[q]
        /\ S!GoesHurt(s, "deploy", to) => job'[s].hurt = TRUE
    BY <1>1, <2>1, <2>2, GoesOn
  <2>4. UNCHANGED <<up, hasDB, teams, row, tempFile, exited, notify>>
    BY <1>14 DEF S!DockerRun
  <2>5. containers' \subseteq Sub /\ containers \subseteq containers'
    BY <1>1, <2>1, IntakeTypes
  <2>6. Settling(s)'
    BY <1>1, <2>1, <2>3, <2>4 DEF Settling
  <2> QED BY <1>1, <1>2, <2>3, <2>4, <2>5, <2>6, IntakeTypes
<1>15. ASSUME S!DockerPort(s) PROVE SettlingInv'
  <2> DEFINE k == [job[s] EXCEPT !.pc = "running", !.port = "own"]
  <2>1. /\ job[s].pc = "port" /\ notify' = [notify EXCEPT ![s] = "waiting"]
        /\ UNCHANGED <<up, hasDB, teams, row, tempFile, containers, exited>>
    BY <1>15 DEF S!DockerPort
  <2>2. /\ "running" \in S!PC /\ "port" \in S!PC
        /\ k \in S!JobRec /\ k.pc = "running" /\ k.port = "own"
    BY <1>1, IntakeTypes DEF S!JobRec, S!PC
  <2> HIDE DEF k
  <2>3. /\ job' \in [Sub -> S!JobRec] /\ failures' \in 0..MaxFailures
        /\ job'[s].pc = "running" /\ \A q \in Sub \ {s} : job'[q] = job[q]
        /\ job'[s].port = "own" \/ job'[s].hurt \/ s \in exited
    <3>1. CASE job' = [job EXCEPT ![s] = k] /\ failures' = failures
      BY <1>1, <2>2, <3>1, IntakeTypes DEF TypeOK, S!TypeOK
    <3>2. CASE s \notin containers \ exited /\ S!Goes(s, "port", "running")
      <4>1. s \in exited
        BY <1>1, <2>1, <3>2 DEF Settling
      <4> QED BY <1>1, <2>2, <3>2, <4>1, GoesOn
    <3>3. CASE S!GoesHurt(s, "port", "running")
      BY <1>1, <2>2, <3>3, GoesOn
    <3>4. [job EXCEPT ![s].pc = "running", ![s].port = "own"] = [job EXCEPT ![s] = k]
      BY <1>1, IntakeTypes DEF k
    <3> QED BY <1>15, <3>1, <3>2, <3>3, <3>4 DEF S!DockerPort
  <2>4. /\ notify' \in [Sub -> {"none", "waiting", "asked", "gone"}] /\ notify'[s] = "waiting"
        /\ \A q \in Sub \ {s} : notify'[q] = notify[q]
    BY <1>1, <2>1, IntakeTypes
  <2>5. Settling(s)'
    BY <1>1, <2>1, <2>3, <2>4 DEF Settling
  <2> QED BY <1>1, <1>2, <2>1, <2>3, <2>4, <2>5, IntakeTypes
<1> QED BY <1>4, <1>5, <1>6, <1>8, <1>9, <1>10, <1>11, <1>12, <1>13, <1>14, <1>15 DEF S!Job

\* An engine that exits gives a reason for a foreign port, and takes none away.
LEMMA SettlingExit ==
  ASSUME SettlingInv, NEW s \in Sub, S!EngineExits(s), UNCHANGED teamVars
  PROVE  SettlingInv'
<1>1. TypeOK /\ \A q \in Sub : Settling(q)
  BY DEF SettlingInv
<1>2. /\ s \in containers /\ exited' = exited \cup {s}
      /\ UNCHANGED <<up, hasDB, teams, row, tempFile, containers, job, notify, failures>>
  BY DEF S!EngineExits
<1>3. TypeOK'
  BY <1>1, <1>2 DEF TypeOK, S!TypeOK, T!TypeOK, teamVars
<1>4. \A q \in Sub : Settling(q)'
  BY <1>1, <1>2 DEF Settling
<1> QED BY <1>3, <1>4 DEF SettlingInv

LEMMA SettlingNotify ==
  ASSUME SettlingInv, NEW s \in Sub, S!Notify(s), UNCHANGED teamVars
  PROVE  SettlingInv'
<1>1. TypeOK /\ \A q \in Sub : Settling(q)
  BY DEF SettlingInv
<1> DEFINE k == [job[s] EXCEPT !.hurt = TRUE]
<1>2. /\ k \in S!JobRec /\ k.pc = job[s].pc /\ k.image = job[s].image /\ k.port = job[s].port
      /\ k.hurt = TRUE
  BY <1>1, IntakeTypes DEF S!JobRec
<1>3. /\ UNCHANGED <<up, hasDB, teams, row, tempFile, containers, exited>>
      /\ notify[s] = "waiting" /\ failures' \in 0..MaxFailures
      /\ \/ notify' = [notify EXCEPT ![s] = "asked"] /\ job' = job
         \/ notify' = [notify EXCEPT ![s] = "gone"] /\ job' = [job EXCEPT ![s] = k]
  <2>1. failures \in 0..MaxFailures
    BY <1>1 DEF TypeOK, S!TypeOK
  <2> QED BY <1>1, <2>1, IntakeTypes, IntakeAssumption DEF S!Notify, S!Fails
<1> HIDE DEF k
<1>4. /\ job' \in [Sub -> S!JobRec] /\ notify' \in [Sub -> {"none", "waiting", "asked", "gone"}]
      /\ \A q \in Sub \ {s} : job'[q] = job[q] /\ notify'[q] = notify[q]
      /\ \/ notify'[s] = "asked" /\ job'[s] = job[s]
         \/ notify'[s] = "gone" /\ job'[s] = k
  BY <1>1, <1>2, <1>3, IntakeTypes
<1>5. TypeOK'
  BY <1>1, <1>3, <1>4 DEF TypeOK, S!TypeOK, T!TypeOK, teamVars
<1>6. \A q \in Sub \ {s} : Settling(q)'
  BY <1>1, <1>3, <1>4 DEF Settling
<1>7. Settling(s)'
  BY <1>1, <1>2, <1>3, <1>4 DEF Settling
<1> QED BY <1>5, <1>6, <1>7 DEF SettlingInv

\* Whatever a crash interrupts is hurt.
LEMMA SettlingCrash ==
  ASSUME SettlingInv, S!Crash, UNCHANGED teamVars
  PROVE  SettlingInv'
<1>1. TypeOK /\ \A q \in Sub : Settling(q)
  BY DEF SettlingInv
<1>2. /\ UNCHANGED <<hasDB, teams, row, tempFile, containers, exited>> /\ up' = FALSE
      /\ failures' \in 0..MaxFailures
  <2>1. failures \in 0..MaxFailures
    BY <1>1 DEF TypeOK, S!TypeOK
  <2>2. /\ failures < MaxFailures /\ failures' = failures + 1 /\ up' = FALSE
        /\ UNCHANGED <<hasDB, teams, row, tempFile, containers, exited>>
    BY DEF S!Crash, S!Fails
  <2> QED BY <2>1, <2>2, IntakeAssumption
<1>3. /\ notify' \in [Sub -> {"none", "waiting", "asked", "gone"}]
      /\ \A q \in Sub : notify'[q] = IF notify[q] = "waiting" THEN "gone" ELSE notify[q]
  BY <1>1, IntakeTypes DEF S!Crash
<1>4. \A q \in Sub :
        /\ job'[q] \in S!JobRec /\ job'[q].image = job[q].image /\ job'[q].port = job[q].port
        /\ \/ job'[q] = job[q] /\ notify[q] # "waiting" /\ job[q].pc \in S!Resting
           \/ /\ job'[q].hurt = TRUE
              /\ \/ job'[q].pc = job[q].pc /\ job[q].pc \in S!Resting
                 \/ job'[q].pc = "lost"
  <2> TAKE q \in Sub
  <2> DEFINE j == job[q]
             k == [j EXCEPT !.pc = IF j.pc \in S!Resting THEN j.pc ELSE "lost", !.hurt = TRUE]
  <2>1. j \in S!JobRec
    BY <1>1, IntakeTypes
  <2>2. job'[q] = IF j.pc \in S!Resting /\ notify[q] # "waiting" THEN j ELSE k
    BY DEF S!Crash
  <2>3. /\ k \in S!JobRec /\ k.image = j.image /\ k.port = j.port /\ k.hurt = TRUE
        /\ k.pc = IF j.pc \in S!Resting THEN j.pc ELSE "lost"
    BY <2>1 DEF S!JobRec, S!PC
  <2> HIDE DEF k
  <2> QED BY <2>1, <2>2, <2>3
<1>5. job' \in [Sub -> S!JobRec]
  BY <1>4 DEF S!Crash
<1>6. TypeOK'
  BY <1>1, <1>2, <1>3, <1>5 DEF TypeOK, S!TypeOK, T!TypeOK, teamVars
<1>7. \A q \in Sub : Settling(q)'
  BY <1>1, <1>2, <1>3, <1>4 DEF Settling, S!Resting
<1> QED BY <1>6, <1>7 DEF SettlingInv

LEMMA SettlingSubmit ==
  ASSUME SettlingInv, NEW s \in Sub, NEW t \in Reg \cup {NoReg}, NEW n \in Name \cup {NoName},
         S!Submit(s, t, n), UNCHANGED teamVars
  PROVE  SettlingInv'
<1>1. TypeOK /\ \A q \in Sub : Settling(q)
  BY DEF SettlingInv
<1> DEFINE k == [S!NoJob EXCEPT !.pc = "scan", !.team = t, !.name = n]
<1>2. k \in S!JobRec /\ k.pc = "scan" /\ k.image = "none"
  BY DEF S!NoJob, S!JobRec, S!PC
<1>3. /\ job' = [job EXCEPT ![s] = k] /\ job[s].pc = "idle" /\ tempFile' = tempFile \cup {s}
      /\ UNCHANGED <<up, hasDB, teams, row, containers, exited, notify, failures>>
  BY DEF S!Submit
<1> HIDE DEF k
<1>4. job' \in [Sub -> S!JobRec] /\ job'[s] = k /\ \A q \in Sub \ {s} : job'[q] = job[q]
  BY <1>1, <1>2, <1>3, IntakeTypes
<1>5. TypeOK'
  BY <1>1, <1>3, <1>4 DEF TypeOK, S!TypeOK, T!TypeOK, teamVars
<1>6. \A q \in Sub : Settling(q)'
  BY <1>1, <1>2, <1>3, <1>4 DEF Settling
<1> QED BY <1>5, <1>6 DEF SettlingInv

LEMMA TeamsType ==
  ASSUME TypeOK, T!Next, UNCHANGED subVars
  PROVE  TypeOK'
<1>1. /\ account \in [Name -> Reg \cup {NoReg}] /\ reg \in [Reg -> T!RegRec]
      /\ \A r \in Reg : reg[r].pc # "new" => reg[r].name \in Name
      /\ overlap \subseteq Name /\ failures \in 0..MaxFailures
  BY DEF TypeOK, T!TypeOK
<1>2. ASSUME account' \in [Name -> Reg \cup {NoReg}], reg' \in [Reg -> T!RegRec],
             \A r \in Reg : reg'[r].pc # "new" => reg'[r].name \in Name,
             overlap' \subseteq Name, failures' \in 0..MaxFailures
      PROVE  TypeOK'
  BY <1>2 DEF TypeOK, T!TypeOK, S!TypeOK, subVars
<1>3. T!Fails => failures' \in 0..MaxFailures
  BY <1>1, IntakeAssumption DEF T!Fails
<1>4. ASSUME NEW r \in Reg, NEW n \in Name, T!Register(r, n) \/ T!RegisterConflict(r, n)
      PROVE  TypeOK'
  <2>1. PICK k \in T!RegRec : reg' = [reg EXCEPT ![r] = k] /\ k.name = n
    <3> DEFINE k(pc) == [pc |-> pc, name |-> n]
    <3>1. \A pc \in {"store", "refused"} : k(pc) \in T!RegRec /\ k(pc).name = n
      BY DEF T!RegRec
    <3>2. \E pc \in {"store", "refused"} : reg' = [reg EXCEPT ![r] = k(pc)]
      BY <1>4 DEF T!Register, T!RegisterConflict
    <3> QED BY <3>1, <3>2
  <2>2. account' = account /\ overlap' \in {overlap, overlap \cup {n}}
    BY <1>4 DEF T!Register, T!RegisterConflict
  <2>3. failures' \in 0..MaxFailures
    BY <1>1, <1>3, <1>4 DEF T!Register, T!RegisterConflict
  <2> QED BY <1>1, <1>2, <2>1, <2>2, <2>3
<1>5. ASSUME NEW r \in Reg, T!RegisterStore(r) PROVE TypeOK'
  <2> DEFINE k == [reg[r] EXCEPT !.pc = "created"]
  <2>1. k \in T!RegRec /\ k.name = reg[r].name /\ reg[r].name \in Name
    BY <1>1, <1>5 DEF T!RegisterStore, T!RegRec
  <2>2. /\ reg' = [reg EXCEPT ![r] = k] /\ overlap' = overlap
        /\ account' = account \/ account' = [account EXCEPT ![reg[r].name] = r]
    BY <1>5 DEF T!RegisterStore
  <2>3. failures' \in 0..MaxFailures
    BY <1>1, <1>3, <1>5 DEF T!RegisterStore
  <2> HIDE DEF k
  <2> QED BY <1>1, <1>2, <2>1, <2>2, <2>3
<1>6. ASSUME NEW names \in SUBSET Name, T!RedisLoses(names) PROVE TypeOK'
  BY <1>1, <1>2, <1>3, <1>6 DEF T!RedisLoses
<1> QED BY <1>4, <1>5, <1>6 DEF T!Next

LEMMA SettlingStep == SettlingInv /\ [Next]_vars => SettlingInv'
<1> SUFFICES ASSUME SettlingInv, [Next]_vars PROVE SettlingInv'
  OBVIOUS
<1>1. TypeOK /\ \A q \in Sub : Settling(q)
  BY DEF SettlingInv
<1>2. ASSUME T!Next, UNCHANGED subVars PROVE SettlingInv'
  <2>1. \A q \in Sub : Settling(q)'
    BY <1>1, <1>2 DEF Settling, subVars
  <2> QED BY <1>1, <1>2, <2>1, TeamsType DEF SettlingInv
<1>3. ASSUME S!Restart, UNCHANGED teamVars PROVE SettlingInv'
  BY <1>1, <1>3 DEF SettlingInv, Settling, TypeOK, S!TypeOK, T!TypeOK, S!Restart, teamVars
<1>4. ASSUME NEW s \in Sub, SubmitAnonymous(s) PROVE SettlingInv'
  BY <1>4, SettlingSubmit DEF SubmitAnonymous
<1>5. ASSUME NEW s \in Sub, NEW r \in Reg, SubmitWithToken(s, r) PROVE SettlingInv'
  <2>1. reg[r].name \in Name \cup {NoName}
    BY <1>1, IntakeTypes DEF T!RegRec
  <2> QED BY <1>5, <2>1, SettlingSubmit DEF SubmitWithToken
<1>6. CASE UNCHANGED vars
  BY <1>1, <1>6 DEF SettlingInv, Settling, TypeOK, S!TypeOK, T!TypeOK, vars, teamVars, subVars
<1> QED BY <1>2, <1>3, <1>4, <1>5, <1>6, SettlingJob, SettlingExit, SettlingNotify,
           SettlingCrash
        DEF Next, S!Service

\* The orchestrator is asked for bots only after docker run has started the container, at
\* its own port unless a call failed or the engine has exited, and a row says "running"
\* only for an engine that has, or will get, its session, unless its image was a mock or
\* some call made for it failed.
THEOREM DeployedOnly == Spec => []RunningIsDeployed
<1>1. SettlingInv => RunningIsDeployed
  BY DEF SettlingInv, Settling, RunningIsDeployed, S!RunningIsDeployed
<1> QED BY <1>1, SettlingInit, SettlingStep, PTL DEF Spec

-----------------------------------------------------------------------------
(* Teams and accounts.                                                     *)

\* Tokens, and what CreateSubmission stores of them, name finished registrations.
TokensNameTeams ==
  /\ \A s \in Sub : job[s].team # NoReg =>
       reg[job[s].team].pc = "created" /\ reg[job[s].team].name = job[s].name
  /\ \A t \in Reg : teams[t] # NoName => reg[t].pc = "created" /\ reg[t].name = teams[t]

\* While nothing has failed, a name that was registered twice is in overlap, and so is
\* the name of a team that is missing when its submission is to be stored.
NamesOverlap ==
  /\ up
  /\ \A r \in Reg : reg[r].pc = "created" => account[reg[r].name] # NoReg
  /\ \A r, q \in Reg :
       /\ r # q /\ reg[r].name = reg[q].name
       /\ reg[r].pc \in {"store", "created"} /\ reg[q].pc \in {"store", "created"}
       => reg[r].name \in overlap
  /\ \A s \in Sub : hasDB /\ job[s].pc = "insert" /\ S!TeamMissing(s) => job[s].name \in overlap
  /\ \A s \in Sub : job[s].pc = "locked_out" => job[s].name \in overlap

TeamInv == SettlingInv /\ TokensNameTeams /\ (failures = 0 => NamesOverlap)

LEMMA TeamInit == Init => TeamInv
<1> SUFFICES ASSUME Init PROVE TeamInv
  OBVIOUS
<1>1. SettlingInv
  BY SettlingInit
<1>2. TokensNameTeams /\ NamesOverlap
  BY DEF Init, T!Init, S!Init, S!NoJob, TokensNameTeams, NamesOverlap
<1> QED BY <1>1, <1>2 DEF TeamInv

\* Registrations do not touch submissions.
LEMMA TeamRegister ==
  ASSUME TeamInv, T!Next, UNCHANGED subVars
  PROVE  TokensNameTeams' /\ (failures' = 0 => NamesOverlap')
<1>1. TypeOK /\ TokensNameTeams /\ (failures = 0 => NamesOverlap)
  BY DEF TeamInv, SettlingInv
<1>2. /\ account \in [Name -> Reg \cup {NoReg}] /\ reg \in [Reg -> T!RegRec]
      /\ \A r \in Reg : reg[r].pc # "new" => reg[r].name \in Name
      /\ overlap \subseteq Name /\ failures \in Nat
      /\ job \in [Sub -> S!JobRec] /\ teams \in [Reg -> Name \cup {NoName}]
      /\ \A s \in Sub : job[s].team \in Reg \cup {NoReg}
  BY <1>1, IntakeTypes DEF TypeOK, T!TypeOK, S!JobRec
<1>3. UNCHANGED <<up, hasDB, teams, job>>
  BY DEF subVars
<1>4. ASSUME NEW r \in Reg, NEW n \in Name, T!Register(r, n)
      PROVE  TokensNameTeams' /\ (failures' = 0 => NamesOverlap')
  <2>1. /\ reg[r].pc = "new" /\ account' = account
        /\ reg' = [reg EXCEPT ![r] = [pc |-> "store", name |-> n]]
        /\ failures' = 0 => account[n] = NoReg /\ failures = 0
        /\ overlap \subseteq overlap' /\ (T!Storing(n) # {} => n \in overlap')
    BY <1>2, <1>4 DEF T!Register, T!Fails
  <2>2. /\ reg'[r].pc = "store" /\ reg'[r].name = n
        /\ \A q \in Reg \ {r} : reg'[q] = reg[q]
    BY <1>2, <2>1
  <2>3. TokensNameTeams'
    BY <1>1, <1>2, <1>3, <2>1, <2>2 DEF TokensNameTeams
  <2>4. ASSUME failures' = 0 PROVE NamesOverlap'
    <3>1. NamesOverlap /\ account[n] = NoReg
      BY <1>1, <2>1, <2>4
    <3>2. \A q \in Reg \ {r} :
            reg[q].name = n /\ reg[q].pc \in {"store", "created"} => n \in overlap'
      BY <1>2, <2>1, <3>1 DEF NamesOverlap, T!Storing
    <3>3. \A p, q \in Reg :
            /\ p # q /\ reg'[p].name = reg'[q].name
            /\ reg'[p].pc \in {"store", "created"} /\ reg'[q].pc \in {"store", "created"}
            => reg'[p].name \in overlap'
      BY <2>1, <2>2, <3>1, <3>2 DEF NamesOverlap
    <3>4. \A q \in Reg : reg'[q].pc = "created" => account'[reg'[q].name] # NoReg
      BY <2>1, <2>2, <3>1 DEF NamesOverlap
    <3>5. \A s \in Sub : S!TeamMissing(s)' <=> S!TeamMissing(s)
      BY <1>3 DEF S!TeamMissing
    <3> QED BY <1>3, <2>1, <3>1, <3>3, <3>4, <3>5 DEF NamesOverlap
  <2> QED BY <2>3, <2>4
<1>5. ASSUME NEW r \in Reg, NEW n \in Name, T!RegisterConflict(r, n)
      PROVE  TokensNameTeams' /\ (failures' = 0 => NamesOverlap')
  <2>1. /\ reg[r].pc = "new" /\ UNCHANGED <<account, overlap, failures>>
        /\ reg' = [reg EXCEPT ![r] = [pc |-> "refused", name |-> n]]
    BY <1>5 DEF T!RegisterConflict
  <2>2. reg'[r].pc = "refused" /\ \A q \in Reg \ {r} : reg'[q] = reg[q]
    BY <1>2, <2>1
  <2>3. TokensNameTeams'
    BY <1>1, <1>2, <1>3, <2>1, <2>2 DEF TokensNameTeams
  <2>4. ASSUME failures = 0 PROVE NamesOverlap'
    <3>1. NamesOverlap /\ \A s \in Sub : S!TeamMissing(s)' <=> S!TeamMissing(s)
      BY <1>1, <1>3, <2>4 DEF S!TeamMissing
    <3> QED BY <1>3, <2>1, <2>2, <3>1 DEF NamesOverlap
  <2> QED BY <2>1, <2>3, <2>4
<1>6. ASSUME NEW r \in Reg, T!RegisterStore(r)
      PROVE  TokensNameTeams' /\ (failures' = 0 => NamesOverlap')
  <2>1. /\ reg[r].pc = "store" /\ overlap' = overlap
        /\ reg' = [reg EXCEPT ![r].pc = "created"]
        /\ failures' = 0 => failures = 0 /\ account' = [account EXCEPT ![reg[r].name] = r]
    BY <1>2, <1>6 DEF T!RegisterStore, T!Fails
  <2>2. /\ reg'[r].pc = "created" /\ reg'[r].name = reg[r].name
        /\ \A q \in Reg \ {r} : reg'[q] = reg[q]
    BY <1>2, <2>1 DEF T!RegRec
  <2>3. TokensNameTeams'
    BY <1>1, <1>2, <1>3, <2>1, <2>2 DEF TokensNameTeams
  <2>4. ASSUME failures' = 0 PROVE NamesOverlap'
    <3>1. NamesOverlap /\ \A s \in Sub : S!TeamMissing(s)' <=> S!TeamMissing(s)
      BY <1>1, <1>3, <2>1, <2>4 DEF S!TeamMissing
    <3>2. \A n \in Name : account'[n] \in {account[n], r}
      BY <1>2, <2>1, <2>4
    <3>3. account'[reg[r].name] = r /\ r # NoReg
      BY <1>2, <2>1, <2>4, IntakeAssumption
    <3>4. \A q \in Reg : reg'[q].pc = "created" => account'[reg'[q].name] # NoReg
      BY <1>2, <2>2, <3>1, <3>2, <3>3 DEF NamesOverlap
    <3>5. \A p, q \in Reg :
            /\ p # q /\ reg'[p].name = reg'[q].name
            /\ reg'[p].pc \in {"store", "created"} /\ reg'[q].pc \in {"store", "created"}
            => reg'[p].name \in overlap'
      BY <2>1, <2>2, <3>1 DEF NamesOverlap
    <3> QED BY <1>3, <2>1, <3>1, <3>4, <3>5 DEF NamesOverlap
  <2> QED BY <2>3, <2>4
<1>7. ASSUME NEW names \in SUBSET Name, T!RedisLoses(names)
      PROVE  TokensNameTeams' /\ (failures' = 0 => NamesOverlap')
  <2>1. failures' # 0 /\ UNCHANGED <<reg, overlap>>
    BY <1>2, <1>7 DEF T!RedisLoses, T!Fails
  <2> QED BY <1>1, <1>3, <2>1 DEF TokensNameTeams
<1> QED BY <1>4, <1>5, <1>6, <1>7 DEF T!Next

\* Of the steps of a job, one adds a team and one finds it missing.
LEMMA TeamJob ==
  ASSUME TeamInv, NEW s \in Sub, S!Job(s), UNCHANGED teamVars
  PROVE  TokensNameTeams' /\ (failures' = 0 => NamesOverlap')
<1>1. TypeOK /\ TokensNameTeams /\ (failures = 0 => NamesOverlap)
  BY DEF TeamInv, SettlingInv
<1>2. /\ failures \in Nat /\ teams \in [Reg -> Name \cup {NoName}]
      /\ job \in [Sub -> S!JobRec] /\ reg \in [Reg -> T!RegRec]
      /\ job[s].team \in Reg \cup {NoReg}
      /\ \A r \in Reg : reg[r].pc # "new" => reg[r].name \in Name
  BY <1>1, IntakeTypes DEF TypeOK, T!TypeOK, S!JobRec
<1>3. UNCHANGED <<account, reg, overlap>>
  BY DEF teamVars
\* All other steps.
<1>4. ASSUME job'[s].team = job[s].team, job'[s].name = job[s].name,
             \A q \in Sub \ {s} : job'[q] = job[q],
             job'[s].pc \notin {"insert", "locked_out"},
             UNCHANGED <<up, hasDB, teams>>, failures' = failures \/ failures' = failures + 1
      PROVE  TokensNameTeams' /\ (failures' = 0 => NamesOverlap')
  <2>1. TokensNameTeams'
    BY <1>1, <1>3, <1>4 DEF TokensNameTeams
  <2>2. ASSUME failures' = 0 PROVE NamesOverlap'
    <3>1. NamesOverlap
      BY <1>1, <1>2, <1>4, <2>2
    <3>2. \A q \in Sub \ {s} : S!TeamMissing(q)' <=> S!TeamMissing(q)
      BY <1>4 DEF S!TeamMissing
    <3> QED BY <1>3, <1>4, <3>1, <3>2 DEF NamesOverlap
  <2> QED BY <2>1, <2>2
<1>5. ASSUME NEW from, NEW to \in S!PC \ {"insert", "locked_out"},
             S!Goes(s, from, to) \/ S!GoesHurt(s, from, to), UNCHANGED <<up, hasDB, teams>>
      PROVE  TokensNameTeams' /\ (failures' = 0 => NamesOverlap')
  BY <1>1, <1>4, <1>5, GoesOn
<1>6. ASSUME S!UpsertTeam(s) PROVE TokensNameTeams' /\ (failures' = 0 => NamesOverlap')
  <2> DEFINE t == job[s].team
             n == job[s].name
             mine == /\ hasDB /\ t # NoReg
                     /\ teams[t] = NoName /\ S!Holders(n) = {}
  <2>1. /\ S!Goes(s, "team", "insert") \/ S!GoesHurt(s, "team", "insert")
        /\ S!Goes(s, "team", "insert") =>
             teams' = IF mine THEN [teams EXCEPT ![t] = n] ELSE teams
        /\ S!GoesHurt(s, "team", "insert") => teams' = teams
        /\ UNCHANGED <<up, hasDB>>
    <3>1. ~(S!Goes(s, "team", "insert") /\ S!GoesHurt(s, "team", "insert"))
      BY <1>2 DEF S!Goes, S!GoesHurt, S!Fails
    <3> QED BY <1>6, <3>1 DEF S!UpsertTeam
  <2>2. /\ job'[s].pc = "insert" /\ job'[s].team = t /\ job'[s].name = n
        /\ \A q \in Sub \ {s} : job'[q] = job[q]
        /\ S!Goes(s, "team", "insert") => failures' = failures
        /\ S!GoesHurt(s, "team", "insert") => failures' = failures + 1
    <3>1. "insert" \in S!PC
      BY DEF S!PC
    <3> QED BY <1>1, <2>1, <3>1, GoesOn
  <2>3. t # NoReg => t \in Reg /\ reg[t].pc = "created" /\ reg[t].name = n /\ n \in Name
    BY <1>1, <1>2 DEF TokensNameTeams
  <2>4. \A r \in Reg : teams'[r] = teams[r] \/ (r = t /\ t # NoReg /\ teams'[r] = n)
    BY <1>2, <2>1, <2>3
  <2>5. TokensNameTeams'
    BY <1>1, <1>3, <2>2, <2>3, <2>4 DEF TokensNameTeams
  <2>6. ASSUME failures' = 0 PROVE NamesOverlap'
    <3>1. NamesOverlap /\ S!Goes(s, "team", "insert")
      BY <1>1, <1>2, <2>1, <2>2, <2>6
    <3>2. ASSUME NEW q \in Sub \ {s}, S!TeamMissing(q)' PROVE S!TeamMissing(q)
      <4>1. job[q].team # NoReg /\ teams'[job[q].team] = NoName /\ job[q].team \in Reg
        BY <1>2, <2>2, <3>2 DEF S!TeamMissing, S!JobRec
      <4>2. teams[job[q].team] = NoName
        BY <2>3, <2>4, <4>1, IntakeAssumption
      <4> QED BY <4>1, <4>2 DEF S!TeamMissing
    <3>3. ASSUME hasDB, S!TeamMissing(s)' PROVE n \in overlap
      <4>1. t # NoReg /\ teams'[t] = NoName
        BY <2>2, <3>3 DEF S!TeamMissing
      <4>2. ~mine
        BY <1>2, <2>1, <2>3, <3>1, <4>1, IntakeAssumption
      <4>3. teams[t] = NoName
        BY <2>1, <3>1, <4>1, <4>2
      <4>4. PICK r \in Reg : teams[r] = n
        BY <3>3, <4>1, <4>2, <4>3 DEF S!Holders
      <4>5. r # t /\ reg[r].pc = "created" /\ reg[r].name = n
        BY <1>1, <2>3, <4>1, <4>3, <4>4, IntakeAssumption DEF TokensNameTeams
      <4> QED BY <2>3, <3>1, <4>1, <4>5 DEF NamesOverlap
    <3> QED BY <1>3, <2>1, <2>2, <3>1, <3>2, <3>3 DEF NamesOverlap
  <2> QED BY <2>5, <2>6
<1>7. ASSUME S!InsertRow(s) PROVE TokensNameTeams' /\ (failures' = 0 => NamesOverlap')
  <2>1. UNCHANGED <<up, hasDB, teams>>
    BY <1>7 DEF S!InsertRow
  <2>2. ASSUME S!Goes(s, "insert", "building") \/ S!GoesHurt(s, "insert", "refused")
        PROVE  TokensNameTeams' /\ (failures' = 0 => NamesOverlap')
    BY <1>5, <2>1, <2>2 DEF S!PC
  <2>3. ASSUME hasDB, S!TeamMissing(s), S!Goes(s, "insert", "locked_out")
        PROVE  TokensNameTeams' /\ (failures' = 0 => NamesOverlap')
    <3>1. /\ job[s].pc = "insert" /\ job'[s].pc = "locked_out" /\ failures' = failures
          /\ job'[s].team = job[s].team /\ job'[s].name = job[s].name
          /\ \A q \in Sub \ {s} : job'[q] = job[q]
      <4>1. "locked_out" \in S!PC
        BY DEF S!PC
      <4> QED BY <1>1, <2>3, <4>1, GoesOn
    <3>2. TokensNameTeams'
      BY <1>1, <1>3, <2>1, <3>1 DEF TokensNameTeams
    <3>3. ASSUME failures = 0 PROVE NamesOverlap'
      <4>1. NamesOverlap /\ \A q \in Sub \ {s} : S!TeamMissing(q)' <=> S!TeamMissing(q)
        BY <1>1, <2>1, <3>1, <3>3 DEF S!TeamMissing
      <4>2. job[s].name \in overlap
        BY <2>3, <3>1, <4>1 DEF NamesOverlap
      <4> QED BY <1>3, <2>1, <3>1, <4>1, <4>2 DEF NamesOverlap
    <3> QED BY <3>1, <3>2, <3>3
  <2> QED BY <1>7, <2>2, <2>3 DEF S!InsertRow
<1>8. ASSUME S!Build(s) PROVE TokensNameTeams' /\ (failures' = 0 => NamesOverlap')
  <2> DEFINE j == job[s]
  <2>0. j \in S!JobRec
    BY <1>2
  <2>1. /\ job'[s].team = j.team /\ job'[s].name = j.name
        /\ \A q \in Sub \ {s} : job'[q] = job[q]
        /\ job'[s].pc \in {"failing", "deploying"}
    <3>1. CASE job' = [job EXCEPT ![s].pc = "failing"]
      BY <1>2, <2>0, <3>1 DEF S!JobRec
    <3>2. ASSUME NEW i \in {"real", "mock"},
                 job' = [job EXCEPT ![s].pc = "deploying", ![s].image = i]
          PROVE  /\ job'[s].team = j.team /\ job'[s].name = j.name
                 /\ \A q \in Sub \ {s} : job'[q] = job[q]
                 /\ job'[s].pc \in {"failing", "deploying"}
      <4> DEFINE k == [j EXCEPT !.pc = "deploying", !.image = i]
      <4>1. k.team = j.team /\ k.name = j.name /\ k.pc = "deploying"
        BY <2>0 DEF S!JobRec
      <4>2. job' = [job EXCEPT ![s] = k]
        BY <1>2, <3>2
      <4> HIDE DEF k
      <4> QED BY <1>2, <4>1, <4>2
    <3> QED BY <1>8, <3>1, <3>2 DEF S!Build
  <2>2. UNCHANGED <<up, hasDB, teams, failures>>
    BY <1>8 DEF S!Build
  <2> QED BY <1>4, <2>1, <2>2
<1>9. ASSUME S!ScanAndUpload(s) PROVE TokensNameTeams' /\ (failures' = 0 => NamesOverlap')
  BY <1>5, <1>9 DEF S!ScanAndUpload, S!PC
<1>10. ASSUME \/ S!MarkBuilding(s) \/ S!MarkBuildFailed(s) \/ S!MarkDeploying(s)
              \/ S!MarkRunning(s) \/ S!ForceRunning(s)
       PROVE  TokensNameTeams' /\ (failures' = 0 => NamesOverlap')
  BY <1>5, <1>10 DEF S!MarkBuilding, S!MarkBuildFailed, S!MarkDeploying, S!MarkRunning,
                     S!ForceRunning, S!Update, S!PC
<1>11. ASSUME S!DockerRun(s) PROVE TokensNameTeams' /\ (failures' = 0 => NamesOverlap')
  BY <1>5, <1>11 DEF S!DockerRun, S!PC
<1>12. ASSUME S!DockerPort(s) PROVE TokensNameTeams' /\ (failures' = 0 => NamesOverlap')
  <2> DEFINE k == [job[s] EXCEPT !.pc = "running", !.port = "own"]
  <2>1. k.team = job[s].team /\ k.name = job[s].name /\ k.pc = "running"
    BY <1>2 DEF S!JobRec
  <2>2. [job EXCEPT ![s].pc = "running", ![s].port = "own"] = [job EXCEPT ![s] = k]
    BY <1>2
  <2> HIDE DEF k
  <2>3. CASE job' = [job EXCEPT ![s] = k] /\ failures' = failures
    BY <1>2, <1>4, <1>12, <2>1, <2>3 DEF S!DockerPort
  <2>4. CASE S!Goes(s, "port", "running") \/ S!GoesHurt(s, "port", "running")
    BY <1>5, <1>12, <2>4 DEF S!DockerPort, S!PC
  <2> QED BY <1>12, <2>2, <2>3, <2>4 DEF S!DockerPort
<1> QED BY <1>6, <1>7, <1>8, <1>9, <1>10, <1>11, <1>12 DEF S!Job

\* A submission with a token brings the name the token was made for.
LEMMA TeamSubmit ==
  ASSUME TeamInv, NEW s \in Sub, NEW t \in Reg \cup {NoReg}, NEW n, S!Submit(s, t, n),
         t # NoReg => reg[t].pc = "created" /\ reg[t].name = n, UNCHANGED teamVars
  PROVE  TokensNameTeams' /\ (failures' = 0 => NamesOverlap')
<1>1. TypeOK /\ TokensNameTeams /\ (failures = 0 => NamesOverlap) /\ UNCHANGED <<account, reg, overlap>>
  BY DEF TeamInv, SettlingInv, teamVars
<1>2. /\ UNCHANGED <<up, hasDB, teams, failures>>
      /\ job'[s].pc = "scan" /\ job'[s].team = t /\ job'[s].name = n
      /\ \A q \in Sub \ {s} : job'[q] = job[q]
  BY <1>1, IntakeTypes DEF S!Submit, S!NoJob
<1>3. TokensNameTeams'
  BY <1>1, <1>2 DEF TokensNameTeams
<1>4. ASSUME failures = 0 PROVE NamesOverlap'
  <2>1. NamesOverlap /\ \A q \in Sub \ {s} : S!TeamMissing(q)' <=> S!TeamMissing(q)
    BY <1>1, <1>2, <1>4 DEF S!TeamMissing
  <2> QED BY <1>1, <1>2, <2>1 DEF NamesOverlap
<1> QED BY <1>2, <1>3, <1>4

\* What else the service does takes a failure, or leaves teams and jobs where they are.
LEMMA TeamRest ==
  ASSUME TeamInv, S!Crash \/ S!Restart \/ (\E s \in Sub : S!Notify(s) \/ S!EngineExits(s)),
         UNCHANGED teamVars
  PROVE  TokensNameTeams' /\ (failures' = 0 => NamesOverlap')
<1>1. /\ TypeOK /\ TokensNameTeams /\ (failures = 0 => NamesOverlap)
      /\ UNCHANGED <<account, reg, overlap>>
  BY DEF TeamInv, SettlingInv, teamVars
<1>2. failures \in Nat /\ job \in [Sub -> S!JobRec]
  BY <1>1, IntakeTypes
<1>3. ASSUME teams' = teams, \A q \in Sub : job'[q].team = job[q].team /\ job'[q].name = job[q].name
      PROVE  TokensNameTeams'
  BY <1>1, <1>3 DEF TokensNameTeams
<1>4. CASE S!Crash
  <2>1. teams' = teams /\ failures' = failures + 1
    BY <1>4 DEF S!Crash, S!Fails
  <2>2. \A q \in Sub : job'[q].team = job[q].team /\ job'[q].name = job[q].name
    <3> TAKE q \in Sub
    <3> DEFINE j == job[q]
               k == [j EXCEPT !.pc = IF j.pc \in S!Resting THEN j.pc ELSE "lost", !.hurt = TRUE]
    <3>1. job'[q] = IF j.pc \in S!Resting /\ notify[q] # "waiting" THEN j ELSE k
      BY <1>4 DEF S!Crash
    <3>2. k.team = j.team /\ k.name = j.name
      BY <1>2 DEF S!JobRec
    <3> HIDE DEF k
    <3> QED BY <3>1, <3>2
  <2> QED BY <1>2, <1>3, <2>1, <2>2
<1>5. CASE S!Restart
  <2>1. TokensNameTeams' /\ failures' = failures /\ ~up
    BY <1>3, <1>5 DEF S!Restart
  <2> QED BY <1>1, <2>1 DEF NamesOverlap
<1>6. ASSUME NEW s \in Sub, S!Notify(s)
      PROVE  TokensNameTeams' /\ (failures' = 0 => NamesOverlap')
  <2> DEFINE k == [job[s] EXCEPT !.hurt = TRUE]
  <2>1. k.team = job[s].team /\ k.name = job[s].name
    BY <1>2 DEF S!JobRec
  <2>2. /\ UNCHANGED <<up, hasDB, teams>>
        /\ \/ job' = job /\ failures' = failures
           \/ job' = [job EXCEPT ![s] = k] /\ failures' = failures + 1
    BY <1>6 DEF S!Notify, S!Fails
  <2> HIDE DEF k
  <2>3. TokensNameTeams'
    BY <1>2, <1>3, <2>1, <2>2
  <2>4. ASSUME failures' = 0 PROVE NamesOverlap'
    <3>1. NamesOverlap /\ job' = job
      BY <1>1, <1>2, <2>2, <2>4
    <3>2. \A q \in Sub : S!TeamMissing(q)' <=> S!TeamMissing(q)
      BY <2>2, <3>1 DEF S!TeamMissing
    <3> QED BY <1>1, <2>2, <3>1, <3>2 DEF NamesOverlap
  <2> QED BY <2>3, <2>4
<1>7. ASSUME NEW s \in Sub, S!EngineExits(s)
      PROVE  TokensNameTeams' /\ (failures' = 0 => NamesOverlap')
  <2>1. UNCHANGED <<up, hasDB, teams, job, failures>>
    BY <1>7 DEF S!EngineExits
  <2>2. TokensNameTeams'
    BY <1>3, <2>1
  <2>3. \A q \in Sub : S!TeamMissing(q)' <=> S!TeamMissing(q)
    BY <2>1 DEF S!TeamMissing
  <2> QED BY <1>1, <2>1, <2>2, <2>3 DEF NamesOverlap
<1> QED BY <1>4, <1>5, <1>6, <1>7

LEMMA TeamStep == TeamInv /\ [Next]_vars => TeamInv'
<1> SUFFICES ASSUME TeamInv, [Next]_vars PROVE TeamInv'
  OBVIOUS
<1>1. SettlingInv'
  BY SettlingStep DEF TeamInv
<1>2. ASSUME NEW s \in Sub, SubmitAnonymous(s)
      PROVE  TokensNameTeams' /\ (failures' = 0 => NamesOverlap')
  BY <1>2, TeamSubmit DEF SubmitAnonymous
<1>3. ASSUME NEW s \in Sub, NEW r \in Reg, SubmitWithToken(s, r)
      PROVE  TokensNameTeams' /\ (failures' = 0 => NamesOverlap')
  BY <1>3, TeamSubmit DEF SubmitWithToken
<1>4. ASSUME UNCHANGED vars PROVE TokensNameTeams' /\ (failures' = 0 => NamesOverlap')
  <2>1. \A q \in Sub : S!TeamMissing(q)' <=> S!TeamMissing(q)
    BY <1>4 DEF S!TeamMissing, vars, subVars
  <2> QED BY <1>4, <2>1 DEF TeamInv, TokensNameTeams, NamesOverlap, vars, teamVars, subVars
<1>5. TokensNameTeams' /\ (failures' = 0 => NamesOverlap')
  BY <1>2, <1>3, <1>4, TeamRegister, TeamJob, TeamRest DEF Next, S!Service
<1> QED BY <1>1, <1>5 DEF TeamInv

\* While no call has failed, only a name that two registrations took at once can make
\* the database refuse the submissions of a team.
THEOREM OnlyTwinsLockedOut == Spec => []TeamsCanSubmit
<1>1. TeamInv => TeamsCanSubmit
  BY DEF TeamInv, NamesOverlap, TeamsCanSubmit
<1> QED BY <1>1, TeamInit, TeamStep, PTL DEF Spec
=============================================================================
