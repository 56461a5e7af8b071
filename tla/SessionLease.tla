---------------------------- MODULE SessionLease ----------------------------
(***************************************************************************)
(* What the orchestrator promises about the life of benchmark sessions,    *)
(* without workers, channels or goroutines.  A session may run only while  *)
(* it holds a lease; when a lease ends the session is done, even if other  *)
(* leases are left.  Sessions and leases are lost together in a crash.     *)
(***************************************************************************)
CONSTANTS Session, Run

VARIABLES
  st,      \* status of each session
  leases   \* the runs whose lease each session holds

Init ==
  /\ st = [s \in Session |-> "absent"]
  /\ leases = [s \in Session |-> {}]

\* A new session, or a new incarnation of an old one, whose leases stay.
Create(s) ==
  /\ st' = [st EXCEPT ![s] = "pending"]
  /\ UNCHANGED leases

\* The session starts to run, on a lease of its own.
Launch(s, n) ==
  /\ st[s] # "absent"
  /\ \A t \in Session : n \notin leases[t]
  /\ st' = [st EXCEPT ![s] = "running"]
  /\ leases' = [leases EXCEPT ![s] = @ \cup {n}]

Expire(s, n) ==
  /\ n \in leases[s]
  /\ st' = [st EXCEPT ![s] = "done"]
  /\ leases' = [leases EXCEPT ![s] = @ \ {n}]

\* A client stops the session; its leases go on.
Stop(s) ==
  /\ st[s] # "absent"
  /\ st' = [st EXCEPT ![s] = "done"]
  /\ UNCHANGED leases

Crash ==
  /\ st' = [s \in Session |-> "absent"]
  /\ leases' = [s \in Session |-> {}]

Next ==
  \/ \E s \in Session : Create(s) \/ Stop(s)
  \/ \E s \in Session, n \in Run : Launch(s, n) \/ Expire(s, n)
  \/ Crash

vars == <<st, leases>>

Spec == Init /\ [][Next]_vars

=============================================================================
