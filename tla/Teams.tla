------------------------------- MODULE Teams -------------------------------
(***************************************************************************)
(* Accounts of the api-gateway (AuthHandler in services/api-gateway): a    *)
(* registration is one request to /v1/auth/register; it makes a fresh team *)
(* id, so it also stands for that id and for the password it brought.      *)
(*                                                                         *)
(* Accounts live in Redis only.  Redis evicts keys when its memory is full *)
(* (allkeys-lru) and saves nothing (--save "", --appendonly no), so it may *)
(* lose some accounts, or all in a restart.  Left out: the key             *)
(* team_id:<id>, which no code reads; Login, which changes nothing and     *)
(* hands out a token as the registration did; and the 24 hours after which *)
(* a token expires, which only take requests away.                         *)
(***************************************************************************)
EXTENDS Naturals

CONSTANTS
  Name,         \* team names
  Reg,          \* registrations, which are team ids
  MaxFailures,  \* bound on failed calls and losses
  NoReg, NoName

VARIABLES
  account,   \* Redis hash team:<name>: the registration it holds, id and password
  reg,       \* where each registration is
  overlap,   \* names of which two registrations were between check and store at once
  failures   \* failures so far

teamVars == <<account, reg, overlap>>
vars == <<teamVars, failures>>

RegRec == [pc : {"new", "store", "created", "refused"}, name : Name \cup {NoName}]

TypeOK ==
  /\ account \in [Name -> Reg \cup {NoReg}]
  /\ reg \in [Reg -> RegRec]
  /\ \A r \in Reg : reg[r].pc # "new" => reg[r].name \in Name
  /\ overlap \subseteq Name
  /\ failures \in 0..MaxFailures

Init ==
  /\ account = [n \in Name |-> NoReg]
  /\ reg = [r \in Reg |-> [pc |-> "new", name |-> NoName]]
  /\ overlap = {}
  /\ failures = 0

Fails == failures < MaxFailures /\ failures' = failures + 1

Storing(n) == {r \in Reg : reg[r].pc = "store" /\ reg[r].name = n}

\* Defect: the answer of EXISTS is not looked at.
RegisterUnchecked(r, n) ==
  /\ reg[r].pc = "new"
  /\ reg' = [reg EXCEPT ![r] = [pc |-> "store", name |-> n]]
  /\ overlap' = IF Storing(n) # {} THEN overlap \cup {n} ELSE overlap
  /\ UNCHANGED <<account, failures>>

\* Register, up to EXISTS team:<name>.  An error of EXISTS is ignored and counts as
\* "not taken".
Register(r, n) ==
  /\ reg[r].pc = "new"
  /\ \/ account[n] = NoReg /\ UNCHANGED failures
     \/ Fails
  /\ reg' = [reg EXCEPT ![r] = [pc |-> "store", name |-> n]]
  /\ overlap' = IF Storing(n) # {} THEN overlap \cup {n} ELSE overlap
  /\ UNCHANGED account

\* The name is taken: 409.
RegisterConflict(r, n) ==
  /\ reg[r].pc = "new"
  /\ account[n] # NoReg
  /\ reg' = [reg EXCEPT ![r] = [pc |-> "refused", name |-> n]]
  /\ UNCHANGED <<account, overlap, failures>>

\* HSET of id and password over whatever is there, its error ignored.  The answer is the
\* token, which names team id and team name.
RegisterStore(r) ==
  /\ reg[r].pc = "store"
  /\ \/ account' = [account EXCEPT ![reg[r].name] = r] /\ UNCHANGED failures
     \/ Fails /\ UNCHANGED account
  /\ reg' = [reg EXCEPT ![r].pc = "created"]
  /\ UNCHANGED overlap

\* Redis loses the accounts of some names.
RedisLoses(names) ==
  /\ Fails
  /\ account' = [n \in Name |-> IF n \in names THEN NoReg ELSE account[n]]
  /\ UNCHANGED <<reg, overlap>>

Next ==
  \/ \E r \in Reg, n \in Name : Register(r, n) \/ RegisterConflict(r, n)
  \/ \E r \in Reg : RegisterStore(r)
  \/ \E names \in SUBSET Name : names # {} /\ RedisLoses(names)

Spec == Init /\ [][Next]_vars
=============================================================================
