------------------------------ MODULE Scoring ------------------------------
(***************************************************************************)
(* The scoring-service (services/scoring-service): RunOnce scores the      *)
(* metrics that the telemetry-service keeps in Redis and publishes the     *)
(* leaderboard; GetLeaderboard, one goroutine per request, publishes it as *)
(* well when it gets no snapshot.                                          *)
(*                                                                         *)
(* Every step is one call to Redis, so boards are put together from scores *)
(* of different times, and boards of two goroutines overtake each other.   *)
(* updated_at has a resolution of seconds.  A record of metrics stands for *)
(* its composite score, since computeScore reads nothing else.  Left out:  *)
(* team name and language of an entry; the rows of session_metrics, which  *)
(* nobody reads; the endpoints GetScore and GetMetrics, which only read.   *)
(***************************************************************************)
EXTENDS Naturals, Sequences, FiniteSets, SequencesExt

CONSTANTS
  Session,      \* sessions, numbers in the order in which Redis sorts their ids
  Value,        \* composite scores
  Viewer,       \* requests of GetLeaderboard that are served at the same time
  Top,          \* entries of the leaderboard (50 in the code)
  MaxClock,     \* bound on the clock, in half seconds
  MaxFaults,    \* bound on failed calls of Redis, expired metrics or scores, and restarts
  NoBoard

ASSUME ScoringAssumption ==
  /\ Session \subseteq Nat /\ IsFiniteSet(Session)
  /\ Value \subseteq Nat \ {0}
  /\ Top \in Nat \ {0}
  /\ MaxClock \in Nat /\ MaxFaults \in Nat
  /\ "ticker" \notin Viewer

VARIABLES
  clock,       \* the time in half seconds
  metrics,     \* hash metrics:<session>: updated_at and the value; 0 if there is none
  score,       \* key score:<session>; once expired it is not live, but keeps its second
  zset,        \* sorted set leaderboard: score of each session, 0 if it is not in it
  snapshot,    \* key leaderboard:snapshot
  lastUpdate,  \* engine.lastUpdate
  scorer,      \* RunOnce: where it is, sessions it has still to score, the current one
  board,       \* publishLeaderboard of the ticker and of each request
  failures,    \* failed calls and expired keys so far
  restarts     \* restarts of the service so far

redisVars == <<metrics, score, zset, snapshot>>
vars == <<clock, redisVars, lastUpdate, scorer, board, failures, restarts>>

\* updated_at is in whole seconds.
Second(t) == 1 + t \div 2

Process == {"ticker"} \cup Viewer

NoMetrics == [sec |-> 0, val |-> 0]
NoScore == [sec |-> 0, val |-> 0, live |-> FALSE]
IdleScorer == [pc |-> "idle", todo |-> {}, sid |-> 0, sec |-> 0, val |-> 0]
IdleBoard == [pc |-> "idle", todo |-> <<>>, got |-> {}]

Entry == [sid : Session, sec : Nat, val : Value]

\* A board lists each session at most once, the best first.
IsBoard(b) ==
  /\ ToSet(b) \subseteq Entry
  /\ \A i, j \in DOMAIN b : i < j => b[i].sid # b[j].sid /\ b[i].val >= b[j].val

ScorerRec == [pc : {"idle", "get", "set", "zadd"}, todo : SUBSET Session,
              sid : Session \cup {0}, sec : Nat, val : Value \cup {0}]

BoardRec == [pc : {"idle", "range", "get"}, todo : Seq(Session), got : SUBSET Entry]

TypeOK ==
  /\ clock \in 0..MaxClock
  /\ metrics \in [Session -> [sec : 0..Second(clock), val : Value \cup {0}]]
  /\ score \in [Session -> [sec : 0..Second(clock), val : Value \cup {0}, live : BOOLEAN]]
  /\ zset \in [Session -> Value \cup {0}]
  /\ snapshot = NoBoard \/ IsBoard(snapshot)
  /\ lastUpdate \in [Session -> 0..Second(clock)]
  /\ scorer \in ScorerRec
  /\ board \in [Process -> BoardRec]
  /\ \A p \in Process : Len(board[p].todo) <= Top
  /\ failures \in Nat /\ restarts \in Nat /\ failures + restarts <= MaxFaults

Init ==
  /\ clock = 0
  /\ metrics = [s \in Session |-> NoMetrics]
  /\ score = [s \in Session |-> NoScore]
  /\ zset = [s \in Session |-> 0]
  /\ snapshot = NoBoard
  /\ lastUpdate = [s \in Session |-> 0]
  /\ scorer = IdleScorer
  /\ board = [p \in Process |-> IdleBoard]
  /\ failures = 0
  /\ restarts = 0

Fails == failures + restarts < MaxFaults /\ failures' = failures + 1
Works == UNCHANGED failures

-----------------------------------------------------------------------------
(* RunOnce and scoreSession, in the goroutine of the ticker.               *)

Present == {s \in Session : metrics[s] # NoMetrics}

\* A tick: SCAN of metrics:*.  If it fails, nothing is scored and nothing published.
Scan ==
  /\ scorer.pc = "idle"
  /\ board["ticker"].pc = "idle"
  /\ \/ Works /\ scorer' = [IdleScorer EXCEPT !.pc = "get", !.todo = Present]
     \/ Fails /\ UNCHANGED scorer
  /\ UNCHANGED <<clock, redisVars, lastUpdate, board, restarts>>

Skip(s) == scorer' = [scorer EXCEPT !.todo = @ \ {s}]

Take(s) ==
  scorer' = [scorer EXCEPT !.pc = "set", !.todo = @ \ {s}, !.sid = s,
                           !.sec = metrics[s].sec, !.val = metrics[s].val]

\* Defect: the first session without news ends the round.
GetMetricsStops(s) ==
  /\ scorer.pc = "get"
  /\ s \in scorer.todo
  /\ \/ /\ Fails \/ (Works /\ lastUpdate[s] = metrics[s].sec) \/ (Works /\ metrics[s] = NoMetrics)
        /\ scorer' = [scorer EXCEPT !.todo = {}]
        /\ UNCHANGED lastUpdate
     \/ /\ Works
        /\ metrics[s] # NoMetrics
        /\ lastUpdate[s] # metrics[s].sec
        /\ lastUpdate' = [lastUpdate EXCEPT ![s] = metrics[s].sec]
        /\ Take(s)
  /\ UNCHANGED <<clock, redisVars, board, restarts>>

\* HGETALL; metrics of a second that has been scored are skipped.
GetMetrics(s) ==
  /\ scorer.pc = "get"
  /\ s \in scorer.todo
  /\ \/ /\ Fails \/ (Works /\ lastUpdate[s] = metrics[s].sec) \/ (Works /\ metrics[s] = NoMetrics)
        /\ Skip(s)
        /\ UNCHANGED lastUpdate
     \/ /\ Works
        /\ metrics[s] # NoMetrics
        /\ lastUpdate[s] # metrics[s].sec
        /\ lastUpdate' = [lastUpdate EXCEPT ![s] = metrics[s].sec]
        /\ Take(s)
  /\ UNCHANGED <<clock, redisVars, board, restarts>>

\* SET score:<session>, its error ignored.
SetScore ==
  /\ scorer.pc = "set"
  /\ \/ /\ Works
        /\ score' = [score EXCEPT ![scorer.sid] =
             [sec |-> scorer.sec, val |-> scorer.val, live |-> TRUE]]
     \/ Fails /\ UNCHANGED score
  /\ scorer' = [scorer EXCEPT !.pc = "zadd"]
  /\ UNCHANGED <<clock, metrics, zset, snapshot, lastUpdate, board, restarts>>

\* Defect: ZADD GT, so the board keeps the best score of a session, not the last.
AddToBoardBest ==
  /\ scorer.pc = "zadd"
  /\ \/ /\ Works
        /\ zset' = [zset EXCEPT ![scorer.sid] = IF scorer.val > @ THEN scorer.val ELSE @]
     \/ Fails /\ UNCHANGED zset
  /\ scorer' = [IdleScorer EXCEPT !.pc = "get", !.todo = scorer.todo]
  /\ UNCHANGED <<clock, metrics, score, snapshot, lastUpdate, board, restarts>>

\* ZADD leaderboard, its error ignored.
AddToBoard ==
  /\ scorer.pc = "zadd"
  /\ \/ Works /\ zset' = [zset EXCEPT ![scorer.sid] = scorer.val]
     \/ Fails /\ UNCHANGED zset
  /\ scorer' = [IdleScorer EXCEPT !.pc = "get", !.todo = scorer.todo]
  /\ UNCHANGED <<clock, metrics, score, snapshot, lastUpdate, board, restarts>>

\* All sessions are scored: RunOnce goes on to publishLeaderboard.
ScoredAll ==
  /\ scorer.pc = "get"
  /\ scorer.todo = {}
  /\ scorer' = IdleScorer
  /\ board' = [board EXCEPT !["ticker"].pc = "range"]
  /\ UNCHANGED <<clock, redisVars, lastUpdate, failures, restarts>>

-----------------------------------------------------------------------------
(* GetLeaderboard and publishLeaderboard.                                  *)

\* A request whose GET finds no snapshot, or fails, publishes one; otherwise it only reads.
GetLeaderboard(v) ==
  /\ board[v].pc = "idle"
  /\ (Works /\ snapshot = NoBoard) \/ Fails
  /\ board' = [board EXCEPT ![v].pc = "range"]
  /\ UNCHANGED <<clock, redisVars, lastUpdate, scorer, restarts>>

Ahead(s, t) == zset[s] > zset[t] \/ (zset[s] = zset[t] /\ s > t)

Ranked == {s \in Session : zset[s] # 0}

Rank(s) == Cardinality({t \in Ranked : Ahead(t, s)})

\* ZREVRANGE leaderboard 0 .. Top - 1.
Leaders == {s \in Ranked : Rank(s) < Top}

InOrder == [k \in 1..Cardinality(Leaders) |-> CHOOSE s \in Leaders : Rank(s) = k - 1]

Leading(p) ==
  /\ board[p].pc = "range"
  /\ \/ Works /\ board' = [board EXCEPT ![p] =
          [IdleBoard EXCEPT !.pc = "get", !.todo = InOrder]]
     \/ Fails /\ board' = [board EXCEPT ![p] = IdleBoard]
  /\ UNCHANGED <<clock, redisVars, lastUpdate, scorer, restarts>>

\* GET score:<session> of the next leader; without an answer it is left out.
GetScore(p) ==
  /\ board[p].pc = "get"
  /\ board[p].todo # <<>>
  /\ LET s == Head(board[p].todo)
         entry == [sid |-> s, sec |-> score[s].sec, val |-> score[s].val]
     IN  \/ /\ Works
            /\ board' = [board EXCEPT ![p].todo = Tail(@),
                 ![p].got = IF score[s].live THEN @ \cup {entry} ELSE @]
         \/ Fails /\ score[s].live /\ board' = [board EXCEPT ![p].todo = Tail(@)]
  /\ UNCHANGED <<clock, redisVars, lastUpdate, scorer, restarts>>

\* Defect: the entries stay in any order.
BoardsUnsorted(entries) == SetToSeqs(entries)

\* The entries in the order of sort.Slice, which leaves ties in any order.
Boards(entries) == {b \in SetToSeqs(entries) : IsBoard(b)}

\* Defect: SET NX, so a snapshot stays until it expires.
SetSnapshotNX(p) ==
  /\ board[p].pc = "get"
  /\ board[p].todo = <<>>
  /\ \/ Works /\ snapshot = NoBoard /\ snapshot' \in Boards(board[p].got)
     \/ Works /\ snapshot # NoBoard /\ UNCHANGED snapshot
     \/ Fails /\ UNCHANGED snapshot
  /\ board' = [board EXCEPT ![p] = IdleBoard]
  /\ UNCHANGED <<clock, metrics, score, zset, lastUpdate, scorer, restarts>>

\* SET leaderboard:snapshot; PUBLISH of the same board changes nothing here.
SetSnapshot(p) ==
  /\ board[p].pc = "get"
  /\ board[p].todo = <<>>
  /\ \/ Works /\ snapshot' \in Boards(board[p].got)
     \/ Fails /\ UNCHANGED snapshot
  /\ board' = [board EXCEPT ![p] = IdleBoard]
  /\ UNCHANGED <<clock, metrics, score, zset, lastUpdate, scorer, restarts>>

\* The service dies and is started again; lastUpdate and the rounds under way are gone.
Restart ==
  /\ failures + restarts < MaxFaults
  /\ restarts' = restarts + 1
  /\ lastUpdate' = [s \in Session |-> 0]
  /\ scorer' = IdleScorer
  /\ board' = [p \in Process |-> IdleBoard]
  /\ UNCHANGED <<clock, redisVars, failures>>

-----------------------------------------------------------------------------
(* Telemetry, time and Redis.                                              *)

\* The telemetry-service writes metrics, one session after the other; half a second
\* passes at most between two of them.
Publish(s, v) ==
  /\ clock < MaxClock
  /\ clock' = clock + 1
  /\ metrics' = [metrics EXCEPT ![s] = [sec |-> Second(clock), val |-> v]]
  /\ UNCHANGED <<score, zset, snapshot, lastUpdate, scorer, board, failures, restarts>>

\* metrics:<session> and score:<session> live for 2 hours, the snapshot for 30 s; the
\* sorted set has no time to live.
SnapshotExpires ==
  /\ snapshot # NoBoard
  /\ snapshot' = NoBoard
  /\ UNCHANGED <<clock, metrics, score, zset, lastUpdate, scorer, board, failures, restarts>>

KeyExpires(s) ==
  /\ Fails
  /\ \/ metrics' = [metrics EXCEPT ![s] = NoMetrics] /\ UNCHANGED score
     \/ score' = [score EXCEPT ![s].live = FALSE] /\ UNCHANGED metrics
  /\ UNCHANGED <<clock, zset, snapshot, lastUpdate, scorer, board, restarts>>

Round == Scan \/ SetScore \/ AddToBoard \/ ScoredAll \/ \E s \in Session : GetMetrics(s)
BoardStep(p) == Leading(p) \/ GetScore(p) \/ SetSnapshot(p)

Environment ==
  SnapshotExpires \/ \E s \in Session : KeyExpires(s) \/ \E v \in Value : Publish(s, v)

Next ==
  \/ Round
  \/ \E v \in Viewer : GetLeaderboard(v)
  \/ \E p \in Process : BoardStep(p)
  \/ Restart
  \/ Environment

Spec == Init /\ [][Next]_vars

\* The goroutines go on: calls end, and the ticker ticks.
Fairness == WF_vars(Round) /\ \A p \in Process : WF_vars(BoardStep(p))

FairSpec == Spec /\ Fairness

-----------------------------------------------------------------------------
\* RunOnce passes over a second because of lastUpdate, which is set before anything is
\* stored.  Still, unless a call failed, a second with the mark is scored, and its
\* score stands on the leaderboard, or it is the one being scored: also after restarts,
\* which forget the marks but neither the scores nor the board.
MarkedIsScored ==
  failures = 0 => \A s \in Session : lastUpdate[s] # 0 =>
    \/ scorer.sid = s /\ scorer.sec = lastUpdate[s]
    \/ score[s].sec = lastUpdate[s] /\ zset[s] = score[s].val

\* No session is forgotten: what telemetry published in a second is scored, or
\* something later is, also over a restart, unless it expired or a call failed.
SecondsScored ==
  \A s \in Session, k \in 1..Second(MaxClock) :
    metrics[s].sec = k ~>
      metrics[s] = NoMetrics \/ score[s].sec >= k \/ failures > 0

\* What a board must show: the leaders that still have a score.
Shows(b) ==
  /\ IsBoard(b)
  /\ ToSet(b) = {[sid |-> s, sec |-> score[s].sec, val |-> score[s].val] :
                    s \in {t \in Leaders : score[t].live}}

\* The last word is right: once scores stand still, so does the leaderboard, and it shows
\* them, although requests that read old scores publish later than the ticker.
BoardSettles == <>[](snapshot # NoBoard => Shows(snapshot))
=============================================================================
