--------------------------- MODULE ScoringProofs ---------------------------
(***************************************************************************)
(* Proofs about Scoring, for any sessions, values, requests and length of  *)
(* the leaderboard, and any number of failed calls and restarts: its       *)
(* types, the order of the leaders, the marks of what has been scored, and *)
(* that scores only get newer.                                             *)
(***************************************************************************)
EXTENDS Scoring, FiniteSetTheorems, TLAPS

-----------------------------------------------------------------------------
(* Leaders.                                                                *)

\* Of two sessions on the board one is ahead, and the one ahead has the lower rank.
LEMMA Ranks ==
  ASSUME zset \in [Session -> Value \cup {0}]
  PROVE  /\ IsFiniteSet(Ranked) /\ \A s \in Ranked : Rank(s) \in Nat
         /\ \A s, t \in Ranked : Ahead(s, t) => Rank(s) < Rank(t)
         /\ \A s, t \in Ranked : s # t => Ahead(s, t) \/ Ahead(t, s)
<1> DEFINE ahead(s) == {t \in Ranked : Ahead(t, s)}
<1>1. IsFiniteSet(Ranked) /\ Ranked \subseteq Session
  BY ScoringAssumption, FS_Subset DEF Ranked
<1>2. \A s \in Ranked : s \in Nat /\ zset[s] \in Nat
  <2>1. Session \subseteq Nat /\ Value \cup {0} \subseteq Nat
    BY ScoringAssumption
  <2> QED BY <1>1, <2>1
<1>3. \A s : IsFiniteSet(ahead(s)) /\ Cardinality(ahead(s)) \in Nat
  BY <1>1, FS_Subset, FS_CardinalityType
<1>4. ASSUME NEW s \in Ranked, NEW t \in Ranked, Ahead(s, t)
      PROVE  Cardinality(ahead(s)) < Cardinality(ahead(t))
  <2>1. ahead(s) \subseteq ahead(t)
    BY <1>2, <1>4 DEF Ahead
  <2>2. s \in ahead(t) /\ s \notin ahead(s)
    BY <1>2, <1>4 DEF Ahead
  <2> HIDE DEF ahead
  <2>3. /\ Cardinality(ahead(s)) <= Cardinality(ahead(t))
        /\ Cardinality(ahead(s)) # Cardinality(ahead(t))
    BY <1>3, <2>1, <2>2, FS_Subset
  <2> QED BY <1>3, <2>3
<1>5. \A s, t \in Ranked : s # t => Ahead(s, t) \/ Ahead(t, s)
  BY <1>2 DEF Ahead
<1> QED BY <1>1, <1>3, <1>4, <1>5 DEF Rank

\* The leaders have the ranks from 0 on, each rank one leader.
LEMMA LeaderRanks ==
  ASSUME zset \in [Session -> Value \cup {0}]
  PROVE  /\ IsFiniteSet(Leaders) /\ Cardinality(Leaders) \in 0..Top
         /\ \A s, t \in Leaders : Rank(s) = Rank(t) => s = t
         /\ \A s \in Leaders : Rank(s) < Cardinality(Leaders)
         /\ \A k \in 0..(Cardinality(Leaders) - 1) : \E s \in Leaders : Rank(s) = k
<1> DEFINE n == Cardinality(Leaders)
           r == [s \in Leaders |-> Rank(s)]
<1>1. /\ IsFiniteSet(Ranked) /\ \A s \in Ranked : Rank(s) \in Nat
      /\ \A s, t \in Ranked : Ahead(s, t) => Rank(s) < Rank(t)
      /\ \A s, t \in Ranked : s # t => Ahead(s, t) \/ Ahead(t, s)
  BY Ranks
<1>2. Leaders \subseteq Ranked /\ \A s \in Leaders : Rank(s) \in 0..(Top - 1)
  BY <1>1, ScoringAssumption DEF Leaders
<1>3. IsFiniteSet(Leaders) /\ n \in Nat
  BY <1>1, <1>2, FS_Subset, FS_CardinalityType
<1>4. \A s, t \in Leaders : Rank(s) = Rank(t) => s = t
  BY <1>1, <1>2
<1>5. n <= Top
  <2>1. IsFiniteSet(0..(Top - 1)) /\ Cardinality(0..(Top - 1)) = Top
    <3>1. Top - 1 \in Int /\ 0 \in Int /\ Top - 1 >= 0
      BY ScoringAssumption
    <3> QED BY <3>1, FS_Interval, ScoringAssumption
  <2>2. r \in [Leaders -> 0..(Top - 1)] /\ \A s, t \in Leaders : r[s] = r[t] => s = t
    BY <1>2, <1>4
  <2> HIDE DEF r
  <2>3. r \in Injection(Leaders, 0..(Top - 1))
    BY <2>2 DEF Injection, IsInjective
  <2> QED BY <2>1, <2>3, FS_Injection
<1>6. ASSUME NEW s \in Leaders PROVE Rank(s) < n
  <2> DEFINE ahead == {t \in Ranked : Ahead(t, s)}
  <2>1. ahead \subseteq Leaders
    BY <1>1, <1>2, ScoringAssumption DEF Leaders
  <2>2. s \notin ahead
    BY <1>1, <1>2
  <2>3. Cardinality(ahead) <= n /\ Cardinality(ahead) # n /\ Cardinality(ahead) = Rank(s)
    <3>1. Cardinality(ahead) = Rank(s)
      BY DEF Rank
    <3> HIDE DEF ahead
    <3> QED BY <1>3, <2>1, <2>2, <3>1, FS_Subset
  <2> QED BY <1>1, <1>2, <1>3, <2>3
<1>7. \A k \in 0..(n - 1) : \E s \in Leaders : Rank(s) = k
  <2>1. IsFiniteSet(0..(n - 1)) /\ Cardinality(0..(n - 1)) = n
    <3>1. n - 1 \in Int /\ 0 \in Int
      BY <1>3
    <3>2. Cardinality(0..(n - 1)) = IF 0 > n - 1 THEN 0 ELSE n - 1 - 0 + 1
      BY <3>1, FS_Interval
    <3> QED BY <1>3, <3>1, <3>2, FS_Interval
  <2>2. r \in [Leaders -> 0..(n - 1)] /\ \A s, t \in Leaders : r[s] = r[t] => s = t
    BY <1>1, <1>2, <1>3, <1>4, <1>6
  <2> HIDE DEF r
  <2>3. r \in Injection(Leaders, 0..(n - 1))
    BY <2>2 DEF Injection, IsInjective
  <2>4. r \in Surjection(Leaders, 0..(n - 1))
    BY <2>1, <2>3, FS_Injection
  <2>5. \A k \in 0..(n - 1) : \E s \in Leaders : r[s] = k
    BY <2>4 DEF Surjection
  <2> QED BY <2>5 DEF r
<1> QED BY <1>3, <1>4, <1>5, <1>6, <1>7

\* ZREVRANGE returns the leaders and nobody else, each once, the best first, and no more
\* of them than a leaderboard has entries.
LEMMA LeadersInOrder ==
  ASSUME zset \in [Session -> Value \cup {0}]
  PROVE  /\ InOrder \in Seq(Session) /\ Len(InOrder) <= Top
         /\ {InOrder[k] : k \in 1..Len(InOrder)} = Leaders
         /\ \A i, j \in 1..Len(InOrder) : i < j => Ahead(InOrder[i], InOrder[j])
<1> DEFINE n == Cardinality(Leaders)
           at(k) == CHOOSE s \in Leaders : Rank(s) = k - 1
<1>1. /\ IsFiniteSet(Leaders) /\ n \in 0..Top
      /\ \A s, t \in Leaders : Rank(s) = Rank(t) => s = t
      /\ \A s \in Leaders : Rank(s) < n
      /\ \A k \in 0..(n - 1) : \E s \in Leaders : Rank(s) = k
  BY LeaderRanks
<1>2. Leaders \subseteq Ranked /\ Ranked \subseteq Session
  BY DEF Leaders, Ranked
<1>3. /\ \A s \in Ranked : Rank(s) \in Nat
      /\ \A s, t \in Ranked : Ahead(s, t) => Rank(s) < Rank(t)
      /\ \A s, t \in Ranked : s # t => Ahead(s, t) \/ Ahead(t, s)
  BY Ranks
<1>4. \A k \in 1..n : at(k) \in Leaders /\ Rank(at(k)) = k - 1
  <2> TAKE k \in 1..n
  <2>1. k - 1 \in 0..(n - 1)
    BY <1>1
  <2> QED BY <1>1, <2>1
<1>5. InOrder = [k \in 1..n |-> at(k)]
  BY DEF InOrder
<1> HIDE DEF at
<1>6. /\ InOrder \in Seq(Session) /\ Len(InOrder) = n
      /\ \A k \in 1..n : InOrder[k] = at(k)
  <2>1. InOrder \in [1..n -> Session]
    BY <1>2, <1>4, <1>5
  <2> QED BY <1>1, <1>5, <2>1
<1>7. ASSUME NEW s \in Leaders PROVE \E k \in 1..n : InOrder[k] = s
  <2> DEFINE k == Rank(s) + 1
  <2>1. k \in 1..n /\ k - 1 = Rank(s)
    BY <1>1, <1>2, <1>3
  <2> HIDE DEF k
  <2>2. at(k) \in Leaders /\ Rank(at(k)) = Rank(s)
    BY <1>4, <2>1
  <2>3. at(k) = s
    BY <1>1, <2>2
  <2> QED BY <1>6, <2>1, <2>3
<1>8. ASSUME NEW i \in 1..n, NEW j \in 1..n, i < j PROVE Ahead(at(i), at(j))
  <2>1. at(i) \in Leaders /\ at(j) \in Leaders /\ Rank(at(i)) < Rank(at(j))
    BY <1>4, <1>8
  <2>2. at(i) # at(j) /\ ~(Rank(at(j)) < Rank(at(i)))
    BY <1>2, <1>3, <2>1
  <2> QED BY <1>2, <1>3, <2>1, <2>2
<1> QED BY <1>1, <1>4, <1>6, <1>7, <1>8

-----------------------------------------------------------------------------
(* Types.                                                                  *)

Busy == scorer.pc \in {"set", "zadd"}

\* What is there to be scored, or on a board, has a value; the session that is being
\* scored is one, and its second is no later than now.
SoundData ==
  /\ \A s \in Session : metrics[s] = NoMetrics \/ metrics[s].val \in Value
  /\ \A s \in Session : score[s].live => score[s].val \in Value
  /\ Busy => /\ scorer.sid \in Session /\ scorer.val \in Value
             /\ scorer.sec \in 0..Second(clock)
  /\ ~Busy => scorer.sec = 0

TypeInv == TypeOK /\ SoundData

\* Time goes on, in whole seconds.
LEMMA SecondGrows ==
  ASSUME NEW t \in Nat
  PROVE  Second(t) \in Nat \ {0} /\ Second(t + 1) \in Nat /\ Second(t) <= Second(t + 1)
BY DEF Second

LEMMA IdleTypes ==
  /\ IdleScorer \in ScorerRec /\ IdleScorer.pc = "idle" /\ IdleScorer.sec = 0
  /\ IdleBoard \in BoardRec /\ IdleBoard.pc = "idle" /\ Len(IdleBoard.todo) = 0
<1>1. <<>> \in Seq(Session) /\ Len(<<>>) = 0
  OBVIOUS
<1> QED BY <1>1 DEF IdleScorer, ScorerRec, IdleBoard, BoardRec

LEMMA TypeInit == Init => TypeInv
<1> SUFFICES ASSUME Init PROVE TypeInv
  OBVIOUS
<1>1. Second(0) \in Nat
  BY SecondGrows
<1>2. NoMetrics \in [sec : 0..Second(0), val : Value \cup {0}]
      /\ NoScore \in [sec : 0..Second(0), val : Value \cup {0}, live : BOOLEAN]
      /\ ~NoScore.live
  BY <1>1 DEF NoMetrics, NoScore
<1>3. 0 \in 0..Second(0) /\ 0 \in 0..MaxClock /\ 0 <= MaxFaults
  BY <1>1, ScoringAssumption
<1>4. TypeOK
  BY <1>2, <1>3, IdleTypes, ScoringAssumption DEF Init, TypeOK
<1> QED BY <1>2, <1>4, IdleTypes DEF Init, TypeInv, SoundData, Busy

\* A call of Redis fails or works: the number of failures stays bounded.
LEMMA FaultType ==
  ASSUME TypeOK, Fails \/ Works, restarts' = restarts
  PROVE  failures' \in Nat /\ restarts' \in Nat /\ failures' + restarts' <= MaxFaults
BY ScoringAssumption DEF TypeOK, Fails, Works

\* Steps of the scorer that change neither time nor what is stored.
LEMMA ScorerType ==
  ASSUME TypeInv, UNCHANGED <<clock, redisVars, board>>,
         scorer' \in ScorerRec, lastUpdate' \in [Session -> 0..Second(clock)],
         failures' \in Nat /\ restarts' \in Nat /\ failures' + restarts' <= MaxFaults,
         Busy' => /\ scorer'.sid \in Session /\ scorer'.val \in Value
                  /\ scorer'.sec \in 0..Second(clock),
         ~Busy' => scorer'.sec = 0
  PROVE  TypeInv'
BY DEF TypeInv, TypeOK, SoundData, redisVars, Busy, Process

\* Steps of a board.
LEMMA BoardType ==
  ASSUME TypeInv, UNCHANGED <<clock, metrics, score, zset, lastUpdate, scorer>>,
         NEW p \in Process, NEW b \in BoardRec, Len(b.todo) <= Top,
         board' = [board EXCEPT ![p] = b],
         snapshot' = snapshot \/ IsBoard(snapshot') \/ snapshot' = NoBoard,
         failures' \in Nat /\ restarts' \in Nat /\ failures' + restarts' <= MaxFaults
  PROVE  TypeInv'
<1>1. board' \in [Process -> BoardRec] /\ \A q \in Process : Len(board'[q].todo) <= Top
  BY DEF TypeInv, TypeOK
<1>2. snapshot' = NoBoard \/ IsBoard(snapshot')
  BY DEF TypeInv, TypeOK
<1>3. TypeOK'
  BY <1>1, <1>2 DEF TypeInv, TypeOK
<1> QED BY <1>3 DEF TypeInv, SoundData, Busy

LEMMA RoundType == TypeInv /\ Round => TypeInv'
<1> SUFFICES ASSUME TypeInv, Round PROVE TypeInv'
  OBVIOUS
<1>1. TypeOK /\ SoundData /\ scorer \in ScorerRec
  BY DEF TypeInv, TypeOK
<1>2. CASE Scan
  <2>1. failures' \in Nat /\ restarts' \in Nat /\ failures' + restarts' <= MaxFaults
    BY <1>1, <1>2, FaultType DEF Scan
  <2>2. /\ [IdleScorer EXCEPT !.pc = "get", !.todo = Present] \in ScorerRec
        /\ [IdleScorer EXCEPT !.pc = "get", !.todo = Present].pc = "get"
        /\ [IdleScorer EXCEPT !.pc = "get", !.todo = Present].sec = 0
    BY DEF IdleScorer, ScorerRec, Present
  <2>3. scorer' \in ScorerRec /\ ~Busy' /\ scorer'.sec = 0
    BY <1>1, <1>2, <2>2 DEF Scan, Busy, SoundData
  <2> QED BY <1>1, <1>2, <2>1, <2>3, ScorerType DEF Scan, TypeOK
<1>3. ASSUME NEW s \in Session, GetMetrics(s) PROVE TypeInv'
  <2>1. failures' \in Nat /\ restarts' \in Nat /\ failures' + restarts' <= MaxFaults
    BY <1>1, <1>3, FaultType DEF GetMetrics
  <2>2. CASE Skip(s) /\ UNCHANGED lastUpdate
    <3>1. scorer' \in ScorerRec /\ scorer'.pc = "get" /\ scorer'.sec = scorer.sec
      BY <1>1, <1>3, <2>2 DEF GetMetrics, Skip, ScorerRec
    <3>2. ~Busy' /\ scorer'.sec = 0
      BY <1>1, <1>3, <3>1 DEF GetMetrics, Busy, SoundData
    <3> QED BY <1>1, <1>3, <2>1, <2>2, <3>1, <3>2, ScorerType DEF GetMetrics, TypeOK
  <2>3. CASE /\ Take(s) /\ metrics[s] # NoMetrics
             /\ lastUpdate' = [lastUpdate EXCEPT ![s] = metrics[s].sec]
    <3>1. metrics[s].sec \in 0..Second(clock) /\ metrics[s].val \in Value
      BY <1>1, <2>3 DEF TypeOK, SoundData
    <3>2. metrics[s].sec \in Nat
      BY <1>1, <3>1, SecondGrows DEF TypeOK
    <3>3. /\ scorer' \in ScorerRec /\ scorer'.pc = "set" /\ scorer'.sid = s
          /\ scorer'.sec = metrics[s].sec /\ scorer'.val = metrics[s].val
      BY <1>1, <2>3, <3>1, <3>2 DEF Take, ScorerRec
    <3>4. lastUpdate' \in [Session -> 0..Second(clock)]
      BY <1>1, <2>3, <3>1 DEF TypeOK
    <3>5. Busy'
      BY <3>3 DEF Busy
    <3> QED BY <1>3, <2>1, <3>1, <3>3, <3>4, <3>5, ScorerType DEF GetMetrics
  <2> QED BY <1>3, <2>2, <2>3 DEF GetMetrics
<1>4. CASE SetScore
  <2>1. failures' \in Nat /\ restarts' \in Nat /\ failures' + restarts' <= MaxFaults
    BY <1>1, <1>4, FaultType DEF SetScore
  <2>2. Busy /\ scorer.sid \in Session /\ scorer.val \in Value /\ scorer.sec \in 0..Second(clock)
    BY <1>1, <1>4 DEF SetScore, Busy, SoundData
  <2>3. /\ scorer' \in ScorerRec /\ scorer'.pc = "zadd" /\ scorer'.sid = scorer.sid
        /\ scorer'.sec = scorer.sec /\ scorer'.val = scorer.val
    BY <1>1, <1>4 DEF SetScore, ScorerRec
  <2>4. /\ score' \in [Session -> [sec : 0..Second(clock), val : Value \cup {0}, live : BOOLEAN]]
        /\ \A s \in Session : score'[s].live => score'[s].val \in Value
    <3> DEFINE new == [sec |-> scorer.sec, val |-> scorer.val, live |-> TRUE]
    <3>1. new \in [sec : 0..Second(clock), val : Value \cup {0}, live : BOOLEAN]
          /\ new.val \in Value
      BY <2>2
    <3>2. score' = [score EXCEPT ![scorer.sid] = new] \/ score' = score
      BY <1>4 DEF SetScore
    <3> HIDE DEF new
    <3> QED BY <1>1, <3>1, <3>2 DEF TypeOK, SoundData
  <2> QED BY <1>1, <1>4, <2>1, <2>2, <2>3, <2>4 DEF SetScore, TypeInv, TypeOK, SoundData, Busy
<1>5. CASE AddToBoard
  <2>1. failures' \in Nat /\ restarts' \in Nat /\ failures' + restarts' <= MaxFaults
    BY <1>1, <1>5, FaultType DEF AddToBoard
  <2>2. scorer.val \in Value
    BY <1>1, <1>5 DEF AddToBoard, Busy, SoundData
  <2>3. zset' \in [Session -> Value \cup {0}]
    BY <1>1, <1>5, <2>2 DEF AddToBoard, TypeOK
  <2>4. scorer' \in ScorerRec /\ scorer'.pc = "get" /\ scorer'.sec = 0
    BY <1>1, <1>5, IdleTypes DEF AddToBoard, ScorerRec, IdleScorer
  <2> QED BY <1>1, <1>5, <2>1, <2>3, <2>4 DEF AddToBoard, TypeInv, TypeOK, SoundData, Busy
<1>6. CASE ScoredAll
  <2> DEFINE b == [board["ticker"] EXCEPT !.pc = "range"]
  <2>1. "ticker" \in Process /\ board["ticker"] \in BoardRec
    BY <1>1 DEF TypeOK, Process
  <2>2. b \in BoardRec /\ b.todo = board["ticker"].todo
    BY <2>1 DEF BoardRec
  <2>3. board' = [board EXCEPT !["ticker"] = b]
    BY <1>6 DEF ScoredAll
  <2> HIDE DEF b
  <2>4. board' \in [Process -> BoardRec] /\ \A p \in Process : Len(board'[p].todo) <= Top
    BY <1>1, <2>1, <2>2, <2>3 DEF TypeOK
  <2>5. TypeOK'
    BY <1>1, <1>6, <2>4, IdleTypes DEF ScoredAll, TypeOK, redisVars
  <2> QED BY <1>1, <1>6, <2>5, IdleTypes DEF ScoredAll, TypeInv, SoundData, Busy, redisVars
<1> QED BY <1>2, <1>3, <1>4, <1>5, <1>6 DEF Round

LEMMA BoardsType ==
  ASSUME TypeInv, NEW p \in Process, BoardStep(p) \/ (p \in Viewer /\ GetLeaderboard(p))
  PROVE  TypeInv'
<1>1. TypeOK /\ SoundData /\ board[p] \in BoardRec /\ Len(board[p].todo) <= Top
  BY DEF TypeInv, TypeOK
<1>2. CASE GetLeaderboard(p)
  <2> DEFINE b == [board[p] EXCEPT !.pc = "range"]
  <2>1. b \in BoardRec /\ b.todo = board[p].todo
    BY <1>1 DEF BoardRec
  <2>2. board' = [board EXCEPT ![p] = b]
    BY <1>2 DEF GetLeaderboard
  <2>3. failures' \in Nat /\ restarts' \in Nat /\ failures' + restarts' <= MaxFaults
    BY <1>1, <1>2, FaultType DEF GetLeaderboard, Works
  <2> HIDE DEF b
  <2> QED BY <1>1, <1>2, <2>1, <2>2, <2>3, BoardType DEF GetLeaderboard, redisVars, TypeOK
<1>3. CASE Leading(p)
  <2>1. failures' \in Nat /\ restarts' \in Nat /\ failures' + restarts' <= MaxFaults
    BY <1>1, <1>3, FaultType DEF Leading
  <2> DEFINE b == [IdleBoard EXCEPT !.pc = "get", !.todo = InOrder]
  <2>2. InOrder \in Seq(Session) /\ Len(InOrder) <= Top
    BY <1>1, LeadersInOrder DEF TypeOK
  <2>3. b \in BoardRec /\ b.todo = InOrder
    BY <2>2 DEF BoardRec, IdleBoard
  <2>4. board' = [board EXCEPT ![p] = b] \/ board' = [board EXCEPT ![p] = IdleBoard]
    BY <1>3 DEF Leading
  <2> HIDE DEF b
  <2>5. Len(b.todo) <= Top /\ Len(IdleBoard.todo) <= Top
    BY <2>2, <2>3, IdleTypes, ScoringAssumption
  <2>6. UNCHANGED <<clock, metrics, score, zset, snapshot, lastUpdate, scorer>>
    BY <1>3 DEF Leading, redisVars
  <2>7. CASE board' = [board EXCEPT ![p] = b]
    BY <2>1, <2>3, <2>5, <2>6, <2>7, BoardType
  <2>8. CASE board' = [board EXCEPT ![p] = IdleBoard]
    BY <2>1, <2>5, <2>6, <2>8, IdleTypes, BoardType
  <2> QED BY <2>4, <2>7, <2>8
<1>4. CASE GetScore(p)
  <2>1. failures' \in Nat /\ restarts' \in Nat /\ failures' + restarts' <= MaxFaults
    BY <1>1, <1>4, FaultType DEF GetScore
  <2> DEFINE s == Head(board[p].todo)
             rest == Tail(board[p].todo)
             entry == [sid |-> s, sec |-> score[s].sec, val |-> score[s].val]
  <2>2. board[p].todo \in Seq(Session) /\ board[p].todo # <<>>
    BY <1>1, <1>4 DEF GetScore, BoardRec
  <2>3. s \in Session /\ rest \in Seq(Session) /\ Len(rest) <= Top
    BY <1>1, <2>2, ScoringAssumption
  <2>4. score[s].live => entry \in Entry
    <3>1. Second(clock) \in Nat
      BY <1>1, SecondGrows DEF TypeOK
    <3> HIDE DEF s
    <3>2. score[s].sec \in 0..Second(clock)
      BY <1>1, <2>3 DEF TypeOK
    <3> QED BY <1>1, <2>3, <3>1, <3>2 DEF SoundData, Entry
  <2>5. PICK got \in SUBSET Entry :
          board' = [board EXCEPT ![p] = [board[p] EXCEPT !.todo = rest, !.got = got]]
    <3>1. board[p].got \in SUBSET Entry
      BY <1>1 DEF BoardRec
    <3>2. \/ board' = [board EXCEPT ![p] = [board[p] EXCEPT !.todo = rest,
                         !.got = IF score[s].live THEN board[p].got \cup {entry} ELSE board[p].got]]
          \/ board' = [board EXCEPT ![p] = [board[p] EXCEPT !.todo = rest]]
      BY <1>4 DEF GetScore
    <3>3. [board[p] EXCEPT !.todo = rest] = [board[p] EXCEPT !.todo = rest, !.got = board[p].got]
      BY <1>1 DEF BoardRec
    <3> HIDE DEF s, rest, entry
    <3>4. (IF score[s].live THEN board[p].got \cup {entry} ELSE board[p].got) \in SUBSET Entry
      BY <2>4, <3>1
    <3> QED BY <3>1, <3>2, <3>3, <3>4
  <2> DEFINE b == [board[p] EXCEPT !.todo = rest, !.got = got]
  <2> HIDE DEF rest
  <2>6. b \in BoardRec /\ b.todo = rest
    BY <1>1, <2>3 DEF BoardRec
  <2>7. UNCHANGED <<clock, metrics, score, zset, snapshot, lastUpdate, scorer>>
    BY <1>4 DEF GetScore, redisVars
  <2>8. board' = [board EXCEPT ![p] = b]
    BY <2>5
  <2> HIDE DEF b
  <2> QED BY <2>1, <2>3, <2>6, <2>7, <2>8, BoardType
<1>5. CASE SetSnapshot(p)
  <2>1. failures' \in Nat /\ restarts' \in Nat /\ failures' + restarts' <= MaxFaults
    BY <1>1, <1>5, FaultType DEF SetSnapshot
  <2>2. snapshot' = snapshot \/ IsBoard(snapshot')
    BY <1>5 DEF SetSnapshot, Boards
  <2>3. Len(IdleBoard.todo) <= Top
    BY IdleTypes, ScoringAssumption
  <2>4. /\ UNCHANGED <<clock, metrics, score, zset, lastUpdate, scorer>>
        /\ board' = [board EXCEPT ![p] = IdleBoard]
    BY <1>5 DEF SetSnapshot
  <2> QED BY <2>1, <2>2, <2>3, <2>4, IdleTypes, BoardType
<1> QED BY <1>2, <1>3, <1>4, <1>5 DEF BoardStep

LEMMA EnvironmentType == TypeInv /\ (Environment \/ Restart) => TypeInv'
<1> SUFFICES ASSUME TypeInv, Environment \/ Restart PROVE TypeInv'
  OBVIOUS
<1>1. TypeOK /\ SoundData
  BY DEF TypeInv
<1>2. CASE Restart
  <2>1. failures' \in Nat /\ restarts' \in Nat /\ failures' + restarts' <= MaxFaults
    BY <1>1, <1>2, ScoringAssumption DEF Restart, TypeOK
  <2>2. lastUpdate' \in [Session -> 0..Second(clock)]
    BY <1>1, <1>2, SecondGrows DEF Restart, TypeOK
  <2>3. board' \in [Process -> BoardRec] /\ \A p \in Process : Len(board'[p].todo) <= Top
    BY <1>2, IdleTypes, ScoringAssumption DEF Restart
  <2> QED BY <1>1, <1>2, <2>1, <2>2, <2>3, IdleTypes
            DEF Restart, TypeInv, TypeOK, SoundData, Busy, redisVars
<1>3. CASE SnapshotExpires
  BY <1>1, <1>3 DEF SnapshotExpires, TypeInv, TypeOK, SoundData, Busy
<1>4. ASSUME NEW s \in Session, KeyExpires(s) PROVE TypeInv'
  <2>1. failures' \in Nat /\ restarts' \in Nat /\ failures' + restarts' <= MaxFaults
    BY <1>1, <1>4, FaultType DEF KeyExpires
  <2>2. Second(clock) \in Nat
    BY <1>1, SecondGrows DEF TypeOK
  <2>3. /\ metrics' \in [Session -> [sec : 0..Second(clock), val : Value \cup {0}]]
        /\ \A q \in Session : metrics'[q] = NoMetrics \/ metrics'[q].val \in Value
    <3>1. NoMetrics \in [sec : 0..Second(clock), val : Value \cup {0}]
      BY <2>2 DEF NoMetrics
    <3> QED BY <1>1, <1>4, <3>1 DEF KeyExpires, TypeOK, SoundData
  <2>4. /\ score' \in [Session -> [sec : 0..Second(clock), val : Value \cup {0}, live : BOOLEAN]]
        /\ \A q \in Session : score'[q].live => score'[q].val \in Value
    <3> DEFINE r == [score[s] EXCEPT !.live = FALSE]
    <3>1. /\ r \in [sec : 0..Second(clock), val : Value \cup {0}, live : BOOLEAN]
          /\ ~r.live
      BY <1>1 DEF TypeOK
    <3>2. score' = score \/ score' = [score EXCEPT ![s] = r]
      BY <1>4 DEF KeyExpires
    <3> HIDE DEF r
    <3> QED BY <1>1, <3>1, <3>2 DEF TypeOK, SoundData
  <2> QED BY <1>1, <1>4, <2>1, <2>3, <2>4 DEF KeyExpires, TypeInv, TypeOK, SoundData, Busy
<1>5. ASSUME NEW s \in Session, NEW v \in Value, Publish(s, v) PROVE TypeInv'
  <2>1. clock \in Nat /\ clock' = clock + 1 /\ clock' \in 0..MaxClock
    BY <1>1, <1>5, ScoringAssumption DEF Publish, TypeOK
  <2>2. /\ Second(clock) \in Nat \ {0} /\ Second(clock') \in Nat /\ Second(clock) <= Second(clock')
    BY <2>1, SecondGrows
  <2>3. 0..Second(clock) \subseteq 0..Second(clock') /\ Second(clock) \in 0..Second(clock')
    BY <2>2
  <2> DEFINE r == [sec |-> Second(clock), val |-> v]
  <2>4. r \in [sec : 0..Second(clock'), val : Value \cup {0}] /\ r.val \in Value
    BY <2>3
  <2>5. metrics' = [metrics EXCEPT ![s] = r]
    BY <1>5 DEF Publish
  <2> HIDE DEF r
  <2>6. /\ metrics' \in [Session -> [sec : 0..Second(clock'), val : Value \cup {0}]]
        /\ \A q \in Session : metrics'[q] = NoMetrics \/ metrics'[q].val \in Value
    BY <1>1, <2>3, <2>4, <2>5 DEF TypeOK, SoundData
  <2>7. UNCHANGED <<score, zset, snapshot, lastUpdate, scorer, board, failures, restarts>>
    BY <1>5 DEF Publish
  <2>8. score \in [Session -> [sec : 0..Second(clock'), val : Value \cup {0}, live : BOOLEAN]]
        /\ lastUpdate \in [Session -> 0..Second(clock')]
    BY <1>1, <2>3 DEF TypeOK
  <2>9. Second(clock)' = Second(clock')
    BY DEF Second
  <2>10. TypeOK'
    BY <1>1, <2>1, <2>6, <2>7, <2>8, <2>9 DEF TypeOK, Process, IsBoard
  <2> QED BY <1>1, <2>3, <2>6, <2>7, <2>9, <2>10 DEF TypeInv, SoundData, Busy
<1> QED BY <1>2, <1>3, <1>4, <1>5 DEF Environment

LEMMA TypeStep == TypeInv /\ [Next]_vars => TypeInv'
<1> SUFFICES ASSUME TypeInv, [Next]_vars PROVE TypeInv'
  OBVIOUS
<1>1. CASE UNCHANGED vars
  BY <1>1 DEF vars, redisVars, TypeInv, TypeOK, SoundData, Busy
<1>2. Viewer \subseteq Process
  BY DEF Process
<1> QED BY <1>1, <1>2, RoundType, BoardsType, EnvironmentType DEF Next

\* The state keeps its shape: a snapshot lists each session once, the best first, and
\* no board is longer than a leaderboard.
THEOREM TypeCorrect == Spec => []TypeOK
<1>1. TypeInv => TypeOK
  BY DEF TypeInv
<1> QED BY <1>1, TypeInit, TypeStep, PTL DEF Spec

-----------------------------------------------------------------------------
(* The marks of what has been scored.                                      *)

\* While a session is being scored its mark is that second, and between SET and ZADD
\* its score is what ZADD is about to write.
Marks ==
  failures = 0 =>
    /\ Busy => lastUpdate[scorer.sid] = scorer.sec
    /\ scorer.pc = "zadd" =>
         score[scorer.sid].sec = scorer.sec /\ score[scorer.sid].val = scorer.val

MarkInv == TypeInv /\ Marks /\ MarkedIsScored

\* A call that fails ends what the marks promise.
LEMMA NoFault ==
  ASSUME TypeOK, Fails \/ Works, failures' = 0
  PROVE  failures = 0 /\ Works
BY DEF TypeOK, Fails, Works

\* Steps that leave marks, scores and the scorer alone.
LEMMA MarksStay ==
  ASSUME MarkInv, UNCHANGED <<zset, lastUpdate, scorer>>, failures' = 0 => failures = 0,
         failures' = 0 => \A s \in Session : score'[s].sec = score[s].sec /\ score'[s].val = score[s].val
  PROVE  Marks' /\ MarkedIsScored'
<1>1. Busy' = Busy
  BY DEF Busy
<1>2. Busy => scorer.sid \in Session
  BY DEF MarkInv, TypeInv, SoundData
<1>3. scorer.pc = "zadd" => Busy
  BY DEF Busy
<1> QED BY <1>1, <1>2, <1>3 DEF MarkInv, Marks, MarkedIsScored

LEMMA RoundMarks == MarkInv /\ Round => Marks' /\ MarkedIsScored'
<1> SUFFICES ASSUME MarkInv, Round PROVE Marks' /\ MarkedIsScored'
  OBVIOUS
<1>1. TypeOK /\ SoundData /\ Marks /\ MarkedIsScored /\ scorer \in ScorerRec
  BY DEF MarkInv, TypeInv, TypeOK
<1>2. \A s \in Session : lastUpdate[s] \in Nat
  <2>1. Second(clock) \in Nat
    BY <1>1, SecondGrows DEF TypeOK
  <2> QED BY <1>1, <2>1 DEF TypeOK
<1>3. ASSUME UNCHANGED <<score, zset, lastUpdate>>, failures' = 0 => failures = 0,
             ~Busy, ~Busy'
      PROVE  Marks' /\ MarkedIsScored'
  <2>1. \A s \in Session : failures = 0 /\ lastUpdate[s] # 0 =>
          score[s].sec = lastUpdate[s] /\ zset[s] = score[s].val
    BY <1>1, <1>3 DEF SoundData, MarkedIsScored
  <2>2. scorer'.pc # "zadd"
    BY <1>3 DEF Busy
  <2> QED BY <1>3, <2>1, <2>2 DEF Marks, MarkedIsScored
<1>4. CASE Scan
  <2>1. failures' = 0 => failures = 0
    BY <1>1, <1>4, NoFault DEF Scan
  <2>2. ~Busy /\ ~Busy'
    BY <1>4 DEF Scan, Busy, IdleScorer
  <2> QED BY <1>3, <1>4, <2>1, <2>2 DEF Scan, redisVars
<1>5. ASSUME NEW s \in Session, GetMetrics(s) PROVE Marks' /\ MarkedIsScored'
  <2>1. failures' = 0 => failures = 0
    BY <1>1, <1>5, NoFault DEF GetMetrics
  <2>2. ~Busy /\ UNCHANGED <<score, zset>>
    BY <1>5 DEF GetMetrics, Busy, redisVars
  <2>3. CASE Skip(s) /\ UNCHANGED lastUpdate
    <3>1. ~Busy'
      BY <1>1, <1>5, <2>3 DEF GetMetrics, Skip, Busy, ScorerRec
    <3> QED BY <1>3, <2>1, <2>2, <2>3, <3>1
  <2>4. CASE Take(s) /\ lastUpdate' = [lastUpdate EXCEPT ![s] = metrics[s].sec]
    <3>1. /\ scorer'.pc = "set" /\ scorer'.sid = s /\ scorer'.sec = metrics[s].sec
      BY <1>1, <2>4 DEF Take, ScorerRec
    <3>2. /\ lastUpdate'[s] = scorer'.sec
          /\ \A q \in Session : q # s => lastUpdate'[q] = lastUpdate[q]
      BY <1>1, <2>4, <3>1 DEF TypeOK
    <3>3. Marks'
      BY <3>1, <3>2 DEF Marks
    <3>4. \A q \in Session : failures = 0 /\ lastUpdate[q] # 0 =>
            score[q].sec = lastUpdate[q] /\ zset[q] = score[q].val
      BY <1>1, <2>2 DEF SoundData, MarkedIsScored
    <3>5. MarkedIsScored'
      BY <2>1, <2>2, <3>1, <3>2, <3>4 DEF MarkedIsScored
    <3> QED BY <3>3, <3>5
  <2> QED BY <1>5, <2>3, <2>4 DEF GetMetrics
<1>6. CASE SetScore
  <2>1. failures' = 0 =>
          /\ failures = 0
          /\ score' = [score EXCEPT ![scorer.sid] =
               [sec |-> scorer.sec, val |-> scorer.val, live |-> TRUE]]
    BY <1>1, <1>6, NoFault DEF SetScore, Fails, Works, TypeOK
  <2>2. Busy /\ scorer.sid \in Session
    BY <1>1, <1>6 DEF SetScore, Busy, SoundData
  <2>3. failures' = 0 =>
          /\ score'[scorer.sid].sec = scorer.sec /\ score'[scorer.sid].val = scorer.val
          /\ \A q \in Session : q # scorer.sid => score'[q] = score[q]
    BY <1>1, <2>1, <2>2 DEF TypeOK
  <2>4. /\ scorer'.pc = "zadd" /\ scorer'.sid = scorer.sid
        /\ scorer'.sec = scorer.sec /\ scorer'.val = scorer.val
    BY <1>1, <1>6 DEF SetScore, ScorerRec
  <2>5. UNCHANGED <<zset, lastUpdate>>
    BY <1>6 DEF SetScore
  <2>6. failures' = 0 => lastUpdate[scorer.sid] = scorer.sec
    BY <1>1, <2>1, <2>2 DEF Marks
  <2>7. Marks'
    BY <2>3, <2>4, <2>5, <2>6 DEF Marks
  <2>8. MarkedIsScored'
    BY <1>1, <2>1, <2>2, <2>3, <2>4, <2>5, <2>6 DEF MarkedIsScored
  <2> QED BY <2>7, <2>8
<1>7. CASE AddToBoard
  <2>1. failures' = 0 =>
          failures = 0 /\ zset' = [zset EXCEPT ![scorer.sid] = scorer.val]
    BY <1>1, <1>7, NoFault DEF AddToBoard, Fails, Works, TypeOK
  <2>2. Busy /\ scorer.pc = "zadd" /\ scorer.sid \in Session
    BY <1>1, <1>7 DEF AddToBoard, Busy, SoundData
  <2>3. failures' = 0 =>
          /\ zset'[scorer.sid] = scorer.val
          /\ \A q \in Session : q # scorer.sid => zset'[q] = zset[q]
    BY <1>1, <2>1, <2>2 DEF TypeOK
  <2>4. failures' = 0 =>
          /\ lastUpdate[scorer.sid] = scorer.sec
          /\ score[scorer.sid].sec = scorer.sec /\ score[scorer.sid].val = scorer.val
    BY <1>1, <2>1, <2>2 DEF Marks
  <2>5. scorer'.pc = "get"
    BY <1>7 DEF AddToBoard, IdleScorer
  <2>6. UNCHANGED <<score, lastUpdate>>
    BY <1>7 DEF AddToBoard
  <2>7. Marks'
    BY <2>5 DEF Marks, Busy
  <2>8. MarkedIsScored'
    BY <1>1, <2>1, <2>3, <2>4, <2>6 DEF MarkedIsScored
  <2> QED BY <2>7, <2>8
<1>8. CASE ScoredAll
  <2>1. ~Busy /\ ~Busy'
    BY <1>8 DEF ScoredAll, Busy, IdleScorer
  <2> QED BY <1>3, <1>8, <2>1 DEF ScoredAll, redisVars
<1> QED BY <1>4, <1>5, <1>6, <1>7, <1>8 DEF Round

LEMMA OtherMarks ==
  ASSUME MarkInv,
         \/ \E p \in Process : BoardStep(p) \/ GetLeaderboard(p)
         \/ Environment \/ Restart \/ UNCHANGED vars
  PROVE  Marks' /\ MarkedIsScored'
<1>1. TypeOK
  BY DEF MarkInv, TypeInv
<1>2. ASSUME UNCHANGED <<score, zset, lastUpdate, scorer>>, Fails \/ Works
      PROVE  Marks' /\ MarkedIsScored'
  BY <1>1, <1>2, NoFault, MarksStay
<1>3. ASSUME NEW p \in Process, BoardStep(p) \/ GetLeaderboard(p)
      PROVE  Marks' /\ MarkedIsScored'
  <2>1. UNCHANGED <<score, zset, lastUpdate, scorer>>
    BY <1>3 DEF BoardStep, GetLeaderboard, Leading, GetScore, SetSnapshot, redisVars
  <2>2. Fails \/ Works
    BY <1>3 DEF BoardStep, GetLeaderboard, Leading, GetScore, SetSnapshot, Works
  <2> QED BY <1>2, <2>1, <2>2
<1>4. CASE Restart
  <2>1. \A s \in Session : lastUpdate'[s] = 0
    BY <1>4 DEF Restart
  <2>2. ~Busy' /\ scorer'.pc # "zadd"
    BY <1>4 DEF Restart, Busy, IdleScorer
  <2> QED BY <2>1, <2>2 DEF Marks, MarkedIsScored
<1>5. CASE SnapshotExpires \/ UNCHANGED vars
  BY <1>2, <1>5 DEF SnapshotExpires, vars, redisVars, Works
<1>6. ASSUME NEW s \in Session, KeyExpires(s) PROVE Marks' /\ MarkedIsScored'
  <2>1. failures' # 0
    BY <1>1, <1>6 DEF KeyExpires, Fails, TypeOK
  <2> QED BY <2>1 DEF Marks, MarkedIsScored
<1>7. ASSUME NEW s \in Session, NEW v \in Value, Publish(s, v) PROVE Marks' /\ MarkedIsScored'
  BY <1>2, <1>7 DEF Publish, Works
<1> QED BY <1>3, <1>4, <1>5, <1>6, <1>7 DEF Environment

LEMMA MarkStep == MarkInv /\ [Next]_vars => MarkInv'
<1> SUFFICES ASSUME MarkInv, [Next]_vars PROVE MarkInv'
  OBVIOUS
<1>1. TypeInv'
  BY TypeStep DEF MarkInv
<1>2. Viewer \subseteq Process
  BY DEF Process
<1>3. Marks' /\ MarkedIsScored'
  BY <1>2, RoundMarks, OtherMarks DEF Next
<1> QED BY <1>1, <1>3 DEF MarkInv

\* A second that RunOnce passes over as scored is scored and on the leaderboard, or at
\* hand, unless a call failed: for any number of restarts at any moment.
THEOREM MarksAreTrue == Spec => []MarkedIsScored
<1>1. Init => MarkInv
  <2>1. Init => Marks /\ MarkedIsScored
    BY DEF Init, Marks, MarkedIsScored, Busy, IdleScorer
  <2> QED BY <2>1, TypeInit DEF MarkInv
<1>2. MarkInv => MarkedIsScored
  BY DEF MarkInv
<1> QED BY <1>1, <1>2, MarkStep, PTL DEF Spec

-----------------------------------------------------------------------------
(* Scores only get newer.                                                  *)

\* What is stored, what is being scored and what is to be scored follow each other in time.
Advancing ==
  /\ \A s \in Session : metrics[s] = NoMetrics \/ score[s].sec <= metrics[s].sec
  /\ scorer.pc = "set" =>
       /\ score[scorer.sid].sec <= scorer.sec
       /\ metrics[scorer.sid] = NoMetrics \/ scorer.sec <= metrics[scorer.sid].sec

AdvanceInv == TypeInv /\ Advancing

\* A score is never replaced by that of an earlier second, although lastUpdate, the only
\* guard against it, is lost in a restart, and metrics and scores expire.
ScoresAdvance == \A s \in Session : score'[s].sec >= score[s].sec

LEMMA Seconds ==
  ASSUME TypeOK, NEW s \in Session
  PROVE  /\ metrics[s].sec \in Nat /\ score[s].sec \in Nat /\ Second(clock) \in Nat
         /\ metrics[s].sec <= Second(clock) /\ score[s].sec <= Second(clock)
<1>1. clock \in Nat
  BY ScoringAssumption DEF TypeOK
<1>2. Second(clock) \in Nat
  BY <1>1, SecondGrows
<1> QED BY <1>2 DEF TypeOK

\* Steps that leave the metrics and the scores alone, and start scoring nothing.
LEMMA StillAdvancing ==
  ASSUME AdvanceInv, UNCHANGED <<metrics, score>>, scorer' = scorer \/ scorer'.pc # "set"
  PROVE  Advancing' /\ ScoresAdvance
<1>1. Advancing'
  BY DEF AdvanceInv, Advancing
<1>2. ASSUME NEW s \in Session PROVE score'[s].sec >= score[s].sec
  BY Seconds DEF AdvanceInv, TypeInv
<1> QED BY <1>1, <1>2 DEF ScoresAdvance

LEMMA RoundAdvances == AdvanceInv /\ Round => Advancing' /\ ScoresAdvance
<1> SUFFICES ASSUME AdvanceInv, Round PROVE Advancing' /\ ScoresAdvance
  OBVIOUS
<1>1. TypeOK /\ SoundData /\ Advancing /\ scorer \in ScorerRec
  BY DEF AdvanceInv, TypeInv, TypeOK
<1>2. CASE Scan
  <2>1. scorer' = scorer \/ scorer'.pc # "set"
    BY <1>2 DEF Scan, IdleScorer
  <2> QED BY <1>2, <2>1, StillAdvancing DEF Scan, redisVars
<1>3. ASSUME NEW s \in Session, GetMetrics(s) PROVE Advancing' /\ ScoresAdvance
  <2>1. CASE Skip(s)
    <3>1. scorer'.pc # "set"
      BY <1>1, <1>3, <2>1 DEF GetMetrics, Skip, ScorerRec
    <3> QED BY <1>3, <3>1, StillAdvancing DEF GetMetrics, redisVars
  <2>2. CASE Take(s) /\ metrics[s] # NoMetrics
    <3>1. scorer'.sid = s /\ scorer'.sec = metrics[s].sec
      BY <1>1, <2>2 DEF Take, ScorerRec
    <3>2. metrics' = metrics /\ score' = score
      BY <1>3 DEF GetMetrics, redisVars
    <3>3. score[s].sec <= metrics[s].sec /\ metrics[s].sec <= metrics[s].sec
      BY <1>1, <2>2, Seconds DEF Advancing
    <3>4. Advancing'
      BY <1>1, <3>1, <3>2, <3>3 DEF Advancing
    <3>5. ASSUME NEW t \in Session PROVE score'[t].sec >= score[t].sec
      BY <1>1, <3>2, Seconds
    <3> QED BY <3>4, <3>5 DEF ScoresAdvance
  <2> QED BY <1>3, <2>1, <2>2 DEF GetMetrics
<1>4. CASE SetScore
  <2>1. scorer'.pc = "zadd" /\ metrics' = metrics
    BY <1>1, <1>4 DEF SetScore, ScorerRec
  <2>2. /\ scorer.sid \in Session /\ scorer.sec \in Nat
        /\ score[scorer.sid].sec <= scorer.sec
        /\ metrics[scorer.sid] = NoMetrics \/ scorer.sec <= metrics[scorer.sid].sec
    BY <1>1, <1>4 DEF SetScore, SoundData, Busy, Advancing, ScorerRec
  <2>3. ASSUME NEW s \in Session
        PROVE  /\ score'[s].sec = score[s].sec
                    \/ (s = scorer.sid /\ score'[s].sec = scorer.sec)
    BY <1>1, <1>4 DEF SetScore, TypeOK
  <2>4. ASSUME NEW s \in Session
        PROVE  /\ score'[s].sec >= score[s].sec
               /\ metrics'[s] = NoMetrics \/ score'[s].sec <= metrics'[s].sec
    BY <1>1, <2>1, <2>2, <2>3, Seconds DEF Advancing
  <2> QED BY <2>1, <2>4 DEF Advancing, ScoresAdvance
<1>5. CASE AddToBoard
  <2>1. scorer'.pc # "set"
    BY <1>5 DEF AddToBoard, IdleScorer
  <2> QED BY <1>5, <2>1, StillAdvancing DEF AddToBoard
<1>6. CASE ScoredAll
  <2>1. scorer'.pc # "set"
    BY <1>6 DEF ScoredAll, IdleScorer
  <2> QED BY <1>6, <2>1, StillAdvancing DEF ScoredAll, redisVars
<1> QED BY <1>2, <1>3, <1>4, <1>5, <1>6 DEF Round

LEMMA EnvironmentAdvances == AdvanceInv /\ Environment => Advancing' /\ ScoresAdvance
<1> SUFFICES ASSUME AdvanceInv, Environment PROVE Advancing' /\ ScoresAdvance
  OBVIOUS
<1>1. TypeOK /\ SoundData /\ Advancing
  BY DEF AdvanceInv, TypeInv
<1>2. CASE SnapshotExpires
  BY <1>2, StillAdvancing DEF SnapshotExpires
<1>3. ASSUME NEW s \in Session, KeyExpires(s) PROVE Advancing' /\ ScoresAdvance
  <2>1. \A t \in Session : score'[t].sec = score[t].sec
    <3> DEFINE expired == [score[s] EXCEPT !.live = FALSE]
    <3>1. score \in [Session -> [sec : 0..Second(clock), val : Value \cup {0}, live : BOOLEAN]]
      BY <1>1 DEF TypeOK
    <3>2. expired.sec = score[s].sec
      BY <3>1
    <3>3. score' = score \/ score' = [score EXCEPT ![s] = expired]
      BY <1>3 DEF KeyExpires
    <3> HIDE DEF expired
    <3> QED BY <3>1, <3>2, <3>3
  <2>2. \A t \in Session : metrics'[t] = NoMetrics \/ metrics'[t] = metrics[t]
    BY <1>1, <1>3 DEF KeyExpires, TypeOK
  <2>3. scorer' = scorer
    BY <1>3 DEF KeyExpires
  <2>4. Advancing'
    BY <1>1, <2>1, <2>2, <2>3 DEF Advancing, SoundData, Busy
  <2>5. ASSUME NEW t \in Session PROVE score'[t].sec >= score[t].sec
    BY <1>1, <2>1, Seconds
  <2> QED BY <2>4, <2>5 DEF ScoresAdvance
<1>4. ASSUME NEW s \in Session, NEW v \in Value, Publish(s, v)
      PROVE  Advancing' /\ ScoresAdvance
  <2>1. score' = score /\ scorer' = scorer
    BY <1>4 DEF Publish
  <2>2. \A t \in Session : metrics'[t] = metrics[t] \/ metrics'[t].sec = Second(clock)
    BY <1>1, <1>4 DEF Publish, TypeOK
  <2>3. ASSUME NEW t \in Session
        PROVE  metrics'[t] = NoMetrics \/ score[t].sec <= metrics'[t].sec
    BY <1>1, <2>2, Seconds DEF Advancing
  <2>4. ASSUME scorer.pc = "set"
        PROVE  /\ score[scorer.sid].sec <= scorer.sec
               /\ metrics'[scorer.sid] = NoMetrics \/ scorer.sec <= metrics'[scorer.sid].sec
    <3>1. scorer.sid \in Session /\ scorer.sec <= Second(clock)
      BY <1>1, <2>4, Seconds DEF SoundData, Busy
    <3> QED BY <1>1, <2>2, <2>4, <3>1 DEF Advancing
  <2>5. Advancing'
    BY <2>1, <2>3, <2>4 DEF Advancing
  <2>6. ASSUME NEW t \in Session PROVE score'[t].sec >= score[t].sec
    BY <1>1, <2>1, Seconds
  <2> QED BY <2>5, <2>6 DEF ScoresAdvance
<1> QED BY <1>2, <1>3, <1>4 DEF Environment

LEMMA AdvanceStep == AdvanceInv /\ [Next]_vars => AdvanceInv' /\ ScoresAdvance
<1> SUFFICES ASSUME AdvanceInv, [Next]_vars PROVE AdvanceInv' /\ ScoresAdvance
  OBVIOUS
<1>1. TypeInv'
  BY TypeStep DEF AdvanceInv
<1>2. CASE Round
  BY <1>1, <1>2, RoundAdvances DEF AdvanceInv
<1>3. CASE Environment
  BY <1>1, <1>3, EnvironmentAdvances DEF AdvanceInv
<1>4. CASE \/ \E v \in Viewer : GetLeaderboard(v)
           \/ \E p \in Process : BoardStep(p)
           \/ UNCHANGED vars
  <2>1. UNCHANGED <<metrics, score, scorer>>
    BY <1>4 DEF GetLeaderboard, BoardStep, Leading, GetScore, SetSnapshot, vars, redisVars
  <2> QED BY <1>1, <2>1, StillAdvancing DEF AdvanceInv
<1>5. CASE Restart
  <2>1. UNCHANGED <<metrics, score>> /\ scorer'.pc # "set"
    BY <1>5 DEF Restart, redisVars, IdleScorer
  <2> QED BY <1>1, <2>1, StillAdvancing DEF AdvanceInv
<1> QED BY <1>2, <1>3, <1>4, <1>5 DEF Next

\* A score is never replaced by that of an earlier second, for any number of restarts,
\* of expired metrics and of failed calls, at any moment.
THEOREM ScoresOnlyAdvance == Spec => [][ScoresAdvance]_vars
<1>1. Init => AdvanceInv
  <2>1. Init => Advancing
    BY DEF Init, Advancing, IdleScorer
  <2> QED BY <2>1, TypeInit DEF AdvanceInv
<1>2. AdvanceInv /\ [Next]_vars => [ScoresAdvance]_vars
  BY AdvanceStep
<1> QED BY <1>1, <1>2, AdvanceStep, PTL DEF Spec
=============================================================================
