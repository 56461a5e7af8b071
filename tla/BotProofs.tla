----------------------------- MODULE BotProofs -----------------------------
(***************************************************************************)
(* Proofs about Bot, for any capacities, any engine, and any number of     *)
(* orders and answers: a bot is a batch of BotWorker, and it reports each  *)
(* order once, with the first answer.                                      *)
(***************************************************************************)
EXTENDS Bot, FiniteSetTheorems, TLAPS

\* Where the bot is, as far as its worker can tell.
LifeInv ==
  /\ cancelled \in BOOLEAN /\ active \in BOOLEAN /\ pc \in PC
  /\ orders \in 0..MaxOrders
  /\ sent \in 0..orders
  /\ pc = "none" => ~cancelled /\ ~active /\ sent = 0
  /\ pc \in {"write", "book", "post"} => sent < orders

LEMMA LifeInit == Init => LifeInv
<1> SUFFICES ASSUME Init PROVE LifeInv
  OBVIOUS
<1>1. cancelled = FALSE /\ active = FALSE /\ pc = "none" /\ orders = 0 /\ sent = 0
  BY DEF Init
<1>2. 0 \in 0..MaxOrders /\ 0 \in 0..0
  BY BotAssumption
<1>3. orders \in 0..MaxOrders /\ sent \in 0..orders
  BY <1>1, <1>2
<1> QED BY <1>1, <1>3 DEF LifeInv, PC

LEMMA LifeStep == LifeInv /\ [Next]_vars => LifeInv'
<1> SUFFICES ASSUME LifeInv, [Next]_vars PROVE LifeInv'
  OBVIOUS
<1> USE DEF LifeInv, PC
<1>1. CASE Start
  BY <1>1 DEF Start
<1>2. CASE Spawn
  BY <1>2 DEF Spawn
<1>3. CASE Stop
  BY <1>3 DEF Stop
<1>4. CASE Dial
  BY <1>4 DEF Dial
<1>5. CASE SelectAck
  BY <1>5 DEF SelectAck
<1>6. CASE SelectTick
  BY <1>6, BotAssumption DEF SelectTick
<1>7. CASE Write
  BY <1>7 DEF Write, Return
<1>8. CASE Book
  BY <1>8 DEF Book
<1>9. CASE RestLoop
  BY <1>9, BotAssumption DEF RestLoop
<1>10. CASE Post
  BY <1>10 DEF Post
<1>11. CASE SelectDone
  BY <1>11 DEF SelectDone, Return
<1>12. CASE Reader \/ Engine \/ UNCHANGED vars
  <2>1. UNCHANGED <<cancelled, active, pc, orders, sent>>
    BY <1>12 DEF Reader, Engine, ReadMessage, ReadError, PushAck, EngineReads, EngineAnswers,
                 Breaks, vars, botVars
  <2> QED BY <2>1
<1> QED BY <1>1, <1>2, <1>3, <1>4, <1>5, <1>6, <1>7, <1>8, <1>9, <1>10, <1>11, <1>12
        DEF Next, Loop

LEMMA BotInit == Init => W!WorkerInit
  BY DEF Init, W!WorkerInit, W!NoBatch, W!IdleHb, Life, Started

\* A step that changes nothing of what the worker sees.
LEMMA Unseen ==
  ASSUME UNCHANGED <<cancelled, active, sent>>, Life' = Life, Started' = Started
  PROVE  UNCHANGED W!bwVars
  BY DEF W!bwVars

LEMMA WorkerStep == LifeInv /\ [Next]_vars => [W!WorkerNext]_(W!bwVars)
<1> SUFFICES ASSUME LifeInv, [Next]_vars PROVE W!WorkerNext \/ UNCHANGED W!bwVars
  OBVIOUS
<1>1. ASSUME Start PROVE W!WorkerNext
  <2>1. W!HandleStart("worker", "run", "session", 1)
    BY <1>1 DEF Start, W!HandleStart, W!Cancel, W!NoBatch, W!BotCount, Life, Started, LifeInv
  <2> QED BY <1>1, <2>1 DEF Start, W!WorkerNext, W!Receive, Life
<1>2. ASSUME Spawn PROVE W!WorkerNext
  <2>1. W!SpawnBots("worker", "run")
    BY <1>2 DEF Spawn, W!SpawnBots, Life, Started
  <2> QED BY <2>1 DEF W!WorkerNext, W!BotStep
<1>3. ASSUME Stop PROVE W!WorkerNext
  <2>1. W!HandleStop("worker")
    BY <1>3 DEF Stop, W!HandleStop, W!Cancel, Life, Started, LifeInv
  <2> QED BY <2>1 DEF W!WorkerNext, W!Receive
<1>4. ASSUME Book \/ Post, sent' = sent + 1 PROVE W!WorkerNext
  <2>1. W!BotSend("worker", "run")
    <3>1. /\ Life = "live" /\ Life' = "live" /\ Started /\ Started' /\ sent' = sent + 1
          /\ UNCHANGED <<cancelled, active>>
      BY <1>4 DEF Book, Post, Life, Started
    <3>2. sent < MaxOrders
      BY <1>4, BotAssumption DEF Book, Post, LifeInv
    <3> QED BY <3>1, <3>2 DEF W!BotSend
  <2> QED BY <2>1 DEF W!WorkerNext, W!BotStep
<1>5. ASSUME Life = "live", Life' = "gone", Started, Started', UNCHANGED <<cancelled, active, sent>>
      PROVE  W!WorkerNext
  <2>1. W!BotsDone("worker", "run") \/ W!BotsFail("worker", "run")
    BY <1>5 DEF W!BotsDone, W!BotsFail
  <2> QED BY <2>1 DEF W!WorkerNext, W!BotStep
<1>6. ASSUME Dial \/ SelectAck \/ SelectTick PROVE UNCHANGED W!bwVars
  BY <1>6, Unseen DEF Dial, SelectAck, SelectTick, Life, Started
<1>7. ASSUME Write PROVE W!WorkerNext \/ UNCHANGED W!bwVars
  BY <1>5, <1>7, Unseen DEF Write, Return, Life, Started
<1>8. ASSUME RestLoop PROVE W!WorkerNext \/ UNCHANGED W!bwVars
  BY <1>5, <1>8, Unseen DEF RestLoop, Life, Started
<1>9. ASSUME SelectDone PROVE W!WorkerNext
  BY <1>5, <1>9 DEF SelectDone, Return, Life, Started
<1>10. ASSUME Reader \/ Engine \/ UNCHANGED vars PROVE UNCHANGED W!bwVars
  <2>1. UNCHANGED <<cancelled, active, pc, sent>>
    BY <1>10 DEF Reader, Engine, ReadMessage, ReadError, PushAck, EngineReads, EngineAnswers,
                 Breaks, vars, botVars
  <2> QED BY <2>1, Unseen DEF Life, Started
<1>11. ASSUME Post PROVE sent' = sent + 1 \/ UNCHANGED W!bwVars
  BY <1>11, Unseen DEF Post, Life, Started
<1>12. ASSUME Book PROVE sent' = sent + 1
  BY <1>12 DEF Book
<1> QED BY <1>1, <1>2, <1>3, <1>4, <1>6, <1>7, <1>8, <1>9, <1>10, <1>11, <1>12 DEF Next, Loop

\* runWS and runREST, with their channel and connection, do only what the worker's
\* model allows its bots: one start, one count per order, one return.
THEOREM BotIsABatch == Spec => ImplementsWorker
  BY LifeInit, LifeStep, BotInit, WorkerStep, PTL DEF Spec, ImplementsWorker

-----------------------------------------------------------------------------
(* The answers to the bot's orders.                                        *)

Reported == {o \in Order : reported[o] # <<>>}

\* What has been booked was counted then.  On a WebSocket that is every order but the one
\* that is being written.
BookInv ==
  /\ pending \subseteq Order /\ pending \cap Reported = {}
  /\ pending \cup Reported \subseteq 1..orders
  /\ pc \in {"none", "spawning", "dial"} => orders = 0
  /\ pc = "select" => pending \cup Reported = 1..orders
  /\ pc \in {"write", "book"} => orders > 0 /\ pending \cup Reported = 1..(orders - 1)
  /\ pc = "post" => orders > 0 /\ pending \cup Reported \subseteq 1..(orders - 1)
  /\ sent = Cardinality(pending \cup Reported)

\* Only what was written arrives; without a connection nothing is on its way.
WireInv ==
  /\ out \in Seq(Order) /\ got \subseteq 1..orders
  /\ \A i \in 1..Len(out) : out[i] <= orders
  /\ pc = "write" => orders \notin got /\ \A i \in 1..Len(out) : out[i] # orders
  /\ pc \in {"none", "spawning", "dial", "rest", "post"} => conn = "none"
  /\ pc \in {"select", "write", "book"} => conn # "none"
  /\ conn \in {"none", "open", "broken", "closed"}
  /\ reader \in {"none", "reading", "holding", "ended"}
  /\ conn = "none" <=> reader = "none"
  /\ conn = "none" => out = <<>> /\ in = <<>> /\ acks = <<>> /\ pending = {}
  /\ held \in Answer \cup {NoAnswer} /\ (held # NoAnswer <=> reader = "holding")
  /\ acks \in Seq(Answer) /\ in \in Seq(Answer)

NotInAcks(o) == \A i \in 1..Len(acks) : acks[i].order # o

NotIn(o) == \A i \in 1..Len(in) : in[i].order # o

\* a, if it is an answer to o, is the first that the engine gave.
IsFirst(a, o) == a.order = o => answers[o] # <<>> /\ a.status = answers[o][1]

\* The oldest answer to o on its way.
WayInv(o) ==
  /\ answers[o] # <<>> => o \in got
  /\ answers[o] = <<>> => NotInAcks(o) /\ held.order # o /\ NotIn(o)
  /\ \A i \in 1..Len(acks) : (\A j \in 1..(i - 1) : acks[j].order # o) => IsFirst(acks[i], o)
  /\ NotInAcks(o) => IsFirst(held, o)
  /\ NotInAcks(o) /\ held.order # o =>
       \A i \in 1..Len(in) : (\A j \in 1..(i - 1) : in[j].order # o) => IsFirst(in[i], o)
  /\ answers[o] # <<>> /\ conn = "open" => ~(NotInAcks(o) /\ held.order # o /\ NotIn(o))

\* An order that was reported was reported once, with the first answer to it.
ReportOf(o) ==
  /\ reported[o] = <<>> => WayInv(o)
  /\ reported[o] # <<>> =>
       /\ Len(reported[o]) = 1
       /\ \/ conn = "none" /\ reported[o][1] = "ERROR"
          \/ answers[o] # <<>> /\ reported[o][1] = answers[o][1]
  /\ answers[o] # <<>> => o \in got
  /\ conn = "none" /\ reported[o] = <<>> => answers[o] = <<>>

ReportInv ==
  /\ reported \in [Order -> Seq(Status \cup {"ERROR"})]
  /\ answers \in [Order -> Seq(Status)]
  /\ \A o \in Order : ReportOf(o)

AnswerInv == LifeInv /\ BookInv /\ WireInv /\ ReportInv

LEMMA AnswerInit == Init => AnswerInv
<1> SUFFICES ASSUME Init PROVE AnswerInv
  OBVIOUS
<1>1. pending = {} /\ Reported = {} /\ orders = 0 /\ sent = 0 /\ pc = "none"
  BY DEF Init, Reported
<1>2. BookInv
  <2>1. Cardinality(pending \cup Reported) = 0
    BY <1>1, FS_EmptySet
  <2> QED BY <1>1, <2>1 DEF BookInv
<1>3. WireInv
  BY DEF Init, WireInv, NoAnswer
<1>4. NoAnswer.order = 0 /\ 0 \notin Order
  BY DEF NoAnswer, Order
<1>5. ReportInv
  BY <1>4, BotAssumption DEF Init, ReportInv, ReportOf, WayInv, NotInAcks, NotIn, IsFirst
<1> QED BY <1>2, <1>3, <1>5, LifeInit DEF AnswerInv

LEMMA ReportedGrows ==
  ASSUME NEW o \in Order, NEW a \in Status \cup {"ERROR"},
         reported \in [Order -> Seq(Status \cup {"ERROR"})],
         reported' = [reported EXCEPT ![o] = Append(reported[o], a)]
  PROVE  Reported' = Reported \cup {o}
<1>1. reported[o] \in Seq(Status \cup {"ERROR"})
  OBVIOUS
<1>2. Append(reported[o], a) # <<>>
  BY <1>1
<1>3. reported'[o] # <<>> /\ \A n \in Order : n # o => reported'[n] = reported[n]
  BY <1>2
<1> QED BY <1>3 DEF Reported

\* An order's report comes when it has been booked, or books it.
LEMMA BookStep == AnswerInv /\ [Next]_vars => BookInv'
<1> SUFFICES ASSUME AnswerInv, [Next]_vars PROVE BookInv'
  OBVIOUS
<1>1. BookInv /\ LifeInv /\ orders \in Nat /\ sent \in Nat /\ orders \in 0..MaxOrders
  BY BotAssumption DEF AnswerInv, LifeInv
<1> DEFINE booked == pending \cup Reported
<1>2. IsFiniteSet(booked)
  <2>1. booked \subseteq 1..orders
    BY <1>1 DEF BookInv
  <2>2. 1 \in Int /\ orders \in Int
    BY <1>1
  <2>3. IsFiniteSet(1..orders)
    BY <2>2, FS_Interval
  <2> QED BY <2>1, <2>3, FS_Subset
<1>3. ASSUME UNCHANGED <<pc, orders, sent, pending, reported>> PROVE BookInv'
  BY <1>1, <1>3 DEF BookInv, Reported
<1>4. ASSUME UNCHANGED <<orders, sent, pending, reported>>,
             \/ pc = "none" /\ pc' = "spawning"
             \/ pc = "spawning" /\ pc' \in {"dial", "rest"}
             \/ pc = "dial" /\ pc' \in {"select", "rest"}
             \/ pc' = "done"
      PROVE  BookInv'
  <2>1. Reported' = Reported
    BY <1>4 DEF Reported
  <2>2. orders = 0 => pending \cup Reported = 1..orders
    BY <1>1 DEF BookInv
  <2> QED BY <1>1, <1>4, <2>1, <2>2 DEF BookInv
<1>5. ASSUME \/ pc = "select" /\ pc' = "write"
             \/ pc = "rest" /\ pc' = "post",
             orders' = orders + 1, UNCHANGED <<sent, pending, reported>>
      PROVE  BookInv'
  <2>1. Reported' = Reported /\ orders' > 0 /\ orders' - 1 = orders
    BY <1>1, <1>5 DEF Reported
  <2>2. 1..orders \subseteq 1..orders'
    BY <1>1, <1>5
  <2> QED BY <1>1, <1>5, <2>1, <2>2 DEF BookInv
<1>6. ASSUME \/ pc = "book" /\ pc' = "select"
             \/ pc = "post" /\ pc' = "rest",
             UNCHANGED orders,
             sent' = sent + 1, orders \in Order,
             pending' \subseteq Order, pending' \cap Reported' = {},
             pending' \cup Reported' = booked \cup {orders}
      PROVE  BookInv'
  <2>1. /\ orders > 0 /\ booked \subseteq 1..(orders - 1) /\ sent = Cardinality(booked)
        /\ pc = "book" => booked = 1..(orders - 1)
    BY <1>1, <1>6 DEF BookInv
  <2>2. /\ orders \notin booked /\ booked \cup {orders} \subseteq 1..orders
        /\ pc = "book" => booked \cup {orders} = 1..orders
    BY <1>1, <2>1
  <2> HIDE DEF booked
  <2>3. Cardinality(booked \cup {orders}) = Cardinality(booked) + 1
    BY <1>2, <2>2, FS_AddElement
  <2> QED BY <1>6, <2>1, <2>2, <2>3 DEF BookInv
<1>7. CASE SelectAck
  <2> DEFINE o == Head(acks).order
  <2>1. /\ pc = "select" /\ UNCHANGED <<pc, orders, sent>>
        /\ pending' = pending \ {o}
        /\ reported' = IF o \in pending THEN [reported EXCEPT ![o] = Append(reported[o], Head(acks).status)]
                                       ELSE reported
    BY <1>7 DEF SelectAck
  <2>2. reported \in [Order -> Seq(Status \cup {"ERROR"})] /\ acks \in Seq(Answer) /\ acks # <<>>
    BY <1>7 DEF AnswerInv, ReportInv, WireInv, SelectAck
  <2>3. Head(acks).status \in Status
    <3>1. Head(acks) \in Answer
      BY <2>2
    <3> QED BY <3>1 DEF Answer
  <2>4. pending \subseteq Order /\ pending \cap Reported = {}
    BY <1>1 DEF BookInv
  <2> HIDE DEF o
  <2>5. Reported' = IF o \in pending THEN Reported \cup {o} ELSE Reported
    <3>1. CASE o \in pending
      <4>1. o \in Order /\ Head(acks).status \in Status \cup {"ERROR"}
        BY <2>3, <2>4, <3>1
      <4> QED BY <2>1, <2>2, <3>1, <4>1, ReportedGrows
    <3>2. CASE o \notin pending
      BY <2>1, <3>2 DEF Reported
    <3> QED BY <3>1, <3>2
  <2>6. pending' \cup Reported' = booked /\ pending' \cap Reported' = {} /\ pending' \subseteq Order
    BY <2>1, <2>4, <2>5
  <2> QED BY <1>1, <2>1, <2>6 DEF BookInv
<1>8. CASE Book
  <2>1. orders \in Order /\ Reported' = Reported
    BY <1>1, <1>8, BotAssumption DEF Book, Order, Reported, BookInv
  <2>2. orders \notin Reported /\ pending \subseteq Order /\ pending \cap Reported = {}
    BY <1>1, <1>8 DEF Book, BookInv
  <2> QED BY <1>6, <1>8, <2>1, <2>2 DEF Book
<1>9. CASE Post /\ ~UNCHANGED sent
  <2>1. orders \in Order /\ orders \notin pending
    BY <1>1, <1>9, BotAssumption DEF Post, Order, BookInv
  <2>2. PICK a \in Status \cup {"ERROR"} :
          reported' = [reported EXCEPT ![orders] = Append(reported[orders], a)]
    BY <1>1, <1>9 DEF Post
  <2>3. reported \in [Order -> Seq(Status \cup {"ERROR"})]
    BY DEF AnswerInv, ReportInv
  <2>4. Reported' = Reported \cup {orders}
    BY <2>1, <2>2, <2>3, ReportedGrows
  <2>5. pending \subseteq Order /\ pending \cap Reported = {}
    BY <1>1 DEF BookInv
  <2> QED BY <1>6, <1>9, <2>1, <2>4, <2>5 DEF Post
<1>10. CASE Write
  BY <1>1, <1>4, <1>10 DEF Write, Return, BookInv, Reported
<1>11. CASE Post /\ UNCHANGED sent
  <2>1. /\ pc = "post" /\ pc' = "rest" /\ UNCHANGED <<orders, sent, pending, reported>>
        /\ Reported' = Reported
    BY <1>1, <1>11 DEF Post, Reported
  <2>2. 1..(orders - 1) \subseteq 1..orders
    BY <1>1
  <2> QED BY <1>1, <2>1, <2>2 DEF BookInv
<1>12. CASE Reader \/ Engine \/ Stop \/ UNCHANGED vars
  BY <1>3, <1>12 DEF Reader, Engine, ReadMessage, ReadError, PushAck, EngineReads, EngineAnswers,
                 Breaks, Stop, vars, botVars
<1> QED BY <1>4, <1>5, <1>7, <1>8, <1>9, <1>10, <1>11, <1>12
        DEF Next, Loop, Start, Spawn, Dial, SelectTick, RestLoop, SelectDone, Return

-----------------------------------------------------------------------------
(* Answers on their way stay in the order in which the engine gave them.   *)

LEMMA NoAnswerToNothing == NoAnswer.order = 0 /\ \A o \in Order : NoAnswer.order # o
BY DEF NoAnswer, Order

LEMMA WaySame ==
  ASSUME NEW o \in Order, WayInv(o), UNCHANGED <<acks, held, in>>, answers'[o] = answers[o],
         got \subseteq got', conn' = "open" => conn = "open" \/ answers[o] = <<>>
  PROVE  WayInv(o)'
BY DEF WayInv, NotInAcks, NotIn, IsFirst

\* The read goroutine takes the oldest message that it has not seen.
LEMMA WayRead ==
  ASSUME WireInv, NEW o \in Order, WayInv(o), ReadMessage
  PROVE  WayInv(o)'
<1>1. /\ in \in Seq(Answer) /\ in # <<>> /\ held = NoAnswer /\ held' = Head(in) /\ in' = Tail(in)
      /\ UNCHANGED <<acks, answers, conn, got>>
  BY DEF WireInv, ReadMessage
<1>2. held.order # o
  BY <1>1, NoAnswerToNothing
<1>3. /\ Len(in) \in Nat /\ Len(in) > 0 /\ held' = in[1] /\ Len(in') = Len(in) - 1
      /\ \A i \in 1..Len(in') : in'[i] = in[i + 1]
  BY <1>1
<1>4. NotIn(o) <=> NotIn(o)' /\ held'.order # o
  <2>1. \A i \in 1..Len(in) : i = 1 \/ (i - 1 \in 1..Len(in') /\ in[i] = in'[i - 1])
    BY <1>3
  <2>2. \A i \in 1..Len(in') : i + 1 \in 1..Len(in) /\ in'[i] = in[i + 1]
    BY <1>3
  <2>3. 1 \in 1..Len(in)
    BY <1>3
  <2> QED BY <1>3, <2>1, <2>2, <2>3 DEF NotIn
<1>5. NotInAcks(o)' <=> NotInAcks(o)
  BY <1>1 DEF NotInAcks
<1>6. NotInAcks(o) => IsFirst(held', o)
  <2>1. \A j \in 1..(1 - 1) : in[j].order # o
    OBVIOUS
  <2>2. 1 \in 1..Len(in)
    BY <1>3
  <2> QED BY <1>2, <1>3, <2>1, <2>2 DEF WayInv
<1>7. ASSUME NotInAcks(o), held'.order # o, NEW i \in 1..Len(in'),
             \A j \in 1..(i - 1) : in'[j].order # o
      PROVE  IsFirst(in'[i], o)
  <2>1. i + 1 \in 1..Len(in) /\ in'[i] = in[i + 1]
    BY <1>3
  <2>2. ASSUME NEW j \in 1..((i + 1) - 1) PROVE in[j].order # o
    <3>1. CASE j = 1
      BY <1>3, <1>7, <3>1
    <3>2. CASE j # 1
      <4>1. j - 1 \in 1..(i - 1) /\ j - 1 \in 1..Len(in') /\ (j - 1) + 1 = j
        BY <1>3, <3>2
      <4> QED BY <1>3, <1>7, <4>1
    <3> QED BY <3>1, <3>2
  <2> QED BY <1>2, <1>7, <2>1, <2>2 DEF WayInv
<1> QED BY <1>1, <1>2, <1>4, <1>5, <1>6, <1>7 DEF WayInv, IsFirst, NotInAcks

\* It puts what it holds behind the answers that wait in acks.
LEMMA WayPush ==
  ASSUME WireInv, NEW o \in Order, WayInv(o), PushAck
  PROVE  WayInv(o)'
<1>1. /\ acks \in Seq(Answer) /\ acks' = Append(acks, held) /\ held' = NoAnswer
      /\ held \in Answer /\ UNCHANGED <<in, answers, conn, got>>
  BY DEF WireInv, PushAck, netVars
<1>2. held'.order # o
  BY <1>1, NoAnswerToNothing
<1>3. /\ Len(acks) \in Nat /\ Len(acks') = Len(acks) + 1 /\ acks'[Len(acks) + 1] = held
      /\ \A i \in 1..Len(acks) : acks'[i] = acks[i]
  BY <1>1
<1>4. NotInAcks(o)' <=> NotInAcks(o) /\ held.order # o
  <2>1. \A i \in 1..Len(acks') : i \in 1..Len(acks) \/ i = Len(acks) + 1
    BY <1>3
  <2>2. Len(acks) + 1 \in 1..Len(acks') /\ \A i \in 1..Len(acks) : i \in 1..Len(acks')
    BY <1>3
  <2> QED BY <1>3, <2>1, <2>2 DEF NotInAcks
<1>5. ASSUME NEW i \in 1..Len(acks'), \A j \in 1..(i - 1) : acks'[j].order # o
      PROVE  IsFirst(acks'[i], o)
  <2>1. CASE i \in 1..Len(acks)
    <3>1. \A j \in 1..(i - 1) : acks[j].order # o
      BY <1>3, <1>5, <2>1
    <3> QED BY <1>3, <2>1, <3>1 DEF WayInv
  <2>2. CASE i = Len(acks) + 1
    <3>1. NotInAcks(o)
      BY <1>3, <1>5, <2>2 DEF NotInAcks
    <3> QED BY <1>3, <2>2, <3>1 DEF WayInv
  <2> QED BY <1>3, <2>1, <2>2
<1> QED BY <1>1, <1>2, <1>4, <1>5 DEF WayInv, IsFirst, NotIn

\* select takes the oldest.
LEMMA WaySelect ==
  ASSUME NEW o \in Order, WayInv(o), acks \in Seq(Answer), acks # <<>>,
         acks' = Tail(acks), Head(acks).order # o, UNCHANGED <<held, in, answers, conn, got>>
  PROVE  WayInv(o)'
<1>1. /\ Len(acks) \in Nat /\ Len(acks) > 0 /\ acks[1].order # o /\ Len(acks') = Len(acks) - 1
      /\ \A i \in 1..Len(acks') : acks'[i] = acks[i + 1]
  OBVIOUS
<1>2. NotInAcks(o)' <=> NotInAcks(o)
  <2>1. \A i \in 1..Len(acks) : i = 1 \/ (i - 1 \in 1..Len(acks') /\ acks[i] = acks'[i - 1])
    BY <1>1
  <2>2. \A i \in 1..Len(acks') : i + 1 \in 1..Len(acks) /\ acks'[i] = acks[i + 1]
    BY <1>1
  <2> QED BY <1>1, <2>1, <2>2 DEF NotInAcks
<1>3. ASSUME NEW i \in 1..Len(acks'), \A j \in 1..(i - 1) : acks'[j].order # o
      PROVE  IsFirst(acks'[i], o)
  <2>1. i + 1 \in 1..Len(acks) /\ acks'[i] = acks[i + 1]
    BY <1>1
  <2>2. ASSUME NEW j \in 1..((i + 1) - 1) PROVE acks[j].order # o
    <3>1. CASE j = 1
      BY <1>1, <3>1
    <3>2. CASE j # 1
      <4>1. j - 1 \in 1..(i - 1) /\ j - 1 \in 1..Len(acks') /\ (j - 1) + 1 = j
        BY <1>1, <3>2
      <4> QED BY <1>1, <1>3, <4>1
    <3> QED BY <3>1, <3>2
  <2> QED BY <2>1, <2>2 DEF WayInv
<1> QED BY <1>2, <1>3 DEF WayInv, IsFirst, NotIn

\* The engine answers: a further answer to an order is behind the first.
LEMMA WayAnswer ==
  ASSUME WireInv, NEW o \in Order, WayInv(o), answers \in [Order -> Seq(Status)],
         NEW x \in Order, NEW a \in Status, EngineAnswers(x, a)
  PROVE  WayInv(o)'
<1> DEFINE new == [order |-> x, status |-> a]
<1>1. /\ in \in Seq(Answer) /\ in' = Append(in, new) /\ new \in Answer
      /\ answers' = [answers EXCEPT ![x] = Append(answers[x], a)]
      /\ conn = "open" /\ x \in got /\ UNCHANGED <<acks, held, conn, got>>
  BY DEF WireInv, EngineAnswers, readVars, Answer
<1>2. new.order = x /\ new.status = a
  OBVIOUS
<1> HIDE DEF new
<1>3. /\ Len(in) \in Nat /\ Len(in') = Len(in) + 1 /\ in'[Len(in) + 1] = new
      /\ \A i \in 1..Len(in) : in'[i] = in[i]
  BY <1>1
<1>4. /\ \A i \in 1..Len(in') : i \in 1..Len(in) \/ i = Len(in) + 1
      /\ Len(in) + 1 \in 1..Len(in') /\ \A i \in 1..Len(in) : i \in 1..Len(in')
  BY <1>3
<1>5. NotIn(o)' <=> NotIn(o) /\ x # o
  BY <1>2, <1>3, <1>4 DEF NotIn
<1>6. NotInAcks(o)' <=> NotInAcks(o)
  BY <1>1 DEF NotInAcks
<1>7. CASE x # o
  <2>1. answers'[o] = answers[o]
    BY <1>1, <1>7
  <2>2. ASSUME NotInAcks(o), held.order # o, NEW i \in 1..Len(in'),
               \A j \in 1..(i - 1) : in'[j].order # o
        PROVE  IsFirst(in[i], o)'
    <3>1. CASE i \in 1..Len(in)
      <4>1. \A j \in 1..(i - 1) : in[j].order # o
        <5>1. \A j \in 1..(i - 1) : j \in 1..Len(in)
          BY <1>3, <3>1
        <5> QED BY <1>3, <2>2, <5>1
      <4> QED BY <1>3, <2>1, <2>2, <3>1, <4>1 DEF WayInv, IsFirst
    <3>2. CASE i = Len(in) + 1
      BY <1>2, <1>3, <1>7, <3>2 DEF IsFirst
    <3> QED BY <1>4, <3>1, <3>2
  <2> QED BY <1>1, <1>5, <1>6, <1>7, <2>1, <2>2 DEF WayInv, IsFirst
<1>8. CASE x = o
  <2>1. /\ answers'[o] # <<>>
        /\ answers[o] = <<>> => answers'[o][1] = a
        /\ answers[o] # <<>> => answers'[o][1] = answers[o][1]
    <3>1. answers[o] \in Seq(Status) /\ answers'[o] = Append(answers[o], a)
      BY <1>1, <1>8
    <3> QED BY <3>1
  <2>2. answers[o] = <<>> => NotInAcks(o) /\ held.order # o /\ NotIn(o)
    BY DEF WayInv
  <2>3. ASSUME NotInAcks(o), held.order # o, NEW i \in 1..Len(in'),
               \A j \in 1..(i - 1) : in'[j].order # o
        PROVE  IsFirst(in[i], o)'
    <3>1. CASE i \in 1..Len(in)
      <4>1. \A j \in 1..(i - 1) : in[j].order # o
        <5>1. \A j \in 1..(i - 1) : j \in 1..Len(in)
          BY <1>3, <3>1
        <5> QED BY <1>3, <2>3, <5>1
      <4>2. IsFirst(in[i], o)
        BY <2>3, <3>1, <4>1 DEF WayInv
      <4> QED BY <1>3, <2>1, <3>1, <4>2 DEF IsFirst
    <3>2. CASE i = Len(in) + 1
      <4>1. NotIn(o)
        BY <1>3, <2>3, <3>2 DEF NotIn
      <4>2. answers[o] = <<>>
        BY <1>1, <2>3, <4>1 DEF WayInv
      <4> QED BY <1>2, <1>3, <2>1, <3>2, <4>2 DEF IsFirst
    <3> QED BY <1>4, <3>1, <3>2
  <2>4. ASSUME NEW i \in 1..Len(acks), \A j \in 1..(i - 1) : acks[j].order # o
        PROVE  IsFirst(acks[i], o)'
    BY <2>1, <2>2, <2>4, <1>1 DEF WayInv, IsFirst, NotInAcks
  <2>5. NotInAcks(o) => IsFirst(held, o)'
    BY <1>1, <2>1, <2>2 DEF WayInv, IsFirst
  <2> QED BY <1>1, <1>5, <1>6, <1>8, <2>1, <2>3, <2>4, <2>5 DEF WayInv, IsFirst
<1> QED BY <1>7, <1>8

LEMMA WireStep == AnswerInv /\ [Next]_vars => WireInv'
<1> SUFFICES ASSUME AnswerInv, [Next]_vars PROVE WireInv'
  OBVIOUS
<1>1. /\ WireInv /\ BookInv /\ orders \in Nat /\ orders \in 0..MaxOrders
  BY BotAssumption DEF AnswerInv, LifeInv
<1> USE DEF WireInv
<1>2. CASE UNCHANGED vars
  BY <1>1, <1>2 DEF vars, botVars, readVars, netVars
<1>3. CASE Start \/ Spawn \/ Stop
  BY <1>1, <1>3 DEF Start, Spawn, Stop, readVars, netVars
<1>4. CASE Dial
  <2>1. orders = 0
    BY <1>1, <1>4 DEF Dial, BookInv
  <2> QED BY <1>1, <1>4 DEF Dial
<1>5. CASE SelectDone
  BY <1>1, <1>5 DEF SelectDone, Return, readVars
<1>6. CASE SelectAck
  <2>1. Tail(acks) \in Seq(Answer)
    BY <1>1, <1>6 DEF SelectAck
  <2> QED BY <1>1, <1>6, <2>1 DEF SelectAck, netVars
<1>7. CASE SelectTick
  <2>1. orders' = orders + 1 /\ UNCHANGED <<readVars, netVars, pending>> /\ pc = "select" /\ pc' = "write"
    BY <1>7 DEF SelectTick
  <2>2. got \subseteq 1..orders' /\ orders' \notin got
    BY <1>1, <2>1
  <2>3. ASSUME NEW i \in 1..Len(out) PROVE out[i] <= orders' /\ out[i] # orders'
    <3>1. out[i] \in Order /\ out[i] <= orders
      BY <1>1
    <3>2. out[i] \in Nat
      BY <3>1 DEF Order
    <3> QED BY <1>1, <2>1, <3>1, <3>2
  <2> QED BY <1>1, <2>1, <2>2, <2>3 DEF readVars, netVars
<1>8. CASE Write
  <2>1. CASE conn = "open" /\ out' = Append(out, orders) /\ pc' = "book" /\ UNCHANGED conn
    <3>1. orders \in Order
      BY <1>1, <1>8, BotAssumption DEF Write, Order, BookInv
    <3>2. out' \in Seq(Order) /\ \A i \in 1..Len(out') : out'[i] <= orders
      BY <1>1, <2>1, <3>1
    <3> QED BY <1>1, <1>8, <2>1, <3>2 DEF Write, readVars
  <2>2. CASE UNCHANGED out
    BY <1>1, <1>8, <2>2 DEF Write, Return, readVars
  <2> QED BY <1>8, <2>1, <2>2 DEF Write
<1>9. CASE Book
  BY <1>1, <1>9 DEF Book, readVars, netVars
<1>10. CASE RestLoop
  <2>1. UNCHANGED <<readVars, netVars, pending>> /\ pc = "rest" /\ pc' \in {"done", "post"}
        /\ (orders' = orders \/ orders' = orders + 1)
    BY <1>10 DEF RestLoop
  <2>2. got \subseteq 1..orders'
    BY <1>1, <2>1
  <2>3. \A i \in 1..Len(out) : out[i] <= orders'
    <3>1. \A i \in 1..Len(out) : out[i] \in Order
      BY <1>1
    <3>2. Order \subseteq Nat
      BY DEF Order
    <3> QED BY <1>1, <2>1, <3>1, <3>2
  <2> QED BY <1>1, <2>1, <2>2, <2>3 DEF readVars, netVars
<1>11. CASE Post
  <2>1. got' \subseteq got \cup {orders} /\ orders \in 1..orders
    BY <1>1, <1>11 DEF Post, BookInv
  <2> QED BY <1>1, <1>11, <2>1 DEF Post, readVars
<1>12. CASE ReadMessage
  <2>1. Head(in) \in Answer /\ Tail(in) \in Seq(Answer)
    BY <1>1, <1>12 DEF ReadMessage
  <2>2. \A a \in Answer : a # NoAnswer
    BY NoAnswerToNothing DEF Answer
  <2> QED BY <1>1, <1>12, <2>1, <2>2 DEF ReadMessage, botVars
<1>13. CASE ReadError
  BY <1>1, <1>13 DEF ReadError, botVars, netVars
<1>14. CASE PushAck
  <2>1. held \in Answer /\ Append(acks, held) \in Seq(Answer)
    BY <1>1, <1>14 DEF PushAck
  <2> QED BY <1>1, <1>14, <2>1 DEF PushAck, botVars, netVars
<1>15. CASE EngineReads
  <2>1. out \in Seq(Order) /\ out # <<>> /\ Len(out) \in Nat /\ Len(out) > 0
    BY <1>1, <1>15 DEF EngineReads
  <2>2. /\ Head(out) = out[1] /\ 1 \in 1..Len(out) /\ out[1] \in Order
        /\ out' \in Seq(Order) /\ \A i \in 1..Len(out') : i + 1 \in 1..Len(out) /\ out'[i] = out[i + 1]
    BY <1>15, <2>1 DEF EngineReads
  <2>3. got' \subseteq 1..orders
    <3>1. got' = got \cup {out[1]}
      BY <1>15, <2>2 DEF EngineReads
    <3>2. out[1] \in 1..orders
      BY <1>1, <2>2 DEF Order
    <3> QED BY <1>1, <3>1, <3>2
  <2>4. \A i \in 1..Len(out') : out'[i] <= orders /\ (pc = "write" => out'[i] # orders)
    BY <1>1, <2>2
  <2>5. pc = "write" => orders \notin got'
    BY <1>1, <1>15, <2>2 DEF EngineReads
  <2> QED BY <1>1, <1>15, <2>2, <2>3, <2>4, <2>5 DEF EngineReads, botVars, readVars
<1>16. CASE Breaks
  BY <1>1, <1>16 DEF Breaks, botVars, readVars
<1>17. ASSUME NEW o \in got, NEW a \in Status, EngineAnswers(o, a) PROVE WireInv'
  <2>1. o \in Order
    BY <1>1, BotAssumption DEF Order
  <2>2. Append(in, [order |-> o, status |-> a]) \in Seq(Answer)
    BY <1>1, <2>1 DEF Answer
  <2> QED BY <1>1, <1>17, <2>2 DEF EngineAnswers, botVars, readVars
<1> QED BY <1>2, <1>3, <1>4, <1>5, <1>6, <1>7, <1>8, <1>9, <1>10, <1>11, <1>12, <1>13, <1>14,
           <1>15, <1>16, <1>17 DEF Next, Loop, Reader, Engine

-----------------------------------------------------------------------------
(* The report of an order is the first answer to it.                       *)

LEMMA ReportKept ==
  ASSUME NEW o \in Order, ReportOf(o), UNCHANGED <<acks, held, in>>,
         reported'[o] = reported[o], answers'[o] = answers[o], got \subseteq got',
         conn' = "none" <=> conn = "none", conn' = "open" => conn = "open"
  PROVE  ReportOf(o)'
<1>1. WayInv(o) => WayInv(o)'
  BY WaySame
<1> QED BY <1>1 DEF ReportOf

\* Nothing is known of an order before the dial.
LEMMA ReportDial ==
  ASSUME AnswerInv, Dial, NEW o \in Order, ReportOf(o)
  PROVE  ReportOf(o)'
<1>1. orders = 0 /\ conn = "none" /\ Reported = {}
  BY DEF AnswerInv, BookInv, WireInv, Dial
<1>2. reported[o] = <<>> /\ answers[o] = <<>>
  BY <1>1 DEF Reported, ReportOf
<1>3. UNCHANGED <<acks, held, in, answers, got, reported>>
  BY DEF Dial
<1>4. WayInv(o)'
  BY <1>2, <1>3, WaySame DEF ReportOf
<1> QED BY <1>2, <1>3, <1>4 DEF ReportOf

\* An answer to an order that has been sent and not reported is to a pending one.
LEMMA ReportSelect ==
  ASSUME AnswerInv, SelectAck, NEW o \in Order, ReportOf(o)
  PROVE  ReportOf(o)'
<1> DEFINE a == Head(acks)
<1>1. /\ acks \in Seq(Answer) /\ acks # <<>> /\ acks' = Tail(acks) /\ pc = "select"
      /\ reported \in [Order -> Seq(Status \cup {"ERROR"})]
      /\ reported' = IF a.order \in pending
                       THEN [reported EXCEPT ![a.order] = Append(reported[a.order], a.status)]
                       ELSE reported
      /\ UNCHANGED <<held, in, answers, conn, got>>
  BY DEF AnswerInv, WireInv, ReportInv, SelectAck, netVars
<1>2. a \in Answer /\ a = acks[1] /\ 1 \in 1..Len(acks)
  BY <1>1
<1>3. a.order \in Order /\ a.status \in Status
  BY <1>2 DEF Answer
<1> HIDE DEF a
<1>4. CASE a.order # o
  <2>1. reported'[o] = reported[o]
    BY <1>1, <1>4
  <2>2. WayInv(o) => WayInv(o)'
    BY <1>1, <1>4, WaySelect DEF a
  <2> QED BY <1>1, <2>1, <2>2 DEF ReportOf
<1>5. CASE a.order = o /\ reported[o] = <<>>
  <2>1. WayInv(o)
    BY <1>5 DEF ReportOf
  <2>2. answers[o] # <<>> /\ a.status = answers[o][1]
    <3>1. \A j \in 1..(1 - 1) : acks[j].order # o
      OBVIOUS
    <3> QED BY <1>2, <1>5, <2>1, <3>1 DEF WayInv, IsFirst
  <2>3. o \in pending
    <3>1. o \in got
      BY <2>1, <2>2 DEF WayInv
    <3>2. o \in pending \cup Reported
      BY <1>1, <3>1 DEF AnswerInv, WireInv, BookInv
    <3> QED BY <1>5, <3>2 DEF Reported
  <2>4. reported'[o] = Append(<<>>, a.status)
    BY <1>1, <1>5, <2>3
  <2>5. reported'[o] # <<>> /\ Len(reported'[o]) = 1 /\ reported'[o][1] = a.status
    BY <2>4
  <2> QED BY <1>1, <2>1, <2>2, <2>5 DEF ReportOf, WayInv
<1>6. CASE a.order = o /\ reported[o] # <<>>
  <2>1. o \notin pending
    BY <1>6 DEF AnswerInv, BookInv, Reported
  <2> QED BY <1>1, <1>6, <2>1 DEF ReportOf
<1> QED BY <1>4, <1>5, <1>6

\* runREST reports each request itself, once.
LEMMA ReportPost ==
  ASSUME AnswerInv, Post, NEW o \in Order, ReportOf(o)
  PROVE  ReportOf(o)'
<1>1. /\ pc = "post" /\ conn = "none" /\ got \subseteq got' /\ UNCHANGED <<acks, held, in, conn>>
      /\ reported \in [Order -> Seq(Status \cup {"ERROR"})] /\ answers \in [Order -> Seq(Status)]
  BY DEF AnswerInv, WireInv, ReportInv, Post, readVars
<1>2. CASE o # orders
  <2>1. reported'[o] = reported[o] /\ answers'[o] = answers[o]
    BY <1>1, <1>2 DEF Post
  <2> QED BY <1>1, <2>1, ReportKept
<1>3. CASE o = orders /\ UNCHANGED <<reported, answers>>
  BY <1>1, <1>3, ReportKept
<1>4. CASE o = orders /\ ~UNCHANGED <<reported, answers>>
  <2>1. o \notin Reported
    BY <1>1, <1>4 DEF AnswerInv, BookInv, LifeInv
  <2>2. reported[o] = <<>> /\ answers[o] = <<>>
    BY <1>1, <2>1 DEF Reported, ReportOf
  <2>3. \/ /\ reported'[o] = Append(<<>>, "ERROR") /\ answers'[o] = <<>>
        \/ /\ o \in got'
           /\ \E a \in Status : answers'[o] = Append(<<>>, a) /\ reported'[o] = Append(<<>>, a)
    BY <1>1, <1>4, <2>2 DEF Post
  <2>4. ASSUME NEW a \in Status \cup {"ERROR"}
        PROVE  Append(<<>>, a) # <<>> /\ Len(Append(<<>>, a)) = 1 /\ Append(<<>>, a)[1] = a
    <3>1. <<>> \in Seq(Status \cup {"ERROR"})
      OBVIOUS
    <3> QED BY <3>1
  <2>5. CASE reported'[o] = Append(<<>>, "ERROR") /\ answers'[o] = <<>>
    BY <1>1, <2>4, <2>5 DEF ReportOf
  <2>6. ASSUME o \in got', NEW a \in Status, answers'[o] = Append(<<>>, a),
               reported'[o] = Append(<<>>, a)
        PROVE  ReportOf(o)'
    BY <2>4, <2>6 DEF ReportOf
  <2> QED BY <2>3, <2>5, <2>6
<1> QED BY <1>2, <1>3, <1>4

LEMMA ReportAnswer ==
  ASSUME AnswerInv, NEW o \in Order, ReportOf(o), NEW x \in Order, NEW a \in Status,
         EngineAnswers(x, a)
  PROVE  ReportOf(o)'
<1>1. /\ answers \in [Order -> Seq(Status)] /\ conn = "open" /\ x \in got
      /\ answers' = [answers EXCEPT ![x] = Append(answers[x], a)]
      /\ UNCHANGED <<conn, got, reported>>
  BY DEF AnswerInv, ReportInv, EngineAnswers
<1>2. WayInv(o) => WayInv(o)'
  BY <1>1, WayAnswer DEF AnswerInv
<1>3. /\ answers[o] # <<>> => answers'[o] # <<>> /\ answers'[o][1] = answers[o][1]
      /\ x # o => answers'[o] = answers[o]
  <2>1. answers[o] \in Seq(Status) /\ answers'[o] = IF x = o THEN Append(answers[o], a) ELSE answers[o]
    BY <1>1
  <2> QED BY <2>1
<1> QED BY <1>1, <1>2, <1>3 DEF ReportOf

LEMMA ReportTypes == AnswerInv /\ [Next]_vars =>
                       /\ (reported \in [Order -> Seq(Status \cup {"ERROR"})])'
                       /\ (answers \in [Order -> Seq(Status)])'
<1> SUFFICES ASSUME AnswerInv, [Next]_vars
             PROVE  /\ reported' \in [Order -> Seq(Status \cup {"ERROR"})]
                    /\ answers' \in [Order -> Seq(Status)]
  OBVIOUS
<1>1. reported \in [Order -> Seq(Status \cup {"ERROR"})] /\ answers \in [Order -> Seq(Status)]
  BY DEF AnswerInv, ReportInv
<1>2. ASSUME NEW o \in Order, NEW a \in Status \cup {"ERROR"}
      PROVE  [reported EXCEPT ![o] = Append(reported[o], a)] \in [Order -> Seq(Status \cup {"ERROR"})]
  BY <1>1
<1>3. ASSUME NEW o \in Order, NEW a \in Status
      PROVE  [answers EXCEPT ![o] = Append(answers[o], a)] \in [Order -> Seq(Status)]
  BY <1>1
<1>4. CASE SelectAck
  <2>1. acks \in Seq(Answer) /\ acks # <<>> /\ UNCHANGED answers
    BY <1>4 DEF AnswerInv, WireInv, SelectAck, netVars
  <2>2. Head(acks) \in Answer
    BY <2>1
  <2>3. Head(acks).order \in Order /\ Head(acks).status \in Status \cup {"ERROR"}
    BY <2>2 DEF Answer
  <2> QED BY <1>1, <1>2, <1>4, <2>1, <2>3 DEF SelectAck
<1>5. CASE Post /\ ~UNCHANGED <<reported, answers>>
  <2>1. orders \in Order
    BY <1>5, BotAssumption DEF AnswerInv, LifeInv, BookInv, Post, Order
  <2>2. PICK a \in Status \cup {"ERROR"} :
          reported' = [reported EXCEPT ![orders] = Append(reported[orders], a)]
    BY <1>5 DEF Post
  <2>3. \/ answers' = answers
        \/ \E b \in Status : answers' = [answers EXCEPT ![orders] = Append(answers[orders], b)]
    BY <1>5 DEF Post
  <2>4. reported' \in [Order -> Seq(Status \cup {"ERROR"})]
    BY <1>2, <2>1, <2>2
  <2>5. answers' \in [Order -> Seq(Status)]
    BY <1>1, <1>3, <2>1, <2>3
  <2> QED BY <2>4, <2>5
<1>6. CASE \E o \in got, a \in Status : EngineAnswers(o, a)
  <2>1. got \subseteq Order
    BY BotAssumption DEF AnswerInv, LifeInv, WireInv, Order
  <2> QED BY <1>1, <1>3, <1>6, <2>1 DEF EngineAnswers
<1>7. CASE UNCHANGED <<reported, answers>>
  BY <1>1, <1>7
<1> QED BY <1>4, <1>5, <1>6, <1>7
        DEF Next, Loop, Reader, Engine, Start, Spawn, Stop, Dial, SelectTick, Write, Book, RestLoop,
            SelectDone, ReadMessage, ReadError, PushAck, EngineReads, Breaks, vars, botVars,
            readVars, netVars

LEMMA ReportStep == AnswerInv /\ [Next]_vars => ReportInv'
<1> SUFFICES ASSUME AnswerInv, [Next]_vars PROVE ReportInv'
  OBVIOUS
<1>1. WireInv /\ \A o \in Order : ReportOf(o)
  BY DEF AnswerInv, ReportInv
<1>2. ASSUME NEW o \in Order PROVE ReportOf(o)'
  <2>1. ReportOf(o)
    BY <1>1
  <2>2. CASE Dial
    BY <2>1, <2>2, ReportDial
  <2>3. CASE SelectAck
    BY <2>1, <2>3, ReportSelect
  <2>4. CASE Post
    BY <2>1, <2>4, ReportPost
  <2>5. CASE ReadMessage
    <3>1. WayInv(o) => WayInv(o)'
      BY <1>1, <2>5, WayRead
    <3>2. UNCHANGED <<reported, answers, conn, got>>
      BY <2>5 DEF ReadMessage
    <3> QED BY <2>1, <3>1, <3>2 DEF ReportOf
  <2>6. CASE PushAck
    <3>1. WayInv(o) => WayInv(o)'
      BY <1>1, <2>6, WayPush
    <3>2. UNCHANGED <<reported, answers, conn, got>>
      BY <2>6 DEF PushAck, netVars
    <3> QED BY <2>1, <3>1, <3>2 DEF ReportOf
  <2>7. CASE \E x \in got, a \in Status : EngineAnswers(x, a)
    <3>1. got \subseteq Order
      BY BotAssumption DEF AnswerInv, LifeInv, WireInv, Order
    <3> QED BY <2>1, <2>7, <3>1, ReportAnswer
  <2>8. CASE Write \/ SelectDone
    <3>1. /\ UNCHANGED <<acks, held, in, answers, got, reported>>
          /\ conn' = conn \/ (conn # "none" /\ conn' = "closed") \/ (conn = "none" /\ conn' = "none")
      BY <2>8 DEF Write, SelectDone, Return, readVars
    <3> QED BY <2>1, <3>1, ReportKept
  <2>9. CASE EngineReads \/ Breaks
    <3>1. /\ UNCHANGED <<acks, held, in, answers, reported>> /\ got \subseteq got'
          /\ conn' = conn \/ (conn = "open" /\ conn' = "broken")
      BY <2>9 DEF EngineReads, Breaks, readVars
    <3> QED BY <2>1, <3>1, ReportKept
  <2>10. CASE Start \/ Spawn \/ Stop \/ SelectTick \/ Book \/ RestLoop \/ ReadError \/ UNCHANGED vars
    <3>1. UNCHANGED <<acks, held, in, answers, got, conn, reported>>
      BY <2>10 DEF Start, Spawn, Stop, SelectTick, Book, RestLoop, ReadError, vars, readVars, netVars
    <3> QED BY <2>1, <3>1, ReportKept
  <2> QED BY <2>2, <2>3, <2>4, <2>5, <2>6, <2>7, <2>8, <2>9, <2>10 DEF Next, Loop, Reader, Engine
<1> QED BY <1>2, ReportTypes DEF ReportInv

\* A bot never loses an answer while its connection stands, and reports to the telemetry
\* the engine's first answer to each order, once.
THEOREM AnswersAreAccounted == Spec => []AnswersAccounted
<1>1. AnswerInv /\ [Next]_vars => AnswerInv'
  BY LifeStep, BookStep, WireStep, ReportStep DEF AnswerInv
<1>2. AnswerInv => AnswersAccounted
  <2> SUFFICES ASSUME AnswerInv PROVE AnswersAccounted
    OBVIOUS
  <2>1. sent = Cardinality(pending) + Cardinality(Reported)
    <3>1. pending \cap Reported = {} /\ pending \cup Reported \subseteq 1..orders /\ orders \in Int
          /\ sent = Cardinality(pending \cup Reported)
      BY BotAssumption DEF AnswerInv, BookInv, LifeInv
    <3>2. IsFiniteSet(1..orders)
      BY <3>1, FS_Interval, 1 \in Int
    <3>3. IsFiniteSet(pending) /\ IsFiniteSet(Reported)
      BY <3>1, <3>2, FS_Subset
    <3>4. Cardinality(pending \cap Reported) = 0
      BY <3>1, FS_EmptySet
    <3>5. Cardinality(pending \cup Reported)
            = Cardinality(pending) + Cardinality(Reported) - Cardinality(pending \cap Reported)
      BY <3>3, FS_Union
    <3>6. Cardinality(pending) \in Nat /\ Cardinality(Reported) \in Nat
      BY <3>3, FS_CardinalityType
    <3> QED BY <3>1, <3>4, <3>5, <3>6
  <2>2. ASSUME NEW o \in Order
        PROVE  /\ Len(reported[o]) <= 1
               /\ reported[o] # <<>> =>
                    /\ o \notin pending
                    /\ \/ conn = "none" /\ reported[o][1] = "ERROR"
                       \/ answers[o] # <<>> /\ reported[o][1] = answers[o][1]
    <3>1. CASE reported[o] = <<>>
      <4>1. Len(<<>>) = 0
        OBVIOUS
      <4>2. Len(reported[o]) <= 1
        BY <3>1, <4>1
      <4> QED BY <3>1, <4>2
    <3>2. CASE reported[o] # <<>>
      <4>1. o \notin pending
        BY <3>2 DEF AnswerInv, BookInv, Reported
      <4>2. ReportOf(o)
        BY DEF AnswerInv, ReportInv
      <4>3. Len(reported[o]) = 1
        BY <3>2, <4>2 DEF ReportOf
      <4>4. Len(reported[o]) <= 1
        BY <4>3
      <4> QED BY <3>2, <4>1, <4>2, <4>4 DEF ReportOf
    <3> QED BY <3>1, <3>2
  <2>3. ASSUME NEW o \in Order, answers[o] # <<>>, reported[o] = <<>>, conn = "open"
        PROVE  Coming(o)
    <3>1. ~(NotInAcks(o) /\ held.order # o /\ NotIn(o))
      BY <2>3 DEF AnswerInv, ReportInv, ReportOf, WayInv
    <3>2. CASE ~NotInAcks(o)
      BY <3>2 DEF NotInAcks, Coming, ToSet
    <3>3. CASE held.order = o
      BY <3>3 DEF Coming
    <3>4. CASE ~NotIn(o)
      BY <3>4 DEF NotIn, Coming, ToSet
    <3> QED BY <3>1, <3>2, <3>3, <3>4
  <2> QED BY <2>1, <2>2, <2>3 DEF AnswersAccounted, Reported
<1> QED BY <1>1, <1>2, AnswerInit, PTL DEF Spec
=============================================================================
