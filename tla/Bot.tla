-------------------------------- MODULE Bot --------------------------------
(***************************************************************************)
(* One bot of the bot-worker (Bot.Run in services/bot-worker/main.go): the *)
(* goroutine of runWS or runREST, the goroutine that reads the WebSocket,  *)
(* and the contestant's engine at the other end of the connection.         *)
(*                                                                         *)
(* An order is the number of its generation.  The connection is two        *)
(* bounded queues; WriteMessage has no deadline and waits for room.  The   *)
(* bot's life as BotWorker sees it, from START to its return, is a         *)
(* refinement of that module.  Left out as data: prices, sides, latencies, *)
(* think times.                                                            *)
(***************************************************************************)
EXTENDS Naturals, Sequences, FiniteSets, SequencesExt

CONSTANTS
  Endpoints,    \* endpoint types of the session, among "WebSocket" and "REST"
  MaxOrders,    \* bound on the orders the bot generates
  MaxAnswers,   \* bound on the engine's answers to one order
  AckCap,       \* capacity of acks (512 in the code)
  NetCap        \* messages that fit into one direction of the connection

ASSUME BotAssumption ==
  /\ Endpoints \subseteq {"WebSocket", "REST"}
  /\ MaxOrders \in Nat /\ MaxAnswers \in Nat
  /\ AckCap \in Nat \ {0} /\ NetCap \in Nat \ {0}

VARIABLES
  endpoint,    \* b.endpointType
  cancelled,   \* ctx is done
  active,      \* the bot is in w.activeBots
  pc,          \* where the bot's goroutine is
  orders,      \* orders generated
  sent,        \* b.ordersSent
  pending,     \* orders waiting for an answer
  acks,        \* the channel acks
  reader,      \* the read goroutine
  held,        \* the answer it holds, 0 if none
  conn,        \* the connection
  out, in,     \* messages on their way to the engine and back
  got,         \* orders the engine has received
  answers,     \* history: statuses the engine has sent back for each order
  reported     \* history: event types emitted for each order

botVars == <<endpoint, cancelled, active, pc, orders, sent, pending>>
readVars == <<acks, reader, held>>
netVars == <<conn, out, in, got, answers>>
vars == <<botVars, readVars, netVars, reported>>

Order == 1..MaxOrders

Status == {"ACK", "FILL"}

Answer == [order : Order, status : Status]

NoAnswer == [order |-> 0, status |-> "none"]

PC == {"none", "spawning", "dial", "select", "write", "book", "rest", "post", "done"}

TypeOK ==
  /\ endpoint \in Endpoints
  /\ cancelled \in BOOLEAN
  /\ active \in BOOLEAN
  /\ pc \in PC
  /\ orders \in 0..MaxOrders
  /\ sent \in 0..orders
  /\ pending \subseteq 1..orders
  /\ acks \in Seq(Answer) /\ Len(acks) <= AckCap
  /\ reader \in {"none", "reading", "holding", "ended"}
  /\ held \in Answer \cup {NoAnswer} /\ (held # NoAnswer <=> reader = "holding")
  /\ conn \in {"none", "open", "broken", "closed"}
  /\ conn = "none" <=> reader = "none"
  /\ out \in Seq(1..orders) /\ Len(out) <= NetCap
  /\ in \in Seq(Answer) /\ Len(in) <= NetCap
  /\ got \subseteq 1..orders
  /\ answers \in [Order -> Seq(Status)]
  /\ reported \in [Order -> Seq(Status \cup {"ERROR"})]

Init ==
  /\ endpoint \in Endpoints
  /\ cancelled = FALSE
  /\ active = FALSE
  /\ pc = "none"
  /\ orders = 0
  /\ sent = 0
  /\ pending = {}
  /\ acks = <<>>
  /\ reader = "none"
  /\ held = NoAnswer
  /\ conn = "none"
  /\ out = <<>>
  /\ in = <<>>
  /\ got = {}
  /\ answers = [o \in Order |-> <<>>]
  /\ reported = [o \in Order |-> <<>>]

-----------------------------------------------------------------------------
(* The worker: START, SpawnBots, STOP.                                     *)

Start ==
  /\ pc = "none"
  /\ pc' = "spawning"
  /\ UNCHANGED <<endpoint, cancelled, active, orders, sent, pending, readVars, netVars, reported>>

Spawn ==
  /\ pc = "spawning"
  /\ pc' = IF endpoint = "WebSocket" THEN "dial" ELSE "rest"
  /\ active' = TRUE
  /\ UNCHANGED <<endpoint, cancelled, orders, sent, pending, readVars, netVars, reported>>

\* Defect: the bot is struck off, but its context is not cancelled.
StopForgets ==
  /\ pc # "none"
  /\ active' = FALSE
  /\ UNCHANGED <<endpoint, cancelled, pc, orders, sent, pending, readVars, netVars, reported>>

Stop ==
  /\ pc # "none"
  /\ cancelled' = TRUE
  /\ active' = FALSE
  /\ UNCHANGED <<endpoint, pc, orders, sent, pending, readVars, netVars, reported>>

-----------------------------------------------------------------------------
(* runWS.                                                                  *)

\* The dial succeeds and the read goroutine starts, or the bot falls back to REST.
Dial ==
  /\ pc = "dial"
  /\ \/ ~cancelled /\ pc' = "select" /\ conn' = "open" /\ reader' = "reading"
     \/ pc' = "rest" /\ UNCHANGED <<conn, reader>>
  /\ UNCHANGED <<endpoint, cancelled, active, orders, sent, pending, acks, held,
                 out, in, got, answers, reported>>

\* Defect: the connection is left open.
ReturnOpen ==
  /\ pc' = "done"
  /\ UNCHANGED conn

\* return, with the deferred conn.Close().
Return ==
  /\ pc' = "done"
  /\ conn' = IF conn = "none" THEN "none" ELSE "closed"

\* select sees ctx.Done().
SelectDone ==
  /\ pc = "select"
  /\ cancelled
  /\ Return
  /\ UNCHANGED <<endpoint, cancelled, active, orders, sent, pending, readVars,
                 out, in, got, answers, reported>>

\* select takes an answer: the first one to a pending order is reported.
SelectAck ==
  /\ pc = "select"
  /\ acks # <<>>
  /\ acks' = Tail(acks)
  /\ LET a == Head(acks)
     IN  /\ reported' = IF a.order \in pending
                          THEN [reported EXCEPT ![a.order] = Append(@, a.status)] ELSE reported
         /\ pending' = pending \ {a.order}
  /\ UNCHANGED <<endpoint, cancelled, active, pc, orders, sent, reader, held, netVars>>

\* select sees the ticker: an order is generated and written.
SelectTick ==
  /\ pc = "select"
  /\ orders < MaxOrders
  /\ orders' = orders + 1
  /\ pc' = "write"
  /\ UNCHANGED <<endpoint, cancelled, active, sent, pending, readVars, netVars, reported>>

\* WriteMessage returns when there was room; on a broken connection it may succeed
\* once more, into the void, or fail, which ends the bot.
Write ==
  /\ pc = "write"
  /\ \/ /\ conn = "open" /\ Len(out) < NetCap
        /\ out' = Append(out, orders) /\ pc' = "book" /\ UNCHANGED conn
     \/ conn = "broken" /\ pc' = "book" /\ UNCHANGED <<conn, out>>
     \/ conn = "broken" /\ Return /\ UNCHANGED out
  /\ UNCHANGED <<endpoint, cancelled, active, orders, sent, pending, readVars,
                 in, got, answers, reported>>

\* After the write the order becomes pending and is counted.
Book ==
  /\ pc = "book"
  /\ pending' = pending \cup {orders}
  /\ sent' = sent + 1
  /\ pc' = "select"
  /\ UNCHANGED <<endpoint, cancelled, active, orders, readVars, netVars, reported>>

-----------------------------------------------------------------------------
(* The read goroutine.                                                     *)

ReadMessage ==
  /\ reader = "reading"
  /\ conn \in {"open", "broken"}
  /\ in # <<>>
  /\ held' = Head(in)
  /\ in' = Tail(in)
  /\ reader' = "holding"
  /\ UNCHANGED <<botVars, acks, conn, out, got, answers, reported>>

ReadError ==
  /\ reader = "reading"
  /\ conn \in {"broken", "closed"}
  /\ reader' = "ended"
  /\ UNCHANGED <<botVars, acks, held, netVars, reported>>

\* Defect: the read goroutine reports the answer itself, with no regard to whether the
\* order has been booked.
PushAckDirect ==
  /\ reader = "holding"
  /\ reported' = IF held.order \in pending
                   THEN [reported EXCEPT ![held.order] = Append(@, held.status)] ELSE reported
  /\ pending' = pending \ {held.order}
  /\ held' = NoAnswer
  /\ reader' = "reading"
  /\ UNCHANGED <<endpoint, cancelled, active, pc, orders, sent, acks, netVars>>

\* acks <- resp waits for room, for ever if nobody takes from acks any more.
PushAck ==
  /\ reader = "holding"
  /\ Len(acks) < AckCap
  /\ acks' = Append(acks, held)
  /\ held' = NoAnswer
  /\ reader' = "reading"
  /\ UNCHANGED <<botVars, netVars, reported>>

-----------------------------------------------------------------------------
(* runREST.                                                                *)

RestLoop ==
  /\ pc = "rest"
  /\ \/ cancelled /\ pc' = "done" /\ UNCHANGED orders
     \/ ~cancelled /\ orders < MaxOrders /\ orders' = orders + 1 /\ pc' = "post"
  /\ UNCHANGED <<endpoint, cancelled, active, sent, pending, readVars, netVars, reported>>

\* The answer to the request or an error; or no request can be made of the url, and the
\* order counts nowhere.  After a failed dial the url is a ws:// url,
\* and every request an error.  The engine may have received an order that timed out.
Post ==
  /\ pc = "post"
  /\ \/ /\ endpoint = "REST"
        /\ got' = got \cup {orders}
        /\ \E a \in Status :
             /\ answers' = [answers EXCEPT ![orders] = Append(@, a)]
             /\ reported' = [reported EXCEPT ![orders] = Append(@, a)]
        /\ sent' = sent + 1
     \/ /\ endpoint = "REST"
        /\ got' = got \cup {orders}
        /\ reported' = [reported EXCEPT ![orders] = Append(@, "ERROR")]
        /\ UNCHANGED answers
        /\ sent' = sent + 1
     \/ /\ reported' = [reported EXCEPT ![orders] = Append(@, "ERROR")]
        /\ sent' = sent + 1
        /\ UNCHANGED <<got, answers>>
     \/ UNCHANGED <<sent, got, answers, reported>>
  /\ pc' = "rest"
  /\ UNCHANGED <<endpoint, cancelled, active, orders, pending, readVars, conn, out, in>>

-----------------------------------------------------------------------------
(* The engine and the network.                                             *)

EngineReads ==
  /\ conn = "open"
  /\ out # <<>>
  /\ got' = got \cup {Head(out)}
  /\ out' = Tail(out)
  /\ UNCHANGED <<botVars, readVars, conn, in, answers, reported>>

\* The engine answers an order once, more than once, or never.
EngineAnswers(o, a) ==
  /\ conn = "open"
  /\ o \in got
  /\ Len(in) < NetCap
  /\ Len(answers[o]) < MaxAnswers
  /\ in' = Append(in, [order |-> o, status |-> a])
  /\ answers' = [answers EXCEPT ![o] = Append(@, a)]
  /\ UNCHANGED <<botVars, readVars, conn, out, got, reported>>

Breaks ==
  /\ conn = "open"
  /\ conn' = "broken"
  /\ UNCHANGED <<botVars, readVars, out, in, got, answers, reported>>

Loop == Dial \/ SelectAck \/ SelectTick \/ Write \/ Book \/ RestLoop \/ Post
Reader == ReadMessage \/ ReadError \/ PushAck
Engine == EngineReads \/ Breaks \/ \E o \in got, a \in Status : EngineAnswers(o, a)

Next == Start \/ Spawn \/ Stop \/ Loop \/ SelectDone \/ Reader \/ Engine

Spec == Init /\ [][Next]_vars

\* Goroutines go on; select, which chooses among the ready cases at random, sees
\* ctx.Done() in the end.  That the engine reads is assumed: if it does not, no
\* deadline frees a bot from WriteMessage.
Fairness ==
  /\ WF_vars(Spawn) /\ WF_vars(Loop) /\ SF_vars(SelectDone) /\ WF_vars(Reader)
  /\ WF_vars(EngineReads)

FairSpec == Spec /\ Fairness

-----------------------------------------------------------------------------
\* The first answer of each order, on its way from the engine to select.
Coming(o) ==
  \E a \in ToSet(in) \cup {held} \cup ToSet(acks) : a.order = o

\* Every order that was sent is waiting or has been reported once, with the engine's
\* first answer to it (what comes later is not reported).  No answer is lost while
\* the connection stands, not even one that overtakes the booking of its order.
AnswersAccounted ==
  /\ sent = Cardinality(pending) + Cardinality({o \in Order : reported[o] # <<>>})
  /\ \A o \in Order :
       /\ Len(reported[o]) <= 1
       /\ reported[o] # <<>> =>
            /\ o \notin pending
            /\ \/ conn = "none" /\ reported[o][1] = "ERROR"
               \/ answers[o] # <<>> /\ reported[o][1] = answers[o][1]
       /\ answers[o] # <<>> /\ reported[o] = <<>> /\ conn = "open" => Coming(o)

\* A bot that is told to stop returns, and its read goroutine ends too, or is caught for
\* ever on a full channel that nobody reads any more.
BotEnds ==
  cancelled ~>
    /\ pc = "done"
    /\ reader \in {"none", "ended"} \/ (reader = "holding" /\ Len(acks) = AckCap)

-----------------------------------------------------------------------------
(* What BotWorker says of a bot.                                           *)

Life ==
  CASE pc \in {"none", "spawning"} -> pc
    [] pc = "done" -> "gone"
    [] OTHER -> "live"

Started == pc # "none"

W == INSTANCE BotWorker WITH
  Session <- {"session"}, Worker <- {"worker"}, Run <- {"run"},
  BotCounts <- {1}, DefaultBots <- 1, MaxSent <- MaxOrders,
  Reporting <- {}, Stalling <- {"run"},
  NoSession <- "none", NoRun <- "none",
  alive <- {"worker"},
  curSession <- [w \in {"worker"} |-> IF Started /\ ~cancelled THEN "session" ELSE "none"],
  ctx <- [w \in {"worker"} |-> IF Started /\ ~cancelled THEN "run" ELSE "none"],
  batch <- [w \in {"worker"} |-> [n \in {"run"} |->
    [st |-> Life, sid |-> IF Started THEN "session" ELSE "none",
     size |-> IF Started THEN 1 ELSE 0, cancelled |-> cancelled, sent |-> sent]]],
  active <- [w \in {"worker"} |-> IF active THEN {"run"} ELSE {}],
  hb <- [w \in {"worker"} |-> [pc |-> "idle", sid |-> "none", total |-> 0]]

\* A bot does nothing but what the batches of BotWorker do: it starts once, counts each
\* order once, and returns because it was told to or because its connection failed.
ImplementsWorker == W!WorkerInit /\ [][W!WorkerNext]_(W!bwVars)
=============================================================================
