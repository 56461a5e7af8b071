----------------------------- MODULE OrderBook -----------------------------
(***************************************************************************)
(* The mirror of the order book that the telemetry-service keeps for each  *)
(* session, and the Validator that judges fills with it.                   *)
(*                                                                         *)
(* Consumer.Run is the only caller, so events are handled one at a time.   *)
(* They may repeat (Kafka redelivers) and come in any order, but an order  *)
(* id always stands for the same side, type and price.                     *)
(***************************************************************************)
EXTENDS Naturals, Sequences, FiniteSets, Functions

CONSTANTS
  Order,      \* order ids
  Price,      \* prices of orders and fills, positive, in a unit as fine as need be
  Tolerance,  \* how far a fill may be off the best price (0.001 in the code)
  NoAsk,      \* math.MaxFloat64, what BestAsk returns for an empty side
  MaxAcks     \* bound on the acknowledgements the book has taken

ASSUME OrderBookAssumption ==
  /\ Price \subseteq Nat \ {0}
  /\ Tolerance \in Nat
  /\ NoAsk \in Nat /\ \A p \in Price : p < NoAsk
  /\ MaxAcks \in Nat

VARIABLES
  order,     \* side, type and price of each order, as the bot generated it
  bids,      \* price levels, best (highest) first
  asks,      \* price levels, best (lowest) first
  orderIndex,\* ids of the orders that count as live
  acks,      \* number of orders added so far
  flagged    \* Violation of the last event, as far as prices decide it

bookVars == <<order, bids, asks, orderIndex, acks, flagged>>

OrderRec == [side : {"B", "S"}, type : {"L", "M"}, price : Price]

Level == [price : Price, orders : Seq(Order)]

\* p ranks before q among the bids, or the asks.
Better(side, p, q) == IF side = "B" THEN p > q ELSE p < q

Sorted(levels, side) ==
  \A i, j \in 1..Len(levels) : i < j => Better(side, levels[i].price, levels[j].price)

\* Levels are kept best first, one for each price.
TypeOK ==
  /\ order \in [Order -> OrderRec]
  /\ bids \in Seq(Level) /\ Sorted(bids, "B")
  /\ asks \in Seq(Level) /\ Sorted(asks, "S")
  /\ orderIndex \subseteq Order
  /\ acks \in 0..MaxAcks
  /\ flagged \in BOOLEAN

Init ==
  /\ order \in [Order -> OrderRec]
  /\ bids = <<>>
  /\ asks = <<>>
  /\ orderIndex = {}
  /\ acks = 0
  /\ flagged = FALSE

\* sort.Slice: a level comes after those whose price ranks before its own.
Rank(levels, side, i) ==
  Cardinality({j \in 1..Len(levels) : j = i \/ Better(side, levels[j].price, levels[i].price)})

Sort(levels, side) ==
  [k \in 1..Len(levels) |-> levels[CHOOSE i \in 1..Len(levels) : Rank(levels, side, i) = k]]

\* Defect: the levels are not sorted again.
InsertUnsorted(levels, o) ==
  IF \E i \in 1..Len(levels) : levels[i].price = order[o].price
    THEN [i \in 1..Len(levels) |->
           IF levels[i].price = order[o].price
             THEN [levels[i] EXCEPT !.orders = Append(@, o)] ELSE levels[i]]
    ELSE Append(levels, [price |-> order[o].price, orders |-> <<o>>])

\* insertBid and insertAsk: the order joins the level of its price, or gets a new
\* level and the levels are sorted.
Insert(levels, o) ==
  IF \E i \in 1..Len(levels) : levels[i].price = order[o].price
    THEN [i \in 1..Len(levels) |->
           IF levels[i].price = order[o].price
             THEN [levels[i] EXCEPT !.orders = Append(@, o)] ELSE levels[i]]
    ELSE Sort(Append(levels, [price |-> order[o].price, orders |-> <<o>>]), order[o].side)

\* Defect: levels whose orders are all gone still count.
LiveLevelsAll(levels) == 1..Len(levels)

\* RemoveOrder leaves ids in the levels; only those of the index count.
LiveLevels(levels) == {i \in 1..Len(levels) : Range(levels[i].orders) \cap orderIndex # {}}

\* The price of the first level that has a live order.
TopPrice(levels) ==
  levels[CHOOSE i \in LiveLevels(levels) : \A j \in LiveLevels(levels) : i <= j].price

BestBid == IF LiveLevels(bids) = {} THEN 0 ELSE TopPrice(bids)

BestAsk == IF LiveLevels(asks) = {} THEN NoAsk ELSE TopPrice(asks)

-----------------------------------------------------------------------------
\* ACK: a limit order enters the book, any other is ignored.
AddOrder(o) ==
  /\ acks < MaxAcks
  /\ IF order[o].type = "L"
       THEN /\ acks' = acks + 1
            /\ orderIndex' = orderIndex \cup {o}
            /\ IF order[o].side = "B"
                 THEN bids' = Insert(bids, o) /\ UNCHANGED asks
                 ELSE asks' = Insert(asks, o) /\ UNCHANGED bids
       ELSE UNCHANGED <<acks, orderIndex, bids, asks>>
  /\ flagged' = FALSE
  /\ UNCHANGED order

\* Defect: the check for an empty book looks at the bids on both sides.
JudgeWrongGuard(o, p) ==
  \/ order[o].side = "S" /\ p + Tolerance < BestBid
  \/ order[o].side = "B" /\ p > BestAsk + Tolerance /\ BestBid > 0

\* The price-priority checks of Validate.
Judge(o, p) ==
  \/ order[o].side = "S" /\ BestBid > 0 /\ p + Tolerance < BestBid
  \/ order[o].side = "B" /\ BestAsk < NoAsk /\ p > BestAsk + Tolerance

\* FILL at price p: judged by the book as it is, then the order is forgotten, also
\* when the fill is partial.  The check for overfills looks at the event alone.
Fill(o, p) ==
  /\ flagged' = Judge(o, p)
  /\ orderIndex' = orderIndex \ {o}
  /\ UNCHANGED <<order, bids, asks, acks>>

Cancel(o) ==
  /\ orderIndex' = orderIndex \ {o}
  /\ flagged' = FALSE
  /\ UNCHANGED <<order, bids, asks, acks>>

Reject(o) ==
  /\ flagged' = FALSE
  /\ UNCHANGED <<order, bids, asks, orderIndex, acks>>

Next ==
  \E o \in Order :
    \/ AddOrder(o)
    \/ \E p \in Price : Fill(o, p)
    \/ Cancel(o)
    \/ Reject(o)

Spec == Init /\ [][Next]_bookVars

-----------------------------------------------------------------------------
LivePrices(side) == {order[o].price : o \in {x \in orderIndex : order[x].side = side}}

\* "First valid order defines the true top of book": in spite of the lazy deletion,
\* of ids that come back and of repeated acknowledgements, BestBid and BestAsk are
\* the best prices among the live orders of their side.
BestIsTop ==
  /\ \A p \in LivePrices("B") : p <= BestBid
  /\ BestBid = 0 \/ BestBid \in LivePrices("B")
  /\ \A p \in LivePrices("S") : p >= BestAsk
  /\ BestAsk = NoAsk \/ BestAsk \in LivePrices("S")

\* A fill is flagged exactly if a live order of the other side offered a price that was
\* better by more than the tolerance than the one it was filled at, when the event came.
FlagsExact ==
  [][\A o \in Order, p \in Price : Fill(o, p) =>
       (flagged' <=> IF order[o].side = "B"
                       THEN \E q \in LivePrices("S") : q + Tolerance < p
                       ELSE \E q \in LivePrices("B") : q > p + Tolerance)]_bookVars
=============================================================================
