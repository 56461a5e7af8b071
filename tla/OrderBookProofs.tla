-------------------------- MODULE OrderBookProofs --------------------------
(***************************************************************************)
(* Proofs about OrderBook, for any orders, prices and sequence of events.  *)
(***************************************************************************)
EXTENDS OrderBook, SequenceTheorems, FiniteSetTheorems, WellFoundedInduction, TLAPS

\* The orders of a level have its price and the side of the book.
Fits(levels, side) ==
  \A i \in 1..Len(levels) : \A o \in Range(levels[i].orders) :
    order[o].side = side /\ order[o].price = levels[i].price

\* Every live order of the side is in a level.
Covers(levels, side) ==
  \A o \in orderIndex : order[o].side = side =>
    \E i \in 1..Len(levels) : o \in Range(levels[i].orders)

BookInv ==
  /\ TypeOK
  /\ Fits(bids, "B") /\ Covers(bids, "B")
  /\ Fits(asks, "S") /\ Covers(asks, "S")

-----------------------------------------------------------------------------
(* Lemmas about the operators of the model.                                *)

\* A non-empty set of numbers has a least element.
LEMMA LeastNumber ==
  ASSUME NEW S \in SUBSET Nat, S # {}
  PROVE  \E x \in S : \A y \in S : x <= y
<1> DEFINE T == {0..x : x \in S}
<1>1. T \subseteq FiniteSubsetsOf(Nat) /\ T # {}
  <2>1. \A x \in S : IsFiniteSet(0..x) /\ 0..x \in SUBSET Nat
    BY FS_Interval
  <2> QED BY <2>1 DEF FiniteSubsetsOf
<1>2. PICK t \in T : \A u \in T : ~(<<u, t>> \in StrictSubsetOrdering(Nat))
  BY <1>1, FS_StrictSubsetOrderingWellFounded, WFMin
<1>3. PICK x \in S : t = 0..x
  OBVIOUS
<1>4. ASSUME NEW y \in S, y < x PROVE FALSE
  <2>1. 0..y \subseteq 0..x /\ x \in 0..x /\ x \notin 0..y
    BY <1>4
  <2>2. <<0..y, 0..x>> \in StrictSubsetOrdering(Nat)
    BY <2>1 DEF StrictSubsetOrdering
  <2> QED BY <1>2, <1>3, <2>2
<1> QED BY <1>4

Prices(levels) == \A i \in 1..Len(levels) : levels[i].price \in Nat

OnePerPrice(levels) ==
  \A i, j \in 1..Len(levels) : levels[i].price = levels[j].price => i = j

LEMMA LevelPrices == ASSUME NEW levels \in Seq(Level) PROVE Prices(levels)
<1> SUFFICES ASSUME NEW i \in 1..Len(levels) PROVE levels[i].price \in Nat
  BY DEF Prices
<1>1. levels[i] \in Level
  OBVIOUS
<1>2. levels[i].price \in Price
  BY <1>1 DEF Level
<1> QED BY <1>2, OrderBookAssumption

\* Ranks number the levels, and the better price has the lower rank.
LEMMA Ranks ==
  ASSUME NEW levels, Len(levels) \in Nat, Prices(levels), OnePerPrice(levels), NEW side
  PROVE  /\ \A i \in 1..Len(levels) : Rank(levels, side, i) \in 1..Len(levels)
         /\ \A i, j \in 1..Len(levels) :
              Better(side, levels[i].price, levels[j].price) =>
                Rank(levels, side, i) < Rank(levels, side, j)
<1> DEFINE n == Len(levels)
           before(i) == {j \in 1..n : j = i \/ Better(side, levels[j].price, levels[i].price)}
<1>1. ASSUME NEW i \in 1..n PROVE before(i) \subseteq 1..n /\ i \in before(i)
  OBVIOUS
<1>2. IsFiniteSet(1..n) /\ Cardinality(1..n) = n
  <2>1. 1 \in Int /\ n \in Int /\ n >= 0
    OBVIOUS
  <2>2. IsFiniteSet(1..n) /\ Cardinality(1..n) = IF 1 > n THEN 0 ELSE n - 1 + 1
    BY <2>1, FS_Interval
  <2> QED BY <2>1, <2>2
<1>3. ASSUME NEW i \in 1..n
      PROVE  IsFiniteSet(before(i)) /\ Cardinality(before(i)) \in 1..n
  <2>1. IsFiniteSet(before(i)) /\ Cardinality(before(i)) <= n
    BY <1>1, <1>2, FS_Subset
  <2>2. Cardinality(before(i)) \in Nat /\ Cardinality(before(i)) # 0
    BY <1>1, <2>1, FS_CardinalityType, FS_EmptySet
  <2> QED BY <2>1, <2>2
<1>4. ASSUME NEW i \in 1..n, NEW j \in 1..n, Better(side, levels[i].price, levels[j].price)
      PROVE  Cardinality(before(i)) < Cardinality(before(j))
  <2>1. \A k \in 1..n : levels[k].price \in Nat
    BY DEF Prices
  <2>2. before(i) \subseteq before(j)
    <3> SUFFICES ASSUME NEW k \in before(i) PROVE k \in before(j)
      OBVIOUS
    <3>1. k = i \/ Better(side, levels[k].price, levels[i].price)
      OBVIOUS
    <3> QED BY <1>4, <2>1, <3>1 DEF Better
  <2>3. j \in before(j) /\ j \notin before(i)
    BY <1>4, <2>1 DEF Better
  <2> HIDE DEF before
  <2>4. /\ Cardinality(before(i)) <= Cardinality(before(j))
        /\ Cardinality(before(i)) # Cardinality(before(j))
    BY <1>3, <2>2, <2>3, FS_Subset
  <2> QED BY <1>3, <2>4
<1>5. \A i \in 1..n : Rank(levels, side, i) = Cardinality(before(i))
  BY DEF Rank
<1> HIDE DEF before
<1> QED BY <1>3, <1>4, <1>5

\* Sorting levels of different prices: the result is sorted and has the same levels.
LEMMA Sorts ==
  ASSUME NEW levels \in Seq(Level), OnePerPrice(levels), NEW side
  PROVE  /\ Sort(levels, side) \in Seq(Level) /\ Len(Sort(levels, side)) = Len(levels)
         /\ Sorted(Sort(levels, side), side)
         /\ \A k \in 1..Len(levels) : \E i \in 1..Len(levels) : Sort(levels, side)[k] = levels[i]
         /\ \A i \in 1..Len(levels) : \E k \in 1..Len(levels) : Sort(levels, side)[k] = levels[i]
<1> DEFINE n == Len(levels)
           r == [i \in 1..n |-> Rank(levels, side, i)]
           at(k) == CHOOSE i \in 1..n : Rank(levels, side, i) = k
<1>1. n \in Nat /\ Prices(levels)
  BY LevelPrices
<1>2. /\ \A i \in 1..n : Rank(levels, side, i) \in 1..n
      /\ \A i, j \in 1..n : Better(side, levels[i].price, levels[j].price) =>
                              Rank(levels, side, i) < Rank(levels, side, j)
  BY <1>1, Ranks
\* One of two levels has the better price.
<1>3. \A i, j \in 1..n : i # j => \/ Better(side, levels[i].price, levels[j].price)
                                  \/ Better(side, levels[j].price, levels[i].price)
  BY <1>1 DEF Better, Prices, OnePerPrice
<1>4. \A i, j \in 1..n : Rank(levels, side, i) = Rank(levels, side, j) => i = j
  BY <1>2, <1>3
<1>5. \A k \in 1..n : \E i \in 1..n : Rank(levels, side, i) = k
  <2>1. r \in [1..n -> 1..n] /\ \A i, j \in 1..n : r[i] = r[j] => i = j
    BY <1>2, <1>4
  <2>2. IsFiniteSet(1..n)
    BY <1>1, FS_Interval
  <2> HIDE DEF r
  <2>3. r \in Injection(1..n, 1..n)
    BY <2>1 DEF Injection, IsInjective
  <2>4. r \in Surjection(1..n, 1..n)
    BY <2>2, <2>3, FS_Injection
  <2>5. \A k \in 1..n : \E i \in 1..n : r[i] = k
    BY <2>4 DEF Surjection
  <2> QED BY <2>5 DEF r
<1>6. \A k \in 1..n : at(k) \in 1..n /\ Rank(levels, side, at(k)) = k
  BY <1>5
<1>7. \A k \in 1..n : Sort(levels, side)[k] = levels[at(k)]
  BY DEF Sort
<1>8. Sort(levels, side) \in Seq(Level) /\ Len(Sort(levels, side)) = n
  <2>1. Sort(levels, side) = [k \in 1..n |-> levels[at(k)]]
    BY DEF Sort
  <2> HIDE DEF at
  <2>2. \A k \in 1..n : levels[at(k)] \in Level
    BY <1>6
  <2>3. [k \in 1..n |-> levels[at(k)]] \in [1..n -> Level]
    BY <2>2
  <2> QED BY <1>1, <2>1, <2>3
<1>9. \A i \in 1..n : at(Rank(levels, side, i)) = i
  BY <1>2, <1>4, <1>6
<1> HIDE DEF at
<1>10. Sorted(Sort(levels, side), side)
  <2> SUFFICES ASSUME NEW k \in 1..n, NEW l \in 1..n, k < l
               PROVE  Better(side, levels[at(k)].price, levels[at(l)].price)
    BY <1>7, <1>8 DEF Sorted
  <2>1. at(k) # at(l) /\ ~(Rank(levels, side, at(l)) < Rank(levels, side, at(k)))
    BY <1>6
  <2> QED BY <1>2, <1>3, <1>6, <2>1
<1> QED BY <1>2, <1>6, <1>7, <1>8, <1>9, <1>10

-----------------------------------------------------------------------------
(* An order enters a side of the book.                                     *)

Held(levels) == UNION {Range(levels[i].orders) : i \in 1..Len(levels)}

LEMMA RangeAppend ==
  ASSUME NEW s \in Seq(Order), NEW o \in Order
  PROVE  Range(Append(s, o)) = Range(s) \cup {o}
<1>1. /\ Append(s, o) \in Seq(Order) /\ Len(Append(s, o)) = Len(s) + 1 /\ Len(s) \in Nat
      /\ \A k \in 1..Len(s) : Append(s, o)[k] = s[k]
      /\ Append(s, o)[Len(s) + 1] = o
  OBVIOUS
<1>2. Range(s) = {s[k] : k \in 1..Len(s)}
  BY RangeEquality
<1>3. Range(Append(s, o)) = {Append(s, o)[k] : k \in 1..Len(s) + 1}
  BY <1>1, RangeEquality
<1>4. \A k : k \in 1..Len(s) + 1 <=> k \in 1..Len(s) \/ k = Len(s) + 1
  BY <1>1
<1> QED BY <1>1, <1>2, <1>3, <1>4

LEMMA RangeSingle == ASSUME NEW o \in Order PROVE Range(<<o>>) = {o} /\ <<o>> \in Seq(Order)
<1>1. <<o>> \in Seq(Order) /\ Len(<<o>>) = 1 /\ <<o>>[1] = o
  OBVIOUS
<1>2. Range(<<o>>) = {<<o>>[k] : k \in 1..1}
  BY <1>1, RangeEquality
<1> QED BY <1>1, <1>2

\* Insert keeps a side typed, sorted and fitting, and adds the order to those it holds.
LEMMA Inserts ==
  ASSUME order \in [Order -> OrderRec], NEW o \in Order, NEW levels \in Seq(Level),
         NEW side \in {"B", "S"}, order[o].side = side,
         Sorted(levels, side), Fits(levels, side)
  PROVE  /\ Insert(levels, o) \in Seq(Level)
         /\ Sorted(Insert(levels, o), side) /\ Fits(Insert(levels, o), side)
         /\ Held(Insert(levels, o)) = Held(levels) \cup {o}
<1> DEFINE n == Len(levels)
           p == order[o].price
           new == [price |-> p, orders |-> <<o>>]
<1>1. n \in Nat /\ p \in Price /\ new \in Level /\ \A i \in 1..n : levels[i] \in Level
  <2>1. n \in Nat /\ \A i \in 1..n : levels[i] \in Level
    OBVIOUS
  <2>2. p \in Price
    BY DEF OrderRec
  <2>3. new \in Level
    BY <2>2, RangeSingle DEF Level
  <2> QED BY <2>1, <2>2, <2>3
<1>2. Prices(levels) /\ p \in Nat
  BY <1>1, LevelPrices, OrderBookAssumption
<1>3. OnePerPrice(levels)
  <2> SUFFICES ASSUME NEW i \in 1..n, NEW j \in 1..n, levels[i].price = levels[j].price, i < j
               PROVE  FALSE
    BY DEF OnePerPrice
  <2>1. Better(side, levels[i].price, levels[j].price)
    BY DEF Sorted
  <2> QED BY <1>2, <2>1 DEF Better, Prices
\* The order joins a level.
<1>4. CASE \E i \in 1..n : levels[i].price = p
  <2> DEFINE joined(i) == [levels[i] EXCEPT !.orders = Append(levels[i].orders, o)]
             ins == [i \in 1..n |-> IF levels[i].price = p THEN joined(i) ELSE levels[i]]
  <2>1. Insert(levels, o) = ins
    BY <1>4 DEF Insert
  <2>2. ASSUME NEW i \in 1..n
        PROVE  /\ joined(i) \in Level /\ joined(i).price = levels[i].price
               /\ Range(joined(i).orders) = Range(levels[i].orders) \cup {o}
    <3>1. levels[i] \in Level /\ levels[i].orders \in Seq(Order)
      BY <1>1 DEF Level
    <3>2. Append(levels[i].orders, o) \in Seq(Order)
      BY <3>1
    <3>3. Range(Append(levels[i].orders, o)) = Range(levels[i].orders) \cup {o}
      BY <3>1, RangeAppend
    <3> QED BY <3>1, <3>2, <3>3 DEF Level
  <2> HIDE DEF joined
  <2>3. ins \in [1..n -> Level]
    BY <1>1, <2>2
  <2>4. ins \in Seq(Level) /\ Len(ins) = n
    BY <1>1, <2>3
  <2>5. \A i \in 1..n : /\ ins[i].price = levels[i].price
                        /\ \A x : x \in Range(ins[i].orders) <=>
                             \/ x \in Range(levels[i].orders)
                             \/ levels[i].price = p /\ x = o
    BY <2>2
  <2> HIDE DEF ins
  <2>6. Sorted(ins, side)
    BY <2>4, <2>5 DEF Sorted
  <2>7. Fits(ins, side)
    BY <2>4, <2>5 DEF Fits
  <2>8. Held(ins) = Held(levels) \cup {o}
    <3>1. PICK i \in 1..n : levels[i].price = p
      BY <1>4
    <3>2. o \in Range(ins[i].orders)
      BY <2>5, <3>1
    <3>3. \A x : x \in Held(ins) <=> \E j \in 1..n : x \in Range(ins[j].orders)
      BY <2>4 DEF Held
    <3>4. \A x : x \in Held(levels) <=> \E j \in 1..n : x \in Range(levels[j].orders)
      BY DEF Held
    <3>5. ASSUME NEW x PROVE x \in Held(ins) <=> x \in Held(levels) \/ x = o
      <4>1. CASE x = o
        BY <3>1, <3>2, <3>3, <4>1
      <4>2. CASE x # o
        <5>1. \A j \in 1..n : x \in Range(ins[j].orders) <=> x \in Range(levels[j].orders)
          BY <2>5, <4>2
        <5> QED BY <3>3, <3>4, <4>2, <5>1
      <4> QED BY <4>1, <4>2
    <3> QED BY <3>5
  <2> QED BY <2>1, <2>4, <2>6, <2>7, <2>8
\* The order gets a level of its own.
<1>5. CASE ~\E i \in 1..n : levels[i].price = p
  <2> DEFINE app == Append(levels, new)
             ins == Sort(app, side)
  <2>1. Insert(levels, o) = ins
    BY <1>5 DEF Insert
  <2> HIDE DEF new
  <2>2. /\ app \in Seq(Level) /\ Len(app) = n + 1
        /\ \A i \in 1..n : app[i] = levels[i]
        /\ app[n + 1] = new
    BY <1>1
  <2>3. new.price = p /\ Range(new.orders) = {o}
    BY RangeSingle DEF new
  <2> HIDE DEF app
  <2>4. \A i : i \in 1..(n + 1) <=> i \in 1..n \/ i = n + 1
    BY <1>1
  <2>5. OnePerPrice(app)
    BY <1>3, <1>5, <2>2, <2>3, <2>4 DEF OnePerPrice
  <2>6. /\ ins \in Seq(Level) /\ Len(ins) = n + 1 /\ Sorted(ins, side)
        /\ \A k \in 1..(n + 1) : \E i \in 1..(n + 1) : ins[k] = app[i]
        /\ \A i \in 1..(n + 1) : \E k \in 1..(n + 1) : ins[k] = app[i]
    <3>a. app \in Seq(Level) /\ OnePerPrice(app)
      BY <2>2, <2>5
    <3>1. Sort(app, side) \in Seq(Level) /\ Len(Sort(app, side)) = Len(app)
      BY <3>a, Sorts
    <3>2. Sorted(Sort(app, side), side)
      BY <3>a, Sorts
    <3>3. \A k \in 1..Len(app) : \E i \in 1..Len(app) : Sort(app, side)[k] = app[i]
      BY <3>a, Sorts
    <3>4. \A i \in 1..Len(app) : \E k \in 1..Len(app) : Sort(app, side)[k] = app[i]
      BY <3>a, Sorts
    <3> QED BY <2>2, <3>1, <3>2, <3>3, <3>4
  <2> HIDE DEF ins
  <2>7. Fits(app, side)
    <3> SUFFICES ASSUME NEW i \in 1..(n + 1), NEW x \in Range(app[i].orders)
                 PROVE  order[x].side = side /\ order[x].price = app[i].price
      BY <2>2 DEF Fits
    <3>1. CASE i \in 1..n
      BY <2>2, <3>1 DEF Fits
    <3>2. CASE i = n + 1
      BY <2>2, <2>3, <3>2
    <3> QED BY <2>4, <3>1, <3>2
  <2>8. Fits(ins, side)
    <3> SUFFICES ASSUME NEW k \in 1..(n + 1), NEW x \in Range(ins[k].orders)
                 PROVE  order[x].side = side /\ order[x].price = ins[k].price
      BY <2>6 DEF Fits
    <3>1. PICK i \in 1..(n + 1) : ins[k] = app[i]
      BY <2>6
    <3> QED BY <2>2, <2>7, <3>1 DEF Fits
  <2>9. Held(ins) = Held(app)
    <3>1. \A x : x \in Held(ins) <=> \E k \in 1..(n + 1) : x \in Range(ins[k].orders)
      BY <2>6 DEF Held
    <3>2. \A x : x \in Held(app) <=> \E k \in 1..(n + 1) : x \in Range(app[k].orders)
      BY <2>2 DEF Held
    <3>3. \A x : x \in Held(ins) <=> x \in Held(app)
      BY <2>6, <3>1, <3>2
    <3> QED BY <3>3
  <2>10. Held(app) = Held(levels) \cup {o}
    <3>1. \A x : x \in Held(app) <=> \E k \in 1..(n + 1) : x \in Range(app[k].orders)
      BY <2>2 DEF Held
    <3>2. \A x : x \in Held(levels) <=> \E k \in 1..n : x \in Range(levels[k].orders)
      BY DEF Held
    <3>3. \A x : x \in Held(app) <=> x \in Held(levels) \/ x = o
      BY <2>2, <2>3, <2>4, <3>1, <3>2
    <3> QED BY <3>3
  <2> QED BY <2>1, <2>6, <2>8, <2>9, <2>10
<1> QED BY <1>4, <1>5

\* Covers in terms of the orders that a side holds.
LEMMA CoversHeld ==
  ASSUME NEW levels, NEW side
  PROVE  Covers(levels, side) <=> \A o \in orderIndex : order[o].side = side => o \in Held(levels)
BY DEF Covers, Held

-----------------------------------------------------------------------------
(* The invariant.                                                          *)

LEMMA InitBook == Init => BookInv
<1> SUFFICES ASSUME Init PROVE BookInv
  OBVIOUS
<1>1. <<>> \in Seq(Level) /\ Len(<<>>) = 0 /\ 0 \in 0..MaxAcks
  BY OrderBookAssumption
<1>2. TypeOK
  <2>1. Sorted(<<>>, "B") /\ Sorted(<<>>, "S")
    BY DEF Sorted
  <2> QED BY <1>1, <2>1 DEF Init, TypeOK
<1>3. \A side : Fits(<<>>, side) /\ Covers(<<>>, side)
  BY DEF Init, Fits, Covers
<1> QED BY <1>2, <1>3 DEF Init, BookInv

LEMMA AddBook ==
  ASSUME BookInv, NEW o \in Order, AddOrder(o)
  PROVE  BookInv'
<1>1. /\ order \in [Order -> OrderRec] /\ bids \in Seq(Level) /\ asks \in Seq(Level)
      /\ Sorted(bids, "B") /\ Sorted(asks, "S") /\ orderIndex \subseteq Order
      /\ acks \in 0..MaxAcks /\ flagged \in BOOLEAN
      /\ Fits(bids, "B") /\ Fits(asks, "S")
      /\ \A x \in orderIndex : order[x].side = "B" => x \in Held(bids)
      /\ \A x \in orderIndex : order[x].side = "S" => x \in Held(asks)
  BY CoversHeld DEF BookInv, TypeOK
<1>2. order' = order /\ flagged' = FALSE
  BY DEF AddOrder
<1>3. order[o].side \in {"B", "S"}
  BY <1>1 DEF OrderRec
\* What a side needs to be as it should, once the new index is known.
<1>4. ASSUME NEW levels \in Seq(Level), NEW side, Fits(levels, side)
      PROVE  Fits(levels, side)'
  BY <1>2, <1>4 DEF Fits
<1>5. acks' \in 0..MaxAcks /\ orderIndex' \subseteq orderIndex \cup {o}
  BY <1>1, OrderBookAssumption DEF AddOrder
<1>6. CASE order[o].type # "L"
  <2>1. UNCHANGED <<acks, orderIndex, bids, asks>>
    BY <1>6 DEF AddOrder
  <2>2. TypeOK'
    BY <1>1, <1>2, <2>1 DEF TypeOK
  <2>3. Fits(bids, "B")' /\ Fits(asks, "S")'
    BY <1>1, <1>2, <2>1 DEF Fits
  <2>4. Covers(bids, "B")' /\ Covers(asks, "S")'
    BY <1>1, <1>2, <2>1 DEF Covers, Held
  <2> QED BY <2>2, <2>3, <2>4 DEF BookInv
<1>7. CASE order[o].type = "L" /\ order[o].side = "B"
  <2>1. bids' = Insert(bids, o) /\ asks' = asks
    BY <1>7 DEF AddOrder
  <2>2. /\ bids' \in Seq(Level) /\ Sorted(bids', "B") /\ Fits(bids', "B")
        /\ Held(bids') = Held(bids) \cup {o}
    BY <1>1, <1>7, <2>1, Inserts
  <2>3. /\ \A x \in orderIndex' : order[x].side = "B" => x \in Held(bids')
        /\ \A x \in orderIndex' : order[x].side = "S" => x \in Held(asks')
    BY <1>1, <1>5, <1>7, <2>1, <2>2
  <2>4. /\ Fits(bids, "B")' /\ Fits(asks, "S")' /\ Covers(bids, "B")' /\ Covers(asks, "S")'
    BY <1>1, <1>2, <2>1, <2>2, <2>3 DEF Fits, Covers, Held
  <2> QED BY <1>1, <1>2, <1>5, <2>1, <2>2, <2>4 DEF BookInv, TypeOK
<1>8. CASE order[o].type = "L" /\ order[o].side = "S"
  <2>1. asks' = Insert(asks, o) /\ bids' = bids
    BY <1>8 DEF AddOrder
  <2>2. /\ asks' \in Seq(Level) /\ Sorted(asks', "S") /\ Fits(asks', "S")
        /\ Held(asks') = Held(asks) \cup {o}
    BY <1>1, <1>8, <2>1, Inserts
  <2>3. /\ \A x \in orderIndex' : order[x].side = "B" => x \in Held(bids')
        /\ \A x \in orderIndex' : order[x].side = "S" => x \in Held(asks')
    BY <1>1, <1>5, <1>8, <2>1, <2>2
  <2>4. /\ Fits(bids, "B")' /\ Fits(asks, "S")' /\ Covers(bids, "B")' /\ Covers(asks, "S")'
    BY <1>1, <1>2, <2>1, <2>2, <2>3 DEF Fits, Covers, Held
  <2> QED BY <1>1, <1>2, <1>5, <2>1, <2>2, <2>4 DEF BookInv, TypeOK
<1> QED BY <1>3, <1>6, <1>7, <1>8

LEMMA NextBook == BookInv /\ [Next]_bookVars => BookInv'
<1> SUFFICES ASSUME BookInv, [Next]_bookVars PROVE BookInv'
  OBVIOUS
\* Forgetting orders leaves the levels as they are.
<1>1. ASSUME UNCHANGED <<order, bids, asks, acks>>, orderIndex' \subseteq orderIndex,
             flagged' \in BOOLEAN
      PROVE  BookInv'
  BY <1>1 DEF BookInv, TypeOK, Fits, Covers
<1>2. CASE UNCHANGED bookVars
  BY <1>1, <1>2 DEF bookVars, BookInv, TypeOK
<1>3. ASSUME NEW o \in Order, NEW p \in Price, Fill(o, p) PROVE BookInv'
  <2>1. Judge(o, p) \in BOOLEAN
    BY DEF Judge
  <2> QED BY <1>1, <1>3, <2>1 DEF Fill
<1>4. ASSUME NEW o \in Order, Cancel(o) \/ Reject(o) PROVE BookInv'
  BY <1>1, <1>4 DEF Cancel, Reject
<1> QED BY <1>2, <1>3, <1>4, AddBook DEF Next

-----------------------------------------------------------------------------
(* The top of the book.                                                    *)

\* The first live level has the best price of the live orders, and there is none only if
\* no order is live.
LEMMA TopIsBest ==
  ASSUME BookInv, NEW levels \in Seq(Level), NEW side \in {"B", "S"},
         Sorted(levels, side), Fits(levels, side), Covers(levels, side)
  PROVE  /\ LiveLevels(levels) = {} => LivePrices(side) = {}
         /\ LiveLevels(levels) # {} =>
              /\ TopPrice(levels) \in LivePrices(side)
              /\ \A q \in LivePrices(side) :
                   q = TopPrice(levels) \/ Better(side, TopPrice(levels), q)
<1> DEFINE live == LiveLevels(levels)
<1>1. live \in SUBSET Nat /\ live \subseteq 1..Len(levels)
  BY DEF LiveLevels
<1>2. \A q \in LivePrices(side) : \E j \in live : levels[j].price = q
  <2> SUFFICES ASSUME NEW o \in orderIndex, order[o].side = side
               PROVE  \E j \in live : levels[j].price = order[o].price
    BY DEF LivePrices
  <2>1. PICK j \in 1..Len(levels) : o \in Range(levels[j].orders)
    BY DEF Covers
  <2>2. levels[j].price = order[o].price /\ j \in live
    BY <2>1 DEF Fits, LiveLevels
  <2> QED BY <2>2
<1>3. ASSUME NEW j \in live PROVE levels[j].price \in LivePrices(side)
  <2>1. PICK o \in orderIndex : o \in Range(levels[j].orders)
    BY DEF LiveLevels
  <2>2. order[o].side = side /\ order[o].price = levels[j].price
    BY <1>1, <2>1 DEF Fits
  <2> QED BY <2>2 DEF LivePrices
<1>4. CASE live # {}
  <2> DEFINE top == CHOOSE i \in live : \A j \in live : i <= j
  <2>1. \E i \in live : \A j \in live : i <= j
    BY <1>1, <1>4, LeastNumber
  <2>2. top \in live /\ \A j \in live : top <= j
    BY <2>1
  <2>3. TopPrice(levels) = levels[top].price
    BY DEF TopPrice
  <2> HIDE DEF top
  <2>4. ASSUME NEW q \in LivePrices(side)
        PROVE  q = levels[top].price \/ Better(side, levels[top].price, q)
    <3>1. PICK j \in live : levels[j].price = q
      BY <1>2
    <3>2. top = j \/ top < j
      BY <1>1, <2>2
    <3> QED BY <1>1, <2>2, <3>1, <3>2 DEF Sorted
  <2> QED BY <1>3, <1>4, <2>2, <2>3, <2>4
<1> QED BY <1>2, <1>4

LEMMA BookTop == BookInv => BestIsTop
<1> SUFFICES ASSUME BookInv PROVE BestIsTop
  OBVIOUS
<1>1. /\ LivePrices("B") \subseteq Nat \ {0}
      /\ \A p \in LivePrices("S") : p \in Nat /\ p < NoAsk
  BY OrderBookAssumption DEF BookInv, TypeOK, OrderRec, LivePrices
<1>2. /\ LiveLevels(bids) = {} => LivePrices("B") = {}
      /\ LiveLevels(bids) # {} =>
           /\ TopPrice(bids) \in LivePrices("B")
           /\ \A q \in LivePrices("B") : q = TopPrice(bids) \/ Better("B", TopPrice(bids), q)
  BY TopIsBest DEF BookInv, TypeOK
<1>3. /\ LiveLevels(asks) = {} => LivePrices("S") = {}
      /\ LiveLevels(asks) # {} =>
           /\ TopPrice(asks) \in LivePrices("S")
           /\ \A q \in LivePrices("S") : q = TopPrice(asks) \/ Better("S", TopPrice(asks), q)
  BY TopIsBest DEF BookInv, TypeOK
<1>4. (\A p \in LivePrices("B") : p <= BestBid) /\ (BestBid = 0 \/ BestBid \in LivePrices("B"))
  BY <1>1, <1>2 DEF BestBid, Better
<1>5. (\A p \in LivePrices("S") : p >= BestAsk) /\ (BestAsk = NoAsk \/ BestAsk \in LivePrices("S"))
  BY <1>1, <1>3 DEF BestAsk, Better
<1> QED BY <1>4, <1>5 DEF BestIsTop

\* The verdict on a fill, by the prices of the live orders.
LEMMA JudgeExact ==
  ASSUME BookInv, NEW o \in Order, NEW p \in Price
  PROVE  Judge(o, p) <=> IF order[o].side = "B"
                           THEN \E q \in LivePrices("S") : q + Tolerance < p
                           ELSE \E q \in LivePrices("B") : q > p + Tolerance
<1>1. /\ \A q \in LivePrices("B") : q \in Nat /\ q # 0
      /\ \A q \in LivePrices("S") : q \in Nat /\ q < NoAsk
      /\ p \in Nat /\ p < NoAsk /\ NoAsk \in Nat /\ Tolerance \in Nat
      /\ order[o].side \in {"B", "S"}
  BY OrderBookAssumption DEF BookInv, TypeOK, OrderRec, LivePrices
<1>2. BestIsTop
  BY BookTop
<1>3. CASE order[o].side = "B"
  <2>1. BestAsk < NoAsk /\ p > BestAsk + Tolerance <=> \E q \in LivePrices("S") : q + Tolerance < p
    BY <1>1, <1>2 DEF BestIsTop
  <2> QED BY <1>3, <2>1 DEF Judge
<1>4. CASE order[o].side = "S"
  <2>1. BestBid > 0 /\ p + Tolerance < BestBid <=> \E q \in LivePrices("B") : q > p + Tolerance
    BY <1>1, <1>2 DEF BestIsTop
  <2> QED BY <1>4, <2>1 DEF Judge
<1> QED BY <1>1, <1>3, <1>4

-----------------------------------------------------------------------------
(* The theorems.                                                           *)

LEMMA BookInvariant == Spec => []BookInv
BY InitBook, NextBook, PTL DEF Spec

\* Levels stay sorted, one for each price, however often orders come, go and come back.
THEOREM TypeCorrect == Spec => []TypeOK
<1>1. BookInv => TypeOK
  BY DEF BookInv
<1> QED BY <1>1, BookInvariant, PTL

\* In spite of the lazy deletion, BestBid and BestAsk are the best live prices.
THEOREM TopIsTrue == Spec => []BestIsTop
BY BookTop, BookInvariant, PTL

\* The validator flags a fill exactly if a live order offered a price that was better by
\* more than the tolerance.
THEOREM VerdictsAreExact == Spec => FlagsExact
<1>1. BookInv /\ [Next]_bookVars =>
        [\A o \in Order, p \in Price : Fill(o, p) =>
           (flagged' <=> IF order[o].side = "B"
                           THEN \E q \in LivePrices("S") : q + Tolerance < p
                           ELSE \E q \in LivePrices("B") : q > p + Tolerance)]_bookVars
  BY JudgeExact DEF Fill
<1> QED BY <1>1, BookInvariant, PTL DEF Spec, FlagsExact
=============================================================================
