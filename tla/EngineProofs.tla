---------------------------- MODULE EngineProofs ----------------------------
(***************************************************************************)
(* Proofs about MatchingEngine, for every set of accounts, ids, prices,    *)
(* quantities, instruments and slots, whatever ids clients replace onto,   *)
(* and, on top of them, about RiskGatedEngine, which extends it, for every *)
(* set of seeds: the ledger, which sees only events, mirrors the book, and *)
(* no account is ever overdrawn.                                           *)
(***************************************************************************)
EXTENDS RiskGatedEngine, FiniteSetTheorems, TLAPS


(***************************************************************************)
(* The book.  Every operation keeps its level queues exact: lemmas for any *)
(* set S of orders with a side and a price.                                *)
(***************************************************************************)
\* The queue q holds slot x; no slot is in it twice.
In(q, x) == \E k \in 1 .. Len(q) : q[k] = x
NoRepeat(q) == \A j, k \in 1 .. Len(q) : q[j] = q[k] => j = k

\* Queue by queue, slots are filed under the side and price of their orders.
Filed(slab, queue) ==
    \A s \in Sides, p \in Prices : \A x :
        In(queue[s][p], x) <=> /\ x \in Slots /\ slab[x] # Free
                               /\ slab[x].side = s /\ slab[x].price = p

\* An exact book: typed, and each queue is the live orders of its level, once.
Exact(b, S) == /\ b \in BookOf(S)
               /\ QueuedAreLive(b)
               /\ QueuedOnce(b)
               /\ LiveAreQueued(b)

\* A set of orders: records with a side and a price that are not Free.
Orders(S) == /\ Free \notin S
             /\ \A o \in S : o.side \in Sides /\ o.price \in Prices

-----------------------------------------------------------------------------
(***************************************************************************)
(* Queues                                                                  *)
(***************************************************************************)
LEMMA SameElements ==
    ASSUME NEW S, NEW q \in Seq(S), NEW r \in Seq(S), Len(q) = Len(r),
           \A k \in 1 .. Len(q) : q[k] = r[k]
    PROVE  q = r
OBVIOUS

LEMMA AppendFacts ==
    ASSUME NEW q \in Seq(Slots), NEW h \in Slots, NoRepeat(q), ~In(q, h)
    PROVE  /\ Append(q, h) \in Seq(Slots)
           /\ NoRepeat(Append(q, h))
           /\ \A x : In(Append(q, h), x) <=> In(q, x) \/ x = h
<1> DEFINE r == Append(q, h)
<1>1. /\ r \in Seq(Slots) /\ Len(r) = Len(q) + 1 /\ r[Len(q) + 1] = h
      /\ \A k \in 1 .. Len(q) : r[k] = q[k]
  OBVIOUS
<1>2. NoRepeat(r)
  BY <1>1 DEF NoRepeat, In
<1>3. ASSUME NEW x PROVE In(r, x) <=> In(q, x) \/ x = h
  <2>1. Len(q) \in Nat
    OBVIOUS
  <2>2. In(r, x) => In(q, x) \/ x = h
    BY <1>1, <2>1 DEF In
  <2>3. In(q, x) => In(r, x)
    BY <1>1, <2>1 DEF In
  <2>4. x = h => In(r, x)
    BY <1>1, <2>1 DEF In
  <2> QED
    BY <2>2, <2>3, <2>4
<1> QED
  BY <1>1, <1>2, <1>3

LEMMA WithoutFacts ==
    ASSUME NEW q \in Seq(Slots), NEW h, NoRepeat(q), In(q, h)
    PROVE  /\ Without(q, h) \in Seq(Slots)
           /\ NoRepeat(Without(q, h))
           /\ \A x : In(Without(q, h), x) <=> In(q, x) /\ x # h
<1> DEFINE n == Len(q)
           p == Position(q, h)
           r == Without(q, h)
<1>1. p \in 1 .. n /\ q[p] = h
  BY DEF Position, In
<1>2. n \in Nat /\ n >= 1
  BY <1>1
<1>3. r = [j \in 1 .. n - 1 |-> IF j < p THEN q[j] ELSE q[j + 1]]
  BY DEF Without
<1> HIDE DEF p, r
<1>4. /\ r \in Seq(Slots) /\ Len(r) = n - 1
      /\ \A j \in 1 .. n - 1 : r[j] = IF j < p THEN q[j] ELSE q[j + 1]
  BY <1>1, <1>2, <1>3
<1>5. NoRepeat(r)
  BY <1>1, <1>2, <1>4 DEF NoRepeat
<1>6. ASSUME NEW x, In(r, x) PROVE In(q, x) /\ x # h
  <2>1. PICK j \in 1 .. n - 1 : r[j] = x
    BY <1>4, <1>6 DEF In
  <2>2. CASE j < p
    BY <1>1, <1>2, <1>4, <2>1, <2>2 DEF In, NoRepeat
  <2>3. CASE ~(j < p)
    <3>1. j + 1 \in 1 .. n /\ q[j + 1] = x /\ j + 1 # p
      BY <1>1, <1>2, <1>4, <2>1, <2>3
    <3> QED
      BY <1>1, <3>1 DEF In, NoRepeat
  <2> QED
    BY <2>2, <2>3
<1>7. ASSUME NEW x, In(q, x), x # h PROVE In(r, x)
  <2>1. PICK k \in 1 .. n : q[k] = x
    BY <1>7 DEF In
  <2>2. CASE k < p
    <3>1. k \in 1 .. n - 1 /\ r[k] = x
      BY <1>1, <1>2, <1>4, <2>1, <2>2
    <3> QED
      BY <1>4, <3>1 DEF In
  <2>3. CASE k > p
    <3>1. k - 1 \in 1 .. n - 1 /\ r[k - 1] = x
      BY <1>1, <1>2, <1>4, <2>1, <2>3
    <3> QED
      BY <1>4, <3>1 DEF In
  <2>4. k # p
    BY <1>1, <1>7, <2>1
  <2> QED
    BY <1>1, <2>1, <2>2, <2>3, <2>4
<1> QED
  BY <1>4, <1>5, <1>6, <1>7 DEF r

\* remove_front() takes the head off; that is the queue without its first slot.
LEMMA TailIsWithout ==
    ASSUME NEW q \in Seq(Slots), NoRepeat(q), q # << >>
    PROVE  /\ In(q, Head(q))
           /\ Tail(q) = Without(q, Head(q))
<1>1. Len(q) \in Nat /\ Len(q) >= 1 /\ Head(q) = q[1]
  OBVIOUS
<1>2. Position(q, Head(q)) = 1
  BY <1>1 DEF Position, NoRepeat
<1>3. /\ Tail(q) \in Seq(Slots) /\ Len(Tail(q)) = Len(q) - 1
      /\ \A j \in 1 .. Len(q) - 1 : Tail(q)[j] = q[j + 1]
  BY <1>1
<1>4. In(q, Head(q))
  BY <1>1 DEF In
<1>5. /\ Without(q, Head(q)) \in Seq(Slots) /\ Len(Without(q, Head(q))) = Len(q) - 1
      /\ \A j \in 1 .. Len(q) - 1 : Without(q, Head(q))[j] = q[j + 1]
  <2>1. Without(q, Head(q)) \in Seq(Slots)
    BY <1>4, WithoutFacts
  <2>2. Without(q, Head(q)) = [j \in 1 .. Len(q) - 1 |-> q[j + 1]]
    BY <1>1, <1>2 DEF Without
  <2> QED
    BY <1>1, <2>1, <2>2
<1>6. Tail(q) = Without(q, Head(q))
  BY <1>3, <1>5, SameElements
<1> QED
  BY <1>4, <1>6

-----------------------------------------------------------------------------
(***************************************************************************)
(* Prices                                                                  *)
(***************************************************************************)

\* A non-empty set of natural numbers has a least element ...
LEMMA Least ==
    ASSUME NEW T \in SUBSET Nat, T # {}
    PROVE  \E x \in T : \A y \in T : x <= y
<1> DEFINE R == OpToRel(<, Nat)
<1>1. \E x \in T : \A y \in T : ~(<<y, x>> \in R)
  BY NatLessThanWellFounded, WFMin, Zenon
<1>2. \A x, y \in Nat : <<y, x>> \in R <=> y < x
  BY DEF OpToRel
<1>3. PICK x \in T : \A y \in T : ~(<<y, x>> \in R)
  BY <1>1
<1>4. ASSUME NEW y \in T PROVE x <= y
  <2> HIDE DEF R
  <2>1. x \in Nat /\ y \in Nat /\ ~(y < x)
    BY <1>2, <1>3
  <2> QED
    BY <2>1
<1> QED
  BY <1>4

\* ... and, if it is bounded, a greatest one.
LEMMA Greatest ==
    ASSUME NEW T \in SUBSET Nat, T # {}, NEW m \in Nat, \A x \in T : x <= m
    PROVE  \E x \in T : \A y \in T : y <= x
<1> DEFINE U == {m - x : x \in T}
<1>1. U \in SUBSET Nat /\ U # {}
  <2>1. \A x \in T : m - x \in Nat
    OBVIOUS
  <2>2. U \subseteq Nat
    BY <2>1
  <2>3. PICK x : x \in T
    OBVIOUS
  <2>4. m - x \in U
    BY <2>3
  <2> QED
    BY <2>2, <2>4
<1>2. PICK u \in U : \A v \in U : u <= v
  BY <1>1, Least
<1>3. PICK x \in T : u = m - x
  OBVIOUS
<1>4. ASSUME NEW y \in T PROVE y <= x
  <2>1. u <= m - y
    BY <1>2
  <2> QED
    BY <1>3, <2>1
<1> QED
  BY <1>4

\* A non-empty side has a best price: nothing is better, and it is a level.
LEMMA BestPrice ==
    ASSUME NEW b, NEW side \in Sides, ~empty(b, side)
    PROVE  /\ best_price(b, side) \in Levels(b, side)
           /\ best_price(b, side) \in Prices
           /\ b.queue[side][best_price(b, side)] # << >>
           /\ \A q \in Levels(b, side) : ~Better(side, q, best_price(b, side))
<1>1. Levels(b, side) \in SUBSET Nat /\ Levels(b, side) # {}
  BY PricesAssumption DEF Levels, empty
<1>2. \E p \in Levels(b, side) : \A q \in Levels(b, side) : ~Better(side, q, p)
  <2>1. CASE side = "Buy"
    <3>1. PICK m \in Prices : \A p \in Prices : p <= m
      BY PricesAssumption
    <3>2. m \in Nat /\ \A p \in Levels(b, side) : p <= m
      BY <3>1, PricesAssumption DEF Levels
    <3>3. \E p \in Levels(b, side) : \A q \in Levels(b, side) : q <= p
      BY <1>1, <3>2, Greatest
    <3> QED
      BY <1>1, <2>1, <3>3 DEF Better
  <2>2. CASE side = "Sell"
    <3>1. \E p \in Levels(b, side) : \A q \in Levels(b, side) : p <= q
      BY <1>1, Least
    <3> QED
      BY <1>1, <2>2, <3>1 DEF Better
  <2> QED
    BY <2>1, <2>2 DEF Sides
<1>3. /\ best_price(b, side) \in Levels(b, side)
      /\ \A q \in Levels(b, side) : ~Better(side, q, best_price(b, side))
  BY <1>2 DEF best_price
<1> QED
  BY <1>3 DEF Levels

-----------------------------------------------------------------------------
(***************************************************************************)
(* Books                                                                   *)
(***************************************************************************)

\* An exact book, in terms of In and NoRepeat.
LEMMA ExactFacts ==
    ASSUME NEW S, Orders(S), NEW b, Exact(b, S)
    PROVE  /\ b.slab \in [Slots -> S \cup {Free}]
           /\ b.queue \in [Sides -> [Prices -> Seq(Slots)]]
           /\ \A s \in Sides, p \in Prices :
                 /\ b.queue[s][p] \in Seq(Slots)
                 /\ NoRepeat(b.queue[s][p])
           /\ Filed(b.slab, b.queue)
<1>1. /\ b.slab \in [Slots -> S \cup {Free}]
      /\ b.queue \in [Sides -> [Prices -> Seq(Slots)]]
  BY DEF Exact, BookOf
<1>2. ASSUME NEW s \in Sides, NEW p \in Prices
      PROVE  b.queue[s][p] \in Seq(Slots) /\ NoRepeat(b.queue[s][p])
  BY <1>1 DEF Exact, QueuedOnce, NoRepeat
<1>3. ASSUME NEW s \in Sides, NEW p \in Prices, NEW x
      PROVE  In(b.queue[s][p], x) <=>
                /\ x \in Slots /\ b.slab[x] # Free
                /\ b.slab[x].side = s /\ b.slab[x].price = p
  <2>1. ASSUME In(b.queue[s][p], x)
        PROVE  /\ x \in Slots /\ b.slab[x] # Free
               /\ b.slab[x].side = s /\ b.slab[x].price = p
    BY <2>1 DEF Exact, QueuedAreLive, In
  <2>2. ASSUME x \in Slots, b.slab[x] # Free, b.slab[x].side = s, b.slab[x].price = p
        PROVE  In(b.queue[s][p], x)
    BY <2>2 DEF Exact, LiveAreQueued, In
  <2> QED
    BY <2>1, <2>2
<1> QED
  BY <1>1, <1>2, <1>3 DEF Filed

\* The converse: this is all an exact book needs.
LEMMA ExactIf ==
    ASSUME NEW S, Orders(S), NEW slab \in [Slots -> S \cup {Free}],
           NEW queue \in [Sides -> [Prices -> Seq(Slots)]],
           \A s \in Sides, p \in Prices : NoRepeat(queue[s][p]),
           Filed(slab, queue)
    PROVE  Exact([slab |-> slab, queue |-> queue], S)
<1> DEFINE b == [slab |-> slab, queue |-> queue]
<1>1. b \in BookOf(S) /\ b.slab = slab /\ b.queue = queue
  BY DEF BookOf
<1> HIDE DEF b
<1>2. QueuedOnce(b)
  BY <1>1 DEF QueuedOnce, NoRepeat
<1>3. QueuedAreLive(b)
  BY <1>1 DEF QueuedAreLive, In, Filed
<1>4. LiveAreQueued(b)
  <2> SUFFICES ASSUME NEW h \in Slots, slab[h] # Free
               PROVE  In(queue[slab[h].side][slab[h].price], h)
    BY <1>1 DEF LiveAreQueued, In
  <2>1. slab[h].side \in Sides /\ slab[h].price \in Prices
    BY DEF Orders
  <2> QED
    BY <2>1 DEF Filed
<1> QED
  BY <1>1, <1>2, <1>3, <1>4 DEF Exact, b

\* Changing the queue of one level.
LEMMA QueueUpdate ==
    ASSUME NEW queue \in [Sides -> [Prices -> Seq(Slots)]],
           NEW side \in Sides, NEW price \in Prices, NEW q \in Seq(Slots),
           NEW new, new = [queue EXCEPT ![side][price] = q]
    PROVE  /\ new \in [Sides -> [Prices -> Seq(Slots)]]
           /\ new[side][price] = q
           /\ \A s \in Sides, p \in Prices :
                 s # side \/ p # price => new[s][p] = queue[s][p]
OBVIOUS

\* add() puts a new order at the back of its level.
LEMMA AddExact ==
    ASSUME NEW S, Orders(S), NEW b, Exact(b, S), NEW order \in S,
           NEW h \in Slots, b.slab[h] = Free
    PROVE  Exact(add(b, order, h), S)
<1> DEFINE side  == order.side
           price == order.price
           q     == Append(b.queue[side][price], h)
           slab  == [b.slab EXCEPT ![h] = order]
           queue == [b.queue EXCEPT ![side][price] = q]
<1>1. side \in Sides /\ price \in Prices /\ order # Free
  BY DEF Orders
<1>2. /\ b.slab \in [Slots -> S \cup {Free}]
      /\ b.queue \in [Sides -> [Prices -> Seq(Slots)]]
      /\ \A s \in Sides, p \in Prices :
            b.queue[s][p] \in Seq(Slots) /\ NoRepeat(b.queue[s][p])
  BY ExactFacts
<1>3. Filed(b.slab, b.queue)
  BY ExactFacts
<1>4. /\ q \in Seq(Slots) /\ NoRepeat(q)
      /\ \A x : In(q, x) <=> In(b.queue[side][price], x) \/ x = h
  BY <1>1, <1>2, <1>3, AppendFacts DEF Filed
<1>5. /\ queue \in [Sides -> [Prices -> Seq(Slots)]]
      /\ queue[side][price] = q
      /\ \A s \in Sides, p \in Prices :
            s # side \/ p # price => queue[s][p] = b.queue[s][p]
  BY <1>1, <1>2, <1>4, QueueUpdate
<1>6. /\ slab \in [Slots -> S \cup {Free}] /\ slab[h] = order
      /\ \A x \in Slots : x # h => slab[x] = b.slab[x]
  BY <1>2
<1>7. add(b, order, h) = [slab |-> slab, queue |-> queue]
  BY DEF add
<1> HIDE DEF slab, queue, q
<1>8. \A s \in Sides, p \in Prices : NoRepeat(queue[s][p])
  BY <1>2, <1>4, <1>5
<1>9. ASSUME NEW s \in Sides, NEW p \in Prices, NEW x
      PROVE  In(queue[s][p], x) <=>
                /\ x \in Slots /\ slab[x] # Free
                /\ slab[x].side = s /\ slab[x].price = p
  <2>1. CASE s = side /\ p = price
    <3>1. In(queue[s][p], x) <=> In(b.queue[s][p], x) \/ x = h
      BY <1>4, <1>5, <2>1
    <3>2. CASE x = h
      BY <1>1, <1>6, <2>1, <3>1, <3>2
    <3>3. CASE x # h
      BY <1>3, <1>6, <3>1, <3>3 DEF Filed
    <3> QED
      BY <3>2, <3>3
  <2>2. CASE ~(s = side /\ p = price)
    <3>1. queue[s][p] = b.queue[s][p]
      BY <1>5, <2>2
    <3>2. CASE x = h
      BY <1>3, <1>6, <2>2, <3>1, <3>2 DEF Filed
    <3>3. CASE x # h
      BY <1>3, <1>6, <3>1, <3>3 DEF Filed
    <3> QED
      BY <3>2, <3>3
  <2> QED
    BY <2>1, <2>2
<1>10. Filed(slab, queue)
  BY <1>9 DEF Filed
<1>11. Exact([slab |-> slab, queue |-> queue], S)
  BY <1>5, <1>6, <1>8, <1>10, ExactIf, Zenon
<1> QED
  BY <1>7, <1>11

\* remove_at() takes a live order out of its level, wherever it stands in it.
LEMMA RemoveExact ==
    ASSUME NEW S, Orders(S), NEW b, Exact(b, S), NEW h \in Slots, b.slab[h] # Free
    PROVE  Exact(remove_at(b, h), S)
<1> DEFINE side  == b.slab[h].side
           price == b.slab[h].price
           q     == Without(b.queue[side][price], h)
           slab  == [b.slab EXCEPT ![h] = Free]
           queue == [b.queue EXCEPT ![side][price] = q]
<1>1. /\ b.slab \in [Slots -> S \cup {Free}]
      /\ b.queue \in [Sides -> [Prices -> Seq(Slots)]]
      /\ \A s \in Sides, p \in Prices :
            b.queue[s][p] \in Seq(Slots) /\ NoRepeat(b.queue[s][p])
  BY ExactFacts
<1>2. Filed(b.slab, b.queue)
  BY ExactFacts
<1>3. side \in Sides /\ price \in Prices
  BY <1>1 DEF Orders
<1>4. /\ q \in Seq(Slots) /\ NoRepeat(q)
      /\ \A x : In(q, x) <=> In(b.queue[side][price], x) /\ x # h
  BY <1>1, <1>2, <1>3, WithoutFacts DEF Filed
<1>5. /\ queue \in [Sides -> [Prices -> Seq(Slots)]]
      /\ queue[side][price] = q
      /\ \A s \in Sides, p \in Prices :
            s # side \/ p # price => queue[s][p] = b.queue[s][p]
  <2> HIDE DEF q, side, price
  <2> QED
    BY <1>1, <1>3, <1>4, QueueUpdate
<1>6. /\ slab \in [Slots -> S \cup {Free}] /\ slab[h] = Free
      /\ \A x \in Slots : x # h => slab[x] = b.slab[x]
  BY <1>1
<1>7. remove_at(b, h) = [slab |-> slab, queue |-> queue]
  BY DEF remove_at
<1> HIDE DEF slab, queue, q
<1>8. \A s \in Sides, p \in Prices : NoRepeat(queue[s][p])
  BY <1>1, <1>4, <1>5
<1>9. ASSUME NEW s \in Sides, NEW p \in Prices, NEW x
      PROVE  In(queue[s][p], x) <=>
                /\ x \in Slots /\ slab[x] # Free
                /\ slab[x].side = s /\ slab[x].price = p
  <2>1. In(queue[s][p], x) <=> In(b.queue[s][p], x) /\ x # h
    BY <1>2, <1>4, <1>5 DEF Filed
  <2> QED
    BY <1>2, <1>6, <2>1 DEF Filed
<1>10. Filed(slab, queue)
  BY <1>9 DEF Filed
<1>11. Exact([slab |-> slab, queue |-> queue], S)
  BY <1>5, <1>6, <1>8, <1>10, ExactIf, Zenon
<1> QED
  BY <1>7, <1>11

\* remove_front() removes the front of the best level as remove_at() would.
LEMMA FrontFacts ==
    ASSUME NEW S, Orders(S), NEW b, Exact(b, S), NEW side \in Sides, ~empty(b, side)
    PROVE  /\ front_of_best(b, side) \in Slots
           /\ b.slab[front_of_best(b, side)] # Free
           /\ b.slab[front_of_best(b, side)] \in S
           /\ b.slab[front_of_best(b, side)].side = side
           /\ b.slab[front_of_best(b, side)].price = best_price(b, side)
           /\ remove_front(b, side) = remove_at(b, front_of_best(b, side))
<1> DEFINE price == best_price(b, side)
           q     == b.queue[side][price]
           h     == front_of_best(b, side)
<1>1. price \in Prices /\ q # << >>
  BY BestPrice
<1>2. q \in Seq(Slots) /\ NoRepeat(q)
  BY <1>1, ExactFacts
<1>3. h = Head(q)
  BY DEF front_of_best
<1>4. In(q, h) /\ Tail(q) = Without(q, h)
  BY <1>1, <1>2, <1>3, TailIsWithout
<1>5. h \in Slots /\ b.slab[h] # Free /\ b.slab[h].side = side /\ b.slab[h].price = price
  BY <1>1, <1>4, ExactFacts DEF Filed
<1>6. b.slab[h] \in S
  BY <1>5, ExactFacts
<1>7. remove_front(b, side) = remove_at(b, h)
  BY <1>3, <1>4, <1>5 DEF remove_front, remove_at
<1> QED
  BY <1>5, <1>6, <1>7

\* Editing an order in place, at the same side and price, disturbs no queue.
LEMMA EditExact ==
    ASSUME NEW S, Orders(S), NEW b, Exact(b, S), NEW h \in Slots, b.slab[h] # Free,
           NEW o \in S, o.side = b.slab[h].side, o.price = b.slab[h].price,
           NEW c, c = [slab |-> [b.slab EXCEPT ![h] = o], queue |-> b.queue]
    PROVE  Exact(c, S)
<1> DEFINE slab == [b.slab EXCEPT ![h] = o]
<1>1. /\ b.slab \in [Slots -> S \cup {Free}]
      /\ b.queue \in [Sides -> [Prices -> Seq(Slots)]]
      /\ \A s \in Sides, p \in Prices :
            b.queue[s][p] \in Seq(Slots) /\ NoRepeat(b.queue[s][p])
      /\ Filed(b.slab, b.queue)
  BY ExactFacts
<1>2. /\ slab \in [Slots -> S \cup {Free}] /\ slab[h] = o
      /\ \A x \in Slots : x # h => slab[x] = b.slab[x]
  BY <1>1
<1>3. o # Free
  BY DEF Orders
<1>4. c = [slab |-> slab, queue |-> b.queue]
  OBVIOUS
<1> HIDE DEF slab
<1>5. ASSUME NEW s \in Sides, NEW p \in Prices, NEW x
      PROVE  In(b.queue[s][p], x) <=>
                /\ x \in Slots /\ slab[x] # Free
                /\ slab[x].side = s /\ slab[x].price = p
  BY <1>1, <1>2, <1>3 DEF Filed
<1>6. Filed(slab, b.queue)
  BY <1>5 DEF Filed
<1>7. Exact([slab |-> slab, queue |-> b.queue], S)
  BY <1>1, <1>2, <1>6, ExactIf, Zenon
<1> QED
  BY <1>4, <1>7
-----------------------------------------------------------------------------
(***************************************************************************)
(* Time priority: along a level, orders stand in the order their ids were  *)
(* handed out.                                                             *)
(***************************************************************************)
InOrder(b) ==
    \A s \in Sides, p \in Prices : \A j, k \in 1 .. Len(b.queue[s][p]) :
        j < k => b.slab[b.queue[s][p][j]].exchange_order_id
                   < b.slab[b.queue[s][p][k]].exchange_order_id

\* What a queue without one of its slots holds comes from the queue, in the same order.
LEMMA WithoutOrder ==
    ASSUME NEW q \in Seq(Slots), NEW h, In(q, h),
           NEW j \in 1 .. Len(Without(q, h)), NEW k \in 1 .. Len(Without(q, h)), j < k
    PROVE  \E m, n \in 1 .. Len(q) :
              m < n /\ Without(q, h)[j] = q[m] /\ Without(q, h)[k] = q[n]
<1> DEFINE n == Len(q)
           p == Position(q, h)
           r == Without(q, h)
<1>1. p \in 1 .. n /\ n \in Nat /\ n >= 1
  BY DEF Position, In
<1>2. r = [i \in 1 .. n - 1 |-> IF i < p THEN q[i] ELSE q[i + 1]]
  BY DEF Without
<1> HIDE DEF p
<1>3. /\ Len(r) = n - 1
      /\ \A i \in 1 .. n - 1 : r[i] = IF i < p THEN q[i] ELSE q[i + 1]
  <2>1. \A i \in 1 .. n - 1 : i \in 1 .. n /\ i + 1 \in 1 .. n
    BY <1>1
  <2>2. r \in [1 .. n - 1 -> Slots]
    BY <1>2, <2>1
  <2> QED
    BY <1>1, <1>2, <2>2
<1> DEFINE x(i) == IF i < p THEN i ELSE i + 1
<1>4. \A i \in 1 .. n - 1 : x(i) \in 1 .. n /\ r[i] = q[x(i)]
  BY <1>1, <1>3
<1>5. j \in 1 .. n - 1 /\ k \in 1 .. n - 1
  BY <1>3
<1>6. x(j) < x(k)
  BY <1>1, <1>5
<1> QED
  BY <1>4, <1>5, <1>6

LEMMA RemoveInOrder ==
    ASSUME NEW S, Orders(S), NEW b, Exact(b, S), InOrder(b),
           NEW h \in Slots, b.slab[h] # Free
    PROVE  InOrder(remove_at(b, h))
<1> DEFINE side  == b.slab[h].side
           price == b.slab[h].price
           q     == Without(b.queue[side][price], h)
           slab  == [b.slab EXCEPT ![h] = Free]
           queue == [b.queue EXCEPT ![side][price] = q]
<1>1. /\ b.slab \in [Slots -> S \cup {Free}]
      /\ b.queue \in [Sides -> [Prices -> Seq(Slots)]]
      /\ \A s \in Sides, p \in Prices :
            b.queue[s][p] \in Seq(Slots) /\ NoRepeat(b.queue[s][p])
      /\ Filed(b.slab, b.queue)
  BY ExactFacts
<1>2. side \in Sides /\ price \in Prices
  BY <1>1 DEF Orders
<1>3. In(b.queue[side][price], h)
  BY <1>1, <1>2 DEF Filed
<1>4. /\ q \in Seq(Slots)
      /\ \A x : In(q, x) <=> In(b.queue[side][price], x) /\ x # h
  BY <1>1, <1>2, <1>3, WithoutFacts
<1>5. /\ queue[side][price] = q
      /\ \A s \in Sides, p \in Prices :
            s # side \/ p # price => queue[s][p] = b.queue[s][p]
  <2> HIDE DEF q, side, price
  <2> QED
    BY <1>1, <1>2, <1>4, QueueUpdate
<1>6. \A x \in Slots : x # h => slab[x] = b.slab[x]
  BY <1>1
<1>7. /\ remove_at(b, h).slab = slab /\ remove_at(b, h).queue = queue
  BY DEF remove_at
<1> HIDE DEF slab, queue, q, side, price
<1> SUFFICES ASSUME NEW s \in Sides, NEW p \in Prices,
                    NEW j \in 1 .. Len(queue[s][p]), NEW k \in 1 .. Len(queue[s][p]), j < k
             PROVE  slab[queue[s][p][j]].exchange_order_id
                      < slab[queue[s][p][k]].exchange_order_id
  BY <1>7 DEF InOrder
<1>8. \A n \in 1 .. Len(queue[s][p]) : /\ In(queue[s][p], queue[s][p][n])
                                       /\ queue[s][p][n] # h /\ queue[s][p][n] \in Slots
  <2> SUFFICES ASSUME NEW n \in 1 .. Len(queue[s][p]), NEW x, x = queue[s][p][n]
               PROVE  In(queue[s][p], x) /\ x # h /\ x \in Slots
    OBVIOUS
  <2>1. In(queue[s][p], x)
    BY DEF In
  <2>2. In(b.queue[s][p], x) /\ x # h
    <3>1. CASE s = side /\ p = price
      BY <1>4, <1>5, <2>1, <3>1
    <3>2. CASE ~(s = side /\ p = price)
      <4>1. In(b.queue[s][p], x)
        BY <1>5, <2>1, <3>2
      <4> QED
        BY <1>1, <3>2, <4>1 DEF Filed, side, price
    <3> QED
      BY <3>1, <3>2
  <2> QED
    BY <1>1, <2>1, <2>2 DEF Filed
<1>9. \E m, n \in 1 .. Len(b.queue[s][p]) :
         m < n /\ queue[s][p][j] = b.queue[s][p][m] /\ queue[s][p][k] = b.queue[s][p][n]
  <2>1. CASE s = side /\ p = price
    <3>1. b.queue[s][p] \in Seq(Slots) /\ In(b.queue[s][p], h)
      BY <1>1, <1>3, <2>1
    <3>2. queue[s][p] = Without(b.queue[s][p], h)
      BY <1>5, <2>1 DEF q
    <3>3. PICK w \in Seq(Slots) : w = b.queue[s][p]
      BY <3>1
    <3>4. In(w, h) /\ j \in 1 .. Len(Without(w, h)) /\ k \in 1 .. Len(Without(w, h))
      BY <3>1, <3>2, <3>3
    <3>5. \E m, n \in 1 .. Len(w) :
             m < n /\ Without(w, h)[j] = w[m] /\ Without(w, h)[k] = w[n]
      BY <3>4, WithoutOrder
    <3> QED
      BY <3>2, <3>3, <3>5
  <2>2. CASE ~(s = side /\ p = price)
    BY <1>5, <2>2
  <2> QED
    BY <2>1, <2>2
<1> QED
  BY <1>6, <1>8, <1>9 DEF InOrder

LEMMA AddInOrder ==
    ASSUME NEW S, Orders(S), NEW b, Exact(b, S), InOrder(b), NEW order \in S,
           NEW h \in Slots, b.slab[h] = Free,
           \A x \in Slots : b.slab[x] # Free
                => b.slab[x].exchange_order_id < order.exchange_order_id
    PROVE  InOrder(add(b, order, h))
<1> DEFINE side  == order.side
           price == order.price
           q     == Append(b.queue[side][price], h)
           slab  == [b.slab EXCEPT ![h] = order]
           queue == [b.queue EXCEPT ![side][price] = q]
<1>1. /\ b.slab \in [Slots -> S \cup {Free}]
      /\ b.queue \in [Sides -> [Prices -> Seq(Slots)]]
      /\ \A s \in Sides, p \in Prices : b.queue[s][p] \in Seq(Slots)
      /\ Filed(b.slab, b.queue)
  BY ExactFacts
<1>2. side \in Sides /\ price \in Prices
  BY DEF Orders
<1>3. q \in Seq(Slots)
  BY <1>1, <1>2
<1>4. /\ queue[side][price] = q
      /\ \A s \in Sides, p \in Prices :
            s # side \/ p # price => queue[s][p] = b.queue[s][p]
  BY <1>1, <1>2, <1>3, QueueUpdate
<1>5. slab[h] = order /\ \A x \in Slots : x # h => slab[x] = b.slab[x]
  BY <1>1
<1>6. add(b, order, h).slab = slab /\ add(b, order, h).queue = queue
  BY DEF add
<1> HIDE DEF slab, queue, q, side, price
<1> SUFFICES ASSUME NEW s \in Sides, NEW p \in Prices,
                    NEW j \in 1 .. Len(queue[s][p]), NEW k \in 1 .. Len(queue[s][p]), j < k
             PROVE  slab[queue[s][p][j]].exchange_order_id
                      < slab[queue[s][p][k]].exchange_order_id
  BY <1>6 DEF InOrder
<1>7. \A n \in 1 .. Len(b.queue[s][p]) :
         /\ b.queue[s][p][n] \in Slots /\ b.queue[s][p][n] # h
         /\ b.slab[b.queue[s][p][n]] # Free
  <2> SUFFICES ASSUME NEW n \in 1 .. Len(b.queue[s][p]), NEW x, x = b.queue[s][p][n]
               PROVE  x \in Slots /\ x # h /\ b.slab[x] # Free
    OBVIOUS
  <2>1. In(b.queue[s][p], x)
    BY DEF In
  <2> QED
    BY <1>1, <2>1 DEF Filed
<1>8. CASE k \in 1 .. Len(b.queue[s][p]) /\ \A n \in 1 .. k : queue[s][p][n] = b.queue[s][p][n]
  <2>1. /\ j \in 1 .. k /\ j \in 1 .. Len(b.queue[s][p])
        /\ queue[s][p][j] = b.queue[s][p][j] /\ queue[s][p][k] = b.queue[s][p][k]
    BY <1>1, <1>8
  <2>2. /\ slab[queue[s][p][j]] = b.slab[b.queue[s][p][j]]
        /\ slab[queue[s][p][k]] = b.slab[b.queue[s][p][k]]
    BY <1>5, <1>7, <1>8, <2>1
  <2> QED
    BY <1>8, <2>1, <2>2 DEF InOrder
<1>9. CASE ~(k \in 1 .. Len(b.queue[s][p]) /\ \A n \in 1 .. k : queue[s][p][n] = b.queue[s][p][n])
  <2>1. s = side /\ p = price
    BY <1>4, <1>9
  <2>2. b.queue[s][p] \in Seq(Slots) /\ queue[s][p] = Append(b.queue[s][p], h)
    BY <1>1, <1>4, <2>1 DEF q
  <2>3. /\ Len(queue[s][p]) = Len(b.queue[s][p]) + 1 /\ Len(b.queue[s][p]) \in Nat
        /\ queue[s][p][Len(b.queue[s][p]) + 1] = h
        /\ \A n \in 1 .. Len(b.queue[s][p]) : queue[s][p][n] = b.queue[s][p][n]
    BY <2>2
  <2>4. k = Len(b.queue[s][p]) + 1 /\ j \in 1 .. Len(b.queue[s][p])
    <3>1. PICK m \in Nat : m = Len(b.queue[s][p])
      BY <2>3
    <3>2. k \in 1 .. m + 1 /\ j \in 1 .. m + 1
      BY <2>3, <3>1
    <3>3. ASSUME k \in 1 .. m PROVE FALSE
      <4>1. \A n \in 1 .. k : n \in 1 .. m
        BY <3>3
      <4> QED
        BY <1>9, <2>3, <3>1, <3>3, <4>1
    <3>4. k = m + 1 /\ j \in 1 .. m
      BY <3>2, <3>3
    <3> QED
      BY <3>1, <3>4
  <2>5. slab[queue[s][p][k]] = order /\ slab[queue[s][p][j]] = b.slab[b.queue[s][p][j]]
    BY <1>5, <1>7, <2>3, <2>4
  <2> QED
    BY <1>7, <2>4, <2>5
<1> QED
  BY <1>8, <1>9

\* An edit that keeps the order's id.
LEMMA EditInOrder ==
    ASSUME NEW S, Orders(S), NEW b, Exact(b, S), InOrder(b), NEW h \in Slots, NEW o,
           b.slab[h] # Free, o.exchange_order_id = b.slab[h].exchange_order_id,
           NEW c, c = [slab |-> [b.slab EXCEPT ![h] = o], queue |-> b.queue]
    PROVE  InOrder(c)
<1>1. /\ b.slab \in [Slots -> S \cup {Free}]
      /\ \A s \in Sides, p \in Prices : b.queue[s][p] \in Seq(Slots)
  BY ExactFacts
<1>2. c.queue = b.queue /\ c.slab = [b.slab EXCEPT ![h] = o]
  OBVIOUS
<1>3. \A x \in Slots : c.slab[x].exchange_order_id = b.slab[x].exchange_order_id
  BY <1>1, <1>2
<1>4. \A s \in Sides, p \in Prices : \A k \in 1 .. Len(b.queue[s][p]) : b.queue[s][p][k] \in Slots
  BY <1>1
<1> QED
  BY <1>2, <1>3, <1>4 DEF InOrder

\* The front of the best level is the best-priced and, there, the earliest of its side.
LEMMA FrontIsFirst ==
    ASSUME NEW S, Orders(S), NEW b, Exact(b, S), InOrder(b),
           \A x \in Slots : b.slab[x] # Free => b.slab[x].exchange_order_id \in Nat,
           NEW side \in Sides, ~empty(b, side),
           NEW x \in Slots, b.slab[x] # Free, b.slab[x].side = side
    PROVE  \/ Better(side, best_price(b, side), b.slab[x].price)
           \/ /\ b.slab[x].price = best_price(b, side)
              /\ b.slab[x].exchange_order_id
                   >= b.slab[front_of_best(b, side)].exchange_order_id
<1> DEFINE price == b.slab[x].price
           best  == best_price(b, side)
           q     == b.queue[side][best]
<1>1. price \in Prices
  BY ExactFacts DEF Orders
<1>2. In(b.queue[side][price], x)
  BY <1>1, ExactFacts DEF Filed
<1>3. price \in Levels(b, side)
  BY <1>1, <1>2 DEF Levels, In
<1>4. best \in Prices /\ q # << >> /\ ~Better(side, price, best)
  BY <1>3, BestPrice
<1>5. CASE price # best
  <2>1. price \in Nat /\ best \in Nat
    BY <1>1, <1>4, PricesAssumption
  <2>2. Better(side, best, price)
    <3> HIDE DEF price, best
    <3> QED
      BY <1>4, <1>5, <2>1 DEF Better
  <2> QED
    BY <2>2
<1>6. CASE price = best
  <2>1. q \in Seq(Slots) /\ front_of_best(b, side) = q[1]
    BY <1>4, ExactFacts DEF front_of_best
  <2>2. PICK k \in 1 .. Len(q) : q[k] = x
    BY <1>2, <1>6 DEF In
  <2>3. CASE k = 1
    BY <1>6, <2>1, <2>2, <2>3
  <2>4. CASE k # 1
    <3>1. 1 \in 1 .. Len(q) /\ 1 < k
      BY <2>1, <2>2, <2>4
    <3>2. b.slab[q[1]].exchange_order_id < b.slab[q[k]].exchange_order_id
      BY <1>4, <2>2, <3>1 DEF InOrder
    <3>3. b.slab[q[1]].exchange_order_id \in Nat /\ b.slab[x].exchange_order_id \in Nat
      BY <2>1, <1>4, FrontFacts
    <3> HIDE DEF price, best, q
    <3> QED
      BY <1>6, <2>1, <2>2, <3>2, <3>3 DEF price, best
  <2> QED
    BY <2>3, <2>4
<1> QED
  BY <1>5, <1>6

-----------------------------------------------------------------------------
(***************************************************************************)
(* Sums.                                                                   *)
(***************************************************************************)

\* A pair is a unit of f when its second half counts up to the value of the first.
LEMMA UnitOf ==
    ASSUME NEW D, NEW f \in [D -> Nat], NEW u
    PROVE  u \in Units(f) <=> \E x \in D, n \in Nat : u = <<x, n>> /\ 1 <= n /\ n <= f[x]
BY DEF Units

\* The units of one place.
LEMMA ColumnOf ==
    ASSUME NEW x, NEW n \in Nat
    PROVE  IsFiniteSet({x} \X (1 .. n)) /\ Cardinality({x} \X (1 .. n)) = n
<1>1. IsFiniteSet({x}) /\ Cardinality({x}) = 1
  BY FS_Singleton, Zenon
<1>2. IsFiniteSet(1 .. n) /\ Cardinality(1 .. n) = IF 1 > n THEN 0 ELSE n - 1 + 1
  BY FS_Interval, 1 \in Int, n \in Int, Zenon
<1>3. Cardinality(1 .. n) = n
  BY <1>2
<1>4. /\ IsFiniteSet({x} \X (1 .. n))
      /\ Cardinality({x} \X (1 .. n)) = Cardinality({x}) * Cardinality(1 .. n)
  BY <1>1, <1>2, FS_Product, Zenon
<1> QED
  BY <1>1, <1>3, <1>4

LEMMA UnitsFinite ==
    ASSUME NEW D, IsFiniteSet(D), NEW f \in [D -> Nat]
    PROVE  IsFiniteSet(Units(f))
<1> DEFINE g == [x \in D |-> {x} \X (1 .. f[x])]
           T == {{x} \X (1 .. f[x]) : x \in D}
<1>1. g \in Surjection(D, T)
  BY DEF Surjection
<1>2. IsFiniteSet(T)
  BY <1>1, FS_Surjection
<1>3. \A A \in T : IsFiniteSet(A)
  <2>1. \A x \in D : f[x] \in Nat
    OBVIOUS
  <2>2. \A x \in D : IsFiniteSet({x} \X (1 .. f[x]))
    BY <2>1, ColumnOf
  <2> QED
    BY <2>2
<1> HIDE DEF T
<1>4. IsFiniteSet(UNION T)
  BY <1>2, <1>3, FS_UNION
<1> QED
  BY <1>4 DEF Units, T

LEMMA TotalType ==
    ASSUME NEW D, IsFiniteSet(D), NEW f \in [D -> Nat]
    PROVE  Total(f) \in Nat
BY UnitsFinite, FS_CardinalityType DEF Total

\* One place taken out of a sum, and one place of it changed.
LEMMA TotalSplit ==
    ASSUME NEW D, IsFiniteSet(D), NEW f \in [D -> Nat], NEW x \in D
    PROVE  Total(f) = Total([f EXCEPT ![x] = 0]) + f[x]
<1> DEFINE rest == [f EXCEPT ![x] = 0]
           column == {x} \X (1 .. f[x])
<1>1. rest \in [D -> Nat]
  OBVIOUS
<1>2. /\ \A u : u \in Units(f) <=> \E y \in D, n \in Nat : u = <<y, n>> /\ 1 <= n /\ n <= f[y]
      /\ \A u : u \in Units(rest) <=> \E y \in D, n \in Nat : u = <<y, n>> /\ 1 <= n /\ n <= rest[y]
  BY <1>1, UnitOf
<1>3. \A y \in D : rest[y] = IF y = x THEN 0 ELSE f[y]
  OBVIOUS
<1>4. \A u : u \in column <=> \E n \in Nat : u = <<x, n>> /\ 1 <= n /\ n <= f[x]
  OBVIOUS
<1> HIDE DEF rest, column
<1>5. Units(f) = Units(rest) \cup column
  <2>1. ASSUME NEW u \in Units(f) PROVE u \in Units(rest) \cup column
    <3>1. PICK y \in D, n \in Nat : u = <<y, n>> /\ 1 <= n /\ n <= f[y]
      BY <1>2, <2>1
    <3> QED
      BY <1>2, <1>3, <1>4, <3>1
  <2>2. ASSUME NEW u \in Units(rest) \cup column PROVE u \in Units(f)
    <3>1. CASE u \in column
      BY <1>2, <1>4, <3>1
    <3>2. CASE u \in Units(rest)
      <4>1. PICK y \in D, n \in Nat : u = <<y, n>> /\ 1 <= n /\ n <= rest[y]
        BY <1>2, <3>2
      <4>2. n <= f[y]
        BY <1>3, <4>1
      <4> QED
        BY <1>2, <4>1, <4>2
    <3> QED
      BY <2>2, <3>1, <3>2
  <2> QED
    BY <2>1, <2>2
<1>6. Units(rest) \cap column = {}
  <2> SUFFICES ASSUME NEW u \in Units(rest), u \in column PROVE FALSE
    OBVIOUS
  <2>1. PICK y \in D, n \in Nat : u = <<y, n>> /\ 1 <= n /\ n <= rest[y]
    BY <1>2
  <2>2. y = x
    BY <1>4, <2>1
  <2> QED
    BY <1>3, <2>1, <2>2
<1>7. IsFiniteSet(Units(rest)) /\ IsFiniteSet(column) /\ Cardinality(column) = f[x]
  BY <1>1, UnitsFinite, ColumnOf DEF column
<1>8. Cardinality(Units(rest)) \in Nat
  BY <1>7, FS_CardinalityType
<1>9. Cardinality(Units(rest) \cup column) =
        Cardinality(Units(rest)) + Cardinality(column) - Cardinality({})
  BY <1>7, <1>6, FS_Union
<1> QED
  BY <1>7, <1>5, <1>8, <1>9, FS_EmptySet DEF Total, rest

LEMMA TotalUpdate ==
    ASSUME NEW D, IsFiniteSet(D), NEW f \in [D -> Nat], NEW x \in D, NEW v \in Nat
    PROVE  /\ Total([f EXCEPT ![x] = v]) = Total(f) - f[x] + v
           /\ f[x] <= Total(f)
<1> DEFINE rest == [f EXCEPT ![x] = 0]
           new  == [f EXCEPT ![x] = v]
<1>1. rest \in [D -> Nat] /\ new \in [D -> Nat] /\ new[x] = v /\ [new EXCEPT ![x] = 0] = rest
  OBVIOUS
<1>2. Total(f) = Total(rest) + f[x]
  BY TotalSplit
<1>3. Total(new) = Total(rest) + v
  <2> HIDE DEF new
  <2> QED
  BY <1>1, TotalSplit
<1>4. Total(rest) \in Nat
  BY <1>1, TotalType
<1> QED
  BY <1>2, <1>3, <1>4

LEMMA TotalNone ==
    ASSUME NEW D, NEW f \in [D -> Nat], \A x \in D : f[x] = 0
    PROVE  Total(f) = 0
<1>1. Units(f) = {}
  BY UnitOf
<1> QED
  BY <1>1, FS_EmptySet DEF Total

\* Places where the value is 0 do not count.
LEMMA TotalPadded ==
    ASSUME NEW D, NEW S \in SUBSET D, NEW f \in [S -> Nat], NEW g \in [D -> Nat],
           \A x \in D : g[x] = IF x \in S THEN f[x] ELSE 0
    PROVE  Total(f) = Total(g)
<1>1. Units(f) = Units(g)
  BY UnitOf
<1> QED
  BY <1>1 DEF Total

-----------------------------------------------------------------------------
(***************************************************************************)
(* crossable_quantity(), slot by slot.                                     *)
(***************************************************************************)

\* What the order in slot h adds to the quantity on `side` that crosses at `price`.
Offers(b, side, price) ==
    [h \in Slots |->
        IF b.slab[h] # Free /\ b.slab[h].side = side /\ Crosses(side, b.slab[h].price, price)
          THEN b.slab[h].remaining_quantity ELSE 0]

\* The levels that cross hold exactly the live orders that do.
LEMMA CrossableAre ==
    ASSUME NEW S, Orders(S), NEW b, Exact(b, S), NEW side \in Sides, NEW price
    PROVE  CrossableSlots(b, side, price) =
              {h \in Slots : /\ b.slab[h] # Free /\ b.slab[h].side = side
                             /\ Crosses(side, b.slab[h].price, price)}
<1>1. /\ b.slab \in [Slots -> S \cup {Free}]
      /\ Filed(b.slab, b.queue)
      /\ \A p \in Prices : b.queue[side][p] \in Seq(Slots)
  BY ExactFacts
<1>2. ASSUME NEW h
      PROVE  h \in CrossableSlots(b, side, price) <=>
                \E p \in Prices : Crosses(side, p, price) /\ In(b.queue[side][p], h)
  <2>1. ASSUME NEW p \in Prices
        PROVE  /\ h \in Range(b.queue[side][p]) <=> In(b.queue[side][p], h)
               /\ In(b.queue[side][p], h) => p \in Levels(b, side)
    <3>1. PICK q \in Seq(Slots) : q = b.queue[side][p]
      BY <1>1
    <3>2. h \in Range(q) <=> In(q, h)
      BY DEF Range, In
    <3>3. In(q, h) => q # << >>
      BY DEF In
    <3> QED
      BY <3>1, <3>2, <3>3 DEF Levels
  <2>2. Levels(b, side) \subseteq Prices
    BY DEF Levels
  <2> QED
    BY <2>1, <2>2 DEF CrossableSlots
<1>3. ASSUME NEW h
      PROVE  (\E p \in Prices : Crosses(side, p, price) /\ In(b.queue[side][p], h)) <=>
                /\ h \in Slots /\ b.slab[h] # Free /\ b.slab[h].side = side
                /\ Crosses(side, b.slab[h].price, price)
  <2>1. ASSUME NEW p \in Prices, In(b.queue[side][p], h)
        PROVE  h \in Slots /\ b.slab[h] # Free /\ b.slab[h].side = side /\ b.slab[h].price = p
    BY <1>1, <2>1 DEF Filed
  <2>2. ASSUME h \in Slots, b.slab[h] # Free, b.slab[h].side = side
        PROVE  b.slab[h].price \in Prices /\ In(b.queue[side][b.slab[h].price], h)
    BY <1>1, <2>2 DEF Filed, Orders
  <2> QED
    BY <2>1, <2>2
<1> QED
  BY <1>2, <1>3

LEMMA CrossableTotal ==
    ASSUME NEW S, Orders(S), \A o \in S : o.remaining_quantity \in Nat,
           NEW b, Exact(b, S), NEW side \in Sides, NEW price
    PROVE  /\ Offers(b, side, price) \in [Slots -> Nat]
           /\ crossable_quantity(b, side, price) = Total(Offers(b, side, price))
<1> DEFINE D == CrossableSlots(b, side, price)
           f == [h \in D |-> b.slab[h].remaining_quantity]
           g == Offers(b, side, price)
<1>1. b.slab \in [Slots -> S \cup {Free}]
  BY ExactFacts
<1>2. D = {h \in Slots : /\ b.slab[h] # Free /\ b.slab[h].side = side
                         /\ Crosses(side, b.slab[h].price, price)}
  BY CrossableAre
<1> HIDE DEF D
<1>3. \A h \in D : h \in Slots /\ b.slab[h].remaining_quantity \in Nat
  BY <1>1, <1>2
<1>4. g \in [Slots -> Nat] /\ \A h \in Slots : g[h] = IF h \in D THEN f[h] ELSE 0
  BY <1>1, <1>2, <1>3 DEF Offers
<1>5. D \in SUBSET Slots /\ f \in [D -> Nat]
  BY <1>2, <1>3
<1> HIDE DEF f, g
<1>6. Total(f) = Total(g)
  BY <1>4, <1>5, TotalPadded
<1> QED
  BY <1>4, <1>6 DEF crossable_quantity, f, g, D

-----------------------------------------------------------------------------
(***************************************************************************)
(* The engine.                                                             *)
(***************************************************************************)
\* The inductive invariant.  The type of a book is only kept because a handle in
\* the directory is live when remove_at() or reduce_at() is called with it, and
\* the order of a queue only because the book is exact.
EngineInv == TypeOK /\ BookIntegrity /\ DirectorySound

\* The same invariant, sorted by what a step changes.
BooksOK == /\ books \in [Instruments -> BookOf(BookOrder)]
           /\ \A i \in Instruments : Exact(books[i], BookOrder)

ScalarsOK == /\ registered \subseteq Instruments
             /\ next_exchange_order_id \in Nat \ {0}
             /\ next_priority \in Nat \ {0}

OrdersOK   == orders \in [Keys -> OrderRef \cup {None}]
IncomingOK == incoming \in ExchangeRestingOrder \cup {None}

\* A step after which every order on a book was there before, at the same side
\* and price: every step but resting a remainder.
NoNewOrder ==
    \A i \in Instruments, h \in Slots :
        LET o == books[i].slab[h]
            n == books'[i].slab[h]
        IN  n # Free => o # Free /\ n.side = o.side /\ n.price = o.price

LEMMA Parts == EngineInv <=> /\ BooksOK /\ ScalarsOK /\ OrdersOK /\ IncomingOK
                             /\ DirectorySound
BY DEF EngineInv, TypeOK, BookIntegrity, BooksOK, ScalarsOK, OrdersOK, IncomingOK, Exact

LEMMA BookOrders == Orders(BookOrder)
BY MarksAssumption DEF Orders, BookOrder

\* Replacing the book of one instrument.
LEMMA BookUpdate ==
    ASSUME BooksOK, NEW i \in Instruments, NEW c, Exact(c, BookOrder),
           books' = [books EXCEPT ![i] = c]
    PROVE  /\ BooksOK'
           /\ books'[i] = c
           /\ \A j \in Instruments : j # i => books'[j] = books[j]
<1>1. c \in BookOf(BookOrder)
  BY DEF Exact
<1>2. /\ books' \in [Instruments -> BookOf(BookOrder)]
      /\ books'[i] = c
      /\ \A j \in Instruments : j # i => books'[j] = books[j]
  BY <1>1 DEF BooksOK
<1>3. \A j \in Instruments : Exact(books'[j], BookOrder)
  BY <1>2 DEF BooksOK
<1> QED
  BY <1>2, <1>3 DEF BooksOK

\* An entry of the directory: where it points, and what it finds there.
LEMMA EntryFacts ==
    ASSUME BooksOK, OrdersOK, DirectorySound, NEW k \in Keys, orders[k] # None
    PROVE  /\ orders[k] \in OrderRef
           /\ orders[k].instrument_id \in Instruments
           /\ orders[k].handle \in Slots
           /\ LET o == books[orders[k].instrument_id].slab[orders[k].handle]
              IN  /\ o # Free
                  /\ o \in BookOrder
                  /\ k = <<o.account_id, o.client_order_id>>
<1>1. orders[k] \in OrderRef
  BY DEF OrdersOK
<1>2. orders[k].instrument_id \in Instruments /\ orders[k].handle \in Slots
  BY <1>1 DEF OrderRef
<1> DEFINE o == books[orders[k].instrument_id].slab[orders[k].handle]
<1>3. o # Free /\ k = <<o.account_id, o.client_order_id>>
  BY DEF DirectorySound, IsLive, at
<1>4. o \in BookOrder
  <2>1. books[orders[k].instrument_id] \in BookOf(BookOrder)
    BY <1>2 DEF BooksOK
  <2> QED
    BY <1>2, <1>3, <2>1 DEF BookOf
<1> QED
  BY <1>1, <1>2, <1>3, <1>4

-----------------------------------------------------------------------------
LEMMA InitInv == Init => EngineInv
<1> SUFFICES ASSUME Init PROVE EngineInv
  OBVIOUS
<1>1. Exact(EmptyBook, BookOrder)
  <2> DEFINE slab  == [h \in Slots |-> Free]
             queue == [s \in Sides |-> [p \in Prices |-> << >>]]
  <2>1. slab \in [Slots -> BookOrder \cup {Free}]
    OBVIOUS
  <2>2. queue \in [Sides -> [Prices -> Seq(Slots)]]
    OBVIOUS
  <2>3. \A s \in Sides, p \in Prices : NoRepeat(queue[s][p])
    BY DEF NoRepeat
  <2>4. Filed(slab, queue)
    BY DEF Filed, In
  <2>5. EmptyBook = [slab |-> slab, queue |-> queue]
    BY DEF EmptyBook
  <2> HIDE DEF slab, queue
  <2> QED
    BY <2>1, <2>2, <2>3, <2>4, <2>5, BookOrders, ExactIf, Zenon
<1>2. BooksOK
  BY <1>1 DEF BooksOK, Init, Exact
<1>3. ScalarsOK /\ OrdersOK /\ IncomingOK
  BY EngineAssumption DEF ScalarsOK, OrdersOK, IncomingOK, Init
<1>4. DirectorySound
  BY DEF DirectorySound, Init
<1> QED
  BY <1>2, <1>3, <1>4, Parts

-----------------------------------------------------------------------------
(***************************************************************************)
(* Steps that leave books and directory alone.                             *)
(***************************************************************************)
LEMMA QuietStep ==
    ASSUME EngineInv, UNCHANGED <<books, orders>>, ScalarsOK', IncomingOK'
    PROVE  EngineInv' /\ NoNewOrder
<1>1. BooksOK' /\ OrdersOK' /\ DirectorySound'
  BY Parts DEF BooksOK, OrdersOK, DirectorySound, IsLive, at
<1>2. EngineInv' <=> /\ BooksOK' /\ ScalarsOK' /\ OrdersOK' /\ IncomingOK'
                     /\ DirectorySound'
  BY Parts, PTL
<1>3. NoNewOrder
  BY DEF NoNewOrder
<1> QED
  BY <1>1, <1>2, <1>3

LEMMA PartsNext ==
    ASSUME BooksOK', ScalarsOK', OrdersOK', IncomingOK', DirectorySound'
    PROVE  EngineInv'
<1>1. EngineInv' <=> /\ BooksOK' /\ ScalarsOK' /\ OrdersOK' /\ IncomingOK'
                     /\ DirectorySound'
  BY Parts, PTL
<1> QED
  BY <1>1

LEMMA PartsAfter ==
    ASSUME EngineInv'
    PROVE  BooksOK' /\ ScalarsOK' /\ OrdersOK' /\ IncomingOK' /\ DirectorySound'
<1>1. EngineInv' <=> /\ BooksOK' /\ ScalarsOK' /\ OrdersOK' /\ IncomingOK'
                     /\ DirectorySound'
  BY Parts, PTL
<1> QED
  BY <1>1

\* An order leaves the book and its key leaves the directory, together: a fill,
\* a cancel, or a replace that gives up its place.
LEMMA RemoveStep ==
    ASSUME EngineInv, NEW i \in Instruments, NEW h \in Slots, NEW o,
           o = books[i].slab[h], o # Free,
           books' = [books EXCEPT ![i] = remove_at(books[i], h)],
           orders' = [orders EXCEPT ![<<o.account_id, o.client_order_id>>] = None]
    PROVE  BooksOK' /\ OrdersOK' /\ DirectorySound' /\ NoNewOrder
<1> DEFINE key == <<o.account_id, o.client_order_id>>
<1>1. BooksOK /\ OrdersOK /\ DirectorySound
  BY Parts
<1>2. o \in BookOrder /\ key \in Keys
  <2>1. books[i] \in BookOf(BookOrder)
    BY <1>1 DEF BooksOK
  <2>2. o \in BookOrder
    BY <2>1 DEF BookOf
  <2> QED
    BY <2>2 DEF BookOrder, Keys
<1>3. Exact(remove_at(books[i], h), BookOrder)
  BY <1>1, BookOrders, RemoveExact DEF BooksOK
<1>4. /\ BooksOK' /\ books'[i] = remove_at(books[i], h)
      /\ \A j \in Instruments : j # i => books'[j] = books[j]
  BY <1>1, <1>3, BookUpdate
<1>5. /\ books'[i].slab[h] = Free
      /\ \A x \in Slots : x # h => books'[i].slab[x] = books[i].slab[x]
  <2>1. books[i].slab \in [Slots -> BookOrder \cup {Free}]
    BY <1>1 DEF BooksOK, BookOf
  <2>2. books'[i].slab = [books[i].slab EXCEPT ![h] = Free]
    <3>1. remove_at(books[i], h).slab = [books[i].slab EXCEPT ![h] = Free]
      BY DEF remove_at
    <3> QED
      BY <1>4, <3>1
  <2> QED
    BY <2>1, <2>2
<1>6. /\ OrdersOK' /\ orders'[key] = None
      /\ \A k \in Keys : k # key => orders'[k] = orders[k]
  BY <1>1, <1>2 DEF OrdersOK
<1>7. DirectorySound'
  <2> SUFFICES ASSUME NEW k \in Keys, orders'[k] # None
               PROVE  LET r == books'[orders'[k].instrument_id].slab[orders'[k].handle]
                      IN  r # Free /\ k = <<r.account_id, r.client_order_id>>
    BY DEF DirectorySound, IsLive, at
  <2>1. k # key /\ orders'[k] = orders[k] /\ orders[k] # None
    BY <1>6
  <2> DEFINE j == orders[k].instrument_id
             x == orders[k].handle
  <2>2. /\ j \in Instruments /\ x \in Slots /\ books[j].slab[x] # Free
        /\ k = <<books[j].slab[x].account_id, books[j].slab[x].client_order_id>>
    BY <1>1, <2>1, EntryFacts
  <2>3. j # i \/ x # h
    BY <2>1, <2>2
  <2>4. books'[j].slab[x] = books[j].slab[x]
    BY <1>4, <1>5, <2>2, <2>3
  <2> QED
    BY <2>1, <2>2, <2>4
<1>8. NoNewOrder
  BY <1>4, <1>5 DEF NoNewOrder
<1> QED
  BY <1>4, <1>6, <1>7, <1>8

\* A resting order is edited in place: a partial fill.
LEMMA ReduceStep ==
    ASSUME EngineInv, NEW i \in Instruments, NEW h \in Slots, books[i].slab[h] # Free,
           NEW q \in Nat,
           books' = [books EXCEPT ![i] = reduce_at(books[i], h, q)],
           orders' = orders
    PROVE  BooksOK' /\ OrdersOK' /\ DirectorySound' /\ NoNewOrder
<1> DEFINE b == books[i]
           o == [b.slab[h] EXCEPT !.remaining_quantity = q]
<1>1. BooksOK /\ OrdersOK /\ DirectorySound
  BY Parts
<1>2. b \in BookOf(BookOrder) /\ b.slab[h] \in BookOrder
  BY <1>1 DEF BooksOK, BookOf
<1>3. /\ o \in BookOrder /\ o # Free
      /\ o.side = b.slab[h].side /\ o.price = b.slab[h].price
      /\ o.account_id = b.slab[h].account_id
      /\ o.client_order_id = b.slab[h].client_order_id
  BY <1>2, MarksAssumption DEF BookOrder
<1>4. reduce_at(b, h, q) = [slab |-> [b.slab EXCEPT ![h] = o], queue |-> b.queue]
  <2>1. b = [slab |-> b.slab, queue |-> b.queue]
    BY <1>2 DEF BookOf
  <2>2. reduce_at(b, h, q) = [b EXCEPT !.slab = [b.slab EXCEPT ![h] = o]]
    BY DEF reduce_at
  <2> HIDE DEF o, b
  <2> QED
    BY <2>1, <2>2
<1>5. Exact(reduce_at(b, h, q), BookOrder)
  <2> HIDE DEF o
  <2> QED
    BY <1>1, <1>3, <1>4, BookOrders, EditExact DEF BooksOK
<1>6. /\ BooksOK' /\ books'[i] = reduce_at(b, h, q)
      /\ \A j \in Instruments : j # i => books'[j] = books[j]
  BY <1>1, <1>5, BookUpdate
<1>7. /\ books'[i].slab[h] = o
      /\ \A x \in Slots : x # h => books'[i].slab[x] = books[i].slab[x]
  BY <1>2, <1>4, <1>6 DEF BookOf
<1>8. OrdersOK'
  BY <1>1 DEF OrdersOK
<1>9. DirectorySound'
  <2> SUFFICES ASSUME NEW k \in Keys, orders[k] # None
               PROVE  LET r == books'[orders[k].instrument_id].slab[orders[k].handle]
                      IN  r # Free /\ k = <<r.account_id, r.client_order_id>>
    BY DEF DirectorySound, IsLive, at
  <2> DEFINE j == orders[k].instrument_id
             x == orders[k].handle
  <2>1. /\ j \in Instruments /\ x \in Slots /\ books[j].slab[x] # Free
        /\ k = <<books[j].slab[x].account_id, books[j].slab[x].client_order_id>>
    BY <1>1, EntryFacts
  <2>2. CASE j = i /\ x = h
    <3> HIDE DEF o
    <3>1. books'[j].slab[x] = o
      BY <1>7, <2>2
    <3> QED
      BY <1>3, <2>1, <2>2, <3>1
  <2>3. CASE ~(j = i /\ x = h)
    <3>1. books'[j].slab[x] = books[j].slab[x]
      BY <1>6, <1>7, <2>1, <2>3
    <3> QED
      BY <2>1, <3>1
  <2> QED
    BY <2>2, <2>3
<1>10. NoNewOrder
  <2> HIDE DEF o
  <2> QED
    BY <1>3, <1>6, <1>7 DEF NoNewOrder
<1> QED
  BY <1>6, <1>8, <1>9, <1>10

-----------------------------------------------------------------------------
(***************************************************************************)
(* One lemma per operation of the engine.                                  *)
(***************************************************************************)
LEMMA RejectInv ==
    ASSUME EngineInv, UNCHANGED <<registered, books, orders, next_exchange_order_id,
                                  next_priority, incoming>>
    PROVE  EngineInv' /\ NoNewOrder
BY Parts, QuietStep DEF ScalarsOK, IncomingOK

LEMMA RegisterInv ==
    ASSUME EngineInv, NEW i \in Instruments, register_instrument(i)
    PROVE  EngineInv' /\ NoNewOrder
BY Parts, QuietStep DEF register_instrument, ScalarsOK, IncomingOK

LEMMA TakeIdsOK ==
    ASSUME ScalarsOK, TakeIds, UNCHANGED registered
    PROVE  ScalarsOK'
BY DEF ScalarsOK, TakeIds

LEMMA NewOrderInv ==
    ASSUME EngineInv, NEW c \in NewOrderCommand, process_new_order(c)
    PROVE  EngineInv' /\ NoNewOrder
<1>1. CASE RejectNewOrder(c)
  BY <1>1, RejectInv DEF RejectNewOrder, reject_new_order, Reject
<1>2. CASE AcceptNewOrder(c)
  <2>1. ScalarsOK'
    BY <1>2, Parts, TakeIdsOK DEF AcceptNewOrder
  <2>2. c.price \in Prices /\ c.quantity \in Nat
    <3>1. /\ c.price \in Prices \cup Invalid /\ ~(c.price <= 0)
          /\ c.quantity \in Quantities \cup Invalid
      BY <1>2 DEF AcceptNewOrder, NewOrderReason, NewOrderCommand
    <3>2. \A n \in Invalid : n = 0
      BY EngineAssumption
    <3>3. \A n \in Quantities : n \in Nat
      BY EngineAssumption
    <3>4. c.price \in Prices
      BY <3>1, <3>2
    <3> QED
      BY <3>1, <3>2, <3>3, <3>4
  <2>3. IncomingOK'
    BY <1>2, <2>2, Parts DEF AcceptNewOrder, IncomingOK, ExchangeRestingOrder,
                             NewOrderCommand, ScalarsOK
  <2> QED
    BY <1>2, <2>1, <2>3, QuietStep DEF AcceptNewOrder
<1> QED
  BY <1>1, <1>2 DEF process_new_order

LEMMA ContraSide == \A s \in Sides : contra(s) \in Sides
BY DEF contra, Sides

LEMMA MatchInv ==
    ASSUME EngineInv, match_and_rest
    PROVE  EngineInv' /\ NoNewOrder
<1> DEFINE i     == incoming.instrument_id
           s     == contra(incoming.side)
           h     == front_of_best(books[i], s)
           o     == at(books[i], h)
           qty   == Min2(incoming.remaining_quantity, o.remaining_quantity)
           after == o.remaining_quantity - qty
<1>1. /\ BooksOK /\ OrdersOK /\ ScalarsOK
      /\ incoming \in ExchangeRestingOrder
  BY Parts DEF match_and_rest, Idle, IncomingOK
<1>2. i \in Instruments /\ s \in Sides /\ incoming.remaining_quantity \in Nat
  BY <1>1, ContraSide DEF ExchangeRestingOrder
<1>3. ~empty(books[i], s)
  BY DEF match_and_rest, CanMatch
<1>4. /\ h \in Slots /\ o = books[i].slab[h] /\ o # Free /\ o \in BookOrder
      /\ remove_front(books[i], s) = remove_at(books[i], h)
  BY <1>1, <1>2, <1>3, BookOrders, FrontFacts DEF BooksOK, at
<1>5. o.remaining_quantity \in Nat
  BY <1>4 DEF BookOrder
<1>6. qty \in Nat /\ after \in Nat /\ incoming.remaining_quantity - qty \in Nat
  BY <1>2, <1>5 DEF Min2
<1>7. IncomingOK'
  <2>1. incoming' = [incoming EXCEPT !.remaining_quantity = @ - qty]
    BY DEF match_and_rest
  <2> HIDE DEF qty
  <2> QED
    BY <1>1, <1>6, <2>1 DEF IncomingOK, ExchangeRestingOrder
<1>8. ScalarsOK'
  BY <1>1 DEF match_and_rest, ScalarsOK
<1>9. BooksOK' /\ OrdersOK' /\ DirectorySound' /\ NoNewOrder
  <2>1. CASE after = 0
    <3>1. /\ books' = [books EXCEPT ![i] = remove_front(books[i], s)]
          /\ orders' = [orders EXCEPT ![<<o.account_id, o.client_order_id>>] = None]
      BY <2>1 DEF match_and_rest
    <3> HIDE DEF i, s, h, o
    <3> QED
      BY <1>2, <1>4, <3>1, RemoveStep
  <2>2. CASE after # 0
    <3>1. /\ books' = [books EXCEPT ![i] = reduce_at(books[i], h, after)]
          /\ orders' = orders
      BY <2>2 DEF match_and_rest, reduce_front
    <3> HIDE DEF i, s, h, o, after
    <3> QED
      BY <1>2, <1>4, <1>6, <3>1, ReduceStep
  <2> QED
    BY <2>1, <2>2
<1> QED
  BY <1>7, <1>8, <1>9, PartsNext

LEMMA RestInv ==
    ASSUME EngineInv, NEW h \in Slots, RestRemainder(h)
    PROVE  EngineInv'
<1> DEFINE i     == incoming.instrument_id
           b     == books[i]
           key   == <<incoming.account_id, incoming.client_order_id>>
           order == [exchange_order_id |-> incoming.exchange_order_id,
                     client_order_id |-> incoming.client_order_id,
                     account_id |-> incoming.account_id,
                     price |-> incoming.price,
                     remaining_quantity |-> incoming.remaining_quantity,
                     side |-> incoming.side,
                     time_in_force |-> incoming.time_in_force]
           ref   == [original_quantity |-> incoming.original_quantity,
                     order_sequence |-> incoming.order_sequence,
                     handle |-> h,
                     instrument_id |-> incoming.instrument_id]
<1>1. /\ BooksOK /\ OrdersOK /\ ScalarsOK /\ DirectorySound
      /\ incoming \in ExchangeRestingOrder
  BY Parts DEF RestRemainder, Idle, IncomingOK
<1>2. /\ i \in Instruments /\ order \in BookOrder /\ ref \in OrderRef
      /\ key \in Keys /\ key = <<order.account_id, order.client_order_id>>
      /\ ref.handle = h /\ ref.instrument_id = i
  BY <1>1 DEF ExchangeRestingOrder, BookOrder, OrderRef, Keys
<1>3. b.slab[h] = Free
  BY DEF RestRemainder, IsLive
<1>4. /\ books' = [books EXCEPT ![i] = add(b, order, h)]
      /\ orders' = [orders EXCEPT ![key] = ref]
      /\ incoming' = None
  BY DEF RestRemainder
<1> HIDE DEF order, ref, key
<1>5. Exact(add(b, order, h), BookOrder)
  BY <1>1, <1>2, <1>3, BookOrders, AddExact DEF BooksOK
<1>6. /\ BooksOK' /\ books'[i] = add(b, order, h)
      /\ \A j \in Instruments : j # i => books'[j] = books[j]
  BY <1>1, <1>2, <1>4, <1>5, BookUpdate
<1>7. /\ books'[i].slab[h] = order
      /\ \A x \in Slots : x # h => books'[i].slab[x] = b.slab[x]
  <2>1. add(b, order, h).slab = [b.slab EXCEPT ![h] = order]
    BY DEF add
  <2>2. b.slab \in [Slots -> BookOrder \cup {Free}]
    BY <1>1, <1>2 DEF BooksOK, BookOf
  <2> QED
    BY <1>6, <2>1, <2>2
<1>8. /\ OrdersOK' /\ orders'[key] = ref
      /\ \A k \in Keys : k # key => orders'[k] = orders[k]
  BY <1>1, <1>2, <1>4 DEF OrdersOK
<1>9. order # Free
  BY <1>2, MarksAssumption
<1>10. DirectorySound'
  <2> SUFFICES ASSUME NEW k \in Keys, orders'[k] # None
               PROVE  LET r == books'[orders'[k].instrument_id].slab[orders'[k].handle]
                      IN  r # Free /\ k = <<r.account_id, r.client_order_id>>
    BY DEF DirectorySound, IsLive, at
  <2>1. CASE k = key
    <3> HIDE DEF i
    <3>1. books'[orders'[k].instrument_id].slab[orders'[k].handle] = order
      BY <1>2, <1>7, <1>8, <2>1
    <3> QED
      BY <1>2, <1>9, <2>1, <3>1
  <2>2. CASE k # key
    <3>1. orders'[k] = orders[k] /\ orders[k] # None
      BY <1>8, <2>2
    <3> DEFINE j == orders[k].instrument_id
               x == orders[k].handle
    <3>2. /\ j \in Instruments /\ x \in Slots /\ books[j].slab[x] # Free
          /\ k = <<books[j].slab[x].account_id, books[j].slab[x].client_order_id>>
      BY <1>1, <3>1, EntryFacts
    <3>3. books'[j].slab[x] = books[j].slab[x]
      BY <1>3, <1>6, <1>7, <3>2
    <3> QED
      BY <3>1, <3>2, <3>3
  <2> QED
    BY <2>1, <2>2
<1>11. ScalarsOK' /\ IncomingOK'
  BY <1>1, <1>4 DEF RestRemainder, ScalarsOK, IncomingOK
<1> QED
  BY <1>6, <1>8, <1>10, <1>11, PartsNext

LEMMA FinishInv ==
    ASSUME EngineInv, rest_remainder_if_applicable
    PROVE  EngineInv'
<1>1. CASE \E h \in Slots : RestRemainder(h)
  BY <1>1, RestInv
<1>2. CASE DiscardRemainder
  BY <1>2, Parts, QuietStep DEF DiscardRemainder, ScalarsOK, IncomingOK
<1> QED
  BY <1>1, <1>2 DEF rest_remainder_if_applicable

LEMMA CancelInv ==
    ASSUME EngineInv, NEW c \in CancelOrderCommand, process_cancel(c)
    PROVE  EngineInv' /\ NoNewOrder
<1>1. CASE RejectCancel(c)
  BY <1>1, RejectInv DEF RejectCancel, Reject
<1>2. CASE CancelResting(c)
  <2> DEFINE k == <<c.account_id, c.client_order_id>>
             i == c.instrument_id
             h == orders[k].handle
             o == books[i].slab[h]
  <2>1. BooksOK /\ OrdersOK /\ DirectorySound /\ ScalarsOK /\ IncomingOK
    BY Parts
  <2>2. k \in Keys /\ i \in Instruments
    BY DEF CancelOrderCommand, Keys
  <2>3. orders[k] # None /\ orders[k].instrument_id = i
    BY <1>2 DEF CancelResting, CancelReason, UnknownOrder
  <2>4. h \in Slots /\ o # Free /\ k = <<o.account_id, o.client_order_id>>
    BY <2>1, <2>2, <2>3, EntryFacts
  <2>5. /\ books' = [books EXCEPT ![i] = remove_at(books[i], h)]
        /\ orders' = [orders EXCEPT ![k] = None]
    BY <1>2 DEF CancelResting
  <2>6. BooksOK' /\ OrdersOK' /\ DirectorySound' /\ NoNewOrder
    <3> HIDE DEF k, i, h
    <3> QED
      BY <2>2, <2>4, <2>5, RemoveStep
  <2>7. ScalarsOK' /\ IncomingOK'
    BY <1>2, <2>1 DEF CancelResting, ScalarsOK, IncomingOK
  <2> QED
    BY <2>6, <2>7, PartsNext
<1> QED
  BY <1>1, <1>2 DEF process_cancel

\* What process_replace() knows of the order it is about to replace.
LEMMA ReplaceFacts ==
    ASSUME EngineInv, NEW c \in ReplaceOrderCommand, ReplaceReason(c) = "None",
           NEW k, k = <<c.account_id, c.original_client_order_id>>,
           NEW i, i = c.instrument_id
    PROVE  /\ k \in Keys /\ i \in Instruments
           /\ orders[k] \in OrderRef /\ orders[k] # None /\ orders[k].instrument_id = i
           /\ orders[k].handle \in Slots
           /\ LET o == books[i].slab[orders[k].handle]
              IN  /\ o # Free /\ o \in BookOrder
                  /\ k = <<o.account_id, o.client_order_id>>
           /\ c.new_price \in Prices /\ c.new_quantity \in Nat
           /\ c.new_client_order_id \in ClientIds /\ c.account_id \in Accounts
<1>1. BooksOK /\ OrdersOK /\ DirectorySound
  BY Parts
<1>2. /\ k \in Keys /\ i \in Instruments
      /\ c.new_client_order_id \in ClientIds /\ c.account_id \in Accounts
      /\ c.new_price \in Prices \cup Invalid
      /\ c.new_quantity \in Quantities \cup Invalid
  BY DEF ReplaceOrderCommand, Keys
<1>3. /\ orders[k] # None /\ orders[k].instrument_id = i
      /\ ~(c.new_price <= 0)
  BY DEF ReplaceReason, UnknownOrder
<1>4. c.new_price \in Prices /\ c.new_quantity \in Nat
  <2>1. \A n \in Invalid : n = 0
    BY EngineAssumption
  <2>2. \A n \in Quantities : n \in Nat
    BY EngineAssumption
  <2>3. c.new_price \in Prices
    BY <1>2, <1>3, <2>1
  <2> QED
    BY <1>2, <2>1, <2>2, <2>3
<1> QED
  BY <1>1, <1>2, <1>3, <1>4, EntryFacts

LEMMA ReplaceAsNewInv ==
    ASSUME EngineInv, NEW c \in ReplaceOrderCommand, ReplaceAsNew(c)
    PROVE  EngineInv' /\ NoNewOrder
<1> DEFINE k == <<c.account_id, c.original_client_order_id>>
           i == c.instrument_id
           h == orders[k].handle
           o == books[i].slab[h]
<1>1. /\ k \in Keys /\ i \in Instruments /\ h \in Slots
      /\ o # Free /\ o \in BookOrder /\ k = <<o.account_id, o.client_order_id>>
      /\ c.new_price \in Prices /\ c.new_quantity \in Nat
      /\ c.new_client_order_id \in ClientIds /\ c.account_id \in Accounts
  BY ReplaceFacts DEF ReplaceAsNew
<1>2. /\ books' = [books EXCEPT ![i] = remove_at(books[i], h)]
      /\ orders' = [orders EXCEPT ![k] = None]
  BY DEF ReplaceAsNew
<1>3. BooksOK' /\ OrdersOK' /\ DirectorySound' /\ NoNewOrder
  <2> HIDE DEF k, i, h
  <2> QED
    BY <1>1, <1>2, RemoveStep
<1>4. ScalarsOK /\ ScalarsOK'
  BY Parts, TakeIdsOK DEF ReplaceAsNew
<1>5. IncomingOK'
  <2>1. incoming' = [exchange_order_id |-> next_exchange_order_id,
                     client_order_id |-> c.new_client_order_id,
                     account_id |-> c.account_id,
                     price |-> c.new_price,
                     original_quantity |-> c.new_quantity,
                     remaining_quantity |-> c.new_quantity,
                     order_sequence |-> next_priority,
                     instrument_id |-> i,
                     side |-> o.side,
                     time_in_force |-> o.time_in_force]
    BY DEF ReplaceAsNew, at
  <2>2. o.side \in Sides /\ o.time_in_force \in TimeInForce
    BY <1>1 DEF BookOrder
  <2> HIDE DEF o, i
  <2> QED
    BY <1>1, <1>4, <2>1, <2>2 DEF IncomingOK, ExchangeRestingOrder, ScalarsOK
<1> QED
  BY <1>3, <1>4, <1>5, PartsNext

\* The in-place path: the order's key and the directory change together, and an
\* entry that was already under the new key is overwritten, not left dangling.
LEMMA ReplaceInPlaceInv ==
    ASSUME EngineInv, NEW c \in ReplaceOrderCommand, ReplaceInPlace(c)
    PROVE  EngineInv' /\ NoNewOrder
<1> DEFINE k   == <<c.account_id, c.original_client_order_id>>
           new == <<c.account_id, c.new_client_order_id>>
           i   == c.instrument_id
           ref == orders[k]
           h   == ref.handle
           b   == books[i]
           o   == [b.slab[h] EXCEPT !.remaining_quantity = c.new_quantity,
                                    !.client_order_id = c.new_client_order_id]
           d   == set_client_order_id_at(reduce_at(b, h, c.new_quantity), h,
                                         c.new_client_order_id)
<1>1. BooksOK /\ OrdersOK /\ DirectorySound /\ ScalarsOK /\ IncomingOK
  BY Parts
<1>2. /\ k \in Keys /\ i \in Instruments /\ ref \in OrderRef /\ ref # None
      /\ ref.instrument_id = i /\ h \in Slots
      /\ b.slab[h] # Free /\ b.slab[h] \in BookOrder
      /\ k = <<b.slab[h].account_id, b.slab[h].client_order_id>>
      /\ c.new_quantity \in Nat /\ c.new_client_order_id \in ClientIds
      /\ c.account_id \in Accounts
  BY ReplaceFacts DEF ReplaceInPlace
<1>3. /\ books' = [books EXCEPT ![i] = d]
      /\ orders' = [orders EXCEPT ![k] = None, ![new] = ref]
      /\ UNCHANGED <<registered, next_exchange_order_id, next_priority, incoming>>
  BY DEF ReplaceInPlace
<1>4. new \in Keys /\ b \in BookOf(BookOrder)
  BY <1>1, <1>2 DEF Keys, BooksOK
<1>5. /\ o \in BookOrder /\ o # Free
      /\ o.side = b.slab[h].side /\ o.price = b.slab[h].price
      /\ new = <<o.account_id, o.client_order_id>>
  BY <1>2, MarksAssumption DEF BookOrder
<1>6. d = [slab |-> [b.slab EXCEPT ![h] = o], queue |-> b.queue]
  <2>1. b = [slab |-> b.slab, queue |-> b.queue] /\ b.slab \in [Slots -> BookOrder \cup {Free}]
    BY <1>4 DEF BookOf
  <2> DEFINE o1 == [b.slab[h] EXCEPT !.remaining_quantity = c.new_quantity]
             b1 == [slab |-> [b.slab EXCEPT ![h] = o1], queue |-> b.queue]
  <2>2. reduce_at(b, h, c.new_quantity) = [b EXCEPT !.slab = [b.slab EXCEPT ![h] = o1]]
    BY DEF reduce_at
  <2>3. reduce_at(b, h, c.new_quantity) = b1
    <3> HIDE DEF o1, b
    <3> QED
      BY <2>1, <2>2
  <2>4. o = [o1 EXCEPT !.client_order_id = c.new_client_order_id]
    BY <1>2 DEF BookOrder
  <2> HIDE DEF o, o1, b, h
  <2>5. b1.slab[h] = o1 /\ b1.slab = [b.slab EXCEPT ![h] = o1]
    BY <1>2, <2>1
  <2>6. d = [b1 EXCEPT !.slab = [b1.slab EXCEPT ![h] = o]]
    BY <2>3, <2>4, <2>5 DEF set_client_order_id_at
  <2> QED
    BY <1>2, <2>1, <2>5, <2>6
<1>7. Exact(d, BookOrder)
  <2> HIDE DEF o, d, h, b
  <2>1. Exact(b, BookOrder)
    BY <1>1, <1>2 DEF BooksOK, b
  <2> QED
    BY <1>2, <1>5, <1>6, <2>1, BookOrders, EditExact
<1> HIDE DEF o, d, k, new
<1>8. /\ BooksOK' /\ books'[i] = d
      /\ \A j \in Instruments : j # i => books'[j] = books[j]
  BY <1>1, <1>2, <1>3, <1>7, BookUpdate
<1>9. /\ books'[i].slab[h] = o
      /\ \A x \in Slots : x # h => books'[i].slab[x] = b.slab[x]
  BY <1>2, <1>4, <1>6, <1>8 DEF BookOf
<1>10. /\ OrdersOK' /\ orders'[new] = ref
       /\ k # new => orders'[k] = None
       /\ \A x \in Keys : x # k /\ x # new => orders'[x] = orders[x]
  BY <1>1, <1>2, <1>3, <1>4 DEF OrdersOK
<1>11. DirectorySound'
  <2> SUFFICES ASSUME NEW x \in Keys, orders'[x] # None
               PROVE  LET r == books'[orders'[x].instrument_id].slab[orders'[x].handle]
                      IN  r # Free /\ x = <<r.account_id, r.client_order_id>>
    BY DEF DirectorySound, IsLive, at
  <2>1. CASE x = new
    <3>1. books'[orders'[x].instrument_id].slab[orders'[x].handle] = o
      BY <1>2, <1>9, <1>10, <2>1
    <3> QED
      BY <1>5, <2>1, <3>1
  <2>2. CASE x # new
    <3>1. x # k /\ orders'[x] = orders[x] /\ orders[x] # None
      BY <1>10, <2>2
    <3> DEFINE j == orders[x].instrument_id
               y == orders[x].handle
    <3>2. /\ j \in Instruments /\ y \in Slots /\ books[j].slab[y] # Free
          /\ x = <<books[j].slab[y].account_id, books[j].slab[y].client_order_id>>
      BY <1>1, <3>1, EntryFacts
    <3>3. j # i \/ y # h
      BY <1>2, <3>1, <3>2
    <3>4. books'[j].slab[y] = books[j].slab[y]
      BY <1>8, <1>9, <3>2, <3>3
    <3> QED
      BY <3>1, <3>2, <3>4
  <2> QED
    BY <2>1, <2>2
<1>12. ScalarsOK' /\ IncomingOK'
  BY <1>1, <1>3 DEF ScalarsOK, IncomingOK
<1>13. NoNewOrder
  BY <1>2, <1>5, <1>8, <1>9 DEF NoNewOrder
<1> QED
  BY <1>8, <1>10, <1>11, <1>12, <1>13, PartsNext

LEMMA ReplaceInv ==
    ASSUME EngineInv, NEW c \in ReplaceOrderCommand, process_replace(c)
    PROVE  EngineInv' /\ NoNewOrder
<1>1. CASE RejectReplace(c)
  BY <1>1, RejectInv DEF RejectReplace, reject_replace_order, Reject
<1> QED
  BY <1>1, ReplaceInPlaceInv, ReplaceAsNewInv DEF process_replace

-----------------------------------------------------------------------------
(***************************************************************************)
(* The engine's invariant.                                                 *)
(***************************************************************************)

LEMMA EngineStep ==
    ASSUME EngineInv, [Next]_engineVars
    PROVE  EngineInv'
<1>1. CASE \E i \in Instruments : register_instrument(i)
  BY <1>1, RegisterInv
<1>2. CASE \E c \in NewOrderCommand : process_new_order(c)
  BY <1>2, NewOrderInv
<1>3. CASE \E c \in CancelOrderCommand : process_cancel(c)
  BY <1>3, CancelInv
<1>4. CASE \E c \in ReplaceOrderCommand : ClientMaySend(c) /\ process_replace(c)
  BY <1>4, ReplaceInv
<1>5. CASE match_and_rest
  BY <1>5, MatchInv
<1>6. CASE rest_remainder_if_applicable
  BY <1>6, FinishInv
<1>7. CASE UNCHANGED engineVars
  BY <1>7, RejectInv DEF engineVars
<1> QED
  BY <1>1, <1>2, <1>3, <1>4, <1>5, <1>6, <1>7 DEF Next

\* Types, exact books and a sound directory, in every reachable state.
THEOREM EngineInvariance == Spec => []EngineInv
<1>1. Init => EngineInv
  BY InitInv
<1>2. EngineInv /\ [Next]_engineVars => EngineInv'
  BY EngineStep
<1> QED
  BY <1>1, <1>2, PTL DEF Spec

-----------------------------------------------------------------------------
(***************************************************************************)
(* The book never crosses.                                                 *)
(***************************************************************************)

\* A step that brings no new order onto a book cannot cross it.
LEMMA NoNewOrderNoCross ==
    ASSUME NoCrossedBook, NoNewOrder
    PROVE  NoCrossedBook'
BY DEF NoCrossedBook, NoNewOrder, LiveSlots, at

\* When the loop of match_and_rest() ends with quantity left, no order on the
\* other side crosses the limit: best_price() is the best of all the levels.
LEMMA LoopExhausts ==
    ASSUME EngineInv, incoming \in ExchangeRestingOrder, ~CanMatch,
           incoming.remaining_quantity # 0,
           NEW x \in Slots, books[incoming.instrument_id].slab[x] # Free,
           books[incoming.instrument_id].slab[x].side = contra(incoming.side)
    PROVE  LET o == books[incoming.instrument_id].slab[x]
           IN  IF incoming.side = "Buy" THEN incoming.price < o.price
                                        ELSE o.price < incoming.price
<1> DEFINE b == books[incoming.instrument_id]
           s == contra(incoming.side)
           o == b.slab[x]
<1>1. /\ incoming.instrument_id \in Instruments /\ incoming.side \in Sides
      /\ incoming.price \in Prices /\ incoming.remaining_quantity \in Nat
      /\ s \in Sides
  BY ContraSide DEF ExchangeRestingOrder
<1>2. Exact(b, BookOrder)
  BY <1>1, Parts DEF BooksOK
<1>3. o.price \in Prices
  BY <1>2, BookOrders, ExactFacts DEF Orders
<1>4. o.price \in Levels(b, s)
  <2>1. In(b.queue[s][o.price], x)
    BY <1>1, <1>2, <1>3, BookOrders, ExactFacts DEF Filed
  <2>2. b.queue[s][o.price] # << >>
    BY <2>1 DEF In
  <2> QED
    BY <1>3, <2>2 DEF Levels
<1>5. ~empty(b, s)
  BY <1>4 DEF empty
<1>6. ~Crosses(s, best_price(b, s), incoming.price)
  BY <1>1, <1>5 DEF CanMatch
<1>7. best_price(b, s) \in Prices /\ ~Better(s, o.price, best_price(b, s))
  BY <1>1, <1>4, <1>5, BestPrice
<1>8. o.price \in Nat /\ best_price(b, s) \in Nat /\ incoming.price \in Nat
  BY <1>1, <1>3, <1>7, PricesAssumption
<1> HIDE DEF b, o
<1>9. IF incoming.side = "Buy" THEN incoming.price < o.price
                               ELSE o.price < incoming.price
  BY <1>1, <1>6, <1>7, <1>8 DEF Crosses, Better, contra, Sides
<1> QED
  BY <1>9 DEF o, b

\* So what is left of the order may rest.
LEMMA RestNoCross ==
    ASSUME EngineInv, NoCrossedBook, NEW h \in Slots, RestRemainder(h)
    PROVE  NoCrossedBook'
<1> DEFINE i     == incoming.instrument_id
           b     == books[i]
           order == [exchange_order_id |-> incoming.exchange_order_id,
                     client_order_id |-> incoming.client_order_id,
                     account_id |-> incoming.account_id,
                     price |-> incoming.price,
                     remaining_quantity |-> incoming.remaining_quantity,
                     side |-> incoming.side,
                     time_in_force |-> incoming.time_in_force]
<1>1. /\ incoming \in ExchangeRestingOrder /\ ~CanMatch
      /\ incoming.remaining_quantity # 0
  BY Parts DEF RestRemainder, Rests, Idle, IncomingOK
<1>2. i \in Instruments /\ incoming.side \in Sides
  BY <1>1 DEF ExchangeRestingOrder
<1>3. /\ books' = [books EXCEPT ![i] = add(b, order, h)]
      /\ order.side = incoming.side /\ order.price = incoming.price
  BY DEF RestRemainder
<1> HIDE DEF order
<1>4. /\ \A j \in Instruments : j # i => books'[j] = books[j]
      /\ books'[i].slab[h] = order
      /\ \A x \in Slots : x # h => books'[i].slab[x] = b.slab[x]
  <2>1. books \in [Instruments -> BookOf(BookOrder)]
    BY Parts DEF BooksOK
  <2>2. b.slab \in [Slots -> BookOrder \cup {Free}]
    BY <1>2, <2>1 DEF BookOf
  <2>3. add(b, order, h).slab = [b.slab EXCEPT ![h] = order]
    BY DEF add
  <2>4. books'[i] = add(b, order, h) /\ \A j \in Instruments : j # i => books'[j] = books[j]
    BY <1>2, <1>3, <2>1
  <2> QED
    BY <2>2, <2>3, <2>4
<1> SUFFICES ASSUME NEW j \in Instruments, NEW x \in Slots, NEW y \in Slots,
                    books'[j].slab[x] # Free, books'[j].slab[y] # Free,
                    books'[j].slab[x].side = "Buy", books'[j].slab[y].side = "Sell"
             PROVE  books'[j].slab[x].price < books'[j].slab[y].price
  BY DEF NoCrossedBook, LiveSlots, at
<1>5. CASE j # i
  BY <1>4, <1>5 DEF NoCrossedBook, LiveSlots, at
<1>6. CASE j = i /\ x # h /\ y # h
  BY <1>4, <1>6 DEF NoCrossedBook, LiveSlots, at
<1>7. CASE j = i /\ x = h /\ y # h
  <2>1. /\ incoming.side = "Buy" /\ books'[j].slab[x].price = incoming.price
        /\ b.slab[y] # Free /\ b.slab[y].side = contra(incoming.side)
        /\ books'[j].slab[y] = b.slab[y]
    BY <1>3, <1>4, <1>7 DEF contra
  <2> QED
    BY <1>1, <2>1, LoopExhausts
<1>8. CASE j = i /\ x # h /\ y = h
  <2>1. /\ incoming.side = "Sell" /\ books'[j].slab[y].price = incoming.price
        /\ b.slab[x] # Free /\ b.slab[x].side = contra(incoming.side)
        /\ books'[j].slab[x] = b.slab[x]
    BY <1>3, <1>4, <1>8 DEF contra
  <2> QED
    BY <1>1, <2>1, LoopExhausts
<1> QED
  BY <1>5, <1>6, <1>7, <1>8

\* No resting bid is ever at or above a resting ask, in any book, even in the
\* middle of match_and_rest().
THEOREM NeverCrossed == Spec => []NoCrossedBook
<1>1. Init => NoCrossedBook
  BY DEF Init, NoCrossedBook, LiveSlots, EmptyBook
<1>2. EngineInv /\ NoCrossedBook /\ [Next]_engineVars => NoCrossedBook'
  <2> SUFFICES ASSUME EngineInv, NoCrossedBook, [Next]_engineVars PROVE NoCrossedBook'
    OBVIOUS
  <2>1. CASE \E i \in Instruments : register_instrument(i)
    BY <2>1, RegisterInv, NoNewOrderNoCross
  <2>2. CASE \E c \in NewOrderCommand : process_new_order(c)
    BY <2>2, NewOrderInv, NoNewOrderNoCross
  <2>3. CASE \E c \in CancelOrderCommand : process_cancel(c)
    BY <2>3, CancelInv, NoNewOrderNoCross
  <2>4. CASE \E c \in ReplaceOrderCommand : ClientMaySend(c) /\ process_replace(c)
    BY <2>4, ReplaceInv, NoNewOrderNoCross
  <2>5. CASE match_and_rest
    BY <2>5, MatchInv, NoNewOrderNoCross
  <2>6. CASE rest_remainder_if_applicable
    <3>1. CASE \E h \in Slots : RestRemainder(h)
      BY <3>1, RestNoCross
    <3>2. CASE DiscardRemainder
      BY <3>2 DEF DiscardRemainder, NoCrossedBook
    <3> QED
      BY <2>6, <3>1, <3>2 DEF rest_remainder_if_applicable
  <2>7. CASE UNCHANGED engineVars
    BY <2>7, RejectInv, NoNewOrderNoCross DEF engineVars
  <2> QED
    BY <2>1, <2>2, <2>3, <2>4, <2>5, <2>6, <2>7 DEF Next
<1> QED
  BY <1>1, <1>2, EngineInvariance, PTL DEF Spec

-----------------------------------------------------------------------------
\* The parts of the invariant that runs of TLC check by name: the types, ...
THEOREM TypeCorrect == Spec => []TypeOK
BY EngineInvariance, PTL DEF EngineInv

\* ... that every level queue holds exactly the live orders of its side and
\* price, so that remove_at() and remove_front() find what they look for, ...
THEOREM BooksIntact == Spec => []BookIntegrity
BY EngineInvariance, PTL DEF EngineInv

\* ... and that no Handle in orders_ is ever stale, even when clients replace
\* onto ids that are live.
THEOREM DirectoryNeverStale == Spec => []DirectorySound
BY EngineInvariance, PTL DEF EngineInv
-----------------------------------------------------------------------------
(***************************************************************************)
(* What a step does to books and directory: nothing, or one of three       *)
(* things to one order.                                                    *)
(***************************************************************************)

\* An order leaves, and its key with it.
Removes(i, h) ==
    LET o == books[i].slab[h]
    IN  /\ o # Free
        /\ books' = [books EXCEPT ![i] = remove_at(books[i], h)]
        /\ orders' = [orders EXCEPT ![LiveKey(o)] = None]

\* An order becomes o where it stands: less quantity, perhaps another client order id.
Edits(i, h, o) ==
    LET old == books[i].slab[h]
    IN  /\ old # Free
        /\ o.exchange_order_id = old.exchange_order_id
        /\ o.side = old.side /\ o.price = old.price /\ o.account_id = old.account_id
        /\ o.time_in_force = old.time_in_force
        /\ o.remaining_quantity \in 1 .. old.remaining_quantity
        /\ books' = [books EXCEPT ![i] = [slab  |-> [books[i].slab EXCEPT ![h] = o],
                                          queue |-> books[i].queue]]
        /\ orders' = [orders EXCEPT ![LiveKey(old)] = None,
                                    ![LiveKey(o)] = orders[LiveKey(old)]]
        /\ FreshReplaceIds => LiveKey(o) = LiveKey(old) \/ orders[LiveKey(o)] = None

\* What is left of the incoming order rests as o.
Adds(i, h, o, ref) ==
    /\ incoming \in ExchangeRestingOrder /\ incoming' = None
    /\ books[i].slab[h] = Free
    /\ books' = [books EXCEPT ![i] = add(books[i], o, h)]
    /\ orders' = [orders EXCEPT ![LiveKey(o)] = ref]
    /\ LiveKey(o) = LiveKey(incoming)
    /\ o.exchange_order_id = incoming.exchange_order_id
    /\ o.time_in_force = GTC
    /\ o.remaining_quantity = incoming.remaining_quantity /\ o.remaining_quantity # 0
    /\ ref.order_sequence = incoming.order_sequence
    /\ ref.original_quantity = incoming.original_quantity
    /\ ref.handle = h /\ ref.instrument_id = i

Effect ==
    \/ UNCHANGED <<books, orders>>
    \/ \E i \in Instruments, h \in Slots : Removes(i, h)
    \/ \E i \in Instruments, h \in Slots, o \in BookOrder : Edits(i, h, o)
    \/ \E i \in Instruments, h \in Slots, o \in BookOrder, ref \in OrderRef : Adds(i, h, o, ref)

\* Every order on a book has quantity left.
Positive ==
    \A i \in Instruments, h \in Slots :
        books[i].slab[h] # Free => books[i].slab[h].remaining_quantity # 0

LEMMA SlabOrder ==
    ASSUME EngineInv, NEW i \in Instruments, NEW h \in Slots, books[i].slab[h] # Free
    PROVE  books[i].slab[h] \in BookOrder /\ LiveKey(books[i].slab[h]) \in Keys
<1>1. books[i] \in BookOf(BookOrder)
  BY Parts DEF BooksOK
<1>2. books[i].slab[h] \in BookOrder
  BY <1>1 DEF BookOf
<1> QED
  BY <1>2 DEF BookOrder, LiveKey, Keys

\* Quantity is taken off an order and nothing else changes.
LEMMA ReduceEdits ==
    ASSUME EngineInv, NEW i \in Instruments, NEW h \in Slots, books[i].slab[h] # Free,
           NEW q \in 1 .. books[i].slab[h].remaining_quantity,
           books' = [books EXCEPT ![i] = reduce_at(books[i], h, q)],
           orders' = orders
    PROVE  \E o \in BookOrder : Edits(i, h, o)
<1>1. PICK old \in BookOrder : old = books[i].slab[h] /\ LiveKey(old) \in Keys
  BY SlabOrder
<1>2. PICK o : o = [old EXCEPT !.remaining_quantity = q]
  OBVIOUS
<1>3. q \in Nat /\ q \in 1 .. old.remaining_quantity
  BY <1>1 DEF BookOrder
<1>4. /\ o \in BookOrder
      /\ o.exchange_order_id = old.exchange_order_id
      /\ o.side = old.side /\ o.price = old.price /\ o.account_id = old.account_id
      /\ o.client_order_id = old.client_order_id
      /\ o.remaining_quantity = q
      /\ o.time_in_force = old.time_in_force
  BY <1>1, <1>2, <1>3 DEF BookOrder
<1>5. PICK b \in BookOf(BookOrder) : b = books[i]
  BY Parts DEF BooksOK
<1>6. reduce_at(b, h, q) = [slab |-> [b.slab EXCEPT ![h] = o], queue |-> b.queue]
  <2>1. b = [slab |-> b.slab, queue |-> b.queue]
    BY DEF BookOf
  <2>2. reduce_at(b, h, q) = [b EXCEPT !.slab = [b.slab EXCEPT ![h] = o]]
    BY <1>1, <1>2, <1>5 DEF reduce_at
  <2> QED
    BY <2>1, <2>2
<1>7. LiveKey(o) = LiveKey(old)
  BY <1>4 DEF LiveKey
<1>8. orders' = [orders EXCEPT ![LiveKey(old)] = None, ![LiveKey(o)] = orders[LiveKey(old)]]
  <2>1. OrdersOK
    BY Parts
  <2>2. PICK k \in Keys : k = LiveKey(old) /\ k = LiveKey(o)
    BY <1>1, <1>7
  <2>3. orders' = [orders EXCEPT ![k] = None, ![k] = orders[k]]
    BY <2>1 DEF OrdersOK
  <2> QED
    BY <2>2, <2>3
<1>9. Edits(i, h, o)
  BY <1>1, <1>3, <1>4, <1>5, <1>6, <1>7, <1>8 DEF Edits
<1> QED
  BY <1>4, <1>9

LEMMA MatchEffect ==
    ASSUME EngineInv, Positive, match_and_rest
    PROVE  Effect
<1>1. incoming \in ExchangeRestingOrder /\ BooksOK
  BY Parts DEF match_and_rest, Idle, IncomingOK
<1>2. PICK i \in Instruments, s \in Sides, n \in Nat :
         /\ i = incoming.instrument_id /\ s = contra(incoming.side)
         /\ n = incoming.remaining_quantity
  BY <1>1, ContraSide DEF ExchangeRestingOrder
<1>3. n > 0 /\ ~empty(books[i], s)
  BY <1>2 DEF match_and_rest, CanMatch
<1>4. PICK h \in Slots, o \in BookOrder :
         /\ h = front_of_best(books[i], s) /\ o = books[i].slab[h] /\ o # Free
         /\ remove_front(books[i], s) = remove_at(books[i], h)
  BY <1>1, <1>3, BookOrders, FrontFacts DEF BooksOK
<1>5. PICK after : after = o.remaining_quantity - Min2(n, o.remaining_quantity)
  OBVIOUS
<1>6. o.remaining_quantity \in Nat /\ o.remaining_quantity # 0
  BY <1>4 DEF Positive, BookOrder
<1>7. after \in Nat /\ (after # 0 => after \in 1 .. o.remaining_quantity)
  BY <1>3, <1>5, <1>6 DEF Min2
<1>8. CASE after = 0
  <2>1. /\ books' = [books EXCEPT ![i] = remove_front(books[i], s)]
        /\ orders' = [orders EXCEPT ![<<o.account_id, o.client_order_id>>] = None]
    BY <1>2, <1>4, <1>5, <1>8 DEF match_and_rest, at
  <2>2. Removes(i, h)
    BY <1>4, <2>1 DEF Removes, LiveKey
  <2> QED
    BY <2>2 DEF Effect
<1>9. CASE after # 0
  <2>1. /\ books' = [books EXCEPT ![i] = reduce_at(books[i], h, after)]
        /\ orders' = orders
    BY <1>2, <1>4, <1>5, <1>9 DEF match_and_rest, reduce_front, at
  <2>2. \E x \in BookOrder : Edits(i, h, x)
    BY <1>4, <1>7, <1>9, <2>1, ReduceEdits
  <2> QED
    BY <2>2 DEF Effect
<1> QED
  BY <1>8, <1>9

LEMMA RestEffect ==
    ASSUME EngineInv, NEW h \in Slots, RestRemainder(h)
    PROVE  Effect
<1>1. PICK i \in Instruments, o \in BookOrder, ref \in OrderRef :
         /\ i = incoming.instrument_id
         /\ o = [exchange_order_id |-> incoming.exchange_order_id,
                 client_order_id |-> incoming.client_order_id,
                 account_id |-> incoming.account_id,
                 price |-> incoming.price,
                 remaining_quantity |-> incoming.remaining_quantity,
                 side |-> incoming.side,
                 time_in_force |-> incoming.time_in_force]
         /\ ref = [original_quantity |-> incoming.original_quantity,
                   order_sequence |-> incoming.order_sequence,
                   handle |-> h,
                   instrument_id |-> incoming.instrument_id]
  BY Parts DEF RestRemainder, Idle, IncomingOK, ExchangeRestingOrder, BookOrder, OrderRef
<1>2. incoming \in ExchangeRestingOrder /\ incoming' = None
  BY Parts DEF RestRemainder, Idle, IncomingOK
<1>3. /\ LiveKey(o) = <<incoming.account_id, incoming.client_order_id>>
      /\ LiveKey(o) = LiveKey(incoming)
  BY <1>1 DEF LiveKey
<1>4. /\ books[i].slab[h] = Free
      /\ books' = [books EXCEPT ![i] = add(books[i], o, h)]
      /\ orders' = [orders EXCEPT ![LiveKey(o)] = ref]
      /\ incoming.remaining_quantity # 0 /\ incoming.time_in_force = GTC
  BY <1>1, <1>3 DEF RestRemainder, IsLive, Rests
<1>5. Adds(i, h, o, ref)
  BY <1>1, <1>2, <1>3, <1>4 DEF Adds
<1> QED
  BY <1>5 DEF Effect

LEMMA CancelEffect ==
    ASSUME EngineInv, NEW c \in CancelOrderCommand, CancelResting(c)
    PROVE  Effect
<1>1. BooksOK /\ OrdersOK /\ DirectorySound
  BY Parts
<1>2. PICK k \in Keys, i \in Instruments :
         k = <<c.account_id, c.client_order_id>> /\ i = c.instrument_id
  BY DEF CancelOrderCommand, Keys
<1>3. orders[k] # None /\ orders[k].instrument_id = i
  BY <1>2 DEF CancelResting, CancelReason, UnknownOrder
<1>4. PICK h \in Slots : /\ h = orders[k].handle /\ books[i].slab[h] # Free
                         /\ k = LiveKey(books[i].slab[h])
  BY <1>1, <1>3, EntryFacts DEF LiveKey
<1>5. /\ books' = [books EXCEPT ![i] = remove_at(books[i], h)]
      /\ orders' = [orders EXCEPT ![k] = None]
  BY <1>2, <1>4 DEF CancelResting
<1>6. Removes(i, h)
  BY <1>4, <1>5 DEF Removes
<1> QED
  BY <1>6 DEF Effect

LEMMA ReplaceAsNewEffect ==
    ASSUME EngineInv, NEW c \in ReplaceOrderCommand, ReplaceAsNew(c)
    PROVE  Effect
<1>1. PICK k, i : k = <<c.account_id, c.original_client_order_id>> /\ i = c.instrument_id
  OBVIOUS
<1>2. /\ i \in Instruments /\ orders[k].handle \in Slots
      /\ books[i].slab[orders[k].handle] # Free
      /\ k = LiveKey(books[i].slab[orders[k].handle])
  <2>1. ReplaceReason(c) = "None"
    BY DEF ReplaceAsNew
  <2>2. /\ i \in Instruments /\ orders[k].handle \in Slots
        /\ books[i].slab[orders[k].handle] # Free
        /\ k = <<books[i].slab[orders[k].handle].account_id,
                 books[i].slab[orders[k].handle].client_order_id>>
    BY <1>1, <2>1, ReplaceFacts
  <2> QED
    BY <2>2 DEF LiveKey
<1>3. /\ books' = [books EXCEPT ![i] = remove_at(books[i], orders[k].handle)]
      /\ orders' = [orders EXCEPT ![k] = None]
  BY <1>1 DEF ReplaceAsNew
<1>4. Removes(i, orders[k].handle)
  BY <1>2, <1>3 DEF Removes
<1> QED
  BY <1>2, <1>4 DEF Effect

\* A valid replacement has a quantity.
LEMMA ReplaceQuantity ==
    ASSUME NEW c \in ReplaceOrderCommand, ReplaceReason(c) = "None"
    PROVE  c.new_quantity \in Nat \ {0}
<1>1. c.new_quantity # 0
  BY DEF ReplaceReason
<1>2. c.new_quantity \in Quantities \cup Invalid
  BY DEF ReplaceOrderCommand
<1> QED
  BY <1>1, <1>2, EngineAssumption

LEMMA ReplaceEdits ==
    ASSUME EngineInv, NEW c \in ReplaceOrderCommand, ClientMaySend(c), ReplaceInPlace(c)
    PROVE  \E i \in Instruments, h \in Slots, o \in BookOrder :
              /\ Edits(i, h, o) /\ i = c.instrument_id
              /\ h = orders[<<c.account_id, c.original_client_order_id>>].handle
              /\ LiveKey(o) = <<c.account_id, c.new_client_order_id>>
              /\ o.remaining_quantity = c.new_quantity /\ o.price = c.new_price
<1>1. PICK k, i, n : /\ k = <<c.account_id, c.original_client_order_id>>
                     /\ i = c.instrument_id /\ n = c.new_client_order_id
  OBVIOUS
<1>2. ReplaceReason(c) = "None"
  BY DEF ReplaceInPlace
<1>3. /\ k \in Keys /\ i \in Instruments /\ orders[k] # None
      /\ orders[k].handle \in Slots
      /\ books[i].slab[orders[k].handle] # Free
      /\ books[i].slab[orders[k].handle] \in BookOrder
      /\ k = <<books[i].slab[orders[k].handle].account_id,
               books[i].slab[orders[k].handle].client_order_id>>
      /\ n \in ClientIds /\ c.account_id \in Accounts
  BY <1>1, <1>2, ReplaceFacts
<1>4. PICK h \in Slots, old \in BookOrder :
         /\ h = orders[k].handle /\ old = books[i].slab[h] /\ old # Free
         /\ k = LiveKey(old) /\ old.account_id = c.account_id
  BY <1>1, <1>3 DEF LiveKey
<1>5. PICK q \in Nat \ {0} : q = c.new_quantity
  BY <1>2, ReplaceQuantity
<1>6. q <= old.remaining_quantity /\ old.remaining_quantity \in Nat
  BY <1>1, <1>4, <1>5 DEF ReplaceInPlace, preserves_priority, at, BookOrder
<1>7. PICK o : o = [old EXCEPT !.remaining_quantity = q, !.client_order_id = n]
  OBVIOUS
<1>8. /\ o \in BookOrder
      /\ o.exchange_order_id = old.exchange_order_id
      /\ o.side = old.side /\ o.price = old.price /\ o.account_id = old.account_id
      /\ o.client_order_id = n /\ o.remaining_quantity = q
      /\ o.time_in_force = old.time_in_force
  BY <1>3, <1>4, <1>5, <1>7 DEF BookOrder
<1>9. PICK b \in BookOf(BookOrder) : b = books[i]
  BY <1>3, Parts DEF BooksOK
<1>10. PICK d : d = set_client_order_id_at(reduce_at(b, h, q), h, n)
  OBVIOUS
<1>11. d = [slab |-> [b.slab EXCEPT ![h] = o], queue |-> b.queue]
  <2>1. b = [slab |-> b.slab, queue |-> b.queue] /\ b.slab \in [Slots -> BookOrder \cup {Free}]
    BY DEF BookOf
  <2>2. PICK m : m = [old EXCEPT !.remaining_quantity = q]
    OBVIOUS
  <2>3. PICK b1 : b1 = [slab |-> [b.slab EXCEPT ![h] = m], queue |-> b.queue]
    OBVIOUS
  <2>4. reduce_at(b, h, q) = b1
    <3>1. reduce_at(b, h, q) = [b EXCEPT !.slab = [b.slab EXCEPT ![h] = m]]
      BY <1>4, <1>9, <2>2 DEF reduce_at
    <3> QED
      BY <2>1, <2>3, <3>1
  <2>5. b1.slab[h] = m /\ b1.slab = [b.slab EXCEPT ![h] = m] /\ b1.queue = b.queue
    BY <2>1, <2>3
  <2>6. o = [m EXCEPT !.client_order_id = n]
    BY <1>4, <1>7, <2>2 DEF BookOrder
  <2>7. d = [b1 EXCEPT !.slab = [b1.slab EXCEPT ![h] = o]]
    BY <1>10, <2>4, <2>5, <2>6 DEF set_client_order_id_at
  <2> QED
    BY <2>1, <2>3, <2>5, <2>7
<1>12. books' = [books EXCEPT ![i] = d]
  BY <1>1, <1>4, <1>5, <1>9, <1>10 DEF ReplaceInPlace
<1>13. LiveKey(o) = <<c.account_id, n>>
  BY <1>4, <1>8 DEF LiveKey
<1>14. orders' = [orders EXCEPT ![LiveKey(old)] = None,
                                ![LiveKey(o)] = orders[LiveKey(old)]]
  <2>1. orders' = [orders EXCEPT ![k] = None, ![<<c.account_id, n>>] = orders[k]]
    BY <1>1 DEF ReplaceInPlace
  <2> QED
    BY <1>4, <1>13, <2>1
<1>15. FreshReplaceIds => LiveKey(o) = LiveKey(old) \/ orders[LiveKey(o)] = None
  BY <1>1, <1>4, <1>13 DEF ClientMaySend
<1>16. o.remaining_quantity \in 1 .. old.remaining_quantity
  BY <1>5, <1>6, <1>8
<1>17. books' = [books EXCEPT ![i] = [slab  |-> [books[i].slab EXCEPT ![h] = o],
                                      queue |-> books[i].queue]]
  BY <1>9, <1>11, <1>12
<1>18. Edits(i, h, o)
  BY <1>4, <1>8, <1>14, <1>15, <1>16, <1>17 DEF Edits
<1>19. old.price = c.new_price
  BY <1>1, <1>4 DEF ReplaceInPlace, preserves_priority, at
<1> QED
  BY <1>1, <1>3, <1>4, <1>5, <1>8, <1>13, <1>18, <1>19

LEMMA ReplaceInPlaceEffect ==
    ASSUME EngineInv, NEW c \in ReplaceOrderCommand, ClientMaySend(c), ReplaceInPlace(c)
    PROVE  Effect
BY ReplaceEdits DEF Effect

\* Every step of the engine has such an effect.
LEMMA StepEffect ==
    ASSUME EngineInv, Positive, [Next]_engineVars
    PROVE  Effect
<1>1. CASE \E i \in Instruments : register_instrument(i)
  BY <1>1 DEF register_instrument, Effect
<1>2. CASE \E c \in NewOrderCommand : process_new_order(c)
  BY <1>2 DEF process_new_order, RejectNewOrder, reject_new_order, Reject, AcceptNewOrder,
              Effect
<1>3. CASE \E c \in CancelOrderCommand : process_cancel(c)
  <2>1. PICK c \in CancelOrderCommand : RejectCancel(c) \/ CancelResting(c)
    BY <1>3 DEF process_cancel
  <2>2. CASE RejectCancel(c)
    BY <2>2 DEF RejectCancel, Reject, Effect
  <2> QED
    BY <2>1, <2>2, CancelEffect
<1>4. CASE \E c \in ReplaceOrderCommand : ClientMaySend(c) /\ process_replace(c)
  <2>1. PICK c \in ReplaceOrderCommand :
           ClientMaySend(c) /\ (RejectReplace(c) \/ ReplaceInPlace(c) \/ ReplaceAsNew(c))
    BY <1>4 DEF process_replace
  <2>2. CASE RejectReplace(c)
    BY <2>2 DEF RejectReplace, reject_replace_order, Reject, Effect
  <2> QED
    BY <2>1, <2>2, ReplaceInPlaceEffect, ReplaceAsNewEffect
<1>5. CASE match_and_rest
  BY <1>5, MatchEffect
<1>6. CASE rest_remainder_if_applicable
  <2>1. CASE DiscardRemainder
    BY <2>1 DEF DiscardRemainder, Effect
  <2> QED
    BY <1>6, <2>1, RestEffect DEF rest_remainder_if_applicable
<1>7. CASE UNCHANGED engineVars
  BY <1>7 DEF engineVars, Effect
<1> QED
  BY <1>1, <1>2, <1>3, <1>4, <1>5, <1>6, <1>7 DEF Next
-----------------------------------------------------------------------------
(***************************************************************************)
(* Time: every order on a book was accepted before the one in flight, and  *)
(* along a level earlier orders stand in front.                            *)
(***************************************************************************)

\* The id of the order in flight, or the one the next order will get.
Newest == IF Idle THEN next_exchange_order_id ELSE incoming.exchange_order_id

Aged ==
    /\ \A i \in Instruments : InOrder(books[i])
    /\ \A i \in Instruments, h \in Slots :
          books[i].slab[h] # Free => books[i].slab[h].exchange_order_id < Newest
    /\ ~Idle => incoming.exchange_order_id < next_exchange_order_id

\* Ids are handed out upwards, and a command that ends leaves its id behind.
Advances ==
    /\ Newest <= Newest'
    /\ ~Idle /\ Idle' => Newest < Newest'
    /\ ~Idle' => incoming'.exchange_order_id < next_exchange_order_id'

LEMMA IdTypes ==
    ASSUME EngineInv
    PROVE  /\ next_exchange_order_id \in Nat
           /\ ~Idle => incoming \in ExchangeRestingOrder /\ incoming.exchange_order_id \in Nat
           /\ Newest \in Nat
BY Parts DEF ScalarsOK, IncomingOK, Idle, Newest, ExchangeRestingOrder

LEMMA NewestType == EngineInv => Newest \in Nat
BY IdTypes

LEMMA StepAdvances ==
    ASSUME EngineInv, Aged, [Next]_engineVars
    PROVE  Advances
<1> DEFINE Still == UNCHANGED <<incoming, next_exchange_order_id>>
           Enter == /\ Idle /\ next_exchange_order_id' = next_exchange_order_id + 1
                    /\ incoming'.exchange_order_id = next_exchange_order_id
           Walk  == /\ ~Idle /\ next_exchange_order_id' = next_exchange_order_id
                    /\ incoming'.exchange_order_id = incoming.exchange_order_id
           Leave == /\ ~Idle /\ next_exchange_order_id' = next_exchange_order_id
                    /\ incoming' = None
<1>1. Still \/ Enter \/ Walk \/ Leave
  <2>1. CASE \E i \in Instruments : register_instrument(i)
    BY <2>1 DEF register_instrument
  <2>2. CASE \E c \in NewOrderCommand : process_new_order(c)
    <3>1. PICK c \in NewOrderCommand : RejectNewOrder(c) \/ AcceptNewOrder(c)
      BY <2>2 DEF process_new_order
    <3>2. CASE RejectNewOrder(c)
      BY <3>2 DEF RejectNewOrder, reject_new_order, Reject
    <3>3. CASE AcceptNewOrder(c)
      BY <3>3 DEF AcceptNewOrder, TakeIds
    <3> QED
      BY <3>1, <3>2, <3>3
  <2>3. CASE \E c \in CancelOrderCommand : process_cancel(c)
    BY <2>3 DEF process_cancel, RejectCancel, Reject, CancelResting
  <2>4. CASE \E c \in ReplaceOrderCommand : ClientMaySend(c) /\ process_replace(c)
    <3>1. PICK c \in ReplaceOrderCommand :
             RejectReplace(c) \/ ReplaceInPlace(c) \/ ReplaceAsNew(c)
      BY <2>4 DEF process_replace
    <3>2. CASE RejectReplace(c)
      BY <3>2 DEF RejectReplace, reject_replace_order, Reject
    <3>3. CASE ReplaceInPlace(c)
      BY <3>3 DEF ReplaceInPlace
    <3>4. CASE ReplaceAsNew(c)
      BY <3>4 DEF ReplaceAsNew, TakeIds
    <3> QED
      BY <3>1, <3>2, <3>3, <3>4
  <2>5. CASE match_and_rest
    <3>1. PICK n : incoming' = [incoming EXCEPT !.remaining_quantity = n]
      BY <2>5 DEF match_and_rest
    <3>2. incoming \in ExchangeRestingOrder
      BY <2>5, IdTypes DEF match_and_rest
    <3>3. incoming'.exchange_order_id = incoming.exchange_order_id
      BY <3>1, <3>2 DEF ExchangeRestingOrder
    <3> QED
      BY <2>5, <3>3 DEF match_and_rest
  <2>6. CASE rest_remainder_if_applicable
    BY <2>6 DEF rest_remainder_if_applicable, RestRemainder, DiscardRemainder
  <2>7. CASE UNCHANGED engineVars
    BY <2>7 DEF engineVars
  <2> QED
    BY <2>1, <2>2, <2>3, <2>4, <2>5, <2>6, <2>7 DEF Next
<1>2. PICK n \in Nat, m \in Nat : n = next_exchange_order_id /\ m = Newest
  BY IdTypes
<1>3. m <= n /\ (~Idle => m < n /\ m = incoming.exchange_order_id) /\ (Idle => m = n)
  BY <1>2 DEF Aged, Newest
<1>4. Newest' = IF Idle' THEN next_exchange_order_id' ELSE incoming'.exchange_order_id
  BY DEF Newest
<1>5. CASE Still
  BY <1>2, <1>3, <1>4, <1>5 DEF Advances, Idle
<1>6. CASE Enter
  BY <1>2, <1>3, <1>4, <1>6 DEF Advances
<1>7. CASE Walk
  BY <1>2, <1>3, <1>4, <1>7 DEF Advances
<1>8. CASE Leave
  BY <1>2, <1>3, <1>4, <1>8 DEF Advances, Idle
<1> QED
  BY <1>1, <1>5, <1>6, <1>7, <1>8

\* The body of RestingOrdersOnlyShrink, for one slot.
Shrinks(o, n) ==
    /\ n.remaining_quantity \in 1 .. o.remaining_quantity
    /\ <<n.price, n.side, n.account_id>> = <<o.price, o.side, o.account_id>>

OrdersShrink ==
    \A i \in Instruments, h \in Slots :
        books[i].slab[h] # Free /\ books'[i].slab[h] # Free
            => Shrinks(books[i].slab[h], books'[i].slab[h])

LEMMA SameShrinks ==
    ASSUME EngineInv, Positive, NEW i \in Instruments, NEW h \in Slots,
           books[i].slab[h] # Free
    PROVE  Shrinks(books[i].slab[h], books[i].slab[h])
<1>1. books[i].slab[h].remaining_quantity \in Nat
  BY SlabOrder DEF BookOrder
<1>2. books[i].slab[h].remaining_quantity # 0
  BY DEF Positive
<1> QED
  BY <1>1, <1>2 DEF Shrinks

\* All that is said of single orders, from what happens to one of them.
LEMMA SlotStep ==
    ASSUME EngineInv, Positive, Aged, Advances, Newest' \in Nat,
           NEW i \in Instruments, NEW h \in Slots, NEW v, NEW c,
           books' = [books EXCEPT ![i] = c], c.slab = [books[i].slab EXCEPT ![h] = v],
           InOrder(c),
           v # Free => /\ v.remaining_quantity # 0 /\ v.exchange_order_id < Newest'
                       /\ books[i].slab[h] # Free => Shrinks(books[i].slab[h], v)
    PROVE  Positive' /\ Aged' /\ OrdersShrink
<1>1. /\ books'[i] = c /\ books'[i].slab[h] = v
      /\ \A x \in Slots : x # h => books'[i].slab[x] = books[i].slab[x]
      /\ \A j \in Instruments : j # i => books'[j] = books[j]
  <2>1. PICK slab : slab = [books[i].slab EXCEPT ![h] = v] /\ c.slab = slab
    OBVIOUS
  <2>2. books \in [Instruments -> BookOf(BookOrder)]
    BY Parts DEF BooksOK
  <2>3. books[i].slab \in [Slots -> BookOrder \cup {Free}]
    BY <2>2 DEF BookOf
  <2>4. books'[i] = c /\ \A j \in Instruments : j # i => books'[j] = books[j]
    BY <2>2
  <2>5. slab[h] = v /\ \A x \in Slots : x # h => slab[x] = books[i].slab[x]
    BY <2>1, <2>3
  <2> QED
    BY <2>1, <2>4, <2>5
<1>2. \A j \in Instruments : InOrder(books'[j])
  BY <1>1 DEF Aged
<1>3. Newest \in Nat /\ Newest' \in Nat /\ Newest <= Newest'
  BY IdTypes DEF Advances
<1>4. ASSUME NEW j \in Instruments, NEW x \in Slots, books'[j].slab[x] # Free
      PROVE  /\ books'[j].slab[x].remaining_quantity # 0
             /\ books'[j].slab[x].exchange_order_id < Newest'
             /\ books[j].slab[x] # Free => Shrinks(books[j].slab[x], books'[j].slab[x])
  <2>1. CASE j = i /\ x = h
    BY <1>1, <1>4, <2>1
  <2>2. CASE ~(j = i /\ x = h)
    <3>1. books'[j].slab[x] = books[j].slab[x] /\ books[j].slab[x] # Free
      BY <1>1, <1>4, <2>2
    <3>2. PICK n \in Nat : n = books[j].slab[x].exchange_order_id
      BY <3>1, SlabOrder DEF BookOrder
    <3>3. n < Newest
      BY <3>1, <3>2 DEF Aged
    <3>4. n < Newest'
      BY <1>3, <3>3
    <3>5. Shrinks(books[j].slab[x], books[j].slab[x])
      BY <3>1, SameShrinks
    <3> QED
      BY <3>1, <3>2, <3>4, <3>5 DEF Positive
  <2> QED
    BY <2>1, <2>2
<1>5. Positive'
  BY <1>4 DEF Positive
<1>6. Aged'
  BY <1>2, <1>4 DEF Aged, Advances
<1>7. OrdersShrink
  BY <1>4 DEF OrdersShrink
<1> QED
  BY <1>5, <1>6, <1>7

\* Whatever a step does, it keeps the books in order and orders only shrink.
LEMMA EffectKeeps ==
    ASSUME EngineInv, Positive, Aged, Advances, Newest' \in Nat, Effect
    PROVE  Positive' /\ Aged' /\ OrdersShrink
<1>1. CASE UNCHANGED <<books, orders>>
  <2>1. \A i \in Instruments, h \in Slots : books[i].slab[h] # Free =>
           /\ books[i].slab[h].exchange_order_id < Newest'
           /\ Shrinks(books[i].slab[h], books[i].slab[h])
    <3> SUFFICES ASSUME NEW i \in Instruments, NEW h \in Slots, books[i].slab[h] # Free
                 PROVE  /\ books[i].slab[h].exchange_order_id < Newest'
                        /\ Shrinks(books[i].slab[h], books[i].slab[h])
      OBVIOUS
    <3>1. PICK n \in Nat : n = books[i].slab[h].exchange_order_id
      BY SlabOrder DEF BookOrder
    <3>2. n < Newest /\ Newest \in Nat /\ Newest <= Newest'
      BY <3>1, IdTypes DEF Aged, Advances
    <3> QED
      BY <3>1, <3>2, SameShrinks
  <2>2. Positive' /\ OrdersShrink
    BY <1>1, <2>1 DEF Positive, OrdersShrink
  <2>3. Aged'
    BY <1>1, <2>1 DEF Aged, Advances
  <2> QED
    BY <2>2, <2>3
<1>2. ASSUME NEW i \in Instruments, NEW h \in Slots, Removes(i, h)
      PROVE  Positive' /\ Aged' /\ OrdersShrink
  <2>1. PICK c : c = remove_at(books[i], h)
    OBVIOUS
  <2>2. c.slab = [books[i].slab EXCEPT ![h] = Free] /\ books' = [books EXCEPT ![i] = c]
    BY <1>2, <2>1 DEF Removes, remove_at
  <2>3. InOrder(c)
    BY <1>2, <2>1, Parts, BookOrders, RemoveInOrder DEF Removes, BooksOK, Aged
  <2> QED
    BY <2>2, <2>3, SlotStep
<1>3. ASSUME NEW i \in Instruments, NEW h \in Slots, NEW o \in BookOrder, Edits(i, h, o)
      PROVE  Positive' /\ Aged' /\ OrdersShrink
  <2>1. PICK c : c = [slab |-> [books[i].slab EXCEPT ![h] = o], queue |-> books[i].queue]
    OBVIOUS
  <2>2. /\ c.slab = [books[i].slab EXCEPT ![h] = o] /\ books' = [books EXCEPT ![i] = c]
        /\ books[i].slab[h] # Free
        /\ o.exchange_order_id = books[i].slab[h].exchange_order_id
        /\ o.remaining_quantity \in 1 .. books[i].slab[h].remaining_quantity
        /\ Shrinks(books[i].slab[h], o)
    BY <1>3, <2>1 DEF Edits, Shrinks
  <2>3. Exact(books[i], BookOrder) /\ InOrder(books[i])
    BY Parts DEF BooksOK, Aged
  <2>4. InOrder(c)
    BY <2>1, <2>2, <2>3, BookOrders, EditInOrder
  <2>5. PICK n \in Nat : n = o.exchange_order_id
    BY DEF BookOrder
  <2>6. n < Newest /\ Newest \in Nat /\ Newest <= Newest'
    BY <2>2, <2>5, IdTypes DEF Aged, Advances
  <2>7. o.remaining_quantity # 0
    BY <2>2
  <2>8. o.exchange_order_id < Newest'
    BY <2>5, <2>6
  <2> QED
    BY <2>2, <2>4, <2>7, <2>8, SlotStep
<1>4. ASSUME NEW i \in Instruments, NEW h \in Slots, NEW o \in BookOrder, NEW ref \in OrderRef,
             Adds(i, h, o, ref)
      PROVE  Positive' /\ Aged' /\ OrdersShrink
  <2>1. PICK c : c = add(books[i], o, h)
    OBVIOUS
  <2>2. /\ c.slab = [books[i].slab EXCEPT ![h] = o] /\ books' = [books EXCEPT ![i] = c]
        /\ books[i].slab[h] = Free /\ o.remaining_quantity # 0
        /\ o.exchange_order_id = incoming.exchange_order_id
        /\ incoming \in ExchangeRestingOrder /\ incoming' = None
    BY <1>4, <2>1 DEF Adds, add
  <2>3. ~Idle /\ Idle'
    BY <2>2, MarksAssumption DEF Idle
  <2>4. o.exchange_order_id = Newest
    BY <2>2, <2>3 DEF Newest
  <2>5. o.exchange_order_id < Newest'
    BY <2>3, <2>4 DEF Advances
  <2>6. InOrder(c)
    <3>1. Exact(books[i], BookOrder) /\ InOrder(books[i])
      BY Parts DEF BooksOK, Aged
    <3>2. \A x \in Slots : books[i].slab[x] # Free
             => books[i].slab[x].exchange_order_id < o.exchange_order_id
      BY <2>4 DEF Aged
    <3> QED
      BY <2>1, <2>2, <3>1, <3>2, BookOrders, AddInOrder
  <2> QED
    BY <2>2, <2>5, <2>6, SlotStep
<1> QED
  BY <1>1, <1>2, <1>3, <1>4 DEF Effect

LEMMA AgedStep ==
    ASSUME EngineInv, EngineInv', Positive, Aged, [Next]_engineVars
    PROVE  Positive' /\ Aged' /\ OrdersShrink
<1>1. Effect /\ Advances
  BY StepEffect, StepAdvances
<1>2. EngineInv' => (Newest \in Nat)'
  BY NewestType, PTL
<1> QED
  BY <1>1, <1>2, EffectKeeps

\* In every reachable state ids grow along each level, and every order on a book has
\* quantity left.
THEOREM AgedInvariance == Spec => [](Positive /\ Aged)
<1>1. Init => Positive /\ Aged
  <2> SUFFICES ASSUME Init PROVE Positive /\ Aged
    OBVIOUS
  <2>1. \A i \in Instruments : /\ \A h \in Slots : books[i].slab[h] = Free
                               /\ \A s \in Sides, p \in Prices : books[i].queue[s][p] = << >>
    BY DEF Init, EmptyBook
  <2>2. Idle
    BY DEF Init, Idle
  <2> QED
    BY <2>1, <2>2 DEF Positive, Aged, InOrder
<1>2. /\ EngineInv /\ EngineInv' /\ Positive /\ Aged /\ [Next]_engineVars
      => Positive' /\ Aged'
  BY AgedStep
<1> QED
  BY <1>1, <1>2, EngineInvariance, PTL DEF Spec

\* RestingOrdersOnlyShrink: whatever process() does, an order that stays on a book
\* never gains quantity and never changes price, side or account.
THEOREM OrdersOnlyShrink == Spec => RestingOrdersOnlyShrink
<1> DEFINE A == \A i \in Instruments : \A h \in LiveSlots(books[i]) \cap LiveSlots(books'[i]) :
                  LET o == at(books[i], h)
                      n == at(books'[i], h)
                  IN  o.exchange_order_id = n.exchange_order_id
                        => /\ n.remaining_quantity \in 1 .. o.remaining_quantity
                           /\ <<n.price, n.side, n.account_id>>
                                = <<o.price, o.side, o.account_id>>
<1>1. EngineInv /\ EngineInv' /\ Positive /\ Aged /\ [Next]_engineVars => [A]_engineVars
  <2> SUFFICES ASSUME EngineInv, EngineInv', Positive, Aged, [Next]_engineVars PROVE A
    OBVIOUS
  <2>1. OrdersShrink
    BY AgedStep
  <2> QED
    BY <2>1 DEF OrdersShrink, Shrinks, LiveSlots, at
<1>2. EngineInv /\ EngineInv' /\ (Positive /\ Aged) /\ [Next]_engineVars => [A]_engineVars
  BY <1>1
<1>3. Spec => [][A]_engineVars
  <2> HIDE DEF A
  <2> QED
    BY <1>2, EngineInvariance, AgedInvariance, PTL DEF Spec
<1> QED
  BY <1>3 DEF RestingOrdersOnlyShrink
-----------------------------------------------------------------------------
(***************************************************************************)
(* Price-time priority.                                                    *)
(***************************************************************************)
NoTrade == \A n \in 1 .. Len(emitted') : emitted'[n].type # "TradeExecuted"

\* Only match_and_rest() reports a trade.
LEMMA OtherStepsTradeNothing ==
    ASSUME Next, ~match_and_rest
    PROVE  NoTrade
<1>1. ASSUME NEW a, NEW i, NEW x, NEW reason, Reject(a, i, x, reason) PROVE NoTrade
  BY <1>1 DEF Reject, OrderRejected, NoTrade
<1>2. CASE \E i \in Instruments : register_instrument(i)
  BY <1>2 DEF register_instrument, NoTrade
<1>3. CASE \E c \in NewOrderCommand : process_new_order(c)
  <2>1. PICK c \in NewOrderCommand : RejectNewOrder(c) \/ AcceptNewOrder(c)
    BY <1>3 DEF process_new_order
  <2>2. CASE RejectNewOrder(c)
    BY <1>1, <2>2 DEF RejectNewOrder, reject_new_order
  <2>3. CASE AcceptNewOrder(c)
    BY <2>3 DEF AcceptNewOrder, NoTrade
  <2> QED
    BY <2>1, <2>2, <2>3
<1>4. CASE \E c \in CancelOrderCommand : process_cancel(c)
  <2>1. PICK c \in CancelOrderCommand : RejectCancel(c) \/ CancelResting(c)
    BY <1>4 DEF process_cancel
  <2>2. CASE RejectCancel(c)
    BY <1>1, <2>2 DEF RejectCancel
  <2>3. CASE CancelResting(c)
    BY <2>3 DEF CancelResting, BookOrderRemoved, NoTrade
  <2> QED
    BY <2>1, <2>2, <2>3
<1>5. CASE \E c \in ReplaceOrderCommand : ClientMaySend(c) /\ process_replace(c)
  <2>1. PICK c \in ReplaceOrderCommand :
           RejectReplace(c) \/ ReplaceInPlace(c) \/ ReplaceAsNew(c)
    BY <1>5 DEF process_replace
  <2>2. CASE RejectReplace(c)
    BY <1>1, <2>2 DEF RejectReplace, reject_replace_order
  <2>3. CASE ReplaceInPlace(c)
    BY <2>3 DEF ReplaceInPlace, OrderReplaced, BookOrderReduced, NoTrade
  <2>4. CASE ReplaceAsNew(c)
    BY <2>4 DEF ReplaceAsNew, OrderReplaced, BookOrderRemoved, NoTrade
  <2> QED
    BY <2>1, <2>2, <2>3, <2>4
<1>6. CASE rest_remainder_if_applicable
  <2>1. ASSUME NEW h \in Slots, RestRemainder(h) PROVE NoTrade
    <3>1. PICK e : emitted' = <<e>> /\ e.type = "BookOrderAdded"
      BY <2>1 DEF RestRemainder
    <3> QED
      BY <3>1 DEF NoTrade
  <2>2. CASE DiscardRemainder
    BY <2>2 DEF DiscardRemainder, NoTrade
  <2> QED
    BY <1>6, <2>1, <2>2 DEF rest_remainder_if_applicable
<1> QED
  BY <1>2, <1>3, <1>4, <1>5, <1>6 DEF Next

\* What a TradeExecuted event tells of the order that was resting.
LEMMA TradeFacts ==
    ASSUME NEW a \in ExchangeRestingOrder, NEW o, NEW q, NEW t, t = TradeExecuted(a, o, q)
    PROVE  /\ t.instrument_id = a.instrument_id /\ t.price = o.price
           /\ t.aggressor_side = a.side
           /\ contra(a.side) = "Buy" => t.buyer.exchange_order_id = o.exchange_order_id
           /\ contra(a.side) # "Buy" => t.seller.exchange_order_id = o.exchange_order_id
<1>1. a.side \in {"Buy", "Sell"}
  BY DEF ExchangeRestingOrder, Sides
<1>2. CASE a.side = "Buy"
  BY <1>2 DEF TradeExecuted, TradeCounterparty, contra
<1>3. CASE a.side = "Sell"
  BY <1>3 DEF TradeExecuted, TradeCounterparty, contra
<1> QED
  BY <1>1, <1>2, <1>3

\* One iteration of the matching loop trades with the front of the best level, which is
\* the first of its side by price and then by time.
LEMMA MatchTradesBestFirst ==
    ASSUME EngineInv, Aged, match_and_rest
    PROVE  TradesBestFirst
<1>1. incoming \in ExchangeRestingOrder /\ BooksOK
  BY Parts DEF match_and_rest, Idle, IncomingOK
<1>2. PICK i \in Instruments, s \in Sides :
         i = incoming.instrument_id /\ s = contra(incoming.side)
  BY <1>1, ContraSide DEF ExchangeRestingOrder
<1>3. ~empty(books[i], s) /\ Crosses(s, best_price(books[i], s), incoming.price)
  BY <1>2 DEF match_and_rest, CanMatch
<1>4. PICK h \in Slots, o \in BookOrder :
         /\ h = front_of_best(books[i], s) /\ o = books[i].slab[h] /\ o # Free
         /\ o.price = best_price(books[i], s)
  BY <1>1, <1>3, BookOrders, FrontFacts DEF BooksOK
<1>5. PICK q : q = Min2(incoming.remaining_quantity, o.remaining_quantity)
  OBVIOUS
<1>6. PICK t : t = TradeExecuted(incoming, o, q)
  OBVIOUS
<1>7. PICK e : emitted' = <<t, e>> /\ e.type # "TradeExecuted"
  <2>1. PICK after : after = o.remaining_quantity - q
    OBVIOUS
  <2>2. CASE after = 0
    <3>1. emitted' = <<t, BookOrderRemoved(i, o)>>
      BY <1>2, <1>4, <1>5, <1>6, <2>1, <2>2 DEF match_and_rest, at
    <3> QED
      BY <3>1 DEF BookOrderRemoved
  <2>3. CASE after # 0
    <3>1. emitted' = <<t, BookOrderReduced(i, o, after)>>
      BY <1>2, <1>4, <1>5, <1>6, <2>1, <2>3 DEF match_and_rest, at
    <3> QED
      BY <3>1 DEF BookOrderReduced
  <2> QED
    BY <2>2, <2>3
<1>8. /\ t.instrument_id = i /\ t.price = o.price /\ contra(t.aggressor_side) = s
      /\ (IF s = "Buy" THEN t.buyer ELSE t.seller).exchange_order_id = o.exchange_order_id
  BY <1>1, <1>2, <1>6, TradeFacts
<1>9. ASSUME NEW x \in LiveSlots(books[i]), at(books[i], x).side = s
      PROVE  \/ Better(s, o.price, at(books[i], x).price)
             \/ /\ at(books[i], x).price = o.price
                /\ at(books[i], x).exchange_order_id >= o.exchange_order_id
  <2>1. x \in Slots /\ books[i].slab[x] # Free /\ books[i].slab[x].side = s
    BY <1>9 DEF LiveSlots, at
  <2>2. \A y \in Slots : books[i].slab[y] # Free => books[i].slab[y].exchange_order_id \in Nat
    BY SlabOrder DEF BookOrder
  <2>3. Exact(books[i], BookOrder) /\ InOrder(books[i])
    BY <1>1 DEF BooksOK, Aged
  <2>4. PICK b : b = books[i]
    OBVIOUS
  <2>5. \/ Better(s, best_price(b, s), b.slab[x].price)
        \/ /\ b.slab[x].price = best_price(b, s)
           /\ b.slab[x].exchange_order_id >= b.slab[front_of_best(b, s)].exchange_order_id
    BY <1>3, <2>1, <2>2, <2>3, <2>4, BookOrders, FrontIsFirst
  <2> QED
    BY <1>4, <2>4, <2>5 DEF at
<1> SUFFICES ASSUME NEW n \in 1 .. Len(emitted'), emitted'[n].type = "TradeExecuted"
             PROVE  LET side    == contra(emitted'[n].aggressor_side)
                        resting == IF side = "Buy" THEN emitted'[n].buyer ELSE emitted'[n].seller
                        b       == books[emitted'[n].instrument_id]
                    IN  /\ Crosses(side, emitted'[n].price, incoming.price)
                        /\ \A x \in LiveSlots(b) : at(b, x).side = side =>
                              \/ Better(side, emitted'[n].price, at(b, x).price)
                              \/ /\ at(b, x).price = emitted'[n].price
                                 /\ at(b, x).exchange_order_id >= resting.exchange_order_id
  BY DEF TradesBestFirst
<1>10. emitted'[n] = t
  BY <1>7
<1>11. Crosses(s, t.price, incoming.price)
  BY <1>3, <1>4, <1>8
<1> QED
  BY <1>8, <1>9, <1>10, <1>11

\* PriceTimePriority: the resting side of every trade of match_and_rest() is the
\* best-priced, earliest accepted order of its side, for any number of orders and levels.
THEOREM TradesInPriority == Spec => PriceTimePriority
<1>1. EngineInv /\ (Positive /\ Aged) /\ [Next]_engineVars => [TradesBestFirst]_engineVars
  <2> SUFFICES ASSUME EngineInv, Aged, Next PROVE TradesBestFirst
    OBVIOUS
  <2>1. CASE match_and_rest
    BY <2>1, MatchTradesBestFirst
  <2>2. CASE ~match_and_rest
    <3>1. NoTrade
      BY <2>2, OtherStepsTradeNothing
    <3> QED
      BY <3>1 DEF NoTrade, TradesBestFirst
  <2> QED
    BY <2>1, <2>2
<1> QED
  BY <1>1, EngineInvariance, AgedInvariance, PTL DEF Spec, PriceTimePriority

-----------------------------------------------------------------------------
(***************************************************************************)
(* Every order on a book has its entry in the directory, if clients replace *)
(* onto fresh ids only.                                                    *)
(***************************************************************************)

\* The entry of order o in slot h of instrument i, and what compose() takes from it.
EntryOf(ref, i, h, o) ==
    /\ ref # None /\ ref.instrument_id = i /\ ref.handle = h
    /\ ref.order_sequence = o.exchange_order_id
    /\ o.remaining_quantity <= ref.original_quantity

Covered ==
    \A i \in Instruments, h \in Slots :
        LET o == books[i].slab[h]
        IN  o # Free => EntryOf(orders[LiveKey(o)], i, h, o)

\* The key of the order in flight is nobody else's, and its two numbers are the same.
Entering ==
    /\ next_priority = next_exchange_order_id
    /\ ~Idle => /\ orders[LiveKey(incoming)] = None
                /\ incoming.order_sequence = incoming.exchange_order_id
                /\ incoming.remaining_quantity <= incoming.original_quantity

LEMMA KeptEntering ==
    ASSUME EngineInv, EngineInv', Entering, [Next]_engineVars, FreshReplaceIds
    PROVE  Entering'
<1> DEFINE Same == UNCHANGED <<next_exchange_order_id, next_priority>>
<1>1. ASSUME Same, incoming' = None PROVE Entering'
  BY <1>1 DEF Entering, Idle
<1>2. ASSUME Same, UNCHANGED incoming, Idle \/ UNCHANGED orders PROVE Entering'
  BY <1>2 DEF Entering, Idle
<1>3. ASSUME TakeIds, orders'[LiveKey(incoming')] = None,
             incoming'.order_sequence = next_priority,
             incoming'.exchange_order_id = next_exchange_order_id,
             incoming'.remaining_quantity = incoming'.original_quantity,
             incoming'.original_quantity \in Nat
      PROVE  Entering'
  BY <1>3 DEF Entering, TakeIds
<1>4. CASE \E i \in Instruments : register_instrument(i)
  BY <1>2, <1>4 DEF register_instrument
<1>5. CASE \E c \in NewOrderCommand : process_new_order(c)
  <2>1. PICK c \in NewOrderCommand : RejectNewOrder(c) \/ AcceptNewOrder(c)
    BY <1>5 DEF process_new_order
  <2>2. CASE RejectNewOrder(c)
    BY <1>2, <2>2 DEF RejectNewOrder, reject_new_order, Reject
  <2>3. CASE AcceptNewOrder(c)
    <3>1. /\ TakeIds /\ orders' = orders
          /\ LiveKey(incoming') = <<c.account_id, c.client_order_id>>
          /\ incoming'.order_sequence = next_priority
          /\ incoming'.exchange_order_id = next_exchange_order_id
          /\ incoming'.remaining_quantity = c.quantity /\ incoming'.original_quantity = c.quantity
      BY <2>3 DEF AcceptNewOrder, LiveKey
    <3>2. orders[<<c.account_id, c.client_order_id>>] = None
      BY <2>3 DEF AcceptNewOrder, NewOrderReason
    <3>3. c.quantity \in Nat
      <4>1. c.quantity \in Quantities \cup Invalid
        BY DEF NewOrderCommand
      <4>2. \A n \in Quantities : n \in Nat
        BY EngineAssumption
      <4>3. \A n \in Invalid : n = 0
        BY EngineAssumption
      <4> QED
        BY <4>1, <4>2, <4>3
    <3> QED
      BY <1>3, <3>1, <3>2, <3>3
  <2> QED
    BY <2>1, <2>2, <2>3
<1>6. CASE \E c \in CancelOrderCommand : process_cancel(c)
  BY <1>2, <1>6 DEF process_cancel, RejectCancel, Reject, CancelResting
<1>7. CASE \E c \in ReplaceOrderCommand : ClientMaySend(c) /\ process_replace(c)
  <2>1. PICK c \in ReplaceOrderCommand :
           ClientMaySend(c) /\ (RejectReplace(c) \/ ReplaceInPlace(c) \/ ReplaceAsNew(c))
    BY <1>7 DEF process_replace
  <2>2. CASE RejectReplace(c)
    BY <1>2, <2>2 DEF RejectReplace, reject_replace_order, Reject
  <2>3. CASE ReplaceInPlace(c)
    BY <1>2, <2>3 DEF ReplaceInPlace
  <2>4. CASE ReplaceAsNew(c)
    <3>1. PICK k, new : /\ k = <<c.account_id, c.original_client_order_id>>
                        /\ new = <<c.account_id, c.new_client_order_id>>
      OBVIOUS
    <3>2. /\ TakeIds /\ orders' = [orders EXCEPT ![k] = None]
          /\ LiveKey(incoming') = new
          /\ incoming'.order_sequence = next_priority
          /\ incoming'.exchange_order_id = next_exchange_order_id
          /\ incoming'.remaining_quantity = c.new_quantity
          /\ incoming'.original_quantity = c.new_quantity
      BY <2>4, <3>1 DEF ReplaceAsNew, LiveKey
    <3>3. k \in Keys /\ c.new_quantity \in Nat
      <4>1. ReplaceReason(c) = "None"
        BY <2>4 DEF ReplaceAsNew
      <4> QED
        BY <3>1, <4>1, ReplaceFacts
    <3>4. new = k \/ orders[new] = None
      BY <2>1, <3>1 DEF ClientMaySend
    <3>5. orders'[new] = None
      <4>1. orders \in [Keys -> OrderRef \cup {None}] /\ new \in Keys
        BY <3>1, Parts DEF OrdersOK, ReplaceOrderCommand, Keys
      <4> QED
        BY <3>2, <3>3, <3>4, <4>1
    <3> QED
      BY <1>3, <3>2, <3>3, <3>5
  <2> QED
    BY <2>1, <2>2, <2>3, <2>4
<1>8. CASE match_and_rest
  <2>1. ~Idle /\ incoming \in ExchangeRestingOrder /\ OrdersOK /\ Same
    BY <1>8, Parts DEF match_and_rest, Idle, IncomingOK
  <2>2. PICK n : /\ incoming' = [incoming EXCEPT !.remaining_quantity = @ - n]
                 /\ n = Min2(incoming.remaining_quantity,
                             at(books[incoming.instrument_id],
                                front_of_best(books[incoming.instrument_id],
                                              contra(incoming.side))).remaining_quantity)
    BY <1>8 DEF match_and_rest
  <2>3. n \in Nat
    <3>1. PICK i \in Instruments, s \in Sides :
             i = incoming.instrument_id /\ s = contra(incoming.side)
      BY <2>1, ContraSide DEF ExchangeRestingOrder
    <3>2. ~empty(books[i], s) /\ Exact(books[i], BookOrder)
      BY <1>8, <3>1, Parts DEF match_and_rest, CanMatch, BooksOK
    <3>3. PICK o \in BookOrder : o = at(books[i], front_of_best(books[i], s))
      BY <3>2, BookOrders, FrontFacts DEF at
    <3>4. o.remaining_quantity \in Nat /\ incoming.remaining_quantity \in Nat
      BY <2>1 DEF BookOrder, ExchangeRestingOrder
    <3>5. n = Min2(incoming.remaining_quantity, o.remaining_quantity)
      BY <2>2, <3>1, <3>3
    <3> QED
      BY <3>4, <3>5 DEF Min2
  <2>4. /\ LiveKey(incoming') = LiveKey(incoming)
        /\ incoming'.order_sequence = incoming.order_sequence
        /\ incoming'.exchange_order_id = incoming.exchange_order_id
        /\ incoming'.original_quantity = incoming.original_quantity
        /\ incoming'.remaining_quantity = incoming.remaining_quantity - n
    BY <2>1, <2>2 DEF LiveKey, ExchangeRestingOrder
  <2>5. \/ orders' = orders
        \/ \E k : orders' = [orders EXCEPT ![k] = None]
    BY <1>8 DEF match_and_rest
  <2>6. PICK key \in Keys : key = LiveKey(incoming)
    BY <2>1 DEF LiveKey, Keys, ExchangeRestingOrder
  <2>7. orders[key] = None
    BY <2>1, <2>6 DEF Entering
  <2>8. orders'[key] = None
    BY <2>1, <2>5, <2>7 DEF OrdersOK
  <2>9. incoming'.remaining_quantity <= incoming'.original_quantity
    <3>1. PICK a \in Nat, b \in Nat : a = incoming.remaining_quantity /\ b = incoming.original_quantity
      BY <2>1 DEF ExchangeRestingOrder
    <3>2. a <= b
      BY <2>1, <3>1 DEF Entering
    <3> QED
      BY <2>3, <2>4, <3>1, <3>2
  <2> QED
    BY <2>1, <2>4, <2>6, <2>8, <2>9 DEF Entering
<1>9. CASE rest_remainder_if_applicable
  BY <1>1, <1>9 DEF rest_remainder_if_applicable, RestRemainder, DiscardRemainder
<1>10. CASE UNCHANGED engineVars
  BY <1>2, <1>10 DEF engineVars
<1> QED
  BY <1>4, <1>5, <1>6, <1>7, <1>8, <1>9, <1>10 DEF Next

\* The directory follows the book through each of the three effects.
LEMMA EffectCovers ==
    ASSUME EngineInv, Covered, Entering, FreshReplaceIds, Effect
    PROVE  Covered'
<1>1. orders \in [Keys -> OrderRef \cup {None}] /\ books \in [Instruments -> BookOf(BookOrder)]
  BY Parts DEF OrdersOK, BooksOK
<1>2. \A j \in Instruments, x \in Slots : books[j].slab[x] # Free =>
         /\ LiveKey(books[j].slab[x]) \in Keys
         /\ EntryOf(orders[LiveKey(books[j].slab[x])], j, x, books[j].slab[x])
  BY SlabOrder DEF Covered
<1>3. CASE UNCHANGED <<books, orders>>
  BY <1>3 DEF Covered
\* One slot is written and every other order keeps its entry.
<1>4. ASSUME NEW i \in Instruments, NEW h \in Slots, NEW v, NEW c,
             books' = [books EXCEPT ![i] = c], c.slab = [books[i].slab EXCEPT ![h] = v],
             v # Free => EntryOf(orders'[LiveKey(v)], i, h, v),
             \A j \in Instruments, x \in Slots :
                books[j].slab[x] # Free /\ (j # i \/ x # h) =>
                   orders'[LiveKey(books[j].slab[x])] = orders[LiveKey(books[j].slab[x])]
      PROVE  Covered'
  <2>1. PICK slab : slab = [books[i].slab EXCEPT ![h] = v] /\ c.slab = slab
    BY <1>4
  <2>2. books[i].slab \in [Slots -> BookOrder \cup {Free}]
    BY <1>1 DEF BookOf
  <2>3. books'[i] = c /\ \A j \in Instruments : j # i => books'[j] = books[j]
    BY <1>1, <1>4
  <2>4. slab[h] = v /\ \A x \in Slots : x # h => slab[x] = books[i].slab[x]
    BY <2>1, <2>2
  <2> SUFFICES ASSUME NEW j \in Instruments, NEW x \in Slots, NEW o, o = books'[j].slab[x],
                      o # Free
               PROVE  EntryOf(orders'[LiveKey(o)], j, x, o)
    BY DEF Covered
  <2>5. CASE j = i /\ x = h
    <3>1. o = v
      BY <2>1, <2>3, <2>4, <2>5
    <3> QED
      BY <1>4, <2>5, <3>1
  <2>6. CASE j # i \/ x # h
    <3>1. o = books[j].slab[x]
      BY <2>1, <2>3, <2>4, <2>6
    <3>2. orders'[LiveKey(o)] = orders[LiveKey(o)]
      BY <1>4, <2>6, <3>1
    <3> QED
      BY <1>2, <3>1, <3>2
  <2> QED
    BY <2>5, <2>6
\* An order in another slot has another key.
<1>5. ASSUME NEW i \in Instruments, NEW h \in Slots, books[i].slab[h] # Free,
             NEW j \in Instruments, NEW x \in Slots, books[j].slab[x] # Free, j # i \/ x # h
      PROVE  LiveKey(books[j].slab[x]) # LiveKey(books[i].slab[h])
  BY <1>2, <1>5 DEF EntryOf
<1>6. ASSUME NEW i \in Instruments, NEW h \in Slots, Removes(i, h)
      PROVE  Covered'
  <2>1. PICK c : c = remove_at(books[i], h)
    OBVIOUS
  <2>2. c.slab = [books[i].slab EXCEPT ![h] = Free] /\ books' = [books EXCEPT ![i] = c]
    BY <1>6, <2>1 DEF Removes, remove_at
  <2>3. PICK k \in Keys : k = LiveKey(books[i].slab[h]) /\ books[i].slab[h] # Free
    BY <1>2, <1>6 DEF Removes
  <2>4. \A y \in Keys : y # k => orders'[y] = orders[y]
    BY <1>1, <1>6, <2>3 DEF Removes
  <2>5. \A j \in Instruments, x \in Slots :
           books[j].slab[x] # Free /\ (j # i \/ x # h) =>
              orders'[LiveKey(books[j].slab[x])] = orders[LiveKey(books[j].slab[x])]
    BY <1>2, <1>5, <2>3, <2>4
  <2> QED
    BY <1>4, <2>2, <2>5
<1>7. ASSUME NEW i \in Instruments, NEW h \in Slots, NEW o \in BookOrder, Edits(i, h, o)
      PROVE  Covered'
  <2>1. PICK c : c = [slab |-> [books[i].slab EXCEPT ![h] = o], queue |-> books[i].queue]
    OBVIOUS
  <2>2. c.slab = [books[i].slab EXCEPT ![h] = o] /\ books' = [books EXCEPT ![i] = c]
    BY <1>7, <2>1 DEF Edits
  <2>3. PICK old \in BookOrder, k \in Keys, new \in Keys :
           /\ old = books[i].slab[h] /\ old # Free /\ k = LiveKey(old) /\ new = LiveKey(o)
    <3>1. books[i].slab[h] # Free
      BY <1>7 DEF Edits
    <3>2. LiveKey(o) \in Keys
      BY DEF LiveKey, Keys, BookOrder
    <3> QED
      BY <3>1, <3>2, SlabOrder
  <2>4. EntryOf(orders[k], i, h, old)
    BY <1>2, <2>3
  <2>5. orders' = [orders EXCEPT ![k] = None, ![new] = orders[k]]
    BY <1>7, <2>3 DEF Edits
  <2>6. orders'[new] = orders[k] /\ \A y \in Keys : y # k /\ y # new => orders'[y] = orders[y]
    BY <1>1, <2>5
  <2>7. new = k \/ orders[new] = None
    BY <1>7, <2>3 DEF Edits
  <2>8. ASSUME NEW j \in Instruments, NEW x \in Slots, books[j].slab[x] # Free, j # i \/ x # h
        PROVE  orders'[LiveKey(books[j].slab[x])] = orders[LiveKey(books[j].slab[x])]
    <3>1. PICK y \in Keys : y = LiveKey(books[j].slab[x])
      BY <1>2, <2>8
    <3>2. y # k
      BY <1>5, <2>3, <2>8, <3>1
    <3>3. orders[y] # None
      BY <1>2, <2>8, <3>1 DEF EntryOf
    <3>4. y # new
      BY <2>7, <3>2, <3>3
    <3> QED
      BY <2>6, <3>1, <3>2, <3>4
  <2>9. EntryOf(orders'[LiveKey(o)], i, h, o)
    <3>1. /\ o.exchange_order_id = old.exchange_order_id
          /\ o.remaining_quantity \in 1 .. old.remaining_quantity
      BY <1>7, <2>3 DEF Edits
    <3>2. orders'[LiveKey(o)] = orders[k]
      BY <2>3, <2>6
    <3>3. orders[k] \in OrderRef
      BY <1>1, <2>4 DEF EntryOf
    <3>4. PICK a \in Nat, b \in Nat, m \in Nat :
             /\ a = o.remaining_quantity /\ b = old.remaining_quantity
             /\ m = orders[k].original_quantity
      BY <3>3 DEF BookOrder, OrderRef
    <3>5. a <= b /\ b <= m
      BY <2>4, <3>1, <3>4 DEF EntryOf
    <3>6. a <= m
      BY <3>4, <3>5
    <3> QED
      BY <2>4, <3>1, <3>2, <3>4, <3>6 DEF EntryOf
  <2>10. \A j \in Instruments, x \in Slots :
            books[j].slab[x] # Free /\ (j # i \/ x # h) =>
               orders'[LiveKey(books[j].slab[x])] = orders[LiveKey(books[j].slab[x])]
    BY <2>8
  <2> QED
    BY <1>4, <2>2, <2>9, <2>10
<1>8. ASSUME NEW i \in Instruments, NEW h \in Slots, NEW o \in BookOrder, NEW ref \in OrderRef,
             Adds(i, h, o, ref)
      PROVE  Covered'
  <2>1. PICK c : c = add(books[i], o, h)
    OBVIOUS
  <2>2. c.slab = [books[i].slab EXCEPT ![h] = o] /\ books' = [books EXCEPT ![i] = c]
    BY <1>8, <2>1 DEF Adds, add
  <2>3. PICK k \in Keys : k = LiveKey(o) /\ k = LiveKey(incoming)
    <3>1. LiveKey(o) \in Keys
      BY DEF LiveKey, Keys, BookOrder
    <3> QED
      BY <1>8, <3>1 DEF Adds
  <2>4. ~Idle
    BY <1>8, MarksAssumption DEF Adds, Idle
  <2>5. /\ orders[k] = None
        /\ incoming.order_sequence = incoming.exchange_order_id
        /\ incoming.remaining_quantity <= incoming.original_quantity
    BY <2>3, <2>4 DEF Entering
  <2>6. orders'[k] = ref /\ \A y \in Keys : y # k => orders'[y] = orders[y]
    BY <1>1, <1>8, <2>3 DEF Adds
  <2>7. ASSUME NEW j \in Instruments, NEW x \in Slots, books[j].slab[x] # Free
        PROVE  orders'[LiveKey(books[j].slab[x])] = orders[LiveKey(books[j].slab[x])]
    <3>1. PICK y \in Keys : y = LiveKey(books[j].slab[x])
      BY <1>2, <2>7
    <3>2. orders[y] # None
      BY <1>2, <2>7, <3>1 DEF EntryOf
    <3> QED
      BY <2>5, <2>6, <3>1, <3>2
  <2>8. EntryOf(orders'[LiveKey(o)], i, h, o)
    <3>1. orders'[LiveKey(o)] = ref /\ ref # None
      BY <2>3, <2>6, MarksAssumption
    <3> QED
      BY <1>8, <2>5, <3>1 DEF EntryOf, Adds
  <2> QED
    BY <1>4, <2>2, <2>7, <2>8
<1> QED
  BY <1>3, <1>6, <1>7, <1>8 DEF Effect

\* What snapshot() composes for the k-th order of a level.
LEMMA SnapshotLevel ==
    ASSUME NEW i \in DOMAIN snapshot, NEW s \in Sides, NEW p \in DOMAIN snapshot[i][s]
    PROVE  /\ i \in registered /\ p \in Prices
           /\ DOMAIN snapshot[i][s][p] = DOMAIN books[i].queue[s][p]
           /\ \A k \in DOMAIN books[i].queue[s][p] :
                 snapshot[i][s][p][k] = compose(at(books[i], books[i].queue[s][p][k]), i)
<1>1. DOMAIN snapshot = {r \in registered : LiveSlots(books[r]) # {}}
  BY DEF snapshot
<1>2. snapshot[i] = [t \in Sides |-> [q \in Levels(books[i], t) |->
                       [k \in DOMAIN books[i].queue[t][q] |->
                          compose(at(books[i], books[i].queue[t][q][k]), i)]]]
  BY <1>1 DEF snapshot
<1>3. snapshot[i][s] = [q \in Levels(books[i], s) |->
                          [k \in DOMAIN books[i].queue[s][q] |->
                             compose(at(books[i], books[i].queue[s][q][k]), i)]]
  BY <1>2
<1>4. p \in Levels(books[i], s)
  BY <1>3
<1>5. snapshot[i][s][p] = [k \in DOMAIN books[i].queue[s][p] |->
                             compose(at(books[i], books[i].queue[s][p][k]), i)]
  BY <1>3, <1>4
<1> QED
  BY <1>1, <1>4, <1>5 DEF Levels

LEMMA CoveredMeans ==
    ASSUME EngineInv, Positive, Aged, Covered
    PROVE  DirectoryCoversBook
<1>1. ASSUME NEW i \in Instruments, NEW h \in LiveSlots(books[i])
      PROVE  LET ref == orders[LiveKey(at(books[i], h))]
             IN  ref # None /\ ref.instrument_id = i /\ ref.handle = h
  BY <1>1 DEF Covered, EntryOf, LiveSlots, at
<1>2. ASSUME NEW i \in DOMAIN snapshot, NEW s \in Sides, NEW p \in DOMAIN snapshot[i][s],
             NEW k \in DOMAIN snapshot[i][s][p]
      PROVE  LET level == snapshot[i][s][p]
             IN  /\ level[k].remaining_quantity \in 1 .. level[k].original_quantity
                 /\ \A j \in 1 .. k - 1 : level[j].order_sequence < level[k].order_sequence
  <2>1. PICK level : level = snapshot[i][s][p]
    OBVIOUS
  <2>2. /\ i \in registered /\ p \in Prices
        /\ DOMAIN level = DOMAIN books[i].queue[s][p]
        /\ \A n \in DOMAIN books[i].queue[s][p] :
              level[n] = compose(at(books[i], books[i].queue[s][p][n]), i)
    BY <1>2, <2>1, SnapshotLevel
  <2>3. i \in Instruments
    BY <2>2, Parts DEF ScalarsOK
  <2>4. PICK q \in Seq(Slots) : q = books[i].queue[s][p]
    BY <2>2, <2>3, Parts DEF BooksOK, BookOf
  <2>5. DOMAIN q = 1 .. Len(q) /\ k \in 1 .. Len(q)
    BY <1>2, <2>1, <2>2, <2>4
  <2>6. ASSUME NEW n \in 1 .. Len(q)
        PROVE  \E o \in BookOrder, ref \in OrderRef :
                  /\ o = books[i].slab[q[n]] /\ EntryOf(ref, i, q[n], o)
                  /\ o.remaining_quantity \in Nat \ {0}
                  /\ level[n].remaining_quantity = o.remaining_quantity
                  /\ level[n].original_quantity = ref.original_quantity
                  /\ level[n].order_sequence = ref.order_sequence
    <3>1. q[n] \in Slots /\ books[i].slab[q[n]] # Free
      <4>1. QueuedAreLive(books[i])
        BY <2>3, Parts DEF BooksOK, Exact
      <4> QED
        BY <2>2, <2>4, <4>1 DEF QueuedAreLive
    <3>2. PICK o \in BookOrder : o = books[i].slab[q[n]] /\ LiveKey(o) \in Keys
      BY <2>3, <3>1, SlabOrder
    <3>3. PICK ref : ref = orders[LiveKey(o)] /\ EntryOf(ref, i, q[n], o)
      BY <2>3, <3>1, <3>2 DEF Covered
    <3>4. ref \in OrderRef
      BY <3>2, <3>3, Parts DEF OrdersOK, EntryOf
    <3>5. o.remaining_quantity \in Nat \ {0}
      BY <2>3, <3>1, <3>2 DEF Positive, BookOrder
    <3>6. level[n] = compose(o, i)
      BY <2>2, <2>4, <2>5, <3>2 DEF at
    <3>7. /\ level[n].remaining_quantity = o.remaining_quantity
          /\ level[n].original_quantity = ref.original_quantity
          /\ level[n].order_sequence = ref.order_sequence
      BY <3>3, <3>6 DEF compose
    <3> QED
      BY <3>2, <3>3, <3>4, <3>5, <3>7
  <2>7. PICK o \in BookOrder, ref \in OrderRef :
           /\ o = books[i].slab[q[k]] /\ EntryOf(ref, i, q[k], o)
           /\ o.remaining_quantity \in Nat \ {0}
           /\ level[k].remaining_quantity = o.remaining_quantity
           /\ level[k].original_quantity = ref.original_quantity
           /\ level[k].order_sequence = ref.order_sequence
    BY <2>5, <2>6
  <2>8. level[k].remaining_quantity \in 1 .. level[k].original_quantity
    <3>1. PICK a \in Nat \ {0}, b \in Nat : a = o.remaining_quantity /\ b = ref.original_quantity
      BY <2>7 DEF OrderRef
    <3>2. a <= b
      BY <2>7, <3>1 DEF EntryOf
    <3> QED
      BY <2>7, <3>1, <3>2
  <2>9. ASSUME NEW j \in 1 .. k - 1 PROVE level[j].order_sequence < level[k].order_sequence
    <3>1. j \in 1 .. Len(q) /\ j < k
      BY <2>4, <2>5
    <3>2. PICK x \in BookOrder, r \in OrderRef :
             /\ x = books[i].slab[q[j]] /\ EntryOf(r, i, q[j], x)
             /\ level[j].order_sequence = r.order_sequence
      BY <2>6, <3>1
    <3>3. InOrder(books[i])
      BY <2>3 DEF Aged
    <3>4. x.exchange_order_id < o.exchange_order_id
      BY <2>2, <2>4, <2>5, <2>7, <3>1, <3>2, <3>3 DEF InOrder
    <3> QED
      BY <2>7, <3>2, <3>4 DEF EntryOf
  <2> QED
    BY <2>1, <2>8, <2>9
<1>3. ASSUME NEW i \in DOMAIN snapshot, NEW s \in Sides, NEW p \in DOMAIN snapshot[i][s]
      PROVE  LET level == snapshot[i][s][p]
             IN  \A k \in DOMAIN level :
                   /\ level[k].remaining_quantity \in 1 .. level[k].original_quantity
                   /\ \A j \in 1 .. k - 1 : level[j].order_sequence < level[k].order_sequence
  BY <1>2
<1> QED
  BY <1>1, <1>3, Zenon DEF DirectoryCoversBook

\* DirectoryCoversBook: when clients replace onto fresh ids only, every order on a book
\* can be found in orders_, and what compose() puts together for snapshot() belongs to
\* one order.
THEOREM DirectoryComplete == Spec => [](FreshReplaceIds => DirectoryCoversBook)
<1> DEFINE Inv == FreshReplaceIds => Covered /\ Entering
<1>1. Init => Inv
  <2> SUFFICES ASSUME Init PROVE Covered /\ Entering
    OBVIOUS
  <2>1. \A i \in Instruments, h \in Slots : books[i].slab[h] = Free
    BY DEF Init, EmptyBook
  <2>2. Idle /\ next_priority = next_exchange_order_id
    BY DEF Init, Idle
  <2> QED
    BY <2>1, <2>2 DEF Covered, Entering
<1>2. EngineInv /\ EngineInv' /\ (Positive /\ Aged) /\ Inv /\ [Next]_engineVars => Inv'
  <2> SUFFICES ASSUME EngineInv, EngineInv', Positive, Aged, FreshReplaceIds, Covered,
                      Entering, [Next]_engineVars
               PROVE  Covered' /\ Entering'
    OBVIOUS
  <2>1. Effect
    BY StepEffect
  <2> QED
    BY <2>1, EffectCovers, KeptEntering
<1>3. EngineInv /\ (Positive /\ Aged) /\ Inv => (FreshReplaceIds => DirectoryCoversBook)
  BY CoveredMeans
<1> HIDE DEF Inv
<1> QED
  BY <1>1, <1>2, <1>3, EngineInvariance, AgedInvariance, PTL DEF Spec
-----------------------------------------------------------------------------
(***************************************************************************)
(* Fill or kill: the quantity that crosses, which the check made sure of,  *)
(* shrinks with every fill by as much as the order in flight.              *)
(***************************************************************************)

\* Only GTC orders rest, so that no replacement is fill-or-kill.
Lasting ==
    \A i \in Instruments, h \in Slots :
        books[i].slab[h] # Free => books[i].slab[h].time_in_force = GTC

Fillable ==
    ~Idle /\ incoming.time_in_force = FOK =>
        incoming.remaining_quantity <=
           crossable_quantity(books[incoming.instrument_id], contra(incoming.side), incoming.price)

LEMMA EffectLasts ==
    ASSUME EngineInv, Lasting, Effect
    PROVE  Lasting'
<1>1. books \in [Instruments -> BookOf(BookOrder)]
  BY Parts DEF BooksOK
<1>2. \A i \in Instruments : books[i].slab \in [Slots -> BookOrder \cup {Free}]
  BY <1>1 DEF BookOf
\* One slot is written.
<1>3. ASSUME NEW i \in Instruments, NEW h \in Slots, NEW v, NEW c,
             books' = [books EXCEPT ![i] = c], c.slab = [books[i].slab EXCEPT ![h] = v],
             v # Free => v.time_in_force = GTC
      PROVE  Lasting'
  BY <1>1, <1>2, <1>3 DEF Lasting
<1>4. CASE UNCHANGED <<books, orders>>
  BY <1>4 DEF Lasting
<1>5. ASSUME NEW i \in Instruments, NEW h \in Slots, Removes(i, h) PROVE Lasting'
  <2>1. remove_at(books[i], h).slab = [books[i].slab EXCEPT ![h] = Free]
    BY DEF remove_at
  <2> QED
    BY <1>3, <1>5, <2>1 DEF Removes
<1>6. ASSUME NEW i \in Instruments, NEW h \in Slots, NEW o \in BookOrder, Edits(i, h, o)
      PROVE  Lasting'
  <2>1. o.time_in_force = GTC
    BY <1>6 DEF Edits, Lasting
  <2> QED
    BY <1>3, <1>6, <2>1 DEF Edits
<1>7. ASSUME NEW i \in Instruments, NEW h \in Slots, NEW o \in BookOrder, NEW ref \in OrderRef,
             Adds(i, h, o, ref)
      PROVE  Lasting'
  <2>1. add(books[i], o, h).slab = [books[i].slab EXCEPT ![h] = o]
    BY DEF add
  <2> QED
    BY <1>3, <1>7, <2>1 DEF Adds
<1> QED
  BY <1>4, <1>5, <1>6, <1>7 DEF Effect

\* An iteration of match_and_rest(): q units of the order o in slot h of instrument i.
Fills(i, h, o, q) ==
    LET after == o.remaining_quantity - q
    IN  /\ ~Idle /\ incoming \in ExchangeRestingOrder /\ i = incoming.instrument_id
        /\ o = books[i].slab[h] /\ o # Free /\ o.side = contra(incoming.side)
        /\ Crosses(o.side, o.price, incoming.price)
        /\ q # 0 /\ q <= o.remaining_quantity /\ q <= incoming.remaining_quantity
        /\ incoming' = [incoming EXCEPT !.remaining_quantity = @ - q]
        /\ \A j \in Instruments : j # i => books'[j] = books[j]
        /\ books'[i].slab = [books[i].slab EXCEPT ![h] =
              IF after = 0 THEN Free ELSE [o EXCEPT !.remaining_quantity = after]]
        /\ orders' = IF after = 0 THEN [orders EXCEPT ![LiveKey(o)] = None] ELSE orders
        /\ Len(emitted') = 2 /\ emitted'[1] = TradeExecuted(incoming, o, q)
        /\ emitted'[2].type \in {"BookOrderRemoved", "BookOrderReduced"}

LEMMA MatchFills ==
    ASSUME EngineInv, Positive, match_and_rest
    PROVE  \E i \in Instruments, h \in Slots, o \in BookOrder, q \in Nat : Fills(i, h, o, q)
<1>1. incoming \in ExchangeRestingOrder /\ BooksOK
  BY Parts DEF match_and_rest, Idle, IncomingOK
<1>2. PICK i \in Instruments, s \in Sides, n \in Nat :
         /\ i = incoming.instrument_id /\ s = contra(incoming.side)
         /\ n = incoming.remaining_quantity
  BY <1>1, ContraSide DEF ExchangeRestingOrder
<1>3. n > 0 /\ ~empty(books[i], s) /\ Crosses(s, best_price(books[i], s), incoming.price)
  BY <1>2 DEF match_and_rest, CanMatch
<1>4. PICK b \in BookOf(BookOrder) : b = books[i] /\ Exact(b, BookOrder)
  BY <1>1 DEF BooksOK
<1>5. PICK h \in Slots, o \in BookOrder :
         /\ h = front_of_best(b, s) /\ o = b.slab[h] /\ o # Free
         /\ o.side = s /\ o.price = best_price(b, s)
         /\ remove_front(b, s) = remove_at(b, h)
  BY <1>3, <1>4, BookOrders, FrontFacts
<1>6. o.remaining_quantity \in Nat /\ o.remaining_quantity # 0
  BY <1>4, <1>5 DEF Positive, BookOrder
<1>7. PICK q, after : q = Min2(n, o.remaining_quantity) /\ after = o.remaining_quantity - q
  OBVIOUS
<1>8. q \in Nat /\ q # 0 /\ q <= n /\ q <= o.remaining_quantity /\ after \in Nat
  BY <1>3, <1>6, <1>7 DEF Min2
<1>9. /\ ~Idle
      /\ incoming' = [incoming EXCEPT !.remaining_quantity = @ - q]
      /\ IF after = 0
           THEN /\ books' = [books EXCEPT ![i] = remove_front(b, s)]
                /\ orders' = [orders EXCEPT ![<<o.account_id, o.client_order_id>>] = None]
                /\ emitted' = <<TradeExecuted(incoming, o, q), BookOrderRemoved(i, o)>>
           ELSE /\ books' = [books EXCEPT ![i] = reduce_front(b, s, after)]
                /\ emitted' = <<TradeExecuted(incoming, o, q), BookOrderReduced(i, o, after)>>
                /\ orders' = orders
  BY <1>2, <1>4, <1>5, <1>7 DEF match_and_rest, at
<1>10. PICK c : /\ books' = [books EXCEPT ![i] = c]
                /\ c.slab = [b.slab EXCEPT ![h] =
                      IF after = 0 THEN Free ELSE [o EXCEPT !.remaining_quantity = after]]
  <2>1. CASE after = 0
    <3>1. remove_at(b, h).slab = [b.slab EXCEPT ![h] = Free]
      BY DEF remove_at
    <3> QED
      BY <1>5, <1>9, <2>1, <3>1
  <2>2. CASE after # 0
    <3>1. b = [slab |-> b.slab, queue |-> b.queue]
      BY DEF BookOf
    <3>2. reduce_front(b, s, after)
             = [b EXCEPT !.slab = [b.slab EXCEPT ![h] = [o EXCEPT !.remaining_quantity = after]]]
      BY <1>5 DEF reduce_front, reduce_at
    <3>3. reduce_front(b, s, after).slab = [b.slab EXCEPT ![h] = [o EXCEPT !.remaining_quantity = after]]
      BY <3>1, <3>2
    <3> QED
      BY <1>9, <2>2, <3>3
  <2> QED
    BY <2>1, <2>2
<1>11. /\ \A j \in Instruments : j # i => books'[j] = books[j]
       /\ books'[i] = c
  BY <1>1, <1>10 DEF BooksOK
<1>12. orders' = IF after = 0 THEN [orders EXCEPT ![LiveKey(o)] = None] ELSE orders
  BY <1>9 DEF LiveKey
<1>13. /\ Len(emitted') = 2 /\ emitted'[1] = TradeExecuted(incoming, o, q)
       /\ emitted'[2].type \in {"BookOrderRemoved", "BookOrderReduced"}
  BY <1>9 DEF BookOrderRemoved, BookOrderReduced
<1>14. Fills(i, h, o, q)
  BY <1>1, <1>2, <1>3, <1>4, <1>5, <1>7, <1>8, <1>9, <1>10, <1>11, <1>12, <1>13 DEF Fills
<1> QED
  BY <1>8, <1>14

\* crossable_quantity() of any book, by slot.
LEMMA Crossable ==
    ASSUME NEW b, Exact(b, BookOrder), NEW s \in Sides, NEW p
    PROVE  /\ Offers(b, s, p) \in [Slots -> Nat]
           /\ crossable_quantity(b, s, p) = Total(Offers(b, s, p))
<1>1. \A o \in BookOrder : o.remaining_quantity \in Nat
  BY DEF BookOrder
<1> QED
  BY <1>1, BookOrders, CrossableTotal

LEMMA MatchFillable ==
    ASSUME EngineInv, EngineInv', Positive, Fillable, match_and_rest
    PROVE  Fillable'
<1>1. PICK i \in Instruments, h \in Slots, o \in BookOrder, q \in Nat : Fills(i, h, o, q)
  BY MatchFills
<1>2. PICK s \in Sides, p \in Prices, n \in Nat :
         /\ s = contra(incoming.side) /\ p = incoming.price /\ n = incoming.remaining_quantity
  BY <1>1, ContraSide DEF Fills, ExchangeRestingOrder
<1>3. /\ incoming'.instrument_id = i /\ contra(incoming'.side) = s /\ incoming'.price = p
      /\ incoming'.remaining_quantity = n - q
      /\ incoming'.time_in_force = incoming.time_in_force
  BY <1>1, <1>2 DEF Fills, ExchangeRestingOrder
<1> DEFINE f == Offers(books[i], s, p)
           g == Offers(books'[i], s, p)
<1>4. /\ f \in [Slots -> Nat] /\ crossable_quantity(books[i], s, p) = Total(f)
      /\ crossable_quantity(books'[i], s, p) = Total(g)
  <2>1. Exact(books[i], BookOrder) /\ Exact(books'[i], BookOrder)
    BY Parts, PartsAfter DEF BooksOK
  <2> QED
    BY <2>1, Crossable
<1>5. /\ o.remaining_quantity \in Nat /\ q <= o.remaining_quantity /\ q <= n
      /\ o = books[i].slab[h] /\ o # Free /\ o.side = s /\ Crosses(s, o.price, p)
      /\ books'[i].slab = [books[i].slab EXCEPT ![h] =
            IF o.remaining_quantity - q = 0 THEN Free
            ELSE [o EXCEPT !.remaining_quantity = o.remaining_quantity - q]]
  BY <1>1, <1>2 DEF Fills, BookOrder
<1>6. f[h] = o.remaining_quantity
  BY <1>5 DEF Offers
<1>7. g = [f EXCEPT ![h] = o.remaining_quantity - q]
  <2>1. books[i].slab \in [Slots -> BookOrder \cup {Free}]
    BY Parts DEF BooksOK, BookOf
  <2>2. ASSUME NEW x \in Slots, x # h PROVE g[x] = f[x]
    <3>1. books'[i].slab[x] = books[i].slab[x]
      BY <1>5, <2>1, <2>2
    <3> QED
      BY <3>1 DEF Offers
  <2>3. g[h] = o.remaining_quantity - q
    <3>1. CASE o.remaining_quantity - q = 0
      <4>1. books'[i].slab[h] = Free
        BY <1>5, <2>1, <3>1
      <4> QED
        BY <3>1, <4>1 DEF Offers
    <3>2. CASE o.remaining_quantity - q # 0
      <4>1. PICK o2 : o2 = [o EXCEPT !.remaining_quantity = o.remaining_quantity - q]
        OBVIOUS
      <4>2. books'[i].slab[h] = o2
        BY <1>5, <2>1, <3>2, <4>1
      <4>3. /\ o2 \in BookOrder /\ o2.side = o.side /\ o2.price = o.price
            /\ o2.remaining_quantity = o.remaining_quantity - q
        BY <1>5, <4>1 DEF BookOrder
      <4>4. o2 # Free
        BY <4>3, MarksAssumption
      <4> QED
        BY <1>5, <4>2, <4>3, <4>4 DEF Offers
    <3> QED
      BY <3>1, <3>2
  <2>4. DOMAIN g = Slots /\ g = [x \in Slots |-> g[x]]
    BY DEF Offers
  <2> HIDE DEF f, g
  <2> QED
    BY <1>4, <2>2, <2>3, <2>4
<1> HIDE DEF f, g
<1>8. Total(g) = Total(f) - q
  <2>1. PICK v \in Nat : v = o.remaining_quantity - q
    BY <1>5
  <2>2. Total(g) = Total(f) - f[h] + v
    <3>1. f \in [Slots -> Nat] /\ g = [f EXCEPT ![h] = v]
      BY <1>4, <1>7, <2>1
    <3> QED
      BY <3>1, TotalUpdate, SlotsAssumption
  <2>3. Total(f) \in Nat
    BY <1>4, TotalType, SlotsAssumption
  <2> QED
    BY <1>5, <1>6, <2>1, <2>2, <2>3
<1>9. Total(f) \in Nat
  BY <1>4, TotalType, SlotsAssumption
<1>10. ASSUME incoming'.time_in_force = FOK
       PROVE  incoming'.remaining_quantity <=
                crossable_quantity(books'[incoming'.instrument_id], contra(incoming'.side), incoming'.price)
  <2>1. n <= Total(f)
    BY <1>1, <1>2, <1>3, <1>4, <1>10 DEF Fillable, Fills
  <2>2. n - q <= Total(g)
    BY <1>8, <1>9, <2>1
  <2> QED
    BY <1>3, <1>4, <2>2
<1> QED
  BY <1>10 DEF Fillable

LEMMA StepFillable ==
    ASSUME EngineInv, EngineInv', Positive, Lasting, Fillable, [Next]_engineVars
    PROVE  Fillable'
<1>1. ASSUME Idle' PROVE Fillable'
  BY <1>1 DEF Fillable
<1>2. CASE \E i \in Instruments : register_instrument(i)
  BY <1>1, <1>2 DEF register_instrument, Idle
<1>3. CASE \E c \in NewOrderCommand : process_new_order(c)
  <2>1. PICK c \in NewOrderCommand : RejectNewOrder(c) \/ AcceptNewOrder(c)
    BY <1>3 DEF process_new_order
  <2>2. CASE RejectNewOrder(c)
    BY <1>1, <2>2 DEF RejectNewOrder, reject_new_order, Reject, Idle
  <2>3. CASE AcceptNewOrder(c)
    <3>1. /\ books' = books /\ incoming'.instrument_id = c.instrument_id
          /\ incoming'.side = c.side /\ incoming'.price = c.price
          /\ incoming'.remaining_quantity = c.quantity /\ incoming'.time_in_force = c.time_in_force
      BY <2>3 DEF AcceptNewOrder
    <3>2. NewOrderReason(c) = "None"
      BY <2>3 DEF AcceptNewOrder
    <3>3. c.time_in_force = FOK =>
             ~(crossable_quantity(books[c.instrument_id], contra(c.side), c.price) < c.quantity)
      BY <3>2 DEF NewOrderReason
    <3>4. c.quantity \in Nat
      <4>1. c.quantity \in Quantities \cup Invalid
        BY DEF NewOrderCommand
      <4>2. \A n \in Quantities : n \in Nat
        BY EngineAssumption
      <4>3. \A n \in Invalid : n = 0
        BY EngineAssumption
      <4> QED
        BY <4>1, <4>2, <4>3
    <3>5. crossable_quantity(books[c.instrument_id], contra(c.side), c.price) \in Nat
      <4>1. PICK i \in Instruments, s \in Sides : i = c.instrument_id /\ s = contra(c.side)
        BY ContraSide DEF NewOrderCommand
      <4>2. Exact(books[i], BookOrder)
        BY Parts DEF BooksOK
      <4> QED
        BY <4>1, <4>2, Crossable, TotalType, SlotsAssumption
    <3>6. c.time_in_force = FOK =>
             c.quantity <= crossable_quantity(books[c.instrument_id], contra(c.side), c.price)
      BY <3>3, <3>4, <3>5
    <3> QED
      BY <3>1, <3>6 DEF Fillable
  <2> QED
    BY <2>1, <2>2, <2>3
<1>4. CASE \E c \in CancelOrderCommand : process_cancel(c)
  BY <1>1, <1>4 DEF process_cancel, RejectCancel, Reject, CancelResting, Idle
<1>5. CASE \E c \in ReplaceOrderCommand : ClientMaySend(c) /\ process_replace(c)
  <2>1. PICK c \in ReplaceOrderCommand :
           RejectReplace(c) \/ ReplaceInPlace(c) \/ ReplaceAsNew(c)
    BY <1>5 DEF process_replace
  <2>2. CASE RejectReplace(c)
    BY <1>1, <2>2 DEF RejectReplace, reject_replace_order, Reject, Idle
  <2>3. CASE ReplaceInPlace(c)
    BY <1>1, <2>3 DEF ReplaceInPlace, Idle
  <2>4. CASE ReplaceAsNew(c)
    <3>1. PICK k, i : k = <<c.account_id, c.original_client_order_id>> /\ i = c.instrument_id
      OBVIOUS
    <3>2. ReplaceReason(c) = "None"
      BY <2>4 DEF ReplaceAsNew
    <3>3. i \in Instruments /\ orders[k].handle \in Slots /\ books[i].slab[orders[k].handle] # Free
      BY <3>1, <3>2, ReplaceFacts
    <3>4. incoming'.time_in_force = books[i].slab[orders[k].handle].time_in_force
      BY <2>4, <3>1 DEF ReplaceAsNew, at
    <3>5. incoming'.time_in_force = GTC
      BY <3>3, <3>4 DEF Lasting
    <3> QED
      BY <3>5 DEF Fillable, GTC, FOK
  <2> QED
    BY <2>1, <2>2, <2>3, <2>4
<1>6. CASE match_and_rest
  BY <1>6, MatchFillable
<1>7. CASE rest_remainder_if_applicable
  BY <1>1, <1>7 DEF rest_remainder_if_applicable, RestRemainder, DiscardRemainder, Idle
<1>8. CASE UNCHANGED engineVars
  BY <1>8 DEF engineVars, Fillable, Idle
<1> QED
  BY <1>2, <1>3, <1>4, <1>5, <1>6, <1>7, <1>8 DEF Next

\* When the loop ends nothing crosses, so nothing is left to fill.
LEMMA FillableMeans ==
    ASSUME EngineInv, Fillable
    PROVE  FillOrKill
<1> SUFFICES ASSUME ~Idle, incoming.time_in_force = FOK, ~CanMatch,
                    incoming.remaining_quantity # 0
             PROVE  FALSE
  BY DEF FillOrKill
<1>1. incoming \in ExchangeRestingOrder
  BY Parts DEF Idle, IncomingOK
<1>2. PICK i \in Instruments, s \in Sides, p \in Prices, n \in Nat :
         /\ i = incoming.instrument_id /\ s = contra(incoming.side)
         /\ p = incoming.price /\ n = incoming.remaining_quantity
  BY <1>1, ContraSide DEF ExchangeRestingOrder
<1> DEFINE f == Offers(books[i], s, p)
<1>3. f \in [Slots -> Nat] /\ crossable_quantity(books[i], s, p) = Total(f)
  BY Crossable, Parts DEF BooksOK
<1>4. ASSUME NEW x \in Slots PROVE f[x] = 0
  <2>1. PICK o : o = books[i].slab[x]
    OBVIOUS
  <2>2. SUFFICES ASSUME o # Free, o.side = s PROVE ~Crosses(s, o.price, p)
    BY <2>1 DEF Offers
  <2>3. IF incoming.side = "Buy" THEN p < o.price ELSE o.price < p
    BY <1>1, <1>2, <2>1, <2>2, LoopExhausts
  <2>4. o.price \in Nat /\ p \in Nat
    BY <2>1, <2>2, SlabOrder, PricesAssumption DEF BookOrder
  <2>5. incoming.side \in Sides
    BY <1>1 DEF ExchangeRestingOrder
  <2> QED
    BY <1>2, <2>3, <2>4, <2>5 DEF Crosses, contra, Sides
<1> HIDE DEF f
<1>5. Total(f) = 0
  BY <1>3, <1>4, TotalNone
<1>6. n <= 0
  BY <1>2, <1>3, <1>5 DEF Fillable
<1> QED
  BY <1>2, <1>6

\* FillOrKill: an accepted fill-or-kill order is filled when the loop of match_and_rest()
\* ends, whatever the book: crossable_quantity() promised neither more nor less than the
\* loop takes.
THEOREM FillOrKillHolds == Spec => []FillOrKill
<1>1. Init => Lasting /\ Fillable
  <2> SUFFICES ASSUME Init PROVE Lasting /\ Fillable
    OBVIOUS
  <2>1. \A i \in Instruments, h \in Slots : books[i].slab[h] = Free
    BY DEF Init, EmptyBook
  <2> QED
    BY <2>1 DEF Init, Idle, Lasting, Fillable
<1>2. EngineInv /\ EngineInv' /\ (Positive /\ Aged) /\ (Lasting /\ Fillable) /\ [Next]_engineVars
        => (Lasting /\ Fillable)'
  BY StepEffect, EffectLasts, StepFillable
<1>3. EngineInv /\ (Lasting /\ Fillable) => FillOrKill
  BY FillableMeans
<1> QED
  BY <1>1, <1>2, <1>3, EngineInvariance, AgedInvariance, PTL DEF Spec

-----------------------------------------------------------------------------
(***************************************************************************)
(*                         THE RISK-GATED ENGINE                           *)
(***************************************************************************)

(***************************************************************************)
(* Arithmetic: products, and the wrap of Quantity.                         *)
(***************************************************************************)
LEMMA Products ==
    ASSUME NEW m \in Nat, NEW n \in Nat, NEW p \in Nat, n <= m
    PROVE  /\ m * p \in Nat /\ n * p \in Nat /\ n * p <= m * p
           /\ (m - n) * p = m * p - n * p
           /\ p * n \in Nat /\ p * n <= p * m
OBVIOUS

LEMMA NoWrap ==
    ASSUME NEW m \in Nat, m < QuantityModulus
    PROVE  m % QuantityModulus = m
BY RiskAssumption

\* Units that come and go again, as in a self-trade.
LEMMA WrapUndone ==
    ASSUME NEW m \in Nat, NEW q \in Nat, m < QuantityModulus, q <= m
    PROVE  Minus(Plus(m, q), q) = m
<1>1. PICK w \in Nat \ {0} : w = QuantityModulus
  BY RiskAssumption
<1>2. (m - w) % w = m /\ m % w = m
  BY <1>1
<1>3. CASE m + q < w
  <2>1. (m + q) % w = m + q
    BY <1>1, <1>3
  <2>2. (m + q) - q = m
    OBVIOUS
  <2> QED
    BY <1>1, <1>2, <2>1, <2>2 DEF Plus, Minus
<1>4. CASE ~(m + q < w)
  <2>1. PICK r \in Nat : r = m + q - w /\ r < w
    BY <1>1, <1>4
  <2>2. (r + w) % w = r
    BY <1>1, <2>1
  <2>3. (m + q) % w = r /\ r - q = m - w
    BY <1>1, <2>1, <2>2
  <2> QED
    BY <1>1, <1>2, <2>3 DEF Plus, Minus
<1> QED
  BY <1>3, <1>4

-----------------------------------------------------------------------------
(***************************************************************************)
(* What the holds of an account reserve, key by key.                       *)
(***************************************************************************)
CashOf(hold, k, a) ==
    IF k[1] = a /\ hold # None /\ hold.side = "Buy" THEN hold.remaining * hold.limit_price ELSE 0

UnitsOf(hold, k, a, i) ==
    IF k[1] = a /\ hold # None /\ hold.side = "Sell" /\ hold.instrument_id = i
    THEN hold.remaining ELSE 0

CashHeld(h, a)     == [k \in Keys |-> CashOf(h[k], k, a)]
UnitsHeld(h, a, i) == [k \in Keys |-> UnitsOf(h[k], k, a, i)]

\* Reservations cr of cash and pr of units that are those of the holds h.
Reserves(cr, pr, h) ==
    /\ cr \in [Accounts -> Nat]
    /\ pr \in [Accounts -> [Instruments -> Nat]]
    /\ h \in [Keys -> Hold \cup {None}]
    /\ \A a \in Accounts :
          /\ cr[a] = Total(CashHeld(h, a))
          /\ \A i \in Instruments : pr[a][i] = Total(UnitsHeld(h, a, i))

LEMMA KeysFinite == IsFiniteSet(Keys)
BY RiskAssumption, FS_Product DEF Keys

LEMMA KeyFacts ==
    ASSUME NEW k \in Keys
    PROVE  k[1] \in Accounts /\ k[2] \in ClientIds
BY DEF Keys

LEMMA HoldTypes ==
    ASSUME NEW hold \in Hold
    PROVE  /\ hold # None /\ hold.remaining \in Nat /\ hold.limit_price \in Nat
           /\ hold.side \in Sides /\ hold.instrument_id \in Instruments
           /\ hold.remaining * hold.limit_price \in Nat
<1>1. hold.remaining \in Nat /\ hold.limit_price \in Nat
  BY PricesAssumption DEF Hold
<1>2. hold.remaining * hold.limit_price \in Nat
  BY <1>1
<1> QED
  BY <1>1, <1>2, HoldAssumption DEF Hold

LEMMA OfTypes ==
    ASSUME NEW hold \in Hold \cup {None}, NEW k, NEW a, NEW i
    PROVE  CashOf(hold, k, a) \in Nat /\ UnitsOf(hold, k, a, i) \in Nat
BY HoldTypes DEF CashOf, UnitsOf

\* Reservations that differ by what the holds u and v under k differ.
Moved(cr, pr, cr2, pr2, k, u, v) ==
    /\ cr2 = [a \in Accounts |-> cr[a] - CashOf(u, k, a) + CashOf(v, k, a)]
    /\ pr2 = [a \in Accounts |-> [i \in Instruments |->
                 pr[a][i] - UnitsOf(u, k, a, i) + UnitsOf(v, k, a, i)]]

\* The same account by account.
LEMMA MovedIf ==
    ASSUME NEW cr, NEW pr, NEW cr2 \in [Accounts -> Int],
           NEW pr2 \in [Accounts -> [Instruments -> Int]], NEW k, NEW u, NEW v,
           \A a \in Accounts : cr2[a] = cr[a] - CashOf(u, k, a) + CashOf(v, k, a),
           \A a \in Accounts, i \in Instruments :
              pr2[a][i] = pr[a][i] - UnitsOf(u, k, a, i) + UnitsOf(v, k, a, i)
    PROVE  Moved(cr, pr, cr2, pr2, k, u, v)
<1>1. \A a \in Accounts :
         pr2[a] = [i \in Instruments |-> pr[a][i] - UnitsOf(u, k, a, i) + UnitsOf(v, k, a, i)]
  <2> SUFFICES ASSUME NEW a \in Accounts
               PROVE  pr2[a] = [i \in Instruments |->
                         pr[a][i] - UnitsOf(u, k, a, i) + UnitsOf(v, k, a, i)]
    OBVIOUS
  <2>1. pr2[a] = [i \in Instruments |-> pr2[a][i]]
    OBVIOUS
  <2> QED
    BY <2>1
<1>2. pr2 = [a \in Accounts |-> pr2[a]]
  OBVIOUS
<1>3. cr2 = [a \in Accounts |-> cr2[a]]
  OBVIOUS
<1> QED
  BY <1>1, <1>2, <1>3 DEF Moved

\* One entry of a table of units is written.
LEMMA CellWritten ==
    ASSUME NEW pr \in [Accounts -> [Instruments -> Nat]], NEW a1 \in Accounts,
           NEW i1 \in Instruments, NEW n \in Int,
           NEW pr2, pr2 = [pr EXCEPT ![a1] = [pr[a1] EXCEPT ![i1] = n]]
    PROVE  /\ pr2 \in [Accounts -> [Instruments -> Int]]
           /\ \A a \in Accounts, i \in Instruments :
                 pr2[a][i] = IF a = a1 /\ i = i1 THEN n ELSE pr[a][i]
<1>1. [pr[a1] EXCEPT ![i1] = n] \in [Instruments -> Int]
  OBVIOUS
<1>2. \A a \in Accounts : pr[a] \in [Instruments -> Int]
  OBVIOUS
<1> QED
  BY <1>1, <1>2

\* The cash of one account changes, or its units of one instrument.
LEMMA CashMoves ==
    ASSUME NEW cr \in [Accounts -> Nat], NEW pr \in [Accounts -> [Instruments -> Nat]],
           NEW k, NEW u \in Hold \cup {None}, NEW v \in Hold \cup {None},
           NEW a1 \in Accounts, NEW n \in Int,
           n = cr[a1] - CashOf(u, k, a1) + CashOf(v, k, a1),
           \A a \in Accounts : a # a1 => CashOf(u, k, a) = CashOf(v, k, a),
           \A a \in Accounts, i \in Instruments : UnitsOf(u, k, a, i) = UnitsOf(v, k, a, i)
    PROVE  Moved(cr, pr, [cr EXCEPT ![a1] = n], pr, k, u, v)
<1> DEFINE cr2 == [cr EXCEPT ![a1] = n]
<1>1. cr2 \in [Accounts -> Int] /\ pr \in [Accounts -> [Instruments -> Int]]
  OBVIOUS
<1>2. \A a \in Accounts : cr2[a] = cr[a] - CashOf(u, k, a) + CashOf(v, k, a)
  BY OfTypes
<1>3. \A a \in Accounts, i \in Instruments :
         pr[a][i] = pr[a][i] - UnitsOf(u, k, a, i) + UnitsOf(v, k, a, i)
  BY OfTypes
<1> HIDE DEF cr2
<1>4. Moved(cr, pr, cr2, pr, k, u, v)
  BY <1>1, <1>2, <1>3, MovedIf
<1> QED
  BY <1>4 DEF cr2

LEMMA UnitsMove ==
    ASSUME NEW cr \in [Accounts -> Nat], NEW pr \in [Accounts -> [Instruments -> Nat]],
           NEW k, NEW u \in Hold \cup {None}, NEW v \in Hold \cup {None},
           NEW a1 \in Accounts, NEW i1 \in Instruments, NEW n \in Int,
           n = pr[a1][i1] - UnitsOf(u, k, a1, i1) + UnitsOf(v, k, a1, i1),
           \A a \in Accounts : CashOf(u, k, a) = CashOf(v, k, a),
           \A a \in Accounts, i \in Instruments :
              ~(a = a1 /\ i = i1) => UnitsOf(u, k, a, i) = UnitsOf(v, k, a, i)
    PROVE  Moved(cr, pr, cr, [pr EXCEPT ![a1] = [pr[a1] EXCEPT ![i1] = n]], k, u, v)
<1> DEFINE pr2 == [pr EXCEPT ![a1] = [pr[a1] EXCEPT ![i1] = n]]
<1>1. /\ pr2 \in [Accounts -> [Instruments -> Int]]
      /\ \A a \in Accounts, i \in Instruments :
            pr2[a][i] = IF a = a1 /\ i = i1 THEN n ELSE pr[a][i]
  BY CellWritten
<1> HIDE DEF pr2
<1>2. \A a \in Accounts : cr[a] = cr[a] - CashOf(u, k, a) + CashOf(v, k, a)
  <2>1. \A a \in Accounts : CashOf(u, k, a) \in Nat
    BY OfTypes
  <2> QED
    BY <2>1
<1>3. \A a \in Accounts, i \in Instruments :
         pr2[a][i] = pr[a][i] - UnitsOf(u, k, a, i) + UnitsOf(v, k, a, i)
  <2>1. \A a \in Accounts, i \in Instruments : UnitsOf(u, k, a, i) \in Nat
    BY OfTypes
  <2> QED
    BY <1>1, <2>1
<1>4. cr \in [Accounts -> Int]
  OBVIOUS
<1>5. Moved(cr, pr, cr, pr2, k, u, v)
  BY <1>1, <1>2, <1>3, <1>4, MovedIf
<1> QED
  BY <1>5 DEF pr2

\* One hold changes from h[k] to v, and the reservations by the difference.
LEMMA HoldMoves ==
    ASSUME NEW cr, NEW pr, NEW h, Reserves(cr, pr, h), NEW k \in Keys, NEW v \in Hold \cup {None},
           NEW cr2, NEW pr2, Moved(cr, pr, cr2, pr2, k, h[k], v)
    PROVE  Reserves(cr2, pr2, [h EXCEPT ![k] = v])
<1> DEFINE g == [h EXCEPT ![k] = v]
<1>1. h \in [Keys -> Hold \cup {None}] /\ g \in [Keys -> Hold \cup {None}]
  BY DEF Reserves
<1>2. ASSUME NEW a \in Accounts
      PROVE  cr2[a] \in Nat /\ cr2[a] = Total(CashHeld(g, a))
  <2>1. /\ CashHeld(h, a) \in [Keys -> Nat] /\ CashOf(v, k, a) \in Nat
        /\ CashHeld(h, a)[k] = CashOf(h[k], k, a)
    BY <1>1, OfTypes DEF CashHeld
  <2>2. CashHeld(g, a) = [CashHeld(h, a) EXCEPT ![k] = CashOf(v, k, a)]
    BY <1>1 DEF CashHeld
  <2>3. /\ Total(CashHeld(g, a)) = Total(CashHeld(h, a)) - CashOf(h[k], k, a) + CashOf(v, k, a)
        /\ CashOf(h[k], k, a) <= Total(CashHeld(h, a))
    <3>1. PICK f \in [Keys -> Nat], n \in Nat : f = CashHeld(h, a) /\ n = CashOf(v, k, a)
      BY <2>1
    <3>2. Total([f EXCEPT ![k] = n]) = Total(f) - f[k] + n /\ f[k] <= Total(f)
      BY KeysFinite, TotalUpdate
    <3> QED
      BY <2>1, <2>2, <3>1, <3>2
  <2>4. Total(CashHeld(h, a)) \in Nat /\ CashOf(h[k], k, a) \in Nat
    BY <1>1, <2>1, KeysFinite, TotalType, OfTypes
  <2>5. cr[a] = Total(CashHeld(h, a))
    BY DEF Reserves
  <2> QED
    BY <2>1, <2>3, <2>4, <2>5 DEF Moved
<1>3. ASSUME NEW a \in Accounts, NEW i \in Instruments
      PROVE  pr2[a][i] \in Nat /\ pr2[a][i] = Total(UnitsHeld(g, a, i))
  <2>1. /\ UnitsHeld(h, a, i) \in [Keys -> Nat] /\ UnitsOf(v, k, a, i) \in Nat
        /\ UnitsHeld(h, a, i)[k] = UnitsOf(h[k], k, a, i)
    BY <1>1, OfTypes DEF UnitsHeld
  <2>2. UnitsHeld(g, a, i) = [UnitsHeld(h, a, i) EXCEPT ![k] = UnitsOf(v, k, a, i)]
    BY <1>1 DEF UnitsHeld
  <2>3. /\ Total(UnitsHeld(g, a, i))
             = Total(UnitsHeld(h, a, i)) - UnitsOf(h[k], k, a, i) + UnitsOf(v, k, a, i)
        /\ UnitsOf(h[k], k, a, i) <= Total(UnitsHeld(h, a, i))
    <3>1. PICK f \in [Keys -> Nat], n \in Nat : f = UnitsHeld(h, a, i) /\ n = UnitsOf(v, k, a, i)
      BY <2>1
    <3>2. Total([f EXCEPT ![k] = n]) = Total(f) - f[k] + n /\ f[k] <= Total(f)
      BY KeysFinite, TotalUpdate
    <3> QED
      BY <2>1, <2>2, <3>1, <3>2
  <2>4. Total(UnitsHeld(h, a, i)) \in Nat /\ UnitsOf(h[k], k, a, i) \in Nat
    BY <1>1, <2>1, KeysFinite, TotalType, OfTypes
  <2>5. pr[a][i] = Total(UnitsHeld(h, a, i))
    BY DEF Reserves
  <2> QED
    BY <2>1, <2>3, <2>4, <2>5 DEF Moved
<1>4. cr2 \in [Accounts -> Nat] /\ pr2 \in [Accounts -> [Instruments -> Nat]]
  BY <1>2, <1>3 DEF Moved
<1> HIDE DEF g
<1>5. Reserves(cr2, pr2, g)
  BY <1>1, <1>2, <1>3, <1>4 DEF Reserves
<1> QED
  BY <1>5 DEF g

\* A single hold reserves no more than all of them.
LEMMA HoldWithin ==
    ASSUME NEW cr, NEW pr, NEW h, Reserves(cr, pr, h), NEW k \in Keys, NEW a \in Accounts,
           NEW i \in Instruments
    PROVE  CashOf(h[k], k, a) <= cr[a] /\ UnitsOf(h[k], k, a, i) <= pr[a][i]
<1>1. h \in [Keys -> Hold \cup {None}]
  BY DEF Reserves
<1>2. /\ CashHeld(h, a) \in [Keys -> Nat] /\ UnitsHeld(h, a, i) \in [Keys -> Nat]
      /\ CashHeld(h, a)[k] = CashOf(h[k], k, a) /\ UnitsHeld(h, a, i)[k] = UnitsOf(h[k], k, a, i)
  BY <1>1, OfTypes DEF CashHeld, UnitsHeld
<1>3. /\ CashOf(h[k], k, a) <= Total(CashHeld(h, a))
      /\ UnitsOf(h[k], k, a, i) <= Total(UnitsHeld(h, a, i))
  BY <1>2, KeysFinite, TotalUpdate, 0 \in Nat
<1> QED
  BY <1>3 DEF Reserves

\* Reserves() is what ReservedMatchesHolds says.
LEMMA ReservesMeans ==
    ASSUME Reserves(cash_reserved, position_reserved, holds)
    PROVE  ReservedMatchesHolds
<1>1. holds \in [Keys -> Hold \cup {None}]
  BY DEF Reserves
<1>2. ASSUME NEW a \in Accounts
      PROVE  cash_reserved[a] =
               Total([k \in HoldsOf(a, "Buy") |-> holds[k].remaining * holds[k].limit_price])
  <2> DEFINE S == HoldsOf(a, "Buy")
             f == [k \in S |-> holds[k].remaining * holds[k].limit_price]
  <2>1. S \in SUBSET Keys /\ f \in [S -> Nat]
    BY <1>1, HoldTypes DEF HoldsOf
  <2>2. CashHeld(holds, a) \in [Keys -> Nat]
    BY <1>1, OfTypes DEF CashHeld
  <2>3. \A k \in Keys : CashHeld(holds, a)[k] = IF k \in S THEN f[k] ELSE 0
    BY DEF CashHeld, CashOf, HoldsOf
  <2> HIDE DEF S, f
  <2>4. Total(f) = Total(CashHeld(holds, a))
    BY <2>1, <2>2, <2>3, TotalPadded
  <2> QED
    BY <2>4 DEF Reserves, f, S
<1>3. ASSUME NEW a \in Accounts, NEW i \in Instruments
      PROVE  position_reserved[a][i] =
               Total([k \in {h \in HoldsOf(a, "Sell") : holds[h].instrument_id = i}
                         |-> holds[k].remaining])
  <2> DEFINE S == {h \in HoldsOf(a, "Sell") : holds[h].instrument_id = i}
             f == [k \in S |-> holds[k].remaining]
  <2>1. S \in SUBSET Keys /\ f \in [S -> Nat]
    BY <1>1, HoldTypes DEF HoldsOf
  <2>2. UnitsHeld(holds, a, i) \in [Keys -> Nat]
    BY <1>1, OfTypes DEF UnitsHeld
  <2>3. \A k \in Keys : UnitsHeld(holds, a, i)[k] = IF k \in S THEN f[k] ELSE 0
    BY DEF UnitsHeld, UnitsOf, HoldsOf
  <2> HIDE DEF S, f
  <2>4. Total(f) = Total(UnitsHeld(holds, a, i))
    BY <2>1, <2>2, <2>3, TotalPadded
  <2> QED
    BY <2>4 DEF Reserves, f, S
<1> QED
  BY <1>2, <1>3 DEF ReservedMatchesHolds
-----------------------------------------------------------------------------
(***************************************************************************)
(* The functions of the ledger, as changes of one hold.                    *)
(***************************************************************************)
Balances(ct, cr, pt, pr, h) ==
    [cash_total |-> ct, cash_reserved |-> cr, position_total |-> pt,
     position_reserved |-> pr, holds |-> h]

\* No reservation of units is near the limit of Quantity.
Counted(pr) == \A a \in Accounts, i \in Instruments : pr[a][i] < QuantityModulus

LEMMA Opening ==
    ASSUME NEW ct, NEW cr, NEW pt, NEW pr, NEW h, Reserves(cr, pr, h), NEW k \in Keys,
           h[k] = None, NEW hold \in Hold, hold.remaining # 0,
           hold.side = "Sell" =>
              pr[k[1]][hold.instrument_id] + hold.remaining < QuantityModulus
    PROVE  \E cr2, pr2 :
              /\ open_hold(Balances(ct, cr, pt, pr, h), k, hold)
                   = Balances(ct, cr2, pt, pr2, [h EXCEPT ![k] = hold])
              /\ Moved(cr, pr, cr2, pr2, k, h[k], hold)
<1>1. /\ cr \in [Accounts -> Nat] /\ pr \in [Accounts -> [Instruments -> Nat]]
      /\ k[1] \in Accounts
  BY KeyFacts DEF Reserves
<1>2. /\ hold.remaining \in Nat /\ hold # None /\ hold.side \in Sides
      /\ hold.instrument_id \in Instruments
  BY HoldTypes
<1>3. PICK n \in Nat : n = hold.remaining * hold.limit_price
  BY HoldTypes
<1>4. /\ \A a, i : UnitsOf(None, k, a, i) = 0
      /\ \A a : CashOf(None, k, a) = 0
  BY DEF UnitsOf, CashOf
<1>5. CASE hold.side = "Buy"
  <2>1. open_hold(Balances(ct, cr, pt, pr, h), k, hold)
          = Balances(ct, [cr EXCEPT ![k[1]] = @ + n], pt, pr, [h EXCEPT ![k] = hold])
    BY <1>3, <1>5 DEF open_hold, Balances
  <2>2. /\ \A a : CashOf(hold, k, a) = IF k[1] = a THEN n ELSE 0
        /\ \A a, i : UnitsOf(hold, k, a, i) = 0
    BY <1>2, <1>3, <1>5 DEF CashOf, UnitsOf
  <2>3. Moved(cr, pr, [cr EXCEPT ![k[1]] = @ + n], pr, k, h[k], hold)
    <3>1. PICK a1 \in Accounts, c \in Int : a1 = k[1] /\ c = cr[a1] + n
      BY <1>1
    <3>2. c = cr[a1] - CashOf(None, k, a1) + CashOf(hold, k, a1)
      BY <1>1, <1>4, <2>2, <3>1
    <3>3. \A a \in Accounts : a # a1 => CashOf(None, k, a) = CashOf(hold, k, a)
      BY <1>4, <2>2, <3>1
    <3>4. \A a \in Accounts, i \in Instruments : UnitsOf(None, k, a, i) = UnitsOf(hold, k, a, i)
      BY <1>4, <2>2
    <3>5. Moved(cr, pr, [cr EXCEPT ![a1] = c], pr, k, None, hold)
      BY <1>1, <3>2, <3>3, <3>4, CashMoves
    <3> QED
      BY <1>1, <3>1, <3>5
  <2> QED
    BY <2>1, <2>3
<1>6. CASE hold.side # "Buy"
  <2>1. hold.side = "Sell"
    BY <1>2, <1>6 DEF Sides
  <2>2. PICK a1 \in Accounts, i1 \in Instruments, m \in Nat, r \in Nat :
           a1 = k[1] /\ i1 = hold.instrument_id /\ m = pr[a1][i1] /\ r = hold.remaining
    BY <1>1, <1>2
  <2> DEFINE pr2 == [pr EXCEPT ![a1] = [pr[a1] EXCEPT ![i1] = m + r]]
  <2>3. Plus(m, r) = m + r
    BY <2>1, <2>2, NoWrap DEF Plus
  <2>4. open_hold(Balances(ct, cr, pt, pr, h), k, hold)
          = Balances(ct, cr, pt, pr2, [h EXCEPT ![k] = hold])
    BY <1>6, <2>2, <2>3 DEF open_hold, Balances
  <2>5. /\ \A a : CashOf(hold, k, a) = 0
        /\ \A a, i : UnitsOf(hold, k, a, i) = IF a = a1 /\ i = i1 THEN r ELSE 0
    BY <1>2, <2>1, <2>2 DEF CashOf, UnitsOf
  <2>6. Moved(cr, pr, cr, pr2, k, None, hold)
    <3>1. PICK c \in Int : c = m + r
      OBVIOUS
    <3>2. c = pr[a1][i1] - UnitsOf(None, k, a1, i1) + UnitsOf(hold, k, a1, i1)
      BY <1>4, <2>2, <2>5, <3>1
    <3>3. \A a \in Accounts : CashOf(None, k, a) = CashOf(hold, k, a)
      BY <1>4, <2>5
    <3>4. \A a \in Accounts, i \in Instruments :
             ~(a = a1 /\ i = i1) => UnitsOf(None, k, a, i) = UnitsOf(hold, k, a, i)
      BY <1>4, <2>5
    <3>5. Moved(cr, pr, cr, [pr EXCEPT ![a1] = [pr[a1] EXCEPT ![i1] = c]], k, None, hold)
      BY <1>1, <3>2, <3>3, <3>4, UnitsMove
    <3> QED
      BY <3>1, <3>5
  <2> QED
    BY <2>4, <2>6
<1> QED
  BY <1>5, <1>6

LEMMA Releasing ==
    ASSUME NEW ct, NEW cr, NEW pt, NEW pr, NEW h, Reserves(cr, pr, h), Counted(pr),
           NEW k \in Keys, h[k] # None
    PROVE  \E cr2, pr2 :
              /\ release_hold_fully(Balances(ct, cr, pt, pr, h), k)
                   = Balances(ct, cr2, pt, pr2, [h EXCEPT ![k] = None])
              /\ Moved(cr, pr, cr2, pr2, k, h[k], None)
<1>1. /\ cr \in [Accounts -> Nat] /\ pr \in [Accounts -> [Instruments -> Nat]]
      /\ k[1] \in Accounts
  BY KeyFacts DEF Reserves
<1>2. PICK hold \in Hold : hold = h[k]
  BY DEF Reserves
<1>3. /\ hold.remaining \in Nat /\ hold # None /\ hold.side \in Sides
      /\ hold.instrument_id \in Instruments
  BY HoldTypes
<1>4. PICK n \in Nat : n = hold.remaining * hold.limit_price
  BY HoldTypes
<1>5. /\ \A a, i : UnitsOf(None, k, a, i) = 0
      /\ \A a : CashOf(None, k, a) = 0
  BY DEF UnitsOf, CashOf
<1>6. CASE hold.side = "Buy"
  <2>1. release_hold_fully(Balances(ct, cr, pt, pr, h), k)
          = Balances(ct, [cr EXCEPT ![k[1]] = @ - n], pt, pr, [h EXCEPT ![k] = None])
    BY <1>2, <1>4, <1>6 DEF release_hold_fully, Balances
  <2>2. /\ \A a : CashOf(hold, k, a) = IF k[1] = a THEN n ELSE 0
        /\ \A a, i : UnitsOf(hold, k, a, i) = 0
    BY <1>3, <1>4, <1>6 DEF CashOf, UnitsOf
  <2>3. Moved(cr, pr, [cr EXCEPT ![k[1]] = @ - n], pr, k, hold, None)
    <3>1. PICK a1 \in Accounts, c \in Int : a1 = k[1] /\ c = cr[a1] - n
      BY <1>1
    <3>2. c = cr[a1] - CashOf(hold, k, a1) + CashOf(None, k, a1)
      BY <1>1, <1>5, <2>2, <3>1
    <3>3. \A a \in Accounts : a # a1 => CashOf(hold, k, a) = CashOf(None, k, a)
      BY <1>5, <2>2, <3>1
    <3>4. \A a \in Accounts, i \in Instruments : UnitsOf(hold, k, a, i) = UnitsOf(None, k, a, i)
      BY <1>5, <2>2
    <3>5. Moved(cr, pr, [cr EXCEPT ![a1] = c], pr, k, hold, None)
      BY <1>1, <3>2, <3>3, <3>4, CashMoves
    <3> QED
      BY <1>1, <3>1, <3>5
  <2> QED
    BY <1>2, <2>1, <2>3
<1>7. CASE hold.side # "Buy"
  <2>1. hold.side = "Sell"
    BY <1>3, <1>7 DEF Sides
  <2>2. PICK a1 \in Accounts, i1 \in Instruments, m \in Nat, r \in Nat :
           a1 = k[1] /\ i1 = hold.instrument_id /\ m = pr[a1][i1] /\ r = hold.remaining
    BY <1>1, <1>3
  <2> DEFINE pr2 == [pr EXCEPT ![a1] = [pr[a1] EXCEPT ![i1] = m - r]]
  <2>3. /\ \A a : CashOf(hold, k, a) = 0
        /\ \A a, i : UnitsOf(hold, k, a, i) = IF a = a1 /\ i = i1 THEN r ELSE 0
    BY <1>3, <2>1, <2>2 DEF CashOf, UnitsOf
  <2>4. r <= m /\ m < QuantityModulus
    BY <1>2, <2>2, <2>3, HoldWithin DEF Counted
  <2>5. Minus(m, r) = m - r
    BY <2>4, NoWrap, RiskAssumption DEF Minus
  <2>6. release_hold_fully(Balances(ct, cr, pt, pr, h), k)
          = Balances(ct, cr, pt, pr2, [h EXCEPT ![k] = None])
    BY <1>2, <1>7, <2>2, <2>5 DEF release_hold_fully, Balances
  <2>7. Moved(cr, pr, cr, pr2, k, hold, None)
    <3>1. PICK c \in Int : c = m - r
      OBVIOUS
    <3>2. c = pr[a1][i1] - UnitsOf(hold, k, a1, i1) + UnitsOf(None, k, a1, i1)
      BY <1>5, <2>2, <2>3, <3>1
    <3>3. \A a \in Accounts : CashOf(hold, k, a) = CashOf(None, k, a)
      BY <1>5, <2>3
    <3>4. \A a \in Accounts, i \in Instruments :
             ~(a = a1 /\ i = i1) => UnitsOf(hold, k, a, i) = UnitsOf(None, k, a, i)
      BY <1>5, <2>3
    <3>5. Moved(cr, pr, cr, [pr EXCEPT ![a1] = [pr[a1] EXCEPT ![i1] = c]], k, hold, None)
      BY <1>1, <3>2, <3>3, <3>4, UnitsMove
    <3> QED
      BY <3>1, <3>5
  <2> QED
    BY <1>2, <2>6, <2>7
<1> QED
  BY <1>6, <1>7

\* What is left of a hold after a fill of q units; no hold stays no hold.
Sliced(hold, q) ==
    IF hold = None \/ hold.remaining = q THEN None
    ELSE [hold EXCEPT !.remaining = @ - q]

Slice(h, k, q) == [h EXCEPT ![k] = Sliced(h[k], q)]

\* The hold of a leg of a trade of q units covers them, and the leg carries what is left.
Covers(h, leg, k, side, i, q) ==
    /\ k = <<leg.account_id, leg.client_order_id>>
    /\ h[k] # None => /\ h[k].side = side /\ h[k].instrument_id = i
                      /\ q <= h[k].remaining
                      /\ leg.remaining_quantity = h[k].remaining - q

LEMMA Slicing ==
    ASSUME NEW ct, NEW cr, NEW pt, NEW pr, NEW h, Reserves(cr, pr, h), Counted(pr),
           NEW k \in Keys, NEW leg, NEW side \in Sides, NEW i1 \in Instruments, NEW q \in Nat,
           Covers(h, leg, k, side, i1, q)
    PROVE  /\ Sliced(h[k], q) \in Hold \cup {None}
           /\ \E cr2, pr2 :
                /\ ReleaseSlice(Balances(ct, cr, pt, pr, h), leg, side, i1, q)
                     = Balances(ct, cr2, pt, pr2, Slice(h, k, q))
                /\ Moved(cr, pr, cr2, pr2, k, h[k], Sliced(h[k], q))
<1>1. /\ cr \in [Accounts -> Nat] /\ pr \in [Accounts -> [Instruments -> Nat]]
      /\ h \in [Keys -> Hold \cup {None}]
      /\ k = <<leg.account_id, leg.client_order_id>> /\ k[1] \in Accounts
      /\ k[1] = leg.account_id
  BY KeyFacts DEF Reserves, Covers
<1>2. /\ \A a, i : UnitsOf(None, k, a, i) = 0
      /\ \A a : CashOf(None, k, a) = 0
  BY DEF UnitsOf, CashOf
<1>3. CASE h[k] = None
  <2>1. Sliced(h[k], q) = None /\ Slice(h, k, q) = h
    BY <1>1, <1>3 DEF Sliced, Slice
  <2>2. ReleaseSlice(Balances(ct, cr, pt, pr, h), leg, side, i1, q) = Balances(ct, cr, pt, pr, h)
    BY <1>1, <1>3 DEF ReleaseSlice, Balances
  <2>3. Moved(cr, pr, cr, pr, k, None, None)
    BY <1>1, <1>2 DEF Moved
  <2> QED
    BY <1>3, <2>1, <2>2, <2>3
<1>4. CASE h[k] # None
  <2>1. PICK hold \in Hold : hold = h[k]
    BY <1>1, <1>4
  <2>2. /\ hold.remaining \in Nat /\ hold # None /\ hold.limit_price \in Nat
        /\ hold.side = side /\ hold.instrument_id = i1 /\ q <= hold.remaining
        /\ leg.remaining_quantity = hold.remaining - q
    BY <1>4, <2>1, HoldTypes DEF Covers
  <2>3. PICK v : v = Sliced(hold, q)
    OBVIOUS
  <2>4. /\ v \in Hold \cup {None}
        /\ v # None => /\ v.side = side /\ v.instrument_id = i1
                       /\ v.limit_price = hold.limit_price
                       /\ v.remaining = hold.remaining - q
        /\ v = None => hold.remaining = q
    BY <2>2, <2>3, HoldAssumption DEF Sliced, Hold
  <2>5. v = IF leg.remaining_quantity = 0 THEN None
            ELSE [hold EXCEPT !.remaining = leg.remaining_quantity]
    BY <2>2, <2>3 DEF Sliced
  <2>6. PICK x \in Nat, n \in Nat : /\ x = q * hold.limit_price
                                    /\ n = hold.remaining * hold.limit_price /\ x <= n
                                    /\ (hold.remaining - q) * hold.limit_price = n - x
    <3>1. PICK m \in Nat, p \in Nat : m = hold.remaining /\ p = hold.limit_price /\ q <= m
      BY <2>2
    <3>2. /\ m * p \in Nat /\ q * p \in Nat /\ q * p <= m * p
          /\ (m - q) * p = m * p - q * p
      BY <3>1, Products
    <3> QED
      BY <3>1, <3>2
  <2>7. /\ side = "Buy" => \A a : /\ CashOf(hold, k, a) = IF k[1] = a THEN n ELSE 0
                                  /\ CashOf(v, k, a) = IF k[1] = a THEN n - x ELSE 0
        /\ side # "Buy" => \A a : CashOf(hold, k, a) = 0 /\ CashOf(v, k, a) = 0
    <3>1. v = None => n = x
      BY <2>2, <2>4, <2>6
    <3> QED
      BY <2>2, <2>4, <2>6, <3>1 DEF CashOf
  <2>8. CASE side = "Buy"
    <3>1. ReleaseSlice(Balances(ct, cr, pt, pr, h), leg, side, i1, q)
            = Balances(ct, [cr EXCEPT ![k[1]] = @ - x], pt, pr, Slice(h, k, q))
      <4>1. ReleaseSlice(Balances(ct, cr, pt, pr, h), leg, side, i1, q)
              = Balances(ct, [cr EXCEPT ![k[1]] = @ - x], pt, pr, [h EXCEPT ![k] = v])
        BY <1>1, <1>4, <2>1, <2>5, <2>6, <2>8 DEF ReleaseSlice, Balances
      <4> QED
        BY <2>1, <2>3, <4>1 DEF Slice
    <3>2. \A a, i : UnitsOf(hold, k, a, i) = 0 /\ UnitsOf(v, k, a, i) = 0
      BY <2>2, <2>4, <2>8 DEF UnitsOf
    <3>3. Moved(cr, pr, [cr EXCEPT ![k[1]] = @ - x], pr, k, hold, v)
      <4>1. PICK a1 \in Accounts, c \in Int : a1 = k[1] /\ c = cr[a1] - x
        BY <1>1
      <4>2. c = cr[a1] - CashOf(hold, k, a1) + CashOf(v, k, a1)
        <5>1. CashOf(hold, k, a1) = n /\ CashOf(v, k, a1) = n - x
          BY <2>7, <2>8, <4>1
        <5>2. PICK y \in Nat : y = cr[a1]
          BY <1>1
        <5> QED
          BY <4>1, <5>1, <5>2
      <4>3. \A a \in Accounts : a # a1 => CashOf(hold, k, a) = CashOf(v, k, a)
        BY <2>7, <2>8, <4>1
      <4>4. \A a \in Accounts, i \in Instruments : UnitsOf(hold, k, a, i) = UnitsOf(v, k, a, i)
        BY <3>2
      <4>5. Moved(cr, pr, [cr EXCEPT ![a1] = c], pr, k, hold, v)
        <5>1. /\ v \in Hold \cup {None}
              /\ cr \in [Accounts -> Nat] /\ pr \in [Accounts -> [Instruments -> Nat]]
          BY <1>1, <2>4
        <5> QED
          BY <4>2, <4>3, <4>4, <5>1, CashMoves
      <4> QED
        BY <1>1, <4>1, <4>5
    <3> QED
      BY <2>1, <2>3, <2>4, <3>1, <3>3
  <2>9. CASE side # "Buy"
    <3>1. side = "Sell"
      BY <2>9 DEF Sides
    <3>2. PICK a1 \in Accounts, m \in Nat, r \in Nat :
             a1 = k[1] /\ m = pr[a1][i1] /\ r = hold.remaining
      BY <1>1, <2>2
    <3> DEFINE pr2 == [pr EXCEPT ![a1] = [pr[a1] EXCEPT ![i1] = m - q]]
    <3>3. \A a, i : /\ UnitsOf(hold, k, a, i) = IF a = a1 /\ i = i1 THEN r ELSE 0
                    /\ UnitsOf(v, k, a, i) = IF a = a1 /\ i = i1 THEN r - q ELSE 0
      BY <2>2, <2>4, <3>1, <3>2 DEF UnitsOf
    <3>4. r <= m /\ m < QuantityModulus /\ q <= r
      BY <2>1, <2>2, <3>2, <3>3, HoldWithin DEF Counted
    <3>5. Minus(m, q) = m - q
      BY <3>4, NoWrap, RiskAssumption DEF Minus
    <3>6. ReleaseSlice(Balances(ct, cr, pt, pr, h), leg, side, i1, q)
            = Balances(ct, cr, pt, pr2, Slice(h, k, q))
      <4>1. ReleaseSlice(Balances(ct, cr, pt, pr, h), leg, side, i1, q)
              = Balances(ct, cr, pt, pr2, [h EXCEPT ![k] = v])
        BY <1>1, <1>4, <2>1, <2>5, <2>9, <3>2, <3>5 DEF ReleaseSlice, Balances
      <4> QED
        BY <2>1, <2>3, <4>1 DEF Slice
    <3>7. Moved(cr, pr, cr, pr2, k, hold, v)
      <4>1. PICK c \in Int : c = m - q
        OBVIOUS
      <4>2. c = pr[a1][i1] - UnitsOf(hold, k, a1, i1) + UnitsOf(v, k, a1, i1)
        BY <3>2, <3>3, <3>4, <4>1
      <4>3. \A a \in Accounts : CashOf(hold, k, a) = CashOf(v, k, a)
        BY <2>7, <2>9
      <4>4. \A a \in Accounts, i \in Instruments :
               ~(a = a1 /\ i = i1) => UnitsOf(hold, k, a, i) = UnitsOf(v, k, a, i)
        BY <3>3
      <4>5. Moved(cr, pr, cr, [pr EXCEPT ![a1] = [pr[a1] EXCEPT ![i1] = c]], k, hold, v)
        <5>1. /\ v \in Hold \cup {None}
              /\ cr \in [Accounts -> Nat] /\ pr \in [Accounts -> [Instruments -> Nat]]
          BY <1>1, <2>4
        <5> QED
          BY <4>2, <4>3, <4>4, <5>1, UnitsMove
      <4> QED
        BY <4>1, <4>5
    <3> QED
      BY <2>1, <2>3, <2>4, <3>6, <3>7
  <2> QED
    BY <2>8, <2>9
<1> QED
  BY <1>3, <1>4
\* The two kinds of slice, account by account: the cash x that the hold under k frees when
\* q units are bought, and the units y when they are sold.
FreesCash(cr, h, k, q, x, cr2) ==
    /\ x \in Nat /\ x = IF h[k] = None THEN 0 ELSE q * h[k].limit_price
    /\ x <= cr[k[1]]
    /\ \A a \in Accounts : cr2[a] = IF a = k[1] THEN cr[a] - x ELSE cr[a]

FreesUnits(pr, h, k, i1, q, y, pr2) ==
    /\ y \in Nat /\ y = IF h[k] = None THEN 0 ELSE q
    /\ y <= pr[k[1]][i1]
    /\ \A a \in Accounts, i \in Instruments :
          pr2[a][i] = IF a = k[1] /\ i = i1 THEN pr[a][i] - y ELSE pr[a][i]

BuyReleases(ct, cr, pt, pr, h, leg, k, i1, q) ==
    \E x, cr2 : /\ FreesCash(cr, h, k, q, x, cr2)
                /\ ReleaseSlice(Balances(ct, cr, pt, pr, h), leg, "Buy", i1, q)
                     = Balances(ct, cr2, pt, pr, Slice(h, k, q))
                /\ Reserves(cr2, pr, Slice(h, k, q))

SellReleases(ct, cr, pt, pr, h, leg, k, i1, q) ==
    \E y, pr2 : /\ FreesUnits(pr, h, k, i1, q, y, pr2)
                /\ ReleaseSlice(Balances(ct, cr, pt, pr, h), leg, "Sell", i1, q)
                     = Balances(ct, cr, pt, pr2, Slice(h, k, q))
                /\ Reserves(cr, pr2, Slice(h, k, q))

LEMMA SliceBuy ==
    ASSUME NEW ct, NEW cr, NEW pt, NEW pr, NEW h, Reserves(cr, pr, h), Counted(pr),
           NEW k \in Keys, NEW leg, NEW i1 \in Instruments, NEW q \in Nat,
           Covers(h, leg, k, "Buy", i1, q)
    PROVE  BuyReleases(ct, cr, pt, pr, h, leg, k, i1, q)
<1>1. "Buy" \in Sides /\ k[1] \in Accounts
  BY KeyFacts DEF Sides
<1>2. PICK v : v = Sliced(h[k], q)
  OBVIOUS
<1>3. v \in Hold \cup {None}
  BY <1>1, <1>2, Slicing
<1>4. PICK cr2, pr2 :
         /\ ReleaseSlice(Balances(ct, cr, pt, pr, h), leg, "Buy", i1, q)
              = Balances(ct, cr2, pt, pr2, Slice(h, k, q))
         /\ Moved(cr, pr, cr2, pr2, k, h[k], v)
  <2>1. PICK side \in Sides : side = "Buy"
    BY <1>1
  <2>2. Covers(h, leg, k, side, i1, q)
    BY <2>1
  <2>3. \E cr2, pr2 :
           /\ ReleaseSlice(Balances(ct, cr, pt, pr, h), leg, side, i1, q)
                = Balances(ct, cr2, pt, pr2, Slice(h, k, q))
           /\ Moved(cr, pr, cr2, pr2, k, h[k], Sliced(h[k], q))
    BY <2>2, Slicing
  <2> QED
    BY <1>2, <2>1, <2>3
<1>5. Reserves(cr2, pr2, Slice(h, k, q))
  <2>1. Reserves(cr2, pr2, [h EXCEPT ![k] = v])
    BY <1>3, <1>4, HoldMoves
  <2> QED
    BY <1>2, <2>1 DEF Slice
<1>6. /\ cr \in [Accounts -> Nat] /\ pr \in [Accounts -> [Instruments -> Nat]]
      /\ h[k] \in Hold \cup {None}
  BY DEF Reserves
<1>7. PICK x \in Nat : /\ x = IF h[k] = None THEN 0 ELSE q * h[k].limit_price
                       /\ \A a : CashOf(h[k], k, a) = CashOf(v, k, a) + (IF a = k[1] THEN x ELSE 0)
                       /\ \A a : CashOf(v, k, a) \in Nat
                       /\ \A a, i : UnitsOf(h[k], k, a, i) = 0 /\ UnitsOf(v, k, a, i) = 0
  <2>1. CASE h[k] = None
    BY <1>2, <2>1 DEF Sliced, CashOf, UnitsOf
  <2>2. CASE h[k] # None
    <3>1. PICK hold \in Hold : hold = h[k]
      BY <1>6, <2>2
    <3>2. /\ hold # None /\ hold.side = "Buy" /\ q <= hold.remaining
          /\ hold.remaining \in Nat /\ hold.limit_price \in Nat
      BY <2>2, <3>1, HoldTypes DEF Covers
    <3>3. PICK m \in Nat, p \in Nat : m = hold.remaining /\ p = hold.limit_price /\ q <= m
      BY <3>2
    <3>4. PICK n \in Nat, x \in Nat : n = m * p /\ x = q * p /\ x <= n /\ (m - q) * p = n - x
      <4>1. /\ m * p \in Nat /\ q * p \in Nat /\ q * p <= m * p
            /\ (m - q) * p = m * p - q * p
        BY <3>3, Products
      <4> QED
        BY <4>1
    <3>5. v # None => v.side = "Buy" /\ v.limit_price = p /\ v.remaining = m - q
      BY <1>2, <3>1, <3>2, <3>3 DEF Sliced, Hold
    <3>6. v = None => n = x
      <4>1. [hold EXCEPT !.remaining = @ - q] \in Hold
        BY <3>3 DEF Hold
      <4> QED
        BY <1>2, <3>1, <3>3, <3>4, <4>1, HoldAssumption DEF Sliced
    <3>7. \A a : /\ CashOf(hold, k, a) = IF a = k[1] THEN n ELSE 0
                 /\ CashOf(v, k, a) = IF a = k[1] THEN n - x ELSE 0
      BY <3>2, <3>3, <3>4, <3>5, <3>6 DEF CashOf
    <3>8. \A a, i : UnitsOf(hold, k, a, i) = 0 /\ UnitsOf(v, k, a, i) = 0
      BY <3>2, <3>5 DEF UnitsOf
    <3>9. \A a : /\ CashOf(hold, k, a) = CashOf(v, k, a) + (IF a = k[1] THEN x ELSE 0)
                 /\ CashOf(v, k, a) \in Nat
      BY <3>4, <3>7
    <3> QED
      BY <2>2, <3>1, <3>3, <3>4, <3>8, <3>9
  <2> QED
    BY <2>1, <2>2
<1>8. ASSUME NEW a \in Accounts PROVE cr2[a] = IF a = k[1] THEN cr[a] - x ELSE cr[a]
  <2>1. cr2[a] = cr[a] - CashOf(h[k], k, a) + CashOf(v, k, a)
    BY <1>4 DEF Moved
  <2>2. PICK y \in Nat, z \in Nat : y = cr[a] /\ z = CashOf(v, k, a)
    BY <1>6, <1>7
  <2>3. CashOf(h[k], k, a) = z + (IF a = k[1] THEN x ELSE 0)
    BY <1>7, <2>2
  <2> QED
    BY <2>1, <2>2, <2>3
<1>9. x <= cr[k[1]]
  <2>1. PICK y \in Nat, z \in Nat : y = cr[k[1]] /\ z = CashOf(v, k, k[1])
    BY <1>1, <1>6, <1>7
  <2>2. CashOf(h[k], k, k[1]) <= y
    BY <1>1, <2>1, HoldWithin
  <2>3. CashOf(h[k], k, k[1]) = z + x
    BY <1>7, <2>1
  <2> QED
    BY <2>1, <2>2, <2>3
<1>10. pr2 = pr
  <2>1. pr2 = [a \in Accounts |-> [i \in Instruments |-> pr[a][i] - 0 + 0]]
    BY <1>4, <1>7 DEF Moved
  <2>2. pr \in [Accounts -> [Instruments -> Nat]]
    BY <1>6
  <2> QED
    BY <2>1, <2>2
<1>11. FreesCash(cr, h, k, q, x, cr2)
  BY <1>7, <1>8, <1>9 DEF FreesCash
<1> QED
  BY <1>2, <1>4, <1>5, <1>10, <1>11 DEF BuyReleases

LEMMA SliceSell ==
    ASSUME NEW ct, NEW cr, NEW pt, NEW pr, NEW h, Reserves(cr, pr, h), Counted(pr),
           NEW k \in Keys, NEW leg, NEW i1 \in Instruments, NEW q \in Nat,
           Covers(h, leg, k, "Sell", i1, q)
    PROVE  SellReleases(ct, cr, pt, pr, h, leg, k, i1, q)
<1>1. "Sell" \in Sides /\ k[1] \in Accounts
  BY KeyFacts DEF Sides
<1>2. PICK v : v = Sliced(h[k], q)
  OBVIOUS
<1>3. v \in Hold \cup {None}
  BY <1>1, <1>2, Slicing
<1>4. PICK cr2, pr2 :
         /\ ReleaseSlice(Balances(ct, cr, pt, pr, h), leg, "Sell", i1, q)
              = Balances(ct, cr2, pt, pr2, Slice(h, k, q))
         /\ Moved(cr, pr, cr2, pr2, k, h[k], v)
  <2>1. PICK side \in Sides : side = "Sell"
    BY <1>1
  <2>2. Covers(h, leg, k, side, i1, q)
    BY <2>1
  <2>3. \E cr2, pr2 :
           /\ ReleaseSlice(Balances(ct, cr, pt, pr, h), leg, side, i1, q)
                = Balances(ct, cr2, pt, pr2, Slice(h, k, q))
           /\ Moved(cr, pr, cr2, pr2, k, h[k], Sliced(h[k], q))
    BY <2>2, Slicing
  <2> QED
    BY <1>2, <2>1, <2>3
<1>5. Reserves(cr2, pr2, Slice(h, k, q))
  <2>1. Reserves(cr2, pr2, [h EXCEPT ![k] = v])
    BY <1>3, <1>4, HoldMoves
  <2> QED
    BY <1>2, <2>1 DEF Slice
<1>6. /\ cr \in [Accounts -> Nat] /\ pr \in [Accounts -> [Instruments -> Nat]]
      /\ h[k] \in Hold \cup {None}
  BY DEF Reserves
<1>7. PICK y \in Nat : /\ y = IF h[k] = None THEN 0 ELSE q
                       /\ \A a, i : /\ UnitsOf(v, k, a, i) \in Nat
                                    /\ UnitsOf(h[k], k, a, i) =
                                         UnitsOf(v, k, a, i) + (IF a = k[1] /\ i = i1 THEN y ELSE 0)
                       /\ \A a : CashOf(h[k], k, a) = 0 /\ CashOf(v, k, a) = 0
  <2>1. CASE h[k] = None
    BY <1>2, <2>1 DEF Sliced, CashOf, UnitsOf
  <2>2. CASE h[k] # None
    <3>1. PICK hold \in Hold : hold = h[k]
      BY <1>6, <2>2
    <3>2. /\ hold # None /\ hold.side = "Sell" /\ hold.instrument_id = i1
          /\ q <= hold.remaining /\ hold.remaining \in Nat
      BY <2>2, <3>1, HoldTypes DEF Covers
    <3>3. PICK m \in Nat : m = hold.remaining /\ q <= m
      BY <3>2
    <3>4. v # None => v.side = "Sell" /\ v.instrument_id = i1 /\ v.remaining = m - q
      BY <1>2, <3>1, <3>2, <3>3 DEF Sliced, Hold
    <3>5. v = None => m = q
      <4>1. [hold EXCEPT !.remaining = @ - q] \in Hold
        BY <3>3 DEF Hold
      <4> QED
        BY <1>2, <3>1, <3>3, <4>1, HoldAssumption DEF Sliced
    <3>6. \A a, i : /\ UnitsOf(hold, k, a, i) = IF a = k[1] /\ i = i1 THEN m ELSE 0
                    /\ UnitsOf(v, k, a, i) = IF a = k[1] /\ i = i1 THEN m - q ELSE 0
      BY <3>2, <3>3, <3>4, <3>5 DEF UnitsOf
    <3>7. \A a : CashOf(hold, k, a) = 0 /\ CashOf(v, k, a) = 0
      BY <3>2, <3>4 DEF CashOf
    <3>8. \A a, i : /\ UnitsOf(v, k, a, i) \in Nat
                    /\ UnitsOf(hold, k, a, i) =
                         UnitsOf(v, k, a, i) + (IF a = k[1] /\ i = i1 THEN q ELSE 0)
      BY <3>3, <3>6
    <3> QED
      BY <2>2, <3>1, <3>7, <3>8
  <2> QED
    BY <2>1, <2>2
<1>8. ASSUME NEW a \in Accounts, NEW i \in Instruments
      PROVE  pr2[a][i] = IF a = k[1] /\ i = i1 THEN pr[a][i] - y ELSE pr[a][i]
  <2>1. pr2[a][i] = pr[a][i] - UnitsOf(h[k], k, a, i) + UnitsOf(v, k, a, i)
    BY <1>4 DEF Moved
  <2>2. PICK x \in Nat, z \in Nat : x = pr[a][i] /\ z = UnitsOf(v, k, a, i)
    BY <1>6, <1>7
  <2>3. UnitsOf(h[k], k, a, i) = z + (IF a = k[1] /\ i = i1 THEN y ELSE 0)
    BY <1>7, <2>2
  <2> QED
    BY <2>1, <2>2, <2>3
<1>9. y <= pr[k[1]][i1]
  <2>1. PICK x \in Nat, z \in Nat : x = pr[k[1]][i1] /\ z = UnitsOf(v, k, k[1], i1)
    BY <1>1, <1>6, <1>7
  <2>2. UnitsOf(h[k], k, k[1], i1) <= x
    BY <1>1, <2>1, HoldWithin
  <2>3. UnitsOf(h[k], k, k[1], i1) = z + y
    BY <1>7, <2>1
  <2> QED
    BY <2>1, <2>2, <2>3
<1>10. cr2 = cr
  <2>1. cr2 = [a \in Accounts |-> cr[a] - 0 + 0]
    BY <1>4, <1>7 DEF Moved
  <2>2. cr \in [Accounts -> Nat]
    BY <1>6
  <2> QED
    BY <2>1, <2>2
<1>11. FreesUnits(pr, h, k, i1, q, y, pr2)
  BY <1>7, <1>8, <1>9 DEF FreesUnits
<1> QED
  BY <1>2, <1>4, <1>5, <1>10, <1>11 DEF SellReleases
\* Cash and units that leave an account and reach it.
Debit(ct, a, d)  == [ct EXCEPT ![a] = @ - d]
Credit(ct, a, d) == [ct EXCEPT ![a] = @ + d]
Into(pt, a, i, q)  == [pt EXCEPT ![a] = [pt[a] EXCEPT ![i] = Plus(@, q)]]
OutOf(pt, a, i, q) == [pt EXCEPT ![a] = [pt[a] EXCEPT ![i] = Minus(@, q)]]

\* settle_leg() after the reservation is released.
LEMMA Settle ==
    ASSUME NEW l, NEW leg, NEW i, NEW p, NEW q, NEW ct, NEW cr, NEW pt, NEW pr, NEW h, NEW side,
           ReleaseSlice(l, leg, side, i, q) = Balances(ct, cr, pt, pr, h)
    PROVE  /\ side = "Buy" => settle_leg(l, leg, side, i, p, q)
                = Balances(Debit(ct, leg.account_id, q * p), cr, Into(pt, leg.account_id, i, q), pr, h)
           /\ side = "Sell" => settle_leg(l, leg, side, i, p, q)
                = Balances(Credit(ct, leg.account_id, q * p), cr, OutOf(pt, leg.account_id, i, q), pr, h)
<1> DEFINE a == leg.account_id
<1>1. PICK m : m = Balances(ct, cr, pt, pr, h)
  OBVIOUS
<1>2. m.cash_total = ct /\ m.position_total = pt
  BY <1>1 DEF Balances
<1>3. ASSUME NEW ct2, NEW pt2
      PROVE  [m EXCEPT !.cash_total = ct2, !.position_total = pt2] = Balances(ct2, cr, pt2, pr, h)
  <2>1. [m EXCEPT !.cash_total = ct2] = Balances(ct2, cr, pt, pr, h)
    BY <1>1 DEF Balances
  <2>2. [Balances(ct2, cr, pt, pr, h) EXCEPT !.position_total = pt2] = Balances(ct2, cr, pt2, pr, h)
    BY DEF Balances
  <2>3. [m EXCEPT !.cash_total = ct2, !.position_total = pt2]
           = [[m EXCEPT !.cash_total = ct2] EXCEPT !.position_total = pt2]
    OBVIOUS
  <2> QED
    BY <2>1, <2>2, <2>3
<1>4. ASSUME side = "Buy"
      PROVE  settle_leg(l, leg, side, i, p, q)
                = [m EXCEPT !.cash_total = Debit(ct, a, q * p), !.position_total = Into(pt, a, i, q)]
  BY <1>1, <1>2, <1>4 DEF settle_leg, Debit, Into
<1>5. ASSUME side = "Sell"
      PROVE  settle_leg(l, leg, side, i, p, q)
                = [m EXCEPT !.cash_total = Credit(ct, a, q * p), !.position_total = OutOf(pt, a, i, q)]
  BY <1>1, <1>2, <1>5 DEF settle_leg, Credit, OutOf
<1> QED
  BY <1>3, <1>4, <1>5

\* A trade: the buyer's leg and then the seller's.
LEMMA Trading ==
    ASSUME NEW ct, NEW cr, NEW pt, NEW pr, NEW h, Reserves(cr, pr, h), Counted(pr),
           NEW e, NEW kb \in Keys, NEW ks \in Keys, kb # ks,
           NEW i1 \in Instruments, i1 = e.instrument_id, NEW q \in Nat, q = e.quantity,
           NEW p, p = e.price,
           Covers(h, e.buyer, kb, "Buy", i1, q), Covers(h, e.seller, ks, "Sell", i1, q)
    PROVE  \E x, y, cr2, pr2 :
              /\ FreesCash(cr, h, kb, q, x, cr2) /\ FreesUnits(pr, h, ks, i1, q, y, pr2)
              /\ on_trade_executed(Balances(ct, cr, pt, pr, h), e)
                   = Balances(Credit(Debit(ct, kb[1], q * p), ks[1], q * p), cr2,
                              OutOf(Into(pt, kb[1], i1, q), ks[1], i1, q), pr2,
                              Slice(Slice(h, kb, q), ks, q))
              /\ Reserves(cr2, pr2, Slice(Slice(h, kb, q), ks, q))
<1>1. PICK b, s : b = e.buyer /\ s = e.seller
  OBVIOUS
<1>2. /\ Covers(h, b, kb, "Buy", i1, q) /\ Covers(h, s, ks, "Sell", i1, q)
      /\ kb[1] = b.account_id /\ ks[1] = s.account_id
  BY <1>1 DEF Covers
<1>3. PICK h1 : h1 = Slice(h, kb, q)
  OBVIOUS
<1>4. h1[ks] = h[ks]
  BY <1>3 DEF Reserves, Slice
<1>5. PICK x, cr2 :
         /\ FreesCash(cr, h, kb, q, x, cr2)
         /\ ReleaseSlice(Balances(ct, cr, pt, pr, h), b, "Buy", i1, q)
              = Balances(ct, cr2, pt, pr, h1)
         /\ Reserves(cr2, pr, h1)
  <2>1. BuyReleases(ct, cr, pt, pr, h, b, kb, i1, q)
    BY <1>2, SliceBuy
  <2> QED
    BY <1>3, <2>1 DEF BuyReleases
<1>6. PICK ct2, pt2 : ct2 = Debit(ct, kb[1], q * p) /\ pt2 = Into(pt, kb[1], i1, q)
  OBVIOUS
<1>7. settle_leg(Balances(ct, cr, pt, pr, h), b, "Buy", i1, p, q)
        = Balances(ct2, cr2, pt2, pr, h1)
  BY <1>2, <1>5, <1>6, Settle
<1>8. Covers(h1, s, ks, "Sell", i1, q)
  BY <1>2, <1>4 DEF Covers
<1>9. PICK y, pr2 :
         /\ FreesUnits(pr, h1, ks, i1, q, y, pr2)
         /\ ReleaseSlice(Balances(ct2, cr2, pt2, pr, h1), s, "Sell", i1, q)
              = Balances(ct2, cr2, pt2, pr2, Slice(h1, ks, q))
         /\ Reserves(cr2, pr2, Slice(h1, ks, q))
  <2>1. SellReleases(ct2, cr2, pt2, pr, h1, s, ks, i1, q)
    BY <1>5, <1>8, SliceSell
  <2> QED
    BY <2>1 DEF SellReleases
<1>10. FreesUnits(pr, h, ks, i1, q, y, pr2)
  BY <1>4, <1>9 DEF FreesUnits
<1>11. settle_leg(Balances(ct2, cr2, pt2, pr, h1), s, "Sell", i1, p, q)
         = Balances(Credit(ct2, ks[1], q * p), cr2, OutOf(pt2, ks[1], i1, q), pr2, Slice(h1, ks, q))
  BY <1>2, <1>9, Settle
<1>12. on_trade_executed(Balances(ct, cr, pt, pr, h), e)
         = Balances(Credit(ct2, ks[1], q * p), cr2, OutOf(pt2, ks[1], i1, q), pr2, Slice(h1, ks, q))
  BY <1>1, <1>7, <1>11 DEF on_trade_executed
<1> QED
  BY <1>3, <1>5, <1>6, <1>9, <1>10, <1>12

\* A replace moves the hold from k to k2.
ReplacedHold(h, k, e) ==
    [instrument_id |-> e.instrument_id, side |-> h[k].side,
     limit_price |-> e.new_price, remaining |-> e.new_quantity]

Reholds(ct, cr, pt, pr, h, e, k, k2, new) ==
    LET then == [[h EXCEPT ![k] = None] EXCEPT ![k2] = new]
    IN  \E cr2, pr2 :
          /\ on_order_replaced(Balances(ct, cr, pt, pr, h), e) = Balances(ct, cr2, pt, pr2, then)
          /\ Reserves(cr2, pr2, then)
          /\ \A a \in Accounts :
                /\ cr2[a] = cr[a] - CashOf(h[k], k, a) + CashOf(new, k, a)
                /\ \A i \in Instruments :
                      pr2[a][i] = pr[a][i] - UnitsOf(h[k], k, a, i) + UnitsOf(new, k, a, i)

LEMMA Replacing ==
    ASSUME NEW ct, NEW cr, NEW pt, NEW pr, NEW h, Reserves(cr, pr, h), Counted(pr),
           NEW e, NEW k \in Keys, NEW k2 \in Keys,
           k = <<e.account_id, e.original_client_order_id>>,
           k2 = <<e.account_id, e.new_client_order_id>>,
           h[k] # None, k2 = k \/ h[k2] = None,
           NEW new \in Hold, new.remaining # 0,
           new = ReplacedHold(h, k, e),
           h[k].instrument_id = e.instrument_id,
           h[k].side = "Sell" =>
              pr[k[1]][e.instrument_id] - h[k].remaining + e.new_quantity < QuantityModulus
    PROVE  Reholds(ct, cr, pt, pr, h, e, k, k2, new)
<1>1. /\ h \in [Keys -> Hold \cup {None}] /\ h[k] \in Hold
      /\ cr \in [Accounts -> Nat] /\ pr \in [Accounts -> [Instruments -> Nat]]
  BY DEF Reserves
<1>2. PICK h1 : h1 = [h EXCEPT ![k] = None]
  OBVIOUS
<1>3. h1[k2] = None
  BY <1>1, <1>2
<1>4. PICK cr1, pr1 :
         /\ release_hold_fully(Balances(ct, cr, pt, pr, h), k) = Balances(ct, cr1, pt, pr1, h1)
         /\ Moved(cr, pr, cr1, pr1, k, h[k], None)
  BY <1>2, Releasing
<1>5. Reserves(cr1, pr1, h1)
  BY <1>2, <1>4, HoldMoves
<1>6. k[1] = e.account_id /\ k2[1] = e.account_id /\ k[1] \in Accounts
  BY KeyFacts
<1>7. \A a : CashOf(None, k, a) = 0 /\ \A i : UnitsOf(None, k, a, i) = 0
  BY DEF CashOf, UnitsOf
<1>8. ASSUME NEW a \in Accounts
      PROVE  /\ cr1[a] = cr[a] - CashOf(h[k], k, a)
             /\ \A i \in Instruments : pr1[a][i] = pr[a][i] - UnitsOf(h[k], k, a, i)
  <2>1. cr1[a] = cr[a] - CashOf(h[k], k, a) + 0
    BY <1>4, <1>7 DEF Moved
  <2>2. ASSUME NEW i \in Instruments PROVE pr1[a][i] = pr[a][i] - UnitsOf(h[k], k, a, i) + 0
    BY <1>4, <1>7 DEF Moved
  <2>3. /\ cr[a] \in Nat /\ CashOf(h[k], k, a) \in Nat
        /\ \A i \in Instruments : pr[a][i] \in Nat /\ UnitsOf(h[k], k, a, i) \in Nat
    BY <1>1, OfTypes
  <2> QED
    BY <2>1, <2>2, <2>3
<1>9. /\ new.side = h[k].side /\ new.instrument_id = e.instrument_id
      /\ new.remaining = e.new_quantity
  BY DEF ReplacedHold
<1>10. ASSUME new.side = "Sell"
       PROVE  pr1[k2[1]][new.instrument_id] + new.remaining < QuantityModulus
  <2>1. PICK i1 \in Instruments, m \in Nat : i1 = e.instrument_id /\ m = h[k].remaining
    BY <1>1, HoldTypes
  <2>2. UnitsOf(h[k], k, k[1], i1) = m
    BY <1>9, <1>10, <2>1 DEF UnitsOf
  <2>3. pr1[k[1]][i1] = pr[k[1]][i1] - m
    BY <1>6, <1>8, <2>2
  <2> QED
    BY <1>6, <1>9, <1>10, <2>1, <2>3
<1>11. PICK cr2, pr2 :
          /\ open_hold(Balances(ct, cr1, pt, pr1, h1), k2, new)
               = Balances(ct, cr2, pt, pr2, [h1 EXCEPT ![k2] = new])
          /\ Moved(cr1, pr1, cr2, pr2, k2, None, new)
  BY <1>3, <1>5, <1>10, Opening
<1>12. Reserves(cr2, pr2, [h1 EXCEPT ![k2] = new])
  BY <1>3, <1>5, <1>11, HoldMoves
<1>13. on_order_replaced(Balances(ct, cr, pt, pr, h), e)
         = Balances(ct, cr2, pt, pr2, [h1 EXCEPT ![k2] = new])
  <2>1. Balances(ct, cr, pt, pr, h).holds = h
    BY DEF Balances
  <2> QED
    BY <1>4, <1>11, <2>1 DEF on_order_replaced, ReplacedHold
<1>14. ASSUME NEW a \in Accounts
       PROVE  /\ cr2[a] = cr[a] - CashOf(h[k], k, a) + CashOf(new, k, a)
              /\ \A i \in Instruments :
                    pr2[a][i] = pr[a][i] - UnitsOf(h[k], k, a, i) + UnitsOf(new, k, a, i)
  <2>1. /\ CashOf(new, k2, a) = CashOf(new, k, a) /\ CashOf(None, k2, a) = 0
        /\ \A i : UnitsOf(new, k2, a, i) = UnitsOf(new, k, a, i) /\ UnitsOf(None, k2, a, i) = 0
    BY <1>6 DEF CashOf, UnitsOf
  <2>2. cr2[a] = cr1[a] - 0 + CashOf(new, k, a)
    BY <1>11, <2>1 DEF Moved
  <2>3. ASSUME NEW i \in Instruments PROVE pr2[a][i] = pr1[a][i] - 0 + UnitsOf(new, k, a, i)
    BY <1>11, <2>1 DEF Moved
  <2>4. /\ cr1[a] \in Nat /\ CashOf(new, k, a) \in Nat
        /\ \A i \in Instruments : pr1[a][i] \in Nat /\ UnitsOf(new, k, a, i) \in Nat
    BY <1>5, OfTypes DEF Reserves
  <2> QED
    BY <1>8, <2>2, <2>3, <2>4
<1> QED
  BY <1>2, <1>12, <1>13, <1>14 DEF Reholds

-----------------------------------------------------------------------------
(***************************************************************************)
(* The ledger after a step, by the event it is told of.                    *)
(***************************************************************************)
BookEvents == {"BookOrderAdded", "BookOrderRemoved", "BookOrderReduced"}

\* The first event of the step is e, and what follows it, if anything, is a book event.
Announces(e) ==
    /\ Len(emitted') \in {1, 2} /\ emitted'[1] = e
    /\ Len(emitted') = 2 => emitted'[2].type \in BookEvents

LEMMA BookEventsPass ==
    ASSUME NEW l, NEW e, e.type \in BookEvents \cup {"OrderRejected"}
    PROVE  apply(l, e) = l
BY DEF apply, BookEvents

LEMMA Followed ==
    ASSUME LedgerFollows, NEW e, Announces(e),
           NEW ct, NEW cr, NEW pt, NEW pr, NEW h,
           apply(Balances(cash_total, cash_reserved, position_total, position_reserved, holds), e)
             = Balances(ct, cr, pt, pr, h)
    PROVE  /\ cash_total' = ct /\ cash_reserved' = cr /\ position_total' = pt
           /\ position_reserved' = pr /\ holds' = h
<1>1. PICK l : l = Balances(ct, cr, pt, pr, h)
  OBVIOUS
<1>2. apply(CurrentLedger, emitted'[1]) = l
  BY <1>1 DEF CurrentLedger, Balances, Announces
<1>3. /\ cash_total' = l.cash_total /\ cash_reserved' = l.cash_reserved
      /\ position_total' = l.position_total /\ position_reserved' = l.position_reserved
      /\ holds' = l.holds
  <2>1. CASE Len(emitted') = 1
    BY <1>2, <2>1 DEF LedgerFollows
  <2>2. CASE Len(emitted') = 2
    <3>1. apply(l, emitted'[2]) = l
      BY <2>2, BookEventsPass DEF Announces
    <3> QED
      BY <1>2, <2>2, <3>1 DEF LedgerFollows
  <2> QED
    BY <2>1, <2>2 DEF Announces
<1> QED
  BY <1>1, <1>3 DEF Balances

LEMMA Untouched ==
    ASSUME LedgerFollows,
           \/ emitted' = << >>
           \/ Len(emitted') = 1 /\ emitted'[1].type \in BookEvents \cup {"OrderRejected"}
    PROVE  UNCHANGED ledgerVars
<1>1. CASE emitted' = << >>
  <2>1. Len(emitted') = 0
    BY <1>1
  <2> QED
    BY <2>1 DEF LedgerFollows, CurrentLedger, ledgerVars
<1>2. CASE Len(emitted') = 1 /\ emitted'[1].type \in BookEvents \cup {"OrderRejected"}
  <2>1. apply(CurrentLedger, emitted'[1]) = CurrentLedger
    BY <1>2, BookEventsPass
  <2>2. /\ cash_total' = CurrentLedger.cash_total /\ cash_reserved' = CurrentLedger.cash_reserved
        /\ position_total' = CurrentLedger.position_total
        /\ position_reserved' = CurrentLedger.position_reserved /\ holds' = CurrentLedger.holds
    BY <1>2, <2>1 DEF LedgerFollows
  <2> QED
    BY <2>2 DEF CurrentLedger, ledgerVars
<1> QED
  BY <1>1, <1>2

-----------------------------------------------------------------------------
(***************************************************************************)
(* The inductive invariant.                                                *)
(***************************************************************************)

\* The hold the order under k ought to have.
OpenHold(k) ==
    IF orders[k] # None
      THEN HoldFor(at(books[orders[k].instrument_id], orders[k].handle), orders[k].instrument_id)
    ELSE IF InFlight(k) THEN HoldFor(incoming, incoming.instrument_id)
    ELSE None

\* What the order in flight may still take of an account, if it has no hold: an IOC or
\* FOK order is checked against the balance and reserves nothing.
CashNeeded(a) ==
    IF /\ ~Idle /\ incoming.account_id = a /\ incoming.side = "Buy"
       /\ incoming.time_in_force # GTC
    THEN incoming.remaining_quantity * incoming.price ELSE 0

UnitsNeeded(a, i) ==
    IF /\ ~Idle /\ incoming.account_id = a /\ incoming.instrument_id = i
       /\ incoming.side = "Sell" /\ incoming.time_in_force # GTC
    THEN incoming.remaining_quantity ELSE 0

Solvent ==
    \A a \in Accounts :
        /\ cash_reserved[a] + CashNeeded(a) <= cash_total[a]
        /\ \A i \in Instruments :
              position_reserved[a][i] + UnitsNeeded(a, i) <= position_total[a][i]

\* The units of instrument i, account by account, and their sum, which fits a Quantity.
Column(i) == [a \in Accounts |-> position_total[a][i]]
Countable == \A i \in Instruments : Total(Column(i)) < QuantityModulus

LedgerInv ==
    /\ cash_total \in [Accounts -> Nat]
    /\ position_total \in [Accounts -> [Instruments -> Nat]]
    /\ Reserves(cash_reserved, position_reserved, holds)
    /\ \A k \in Keys : holds[k] = OpenHold(k)
    /\ Solvent
    /\ Countable

\* What the proofs about the engine established, taken together.
EngineSafe ==
    /\ EngineInv /\ Positive /\ Aged /\ Lasting
    /\ FreshReplaceIds => Covered /\ Entering

LEMMA NeedTypes ==
    ASSUME EngineInv, NEW a, NEW i
    PROVE  CashNeeded(a) \in Nat /\ UnitsNeeded(a, i) \in Nat
<1>1. CASE Idle
  BY <1>1 DEF CashNeeded, UnitsNeeded
<1>2. CASE ~Idle
  <2>1. incoming \in ExchangeRestingOrder
    BY <1>2, Parts DEF IncomingOK, Idle
  <2>2. PICK n \in Nat, p \in Nat : n = incoming.remaining_quantity /\ p = incoming.price
    BY <2>1, PricesAssumption DEF ExchangeRestingOrder
  <2>3. n * p \in Nat
    OBVIOUS
  <2> QED
    BY <2>2, <2>3 DEF CashNeeded, UnitsNeeded
<1> QED
  BY <1>1, <1>2

\* No balance of units is near the limit of Quantity.
LEMMA UnitsCounted ==
    ASSUME EngineInv, LedgerInv
    PROVE  /\ Counted(position_reserved) /\ Counted(position_total)
           /\ \A i \in Instruments : Column(i) \in [Accounts -> Nat]
<1>1. \A i \in Instruments : Column(i) \in [Accounts -> Nat]
  BY DEF LedgerInv, Column
<1>2. ASSUME NEW a \in Accounts, NEW i \in Instruments
      PROVE  position_reserved[a][i] < QuantityModulus /\ position_total[a][i] < QuantityModulus
  <2>1. PICK f \in [Accounts -> Nat] : f = Column(i)
    BY <1>1
  <2>2. f[a] <= Total(f) /\ Total(f) \in Nat
    BY RiskAssumption, TotalUpdate, TotalType, 0 \in Nat
  <2>3. Total(f) < QuantityModulus
    BY <2>1 DEF LedgerInv, Countable
  <2>4. f[a] = position_total[a][i]
    BY <2>1 DEF Column
  <2>5. PICK m \in Nat, n \in Nat, u \in Nat :
           /\ m = position_reserved[a][i] /\ n = position_total[a][i] /\ u = UnitsNeeded(a, i)
    BY NeedTypes DEF LedgerInv, Reserves
  <2>6. m + u <= n
    BY <2>5 DEF LedgerInv, Solvent
  <2> QED
    BY <2>2, <2>3, <2>4, <2>5, <2>6, RiskAssumption
<1> QED
  BY <1>1, <1>2 DEF Counted

-----------------------------------------------------------------------------
(***************************************************************************)
(* The engine keeps its own invariants behind the gate, and the holds that *)
(* ought to exist change only for the orders a step touches.               *)
(***************************************************************************)
LEMMA GateStep ==
    ASSUME [RiskNext]_riskVars
    PROVE  \/ [Next]_engineVars
           \/ UNCHANGED <<registered, books, orders, next_exchange_order_id, next_priority, incoming>>
<1>1. CASE UNCHANGED riskVars
  BY <1>1 DEF riskVars, engineVars
<1>2. CASE \E c \in NewOrderCommand : NewOrder(c)
  BY <1>2 DEF NewOrder, RefuseNewOrder, reject_new_order, Reject, Next
<1>3. CASE \E c \in CancelOrderCommand : Cancel(c)
  BY <1>3 DEF Cancel, Next
<1>4. CASE \E c \in ReplaceOrderCommand : ClientMaySend(c) /\ Replace(c)
  BY <1>4 DEF Replace, RefuseReplace, reject_replace_order, Reject, Next
<1>5. CASE Match \/ Finish
  BY <1>5 DEF Match, Finish, Next
<1> QED
  BY <1>1, <1>2, <1>3, <1>4, <1>5 DEF RiskNext

LEMMA EngineStaysSafe ==
    ASSUME EngineSafe, [RiskNext]_riskVars
    PROVE  EngineSafe'
<1>1. CASE [Next]_engineVars
  <2>1. EngineInv'
    BY <1>1, EngineStep DEF EngineSafe
  <2>2. Positive' /\ Aged'
    BY <1>1, <2>1, AgedStep DEF EngineSafe
  <2>3. Effect
    BY <1>1, StepEffect DEF EngineSafe
  <2>4. Lasting'
    BY <2>3, EffectLasts DEF EngineSafe
  <2>5. FreshReplaceIds => Covered' /\ Entering'
    BY <1>1, <2>1, <2>3, EffectCovers, KeptEntering DEF EngineSafe
  <2> QED
    BY <2>1, <2>2, <2>4, <2>5 DEF EngineSafe
<1>2. CASE UNCHANGED <<registered, books, orders, next_exchange_order_id, next_priority, incoming>>
  <2>1. EngineInv'
    <3>1. ScalarsOK' /\ IncomingOK'
      BY <1>2, Parts DEF EngineSafe, ScalarsOK, IncomingOK
    <3> QED
      BY <1>2, <3>1, QuietStep DEF EngineSafe
  <2>2. Newest' = Newest /\ (Idle' <=> Idle)
    BY <1>2 DEF Newest, Idle
  <2>3. Positive' /\ Aged' /\ Lasting'
    BY <1>2, <2>2 DEF EngineSafe, Positive, Aged, Lasting
  <2>4. FreshReplaceIds => Covered' /\ Entering'
    BY <1>2, <2>2 DEF EngineSafe, Covered, Entering
  <2> QED
    BY <2>1, <2>3, <2>4 DEF EngineSafe
<1> QED
  BY <1>1, <1>2, GateStep

LEMMA HoldForType ==
    ASSUME NEW i \in Instruments, NEW o, o.side \in Sides, o.price \in Prices,
           o.remaining_quantity \in Nat
    PROVE  /\ HoldFor(o, i) \in Hold /\ HoldFor(o, i) # None
           /\ HoldFor(o, i).instrument_id = i /\ HoldFor(o, i).side = o.side
           /\ HoldFor(o, i).limit_price = o.price
           /\ HoldFor(o, i).remaining = o.remaining_quantity
BY HoldAssumption DEF HoldFor, Hold

\* The orders under keys outside K are left alone.
LEMMA OpenElsewhere ==
    ASSUME EngineInv, NEW K,
           \A j \in Instruments, x \in Slots :
              \/ books'[j].slab[x] = books[j].slab[x]
              \/ books[j].slab[x] = Free
              \/ LiveKey(books[j].slab[x]) \in K,
           \A k \in Keys : k \notin K => orders'[k] = orders[k] /\ ~InFlight(k) /\ ~InFlight(k)'
    PROVE  \A k \in Keys : k \notin K => OpenHold(k)' = OpenHold(k)
<1> SUFFICES ASSUME NEW k \in Keys, k \notin K PROVE OpenHold(k)' = OpenHold(k)
  OBVIOUS
<1>1. orders'[k] = orders[k] /\ ~InFlight(k) /\ ~InFlight(k)'
  OBVIOUS
<1>2. CASE orders[k] = None
  BY <1>1, <1>2 DEF OpenHold
<1>3. CASE orders[k] # None
  <2>1. PICK j, x : j = orders[k].instrument_id /\ x = orders[k].handle
    OBVIOUS
  <2>2. /\ j \in Instruments /\ x \in Slots /\ books[j].slab[x] # Free
        /\ k = LiveKey(books[j].slab[x])
    BY <1>3, <2>1, Parts, EntryFacts DEF LiveKey
  <2>3. books'[j].slab[x] = books[j].slab[x]
    BY <2>2
  <2>4. OpenHold(k) = HoldFor(books[j].slab[x], j)
    BY <1>3, <2>1 DEF OpenHold, at
  <2>5. OpenHold(k)' = HoldFor(books'[j].slab[x], j)
    BY <1>1, <1>3, <2>1 DEF OpenHold, at, HoldFor
  <2> QED
    BY <2>3, <2>4, <2>5
<1> QED
  BY <1>2, <1>3

\* Cash and units only change hands.
Conserved ==
    /\ Total(cash_total') = Total(cash_total)
    /\ \A j \in Instruments : Total(Column(j)') = Total(Column(j))

\* A step that moves no cash and no units from account to account.
LEMMA LedgerKept ==
    ASSUME LedgerInv, UNCHANGED <<cash_total, position_total>>,
           Reserves(cash_reserved', position_reserved', holds'),
           \A k \in Keys : holds'[k] = OpenHold(k)', Solvent'
    PROVE  LedgerInv' /\ Conserved
<1>1. Countable'
  BY DEF LedgerInv, Countable, Column
<1>2. Conserved
  BY DEF Conserved, Column
<1> QED
  BY <1>1, <1>2 DEF LedgerInv

LEMMA QuietLedger ==
    ASSUME EngineInv, LedgerInv, UNCHANGED ledgerVars, UNCHANGED <<books, orders, incoming>>
    PROVE  LedgerInv' /\ Conserved
<1>1. UNCHANGED <<cash_total, cash_reserved, position_total, position_reserved, holds>>
  BY DEF ledgerVars
<1>2. Reserves(cash_reserved', position_reserved', holds')
  BY <1>1 DEF LedgerInv
<1>3. \A k \in Keys : OpenHold(k)' = OpenHold(k)
  BY DEF OpenHold, InFlight, Idle, Rests, at, HoldFor
<1>4. /\ \A a : CashNeeded(a)' = CashNeeded(a)
      /\ \A a, i : UnitsNeeded(a, i)' = UnitsNeeded(a, i)
  BY DEF CashNeeded, UnitsNeeded, Idle
<1>5. Solvent'
  BY <1>1, <1>4 DEF LedgerInv, Solvent
<1>6. \A k \in Keys : holds'[k] = OpenHold(k)'
  BY <1>1, <1>3 DEF LedgerInv
<1> QED
  BY <1>1, <1>2, <1>5, <1>6, LedgerKept

\* What is left rests: the hold stays, and is now that of the order on the book.
LEMMA RestKeepsLedger ==
    ASSUME EngineSafe, FreshReplaceIds, LedgerInv, NEW h \in Slots, RestRemainder(h), LedgerFollows
    PROVE  LedgerInv' /\ Conserved
<1>1. EngineInv /\ Entering /\ ~Idle /\ Rests(incoming) /\ incoming' = None
  BY DEF EngineSafe, RestRemainder
<1>2. UNCHANGED ledgerVars
  <2>1. Len(emitted') = 1 /\ emitted'[1].type \in BookEvents
    BY DEF RestRemainder, BookEvents
  <2> QED
    BY <2>1, Untouched
<1>3. UNCHANGED <<cash_total, cash_reserved, position_total, position_reserved, holds>>
  BY <1>2 DEF ledgerVars
<1>4. incoming \in ExchangeRestingOrder
  BY <1>1, Parts DEF IncomingOK, Idle
<1>5. PICK i \in Instruments, k \in Keys : i = incoming.instrument_id /\ k = LiveKey(incoming)
  BY <1>4 DEF ExchangeRestingOrder, LiveKey, Keys
<1>6. PICK o : o = [exchange_order_id |-> incoming.exchange_order_id,
                    client_order_id |-> incoming.client_order_id,
                    account_id |-> incoming.account_id,
                    price |-> incoming.price,
                    remaining_quantity |-> incoming.remaining_quantity,
                    side |-> incoming.side,
                    time_in_force |-> incoming.time_in_force]
  OBVIOUS
<1>7. PICK ref \in OrderRef :
         ref = [original_quantity |-> incoming.original_quantity,
                order_sequence |-> incoming.order_sequence,
                handle |-> h, instrument_id |-> incoming.instrument_id]
  <2>1. /\ incoming.original_quantity \in Nat /\ incoming.order_sequence \in Nat
        /\ incoming.instrument_id \in Instruments
    BY <1>4 DEF ExchangeRestingOrder
  <2>2. [original_quantity |-> incoming.original_quantity,
         order_sequence |-> incoming.order_sequence,
         handle |-> h, instrument_id |-> incoming.instrument_id] \in OrderRef
    BY <2>1 DEF OrderRef
  <2> QED
    BY <2>2, Zenon
<1>8. /\ books' = [books EXCEPT ![i] = add(books[i], o, h)]
      /\ orders' = [orders EXCEPT ![k] = ref] /\ books[i].slab[h] = Free
  BY <1>5, <1>6, <1>7 DEF RestRemainder, LiveKey, IsLive
<1>9. /\ books'[i].slab = [books[i].slab EXCEPT ![h] = o]
      /\ \A j \in Instruments : j # i => books'[j] = books[j]
      /\ \A x \in Slots : x # h => books'[i].slab[x] = books[i].slab[x]
      /\ books'[i].slab[h] = o
  <2>1. add(books[i], o, h).slab = [books[i].slab EXCEPT ![h] = o]
    BY DEF add
  <2>2. books \in [Instruments -> BookOf(BookOrder)] /\ books[i].slab \in [Slots -> BookOrder \cup {Free}]
    BY <1>1, Parts DEF BooksOK, BookOf
  <2> QED
    BY <1>8, <2>1, <2>2
<1>10. /\ orders'[k] = ref /\ ref # None /\ orders[k] = None
       /\ \A x \in Keys : x # k => orders'[x] = orders[x]
  BY <1>1, <1>5, <1>7, <1>8, Parts, MarksAssumption DEF OrdersOK, Entering
<1>11. \A x \in Keys : x # k => OpenHold(x)' = OpenHold(x)
  <2>1. \A j \in Instruments, x \in Slots :
           \/ books'[j].slab[x] = books[j].slab[x]
           \/ books[j].slab[x] = Free
    BY <1>8, <1>9
  <2>2. \A x \in Keys : x \notin {k} => ~InFlight(x) /\ ~InFlight(x)'
    BY <1>1, <1>5 DEF InFlight, LiveKey, Idle
  <2>3. \A x \in Keys : x \notin {k} => OpenHold(x)' = OpenHold(x)
    BY <1>1, <1>10, <2>1, <2>2, OpenElsewhere
  <2> QED
    BY <2>3
<1>12. OpenHold(k) = HoldFor(incoming, i)
  BY <1>1, <1>5, <1>10 DEF OpenHold, InFlight, LiveKey
<1>13. OpenHold(k)' = HoldFor(o, i)
  <2>1. ref.instrument_id = i /\ ref.handle = h
    BY <1>5, <1>7
  <2> QED
    BY <1>9, <1>10, <2>1 DEF OpenHold, at, HoldFor
<1>14. HoldFor(o, i) = HoldFor(incoming, i)
  BY <1>6 DEF HoldFor
<1>15. \A x \in Keys : holds'[x] = OpenHold(x)'
  BY <1>3, <1>11, <1>12, <1>13, <1>14 DEF LedgerInv
<1>16. Solvent'
  <2>1. \A a : CashNeeded(a)' = 0 /\ \A j : UnitsNeeded(a, j)' = 0
    BY <1>1 DEF CashNeeded, UnitsNeeded, Idle
  <2>2. \A a, j : CashNeeded(a) \in Nat /\ UnitsNeeded(a, j) \in Nat
    BY <1>1, NeedTypes
  <2> QED
    BY <1>3, <2>1, <2>2 DEF Solvent, LedgerInv, Reserves
<1>17. Reserves(cash_reserved', position_reserved', holds')
  BY <1>3 DEF LedgerInv
<1> QED
  BY <1>3, <1>15, <1>16, <1>17, LedgerKept

\* Nothing rests: there was no hold for what is dropped.
LEMMA DiscardKeepsLedger ==
    ASSUME EngineSafe, FreshReplaceIds, LedgerInv, DiscardRemainder, LedgerFollows
    PROVE  LedgerInv' /\ Conserved
<1>1. /\ EngineInv /\ ~Rests(incoming) /\ incoming' = None
      /\ UNCHANGED <<books, orders>>
  BY DEF EngineSafe, DiscardRemainder
<1>2. UNCHANGED ledgerVars
  BY Untouched DEF DiscardRemainder
<1>3. UNCHANGED <<cash_total, cash_reserved, position_total, position_reserved, holds>>
  BY <1>2 DEF ledgerVars
<1>4. \A x \in Keys : OpenHold(x)' = OpenHold(x)
  <2>1. \A x \in Keys : ~InFlight(x) /\ ~InFlight(x)'
    BY <1>1 DEF InFlight, Idle
  <2> QED
    BY <1>1, <2>1 DEF OpenHold, at, HoldFor
<1>5. \A x \in Keys : holds'[x] = OpenHold(x)'
  BY <1>3, <1>4 DEF LedgerInv
<1>6. Solvent'
  <2>1. \A a : CashNeeded(a)' = 0 /\ \A j : UnitsNeeded(a, j)' = 0
    BY <1>1 DEF CashNeeded, UnitsNeeded, Idle
  <2>2. \A a, j : CashNeeded(a) \in Nat /\ UnitsNeeded(a, j) \in Nat
    BY <1>1, NeedTypes
  <2> QED
    BY <1>3, <2>1, <2>2 DEF Solvent, LedgerInv, Reserves
<1>7. Reserves(cash_reserved', position_reserved', holds')
  BY <1>3 DEF LedgerInv
<1> QED
  BY <1>3, <1>5, <1>6, <1>7, LedgerKept

\* A cancel releases the hold of the order it takes off the book.
LEMMA CancelKeepsLedger ==
    ASSUME EngineSafe, FreshReplaceIds, LedgerInv, NEW c \in CancelOrderCommand, CancelResting(c),
           LedgerFollows
    PROVE  LedgerInv' /\ Conserved
<1>1. EngineInv /\ Idle /\ Idle' /\ UNCHANGED incoming
  BY DEF EngineSafe, CancelResting, Idle
<1>2. PICK k \in Keys, i \in Instruments :
         k = <<c.account_id, c.client_order_id>> /\ i = c.instrument_id
  BY DEF CancelOrderCommand, Keys
<1>3. orders[k] # None /\ orders[k].instrument_id = i
  BY <1>2 DEF CancelResting, CancelReason, UnknownOrder
<1>4. PICK h \in Slots, o \in BookOrder :
         h = orders[k].handle /\ o = books[i].slab[h] /\ o # Free /\ LiveKey(o) = k
  BY <1>1, <1>2, <1>3, Parts, EntryFacts DEF LiveKey
<1>5. PICK e : /\ e = [type |-> "OrderCancelled", account_id |-> c.account_id,
                       client_order_id |-> c.client_order_id,
                       exchange_order_id |-> o.exchange_order_id, instrument_id |-> i]
               /\ emitted' = <<e, BookOrderRemoved(i, o)>>
               /\ orders' = [orders EXCEPT ![k] = None]
               /\ books' = [books EXCEPT ![i] = remove_at(books[i], h)]
  BY <1>2, <1>4 DEF CancelResting, at
<1>6. Announces(e)
  BY <1>5 DEF Announces, BookOrderRemoved, BookEvents
<1>7. /\ orders'[k] = None
      /\ \A x \in Keys : x # k => orders'[x] = orders[x]
  BY <1>1, <1>5, Parts DEF OrdersOK
<1>8. \A j \in Instruments, x \in Slots :
         books'[j].slab[x] = books[j].slab[x] \/ LiveKey(books[j].slab[x]) = k
  <2>1. remove_at(books[i], h).slab = [books[i].slab EXCEPT ![h] = Free]
    BY DEF remove_at
  <2>2. books \in [Instruments -> BookOf(BookOrder)] /\ books[i].slab \in [Slots -> BookOrder \cup {Free}]
    BY <1>1, Parts DEF BooksOK, BookOf
  <2> QED
    BY <1>4, <1>5, <2>1, <2>2
<1>9. \A x \in Keys : x # k => OpenHold(x)' = OpenHold(x)
  <2>1. \A x \in Keys : x \notin {k} => ~InFlight(x) /\ ~InFlight(x)'
    BY <1>1 DEF InFlight
  <2>2. \A x \in Keys : x \notin {k} => OpenHold(x)' = OpenHold(x)
    BY <1>1, <1>7, <1>8, <2>1, OpenElsewhere
  <2> QED
    BY <2>2
<1>10. OpenHold(k)' = None
  BY <1>1, <1>7 DEF OpenHold, InFlight
<1>11. holds[k] # None
  <2>1. HoldFor(o, i) # None
    BY HoldForType DEF BookOrder
  <2> QED
    BY <1>3, <1>4, <2>1 DEF LedgerInv, OpenHold, at
<1>12. Reserves(cash_reserved, position_reserved, holds) /\ Counted(position_reserved)
  BY <1>1, UnitsCounted DEF LedgerInv
<1> DEFINE l == Balances(cash_total, cash_reserved, position_total, position_reserved, holds)
<1>13. PICK cr2, pr2 :
          /\ release_hold_fully(l, k)
               = Balances(cash_total, cr2, position_total, pr2, [holds EXCEPT ![k] = None])
          /\ Moved(cash_reserved, position_reserved, cr2, pr2, k, holds[k], None)
  BY <1>11, <1>12, Releasing
<1>14. apply(l, e) = release_hold_fully(l, k)
  <2>1. l.holds = holds
    BY DEF Balances
  <2>2. apply(l, e) = on_order_cancelled(l, e)
    BY <1>5 DEF apply
  <2> HIDE DEF l
  <2> QED
    BY <1>2, <1>5, <1>11, <2>1, <2>2 DEF on_order_cancelled
<1>15. /\ cash_total' = cash_total /\ cash_reserved' = cr2 /\ position_total' = position_total
       /\ position_reserved' = pr2 /\ holds' = [holds EXCEPT ![k] = None]
  <2>1. apply(l, e) = Balances(cash_total, cr2, position_total, pr2, [holds EXCEPT ![k] = None])
    BY <1>13, <1>14
  <2> QED
    BY <1>6, <2>1, Followed
<1>16. Reserves(cr2, pr2, [holds EXCEPT ![k] = None])
  BY <1>12, <1>13, HoldMoves
<1>17. \A x \in Keys : holds'[x] = OpenHold(x)'
  BY <1>9, <1>10, <1>15 DEF LedgerInv, Reserves
<1>18. Solvent'
  <2>1. \A a : CashNeeded(a)' = 0 /\ CashNeeded(a) = 0
    BY <1>1 DEF CashNeeded
  <2>2. \A a, j : UnitsNeeded(a, j)' = 0 /\ UnitsNeeded(a, j) = 0
    BY <1>1 DEF UnitsNeeded
  <2>3. ASSUME NEW a \in Accounts
        PROVE  cr2[a] + 0 <= cash_total[a]
    <3>1. cr2[a] = cash_reserved[a] - CashOf(holds[k], k, a) + CashOf(None, k, a)
      BY <1>13 DEF Moved
    <3>2. CashOf(None, k, a) = 0
      BY DEF CashOf
    <3>3. PICK m \in Nat, n \in Nat, x \in Nat :
             m = cash_reserved[a] /\ n = cash_total[a] /\ x = CashOf(holds[k], k, a)
      BY <1>12, OfTypes DEF LedgerInv, Reserves
    <3>4. m + 0 <= n
      BY <2>1, <3>3 DEF LedgerInv, Solvent
    <3> QED
      BY <3>1, <3>2, <3>3, <3>4
  <2>4. ASSUME NEW a \in Accounts, NEW j \in Instruments
        PROVE  pr2[a][j] + 0 <= position_total[a][j]
    <3>1. pr2[a][j] = position_reserved[a][j] - UnitsOf(holds[k], k, a, j) + UnitsOf(None, k, a, j)
      BY <1>13 DEF Moved
    <3>2. UnitsOf(None, k, a, j) = 0
      BY DEF UnitsOf
    <3>3. PICK m \in Nat, n \in Nat, x \in Nat :
             m = position_reserved[a][j] /\ n = position_total[a][j] /\ x = UnitsOf(holds[k], k, a, j)
      BY <1>12, OfTypes DEF LedgerInv, Reserves
    <3>4. m + 0 <= n
      BY <2>2, <3>3 DEF LedgerInv, Solvent
    <3> QED
      BY <3>1, <3>2, <3>3, <3>4
  <2> QED
    BY <1>15, <2>1, <2>2, <2>3, <2>4 DEF Solvent
<1> QED
  BY <1>15, <1>16, <1>17, <1>18, LedgerKept

-----------------------------------------------------------------------------
(***************************************************************************)
(* A new order passes the gate.                                            *)
(***************************************************************************)
LEMMA AcceptFacts ==
    ASSUME EngineInv, NEW c \in NewOrderCommand, AcceptNewOrder(c)
    PROVE  /\ <<c.account_id, c.client_order_id>> \in Keys /\ c.account_id \in Accounts
           /\ c.instrument_id \in Instruments /\ c.side \in Sides
           /\ c.price \in Prices /\ c.price \in Nat
           /\ c.quantity \in Nat /\ c.quantity # 0
           /\ orders[<<c.account_id, c.client_order_id>>] = None
           /\ Idle /\ ~Idle'
           /\ incoming'.account_id = c.account_id
           /\ incoming'.client_order_id = c.client_order_id
           /\ incoming'.instrument_id = c.instrument_id
           /\ incoming'.side = c.side /\ incoming'.price = c.price
           /\ incoming'.remaining_quantity = c.quantity
           /\ incoming'.time_in_force = c.time_in_force
           /\ UNCHANGED <<books, orders>>
<1>1. /\ c.account_id \in Accounts /\ c.client_order_id \in ClientIds
      /\ c.instrument_id \in Instruments /\ c.side \in Sides
      /\ c.price \in Prices \cup Invalid /\ c.quantity \in Quantities \cup Invalid
  BY DEF NewOrderCommand
<1>2. /\ ~(c.price <= 0) /\ c.quantity # 0
      /\ orders[<<c.account_id, c.client_order_id>>] = None
  BY DEF AcceptNewOrder, NewOrderReason
<1>3. \A n \in Invalid : n = 0
  BY EngineAssumption
<1>4. \A n \in Quantities : n \in Nat
  BY EngineAssumption
<1>5. c.price \in Prices
  BY <1>1, <1>2, <1>3
<1>6. c.price \in Nat
  BY <1>5, PricesAssumption
<1>7. c.quantity \in Nat
  BY <1>1, <1>3, <1>4
<1>8. /\ incoming'.account_id = c.account_id
      /\ incoming'.client_order_id = c.client_order_id
      /\ incoming'.instrument_id = c.instrument_id
      /\ incoming'.side = c.side /\ incoming'.price = c.price
      /\ incoming'.remaining_quantity = c.quantity
      /\ incoming'.time_in_force = c.time_in_force
      /\ UNCHANGED <<books, orders>> /\ Idle
  BY DEF AcceptNewOrder
<1>9. ~Idle'
  <2>1. next_exchange_order_id \in Nat /\ next_priority \in Nat
    BY Parts DEF ScalarsOK
  <2>2. c.time_in_force \in TimeInForce
    BY DEF NewOrderCommand
  <2>3. incoming' \in ExchangeRestingOrder
    BY <1>1, <1>5, <1>7, <2>1, <2>2 DEF AcceptNewOrder, ExchangeRestingOrder
  <2> QED
    BY <2>3, MarksAssumption DEF Idle
<1>10. <<c.account_id, c.client_order_id>> \in Keys
  BY <1>1 DEF Keys
<1> QED
  BY <1>1, <1>2, <1>5, <1>6, <1>7, <1>8, <1>9, <1>10
\* What can be had of a balance: the subtraction of Quantity does not wrap.
LEMMA AvailableUnits ==
    ASSUME EngineInv, LedgerInv, NEW a \in Accounts, NEW i \in Instruments
    PROVE  /\ position_reserved[a][i] \in Nat /\ position_total[a][i] \in Nat
           /\ position_total[a][i] < QuantityModulus
           /\ position_reserved[a][i] <= position_total[a][i]
           /\ available_position(a, i) = position_total[a][i] - position_reserved[a][i]
<1>1. PICK m \in Nat, n \in Nat, u \in Nat :
         /\ m = position_reserved[a][i] /\ n = position_total[a][i] /\ u = UnitsNeeded(a, i)
  BY NeedTypes DEF LedgerInv, Reserves
<1>2. m + u <= n
  BY <1>1 DEF LedgerInv, Solvent
<1>3. n < QuantityModulus
  BY <1>1, UnitsCounted DEF Counted
<1>4. n - m \in Nat /\ n - m < QuantityModulus
  BY <1>2, <1>3, RiskAssumption
<1>5. available_position(a, i) = (n - m) % QuantityModulus
  BY <1>1 DEF available_position, Minus
<1>6. (n - m) % QuantityModulus = n - m
  BY <1>4, NoWrap
<1> QED
  BY <1>1, <1>2, <1>3, <1>5, <1>6

\* Nothing is reserved without the balance to cover it while no order is in flight.
LEMMA IdleNeedsNothing ==
    ASSUME Idle, NEW a, NEW i
    PROVE  CashNeeded(a) = 0 /\ UnitsNeeded(a, i) = 0
BY DEF CashNeeded, UnitsNeeded

\* The gate lets an order through only if the balance covers it.
LEMMA GateCovers ==
    ASSUME EngineInv, LedgerInv, NEW c \in NewOrderCommand, GateNewOrder(c) = "None",
           NEW a \in Accounts, a = c.account_id, NEW i \in Instruments, i = c.instrument_id,
           NEW q \in Nat, q = c.quantity, NEW p \in Nat, p = c.price
    PROVE  /\ c.side = "Buy" => cash_reserved[a] + q * p <= cash_total[a]
           /\ c.side = "Sell" => position_reserved[a][i] + q <= position_total[a][i]
<1>1. CheckNewOrder(c) = "None"
  BY DEF GateNewOrder
<1>2. c.side = "Buy" => ~(available_cash(a) < q * p)
  BY <1>1 DEF CheckNewOrder
<1>3. c.side = "Sell" => ~(available_position(a, i) < q)
  BY <1>1 DEF CheckNewOrder
<1>4. c.side = "Buy" => cash_reserved[a] + q * p <= cash_total[a]
  <2>1. PICK m \in Nat, n \in Nat, v \in Nat : m = cash_reserved[a] /\ n = cash_total[a] /\ v = q * p
    <3>1. q * p \in Nat
      OBVIOUS
    <3> QED
      BY <3>1 DEF LedgerInv, Reserves
  <2>2. available_cash(a) = n - m
    BY <2>1 DEF available_cash
  <2> QED
    BY <1>2, <2>1, <2>2
<1>5. c.side = "Sell" => position_reserved[a][i] + q <= position_total[a][i]
  BY <1>3, AvailableUnits
<1> QED
  BY <1>4, <1>5

LEMMA AcceptKeepsLedger ==
    ASSUME EngineSafe, LedgerInv, NEW c \in NewOrderCommand, GateNewOrder(c) = "None",
           AcceptNewOrder(c), LedgerFollows
    PROVE  LedgerInv' /\ Conserved
<1>1. EngineInv
  BY DEF EngineSafe
<1>2. PICK k \in Keys, a \in Accounts, i \in Instruments, q \in Nat, p \in Nat :
         /\ k = <<c.account_id, c.client_order_id>> /\ a = c.account_id
         /\ i = c.instrument_id /\ q = c.quantity /\ p = c.price
  BY <1>1, AcceptFacts
<1>3. /\ c.side \in Sides /\ p \in Prices /\ q # 0 /\ orders[k] = None /\ Idle /\ ~Idle'
      /\ LiveKey(incoming') = k /\ incoming'.account_id = a /\ incoming'.instrument_id = i
      /\ incoming'.side = c.side /\ incoming'.price = p /\ incoming'.remaining_quantity = q
      /\ incoming'.time_in_force = c.time_in_force /\ UNCHANGED <<books, orders>>
  BY <1>1, <1>2, AcceptFacts DEF LiveKey
<1>4. /\ c.side = "Buy" => cash_reserved[a] + q * p <= cash_total[a]
      /\ c.side = "Sell" => position_reserved[a][i] + q <= position_total[a][i]
  BY <1>1, <1>2, GateCovers
<1>5. k[1] = a
  BY <1>2
<1>6. OpenHold(k) = None /\ holds[k] = None
  BY <1>3 DEF OpenHold, InFlight, LedgerInv
<1>7. \A x \in Keys : x # k => OpenHold(x)' = OpenHold(x)
  <2>1. \A x \in Keys : x \notin {k} => ~InFlight(x) /\ ~InFlight(x)'
    BY <1>3 DEF InFlight, LiveKey
  <2>2. \A j \in Instruments, x \in Slots : books'[j].slab[x] = books[j].slab[x]
    BY <1>3
  <2>3. \A x \in Keys : x \notin {k} => OpenHold(x)' = OpenHold(x)
    BY <1>1, <1>3, <2>1, <2>2, OpenElsewhere
  <2> QED
    BY <2>3
<1>8. PICK e : /\ e = [type |-> "OrderAccepted", account_id |-> c.account_id,
                       client_order_id |-> c.client_order_id,
                       exchange_order_id |-> next_exchange_order_id,
                       instrument_id |-> c.instrument_id, side |-> c.side,
                       price |-> c.price, quantity |-> c.quantity,
                       time_in_force |-> c.time_in_force]
               /\ emitted' = <<e>>
  BY DEF AcceptNewOrder
<1>9. Announces(e)
  BY <1>8 DEF Announces
<1> DEFINE l == Balances(cash_total, cash_reserved, position_total, position_reserved, holds)
           hold == HoldFor(incoming', i)
<1>10. /\ e.type = "OrderAccepted" /\ <<e.account_id, e.client_order_id>> = k
       /\ e.instrument_id = i /\ e.side = c.side /\ e.price = p /\ e.quantity = q
       /\ e.time_in_force = c.time_in_force
  BY <1>2, <1>8
<1>11. apply(l, e) = on_order_accepted(l, e)
  <2> HIDE DEF l
  <2> QED
    BY <1>10 DEF apply
<1>12. Reserves(cash_reserved, position_reserved, holds)
  BY DEF LedgerInv
<1>13. \A x \in Accounts, j \in Instruments :
          /\ cash_reserved[x] \in Nat /\ cash_total[x] \in Nat /\ cash_reserved[x] <= cash_total[x]
          /\ position_reserved[x][j] \in Nat /\ position_total[x][j] \in Nat
          /\ position_reserved[x][j] <= position_total[x][j]
  BY <1>3, IdleNeedsNothing DEF LedgerInv, Solvent, Reserves
<1>14. CASE c.time_in_force = GTC
  <2>1. hold \in Hold /\ hold.remaining = q /\ hold.side = c.side /\ hold.instrument_id = i
        /\ hold.limit_price = p
    BY <1>3, HoldForType
  <2>2. on_order_accepted(l, e) = open_hold(l, k, hold)
    <3>1. hold = [instrument_id |-> e.instrument_id, side |-> e.side,
                  limit_price |-> e.price, remaining |-> e.quantity]
      BY <1>3, <1>10 DEF HoldFor
    <3> HIDE DEF l, hold
    <3> QED
      BY <1>10, <1>14, <3>1 DEF on_order_accepted
  <2>3. hold.side = "Sell" =>
           position_reserved[k[1]][hold.instrument_id] + hold.remaining < QuantityModulus
    <3>1. position_total[a][i] < QuantityModulus
      BY <1>1, AvailableUnits
    <3> HIDE DEF hold
    <3> QED
      BY <1>4, <1>5, <1>13, <2>1, <3>1, RiskAssumption
  <2> HIDE DEF hold
  <2>4. PICK cr2, pr2 :
          /\ open_hold(l, k, hold)
               = Balances(cash_total, cr2, position_total, pr2, [holds EXCEPT ![k] = hold])
          /\ Moved(cash_reserved, position_reserved, cr2, pr2, k, holds[k], hold)
    <3>1. hold \in Hold /\ hold.remaining # 0 /\ holds[k] = None
      BY <1>3, <1>6, <2>1
    <3>2. PICK v, r, h : v \in Hold /\ v = hold /\ r = position_reserved /\ h = holds
      BY <3>1
    <3>3. /\ v \in Hold /\ v.remaining # 0 /\ h[k] = None /\ Reserves(cash_reserved, r, h)
          /\ v.side = "Sell" => r[k[1]][v.instrument_id] + v.remaining < QuantityModulus
      BY <1>12, <2>3, <3>1, <3>2
    <3>4. PICK cr2, pr2 :
          /\ open_hold(Balances(cash_total, cash_reserved, position_total, r, h), k, v)
               = Balances(cash_total, cr2, position_total, pr2, [h EXCEPT ![k] = v])
          /\ Moved(cash_reserved, r, cr2, pr2, k, h[k], v)
      BY <3>3, Opening
    <3> QED
      BY <3>2, <3>4
  <2>5. /\ cash_total' = cash_total /\ cash_reserved' = cr2 /\ position_total' = position_total
        /\ position_reserved' = pr2 /\ holds' = [holds EXCEPT ![k] = hold]
    <3>1. apply(l, e) = Balances(cash_total, cr2, position_total, pr2, [holds EXCEPT ![k] = hold])
      BY <1>11, <2>2, <2>4
    <3> QED
      BY <1>9, <3>1, Followed
  <2>6. Reserves(cr2, pr2, [holds EXCEPT ![k] = hold])
    BY <1>12, <2>1, <2>4, HoldMoves
  <2>7. OpenHold(k)' = hold
    BY <1>3, <1>14 DEF OpenHold, InFlight, Rests, LiveKey, hold, HoldFor
  <2>8. \A x \in Keys : holds'[x] = OpenHold(x)'
    BY <1>7, <2>5, <2>7 DEF LedgerInv, Reserves
  <2>9. \A x, j : CashNeeded(x)' = 0 /\ UnitsNeeded(x, j)' = 0
    BY <1>3, <1>14 DEF CashNeeded, UnitsNeeded
  <2>10. ASSUME NEW x \in Accounts PROVE cr2[x] + 0 <= cash_total[x]
    <3>1. cr2[x] = cash_reserved[x] - CashOf(holds[k], k, x) + CashOf(hold, k, x)
      BY <2>4 DEF Moved
    <3>2. CashOf(holds[k], k, x) = 0
      BY <1>6 DEF CashOf
    <3>3. CashOf(hold, k, x) = IF c.side = "Buy" /\ x = a THEN q * p ELSE 0
      BY <1>5, <2>1, HoldTypes DEF CashOf
    <3>4. PICK m \in Nat, n \in Nat, v \in Nat : m = cash_reserved[x] /\ n = cash_total[x] /\ v = q * p
      <4>1. q * p \in Nat
        OBVIOUS
      <4> QED
        BY <1>13, <4>1
    <3>5. m <= n /\ (c.side = "Buy" /\ x = a => m + v <= n)
      BY <1>4, <1>13, <3>4
    <3> QED
      BY <3>1, <3>2, <3>3, <3>4, <3>5
  <2>11. ASSUME NEW x \in Accounts, NEW j \in Instruments
         PROVE  pr2[x][j] + 0 <= position_total[x][j]
    <3>1. pr2[x][j] = position_reserved[x][j] - UnitsOf(holds[k], k, x, j) + UnitsOf(hold, k, x, j)
      BY <2>4 DEF Moved
    <3>2. UnitsOf(holds[k], k, x, j) = 0
      BY <1>6 DEF UnitsOf
    <3>3. UnitsOf(hold, k, x, j) = IF c.side = "Sell" /\ x = a /\ j = i THEN q ELSE 0
      BY <1>5, <2>1, HoldTypes DEF UnitsOf
    <3>4. PICK m \in Nat, n \in Nat : m = position_reserved[x][j] /\ n = position_total[x][j]
      BY <1>13
    <3>5. m <= n /\ (c.side = "Sell" /\ x = a /\ j = i => m + q <= n)
      BY <1>4, <1>13, <3>4
    <3> QED
      BY <3>1, <3>2, <3>3, <3>4, <3>5
  <2>12. Solvent'
    BY <2>5, <2>9, <2>10, <2>11 DEF Solvent
  <2> QED
    BY <2>5, <2>6, <2>8, <2>12, LedgerKept
<1>15. CASE c.time_in_force # GTC
  <2>1. apply(l, e) = l
    <3> HIDE DEF l
    <3> QED
      BY <1>10, <1>11, <1>15 DEF on_order_accepted
  <2>2. UNCHANGED <<cash_total, cash_reserved, position_total, position_reserved, holds>>
    BY <1>9, <2>1, Followed
  <2>3. OpenHold(k)' = None
    BY <1>3, <1>15 DEF OpenHold, InFlight, Rests
  <2>4. \A x \in Keys : holds'[x] = OpenHold(x)'
    BY <1>6, <1>7, <2>2, <2>3 DEF LedgerInv
  <2>5. \A x : CashNeeded(x)' = IF x = a /\ c.side = "Buy" THEN q * p ELSE 0
    BY <1>3, <1>15 DEF CashNeeded
  <2>6. \A x, j : UnitsNeeded(x, j)' = IF x = a /\ j = i /\ c.side = "Sell" THEN q ELSE 0
    BY <1>3, <1>15 DEF UnitsNeeded
  <2>7. Solvent'
    BY <1>4, <1>13, <2>2, <2>5, <2>6 DEF Solvent
  <2>8. Reserves(cash_reserved', position_reserved', holds')
    BY <1>12, <2>2
  <2> QED
    BY <2>2, <2>4, <2>7, <2>8, LedgerKept
<1> QED
  BY <1>14, <1>15
-----------------------------------------------------------------------------
(***************************************************************************)
(* A replace passes the gate: its hold moves to the new id, at the new     *)
(* price and quantity.                                                     *)
(***************************************************************************)

\* The gate checks what a replace needs beyond what its original reserves.
LEMMA GateCoversReplace ==
    ASSUME EngineInv, LedgerInv, Idle, NEW c \in ReplaceOrderCommand, GateReplace(c) = "None",
           NEW k \in Keys, k = <<c.account_id, c.original_client_order_id>>,
           NEW a \in Accounts, a = c.account_id, NEW i \in Instruments, i = c.instrument_id,
           NEW q \in Nat, q = c.new_quantity, NEW p \in Nat, p = c.new_price,
           NEW old \in Hold, old = holds[k], old.instrument_id = i
    PROVE  /\ old.side = "Buy" =>
                cash_reserved[a] - old.remaining * old.limit_price + q * p <= cash_total[a]
           /\ old.side = "Sell" =>
                position_reserved[a][i] - old.remaining + q <= position_total[a][i]
<1>1. CheckReplace(c) = "None"
  BY DEF GateReplace
<1>2. find_hold(c.account_id, c.original_client_order_id) = old /\ old # None
  BY HoldTypes DEF find_hold
<1>3. old.side = "Buy" => ~(available_cash(a) < Extra(q * p, old.remaining * old.limit_price))
  BY <1>1, <1>2 DEF CheckReplace
<1>4. old.side = "Sell" => ~(available_position(a, i) < Extra(q, old.remaining))
  BY <1>1, <1>2 DEF CheckReplace
<1>5. /\ old.remaining \in Nat /\ old.limit_price \in Nat
      /\ old.remaining * old.limit_price \in Nat /\ q * p \in Nat
  BY HoldTypes
<1>6. ASSUME old.side = "Buy"
      PROVE  cash_reserved[a] - old.remaining * old.limit_price + q * p <= cash_total[a]
  <2>1. PICK m \in Nat, n \in Nat, u \in Nat, v \in Nat :
           /\ m = cash_reserved[a] /\ n = cash_total[a]
           /\ u = old.remaining * old.limit_price /\ v = q * p
    BY <1>5 DEF LedgerInv, Reserves
  <2>2. m + 0 <= n
    BY <2>1, IdleNeedsNothing DEF LedgerInv, Solvent
  <2>3. ~(n - m < Extra(v, u))
    BY <1>3, <1>6, <2>1 DEF available_cash
  <2>4. m - u + v <= n
    BY <2>2, <2>3 DEF Extra
  <2> QED
    BY <2>1, <2>4
<1>7. ASSUME old.side = "Sell"
      PROVE  position_reserved[a][i] - old.remaining + q <= position_total[a][i]
  <2>1. PICK m \in Nat, n \in Nat, u \in Nat :
           m = position_reserved[a][i] /\ n = position_total[a][i] /\ u = old.remaining
    BY <1>5, AvailableUnits
  <2>2. m <= n /\ available_position(a, i) = n - m
    BY <2>1, AvailableUnits
  <2>3. ~(n - m < Extra(q, u))
    BY <1>4, <1>7, <2>1, <2>2
  <2> QED
    BY <2>1, <2>2, <2>3 DEF Extra
<1> QED
  BY <1>6, <1>7

\* The order a replace names, its hold and the key it goes to.
Replaces(c, k, k2, i, o) ==
    /\ k = <<c.account_id, c.original_client_order_id>>
    /\ k2 = <<c.account_id, c.new_client_order_id>>
    /\ i = c.instrument_id /\ orders[k] # None /\ orders[k].instrument_id = i
    /\ orders[k].handle \in Slots /\ o = books[i].slab[orders[k].handle] /\ o # Free
    /\ LiveKey(o) = k /\ o.time_in_force = GTC
    /\ k2 = k \/ orders[k2] = None
    /\ holds[k] = HoldFor(o, i) /\ (k2 = k \/ holds[k2] = None)
    /\ c.account_id \in Accounts /\ c.new_price \in Prices /\ c.new_price \in Nat
    /\ c.new_quantity \in Nat /\ c.new_quantity # 0

LEMMA ReplaceNames ==
    ASSUME EngineSafe, FreshReplaceIds, LedgerInv, Idle, NEW c \in ReplaceOrderCommand,
           ReplaceReason(c) = "None", ClientMaySend(c)
    PROVE  \E k \in Keys, k2 \in Keys, i \in Instruments, o \in BookOrder : Replaces(c, k, k2, i, o)
<1>1. EngineInv /\ Lasting
  BY DEF EngineSafe
<1>2. PICK k, k2, i : /\ k = <<c.account_id, c.original_client_order_id>>
                      /\ k2 = <<c.account_id, c.new_client_order_id>> /\ i = c.instrument_id
  OBVIOUS
<1>3. /\ k \in Keys /\ i \in Instruments /\ orders[k] # None /\ orders[k].instrument_id = i
      /\ orders[k].handle \in Slots
      /\ books[i].slab[orders[k].handle] # Free /\ books[i].slab[orders[k].handle] \in BookOrder
      /\ k = LiveKey(books[i].slab[orders[k].handle])
      /\ c.new_price \in Prices /\ c.new_quantity \in Nat
      /\ c.new_client_order_id \in ClientIds /\ c.account_id \in Accounts
  BY <1>1, <1>2, ReplaceFacts DEF LiveKey
<1>4. c.new_quantity # 0 /\ c.new_price \in Nat
  BY <1>3, PricesAssumption DEF ReplaceReason
<1>5. k2 \in Keys
  BY <1>2, <1>3 DEF Keys
<1>6. PICK o \in BookOrder : o = books[i].slab[orders[k].handle]
  BY <1>3
<1>7. o.time_in_force = GTC
  BY <1>1, <1>3, <1>6 DEF Lasting
<1>8. k2 = k \/ orders[k2] = None
  BY <1>2 DEF ClientMaySend
<1>9. holds[k] = HoldFor(o, i)
  BY <1>3, <1>6 DEF LedgerInv, OpenHold, at
<1>10. k2 = k \/ holds[k2] = None
  BY <1>5, <1>8 DEF LedgerInv, OpenHold, InFlight
<1>11. Replaces(c, k, k2, i, o)
  BY <1>2, <1>3, <1>4, <1>6, <1>7, <1>8, <1>9, <1>10 DEF Replaces
<1> QED
  BY <1>3, <1>5, <1>11
\* The hold under k gives way to `new` under k2, and the balances cover it.
Rebooked(k, k2, new) ==
    /\ UNCHANGED <<cash_total, position_total>>
    /\ Reserves(cash_reserved', position_reserved', holds')
    /\ holds'[k2] = new /\ (k2 # k => holds'[k] = None)
    /\ \A x \in Keys : x \notin {k, k2} => holds'[x] = holds[x]
    /\ \A a \in Accounts :
          /\ cash_reserved'[a] <= cash_total[a]
          /\ \A j \in Instruments : position_reserved'[a][j] <= position_total[a][j]

LEMMA ReplaceMovesHold ==
    ASSUME EngineSafe, LedgerInv, Idle, NEW c \in ReplaceOrderCommand, GateReplace(c) = "None",
           LedgerFollows, NEW k \in Keys, NEW k2 \in Keys, NEW i \in Instruments, NEW o \in BookOrder,
           Replaces(c, k, k2, i, o), NEW id, Announces(OrderReplaced(c, id)),
           NEW new, new = [instrument_id |-> i, side |-> o.side,
                           limit_price |-> c.new_price, remaining |-> c.new_quantity]
    PROVE  Rebooked(k, k2, new)
<1>1. EngineInv
  BY DEF EngineSafe
<1>2. PICK a \in Accounts, q \in Nat, p \in Nat :
         a = c.account_id /\ q = c.new_quantity /\ p = c.new_price /\ q # 0 /\ p \in Prices
  BY DEF Replaces
<1>3. k[1] = a /\ k2[1] = a
  BY <1>2 DEF Replaces
<1>4. o.side \in Sides /\ o.price \in Prices /\ o.remaining_quantity \in Nat
  BY DEF BookOrder
<1>5. PICK old \in Hold : /\ old = holds[k] /\ old.instrument_id = i /\ old.side = o.side
                          /\ old # None
  BY <1>4, HoldForType DEF Replaces
<1>6. /\ new \in Hold /\ new.remaining = q /\ new.side = old.side /\ new.limit_price = p
      /\ new.instrument_id = i
  BY <1>2, <1>4, <1>5 DEF Hold
<1>7. /\ old.side = "Buy" =>
           cash_reserved[a] - old.remaining * old.limit_price + q * p <= cash_total[a]
      /\ old.side = "Sell" =>
           position_reserved[a][i] - old.remaining + q <= position_total[a][i]
  <2>1. k = <<c.account_id, c.original_client_order_id>> /\ i = c.instrument_id
    BY DEF Replaces
  <2> QED
    BY <1>1, <1>2, <1>5, <2>1, GateCoversReplace
<1>8. \A x \in Accounts, j \in Instruments :
          /\ cash_reserved[x] \in Nat /\ cash_total[x] \in Nat /\ cash_reserved[x] <= cash_total[x]
          /\ position_reserved[x][j] \in Nat /\ position_total[x][j] \in Nat
          /\ position_reserved[x][j] <= position_total[x][j]
  BY IdleNeedsNothing DEF LedgerInv, Solvent, Reserves
<1>9. Reserves(cash_reserved, position_reserved, holds) /\ Counted(position_reserved)
  BY <1>1, UnitsCounted DEF LedgerInv
<1>10. PICK e : e = OrderReplaced(c, id)
  OBVIOUS
<1>11. /\ e.type = "OrderReplaced" /\ k = <<e.account_id, e.original_client_order_id>>
       /\ k2 = <<e.account_id, e.new_client_order_id>> /\ e.instrument_id = i
       /\ e.new_price = p /\ e.new_quantity = q
  BY <1>2, <1>10 DEF OrderReplaced, Replaces
<1>12. old.side = "Sell" =>
          position_reserved[k[1]][e.instrument_id] - old.remaining + e.new_quantity < QuantityModulus
  <2>1. position_total[a][i] < QuantityModulus
    BY <1>1, AvailableUnits
  <2>2. old.remaining \in Nat
    BY HoldTypes
  <2>3. PICK m \in Nat, n \in Nat, u \in Nat :
           m = position_reserved[a][i] /\ n = position_total[a][i] /\ u = old.remaining
    BY <1>8, <2>2
  <2>4. old.side = "Sell" => m - u + q < QuantityModulus
    BY <1>7, <2>1, <2>3, RiskAssumption
  <2> QED
    BY <1>3, <1>11, <2>3, <2>4
<1>13. new = ReplacedHold(holds, k, e)
  BY <1>2, <1>5, <1>11 DEF ReplacedHold
<1>14. k2 = k \/ holds[k2] = None
  BY DEF Replaces
<1> DEFINE l == Balances(cash_total, cash_reserved, position_total, position_reserved, holds)
           then == [[holds EXCEPT ![k] = None] EXCEPT ![k2] = new]
<1>15. PICK cr2, pr2 :
          /\ on_order_replaced(l, e) = Balances(cash_total, cr2, position_total, pr2, then)
          /\ Reserves(cr2, pr2, then)
          /\ \A x \in Accounts :
                /\ cr2[x] = cash_reserved[x] - CashOf(old, k, x) + CashOf(new, k, x)
                /\ \A j \in Instruments :
                      pr2[x][j] = position_reserved[x][j] - UnitsOf(old, k, x, j) + UnitsOf(new, k, x, j)
  <2>1. PICK h, r, v : h = holds /\ r = position_reserved /\ v = new
    OBVIOUS
  <2>2. /\ Reserves(cash_reserved, r, h) /\ Counted(r) /\ h[k] # None /\ (k2 = k \/ h[k2] = None)
        /\ h[k].instrument_id = e.instrument_id /\ v.remaining # 0 /\ v \in Hold
    BY <1>2, <1>5, <1>6, <1>9, <1>11, <1>14, <2>1
  <2>3. v = ReplacedHold(h, k, e)
    BY <1>13, <2>1
  <2>4. h[k].side = "Sell" =>
           r[k[1]][e.instrument_id] - h[k].remaining + e.new_quantity < QuantityModulus
    BY <1>5, <1>12, <2>1
  <2>5. k = <<e.account_id, e.original_client_order_id>> /\ k2 = <<e.account_id, e.new_client_order_id>>
    BY <1>11
  <2>6. Reholds(cash_total, cash_reserved, position_total, r, h, e, k, k2, v)
    BY <2>2, <2>3, <2>4, <2>5, Replacing
  <2> QED
    BY <1>5, <2>1, <2>6 DEF Reholds
<1>16. apply(l, e) = on_order_replaced(l, e)
  <2> HIDE DEF l
  <2> QED
    BY <1>11 DEF apply
<1>17. /\ cash_total' = cash_total /\ cash_reserved' = cr2 /\ position_total' = position_total
       /\ position_reserved' = pr2 /\ holds' = then
  <2> HIDE DEF then
  <2>1. apply(l, e) = Balances(cash_total, cr2, position_total, pr2, then)
    BY <1>15, <1>16
  <2>2. Announces(e)
    BY <1>10
  <2> QED
    BY <2>1, <2>2, Followed
<1>18. ASSUME NEW x \in Accounts PROVE cr2[x] <= cash_total[x]
  <2>1. CashOf(old, k, x) = IF old.side = "Buy" /\ x = a THEN old.remaining * old.limit_price ELSE 0
    BY <1>3, <1>5 DEF CashOf
  <2>2. CashOf(new, k, x) = IF old.side = "Buy" /\ x = a THEN q * p ELSE 0
    BY <1>3, <1>6, HoldTypes DEF CashOf
  <2>3. PICK m \in Nat, n \in Nat, u \in Nat, v \in Nat :
           /\ m = cash_reserved[x] /\ n = cash_total[x]
           /\ u = old.remaining * old.limit_price /\ v = q * p
    <3>1. q * p \in Nat /\ old.remaining * old.limit_price \in Nat
      BY HoldTypes
    <3> QED
      BY <1>8, <3>1
  <2>4. m <= n /\ (old.side = "Buy" /\ x = a => m - u + v <= n)
    BY <1>7, <1>8, <2>3
  <2>5. cr2[x] = m - CashOf(old, k, x) + CashOf(new, k, x)
    BY <1>15, <2>3
  <2> QED
    BY <2>1, <2>2, <2>3, <2>4, <2>5
<1>19. ASSUME NEW x \in Accounts, NEW j \in Instruments PROVE pr2[x][j] <= position_total[x][j]
  <2>1. UnitsOf(old, k, x, j) = IF old.side = "Sell" /\ x = a /\ j = i THEN old.remaining ELSE 0
    BY <1>3, <1>5 DEF UnitsOf
  <2>2. UnitsOf(new, k, x, j) = IF old.side = "Sell" /\ x = a /\ j = i THEN q ELSE 0
    BY <1>3, <1>6, HoldTypes DEF UnitsOf
  <2>3. PICK m \in Nat, n \in Nat, u \in Nat :
           m = position_reserved[x][j] /\ n = position_total[x][j] /\ u = old.remaining
    BY <1>8, HoldTypes
  <2>4. m <= n /\ (old.side = "Sell" /\ x = a /\ j = i => m - u + q <= n)
    BY <1>7, <1>8, <2>3
  <2>5. pr2[x][j] = m - UnitsOf(old, k, x, j) + UnitsOf(new, k, x, j)
    BY <1>15, <2>3
  <2> QED
    BY <2>1, <2>2, <2>3, <2>4, <2>5
<1>20. /\ then[k2] = new /\ (k2 # k => then[k] = None)
       /\ \A x \in Keys : x \notin {k, k2} => then[x] = holds[x]
  BY <1>9 DEF Reserves
<1> HIDE DEF then
<1> QED
  BY <1>15, <1>17, <1>18, <1>19, <1>20 DEF Rebooked

\* The books and the directory after a replace: what rests under k goes, and what k2
\* ought to hold is `new`.
LEMMA RebookedKeeps ==
    ASSUME LedgerInv, NEW k \in Keys, NEW k2 \in Keys, NEW new, Rebooked(k, k2, new),
           \A x \in Keys : x \notin {k, k2} => OpenHold(x)' = OpenHold(x),
           OpenHold(k2)' = new, k2 # k => OpenHold(k)' = None,
           \A a, j : CashNeeded(a)' = 0 /\ UnitsNeeded(a, j)' = 0
    PROVE  LedgerInv' /\ Conserved
<1>1. \A x \in Keys : holds'[x] = OpenHold(x)'
  BY DEF Rebooked, LedgerInv
<1>2. cash_reserved' \in [Accounts -> Nat] /\ position_reserved' \in [Accounts -> [Instruments -> Nat]]
  BY DEF Rebooked, Reserves
<1>3. Solvent'
  BY <1>2 DEF Rebooked, Solvent
<1> QED
  BY <1>1, <1>3, LedgerKept DEF Rebooked
LEMMA ReplaceInPlaceKeepsLedger ==
    ASSUME EngineSafe, FreshReplaceIds, LedgerInv, NEW c \in ReplaceOrderCommand,
           GateReplace(c) = "None", ClientMaySend(c), ReplaceInPlace(c), LedgerFollows
    PROVE  LedgerInv' /\ Conserved
<1>1. EngineInv /\ Idle /\ Idle' /\ ReplaceReason(c) = "None"
  BY DEF EngineSafe, ReplaceInPlace, Idle
<1>2. PICK k \in Keys, k2 \in Keys, i \in Instruments, o \in BookOrder : Replaces(c, k, k2, i, o)
  BY <1>1, ReplaceNames
<1>3. PICK h \in Slots, n \in BookOrder :
         /\ Edits(i, h, n) /\ h = orders[k].handle /\ LiveKey(n) = k2
         /\ n.remaining_quantity = c.new_quantity /\ n.price = c.new_price
  <2>1. i = c.instrument_id /\ k = <<c.account_id, c.original_client_order_id>>
        /\ k2 = <<c.account_id, c.new_client_order_id>>
    BY <1>2 DEF Replaces
  <2> QED
    BY <1>1, <2>1, ReplaceEdits
<1>4. /\ o = books[i].slab[h] /\ LiveKey(o) = k /\ orders[k] # None
      /\ orders[k].instrument_id = i /\ orders[k].handle = h
  BY <1>2, <1>3 DEF Replaces
<1>5. /\ n.side = o.side /\ (k2 = k \/ orders[k2] = None)
      /\ orders' = [orders EXCEPT ![k] = None, ![k2] = orders[k]]
      /\ books' = [books EXCEPT ![i] = [slab |-> [books[i].slab EXCEPT ![h] = n],
                                        queue |-> books[i].queue]]
  BY <1>2, <1>3, <1>4 DEF Edits, Replaces
<1>6. /\ orders'[k2] = orders[k] /\ (k2 # k => orders'[k] = None)
      /\ \A x \in Keys : x \notin {k, k2} => orders'[x] = orders[x]
  BY <1>1, <1>5, Parts DEF OrdersOK
<1>7. /\ books'[i].slab[h] = n
      /\ \A j \in Instruments, x \in Slots :
            books'[j].slab[x] = books[j].slab[x] \/ LiveKey(books[j].slab[x]) \in {k, k2}
  <2>1. books \in [Instruments -> BookOf(BookOrder)] /\ books[i].slab \in [Slots -> BookOrder \cup {Free}]
    BY <1>1, Parts DEF BooksOK, BookOf
  <2>2. books'[i].slab = [books[i].slab EXCEPT ![h] = n] /\ \A j \in Instruments : j # i => books'[j] = books[j]
    BY <1>5, <2>1
  <2>3. books'[i].slab[h] = n /\ \A x \in Slots : x # h => books'[i].slab[x] = books[i].slab[x]
    BY <2>1, <2>2
  <2> QED
    BY <1>4, <2>2, <2>3
<1>8. \A x \in Keys : x \notin {k, k2} => OpenHold(x)' = OpenHold(x)
  <2>1. \A x \in Keys : x \notin {k, k2} => ~InFlight(x) /\ ~InFlight(x)'
    BY <1>1 DEF InFlight
  <2> QED
    BY <1>1, <1>6, <1>7, <2>1, OpenElsewhere
<1> DEFINE new == [instrument_id |-> i, side |-> o.side,
                   limit_price |-> c.new_price, remaining |-> c.new_quantity]
<1>9. OpenHold(k2)' = new
  <2>1. OpenHold(k2)' = HoldFor(n, i)
    BY <1>4, <1>6, <1>7 DEF OpenHold, at, HoldFor
  <2>2. n.side = o.side
    BY <1>3, <1>4 DEF Edits
  <2> QED
    BY <1>3, <2>1, <2>2 DEF HoldFor
<1>10. k2 # k => OpenHold(k)' = None
  BY <1>1, <1>6 DEF OpenHold, InFlight
<1>11. \A a, j : CashNeeded(a)' = 0 /\ UnitsNeeded(a, j)' = 0
  BY <1>1 DEF CashNeeded, UnitsNeeded
<1>12. PICK id : Announces(OrderReplaced(c, id))
  <2>1. PICK id, b : emitted' = <<OrderReplaced(c, id), BookOrderReduced(c.instrument_id, b, c.new_quantity)>>
    BY DEF ReplaceInPlace
  <2> QED
    BY <2>1 DEF Announces, BookOrderReduced, BookEvents
<1>13. Rebooked(k, k2, new)
  BY <1>1, <1>2, <1>12, ReplaceMovesHold
<1> HIDE DEF new
<1> QED
  BY <1>8, <1>9, <1>10, <1>11, <1>13, RebookedKeeps

LEMMA ReplaceAsNewKeepsLedger ==
    ASSUME EngineSafe, FreshReplaceIds, LedgerInv, NEW c \in ReplaceOrderCommand,
           GateReplace(c) = "None", ClientMaySend(c), ReplaceAsNew(c), LedgerFollows
    PROVE  LedgerInv' /\ Conserved
<1>1. EngineInv /\ Idle /\ ReplaceReason(c) = "None"
  BY DEF EngineSafe, ReplaceAsNew
<1>2. PICK k \in Keys, k2 \in Keys, i \in Instruments, o \in BookOrder : Replaces(c, k, k2, i, o)
  BY <1>1, ReplaceNames
<1>3. PICK h \in Slots : h = orders[k].handle
  BY <1>2 DEF Replaces
<1>4. /\ o = books[i].slab[h] /\ LiveKey(o) = k /\ orders[k] # None /\ o.time_in_force = GTC
      /\ k2 = <<c.account_id, c.new_client_order_id>> /\ (k2 = k \/ orders[k2] = None)
      /\ c.new_quantity # 0 /\ i = c.instrument_id /\ k = <<c.account_id, c.original_client_order_id>>
  BY <1>2, <1>3 DEF Replaces
<1>5. /\ books' = [books EXCEPT ![i] = remove_at(books[i], h)]
      /\ orders' = [orders EXCEPT ![k] = None]
      /\ emitted' = <<OrderReplaced(c, next_exchange_order_id), BookOrderRemoved(i, o)>>
      /\ incoming' = [exchange_order_id |-> next_exchange_order_id,
                      client_order_id |-> c.new_client_order_id,
                      account_id |-> c.account_id,
                      price |-> c.new_price,
                      original_quantity |-> c.new_quantity,
                      remaining_quantity |-> c.new_quantity,
                      order_sequence |-> next_priority,
                      instrument_id |-> i,
                      side |-> o.side,
                      time_in_force |-> o.time_in_force]
  BY <1>3, <1>4 DEF ReplaceAsNew, at
<1>6. /\ incoming'.account_id = c.account_id /\ incoming'.client_order_id = c.new_client_order_id
      /\ incoming'.price = c.new_price /\ incoming'.remaining_quantity = c.new_quantity
      /\ incoming'.instrument_id = i /\ incoming'.side = o.side /\ incoming'.time_in_force = GTC
      /\ Rests(incoming')
  BY <1>4, <1>5 DEF Rests
<1>7. ~Idle'
  <2>2. next_exchange_order_id \in Nat /\ next_priority \in Nat
    BY <1>1, Parts DEF ScalarsOK
  <2>3. /\ c.new_client_order_id \in ClientIds /\ c.account_id \in Accounts /\ c.new_price \in Prices
        /\ c.new_quantity \in Nat /\ o.side \in Sides /\ o.time_in_force \in TimeInForce
    BY <1>2 DEF Replaces, BookOrder, ReplaceOrderCommand
  <2>4. incoming' \in ExchangeRestingOrder
    BY <1>5, <2>2, <2>3 DEF ExchangeRestingOrder
  <2> QED
    BY <2>4, MarksAssumption DEF Idle
<1>8. orders'[k] = None /\ \A x \in Keys : x # k => orders'[x] = orders[x]
  BY <1>1, <1>5, Parts DEF OrdersOK
<1>9. \A j \in Instruments, x \in Slots :
         books'[j].slab[x] = books[j].slab[x] \/ LiveKey(books[j].slab[x]) \in {k, k2}
  <2>1. remove_at(books[i], h).slab = [books[i].slab EXCEPT ![h] = Free]
    BY DEF remove_at
  <2>2. books \in [Instruments -> BookOf(BookOrder)] /\ books[i].slab \in [Slots -> BookOrder \cup {Free}]
    BY <1>1, Parts DEF BooksOK, BookOf
  <2>3. books'[i].slab = [books[i].slab EXCEPT ![h] = Free] /\ \A j \in Instruments : j # i => books'[j] = books[j]
    BY <1>5, <2>1, <2>2
  <2> QED
    BY <1>4, <2>2, <2>3
<1>10. \A x \in Keys : x \notin {k, k2} => OpenHold(x)' = OpenHold(x)
  <2>1. \A x \in Keys : x \notin {k, k2} => ~InFlight(x) /\ ~InFlight(x)'
    BY <1>1, <1>4, <1>6 DEF InFlight
  <2>2. \A x \in Keys : x \notin {k, k2} => orders'[x] = orders[x]
    BY <1>8
  <2> QED
    BY <1>1, <1>9, <2>1, <2>2, OpenElsewhere
<1> DEFINE new == [instrument_id |-> i, side |-> o.side,
                   limit_price |-> c.new_price, remaining |-> c.new_quantity]
<1>11. OpenHold(k2)' = new
  <2>1. orders'[k2] = None
    BY <1>4, <1>8
  <2>2. InFlight(k2)'
    BY <1>4, <1>6, <1>7 DEF InFlight, Rests
  <2>3. OpenHold(k2)' = HoldFor(incoming', i)
    BY <1>6, <2>1, <2>2 DEF OpenHold, HoldFor
  <2> QED
    BY <1>6, <2>3 DEF HoldFor
<1>12. k2 # k => OpenHold(k)' = None
  <2>1. k2 # k => ~InFlight(k)'
    BY <1>4, <1>6 DEF InFlight
  <2> QED
    BY <1>8, <2>1 DEF OpenHold
<1>13. \A a, j : CashNeeded(a)' = 0 /\ UnitsNeeded(a, j)' = 0
  BY <1>6 DEF CashNeeded, UnitsNeeded
<1>14. Announces(OrderReplaced(c, next_exchange_order_id))
  BY <1>5 DEF Announces, BookOrderRemoved, BookEvents
<1>15. Rebooked(k, k2, new)
  BY <1>1, <1>2, <1>14, ReplaceMovesHold
<1> HIDE DEF new
<1> QED
  BY <1>10, <1>11, <1>12, <1>13, <1>15, RebookedKeeps
-----------------------------------------------------------------------------
(***************************************************************************)
(* A trade moves cash and units from account to account.                   *)
(***************************************************************************)

\* One account's share is rewritten to v.
Rewritten(f, a, v, g) ==
    /\ g \in [Accounts -> Nat] /\ g = [f EXCEPT ![a] = v]
    /\ g[a] = v /\ \A x \in Accounts : x # a => g[x] = f[x]
    /\ Total(f) \in Nat /\ Total(g) \in Nat /\ f[a] <= Total(f)
    /\ Total(g) = Total(f) - f[a] + v

LEMMA Rewrite ==
    ASSUME NEW f \in [Accounts -> Nat], NEW a \in Accounts, NEW v \in Nat
    PROVE  \E g : Rewritten(f, a, v, g)
<1> DEFINE g == [f EXCEPT ![a] = v]
<1>1. g \in [Accounts -> Nat] /\ g[a] = v /\ \A x \in Accounts : x # a => g[x] = f[x]
  OBVIOUS
<1>2. Total(g) = Total(f) - f[a] + v /\ f[a] <= Total(f)
  BY RiskAssumption, TotalUpdate
<1>3. g = [f EXCEPT ![a] = v]
  OBVIOUS
<1> HIDE DEF g
<1>4. Total(f) \in Nat /\ Total(g) \in Nat
  BY <1>1, RiskAssumption, TotalType
<1> QED
  BY <1>1, <1>2, <1>3, <1>4 DEF Rewritten

LEMMA CashTransfer ==
    ASSUME NEW ct \in [Accounts -> Nat], NEW b \in Accounts, NEW s \in Accounts,
           NEW d \in Nat, d <= ct[b],
           NEW ct2, ct2 = Credit(Debit(ct, b, d), s, d)
    PROVE  /\ ct2 \in [Accounts -> Nat] /\ Total(ct2) = Total(ct)
           /\ b = s => ct2 = ct
           /\ b # s => /\ ct2[b] = ct[b] - d /\ ct2[s] = ct[s] + d
                       /\ \A a \in Accounts : a # b /\ a # s => ct2[a] = ct[a]
<1>1. PICK m \in Nat : m = ct[b]
  OBVIOUS
<1>2. PICK v \in Nat : v = m - d
  BY <1>1
<1>3. PICK c1 : Rewritten(ct, b, v, c1)
  BY Rewrite
<1>4. PICK n \in Nat : n = c1[s]
  BY <1>3 DEF Rewritten
<1>5. PICK u \in Nat : u = n + d
  OBVIOUS
<1>6. PICK c2 : Rewritten(c1, s, u, c2)
  BY <1>3, Rewrite DEF Rewritten
<1>7. ct2 = c2 /\ c2 \in [Accounts -> Nat]
  <2>1. c1 = Debit(ct, b, d)
    BY <1>1, <1>2, <1>3 DEF Rewritten, Debit
  <2>2. c2 = Credit(c1, s, d) /\ c2 \in [Accounts -> Nat]
    BY <1>4, <1>5, <1>6 DEF Rewritten, Credit
  <2> QED
    BY <2>1, <2>2
<1>8. Total(c2) = Total(ct)
  BY <1>1, <1>2, <1>3, <1>4, <1>5, <1>6 DEF Rewritten
<1>9. ASSUME b = s PROVE c2 = ct
  <2>1. n = m - d /\ u = m
    BY <1>1, <1>2, <1>3, <1>4, <1>5, <1>9 DEF Rewritten
  <2>2. \A a \in Accounts : c2[a] = ct[a]
    BY <1>1, <1>3, <1>6, <1>9, <2>1 DEF Rewritten
  <2> QED
    BY <1>7, <2>2
<1>10. ASSUME b # s
       PROVE  /\ c2[b] = ct[b] - d /\ c2[s] = ct[s] + d
              /\ \A a \in Accounts : a # b /\ a # s => c2[a] = ct[a]
  BY <1>1, <1>2, <1>3, <1>4, <1>5, <1>6, <1>10 DEF Rewritten
<1> QED
  BY <1>7, <1>8, <1>9, <1>10

\* One column of the table of units.
PositionsIn(pt, i) == [a \in Accounts |-> pt[a][i]]

\* q units of instrument i went from s to b, and nothing else happened.
UnitsMoved(pt, pt2, b, s, i, q) ==
    /\ pt2 \in [Accounts -> [Instruments -> Nat]]
    /\ \A j \in Instruments : Total(PositionsIn(pt2, j)) = Total(PositionsIn(pt, j))
    /\ \A a \in Accounts, j \in Instruments :
          pt2[a][j] = IF j = i /\ b # s /\ a = b THEN pt[a][j] + q
                      ELSE IF j = i /\ b # s /\ a = s THEN pt[a][j] - q
                      ELSE pt[a][j]

LEMMA UnitsTransfer ==
    ASSUME NEW pt \in [Accounts -> [Instruments -> Nat]], NEW b \in Accounts, NEW s \in Accounts,
           NEW i \in Instruments, NEW q \in Nat, q <= pt[s][i],
           Total(PositionsIn(pt, i)) < QuantityModulus
    PROVE  UnitsMoved(pt, OutOf(Into(pt, b, i, q), s, i, q), b, s, i, q)
<1> DEFINE pt2 == OutOf(Into(pt, b, i, q), s, i, q)
<1>1. PICK m \in Nat, n \in Nat : m = pt[b][i] /\ n = pt[s][i] /\ q <= n
  OBVIOUS
<1>2. PICK f \in [Accounts -> Nat] : f = PositionsIn(pt, i)
  BY DEF PositionsIn
<1>3. f[b] = m /\ f[s] = n /\ Total(f) \in Nat /\ Total(f) < QuantityModulus
      /\ m <= Total(f) /\ n <= Total(f)
  <2>1. f[b] = m /\ f[s] = n
    BY <1>1, <1>2 DEF PositionsIn
  <2>2. f[b] <= Total(f) /\ f[s] <= Total(f) /\ Total(f) \in Nat
    BY RiskAssumption, TotalUpdate, TotalType, 0 \in Nat
  <2> QED
    BY <1>2, <2>1, <2>2
<1>4. m < QuantityModulus /\ n < QuantityModulus /\ n - q \in Nat /\ n - q < QuantityModulus
  BY <1>1, <1>3, RiskAssumption
\* What the buyer ends up with fits.
<1>5. ASSUME b # s
      PROVE  /\ m + q < QuantityModulus
             /\ \E f2 \in [Accounts -> Nat] :
                   /\ Total(f2) = Total(f) /\ f2[b] = m + q /\ f2[s] = n - q
                   /\ \A a \in Accounts : a # b /\ a # s => f2[a] = f[a]
  <2>1. PICK v \in Nat, u \in Nat : v = n - q /\ u = m + q
    BY <1>4
  <2>2. PICK f1 : Rewritten(f, s, v, f1)
    BY Rewrite
  <2>3. PICK f2 : Rewritten(f1, b, u, f2)
    BY <2>2, Rewrite DEF Rewritten
  <2>4. f1[b] = m /\ m <= Total(f1) /\ Total(f1) = Total(f) - n + v /\ Total(f1) \in Nat
    BY <1>3, <1>5, <2>2, <2>3 DEF Rewritten
  <2>5. Total(f2) = Total(f1) - m + u
    BY <2>3, <2>4 DEF Rewritten
  <2>6. Total(f2) = Total(f) /\ m + q <= Total(f)
    BY <1>1, <1>3, <2>1, <2>4, <2>5
  <2>7. m + q < QuantityModulus
    BY <1>3, <2>6, RiskAssumption
  <2>8. /\ f2 \in [Accounts -> Nat] /\ f2[b] = m + q /\ f2[s] = n - q
        /\ \A a \in Accounts : a # b /\ a # s => f2[a] = f[a]
    BY <1>5, <2>1, <2>2, <2>3 DEF Rewritten
  <2> QED
    BY <2>6, <2>7, <2>8
<1>6. PICK w \in Nat : w = Plus(m, q)
  <2>1. m + q \in Nat /\ (m + q) % QuantityModulus \in Nat
    BY RiskAssumption
  <2> QED
    BY <2>1 DEF Plus
<1>7. PICK p1 \in [Accounts -> [Instruments -> Nat]] :
         /\ p1 = Into(pt, b, i, q)
         /\ \A a \in Accounts, j \in Instruments :
               p1[a][j] = IF a = b /\ j = i THEN w ELSE pt[a][j]
  <2>1. PICK r : r = [pt EXCEPT ![b] = [pt[b] EXCEPT ![i] = w]]
    OBVIOUS
  <2>2. r = Into(pt, b, i, q)
    BY <1>1, <1>6, <2>1 DEF Into
  <2>3. r \in [Accounts -> [Instruments -> Nat]]
    BY <2>1
  <2>4. \A a \in Accounts, j \in Instruments : r[a][j] = IF a = b /\ j = i THEN w ELSE pt[a][j]
    BY <2>1, CellWritten
  <2> QED
    BY <2>2, <2>3, <2>4
<1>8. PICK u \in Nat : u = p1[s][i]
  OBVIOUS
<1>9. b # s => u = n
  BY <1>1, <1>7, <1>8
<1>10. b = s => u = w /\ m = n
  BY <1>1, <1>7, <1>8
<1>11. Minus(u, q) = IF b = s THEN n ELSE n - q
  <2>1. CASE b = s
    BY <1>1, <1>4, <1>6, <1>10, <2>1, WrapUndone
  <2>2. CASE b # s
    <3>1. Minus(n, q) = n - q
      BY <1>4, NoWrap DEF Minus
    <3> QED
      BY <1>9, <2>2, <3>1
  <2> QED
    BY <2>1, <2>2
<1>12. PICK v \in Nat : v = Minus(u, q) /\ v = (IF b = s THEN n ELSE n - q)
  BY <1>4, <1>11
<1>13. /\ pt2 \in [Accounts -> [Instruments -> Nat]]
       /\ \A a \in Accounts, j \in Instruments :
             pt2[a][j] = IF a = s /\ j = i THEN v ELSE p1[a][j]
  <2>1. pt2 = [p1 EXCEPT ![s] = [p1[s] EXCEPT ![i] = v]]
    BY <1>7, <1>8, <1>12 DEF OutOf
  <2> HIDE DEF pt2
  <2>2. pt2 \in [Accounts -> [Instruments -> Nat]]
    BY <2>1
  <2> QED
    BY <2>1, <2>2, CellWritten
<1> HIDE DEF pt2
<1>14. b # s => w = m + q
  <2>1. b # s => (m + q) % QuantityModulus = m + q
    BY <1>5, NoWrap, m + q \in Nat
  <2> QED
    BY <1>6, <2>1 DEF Plus
<1>15. ASSUME NEW a \in Accounts, NEW j \in Instruments
       PROVE  pt2[a][j] = IF j = i /\ b # s /\ a = b THEN pt[a][j] + q
                          ELSE IF j = i /\ b # s /\ a = s THEN pt[a][j] - q
                          ELSE pt[a][j]
  <2>1. pt2[a][j] = IF a = s /\ j = i THEN v ELSE p1[a][j]
    BY <1>13
  <2>2. p1[a][j] = IF a = b /\ j = i THEN w ELSE pt[a][j]
    BY <1>7
  <2> QED
    BY <1>1, <1>12, <1>14, <2>1, <2>2
<1>16. ASSUME NEW j \in Instruments PROVE Total(PositionsIn(pt2, j)) = Total(PositionsIn(pt, j))
  <2>1. CASE j # i \/ b = s
    <3>1. \A a \in Accounts : pt2[a][j] = pt[a][j]
      BY <1>15, <2>1
    <3>2. PositionsIn(pt2, j) = PositionsIn(pt, j)
      BY <3>1 DEF PositionsIn
    <3> QED
      BY <3>2
  <2>2. CASE j = i /\ b # s
    <3>1. PICK g \in [Accounts -> Nat] :
             /\ Total(g) = Total(f) /\ g[b] = m + q /\ g[s] = n - q
             /\ \A a \in Accounts : a # b /\ a # s => g[a] = f[a]
      BY <1>5, <2>2
    <3>2. \A a \in Accounts : g[a] = pt2[a][i]
      BY <1>1, <1>2, <1>15, <2>2, <3>1 DEF PositionsIn
    <3>3. g = PositionsIn(pt2, i)
      BY <3>2 DEF PositionsIn
    <3> QED
      BY <1>2, <2>2, <3>1, <3>3
  <2> QED
    BY <2>1, <2>2
<1>17. UnitsMoved(pt, pt2, b, s, i, q)
  BY <1>13, <1>15, <1>16 DEF UnitsMoved
<1> QED
  BY <1>17 DEF pt2
-----------------------------------------------------------------------------
(***************************************************************************)
(* A fill.  The order on the book has a hold, the order in flight has one  *)
(* if it may rest; the two keys differ.                                    *)
(***************************************************************************)
Paired(i, h, o, q, ki, ko) ==
    /\ Fills(i, h, o, q)
    /\ ki = LiveKey(incoming) /\ ko = LiveKey(o) /\ ki # ko
    /\ orders[ki] = None
    /\ orders[ko] # None /\ orders[ko].instrument_id = i /\ orders[ko].handle = h
    /\ holds[ko] = HoldFor(o, i)
    /\ holds[ki] = IF incoming.time_in_force = GTC THEN HoldFor(incoming, i) ELSE None
    /\ incoming.side \in Sides /\ incoming.price \in Nat /\ incoming.price \in Prices
    /\ incoming.remaining_quantity \in Nat
    /\ o.side \in Sides /\ o.price \in Nat /\ o.price \in Prices /\ o.remaining_quantity \in Nat
    /\ books[i].slab \in [Slots -> BookOrder \cup {Free}]

LEMMA MatchPairs ==
    ASSUME EngineSafe, FreshReplaceIds, LedgerInv, match_and_rest
    PROVE  \E i \in Instruments, h \in Slots, o \in BookOrder, q \in Nat, ki \in Keys, ko \in Keys :
              Paired(i, h, o, q, ki, ko)
<1>1. EngineInv /\ Positive /\ Covered /\ Entering
  BY DEF EngineSafe
<1>2. PICK i \in Instruments, h \in Slots, o \in BookOrder, q \in Nat : Fills(i, h, o, q)
  BY <1>1, MatchFills
<1>3. /\ ~Idle /\ incoming \in ExchangeRestingOrder /\ i = incoming.instrument_id
      /\ o = books[i].slab[h] /\ o # Free /\ q # 0 /\ q <= incoming.remaining_quantity
  BY <1>2 DEF Fills
<1>4. PICK ki \in Keys, ko \in Keys : ki = LiveKey(incoming) /\ ko = LiveKey(o)
  BY <1>3 DEF LiveKey, Keys, ExchangeRestingOrder, BookOrder
<1>5. orders[ki] = None
  BY <1>1, <1>3, <1>4 DEF Entering
<1>6. orders[ko] # None /\ orders[ko].instrument_id = i /\ orders[ko].handle = h
  BY <1>1, <1>3, <1>4 DEF Covered, EntryOf
<1>7. /\ incoming.side \in Sides /\ incoming.price \in Prices /\ incoming.remaining_quantity \in Nat
      /\ o.side \in Sides /\ o.price \in Prices /\ o.remaining_quantity \in Nat
  BY <1>3 DEF ExchangeRestingOrder, BookOrder
<1>8. incoming.price \in Nat /\ o.price \in Nat
  BY <1>7, PricesAssumption
<1>9. holds[ko] = HoldFor(o, i)
  BY <1>3, <1>6 DEF LedgerInv, OpenHold, at
<1>10. holds[ki] = IF incoming.time_in_force = GTC THEN HoldFor(incoming, i) ELSE None
  <2>1. InFlight(ki) <=> incoming.time_in_force = GTC
    BY <1>3, <1>4, <1>7 DEF InFlight, Rests, LiveKey
  <2> QED
    BY <1>3, <1>5, <2>1 DEF LedgerInv, OpenHold
<1>11. books[i].slab \in [Slots -> BookOrder \cup {Free}]
  BY <1>1, Parts DEF BooksOK, BookOf
<1>12. Paired(i, h, o, q, ki, ko)
  BY <1>2, <1>4, <1>5, <1>6, <1>7, <1>8, <1>9, <1>10, <1>11 DEF Paired
<1> QED
  BY <1>12

\* The holds the two orders ought to have afterwards.
LEMMA FilledHolds ==
    ASSUME EngineInv, NEW i \in Instruments, NEW h \in Slots, NEW o \in BookOrder, NEW q \in Nat,
           NEW ki \in Keys, NEW ko \in Keys, Paired(i, h, o, q, ki, ko)
    PROVE  /\ OpenHold(ko)' = Sliced(holds[ko], q)
           /\ OpenHold(ki)' = Sliced(holds[ki], q)
           /\ \A x \in Keys : x \notin {ki, ko} => OpenHold(x)' = OpenHold(x)
<1>1. /\ ~Idle /\ incoming \in ExchangeRestingOrder /\ i = incoming.instrument_id
      /\ o = books[i].slab[h] /\ o # Free
      /\ q # 0 /\ q <= o.remaining_quantity /\ q <= incoming.remaining_quantity
  BY DEF Paired, Fills
<1>2. incoming' = [incoming EXCEPT !.remaining_quantity = @ - q]
  BY DEF Paired, Fills
<1>3. PICK n \in Nat, m \in Nat : n = incoming.remaining_quantity /\ m = o.remaining_quantity
  BY DEF Paired
<1>4. /\ incoming'.remaining_quantity = n - q /\ incoming'.side = incoming.side
      /\ incoming'.price = incoming.price /\ incoming'.instrument_id = i
      /\ incoming'.time_in_force = incoming.time_in_force
      /\ incoming'.account_id = incoming.account_id
      /\ incoming'.client_order_id = incoming.client_order_id
  BY <1>1, <1>2, <1>3 DEF ExchangeRestingOrder
<1>5. ~Idle'
  <2>1. n - q \in Nat
    BY <1>1, <1>3
  <2>2. incoming' \in ExchangeRestingOrder
    BY <1>1, <1>2, <1>3, <2>1 DEF ExchangeRestingOrder
  <2> QED
    BY <2>2, MarksAssumption DEF Idle
<1>6. PICK v : v = IF m - q = 0 THEN Free ELSE [o EXCEPT !.remaining_quantity = m - q]
  OBVIOUS
<1>7. /\ \A j \in Instruments : j # i => books'[j] = books[j]
      /\ books'[i].slab = [books[i].slab EXCEPT ![h] = v]
      /\ orders' = IF m - q = 0 THEN [orders EXCEPT ![ko] = None] ELSE orders
  BY <1>3, <1>6 DEF Paired, Fills
<1>8. /\ books'[i].slab[h] = v
      /\ \A x \in Slots : x # h => books'[i].slab[x] = books[i].slab[x]
  BY <1>7 DEF Paired
<1>9. /\ \A x \in Keys : x # ko => orders'[x] = orders[x]
      /\ orders'[ko] = IF m - q = 0 THEN None ELSE orders[ko]
  BY <1>7, Parts DEF OrdersOK
<1>10. /\ ki = <<incoming.account_id, incoming.client_order_id>> /\ ki # ko /\ orders[ki] = None
       /\ orders[ko] # None /\ orders[ko].instrument_id = i /\ orders[ko].handle = h
       /\ ko = LiveKey(o)
  BY DEF Paired, LiveKey
<1>11. \A x \in Keys : x # ki => ~InFlight(x) /\ ~InFlight(x)'
  BY <1>4, <1>10 DEF InFlight
<1>12. \A x \in Keys : x \notin {ki, ko} => OpenHold(x)' = OpenHold(x)
  <2>1. \A j \in Instruments, x \in Slots :
           books'[j].slab[x] = books[j].slab[x] \/ LiveKey(books[j].slab[x]) \in {ki, ko}
    BY <1>1, <1>7, <1>8, <1>10
  <2>2. \A x \in Keys : x \notin {ki, ko} => orders'[x] = orders[x] /\ ~InFlight(x) /\ ~InFlight(x)'
    BY <1>9, <1>11
  <2> QED
    BY <2>1, <2>2, OpenElsewhere
<1>13. OpenHold(ko)' = Sliced(holds[ko], q)
  <2>1. PICK hold \in Hold : /\ hold = HoldFor(o, i) /\ hold = holds[ko] /\ hold # None
                             /\ hold.remaining = m
    BY <1>3, HoldForType DEF Paired
  <2>2. CASE m - q = 0
    <3>1. OpenHold(ko)' = None
      BY <1>9, <1>10, <1>11, <2>2 DEF OpenHold
    <3>2. m = q
      BY <2>2
    <3> QED
      BY <2>1, <3>1, <3>2 DEF Sliced
  <2>3. CASE m - q # 0
    <3>1. OpenHold(ko)' = HoldFor(v, i)
      BY <1>8, <1>9, <1>10, <2>3 DEF OpenHold, at, HoldFor
    <3>2. v.side = o.side /\ v.price = o.price /\ v.remaining_quantity = m - q
      BY <1>6, <2>3 DEF BookOrder
    <3>3. hold = [instrument_id |-> i, side |-> o.side, limit_price |-> o.price, remaining |-> m]
      BY <1>3, <2>1 DEF HoldFor
    <3>4. HoldFor(v, i) = [hold EXCEPT !.remaining = @ - q]
      BY <3>2, <3>3 DEF HoldFor
    <3>5. Sliced(hold, q) = [hold EXCEPT !.remaining = @ - q]
      BY <2>1, <2>3 DEF Sliced
    <3> QED
      BY <2>1, <3>1, <3>4, <3>5
  <2> QED
    BY <2>2, <2>3
<1>14. OpenHold(ki)' = Sliced(holds[ki], q)
  <2>1. orders'[ki] = None
    BY <1>9, <1>10
  <2>2. InFlight(ki)' <=> incoming.time_in_force = GTC /\ n - q # 0
    BY <1>4, <1>5, <1>10 DEF InFlight, Rests
  <2>3. CASE incoming.time_in_force # GTC
    BY <2>1, <2>2, <2>3 DEF OpenHold, Sliced, Paired
  <2>4. CASE incoming.time_in_force = GTC
    <3>1. PICK hold \in Hold : /\ hold = HoldFor(incoming, i) /\ hold = holds[ki] /\ hold # None
                               /\ hold.remaining = n
      BY <1>3, <2>4, HoldForType DEF Paired
    <3>2. CASE n - q = 0
      <4>1. n = q
        BY <3>2
      <4> QED
        BY <2>1, <2>2, <3>1, <3>2, <4>1 DEF OpenHold, Sliced
    <3>3. CASE n - q # 0
      <4>1. OpenHold(ki)' = HoldFor(incoming', i)
        BY <1>4, <2>1, <2>2, <2>4, <3>3 DEF OpenHold, HoldFor
      <4>2. hold = [instrument_id |-> i, side |-> incoming.side, limit_price |-> incoming.price,
                    remaining |-> n]
        BY <1>3, <3>1 DEF HoldFor
      <4>3. HoldFor(incoming', i) = [hold EXCEPT !.remaining = @ - q]
        BY <1>4, <4>2 DEF HoldFor
      <4>4. Sliced(hold, q) = [hold EXCEPT !.remaining = @ - q]
        BY <3>1, <3>3 DEF Sliced
      <4> QED
        BY <3>1, <4>1, <4>3, <4>4
    <3> QED
      BY <3>2, <3>3
  <2> QED
    BY <2>3, <2>4
<1> QED
  BY <1>12, <1>13, <1>14
\* Which order buys and which sells.
Legs(o, kb, ks) ==
    IF incoming.side = "Buy" THEN kb = LiveKey(incoming) /\ ks = LiveKey(o)
                             ELSE kb = LiveKey(o) /\ ks = LiveKey(incoming)

\* What a fill takes was set aside for it: by the hold, or by the check of an order that
\* reserves nothing.  An order never pays more than its own limit.
LEMMA FillAffords ==
    ASSUME EngineInv, NEW i \in Instruments, NEW h \in Slots, NEW o \in BookOrder, NEW q \in Nat,
           NEW ki \in Keys, NEW ko \in Keys, Paired(i, h, o, q, ki, ko),
           NEW kb \in Keys, NEW ks \in Keys, Legs(o, kb, ks),
           NEW x \in Nat, x = IF holds[kb] = None THEN 0 ELSE q * holds[kb].limit_price,
           NEW y \in Nat, y = IF holds[ks] = None THEN 0 ELSE q
    PROVE  /\ \A a : a # kb[1] => CashNeeded(a)' = CashNeeded(a)
           /\ CashNeeded(kb[1])' + q * o.price <= x + CashNeeded(kb[1])
           /\ \A a, j : ~(a = ks[1] /\ j = i) => UnitsNeeded(a, j)' = UnitsNeeded(a, j)
           /\ UnitsNeeded(ks[1], i)' + q <= y + UnitsNeeded(ks[1], i)
           /\ \A a, j : CashNeeded(a)' \in Nat /\ UnitsNeeded(a, j)' \in Nat
<1>1. /\ ~Idle /\ incoming \in ExchangeRestingOrder /\ i = incoming.instrument_id
      /\ q <= incoming.remaining_quantity /\ Crosses(o.side, o.price, incoming.price)
      /\ o.side = contra(incoming.side)
      /\ incoming' = [incoming EXCEPT !.remaining_quantity = @ - q]
  BY DEF Paired, Fills
<1>2. PICK n \in Nat, p \in Nat, r \in Nat :
         n = incoming.remaining_quantity /\ p = incoming.price /\ r = o.price
  BY DEF Paired
<1>3. PICK t \in Nat : t = n - q
  BY <1>1, <1>2
<1>4. /\ incoming'.remaining_quantity = t /\ incoming'.side = incoming.side
      /\ incoming'.price = p /\ incoming'.instrument_id = i
      /\ incoming'.time_in_force = incoming.time_in_force
      /\ incoming'.account_id = incoming.account_id
  BY <1>1, <1>2, <1>3 DEF ExchangeRestingOrder
<1>5. ~Idle'
  <2>1. incoming' \in ExchangeRestingOrder
    BY <1>1, <1>2, <1>3 DEF ExchangeRestingOrder
  <2> QED
    BY <2>1, MarksAssumption DEF Idle
<1>6. /\ n * p \in Nat /\ q * p \in Nat /\ t * p = n * p - q * p /\ q * r \in Nat
      /\ (r <= p => q * r <= q * p)
  <2>1. q <= n
    BY <1>1, <1>2
  <2>2. n * p \in Nat /\ q * p \in Nat /\ (n - q) * p = n * p - q * p
    BY <2>1, Products
  <2>3. q * r \in Nat /\ (r <= p => q * r <= q * p)
    BY Products
  <2> QED
    BY <1>3, <2>2, <2>3
<1>7. PICK np \in Nat, qp \in Nat, tp \in Nat, qr \in Nat :
         /\ np = n * p /\ qp = q * p /\ tp = t * p /\ qr = q * r
         /\ tp = np - qp /\ (r <= p => qr <= qp)
  <2>1. t * p \in Nat
    OBVIOUS
  <2> QED
    BY <1>6, <2>1
<1> DEFINE gtc == incoming.time_in_force = GTC
           own == incoming.account_id
<1>8. \A a : /\ CashNeeded(a) = IF a = own /\ incoming.side = "Buy" /\ ~gtc THEN np ELSE 0
             /\ CashNeeded(a)' = IF a = own /\ incoming.side = "Buy" /\ ~gtc THEN tp ELSE 0
  BY <1>1, <1>2, <1>4, <1>5, <1>7 DEF CashNeeded
<1>9. \A a, j : /\ UnitsNeeded(a, j) = IF a = own /\ j = i /\ incoming.side = "Sell" /\ ~gtc THEN n ELSE 0
                /\ UnitsNeeded(a, j)' = IF a = own /\ j = i /\ incoming.side = "Sell" /\ ~gtc THEN t ELSE 0
  BY <1>1, <1>2, <1>4, <1>5 DEF UnitsNeeded
<1>10. /\ holds[ko] # None /\ holds[ko].limit_price = r
       /\ gtc => holds[ki] # None /\ holds[ki].limit_price = p
       /\ ~gtc => holds[ki] = None
  BY <1>2, HoldForType DEF Paired
<1>11. ki = LiveKey(incoming) /\ ko = LiveKey(o) /\ ki[1] = own
  BY DEF Paired, LiveKey
<1>12. \A a, j : CashNeeded(a)' \in Nat /\ UnitsNeeded(a, j)' \in Nat
  BY <1>8, <1>9
<1>13. CASE incoming.side = "Buy"
  <2>1. kb = ki /\ ks = ko
    BY <1>11, <1>13 DEF Legs
  <2>2. r <= p
    BY <1>1, <1>2, <1>13 DEF Crosses, contra
  <2>3. x = (IF gtc THEN qp ELSE 0) /\ y = q
    BY <1>7, <1>10, <2>1
  <2>4. CashNeeded(kb[1])' + qr <= x + CashNeeded(kb[1])
    BY <1>7, <1>8, <1>11, <1>13, <2>1, <2>2, <2>3
  <2> QED
    BY <1>2, <1>7, <1>8, <1>9, <1>11, <1>12, <1>13, <2>1, <2>3, <2>4
<1>14. CASE incoming.side # "Buy"
  <2>1. kb = ko /\ ks = ki /\ incoming.side = "Sell"
    BY <1>11, <1>14 DEF Legs, Paired, Sides
  <2>2. x = qr /\ y = IF gtc THEN q ELSE 0
    BY <1>7, <1>10, <2>1
  <2>3. CashNeeded(kb[1])' + qr <= x + CashNeeded(kb[1])
    BY <1>7, <1>8, <1>14, <2>2
  <2>4. UnitsNeeded(ks[1], i)' + q <= y + UnitsNeeded(ks[1], i)
    BY <1>3, <1>9, <1>11, <2>1, <2>2
  <2> QED
    BY <1>2, <1>7, <1>8, <1>9, <1>11, <1>12, <1>14, <2>1, <2>3, <2>4
<1> QED
  BY <1>13, <1>14

\* The trade that is announced names the two holds.
LEMMA FillCovers ==
    ASSUME NEW i \in Instruments, NEW h \in Slots, NEW o \in BookOrder, NEW q \in Nat,
           NEW ki \in Keys, NEW ko \in Keys, Paired(i, h, o, q, ki, ko),
           NEW kb \in Keys, NEW ks \in Keys, Legs(o, kb, ks)
    PROVE  \E e : /\ Announces(e) /\ e.type = "TradeExecuted" /\ e.instrument_id = i
                  /\ e.quantity = q /\ e.price = o.price
                  /\ Covers(holds, e.buyer, kb, "Buy", i, q)
                  /\ Covers(holds, e.seller, ks, "Sell", i, q)
<1>1. PICK e : e = TradeExecuted(incoming, o, q)
  OBVIOUS
<1>2. PICK a, r : /\ a = TradeCounterparty(incoming, incoming.remaining_quantity - q)
                  /\ r = TradeCounterparty(o, o.remaining_quantity - q)
  OBVIOUS
<1>3. /\ e.type = "TradeExecuted" /\ e.instrument_id = incoming.instrument_id
      /\ e.quantity = q /\ e.price = o.price
      /\ e.buyer  = (IF incoming.side = "Buy" THEN a ELSE r)
      /\ e.seller = (IF incoming.side = "Buy" THEN r ELSE a)
  BY <1>1, <1>2 DEF TradeExecuted
<1>4. Announces(e) /\ i = incoming.instrument_id
  BY <1>1 DEF Paired, Fills, Announces, BookEvents
<1>5. /\ ki = <<a.account_id, a.client_order_id>> /\ ko = <<r.account_id, r.client_order_id>>
      /\ a.remaining_quantity = incoming.remaining_quantity - q
      /\ r.remaining_quantity = o.remaining_quantity - q
  BY <1>2 DEF TradeCounterparty, Paired, LiveKey
<1>6. q <= o.remaining_quantity /\ q <= incoming.remaining_quantity /\ o.side = contra(incoming.side)
      /\ incoming.side \in Sides
  BY DEF Paired, Fills
<1>7. /\ holds[ko].side = o.side /\ holds[ko].instrument_id = i
      /\ holds[ko].remaining = o.remaining_quantity
  BY DEF Paired, HoldFor
<1>8. holds[ki] # None => /\ holds[ki].side = incoming.side /\ holds[ki].instrument_id = i
                          /\ holds[ki].remaining = incoming.remaining_quantity
  BY DEF Paired, HoldFor
<1>9. ki = LiveKey(incoming) /\ ko = LiveKey(o)
  BY DEF Paired
<1>10. Covers(holds, r, ko, o.side, i, q)
  BY <1>5, <1>6, <1>7 DEF Covers
<1>11. Covers(holds, a, ki, incoming.side, i, q)
  BY <1>5, <1>6, <1>8 DEF Covers
<1>12. CASE incoming.side = "Buy"
  BY <1>3, <1>4, <1>6, <1>9, <1>10, <1>11, <1>12 DEF Legs, contra
<1>13. CASE incoming.side = "Sell"
  BY <1>3, <1>4, <1>6, <1>9, <1>10, <1>11, <1>13 DEF Legs, contra
<1> QED
  BY <1>6, <1>12, <1>13 DEF Sides
LEMMA MatchKeepsLedger ==
    ASSUME EngineSafe, FreshReplaceIds, LedgerInv, match_and_rest, LedgerFollows
    PROVE  LedgerInv' /\ Conserved
<1>1. EngineInv
  BY DEF EngineSafe
<1>2. PICK i \in Instruments, h \in Slots, o \in BookOrder, q \in Nat, ki \in Keys, ko \in Keys :
         Paired(i, h, o, q, ki, ko)
  BY MatchPairs
<1>3. PICK kb \in Keys, ks \in Keys :
         Legs(o, kb, ks) /\ kb # ks /\ {kb, ks} = {ki, ko}
  BY <1>2 DEF Legs, Paired
<1>4. PICK e : /\ Announces(e) /\ e.type = "TradeExecuted" /\ e.instrument_id = i
               /\ e.quantity = q /\ e.price = o.price
               /\ Covers(holds, e.buyer, kb, "Buy", i, q)
               /\ Covers(holds, e.seller, ks, "Sell", i, q)
  BY <1>2, <1>3, FillCovers
<1>5. Reserves(cash_reserved, position_reserved, holds) /\ Counted(position_reserved)
  BY <1>1, UnitsCounted DEF LedgerInv
<1>6. PICK p \in Nat, b \in Accounts, s \in Accounts : p = o.price /\ b = kb[1] /\ s = ks[1]
  BY <1>2, KeyFacts DEF Paired
<1> DEFINE l == Balances(cash_total, cash_reserved, position_total, position_reserved, holds)
<1>7. PICK x, y, cr2, pr2 :
         /\ FreesCash(cash_reserved, holds, kb, q, x, cr2)
         /\ FreesUnits(position_reserved, holds, ks, i, q, y, pr2)
         /\ on_trade_executed(l, e)
              = Balances(Credit(Debit(cash_total, kb[1], q * p), ks[1], q * p), cr2,
                         OutOf(Into(position_total, kb[1], i, q), ks[1], i, q), pr2,
                         Slice(Slice(holds, kb, q), ks, q))
         /\ Reserves(cr2, pr2, Slice(Slice(holds, kb, q), ks, q))
  <2>1. i = e.instrument_id /\ q = e.quantity /\ p = e.price
    BY <1>4, <1>6
  <2> QED
    BY <1>3, <1>4, <1>5, <2>1, Trading
<1>8. PICK ct2, pt2, d : /\ ct2 = Credit(Debit(cash_total, b, d), s, d) /\ d = q * p
                         /\ pt2 = OutOf(Into(position_total, b, i, q), s, i, q)
  OBVIOUS
<1>9. PICK h2 : h2 = Slice(Slice(holds, kb, q), ks, q)
  OBVIOUS
<1>10. /\ cash_total' = ct2 /\ cash_reserved' = cr2 /\ position_total' = pt2
       /\ position_reserved' = pr2 /\ holds' = h2
  <2>1. on_trade_executed(l, e) = Balances(ct2, cr2, pt2, pr2, h2)
    BY <1>6, <1>7, <1>8, <1>9
  <2>2. apply(l, e) = on_trade_executed(l, e)
    <3> HIDE DEF l
    <3> QED
      BY <1>4 DEF apply
  <2> QED
    BY <1>4, <2>1, <2>2, Followed
<1>11. /\ h2[kb] = Sliced(holds[kb], q) /\ h2[ks] = Sliced(holds[ks], q)
       /\ \A k \in Keys : k \notin {kb, ks} => h2[k] = holds[k]
  BY <1>3, <1>5, <1>9 DEF Slice, Reserves
<1>12. \A k \in Keys : holds'[k] = OpenHold(k)'
  <2>1. /\ OpenHold(ko)' = Sliced(holds[ko], q) /\ OpenHold(ki)' = Sliced(holds[ki], q)
        /\ \A k \in Keys : k \notin {ki, ko} => OpenHold(k)' = OpenHold(k)
    BY <1>1, <1>2, FilledHolds
  <2>2. \A k \in Keys : holds[k] = OpenHold(k)
    BY DEF LedgerInv
  <2> QED
    BY <1>3, <1>10, <1>11, <2>1, <2>2
<1>13. /\ x \in Nat /\ x = IF holds[kb] = None THEN 0 ELSE q * holds[kb].limit_price
       /\ x <= cash_reserved[b]
       /\ \A a \in Accounts : cr2[a] = IF a = b THEN cash_reserved[a] - x ELSE cash_reserved[a]
  BY <1>6, <1>7 DEF FreesCash
<1>14. /\ y \in Nat /\ y = IF holds[ks] = None THEN 0 ELSE q
       /\ y <= position_reserved[s][i]
       /\ \A a \in Accounts, j \in Instruments :
             pr2[a][j] = IF a = s /\ j = i THEN position_reserved[a][j] - y ELSE position_reserved[a][j]
  BY <1>6, <1>7 DEF FreesUnits
<1>15. /\ \A a : a # b => CashNeeded(a)' = CashNeeded(a)
       /\ CashNeeded(b)' + d <= x + CashNeeded(b)
       /\ \A a, j : ~(a = s /\ j = i) => UnitsNeeded(a, j)' = UnitsNeeded(a, j)
       /\ UnitsNeeded(s, i)' + q <= y + UnitsNeeded(s, i)
  <2>1. /\ \A a : a # kb[1] => CashNeeded(a)' = CashNeeded(a)
        /\ CashNeeded(kb[1])' + q * o.price <= x + CashNeeded(kb[1])
        /\ \A a, j : ~(a = ks[1] /\ j = i) => UnitsNeeded(a, j)' = UnitsNeeded(a, j)
        /\ UnitsNeeded(ks[1], i)' + q <= y + UnitsNeeded(ks[1], i)
    BY <1>1, <1>2, <1>3, <1>13, <1>14, FillAffords
  <2> QED
    BY <1>6, <1>8, <2>1
<1>16. \A a, j : CashNeeded(a) \in Nat /\ UnitsNeeded(a, j) \in Nat
  BY <1>1, NeedTypes
<1>17. \A a, j : CashNeeded(a)' \in Nat /\ UnitsNeeded(a, j)' \in Nat
  BY <1>1, <1>2, <1>3, <1>13, <1>14, FillAffords
<1>18. \A a \in Accounts, j \in Instruments :
          /\ cash_reserved[a] \in Nat /\ cash_total[a] \in Nat
          /\ cash_reserved[a] + CashNeeded(a) <= cash_total[a]
          /\ position_reserved[a][j] \in Nat /\ position_total[a][j] \in Nat
          /\ position_reserved[a][j] + UnitsNeeded(a, j) <= position_total[a][j]
  BY DEF LedgerInv, Reserves, Solvent
<1>19. d \in Nat /\ d <= cash_total[b]
  <2>1. d \in Nat
    BY <1>8
  <2>2. PICK u \in Nat, v \in Nat, w \in Nat, t \in Nat :
           u = CashNeeded(b) /\ v = CashNeeded(b)' /\ w = cash_reserved[b] /\ t = cash_total[b]
    BY <1>16, <1>17, <1>18
  <2>3. v + d <= x + u /\ x <= w /\ w + u <= t /\ x \in Nat
    BY <1>13, <1>15, <1>18, <2>2
  <2> QED
    BY <2>1, <2>2, <2>3
<1>20. q <= position_total[s][i]
  <2>1. PICK u \in Nat, v \in Nat, w \in Nat, t \in Nat :
           /\ u = UnitsNeeded(s, i) /\ v = UnitsNeeded(s, i)'
           /\ w = position_reserved[s][i] /\ t = position_total[s][i]
    BY <1>16, <1>17, <1>18
  <2>2. v + q <= y + u /\ y <= w /\ w + u <= t /\ y \in Nat
    BY <1>14, <1>15, <1>18, <2>1
  <2> QED
    BY <2>1, <2>2
<1>21. /\ ct2 \in [Accounts -> Nat] /\ Total(ct2) = Total(cash_total)
       /\ b = s => ct2 = cash_total
       /\ b # s => /\ ct2[b] = cash_total[b] - d /\ ct2[s] = cash_total[s] + d
                   /\ \A a \in Accounts : a # b /\ a # s => ct2[a] = cash_total[a]
  <2>1. cash_total \in [Accounts -> Nat]
    BY DEF LedgerInv
  <2>2. ct2 = Credit(Debit(cash_total, b, d), s, d)
    BY <1>8
  <2> QED
    BY <1>19, <2>1, <2>2, CashTransfer
<1>22. /\ pt2 \in [Accounts -> [Instruments -> Nat]]
       /\ \A j \in Instruments : Total(PositionsIn(pt2, j)) = Total(PositionsIn(position_total, j))
       /\ \A a \in Accounts, j \in Instruments :
             pt2[a][j] = IF j = i /\ b # s /\ a = b THEN position_total[a][j] + q
                         ELSE IF j = i /\ b # s /\ a = s THEN position_total[a][j] - q
                         ELSE position_total[a][j]
  <2>1. position_total \in [Accounts -> [Instruments -> Nat]]
    BY DEF LedgerInv
  <2>2. Total(PositionsIn(position_total, i)) < QuantityModulus
    BY DEF LedgerInv, Countable, Column, PositionsIn
  <2>3. UnitsMoved(position_total, OutOf(Into(position_total, b, i, q), s, i, q), b, s, i, q)
    BY <1>20, <2>1, <2>2, UnitsTransfer
  <2> QED
    BY <1>8, <2>3 DEF UnitsMoved
<1>23. Conserved
  <2>1. \A j : Column(j)' = PositionsIn(pt2, j) /\ Column(j) = PositionsIn(position_total, j)
    BY <1>10 DEF Column, PositionsIn
  <2> QED
    BY <1>10, <1>21, <1>22, <2>1 DEF Conserved
<1>24. Countable'
  BY <1>23 DEF LedgerInv, Countable, Conserved
<1>25. ASSUME NEW a \in Accounts PROVE cr2[a] + CashNeeded(a)' <= ct2[a]
  <2>1. PICK u \in Nat, v \in Nat, w \in Nat, t \in Nat :
           u = CashNeeded(a) /\ v = CashNeeded(a)' /\ w = cash_reserved[a] /\ t = cash_total[a]
    BY <1>16, <1>17, <1>18
  <2>2. w + u <= t /\ x \in Nat /\ d \in Nat
    BY <1>13, <1>18, <1>19, <2>1
  <2>3. CASE a = b
    <3>1. v + d <= x + u /\ x <= w /\ cr2[a] = w - x
      BY <1>13, <1>15, <2>1, <2>3
    <3>2. ct2[a] = t \/ ct2[a] = t - d
      BY <1>21, <2>1, <2>3
    <3> QED
      BY <2>1, <2>2, <3>1, <3>2
  <2>4. CASE a # b
    <3>1. v = u /\ cr2[a] = w
      BY <1>13, <1>15, <2>1, <2>4
    <3>2. ct2[a] = t \/ ct2[a] = t + d
      BY <1>21, <2>1, <2>4
    <3> QED
      BY <2>1, <2>2, <3>1, <3>2
  <2> QED
    BY <2>3, <2>4
<1>26. ASSUME NEW a \in Accounts, NEW j \in Instruments PROVE pr2[a][j] + UnitsNeeded(a, j)' <= pt2[a][j]
  <2>1. PICK u \in Nat, v \in Nat, w \in Nat, t \in Nat :
           /\ u = UnitsNeeded(a, j) /\ v = UnitsNeeded(a, j)'
           /\ w = position_reserved[a][j] /\ t = position_total[a][j]
    BY <1>16, <1>17, <1>18
  <2>2. w + u <= t /\ y \in Nat
    BY <1>14, <1>18, <2>1
  <2>3. CASE a = s /\ j = i
    <3>1. v + q <= y + u /\ y <= w /\ pr2[a][j] = w - y
      BY <1>14, <1>15, <2>1, <2>3
    <3>2. pt2[a][j] = t \/ pt2[a][j] = t - q
      BY <1>22, <2>1, <2>3
    <3> QED
      BY <2>1, <2>2, <3>1, <3>2
  <2>4. CASE ~(a = s /\ j = i)
    <3>1. v = u /\ pr2[a][j] = w
      BY <1>14, <1>15, <2>1, <2>4
    <3>2. pt2[a][j] = t \/ pt2[a][j] = t + q
      BY <1>22, <2>1, <2>4
    <3> QED
      BY <2>1, <2>2, <3>1, <3>2
  <2> QED
    BY <2>3, <2>4
<1>27. Solvent'
  BY <1>10, <1>25, <1>26 DEF Solvent
<1>28. Reserves(cash_reserved', position_reserved', holds')
  BY <1>7, <1>9, <1>10
<1>29. LedgerInv'
  BY <1>10, <1>12, <1>21, <1>22, <1>24, <1>27, <1>28 DEF LedgerInv
<1> QED
  BY <1>23, <1>29
-----------------------------------------------------------------------------
(***************************************************************************)
(* The theorems.                                                           *)
(***************************************************************************)
LEMMA LedgerInit == RiskInit => EngineSafe /\ LedgerInv
<1> SUFFICES ASSUME RiskInit PROVE EngineSafe /\ LedgerInv
  OBVIOUS
<1>1. Init /\ Idle
  BY DEF RiskInit, Init, Idle
<1>2. EngineInv
  BY <1>1, InitInv
<1>3. EngineSafe
  <2>1. \A i \in Instruments, h \in Slots : books[i].slab[h] = Free
    BY <1>1 DEF Init, EmptyBook
  <2>2. Positive /\ Lasting /\ Covered /\ Entering
    BY <1>1, <2>1 DEF Init, Positive, Lasting, Covered, Entering
  <2>3. \A i \in Instruments, s \in Sides, p \in Prices : books[i].queue[s][p] = << >>
    BY <1>1 DEF Init, EmptyBook
  <2>4. Aged
    BY <1>1, <2>1, <2>3 DEF Aged, InOrder
  <2> QED
    BY <1>2, <2>2, <2>4 DEF EngineSafe
<1>4. cash_total \in [Accounts -> Nat] /\ position_total \in [Accounts -> [Instruments -> Nat]]
  BY RiskAssumption DEF RiskInit
<1>5. \A k \in Keys : holds[k] = None /\ OpenHold(k) = None
  BY <1>1 DEF RiskInit, Init, OpenHold, InFlight
<1>6. Reserves(cash_reserved, position_reserved, holds)
  <2>1. \A a, i : /\ CashHeld(holds, a) = [k \in Keys |-> 0]
                  /\ UnitsHeld(holds, a, i) = [k \in Keys |-> 0]
    BY <1>5 DEF CashHeld, UnitsHeld, CashOf, UnitsOf
  <2>2. Total([k \in Keys |-> 0]) = 0
    BY KeysFinite, TotalNone
  <2> QED
    BY <2>1, <2>2 DEF RiskInit, Reserves
<1>7. Solvent
  <2>1. \A a, i : CashNeeded(a) = 0 /\ UnitsNeeded(a, i) = 0
    BY <1>1, IdleNeedsNothing
  <2> QED
    BY <1>4, <2>1 DEF RiskInit, Solvent
<1>8. Countable
  <2>1. \A i \in Instruments : Column(i) \in [Accounts -> SeedPosition]
    BY DEF RiskInit, Column
  <2> QED
    BY <2>1, SeedAssumption DEF Countable
<1> QED
  BY <1>3, <1>4, <1>5, <1>6, <1>7, <1>8 DEF LedgerInv

LEMMA RejectKeepsLedger ==
    ASSUME EngineInv, LedgerInv, NEW a, NEW id, NEW i, NEW reason, Reject(a, id, i, reason),
           LedgerFollows \/ UNCHANGED ledgerVars
    PROVE  LedgerInv' /\ Conserved
<1>1. UNCHANGED ledgerVars
  BY Untouched DEF Reject, OrderRejected
<1>2. UNCHANGED <<books, orders, incoming>>
  BY DEF Reject
<1> QED
  BY <1>1, <1>2, QuietLedger

LEMMA LedgerStep ==
    ASSUME EngineSafe, FreshReplaceIds, LedgerInv, [RiskNext]_riskVars
    PROVE  LedgerInv' /\ Conserved
<1>1. EngineInv
  BY DEF EngineSafe
<1>2. CASE UNCHANGED riskVars
  <2>1. UNCHANGED ledgerVars /\ UNCHANGED <<books, orders, incoming>>
    BY <1>2 DEF riskVars, engineVars
  <2> QED
    BY <1>1, <2>1, QuietLedger
<1>3. ASSUME NEW c \in NewOrderCommand, NewOrder(c) PROVE LedgerInv' /\ Conserved
  <2>1. CASE RefuseNewOrder(c)
    BY <1>1, <2>1, RejectKeepsLedger DEF RefuseNewOrder, reject_new_order
  <2>2. CASE RejectNewOrder(c) /\ LedgerFollows
    BY <1>1, <2>2, RejectKeepsLedger DEF RejectNewOrder, reject_new_order
  <2>3. CASE GateNewOrder(c) = "None" /\ AcceptNewOrder(c) /\ LedgerFollows
    BY <2>3, AcceptKeepsLedger
  <2> QED
    BY <1>3, <2>1, <2>2, <2>3 DEF NewOrder, process_new_order
<1>4. ASSUME NEW c \in CancelOrderCommand, Cancel(c) PROVE LedgerInv' /\ Conserved
  <2>1. CASE RejectCancel(c) /\ LedgerFollows
    BY <1>1, <2>1, RejectKeepsLedger DEF RejectCancel
  <2>2. CASE CancelResting(c) /\ LedgerFollows
    BY <2>2, CancelKeepsLedger
  <2> QED
    BY <1>4, <2>1, <2>2 DEF Cancel, process_cancel
<1>5. ASSUME NEW c \in ReplaceOrderCommand, ClientMaySend(c), Replace(c) PROVE LedgerInv' /\ Conserved
  <2>1. CASE RefuseReplace(c)
    BY <1>1, <2>1, RejectKeepsLedger DEF RefuseReplace, reject_replace_order
  <2>2. CASE RejectReplace(c) /\ LedgerFollows
    BY <1>1, <2>2, RejectKeepsLedger DEF RejectReplace, reject_replace_order
  <2>3. CASE GateReplace(c) = "None" /\ ReplaceInPlace(c) /\ LedgerFollows
    BY <1>5, <2>3, ReplaceInPlaceKeepsLedger
  <2>4. CASE GateReplace(c) = "None" /\ ReplaceAsNew(c) /\ LedgerFollows
    BY <1>5, <2>4, ReplaceAsNewKeepsLedger
  <2> QED
    BY <1>5, <2>1, <2>2, <2>3, <2>4 DEF Replace, process_replace
<1>6. CASE Match
  BY <1>6, MatchKeepsLedger DEF Match
<1>7. CASE Finish
  <2>1. CASE DiscardRemainder /\ LedgerFollows
    BY <2>1, DiscardKeepsLedger
  <2>2. ASSUME NEW h \in Slots, RestRemainder(h), LedgerFollows PROVE LedgerInv' /\ Conserved
    BY <2>2, RestKeepsLedger
  <2> QED
    BY <1>7, <2>1, <2>2 DEF Finish, rest_remainder_if_applicable
<1> QED
  BY <1>2, <1>3, <1>4, <1>5, <1>6, <1>7 DEF RiskNext

\* The engine behind the gate keeps what it promises, and so does the ledger as long as
\* clients replace only onto ids that are not live.
LEMMA LedgerInvariance == RiskSpec => [](EngineSafe /\ (FreshReplaceIds => LedgerInv))
<1> DEFINE Inv == EngineSafe /\ (FreshReplaceIds => LedgerInv)
<1>1. RiskInit => Inv
  BY LedgerInit
<1>2. Inv /\ [RiskNext]_riskVars => Inv'
  BY EngineStaysSafe, LedgerStep
<1>3. Inv => EngineSafe /\ (FreshReplaceIds => LedgerInv)
  OBVIOUS
<1> HIDE DEF Inv
<1> QED
  BY <1>1, <1>2, <1>3, PTL DEF RiskSpec

\* The ledger mirrors the book (ledger.cpp, on_order_accepted to settle_leg): as long as
\* clients replace only onto ids that are not live, there is a hold exactly for every order
\* that rests or is about to, for the quantity still open and at its own limit, and the
\* reservations of every account are the sum of its holds.
THEOREM LedgerExact == RiskSpec => [](FreshReplaceIds => LedgerMirrorsBook)
<1>1. EngineSafe /\ (FreshReplaceIds => LedgerInv) => (FreshReplaceIds => LedgerMirrorsBook)
  <2> SUFFICES ASSUME LedgerInv PROVE LedgerMirrorsBook
    OBVIOUS
  <2>1. HoldsMatchOrders
    BY DEF LedgerInv, OpenHold, HoldsMatchOrders
  <2>2. ReservedMatchesHolds
    BY ReservesMeans DEF LedgerInv
  <2> QED
    BY <2>1, <2>2 DEF LedgerMirrorsBook
<1> QED
  BY <1>1, LedgerInvariance, PTL

\* No account owes cash or units, nor reserves more than it owns (risk_engine.cpp, check();
\* ledger.hpp, available_position()): the check made when a command arrives covers every
\* fill it leads to, so the unsigned subtraction never wraps.
THEOREM NobodyOverdrawn == RiskSpec => [](FreshReplaceIds => Solvency)
<1>1. EngineSafe /\ (FreshReplaceIds => LedgerInv) => (FreshReplaceIds => Solvency)
  <2> SUFFICES ASSUME EngineInv, LedgerInv, NEW a \in Accounts
               PROVE  /\ 0 <= cash_reserved[a] /\ cash_reserved[a] <= cash_total[a]
                      /\ \A i \in Instruments : position_reserved[a][i] <= position_total[a][i]
    BY DEF EngineSafe, Solvency
  <2>1. PICK m \in Nat, n \in Nat, u \in Nat :
           m = cash_reserved[a] /\ n = cash_total[a] /\ u = CashNeeded(a)
    BY NeedTypes DEF LedgerInv, Reserves
  <2>2. m + u <= n
    BY <2>1 DEF LedgerInv, Solvent
  <2>3. 0 <= cash_reserved[a] /\ cash_reserved[a] <= cash_total[a]
    BY <2>1, <2>2
  <2> QED
    BY <2>3, AvailableUnits
<1> QED
  BY <1>1, LedgerInvariance, PTL

\* Trading makes and destroys neither cash nor units (ledger.cpp, settle_leg()): the two
\* legs of a trade balance, a self-trade and the wrapping of Quantity included.
THEOREM TradingConserves ==
    ASSUME FreshReplaceIds
    PROVE  RiskSpec => Conservation
<1> DEFINE Same == /\ TotalCash' = TotalCash
                   /\ \A i \in Instruments : TotalPosition(i)' = TotalPosition(i)
<1>1. EngineSafe /\ (FreshReplaceIds => LedgerInv) /\ [RiskNext]_riskVars => [Same]_riskVars
  <2> SUFFICES ASSUME EngineSafe, LedgerInv, [RiskNext]_riskVars PROVE Same
    OBVIOUS
  <2>1. Conserved
    BY LedgerStep
  <2> QED
    BY <2>1 DEF Conserved, Column, TotalCash, TotalPosition
<1> HIDE DEF Same
<1>2. RiskSpec => [][Same]_riskVars
  BY <1>1, LedgerInvariance, PTL DEF RiskSpec
<1> QED
  BY <1>2 DEF Same, Conservation
=============================================================================
