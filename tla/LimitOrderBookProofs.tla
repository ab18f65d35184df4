------------------------ MODULE LimitOrderBookProofs ------------------------
(***************************************************************************)
(* Proofs about LimitOrderBook for any prices, quantities, capacity and    *)
(* number of orders, on machines that do loads early too: the index names  *)
(* only what rests, the book is never crossed, and what is published is    *)
(* the best of the book.                                                   *)
(***************************************************************************)
EXTENDS LimitOrderBook, SequenceTheorems, WellFoundedInduction, TLAPS

-----------------------------------------------------------------------------
(***************************************************************************)
(* The inductive invariant.                                                *)
(***************************************************************************)
Order == [id : Ids, quantity : Nat \ {0}]

\* The list q holds an order of this id; it holds at most one.
HasId(q, i) == \E k \in 1 .. Len(q) : q[k].id = i
Once(q, i) == \A j, k \in 1 .. Len(q) : q[j].id = i /\ q[k].id = i => j = k

Typing ==
    /\ levels \in [Sides -> [Price -> Seq(Order)]]
    /\ orderIndex \in [Ids -> (Sides \X Price) \cup {None}]
    /\ queue \in Seq(Command) /\ free \in Seq(Command)
    /\ Len(queue) + Len(free) = Capacity
    /\ nextId \in 0 .. MaxOrders
    /\ r_pc \in {"new", "check", "pop", "tail", "off", "advance", "match", "rest", "cancel",
                 "publish_ask", "publish_bid"}
    /\ r_pc = "tail" => r_early \in Command
    /\ r_pc \in {"advance", "match", "rest", "cancel"} => r_command \in Command
    /\ r_pc \in {"match", "rest"} => orderQuantity \in Nat /\ filled \in Nat

\* An entry names a place where the order rests.  An id that was never put to rest
\* while it rested rests once, and there.
Indexed ==
    \A i \in Ids, s \in Sides, p \in Price :
        /\ orderIndex[i] = <<s, p>> => HasId(levels[s][p], i)
        /\ i \notin doubled =>
              /\ HasId(levels[s][p], i) => orderIndex[i] = <<s, p>>
              /\ Once(levels[s][p], i)

\* The command run() has in hand, which need not be one that was pushed.
InHand ==
    /\ r_pc = "advance" => queue # << >>
    /\ r_pc = "match" => filled + orderQuantity = r_command.quantity
    /\ r_pc = "rest" => filled >= r_command.quantity \/ ~Crossing

Uncrossed == \A b \in LevelsOf("Buy"), a \in LevelsOf("Sell") : b < a

\* What is published, until the book changes again.
Published ==
    /\ r_pc \in {"new", "check", "pop", "tail", "off", "advance", "publish_bid"} =>
          publishedBestAsk = Best("Sell")
    /\ r_pc \in {"new", "check", "pop", "tail", "off", "advance"} =>
          publishedBestBid = Best("Buy")

BookInv == Typing /\ Indexed /\ InHand /\ Uncrossed /\ Published

-----------------------------------------------------------------------------
(***************************************************************************)
(* Prices                                                                  *)
(***************************************************************************)

\* A non-empty set of natural numbers has a least element ...
LEMMA Least ==
    ASSUME NEW T \in SUBSET Nat, T # {}
    PROVE  \E x \in T : \A y \in T : x <= y
<1> DEFINE R == OpToRel(<, Nat)
<1>1. PICK x \in T : \A y \in T : ~(<<y, x>> \in R)
  BY NatLessThanWellFounded, WFMin, Zenon
<1>2. \A u, v \in Nat : <<v, u>> \in R <=> v < u
  BY DEF OpToRel
<1> HIDE DEF R
<1>3. ASSUME NEW y \in T PROVE x <= y
  <2>1. x \in Nat /\ y \in Nat /\ ~(y < x)
    BY <1>1, <1>2
  <2> QED
    BY <2>1
<1> QED
  BY <1>3

\* ... and, if it is bounded, a greatest one.
LEMMA Greatest ==
    ASSUME NEW T \in SUBSET Nat, T # {}, NEW m \in Nat, \A x \in T : x <= m
    PROVE  \E x \in T : \A y \in T : y <= x
<1> DEFINE U == {m - x : x \in T}
<1>1. U \in SUBSET Nat
  <2>1. \A x \in T : m - x \in Nat
    OBVIOUS
  <2> QED
    BY <2>1
<1>2. U # {}
  OBVIOUS
<1>3. PICK u \in U : \A v \in U : u <= v
  BY <1>1, <1>2, Least
<1>4. PICK x \in T : u = m - x
  OBVIOUS
<1>5. ASSUME NEW y \in T PROVE y <= x
  <2>1. u <= m - y
    BY <1>3
  <2> QED
    BY <1>4, <2>1
<1> QED
  BY <1>5

LEMMA PricesAreNumbers == Price \in SUBSET Nat
<1>1. Prices \in SUBSET Nat
  BY LimitOrderBookAssumption
<1> QED
  BY <1>1 DEF Price

\* The levels of a side are prices, and Best is one of them that none is better than.
LEMMA BestFacts ==
    ASSUME NEW s \in Sides
    PROVE  /\ LevelsOf(s) \subseteq Nat /\ LevelsOf(s) \subseteq Price
           /\ LevelsOf(s) = {} => Best(s) = 0
           /\ LevelsOf(s) # {} =>
                 /\ Best(s) \in LevelsOf(s)
                 /\ \A q \in LevelsOf(s) : IF s = "Sell" THEN Best(s) <= q ELSE Best(s) >= q
<1> USE LimitOrderBookAssumption
<1>1. LevelsOf(s) \subseteq Nat /\ LevelsOf(s) \subseteq Price
  BY PricesAreNumbers DEF LevelsOf
<1>2. LevelsOf(s) = {} => Best(s) = 0
  BY DEF Best
<1>3. ASSUME LevelsOf(s) # {}
      PROVE  \E p \in LevelsOf(s) : \A q \in LevelsOf(s) : IF s = "Sell" THEN p <= q ELSE p >= q
  <2>1. CASE s = "Sell"
    BY <1>1, <1>3, <2>1, Least
  <2>2. CASE s = "Buy"
    <3>1. PICK max \in Nat : \A p \in LevelsOf(s) : p <= max
      BY <1>1 DEF Price
    <3>2. PICK p \in LevelsOf(s) : \A q \in LevelsOf(s) : q <= p
      BY <1>1, <1>3, <3>1, Greatest
    <3>3. \A q \in LevelsOf(s) : p >= q
      BY <1>1, <3>2
    <3> QED
      BY <2>2, <3>3
  <2> QED
    BY <2>1, <2>2 DEF Sides
<1> QED
  BY <1>1, <1>2, <1>3 DEF Best

\* A book that does not change keeps its levels and its best prices.
LEMMA SameBook ==
    ASSUME levels' = levels
    PROVE  /\ \A s \in Sides : LevelsOf(s)' = LevelsOf(s) /\ Best(s)' = Best(s)
           /\ Uncrossed' <=> Uncrossed
           /\ r_command' = r_command => (Crossing' <=> Crossing)
<1>1. \A s \in Sides : LevelsOf(s)' = LevelsOf(s)
  BY DEF LevelsOf
<1>2. ASSUME NEW s \in Sides PROVE Best(s)' = Best(s)
  BY DEF Best, LevelsOf
<1>3. Uncrossed' <=> Uncrossed
  BY <1>1 DEF Uncrossed, Sides
<1>4. r_command' = r_command => (Crossing' <=> Crossing)
  <2> SUFFICES ASSUME r_command' = r_command PROVE Crossing' <=> Crossing
    OBVIOUS
  <2>1. Contra' = Contra /\ Contra \in Sides
    BY DEF Contra, Sides
  <2>2. LevelsOf(Contra)' = LevelsOf(Contra) /\ Best(Contra)' = Best(Contra)
    BY <2>1 DEF LevelsOf, Best
  <2> QED
    BY <2>1, <2>2 DEF Crossing
<1> QED
  BY <1>1, <1>2, <1>3, <1>4

\* The parts of a command.
LEMMA CommandFacts ==
    ASSUME NEW c \in Command
    PROVE  c.id \in Ids /\ c.id \in Nat /\ c.side \in Sides /\ c.quantity \in Nat /\ c.price \in Price
<1>1. Ids \subseteq Nat
  BY LimitOrderBookAssumption DEF Ids
<1>2. Quantities \cup {0} \subseteq Nat
  BY LimitOrderBookAssumption
<1>3. /\ c.id \in Ids /\ c.side \in Sides /\ c.quantity \in Quantities \cup {0}
      /\ c.price \in Price
  BY DEF Command
<1> QED
  BY <1>1, <1>2, <1>3

-----------------------------------------------------------------------------
(***************************************************************************)
(* The lists of orders.                                                    *)
(***************************************************************************)

\* An order at the end.
LEMMA AppendIds ==
    ASSUME NEW q \in Seq(Order), NEW o \in Order
    PROVE  /\ Append(q, o) \in Seq(Order) /\ Append(q, o) # << >>
           /\ \A i : HasId(Append(q, o), i) <=> HasId(q, i) \/ i = o.id
           /\ \A i : Once(q, i) /\ (i = o.id => ~HasId(q, i)) => Once(Append(q, o), i)
<1> DEFINE r == Append(q, o)
<1>1. /\ r \in Seq(Order) /\ Len(r) = Len(q) + 1 /\ r[Len(q) + 1] = o
      /\ \A k \in 1 .. Len(q) : r[k] = q[k]
  OBVIOUS
<1>2. Len(q) \in Nat
  OBVIOUS
<1> HIDE DEF r
<1>3. ASSUME NEW i, Once(q, i), i = o.id => ~HasId(q, i) PROVE Once(r, i)
  BY <1>1, <1>2, <1>3 DEF Once, HasId
<1>4. ASSUME NEW i PROVE HasId(r, i) <=> HasId(q, i) \/ i = o.id
  <2>1. HasId(r, i) => HasId(q, i) \/ i = o.id
    BY <1>1, <1>2 DEF HasId
  <2>2. HasId(q, i) => HasId(r, i)
    BY <1>1, <1>2 DEF HasId
  <2>3. i = o.id => HasId(r, i)
    BY <1>1, <1>2 DEF HasId
  <2> QED
    BY <2>1, <2>2, <2>3
<1>5. r # << >>
  BY <1>1, <1>2
<1> QED
  BY <1>1, <1>3, <1>4, <1>5 DEF r

\* The list r is q without one order of this id.
Lacks(r, q, c) ==
    \A i : /\ HasId(r, i) => HasId(q, i)
           /\ HasId(q, i) /\ i # c => HasId(r, i)
           /\ Once(q, i) => Once(r, i)
           /\ Once(q, i) /\ i = c => ~HasId(r, i)

\* One order less, the p-th.
LEMMA OneLess ==
    ASSUME NEW q \in Seq(Order), NEW p \in 1 .. Len(q),
           NEW r \in Seq(Order), Len(r) = Len(q) - 1,
           \A j \in 1 .. Len(q) - 1 : r[j] = IF j < p THEN q[j] ELSE q[j + 1]
    PROVE  Lacks(r, q, q[p].id)
<1> DEFINE n == Len(q)
           x(j) == IF j < p THEN j ELSE j + 1
<1>1. n \in Nat /\ n >= 1 /\ Len(r) = n - 1
  OBVIOUS
<1> HIDE DEF n
<1>2. \A j \in 1 .. n - 1 : x(j) \in 1 .. n /\ r[j] = q[x(j)] /\ x(j) # p
  BY <1>1 DEF n
<1>3. \A j, k \in 1 .. n - 1 : x(j) = x(k) => j = k
  BY <1>1 DEF n
<1> HIDE DEF x
<1>4. ASSUME NEW i, HasId(r, i)
      PROVE  \E k \in 1 .. n : q[k].id = i /\ k # p
  <2>1. PICK j \in 1 .. n - 1 : r[j].id = i
    BY <1>1, <1>4 DEF HasId
  <2> QED
    BY <1>2, <2>1
<1>5. ASSUME NEW i, HasId(q, i), i # q[p].id PROVE HasId(r, i)
  <2>1. PICK k \in 1 .. n : q[k].id = i
    BY <1>5 DEF HasId, n
  <2>2. CASE k < p
    <3>1. k \in 1 .. n - 1 /\ r[k].id = i
      BY <1>1, <2>1, <2>2 DEF n
    <3> QED
      BY <1>1, <3>1 DEF HasId
  <2>3. CASE k > p
    <3>1. k - 1 \in 1 .. n - 1 /\ r[k - 1] = q[k]
      BY <1>1, <2>1, <2>3 DEF n
    <3> QED
      BY <1>1, <2>1, <3>1 DEF HasId
  <2>4. k # p
    BY <1>5, <2>1
  <2> QED
    BY <2>1, <2>2, <2>3, <2>4
<1>6. ASSUME NEW i, Once(q, i) PROVE Once(r, i)
  <2> SUFFICES ASSUME NEW j \in 1 .. n - 1, NEW k \in 1 .. n - 1, r[j].id = i, r[k].id = i
               PROVE  j = k
    BY <1>1 DEF Once
  <2>1. x(j) \in 1 .. n /\ x(k) \in 1 .. n /\ q[x(j)].id = i /\ q[x(k)].id = i
    BY <1>2
  <2>2. x(j) = x(k)
    BY <1>6, <2>1 DEF Once, n
  <2> QED
    BY <1>3, <2>2
<1>7. ASSUME NEW i, Once(q, i), i = q[p].id, HasId(r, i) PROVE FALSE
  <2>1. PICK k \in 1 .. n : q[k].id = i /\ k # p
    BY <1>4, <1>7
  <2> QED
    BY <1>7, <2>1 DEF Once, n
<1>8. \A i : HasId(r, i) => HasId(q, i)
  BY <1>4 DEF HasId, n
<1> QED
  BY <1>5, <1>6, <1>7, <1>8 DEF Lacks

\* pop() takes the first one ...
LEMMA TailIds ==
    ASSUME NEW q \in Seq(Order), q # << >>
    PROVE  Tail(q) \in Seq(Order) /\ Lacks(Tail(q), q, q[1].id)
<1>1. 1 \in 1 .. Len(q) /\ Len(q) \in Nat
  OBVIOUS
<1>2. /\ Tail(q) \in Seq(Order) /\ Len(Tail(q)) = Len(q) - 1
      /\ \A j \in 1 .. Len(q) - 1 : Tail(q)[j] = q[j + 1]
  OBVIOUS
<1>3. \A j \in 1 .. Len(q) - 1 : ~(j < 1)
  BY <1>1
<1> QED
  BY <1>1, <1>2, <1>3, OneLess

\* ... cancel() the last one of an id ...
LEMMA WithoutIds ==
    ASSUME NEW q \in Seq(Order), NEW c, HasId(q, c)
    PROVE  Without(q, c) \in Seq(Order) /\ Lacks(Without(q, c), q, c)
<1> DEFINE places == {k \in 1 .. Len(q) : q[k].id = c}
           p == CHOOSE k \in places : \A j \in places : j <= k
<1>1. p \in 1 .. Len(q) /\ q[p].id = c /\ places # {}
  <2>1. places # {} /\ places \in SUBSET Nat /\ \A k \in places : k <= Len(q)
    BY DEF HasId
  <2>2. Len(q) \in Nat
    OBVIOUS
  <2> HIDE DEF places
  <2>3. \E k \in places : \A j \in places : j <= k
    BY <2>1, <2>2, Greatest
  <2>4. p \in places
    BY <2>3
  <2> QED
    BY <2>1, <2>4 DEF places
<1>2. Without(q, c) = RemoveAt(q, p)
  BY <1>1 DEF Without
<1> HIDE DEF places, p
<1>3. PICK n \in Nat : n = Len(q) /\ n >= 1
  BY <1>1
<1> DEFINE a == SubSeq(q, 1, p - 1)
           b == SubSeq(q, p + 1, n)
<1>4. a \in Seq(Order) /\ Len(a) = p - 1 /\ \A j \in 1 .. p - 1 : a[j] = q[j]
  <2>1. PICK m \in Nat : m = p - 1
    BY <1>1
  <2>2. \A j \in 1 .. m : q[j] \in Order
    BY <1>1, <2>1
  <2>3. /\ SubSeq(q, 1, m) \in Seq(Order)
        /\ Len(SubSeq(q, 1, m)) = IF 1 <= m THEN m - 1 + 1 ELSE 0
        /\ \A j \in 1 .. m - 1 + 1 : SubSeq(q, 1, m)[j] = q[1 + j - 1]
    BY <2>1, <2>2, SubSeqProperties
  <2>4. m - 1 + 1 = m /\ \A j \in 1 .. m : 1 + j - 1 = j
    BY <2>1
  <2> QED
    BY <2>1, <2>3, <2>4
<1>5. b \in Seq(Order) /\ Len(b) = n - p /\ \A j \in 1 .. n - p : b[j] = q[p + j]
  <2>1. PICK m \in Nat : m = p + 1
    BY <1>1
  <2>2. \A j \in m .. n : q[j] \in Order
    BY <1>1, <1>3, <2>1
  <2>3. /\ SubSeq(q, m, n) \in Seq(Order)
        /\ Len(SubSeq(q, m, n)) = IF m <= n THEN n - m + 1 ELSE 0
        /\ \A j \in 1 .. n - m + 1 : SubSeq(q, m, n)[j] = q[m + j - 1]
    BY <1>3, <2>1, <2>2, SubSeqProperties
  <2>4. n - m + 1 = n - p /\ n - p >= 0 /\ \A j \in 1 .. n - p : m + j - 1 = p + j
    BY <1>1, <1>3, <2>1
  <2>5. Len(SubSeq(q, m, n)) = n - p
    BY <1>1, <1>3, <2>1, <2>3
  <2> QED
    BY <2>1, <2>3, <2>4, <2>5
<1> HIDE DEF a, b
<1>6. a \o b \in Seq(Order) /\ Len(a \o b) = n - 1
  BY <1>1, <1>3, <1>4, <1>5
<1>7. ASSUME NEW j \in 1 .. n - 1 PROVE (a \o b)[j] = IF j < p THEN q[j] ELSE q[j + 1]
  <2>1. CASE j < p
    BY <1>1, <1>3, <1>4, <1>5, <2>1
  <2>2. CASE ~(j < p)
    <3>1. (a \o b)[j] = b[j - (p - 1)]
      BY <1>1, <1>3, <1>4, <1>5, <2>2
    <3>2. j - (p - 1) \in 1 .. n - p /\ p + (j - (p - 1)) = j + 1
      BY <1>1, <1>3, <2>2
    <3> QED
      BY <1>5, <2>2, <3>1, <3>2
  <2> QED
    BY <2>1, <2>2
<1>8. PICK r \in Seq(Order) : r = a \o b
  BY <1>6
<1>9. Without(q, c) = r
  BY <1>2, <1>3, <1>8 DEF RemoveAt, a, b
<1>10. Len(r) = Len(q) - 1 /\ \A j \in 1 .. Len(q) - 1 : r[j] = IF j < p THEN q[j] ELSE q[j + 1]
  BY <1>3, <1>6, <1>7, <1>8
<1>11. Lacks(r, q, q[p].id)
  BY <1>1, <1>10, OneLess
<1> QED
  BY <1>1, <1>9, <1>11

\* ... and modifyFrontQuantity() leaves the ids alone.
LEMMA FrontIds ==
    ASSUME NEW q \in Seq(Order), q # << >>, NEW o \in Order, o.id = q[1].id
    PROVE  /\ <<o>> \o Tail(q) \in Seq(Order) /\ <<o>> \o Tail(q) # << >>
           /\ \A i : HasId(<<o>> \o Tail(q), i) <=> HasId(q, i)
           /\ \A i : Once(<<o>> \o Tail(q), i) <=> Once(q, i)
<1> DEFINE r == <<o>> \o Tail(q)
<1>1. Len(q) \in Nat /\ Len(q) >= 1
  OBVIOUS
<1>2. /\ Tail(q) \in Seq(Order) /\ Len(Tail(q)) = Len(q) - 1
      /\ \A j \in 1 .. Len(q) - 1 : Tail(q)[j] = q[j + 1]
  OBVIOUS
<1>3. /\ r \in Seq(Order) /\ Len(r) = Len(q) /\ r[1] = o
      /\ \A j \in 2 .. Len(q) : r[j] = Tail(q)[j - 1]
  BY <1>1, <1>2
<1> HIDE DEF r
<1>4. ASSUME NEW j \in 1 .. Len(q) PROVE r[j].id = q[j].id
  <2>1. CASE j = 1
    BY <1>3, <2>1
  <2>2. CASE j \in 2 .. Len(q)
    <3>1. j - 1 \in 1 .. Len(q) - 1 /\ j - 1 + 1 = j
      BY <1>1, <2>2
    <3> QED
      BY <1>2, <1>3, <2>2, <3>1
  <2> QED
    BY <1>1, <2>1, <2>2
<1>5. \A i : (HasId(r, i) <=> HasId(q, i)) /\ (Once(r, i) <=> Once(q, i))
  BY <1>3, <1>4 DEF Once, HasId
<1>6. r # << >>
  BY <1>1, <1>3
<1> QED
  BY <1>3, <1>5, <1>6 DEF r

-----------------------------------------------------------------------------
(***************************************************************************)
(* One level of the book changes.                                          *)
(***************************************************************************)
LEMMA OneLevel ==
    ASSUME Typing, NEW s \in Sides, NEW p \in Price, NEW r \in Seq(Order),
           levels' = [levels EXCEPT ![s][p] = r]
    PROVE  /\ levels' \in [Sides -> [Price -> Seq(Order)]]
           /\ \A t \in Sides, q \in Price :
                 levels'[t][q] = IF t = s /\ q = p THEN r ELSE levels[t][q]
           /\ \A t \in Sides : t # s => LevelsOf(t)' = LevelsOf(t)
           /\ LevelsOf(s)' = IF r = << >> THEN LevelsOf(s) \ {p} ELSE LevelsOf(s) \cup {p}
<1>1. levels \in [Sides -> [Price -> Seq(Order)]]
  BY DEF Typing
<1>2. /\ levels' \in [Sides -> [Price -> Seq(Order)]]
      /\ \A t \in Sides, q \in Price :
            levels'[t][q] = IF t = s /\ q = p THEN r ELSE levels[t][q]
  BY <1>1
<1>3. ASSUME NEW t \in Sides, t # s PROVE LevelsOf(t)' = LevelsOf(t)
  BY <1>2, <1>3 DEF LevelsOf
<1>4. LevelsOf(s)' = IF r = << >> THEN LevelsOf(s) \ {p} ELSE LevelsOf(s) \cup {p}
  BY <1>2 DEF LevelsOf
<1> QED
  BY <1>2, <1>3, <1>4

\* An order leaves its level, and its entry the index.
LEMMA OneGone ==
    ASSUME Typing, Indexed, NEW s \in Sides, NEW p \in Price, NEW r \in Seq(Order), NEW c \in Ids,
           HasId(levels[s][p], c), Lacks(r, levels[s][p], c),
           levels' = [levels EXCEPT ![s][p] = r],
           orderIndex' = [orderIndex EXCEPT ![c] = None],
           doubled' = doubled
    PROVE  Indexed' /\ orderIndex' \in [Ids -> (Sides \X Price) \cup {None}]
<1>1. \A t \in Sides, q \in Price :
          levels'[t][q] = IF t = s /\ q = p THEN r ELSE levels[t][q]
  BY OneLevel
<1>2. /\ orderIndex' \in [Ids -> (Sides \X Price) \cup {None}]
      /\ \A i \in Ids : orderIndex'[i] = IF i = c THEN None ELSE orderIndex[i]
  BY DEF Typing
<1>3. c \notin doubled => orderIndex[c] = <<s, p>> /\ Once(levels[s][p], c)
  BY DEF Indexed
<1>4. ASSUME NEW i \in Ids, NEW t \in Sides, NEW q \in Price
      PROVE  /\ orderIndex'[i] = <<t, q>> => HasId(levels'[t][q], i)
             /\ i \notin doubled =>
                   /\ HasId(levels'[t][q], i) => orderIndex'[i] = <<t, q>>
                   /\ Once(levels'[t][q], i)
  <2>1. /\ orderIndex[i] = <<t, q>> => HasId(levels[t][q], i)
        /\ i \notin doubled =>
              /\ HasId(levels[t][q], i) => orderIndex[i] = <<t, q>>
              /\ Once(levels[t][q], i)
    BY DEF Indexed
  <2>2. None # <<t, q>>
    BY LimitOrderBookAssumption DEF Sides, Price
  <2>3. CASE t = s /\ q = p
    <3>1. levels'[t][q] = r /\ levels[s][p] = levels[t][q]
      BY <1>1, <2>3
    <3>2. /\ HasId(r, i) => HasId(levels[t][q], i)
          /\ HasId(levels[t][q], i) /\ i # c => HasId(r, i)
          /\ Once(levels[t][q], i) => Once(r, i)
          /\ Once(levels[t][q], i) /\ i = c => ~HasId(r, i)
      BY <3>1 DEF Lacks
    <3> QED
      BY <1>2, <2>1, <2>2, <3>1, <3>2
  <2>4. CASE ~(t = s /\ q = p)
    <3>1. levels'[t][q] = levels[t][q]
      BY <1>1, <2>4
    <3>2. i = c /\ i \notin doubled => orderIndex[i] # <<t, q>>
      BY <1>3, <2>4
    <3> QED
      BY <1>2, <2>1, <2>2, <3>1, <3>2
  <2> QED
    BY <2>3, <2>4
<1> QED
  BY <1>2, <1>4 DEF Indexed

\* Fewer levels are not crossed either.
LEMMA FewerLevels ==
    ASSUME Uncrossed, \A s \in Sides : LevelsOf(s)' \subseteq LevelsOf(s)
    PROVE  Uncrossed'
  BY DEF Uncrossed, Sides

\* What crossing means.
LEMMA CrossingFacts ==
    ASSUME r_command \in Command
    PROVE  /\ Contra \in Sides
           /\ Crossing => Best(Contra) \in LevelsOf(Contra) /\ Best(Contra) \in Price
                          /\ levels[Contra][Best(Contra)] # << >>
           /\ ~Crossing => \A q \in LevelsOf(Contra) :
                  IF Contra = "Sell" THEN r_command.price < q ELSE q < r_command.price
<1>1. Contra \in Sides
  BY DEF Contra, Sides
<1>2. Crossing => Best(Contra) \in LevelsOf(Contra)
  BY <1>1, BestFacts DEF Crossing
<1>3. \A p \in LevelsOf(Contra) : p \in Price /\ levels[Contra][p] # << >>
  BY DEF LevelsOf
<1>4. ASSUME ~Crossing, NEW q \in LevelsOf(Contra)
      PROVE  IF Contra = "Sell" THEN r_command.price < q ELSE q < r_command.price
  <2>1. /\ Best(Contra) \in Nat /\ q \in Nat
        /\ IF Contra = "Sell" THEN Best(Contra) <= q ELSE Best(Contra) >= q
    BY <1>1, BestFacts
  <2>2. r_command.price \in Nat
    BY CommandFacts, PricesAreNumbers
  <2>3. IF Contra = "Sell" THEN ~(Best(Contra) <= r_command.price)
                           ELSE ~(Best(Contra) >= r_command.price)
    BY <1>4 DEF Crossing
  <2>4. CASE Contra = "Sell"
    BY <2>1, <2>2, <2>3, <2>4
  <2>5. CASE Contra # "Sell"
    BY <2>1, <2>2, <2>3, <2>5
  <2> QED
    BY <2>4, <2>5
<1> QED
  BY <1>1, <1>2, <1>3, <1>4

-----------------------------------------------------------------------------
(***************************************************************************)
(* Steps that leave the book alone.                                        *)
(***************************************************************************)
LEMMA InitBookInv == Init => BookInv
<1> SUFFICES ASSUME Init PROVE BookInv
  OBVIOUS
<1> USE LimitOrderBookAssumption DEF Init
<1>1. queue = << >> /\ Len(queue) = 0 /\ r_pc = "new"
  OBVIOUS
<1>2. Typing
  <2>1. << >> \in Seq(Order) /\ << >> \in Seq(Command)
    OBVIOUS
  <2>2. nextId \in 0 .. MaxOrders
    OBVIOUS
  <2>3. Blank \in Command
    BY DEF Blank, Command, Sides, Ids, Price
  <2>4. free \in Seq(Command) /\ Len(free) = Capacity
    BY <2>3
  <2> QED
    BY <1>1, <2>1, <2>2, <2>4 DEF Typing
<1>3. Indexed
  <2>1. \A s \in Sides, p \in Price : levels[s][p] = << >> /\ None # <<s, p>>
    BY DEF Sides, Price
  <2> QED
    BY <2>1 DEF Indexed, HasId, Once
<1>4. InHand
  BY <1>1 DEF InHand
<1>5. \A s \in Sides : LevelsOf(s) = {}
  BY DEF LevelsOf
<1>6. Uncrossed
  BY <1>5 DEF Uncrossed, Sides
<1>7. Published
  BY <1>5, BestFacts DEF Published, Sides
<1> QED
  BY <1>2, <1>3, <1>4, <1>6, <1>7 DEF BookInv

\* The index and the levels stay as they are.
LEMMA Quiet ==
    ASSUME BookInv, UNCHANGED bookVars
    PROVE  /\ levels' \in [Sides -> [Price -> Seq(Order)]]
           /\ orderIndex' \in [Ids -> (Sides \X Price) \cup {None}]
           /\ Indexed' /\ Uncrossed'
           /\ \A s \in Sides : Best(s)' = Best(s)
           /\ r_command' = r_command => (Crossing' <=> Crossing)
  BY SameBook DEF BookInv, Typing, bookVars, Indexed

\* submit() and cancel(): a command is queued, or the queue is full.
LEMMA QueueGrows ==
    ASSUME BookInv, NEW c \in Command, push(c) \/ UNCHANGED queueVars,
           UNCHANGED <<bookVars, r_pc, r_command, r_early, matchVars, publishedVars>>,
           nextId' \in 0 .. MaxOrders
    PROVE  BookInv'
<1> USE DEF BookInv
<1>1. /\ queue \in Seq(Command) /\ free \in Seq(Command)
      /\ Len(queue) + Len(free) = Capacity
  BY DEF Typing
<1>2. \/ queue' = queue /\ free' = free
      \/ queue' = Append(queue, c) /\ free' = Tail(free) /\ Len(queue) # Capacity
  BY DEF push, queueVars
<1>3. /\ queue' \in Seq(Command) /\ free' \in Seq(Command)
      /\ Len(queue') + Len(free') = Capacity
      /\ queue # << >> => queue' # << >>
  <2>1. CASE queue' = queue /\ free' = free
    BY <1>1, <2>1
  <2>2. CASE queue' = Append(queue, c) /\ free' = Tail(free) /\ Len(queue) # Capacity
    <3>1. free # << >>
      BY <1>1, <2>2
    <3>2. /\ Tail(free) \in Seq(Command) /\ Len(Tail(free)) = Len(free) - 1
          /\ Len(free) \in Nat /\ Len(queue) \in Nat
      BY <1>1, <3>1
    <3>3. Append(queue, c) \in Seq(Command) /\ Len(Append(queue, c)) = Len(queue) + 1
      BY <1>1
    <3>4. Append(queue, c) # << >>
      BY <3>2, <3>3
    <3> QED
      BY <1>1, <2>2, <3>2, <3>3, <3>4
  <2> QED
    BY <1>2, <2>1, <2>2
<1>4. Typing'
  BY <1>3, Quiet DEF Typing, matchVars
<1>5. Indexed' /\ Uncrossed' /\ Published'
  BY Quiet DEF Published, publishedVars, Sides
<1>6. InHand'
  BY <1>3, Quiet DEF InHand, matchVars
<1> QED
  BY <1>4, <1>5, <1>6

LEMMA ProducerSteps ==
    ASSUME BookInv,
           \/ \E p \in Prices \cup {0}, q \in Quantities \cup {0}, s \in Sides : submit(p, q, s)
           \/ \E i \in Ids : cancel(i)
    PROVE  BookInv'
<1>1. nextId \in Nat /\ MaxOrders \in Nat /\ nextId <= MaxOrders
  BY LimitOrderBookAssumption DEF BookInv, Typing
<1>2. ASSUME NEW i \in Ids, cancel(i) PROVE BookInv'
  <2>1. CancelCommand(i) \in Command
    BY DEF CancelCommand, Command, Sides, Price
  <2>2. nextId' \in 0 .. MaxOrders
    BY <1>1, <1>2 DEF cancel
  <2> QED
    BY <1>2, <2>1, <2>2, QueueGrows DEF cancel
<1>3. ASSUME NEW p \in Prices \cup {0}, NEW q \in Quantities \cup {0}, NEW s \in Sides, submit(p, q, s)
      PROVE  BookInv'
  <2> DEFINE c == [type |-> "Add", id |-> nextId, side |-> s, price |-> p, quantity |-> q]
  <2>1. /\ nextId' = nextId + 1 /\ nextId < MaxOrders
        /\ UNCHANGED <<bookVars, r_pc, r_command, r_early, matchVars, publishedVars>>
    BY <1>3 DEF submit
  <2>2. nextId' \in 0 .. MaxOrders /\ nextId \in Ids
    BY <1>1, <2>1 DEF Ids
  <2>3. c \in Command
    BY <2>2 DEF Command, Price
  <2>4. push(c) \/ UNCHANGED queueVars
    BY <1>3 DEF submit
  <2> HIDE DEF c
  <2> QED
    BY <2>1, <2>2, <2>3, <2>4, QueueGrows
<1> QED
  BY <1>2, <1>3

\* What pop() copies is a command, whichever words are old.
LEMMA CopiesAreCommands ==
    ASSUME NEW early \in Command, NEW late \in Command
    PROVE  Copies(early, late) \subseteq Command
<1> SUFFICES ASSUME NEW a \in {early, late}, NEW b \in {early, late},
                    NEW c \in {early, late}, NEW d \in {early, late}
             PROVE  [type |-> a.type, price |-> b.price, id |-> c.id,
                     quantity |-> c.quantity, side |-> d.side] \in Command
  BY DEF Copies
<1>1. a \in Command /\ b \in Command /\ c \in Command /\ d \in Command
  OBVIOUS
<1> QED
  BY <1>1 DEF Command

\* pop() before it moves head.
LEMMA PopSteps ==
    ASSUME BookInv, PopHead \/ PopTake
    PROVE  BookInv'
<1> USE DEF BookInv
<1>1. UNCHANGED <<levels, orderIndex, doubled, queue, free, nextId, publishedVars>>
  BY DEF PopHead, PopTake, bookVars, queueVars
<1>2. /\ levels' \in [Sides -> [Price -> Seq(Order)]]
      /\ orderIndex' \in [Ids -> (Sides \X Price) \cup {None}]
      /\ Indexed' /\ Uncrossed'
      /\ Best("Buy")' = Best("Buy") /\ Best("Sell")' = Best("Sell")
  BY <1>1, Quiet DEF bookVars, Sides
<1>3. CASE PopHead
  <2>1. /\ r_pc = "pop" /\ r_pc' = "tail" /\ r_early' = Head(queue \o free)
    BY <1>3 DEF PopHead
  <2>2. Head(queue \o free) \in Command
    <3>1. queue \in Seq(Command) /\ free \in Seq(Command) /\ Len(queue) + Len(free) >= 1
      BY LimitOrderBookAssumption DEF Typing
    <3>2. queue \o free \in Seq(Command) /\ Len(queue \o free) = Len(queue) + Len(free)
      BY <3>1
    <3> QED
      BY <3>1, <3>2
  <2>3. Typing'
    BY <1>1, <1>2, <2>1, <2>2 DEF Typing
  <2>4. InHand' /\ Published'
    BY <1>1, <1>2, <2>1 DEF InHand, Published, publishedVars
  <2> QED
    BY <1>2, <2>3, <2>4
<1>4. CASE PopTake
  <2>1. /\ r_pc = "tail"
        /\ \/ r_pc' = "check"
           \/ r_pc' = "advance" /\ queue # << >> /\ r_command' \in Copies(r_early, Head(queue))
    BY <1>4 DEF PopTake
  <2>2. ASSUME r_pc' = "advance" PROVE r_command' \in Command
    <3>1. queue # << >> /\ r_command' \in Copies(r_early, Head(queue))
      BY <2>1, <2>2
    <3>2. r_early \in Command /\ Head(queue) \in Command
      BY <2>1, <3>1 DEF Typing
    <3> QED
      BY <3>1, <3>2, CopiesAreCommands
  <2>3. Typing'
    BY <1>1, <1>2, <2>1, <2>2 DEF Typing
  <2>4. InHand' /\ Published'
    BY <1>1, <1>2, <2>1 DEF InHand, Published, publishedVars
  <2> QED
    BY <1>2, <2>3, <2>4
<1> QED
  BY <1>3, <1>4

\* run() outside the book, publishing, and stop().
LEMMA QuietSteps ==
    ASSUME BookInv,
           RunStart \/ RunCheck \/ MatchEnd \/ PublishAsk \/ PublishBid \/ stop
    PROVE  BookInv'
<1> USE DEF BookInv
<1>1. UNCHANGED <<levels, orderIndex, doubled, queue, free, nextId, r_early>>
  BY DEF RunStart, RunCheck, MatchEnd, PublishAsk, PublishBid, stop, bookVars, queueVars
<1>2. /\ levels' \in [Sides -> [Price -> Seq(Order)]]
      /\ orderIndex' \in [Ids -> (Sides \X Price) \cup {None}]
      /\ Indexed' /\ Uncrossed'
      /\ Best("Buy")' = Best("Buy") /\ Best("Sell")' = Best("Sell")
      /\ r_command' = r_command => (Crossing' <=> Crossing)
  BY <1>1, Quiet DEF bookVars, Sides
<1>3. CASE RunStart \/ RunCheck \/ PublishAsk \/ PublishBid
  <2>1. r_pc' \in {"check", "pop", "off", "publish_bid"}
    BY <1>3 DEF RunStart, RunCheck, PublishAsk, PublishBid
  <2>2. Typing' /\ InHand'
    BY <1>1, <1>2, <2>1 DEF Typing, InHand
  <2>3. Published'
    BY <1>2, <1>3 DEF Published, RunStart, RunCheck, PublishAsk, PublishBid, publishedVars
  <2> QED
    BY <1>2, <2>2, <2>3
<1>4. CASE MatchEnd
  <2>1. /\ r_pc = "match" /\ r_pc' = "rest" /\ ~Crossing
        /\ UNCHANGED <<r_command, orderQuantity, filled>>
    BY <1>4 DEF MatchEnd, matchVars
  <2>2. Typing' /\ InHand'
    BY <1>1, <1>2, <2>1 DEF Typing, InHand
  <2>3. Published'
    BY <2>1 DEF Published
  <2> QED
    BY <1>2, <2>2, <2>3
<1>5. CASE stop
  <2>1. UNCHANGED <<r_pc, r_command, orderQuantity, filled, publishedBestAsk, publishedBestBid>>
    BY <1>5 DEF stop, matchVars, publishedVars
  <2>2. Typing' /\ InHand' /\ Published'
    BY <1>1, <1>2, <2>1 DEF Typing, InHand, Published
  <2> QED
    BY <1>2, <2>2
<1> QED
  BY <1>3, <1>4, <1>5

\* The cell is given back.
LEMMA AdvanceStep == BookInv /\ PopAdvance => BookInv'
<1> SUFFICES ASSUME BookInv, PopAdvance PROVE BookInv'
  OBVIOUS
<1> USE DEF BookInv
<1>1. /\ r_pc = "advance" /\ queue' = Tail(queue) /\ free' = Append(free, Head(queue))
      /\ r_pc' = IF r_command.type = "Add" THEN "match" ELSE "cancel"
      /\ orderQuantity' = r_command.quantity /\ filled' = 0
      /\ UNCHANGED <<levels, orderIndex, doubled, nextId, r_command, publishedVars>>
  BY DEF PopAdvance, bookVars
<1>2. /\ queue \in Seq(Command) /\ queue # << >> /\ free \in Seq(Command)
      /\ Len(queue) + Len(free) = Capacity /\ r_command \in Command
  BY <1>1 DEF InHand, Typing
<1>3. /\ queue' \in Seq(Command) /\ free' \in Seq(Command)
      /\ Len(queue') + Len(free') = Capacity
  <2>1. /\ Tail(queue) \in Seq(Command) /\ Len(Tail(queue)) = Len(queue) - 1
        /\ Head(queue) \in Command /\ Len(queue) \in Nat /\ Len(free) \in Nat
    BY <1>2
  <2>2. Append(free, Head(queue)) \in Seq(Command) /\ Len(Append(free, Head(queue))) = Len(free) + 1
    BY <1>2, <2>1
  <2> QED
    BY <1>1, <1>2, <2>1, <2>2
<1>4. /\ levels' \in [Sides -> [Price -> Seq(Order)]]
      /\ orderIndex' \in [Ids -> (Sides \X Price) \cup {None}]
      /\ Indexed' /\ Uncrossed'
  BY <1>1, Quiet DEF bookVars
<1>5. r_command.quantity \in Nat
  BY <1>2, CommandFacts
<1>6. Typing'
  BY <1>1, <1>2, <1>3, <1>4, <1>5 DEF Typing
<1>7. InHand'
  BY <1>1, <1>5 DEF InHand
<1>8. Published'
  BY <1>1 DEF Published
<1> QED
  BY <1>4, <1>6, <1>7, <1>8

-----------------------------------------------------------------------------
(***************************************************************************)
(* Steps that change the book.                                             *)
(***************************************************************************)

\* One iteration of match().
LEMMA MatchSteps == BookInv /\ (MatchReduce \/ MatchPop) => BookInv'
<1> SUFFICES ASSUME BookInv, MatchReduce \/ MatchPop PROVE BookInv'
  OBVIOUS
<1> USE DEF BookInv
<1>1. /\ r_pc = "match" /\ Crossing
      /\ UNCHANGED <<queue, free, nextId, r_command, doubled>>
  BY DEF MatchReduce, MatchPop, queueVars
<1>2. /\ r_command \in Command
      /\ orderQuantity \in Nat /\ filled \in Nat
      /\ filled + orderQuantity = r_command.quantity
  BY <1>1 DEF Typing, InHand
<1>3. PICK s \in Sides, p \in Price :
          s = Contra /\ p = Best(Contra) /\ p \in LevelsOf(s) /\ levels[s][p] # << >>
  BY <1>1, <1>2, CrossingFacts
<1>4. PICK q \in Seq(Order) : q = levels[s][p] /\ q # << >>
  BY <1>3 DEF Typing
<1>5. Head(q) = q[1] /\ q[1] \in Order /\ HasId(q, q[1].id)
  <2>1. Head(q) = q[1] /\ q[1] \in Order /\ 1 \in 1 .. Len(q)
    BY <1>4
  <2> QED
    BY <2>1 DEF HasId
<1>6. q[1].id \in Ids /\ q[1].quantity \in Nat /\ q[1].quantity # 0
  BY <1>5 DEF Order
<1>7. CASE MatchReduce
  <2> DEFINE o == [q[1] EXCEPT !.quantity = @ - orderQuantity]
  <2>1. /\ orderQuantity < q[1].quantity /\ levels' = [levels EXCEPT ![s][p] = <<o>> \o Tail(q)]
        /\ filled' = filled + orderQuantity /\ r_pc' = "rest"
        /\ UNCHANGED <<orderIndex, orderQuantity>>
    BY <1>3, <1>4, <1>5, <1>7 DEF MatchReduce
  <2>2. o \in Order /\ o.id = q[1].id
    <3>1. q[1].quantity - orderQuantity \in Nat \ {0}
      BY <1>2, <1>6, <2>1
    <3> QED
      BY <1>5, <3>1 DEF Order
  <2> HIDE DEF o
  <2>3. PICK r \in Seq(Order) :
            /\ r = <<o>> \o Tail(q) /\ r # << >>
            /\ \A i : (HasId(r, i) <=> HasId(q, i)) /\ (Once(r, i) <=> Once(q, i))
    BY <1>4, <2>2, FrontIds
  <2>4. /\ levels' \in [Sides -> [Price -> Seq(Order)]]
        /\ \A t \in Sides, v \in Price :
              levels'[t][v] = IF t = s /\ v = p THEN r ELSE levels[t][v]
        /\ \A t \in Sides : LevelsOf(t)' \subseteq LevelsOf(t)
    <3>1. levels' = [levels EXCEPT ![s][p] = r] /\ Typing
      BY <2>1, <2>3
    <3>2. /\ levels' \in [Sides -> [Price -> Seq(Order)]]
          /\ \A t \in Sides, v \in Price :
                levels'[t][v] = IF t = s /\ v = p THEN r ELSE levels[t][v]
          /\ \A t \in Sides : t # s => LevelsOf(t)' = LevelsOf(t)
          /\ LevelsOf(s)' = IF r = << >> THEN LevelsOf(s) \ {p} ELSE LevelsOf(s) \cup {p}
      BY <3>1, OneLevel
    <3>3. LevelsOf(s)' \subseteq LevelsOf(s)
      BY <1>3, <2>3, <3>2
    <3> QED
      BY <3>2, <3>3
  <2>5. Indexed'
    <3>1. ASSUME NEW i \in Ids, NEW t \in Sides, NEW v \in Price
          PROVE  /\ HasId(levels'[t][v], i) <=> HasId(levels[t][v], i)
                 /\ Once(levels'[t][v], i) <=> Once(levels[t][v], i)
      <4>1. CASE t = s /\ v = p
        <5>1. levels'[t][v] = r /\ q = levels[t][v]
          BY <1>4, <2>4, <4>1
        <5> QED
          BY <2>3, <5>1
      <4>2. CASE ~(t = s /\ v = p)
        <5>1. levels'[t][v] = levels[t][v]
          BY <2>4, <4>2
        <5> QED
          BY <5>1
      <4> QED
        BY <4>1, <4>2
    <3> QED
      BY <1>1, <2>1, <3>1 DEF Indexed
  <2>6. Uncrossed'
    BY <2>4, FewerLevels
  <2>7. filled' \in Nat /\ filled' = r_command.quantity
    BY <1>2, <2>1
  <2>8. Typing'
    BY <1>1, <1>2, <2>1, <2>4, <2>7 DEF Typing
  <2>9. InHand'
    BY <1>1, <2>1, <2>7 DEF InHand
  <2>10. Published'
    BY <2>1 DEF Published
  <2> QED
    BY <2>5, <2>6, <2>8, <2>9, <2>10
<1>8. CASE MatchPop
  <2>1. /\ orderQuantity >= q[1].quantity /\ levels' = [levels EXCEPT ![s][p] = Tail(q)]
        /\ orderIndex' = [orderIndex EXCEPT ![q[1].id] = None]
        /\ filled' = filled + q[1].quantity
        /\ orderQuantity' = orderQuantity - q[1].quantity
        /\ r_pc' = IF orderQuantity = q[1].quantity THEN "rest" ELSE "match"
    BY <1>3, <1>4, <1>5, <1>8 DEF MatchPop
  <2>2. PICK c \in Ids : c = q[1].id /\ HasId(q, c)
    BY <1>5, <1>6
  <2>3. PICK r \in Seq(Order) : r = Tail(q) /\ Lacks(r, q, c)
    BY <1>4, <2>2, TailIds
  <2>4. /\ levels' \in [Sides -> [Price -> Seq(Order)]]
        /\ \A t \in Sides : LevelsOf(t)' \subseteq LevelsOf(t)
    <3>1. levels' = [levels EXCEPT ![s][p] = r] /\ Typing
      BY <2>1, <2>3
    <3>2. /\ levels' \in [Sides -> [Price -> Seq(Order)]]
          /\ \A t \in Sides : t # s => LevelsOf(t)' = LevelsOf(t)
          /\ LevelsOf(s)' = IF r = << >> THEN LevelsOf(s) \ {p} ELSE LevelsOf(s) \cup {p}
      BY <3>1, OneLevel
    <3>3. LevelsOf(s)' \subseteq LevelsOf(s)
      BY <1>3, <3>2
    <3> QED
      BY <3>2, <3>3
  <2>5. Indexed' /\ orderIndex' \in [Ids -> (Sides \X Price) \cup {None}]
    BY <1>1, <1>4, <2>1, <2>2, <2>3, OneGone
  <2>6. Uncrossed'
    BY <2>4, FewerLevels
  <2>7. /\ filled' \in Nat /\ orderQuantity' \in Nat
        /\ filled' + orderQuantity' = r_command.quantity
        /\ r_pc' = "rest" => filled' >= r_command.quantity
        /\ r_pc' \in {"rest", "match"}
    BY <1>2, <1>6, <2>1
  <2>8. Typing'
    BY <1>1, <1>2, <2>4, <2>5, <2>7 DEF Typing
  <2>9. InHand'
    BY <1>1, <2>7 DEF InHand
  <2>10. Published'
    BY <2>7 DEF Published
  <2> QED
    BY <2>5, <2>6, <2>8, <2>9, <2>10
<1> QED
  BY <1>7, <1>8

\* add() after match(): what was not filled rests, and does not cross.
LEMMA RestStep == BookInv /\ Rest => BookInv'
<1> SUFFICES ASSUME BookInv, Rest PROVE BookInv'
  OBVIOUS
<1> USE DEF BookInv
<1>1. /\ r_pc = "rest" /\ r_pc' = "publish_ask"
      /\ UNCHANGED <<queue, free, nextId, r_command>>
  BY DEF Rest, queueVars
<1>2. /\ r_command \in Command /\ filled \in Nat
      /\ filled >= r_command.quantity \/ ~Crossing
  BY <1>1 DEF Typing, InHand
<1>3. InHand' /\ Published'
  BY <1>1 DEF InHand, Published
<1>4. CASE ~(r_command.quantity - filled > 0)
  <2>1. UNCHANGED bookVars
    BY <1>4 DEF Rest
  <2>2. Typing' /\ Indexed' /\ Uncrossed'
    BY <1>1, <2>1, Quiet DEF Typing
  <2> QED
    BY <1>3, <2>2
<1>5. CASE r_command.quantity - filled > 0
  <2>1. PICK s \in Sides, p \in Price, c \in Ids :
            s = r_command.side /\ p = r_command.price /\ c = r_command.id
    BY <1>2, CommandFacts
  <2>2. r_command.quantity \in Nat /\ r_command.quantity # 0
    BY <1>2, <1>5, CommandFacts
  <2>3. ~Crossing
    BY <1>2, <1>5, <2>2
  <2>4. Arrived \in Order /\ Arrived.id = c
    BY <2>1, <2>2 DEF Arrived, Order
  <2>5. PICK o \in Order : o = Arrived /\ o.id = c
    BY <2>4
  <2>6. /\ levels' = [levels EXCEPT ![s][p] = Append(levels[s][p], o)]
        /\ orderIndex' = [orderIndex EXCEPT ![c] = <<s, p>>]
        /\ doubled' = IF Rests(c) THEN doubled \cup {c} ELSE doubled
    BY <1>5, <2>1, <2>5 DEF Rest, Typing
  <2>7. c \notin doubled' => \A t \in Sides, v \in Price : ~HasId(levels[t][v], c)
    <3>1. ASSUME NEW t \in Sides, NEW v \in Price, HasId(levels[t][v], c) PROVE Rests(c)
      <4>1. levels[t][v] \in Seq(Order)
        BY DEF Typing
      <4>2. PICK k \in 1 .. Len(levels[t][v]) : levels[t][v][k].id = c
        BY <3>1 DEF HasId
      <4>3. levels[t][v][k] \in Range(levels[t][v])
        BY <4>1, <4>2 DEF Range
      <4> QED
        BY <4>2, <4>3 DEF Rests
    <3> QED
      BY <2>6, <3>1
  <2>8. PICK r \in Seq(Order) :
            /\ r = Append(levels[s][p], o) /\ r # << >>
            /\ \A i : HasId(r, i) <=> HasId(levels[s][p], i) \/ i = c
            /\ \A i : Once(levels[s][p], i) /\ (i = c => ~HasId(levels[s][p], i)) => Once(r, i)
    <3>1. PICK q \in Seq(Order) : q = levels[s][p]
      BY DEF Typing
    <3>2. /\ Append(q, o) \in Seq(Order) /\ Append(q, o) # << >>
          /\ \A i : HasId(Append(q, o), i) <=> HasId(q, i) \/ i = o.id
          /\ \A i : Once(q, i) /\ (i = o.id => ~HasId(q, i)) => Once(Append(q, o), i)
      BY <3>1, AppendIds
    <3> QED
      BY <2>5, <3>1, <3>2
  <2>9. levels' = [levels EXCEPT ![s][p] = r] /\ Typing
    BY <2>6, <2>8
  <2>10. /\ levels' \in [Sides -> [Price -> Seq(Order)]]
         /\ \A t \in Sides, v \in Price :
               levels'[t][v] = IF t = s /\ v = p THEN r ELSE levels[t][v]
         /\ \A t \in Sides : t # s => LevelsOf(t)' = LevelsOf(t)
         /\ LevelsOf(s)' = IF r = << >> THEN LevelsOf(s) \ {p} ELSE LevelsOf(s) \cup {p}
    BY <2>9, OneLevel
  <2>11. /\ orderIndex' \in [Ids -> (Sides \X Price) \cup {None}]
         /\ \A i \in Ids : orderIndex'[i] = IF i = c THEN <<s, p>> ELSE orderIndex[i]
    BY <2>6 DEF Typing
  <2>12. Indexed'
    <3>1. ASSUME NEW i \in Ids, NEW t \in Sides, NEW v \in Price
          PROVE  /\ orderIndex'[i] = <<t, v>> => HasId(levels'[t][v], i)
                 /\ i \notin doubled' =>
                       /\ HasId(levels'[t][v], i) => orderIndex'[i] = <<t, v>>
                       /\ Once(levels'[t][v], i)
      <4>1. /\ orderIndex[i] = <<t, v>> => HasId(levels[t][v], i)
            /\ i \notin doubled' =>
                  /\ HasId(levels[t][v], i) => orderIndex[i] = <<t, v>>
                  /\ Once(levels[t][v], i)
        <5>1. i \notin doubled' => i \notin doubled
          BY <2>6
        <5> QED
          BY <5>1 DEF Indexed
      <4>2. CASE t = s /\ v = p
        <5>1. levels'[t][v] = r /\ levels[t][v] = levels[s][p]
          BY <2>10, <4>2
        <5>2. /\ HasId(r, i) <=> HasId(levels[t][v], i) \/ i = c
              /\ Once(levels[t][v], i) /\ (i = c => ~HasId(levels[t][v], i)) => Once(r, i)
          BY <2>8, <5>1
        <5>3. CASE i = c
          BY <2>7, <2>11, <4>1, <4>2, <5>1, <5>2, <5>3
        <5>4. CASE i # c
          BY <2>11, <4>1, <5>1, <5>2, <5>4
        <5> QED
          BY <5>3, <5>4
      <4>3. CASE ~(t = s /\ v = p)
        <5>1. levels'[t][v] = levels[t][v] /\ <<s, p>> # <<t, v>>
          BY <2>10, <4>3
        <5>2. CASE i = c
          BY <2>7, <2>11, <4>1, <5>1, <5>2
        <5>3. CASE i # c
          BY <2>11, <4>1, <5>1, <5>3
        <5> QED
          BY <5>2, <5>3
      <4> QED
        BY <4>2, <4>3
    <3> QED
      BY <3>1 DEF Indexed
  <2>13. Uncrossed'
    <3>1. LevelsOf(s)' = LevelsOf(s) \cup {p}
      BY <2>8, <2>10
    <3>2. \A q \in LevelsOf(Contra) : IF Contra = "Sell" THEN p < q ELSE q < p
      BY <1>2, <2>1, <2>3, CrossingFacts
    <3>3. CASE s = "Buy"
      <4>1. Contra = "Sell" /\ LevelsOf("Sell")' = LevelsOf("Sell")
        BY <2>1, <2>10, <3>3 DEF Contra, Sides
      <4>2. \A a \in LevelsOf("Sell") : p < a
        BY <3>2, <4>1
      <4> QED
        BY <3>1, <3>3, <4>1, <4>2 DEF Uncrossed
    <3>4. CASE s = "Sell"
      <4>1. Contra = "Buy" /\ LevelsOf("Buy")' = LevelsOf("Buy")
        BY <2>1, <2>10, <3>4 DEF Contra, Sides
      <4>2. \A b \in LevelsOf("Buy") : b < p
        BY <3>2, <4>1
      <4> QED
        BY <3>1, <3>4, <4>1, <4>2 DEF Uncrossed
    <3> QED
      BY <3>3, <3>4 DEF Sides
  <2>14. Typing'
    BY <1>1, <2>10, <2>11 DEF Typing
  <2> QED
    BY <1>3, <2>12, <2>13, <2>14
<1> QED
  BY <1>4, <1>5

\* OrderBook::cancel().
LEMMA CancelStep == BookInv /\ CancelOrder => BookInv'
<1> SUFFICES ASSUME BookInv, CancelOrder PROVE BookInv'
  OBVIOUS
<1> USE DEF BookInv
<1>1. /\ r_pc = "cancel" /\ r_pc' = "publish_ask"
      /\ UNCHANGED <<doubled, queue, free, nextId, r_command>>
  BY DEF CancelOrder, queueVars
<1>2. PICK c \in Ids : c = r_command.id
  BY <1>1, CommandFacts DEF Typing
<1>3. InHand' /\ Published'
  BY <1>1 DEF InHand, Published
<1>4. CASE orderIndex[c] = None
  <2>1. UNCHANGED bookVars
    BY <1>1, <1>2, <1>4 DEF CancelOrder, bookVars
  <2>2. Typing' /\ Indexed' /\ Uncrossed'
    BY <1>1, <2>1, Quiet DEF Typing
  <2> QED
    BY <1>3, <2>2
<1>5. CASE orderIndex[c] # None
  <2>1. PICK s \in Sides, p \in Price : orderIndex[c] = <<s, p>>
    BY <1>5 DEF Typing
  <2>2. HasId(levels[s][p], c) /\ levels[s][p] \in Seq(Order)
    BY <2>1 DEF Indexed, Typing
  <2>3. /\ levels' = [levels EXCEPT ![s][p] = Without(levels[s][p], c)]
        /\ orderIndex' = [orderIndex EXCEPT ![c] = None]
    <3>1. /\ levels' = [levels EXCEPT ![orderIndex[c][1]][orderIndex[c][2]] =
                            Without(levels[orderIndex[c][1]][orderIndex[c][2]], c)]
          /\ orderIndex' = [orderIndex EXCEPT ![c] = None]
      BY <1>2, <1>5 DEF CancelOrder
    <3>2. orderIndex[c][1] = s /\ orderIndex[c][2] = p
      BY <2>1
    <3> QED
      BY <3>1, <3>2
  <2>4. PICK r \in Seq(Order) : r = Without(levels[s][p], c) /\ Lacks(r, levels[s][p], c)
    BY <2>2, WithoutIds
  <2>5. levels' = [levels EXCEPT ![s][p] = r] /\ Typing
    BY <2>3, <2>4
  <2>6. /\ levels' \in [Sides -> [Price -> Seq(Order)]]
        /\ \A t \in Sides : t # s => LevelsOf(t)' = LevelsOf(t)
        /\ LevelsOf(s)' = IF r = << >> THEN LevelsOf(s) \ {p} ELSE LevelsOf(s) \cup {p}
    BY <2>5, OneLevel
  <2>7. Indexed' /\ orderIndex' \in [Ids -> (Sides \X Price) \cup {None}]
    BY <1>1, <2>2, <2>3, <2>4, <2>5, OneGone
  <2>8. Uncrossed'
    <3>1. p \in LevelsOf(s)
      BY <2>2 DEF LevelsOf, HasId
    <3>2. \A t \in Sides : LevelsOf(t)' \subseteq LevelsOf(t)
      BY <2>6, <3>1
    <3> QED
      BY <3>2, FewerLevels
  <2>9. Typing'
    BY <1>1, <2>6, <2>7 DEF Typing
  <2> QED
    BY <1>3, <2>7, <2>8, <2>9
<1> QED
  BY <1>4, <1>5

-----------------------------------------------------------------------------
(***************************************************************************)
(* The theorems.                                                           *)
(***************************************************************************)

\* The invariant of the stand-alone book, whatever mix of an old and a new command
\* pop() may copy: an entry of the index names a place where the order rests, an id rests
\* twice only if it was put to rest twice, and a remainder rests only once nothing
\* crosses it.
THEOREM BookInvariance == Spec => []BookInv
<1>1. Init => BookInv
  BY InitBookInv
<1>2. BookInv /\ [Next]_vars => BookInv'
  <2> SUFFICES ASSUME BookInv, [Next]_vars PROVE BookInv'
    OBVIOUS
  <2>1. CASE run
    BY <2>1, QuietSteps, PopSteps, AdvanceStep, MatchSteps, RestStep, CancelStep DEF run, match
  <2>2. CASE stop
    BY <2>2, QuietSteps
  <2>3. CASE UNCHANGED vars
    <3>1. CancelCommand(0) \in Command
      BY LimitOrderBookAssumption DEF CancelCommand, Command, Sides, Ids, Price
    <3>2. UNCHANGED <<queueVars, nextId, bookVars, r_pc, r_command, r_early, matchVars,
                      publishedVars>>
      BY <2>3 DEF vars
    <3>3. nextId' \in 0 .. MaxOrders
      BY <3>2 DEF BookInv, Typing
    <3> QED
      BY <3>1, <3>2, <3>3, QueueGrows
  <2> QED
    BY <2>1, <2>2, <2>3, ProducerSteps DEF Next
<1> QED
  BY <1>1, <1>2, PTL DEF Spec

\* OrderBook::cancel() always finds the level and the order its index entry names, on any
\* machine; and an order that rests lacks its entry only if its id was put to rest twice.
THEOREM IndexIsExact == Spec => []IndexMatchesBook
<1>1. BookInv => IndexMatchesBook
  <2> SUFFICES ASSUME BookInv, NEW i \in Ids, NEW s \in Sides, NEW p \in Price
               PROVE  /\ orderIndex[i] = <<s, p>> => RestsAt(i, s, p)
                      /\ RestsAt(i, s, p) => orderIndex[i] = <<s, p>> \/ i \in doubled
    BY DEF IndexMatchesBook
  <2>1. RestsAt(i, s, p) <=> HasId(levels[s][p], i)
    <3>1. levels[s][p] \in Seq(Order)
      BY DEF BookInv, Typing
    <3> QED
      BY <3>1 DEF RestsAt, Range, HasId
  <2> QED
    BY <2>1 DEF BookInv, Indexed
<1> QED
  BY <1>1, BookInvariance, PTL

\* match() leaves no bid at or above an ask, whatever was cancelled meanwhile.
THEOREM NeverCrossed == Spec => []NoCrossedBook
<1>1. BookInv => NoCrossedBook
  BY BestFacts DEF BookInv, Uncrossed, NoCrossedBook, Sides
<1> QED
  BY <1>1, BookInvariance, PTL

\* Once a command is done, getBestAsk() and getBestBid() are the best of the book.
THEOREM PublishedExact == Spec => []PublishedIsBest
<1>1. BookInv => PublishedIsBest
  BY DEF BookInv, Published, PublishedIsBest, getBestAsk, getBestBid
<1> QED
  BY <1>1, BookInvariance, PTL
=============================================================================
