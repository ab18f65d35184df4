--------------------------- MODULE SpscQueueProofs ---------------------------
(***************************************************************************)
(* Proofs about SpscQueue for every capacity, index width and value set.   *)
(***************************************************************************)
EXTENDS SpscQueue, TLAPS

-----------------------------------------------------------------------------
(***************************************************************************)
(* Arithmetic: the ring position i & mask_ of nearby indices.              *)
(***************************************************************************)

\* Quotient and remainder.
LEMMA DivMod ==
    ASSUME NEW a \in Nat, NEW c \in Nat \ {0}
    PROVE  /\ a % c \in 0 .. c - 1
           /\ a \div c \in Nat
           /\ a = c * (a \div c) + (a % c)
<1>1. a % c \in 0 .. c - 1
  OBVIOUS
<1>2. a \div c \in Nat
  OBVIOUS
<1>3. a = c * (a \div c) + (a % c)
  OBVIOUS
<1> QED
  BY <1>1, <1>2, <1>3

\* The only multiple of c strictly between -c and c is 0.
LEMMA SmallMultiple ==
    ASSUME NEW c \in Nat \ {0}, NEW x \in Int, NEW d \in Int,
           c * x = d, d < c, d > -c
    PROVE  x = 0
<1>1. CASE x >= 1
  <2>1. c * x >= c
    BY <1>1, SMT
  <2> QED
    BY <2>1
<1>2. CASE x <= -1
  <2>1. c * x <= -c
    BY <1>2, SMT
  <2> QED
    BY <2>1
<1> QED
  BY <1>1, <1>2

\* Numbers that differ by a multiple of c have the same remainder.
LEMMA SameRemainder ==
    ASSUME NEW c \in Nat \ {0}, NEW a \in Nat, NEW b \in Nat, NEW k \in Int,
           a = b + c * k
    PROVE  a % c = b % c
<1>1. PICK p \in Nat, r \in 0 .. c - 1 : a % c = r /\ a = c * p + r
  BY DivMod
<1>2. PICK q \in Nat, s \in 0 .. c - 1 : b % c = s /\ b = c * q + s
  BY DivMod
<1>3. c * (p - q - k) = s - r
  BY <1>1, <1>2
<1>4. PICK x \in Int : x = p - q - k
  BY <1>1, <1>2
<1>5. PICK d \in Int : d = s - r /\ d < c /\ d > -c
  BY <1>1, <1>2
<1>6. c * x = d
  BY <1>3, <1>4, <1>5
<1>7. x = 0
  BY <1>5, <1>6, SmallMultiple
<1>8. d = 0
  BY <1>6, <1>7
<1> QED
  BY <1>1, <1>2, <1>5, <1>8

\* Numbers less than c apart that have the same remainder are equal.
LEMMA DistinctRemainders ==
    ASSUME NEW c \in Nat \ {0}, NEW a \in Nat, NEW b \in Nat,
           a - b < c, b - a < c, a % c = b % c
    PROVE  a = b
<1>1. PICK p \in Nat, r \in 0 .. c - 1 : a % c = r /\ a = c * p + r
  BY DivMod
<1>2. PICK q \in Nat, s \in 0 .. c - 1 : b % c = s /\ b = c * q + s
  BY DivMod
<1>3. c * (p - q) = a - b
  <2>1. r = s
    BY <1>1, <1>2
  <2> QED
    BY <1>1, <1>2, <2>1
<1>4. PICK x \in Int : x = p - q
  BY <1>1, <1>2
<1>5. PICK d \in Int : d = a - b /\ d < c /\ d > -c
  OBVIOUS
<1>6. c * x = d
  BY <1>3, <1>4, <1>5
<1>7. x = 0
  BY <1>5, <1>6, SmallMultiple
<1> QED
  BY <1>5, <1>6, <1>7

\* Wrapping the index does not move the cell, because the capacity divides the
\* index range: Cell can be computed without the wrap.
LEMMA CellAhead ==
    ASSUME NEW i \in Index, NEW n \in 0 .. Capacity
    PROVE  /\ Ahead(i, n) \in Index
           /\ Cell(Ahead(i, n)) = (i + n) % Capacity
<1> USE QueueAssumption
<1>1. Ahead(i, n) \in Index
  BY DEF Ahead, Index
<1>2. CASE i + n < IndexModulus
  BY <1>2 DEF Ahead, Cell, Index
<1>3. CASE i + n >= IndexModulus
  <2>1. PICK q \in Nat : IndexModulus = Capacity * q
    <3>1. PICK q \in Nat, r \in 0 .. Capacity - 1 :
             IndexModulus % Capacity = r /\ IndexModulus = Capacity * q + r
      BY DivMod
    <3>2. r = 0
      BY <3>1
    <3> QED
      BY <3>1, <3>2
  <2>2. PICK a \in Nat : a = i + n - IndexModulus
    BY <1>3 DEF Index
  <2>3. PICK b \in Nat : b = i + n
    BY DEF Index
  <2>4. PICK k \in Int : a = b + Capacity * k
    <3>1. a = b + Capacity * (-q)
      BY <2>1, <2>2, <2>3 DEF Index
    <3> QED
      BY <3>1
  <2>5. a % Capacity = b % Capacity
    BY <2>4, SameRemainder, Zenon
  <2>6. Ahead(i, n) = a
    BY <1>3, <2>2 DEF Ahead, Index
  <2> QED
    BY <1>1, <2>3, <2>5, <2>6, Zenon DEF Cell
<1> QED
  BY <1>1, <1>2, <1>3 DEF Index

\* Indices less than a capacity ahead of i have cells of their own ...
LEMMA CellInjective ==
    ASSUME NEW i \in Index, NEW m \in 0 .. Capacity - 1, NEW n \in 0 .. Capacity - 1,
           Cell(Ahead(i, m)) = Cell(Ahead(i, n))
    PROVE  m = n
<1>1. (i + m) % Capacity = (i + n) % Capacity
  BY CellAhead, QueueAssumption
<1>2. PICK a \in Nat, b \in Nat : a = i + m /\ b = i + n
  BY QueueAssumption DEF Index
<1>3. a - b < Capacity /\ b - a < Capacity
  BY <1>2, QueueAssumption DEF Index
<1>4. a % Capacity = b % Capacity
  BY <1>1, <1>2
<1>5. a = b
  BY <1>3, <1>4, DistinctRemainders, QueueAssumption
<1> QED
  BY <1>2, <1>5 DEF Index

\* ... and one a full capacity ahead is back in the cell of i.
LEMMA CellPeriodic ==
    ASSUME NEW i \in Index
    PROVE  Cell(Ahead(i, Capacity)) = Cell(i)
<1>1. PICK a \in Nat : a = i + Capacity
  BY QueueAssumption DEF Index
<1>2. a % Capacity = i % Capacity
  <2>1. PICK k \in Int : i \in Nat /\ a = i + Capacity * k
    <3>1. i \in Nat /\ a = i + Capacity * 1
      BY <1>1, QueueAssumption DEF Index
    <3> QED
      BY <3>1
  <2> QED
    BY <2>1, SameRemainder, QueueAssumption, Zenon
<1>3. Cell(Ahead(i, Capacity)) = (i + Capacity) % Capacity
  BY CellAhead, QueueAssumption
<1> QED
  BY <1>1, <1>2, <1>3, Zenon DEF Cell

-----------------------------------------------------------------------------
(***************************************************************************)
(* The inductive invariant.                                                *)
(***************************************************************************)

\* What each thread last saw of the other's index is old, but never so old as
\* to promise the producer room, or the consumer a value, that is not there.
Views ==
    /\ Dist(head, tail) <= Dist(head, p_tail)
    /\ Dist(head, p_tail) <= Capacity
    /\ p_pc # "ready" => Dist(head, p_tail) < Capacity
    /\ Dist(c_head, tail) <= Dist(head, tail)
    /\ c_pc # "ready" => c_head # tail

\* The n-th cell from tail on holds a value: it is queued and not being popped,
\* or it is the one the producer has constructed and not yet published.
Holds(n) ==
    \/ n < Dist(head, tail) /\ ~(n = 0 /\ c_pc = "publish")
    \/ n = Dist(head, tail) /\ p_pc \in {"measure", "publish"}

CellsAgree ==
    \A n \in 0 .. Capacity - 1 : storage[Cell(Ahead(tail, n))] # Raw <=> Holds(n)

Marks ==
    /\ HighWaterMark
    /\ p_pc = "publish" => Dist(head, p_tail) + 1 <= high_water_mark

IInv ==
    /\ TypeOK
    /\ Views
    /\ p_pc = "construct" => p_value # Raw
    /\ c_pc = "publish" => c_value # Raw
    /\ CellsAgree
    /\ Marks

-----------------------------------------------------------------------------
(***************************************************************************)
(* Unsigned index arithmetic.                                              *)
(***************************************************************************)

LEMMA DistFacts ==
    ASSUME NEW i \in Index, NEW j \in Index
    PROVE  /\ Dist(i, j) \in Index /\ Dist(i, j) \in Nat
           /\ Dist(i, j) = 0 <=> i = j
           /\ Ahead(j, Dist(i, j)) = i
BY QueueAssumption DEF Index, Dist, Ahead

LEMMA IncFacts ==
    ASSUME NEW i \in Index, NEW j \in Index
    PROVE  /\ Inc(i) \in Index
           /\ Dist(i, j) < Capacity => Dist(Inc(i), j) = Dist(i, j) + 1
           /\ i # j => Dist(i, Inc(j)) = Dist(i, j) - 1
BY QueueAssumption DEF Index, Dist, Inc, Ahead

LEMMA AheadInc ==
    ASSUME NEW i \in Index, NEW n \in 0 .. Capacity - 1
    PROVE  Ahead(Inc(i), n) = Ahead(i, n + 1)
BY QueueAssumption DEF Index, Inc, Ahead

\* Cells are positions of the storage.
LEMMA CellType ==
    ASSUME NEW i \in Index
    PROVE  Cell(i) \in 0 .. Capacity - 1
BY DivMod, QueueAssumption DEF Index, Cell

LEMMA CellAheadType ==
    ASSUME NEW i \in Index, NEW n \in 0 .. Capacity - 1
    PROVE  Cell(Ahead(i, n)) \in 0 .. Capacity - 1
<1>1. Ahead(i, n) \in Index
  BY CellAhead, QueueAssumption
<1> QED
  BY <1>1, CellType

-----------------------------------------------------------------------------
LEMMA InitIInv == Init => IInv
<1> SUFFICES ASSUME Init PROVE IInv
  OBVIOUS
<1> USE QueueAssumption DEF Init
<1>1. 0 \in Index /\ Dist(0, 0) = 0
  BY DEF Index, Dist
<1>2. TypeOK
  BY <1>1 DEF TypeOK
<1>3. Views
  BY <1>1 DEF Views
<1>4. CellsAgree
  <2> SUFFICES ASSUME NEW n \in 0 .. Capacity - 1
               PROVE  storage[Cell(Ahead(tail, n))] = Raw /\ ~Holds(n)
    BY DEF CellsAgree
  <2>1. Cell(Ahead(0, n)) \in 0 .. Capacity - 1
    BY <1>1, CellAheadType
  <2> QED
    BY <1>1, <2>1 DEF Holds
<1>5. Marks
  BY <1>1 DEF Marks, HighWaterMark
<1> QED
  BY <1>2, <1>3, <1>4, <1>5 DEF IInv

\* Steps of the producer.
LEMMA PushIInv ==
    ASSUME IInv, NEW v \in Values, try_push(v)
    PROVE  IInv'
<1> USE QueueAssumption
<1> USE DEF IInv, producerVars, consumerVars, observerVars
<1>1. CASE PushLoad(v)
  <2>1. PICK t \in VisibleTail :
           /\ p_tail' = t
           /\ IF Dist(head, t) >= Capacity
                THEN UNCHANGED <<p_pc, p_value>>
                ELSE p_pc' = "construct" /\ p_value' = v
    BY <1>1 DEF PushLoad
  <2>2. /\ t \in Index
        /\ Dist(head, tail) <= Dist(head, t)
        /\ Dist(head, t) <= Dist(head, p_tail)
    BY DEF VisibleTail
  <2>3. TypeOK'
    BY <1>1, <2>1, <2>2 DEF TypeOK, PushLoad
  <2>4. Views'
    BY <1>1, <2>1, <2>2, DistFacts DEF TypeOK, Views, PushLoad
  <2>5. (p_pc = "construct" => p_value # Raw)' /\ (c_pc = "publish" => c_value # Raw)'
    BY <1>1, <2>1 DEF PushLoad
  <2>6. CellsAgree'
    BY <1>1, <2>1 DEF CellsAgree, Holds, PushLoad, Dist, Ahead, Cell
  <2>7. Marks'
    BY <1>1, <2>1 DEF Marks, HighWaterMark, PushLoad, Dist
  <2> QED
    BY <2>3, <2>4, <2>5, <2>6, <2>7
<1>2. CASE PushConstruct
  <2>1. TypeOK'
    BY <1>2, CellType DEF TypeOK, PushConstruct
  <2>2. Views'
    BY <1>2 DEF Views, PushConstruct, Dist
  <2>3. CellsAgree'
    <3> SUFFICES ASSUME NEW n \in 0 .. Capacity - 1
                 PROVE  storage'[Cell(Ahead(tail, n))] # Raw <=> Holds(n)'
      BY <1>2 DEF CellsAgree, PushConstruct
    <3> DEFINE d == Dist(head, tail)
    <3>1. d \in 0 .. Capacity - 1 /\ Ahead(tail, d) = head
      BY <1>2, DistFacts DEF TypeOK, Views, PushConstruct
    <3>2. Holds(n)' <=> Holds(n) \/ n = d
      BY <1>2 DEF Holds, PushConstruct
    <3>3. Cell(Ahead(tail, n)) \in 0 .. Capacity - 1
      BY CellAheadType DEF TypeOK
    <3>4. CASE n = d
      BY <1>2, <3>1, <3>2, <3>3, <3>4 DEF TypeOK, PushConstruct
    <3>5. CASE n # d
      <4>1. Cell(Ahead(tail, n)) # Cell(head)
        BY <3>1, <3>5, CellInjective DEF TypeOK
      <4>2. storage'[Cell(Ahead(tail, n))] = storage[Cell(Ahead(tail, n))]
        BY <1>2, <3>3, <4>1 DEF TypeOK, PushConstruct
      <4> QED
        BY <3>2, <3>5, <4>2 DEF CellsAgree
    <3> QED
      BY <3>4, <3>5
  <2>4. Marks'
    BY <1>2 DEF Marks, HighWaterMark, PushConstruct, Dist
  <2> QED
    BY <1>2, <2>1, <2>2, <2>3, <2>4 DEF PushConstruct
<1>3. CASE PushMeasure
  <2>1. TypeOK'
    <3>1. Dist(Inc(head), p_tail) \in Nat
      BY IncFacts, DistFacts DEF TypeOK
    <3> QED
      BY <1>3, <3>1 DEF TypeOK, PushMeasure
  <2>2. Views'
    BY <1>3 DEF Views, PushMeasure, Dist
  <2>3. CellsAgree'
    BY <1>3 DEF CellsAgree, Holds, PushMeasure, Dist, Ahead, Cell
  <2>4. Marks'
    <3>1. /\ Dist(Inc(head), p_tail) = Dist(head, p_tail) + 1
          /\ Dist(head, p_tail) \in Nat
      BY <1>3, IncFacts, DistFacts DEF TypeOK, Views, PushMeasure
    <3>2. Dist(head, tail) \in Nat
      BY DistFacts DEF TypeOK
    <3> QED
      BY <1>3, <3>1, <3>2 DEF TypeOK, Views, Marks, HighWaterMark, PushMeasure
  <2> QED
    BY <1>3, <2>1, <2>2, <2>3, <2>4 DEF PushMeasure
<1>4. CASE PushPublish
  <2>1. TypeOK'
    BY <1>4, IncFacts DEF TypeOK, PushPublish
  <2>2. Views'
    <3>1. /\ Dist(Inc(head), p_tail) = Dist(head, p_tail) + 1
          /\ Dist(Inc(head), tail) = Dist(head, tail) + 1
      BY <1>4, IncFacts, DistFacts DEF TypeOK, Views, PushPublish
    <3>2. /\ Dist(head, p_tail) \in Nat
          /\ Dist(head, tail) \in Nat
          /\ Dist(c_head, tail) \in Nat
      BY DistFacts DEF TypeOK
    <3> QED
      BY <1>4, <3>1, <3>2 DEF Views, PushPublish
  <2>3. CellsAgree'
    <3> SUFFICES ASSUME NEW n \in 0 .. Capacity - 1
                 PROVE  storage[Cell(Ahead(tail, n))] # Raw <=> Holds(n)'
      BY <1>4 DEF CellsAgree, PushPublish
    <3>1. Dist(Inc(head), tail) = Dist(head, tail) + 1 /\ Dist(head, tail) \in Nat
      BY <1>4, IncFacts, DistFacts DEF TypeOK, Views, PushPublish
    <3>2. c_pc = "publish" => Dist(head, tail) # 0
      BY DistFacts DEF TypeOK, Views
    <3>3. Holds(n)' <=> Holds(n)
      BY <1>4, <3>1, <3>2 DEF Holds, PushPublish
    <3> QED
      BY <3>3 DEF CellsAgree
  <2>4. Marks'
    <3>1. Dist(Inc(head), tail) = Dist(head, tail) + 1
      BY <1>4, IncFacts, DistFacts DEF TypeOK, Views, PushPublish
    <3>2. Dist(head, p_tail) \in Nat /\ Dist(head, tail) \in Nat
      BY DistFacts DEF TypeOK
    <3> QED
      BY <1>4, <3>1, <3>2 DEF TypeOK, Views, Marks, HighWaterMark, PushPublish
  <2> QED
    BY <1>4, <2>1, <2>2, <2>3, <2>4 DEF PushPublish
<1> QED
  BY <1>1, <1>2, <1>3, <1>4 DEF try_push

\* Steps of the consumer.
LEMMA PopIInv ==
    ASSUME IInv, try_pop
    PROVE  IInv'
<1> USE QueueAssumption
<1> USE DEF IInv, producerVars, consumerVars, observerVars
<1>1. CASE PopLoad
  <2>1. PICK h \in VisibleHead :
           c_head' = h /\ c_pc' = IF h = tail THEN "ready" ELSE "take"
    BY <1>1 DEF PopLoad
  <2>2. /\ h \in Index
        /\ Dist(c_head, tail) <= Dist(h, tail)
        /\ Dist(h, tail) <= Dist(head, tail)
    BY DEF VisibleHead
  <2>3. TypeOK'
    BY <1>1, <2>1, <2>2 DEF TypeOK, PopLoad
  <2>4. Views'
    BY <1>1, <2>1, <2>2 DEF TypeOK, Views, PopLoad
  <2>5. CellsAgree'
    BY <1>1, <2>1 DEF CellsAgree, Holds, PopLoad, Dist, Ahead, Cell
  <2>6. Marks'
    BY <1>1 DEF Marks, HighWaterMark, PopLoad, Dist
  <2> QED
    BY <1>1, <2>3, <2>4, <2>5, <2>6 DEF PopLoad
<1>2. CASE PopTake
  <2>1. TypeOK'
    BY <1>2, CellType DEF TypeOK, PopTake
  <2>2. Views'
    BY <1>2 DEF Views, PopTake, Dist
  <2>3. CellsAgree'
    <3> SUFFICES ASSUME NEW n \in 0 .. Capacity - 1
                 PROVE  storage'[Cell(Ahead(tail, n))] # Raw <=> Holds(n)'
      BY <1>2 DEF CellsAgree, PopTake
    <3>1. Cell(Ahead(tail, n)) \in 0 .. Capacity - 1
      BY CellAheadType DEF TypeOK
    <3>2. Ahead(tail, 0) = tail
      BY DEF TypeOK, Ahead, Index
    <3>3. Dist(head, tail) # 0 /\ Dist(head, tail) \in Nat
      BY <1>2, DistFacts DEF TypeOK, Views, PopTake
    <3>4. CASE n = 0
      BY <1>2, <3>1, <3>2, <3>3, <3>4 DEF TypeOK, Holds, PopTake
    <3>5. CASE n # 0
      <4>1. Cell(Ahead(tail, n)) # Cell(tail)
        BY <3>2, <3>5, CellInjective DEF TypeOK
      <4>2. storage'[Cell(Ahead(tail, n))] = storage[Cell(Ahead(tail, n))]
        BY <1>2, <3>1, <4>1 DEF TypeOK, PopTake
      <4>3. Holds(n)' <=> Holds(n)
        BY <1>2, <3>5 DEF Holds, PopTake
      <4> QED
        BY <4>2, <4>3 DEF CellsAgree
    <3> QED
      BY <3>4, <3>5
  <2>4. Marks'
    BY <1>2 DEF Marks, HighWaterMark, PopTake, Dist
  <2>5. storage[Cell(tail)] # Raw
    <3>1. Ahead(tail, 0) = tail /\ 0 \in 0 .. Capacity - 1
      BY DEF TypeOK, Ahead, Index
    <3>2. Dist(head, tail) # 0 /\ Dist(head, tail) \in Nat
      BY <1>2, DistFacts DEF TypeOK, Views, PopTake
    <3> QED
      BY <1>2, <3>1, <3>2 DEF CellsAgree, Holds, PopTake
  <2> QED
    BY <1>2, <2>1, <2>2, <2>3, <2>4, <2>5 DEF PopTake
<1>3. CASE PopPublish
  <2>1. /\ Dist(head, Inc(tail)) = Dist(head, tail) - 1
        /\ Dist(c_head, Inc(tail)) = Dist(c_head, tail) - 1
    <3>1. c_head # tail /\ head # tail
      BY <1>3, DistFacts DEF TypeOK, Views, PopPublish
    <3> QED
      BY <3>1, IncFacts DEF TypeOK
  <2>2. /\ Dist(head, tail) \in Nat /\ Dist(c_head, tail) \in Nat
        /\ Dist(head, p_tail) \in Nat
    BY DistFacts DEF TypeOK
  <2>3. TypeOK'
    BY <1>3, IncFacts DEF TypeOK, PopPublish
  <2>4. Views'
    BY <1>3, <2>1, <2>2 DEF Views, PopPublish
  <2>5. CellsAgree'
    <3> SUFFICES ASSUME NEW n \in 0 .. Capacity - 1
                 PROVE  storage[Cell(Ahead(Inc(tail), n))] # Raw <=> Holds(n)'
      BY <1>3 DEF CellsAgree, PopPublish
    <3>1. Ahead(Inc(tail), n) = Ahead(tail, n + 1)
      BY AheadInc DEF TypeOK
    <3>2. CASE n < Capacity - 1
      <4>1. Holds(n)' <=> Holds(n + 1)
        BY <1>3, <2>1, <2>2 DEF Holds, PopPublish
      <4>2. n + 1 \in 0 .. Capacity - 1
        BY <3>2
      <4> QED
        BY <3>1, <4>1, <4>2 DEF CellsAgree
    <3>3. CASE n = Capacity - 1
      <4>1. Cell(Ahead(Inc(tail), n)) = Cell(Ahead(tail, 0))
        <5>1. Cell(Ahead(tail, Capacity)) = Cell(tail)
          BY CellPeriodic DEF TypeOK
        <5>2. Ahead(tail, 0) = tail
          BY DEF TypeOK, Ahead, Index
        <5> QED
          BY <3>1, <3>3, <5>1, <5>2
      <4>2. ~Holds(0)
        BY <1>3, <2>1, <2>2, DistFacts DEF TypeOK, Views, Holds, PopPublish
      <4>3. ~Holds(n)'
        BY <1>3, <2>1, <2>2, <3>3 DEF TypeOK, Views, Holds, PopPublish
      <4>4. 0 \in 0 .. Capacity - 1
        OBVIOUS
      <4> QED
        BY <4>1, <4>2, <4>3, <4>4 DEF CellsAgree
    <3> QED
      BY <3>2, <3>3
  <2>6. Marks'
    BY <1>3, <2>1, <2>2 DEF TypeOK, Marks, HighWaterMark, PopPublish
  <2> QED
    BY <1>3, <2>3, <2>4, <2>5, <2>6 DEF PopPublish
<1> QED
  BY <1>1, <1>2, <1>3 DEF try_pop

\* Steps of an observer touch nothing of the queue.
LEMMA SizeIInv ==
    ASSUME IInv, size
    PROVE  IInv'
<1> USE DEF IInv, producerVars, consumerVars, observerVars
<1>1. TypeOK'
  BY DistFacts DEF TypeOK, size, SizeLoadHead, SizeLoadTail
<1>2. /\ UNCHANGED <<head, tail, storage, high_water_mark>>
      /\ UNCHANGED <<p_pc, p_value, p_tail, c_pc, c_value, c_head>>
  BY DEF size, SizeLoadHead, SizeLoadTail
<1>3. Views' /\ CellsAgree' /\ Marks'
  BY <1>2 DEF Views, CellsAgree, Holds, Marks, HighWaterMark, Dist, Ahead, Cell
<1> QED
  BY <1>1, <1>2, <1>3

\* The invariant holds in every state: initially, and after every step.
THEOREM Invariance == Spec => []IInv
<1>1. Init => IInv
  BY InitIInv
<1>2. IInv /\ [Next]_vars => IInv'
  <2> SUFFICES ASSUME IInv, [Next]_vars PROVE IInv'
    OBVIOUS
  <2>1. CASE \E v \in Values : try_push(v)
    BY <2>1, PushIInv
  <2>2. CASE try_pop
    BY <2>2, PopIInv
  <2>3. CASE size
    BY <2>3, SizeIInv
  <2>4. CASE UNCHANGED vars
    BY <2>4 DEF vars, producerVars, consumerVars, observerVars, IInv, TypeOK, Views,
                CellsAgree, Holds, Marks, HighWaterMark, Dist, Ahead, Cell, Index
  <2> QED
    BY <2>1, <2>2, <2>3, <2>4 DEF Next
<1> QED
  BY <1>1, <1>2, PTL DEF Spec

\* try_push() and try_pop() never meet in a cell, and no raw cell is popped.
THEOREM NoDataRace == Spec => []DataRaceFree
<1>1. IInv => DataRaceFree
  <2> SUFFICES ASSUME IInv PROVE DataRaceFree
    OBVIOUS
  <2> USE QueueAssumption DEF IInv
  <2>1. /\ Dist(head, tail) \in Nat /\ Dist(head, p_tail) \in Nat
        /\ Ahead(tail, Dist(head, tail)) = head
        /\ Dist(head, tail) = 0 <=> head = tail
    BY DistFacts DEF TypeOK
  <2>2. ASSUME p_pc = "construct" PROVE storage[Cell(head)] = Raw
    <3>1. Dist(head, tail) \in 0 .. Capacity - 1
      BY <2>1, <2>2 DEF Views
    <3> QED
      BY <2>1, <2>2, <3>1 DEF CellsAgree, Holds
  <2>3. ASSUME c_pc = "take" PROVE storage[Cell(tail)] # Raw
    <3>1. Ahead(tail, 0) = tail /\ 0 \in 0 .. Capacity - 1
      BY DEF TypeOK, Ahead, Index
    <3>2. Dist(head, tail) > 0
      BY <2>1, <2>3, DistFacts DEF TypeOK, Views
    <3> QED
      BY <2>3, <3>1, <3>2 DEF CellsAgree, Holds
  <2> QED
    BY <2>2, <2>3 DEF DataRaceFree
<1> QED
  BY <1>1, Invariance, PTL

\* The high water mark covers every occupancy and stays within the capacity.
THEOREM HighWaterMarkSound == Spec => []HighWaterMark
<1>1. IInv => HighWaterMark
  BY DEF IInv, Marks
<1> QED
  BY <1>1, Invariance, PTL

-----------------------------------------------------------------------------
(***************************************************************************)
(* The queue implements the bounded FIFO channel.                          *)
(***************************************************************************)

\* The k-th element of Contents.
Item(k) == IF k = 1 /\ c_pc = "publish" THEN c_value
           ELSE storage[Cell(Ahead(tail, k - 1))]

ContentsShape ==
    /\ Contents \in Seq(Values)
    /\ Len(Contents) = Dist(head, tail)
    /\ \A k \in 1 .. Dist(head, tail) : Contents[k] = Item(k)
    /\ Dist(head, tail) \in 0 .. Capacity

LEMMA ContentsFacts == IInv => ContentsShape
<1> SUFFICES ASSUME IInv PROVE ContentsShape
  OBVIOUS
<1> USE QueueAssumption DEF IInv
<1>1. Dist(head, tail) \in 0 .. Capacity
  BY DistFacts DEF TypeOK, Views
<1>2. ASSUME NEW k \in 1 .. Dist(head, tail) PROVE Item(k) \in Values
  <2>1. CASE k = 1 /\ c_pc = "publish"
    BY <2>1 DEF Item, TypeOK
  <2>2. CASE ~(k = 1 /\ c_pc = "publish")
    <3>1. k - 1 \in 0 .. Capacity - 1 /\ Holds(k - 1)
      BY <1>1, <2>2 DEF Holds
    <3>2. storage[Cell(Ahead(tail, k - 1))] # Raw
      BY <3>1 DEF CellsAgree
    <3>3. Cell(Ahead(tail, k - 1)) \in 0 .. Capacity - 1
      BY <3>1, CellAheadType DEF TypeOK
    <3> QED
      BY <2>2, <3>2, <3>3 DEF Item, TypeOK
  <2> QED
    BY <2>1, <2>2
<1>3. Contents = [k \in 1 .. Dist(head, tail) |-> Item(k)]
  BY DEF Contents, Item
<1> QED
  BY <1>1, <1>2, <1>3 DEF ContentsShape

\* Two sequences with the same elements are equal.
LEMMA SameElements ==
    ASSUME NEW S, NEW s \in Seq(S), NEW t \in Seq(S), Len(s) = Len(t),
           \A k \in 1 .. Len(s) : s[k] = t[k]
    PROVE  s = t
OBVIOUS

\* PushPublish is the push: until head_ moves, the new value is not queued.
LEMMA PublishIsPush ==
    ASSUME IInv, IInv', PushPublish
    PROVE  \E v \in Values : Fifo!Push(v)
<1> USE QueueAssumption DEF IInv
<1>0. ContentsShape'
  <2>1. IInv' => ContentsShape'
    BY ContentsFacts, PTL
  <2> QED
    BY <2>1
<1> DEFINE d == Dist(head, tail)
           v == storage[Cell(head)]
<1>1. /\ d \in 0 .. Capacity - 1
      /\ Dist(head, tail)' = d + 1
      /\ Ahead(tail, d) = head
  BY DistFacts, IncFacts DEF TypeOK, Views, PushPublish
<1>2. v \in Values
  <2>1. Holds(d)
    BY DEF Holds, PushPublish
  <2>2. v # Raw
    BY <1>1, <2>1 DEF CellsAgree
  <2> QED
    BY <2>2, CellType DEF TypeOK
<1>3. /\ Contents \in Seq(Values) /\ Len(Contents) = d
      /\ \A k \in 1 .. d : Contents[k] = Item(k)
  BY ContentsFacts DEF ContentsShape
<1>4. /\ Contents' \in Seq(Values) /\ Len(Contents') = d + 1
      /\ \A k \in 1 .. d + 1 : Contents'[k] = Item(k)'
  BY <1>0, <1>1 DEF ContentsShape
<1>5. Append(Contents, v) \in Seq(Values) /\ Len(Append(Contents, v)) = d + 1
  BY <1>2, <1>3
<1>6. ASSUME NEW k \in 1 .. d + 1 PROVE Contents'[k] = Append(Contents, v)[k]
  <2>1. Item(k)' = Item(k)
    BY DEF Item, PushPublish, consumerVars
  <2>2. CASE k <= d
    BY <1>1, <1>2, <1>3, <1>4, <2>1, <2>2
  <2>3. CASE k = d + 1
    <3>1. d = 0 => c_pc # "publish"
      BY DistFacts DEF TypeOK, Views
    <3>2. Item(k) = v
      BY <1>1, <2>3, <3>1 DEF Item
    <3>3. Append(Contents, v)[k] = v
      BY <1>1, <1>2, <1>3, <2>3
    <3> QED
      BY <1>4, <2>1, <3>2, <3>3
  <2>4. k <= d \/ k = d + 1
    BY <1>1
  <2> QED
    BY <2>2, <2>3, <2>4
<1>7. Contents' = Append(Contents, v)
  BY <1>1, <1>4, <1>5, <1>6, SameElements
<1> QED
  BY <1>1, <1>2, <1>3, <1>7 DEF Fifo!Push

\* PopPublish is the pop.
LEMMA PublishIsPop ==
    ASSUME IInv, IInv', PopPublish
    PROVE  Fifo!Pop
<1> USE QueueAssumption DEF IInv
<1>0. ContentsShape'
  <2>1. IInv' => ContentsShape'
    BY ContentsFacts, PTL
  <2> QED
    BY <2>1
<1> DEFINE d == Dist(head, tail)
<1>1. /\ d \in 1 .. Capacity
      /\ Dist(head, tail)' = d - 1
  <2>1. /\ head \in Index /\ tail \in Index /\ c_head \in Index
        /\ c_head # tail
        /\ Dist(c_head, tail) <= d /\ d <= Capacity
    <3>1. /\ head \in Index /\ tail \in Index /\ c_head \in Index /\ p_tail \in Index
          /\ c_pc # "ready" /\ Capacity \in Nat
      BY DEF TypeOK, PopPublish
    <3>2. /\ c_head # tail
          /\ Dist(c_head, tail) <= d
          /\ d <= Dist(head, p_tail) /\ Dist(head, p_tail) <= Capacity
      BY <3>1 DEF Views
    <3>3. d \in Nat /\ Dist(head, p_tail) \in Nat
      BY <3>1, DistFacts
    <3> HIDE DEF d
    <3>4. d <= Capacity
      BY <3>1, <3>2, <3>3
    <3> QED
      BY <3>1, <3>2, <3>4
  <2>2. Dist(c_head, tail) \in Nat /\ Dist(c_head, tail) # 0 /\ d \in Nat
    BY <2>1, DistFacts
  <2>3. d # 0
    BY <2>1, <2>2
  <2>4. Dist(head, Inc(tail)) = d - 1
    BY <2>1, <2>3, DistFacts, IncFacts
  <2>5. Dist(head, tail)' = Dist(head, Inc(tail))
    BY DEF PopPublish
  <2>6. d \in 1 .. Capacity
    BY <2>1, <2>2, <2>3
  <2> QED
    BY <2>4, <2>5, <2>6
<1>2. /\ Contents \in Seq(Values) /\ Len(Contents) = d
      /\ \A k \in 1 .. d : Contents[k] = Item(k)
  BY ContentsFacts DEF ContentsShape
<1>3. /\ Contents' \in Seq(Values) /\ Len(Contents') = d - 1
      /\ \A k \in 1 .. d - 1 : Contents'[k] = Item(k)'
  BY <1>0, <1>1 DEF ContentsShape
<1>4. Contents # << >>
  BY <1>1, <1>2
<1>5. /\ Tail(Contents) \in Seq(Values) /\ Len(Tail(Contents)) = d - 1
      /\ \A k \in 1 .. d - 1 : Tail(Contents)[k] = Contents[k + 1]
  BY <1>1, <1>2, <1>4
<1>6. ASSUME NEW k \in 1 .. d - 1 PROVE Contents'[k] = Tail(Contents)[k]
  <2>1. k - 1 \in 0 .. Capacity - 1
    BY <1>1
  <2>2. Ahead(Inc(tail), k - 1) = Ahead(tail, (k - 1) + 1)
    BY <2>1, AheadInc DEF TypeOK
  <2>3. Item(k)' = Item(k + 1)
    BY <2>2 DEF Item, PopPublish
  <2>4. Contents[k + 1] = Item(k + 1)
    BY <1>1, <1>2
  <2> QED
    BY <1>3, <1>5, <2>3, <2>4
<1>7. Contents' = Tail(Contents)
  BY <1>1, <1>3, <1>5, <1>6, SameElements
<1> QED
  BY <1>4, <1>7 DEF Fifo!Pop

\* Every other step leaves the contents alone, although it may construct a value
\* in a cell or take one out.
LEMMA OtherSteps ==
    ASSUME IInv, IInv', [Next]_vars, UNCHANGED <<head, tail>>
    PROVE  UNCHANGED Contents
<1> USE QueueAssumption DEF IInv
<1>0. ContentsShape'
  <2>1. IInv' => ContentsShape'
    BY ContentsFacts, PTL
  <2> QED
    BY <2>1
<1> DEFINE d == Dist(head, tail)
<1>1. /\ Contents \in Seq(Values) /\ Len(Contents) = d
      /\ \A k \in 1 .. d : Contents[k] = Item(k)
      /\ d \in 0 .. Capacity
  BY ContentsFacts DEF ContentsShape
<1>2. /\ Contents' \in Seq(Values) /\ Len(Contents') = d
      /\ \A k \in 1 .. d : Contents'[k] = Item(k)'
  BY <1>0 DEF ContentsShape
<1>3. ASSUME NEW k \in 1 .. d PROVE Item(k)' = Item(k)
  <2>1. k - 1 \in 0 .. Capacity - 1 /\ Ahead(tail, d) = head /\ Ahead(tail, 0) = tail
    BY <1>1, DistFacts DEF TypeOK, Ahead, Index
  <2>2. Cell(Ahead(tail, k - 1)) \in 0 .. Capacity - 1
    BY <2>1, CellAheadType DEF TypeOK
  <2>3. CASE PushConstruct
    <3>1. d \in 0 .. Capacity - 1
      BY <1>1, <2>3, DistFacts DEF TypeOK, Views, PushConstruct
    <3>2. Cell(Ahead(tail, k - 1)) # Cell(head)
      BY <1>1, <2>1, <3>1, CellInjective DEF TypeOK
    <3> QED
      BY <2>2, <2>3, <3>2 DEF TypeOK, Item, PushConstruct, consumerVars
  <2>4. CASE PopTake
    <3>1. CASE k = 1
      BY <2>1, <2>4, <3>1 DEF Item, PopTake
    <3>2. CASE k # 1
      <4>1. Cell(Ahead(tail, k - 1)) # Cell(tail)
        BY <2>1, <3>2, CellInjective DEF TypeOK
      <4> QED
        BY <2>2, <2>4, <3>2, <4>1 DEF TypeOK, Item, PopTake
    <3> QED
      BY <3>1, <3>2
  <2>5. CASE ~PushConstruct /\ ~PopTake
    <3>1. ~PopPublish
      <4>1. Inc(tail) # tail
        BY DEF TypeOK, Inc, Ahead, Index
      <4> QED
        BY <4>1 DEF PopPublish
    <3>2. UNCHANGED <<storage, c_value>>
      BY <2>5, <3>1 DEF Next, vars, try_push, PushLoad, PushMeasure, PushPublish,
                  try_pop, PopLoad, size, SizeLoadHead, SizeLoadTail, producerVars,
                  consumerVars, observerVars
    <3>3. c_pc' = "publish" <=> c_pc = "publish"
      BY <2>5, <3>1 DEF Next, vars, try_push, PushLoad, PushMeasure, PushPublish,
                  try_pop, PopLoad, size, SizeLoadHead, SizeLoadTail, producerVars,
                  consumerVars, observerVars
    <3> QED
      BY <3>2, <3>3 DEF Item
  <2> QED
    BY <2>3, <2>4, <2>5
<1> QED
  BY <1>1, <1>2, <1>3, SameElements

\* The ring buffer implements the bounded FIFO channel: what is popped is what
\* was pushed, in that order, each value once.
THEOREM Refinement == Spec => ImplementsFifo
<1>1. Init => Fifo!Init
  <2> SUFFICES ASSUME Init PROVE Contents = << >>
    BY DEF Fifo!Init
  <2>1. Dist(head, tail) = 0
    BY DEF Init, Dist
  <2> QED
    BY <2>1, InitIInv, ContentsFacts DEF ContentsShape
<1>2. IInv /\ IInv' /\ [Next]_vars => [Fifo!Next]_Contents
  <2> SUFFICES ASSUME IInv, IInv', [Next]_vars PROVE [Fifo!Next]_Contents
    OBVIOUS
  <2>1. CASE PushPublish
    BY <2>1, PublishIsPush DEF Fifo!Next
  <2>2. CASE PopPublish
    BY <2>2, PublishIsPop DEF Fifo!Next
  <2>3. CASE ~PushPublish /\ ~PopPublish
    <3>1. UNCHANGED <<head, tail>>
      BY <2>3 DEF Next, vars, try_push, PushLoad, PushConstruct, PushMeasure,
                  try_pop, PopLoad, PopTake, size, SizeLoadHead, SizeLoadTail
    <3> QED
      BY <3>1, OtherSteps
  <2> QED
    BY <2>1, <2>2, <2>3
<1> QED
  BY <1>1, <1>2, Invariance, PTL DEF Spec, ImplementsFifo, Fifo!Spec
=============================================================================
