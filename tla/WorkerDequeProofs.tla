------------------------- MODULE WorkerDequeProofs -------------------------
(***************************************************************************)
(* Proofs about WorkerDeque for any number of thieves, any capacity and    *)
(* any number of tasks: every step is a step of StealingDeque, and each    *)
(* task is taken once.                                                     *)
(***************************************************************************)
EXTENDS WorkerDeque, SequenceTheorems, TLAPS

-----------------------------------------------------------------------------
(***************************************************************************)
(* Arithmetic: the cell of an index.                                       *)
(***************************************************************************)

\* Quotient and remainder.
LEMMA DivMod ==
    ASSUME NEW a \in Nat, NEW c \in Nat \ {0}
    PROVE  /\ a % c \in 0 .. c - 1
           /\ a \div c \in Nat
           /\ a = c * (a \div c) + (a % c)
<1>1. a % c \in 0 .. c - 1
  OBVIOUS
<1>2. a \div c \in Nat
  OBVIOUS
<1>3. a = c * (a \div c) + (a % c)
  OBVIOUS
<1> QED
  BY <1>1, <1>2, <1>3

\* The only multiple of c strictly between -c and c is 0.
LEMMA SmallMultiple ==
    ASSUME NEW c \in Nat \ {0}, NEW x \in Int, NEW d \in Int,
           c * x = d, d < c, d > -c
    PROVE  x = 0
<1>1. CASE x >= 1
  <2>1. c * x >= c
    BY <1>1, SMT
  <2> QED
    BY <2>1
<1>2. CASE x <= -1
  <2>1. c * x <= -c
    BY <1>2, SMT
  <2> QED
    BY <2>1
<1> QED
  BY <1>1, <1>2

\* Numbers less than c apart that have the same remainder are equal.
LEMMA DistinctRemainders ==
    ASSUME NEW c \in Nat \ {0}, NEW a \in Nat, NEW b \in Nat,
           a - b < c, b - a < c, a % c = b % c
    PROVE  a = b
<1>1. PICK p \in Nat, r \in 0 .. c - 1 : a % c = r /\ a = c * p + r
  BY DivMod
<1>2. PICK q \in Nat, s \in 0 .. c - 1 : b % c = s /\ b = c * q + s
  BY DivMod
<1>3. c * (p - q) = a - b
  <2>1. r = s
    BY <1>1, <1>2
  <2> QED
    BY <1>1, <1>2, <2>1
<1>4. PICK x \in Int : x = p - q
  BY <1>1, <1>2
<1>5. PICK d \in Int : d = a - b /\ d < c /\ d > -c
  OBVIOUS
<1>6. c * x = d
  BY <1>3, <1>4, <1>5
<1>7. x = 0
  BY <1>5, <1>6, SmallMultiple
<1> QED
  BY <1>5, <1>6, <1>7

\* An index has a cell.
LEMMA CellType ==
    ASSUME NEW i \in Nat
    PROVE  getMask(i) \in 0 .. Capacity - 1
  BY DequeAssumption DEF getMask

\* Indices less than a capacity apart have cells of their own.
LEMMA CellInjective ==
    ASSUME NEW i \in Nat, NEW j \in Nat, i - j < Capacity, j - i < Capacity,
           getMask(i) = getMask(j)
    PROVE  i = j
  BY DequeAssumption, DistinctRemainders DEF getMask

-----------------------------------------------------------------------------
(***************************************************************************)
(* The inductive invariant.                                                *)
(***************************************************************************)
OwnerStates == {"ready", "store", "publish", "load_top", "empty", "take", "last", "won",
                "lost", "read"}
ThiefStates == {"ready", "load_bottom", "read", "cas"}

Typing ==
    /\ top \in Nat /\ bottom \in Int
    /\ buffer \in [0 .. Capacity - 1 -> 0 .. MaxTasks]
    /\ pushed \in 0 .. MaxTasks
    /\ o_pc \in OwnerStates /\ o_t \in Nat /\ o_seen \in 0 .. top
    /\ t_pc \in [Thieves -> ThiefStates]
    /\ t_t \in [Thieves -> Nat]
    /\ t_task \in [Thieves -> 0 .. MaxTasks]
    /\ returned \in [Tasks -> Nat]

\* Where bottom_ may be, seen from top_, at each point of the owner's code.
OwnerView ==
    /\ o_pc \in {"ready", "store", "publish", "take"} => top <= bottom
    /\ o_pc \in {"store", "publish"} => bottom - o_seen < Capacity /\ pushed < MaxTasks
    /\ o_pc = "load_top" => top <= bottom + 1
    /\ o_pc = "last" => o_t = bottom /\ top \in {bottom, bottom + 1}
    /\ o_pc = "empty" => o_t = top /\ top = bottom + 1
    /\ o_pc \in {"won", "lost"} => o_t = bottom /\ top = bottom + 1
    /\ o_pc = "read" => o_t + 1 = bottom /\ top = bottom

\* The contents, and the task the owner has claimed at their end, fit in the buffer.
Bounded ==
    /\ End - top <= Capacity
    /\ o_pc = "take" => End - top < Capacity

\* A thief whose compare-exchange can succeed is after a task that is still queued,
\* and holds that very task.
ThiefView ==
    \A h \in Thieves :
        /\ t_pc[h] # "ready" => t_t[h] <= top
        /\ t_pc[h] \in {"read", "cas"} /\ t_t[h] = top => top < End
        /\ t_pc[h] = "cas" /\ t_t[h] = top => t_task[h] = buffer[getMask(top)]

RaceInv == Typing /\ OwnerView /\ Bounded /\ ThiefView

Cells == top .. End - 1

\* A task that was pushed is queued in one cell, or has been taken once.
Conserved ==
    /\ o_pc = "publish" => buffer[getMask(bottom)] = pushed + 1
    /\ \A i \in Cells : /\ buffer[getMask(i)] \in 1 .. pushed
                        /\ Taken[buffer[getMask(i)]] = 0
    /\ \A i, j \in Cells : buffer[getMask(i)] = buffer[getMask(j)] => i = j
    /\ \A x \in Tasks : /\ Taken[x] \in {0, 1}
                        /\ x > pushed => Taken[x] = 0
                        /\ x <= pushed => Taken[x] = 1 \/ \E i \in Cells : buffer[getMask(i)] = x

DequeInv == RaceInv /\ Conserved

-----------------------------------------------------------------------------
(***************************************************************************)
(* The races: RaceInv is inductive by itself.                              *)
(***************************************************************************)

\* The deque starts empty.
LEMMA RaceInit == Init => RaceInv
  BY DequeAssumption
     DEF Init, RaceInv, Typing, OwnerStates, ThiefStates, OwnerView, Bounded, ThiefView, End

\* push(): the store goes to a cell outside the contents.
LEMMA PushRace == RaceInv /\ push => RaceInv'
<1> SUFFICES ASSUME RaceInv, push PROVE RaceInv'
  OBVIOUS
<1> USE DequeAssumption DEF RaceInv
<1>1. CASE PushLoad
  <2> USE <1>1 DEF PushLoad, thiefVars
  <2>1. End' = End
    BY DEF End
  <2>2. Typing'
    BY DEF Typing, OwnerStates
  <2>3. OwnerView' /\ Bounded'
    BY <2>1 DEF Typing, OwnerView, Bounded
  <2>4. ThiefView'
    BY <2>1 DEF ThiefView
  <2> QED
    BY <2>2, <2>3, <2>4
<1>2. CASE PushStore
  <2> USE <1>2 DEF PushStore, thiefVars
  <2>1. End = bottom /\ End' = End
    BY DEF End
  <2>2. bottom \in Nat /\ top <= bottom /\ bottom - top < Capacity /\ pushed < MaxTasks
    BY DEF Typing, OwnerView
  <2>3. Typing'
    <3>1. getMask(bottom) \in 0 .. Capacity - 1
      BY <2>2, CellType
    <3>2. pushed + 1 \in 0 .. MaxTasks
      BY <2>2 DEF Typing
    <3>3. buffer' \in [0 .. Capacity - 1 -> 0 .. MaxTasks]
      BY <3>1, <3>2 DEF Typing
    <3> QED
      BY <3>3 DEF Typing, OwnerStates
  <2>4. OwnerView' /\ Bounded'
    BY <2>1 DEF Typing, OwnerView, Bounded
  <2>5. ASSUME NEW h \in Thieves, t_pc[h] = "cas", t_t[h] = top
        PROVE  t_task[h] = buffer'[getMask(top)]
    <3>1. top < bottom
      BY <2>1, <2>5 DEF ThiefView
    <3>2. getMask(top) # getMask(bottom)
      BY <2>2, <3>1, CellInjective DEF Typing
    <3> QED
      BY <2>2, <2>5, <3>2, CellType DEF ThiefView, Typing
  <2>6. ThiefView'
    BY <2>1, <2>5 DEF ThiefView
  <2> QED
    BY <2>3, <2>4, <2>6
<1>3. CASE PushPublish
  <2> USE <1>3 DEF PushPublish, thiefVars
  <2>1. End = bottom /\ End' = bottom + 1
    BY DEF End
  <2>2. Typing'
    BY DEF Typing, OwnerStates, OwnerView
  <2>3. OwnerView' /\ Bounded'
    BY <2>1 DEF Typing, OwnerView, Bounded
  <2>4. ThiefView'
    BY <2>1 DEF ThiefView, Typing
  <2> QED
    BY <2>2, <2>3, <2>4
<1> QED
  BY <1>1, <1>2, <1>3 DEF push

\* Returning a task keeps the counters numbers.
LEMMA ReturnType ==
    ASSUME NEW x, returned \in [Tasks -> Nat], Return(x)
    PROVE  returned' \in [Tasks -> Nat]
<1>1. ASSUME NEW y \in Tasks PROVE returned'[y] \in Nat
  BY DEF Return
<1> QED
  BY <1>1 DEF Return

\* A step of the owner after which the contents end where they ended, or are empty
\* with no thief left that could win.
LEMMA SameThieves ==
    ASSUME RaceInv, UNCHANGED <<top, buffer, thiefVars>>,
           End' = End \/ End <= top
    PROVE  ThiefView'
<1> USE DEF RaceInv, thiefVars
<1>1. End \in Int /\ top \in Int
  BY DEF Typing, End
<1> QED
  BY <1>1 DEF ThiefView

\* pop(): the decision at load_top, and the compare-exchange for the last task.
LEMMA PopRace == RaceInv /\ pop => RaceInv'
<1> SUFFICES ASSUME RaceInv, pop PROVE RaceInv'
  OBVIOUS
<1> USE DequeAssumption DEF RaceInv
<1>1. CASE PopDecrement
  <2> USE <1>1 DEF PopDecrement
  <2>1. End' = End
    BY DEF End, Typing
  <2>2. Typing'
    BY DEF Typing, OwnerStates, thiefVars
  <2>3. OwnerView' /\ Bounded'
    BY <2>1 DEF Typing, OwnerView, Bounded
  <2> QED
    BY <2>1, <2>2, <2>3, SameThieves
<1>2. CASE PopLoadTop
  <2> USE <1>2 DEF PopLoadTop
  <2>1. End = bottom + 1 /\ bottom \in Int /\ top \in Nat /\ top <= bottom + 1
    BY DEF End, Typing, OwnerView
  <2>2. Typing'
    BY DEF Typing, OwnerStates, thiefVars
  <2>3. CASE bottom < top
    <3>1. End' = bottom /\ o_pc' = "empty"
      BY <2>3 DEF End
    <3>2. OwnerView' /\ Bounded'
      BY <2>1, <2>3, <3>1 DEF OwnerView, Bounded
    <3> QED
      BY <2>1, <2>2, <2>3, <3>2, SameThieves
  <2>4. CASE bottom > top
    <3>1. End' = bottom /\ o_pc' = "take"
      BY <2>1, <2>4 DEF End
    <3>2. OwnerView' /\ Bounded'
      BY <2>1, <2>4, <3>1 DEF OwnerView, Bounded
    <3>3. ThiefView'
      BY <2>4, <3>1 DEF ThiefView, thiefVars
    <3> QED
      BY <2>2, <3>2, <3>3
  <2>5. CASE bottom = top
    <3>1. End' = End /\ o_pc' = "last"
      BY <2>1, <2>5 DEF End
    <3>2. OwnerView' /\ Bounded'
      BY <2>1, <2>5, <3>1 DEF OwnerView, Bounded
    <3> QED
      BY <2>2, <3>1, <3>2, SameThieves
  <2> QED
    BY <2>1, <2>3, <2>4, <2>5
<1>3. CASE PopEmpty
  <2> USE <1>3 DEF PopEmpty
  <2>1. End = bottom /\ End' = o_t /\ o_t = top /\ End <= top
    BY DEF End, OwnerView, Typing
  <2>2. Typing'
    BY DEF Typing, OwnerStates, thiefVars
  <2>3. OwnerView' /\ Bounded'
    BY <2>1 DEF Typing, OwnerView, Bounded
  <2> QED
    BY <2>1, <2>2, <2>3, SameThieves
<1>4. CASE PopTake
  <2> USE <1>4 DEF PopTake
  <2>1. End' = End
    BY DEF End
  <2>2. Typing'
    BY ReturnType DEF Typing, OwnerStates, thiefVars
  <2>3. OwnerView' /\ Bounded'
    BY <2>1 DEF Typing, OwnerView, Bounded
  <2> QED
    BY <2>1, <2>2, <2>3, SameThieves
<1>5. CASE PopLast
  <2> USE <1>5 DEF PopLast
  <2>1. End = bottom + 1 /\ o_t = bottom /\ top \in {bottom, bottom + 1} /\ bottom \in Int
    BY DEF End, OwnerView, Typing
  <2>2. Typing'
    BY DEF Typing, OwnerStates, thiefVars
  <2>3. CASE top = o_t
    <3>1. End' = bottom /\ o_pc' = "won" /\ top' = top + 1
      BY <2>3 DEF End
    <3>2. OwnerView' /\ Bounded'
      BY <2>1, <2>3, <3>1 DEF OwnerView, Bounded
    <3>3. ThiefView'
      BY <3>1 DEF ThiefView, thiefVars, Typing
    <3> QED
      BY <2>2, <3>2, <3>3
  <2>4. CASE top # o_t
    <3>1. End' = bottom /\ o_pc' = "lost" /\ top' = top
      BY <2>4 DEF End
    <3>2. OwnerView' /\ Bounded'
      BY <2>1, <2>4, <3>1 DEF OwnerView, Bounded
    <3> QED
      BY <2>1, <2>2, <2>4, <3>1, <3>2, SameThieves
  <2> QED
    BY <2>3, <2>4
<1>6. CASE PopRestore
  <2> USE <1>6 DEF PopRestore
  <2>1. End = bottom /\ o_t = bottom /\ top = bottom + 1 /\ End' = bottom + 1 /\ bottom \in Int
    BY DEF End, OwnerView, Typing
  <2>2. Typing'
    BY DEF Typing, OwnerStates, thiefVars
  <2>3. OwnerView' /\ Bounded'
    BY <2>1 DEF Typing, OwnerView, Bounded
  <2> QED
    BY <2>1, <2>2, <2>3, SameThieves
<1>7. CASE PopRead
  <2> USE <1>7 DEF PopRead
  <2>1. End' = End
    BY DEF End
  <2>2. Typing'
    BY ReturnType DEF Typing, OwnerStates, thiefVars
  <2>3. OwnerView' /\ Bounded'
    BY <2>1 DEF Typing, OwnerView, Bounded
  <2> QED
    BY <2>1, <2>2, <2>3, SameThieves
<1> QED
  BY <1>1, <1>2, <1>3, <1>4, <1>5, <1>6, <1>7 DEF pop

\* steal(): a thief that looked at bottom_ and found something there, and whose
\* compare-exchange succeeds, takes the oldest task of a deque that is not empty.
LEMMA StealRace ==
    ASSUME RaceInv, NEW h \in Thieves, steal(h)
    PROVE  RaceInv'
<1> USE DequeAssumption DEF RaceInv
<1>0. End' = End
  BY DEF End, steal, StealLoadTop, StealLoadBottom, StealRead, StealCas, ownerVars
<1>1. CASE StealLoadTop(h)
  <2> USE <1>1 DEF StealLoadTop, ownerVars
  <2>1. Typing'
    BY DEF Typing, ThiefStates
  <2>2. OwnerView' /\ Bounded'
    BY <1>0 DEF OwnerView, Bounded
  <2>3. ThiefView'
    BY <1>0 DEF ThiefView, Typing
  <2> QED
    BY <2>1, <2>2, <2>3
<1>2. CASE StealLoadBottom(h)
  <2> USE <1>2 DEF StealLoadBottom, ownerVars
  <2>1. Typing'
    BY DEF Typing, ThiefStates
  <2>2. OwnerView' /\ Bounded'
    BY <1>0 DEF OwnerView, Bounded
  <2>3. bottom - t_t[h] > 0 /\ t_t[h] = top => top < End
    BY DEF End, Typing
  <2>4. ThiefView'
    <3> SUFFICES ASSUME NEW g \in Thieves PROVE
            /\ t_pc'[g] # "ready" => t_t[g] <= top
            /\ t_pc'[g] \in {"read", "cas"} /\ t_t[g] = top => top < End
            /\ t_pc'[g] = "cas" /\ t_t[g] = top => t_task[g] = buffer[getMask(top)]
      BY <1>0 DEF ThiefView
    <3>1. CASE g = h
      <4>1. t_t[g] <= top
        BY <3>1 DEF ThiefView
      <4>2. bottom - t_t[h] <= 0 \/ bottom - t_t[h] > 0
        BY DEF Typing
      <4> QED
        BY <2>3, <3>1, <4>1, <4>2 DEF Typing
    <3>2. CASE g # h
      BY <3>2 DEF ThiefView, Typing
    <3> QED
      BY <3>1, <3>2
  <2> QED
    BY <2>1, <2>2, <2>4
<1>3. CASE StealRead(h)
  <2> USE <1>3 DEF StealRead, ownerVars
  <2>1. Typing'
    BY CellType DEF Typing, ThiefStates
  <2>2. OwnerView' /\ Bounded'
    BY <1>0 DEF OwnerView, Bounded
  <2>3. ThiefView'
    BY <1>0 DEF ThiefView, Typing
  <2> QED
    BY <2>1, <2>2, <2>3
<1>4. CASE StealCas(h)
  <2> USE <1>4 DEF StealCas, ownerVars
  <2>1. Typing'
    BY ReturnType DEF Typing, ThiefStates
  <2>2. CASE top # t_t[h]
    <3>1. OwnerView' /\ Bounded'
      BY <1>0, <2>2 DEF OwnerView, Bounded
    <3>2. ThiefView'
      BY <1>0, <2>2 DEF ThiefView, Typing
    <3> QED
      BY <2>1, <3>1, <3>2
  <2>3. CASE top = t_t[h]
    <3>1. top' = top + 1 /\ top < End
      BY <2>3 DEF ThiefView
    <3>2. Bounded'
      BY <1>0, <3>1 DEF Bounded, Typing, End
    <3>3. OwnerView'
      BY <3>1 DEF OwnerView, Typing, End, OwnerStates
    <3>4. ThiefView'
      BY <3>1 DEF ThiefView, Typing
    <3> QED
      BY <2>1, <3>2, <3>3, <3>4
  <2> QED
    BY <2>2, <2>3
<1> QED
  BY <1>1, <1>2, <1>3, <1>4 DEF steal

-----------------------------------------------------------------------------
(***************************************************************************)
(* What the abstract deque sees.                                           *)
(***************************************************************************)
Size == IF End > top THEN End - top ELSE 0

\* Items is a sequence of that length.
ItemsShape ==
    /\ Size \in 0 .. Capacity
    /\ Items \in Seq(0 .. MaxTasks)
    /\ Len(Items) = Size
    /\ \A k \in 1 .. Size : Items[k] = buffer[getMask(top + k - 1)]

LEMMA ItemsFacts == RaceInv => ItemsShape
<1> SUFFICES ASSUME RaceInv PROVE ItemsShape
  OBVIOUS
<1> USE DequeAssumption DEF RaceInv
<1>1. End \in Int /\ top \in Nat
  BY DEF Typing, End
<1>2. Size \in 0 .. Capacity
  BY <1>1 DEF Size, Bounded
<1>3. Items = [k \in 1 .. Size |-> buffer[getMask(top + k - 1)]]
  BY DEF Items, Size
<1>4. ASSUME NEW k \in 1 .. Size PROVE buffer[getMask(top + k - 1)] \in 0 .. MaxTasks
  <2>1. top + k - 1 \in Nat
    BY <1>1, <1>2
  <2>2. getMask(top + k - 1) \in 0 .. Capacity - 1
    BY <2>1, CellType
  <2> QED
    BY <2>2 DEF Typing
<1>5. Items \in [1 .. Size -> 0 .. MaxTasks]
  BY <1>3, <1>4
<1>6. Items \in Seq(0 .. MaxTasks) /\ Len(Items) = Size
  BY <1>2, <1>5
<1> QED
  BY <1>2, <1>3, <1>6 DEF ItemsShape

\* Sequences of the same length with the same elements are the same.
LEMMA SameElements ==
    ASSUME NEW S, NEW s \in Seq(S), NEW t \in Seq(S), Len(s) = Len(t),
           \A k \in 1 .. Len(s) : s[k] = t[k]
    PROVE  s = t
  OBVIOUS

\* A sequence without its last element.
LEMMA Front ==
    ASSUME NEW S, NEW s \in Seq(S), NEW n \in Nat, n = Len(s), n >= 1
    PROVE  /\ SubSeq(s, 1, n - 1) \in Seq(S)
           /\ Len(SubSeq(s, 1, n - 1)) = n - 1
           /\ \A k \in 1 .. n - 1 : SubSeq(s, 1, n - 1)[k] = s[k]
<1>1. \A k \in 1 .. n - 1 : s[k] \in S
  OBVIOUS
<1>2. PICK m \in Nat : m = n - 1
  OBVIOUS
<1>3. /\ SubSeq(s, 1, m) \in Seq(S)
      /\ Len(SubSeq(s, 1, m)) = IF 1 <= m THEN m - 1 + 1 ELSE 0
      /\ \A k \in 1 .. m - 1 + 1 : SubSeq(s, 1, m)[k] = s[1 + k - 1]
  BY <1>1, <1>2, SubSeqProperties
<1>4. m - 1 + 1 = m /\ \A k \in 1 .. m : 1 + k - 1 = k
  BY <1>2
<1> QED
  BY <1>2, <1>3, <1>4

\* What the owner has claimed, point by point.
LEMMA ClaimedFacts ==
    /\ o_pc = "take" => Claimed = {buffer[getMask(bottom)]}
    /\ o_pc \in {"won", "read"} => Claimed = {buffer[getMask(o_t)]}
    /\ o_pc \notin {"take", "won", "read"} => Claimed = {}
  BY DEF Claimed

\* Each task was taken a number of times.
LEMMA TakenType ==
    ASSUME Typing
    PROVE  /\ Taken \in [Tasks -> Nat]
           /\ \A x \in Tasks : Taken[x] = returned[x] + IF x \in Claimed THEN 1 ELSE 0
  BY DEF Typing, Taken

\* The cells of the contents.
LEMMA CellsFacts ==
    ASSUME RaceInv
    PROVE  /\ Cells \subseteq Nat
           /\ \A i \in Cells : getMask(i) \in 0 .. Capacity - 1
           /\ \A i, j \in Cells : i - j < Capacity
<1> USE DequeAssumption DEF RaceInv, Cells
<1>1. End \in Int /\ top \in Nat /\ End - top <= Capacity
  BY DEF Typing, End, Bounded
<1>2. Cells \subseteq Nat
  BY <1>1
<1> QED
  BY <1>1, <1>2, CellType

\* An interval that ends before it begins.
LEMMA NoneBetween ==
    ASSUME NEW a \in Int, NEW b \in Int, ~(b > a)
    PROVE  a .. b - 1 = {}
  OBVIOUS

-----------------------------------------------------------------------------
(***************************************************************************)
(* Steps the abstract deque does not see.                                  *)
(***************************************************************************)
LEMMA Silent ==
    ASSUME DequeInv, RaceInv', top' = top, End' = End \/ (End <= top /\ End' <= top),
           \A i \in Cells : buffer'[getMask(i)] = buffer[getMask(i)],
           pushed' = pushed, Taken' = Taken,
           o_pc' = "publish" => buffer'[getMask(bottom')] = pushed' + 1
    PROVE  Conserved' /\ UNCHANGED <<Items, Taken>>
<1> USE DEF DequeInv
<1>1. End \in Int /\ End' \in Int /\ top \in Int
  BY DEF RaceInv, Typing, End
<1>2. Cells' = Cells /\ Size' = Size
  <2>1. CASE End' = End
    BY <2>1 DEF Cells, Size
  <2>2. CASE End <= top /\ End' <= top
    <3>1. ~(End > top) /\ ~(End' > top')
      BY <1>1, <2>2
    <3>2. Cells = {} /\ Cells' = {}
      BY <1>1, <3>1, NoneBetween DEF Cells
    <3>3. Size = 0 /\ Size' = 0
      BY <3>1 DEF Size
    <3> QED
      BY <3>2, <3>3
  <2> QED
    BY <2>1, <2>2
<1>3. Conserved'
  <2>1. \A i \in Cells' : /\ buffer'[getMask(i)] \in 1 .. pushed'
                          /\ Taken'[buffer'[getMask(i)]] = 0
    BY <1>2 DEF Conserved
  <2>2. \A i, j \in Cells' : buffer'[getMask(i)] = buffer'[getMask(j)] => i = j
    BY <1>2 DEF Conserved
  <2>3. \A x \in Tasks :
           /\ Taken'[x] \in {0, 1}
           /\ x > pushed' => Taken'[x] = 0
           /\ x <= pushed' => Taken'[x] = 1 \/ \E i \in Cells' : buffer'[getMask(i)] = x
    BY <1>2 DEF Conserved
  <2> QED
    BY <2>1, <2>2, <2>3 DEF Conserved
<1>4. ItemsShape /\ ItemsShape'
  BY ItemsFacts, PTL
<1>5. ASSUME NEW k \in 1 .. Size PROVE Items'[k] = Items[k]
  <2>1. top + k - 1 \in Cells
    BY <1>1 DEF Cells, Size
  <2> QED
    BY <1>2, <1>4, <2>1 DEF ItemsShape
<1>6. Items' = Items
  BY <1>2, <1>4, <1>5, SameElements DEF ItemsShape
<1> QED
  BY <1>3, <1>6

\* push() up to its last step: nothing is visible before bottom_ moves.
LEMMA PushSilent ==
    ASSUME DequeInv, RaceInv', PushLoad \/ PushStore
    PROVE  Conserved' /\ UNCHANGED <<Items, Taken>>
<1> USE DEF DequeInv
<1>1. End' = End /\ top' = top /\ pushed' = pushed
  BY DEF PushLoad, PushStore, End
<1>2. Claimed = {} /\ Claimed' = {} /\ returned' = returned
  <2>1. o_pc \in {"ready", "store"} /\ o_pc' \in {"ready", "store", "publish"}
        /\ returned' = returned
    BY DEF PushLoad, PushStore
  <2> QED
    BY <2>1 DEF Claimed
<1>3. Taken' = Taken
  BY <1>2 DEF Taken
<1>4. CASE PushLoad
  BY <1>1, <1>3, <1>4, Silent DEF PushLoad
<1>5. CASE PushStore
  <2>1. bottom \in Nat /\ End = bottom /\ bottom - top < Capacity /\ top \in Nat /\ top <= bottom
    <3>1. o_pc = "store"
      BY <1>5 DEF PushStore
    <3> QED
      BY <3>1, DequeAssumption DEF RaceInv, OwnerView, Typing, End
  <2>2. getMask(bottom) \in 0 .. Capacity - 1
    BY <2>1, CellType
  <2>3. buffer'[getMask(bottom)] = pushed + 1 /\ bottom' = bottom
    BY <1>5, <2>2 DEF PushStore, RaceInv, Typing
  <2>4. ASSUME NEW i \in Cells PROVE buffer'[getMask(i)] = buffer[getMask(i)]
    <3>1. i \in Nat /\ i # bottom /\ i - bottom < Capacity /\ bottom - i < Capacity
      BY <2>1, DequeAssumption DEF Cells
    <3>2. getMask(i) # getMask(bottom) /\ getMask(i) \in 0 .. Capacity - 1
      BY <2>1, <3>1, CellInjective, CellType
    <3> QED
      BY <1>5, <3>2 DEF PushStore, RaceInv, Typing
  <2> QED
    BY <1>1, <1>3, <2>3, <2>4, Silent
<1> QED
  BY <1>4, <1>5

\* Returning the claimed task: it was counted when it was claimed.
LEMMA ReturnClaimed ==
    ASSUME Typing, NEW x, Claimed = {x}, Claimed' = {}, Return(x)
    PROVE  Taken' = Taken
<1>1. ASSUME NEW y \in Tasks
      PROVE  returned'[y] + 0 = returned[y] + IF y \in {x} THEN 1 ELSE 0
  BY DEF Typing, Return
<1> QED
  BY <1>1 DEF Taken

\* pop() up to its decision, the race it loses, and what it does once it has won.
LEMMA PopSilent ==
    ASSUME DequeInv, RaceInv', pop,
           ~(PopLoadTop /\ bottom > top), ~(PopLast /\ top = o_t)
    PROVE  Conserved' /\ UNCHANGED <<Items, Taken>>
<1> USE DEF DequeInv, RaceInv
<1>0. top \in Nat /\ bottom \in Int /\ o_t \in Nat
  BY DEF Typing
<1>1. CASE PopDecrement
  <2>1. End' = End /\ Claimed = {} /\ Claimed' = {} /\ o_pc' = "load_top"
    BY <1>0, <1>1 DEF PopDecrement, End, Claimed
  <2>2. Taken' = Taken
    BY <1>1, <2>1 DEF Taken, PopDecrement
  <2> QED
    BY <1>1, <2>1, <2>2, Silent DEF PopDecrement
<1>2. CASE PopLoadTop
  <2>1. /\ o_pc = "load_top" /\ bottom <= top /\ top <= bottom + 1
        /\ UNCHANGED <<top, bottom, buffer, pushed, returned>>
        /\ o_pc' = IF bottom < top THEN "empty" ELSE "last"
    BY <1>0, <1>2 DEF PopLoadTop, OwnerView
  <2>2. End = bottom + 1 /\ End' = IF bottom < top THEN bottom ELSE bottom + 1
    BY <2>1 DEF End
  <2>3. Claimed = {} /\ Claimed' = {}
    BY <2>1 DEF Claimed
  <2>4. Taken' = Taken
    BY <2>1, <2>3 DEF Taken
  <2> QED
    BY <1>0, <2>1, <2>2, <2>4, Silent
<1>3. CASE PopEmpty
  <2>1. /\ o_pc = "empty" /\ o_pc' = "ready" /\ bottom' = top /\ top = bottom + 1
        /\ UNCHANGED <<top, buffer, pushed, returned>>
    BY <1>3 DEF PopEmpty, OwnerView
  <2>2. End = bottom /\ End' = top
    BY <2>1 DEF End
  <2>3. Claimed = {} /\ Claimed' = {}
    BY <2>1 DEF Claimed
  <2>4. Taken' = Taken
    BY <2>1, <2>3 DEF Taken
  <2> QED
    BY <1>0, <2>1, <2>2, <2>4, Silent
<1>4. CASE PopTake
  <2>1. /\ o_pc = "take" /\ o_pc' = "ready" /\ Return(buffer[getMask(bottom)])
        /\ UNCHANGED <<top, bottom, buffer, pushed>>
    BY <1>4 DEF PopTake
  <2>2. End' = End
    BY <2>1 DEF End
  <2>3. Claimed = {buffer[getMask(bottom)]} /\ Claimed' = {}
    BY <2>1 DEF Claimed
  <2>4. Taken' = Taken
    BY <2>1, <2>3, ReturnClaimed
  <2> QED
    BY <1>0, <2>1, <2>2, <2>4, Silent
<1>5. CASE PopLast
  <2>1. /\ o_pc = "last" /\ o_pc' = "lost" /\ top = bottom + 1
        /\ UNCHANGED <<top, bottom, buffer, pushed, returned>>
    BY <1>5 DEF PopLast, OwnerView
  <2>2. End = bottom + 1 /\ End' = bottom
    BY <2>1 DEF End
  <2>3. Claimed = {} /\ Claimed' = {}
    BY <2>1 DEF Claimed
  <2>4. Taken' = Taken
    BY <2>1, <2>3 DEF Taken
  <2> QED
    BY <1>0, <2>1, <2>2, <2>4, Silent
<1>6. CASE PopRestore
  <2>1. /\ o_pc \in {"won", "lost"} /\ o_pc' = IF o_pc = "won" THEN "read" ELSE "ready"
        /\ o_t = bottom /\ top = bottom + 1 /\ bottom' = bottom + 1
        /\ UNCHANGED <<top, buffer, pushed, returned, o_t>>
    BY <1>6 DEF PopRestore, OwnerView
  <2>2. End = bottom /\ End' = bottom + 1
    BY <2>1 DEF End
  <2>3. Claimed' = Claimed
    BY <2>1 DEF Claimed
  <2>4. Taken' = Taken
    BY <2>1, <2>3 DEF Taken
  <2>5. o_pc' # "publish"
    BY <2>1
  <2> QED
    BY <1>0, <2>1, <2>2, <2>4, <2>5, Silent
<1>7. CASE PopRead
  <2>1. /\ o_pc = "read" /\ o_pc' = "ready" /\ Return(buffer[getMask(o_t)])
        /\ UNCHANGED <<top, bottom, buffer, pushed>>
    BY <1>7 DEF PopRead
  <2>2. End' = End
    BY <2>1 DEF End
  <2>3. Claimed = {buffer[getMask(o_t)]} /\ Claimed' = {}
    BY <2>1 DEF Claimed
  <2>4. Taken' = Taken
    BY <2>1, <2>3, ReturnClaimed
  <2> QED
    BY <1>0, <2>1, <2>2, <2>4, Silent
<1> QED
  BY <1>1, <1>2, <1>3, <1>4, <1>5, <1>6, <1>7 DEF pop

\* steal() up to its compare-exchange, and one that fails.
LEMMA StealSilent ==
    ASSUME DequeInv, RaceInv', NEW h \in Thieves, steal(h), ~(StealCas(h) /\ top = t_t[h])
    PROVE  Conserved' /\ UNCHANGED <<Items, Taken>>
<1>1. UNCHANGED <<top, bottom, buffer, pushed, o_pc, o_t, returned>>
  BY DEF steal, StealLoadTop, StealLoadBottom, StealRead, StealCas, ownerVars
<1>2. End' = End /\ Claimed' = Claimed
  BY <1>1 DEF End, Claimed
<1>3. Taken' = Taken
  BY <1>1, <1>2 DEF Taken
<1> QED
  BY <1>1, <1>2, <1>3, Silent DEF DequeInv, Conserved

-----------------------------------------------------------------------------
(***************************************************************************)
(* Steps that take a task.                                                 *)
(***************************************************************************)

\* What was pushed is a task.
LEMMA PushedAreTasks ==
    ASSUME Typing, NEW x \in 1 .. pushed
    PROVE  x \in Tasks
<1>1. pushed \in Nat /\ pushed <= MaxTasks /\ MaxTasks \in Nat
  BY DequeAssumption DEF Typing
<1> QED
  BY <1>1 DEF Tasks

\* One cell leaves the contents, and its task is counted.
LEMMA OneTaken ==
    ASSUME DequeInv, NEW i \in Cells, Cells' = Cells \ {i}, UNCHANGED <<buffer, pushed>>,
           Taken' = [Taken EXCEPT ![buffer[getMask(i)]] = @ + 1],
           o_pc' = "publish" => o_pc = "publish" /\ bottom' = bottom
    PROVE  Conserved'
<1> USE DEF DequeInv, RaceInv
<1> DEFINE x == buffer[getMask(i)]
<1>1. x \in 1 .. pushed /\ Taken[x] = 0
  BY DEF Conserved
<1>2. x \in Tasks /\ Taken \in [Tasks -> Nat]
  BY <1>1, PushedAreTasks, TakenType
<1>3. \A y \in Tasks : Taken'[y] = IF y = x THEN 1 ELSE Taken[y]
  BY <1>1, <1>2
<1> HIDE DEF x
<1>4. ASSUME NEW j \in Cells' PROVE buffer[getMask(j)] \in 1 .. pushed /\ Taken'[buffer[getMask(j)]] = 0
  <2>1. j \in Cells /\ buffer[getMask(j)] # x
    BY DEF Conserved, x
  <2>2. buffer[getMask(j)] \in 1 .. pushed /\ Taken[buffer[getMask(j)]] = 0
    BY <2>1 DEF Conserved
  <2>3. buffer[getMask(j)] \in Tasks
    BY <2>2, PushedAreTasks
  <2> QED
    BY <1>3, <2>1, <2>2, <2>3
<1>5. ASSUME NEW y \in Tasks
      PROVE  /\ Taken'[y] \in {0, 1}
             /\ y > pushed => Taken'[y] = 0
             /\ y <= pushed => Taken'[y] = 1 \/ \E j \in Cells' : buffer[getMask(j)] = y
  <2>1. CASE y = x
    BY <1>1, <1>3, <2>1 DEF Typing
  <2>2. CASE y # x
    <3>1. /\ Taken[y] \in {0, 1}
          /\ y > pushed => Taken[y] = 0
          /\ y <= pushed => Taken[y] = 1 \/ \E j \in Cells : buffer[getMask(j)] = y
      BY DEF Conserved
    <3>2. ASSUME NEW j \in Cells, buffer[getMask(j)] = y PROVE j \in Cells'
      BY <2>2, <3>2 DEF x
    <3> QED
      BY <1>3, <2>2, <3>1, <3>2
  <2> QED
    BY <2>1, <2>2
<1>6. \A j, k \in Cells' : buffer[getMask(j)] = buffer[getMask(k)] => j = k
  BY DEF Conserved
<1> QED
  BY <1>4, <1>5, <1>6 DEF Conserved

\* The owner claims a task.
LEMMA OneClaimed ==
    ASSUME Typing, NEW x \in Tasks, Claimed = {}, Claimed' = {x}, returned' = returned
    PROVE  Taken' = [Taken EXCEPT ![x] = @ + 1]
<1>1. ASSUME NEW y \in Tasks
      PROVE  returned[y] + (IF y \in {x} THEN 1 ELSE 0)
               = IF y = x THEN (returned[y] + 0) + 1 ELSE returned[y] + 0
  BY DEF Typing
<1> QED
  BY <1>1 DEF Taken

\* The two steps at which pop() decides that it has a task: the abstract pop.
LEMMA PopIsPop ==
    ASSUME DequeInv, RaceInv', (PopLoadTop /\ bottom > top) \/ (PopLast /\ top = o_t)
    PROVE  Conserved' /\ Deque!Pop
<1> USE DEF DequeInv
<1>1. top \in Nat /\ bottom \in Nat /\ top <= bottom
  <2>1. top \in Nat /\ bottom \in Int
    BY DEF RaceInv, Typing
  <2>2. CASE PopLoadTop /\ bottom > top
    BY <2>1, <2>2
  <2>3. CASE PopLast /\ top = o_t
    BY <2>1, <2>3 DEF PopLast, RaceInv, OwnerView
  <2> QED
    BY <2>2, <2>3
<1>2. /\ End = bottom + 1 /\ End' = bottom
      /\ Claimed = {} /\ Claimed' = {buffer[getMask(bottom)]}
      /\ UNCHANGED <<buffer, pushed, returned>>
      /\ top' = top \/ (top' = bottom + 1 /\ top = bottom)
      /\ o_pc' # "publish"
  <2>1. CASE PopLoadTop /\ bottom > top
    <3>1. /\ o_pc = "load_top" /\ o_pc' = "take"
          /\ UNCHANGED <<top, bottom, buffer, pushed, returned>>
      BY <1>1, <2>1 DEF PopLoadTop
    <3> QED
      BY <3>1 DEF End, Claimed
  <2>2. CASE PopLast /\ top = o_t
    <3>1. /\ o_pc = "last" /\ o_pc' = "won" /\ top' = o_t + 1 /\ o_t = bottom /\ o_t' = o_t
          /\ UNCHANGED <<bottom, buffer, pushed, returned>>
      BY <2>2 DEF PopLast, RaceInv, OwnerView
    <3> QED
      BY <2>2, <3>1 DEF End, Claimed
  <2> QED
    BY <2>1, <2>2
<1>3. bottom \in Cells /\ Cells' = Cells \ {bottom}
  <2>1. Cells = top .. bottom /\ Cells' = top' .. bottom - 1
    BY <1>1, <1>2 DEF Cells
  <2>2. CASE top' = top
    BY <1>1, <2>1, <2>2
  <2>3. CASE top' = bottom + 1 /\ top = bottom
    BY <1>1, <2>1, <2>3
  <2> QED
    BY <1>2, <2>1, <2>2, <2>3
<1> DEFINE x == buffer[getMask(bottom)]
<1>4. x \in Tasks
  BY <1>3, PushedAreTasks DEF Conserved, RaceInv
<1>5. Taken' = [Taken EXCEPT ![x] = @ + 1]
  BY <1>2, <1>4, OneClaimed DEF RaceInv
<1>6. Conserved'
  BY <1>2, <1>3, <1>5, OneTaken
<1>7. ItemsShape /\ ItemsShape'
  BY ItemsFacts, PTL
<1>8. /\ Size = bottom - top + 1 /\ Size \in Nat /\ Size # 0
      /\ Size' = Size - 1
  BY <1>1, <1>2 DEF Size
<1>9. Items # << >> /\ Items[Len(Items)] = x
  <2>1. Items[Size] = buffer[getMask(top + Size - 1)]
    BY <1>7, <1>8 DEF ItemsShape
  <2>2. top + Size - 1 = bottom
    BY <1>1, <1>8
  <2> QED
    BY <1>7, <1>8, <2>1, <2>2 DEF ItemsShape
<1>10. Items' = SubSeq(Items, 1, Len(Items) - 1)
  <2>1. /\ SubSeq(Items, 1, Size - 1) \in Seq(0 .. MaxTasks)
        /\ Len(SubSeq(Items, 1, Size - 1)) = Size - 1
        /\ \A k \in 1 .. Size - 1 : SubSeq(Items, 1, Size - 1)[k] = Items[k]
    <3>1. Items \in Seq(0 .. MaxTasks) /\ Len(Items) = Size /\ Size \in Nat /\ Size >= 1
      BY <1>7, <1>8 DEF ItemsShape
    <3> QED
      BY <3>1, Front
  <2>2. ASSUME NEW k \in 1 .. Size - 1 PROVE Items'[k] = Items[k]
    <3>1. top' = top
      BY <1>1, <1>2, <1>8
    <3>2. k \in 1 .. Size /\ k \in 1 .. Size'
      BY <1>8
    <3> QED
      BY <1>2, <1>7, <3>1, <3>2 DEF ItemsShape
  <2>3. Items' \in Seq(0 .. MaxTasks) /\ Len(Items') = Size - 1
    BY <1>7, <1>8 DEF ItemsShape
  <2>4. Items' = SubSeq(Items, 1, Size - 1)
    BY <2>1, <2>2, <2>3, SameElements
  <2> QED
    BY <1>7, <2>4 DEF ItemsShape
<1> QED
  BY <1>5, <1>6, <1>9, <1>10 DEF Deque!Pop, Deque!Take

\* A compare-exchange that succeeds: the abstract steal.
LEMMA StealIsSteal ==
    ASSUME DequeInv, RaceInv', NEW h \in Thieves, StealCas(h), top = t_t[h]
    PROVE  Conserved' /\ Deque!Steal
<1> USE DEF DequeInv
<1>1. /\ top \in Nat /\ End \in Int /\ top < End
      /\ t_task[h] = buffer[getMask(top)]
  BY DEF StealCas, RaceInv, Typing, ThiefView, End
<1>2. /\ top' = top + 1
      /\ Return(buffer[getMask(top)])
      /\ UNCHANGED <<bottom, buffer, pushed, o_pc, o_t>>
  BY <1>1 DEF StealCas, ownerVars
<1>3. End' = End /\ Claimed' = Claimed
  BY <1>2 DEF End, Claimed
<1>4. top \in Cells /\ Cells' = Cells \ {top}
  <2>1. Cells = top .. End - 1 /\ Cells' = top + 1 .. End - 1
    BY <1>2, <1>3 DEF Cells
  <2> QED
    BY <1>1, <2>1
<1> DEFINE x == buffer[getMask(top)]
<1>5. x \in Tasks
  BY <1>4, PushedAreTasks DEF Conserved, RaceInv
<1>6. Taken' = [Taken EXCEPT ![x] = @ + 1]
  <2>1. ASSUME NEW y \in Tasks
        PROVE  returned'[y] + (IF y \in Claimed THEN 1 ELSE 0)
                 = IF y = x THEN (returned[y] + IF y \in Claimed THEN 1 ELSE 0) + 1
                            ELSE returned[y] + IF y \in Claimed THEN 1 ELSE 0
    BY <1>2 DEF RaceInv, Typing, Return
  <2> QED
    BY <1>3, <1>5, <2>1 DEF Taken
<1>7. Conserved'
  BY <1>2, <1>4, <1>6, OneTaken
<1>8. ItemsShape /\ ItemsShape'
  BY ItemsFacts, PTL
<1>9. Size = End - top /\ Size \in Nat /\ Size # 0 /\ Size' = Size - 1
  BY <1>1, <1>2, <1>3 DEF Size
<1>10. Items # << >> /\ Head(Items) = x
  <2>1. Items[1] = buffer[getMask(top + 1 - 1)]
    BY <1>8, <1>9 DEF ItemsShape
  <2>2. top + 1 - 1 = top
    BY <1>1
  <2> QED
    BY <1>8, <1>9, <2>1, <2>2 DEF ItemsShape
<1>11. Items' = Tail(Items)
  <2>1. /\ Tail(Items) \in Seq(0 .. MaxTasks)
        /\ Len(Tail(Items)) = Size - 1
        /\ \A k \in 1 .. Size - 1 : Tail(Items)[k] = Items[k + 1]
    BY <1>8, <1>9, <1>10 DEF ItemsShape
  <2>2. ASSUME NEW k \in 1 .. Size - 1 PROVE Items'[k] = Items[k + 1]
    <3>1. k \in 1 .. Size' /\ k + 1 \in 1 .. Size
      BY <1>9
    <3>2. top' + k - 1 = top + (k + 1) - 1
      BY <1>1, <1>2
    <3> QED
      BY <1>2, <1>8, <3>1, <3>2 DEF ItemsShape
  <2>3. Items' \in Seq(0 .. MaxTasks) /\ Len(Items') = Size - 1
    BY <1>8, <1>9 DEF ItemsShape
  <2> QED
    BY <2>1, <2>2, <2>3, SameElements
<1> QED
  BY <1>6, <1>7, <1>10, <1>11 DEF Deque!Steal, Deque!Take

-----------------------------------------------------------------------------
(***************************************************************************)
(* The step that adds a task.                                              *)
(***************************************************************************)
LEMMA PushIsPush ==
    ASSUME DequeInv, RaceInv', PushPublish
    PROVE  Conserved' /\ Deque!Push(pushed + 1) /\ pushed + 1 \in Tasks
<1> USE DEF DequeInv
<1>1. /\ o_pc = "publish" /\ o_pc' = "ready" /\ bottom' = bottom + 1 /\ pushed' = pushed + 1
      /\ UNCHANGED <<top, buffer, returned>>
  BY DEF PushPublish
<1>2. /\ top \in Nat /\ bottom \in Nat /\ top <= bottom /\ bottom - top < Capacity
      /\ pushed \in Nat /\ pushed < MaxTasks
  BY <1>1, DequeAssumption DEF RaceInv, Typing, OwnerView
<1>3. pushed + 1 \in Tasks
  BY <1>2, DequeAssumption DEF Tasks
<1>4. End = bottom /\ End' = bottom + 1
  BY <1>1 DEF End
<1>5. Taken' = Taken
  <2>1. Claimed = {} /\ Claimed' = {}
    BY <1>1 DEF Claimed
  <2> QED
    BY <1>1, <2>1 DEF Taken
<1>6. buffer[getMask(bottom)] = pushed + 1 /\ Taken[pushed + 1] = 0
  BY <1>1, <1>2, <1>3 DEF Conserved
<1>7. Cells = top .. bottom - 1 /\ Cells' = Cells \cup {bottom} /\ bottom \notin Cells
  <2>1. Cells = top .. bottom - 1 /\ Cells' = top .. bottom + 1 - 1
    BY <1>1, <1>2, <1>4 DEF Cells
  <2> QED
    BY <1>2, <2>1
<1>8. \A i \in Cells : buffer[getMask(i)] \in 1 .. pushed /\ buffer[getMask(i)] # pushed + 1
  BY <1>2 DEF Conserved
<1>9. Conserved'
  <2>1. ASSUME NEW i \in Cells' PROVE buffer[getMask(i)] \in 1 .. pushed + 1 /\ Taken[buffer[getMask(i)]] = 0
    <3>1. CASE i \in Cells
      BY <1>2, <3>1 DEF Conserved
    <3>2. CASE i = bottom
      BY <1>2, <1>6, <3>2
    <3> QED
      BY <1>7, <3>1, <3>2
  <2>2. ASSUME NEW i \in Cells', NEW j \in Cells', buffer[getMask(i)] = buffer[getMask(j)] PROVE i = j
    <3>1. CASE i \in Cells /\ j \in Cells
      BY <2>2, <3>1 DEF Conserved
    <3>2. CASE i = bottom \/ j = bottom
      BY <1>6, <1>7, <1>8, <2>2, <3>2
    <3> QED
      BY <1>7, <3>1, <3>2
  <2>3. ASSUME NEW y \in Tasks
        PROVE  /\ Taken[y] \in {0, 1}
               /\ y > pushed + 1 => Taken[y] = 0
               /\ y <= pushed + 1 => Taken[y] = 1 \/ \E i \in Cells' : buffer[getMask(i)] = y
    <3>1. /\ Taken[y] \in {0, 1}
          /\ y > pushed => Taken[y] = 0
          /\ y <= pushed => Taken[y] = 1 \/ \E i \in Cells : buffer[getMask(i)] = y
      BY DEF Conserved
    <3>2. y \in Int
      BY DEF Tasks
    <3>3. CASE y = pushed + 1
      BY <1>2, <1>6, <1>7, <3>1, <3>3
    <3>4. CASE y <= pushed
      BY <1>2, <1>7, <3>1, <3>2, <3>4
    <3>5. CASE y > pushed + 1
      BY <1>2, <3>1, <3>2, <3>5
    <3> QED
      BY <1>2, <3>2, <3>3, <3>4, <3>5
  <2> QED
    BY <1>1, <1>5, <2>1, <2>2, <2>3 DEF Conserved
<1>10. ItemsShape /\ ItemsShape'
  BY ItemsFacts, PTL
<1>11. Size = bottom - top /\ Size' = Size + 1 /\ Size \in Nat /\ Size < Capacity
  BY <1>1, <1>2, <1>4 DEF Size
<1>12. \A k \in 1 .. Size : Items[k] # pushed + 1
  <2> SUFFICES ASSUME NEW k \in 1 .. Size PROVE Items[k] # pushed + 1
    OBVIOUS
  <2>1. top + k - 1 \in Cells
    BY <1>2, <1>7, <1>11
  <2> QED
    BY <1>8, <1>10, <2>1 DEF ItemsShape
<1>13. Items' = Append(Items, pushed + 1)
  <2>1. pushed + 1 \in 0 .. MaxTasks
    BY <1>2, DequeAssumption
  <2>2. Items \in Seq(0 .. MaxTasks) /\ Len(Items) = Size
    BY <1>10 DEF ItemsShape
  <2>3. /\ Append(Items, pushed + 1) \in Seq(0 .. MaxTasks)
        /\ Len(Append(Items, pushed + 1)) = Size + 1
        /\ \A k \in 1 .. Size : Append(Items, pushed + 1)[k] = Items[k]
        /\ Append(Items, pushed + 1)[Size + 1] = pushed + 1
    BY <1>11, <2>1, <2>2
  <2>4. Items' \in Seq(0 .. MaxTasks) /\ Len(Items') = Size + 1
    BY <1>10, <1>11 DEF ItemsShape
  <2>5. ASSUME NEW k \in 1 .. Size + 1 PROVE Items'[k] = Append(Items, pushed + 1)[k]
    <3>1. Items'[k] = buffer[getMask(top + k - 1)]
      BY <1>1, <1>10, <1>11 DEF ItemsShape
    <3>2. CASE k \in 1 .. Size
      BY <1>10, <2>3, <3>1, <3>2 DEF ItemsShape
    <3>3. CASE k = Size + 1
      <4>1. top + k - 1 = bottom
        BY <1>2, <1>11, <3>3
      <4> QED
        BY <1>6, <2>3, <3>1, <3>3, <4>1
    <3>4. k \in 1 .. Size \/ k = Size + 1
      <4>1. Size \in Nat
        BY <1>11
      <4> QED
        BY <4>1
    <3> QED
      BY <3>2, <3>3, <3>4
  <2> QED
    BY <2>3, <2>4, <2>5, SameElements
<1>14. Len(Items) = Size
  BY <1>10 DEF ItemsShape
<1> QED
  BY <1>3, <1>5, <1>6, <1>9, <1>11, <1>12, <1>13, <1>14 DEF Deque!Push

-----------------------------------------------------------------------------
(***************************************************************************)
(* The theorems.                                                           *)
(***************************************************************************)

\* Nothing is queued or taken at first.
LEMMA InitDequeInv == Init => DequeInv /\ Deque!Init
<1> SUFFICES ASSUME Init PROVE DequeInv /\ Deque!Init
  OBVIOUS
<1>1. RaceInv
  BY RaceInit
<1>2. o_pc = "ready" /\ top = 0 /\ bottom = 0 /\ pushed = 0 /\ returned = [x \in Tasks |-> 0]
  BY DEF Init
<1>3. End = 0 /\ Claimed = {}
  BY <1>2 DEF End, Claimed
<1>4. \A x \in Tasks : Taken[x] = 0
  BY <1>2, <1>3 DEF Taken
<1>5. Cells = {} /\ Size = 0
  BY <1>2, <1>3 DEF Cells, Size
<1>6. Conserved
  BY <1>2, <1>4, <1>5 DEF Conserved, Tasks
<1>7. Items = << >>
  BY <1>1, <1>5, ItemsFacts DEF ItemsShape
<1>8. Taken = [x \in Tasks |-> 0]
  BY <1>2, <1>3 DEF Taken
<1> QED
  BY <1>1, <1>6, <1>7, <1>8 DEF DequeInv, Deque!Init

\* Every step keeps the invariant and is a step of the abstract deque or none.
LEMMA StepIsStep ==
    ASSUME DequeInv, [Next]_vars
    PROVE  DequeInv' /\ [Deque!Next]_<<Items, Taken>>
<1>1. CASE UNCHANGED vars
  <2>1. RaceInv' /\ Conserved' /\ UNCHANGED <<Items, Taken>>
    <3> USE <1>1 DEF vars, ownerVars, thiefVars
    <3>1. End' = End /\ Claimed' = Claimed
      BY DEF End, Claimed
    <3>2. Cells' = Cells /\ Taken' = Taken /\ Items' = Items
      BY <3>1 DEF Cells, Taken, Items
    <3>3. Typing' /\ OwnerView' /\ Bounded'
      BY <3>1 DEF DequeInv, RaceInv, Typing, OwnerView, Bounded
    <3>4. ThiefView'
      BY <3>1 DEF DequeInv, RaceInv, ThiefView
    <3>5. Conserved'
      BY <3>2 DEF DequeInv, Conserved
    <3> QED
      BY <3>2, <3>3, <3>4, <3>5 DEF RaceInv
  <2> QED
    BY <2>1 DEF DequeInv
<1>2. CASE push
  <2>1. RaceInv'
    BY <1>2, PushRace DEF DequeInv
  <2>2. CASE PushPublish
    <3>1. Conserved' /\ Deque!Push(pushed + 1) /\ pushed + 1 \in Tasks
      BY <2>1, <2>2, PushIsPush
    <3> QED
      BY <2>1, <3>1 DEF DequeInv, Deque!Next
  <2>3. CASE PushLoad \/ PushStore
    BY <2>1, <2>3, PushSilent DEF DequeInv
  <2> QED
    BY <1>2, <2>2, <2>3 DEF push
<1>3. CASE pop
  <2>1. RaceInv'
    BY <1>3, PopRace DEF DequeInv
  <2>2. CASE (PopLoadTop /\ bottom > top) \/ (PopLast /\ top = o_t)
    BY <2>1, <2>2, PopIsPop DEF DequeInv, Deque!Next
  <2>3. CASE ~(PopLoadTop /\ bottom > top) /\ ~(PopLast /\ top = o_t)
    BY <1>3, <2>1, <2>3, PopSilent DEF DequeInv
  <2> QED
    BY <2>2, <2>3
<1>4. ASSUME NEW h \in Thieves, steal(h) PROVE DequeInv' /\ [Deque!Next]_<<Items, Taken>>
  <2>1. RaceInv'
    BY <1>4, StealRace DEF DequeInv
  <2>2. CASE StealCas(h) /\ top = t_t[h]
    BY <2>1, <2>2, StealIsSteal DEF DequeInv, Deque!Next
  <2>3. CASE ~(StealCas(h) /\ top = t_t[h])
    BY <1>4, <2>1, <2>3, StealSilent DEF DequeInv
  <2> QED
    BY <2>2, <2>3
<1> QED
  BY <1>1, <1>2, <1>3, <1>4 DEF Next

\* The invariant of the deque: what the owner and the thieves may believe at each
\* point of push(), pop() and steal(), and where every pushed task is.
THEOREM DequeInvariance == Spec => []DequeInv
<1>1. Init => DequeInv
  BY InitDequeInv
<1>2. DequeInv /\ [Next]_vars => DequeInv'
  BY StepIsStep
<1> QED
  BY <1>1, <1>2, PTL DEF Spec

\* The Chase-Lev deque implements the deque with one owner and any number of
\* thieves: every step of push(), pop() and steal() is a push, a pop at the bottom,
\* a steal at the top, or invisible.
THEOREM Refinement == Spec => ImplementsDeque
<1>1. Init => Deque!Init
  BY InitDequeInv
<1>2. DequeInv /\ [Next]_vars => [Deque!Next]_<<Items, Taken>>
  BY StepIsStep
<1> QED
  BY <1>1, <1>2, DequeInvariance, PTL DEF Spec, ImplementsDeque, Deque!Spec

\* However pop() and steal() race, each task is returned at most once, and never
\* one that was not pushed.
ReturnedOnce == \A x \in Tasks : returned[x] \in {0, 1} /\ (x > pushed => returned[x] = 0)

THEOREM EachTaskReturnedOnce == Spec => []ReturnedOnce
<1>1. DequeInv => ReturnedOnce
  <2> SUFFICES ASSUME DequeInv, NEW x \in Tasks
               PROVE  returned[x] \in {0, 1} /\ (x > pushed => returned[x] = 0)
    BY DEF ReturnedOnce
  <2>1. Taken[x] = returned[x] + IF x \in Claimed THEN 1 ELSE 0
    BY TakenType DEF DequeInv, RaceInv
  <2>2. Taken[x] \in {0, 1} /\ (x > pushed => Taken[x] = 0)
    BY DEF DequeInv, Conserved
  <2>3. returned[x] \in Nat
    BY DEF DequeInv, RaceInv, Typing
  <2>4. CASE x \in Claimed
    BY <2>1, <2>2, <2>3, <2>4
  <2>5. CASE x \notin Claimed
    BY <2>1, <2>2, <2>3, <2>5
  <2> QED
    BY <2>4, <2>5
<1> QED
  BY <1>1, DequeInvariance, PTL
=============================================================================
