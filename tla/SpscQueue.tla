------------------------------ MODULE SpscQueue ------------------------------
(***************************************************************************)
(* mdh::SpscQueue: the bounded single-producer single-consumer ring buffer *)
(* between every two threads of the exchange.  One step per access to      *)
(* shared memory: the two indices, the storage and the high water mark.    *)
(*                                                                         *)
(* The indices are std::size_t: they count pushes and pops, run far beyond *)
(* the capacity and wrap around at IndexModulus (2^64 in the code).  An    *)
(* acquire load of the other side's index may return an older value than   *)
(* the current one, though never one older than the thread has seen.       *)
(***************************************************************************)
EXTENDS Integers, Sequences

CONSTANTS Values,
          Capacity,      \* capacity_, after rounding up to a power of two
          IndexModulus,
          Raw            \* a cell that holds no constructed value

ASSUME QueueAssumption ==
    /\ Capacity \in Nat \ {0}
    /\ IndexModulus \in Nat
    /\ IndexModulus > Capacity
    /\ IndexModulus % Capacity = 0
    /\ Raw \notin Values

VARIABLES head, tail,       \* head_ and tail_
          storage,
          high_water_mark,
          p_pc, p_value, p_tail,  \* try_push(): where it is, its argument, tail_ as loaded
          c_pc, c_value, c_head,  \* try_pop(): where it is, its result, head_ as loaded
          o_pc, o_head, o_size    \* size() on a third thread

producerVars == <<p_pc, p_value, p_tail>>
consumerVars == <<c_pc, c_value, c_head>>
observerVars == <<o_pc, o_head, o_size>>
vars == <<head, tail, storage, high_water_mark,
          producerVars, consumerVars, observerVars>>

Index == 0 .. IndexModulus - 1

\* Unsigned arithmetic on indices: i + n, i + 1, and i - j.
Ahead(i, n) == IF i + n >= IndexModulus THEN i + n - IndexModulus ELSE i + n
Inc(i)      == Ahead(i, 1)
Dist(i, j)  == IF i >= j THEN i - j ELSE i - j + IndexModulus

\* i & mask_, for a capacity that is a power of two.
Cell(i) == i % Capacity

Init ==
    /\ head = 0
    /\ tail = 0
    /\ storage = [n \in 0 .. Capacity - 1 |-> Raw]
    /\ high_water_mark = 0
    /\ p_pc = "ready" /\ p_value = Raw /\ p_tail = 0
    /\ c_pc = "ready" /\ c_value = Raw /\ c_head = 0
    /\ o_pc = "ready" /\ o_head = 0 /\ o_size = 0

-----------------------------------------------------------------------------
(***************************************************************************)
(* try_push(), on the producer's thread.                                   *)
(***************************************************************************)

\* The values an acquire load of the other side's index may return.
VisibleTail == {t \in Index : /\ Dist(head, tail) <= Dist(head, t)
                              /\ Dist(head, t) <= Dist(head, p_tail)}
VisibleHead == {h \in Index : /\ Dist(c_head, tail) <= Dist(h, tail)
                              /\ Dist(h, tail) <= Dist(head, tail)}

\* Mutant of PushLoad: a full ring takes one more.
PushLoadBeyondFull(v) ==
    /\ p_pc = "ready"
    /\ \E t \in VisibleTail :
          /\ p_tail' = t
          /\ IF Dist(head, t) > Capacity
               THEN UNCHANGED <<p_pc, p_value>>
               ELSE p_pc' = "construct" /\ p_value' = v
    /\ UNCHANGED <<head, tail, storage, high_water_mark, consumerVars, observerVars>>

\* Load tail_ and compare; a full queue returns false at once.
PushLoad(v) ==
    /\ p_pc = "ready"
    /\ \E t \in VisibleTail :
          /\ p_tail' = t
          /\ IF Dist(head, t) >= Capacity
               THEN UNCHANGED <<p_pc, p_value>>
               ELSE p_pc' = "construct" /\ p_value' = v
    /\ UNCHANGED <<head, tail, storage, high_water_mark, consumerVars, observerVars>>

\* Mutant of PushConstruct: the value goes to the cell after head_.
PushConstructAhead ==
    /\ p_pc = "construct"
    /\ storage' = [storage EXCEPT ![Cell(Inc(head))] = p_value]
    /\ p_pc' = "measure"
    /\ UNCHANGED <<head, tail, high_water_mark, p_value, p_tail, consumerVars, observerVars>>

PushConstruct ==
    /\ p_pc = "construct"
    /\ storage' = [storage EXCEPT ![Cell(head)] = p_value]
    /\ p_pc' = "measure"
    /\ UNCHANGED <<head, tail, high_water_mark, p_value, p_tail, consumerVars, observerVars>>

\* Mutant of PushMeasure: the value being pushed is not counted.
PushMeasureBefore ==
    /\ p_pc = "measure"
    /\ high_water_mark' = IF Dist(head, p_tail) > high_water_mark
                            THEN Dist(head, p_tail) ELSE high_water_mark
    /\ p_pc' = "publish"
    /\ UNCHANGED <<head, tail, storage, p_value, p_tail, consumerVars, observerVars>>

PushMeasure ==
    /\ p_pc = "measure"
    /\ high_water_mark' = IF Dist(Inc(head), p_tail) > high_water_mark
                            THEN Dist(Inc(head), p_tail) ELSE high_water_mark
    /\ p_pc' = "publish"
    /\ UNCHANGED <<head, tail, storage, p_value, p_tail, consumerVars, observerVars>>

PushPublish ==
    /\ p_pc = "publish"
    /\ head' = Inc(head)
    /\ p_pc' = "ready"
    /\ p_value' = Raw
    /\ UNCHANGED <<tail, storage, high_water_mark, p_tail, consumerVars, observerVars>>

try_push(v) == PushLoad(v) \/ PushConstruct \/ PushMeasure \/ PushPublish

-----------------------------------------------------------------------------
(***************************************************************************)
(* try_pop(), on the consumer's thread.                                    *)
(***************************************************************************)

\* Load head_ and compare; an empty queue returns nullopt at once.
PopLoad ==
    /\ c_pc = "ready"
    /\ \E h \in VisibleHead :
          /\ c_head' = h
          /\ c_pc' = IF h = tail THEN "ready" ELSE "take"
    /\ UNCHANGED <<head, tail, storage, high_water_mark, c_value, producerVars, observerVars>>

\* Move the value out and destroy what is left of it.
PopTake ==
    /\ c_pc = "take"
    /\ c_value' = storage[Cell(tail)]
    /\ storage' = [storage EXCEPT ![Cell(tail)] = Raw]
    /\ c_pc' = "publish"
    /\ UNCHANGED <<head, tail, high_water_mark, c_head, producerVars, observerVars>>

PopPublish ==
    /\ c_pc = "publish"
    /\ tail' = Inc(tail)
    /\ c_pc' = "ready"
    /\ c_value' = Raw
    /\ UNCHANGED <<head, storage, high_water_mark, c_head, producerVars, observerVars>>

try_pop == PopLoad \/ PopTake \/ PopPublish

-----------------------------------------------------------------------------
(***************************************************************************)
(* size(), called by a thread that is neither.                             *)
(***************************************************************************)
SizeLoadHead ==
    /\ o_pc = "ready"
    /\ o_head' = head
    /\ o_pc' = "loaded"
    /\ UNCHANGED <<head, tail, storage, high_water_mark, o_size, producerVars, consumerVars>>

SizeLoadTail ==
    /\ o_pc = "loaded"
    /\ o_size' = Dist(o_head, tail)
    /\ o_pc' = "ready"
    /\ UNCHANGED <<head, tail, storage, high_water_mark, o_head, producerVars, consumerVars>>

size == SizeLoadHead \/ SizeLoadTail

-----------------------------------------------------------------------------
Next == (\E v \in Values : try_push(v)) \/ try_pop \/ size

Spec == Init /\ [][Next]_vars
-----------------------------------------------------------------------------
(***************************************************************************)
(* Properties                                                              *)
(***************************************************************************)
\* The type of the queue and of both threads' locals.
TypeOK ==
    /\ head \in Index
    /\ tail \in Index
    /\ storage \in [0 .. Capacity - 1 -> Values \cup {Raw}]
    /\ high_water_mark \in Nat
    /\ p_pc \in {"ready", "construct", "measure", "publish"}
    /\ p_value \in Values \cup {Raw}
    /\ p_tail \in Index
    /\ c_pc \in {"ready", "take", "publish"}
    /\ c_value \in Values \cup {Raw}
    /\ c_head \in Index
    /\ o_pc \in {"ready", "loaded"}
    /\ o_head \in Index
    /\ o_size \in Index

\* The storage is plain memory: the two threads are never about to touch the
\* same cell at the same time, though each acts on a stale copy of the other's
\* index, and the consumer only ever takes a value that was constructed.
DataRaceFree ==
    /\ ~(p_pc = "construct" /\ c_pc = "take" /\ Cell(head) = Cell(tail))
    /\ p_pc = "construct" => storage[Cell(head)] = Raw
    /\ c_pc = "take" => storage[Cell(tail)] # Raw

\* high_water_mark() never understates: whatever other threads can see in the
\* queue was counted before it was published, and it never exceeds the capacity.
HighWaterMark ==
    /\ Dist(head, tail) <= high_water_mark
    /\ high_water_mark <= Capacity

\* The contents, oldest first; a value that is being popped counts as queued
\* until tail_ moves past it.
Contents ==
    [k \in 1 .. Dist(head, tail) |->
        IF k = 1 /\ c_pc = "publish" THEN c_value
        ELSE storage[Cell(Ahead(tail, k - 1))]]

Fifo == INSTANCE BoundedFifo WITH items <- Contents

\* Across wrapped indices, a full and an empty ring and any interleaving of the
\* two threads, the queue is a bounded FIFO channel.
ImplementsFifo == Fifo!Spec
=============================================================================
