--------------------------- MODULE PriceTimeBook ---------------------------
(***************************************************************************)
(* What MatchingBook (mdh/exchange/matching) promises the matching engine: *)
(* one instrument's resting orders, two sides, and on each side one FIFO   *)
(* queue of orders per price.  A book is a value                           *)
(*                                                                         *)
(*    [slab  |-> slot -> order or Free,                                    *)
(*     queue |-> side -> price -> sequence of slots, front first]          *)
(*                                                                         *)
(* and every operation of the class is an operator on such values.  A      *)
(* Handle is a slot.  Slots are recycled, as in the slab of the code: the  *)
(* slot an add() takes is any free one (the code takes the most recently   *)
(* freed, or grows the vector).  How the slab threads its queues through   *)
(* next/prev links and how the ladder finds a level is not visible here.   *)
(***************************************************************************)
EXTENDS Integers, Sequences, FiniteSetsExt, Functions

CONSTANTS Slots,   \* indices of the slab
          Prices,  \* the valid (positive) tick prices
          Free     \* contents of a slot on the free list

\* Prices are positive and bounded (a Price is a 64-bit integer).
ASSUME PricesAssumption ==
    /\ Prices \subseteq Nat \ {0}
    /\ \E max \in Prices : \A p \in Prices : p <= max

\* The slab is an array: a Handle is a 32-bit index.
ASSUME SlotsAssumption == IsFiniteSet(Slots)

Sides == {"Buy", "Sell"}
contra(side) == IF side = "Buy" THEN "Sell" ELSE "Buy"

\* The books over a set of orders.
BookOf(S) == [slab  : [Slots -> S \cup {Free}],
              queue : [Sides -> [Prices -> Seq(Slots)]]]

EmptyBook ==
    [slab  |-> [h \in Slots |-> Free],
     queue |-> [s \in Sides |-> [p \in Prices |-> << >>]]]

at(b, h) == b.slab[h]
IsLive(b, h) == b.slab[h] # Free
LiveSlots(b) == {h \in Slots : b.slab[h] # Free}

\* Price priority on one side: the highest bid and the lowest ask come first.
Better(side, p, q) == IF side = "Buy" THEN p > q ELSE p < q

\* Mutant of Crosses: equal prices do not trade.
CrossesStrictly(side, level, price) == IF side = "Buy" THEN price < level
                                                       ELSE price > level

\* An order arriving at `price` trades with a level of `side` at `level`.
Crosses(side, level, price) == IF side = "Buy" THEN price <= level
                                               ELSE price >= level

Levels(b, side) == {p \in Prices : b.queue[side][p] # << >>}
empty(b, side)  == Levels(b, side) = {}

best_price(b, side) ==
    CHOOSE p \in Levels(b, side) :
        \A q \in Levels(b, side) : ~Better(side, q, p)

front_of_best(b, side) == Head(b.queue[side][best_price(b, side)])

-----------------------------------------------------------------------------
(***************************************************************************)
(* The sum of the values of f, which are natural numbers: its units are    *)
(* counted instead of added up one by one, as the order does not matter.   *)
(***************************************************************************)
Units(f) == UNION {{x} \X (1 .. f[x]) : x \in DOMAIN f}
Total(f) == Cardinality(Units(f))

-----------------------------------------------------------------------------
(***************************************************************************)
(* Operations on orders that rest.  Each one needs a live handle.          *)
(***************************************************************************)

\* The place of slot h in a queue, and the queue without it.
Position(q, h) == CHOOSE k \in 1 .. Len(q) : q[k] = h
Without(q, h)  == LET k == Position(q, h)
                  IN  [j \in 1 .. Len(q) - 1 |-> IF j < k THEN q[j] ELSE q[j + 1]]

\* Mutant of add: the order is linked in at the front of its level.
add_front(b, order, h) ==
    [slab  |-> [b.slab EXCEPT ![h] = order],
     queue |-> [b.queue EXCEPT ![order.side][order.price] = <<h>> \o @]]

add(b, order, h) ==
    [slab  |-> [b.slab EXCEPT ![h] = order],
     queue |-> [b.queue EXCEPT ![order.side][order.price] = Append(@, h)]]

\* Mutant of remove_at: the slot is released but not unlinked.
remove_without_unlink(b, h) == [b EXCEPT !.slab[h] = Free]

remove_at(b, h) ==
    LET order == b.slab[h]
    IN  [slab  |-> [b.slab EXCEPT ![h] = Free],
         queue |-> [b.queue EXCEPT ![order.side][order.price] = Without(@, h)]]

reduce_at(b, h, quantity) ==
    [b EXCEPT !.slab[h].remaining_quantity = quantity]

set_client_order_id_at(b, h, id) ==
    [b EXCEPT !.slab[h].client_order_id = id]

remove_front(b, side) ==
    LET price == best_price(b, side)
        head  == Head(b.queue[side][price])
    IN  [slab  |-> [b.slab EXCEPT ![head] = Free],
         queue |-> [b.queue EXCEPT ![side][price] = Tail(@)]]

reduce_front(b, side, quantity) == reduce_at(b, front_of_best(b, side), quantity)

-----------------------------------------------------------------------------
(***************************************************************************)
(* The quantity on `side` that crosses at `price`.  The code stops summing *)
(* once it has reached the quantity asked for; its caller only asks        *)
(* whether the result is smaller than that quantity.                       *)
(***************************************************************************)
\* Mutant of CrossableSlots: the walk over the levels never stops at the limit.
SlotsAtAnyPrice(b, side, price) ==
    UNION {Range(b.queue[side][p]) : p \in Levels(b, side)}

CrossableSlots(b, side, price) ==
    UNION {Range(b.queue[side][p]) :
              p \in {q \in Levels(b, side) : Crosses(side, q, price)}}

crossable_quantity(b, side, price) ==
    Total([h \in CrossableSlots(b, side, price) |-> b.slab[h].remaining_quantity])

-----------------------------------------------------------------------------
(***************************************************************************)
(* What keeps a book usable: the queue of a level holds exactly the live   *)
(* orders of that side and price, each of them once.                       *)
(***************************************************************************)
QueuedAreLive(b) ==
    \A s \in Sides, p \in Prices : \A k \in 1 .. Len(b.queue[s][p]) :
        LET h == b.queue[s][p][k]
        IN  /\ h \in Slots
            /\ b.slab[h] # Free
            /\ b.slab[h].side = s
            /\ b.slab[h].price = p

QueuedOnce(b) ==
    \A s \in Sides, p \in Prices : \A j, k \in 1 .. Len(b.queue[s][p]) :
        b.queue[s][p][j] = b.queue[s][p][k] => j = k

LiveAreQueued(b) ==
    \A h \in Slots : b.slab[h] # Free =>
        \E k \in 1 .. Len(b.queue[b.slab[h].side][b.slab[h].price]) :
            b.queue[b.slab[h].side][b.slab[h].price][k] = h

=============================================================================
