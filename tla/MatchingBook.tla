---------------------------- MODULE MatchingBook ----------------------------
(***************************************************************************)
(* MatchingBook (mdh/exchange/matching) as it is built: the orders in a    *)
(* slab whose entries are threaded into one doubly linked queue per price  *)
(* and into a free list, and on each side an index of the prices that have *)
(* a queue -- a ladder of ticks over a band, found through a bitmap of     *)
(* three levels, and a map for the prices outside the band.                *)
(*                                                                         *)
(* The book the links spell out (Book below) is a value of PriceTimeBook,  *)
(* the module the engine is modelled on, and every operation here has to   *)
(* do to Book what the operator of that name does.                         *)
(*                                                                         *)
(* set_client_order_id_at(), which writes one field of an order in place   *)
(* as reduce_at() does, is left to PriceTimeBook.                          *)
(*                                                                         *)
(* A word of the bitmap is the set of its bits that are set; WordBits is   *)
(* 64 in the code.  Slots count from 1.                                    *)
(***************************************************************************)
EXTENDS Integers, Sequences, FiniteSetsExt, SequencesExt

CONSTANTS Prices, Quantities,  \* the fields of an order
          MaxSlots,            \* bound on the slab
          WordBits,            \* bits in a word of the bitmap
          band_ticks,          \* width of the ladder, 0 for none
          Free, None, Raw

\* Three levels of words cover the band, as kMaxBandTicks does for words of 64.
ASSUME BandAssumption ==
    /\ WordBits \in Nat \ {0, 1}
    /\ band_ticks \in 0 .. WordBits * WordBits * WordBits

VARIABLES slab,       \* slab_: sequence of [order, next, prev]
          free_head,  \* free_head_
          index       \* bids_ and asks_, by side

vars == <<slab, free_head, index>>

kNil  == 0
Slots == 1 .. MaxSlots

B == INSTANCE PriceTimeBook

Order == [side : B!Sides, price : Prices, remaining_quantity : Quantities]

EmptyLevel == [head |-> kNil, tail |-> kNil]
Words(n)   == 0 .. ((n + WordBits - 1) \div WordBits) - 1

-----------------------------------------------------------------------------
(***************************************************************************)
(* SideIndex: the ladder and its bitmap.  An entry of the ladder whose     *)
(* tick is not occupied is Raw, the array being uninitialised memory: what *)
(* an erased level or a freed entry of the slab leaves behind is forgotten *)
(* here, so that a read of it is an error.                                 *)
(***************************************************************************)
SideIndex ==
    [base        |-> 0,
     anchored    |-> FALSE,
     ladder      |-> [t \in 0 .. band_ticks - 1 |-> Raw],
     occupancy   |-> [w \in Words(band_ticks) |-> {}],
     mid_summary |-> [m \in Words(Cardinality(Words(band_ticks))) |-> {}],
     summary     |-> {},
     overflow    |-> << >>]

empty(x) == x.summary = {} /\ DOMAIN x.overflow = {}

in_band(x, price)  == x.anchored /\ price - x.base \in 0 .. band_ticks - 1
tick_of(x, price)  == price - x.base
price_of(x, tick)  == x.base + tick

highest_bit(word) == Max(word)
lowest_bit(word)  == Min(word)
mask_below(bit)   == 0 .. bit - 1
mask_above(bit)   == bit + 1 .. WordBits - 1

anchor(x, price) == [x EXCEPT !.base = price - band_ticks \div 2, !.anchored = TRUE]

set_occupied(x, tick) ==
    LET word == tick \div WordBits
    IN  [x EXCEPT !.occupancy[word] = @ \cup {tick % WordBits},
                  !.mid_summary[word \div WordBits] = @ \cup {word % WordBits},
                  !.summary = @ \cup {word \div WordBits}]

clear_occupied(x, tick) ==
    LET word == tick \div WordBits
        mid  == word \div WordBits
        bits == x.occupancy[word] \ {tick % WordBits}
        mids == IF bits = {} THEN x.mid_summary[mid] \ {word % WordBits}
                             ELSE x.mid_summary[mid]
    IN  [x EXCEPT !.ladder[tick]     = Raw,
                  !.occupancy[word]  = bits,
                  !.mid_summary[mid] = mids,
                  !.summary          = IF mids = {} THEN @ \ {mid} ELSE @]

is_occupied(x, tick) == tick % WordBits \in x.occupancy[tick \div WordBits]

\* The occupied tick that `pick` (highest_bit or lowest_bit) finds below a word
\* of the middle level, and below a word of the bottom one.
TickUnder(x, word, pick(_)) == word * WordBits + pick(x.occupancy[word])
TickUnderMid(x, mid, pick(_)) ==
    TickUnder(x, mid * WordBits + pick(x.mid_summary[mid]), pick)

highest_occupied(x) == IF x.summary = {} THEN band_ticks
                       ELSE TickUnderMid(x, highest_bit(x.summary), highest_bit)
lowest_occupied(x)  == IF x.summary = {} THEN band_ticks
                       ELSE TickUnderMid(x, lowest_bit(x.summary), lowest_bit)

\* The nearest occupied tick past `tick`, looked for in its own word, then in the
\* words its middle word covers, then in all others.
NearestPast(x, tick, mask(_), pick(_)) ==
    LET word == tick \div WordBits
        mid  == word \div WordBits
        bits == x.occupancy[word]  \cap mask(tick % WordBits)
        mids == x.mid_summary[mid] \cap mask(word % WordBits)
        tops == x.summary          \cap mask(mid)
    IN  CASE bits # {} -> word * WordBits + pick(bits)
          [] bits = {} /\ mids # {} -> TickUnder(x, mid * WordBits + pick(mids), pick)
          [] bits = {} /\ mids = {} /\ tops # {} -> TickUnderMid(x, pick(tops), pick)
          [] OTHER -> band_ticks

highest_occupied_below(x, tick) ==
    IF x.summary = {} \/ tick = 0 THEN band_ticks
    ELSE NearestPast(x, tick, mask_below, highest_bit)
lowest_occupied_above(x, tick) ==
    IF x.summary = {} \/ tick + 1 >= band_ticks THEN band_ticks
    ELSE NearestPast(x, tick, mask_above, lowest_bit)

-----------------------------------------------------------------------------
(***************************************************************************)
(* SideIndex: levels.                                                      *)
(***************************************************************************)
\* The index in which `price` has a level, a new one if it had none.
level_for(x, price) ==
    LET a    == IF band_ticks # 0 /\ (~x.anchored \/ empty(x)) THEN anchor(x, price) ELSE x
        tick == tick_of(a, price)
    IN  CASE ~in_band(a, price) ->
               [a EXCEPT !.overflow = [p \in DOMAIN @ \cup {price} |->
                                          IF p \in DOMAIN @ THEN @[p] ELSE EmptyLevel]]
          [] in_band(a, price) /\ is_occupied(a, tick) -> a
          [] OTHER -> [set_occupied(a, tick) EXCEPT !.ladder[tick] = EmptyLevel]

HasLevel(x, price) == IF in_band(x, price) THEN is_occupied(x, tick_of(x, price))
                                           ELSE price \in DOMAIN x.overflow

level_at(x, price) == IF in_band(x, price) THEN x.ladder[tick_of(x, price)]
                                           ELSE x.overflow[price]

\* An assignment through the reference level_for() and level_at() return.
Store(x, price, level) ==
    IF in_band(x, price) THEN [x EXCEPT !.ladder[tick_of(x, price)] = level]
                         ELSE [x EXCEPT !.overflow[price] = level]

erase_level(x, price) ==
    IF in_band(x, price) THEN clear_occupied(x, tick_of(x, price))
    ELSE [x EXCEPT !.overflow = [p \in DOMAIN @ \ {price} |-> @[p]]]

\* The better of two candidates, either of which may be missing.
BetterOf(side, p, q) == IF q = None \/ (p # None /\ B!Better(side, p, q)) THEN p ELSE q
First(side, S) == IF S = {} THEN None ELSE IF side = "Buy" THEN Max(S) ELSE Min(S)

best_price(x, side) ==
    LET tick == IF side = "Buy" THEN highest_occupied(x) ELSE lowest_occupied(x)
    IN  BetterOf(side, IF tick = band_ticks THEN None ELSE price_of(x, tick),
                 First(side, DOMAIN x.overflow))

\* Mutant of next_price: a price outside the band ends the walk over the ladder.
next_price_in_band(x, side, price) ==
    LET tick == IF ~in_band(x, price) THEN band_ticks
                ELSE IF side = "Buy" THEN highest_occupied_below(x, tick_of(x, price))
                                     ELSE lowest_occupied_above(x, tick_of(x, price))
    IN  BetterOf(side, IF tick = band_ticks THEN None ELSE price_of(x, tick),
                 First(side, {p \in DOMAIN x.overflow : B!Better(side, price, p)}))

next_price(x, side, price) ==
    LET last == x.base + band_ticks - 1
        tick == IF ~x.anchored \/ x.summary = {} THEN band_ticks
                ELSE IF side = "Buy"
                THEN CASE price > last     -> highest_occupied(x)
                       [] price <= x.base  -> band_ticks
                       [] OTHER            -> highest_occupied_below(x, tick_of(x, price))
                ELSE CASE price < x.base   -> lowest_occupied(x)
                       [] price >= last    -> band_ticks
                       [] OTHER            -> lowest_occupied_above(x, tick_of(x, price))
    IN  BetterOf(side, IF tick = band_ticks THEN None ELSE price_of(x, tick),
                 First(side, {p \in DOMAIN x.overflow : B!Better(side, price, p)}))

-----------------------------------------------------------------------------
(***************************************************************************)
(* The slab.  link_back and unlink change a level and the slab together.   *)
(***************************************************************************)
link_back(s, level, slot) ==
    LET linked == [s EXCEPT ![slot].next = kNil, ![slot].prev = level.tail]
    IN  [slab  |-> IF level.tail = kNil THEN linked
                   ELSE [linked EXCEPT ![level.tail].next = slot],
         level |-> [head |-> IF level.tail = kNil THEN slot ELSE level.head,
                    tail |-> slot]]

unlink(s, level, slot) ==
    LET next    == s[slot].next
        prev    == s[slot].prev
        forward == IF prev = kNil THEN s ELSE [s EXCEPT ![prev].next = next]
    IN  [slab  |-> IF next = kNil THEN forward ELSE [forward EXCEPT ![next].prev = prev],
         level |-> [head |-> IF prev = kNil THEN next ELSE level.head,
                    tail |-> IF next = kNil THEN prev ELSE level.tail]]

\* The slots on a chain of next links that starts at `slot`.
Chain(slot) ==
    LET from[n \in 0 .. MaxSlots, s \in Slots \cup {kNil}] ==
            IF n = 0 \/ s = kNil THEN << >> ELSE <<s>> \o from[n - 1, slab[s].next]
    IN  from[MaxSlots, slot]

\* Prices in the order the loops of crossable_quantity() and all_of() meet them.
Walk(side) ==
    LET x == index[side]
        from[n \in 0 .. Cardinality(Prices), p \in Prices \cup {None}] ==
            IF n = 0 \/ p = None THEN << >> ELSE <<p>> \o from[n - 1, next_price(x, side, p)]
    IN  IF empty(x) THEN << >> ELSE from[Cardinality(Prices), best_price(x, side)]

Queue(side, p) == Chain(level_at(index[side], p).head)

all_of(side) ==
    LET walk == Walk(side)
    IN  FlattenSeq([k \in DOMAIN walk |-> Queue(side, walk[k])])

crossable_quantity(side, price, quantity) ==
    LET walk  == Walk(side)
        first == {k \in DOMAIN walk : \A j \in 1 .. k : B!Crosses(side, walk[j], price)}
        slots == FlattenSeq([k \in first |-> Queue(side, walk[k])])
    IN  FoldLeft(LAMBDA total, s : IF total >= quantity THEN total
                                   ELSE total + slab[s].order.remaining_quantity,
                 0, slots)

-----------------------------------------------------------------------------
(***************************************************************************)
(* The book that the links spell out.                                      *)
(***************************************************************************)
Live == DOMAIN slab \ Range(Chain(free_head))

Book ==
    [slab  |-> [h \in Slots |-> IF h \in Live THEN slab[h].order ELSE Free],
     queue |-> [side \in B!Sides |-> [p \in Prices |->
                   IF HasLevel(index[side], p) THEN Queue(side, p) ELSE << >>]]]

-----------------------------------------------------------------------------
Init ==
    /\ slab = << >>
    /\ free_head = kNil
    /\ index = [side \in B!Sides |-> SideIndex]

\* The slot taken, and the slab and free list after it: a freed slot if there is one.
acquire_slot(order) ==
    IF free_head # kNil
    THEN [slot |-> free_head, free |-> slab[free_head].next,
          slab |-> [slab EXCEPT ![free_head].order = order]]
    ELSE [slot |-> Len(slab) + 1, free |-> kNil,
          slab |-> Append(slab, [order |-> order, next |-> kNil, prev |-> kNil])]

add(order) ==
    LET taken == acquire_slot(order)
        x     == level_for(index[order.side], order.price)
        done  == link_back(taken.slab, level_at(x, order.price), taken.slot)
    IN  /\ taken.slot <= MaxSlots
        /\ slab' = done.slab
        /\ free_head' = taken.free
        /\ index' = [index EXCEPT ![order.side] = Store(x, order.price, done.level)]

\* release_slot() comes after the erasing of an emptied level in remove_at() and
\* before it in remove_front(); neither reads what the other writes.
Unlinked(side, price, slot) ==
    LET done == unlink(slab, level_at(index[side], price), slot)
        x    == Store(index[side], price, done.level)
    IN  /\ slab' = [done.slab EXCEPT ![slot] = [order |-> Free, next |-> free_head, prev |-> kNil]]
        /\ free_head' = slot
        /\ index' = [index EXCEPT ![side] = IF done.level.head = kNil
                                            THEN erase_level(x, price) ELSE x]

remove_at(h) == Unlinked(slab[h].order.side, slab[h].order.price, h)

\* Mutant of remove_front: the order that has waited least leaves.
remove_front_newest(side) ==
    /\ ~empty(index[side])
    /\ LET price == best_price(index[side], side)
       IN  Unlinked(side, price, level_at(index[side], price).tail)

remove_front(side) ==
    /\ ~empty(index[side])
    /\ LET price == best_price(index[side], side)
       IN  Unlinked(side, price, level_at(index[side], price).head)

reduce_at(h, quantity) ==
    /\ quantity < slab[h].order.remaining_quantity
    /\ slab' = [slab EXCEPT ![h].order.remaining_quantity = quantity]
    /\ UNCHANGED <<free_head, index>>

front_of_best(side) == level_at(index[side], best_price(index[side], side)).head

reduce_front(side, quantity) ==
    /\ ~empty(index[side])
    /\ reduce_at(front_of_best(side), quantity)

Next ==
    \/ \E order \in Order : add(order)
    \/ \E h \in Live : \/ remove_at(h)
                       \/ \E q \in Quantities : reduce_at(h, q)
    \/ \E side \in B!Sides : \/ remove_front(side)
                             \/ \E q \in Quantities : reduce_front(side, q)

Spec == Init /\ [][Next]_vars

-----------------------------------------------------------------------------
(***************************************************************************)
(* Properties.                                                             *)
(***************************************************************************)
\* A slot comes alive by an add() to the book that the links spell out, and dies by a
\* removal from it, of the front of the best level when remove_front() does it; no other
\* call moves an order.  Slots are recycled (matching_book.cpp:300): a slip in the links,
\* in the bitmap or in the free list loses an order or hands its slot to another.
ImplementsBook ==
    [][LET before == Book
           after  == Book'
           born   == B!LiveSlots(after) \ B!LiveSlots(before)
           gone   == B!LiveSlots(before) \ B!LiveSlots(after)
       IN  /\ \A h \in born : after = B!add(before, after.slab[h], h)
           /\ \A h \in gone : after = B!remove_at(before, h)
           /\ gone # {} => \A side \in B!Sides :
                  remove_front(side) => after = B!remove_front(before, side)
           /\ born \cup gone = {} => \E h \in B!LiveSlots(before) :
                  after = B!reduce_at(before, h, after.slab[h].remaining_quantity)
      ]_vars

\* The merge of ladder and map (matching_book.cpp:239) meets every level of a side
\* once, best first, from wherever the band lies; the loops over it give every order
\* in priority order and answer a fill-or-kill order as the book itself would.
WalksInPriority ==
    \A side \in B!Sides :
        LET book == Book
            walk == Walk(side)
            q    == Max(Quantities) + 1  \* more than one order has
        IN  /\ Range(walk) = B!Levels(book, side)
            /\ \A j, k \in DOMAIN walk : j < k => B!Better(side, walk[j], walk[k])
            /\ Range(all_of(side)) = {h \in Live : slab[h].order.side = side}
            /\ \A p \in Prices :
                  crossable_quantity(side, p, q) < q <=> B!crossable_quantity(book, side, p) < q

=============================================================================
