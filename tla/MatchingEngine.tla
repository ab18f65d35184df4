--------------------------- MODULE MatchingEngine ---------------------------
(***************************************************************************)
(* mdh::exchange::MatchingEngine: commands go in, events come out, on one  *)
(* thread.  The state is the engine's own: the registry of instruments,    *)
(* one book per instrument (module PriceTimeBook), the directory orders_   *)
(* from (account, client order id) to where that order rests, and the      *)
(* counters.                                                               *)
(*                                                                         *)
(* process() runs to its end before the next command starts, but the loop  *)
(* of match_and_rest() is one step per iteration here: `incoming` is its   *)
(* parameter, the order in flight (None between commands), and no command  *)
(* starts while there is one.  `emitted` is what the step handed to the    *)
(* EventSink, in order.  Event and command sequence numbers are left out:  *)
(* every event takes next_event_sequence_++ as it is built.                *)
(***************************************************************************)
EXTENDS PriceTimeBook

CONSTANTS Accounts,
          ClientIds,
          Instruments,     \* every instrument id a command may name
          Universe,        \* the ones the engine is constructed with
          Quantities,      \* the valid (positive) order quantities
          Invalid,         \* prices and quantities sent that are not valid
          MaxOrders,       \* bound: exchange order ids handed out
          FreshReplaceIds, \* do clients replace only onto an id that is not live?
          None

ASSUME EngineAssumption ==
    /\ Universe \subseteq Instruments
    /\ Quantities \subseteq Nat \ {0}
    /\ Invalid \subseteq {0}
    /\ MaxOrders \in Nat
    /\ FreshReplaceIds \in BOOLEAN

VARIABLES registered,             \* instruments with a slot in slot_of_id_
          books,                  \* books_, by instrument
          orders,                 \* orders_, None where there is no entry
          next_exchange_order_id,
          next_priority,
          incoming,
          emitted

engineVars == <<registered, books, orders, next_exchange_order_id,
                next_priority, incoming, emitted>>

Keys   == Accounts \X ClientIds
GTC    == "GTC"
IOC    == "IOC"
FOK    == "FOK"
TimeInForce == {GTC, IOC, FOK}

BookOrder ==
    [exchange_order_id : Nat, client_order_id : ClientIds, account_id : Accounts,
     price : Prices, remaining_quantity : Nat, side : Sides,
     time_in_force : TimeInForce]

ExchangeRestingOrder ==
    [exchange_order_id : Nat, client_order_id : ClientIds, account_id : Accounts,
     price : Prices, original_quantity : Nat, remaining_quantity : Nat,
     order_sequence : Nat, instrument_id : Instruments, side : Sides,
     time_in_force : TimeInForce]

OrderRef ==
    [original_quantity : Nat, order_sequence : Nat, handle : Slots,
     instrument_id : Instruments]

\* The marks for "no order" are not orders.
ASSUME MarksAssumption ==
    /\ Free \notin BookOrder
    /\ None \notin OrderRef
    /\ None \notin ExchangeRestingOrder

\* The commands clients can send.
NewOrderCommand ==
    [account_id : Accounts, client_order_id : ClientIds,
     instrument_id : Instruments, side : Sides, price : Prices \cup Invalid,
     quantity : Quantities \cup Invalid, time_in_force : TimeInForce]

CancelOrderCommand ==
    [account_id : Accounts, client_order_id : ClientIds,
     instrument_id : Instruments]

ReplaceOrderCommand ==
    [account_id : Accounts, original_client_order_id : ClientIds,
     new_client_order_id : ClientIds, instrument_id : Instruments,
     new_price : Prices \cup Invalid, new_quantity : Quantities \cup Invalid]

Init ==
    /\ registered = Universe
    /\ books = [i \in Instruments |-> EmptyBook]
    /\ orders = [k \in Keys |-> None]
    /\ next_exchange_order_id = 1
    /\ next_priority = 1
    /\ incoming = None
    /\ emitted = << >>

knows_instrument(i) == i \in registered
Idle == incoming = None

\* Both counters move together, whenever an order enters the matching path.
TakeIds ==
    /\ next_exchange_order_id <= MaxOrders
    /\ next_exchange_order_id' = next_exchange_order_id + 1
    /\ next_priority' = next_priority + 1

OrderRejected(account, id, instrument, reason) ==
    [type |-> "OrderRejected", account_id |-> account, client_order_id |-> id,
     instrument_id |-> instrument, reason |-> reason]

\* A rejection emits one event and touches nothing else.
Reject(account, id, instrument, reason) ==
    /\ Idle
    /\ emitted' = <<OrderRejected(account, id, instrument, reason)>>
    /\ UNCHANGED <<registered, books, orders, next_exchange_order_id,
                   next_priority, incoming>>

reject_new_order(c, reason) ==
    Reject(c.account_id, c.client_order_id, c.instrument_id, reason)

reject_replace_order(c, reason) ==
    Reject(c.account_id, c.original_client_order_id, c.instrument_id, reason)

-----------------------------------------------------------------------------
(***************************************************************************)
(* register_instrument(): replay learns its universe this way, with orders *)
(* already resting.  A known id is refused and nothing changes.            *)
(***************************************************************************)
register_instrument(i) ==
    /\ Idle
    /\ ~knows_instrument(i)
    /\ registered' = registered \cup {i}
    /\ emitted' = << >>
    /\ UNCHANGED <<books, orders, next_exchange_order_id, next_priority, incoming>>

-----------------------------------------------------------------------------
(***************************************************************************)
(* process_new_order()                                                     *)
(***************************************************************************)

\* The early returns, in the order the code takes them.
NewOrderReason(c) ==
    IF ~knows_instrument(c.instrument_id) THEN "InvalidInstrument"
    ELSE IF c.price <= 0 THEN "InvalidPrice"
    ELSE IF c.quantity = 0 THEN "InvalidQuantity"
    ELSE IF orders[<<c.account_id, c.client_order_id>>] # None THEN "DuplicateOrderId"
    ELSE IF /\ c.time_in_force = FOK
            /\ crossable_quantity(books[c.instrument_id], contra(c.side), c.price)
                 < c.quantity
         THEN "InsufficientLiquidity"
    ELSE "None"

RejectNewOrder(c) ==
    /\ NewOrderReason(c) # "None"
    /\ reject_new_order(c, NewOrderReason(c))

AcceptNewOrder(c) ==
    /\ Idle
    /\ NewOrderReason(c) = "None"
    /\ TakeIds
    /\ incoming' = [exchange_order_id |-> next_exchange_order_id,
                    client_order_id |-> c.client_order_id,
                    account_id |-> c.account_id,
                    price |-> c.price,
                    original_quantity |-> c.quantity,
                    remaining_quantity |-> c.quantity,
                    order_sequence |-> next_priority,
                    instrument_id |-> c.instrument_id,
                    side |-> c.side,
                    time_in_force |-> c.time_in_force]
    /\ emitted' = <<[type |-> "OrderAccepted", account_id |-> c.account_id,
                     client_order_id |-> c.client_order_id,
                     exchange_order_id |-> next_exchange_order_id,
                     instrument_id |-> c.instrument_id, side |-> c.side,
                     price |-> c.price, quantity |-> c.quantity,
                     time_in_force |-> c.time_in_force]>>
    /\ UNCHANGED <<registered, books, orders>>

process_new_order(c) == RejectNewOrder(c) \/ AcceptNewOrder(c)

-----------------------------------------------------------------------------
(***************************************************************************)
(* match_and_rest(): one iteration of its loop, then what the caller does  *)
(* with the remainder, rest_remainder_if_applicable().                     *)
(***************************************************************************)
Min2(m, n) == IF m <= n THEN m ELSE n

\* The loop goes on: quantity left, and the best contra level crosses.
CanMatch ==
    LET b == books[incoming.instrument_id]
        s == contra(incoming.side)
    IN  /\ incoming.remaining_quantity > 0
        /\ ~empty(b, s)
        /\ Crosses(s, best_price(b, s), incoming.price)

BookOrderRemoved(instrument, order) ==
    [type |-> "BookOrderRemoved", instrument_id |-> instrument,
     exchange_order_id |-> order.exchange_order_id, side |-> order.side,
     price |-> order.price]

BookOrderReduced(instrument, order, quantity) ==
    [type |-> "BookOrderReduced", instrument_id |-> instrument,
     exchange_order_id |-> order.exchange_order_id, side |-> order.side,
     price |-> order.price, new_remaining_quantity |-> quantity]

TradeCounterparty(order, remaining) ==
    [account_id |-> order.account_id, client_order_id |-> order.client_order_id,
     exchange_order_id |-> order.exchange_order_id,
     remaining_quantity |-> remaining]

\* Executed at the price of the order that was already resting.
TradeExecuted(aggressor, resting, quantity) ==
    LET a == TradeCounterparty(aggressor, aggressor.remaining_quantity - quantity)
        r == TradeCounterparty(resting, resting.remaining_quantity - quantity)
    IN  [type |-> "TradeExecuted", instrument_id |-> aggressor.instrument_id,
         price |-> resting.price, quantity |-> quantity,
         aggressor_side |-> aggressor.side,
         buyer  |-> IF aggressor.side = "Buy" THEN a ELSE r,
         seller |-> IF aggressor.side = "Buy" THEN r ELSE a]

match_and_rest ==
    /\ ~Idle
    /\ CanMatch
    /\ LET i     == incoming.instrument_id
           s     == contra(incoming.side)
           o     == at(books[i], front_of_best(books[i], s))
           qty   == Min2(incoming.remaining_quantity, o.remaining_quantity)
           after == o.remaining_quantity - qty
       IN  /\ incoming' = [incoming EXCEPT !.remaining_quantity = @ - qty]
           /\ IF after = 0
                THEN /\ books' = [books EXCEPT ![i] = remove_front(@, s)]
                     /\ orders' = [orders EXCEPT
                                     ![<<o.account_id, o.client_order_id>>] = None]
                     /\ emitted' = <<TradeExecuted(incoming, o, qty),
                                     BookOrderRemoved(i, o)>>
                ELSE /\ books' = [books EXCEPT ![i] = reduce_front(@, s, after)]
                     /\ emitted' = <<TradeExecuted(incoming, o, qty),
                                     BookOrderReduced(i, o, after)>>
                     /\ UNCHANGED orders
    /\ UNCHANGED <<registered, next_exchange_order_id, next_priority>>

Rests(order) == order.time_in_force = GTC /\ order.remaining_quantity # 0

RestRemainder(h) ==
    /\ ~Idle
    /\ ~CanMatch
    /\ Rests(incoming)
    /\ ~IsLive(books[incoming.instrument_id], h)
    /\ books' = [books EXCEPT ![incoming.instrument_id] = add(@,
                   [exchange_order_id |-> incoming.exchange_order_id,
                    client_order_id |-> incoming.client_order_id,
                    account_id |-> incoming.account_id,
                    price |-> incoming.price,
                    remaining_quantity |-> incoming.remaining_quantity,
                    side |-> incoming.side,
                    time_in_force |-> incoming.time_in_force], h)]
    /\ orders' = [orders EXCEPT
                    ![<<incoming.account_id, incoming.client_order_id>>] =
                       [original_quantity |-> incoming.original_quantity,
                        order_sequence |-> incoming.order_sequence,
                        handle |-> h,
                        instrument_id |-> incoming.instrument_id]]
    /\ emitted' = <<[type |-> "BookOrderAdded",
                     instrument_id |-> incoming.instrument_id,
                     exchange_order_id |-> incoming.exchange_order_id,
                     side |-> incoming.side, price |-> incoming.price,
                     quantity |-> incoming.remaining_quantity]>>
    /\ incoming' = None
    /\ UNCHANGED <<registered, next_exchange_order_id, next_priority>>

\* Filled, or IOC: whatever is left of the order is dropped without an event.
DiscardRemainder ==
    /\ ~Idle
    /\ ~CanMatch
    /\ ~Rests(incoming)
    /\ incoming' = None
    /\ emitted' = << >>
    /\ UNCHANGED <<registered, books, orders, next_exchange_order_id, next_priority>>

rest_remainder_if_applicable == (\E h \in Slots : RestRemainder(h)) \/ DiscardRemainder

-----------------------------------------------------------------------------
(***************************************************************************)
(* process_cancel()                                                        *)
(***************************************************************************)

\* No entry under this key, or the entry is for another instrument.
UnknownOrder(k, i) == orders[k] = None \/ orders[k].instrument_id # i

CancelReason(c) ==
    IF ~knows_instrument(c.instrument_id) THEN "InvalidInstrument"
    ELSE IF UnknownOrder(<<c.account_id, c.client_order_id>>, c.instrument_id)
         THEN "UnknownOrderId"
    ELSE "None"

RejectCancel(c) ==
    /\ CancelReason(c) # "None"
    /\ Reject(c.account_id, c.client_order_id, c.instrument_id, CancelReason(c))

CancelResting(c) ==
    /\ Idle
    /\ CancelReason(c) = "None"
    /\ LET k == <<c.account_id, c.client_order_id>>
           i == c.instrument_id
           h == orders[k].handle
           o == at(books[i], h)
       IN  /\ orders' = [orders EXCEPT ![k] = None]
           /\ books' = [books EXCEPT ![i] = remove_at(@, h)]
           /\ emitted' = <<[type |-> "OrderCancelled", account_id |-> c.account_id,
                            client_order_id |-> c.client_order_id,
                            exchange_order_id |-> o.exchange_order_id,
                            instrument_id |-> i],
                           BookOrderRemoved(i, o)>>
    /\ UNCHANGED <<registered, next_exchange_order_id, next_priority, incoming>>

process_cancel(c) == RejectCancel(c) \/ CancelResting(c)

-----------------------------------------------------------------------------
(***************************************************************************)
(* process_replace().  The same price and no more quantity edits the order *)
(* where it stands; anything else is a cancel followed by a new order.     *)
(* Neither path asks whether the new client order id is already live.      *)
(***************************************************************************)
ReplaceReason(c) ==
    IF ~knows_instrument(c.instrument_id) THEN "InvalidInstrument"
    ELSE IF c.new_price <= 0 \/ c.new_quantity = 0 THEN "InvalidReplacement"
    ELSE IF UnknownOrder(<<c.account_id, c.original_client_order_id>>, c.instrument_id)
         THEN "UnknownOrderId"
    ELSE "None"

RejectReplace(c) ==
    /\ ReplaceReason(c) # "None"
    /\ reject_replace_order(c, ReplaceReason(c))

OrderReplaced(c, exchange_order_id) ==
    [type |-> "OrderReplaced", account_id |-> c.account_id,
     original_client_order_id |-> c.original_client_order_id,
     new_client_order_id |-> c.new_client_order_id,
     exchange_order_id |-> exchange_order_id,
     instrument_id |-> c.instrument_id,
     new_price |-> c.new_price, new_quantity |-> c.new_quantity]

\* Mutant of preserves_priority: more quantity keeps its place too.
preserves_priority_any_quantity(c, o) == c.new_price = o.price

preserves_priority(c, o) ==
    c.new_price = o.price /\ c.new_quantity <= o.remaining_quantity

\* An in-place replace that updates the directory by `entries`.
ReplaceInPlaceWith(c, entries) ==
    /\ Idle
    /\ ReplaceReason(c) = "None"
    /\ LET i   == c.instrument_id
           ref == orders[<<c.account_id, c.original_client_order_id>>]
           o   == at(books[i], ref.handle)
       IN  /\ preserves_priority(c, o)
           /\ books' = [books EXCEPT
                          ![i] = set_client_order_id_at(
                                   reduce_at(@, ref.handle, c.new_quantity),
                                   ref.handle, c.new_client_order_id)]
           /\ emitted' = <<OrderReplaced(c, o.exchange_order_id)>>
    /\ orders' = entries
    /\ UNCHANGED <<registered, next_exchange_order_id, next_priority, incoming>>

\* Mutant of ReplaceInPlace: the old key is erased and the new one not inserted.
ReplaceInPlaceNoInsert(c) ==
    ReplaceInPlaceWith(c,
        [orders EXCEPT ![<<c.account_id, c.original_client_order_id>>] = None])

\* Mutant of ReplaceInPlace: the new key is inserted and the old one not erased.
ReplaceInPlaceNoErase(c) ==
    ReplaceInPlaceWith(c,
        [orders EXCEPT ![<<c.account_id, c.new_client_order_id>>] =
                          orders[<<c.account_id, c.original_client_order_id>>]])

ReplaceInPlace(c) ==
    /\ Idle
    /\ ReplaceReason(c) = "None"
    /\ LET k   == <<c.account_id, c.original_client_order_id>>
           i   == c.instrument_id
           ref == orders[k]
           o   == at(books[i], ref.handle)
       IN  /\ preserves_priority(c, o)
           /\ books' = [books EXCEPT
                          ![i] = set_client_order_id_at(
                                   reduce_at(@, ref.handle, c.new_quantity),
                                   ref.handle, c.new_client_order_id)]
           /\ orders' = [orders EXCEPT
                           ![k] = None,
                           ![<<c.account_id, c.new_client_order_id>>] = ref]
           /\ emitted' = <<OrderReplaced(c, o.exchange_order_id),
                           BookOrderReduced(i, o, c.new_quantity)>>
    /\ UNCHANGED <<registered, next_exchange_order_id, next_priority, incoming>>

ReplaceAsNew(c) ==
    /\ Idle
    /\ ReplaceReason(c) = "None"
    /\ TakeIds
    /\ LET k == <<c.account_id, c.original_client_order_id>>
           i == c.instrument_id
           h == orders[k].handle
           o == at(books[i], h)
       IN  /\ ~preserves_priority(c, o)
           /\ books' = [books EXCEPT ![i] = remove_at(@, h)]
           /\ orders' = [orders EXCEPT ![k] = None]
           /\ emitted' = <<OrderReplaced(c, next_exchange_order_id),
                           BookOrderRemoved(i, o)>>
           /\ incoming' = [exchange_order_id |-> next_exchange_order_id,
                           client_order_id |-> c.new_client_order_id,
                           account_id |-> c.account_id,
                           price |-> c.new_price,
                           original_quantity |-> c.new_quantity,
                           remaining_quantity |-> c.new_quantity,
                           order_sequence |-> next_priority,
                           instrument_id |-> i,
                           side |-> o.side,
                           time_in_force |-> o.time_in_force]
    /\ UNCHANGED registered

process_replace(c) == RejectReplace(c) \/ ReplaceInPlace(c) \/ ReplaceAsNew(c)

\* The discipline of the repository's own client, which mints a new id for
\* every order and every replace; nothing in the exchange enforces it.
ClientMaySend(c) ==
    FreshReplaceIds =>
        \/ c.new_client_order_id = c.original_client_order_id
        \/ orders[<<c.account_id, c.new_client_order_id>>] = None

-----------------------------------------------------------------------------
Next ==
    \/ \E i \in Instruments : register_instrument(i)
    \/ \E c \in NewOrderCommand : process_new_order(c)
    \/ \E c \in CancelOrderCommand : process_cancel(c)
    \/ \E c \in ReplaceOrderCommand : ClientMaySend(c) /\ process_replace(c)
    \/ match_and_rest
    \/ rest_remainder_if_applicable

Spec == Init /\ [][Next]_engineVars
-----------------------------------------------------------------------------
(***************************************************************************)
(* What the engine reports of its state: the orders of every instrument    *)
(* that has some, level by level, each put together from the book and the  *)
(* directory.                                                              *)
(***************************************************************************)
LiveKey(order) == <<order.account_id, order.client_order_id>>

compose(order, i) ==
    LET ref == orders[LiveKey(order)]
    IN  [exchange_order_id |-> order.exchange_order_id,
         client_order_id |-> order.client_order_id,
         account_id |-> order.account_id,
         price |-> order.price,
         original_quantity |-> ref.original_quantity,
         remaining_quantity |-> order.remaining_quantity,
         order_sequence |-> ref.order_sequence,
         instrument_id |-> i,
         side |-> order.side,
         time_in_force |-> order.time_in_force]

snapshot ==
    [i \in {r \in registered : LiveSlots(books[r]) # {}} |->
        [s \in Sides |-> [p \in Levels(books[i], s) |->
            [k \in DOMAIN books[i].queue[s][p] |->
                compose(at(books[i], books[i].queue[s][p][k]), i)]]]]

-----------------------------------------------------------------------------
(***************************************************************************)
(* Properties                                                              *)
(***************************************************************************)
\* The type of the engine's state.
TypeOK ==
    /\ registered \subseteq Instruments
    /\ books \in [Instruments -> BookOf(BookOrder)]
    /\ orders \in [Keys -> OrderRef \cup {None}]
    /\ next_exchange_order_id \in Nat \ {0}
    /\ next_priority \in Nat \ {0}
    /\ incoming \in ExchangeRestingOrder \cup {None}

\* Every level queue holds exactly the live orders of its side and price, once
\* each: remove_at(), remove_front() and add() never lose, duplicate or misfile
\* an order, whichever end of whichever level they work on.
BookIntegrity ==
    \A i \in Instruments : /\ QueuedAreLive(books[i])
                           /\ QueuedOnce(books[i])
                           /\ LiveAreQueued(books[i])

\* No resting bid is at or above a resting ask, not even while an order is
\* being matched: match_and_rest() exhausts every level that crosses before
\* rest_remainder_if_applicable() may add the rest.
NoCrossedBook ==
    \A i \in Instruments : \A g, h \in LiveSlots(books[i]) :
        at(books[i], g).side = "Buy" /\ at(books[i], h).side = "Sell"
            => at(books[i], g).price < at(books[i], h).price

\* A Handle in the directory names a live order of that instrument, and the
\* very order its key says.  Slots are recycled, so a stale handle would name
\* somebody else's order and cancel or edit it.
DirectorySound ==
    \A k \in Keys : orders[k] # None =>
        LET b == books[orders[k].instrument_id]
            h == orders[k].handle
        IN  /\ IsLive(b, h)
            /\ k = <<at(b, h).account_id, at(b, h).client_order_id>>

\* compose() relies on it: "Every order on a book has an entry here: the two are
\* written and erased together at every mutation point in this engine."  An
\* order without one can never be cancelled or replaced again.  And what snapshot()
\* composes from the two halves is a state of one order: it has not filled more than
\* it asked for, and it stands behind the orders of its level accepted before it.
DirectoryCoversBook ==
    /\ \A i \in Instruments : \A h \in LiveSlots(books[i]) :
          LET ref == orders[LiveKey(at(books[i], h))]
          IN  ref # None /\ ref.instrument_id = i /\ ref.handle = h
    /\ \A i \in DOMAIN snapshot, s \in Sides : \A p \in DOMAIN snapshot[i][s] :
          LET level == snapshot[i][s][p]
          IN  \A k \in DOMAIN level :
                /\ level[k].remaining_quantity \in 1 .. level[k].original_quantity
                /\ \A j \in 1 .. k - 1 : level[j].order_sequence < level[k].order_sequence

\* FOK: the crossable_quantity() pre-check and the matching loop agree, so an
\* accepted fill-or-kill order never leaves the loop with quantity unfilled.
FillOrKill ==
    (~Idle /\ incoming.time_in_force = FOK /\ ~CanMatch)
        => incoming.remaining_quantity = 0

\* Price-time priority, the exchange's published rule: the resting side of every
\* trade is the best-priced, earliest accepted order of its side in the whole
\* book, and neither side trades beyond its own limit.
TradesBestFirst ==
    \A n \in 1 .. Len(emitted') : emitted'[n].type = "TradeExecuted" =>
        LET t       == emitted'[n]
            b       == books[t.instrument_id]
            side    == contra(t.aggressor_side)
            resting == IF side = "Buy" THEN t.buyer ELSE t.seller
        IN  /\ Crosses(side, t.price, incoming.price)
            /\ \A h \in LiveSlots(b) : at(b, h).side = side =>
                  \/ Better(side, t.price, at(b, h).price)
                  \/ /\ at(b, h).price = t.price
                     /\ at(b, h).exchange_order_id >= resting.exchange_order_id

PriceTimePriority == [][TradesBestFirst]_engineVars

\* What a step may do to an order that stays on the book: a fill or an in-place
\* replace takes quantity away and never adds any, moves it to another price,
\* side or account, or gives it a new exchange order id.
RestingOrdersOnlyShrink ==
    [][\A i \in Instruments : \A h \in LiveSlots(books[i]) \cap LiveSlots(books'[i]) :
          LET o == at(books[i], h)
              n == at(books'[i], h)
          IN  o.exchange_order_id = n.exchange_order_id
                => /\ n.remaining_quantity \in 1 .. o.remaining_quantity
                   /\ <<n.price, n.side, n.account_id>> = <<o.price, o.side, o.account_id>>
      ]_engineVars

=============================================================================
