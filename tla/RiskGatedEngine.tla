--------------------------- MODULE RiskGatedEngine ---------------------------
(***************************************************************************)
(* mdh::exchange::risk::RiskGatedEngine: the pre-trade risk check in front *)
(* of the matching engine, and the ledger behind it.  Ledger::apply() is   *)
(* called synchronously for every event the engine emits, so each step of  *)
(* MatchingEngine here also moves the ledger by the events of that step.   *)
(*                                                                         *)
(* Cash is a signed 64-bit integer, modelled as an integer: the bounds     *)
(* keep it far from its limits (the product price * quantity in the code   *)
(* is not checked for overflow).  Quantity is unsigned and wraps, which    *)
(* is modelled with QuantityModulus for 2^64.                              *)
(***************************************************************************)
EXTENDS MatchingEngine

CONSTANTS SeedCash,         \* cash an account may be seeded with
          SeedPosition,     \* units of each instrument it may be seeded with
          MaxOrderQuantity, \* RiskLimits::max_order_quantity
          QuantityModulus

ASSUME RiskAssumption ==
    /\ SeedCash \subseteq Nat
    /\ SeedPosition \subseteq Nat
    /\ MaxOrderQuantity \in Nat
    /\ QuantityModulus \in Nat \ {0}
    /\ IsFiniteSet(Accounts) /\ IsFiniteSet(ClientIds)   \* 64-bit ids

\* Of no instrument do the accounts together start with more units than a Quantity
\* can count.
ASSUME SeedAssumption ==
    \A seeds \in [Accounts -> SeedPosition] : Total(seeds) < QuantityModulus

VARIABLES cash_total, cash_reserved,         \* AccountBalances, by account
          position_total, position_reserved, \* by account and instrument
          holds                              \* holds_, None where there is none

ledgerVars == <<cash_total, cash_reserved, position_total, position_reserved, holds>>
riskVars   == <<engineVars, ledgerVars>>

Hold == [instrument_id : Instruments, side : Sides, limit_price : Prices,
         remaining : Nat]

\* The mark for "no hold" is not a hold.
ASSUME HoldAssumption == None \notin Hold

CurrentLedger ==
    [cash_total |-> cash_total, cash_reserved |-> cash_reserved,
     position_total |-> position_total, position_reserved |-> position_reserved,
     holds |-> holds]

\* Arithmetic of the unsigned Quantity type.
Plus(m, n)  == (m + n) % QuantityModulus
Minus(m, n) == (m - n) % QuantityModulus

\* deposit_cash() and deposit_position() seed an account before any traffic.
RiskInit ==
    /\ Init
    /\ cash_total \in [Accounts -> SeedCash]
    /\ cash_reserved = [a \in Accounts |-> 0]
    /\ position_total \in [Accounts -> [Instruments -> SeedPosition]]
    /\ position_reserved = [a \in Accounts |-> [i \in Instruments |-> 0]]
    /\ holds = [k \in Keys |-> None]

\* Mutant of available_cash: what open orders reserve is not set aside.
all_cash(a) == cash_total[a]

available_cash(a) == cash_total[a] - cash_reserved[a]
available_position(a, i) == Minus(position_total[a][i], position_reserved[a][i])

-----------------------------------------------------------------------------
(***************************************************************************)
(* Ledger: what each event does to the balances.                           *)
(***************************************************************************)
open_hold(l, k, hold) ==
    IF hold.remaining = 0 THEN l
    ELSE LET a == k[1]
             m == [l EXCEPT !.holds[k] = hold]
         IN  IF hold.side = "Buy"
               THEN [m EXCEPT !.cash_reserved[a] =
                                 @ + hold.remaining * hold.limit_price]
               ELSE [m EXCEPT !.position_reserved[a][hold.instrument_id] =
                                 Plus(@, hold.remaining)]

\* Frees what the hold under k still reserves, and forgets the hold.
release_hold_fully(l, k) ==
    LET a    == k[1]
        hold == l.holds[k]
        m    == [l EXCEPT !.holds[k] = None]
    IN  IF hold.side = "Buy"
          THEN [m EXCEPT !.cash_reserved[a] = @ - hold.remaining * hold.limit_price]
          ELSE [m EXCEPT !.position_reserved[a][hold.instrument_id] =
                            Minus(@, hold.remaining)]

\* The reservation behind the filled slice, at the order's own limit price.
ReleaseSlice(l, leg, side, instrument, quantity) ==
    LET a == leg.account_id
        k == <<leg.account_id, leg.client_order_id>>
        m == [l EXCEPT !.holds[k] = IF leg.remaining_quantity = 0 THEN None
                                    ELSE [@ EXCEPT !.remaining = leg.remaining_quantity]]
    IN  IF l.holds[k] = None THEN l
        ELSE IF side = "Buy"
          THEN [m EXCEPT !.cash_reserved[a] = @ - quantity * l.holds[k].limit_price]
          ELSE [m EXCEPT !.position_reserved[a][instrument] = Minus(@, quantity)]

\* Mutant of settle_leg: it returns early when there is no hold (an IOC order).
settle_leg_with_hold(l, leg, side, instrument, price, quantity) ==
    LET a == leg.account_id
        m == ReleaseSlice(l, leg, side, instrument, quantity)
    IN  IF l.holds[<<leg.account_id, leg.client_order_id>>] = None THEN l
        ELSE IF side = "Buy"
          THEN [m EXCEPT !.cash_total[a] = @ - quantity * price,
                         !.position_total[a][instrument] = Plus(@, quantity)]
          ELSE [m EXCEPT !.cash_total[a] = @ + quantity * price,
                         !.position_total[a][instrument] = Minus(@, quantity)]

settle_leg(l, leg, side, instrument, price, quantity) ==
    LET a == leg.account_id
        m == ReleaseSlice(l, leg, side, instrument, quantity)
    IN  IF side = "Buy"
          THEN [m EXCEPT !.cash_total[a] = @ - quantity * price,
                         !.position_total[a][instrument] = Plus(@, quantity)]
          ELSE [m EXCEPT !.cash_total[a] = @ + quantity * price,
                         !.position_total[a][instrument] = Minus(@, quantity)]

on_order_accepted(l, e) ==
    IF e.time_in_force # GTC THEN l
    ELSE open_hold(l, <<e.account_id, e.client_order_id>>,
                   [instrument_id |-> e.instrument_id, side |-> e.side,
                    limit_price |-> e.price, remaining |-> e.quantity])

\* Mutant of on_order_replaced: the hold moves to the new id at the old price.
on_order_replaced_old_price(l, e) ==
    LET old == <<e.account_id, e.original_client_order_id>>
    IN  IF l.holds[old] = None THEN l
        ELSE open_hold(release_hold_fully(l, old),
                       <<e.account_id, e.new_client_order_id>>,
                       [l.holds[old] EXCEPT !.remaining = e.new_quantity])

on_order_replaced(l, e) ==
    LET old == <<e.account_id, e.original_client_order_id>>
    IN  IF l.holds[old] = None THEN l
        ELSE open_hold(release_hold_fully(l, old),
                       <<e.account_id, e.new_client_order_id>>,
                       [instrument_id |-> e.instrument_id,
                        side |-> l.holds[old].side,
                        limit_price |-> e.new_price, remaining |-> e.new_quantity])

on_order_cancelled(l, e) ==
    LET k == <<e.account_id, e.client_order_id>>
    IN  IF l.holds[k] = None THEN l ELSE release_hold_fully(l, k)

on_trade_executed(l, e) ==
    settle_leg(settle_leg(l, e.buyer, "Buy", e.instrument_id, e.price, e.quantity),
               e.seller, "Sell", e.instrument_id, e.price, e.quantity)

\* Rejections and the anonymous book events do not concern the ledger.
apply(l, e) ==
    CASE e.type = "OrderAccepted"  -> on_order_accepted(l, e)
      [] e.type = "OrderReplaced"  -> on_order_replaced(l, e)
      [] e.type = "OrderCancelled" -> on_order_cancelled(l, e)
      [] e.type = "TradeExecuted"  -> on_trade_executed(l, e)
      [] OTHER                     -> l

\* The sink RiskGatedEngine::process() hands to the engine, over the events of
\* the step; a step emits at most two.
LedgerFollows ==
    LET l == CASE Len(emitted') = 0 -> CurrentLedger
               [] Len(emitted') = 1 -> apply(CurrentLedger, emitted'[1])
               [] OTHER -> apply(apply(CurrentLedger, emitted'[1]), emitted'[2])
    IN  /\ cash_total' = l.cash_total
        /\ cash_reserved' = l.cash_reserved
        /\ position_total' = l.position_total
        /\ position_reserved' = l.position_reserved
        /\ holds' = l.holds

-----------------------------------------------------------------------------
(***************************************************************************)
(* RiskEngine::check(), for a new order and for a replace.                 *)
(***************************************************************************)
CheckNewOrder(c) ==
    IF c.quantity > MaxOrderQuantity THEN "OrderTooLarge"
    ELSE IF c.side = "Buy" /\ available_cash(c.account_id) < c.quantity * c.price
         THEN "InsufficientFunds"
    ELSE IF /\ c.side = "Sell"
            /\ available_position(c.account_id, c.instrument_id) < c.quantity
         THEN "InsufficientPosition"
    ELSE "None"

\* The hold of an order, or None.
find_hold(a, id) == holds[<<a, id>>]

\* What the replacement needs beyond what its original already reserves.
Extra(new, old) == IF new > old THEN new - old ELSE 0

CheckReplace(c) ==
    LET hold == find_hold(c.account_id, c.original_client_order_id)
    IN  IF c.new_quantity > MaxOrderQuantity THEN "OrderTooLarge"
        ELSE IF hold = None THEN "None"
        ELSE IF hold.instrument_id # c.instrument_id THEN "None"
        ELSE IF /\ hold.side = "Buy"
                /\ available_cash(c.account_id)
                     < Extra(c.new_quantity * c.new_price,
                             hold.remaining * hold.limit_price)
             THEN "InsufficientFunds"
        ELSE IF /\ hold.side = "Sell"
                /\ available_position(c.account_id, c.instrument_id)
                     < Extra(c.new_quantity, hold.remaining)
             THEN "InsufficientPosition"
        ELSE "None"

-----------------------------------------------------------------------------
(***************************************************************************)
(* RiskGatedEngine::process().  A command refused here is answered with    *)
(* the engine's own reject_*(), and the ledger is left alone.              *)
(***************************************************************************)
GateNewOrder(c) ==
    IF ~knows_instrument(c.instrument_id) THEN "InvalidInstrument"
    ELSE CheckNewOrder(c)

GateReplace(c) ==
    IF ~knows_instrument(c.instrument_id) THEN "InvalidInstrument"
    ELSE CheckReplace(c)

RefuseNewOrder(c) ==
    /\ GateNewOrder(c) # "None"
    /\ reject_new_order(c, GateNewOrder(c))
    /\ UNCHANGED ledgerVars

RefuseReplace(c) ==
    /\ GateReplace(c) # "None"
    /\ reject_replace_order(c, GateReplace(c))
    /\ UNCHANGED ledgerVars

NewOrder(c) ==
    \/ RefuseNewOrder(c)
    \/ GateNewOrder(c) = "None" /\ process_new_order(c) /\ LedgerFollows

Replace(c) ==
    \/ RefuseReplace(c)
    \/ GateReplace(c) = "None" /\ process_replace(c) /\ LedgerFollows

Cancel(c) == process_cancel(c) /\ LedgerFollows

Match == match_and_rest /\ LedgerFollows
Finish == rest_remainder_if_applicable /\ LedgerFollows

RiskNext ==
    \/ \E c \in NewOrderCommand : NewOrder(c)
    \/ \E c \in CancelOrderCommand : Cancel(c)
    \/ \E c \in ReplaceOrderCommand : ClientMaySend(c) /\ Replace(c)
    \/ Match
    \/ Finish

RiskSpec == RiskInit /\ [][RiskNext]_riskVars
-----------------------------------------------------------------------------
(***************************************************************************)
(* Properties                                                              *)
(***************************************************************************)
HoldFor(order, instrument) ==
    [instrument_id |-> instrument, side |-> order.side,
     limit_price |-> order.price, remaining |-> order.remaining_quantity]

InFlight(k) == /\ ~Idle
               /\ Rests(incoming)
               /\ k = <<incoming.account_id, incoming.client_order_id>>

\* The ledger, which only sees events, and the engine, which only sees commands,
\* agree on every order: there is a hold exactly for the orders that rest or are
\* about to, for the quantity still open, at the order's own limit.
HoldsMatchOrders ==
    \A k \in Keys :
        holds[k] = IF orders[k] # None
                     THEN HoldFor(at(books[orders[k].instrument_id], orders[k].handle),
                                  orders[k].instrument_id)
                   ELSE IF InFlight(k) THEN HoldFor(incoming, incoming.instrument_id)
                   ELSE None

HoldsOf(a, side) ==
    {k \in Keys : k[1] = a /\ holds[k] # None /\ holds[k].side = side}

\* What an account has reserved is what its holds reserve, no more and no less:
\* fills at a better price, cancels and replaces leave no reservation behind
\* and release none twice.
ReservedMatchesHolds ==
    \A a \in Accounts :
        /\ cash_reserved[a] =
              Total([k \in HoldsOf(a, "Buy") |-> holds[k].remaining * holds[k].limit_price])
        /\ \A i \in Instruments :
              position_reserved[a][i] =
                 Total([k \in {h \in HoldsOf(a, "Sell") : holds[h].instrument_id = i}
                           |-> holds[k].remaining])

\* The ledger mirrors the book, order by order and in its totals (ledger.cpp:126).
LedgerMirrorsBook == HoldsMatchOrders /\ ReservedMatchesHolds

\* No account ever owes cash or units, nor has more reserved than it owns: the
\* check made when a command arrives still covers every fill it leads to, and
\* available_position() never wraps around zero: "MatchingEngine never lets a
\* hold exceed what was available when opened, so total >= reserved always".
Solvency ==
    \A a \in Accounts :
        /\ 0 <= cash_reserved[a] /\ cash_reserved[a] <= cash_total[a]
        /\ \A i \in Instruments : position_reserved[a][i] <= position_total[a][i]

TotalCash == Total(cash_total)
TotalPosition(i) == Total([a \in Accounts |-> position_total[a][i]]) % QuantityModulus

\* Trading moves cash and units between accounts and never makes or destroys
\* any: the two settle_leg() calls of a trade balance, a self-trade included.
Conservation ==
    [][/\ TotalCash' = TotalCash
       /\ \A i \in Instruments : TotalPosition(i)' = TotalPosition(i)]_riskVars
=============================================================================
