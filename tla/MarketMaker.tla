---------------------------- MODULE MarketMaker ----------------------------
(***************************************************************************)
(* MarketMakerStrategy on top of the trader's order path: on every book    *)
(* update it looks at its position and its two quotes and requotes each    *)
(* side.  The reader thread and the venue run on between its steps.        *)
(***************************************************************************)
EXTENDS OrderManagement

CONSTANTS Mids,          \* midpoints the book may show
          half_spread, requote_threshold, max_position

ASSUME MarketMakerAssumption ==
    /\ Mids \subseteq Nat
    /\ half_spread \in Nat \ {0} /\ requote_threshold \in Nat \ {0}
    /\ max_position \in Nat
    /\ \A mid \in Mids : mid > half_spread

VARIABLES
    quote,      \* bid_order_id_ and ask_order_id_, by side; None is nullopt
    mm_pc,      \* where on_book_update() is
    mid, at_position_cap, bid_crosses,   \* its locals
    plan        \* the sides it has still to update, in order

mmLocals == <<mm_pc, mid, at_position_cap, bid_crosses, plan>>
mmVars == <<quote, mmLocals>>
vars == <<omVars, mmVars>>

Init ==
    /\ OmInit
    /\ quote = [side \in Sides |-> None]
    /\ mm_pc = "idle" /\ mid = None
    /\ at_position_cap = FALSE /\ bid_crosses = FALSE /\ plan = << >>

desired(side) ==
    IF side = "Sell" THEN mid + half_spread
    ELSE IF at_position_cap THEN None ELSE mid - half_spread

\* The quote of a side as order() returns it and the strategy counts on it.
Standing(side) ==
    IF quote[side] # None /\ Known(quote[side]) /\ ~is_terminal(orders[quote[side]])
      THEN {orders[quote[side]]} ELSE {}

-----------------------------------------------------------------------------
(***************************************************************************)
(* on_book_update().                                                       *)
(***************************************************************************)
\* Updates stop with the ids.
on_book_update ==
    /\ mm_pc = "idle" /\ next_client_order_id \in Ids
    /\ \E m \in Mids : mid' = m
    /\ at_position_cap' = (holdings >= max_position)
    /\ mm_pc' = "ask"
    /\ UNCHANGED <<omVars, quote, bid_crosses, plan>>

LookAtAsk ==
    /\ mm_pc = "ask"
    /\ bid_crosses' = \E o \in Standing("Sell") :
                          desired("Buy") # None /\ desired("Buy") >= o.price
    /\ mm_pc' = "bid"
    /\ UNCHANGED <<omVars, quote, mid, at_position_cap, plan>>

LookAtBid ==
    /\ mm_pc = "bid"
    /\ LET ask_crosses == \E o \in Standing("Buy") : desired("Sell") <= o.price
       IN  plan' = IF bid_crosses /\ ~ask_crosses THEN <<"Sell", "Buy">> ELSE <<"Buy", "Sell">>
    /\ mm_pc' = "update"
    /\ UNCHANGED <<omVars, quote, mid, at_position_cap, bid_crosses>>

-----------------------------------------------------------------------------
(***************************************************************************)
(* update_side(): read the order, decide, and only then call the OMS,      *)
(* which looks at the order again.                                         *)
(***************************************************************************)
Side == Head(plan)
Far(a, b) == (IF a > b THEN a - b ELSE b - a) >= requote_threshold

\* Mutant of Decision: an order not yet accepted is replaced by a fresh one.
DecisionPilingOn ==
    IF Standing(Side) = {} THEN "submit"
    ELSE LET o == orders[quote[Side]]
         IN  CASE o.state = "PendingNew" -> "submit"
               [] o.pending # "None" -> "return"
               [] OTHER -> IF desired(Side) = None THEN "cancel"
                           ELSE IF Far(o.price, desired(Side)) THEN "replace" ELSE "return"

\* Mutant of Decision: whatever the quote is, a fresh one is sent.
DecisionFresh == "submit"

Decision ==
    IF Standing(Side) = {} THEN "submit"
    ELSE LET o == orders[quote[Side]]
         IN  CASE o.state = "PendingNew" \/ o.pending # "None" -> "return"
               [] OTHER -> IF desired(Side) = None THEN "cancel"
                           ELSE IF Far(o.price, desired(Side)) THEN "replace" ELSE "return"

NextSide ==
    /\ plan' = Tail(plan)
    /\ mm_pc' = IF Tail(plan) = << >> THEN "idle" ELSE "update"
    /\ UNCHANGED <<mid, at_position_cap, bid_crosses>>

Decide ==
    /\ mm_pc = "update" /\ call = None
    /\ \/ /\ Decision = "submit" /\ desired(Side) # None
          /\ mm_pc' = "submit"
          /\ quote' = [quote EXCEPT ![Side] = None]
          /\ UNCHANGED <<mid, at_position_cap, bid_crosses, plan>>
       \/ /\ Decision = "submit" /\ desired(Side) = None
          /\ quote' = [quote EXCEPT ![Side] = None]
          /\ NextSide
       \/ /\ Decision \in {"cancel", "replace"}
          /\ mm_pc' = Decision
          /\ UNCHANGED <<quote, mid, at_position_cap, bid_crosses, plan>>
       \/ Decision = "return" /\ NextSide /\ UNCHANGED quote
    /\ UNCHANGED omVars

Submit ==
    /\ mm_pc = "submit"
    /\ \/ submit_rejected(Side) /\ UNCHANGED quote
       \/ /\ submit_new_order(Side, desired(Side))
          /\ quote' = [quote EXCEPT ![Side] = next_client_order_id]
    /\ NextSide
    /\ UNCHANGED <<readerVars, venueVars, wireVars>>

Cancel ==
    /\ mm_pc = "cancel"
    /\ \/ cancel_order(quote[Side])
       \/ ~Changeable(quote[Side]) /\ UNCHANGED <<omsVars, callerVars>>
    /\ NextSide
    /\ UNCHANGED <<quote, readerVars, venueVars, wireVars>>

\* The quote moves to the new id once the replacement is sent; a send that fails
\* returns nullopt and leaves it (see Replaced).
Replace ==
    /\ mm_pc = "replace"
    /\ \/ replace_order(quote[Side], desired(Side)) /\ mm_pc' = "replacing"
          /\ UNCHANGED <<mid, at_position_cap, bid_crosses, plan>>
       \/ ~Changeable(quote[Side]) /\ UNCHANGED <<omsVars, callerVars>> /\ NextSide
    /\ UNCHANGED <<quote, readerVars, venueVars, wireVars>>

\* replace_order() has returned: the new id if it is still registered.
Replaced ==
    /\ mm_pc = "replacing" /\ call = None
    /\ quote' = [quote EXCEPT ![Side] =
                    IF Known(next_client_order_id - 1) THEN next_client_order_id - 1 ELSE @]
    /\ NextSide
    /\ UNCHANGED omVars

Strategy == on_book_update \/ LookAtAsk \/ LookAtBid \/ Decide \/ Submit \/ Cancel
            \/ Replace \/ Replaced

-----------------------------------------------------------------------------
Next ==
    \/ Strategy \/ (Caller /\ UNCHANGED mmVars)
    \/ (Reader /\ UNCHANGED mmVars) \/ (Environment /\ UNCHANGED mmVars)

\* The threads run and the gateway deals with what reaches it, the command dropped or
\* answered; trades and new books need not come.
Fairness ==
    /\ WF_vars(Caller /\ UNCHANGED mmVars)
    /\ WF_vars(Reader /\ UNCHANGED mmVars)
    /\ WF_vars(VenueCommand /\ UNCHANGED mmVars)

Spec == Init /\ [][Next]_vars /\ Fairness
-----------------------------------------------------------------------------
(***************************************************************************)
(* Properties                                                              *)
(***************************************************************************)
\* An order the OMS calls finished is not working at the venue and no command in
\* flight can put it there.
FinishedIsFinished ==
    \A id \in DOMAIN orders :
        is_terminal(orders[id]) =>
            /\ id \notin DOMAIN resting
            /\ \A m \in Range(to_exchange) :
                   /\ m.type = "NewOrder" => m.id # id
                   /\ m.type = "ReplaceOrder" => m.new_id # id

\* Nothing is in flight, and nothing the venue said was lost.
Quiet ==
    /\ link /\ lost_reports = {}
    /\ call = None /\ fill = None /\ to_exchange = << >> /\ to_client = << >>

\* With nothing in flight the OMS and the tracker agree with the venue: the same
\* orders work, with the same quantity left, and the settled position is the
\* venue's.
AgreeWhenQuiet ==
    Quiet =>
        /\ {id \in DOMAIN orders : is_live(orders[id])} = DOMAIN resting
        /\ \A id \in DOMAIN resting : /\ orders[id].remaining = resting[id].remaining
                                      /\ orders[id].price = resting[id].price
        /\ holdings = venue_position

\* The strategy never has two orders of one side working.
OneQuotePerSide ==
    \A side \in Sides : Cardinality({id \in DOMAIN resting : resting[id].side = side}) <= 1

\* max_position is a cap on quoting, read before the quotes are looked at and while
\* the last fill may be unsettled: the account's position passes it by less than
\* three quotes (a fill not yet settled when the cap is read, the bid then working,
\* and the fresh one sent on the reading), whatever the venue does meanwhile.  The cap
\* is on what was reported: this is so while the gateway has dropped no report.
InventoryBounded == lost_reports = {} => venue_position < max_position + 3 * QuoteSize

InFlight == {id \in DOMAIN orders : orders[id].pending # "None"}

\* The gateway dropped the cancel or replace of this order, or the answer to it.
Unanswerable ==
    {m.id : m \in {l \in lost_commands : l.type # "NewOrder"}
                  \union {l \in lost_reports : l.type \in {"Cancelled", "Replaced", "Rejected"}}}

\* Every cancel or replace in flight is answered, whatever became of its order, unless
\* the connection breaks or the gateway drops the one or the other of the two: a time
\* comes when none is waited for (MaxOrders ends the requoting).
RequestsAnswered ==
    (InFlight \ Unanswerable # {}) ~> (~link \/ InFlight \subseteq Unanswerable)

=============================================================================
