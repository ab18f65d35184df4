-------------------------- MODULE OrderManagement --------------------------
(***************************************************************************)
(* The trader's order path: mdh::trader::oms::OrderManagementSystem over   *)
(* an OrderEntryClient, with TraderRiskGatedOms, TraderRiskEngine and      *)
(* PositionTracker, against the exchange at the other end of the TCP       *)
(* session.                                                                *)
(*                                                                         *)
(* Two threads of the trader meet here: the caller of submit_new_order(),  *)
(* cancel_order() and replace_order(), and the client's reader thread,     *)
(* which runs handle_message().  mutex_ is held for one step of either and *)
(* never across a send.                                                    *)
(*                                                                         *)
(* Cash is not tracked: the answer of the two cash checks (the firm's and  *)
(* the venue's) is free.  There is one instrument and one quote size.      *)
(***************************************************************************)
EXTENDS Integers, Sequences, FiniteSets, SequencesExt, FiniteSetsExt, Functions

CONSTANTS MaxOrders,         \* bound: client order ids handed out
          QuoteSize,         \* quantity of every order
          SeedPosition,      \* deposit_position() on both sides before the session
          MaxFaults,         \* bound: messages dropped, and the loss of the connection
          None

ASSUME OmsAssumption ==
    /\ MaxOrders \in Nat \ {0}
    /\ QuoteSize \in Nat \ {0}
    /\ SeedPosition \in Nat
    /\ MaxFaults \in Nat

VARIABLES
    orders,                 \* orders_: client order id -> ClientOrder
    next_client_order_id,
    call,                   \* what the calling thread still has to send, or None
    send_failed,            \* sender_ returned false and the clean-up is not done
    fill,                   \* the Fill the reader thread has still to settle, or None
    holdings,               \* PositionTracker: settled position
    link,                   \* the TCP connection is up
    connected,              \* connected_: the reader thread is in its loop
    to_exchange, to_client, \* bytes in flight, as whole frames
    lost_commands, lost_reports,  \* history: what the gateway dropped
    resting,                \* the venue's book: this account's orders in it
    venue_position          \* the venue's ledger: total position of the account

callerVars == <<call, send_failed>>
omsVars    == <<orders, next_client_order_id>>
readerVars == <<fill, holdings, connected>>
venueVars  == <<resting, venue_position>>
lostVars   == <<lost_commands, lost_reports>>
wireVars   == <<link, to_exchange, to_client, lostVars>>
omVars     == <<omsVars, callerVars, readerVars, wireVars, venueVars>>

Ids == 1 .. MaxOrders
Sides == {"Buy", "Sell"}
Opposite(side) == IF side = "Buy" THEN "Sell" ELSE "Buy"

\* The mark for nullopt is neither an id nor a fill.
FillType == [side : Sides, quantity : Int]
ASSUME MarkAssumption == None \notin Nat /\ None \notin FillType

is_live(o) == o.state \in {"Live", "PartiallyFilled"}
is_terminal(o) == o.state \in {"Filled", "Rejected", "Cancelled", "Replaced"}

\* A ClientOrder as submit_new_order() and replace_order() create it.
ClientOrder(side, price) ==
    [side |-> side, price |-> price, remaining |-> QuoteSize,
     state |-> "PendingNew", pending |-> "None"]

Known(id) == id \in DOMAIN orders
With(f, id, value) == [i \in DOMAIN f \union {id} |-> IF i = id THEN value ELSE f[i]]
Without(f, id) == Restrict(f, DOMAIN f \ {id})

OmInit ==
    /\ orders = << >> /\ next_client_order_id = 1
    /\ call = None /\ send_failed = FALSE
    /\ fill = None /\ holdings = SeedPosition
    /\ link = TRUE /\ connected = TRUE
    /\ to_exchange = << >> /\ to_client = << >>
    /\ lost_commands = {} /\ lost_reports = {}
    /\ resting = << >> /\ venue_position = SeedPosition

-----------------------------------------------------------------------------
(***************************************************************************)
(* The caller's side.  Each of the three operations registers under the    *)
(* lock and leaves its message in call; Send and CleanUp finish it.        *)
(***************************************************************************)
\* TraderRiskEngine::check(): quantity is within limits, a buy asks for cash (free
\* here) and a sell for settled position.
check(side) == IF side = "Buy" THEN {TRUE, FALSE} ELSE {holdings >= QuoteSize}

\* A local rejection sends nothing and tracks nothing.
submit_rejected(side) ==
    /\ FALSE \in check(side)
    /\ UNCHANGED <<omsVars, callerVars>>

submit_new_order(side, price) ==
    /\ TRUE \in check(side)
    /\ next_client_order_id \in Ids
    /\ next_client_order_id' = next_client_order_id + 1
    /\ orders' = With(orders, next_client_order_id, ClientOrder(side, price))
    /\ call' = [type |-> "NewOrder", id |-> next_client_order_id,
                side |-> side, price |-> price]
    /\ UNCHANGED send_failed

Changeable(id) == Known(id) /\ is_live(orders[id]) /\ orders[id].pending = "None"

cancel_order(id) ==
    /\ Changeable(id)
    /\ orders' = [orders EXCEPT ![id].pending = "Cancel"]
    /\ call' = [type |-> "CancelOrder", id |-> id]
    /\ UNCHANGED <<next_client_order_id, send_failed>>

replace_order(id, price) ==
    /\ Changeable(id)
    /\ next_client_order_id \in Ids
    /\ next_client_order_id' = next_client_order_id + 1
    /\ orders' = With([orders EXCEPT ![id].pending = "Replace"], next_client_order_id,
                      ClientOrder(orders[id].side, price))
    /\ call' = [type |-> "ReplaceOrder", id |-> id, new_id |-> next_client_order_id,
                price |-> price]
    /\ UNCHANGED send_failed

\* OrderEntryClient::send(): on a broken connection the write fails, or the bytes
\* are accepted by the kernel and lost.
Send ==
    /\ call # None /\ ~send_failed
    /\ \/ /\ link
          /\ to_exchange' = Append(to_exchange, call)
          /\ call' = None /\ UNCHANGED send_failed
       \/ ~link /\ call' = None /\ UNCHANGED <<to_exchange, send_failed>>
       \/ ~link /\ send_failed' = TRUE /\ UNCHANGED <<to_exchange, call>>
    /\ UNCHANGED <<omsVars, readerVars, venueVars, link, to_client, lostVars>>

\* mark_send_failed(), clear_pending_action() and the clean-up of replace_order().
FailedSend ==
    CASE call.type = "NewOrder" ->
           [orders EXCEPT ![call.id].state = "Rejected", ![call.id].pending = "None"]
      [] call.type = "CancelOrder" -> [orders EXCEPT ![call.id].pending = "None"]
      [] call.type = "ReplaceOrder" ->
           [Without(orders, call.new_id) EXCEPT ![call.id].pending = "None"]

CleanUp ==
    /\ send_failed
    /\ orders' = FailedSend
    /\ call' = None /\ send_failed' = FALSE
    /\ UNCHANGED <<next_client_order_id, readerVars, venueVars, wireVars>>

Caller == Send \/ CleanUp

-----------------------------------------------------------------------------
(***************************************************************************)
(* The reader thread: handle_message(), one locked step per message, then  *)
(* the fill sink (PositionTracker::apply) under the tracker's own lock.    *)
(***************************************************************************)
on_accepted(m) == [orders EXCEPT ![m.id].state = "Live", ![m.id].remaining = QuoteSize]

\* Mutant of on_rejected: every rejection is taken to be of the order itself.
on_rejected_always(m) ==
    [orders EXCEPT ![m.id].state = "Rejected", ![m.id].pending = "None"]

\* Mutant of on_rejected: the failed cancel or replace is not written off.
on_rejected_keeping_action(m) ==
    [orders EXCEPT ![m.id].state = IF @ = "PendingNew" THEN "Rejected" ELSE @]

\* Only an order still PendingNew can be what was rejected; otherwise a cancel or
\* replace of it was.
on_rejected(m) ==
    [orders EXCEPT ![m.id].state = IF @ = "PendingNew" THEN "Rejected" ELSE @,
                   ![m.id].pending = "None"]

on_cancelled(m) == [orders EXCEPT ![m.id].state = "Cancelled", ![m.id].pending = "None"]

\* Mutant of on_replaced: the order replaced stays live.
on_replaced_keeping_original(m) ==
    [i \in DOMAIN orders |->
        IF i = m.id THEN [orders[i] EXCEPT !.pending = "None"]
        ELSE IF i = m.new_id
          THEN [orders[i] EXCEPT !.state = "Live", !.remaining = QuoteSize]
        ELSE orders[i]]

on_replaced(m) ==
    [i \in DOMAIN orders |->
        IF i = m.id THEN [orders[i] EXCEPT !.state = "Replaced", !.pending = "None"]
        ELSE IF i = m.new_id
          THEN [orders[i] EXCEPT !.state = "Live", !.price = m.price, !.remaining = QuoteSize]
        ELSE orders[i]]

on_trade_report(m) ==
    [orders EXCEPT ![m.id].remaining = m.remaining,
                   ![m.id].state = IF m.remaining = 0 THEN "Filled" ELSE "PartiallyFilled"]

Handled(m) ==
    CASE m.type = "Replaced" -> on_replaced(m)
      [] ~Known(m.id) -> orders
      [] m.type = "Accepted" -> on_accepted(m)
      [] m.type = "Rejected" -> on_rejected(m)
      [] m.type = "Cancelled" -> on_cancelled(m)
      [] m.type = "TradeReport" -> on_trade_report(m)

\* What a trade report hands to the fill sink: the order's side, the trade's quantity.
Fill(m) == [side |-> orders[m.id].side, quantity |-> m.quantity]

handle_message ==
    /\ connected /\ fill = None
    /\ to_client # << >>
    /\ LET m == Head(to_client)
       IN  /\ orders' = Handled(m)
           /\ fill' = IF m.type = "TradeReport" /\ Known(m.id) THEN Fill(m) ELSE None
    /\ to_client' = Tail(to_client)
    /\ UNCHANGED <<next_client_order_id, callerVars, holdings, connected, venueVars,
                   link, to_exchange, lostVars>>

\* PositionTracker::apply(), the holdings it leaves.
apply == IF fill.side = "Buy" THEN holdings + fill.quantity ELSE holdings - fill.quantity

Settle ==
    /\ fill # None
    /\ holdings' = apply
    /\ fill' = None
    /\ UNCHANGED <<omsVars, callerVars, connected, venueVars, wireVars>>

\* read() returned end of file or an error, what was not read is lost: the reader
\* loop ends.
ReaderExit ==
    /\ connected /\ ~link /\ fill = None
    /\ connected' = FALSE
    /\ to_client' = << >>
    /\ UNCHANGED <<omsVars, callerVars, fill, holdings, venueVars, link, to_exchange,
                   lostVars>>

Reader == handle_message \/ Settle \/ ReaderExit

-----------------------------------------------------------------------------
(***************************************************************************)
(* The venue, as this session sees it: the gateway hands each command to   *)
(* the risk-gated engine and the reports come back in order, unless it     *)
(* drops one of either.  Orders of other accounts appear as trades against *)
(* what rests here.                                                        *)
(***************************************************************************)
Report(reports) == to_client' = IF link THEN to_client \o reports ELSE to_client

\* Position held against resting sells.
Held == MapThenSumSet(LAMBDA id : resting[id].remaining,
                      {id \in DOMAIN resting : resting[id].side = "Sell"})

Crossed(book, side, price) ==
    {id \in DOMAIN book : /\ book[id].side = Opposite(side)
                          /\ IF side = "Buy" THEN price >= book[id].price
                                             ELSE price <= book[id].price}

Trade(id, quantity, remaining) ==
    [type |-> "TradeReport", id |-> id, quantity |-> quantity, remaining |-> remaining]

\* match_and_rest() for an incoming order of this account: others fill k of it, then
\* it trades with an own order it crosses (the buyer's report first), then what is
\* left rests.
Match(book, id, side, price, first, k) ==
    LET left == QuoteSize - k
        own  == Crossed(book, side, price)
        contra == IF own = {} THEN None ELSE CHOOSE i \in own : TRUE
        q  == IF own = {} THEN 0 ELSE Min({left, book[contra].remaining})
        net == (IF side = "Buy" THEN k ELSE -k)
        traded == IF q = 0 THEN book
                  ELSE IF q = book[contra].remaining THEN Without(book, contra)
                  ELSE [book EXCEPT ![contra].remaining = @ - q]
        pair == <<Trade(id, q, left - q), Trade(contra, q, book[contra].remaining - q)>>
    IN  /\ Report(<<first>> \o (IF k = 0 THEN << >> ELSE <<Trade(id, k, left)>>)
                  \o (IF q = 0 THEN << >> ELSE IF side = "Buy" THEN pair ELSE Reverse(pair)))
        /\ resting' = IF left = q THEN traded
                      ELSE With(traded, id, [side |-> side, price |-> price,
                                             remaining |-> left - q])
        /\ venue_position' = venue_position + net

Rejected(id) ==
    /\ Report(<<[type |-> "Rejected", id |-> id]>>)
    /\ UNCHANGED venueVars

Take(m) ==
    /\ to_exchange # << >> /\ m = Head(to_exchange)
    /\ to_exchange' = Tail(to_exchange)
    /\ UNCHANGED <<omsVars, callerVars, readerVars, link, lostVars>>

\* RiskEngine::check() of a new order: a sell needs free position.
VenueNewOrder ==
    \E m \in Range(to_exchange) :
        /\ Take(m) /\ m.type = "NewOrder"
        /\ \/ (m.side = "Sell" => venue_position - Held < QuoteSize) /\ Rejected(m.id)
           \/ /\ m.side = "Sell" => venue_position - Held >= QuoteSize
              /\ \E k \in IF Crossed(resting, m.side, m.price) = {} THEN {0} ELSE 0 .. QuoteSize :
                    Match(resting, m.id, m.side, m.price,
                          [type |-> "Accepted", id |-> m.id], k)

VenueCancelOrder ==
    \E m \in Range(to_exchange) :
        /\ Take(m) /\ m.type = "CancelOrder"
        /\ IF m.id \in DOMAIN resting
             THEN /\ resting' = Without(resting, m.id)
                  /\ Report(<<[type |-> "Cancelled", id |-> m.id]>>)
                  /\ UNCHANGED venue_position
             ELSE Rejected(m.id)

\* A replacement needs the position it adds; a refused one is reported under the
\* original id.
VenueReplaceOrder ==
    \E m \in Range(to_exchange) :
        /\ Take(m) /\ m.type = "ReplaceOrder"
        /\ IF m.id \notin DOMAIN resting THEN Rejected(m.id)
           ELSE LET o == resting[m.id]
                    extra == QuoteSize - o.remaining
                IN  \/ (o.side = "Sell" => venue_position - Held < extra) /\ Rejected(m.id)
                    \/ /\ o.side = "Sell" => venue_position - Held >= extra
                       /\ LET book == Without(resting, m.id)
                          IN \E k \in IF Crossed(book, o.side, m.price) = {} THEN {0} ELSE 0 .. QuoteSize :
                               Match(book, m.new_id, o.side, m.price,
                                     [type |-> "Replaced", id |-> m.id, new_id |-> m.new_id,
                                      price |-> m.price], k)

\* Another account's order trades with one of ours.  What the venue does after the
\* connection broke is followed only for the commands still in flight.
VenueTrade ==
    link /\ \E id \in DOMAIN resting : \E q \in 1 .. resting[id].remaining :
        LET o == resting[id]
        IN  /\ resting' = IF q = o.remaining THEN Without(resting, id)
                          ELSE [resting EXCEPT ![id].remaining = @ - q]
            /\ venue_position' = IF o.side = "Buy" THEN venue_position + q ELSE venue_position - q
            /\ Report(<<Trade(id, q, o.remaining - q)>>)
            /\ UNCHANGED <<omsVars, callerVars, readerVars, link, to_exchange, lostVars>>

MayFail ==
    Cardinality(lost_commands) + Cardinality(lost_reports) + (IF link THEN 0 ELSE 1) < MaxFaults

\* The gateway ignores that the matching queue, which other sessions fill as well, has
\* refused the command: nobody hears of it.
CommandRefused ==
    /\ to_exchange # << >> /\ MayFail
    /\ to_exchange' = Tail(to_exchange)
    /\ lost_commands' = lost_commands \union {Head(to_exchange)}
    /\ UNCHANGED <<omsVars, callerVars, readerVars, venueVars, link, to_client, lost_reports>>

VenueCommand == VenueNewOrder \/ VenueCancelOrder \/ VenueReplaceOrder \/ CommandRefused

\* deliver() drops a report that meets a full outbound queue.  Here it goes when it is
\* next to be read; any reports may be the ones that are missing.
ReportDropped ==
    /\ to_client # << >> /\ MayFail
    /\ to_client' = Tail(to_client)
    /\ lost_reports' = lost_reports \union {Head(to_client)}
    /\ UNCHANGED <<omsVars, callerVars, readerVars, venueVars, link, to_exchange, lost_commands>>

\* The connection breaks.  How much of what is in flight still arrives is how far
\* the venue and the reader get afterwards.
LinkLost ==
    /\ link /\ MayFail
    /\ link' = FALSE
    /\ UNCHANGED <<omsVars, callerVars, readerVars, venueVars, to_exchange, to_client,
                   lostVars>>

Environment == VenueCommand \/ VenueTrade \/ ReportDropped \/ LinkLost
=============================================================================
