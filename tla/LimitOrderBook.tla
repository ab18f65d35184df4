--------------------------- MODULE LimitOrderBook ---------------------------
(***************************************************************************)
(* LimitOrderBook: the stand-alone book (OrderBook, PriceLevel), its       *)
(* command queue (SPSCQueue) and the two-thread engine around them         *)
(* (MatchingEngine).  One thread submits and cancels; the worker runs the  *)
(* loop of run(), one step per iteration of match() and per published      *)
(* price; stop() is called from anywhere.                                  *)
(*                                                                         *)
(* pop() loads tail relaxed, so on a weakly ordered machine (arm64) the    *)
(* load of the cell may be done before it: PopHead and PopTake.  Where     *)
(* loads are done in order (x86) the early load is not used, so what holds *)
(* here holds there.  One thread submits.  Timestamps are left out.        *)
(***************************************************************************)
EXTENDS Integers, SequencesExt

CONSTANTS Prices,      \* valid (positive) prices
          Quantities,  \* valid (positive) quantities
          Capacity,    \* of the queue
          MaxOrders,   \* bound: ids handed out by generateId()
          None

ASSUME LimitOrderBookAssumption ==
    /\ Prices \subseteq Nat \ {0}
    /\ \E max \in Prices : \A p \in Prices : p <= max
    /\ Quantities \subseteq Nat \ {0}
    /\ Capacity \in Nat \ {0}
    /\ MaxOrders \in Nat \ {0}
    /\ None \notin {"Buy", "Sell"} \X (Prices \cup {0})

Ids   == 0 .. MaxOrders - 1
Sides == {"Buy", "Sell"}

\* No valid order has the price 0, but a command may reach the worker with it.
Price == Prices \cup {0}

Command == [type : {"Add", "Cancel"}, id : Ids, side : Sides,
            price : Price, quantity : Quantities \cup {0}]

\* A cell that was never written: buffer{} is all zeros.
Blank == [type |-> "Add", id |-> 0, side |-> "Buy", price |-> 0, quantity |-> 0]

\* A cancel carries an order of which only the id is set.
CancelCommand(id) ==
    [type |-> "Cancel", id |-> id, side |-> "Buy", price |-> 0, quantity |-> 0]

VARIABLES levels,            \* asks and bids: side -> price -> orders, oldest first
          orderIndex,        \* id -> side and price, None where there is no entry
          queue,             \* the cells from head to tail: queued commands
          free,              \* the other cells, the next to be written first
          nextId,
          running,
          r_pc, r_command,   \* run()
          r_early,           \* what the cell at head held when pop() loaded head
          orderQuantity, filled,                 \* locals of match()
          publishedBestAsk, publishedBestBid,
          doubled            \* history: ids put to rest while they rested

bookVars  == <<levels, orderIndex, doubled>>
queueVars == <<queue, free>>
matchVars == <<orderQuantity, filled>>
publishedVars == <<publishedBestAsk, publishedBestBid>>
vars == <<bookVars, queueVars, nextId, running, r_pc, r_command, r_early, matchVars,
          publishedVars>>

Init ==
    /\ levels = [s \in Sides |-> [p \in Price |-> << >>]]
    /\ orderIndex = [i \in Ids |-> None] /\ doubled = {}
    /\ queue = << >> /\ free = [k \in 1 .. Capacity |-> Blank]
    /\ nextId = 0
    /\ running = FALSE
    /\ r_pc = "new" /\ r_command = None /\ r_early = None
    /\ orderQuantity = 0 /\ filled = 0
    /\ publishedBestAsk = 0 /\ publishedBestBid = 0

\* A side's prices, and the best of them; 0 stands for no price.
LevelsOf(s) == {p \in Price : levels[s][p] # << >>}
Best(s) == IF LevelsOf(s) = {} THEN 0
           ELSE CHOOSE p \in LevelsOf(s) :
                    \A q \in LevelsOf(s) : IF s = "Sell" THEN p <= q ELSE p >= q

-----------------------------------------------------------------------------
(***************************************************************************)
(* The producer: submit() and cancel().  They ignore the result of push(). *)
(***************************************************************************)
push(c) == IF Len(queue) = Capacity THEN UNCHANGED queueVars
           ELSE queue' = Append(queue, c) /\ free' = Tail(free)

isValid(price, quantity) == price > 0 /\ quantity > 0

submit(price, quantity, side) ==
    /\ nextId < MaxOrders
    /\ nextId' = nextId + 1
    /\ IF isValid(price, quantity)
         THEN push([type |-> "Add", id |-> nextId, side |-> side, price |-> price,
                    quantity |-> quantity])
         ELSE UNCHANGED queueVars
    /\ UNCHANGED <<bookVars, running, r_pc, r_command, r_early, matchVars, publishedVars>>

cancel(id) ==
    /\ push(CancelCommand(id))
    /\ UNCHANGED <<nextId, bookVars, running, r_pc, r_command, r_early, matchVars,
                   publishedVars>>

-----------------------------------------------------------------------------
(***************************************************************************)
(* run(): the loop, and pop().                                             *)
(***************************************************************************)
RunStart ==
    /\ r_pc = "new"
    /\ running' = TRUE
    /\ r_pc' = "check"
    /\ UNCHANGED <<bookVars, queueVars, nextId, r_command, r_early, matchVars, publishedVars>>

RunCheck ==
    /\ r_pc = "check"
    /\ r_pc' = IF running THEN "pop" ELSE "off"
    /\ UNCHANGED <<bookVars, queueVars, nextId, running, r_command, r_early, matchVars,
                   publishedVars>>

\* pop() has loaded head, an acquire: from here on the cell may be loaded, although
\* tail, which says whether it is written, is not loaded yet.
PopHead ==
    /\ r_pc = "pop"
    /\ r_pc' = "tail"
    /\ r_early' = Head(queue \o free)
    /\ UNCHANGED <<bookVars, queueVars, nextId, running, r_command, matchVars, publishedVars>>

\* The copy of a cell whose words (type; price; quantity and id; side) were each loaded
\* before or after it was written.
Copies(early, late) ==
    {[type |-> a.type, price |-> b.price, id |-> c.id, quantity |-> c.quantity, side |-> d.side] :
        a, b, c, d \in {early, late}}

\* tail says that the cell is written.
PopTake ==
    /\ r_pc = "tail"
    /\ \/ queue = << >> /\ r_pc' = "check" /\ UNCHANGED r_command
       \/ queue # << >> /\ r_pc' = "advance" /\ r_command' \in Copies(r_early, Head(queue))
    /\ r_early' = None
    /\ UNCHANGED <<bookVars, queueVars, nextId, running, matchVars, publishedVars>>

\* The head moves on; the cell is free and keeps what it holds.
PopAdvance ==
    /\ r_pc = "advance"
    /\ queue' = Tail(queue) /\ free' = Append(free, Head(queue))
    /\ r_pc' = IF r_command.type = "Add" THEN "match" ELSE "cancel"
    /\ orderQuantity' = r_command.quantity
    /\ filled' = 0
    /\ UNCHANGED <<bookVars, nextId, running, r_command, r_early, publishedVars>>

-----------------------------------------------------------------------------
(***************************************************************************)
(* OrderBook::add() and match(), one iteration of its loop at a time.      *)
(***************************************************************************)
Contra == IF r_command.side = "Buy" THEN "Sell" ELSE "Buy"

\* Mutant of Crossing: equal prices do not trade.
CrossingStrictly ==
    /\ LevelsOf(Contra) # {}
    /\ IF Contra = "Sell" THEN Best(Contra) < r_command.price
                          ELSE Best(Contra) > r_command.price

Crossing ==
    /\ LevelsOf(Contra) # {}
    /\ IF Contra = "Sell" THEN Best(Contra) <= r_command.price
                          ELSE Best(Contra) >= r_command.price

\* The resting order is larger: it is reduced and the loop ends.
MatchReduce ==
    /\ r_pc = "match"
    /\ Crossing
    /\ LET front == Head(levels[Contra][Best(Contra)])
       IN  /\ orderQuantity < front.quantity
           /\ levels' = [levels EXCEPT ![Contra][Best(Contra)] =
                            <<[front EXCEPT !.quantity = @ - orderQuantity]>> \o Tail(@)]
    /\ filled' = filled + orderQuantity
    /\ r_pc' = "rest"
    /\ UNCHANGED <<orderIndex, doubled, queueVars, nextId, running, r_command, r_early,
                   orderQuantity, publishedVars>>

\* Mutant of MatchPop: the filled order keeps its entry in the index.
MatchPopNoErase ==
    /\ r_pc = "match"
    /\ Crossing
    /\ LET front == Head(levels[Contra][Best(Contra)])
       IN  /\ orderQuantity >= front.quantity
           /\ levels' = [levels EXCEPT ![Contra][Best(Contra)] = Tail(@)]
           /\ filled' = filled + front.quantity
           /\ orderQuantity' = orderQuantity - front.quantity
           /\ r_pc' = IF orderQuantity = front.quantity THEN "rest" ELSE "match"
    /\ UNCHANGED <<orderIndex, doubled, queueVars, nextId, running, r_command, r_early,
                   publishedVars>>

\* The resting order is filled and removed; the loop goes on if more is wanted.
MatchPop ==
    /\ r_pc = "match"
    /\ Crossing
    /\ LET front == Head(levels[Contra][Best(Contra)])
       IN  /\ orderQuantity >= front.quantity
           /\ levels' = [levels EXCEPT ![Contra][Best(Contra)] = Tail(@)]
           /\ orderIndex' = [orderIndex EXCEPT ![front.id] = None]
           /\ filled' = filled + front.quantity
           /\ orderQuantity' = orderQuantity - front.quantity
           /\ r_pc' = IF orderQuantity = front.quantity THEN "rest" ELSE "match"
    /\ UNCHANGED <<doubled, queueVars, nextId, running, r_command, r_early, publishedVars>>

MatchEnd ==
    /\ r_pc = "match"
    /\ ~Crossing
    /\ r_pc' = "rest"
    /\ UNCHANGED <<bookVars, queueVars, nextId, running, r_command, r_early, matchVars,
                   publishedVars>>

match == MatchReduce \/ MatchPop \/ MatchEnd

\* What add() rests is the order as it arrived.
Arrived == [id |-> r_command.id, quantity |-> r_command.quantity]

\* An order of this id rests somewhere.
Rests(id) == \E s \in Sides, p \in Price : \E o \in Range(levels[s][p]) : o.id = id

Rest ==
    /\ r_pc = "rest"
    /\ r_pc' = "publish_ask"
    /\ IF r_command.quantity - filled > 0
         THEN /\ levels' = [levels EXCEPT ![r_command.side][r_command.price] =
                               Append(@, Arrived)]
              /\ orderIndex' = [orderIndex EXCEPT
                                  ![r_command.id] = <<r_command.side, r_command.price>>]
              /\ doubled' = IF Rests(r_command.id) THEN doubled \cup {r_command.id} ELSE doubled
         ELSE UNCHANGED bookVars
    /\ UNCHANGED <<queueVars, nextId, running, r_command, r_early, matchVars,
                   publishedVars>>

-----------------------------------------------------------------------------
(***************************************************************************)
(* OrderBook::cancel(); an id that is not in the index is ignored.         *)
(***************************************************************************)
\* PriceLevel::cancel(): orderMap knows the place of the order of this id that was added
\* last.  It loses an entry when such an order is popped or cancelled, which the caller
\* takes from orderIndex as well, so that an id found there is in orderMap.
Without(orders, id) ==
    LET places == {k \in 1 .. Len(orders) : orders[k].id = id}
    IN  IF places = {} THEN orders
        ELSE RemoveAt(orders, CHOOSE k \in places : \A j \in places : j <= k)

CancelOrder ==
    /\ r_pc = "cancel"
    /\ r_pc' = "publish_ask"
    /\ LET entry == orderIndex[r_command.id]
       IN  IF entry = None THEN UNCHANGED <<levels, orderIndex>>
           ELSE /\ levels' = [levels EXCEPT ![entry[1]][entry[2]] = Without(@, r_command.id)]
                /\ orderIndex' = [orderIndex EXCEPT ![r_command.id] = None]
    /\ UNCHANGED <<doubled, queueVars, nextId, running, r_command, r_early, matchVars,
                   publishedVars>>

-----------------------------------------------------------------------------
(***************************************************************************)
(* The best prices are published one after the other.                      *)
(***************************************************************************)
PublishAsk ==
    /\ r_pc = "publish_ask"
    /\ publishedBestAsk' = Best("Sell")
    /\ r_pc' = "publish_bid"
    /\ UNCHANGED <<bookVars, queueVars, nextId, running, r_command, r_early, matchVars,
                   publishedBestBid>>

\* Mutant of PublishBid: an empty side is not published.
PublishBidIfAny ==
    /\ r_pc = "publish_bid"
    /\ publishedBestBid' = IF Best("Buy") = 0 THEN publishedBestBid ELSE Best("Buy")
    /\ r_pc' = "check"
    /\ r_command' = None /\ orderQuantity' = 0 /\ filled' = 0
    /\ UNCHANGED <<bookVars, queueVars, nextId, running, r_early, publishedBestAsk>>

PublishBid ==
    /\ r_pc = "publish_bid"
    /\ publishedBestBid' = Best("Buy")
    /\ r_pc' = "check"
    /\ r_command' = None /\ orderQuantity' = 0 /\ filled' = 0
    /\ UNCHANGED <<bookVars, queueVars, nextId, running, r_early, publishedBestAsk>>

\* What any other thread reads.
getBestAsk == IF publishedBestAsk = 0 THEN None ELSE publishedBestAsk
getBestBid == IF publishedBestBid = 0 THEN None ELSE publishedBestBid

\* stop(), from any thread.  Before run() has started it has no lasting effect.
stop ==
    /\ running
    /\ running' = FALSE
    /\ UNCHANGED <<bookVars, queueVars, nextId, r_pc, r_command, r_early, matchVars,
                   publishedVars>>

-----------------------------------------------------------------------------
run ==
    \/ RunStart \/ RunCheck \/ PopHead \/ PopTake \/ PopAdvance
    \/ match \/ Rest \/ CancelOrder
    \/ PublishAsk \/ PublishBid

Next ==
    \/ \E p \in Prices \cup {0}, q \in Quantities \cup {0}, s \in Sides : submit(p, q, s)
    \/ \E i \in Ids : cancel(i)
    \/ run
    \/ stop

Spec == Init /\ [][Next]_vars
-----------------------------------------------------------------------------
(***************************************************************************)
(* Properties                                                              *)
(***************************************************************************)
RestsAt(i, s, p) == \E o \in Range(levels[s][p]) : o.id = i

\* cancel() finds an order through orderIndex and then dereferences the level without
\* looking: whatever commands pop() brings, an entry names a place where an order of that
\* id rests.  And every order that rests can be found, unless it came to rest twice.
IndexMatchesBook ==
    \A i \in Ids, s \in Sides, p \in Price :
        /\ orderIndex[i] = <<s, p>> => RestsAt(i, s, p)
        /\ RestsAt(i, s, p) => orderIndex[i] = <<s, p>> \/ i \in doubled

\* A bid never rests at or above an ask: match() walks every crossing level.
NoCrossedBook ==
    LevelsOf("Buy") # {} /\ LevelsOf("Sell") # {} => Best("Buy") < Best("Sell")

\* After each command what readers see is the best of the book, also when a side
\* has become empty.  Nothing is seen of a best price of 0.
PublishedIsBest ==
    r_pc \in {"check", "pop", "tail", "off"} =>
        /\ getBestAsk = IF Best("Sell") = 0 THEN None ELSE Best("Sell")
        /\ getBestBid = IF Best("Buy") = 0 THEN None ELSE Best("Buy")
=============================================================================
