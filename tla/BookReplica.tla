---------------------------- MODULE BookReplica ----------------------------
(***************************************************************************)
(* The trader's reconstruction of the exchange's books, as functions: the  *)
(* book of book/order_book.cpp, the sequence check, the snapshot file and  *)
(* replay::apply_frame_result(), which every reader of a feed goes through *)
(* (market_data_replay from a file or a socket, and the UI gateway).       *)
(*                                                                         *)
(* One instrument: the books of BookManager do not touch each other.       *)
(* order_index_ is what the levels say, so it is not a state of its own.   *)
(***************************************************************************)
EXTENDS Integers, Sequences, FiniteSets, SequencesExt

CONSTANTS Prices,     \* prices orders may have, all positive
          None

ASSUME PricesPositive == Prices \subseteq Nat \ {0}

Sides == {"Buy", "Sell"}

-----------------------------------------------------------------------------
(***************************************************************************)
(* OrderBook: by side and price a queue of [id, quantity], oldest first.   *)
(***************************************************************************)
EmptyBook == [s \in Sides |-> [p \in Prices |-> << >>]]

Level(book, s, p) == {book[s][p][i] : i \in DOMAIN book[s][p]}

\* The orders as a set: what two books that disagree on time priority share.
Orders(book) ==
    UNION {{[id |-> o.id, side |-> s, price |-> p, quantity |-> o.quantity] : o \in Level(book, s, p)}
             : s \in Sides, p \in Prices}

\* order_index_: where the order is, or None.
Location(book, id) ==
    LET at == {sp \in Sides \X Prices : \E o \in Level(book, sp[1], sp[2]) : o.id = id}
    IN  IF at = {} THEN None
        ELSE LET sp == CHOOSE x \in at : TRUE IN [id |-> id, side |-> sp[1], price |-> sp[2]]

insert_at(book, side, id, price, qty) ==
    [book EXCEPT ![side][price] = Append(@, [id |-> id, quantity |-> qty])]

erase_at(book, at) ==
    [book EXCEPT ![at.side][at.price] = SelectSeq(@, LAMBDA o : o.id # at.id)]

\* Each returns the book and whether there was an error, which leaves it alone.
Ok(book) == [book |-> book, error |-> FALSE]
Error(book) == [book |-> book, error |-> TRUE]

add_order(book, id, price, qty, side) ==
    IF price <= 0 \/ qty = 0 \/ Location(book, id) # None THEN Error(book)
    ELSE Ok(insert_at(book, side, id, price, qty))

cancel_order(book, id) ==
    LET at == Location(book, id)
    IN  IF at = None THEN Error(book) ELSE Ok(erase_at(book, at))

\* A modified order always goes to the back of its level.
modify_order(book, id, new_price, new_qty) ==
    LET at == Location(book, id)
    IN  IF new_price <= 0 \/ new_qty = 0 \/ at = None THEN Error(book)
        ELSE Ok(insert_at(erase_at(book, at), at.side, id, new_price, new_qty))

-----------------------------------------------------------------------------
(***************************************************************************)
(* SequenceValidator.                                                      *)
(***************************************************************************)
\* Mutant of check: a number that was already passed is taken as the next one.
check_forgiving(last_seen, seq) ==
    IF last_seen = None \/ seq <= last_seen + 1 THEN "InOrder" ELSE "Missing"

check(last_seen, seq) ==
    IF last_seen = None \/ seq = last_seen + 1 THEN "InOrder"
    ELSE IF seq = last_seen THEN "Duplicate"
    ELSE IF seq < last_seen THEN "OutOfOrder"
    ELSE "Missing"

-----------------------------------------------------------------------------
(***************************************************************************)
(* Snapshots: AddOrder frames in the order of all_bids() and all_asks(),   *)
(* best price first and oldest first.  A file that was cut short has fewer *)
(* entries than its header says.                                           *)
(***************************************************************************)
BestFirst(side) ==
    SetToSortSeq(Prices, LAMBDA p, q : IF side = "Buy" THEN p > q ELSE p < q)

\* Mutant of append_side: the newest order of a level comes first.
append_side_newest_first(book, side) ==
    FlattenSeq([k \in DOMAIN BestFirst(side) |->
        LET p == BestFirst(side)[k]
        IN  [i \in DOMAIN book[side][p] |->
                LET o == book[side][p][Len(book[side][p]) + 1 - i]
                IN  [order_id |-> o.id, price |-> p, quantity |-> o.quantity, side |-> side]]])

append_side(book, side) ==
    FlattenSeq([k \in DOMAIN BestFirst(side) |->
        LET p == BestFirst(side)[k]
        IN  [i \in DOMAIN book[side][p] |->
                [order_id |-> book[side][p][i].id, price |-> p,
                 quantity |-> book[side][p][i].quantity, side |-> side]]])

write_snapshot(sequence_number, book) ==
    LET entries == append_side(book, "Buy") \o append_side(book, "Sell")
    IN  [sequence_number |-> sequence_number, entry_count |-> Len(entries), entries |-> entries]

\* The book, or None for a file that is not there, is cut short or does not apply: what
\* add_order() makes of the entries in turn, each going to the back of its level.
read_snapshot(file) ==
    LET e == file.entries
        level(s, p) == SelectSeq(e, LAMBDA x : x.side = s /\ x.price = p)
        refused == \E i \in DOMAIN e : \/ e[i].price <= 0 \/ e[i].quantity = 0
                                       \/ \E j \in 1..(i - 1) : e[j].order_id = e[i].order_id
    IN  IF file = None THEN None
        ELSE IF Len(e) < file.entry_count \/ refused THEN None
        ELSE [s \in Sides |-> [p \in Prices |->
                [i \in DOMAIN level(s, p) |->
                    [id |-> level(s, p)[i].order_id, quantity |-> level(s, p)[i].quantity]]]]

-----------------------------------------------------------------------------
(***************************************************************************)
(* ReplayOutcome, and one frame applied to it.                             *)
(***************************************************************************)
NewOutcome ==
    [book |-> EmptyBook, last_seen |-> None, last_sequence_number |-> None,
     messages_processed |-> 0, sequence_failures |-> 0, decode_failures |-> 0, recoveries |-> 0,
     book_errors |-> 0, stopped_early |-> FALSE]

apply_event(o, e) ==
    LET r == CASE e.type = "AddOrder"    -> add_order(o.book, e.order_id, e.price, e.quantity, e.side)
               [] e.type = "CancelOrder" -> cancel_order(o.book, e.order_id)
               [] e.type = "ModifyOrder" -> modify_order(o.book, e.order_id, e.price, e.quantity)
               [] e.type = "ClearBook"   -> Ok(EmptyBook)
               [] e.type = "Trade"       -> Ok(o.book)
    IN  [o EXCEPT !.book = r.book,
                  !.book_errors = IF r.error THEN @ + 1 ELSE @]

\* The default options: any error stops, before the event is applied; only a gap, and
\* only with a snapshot configured, is recovered from.  seq is the event's number.
apply_frame_result(o, frame, recovers, snapshot) ==
    LET outcome == check(o.last_seen, frame.seq)
        seen == [o EXCEPT !.last_seen = IF outcome \in {"InOrder", "Missing"} THEN frame.seq ELSE @]
        failed == [seen EXCEPT !.sequence_failures = @ + 1]
        apply(p) == apply_event([p EXCEPT !.messages_processed = @ + 1,
                                          !.last_sequence_number = frame.seq], frame.event)
    IN  IF ~frame.decodes THEN [o EXCEPT !.decode_failures = @ + 1, !.stopped_early = TRUE]
        ELSE IF outcome = "InOrder" THEN apply(seen)
        ELSE IF outcome = "Missing" /\ recovers
          THEN LET loaded == read_snapshot(snapshot)
               IN  IF loaded = None THEN [failed EXCEPT !.stopped_early = TRUE]
                   ELSE apply([failed EXCEPT !.book = loaded, !.recoveries = @ + 1])
        ELSE [failed EXCEPT !.stopped_early = TRUE]
=============================================================================
