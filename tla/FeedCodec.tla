----------------------------- MODULE FeedCodec -----------------------------
(***************************************************************************)
(* The frames of the market-data feed (mdh/protocol): what encode_event()  *)
(* lays out and what decode_event() accepts.  A frame is a header and the  *)
(* fields of one event; a field is one unit of payload_size, and `cut`     *)
(* says where the bytes end when they end too soon.  Timestamps, the       *)
(* instrument and the price and quantity of a trade are left out.          *)
(***************************************************************************)
EXTENDS Naturals, TLC

MessageTypes == {"AddOrder", "CancelOrder", "ModifyOrder", "Trade", "ClearBook"}

\* The number of fields of an event.
payload_size_for(type) ==
    [AddOrder |-> 4, CancelOrder |-> 1, ModifyOrder |-> 3, Trade |-> 1, ClearBook |-> 0][type]
is_known_type(type)    == type \in MessageTypes
is_valid_side(raw)     == raw \in {"Buy", "Sell"}

put_header(type, seq, size) ==
    [type |-> type, reserved |-> 0, payload_size |-> size, sequence_number |-> seq]

encode_event(seq, event) ==
    put_header(event.type, seq, payload_size_for(event.type))
        @@ [payload |-> event, cut |-> "nowhere"]

\* "" is a header; anything else the DecodeError.
decode_header(frame) ==
    IF frame.cut = "header" THEN "TruncatedHeader"
    ELSE IF frame.reserved # 0 THEN "InvalidReserved"
    ELSE IF ~is_known_type(frame.type) THEN "InvalidMessageType"
    ELSE ""

\* The event, or that there is none.
DecodeError == [decodes |-> FALSE]

decode_event(frame) ==
    IF \/ decode_header(frame) # ""
       \/ frame.payload_size # payload_size_for(frame.type)
       \/ frame.cut = "payload"
       \/ "side" \in DOMAIN frame.payload /\ ~is_valid_side(frame.payload.side)
    THEN DecodeError
    ELSE [decodes |-> TRUE, seq |-> frame.sequence_number, event |-> frame.payload]

\* Bytes that changed on the way: a header that says nonsense, or a side that is none.
\* (No check can tell any other field that has changed from what was sent.)
Damaged(frame, damage) ==
    CASE damage = "none"   -> frame
      [] damage = "header" -> [frame EXCEPT !.reserved = 1]
      [] damage = "side"   -> [frame EXCEPT !.payload.side = "neither"]
=============================================================================
