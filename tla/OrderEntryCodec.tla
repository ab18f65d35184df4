-------------------------- MODULE OrderEntryCodec --------------------------
(***************************************************************************)
(* The messages of the order-entry protocol (mdh/protocol/order_entry) as  *)
(* a receiver sees them.  read_buffer keeps the pieces TCP delivers until  *)
(* a frame is whole, so a frame is looked at when it is, and the two       *)
(* Truncated errors, which mean waiting for more, are not told apart from  *)
(* it.  A field is one unit of payload_size; prices, quantities, the       *)
(* instrument and the exchange's order id are left out: nothing is checked *)
(* of them here.                                                           *)
(***************************************************************************)
EXTENDS Naturals, FiniteSets

ClientTypes  == {"NewOrder", "CancelOrder", "ReplaceOrder"}
GatewayTypes == {"Accepted", "Rejected", "Cancelled", "Replaced", "TradeReport"}
is_known_type(type) == type \in ClientTypes \union GatewayTypes

\* The fields of a message.
Fields(type) ==
    {"account", "id"} \union
    (CASE type \in {"NewOrder", "Accepted"}    -> {"side", "order_type", "time_in_force"}
       [] type \in {"ReplaceOrder", "Replaced"} -> {"new_id"}
       [] type = "Rejected"                     -> {"reason"}
       [] OTHER                                 -> {})
payload_size_for(type) == Cardinality(Fields(type))

is_valid_side(raw)          == raw \in {"Buy", "Sell"}
is_valid_order_type(raw)    == raw = "Limit"
is_valid_time_in_force(raw) == raw \in {"GTC", "IOC", "FOK"}
is_valid_reject_reason(raw) ==
    raw \in {"None", "InvalidPrice", "InvalidQuantity", "DuplicateOrderId", "UnknownOrderId",
             "InvalidInstrument", "InsufficientLiquidity", "InvalidReplacement", "InternalError",
             "InsufficientFunds", "InsufficientPosition", "OrderTooLarge", "AccountMismatch"}

\* "" is a header; anything else the DecodeError.
decode_header(frame) == IF is_known_type(frame.type) THEN "" ELSE "InvalidMessageType"

\* The message, or the DecodeError: a record with an error is none.
decode_message(frame) ==
    LET Error(e) == [type |-> "DecodeError", error |-> e]
        m        == frame.payload
        Bad(field, valid(_)) == field \in Fields(frame.type) /\ ~valid(m[field])
    IN  IF decode_header(frame) # "" THEN Error(decode_header(frame))
        ELSE IF frame.payload_size # payload_size_for(frame.type) THEN Error("InvalidMessageSize")
        ELSE IF Bad("side", is_valid_side) THEN Error("InvalidSide")
        ELSE IF Bad("order_type", is_valid_order_type) THEN Error("InvalidOrderType")
        ELSE IF Bad("time_in_force", is_valid_time_in_force) THEN Error("InvalidTimeInForce")
        ELSE IF Bad("reason", is_valid_reject_reason) THEN Error("InvalidRejectReason")
        ELSE [type |-> frame.type, fields |-> m]
============================================================================
