------------------------ MODULE MCOrderEntryGateway ------------------------
(***************************************************************************)
(* A small instance of OrderEntryGateway for TLC.                          *)
(***************************************************************************)
EXTENDS OrderEntryGateway

CONSTANTS A, B

Frame(type, payload) ==
    [type |-> type, payload_size |-> Cardinality(DOMAIN payload), payload |-> payload]

Order(account, side) ==
    [account |-> account, id |-> 1, side |-> side, order_type |-> "Limit", time_in_force |-> "GTC"]

\* Four requests; an order whose side is none, a report, and what is no message at all.
MCFrames ==
    {Frame("NewOrder", Order(A, "Buy")),
     Frame("NewOrder", Order(B, "Sell")),
     Frame("CancelOrder", [account |-> A, id |-> 1]),
     Frame("ReplaceOrder", [account |-> A, id |-> 1, new_id |-> 2]),
     Frame("NewOrder", Order(B, "neither")),
     Frame("Accepted", Order(A, "Buy")),
     Frame("nonsense", << >>)}
=============================================================================
