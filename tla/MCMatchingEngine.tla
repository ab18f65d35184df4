-------------------------- MODULE MCMatchingEngine --------------------------
(***************************************************************************)
(* Small instances of MatchingEngine for TLC.                              *)
(***************************************************************************)
EXTENDS MatchingEngine, TLC

\* Slots, accounts and client order ids are only compared for equality.
Symmetry == Permutations(Slots) \cup Permutations(Accounts)
                \cup Permutations(ClientIds)

\* What the engine remembers: the events of the last step are output only, no
\* action reads them, so states that differ in them alone are the same.
Memory == <<registered, books, orders, next_exchange_order_id, next_priority, incoming>>
=============================================================================
