-------------------------- MODULE MCRiskGatedEngine --------------------------
(***************************************************************************)
(* Small instances of RiskGatedEngine for TLC.                             *)
(***************************************************************************)
EXTENDS RiskGatedEngine, TLC

\* Slots, accounts and client order ids are only compared for equality.
Symmetry == Permutations(Slots) \cup Permutations(Accounts)
                \cup Permutations(ClientIds)
\* The events of the last step are output only: no action reads them.
Memory == <<registered, books, orders, next_exchange_order_id, next_priority,
            incoming, ledgerVars>>
=============================================================================
