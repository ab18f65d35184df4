--------------------------- MODULE MCWorkerDeque ---------------------------
(***************************************************************************)
(* A small instance of WorkerDeque for TLC.                                *)
(***************************************************************************)
EXTENDS WorkerDeque, TLC

\* Thieves all run the same code and are only compared for equality.
Symmetry == Permutations(Thieves)
=============================================================================
