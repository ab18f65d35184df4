---------------------------- MODULE BoundedFifo ----------------------------
(***************************************************************************)
(* What SpscQueue (mdh/common) promises its two users: a first-in          *)
(* first-out channel that holds at most Capacity values and neither loses, *)
(* repeats nor reorders any.                                               *)
(***************************************************************************)
EXTENDS Naturals, Sequences

CONSTANTS Values, Capacity

VARIABLE items

Init == items = << >>

Push(v) == /\ Len(items) < Capacity
           /\ items' = Append(items, v)

Pop == /\ items # << >>
       /\ items' = Tail(items)

Next == Pop \/ \E v \in Values : Push(v)

Spec == Init /\ [][Next]_items
=============================================================================
