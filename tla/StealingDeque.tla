--------------------------- MODULE StealingDeque ---------------------------
(***************************************************************************)
(* What a queue of the Chase-Lev pool promises: tasks go in at one end,    *)
(* each once; the owner takes them from that end and everybody else from   *)
(* the other, and each is taken once.  `taken` counts how often.           *)
(***************************************************************************)
EXTENDS Integers, Sequences

CONSTANTS Tasks, Capacity

VARIABLES items, taken

Init == items = << >> /\ taken = [x \in Tasks |-> 0]

Take(x) == taken' = [taken EXCEPT ![x] = @ + 1]

Push(x) == /\ Len(items) < Capacity
           /\ taken[x] = 0 /\ \A k \in 1 .. Len(items) : items[k] # x
           /\ items' = Append(items, x)
           /\ UNCHANGED taken

Pop == /\ items # << >>
       /\ Take(items[Len(items)])
       /\ items' = SubSeq(items, 1, Len(items) - 1)

Steal == /\ items # << >>
         /\ Take(Head(items))
         /\ items' = Tail(items)

Next == Pop \/ Steal \/ \E x \in Tasks : Push(x)

Spec == Init /\ [][Next]_<<items, taken>>
=============================================================================
