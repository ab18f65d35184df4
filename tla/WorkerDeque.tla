---------------------------- MODULE WorkerDeque ----------------------------
(***************************************************************************)
(* ChaseLevThreadPool/WorkerDeque: the bounded Chase-Lev deque.  The owner *)
(* calls push() and pop() at the bottom, any number of thieves call        *)
(* steal() at the top.  One step per access to shared memory.              *)
(*                                                                         *)
(* push() loads top_ relaxed and may see an old value, though never one    *)
(* older than the owner has seen.  pop() and steal() order their two       *)
(* accesses by seq_cst operations and a seq_cst fence, so for these an     *)
(* interleaving of steps is what the memory model allows.  A thief's stale *)
(* top_ would only make its compare-exchange fail.                         *)
(*                                                                         *)
(* Task n is the n-th one pushed.                                          *)
(***************************************************************************)
EXTENDS Integers, Sequences

CONSTANTS Thieves,
          Capacity,  \* a power of two
          MaxTasks   \* bound: successful calls of push()

ASSUME DequeAssumption ==
    /\ Capacity \in Nat \ {0}
    /\ MaxTasks \in Nat

Tasks == 1 .. MaxTasks

VARIABLES top, bottom,        \* top_ and bottom_
          buffer,             \* 0 in a cell that was never written
          pushed,             \* tasks pushed so far
          o_pc, o_t, o_seen,  \* the owner: where it is, t, the newest top_ it saw
          t_pc, t_t, t_task,  \* each thief: where it is, t, task
          returned            \* how often pop() and steal() returned each task

ownerVars == <<o_pc, o_t, o_seen>>
thiefVars == <<t_pc, t_t, t_task>>
vars == <<top, bottom, buffer, pushed, ownerVars, thiefVars, returned>>

getMask(i) == i % Capacity

Init ==
    /\ top = 0 /\ bottom = 0
    /\ buffer = [n \in 0 .. Capacity - 1 |-> 0]
    /\ pushed = 0
    /\ o_pc = "ready" /\ o_t = 0 /\ o_seen = 0
    /\ t_pc = [h \in Thieves |-> "ready"]
    /\ t_t = [h \in Thieves |-> 0]
    /\ t_task = [h \in Thieves |-> 0]
    /\ returned = [x \in Tasks |-> 0]

Return(x) == returned' = [returned EXCEPT ![x] = @ + 1]

-----------------------------------------------------------------------------
(***************************************************************************)
(* push()                                                                  *)
(***************************************************************************)
\* A full deque returns false at once.
PushLoad ==
    /\ o_pc = "ready"
    /\ pushed < MaxTasks
    /\ \E t \in o_seen .. top :
          /\ o_seen' = t
          /\ o_pc' = IF bottom - t >= Capacity THEN "ready" ELSE "store"
    /\ UNCHANGED <<top, bottom, buffer, pushed, o_t, thiefVars, returned>>

PushStore ==
    /\ o_pc = "store"
    /\ buffer' = [buffer EXCEPT ![getMask(bottom)] = pushed + 1]
    /\ o_pc' = "publish"
    /\ UNCHANGED <<top, bottom, pushed, o_t, o_seen, thiefVars, returned>>

PushPublish ==
    /\ o_pc = "publish"
    /\ bottom' = bottom + 1
    /\ pushed' = pushed + 1
    /\ o_pc' = "ready"
    /\ UNCHANGED <<top, buffer, o_t, o_seen, thiefVars, returned>>

push == PushLoad \/ PushStore \/ PushPublish

-----------------------------------------------------------------------------
(***************************************************************************)
(* pop()                                                                   *)
(***************************************************************************)
PopDecrement ==
    /\ o_pc = "ready"
    /\ bottom' = bottom - 1
    /\ o_pc' = "load_top"
    /\ UNCHANGED <<top, buffer, pushed, o_t, o_seen, thiefVars, returned>>

PopLoadTop ==
    /\ o_pc = "load_top"
    /\ o_t' = top
    /\ o_seen' = top
    /\ o_pc' = IF bottom < top THEN "empty" ELSE IF bottom > top THEN "take" ELSE "last"
    /\ UNCHANGED <<top, bottom, buffer, pushed, thiefVars, returned>>

PopEmpty ==
    /\ o_pc = "empty"
    /\ bottom' = o_t
    /\ o_pc' = "ready"
    /\ UNCHANGED <<top, buffer, pushed, o_t, o_seen, thiefVars, returned>>

PopTake ==
    /\ o_pc = "take"
    /\ Return(buffer[getMask(bottom)])
    /\ o_pc' = "ready"
    /\ UNCHANGED <<top, bottom, buffer, pushed, o_t, o_seen, thiefVars>>

\* The race for the last task: compare-exchange on top_.
PopLast ==
    /\ o_pc = "last"
    /\ IF top = o_t
         THEN top' = o_t + 1 /\ o_seen' = o_t + 1 /\ o_pc' = "won"
         ELSE o_seen' = top /\ o_pc' = "lost" /\ UNCHANGED top
    /\ UNCHANGED <<bottom, buffer, pushed, o_t, thiefVars, returned>>

PopRestore ==
    /\ o_pc \in {"won", "lost"}
    /\ bottom' = o_t + 1
    /\ o_pc' = IF o_pc = "won" THEN "read" ELSE "ready"
    /\ UNCHANGED <<top, buffer, pushed, o_t, o_seen, thiefVars, returned>>

PopRead ==
    /\ o_pc = "read"
    /\ Return(buffer[getMask(o_t)])
    /\ o_pc' = "ready"
    /\ UNCHANGED <<top, bottom, buffer, pushed, o_t, o_seen, thiefVars>>

pop == PopDecrement \/ PopLoadTop \/ PopEmpty \/ PopTake \/ PopLast \/ PopRestore \/ PopRead

-----------------------------------------------------------------------------
(***************************************************************************)
(* steal()                                                                 *)
(***************************************************************************)
StealLoadTop(h) ==
    /\ t_pc[h] = "ready"
    /\ t_t' = [t_t EXCEPT ![h] = top]
    /\ t_pc' = [t_pc EXCEPT ![h] = "load_bottom"]
    /\ UNCHANGED <<top, bottom, buffer, pushed, ownerVars, t_task, returned>>

StealLoadBottom(h) ==
    /\ t_pc[h] = "load_bottom"
    /\ t_pc' = [t_pc EXCEPT ![h] = IF bottom - t_t[h] <= 0 THEN "ready" ELSE "read"]
    /\ UNCHANGED <<top, bottom, buffer, pushed, ownerVars, t_t, t_task, returned>>

StealRead(h) ==
    /\ t_pc[h] = "read"
    /\ t_task' = [t_task EXCEPT ![h] = buffer[getMask(t_t[h])]]
    /\ t_pc' = [t_pc EXCEPT ![h] = "cas"]
    /\ UNCHANGED <<top, bottom, buffer, pushed, ownerVars, t_t, returned>>

\* Mutant of StealCas: top_ is stored, not compared and exchanged.
StealStore(h) ==
    /\ t_pc[h] = "cas"
    /\ top' = t_t[h] + 1 /\ Return(t_task[h])
    /\ t_pc' = [t_pc EXCEPT ![h] = "ready"]
    /\ UNCHANGED <<bottom, buffer, pushed, ownerVars, t_t, t_task>>

StealCas(h) ==
    /\ t_pc[h] = "cas"
    /\ IF top = t_t[h] THEN top' = t_t[h] + 1 /\ Return(t_task[h])
                       ELSE UNCHANGED <<top, returned>>
    /\ t_pc' = [t_pc EXCEPT ![h] = "ready"]
    /\ UNCHANGED <<bottom, buffer, pushed, ownerVars, t_t, t_task>>

steal(h) == StealLoadTop(h) \/ StealLoadBottom(h) \/ StealRead(h) \/ StealCas(h)

-----------------------------------------------------------------------------
Next == push \/ pop \/ \E h \in Thieves : steal(h)

Spec == Init /\ [][Next]_vars
-----------------------------------------------------------------------------
(***************************************************************************)
(* Properties                                                              *)
(***************************************************************************)
\* Where the contents end: while pop() has not decided yet, the task it is after
\* still counts as queued.
End == IF o_pc \in {"load_top", "last"} THEN bottom + 1 ELSE bottom

\* The contents, oldest first.
Items == [k \in 1 .. IF End > top THEN End - top ELSE 0 |-> buffer[getMask(top + k - 1)]]

\* The task the owner has won and not read yet.
Claimed ==
    CASE o_pc = "take"            -> {buffer[getMask(bottom)]}
      [] o_pc \in {"won", "read"} -> {buffer[getMask(o_t)]}
      [] OTHER                    -> {}

\* How often each task was taken, by the owner or by a thief.
Taken == [x \in Tasks |-> returned[x] + IF x \in Claimed THEN 1 ELSE 0]

Deque == INSTANCE StealingDeque WITH items <- Items, taken <- Taken

\* Through empty, full and last-task races and several laps of the buffer, every
\* step is a push, a pop at the bottom, a steal at the top, or invisible.
ImplementsDeque == Deque!Spec
=============================================================================
