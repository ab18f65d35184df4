----------------------------- MODULE WorkerPool -----------------------------
(***************************************************************************)
(* ChaseLevThreadPool/WorkerPool: submit(), the loop of every worker and   *)
(* the destructor.  A call on a queue is one step, as StealingDeque        *)
(* promises: WorkerDeque implements it.  A steal() may come back           *)
(* empty-handed because another thief was faster.                          *)
(*                                                                         *)
(* One thread submits and later destroys the pool ("Destruction must not   *)
(* race with submit()").  Task n is the n-th one submitted; running one is *)
(* a single step and always ends.                                          *)
(***************************************************************************)
EXTENDS Integers, Sequences

CONSTANTS NumThreads, GlobalCapacity, LocalCapacity,
          MaxTasks,  \* bound: calls of submit()
          None

ASSUME PoolAssumption ==
    /\ NumThreads \in Nat \ {0}
    /\ GlobalCapacity \in Nat \ {0}
    /\ LocalCapacity \in Nat \ {0}
    /\ MaxTasks \in Nat

Workers == 0 .. NumThreads - 1
Tasks   == 1 .. MaxTasks

VARIABLES globalQueue,
          tasksDeque,           \* by worker; thieves take at the front
          running,
          submitted, s_pc,      \* calls of submit() so far; "ready" or "push"
          w_pc, w_task, w_i,    \* each worker: where it is, the task in hand, i
          d_pc, d_id,           \* the destructor, and its loop over the deques
          executed              \* how often each task was run

queueVars  == <<globalQueue, tasksDeque>>
submitVars == <<submitted, s_pc>>
workerVars == <<w_pc, w_task, w_i>>
dtorVars   == <<running, d_pc, d_id>>
vars == <<queueVars, submitVars, workerVars, dtorVars, executed>>

Init ==
    /\ globalQueue = << >>
    /\ tasksDeque = [w \in Workers |-> << >>]
    /\ running = TRUE
    /\ submitted = 0 /\ s_pc = "ready"
    /\ w_pc = [w \in Workers |-> "loop"]
    /\ w_task = [w \in Workers |-> None]
    /\ w_i = [w \in Workers |-> 1]
    /\ d_pc = "alive" /\ d_id = 0
    /\ executed = [x \in Tasks |-> 0]

executeTask(x) == executed' = [executed EXCEPT ![x] = @ + 1]

Last(q)  == q[Len(q)]
Front(q) == SubSeq(q, 1, Len(q) - 1)

-----------------------------------------------------------------------------
(***************************************************************************)
(* submit(): it spins until there is room, or until the pool is shut down. *)
(***************************************************************************)
SubmitStart ==
    /\ d_pc = "alive"
    /\ s_pc = "ready"
    /\ submitted < MaxTasks
    /\ submitted' = submitted + 1
    /\ s_pc' = "push"
    /\ UNCHANGED <<queueVars, workerVars, dtorVars, executed>>

SubmitPush ==
    /\ s_pc = "push"
    /\ Len(globalQueue) < GlobalCapacity \/ ~running
    /\ globalQueue' = IF Len(globalQueue) < GlobalCapacity
                        THEN Append(globalQueue, submitted) ELSE globalQueue
    /\ s_pc' = "ready"
    /\ UNCHANGED <<tasksDeque, submitted, workerVars, dtorVars, executed>>

submit == SubmitStart \/ SubmitPush

-----------------------------------------------------------------------------
(***************************************************************************)
(* workerLoop()                                                            *)
(***************************************************************************)
Goto(w, pc) == w_pc' = [w_pc EXCEPT ![w] = pc]
Hold(w, x)  == w_task' = [w_task EXCEPT ![w] = x]

\* Mutant of CheckRunning: the flag is not looked at.
CheckNothing(w) ==
    /\ w_pc[w] = "loop"
    /\ Goto(w, "pop")
    /\ UNCHANGED <<queueVars, submitVars, w_task, w_i, dtorVars, executed>>

CheckRunning(w) ==
    /\ w_pc[w] = "loop"
    /\ Goto(w, IF running THEN "pop" ELSE "done")
    /\ UNCHANGED <<queueVars, submitVars, w_task, w_i, dtorVars, executed>>

\* pop() from the worker's own deque; with nothing there it goes on to `otherwise`.
PopOwn(w, pc, otherwise) ==
    /\ w_pc[w] = pc
    /\ IF tasksDeque[w] = << >>
         THEN Goto(w, otherwise) /\ UNCHANGED <<tasksDeque, w_task>>
         ELSE /\ Hold(w, Last(tasksDeque[w]))
              /\ tasksDeque' = [tasksDeque EXCEPT ![w] = Front(@)]
              /\ Goto(w, "execute")
    /\ UNCHANGED <<globalQueue, submitVars, w_i, dtorVars, executed>>

PopLocal(w) == PopOwn(w, "pop", "global")

PopGlobal(w) ==
    /\ w_pc[w] = "global"
    /\ IF globalQueue = << >>
         THEN /\ Goto(w, "steal")
              /\ w_i' = [w_i EXCEPT ![w] = 1]
              /\ UNCHANGED <<globalQueue, w_task>>
         ELSE /\ Hold(w, Head(globalQueue))
              /\ globalQueue' = Tail(globalQueue)
              /\ Goto(w, "publish")
              /\ UNCHANGED w_i
    /\ UNCHANGED <<tasksDeque, submitVars, dtorVars, executed>>

\* Republish through the own deque, or run inline when that is full.
Publish(w) ==
    /\ w_pc[w] = "publish"
    /\ IF Len(tasksDeque[w]) < LocalCapacity
         THEN /\ tasksDeque' = [tasksDeque EXCEPT ![w] = Append(@, w_task[w])]
              /\ Hold(w, None)
              /\ Goto(w, "repop")
         ELSE Goto(w, "execute") /\ UNCHANGED <<tasksDeque, w_task>>
    /\ UNCHANGED <<globalQueue, submitVars, w_i, dtorVars, executed>>

PopAgain(w) == PopOwn(w, "repop", "loop")

Victim(w) == (w + w_i[w]) % NumThreads

\* Mutant of StealNothing: a worker that finds nothing to do leaves.
StealNothingLeave(w) ==
    /\ w_pc[w] = "steal"
    /\ w_i' = [w_i EXCEPT ![w] = @ + 1]
    /\ Goto(w, IF w_i[w] + 1 < NumThreads THEN "steal" ELSE "done")
    /\ UNCHANGED <<queueVars, submitVars, w_task, dtorVars, executed>>

\* With no peer left to try, the worker yields and starts over.
StealNothing(w) ==
    /\ w_pc[w] = "steal"
    /\ w_i' = [w_i EXCEPT ![w] = @ + 1]
    /\ Goto(w, IF w_i[w] + 1 < NumThreads THEN "steal" ELSE "loop")
    /\ UNCHANGED <<queueVars, submitVars, w_task, dtorVars, executed>>

StealTask(w) ==
    /\ w_pc[w] = "steal"
    /\ w_i[w] < NumThreads
    /\ tasksDeque[Victim(w)] # << >>
    /\ Hold(w, Head(tasksDeque[Victim(w)]))
    /\ tasksDeque' = [tasksDeque EXCEPT ![Victim(w)] = Tail(@)]
    /\ Goto(w, "execute")
    /\ UNCHANGED <<globalQueue, submitVars, w_i, dtorVars, executed>>

Execute(w) ==
    /\ w_pc[w] = "execute"
    /\ executeTask(w_task[w])
    /\ Hold(w, None)
    /\ Goto(w, "loop")
    /\ UNCHANGED <<queueVars, submitVars, w_i, dtorVars>>

workerLoop(w) ==
    \/ CheckRunning(w) \/ PopLocal(w) \/ PopGlobal(w) \/ Publish(w) \/ PopAgain(w)
    \/ StealNothing(w) \/ StealTask(w) \/ Execute(w)

-----------------------------------------------------------------------------
(***************************************************************************)
(* ~WorkerPool(): signal, join, then run whatever is left.                 *)
(***************************************************************************)
RequestStop ==
    /\ d_pc = "alive"
    /\ s_pc = "ready"
    /\ running' = FALSE
    /\ d_pc' = "join"
    /\ UNCHANGED <<queueVars, submitVars, workerVars, d_id, executed>>

JoinWorkers ==
    /\ d_pc = "join"
    /\ \A w \in Workers : w_pc[w] = "done"
    /\ d_pc' = "drain_global"
    /\ UNCHANGED <<queueVars, submitVars, workerVars, running, d_id, executed>>

\* Mutant of DrainGlobal: one leftover task is enough.
DrainGlobalOnce ==
    /\ d_pc = "drain_global"
    /\ d_pc' = "drain_local"
    /\ IF globalQueue = << >>
         THEN UNCHANGED <<globalQueue, executed>>
         ELSE executeTask(Head(globalQueue)) /\ globalQueue' = Tail(globalQueue)
    /\ UNCHANGED <<tasksDeque, submitVars, workerVars, running, d_id>>

DrainGlobal ==
    /\ d_pc = "drain_global"
    /\ IF globalQueue = << >>
         THEN d_pc' = "drain_local" /\ UNCHANGED <<globalQueue, executed>>
         ELSE /\ executeTask(Head(globalQueue))
              /\ globalQueue' = Tail(globalQueue)
              /\ UNCHANGED d_pc
    /\ UNCHANGED <<tasksDeque, submitVars, workerVars, running, d_id>>

DrainLocal ==
    /\ d_pc = "drain_local"
    /\ IF tasksDeque[d_id] = << >>
         THEN /\ d_id' = IF d_id + 1 < NumThreads THEN d_id + 1 ELSE d_id
              /\ d_pc' = IF d_id + 1 < NumThreads THEN d_pc ELSE "destroyed"
              /\ UNCHANGED <<tasksDeque, executed>>
         ELSE /\ executeTask(Last(tasksDeque[d_id]))
              /\ tasksDeque' = [tasksDeque EXCEPT ![d_id] = Front(@)]
              /\ UNCHANGED <<d_pc, d_id>>
    /\ UNCHANGED <<globalQueue, submitVars, workerVars, running>>

Destructor == JoinWorkers \/ DrainGlobal \/ DrainLocal

-----------------------------------------------------------------------------
Next == submit \/ (\E w \in Workers : workerLoop(w)) \/ RequestStop \/ Destructor

\* The operating system runs every thread that can run.  Nobody has to submit
\* another task or to destroy the pool.
Fairness ==
    /\ \A w \in Workers : WF_vars(workerLoop(w))
    /\ WF_vars(SubmitPush)
    /\ WF_vars(Destructor)

Spec == Init /\ [][Next]_vars /\ Fairness
-----------------------------------------------------------------------------
(***************************************************************************)
(* Properties                                                              *)
(***************************************************************************)
\* "Any tasks still in the global queue or in any local deque are drained and
\* executed on the destructor thread so that futures handed out by submit()
\* resolve normally."  executeTask() deletes the task: each is run exactly once,
\* by one worker or by the destructor.
NothingLeftBehind ==
    d_pc = "destroyed" => \A x \in 1 .. submitted : executed[x] = 1

\* The destructor returns: every worker sees the flag and leaves.
DestructorReturns == d_pc # "alive" ~> d_pc = "destroyed"

\* Every task that was submitted is run, though workers sleep on nothing, steal
\* from one another and submit() spins while the global queue is full.
SubmittedIsRun == \A x \in Tasks : submitted >= x ~> executed[x] = 1
=============================================================================
