-------------------------- MODULE ThreadPoolProofs --------------------------
(***************************************************************************)
(* Proofs about ThreadPool for any number of workers and tasks and any     *)
(* division of the tasks into priorities.                                  *)
(***************************************************************************)
EXTENDS ThreadPool, FiniteSetTheorems, TLAPS

WorkerStates == {"locked", "asleep", "run", "finish", "done"}

\* Workers that hold a task, and those that have still to call it.
Busy    == {w \in Workers : w_pc[w] \in {"run", "finish"}}
Running == {w \in Workers : w_pc[w] = "run"}

Typing ==
    /\ submitted \in Nat
    /\ x_upto \in 0 .. submitted
    /\ tasks \subseteq Nat
    /\ w_pc \in [Workers -> WorkerStates]
    /\ w_task \in [Workers -> Nat \cup {None}]

\* activeTasks is what its name says: it is read by wait() under the mutex, and
\* changed by workers under the mutex before and after a task that runs without it.
CountExact == activeTasks = Cardinality(Busy)

\* An accepted task is queued, in the hands of a worker, or has returned.
NothingLost ==
    \A t \in 1 .. submitted \ refused :
        t \in tasks \/ t \in finished \/ \E w \in Running : w_task[w] = t

\* A worker leaves an empty queue only, and after it nothing is queued any more.
LeavingIsFinal ==
    \A w \in Workers : w_pc[w] = "done" => stopRequested /\ tasks = {}

\* stop() has set its flag before it does anything else, and joins every worker.
StopOrder ==
    /\ d_pc # "ready" => stopRequested
    /\ d_pc = "stopped" => \A w \in Workers : w_pc[w] = "done"

PoolInv ==
    /\ Typing /\ CountExact /\ NothingLost /\ LeavingIsFinal /\ StopOrder
    /\ NoLostWakeup /\ WaitMeansDone

-----------------------------------------------------------------------------
(***************************************************************************)
(* Counting busy workers.                                                  *)
(***************************************************************************)

\* One worker more is busy.
LEMMA OneMoreBusy ==
    ASSUME Typing, CountExact, NEW w \in Workers, w_pc[w] \notin {"run", "finish"},
           Busy' = Busy \cup {w}, activeTasks' = activeTasks + 1
    PROVE  CountExact'
<1>1. IsFiniteSet(Busy)
  BY ThreadPoolAssumption, FS_Subset DEF Busy
<1>2. w \notin Busy
  BY DEF Busy
<1> QED
  BY <1>1, <1>2, FS_AddElement, FS_CardinalityType DEF CountExact

\* One worker fewer is busy.
LEMMA OneFewerBusy ==
    ASSUME Typing, CountExact, NEW w \in Busy,
           Busy' = Busy \ {w}, activeTasks' = activeTasks - 1
    PROVE  CountExact'
<1>1. IsFiniteSet(Busy)
  BY ThreadPoolAssumption, FS_Subset DEF Busy
<1> QED
  BY <1>1, FS_RemoveElement, FS_CardinalityType DEF CountExact

\* A pool that counts no active task has no busy worker.
LEMMA IdleMeansIdle ==
    ASSUME Typing, CountExact, NothingLost, AllDone
    PROVE  1 .. submitted \ refused \subseteq finished
<1>1. IsFiniteSet(Busy)
  BY ThreadPoolAssumption, FS_Subset DEF Busy
<1>2. Busy = {}
  BY <1>1, FS_EmptySet DEF CountExact, AllDone
<1> QED
  BY <1>2 DEF NothingLost, AllDone, Busy, Running

-----------------------------------------------------------------------------
(***************************************************************************)
(* The inductive invariant.                                                *)
(***************************************************************************)

\* The pool starts with every worker about to look at an empty queue.
LEMMA PoolInit == Init => PoolInv
<1> SUFFICES ASSUME Init PROVE PoolInv
  OBVIOUS
<1>1. Busy = {} /\ Running = {}
  BY DEF Init, Busy, Running
<1>2. CountExact
  BY <1>1, FS_EmptySet DEF CountExact, Init
<1>3. Typing
  BY DEF Init, Typing, WorkerStates
<1> QED
  BY <1>2, <1>3 DEF Init, PoolInv, NothingLost, LeavingIsFinal, StopOrder, NoLostWakeup,
                    WaitMeansDone

\* submit() under the mutex: a task is queued with its notification on the way, or refused.
LEMMA PushKeeps == PoolInv /\ SubmitPush => PoolInv'
<1> SUFFICES ASSUME PoolInv, SubmitPush PROVE PoolInv'
  OBVIOUS
<1> USE DEF PoolInv, SubmitPush, outcomeVars, workerVars, waitVars
<1>1. Typing'
  <2>1. submitted' \in Nat /\ x_upto' \in 0 .. submitted'
    BY DEF Typing
  <2>2. tasks' = tasks \/ tasks' = tasks \cup {submitted + 1}
    OBVIOUS
  <2>3. tasks' \subseteq Nat
    <3>1. submitted + 1 \in Nat
      BY DEF Typing
    <3> QED
      BY <2>2, <3>1 DEF Typing
  <2> QED
    BY <2>1, <2>3 DEF Typing
<1>2. CountExact'
  BY DEF CountExact, Busy
<1>3. NothingLost'
  <2> SUFFICES ASSUME NEW t \in (1 .. submitted \ refused)'
               PROVE  t \in tasks' \/ t \in finished' \/ \E w \in Running' : w_task'[w] = t
    BY DEF NothingLost
  <2>1. CASE t = submitted + 1
    BY <2>1
  <2>2. CASE t # submitted + 1
    <3>1. t \in 1 .. submitted \ refused
      BY <2>2 DEF Typing
    <3> QED
      BY <3>1 DEF NothingLost, Running
  <2> QED
    BY <2>1, <2>2
<1>4. LeavingIsFinal' /\ StopOrder'
  BY DEF LeavingIsFinal, StopOrder
<1>5. NoLostWakeup'
  BY DEF NoLostWakeup
<1>6. WaitMeansDone'
  BY DEF WaitMeansDone
<1> QED
  BY <1>1, <1>2, <1>3, <1>4, <1>5, <1>6

\* Steps that only move sleeping workers to the mutex.
LEMMA WakingKeeps ==
    ASSUME PoolInv,
           UNCHANGED <<tasks, activeTasks, stopRequested, outcomeVars, submitted, refused,
                       w_task, waitVars>>,
           w_pc' \in [Workers -> WorkerStates],
           \A w \in Workers : w_pc'[w] = w_pc[w] \/ (w_pc[w] = "asleep" /\ w_pc'[w] = "locked"),
           StopOrder', NoLostWakeup'
    PROVE  PoolInv'
<1> USE DEF PoolInv, outcomeVars, waitVars
<1>1. Busy' = Busy /\ Running' = Running
  BY DEF Busy, Running
<1>2. Typing' /\ CountExact'
  BY <1>1 DEF Typing, CountExact
<1>3. NothingLost'
  BY <1>1 DEF NothingLost
<1>4. LeavingIsFinal' /\ WaitMeansDone'
  BY DEF LeavingIsFinal, WaitMeansDone
<1> QED
  BY <1>2, <1>3, <1>4

\* notify_one() after submit(): if it finds nobody asleep, some worker is still about,
\* for none has left while something is queued.
LEMMA NotifyKeeps == PoolInv /\ SubmitNotify => PoolInv'
<1> SUFFICES ASSUME PoolInv, SubmitNotify PROVE PoolInv'
  OBVIOUS
<1> USE DEF PoolInv, SubmitNotify
<1>1. w_pc' \in [Workers -> WorkerStates]
  BY DEF Typing, WorkerStates, Asleep
<1>2. \A w \in Workers : w_pc'[w] = w_pc[w] \/ (w_pc[w] = "asleep" /\ w_pc'[w] = "locked")
  BY DEF Typing, Asleep
<1>3. StopOrder'
  BY <1>2 DEF StopOrder
<1>4. NoLostWakeup'
  <2> SUFFICES ASSUME tasks # {} PROVE \E w \in Workers : w_pc'[w] \notin {"asleep", "done"}
    BY DEF NoLostWakeup
  <2>1. CASE Asleep = {}
    BY <2>1, ThreadPoolAssumption DEF Asleep, LeavingIsFinal
  <2>2. CASE Asleep # {}
    BY <2>2 DEF Asleep, Typing
  <2> QED
    BY <2>1, <2>2
<1> QED
  BY <1>1, <1>2, <1>3, <1>4, WakingKeeps

\* A spurious wake-up.
LEMMA SpuriousKeeps ==
    ASSUME PoolInv, NEW v \in Workers, SpuriousWake(v)
    PROVE  PoolInv'
<1> USE DEF PoolInv, SpuriousWake, submitVars
<1>1. w_pc' \in [Workers -> WorkerStates]
  BY DEF Typing, WorkerStates
<1>2. \A w \in Workers : w_pc'[w] = w_pc[w] \/ (w_pc[w] = "asleep" /\ w_pc'[w] = "locked")
  BY DEF Typing
<1>3. StopOrder'
  BY <1>2 DEF StopOrder
<1>4. NoLostWakeup'
  BY <1>2 DEF NoLostWakeup, Typing
<1> QED
  BY <1>1, <1>2, <1>3, <1>4, WakingKeeps

\* notify_all() in stop().
LEMMA StopNotifyKeeps == PoolInv /\ StopNotify => PoolInv'
<1> SUFFICES ASSUME PoolInv, StopNotify PROVE PoolInv'
  OBVIOUS
<1> USE DEF PoolInv, StopNotify, submitVars
<1>1. w_pc' \in [Workers -> WorkerStates]
  BY DEF Typing, WorkerStates, Asleep
<1>2. \A w \in Workers : w_pc'[w] = w_pc[w] \/ (w_pc[w] = "asleep" /\ w_pc'[w] = "locked")
  BY DEF Typing, Asleep
<1>3. StopOrder'
  BY DEF StopOrder
<1>4. NoLostWakeup'
  BY <1>2 DEF NoLostWakeup, Typing
<1> QED
  BY <1>1, <1>2, <1>3, <1>4, WakingKeeps

\* workerLoop() takes a task: it is in its hands, and counted, before the mutex is free.
LEMMA TakeKeeps ==
    ASSUME PoolInv, NEW w \in Workers, WorkerTake(w)
    PROVE  PoolInv'
<1> USE DEF PoolInv, WorkerTake, outcomeVars, submitVars, waitVars
<1>1. PICK t \in tasks : tasks' = tasks \ {t} /\ w_task' = [w_task EXCEPT ![w] = t]
  OBVIOUS
<1>2. Busy' = Busy \cup {w} /\ Running' = Running \cup {w}
  BY DEF Busy, Running, Typing
<1>3. Typing'
  BY <1>1 DEF Typing, WorkerStates
<1>4. CountExact'
  BY <1>2, OneMoreBusy
<1>5. NothingLost'
  <2> SUFFICES ASSUME NEW s \in 1 .. submitted \ refused
               PROVE  s \in tasks' \/ s \in finished \/ \E v \in Running' : w_task'[v] = s
    BY DEF NothingLost
  <2>1. CASE s = t
    BY <2>1, <1>1, <1>2 DEF Typing
  <2>2. CASE s # t
    BY <2>2, <1>1, <1>2 DEF NothingLost, Running, Typing
  <2> QED
    BY <2>1, <2>2
<1>6. LeavingIsFinal' /\ StopOrder'
  BY <1>1 DEF LeavingIsFinal, StopOrder, Typing
<1>7. NoLostWakeup'
  BY DEF NoLostWakeup, Typing
<1>8. WaitMeansDone'
  BY DEF WaitMeansDone
<1> QED
  BY <1>3, <1>4, <1>5, <1>6, <1>7, <1>8

\* workerLoop() finds nothing: it leaves or sleeps, and there is nothing to lose.
LEMMA IdleKeeps ==
    ASSUME PoolInv, NEW w \in Workers, WorkerIdle(w)
    PROVE  PoolInv'
<1> USE DEF PoolInv, WorkerIdle, outcomeVars, submitVars, waitVars
<1>1. Busy' = Busy /\ Running' = Running
  BY DEF Busy, Running, Typing
<1>2. Typing'
  BY DEF Typing, WorkerStates
<1>3. CountExact'
  BY <1>1 DEF CountExact
<1>4. NothingLost'
  BY <1>1 DEF NothingLost
<1>5. LeavingIsFinal' /\ StopOrder'
  BY DEF LeavingIsFinal, StopOrder, Typing
<1>6. NoLostWakeup' /\ WaitMeansDone'
  BY DEF NoLostWakeup, WaitMeansDone
<1> QED
  BY <1>2, <1>3, <1>4, <1>5, <1>6

\* The task is called without the mutex; it counts as active until the mutex is taken again.
LEMMA RunKeeps ==
    ASSUME PoolInv, NEW w \in Workers, WorkerRun(w)
    PROVE  PoolInv'
<1> USE DEF PoolInv, WorkerRun, submitVars, waitVars
<1>1. Busy' = Busy /\ Running' = Running \ {w}
  BY DEF Busy, Running, Typing
<1>2. Typing'
  BY DEF Typing, WorkerStates
<1>3. CountExact'
  BY <1>1 DEF CountExact
<1>4. NothingLost'
  BY <1>1 DEF NothingLost
<1>5. LeavingIsFinal' /\ StopOrder'
  BY DEF LeavingIsFinal, StopOrder, Typing
<1>6. NoLostWakeup'
  BY DEF NoLostWakeup, Typing
<1>7. WaitMeansDone'
  BY DEF WaitMeansDone
<1> QED
  BY <1>2, <1>3, <1>4, <1>5, <1>6, <1>7

\* The count goes down when the task has returned.
LEMMA FinishKeeps ==
    ASSUME PoolInv, NEW w \in Workers, WorkerFinish(w)
    PROVE  PoolInv'
<1> USE DEF PoolInv, WorkerFinish, outcomeVars, submitVars
<1>1. w \in Busy /\ Busy' = Busy \ {w} /\ Running' = Running /\ w \notin Running
  BY DEF Busy, Running, Typing
<1>2. Typing'
  BY DEF Typing, WorkerStates
<1>3. CountExact'
  BY <1>1, OneFewerBusy
<1>4. NothingLost'
  BY <1>1 DEF NothingLost, Typing, Running
<1>5. LeavingIsFinal' /\ StopOrder'
  BY DEF LeavingIsFinal, StopOrder, Typing
<1>6. NoLostWakeup'
  BY DEF NoLostWakeup, Typing
<1>7. WaitMeansDone'
  BY DEF WaitMeansDone
<1> QED
  BY <1>2, <1>3, <1>4, <1>5, <1>6, <1>7

\* wait() and wait_for(): they return true only on an idle pool, at which everything
\* accepted so far has returned.
LEMMA WaitKeeps ==
    ASSUME PoolInv,
           WaitCall \/ WaitCheck \/ WaitSpuriousWake \/ WaitTimeout \/ WaitAgain
    PROVE  PoolInv'
<1> USE DEF PoolInv, WaitCall, WaitCheck, WaitSpuriousWake, WaitTimeout, WaitAgain,
            outcomeVars, submitVars, workerVars
<1>1. UNCHANGED <<tasks, activeTasks, stopRequested, finished, submitted, refused, s_pc,
                  w_pc, w_task, d_pc>>
  OBVIOUS
<1>2. Typing'
  <2>1. x_upto' = x_upto \/ x_upto' = submitted
    OBVIOUS
  <2> QED
    BY <1>1, <2>1 DEF Typing
<1>3. CountExact'
  BY <1>1 DEF CountExact, Busy
<1>4. NothingLost'
  BY <1>1 DEF NothingLost, Running
<1>5. LeavingIsFinal' /\ StopOrder' /\ NoLostWakeup'
  BY <1>1 DEF LeavingIsFinal, StopOrder, NoLostWakeup
<1>6. WaitMeansDone'
  <2> SUFFICES ASSUME x_pc' = "returned" PROVE 1 .. x_upto' \ refused' \subseteq finished'
    BY DEF WaitMeansDone
  <2>1. x_upto' = x_upto /\ AllDone
    OBVIOUS
  <2>2. 1 .. submitted \ refused \subseteq finished
    BY <2>1, IdleMeansIdle
  <2> QED
    BY <1>1, <2>1, <2>2 DEF Typing
<1> QED
  BY <1>2, <1>3, <1>4, <1>5, <1>6

\* A client cancels, or stop() sets its flag or has joined everybody.
LEMMA OthersKeep ==
    ASSUME PoolInv, (\E t \in 1 .. MaxTasks : Cancel(t)) \/ StopRequest \/ StopJoin
    PROVE  PoolInv'
<1> USE DEF PoolInv, Cancel, StopRequest, StopJoin, outcomeVars, submitVars, workerVars, waitVars
<1>1. UNCHANGED <<tasks, activeTasks, finished, submitted, refused, s_pc, w_pc, w_task,
                  x_pc, x_upto>>
  OBVIOUS
<1>2. stopRequested => stopRequested'
  OBVIOUS
<1>3. Typing' /\ CountExact'
  BY <1>1 DEF Typing, CountExact, Busy
<1>4. NothingLost'
  BY <1>1 DEF NothingLost, Running
<1>5. LeavingIsFinal'
  BY <1>1, <1>2 DEF LeavingIsFinal
<1>6. StopOrder'
  BY DEF StopOrder
<1>7. NoLostWakeup' /\ WaitMeansDone'
  BY <1>1 DEF NoLostWakeup, WaitMeansDone
<1> QED
  BY <1>3, <1>4, <1>5, <1>6, <1>7

\* The invariant, for every schedule of submitters, workers, waiters and stop().
THEOREM PoolInvariance == Spec => []PoolInv
<1>1. PoolInv /\ [Next]_vars => PoolInv'
  <2> SUFFICES ASSUME PoolInv, [Next]_vars PROVE PoolInv'
    OBVIOUS
  <2>1. CASE SubmitPush
    BY <2>1, PushKeeps
  <2>2. CASE SubmitNotify
    BY <2>2, NotifyKeeps
  <2>3. CASE (\E t \in 1 .. MaxTasks : Cancel(t)) \/ StopRequest \/ StopJoin
    BY <2>3, OthersKeep
  <2>4. ASSUME NEW w \in Workers, workerLoop(w) \/ SpuriousWake(w) PROVE PoolInv'
    BY <2>4, TakeKeeps, IdleKeeps, RunKeeps, FinishKeeps, SpuriousKeeps DEF workerLoop
  <2>5. CASE WaitCall \/ WaitCheck \/ WaitSpuriousWake \/ WaitTimeout \/ WaitAgain
    BY <2>5, WaitKeeps
  <2>6. CASE StopNotify
    BY <2>6, StopNotifyKeeps
  <2>7. CASE UNCHANGED vars
    BY <2>7 DEF vars, outcomeVars, submitVars, workerVars, waitVars, PoolInv, Typing, CountExact,
                Busy, Running, NothingLost, LeavingIsFinal, StopOrder, NoLostWakeup, WaitMeansDone
  <2> QED
    BY <2>1, <2>2, <2>3, <2>4, <2>5, <2>6, <2>7 DEF Next
<1> QED
  BY <1>1, PoolInit, PTL DEF Spec

-----------------------------------------------------------------------------
(***************************************************************************)
(* What the pool promises.                                                 *)
(***************************************************************************)

\* Queued work always has an awake worker, or a notification on its way to one.
THEOREM WakeupNeverLost == Spec => []NoLostWakeup
<1>1. PoolInv => NoLostWakeup
  BY DEF PoolInv
<1> QED
  BY <1>1, PoolInvariance, PTL

\* When wait() returns, every task accepted before the call has returned.
THEOREM WaitIsABarrier == Spec => []WaitMeansDone
<1>1. PoolInv => WaitMeansDone
  BY DEF PoolInv
<1> QED
  BY <1>1, PoolInvariance, PTL

\* When stop() has returned, every accepted task was run to its end: no worker leaves
\* while anything is queued, and the pool refuses what comes after the flag.
THEOREM StopLosesNothing == Spec => []StopDrains
<1>1. PoolInv => StopDrains
  <2> SUFFICES ASSUME PoolInv, d_pc = "stopped" PROVE 1 .. submitted \ refused \subseteq finished
    BY DEF StopDrains
  <2>1. Running = {} /\ tasks = {}
    BY ThreadPoolAssumption DEF PoolInv, StopOrder, LeavingIsFinal, Running
  <2> QED
    BY <2>1 DEF PoolInv, NothingLost
<1> QED
  BY <1>1, PoolInvariance, PTL
=============================================================================
