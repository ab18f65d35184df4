----------------------------- MODULE ThreadPool -----------------------------
(***************************************************************************)
(* ThreadPool/ThreadPool: a priority queue behind one mutex and two        *)
(* condition variables.  What runs under the mutex is one step.  A thread  *)
(* in cv.wait() sleeps until it is notified, or wakes for no reason, and   *)
(* then evaluates its predicate again.                                     *)
(*                                                                         *)
(* One thread submits, one calls wait() or wait_for(), one calls stop().   *)
(* Task n is the n-th one submitted.  The flag submit() hands out for      *)
(* cancelling is a plain bool that the client writes and a worker reads:   *)
(* once it was written the worker may see either value.                    *)
(***************************************************************************)
EXTENDS Integers, FiniteSets

CONSTANTS Workers,
          HighTasks, \* tasks of high priority; two of the three levels are enough
          MaxTasks,  \* bound: calls of submit()
          None

ASSUME ThreadPoolAssumption ==
    /\ Workers # {} /\ IsFiniteSet(Workers)
    /\ HighTasks \subseteq Nat
    /\ MaxTasks \in Nat

VARIABLES tasks,              \* queued tasks
          activeTasks,
          stopRequested,
          submitted, s_pc,    \* calls of submit(); "ready", or "notify" after it
          refused,            \* calls that threw
          cancelled,          \* tasks whose flag was set
          finished,           \* tasks whose std::function returned
          ran,                \* tasks whose client code was called
          w_pc, w_task,       \* each worker
          x_pc, x_upto,       \* wait(): where it is, tasks submitted when called
          d_pc                \* stop()

outcomeVars == <<finished, ran>>
submitVars == <<submitted, s_pc, refused>>
workerVars == <<w_pc, w_task>>
waitVars   == <<x_pc, x_upto>>
vars == <<tasks, activeTasks, stopRequested, cancelled, outcomeVars,
          submitVars, workerVars, waitVars, d_pc>>

Init ==
    /\ tasks = {}
    /\ activeTasks = 0
    /\ stopRequested = FALSE
    /\ submitted = 0 /\ s_pc = "ready" /\ refused = {}
    /\ cancelled = {} /\ finished = {} /\ ran = {}
    /\ w_pc = [w \in Workers |-> "locked"]
    /\ w_task = [w \in Workers |-> None]
    /\ x_pc = "ready" /\ x_upto = 0
    /\ d_pc = "ready"

Asleep == {w \in Workers : w_pc[w] = "asleep"}

-----------------------------------------------------------------------------
(***************************************************************************)
(* submit(): push under the mutex, notify after releasing it.              *)
(***************************************************************************)
SubmitPush ==
    /\ s_pc = "ready"
    /\ submitted < MaxTasks
    /\ submitted' = submitted + 1
    /\ IF stopRequested
         THEN refused' = refused \cup {submitted + 1} /\ UNCHANGED <<tasks, s_pc>>
         ELSE /\ tasks' = tasks \cup {submitted + 1}
              /\ s_pc' = "notify"
              /\ UNCHANGED refused
    /\ UNCHANGED <<activeTasks, stopRequested, cancelled, outcomeVars,
                   workerVars, waitVars, d_pc>>

\* Mutant of SubmitNotify: nobody is told.
SubmitSilently ==
    /\ s_pc = "notify"
    /\ s_pc' = "ready"
    /\ UNCHANGED <<tasks, activeTasks, stopRequested, cancelled, outcomeVars,
                   submitted, refused, workerVars, waitVars, d_pc>>

\* cv.notify_one(): some sleeper wakes, if there is one.
SubmitNotify ==
    /\ s_pc = "notify"
    /\ s_pc' = "ready"
    /\ IF Asleep = {} THEN UNCHANGED w_pc
                      ELSE \E w \in Asleep : w_pc' = [w_pc EXCEPT ![w] = "locked"]
    /\ UNCHANGED <<tasks, activeTasks, stopRequested, cancelled, outcomeVars,
                   submitted, refused, w_task, waitVars, d_pc>>

\* The client sets the flag of a task it submitted.
Cancel(t) ==
    /\ t \in 1 .. submitted
    /\ t \notin cancelled
    /\ cancelled' = cancelled \cup {t}
    /\ UNCHANGED <<tasks, activeTasks, stopRequested, outcomeVars, submitVars,
                   workerVars, waitVars, d_pc>>

-----------------------------------------------------------------------------
(***************************************************************************)
(* workerLoop()                                                            *)
(***************************************************************************)
\* A task the priority queue may hand out next; ties are in no fixed order.
IsTop(t) == t \in HighTasks \/ tasks \cap HighTasks = {}

WorkerTake(w) ==
    /\ w_pc[w] = "locked"
    /\ \E t \in tasks :
          /\ IsTop(t)
          /\ tasks' = tasks \ {t}
          /\ w_task' = [w_task EXCEPT ![w] = t]
    /\ activeTasks' = activeTasks + 1
    /\ w_pc' = [w_pc EXCEPT ![w] = "run"]
    /\ UNCHANGED <<stopRequested, cancelled, outcomeVars, submitVars, waitVars, d_pc>>

\* Mutant of WorkerIdle: leave on a stop request without looking at the queue.
WorkerIdleOrStopped(w) ==
    /\ w_pc[w] = "locked"
    /\ tasks = {} \/ stopRequested
    /\ w_pc' = [w_pc EXCEPT ![w] = IF stopRequested THEN "done" ELSE "asleep"]
    /\ UNCHANGED <<tasks, activeTasks, stopRequested, cancelled, outcomeVars, w_task,
                   submitVars, waitVars, d_pc>>

\* Nothing to do: leave if stop was requested, else sleep in cv.wait().
WorkerIdle(w) ==
    /\ w_pc[w] = "locked"
    /\ tasks = {}
    /\ w_pc' = [w_pc EXCEPT ![w] = IF stopRequested THEN "done" ELSE "asleep"]
    /\ UNCHANGED <<tasks, activeTasks, stopRequested, cancelled, outcomeVars, w_task,
                   submitVars, waitVars, d_pc>>

SpuriousWake(w) ==
    /\ w_pc[w] = "asleep"
    /\ w_pc' = [w_pc EXCEPT ![w] = "locked"]
    /\ UNCHANGED <<tasks, activeTasks, stopRequested, cancelled, outcomeVars, w_task,
                   submitVars, waitVars, d_pc>>

\* task(), without the mutex.  A cancelled one may or may not call the client's
\* code; it returns either way.
WorkerRun(w) ==
    /\ w_pc[w] = "run"
    /\ \/ ran' = ran \cup {w_task[w]}
       \/ w_task[w] \in cancelled /\ UNCHANGED ran
    /\ finished' = finished \cup {w_task[w]}
    /\ w_pc' = [w_pc EXCEPT ![w] = "finish"]
    /\ UNCHANGED <<tasks, activeTasks, stopRequested, cancelled, w_task, submitVars,
                   waitVars, d_pc>>

\* Mutant of WorkerFinish: notified only when the count was zero before.
WorkerFinishNoNotify(w) ==
    /\ w_pc[w] = "finish"
    /\ activeTasks' = activeTasks - 1
    /\ w_task' = [w_task EXCEPT ![w] = None]
    /\ w_pc' = [w_pc EXCEPT ![w] = "locked"]
    /\ x_pc' = IF activeTasks = 0 /\ tasks = {} /\ x_pc = "asleep" THEN "locked" ELSE x_pc
    /\ UNCHANGED <<tasks, stopRequested, cancelled, outcomeVars, submitVars, x_upto, d_pc>>

\* The count goes down, and whoever waits for the pool to be idle is notified.
WorkerFinish(w) ==
    /\ w_pc[w] = "finish"
    /\ activeTasks' = activeTasks - 1
    /\ w_task' = [w_task EXCEPT ![w] = None]
    /\ w_pc' = [w_pc EXCEPT ![w] = "locked"]
    /\ x_pc' = IF activeTasks = 1 /\ tasks = {} /\ x_pc = "asleep" THEN "locked" ELSE x_pc
    /\ UNCHANGED <<tasks, stopRequested, cancelled, outcomeVars, submitVars, x_upto, d_pc>>

workerLoop(w) == WorkerTake(w) \/ WorkerIdle(w) \/ WorkerRun(w) \/ WorkerFinish(w)

-----------------------------------------------------------------------------
(***************************************************************************)
(* wait() and wait_for(): the same wait, which may also time out.          *)
(***************************************************************************)
\* Mutant of AllDone: a task that is running does not count.
AllQueuedTaken == tasks = {}

AllDone == tasks = {} /\ activeTasks = 0

WaitCall ==
    /\ x_pc = "ready"
    /\ x_upto' = submitted
    /\ x_pc' = "locked"
    /\ UNCHANGED <<tasks, activeTasks, stopRequested, cancelled, outcomeVars,
                   submitVars, workerVars, d_pc>>

WaitCheck ==
    /\ x_pc = "locked"
    /\ x_pc' = IF AllDone THEN "returned" ELSE "asleep"
    /\ UNCHANGED <<tasks, activeTasks, stopRequested, cancelled, outcomeVars,
                   submitVars, workerVars, x_upto, d_pc>>

WaitSpuriousWake ==
    /\ x_pc = "asleep"
    /\ x_pc' = "locked"
    /\ UNCHANGED <<tasks, activeTasks, stopRequested, cancelled, outcomeVars,
                   submitVars, workerVars, x_upto, d_pc>>

\* wait_for() returns the predicate when its time is up.
WaitTimeout ==
    /\ x_pc = "asleep"
    /\ x_pc' = IF AllDone THEN "returned" ELSE "timed_out"
    /\ UNCHANGED <<tasks, activeTasks, stopRequested, cancelled, outcomeVars,
                   submitVars, workerVars, x_upto, d_pc>>

\* Either call may be made again after it returned.
WaitAgain ==
    /\ x_pc \in {"returned", "timed_out"}
    /\ x_pc' = "ready"
    /\ UNCHANGED <<tasks, activeTasks, stopRequested, cancelled, outcomeVars,
                   submitVars, workerVars, x_upto, d_pc>>

-----------------------------------------------------------------------------
(***************************************************************************)
(* stop(), also called by the destructor.                                  *)
(***************************************************************************)
StopRequest ==
    /\ d_pc = "ready"
    /\ stopRequested' = TRUE
    /\ d_pc' = "notify"
    /\ UNCHANGED <<tasks, activeTasks, cancelled, outcomeVars, submitVars, workerVars, waitVars>>

\* Mutant of StopNotify: only one sleeper is told.
StopNotifyOne ==
    /\ d_pc = "notify"
    /\ d_pc' = "join"
    /\ IF Asleep = {} THEN UNCHANGED w_pc
                      ELSE \E w \in Asleep : w_pc' = [w_pc EXCEPT ![w] = "locked"]
    /\ UNCHANGED <<tasks, activeTasks, stopRequested, cancelled, outcomeVars, submitVars,
                   w_task, waitVars>>

StopNotify ==
    /\ d_pc = "notify"
    /\ d_pc' = "join"
    /\ w_pc' = [w \in Workers |-> IF w \in Asleep THEN "locked" ELSE w_pc[w]]
    /\ UNCHANGED <<tasks, activeTasks, stopRequested, cancelled, outcomeVars, submitVars,
                   w_task, waitVars>>

StopJoin ==
    /\ d_pc = "join"
    /\ \A w \in Workers : w_pc[w] = "done"
    /\ d_pc' = "stopped"
    /\ UNCHANGED <<tasks, activeTasks, stopRequested, cancelled, outcomeVars, submitVars,
                   workerVars, waitVars>>

-----------------------------------------------------------------------------
Next ==
    \/ SubmitPush \/ SubmitNotify
    \/ \E t \in 1 .. MaxTasks : Cancel(t)
    \/ \E w \in Workers : workerLoop(w) \/ SpuriousWake(w)
    \/ WaitCall \/ WaitCheck \/ WaitSpuriousWake \/ WaitTimeout \/ WaitAgain
    \/ StopRequest \/ StopNotify \/ StopJoin

\* Threads that can run are run, and the client's tasks end.  Nobody has to
\* submit, wait or stop, and no wake-up happens without a notification.
Fairness ==
    /\ \A w \in Workers : WF_vars(workerLoop(w))
    /\ WF_vars(SubmitNotify)
    /\ WF_vars(WaitCheck)
    /\ WF_vars(StopNotify \/ StopJoin)

Spec == Init /\ [][Next]_vars /\ Fairness
-----------------------------------------------------------------------------
(***************************************************************************)
(* Properties                                                              *)
(***************************************************************************)
\* No wake-up is lost: work is never left in the queue with every worker asleep
\* or gone and no notification on its way.
NoLostWakeup ==
    tasks # {} => \/ s_pc = "notify"
                  \/ \E w \in Workers : w_pc[w] \notin {"asleep", "done"}

\* When wait() returns, or wait_for() returns true, every task that had been
\* accepted when it was called has returned.
WaitMeansDone == x_pc = "returned" => 1 .. x_upto \ refused \subseteq finished

\* stop() loses nothing: once it has returned, every accepted task was run, also
\* the ones that were still queued when it was called.
StopDrains == d_pc = "stopped" => 1 .. submitted \ refused \subseteq finished

\* stop() returns: every sleeping worker is told and leaves.
StopReturns == stopRequested ~> d_pc = "stopped"

\* wait() returns once submit() is no longer called (MaxTasks bounds the calls).
WaitReturns == x_pc = "asleep" ~> x_pc # "asleep"
=============================================================================
