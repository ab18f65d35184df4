-------------------------- MODULE WorkerPoolProofs --------------------------
(***************************************************************************)
(* No task of the Chase-Lev pool is lost or run twice: proved for any      *)
(* number of workers and tasks and any capacities of the queues.           *)
(*                                                                         *)
(* The argument is about where tasks are: in the global queue, in one      *)
(* worker's deque or in one worker's hand.  It is stated of sets (Placed), *)
(* and every step of the pool moves at most one task.                      *)
(***************************************************************************)
EXTENDS WorkerPool, SequenceTheorems, TLAPS

Set(s) == {s[i] : i \in 1 .. Len(s)}

Distinct(s) == \A i, j \in 1 .. Len(s) : s[i] = s[j] => i = j

\* The worker has a task in its hand: from the global queue, or about to run.
Holding(w) == w_pc[w] \in {"publish", "execute"}

Global == Set(globalQueue)
Local  == [w \in Workers |-> Set(tasksDeque[w])]
Hand   == [w \in Workers |-> IF Holding(w) THEN {w_task[w]} ELSE {}]

\* The calls of submit() whose task was put into the global queue.
Queued == IF s_pc = "push" THEN submitted - 1 ELSE submitted

\* A task is in one place only.
Apart(g, d, h) ==
    /\ \A w \in Workers : g \cap d[w] = {} /\ g \cap h[w] = {}
    /\ \A v, w \in Workers : /\ d[v] \cap h[w] = {}
                             /\ v # w => d[v] \cap d[w] = {} /\ h[v] \cap h[w] = {}

Somewhere(x, g, d, h) == x \in g \/ \E w \in Workers : x \in d[w] \/ x \in h[w]

\* Of the first n tasks, those somewhere in the pool were not run, all others once.
Placed(g, d, h, e, n) ==
    /\ Apart(g, d, h)
    /\ \A x \in Tasks :
         /\ Somewhere(x, g, d, h) => x <= n /\ e[x] = 0
         /\ x <= n => Somewhere(x, g, d, h) \/ e[x] = 1
         /\ x > n => e[x] = 0

PoolType ==
    /\ globalQueue \in Seq(Tasks) /\ Distinct(globalQueue)
    /\ tasksDeque \in [Workers -> Seq(Tasks)]
    /\ \A w \in Workers : Distinct(tasksDeque[w])
    /\ running \in BOOLEAN
    /\ submitted \in 0 .. MaxTasks
    /\ s_pc \in {"ready", "push"} /\ (s_pc = "push" => submitted > 0)
    /\ w_pc \in [Workers -> {"loop", "pop", "global", "publish", "repop", "steal",
                             "execute", "done"}]
    /\ w_task \in [Workers -> Tasks \cup {None}]
    /\ \A w \in Workers : Holding(w) => w_task[w] \in Tasks
    /\ w_i \in [Workers -> Nat]
    /\ d_pc \in {"alive", "join", "drain_global", "drain_local", "destroyed"}
    /\ d_id \in Workers
    /\ executed \in [Tasks -> Nat]

\* What the destructor can rely on: nobody submits once it has begun, nobody works once it
\* has joined, and the queues it has been through stay empty.
Leaving ==
    /\ running <=> d_pc = "alive"
    /\ d_pc # "alive" => s_pc = "ready"
    /\ d_pc \in {"alive", "join", "drain_global"} => d_id = 0
    /\ d_pc \in {"drain_global", "drain_local", "destroyed"} =>
          \A w \in Workers : w_pc[w] = "done"
    /\ d_pc \in {"drain_local", "destroyed"} => globalQueue = << >>
    /\ d_pc = "drain_local" => \A w \in Workers : w < d_id => tasksDeque[w] = << >>
    /\ d_pc = "destroyed" => \A w \in Workers : tasksDeque[w] = << >>

PoolInv ==
    /\ PoolType
    /\ Leaving
    /\ Placed(Global, Local, Hand, executed, Queued)

-----------------------------------------------------------------------------
(***************************************************************************)
(* What the operations of a queue do to the set of tasks in it.            *)
(***************************************************************************)
LEMMA AppendSet ==
    ASSUME NEW s \in Seq(Tasks), NEW x \in Tasks, x \notin Set(s), Distinct(s)
    PROVE  /\ Append(s, x) \in Seq(Tasks) /\ Distinct(Append(s, x))
           /\ Set(Append(s, x)) = Set(s) \cup {x}
<1> DEFINE t == Append(s, x)
<1>1. /\ t \in Seq(Tasks) /\ Len(t) = Len(s) + 1 /\ Len(s) \in Nat
      /\ \A i \in 1 .. Len(s) : t[i] = s[i]
      /\ t[Len(s) + 1] = x
  OBVIOUS
<1> HIDE DEF t
<1>2. Distinct(t)
  BY <1>1 DEF Distinct, Set
<1>3. Set(t) = Set(s) \cup {x}
  <2>1. \A i \in 1 .. Len(t) : i \in 1 .. Len(s) \/ i = Len(s) + 1
    BY <1>1
  <2>2. \A i \in 1 .. Len(s) : i \in 1 .. Len(t)
    BY <1>1
  <2>3. Len(s) + 1 \in 1 .. Len(t)
    BY <1>1
  <2> QED
    BY <1>1, <2>1, <2>2, <2>3 DEF Set
<1> QED
  BY <1>1, <1>2, <1>3 DEF t

LEMMA TailSet ==
    ASSUME NEW s \in Seq(Tasks), s # << >>, Distinct(s)
    PROVE  /\ Tail(s) \in Seq(Tasks) /\ Distinct(Tail(s))
           /\ Head(s) \in Set(s) /\ Head(s) \in Tasks
           /\ Set(Tail(s)) = Set(s) \ {Head(s)}
<1> DEFINE t == Tail(s)
<1>1. /\ t \in Seq(Tasks) /\ Len(s) \in Nat \ {0} /\ Len(t) = Len(s) - 1
      /\ \A i \in 1 .. Len(s) - 1 : t[i] = s[i + 1]
      /\ Head(s) = s[1] /\ s[1] \in Tasks
  OBVIOUS
<1> HIDE DEF t
<1>2. Distinct(t)
  BY <1>1 DEF Distinct
<1>3. Head(s) \in Set(s)
  BY <1>1 DEF Set
<1>4. Set(t) = Set(s) \ {Head(s)}
  <2>1. ASSUME NEW i \in 1 .. Len(t) PROVE t[i] \in Set(s) /\ t[i] # Head(s)
    BY <1>1 DEF Set, Distinct
  <2>2. ASSUME NEW i \in 1 .. Len(s), s[i] # Head(s) PROVE s[i] \in Set(t)
    <3>1. i - 1 \in 1 .. Len(t) /\ t[i - 1] = s[i]
      BY <1>1, <2>2
    <3> QED
      BY <3>1 DEF Set
  <2> QED
    BY <2>1, <2>2 DEF Set
<1> QED
  BY <1>1, <1>2, <1>3, <1>4 DEF t

LEMMA FrontSet ==
    ASSUME NEW s \in Seq(Tasks), s # << >>, Distinct(s)
    PROVE  /\ Front(s) \in Seq(Tasks) /\ Distinct(Front(s))
           /\ Last(s) \in Set(s) /\ Last(s) \in Tasks
           /\ Set(Front(s)) = Set(s) \ {Last(s)}
<1> DEFINE t == Front(s)
<1>1. /\ Len(s) \in Nat \ {0} /\ s[Len(s)] \in Tasks
  OBVIOUS
<1>2. /\ t \in Seq(Tasks) /\ Len(t) = Len(s) - 1
      /\ \A i \in 1 .. Len(s) - 1 : t[i] = s[i]
  <2>1. PICK n \in Int : n = Len(s) - 1
    BY <1>1
  <2>2. \A i \in 1 .. n : s[i] \in Tasks
    BY <1>1, <2>1
  <2>3. t = SubSeq(s, 1, n)
    BY <2>1 DEF Front
  <2>4. 1 \in Int
    OBVIOUS
  <2>5. /\ SubSeq(s, 1, n) \in Seq(Tasks)
        /\ Len(SubSeq(s, 1, n)) = IF 1 <= n THEN n - 1 + 1 ELSE 0
        /\ \A i \in 1 .. n - 1 + 1 : SubSeq(s, 1, n)[i] = s[1 + i - 1]
    BY <2>2, <2>4, SubSeqProperties
  <2> HIDE DEF t
  <2> QED
    BY <1>1, <2>1, <2>3, <2>5
<1> HIDE DEF t
<1>3. Distinct(t)
  BY <1>1, <1>2 DEF Distinct
<1>4. Last(s) \in Set(s) /\ Last(s) \in Tasks
  BY <1>1 DEF Set, Last
<1>5. Set(t) = Set(s) \ {Last(s)}
  <2>1. ASSUME NEW i \in 1 .. Len(t) PROVE t[i] \in Set(s) /\ t[i] # Last(s)
    BY <1>1, <1>2 DEF Set, Distinct, Last
  <2>2. ASSUME NEW i \in 1 .. Len(s), s[i] # Last(s) PROVE s[i] \in Set(t)
    <3>1. i \in 1 .. Len(t) /\ t[i] = s[i]
      BY <1>1, <1>2, <2>2 DEF Last
    <3> QED
      BY <3>1 DEF Set
  <2> QED
    BY <2>1, <2>2 DEF Set
<1> QED
  BY <1>2, <1>3, <1>4, <1>5 DEF t

-----------------------------------------------------------------------------
\* Only the set of w changes, to S.
Changes(f, w, S, f2) == \A v \in Workers : f2[v] = IF v = w THEN S ELSE f[v]

(***************************************************************************)
(* A task moves, comes in or is run.                                       *)
(***************************************************************************)
\* PopGlobal(): from the global queue into a hand.
LEMMA Taken ==
    ASSUME NEW g, NEW d, NEW h, NEW e, NEW n, Placed(g, d, h, e, n),
           NEW w \in Workers, NEW x \in g, h[w] = {},
           NEW h2, \A v \in Workers : h2[v] = IF v = w THEN {x} ELSE h[v]
    PROVE  Placed(g \ {x}, d, h2, e, n)
  BY DEF Placed, Apart, Somewhere

\* Publish(): from a hand into the deque.
LEMMA Published ==
    ASSUME NEW g, NEW d, NEW h, NEW e, NEW n, Placed(g, d, h, e, n),
           NEW w \in Workers, NEW x, h[w] = {x},
           NEW h2, Changes(h, w, {}, h2),
           NEW d2, Changes(d, w, d[w] \cup {x}, d2)
    PROVE  Placed(g, d2, h2, e, n)
  BY DEF Placed, Apart, Somewhere, Changes

\* PopOwn() and StealTask(): from a deque into a hand.
LEMMA Claimed ==
    ASSUME NEW g, NEW d, NEW h, NEW e, NEW n, Placed(g, d, h, e, n),
           NEW w \in Workers, h[w] = {}, NEW u \in Workers, NEW x \in d[u],
           NEW h2, Changes(h, w, {x}, h2),
           NEW d2, Changes(d, u, d[u] \ {x}, d2)
    PROVE  Placed(g, d2, h2, e, n)
<1>1. Apart(g, d2, h2)
  <2>1. \A v \in Workers : d2[v] \subseteq d[v] /\ x \notin d2[v] /\ x \notin h[v] /\ x \notin g
    BY DEF Placed, Apart, Changes
  <2>2. \A v \in Workers : h2[v] = {x} \/ h2[v] = h[v]
    BY DEF Changes
  <2> QED
    BY <2>1, <2>2 DEF Placed, Apart, Changes
<1>2. \A y : Somewhere(y, g, d2, h2) <=> Somewhere(y, g, d, h)
  BY DEF Somewhere, Changes
<1> QED
  BY <1>1, <1>2 DEF Placed

\* SubmitPush(): a new task comes in.
LEMMA Entered ==
    ASSUME NEW g, NEW d, NEW h, NEW e, NEW n \in Nat, Placed(g, d, h, e, n),
           n + 1 \in Tasks
    PROVE  /\ n + 1 \notin g
           /\ Placed(g \cup {n + 1}, d, h, e, n + 1)
<1>1. \A x \in Tasks : /\ x <= n + 1 => x <= n \/ x = n + 1
                       /\ x <= n => x <= n + 1 /\ x # n + 1
                       /\ x > n + 1 => x > n
                       /\ x = n + 1 => x > n
  BY PoolAssumption DEF Tasks
<1>2. ~Somewhere(n + 1, g, d, h) /\ e[n + 1] = 0
  BY <1>1 DEF Placed
<1>3. Apart(g \cup {n + 1}, d, h)
  BY <1>2 DEF Placed, Apart, Somewhere
<1>4. \A x \in Tasks :
         Somewhere(x, g \cup {n + 1}, d, h) <=> Somewhere(x, g, d, h) \/ x = n + 1
  BY DEF Somewhere
<1> QED
  BY <1>1, <1>2, <1>3, <1>4 DEF Placed, Somewhere

\* Execute(): the task in a hand is run.
LEMMA RunFromHand ==
    ASSUME NEW g, NEW d, NEW h, NEW e \in [Tasks -> Nat], NEW n \in Nat, Placed(g, d, h, e, n),
           NEW w \in Workers, NEW x \in Tasks, h[w] = {x},
           NEW h2, \A v \in Workers : h2[v] = IF v = w THEN {} ELSE h[v],
           NEW e2, e2[x] = e[x] + 1, \A y \in Tasks : y # x => e2[y] = e[y]
    PROVE  Placed(g, d, h2, e2, n)
<1>1. Somewhere(x, g, d, h)
  BY DEF Somewhere
<1>2. Apart(g, d, h2)
  BY DEF Placed, Apart
<1>3. \A y \in Tasks : Somewhere(y, g, d, h2) <=> Somewhere(y, g, d, h) /\ y # x
  BY DEF Placed, Apart, Somewhere
<1>4. e2[x] = 1 /\ x <= n /\ ~(x > n)
  BY <1>1 DEF Placed, Tasks
<1> QED
  BY <1>1, <1>2, <1>3, <1>4, Zenon DEF Placed

\* DrainGlobal(): a task of the global queue is run.
LEMMA RunFromGlobal ==
    ASSUME NEW g, NEW d, NEW h, NEW e \in [Tasks -> Nat], NEW n \in Nat, Placed(g, d, h, e, n),
           NEW x \in Tasks, x \in g,
           NEW e2, e2[x] = e[x] + 1, \A y \in Tasks : y # x => e2[y] = e[y]
    PROVE  Placed(g \ {x}, d, h, e2, n)
<1>1. Somewhere(x, g, d, h)
  BY DEF Somewhere
<1>2. Apart(g \ {x}, d, h)
  BY DEF Placed, Apart
<1>3. \A y \in Tasks : Somewhere(y, g \ {x}, d, h) <=> Somewhere(y, g, d, h) /\ y # x
  BY DEF Placed, Apart, Somewhere
<1>4. e2[x] = 1 /\ x <= n /\ ~(x > n)
  BY <1>1 DEF Placed, Tasks
<1> QED
  BY <1>1, <1>2, <1>3, <1>4, Zenon DEF Placed

\* DrainLocal(): a task of a deque is run.
LEMMA RunFromLocal ==
    ASSUME NEW g, NEW d, NEW h, NEW e \in [Tasks -> Nat], NEW n \in Nat, Placed(g, d, h, e, n),
           NEW u \in Workers, NEW x \in Tasks, x \in d[u],
           NEW d2, Changes(d, u, d[u] \ {x}, d2),
           NEW e2, e2[x] = e[x] + 1, \A y \in Tasks : y # x => e2[y] = e[y]
    PROVE  Placed(g, d2, h, e2, n)
<1>1. Somewhere(x, g, d, h)
  BY DEF Somewhere
<1>2. Apart(g, d2, h)
  BY DEF Placed, Apart, Changes
<1>3. \A y \in Tasks : Somewhere(y, g, d2, h) <=> Somewhere(y, g, d, h) /\ y # x
  <2>1. x \notin g /\ \A v \in Workers : x \notin h[v] /\ x \notin d2[v]
    BY DEF Placed, Apart, Changes
  <2>2. \A v \in Workers, y \in Tasks : y # x => (y \in d2[v] <=> y \in d[v])
    BY DEF Changes
  <2> QED
    BY <2>1, <2>2, Zenon DEF Somewhere
<1>4. e2[x] = 1 /\ x <= n /\ ~(x > n)
  BY <1>1 DEF Placed, Tasks
<1> QED
  BY <1>1, <1>2, <1>3, <1>4, Zenon DEF Placed
-----------------------------------------------------------------------------
(***************************************************************************)
(* The steps of the pool                                                   *)
(***************************************************************************)
\* Queues and hands with the same tasks in them.
LEMMA NotMoved ==
    ASSUME NEW g, NEW d, NEW h, NEW e, NEW n, Placed(g, d, h, e, n),
           NEW d2, \A v \in Workers : d2[v] = d[v],
           NEW h2, \A v \in Workers : h2[v] = h[v]
    PROVE  Placed(g, d2, h2, e, n)
  BY DEF Placed, Apart, Somewhere

LEMMA WorkersIds == 0 \in Workers /\ \A w \in Workers : w \in Nat /\ w < NumThreads
  BY PoolAssumption DEF Workers

LEMMA HandOf ==
    ASSUME NEW w \in Workers
    PROVE  /\ Holding(w) => Hand[w] = {w_task[w]}
           /\ ~Holding(w) => Hand[w] = {}
           /\ Local[w] = Set(tasksDeque[w])
  BY DEF Hand, Local

LEMMA HandOfNext ==
    ASSUME NEW w \in Workers
    PROVE  /\ Holding(w)' => Hand'[w] = {w_task'[w]}
           /\ ~Holding(w)' => Hand'[w] = {}
           /\ Local'[w] = Set(tasksDeque'[w])
  BY DEF Hand, Local

\* A worker that is not done runs before the destructor has joined it.
LEMMA WorkerLeaving ==
    ASSUME PoolInv, NEW w \in Workers, w_pc[w] # "done",
           UNCHANGED <<running, s_pc, d_pc, d_id>>
    PROVE  Leaving'
<1>1. d_pc \notin {"drain_global", "drain_local", "destroyed"}
  BY DEF PoolInv, Leaving
<1>2. /\ running' <=> d_pc' = "alive"
      /\ d_pc' # "alive" => s_pc' = "ready"
      /\ d_pc' \in {"alive", "join", "drain_global"} => d_id' = 0
  BY Zenon DEF PoolInv, Leaving
<1> QED
  BY <1>1, <1>2, Zenon DEF Leaving

\* CheckRunning(), StealNothing() and the attempts to pop that find nothing: the worker goes
\* on with an empty hand.
LEMMA WorkerGoesOn ==
    ASSUME PoolInv, NEW w \in Workers, ~Holding(w), w_pc[w] # "done",
           NEW pc \in {"loop", "pop", "global", "repop", "steal", "done"},
           Goto(w, pc), w_i' \in [Workers -> Nat],
           UNCHANGED <<queueVars, submitVars, w_task, dtorVars, executed>>
    PROVE  PoolInv'
<1>1. Leaving'
  BY WorkerLeaving, Zenon DEF submitVars, dtorVars
<1>2. \A v \in Workers : Holding(v)' <=> Holding(v)
  BY DEF Holding, Goto, PoolInv, PoolType
<1>3. PoolType'
  <2>1. w_pc' \in [Workers -> {"loop", "pop", "global", "publish", "repop", "steal",
                               "execute", "done"}]
    BY DEF Goto, PoolInv, PoolType
  <2>2. \A v \in Workers : Holding(v)' => w_task'[v] \in Tasks
    BY <1>2, Zenon DEF PoolInv, PoolType
  <2> QED
    BY <2>1, <2>2, Zenon DEF PoolInv, PoolType, queueVars, submitVars, dtorVars
<1>4. Placed(Global, Local', Hand', executed, Queued)
  <2>1. \A v \in Workers : Local'[v] = Local[v]
    BY DEF Local, queueVars
  <2>2. \A v \in Workers : Hand'[v] = Hand[v]
    BY <1>2, HandOf, HandOfNext
  <2>3. Placed(Global, Local, Hand, executed, Queued)
    BY DEF PoolInv
  <2> QED
    BY <2>1, <2>2, <2>3, NotMoved
<1>5. Global' = Global /\ executed' = executed /\ Queued' = Queued
  BY DEF Global, Queued, queueVars, submitVars
<1> QED
  BY <1>1, <1>3, <1>4, <1>5 DEF PoolInv

LEMMA CheckRunningStep ==
    ASSUME PoolInv, NEW w \in Workers, CheckRunning(w)
    PROVE  PoolInv'
<1>1. ~Holding(w) /\ w_pc[w] # "done"
  BY DEF CheckRunning, Holding
<1>2. PICK pc \in {"pop", "done"} : Goto(w, pc)
  BY Zenon DEF CheckRunning
<1>3. w_i' \in [Workers -> Nat]
  BY DEF CheckRunning, PoolInv, PoolType
<1> QED
  BY <1>1, <1>2, <1>3, WorkerGoesOn DEF CheckRunning

LEMMA StealNothingStep ==
    ASSUME PoolInv, NEW w \in Workers, StealNothing(w)
    PROVE  PoolInv'
<1>1. ~Holding(w) /\ w_pc[w] # "done"
  BY DEF StealNothing, Holding
<1>2. PICK pc \in {"steal", "loop"} : Goto(w, pc)
  BY Zenon DEF StealNothing
<1>3. w_i' \in [Workers -> Nat]
  BY DEF StealNothing, PoolInv, PoolType
<1> QED
  BY <1>1, <1>2, <1>3, WorkerGoesOn DEF StealNothing
\* PopOwn() and StealTask() that succeed: x leaves the deque of u, which is left with q, and
\* is in the hand of w.
LEMMA ClaimStep ==
    ASSUME PoolInv, NEW w \in Workers, ~Holding(w), w_pc[w] # "done",
           NEW u \in Workers, NEW x \in Tasks, x \in Set(tasksDeque[u]),
           NEW q \in Seq(Tasks), Distinct(q), Set(q) = Set(tasksDeque[u]) \ {x},
           tasksDeque' = [tasksDeque EXCEPT ![u] = q],
           Hold(w, x), Goto(w, "execute"),
           UNCHANGED <<globalQueue, submitVars, w_i, dtorVars, executed>>
    PROVE  PoolInv'
<1>1. Leaving'
  BY WorkerLeaving, Zenon DEF submitVars, dtorVars
<1>2. /\ w_pc' \in [Workers -> {"loop", "pop", "global", "publish", "repop", "steal",
                                "execute", "done"}]
      /\ w_task' \in [Workers -> Tasks \cup {None}]
      /\ Holding(w)' /\ w_task'[w] = x
      /\ \A v \in Workers : v # w => (Holding(v)' <=> Holding(v)) /\ w_task'[v] = w_task[v]
  BY DEF Goto, Hold, Holding, PoolInv, PoolType
<1>3. /\ tasksDeque' \in [Workers -> Seq(Tasks)]
      /\ \A v \in Workers : tasksDeque'[v] = IF v = u THEN q ELSE tasksDeque[v]
  BY DEF PoolInv, PoolType
<1>4. PoolType'
  <2>1. \A v \in Workers : Distinct(tasksDeque'[v])
    <3>1. \A v \in Workers : Distinct(tasksDeque[v])
      BY DEF PoolInv, PoolType
    <3> QED
      BY <1>3, <3>1, Zenon
  <2>2. \A v \in Workers : Holding(v)' => w_task'[v] \in Tasks
    BY <1>2, Zenon DEF PoolInv, PoolType
  <2> QED
    BY <1>2, <1>3, <2>1, <2>2, Zenon DEF PoolInv, PoolType, submitVars, dtorVars
<1>5. Placed(Global, Local', Hand', executed, Queued)
  <2>1. Hand[w] = {} /\ x \in Local[u]
    BY HandOf
  <2>2. \A v \in Workers : Hand'[v] = IF v = w THEN {x} ELSE Hand[v]
    BY <1>2, HandOf, HandOfNext
  <2>3. \A v \in Workers : Local'[v] = IF v = u THEN Local[v] \ {x} ELSE Local[v]
    BY <1>3, HandOf, HandOfNext
  <2>4. Placed(Global, Local, Hand, executed, Queued)
    BY DEF PoolInv
  <2>5. PICK g, d, h, e, n, d2, h2 : /\ g = Global /\ d = Local /\ h = Hand
                                     /\ e = executed /\ n = Queued
                                     /\ d2 = Local' /\ h2 = Hand'
    OBVIOUS
  <2>6. /\ Placed(g, d, h, e, n) /\ h[w] = {} /\ x \in d[u]
        /\ Changes(h, w, {x}, h2)
        /\ Changes(d, u, d[u] \ {x}, d2)
    BY <2>1, <2>2, <2>3, <2>4, <2>5 DEF Changes
  <2>7. Placed(g, d2, h2, e, n)
    BY <2>6, Claimed
  <2> QED
    BY <2>5, <2>7, Zenon
<1>6. Global' = Global /\ executed' = executed /\ Queued' = Queued
  BY DEF Global, Queued, submitVars
<1> QED
  BY <1>1, <1>4, <1>5, <1>6 DEF PoolInv

LEMMA PopOwnStep ==
    ASSUME PoolInv, NEW w \in Workers, NEW pc \in {"pop", "repop"},
           NEW otherwise \in {"global", "loop"}, PopOwn(w, pc, otherwise)
    PROVE  PoolInv'
<1>1. ~Holding(w) /\ w_pc[w] # "done"
  BY DEF PopOwn, Holding
<1>2. CASE tasksDeque[w] = << >>
  <2>1. Goto(w, otherwise) /\ UNCHANGED <<queueVars, submitVars, w_task, dtorVars, executed>>
    BY <1>2 DEF PopOwn, queueVars
  <2>2. w_i' \in [Workers -> Nat]
    BY DEF PopOwn, PoolInv, PoolType
  <2> QED
    BY <1>1, <2>1, <2>2, WorkerGoesOn
<1>3. CASE tasksDeque[w] # << >>
  <2>1. tasksDeque[w] \in Seq(Tasks) /\ Distinct(tasksDeque[w])
    BY DEF PoolInv, PoolType
  <2>2. PICK q \in Seq(Tasks), x \in Tasks :
           /\ q = Front(tasksDeque[w]) /\ x = Last(tasksDeque[w])
           /\ Distinct(q) /\ x \in Set(tasksDeque[w]) /\ Set(q) = Set(tasksDeque[w]) \ {x}
    BY <1>3, <2>1, FrontSet, Zenon
  <2>3. /\ tasksDeque' = [tasksDeque EXCEPT ![w] = q] /\ Hold(w, x) /\ Goto(w, "execute")
        /\ UNCHANGED <<globalQueue, submitVars, w_i, dtorVars, executed>>
    BY <1>3, <2>2, Zenon DEF PopOwn
  <2> QED
    BY <1>1, <2>2, <2>3, ClaimStep
<1> QED
  BY <1>2, <1>3

LEMMA StealTaskStep ==
    ASSUME PoolInv, NEW w \in Workers, StealTask(w)
    PROVE  PoolInv'
<1>1. ~Holding(w) /\ w_pc[w] # "done"
  BY DEF StealTask, Holding
<1>2. PICK u \in Workers : u = Victim(w)
  <2>1. w + w_i[w] \in Int
    BY WorkersIds DEF PoolInv, PoolType
  <2>2. Victim(w) \in Workers
    BY <2>1, PoolAssumption DEF Victim, Workers
  <2> QED
    BY <2>2
<1>3. tasksDeque[u] \in Seq(Tasks) /\ Distinct(tasksDeque[u])
  BY DEF PoolInv, PoolType
<1>4. tasksDeque[u] # << >>
  BY <1>2 DEF StealTask
<1>5. PICK q \in Seq(Tasks), x \in Tasks :
         /\ q = Tail(tasksDeque[u]) /\ x = Head(tasksDeque[u])
         /\ Distinct(q) /\ x \in Set(tasksDeque[u]) /\ Set(q) = Set(tasksDeque[u]) \ {x}
  BY <1>3, <1>4, TailSet, Zenon
<1>6. /\ tasksDeque' = [tasksDeque EXCEPT ![u] = q] /\ Hold(w, x) /\ Goto(w, "execute")
      /\ UNCHANGED <<globalQueue, submitVars, w_i, dtorVars, executed>>
  BY <1>2, <1>5, Zenon DEF StealTask
<1> QED
  BY <1>1, <1>5, <1>6, ClaimStep

LEMMA PopGlobalStep ==
    ASSUME PoolInv, NEW w \in Workers, PopGlobal(w)
    PROVE  PoolInv'
<1>1. ~Holding(w) /\ w_pc[w] # "done"
  BY DEF PopGlobal, Holding
<1>2. CASE globalQueue = << >>
  <2>1. Goto(w, "steal") /\ UNCHANGED <<queueVars, submitVars, w_task, dtorVars, executed>>
    BY <1>2 DEF PopGlobal, queueVars
  <2>2. w_i' \in [Workers -> Nat]
    <3>1. w_i' = [w_i EXCEPT ![w] = 1] /\ w_i \in [Workers -> Nat]
      BY <1>2, Zenon DEF PopGlobal, PoolInv, PoolType
    <3> QED
      BY <3>1
  <2> QED
    BY <1>1, <2>1, <2>2, WorkerGoesOn
<1>3. CASE globalQueue # << >>
  <2>1. globalQueue \in Seq(Tasks) /\ Distinct(globalQueue)
    BY DEF PoolInv, PoolType
  <2>2. PICK q \in Seq(Tasks), x \in Tasks :
           /\ q = Tail(globalQueue) /\ x = Head(globalQueue)
           /\ Distinct(q) /\ x \in Set(globalQueue) /\ Set(q) = Set(globalQueue) \ {x}
    BY <1>3, <2>1, TailSet, Zenon
  <2>3. /\ globalQueue' = q /\ Hold(w, x) /\ Goto(w, "publish")
        /\ UNCHANGED <<tasksDeque, submitVars, w_i, dtorVars, executed>>
    BY <1>3, <2>2, Zenon DEF PopGlobal
  <2>4. Leaving'
    BY <1>1, <2>3, WorkerLeaving, Zenon DEF submitVars, dtorVars
  <2>5. /\ w_pc' \in [Workers -> {"loop", "pop", "global", "publish", "repop", "steal",
                                  "execute", "done"}]
        /\ w_task' \in [Workers -> Tasks \cup {None}]
        /\ Holding(w)' /\ w_task'[w] = x
        /\ \A v \in Workers : v # w => (Holding(v)' <=> Holding(v)) /\ w_task'[v] = w_task[v]
    BY <2>3 DEF Goto, Hold, Holding, PoolInv, PoolType
  <2>6. PoolType'
    <3>1. \A v \in Workers : Holding(v)' => w_task'[v] \in Tasks
      BY <2>5, Zenon DEF PoolInv, PoolType
    <3> QED
      BY <2>2, <2>3, <2>5, <3>1, Zenon DEF PoolInv, PoolType, submitVars, dtorVars
  <2>7. Placed(Global \ {x}, Local, Hand', executed, Queued)
    <3>1. Hand[w] = {} /\ x \in Global
      BY <1>1, <2>2, HandOf DEF Global
    <3>2. \A v \in Workers : Hand'[v] = IF v = w THEN {x} ELSE Hand[v]
      BY <2>5, HandOf, HandOfNext
    <3>3. Placed(Global, Local, Hand, executed, Queued)
      BY DEF PoolInv
    <3> QED
      BY <3>1, <3>2, <3>3, Taken
  <2>8. /\ Global' = Global \ {x} /\ Local' = Local
        /\ executed' = executed /\ Queued' = Queued
    BY <2>2, <2>3 DEF Global, Local, Queued, submitVars
  <2> QED
    BY <2>4, <2>6, <2>7, <2>8 DEF PoolInv
<1> QED
  BY <1>2, <1>3
LEMMA PublishStep ==
    ASSUME PoolInv, NEW w \in Workers, Publish(w)
    PROVE  PoolInv'
<1>1. Holding(w) /\ w_pc[w] # "done" /\ w_task[w] \in Tasks
  BY DEF Publish, Holding, PoolInv, PoolType
<1>2. /\ UNCHANGED <<globalQueue, submitVars, w_i, dtorVars, executed>>
      /\ Global' = Global /\ executed' = executed /\ Queued' = Queued
  BY DEF Publish, Global, Queued, submitVars
<1>3. Leaving'
  BY <1>1, <1>2, WorkerLeaving, Zenon DEF submitVars, dtorVars
<1>4. Placed(Global, Local, Hand, executed, Queued)
  BY DEF PoolInv
<1>5. CASE Len(tasksDeque[w]) < LocalCapacity
  <2>1. PICK x \in Tasks : x = w_task[w]
    BY <1>1
  <2>2. Hand[w] = {x} /\ x \notin Set(tasksDeque[w])
    BY <1>1, <1>4, <2>1, HandOf DEF Placed, Apart
  <2>3. tasksDeque[w] \in Seq(Tasks) /\ Distinct(tasksDeque[w])
    BY DEF PoolInv, PoolType
  <2>4. PICK q \in Seq(Tasks) :
           /\ q = Append(tasksDeque[w], x)
           /\ Distinct(q) /\ Set(q) = Set(tasksDeque[w]) \cup {x}
    BY <2>2, <2>3, AppendSet, Zenon
  <2>5. /\ tasksDeque' = [tasksDeque EXCEPT ![w] = q]
        /\ Hold(w, None) /\ Goto(w, "repop")
    BY <1>5, <2>1, <2>4, Zenon DEF Publish
  <2>6. /\ w_pc' \in [Workers -> {"loop", "pop", "global", "publish", "repop", "steal",
                                  "execute", "done"}]
        /\ w_task' \in [Workers -> Tasks \cup {None}]
        /\ ~Holding(w)'
        /\ \A v \in Workers : v # w => (Holding(v)' <=> Holding(v)) /\ w_task'[v] = w_task[v]
    BY <2>5 DEF Goto, Hold, Holding, PoolInv, PoolType
  <2>7. /\ tasksDeque' \in [Workers -> Seq(Tasks)]
        /\ \A v \in Workers : tasksDeque'[v] = IF v = w THEN q ELSE tasksDeque[v]
    BY <2>5 DEF PoolInv, PoolType
  <2>8. PoolType'
    <3>1. \A v \in Workers : Distinct(tasksDeque'[v])
      <4>1. \A v \in Workers : Distinct(tasksDeque[v])
        BY DEF PoolInv, PoolType
      <4> QED
        BY <2>4, <2>7, <4>1, Zenon
    <3>2. \A v \in Workers : Holding(v)' => w_task'[v] \in Tasks
      BY <2>6, Zenon DEF PoolInv, PoolType
    <3> QED
      BY <1>2, <2>6, <2>7, <3>1, <3>2, Zenon DEF PoolInv, PoolType, submitVars, dtorVars
  <2>9. Placed(Global, Local', Hand', executed, Queued)
    <3>1. \A v \in Workers : Hand'[v] = IF v = w THEN {} ELSE Hand[v]
      BY <2>6, HandOf, HandOfNext
    <3>2. \A v \in Workers : Local'[v] = IF v = w THEN Local[v] \cup {x} ELSE Local[v]
      BY <2>4, <2>7, HandOf, HandOfNext
    <3>3. PICK g, d, h, e, n, d2, h2 : /\ g = Global /\ d = Local /\ h = Hand
                                       /\ e = executed /\ n = Queued
                                       /\ d2 = Local' /\ h2 = Hand'
      OBVIOUS
    <3>4. /\ Placed(g, d, h, e, n) /\ h[w] = {x}
          /\ Changes(h, w, {}, h2)
          /\ Changes(d, w, d[w] \cup {x}, d2)
      BY <1>4, <2>2, <3>1, <3>2, <3>3 DEF Changes
    <3>5. Placed(g, d2, h2, e, n)
      BY <3>4, Published
    <3> QED
      BY <3>3, <3>5, Zenon
  <2> QED
    BY <1>2, <1>3, <2>8, <2>9 DEF PoolInv
<1>6. CASE ~(Len(tasksDeque[w]) < LocalCapacity)
  <2>1. Goto(w, "execute") /\ UNCHANGED <<tasksDeque, w_task>>
    BY <1>6, Zenon DEF Publish
  <2>2. /\ w_pc' \in [Workers -> {"loop", "pop", "global", "publish", "repop", "steal",
                                  "execute", "done"}]
        /\ \A v \in Workers : Holding(v)' <=> Holding(v)
    BY <1>1, <2>1 DEF Goto, Holding, PoolInv, PoolType
  <2>3. PoolType'
    <3>1. \A v \in Workers : Holding(v)' => w_task'[v] \in Tasks
      BY <2>1, <2>2, Zenon DEF PoolInv, PoolType
    <3> QED
      BY <1>2, <2>1, <2>2, <3>1, Zenon DEF PoolInv, PoolType, submitVars, dtorVars
  <2>4. Placed(Global, Local', Hand', executed, Queued)
    <3>1. \A v \in Workers : Local'[v] = Local[v]
      BY <2>1 DEF Local
    <3>2. \A v \in Workers : Hand'[v] = Hand[v]
      BY <2>1, <2>2, HandOf, HandOfNext
    <3> QED
      BY <1>4, <3>1, <3>2, NotMoved
  <2> QED
    BY <1>2, <1>3, <2>3, <2>4 DEF PoolInv
<1> QED
  BY <1>5, <1>6

\* One more task was run.
LEMMA ExecuteTask ==
    ASSUME executed \in [Tasks -> Nat], NEW x \in Tasks, executeTask(x)
    PROVE  /\ executed' \in [Tasks -> Nat] /\ executed'[x] = executed[x] + 1
           /\ \A y \in Tasks : y # x => executed'[y] = executed[y]
  BY DEF executeTask

LEMMA QueuedType ==
    ASSUME PoolInv
    PROVE  Queued \in Nat
  BY DEF PoolInv, PoolType, Queued

LEMMA ExecuteStep ==
    ASSUME PoolInv, NEW w \in Workers, Execute(w)
    PROVE  PoolInv'
<1>1. Holding(w) /\ w_pc[w] # "done"
  BY DEF Execute, Holding
<1>2. PICK x \in Tasks : x = w_task[w]
  BY <1>1 DEF PoolInv, PoolType
<1>3. /\ executeTask(x) /\ Hold(w, None) /\ Goto(w, "loop")
      /\ UNCHANGED <<queueVars, submitVars, w_i, dtorVars>>
  BY <1>2, Zenon DEF Execute
<1>4. Leaving'
  BY <1>1, <1>3, WorkerLeaving, Zenon DEF submitVars, dtorVars
<1>5. /\ w_pc' \in [Workers -> {"loop", "pop", "global", "publish", "repop", "steal",
                                "execute", "done"}]
      /\ w_task' \in [Workers -> Tasks \cup {None}]
      /\ ~Holding(w)'
      /\ \A v \in Workers : v # w => (Holding(v)' <=> Holding(v)) /\ w_task'[v] = w_task[v]
  BY <1>3 DEF Goto, Hold, Holding, PoolInv, PoolType
<1>6. /\ executed \in [Tasks -> Nat]
      /\ executed' \in [Tasks -> Nat] /\ executed'[x] = executed[x] + 1
      /\ \A y \in Tasks : y # x => executed'[y] = executed[y]
  BY <1>3, ExecuteTask DEF PoolInv, PoolType
<1>7. PoolType'
  <2>1. \A v \in Workers : Holding(v)' => w_task'[v] \in Tasks
    BY <1>5, Zenon DEF PoolInv, PoolType
  <2> QED
    BY <1>3, <1>5, <1>6, <2>1, Zenon DEF PoolInv, PoolType, queueVars, submitVars, dtorVars
<1>8. Placed(Global, Local, Hand', executed', Queued)
  <2>1. Hand[w] = {x}
    BY <1>1, <1>2, HandOf
  <2>2. \A v \in Workers : Hand'[v] = IF v = w THEN {} ELSE Hand[v]
    BY <1>5, HandOf, HandOfNext
  <2>3. Placed(Global, Local, Hand, executed, Queued)
    BY DEF PoolInv
  <2>4. Queued \in Nat
    BY QueuedType
  <2>5. PICK g, d, h, e, n, h2, e2 : /\ g = Global /\ d = Local /\ h = Hand
                                     /\ e = executed /\ n = Queued
                                     /\ h2 = Hand' /\ e2 = executed'
    OBVIOUS
  <2>6. /\ Placed(g, d, h, e, n) /\ n \in Nat /\ e \in [Tasks -> Nat] /\ h[w] = {x}
        /\ \A v \in Workers : h2[v] = IF v = w THEN {} ELSE h[v]
        /\ e2[x] = e[x] + 1 /\ \A y \in Tasks : y # x => e2[y] = e[y]
    BY <1>6, <2>1, <2>2, <2>3, <2>4, <2>5, Zenon
  <2>7. Placed(g, d, h2, e2, n)
    BY <2>6, RunFromHand
  <2> QED
    BY <2>5, <2>7, Zenon
<1>9. Global' = Global /\ Local' = Local /\ Queued' = Queued
  BY <1>3 DEF Global, Local, Queued, queueVars, submitVars
<1> QED
  BY <1>4, <1>7, <1>8, <1>9 DEF PoolInv

LEMMA WorkerStep ==
    ASSUME PoolInv, NEW w \in Workers, workerLoop(w)
    PROVE  PoolInv'
<1>1. CASE PopLocal(w)
  BY <1>1, PopOwnStep DEF PopLocal
<1>2. CASE PopAgain(w)
  BY <1>2, PopOwnStep DEF PopAgain
<1> QED
  BY <1>1, <1>2, CheckRunningStep, PopGlobalStep, PublishStep, StealNothingStep,
     StealTaskStep, ExecuteStep DEF workerLoop

-----------------------------------------------------------------------------
LEMMA SubmitStartStep ==
    ASSUME PoolInv, SubmitStart
    PROVE  PoolInv'
<1>1. PoolType'
  <2>1. submitted' \in 0 .. MaxTasks /\ submitted' > 0 /\ s_pc' = "push"
    BY PoolAssumption DEF SubmitStart, PoolInv, PoolType
  <2> QED
    BY <2>1, Zenon DEF SubmitStart, PoolInv, PoolType, Holding, queueVars, workerVars, dtorVars
<1>2. Leaving'
  <2>1. d_pc = "alive" /\ d_pc' = "alive" /\ running' = running /\ d_id' = d_id
    BY DEF SubmitStart, dtorVars
  <2> QED
    BY <2>1, Zenon DEF PoolInv, Leaving
<1>3. Queued' = Queued
  BY DEF SubmitStart, Queued, PoolInv, PoolType
<1>4. Global' = Global /\ Local' = Local /\ Hand' = Hand /\ executed' = executed
  BY DEF SubmitStart, Global, Local, Hand, Holding, queueVars, workerVars
<1> QED
  BY <1>1, <1>2, <1>3, <1>4 DEF PoolInv

\* submit() is never turned away: the pool is not shut down while it runs.
LEMMA SubmitPushStep ==
    ASSUME PoolInv, SubmitPush
    PROVE  PoolInv'
<1>1. Len(globalQueue) < GlobalCapacity /\ d_pc = "alive"
  BY DEF SubmitPush, PoolInv, PoolType, Leaving
<1>2. PICK n \in Nat : n = Queued
  BY QueuedType
<1>3. n + 1 = submitted /\ n + 1 \in Tasks
  BY <1>2 DEF SubmitPush, PoolInv, PoolType, Queued, Tasks
<1>4. Placed(Global, Local, Hand, executed, n)
  BY <1>2 DEF PoolInv
<1>5. /\ n + 1 \notin Global
      /\ Placed(Global \cup {n + 1}, Local, Hand, executed, n + 1)
  BY <1>3, <1>4, Entered
<1>6. PICK q \in Seq(Tasks) :
         /\ q = Append(globalQueue, n + 1) /\ Distinct(q) /\ Set(q) = Global \cup {n + 1}
  <2>1. globalQueue \in Seq(Tasks) /\ Distinct(globalQueue) /\ n + 1 \notin Set(globalQueue)
    BY <1>5 DEF PoolInv, PoolType, Global
  <2> QED
    BY <1>3, <2>1, AppendSet, Zenon DEF Global
<1>7. /\ globalQueue' = q /\ s_pc' = "ready"
      /\ UNCHANGED <<tasksDeque, submitted, workerVars, dtorVars, executed>>
  BY <1>1, <1>3, <1>6, Zenon DEF SubmitPush
<1>8. PoolType'
  BY <1>6, <1>7, Zenon DEF PoolInv, PoolType, Holding, workerVars, dtorVars
<1>9. Leaving'
  <2>1. d_pc' = "alive" /\ running' = running /\ d_id' = d_id
    BY <1>1, <1>7 DEF dtorVars
  <2> QED
    BY <1>1, <1>7, <2>1, Zenon DEF PoolInv, Leaving
<1>10. /\ Global' = Global \cup {n + 1} /\ Local' = Local /\ Hand' = Hand
       /\ executed' = executed /\ Queued' = n + 1
  BY <1>3, <1>6, <1>7 DEF Global, Local, Hand, Holding, Queued, workerVars
<1> QED
  BY <1>5, <1>8, <1>9, <1>10 DEF PoolInv

LEMMA RequestStopStep ==
    ASSUME PoolInv, RequestStop
    PROVE  PoolInv'
<1>1. PoolType'
  BY Zenon DEF RequestStop, PoolInv, PoolType, Holding, queueVars, submitVars, workerVars
<1>2. Leaving'
  <2>1. d_id = 0 /\ d_id' = d_id /\ s_pc' = s_pc /\ s_pc = "ready"
        /\ running' = FALSE /\ d_pc' = "join"
    BY DEF RequestStop, PoolInv, Leaving, submitVars
  <2> QED
    BY <2>1 DEF Leaving
<1>3. /\ Global' = Global /\ Local' = Local /\ Hand' = Hand
      /\ executed' = executed /\ Queued' = Queued
  BY DEF RequestStop, Global, Local, Hand, Holding, Queued, queueVars, submitVars, workerVars
<1> QED
  BY <1>1, <1>2, <1>3 DEF PoolInv

LEMMA JoinWorkersStep ==
    ASSUME PoolInv, JoinWorkers
    PROVE  PoolInv'
<1>1. PoolType'
  BY Zenon DEF JoinWorkers, PoolInv, PoolType, Holding, queueVars, submitVars, workerVars
<1>2. Leaving'
  <2>1. /\ d_id = 0 /\ d_id' = d_id /\ s_pc' = s_pc /\ s_pc = "ready"
        /\ running' = running /\ ~running /\ d_pc' = "drain_global" /\ w_pc' = w_pc
        /\ \A w \in Workers : w_pc[w] = "done"
    BY DEF JoinWorkers, PoolInv, Leaving, submitVars, workerVars
  <2> QED
    BY <2>1 DEF Leaving
<1>3. /\ Global' = Global /\ Local' = Local /\ Hand' = Hand
      /\ executed' = executed /\ Queued' = Queued
  BY DEF JoinWorkers, Global, Local, Hand, Holding, Queued, queueVars, submitVars, workerVars
<1> QED
  BY <1>1, <1>2, <1>3 DEF PoolInv
-----------------------------------------------------------------------------
\* Once the workers are joined no hand holds a task, and no worker moves.
LEMMA DrainGlobalStep ==
    ASSUME PoolInv, DrainGlobal
    PROVE  PoolInv'
<1>1. /\ d_pc = "drain_global"
      /\ UNCHANGED <<tasksDeque, submitVars, workerVars, running, d_id>>
      /\ Local' = Local /\ Hand' = Hand /\ Queued' = Queued
  BY DEF DrainGlobal, Local, Hand, Holding, Queued, submitVars, workerVars
<1>2. Placed(Global, Local, Hand, executed, Queued)
  BY DEF PoolInv
<1>3. CASE globalQueue = << >>
  <2>1. d_pc' = "drain_local" /\ globalQueue' = globalQueue /\ executed' = executed
    BY <1>3, Zenon DEF DrainGlobal
  <2>2. PoolType'
    BY <1>1, <2>1, Zenon DEF PoolInv, PoolType, Holding, submitVars, workerVars
  <2>3. Leaving'
    <3>1. /\ ~running /\ running' = running /\ s_pc = "ready" /\ s_pc' = s_pc
          /\ \A w \in Workers : w_pc[w] = "done"
          /\ w_pc' = w_pc /\ d_id' = 0
      BY <1>1 DEF PoolInv, Leaving, submitVars, workerVars
    <3>2. \A w \in Workers : ~(w < d_id')
      BY <3>1, WorkersIds
    <3> QED
      BY <1>3, <2>1, <3>1, <3>2 DEF Leaving
  <2>4. Global' = Global
    BY <2>1 DEF Global
  <2> QED
    BY <1>1, <1>2, <2>1, <2>2, <2>3, <2>4 DEF PoolInv
<1>4. CASE globalQueue # << >>
  <2>1. globalQueue \in Seq(Tasks) /\ Distinct(globalQueue)
    BY DEF PoolInv, PoolType
  <2>2. PICK q \in Seq(Tasks), x \in Tasks :
           /\ q = Tail(globalQueue) /\ x = Head(globalQueue)
           /\ Distinct(q) /\ x \in Set(globalQueue) /\ Set(q) = Set(globalQueue) \ {x}
    BY <1>4, <2>1, TailSet, Zenon
  <2>3. executeTask(x) /\ globalQueue' = q /\ d_pc' = d_pc
    BY <1>4, <2>2, Zenon DEF DrainGlobal
  <2>4. /\ executed \in [Tasks -> Nat]
        /\ executed' \in [Tasks -> Nat] /\ executed'[x] = executed[x] + 1
        /\ \A y \in Tasks : y # x => executed'[y] = executed[y]
    BY <2>3, ExecuteTask DEF PoolInv, PoolType
  <2>5. PoolType'
    BY <1>1, <2>2, <2>3, <2>4, Zenon DEF PoolInv, PoolType, Holding, submitVars, workerVars
  <2>6. Leaving'
    <3>1. /\ ~running /\ running' = running /\ s_pc = "ready" /\ s_pc' = s_pc
          /\ \A w \in Workers : w_pc[w] = "done"
          /\ w_pc' = w_pc /\ d_id' = 0 /\ d_pc' = "drain_global"
      BY <1>1, <2>3 DEF PoolInv, Leaving, submitVars, workerVars
    <3> QED
      BY <3>1 DEF Leaving
  <2>7. Placed(Global \ {x}, Local, Hand, executed', Queued)
    <3>1. x \in Global
      BY <2>2 DEF Global
    <3>2. PICK g, d, h, e, n, e2 : /\ g = Global /\ d = Local /\ h = Hand
                                   /\ e = executed /\ n = Queued /\ e2 = executed'
      OBVIOUS
    <3>3. /\ Placed(g, d, h, e, n) /\ n \in Nat /\ e \in [Tasks -> Nat] /\ x \in g
          /\ e2[x] = e[x] + 1 /\ \A y \in Tasks : y # x => e2[y] = e[y]
      BY <1>2, <2>4, <3>1, <3>2, QueuedType, Zenon
    <3>4. Placed(g \ {x}, d, h, e2, n)
      BY <3>3, RunFromGlobal
    <3> QED
      BY <3>2, <3>4, Zenon
  <2>8. Global' = Global \ {x}
    BY <2>2, <2>3 DEF Global
  <2> QED
    BY <1>1, <2>5, <2>6, <2>7, <2>8 DEF PoolInv
<1> QED
  BY <1>3, <1>4

LEMMA DrainLocalStep ==
    ASSUME PoolInv, DrainLocal
    PROVE  PoolInv'
<1>1. /\ d_pc = "drain_local"
      /\ UNCHANGED <<globalQueue, submitVars, workerVars, running>>
      /\ Global' = Global /\ Hand' = Hand /\ Queued' = Queued
  BY DEF DrainLocal, Global, Hand, Holding, Queued, submitVars, workerVars
<1>2. Placed(Global, Local, Hand, executed, Queued)
  BY DEF PoolInv
<1>3. /\ ~running /\ running' = running /\ s_pc = "ready" /\ s_pc' = s_pc
      /\ \A w \in Workers : w_pc[w] = "done"
      /\ w_pc' = w_pc /\ globalQueue' = << >>
      /\ \A w \in Workers : w < d_id => tasksDeque[w] = << >>
  BY <1>1 DEF PoolInv, Leaving, submitVars, workerVars
<1>4. d_id \in Workers
  BY DEF PoolInv, PoolType
<1>5. CASE tasksDeque[d_id] = << >>
  <2>1. /\ d_id' = IF d_id + 1 < NumThreads THEN d_id + 1 ELSE d_id
        /\ d_pc' = IF d_id + 1 < NumThreads THEN d_pc ELSE "destroyed"
        /\ tasksDeque' = tasksDeque /\ executed' = executed
    BY <1>5, Zenon DEF DrainLocal
  <2>2. d_id' \in Workers
    BY <1>4, <2>1, PoolAssumption DEF Workers
  <2>3. d_pc' \in {"drain_local", "destroyed"}
    BY <1>1, <2>1
  <2>4. PoolType'
    BY <1>1, <2>1, <2>2, <2>3, Zenon DEF PoolInv, PoolType, Holding, submitVars, workerVars
  <2>5. Leaving'
    <3>1. d_pc' = "drain_local" => \A w \in Workers : w < d_id' => tasksDeque[w] = << >>
      <4>1. ASSUME d_pc' = "drain_local", NEW w \in Workers, w < d_id'
            PROVE  w < d_id \/ w = d_id
        BY <1>4, <2>1, <4>1 DEF Workers
      <4> QED
        BY <1>3, <1>5, <4>1
    <3>2. d_pc' = "destroyed" => \A w \in Workers : tasksDeque[w] = << >>
      <4>1. ASSUME d_pc' = "destroyed", NEW w \in Workers
            PROVE  w < d_id \/ w = d_id
        BY <1>1, <1>4, <2>1, <4>1, PoolAssumption DEF Workers
      <4> QED
        BY <1>3, <1>5, <4>1
    <3> QED
      BY <1>3, <2>1, <2>3, <3>1, <3>2 DEF Leaving
  <2>6. Local' = Local
    BY <2>1 DEF Local
  <2> QED
    BY <1>1, <1>2, <2>1, <2>4, <2>5, <2>6 DEF PoolInv
<1>6. CASE tasksDeque[d_id] # << >>
  <2>1. tasksDeque[d_id] \in Seq(Tasks) /\ Distinct(tasksDeque[d_id])
    BY <1>4 DEF PoolInv, PoolType
  <2>2. PICK q \in Seq(Tasks), x \in Tasks :
           /\ q = Front(tasksDeque[d_id]) /\ x = Last(tasksDeque[d_id])
           /\ Distinct(q) /\ x \in Set(tasksDeque[d_id])
           /\ Set(q) = Set(tasksDeque[d_id]) \ {x}
    BY <1>6, <2>1, FrontSet, Zenon
  <2>3. /\ executeTask(x) /\ tasksDeque' = [tasksDeque EXCEPT ![d_id] = q]
        /\ d_pc' = d_pc /\ d_id' = d_id
    BY <1>6, <2>2, Zenon DEF DrainLocal
  <2>4. /\ executed \in [Tasks -> Nat]
        /\ executed' \in [Tasks -> Nat] /\ executed'[x] = executed[x] + 1
        /\ \A y \in Tasks : y # x => executed'[y] = executed[y]
    BY <2>3, ExecuteTask DEF PoolInv, PoolType
  <2>5. /\ tasksDeque' \in [Workers -> Seq(Tasks)]
        /\ \A v \in Workers : tasksDeque'[v] = IF v = d_id THEN q ELSE tasksDeque[v]
    BY <2>3 DEF PoolInv, PoolType
  <2>6. PoolType'
    <3>1. \A v \in Workers : Distinct(tasksDeque'[v])
      <4>1. \A v \in Workers : Distinct(tasksDeque[v])
        BY DEF PoolInv, PoolType
      <4> QED
        BY <2>2, <2>5, <4>1, Zenon
    <3> QED
      BY <1>1, <2>3, <2>4, <2>5, <3>1, Zenon
      DEF PoolInv, PoolType, Holding, submitVars, workerVars
  <2>7. Leaving'
    <3>1. d_pc' = "drain_local"
      BY <1>1, <2>3
    <3>2. \A w \in Workers : w < d_id => w # d_id
      BY <1>4, WorkersIds
    <3>3. \A w \in Workers : w < d_id' => tasksDeque'[w] = << >>
      BY <1>3, <2>3, <2>5, <3>2, Zenon
    <3> QED
      BY <1>3, <3>1, <3>3 DEF Leaving
  <2>8. Placed(Global, Local', Hand, executed', Queued)
    <3>1. x \in Local[d_id]
      BY <1>4, <2>2, HandOf
    <3>2. \A v \in Workers : Local'[v] = IF v = d_id THEN Local[v] \ {x} ELSE Local[v]
      BY <2>2, <2>5, HandOf, HandOfNext
    <3>3. PICK g, d, h, e, n, u, d2, e2 :
             /\ g = Global /\ d = Local /\ h = Hand /\ e = executed /\ n = Queued
             /\ u = d_id /\ d2 = Local' /\ e2 = executed'
      OBVIOUS
    <3>4. /\ Placed(g, d, h, e, n) /\ n \in Nat /\ e \in [Tasks -> Nat]
          /\ u \in Workers /\ x \in d[u]
          /\ Changes(d, u, d[u] \ {x}, d2)
          /\ e2[x] = e[x] + 1 /\ \A y \in Tasks : y # x => e2[y] = e[y]
      BY <1>2, <1>4, <2>4, <3>1, <3>2, <3>3, QueuedType DEF Changes
    <3>5. Placed(g, d2, h, e2, n)
      BY <3>4, RunFromLocal
    <3> QED
      BY <3>3, <3>5, Zenon
  <2> QED
    BY <1>1, <2>6, <2>7, <2>8 DEF PoolInv
<1> QED
  BY <1>5, <1>6

-----------------------------------------------------------------------------
LEMMA PoolInit == Init => PoolInv
<1> SUFFICES ASSUME Init PROVE PoolInv
  OBVIOUS
<1>1. \A w \in Workers : w_pc[w] = "loop" /\ ~Holding(w) /\ tasksDeque[w] = << >>
  BY DEF Init, Holding
<1>2. << >> \in Seq(Tasks) /\ Distinct(<< >>) /\ Set(<< >>) = {}
  BY DEF Distinct, Set
<1>3. PoolType
  <2>1. /\ globalQueue \in Seq(Tasks) /\ Distinct(globalQueue)
        /\ tasksDeque \in [Workers -> Seq(Tasks)]
        /\ \A w \in Workers : Distinct(tasksDeque[w])
    BY <1>1, <1>2 DEF Init
  <2>2. /\ running \in BOOLEAN /\ submitted \in 0 .. MaxTasks /\ s_pc = "ready"
        /\ d_pc = "alive" /\ d_id \in Workers
    BY WorkersIds, PoolAssumption DEF Init
  <2>3. /\ w_pc \in [Workers -> {"loop", "pop", "global", "publish", "repop", "steal",
                                 "execute", "done"}]
        /\ w_task \in [Workers -> Tasks \cup {None}] /\ w_i \in [Workers -> Nat]
        /\ executed \in [Tasks -> Nat]
    BY DEF Init
  <2> QED
    BY <1>1, <2>1, <2>2, <2>3 DEF PoolType
<1>4. Leaving
  BY DEF Init, Leaving
<1>5. Placed(Global, Local, Hand, executed, Queued)
  <2>1. Global = {} /\ \A w \in Workers : Local[w] = {} /\ Hand[w] = {}
    BY <1>1, <1>2, HandOf DEF Global, Init
  <2>2. Queued = 0 /\ \A x \in Tasks : executed[x] = 0
    BY DEF Init, Queued
  <2>3. \A x \in Tasks : ~(x <= 0)
    BY PoolAssumption DEF Tasks
  <2> QED
    BY <2>1, <2>2, <2>3 DEF Placed, Apart, Somewhere
<1> QED
  BY <1>3, <1>4, <1>5 DEF PoolInv

LEMMA PoolStutters ==
    ASSUME PoolInv, UNCHANGED vars
    PROVE  PoolInv'
  BY DEF PoolInv, PoolType, Leaving, Placed, Global, Local, Hand, Holding, Queued,
     vars, queueVars, submitVars, workerVars, dtorVars

LEMMA PoolNext == PoolInv /\ [Next]_vars => PoolInv'
<1> SUFFICES ASSUME PoolInv, [Next]_vars PROVE PoolInv'
  OBVIOUS
<1> QED
  BY SubmitStartStep, SubmitPushStep, WorkerStep, RequestStopStep, JoinWorkersStep,
     DrainGlobalStep, DrainLocalStep, PoolStutters DEF Next, submit, Destructor

\* Where the tasks are (WorkerPool.hpp, submit(), workerLoop() and the destructor): every
\* task submitted is in exactly one place or was run exactly once, at any time.
THEOREM PoolInvariance == Spec => []PoolInv
  BY PoolInit, PoolNext, PTL DEF Spec

\* When the destructor has returned every task submitted was run exactly once, by a worker
\* or by the destructor (WorkerPool.hpp, ~WorkerPool()).
THEOREM NothingIsLost == Spec => []NothingLeftBehind
<1>1. PoolInv => NothingLeftBehind
  <2> SUFFICES ASSUME PoolInv, d_pc = "destroyed", NEW x \in 1 .. submitted
               PROVE  executed[x] = 1
    BY DEF NothingLeftBehind
  <2>1. x \in Tasks /\ Queued = submitted /\ x <= Queued
    BY PoolAssumption DEF PoolInv, PoolType, Leaving, Queued, Tasks
  <2>2. \A w \in Workers : ~Holding(w) /\ tasksDeque[w] = << >>
    BY DEF PoolInv, Leaving, Holding
  <2>3. Global = {} /\ \A w \in Workers : Local[w] = {} /\ Hand[w] = {}
    <3>1. Set(<< >>) = {}
      BY DEF Set
    <3>2. globalQueue = << >>
      BY DEF PoolInv, Leaving
    <3> QED
      BY <2>2, <3>1, <3>2, HandOf DEF Global
  <2> QED
    BY <2>1, <2>3 DEF PoolInv, Placed, Somewhere
<1> QED
  BY <1>1, PoolInvariance, PTL
=============================================================================
