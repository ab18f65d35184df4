# A TLA+ model of the exchange in CPP-Projects

The repository holds one large program, `mdh/` (an exchange, its market data and
a trading client), and several small ones (two thread pools, an earlier limit
order book, re-implementations of library types). This directory holds TLA+
modules that model the exchange from its sockets to its book, its market data, the
trading client, the two thread pools and the earlier order book, TLC configurations that check them on small instances, and
proofs that hold for every size.

Paths below are relative to `src/`.

## 1. Inventory

### How the parts interact

```
 client --TCP--> OrderEntryGateway --submit--> MatchingPipeline
                   (reader threads)   (sequencer, SpscQueue)
                                             | matching thread
                                             v
                                   RiskGatedEngine::process
                                     RiskEngine::check  <---- reads ---+
                                             v                         |
                                   MatchingEngine::process             |
                                     MatchingBook (per instrument)     |
                                             | events, synchronously   |
                     +-----------------------+------------------+      |
                     v                       v                  v      |
                  gateway             market data publisher   Ledger --+
             (writer threads)          (DroppingQueue, UDP)
                     |                       |
                     v                       v
        OrderManagementSystem      sequence tracking, book replica, replay
        positions, trader risk, strategies
```

Everything from `RiskGatedEngine` to `Ledger` runs on the matching thread; the
queue between `submit()` and that thread is the only thing the two share.

### Components

| component | state | operations | what is hard | what makes it correct |
|---|---|---|---|---|
| Matching book, `mdh/…/matching_book` | slab of orders with a free list, FIFO list per price, ladder of prices with an occupancy bitmap | add, remove_at, reduce_at, remove_front, best_price, crossable_quantity | recycled slots, intrusive links, best price after a level empties | a level holds exactly its live orders, once, in order of acceptance |
| Matching engine, `mdh/…/matching_engine` | registry, books, directory `orders_`, counters | new order (GTC, IOC, FOK), cancel, replace in place or by re-entering, register_instrument | two structures (book and directory) kept in step through every path; replaces that rename orders | never crossed, price-time priority, directory and book agree, FOK all or nothing, every command ends |
| Ledger, `mdh/…/ledger` | cash and position totals and reservations, holds by order | hold, release, settle, by event | follows the engine only through events; partial fills, price improvement, self-trades | holds mirror orders, reservations mirror holds, nothing is created or lost |
| Risk engine and gate, `mdh/…/risk` | limits | check a new order, check a replace, gate | the check is made before matching, the fills come after | no account overspends |
| SPSC queue, `mdh/include/common/spsc_queue.hpp` | ring storage, two indices that never reset, high water mark | try_push, try_pop, size | stale copies of the other thread's index, wrap of `size_t`, non-atomic storage | no data race, bounded FIFO |
| Sequencer and pipeline, `mdh/…/sequencing` | next sequence number, queue, stop flag, counters | submit, matching loop, stop | check-then-push, stop against a late submit | gapless order, accepted means processed, stop drains and returns |
| Order entry gateway, `mdh/…/gateway` | sessions by account, order owners, retained reports, two queues per connection | accept, read a request, bind, claim, submit, route an event, write, unbind, stop | a reader and a writer thread per connection and the matching thread; raw pointers to connections; disconnect and reconnect | a report goes to its own account, once; nothing names a session that has gone |
| Order management system and client, `mdh/…/trader/oms` | client orders and their states, the connection | submit, cancel, replace, one handler per report, loss of the connection | replies that race with sends; fills that race with cancels and replaces | client and exchange agree once nothing is in flight; every request is answered |
| Positions, trader risk, market maker, `mdh/…/trader` | settled position, two quotes | on fill, check, requote | policy over state that is always a little old | one quote a side, inventory near its cap |
| Market data: publisher, codec, packets, dropping queue, validator, book replica, replay, snapshots | sequence numbers, datagrams, replica, drop counts, snapshot file | publish, send in batches, receive, check, apply, recover, write and read a snapshot | lost, duplicated, reordered and damaged packets; two threads that end each other | the replica equals the source's book or the counters show a gap; no false alarm |
| Command journal and replay, `mdh/…/persistence` | journal file | append, read, replay, state hash | a crash in the middle of a record | a replay reaches the journalled state |
| Chase-Lev pool, `ChaseLevThreadPool/` | per-worker deques, global queue, flags | push, pop, steal, submit, shutdown | the last task of a deque, shutdown | each task runs exactly once |
| Thread pool, `ThreadPool/` | priority queue, count of running tasks, mutex, two condition variables, stop flag | submit, cancel, worker loop, wait, wait_for, stop | lost wake-ups, tasks that run outside the mutex | each task runs, wait and stop return and mean what they say |
| Stand-alone limit order book, `LimitOrderBook/` | books, order index, command queue, published prices | submit, cancel, match, publish, stop | two threads and a lock-free queue; partial fills on arrival | never crossed, quantities exact, index and book agree |
| Sockets, browser stream, command lines, library exercises | — | — | — | not modelled, see section 7 |

`PROJECT.json` lists each of these with its sources and status, and under
`hazards` what is hard to test in them, line by line, with the property that
covers it.

## 2. Modules

| module | models | builds on |
|---|---|---|
| `PriceTimeBook` | the interface of `MatchingBook`, as operators on a book value | |
| `MatchingBook` | the class as it is built; every step is a step of `PriceTimeBook` | `PriceTimeBook` |
| `MatchingEngine` | `MatchingEngine::process()`, `register_instrument()`, `snapshot()` | `PriceTimeBook` |
| `RiskGatedEngine` | the risk check, the ledger and the gate, composed with the engine | `MatchingEngine` |
| `BoundedFifo` | the abstract channel | |
| `SpscQueue` | the ring buffer, one step per shared access; refines `BoundedFifo` | `BoundedFifo` |
| `MatchingPipeline` | sequencer, submit, matching thread and stop | `BoundedFifo` |
| `OrderEntryCodec` | what a receiver accepts as an order-entry message | |
| `OrderEntryGateway` | sessions, ownership, routing and the gateway's threads, around the pipeline | `MatchingPipeline`, `OrderEntryCodec` |
| `OrderManagement` | the trader's orders, connection, position and risk check, against a venue | |
| `MarketMaker` | the quoting strategy on top of it | `OrderManagement` |
| `FeedCodec` | the frames of the feed | |
| `BookReplica` | replica book, sequence check, snapshot, `apply_frame_result()`, as functions | |
| `MarketDataFeed` | publisher, generator, sender, network, UI reader, file replay and UDP listener | `BookReplica`, `FeedCodec` |
| `StealingDeque` | the abstract work-stealing queue | |
| `WorkerDeque` | the Chase-Lev deque, one step per shared access; refines `StealingDeque` | `StealingDeque` |
| `WorkerPool` | submit, worker loop and destructor of the Chase-Lev pool | calls as in `StealingDeque` |
| `ThreadPool` | the pool with a mutex and condition variables | |
| `LimitOrderBook` | the stand-alone book with its queue and its two threads | |
| `MC…` | symmetry, view and sets of inputs for TLC | |
| `EngineProofs` | theorems | `MatchingEngine` and `RiskGatedEngine` |
| `SpscQueueProofs`, `OrderEntryGatewayProofs`, `MarketMakerProofs`, `WorkerDequeProofs`, `WorkerPoolProofs`, `ThreadPoolProofs`, `LimitOrderBookProofs` | theorems | the module of that name |

Definitions carry the names of the functions they model; the `map` in
`PROJECT.json` gives the lines. An operator with the comment "Mutant of X" is a
plausible bug in X. No specification uses it: it exists to be put in the place
of X, where TLC must then report a violation.

### PriceTimeBook and MatchingEngine

A book is a record of a slab (slot to order or `Free`) and, per side and price,
a queue of slots. A slot freed by a removal can be taken again by the next
`add`, so a handle kept too long names a different order, as in the code; which
free slot is taken is left open. Links, free list and ladder are not visible at
this level; `MatchingBook` has them.

`orders` is the directory `orders_` from (account, client order id) to the
handle. Every early return of `process_new_order`, `process_cancel` and
`process_replace` is a reason computed in the order the code tests it, and a
rejection is a step of its own. Since the loop of `match_and_rest()` is where
book and directory change several times, it is one step per iteration, with
`incoming` for the order in flight. No command starts while there is one: the
engine is single-threaded. `emitted` is the list of events of the last step.

The two counters advance together, also for an order that is filled or dropped.
Numbers of events and commands are left out. `snapshot` is what `snapshot()`
returns, each order composed from its two halves, the book's and the directory's.

`FreshReplaceIds` tells whether clients restrict themselves to new ids when they
replace an order. The repository's own client does (it mints an id for each
request); the exchange does not require it. Both settings are checked.

### MatchingBook

The slab is a sequence of entries with `next` and `prev`, the free list runs through
the same `next`, and each side has an index: the ladder of levels in a band of
prices, a bitmap over it in three levels of words, and a map for the prices outside
the band. The band is anchored by the first order of the side, and again by the next
one once the side has become empty. What an
erased level or a freed entry leaves behind is `Raw`, so reading it is an error and
not a lucky guess. `Book` spells out the abstract book the links stand for, and
`ImplementsBook` says that each operation, `crossable_quantity` and `all_of` among
them, does to `Book` what the operator of `PriceTimeBook` of that name does. Words
have two bits here and sixty-four in the code.

### RiskGatedEngine

Each engine step also applies its events to the ledger, as the sink inside
`RiskGatedEngine::process()` does. Quantity arithmetic is modulo
`QuantityModulus` (2^64 in the code), so an unsigned difference that goes below
zero wraps. Cash is an unbounded integer: the overflow of the product
`price * quantity` is not modelled.

### SpscQueue

Producer, consumer and an observer calling `size()` take one step per access to
shared memory. An acquire load of the other thread's index may return any value
between the one it returned last and the current one, which is what coherence
allows. The indices wrap at `IndexModulus` (2^64 in the code). A cell of the
storage is `Raw` unless it holds a constructed value. `size()` reads current
values: the defect it shows needs no staleness.

### MatchingPipeline

`submit()` is two steps, look at the occupancy and then number and push, and
the matching thread is three, pop, process and look at the stop flag. The queue
is the atomic channel `BoundedFifo`; that the ring implements it is the subject
of `SpscQueue`. A stale index only makes the queue look fuller to the producer
or emptier to the consumer, so it adds refusals and idle turns. One thread
submits, as the class requires.

### OrderEntryGateway and OrderEntryCodec

Each critical section of `sessions_mutex_` is one step; between them readers, writers,
the matching thread and `stop()` interleave. The pipeline is `MatchingPipeline`
itself: `submit_command()` is its two steps with `submit_mutex_` held in between. The
engine is reduced to which orders rest, because the gateway sees events and not
prices: whether a command is rejected, rests or trades, and with whom, is open. A
report carries its number, so that it can be followed to the client, into the
retained reports or to the queue that refused it.

A frame is looked at once it is whole, which is when the code looks at it. One that
does not decode, or is no request, is passed over. One whose type byte is unknown
leaves the reader waiting for ever (`deaf`), as in the code.

### OrderManagement and MarketMaker

The calling thread and the reader thread share `orders_` under a mutex that is never
held across a send, so a call is two steps, register and send, and a third when the
send fails. Messages are whole and in order, as TCP delivers them, until the
connection breaks. At the other end is the gateway, which may drop a command, when the
matching queue is full, and a report, when the session's outbound queue is
(`CommandRefused`, `ReportDropped`); those queues are shared with other sessions or
emptied by the network, so a drop may come at any time. Behind it is the venue: this
account's orders, its position, and a market that trades with them at any moment; cash is
left out, so both risk checks may also refuse freely. `MaxFaults` bounds the messages
dropped and the loss of the connection together. Every order has the same size, but fills may be partial.

`MarketMaker` takes one step for each thing it reads: the position, the ask's order,
the bid's order, and then decides side by side. The book it looks at is any mid price.

### FeedCodec, BookReplica and MarketDataFeed

The three chains of the applications start from one source. On the exchange an event
is numbered and goes out at once in a datagram of its own; the generator writes a
file, which is replayed or sent in batches. `history` keeps the source's orders as of
each event, for the properties only. A datagram names places in the feed and the
damage done to each frame, since a datagram carries what was encoded once. Fields of a
frame are units of its size. Quotes are on one side only: what a side of the replica
does is independent of the other, and two sides only multiply states.

The listener's two threads take a step for each look at the queue, the wire and the
stop flag. The idle timeout may fire whenever something has been received, even with
datagrams on the wire, which are then late.

### WorkerDeque and WorkerPool

In the deque every load, store and compare-exchange of shared memory is a step.
`push()`'s relaxed load of `top_` may return an old value, but never one older than
the owner has seen. The `seq_cst` operations of `pop()` and the fence in `steal()`
put the four accesses that decide the race for the last task in one order, so
interleaved steps are what the memory model allows there. Values are pointers to
tasks, and the model numbers them in the order of `push()`. The indices are signed
64-bit numbers that only grow by one per task, so they are integers here.

`WorkerPool` uses the queues as `StealingDeque` promises, one step per call; a
steal may also fail, as it does when another thief is faster. That the pool's
global queue, `GlobalSPMCQueue`, keeps the same promise is taken from its
interface and not checked. The pool's contract says that its destruction does not
race with `submit()`, so `RequestStop` waits for a `submit()` that is under way,
and the branch in which `submit()` gives up is written down but cannot be taken.
Running a task is one step.

### ThreadPool

What happens under the mutex is one step; `notify_one()` and `notify_all()` come
after it, as steps of their own. A worker in `cv.wait()` is `asleep` until it is
notified or wakes for no reason; then it looks at the predicate again. `wait_for()`
is `wait()` with a step that gives up. The queue is a set of tasks and the
comparator says which may leave next; `std::priority_queue` leaves the order of
equals open. The cancel flag is a plain `bool` written without synchronisation, so
a worker that reads it after it was set may see either value.

### LimitOrderBook

The producer's `submit()` and `cancel()`, the worker's `run()` and `stop()`.
`match()` is one step per iteration of its loop and the two published prices are
two steps. The same steps serve both sides: the code for sells mirrors the code
for buys. A price level and its `orderMap` are one sequence.

`pop()` loads `tail` relaxed, so on a weakly ordered machine, such as the arm64 the
book's README names, the cell may be loaded before `tail` is. `PopHead` notes what the
cell at `head` holds from the moment `head` is loaded; `PopTake` finds `tail` moved on
and copies each word of the cell (the type; the price; quantity and id; the side) as it
was then or as it is now. A free cell keeps what it held a lap before, and starts
zeroed. Earlier than that no load can go, since `head` is loaded with acquire, and
between the two a cell is written at most once. A machine that loads in order behaves as
one that always copies the cell as it is now, so what holds here holds on x86 too.
`doubled` is a history variable: the ids that were put to rest while they rested, which
only a command executed twice can bring about. `submit()` is called from one thread.

## 3. Runs

| run | instance | shows |
|---|---|---|
| `engine` | 1 account, 3 ids, 2 prices, quantities 0..2, 4 orders, fresh ids | book and directory exact, no stale handle, snapshots true, never crossed, price-time priority, fill-or-kill, orders only shrink |
| `engine_collision` | 2 orders at one price; ids reused at will | **violated**: a resting order loses its directory entry |
| `book` | 3 slots, 4 prices of which the band of 8 ticks holds two, three or four, words of 2 bits | refinement of `PriceTimeBook`; the levels are met best first |
| `risk` | 2 accounts with different seeds, 3 orders, fresh ids | the ledger mirrors the book, solvency, conservation |
| `spsc` | capacity 2, indices modulo 8, 2 values | no data race, high water mark, refinement of `BoundedFifo` |
| `gateway` | 2 connections, 2 accounts, 4 requests and 3 frames that are none, all queues of 1 | reports to their own account, each in one place, nothing names a session that has gone, one gapless order |
| `trader` | 4 ids, quotes of 2, cap 1, two mid prices, one fault (the connection breaks or a message is dropped), fairness | finished is finished, agreement when quiet, one quote a side, bounded inventory, every request answered that was not lost |
| `feed` | 4 events, 1 fault, batches of 2, a queue of 1, two runs | replica exact, no false alarm, snapshots round trip, the listener ends |
| `worker_deque` | 2 thieves, capacity 2, 5 tasks | refinement of `StealingDeque`: each task taken once |
| `worker_pool` | 3 workers, 3 tasks, queues of 2, fairness | nothing left behind, each task run, the destructor returns |
| `thread_pool` | 2 workers, 3 tasks of two priorities, fairness | no lost wake-up, `wait()` and `stop()` are right and return |
| `lob` | 2 prices, quantities 0..2, queue of 2, 2 orders and any cancels, stale and torn copies | index and book agree, never crossed, prices current after each command |

Why these bounds. Price-time priority needs two orders at one level and a second
level: with four orders on two prices an aggressor can take a whole level, part
of the next, and rest against a third order. Quantities 1 and 2 distinguish full
from partial fills, and 0 stands for every invalid value (the code tests `<= 0`
and `== 0`). Three ids let one order be replaced while two others rest. Slots are
as many as orders, so no `add` is refused; all are recycled.

In the book, prices 1, 6, 7 and 10 with a band of eight put levels in the same word,
in different words and outside the band on either side, depending on the order that
anchors it; three slots make a head, a middle and a tail of one level, and all of them
go through the free list. For the ledger two
accounts are enough for a trade, and self-trades occur too; prices 1 and 2 give
fills better than the limit, seeds of 2 and 4 make the funds check decide both
ways, and quantity 3 exceeds the order limit. For the ring, capacity 2 gives
empty, partly full and full, and modulus 8 four laps before the indices wrap.

In the gateway two sessions share an account or not, one goes and the other takes
over what was retained; with queues of one every queue is refused its second report.
Two requests are enough for an order and its cancel or replace, on one session or
two. The trader's four ids are two quotes and a requote of each; a cap below the
quote size makes it bind after one fill. One fault gives
each kind of command and report its turn to be missing, and breaks the connection at any
point; several at once are covered by the proofs, all but `InventoryBounded` and
`RequestsAnswered`. Four events with one fault give a gap, a
duplicate or a swap before, between and after events that depend on each other, and
batches of two put a drop in the middle of a datagram. More faults only combine these.

In the deque two thieves race with each other as well as with the owner, and
five tasks take a buffer of two through more than two laps, so that a slow thief
meets a slot that was reused. Three workers give each
thief two victims. Two workers, of which one sleeps and one runs, and three tasks
are enough to lose a wake-up, and the task of high priority comes second so that
it overtakes. In the stand-alone book two ids and two prices are enough for a sweep over
levels and a queue in one of them, because an order whose command is executed twice rests
twice; cancels are without bound, so they overrun a queue of two and turn it round.

Symmetry: slots, accounts and ids are only compared for equality. It is used for
safety only. The view leaves `emitted` out: no action and no state invariant
reads it, and action properties are evaluated on every step, before states are
identified. Deadlock is checked where the system can always go on: in the engine,
between commands some cancel is always possible, so a deadlock there would be a
command that is stuck. The gateway, the trader, the feed and the Chase-Lev pool rest
for ever once they are stopped or out of inputs.

## 4. Fairness

* The trader: weak fairness of the calling thread once it is in a call, of the
  reader thread and of the gateway's handling of what it received, which is to answer a
  command or to drop it: threads that are runnable run, and TCP delivers while the
  connection stands. Nothing is assumed of the market, nor of dropped reports.
  `RequestsAnswered` is about a connection that holds, and excepts the order whose cancel
  or replace, or the answer to it, the gateway dropped: that one is never answered, and
  the strategy can do nothing more with it.
* The feed: weak fairness of each of the listener's two threads. The idle timeout is
  part of the receiving thread: once something has come and nothing more does, the
  timer runs out. Nothing is assumed of the source or the network.
* The Chase-Lev pool: weak fairness of each worker, of a `submit()` that is
  spinning and of the destructor once it was called. Workers never sleep, so each
  is always runnable.
* The thread pool: weak fairness of each worker's loop, of the pending
  notifications, of a `wait()` that was woken and of `stop()`. A mutex that is
  held for a bounded time is eventually obtained, and clients' tasks end. There is
  no fairness for spurious wake-ups or timeouts: the liveness properties
  do not rest on them. `WaitReturns` rests on the bound on submits; a pool that is
  kept busy for ever keeps `wait()` waiting, as it should.

## 5. Findings

`matching_engine.cpp:518` (`engine_collision`): a replace does not ask whether
the new client order id is live, and overwrites the directory entry of the
other order. That order stays on the book and can no longer be cancelled. The
comment at line 89 states the opposite. The theorem
`DirectoryNeverStale` shows that the damage ends there for the engine: even then
no handle is stale and no book is crossed.

### Observations

These were met while modelling and are not the subject of a listed run. The models have
these behaviours too, unless it says otherwise, and where it says that TLC finds one, the
invariant given is violated on the constants given.

The exchange:

* `ledger.cpp:63`: the same replace makes the ledger open a hold over the other order's.
  The reservation of the hold that is lost is never released and that order trades without
  one, so that an account can end with more units reserved than it owns, and
  `available_position()` wraps; the comment at line 31 says "total >= reserved always".
  TLC finds it with `FreshReplaceIds = FALSE`, one price, quantities 1 and 2, three orders
  and accounts with two units (`Solvency`). The `risk` run and its theorems have
  `FreshReplaceIds`: they speak of clients that use new ids, as the repository's own does.
* `matching_pipeline.cpp:21`: a command submitted after the failed `try_pop()` and
  before the look at the stop flag stays in the queue; `matching_pipeline.hpp:100`
  says that stop comes "once it has processed everything already queued". In the
  gateway the readers are joined before, which leaves the window to other callers.
* `order_entry_gateway.cpp:317`: the writer looks at the retained backlog and then at
  the live queue. If the session binds between the two looks, a live report is
  written before the retained ones; `order_entry_gateway.hpp:269` says that "a
  retained report can never arrive after a live one". TLC finds this in a few steps.
* `order_entry_gateway.cpp:175`: the result of `submit_command()` is discarded, so a
  command refused by a full queue is never answered, and `:414` drops a report that meets
  a full outbound queue. What this means for the client is in the run `trader`.
  `order_entry_gateway.cpp:131`:
  an unknown type byte is waited on as if bytes were missing; the session reads on,
  buffers everything, and never handles a request again.
* `matching_book.cpp:248`: `base_ + band_ticks_ - 1` overflows for a side anchored
  near the largest price. Not in the model, whose prices are far from the ends of 64 bits.
* `mdh/include/common/spsc_queue.hpp:107`: on a third thread the two loads of
  `size()` can straddle pushes and pops, and the difference wraps; the comment at
  line 101 says it is valid at some instant.

The trader:

* `market_maker_strategy.cpp:44`: the order in which the two sides are updated avoids a
  cross with the quote as it was read; a quote that moves meanwhile can still be met
  by the strategy's own order.
* `market_maker_strategy.cpp:80`: a replace that is rejected is reported under the
  original id; the replacement, registered in advance, stays `PendingNew` for good.
  `AgreeWhenQuiet` is about live orders and is not touched by it.

Market data:

* `udp_listener.hpp:55` says that the consumer always drains the queue. It does not
  when it stops on an error, nor when a frame is pushed between its failed pop and
  its look at the stop flag.
* `ui_gateway.cpp:323`: the result of `apply_frame_result()` is ignored, so the event
  that reveals a gap is itself not applied. The counters stay apart from then on,
  which is why `ReplicaExact` holds.
* A recovery from an old snapshot brings back orders cancelled since, as
  `replay_engine.hpp:25` says it may; a modify in the replica always loses time
  priority, so `ReplicaExact` compares orders and not queues.

The others:

* `LimitOrderBook/src/order_book.cpp:83`: an order partly filled on arrival rests with
  its full quantity; `LimitOrderBook/README.md:88` says that the "unfilled remainder"
  rests. The model does as the code does.
* `LimitOrderBook/src/matching_engine.cpp:27`: a command that meets a full queue is
  lost; `README.md:78` says that callers busy-wait. Line 32: `run()` sets `running`
  itself and undoes a `stop()` that came first. Line 47: the best ask and the best bid
  are two stores, which `README.md:27` calls atomic and "a consistent snapshot". After an
  order that took the last bid and rests, a reader between the two finds the new ask
  beside the old bid; TLC finds it with the invariant that a bid seen is below the ask
  seen. Line 19: `README.md:90` calls
  `submit()` and `cancel()` callable from any thread, but they share the producer end of
  the queue, which is written for one; the model has one submitting thread only.
* `LimitOrderBook/include/spsc_queue.hpp:23`: the relaxed load of `tail` does not order the
  read of the cell after its write, and the worker may execute what the cell held before,
  or a mixture, in the place of the command that was pushed. The tests say that a cancel
  "must travel through the SPSC queue" (`tests/test_main.cpp:141`), and the book is tested
  on arm64 (`README.md:98`). TLC finds it with the invariant that `r_command` is
  `Head(queue)` where `r_pc` is `"advance"`. `IndexMatchesBook`, `NoCrossedBook` and
  `PublishedIsBest` hold all the same: the damage is to what is traded and not to the
  book's structure, except that an order which came to rest twice can lose its entry.
* `WorkerPool.hpp:71`: the destructor joins the workers and then drains the
  queues; `ChaseLevThreadPool/README.md:36` says it drains first.
  `NothingLeftBehind` shows that every task is run all the same, on the
  destroying thread.

## 6. Proofs

TLAPS proves the theorems below for all constants that satisfy the named
assumptions: `PricesAssumption` (prices are positive and have a maximum, as
64-bit integers do), `SlotsAssumption` (finitely many orders rest at a time),
`EngineAssumption` (types), `MarksAssumption` (the marks
for "no order" are not orders), `RiskAssumption` (types, and finitely many accounts and
client ids, which have 64 bits), `SeedAssumption` (the accounts do not start with more units
of an instrument than a `Quantity` can count), `HoldAssumption` (the mark for "no hold" is
none), `QueueAssumption` (a positive capacity that
divides the index modulus, more than once), `GatewayAssumption` (a frame decodes to a
request or to nothing, the queues have capacities, and `None` is no account, session,
report or command), `OmsAssumption` and `MarketMakerAssumption` (types, and quotes at positive
prices), `MarkAssumption` (the mark for `nullopt` is no id and no fill), `DequeAssumption` (a positive capacity; that the code's is a power
of two is not needed), `PoolAssumption` (a worker, and queues with a slot), `ThreadPoolAssumption` (a finite set of workers that is not empty; the constructor accepts
a pool of none, which runs nothing)
and `LimitOrderBookAssumption` (a queue with a slot, positive quantities, positive prices
with a maximum, and `None` is no side and price).

* **EngineProofs, of `MatchingEngine`.** The first part has the lemmas about `PriceTimeBook` the rest
  uses: what `add`, `remove_at`, `remove_front` and the in-place edits preserve, of the
  queues' contents and of their order. `EngineInvariance` proves the inductive invariant
  `EngineInv == TypeOK /\ BookIntegrity /\ DirectorySound`. The three need one
  another: a cancel removes through a handle, which is only safe when the handle
  is live (`DirectorySound`) and is in its queue exactly once (`BookIntegrity`);
  and a fill erases the directory entry of the order it removes, which leaves no
  stale handle only because a key names the order of its own handle.
  `TypeCorrect`, `BooksIntact` and `DirectoryNeverStale` are its parts.
  `NeverCrossed` shows that no book is ever crossed: no step other than
  `RestRemainder` puts an order on a book or changes a price (`NoNewOrder`), and
  when the loop has ended no level of the contra side crosses the order's limit
  (`LoopExhausts`, which needs that the best of a non-empty set of levels exists,
  hence the bound on prices). All of this holds whatever ids clients replace
  onto, and for any number of orders, accounts, instruments and prices.

  The rest goes by what a step does to the books (`Effect`): nothing, or one order
  removed, edited or added, with the directory following. On top of it `Aged` says that
  ids grow along each level and that all orders on a book are older than the one in
  flight, and `Positive` that each has quantity left; neither is implied by `EngineInv`,
  and an `add` keeps the levels in order only because the order in flight is the newest. `TradesInPriority`
  (`PriceTimePriority`) follows, since the front of the best level is then the first of its
  side by price and time, and `OrdersOnlyShrink` (`RestingOrdersOnlyShrink`) from the
  effects and `Positive`. `DirectoryComplete` proves `DirectoryCoversBook` where
  `FreshReplaceIds` holds; it needs that the key of the order in flight has no entry
  (`Entering`) and that the two counters agree, which is why a snapshot's sequence numbers
  are in the order of the queue.

  `FillOrKillHolds` (`FillOrKill`) is about a whole run of the loop: a fill-or-kill order
  that passed the check trades until nothing is left of it. Its invariant is `Fillable`, by
  which the quantity that crosses never falls below what is left of the order in flight:
  each fill takes as much from the one as from the other. A sum over the slots of a book
  seems to need an induction; `Total` instead counts the units, as the cardinality of a set
  of pairs, and what one changed term does to it follows from cardinalities of
  disjoint sets. `Lasting`, that only GTC orders rest, is why no replacement is fill-or-kill.
* **EngineProofs, of `RiskGatedEngine`.** `LedgerInvariance` proves `LedgerInv` where `FreshReplaceIds`
  holds. The ledger runs beside the engine and learns of it through events only, so its
  invariant ties the two together: each key has the hold its order ought to have
  (`OpenHold`: of the order on the book, or of the GTC order in flight, for the quantity left
  and at its own limit), and the reservations are the sums over the holds (`Reserves`).
  `Solvent` says more than `Solvency`: what an IOC or FOK order may still take
  (`CashNeeded`, `UnitsNeeded`) fits beside the reservations, since such an order is checked
  once and reserves nothing, and then trades in many steps. `Countable`, that the units of
  an instrument fit a `Quantity`, is why the unsigned addition to a position cannot wrap;
  where an account trades with itself the sum may pass the modulus for a moment and comes
  back (`WrapUndone`). There is one step per action and, for a trade, one per leg and hold:
  the resting order fills at its own limit, while the order in flight may fill at a better price and
  gets back the difference. `LedgerExact` (`LedgerMirrorsBook`), `NobodyOverdrawn`
  (`Solvency`) and `TradingConserves` (`Conservation`) follow. Without `FreshReplaceIds` an
  order loses its directory entry (`engine_collision`), and its hold with it.
* **SpscQueueProofs.** `Invariance` proves the invariant `IInv`: the types, the
  cells between `tail` and `head` are the ones that hold values (less the one
  being taken, plus the one being constructed), and each thread's copy of the
  other's index is at or behind it within the occupancy. `NoDataRace` and
  `HighWaterMarkSound` follow. `Refinement` shows that every step is a push, a
  pop or a stutter of `BoundedFifo`, for every capacity and modulus.
* **OrderEntryGatewayProofs.** `GaplessOrderHolds` rests on `PipelineInv`: the numbers
  handed out are those processed, the one in the matching thread's hand and those in
  the queue, in that order (`Numbered`), and a submit that saw room still has it when it
  pushes (`RoomSeen`), because only the matching thread takes and `submit_mutex_` keeps
  other submits out. Without the latter a number could be spent on a push that is refused.
  `GatewayInvariance` adds three parts. `SessionInv`: what each reader and writer has in
  hand belongs to the account of its session (`Coherent`), and the maps name only
  sessions that are there, bound to the account of the key (`Registered`).
  `Conserved`: each report is in exactly one place, and the retained reports of an account
  do not repeat, without which the eviction of the oldest could leave a second copy behind.
  `EngineInv`: the orders that rest and the events name orders of the accounts.
  `NoForeignReport` (`OnlyOwnAccount`), `NoStaleSession` (`GoneIsUnknown`) and
  `EveryReportOnce` (`ReportsConserved`) follow, for any number of sessions, accounts,
  requests and reports and any capacities.
* **MarketMakerProofs.** `TraderInvariance` proves `TraderInv`, of the trader's orders, the
  commands and reports in flight and the venue's book together. Neither property below is
  inductive: whether a report may finish an order depends on what the venue did before it
  sent the report. `Sound` therefore says of each command in flight that what it creates is
  pending and unknown to the venue, and of each report that the orders it names were
  registered and are in no command any more, and that one which ends an order comes after
  the order has left the book. `Quoted` says that of each side only the order the strategy
  counts on (`Top`) works or is on its way, and beside it at most the one it replaces
  (`Superseded`), of whose successor the venue has said nothing. `CreatedOnce` keeps a
  command from bringing an order twice. The facts are stated of values
  (`Coherent(O, n, C, M, R, T)`), so that a lemma says what one change of orders, wire or
  book does, and the lemma of an action which change it makes. `FinishedStaysFinished`
  (`FinishedIsFinished`) and `OneQuoteWorks` (`OneQuotePerSide`) follow, for any number of
  orders, any quote size, and with sends that fail, a connection that breaks and any number
  of dropped commands and reports: what is dropped only leaves fewer messages for `Sound` to
  speak of (`DropKeeps`).
  `QuietAgreement` (`AgreeWhenQuiet`) needs to know what the reports in flight will do once
  they are read. `AgreeInv` says it, as long as the connection is up and no report was
  dropped: the last report in
  flight on an order says what the venue has left of it, and of an order nothing in flight
  speaks of the OMS knows that already (`Tracks`); the trades reported lead from the position
  settled so far to the venue's (`Leads`, with the partial sums as a witness, where a
  recursive sum would need induction); prices agree (`Priced`); and no send has failed. With
  nothing in flight this is the agreement.
* **WorkerDequeProofs.** `DequeInvariance` proves `DequeInv`: how the owner's position in
  `push()` or `pop()` relates to `top` and `bottom` (`OwnerView`), that the buffer is
  never overrun (`Bounded`), and what each thief can rely on: while `top` is what it
  read, the cell it read still holds that task (`ThiefView`). That is why the
  compare-and-swap may decide alone. `Refinement` shows that each step is a push, a
  take at either end or a stutter of `StealingDeque`, in which a task is pushed only
  once, and `EachTaskReturnedOnce` that no task is handed out twice, for any number of
  thieves, any capacity and any number of tasks.
* **WorkerPoolProofs.** `PoolInvariance` proves `PoolInv`: a task handed to `submit()` is in
  exactly one place, the global queue, one deque or one worker's hand, or was run, and then
  once (`Placed`, stated of the sets of tasks in each place, so that every step moves,
  brings in or runs one task); no queue has a task twice (`Distinct`); and what the
  destructor relies on (`Leaving`): no `submit()` runs once it has begun, so none is turned
  away; no worker moves once they are joined; a queue it has been through stays empty.
  `NothingIsLost` (`NothingLeftBehind`) follows, for any number of workers and tasks and any
  capacities, full deques and failed steals included. The queues are those of
  `StealingDeque`, which `WorkerDeque` implements.
* **ThreadPoolProofs.** `PoolInvariance` proves that the count of running tasks is the
  number of workers that run one (`CountExact`, the fact `wait()` relies on), that an
  accepted task is queued, in the hands of a worker or has returned (`NothingLost`), that
  a worker leaves only an empty queue of a stopped pool (`LeavingIsFinal`), and that
  `stop()` sets its flag first and joins last (`StopOrder`). `WakeupNeverLost` (`NoLostWakeup`),
  `WaitIsABarrier` (`WaitMeansDone`) and `StopLosesNothing` (`StopDrains`) follow, for
  any number of workers and tasks.
* **LimitOrderBookProofs.** `BookInvariance` proves `BookInv` of a book that executes
  whatever mixture of an old and the announced command `pop()` copies
  (`CopiesAreCommands`: it is still some command). An index
  entry names a place where an order of that id rests, and an order that rests has its
  entry unless its id is in `doubled` (`Indexed`), also in the middle of `match()`. What
  makes this inductive is `Once`: an id that is not in `doubled` rests in one place and
  once there, so that taking its order away takes away all that its entry stood for; for a
  doubled id, `cancel()` and `match()` erase the entry with the first of its orders. The
  levels do not cross (`Uncrossed`), for which the loop must have ended at a best level
  that does not cross the order's limit; and the published prices are those of the levels
  once both are stored (`Published`). `IndexIsExact`, `NeverCrossed` and `PublishedExact`
  are the three properties of the run.

Only model-checked: liveness (`DestructorReturns`, `SubmittedIsRun`, `StopReturns`,
`WaitReturns`, `RequestsAnswered`, `ListenEnds`), which is out of the prover's reach;
what chains of links and bitmaps spell out (`ImplementsBook`, `WalksInPriority`), which
needs induction over them; of the trader `InventoryBounded`, which would need the sum of
the bids the OMS knows of along the reports in flight; and the properties of the feed
(`ReplicaExact`, `NoFalseAlarm`, `SnapshotRoundTrip`), whose replica is a fold over the history of events.

## 7. Not modelled

* Bytes: both decoders are modelled by field. The order-entry encoder and the command
  codec have no state and no choice; the repository's round-trip tests cover them.
* Wrappers of system calls; the HTTP handlers and the event stream of the UI gateway,
  which format what they are given; command lines and printing.
* The command journal, which no application uses. A file that ends within a record is
  modelled for the event file, whose reader answers it in the same way.
* The cross-venue arbitrage strategy: two orders in a row and no state of its own.
* Liveness of the gateway and its pipeline: both are specified without fairness, so no
  run shows that an accepted command is processed in the end or that `stop()` returns.
* The memory accesses of the Chase-Lev pool's global queue, which is one step per call.
* Library exercises: single-threaded, their difficulty lies in C++ lifetimes.
* Overflow of `price * quantity` and of prices at the ends of 64 bits; cash on the
  trader's side; several instruments in the replica, whose books do not touch.

## 8. Plan

What is left to prove, the most important first:

1. For the trader, `InventoryBounded`, over any number of ids.
2. For the feed, the part of `NoFalseAlarm` that does not fold over the history.

To model: the global queue of the Chase-Lev pool, one step per access, as a
refinement of the queue `WorkerPool` assumes.
