# A verification of areamy

areamy runs streaming pipelines over threads. A graph of nodes is wired at compile time; at run
time its nodes exchange messages over edges, on work threads that block and poll threads that do
not. This project models the parts of the crate where threads, wakes and signals meet, checks the
models with TLC, and proves the core of them with TLAPS. Paths below are relative to the crate's
own `src/`.

## 1. The system

| Part | State | Operations | What makes it correct |
|---|---|---|---|
| `edge/sync` | a buffer, a closed flag, two waiting marks, an epoch and a list of refused wakers behind one mutex; two condition variables; an atomic producer count | mint, clone, bind a waker, push and wait, try to push, release a handle, read (four ways), close from either end | FIFO, bounded, nobody sleeps on what it could take, a refused sender is woken once it could retry, Closed is final |
| `wake/parker` | a token and a "parked" flag behind a mutex; a condition variable | park, park until, wake | no wake is lost, a deadline ends a park |
| `poll/scheduler` | a Treiber stack of node ids over preallocated nodes, an early flag, the batch being walked | push from any thread, push from the poll thread, init, take, walk, park | every wake of a node leads to a poll that sees what the waker wrote |
| `poll/timer` | a heap of deadlines with lazily deleted entries, a table of recycled cells with generations | register, cancel by key or guard, earliest, expire | a key ends its own timer only, expiry is in order and complete, cells do not leak |
| `poll/thread`, `poll/sleep`, `poll/race` | the slots of the nodes, the waits their routines are in | the poll loop, a wait with a deadline | a node is polled when woken, dropped when it ends; a wait ends by its deadline; the thread ends with its last node |
| `node/poll`, `node/line/poll`, `node/biunion/poll` | the node's state, the signal in it, which sides are open, a held message per Input | one poll of an Input, of Work, of Output | messages keep their order, a Flush leaves behind its segment, no phase sleeps on work, a close ends every phase |
| `poll/future` and `FutureRoutine` | an input queue per side, an output queue, who waits on them, the user's future | feed, flush, poll the future, pop, renew | no wake is lost between the node and the future |
| `poll/edge` | a buffer, a refusal mark, a closed flag, on one thread | push, pop, close | one wake per refusal |
| `edge/fanout`, `edge/single` | the message an edge refused, and the edges still to serve | rotate, retry, resume, close | every edge gets every message once |
| `edge/policy` | whether the last message was data | push, try to push | a refused signal is judged as it was at first |
| `edge/waking`, `work/multiedge` | a waker in every sender of an edge | push, drop, wait for any of two edges | the waiter sees data or the close of either side, a close by drop included |
| `node/*/work`, `work/stream` | a routine, a pending signal, the owned parents, a suspended fan-out | one round of work; the loop | no message is lost, doubled or overtaken between rounds; no parent starves, no node waits for itself; every thread ends with its writers |
| `thread/*` | a latch of first-error callbacks, a join handle per thread | start, report, join | callbacks fire once, after the teardown, whatever panics; a failure ends every thread |
| readers, writers, `LineIo` and its kin, pull nodes | an edge handle, the root they work | push, read, flush, mark | a flush or mark returns all that it covers |
| `graph`, `typing`, builders | none at run time | wiring | the compiler |

**How they interact.** A writer pushes into `edge::sync` and blocks while it is full; a
work node tries, tries again in a later round, and blocks when nothing was drained since; a poll node
never blocks: it tries, holds what is refused, retries on any of its polls and is sure to be polled once its
waker fires. That waker is the node's own:
a push of its id on the scheduler's stack followed by a wake of the thread's parker. A poll thread
takes the stack, polls the nodes in it, fires the timers that are due and parks until the earliest
of the others. Each poll node is two or three phases with an id each (a biunion has four) that
share one state and wake one another. The routine between them is usually a user's `async fn`
that waits on an input queue and an output queue of the node. Between phases of one thread,
`poll::edge` takes the place of `edge::sync`.

A work thread is one call stack: it works its roots in turn, a node with nothing to push or take
works its parents, a full edge at home is left for the next round, and a full edge of another
thread blocks. A bundle starts its threads, fires callbacks as they end, and joins them.

**What is hard.** Notifications are sent after the lock is released. Refusals are answered by
wakes that arrive later, to a handle that may have been re-bound. The last producer's count drops
before the edge closes. A wake can come before the poll thread has made its nodes. The Treiber
stack reuses its nodes at once. Timer cells are reused while dead heap entries and old guards name
them. A phase ignores wakes in some states and relies on being woken again. A message may be held
in three places of one node while a Flush or a close passes. A work node that blocks on an input of
its own thread waits for itself, and one parent can starve another. Two edges share one parker. A
flush of a graph with a loop comes back more than once. Threads that fail race for callbacks that
may panic. `PROJECT.json` lists these hazards at
their lines, each with the properties that would notice.

## 2. The modules

`Channel` <- `SyncEdge` <- `SyncEdgeClients`: an abstract channel, the edge that implements it,
and the edge with the callers the crate has. `Parker` <- `Scheduler`: the parker, and the poll
thread that INSTANCEs it. `DeadlineHeap`: the timers. `FutureRoutine` <- `PollNode`: the routine's
queues, and the node around them. `Wiring` <- `WorkGraph` <- `MCWorkGraph`: how a work graph is
put together, how it runs, and the graphs that are run. `ThreadBundle`: threads from start to
join. `MCSyncEdge` holds TLC's symmetry. `Messages` has what properties say of sequences of
messages. The proofs are in `SyncEdge_proofs`, `Scheduler_proofs`, `DeadlineHeap_proofs`,
`PollNode_proofs` and `WorkGraph_proofs`, each about the module it is named for, `Delivery_proofs`, which
goes on from `WorkGraph_proofs`, and `Threads_proofs`, about `Parker` and `ThreadBundle`;
`Induction_proofs` has the lemmas several of them cite.
Operators introduced by a comment `Mutant:` are deliberately wrong variants of the next
definition. No specification uses them; they show that each property can fail.

### SyncEdge (`edge/sync`)

A step is one critical section of the mutex, one atomic operation on the producer count, or one
notification or wake sent after unlocking.

| Code | Model |
|---|---|
| `Inner` | `buffer`, `closed`, `consumerWaiting`, `producersWaiting`, `progress`, `refused` |
| `Shared::producer_count` | `producerCount` |
| `Sender.released`, `.refused_at`, `.waker` | `status`, `refusedAt`, `waker` |
| where a producer's or the receiver's thread stands | `pc`, `rx`, `call` |
| what a thread took under the lock and has still to notify or wake | `freed`, `owed` |
| `Receiver::sender`, `Sender::clone`, `Schedule::schedule` | `Mint`, `Clone`, `Schedule` |
| `push_back`, `wait_for_room`, `wake_consumer` | `PushBack`, `RecheckRoom`, `NotifyConsumer` |
| `try_push_back` | `TryPushBack`, `Refuse` |
| `Sender::close`, `Drop`; `shared::close`; `wake_all` | `Release`, `LastSenderCloses`; `CloseEdge`; `WakeOne` |
| `read_front`, `read_all`, `wait_front`; `poll`, `try_pop` | `BlockingRead`; `Pop` |
| `drained`, `notify_producers` | `Drain`, `NotifyProducers` |
| spurious returns of either condition variable | `SpuriousWakeup` |

`Mint` is not taken once a read has said Closed: that is the documented use ("mint senders before
reading"), and without it no read is ever final. The gap between the count reaching zero and the
close is kept, and minting in that gap is allowed. A notify wakes a thread only if it is in the wait set at
that moment. `sent`, `got`, `binds`, `ended` and `woken` are history; `woken` holds a waker from
its wake to the next try of a handle bound to it.

`Channel` promises a bounded FIFO with producers that come and go. `SyncEdge` implements it with
the buffer as the queue and `closed` as `shut`; waits, marks, wakers and notifications stutter.

`SyncEdgeClients` restricts the environment to what the crate's own callers do. They differ in what they
make of a refusal:

| Code | Model |
|---|---|
| `Writer::push`: try, then block | `ThreadPushes`, `WillBlock` of a writer |
| `Fanout::resume` of a work node: try once a round, block when `Stuck` | `ThreadPushes`, `WillBlock` of a worker |
| `Single` and `Fanout::retry` of a poll node, on any poll of its Output (`Emit::settled`): `Full` and `Stuck` alike are held | `TaskPushes` |
| a poll node that closes drops what it holds; a thread fails; a writer is dropped | `Quits` |
| a thread that reads until Closed | `Consumer` |

A poll node is also polled for a signal in its state (`Drive` wakes Output) or a spent budget, so a
retry may come without the edge's wake, be refused again at a newer epoch, and leave the older wake to a
retry that is then told `Stuck`. `ClientNext` has all of these polls; `ClientFairness` asks only for those that the
edge's wake brings about.

### Parker and Scheduler (`wake/parker`, `poll/scheduler`, `poll/thread`)

`Parker` has one action per critical section and one per notify. Its sleeper is `awake`,
`asleep`, or `resumed` (returned from the wait without the lock yet). A deadline is `none`,
`future` or `passed`: only the comparison with the clock matters to it.

`Scheduler` takes one step per atomic operation of the stack: the look at the `OnceLock`, the
`fetch_or` of the early flag and the second look, the claim, the load and link, the
compare-exchange with its retry, and on the other side the swap of the head, the read of the link,
the release of the node. What acquire and release make visible is modelled by tokens: a wake is a
token for the writes made before it, a release adds what the thread knows to what the location
carries, an acquire adds what the location carries to what the thread knows. A relaxed operation
moves the value and no knowledge. Every write to one location is a read-modify-write, so
what it carries accumulates, as a release sequence does. The consumer's loop, `poll_loop` and the
three outcomes of a poll are the poll thread's actions; so is a graph that fails to build. What a
node does in its poll is to wake any node and to begin or give up a wait, at will.

A wait (`poll::sleep`, or a queue call with a timeout) is the timer of the node's slot: `WaitBegins`
arms it, `Expire` fires it, which only wakes the node, and `WaitEnds` is the poll that finds the
deadline past, whether the timer or something else woke it. `WaitCut` is a wait that is served, or
loses a `race`, before its time.

### DeadlineHeap (`poll/timer`)

The binary heap is the set of its entries: `Before` is their order, `Top` the first live one and
`Pruned` the heap after the dead entries above it were discarded. A cell's `generation`, its
occupant and the LIFO free list are as in the code. `expire` is a step per timer fired, with the
clock read once. The history names each timer and remembers its key, so that a property can ask
what an old key does.

### FutureRoutine and PollNode (`poll/future`, `node/poll`, `poll/edge`)

A node is polled in small steps: `pc` names the phase being polled and the budget it has left. One
step moves one message, so the far ends of the edges act between two messages of a poll. That is
more than a single-threaded `poll::edge` allows and what an `edge::sync` outlet allows; a property
that holds for both holds for each. Woken phases are polled in any order, which includes the
scheduler's. `woken` loses a phase as its poll begins, so a phase may wake itself: this is what
`Scheduler` shows of wakes.

| Code | Model |
|---|---|
| `NodeState` and its signal | `state`, `signal` |
| `Open`, `Input.held` | `open`, `held` |
| `Feed::drain`, `recv`, `flushing`, `marker_ready`, `close` | `InputBegins`, `InputData`, `InputFlush`, `InputMarker`, `InputEmpty`, `InputCloses`, `InputYields` |
| `Drive::poll`, `FutureRoutine::poll` | `WorkBegins`, `WorkTakes`, `WorkSends`, `WorkPends`, `WorkReady` |
| `Emit::poll`, `step`, `drain`, `settled`, `running`, `close` | `OutputBegins`, `OutputRetries`, `OutputDelivers`, `OutputDrained`, `OutputYields`, `OutputForwarded`, `OutputEnds` |
| states in which a poll does nothing, or returns Closed | `Swallow`, `LeaveClosed` |
| `Fanout::rotate_from`, `retry` | `Rotate`, `Suspend` |
| `poll::edge` at either end | `Upstream`, `UpstreamCloses`, `Downstream`, `DownstreamCloses` |
| the queues' `try_send`, `flush`, `pop`, `recv`, `send` | `TrySend`, `Refuse`, `Flush`, `Pop`, `PopNothing`, `FutureTakes`, `FutureSends` |

The user's future is the environment's: it takes any item that waits on a side it has not seen
the Flush of, may wait for I/O, sends the item on, and returns when every side showed its Flush.
A future that breaks that contract makes the node fail, on purpose, and is not modelled; that the
node never fails on a future that keeps it is `NoFatal`. A rotation over the output edges is one
step, as pushes to different edges commute with what their consumers do. `Inputs` with one element
is the line, with two the biunion.

### Wiring and WorkGraph (`node/*/work`, `work`, `edge/waking`, `edge/policy`, `node/*/io`)

`Wiring` builds a graph with one operator per call of the builders: nodes with their bounds, edges
in the order they are added, upstreams moved into the node that works them. `Wired` adds what
follows from the structure. `Shaped` says what the calls make sure of, and `BoundedAsTold` is the
one rule they leave to the caller (`work.rs`: bound an input only when its producers are the node's
own upstreams or run on other threads); `WorkGraph` assumes both of its `Graphs`. `WorkGraph` runs one of the constant's `Graphs`; every part has a frame
`pc` of the call in progress, and a step takes at most one edge lock. An edge is its buffer, as
`Channel` has it: `SyncEdge` is where its locks and notifications are looked into.

| Code | Model |
|---|---|
| the edge's buffer; a handle's `refused_at` against the epoch | `buf`; `met` |
| `FollowData.last_was_data` | `follow` |
| the routine; a node's pending signal per side; `Fanout`'s suspended message | `kept`, `made`; `pending`; `held` |
| `workers` of a node or a stream; the biunion's parker | `workers`; `token` |
| `work` of a line, biunion, bifurcation | `Resumes`, `Delivers`, `SideIdle`, `Takes`, `FindsEmpty`, `InputsClosed` |
| `Fanout::rotate_from`, `resume`, `deadlock` | `Rotate`, `RotateOn`, `Resume`, `Unblock`, `PushClosed` |
| `FollowData::try_push` | `Passes`, `Judged` |
| `waking::Sender`, `WakeOnDrop`; `wait_any` | `WakeTarget`, `DropWakes`; `LooksAt`, `AllExhausted`, `Parks` |
| `work_each`; `work_loop` | `EachCalls`, `EachEnds`, `RotateLeft`, `Ends`; `ThreadEnds`, `Fails` |
| `Writer`; tees | `Writes`, `WriterLeaves`; `TeeLeaves` |
| `LineIo`, `BiunionIo`, `BifurcationIo` | `IoPushes`, `IoWorks`, `IoReads`, `IoDrops`; `IsBack` is the comparison with `Trackable::active` |

A routine may keep data back, turn it to output on any of its sides, and must emit it at a Flush;
an error of its own is `Fails`. A pull chain is a node (`Pulled`) that buffers nothing between two
pulls but what its routines hold. A drop is one step, its wakes included: what can be seen in
between is an edge that is closed before its consumer is woken, and a consumer that looks then sees
the close. The wake of a push is a step of its own. Signals of one origin are not reused while a
copy of them is in the graph, as `Trackable`'s doc asks; after a mark of a `BifurcationIo` the other
reader keeps a copy.

### ThreadBundle (`thread/bundle`, `thread/callback`, `thread/spawn`)

`start` spawns thread by thread; a refused one drops its task on the starter, which goes on after
(`Refuses`, `NextAfter`). A task runs, drops its workables, fires its `on_done` callbacks one step
each (`CallsUser`), the bundle's hook last (`CallsHook`, which takes the callbacks from the slot
under its lock), then the callbacks it took (`FiresFirst`). Any of them may panic. What the threads
do while they run is their edges' matter: here a thread ends once all that feed it are gone, may
end once one it feeds is, and may fail or panic.

| Code | Model |
|---|---|
| `ThreadBundle::start`; a refused spawn | `next`, `Spawns`; `Refuses` |
| the task and its two guards; how it ended | `phase`, `calls`; `done` |
| the workables, whose drop closes the thread's edges | `open` |
| the hook's shared slot; the callbacks being fired | `slot`; `fires` |
| `ThreadBundleHandle::join` | `joins` |

## 3. The runs

Every run finishes in the time given for two workers. Bounds are CONSTANTS of the module and
guards of its actions.

| Run | Instance | States | What it shows |
|---|---|---|---|
| `edge_blocking` | 3 blocking or trying producers, bound 2, 2 messages each | 1.0M | `NoStrandedProducer`, `ConsumerNotStranded`; the edge implements `Channel` |
| `edge_wakers` | 2 handles (one born in the run), 2 wakers, 2 binds each, bound 1 | 4.1M | `RefusedMeansFull`, `StuckIsOwedAWake`, `ClosedIsFinal`, types |
| `edge_clients` | a writer, a work node and a poll node on a one-slot edge, 1, 2 and 2 messages | 747k | `RefusedTaskIsWoken`, `EveryoneFinishes` |
| `parker` | 4 wakers | 220 | `NoLostWake`, `TokenEndsAPark`, `WakeEndsPark`, `DeadlineEndsPark` |
| `scheduler` | 2 nodes, 2 foreign threads and the poll thread, a wake each | 1.3M | `OnePlacePerNode`, `WakeWillBeSeen`, `NoSleepOnWork` |
| `scheduler_live` | 2 nodes, 1 foreign thread, 2 waits | 257k | `WakesAreServed`, `WaitsEnd` |
| `deadline_heap` | 4 timers, 3 instants | 1.9M | `CellsBoundedByPeak`, `CancelEndsItsOwn`, `ExpireIsExact` |
| `poll_line` | 3 messages, 2 one-slot edges, budget 2 | 267k | `EdgesInLockstep`, `FlushesArrive`, `EveryPhaseEnds` |
| `poll_biunion` | 3 messages over two sides, 1 one-slot edge, budget 1 | 3.1M | `NoFatal`, `InOrder`, `FlushedIsDelivered`, `QuietMeansDone` |
| `work_graph` | 11 runs of 9 graphs of 2 to 4 nodes, up to 6 messages | 280k | `NeverStuckAtHome`, `NoParentStarves`, `SignalsFollowData`, `InOrder`, `FlushedIsDelivered`, `IoReturnsAll`, `ThreadsEnd` |
| `bundle` | 3 threads in every acyclic wiring, a callback each, 2 of the bundle | 639k | `DoneFiresOnceAfterDrop`, `OneFailureFires`, `JoinedMeansFired`, `FailureEndsAll`, types |
| `poll_doc` | 1 message over two sides | - | a sentence of a doc, refuted (section 5) |

The graphs of `work_graph`: `Merge` and `Merge3`, two and three parents of one bounded input, taking
turns; `Join`, a biunion with an owned parent and one that pushes by a `FollowData` edge; `Fan`, a
pull chain into its owner and a thread of its own, with readers that leave and routines that fail;
`Split`, a bifurcation into its owner and into a biunion of another thread; `Loop` and `LineLoop`, data that
circles back to where it is written, read by a `LineIo`; `Pair` and `Halves`, a biunion and a
bifurcation behind their own Ios.

The `TypeOK`s of `Parker`, `Scheduler`, `DeadlineHeap`, `PollNode` and `WorkGraph` are in no run:
they are theorems (section 4).

**Why the bounds are enough.** Three producers on two slots are the fewest where a `notify_one`
can reach a thread that does not use the slot while a third sleeps, and where a drain of
everything frees more slots than one notification announces. A slot is stolen with bound 1 and two
handles, and two wakers with two binds make a refusal outlive its binding. Two nodes and three
pushers give the stack a moved top, a top that came back, a claim while its node is released, and
a wake that coalesces with a push under way; two waits give a park two deadlines, or one node a wait
after a wait. Four timers let a cell be reused while two dead
entries and two guards name it. Queues, edges and budget of one or two put every poll node on its
limits all the time: three messages fill the future's hand, its output queue and the suspended
place, and reach across a Flush into the next segment. On the work side inputs of one slot refuse a
node every other push, three parents are what one needs to be starved by two, a data message, a
Flush and one more are what can overtake one another, and two turns round a loop are what a returning
signal must wait for. Three threads give every order in which a failing one is fed, feeds, or is refused, and two
callbacks of the bundle a first to panic and a last to tell.
Each passing property has a mutant of the code that
breaks it within the run's own bounds (`PROJECT.json`, "mutants").

**Fairness.** A thread that can run does: weak fairness of a thread's next step (`ClientFairness`,
`ParkerFairness`, `Scheduler!Fairness`). A wait with a timeout returns, and the clock moves. No
fairness is asked of producers (`PollNode`), of a node to wake another (`Scheduler`), of a close,
nor of spurious returns. `PollNode` needs strong fairness of each phase's poll: phases share one
thread, so a phase that waits while another is polled is enabled only in between; `WakesAreServed`
is what justifies it, since the scheduler polls every woken node. Consumers are assumed to pop, and I/O
to complete. `EveryPhaseEnds` is about nodes whose sides were all closed.

On the work side each thread's next step is weakly fair, and every writer and every Io is dropped
some day; nothing is asked of how much they write, nor of readers. In `ThreadBundle` the starter
and every ending thread are scheduled, callbacks return, a thread whose inputs are all closed runs
out, and an application told of the failure closes its writers, which is what `on_first_error`'s
doc has it do. No thread has to fail, and none has to notice that one it feeds is gone.

`Resting` and `Finished` are stuttering steps of ends the code really has (the thread exited or
parks with nothing owed; every handle is gone), so TLC's deadlock check stays on and any other halt
is an error. It is off in `work_graph` and `bundle`, which stop for good when all threads have
ended; there `ThreadsEnd` and `FailureEndsAll` say that they do not stop sooner.

## 4. The proofs

All are by induction over the steps, with one lemma per action where that is long. They hold for
runs of any length and every value of the constants that the modules' named ASSUMEs allow: any
finite set of handles, any bound (none included), any number of nodes, threads, edges, timers and
messages. The ASSUMEs say that sets are finite or not empty, bounds natural, special values distinct;
TLC evaluates them on its instances. Only `WorkGraph`'s says more (see there).

`Induction_proofs`: induction over the naturals, stated for a set of numbers instead of a predicate
(`SetInduction`, from the well-foundedness of the finite subsets), because no prover here
instantiates an operator. With it what the recursive functions of the models compute is proved:
`Messages`' `Only`, `Scheduler`'s `Walk`, and least and greatest elements.

### SyncEdge_proofs

- `EdgeTyped`: `Spec => []TypeOK`. Types alone are not inductive, because the code decrements two
  counters. `TypeInv` adds `CountsOK` (the producer count is the number of open handles, the count
  of waiting producers is the number of parked or resumed ones) and `OwesOK` (a thread owes a
  notification or a list of wakes exactly while it is at the step that sends it).
- `ProducersNotStranded`: `Spec => []NoStrandedProducer`. The invariant compares free slots with
  threads already notified plus notifications still owed. The steps that make room owe what they
  freed; a resumed producer that parks again does so because the edge is full, and then there is
  no free slot to cover; and a close resumes everyone.
  Cardinalities of the two sets of threads are carried by lemmas about adding and removing one
  element.

The rest of the module goes through one lemma, `EveryStepMoves`: seen from outside, a step lands a
message, drains, ends, closes, joins, leaves or does nothing (`Moves`). That a landing finds its
handle open needs `WaitersOpen`: a producer waiting in `push_back` still holds its handle.
- `EdgeIsAChannel`: `Spec => ChannelSpec`, the refinement; each kind of move is a step of the
  channel. `End` needs that a count of zero means no open handle, which is `CountsOK`.
- `BoundHeld`, `RefusedOnlyWhileFull`, `ClosedStaysClosed`: inductive on top of `TypeInv` and
  `WaitersOpen`, one step per kind of move. The last one is where a read that believed the atomic
  count, before the last sender closed the edge, is shown to have told the truth. `BoundHeld` states
  `WithinBound`, which no run checks by itself, as `ChannelSpec` implies it.
- `ReceiverNotStranded`: `Spec => []ConsumerNotStranded`. `SleeperInv` adds that a blocked
  receiver has its flag up, or a producer about to notify: only then does a push on an empty edge
  lead to a notification.
- `StuckOwed`: `Spec => []StuckIsOwedAWake`. `StuckInv` adds that no handle remembers a refusal of
  an epoch to come, so that a drain makes every remembered refusal an old one, and that an unborn
  handle has no waker.
- `RefusedTasksAreWoken`: `RefusedTaskIsWoken` for the callers of `SyncEdgeClients`, whose steps are
  steps of the edge (`ClientsUseTheEdge`), so that all of the above holds for them too. `WakeInv` says that the
  wake of a poll node that holds a refused message is in one of three places (`Waits`): on the list, in the hands
  of a thread that took the list, or fired. A refusal puts it on the list, or finds it there (`StuckInv`, from
  `StuckOwed`); a drain or a close moves the list to a thread that owes nothing else (`DebtInv`); a push uses up
  the fired wake of its own handle only, because every poll node binds its own waker. That a listed
  one is on a full, open edge is `RefusedOnlyWhileFull`.

### Threads_proofs (Parker) and Scheduler_proofs

`ParkerTyped`; `ParkerWakesKept`, that `NoLostWake` and `AwakeAsksNoNotify` hold,
from an invariant that says the same of a thread that has returned from its wait but not
yet re-taken the lock, and that token and flag are never both up (`ParkerInv`); `TokensEndParks`, an action
property from the same invariant: a park that slept leaves neither token nor flag behind because a wake
that left the token had cleared the flag. These are what any user of a parker relies on, and the scheduler
is one: `SchedulerParks` shows that each of its steps is a step of `Parker` or leaves it alone, and
`SchedulerKeepsWakes` takes the same invariant along (`ParkerInv`), now about the parker of the instance.

- `SchedulerTyped`, on `ControlInv`: which steps of a push and of the loop go with which values.
- `NodesHaveOnePlace`. `OnePlacePerNode` says it with `Walk`, of which a step tells nothing, so
  `PlaceInv` has the stack and the batch as lists (`IsList`) and says that the queued ids
  are divided between the pushes that own one, the stack and the batch (`Divided`). A successful
  compare-exchange needs no more than that head is what the push linked its node to: a top that left
  and came back (ABA) is a list again, whatever happened meanwhile.
- `NeverSleepsOnWork`: `SleepInv` adds that between the take that found nothing and the end of the
  park an id on the stack has its unpark to come, or the token is there; the rest is the parker's.
- `WakesWillBeSeen`: every pending wake is carried (`AllCarried`) by a push that knows of it, by what
  `state` or `early` made visible, or by the poll thread. The step that could lose it is a push whose
  second look still finds no nodes. So `Carried` counts a push at that look only if it knows
  of the nodes, in which case it finds them; if it does not know, its mark came before init's swap, which
  acquires it (`MadeInv`, `MarkInv`).

### DeadlineHeap_proofs

`TimersTyped`, `CellsStayBounded`, `GuardsEndTheirOwn`, `ExpiresExactly`, from one invariant `IInv`:
a live timer and the cell it occupies name each other and its entry is in the heap (`LiveAreHoused`,
`OccupantsAreLive`); the free list has every vacant cell once (`FreeIsVacant`), so a cell is added only when
each has a live timer; and what is dead is older than its cell, entries and keys alike (`EntriesAge`,
`KeysAge`), so that no later occupant answers to an old key. `Top` is shown to be the first live entry
and `Pruned` to lose no live one.

### PollNode_proofs

For any number of inputs, edges and messages, any budget, queue sizes and bounds:
- `RoutineNeverFails` (`NoFatal`): `Types` and `PhaseInv` say where a poll can be, given the node's
  state. `FlushInv` is the routine's contract: outside a flush no Flush is in the routine, inside one
  each side that has not seen it has it as its last item; so a future that returns has read everything.
- `EdgesKeepLockstep`: while the node lives every edge has what the last one has, and those before the
  one that refused the suspended message that message more (`LockInv`); afterwards up to some edge
  one message more, and nothing is delivered any more.
- `DeliversInOrder`: `LineInv` lays a side's messages in one line, from the edges through the suspended
  place, the output queue, the future's hand, the input queue and the signal that waits to the
  Input's held message, and says that it is all the node read, in order. Each step moves one message from
  one part of the line to the next.
- `FlushesComeOut`: the line again, with `Ended`: a node that closed on its own had delivered its last Flush,
  as only data can be left behind by then (`DataHeld`), and with `SignalInv` and `CloseInv`, which say what
  waits and who closed.
- `SleepsWhenDone` (`QuietMeansDone`): `RestInv` says of each phase that is neither woken nor polled
  what it waits for (`WorkRests`, `OutputRests`, `InputRests`), and `RoomInv` that a queue which
  refused its Input is not empty. The properties are stated with `OfSide` and `Only`: that is where
  the induction is needed.

### WorkGraph_proofs

For every graph the builders can make, over any number of threads. The ASSUME asks of each graph
`Shaped`, what the calls of `Wiring` make sure of (edges lead from a side to an input, `EdgesLead`;
an upstream is owned once, `OwnedOnce`; a part drops with all it owns, `TreesDrop`; a thread works
the roots of one list, `ThreadsWork`), `BoundedAsTold`, the rule of `work.rs`, and that its parts are
finitely many, without which counting copies says nothing. TLC evaluates them on
the graphs of `MCWorkGraph`, which are built with the operators of `Wiring` alone.

A work thread is a call stack spread over the frames of its parts, and most of the module shows that it is
one (`StackInv`): a part is in a call exactly if its owner is calling it (`CallInv`), the lists of workers
hold living parts each once (`HouseInv`, `ListTypes`), and a drop takes whole subtrees. A lemma per
handler then shows that it keeps this, and what it does to edges and routines.
- `BuffersAreBounded`: no edge holds more than its bound, no routine more than it may.
- `SignalsTrailData`: `FollowInv` says that `last_was_data` is the kind of the last message the edge took,
  whatever was refused in between.
- `HomeNeverBlocks` (`NeverStuckAtHome`): a node blocks only when the edge refuses a message it has refused
  before (`BlocksWhenStuck`). `MetInv`: a remembered refusal means that the edge is still full.
  `FreshInv` follows a round of the consumer: an input it found empty holds no refusal, so once it has found
  all of them empty no worker whose turn is to come remembers one at home; and by `BoundedAsTold` such an
  edge's consumer is the worker's owner.
- `ParentsTakeTurns` (`NoParentStarves`). The property speaks of inputs whose producers all stand in one
  list, with one edge each (`TakesTurns`): a parent with two edges into one input may keep its own second
  edge waiting, and a producer in another list does not rotate with the rest.
  `TurnInv` gives each entry of the rotating list its account: it is due in this round (`DueAt`), has had its
  turn (`HadAt`), or waits for the next, and the bound on what it has seen go first depends on its place
  and, while it is due, on what is in the buffer (`DueBound`, `HadBound`, `NextBound`). The bounds meet where
  a round ends: the list turns by one, and who was refused at place j stands at j - 1. What that needs is
  that only who was refused is passed (`RefusedInv`), that a call goes through its sides in order
  (`SidesInv`), that lists only lose members (`ShrinkInv`), that what an owner found empty stays so until
  its round starts (`EmptyInv`) and that no input without a bound refuses (`RoomyInv`). There is a lemma
  each for a step of the owner, of the parent itself and of a sibling.
- `OrderIsKept` (`InOrder`). What one path leads to has one edge that brings it (`OnePath`: of the outlets
  that a writer's messages can take, `Ways`, no two lead to the same part), so that no two copies race. The
  proof follows the writer's messages by two numbers: `mark`, per outlet, is the last one that went through
  it, and `done`, per part, the last one the part took in; they are chosen anew in each state, which spares the
  model a history variable. `OrderInv` says that what a part has on an edge lies between the
  two and rises, and that a node's own line (`LineUp`: what it is pushing, then the routine's
  output, then the signal that waits, then what it keeps back) rises from the outlet's mark up to what the
  node took in. `Still` and `Going` tell which edges of a fan-out have yet to get the message under way, whether
  it is suspended, blocked or in the rotation, and `ClearInv` that a node takes input only with nothing left to push:
  without it a signal could pass the data before it.

### Delivery_proofs

`FlushesDeliver`: `Spec => []FlushedIsDelivered`, for every graph with `FlushesThrough`, whatever its routines
keep back and however its edges refuse. The invariant `FlowInv` follows one data message `m` by two sets of
outlets. `H` has those that took `m`: whatever such an outlet leads to has `m` on its edge or in its
routine, or pushed it on through all edges of one of its sides, which are then in `H` too (`Borne`). `D`
has those of them through which no Flush went since: each belongs to the writer, or to a living
node that holds a Flush for it or will get one, from its inputs or through another outlet of `D` (`Owing`).
Wherever `m` is, a Flush is behind it or still due (`Followed`, `FlushedOut`), and no outlet of `D` would drop
it, as the last message through it was data. When all nodes are gone nobody can owe anything any more, so `D` is
empty and `H` is the way `m` took.

What this needs of the rest: nothing is in the graph that was not written, and `m` is nowhere
before it was (`KnownInv`); at most one signal waits at a side (`SignalInv`); the inputs a node passed without a
busy one are exhausted, and stay so (`SeenInv`); what was dropped took all it owned and left nothing on its edges
(`DeadInv`). From the last two a node that quits had nothing left (`QuitsAlone`, `QuitsSpent`).

The premises of `FlushesThrough` are needed by the code, not by the proof. A Flush right behind a marker does not pass
a FollowData edge (`edge/policy.rs:36-44`); a dropped `LineIo` takes its graph with it; a node that ends drops
the upstreams it only schedules, with what they have for others. Loops are left out because a
message that goes round a loop is another one on each lap.

`LineIoReturnsAll`: `Spec /\ LineIoAlone => IoReturnsAll`, loops included. `LineIoAlone` is the graph of one
`LineIo` that nobody else writes into, with one writer and one reader, no error and no reader that leaves. Its
caller waits for one signal at a time (`IoFrame`), so the only signal in the graph is that one (`Pure`),
and `active` counts its copies: when the last but the caller's own comes back, no edge, routine or fan-out has the
signal any more (`ActiveFew`). What is left to show is that then no data is there either:
- `Chased` says that data always has a signal behind it. `D` has the outlets through which data went and no signal
  since. Data on an edge has a signal behind it there or came by an outlet of `D` (`Trailed`); data that a
  node is about to push out has the signal waiting behind it, or one still to come to the node (`Fed`).
- `Backed` says that the outlets of `D` are owed their signal from outside: of any part of `D` one outlet
  at least has its signal in its own node or on an edge to it, is fed by an outlet of `D` elsewhere, or is the
  writer's with no call out. In a graph without loops "each outlet is owed by another" would do, as it does for
  `FlushesDeliver`; round a loop each could wait for the next for ever.
- So with no signal left anywhere `D` is empty, and with it every edge, routine and fan-out (`IoBack`).

Nothing a signal has yet to pass may go meanwhile: a push finds its consumer there (`OpenInv`), so nothing
breaks; a node that quits was owed nothing (`QuitsChased`), and what is gone holds nothing (`GoneInv`).

One premise stands for a case where the code does keep data back. A marker brings out nothing that a
routine keeps. If that data lies beyond a `FollowData` edge, the Flush after the marker is dropped at
that edge, as the last message through it was no data (`edge/policy.rs:36-44`), and `flush` returns with the data still
kept. So where markers and Flushes both occur, `LineIoAlone` asks for a way from the writer to every routine that
keeps data back without such an edge (`PlainWays`). With Flushes alone, or markers alone, nothing is asked. `Loop` and
`LineLoop`, the graphs of the run that have a `LineIo`, both satisfy `LineIoAlone` with both signals.

### Threads_proofs (ThreadBundle)

For any number of threads and callbacks and any wiring of the threads:
`BundleTyped`, `DoneFires`, `FirstErrorOnce`, `JoinTellsAll`. The invariant `BundleInv` has a
`Stage` per thread (how far its task is says what it has called, and that its workables are gone
before the first call), the `Latch` (full: no thread that failed is past its hook; empty: one
thread that failed is, and the calls logged are those it made, in order), and `Joined` (what join
returned so far is how those threads ended). `Stage` is needed for the first theorem, the latch for
the second; `JoinedMeansFired` needs all three, since it speaks of a thread that never ran through
its `done`.

### Model-checked only

- Liveness, which needs fairness: `EveryoneFinishes`, `WakeEndsPark`, `DeadlineEndsPark`,
  `WakesAreServed`, `WaitsEnd`, `FlushesArrive`, `EveryPhaseEnds`, `ThreadsEnd`, `FailureEndsAll`.
- `IoReturnsAll` for a `BiunionIo`, whose two writers mark one after the other, and a `BifurcationIo`, whose
  two readers each get a copy: `work_graph` checks their marks in `Pair` and `Halves`.

## 5. Disagreements between docs and code

- `node/biunion/poll/node.rs:25-28` says a close from either input closes the node and drops what the
  other side holds. The code (`node/poll/feed.rs:153-160` with `others` from
  `node/biunion/poll/node/input.rs:48`) ends the node with its last input; the tests and `Feed`'s
  comment agree with the code. `poll_doc` shows it: one side closed, the node is Running.
- `thread/bundle/core.rs:60-61` says of the bundle's first-error callbacks that they "may fire before, during, or
  after `bundle.join()`", on independent paths. They never fire after it: a thread fires them inside its task
  (`work/stream.rs:187-194`, `thread/bundle/first_error.rs:44-58`), `start` fires those of a refused spawn, and join
  waits for every task (`thread/join.rs:95-106`). `JoinedMeansFired` states the stronger order that the code
  keeps; `bundle` checks it and `JoinTellsAll` proves it. The doc lists the order as "Not provided", so a
  later version may give it up; callers should not rely on it.

## 6. What is not modelled

- Mutex poisoning: the edge turns poison into a fatal error, the parker recovers it. Panics are
  modelled where the code catches them, in `ThreadBundle`.
- Relaxed-memory behaviour beyond visibility: a relaxed load is not given stale values, except the
  look at the `OnceLock`, which may miss nodes that exist.
- Wrapping of the edge's epoch and of a timer's generation, both 64 bits wide: no run could reach
  it, and a model of smaller width would not be this code.
- A spurious Closed raised by a user routine, and on the poll side any error of its own: the poll
  loop's end by an error is `Scheduler`'s, with all that drops with it.
- In the poll node: unbounded queues, `FollowData` edges, and `Once`, whose routine refuses input
  after its one segment. A wait that times out is `Scheduler`'s; the future of `PollNode` does not
  give up a call.
- The poll biunion's liveness, but for `QuietMeansDone`, which leaves it no place to stop.
- Plain reads of the Ios. A read that has nothing to return works the caller's own node, and whether
  that blocks for ever is up to what the caller wrote before. `LineIo::flush` and `mark` on a graph
  whose writers are all gone but which feeds itself never see Closed: in `Loop` and `LineLoop` the
  caller's end is the drop of the Io. A second, unread reader of the same node holds a copy of each
  signal, so `active` never comes down to what `flush` waits for; the graphs have none.
- The pull side on its own (`reader/pull`, `pull`): calls of one thread on one another, with no state
  between two calls but the first edge's and the routines', which `Pulled` has.
- `try_join`, the `Ready`, async and sync inputs, `limit`: a flag or two each, for one owner.
- How a poll graph is built (`poll/graph`, the builders): ids are reserved as nodes are minted, slots
  claimed or made as builders run, and a slot left empty fails the build. It is sequential and over
  before the first poll; `Scheduler` starts from the ids and has the failure (`BuildFails`).
- Wiring by types, `graph`, `typing`, messages and errors: nothing left to check at run time.
- Fairness between producers: neither the crate nor the system promises any.

Most of the lines no definition maps are of these kinds: builders and trait implementations that
the compiler resolves, and the tests and docs that stand in the same files.

## 7. The plan

Done, in this order: `Channel` and `SyncEdge`, its callers, `Parker`, `Scheduler`, `DeadlineHeap`,
`FutureRoutine`, `PollNode`; proofs of the edge (types, both kinds of sleeper, bound, refusals, end,
refinement) and of the parker; then the work side (`Wiring`, `WorkGraph`), waits with a deadline,
liveness of the poll line, `ThreadBundle` and its proofs; then the proofs of the stack, the timers, the
poll node, the edge's callers, and of the work graph's types, signals, home edges,
turns, order, deliveries and the returns of a `LineIo`.

Next, the proofs: `IoReturnsAll` for the marks of `BiunionIo` and `BifurcationIo`, with a `D` for each writer.

Next, the models:
1. An abstract node, from messages in to messages out, that `PollNode` and a work line implement.
2. The poll graph's build, so that a waker handed out before it is shown to wake the node that reads
   its edge.
3. `Once`, and a future that gives up a queue call, in `PollNode`.
