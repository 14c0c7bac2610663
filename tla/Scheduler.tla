----------------------------- MODULE Scheduler -----------------------------
(***************************************************************************)
(* The poll thread: the Treiber stack of woken node ids that any thread    *)
(* pushes to (poll/scheduler/treiber), the consumer that takes and walks   *)
(* it, fires timers and parks (poll/scheduler/consumer), and poll_loop     *)
(* (poll/thread).  One step is one atomic operation.                       *)
(*                                                                         *)
(* Atomics are modelled with what they make visible: a wake is a token     *)
(* that stands for the writes its thread made before it, `knows` is what   *)
(* each thread has acquired, and each location carries the tokens released *)
(* to it.  An acquire adds the location's tokens to the thread's, a        *)
(* release adds the thread's to the location's; all writes to one location *)
(* are read-modify-writes, so what it carries is never lost.               *)
(***************************************************************************)
EXTENDS Integers, FiniteSets

CONSTANTS
  N,          \* nodes of the graph; their ids are 0..N-1
  Agents,     \* threads other than the poll thread that hold node wakers
  MaxWakes,   \* BOUND: wakes one thread issues, the poll thread's included
  MaxArms     \* BOUND: waits with a deadline that the nodes begin

ASSUME SchedulerAssumption ==
  /\ N \in Nat \ {0} /\ MaxWakes \in Nat /\ MaxArms \in Nat
  /\ "poll" \notin Agents

Ids     == 0 .. N - 1
NONE    == N                       \* Link::NONE: no id
Links   == Ids \cup {NONE}
Pushers == Agents \cup {"poll"}
Tokens  == Pushers \X (1 .. MaxWakes)
Made    == <<"poll", 0>>           \* the token of the nodes' making

VARIABLES
  \* TreiberStack
  head, nodes, below, state,
  \* what each location carries: `early`, `head`, and each node's state
  atEarly, atHead, atState,
  \* pushes under way: step, id, and the top the pusher saw
  pc, id, saw, knows,
  \* the consumer: step, the batch's walk, the link read before a release, the
  \* node being polled, ids init has still to push
  cpc, batch, next, cur, fill,
  \* the runtime: which slots hold a node, and the wait with a deadline each one's
  \* routine is in: "future" and "passed" are armed, "fired" left the heap
  slot, timer, arms,
  \* the parker
  token, parked, sleeper, deadline, notifying,
  \* history: wakes issued per thread, and the wakes each node has not been
  \* polled for
  issued, pending

stackVars == <<head, nodes, below, state, atEarly, atHead, atState>>
pushVars  == <<pc, id, saw>>
loopVars  == <<cpc, batch, next, cur, fill>>
nodeVars  == <<slot, timer, arms>>
parkVars  == <<token, parked, sleeper, deadline, notifying>>
wakeVars  == <<issued, pending>>
vars == <<stackVars, pushVars, knows, loopVars, nodeVars, parkVars, wakeVars>>

P == INSTANCE Parker WITH Wakers <- Agents

Init ==
  /\ head = NONE /\ nodes = FALSE
  /\ below = [i \in Ids |-> NONE] /\ state = [i \in Ids |-> "Idle"]
  /\ atEarly = {} /\ atHead = {} /\ atState = [i \in Ids |-> {}]
  /\ pc = [t \in Pushers |-> "idle"] /\ id = [t \in Pushers |-> 0]
  /\ saw = [t \in Pushers |-> NONE]
  /\ knows = [t \in Pushers |-> {}]
  /\ cpc = "init" /\ batch = NONE /\ next = NONE /\ cur = 0 /\ fill = N
  /\ slot = [i \in Ids |-> TRUE]
  /\ timer = [i \in Ids |-> "off"] /\ arms = 0
  /\ P!ParkerInit
  /\ issued = [t \in Pushers |-> 0]
  /\ pending = [i \in Ids |-> {}]

-----------------------------------------------------------------------------
(* Pushing, from any thread                                                *)

Goto(t, step) == pc' = [pc EXCEPT ![t] = step]

\* Mutant: a Relaxed operation where the code has a Release.
Relaxed(t, location) == location

\* What a location carries after thread t released to it.
Released(t, location) == location \cup knows[t]

\* Mutant: a cross-thread push leaves the parker alone.
PushedQuietly(t) == Goto(t, "idle")

\* After the push a cross-thread waker wakes the parker (Producer::push); a
\* push by the poll thread itself (LocalWaker, init, expiry) does not.
Pushed(t) == Goto(t, IF t = "poll" THEN "idle" ELSE "unpark")

\* A wake of node i by thread t: its writes come first, they are the token.  A
\* node already dropped owes its wakes nothing.
StartPush(t, i) ==
  /\ pc[t] = "idle" /\ issued[t] < MaxWakes
  /\ issued' = [issued EXCEPT ![t] = @ + 1]
  /\ LET new == IF slot[i] THEN {<<t, issued[t] + 1>>} ELSE {} IN
       /\ pending' = [pending EXCEPT ![i] = @ \cup new]
       /\ knows' = [knows EXCEPT ![t] = @ \cup new]
  /\ id' = [id EXCEPT ![t] = i]

\* A look at the OnceLock.  It finds the nodes if init happened before it in
\* this thread's knowledge; it may find them as soon as they exist.
Finds(t) == nodes /\ (t = "poll" \/ Made \in knows[t])
MayFind(t, found) == IF found THEN nodes ELSE ~Finds(t)

\* TreiberStack::push.
AgentWakes(t, i) ==
  /\ t # "poll" /\ StartPush(t, i)
  /\ \E found \in BOOLEAN :
       /\ MayFind(t, found)
       /\ Goto(t, IF found THEN "claim" ELSE "early")
  /\ UNCHANGED <<stackVars, saw, loopVars, nodeVars, parkVars>>

\* push_early's fetch_or: both acquires and releases what `early` carries.
EarlyMark(t) ==
  /\ pc[t] = "early"
  /\ knows' = [knows EXCEPT ![t] = @ \cup atEarly]
  /\ atEarly' = Released(t, atEarly)
  /\ Goto(t, "relook")
  /\ UNCHANGED <<head, nodes, below, state, atHead, atState, id, saw, loopVars,
                 nodeVars, parkVars, wakeVars>>

\* Mutant: no second look.
EarlyDrops(t) ==
  /\ pc[t] = "relook" /\ Pushed(t)
  /\ UNCHANGED <<stackVars, id, saw, knows, loopVars, nodeVars, parkVars, wakeVars>>

\* push_early's second look: push as usual, or drop, for init pushes every id.
EarlyRelook(t) ==
  /\ pc[t] = "relook"
  /\ \E found \in BOOLEAN :
       /\ MayFind(t, found)
       /\ IF found THEN Goto(t, "claim") ELSE Pushed(t)
  /\ UNCHANGED <<stackVars, id, saw, knows, loopVars, nodeVars, parkVars, wakeVars>>

\* push_onto's claim, a fetch_or: a node found queued coalesces this wake.
Claim(t) ==
  /\ pc[t] = "claim"
  /\ LET i == id[t] IN
       /\ knows' = [knows EXCEPT ![t] = @ \cup atState[i]]
       /\ atState' = [atState EXCEPT ![i] = Released(t, @)]
       /\ state' = [state EXCEPT ![i] = "Queued"]
       /\ IF state[i] = "Queued" THEN Pushed(t) ELSE Goto(t, "load")
  /\ UNCHANGED <<head, nodes, below, atEarly, atHead, id, saw, loopVars,
                 nodeVars, parkVars, wakeVars>>

\* publish: load the top and link the owned node over it.
LoadTop(t) ==
  /\ pc[t] = "load"
  /\ saw' = [saw EXCEPT ![t] = head]
  /\ below' = [below EXCEPT ![id[t]] = head]
  /\ Goto(t, "cas")
  /\ UNCHANGED <<head, nodes, state, atEarly, atHead, atState, id, knows,
                 loopVars, nodeVars, parkVars, wakeVars>>

\* Mutant: a store where the code has a compare-exchange.
BlindStore(t) == TRUE

\* The compare of publish's compare-exchange.
TopUnmoved(t) == head = saw[t]

\* publish's compare-exchange: a moved top relinks the node and tries again.
PublishCas(t) ==
  /\ pc[t] = "cas"
  /\ IF TopUnmoved(t)
     THEN /\ head' = id[t] /\ atHead' = Released(t, atHead)
          /\ Pushed(t)
          /\ saw' = [saw EXCEPT ![t] = NONE]
          /\ UNCHANGED below
     ELSE /\ saw' = [saw EXCEPT ![t] = head]
          /\ below' = [below EXCEPT ![id[t]] = head]
          /\ UNCHANGED <<head, atHead, pc>>
  /\ UNCHANGED <<nodes, state, atEarly, atState, id, knows, loopVars, nodeVars,
                 parkVars, wakeVars>>

\* Producer::push's second half: leave the parker its token.
Unpark(t) ==
  /\ pc[t] = "unpark"
  /\ P!Wake(t)
  /\ Goto(t, "idle")
  /\ UNCHANGED <<stackVars, id, saw, knows, loopVars, nodeVars, wakeVars>>

UnparkNotify(t) ==
  /\ P!Notify(t)
  /\ UNCHANGED <<stackVars, pushVars, knows, loopVars, nodeVars, wakeVars>>

AgentStep(t) ==
  \/ \E i \in Ids : AgentWakes(t, i)
  \/ EarlyMark(t) \/ EarlyRelook(t) \/ Unpark(t)

PushStep(t) == Claim(t) \/ LoadTop(t) \/ PublishCas(t)

-----------------------------------------------------------------------------
(* The poll thread                                                         *)

\* The consumer moves only when no push of its own is under way.
Here(step) == cpc = step /\ pc["poll"] = "idle"

\* TreiberStack::init: make the nodes, then swap `early`.
InitNodes ==
  /\ Here("init")
  /\ nodes' = TRUE /\ cpc' = "swap"
  /\ knows' = [knows EXCEPT !["poll"] = @ \cup {Made}]
  /\ UNCHANGED <<head, below, state, atEarly, atHead, atState, pushVars, batch,
                 next, cur, fill, nodeVars, parkVars, wakeVars>>

\* prepare fails: a builder does, or leaves a slot empty.  Nothing was made, and
\* what was built drops with the graph.
BuildFails ==
  /\ Here("init")
  /\ cpc' = "exit"
  /\ slot' = [i \in Ids |-> FALSE]
  /\ pending' = [i \in Ids |-> {}]
  /\ UNCHANGED <<stackVars, pushVars, knows, batch, next, cur, fill, timer, arms,
                 parkVars, issued>>

InitSwap ==
  /\ Here("swap")
  /\ knows' = [knows EXCEPT !["poll"] = @ \cup atEarly]
  /\ atEarly' = Released("poll", atEarly)
  /\ cpc' = "fill"
  /\ UNCHANGED <<head, nodes, below, state, atHead, atState, pushVars, batch,
                 next, cur, fill, nodeVars, parkVars, wakeVars>>

\* Uninit::init pushes every id, last to first.
Fill ==
  /\ Here("fill")
  /\ IF fill = 0
     THEN cpc' = "walk" /\ UNCHANGED <<fill, pc, id>>
     ELSE /\ fill' = fill - 1
          /\ id' = [id EXCEPT !["poll"] = fill - 1]
          /\ Goto("poll", "claim")
          /\ UNCHANGED cpc
  /\ UNCHANGED <<stackVars, saw, knows, batch, next, cur, nodeVars, parkVars, wakeVars>>

\* TreiberStack::next reads the link before it releases the node ...
ReadLink ==
  /\ Here("walk")
  /\ IF batch = NONE THEN cpc' = "expire" /\ UNCHANGED next
     ELSE cpc' = "release" /\ next' = below[batch]
  /\ UNCHANGED <<stackVars, pushVars, knows, batch, cur, fill, nodeVars, parkVars, wakeVars>>

\* ... for once released, with a swap that acquires every coalesced claim, a
\* push may claim and relink it.
ReleaseNode ==
  /\ Here("release")
  /\ state' = [state EXCEPT ![batch] = "Idle"]
  /\ knows' = [knows EXCEPT !["poll"] = @ \cup atState[batch]]
  /\ atState' = [atState EXCEPT ![batch] = Released("poll", @)]
  /\ cur' = batch /\ batch' = next /\ next' = NONE
  /\ cpc' = "poll"
  /\ UNCHANGED <<head, nodes, below, atEarly, atHead, pushVars, fill, nodeVars,
                 parkVars, wakeVars>>

\* Timers::expire at the batch's end: one push per timer that is due, then
\* the take.  A timer's node is woken by the poll thread itself.
Expire ==
  /\ Here("expire")
  /\ \E i \in Ids :
       /\ timer[i] = "passed"
       /\ timer' = [timer EXCEPT ![i] = "fired"]
       /\ id' = [id EXCEPT !["poll"] = i]
       /\ Goto("poll", "claim")
  /\ UNCHANGED <<stackVars, saw, knows, loopVars, slot, arms, parkVars, wakeVars>>

Take ==
  /\ Here("expire")
  /\ \A i \in Ids : timer[i] # "passed"
  /\ batch' = head /\ head' = NONE
  /\ knows' = [knows EXCEPT !["poll"] = @ \cup atHead]
  /\ cpc' = IF head = NONE THEN "park" ELSE "walk"
  /\ UNCHANGED <<nodes, below, state, atEarly, atHead, atState, pushVars, next,
                 cur, fill, nodeVars, parkVars, wakeVars>>

\* Mutant: the park takes no deadline.
NoDeadline == "none"

\* Timers::earliest, as the park sees it.
Earliest ==
  IF \E i \in Ids : timer[i] = "passed" THEN "passed"
  ELSE IF \E i \in Ids : timer[i] = "future" THEN "future" ELSE "none"

\* Consumer::next parks until the earliest timer, then looks again.
ParkConsumer ==
  /\ Here("park")
  /\ P!Park(Earliest)
  /\ cpc' = IF sleeper' = "asleep" THEN "parked" ELSE "walk"
  /\ UNCHANGED <<stackVars, pushVars, knows, batch, next, cur, fill, nodeVars, wakeVars>>

ConsumerResumes ==
  /\ cpc = "parked" /\ P!Recheck
  /\ cpc' = IF sleeper' = "asleep" THEN "parked" ELSE "walk"
  /\ UNCHANGED <<stackVars, pushVars, knows, batch, next, cur, fill, nodeVars, wakeVars>>

\* What the poll sees of the wakes of its node: those it has acquired.
Served == pending[cur] \cap knows["poll"]

\* Wakes that were served carry nothing any more (they keep TLC's states few).
Forget(S) ==
  /\ knows' = [t \in Pushers |-> knows[t] \ S]
  /\ atEarly' = atEarly \ S /\ atHead' = atHead \ S
  /\ atState' = [i \in Ids |-> atState[i] \ S]

\* A poll of a wait looks at the clock: its deadline ends it, whether or not the
\* timer was what woke the node.
WaitEnds(i) == [timer EXCEPT ![i] = IF @ = "future" THEN "future" ELSE "off"]

\* poll_loop: an empty slot is skipped, a node is polled.
PollNode ==
  /\ Here("poll")
  /\ IF slot[cur]
     THEN /\ cpc' = "polling"
          /\ pending' = [pending EXCEPT ![cur] = @ \ Served]
          /\ Forget(Served)
          /\ timer' = WaitEnds(cur)
     ELSE cpc' = "walk" /\ UNCHANGED <<pending, knows, atEarly, atHead, atState, timer>>
  /\ UNCHANGED <<head, nodes, below, state, pushVars, batch, next, cur, fill,
                 slot, arms, parkVars, issued>>

\* A poll may wake any node through its local waker.
LocalWake(i) ==
  /\ Here("polling") /\ StartPush("poll", i)
  /\ Goto("poll", "claim")
  /\ UNCHANGED <<stackVars, saw, loopVars, nodeVars, parkVars>>

\* A wait begins (a sleep, a receive or send with a timeout): its first pending
\* poll arms the timer of the node being polled.
WaitBegins ==
  /\ Here("polling") /\ arms < MaxArms /\ timer[cur] = "off"
  /\ timer' = [timer EXCEPT ![cur] = "future"]
  /\ arms' = arms + 1
  /\ UNCHANGED <<stackVars, pushVars, knows, loopVars, slot, parkVars, wakeVars>>

\* The wait is over before its deadline, served or given up for a sibling that
\* won a race: its guard drops the timer.
WaitCut ==
  /\ Here("polling") /\ timer[cur] # "off"
  /\ timer' = [timer EXCEPT ![cur] = "off"]
  /\ UNCHANGED <<stackVars, pushVars, knows, loopVars, slot, arms, parkVars, wakeVars>>

\* The poll returns: Pending keeps the node; Ready and Closed drop it, and the
\* loop ends with the last node; any other error ends it at once.
PollReturns ==
  /\ Here("polling")
  /\ \/ cpc' = "walk" /\ UNCHANGED <<slot, timer, pending, knows, atEarly, atHead, atState>>
     \/ /\ slot' = [slot EXCEPT ![cur] = FALSE]
        /\ timer' = [timer EXCEPT ![cur] = "off"]
        /\ cpc' = IF \E i \in Ids : slot'[i] THEN "walk" ELSE "exit"
        /\ pending' = [pending EXCEPT ![cur] = {}]
        /\ Forget(pending[cur])
     \/ cpc' = "exit" /\ UNCHANGED <<slot, timer, pending, knows, atEarly, atHead, atState>>
  /\ UNCHANGED <<head, nodes, below, state, pushVars, batch, next, cur, fill,
                 arms, parkVars, issued>>

\* Time passes: a deadline is reached, and with it the parker's, which is the
\* earliest of them.
Tick(i) ==
  /\ timer[i] = "future" /\ cpc # "exit"
  /\ timer' = [timer EXCEPT ![i] = "passed"]
  /\ deadline' = IF deadline = "future" THEN "passed" ELSE deadline
  /\ UNCHANGED <<stackVars, pushVars, knows, loopVars, slot, arms, token,
                 parked, sleeper, notifying, wakeVars>>

\* The wait returns at the deadline ...
ParkTimesOut ==
  /\ P!TimedOut
  /\ UNCHANGED <<stackVars, pushVars, knows, loopVars, nodeVars, wakeVars>>

\* ... or at any time, for no reason.
ParkEndsEarly ==
  /\ P!SpuriousReturn
  /\ UNCHANGED <<stackVars, pushVars, knows, loopVars, nodeVars, wakeVars>>

ConsumerStep ==
  \/ InitNodes \/ BuildFails \/ InitSwap \/ Fill
  \/ ReadLink \/ ReleaseNode \/ Expire \/ Take
  \/ ParkConsumer \/ ConsumerResumes \/ PollNode \/ PollReturns

\* The thread is over, or parks with every wake served and no deadline: what
\* it does with its wakes bounded.  Any other halt is a deadlock to TLC.
Resting ==
  /\ \/ cpc = "exit"
     \/ /\ cpc = "parked" /\ sleeper = "asleep" /\ deadline = "none"
        /\ \A i \in Ids : pending[i] = {}
        /\ head = NONE /\ notifying = {}
  /\ UNCHANGED vars

Next ==
  \/ \E t \in Agents : AgentStep(t) \/ UnparkNotify(t)
  \/ \E t \in Pushers : PushStep(t)
  \/ ConsumerStep
  \/ \E i \in Ids : LocalWake(i) \/ Tick(i)
  \/ WaitBegins \/ WaitCut
  \/ ParkTimesOut \/ ParkEndsEarly
  \/ Resting

\* Every thread that is not parked runs, a started wake is finished, the clock
\* moves; no node has to wake another.
Fairness ==
  /\ WF_vars(ConsumerStep) /\ WF_vars(ParkTimesOut)
  /\ \A t \in Agents : WF_vars(EarlyMark(t) \/ EarlyRelook(t) \/ Unpark(t))
                       /\ WF_vars(UnparkNotify(t))
  /\ \A t \in Pushers : WF_vars(PushStep(t))
  /\ \A i \in Ids : WF_vars(Tick(i))

Spec == Init /\ [][Next]_vars

FairSpec == Spec /\ Fairness

-----------------------------------------------------------------------------
TypeOK ==
  /\ head \in Links /\ nodes \in BOOLEAN
  /\ below \in [Ids -> Links] /\ state \in [Ids -> {"Idle", "Queued"}]
  /\ atEarly \subseteq Tokens \cup {Made} /\ atHead \subseteq Tokens \cup {Made}
  /\ atState \in [Ids -> SUBSET (Tokens \cup {Made})]
  /\ pc \in [Pushers -> {"idle", "early", "relook", "claim", "load", "cas", "unpark"}]
  /\ id \in [Pushers -> Ids] /\ saw \in [Pushers -> Links]
  /\ knows \in [Pushers -> SUBSET (Tokens \cup {Made})]
  /\ cpc \in {"init", "swap", "fill", "walk", "release", "expire", "park",
              "parked", "poll", "polling", "exit"}
  /\ batch \in Links /\ next \in Links /\ cur \in Ids /\ fill \in 0 .. N
  /\ slot \in [Ids -> BOOLEAN] /\ timer \in [Ids -> {"off", "future", "passed", "fired"}]
  /\ arms \in 0 .. MaxArms
  /\ P!ParkerTypeOK
  /\ issued \in [Pushers -> 0 .. MaxWakes] /\ pending \in [Ids -> SUBSET Tokens]

\* The ids met from link l, following `below`: its n-th link, and their set.
Walk(l) ==
  LET w[n \in 0 .. N] ==
        IF n = 0 THEN l ELSE IF w[n - 1] = NONE THEN NONE ELSE below[w[n - 1]]
  IN w
Chain(l) == {Walk(l)[n] : n \in 0 .. N} \ {NONE}

Publishing == {t \in Pushers : pc[t] \in {"load", "cas"}}

\* Each queued node is in one place only: owned by the push that claimed it, on
\* the stack, or in the batch being walked.  So no list has a cycle, no batch
\* loses the nodes below one that was pushed again, and no node runs twice.
OnePlacePerNode ==
  LET owned == {id[t] : t \in Publishing} IN
  /\ Walk(head)[N] = NONE /\ Walk(batch)[N] = NONE
  /\ \A t, u \in Publishing : t # u => id[t] # id[u]
  /\ Chain(head) \cap Chain(batch) = {}
  /\ owned \cap (Chain(head) \cup Chain(batch)) = {}
  /\ {i \in Ids : state[i] = "Queued"} = owned \cup Chain(head) \cup Chain(batch)

\* No wake is lost and no poll misses its writes: every wake of a live node
\* that no poll has served is carried by a push under way, by a queued node
\* whose release will acquire it, by the poll about to run, or, before init, by
\* `early`, which init's swap acquires ahead of pushing every id.
WakeWillBeSeen ==
  \A i \in Ids : \A k \in pending[i] :
    \/ \E t \in Pushers : /\ pc[t] \in {"early", "relook", "claim", "load", "cas"}
                          /\ id[t] = i /\ k \in knows[t]
    \/ state[i] = "Queued" /\ k \in atState[i]
    \/ cpc = "poll" /\ cur = i /\ k \in knows["poll"]
    \/ cpc \in {"init", "swap"} /\ k \in atEarly
    \/ cpc = "fill" /\ i < fill /\ k \in knows["poll"]

\* The poll thread never sleeps on a stack with an id in it unless the push
\* that put one there is about to wake the parker.
NoSleepOnWork ==
  sleeper = "asleep" /\ head # NONE =>
    \/ token /\ notifying # {}
    \/ \E t \in Agents : pc[t] = "unpark"

\* "A wake that coalesces ... is served once that push publishes": every wake
\* of a live node is served by a poll, unless the node or the loop ends first.
WakesAreServed ==
  \A i \in Ids :
    (pending[i] # {} /\ slot[i])
      ~> (pending[i] = {} \/ ~slot[i] \/ cpc = "exit")

\* sleep.rs, deadline.rs: a wait with a deadline ends, though its thread parks and
\* is woken meanwhile, polls the node for other reasons around the deadline, and
\* the timer's own wake coalesces with others.
WaitsEnd == \A i \in Ids : timer[i] = "future" ~> (timer[i] = "off" \/ cpc = "exit")

=============================================================================
