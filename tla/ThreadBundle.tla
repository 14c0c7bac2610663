---------------------------- MODULE ThreadBundle -----------------------------
(***************************************************************************)
(* The life of a bundle's threads (thread/bundle, thread/callback): start  *)
(* spawns them in registration order, the OS may refuse any of them, each  *)
(* runs until its edges close, it fails or it panics, drops its workables, *)
(* and fires its on_done callbacks.  The hook that on_first_error injects  *)
(* is the last of them: threads that fail race for the bundle's callbacks. *)
(* What the threads do is a matter of their edges (see WorkGraph and       *)
(* PollNode): a thread ends once all that feed it have dropped their ends, *)
(* and may end once a thread it feeds has.                                 *)
(***************************************************************************)
EXTENDS Naturals, Sequences

CONSTANTS NumThreads, \* threads added to the bundle
          NumDone,    \* on_done callbacks the user gave each thread
          NumFirst    \* on_first_error callbacks of the bundle

ASSUME BundleAssumption ==
  NumThreads \in Nat /\ NumDone \in Nat /\ NumFirst \in Nat

VARIABLES
  feeders, \* per thread, those whose edges it reads; it never changes
  next,    \* the thread start is at, past the last once all were spawned
  phase,   \* per thread, how far its task is
  open,    \* per thread: its workables, and so its edges, are still there
  done,    \* per thread, how its task ended
  calls,   \* per thread, on_done callbacks it is through with
  slot,    \* the bundle's callbacks are still in their slot
  fires,   \* per thread, the bundle's callback it fires next
  writers, \* the application still holds its writers
  joins,   \* what join returned, in registration order
  called,  \* history: per thread, calls of each of its on_done callbacks
  log      \* history: calls of the bundle's callbacks

vars == <<feeders, next, phase, open, done, calls, slot, fires, writers, joins, called, log>>

Threads == 1 .. NumThreads
\* inject adds its hook only if there is something to fire.
Hook == NumDone + 1
LastCall == IF NumFirst = 0 THEN NumDone ELSE Hook

Acyclic(f) ==
  \E rank \in [Threads -> Threads] : \A t \in Threads : \A u \in f[t] : rank[u] < rank[t]

Init ==
  /\ feeders \in [Threads -> SUBSET Threads] /\ Acyclic(feeders)
  /\ next = 1
  /\ phase = [t \in Threads |-> "bundled"]
  /\ open = [t \in Threads |-> TRUE]
  /\ done = [t \in Threads |-> "close"]
  /\ calls = [t \in Threads |-> 0]
  /\ slot = TRUE
  /\ fires = [t \in Threads |-> NumFirst + 1]
  /\ writers = TRUE
  /\ joins = <<>>
  /\ called = [t \in Threads |-> [c \in 1 .. NumDone |-> 0]]
  /\ log = <<>>
-----------------------------------------------------------------------------
(* start: one spawn after the other. *)

Spawns(t) ==
  /\ next = t
  /\ phase[t] = "bundled"
  /\ phase' = [phase EXCEPT ![t] = "running"]
  /\ next' = next + 1
  /\ UNCHANGED <<feeders, open, done, calls, slot, fires, writers, joins, called, log>>

\* Mutant: the guard drops before the workables do.
RefusesGuardFirst(t) ==
  /\ next = t
  /\ phase[t] = "bundled"
  /\ phase' = [phase EXCEPT ![t] = "firing"]
  /\ done' = [done EXCEPT ![t] = "refused"]
  /\ UNCHANGED <<feeders, next, open, calls, slot, fires, writers, joins, called, log>>

\* The OS refuses: the task drops unrun, on the starter, which goes on to the
\* next thread only when all of that is over.
Refuses(t) ==
  /\ next = t
  /\ phase[t] = "bundled"
  /\ phase' = [phase EXCEPT ![t] = "dropping"]
  /\ done' = [done EXCEPT ![t] = "refused"]
  /\ UNCHANGED <<feeders, next, open, calls, slot, fires, writers, joins, called, log>>
-----------------------------------------------------------------------------
(* A task: it runs, its workables drop, its guard fires the callbacks. *)

Exits(t, how) ==
  /\ phase[t] = "running"
  /\ phase' = [phase EXCEPT ![t] = "dropping"]
  /\ done' = [done EXCEPT ![t] = how]
  /\ UNCHANGED <<feeders, next, open, calls, slot, fires, writers, joins, called, log>>

\* All the inputs are closed: the loop runs out of workables.
RunsOut(t) ==
  /\ \A u \in feeders[t] : ~open[u]
  /\ feeders[t] = {} => ~writers
  /\ Exits(t, "close")

\* A push found its receiver gone.
PushCloses(t) ==
  /\ \E u \in Threads : t \in feeders[u] /\ ~open[u]
  /\ Exits(t, "close")

\* A routine's error, a graph that does not build, a panic.
Fails(t) == \E how \in {"error", "panic"} : Exits(t, how)

DropsWorkables(t) ==
  /\ phase[t] = "dropping"
  /\ open' = [open EXCEPT ![t] = FALSE]
  /\ phase' = [phase EXCEPT ![t] = "firing"]
  /\ UNCHANGED <<feeders, next, done, calls, slot, fires, writers, joins, called, log>>

\* Mutant: a panic takes the rest of the list with it.
AfterPanic(n, last, panics) == IF panics THEN last ELSE n
\* catch_unwind: whatever the n-th callback did, the next one follows.
After(n, last, panics) == n

\* Mutant: errors only.
IsError(how) == how = "error"
\* Failure::from_done.
IsFailure(how) == how # "close"

\* Mutant: the callbacks are copied from the slot.
SlotCopied(t) == slot
\* The latch: the first failure takes the callbacks, under the lock.
SlotAfter(t) == slot /\ ~IsFailure(done[t])

Firing(t) == phase[t] = "firing" /\ fires[t] > NumFirst

CallsUser(t) ==
  LET c == calls[t] + 1
  IN  /\ Firing(t) /\ c <= NumDone
      /\ called' = [called EXCEPT ![t][c] = @ + 1]
      /\ \E panics \in BOOLEAN : calls' = [calls EXCEPT ![t] = After(c, NumDone, panics)]
      /\ UNCHANGED <<feeders, next, phase, open, done, slot, fires, writers, joins, log>>

CallsHook(t) ==
  /\ Firing(t) /\ calls[t] = NumDone /\ LastCall = Hook
  /\ calls' = [calls EXCEPT ![t] = Hook]
  /\ fires' = IF slot /\ IsFailure(done[t]) THEN [fires EXCEPT ![t] = 1] ELSE fires
  /\ slot' = SlotAfter(t)
  /\ UNCHANGED <<feeders, next, phase, open, done, writers, joins, called, log>>

\* Still inside the hook: the bundle's callbacks, in registration order.
FiresFirst(t) ==
  /\ phase[t] = "firing" /\ fires[t] <= NumFirst
  /\ log' = Append(log, [by |-> t, cb |-> fires[t]])
  /\ \E panics \in BOOLEAN :
       fires' = [fires EXCEPT ![t] = After(@, NumFirst, panics /\ @ < NumFirst) + 1]
  /\ UNCHANGED <<feeders, next, phase, open, done, calls, slot, writers, joins, called>>

\* Mutant: any thread that ends lets start go on.
StartGoesOn(t) == next + 1
\* The refused spawn returns to start.
NextAfter(t) == IF done[t] = "refused" THEN next + 1 ELSE next

TaskEnds(t) ==
  /\ Firing(t) /\ calls[t] = LastCall
  /\ phase' = [phase EXCEPT ![t] = "ended"]
  /\ next' = NextAfter(t)
  /\ UNCHANGED <<feeders, open, done, calls, slot, fires, writers, joins, called, log>>
-----------------------------------------------------------------------------
(* The application: its last callback tells it to close its writers; it may
   also close them when it likes.  It joins the threads in order. *)

Told == \E k \in DOMAIN log : log[k].cb = NumFirst

ClosesWriters ==
  /\ writers
  /\ writers' = FALSE
  /\ UNCHANGED <<feeders, next, phase, open, done, calls, slot, fires, joins, called, log>>

JoinOf(how) == CASE how = "close" -> "ok" [] how = "panic" -> "panic" [] OTHER -> "error"

Joins ==
  LET t == Len(joins) + 1
  IN  /\ next > NumThreads /\ t <= NumThreads
      /\ phase[t] = "ended"
      /\ joins' = Append(joins, JoinOf(done[t]))
      /\ UNCHANGED <<feeders, next, phase, open, done, calls, slot, fires, writers, called, log>>
-----------------------------------------------------------------------------
Ending(t) == DropsWorkables(t) \/ CallsUser(t) \/ CallsHook(t) \/ FiresFirst(t) \/ TaskEnds(t)

Next ==
  \/ \E t \in Threads : \/ Spawns(t) \/ Refuses(t)
                        \/ RunsOut(t) \/ PushCloses(t) \/ Fails(t)
                        \/ Ending(t)
  \/ ClosesWriters
  \/ Joins

Spec == Init /\ [][Next]_vars

\* Every thread is scheduled, the starter too; callbacks return; what was told
\* to close its writers does.
Fairness ==
  /\ \A t \in Threads : WF_vars(Spawns(t) \/ Refuses(t)) /\ WF_vars(RunsOut(t)) /\ WF_vars(Ending(t))
  /\ WF_vars(Told /\ ClosesWriters)
  /\ WF_vars(Joins)

LiveSpec == Spec /\ Fairness
-----------------------------------------------------------------------------
Phases == {"bundled", "running", "dropping", "firing", "ended"}
TypeOK ==
  /\ feeders \in [Threads -> SUBSET Threads]
  /\ next \in 1 .. NumThreads + 1
  /\ phase \in [Threads -> Phases]
  /\ open \in [Threads -> BOOLEAN]
  /\ done \in [Threads -> {"close", "error", "panic", "refused"}]
  /\ calls \in [Threads -> 0 .. Hook]
  /\ slot \in BOOLEAN /\ writers \in BOOLEAN
  /\ fires \in [Threads -> 1 .. NumFirst + 1]
  /\ joins \in Seq({"ok", "error", "panic"}) /\ Len(joins) <= NumThreads
  /\ called \in [Threads -> [1 .. NumDone -> Nat]]
  /\ log \in Seq([by : Threads, cb : 1 .. NumFirst])

(* stream.rs, on_done: "Each registered callback fires exactly once, on any
   exit path", and "By the time the callback runs the workables have already
   dropped": also for a thread that never started. *)
DoneFiresOnceAfterDrop ==
  \A t \in Threads : \A c \in 1 .. NumDone :
    /\ called[t][c] <= 1
    /\ called[t][c] > 0 => ~open[t]
    /\ phase[t] = "ended" => called[t][c] = 1

(* core.rs, on_first_error: each fires at most once, all of them in
   registration order, on whichever thread wins the race: the calls so far are
   the first callbacks, one each, all by one thread, and it failed. *)
OneFailureFires ==
  log # <<>> =>
    \E t \in Threads : /\ IsFailure(done[t])
                       /\ \A k \in DOMAIN log : log[k] = [by |-> t, cb |-> k]

(* A caller that has joined the bundle knows what its callbacks know: if any
   thread failed all have fired by then, if none did none ever will.  The code
   keeps this because a task fires its callbacks before it returns, and join
   waits for the task.  It is more than the doc promises: core.rs 60-61 says
   that callbacks may fire "before, during, or after" the join, and after it
   they never do. *)
JoinedMeansFired ==
  Len(joins) = NumThreads =>
    Len(log) = IF \E t \in DOMAIN joins : joins[t] # "ok" THEN NumFirst ELSE 0

(* One thread's failure reaches the application although a callback before
   panics, or the failed thread is not the first to be joined: the whole
   bundle ends and is joined. *)
FailureEndsAll ==
  (NumFirst > 0 /\ \E t \in Threads : phase[t] = "dropping" /\ done[t] # "close")
    ~> Len(joins) = NumThreads
=============================================================================
