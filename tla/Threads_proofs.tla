--------------------------- MODULE Threads_proofs ---------------------------
(***************************************************************************)
(* Proofs about what threads sleep in and end with: Parker, for any set of *)
(* threads that hold its waker, and ThreadBundle, for any number of        *)
(* threads and of callbacks.                                               *)
(***************************************************************************)
EXTENDS Parker, ThreadBundle, TLAPS

\* The parker's variables have their types in every reachable state
\* (wake/parker.rs: a token, a flag, and at most one sleeping thread).
THEOREM ParkerTyped == ParkerSpec => []ParkerTypeOK
<1>1. ParkerInit => ParkerTypeOK
  BY DEF ParkerInit, ParkerTypeOK, Deadlines
<1>2. ParkerTypeOK /\ [ParkerNext]_parkerVars => ParkerTypeOK'
  <2> SUFFICES ASSUME ParkerTypeOK, [ParkerNext]_parkerVars PROVE ParkerTypeOK'
    OBVIOUS
  <2> USE DEF ParkerTypeOK, Deadlines
  <2>1. ASSUME NEW d \in Deadlines, Park(d) PROVE ParkerTypeOK'
    BY <2>1 DEF Park
  <2>2. CASE Recheck
    BY <2>2 DEF Recheck, LeaveAtDeadline
  <2>3. ASSUME NEW t \in Wakers, Wake(t) PROVE ParkerTypeOK'
    BY <2>3 DEF Wake
  <2>4. ASSUME NEW t \in Wakers, Notify(t) PROVE ParkerTypeOK'
    BY <2>4 DEF Notify
  <2>5. CASE Tick \/ TimedOut \/ SpuriousReturn
    BY <2>5 DEF Tick, TimedOut, SpuriousReturn
  <2>6. CASE UNCHANGED parkerVars
    BY <2>6 DEF parkerVars
  <2>7. QED
    BY <2>1, <2>2, <2>3, <2>4, <2>5, <2>6 DEF ParkerNext
<1>3. QED
  BY <1>1, <1>2, PTL DEF ParkerSpec

-----------------------------------------------------------------------------
(* NoLostWake is not inductive by itself: a resumed thread that finds no    *)
(* token sleeps again, so what holds of a sleeping thread must already hold *)
(* of a resumed one, except that nobody needs to notify it any more.  And a *)
(* wake clears the flag as it leaves the token, so the two never meet: the  *)
(* park that consumes a token has no flag to clear.                         *)
ParkerInv ==
  /\ NoLostWake
  /\ AwakeAsksNoNotify
  /\ sleeper = "resumed" /\ ~token => parked
  /\ token => ~parked

LEMMA ParkerInvariant == ParkerSpec => []ParkerInv
<1> USE DEF ParkerInv, NoLostWake, AwakeAsksNoNotify
<1>1. ParkerInit => ParkerInv
  BY DEF ParkerInit
<1>2. ParkerTypeOK /\ ParkerInv /\ [ParkerNext]_parkerVars => ParkerInv'
  <2> SUFFICES ASSUME ParkerTypeOK, ParkerInv, [ParkerNext]_parkerVars
               PROVE  ParkerInv'
    OBVIOUS
  <2> USE DEF ParkerTypeOK
  <2>1. ASSUME NEW d \in Deadlines, Park(d) PROVE ParkerInv'
    BY <2>1 DEF Park
  <2>2. CASE Recheck
    BY <2>2 DEF Recheck, LeaveAtDeadline
  <2>3. ASSUME NEW t \in Wakers, Wake(t) PROVE ParkerInv'
    BY <2>3 DEF Wake
  <2>4. ASSUME NEW t \in Wakers, Notify(t) PROVE ParkerInv'
    BY <2>4 DEF Notify
  <2>5. CASE Tick
    BY <2>5 DEF Tick
  <2>6. CASE TimedOut \/ SpuriousReturn
    BY <2>6 DEF TimedOut, SpuriousReturn
  <2>7. CASE UNCHANGED parkerVars
    BY <2>7 DEF parkerVars
  <2>8. QED
    BY <2>1, <2>2, <2>3, <2>4, <2>5, <2>6, <2>7 DEF ParkerNext
<1>3. QED
  BY <1>1, <1>2, ParkerTyped, PTL DEF ParkerSpec

\* A wake between its critical section and its notify is never lost, and a
\* parker that left asks nobody to notify it (sleep and wake_by_ref).
THEOREM ParkerWakesKept == ParkerSpec => [](NoLostWake /\ AwakeAsksNoNotify)
<1>1. ParkerInv => NoLostWake /\ AwakeAsksNoNotify
  BY DEF ParkerInv
<1> QED
  BY <1>1, ParkerInvariant, PTL

\* A wake is never spent on a thread that keeps sleeping, and the park it ends,
\* or that a deadline ends, leaves neither a token nor a request behind: a wake
\* that left the token had cleared the flag.
THEOREM TokensEndParks == ParkerSpec => TokenEndsAPark
<1> DEFINE Ends == /\ token /\ ~token' => sleeper' = "awake" /\ sleeper # "asleep"
                   /\ sleeper # "awake" /\ sleeper' = "awake" => ~token' /\ ~parked'
<1>1. ParkerTypeOK /\ ParkerInv /\ [ParkerNext]_parkerVars => [Ends]_parkerVars
  BY DEF ParkerTypeOK, ParkerInv, ParkerNext, Park, Recheck, LeaveAtDeadline, Wake, Notify, Tick,
         TimedOut, SpuriousReturn, parkerVars
<1>2. QED
  BY <1>1, ParkerTyped, ParkerInvariant, PTL DEF ParkerSpec, TokenEndsAPark

-----------------------------------------------------------------------------
(* ThreadBundle.                                                            *)

(* The threads' own records are inductive only with one another: how far a  *)
(* thread is says what it has called and whether its edges are still open,  *)
(* and start is still at a thread that it could not spawn.                  *)
Stage(t) ==
  /\ phase[t] = "bundled" => done[t] = "close"
  /\ phase[t] \in {"bundled", "running", "dropping"} =>
       calls[t] = 0 /\ fires[t] = NumFirst + 1
  /\ phase[t] \in {"firing", "ended"} => ~open[t]
  /\ phase[t] = "ended" => calls[t] = LastCall /\ fires[t] = NumFirst + 1
  /\ calls[t] <= LastCall
  /\ done[t] = "refused" /\ phase[t] # "ended" => next = t
  /\ \A c \in 1 .. NumDone : called[t][c] = IF c <= calls[t] THEN 1 ELSE 0

(* The latch: full, no thread that failed is past its hook; empty, one      *)
(* thread that failed is, and the calls so far are those it made.           *)
Latched ==
  /\ log = <<>>
  /\ \A t \in Threads : /\ fires[t] = NumFirst + 1
                        /\ calls[t] = Hook => ~IsFailure(done[t])
Taken(w) ==
  /\ NumFirst > 0 /\ IsFailure(done[w]) /\ calls[w] = Hook
  /\ \A t \in Threads \ {w} : fires[t] = NumFirst + 1
  /\ Len(log) = fires[w] - 1
  /\ \A k \in 1 .. Len(log) : log[k] = [by |-> w, cb |-> k]
Latch == IF slot THEN Latched ELSE \E w \in Threads : Taken(w)

Joined ==
  \A t \in 1 .. Len(joins) : phase[t] = "ended" /\ joins[t] = JoinOf(done[t])

BundleInv == TypeOK /\ (\A t \in Threads : Stage(t)) /\ Latch /\ Joined

LEMMA InitInv == Init => BundleInv
<1> SUFFICES ASSUME Init PROVE BundleInv
  OBVIOUS
<1> USE BundleAssumption DEF Init
<1>1. TypeOK
  BY DEF TypeOK, Threads, Hook, Phases
<1>2. \A t \in Threads : Stage(t)
  BY DEF Stage, LastCall, Hook
<1>3. Latch
  BY DEF Latch, Latched, Hook
<1>4. Joined
  BY DEF Joined
<1>5. QED
  BY <1>1, <1>2, <1>3, <1>4 DEF BundleInv

\* start moves on from the thread it is at.
LEMMA SpawnKeeps ==
  ASSUME BundleInv, NEW t \in Threads, Spawns(t) \/ Refuses(t)
  PROVE  BundleInv'
<1> USE BundleAssumption DEF BundleInv
<1>1. TypeOK'
  <2>1. next + 1 \in 1 .. NumThreads + 1
    BY DEF Spawns, Refuses, Threads
  <2>2. CASE Spawns(t)
    BY <2>1, <2>2 DEF TypeOK, Spawns, Phases
  <2>3. CASE Refuses(t)
    BY <2>3 DEF TypeOK, Refuses, Phases
  <2>4. QED
    BY <2>2, <2>3
<1>2. ASSUME NEW u \in Threads PROVE Stage(u)'
  <2>1. Stage(u) /\ next = t /\ phase[t] = "bundled" /\ UNCHANGED <<calls, fires, open, called>>
    BY <1>2 DEF Spawns, Refuses
  <2>2. CASE u = t
    BY <2>1, <2>2 DEF Stage, Spawns, Refuses, TypeOK
  <2>3. CASE u # t
    <3>1. phase'[u] = phase[u] /\ done'[u] = done[u]
      BY <2>3 DEF Spawns, Refuses, TypeOK
    <3>2. ~(done[u] = "refused" /\ phase[u] # "ended")
      BY <2>1, <2>3 DEF Stage
    <3>3. QED
      BY <2>1, <3>1, <3>2 DEF Stage
  <2>4. QED
    BY <2>2, <2>3
<1>3. Latch'
  <2>1. calls[t] = 0 /\ 0 # Hook
    BY DEF Stage, Spawns, Refuses, Hook
  <2>2. CASE slot
    BY <2>1, <2>2 DEF Latch, Latched, Spawns, Refuses, TypeOK, IsFailure
  <2>3. CASE ~slot
    <3>1. PICK w \in Threads : Taken(w)
      BY <2>3 DEF Latch
    <3>2. w # t
      BY <3>1, <2>1 DEF Taken
    <3>3. Taken(w)'
      BY <3>1, <3>2 DEF Taken, Spawns, Refuses, TypeOK, IsFailure
    <3>4. QED
      BY <2>3, <3>3 DEF Latch, Spawns, Refuses
  <2>4. QED
    BY <2>2, <2>3
<1>4. Joined'
  <2>1. \A u \in 1 .. Len(joins) : u \in Threads /\ u # t
    BY DEF Joined, Spawns, Refuses, TypeOK, Threads
  <2>2. \A u \in 1 .. Len(joins) : phase'[u] = phase[u] /\ done'[u] = done[u]
    BY <2>1 DEF Spawns, Refuses, TypeOK
  <2>3. QED
    BY <2>2 DEF Joined, Spawns, Refuses
<1>5. QED
  BY <1>1, <1>2, <1>3, <1>4

\* A running task ends, and drops what it worked.
LEMMA ExitKeeps ==
  ASSUME BundleInv, NEW t \in Threads,
         (\E how \in {"close", "error", "panic"} : Exits(t, how)) \/ DropsWorkables(t)
  PROVE  BundleInv'
<1> USE BundleAssumption DEF BundleInv
<1>1. TypeOK'
  BY DEF TypeOK, Exits, DropsWorkables, Threads, Phases
<1>2. ASSUME NEW u \in Threads PROVE Stage(u)'
  <2>1. Stage(u) /\ UNCHANGED <<calls, fires, called, next>>
    BY <1>2 DEF Exits, DropsWorkables
  <2>2. CASE u = t
    BY <2>1, <2>2 DEF Stage, Exits, DropsWorkables, TypeOK
  <2>3. CASE u # t
    <3>1. phase'[u] = phase[u] /\ done'[u] = done[u] /\ open'[u] = open[u]
      BY <2>3 DEF Exits, DropsWorkables, TypeOK
    <3>2. QED
      BY <2>1, <3>1 DEF Stage
  <2>4. QED
    BY <2>2, <2>3
<1>3. Latch'
  <2>1. calls[t] = 0 /\ 0 # Hook
    BY DEF Stage, Exits, DropsWorkables, Hook
  <2>2. CASE slot
    BY <2>1, <2>2 DEF Latch, Latched, Exits, DropsWorkables, TypeOK, IsFailure
  <2>3. CASE ~slot
    <3>1. PICK w \in Threads : Taken(w)
      BY <2>3 DEF Latch
    <3>2. w # t
      BY <3>1, <2>1 DEF Taken
    <3>3. Taken(w)'
      BY <3>1, <3>2 DEF Taken, Exits, DropsWorkables, TypeOK, IsFailure
    <3>4. QED
      BY <2>3, <3>3 DEF Latch, Exits, DropsWorkables
  <2>4. QED
    BY <2>2, <2>3
<1>4. Joined'
  <2>1. \A u \in 1 .. Len(joins) : u \in Threads /\ u # t
    BY DEF Joined, Exits, DropsWorkables, TypeOK, Threads
  <2>2. \A u \in 1 .. Len(joins) : phase'[u] = phase[u] /\ done'[u] = done[u]
    BY <2>1 DEF Exits, DropsWorkables, TypeOK
  <2>3. QED
    BY <2>2 DEF Joined, Exits, DropsWorkables
<1>5. QED
  BY <1>1, <1>2, <1>3, <1>4

\* One of the user's on_done callbacks.
LEMMA UserKeeps ==
  ASSUME BundleInv, NEW t \in Threads, CallsUser(t)
  PROVE  BundleInv'
<1> USE BundleAssumption DEF BundleInv
<1>0. /\ calls[t] + 1 <= NumDone
      /\ calls' = [calls EXCEPT ![t] = calls[t] + 1]
      /\ called' = [called EXCEPT ![t][calls[t] + 1] = @ + 1]
  BY DEF CallsUser, After
<1>1. TypeOK'
  <2>1. calls' \in [Threads -> 0 .. Hook]
    BY <1>0 DEF TypeOK, Hook
  <2>2. calls[t] + 1 \in 1 .. NumDone
    BY <1>0 DEF TypeOK, Hook
  <2> DEFINE c == calls[t] + 1
  <2>3. called' \in [Threads -> [1 .. NumDone -> Nat]]
    <3>1. called \in [Threads -> [1 .. NumDone -> Nat]]
      BY DEF TypeOK
    <3>5. called[t] \in [1 .. NumDone -> Nat]
      BY <3>1
    <3>6. called[t][c] + 1 \in Nat
      BY <2>2, <3>5
    <3>2. [called[t] EXCEPT ![c] = called[t][c] + 1] \in [1 .. NumDone -> Nat]
      BY <2>2, <3>5, <3>6
    <3>3. called' = [called EXCEPT ![t] = [called[t] EXCEPT ![c] = called[t][c] + 1]]
      BY <1>0, <3>1
    <3> HIDE DEF c
    <3>4. QED
      BY <3>1, <3>2, <3>3
  <2>4. QED
    BY <2>1, <2>3 DEF TypeOK, CallsUser
<1>2. ASSUME NEW u \in Threads PROVE Stage(u)'
  <2>1. Stage(u) /\ UNCHANGED <<phase, done, open, fires, next>>
    BY <1>2 DEF CallsUser
  <2>2. CASE u = t
    <3>1. phase[t] = "firing"
      BY DEF CallsUser, Firing
    <3>2. calls'[t] = calls[t] + 1 /\ calls[t] \in Nat /\ calls[t] + 1 \in 1 .. NumDone
      BY <1>0 DEF TypeOK, Hook
    <3>3. calls'[t] <= LastCall
      BY <3>2 DEF LastCall, Hook
    <3>4. ASSUME NEW c \in 1 .. NumDone
          PROVE  called'[t][c] = IF c <= calls'[t] THEN 1 ELSE 0
      <4>1. called[t][c] = IF c <= calls[t] THEN 1 ELSE 0
        BY <2>1, <2>2 DEF Stage
      <4>2. called'[t][c] = IF c = calls[t] + 1 THEN called[t][c] + 1 ELSE called[t][c]
        BY <1>0, <3>2 DEF TypeOK
      <4>3. QED
        BY <3>2, <4>1, <4>2
    <3>5. QED
      BY <2>1, <2>2, <3>1, <3>3, <3>4 DEF Stage
  <2>3. CASE u # t
    <3>1. calls'[u] = calls[u] /\ called'[u] = called[u]
      BY <1>0, <2>3 DEF TypeOK
    <3>2. QED
      BY <2>1, <3>1 DEF Stage
  <2>4. QED
    BY <2>2, <2>3
<1>3. Latch'
  <2>1. calls[t] # Hook /\ calls'[t] # Hook
    BY <1>0 DEF TypeOK, Hook
  <2>2. CASE slot
    BY <1>0, <2>1, <2>2 DEF Latch, Latched, CallsUser, TypeOK
  <2>3. CASE ~slot
    <3>1. PICK w \in Threads : Taken(w)
      BY <2>3 DEF Latch
    <3>2. Taken(w)'
      BY <1>0, <2>1, <3>1 DEF Taken, CallsUser, TypeOK
    <3>3. QED
      BY <2>3, <3>2 DEF Latch, CallsUser
  <2>4. QED
    BY <2>2, <2>3
<1>4. Joined'
  BY DEF Joined, CallsUser
<1>5. QED
  BY <1>1, <1>2, <1>3, <1>4

\* The injected hook: the first failure takes the bundle's callbacks.
LEMMA HookKeeps ==
  ASSUME BundleInv, NEW t \in Threads, CallsHook(t)
  PROVE  BundleInv'
<1> USE BundleAssumption DEF BundleInv
<1>1. TypeOK'
  <2>1. calls' \in [Threads -> 0 .. Hook]
    BY DEF TypeOK, CallsHook, Hook
  <2>2. fires' \in [Threads -> 1 .. NumFirst + 1]
    BY DEF TypeOK, CallsHook
  <2>3. slot' \in BOOLEAN
    BY DEF TypeOK, CallsHook, SlotAfter, IsFailure
  <2>4. QED
    BY <2>1, <2>2, <2>3 DEF TypeOK, CallsHook
<1>2. ASSUME NEW u \in Threads PROVE Stage(u)'
  <2>1. Stage(u) /\ UNCHANGED <<phase, done, open, called, next>>
    BY <1>2 DEF CallsHook
  <2>2. CASE u = t
    <3>1. phase[t] = "firing" /\ calls[t] = NumDone /\ calls'[t] = NumDone + 1 /\ calls'[t] <= LastCall
      BY DEF CallsHook, Firing, TypeOK, Hook
    <3>2. QED
      BY <2>1, <2>2, <3>1 DEF Stage
  <2>3. CASE u # t
    <3>1. calls'[u] = calls[u] /\ fires'[u] = fires[u]
      BY <2>3 DEF CallsHook, TypeOK
    <3>2. QED
      BY <2>1, <3>1 DEF Stage
  <2>4. QED
    BY <2>2, <2>3
<1>0. NumFirst > 0
  BY DEF CallsHook, LastCall, Hook
<1>3. Latch'
  <2>1. CASE slot /\ IsFailure(done[t])
    <3>1. Taken(t)'
      BY <1>0, <2>1 DEF CallsHook, Latch, Latched, Taken, TypeOK, IsFailure
    <3>2. QED
      BY <2>1, <3>1 DEF Latch, CallsHook, SlotAfter
  <2>2. CASE slot /\ ~IsFailure(done[t])
    BY <2>2 DEF CallsHook, SlotAfter, Latch, Latched, TypeOK, IsFailure
  <2>3. CASE ~slot
    <3>1. PICK w \in Threads : Taken(w)
      BY <2>3 DEF Latch
    <3>2. Taken(w)'
      BY <2>3, <3>1 DEF Taken, CallsHook, TypeOK, IsFailure
    <3>3. QED
      BY <2>3, <3>2 DEF Latch, CallsHook, SlotAfter
  <2>4. QED
    BY <2>1, <2>2, <2>3
<1>4. Joined'
  BY DEF Joined, CallsHook
<1>5. QED
  BY <1>1, <1>2, <1>3, <1>4

\* The next of the bundle's callbacks.
LEMMA FireKeeps ==
  ASSUME BundleInv, NEW t \in Threads, FiresFirst(t)
  PROVE  BundleInv'
<1> USE BundleAssumption DEF BundleInv
<1>0. /\ fires[t] \in 1 .. NumFirst
      /\ fires' = [fires EXCEPT ![t] = fires[t] + 1]
      /\ log' = Append(log, [by |-> t, cb |-> fires[t]])
  BY DEF FiresFirst, After, TypeOK
<1>1. TypeOK'
  <2>1. fires' \in [Threads -> 1 .. NumFirst + 1]
    BY <1>0 DEF TypeOK
  <2>2. [by |-> t, cb |-> fires[t]] \in [by : Threads, cb : 1 .. NumFirst]
    BY <1>0
  <2>3. log' \in Seq([by : Threads, cb : 1 .. NumFirst])
    BY <1>0, <2>2 DEF TypeOK
  <2>4. QED
    BY <2>1, <2>3 DEF TypeOK, FiresFirst
<1>2. ASSUME NEW u \in Threads PROVE Stage(u)'
  <2>1. Stage(u) /\ UNCHANGED <<phase, done, open, called, calls, next>>
    BY <1>2 DEF FiresFirst
  <2>2. CASE u = t
    BY <2>1, <2>2 DEF Stage, FiresFirst
  <2>3. CASE u # t
    <3>1. fires'[u] = fires[u]
      BY <1>0, <2>3 DEF TypeOK
    <3>2. QED
      BY <2>1, <3>1 DEF Stage
  <2>4. QED
    BY <2>2, <2>3
<1>3. Latch'
  <2>1. ~slot
    BY <1>0 DEF Latch, Latched
  <2>2. Taken(t)
    BY <1>0, <2>1 DEF Latch, Taken
  <2>3. /\ Len(log') = Len(log) + 1
        /\ \A k \in 1 .. Len(log) : log'[k] = log[k]
        /\ log'[Len(log) + 1] = [by |-> t, cb |-> fires[t]]
    BY <1>0 DEF TypeOK
  <2>4. Taken(t)'
    BY <1>0, <2>2, <2>3 DEF Taken, FiresFirst, TypeOK, IsFailure
  <2>5. QED
    BY <2>1, <2>4 DEF Latch, FiresFirst
<1>4. Joined'
  BY DEF Joined, FiresFirst
<1>5. QED
  BY <1>1, <1>2, <1>3, <1>4

\* The task is over.
LEMMA EndKeeps ==
  ASSUME BundleInv, NEW t \in Threads, TaskEnds(t)
  PROVE  BundleInv'
<1> USE BundleAssumption DEF BundleInv
<1>0. fires[t] = NumFirst + 1 /\ phase[t] = "firing" /\ calls[t] = LastCall
  BY DEF TaskEnds, Firing, TypeOK
<1>1. TypeOK'
  <2>1. next' \in 1 .. NumThreads + 1
    BY <1>0 DEF TypeOK, TaskEnds, NextAfter, Stage, Threads
  <2>2. QED
    BY <2>1 DEF TypeOK, TaskEnds, Phases
<1>2. ASSUME NEW u \in Threads PROVE Stage(u)'
  <2>1. Stage(u) /\ UNCHANGED <<done, open, called, calls, fires>>
    BY <1>2 DEF TaskEnds
  <2>2. CASE u = t
    BY <1>0, <2>1, <2>2 DEF Stage, TaskEnds, TypeOK
  <2>3. CASE u # t
    <3>1. phase'[u] = phase[u]
      BY <2>3 DEF TaskEnds, TypeOK
    <3>2. done[u] = "refused" /\ phase[u] # "ended" => next' = next
      BY <1>0, <2>1, <2>3 DEF Stage, TaskEnds, NextAfter
    <3>3. QED
      BY <2>1, <3>1, <3>2 DEF Stage
  <2>4. QED
    BY <2>2, <2>3
<1>3. Latch'
  BY DEF Latch, Latched, Taken, TaskEnds, IsFailure
<1>4. Joined'
  <2>1. \A u \in 1 .. Len(joins) : u \in Threads
    BY DEF TypeOK, Threads
  <2>2. \A u \in 1 .. Len(joins) : phase[u] = "ended" => phase'[u] = "ended"
    BY <2>1 DEF TaskEnds, TypeOK
  <2>3. QED
    BY <2>2 DEF Joined, TaskEnds
<1>5. QED
  BY <1>1, <1>2, <1>3, <1>4

\* join hands out one more result.
LEMMA JoinKeeps ==
  ASSUME BundleInv, Joins
  PROVE  BundleInv'
<1> USE BundleAssumption DEF BundleInv
<1> DEFINE t == Len(joins) + 1
<1>0. /\ t \in Threads /\ phase[t] = "ended"
      /\ joins' = Append(joins, JoinOf(done[t]))
  BY DEF Joins, TypeOK, Threads
<1>1. TypeOK'
  BY <1>0 DEF TypeOK, Joins, JoinOf, Threads
<1>2. \A u \in Threads : Stage(u)'
  BY DEF Joins, Stage
<1>3. Latch'
  BY DEF Latch, Latched, Taken, Joins, IsFailure
<1>4. Joined'
  <2>0. joins \in Seq({"ok", "error", "panic"}) /\ JoinOf(done[t]) \in {"ok", "error", "panic"}
    BY DEF TypeOK, JoinOf
  <2>1. /\ Len(joins') = t /\ joins'[t] = JoinOf(done[t])
        /\ \A u \in 1 .. Len(joins) : joins'[u] = joins[u]
    BY <1>0, <2>0
  <2>2. Len(joins) \in Nat /\ UNCHANGED <<phase, done>>
    BY <2>0 DEF Joins
  <2>3. SUFFICES ASSUME NEW u \in 1 .. Len(joins')
                 PROVE  phase[u] = "ended" /\ joins'[u] = JoinOf(done[u])
    BY <2>2 DEF Joined, JoinOf
  <2>4. CASE u = t
    BY <1>0, <2>1, <2>4
  <2>5. CASE u # t
    <3>1. u \in 1 .. Len(joins)
      BY <2>1, <2>2, <2>5
    <3>2. QED
      BY <2>1, <3>1 DEF Joined
  <2>6. QED
    BY <2>4, <2>5
<1>5. QED
  BY <1>1, <1>2, <1>3, <1>4

LEMMA NextKeeps ==
  ASSUME BundleInv, [Next]_vars PROVE BundleInv'
<1>1. ASSUME NEW t \in Threads, Spawns(t) \/ Refuses(t) PROVE BundleInv'
  BY <1>1, SpawnKeeps
<1>2. ASSUME NEW t \in Threads, RunsOut(t) \/ PushCloses(t) \/ Fails(t) PROVE BundleInv'
  BY <1>2, ExitKeeps DEF RunsOut, PushCloses, Fails
<1>3. ASSUME NEW t \in Threads, Ending(t) PROVE BundleInv'
  BY <1>3, ExitKeeps, UserKeeps, HookKeeps, FireKeeps, EndKeeps DEF Ending
<1>4. CASE Joins
  BY <1>4, JoinKeeps
<1>5. CASE ClosesWriters \/ UNCHANGED vars
  <2>1. /\ UNCHANGED <<feeders, next, phase, open, done, calls, slot, fires, joins, called, log>>
        /\ writers' \in {FALSE, writers}
    BY <1>5 DEF ClosesWriters, vars
  <2>2. TypeOK'
    BY <2>1 DEF BundleInv, TypeOK
  <2>3. \A t \in Threads : Stage(t)'
    BY <2>1 DEF BundleInv, Stage
  <2>4. Latch' /\ Joined'
    BY <2>1 DEF BundleInv, Latch, Latched, Taken, IsFailure, Joined
  <2>5. QED
    BY <2>2, <2>3, <2>4 DEF BundleInv
<1>6. QED
  BY <1>1, <1>2, <1>3, <1>4, <1>5 DEF Next

\* The bundle's variables have their types (thread/bundle, thread/callback).
THEOREM BundleTyped == Spec => []TypeOK
<1>1. BundleInv => TypeOK
  BY DEF BundleInv
<1>2. QED
  BY <1>1, InitInv, NextKeeps, PTL DEF Spec

\* Whatever ends a thread, a refused spawn too, each of its on_done callbacks
\* fires exactly once, after its workables dropped (stream.rs into_task,
\* callback.rs InitGuard and RunGuard).
THEOREM DoneFires == Spec => []DoneFiresOnceAfterDrop
<1>1. BundleInv => DoneFiresOnceAfterDrop
  <2> SUFFICES ASSUME BundleInv, NEW t \in Threads, NEW c \in 1 .. NumDone
               PROVE  /\ called[t][c] <= 1
                      /\ called[t][c] > 0 => ~open[t]
                      /\ phase[t] = "ended" => called[t][c] = 1
    BY DEF DoneFiresOnceAfterDrop
  <2> USE BundleAssumption
  <2>1. TypeOK /\ Stage(t)
    BY DEF BundleInv
  <2>2. QED
    BY <2>1 DEF TypeOK, Stage, Phases, LastCall, Hook
<1>2. QED
  BY <1>1, InitInv, NextKeeps, PTL DEF Spec

\* However many threads fail at once, the bundle's callbacks fire at most once
\* each, in order, all on one thread that failed (first_error.rs inject).
THEOREM FirstErrorOnce == Spec => []OneFailureFires
<1>1. BundleInv => OneFailureFires
  <2> SUFFICES ASSUME BundleInv, log # <<>>
               PROVE  \E t \in Threads : /\ IsFailure(done[t])
                                         /\ \A k \in DOMAIN log : log[k] = [by |-> t, cb |-> k]
    BY DEF OneFailureFires
  <2>1. PICK w \in Threads : Taken(w)
    BY DEF BundleInv, Latch, Latched
  <2>2. DOMAIN log = 1 .. Len(log)
    BY DEF BundleInv, TypeOK
  <2>3. QED
    BY <2>1, <2>2 DEF Taken
<1>2. QED
  BY <1>1, InitInv, NextKeeps, PTL DEF Spec

\* Once every thread is joined all of the bundle's callbacks have fired, or,
\* when no join reports a failure, none has (core.rs start, join).
THEOREM JoinTellsAll == Spec => []JoinedMeansFired
<1>1. BundleInv => JoinedMeansFired
  <2> SUFFICES ASSUME BundleInv, Len(joins) = NumThreads
               PROVE  Len(log) = IF \E t \in DOMAIN joins : joins[t] # "ok" THEN NumFirst ELSE 0
    BY DEF JoinedMeansFired
  <2> USE BundleAssumption
  <2>1. DOMAIN joins = Threads /\ \A t \in Threads : phase[t] = "ended" /\ Stage(t)
    BY DEF BundleInv, TypeOK, Joined, Threads
  <2>2. \A t \in Threads : joins[t] # "ok" <=> IsFailure(done[t])
    BY <2>1 DEF BundleInv, Joined, JoinOf, IsFailure, Threads, TypeOK
  <2>3. CASE slot
    <3>1. log = <<>>
      BY <2>3 DEF BundleInv, Latch, Latched
    <3>2. NumFirst > 0 => \A t \in Threads : ~IsFailure(done[t])
      BY <2>1, <2>3 DEF BundleInv, Latch, Latched, Stage, LastCall
    <3>3. QED
      BY <3>1, <3>2, <2>1, <2>2
  <2>4. CASE ~slot
    <3>1. PICK w \in Threads : Taken(w)
      BY <2>4 DEF BundleInv, Latch
    <3>2. Len(log) = NumFirst
      BY <2>1, <3>1 DEF Taken, Stage
    <3>3. QED
      BY <2>1, <2>2, <3>1, <3>2 DEF Taken
  <2>5. QED
    BY <2>3, <2>4
<1>2. QED
  BY <1>1, InitInv, NextKeeps, PTL DEF Spec
=============================================================================
