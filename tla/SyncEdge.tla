------------------------------ MODULE SyncEdge ------------------------------
(***************************************************************************)
(* edge::sync - the bounded, closable, multi-producer single-consumer      *)
(* edge: one mutex-protected buffer, two condition variables, an atomic    *)
(* producer count, and a list of wakers for senders refused without        *)
(* blocking.                                                               *)
(*                                                                         *)
(* One step is one critical section of the mutex, one atomic operation on  *)
(* the count, or one notification or wake issued after the lock is         *)
(* released, so every interleaving the lock allows is a behaviour.  Mutex  *)
(* poisoning (a panic under the lock) is not modelled.                     *)
(***************************************************************************)
EXTENDS Integers, Sequences, FiniteSets

CONSTANTS
  Handles,    \* the sender handles a run can create; each is one producer thread
  Minted,     \* the handles Receiver::sender() minted before the run starts
  Wakers,     \* targets of wakers: two wakers are `will_wake` iff they are equal
  None,       \* Option::None for a handle's waker and its last refusal
  Bound,      \* the buffer's bound; 0 is None, an unbounded edge
  MaxSend,    \* BOUND: messages one handle lands
  MaxBinds    \* BOUND: times one handle is bound to another waker

ASSUME SyncEdgeAssumption ==
  /\ IsFiniteSet(Handles)
  /\ Minted \subseteq Handles
  /\ Bound \in Nat
  /\ MaxSend \in Nat
  /\ MaxBinds \in Nat
  /\ None \notin Wakers
  /\ None \notin Nat
  /\ "rx" \notin Handles

VARIABLES
  \* Inner, guarded by the mutex
  buffer, closed, consumerWaiting, producersWaiting, progress, refused,
  \* Shared::producer_count, an atomic outside the mutex
  producerCount,
  \* one Sender: life cycle, and its fields
  status, refusedAt, waker,
  \* threads: where each producer and the receiver stand
  pc, outcome, rx, call, freed,
  owed,       \* refusals a thread took under the lock and has still to wake
  woken,      \* wakers woken and not yet answered by a retry
  \* history: messages landed and delivered per handle, wakers bound, and
  \* whether a read told the consumer Closed
  sent, got, binds, ended

inner   == <<buffer, closed, consumerWaiting, producersWaiting, progress, refused>>
sender  == <<status, refusedAt, waker, binds>>
vars    == <<inner, sender, producerCount, pc, outcome, rx, call, freed, owed,
             woken, sent, got, ended>>

Threads == Handles \cup {"rx"}
Parked  == {h \in Handles : pc[h] = "parked"}      \* in not_full's wait set
Resumed == {h \in Handles : pc[h] = "resumed"}     \* notified, lock not yet retaken
Open    == {h \in Handles : status[h] = "open"}

IsFull == Bound # 0 /\ Len(buffer) >= Bound

Init ==
  /\ buffer = <<>> /\ closed = FALSE /\ consumerWaiting = FALSE
  /\ producersWaiting = 0 /\ progress = 0 /\ refused = <<>>
  /\ producerCount = Cardinality(Minted)
  /\ status = [h \in Handles |-> IF h \in Minted THEN "open" ELSE "unborn"]
  /\ refusedAt = [h \in Handles |-> None]
  /\ waker = [h \in Handles |-> None]
  /\ pc = [h \in Handles |-> "idle"]
  /\ outcome = [h \in Handles |-> "Pushed"]
  /\ rx = "idle" /\ call = "none" /\ freed = "none"
  /\ owed = [t \in Threads |-> <<>>]
  /\ woken = {}
  /\ sent = [h \in Handles |-> 0] /\ got = [h \in Handles |-> 0]
  /\ binds = [h \in Handles |-> 0]
  /\ ended = FALSE

-----------------------------------------------------------------------------
(* Handles: minting, cloning, binding a waker                              *)

\* Receiver::sender.  The doc's rule "mint senders before reading" is the
\* guard ~ended: the owner does not revive an edge it was told is over.
Mint(h) ==
  /\ status[h] = "unborn" /\ rx = "idle" /\ ~ended
  /\ status' = [status EXCEPT ![h] = "open"]
  /\ producerCount' = producerCount + 1
  /\ UNCHANGED <<inner, refusedAt, waker, binds, pc, outcome, rx, call, freed,
                 owed, woken, sent, got, ended>>

\* Sender::clone.  A released handle's clone is released and counts nothing.
Clone(h, c) ==
  /\ status[h] # "unborn" /\ pc[h] = "idle" /\ status[c] = "unborn"
  /\ status' = [status EXCEPT ![c] = status[h]]
  /\ producerCount' = IF status[h] = "open" THEN producerCount + 1 ELSE producerCount
  /\ UNCHANGED <<inner, refusedAt, waker, binds, pc, outcome, rx, call, freed,
                 owed, woken, sent, got, ended>>

\* Mutant: the last refusal outlives the binding it was recorded for.
ScheduleKeepsRefusal(h, w) ==
  /\ status[h] = "open" /\ pc[h] = "idle" /\ binds[h] < MaxBinds
  /\ waker[h] # w
  /\ waker' = [waker EXCEPT ![h] = w]
  /\ binds' = [binds EXCEPT ![h] = @ + 1]
  /\ UNCHANGED <<inner, status, refusedAt, producerCount, pc, outcome, rx, call,
                 freed, owed, woken, sent, got, ended>>

\* Schedule::schedule.  The same target is a no-op (a stuttering step); a new
\* one forgets the last refusal, which recorded nothing for it.
Schedule(h, w) ==
  /\ status[h] = "open" /\ pc[h] = "idle" /\ binds[h] < MaxBinds
  /\ waker[h] # w
  /\ waker' = [waker EXCEPT ![h] = w]
  /\ refusedAt' = [refusedAt EXCEPT ![h] = None]
  /\ binds' = [binds EXCEPT ![h] = @ + 1]
  /\ UNCHANGED <<inner, status, producerCount, pc, outcome, rx, call, freed,
                 owed, woken, sent, got, ended>>

-----------------------------------------------------------------------------
(* Pushing                                                                 *)

\* Mutant: the flag is taken and the notify it stands for forgotten.
LandQuietly(h) ==
  /\ buffer' = Append(buffer, <<h, sent[h] + 1>>)
  /\ sent' = [sent EXCEPT ![h] = @ + 1]
  /\ consumerWaiting' = FALSE
  /\ pc' = [pc EXCEPT ![h] = "idle"]
  /\ outcome' = [outcome EXCEPT ![h] = "Pushed"]

\* The message lands, and wake_consumer takes the flag under the lock: who
\* finds it set owes the receiver a notify_one after unlocking.
Land(h) ==
  /\ buffer' = Append(buffer, <<h, sent[h] + 1>>)
  /\ sent' = [sent EXCEPT ![h] = @ + 1]
  /\ consumerWaiting' = FALSE
  /\ pc' = [pc EXCEPT ![h] = IF consumerWaiting THEN "notify" ELSE "idle"]
  /\ outcome' = [outcome EXCEPT ![h] = "Pushed"]

CallClosed(h) ==
  /\ pc' = [pc EXCEPT ![h] = "idle"]
  /\ outcome' = [outcome EXCEPT ![h] = "Closed"]
  /\ UNCHANGED <<buffer, sent, consumerWaiting>>

\* Sender::push_back up to its first wait.  wait_for_room counts the producer
\* in before it parks, under the lock that saw the edge full.
PushBack(h) ==
  /\ status[h] # "unborn" /\ pc[h] = "idle" /\ sent[h] < MaxSend
  /\ IF status[h] = "released" \/ closed
     THEN CallClosed(h) /\ UNCHANGED producersWaiting
     ELSE IF IsFull
     THEN /\ producersWaiting' = producersWaiting + 1
          /\ pc' = [pc EXCEPT ![h] = "parked"]
          /\ UNCHANGED <<buffer, sent, consumerWaiting, outcome>>
     ELSE Land(h) /\ UNCHANGED producersWaiting
  /\ UNCHANGED <<closed, progress, refused, sender, producerCount, rx, call,
                 freed, owed, woken, got, ended>>

\* Mutant: an `if` where wait_while loops.
RecheckOnce(h) ==
  /\ pc[h] = "resumed"
  /\ producersWaiting' = producersWaiting - 1
  /\ IF closed THEN CallClosed(h) ELSE Land(h)
  /\ UNCHANGED <<closed, progress, refused, sender, producerCount, rx, call,
                 freed, owed, woken, got, ended>>

\* wait_while re-locks and re-checks; on the way out the producer counts
\* itself out, then finds the edge closed or with room.
RecheckRoom(h) ==
  /\ pc[h] = "resumed"
  /\ IF IsFull /\ ~closed
     THEN /\ pc' = [pc EXCEPT ![h] = "parked"]
          /\ UNCHANGED <<buffer, sent, consumerWaiting, outcome, producersWaiting>>
     ELSE /\ producersWaiting' = producersWaiting - 1
          /\ IF closed THEN CallClosed(h) ELSE Land(h)
  /\ UNCHANGED <<closed, progress, refused, sender, producerCount, rx, call,
                 freed, owed, woken, got, ended>>

\* A refusal at the progress of the last one is Stuck and records nothing; a
\* new one is Full and records the waker under the lock that saw the edge full.
Refuse(h) ==
  IF refusedAt[h] = progress
  THEN /\ outcome' = [outcome EXCEPT ![h] = "Stuck"]
       /\ UNCHANGED <<refusedAt, refused>>
  ELSE /\ outcome' = [outcome EXCEPT ![h] = "Full"]
       /\ refusedAt' = [refusedAt EXCEPT ![h] = progress]
       /\ refused' = IF waker[h] = None THEN refused
                     ELSE Append(refused, [handle |-> h, waker |-> waker[h]])

\* Sender::try_push_back.  The retry answers the wake it was owed.
TryPushBack(h) ==
  /\ status[h] # "unborn" /\ pc[h] = "idle" /\ sent[h] < MaxSend
  /\ woken' = woken \ {waker[h]}
  /\ IF status[h] = "released" \/ closed
     THEN CallClosed(h) /\ UNCHANGED <<refusedAt, refused>>
     ELSE IF IsFull
     THEN Refuse(h) /\ UNCHANGED <<buffer, sent, consumerWaiting, pc>>
     ELSE Land(h) /\ UNCHANGED <<refusedAt, refused>>
  /\ UNCHANGED <<closed, progress, producersWaiting, status, waker, binds,
                 producerCount, rx, call, freed, owed, got, ended>>

\* wake_consumer's notify_one, after the lock: it wakes the receiver only if
\* it is still in the wait set.
NotifyConsumer(h) ==
  /\ pc[h] = "notify"
  /\ pc' = [pc EXCEPT ![h] = "idle"]
  /\ rx' = IF rx = "blocked" THEN "resumed" ELSE rx
  /\ UNCHANGED <<inner, sender, producerCount, outcome, call, freed, owed,
                 woken, sent, got, ended>>

-----------------------------------------------------------------------------
(* Closing                                                                 *)

\* shared::close: closed is set and both condition variables are notified
\* under the lock; the refused wakers are taken and woken after it.  `pcs` is
\* the producers' pc with the closing thread moved on.
CloseEdge(t, pcs) ==
  /\ closed' = TRUE
  /\ pc' = [h \in Handles |-> IF pcs[h] = "parked" THEN "resumed" ELSE pcs[h]]
  /\ owed' = [owed EXCEPT ![t] = refused]
  /\ refused' = <<>>
  /\ UNCHANGED <<buffer, consumerWaiting, producersWaiting, progress>>

\* Mutant: Drop counts out a handle that close already counted out.
ReleaseTwice(h) ==
  /\ status[h] # "unborn" /\ pc[h] = "idle"
  /\ status' = [status EXCEPT ![h] = "released"]
  /\ producerCount' = producerCount - 1
  /\ pc' = [pc EXCEPT ![h] = IF producerCount = 1 THEN "closing" ELSE "idle"]
  /\ UNCHANGED <<inner, refusedAt, waker, binds, outcome, rx, call, freed, owed,
                 woken, sent, got, ended>>

\* Sender::close and Drop, first step: `released` is set and the count drops.
\* The last producer out closes the edge, in a step of its own.
Release(h) ==
  /\ status[h] = "open" /\ pc[h] = "idle"
  /\ status' = [status EXCEPT ![h] = "released"]
  /\ producerCount' = producerCount - 1
  /\ pc' = [pc EXCEPT ![h] = IF producerCount = 1 THEN "closing" ELSE "idle"]
  /\ UNCHANGED <<inner, refusedAt, waker, binds, outcome, rx, call, freed, owed,
                 woken, sent, got, ended>>

LastSenderCloses(h) ==
  /\ pc[h] = "closing"
  /\ CloseEdge(h, [pc EXCEPT ![h] = IF refused = <<>> THEN "idle" ELSE "waking"])
  /\ rx' = IF rx = "blocked" THEN "resumed" ELSE rx
  /\ UNCHANGED <<sender, producerCount, outcome, call, freed, woken, sent, got, ended>>

\* Receiver::close and Drop.  A dropped receiver is one that never reads again.
ReceiverCloses ==
  /\ rx = "idle" /\ ~closed
  /\ CloseEdge("rx", pc)
  /\ rx' = IF refused = <<>> THEN "idle" ELSE "waking"
  /\ UNCHANGED <<sender, producerCount, outcome, call, freed, woken, sent, got, ended>>

\* wake_all, one waker at a time, outside the lock.
WakeOne(t) ==
  /\ IF t = "rx" THEN rx = "waking" ELSE pc[t] = "waking"
  /\ woken' = woken \cup {Head(owed[t]).waker}
  /\ owed' = [owed EXCEPT ![t] = Tail(@)]
  /\ LET next == IF Len(owed[t]) = 1 THEN "idle" ELSE "waking" IN
     IF t = "rx" THEN rx' = next /\ UNCHANGED pc
     ELSE pc' = [pc EXCEPT ![t] = next] /\ UNCHANGED rx
  /\ UNCHANGED <<inner, sender, producerCount, outcome, call, freed, sent, got, ended>>

-----------------------------------------------------------------------------
(* Reading                                                                 *)

\* Mutant: a drain that leaves the epoch as it was.
SameEpoch ==
  /\ UNCHANGED progress
  /\ owed' = [owed EXCEPT !["rx"] = refused]
  /\ refused' = <<>>

\* Mutant: a drain that copies the list instead of taking it.
EpochKeepsRefused ==
  /\ progress' = progress + 1
  /\ owed' = [owed EXCEPT !["rx"] = refused]
  /\ UNCHANGED refused

\* drained_refused: progress moves and the epoch's refusals are taken in the
\* critical section of the pop.
NewEpoch ==
  /\ progress' = progress + 1
  /\ owed' = [owed EXCEPT !["rx"] = refused]
  /\ refused' = <<>>

\* Receiver::drained after the first n messages left the buffer; what the
\* receiver owes once it has unlocked is decided here.
Drain(n, what) ==
  /\ buffer' = SubSeq(buffer, n + 1, Len(buffer))
  /\ got' = [h \in Handles |->
               got[h] + Cardinality({i \in 1..n : buffer[i][1] = h})]
  /\ NewEpoch
  /\ freed' = IF producersWaiting > 0 THEN what ELSE "none"
  /\ rx' = IF producersWaiting > 0 THEN "notify"
           ELSE IF refused # <<>> THEN "waking" ELSE "idle"

\* Mutant: the count before the last release is taken for the one after.
ExhaustedEarly == closed \/ producerCount <= 1

Exhausted == closed \/ producerCount = 0

\* read_front, read_all and wait_front: wait_nonempty's loop, entered by a call
\* or re-entered after a wakeup, then the pop.
BlockingRead(k) ==
  /\ rx = "idle" \/ (rx = "resumed" /\ call = k)
  /\ call' = IF buffer = <<>> /\ ~Exhausted THEN k ELSE "none"
  /\ \/ /\ buffer # <<>> /\ k # "wait"
        /\ IF k = "all" THEN Drain(Len(buffer), "All") ELSE Drain(1, "One")
        /\ UNCHANGED <<consumerWaiting, ended>>
     \/ /\ buffer # <<>> /\ k = "wait"
        /\ rx' = "idle"
        /\ UNCHANGED <<consumerWaiting, ended, buffer, got, progress, owed,
                       refused, freed>>
     \/ /\ buffer = <<>> /\ Exhausted
        /\ rx' = "idle" /\ ended' = TRUE
        /\ UNCHANGED <<consumerWaiting, buffer, got, progress, owed, refused, freed>>
     \/ /\ buffer = <<>> /\ ~Exhausted
        /\ rx' = "blocked" /\ consumerWaiting' = TRUE
        /\ UNCHANGED <<ended, buffer, got, progress, owed, refused, freed>>
  /\ UNCHANGED <<closed, producersWaiting, sender, producerCount, pc, outcome,
                 woken, sent>>

\* poll and try_pop.  Only try_pop takes "no producer left" for closed; an
\* empty open edge is a stuttering step of either.
Pop(usesCount) ==
  /\ rx = "idle"
  /\ \/ /\ buffer # <<>> /\ Drain(1, "One") /\ UNCHANGED ended
     \/ /\ buffer = <<>> /\ (closed \/ (usesCount /\ producerCount = 0))
        /\ ended' = TRUE
        /\ UNCHANGED <<buffer, got, progress, owed, refused, freed, rx>>
  /\ UNCHANGED <<closed, consumerWaiting, producersWaiting, sender,
                 producerCount, pc, outcome, call, woken, sent>>

\* Mutant: one thread is woken whatever was freed.
NotifyOneOf(what) ==
  \/ Parked = {} /\ UNCHANGED pc
  \/ \E h \in Parked : pc' = [pc EXCEPT ![h] = "resumed"]

\* not_full's notify_one for a freed slot, notify_all for a drain of everything.
NotifyNotFull(what) ==
  \/ what = "One" /\ Parked = {} /\ UNCHANGED pc
  \/ what = "One" /\ \E h \in Parked : pc' = [pc EXCEPT ![h] = "resumed"]
  \/ /\ what = "All"
     /\ pc' = [h \in Handles |-> IF h \in Parked THEN "resumed" ELSE pc[h]]

\* notify_producers, after the lock, before any refused waker is woken.
NotifyProducers ==
  /\ rx = "notify"
  /\ NotifyNotFull(freed)
  /\ freed' = "none"
  /\ rx' = IF owed["rx"] = <<>> THEN "idle" ELSE "waking"
  /\ UNCHANGED <<inner, sender, producerCount, outcome, call, owed, woken, sent,
                 got, ended>>

\* std::sync::Condvar may return from a wait without a notification.
SpuriousWakeup ==
  /\ \/ \E h \in Parked : pc' = [pc EXCEPT ![h] = "resumed"] /\ UNCHANGED rx
     \/ rx = "blocked" /\ rx' = "resumed" /\ UNCHANGED pc
  /\ UNCHANGED <<inner, sender, producerCount, outcome, call, freed, owed, woken,
                 sent, got, ended>>

-----------------------------------------------------------------------------
ProducerStep(h) ==
  \/ Mint(h)
  \/ \E c \in Handles : Clone(h, c)
  \/ \E w \in Wakers : Schedule(h, w)
  \/ PushBack(h) \/ RecheckRoom(h) \/ TryPushBack(h) \/ NotifyConsumer(h)
  \/ Release(h) \/ LastSenderCloses(h)

ReceiverStep ==
  \/ \E k \in {"front", "all", "wait"} : BlockingRead(k)
  \/ \E usesCount \in BOOLEAN : Pop(usesCount)
  \/ NotifyProducers \/ ReceiverCloses

Next ==
  \/ \E h \in Handles : ProducerStep(h)
  \/ ReceiverStep
  \/ \E t \in Threads : WakeOne(t)
  \/ SpuriousWakeup

Spec == Init /\ [][Next]_vars

-----------------------------------------------------------------------------
Refusals == [handle : Handles, waker : Wakers]

TypeOK ==
  /\ buffer \in Seq(Handles \X Nat)
  /\ closed \in BOOLEAN /\ consumerWaiting \in BOOLEAN /\ ended \in BOOLEAN
  /\ producersWaiting \in Nat /\ progress \in Nat /\ producerCount \in Nat
  /\ refused \in Seq(Refusals)
  /\ status \in [Handles -> {"unborn", "open", "released"}]
  /\ refusedAt \in [Handles -> Nat \cup {None}]
  /\ waker \in [Handles -> Wakers \cup {None}]
  /\ pc \in [Handles -> {"idle", "parked", "resumed", "notify", "closing", "waking"}]
  /\ outcome \in [Handles -> {"Pushed", "Full", "Stuck", "Closed"}]
  /\ rx \in {"idle", "blocked", "resumed", "notify", "waking"}
  /\ call \in {"none", "front", "all", "wait"}
  /\ freed \in {"none", "One", "All"}
  /\ owed \in [Threads -> Seq(Refusals)]
  /\ woken \subseteq Wakers
  /\ sent \in [Handles -> Nat] /\ got \in [Handles -> Nat] /\ binds \in [Handles -> Nat]

-----------------------------------------------------------------------------
(* Safety                                                                  *)

\* A bounded edge never holds more than its bound, whoever raced for the slot
\* a pop freed: "Exact, on one thread too" (Receiver::bounded).
WithinBound == Bound # 0 => Len(buffer) <= Bound

\* Notifications a drain decided on under the lock and has not issued yet.
PendingNotifies ==
  CASE freed = "none" -> 0 [] freed = "One" -> 1 [] freed = "All" -> Bound

\* A producer parked in push_back never sleeps beside room nobody will claim:
\* every free slot is covered by a thread already notified or by a
\* notification the receiver still owes, and a close leaves nobody parked.
NoStrandedProducer ==
  Parked # {} =>
    /\ ~closed
    /\ Bound - Len(buffer) <= Cardinality(Resumed) + PendingNotifies

\* A receiver blocked in a read never sleeps on a closed edge, nor beside a
\* message unless a pusher is about to notify it, nor with no producer left
\* unless the last one is about to close the edge (the count drops before).
ConsumerNotStranded ==
  rx = "blocked" =>
    /\ ~closed
    /\ buffer # <<>> => \E h \in Handles : pc[h] = "notify"
    /\ producerCount = 0 => \E h \in Handles : pc[h] = "closing"

\* A refused waker is on the list only while a retry would be refused again:
\* room and close both take the whole list (drained, close).
RefusedMeansFull == refused # <<>> => IsFull /\ ~closed

\* "If bound, a Stuck is already owed that wake": a bound handle that would be
\* told Stuck has its present waker on the list.
StuckIsOwedAWake ==
  \A h \in Open :
    waker[h] # None /\ refusedAt[h] = progress /\ ~closed =>
      [handle |-> h, waker |-> waker[h]] \in {refused[i] : i \in DOMAIN refused}

\* Once a read has reported Closed the edge is over: everything that landed
\* was delivered first, and nothing can land any more.
ClosedIsFinal ==
  ended => /\ buffer = <<>>
           /\ closed \/ Open = {}

-----------------------------------------------------------------------------
\* The edge implements the channel: the buffer is the queue, a close is Shut.
Chan == INSTANCE Channel WITH queue <- buffer, shut <- closed

ChannelSpec == Chan!Spec

=============================================================================
