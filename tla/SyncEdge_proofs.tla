-------------------------- MODULE SyncEdge_proofs --------------------------
(***************************************************************************)
(* Proofs about SyncEdge, and about the callers of SyncEdgeClients, for    *)
(* every number of handles, every bound (none included), every set of      *)
(* wakers and every length of run.                                         *)
(***************************************************************************)
EXTENDS SyncEdgeClients, FiniteSetTheorems, SequenceTheorems, TLAPS

USE SyncEdgeAssumption

-----------------------------------------------------------------------------
(* Types and counters.  The atomic producer count and the count of parked   *)
(* producers are numbers the code decrements, so their being naturals rests *)
(* on what they count: the two go together.                                 *)

Waiting == Parked \cup Resumed

CountsOK ==
  /\ producersWaiting = Cardinality(Waiting)
  /\ producerCount = Cardinality(Open)

\* The receiver owes a notification exactly while it is at the step that
\* issues it; and a waker list is owed only by a thread that is waking.
OwesOK ==
  /\ freed # "none" <=> rx = "notify"
  /\ \A h \in Handles : pc[h] = "waking" => owed[h] # <<>>
  /\ rx = "waking" => owed["rx"] # <<>>

TypeInv == TypeOK /\ CountsOK /\ OwesOK

LEMMA HandleSetsFinite ==
  /\ IsFiniteSet(Parked) /\ IsFiniteSet(Resumed) /\ IsFiniteSet(Waiting) /\ IsFiniteSet(Open)
  /\ IsFiniteSet(Minted)
BY FS_Subset DEF Parked, Resumed, Waiting, Open

\* Adding an absent element to a finite set, and removing a present one.
LEMMA CardinalityAdd ==
  ASSUME NEW S, IsFiniteSet(S), NEW x, x \notin S
  PROVE  Cardinality(S \cup {x}) = Cardinality(S) + 1 /\ Cardinality(S) \in Nat
BY FS_AddElement, FS_CardinalityType

LEMMA CardinalityRemove ==
  ASSUME NEW S, IsFiniteSet(S), NEW x, x \in S
  PROVE  Cardinality(S \ {x}) = Cardinality(S) - 1 /\ Cardinality(S) \in Nat \ {0}
<1>1. Cardinality(S) \in Nat /\ Cardinality(S \ {x}) = Cardinality(S) - 1
  BY FS_RemoveElement, FS_CardinalityType
<1>2. Cardinality(S) # 0
  BY FS_EmptySet
<1>3. QED
  BY <1>1, <1>2

-----------------------------------------------------------------------------
(* The types, action by action.  Each step lists the conjuncts its action   *)
(* disturbs; the counts follow from the two cardinality lemmas.             *)

\* Who is parked, resumed or open depends on pc and status alone.
LEMMA InitTyped == Init => TypeInv
<1> SUFFICES ASSUME Init PROVE TypeInv
  OBVIOUS
<1>1. TypeOK
  <2>1. Cardinality(Minted) \in Nat
    BY HandleSetsFinite, FS_CardinalityType
  <2>2. <<>> \in Seq(Handles \X Nat) /\ <<>> \in Seq(Refusals)
    OBVIOUS
  <2>3. owed \in [Threads -> Seq(Refusals)]
    BY <2>2 DEF Init
  <2>4. QED
    BY <2>1, <2>2, <2>3 DEF Init, TypeOK
<1>2. Waiting = {} /\ Open = Minted
  BY DEF Init, Waiting, Parked, Resumed, Open
<1>3. CountsOK
  BY <1>2, FS_EmptySet DEF Init, CountsOK
<1>4. OwesOK
  BY DEF Init, OwesOK
<1>5. QED
  BY <1>1, <1>3, <1>4 DEF TypeInv

LEMMA MintTyped ==
  ASSUME TypeInv, NEW h \in Handles, Mint(h) PROVE TypeInv'
<1> USE DEF TypeInv
<1>1. Open' = Open \cup {h} /\ h \notin Open /\ Waiting' = Waiting
  BY DEF Mint, Open, Waiting, Parked, Resumed, TypeOK
<1>2. CountsOK'
  BY <1>1, HandleSetsFinite, CardinalityAdd DEF CountsOK, Mint, inner
<1>3. TypeOK'
  BY DEF TypeOK, Mint, inner
<1>4. OwesOK'
  BY DEF OwesOK, Mint
<1>5. QED
  BY <1>2, <1>3, <1>4

LEMMA CloneTyped ==
  ASSUME TypeInv, NEW h \in Handles, NEW c \in Handles, Clone(h, c)
  PROVE  TypeInv'
<1> USE DEF TypeInv
<1>1. Waiting' = Waiting /\ c \notin Open
  BY DEF Clone, Waiting, Parked, Resumed, Open
<1>2. Open' = IF status[h] = "open" THEN Open \cup {c} ELSE Open
  BY DEF Clone, Open, TypeOK
<1>3. CountsOK'
  BY <1>1, <1>2, HandleSetsFinite, CardinalityAdd DEF CountsOK, Clone, inner
<1>4. TypeOK'
  BY DEF TypeOK, Clone, inner
<1>5. OwesOK'
  BY DEF OwesOK, Clone
<1>6. QED
  BY <1>3, <1>4, <1>5

LEMMA ScheduleTyped ==
  ASSUME TypeInv, NEW h \in Handles, NEW w \in Wakers, Schedule(h, w)
  PROVE  TypeInv'
<1>1. Waiting' = Waiting /\ Open' = Open
  BY DEF Schedule, Waiting, Parked, Resumed, Open
<1>2. TypeOK'
  BY DEF TypeInv, TypeOK, Schedule, inner
<1>3. QED
  BY <1>1, <1>2 DEF TypeInv, CountsOK, OwesOK, Schedule, inner

\* What the two ends of a push leave behind has its type.
LEMMA LandTypes ==
  ASSUME TypeOK, NEW h \in Handles, Land(h)
  PROVE  /\ buffer' \in Seq(Handles \X Nat) /\ sent' \in [Handles -> Nat]
         /\ consumerWaiting' \in BOOLEAN
         /\ pc' \in [Handles -> {"idle", "parked", "resumed", "notify", "closing", "waking"}]
         /\ outcome' \in [Handles -> {"Pushed", "Full", "Stuck", "Closed"}]
<1>1. <<h, sent[h] + 1>> \in Handles \X Nat
  BY DEF TypeOK
<1>2. buffer' \in Seq(Handles \X Nat)
  BY <1>1 DEF TypeOK, Land
<1>3. sent' \in [Handles -> Nat]
  BY DEF TypeOK, Land
<1>4. pc' \in [Handles -> {"idle", "parked", "resumed", "notify", "closing", "waking"}]
  BY DEF TypeOK, Land
<1>5. outcome' \in [Handles -> {"Pushed", "Full", "Stuck", "Closed"}]
  BY DEF TypeOK, Land
<1>6. QED
  BY <1>2, <1>3, <1>4, <1>5 DEF Land

LEMMA CallClosedTypes ==
  ASSUME TypeOK, NEW h \in Handles, CallClosed(h)
  PROVE  /\ buffer' \in Seq(Handles \X Nat) /\ sent' \in [Handles -> Nat]
         /\ consumerWaiting' \in BOOLEAN
         /\ pc' \in [Handles -> {"idle", "parked", "resumed", "notify", "closing", "waking"}]
         /\ outcome' \in [Handles -> {"Pushed", "Full", "Stuck", "Closed"}]
BY DEF TypeOK, CallClosed

\* A message lands or the call is told Closed: either way the thread leaves
\* the edge's wait set untouched unless it was counted there itself.
LEMMA PushBackTyped ==
  ASSUME TypeInv, NEW h \in Handles, PushBack(h) PROVE TypeInv'
<1> USE DEF TypeInv
<1>1. h \notin Waiting /\ Open' = Open
  BY DEF PushBack, Waiting, Parked, Resumed, Open, sender
<1>2. TypeOK'
  <2>1. CASE status[h] = "released" \/ closed
    BY <2>1, CallClosedTypes DEF TypeOK, PushBack, sender
  <2>2. CASE ~(status[h] = "released" \/ closed) /\ IsFull
    <3>0. pc' = [pc EXCEPT ![h] = "parked"]
      BY <2>2 DEF PushBack
    <3>1. pc' \in [Handles -> {"idle", "parked", "resumed", "notify", "closing", "waking"}]
      BY <3>0 DEF TypeOK
    <3>2. producersWaiting' \in Nat
      BY <2>2 DEF TypeOK, PushBack
    <3>3. QED
      BY <2>2, <3>1, <3>2 DEF TypeOK, PushBack, sender
  <2>3. CASE ~(status[h] = "released" \/ closed) /\ ~IsFull
    BY <2>3, LandTypes DEF TypeOK, PushBack, sender
  <2>4. QED
    BY <2>1, <2>2, <2>3
<1>3. CASE pc'[h] = "parked"
  <2>1. Waiting' = Waiting \cup {h} /\ producersWaiting' = producersWaiting + 1
    BY <1>3 DEF PushBack, CallClosed, Land, Waiting, Parked, Resumed, TypeOK
  <2>2. CountsOK'
    BY <1>1, <2>1, HandleSetsFinite, CardinalityAdd DEF CountsOK, PushBack
  <2>3. OwesOK'
    BY <1>3 DEF OwesOK, PushBack, CallClosed, Land, TypeOK
  <2>4. QED
    BY <1>2, <2>2, <2>3
<1>4. CASE pc'[h] # "parked"
  <2>1. Waiting' = Waiting /\ producersWaiting' = producersWaiting
    BY <1>4 DEF PushBack, CallClosed, Land, Waiting, Parked, Resumed, TypeOK
  <2>2. CountsOK'
    BY <1>1, <2>1 DEF CountsOK, PushBack
  <2>3. OwesOK'
    BY <1>4 DEF OwesOK, PushBack, CallClosed, Land, TypeOK
  <2>4. QED
    BY <1>2, <2>2, <2>3
<1>5. QED
  BY <1>3, <1>4

LEMMA RecheckRoomTyped ==
  ASSUME TypeInv, NEW h \in Handles, RecheckRoom(h) PROVE TypeInv'
<1> USE DEF TypeInv
<1>1. h \in Waiting /\ Open' = Open
  BY DEF RecheckRoom, Waiting, Resumed, Open, sender
<1>2. producersWaiting \in Nat \ {0}
  BY <1>1, HandleSetsFinite, CardinalityRemove DEF CountsOK
<1>3. TypeOK'
  <2>1. CASE IsFull /\ ~closed
    BY <2>1 DEF TypeOK, RecheckRoom, sender
  <2>2. CASE closed
    <3>1. CallClosed(h) /\ producersWaiting' \in Nat
      BY <2>2, <1>2 DEF RecheckRoom
    <3>2. QED
      BY <3>1, CallClosedTypes DEF TypeOK, RecheckRoom, sender
  <2>3. CASE ~IsFull /\ ~closed
    <3>1. Land(h) /\ producersWaiting' \in Nat
      BY <2>3, <1>2 DEF RecheckRoom
    <3>2. QED
      BY <3>1, LandTypes DEF TypeOK, RecheckRoom, sender
  <2>4. QED
    BY <2>1, <2>2, <2>3
<1>4. OwesOK'
  BY DEF OwesOK, RecheckRoom, CallClosed, Land, TypeOK
<1>5. CASE pc'[h] = "parked"
  <2>1. Waiting' = Waiting /\ producersWaiting' = producersWaiting
    BY <1>5 DEF RecheckRoom, CallClosed, Land, Waiting, Parked, Resumed, TypeOK
  <2>2. QED
    BY <1>1, <1>3, <1>4, <2>1 DEF CountsOK, RecheckRoom
<1>6. CASE pc'[h] # "parked"
  <2>1. Waiting' = Waiting \ {h} /\ producersWaiting' = producersWaiting - 1
    BY <1>6 DEF RecheckRoom, CallClosed, Land, Waiting, Parked, Resumed, TypeOK
  <2>2. CountsOK'
    BY <1>1, <2>1, HandleSetsFinite, CardinalityRemove DEF CountsOK, RecheckRoom
  <2>3. QED
    BY <1>3, <1>4, <2>2
<1>7. QED
  BY <1>5, <1>6

LEMMA TryPushBackTyped ==
  ASSUME TypeInv, NEW h \in Handles, TryPushBack(h) PROVE TypeInv'
<1> USE DEF TypeInv
<1>1. Open' = Open /\ Waiting' = Waiting
  BY DEF TryPushBack, Refuse, CallClosed, Land, Open, Waiting, Parked, Resumed, TypeOK
<1>2. TypeOK'
  <2>1. CASE status[h] = "released" \/ closed
    BY <2>1, CallClosedTypes DEF TypeOK, TryPushBack
  <2>2. CASE ~(status[h] = "released" \/ closed) /\ IsFull
    <3>1. refusedAt' \in [Handles -> Nat \cup {None}]
      BY <2>2 DEF TypeOK, TryPushBack, Refuse
    <3>4. waker[h] # None => [handle |-> h, waker |-> waker[h]] \in Refusals
      BY DEF TypeOK, Refusals
    <3>5. refused' \in Seq(Refusals)
      <4>1. refused' = refused \/ (refused' = Append(refused, [handle |-> h, waker |-> waker[h]])
                                     /\ waker[h] # None)
        BY <2>2 DEF TryPushBack, Refuse
      <4>2. refused \in Seq(Refusals)
        BY DEF TypeOK
      <4>3. QED
        BY <3>4, <4>1, <4>2
    <3>2. outcome' \in [Handles -> {"Pushed", "Full", "Stuck", "Closed"}]
      BY <2>2 DEF TypeOK, TryPushBack, Refuse
    <3>3. QED
      BY <2>2, <3>1, <3>2, <3>5 DEF TypeOK, TryPushBack
  <2>3. CASE ~(status[h] = "released" \/ closed) /\ ~IsFull
    BY <2>3, LandTypes DEF TypeOK, TryPushBack
  <2>4. QED
    BY <2>1, <2>2, <2>3
<1>3. OwesOK'
  BY DEF OwesOK, TryPushBack, Refuse, CallClosed, Land, TypeOK
<1>4. QED
  BY <1>1, <1>2, <1>3 DEF CountsOK, TryPushBack

LEMMA NotifyConsumerTyped ==
  ASSUME TypeInv, NEW h \in Handles, NotifyConsumer(h) PROVE TypeInv'
<1> USE DEF TypeInv
<1>1. Open' = Open /\ Waiting' = Waiting
  BY DEF NotifyConsumer, Open, Waiting, Parked, Resumed, TypeOK, sender
<1>2. TypeOK' /\ OwesOK'
  BY DEF OwesOK, TypeOK, NotifyConsumer, inner, sender
<1>3. QED
  BY <1>1, <1>2 DEF CountsOK, NotifyConsumer, inner

LEMMA ReleaseTyped ==
  ASSUME TypeInv, NEW h \in Handles, Release(h) PROVE TypeInv'
<1> USE DEF TypeInv
<1>1. Open' = Open \ {h} /\ h \in Open /\ Waiting' = Waiting
  BY DEF Release, Open, Waiting, Parked, Resumed, TypeOK
<1>2. CountsOK' /\ producerCount \in Nat \ {0}
  BY <1>1, HandleSetsFinite, CardinalityRemove DEF CountsOK, Release, inner
<1>3. TypeOK' /\ OwesOK'
  BY <1>2 DEF OwesOK, TypeOK, Release, inner
<1>4. QED
  BY <1>2, <1>3

LEMMA LastSenderClosesTyped ==
  ASSUME TypeInv, NEW h \in Handles, LastSenderCloses(h) PROVE TypeInv'
<1> USE DEF TypeInv
<1>1. Open' = Open /\ Waiting' = Waiting
  BY DEF LastSenderCloses, CloseEdge, Open, Waiting, Parked, Resumed, TypeOK, sender
<1>2. TypeOK'
  BY DEF TypeOK, LastSenderCloses, CloseEdge, sender, Threads
<1>3. OwesOK'
  BY DEF OwesOK, TypeOK, LastSenderCloses, CloseEdge, Threads
<1>4. QED
  BY <1>1, <1>2, <1>3 DEF CountsOK, LastSenderCloses, CloseEdge

LEMMA ReceiverClosesTyped ==
  ASSUME TypeInv, ReceiverCloses PROVE TypeInv'
<1> USE DEF TypeInv
<1>1. Open' = Open /\ Waiting' = Waiting
  BY DEF ReceiverCloses, CloseEdge, Open, Waiting, Parked, Resumed, TypeOK, sender
<1>2. TypeOK'
  BY DEF TypeOK, ReceiverCloses, CloseEdge, sender, Threads
<1>3. OwesOK'
  BY DEF OwesOK, TypeOK, ReceiverCloses, CloseEdge, Threads
<1>4. QED
  BY <1>1, <1>2, <1>3 DEF CountsOK, ReceiverCloses, CloseEdge

\* Taking one of several leaves some.
LEMMA TailNotEmpty ==
  ASSUME NEW S, NEW s \in Seq(S), s # <<>>, Len(s) # 1 PROVE Tail(s) # <<>>
<1>1. /\ Len(Tail(s)) = Len(s) - 1
      /\ Tail(s) \in Seq(S)
  BY HeadTailProperties
<1>2. Len(s) \in Nat
  OBVIOUS
<1>3. \A t \in Seq(S) : Len(t) # 0 => t # <<>>
  OBVIOUS
<1>4. Len(s) - 1 # 0
  BY <1>2
<1>5. QED
  BY <1>1, <1>3, <1>4, Zenon

LEMMA WakeOneTyped ==
  ASSUME TypeInv, NEW t \in Threads, WakeOne(t) PROVE TypeInv'
<1> USE DEF TypeInv
<1>1. Open' = Open /\ Waiting' = Waiting
  BY DEF WakeOne, Open, Waiting, Parked, Resumed, TypeOK, Threads, sender
<1>2. owed[t] \in Seq(Refusals) /\ owed[t] # <<>>
  BY DEF WakeOne, TypeOK, OwesOK, Threads
<1>3. Head(owed[t]) \in Refusals /\ Tail(owed[t]) \in Seq(Refusals)
  BY <1>2, HeadTailProperties
<1>4. Len(owed[t]) # 1 => Tail(owed[t]) # <<>>
  BY <1>2, TailNotEmpty
<1>5. woken' \subseteq Wakers
  BY <1>3 DEF WakeOne, TypeOK, Refusals
<1>6. owed' \in [Threads -> Seq(Refusals)] /\ owed'[t] = Tail(owed[t])
  BY <1>3 DEF WakeOne, TypeOK
<1>7. CASE t = "rx"
  <2>1. TypeOK'
    BY <1>5, <1>6, <1>7 DEF WakeOne, TypeOK, inner, sender
  <2>2. OwesOK'
    BY <1>4, <1>6, <1>7 DEF WakeOne, OwesOK, TypeOK, Threads
  <2>3. QED
    BY <1>1, <2>1, <2>2 DEF CountsOK, WakeOne, inner
<1>8. CASE t \in Handles
  <2>1. pc' = [pc EXCEPT ![t] = IF Len(owed[t]) = 1 THEN "idle" ELSE "waking"] /\ rx' = rx
    BY <1>8 DEF WakeOne
  <2>2. pc' \in [Handles -> {"idle", "parked", "resumed", "notify", "closing", "waking"}]
    BY <1>8, <2>1 DEF TypeOK
  <2>3. TypeOK'
    BY <1>5, <1>6, <2>1, <2>2 DEF WakeOne, TypeOK, inner, sender
  <2>4. OwesOK'
    BY <1>4, <1>6, <1>8, <2>1 DEF WakeOne, OwesOK, TypeOK, Threads
  <2>5. QED
    BY <1>1, <2>3, <2>4 DEF CountsOK, WakeOne, inner
<1>9. QED
  BY <1>7, <1>8 DEF Threads

\* A drain of the first n messages, whatever it owes afterwards.
LEMMA DrainTypes ==
  ASSUME TypeInv, NEW n \in Nat, n <= Len(buffer), NEW what \in {"One", "All"}, Drain(n, what)
  PROVE  /\ buffer' \in Seq(Handles \X Nat) /\ got' \in [Handles -> Nat]
         /\ progress' \in Nat /\ owed' \in [Threads -> Seq(Refusals)]
         /\ refused' \in Seq(Refusals) /\ freed' \in {"none", "One", "All"}
         /\ rx' \in {"idle", "notify", "waking"}
         /\ owed'["rx"] = refused /\ \A h \in Handles : owed'[h] = owed[h]
         /\ freed' # "none" <=> rx' = "notify"
         /\ rx' = "waking" => refused # <<>>
<1> USE DEF TypeInv
<1>1. buffer' \in Seq(Handles \X Nat)
  <2>1. buffer \in Seq(Handles \X Nat)
    BY DEF TypeOK
  <2>2. \A i \in n + 1 .. Len(buffer) : buffer[i] \in Handles \X Nat
    BY <2>1
  <2>3. SubSeq(buffer, n + 1, Len(buffer)) \in Seq(Handles \X Nat)
    BY <2>1, SubSeqProperties
  <2>4. QED
    BY <2>3 DEF Drain, NewEpoch
<1>2. got' \in [Handles -> Nat]
  <2>1. \A h \in Handles : Cardinality({i \in 1..n : buffer[i][1] = h}) \in Nat
    <3>1. TAKE h \in Handles
    <3>2. IsFiniteSet({i \in 1..n : buffer[i][1] = h})
      <4>1. IsFiniteSet(1..n)
        BY FS_Interval
      <4>2. {i \in 1..n : buffer[i][1] = h} \subseteq 1..n
        OBVIOUS
      <4>3. QED
        BY <4>1, <4>2, FS_Subset
    <3>3. QED
      BY <3>2, FS_CardinalityType
  <2>2. \A h \in Handles : got[h] \in Nat
    BY DEF TypeOK
  <2>3. QED
    BY <2>1, <2>2 DEF Drain, NewEpoch
<1>3. progress' \in Nat /\ refused' \in Seq(Refusals)
  BY DEF Drain, NewEpoch, TypeOK
<1>4. owed' \in [Threads -> Seq(Refusals)] /\ owed'["rx"] = refused
      /\ \A h \in Handles : owed'[h] = owed[h]
  BY DEF Drain, NewEpoch, TypeOK, Threads
<1>5. QED
  BY <1>1, <1>2, <1>3, <1>4 DEF Drain, NewEpoch

LEMMA BlockingReadTyped ==
  ASSUME TypeInv, NEW k \in {"front", "all", "wait"}, BlockingRead(k) PROVE TypeInv'
<1> USE DEF TypeInv
<1>1. Open' = Open /\ Waiting' = Waiting
  BY DEF BlockingRead, Open, Waiting, Parked, Resumed, sender
<1>2. call' \in {"none", "front", "all", "wait"}
  BY DEF BlockingRead
<1>3. CASE buffer # <<>> /\ k # "wait"
  <2>1. Len(buffer) \in Nat /\ Len(buffer) >= 1
    BY <1>3 DEF TypeOK
  <2>2. \E n \in Nat, what \in {"One", "All"} : n <= Len(buffer) /\ Drain(n, what)
    BY <1>3, <2>1 DEF BlockingRead
  <2>3. /\ buffer' \in Seq(Handles \X Nat) /\ got' \in [Handles -> Nat]
        /\ progress' \in Nat /\ owed' \in [Threads -> Seq(Refusals)]
        /\ refused' \in Seq(Refusals) /\ freed' \in {"none", "One", "All"}
        /\ rx' \in {"idle", "notify", "waking"}
        /\ owed'["rx"] = refused /\ \A h \in Handles : owed'[h] = owed[h]
        /\ freed' # "none" <=> rx' = "notify"
        /\ rx' = "waking" => refused # <<>>
    BY <2>2, DrainTypes
  <2>4. UNCHANGED <<consumerWaiting, ended>>
    BY <1>3 DEF BlockingRead
  <2>5. TypeOK'
    BY <1>2, <2>3, <2>4 DEF BlockingRead, TypeOK, sender
  <2>6. OwesOK'
    BY <2>3 DEF BlockingRead, OwesOK
  <2>7. QED
    BY <1>1, <2>5, <2>6 DEF CountsOK, BlockingRead
<1>4. CASE ~(buffer # <<>> /\ k # "wait")
  <2>1. /\ UNCHANGED <<buffer, got, progress, owed, refused, freed>>
        /\ rx' \in {"idle", "blocked"}
        /\ consumerWaiting' \in BOOLEAN /\ ended' \in BOOLEAN
    BY <1>4 DEF BlockingRead, TypeOK
  <2>2. TypeOK'
    BY <1>2, <2>1 DEF BlockingRead, TypeOK, sender
  <2>3. OwesOK'
    BY <2>1 DEF BlockingRead, OwesOK
  <2>4. QED
    BY <1>1, <2>1, <2>2, <2>3 DEF CountsOK, BlockingRead
<1>5. QED
  BY <1>3, <1>4

LEMMA PopTyped ==
  ASSUME TypeInv, NEW usesCount \in BOOLEAN, Pop(usesCount) PROVE TypeInv'
<1> USE DEF TypeInv
<1>1. Open' = Open /\ Waiting' = Waiting
  BY DEF Pop, Open, Waiting, Parked, Resumed, sender
<1>2. CASE buffer # <<>>
  <2>1. Len(buffer) \in Nat /\ Len(buffer) >= 1
    BY <1>2 DEF TypeOK
  <2>2. Drain(1, "One") /\ UNCHANGED ended
    BY <1>2 DEF Pop
  <2>3. /\ buffer' \in Seq(Handles \X Nat) /\ got' \in [Handles -> Nat]
        /\ progress' \in Nat /\ owed' \in [Threads -> Seq(Refusals)]
        /\ refused' \in Seq(Refusals) /\ freed' \in {"none", "One", "All"}
        /\ rx' \in {"idle", "notify", "waking"}
        /\ owed'["rx"] = refused /\ \A h \in Handles : owed'[h] = owed[h]
        /\ freed' # "none" <=> rx' = "notify"
        /\ rx' = "waking" => refused # <<>>
    BY <2>1, <2>2, DrainTypes
  <2>4. TypeOK'
    BY <2>2, <2>3 DEF Pop, TypeOK, sender
  <2>5. OwesOK'
    BY <2>3 DEF Pop, OwesOK
  <2>6. QED
    BY <1>1, <2>4, <2>5 DEF CountsOK, Pop
<1>3. CASE buffer = <<>>
  BY <1>1, <1>3 DEF Pop, TypeOK, CountsOK, OwesOK, sender
<1>4. QED
  BY <1>2, <1>3

LEMMA NotifyProducersTyped ==
  ASSUME TypeInv, NotifyProducers PROVE TypeInv'
<1> USE DEF TypeInv
<1>1. Open' = Open /\ Waiting' = Waiting
  BY DEF NotifyProducers, NotifyNotFull, Open, Waiting, Parked, Resumed, TypeOK, sender
<1>2. pc' \in [Handles -> {"idle", "parked", "resumed", "notify", "closing", "waking"}]
  BY DEF NotifyProducers, NotifyNotFull, Parked, TypeOK
<1>3. TypeOK'
  BY <1>2 DEF NotifyProducers, NotifyNotFull, TypeOK, inner, sender
<1>4. OwesOK'
  BY DEF NotifyProducers, NotifyNotFull, OwesOK, Parked, TypeOK
<1>5. QED
  BY <1>1, <1>3, <1>4 DEF CountsOK, NotifyProducers, inner

LEMMA SpuriousWakeupTyped ==
  ASSUME TypeInv, SpuriousWakeup PROVE TypeInv'
<1> USE DEF TypeInv
<1>1. Open' = Open /\ Waiting' = Waiting
  BY DEF SpuriousWakeup, Open, Waiting, Parked, Resumed, TypeOK, sender
<1>2. pc' \in [Handles -> {"idle", "parked", "resumed", "notify", "closing", "waking"}]
  BY DEF SpuriousWakeup, Parked, TypeOK
<1>3. TypeOK'
  BY <1>2 DEF SpuriousWakeup, TypeOK, inner, sender
<1>4. OwesOK'
  BY DEF SpuriousWakeup, OwesOK, Parked, TypeOK
<1>5. QED
  BY <1>1, <1>3, <1>4 DEF CountsOK, SpuriousWakeup, inner

LEMMA NextTyped == TypeInv /\ [Next]_vars => TypeInv'
<1> SUFFICES ASSUME TypeInv, [Next]_vars PROVE TypeInv'
  OBVIOUS
<1>1. CASE UNCHANGED vars
  <2>1. Open' = Open /\ Waiting' = Waiting
    BY <1>1 DEF vars, sender, Open, Waiting, Parked, Resumed
  <2>2. QED
    BY <1>1, <2>1 DEF vars, inner, sender, TypeInv, TypeOK, CountsOK, OwesOK
<1>2. ASSUME NEW h \in Handles, ProducerStep(h) PROVE TypeInv'
  BY <1>2, MintTyped, CloneTyped, ScheduleTyped, PushBackTyped, RecheckRoomTyped,
     TryPushBackTyped, NotifyConsumerTyped, ReleaseTyped, LastSenderClosesTyped
  DEF ProducerStep
<1>3. ASSUME ReceiverStep PROVE TypeInv'
  BY <1>3, BlockingReadTyped, PopTyped, NotifyProducersTyped, ReceiverClosesTyped
  DEF ReceiverStep
<1>4. QED
  BY <1>1, <1>2, <1>3, WakeOneTyped, SpuriousWakeupTyped DEF Next

\* Every variable keeps its type; in particular neither the atomic producer
\* count nor the count of parked producers is ever decremented past zero,
\* though close, drop, clone and mint race on one and a close, a drain and a
\* spurious wakeup on the other.
THEOREM EdgeTyped == Spec => []TypeOK
<1>1. Spec => []TypeInv
  BY InitTyped, NextTyped, PTL DEF Spec
<1>2. QED
  BY <1>1, PTL DEF TypeInv

-----------------------------------------------------------------------------
(* No producer is stranded.  The invariant is inductive on top of the       *)
(* types; room and notified threads are traded one for one.                 *)

\* An action that leaves the wait set, the buffer and what the receiver owes.
LEMMA RoomQuiet ==
  ASSUME NoStrandedProducer, Parked' = Parked, Resumed' = Resumed,
         UNCHANGED <<buffer, closed, freed>>
  PROVE  NoStrandedProducer'
BY DEF NoStrandedProducer, PendingNotifies

\* The quantities the invariant compares.
LEMMA RoomTypes ==
  ASSUME TypeInv
  PROVE  /\ Len(buffer) \in Nat /\ Cardinality(Resumed) \in Nat
         /\ PendingNotifies \in Nat
         /\ Parked # {} => producersWaiting > 0
<1>1. Len(buffer) \in Nat
  BY DEF TypeInv, TypeOK
<1>2. Cardinality(Resumed) \in Nat
  BY HandleSetsFinite, FS_CardinalityType
<1>3. freed \in {"none", "One", "All"}
  BY DEF TypeInv, TypeOK
<1>4. PendingNotifies \in Nat
  BY <1>3 DEF PendingNotifies
<1>5. ASSUME Parked # {} PROVE producersWaiting > 0
  <2>1. PICK h : h \in Waiting
    BY <1>5 DEF Waiting
  <2>2. Cardinality(Waiting) \in Nat \ {0}
    BY <2>1, HandleSetsFinite, CardinalityRemove
  <2>3. QED
    BY <2>2 DEF TypeInv, CountsOK
<1>6. QED
  BY <1>1, <1>2, <1>4, <1>5

\* What is left of a sequence once its first n elements are taken.
LEMMA LeftOver ==
  ASSUME NEW S, NEW s \in Seq(S), NEW n \in Nat, n <= Len(s)
  PROVE  /\ SubSeq(s, n + 1, Len(s)) \in Seq(S)
         /\ Len(SubSeq(s, n + 1, Len(s))) = Len(s) - n
<1>1. Len(s) \in Nat /\ \A i \in n + 1 .. Len(s) : s[i] \in S
  OBVIOUS
<1>2. /\ SubSeq(s, n + 1, Len(s)) \in Seq(S)
      /\ Len(SubSeq(s, n + 1, Len(s))) =
           IF n + 1 <= Len(s) THEN Len(s) - (n + 1) + 1 ELSE 0
  BY <1>1, SubSeqProperties
<1>3. QED
  BY <1>1, <1>2

LEMMA PushBackRoom ==
  ASSUME TypeInv, NoStrandedProducer, NEW h \in Handles, PushBack(h)
  PROVE  NoStrandedProducer'
<1>1. Resumed' = Resumed
  BY DEF PushBack, CallClosed, Land, Resumed, TypeInv, TypeOK
<1>2. PendingNotifies' = PendingNotifies /\ closed' = closed
  BY DEF PushBack, PendingNotifies
<1>3. CASE status[h] = "released" \/ closed
  <2>1. Parked' = Parked /\ UNCHANGED <<buffer, freed>>
    BY <1>3 DEF PushBack, CallClosed, Parked, TypeInv, TypeOK
  <2>2. QED
    BY <1>1, <1>2, <2>1, RoomQuiet
<1>4. CASE ~(status[h] = "released" \/ closed) /\ IsFull
  <2>1. Len(buffer) >= Bound /\ buffer' = buffer /\ ~closed
    BY <1>4 DEF PushBack, IsFull
  <2>2. Bound - Len(buffer) <= Cardinality(Resumed) + PendingNotifies
    BY <2>1, RoomTypes
  <2>3. QED
    BY <1>1, <1>2, <2>1, <2>2 DEF NoStrandedProducer
<1>5. CASE ~(status[h] = "released" \/ closed) /\ ~IsFull
  <2>1. Parked' = Parked /\ buffer' = Append(buffer, <<h, sent[h] + 1>>)
    BY <1>5 DEF PushBack, Land, Parked, TypeInv, TypeOK
  <2>2. Len(buffer') = Len(buffer) + 1
    BY <2>1 DEF TypeInv, TypeOK
  <2>3. QED
    BY <1>1, <1>2, <2>1, <2>2, RoomTypes DEF NoStrandedProducer
<1>6. QED
  BY <1>3, <1>4, <1>5

LEMMA RecheckRoomRoom ==
  ASSUME TypeInv, NoStrandedProducer, NEW h \in Handles, RecheckRoom(h)
  PROVE  NoStrandedProducer'
<1>1. PendingNotifies' = PendingNotifies /\ closed' = closed
  BY DEF RecheckRoom, PendingNotifies
<1>2. h \in Resumed
  BY DEF RecheckRoom, Resumed
<1>3. CASE IsFull /\ ~closed
  <2>1. Len(buffer) >= Bound /\ buffer' = buffer
    BY <1>3 DEF RecheckRoom, IsFull
  <2>2. Resumed' \subseteq Resumed
    BY <1>3 DEF RecheckRoom, Resumed, TypeInv, TypeOK
  <2>3. Cardinality(Resumed') \in Nat
    BY <2>2, HandleSetsFinite, FS_Subset, FS_CardinalityType
  <2>4. Bound - Len(buffer) <= Cardinality(Resumed') + PendingNotifies
    BY <2>1, <2>3, RoomTypes
  <2>5. QED
    BY <1>1, <1>3, <2>1, <2>4 DEF NoStrandedProducer
<1>4. CASE closed
  <2>1. Parked' = Parked
    BY <1>4 DEF RecheckRoom, CallClosed, Parked, TypeInv, TypeOK
  <2>2. QED
    BY <1>4, <2>1 DEF NoStrandedProducer
<1>5. CASE ~IsFull /\ ~closed
  <2>1. Parked' = Parked /\ Resumed' = Resumed \ {h}
    BY <1>5 DEF RecheckRoom, Land, Parked, Resumed, TypeInv, TypeOK
  <2>2. Cardinality(Resumed') = Cardinality(Resumed) - 1
    BY <1>2, <2>1, HandleSetsFinite, CardinalityRemove
  <2>3. buffer' = Append(buffer, <<h, sent[h] + 1>>)
    BY <1>5 DEF RecheckRoom, Land
  <2>4. Len(buffer') = Len(buffer) + 1
    BY <2>3 DEF TypeInv, TypeOK
  <2>5. QED
    BY <1>1, <2>1, <2>2, <2>4, RoomTypes DEF NoStrandedProducer
<1>6. QED
  BY <1>3, <1>4, <1>5

LEMMA TryPushBackRoom ==
  ASSUME TypeInv, NoStrandedProducer, NEW h \in Handles, TryPushBack(h)
  PROVE  NoStrandedProducer'
<1>1. Resumed' = Resumed /\ Parked' = Parked
  BY DEF TryPushBack, Refuse, CallClosed, Land, Resumed, Parked, TypeInv, TypeOK
<1>2. PendingNotifies' = PendingNotifies /\ UNCHANGED <<closed, freed>>
  BY DEF TryPushBack, PendingNotifies
<1>3. buffer' = buffer \/ buffer' = Append(buffer, <<h, sent[h] + 1>>)
  BY DEF TryPushBack, CallClosed, Land
<1>4. Len(buffer') >= Len(buffer) /\ Len(buffer') \in Nat
  BY <1>3 DEF TypeInv, TypeOK
<1>5. QED
  BY <1>1, <1>2, <1>4, RoomTypes DEF NoStrandedProducer

\* A close leaves nobody parked.
LEMMA CloseEdgeRoom ==
  ASSUME NEW t, NEW pcs \in [Handles -> {"idle", "parked", "resumed", "notify", "closing", "waking"}],
         CloseEdge(t, pcs)
  PROVE  NoStrandedProducer'
BY DEF CloseEdge, NoStrandedProducer, Parked

\* A drain that found a producer parked owes it what it freed.
LEMMA DrainRoom ==
  ASSUME TypeInv, NoStrandedProducer, pc' = pc, UNCHANGED closed, buffer # <<>>, rx # "notify",
         Drain(1, "One") \/ Drain(Len(buffer), "All")
  PROVE  NoStrandedProducer'
<1>1. Parked' = Parked /\ Resumed' = Resumed
  BY DEF Parked, Resumed
<1>2. SUFFICES ASSUME Parked # {} PROVE NoStrandedProducer'
  BY <1>1 DEF NoStrandedProducer
<1>3. freed = "none" /\ producersWaiting > 0
  BY <1>2, RoomTypes DEF TypeInv, OwesOK
<1>4. Len(buffer) \in Nat /\ Len(buffer) >= 1
  BY DEF TypeInv, TypeOK
<1>5. CASE Drain(1, "One")
  <2>1. buffer' = SubSeq(buffer, 2, Len(buffer)) /\ freed' = "One"
    BY <1>3, <1>5 DEF Drain, NewEpoch
  <2>2. Len(buffer') = Len(buffer) - 1
    <3>1. buffer \in Seq(Handles \X Nat)
      BY DEF TypeInv, TypeOK
    <3>2. Len(SubSeq(buffer, 1 + 1, Len(buffer))) = Len(buffer) - 1
      BY <1>4, <3>1, LeftOver
    <3>3. QED
      BY <2>1, <3>2
  <2>3. PendingNotifies = 0 /\ PendingNotifies' = 1
    BY <1>3, <2>1 DEF PendingNotifies
  <2>4. QED
    BY <1>1, <1>2, <1>4, <2>2, <2>3, RoomTypes DEF NoStrandedProducer
<1>6. CASE Drain(Len(buffer), "All")
  <2>1. buffer' = SubSeq(buffer, Len(buffer) + 1, Len(buffer)) /\ freed' = "All"
    BY <1>3, <1>6 DEF Drain, NewEpoch
  <2>2. Len(buffer') = 0
    BY <1>4, <2>1 DEF TypeInv, TypeOK
  <2>3. PendingNotifies' = Bound
    BY <2>1 DEF PendingNotifies
  <2>4. QED
    BY <1>1, <1>2, <2>2, <2>3, RoomTypes DEF NoStrandedProducer
<1>7. QED
  BY <1>5, <1>6

LEMMA NotifyProducersRoom ==
  ASSUME TypeInv, NoStrandedProducer, NotifyProducers
  PROVE  NoStrandedProducer'
<1>1. buffer' = buffer /\ closed' = closed
  BY DEF NotifyProducers, NotifyNotFull, inner
<1>2. PendingNotifies' = 0
  BY DEF NotifyProducers, NotifyNotFull, PendingNotifies
<1>3. CASE freed = "One" /\ Parked = {} /\ UNCHANGED pc
  BY <1>3 DEF NoStrandedProducer, Parked
<1>4. ASSUME NEW h \in Parked, freed = "One", pc' = [pc EXCEPT ![h] = "resumed"]
      PROVE  NoStrandedProducer'
  <2>1. Parked' = Parked \ {h} /\ Resumed' = Resumed \cup {h} /\ h \notin Resumed
    BY <1>4 DEF Parked, Resumed, TypeInv, TypeOK
  <2>2. Cardinality(Resumed') = Cardinality(Resumed) + 1
    BY <2>1, HandleSetsFinite, CardinalityAdd
  <2>3. PendingNotifies = 1
    BY <1>4 DEF PendingNotifies
  <2>4. QED
    BY <1>1, <1>2, <2>1, <2>2, <2>3, RoomTypes DEF NoStrandedProducer
<1>5. CASE freed = "All" /\ pc' = [h \in Handles |-> IF h \in Parked THEN "resumed" ELSE pc[h]]
  BY <1>5 DEF NoStrandedProducer, Parked
<1>6. QED
  BY <1>3, <1>4, <1>5 DEF NotifyProducers, NotifyNotFull

LEMMA SpuriousWakeupRoom ==
  ASSUME TypeInv, NoStrandedProducer, SpuriousWakeup
  PROVE  NoStrandedProducer'
<1>1. buffer' = buffer /\ closed' = closed /\ freed' = freed
  BY DEF SpuriousWakeup, inner
<1>2. ASSUME NEW h \in Parked, pc' = [pc EXCEPT ![h] = "resumed"]
      PROVE  NoStrandedProducer'
  <2>1. Parked' = Parked \ {h} /\ Resumed' = Resumed \cup {h} /\ h \notin Resumed
    BY <1>2 DEF Parked, Resumed, TypeInv, TypeOK
  <2>2. Cardinality(Resumed') = Cardinality(Resumed) + 1
    BY <2>1, HandleSetsFinite, CardinalityAdd
  <2>3. PendingNotifies' = PendingNotifies
    BY <1>1 DEF PendingNotifies
  <2>4. QED
    BY <1>1, <2>1, <2>2, <2>3, RoomTypes DEF NoStrandedProducer
<1>3. CASE UNCHANGED pc
  BY <1>1, <1>3, RoomQuiet DEF Parked, Resumed
<1>4. QED
  BY <1>2, <1>3 DEF SpuriousWakeup

LEMMA NextRoom ==
  TypeInv /\ NoStrandedProducer /\ [Next]_vars => NoStrandedProducer'
<1> SUFFICES ASSUME TypeInv, NoStrandedProducer, [Next]_vars PROVE NoStrandedProducer'
  OBVIOUS
<1>1. CASE UNCHANGED vars
  BY <1>1, RoomQuiet DEF vars, inner, Parked, Resumed
<1>2. ASSUME NEW h \in Handles, ProducerStep(h) PROVE NoStrandedProducer'
  <2>1. CASE Mint(h)
    BY <2>1, RoomQuiet DEF Mint, inner, Parked, Resumed
  <2>2. ASSUME NEW c \in Handles, Clone(h, c) PROVE NoStrandedProducer'
    BY <2>2, RoomQuiet DEF Clone, inner, Parked, Resumed
  <2>3. ASSUME NEW w \in Wakers, Schedule(h, w) PROVE NoStrandedProducer'
    BY <2>3, RoomQuiet DEF Schedule, inner, Parked, Resumed
  <2>4. CASE NotifyConsumer(h)
    <3>1. Parked' = Parked /\ Resumed' = Resumed
      BY <2>4 DEF NotifyConsumer, Parked, Resumed, TypeInv, TypeOK
    <3>2. QED
      BY <2>4, <3>1, RoomQuiet DEF NotifyConsumer, inner
  <2>5. CASE Release(h)
    <3>1. Parked' = Parked /\ Resumed' = Resumed
      BY <2>5 DEF Release, Parked, Resumed, TypeInv, TypeOK
    <3>2. QED
      BY <2>5, <3>1, RoomQuiet DEF Release, inner
  <2>6. CASE LastSenderCloses(h)
    <3>1. [pc EXCEPT ![h] = IF refused = <<>> THEN "idle" ELSE "waking"]
            \in [Handles -> {"idle", "parked", "resumed", "notify", "closing", "waking"}]
      BY DEF TypeInv, TypeOK
    <3>2. QED
      BY <2>6, <3>1, CloseEdgeRoom DEF LastSenderCloses
  <2>7. QED
    BY <1>2, <2>1, <2>2, <2>3, <2>4, <2>5, <2>6, PushBackRoom, RecheckRoomRoom, TryPushBackRoom
    DEF ProducerStep
<1>3. ASSUME ReceiverStep PROVE NoStrandedProducer'
  <2>1. ASSUME NEW k \in {"front", "all", "wait"}, BlockingRead(k) PROVE NoStrandedProducer'
    <3>1. pc' = pc /\ UNCHANGED closed /\ rx # "notify"
      BY <2>1 DEF BlockingRead
    <3>2. CASE buffer # <<>> /\ k # "wait"
      BY <2>1, <3>1, <3>2, DrainRoom DEF BlockingRead
    <3>3. CASE ~(buffer # <<>> /\ k # "wait")
      BY <2>1, <3>1, <3>3, RoomQuiet DEF BlockingRead, Parked, Resumed
    <3>4. QED
      BY <3>2, <3>3
  <2>2. ASSUME NEW usesCount \in BOOLEAN, Pop(usesCount) PROVE NoStrandedProducer'
    <3>1. pc' = pc /\ UNCHANGED closed /\ rx # "notify"
      BY <2>2 DEF Pop
    <3>2. CASE buffer # <<>>
      BY <2>2, <3>1, <3>2, DrainRoom DEF Pop
    <3>3. CASE buffer = <<>>
      BY <2>2, <3>1, <3>3, RoomQuiet DEF Pop, Parked, Resumed
    <3>4. QED
      BY <3>2, <3>3
  <2>3. CASE ReceiverCloses
    BY <2>3, CloseEdgeRoom DEF ReceiverCloses, TypeInv, TypeOK
  <2>4. QED
    BY <1>3, <2>1, <2>2, <2>3, NotifyProducersRoom DEF ReceiverStep
<1>4. ASSUME NEW t \in Threads, WakeOne(t) PROVE NoStrandedProducer'
  <2>1. Parked' = Parked /\ Resumed' = Resumed
    BY <1>4 DEF WakeOne, Parked, Resumed, TypeInv, TypeOK, Threads
  <2>2. QED
    BY <1>4, <2>1, RoomQuiet DEF WakeOne, inner
<1>5. QED
  BY <1>1, <1>2, <1>3, <1>4, SpuriousWakeupRoom DEF Next

\* No producer sleeps in push_back beside room that nobody is about to claim,
\* and none sleeps on a closed edge: every free slot is matched by a producer
\* already woken or by a notification the receiver still has to issue.
THEOREM ProducersNotStranded == Spec => []NoStrandedProducer
<1>1. Init => NoStrandedProducer
  BY DEF Init, NoStrandedProducer, Parked
<1>2. Spec => [](TypeInv /\ NoStrandedProducer)
  BY <1>1, InitTyped, NextTyped, NextRoom, PTL DEF Spec
<1>3. QED
  BY <1>2, PTL

-----------------------------------------------------------------------------
(* The bound, the finality of Closed, the list of refused wakers, the       *)
(* sleeping receiver, and that the edge implements Channel.  Most of it     *)
(* follows from what a step can do to the edge seen from outside, so that   *)
(* comes first.                                                             *)

-----------------------------------------------------------------------------
(* What a step does to the buffer, the handles and the close.               *)

\* A producer that waits in push_back has not released its handle: close and
\* drop take the handle by value or by `&mut`, so no call is under way.
WaitersOpen == \A h \in Handles : pc[h] \in {"parked", "resumed"} => status[h] = "open"

Lands(h) ==
  /\ status[h] = "open" /\ ~closed /\ ~IsFull
  /\ Land(h)
  /\ UNCHANGED <<status, closed, got, ended, refused>>

Drains ==
  /\ buffer # <<>>
  /\ Drain(1, "One") \/ Drain(Len(buffer), "All")
  /\ UNCHANGED <<status, closed, sent, ended>>

Ends ==
  /\ buffer = <<>> /\ (closed \/ producerCount = 0)
  /\ ended' = TRUE
  /\ UNCHANGED <<buffer, status, closed, sent, got, refused>>

Closes ==
  /\ closed' = TRUE /\ refused' = <<>>
  /\ UNCHANGED <<buffer, status, sent, got, ended>>

Joins(h) ==
  /\ status[h] = "unborn" /\ (~ended \/ Open # {})
  /\ status' = [status EXCEPT ![h] = "open"]
  /\ UNCHANGED <<buffer, closed, sent, got, ended, refused>>

Leaves(h) ==
  /\ status[h] # "released"
  /\ status' = [status EXCEPT ![h] = "released"]
  /\ UNCHANGED <<buffer, closed, sent, got, ended, refused>>

\* Nothing seen from outside; only a refusal may have been recorded.
Idles ==
  /\ UNCHANGED <<buffer, status, closed, sent, got, ended>>
  /\ refused' = refused \/ (IsFull /\ ~closed)

Moves ==
  \/ \E h \in Handles : Lands(h) \/ Joins(h) \/ Leaves(h)
  \/ Drains \/ Ends \/ Closes \/ Idles

LEMMA PushMoves ==
  ASSUME TypeInv, WaitersOpen, NEW h \in Handles,
         PushBack(h) \/ RecheckRoom(h) \/ TryPushBack(h)
  PROVE  Moves
<1>1. status[h] \in {"unborn", "open", "released"}
  BY DEF TypeInv, TypeOK
<1>2. CASE PushBack(h)
  <2>1. CASE status[h] = "released" \/ closed
    BY <1>2, <2>1 DEF PushBack, CallClosed, sender, Moves, Idles
  <2>2. CASE ~(status[h] = "released" \/ closed) /\ IsFull
    BY <1>2, <2>2 DEF PushBack, sender, Moves, Idles
  <2>3. CASE ~(status[h] = "released" \/ closed) /\ ~IsFull
    <3>1. Lands(h)
      BY <1>1, <1>2, <2>3 DEF PushBack, sender, Lands
    <3>2. QED
      BY <3>1 DEF Moves
  <2>4. QED
    BY <2>1, <2>2, <2>3
<1>3. CASE RecheckRoom(h)
  <2>1. status[h] = "open"
    BY <1>3 DEF RecheckRoom, WaitersOpen
  <2>2. CASE IsFull \/ closed
    BY <1>3, <2>2 DEF RecheckRoom, CallClosed, sender, Moves, Idles
  <2>3. CASE ~IsFull /\ ~closed
    <3>1. Lands(h)
      BY <1>3, <2>1, <2>3 DEF RecheckRoom, sender, Lands
    <3>2. QED
      BY <3>1 DEF Moves
  <2>4. QED
    BY <2>2, <2>3
<1>4. CASE TryPushBack(h)
  <2>1. CASE status[h] = "released" \/ closed
    BY <1>4, <2>1 DEF TryPushBack, CallClosed, Moves, Idles
  <2>2. CASE ~(status[h] = "released" \/ closed) /\ IsFull
    BY <1>4, <2>2 DEF TryPushBack, Moves, Idles
  <2>3. CASE ~(status[h] = "released" \/ closed) /\ ~IsFull
    <3>1. Lands(h)
      BY <1>1, <1>4, <2>3 DEF TryPushBack, Lands
    <3>2. QED
      BY <3>1 DEF Moves
  <2>4. QED
    BY <2>1, <2>2, <2>3
<1>5. QED
  BY <1>2, <1>3, <1>4

LEMMA HandleMoves ==
  ASSUME TypeInv, NEW h \in Handles,
         \/ Mint(h) \/ Release(h) \/ LastSenderCloses(h) \/ NotifyConsumer(h)
         \/ \E c \in Handles : Clone(h, c)
         \/ \E w \in Wakers : Schedule(h, w)
  PROVE  Moves
<1>1. CASE Mint(h)
  BY <1>1 DEF Mint, inner, Moves, Joins
<1>2. ASSUME NEW c \in Handles, Clone(h, c) PROVE Moves
  <2>1. status[h] \in {"open", "released"} /\ status[c] = "unborn"
    BY <1>2 DEF Clone, TypeInv, TypeOK
  <2>2. CASE status[h] = "open"
    <3>1. Open # {}
      BY <2>2 DEF Open
    <3>2. Joins(c)
      BY <1>2, <2>1, <2>2, <3>1 DEF Clone, inner, Joins
    <3>3. QED
      BY <3>2 DEF Moves
  <2>3. CASE status[h] = "released"
    <3>1. Leaves(c)
      BY <1>2, <2>1, <2>3 DEF Clone, inner, Leaves
    <3>2. QED
      BY <3>1 DEF Moves
  <2>4. QED
    BY <2>1, <2>2, <2>3
<1>3. ASSUME NEW w \in Wakers, Schedule(h, w) PROVE Moves
  BY <1>3 DEF Schedule, inner, Moves, Idles
<1>4. CASE Release(h)
  <2>1. Leaves(h)
    BY <1>4 DEF Release, inner, Leaves
  <2>2. QED
    BY <2>1 DEF Moves
<1>5. CASE LastSenderCloses(h)
  BY <1>5 DEF LastSenderCloses, CloseEdge, sender, Moves, Closes
<1>6. CASE NotifyConsumer(h)
  BY <1>6 DEF NotifyConsumer, inner, sender, Moves, Idles
<1>7. QED
  BY <1>1, <1>2, <1>3, <1>4, <1>5, <1>6

LEMMA ReadMoves ==
  ASSUME TypeInv,
         \/ \E k \in {"front", "all", "wait"} : BlockingRead(k)
         \/ \E usesCount \in BOOLEAN : Pop(usesCount)
  PROVE  Moves
<1>1. ASSUME NEW k \in {"front", "all", "wait"}, BlockingRead(k) PROVE Moves
  <2>1. UNCHANGED <<status, closed, sent>>
    BY <1>1 DEF BlockingRead, sender
  <2>2. CASE buffer # <<>> /\ k # "wait"
    BY <1>1, <2>1, <2>2 DEF BlockingRead, Moves, Drains
  <2>3. CASE buffer # <<>> /\ k = "wait"
    BY <1>1, <2>1, <2>3 DEF BlockingRead, Moves, Idles
  <2>4. CASE buffer = <<>> /\ Exhausted
    BY <1>1, <2>1, <2>4 DEF BlockingRead, Exhausted, Moves, Ends
  <2>5. CASE buffer = <<>> /\ ~Exhausted
    BY <1>1, <2>1, <2>5 DEF BlockingRead, Moves, Idles
  <2>6. QED
    BY <2>2, <2>3, <2>4, <2>5
<1>2. ASSUME NEW usesCount \in BOOLEAN, Pop(usesCount) PROVE Moves
  <2>1. UNCHANGED <<status, closed, sent>>
    BY <1>2 DEF Pop, sender
  <2>2. CASE buffer # <<>>
    BY <1>2, <2>1, <2>2 DEF Pop, Moves, Drains
  <2>3. CASE buffer = <<>>
    BY <1>2, <2>1, <2>3 DEF Pop, Moves, Ends
  <2>4. QED
    BY <2>2, <2>3
<1>3. QED
  BY <1>1, <1>2

LEMMA EveryStepMoves ==
  ASSUME TypeInv, WaitersOpen, [Next]_vars
  PROVE  Moves
<1>1. CASE UNCHANGED vars
  BY <1>1 DEF vars, inner, sender, Moves, Idles
<1>2. ASSUME NEW h \in Handles, ProducerStep(h) PROVE Moves
  BY <1>2, PushMoves, HandleMoves DEF ProducerStep
<1>3. CASE ReceiverStep
  <2>1. CASE ReceiverCloses
    BY <2>1 DEF ReceiverCloses, CloseEdge, sender, Moves, Closes
  <2>2. CASE NotifyProducers
    BY <2>2 DEF NotifyProducers, inner, sender, Moves, Idles
  <2>3. QED
    BY <1>3, <2>1, <2>2, ReadMoves DEF ReceiverStep
<1>4. ASSUME NEW t \in Threads, WakeOne(t) PROVE Moves
  BY <1>4 DEF WakeOne, inner, sender, Moves, Idles
<1>5. CASE SpuriousWakeup
  BY <1>5 DEF SpuriousWakeup, inner, sender, Moves, Idles
<1>6. QED
  BY <1>1, <1>2, <1>3, <1>4, <1>5 DEF Next

-----------------------------------------------------------------------------
LEMMA WaitersStayOpen ==
  ASSUME TypeInv, WaitersOpen, [Next]_vars
  PROVE  WaitersOpen'
<1> USE DEF WaitersOpen, TypeInv, TypeOK
<1>1. CASE UNCHANGED vars
  BY <1>1 DEF vars, sender
<1>2. ASSUME NEW h \in Handles, ProducerStep(h) PROVE WaitersOpen'
  <2>1. CASE Mint(h)
    BY <2>1 DEF Mint
  <2>2. ASSUME NEW c \in Handles, Clone(h, c) PROVE WaitersOpen'
    BY <2>2 DEF Clone
  <2>3. ASSUME NEW w \in Wakers, Schedule(h, w) PROVE WaitersOpen'
    BY <2>3 DEF Schedule
  <2>4. CASE PushBack(h)
    <3>1. status' = status
      BY <2>4 DEF PushBack, sender
    <3>2. status[h] \in {"open", "released"}
      BY <2>4 DEF PushBack
    <3>3. pc'[h] = "parked" => status[h] = "open"
      BY <2>4, <3>2 DEF PushBack, CallClosed, Land
    <3>4. pc'[h] # "resumed"
      BY <2>4 DEF PushBack, CallClosed, Land
    <3>5. \A g \in Handles \ {h} : pc'[g] = pc[g]
      BY <2>4 DEF PushBack, CallClosed, Land
    <3>6. QED
      BY <3>1, <3>3, <3>4, <3>5
  <2>5. CASE RecheckRoom(h)
    <3>1. status' = status /\ status[h] = "open"
      BY <2>5 DEF RecheckRoom, sender
    <3>2. \A g \in Handles \ {h} : pc'[g] = pc[g]
      BY <2>5 DEF RecheckRoom, CallClosed, Land
    <3>3. QED
      BY <3>1, <3>2
  <2>6. CASE TryPushBack(h)
    <3>1. status' = status /\ pc'[h] \in {"idle", "notify"}
      BY <2>6 DEF TryPushBack, CallClosed, Land
    <3>2. \A g \in Handles \ {h} : pc'[g] = pc[g]
      BY <2>6 DEF TryPushBack, CallClosed, Land
    <3>3. QED
      BY <3>1, <3>2
  <2>7. CASE NotifyConsumer(h)
    BY <2>7 DEF NotifyConsumer, sender
  <2>8. CASE Release(h)
    BY <2>8 DEF Release
  <2>9. CASE LastSenderCloses(h)
    BY <2>9 DEF LastSenderCloses, CloseEdge, sender
  <2>10. QED
    BY <1>2, <2>1, <2>2, <2>3, <2>4, <2>5, <2>6, <2>7, <2>8, <2>9 DEF ProducerStep
<1>3. ASSUME ReceiverStep PROVE WaitersOpen'
  <2>1. status' = status
    BY <1>3 DEF ReceiverStep, BlockingRead, Pop, NotifyProducers, ReceiverCloses, sender
  <2>2. \A h \in Handles : pc'[h] = pc[h] \/ pc[h] = "parked"
    BY <1>3 DEF ReceiverStep, BlockingRead, Pop, NotifyProducers, NotifyNotFull,
                ReceiverCloses, CloseEdge, Parked
  <2>3. QED
    BY <2>1, <2>2
<1>4. ASSUME NEW t \in Threads, WakeOne(t) PROVE WaitersOpen'
  BY <1>4 DEF WakeOne, Threads, sender
<1>5. CASE SpuriousWakeup
  BY <1>5 DEF SpuriousWakeup, Parked, sender
<1>6. QED
  BY <1>1, <1>2, <1>3, <1>4, <1>5 DEF Next

LEMMA Sound == Spec => [](TypeInv /\ WaitersOpen)
<1>1. Init => WaitersOpen
  BY DEF Init, WaitersOpen
<1>2. TypeInv /\ WaitersOpen /\ [Next]_vars => WaitersOpen'
  BY WaitersStayOpen
<1>3. QED
  BY <1>1, <1>2, InitTyped, NextTyped, PTL DEF Spec

-----------------------------------------------------------------------------
(* The bound, the refused list and the end.                                 *)

\* What a drain leaves is shorter than what it found.
LEMMA DrainShortens ==
  ASSUME TypeInv, Drains
  PROVE  Len(buffer') \in Nat /\ Len(buffer') < Len(buffer)
<1>1. buffer \in Seq(Handles \X Nat) /\ Len(buffer) \in Nat /\ Len(buffer) >= 1
  BY DEF TypeInv, TypeOK, Drains
<1>2. PICK n \in {1, Len(buffer)} : buffer' = SubSeq(buffer, n + 1, Len(buffer))
  BY DEF Drains, Drain
<1>3. Len(SubSeq(buffer, n + 1, Len(buffer))) = Len(buffer) - n
  BY <1>1, LeftOver
<1>4. QED
  BY <1>1, <1>2, <1>3

LEMMA MovesKeepBound ==
  ASSUME TypeInv, WithinBound, Moves
  PROVE  WithinBound'
<1>1. Len(buffer) \in Nat
  BY DEF TypeInv, TypeOK
<1>2. ASSUME NEW h \in Handles, Lands(h) PROVE WithinBound'
  <2>1. Len(buffer') = Len(buffer) + 1
    BY <1>2 DEF Lands, Land, TypeInv, TypeOK
  <2>2. QED
    BY <1>1, <1>2, <2>1 DEF Lands, IsFull, WithinBound
<1>3. CASE Drains
  BY <1>1, <1>3, DrainShortens DEF WithinBound
<1>4. CASE buffer' = buffer
  BY <1>4 DEF WithinBound
<1>5. QED
  BY <1>2, <1>3, <1>4 DEF Moves, Joins, Leaves, Ends, Closes, Idles

\* A bounded edge never holds more than its bound: whoever is notified of a
\* freed slot checks again under the lock, so two producers that race for one
\* slot cannot both land, and neither can a task's try_push_back beside them.
THEOREM BoundHeld == Spec => []WithinBound
<1>1. Init => WithinBound
  BY DEF Init, WithinBound
<1>2. TypeInv /\ WaitersOpen /\ WithinBound /\ [Next]_vars => WithinBound'
  BY EveryStepMoves, MovesKeepBound
<1>3. QED
  BY <1>1, <1>2, Sound, PTL DEF Spec

LEMMA MovesKeepRefused ==
  ASSUME TypeInv, RefusedMeansFull, Moves
  PROVE  RefusedMeansFull'
<1>1. ASSUME NEW h \in Handles, Lands(h) PROVE RefusedMeansFull'
  BY <1>1 DEF Lands, RefusedMeansFull
<1>2. CASE Drains
  BY <1>2 DEF Drains, Drain, NewEpoch, RefusedMeansFull
<1>3. CASE Closes
  BY <1>3 DEF Closes, RefusedMeansFull
<1>4. ASSUME NEW h \in Handles, Joins(h) \/ Leaves(h) PROVE RefusedMeansFull'
  BY <1>4 DEF Joins, Leaves, RefusedMeansFull, IsFull
<1>5. CASE Ends \/ Idles
  BY <1>5 DEF Ends, Idles, RefusedMeansFull, IsFull
<1>6. QED
  BY <1>1, <1>2, <1>3, <1>4, <1>5 DEF Moves

\* A waker waits on the list only while the sender it stands for would be
\* refused again: whatever makes room, and whatever closes the edge, takes the
\* list in the same critical section and owes every waker on it a wake.
THEOREM RefusedOnlyWhileFull == Spec => []RefusedMeansFull
<1>1. Init => RefusedMeansFull
  BY DEF Init, RefusedMeansFull
<1>2. TypeInv /\ WaitersOpen /\ RefusedMeansFull /\ [Next]_vars => RefusedMeansFull'
  BY EveryStepMoves, MovesKeepRefused
<1>3. QED
  BY <1>1, <1>2, Sound, PTL DEF Spec

\* An atomic count of zero is a set of handles that is empty.
LEMMA NoProducerNoneOpen ==
  ASSUME TypeInv, producerCount = 0
  PROVE  Open = {}
BY HandleSetsFinite, FS_EmptySet DEF TypeInv, CountsOK

LEMMA MovesKeepEnd ==
  ASSUME TypeInv, ClosedIsFinal, Moves
  PROVE  ClosedIsFinal'
<1>0. status \in [Handles -> {"unborn", "open", "released"}]
  BY DEF TypeInv, TypeOK
<1>1. ASSUME NEW h \in Handles, Lands(h) PROVE ClosedIsFinal'
  <2>1. h \in Open /\ ~closed /\ ended' = ended
    BY <1>1 DEF Lands, Open
  <2>2. QED
    BY <2>1 DEF ClosedIsFinal
<1>2. CASE Drains
  BY <1>2 DEF Drains, ClosedIsFinal
<1>3. CASE Ends
  <2>1. Open' = Open
    BY <1>3 DEF Ends, Open
  <2>2. QED
    BY <1>3, <2>1, NoProducerNoneOpen DEF Ends, ClosedIsFinal
<1>4. ASSUME NEW h \in Handles, Joins(h) PROVE ClosedIsFinal'
  BY <1>4 DEF Joins, ClosedIsFinal
<1>5. ASSUME NEW h \in Handles, Leaves(h) PROVE ClosedIsFinal'
  <2>1. Open' \subseteq Open
    BY <1>0, <1>5 DEF Leaves, Open
  <2>2. QED
    BY <1>5, <2>1 DEF Leaves, ClosedIsFinal
<1>6. CASE Closes
  BY <1>6 DEF Closes, ClosedIsFinal
<1>7. CASE Idles
  BY <1>7 DEF Idles, ClosedIsFinal, Open
<1>8. QED
  BY <1>1, <1>2, <1>3, <1>4, <1>5, <1>6, <1>7 DEF Moves

\* Once a read has said Closed the edge is over for good.  The read may have
\* believed the atomic count alone, before the last sender's close took the
\* lock: what it was told stays true because a count of zero means that no
\* handle is left to push or to be cloned.
THEOREM ClosedStaysClosed == Spec => []ClosedIsFinal
<1>1. Init => ClosedIsFinal
  BY DEF Init, ClosedIsFinal
<1>2. TypeInv /\ WaitersOpen /\ ClosedIsFinal /\ [Next]_vars => ClosedIsFinal'
  BY EveryStepMoves, MovesKeepEnd
<1>3. QED
  BY <1>1, <1>2, Sound, PTL DEF Spec

-----------------------------------------------------------------------------
(* The edge implements the channel: each kind of move is one of its steps.  *)

LEMMA MovesAreChannelSteps ==
  ASSUME TypeInv, Moves
  PROVE  [Chan!Next]_(Chan!vars)
<1> USE DEF Chan!vars
<1>1. ASSUME NEW h \in Handles, Lands(h) PROVE Chan!Put(h)
  <2>1. Bound # 0 => Len(buffer) < Bound
    BY <1>1 DEF Lands, IsFull, TypeInv, TypeOK
  <2>2. QED
    BY <1>1, <2>1 DEF Lands, Land, Chan!Put
<1>2. CASE Drains
  <2>1. PICK n \in {1, Len(buffer)} :
          /\ buffer' = SubSeq(buffer, n + 1, Len(buffer))
          /\ got' = [h \in Handles |->
                       got[h] + Cardinality({i \in 1..n : buffer[i][1] = h})]
    BY <1>2 DEF Drains, Drain
  <2>2. buffer # <<>> /\ UNCHANGED <<status, closed, sent, ended>>
    BY <1>2 DEF Drains
  <2>3. Chan!Take(n)
    BY <2>1, <2>2, Zenon DEF Chan!Take, Chan!Cardinality, Cardinality
  <2>4. QED
    BY <2>3 DEF Chan!Next
<1>3. CASE Ends
  <2>1. closed \/ Open = {}
    BY <1>3, NoProducerNoneOpen DEF Ends
  <2>2. Chan!End
    BY <1>3, <2>1 DEF Ends, Chan!End, Chan!Open, Open
  <2>3. QED
    BY <2>2 DEF Chan!Next
<1>4. CASE Closes
  <2>1. CASE closed
    BY <1>4, <2>1 DEF Closes
  <2>2. CASE ~closed
    BY <1>4, <2>2 DEF Closes, Chan!Shut, Chan!Next
  <2>3. QED
    BY <2>1, <2>2
<1>5. ASSUME NEW h \in Handles, Joins(h) PROVE Chan!Join(h)
  BY <1>5 DEF Joins, Chan!Join, Chan!Open, Open
<1>6. ASSUME NEW h \in Handles, Leaves(h) PROVE Chan!Leave(h)
  BY <1>6 DEF Leaves, Chan!Leave
<1>7. CASE Idles
  BY <1>7 DEF Idles
<1>8. QED
  BY <1>1, <1>2, <1>3, <1>4, <1>5, <1>6, <1>7 DEF Moves, Chan!Next

\* The edge is a bounded FIFO channel: locks, waits, notifications, refusals
\* and wakers leave no trace in the order of the messages, in what is taken,
\* or in when the consumer is told the end.  Every push that lands is a Put
\* with room, every read a Take of the oldest, and Closed is told only when
\* the channel is shut or no producer is left.
THEOREM EdgeIsAChannel == Spec => ChannelSpec
<1>1. Init => Chan!Init
  BY DEF Init, Chan!Init
<1>2. TypeInv /\ WaitersOpen /\ [Next]_vars => [Chan!Next]_(Chan!vars)
  BY EveryStepMoves, MovesAreChannelSteps
<1>3. QED
  BY <1>1, <1>2, Sound, PTL DEF Spec, ChannelSpec, Chan!Spec

-----------------------------------------------------------------------------
(* The sleeping receiver.  Alone the property is not inductive: a push on   *)
(* an empty edge is noticed only if the flag is up, or if a producer that   *)
(* took the flag down has its notification still to send.                   *)

Notifying == \E h \in Handles : pc[h] = "notify"
Closing == \E h \in Handles : pc[h] = "closing"

SleeperInv ==
  rx = "blocked" =>
    /\ ~closed
    /\ consumerWaiting \/ Notifying
    /\ buffer # <<>> => Notifying
    /\ producerCount = 0 => Closing

\* An action that leaves what the receiver waits for, and takes no notifying
\* or closing thread off its duty.
LEMMA SleeperQuiet ==
  ASSUME SleeperInv, rx' = rx \/ rx' # "blocked",
         \A h \in Handles : pc[h] \in {"notify", "closing"} => pc'[h] = pc[h],
         UNCHANGED <<buffer, closed, consumerWaiting, producerCount>>
  PROVE  SleeperInv'
BY DEF SleeperInv, Notifying, Closing

\* A message lands: whoever finds the flag up owes the notification, and if it
\* is down with the receiver asleep, somebody else owes it already.
LEMMA LandSleeper ==
  ASSUME TypeInv, SleeperInv, NEW h \in Handles, pc[h] \notin {"notify", "closing"},
         Land(h), UNCHANGED <<closed, rx, producerCount>>
  PROVE  SleeperInv'
<1>1. pc \in [Handles -> {"idle", "parked", "resumed", "notify", "closing", "waking"}]
  BY DEF TypeInv, TypeOK
<1>2. \A g \in Handles : pc[g] \in {"notify", "closing"} => pc'[g] = pc[g]
  BY <1>1 DEF Land
<1>3. consumerWaiting => pc'[h] = "notify"
  BY <1>1 DEF Land
<1>4. SUFFICES ASSUME rx = "blocked" PROVE SleeperInv'
  BY DEF SleeperInv
<1>5. Notifying'
  BY <1>2, <1>3, <1>4 DEF SleeperInv, Notifying
<1>6. producerCount = 0 => Closing'
  BY <1>2, <1>4 DEF SleeperInv, Closing
<1>7. QED
  BY <1>4, <1>5, <1>6 DEF SleeperInv

LEMMA PushSleeper ==
  ASSUME TypeInv, SleeperInv, NEW h \in Handles,
         PushBack(h) \/ RecheckRoom(h) \/ TryPushBack(h)
  PROVE  SleeperInv'
<1>1. pc \in [Handles -> {"idle", "parked", "resumed", "notify", "closing", "waking"}]
  BY DEF TypeInv, TypeOK
<1>2. pc[h] \in {"idle", "resumed"} /\ UNCHANGED <<closed, rx, producerCount>>
  BY DEF PushBack, RecheckRoom, TryPushBack
<1>3. CASE Land(h)
  BY <1>2, <1>3, LandSleeper
<1>4. CASE ~Land(h)
  <2>1. UNCHANGED <<buffer, consumerWaiting>>
    BY <1>4 DEF PushBack, RecheckRoom, TryPushBack, CallClosed
  <2>2. \A g \in Handles \ {h} : pc'[g] = pc[g]
    BY <1>1, <1>4 DEF PushBack, RecheckRoom, TryPushBack, CallClosed
  <2>3. QED
    BY <1>2, <2>1, <2>2, SleeperQuiet
<1>5. QED
  BY <1>3, <1>4

LEMMA ReleaseSleeper ==
  ASSUME TypeInv, SleeperInv, NEW h \in Handles, Release(h)
  PROVE  SleeperInv'
<1>1. producerCount \in Nat
      /\ pc \in [Handles -> {"idle", "parked", "resumed", "notify", "closing", "waking"}]
  BY DEF TypeInv, TypeOK
<1>2. \A g \in Handles : pc[g] \in {"notify", "closing"} => pc'[g] = pc[g]
  BY <1>1 DEF Release
<1>3. producerCount' = 0 => pc'[h] = "closing"
  BY <1>1 DEF Release
<1>4. UNCHANGED <<rx, buffer, closed, consumerWaiting>>
  BY DEF Release, inner
<1>5. QED
  BY <1>2, <1>3, <1>4 DEF SleeperInv, Notifying, Closing

LEMMA CloneSleeper ==
  ASSUME TypeInv, SleeperInv, NEW h \in Handles, NEW c \in Handles, Clone(h, c)
  PROVE  SleeperInv'
<1>1. producerCount \in Nat
  BY DEF TypeInv, TypeOK
<1>2. producerCount' = 0 => producerCount = 0
  BY <1>1 DEF Clone
<1>3. UNCHANGED <<rx, pc, buffer, closed, consumerWaiting>>
  BY DEF Clone, inner
<1>4. QED
  BY <1>2, <1>3 DEF SleeperInv, Notifying, Closing

LEMMA ReadSleeper ==
  ASSUME TypeInv, SleeperInv, ReceiverStep
  PROVE  SleeperInv'
<1>1. ASSUME NEW k \in {"front", "all", "wait"}, BlockingRead(k), rx' = "blocked"
      PROVE  SleeperInv'
  <2>1. buffer = <<>> /\ ~Exhausted /\ consumerWaiting' = TRUE
    BY <1>1 DEF BlockingRead, Drain
  <2>2. UNCHANGED <<buffer, closed, producerCount>>
    BY <1>1, <2>1 DEF BlockingRead
  <2>3. QED
    BY <2>1, <2>2 DEF SleeperInv, Exhausted
<1>2. CASE rx' # "blocked"
  BY <1>2 DEF SleeperInv
<1>3. ASSUME NEW usesCount \in BOOLEAN, Pop(usesCount) PROVE rx' # "blocked"
  BY <1>3 DEF Pop, Drain
<1>4. NotifyProducers \/ ReceiverCloses => rx' # "blocked"
  BY DEF NotifyProducers, ReceiverCloses
<1>5. QED
  BY <1>1, <1>2, <1>3, <1>4 DEF ReceiverStep

LEMMA NextSleeper == TypeInv /\ SleeperInv /\ [Next]_vars => SleeperInv'
<1> SUFFICES ASSUME TypeInv, SleeperInv, [Next]_vars PROVE SleeperInv'
  OBVIOUS
<1>0. pc \in [Handles -> {"idle", "parked", "resumed", "notify", "closing", "waking"}]
  BY DEF TypeInv, TypeOK
<1>1. CASE UNCHANGED vars
  BY <1>1, SleeperQuiet DEF vars, inner
<1>2. ASSUME NEW h \in Handles, ProducerStep(h) PROVE SleeperInv'
  <2>1. CASE Mint(h)
    BY <2>1 DEF Mint, SleeperInv
  <2>2. ASSUME NEW w \in Wakers, Schedule(h, w) PROVE SleeperInv'
    BY <2>2, SleeperQuiet DEF Schedule, inner
  <2>3. CASE NotifyConsumer(h) \/ LastSenderCloses(h)
    BY <2>3 DEF NotifyConsumer, LastSenderCloses, SleeperInv
  <2>4. QED
    BY <1>2, <2>1, <2>2, <2>3, CloneSleeper, PushSleeper, ReleaseSleeper
    DEF ProducerStep
<1>3. ASSUME NEW t \in Threads, WakeOne(t) PROVE SleeperInv'
  <2>1. UNCHANGED <<buffer, closed, consumerWaiting, producerCount>>
        /\ (rx' = rx \/ rx' # "blocked")
    BY <1>3 DEF WakeOne, inner
  <2>2. \A h \in Handles : pc[h] \in {"notify", "closing"} => pc'[h] = pc[h]
    BY <1>0, <1>3 DEF WakeOne, Threads
  <2>3. QED
    BY <2>1, <2>2, SleeperQuiet
<1>4. CASE SpuriousWakeup
  BY <1>0, <1>4, SleeperQuiet DEF SpuriousWakeup, Parked, inner
<1>5. QED
  BY <1>1, <1>2, <1>3, <1>4, ReadSleeper DEF Next

\* A receiver asleep in a read is never left there by a push, by the last
\* producer's exit or by a close: whatever it could be told is already on its
\* way to it, though flag, notification, count and close are separate steps of
\* different threads and its own wait may return for no reason.
THEOREM ReceiverNotStranded == Spec => []ConsumerNotStranded
<1>1. Init => SleeperInv
  BY DEF Init, SleeperInv
<1>2. SleeperInv => ConsumerNotStranded
  BY DEF SleeperInv, Notifying, Closing, ConsumerNotStranded
<1>3. QED
  BY <1>1, <1>2, InitTyped, NextTyped, NextSleeper, PTL DEF Spec

-----------------------------------------------------------------------------
(* A Stuck is owed a wake.  What makes it inductive: no handle remembers a  *)
(* refusal of an epoch to come, so an epoch that has just begun has refused *)
(* nobody; and a handle is bound only once it is open.                      *)

Owed(h) == [handle |-> h, waker |-> waker[h]] \in {refused[i] : i \in DOMAIN refused}

StuckInv ==
  /\ \A h \in Open : waker[h] # None /\ refusedAt[h] = progress /\ ~closed => Owed(h)
  /\ \A h \in Handles : refusedAt[h] # None => refusedAt[h] <= progress
  /\ \A h \in Handles : status[h] = "unborn" => waker[h] = None

\* An action that leaves the refusals alone, and opens no handle but a new one.
LEMMA StuckQuiet ==
  ASSUME TypeInv, StuckInv, UNCHANGED <<refused, refusedAt, waker, progress, closed>>,
         \A h \in Handles : /\ status'[h] = "open" => status[h] \in {"unborn", "open"}
                            /\ status'[h] = "unborn" => status[h] = "unborn"
  PROVE  StuckInv'
<1>1. \A h \in Handles : Owed(h)' <=> Owed(h)
  BY DEF Owed
<1>2. \A h \in Open' : h \in Open \/ waker[h] = None
  BY DEF StuckInv, Open
<1>3. QED
  BY <1>1, <1>2 DEF StuckInv, Open

\* Appending keeps what was listed and lists what is appended.
LEMMA ListedAppend ==
  ASSUME NEW S, NEW s \in Seq(S), NEW x \in S
  PROVE  LET t == Append(s, x) IN
         /\ {s[i] : i \in DOMAIN s} \subseteq {t[i] : i \in DOMAIN t}
         /\ x \in {t[i] : i \in DOMAIN t}
<1> DEFINE t == Append(s, x)
<1>1. Len(s) \in Nat /\ DOMAIN s = 1 .. Len(s)
  OBVIOUS
<1>2. DOMAIN t = 1 .. Len(s) + 1 /\ t[Len(s) + 1] = x
      /\ \A i \in 1 .. Len(s) : t[i] = s[i]
  OBVIOUS
<1>3. QED
  BY <1>1, <1>2

LEMMA TryPushBackStuck ==
  ASSUME TypeInv, StuckInv, NEW h \in Handles, TryPushBack(h)
  PROVE  StuckInv'
<1> USE DEF TypeInv
<1>1. UNCHANGED <<status, waker, progress, closed>>
  BY DEF TryPushBack
<1>2. CASE UNCHANGED <<refused, refusedAt>>
  BY <1>1, <1>2, StuckQuiet
<1>3. CASE ~UNCHANGED <<refused, refusedAt>>
  <2>1. /\ refusedAt' = [refusedAt EXCEPT ![h] = progress]
        /\ refused' = IF waker[h] = None THEN refused
                      ELSE Append(refused, [handle |-> h, waker |-> waker[h]])
    BY <1>3 DEF TryPushBack, Refuse
  <2>2. refused \in Seq(Refusals) /\ progress \in Nat
        /\ refusedAt \in [Handles -> Nat \cup {None}]
    BY DEF TypeOK
  <2>3. waker[h] # None => [handle |-> h, waker |-> waker[h]] \in Refusals
    BY DEF TypeOK, Refusals
  <2>4. \A g \in Handles : Owed(g) => Owed(g)'
    BY <1>1, <2>1, <2>2, <2>3, ListedAppend DEF Owed
  <2>5. waker[h] # None => Owed(h)'
    BY <1>1, <2>1, <2>2, <2>3, ListedAppend DEF Owed
  <2>6. \A g \in Handles : refusedAt'[g] = IF g = h THEN progress ELSE refusedAt[g]
    BY <2>1, <2>2
  <2>7. \A g \in Handles : refusedAt'[g] # None => refusedAt'[g] <= progress'
    BY <1>1, <2>2, <2>6 DEF StuckInv
  <2>8. \A g \in Open' : waker'[g] # None /\ refusedAt'[g] = progress' /\ ~closed' => Owed(g)'
    BY <1>1, <2>4, <2>5, <2>6 DEF StuckInv, Open
  <2>9. QED
    BY <1>1, <2>7, <2>8 DEF StuckInv
<1>4. QED
  BY <1>2, <1>3

LEMMA ScheduleStuck ==
  ASSUME TypeInv, StuckInv, NEW h \in Handles, NEW w \in Wakers, Schedule(h, w)
  PROVE  StuckInv'
<1>1. /\ UNCHANGED <<status, refused, progress, closed>> /\ status[h] = "open"
      /\ waker' = [waker EXCEPT ![h] = w] /\ refusedAt' = [refusedAt EXCEPT ![h] = None]
  BY DEF Schedule, inner
<1>2. /\ refusedAt \in [Handles -> Nat \cup {None}] /\ waker \in [Handles -> Wakers \cup {None}]
      /\ progress \in Nat
  BY DEF TypeInv, TypeOK
<1>3. /\ refusedAt'[h] = None /\ None # progress
      /\ \A g \in Handles \ {h} : refusedAt'[g] = refusedAt[g] /\ waker'[g] = waker[g]
  BY <1>1, <1>2
<1>4. \A g \in Handles \ {h} : Owed(g)' <=> Owed(g)
  BY <1>1, <1>3 DEF Owed
<1>5. QED
  BY <1>1, <1>3, <1>4 DEF StuckInv, Open

\* A drain begins an epoch, in which nobody has been refused yet.
LEMMA DrainStuck ==
  ASSUME TypeInv, StuckInv, NEW n, NEW what, Drain(n, what),
         UNCHANGED <<status, refusedAt, waker, closed>>
  PROVE  StuckInv'
<1>1. progress \in Nat /\ progress' = progress + 1
      /\ refusedAt \in [Handles -> Nat \cup {None}]
  BY DEF Drain, NewEpoch, TypeInv, TypeOK
<1>2. \A h \in Handles : refusedAt[h] # None => refusedAt[h] < progress'
  BY <1>1 DEF StuckInv
<1>3. \A h \in Handles : refusedAt[h] # progress'
  BY <1>1, <1>2
<1>4. QED
  BY <1>1, <1>2, <1>3 DEF StuckInv, Open

LEMMA NextStuck == TypeInv /\ StuckInv /\ [Next]_vars => StuckInv'
<1> SUFFICES ASSUME TypeInv, StuckInv, [Next]_vars PROVE StuckInv'
  OBVIOUS
<1>0. status \in [Handles -> {"unborn", "open", "released"}]
  BY DEF TypeInv, TypeOK
<1>1. CASE UNCHANGED vars
  BY <1>0, <1>1, StuckQuiet DEF vars, inner, sender
<1>2. ASSUME NEW h \in Handles, ProducerStep(h) PROVE StuckInv'
  <2>1. CASE Mint(h)
    BY <1>0, <2>1, StuckQuiet DEF Mint, inner
  <2>2. ASSUME NEW c \in Handles, Clone(h, c) PROVE StuckInv'
    BY <1>0, <2>2, StuckQuiet DEF Clone, inner
  <2>3. CASE PushBack(h)
    BY <1>0, <2>3, StuckQuiet DEF PushBack, sender
  <2>4. CASE RecheckRoom(h)
    BY <1>0, <2>4, StuckQuiet DEF RecheckRoom, sender
  <2>5. CASE NotifyConsumer(h)
    BY <1>0, <2>5, StuckQuiet DEF NotifyConsumer, inner, sender
  <2>6. CASE Release(h)
    BY <1>0, <2>6, StuckQuiet DEF Release, inner
  <2>7. CASE LastSenderCloses(h)
    BY <2>7 DEF LastSenderCloses, CloseEdge, sender, StuckInv, Open
  <2>8. QED
    BY <1>2, <2>1, <2>2, <2>3, <2>4, <2>5, <2>6, <2>7, TryPushBackStuck, ScheduleStuck
    DEF ProducerStep
<1>3. ASSUME ReceiverStep PROVE StuckInv'
  <2>1. ASSUME NEW k \in {"front", "all", "wait"}, BlockingRead(k) PROVE StuckInv'
    <3>1. UNCHANGED <<status, refusedAt, waker, closed>>
      BY <2>1 DEF BlockingRead, sender
    <3>2. CASE buffer # <<>> /\ k # "wait"
      BY <2>1, <3>1, <3>2, DrainStuck DEF BlockingRead
    <3>3. CASE ~(buffer # <<>> /\ k # "wait")
      <4>1. UNCHANGED <<progress, refused>>
        BY <2>1, <3>3 DEF BlockingRead
      <4>2. QED
        BY <1>0, <3>1, <4>1, StuckQuiet
    <3>4. QED
      BY <3>2, <3>3
  <2>2. ASSUME NEW usesCount \in BOOLEAN, Pop(usesCount) PROVE StuckInv'
    <3>1. UNCHANGED <<status, refusedAt, waker, closed>>
      BY <2>2 DEF Pop, sender
    <3>2. CASE buffer # <<>>
      BY <2>2, <3>1, <3>2, DrainStuck DEF Pop
    <3>3. CASE buffer = <<>>
      <4>1. UNCHANGED <<progress, refused>>
        BY <2>2, <3>3 DEF Pop
      <4>2. QED
        BY <1>0, <3>1, <4>1, StuckQuiet
    <3>4. QED
      BY <3>2, <3>3
  <2>3. CASE NotifyProducers
    BY <1>0, <2>3, StuckQuiet DEF NotifyProducers, inner, sender
  <2>4. CASE ReceiverCloses
    BY <2>4 DEF ReceiverCloses, CloseEdge, sender, StuckInv, Open
  <2>5. QED
    BY <1>3, <2>1, <2>2, <2>3, <2>4 DEF ReceiverStep
<1>4. ASSUME NEW t \in Threads, WakeOne(t) PROVE StuckInv'
  BY <1>0, <1>4, StuckQuiet DEF WakeOne, inner, sender
<1>5. CASE SpuriousWakeup
  BY <1>0, <1>5, StuckQuiet DEF SpuriousWakeup, inner, sender
<1>6. QED
  BY <1>1, <1>2, <1>3, <1>4, <1>5 DEF Next

\* Stuck is no dead end for a bound handle: as long as its refusal is of the
\* present epoch its present waker is on the list that the next drain or close
\* takes, whatever was re-bound, cloned, refused and drained in between.
THEOREM StuckOwed == Spec => []StuckIsOwedAWake
<1>1. Init => StuckInv
  BY DEF Init, StuckInv, Open
<1>2. StuckInv => StuckIsOwedAWake
  BY DEF StuckInv, Owed, StuckIsOwedAWake
<1>3. QED
  BY <1>1, <1>2, InitTyped, NextTyped, NextStuck, PTL DEF Spec

-----------------------------------------------------------------------------
(* The callers of SyncEdgeClients.  Each of their steps is one of the       *)
(* edge's, so all of the above holds of them too.                           *)

LEMMA ClientsUseTheEdge == [ClientNext]_vars => [Next]_vars
<1> SUFFICES ASSUME ClientNext PROVE [Next]_vars
  OBVIOUS
<1>1. ASSUME NEW h \in Minted, Producer(h) \/ TaskPushes(h) \/ Quits(h) PROVE [Next]_vars
  <2>1. h \in Handles
    OBVIOUS
  <2>2. CASE h \in Tasks /\ Schedule(h, h)
    <3>1. h \in Wakers
      BY <2>2, ClientsAssumption
    <3> QED BY <2>1, <2>2, <3>1 DEF Next, ProducerStep
  <2>3. CASE \/ PushBack(h) \/ RecheckRoom(h) \/ TryPushBack(h) \/ NotifyConsumer(h)
             \/ Release(h) \/ LastSenderCloses(h)
    BY <2>1, <2>3 DEF Next, ProducerStep
  <2> QED BY <1>1, <2>2, <2>3 DEF Producer, ThreadPushes, TaskPushes, Quits
<1>2. CASE Consumer
  BY <1>2 DEF Consumer, Next, ReceiverStep
<1>3. CASE ReceiverCloses
  BY <1>3 DEF Next, ReceiverStep
<1> QED
  BY <1>1, <1>2, <1>3 DEF ClientNext, Next

\* A poll node is told nothing before it bound the edge to its own waker, which
\* nobody else binds; and while it holds a refused message its wake is
\* somewhere on the way from the list to its next poll.
Waits(h) == h \in woken \/ (\E t \in Threads : OwedBy(h, t)) \/ Listed(h)

WakeInv ==
  /\ \A h \in Handles : waker[h] \in {None, h}
  /\ \A h \in Tasks : Refused(h) => waker[h] = h
  /\ \A h \in Tasks : status[h] = "open" /\ Refused(h) => Waits(h)

\* A step that tells no poll node of a refusal and takes no wake away.
LEMMA WakeQuiet ==
  ASSUME WakeInv, UNCHANGED waker,
         \A h \in Tasks : Refused(h)' => Refused(h),
         \A h \in Tasks : status'[h] = "open" => status[h] = "open",
         \A h \in Tasks : Refused(h) /\ Waits(h) => Waits(h)'
  PROVE  WakeInv'
BY DEF WakeInv, Tasks

\* Only a thread that is waking, or will once it has notified, owes wakes: who
\* takes a list has nothing left of another.
DebtInv ==
  /\ \A h \in Handles : pc[h] # "waking" => owed[h] = <<>>
  /\ rx \notin {"notify", "waking"} => owed["rx"] = <<>>

LEMMA NextDebt == TypeInv /\ DebtInv /\ [Next]_vars => DebtInv'
<1> SUFFICES ASSUME TypeInv, DebtInv, [Next]_vars PROVE DebtInv'
  OBVIOUS
<1>0. /\ pc \in [Handles -> {"idle", "parked", "resumed", "notify", "closing", "waking"}]
      /\ owed \in [Threads -> Seq(Refusals)]
      /\ "rx" \in Threads /\ Handles \subseteq Threads
  BY DEF TypeInv, TypeOK, Threads
<1> USE <1>0 DEF DebtInv
<1>1. CASE UNCHANGED vars
  BY <1>1 DEF vars
<1>2. ASSUME NEW h \in Handles, ProducerStep(h) PROVE DebtInv'
  <2>1. CASE Mint(h) \/ (\E c \in Handles : Clone(h, c)) \/ (\E w \in Wakers : Schedule(h, w))
    BY <2>1 DEF Mint, Clone, Schedule
  <2>2. CASE PushBack(h) \/ RecheckRoom(h) \/ TryPushBack(h)
    BY <2>2 DEF PushBack, RecheckRoom, TryPushBack, Land, CallClosed
  <2>3. CASE NotifyConsumer(h) \/ Release(h)
    BY <2>3 DEF NotifyConsumer, Release
  <2>4. CASE LastSenderCloses(h)
    <3>1. /\ \A g \in Handles : g # h /\ pc'[g] # "waking" => pc[g] # "waking"
          /\ pc'[h] # "waking" => refused = <<>>
          /\ rx' \notin {"notify", "waking"} => rx \notin {"notify", "waking"}
          /\ owed' = [owed EXCEPT ![h] = refused]
      BY <2>4 DEF LastSenderCloses, CloseEdge
    <3>2. h # "rx" /\ owed'[h] = refused /\ \A t \in Threads \ {h} : owed'[t] = owed[t]
      BY <3>1
    <3> QED BY <3>1, <3>2
  <2> QED BY <1>2, <2>1, <2>2, <2>3, <2>4 DEF ProducerStep
<1>3. CASE ReceiverStep
  <2>1. CASE UNCHANGED <<owed, pc, rx>> \/ (UNCHANGED <<owed, pc>> /\ rx \in {"idle", "resumed"})
    BY <2>1
  <2>2. ASSUME NEW n, NEW what, Drain(n, what), UNCHANGED pc PROVE DebtInv'
    <3>1. /\ owed' = [owed EXCEPT !["rx"] = refused]
          /\ rx' \notin {"notify", "waking"} => refused = <<>>
      BY <2>2 DEF Drain, NewEpoch
    <3>2. owed'["rx"] = refused /\ \A t \in Handles : owed'[t] = owed[t]
      BY <3>1
    <3> QED BY <2>2, <3>1, <3>2
  <2>3. ASSUME NEW k \in {"front", "all", "wait"}, BlockingRead(k) PROVE DebtInv'
    BY <2>1, <2>2, <2>3 DEF BlockingRead
  <2>4. ASSUME NEW usesCount \in BOOLEAN, Pop(usesCount) PROVE DebtInv'
    BY <2>1, <2>2, <2>4 DEF Pop
  <2>5. CASE NotifyProducers
    BY <2>5 DEF NotifyProducers, NotifyNotFull, Parked
  <2>6. CASE ReceiverCloses
    <3>1. /\ owed' = [owed EXCEPT !["rx"] = refused]
          /\ rx' \notin {"notify", "waking"} => refused = <<>>
          /\ \A g \in Handles : pc'[g] # "waking" => pc[g] # "waking"
      BY <2>6 DEF ReceiverCloses, CloseEdge
    <3>2. owed'["rx"] = refused /\ \A t \in Handles : owed'[t] = owed[t]
      BY <3>1
    <3> QED BY <3>1, <3>2
  <2> QED BY <1>3, <2>3, <2>4, <2>5, <2>6 DEF ReceiverStep
<1>4. ASSUME NEW t \in Threads, WakeOne(t) PROVE DebtInv'
  <2>1. owed[t] \in Seq(Refusals) /\ owed[t] # <<>>
    BY <1>4 DEF WakeOne, TypeInv, OwesOK, Threads
  <2>2. Len(owed[t]) = 1 => Tail(owed[t]) = <<>>
    <3>1. PICK q \in Seq(Refusals) : q = owed[t] /\ q # <<>>
      BY <2>1
    <3>2. Tail(q) \in Seq(Refusals) /\ Len(Tail(q)) = Len(q) - 1
      BY <3>1, HeadTailProperties
    <3>3. \A s \in Seq(Refusals) : Len(s) = 0 => s = <<>>
      OBVIOUS
    <3>4. Len(q) = 1 => Len(Tail(q)) = 0
      BY <3>2
    <3>5. Len(q) = 1 => Tail(q) = <<>>
      BY <3>2, <3>3, <3>4, Zenon
    <3> QED BY <3>1, <3>5
  <2>3. /\ owed'[t] = Tail(owed[t]) /\ \A u \in Threads \ {t} : owed'[u] = owed[u]
    BY <1>4 DEF WakeOne
  <2>4. CASE t = "rx"
    BY <1>4, <2>2, <2>3, <2>4 DEF WakeOne
  <2>5. CASE t # "rx"
    BY <1>4, <2>2, <2>3, <2>5 DEF WakeOne
  <2> QED BY <2>4, <2>5
<1>5. CASE SpuriousWakeup
  BY <1>5 DEF SpuriousWakeup, Parked
<1> QED
  BY <1>1, <1>2, <1>3, <1>4, <1>5 DEF Next

\* The step leaves list, debts and wakes alone.
LEMMA WaitsStays ==
  ASSUME UNCHANGED <<refused, owed, woken>>, NEW h
  PROVE  Waits(h)' <=> Waits(h)
BY DEF Waits, OwedBy, Listed

\* A push that may be refused.  It uses up the wake of its own handle alone;
\* and of a refusal StuckInv' says that the waker is on the list.
LEMMA WakeTryPushBack ==
  ASSUME TypeInv, StuckInv', WakeInv, NEW h \in Handles, TryPushBack(h),
         status[h] = "open", h \in Tasks => waker[h] = h
  PROVE  WakeInv'
<1>1. /\ outcome \in [Handles -> {"Pushed", "Full", "Stuck", "Closed"}]
      /\ refused \in Seq(Refusals) /\ woken \subseteq Wakers
      /\ refusedAt \in [Handles -> Nat \cup {None}]
      /\ waker \in [Handles -> Wakers \cup {None}]
  BY DEF TypeInv, TypeOK
<1>2. /\ woken' = woken \ {waker[h]}
      /\ UNCHANGED <<waker, status, owed, closed, progress>>
  BY DEF TryPushBack
<1>3. \A g \in Handles \ {h} : outcome'[g] = outcome[g]
  BY <1>1 DEF TryPushBack, CallClosed, Land, Refuse
<1>4. \A g \in Tasks \ {h} : g \in woken => g \in woken'
  BY <1>1, <1>2 DEF WakeInv, Tasks
<1>5. \A g : Listed(g) => Listed(g)'
  <2>1. CASE refused' = refused
    BY <2>1 DEF Listed
  <2>2. CASE refused' # refused
    <3> DEFINE r == [handle |-> h, waker |-> waker[h]]
    <3>1. refused' = Append(refused, r) /\ waker[h] # None
      BY <2>2 DEF TryPushBack, Refuse
    <3>2. r \in Refusals
      BY <1>1, <3>1 DEF Refusals
    <3> HIDE DEF r
    <3>3. /\ DOMAIN refused = 1 .. Len(refused) /\ Len(refused) \in Nat
          /\ DOMAIN refused' = 1 .. Len(refused) + 1
          /\ \A i \in DOMAIN refused : refused'[i] = refused[i]
      BY <1>1, <3>1, <3>2
    <3> QED BY <3>3 DEF Listed
  <2> QED BY <2>1, <2>2
<1>6. \A g \in Tasks \ {h} : Waits(g) => Waits(g)'
  BY <1>2, <1>4, <1>5 DEF Waits, OwedBy
<1>7. h \in Tasks /\ Refused(h)' => Waits(h)'
  <2> SUFFICES ASSUME h \in Tasks, Refused(h)' PROVE Listed(h)'
    BY DEF Waits
  <2>1. Refuse(h) /\ ~closed
    BY <1>1 DEF TryPushBack, CallClosed, Land, Refused
  <2>2. refusedAt'[h] = progress'
    BY <1>1, <1>2, <2>1 DEF Refuse
  <2>3. waker'[h] = h /\ h # None
    BY <1>2, ClientsAssumption
  <2>4. Owed(h)'
    BY <1>2, <2>1, <2>2, <2>3 DEF StuckInv, Open
  <2> QED BY <2>3, <2>4 DEF Owed, Listed
<1> QED
  BY <1>2, <1>3, <1>6, <1>7 DEF WakeInv, Refused, Tasks

\* A thread that owes nobody a wake takes the list.
LEMMA WakeTaken ==
  ASSUME TypeInv, WakeInv, NEW t \in Threads, owed[t] = <<>>,
         owed' = [owed EXCEPT ![t] = refused], refused' = <<>>,
         UNCHANGED <<woken, outcome, waker, status>>
  PROVE  WakeInv'
<1>1. owed \in [Threads -> Seq(Refusals)]
  BY DEF TypeInv, TypeOK
<1>2. owed'[t] = refused /\ \A u \in Threads : u # t => owed'[u] = owed[u]
  BY <1>1
<1>3. ASSUME NEW h \in Tasks, Waits(h) PROVE Waits(h)'
  <2>1. CASE h \in woken
    BY <2>1 DEF Waits
  <2>2. CASE \E u \in Threads : OwedBy(h, u)
    <3>1. PICK u \in Threads : OwedBy(h, u)
      BY <2>2
    <3>2. u # t /\ OwedBy(h, u)'
      BY <1>2, <3>1 DEF OwedBy
    <3> QED BY <3>2 DEF Waits
  <2>3. CASE Listed(h)
    <3>1. OwedBy(h, t)'
      BY <1>2, <2>3 DEF Listed, OwedBy
    <3> QED BY <3>1 DEF Waits
  <2> QED BY <1>3, <2>1, <2>2, <2>3 DEF Waits
<1> QED
  BY <1>3, WakeQuiet DEF Refused

\* One waker is woken: it was the first of what the thread owes.
LEMMA WakeWakeOne ==
  ASSUME TypeInv, WakeInv, NEW t \in Threads, WakeOne(t)
  PROVE  WakeInv'
<1>1. /\ owed' = [owed EXCEPT ![t] = Tail(owed[t])]
      /\ woken' = woken \cup {Head(owed[t]).waker}
      /\ UNCHANGED <<refused, outcome, waker, status>>
  BY DEF WakeOne, inner, sender
<1>2. owed \in [Threads -> Seq(Refusals)] /\ owed[t] # <<>>
  BY DEF TypeInv, TypeOK, OwesOK, WakeOne, Threads
<1>3. /\ owed'[t] = Tail(owed[t]) /\ \A u \in Threads : u # t => owed'[u] = owed[u]
  BY <1>1, <1>2
<1>4. PICK q : q = owed[t]
  OBVIOUS
<1>5. /\ q \in Seq(Refusals) /\ Len(q) \in Nat \ {0} /\ DOMAIN q = 1 .. Len(q)
      /\ DOMAIN Tail(q) = 1 .. Len(q) - 1 /\ Head(q) = q[1]
      /\ \A i \in 1 .. Len(q) - 1 : Tail(q)[i] = q[i + 1]
  BY <1>2, <1>4
<1>6. ASSUME NEW h \in Tasks, OwedBy(h, t) PROVE h \in woken' \/ OwedBy(h, t)'
  <2>1. PICK i \in 1 .. Len(q) : q[i].waker = h
    BY <1>4, <1>5, <1>6 DEF OwedBy
  <2>2. CASE i = 1
    BY <1>1, <1>4, <1>5, <2>1, <2>2
  <2>3. CASE i # 1
    <3>1. i - 1 \in DOMAIN Tail(q) /\ Tail(q)[i - 1] = q[i]
      BY <1>5, <2>1, <2>3
    <3> QED BY <1>3, <1>4, <2>1, <3>1 DEF OwedBy
  <2> QED BY <2>2, <2>3
<1>7. ASSUME NEW h \in Tasks, Waits(h) PROVE Waits(h)'
  <2>1. CASE h \in woken \/ Listed(h)
    BY <1>1, <2>1 DEF Waits, Listed
  <2>2. ASSUME NEW u \in Threads, OwedBy(h, u) PROVE Waits(h)'
    <3>1. CASE u = t
      BY <1>6, <2>2, <3>1 DEF Waits
    <3>2. CASE u # t
      BY <1>3, <2>2, <3>2 DEF Waits, OwedBy
    <3> QED BY <3>1, <3>2
  <2> QED BY <1>7, <2>1, <2>2 DEF Waits
<1> QED
  BY <1>1, <1>7, WakeQuiet DEF Refused

\* A reader's step.
LEMMA WakeRead ==
  ASSUME TypeInv, DebtInv, WakeInv,
         \/ \E k \in {"front", "all"} : BlockingRead(k)
         \/ NotifyProducers \/ ReceiverCloses
  PROVE  WakeInv'
<1>0. "rx" \in Threads /\ (rx \in {"idle", "resumed"} => owed["rx"] = <<>>)
  BY DEF DebtInv, Threads
<1>1. ASSUME NEW k \in {"front", "all"}, BlockingRead(k) PROVE WakeInv'
  <2>1. UNCHANGED <<waker, status, outcome, woken>>
    BY <1>1 DEF BlockingRead, sender
  <2>2. CASE buffer # <<>>
    <3>1. owed' = [owed EXCEPT !["rx"] = refused] /\ refused' = <<>> /\ owed["rx"] = <<>>
      BY <1>0, <1>1, <2>2 DEF BlockingRead, Drain, NewEpoch
    <3> QED BY <1>0, <2>1, <3>1, WakeTaken
  <2>3. CASE buffer = <<>>
    <3>1. UNCHANGED <<refused, owed>>
      BY <1>1, <2>3 DEF BlockingRead
    <3> QED BY <2>1, <3>1, WaitsStays, WakeQuiet DEF Refused
  <2> QED BY <2>2, <2>3
<1>2. CASE NotifyProducers
  <2>1. UNCHANGED <<refused, owed, woken, outcome, waker, status>>
    BY <1>2 DEF NotifyProducers, inner, sender
  <2> QED BY <2>1, WaitsStays, WakeQuiet DEF Refused
<1>3. CASE ReceiverCloses
  <2>1. /\ UNCHANGED <<woken, outcome, waker, status>> /\ owed["rx"] = <<>>
        /\ owed' = [owed EXCEPT !["rx"] = refused] /\ refused' = <<>>
    BY <1>0, <1>3 DEF ReceiverCloses, CloseEdge, sender
  <2> QED BY <1>0, <2>1, WakeTaken
<1> QED
  BY <1>1, <1>2, <1>3

\* A producer's step other than a push that may be refused.
LEMMA WakeHandle ==
  ASSUME TypeInv, DebtInv, WakeInv, NEW h \in Handles,
         \/ PushBack(h) \/ RecheckRoom(h) \/ NotifyConsumer(h) \/ Release(h)
         \/ LastSenderCloses(h)
         \/ h \in Tasks /\ ~Refused(h) /\ Schedule(h, h)
  PROVE  WakeInv'
<1>0. /\ outcome \in [Handles -> {"Pushed", "Full", "Stuck", "Closed"}]
      /\ status \in [Handles -> {"unborn", "open", "released"}]
      /\ waker \in [Handles -> Wakers \cup {None}]
  BY DEF TypeInv, TypeOK
<1>1. CASE PushBack(h) \/ RecheckRoom(h)
  <2>1. UNCHANGED <<refused, owed, woken, waker, status>>
    BY <1>1 DEF PushBack, RecheckRoom, sender
  <2>2. \A g \in Handles : outcome'[g] = outcome[g] \/ outcome'[g] \in {"Pushed", "Closed"}
    BY <1>0, <1>1 DEF PushBack, RecheckRoom, Land, CallClosed
  <2>3. \A g \in Tasks : Refused(g)' => Refused(g)
    BY <2>2 DEF Refused, Tasks
  <2> QED BY <2>1, <2>3, WaitsStays, WakeQuiet
<1>2. CASE NotifyConsumer(h) \/ Release(h)
  <2>1. UNCHANGED <<refused, owed, woken, outcome, waker>>
    BY <1>2 DEF NotifyConsumer, Release, inner, sender
  <2>2. \A g \in Tasks : status'[g] = "open" => status[g] = "open"
    BY <1>0, <1>2 DEF NotifyConsumer, Release, sender, Tasks
  <2> QED BY <2>1, <2>2, WaitsStays, WakeQuiet DEF Refused
<1>3. CASE LastSenderCloses(h)
  <2>1. /\ UNCHANGED <<woken, outcome, waker, status>>
        /\ owed' = [owed EXCEPT ![h] = refused] /\ refused' = <<>>
    BY <1>3 DEF LastSenderCloses, CloseEdge, sender
  <2>2. h \in Threads /\ owed[h] = <<>>
    BY <1>3 DEF LastSenderCloses, Threads, DebtInv
  <2> QED BY <2>1, <2>2, WakeTaken
<1>4. CASE h \in Tasks /\ ~Refused(h) /\ Schedule(h, h)
  <2>1. /\ UNCHANGED <<refused, owed, woken, outcome, status>>
        /\ waker' = [waker EXCEPT ![h] = h]
    BY <1>4 DEF Schedule, inner
  <2>2. \A g \in Handles : waker'[g] = IF g = h THEN h ELSE waker[g]
    BY <1>0, <2>1
  <2>3. \A g : Waits(g)' <=> Waits(g)
    BY <2>1, WaitsStays
  <2> QED BY <2>1, <2>2, <2>3 DEF WakeInv, Refused, Tasks
<1> QED
  BY <1>1, <1>2, <1>3, <1>4

\* A poll node binds once (MaxBinds), before it can be refused.
LEMMA BoundBefore ==
  ASSUME WakeInv, NEW h \in Tasks, Schedule(h, h)
  PROVE  ~Refused(h)
BY DEF WakeInv, Schedule

LEMMA WakeNext ==
  ASSUME TypeInv, StuckInv', DebtInv, WakeInv, [ClientNext]_vars
  PROVE  WakeInv'
<1>1. CASE UNCHANGED vars
  BY <1>1, WaitsStays, WakeQuiet DEF vars, inner, sender, Refused
<1>2. ASSUME NEW h \in Minted, Producer(h) \/ TaskPushes(h) \/ Quits(h) PROVE WakeInv'
  <2>1. h \in Handles
    OBVIOUS
  <2>2. CASE PushBack(h) \/ RecheckRoom(h) \/ NotifyConsumer(h) \/ Release(h) \/ LastSenderCloses(h)
    BY <2>1, <2>2, WakeHandle
  <2>3. CASE h \in Tasks /\ Schedule(h, h)
    BY <2>1, <2>3, BoundBefore, WakeHandle
  <2>4. CASE TaskPushes(h) \/ (ThreadPushes(h) /\ TryPushBack(h))
    <3>1. status[h] = "open" /\ TryPushBack(h)
      BY <2>4 DEF TaskPushes, ThreadPushes, Sending
    <3>2. h \in Tasks => waker[h] = h
      BY <2>4 DEF TaskPushes, ThreadPushes, Tasks
    <3> QED BY <2>1, <3>1, <3>2, WakeTryPushBack
  <2> QED BY <1>2, <2>2, <2>3, <2>4 DEF Producer, ThreadPushes, Quits
<1>3. CASE Consumer \/ ReceiverCloses
  BY <1>3, WakeRead DEF Consumer
<1>4. ASSUME NEW t \in Threads, WakeOne(t) PROVE WakeInv'
  BY <1>4, WakeWakeOne
<1>5. CASE SpuriousWakeup
  <2>1. UNCHANGED <<refused, owed, woken, outcome, waker, status>>
    BY <1>5 DEF SpuriousWakeup, inner, sender
  <2> QED BY <2>1, WaitsStays, WakeQuiet DEF Refused
<1> QED
  BY <1>1, <1>2, <1>3, <1>4, <1>5 DEF ClientNext

\* A poll node that holds what the edge refused is woken for it: whatever made
\* it retry in between, Stuck or at another epoch, its waker is on the list of
\* a full, open edge, or a thread that took the list is about to wake it, or it
\* was woken and has not retried since.
THEOREM RefusedTasksAreWoken == ClientSpec => []RefusedTaskIsWoken
<1>1. Init => TypeInv /\ StuckInv /\ DebtInv /\ WakeInv
  <2>1. Init => StuckInv
    BY DEF Init, StuckInv, Open
  <2>2. Init => DebtInv /\ WakeInv
    BY DEF Init, DebtInv, WakeInv, Refused, Tasks, Threads
  <2> QED BY <2>1, <2>2, InitTyped
<1>2. TypeInv /\ StuckInv /\ DebtInv /\ WakeInv /\ [ClientNext]_vars
        => (TypeInv /\ StuckInv /\ DebtInv /\ WakeInv)'
  BY ClientsUseTheEdge, NextTyped, NextStuck, NextDebt, WakeNext
<1>3. ClientSpec => Spec
  BY ClientsUseTheEdge, PTL DEF ClientSpec, Spec
<1>4. WakeInv /\ RefusedMeansFull => RefusedTaskIsWoken
  <2>1. ASSUME NEW h, Listed(h) PROVE refused # <<>>
    BY <2>1 DEF Listed
  <2> QED BY <2>1 DEF WakeInv, Waits, RefusedMeansFull, RefusedTaskIsWoken
<1> QED
  BY <1>1, <1>2, <1>3, <1>4, RefusedOnlyWhileFull, PTL DEF ClientSpec

=============================================================================
