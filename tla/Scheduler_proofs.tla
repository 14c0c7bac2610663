-------------------------- MODULE Scheduler_proofs --------------------------
(***************************************************************************)
(* Proofs about Scheduler, for any number of nodes, threads, wakes and     *)
(* deadlines.  First the types and the consumer's control; then the parker *)
(* it sleeps in, the wakes and what they made visible, and the lists the   *)
(* nodes are threaded on.                                                  *)
(***************************************************************************)
EXTENDS Scheduler, Induction_proofs, FunctionTheorems

USE SchedulerAssumption

-----------------------------------------------------------------------------
(* Types, and where the poll thread is.                                     *)

Pushing == {"claim", "load", "cas"}

\* The poll thread pushes within one of its own steps; a node about to be
\* released is the batch's first, and its link was read; between two batches the
\* batch is empty; init pushes from the last id on.
ControlInv ==
  /\ pc["poll"] \in {"idle"} \cup Pushing
  /\ pc["poll"] # "idle" => cpc \in {"fill", "expire", "polling"}
  /\ cpc = "release" => batch # NONE /\ next = below[batch]
  /\ cpc \in {"init", "swap", "fill", "expire", "park", "parked"} => batch = NONE
  /\ cpc \in {"init", "swap"} => fill = N

LEMMA Typed0 == Init => TypeOK
<1> SUFFICES ASSUME Init PROVE TypeOK
  OBVIOUS
<1>1. NONE \in Links /\ 0 \in Ids /\ N \in 0 .. N /\ 0 \in 0 .. MaxArms /\ 0 \in 0 .. MaxWakes
  BY DEF Links, Ids, NONE
<1> QED
  BY <1>1 DEF Init, TypeOK, P!ParkerInit, P!ParkerTypeOK, P!Deadlines

LEMMA StartPushTyped ==
  ASSUME TypeOK, NEW t \in Pushers, NEW i \in Ids, StartPush(t, i)
  PROVE  /\ issued' \in [Pushers -> 0 .. MaxWakes] /\ pending' \in [Ids -> SUBSET Tokens]
         /\ knows' \in [Pushers -> SUBSET (Tokens \cup {Made})]
         /\ id' \in [Pushers -> Ids]
<1> DEFINE new == IF slot[i] THEN {<<t, issued[t] + 1>>} ELSE {}
<1>1. issued[t] + 1 \in 1 .. MaxWakes /\ issued[t] + 1 \in 0 .. MaxWakes
  BY DEF TypeOK, StartPush
<1>2. new \subseteq Tokens
  BY <1>1 DEF Tokens
<1>3. /\ issued' = [issued EXCEPT ![t] = @ + 1] /\ id' = [id EXCEPT ![t] = i]
      /\ pending' = [pending EXCEPT ![i] = @ \cup new]
      /\ knows' = [knows EXCEPT ![t] = @ \cup new]
  BY DEF StartPush
<1> HIDE DEF new
<1>4. QED
  BY <1>1, <1>2, <1>3 DEF TypeOK

LEMMA ForgetTyped ==
  ASSUME TypeOK, NEW S, Forget(S)
  PROVE  /\ knows' \in [Pushers -> SUBSET (Tokens \cup {Made})]
         /\ atEarly' \subseteq Tokens \cup {Made} /\ atHead' \subseteq Tokens \cup {Made}
         /\ atState' \in [Ids -> SUBSET (Tokens \cup {Made})]
BY DEF TypeOK, Forget

LEMMA AgentTyped ==
  ASSUME TypeOK, NEW t \in Agents,
         AgentStep(t) \/ UnparkNotify(t)
  PROVE  TypeOK'
<1>0. t \in Pushers
  BY DEF Pushers
<1>1. ASSUME NEW i \in Ids, AgentWakes(t, i) PROVE TypeOK'
  <2>1. StartPush(t, i)
    BY <1>1 DEF AgentWakes
  <2> QED
    BY <1>0, <1>1, <2>1, StartPushTyped
    DEF AgentWakes, TypeOK, Goto, stackVars, loopVars, nodeVars, parkVars, P!ParkerTypeOK
<1>2. CASE EarlyMark(t)
  BY <1>0, <1>2 DEF EarlyMark, TypeOK, Goto, Released, loopVars, nodeVars, parkVars, wakeVars,
     P!ParkerTypeOK
<1>3. CASE EarlyRelook(t)
  BY <1>0, <1>3 DEF EarlyRelook, TypeOK, Goto, Pushed, stackVars, loopVars, nodeVars, parkVars,
     wakeVars, P!ParkerTypeOK
<1>4. CASE Unpark(t)
  BY <1>0, <1>4 DEF Unpark, TypeOK, Goto, P!Wake, stackVars, loopVars, nodeVars, wakeVars,
     P!ParkerTypeOK
<1>5. CASE UnparkNotify(t)
  BY <1>5 DEF UnparkNotify, TypeOK, P!Notify, stackVars, pushVars, loopVars, nodeVars, wakeVars,
     P!ParkerTypeOK
<1>6. QED
  BY <1>1, <1>2, <1>3, <1>4, <1>5 DEF AgentStep

LEMMA PushTyped ==
  ASSUME TypeOK, NEW t \in Pushers, PushStep(t)
  PROVE  TypeOK'
<1>1. CASE Claim(t)
  BY <1>1 DEF Claim, TypeOK, Goto, Pushed, Released, loopVars, nodeVars, parkVars, wakeVars,
     P!ParkerTypeOK
<1>2. CASE LoadTop(t)
  BY <1>2 DEF LoadTop, TypeOK, Goto, loopVars, nodeVars, parkVars, wakeVars, P!ParkerTypeOK
<1>3. CASE PublishCas(t)
  <2>1. CASE TopUnmoved(t)
    BY <1>3, <2>1 DEF PublishCas, TypeOK, Goto, Pushed, Released, Links, loopVars, nodeVars,
       parkVars, wakeVars, P!ParkerTypeOK
  <2>2. CASE ~TopUnmoved(t)
    BY <1>3, <2>2 DEF PublishCas, TypeOK, loopVars, nodeVars, parkVars, wakeVars, P!ParkerTypeOK
  <2> QED BY <2>1, <2>2
<1>4. QED
  BY <1>1, <1>2, <1>3 DEF PushStep

LEMMA FillingTyped ==
  ASSUME TypeOK, ControlInv, InitNodes \/ BuildFails \/ InitSwap \/ Fill
  PROVE  TypeOK'
<1>0. "poll" \in Pushers /\ \A i \in Ids : {} \subseteq Tokens
  BY DEF Pushers
<1> USE DEF TypeOK, stackVars, pushVars, nodeVars, parkVars, wakeVars, P!ParkerTypeOK
<1>1. CASE InitNodes
  BY <1>0, <1>1 DEF InitNodes
<1>2. CASE BuildFails
  BY <1>2 DEF BuildFails
<1>3. CASE InitSwap
  BY <1>0, <1>3 DEF InitSwap, Released
<1>4. CASE Fill
  <2>1. CASE fill = 0
    BY <1>4, <2>1 DEF Fill
  <2>2. CASE fill # 0
    <3>1. fill - 1 \in Ids /\ fill - 1 \in 0 .. N
      BY <2>2 DEF Ids
    <3> QED BY <1>0, <1>4, <2>2, <3>1 DEF Fill, Goto
  <2> QED BY <2>1, <2>2
<1>5. QED
  BY <1>1, <1>2, <1>3, <1>4

LEMMA WalkingTyped ==
  ASSUME TypeOK, ControlInv, ReadLink \/ ReleaseNode \/ Expire \/ Take
  PROVE  TypeOK'
<1>0. "poll" \in Pushers /\ NONE \in Links /\ \A l \in Links : l # NONE => l \in Ids
  BY DEF Pushers, Links
<1> USE DEF TypeOK, stackVars, pushVars, loopVars, nodeVars, parkVars, wakeVars, P!ParkerTypeOK
<1>1. CASE ReadLink
  BY <1>0, <1>1 DEF ReadLink
<1>2. CASE ReleaseNode
  BY <1>0, <1>2 DEF ReleaseNode, Released, Here, ControlInv
<1>3. CASE Expire
  BY <1>0, <1>3 DEF Expire, Goto
<1>4. CASE Take
  BY <1>0, <1>4 DEF Take
<1>5. QED
  BY <1>1, <1>2, <1>3, <1>4

LEMMA ParkingTyped ==
  ASSUME TypeOK, ParkConsumer \/ ConsumerResumes \/ ParkTimesOut \/ ParkEndsEarly
  PROVE  TypeOK'
<1>0. Earliest \in P!Deadlines
  BY DEF Earliest, P!Deadlines
<1> USE DEF TypeOK, stackVars, pushVars, loopVars, nodeVars, parkVars, wakeVars, P!ParkerTypeOK,
        P!Deadlines
<1>1. CASE ParkConsumer
  BY <1>0, <1>1 DEF ParkConsumer, P!Park
<1>2. CASE ConsumerResumes
  BY <1>2 DEF ConsumerResumes, P!Recheck, P!LeaveAtDeadline
<1>3. CASE ParkTimesOut
  BY <1>3 DEF ParkTimesOut, P!TimedOut
<1>4. CASE ParkEndsEarly
  BY <1>4 DEF ParkEndsEarly, P!SpuriousReturn
<1>5. QED
  BY <1>1, <1>2, <1>3, <1>4

LEMMA PollingTyped ==
  ASSUME TypeOK, PollNode \/ PollReturns \/ WaitBegins \/ WaitCut \/ \E i \in Ids : LocalWake(i)
  PROVE  TypeOK'
<1>0. "poll" \in Pushers
  BY DEF Pushers
<1>1. CASE PollNode
  <2>1. CASE slot[cur]
    BY <1>1, <2>1, ForgetTyped
    DEF PollNode, WaitEnds, TypeOK, pushVars, parkVars, P!ParkerTypeOK
  <2>2. CASE ~slot[cur]
    BY <1>1, <2>2 DEF PollNode, TypeOK, pushVars, parkVars, P!ParkerTypeOK
  <2> QED BY <2>1, <2>2
<1>2. CASE PollReturns
  <2>1. CASE Forget(pending[cur])
    BY <1>2, <2>1, ForgetTyped DEF PollReturns, TypeOK, pushVars, parkVars, P!ParkerTypeOK
  <2>2. CASE UNCHANGED <<slot, timer, pending, knows, atEarly, atHead, atState>>
    BY <1>2, <2>2 DEF PollReturns, TypeOK, pushVars, parkVars, P!ParkerTypeOK
  <2> QED BY <1>2, <2>1, <2>2 DEF PollReturns
<1>3. CASE WaitBegins \/ WaitCut
  BY <1>3 DEF WaitBegins, WaitCut, TypeOK, stackVars, pushVars, loopVars, parkVars, wakeVars,
     P!ParkerTypeOK
<1>4. ASSUME NEW i \in Ids, LocalWake(i) PROVE TypeOK'
  <2>1. StartPush("poll", i)
    BY <1>4 DEF LocalWake
  <2> QED
    BY <1>0, <1>4, <2>1, StartPushTyped
    DEF LocalWake, TypeOK, Goto, stackVars, loopVars, nodeVars, parkVars, P!ParkerTypeOK
<1>5. QED
  BY <1>1, <1>2, <1>3, <1>4

LEMMA TickTyped ==
  ASSUME TypeOK, NEW i \in Ids, Tick(i)
  PROVE  TypeOK'
BY DEF Tick, TypeOK, stackVars, pushVars, loopVars, wakeVars, P!ParkerTypeOK, P!Deadlines

LEMMA Stuttered ==
  ASSUME TypeOK, UNCHANGED vars
  PROVE  TypeOK'
BY DEF vars, stackVars, pushVars, loopVars, nodeVars, parkVars, wakeVars, TypeOK, P!ParkerTypeOK

LEMMA Typed1 == TypeOK /\ ControlInv /\ [Next]_vars => TypeOK'
<1> SUFFICES ASSUME TypeOK, ControlInv, [Next]_vars PROVE TypeOK'
  OBVIOUS
<1>1. CASE \E t \in Agents : AgentStep(t) \/ UnparkNotify(t)
  BY <1>1, AgentTyped
<1>2. CASE \E t \in Pushers : PushStep(t)
  BY <1>2, PushTyped
<1>3. CASE ConsumerStep
  BY <1>3, FillingTyped, WalkingTyped, ParkingTyped, PollingTyped DEF ConsumerStep
<1>4. CASE \/ ParkTimesOut \/ ParkEndsEarly \/ WaitBegins \/ WaitCut
           \/ \E i \in Ids : LocalWake(i) \/ Tick(i)
  BY <1>4, ParkingTyped, PollingTyped, TickTyped
<1>5. CASE Resting \/ UNCHANGED vars
  BY <1>5, Stuttered DEF Resting
<1>6. QED
  BY <1>1, <1>2, <1>3, <1>4, <1>5 DEF Next

LEMMA Control0 == Init => ControlInv
BY DEF Init, ControlInv, Pushers

\* A push by an agent, or a step of the parker's wakers, leaves the poll thread
\* where it is; a link changes only for a node that its push owns.
LEMMA AgentKeepsControl ==
  ASSUME TypeOK, ControlInv, NEW t \in Agents, AgentStep(t) \/ UnparkNotify(t)
  PROVE  ControlInv'
<1>0. t \in Pushers /\ "poll" \in Pushers /\ t # "poll"
  BY SchedulerAssumption DEF Pushers
<1>1. /\ pc'["poll"] = pc["poll"]
      /\ UNCHANGED <<cpc, batch, next, fill, below>>
  BY <1>0 DEF AgentStep, AgentWakes, EarlyMark, EarlyRelook, Unpark, UnparkNotify, Goto, Pushed,
     stackVars, pushVars, loopVars, TypeOK
<1> QED
  BY <1>1 DEF ControlInv

\* A link changes only at a push that owns its node, which therefore is not the
\* node the consumer is about to release.
Unowned == cpc = "release" => \A t \in Publishing : id[t] # batch

LEMMA PushKeepsControl ==
  ASSUME TypeOK, ControlInv, Unowned, NEW t \in Pushers, PushStep(t)
  PROVE  ControlInv'
<1>0. "poll" \in Pushers /\ UNCHANGED loopVars
  BY DEF Pushers, PushStep, Claim, LoadTop, PublishCas
<1>1. pc'["poll"] \in {"idle"} \cup Pushing /\ (pc'["poll"] # "idle" => pc["poll"] # "idle")
  BY <1>0 DEF PushStep, Claim, LoadTop, PublishCas, Goto, Pushed, TypeOK, ControlInv, Pushing
<1>2. cpc = "release" => below'[batch] = below[batch]
  BY <1>0 DEF PushStep, Claim, LoadTop, PublishCas, Unowned, Publishing, ControlInv, TypeOK, Links
<1> QED
  BY <1>0, <1>1, <1>2 DEF ControlInv, loopVars

LEMMA ConsumerKeepsControl ==
  ASSUME TypeOK, ControlInv, ConsumerStep
  PROVE  ControlInv'
<1>0. "poll" \in Pushers
  BY DEF Pushers
<1> USE DEF ControlInv, TypeOK, Here, Pushing, stackVars, pushVars, loopVars
<1>1. CASE InitNodes \/ BuildFails \/ InitSwap
  BY <1>1 DEF InitNodes, BuildFails, InitSwap
<1>2. CASE Fill
  BY <1>0, <1>2 DEF Fill, Goto
<1>3. CASE ReadLink \/ ReleaseNode
  BY <1>3 DEF ReadLink, ReleaseNode
<1>4. CASE Expire
  BY <1>0, <1>4 DEF Expire, Goto
<1>5. CASE Take
  BY <1>5 DEF Take
<1>6. CASE ParkConsumer
  BY <1>6 DEF ParkConsumer
<1>7. CASE ConsumerResumes
  BY <1>7 DEF ConsumerResumes
<1>8. CASE PollNode
  BY <1>8 DEF PollNode
<1>9. CASE PollReturns
  BY <1>9 DEF PollReturns
<1> QED
  BY <1>1, <1>2, <1>3, <1>4, <1>5, <1>6, <1>7, <1>8, <1>9 DEF ConsumerStep

LEMMA OthersKeepControl ==
  ASSUME TypeOK, ControlInv,
         \/ ParkTimesOut \/ ParkEndsEarly \/ WaitBegins \/ WaitCut \/ Resting \/ UNCHANGED vars
         \/ \E i \in Ids : LocalWake(i) \/ Tick(i)
  PROVE  ControlInv'
<1>0. "poll" \in Pushers
  BY DEF Pushers
<1>1. CASE \E i \in Ids : LocalWake(i)
  BY <1>0, <1>1 DEF LocalWake, Goto, Here, ControlInv, TypeOK, Pushing, stackVars, loopVars
<1>2. CASE UNCHANGED <<stackVars, pushVars, loopVars>>
  BY <1>2 DEF ControlInv, stackVars, pushVars, loopVars
<1> QED
  BY <1>1, <1>2 DEF ParkTimesOut, ParkEndsEarly, WaitBegins, WaitCut, Resting, Tick, vars

-----------------------------------------------------------------------------
(* The lists.  Walk is a recursive function, of which a step says nothing;  *)
(* so the invariant has the lists themselves: s[1], ..., s[m] are the ids   *)
(* met from link l through `links`, none twice.                             *)

IsList(l, s, m, links) ==
  /\ l = IF m = 0 THEN NONE ELSE s[1]
  /\ \A k \in 1 .. m : links[s[k]] = IF k = m THEN NONE ELSE s[k + 1]
  /\ \A j, k \in 1 .. m : s[j] = s[k] => j = k

Elems(s, m) == {s[k] : k \in 1 .. m}

\* The queued ids are divided between the pushes that own one, the stack
\* reached from h, and the batch reached from b.
Divided(s, m, u, n, h, b, links, owned, queued) ==
  /\ IsList(h, s, m, links) /\ IsList(b, u, n, links)
  /\ Elems(s, m) \cap Elems(u, n) = {}
  /\ owned \cap (Elems(s, m) \cup Elems(u, n)) = {}
  /\ queued = owned \cup Elems(s, m) \cup Elems(u, n)

Placed(h, b, links, owned, queued) ==
  \E m, n \in Nat : \E s \in [1 .. m -> Ids], u \in [1 .. n -> Ids] :
    Divided(s, m, u, n, h, b, links, owned, queued)

Owned  == {id[t] : t \in Publishing}
Queued == {i \in Ids : state[i] = "Queued"}

PlaceInv ==
  /\ \A t, u \in Publishing : t # u => id[t] # id[u]
  /\ \A t \in Publishing : pc[t] = "cas" => below[id[t]] = saw[t]
  /\ Placed(head, batch, below, Owned, Queued)

\* A push may relink the node it owns: no list goes through it.
LEMMA Relinked ==
  ASSUME NEW h, NEW b, NEW links \in [Ids -> Links], NEW owned, NEW queued,
         Placed(h, b, links, owned, queued),
         NEW i \in owned, NEW l
  PROVE  Placed(h, b, [links EXCEPT ![i] = l], owned, queued)
<1>1. PICK m, n \in Nat : \E s \in [1 .. m -> Ids], u \in [1 .. n -> Ids] :
        Divided(s, m, u, n, h, b, links, owned, queued)
  BY DEF Placed
<1>2. PICK s \in [1 .. m -> Ids], u \in [1 .. n -> Ids] :
        Divided(s, m, u, n, h, b, links, owned, queued)
  BY <1>1
<1> USE DEF Divided
<1> DEFINE after == [links EXCEPT ![i] = l]
<1>3. (\A k \in 1 .. m : s[k] # i) /\ \A k \in 1 .. n : u[k] # i
  BY <1>2 DEF Elems
<1>4. IsList(h, s, m, after) /\ IsList(b, u, n, after)
  BY <1>2, <1>3 DEF IsList
<1> HIDE DEF after
<1>5. Placed(h, b, after, owned, queued)
  BY <1>2, <1>4 DEF Placed
<1> QED
  BY <1>5 DEF after

\* A claim moves an idle id to its push.
LEMMA Claimed ==
  ASSUME NEW h, NEW b, NEW links, NEW owned, NEW queued,
         Placed(h, b, links, owned, queued), NEW i, i \notin queued
  PROVE  Placed(h, b, links, owned \cup {i}, queued \cup {i})
<1>1. PICK m, n \in Nat : \E s \in [1 .. m -> Ids], u \in [1 .. n -> Ids] :
        Divided(s, m, u, n, h, b, links, owned, queued)
  BY DEF Placed
<1>2. PICK s \in [1 .. m -> Ids], u \in [1 .. n -> Ids] :
        Divided(s, m, u, n, h, b, links, owned, queued)
  BY <1>1
<1> USE DEF Divided
<1>3. /\ (owned \cup {i}) \cap (Elems(s, m) \cup Elems(u, n)) = {}
      /\ queued \cup {i} = owned \cup {i} \cup Elems(s, m) \cup Elems(u, n)
  BY <1>2
<1> QED
  BY <1>2, <1>3 DEF Placed

\* A publish whose link is the top puts its id on the stack.
LEMMA Published ==
  ASSUME NEW h, NEW b, NEW links, NEW owned, NEW queued,
         Placed(h, b, links, owned, queued),
         NEW i \in owned \cap Ids, links[i] = h
  PROVE  Placed(i, b, links, owned \ {i}, queued)
<1>1. PICK m, n \in Nat : \E s \in [1 .. m -> Ids], u \in [1 .. n -> Ids] :
        Divided(s, m, u, n, h, b, links, owned, queued)
  BY DEF Placed
<1>2. PICK s \in [1 .. m -> Ids], u \in [1 .. n -> Ids] :
        Divided(s, m, u, n, h, b, links, owned, queued)
  BY <1>1
<1> USE DEF Divided
<1> DEFINE v == [k \in 1 .. m + 1 |-> IF k = 1 THEN i ELSE s[k - 1]]
<1>3. v \in [1 .. m + 1 -> Ids] /\ v[1] = i /\ \A k \in 1 .. m : v[k + 1] = s[k]
  OBVIOUS
<1>3a. \A k \in 1 .. m + 1 : k # 1 => k - 1 \in 1 .. m /\ v[k] = s[k - 1]
  OBVIOUS
<1> HIDE DEF v
<1>4. Elems(v, m + 1) = Elems(s, m) \cup {i}
  BY <1>3, <1>3a DEF Elems
<1>5. \A k \in 1 .. m : s[k] # i
  BY <1>2 DEF Elems
<1>6. IsList(i, v, m + 1, links)
  <2>1. \A j, k \in 1 .. m + 1 : v[j] = v[k] => j = k
    BY <1>2, <1>3, <1>3a, <1>5 DEF IsList
  <2>2. \A k \in 1 .. m + 1 : links[v[k]] = IF k = m + 1 THEN NONE ELSE v[k + 1]
    <3>0. m # 0 => 1 \in 1 .. m /\ v[2] = s[1]
      BY <1>3
    <3>1. links[v[1]] = IF m = 0 THEN NONE ELSE v[2]
      BY <1>2, <1>3, <3>0 DEF IsList
    <3>2. ASSUME NEW k \in 1 .. m PROVE links[v[k + 1]] = IF k = m THEN NONE ELSE v[k + 2]
      <4>1. k # m => k + 1 \in 1 .. m /\ v[k + 2] = s[k + 1]
        BY <1>3
      <4> QED BY <1>2, <1>3, <4>1 DEF IsList
    <3>3. ASSUME NEW k \in 1 .. m + 1, k # 1
          PROVE  links[v[k]] = IF k = m + 1 THEN NONE ELSE v[k + 1]
      <4>1. k - 1 \in 1 .. m
        BY <3>3
      <4>2. links[v[(k - 1) + 1]] = IF k - 1 = m THEN NONE ELSE v[(k - 1) + 2]
        BY ONLY <3>2, <4>1
      <4>3. (k - 1) + 1 = k /\ (k - 1) + 2 = k + 1 /\ (k - 1 = m <=> k = m + 1)
        BY <3>3
      <4> QED BY ONLY <4>2, <4>3
    <3> QED BY <3>1, <3>3
  <2> QED BY <1>3, <2>1, <2>2 DEF IsList
<1>7. /\ Elems(v, m + 1) \cap Elems(u, n) = {}
      /\ (owned \ {i}) \cap (Elems(v, m + 1) \cup Elems(u, n)) = {}
      /\ queued = (owned \ {i}) \cup Elems(v, m + 1) \cup Elems(u, n)
  BY <1>2, <1>4
<1>8. m + 1 \in Nat
  OBVIOUS
<1> QED
  BY <1>2, <1>3, <1>6, <1>7, <1>8 DEF Placed

\* A take moves the stack to the batch, which was empty.
LEMMA Taken ==
  ASSUME NEW h, NEW links, NEW owned, NEW queued,
         Placed(h, NONE, links, owned, queued)
  PROVE  Placed(NONE, h, links, owned, queued)
<1>1. PICK m, n \in Nat : \E s \in [1 .. m -> Ids], u \in [1 .. n -> Ids] :
        Divided(s, m, u, n, h, NONE, links, owned, queued)
  BY DEF Placed
<1>2. PICK s \in [1 .. m -> Ids], u \in [1 .. n -> Ids] :
        Divided(s, m, u, n, h, NONE, links, owned, queued)
  BY <1>1
<1>3. Divided(u, n, s, m, NONE, h, links, owned, queued)
  BY <1>2 DEF Divided
<1> QED
  BY <1>3 DEF Placed

\* A release takes the first id off the batch: it is nowhere now.
LEMMA TakenOff ==
  ASSUME NEW h, NEW b, NEW links, NEW owned, NEW queued,
         Placed(h, b, links, owned, queued), b # NONE
  PROVE  /\ Placed(h, links[b], links, owned, queued \ {b})
         /\ b \in Ids /\ b \in queued /\ b \notin owned
<1>1. PICK m, n \in Nat : \E s \in [1 .. m -> Ids], u \in [1 .. n -> Ids] :
        Divided(s, m, u, n, h, b, links, owned, queued)
  BY DEF Placed
<1>2. PICK s \in [1 .. m -> Ids], u \in [1 .. n -> Ids] :
        Divided(s, m, u, n, h, b, links, owned, queued)
  BY <1>1
<1> USE DEF Divided
<1> DEFINE v == [k \in 1 .. n - 1 |-> u[k + 1]]
<1>3. n # 0 /\ b = u[1] /\ n - 1 \in Nat /\ b \in Ids
  BY <1>2 DEF IsList
<1>4. v \in [1 .. n - 1 -> Ids] /\ \A k \in 1 .. n - 1 : v[k] = u[k + 1]
  BY <1>3
<1> HIDE DEF v
<1>5. \A k \in 2 .. n : k - 1 \in 1 .. n - 1 /\ v[k - 1] = u[k]
  BY <1>3, <1>4
<1>6. Elems(v, n - 1) = Elems(u, n) \ {b}
  <2>1. \A k \in 2 .. n : u[k] # b
    BY <1>2, <1>3 DEF IsList
  <2>2. \A k \in 1 .. n - 1 : v[k] \in Elems(u, n) /\ v[k] # b
    BY <1>3, <1>4, <2>1 DEF Elems
  <2>3. \A k \in 1 .. n : u[k] # b => u[k] \in Elems(v, n - 1)
    BY <1>3, <1>5 DEF Elems
  <2> QED BY <2>2, <2>3 DEF Elems
<1>7. IsList(links[b], v, n - 1, links)
  <2>1. \A j, k \in 1 .. n - 1 : v[j] = v[k] => j = k
    BY <1>2, <1>3, <1>4 DEF IsList
  <2>2. ASSUME NEW k \in 1 .. n - 1
        PROVE  links[v[k]] = IF k = n - 1 THEN NONE ELSE v[k + 1]
    <3>1. k + 1 \in 1 .. n /\ (k # n - 1 => k + 1 \in 1 .. n - 1)
      BY <1>3
    <3>2. links[u[k + 1]] = IF k + 1 = n THEN NONE ELSE u[k + 2]
      BY <1>2, <3>1 DEF IsList
    <3> QED BY <1>3, <1>4, <3>1, <3>2
  <2>3. links[b] = IF n - 1 = 0 THEN NONE ELSE v[1]
    BY <1>2, <1>3, <1>4 DEF IsList
  <2> QED BY <2>1, <2>2, <2>3 DEF IsList
<1>8. b \in Elems(u, n)
  BY <1>3 DEF Elems
<1>9. /\ Elems(s, m) \cap Elems(v, n - 1) = {}
      /\ owned \cap (Elems(s, m) \cup Elems(v, n - 1)) = {}
      /\ queued \ {b} = owned \cup Elems(s, m) \cup Elems(v, n - 1)
  BY <1>2, <1>6, <1>8
<1> QED
  BY <1>2, <1>3, <1>4, <1>7, <1>8, <1>9 DEF Placed

LEMMA PlaceUnowned == ASSUME TypeOK, ControlInv, PlaceInv PROVE Unowned
<1> SUFFICES ASSUME cpc = "release", NEW t \in Publishing PROVE id[t] # batch
  BY DEF Unowned
<1>1. id[t] \in Owned /\ batch # NONE
  BY DEF Owned, ControlInv
<1>2. batch \notin Owned
  <2>1. Placed(head, batch, below, Owned, Queued)
    BY DEF PlaceInv
  <2> HIDE DEF PlaceInv
  <2> QED BY <1>1, <2>1, TakenOff
<1> QED
  BY <1>1, <1>2

\* A step that leaves the links and the pushes under way alone.
LEMMA PlacesKept ==
  ASSUME PlaceInv, Publishing' = Publishing,
         \A t \in Publishing : pc'[t] = pc[t] /\ id'[t] = id[t] /\ saw'[t] = saw[t],
         UNCHANGED <<head, batch, below, state>>
  PROVE  PlaceInv'
<1>1. Owned' = Owned /\ Queued' = Queued
  BY DEF Owned, Queued
<1> QED
  BY <1>1 DEF PlaceInv

LEMMA AgentKeepsPlaces ==
  ASSUME TypeOK, PlaceInv, NEW t \in Agents, AgentStep(t) \/ UnparkNotify(t)
  PROVE  PlaceInv'
<1>1. UNCHANGED <<head, batch, below, state, saw>>
  BY DEF AgentStep, AgentWakes, EarlyMark, EarlyRelook, Unpark, UnparkNotify, stackVars, pushVars,
     loopVars
<1>0. t \in Pushers /\ t # "poll"
  BY DEF Pushers
<1>2. \/ pc' = pc /\ id' = id
      \/ /\ \E step \in {"idle", "early", "relook", "claim", "unpark"} : pc' = [pc EXCEPT ![t] = step]
         /\ \E i \in Ids : id' = [id EXCEPT ![t] = i]
         /\ t \notin Publishing
  <2>1. CASE \E i \in Ids : AgentWakes(t, i)
    BY <1>0, <2>1 DEF AgentWakes, StartPush, Goto, Publishing
  <2>2. CASE EarlyMark(t) \/ EarlyRelook(t) \/ Unpark(t)
    <3>1. id' = [id EXCEPT ![t] = id[t]] /\ id[t] \in Ids
      BY <1>0, <2>2 DEF EarlyMark, EarlyRelook, Unpark, TypeOK
    <3> QED BY <1>0, <2>2, <3>1 DEF EarlyMark, EarlyRelook, Unpark, Goto, Pushed, Publishing
  <2>3. CASE UnparkNotify(t)
    BY <2>3 DEF UnparkNotify, pushVars
  <2> QED BY <2>1, <2>2, <2>3 DEF AgentStep
<1>3. Publishing' = Publishing /\ \A u \in Publishing : pc'[u] = pc[u] /\ id'[u] = id[u]
  BY <1>0, <1>2 DEF Publishing, TypeOK
<1> QED
  BY <1>1, <1>3, PlacesKept

LEMMA ClaimKeepsPlaces ==
  ASSUME TypeOK, PlaceInv, NEW t \in Pushers, Claim(t)
  PROVE  PlaceInv'
<1> DEFINE i == id[t]
<1>1. /\ UNCHANGED <<head, batch, below, id, saw>>
      /\ i \in Ids /\ pc[t] = "claim" /\ t \notin Publishing
  BY DEF Claim, TypeOK, loopVars, Publishing
<1>2. CASE state[i] = "Queued"
  <2>1. /\ state' = state
        /\ Publishing' = Publishing /\ \A u \in Publishing : pc'[u] = pc[u]
    BY <1>1, <1>2 DEF Claim, Pushed, Goto, TypeOK, Publishing
  <2> QED BY <1>1, <2>1, PlacesKept
<1>3. CASE state[i] # "Queued"
  <2>1. pc' = [pc EXCEPT ![t] = "load"] /\ state' = [state EXCEPT ![i] = "Queued"]
    BY <1>3 DEF Claim, Goto
  <2>2. Publishing' = Publishing \cup {t} /\ \A u \in Publishing : pc'[u] = pc[u]
    BY <1>1, <2>1 DEF TypeOK, Publishing
  <2>3. Owned' = Owned \cup {i} /\ Queued' = Queued \cup {i} /\ i \notin Queued
    BY <1>1, <1>3, <2>1, <2>2 DEF Owned, Queued, TypeOK
  <2>4. Placed(head, batch, below, Owned', Queued')
    BY <2>3, Claimed DEF PlaceInv
  <2>5. \A u \in Publishing : id[u] # i
    <3>1. Owned \subseteq Queued
      BY DEF PlaceInv, Placed, Divided
    <3> QED BY <2>3, <3>1 DEF Owned
  <2>6. \A u \in Publishing' : pc'[u] = "cas" => u \in Publishing
    BY <1>1, <2>1, <2>2 DEF TypeOK
  <2> QED BY <1>1, <2>2, <2>4, <2>5, <2>6 DEF PlaceInv
<1> QED
  BY <1>2, <1>3

\* The link of a node is written by its owner only.
LEMMA RelinkKeepsPlaces ==
  ASSUME TypeOK, PlaceInv, NEW t \in Publishing,
         below' = [below EXCEPT ![id[t]] = head], saw' = [saw EXCEPT ![t] = head],
         pc' = [pc EXCEPT ![t] = "cas"], UNCHANGED <<head, batch, state, id>>
  PROVE  PlaceInv'
<1>0. t \in Pushers /\ id[t] \in Ids /\ \A u \in Publishing : u \in Pushers /\ id[u] \in Ids
  BY DEF Publishing, TypeOK
<1>1. Publishing' = Publishing
  BY DEF Publishing, TypeOK
<1>2. Owned' = Owned /\ Queued' = Queued /\ id[t] \in Owned
  BY <1>1 DEF Owned, Queued
<1>3. Placed(head, batch, below', Owned, Queued)
  BY <1>2, Relinked DEF PlaceInv, TypeOK
<1>4. \A u \in Publishing : pc'[u] = "cas" => below'[id[u]] = saw'[u]
  BY <1>0 DEF PlaceInv, TypeOK
<1> QED
  BY <1>1, <1>2, <1>3, <1>4 DEF PlaceInv

LEMMA PushKeepsPlaces ==
  ASSUME TypeOK, PlaceInv, NEW t \in Pushers, PushStep(t)
  PROVE  PlaceInv'
<1>1. CASE Claim(t)
  BY <1>1, ClaimKeepsPlaces
<1>2. CASE LoadTop(t)
  <2>1. t \in Publishing
    BY <1>2 DEF LoadTop, Publishing
  <2> QED BY <1>2, <2>1, RelinkKeepsPlaces DEF LoadTop, Goto, loopVars
<1>3. CASE PublishCas(t) /\ ~TopUnmoved(t)
  <2>1. t \in Publishing /\ pc' = [pc EXCEPT ![t] = "cas"]
    BY <1>3 DEF PublishCas, Publishing, TypeOK
  <2> QED BY <1>3, <2>1, RelinkKeepsPlaces DEF PublishCas, loopVars
<1>4. CASE PublishCas(t) /\ TopUnmoved(t)
  <2> DEFINE i == id[t]
  <2>1. /\ head' = i /\ pc[t] = "cas" /\ head = saw[t] /\ i \in Ids /\ t \in Publishing
        /\ UNCHANGED <<batch, below, state, id>>
        /\ saw' = [saw EXCEPT ![t] = NONE]
    BY <1>4 DEF PublishCas, TopUnmoved, Publishing, TypeOK, loopVars
  <2>2. Publishing' = Publishing \ {t} /\ \A u \in Publishing' : pc'[u] = pc[u] /\ saw'[u] = saw[u]
    BY <1>4, <2>1 DEF PublishCas, Pushed, Goto, Publishing, TypeOK
  <2>3. Owned' = Owned \ {i} /\ Queued' = Queued /\ i \in Owned
    BY <2>1, <2>2 DEF Owned, Queued, PlaceInv
  <2>4. below[i] = head
    BY <2>1 DEF PlaceInv
  <2>5. Placed(i, batch, below, Owned', Queued')
    BY <2>1, <2>3, <2>4, Published DEF PlaceInv
  <2> QED BY <2>1, <2>2, <2>5 DEF PlaceInv
<1> QED
  BY <1>1, <1>2, <1>3, <1>4 DEF PushStep

LEMMA WalkKeepsPlaces ==
  ASSUME TypeOK, ControlInv, PlaceInv, ReleaseNode \/ Take
  PROVE  PlaceInv'
<1>1. UNCHANGED <<below, pushVars>>
  BY DEF ReleaseNode, Take
<1>2. Publishing' = Publishing /\ Owned' = Owned
  BY <1>1 DEF Publishing, Owned, pushVars
<1>3. CASE ReleaseNode
  <2>1. /\ batch # NONE /\ head' = head /\ batch' = below[batch]
        /\ state' = [state EXCEPT ![batch] = "Idle"]
    BY <1>3 DEF ReleaseNode, Here, ControlInv
  <2>2. Queued' = Queued \ {batch}
    BY <2>1 DEF Queued, TypeOK
  <2>3. Placed(head, below[batch], below, Owned, Queued')
    BY <2>1, <2>2, TakenOff DEF PlaceInv
  <2> QED BY <1>1, <1>2, <2>1, <2>3 DEF PlaceInv, pushVars
<1>4. CASE Take
  <2>1. batch = NONE /\ batch' = head /\ head' = NONE /\ Queued' = Queued
    BY <1>4 DEF Take, Here, ControlInv, Queued
  <2>2. Placed(NONE, head, below, Owned, Queued)
    BY <2>1, Taken DEF PlaceInv
  <2> QED BY <1>1, <1>2, <2>1, <2>2 DEF PlaceInv, pushVars
<1> QED
  BY <1>3, <1>4

LEMMA Place0 == Init => PlaceInv
<1> SUFFICES ASSUME Init PROVE PlaceInv
  OBVIOUS
<1>1. Publishing = {} /\ Owned = {} /\ Queued = {} /\ head = NONE /\ batch = NONE
  BY DEF Init, Publishing, Owned, Queued
<1> DEFINE s == [k \in 1 .. 0 |-> 0]
<1>2. s \in [1 .. 0 -> Ids]
  OBVIOUS
<1>3. IsList(NONE, s, 0, below) /\ Elems(s, 0) = {}
  BY DEF IsList, Elems
<1> HIDE DEF s
<1>4. Divided(s, 0, s, 0, head, batch, below, Owned, Queued)
  BY <1>1, <1>3 DEF Divided
<1>5. 0 \in Nat
  OBVIOUS
<1> QED
  BY <1>1, <1>2, <1>4, <1>5 DEF PlaceInv, Placed

LEMMA Place1 == TypeOK /\ ControlInv /\ PlaceInv /\ [Next]_vars => PlaceInv'
<1> SUFFICES ASSUME TypeOK, ControlInv, PlaceInv, [Next]_vars PROVE PlaceInv'
  OBVIOUS
<1>0. "poll" \in Pushers
  BY DEF Pushers
<1>1. CASE \E t \in Agents : AgentStep(t) \/ UnparkNotify(t)
  BY <1>1, AgentKeepsPlaces
<1>2. CASE \E t \in Pushers : PushStep(t)
  BY <1>2, PushKeepsPlaces
<1>3. CASE ReleaseNode \/ Take
  BY <1>3, WalkKeepsPlaces
<1>4. CASE \/ InitNodes \/ BuildFails \/ InitSwap \/ ReadLink \/ ParkConsumer \/ ConsumerResumes
           \/ PollNode \/ PollReturns \/ ParkTimesOut \/ ParkEndsEarly \/ WaitBegins \/ WaitCut
           \/ Resting \/ UNCHANGED vars \/ \E i \in Ids : Tick(i)
  <2>1. UNCHANGED <<pushVars, head, batch, below, state>>
    BY <1>4 DEF InitNodes, BuildFails, InitSwap, ReadLink, ParkConsumer, ConsumerResumes, PollNode,
       PollReturns, ParkTimesOut, ParkEndsEarly, WaitBegins, WaitCut, Resting, Tick, vars,
       stackVars, loopVars
  <2>2. Publishing' = Publishing
    BY <2>1 DEF Publishing, pushVars
  <2> QED BY <2>1, <2>2, PlacesKept DEF pushVars
<1>5. CASE Fill \/ Expire \/ \E i \in Ids : LocalWake(i)
  <2>1. /\ UNCHANGED <<head, batch, below, state, saw>>
        /\ pc["poll"] = "idle" /\ \A u \in Pushers \ {"poll"} : pc'[u] = pc[u] /\ id'[u] = id[u]
        /\ pc'["poll"] \in {"idle", "claim"}
    BY <1>0, <1>5 DEF Fill, Expire, LocalWake, StartPush, Here, Goto, TypeOK, stackVars, loopVars
  <2>2. Publishing' = Publishing /\ "poll" \notin Publishing
    BY <1>0, <2>1 DEF Publishing
  <2> QED BY <2>1, <2>2, PlacesKept DEF Publishing
<1> QED
  BY <1>1, <1>2, <1>3, <1>4, <1>5 DEF Next, ConsumerStep

-----------------------------------------------------------------------------
(* From the lists to Walk.                                                  *)

\* A list has no more elements than there are ids.
LEMMA ListsAreShort ==
  ASSUME NEW l, NEW m \in Nat, NEW s \in [1 .. m -> Ids], NEW links, IsList(l, s, m, links)
  PROVE  m <= N
<1>1. /\ IsFiniteSet(1 .. m) /\ Cardinality(1 .. m) = m
      /\ IsFiniteSet(Ids) /\ Cardinality(Ids) = N
  BY FS_Interval DEF Ids
<1>2. \A j, k \in 1 .. m : s[j] = s[k] => j = k
  BY DEF IsList
<1>3. \A x, y \in 1 .. m : x # y => s[x] # s[y]
  BY <1>2
<1> SUFFICES ASSUME N < m PROVE FALSE
  OBVIOUS
<1>4. \E x, y \in 1 .. m : x # y /\ s[x] = s[y]
  BY <1>1, FS_PigeonHole
<1> QED
  BY <1>3, <1>4

\* Walk goes down the list, then stays at NONE.
LEMMA WalkIsList ==
  ASSUME TypeOK, NEW l, NEW m \in Nat, NEW s \in [1 .. m -> Ids], IsList(l, s, m, below)
  PROVE  \A n \in 0 .. N : Walk(l)[n] = IF n < m THEN s[n + 1] ELSE NONE
<1> DEFINE f == [n \in 0 .. N |-> IF n < m THEN s[n + 1] ELSE NONE]
           Walks(w) == w = [n \in 0 .. N |->
                              IF n = 0 THEN l ELSE IF w[n - 1] = NONE THEN NONE ELSE below[w[n - 1]]]
           w0 == Walk(l)
<1>1. \A k \in 1 .. m : s[k] # NONE
  BY DEF Ids, NONE
<1>2. Walks(f)
  <2>1. f[0] = l
    BY DEF IsList
  <2>2. ASSUME NEW n \in 1 .. N
        PROVE  f[n] = IF f[n - 1] = NONE THEN NONE ELSE below[f[n - 1]]
    <3>1. n - 1 \in 0 .. N /\ f[n - 1] = IF n - 1 < m THEN s[n] ELSE NONE
      OBVIOUS
    <3>2. CASE n - 1 < m
      <4>1. n \in 1 .. m
        BY <3>2
      <4> QED BY <1>1, <3>1, <3>2, <4>1 DEF IsList
    <3>3. CASE ~(n - 1 < m)
      BY <3>1, <3>3
    <3> QED BY <3>2, <3>3
  <2>3. f = [n \in 0 .. N |-> f[n]]
    OBVIOUS
  <2> HIDE DEF f
  <2>4. \A n \in 0 .. N :
          f[n] = IF n = 0 THEN l ELSE IF f[n - 1] = NONE THEN NONE ELSE below[f[n - 1]]
    BY <2>1, <2>2
  <2> QED BY <2>3, <2>4
<1>3. Walks(w0)
  BY <1>2 DEF Walk
<1> DEFINE S == {n \in Nat : n <= N => w0[n] = f[n]}
<1> HIDE DEF w0
<1>4. 0 \in S
  <2> HIDE DEF f
  <2> QED BY <1>2, <1>3
<1>5. \A n \in Nat : n \in S => n + 1 \in S
  <2> SUFFICES ASSUME NEW n \in S, n + 1 <= N PROVE w0[n + 1] = f[n + 1]
    OBVIOUS
  <2> HIDE DEF f
  <2>1. n \in Nat /\ n + 1 \in 0 .. N /\ n + 1 # 0 /\ (n + 1) - 1 = n /\ w0[n] = f[n]
    OBVIOUS
  <2>2. w0[n + 1] = IF w0[n] = NONE THEN NONE ELSE below[w0[n]]
    BY <1>3, <2>1
  <2>3. f[n + 1] = IF f[n] = NONE THEN NONE ELSE below[f[n]]
    BY <1>2, <2>1
  <2> QED BY <2>1, <2>2, <2>3
<1>6. Nat \subseteq S
  <2> HIDE DEF S
  <2> QED BY <1>4, <1>5, SetInduction
<1>7. \A n \in 0 .. N : w0[n] = f[n]
  <2> HIDE DEF f
  <2>1. \A n \in 0 .. N : n \in S
    BY <1>6
  <2> QED BY <2>1
<1>8. \A n \in 0 .. N : f[n] = IF n < m THEN s[n + 1] ELSE NONE
  OBVIOUS
<1>9. \A n \in 0 .. N : w0[n] = IF n < m THEN s[n + 1] ELSE NONE
  <2> HIDE DEF f
  <2> QED BY <1>7, <1>8
<1> QED
  BY <1>9 DEF w0

LEMMA ListIsChain ==
  ASSUME TypeOK, NEW l, NEW m \in Nat, NEW s \in [1 .. m -> Ids], IsList(l, s, m, below)
  PROVE  Walk(l)[N] = NONE /\ Chain(l) = Elems(s, m)
<1>1. \A n \in 0 .. N : Walk(l)[n] = IF n < m THEN s[n + 1] ELSE NONE
  BY WalkIsList
<1>2. m <= N /\ N \in 0 .. N
  BY ListsAreShort
<1>3. \A k \in 1 .. m : s[k] # NONE /\ k - 1 \in 0 .. N /\ Walk(l)[k - 1] = s[k]
  BY <1>1, <1>2 DEF Ids, NONE
<1>4. \A n \in 0 .. N : Walk(l)[n] # NONE => n + 1 \in 1 .. m /\ Walk(l)[n] = s[n + 1]
  BY <1>1
<1>5. Elems(s, m) \subseteq Chain(l)
  BY <1>3 DEF Chain, Elems
<1>6. Chain(l) \subseteq Elems(s, m)
  BY <1>4 DEF Chain, Elems
<1> QED
  BY <1>1, <1>2, <1>5, <1>6

LEMMA PlacesAreOne == TypeOK /\ PlaceInv => OnePlacePerNode
<1> SUFFICES ASSUME TypeOK, PlaceInv PROVE OnePlacePerNode
  OBVIOUS
<1>1. PICK m, n \in Nat : \E s \in [1 .. m -> Ids], u \in [1 .. n -> Ids] :
        Divided(s, m, u, n, head, batch, below, Owned, Queued)
  BY DEF PlaceInv, Placed
<1>2. PICK s \in [1 .. m -> Ids], u \in [1 .. n -> Ids] :
        Divided(s, m, u, n, head, batch, below, Owned, Queued)
  BY <1>1
<1>3. /\ Walk(head)[N] = NONE /\ Chain(head) = Elems(s, m)
      /\ Walk(batch)[N] = NONE /\ Chain(batch) = Elems(u, n)
  BY <1>2, ListIsChain DEF Divided
<1> QED
  BY <1>2, <1>3 DEF OnePlacePerNode, PlaceInv, Divided, Owned, Queued

SchedInv == TypeOK /\ ControlInv /\ PlaceInv

LEMMA SchedInvariant == Spec => []SchedInv
<1>1. Init => SchedInv
  BY Typed0, Control0, Place0 DEF SchedInv
<1>2. SchedInv /\ [Next]_vars => SchedInv'
  <2> SUFFICES ASSUME SchedInv, [Next]_vars PROVE SchedInv'
    OBVIOUS
  <2>1. TypeOK' /\ PlaceInv'
    BY Typed1, Place1 DEF SchedInv
  <2>2. ControlInv'
    <3>1. Unowned
      BY PlaceUnowned DEF SchedInv
    <3> QED
      BY <3>1, AgentKeepsControl, PushKeepsControl, ConsumerKeepsControl, OthersKeepControl
      DEF SchedInv, Next
  <2> QED BY <2>1, <2>2 DEF SchedInv
<1>3. QED
  BY <1>1, <1>2, PTL DEF Spec

\* Every variable of the poll thread, its stack and its parker has its type in
\* every reachable state.
THEOREM SchedulerTyped == Spec => []TypeOK
<1>1. SchedInv => TypeOK
  BY DEF SchedInv
<1>2. QED
  BY <1>1, SchedInvariant, PTL

\* Every queued id is in one place, whatever pushes, takes and releases race:
\* no list has a cycle, no batch loses the nodes below one pushed again, and no
\* node runs twice (treiber/mod.rs push_onto and publish, next).
THEOREM NodesHaveOnePlace == Spec => []OnePlacePerNode
<1>1. SchedInv => OnePlacePerNode
  BY PlacesAreOne DEF SchedInv
<1>2. QED
  BY <1>1, SchedInvariant, PTL

-----------------------------------------------------------------------------
(* The parker the thread sleeps in is Parker.                               *)

\* Each step of the scheduler is a step of the parker of its thread, or leaves it
\* alone (consumer::next parks, Producer::push wakes).
LEMMA ParkerStep == [Next]_vars => [P!ParkerNext]_(P!parkerVars)
<1> SUFFICES ASSUME [Next]_vars PROVE P!ParkerNext \/ UNCHANGED P!parkerVars
  OBVIOUS
<1> USE DEF P!parkerVars, parkVars
<1>1. CASE \E t \in Agents : AgentStep(t) \/ UnparkNotify(t)
  BY <1>1 DEF AgentStep, AgentWakes, EarlyMark, EarlyRelook, Unpark, UnparkNotify, P!ParkerNext
<1>2. CASE \E t \in Pushers : PushStep(t)
  BY <1>2 DEF PushStep, Claim, LoadTop, PublishCas
<1>3. CASE ConsumerStep
  <2>1. Earliest \in P!Deadlines
    BY DEF Earliest, P!Deadlines
  <2> QED
    BY <1>3, <2>1 DEF ConsumerStep, InitNodes, BuildFails, InitSwap, Fill, ReadLink, ReleaseNode,
       Expire, Take, ParkConsumer, ConsumerResumes, PollNode, PollReturns, P!ParkerNext
<1>4. CASE \/ ParkTimesOut \/ ParkEndsEarly \/ WaitBegins \/ WaitCut
           \/ \E i \in Ids : LocalWake(i)
  BY <1>4 DEF ParkTimesOut, ParkEndsEarly, WaitBegins, WaitCut, LocalWake, P!ParkerNext
<1>5. ASSUME NEW i \in Ids, Tick(i) PROVE P!ParkerNext \/ UNCHANGED P!parkerVars
  BY <1>5 DEF Tick, P!Tick, P!ParkerNext
<1>6. CASE Resting \/ UNCHANGED vars
  BY <1>6 DEF Resting, vars
<1> QED
  BY <1>1, <1>2, <1>3, <1>4, <1>5, <1>6 DEF Next

THEOREM SchedulerParks == Spec => P!ParkerSpec
<1>1. Init => P!ParkerInit
  BY DEF Init
<1>2. QED
  BY <1>1, ParkerStep, PTL DEF Spec, P!ParkerSpec

\* What Parker promises of a sleeping thread, and what a resumed one keeps of
\* it until it looks at the token.
ParkerInv ==
  /\ P!NoLostWake /\ P!AwakeAsksNoNotify
  /\ sleeper = "resumed" /\ ~token => parked
  /\ token => ~parked

LEMMA ParkerTypes == P!ParkerTypeOK /\ [P!ParkerNext]_(P!parkerVars) => P!ParkerTypeOK'
<1> SUFFICES ASSUME P!ParkerTypeOK, [P!ParkerNext]_(P!parkerVars) PROVE P!ParkerTypeOK'
  OBVIOUS
<1> USE DEF P!ParkerTypeOK, P!Deadlines
<1>1. ASSUME NEW d \in P!Deadlines, P!Park(d) PROVE P!ParkerTypeOK'
  BY <1>1 DEF P!Park
<1>2. CASE P!Recheck
  BY <1>2 DEF P!Recheck, P!LeaveAtDeadline
<1>3. ASSUME NEW t \in Agents, P!Wake(t) PROVE P!ParkerTypeOK'
  BY <1>3 DEF P!Wake
<1>4. ASSUME NEW t \in Agents, P!Notify(t) PROVE P!ParkerTypeOK'
  BY <1>4 DEF P!Notify
<1>5. CASE P!Tick \/ P!TimedOut \/ P!SpuriousReturn
  BY <1>5 DEF P!Tick, P!TimedOut, P!SpuriousReturn
<1>6. CASE UNCHANGED P!parkerVars
  BY <1>6 DEF P!parkerVars
<1> QED BY <1>1, <1>2, <1>3, <1>4, <1>5, <1>6 DEF P!ParkerNext

LEMMA SchedulerKeepsWakes == Spec => []P!NoLostWake
<1> USE DEF ParkerInv, P!NoLostWake, P!AwakeAsksNoNotify
<1>1. P!ParkerInit => P!ParkerTypeOK /\ ParkerInv
  BY DEF P!ParkerInit, P!ParkerTypeOK, P!Deadlines
<1>2. P!ParkerTypeOK /\ ParkerInv /\ [P!ParkerNext]_(P!parkerVars) => ParkerInv'
  <2> SUFFICES ASSUME P!ParkerTypeOK, ParkerInv, [P!ParkerNext]_(P!parkerVars)
               PROVE  ParkerInv'
    OBVIOUS
  <2> USE DEF P!ParkerTypeOK
  <2>1. ASSUME NEW d \in P!Deadlines, P!Park(d) PROVE ParkerInv'
    BY <2>1 DEF P!Park
  <2>2. CASE P!Recheck
    BY <2>2 DEF P!Recheck, P!LeaveAtDeadline
  <2>3. ASSUME NEW t \in Agents, P!Wake(t) PROVE ParkerInv'
    BY <2>3 DEF P!Wake
  <2>4. ASSUME NEW t \in Agents, P!Notify(t) PROVE ParkerInv'
    BY <2>4 DEF P!Notify
  <2>5. CASE P!Tick
    BY <2>5 DEF P!Tick
  <2>6. CASE P!TimedOut \/ P!SpuriousReturn
    BY <2>6 DEF P!TimedOut, P!SpuriousReturn
  <2>7. CASE UNCHANGED P!parkerVars
    BY <2>7 DEF P!parkerVars
  <2> QED BY <2>1, <2>2, <2>3, <2>4, <2>5, <2>6, <2>7 DEF P!ParkerNext
<1>3. ParkerInv => P!NoLostWake
  OBVIOUS
<1>4. QED
  BY <1>1, <1>2, <1>3, ParkerTypes, SchedulerParks, PTL DEF P!ParkerSpec

-----------------------------------------------------------------------------
(* Between the take that found the stack empty and the end of the park, an  *)
(* id on the stack has a wake to come or come: the agent that put it there  *)
(* is at its unpark, or left the token.                                     *)
SleepInv ==
  /\ sleeper # "awake" <=> cpc = "parked"
  /\ cpc \in {"park", "parked"} /\ head # NONE => token \/ \E t \in Agents : pc[t] = "unpark"

LEMMA Sleep0 == Init => SleepInv
BY DEF Init, SleepInv, P!ParkerInit

\* An agent that leaves the unpark leaves the token.
LEMMA AgentKeepsSleep ==
  ASSUME TypeOK, SleepInv, NEW t \in Agents, AgentStep(t) \/ UnparkNotify(t)
  PROVE  SleepInv'
<1>0. t \in Pushers /\ \A u \in Agents : u \in Pushers
  BY DEF Pushers
<1>1. CASE \E i \in Ids : AgentWakes(t, i)
  BY <1>0, <1>1 DEF AgentWakes, StartPush, Goto, SleepInv, TypeOK, stackVars, loopVars, parkVars
<1>2. CASE EarlyMark(t) \/ EarlyRelook(t)
  BY <1>0, <1>2 DEF EarlyMark, EarlyRelook, Goto, Pushed, SleepInv, TypeOK, stackVars, loopVars,
     parkVars
<1>3. CASE Unpark(t)
  BY <1>0, <1>3 DEF Unpark, P!Wake, Goto, SleepInv, TypeOK, stackVars, loopVars
<1>4. CASE UnparkNotify(t)
  BY <1>4 DEF UnparkNotify, P!Notify, SleepInv, stackVars, pushVars, loopVars
<1> QED
  BY <1>1, <1>2, <1>3, <1>4 DEF AgentStep

\* The poll thread publishes at none of the two; an agent goes to its unpark.
LEMMA PushKeepsSleep ==
  ASSUME TypeOK, ControlInv, SleepInv, NEW t \in Pushers, PushStep(t)
  PROVE  SleepInv'
<1>0. /\ UNCHANGED <<cpc, sleeper, token>>
      /\ pc[t] \in Pushing
      /\ \A u \in Agents : u \in Pushers
  BY DEF PushStep, Claim, LoadTop, PublishCas, Pushing, loopVars, parkVars, Pushers
<1>1. CASE cpc \notin {"park", "parked"}
  BY <1>0, <1>1 DEF SleepInv
<1>2. CASE cpc \in {"park", "parked"}
  <2>1. t # "poll" /\ t \in Agents
    BY <1>0, <1>2 DEF ControlInv, Pushing, Pushers
  <2>2. CASE head' = head
    <3>1. \A u \in Agents : pc[u] = "unpark" => pc'[u] = "unpark"
      BY <1>0 DEF PushStep, Claim, LoadTop, PublishCas, Goto, Pushed, Pushing, TypeOK
    <3> QED BY <1>0, <2>2, <3>1 DEF SleepInv
  <2>3. CASE head' # head
    <3>1. pc'[t] = "unpark"
      BY <2>1, <2>3 DEF PushStep, Claim, LoadTop, PublishCas, Goto, Pushed, TypeOK
    <3> QED BY <1>0, <2>1, <3>1 DEF SleepInv
  <2> QED BY <2>2, <2>3
<1> QED
  BY <1>1, <1>2

LEMMA PollThreadKeepsSleep ==
  ASSUME TypeOK, SleepInv,
         \/ ConsumerStep \/ ParkTimesOut \/ ParkEndsEarly \/ WaitBegins \/ WaitCut \/ Resting
         \/ UNCHANGED vars \/ \E i \in Ids : LocalWake(i) \/ Tick(i)
  PROVE  SleepInv'
<1> USE DEF SleepInv, Here, stackVars, pushVars, loopVars, nodeVars, parkVars
<1>1. CASE InitNodes \/ BuildFails \/ InitSwap \/ ReadLink \/ ReleaseNode \/ Take
  BY <1>1 DEF InitNodes, BuildFails, InitSwap, ReadLink, ReleaseNode, Take
<1>2. CASE Fill \/ Expire
  BY <1>2 DEF Fill, Expire
<1>3. CASE ParkConsumer
  BY <1>3 DEF ParkConsumer, P!Park
<1>4. CASE ConsumerResumes
  BY <1>4 DEF ConsumerResumes, P!Recheck, P!LeaveAtDeadline
<1>5. CASE PollNode \/ PollReturns
  BY <1>5 DEF PollNode, PollReturns
<1>6. CASE ParkTimesOut \/ ParkEndsEarly
  BY <1>6 DEF ParkTimesOut, ParkEndsEarly, P!TimedOut, P!SpuriousReturn
<1>7. CASE \/ WaitBegins \/ WaitCut \/ Resting \/ UNCHANGED vars
           \/ \E i \in Ids : LocalWake(i) \/ Tick(i)
  BY <1>7 DEF WaitBegins, WaitCut, Resting, vars, LocalWake, Tick
<1> QED
  BY <1>1, <1>2, <1>3, <1>4, <1>5, <1>6, <1>7 DEF ConsumerStep

\* The poll thread never sleeps on a stack with an id in it unless the push that
\* put one there is about to wake the parker (Consumer::next, Producer::push).
THEOREM NeverSleepsOnWork == Spec => []NoSleepOnWork
<1>1. Init => SleepInv
  BY Sleep0
<1>2. SchedInv /\ SleepInv /\ [Next]_vars => SleepInv'
  <2> SUFFICES ASSUME SchedInv, SleepInv, [Next]_vars PROVE SleepInv'
    OBVIOUS
  <2> QED
    BY AgentKeepsSleep, PushKeepsSleep, PollThreadKeepsSleep DEF SchedInv, Next
<1>3. SleepInv /\ P!NoLostWake => NoSleepOnWork
  BY DEF SleepInv, P!NoLostWake, NoSleepOnWork
<1>4. QED
  BY <1>1, <1>2, <1>3, SchedInvariant, SchedulerKeepsWakes, PTL DEF Spec

-----------------------------------------------------------------------------
(* What is visible where.  WakeWillBeSeen is not inductive: a push at its    *)
(* second look may find no nodes and drop its wake.  So a push there counts  *)
(* as a carrier only if it knows of the nodes, and then it finds them; if it *)
(* does not, its mark came before init's swap, and the swap acquires it.     *)

Carried(i, k) ==
  \/ \E t \in Pushers : /\ \/ pc[t] \in {"early", "claim"}
                           \/ pc[t] = "relook" /\ Made \in knows[t]
                        /\ id[t] = i /\ k \in knows[t]
  \/ state[i] = "Queued" /\ k \in atState[i]
  \/ cpc = "poll" /\ cur = i /\ k \in knows["poll"]
  \/ cpc \in {"init", "swap"} /\ k \in atEarly
  \/ cpc = "fill" /\ i < fill /\ k \in knows["poll"]

AllCarried == \A i \in Ids : \A k \in pending[i] : Carried(i, k)

\* Nobody knows of the nodes before they are made; their maker does, and from
\* its swap on so does whoever marks `early`.
MadeInv ==
  /\ nodes => Made \in knows["poll"]
  /\ \A t \in Pushers : Made \in knows[t] => nodes
  /\ Made \in atEarly \cup atHead => nodes
  /\ \A i \in Ids : Made \in atState[i] => nodes
  /\ nodes /\ cpc \notin {"init", "swap"} => Made \in atEarly

\* A push at its second look has left what it knows at `early`.
MarkInv == \A t \in Agents : pc[t] = "relook" => knows[t] \subseteq atEarly

\* A wake is owed by one node, by a thread that issued it, and by a live node
\* only; a graph whose nodes were never made has none, once its thread ended.
PendingInv ==
  /\ \A i \in Ids : \A k \in pending[i] : k[2] <= issued[k[1]]
  /\ \A i, j \in Ids : i # j => pending[i] \cap pending[j] = {}
  /\ \A i \in Ids : ~slot[i] => pending[i] = {}
  /\ ~nodes => cpc = "init" \/ \A i \in Ids : ~slot[i]
  /\ cpc = "init" => ~nodes

WakeInv == AllCarried /\ MadeInv /\ MarkInv /\ PendingInv

LEMMA MadeIsNoToken == Made \notin Tokens
BY DEF Made, Tokens

LEMMA Wake0 == Init => WakeInv
<1> SUFFICES ASSUME Init PROVE WakeInv
  OBVIOUS
<1>1. "poll" \in Pushers /\ \A t \in Agents : t \in Pushers
  BY DEF Pushers
<1> QED
  BY <1>1 DEF Init, WakeInv, AllCarried, MadeInv, MarkInv, PendingInv

-----------------------------------------------------------------------------
(* A wake begins.                                                           *)

LEMMA StartPushKeepsPending ==
  ASSUME TypeOK, PendingInv, NEW t \in Pushers, NEW i \in Ids, StartPush(t, i),
         UNCHANGED <<slot, nodes, cpc>>
  PROVE  PendingInv'
<1> DEFINE k == <<t, issued[t] + 1>>
           new == IF slot[i] THEN {k} ELSE {}
<1>1. issued[t] + 1 \in 1 .. MaxWakes /\ issued' = [issued EXCEPT ![t] = @ + 1]
      /\ pending' = [pending EXCEPT ![i] = @ \cup new]
  BY DEF StartPush, TypeOK
<1>2. k[1] = t /\ k[2] = issued[t] + 1 /\ issued'[t] = issued[t] + 1
  BY <1>1 DEF TypeOK
<1> HIDE DEF k
<1>3. \A u \in Pushers : issued[u] \in Nat /\ issued'[u] \in Nat /\ issued[u] <= issued'[u]
  BY <1>1 DEF TypeOK
<1>4. \A j \in Ids : \A q \in pending[j] : q[1] \in Pushers /\ q[2] \in Nat /\ q # k
  BY <1>2, <1>3 DEF PendingInv, TypeOK, Tokens
<1>5. \A j \in Ids : pending'[j] = IF j = i THEN pending[j] \cup new ELSE pending[j]
  BY <1>1 DEF TypeOK
<1>6. \A j \in Ids : \A q \in pending'[j] : q[2] <= issued'[q[1]]
  <2> SUFFICES ASSUME NEW j \in Ids, NEW q \in pending'[j] PROVE q[2] <= issued'[q[1]]
    OBVIOUS
  <2>1. CASE q = k
    BY <1>2, <1>3, <2>1
  <2>2. CASE q \in pending[j]
    <3>1. q[2] <= issued[q[1]] /\ q[1] \in Pushers /\ q[2] \in Nat
      BY <1>4, <2>2 DEF PendingInv
    <3> QED BY <1>3, <3>1
  <2> QED BY <1>5, <2>1, <2>2
<1>7. \A j, l \in Ids : j # l => pending'[j] \cap pending'[l] = {}
  BY <1>4, <1>5 DEF PendingInv
<1>8. \A j \in Ids : ~slot'[j] => pending'[j] = {}
  BY <1>5 DEF PendingInv
<1> QED
  BY <1>6, <1>7, <1>8 DEF PendingInv

\* The new wake travels with its push; every other carrier stays one.
LEMMA StartPushKeepsCarried ==
  ASSUME TypeOK, AllCarried, NEW t \in Pushers, NEW i \in Ids, StartPush(t, i),
         \E step \in {"early", "claim"} : pc' = [pc EXCEPT ![t] = step],
         UNCHANGED <<state, atState, atEarly, cpc, cur, fill>>
  PROVE  AllCarried'
<1> DEFINE new == IF slot[i] THEN {<<t, issued[t] + 1>>} ELSE {}
<1>1. /\ pc[t] = "idle" /\ id' = [id EXCEPT ![t] = i]
      /\ knows' = [knows EXCEPT ![t] = @ \cup new]
      /\ pending' = [pending EXCEPT ![i] = @ \cup new]
  BY DEF StartPush
<1> HIDE DEF new
<1>2. \A u \in Pushers : u # t => pc'[u] = pc[u] /\ id'[u] = id[u]
  BY <1>1 DEF TypeOK
<1>3. pc'[t] \in {"early", "claim"} /\ id'[t] = i /\ new \subseteq knows'[t]
  BY <1>1 DEF TypeOK
<1>4. "poll" \in Pushers /\ \A u \in Pushers : knows[u] \subseteq knows'[u]
  BY <1>1 DEF TypeOK, Pushers
<1>5. ASSUME NEW j \in Ids, NEW k \in pending'[j] PROVE Carried(j, k)'
  <2>1. CASE j = i /\ k \in new
    BY <1>3, <2>1 DEF Carried
  <2>2. CASE k \in pending[j]
    <3>1. Carried(j, k)
      BY <2>2 DEF AllCarried
    <3> QED BY <1>1, <1>2, <1>4, <3>1 DEF Carried
  <2> QED BY <1>1, <2>1, <2>2 DEF TypeOK
<1> QED
  BY <1>5 DEF AllCarried

LEMMA StartPushKeepsWakes ==
  ASSUME TypeOK, WakeInv, NEW t \in Pushers, NEW i \in Ids, StartPush(t, i),
         \E step \in {"early", "claim"} : pc' = [pc EXCEPT ![t] = step],
         UNCHANGED <<stackVars, cpc, cur, fill, slot>>
  PROVE  WakeInv'
<1>1. AllCarried' /\ PendingInv'
  BY StartPushKeepsCarried, StartPushKeepsPending DEF WakeInv, stackVars
<1>2. \A u \in Pushers : /\ knows[u] \subseteq knows'[u]
                         /\ Made \in knows'[u] => Made \in knows[u]
  BY MadeIsNoToken DEF StartPush, TypeOK, Tokens, Made
<1>3. MadeInv'
  BY <1>2 DEF WakeInv, MadeInv, stackVars, Pushers
<1>4. MarkInv'
  <2>1. \A u \in Agents : pc'[u] = "relook" => pc[u] = "relook" /\ u # t /\ u \in Pushers
    BY DEF TypeOK, Pushers
  <2>2. \A u \in Pushers : u # t => knows'[u] = knows[u]
    BY DEF StartPush, TypeOK
  <2> QED BY <2>1, <2>2 DEF WakeInv, MarkInv, stackVars
<1> QED
  BY <1>1, <1>3, <1>4 DEF WakeInv

-----------------------------------------------------------------------------
(* The steps of a push.                                                     *)

\* The mark: what the push knows is at `early`, and what is there it knows.  If
\* the nodes' making is not, init has not swapped.
LEMMA MarkKeepsWakes ==
  ASSUME TypeOK, WakeInv, NEW t \in Agents, EarlyMark(t)
  PROVE  WakeInv'
<1>0. t \in Pushers /\ t # "poll" /\ "poll" \in Pushers
  BY DEF Pushers
<1>1. /\ knows' = [knows EXCEPT ![t] = @ \cup atEarly] /\ atEarly' = atEarly \cup knows[t]
      /\ pc[t] = "early" /\ pc' = [pc EXCEPT ![t] = "relook"]
      /\ UNCHANGED <<nodes, state, atHead, atState, id, cpc, cur, fill, slot, issued, pending>>
  BY DEF EarlyMark, Released, Goto, loopVars, nodeVars, wakeVars
<1>2. /\ \A u \in Pushers : u # t => knows'[u] = knows[u] /\ pc'[u] = pc[u]
      /\ knows'[t] = knows[t] \cup atEarly /\ pc'[t] = "relook"
  BY <1>0, <1>1 DEF TypeOK
<1>3. ASSUME NEW i \in Ids, NEW k \in pending'[i] PROVE Carried(i, k)'
  <2>1. Carried(i, k)
    BY <1>1 DEF WakeInv, AllCarried
  <2>2. CASE id[t] = i /\ k \in knows[t]
    <3>1. CASE Made \in atEarly
      BY <1>0, <1>1, <1>2, <2>2, <3>1 DEF Carried
    <3>2. CASE Made \notin atEarly
      <4>1. ~nodes \/ cpc \in {"init", "swap"}
        BY <3>2 DEF WakeInv, MadeInv
      <4>2. slot[i]
        BY <1>1 DEF WakeInv, PendingInv
      <4>3. cpc \in {"init", "swap"}
        BY <4>1, <4>2 DEF WakeInv, PendingInv
      <4> QED BY <1>1, <2>2, <4>3 DEF Carried
    <3> QED BY <3>1, <3>2
  <2>3. CASE ~(id[t] = i /\ k \in knows[t])
    BY <1>0, <1>1, <1>2, <2>1, <2>3 DEF Carried
  <2> QED BY <2>2, <2>3
<1>4. AllCarried' /\ PendingInv'
  BY <1>1, <1>3 DEF AllCarried, WakeInv, PendingInv
<1>5. MadeInv' /\ MarkInv'
  BY <1>0, <1>1, <1>2 DEF WakeInv, MadeInv, MarkInv, Pushers
<1> QED
  BY <1>4, <1>5 DEF WakeInv

\* The second look finds the nodes if the push knows of them; if it does not, it
\* was no carrier.
LEMMA RelookKeepsWakes ==
  ASSUME TypeOK, WakeInv, NEW t \in Agents, EarlyRelook(t)
  PROVE  WakeInv'
<1>0. t \in Pushers /\ t # "poll"
  BY DEF Pushers
<1>1. /\ pc[t] = "relook" /\ (pc' = [pc EXCEPT ![t] = "claim"] \/ pc' = [pc EXCEPT ![t] = "unpark"])
      /\ Made \in knows[t] => pc' = [pc EXCEPT ![t] = "claim"]
      /\ UNCHANGED <<nodes, state, atEarly, atHead, atState, id, knows, cpc, cur, fill, slot, issued,
                     pending>>
  BY <1>0 DEF EarlyRelook, MayFind, Finds, Pushed, Goto, stackVars, loopVars, nodeVars, wakeVars,
     WakeInv, MadeInv
<1>2. AllCarried'
  <2> SUFFICES ASSUME NEW i \in Ids, NEW k \in pending[i] PROVE Carried(i, k)'
    BY <1>1 DEF AllCarried
  <2>1. Carried(i, k)
    BY DEF WakeInv, AllCarried
  <2> QED BY <1>0, <1>1, <2>1 DEF Carried, TypeOK
<1>3. MadeInv' /\ PendingInv'
  BY <1>1 DEF WakeInv, MadeInv, PendingInv
<1>4. MarkInv'
  BY <1>0, <1>1 DEF WakeInv, MarkInv, TypeOK, Pushers
<1> QED
  BY <1>2, <1>3, <1>4 DEF WakeInv

\* The claim leaves the wake at the node, queued from now on.
LEMMA ClaimKeepsWakes ==
  ASSUME TypeOK, WakeInv, NEW t \in Pushers, Claim(t)
  PROVE  WakeInv'
<1> DEFINE j == id[t]
<1>1. /\ knows' = [knows EXCEPT ![t] = @ \cup atState[j]] /\ pc[t] = "claim"
      /\ atState' = [atState EXCEPT ![j] = @ \cup knows[t]]
      /\ state' = [state EXCEPT ![j] = "Queued"]
      /\ \E step \in {"idle", "unpark", "load"} : pc' = [pc EXCEPT ![t] = step]
      /\ UNCHANGED <<nodes, atEarly, atHead, id, cpc, cur, fill, slot, issued, pending>>
  BY DEF Claim, Released, Pushed, Goto, loopVars, nodeVars, wakeVars
<1>2. /\ j \in Ids /\ state'[j] = "Queued" /\ atState'[j] = atState[j] \cup knows[t]
      /\ knows'[t] = knows[t] \cup atState[j] /\ "poll" \in Pushers
  BY <1>1 DEF TypeOK, Pushers
<1>3. \A u \in Pushers : u # t => knows'[u] = knows[u] /\ pc'[u] = pc[u]
  BY <1>1 DEF TypeOK
<1>4. \A i \in Ids : i # j => state'[i] = state[i] /\ atState'[i] = atState[i]
  BY <1>1 DEF TypeOK
<1>5. AllCarried'
  <2> SUFFICES ASSUME NEW i \in Ids, NEW k \in pending[i] PROVE Carried(i, k)'
    BY <1>1 DEF AllCarried
  <2>1. Carried(i, k)
    BY DEF WakeInv, AllCarried
  <2>2. CASE i = j /\ k \in knows[t]
    BY <1>2, <2>2 DEF Carried
  <2>3. CASE ~(i = j /\ k \in knows[t])
    BY <1>1, <1>2, <1>3, <1>4, <2>1, <2>3 DEF Carried
  <2> QED BY <2>2, <2>3
<1>6. MadeInv'
  BY <1>1, <1>2, <1>3, <1>4 DEF WakeInv, MadeInv
<1>7. PendingInv'
  BY <1>1 DEF WakeInv, PendingInv
<1>8. MarkInv'
  BY <1>1, <1>3 DEF WakeInv, MarkInv, TypeOK, Pushers
<1> QED
  BY <1>5, <1>6, <1>7, <1>8 DEF WakeInv

LEMMA PublishKeepsWakes ==
  ASSUME TypeOK, WakeInv, NEW t \in Pushers, LoadTop(t) \/ PublishCas(t)
  PROVE  WakeInv'
<1>1. /\ pc[t] \in {"load", "cas"}
      /\ \E step \in {"idle", "unpark", "cas"} : pc' = [pc EXCEPT ![t] = step]
      /\ UNCHANGED <<nodes, state, atEarly, atState, id, knows, cpc, cur, fill, slot, issued, pending>>
      /\ atHead' \in {atHead, atHead \cup knows[t]}
  <2>1. pc = [pc EXCEPT ![t] = pc[t]]
    BY DEF TypeOK
  <2> QED
    BY <2>1 DEF LoadTop, PublishCas, Released, Pushed, Goto, loopVars, nodeVars, wakeVars
<1>2. AllCarried'
  <2> SUFFICES ASSUME NEW i \in Ids, NEW k \in pending[i] PROVE Carried(i, k)'
    BY <1>1 DEF AllCarried
  <2>1. Carried(i, k)
    BY DEF WakeInv, AllCarried
  <2> QED BY <1>1, <2>1 DEF Carried, TypeOK
<1>3. MadeInv' /\ PendingInv'
  BY <1>1 DEF WakeInv, MadeInv, PendingInv
<1>4. MarkInv'
  BY <1>1 DEF WakeInv, MarkInv, TypeOK, Pushers
<1> QED
  BY <1>2, <1>3, <1>4 DEF WakeInv

-----------------------------------------------------------------------------
(* The steps of the poll thread.                                            *)

\* The swap acquires every mark: from here on the thread carries those wakes.
LEMMA InitKeepsWakes ==
  ASSUME TypeOK, ControlInv, WakeInv, InitNodes \/ BuildFails \/ InitSwap
  PROVE  WakeInv'
<1>0. "poll" \in Pushers /\ \A t \in Agents : t \in Pushers /\ t # "poll"
  BY DEF Pushers
<1>1. CASE InitNodes
  <2>1. /\ cpc = "init" /\ cpc' = "swap" /\ nodes'
        /\ knows' = [knows EXCEPT !["poll"] = @ \cup {Made}]
        /\ UNCHANGED <<state, atEarly, atHead, atState, pc, id, cur, fill, slot, issued, pending>>
    BY <1>1 DEF InitNodes, Here, pushVars, nodeVars, wakeVars
  <2>2. \A u \in Pushers : knows[u] \subseteq knows'[u] /\ (u # "poll" => knows'[u] = knows[u])
    BY <2>1 DEF TypeOK
  <2>3. AllCarried'
    BY <1>0, <2>1, <2>2 DEF WakeInv, AllCarried, Carried
  <2>4. MadeInv' /\ MarkInv' /\ PendingInv'
    BY <1>0, <2>1, <2>2 DEF WakeInv, MadeInv, MarkInv, PendingInv, TypeOK
  <2> QED BY <2>3, <2>4 DEF WakeInv
<1>2. CASE BuildFails
  <2>1. /\ cpc' = "exit" /\ (\A i \in Ids : pending'[i] = {} /\ ~slot'[i])
        /\ UNCHANGED <<nodes, atEarly, atHead, atState, pc, knows, issued>>
        /\ cpc = "init"
    BY <1>2 DEF BuildFails, Here, stackVars, pushVars
  <2>2. AllCarried' /\ MarkInv' /\ PendingInv'
    BY <2>1 DEF WakeInv, AllCarried, MarkInv, PendingInv
  <2>3. ~nodes
    BY <2>1 DEF WakeInv, PendingInv
  <2> QED BY <2>1, <2>2, <2>3 DEF WakeInv, MadeInv
<1>3. CASE InitSwap
  <2>1. /\ cpc = "swap" /\ cpc' = "fill" /\ fill = N
        /\ knows' = [knows EXCEPT !["poll"] = @ \cup atEarly]
        /\ atEarly' = atEarly \cup knows["poll"]
        /\ UNCHANGED <<nodes, state, atHead, atState, pc, id, cur, fill, slot, issued, pending>>
    BY <1>3 DEF InitSwap, Here, Released, ControlInv, pushVars, nodeVars, wakeVars
  <2>2. /\ knows'["poll"] = knows["poll"] \cup atEarly
        /\ \A u \in Pushers : u # "poll" => knows'[u] = knows[u]
    BY <1>0, <2>1 DEF TypeOK
  <2>3. \A i \in Ids : i < fill
    BY <2>1 DEF Ids
  <2>4. AllCarried'
    BY <1>0, <2>1, <2>2, <2>3 DEF WakeInv, AllCarried, Carried
  <2>5. MadeInv' /\ MarkInv' /\ PendingInv'
    BY <1>0, <2>1, <2>2 DEF WakeInv, MadeInv, MarkInv, PendingInv
  <2> QED BY <2>4, <2>5 DEF WakeInv
<1> QED
  BY <1>1, <1>2, <1>3

\* Steps that leave the wakes, and what carries them, alone.
LEMMA QuietKeepsWakes ==
  ASSUME TypeOK, WakeInv,
         UNCHANGED <<nodes, state, atEarly, atState, pc, id, knows, cur, fill, slot, issued, pending>>,
         atHead' = atHead,
         cpc' # cpc => /\ cpc \notin {"init", "swap", "poll"} /\ cpc' \notin {"init", "swap"}
                       /\ cpc = "fill" => fill = 0
  PROVE  WakeInv'
<1>1. \A i \in Ids : ~(i < 0)
  BY DEF Ids
<1>2. AllCarried'
  <2> SUFFICES ASSUME NEW i \in Ids, NEW k \in pending[i] PROVE Carried(i, k)'
    BY DEF AllCarried
  <2>1. Carried(i, k)
    BY DEF WakeInv, AllCarried
  <2> QED BY <1>1, <2>1 DEF Carried
<1> QED
  BY <1>2 DEF WakeInv, MadeInv, MarkInv, PendingInv

\* The poll thread starts a push of its own, for init or for a timer: of the ids
\* init has still to push, that node's wakes go with it.
LEMMA OwnPushKeepsWakes ==
  ASSUME TypeOK, WakeInv, pc["poll"] = "idle", NEW i \in Ids,
         pc' = [pc EXCEPT !["poll"] = "claim"], id' = [id EXCEPT !["poll"] = i],
         UNCHANGED <<nodes, state, atEarly, atHead, atState, knows, cpc, cur, slot, issued, pending>>,
         fill' = fill \/ (cpc = "fill" /\ fill' = fill - 1 /\ i = fill')
  PROVE  WakeInv'
<1>0. "poll" \in Pushers /\ \A t \in Agents : t \in Pushers /\ t # "poll"
  BY DEF Pushers, SchedulerAssumption
<1>1. /\ pc'["poll"] = "claim" /\ id'["poll"] = i
      /\ \A t \in Pushers : t # "poll" => pc'[t] = pc[t] /\ id'[t] = id[t]
  BY <1>0 DEF TypeOK
<1>2. AllCarried'
  <2> SUFFICES ASSUME NEW j \in Ids, NEW k \in pending[j] PROVE Carried(j, k)'
    BY DEF AllCarried
  <2>1. Carried(j, k)
    BY DEF WakeInv, AllCarried
  <2>2. fill \in Nat /\ j \in Nat
    BY DEF TypeOK, Ids
  <2> QED BY <1>0, <1>1, <2>1, <2>2 DEF Carried
<1> QED
  BY <1>0, <1>1, <1>2 DEF WakeInv, MadeInv, MarkInv, PendingInv

\* The release acquires what the node's claims left, for the poll that follows.
LEMMA ReleaseKeepsWakes ==
  ASSUME TypeOK, ControlInv, WakeInv, ReleaseNode
  PROVE  WakeInv'
<1>0. "poll" \in Pushers /\ \A t \in Agents : t \in Pushers /\ t # "poll"
  BY DEF Pushers
<1>1. /\ cpc = "release" /\ cpc' = "poll" /\ cur' = batch /\ batch \in Ids
      /\ state' = [state EXCEPT ![batch] = "Idle"]
      /\ knows' = [knows EXCEPT !["poll"] = @ \cup atState[batch]]
      /\ atState' = [atState EXCEPT ![batch] = @ \cup knows["poll"]]
      /\ UNCHANGED <<nodes, atEarly, atHead, pc, id, fill, slot, issued, pending>>
  BY DEF ReleaseNode, Here, Released, ControlInv, TypeOK, Links, pushVars, nodeVars, wakeVars
<1>2. /\ knows'["poll"] = knows["poll"] \cup atState[batch]
      /\ \A t \in Pushers : t # "poll" => knows'[t] = knows[t]
  BY <1>0, <1>1 DEF TypeOK
<1>3. /\ atState'[batch] = atState[batch] \cup knows["poll"]
      /\ \A i \in Ids : i # batch => atState'[i] = atState[i] /\ state'[i] = state[i]
  BY <1>1 DEF TypeOK
<1>4. AllCarried'
  <2> SUFFICES ASSUME NEW i \in Ids, NEW k \in pending[i] PROVE Carried(i, k)'
    BY <1>1 DEF AllCarried
  <2>1. Carried(i, k)
    BY DEF WakeInv, AllCarried
  <2>2. CASE i = batch /\ k \in atState[i]
    BY <1>1, <1>2, <2>2 DEF Carried
  <2>3. CASE ~(i = batch /\ k \in atState[i])
    BY <1>0, <1>1, <1>2, <1>3, <2>1, <2>3 DEF Carried
  <2> QED BY <2>2, <2>3
<1>5. MadeInv' /\ MarkInv' /\ PendingInv'
  BY <1>0, <1>1, <1>2, <1>3 DEF WakeInv, MadeInv, MarkInv, PendingInv
<1> QED
  BY <1>4, <1>5 DEF WakeInv

\* The take acquires what the pushes of the batch released.
LEMMA TakeKeepsWakes ==
  ASSUME TypeOK, WakeInv, Take
  PROVE  WakeInv'
<1>0. "poll" \in Pushers /\ \A t \in Agents : t \in Pushers /\ t # "poll"
  BY DEF Pushers
<1>1. /\ cpc = "expire" /\ cpc' \in {"park", "walk"}
      /\ knows' = [knows EXCEPT !["poll"] = @ \cup atHead]
      /\ UNCHANGED <<nodes, state, atEarly, atHead, atState, pc, id, cur, fill, slot, issued, pending>>
  BY DEF Take, Here, pushVars, nodeVars, wakeVars
<1>2. /\ knows'["poll"] = knows["poll"] \cup atHead
      /\ \A t \in Pushers : t # "poll" => knows'[t] = knows[t]
  BY <1>0, <1>1 DEF TypeOK
<1>3. AllCarried'
  BY <1>0, <1>1, <1>2 DEF WakeInv, AllCarried, Carried
<1>4. MadeInv' /\ MarkInv' /\ PendingInv'
  BY <1>0, <1>1, <1>2 DEF WakeInv, MadeInv, MarkInv, PendingInv
<1> QED
  BY <1>3, <1>4 DEF WakeInv

\* Tokens of wakes that were served, or that their node no longer needs, are
\* forgotten everywhere: no other node is owed them, and none is the nodes' making.
LEMMA ForgetKeepsWakes ==
  ASSUME TypeOK, WakeInv, NEW i \in Ids, NEW S \in SUBSET pending[i], Forget(S),
         pending' = [pending EXCEPT ![i] = @ \ S],
         cpc \in {"poll", "polling"}, cpc' \in {"polling", "walk", "exit"},
         cpc = "poll" => cur = i /\ pending[i] \cap knows["poll"] \subseteq S,
         slot' = slot \/ (slot' = [slot EXCEPT ![i] = FALSE] /\ S = pending[i]),
         UNCHANGED <<nodes, state, pc, id, cur, fill, issued>>
  PROVE  WakeInv'
<1>0. "poll" \in Pushers /\ \A t \in Agents : t \in Pushers /\ t # "poll"
  BY DEF Pushers
<1>1. S \subseteq Tokens /\ Made \notin S
  BY MadeIsNoToken DEF TypeOK
<1>2. /\ \A t \in Pushers : knows'[t] = knows[t] \ S
      /\ \A j \in Ids : atState'[j] = atState[j] \ S
      /\ atEarly' = atEarly \ S /\ atHead' = atHead \ S
  BY DEF Forget
<1>3. /\ \A j \in Ids : pending'[j] = pending[j] \ S
      /\ \A j \in Ids : j # i => pending'[j] = pending[j]
  BY DEF WakeInv, PendingInv, TypeOK
<1>4. ASSUME NEW j \in Ids, NEW k \in pending'[j] PROVE Carried(j, k)'
  <2>1. k \in pending[j] /\ k \notin S
    BY <1>3
  <2>2. Carried(j, k)
    BY <2>1 DEF WakeInv, AllCarried
  <2>3. ~(cpc = "poll" /\ cur = j /\ k \in knows["poll"])
    BY <2>1
  <2> QED BY <1>0, <1>1, <1>2, <2>1, <2>2, <2>3 DEF Carried
<1>5. MadeInv'
  BY <1>0, <1>1, <1>2 DEF WakeInv, MadeInv
<1>6. MarkInv'
  BY <1>0, <1>2 DEF WakeInv, MarkInv
<1>7. PendingInv'
  <2>1. \A j \in Ids : ~slot'[j] => ~slot[j] \/ (j = i /\ pending'[i] = {})
    BY <1>3 DEF TypeOK
  <2>2. \A j \in Ids : ~slot'[j] => pending'[j] = {}
    BY <1>3, <2>1 DEF WakeInv, PendingInv
  <2>3. \A j \in Ids : ~slot[j] => ~slot'[j]
    BY DEF TypeOK
  <2> QED BY <1>3, <2>2, <2>3 DEF WakeInv, PendingInv
<1> QED
  BY <1>4, <1>5, <1>6, <1>7 DEF WakeInv, AllCarried

\* A poll serves the wakes it has acquired.  One of an empty slot, or one that
\* returns, serves none that are owed.
LEMMA PollKeepsWakes ==
  ASSUME TypeOK, WakeInv, PollNode \/ PollReturns
  PROVE  WakeInv'
<1>1. /\ cur \in Ids /\ UNCHANGED <<nodes, state, pc, id, cur, fill, issued>>
      /\ pending[cur] \subseteq pending[cur] /\ Served \subseteq pending[cur]
  BY DEF PollNode, PollReturns, Served, TypeOK, pushVars
<1>2. CASE PollNode /\ slot[cur]
  <2>1. /\ cpc = "poll" /\ cpc' = "polling" /\ Forget(Served) /\ slot' = slot
        /\ pending' = [pending EXCEPT ![cur] = @ \ Served]
    BY <1>2 DEF PollNode, Here
  <2>2. pending[cur] \cap knows["poll"] \subseteq Served
    BY DEF Served
  <2> QED BY <1>1, <2>1, <2>2, ForgetKeepsWakes
<1>3. CASE PollNode /\ ~slot[cur]
  <2>1. pending[cur] = {}
    BY <1>1, <1>3 DEF WakeInv, PendingInv
  <2>2. /\ cpc = "poll" /\ cpc' = "walk"
        /\ UNCHANGED <<atEarly, atHead, atState, knows, slot, pending>>
    BY <1>3 DEF PollNode, Here
  <2>3. AllCarried'
    BY <1>1, <2>1, <2>2 DEF WakeInv, AllCarried, Carried
  <2> QED BY <1>1, <2>2, <2>3 DEF WakeInv, MadeInv, MarkInv, PendingInv
<1>4. CASE PollReturns /\ UNCHANGED slot /\ UNCHANGED <<pending, knows, atEarly, atHead, atState>>
  BY <1>1, <1>4, QuietKeepsWakes DEF PollReturns, Here
<1>5. CASE /\ PollReturns /\ slot' = [slot EXCEPT ![cur] = FALSE]
           /\ pending' = [pending EXCEPT ![cur] = {}] /\ Forget(pending[cur])
  <2>1. pending' = [pending EXCEPT ![cur] = @ \ pending[cur]]
    BY <1>1, <1>5 DEF TypeOK
  <2>2. cpc = "polling" /\ cpc' \in {"walk", "exit"}
    BY <1>5 DEF PollReturns, Here
  <2> QED BY <1>1, <1>5, <2>1, <2>2, ForgetKeepsWakes
<1> QED
  BY <1>2, <1>3, <1>4, <1>5 DEF PollReturns

LEMMA PollThreadKeepsWakes ==
  ASSUME TypeOK, ControlInv, WakeInv, ConsumerStep
  PROVE  WakeInv'
<1> USE DEF Here, stackVars, pushVars, loopVars, nodeVars, parkVars, wakeVars
<1>1. CASE InitNodes \/ BuildFails \/ InitSwap
  BY <1>1, InitKeepsWakes
<1>2. CASE Fill
  <2>1. CASE fill = 0
    BY <1>2, <2>1, QuietKeepsWakes DEF Fill
  <2>2. CASE fill # 0
    <3>1. fill - 1 \in Ids
      BY <2>2 DEF TypeOK, Ids
    <3> QED BY <1>2, <2>2, <3>1, OwnPushKeepsWakes DEF Fill, Goto
  <2> QED BY <2>1, <2>2
<1>3. CASE ReadLink
  BY <1>3, QuietKeepsWakes DEF ReadLink
<1>4. CASE ReleaseNode
  BY <1>4, ReleaseKeepsWakes
<1>5. CASE Expire
  <2>1. PICK i \in Ids : id' = [id EXCEPT !["poll"] = i] /\ Goto("poll", "claim")
    BY <1>5 DEF Expire
  <2>2. /\ pc["poll"] = "idle" /\ fill' = fill
        /\ UNCHANGED <<nodes, state, atEarly, atHead, atState, knows, cpc, cur, slot, issued, pending>>
    BY <1>5 DEF Expire
  <2>3. pc' = [pc EXCEPT !["poll"] = "claim"] /\ id' = [id EXCEPT !["poll"] = i]
    BY <2>1 DEF Goto
  <2> QED BY <2>2, <2>3, OwnPushKeepsWakes
<1>6. CASE Take
  BY <1>6, TakeKeepsWakes
<1>7. CASE ParkConsumer
  BY <1>7, QuietKeepsWakes DEF ParkConsumer
<1>8. CASE ConsumerResumes
  BY <1>8, QuietKeepsWakes DEF ConsumerResumes
<1>9. CASE PollNode \/ PollReturns
  BY <1>9, PollKeepsWakes
<1> QED
  BY <1>1, <1>2, <1>3, <1>4, <1>5, <1>6, <1>7, <1>8, <1>9 DEF ConsumerStep

LEMMA Wake1 == TypeOK /\ ControlInv /\ WakeInv /\ [Next]_vars => WakeInv'
<1> SUFFICES ASSUME TypeOK, ControlInv, WakeInv, [Next]_vars PROVE WakeInv'
  OBVIOUS
<1> USE DEF stackVars, pushVars, loopVars, nodeVars, parkVars, wakeVars
<1>1. ASSUME NEW t \in Agents, NEW i \in Ids, AgentWakes(t, i) PROVE WakeInv'
  <2>1. t \in Pushers /\ \E step \in {"early", "claim"} : pc' = [pc EXCEPT ![t] = step]
    BY <1>1 DEF AgentWakes, Goto, Pushers
  <2> QED BY <1>1, <2>1, StartPushKeepsWakes DEF AgentWakes
<1>2. ASSUME NEW t \in Agents, Unpark(t) PROVE WakeInv'
  <2> DEFINE at == pc[t]
  <2>1. t \in Pushers /\ pc[t] = "unpark" /\ pc' = [pc EXCEPT ![t] = "idle"]
    BY <1>2 DEF Unpark, Goto, Pushers
  <2>2. \A u \in Pushers : u # t => pc'[u] = pc[u]
    BY <2>1 DEF TypeOK
  <2>3. AllCarried'
    BY <1>2, <2>1, <2>2 DEF Unpark, WakeInv, AllCarried, Carried
  <2>4. \A u \in Agents : pc'[u] = "relook" => pc[u] = "relook"
    BY <2>1 DEF TypeOK, Pushers
  <2> QED BY <1>2, <2>3, <2>4 DEF Unpark, WakeInv, MadeInv, MarkInv, PendingInv
<1>3. ASSUME NEW t \in Agents, UnparkNotify(t) PROVE WakeInv'
  BY <1>3, QuietKeepsWakes DEF UnparkNotify
<1>4. ASSUME NEW t \in Agents, AgentStep(t) PROVE WakeInv'
  BY <1>1, <1>2, <1>4, MarkKeepsWakes, RelookKeepsWakes DEF AgentStep
<1>5. ASSUME NEW t \in Pushers, PushStep(t) PROVE WakeInv'
  BY <1>5, ClaimKeepsWakes, PublishKeepsWakes DEF PushStep
<1>6. ASSUME NEW i \in Ids, LocalWake(i) PROVE WakeInv'
  <2>1. "poll" \in Pushers /\ pc' = [pc EXCEPT !["poll"] = "claim"]
    BY <1>6 DEF LocalWake, Goto, Pushers
  <2> QED BY <1>6, <2>1, StartPushKeepsWakes DEF LocalWake
<1>7. ASSUME NEW i \in Ids, Tick(i) PROVE WakeInv'
  BY <1>7, QuietKeepsWakes DEF Tick
<1>8. CASE WaitBegins \/ WaitCut \/ ParkTimesOut \/ ParkEndsEarly
  BY <1>8, QuietKeepsWakes DEF WaitBegins, WaitCut, ParkTimesOut, ParkEndsEarly
<1>9. CASE Resting \/ UNCHANGED vars
  BY <1>9, QuietKeepsWakes DEF Resting, vars
<1> QED
  BY <1>3, <1>4, <1>5, <1>6, <1>7, <1>8, <1>9, PollThreadKeepsWakes DEF Next

\* No wake is lost and no poll misses its writes: every wake a live node is owed
\* travels with a push, with a queued node, with the poll about to run, or until
\* init's swap with `early` (push_early, push_onto, publish, init, next).
THEOREM WakesWillBeSeen == Spec => []WakeWillBeSeen
<1>1. WakeInv => WakeWillBeSeen
  BY DEF WakeInv, AllCarried, Carried, WakeWillBeSeen
<1>2. SchedInv /\ WakeInv /\ [Next]_vars => WakeInv'
  BY Wake1 DEF SchedInv
<1>3. QED
  BY <1>1, <1>2, Wake0, SchedInvariant, PTL DEF Spec
=============================================================================
