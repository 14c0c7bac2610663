--------------------------- MODULE PollNode_proofs ---------------------------
(***************************************************************************)
(* Proofs about PollNode, for any number of sides, edges and messages, and *)
(* any bounds and budgets.                                                 *)
(***************************************************************************)
EXTENDS PollNode, Induction_proofs, SequenceTheorems

USE NodeAssumption, RoomAssumption

-----------------------------------------------------------------------------
(* Types.  What upstream pushes is numbered; the Flush items a routine puts  *)
(* into its own queues are not.  Behind the Inputs only data travels.        *)

Pushed == [kind : {"data", "flush", "marker"}, from : Inputs, nth : Nat \ {0}]
Data(i) == [kind : {"data"}, from : {i}, nth : Nat \ {0}]
AnyData == [kind : {"data"}, from : Inputs, nth : Nat \ {0}]
Item == [kind : {"data", "flush"}, from : Inputs, nth : Nat]

RoutineTypes ==
  /\ iq \in [Inputs -> Seq(Item)]
  /\ \A i \in Inputs : iq[i] \in Seq(Data(i) \cup {FlushItem(i)})
  /\ sawFlush \in [Inputs -> BOOLEAN] /\ refused \in [Inputs -> BOOLEAN]
  /\ recvParked \in [Inputs -> BOOLEAN]
  /\ oq \in Seq(AnyData) /\ armed \in BOOLEAN /\ sendParked \in BOOLEAN
  /\ fut \in {"recv", "io", "send"}
  /\ hand \in Seq(AnyData) /\ Len(hand) <= 1 /\ (fut = "recv") = (hand = <<>>)

InletTypes ==
  /\ open \in [Inputs -> BOOLEAN] /\ inClosed \in [Inputs -> BOOLEAN]
  /\ held \in [Inputs -> Seq(AnyData)]
  /\ \A i \in Inputs : held[i] \in Seq(Data(i)) /\ Len(held[i]) <= 1
  /\ sent \in [Inputs -> Seq(Pushed)]
  /\ \A i \in Inputs : \A k \in 1 .. Len(sent[i]) : sent[i][k].from = i /\ sent[i][k].nth = k
  /\ read \in [Inputs -> Nat] /\ \A i \in Inputs : read[i] <= Len(sent[i])

EdgeTypes ==
  /\ delivered \in [Edges -> Seq(Pushed)] /\ taken \in [Edges -> Nat]
  /\ edge \in [Edges -> {"open", "tx", "rx"}] /\ owesPop \in [Edges -> BOOLEAN]
  /\ suspended \in Seq([at : Edges, msg : Pushed]) /\ Len(suspended) <= 1

PhaseTypes ==
  /\ state \in States /\ signal \in Seq(Pushed) /\ Len(signal) <= 1
  /\ woken \subseteq Phases /\ gone \subseteq Phases
  /\ pc \in [phase : Phases \cup {"none", "fail", "close", "fatal"}, left : 0 .. Budget]

Types == RoutineTypes /\ InletTypes /\ EdgeTypes /\ PhaseTypes

LEMMA Types0 == Init => Types
<1> SUFFICES ASSUME Init PROVE Types
  OBVIOUS
<1>1. /\ iq = [i \in Inputs |-> <<>>] /\ sawFlush = [i \in Inputs |-> FALSE]
      /\ refused = [i \in Inputs |-> FALSE] /\ recvParked = [i \in Inputs |-> FALSE]
      /\ oq = <<>> /\ armed = TRUE /\ sendParked = FALSE /\ fut = "recv" /\ hand = <<>>
  BY DEF Init, RoutineInit
<1>2. RoutineTypes
  <2>1. \A S : <<>> \in Seq(S)
    OBVIOUS
  <2>2. iq \in [Inputs -> Seq(Item)] /\ \A i \in Inputs : iq[i] \in Seq(Data(i) \cup {FlushItem(i)})
    BY <1>1, <2>1
  <2>3. hand \in Seq(AnyData) /\ Len(hand) <= 1 /\ (fut = "recv") = (hand = <<>>) /\ oq \in Seq(AnyData)
    BY <1>1, <2>1
  <2> QED BY <1>1, <2>2, <2>3 DEF RoutineTypes
<1>3. InletTypes
  BY DEF Init, InletTypes
<1>4. EdgeTypes
  BY DEF Init, EdgeTypes
<1>5. PhaseTypes
  BY DEF Init, PhaseTypes, States, Idle
<1> QED
  BY <1>2, <1>3, <1>4, <1>5 DEF Types

LEMMA Kinds ==
  /\ \A i \in Inputs : Data(i) \subseteq AnyData /\ FlushItem(i) \in Item /\ FlushItem(i) \notin AnyData
  /\ AnyData \subseteq Item /\ AnyData \subseteq Pushed
  /\ \A i \in Inputs : Data(i) \cup {FlushItem(i)} \subseteq Item
BY DEF Data, AnyData, Item, Pushed, FlushItem

\* A sequence that is not empty is its first element and the rest.
LEMMA FirstAndRest ==
  ASSUME NEW S, NEW q \in Seq(S), q # <<>>
  PROVE  /\ Len(q) \in Nat \ {0} /\ Head(q) = q[1] /\ q[1] \in S
         /\ Tail(q) \in Seq(S) /\ Len(Tail(q)) = Len(q) - 1
         /\ \A k \in 1 .. Len(q) - 1 : Tail(q)[k] = q[k + 1]
         /\ q = <<q[1]>> \o Tail(q)
<1>1. Len(q) \in Nat \ {0}
  OBVIOUS
<1> QED
  BY <1>1

LEMMA OnlyElement ==
  ASSUME NEW S, NEW q \in Seq(S), q # <<>>, Len(q) <= 1
  PROVE  Len(q) = 1 /\ q[1] \in S /\ q = <<q[1]>>
<1>1. Len(q) \in Nat \ {0}
  OBVIOUS
<1> DEFINE n == Len(q)
<1>2. n \in Nat \ {0} /\ n <= 1
  BY <1>1
<1> HIDE DEF n
<1>4. n = 1
  BY <1>2
<1>5. Len(q) = 1
  BY <1>4 DEF n
<1>3. q[1] \in S /\ q = [k \in 1 .. 1 |-> q[k]]
  BY <1>5
<1> QED
  BY <1>5, <1>3

\* What the calls of the node do to the routine.
LEMMA RoutineSends ==
  ASSUME RoutineTypes, NEW i \in Inputs, NEW m \in Data(i), TrySend(i, m)
  PROVE  RoutineTypes'
<1>1. iq' = [iq EXCEPT ![i] = Append(@, m)] /\ m \in Item
  BY Kinds DEF TrySend
<1>2. iq' \in [Inputs -> Seq(Item)]
  BY <1>1 DEF RoutineTypes
<1>3. \A j \in Inputs : iq'[j] \in Seq(Data(j) \cup {FlushItem(j)})
  BY <1>1 DEF RoutineTypes
<1> QED
  BY <1>2, <1>3 DEF RoutineTypes, TrySend

LEMMA RoutineFlushes ==
  ASSUME RoutineTypes, Flush
  PROVE  RoutineTypes'
<1>1. iq' = [i \in Inputs |-> Append(iq[i], FlushItem(i))]
  BY DEF Flush
<1>2. iq' \in [Inputs -> Seq(Item)]
  BY <1>1, Kinds DEF RoutineTypes
<1>3. \A j \in Inputs : iq'[j] \in Seq(Data(j) \cup {FlushItem(j)})
  BY <1>1 DEF RoutineTypes
<1> QED
  BY <1>2, <1>3 DEF RoutineTypes, Flush

LEMMA RoutineTakes ==
  ASSUME RoutineTypes, NEW i \in Inputs, FutureTakes(i)
  PROVE  RoutineTypes'
<1>1. iq' = [iq EXCEPT ![i] = Tail(@)] /\ iq[i] # <<>> /\ fut = "recv"
  BY DEF FutureTakes
<1>2. iq' \in [Inputs -> Seq(Item)]
  BY <1>1 DEF RoutineTypes
<1>3. \A j \in Inputs : iq'[j] \in Seq(Data(j) \cup {FlushItem(j)})
  BY <1>1 DEF RoutineTypes
<1>4. /\ fut' \in {"recv", "io", "send"}
      /\ hand' \in Seq(AnyData) /\ Len(hand') <= 1 /\ (fut' = "recv") = (hand' = <<>>)
      /\ sawFlush' \in [Inputs -> BOOLEAN]
  <2>1. CASE Head(iq[i]).kind = "flush"
    <3>1. /\ sawFlush' = [sawFlush EXCEPT ![i] = TRUE] /\ UNCHANGED <<fut, hand>>
      BY <2>1 DEF FutureTakes
    <3> QED BY <3>1 DEF RoutineTypes
  <2>2. CASE Head(iq[i]).kind # "flush"
    <3>0. iq[i] \in Seq(Data(i) \cup {FlushItem(i)}) /\ Len(iq[i]) \in Nat \ {0}
      BY <1>1 DEF RoutineTypes
    <3>1. Head(iq[i]) \in Data(i) \/ Head(iq[i]) = FlushItem(i)
      BY <3>0
    <3>2. Head(iq[i]) \in AnyData
      BY <2>2, <3>1, Kinds DEF FlushItem
    <3>3. hand' = <<Head(iq[i])>> /\ fut' \in {"io", "send"} /\ UNCHANGED sawFlush
      BY <2>2 DEF FutureTakes
    <3> QED BY <3>2, <3>3 DEF RoutineTypes
  <2> QED BY <2>1, <2>2
<1> QED
  BY <1>2, <1>3, <1>4 DEF RoutineTypes, FutureTakes

LEMMA RoutineMoves ==
  ASSUME RoutineTypes,
         \/ Pop \/ PopNothing \/ FutureSends \/ FutureParks \/ Renew \/ IoDone
         \/ UNCHANGED routineVars \/ \E i \in Inputs : Refuse(i)
  PROVE  RoutineTypes'
<1>1. CASE Pop
  <2>1. oq' \in Seq(AnyData)
    BY <1>1 DEF Pop, RoutineTypes
  <2> QED BY <1>1, <2>1 DEF Pop, RoutineTypes
<1>2. CASE PopNothing
  BY <1>2 DEF PopNothing, RoutineTypes
<1>3. CASE FutureSends
  <2>1. hand # <<>> /\ hand[1] \in AnyData
    BY <1>3 DEF FutureSends, RoutineTypes
  <2>2. oq' \in Seq(AnyData)
    BY <1>3, <2>1 DEF FutureSends, RoutineTypes
  <2>3. hand' \in Seq(AnyData) /\ Len(hand') <= 1 /\ hand' = <<>> /\ fut' = "recv"
    BY <1>3 DEF FutureSends
  <2> QED BY <1>3, <2>2, <2>3 DEF FutureSends, RoutineTypes
<1>4. CASE FutureParks
  BY <1>4 DEF FutureParks, RoutineTypes, routineVars
<1>5. CASE Renew
  <2>1. iq' \in [Inputs -> Seq(Item)] /\ \A i \in Inputs : iq'[i] \in Seq(Data(i) \cup {FlushItem(i)})
    <3>1. \A S : <<>> \in Seq(S)
      OBVIOUS
    <3> QED BY <1>5, <3>1 DEF Renew
  <2> QED BY <1>5, <2>1 DEF Renew, RoutineTypes
<1>6. CASE IoDone
  BY <1>6 DEF IoDone, RoutineTypes
<1>7. CASE UNCHANGED routineVars
  BY <1>7 DEF routineVars, RoutineTypes
<1>8. ASSUME NEW i \in Inputs, Refuse(i) PROVE RoutineTypes'
  BY <1>8 DEF Refuse, RoutineTypes
<1> QED
  BY <1>1, <1>2, <1>3, <1>4, <1>5, <1>6, <1>7, <1>8

-----------------------------------------------------------------------------
(* Where a poll can be, given the node's state.                              *)

PhaseInv ==
  /\ \A i \in Inputs : pc.phase = i => state = "Running" /\ held[i] = <<>> /\ open[i]
  /\ \A i \in Inputs : ~open[i] => held[i] = <<>>
  /\ pc.phase = "work" => state \in {"Running", "Flushing", "MarkerReady"}
  /\ pc.phase \in {"output", "fail"} => state # "Closed"
  /\ pc.phase = "close" => state = "CloseReady"
  /\ state = "Closed" => pc.phase = "none"
  /\ ("output" \in gone) = (state = "Closed")
  /\ woken \cap gone = {}
  /\ (signal = <<>>) = (state \notin {"Flushing", "FlushReady", "MarkerReady"})

LEMMA Phase0 == Init => PhaseInv
<1> SUFFICES ASSUME Init PROVE PhaseInv
  OBVIOUS
<1>1. /\ pc.phase = "none" /\ state = "Running" /\ gone = {} /\ signal = <<>>
      /\ \A i \in Inputs : open[i] /\ i # "none"
  BY DEF Init, Idle
<1> QED
  BY <1>1 DEF PhaseInv

LEMMA Names ==
  /\ \A i \in Inputs : i \in Phases /\ i # "work" /\ i # "output" /\ i # "none" /\ i # "fail"
                       /\ i # "close" /\ i # "fatal"
  /\ "work" \in Phases /\ "output" \in Phases
BY DEF Phases

\* Wakes reach phases that are still there.
LEMMA WokenAreThere ==
  ASSUME PhaseTypes, PhaseInv, NEW S \in SUBSET Phases
  PROVE  /\ woken \cup (S \ gone) \subseteq Phases
         /\ (woken \cup (S \ gone)) \cap gone = {}
BY DEF PhaseTypes, PhaseInv

\* The edges' far ends.
LEMMA OutsideKeepsPhase ==
  ASSUME Types, PhaseInv,
         \/ \E i \in Inputs : Upstream(i) \/ UpstreamCloses(i)
         \/ \E e \in Edges : Downstream(e) \/ DownstreamCloses(e)
         \/ Io \/ UNCHANGED vars
  PROVE  PhaseTypes' /\ PhaseInv'
<1>1. UNCHANGED <<state, signal, open, held, gone, pc>>
  BY DEF Upstream, UpstreamCloses, Downstream, DownstreamCloses, Io, vars, nodeVars
<1>2. woken' = woken \/ \E S \in SUBSET Phases : woken' = woken \cup (S \ gone)
  BY Names DEF Upstream, UpstreamCloses, Downstream, DownstreamCloses, Io, vars, nodeVars, Wake
<1>3. woken' \subseteq Phases /\ woken' \cap gone = {}
  BY <1>2 DEF Types, PhaseTypes, PhaseInv
<1> QED
  BY <1>1, <1>3 DEF Types, PhaseTypes, PhaseInv

\* A poll that finds the node closed, or waits for Output.
LEMMA LeaveKeepsPhase ==
  ASSUME Types, PhaseInv, NEW p \in Phases, LeaveClosed(p) \/ Swallow(p)
  PROVE  PhaseTypes' /\ PhaseInv'
<1>1. CASE LeaveClosed(p)
  <2>1. /\ pc.phase = "none" /\ pc' = Idle /\ gone' = gone \cup {p} /\ woken' = woken \ {p}
        /\ state \in {"CloseReady", "Closed"} /\ (p = "output" => state = "Closed")
        /\ UNCHANGED <<state, signal, open>>
        /\ held' = [i \in Inputs |-> IF i = p THEN <<>> ELSE held[i]]
    BY <1>1 DEF LeaveClosed, Begin, DropPhase, Stop, Idle
  <2>2. PhaseTypes'
    BY <2>1 DEF Types, PhaseTypes, Idle
  <2>3. pc'.phase = "none"
    BY <2>1 DEF Idle
  <2> QED BY <2>1, <2>2, <2>3, Names DEF Types, PhaseTypes, PhaseInv
<1>2. CASE Swallow(p)
  <2>1. woken' = woken \ {p} /\ UNCHANGED <<state, signal, open, held, gone, pc>>
    BY <1>2 DEF Swallow, nodeVars
  <2> QED BY <2>1 DEF Types, PhaseTypes, PhaseInv
<1> QED
  BY <1>1, <1>2

LEMMA InputKeepsPhase ==
  ASSUME Types, PhaseInv, NEW i \in Inputs,
         \/ InputBegins(i) \/ InputData(i) \/ InputFlush(i) \/ InputMarker(i)
         \/ InputEmpty(i) \/ InputCloses(i) \/ InputYields(i)
  PROVE  PhaseTypes' /\ PhaseInv'
<1>0. /\ i \in Phases /\ i # "work" /\ i # "output" /\ i # "none" /\ i # "fail" /\ i # "close"
      /\ Budget \in 0 .. Budget
  BY Names
<1>1. CASE InputBegins(i)
  <2>1. /\ state = "Running" /\ UNCHANGED <<state, signal, open, gone>> /\ pc = Idle
        /\ \E S \in SUBSET Phases : woken' = (woken \ {i}) \cup (S \ gone)
    BY <1>1, <1>0, Names DEF InputBegins, Begin, Drains, SendWakes, WorkIf
  <2>2. /\ pc' \in {Idle, [phase |-> i, left |-> Budget]}
        /\ pc'.phase = i => held'[i] = <<>> /\ open'[i]
    <3>1. CASE held[i] # <<>> /\ ~HasRoom(i) /\ UNCHANGED <<held, pc>>
      BY <1>0, <1>1, <3>1 DEF InputBegins, Begin, Idle
    <3>2. CASE held' = [held EXCEPT ![i] = <<>>] /\ pc' = [phase |-> i, left |-> Budget]
               /\ held[i] # <<>>
      BY <1>1, <3>2 DEF InputBegins, Types, InletTypes, PhaseInv
    <3>3. CASE held[i] = <<>> /\ pc' = IF open[i] THEN [phase |-> i, left |-> Budget] ELSE Idle
      BY <1>0, <1>1, <3>3 DEF InputBegins, Idle
    <3> QED BY <1>1, <3>1, <3>2, <3>3 DEF InputBegins
  <2>3. \A j \in Inputs : ~open[j] => held'[j] = <<>>
    <3>1. held' = held \/ held' = [held EXCEPT ![i] = <<>>]
      BY <1>1 DEF InputBegins
    <3> QED BY <3>1 DEF Types, InletTypes, PhaseInv
  <2> QED BY <1>0, <2>1, <2>2, <2>3 DEF Types, PhaseTypes, PhaseInv, Idle
<1>2. CASE InputData(i)
  <2>1. /\ pc.phase = i /\ pc.left > 0 /\ UNCHANGED <<state, signal, open, gone>>
        /\ \/ pc' = [pc EXCEPT !.left = @ - 1] /\ UNCHANGED held
           \/ /\ pc' = Idle
              /\ \E m : held' = [held EXCEPT ![i] = m]
        /\ woken' = woken \/ \E S \in SUBSET Phases : woken' = woken \cup (S \ gone)
    BY <1>2, Names DEF InputData, Feeding, Stop, Wake, SendWakes, WorkIf
  <2>2. woken' \subseteq Phases /\ woken' \cap gone = {}
    BY <2>1 DEF Types, PhaseTypes, PhaseInv
  <2>3. CASE pc' = [pc EXCEPT !.left = @ - 1] /\ UNCHANGED held
    <3>1. pc'.phase = pc.phase /\ pc' \in [phase : Phases \cup {"none", "fail", "close", "fatal"}, left : 0 .. Budget]
      BY <2>1, <2>3 DEF Types, PhaseTypes
    <3> QED BY <2>1, <2>2, <2>3, <3>1 DEF Types, PhaseTypes, PhaseInv
  <2>4. CASE pc' = Idle /\ \E m : held' = [held EXCEPT ![i] = m]
    <3>1. \A j \in Inputs : ~open[j] => j # i /\ held'[j] = held[j]
      BY <2>1, <2>4 DEF Types, InletTypes, PhaseInv
    <3> QED BY <1>0, <2>1, <2>2, <2>4, <3>1, Names DEF Types, PhaseTypes, PhaseInv, Idle
  <2> QED BY <2>1, <2>3, <2>4
<1>3. CASE InputFlush(i) \/ InputMarker(i)
  <2>1. /\ pc.phase = i /\ pc' = Idle /\ UNCHANGED <<open, held, gone>>
        /\ state' \in {"Flushing", "MarkerReady"} /\ signal' = <<NextIn(i)>>
        /\ \E S \in SUBSET Phases : woken' = woken \cup (S \ gone)
    BY <1>3, Names DEF InputFlush, InputMarker, Feeding, Stop, Wake, FlushWakes, WorkIf
  <2>2. NextIn(i) \in Pushed
    BY <1>3 DEF InputFlush, InputMarker, NextIn, HasNext, Types, InletTypes
  <2>3. signal' \in Seq(Pushed) /\ Len(signal') <= 1 /\ signal' # <<>>
    BY <2>1, <2>2
  <2>4. woken' \subseteq Phases /\ woken' \cap gone = {}
    BY <2>1 DEF Types, PhaseTypes, PhaseInv
  <2>5. state # "Closed"
    BY <1>0, <2>1 DEF PhaseInv
  <2> QED BY <1>0, <2>1, <2>3, <2>4, <2>5, Names DEF Types, PhaseTypes, PhaseInv, Idle, States
<1>4. CASE InputEmpty(i) \/ InputYields(i)
  <2>1. /\ pc.phase = i /\ pc' = Idle /\ UNCHANGED <<state, signal, open, held, gone>>
        /\ woken' = woken \/ \E S \in SUBSET Phases : woken' = woken \cup (S \ gone)
    BY <1>4, <1>0 DEF InputEmpty, InputYields, Feeding, Stop, Wake, nodeVars
  <2>2. woken' \subseteq Phases /\ woken' \cap gone = {}
    BY <2>1 DEF Types, PhaseTypes, PhaseInv
  <2> QED BY <1>0, <2>1, <2>2, Names DEF Types, PhaseTypes, PhaseInv, Idle
<1>5. CASE InputCloses(i)
  <2>1. /\ pc.phase = i /\ pc' = Idle /\ UNCHANGED <<signal, held>>
        /\ open' = [open EXCEPT ![i] = FALSE]
        /\ \/ state' = "CloseReady" /\ gone' = gone \cup {i}
              /\ woken' = (woken \cup (Phases \ gone)) \ {i}
           \/ UNCHANGED <<state, woken, gone>>
    BY <1>5 DEF InputCloses, Feeding, Stop, DropPhase
  <2>2. state = "Running" /\ held[i] = <<>>
    BY <2>1 DEF PhaseInv
  <2>3. \A j \in Inputs : ~open'[j] => held[j] = <<>>
    BY <2>1, <2>2 DEF Types, InletTypes, PhaseInv
  <2> QED BY <1>0, <2>1, <2>2, <2>3, Names DEF Types, PhaseTypes, PhaseInv, Idle, States
<1> QED
  BY <1>1, <1>2, <1>3, <1>4, <1>5

LEMMA WorkKeepsPhase ==
  ASSUME Types, PhaseInv,
         \/ WorkBegins \/ WorkSends \/ WorkPends \/ WorkReady \/ \E i \in Inputs : WorkTakes(i)
  PROVE  PhaseTypes' /\ PhaseInv'
<1>0. 0 \in 0 .. Budget
  OBVIOUS
<1>1. CASE WorkBegins
  <2>1. /\ state \in {"Running", "Flushing", "MarkerReady"} /\ woken' = woken \ {"work"}
        /\ pc' = [phase |-> "work", left |-> 0] /\ UNCHANGED <<state, signal, open, held, gone>>
    BY <1>1 DEF WorkBegins, nodeVars
  <2> QED BY <1>0, <2>1, Names DEF Types, PhaseTypes, PhaseInv
<1>2. CASE WorkSends \/ \E i \in Inputs : WorkTakes(i)
  <2>1. /\ UNCHANGED <<state, signal, open, held, gone, pc>>
        /\ \E S \in SUBSET Phases : woken' = woken \cup (S \ gone)
    BY <1>2, Names DEF WorkSends, WorkTakes, nodeVars, Wake, SentWakes, TakeWakes
  <2> QED BY <2>1 DEF Types, PhaseTypes, PhaseInv
<1>3. CASE WorkPends
  <2>1. /\ pc.phase = "work" /\ pc' = Idle /\ UNCHANGED <<state, signal, open, held, gone>>
        /\ \E S \in SUBSET Phases : woken' = woken \cup (S \ gone)
    BY <1>3, Names DEF WorkPends, nodeVars, Wake, Stop
  <2> QED BY <1>0, <2>1, Names DEF Types, PhaseTypes, PhaseInv, Idle
<1>4. CASE WorkReady
  <2>1. pc.phase = "work" /\ UNCHANGED <<signal, open, held, gone>>
    BY <1>4 DEF WorkReady
  <2>2. CASE state = "Flushing" /\ SegmentEnded
    <3>1. /\ state' = "FlushReady" /\ pc' = Idle
          /\ \E S \in SUBSET Phases : woken' = woken \cup (S \ gone)
      BY <1>4, <2>2, Names DEF WorkReady, Wake, Stop
    <3> QED BY <1>0, <2>1, <2>2, <3>1, Names DEF Types, PhaseTypes, PhaseInv, Idle, States
  <2>3. CASE ~(state = "Flushing" /\ SegmentEnded)
    <3>1. pc' = [phase |-> "fatal", left |-> 0] /\ UNCHANGED <<state, woken>>
      BY <1>4, <2>3 DEF WorkReady
    <3> QED BY <1>0, <2>1, <3>1, Names DEF Types, PhaseTypes, PhaseInv
  <2> QED BY <2>2, <2>3
<1> QED
  BY <1>1, <1>2, <1>3, <1>4

\* Where a rotation that did not complete takes the poll.
LEMMA HaltedTyped ==
  ASSUME NEW outcome
  PROVE  /\ Halted(outcome) \in {[phase |-> "fail", left |-> 0], [phase |-> "close", left |-> 0], Idle}
         /\ Halted(outcome).phase \in {"fail", "close", "none"}
         /\ Halted(outcome).phase = "close" => state = "CloseReady"
         /\ Halted(outcome) \in [phase : {"none", "fail", "close"}, left : 0 .. Budget]
         /\ Halted(outcome).phase = "fail" => outcome = "closed"
         /\ outcome = "closed" => Halted(outcome).phase = "fail"
<1>0. 0 \in 0 .. Budget
  OBVIOUS
<1>1. CASE outcome = "closed"
  <2>1. Halted(outcome) = [phase |-> "fail", left |-> 0]
    BY <1>1 DEF Halted
  <2> QED BY <1>0, <1>1, <2>1
<1>2. CASE outcome # "closed" /\ state = "CloseReady"
  <2>1. Halted(outcome) = [phase |-> "close", left |-> 0]
    BY <1>2 DEF Halted
  <2> QED BY <1>0, <1>2, <2>1
<1>3. CASE outcome # "closed" /\ state # "CloseReady"
  <2>1. Halted(outcome) = Idle
    BY <1>3 DEF Halted
  <2> QED BY <1>0, <1>3, <2>1 DEF Idle
<1> QED
  BY <1>1, <1>2, <1>3

LEMMA OutputKeepsPhase ==
  ASSUME Types, PhaseInv,
         \/ OutputBegins \/ OutputRetries \/ OutputDelivers \/ OutputYields \/ OutputDrained
         \/ OutputForwarded \/ OutputEnds
  PROVE  PhaseTypes' /\ PhaseInv'
<1>0. 0 \in 0 .. Budget /\ Budget \in 0 .. Budget
  OBVIOUS
<1>1. CASE OutputBegins
  <2>1. /\ state # "Closed" /\ woken' = woken \ {"output"}
        /\ pc' = [phase |-> "output", left |-> Budget] /\ UNCHANGED <<state, signal, open, held, gone>>
    BY <1>1 DEF OutputBegins, nodeVars
  <2> QED BY <1>0, <2>1, Names DEF Types, PhaseTypes, PhaseInv
<1>2. CASE OutputRetries
  <2>1. /\ pc.phase = "output" /\ UNCHANGED <<state, signal, open, held, woken, gone>>
        /\ pc' = pc \/ \E outcome : pc' = Halted(outcome)
    BY <1>2 DEF OutputRetries, nodeVars
  <2> QED BY <2>1, HaltedTyped, Names DEF Types, PhaseTypes, PhaseInv
<1>3. CASE OutputDelivers
  <2>1. /\ pc.phase = "output" /\ pc.left > 0 /\ UNCHANGED <<state, signal, open, held, gone>>
        /\ pc' = [pc EXCEPT !.left = @ - 1] \/ \E outcome : pc' = Halted(outcome)
        /\ \E S \in SUBSET Phases : woken' = woken \cup (S \ gone)
    BY <1>3, Names DEF OutputDelivers, Draining, nodeVars, Wake, PopWakes, WorkIf
  <2>2. woken' \subseteq Phases /\ woken' \cap gone = {}
    BY <2>1 DEF Types, PhaseTypes, PhaseInv
  <2>3. CASE pc' = [pc EXCEPT !.left = @ - 1]
    <3>1. pc'.phase = pc.phase /\ pc' \in [phase : Phases \cup {"none", "fail", "close", "fatal"}, left : 0 .. Budget]
      BY <2>1, <2>3 DEF Types, PhaseTypes
    <3> QED BY <2>1, <2>2, <3>1 DEF Types, PhaseTypes, PhaseInv
  <2>4. CASE \E outcome : pc' = Halted(outcome)
    BY <2>1, <2>2, <2>4, HaltedTyped, Names DEF Types, PhaseTypes, PhaseInv
  <2> QED BY <2>1, <2>3, <2>4
<1>4. CASE OutputYields \/ OutputForwarded
  <2>1. /\ pc.phase = "output" /\ pc' = Idle /\ UNCHANGED <<signal, open, held, gone>>
        /\ state' = state \/ (state = "Forwarding" /\ state' = "Running")
        /\ \E S \in SUBSET Phases : woken' = woken \cup (S \ gone)
    BY <1>4, Names DEF OutputYields, OutputForwarded, Draining, nodeVars, Wake, Stop, ResumeWakes, Phases
  <2>2. woken' \subseteq Phases /\ woken' \cap gone = {}
    BY <2>1 DEF Types, PhaseTypes, PhaseInv
  <2> QED BY <1>0, <2>1, <2>2, Names DEF Types, PhaseTypes, PhaseInv, Idle, States
<1>5. CASE OutputDrained
  <2>1. pc.phase = "output" /\ UNCHANGED <<open, held, woken, gone>> /\ state # "Closed"
    BY <1>5 DEF OutputDrained, Draining, PhaseInv
  <2>2. CASE state \in {"FlushReady", "MarkerReady"}
    <3>1. state' = "Forwarding" /\ signal' = <<>> /\ (pc' = pc \/ pc' = Halted(Outcome(1)))
      BY <1>5, <2>2 DEF OutputDrained
    <3>2. Halted(Outcome(1)).phase # "close"
      BY <2>2, HaltedTyped
    <3> QED BY <2>1, <2>2, <3>1, <3>2, HaltedTyped, Names DEF Types, PhaseTypes, PhaseInv, States
  <2>3. CASE state = "CloseReady"
    <3>1. UNCHANGED <<state, signal>> /\ pc' = [phase |-> "close", left |-> 0]
      BY <1>5, <2>3 DEF OutputDrained
    <3> QED BY <1>0, <2>1, <2>3, <3>1, Names DEF Types, PhaseTypes, PhaseInv
  <2>4. CASE state \notin {"FlushReady", "MarkerReady", "CloseReady"}
    <3>1. UNCHANGED <<state, signal>> /\ pc' = Idle
      BY <1>5, <2>4 DEF OutputDrained, Stop
    <3> QED BY <1>0, <2>1, <3>1, Names DEF Types, PhaseTypes, PhaseInv, Idle
  <2> QED BY <2>2, <2>3, <2>4
<1>6. CASE OutputEnds
  <2>1. /\ state' = "Closed" /\ signal' = <<>> /\ pc' = Idle /\ gone' = gone \cup {"output"}
        /\ woken' = (woken \cup (EndWakes \ gone)) \ {"output"} /\ UNCHANGED <<open, held>>
    BY <1>6 DEF OutputEnds, DropPhase, Stop
  <2>2. EndWakes \subseteq Phases
    BY DEF EndWakes, Phases
  <2>3. woken' \subseteq Phases /\ woken' \cap gone' = {} /\ gone' \subseteq Phases
    BY <2>1, <2>2, Names DEF Types, PhaseTypes, PhaseInv
  <2> QED BY <1>0, <2>1, <2>3, Names DEF Types, PhaseTypes, PhaseInv, Idle, States
<1> QED
  BY <1>1, <1>2, <1>3, <1>4, <1>5, <1>6

\* The node's steps, one by one.
LEMMA Steps ==
  ASSUME [Next]_vars
  PROVE  \/ \E p \in Phases : LeaveClosed(p) \/ Swallow(p)
         \/ \E i \in Inputs : \/ InputBegins(i) \/ InputData(i) \/ InputFlush(i) \/ InputMarker(i)
                              \/ InputEmpty(i) \/ InputCloses(i) \/ InputYields(i)
         \/ \/ WorkBegins \/ WorkSends \/ WorkPends \/ WorkReady
            \/ \E i \in Inputs : WorkTakes(i)
         \/ \/ OutputBegins \/ OutputRetries \/ OutputDelivers \/ OutputYields \/ OutputDrained
            \/ OutputForwarded \/ OutputEnds
         \/ \/ \E i \in Inputs : Upstream(i) \/ UpstreamCloses(i)
            \/ \E e \in Edges : Downstream(e) \/ DownstreamCloses(e)
            \/ Io \/ UNCHANGED vars
BY DEF Next, PollOf, PollGoesOn, Finished

LEMMA Phase1 == Types /\ PhaseInv /\ [Next]_vars => PhaseTypes' /\ PhaseInv'
BY Steps, LeaveKeepsPhase, InputKeepsPhase, WorkKeepsPhase, OutputKeepsPhase, OutsideKeepsPhase

-----------------------------------------------------------------------------
(* Types of the other variables.                                             *)

\* What an Input reads next.
LEMMA NextTyped ==
  ASSUME InletTypes, NEW i \in Inputs, HasNext(i)
  PROVE  /\ NextIn(i) = sent[i][read[i] + 1] /\ read[i] + 1 \in 1 .. Len(sent[i])
         /\ NextIn(i) \in Pushed /\ NextIn(i).from = i /\ NextIn(i).nth = read[i] + 1
         /\ NextIn(i).kind = "data" => NextIn(i) \in Data(i)
<1>1. sent[i] \in Seq(Pushed) /\ read[i] \in Nat /\ read[i] < Len(sent[i])
  BY DEF InletTypes, HasNext
<1>2. read[i] + 1 \in 1 .. Len(sent[i])
  BY <1>1
<1>3. NextIn(i) \in Pushed /\ NextIn(i).from = i /\ NextIn(i).nth = read[i] + 1
  BY <1>1, <1>2 DEF InletTypes, NextIn
<1>4. ASSUME NextIn(i).kind = "data" PROVE NextIn(i) \in Data(i)
  <2> DEFINE m == NextIn(i)
  <2>1. m = [kind |-> m.kind, from |-> m.from, nth |-> m.nth] /\ m.nth \in Nat \ {0}
    BY <1>3 DEF Pushed
  <2> HIDE DEF m
  <2>2. m.kind = "data" /\ m.from = i
    BY <1>3, <1>4 DEF m
  <2>3. m \in Data(i)
    BY <2>1, <2>2 DEF Data
  <2> QED BY <2>3 DEF m
<1> QED
  BY <1>2, <1>3, <1>4 DEF NextIn

LEMMA HeldTyped ==
  ASSUME InletTypes, NEW i \in Inputs, held[i] # <<>>
  PROVE  held[i][1] \in Data(i) /\ held[i] = <<held[i][1]>>
<1>1. held[i] \in Seq(Data(i)) /\ Len(held[i]) <= 1
  BY DEF InletTypes
<1>2. Len(held[i]) \in Nat \ {0}
  BY <1>1
<1> QED
  BY <1>1, <1>2

LEMMA Routine1 == Types /\ [Next]_vars => RoutineTypes'
<1> SUFFICES ASSUME Types, [Next]_vars PROVE RoutineTypes'
  OBVIOUS
<1>0. RoutineTypes /\ InletTypes
  BY DEF Types
<1>1. ASSUME NEW p \in Phases, LeaveClosed(p) \/ Swallow(p) PROVE RoutineTypes'
  <2>1. UNCHANGED routineVars
    BY <1>1 DEF LeaveClosed, Swallow
  <2> QED BY <1>0, <2>1, RoutineMoves
<1>2. ASSUME NEW i \in Inputs, InputBegins(i) PROVE RoutineTypes'
  <2>1. Refuse(i) \/ (held[i] # <<>> /\ TrySend(i, held[i][1])) \/ UNCHANGED routineVars
    BY <1>2 DEF InputBegins
  <2> QED BY <1>0, <2>1, HeldTyped, RoutineSends, RoutineMoves
<1>3. ASSUME NEW i \in Inputs, InputData(i) PROVE RoutineTypes'
  <2>1. (TrySend(i, NextIn(i)) \/ Refuse(i)) /\ HasNext(i) /\ NextIn(i).kind = "data"
    BY <1>3 DEF InputData
  <2> QED BY <1>0, <2>1, NextTyped, RoutineSends, RoutineMoves
<1>4. ASSUME NEW i \in Inputs, InputFlush(i) PROVE RoutineTypes'
  BY <1>0, <1>4, RoutineFlushes DEF InputFlush
<1>5. ASSUME NEW i \in Inputs, InputMarker(i) \/ InputEmpty(i) \/ InputCloses(i) \/ InputYields(i)
      PROVE  RoutineTypes'
  <2>1. UNCHANGED routineVars
    BY <1>5 DEF InputMarker, InputEmpty, InputCloses, InputYields
  <2> QED BY <1>0, <2>1, RoutineMoves
<1>6. ASSUME NEW i \in Inputs, WorkTakes(i) PROVE RoutineTypes'
  BY <1>0, <1>6, RoutineTakes DEF WorkTakes
<1>7. CASE WorkBegins \/ WorkSends \/ WorkPends \/ WorkReady
  <2>1. FutureSends \/ FutureParks \/ Renew \/ UNCHANGED routineVars
    BY <1>7 DEF WorkBegins, WorkSends, WorkPends, WorkReady
  <2> QED BY <1>0, <2>1, RoutineMoves
<1>8. CASE \/ OutputBegins \/ OutputRetries \/ OutputDelivers \/ OutputYields \/ OutputDrained
           \/ OutputForwarded \/ OutputEnds
  <2>1. Pop \/ PopNothing \/ UNCHANGED routineVars
    BY <1>8 DEF OutputBegins, OutputRetries, OutputDelivers, OutputYields, OutputDrained,
                OutputForwarded, OutputEnds
  <2> QED BY <1>0, <2>1, RoutineMoves
<1>9. CASE \/ \E i \in Inputs : Upstream(i) \/ UpstreamCloses(i)
           \/ \E e \in Edges : Downstream(e) \/ DownstreamCloses(e)
           \/ Io \/ UNCHANGED vars
  <2>1. IoDone \/ UNCHANGED routineVars
    BY <1>9 DEF Upstream, UpstreamCloses, Downstream, DownstreamCloses, Io, vars
  <2> QED BY <1>0, <2>1, RoutineMoves
<1> QED
  BY <1>1, <1>2, <1>3, <1>4, <1>5, <1>6, <1>7, <1>8, <1>9, Steps

\* The inlets of the node: what each step does to them.
LEMMA InletStays ==
  ASSUME InletTypes, UNCHANGED <<open, inClosed, held, sent, read>>
  PROVE  InletTypes'
BY DEF InletTypes

LEMMA Inlet1 == Types /\ PhaseInv /\ [Next]_vars => InletTypes'
<1> SUFFICES ASSUME Types, PhaseInv, [Next]_vars PROVE InletTypes'
  OBVIOUS
<1>0. InletTypes /\ \A S : <<>> \in Seq(S) /\ Len(<<>>) = 0
  BY DEF Types
<1>1. ASSUME NEW p \in Phases, LeaveClosed(p) \/ Swallow(p) PROVE InletTypes'
  <2>1. CASE LeaveClosed(p)
    <3>1. /\ held' = [i \in Inputs |-> IF i = p THEN <<>> ELSE held[i]]
          /\ inClosed' = [i \in Inputs |-> inClosed[i] \/ SharedDropped(p)]
          /\ UNCHANGED <<open, sent, read>>
      BY <2>1 DEF LeaveClosed, InletsAfter
    <3>2. held' \in [Inputs -> Seq(AnyData)]
      BY <1>0, <3>1 DEF InletTypes
    <3>3. \A i \in Inputs : held'[i] \in Seq(Data(i)) /\ Len(held'[i]) <= 1
      BY <1>0, <3>1 DEF InletTypes
    <3>4. inClosed' \in [Inputs -> BOOLEAN]
      BY <1>0, <3>1 DEF InletTypes, SharedDropped
    <3> QED BY <1>0, <3>1, <3>2, <3>3, <3>4 DEF InletTypes
  <2>2. CASE Swallow(p)
    BY <1>0, <2>2, InletStays DEF Swallow, nodeVars, inletVars
  <2> QED BY <1>1, <2>1, <2>2
<1>2. ASSUME NEW i \in Inputs, InputBegins(i) PROVE InletTypes'
  <2>1. UNCHANGED <<open, inClosed, sent, read>> /\ held' \in {held, [held EXCEPT ![i] = <<>>]}
    BY <1>2 DEF InputBegins, inletVars
  <2>2. CASE held' = held
    BY <1>0, <2>1, <2>2, InletStays
  <2>3. CASE held' = [held EXCEPT ![i] = <<>>]
    <3>1. held' \in [Inputs -> Seq(AnyData)]
      BY <1>0, <2>3 DEF InletTypes
    <3>2. \A j \in Inputs : held'[j] \in Seq(Data(j)) /\ Len(held'[j]) <= 1
      BY <1>0, <2>3 DEF InletTypes
    <3> QED BY <1>0, <2>1, <3>1, <3>2 DEF InletTypes
  <2> QED BY <2>1, <2>2, <2>3
<1>3. ASSUME NEW i \in Inputs, InputData(i) \/ InputFlush(i) \/ InputMarker(i) PROVE InletTypes'
  <2>1. /\ UNCHANGED <<open, inClosed, sent>> /\ read' = [read EXCEPT ![i] = @ + 1] /\ HasNext(i)
        /\ held' = held \/ (held' = [held EXCEPT ![i] = <<NextIn(i)>>] /\ NextIn(i).kind = "data")
    BY <1>3 DEF InputData, InputFlush, InputMarker, Advance
  <2>2. read' \in [Inputs -> Nat] /\ \A j \in Inputs : read'[j] <= Len(sent[j])
    BY <1>0, <2>1 DEF InletTypes, HasNext
  <2>3. held' \in [Inputs -> Seq(AnyData)] /\ \A j \in Inputs : held'[j] \in Seq(Data(j)) /\ Len(held'[j]) <= 1
    <3>1. CASE held' = held
      BY <1>0, <3>1 DEF InletTypes
    <3>2. CASE held' = [held EXCEPT ![i] = <<NextIn(i)>>] /\ NextIn(i).kind = "data"
      <4>1. NextIn(i) \in Data(i) /\ NextIn(i) \in AnyData
        BY <1>0, <2>1, <3>2, NextTyped, Kinds
      <4>2. <<NextIn(i)>> \in Seq(Data(i)) /\ <<NextIn(i)>> \in Seq(AnyData) /\ Len(<<NextIn(i)>>) = 1
        BY <4>1
      <4> HIDE DEF NextIn
      <4> QED BY <1>0, <3>2, <4>2 DEF InletTypes
    <3> QED BY <2>1, <3>1, <3>2
  <2> QED BY <1>0, <2>1, <2>2, <2>3 DEF InletTypes
<1>4. ASSUME NEW i \in Inputs, InputEmpty(i) \/ InputYields(i) PROVE InletTypes'
  BY <1>0, <1>4, InletStays DEF InputEmpty, InputYields, nodeVars, inletVars
<1>5. ASSUME NEW i \in Inputs, InputCloses(i) PROVE InletTypes'
  <2>1. open' = [open EXCEPT ![i] = FALSE] /\ UNCHANGED <<inClosed, held, sent, read>>
    BY <1>5 DEF InputCloses, inletVars
  <2> QED BY <1>0, <2>1 DEF InletTypes
<1>6. CASE WorkBegins \/ WorkSends \/ WorkPends \/ WorkReady \/ \E i \in Inputs : WorkTakes(i)
  <2>1. UNCHANGED <<open, inClosed, held, sent, read>>
    BY <1>6 DEF WorkBegins, WorkSends, WorkPends, WorkReady, WorkTakes, nodeVars, inletVars
  <2> QED BY <1>0, <2>1, InletStays
<1>7. CASE OutputBegins \/ OutputRetries \/ OutputDelivers \/ OutputYields \/ OutputDrained \/ OutputForwarded
  <2>1. UNCHANGED <<open, inClosed, held, sent, read>>
    BY <1>7 DEF OutputBegins, OutputRetries, OutputDelivers, OutputYields, OutputDrained,
                OutputForwarded, nodeVars, inletVars
  <2> QED BY <1>0, <2>1, InletStays
<1>8. CASE OutputEnds
  <2>1. /\ inClosed' = [i \in Inputs |-> inClosed[i] \/ SharedDropped("output")]
        /\ UNCHANGED <<open, held, sent, read>>
    BY <1>8 DEF OutputEnds, InletsAfter
  <2>2. inClosed' \in [Inputs -> BOOLEAN]
    BY <1>0, <2>1 DEF InletTypes, SharedDropped
  <2> QED BY <1>0, <2>1, <2>2 DEF InletTypes
<1>9. ASSUME NEW i \in Inputs, Upstream(i) PROVE InletTypes'
  <2>1. UNCHANGED <<open, inClosed, held, read>>
    BY <1>9 DEF Upstream, nodeVars
  <2>2. PICK k \in {"data", "flush", "marker"} :
           sent' = [sent EXCEPT ![i] = Append(@, [kind |-> k, from |-> i, nth |-> Len(@) + 1])]
    BY <1>9 DEF Upstream
  <2> DEFINE m == [kind |-> k, from |-> i, nth |-> Len(sent[i]) + 1]
  <2>3. sent[i] \in Seq(Pushed) /\ Len(sent[i]) \in Nat /\ m \in Pushed /\ m.from = i /\ m.nth = Len(sent[i]) + 1
    <3>1. sent[i] \in Seq(Pushed)
      BY <1>0 DEF InletTypes
    <3>2. Len(sent[i]) \in Nat
      BY <3>1
    <3> QED BY <3>1, <3>2 DEF Pushed
  <2> HIDE DEF m
  <2>4. sent' = [sent EXCEPT ![i] = Append(sent[i], m)]
    BY <2>2 DEF m
  <2>5. Append(sent[i], m) \in Seq(Pushed) /\ Len(Append(sent[i], m)) = Len(sent[i]) + 1
    BY <2>3
  <2>6. sent' \in [Inputs -> Seq(Pushed)] /\ \A j \in Inputs : read[j] <= Len(sent'[j])
    BY <1>0, <2>3, <2>4, <2>5 DEF InletTypes
  <2>7. \A k1 \in 1 .. Len(sent[i]) + 1 : Append(sent[i], m)[k1].from = i /\ Append(sent[i], m)[k1].nth = k1
    BY <1>0, <2>3 DEF InletTypes
  <2>8. \A j \in Inputs : \A k1 \in 1 .. Len(sent'[j]) : sent'[j][k1].from = j /\ sent'[j][k1].nth = k1
    BY <1>0, <2>4, <2>5, <2>7 DEF InletTypes
  <2> QED BY <1>0, <2>1, <2>6, <2>8 DEF InletTypes
<1>10. ASSUME NEW i \in Inputs, UpstreamCloses(i) PROVE InletTypes'
  <2>1. inClosed' = [inClosed EXCEPT ![i] = TRUE] /\ UNCHANGED <<open, held, sent, read>>
    BY <1>10 DEF UpstreamCloses, nodeVars
  <2> QED BY <1>0, <2>1 DEF InletTypes
<1>11. CASE (\E e \in Edges : Downstream(e) \/ DownstreamCloses(e)) \/ Io \/ UNCHANGED vars
  <2>1. UNCHANGED <<open, inClosed, held, sent, read>>
    BY <1>11 DEF Downstream, DownstreamCloses, Io, vars, nodeVars, inletVars
  <2> QED BY <1>0, <2>1, InletStays
<1> QED
  BY <1>1, <1>2, <1>3, <1>4, <1>5, <1>6, <1>7, <1>8, <1>9, <1>10, <1>11, Steps

-----------------------------------------------------------------------------
(* Rotations: where they stop, and what they leave.                          *)

\* A rotation runs to the last edge, or to the first that stops it.
LEMMA RotationStops ==
  ASSUME NEW from \in Edges
  PROVE  /\ Reached(from) \in Int /\ from - 1 <= Reached(from) /\ Reached(from) <= NumEdges
         /\ Outcome(from) = "complete" => Reached(from) = NumEdges
         /\ Outcome(from) # "complete" => Reached(from) + 1 \in Edges /\ Reached(from) + 1 >= from
         /\ Outcome(from) = "closed" => edge[Reached(from) + 1] # "open"
         /\ Outcome(from) = "suspended" =>
               edge[Reached(from) + 1] = "open" /\ Waiting(Reached(from) + 1) >= EdgeBound
         /\ Outcome(from) \in {"complete", "closed", "suspended"}
         /\ \A e \in from .. Reached(from) : edge[e] = "open" /\ ~(Waiting(e) >= EdgeBound)
<1>0. from \in 1 .. NumEdges /\ NumEdges \in Nat
  BY DEF Edges
<1>1. CASE Stops(from) = {}
  <2>1. Outcome(from) = "complete" /\ Reached(from) = NumEdges
    BY <1>1 DEF Outcome, Reached
  <2>2. \A e \in from .. NumEdges : e \in Edges /\ e >= from
    BY <1>0 DEF Edges
  <2>3. \A e \in from .. NumEdges : edge[e] = "open" /\ ~(Waiting(e) >= EdgeBound)
    BY <1>1, <2>2 DEF Stops
  <2> QED BY <1>0, <2>1, <2>3
<1>2. CASE Stops(from) # {}
  <2> DEFINE x == Min(Stops(from))
  <2>1. Stops(from) \in SUBSET Nat
    BY <1>0 DEF Stops, Edges
  <2>2. \E y \in Stops(from) : \A z \in Stops(from) : y <= z
    BY <1>2, <2>1, LeastExists
  <2>3. x \in Stops(from) /\ \A z \in Stops(from) : x <= z
    BY <2>2 DEF Min
  <2>4. Reached(from) = x - 1 /\ Outcome(from) = IF edge[x] # "open" THEN "closed" ELSE "suspended"
    BY <1>2 DEF Reached, Outcome
  <2> HIDE DEF x
  <2>5. x \in Edges /\ x >= from /\ (edge[x] # "open" \/ Waiting(x) >= EdgeBound)
    BY <2>3 DEF Stops
  <2>6. x \in Nat /\ x <= NumEdges /\ x - 1 + 1 = x
    BY <1>0, <2>5 DEF Edges
  <2>7. \A e \in from .. x - 1 : edge[e] = "open" /\ ~(Waiting(e) >= EdgeBound)
    <3> SUFFICES ASSUME NEW e \in from .. x - 1, edge[e] # "open" \/ Waiting(e) >= EdgeBound PROVE FALSE
      OBVIOUS
    <3>1. e \in Edges /\ e >= from
      BY <1>0, <2>6 DEF Edges
    <3>2. e \in Stops(from)
      BY <3>1 DEF Stops
    <3> QED BY <1>0, <2>3, <2>6, <3>2
  <2> QED BY <1>0, <2>4, <2>5, <2>6, <2>7
<1> QED
  BY <1>1, <1>2

\* What a rotation leaves: edges it reached took the message, the others not,
\* and the refusing one is remembered with it.
LEMMA RotationLeaves ==
  ASSUME NEW from \in Edges, NEW m, Rotate(from, m)
  PROVE  /\ delivered' = [e \in Edges |-> IF e \in from .. Reached(from) THEN Append(delivered[e], m)
                                          ELSE delivered[e]]
         /\ Outcome(from) = "suspended" =>
               /\ suspended' = <<[at |-> Reached(from) + 1, msg |-> m]>>
               /\ owesPop' = [owesPop EXCEPT ![Reached(from) + 1] = TRUE]
         /\ Outcome(from) # "suspended" => suspended' = <<>> /\ owesPop' = owesPop
BY DEF Rotate, Give, Suspend

LEMMA RotateTyped ==
  ASSUME EdgeTypes, NEW from \in Edges, NEW m \in Pushed, Rotate(from, m), UNCHANGED <<taken, edge>>
  PROVE  EdgeTypes'
<1>1. delivered' \in [Edges -> Seq(Pushed)]
  <2>1. \A e \in Edges : delivered[e] \in Seq(Pushed) /\ Append(delivered[e], m) \in Seq(Pushed)
    BY DEF EdgeTypes
  <2> QED BY <2>1, RotationLeaves
<1>2. CASE Outcome(from) = "suspended"
  <2>1. Reached(from) + 1 \in Edges
    BY <1>2, RotationStops
  <2> DEFINE r == [at |-> Reached(from) + 1, msg |-> m]
  <2>2. r \in [at : Edges, msg : Pushed]
    BY <2>1
  <2>3. suspended' = <<r>>
    BY <1>2, RotationLeaves
  <2> HIDE DEF r
  <2>4. suspended' \in Seq([at : Edges, msg : Pushed]) /\ Len(suspended') <= 1
    BY <2>2, <2>3
  <2>5. owesPop' \in [Edges -> BOOLEAN]
    BY <1>2, <2>1, RotationLeaves DEF EdgeTypes
  <2> QED BY <1>1, <2>4, <2>5 DEF EdgeTypes
<1>3. CASE Outcome(from) # "suspended"
  <2>1. suspended' = <<>> /\ owesPop' = owesPop
    BY <1>3, RotationLeaves
  <2>2. suspended' \in Seq([at : Edges, msg : Pushed]) /\ Len(suspended') <= 1
    BY <2>1
  <2> QED BY <1>1, <2>1, <2>2 DEF EdgeTypes
<1> QED
  BY <1>2, <1>3

\* The held rotation, the item Output pops and the signal it carries.
LEMMA SuspendedTyped ==
  ASSUME EdgeTypes, suspended # <<>>
  PROVE  /\ suspended[1].at \in Edges /\ suspended[1].msg \in Pushed
         /\ suspended = <<suspended[1]>> /\ suspended[1] = [at |-> suspended[1].at, msg |-> suspended[1].msg]
<1>1. suspended \in Seq([at : Edges, msg : Pushed]) /\ Len(suspended) <= 1
  BY DEF EdgeTypes
<1>2. suspended[1] \in [at : Edges, msg : Pushed] /\ suspended = <<suspended[1]>>
  BY ONLY <1>1, OnlyElement, suspended # <<>>
<1> QED
  BY <1>2

LEMMA SignalTyped ==
  ASSUME PhaseTypes, signal # <<>>
  PROVE  signal[1] \in Pushed /\ signal = <<signal[1]>>
<1>1. signal \in Seq(Pushed) /\ Len(signal) <= 1
  BY DEF PhaseTypes
<1> QED
  BY ONLY <1>1, OnlyElement, signal # <<>>

LEMMA PopTyped ==
  ASSUME RoutineTypes, oq # <<>>
  PROVE  /\ Head(oq) = oq[1] /\ oq[1] \in AnyData /\ oq[1] \in Pushed
         /\ Tail(oq) \in Seq(AnyData) /\ oq = <<oq[1]>> \o Tail(oq)
<1>1. oq \in Seq(AnyData)
  BY DEF RoutineTypes
<1> QED
  BY <1>1, FirstAndRest, Kinds

\* The steps of Output that move messages.
LEMMA Rotations ==
  ASSUME Types, PhaseInv, OutputRetries \/ OutputDelivers \/ OutputDrained
  PROVE  /\ UNCHANGED <<taken, edge>>
         /\ \/ /\ OutputRetries /\ suspended # <<>>
               /\ suspended[1].at \in Edges /\ suspended[1].msg \in Pushed
               /\ Rotate(suspended[1].at, suspended[1].msg)
            \/ /\ OutputDelivers /\ suspended = <<>> /\ oq # <<>>
               /\ oq[1] \in Pushed /\ Rotate(1, oq[1])
            \/ /\ OutputDrained /\ suspended = <<>> /\ state \in {"FlushReady", "MarkerReady"}
               /\ signal # <<>> /\ signal[1] \in Pushed /\ Rotate(1, signal[1])
            \/ /\ OutputDrained /\ suspended = <<>> /\ state \notin {"FlushReady", "MarkerReady"}
               /\ UNCHANGED <<delivered, suspended, owesPop>>
         /\ 1 \in Edges
<1>0. RoutineTypes /\ EdgeTypes /\ PhaseTypes /\ 1 \in Edges
  BY DEF Types, Edges
<1>1. CASE OutputRetries
  BY <1>0, <1>1, SuspendedTyped DEF OutputRetries
<1>2. CASE OutputDelivers
  <2>1. suspended = <<>> /\ oq # <<>> /\ Rotate(1, Head(oq)) /\ UNCHANGED <<taken, edge>>
    BY <1>2 DEF OutputDelivers, Draining, Pop
  <2> QED BY <1>0, <1>2, <2>1, PopTyped
<1>3. CASE OutputDrained
  <2>1. suspended = <<>> /\ UNCHANGED <<taken, edge>>
    BY <1>3 DEF OutputDrained, Draining
  <2>2. CASE state \in {"FlushReady", "MarkerReady"}
    <3>1. signal # <<>> /\ Rotate(1, signal[1])
      BY <1>3, <2>2 DEF OutputDrained, PhaseInv
    <3> QED BY <1>0, <1>3, <2>1, <2>2, <3>1, SignalTyped
  <2>3. CASE state \notin {"FlushReady", "MarkerReady"}
    <3>1. UNCHANGED <<delivered, suspended, owesPop>>
      BY <1>3, <2>3 DEF OutputDrained
    <3> QED BY <1>0, <1>3, <2>1, <2>3, <3>1
  <2> QED BY <2>2, <2>3
<1> QED
  BY <1>1, <1>2, <1>3

\* Every other step leaves what the edges took and the held rotation alone,
\* but for OutputEnds, which drops the rotation.
LEMMA EdgesStay ==
  ASSUME [Next]_vars, ~(OutputRetries \/ OutputDelivers \/ OutputDrained)
  PROVE  /\ UNCHANGED delivered
         /\ suspended' = suspended \/ (OutputEnds /\ suspended' = <<>>)
BY Steps DEF LeaveClosed, Swallow, InputBegins, InputData, InputFlush, InputMarker, InputEmpty,
     InputCloses, InputYields, WorkBegins, WorkSends, WorkPends, WorkReady, WorkTakes, OutputBegins,
     OutputYields, OutputForwarded, OutputEnds, Upstream, UpstreamCloses, Downstream,
     DownstreamCloses, Io, vars, edgeVars

LEMMA Edge1 == Types /\ PhaseInv /\ [Next]_vars => EdgeTypes'
<1> SUFFICES ASSUME Types, PhaseInv, [Next]_vars PROVE EdgeTypes'
  OBVIOUS
<1>0. EdgeTypes
  BY DEF Types
<1>1. CASE OutputRetries \/ OutputDelivers \/ OutputDrained
  <2>1. CASE UNCHANGED <<delivered, suspended, owesPop, taken, edge>>
    BY <1>0, <2>1 DEF EdgeTypes
  <2>2. CASE ~UNCHANGED <<delivered, suspended, owesPop, taken, edge>>
    <3>1. UNCHANGED <<taken, edge>> /\ \E from \in Edges, m \in Pushed : Rotate(from, m)
      BY <1>1, <2>2, Rotations
    <3> QED BY <1>0, <3>1, RotateTyped
  <2> QED BY <2>1, <2>2
<1>2. CASE ~(OutputRetries \/ OutputDelivers \/ OutputDrained)
  <2>1. delivered' \in [Edges -> Seq(Pushed)] /\ suspended' \in Seq([at : Edges, msg : Pushed]) /\ Len(suspended') <= 1
    <3>1. <<>> \in Seq([at : Edges, msg : Pushed]) /\ Len(<<>>) <= 1
      OBVIOUS
    <3> QED BY <1>0, <1>2, <3>1, EdgesStay DEF EdgeTypes
  <2>2. ASSUME NEW e \in Edges, Downstream(e) \/ DownstreamCloses(e) PROVE EdgeTypes'
    <3>1. CASE Downstream(e)
      BY <1>0, <2>1, <3>1 DEF Downstream, EdgeTypes
    <3>2. CASE DownstreamCloses(e)
      BY <1>0, <2>1, <3>2 DEF DownstreamCloses, EdgeTypes
    <3> QED BY <2>2, <3>1, <3>2
  <2>3. ASSUME NEW p \in Phases, LeaveClosed(p) PROVE EdgeTypes'
    <3>1. edge' \in [Edges -> {"open", "tx", "rx"}] /\ UNCHANGED <<taken, owesPop>>
      BY <1>0, <2>3 DEF LeaveClosed, EdgesAfter, EdgeTypes
    <3> QED BY <1>0, <2>1, <3>1 DEF EdgeTypes
  <2>4. CASE OutputEnds
    <3>1. edge' \in [Edges -> {"open", "tx", "rx"}] /\ UNCHANGED <<taken, owesPop>>
      BY <1>0, <2>4 DEF OutputEnds, EdgesAfter, EdgeTypes
    <3> QED BY <1>0, <2>1, <3>1 DEF EdgeTypes
  <2>5. CASE UNCHANGED <<taken, edge, owesPop>>
    BY <1>0, <2>1, <2>5 DEF EdgeTypes
  <2>6. \/ \E e \in Edges : Downstream(e) \/ DownstreamCloses(e)
        \/ \E p \in Phases : LeaveClosed(p)
        \/ OutputEnds \/ UNCHANGED <<taken, edge, owesPop>>
    BY <1>2, Steps DEF Swallow, InputBegins, InputData, InputFlush, InputMarker, InputEmpty,
         InputCloses, InputYields, WorkBegins, WorkSends, WorkPends, WorkReady, WorkTakes,
         OutputBegins, OutputYields, OutputForwarded, Upstream, UpstreamCloses, Io, vars, edgeVars
  <2> QED BY <2>2, <2>3, <2>4, <2>5, <2>6
<1> QED
  BY <1>1, <1>2

Base == Types /\ PhaseInv

LEMMA Base1 == Base /\ [Next]_vars => Base'
BY Phase1, Routine1, Inlet1, Edge1 DEF Base, Types

-----------------------------------------------------------------------------
(* The routine's contract.  Outside a flush no Flush is in the routine and   *)
(* every queue holds data alone; in a flush every side that has not seen it  *)
(* has it as its last item.  So a future that returns is being flushed and   *)
(* has read everything.                                                      *)

FlushInv ==
  /\ state \notin {"Flushing", "Closed"} =>
       \A i \in Inputs : ~sawFlush[i] /\ iq[i] \in Seq(Data(i))
  /\ state = "Flushing" =>
       \A i \in Inputs : IF sawFlush[i] THEN iq[i] = <<>>
                         ELSE \E q \in Seq(Data(i)) : iq[i] = Append(q, FlushItem(i))
  /\ state = "FlushReady" => hand = <<>> /\ \A i \in Inputs : iq[i] = <<>>
  /\ pc.phase # "fatal"

LEMMA Flush0 == Init => FlushInv
<1> SUFFICES ASSUME Init PROVE FlushInv
  OBVIOUS
<1>1. /\ iq = [i \in Inputs |-> <<>>] /\ sawFlush = [i \in Inputs |-> FALSE]
      /\ state = "Running" /\ pc.phase = "none" /\ \A S : <<>> \in Seq(S)
  BY DEF Init, RoutineInit, Idle
<1> QED
  BY <1>1 DEF FlushInv

\* An item taken from a queue that ends with the Flush.
LEMMA TakeInFlush ==
  ASSUME NEW i, NEW q \in Seq(Data(i))
  PROVE  LET s == Append(q, FlushItem(i)) IN
         /\ q = <<>> => Head(s) = FlushItem(i) /\ Tail(s) = <<>>
         /\ q # <<>> => Head(s) \in Data(i) /\ Tail(q) \in Seq(Data(i))
                        /\ Tail(s) = Append(Tail(q), FlushItem(i))
<1> DEFINE f == FlushItem(i)
<1> HIDE DEF f
<1> DEFINE s == Append(q, f)
<1>1. ASSUME q = <<>> PROVE Head(s) = f /\ Tail(s) = <<>>
  BY <1>1
<1>2. ASSUME q # <<>> PROVE Head(s) \in Data(i) /\ Tail(q) \in Seq(Data(i)) /\ Tail(s) = Append(Tail(q), f)
  <2>1. Len(q) \in Nat \ {0}
    BY <1>2
  <2>2. Head(s) = q[1] /\ q[1] \in Data(i) /\ Tail(q) \in Seq(Data(i)) /\ Len(Tail(q)) = Len(q) - 1
    BY <2>1
  <2>3. s \in Seq(Data(i) \cup {f}) /\ Tail(q) \in Seq(Data(i) \cup {f})
    BY <2>2
  <2>4. Len(Tail(s)) = Len(Append(Tail(q), f)) /\ Tail(s) \in Seq(Data(i) \cup {f})
        /\ Append(Tail(q), f) \in Seq(Data(i) \cup {f})
    BY <2>1, <2>2, <2>3
  <2>5. ASSUME NEW k \in 1 .. Len(q) PROVE Tail(s)[k] = Append(Tail(q), f)[k]
    <3>1. Tail(s)[k] = s[k + 1] /\ Len(Tail(q)) = Len(q) - 1
      BY <2>1, <2>2, <2>3
    <3>2. CASE k < Len(q)
      <4>0. k \in 1 .. Len(q) - 1 /\ k + 1 \in 1 .. Len(q)
        BY <2>1, <3>2
      <4>1. s[k + 1] = q[k + 1]
        BY <4>0
      <4>2. Tail(q)[k] = q[k + 1]
        BY <2>1, <4>0
      <4>3. Append(Tail(q), f)[k] = Tail(q)[k]
        BY <2>2, <4>0
      <4> QED BY <3>1, <4>1, <4>2, <4>3
    <3>3. CASE k = Len(q)
      <4>1. s[k + 1] = f
        BY <2>1, <3>3
      <4>2. Append(Tail(q), f)[k] = f
        BY <2>1, <2>2, <3>1, <3>3
      <4> QED BY <3>1, <4>1, <4>2
    <3> QED BY <2>1, <3>2, <3>3
  <2>6. Len(Tail(s)) = Len(q)
    BY <2>1, <2>2, <2>4
  <2>7. Tail(s) = Append(Tail(q), f)
    BY <2>4, <2>5, <2>6
  <2> QED BY <2>2, <2>7
<1> QED
  BY <1>1, <1>2 DEF f

LEMMA FlushTakes ==
  ASSUME Base, FlushInv, NEW i \in Inputs, WorkTakes(i)
  PROVE  FlushInv'
<1>0. /\ state \in {"Running", "Flushing", "MarkerReady"} /\ UNCHANGED <<state, pc>> /\ pc.phase = "work"
      /\ iq' = [iq EXCEPT ![i] = Tail(@)] /\ iq[i] # <<>> /\ ~sawFlush[i]
      /\ iq \in [Inputs -> Seq(Item)] /\ sawFlush \in [Inputs -> BOOLEAN]
  BY DEF Base, Types, RoutineTypes, PhaseInv, WorkTakes, FutureTakes, nodeVars
<1>1. CASE state = "Flushing"
  <2>1. PICK q \in Seq(Data(i)) : iq[i] = Append(q, FlushItem(i))
    BY <1>0, <1>1 DEF FlushInv
  <2>2. CASE q = <<>>
    <3>1. Head(iq[i]) = FlushItem(i) /\ Tail(iq[i]) = <<>>
      BY <2>1, <2>2, TakeInFlush
    <3>2. sawFlush' = [sawFlush EXCEPT ![i] = TRUE]
      BY <3>1 DEF WorkTakes, FutureTakes, FlushItem
    <3> QED BY <1>0, <1>1, <3>1, <3>2 DEF FlushInv
  <2>3. CASE q # <<>>
    <3>1. Head(iq[i]) \in Data(i) /\ Tail(q) \in Seq(Data(i)) /\ Tail(iq[i]) = Append(Tail(q), FlushItem(i))
      BY <2>1, <2>3, TakeInFlush
    <3>2. UNCHANGED sawFlush
      BY <3>1 DEF WorkTakes, FutureTakes, Data
    <3> QED BY <1>0, <1>1, <3>1, <3>2 DEF FlushInv
  <2> QED BY <2>2, <2>3
<1>2. CASE state # "Flushing"
  <2>1. \A j \in Inputs : ~sawFlush[j] /\ iq[j] \in Seq(Data(j))
    BY <1>0, <1>2 DEF FlushInv
  <2>2. iq[i] \in Seq(Data(i))
    BY <2>1
  <2>3. iq[i][1] \in Data(i) /\ Head(iq[i]) = iq[i][1] /\ Tail(iq[i]) \in Seq(Data(i))
    BY ONLY <2>2, <1>0, FirstAndRest
  <2>4. UNCHANGED sawFlush
    BY <2>3 DEF WorkTakes, FutureTakes, Data
  <2> QED BY <1>0, <1>2, <2>1, <2>3, <2>4 DEF FlushInv
<1> QED
  BY <1>1, <1>2

\* The future returns only when it was flushed and has read all there is.
LEMMA ReturnsFlushed ==
  ASSUME Base, FlushInv, WorkReady
  PROVE  state = "Flushing" /\ SegmentEnded
<1>1. state \in {"Running", "Flushing", "MarkerReady"} /\ \A i \in Inputs : sawFlush[i]
  BY DEF Base, PhaseInv, WorkReady, FutureReturns
<1>2. state = "Flushing"
  BY <1>1 DEF FlushInv
<1> QED
  BY <1>1, <1>2 DEF FlushInv, SegmentEnded

LEMMA Flush1 == Base /\ FlushInv /\ [Next]_vars => FlushInv'
<1> SUFFICES ASSUME Base, FlushInv, [Next]_vars PROVE FlushInv'
  OBVIOUS
<1>0. RoutineTypes /\ InletTypes /\ PhaseInv /\ iq \in [Inputs -> Seq(Item)]
  BY DEF Base, Types, RoutineTypes
<1>1. CASE UNCHANGED <<iq, sawFlush, hand, state>> /\ pc'.phase # "fatal"
  BY <1>1 DEF FlushInv
<1>2. ASSUME NEW p \in Phases, LeaveClosed(p) \/ Swallow(p) PROVE FlushInv'
  BY <1>1, <1>2 DEF LeaveClosed, Swallow, DropPhase, Stop, Idle, routineVars, nodeVars, FlushInv
<1>3. ASSUME NEW i \in Inputs, InputBegins(i) \/ InputData(i) PROVE FlushInv'
  <2>1. state = "Running" /\ UNCHANGED state /\ pc'.phase # "fatal"
    <3>1. CASE InputBegins(i)
      <4>1. pc' \in {pc, Idle, [phase |-> i, left |-> Budget]} /\ i # "fatal" /\ state = "Running" /\ UNCHANGED state
        BY <3>1, Names DEF InputBegins, Drains
      <4> QED BY <4>1 DEF FlushInv, Idle
    <3>2. CASE InputData(i)
      <4>1. pc.phase = i /\ pc' \in {Idle, [pc EXCEPT !.left = @ - 1]} /\ UNCHANGED state
        BY <3>2 DEF InputData, Feeding, Stop
      <4>2. pc'.phase \in {i, "none"}
        BY <1>0, <4>1 DEF Idle, Base, Types, PhaseTypes
      <4> QED BY <1>0, <4>1, <4>2, Names DEF PhaseInv
    <3> QED BY <1>3, <3>1, <3>2
  <2>2. UNCHANGED <<iq, sawFlush>> \/ \E m \in Data(i) : TrySend(i, m)
    <3>1. held[i] # <<>> => held[i][1] \in Data(i)
      BY <1>0, HeldTyped
    <3>2. HasNext(i) /\ NextIn(i).kind = "data" => NextIn(i) \in Data(i)
      BY <1>0, NextTyped
    <3> QED BY <1>3, <3>1, <3>2 DEF InputBegins, InputData, Refuse, routineVars
  <2>3. \A j \in Inputs : ~sawFlush'[j] /\ iq'[j] \in Seq(Data(j))
    <3>1. CASE UNCHANGED <<iq, sawFlush>>
      BY <2>1, <3>1 DEF FlushInv
    <3>2. ASSUME NEW m \in Data(i), TrySend(i, m) PROVE \A j \in Inputs : ~sawFlush'[j] /\ iq'[j] \in Seq(Data(j))
      BY <1>0, <2>1, <3>2 DEF FlushInv, TrySend
    <3> QED BY <2>2, <3>1, <3>2
  <2> QED BY <2>1, <2>3 DEF FlushInv
<1>4. ASSUME NEW i \in Inputs, InputFlush(i) PROVE FlushInv'
  <2>1. /\ pc.phase = i /\ pc' = Idle /\ state' = "Flushing" /\ UNCHANGED sawFlush
        /\ iq' = [j \in Inputs |-> Append(iq[j], FlushItem(j))]
    BY <1>4 DEF InputFlush, Feeding, Flush, Stop
  <2>2. \A j \in Inputs : ~sawFlush[j] /\ iq[j] \in Seq(Data(j))
    BY <1>0, <2>1 DEF PhaseInv, FlushInv
  <2> QED BY <2>1, <2>2 DEF FlushInv, Idle
<1>5. ASSUME NEW i \in Inputs, InputMarker(i) \/ InputEmpty(i) \/ InputCloses(i) \/ InputYields(i)
      PROVE  FlushInv'
  <2>1. /\ pc.phase = i /\ pc' = Idle /\ state' \in {state, "MarkerReady", "CloseReady"}
        /\ UNCHANGED <<iq, sawFlush, hand>>
    BY <1>5 DEF InputMarker, InputEmpty, InputCloses, InputYields, Feeding, Stop, DropPhase,
                nodeVars, routineVars
  <2>2. state = "Running"
    BY <1>0, <2>1 DEF PhaseInv
  <2> QED BY <2>1, <2>2 DEF FlushInv, Idle
<1>6. ASSUME NEW i \in Inputs, WorkTakes(i) PROVE FlushInv'
  BY <1>6, FlushTakes
<1>7. CASE WorkBegins \/ WorkSends \/ WorkPends
  <2>1. UNCHANGED <<iq, sawFlush, state>> /\ (hand' = hand \/ hand' = <<>>) /\ pc'.phase # "fatal"
    BY <1>7 DEF WorkBegins, WorkSends, WorkPends, FutureSends, FutureParks, Stop, Idle, nodeVars,
                routineVars, FlushInv
  <2> QED BY <2>1 DEF FlushInv
<1>8. CASE WorkReady
  <2>1. state = "Flushing" /\ SegmentEnded
    BY <1>8, ReturnsFlushed
  <2>2. /\ state' = "FlushReady" /\ pc' = Idle /\ UNCHANGED hand /\ fut = "recv"
        /\ iq' = [i \in Inputs |-> <<>>] /\ sawFlush' = [i \in Inputs |-> FALSE]
    BY <1>8, <2>1 DEF WorkReady, Renew, FutureReturns, Stop
  <2>3. hand = <<>> /\ \A S : <<>> \in Seq(S)
    BY <1>0, <2>2 DEF RoutineTypes
  <2> QED BY <2>2, <2>3 DEF FlushInv, Idle
<1>9. CASE OutputBegins \/ OutputRetries \/ OutputDelivers \/ OutputYields
  <2>1. UNCHANGED <<iq, sawFlush, hand, state>>
    BY <1>9 DEF OutputBegins, OutputRetries, OutputDelivers, OutputYields, Pop, nodeVars, routineVars
  <2>2. pc'.phase # "fatal"
    <3>1. \/ pc' \in {pc, Idle, [phase |-> "output", left |-> Budget], [pc EXCEPT !.left = @ - 1]}
          \/ \E outcome : pc' = Halted(outcome)
      BY <1>9 DEF OutputBegins, OutputRetries, OutputDelivers, OutputYields, Stop
    <3>2. [pc EXCEPT !.left = @ - 1].phase = pc.phase
      BY DEF Base, Types, PhaseTypes
    <3>3. \A outcome : Halted(outcome).phase # "fatal"
      BY HaltedTyped
    <3>4. pc.phase # "fatal" /\ Idle.phase # "fatal"
      BY DEF FlushInv, Idle
    <3>5. CASE \E outcome : pc' = Halted(outcome)
      BY <3>3, <3>5
    <3>6. CASE pc' = [pc EXCEPT !.left = @ - 1]
      BY <3>2, <3>4, <3>6
    <3> QED BY <3>1, <3>4, <3>5, <3>6
  <2> QED BY <1>1, <2>1, <2>2
<1>10. CASE OutputDrained
  <2>1. /\ UNCHANGED <<iq, sawFlush, hand>>
        /\ state' = state \/ (state \in {"FlushReady", "MarkerReady"} /\ state' = "Forwarding")
        /\ pc' \in {pc, Idle, [phase |-> "close", left |-> 0]} \/ \E outcome : pc' = Halted(outcome)
    BY <1>10 DEF OutputDrained, PopNothing, Stop
  <2>2. pc'.phase # "fatal"
    BY <2>1, HaltedTyped DEF FlushInv, Idle
  <2> QED BY <2>1, <2>2 DEF FlushInv
<1>11. CASE OutputForwarded \/ OutputEnds
  <2>1. /\ UNCHANGED <<iq, sawFlush, hand>> /\ pc' = Idle
        /\ (state = "Forwarding" /\ state' = "Running") \/ state' = "Closed"
    BY <1>11 DEF OutputForwarded, OutputEnds, DropPhase, Stop, routineVars
  <2> QED BY <2>1 DEF FlushInv, Idle
<1>12. CASE \/ \E i \in Inputs : Upstream(i) \/ UpstreamCloses(i)
            \/ \E e \in Edges : Downstream(e) \/ DownstreamCloses(e)
            \/ Io \/ UNCHANGED vars
  <2>1. UNCHANGED <<iq, sawFlush, hand, state, pc>>
    BY <1>12 DEF Upstream, UpstreamCloses, Downstream, DownstreamCloses, Io, IoDone, vars, nodeVars,
                 routineVars
  <2> QED BY <1>1, <2>1 DEF FlushInv
<1> QED
  BY <1>2, <1>3, <1>4, <1>5, <1>6, <1>7, <1>8, <1>9, <1>10, <1>11, <1>12, Steps

\* A routine that keeps its contract never makes the node fail: its future
\* returns only in a flush, with every input queue read to its end.
THEOREM RoutineNeverFails == Spec => []NoFatal
<1>1. Init => Base /\ FlushInv
  BY Types0, Phase0, Flush0 DEF Base
<1>2. Base /\ FlushInv /\ [Next]_vars => Base' /\ FlushInv'
  BY Base1, Flush1
<1>3. Base /\ FlushInv => NoFatal
  BY DEF FlushInv, NoFatal
<1> QED
  BY <1>1, <1>2, <1>3, PTL DEF Spec

-----------------------------------------------------------------------------
(* Prefixes.                                                                 *)

LEMMA PrefixIs ==
  ASSUME NEW S, NEW s \in Seq(S), NEW t \in Seq(S)
  PROVE  IsPrefix(s, t) <=> Len(s) <= Len(t) /\ \A k \in 1 .. Len(s) : s[k] = t[k]
<1>0. Len(s) \in Nat /\ Len(t) \in Nat
  OBVIOUS
<1>1. ASSUME Len(s) <= Len(t)
      PROVE  /\ Len(SubSeq(s, 1, Len(s))) = Len(s) /\ Len(SubSeq(t, 1, Len(s))) = Len(s)
             /\ SubSeq(s, 1, Len(s)) \in Seq(S) /\ SubSeq(t, 1, Len(s)) \in Seq(S)
             /\ \A k \in 1 .. Len(s) : SubSeq(s, 1, Len(s))[k] = s[k] /\ SubSeq(t, 1, Len(s))[k] = t[k]
  BY <1>0, <1>1
<1>2. ASSUME Len(s) <= Len(t), \A k \in 1 .. Len(s) : s[k] = t[k]
      PROVE  SubSeq(s, 1, Len(s)) = SubSeq(t, 1, Len(s))
  BY <1>0, <1>1, <1>2
<1> QED
  BY <1>0, <1>1, <1>2 DEF IsPrefix

LEMMA PrefixOfConcat ==
  ASSUME NEW S, NEW s \in Seq(S), NEW t \in Seq(S)
  PROVE  IsPrefix(s, s \o t)
<1>1. s \o t \in Seq(S) /\ Len(s) <= Len(s \o t) /\ \A k \in 1 .. Len(s) : s[k] = (s \o t)[k]
  OBVIOUS
<1> QED
  BY <1>1, PrefixIs

LEMMA PrefixTrans ==
  ASSUME NEW S, NEW s \in Seq(S), NEW t \in Seq(S), NEW u \in Seq(S), IsPrefix(s, t), IsPrefix(t, u)
  PROVE  IsPrefix(s, u)
<1>1. Len(s) <= Len(t) /\ Len(t) <= Len(u) /\ Len(s) \in Nat /\ Len(t) \in Nat /\ Len(u) \in Nat
  BY PrefixIs
<1>2. \A k \in 1 .. Len(s) : s[k] = t[k]
  BY PrefixIs
<1>3. \A k \in 1 .. Len(t) : t[k] = u[k]
  BY PrefixIs
<1>4. \A k \in 1 .. Len(s) : k \in 1 .. Len(t)
  BY <1>1
<1> QED
  BY <1>1, <1>2, <1>3, <1>4, PrefixIs

-----------------------------------------------------------------------------
(* Lockstep.  While the node lives, every edge has what the last one has,    *)
(* and the edges before the one that refused the held message that message   *)
(* more.  A rotation that a closed edge ends leaves the edges the same way,  *)
(* and nothing is delivered after it.                                        *)

Whole == state # "Closed" /\ pc.phase # "fail"
LastEdge == delivered[NumEdges]

\* What every edge has taken, or is about to take.
Due == IF suspended = <<>> THEN LastEdge ELSE Append(LastEdge, suspended[1].msg)

Together ==
  \A e \in Edges :
    delivered[e] = IF suspended # <<>> /\ e < suspended[1].at
                   THEN Append(LastEdge, suspended[1].msg) ELSE LastEdge

\* Up to some edge before the last, one message more.
Apart ==
  \E c \in 0 .. NumEdges - 1, m \in Pushed :
    \A e \in Edges : delivered[e] = IF e <= c THEN Append(LastEdge, m) ELSE LastEdge

LockInv == Apart /\ (Whole => Together)

LEMMA EdgeNumbers ==
  NumEdges \in Edges /\ 1 \in Edges /\ \A e \in Edges : e \in Nat /\ 1 <= e /\ e <= NumEdges
BY DEF Edges

LEMMA Lock0 == Init => LockInv
<1> SUFFICES ASSUME Init PROVE LockInv
  OBVIOUS
<1>1. delivered = [e \in Edges |-> <<>>] /\ suspended = <<>>
  BY DEF Init
<1>2. PICK i \in Inputs : TRUE
  OBVIOUS
<1>3. [kind |-> "data", from |-> i, nth |-> 1] \in Pushed /\ 0 \in 0 .. NumEdges - 1
  BY DEF Pushed
<1>4. \A e \in Edges : ~(e <= 0) /\ delivered[e] = LastEdge
  BY <1>1, EdgeNumbers DEF LastEdge
<1> QED
  BY <1>1, <1>3, <1>4 DEF LockInv, Apart, Together

\* A rotation takes the edges from one such state to the next, and all of them
\* are then due what they were due, and the message.
LEMMA RotateLocks ==
  ASSUME NEW from \in Edges, NEW m \in Pushed, Rotate(from, m), EdgeTypes,
         \A e \in Edges : delivered[e] = IF e < from THEN Append(LastEdge, m) ELSE LastEdge
  PROVE  /\ Apart'
         /\ Outcome(from) # "closed" => Together' /\ Due' = Append(LastEdge, m)
         /\ \A e \in Edges : delivered'[e] \in {LastEdge, Append(LastEdge, m)}
<1> DEFINE r == Reached(from)
<1>0. /\ r \in Int /\ from - 1 <= r /\ r <= NumEdges /\ from \in Nat /\ 1 <= from
      /\ NumEdges \in Nat \ {0} /\ NumEdges \in Edges
      /\ \A e \in Edges : e \in Nat /\ 1 <= e /\ e <= NumEdges
  BY RotationStops, EdgeNumbers
<1>1. \A e \in Edges : delivered'[e] = IF e <= r THEN Append(LastEdge, m) ELSE LastEdge
  <2> SUFFICES ASSUME NEW e \in Edges
               PROVE  delivered'[e] = IF e <= r THEN Append(LastEdge, m) ELSE LastEdge
    OBVIOUS
  <2>1. delivered'[e] = IF e \in from .. r THEN Append(delivered[e], m) ELSE delivered[e]
    BY RotationLeaves
  <2> HIDE DEF r
  <2>2. CASE e < from
    BY <1>0, <2>1, <2>2
  <2>3. CASE ~(e < from)
    <3>1. delivered[e] = LastEdge /\ (e \in from .. r <=> e <= r)
      BY <1>0, <2>3
    <3> QED BY <2>1, <3>1
  <2> QED BY <2>2, <2>3
<1>2. CASE Outcome(from) = "complete"
  <2>1. r = NumEdges /\ suspended' = <<>>
    BY <1>2, RotationStops, RotationLeaves
  <2>2. LastEdge' = Append(LastEdge, m) /\ \A e \in Edges : delivered'[e] = LastEdge'
    BY <1>0, <1>1, <2>1 DEF LastEdge
  <2>3. Together' /\ Due' = Append(LastEdge, m)
    BY <2>1, <2>2 DEF Together, Due
  <2>4. Apart'
    <3>1. 0 \in 0 .. NumEdges - 1 /\ \A e \in Edges : ~(e <= 0)
      BY <1>0
    <3> QED BY <2>2, <3>1 DEF Apart
  <2> QED BY <1>1, <2>3, <2>4
<1>3. CASE Outcome(from) # "complete"
  <2>1. r + 1 \in Edges
    BY <1>3, RotationStops
  <2>2. r < NumEdges /\ r \in 0 .. NumEdges - 1
    BY <1>0, <2>1
  <2>3. LastEdge' = LastEdge
    BY <1>0, <1>1, <2>2 DEF LastEdge
  <2>4. Apart'
    BY <1>1, <2>2, <2>3 DEF Apart
  <2>5. ASSUME Outcome(from) = "suspended" PROVE Together' /\ Due' = Append(LastEdge, m)
    <3>1. suspended' = <<[at |-> r + 1, msg |-> m]>>
      BY <2>5, RotationLeaves
    <3> HIDE DEF r
    <3>2. suspended' # <<>> /\ suspended'[1].at = r + 1 /\ suspended'[1].msg = m
      BY <3>1
    <3>3. \A e \in Edges : e < r + 1 <=> e <= r
      BY <1>0
    <3> QED BY <1>1, <2>3, <3>2, <3>3 DEF Together, Due
  <2> QED BY <1>1, <1>3, <2>4, <2>5, RotationStops
<1> QED
  BY <1>2, <1>3

\* A closed node stays closed.
LEMMA ClosedStays ==
  ASSUME Base, [Next]_vars, state = "Closed"
  PROVE  UNCHANGED <<state, delivered>>
<1>0. PhaseInv /\ \A i \in Inputs : i # "none" /\ i # "fail"
  BY Names DEF Base
<1>1. pc.phase = "none"
  BY <1>0 DEF PhaseInv
<1> QED
  BY <1>0, <1>1, Steps DEF LeaveClosed, Swallow, InputBegins, InputData, InputFlush,
    InputMarker, InputEmpty, InputCloses, InputYields, WorkBegins, WorkSends, WorkPends, WorkReady,
    WorkTakes, OutputBegins, OutputRetries, OutputDelivers, OutputYields, OutputDrained, Draining,
    OutputForwarded, OutputEnds, Upstream, UpstreamCloses, Downstream, DownstreamCloses, Io, vars,
    nodeVars, edgeVars, Feeding

\* Nothing brings a node back from its end.
LEMMA WholeBack ==
  ASSUME Base, [Next]_vars, Whole'
  PROVE  Whole
<1>0. PhaseInv /\ \A i \in Inputs : i # "none" /\ i # "fail"
  BY Names DEF Base
<1>1. ASSUME state = "Closed" PROVE FALSE
  BY <1>1, ClosedStays DEF Whole
<1>2. ASSUME pc.phase = "fail" PROVE FALSE
  <2>1. UNCHANGED pc \/ OutputEnds
    <3>0. pc # Idle /\ pc.phase \notin {"work", "output"} /\ \A i \in Inputs : pc.phase # i
      BY <1>0, <1>2 DEF Idle
    <3>1. ~\E p \in Phases : LeaveClosed(p) \/ Swallow(p)
      BY <3>0 DEF LeaveClosed, Swallow, Begin
    <3>2. ~\E i \in Inputs : \/ InputBegins(i) \/ InputData(i) \/ InputFlush(i) \/ InputMarker(i)
                              \/ InputEmpty(i) \/ InputCloses(i) \/ InputYields(i)
      BY <3>0 DEF InputBegins, Begin, InputData, InputFlush, InputMarker, InputEmpty, InputCloses,
                  InputYields, Feeding
    <3>3. ~(WorkBegins \/ WorkSends \/ WorkPends \/ WorkReady \/ \E i \in Inputs : WorkTakes(i))
      BY <3>0 DEF WorkBegins, Begin, WorkSends, WorkPends, WorkReady, WorkTakes
    <3>4. ~(\/ OutputBegins \/ OutputRetries \/ OutputDelivers \/ OutputYields \/ OutputDrained
            \/ OutputForwarded)
      BY <3>0 DEF OutputBegins, Begin, OutputRetries, OutputDelivers, OutputYields, OutputDrained,
                  OutputForwarded, Draining
    <3>5. ASSUME \/ \E i \in Inputs : Upstream(i) \/ UpstreamCloses(i)
                 \/ \E e \in Edges : Downstream(e) \/ DownstreamCloses(e)
                 \/ Io \/ UNCHANGED vars
          PROVE  UNCHANGED pc
      BY <3>5 DEF Upstream, UpstreamCloses, Downstream, DownstreamCloses, Io, vars
    <3> QED BY <3>1, <3>2, <3>3, <3>4, <3>5, Steps
  <2> QED BY <1>2, <2>1 DEF Whole, OutputEnds
<1> QED
  BY <1>1, <1>2 DEF Whole

\* A rotation under way: what it carries, where it starts, and how the edges
\* stood before it.
Carries(from, m) ==
  /\ from \in Edges /\ m \in Pushed /\ Rotate(from, m)
  /\ \A e \in Edges : delivered[e] = IF e < from THEN Append(LastEdge, m) ELSE LastEdge

LEMMA RotationCarries ==
  ASSUME Base, LockInv, OutputRetries \/ OutputDelivers \/ OutputDrained
  PROVE  \/ /\ OutputDrained /\ suspended = <<>> /\ state \notin {"FlushReady", "MarkerReady"}
            /\ UNCHANGED <<delivered, suspended, owesPop>>
         \/ OutputRetries /\ suspended # <<>> /\ Carries(suspended[1].at, suspended[1].msg)
         \/ OutputDelivers /\ suspended = <<>> /\ oq # <<>> /\ Carries(1, oq[1])
         \/ /\ OutputDrained /\ suspended = <<>> /\ state \in {"FlushReady", "MarkerReady"}
            /\ signal # <<>> /\ Carries(1, signal[1])
<1>0. Types /\ PhaseInv
  BY DEF Base
<1>1. Together
  BY <1>0 DEF LockInv, Whole, PhaseInv, OutputRetries, OutputDelivers, OutputDrained, Draining
<1>2. ASSUME suspended = <<>>, NEW m
      PROVE  \A e \in Edges : delivered[e] = IF e < 1 THEN Append(LastEdge, m) ELSE LastEdge
  BY <1>1, <1>2, EdgeNumbers DEF Together
<1>3. ASSUME suspended # <<>>
      PROVE  \A e \in Edges : delivered[e] = IF e < suspended[1].at
                                             THEN Append(LastEdge, suspended[1].msg) ELSE LastEdge
  BY <1>1, <1>3 DEF Together
<1> QED
  BY <1>0, <1>2, <1>3, Rotations DEF Carries

\* A rotation a closed edge ended fails the poll.
LEMMA ClosedFails ==
  ASSUME NEW from, NEW m, Base, Whole',
         \/ OutputRetries /\ suspended # <<>> /\ from = suspended[1].at
         \/ OutputDelivers /\ from = 1
         \/ OutputDrained /\ state \in {"FlushReady", "MarkerReady"} /\ from = 1
  PROVE  Outcome(from) # "closed"
<1> SUFFICES ASSUME Outcome(from) = "closed" PROVE FALSE
  OBVIOUS
<1>1. pc' = Halted("closed")
  BY DEF OutputRetries, OutputDelivers, OutputDrained
<1> QED
  BY <1>1, HaltedTyped DEF Whole

LEMMA Lock1 == Base /\ LockInv /\ [Next]_vars => LockInv'
<1> SUFFICES ASSUME Base, LockInv, [Next]_vars PROVE LockInv'
  OBVIOUS
<1>0. EdgeTypes
  BY DEF Base, Types
<1>1. CASE OutputRetries \/ OutputDelivers \/ OutputDrained
  <2>1. CASE UNCHANGED <<delivered, suspended, owesPop>>
    BY <2>1, WholeBack DEF LockInv, Apart, Together, LastEdge
  <2>2. ASSUME NEW from, NEW m, Carries(from, m),
               \/ OutputRetries /\ suspended # <<>> /\ from = suspended[1].at
               \/ OutputDelivers /\ from = 1
               \/ OutputDrained /\ state \in {"FlushReady", "MarkerReady"} /\ from = 1
        PROVE  LockInv'
    BY <1>0, <2>2, RotateLocks, ClosedFails DEF LockInv, Carries
  <2> QED BY <1>1, <2>1, <2>2, RotationCarries
<1>2. CASE ~(OutputRetries \/ OutputDelivers \/ OutputDrained)
  <2>1. /\ UNCHANGED delivered
        /\ suspended' = suspended \/ state' = "Closed"
    BY <1>2, EdgesStay DEF OutputEnds
  <2> QED BY <2>1, WholeBack DEF LockInv, Apart, Together, LastEdge, Whole
<1> QED
  BY <1>1, <1>2

\* The output's edges never drift apart: each edge has what a later edge has,
\* and at most the message being rotated more.
THEOREM EdgesKeepLockstep == Spec => []EdgesInLockstep
<1>1. Init => Base /\ LockInv
  BY Types0, Phase0, Lock0 DEF Base
<1>2. Base /\ LockInv /\ [Next]_vars => Base' /\ LockInv'
  BY Base1, Lock1
<1>3. Base /\ LockInv => EdgesInLockstep
  <2> SUFFICES ASSUME Base, LockInv, NEW e \in Edges, NEW f \in e .. NumEdges
               PROVE  /\ IsPrefix(delivered[f], delivered[e])
                      /\ Len(delivered[e]) - Len(delivered[f]) <= 1
    BY DEF EdgesInLockstep
  <2>1. PICK c \in 0 .. NumEdges - 1, m \in Pushed :
           \A g \in Edges : delivered[g] = IF g <= c THEN Append(LastEdge, m) ELSE LastEdge
    BY DEF LockInv, Apart
  <2>2. e \in Nat /\ 1 <= e /\ f \in Edges /\ f \in Nat /\ e <= f
    BY EdgeNumbers DEF Edges
  <2>3. LastEdge \in Seq(Pushed)
    BY EdgeNumbers DEF Base, Types, EdgeTypes, LastEdge
  <2> DEFINE more == Append(LastEdge, m)
  <2>4. more \in Seq(Pushed) /\ more = LastEdge \o <<m>> /\ <<m>> \in Seq(Pushed) /\ <<>> \in Seq(Pushed)
        /\ Len(more) = Len(LastEdge) + 1 /\ Len(LastEdge) \in Nat
    BY <2>3
  <2>5. IsPrefix(LastEdge, more) /\ IsPrefix(LastEdge, LastEdge) /\ IsPrefix(more, more)
    <3>1. LastEdge \o <<>> = LastEdge /\ more \o <<>> = more
      BY <2>3, <2>4
    <3> QED BY ONLY <2>3, <2>4, <3>1, PrefixOfConcat
  <2> HIDE DEF more
  <2>6. \/ delivered[e] = more /\ delivered[f] = more
        \/ delivered[e] = more /\ delivered[f] = LastEdge
        \/ delivered[e] = LastEdge /\ delivered[f] = LastEdge
    <3>1. /\ delivered[e] = IF e <= c THEN more ELSE LastEdge
          /\ delivered[f] = IF f <= c THEN more ELSE LastEdge
      BY <2>1, <2>2 DEF more
    <3>2. f <= c => e <= c
      BY <2>2
    <3> QED BY <3>1, <3>2
  <2>7. /\ Len(more) - Len(more) <= 1 /\ Len(more) - Len(LastEdge) <= 1
        /\ Len(LastEdge) - Len(LastEdge) <= 1
    <3> DEFINE l == Len(LastEdge)
    <3>1. l \in Nat /\ Len(more) = l + 1
      BY <2>4
    <3> HIDE DEF l
    <3>2. (l + 1) - (l + 1) <= 1 /\ (l + 1) - l <= 1 /\ l - l <= 1
      BY <3>1
    <3> QED BY <3>1, <3>2 DEF l
  <2> QED BY ONLY <2>5, <2>6, <2>7
<1> QED
  BY <1>1, <1>2, <1>3, PTL DEF Spec

-----------------------------------------------------------------------------
(* What of a sequence is of one side: its data and its Flushes.              *)

Side(i) == [kind : {"data", "flush"}, from : {i}, nth : Nat \ {0}]
Traffic == Item \cup Pushed

LEMMA Anything ==
  /\ AnyData \subseteq Traffic /\ Pushed \subseteq Traffic /\ Item \subseteq Traffic
  /\ \A i \in Inputs : Data(i) \subseteq Traffic /\ FlushItem(i) \in Traffic
BY Kinds DEF Traffic

LEMMA SideTyped ==
  ASSUME NEW i \in Inputs, NEW q \in Seq(Traffic)
  PROVE  OfSide(q, i) \in Seq(Side(i))
<1>1. Only(q, Side(i)) \in Seq(Traffic \cap Side(i))
  BY OnlyType
<1>2. Seq(Traffic \cap Side(i)) \subseteq Seq(Side(i))
  <2>1. \A S, T : S \subseteq T => Seq(S) \subseteq Seq(T)
    OBVIOUS
  <2> QED BY <2>1
<1>3. OfSide(q, i) = Only(q, Side(i))
  BY DEF OfSide, Side
<1> QED
  BY <1>1, <1>2, <1>3

LEMMA SideEmpty == \A i \in Inputs : OfSide(<<>>, i) = <<>>
BY OnlyEmpty DEF OfSide

LEMMA SideAppend ==
  ASSUME NEW i \in Inputs, NEW q \in Seq(Traffic), NEW m \in Traffic
  PROVE  /\ OfSide(Append(q, m), i) = OfSide(q, i) \o OfSide(<<m>>, i)
         /\ OfSide(<<m>>, i) = IF m \in Side(i) THEN <<m>> ELSE <<>>
         /\ OfSide(<<m>>, i) \in Seq(Side(i))
<1>1. <<m>> \in Seq(Traffic) /\ Append(q, m) = q \o <<m>>
  OBVIOUS
<1>2. Only(q \o <<m>>, Side(i)) = Only(q, Side(i)) \o Only(<<m>>, Side(i))
  BY <1>1, OnlyConcat
<1>3. Only(<<m>>, Side(i)) = IF m \in Side(i) THEN <<m>> ELSE <<>>
  BY OnlyOne
<1>4. \A s : OfSide(s, i) = Only(s, Side(i))
  BY DEF OfSide, Side
<1> DEFINE x == <<m>>
<1>5. Append(q, m) = q \o x /\ x \in Seq(Traffic) /\ Only(q \o x, Side(i)) = Only(q, Side(i)) \o Only(x, Side(i))
      /\ Only(x, Side(i)) = IF m \in Side(i) THEN x ELSE <<>>
  BY <1>1, <1>2, <1>3
<1> HIDE DEF x
<1>6. /\ OfSide(Append(q, m), i) = OfSide(q, i) \o OfSide(x, i)
      /\ OfSide(x, i) = IF m \in Side(i) THEN x ELSE <<>>
  BY ONLY <1>4, <1>5
<1>7. OfSide(x, i) \in Seq(Side(i))
  BY ONLY <1>5, SideTyped, i \in Inputs
<1> QED
  BY <1>6, <1>7 DEF x

LEMMA SideFirst ==
  ASSUME NEW i \in Inputs, NEW q \in Seq(Traffic), q # <<>>
  PROVE  /\ OfSide(q, i) = OfSide(<<q[1]>>, i) \o OfSide(Tail(q), i)
         /\ q[1] \in Traffic /\ Tail(q) \in Seq(Traffic)
<1> DEFINE t == Tail(q)
           h == <<q[1]>>
<1>1. q = h \o t /\ q[1] \in Traffic /\ t \in Seq(Traffic)
  BY FirstAndRest
<1>2. h \in Seq(Traffic)
  BY <1>1
<1>4. \A s : OfSide(s, i) = Only(s, Side(i))
  BY DEF OfSide, Side
<1> HIDE DEF t, h
<1>3. Only(h \o t, Side(i)) = Only(h, Side(i)) \o Only(t, Side(i))
  BY ONLY <1>1, <1>2, OnlyConcat
<1>5. OfSide(q, i) = Only(h \o t, Side(i))
  BY ONLY <1>1, <1>4
<1>6. OfSide(q, i) = OfSide(h, i) \o OfSide(t, i) /\ q[1] \in Traffic /\ t \in Seq(Traffic)
  BY ONLY <1>1, <1>3, <1>4, <1>5
<1> QED
  BY <1>6 DEF t, h

\* Which messages are of a side.
LEMMA SideOf ==
  ASSUME NEW i \in Inputs, NEW j \in Inputs
  PROVE  /\ \A m \in Data(j) : i # j => m \notin Side(i)
         /\ \A m \in Pushed : m.kind = "flush" /\ m.from # i => m \notin Side(i)
         /\ \A m \in Pushed : m.kind = "marker" => m \notin Side(i)
         /\ FlushItem(j) \notin Side(i)
BY DEF Side, Data, Pushed, FlushItem

-----------------------------------------------------------------------------
(* Sequences joined.                                                         *)

LEMMA Joined ==
  ASSUME NEW S, NEW a \in Seq(S), NEW b \in Seq(S)
  PROVE  a \o b \in Seq(S) /\ <<>> \in Seq(S) /\ a \o <<>> = a /\ <<>> \o a = a
OBVIOUS

\* x passes from the front of one part to the end of the part before it.
LEMMA Shift ==
  ASSUME NEW S, NEW a \in Seq(S), NEW x \in Seq(S), NEW b \in Seq(S), NEW r \in Seq(S)
  PROVE  (a \o x) \o (b \o r) = a \o ((x \o b) \o r)
<1>1. b \o r \in Seq(S)
  BY Joined
<1>2. (a \o x) \o (b \o r) = a \o (x \o (b \o r))
  BY <1>1, ConcatAssociative
<1>3. x \o (b \o r) = (x \o b) \o r
  BY ConcatAssociative
<1> QED
  BY <1>2, <1>3

-----------------------------------------------------------------------------
(* The signal that waits is the one its state says, and nothing its side     *)
(* pushed before it is still held at the Input.                              *)

SignalInv ==
  signal # <<>> =>
    /\ signal[1].kind = IF state = "MarkerReady" THEN "marker" ELSE "flush"
    /\ held[signal[1].from] = <<>>

LEMMA Signal0 == Init => SignalInv
BY DEF Init, SignalInv

LEMMA Signal1 == Base /\ SignalInv /\ [Next]_vars => SignalInv'
<1> SUFFICES ASSUME Base, SignalInv, [Next]_vars PROVE SignalInv'
  OBVIOUS
<1>0. PhaseInv /\ InletTypes
  BY DEF Base, Types
<1>1. ASSUME NEW p \in Phases, LeaveClosed(p) \/ Swallow(p) PROVE SignalInv'
  <2>1. UNCHANGED <<state, signal, held>> \/ (state \in {"CloseReady", "Closed"} /\ UNCHANGED signal)
    BY <1>1 DEF LeaveClosed, Swallow, nodeVars
  <2> QED BY <1>0, <2>1 DEF SignalInv, PhaseInv
<1>2. ASSUME NEW i \in Inputs, InputBegins(i) \/ InputData(i) \/ InputCloses(i) PROVE SignalInv'
  <2>1. state = "Running" /\ UNCHANGED signal
    BY <1>0, <1>2 DEF InputBegins, InputData, InputCloses, Drains, Feeding, PhaseInv
  <2> QED BY <1>0, <2>1 DEF SignalInv, PhaseInv
<1>3. ASSUME NEW i \in Inputs, InputFlush(i) \/ InputMarker(i) PROVE SignalInv'
  <2>1. /\ HasNext(i) /\ signal' = <<NextIn(i)>> /\ UNCHANGED held /\ pc.phase = i
        /\ \/ state' = "Flushing" /\ NextIn(i).kind = "flush"
           \/ state' = "MarkerReady" /\ NextIn(i).kind = "marker"
    BY <1>3 DEF InputFlush, InputMarker, Feeding
  <2>2. NextIn(i).from = i /\ held[i] = <<>>
    BY <1>0, <2>1, NextTyped DEF PhaseInv
  <2> HIDE DEF NextIn
  <2>3. signal'[1] = NextIn(i)
    BY <2>1
  <2> QED BY <2>1, <2>2, <2>3 DEF SignalInv
<1>4. ASSUME NEW i \in Inputs, InputEmpty(i) \/ InputYields(i) PROVE SignalInv'
  BY <1>4 DEF InputEmpty, InputYields, nodeVars, SignalInv
<1>5. CASE WorkBegins \/ WorkSends \/ WorkPends \/ WorkReady \/ \E i \in Inputs : WorkTakes(i)
  <2>1. /\ UNCHANGED <<signal, held>>
        /\ state' = state \/ (state = "Flushing" /\ state' = "FlushReady")
    BY <1>5 DEF WorkBegins, WorkSends, WorkPends, WorkReady, WorkTakes, nodeVars
  <2> QED BY <2>1 DEF SignalInv
<1>6. CASE \/ OutputBegins \/ OutputRetries \/ OutputDelivers \/ OutputYields \/ OutputDrained
           \/ OutputForwarded \/ OutputEnds
  <2>1. /\ UNCHANGED held
        /\ \/ signal' = <<>>
           \/ UNCHANGED <<state, signal>>
           \/ state = "Forwarding" /\ UNCHANGED signal
    BY <1>6 DEF OutputBegins, OutputRetries, OutputDelivers, OutputYields, OutputDrained,
                OutputForwarded, OutputEnds, nodeVars
  <2> QED BY <1>0, <2>1 DEF SignalInv, PhaseInv
<1>7. CASE \/ \E i \in Inputs : Upstream(i) \/ UpstreamCloses(i)
           \/ \E e \in Edges : Downstream(e) \/ DownstreamCloses(e)
           \/ Io \/ UNCHANGED vars
  <2>1. UNCHANGED <<state, signal, held>>
    BY <1>7 DEF Upstream, UpstreamCloses, Downstream, DownstreamCloses, Io, vars, nodeVars
  <2> QED BY <2>1 DEF SignalInv
<1> QED
  BY <1>1, <1>2, <1>3, <1>4, <1>5, <1>6, <1>7, Steps

-----------------------------------------------------------------------------
(* Ends.  A side that no longer feeds the node has been read to its end; the *)
(* node closes on its own only when every side has; and it is a consumer who *)
(* leaves when a rotation fails.                                             *)

CloseInv ==
  /\ \A i \in Inputs : ~open[i] => inClosed[i] /\ read[i] = Len(sent[i])
  /\ state = "CloseReady" => \A i \in Inputs : ~open[i]
  /\ \A e \in Edges : edge[e] = "tx" => state = "Closed"
  /\ pc.phase = "fail" => \E e \in Edges : edge[e] = "rx"

LEMMA Close0 == Init => CloseInv
BY DEF Init, CloseInv, Idle

\* A closed edge stays as it is, and a consumer that left stays away.
LEMMA LeftStays ==
  ASSUME Base, [Next]_vars
  PROVE  /\ \A e \in Edges : edge[e] = "rx" => edge'[e] = "rx"
         /\ \A e \in Edges : edge'[e] = "tx" => edge[e] = "tx" \/ state' = "Closed"
<1>0. edge \in [Edges -> {"open", "tx", "rx"}] /\ PhaseInv
  BY DEF Base, Types, EdgeTypes
<1>1. ASSUME NEW p \in Phases, LeaveClosed(p)
      PROVE  /\ \A e \in Edges : edge[e] = "rx" => edge'[e] = "rx"
             /\ \A e \in Edges : edge'[e] = "tx" => edge[e] = "tx" \/ state' = "Closed"
  <2>1. SharedDropped(p) => state' = "Closed"
    BY <1>0, <1>1, Names DEF LeaveClosed, SharedDropped, PhaseInv
  <2>2. edge' = EdgesAfter(p)
    BY <1>1 DEF LeaveClosed
  <2> QED BY <2>1, <2>2 DEF EdgesAfter
<1>2. ASSUME OutputEnds
      PROVE  /\ \A e \in Edges : edge[e] = "rx" => edge'[e] = "rx"
             /\ \A e \in Edges : edge'[e] = "tx" => edge[e] = "tx" \/ state' = "Closed"
  BY <1>2 DEF OutputEnds, EdgesAfter
<1>3. ASSUME NEW e \in Edges, DownstreamCloses(e)
      PROVE  /\ \A f \in Edges : edge[f] = "rx" => edge'[f] = "rx"
             /\ \A f \in Edges : edge'[f] = "tx" => edge[f] = "tx" \/ state' = "Closed"
  BY <1>0, <1>3 DEF DownstreamCloses
<1>4. \/ \E p \in Phases : LeaveClosed(p)
      \/ OutputEnds \/ UNCHANGED edge
      \/ \E e \in Edges : DownstreamCloses(e)
  BY Steps DEF Swallow, InputBegins, InputData, InputFlush, InputMarker, InputEmpty,
     InputCloses, InputYields, WorkBegins, WorkSends, WorkPends, WorkReady, WorkTakes, OutputBegins,
     OutputRetries, OutputDelivers, OutputYields, OutputDrained, OutputForwarded, Upstream,
     UpstreamCloses, Downstream, Io, vars, edgeVars
<1> QED
  BY <1>1, <1>2, <1>3, <1>4

\* A poll fails where a rotation met a closed edge.
LEMMA FailsClosed ==
  ASSUME Base, CloseInv, [Next]_vars, pc'.phase = "fail"
  PROVE  \E e \in Edges : edge'[e] = "rx"
<1>0. PhaseInv /\ Types /\ (\A i \in Inputs : i # "fail") /\ EdgeTypes
  BY Names DEF Base, Types
<1>1. CASE pc.phase = "fail"
  BY <1>1, LeftStays DEF CloseInv
<1>2. CASE pc.phase # "fail"
  <2>1. OutputRetries \/ OutputDelivers \/ OutputDrained
    <3>1. pc' = pc \/ pc'.phase \in Inputs \cup {"none", "work", "output", "close", "fatal"} \/ pc'.phase = pc.phase
          \/ OutputRetries \/ OutputDelivers \/ OutputDrained
      <4>0. [pc EXCEPT !.left = @ - 1].phase = pc.phase
        BY <1>0 DEF Types, PhaseTypes
      <4>1. ASSUME NEW p \in Phases, LeaveClosed(p) \/ Swallow(p) PROVE pc' = Idle \/ pc' = pc
        BY <4>1 DEF LeaveClosed, Swallow, Stop, DropPhase
      <4>2. ASSUME NEW i \in Inputs, \/ InputBegins(i) \/ InputData(i) \/ InputFlush(i) \/ InputMarker(i)
                              \/ InputEmpty(i) \/ InputCloses(i) \/ InputYields(i)
            PROVE  pc' \in {pc, Idle, [phase |-> i, left |-> Budget], [pc EXCEPT !.left = @ - 1]}
        BY <4>2 DEF InputBegins, InputData, InputFlush, InputMarker, InputEmpty, InputCloses,
                    InputYields, Stop, DropPhase
      <4>3. ASSUME WorkBegins \/ WorkSends \/ WorkPends \/ WorkReady \/ \E i \in Inputs : WorkTakes(i)
            PROVE  pc' \in {pc, Idle, [phase |-> "work", left |-> 0], [phase |-> "fatal", left |-> 0]}
        BY <4>3 DEF WorkBegins, WorkSends, WorkPends, WorkReady, WorkTakes, Stop
      <4>4. ASSUME OutputBegins \/ OutputYields \/ OutputForwarded \/ OutputEnds
            PROVE  pc' \in {Idle, [phase |-> "output", left |-> Budget]}
        BY <4>4 DEF OutputBegins, OutputYields, OutputForwarded, OutputEnds, Stop, DropPhase
      <4>5. ASSUME \/ \E i \in Inputs : Upstream(i) \/ UpstreamCloses(i)
                   \/ \E e \in Edges : Downstream(e) \/ DownstreamCloses(e)
                   \/ Io \/ UNCHANGED vars
            PROVE  pc' = pc
        BY <4>5 DEF Upstream, UpstreamCloses, Downstream, DownstreamCloses, Io, vars
      <4>6. Idle.phase = "none"
        BY DEF Idle
      <4>7. \A i \in Inputs : [phase |-> i, left |-> Budget].phase = i
        OBVIOUS
      <4>8. [phase |-> "work", left |-> 0].phase = "work" /\ [phase |-> "fatal", left |-> 0].phase = "fatal"
            /\ [phase |-> "output", left |-> Budget].phase = "output"
        OBVIOUS
      <4> QED BY <4>0, <4>1, <4>2, <4>3, <4>4, <4>5, <4>6, <4>7, <4>8, Steps
    <3> QED BY <1>0, <1>2, <3>1
  <2>2. PICK from \in Edges : Outcome(from) = "closed" /\ UNCHANGED edge
    <3>1. CASE OutputRetries
      <4>1. /\ pc' = pc \/ pc' = Halted(Outcome(suspended[1].at))
            /\ suspended # <<>> /\ UNCHANGED edge
        BY <3>1 DEF OutputRetries
      <4>2. suspended[1].at \in Edges
        BY <1>0, <4>1, SuspendedTyped
      <4> QED BY <1>2, <4>1, <4>2, HaltedTyped
    <3>2. CASE OutputDelivers
      <4>1. /\ pc' = [pc EXCEPT !.left = @ - 1] \/ pc' = Halted(Outcome(1))
            /\ UNCHANGED edge
        BY <3>2 DEF OutputDelivers
      <4>2. [pc EXCEPT !.left = @ - 1].phase = pc.phase
        BY <1>0 DEF Types, PhaseTypes
      <4> QED BY <1>2, <4>1, <4>2, HaltedTyped, EdgeNumbers
    <3>3. CASE OutputDrained
      <4>1. /\ pc' = pc \/ pc' = Halted(Outcome(1)) \/ pc' = [phase |-> "close", left |-> 0] \/ pc' = Idle
            /\ UNCHANGED edge
        BY <3>3 DEF OutputDrained, Stop
      <4>2. [phase |-> "close", left |-> 0].phase = "close" /\ Idle.phase = "none"
        BY DEF Idle
      <4> QED BY <1>2, <4>1, <4>2, HaltedTyped, EdgeNumbers
    <3> QED BY <2>1, <3>1, <3>2, <3>3
  <2>3. Reached(from) + 1 \in Edges /\ edge[Reached(from) + 1] # "open"
    BY <2>2, RotationStops
  <2>4. state # "Closed"
    BY <1>0, <2>1 DEF PhaseInv, OutputRetries, OutputDelivers, OutputDrained, Draining
  <2>5. edge[Reached(from) + 1] = "rx"
    BY <1>0, <2>3, <2>4 DEF CloseInv, EdgeTypes
  <2> QED BY <2>2, <2>3, <2>5
<1> QED
  BY <1>1, <1>2

LEMMA Close1 == Base /\ CloseInv /\ [Next]_vars => CloseInv'
<1> SUFFICES ASSUME Base, CloseInv, [Next]_vars PROVE CloseInv'
  OBVIOUS
<1>0. PhaseInv /\ InletTypes /\ Types /\ sent \in [Inputs -> Seq(Pushed)]
  BY DEF Base, Types, InletTypes
<1> DEFINE Sides == /\ \A i \in Inputs : ~open[i] => inClosed[i] /\ read[i] = Len(sent[i])
                    /\ state = "CloseReady" => \A i \in Inputs : ~open[i]
<1>1. Sides'
  <2>0. Sides
    BY DEF CloseInv
  <2>1. ASSUME NEW i \in Inputs, Upstream(i) PROVE Sides'
    <3>1. /\ open[i] /\ UNCHANGED <<open, inClosed, read, state>>
          /\ \A j \in Inputs \ {i} : sent'[j] = sent[j]
      BY <1>0, <2>0, <2>1 DEF Upstream, nodeVars, InletTypes
    <3> QED BY <2>0, <3>1
  <2>2. ASSUME NEW i \in Inputs, UpstreamCloses(i) PROVE Sides'
    <3>1. inClosed' = [inClosed EXCEPT ![i] = TRUE] /\ UNCHANGED <<open, read, state, sent>>
      BY <2>2 DEF UpstreamCloses, nodeVars
    <3> QED BY <1>0, <2>0, <3>1 DEF InletTypes
  <2>3. ASSUME NEW p \in Phases, LeaveClosed(p) PROVE Sides'
    <3>1. (\A i \in Inputs : inClosed[i] => inClosed'[i]) /\ UNCHANGED <<open, read, state, sent>>
      BY <2>3 DEF LeaveClosed, InletsAfter
    <3> QED BY <2>0, <3>1
  <2>4. CASE OutputEnds
    <3>1. /\ \A i \in Inputs : inClosed[i] => inClosed'[i]
          /\ UNCHANGED <<open, read, sent>> /\ state' = "Closed"
      BY <2>4 DEF OutputEnds, InletsAfter
    <3> QED BY <2>0, <3>1
  <2>5. ASSUME NEW i \in Inputs, InputCloses(i) PROVE Sides'
    <3>1. /\ open' = [open EXCEPT ![i] = FALSE] /\ UNCHANGED <<inClosed, read, sent>>
          /\ inClosed[i] /\ ~(read[i] < Len(sent[i]))
          /\ \/ state' = "CloseReady" /\ \A j \in Inputs \ {i} : ~open[j]
             \/ UNCHANGED state
          /\ pc.phase = i
      BY <2>5 DEF InputCloses, inletVars, HasNext, LastInput, Feeding
    <3>2. read[i] = Len(sent[i]) /\ state = "Running"
      <4>1. read[i] \in Nat /\ Len(sent[i]) \in Nat /\ read[i] <= Len(sent[i])
        BY <1>0 DEF InletTypes
      <4> QED BY <1>0, <3>1, <4>1 DEF PhaseInv
    <3> QED BY <1>0, <2>0, <3>1, <3>2 DEF InletTypes
  <2>6. ASSUME NEW i \in Inputs, InputData(i) \/ InputFlush(i) \/ InputMarker(i) PROVE Sides'
    <3>1. /\ pc.phase = i /\ read' = [read EXCEPT ![i] = @ + 1] /\ UNCHANGED <<open, inClosed, sent>>
          /\ state' # "CloseReady" \/ UNCHANGED state
      BY <2>6 DEF InputData, InputFlush, InputMarker, Feeding, Advance
    <3>2. open[i]
      BY <1>0, <3>1 DEF PhaseInv
    <3> QED BY <1>0, <2>0, <3>1, <3>2 DEF InletTypes
  <2>7. CASE UNCHANGED <<open, inClosed, read, sent>> /\ (state' = state \/ state' # "CloseReady")
    BY <2>0, <2>7
  <2>8. \/ \E i \in Inputs : Upstream(i) \/ UpstreamCloses(i) \/ InputCloses(i) \/ InputData(i)
                             \/ InputFlush(i) \/ InputMarker(i)
        \/ \E p \in Phases : LeaveClosed(p)
        \/ OutputEnds
        \/ UNCHANGED <<open, inClosed, read, sent>> /\ (state' = state \/ state' # "CloseReady")
    <3>1. ASSUME NEW p \in Phases, Swallow(p) PROVE UNCHANGED <<open, inClosed, read, sent, state>>
      BY <3>1 DEF Swallow, nodeVars, inletVars
    <3>2. ASSUME NEW i \in Inputs, InputBegins(i) \/ InputEmpty(i) \/ InputYields(i)
          PROVE  UNCHANGED <<open, inClosed, read, sent, state>>
      BY <3>2 DEF InputBegins, InputEmpty, InputYields, nodeVars, inletVars
    <3>3. ASSUME WorkBegins \/ WorkSends \/ WorkPends \/ WorkReady \/ \E i \in Inputs : WorkTakes(i)
          PROVE  UNCHANGED <<open, inClosed, read, sent>> /\ (state' = state \/ state' # "CloseReady")
      BY <3>3 DEF WorkBegins, WorkSends, WorkPends, WorkReady, WorkTakes, nodeVars, inletVars
    <3>4. ASSUME OutputBegins \/ OutputRetries \/ OutputDelivers \/ OutputYields \/ OutputDrained
                 \/ OutputForwarded
          PROVE  UNCHANGED <<open, inClosed, read, sent>> /\ (state' = state \/ state' # "CloseReady")
      BY <3>4 DEF OutputBegins, OutputRetries, OutputDelivers, OutputYields, OutputDrained,
                  OutputForwarded, nodeVars, inletVars
    <3>5. ASSUME \/ \E e \in Edges : Downstream(e) \/ DownstreamCloses(e)
                 \/ Io \/ UNCHANGED vars
          PROVE  UNCHANGED <<open, inClosed, read, sent, state>>
      BY <3>5 DEF Downstream, DownstreamCloses, Io, vars, nodeVars, inletVars
    <3> QED BY <3>1, <3>2, <3>3, <3>4, <3>5, Steps
  <2> QED BY <2>1, <2>2, <2>3, <2>4, <2>5, <2>6, <2>7, <2>8
<1>2. \A e \in Edges : edge'[e] = "tx" => state' = "Closed"
  <2>1. state = "Closed" => state' = "Closed"
    BY ClosedStays
  <2> QED BY <2>1, LeftStays DEF CloseInv
<1>3. pc'.phase = "fail" => \E e \in Edges : edge'[e] = "rx"
  BY FailsClosed
<1> QED
  BY <1>1, <1>2, <1>3 DEF CloseInv

-----------------------------------------------------------------------------
(* The line.  While the node lives, what of a side is due on the edges, in   *)
(* the output queue, in the future's hand, in the input queue, in the signal *)
(* that waits and at the Input is, in this order, all the node read.         *)

Got(i) == OfSide(SubSeq(sent[i], 1, read[i]), i)

Rest(i) ==
  OfSide(oq, i) \o (OfSide(hand, i) \o (OfSide(iq[i], i) \o (OfSide(signal, i) \o OfSide(held[i], i))))

LineInv == Whole => \A i \in Inputs : OfSide(Due, i) \o Rest(i) = Got(i)

PrefixInv == \A e \in Edges, i \in Inputs : IsPrefix(OfSide(delivered[e], i), Got(i))

LEMMA PartsTyped ==
  ASSUME Types
  PROVE  /\ oq \in Seq(Traffic) /\ hand \in Seq(Traffic) /\ signal \in Seq(Traffic) /\ Due \in Seq(Traffic)
         /\ LastEdge \in Seq(Traffic)
         /\ \A i \in Inputs : /\ iq[i] \in Seq(Traffic) /\ held[i] \in Seq(Traffic) /\ sent[i] \in Seq(Traffic)
                              /\ SubSeq(sent[i], 1, read[i]) \in Seq(Traffic)
         /\ \A e \in Edges : delivered[e] \in Seq(Traffic)
<1>0. \A S, T : S \subseteq T => Seq(S) \subseteq Seq(T)
  OBVIOUS
<1>1. oq \in Seq(Traffic) /\ hand \in Seq(Traffic) /\ signal \in Seq(Traffic)
  <2>1. oq \in Seq(AnyData) /\ hand \in Seq(AnyData) /\ signal \in Seq(Pushed)
    BY DEF Types, RoutineTypes, PhaseTypes
  <2> QED BY <1>0, <2>1, Anything
<1>2. \A i \in Inputs : iq[i] \in Seq(Traffic) /\ held[i] \in Seq(Traffic) /\ sent[i] \in Seq(Traffic)
  <2>1. \A i \in Inputs : iq[i] \in Seq(Item) /\ held[i] \in Seq(AnyData) /\ sent[i] \in Seq(Pushed)
    BY DEF Types, RoutineTypes, InletTypes
  <2> QED BY <1>0, <2>1, Anything
<1>3. \A i \in Inputs : SubSeq(sent[i], 1, read[i]) \in Seq(Traffic)
  <2> TAKE i \in Inputs
  <2>1. sent[i] \in Seq(Traffic) /\ read[i] \in Nat /\ read[i] <= Len(sent[i])
    BY <1>2 DEF Types, InletTypes
  <2> QED BY <2>1
<1>4. \A e \in Edges : delivered[e] \in Seq(Traffic)
  <2>1. \A e \in Edges : delivered[e] \in Seq(Pushed)
    BY DEF Types, EdgeTypes
  <2> QED BY <1>0, <2>1, Anything
<1>5. LastEdge \in Seq(Traffic)
  BY <1>4, EdgeNumbers DEF LastEdge
<1>6. Due \in Seq(Traffic)
  <2>1. CASE suspended = <<>>
    BY <1>5, <2>1 DEF Due
  <2>2. CASE suspended # <<>>
    <3>1. suspended[1].msg \in Traffic
      BY <2>2, SuspendedTyped, Anything DEF Types
    <3> QED BY <1>5, <2>2, <3>1 DEF Due
  <2> QED BY <2>1, <2>2
<1> QED
  BY <1>1, <1>2, <1>3, <1>4, <1>5, <1>6

\* The parts of one side.
LEMMA SidesTyped ==
  ASSUME Types, NEW i \in Inputs
  PROVE  /\ OfSide(oq, i) \in Seq(Side(i)) /\ OfSide(hand, i) \in Seq(Side(i))
         /\ OfSide(iq[i], i) \in Seq(Side(i)) /\ OfSide(signal, i) \in Seq(Side(i))
         /\ OfSide(held[i], i) \in Seq(Side(i)) /\ OfSide(Due, i) \in Seq(Side(i))
         /\ OfSide(LastEdge, i) \in Seq(Side(i)) /\ Got(i) \in Seq(Side(i))
         /\ Rest(i) \in Seq(Side(i))
         /\ OfSide(iq[i], i) \o (OfSide(signal, i) \o OfSide(held[i], i)) \in Seq(Side(i))
         /\ OfSide(hand, i) \o (OfSide(iq[i], i) \o (OfSide(signal, i) \o OfSide(held[i], i))) \in Seq(Side(i))
         /\ OfSide(signal, i) \o OfSide(held[i], i) \in Seq(Side(i))
<1>1. /\ OfSide(oq, i) \in Seq(Side(i)) /\ OfSide(hand, i) \in Seq(Side(i))
      /\ OfSide(iq[i], i) \in Seq(Side(i)) /\ OfSide(signal, i) \in Seq(Side(i))
      /\ OfSide(held[i], i) \in Seq(Side(i)) /\ OfSide(Due, i) \in Seq(Side(i))
      /\ OfSide(LastEdge, i) \in Seq(Side(i)) /\ Got(i) \in Seq(Side(i))
  BY PartsTyped, SideTyped DEF Got
<1>2. OfSide(signal, i) \o OfSide(held[i], i) \in Seq(Side(i))
  BY <1>1, Joined
<1>3. OfSide(iq[i], i) \o (OfSide(signal, i) \o OfSide(held[i], i)) \in Seq(Side(i))
  BY <1>1, <1>2, Joined
<1>4. OfSide(hand, i) \o (OfSide(iq[i], i) \o (OfSide(signal, i) \o OfSide(held[i], i))) \in Seq(Side(i))
  BY <1>1, <1>3, Joined
<1>5. Rest(i) \in Seq(Side(i))
  BY <1>1, <1>4, Joined DEF Rest
<1> QED
  BY <1>1, <1>2, <1>3, <1>4, <1>5

LineTypes == \A i \in Inputs : Rest(i) \in Seq(Side(i)) /\ Got(i) \in Seq(Side(i))

LEMMA RestTyped == Types => LineTypes
BY SidesTyped DEF LineTypes

LEMMA Line0 == Init => LineInv /\ PrefixInv
<1> SUFFICES ASSUME Init PROVE LineInv /\ PrefixInv
  OBVIOUS
<1>1. /\ oq = <<>> /\ hand = <<>> /\ signal = <<>> /\ Due = <<>>
      /\ \A i \in Inputs : iq[i] = <<>> /\ held[i] = <<>> /\ SubSeq(sent[i], 1, read[i]) = <<>>
      /\ \A e \in Edges : delivered[e] = <<>>
  BY EdgeNumbers DEF Init, RoutineInit, Due, LastEdge
<1>2. <<>> \o <<>> = <<>> /\ IsPrefix(<<>>, <<>>)
  <2>1. <<>> \in Seq({}) /\ <<>> \o <<>> = <<>>
    OBVIOUS
  <2> QED BY ONLY <2>1, PrefixOfConcat
<1>3. \A i \in Inputs : OfSide(Due, i) = <<>> /\ Rest(i) = <<>> /\ Got(i) = <<>>
  BY <1>1, <1>2, SideEmpty DEF Rest, Got
<1>4. \A e \in Edges, i \in Inputs : OfSide(delivered[e], i) = <<>>
  BY <1>1, SideEmpty
<1> QED
  BY <1>2, <1>3, <1>4 DEF LineInv, PrefixInv

\* An Input that reads a message adds what of it is its side's.
LEMMA GotMore ==
  ASSUME Types, NEW i \in Inputs, HasNext(i), Advance(i), UNCHANGED sent
  PROVE  /\ Got(i)' = Got(i) \o OfSide(<<NextIn(i)>>, i)
         /\ \A j \in Inputs \ {i} : Got(j)' = Got(j)
         /\ NextIn(i) \in Traffic
<1>1. /\ read' = [read EXCEPT ![i] = @ + 1] /\ read \in [Inputs -> Nat]
      /\ sent[i] \in Seq(Pushed) /\ read[i] \in Nat /\ read[i] + 1 \in 1 .. Len(sent[i])
      /\ NextIn(i) = sent[i][read[i] + 1] /\ NextIn(i) \in Traffic
  BY NextTyped, Anything DEF Types, InletTypes, Advance
<1> DEFINE q == SubSeq(sent[i], 1, read[i])
           m == NextIn(i)
<1>2. SubSeq(sent[i], 1, read[i] + 1) = Append(q, m)
  <2>1. q \in Seq(Pushed) /\ Len(q) = read[i] /\ \A k \in 1 .. read[i] : q[k] = sent[i][k]
    BY <1>1
  <2>2. Len(SubSeq(sent[i], 1, read[i] + 1)) = read[i] + 1 /\ SubSeq(sent[i], 1, read[i] + 1) \in Seq(Pushed)
        /\ \A k \in 1 .. read[i] + 1 : SubSeq(sent[i], 1, read[i] + 1)[k] = sent[i][k]
    BY <1>1
  <2>3. m \in Pushed /\ m = sent[i][read[i] + 1]
    BY <1>1
  <2> HIDE DEF q, m
  <2>4. Append(q, m) \in Seq(Pushed) /\ Len(Append(q, m)) = read[i] + 1
        /\ \A k \in 1 .. read[i] + 1 : Append(q, m)[k] = sent[i][k]
    BY <1>1, <2>1, <2>3
  <2> DEFINE s == SubSeq(sent[i], 1, read[i] + 1)
             t == Append(q, m)
  <2>5. s \in Seq(Pushed) /\ t \in Seq(Pushed) /\ Len(s) = Len(t) /\ \A k \in 1 .. Len(s) : s[k] = t[k]
    BY <2>2, <2>4
  <2> HIDE DEF s, t
  <2>6. s = t
    BY <2>5
  <2> QED BY <2>6 DEF s, t
<1>3. q \in Seq(Traffic) /\ m \in Traffic
  BY <1>1, PartsTyped
<1> HIDE DEF q, m
<1>4. OfSide(Append(q, m), i) = OfSide(q, i) \o OfSide(<<m>>, i)
  BY <1>3, SideAppend
<1>5. Got(i) = OfSide(q, i) /\ Got(i)' = OfSide(Append(q, m), i)
  BY <1>1, <1>2 DEF Got, q
<1>6. \A j \in Inputs \ {i} : Got(j)' = Got(j)
  BY <1>1 DEF Got
<1> QED
  BY <1>1, <1>4, <1>5, <1>6 DEF m

\* What upstream pushes has not been read.
LEMMA GotStays ==
  ASSUME Types, NEW i \in Inputs, UNCHANGED <<read, sent>> \/ \E j \in Inputs : Upstream(j)
  PROVE  Got(i)' = Got(i)
<1>1. CASE UNCHANGED <<read, sent>>
  BY <1>1 DEF Got
<1>2. ASSUME NEW j \in Inputs, Upstream(j) PROVE Got(i)' = Got(i)
  <2>1. UNCHANGED read /\ \E m : sent' = [sent EXCEPT ![j] = Append(@, m)]
    BY <1>2 DEF Upstream
  <2>2. PICK m : sent' = [sent EXCEPT ![j] = Append(@, m)]
    BY <2>1
  <2>3. sent \in [Inputs -> Seq(Pushed)] /\ sent[i] \in Seq(Pushed) /\ read[i] \in Nat /\ read[i] <= Len(sent[i])
    BY DEF Types, InletTypes
  <2>4. sent'[i] = sent[i] \/ sent'[i] = Append(sent[i], m)
    BY <2>2, <2>3
  <2>5. SubSeq(Append(sent[i], m), 1, read[i]) = SubSeq(sent[i], 1, read[i])
    <3> DEFINE q == sent[i]
               n == read[i]
    <3>1. q \in Seq(Pushed) /\ n \in Nat /\ n <= Len(q)
      BY <2>3
    <3> HIDE DEF q, n
    <3>2. /\ Append(q, m) \in Seq(Pushed \cup {m}) /\ q \in Seq(Pushed \cup {m})
          /\ \A k \in 1 .. n : Append(q, m)[k] = q[k] /\ Len(Append(q, m)) = Len(q) + 1
      BY <3>1
    <3>3. SubSeq(Append(q, m), 1, n) = SubSeq(q, 1, n)
      BY <3>1, <3>2
    <3> QED BY <3>3 DEF q, n
  <2> QED BY <2>1, <2>4, <2>5 DEF Got
<1> QED
  BY <1>1, <1>2

-----------------------------------------------------------------------------
(* Steps that move messages along the line, seen from side i.                *)

\* A held message goes into the queue of its side.
LEMMA LineHeldSent ==
  ASSUME Types, NEW i \in Inputs, NEW j \in Inputs, signal = <<>>, held[j] # <<>>,
         TrySend(j, held[j][1]), held' = [held EXCEPT ![j] = <<>>], UNCHANGED signal
  PROVE  Rest(i)' = Rest(i)
<1>1. /\ iq' = [iq EXCEPT ![j] = Append(@, held[j][1])] /\ UNCHANGED <<oq, hand>>
      /\ iq \in [Inputs -> Seq(Item)] /\ held \in [Inputs -> Seq(AnyData)]
      /\ held[j] = <<held[j][1]>> /\ held[j][1] \in Traffic /\ iq[j] \in Seq(Traffic)
  BY HeldTyped, PartsTyped, Anything DEF TrySend, Types, RoutineTypes, InletTypes
<1>2. CASE i # j
  <2>1. iq'[i] = iq[i] /\ held'[i] = held[i]
    BY <1>1, <1>2
  <2> QED BY <1>1, <2>1 DEF Rest
<1>3. CASE i = j
  <2> DEFINE D == OfSide(iq[i], i)
             x == OfSide(held[i], i)
  <2>1. iq'[i] = Append(iq[i], held[i][1]) /\ held'[i] = <<>> /\ held[i] = <<held[i][1]>>
        /\ held[i][1] \in Traffic /\ iq[i] \in Seq(Traffic)
    BY <1>1, <1>3
  <2>2. OfSide(Append(iq[i], held[i][1]), i) = D \o OfSide(<<held[i][1]>>, i)
    BY <2>1, SideAppend
  <2>3. OfSide(iq'[i], i) = D \o x
    BY <2>1, <2>2
  <2>4. OfSide(held'[i], i) = <<>> /\ OfSide(signal, i) = <<>> /\ OfSide(signal', i) = <<>>
    BY <2>1, SideEmpty
  <2>5. D \in Seq(Side(i)) /\ x \in Seq(Side(i))
    BY SidesTyped
  <2> HIDE DEF D, x
  <2>6. (D \o x) \o (<<>> \o <<>>) = D \o (<<>> \o x)
    <3>1. D \o x \in Seq(Side(i)) /\ <<>> \o <<>> = <<>> /\ <<>> \o x = x /\ (D \o x) \o <<>> = D \o x
      BY <2>5, Joined
    <3> QED BY <3>1
  <2> QED BY <1>1, <2>3, <2>4, <2>6 DEF Rest, D, x
<1> QED
  BY <1>2, <1>3

\* What an Input reads joins the line at its end: in its queue, held, or as
\* the signal.
LEMMA LineRead ==
  ASSUME Types, NEW i \in Inputs, NEW j \in Inputs, HasNext(j), Advance(j), UNCHANGED <<sent, oq, hand>>,
         signal = <<>>, held[j] = <<>>, OfSide(Due, i) \o Rest(i) = Got(i),
         \A k \in Inputs \ {j} : OfSide(iq'[k], k) = OfSide(iq[k], k) /\ held'[k] = held[k],
         \/ /\ OfSide(iq'[j], j) = OfSide(iq[j], j) \o OfSide(<<NextIn(j)>>, j)
            /\ signal' = <<>> /\ held'[j] = <<>>
         \/ /\ OfSide(iq'[j], j) = OfSide(iq[j], j)
            /\ signal' = <<>> /\ held'[j] = <<NextIn(j)>>
         \/ /\ OfSide(iq'[j], j) = OfSide(iq[j], j)
            /\ signal' = <<NextIn(j)>> /\ held'[j] = <<>>
  PROVE  OfSide(Due, i) \o Rest(i)' = Got(i)'
<1>0. NextIn(j) \in Pushed /\ NextIn(j).from = j /\ NextIn(j) \in Traffic
  BY NextTyped, Anything DEF Types
<1>1. CASE i # j
  <2>1. OfSide(iq'[i], i) = OfSide(iq[i], i) /\ held'[i] = held[i] /\ Got(i)' = Got(i)
    BY <1>1, GotMore
  <2>2. OfSide(signal', i) = <<>> /\ OfSide(signal, i) = <<>>
    <3>1. NextIn(j) \notin Side(i)
      BY <1>0, <1>1 DEF Side
    <3>2. <<>> \in Seq(Traffic)
      OBVIOUS
    <3>3. OfSide(<<NextIn(j)>>, i) = <<>>
      BY ONLY <1>0, <3>1, <3>2, SideAppend, i \in Inputs
    <3> QED BY <3>3, SideEmpty
  <2> QED BY <2>1, <2>2 DEF Rest
<1>2. CASE i = j
  <2> DEFINE A == OfSide(Due, i)
             B == OfSide(oq, i)
             C == OfSide(hand, i)
             D == OfSide(iq[i], i)
             x == OfSide(<<NextIn(i)>>, i)
  <2>1. A \in Seq(Side(i)) /\ B \in Seq(Side(i)) /\ C \in Seq(Side(i)) /\ D \in Seq(Side(i))
    BY SidesTyped
  <2>2. x \in Seq(Side(i))
    <3>2. <<>> \in Seq(Traffic)
      OBVIOUS
    <3> QED BY ONLY <1>0, <1>2, <3>2, SideAppend, i \in Inputs
  <2>3. Got(i)' = Got(i) \o x
    BY <1>2, GotMore
  <2>4. OfSide(signal, i) = <<>> /\ OfSide(held[i], i) = <<>>
    BY <1>2, SideEmpty
  <2>5. \/ OfSide(iq'[i], i) = D \o x /\ OfSide(signal', i) = <<>> /\ OfSide(held'[i], i) = <<>>
        \/ OfSide(iq'[i], i) = D /\ OfSide(signal', i) = <<>> /\ OfSide(held'[i], i) = x
        \/ OfSide(iq'[i], i) = D /\ OfSide(signal', i) = x /\ OfSide(held'[i], i) = <<>>
    BY <1>2, SideEmpty
  <2>6. Rest(i) = B \o (C \o (D \o (<<>> \o <<>>)))
    BY <2>4 DEF Rest
  <2>7. OfSide(oq', i) = B /\ OfSide(hand', i) = C
    OBVIOUS
  <2> HIDE DEF A, B, C, D, x
  <2>8. D \o (<<>> \o <<>>) = D /\ D \o x \in Seq(Side(i)) /\ (D \o x) \o (<<>> \o <<>>) = D \o x
        /\ <<>> \o x = x /\ x \o <<>> = x
    BY <2>1, <2>2, Joined
  <2>9. OfSide(iq'[i], i) \o (OfSide(signal', i) \o OfSide(held'[i], i)) = D \o x
    BY <2>5, <2>8
  <2>10. Rest(i)' = B \o (C \o (D \o x))
    BY <2>7, <2>9 DEF Rest
  <2>11. A \o (B \o (C \o (D \o x))) = (A \o (B \o (C \o D))) \o x
    <3> DEFINE S == Side(i)
    <3>1. A \in Seq(S) /\ B \in Seq(S) /\ C \in Seq(S) /\ D \in Seq(S) /\ x \in Seq(S)
      BY <2>1, <2>2
    <3> HIDE DEF S
    <3>0. \A u, v, w \in Seq(S) : u \o v \in Seq(S) /\ (u \o v) \o w = u \o (v \o w)
      BY ConcatAssociative, Joined
    <3>2. C \o D \in Seq(S) /\ C \o (D \o x) = (C \o D) \o x
      BY ONLY <3>0, <3>1
    <3> DEFINE y == C \o D
    <3> HIDE DEF y
    <3>3. y \in Seq(S)
      BY <3>2 DEF y
    <3>4. B \o y \in Seq(S)
      BY ONLY <3>0, <3>1, <3>3
    <3>7. (B \o y) \o x = B \o (y \o x)
      BY ONLY <3>0, <3>1, <3>3
    <3> DEFINE z == B \o y
    <3> HIDE DEF z
    <3>5. z \in Seq(S)
      BY <3>4 DEF z
    <3>6. (A \o z) \o x = A \o (z \o x)
      BY ONLY <3>0, <3>1, <3>5
    <3> QED BY <3>2, <3>6, <3>7 DEF y, z
  <2> QED BY <2>3, <2>6, <2>8, <2>10, <2>11 DEF A
<1> QED
  BY <1>1, <1>2

\* The future takes an item into its hand; a Flush item is of no side.
LEMMA LineTakes ==
  ASSUME Types, NEW i \in Inputs, NEW j \in Inputs, FutureTakes(j), UNCHANGED <<signal, held>>
  PROVE  Rest(i)' = Rest(i)
<1>0. /\ fut = "recv" /\ iq[j] # <<>> /\ iq' = [iq EXCEPT ![j] = Tail(@)] /\ UNCHANGED oq
      /\ hand = <<>> /\ iq \in [Inputs -> Seq(Item)] /\ iq[j] \in Seq(Traffic)
      /\ iq[j] \in Seq(Data(j) \cup {FlushItem(j)})
  BY PartsTyped DEF FutureTakes, Types, RoutineTypes
<1>1. /\ Head(iq[j]) = iq[j][1] /\ iq[j][1] \in Data(j) \cup {FlushItem(j)} /\ iq[j][1] \in Traffic
      /\ Tail(iq[j]) \in Seq(Traffic)
  BY ONLY <1>0, FirstAndRest
<1>2. /\ OfSide(hand, i) = <<>> /\ OfSide(hand', i) = OfSide(<<iq[j][1]>>, i)
      /\ (i # j => OfSide(hand', i) = <<>>)
  <2>0. <<>> \in Seq(Traffic)
    OBVIOUS
  <2>1. CASE iq[j][1] = FlushItem(j)
    <3>1. hand' = <<>>
      BY <1>0, <1>1, <2>1 DEF FutureTakes, FlushItem
    <3>2. OfSide(<<iq[j][1]>>, i) = <<>>
      BY <1>1, <2>0, <2>1, SideAppend, SideOf
    <3> QED BY <1>0, <3>1, <3>2, SideEmpty
  <2>2. CASE iq[j][1] \in Data(j)
    <3>1. hand' = <<iq[j][1]>>
      BY <1>1, <2>2 DEF FutureTakes, Data
    <3>2. i # j => OfSide(<<iq[j][1]>>, i) = <<>>
      BY <1>1, <2>0, <2>2, SideAppend, SideOf
    <3> QED BY <1>0, <3>1, <3>2, SideEmpty
  <2> QED BY <1>1, <2>1, <2>2
<1>3. CASE i # j
  BY <1>0, <1>2, <1>3 DEF Rest
<1>4. CASE i = j
  <2> DEFINE x == OfSide(<<iq[i][1]>>, i)
             b == OfSide(Tail(iq[i]), i)
             r == OfSide(signal, i) \o OfSide(held[i], i)
  <2>1. OfSide(iq[i], i) = x \o b
    BY <1>0, <1>4, SideFirst
  <2>2. x \in Seq(Side(i)) /\ b \in Seq(Side(i)) /\ r \in Seq(Side(i))
    <3>1. <<>> \in Seq(Traffic)
      OBVIOUS
    <3> QED BY <1>1, <1>4, <3>1, SideAppend, SideTyped, SidesTyped
  <2>3. iq'[i] = Tail(iq[i]) /\ OfSide(hand', i) = x /\ OfSide(hand, i) = <<>>
    BY <1>0, <1>2, <1>4
  <2>4. Rest(i)' = OfSide(oq, i) \o (x \o (b \o r)) /\ Rest(i) = OfSide(oq, i) \o (<<>> \o ((x \o b) \o r))
    BY <1>0, <2>1, <2>3 DEF Rest
  <2> HIDE DEF x, b, r
  <2>5. <<>> \in Seq(Side(i)) /\ <<>> \o x = x
    BY <2>2, Joined
  <2>6. (<<>> \o x) \o (b \o r) = <<>> \o ((x \o b) \o r)
    BY ONLY <2>2, <2>5, Shift
  <2> QED BY <2>4, <2>5, <2>6
<1> QED
  BY <1>3, <1>4

\* The future sends what it has in hand.
LEMMA LineSends ==
  ASSUME Types, NEW i \in Inputs, FutureSends, UNCHANGED <<signal, held>>
  PROVE  Rest(i)' = Rest(i)
<1>0. /\ oq' = Append(oq, hand[1]) /\ hand' = <<>> /\ UNCHANGED iq /\ hand \in Seq(AnyData) /\ Len(hand) <= 1
      /\ hand # <<>> /\ oq \in Seq(Traffic)
  BY PartsTyped DEF FutureSends, Types, RoutineTypes
<1>1. hand = <<hand[1]>> /\ hand[1] \in Traffic
  <2>1. hand = <<hand[1]>> /\ hand[1] \in AnyData
    BY ONLY <1>0, OnlyElement
  <2> QED BY <2>1, Anything
<1> DEFINE B == OfSide(oq, i)
           x == OfSide(hand, i)
           r == OfSide(iq[i], i) \o (OfSide(signal, i) \o OfSide(held[i], i))
<1>2. OfSide(Append(oq, hand[1]), i) = B \o OfSide(<<hand[1]>>, i)
  BY <1>0, <1>1, SideAppend
<1>3. OfSide(oq', i) = B \o x /\ OfSide(hand', i) = <<>>
  BY <1>0, <1>1, <1>2, SideEmpty
<1>4. B \in Seq(Side(i)) /\ x \in Seq(Side(i)) /\ r \in Seq(Side(i))
  BY SidesTyped
<1>5. Rest(i)' = (B \o x) \o (<<>> \o r) /\ Rest(i) = B \o (x \o r)
  BY <1>0, <1>3 DEF Rest
<1> HIDE DEF B, x, r
<1>6. <<>> \in Seq(Side(i)) /\ x \o <<>> = x
  BY <1>4, Joined
<1>7. (B \o x) \o (<<>> \o r) = B \o ((x \o <<>>) \o r)
  BY ONLY <1>4, <1>6, Shift
<1> QED
  BY <1>5, <1>6, <1>7

-----------------------------------------------------------------------------
(* Every step keeps the line.                                                *)

LEMMA Renewed ==
  ASSUME NEW i \in Inputs, NEW q \in Seq(Traffic)
  PROVE  OfSide(Append(q, FlushItem(i)), i) = OfSide(q, i)
<1>1. OfSide(Append(q, FlushItem(i)), i) = OfSide(q, i) \o OfSide(<<FlushItem(i)>>, i)
  BY SideAppend, Anything
<1>2. OfSide(<<FlushItem(i)>>, i) = <<>>
  BY SideAppend, SideOf, Anything
<1>3. OfSide(q, i) \in Seq(Side(i))
  BY SideTyped
<1> QED
  BY <1>1, <1>2, <1>3, Joined

\* Input's steps.
LEMMA LineInputs ==
  ASSUME Base, LineInv, Whole, NEW i \in Inputs, NEW j \in Inputs,
         InputBegins(j) \/ InputData(j) \/ InputFlush(j) \/ InputMarker(j)
  PROVE  OfSide(Due, i) \o Rest(i)' = Got(i)'
<1>0. /\ Types /\ PhaseInv /\ iq \in [Inputs -> Seq(Item)] /\ held \in [Inputs -> Seq(AnyData)]
      /\ OfSide(Due, i) \o Rest(i) = Got(i) /\ \A k \in Inputs : iq[k] \in Seq(Traffic)
  BY PartsTyped DEF Base, Types, RoutineTypes, InletTypes, LineInv
<1>1. state = "Running" /\ signal = <<>>
  BY <1>0 DEF InputBegins, Drains, InputData, InputFlush, InputMarker, Feeding, PhaseInv
<1>2. CASE InputBegins(j)
  <2>1. UNCHANGED <<signal, read, sent>>
    BY <1>2 DEF InputBegins, inletVars
  <2>2. Got(i)' = Got(i)
    BY <1>0, <2>1, GotStays
  <2>3. CASE UNCHANGED <<iq, oq, hand, held>>
    BY <1>0, <2>1, <2>2, <2>3 DEF Rest
  <2>4. CASE held[j] # <<>> /\ TrySend(j, held[j][1]) /\ held' = [held EXCEPT ![j] = <<>>]
    BY <1>0, <1>1, <2>1, <2>2, <2>4, LineHeldSent
  <2> QED BY <1>2, <2>3, <2>4 DEF InputBegins, Refuse, routineVars
<1>3. CASE InputData(j) \/ InputFlush(j) \/ InputMarker(j)
  <2>1. HasNext(j) /\ Advance(j) /\ UNCHANGED <<sent, oq, hand>> /\ held[j] = <<>>
    BY <1>0, <1>3 DEF InputData, InputFlush, InputMarker, Feeding, PhaseInv, TrySend, Refuse, Flush, routineVars
  <2>2. NextIn(j) \in Traffic
    BY <1>0, <2>1, GotMore
  <2>3. CASE InputData(j)
    <3>1. UNCHANGED signal
      BY <2>3 DEF InputData
    <3>2. CASE TrySend(j, NextIn(j)) /\ UNCHANGED held
      <4>1. iq' = [iq EXCEPT ![j] = Append(@, NextIn(j))]
        BY <3>2 DEF TrySend
      <4>2. OfSide(iq'[j], j) = OfSide(iq[j], j) \o OfSide(<<NextIn(j)>>, j)
        <5>1. iq'[j] = Append(iq[j], NextIn(j))
          BY <1>0, <4>1
        <5> QED BY <1>0, <2>2, <5>1, SideAppend
      <4>3. \A k \in Inputs \ {j} : iq'[k] = iq[k] /\ held'[k] = held[k]
        BY <1>0, <3>2, <4>1
      <4> QED BY <1>0, <1>1, <2>1, <3>1, <3>2, <4>2, <4>3, LineRead
    <3>3. CASE Refuse(j) /\ held' = [held EXCEPT ![j] = <<NextIn(j)>>]
      <4>1. UNCHANGED iq /\ held'[j] = <<NextIn(j)>> /\ \A k \in Inputs \ {j} : held'[k] = held[k]
        BY <1>0, <3>3 DEF Refuse
      <4> QED BY <1>0, <1>1, <2>1, <3>1, <4>1, LineRead
    <3> QED BY <2>3, <3>2, <3>3 DEF InputData
  <2>4. CASE InputFlush(j)
    <3>1. iq' = [k \in Inputs |-> Append(iq[k], FlushItem(k))] /\ signal' = <<NextIn(j)>> /\ UNCHANGED held
      BY <2>4 DEF InputFlush, Flush
    <3>2. \A k \in Inputs : OfSide(iq'[k], k) = OfSide(iq[k], k)
      BY <1>0, <3>1, Renewed
    <3> QED BY <1>0, <1>1, <2>1, <3>1, <3>2, LineRead
  <2>5. CASE InputMarker(j)
    <3>1. UNCHANGED <<iq, held>> /\ signal' = <<NextIn(j)>>
      BY <2>5 DEF InputMarker, routineVars
    <3> QED BY <1>0, <1>1, <2>1, <3>1, LineRead
  <2> QED BY <1>3, <2>3, <2>4, <2>5
<1> QED
  BY <1>2, <1>3

\* Every step but Output's rotations.
LEMMA LineOthers ==
  ASSUME Base, FlushInv, CloseInv, LineInv, Whole, Whole', [Next]_vars, NEW i \in Inputs,
         ~(OutputRetries \/ OutputDelivers \/ OutputDrained)
  PROVE  OfSide(Due, i) \o Rest(i)' = Got(i)'
<1>0. Types /\ PhaseInv /\ OfSide(Due, i) \o Rest(i) = Got(i)
  BY DEF Base, LineInv
<1>1. CASE UNCHANGED <<oq, hand, iq, signal, held>> /\ (UNCHANGED <<read, sent>> \/ \E j \in Inputs : Upstream(j))
  BY <1>0, <1>1, GotStays DEF Rest
<1>2. ASSUME NEW p \in Phases, LeaveClosed(p) \/ Swallow(p) PROVE OfSide(Due, i) \o Rest(i)' = Got(i)'
  <2>1. CASE Swallow(p)
    BY <1>1, <2>1 DEF Swallow, routineVars, nodeVars, inletVars
  <2>2. CASE LeaveClosed(p)
    <3>1. /\ UNCHANGED <<oq, hand, iq, signal, read, sent>> /\ state = "CloseReady"
          /\ held' = [k \in Inputs |-> IF k = p THEN <<>> ELSE held[k]]
      BY <2>2 DEF LeaveClosed, routineVars, Whole
    <3>2. held[i] = <<>>
      BY <1>0, <3>1 DEF CloseInv, PhaseInv
    <3>3. held'[i] = held[i]
      BY <3>1, <3>2
    <3>4. Got(i)' = Got(i)
      BY <1>0, <3>1, GotStays
    <3> QED BY <1>0, <3>1, <3>3, <3>4 DEF Rest
  <2> QED BY <1>2, <2>1, <2>2
<1>3. ASSUME NEW j \in Inputs, InputBegins(j) \/ InputData(j) \/ InputFlush(j) \/ InputMarker(j)
      PROVE  OfSide(Due, i) \o Rest(i)' = Got(i)'
  BY <1>3, LineInputs
<1>4. ASSUME NEW j \in Inputs, InputEmpty(j) \/ InputCloses(j) \/ InputYields(j)
      PROVE  OfSide(Due, i) \o Rest(i)' = Got(i)'
  BY <1>1, <1>4 DEF InputEmpty, InputCloses, InputYields, routineVars, nodeVars, inletVars
<1>5. ASSUME NEW j \in Inputs, WorkTakes(j) PROVE OfSide(Due, i) \o Rest(i)' = Got(i)'
  <2>1. FutureTakes(j) /\ UNCHANGED <<signal, held, read, sent>>
    BY <1>5 DEF WorkTakes, nodeVars, inletVars
  <2> QED BY <1>0, <2>1, LineTakes, GotStays
<1>6. CASE WorkSends
  <2>1. FutureSends /\ UNCHANGED <<signal, held, read, sent>>
    BY <1>6 DEF WorkSends, nodeVars, inletVars
  <2> QED BY <1>0, <2>1, LineSends, GotStays
<1>7. CASE WorkReady
  <2>1. state = "Flushing" /\ SegmentEnded
    BY <1>7, ReturnsFlushed
  <2>2. /\ UNCHANGED <<oq, hand, signal, held, read, sent>>
        /\ iq' = [k \in Inputs |-> <<>>] /\ iq[i] = <<>>
    BY <1>7, <2>1 DEF WorkReady, Renew, SegmentEnded, inletVars
  <2>3. iq'[i] = iq[i]
    BY <2>2
  <2>4. Got(i)' = Got(i)
    BY <1>0, <2>2, GotStays
  <2> QED BY <1>0, <2>2, <2>3, <2>4 DEF Rest
<1>8. CASE WorkBegins \/ WorkPends
  BY <1>1, <1>8 DEF WorkBegins, WorkPends, FutureParks, routineVars, nodeVars, inletVars
<1>9. CASE OutputBegins \/ OutputYields \/ OutputForwarded \/ OutputEnds
  <2>1. ~OutputEnds
    BY DEF OutputEnds, Whole
  <2> QED BY <1>1, <1>9, <2>1 DEF OutputBegins, OutputYields, OutputForwarded, routineVars, nodeVars, inletVars
<1>10. CASE \/ \E j \in Inputs : Upstream(j) \/ UpstreamCloses(j)
            \/ \E e \in Edges : Downstream(e) \/ DownstreamCloses(e)
            \/ Io \/ UNCHANGED vars
  BY <1>1, <1>10 DEF Upstream, UpstreamCloses, Downstream, DownstreamCloses, Io, IoDone, vars, routineVars,
                     nodeVars, inletVars
<1> QED
  BY <1>2, <1>3, <1>4, <1>5, <1>6, <1>7, <1>8, <1>9, <1>10, Steps

\* A rotation takes its message off the line's first part, or the waiting
\* signal once nothing is in front of it.
LEMMA LineRotates ==
  ASSUME Base, FlushInv, SignalInv, LineInv, Whole, NEW i \in Inputs, NEW from \in Edges, NEW m \in Pushed,
         \/ OutputRetries /\ suspended # <<>> /\ m = suspended[1].msg
         \/ OutputDelivers /\ suspended = <<>> /\ oq # <<>> /\ m = oq[1]
         \/ /\ OutputDrained /\ suspended = <<>> /\ state \in {"FlushReady", "MarkerReady"}
            /\ signal # <<>> /\ m = signal[1]
  PROVE  OfSide(Append(LastEdge, m), i) \o Rest(i)' = Got(i)'
<1> DEFINE A == OfSide(LastEdge, i)
           x == OfSide(<<m>>, i)
<1>0. /\ Types /\ PhaseInv /\ OfSide(Due, i) \o Rest(i) = Got(i)
      /\ LastEdge \in Seq(Traffic) /\ oq \in Seq(Traffic) /\ m \in Traffic
  BY PartsTyped, Anything DEF Base, LineInv
<1>1. A \in Seq(Side(i)) /\ x \in Seq(Side(i)) /\ OfSide(Append(LastEdge, m), i) = A \o x
  BY <1>0, SidesTyped, SideAppend
<1>2. UNCHANGED <<read, sent, held, iq, hand>>
  BY DEF OutputRetries, OutputDelivers, OutputDrained, Pop, PopNothing, routineVars, nodeVars, inletVars
<1>3. Got(i)' = Got(i)
  BY <1>0, <1>2, GotStays
<1>4. CASE OutputRetries /\ suspended # <<>> /\ m = suspended[1].msg
  <2>1. UNCHANGED <<oq, signal>> /\ Due = Append(LastEdge, m)
    BY <1>4 DEF OutputRetries, routineVars, nodeVars, Due
  <2> QED BY <1>0, <1>2, <1>3, <2>1 DEF Rest
<1>5. CASE OutputDelivers /\ suspended = <<>> /\ oq # <<>> /\ m = oq[1]
  <2> DEFINE b == OfSide(Tail(oq), i)
             r == OfSide(hand, i) \o (OfSide(iq[i], i) \o (OfSide(signal, i) \o OfSide(held[i], i)))
  <2>1. oq' = Tail(oq) /\ UNCHANGED signal /\ Due = LastEdge
    BY <1>5 DEF OutputDelivers, Pop, nodeVars, Due
  <2>2. OfSide(oq, i) = x \o b /\ b \in Seq(Side(i))
    BY <1>0, <1>5, SideFirst, SideTyped
  <2>3. r \in Seq(Side(i))
    BY <1>0, SidesTyped
  <2>4. Rest(i)' = b \o r /\ OfSide(Due, i) \o Rest(i) = A \o ((x \o b) \o r)
    BY <1>2, <2>1, <2>2 DEF Rest
  <2> HIDE DEF b, r, A, x
  <2>6. A \in Seq(Side(i)) /\ x \in Seq(Side(i)) /\ b \in Seq(Side(i)) /\ r \in Seq(Side(i))
    BY <1>1, <2>2, <2>3
  <2>5. (A \o x) \o (b \o r) = A \o ((x \o b) \o r)
    BY ONLY <2>6, Shift
  <2> QED BY <1>0, <1>1, <1>3, <2>4, <2>5
<1>6. CASE /\ OutputDrained /\ suspended = <<>> /\ state \in {"FlushReady", "MarkerReady"}
           /\ signal # <<>> /\ m = signal[1]
  <2> DEFINE F == OfSide(held[i], i)
             C == OfSide(hand, i)
             D == OfSide(iq[i], i)
  <2>1. /\ oq = <<>> /\ oq' = <<>> /\ signal' = <<>> /\ Due = LastEdge /\ signal = <<m>>
    BY <1>0, <1>6, SignalTyped DEF OutputDrained, PopNothing, Due, Types
  <2>2. F \in Seq(Side(i)) /\ C \in Seq(Side(i)) /\ D \in Seq(Side(i))
    BY <1>0, SidesTyped
  <2>3. OfSide(<<>>, i) = <<>>
    BY SideEmpty
  <2>4. OfSide(signal, i) = x
    BY <2>1
  <2>5. Rest(i)' = <<>> \o (C \o (D \o (<<>> \o F))) /\ Rest(i) = <<>> \o (C \o (D \o (x \o F)))
    BY <1>2, <2>1, <2>3, <2>4 DEF Rest
  <2>6. OfSide(Due, i) = A
    BY <2>1
  <2>7. (C = <<>> /\ D = <<>>) \/ x = <<>>
    <3>1. CASE state = "FlushReady"
      <4>1. hand = <<>> /\ iq[i] = <<>>
        BY <3>1 DEF FlushInv
      <4> QED BY <2>3, <4>1
    <3>2. CASE state = "MarkerReady"
      <4>1. m.kind = "marker"
        BY <1>6, <3>2 DEF SignalInv
      <4>2. m \notin Side(i) /\ <<>> \in Seq(Traffic)
        BY <4>1, SideOf
      <4> QED BY <1>0, <4>2, SideAppend
    <3> QED BY <1>6, <3>1, <3>2
  <2> HIDE DEF A, x, F, C, D
  <2>8. /\ D \o F \in Seq(Side(i)) /\ C \o (D \o F) \in Seq(Side(i)) /\ x \o F \in Seq(Side(i))
        /\ <<>> \o F = F /\ A \o <<>> = A
    BY <1>1, <2>2, Joined
  <2>9. CASE x = <<>>
    <3>1. Rest(i)' = C \o (D \o F) /\ Rest(i) = C \o (D \o F)
      BY <2>5, <2>8, <2>9, Joined
    <3> QED BY <1>0, <1>1, <1>3, <2>6, <2>8, <2>9, <3>1
  <2>10. CASE C = <<>> /\ D = <<>>
    <3>1. Rest(i)' = F /\ Rest(i) = x \o F
      BY <2>5, <2>8, <2>10, Joined
    <3>2. (A \o x) \o F = A \o (x \o F)
      BY <1>1, <2>2, ConcatAssociative
    <3> QED BY <1>0, <1>1, <1>3, <2>6, <3>1, <3>2
  <2> QED BY <2>7, <2>9, <2>10
<1> QED
  BY <1>4, <1>5, <1>6

\* What the edges had, they keep, and what was read stays read.
LEMMA PrefixStays ==
  ASSUME Types, Types', PrefixInv, [Next]_vars, UNCHANGED delivered
  PROVE  PrefixInv'
<1> SUFFICES ASSUME NEW e \in Edges, NEW i \in Inputs PROVE IsPrefix(OfSide(delivered[e], i), Got(i)')
  BY DEF PrefixInv
<1>1. IsPrefix(OfSide(delivered[e], i), Got(i))
  BY DEF PrefixInv
<1>2. OfSide(delivered[e], i) \in Seq(Side(i)) /\ Got(i) \in Seq(Side(i)) /\ Got(i)' \in Seq(Side(i))
  <2>1. LineTypes'
    BY RestTyped, PTL
  <2>2. OfSide(delivered[e], i) \in Seq(Side(i))
    BY PartsTyped, SideTyped
  <2> QED BY <2>1, <2>2, RestTyped DEF Side, LineTypes
<1>3. Got(i)' = Got(i) \/ \E x \in Seq(Side(i)) : Got(i)' = Got(i) \o x
  <2>1. CASE UNCHANGED <<read, sent>> \/ \E j \in Inputs : Upstream(j)
    BY <2>1, GotStays
  <2>2. ASSUME NEW j \in Inputs, HasNext(j), Advance(j), UNCHANGED sent
        PROVE  Got(i)' = Got(i) \/ \E x \in Seq(Side(i)) : Got(i)' = Got(i) \o x
    <3>1. CASE i = j
      <4>1. Got(i)' = Got(i) \o OfSide(<<NextIn(i)>>, i) /\ NextIn(i) \in Traffic
        BY <2>2, <3>1, GotMore
      <4>2. OfSide(<<NextIn(i)>>, i) \in Seq(Side(i))
        <5>1. <<NextIn(i)>> \in Seq(Traffic)
          BY <4>1
        <5> QED BY <5>1, SideTyped
      <4> QED BY <4>1, <4>2
    <3>2. CASE i # j
      BY <2>2, <3>2, GotMore
    <3> QED BY <3>1, <3>2
  <2>3. \/ UNCHANGED <<read, sent>> \/ \E j \in Inputs : Upstream(j)
        \/ \E j \in Inputs : HasNext(j) /\ Advance(j) /\ UNCHANGED sent
    BY Steps DEF LeaveClosed, Swallow, InputBegins, InputData, InputFlush, InputMarker, InputEmpty,
         InputCloses, InputYields, WorkBegins, WorkSends, WorkPends, WorkReady, WorkTakes,
         OutputBegins, OutputRetries, OutputDelivers, OutputYields, OutputDrained, OutputForwarded,
         OutputEnds, UpstreamCloses, Downstream, DownstreamCloses, Io, vars, inletVars
  <2> QED BY <2>1, <2>2, <2>3
<1>4. CASE Got(i)' = Got(i)
  BY <1>1, <1>4
<1>5. ASSUME NEW x \in Seq(Side(i)), Got(i)' = Got(i) \o x
      PROVE  IsPrefix(OfSide(delivered[e], i), Got(i)')
  <2>1. IsPrefix(Got(i), Got(i)')
    BY <1>2, <1>5, PrefixOfConcat
  <2> DEFINE a == OfSide(delivered[e], i)
             b == Got(i)
             c == Got(i)'
  <2>2. a \in Seq(Side(i)) /\ b \in Seq(Side(i)) /\ c \in Seq(Side(i)) /\ IsPrefix(a, b) /\ IsPrefix(b, c)
    BY <1>1, <1>2, <2>1
  <2> HIDE DEF a, b, c
  <2>3. IsPrefix(a, c)
    BY ONLY <2>2, PrefixTrans
  <2> QED BY <2>3 DEF a, c
<1> QED
  BY <1>3, <1>4, <1>5

LineAll == FlushInv /\ SignalInv /\ CloseInv /\ LockInv /\ LineInv /\ PrefixInv

LEMMA Line1 == Base /\ LineAll /\ [Next]_vars => LineInv' /\ PrefixInv'
<1> SUFFICES ASSUME Base, LineAll, [Next]_vars PROVE LineInv' /\ PrefixInv'
  OBVIOUS
<1>0. /\ FlushInv /\ SignalInv /\ CloseInv /\ LockInv /\ LineInv /\ PrefixInv
      /\ Base' /\ Types /\ Types' /\ EdgeTypes
  BY Base1 DEF LineAll, Base, Types
<1>1. CASE ~(OutputRetries \/ OutputDelivers \/ OutputDrained)
  <2>1. UNCHANGED delivered /\ (suspended' = suspended \/ state' = "Closed")
    BY <1>1, EdgesStay DEF OutputEnds
  <2>2. PrefixInv'
    BY <1>0, <2>1, PrefixStays
  <2>3. ASSUME Whole', NEW i \in Inputs PROVE OfSide(Due, i)' \o Rest(i)' = Got(i)'
    <3>1. Whole
      BY <2>3, WholeBack
    <3>2. Due' = Due
      BY <2>1, <2>3 DEF Whole, Due, LastEdge
    <3>3. OfSide(Due, i) \o Rest(i)' = Got(i)'
      BY <1>0, <1>1, <2>3, <3>1, LineOthers
    <3> QED BY <3>2, <3>3 DEF OfSide
  <2> QED BY <2>2, <2>3 DEF LineInv
<1>2. CASE OutputRetries \/ OutputDelivers \/ OutputDrained
  <2>0. Whole
    BY <1>2 DEF Base, PhaseInv, Whole, OutputRetries, OutputDelivers, OutputDrained, Draining
  <2>1. CASE /\ OutputDrained /\ suspended = <<>> /\ state \notin {"FlushReady", "MarkerReady"}
             /\ UNCHANGED <<delivered, suspended, owesPop>>
    <3>1. UNCHANGED <<oq, hand, iq, signal, held, read, sent>>
      BY <2>1 DEF OutputDrained, PopNothing, inletVars
    <3>2. Due' = Due
      BY <2>1 DEF Due, LastEdge
    <3>3. ASSUME NEW i \in Inputs PROVE OfSide(Due, i)' \o Rest(i)' = Got(i)'
      <4>1. Got(i)' = Got(i)
        BY <1>0, <3>1, GotStays
      <4> QED BY <1>0, <2>0, <3>1, <3>2, <4>1 DEF LineInv, Rest, OfSide
    <3>4. PrefixInv'
      BY <1>0, <2>1, PrefixStays
    <3> QED BY <3>3, <3>4 DEF LineInv
  <2>2. ASSUME NEW from, NEW m, Carries(from, m),
               \/ OutputRetries /\ suspended # <<>> /\ from = suspended[1].at /\ m = suspended[1].msg
               \/ OutputDelivers /\ suspended = <<>> /\ oq # <<>> /\ from = 1 /\ m = oq[1]
               \/ /\ OutputDrained /\ suspended = <<>> /\ state \in {"FlushReady", "MarkerReady"}
                  /\ signal # <<>> /\ from = 1 /\ m = signal[1]
        PROVE  LineInv' /\ PrefixInv'
    <3> DEFINE L == Append(LastEdge, m)
    <3>0. from \in Edges /\ m \in Pushed
      BY <2>2 DEF Carries
    <3>1. \A i \in Inputs : OfSide(L, i) \o Rest(i)' = Got(i)'
      BY <1>0, <2>0, <2>2, <3>0, LineRotates
    <3>2. Whole' => Due' = L
      BY <1>0, <2>2, <3>0, RotateLocks, ClosedFails DEF Carries
    <3>3. \A e \in Edges : delivered'[e] \in {LastEdge, L}
      BY <1>0, <2>2, <3>0, RotateLocks DEF Carries
    <3>4. /\ L \in Seq(Traffic) /\ LastEdge \in Seq(Traffic)
          /\ \A i \in Inputs : OfSide(L, i) = OfSide(LastEdge, i) \o OfSide(<<m>>, i)
                               /\ OfSide(<<m>>, i) \in Seq(Side(i))
      <4>1. LastEdge \in Seq(Traffic) /\ m \in Traffic
        BY <1>0, <3>0, PartsTyped, Anything
      <4>2. L \in Seq(Traffic)
        BY <4>1
      <4>3. ASSUME NEW i \in Inputs
            PROVE  /\ OfSide(Append(LastEdge, m), i) = OfSide(LastEdge, i) \o OfSide(<<m>>, i)
                   /\ OfSide(<<m>>, i) \in Seq(Side(i))
        BY <4>1, SideAppend
      <4> QED BY <4>1, <4>2, <4>3
    <3>5. LineInv'
      BY <3>1, <3>2 DEF LineInv, OfSide
    <3>6. ASSUME NEW e \in Edges, NEW i \in Inputs
          PROVE  IsPrefix(OfSide(delivered'[e], i), Got(i)')
      <4> DEFINE a == OfSide(LastEdge, i)
                 b == OfSide(L, i)
                 x == OfSide(<<m>>, i)
                 r == Rest(i)'
                 g == Got(i)'
      <4>1. /\ a \in Seq(Side(i)) /\ b \in Seq(Side(i)) /\ x \in Seq(Side(i)) /\ b = a \o x
            /\ g = b \o r
        BY <3>1, <3>4, SideTyped
      <4>2. r \in Seq(Side(i)) /\ g \in Seq(Side(i))
        <5>1. LineTypes'
          BY <1>0, RestTyped, PTL
        <5> QED BY <5>1 DEF Side, LineTypes
      <4>3. OfSide(delivered'[e], i) \in {a, b}
        BY <3>3
      <4> HIDE DEF a, b, x, r, g
      <4>4. IsPrefix(b, g)
        BY ONLY <4>1, <4>2, PrefixOfConcat
      <4>5. IsPrefix(a, b)
        BY ONLY <4>1, PrefixOfConcat
      <4>6. IsPrefix(a, g)
        BY ONLY <4>1, <4>2, <4>4, <4>5, PrefixTrans
      <4>7. IsPrefix(OfSide(delivered'[e], i), g)
        BY <4>3, <4>4, <4>6
      <4> QED BY <4>7 DEF g
    <3>7. PrefixInv'
      BY <3>6 DEF PrefixInv, OfSide
    <3> QED BY <3>5, <3>7
  <2> QED BY <1>0, <1>2, <2>1, <2>2, RotationCarries
<1> QED
  BY <1>1, <1>2

LEMMA LineAll0 == Init => Base /\ LineAll
BY Types0, Phase0, Flush0, Signal0, Close0, Lock0, Line0 DEF Base, LineAll

LEMMA LineAll1 == Base /\ LineAll /\ [Next]_vars => Base' /\ LineAll'
BY Base1, Flush1, Signal1, Close1, Lock1, Line1 DEF LineAll

\* What the node read of a side is the beginning of what the side was sent.
LEMMA ReadIsSent ==
  ASSUME Types, NEW i \in Inputs
  PROVE  /\ \E x \in Seq(Side(i)) : OfSide(sent[i], i) = Got(i) \o x
         /\ Got(i) \in Seq(Side(i)) /\ OfSide(sent[i], i) \in Seq(Side(i))
<1> DEFINE s == sent[i]
           n == read[i]
           q == SubSeq(s, 1, n)
           r == SubSeq(s, n + 1, Len(s))
<1>1. s \in Seq(Traffic) /\ n \in Nat /\ n <= Len(s)
  BY PartsTyped DEF Types, InletTypes
<1> HIDE DEF s, n
<1>2. q \in Seq(Traffic) /\ r \in Seq(Traffic) /\ Len(q) = n /\ Len(r) = Len(s) - n
  BY <1>1
<1>3. /\ \A k \in 1 .. n : q[k] = s[k]
      /\ \A k \in 1 .. Len(s) - n : r[k] = s[n + k]
  BY <1>1
<1> HIDE DEF q, r
<1> DEFINE l == Len(s)
<1>7. s = q \o r
  <2>1. q \o r \in Seq(Traffic) /\ Len(q \o r) = l /\ l \in Nat
    <3>1. q \o r \in Seq(Traffic) /\ Len(q \o r) = Len(q) + Len(r) /\ l \in Nat
      BY <1>1, <1>2
    <3> HIDE DEF l
    <3>2. n + (l - n) = l
      BY <1>1, <3>1
    <3> QED BY <1>2, <3>1, <3>2 DEF l
  <2>2. \A k \in 1 .. l : (q \o r)[k] = s[k]
    <3> TAKE k \in 1 .. l
    <3>1. (q \o r)[k] = IF k <= Len(q) THEN q[k] ELSE r[k - Len(q)]
      BY <1>1, <1>2
    <3>2. CASE k <= n
      BY <1>1, <1>2, <1>3, <3>1, <3>2
    <3>3. CASE k > n
      <4>1. k - n \in 1 .. l - n /\ n + (k - n) = k /\ ~(k <= n)
        <5> HIDE DEF l
        <5> QED BY <1>1, <2>1, <3>3
      <4> QED BY <1>2, <1>3, <3>1, <4>1
    <3> QED BY <1>1, <2>1, <3>2, <3>3
  <2> DEFINE j == q \o r
  <2>3. j \in Seq(Traffic) /\ Len(j) = Len(s) /\ (\A k \in 1 .. Len(s) : j[k] = s[k]) /\ s \in Seq(Traffic)
    BY <1>1, <2>1, <2>2
  <2> HIDE DEF j
  <2>4. s = j
    BY ONLY <2>3
  <2> QED BY <2>4 DEF j
<1>4. Only(q \o r, Side(i)) = Only(q, Side(i)) \o Only(r, Side(i))
  BY <1>2, OnlyConcat
<1>5. OfSide(s, i) = OfSide(q, i) \o OfSide(r, i)
  BY <1>4, <1>7 DEF OfSide, Side
<1>6. OfSide(r, i) \in Seq(Side(i)) /\ OfSide(q, i) \in Seq(Side(i)) /\ OfSide(s, i) \in Seq(Side(i))
  BY <1>1, <1>2, SideTyped
<1> QED
  BY <1>5, <1>6 DEF Got, q, s, n

\* Each edge gets a side's data and Flushes in the order they were pushed, none
\* missing in between and none twice, wherever they were held on their way.
THEOREM DeliversInOrder == Spec => []InOrder
<1>1. Base /\ LineAll => InOrder
  <2> SUFFICES ASSUME Base, LineAll, NEW e \in Edges, NEW i \in Inputs
               PROVE  IsPrefix(OfSide(delivered[e], i), OfSide(sent[i], i))
    BY DEF InOrder
  <2> DEFINE a == OfSide(delivered[e], i)
             b == Got(i)
             c == OfSide(sent[i], i)
  <2>1. IsPrefix(a, b) /\ a \in Seq(Side(i))
    BY PartsTyped, SideTyped DEF LineAll, PrefixInv, Base
  <2>2. b \in Seq(Side(i)) /\ c \in Seq(Side(i)) /\ \E x \in Seq(Side(i)) : c = b \o x
    BY ReadIsSent DEF Base
  <2> HIDE DEF a, b, c
  <2>3. IsPrefix(b, c)
    BY <2>2, PrefixOfConcat
  <2>4. IsPrefix(a, c)
    BY ONLY <2>1, <2>2, <2>3, PrefixTrans
  <2> QED BY <2>4 DEF a, c
<1> QED
  BY <1>1, LineAll0, LineAll1, PTL DEF Spec

-----------------------------------------------------------------------------
(* The end.  A node that closes on its own has nothing but data behind its   *)
(* edges, so it has delivered every Flush; and then nothing moves any more.  *)

\* Only a signal that is being forwarded can be held as a signal.
DataHeld == suspended # <<>> /\ state # "Forwarding" => suspended[1].msg \in AnyData

Ended ==
  (state = "Closed" /\ \A e \in Edges : edge[e] # "rx") =>
    \A i \in Inputs :
      /\ inClosed[i]
      /\ \A e \in Edges : Len(OfSide(delivered[e], i)) >= LastFlush(i)

LEMMA End0 == Init => DataHeld /\ Ended
BY DEF Init, DataHeld, Ended

LEMMA Data1 == Base /\ LineAll /\ DataHeld /\ [Next]_vars => DataHeld'
<1> SUFFICES ASSUME Base, LineAll, DataHeld, [Next]_vars PROVE DataHeld'
  OBVIOUS
<1>0. Types /\ PhaseInv /\ RoutineTypes /\ LockInv
  BY DEF Base, Types, LineAll
<1>1. CASE ~(OutputRetries \/ OutputDelivers \/ OutputDrained)
  <2>1. suspended' = suspended \/ suspended' = <<>>
    BY <1>1, EdgesStay
  <2>2. ASSUME state = "Forwarding", state' # "Forwarding", suspended' = suspended
        PROVE  suspended = <<>>
    <3>1. ASSUME NEW i \in Inputs, \/ InputFlush(i) \/ InputMarker(i) \/ InputCloses(i)
          PROVE  FALSE
      BY <1>0, <2>2, <3>1 DEF InputFlush, InputMarker, InputCloses, Feeding, PhaseInv
    <3>2. ~WorkReady
      BY <1>0, <2>2 DEF WorkReady, PhaseInv
    <3>3. OutputForwarded \/ OutputEnds \/ UNCHANGED state
      BY <1>1, <3>1, <3>2, Steps DEF LeaveClosed, Swallow, InputBegins, InputData, InputEmpty,
         InputYields, WorkBegins, WorkSends, WorkPends, WorkTakes, OutputBegins, OutputYields,
         Upstream, UpstreamCloses, Downstream, DownstreamCloses, Io, vars, nodeVars
    <3> QED BY <2>2, <3>3 DEF OutputForwarded, OutputEnds
  <2> QED BY <2>1, <2>2 DEF DataHeld
<1>2. CASE OutputRetries \/ OutputDelivers \/ OutputDrained
  <2>1. ASSUME NEW from, NEW m, Rotate(from, m), suspended' # <<>> PROVE suspended'[1].msg = m
    <3>1. suspended' = <<[at |-> Reached(from) + 1, msg |-> m]>>
      BY <2>1 DEF Rotate, Suspend
    <3> DEFINE r == Reached(from)
    <3> HIDE DEF r
    <3>2. suspended' = <<[at |-> r + 1, msg |-> m]>>
      BY <3>1 DEF r
    <3> QED BY <3>2
  <2>2. CASE OutputRetries
    <3>1. suspended # <<>> /\ Rotate(suspended[1].at, suspended[1].msg) /\ UNCHANGED state
      BY <2>2 DEF OutputRetries, nodeVars
    <3> QED BY <2>1, <3>1 DEF DataHeld
  <2>3. CASE OutputDelivers
    <3>1. oq # <<>> /\ Rotate(1, Head(oq)) /\ Head(oq) \in AnyData
      BY <1>0, <2>3, PopTyped DEF OutputDelivers, Pop
    <3> QED BY <2>1, <3>1 DEF DataHeld
  <2>4. CASE OutputDrained
    <3>1. state' = "Forwarding" \/ suspended' = suspended
      BY <2>4 DEF OutputDrained
    <3>2. suspended = <<>>
      BY <2>4 DEF OutputDrained, Draining
    <3> QED BY <3>1, <3>2 DEF DataHeld
  <2> QED BY <1>2, <2>2, <2>3, <2>4
<1> QED
  BY <1>1, <1>2

\* A side of which only data follows has its last Flush before that data.
LEMMA DataFollows ==
  ASSUME NEW i \in Inputs, NEW a \in Seq(Side(i)), NEW d \in Seq(Data(i)),
         OfSide(sent[i], i) = a \o d
  PROVE  LastFlush(i) <= Len(a) /\ Len(a) \in Nat
<1> DEFINE p == OfSide(sent[i], i)
           F == {k \in DOMAIN p : p[k].kind = "flush"}
<1>1. LastFlush(i) = IF F = {} THEN 0 ELSE Max(F)
  BY DEF LastFlush
<1>2. /\ Len(a) \in Nat /\ Len(d) \in Nat /\ p \in Seq(Side(i) \cup Data(i))
      /\ Len(p) = Len(a) + Len(d) /\ DOMAIN p = 1 .. Len(p)
      /\ \A k \in 1 .. Len(d) : p[Len(a) + k] = d[k] /\ d[k] \in Data(i)
  <2>1. a \o d \in Seq(Side(i) \cup Data(i)) /\ Len(a \o d) = Len(a) + Len(d)
        /\ \A k \in 1 .. Len(d) : (a \o d)[Len(a) + k] = d[k] /\ d[k] \in Data(i)
    OBVIOUS
  <2> QED BY <2>1
<1> DEFINE l == Len(a)
<1> HIDE DEF p, l
<1>3. ASSUME NEW k \in F, k > l PROVE FALSE
  <2>1. k \in 1 .. l + Len(d)
    BY <1>2 DEF l
  <2>2. k - l \in 1 .. Len(d) /\ l + (k - l) = k
    BY <1>2, <1>3, <2>1 DEF l
  <2>3. p[k] \in Data(i)
    BY <1>2, <2>2 DEF l
  <2> QED BY <1>3, <2>3 DEF Data
<1>4. F \in SUBSET (0 .. l) /\ l \in Nat
  BY <1>2, <1>3 DEF l
<1>5. CASE F = {}
  BY <1>1, <1>4, <1>5 DEF l
<1>6. CASE F # {}
  <2>1. \E x \in F : \A y \in F : x >= y
    <3> HIDE DEF F
    <3> QED BY <1>4, <1>6, GreatestExists
  <2>2. Max(F) \in F
    BY <2>1 DEF Max
  <2> QED BY <1>1, <1>4, <1>6, <2>2 DEF l
<1> QED
  BY <1>5, <1>6

\* Data of any side, seen from one.
LEMMA OnlyData ==
  ASSUME NEW i \in Inputs, NEW q \in Seq(AnyData \cup Data(i))
  PROVE  OfSide(q, i) \in Seq(Data(i))
<1>1. Only(q, Side(i)) \in Seq((AnyData \cup Data(i)) \cap Side(i))
  BY OnlyType
<1>2. (AnyData \cup Data(i)) \cap Side(i) \subseteq Data(i)
  BY DEF AnyData, Data, Side
<1>3. \A S, T : S \subseteq T => Seq(S) \subseteq Seq(T)
  OBVIOUS
<1>4. OfSide(q, i) = Only(q, Side(i))
  BY DEF OfSide, Side
<1> QED
  BY <1>1, <1>2, <1>3, <1>4

\* A node whose inputs have all closed has nothing but data behind its edges.
LEMMA ClosesOnData ==
  ASSUME Base, LineAll, DataHeld, state = "CloseReady", Whole, NEW i \in Inputs
  PROVE  /\ inClosed[i]
         /\ \A e \in Edges : Len(OfSide(delivered[e], i)) >= LastFlush(i)
<1>0. /\ Types /\ PhaseInv /\ RoutineTypes /\ InletTypes /\ EdgeTypes /\ FlushInv /\ CloseInv
      /\ Together /\ LineInv
  BY DEF Base, Types, LineAll, LockInv
<1>1. ~open[i] /\ inClosed[i] /\ read[i] = Len(sent[i]) /\ held[i] = <<>> /\ signal = <<>>
  BY <1>0 DEF CloseInv, PhaseInv
<1>2. iq[i] \in Seq(Data(i)) /\ oq \in Seq(AnyData) /\ hand \in Seq(AnyData)
  BY <1>0 DEF FlushInv, RoutineTypes
<1>3. /\ OfSide(oq, i) \in Seq(Data(i)) /\ OfSide(hand, i) \in Seq(Data(i))
      /\ OfSide(iq[i], i) \in Seq(Data(i))
      /\ OfSide(signal, i) = <<>> /\ OfSide(held[i], i) = <<>> /\ <<>> \in Seq(Data(i))
  <2>1. \A S, T : S \subseteq T => Seq(S) \subseteq Seq(T)
    OBVIOUS
  <2>2. \A q \in Seq(AnyData) : q \in Seq(AnyData \cup Data(i))
    BY <2>1
  <2>3. \A q \in Seq(Data(i)) : q \in Seq(AnyData \cup Data(i))
    BY <2>1
  <2> QED BY <1>1, <1>2, <2>2, <2>3, OnlyData, SideEmpty
<1>4. Rest(i) \in Seq(Data(i))
  <2>1. OfSide(signal, i) \o OfSide(held[i], i) = <<>>
    BY <1>3, Joined
  <2>2. OfSide(iq[i], i) \o (OfSide(signal, i) \o OfSide(held[i], i)) \in Seq(Data(i))
    BY <1>3, <2>1, Joined
  <2>3. OfSide(hand, i) \o (OfSide(iq[i], i) \o (OfSide(signal, i) \o OfSide(held[i], i))) \in Seq(Data(i))
    BY <1>3, <2>2, Joined
  <2> QED BY <1>3, <2>3, Joined DEF Rest
<1>5. Got(i) = OfSide(sent[i], i)
  <2>1. sent[i] \in Seq(Pushed)
    BY <1>0 DEF InletTypes
  <2>2. SubSeq(sent[i], 1, Len(sent[i])) = sent[i]
    BY <2>1
  <2> QED BY <1>1, <2>2 DEF Got
<1> DEFINE a == OfSide(LastEdge, i)
<1>6. a \in Seq(Side(i))
  BY <1>0, SidesTyped
<1>7. \E d \in Seq(Data(i)) : OfSide(sent[i], i) = a \o d
  <2>1. OfSide(Due, i) \o Rest(i) = OfSide(sent[i], i)
    BY <1>0, <1>5 DEF LineInv
  <2>2. CASE suspended = <<>>
    BY <1>4, <2>1, <2>2 DEF Due
  <2>3. CASE suspended # <<>>
    <3> DEFINE m == suspended[1].msg
               x == OfSide(<<m>>, i)
               r == Rest(i)
    <3>1. m \in AnyData /\ m \in Traffic
      BY <2>3, Anything DEF DataHeld
    <3>2. OfSide(Due, i) = a \o x
      BY <1>0, <2>3, <3>1, PartsTyped, SideAppend DEF Due
    <3>3. x \in Seq(Data(i))
      <4>1. <<m>> \in Seq(AnyData \cup Data(i))
        BY <3>1
      <4> QED BY <4>1, OnlyData
    <3>4. x \o r \in Seq(Data(i)) /\ r \in Seq(Data(i))
      BY <1>4, <3>3, Joined
    <3>5. x \in Seq(Side(i)) /\ r \in Seq(Side(i))
      <4>1. Data(i) \subseteq Side(i)
        BY DEF Data, Side
      <4>2. \A S, T : S \subseteq T => Seq(S) \subseteq Seq(T)
        OBVIOUS
      <4> QED BY <3>3, <3>4, <4>1, <4>2
    <3> HIDE DEF a, x, r
    <3>6. (a \o x) \o r = a \o (x \o r)
      BY <1>6, <3>5, ConcatAssociative
    <3>7. OfSide(sent[i], i) = a \o (x \o r)
      BY <2>1, <3>2, <3>6 DEF r
    <3> QED BY <3>4, <3>7
  <2> QED BY <2>2, <2>3
<1>8. LastFlush(i) <= Len(a) /\ Len(a) \in Nat /\ LastFlush(i) \in Nat
  <2>1. PICK d \in Seq(Data(i)) : OfSide(sent[i], i) = a \o d
    BY <1>7
  <2> HIDE DEF a
  <2>2. LastFlush(i) <= Len(a) /\ Len(a) \in Nat
    BY <1>6, <2>1, DataFollows
  <2>3. LastFlush(i) \in Nat
    <3> DEFINE p == OfSide(sent[i], i)
               F == {k \in DOMAIN p : p[k].kind = "flush"}
    <3>1. LastFlush(i) = IF F = {} THEN 0 ELSE Max(F)
      BY DEF LastFlush
    <3>2. p \in Seq(Side(i))
      BY <1>0, PartsTyped, SideTyped
    <3>3. F \in SUBSET (0 .. Len(p)) /\ Len(p) \in Nat
      BY <3>2
    <3> HIDE DEF F
    <3>4. F # {} => \E x \in F : \A y \in F : x >= y
      BY <3>3, GreatestExists
    <3>5. F # {} => Max(F) \in F
      BY <3>4 DEF Max
    <3>6. \A y \in F : y \in Nat
      <4>1. SUBSET (0 .. Len(p)) \subseteq SUBSET Nat
        BY <3>3
      <4> QED BY <3>3, <4>1
    <3> QED BY <3>1, <3>5, <3>6
  <2> QED BY <2>2, <2>3
<1>9. ASSUME NEW e \in Edges PROVE Len(OfSide(delivered[e], i)) >= Len(a)
  <2>1. CASE delivered[e] = LastEdge
    BY <1>8, <2>1
  <2>2. CASE suspended # <<>> /\ delivered[e] = Append(LastEdge, suspended[1].msg)
    <3> DEFINE x == OfSide(<<suspended[1].msg>>, i)
    <3>1. suspended[1].msg \in Traffic
      BY <2>2, Anything DEF DataHeld
    <3>2. OfSide(delivered[e], i) = a \o x /\ x \in Seq(Side(i))
      BY <1>0, <2>2, <3>1, PartsTyped, SideAppend
    <3> HIDE DEF a, x
    <3>3. Len(a \o x) >= Len(a)
      BY <1>6, <3>2
    <3> QED BY <3>2, <3>3
  <2> QED BY <1>0, <2>1, <2>2 DEF Together
<1>10. ASSUME NEW e \in Edges PROVE Len(OfSide(delivered[e], i)) >= LastFlush(i)
  <2>1. Len(OfSide(delivered[e], i)) >= Len(a) /\ LastFlush(i) <= Len(a)
    BY <1>8, <1>9
  <2>2. Len(OfSide(delivered[e], i)) \in Nat
    <3>1. OfSide(delivered[e], i) \in Seq(Side(i))
      BY <1>0, PartsTyped, SideTyped
    <3> QED BY <3>1
  <2> DEFINE l == Len(a)
             n == Len(OfSide(delivered[e], i))
             f == LastFlush(i)
  <2>3. n >= l /\ f <= l /\ n \in Nat /\ l \in Nat /\ f \in Nat
    BY <1>8, <2>1, <2>2
  <2> HIDE DEF l, n, f
  <2>4. n >= f
    BY <2>3
  <2> QED BY <2>4 DEF n, f
<1> QED
  BY <1>1, <1>10

LEMMA Ended1 == Base /\ LineAll /\ DataHeld /\ Ended /\ [Next]_vars => Ended'
<1> SUFFICES ASSUME Base, LineAll, DataHeld, Ended, [Next]_vars,
                    state' = "Closed", \A e \in Edges : edge'[e] # "rx", NEW i \in Inputs
             PROVE  /\ inClosed'[i]
                    /\ \A e \in Edges : Len(OfSide(delivered'[e], i)) >= LastFlush(i)'
  BY DEF Ended, OfSide
<1>0. PhaseInv /\ CloseInv /\ InletTypes
  BY DEF Base, LineAll, Types
<1>1. \A e \in Edges : edge[e] # "rx"
  BY LeftStays
<1>2. inClosed[i] => inClosed'[i] /\ sent'[i] = sent[i]
  <2>1. ASSUME NEW j \in Inputs, Upstream(j) PROVE inClosed[i] => inClosed'[i] /\ sent'[i] = sent[i]
    <3>1. /\ ~inClosed[j] /\ UNCHANGED inClosed
          /\ \A k \in Inputs \ {j} : sent'[k] = sent[k]
      BY <1>0, <2>1 DEF Upstream, InletTypes
    <3> QED BY <3>1
  <2>2. ASSUME NEW j \in Inputs, UpstreamCloses(j)
        PROVE  inClosed[i] => inClosed'[i] /\ sent'[i] = sent[i]
    BY <1>0, <2>2 DEF UpstreamCloses, InletTypes
  <2>3. \/ /\ UNCHANGED sent
           /\ UNCHANGED inClosed \/ \E p : inClosed' = InletsAfter(p)
        \/ \E j \in Inputs : Upstream(j) \/ UpstreamCloses(j)
    BY Steps DEF LeaveClosed, Swallow, InputBegins, InputData, InputFlush, InputMarker, InputEmpty,
         InputCloses, InputYields, WorkBegins, WorkSends, WorkPends, WorkReady, WorkTakes,
         OutputBegins, OutputRetries, OutputDelivers, OutputYields, OutputDrained, OutputForwarded,
         OutputEnds, Downstream, DownstreamCloses, Io, vars, inletVars
  <2> QED BY <2>1, <2>2, <2>3 DEF InletsAfter
<1>3. sent'[i] = sent[i] => LastFlush(i)' = LastFlush(i)
  BY DEF LastFlush, OfSide
<1>4. CASE state = "Closed"
  <2>1. UNCHANGED delivered
    BY <1>4, ClosedStays
  <2> QED BY <1>1, <1>2, <1>3, <1>4, <2>1 DEF Ended
<1>5. CASE state # "Closed"
  <2>1. OutputEnds
    BY <1>5, Steps DEF LeaveClosed, Swallow, InputBegins, InputData, InputFlush, InputMarker,
       InputEmpty, InputCloses, InputYields, WorkBegins, WorkSends, WorkPends, WorkReady, WorkTakes,
       OutputBegins, OutputRetries, OutputDelivers, OutputYields, OutputDrained, OutputForwarded,
       Upstream, UpstreamCloses, Downstream, DownstreamCloses, Io, vars, nodeVars
  <2>2. pc.phase = "close" /\ state = "CloseReady" /\ Whole /\ UNCHANGED delivered
    BY <1>0, <1>1, <2>1 DEF OutputEnds, CloseInv, PhaseInv, Whole
  <2> QED BY <1>2, <1>3, <2>2, ClosesOnData
<1> QED
  BY <1>4, <1>5

\* "Flush before closing to deliver it": a node that closes on its own, its
\* consumers still there, has delivered on every edge all that was pushed up to
\* each side's last Flush.
THEOREM FlushesComeOut == Spec => []FlushedIsDelivered
<1>1. Init => Base /\ LineAll /\ DataHeld /\ Ended
  BY LineAll0, End0
<1>2. Base /\ LineAll /\ DataHeld /\ Ended /\ [Next]_vars => Base' /\ LineAll' /\ DataHeld' /\ Ended'
  BY LineAll1, Data1, Ended1
<1>3. Ended => FlushedIsDelivered
  BY DEF Ended, FlushedIsDelivered
<1> QED
  BY <1>1, <1>2, <1>3, PTL DEF Spec

-----------------------------------------------------------------------------
(* Wakes.  A phase that is neither woken, nor gone, nor being polled has a   *)
(* reason to rest, and whoever takes the reason away wakes it.               *)

Quiet(p) == p \notin woken \cup gone /\ pc.phase # p

WorkRests ==
  \/ state \in {"FlushReady", "Forwarding"}
  \/ fut = "io"
  \/ fut = "send" /\ sendParked /\ oq # <<>>
  \/ /\ fut = "recv" /\ \E i \in Inputs : ~sawFlush[i]
     /\ \A i \in Inputs : ~sawFlush[i] => iq[i] = <<>> /\ recvParked[i]

OutputRests ==
  \/ suspended # <<>> /\ owesPop[suspended[1].at]
  \/ /\ suspended = <<>> /\ oq = <<>> /\ armed
     /\ state \in {"Running", "Flushing"} \/ (state = "MarkerReady" /\ ~Quiet("work"))

InputRests(i) ==
  \/ state \notin {"Running", "CloseReady", "Closed"}
  \/ /\ state = "Running"
     /\ \/ held[i] # <<>> /\ refused[i]
        \/ held[i] = <<>> /\ ~open[i]
        \/ held[i] = <<>> /\ open[i] /\ read[i] = Len(sent[i]) /\ ~inClosed[i]

RestInv ==
  /\ Quiet("work") => WorkRests
  /\ Quiet("output") /\ pc.phase \notin {"fail", "close"} => OutputRests
  /\ \A i \in Inputs : Quiet(i) => InputRests(i)

\* A closed node leaves no phase asleep; a forwarded signal has no data behind
\* it; a queue that refused its Input is not empty.
RoomInv ==
  /\ state \in {"CloseReady", "Closed"} => ~Quiet("work")
  /\ gone # {} => state \in {"CloseReady", "Closed"}
  /\ state = "Forwarding" => oq = <<>> /\ armed
  /\ \A i \in Inputs : refused[i] => iq[i] # <<>>

LEMMA Rest0 == Init => RestInv /\ RoomInv
<1> SUFFICES ASSUME Init PROVE RestInv /\ RoomInv
  OBVIOUS
<1>1. woken = Phases /\ gone = {} /\ state = "Running" /\ \A i \in Inputs : ~refused[i]
  BY DEF Init, RoutineInit
<1>2. \A p \in Phases : ~Quiet(p)
  BY <1>1 DEF Quiet
<1> QED
  BY <1>1, <1>2, Names DEF RestInv, RoomInv

LEMMA StateMoves ==
  ASSUME Base, [Next]_vars
  PROVE  \/ UNCHANGED state
         \/ state = "Running" /\ state' = "Flushing" /\ \E i \in Inputs : InputFlush(i)
         \/ state = "Running" /\ state' = "MarkerReady" /\ \E i \in Inputs : InputMarker(i)
         \/ state = "Running" /\ state' = "CloseReady" /\ \E i \in Inputs : InputCloses(i) /\ LastInput(i)
         \/ state = "Flushing" /\ state' = "FlushReady" /\ WorkReady
         \/ state \in {"FlushReady", "MarkerReady"} /\ state' = "Forwarding" /\ OutputDrained
         \/ state = "Forwarding" /\ state' = "Running" /\ OutputForwarded
         \/ state # "Closed" /\ state' = "Closed" /\ OutputEnds
<1>0. PhaseInv
  BY DEF Base
<1>1. ASSUME NEW i \in Inputs, InputFlush(i) \/ InputMarker(i) \/ InputCloses(i)
      PROVE  /\ state = "Running"
             /\ \/ state' = "Flushing" /\ InputFlush(i)
                \/ state' = "MarkerReady" /\ InputMarker(i)
                \/ state' = "CloseReady" /\ InputCloses(i) /\ LastInput(i)
                \/ UNCHANGED state
  BY <1>0, <1>1 DEF InputFlush, InputMarker, InputCloses, Feeding, PhaseInv
<1>2. ASSUME WorkReady PROVE UNCHANGED state \/ (state = "Flushing" /\ state' = "FlushReady")
  BY <1>2 DEF WorkReady
<1>3. ASSUME OutputDrained
      PROVE  UNCHANGED state \/ (state \in {"FlushReady", "MarkerReady"} /\ state' = "Forwarding")
  BY <1>3 DEF OutputDrained
<1>4. ASSUME OutputForwarded PROVE state = "Forwarding" /\ state' = "Running"
  BY <1>4 DEF OutputForwarded
<1>5. ASSUME OutputEnds PROVE state # "Closed" /\ state' = "Closed"
  BY <1>0, <1>5 DEF OutputEnds, PhaseInv
<1>6. \/ UNCHANGED state
      \/ \E i \in Inputs : InputFlush(i) \/ InputMarker(i) \/ InputCloses(i)
      \/ WorkReady \/ OutputDrained \/ OutputForwarded \/ OutputEnds
  BY Steps DEF LeaveClosed, Swallow, InputBegins, InputData, InputEmpty, InputYields, WorkBegins,
     WorkSends, WorkPends, WorkTakes, OutputBegins, OutputRetries, OutputDelivers, OutputYields,
     Upstream, UpstreamCloses, Downstream, DownstreamCloses, Io, vars, nodeVars
<1> QED
  BY <1>1, <1>2, <1>3, <1>4, <1>5, <1>6

\* The steps after which a phase is no longer polled, nor woken, nor gone.
ToRest(p) ==
  \/ p \in Inputs /\ (Swallow(p) \/ InputBegins(p) \/ InputData(p) \/ InputFlush(p) \/ InputMarker(p)
                      \/ InputEmpty(p) \/ InputCloses(p))
  \/ p = "work" /\ (Swallow(p) \/ WorkPends \/ WorkReady)
  \/ p = "output" /\ (OutputRetries \/ OutputDelivers \/ OutputDrained \/ OutputForwarded)

LEMMA QuietBack ==
  ASSUME Base, [Next]_vars, NEW p \in Phases, Quiet(p)'
  PROVE  Quiet(p) \/ ToRest(p)
<1>0. /\ Types /\ pc.left \in 0 .. Budget /\ p \notin {"none", "fail", "close", "fatal"}
      /\ p \notin woken' /\ p \notin gone' /\ pc'.phase # p
      /\ \A q : [pc EXCEPT !.left = q].phase = pc.phase
      /\ Idle.phase = "none" /\ \A q, n : [phase |-> q, left |-> n].phase = q
  BY DEF Base, Types, PhaseTypes, Quiet, Idle, Phases
<1>1. ASSUME NEW q \in Phases, LeaveClosed(q) \/ Swallow(q) PROVE Quiet(p) \/ ToRest(p)
  <2>1. pc = Idle
    BY <1>1 DEF LeaveClosed, Swallow, Begin
  <2>2. CASE LeaveClosed(q)
    <3>1. woken' = woken \ {q} /\ gone' = gone \cup {q}
      BY <2>2 DEF LeaveClosed, DropPhase
    <3> QED BY <1>0, <2>1, <3>1 DEF Quiet
  <2>3. CASE Swallow(q)
    <3>1. woken' = woken \ {q} /\ gone' = gone /\ q # "output"
      BY <2>3, Names DEF Swallow
    <3>2. CASE p = q
      BY <2>3, <3>1, <3>2 DEF ToRest, Phases
    <3> QED BY <1>0, <2>1, <3>1, <3>2 DEF Quiet
  <2> QED BY <1>1, <2>2, <2>3
<1>2. ASSUME NEW i \in Inputs,
             \/ InputBegins(i) \/ InputData(i) \/ InputFlush(i) \/ InputMarker(i)
             \/ InputEmpty(i) \/ InputCloses(i) \/ InputYields(i)
      PROVE  Quiet(p) \/ ToRest(p)
  <2>1. CASE p = i /\ ~InputYields(i)
    BY <1>2, <2>1 DEF ToRest
  <2>2. CASE InputYields(i)
    <3>1. woken' = woken \cup ({i} \ gone) /\ gone' = gone /\ pc.phase = i
      BY <2>2 DEF InputYields, Wake
    <3> QED BY <1>0, <3>1 DEF Quiet
  <2>3. CASE p # i /\ ~InputYields(i)
    <3>1. (pc = Idle \/ pc.phase = i) /\ woken \ {i} \subseteq woken' /\ gone \subseteq gone'
      BY <1>2, <2>3 DEF InputBegins, InputData, InputFlush, InputMarker, InputEmpty, InputCloses,
         Begin, Feeding, Wake, DropPhase
    <3> QED BY <1>0, <2>3, <3>1 DEF Quiet
  <2> QED BY <2>1, <2>2, <2>3
<1>3. ASSUME WorkBegins \/ WorkSends \/ WorkPends \/ WorkReady \/ \E i \in Inputs : WorkTakes(i)
      PROVE  Quiet(p) \/ ToRest(p)
  <2>1. CASE p = "work" /\ (WorkPends \/ WorkReady)
    BY <2>1 DEF ToRest
  <2>2. CASE p = "work" /\ ~(WorkPends \/ WorkReady)
    <3>1. pc'.phase = "work"
      BY <1>0, <1>3, <2>2 DEF WorkBegins, WorkSends, WorkTakes
    <3> QED BY <1>0, <2>2, <3>1
  <2>3. CASE p # "work"
    <3>1. (pc = Idle \/ pc.phase = "work") /\ woken \ {"work"} \subseteq woken' /\ gone' = gone
      BY <1>3 DEF WorkBegins, WorkSends, WorkPends, WorkReady, WorkTakes, Begin, Wake
    <3> QED BY <1>0, <2>3, <3>1 DEF Quiet
  <2> QED BY <2>1, <2>2, <2>3
<1>4. ASSUME \/ OutputBegins \/ OutputRetries \/ OutputDelivers \/ OutputYields \/ OutputDrained
             \/ OutputForwarded \/ OutputEnds
      PROVE  Quiet(p) \/ ToRest(p)
  <2>1. CASE p = "output" /\ (OutputRetries \/ OutputDelivers \/ OutputDrained \/ OutputForwarded)
    BY <2>1 DEF ToRest
  <2>2. CASE p = "output" /\ (OutputBegins \/ OutputYields \/ OutputEnds)
    <3>1. pc'.phase = "output" \/ "output" \in woken' \cup gone'
      BY <1>0, <2>2 DEF OutputBegins, OutputYields, OutputEnds, Wake, DropPhase
    <3> QED BY <1>0, <2>2, <3>1
  <2>3. CASE p # "output"
    <3>1. /\ pc = Idle \/ pc.phase \in {"output", "fail", "close"}
          /\ woken \ {"output"} \subseteq woken' /\ gone \subseteq gone'
      BY <1>4 DEF OutputBegins, OutputRetries, OutputDelivers, OutputYields, OutputDrained,
         OutputForwarded, OutputEnds, Begin, Wake, DropPhase, Draining
    <3> QED BY <1>0, <2>3, <3>1 DEF Quiet
  <2> QED BY <1>4, <2>1, <2>2, <2>3
<1>5. ASSUME \/ \E i \in Inputs : Upstream(i) \/ UpstreamCloses(i)
             \/ \E e \in Edges : Downstream(e) \/ DownstreamCloses(e)
             \/ Io \/ UNCHANGED vars
      PROVE  Quiet(p) \/ ToRest(p)
  <2>1. pc' = pc /\ woken \subseteq woken' /\ gone' = gone
    BY <1>5 DEF Upstream, UpstreamCloses, Downstream, DownstreamCloses, Io, vars, Wake
  <2> QED BY <1>0, <2>1 DEF Quiet
<1> QED
  BY <1>1, <1>2, <1>3, <1>4, <1>5, Steps

\* A wake reaches a phase, unless it is gone.
LEMMA Woken ==
  ASSUME NEW S, Wake(S), gone \subseteq gone', NEW p \in S
  PROVE  ~Quiet(p)'
BY DEF Wake, Quiet

LEMMA WorkRests1 ==
  ASSUME Base, FlushInv, FlushInv', RestInv, RoomInv, [Next]_vars, Quiet("work")'
  PROVE  WorkRests'
<1>0. /\ Types /\ PhaseInv /\ RoutineTypes /\ "work" \in Phases
      /\ \A i \in Inputs : i # "work"
  BY Names DEF Base, Types
<1>1. CASE ToRest("work")
  <2>1. CASE Swallow("work")
    BY <2>1 DEF Swallow, WorkRests, nodeVars
  <2>2. CASE WorkPends
    <3>1. FutureParks
      BY <2>2 DEF WorkPends
    <3>2. CASE fut = "io"
      BY <3>1, <3>2 DEF FutureParks, routineVars, WorkRests
    <3>3. CASE fut = "send"
      <4>1. Len(oq) >= Room /\ sendParked' = TRUE /\ UNCHANGED <<fut, oq>>
        BY <3>1, <3>3 DEF FutureParks
      <4>2. oq # <<>>
        BY <4>1
      <4> QED BY <3>3, <4>1, <4>2 DEF WorkRests
    <3>4. CASE fut = "recv"
      <4>1. /\ \E i \in Inputs : ~sawFlush[i]
            /\ \A i \in Inputs : ~sawFlush[i] => iq[i] = <<>>
            /\ recvParked' = [i \in Inputs |-> recvParked[i] \/ ~sawFlush[i]]
            /\ UNCHANGED <<fut, sawFlush, iq>>
        BY <3>1, <3>4 DEF FutureParks
      <4> QED BY <3>4, <4>1 DEF WorkRests
    <3> QED BY <1>0, <3>2, <3>3, <3>4 DEF RoutineTypes
  <2>3. CASE WorkReady
    BY <2>3 DEF WorkReady, WorkRests, FlushInv
  <2> QED BY <1>0, <1>1, <2>1, <2>2, <2>3 DEF ToRest
<1>2. CASE Quiet("work") /\ ~ToRest("work")
  <2>0. WorkRests /\ pc.phase # "work"
    BY <1>2 DEF RestInv, Quiet
  <2>1. ASSUME NEW i \in Inputs, NEW m, TrySend(i, m), Wake(SendWakes(i)) \/ woken' = (woken \ {i}) \cup (SendWakes(i) \ gone),
               UNCHANGED gone, state = "Running", UNCHANGED state
        PROVE  WorkRests'
    <3>1. /\ iq' = [iq EXCEPT ![i] = Append(@, m)]
          /\ recvParked' = [recvParked EXCEPT ![i] = FALSE]
          /\ UNCHANGED <<sawFlush, oq, sendParked, fut>>
      BY <2>1 DEF TrySend
    <3>2. CASE fut # "recv"
      BY <2>0, <2>1, <3>1, <3>2 DEF WorkRests
    <3>3. CASE fut = "recv"
      <4>1. ~sawFlush[i] /\ recvParked[i]
        BY <2>0, <2>1, <3>3 DEF WorkRests, FlushInv
      <4>2. "work" \in woken' \cup gone'
        BY <2>1, <4>1 DEF SendWakes, WorkIf, Wake
      <4> QED BY <4>2 DEF Quiet
    <3> QED BY <3>2, <3>3
  <2>2. ASSUME NEW i \in Inputs, InputBegins(i) \/ InputData(i) PROVE WorkRests'
    <3>1. state = "Running" /\ UNCHANGED <<state, gone>>
      BY <1>0, <2>2 DEF InputBegins, Drains, InputData, Feeding, PhaseInv
    <3>2. \/ UNCHANGED routineVars
          \/ Refuse(i)
          \/ \E m : TrySend(i, m) /\ (Wake(SendWakes(i)) \/ woken' = (woken \ {i}) \cup (SendWakes(i) \ gone))
      BY <2>2 DEF InputBegins, InputData
    <3>3. CASE UNCHANGED routineVars \/ Refuse(i)
      BY <2>0, <3>1, <3>3 DEF Refuse, routineVars, WorkRests
    <3> QED BY <2>1, <3>1, <3>2, <3>3
  <2>3. ASSUME NEW i \in Inputs, \/ InputFlush(i) \/ InputMarker(i) \/ (InputCloses(i) /\ LastInput(i))
        PROVE  FALSE
    <3>1. "work" \in woken' \cup gone'
      BY <1>0, <2>3 DEF InputFlush, InputMarker, InputCloses, Wake, DropPhase
    <3> QED BY <3>1 DEF Quiet
  <2>4. ASSUME NEW i \in Inputs, \/ InputEmpty(i) \/ InputYields(i) \/ (InputCloses(i) /\ ~LastInput(i))
        PROVE  UNCHANGED <<state, fut, sendParked, oq, sawFlush, iq, recvParked>>
    BY <2>4 DEF InputEmpty, InputYields, InputCloses, routineVars, nodeVars
  <2>5. ASSUME NEW p \in Phases, LeaveClosed(p) \/ Swallow(p)
        PROVE  UNCHANGED <<state, fut, sendParked, oq, sawFlush, iq, recvParked>>
    BY <2>5 DEF LeaveClosed, Swallow, routineVars, nodeVars
  <2>6. ~(WorkSends \/ WorkPends \/ WorkReady \/ \E i \in Inputs : WorkTakes(i))
    BY <2>0 DEF WorkSends, WorkPends, WorkReady, WorkTakes
  <2>7. CASE OutputDelivers
    <3>1. Wake(PopWakes) /\ UNCHANGED <<state, gone, fut, sawFlush, iq, recvParked>>
      BY <2>7 DEF OutputDelivers, Pop, nodeVars
    <3>2. ASSUME sendParked PROVE FALSE
      BY <3>1, <3>2 DEF PopWakes, WorkIf, Wake, Quiet
    <3> QED BY <2>0, <3>1, <3>2 DEF WorkRests
  <2>8. CASE OutputForwarded \/ OutputEnds
    <3>1. "work" \in woken' \cup gone'
      BY <2>8 DEF OutputForwarded, OutputEnds, ResumeWakes, EndWakes, Wake, DropPhase, Stop
    <3> QED BY <3>1 DEF Quiet
  <2>9. CASE OutputDrained
    <3>1. UNCHANGED <<fut, sendParked, oq, sawFlush, iq, recvParked>>
      BY <2>9 DEF OutputDrained, PopNothing
    <3>2. UNCHANGED state \/ state' = "Forwarding"
      BY <2>9 DEF OutputDrained
    <3> QED BY <2>0, <3>1, <3>2 DEF WorkRests
  <2>10. CASE Io
    <3>1. "work" \in woken' \cup gone'
      BY <2>10 DEF Io, Wake
    <3> QED BY <3>1 DEF Quiet
  <2>11. ASSUME \/ WorkBegins \/ OutputBegins \/ OutputRetries \/ OutputYields
                \/ \E i \in Inputs : Upstream(i) \/ UpstreamCloses(i)
                \/ \E e \in Edges : Downstream(e) \/ DownstreamCloses(e)
                \/ UNCHANGED vars
         PROVE  UNCHANGED <<state, fut, sendParked, oq, sawFlush, iq, recvParked>>
    BY <2>11 DEF WorkBegins, OutputBegins, OutputRetries, OutputYields, Upstream, UpstreamCloses,
       Downstream, DownstreamCloses, vars, routineVars, nodeVars
  <2>12. CASE UNCHANGED <<state, fut, sendParked, oq, sawFlush, iq, recvParked>>
    BY <2>0, <2>12 DEF WorkRests
  <2> QED BY <2>2, <2>3, <2>4, <2>5, <2>6, <2>7, <2>8, <2>9, <2>10, <2>11, <2>12, Steps
<1> QED
  BY <1>0, <1>1, <1>2, QuietBack

\* A rotation that did not complete leaves the message at an edge that owes the
\* node a wake, or ends the poll for good.
LEMMA RotationRests ==
  ASSUME Base, NEW from \in Edges, NEW m, Rotate(from, m), pc' = Halted(Outcome(from)),
         Outcome(from) # "complete"
  PROVE  pc'.phase \in {"fail", "close"} \/ (suspended' # <<>> /\ owesPop'[suspended'[1].at])
<1>0. owesPop \in [Edges -> BOOLEAN]
  BY DEF Base, Types, EdgeTypes
<1>1. CASE Outcome(from) = "closed"
  BY <1>1 DEF Halted
<1>2. CASE Outcome(from) = "suspended"
  <2> DEFINE r == Reached(from) + 1
  <2>1. /\ r \in Edges /\ suspended' = <<[at |-> r, msg |-> m]>>
        /\ owesPop' = [owesPop EXCEPT ![r] = TRUE]
    BY <1>2, RotationStops, RotationLeaves
  <2> HIDE DEF r
  <2>2. suspended' # <<>> /\ suspended'[1].at = r /\ owesPop'[r]
    BY <1>0, <2>1
  <2> QED BY <2>2
<1> QED
  BY <1>1, <1>2, RotationStops

LEMMA OutputRests1 ==
  ASSUME Base, FlushInv, FlushInv', RestInv, RoomInv, [Next]_vars, Quiet("output")',
         pc'.phase \notin {"fail", "close"}
  PROVE  OutputRests'
<1>0. /\ Types /\ PhaseInv /\ RoutineTypes /\ EdgeTypes /\ PhaseTypes
      /\ "work" \in Phases /\ "output" \in Phases
      /\ \A i \in Inputs : i # "work" /\ i # "output"
      /\ "output" \notin woken' \cup gone' /\ pc'.phase # "output"
      /\ \A q : [pc EXCEPT !.left = q].phase = pc.phase
  BY Names DEF Base, Types, PhaseTypes, Quiet
<1>1. CASE ToRest("output")
  <2>1. CASE OutputRetries
    <3>1. /\ pc.phase = "output" /\ suspended # <<>> /\ suspended[1].at \in Edges
          /\ Rotate(suspended[1].at, suspended[1].msg)
          /\ pc' = IF Outcome(suspended[1].at) = "complete" THEN pc ELSE Halted(Outcome(suspended[1].at))
      BY <1>0, <2>1, SuspendedTyped DEF OutputRetries
    <3>2. suspended' # <<>> /\ owesPop'[suspended'[1].at]
      BY <1>0, <3>1, RotationRests
    <3> QED BY <3>2 DEF OutputRests
  <2>2. CASE OutputDelivers
    <3>1. /\ pc.phase = "output" /\ Rotate(1, Head(oq))
          /\ pc' = IF Outcome(1) = "complete" THEN [pc EXCEPT !.left = @ - 1] ELSE Halted(Outcome(1))
      BY <2>2 DEF OutputDelivers, Draining
    <3>2. suspended' # <<>> /\ owesPop'[suspended'[1].at]
      BY <1>0, <3>1, RotationRests, EdgeNumbers
    <3> QED BY <3>2 DEF OutputRests
  <2>3. CASE OutputDrained
    <3>1. pc.phase = "output" /\ suspended = <<>> /\ state # "Forwarding" /\ PopNothing
      BY <2>3 DEF OutputDrained, Draining
    <3>2. CASE state \in {"FlushReady", "MarkerReady"}
      <4>1. Rotate(1, signal[1]) /\ pc' = IF Outcome(1) = "complete" THEN pc ELSE Halted(Outcome(1))
        BY <2>3, <3>2 DEF OutputDrained
      <4>2. suspended' # <<>> /\ owesPop'[suspended'[1].at]
        BY <1>0, <3>1, <4>1, RotationRests, EdgeNumbers
      <4> QED BY <4>2 DEF OutputRests
    <3>3. CASE state = "CloseReady"
      <4>1. pc' = [phase |-> "close", left |-> 0]
        BY <2>3, <3>3 DEF OutputDrained
      <4> QED BY <4>1
    <3>4. CASE state \notin {"FlushReady", "MarkerReady", "CloseReady"}
      <4>1. UNCHANGED <<state, suspended>>
        BY <2>3, <3>4 DEF OutputDrained
      <4>2. oq' = <<>> /\ armed' = TRUE
        BY <3>1 DEF PopNothing
      <4>3. state \in {"Running", "Flushing"}
        BY <1>0, <3>1, <3>4 DEF PhaseTypes, States, PhaseInv
      <4> QED BY <3>1, <4>1, <4>2, <4>3 DEF OutputRests
    <3> QED BY <3>2, <3>3, <3>4
  <2>4. CASE OutputForwarded
    <3>1. state = "Forwarding" /\ state' = "Running" /\ suspended = <<>> /\ UNCHANGED <<oq, armed, suspended>>
      BY <2>4 DEF OutputForwarded, routineVars, edgeVars
    <3> QED BY <3>1 DEF RoomInv, OutputRests
  <2> QED BY <1>0, <1>1, <2>1, <2>2, <2>3, <2>4 DEF ToRest
<1>2. CASE Quiet("output") /\ ~ToRest("output")
  <2>1. pc.phase \notin {"output", "fail", "close"}
    <3>1. ASSUME pc.phase \in {"fail", "close"} PROVE FALSE
      <4>1. OutputEnds \/ pc' = pc
        <5>1. /\ pc # Idle /\ pc.phase # "work" /\ pc.phase # "output"
              /\ \A i \in Inputs : pc.phase # i
          BY <3>1, Names DEF Idle
        <5> QED BY <5>1, Steps DEF LeaveClosed, Swallow, InputBegins, InputData, InputFlush,
              InputMarker, InputEmpty, InputCloses, InputYields, WorkBegins, WorkSends, WorkPends,
              WorkReady, WorkTakes, OutputBegins, OutputRetries, OutputDelivers, OutputYields,
              OutputDrained, OutputForwarded, Upstream, UpstreamCloses, Downstream,
              DownstreamCloses, Io, vars, Begin, Feeding, Draining
      <4>2. CASE OutputEnds
        <5>1. "output" \in gone'
          BY <4>2 DEF OutputEnds, DropPhase
        <5> QED BY <1>0, <5>1
      <4> QED BY <3>1, <4>1, <4>2
    <3> QED BY <1>2, <3>1 DEF Quiet
  <2>2. OutputRests /\ "output" \notin gone
    BY <1>2, <2>1 DEF RestInv, Quiet
  <2>3. Quiet("work")' => Quiet("work") \/ Swallow("work") \/ WorkPends \/ WorkReady
    BY <1>0, QuietBack DEF ToRest
  <2>4. ASSUME NEW i \in Inputs, InputFlush(i) PROVE OutputRests'
    <3>1. /\ state = "Running" /\ state' = "Flushing"
          /\ UNCHANGED <<suspended, owesPop, oq, armed>>
      BY <1>0, <2>4 DEF InputFlush, Feeding, PhaseInv, edgeVars, Flush
    <3> QED BY <2>2, <3>1 DEF OutputRests
  <2>5. ASSUME NEW i \in Inputs, InputMarker(i) PROVE OutputRests'
    <3>1. /\ state = "Running" /\ state' = "MarkerReady"
          /\ UNCHANGED <<suspended, owesPop, oq, armed>> /\ "work" \in woken' \cup gone'
      BY <1>0, <2>5 DEF InputMarker, Feeding, PhaseInv, edgeVars, routineVars, Wake
    <3> QED BY <2>2, <3>1 DEF OutputRests, Quiet
  <2>6. ASSUME \/ \E i \in Inputs : InputCloses(i) /\ LastInput(i)
               \/ WorkReady \/ OutputEnds \/ OutputYields
        PROVE  FALSE
    <3>1. ASSUME NEW i \in Inputs, InputCloses(i), LastInput(i) PROVE "output" \in woken' \cup gone'
      BY <1>0, <3>1 DEF InputCloses, DropPhase
    <3>2. ASSUME WorkReady PROVE "output" \in woken' \cup gone'
      BY <3>2 DEF WorkReady, Wake, FlushInv
    <3>3. ASSUME OutputEnds \/ OutputYields PROVE "output" \in woken' \cup gone'
      BY <3>3 DEF OutputEnds, OutputYields, DropPhase, Wake
    <3> QED BY <1>0, <2>6, <3>1, <3>2, <3>3
  <2>7. CASE WorkSends
    <3>1. /\ Wake(SentWakes) /\ UNCHANGED <<gone, state, suspended, owesPop>>
      BY <2>7 DEF WorkSends, edgeVars, nodeVars
    <3>2. ~armed
      BY <1>0, <3>1 DEF SentWakes, Wake
    <3> QED BY <2>2, <3>1, <3>2 DEF OutputRests
  <2>8. CASE WorkPends
    <3>1. /\ Wake(IF state = "MarkerReady" THEN {"output"} ELSE {})
          /\ UNCHANGED <<gone, state, suspended, owesPop>>
      BY <2>8 DEF WorkPends, edgeVars, nodeVars
    <3>2. state # "MarkerReady"
      BY <1>0, <3>1 DEF Wake
    <3>3. UNCHANGED <<oq, armed>>
      BY <2>8 DEF WorkPends, FutureParks, routineVars
    <3> QED BY <2>2, <3>1, <3>2, <3>3 DEF OutputRests
  <2>9. ASSUME NEW e \in Edges, Downstream(e) \/ DownstreamCloses(e) PROVE OutputRests'
    <3>1. /\ owesPop' = [owesPop EXCEPT ![e] = FALSE]
          /\ Wake(IF owesPop[e] THEN {"output"} ELSE {})
          /\ UNCHANGED <<gone, state, suspended, oq, armed, pc>>
      BY <2>9 DEF Downstream, DownstreamCloses, routineVars, nodeVars
    <3>2. ~owesPop[e]
      BY <1>0, <3>1 DEF Wake
    <3>3. owesPop' = owesPop
      BY <1>0, <3>1, <3>2 DEF EdgeTypes
    <3>4. ~Swallow("work") /\ ~WorkPends /\ ~WorkReady
      <4>1. ASSUME Swallow("work") PROVE FALSE
        <5>1. woken' = woken \ {"work"} /\ "work" \in woken
          BY <4>1 DEF Swallow, Begin
        <5>2. woken \subseteq woken'
          BY <3>1 DEF Wake
        <5> QED BY <5>1, <5>2
      <4>2. ASSUME pc' = pc, WorkPends \/ WorkReady PROVE FALSE
        BY <4>2, Names DEF WorkPends, WorkReady, Stop, Idle
      <4> QED BY <3>1, <4>1, <4>2
    <3>5. Quiet("work")' => Quiet("work")
      BY <2>3, <3>4
    <3> QED BY <2>2, <3>1, <3>3, <3>5 DEF OutputRests
  <2>10. CASE UNCHANGED <<state, suspended, owesPop, oq, armed>> /\ ~WorkPends /\ ~WorkReady
    <3>1. state = "MarkerReady" => ~Swallow("work")
      BY DEF Swallow
    <3> QED BY <2>2, <2>3, <2>10, <3>1 DEF OutputRests
  <2>11. ASSUME NEW p \in Phases, LeaveClosed(p) \/ Swallow(p)
         PROVE  UNCHANGED <<state, suspended, owesPop, oq, armed>>
    BY <2>11 DEF LeaveClosed, Swallow, routineVars, nodeVars, edgeVars
  <2>12. ASSUME NEW i \in Inputs,
                \/ InputBegins(i) \/ InputData(i) \/ InputEmpty(i) \/ InputYields(i)
                \/ (InputCloses(i) /\ ~LastInput(i)) \/ WorkTakes(i)
         PROVE  UNCHANGED <<state, suspended, owesPop, oq, armed>>
    BY <2>12 DEF InputBegins, InputData, InputEmpty, InputYields, InputCloses, WorkTakes, FutureTakes,
       TrySend, Refuse, routineVars, nodeVars, edgeVars
  <2>13. ASSUME \/ WorkBegins \/ Io \/ UNCHANGED vars
                \/ \E i \in Inputs : Upstream(i) \/ UpstreamCloses(i)
         PROVE  UNCHANGED <<state, suspended, owesPop, oq, armed>>
    BY <2>13 DEF WorkBegins, Io, IoDone, Upstream, UpstreamCloses, vars, routineVars, nodeVars, edgeVars
  <2>14. ~OutputBegins
    BY <1>0 DEF OutputBegins
  <2>15. ~(OutputRetries \/ OutputDelivers \/ OutputDrained \/ OutputForwarded)
    BY <1>2 DEF ToRest
  <2> QED BY <2>4, <2>5, <2>6, <2>7, <2>8, <2>9, <2>10, <2>11, <2>12, <2>13, <2>14, <2>15, Steps
<1> QED
  BY <1>0, <1>1, <1>2, QuietBack

LEMMA InputRests1 ==
  ASSUME Base, FlushInv, FlushInv', RestInv, RoomInv, [Next]_vars, NEW i \in Inputs, Quiet(i)'
  PROVE  InputRests(i)'
<1>0. /\ PhaseInv /\ InletTypes /\ RoutineTypes /\ i \in Phases /\ i # "work" /\ i # "output"
      /\ i \notin woken' \cup gone' /\ pc'.phase # i /\ Idle.phase = "none"
      /\ \A q : [pc EXCEPT !.left = q].phase = pc.phase
  BY Names DEF Base, Types, PhaseTypes, Quiet, Idle
<1>1. CASE ToRest(i)
  <2>1. CASE Swallow(i)
    BY <1>0, <2>1 DEF Swallow, nodeVars, InputRests
  <2>2. CASE InputBegins(i)
    <3>1. /\ state = "Running" /\ UNCHANGED <<state, open>>
          /\ \/ held[i] # <<>> /\ Refuse(i) /\ UNCHANGED held
             \/ pc' = [phase |-> i, left |-> Budget]
             \/ held[i] = <<>> /\ ~open[i] /\ UNCHANGED held
      BY <2>2 DEF InputBegins, Drains
    <3>2. Refuse(i) => refused'[i]
      BY <1>0 DEF Refuse, RoutineTypes
    <3> QED BY <1>0, <3>1, <3>2 DEF InputRests
  <2>3. CASE InputData(i)
    <3>1. /\ state = "Running" /\ UNCHANGED <<state, open>> /\ pc.phase = i
          /\ \/ pc' = [pc EXCEPT !.left = @ - 1]
             \/ Refuse(i) /\ held' = [held EXCEPT ![i] = <<NextIn(i)>>]
      BY <1>0, <2>3 DEF InputData, Feeding, PhaseInv
    <3>2. Refuse(i) => refused'[i]
      BY <1>0 DEF Refuse, RoutineTypes
    <3>3. held' = [held EXCEPT ![i] = <<NextIn(i)>>] => held'[i] # <<>>
      <4> DEFINE m == NextIn(i)
      <4> HIDE DEF m
      <4>1. held' = [held EXCEPT ![i] = <<m>>] => held'[i] # <<>>
        BY <1>0 DEF InletTypes
      <4> QED BY <4>1 DEF m
    <3> QED BY <1>0, <3>1, <3>2, <3>3 DEF InputRests
  <2>4. CASE InputFlush(i) \/ InputMarker(i)
    <3>1. state' \in {"Flushing", "MarkerReady"}
      BY <2>4 DEF InputFlush, InputMarker
    <3> QED BY <3>1 DEF InputRests
  <2>5. CASE InputEmpty(i)
    <3>1. /\ state = "Running" /\ held[i] = <<>> /\ open[i] /\ ~inClosed[i] /\ ~(read[i] < Len(sent[i]))
          /\ UNCHANGED <<state, held, open, inClosed, read, sent>>
      BY <1>0, <2>5 DEF InputEmpty, Feeding, PhaseInv, HasNext, nodeVars, inletVars
    <3>2. read[i] = Len(sent[i])
      BY <1>0, <3>1 DEF InletTypes
    <3> QED BY <3>1, <3>2 DEF InputRests
  <2>6. CASE InputCloses(i)
    <3>1. CASE LastInput(i)
      BY <1>0, <2>6, <3>1 DEF InputCloses, DropPhase
    <3>2. CASE ~LastInput(i)
      <4>1. state = "Running" /\ held[i] = <<>> /\ UNCHANGED <<state, held>>
            /\ open' = [open EXCEPT ![i] = FALSE]
        BY <1>0, <2>6, <3>2 DEF InputCloses, Feeding, PhaseInv
      <4> QED BY <1>0, <4>1 DEF InputRests, InletTypes
    <3> QED BY <3>1, <3>2
  <2> QED BY <1>0, <1>1, <2>1, <2>2, <2>3, <2>4, <2>5, <2>6 DEF ToRest
<1>2. CASE Quiet(i) /\ ~ToRest(i)
  <2>0. InputRests(i) /\ i \notin gone /\ pc.phase # i
    BY <1>2 DEF RestInv, Quiet
  <2>1. ASSUME NEW j \in Inputs, InputFlush(j) \/ InputMarker(j) PROVE InputRests(i)'
    <3>1. state' \in {"Flushing", "MarkerReady"}
      BY <2>1 DEF InputFlush, InputMarker
    <3> QED BY <3>1 DEF InputRests
  <2>2. ASSUME NEW j \in Inputs, InputBegins(j) \/ InputData(j) \/ InputCloses(j) PROVE InputRests(i)'
    <3>1. i # j
      BY <1>0, <1>2, <2>2 DEF ToRest
    <3>2. CASE InputCloses(j) /\ LastInput(j)
      BY <1>0, <2>0, <3>1, <3>2 DEF InputCloses, DropPhase
    <3>3. CASE ~(InputCloses(j) /\ LastInput(j))
      <4>1. /\ UNCHANGED <<state, inClosed, sent>> /\ held'[i] = held[i] /\ open'[i] = open[i]
            /\ read'[i] = read[i] /\ refused'[i] = refused[i]
        <5>1. CASE InputBegins(j)
          <6>1. UNCHANGED refused \/ refused' = [refused EXCEPT ![j] = TRUE]
            BY <5>1 DEF InputBegins, TrySend, Refuse, routineVars
          <6> QED BY <1>0, <3>1, <5>1, <6>1 DEF InputBegins, InletTypes, RoutineTypes, inletVars
        <5>2. CASE InputData(j)
          <6>1. UNCHANGED refused \/ refused' = [refused EXCEPT ![j] = TRUE]
            BY <5>2 DEF InputData, TrySend, Refuse
          <6> QED BY <1>0, <3>1, <5>2, <6>1 DEF InputData, InletTypes, RoutineTypes, Advance
        <5>3. CASE InputCloses(j)
          BY <1>0, <3>1, <3>3, <5>3 DEF InputCloses, InletTypes, routineVars, inletVars
        <5> QED BY <2>2, <5>1, <5>2, <5>3
      <4> QED BY <2>0, <4>1 DEF InputRests
    <3> QED BY <3>2, <3>3
  <2>3. CASE OutputForwarded \/ OutputEnds
    <3>1. i \in woken' \cup gone'
      BY <1>0, <2>3 DEF OutputForwarded, OutputEnds, Wake, ResumeWakes, EndWakes, DropPhase
    <3> QED BY <1>0, <3>1
  <2>4. ASSUME NEW p \in Phases, LeaveClosed(p) PROVE InputRests(i)'
    BY <2>0, <2>4 DEF LeaveClosed, InputRests
  <2>5. CASE OutputDrained
    <3>1. /\ UNCHANGED state \/ state' = "Forwarding"
          /\ UNCHANGED <<held, open, read, sent, inClosed, refused>>
      BY <2>5 DEF OutputDrained, PopNothing, inletVars
    <3> QED BY <2>0, <3>1 DEF InputRests
  <2>6. CASE WorkReady
    <3>1. state' = "FlushReady"
      BY <2>6 DEF WorkReady, FlushInv
    <3> QED BY <3>1 DEF InputRests
  <2>7. ASSUME NEW j \in Inputs, WorkTakes(j) PROVE InputRests(i)'
    <3>1. /\ UNCHANGED <<state, held, open, read, sent, inClosed, gone>>
          /\ refused' = [refused EXCEPT ![j] = FALSE] /\ Wake(TakeWakes(j))
      BY <2>7 DEF WorkTakes, FutureTakes, nodeVars, inletVars
    <3>2. CASE i = j
      <4>1. ~refused[i]
        BY <1>0, <3>1, <3>2 DEF TakeWakes, Wake
      <4> QED BY <2>0, <3>1, <4>1 DEF InputRests
    <3>3. CASE i # j
      <4>1. refused'[i] = refused[i]
        BY <1>0, <3>1, <3>3 DEF RoutineTypes
      <4> QED BY <2>0, <3>1, <4>1 DEF InputRests
    <3> QED BY <3>2, <3>3
  <2>8. ASSUME NEW j \in Inputs, Upstream(j) \/ UpstreamCloses(j) PROVE InputRests(i)'
    <3>1. Wake({j}) /\ UNCHANGED <<state, held, open, read, refused, gone>>
      BY <2>8 DEF Upstream, UpstreamCloses, nodeVars, routineVars, inletVars
    <3>2. i # j
      BY <1>0, <3>1 DEF Wake
    <3>3. sent'[i] = sent[i] /\ inClosed'[i] = inClosed[i]
      <4>1. CASE Upstream(j)
        BY <1>0, <3>2, <4>1 DEF Upstream, InletTypes
      <4>2. CASE UpstreamCloses(j)
        BY <1>0, <3>2, <4>2 DEF UpstreamCloses, InletTypes
      <4> QED BY <2>8, <4>1, <4>2
    <3> QED BY <2>0, <3>1, <3>3 DEF InputRests
  <2>9. ASSUME \/ \E p \in Phases : Swallow(p)
               \/ \E j \in Inputs : InputEmpty(j) \/ InputYields(j)
               \/ WorkBegins \/ WorkSends \/ WorkPends
               \/ OutputBegins \/ OutputRetries \/ OutputDelivers \/ OutputYields
               \/ \E e \in Edges : Downstream(e) \/ DownstreamCloses(e)
               \/ Io \/ UNCHANGED vars
        PROVE  UNCHANGED <<state, held, open, read, sent, inClosed, refused>>
    BY <2>9 DEF Swallow, InputEmpty, InputYields, WorkBegins, WorkSends, FutureSends, WorkPends,
       FutureParks, OutputBegins, OutputRetries, OutputDelivers, Pop, OutputYields, Downstream,
       DownstreamCloses, Io, IoDone, vars, routineVars, nodeVars, inletVars
  <2>10. CASE UNCHANGED <<state, held, open, read, sent, inClosed, refused>>
    BY <2>0, <2>10 DEF InputRests
  <2> QED BY <2>1, <2>2, <2>3, <2>4, <2>5, <2>6, <2>7, <2>8, <2>9, <2>10, Steps
<1> QED
  BY <1>0, <1>1, <1>2, QuietBack

\* A message appended leaves a sequence that is not empty.
LEMMA NotEmpty ==
  ASSUME NEW S, NEW q \in Seq(S), NEW m
  PROVE  Append(q, m) # <<>>
<1> DEFINE T == S \cup {m}
<1>1. q \in Seq(T) /\ m \in T
  <2>1. m \in T /\ S \subseteq T
    OBVIOUS
  <2> HIDE DEF T
  <2>2. q \in Seq(T)
    BY <2>1
  <2> QED BY <2>1, <2>2
<1> HIDE DEF T
<1> QED
  BY <1>1

LEMMA Room1 ==
  ASSUME Base, FlushInv, RestInv, RoomInv, [Next]_vars
  PROVE  RoomInv'
<1>0. /\ PhaseInv /\ RoutineTypes /\ "work" \in Phases /\ \A i \in Inputs : i # "work"
  BY Names DEF Base, Types
<1>1. state' \in {"CloseReady", "Closed"} => ~Quiet("work")'
  <2> SUFFICES ASSUME state' \in {"CloseReady", "Closed"}, Quiet("work")' PROVE FALSE
    OBVIOUS
  <2>1. ASSUME NEW i \in Inputs, InputCloses(i), LastInput(i) PROVE FALSE
    <3>1. "work" \in woken' \cup gone'
      BY <1>0, <2>1 DEF InputCloses, DropPhase
    <3> QED BY <3>1 DEF Quiet
  <2>2. ASSUME OutputEnds PROVE FALSE
    <3>1. "work" \in woken' \cup gone'
      BY <2>2 DEF OutputEnds, EndWakes, DropPhase
    <3> QED BY <3>1 DEF Quiet
  <2>3. UNCHANGED state
    BY <2>1, <2>2, StateMoves
  <2>4. ~ToRest("work")
    BY <1>0, <2>3 DEF ToRest, Swallow, WorkPends, WorkReady, PhaseInv
  <2> QED BY <1>0, <2>3, <2>4, QuietBack DEF RoomInv
<1>2. gone' # {} => state' \in {"CloseReady", "Closed"}
  <2>1. \/ UNCHANGED gone
        \/ \E p \in Phases : LeaveClosed(p)
        \/ \E i \in Inputs : InputCloses(i) /\ LastInput(i)
        \/ OutputEnds
    BY Steps DEF Swallow, InputBegins, InputData, InputFlush, InputMarker, InputEmpty, InputCloses,
       InputYields, WorkBegins, WorkSends, WorkPends, WorkReady, WorkTakes, OutputBegins,
       OutputRetries, OutputDelivers, OutputYields, OutputDrained, OutputForwarded, Upstream,
       UpstreamCloses, Downstream, DownstreamCloses, Io, vars
  <2>2. CASE UNCHANGED gone
    BY <2>2, StateMoves DEF RoomInv
  <2>3. ASSUME NEW p \in Phases, LeaveClosed(p) PROVE state' \in {"CloseReady", "Closed"}
    BY <2>3 DEF LeaveClosed
  <2>4. ASSUME NEW i \in Inputs, InputCloses(i), LastInput(i) PROVE state' \in {"CloseReady", "Closed"}
    BY <2>4 DEF InputCloses
  <2>5. CASE OutputEnds
    BY <2>5 DEF OutputEnds
  <2> QED BY <2>1, <2>2, <2>3, <2>4, <2>5
<1>3. state' = "Forwarding" => oq' = <<>> /\ armed'
  <2> SUFFICES ASSUME state' = "Forwarding" PROVE oq' = <<>> /\ armed'
    OBVIOUS
  <2>1. CASE OutputDrained
    BY <2>1 DEF OutputDrained, PopNothing
  <2>2. CASE ~OutputDrained
    <3>1. UNCHANGED state /\ oq = <<>> /\ armed
      BY <2>2, StateMoves DEF RoomInv
    <3>2. ~WorkSends /\ ~OutputDelivers
      BY <1>0, <3>1 DEF WorkSends, PhaseInv, OutputDelivers, Draining
    <3>3. UNCHANGED <<oq, armed>>
      BY <2>2, <3>2, Steps DEF LeaveClosed, Swallow, InputBegins, InputData, InputFlush, InputMarker,
         InputEmpty, InputCloses, InputYields, WorkBegins, WorkPends, FutureParks, WorkReady, Renew,
         WorkTakes, FutureTakes, OutputBegins, OutputRetries, OutputYields, OutputForwarded,
         OutputEnds, Upstream, UpstreamCloses, Downstream, DownstreamCloses, Io, IoDone, TrySend,
         Refuse, Flush, vars, routineVars
    <3> QED BY <3>1, <3>3
  <2> QED BY <2>1, <2>2
<1>4. \A i \in Inputs : refused'[i] => iq'[i] # <<>>
  <2>1. ASSUME NEW j \in Inputs, NEW m, TrySend(j, m) PROVE \A i \in Inputs : refused'[i] => iq'[i] # <<>>
    <3>1. iq' = [iq EXCEPT ![j] = Append(@, m)] /\ UNCHANGED refused
      BY <2>1 DEF TrySend
    <3>2. iq[j] \in Seq(Item) /\ Append(iq[j], m) # <<>>
      <4>1. iq[j] \in Seq(Item)
        BY <1>0 DEF RoutineTypes
      <4> QED BY <4>1, NotEmpty
    <3> QED BY <1>0, <3>1, <3>2 DEF RoomInv, RoutineTypes
  <2>2. ASSUME NEW j \in Inputs, Refuse(j) PROVE \A i \in Inputs : refused'[i] => iq'[i] # <<>>
    <3>1. ~(Len(iq[j]) < Room) /\ refused' = [refused EXCEPT ![j] = TRUE] /\ UNCHANGED iq
      BY <2>2 DEF Refuse, HasRoom
    <3>2. iq[j] # <<>>
      BY <3>1
    <3> QED BY <1>0, <3>1, <3>2 DEF RoomInv, RoutineTypes
  <2>3. ASSUME NEW j \in Inputs, WorkTakes(j) PROVE \A i \in Inputs : refused'[i] => iq'[i] # <<>>
    <3>1. refused' = [refused EXCEPT ![j] = FALSE] /\ iq' = [iq EXCEPT ![j] = Tail(@)]
      BY <2>3 DEF WorkTakes, FutureTakes
    <3> QED BY <1>0, <3>1 DEF RoomInv, RoutineTypes
  <2>4. CASE Flush
    <3>1. iq' = [i \in Inputs |-> Append(iq[i], FlushItem(i))] /\ UNCHANGED refused
      BY <2>4 DEF Flush
    <3>2. \A i \in Inputs : Append(iq[i], FlushItem(i)) # <<>>
      <4> TAKE i \in Inputs
      <4>1. iq[i] \in Seq(Item)
        BY <1>0 DEF RoutineTypes
      <4> QED BY <4>1, NotEmpty
    <3> QED BY <3>1, <3>2
  <2>5. CASE Renew
    BY <2>5 DEF Renew
  <2>6. CASE UNCHANGED <<iq, refused>>
    BY <2>6 DEF RoomInv
  <2>7. \/ \E j \in Inputs : Refuse(j) \/ WorkTakes(j) \/ \E m : TrySend(j, m)
        \/ Flush \/ Renew \/ UNCHANGED <<iq, refused>>
    BY Steps DEF LeaveClosed, Swallow, InputBegins, InputData, InputFlush, InputMarker, InputEmpty,
       InputCloses, InputYields, WorkBegins, WorkSends, FutureSends, WorkPends, FutureParks,
       WorkReady, OutputBegins, OutputRetries, OutputDelivers, Pop, OutputYields, OutputDrained,
       PopNothing, OutputForwarded, OutputEnds, Upstream, UpstreamCloses, Downstream,
       DownstreamCloses, Io, IoDone, vars, routineVars
  <2> QED BY <2>1, <2>2, <2>3, <2>4, <2>5, <2>6, <2>7
<1> QED
  BY <1>1, <1>2, <1>3, <1>4 DEF RoomInv

RestAll == FlushInv /\ CloseInv /\ RestInv /\ RoomInv

LEMMA RestAll1 == Base /\ RestAll /\ [Next]_vars => Base' /\ RestAll'
<1> SUFFICES ASSUME Base, RestAll, [Next]_vars PROVE Base' /\ RestAll'
  OBVIOUS
<1>1. Base' /\ FlushInv /\ FlushInv' /\ CloseInv' /\ RestInv /\ RoomInv
  BY Base1, Flush1, Close1 DEF RestAll
<1>2. RoomInv'
  BY <1>1, Room1
<1>3. RestInv'
  BY <1>1, WorkRests1, OutputRests1, InputRests1 DEF RestInv
<1> QED
  BY <1>1, <1>2, <1>3 DEF RestAll

\* No wake is lost: when no phase is to be polled, the node waits for the
\* consumer of an edge that will wake Output, or for the future's I/O, or it is
\* Running with all that was pushed to its open sides delivered.
THEOREM SleepsWhenDone == Spec => []QuietMeansDone
<1>1. Init => Base /\ RestAll
  BY Types0, Phase0, Flush0, Close0, Rest0 DEF Base, RestAll
<1>2. Base /\ RestAll => QuietMeansDone
  <2> SUFFICES ASSUME Base, RestAll, pc = Idle, woken = {}, gone # Phases,
                      ~(suspended # <<>> /\ owesPop[suspended[1].at]), fut # "io"
               PROVE  /\ state = "Running" /\ suspended = <<>> /\ hand = <<>> /\ oq = <<>>
                      /\ \A i \in Inputs :
                           /\ held[i] = <<>> /\ iq[i] = <<>> /\ read[i] = Len(sent[i])
                           /\ open[i] # inClosed[i]
    BY DEF QuietMeansDone
  <2>0. /\ PhaseInv /\ RoutineTypes /\ InletTypes /\ PhaseTypes /\ FlushInv /\ CloseInv /\ RestInv /\ RoomInv
    BY DEF Base, Types, RestAll
  <2>1. \A p \in Phases : p \notin gone => Quiet(p)
    BY Names DEF Quiet, Idle, Phases
  <2>2. state \notin {"CloseReady", "Closed"}
    <3>1. ASSUME state \in {"CloseReady", "Closed"} PROVE FALSE
      <4>1. "work" \in gone
        BY <2>0, <2>1, <3>1, Names DEF RoomInv
      <4>2. \A i \in Inputs : i \in gone
        BY <2>0, <2>1, <3>1, Names DEF RestInv, InputRests
      <4>3. CASE "output" \in gone
        BY <2>0, <4>1, <4>2, <4>3 DEF Phases, PhaseTypes
      <4>4. CASE "output" \notin gone
        <5>1. OutputRests
          BY <2>0, <2>1, <4>4, Names DEF RestInv, Idle
        <5> QED BY <3>1, <5>1 DEF OutputRests
      <4> QED BY <4>3, <4>4
    <3> QED BY <3>1
  <2>3. \A p \in Phases : Quiet(p)
    BY <2>0, <2>1, <2>2 DEF RoomInv
  <2>4. suspended = <<>> /\ oq = <<>> /\ state \in {"Running", "Flushing"}
    <3>1. OutputRests /\ Quiet("work")
      BY <2>0, <2>3, Names DEF RestInv, Idle
    <3> QED BY <3>1 DEF OutputRests
  <2>5. /\ fut = "recv" /\ \E i \in Inputs : ~sawFlush[i]
        /\ \A i \in Inputs : ~sawFlush[i] => iq[i] = <<>>
    <3>1. WorkRests
      BY <2>0, <2>3, Names DEF RestInv
    <3> QED BY <2>4, <3>1 DEF WorkRests
  <2>6. state = "Running"
    <3>1. ASSUME state = "Flushing" PROVE FALSE
      <4>1. PICK i \in Inputs : ~sawFlush[i] /\ iq[i] = <<>>
        BY <2>5
      <4>2. PICK q \in Seq(Data(i)) : iq[i] = Append(q, FlushItem(i))
        BY <2>0, <3>1, <4>1 DEF FlushInv
      <4> DEFINE m == FlushItem(i)
      <4> HIDE DEF m
      <4>3. Append(q, m) # <<>>
        OBVIOUS
      <4> QED BY <4>1, <4>2, <4>3 DEF m
    <3> QED BY <2>4, <3>1
  <2>7. hand = <<>>
    BY <2>0, <2>5 DEF RoutineTypes
  <2>8. ASSUME NEW i \in Inputs
        PROVE  held[i] = <<>> /\ iq[i] = <<>> /\ read[i] = Len(sent[i]) /\ open[i] # inClosed[i]
    <3>1. iq[i] = <<>> /\ ~refused[i]
      BY <2>0, <2>5, <2>6 DEF FlushInv, RoomInv
    <3>2. InputRests(i)
      BY <2>0, <2>3, Names DEF RestInv
    <3>3. held[i] = <<>> /\ (~open[i] \/ (open[i] /\ read[i] = Len(sent[i]) /\ ~inClosed[i]))
      BY <2>6, <3>1, <3>2 DEF InputRests
    <3> QED BY <2>0, <3>1, <3>3 DEF CloseInv, InletTypes
  <2> QED BY <2>4, <2>6, <2>7, <2>8
<1> QED
  BY <1>1, <1>2, RestAll1, PTL DEF Spec
=============================================================================
