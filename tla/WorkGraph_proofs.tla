----------------------- MODULE WorkGraph_proofs -----------------------
(***************************************************************************)
(* Proofs about WorkGraph, for every set of graphs that the crate's calls  *)
(* can build, any number of threads, nodes, edges and messages.            *)
(***************************************************************************)
EXTENDS WorkGraph, Induction_proofs, SequenceTheorems

-----------------------------------------------------------------------------
(* What the calls made sure of, as it is used below.                        *)

GraphOK == Shaped(graph) /\ BoundedAsTold(graph)

LEMMA KindsDiffer ==
  /\ Nodes(graph) \subseteq Parts(graph) /\ Threads(graph) \subseteq Parts(graph)
  /\ Writers(graph) \subseteq Parts(graph) /\ Tees(graph) \subseteq Parts(graph)
  /\ Nodes(graph) \cap (Threads(graph) \cup Writers(graph) \cup Tees(graph)) = {}
  /\ Threads(graph) \cap (Writers(graph) \cup Tees(graph)) = {}
  /\ \A x \in Nodes(graph) : graph.kind[x] \notin {"stream", "io", "writer", "lent", "tee"}
  /\ \A t \in Threads(graph) : graph.kind[t] \in {"stream", "io"}
  /\ \A w \in Writers(graph) : graph.kind[w] = "writer"
  /\ \A w \in Tees(graph) : graph.kind[w] = "tee"
  /\ \A w \in Lent(graph) : w \in Parts(graph) /\ graph.kind[w] = "lent" /\ w \notin Nodes(graph) \cup Threads(graph)
BY DEF Nodes, Threads, Writers, Tees, Lent

\* A node and its owner.
LEMMA Owners ==
  ASSUME GraphOK
  PROVE  /\ \A x \in Nodes(graph) : /\ graph.owner[x] \in Nodes(graph) \cup Threads(graph)
                                    /\ graph.owner[x] \in Parts(graph) /\ graph.owner[x] # x
                                    /\ x \in Owned(graph, graph.owner[x])
         /\ \A y \in Parts(graph) : \A x \in Owned(graph, y) : x \in Nodes(graph) /\ graph.owner[x] = y
<1>1. OwnedOnce(graph)
  BY DEF GraphOK, Shaped
<1>2. \A y \in Parts(graph) : \A x \in Owned(graph, y) : graph.owner[x] = y
  BY <1>1 DEF OwnedOnce
<1>3. \A y \in Parts(graph) : \A x \in Owned(graph, y) : x \in Nodes(graph)
  BY <1>1 DEF OwnedOnce, Owned, ToSet
<1>4. \A x \in Nodes(graph) : /\ graph.owner[x] \in Nodes(graph) \cup Threads(graph)
                              /\ x \in Owned(graph, graph.owner[x])
  BY <1>1 DEF OwnedOnce
<1>5. \A y \in Parts(graph) : y \notin Owned(graph, y)
  BY <1>1 DEF OwnedOnce
<1> QED
  BY <1>2, <1>3, <1>4, <1>5, KindsDiffer

LEMMA SeqShape ==
  ASSUME NEW S, NEW q \in Seq(S)
  PROVE  /\ Len(q) \in Nat /\ DOMAIN q = 1 .. Len(q) /\ \A k \in DOMAIN q : q[k] \in S
         /\ q # <<>> => Len(q) \in Nat \ {0} /\ 1 \in DOMAIN q
OBVIOUS

\* The sides and the edges of a part; an outlet, and the edge it pushes into.
LEMMA OutletShape ==
  ASSUME GraphOK
  PROVE  /\ \A x \in Nodes(graph) : /\ NumInputs(x) \in Nat \ {0}
                                    /\ DOMAIN graph.bound[x] = 1 .. NumInputs(x)
         /\ \A x \in Parts(graph) : /\ LastSide(x) \in Nat /\ Sides(x) = 1 .. LastSide(x)
                                    /\ DOMAIN graph.bound[x] \subseteq Nat \ {0}
         /\ \A x \in Parts(graph) : \A s \in Sides(x) :
              Len(graph.outs[x][s]) \in Nat /\ DOMAIN graph.outs[x][s] = 1 .. Len(graph.outs[x][s])
         /\ \A x \in Nodes(graph) \cup Writers(graph) \cup Lent(graph) :
              LastSide(x) \in Nat \ {0} /\ \A s \in Sides(x) : Len(graph.outs[x][s]) \in Nat \ {0}
         /\ \A x \in Parts(graph) : \A s \in Sides(x) : \A k \in DOMAIN graph.outs[x][s] :
              <<x, s, k>> \in Outlets(graph)
         /\ \A o \in Outlets(graph) : /\ o[1] \in Parts(graph) /\ o[2] \in Sides(o[1])
                                      /\ o[3] \in DOMAIN graph.outs[o[1]][o[2]]
                                      /\ o = <<o[1], o[2], o[3]>>
                                      /\ To(o) \in Inputs(graph) /\ To(o)[1] \in Parts(graph)
                                      /\ To(o)[2] \in DOMAIN graph.bound[To(o)[1]] /\ Bound(To(o)) \in Nat
         /\ \A i \in Inputs(graph) : i[1] \in Parts(graph) /\ i[2] \in DOMAIN graph.bound[i[1]]
                                     /\ i = <<i[1], i[2]>> /\ Bound(i) \in Nat
         /\ \A x \in Parts(graph) : \A p \in DOMAIN graph.bound[x] : <<x, p>> \in Inputs(graph)
<1> DEFINE E == [to : Inputs(graph), follows : BOOLEAN]
<1>1. EdgesLead(graph)
  BY DEF GraphOK, Shaped
<1>2. \A x \in Parts(graph) : graph.bound[x] \in Seq(Nat) /\ graph.outs[x] \in Seq(Seq(E))
  BY <1>1 DEF EdgesLead
<1>3. \A i \in Inputs(graph) : i[1] \in Parts(graph) /\ i[2] \in DOMAIN graph.bound[i[1]] /\ i = <<i[1], i[2]>>
  BY DEF Inputs
<1>4. \A i \in Inputs(graph) : Bound(i) \in Nat
  BY <1>2, <1>3, SeqShape DEF Bound
<1>5. \A o \in Outlets(graph) : /\ o[1] \in Parts(graph) /\ o[2] \in Sides(o[1])
                                /\ o[3] \in DOMAIN graph.outs[o[1]][o[2]]
                                /\ o = <<o[1], o[2], o[3]>>
  BY DEF Outlets, Sides
<1>6. \A x \in Parts(graph) : \A s \in Sides(x) : graph.outs[x][s] \in Seq(E)
  BY <1>2, SeqShape DEF Sides
<1>7. ASSUME NEW o \in Outlets(graph) PROVE To(o) \in Inputs(graph)
  <2>1. graph.outs[o[1]][o[2]][o[3]] \in E
    BY <1>5, <1>6, SeqShape
  <2> QED BY <2>1 DEF To, Edge
<1>8. \A x \in Parts(graph) : \A s \in Sides(x) : \A k \in DOMAIN graph.outs[x][s] :
        <<x, s, k>> \in Outlets(graph)
  BY DEF Outlets, Sides
<1>9. \A x \in Parts(graph) : /\ LastSide(x) \in Nat /\ Sides(x) = 1 .. LastSide(x)
                              /\ DOMAIN graph.bound[x] = 1 .. NumInputs(x) /\ NumInputs(x) \in Nat
  BY <1>2, SeqShape DEF LastSide, Sides, NumInputs
<1>10. \A x \in Parts(graph) : \A s \in Sides(x) :
        Len(graph.outs[x][s]) \in Nat /\ DOMAIN graph.outs[x][s] = 1 .. Len(graph.outs[x][s])
  BY <1>6, SeqShape
<1>11. \A x \in Nodes(graph) : NumInputs(x) \in Nat \ {0}
  <2>1. \A x \in Nodes(graph) : x \in Parts(graph) /\ graph.bound[x] # <<>>
    BY <1>1, KindsDiffer DEF EdgesLead
  <2> QED BY <1>2, <2>1, SeqShape DEF NumInputs
<1>12. ASSUME NEW x \in Nodes(graph) \cup Writers(graph) \cup Lent(graph)
       PROVE  LastSide(x) \in Nat \ {0} /\ \A s \in Sides(x) : Len(graph.outs[x][s]) \in Nat \ {0}
  <2>1. x \in Parts(graph)
    BY KindsDiffer
  <2>2. graph.outs[x] # <<>> /\ \A s \in DOMAIN graph.outs[x] : graph.outs[x][s] # <<>>
    BY <1>1 DEF EdgesLead
  <2>3. LastSide(x) \in Nat \ {0}
    BY <1>2, <2>1, <2>2, SeqShape DEF LastSide
  <2>4. \A s \in Sides(x) : graph.outs[x][s] # <<>>
    BY <2>2 DEF Sides
  <2>5. \A s \in Sides(x) : Len(graph.outs[x][s]) \in Nat \ {0}
    BY <1>6, <2>1, <2>4, SeqShape
  <2> QED BY <2>3, <2>5
<1>13. \A x \in Parts(graph) : DOMAIN graph.bound[x] \subseteq Nat \ {0}
  BY <1>9
<1>14. \A o \in Outlets(graph) : To(o)[1] \in Parts(graph) /\ To(o)[2] \in DOMAIN graph.bound[To(o)[1]]
                                 /\ Bound(To(o)) \in Nat
  BY <1>3, <1>4, <1>7
<1>15. \A x \in Nodes(graph) : x \in Parts(graph)
  BY KindsDiffer
<1>16. \A x \in Parts(graph) : \A p \in DOMAIN graph.bound[x] : <<x, p>> \in Inputs(graph)
  BY DEF Inputs
<1> QED
  BY <1>16, <1>3, <1>4, <1>5, <1>7, <1>8, <1>9, <1>10, <1>11, <1>12, <1>13, <1>14, <1>15

\* What drops with a part.
LEMMA Trees ==
  ASSUME GraphOK
  PROVE  /\ \A x \in Parts(graph) :
              /\ x \in graph.tree[x] /\ graph.tree[x] \subseteq Nodes(graph) \cup {x}
              /\ \A y \in Nodes(graph) : graph.owner[y] \in graph.tree[x] => y \in graph.tree[x]
              /\ \A y \in graph.tree[x] \ {x} : graph.owner[y] \in graph.tree[x]
         /\ \A x \in Nodes(graph) : Home(x) \in Threads(graph) /\ x \in graph.tree[Home(x)]
         /\ \A t \in Threads(graph) : \A x \in graph.tree[t] : Home(x) = t
<1>1. TreesDrop(graph)
  BY DEF GraphOK, Shaped
<1>2. \A x \in Parts(graph) :
              /\ x \in graph.tree[x] /\ graph.tree[x] \subseteq Nodes(graph) \cup {x}
              /\ \A y \in graph.tree[x] : Owned(graph, y) \subseteq graph.tree[x]
              /\ \A y \in graph.tree[x] \ {x} : graph.owner[y] \in graph.tree[x]
  BY <1>1 DEF TreesDrop
<1>3. \A x \in Nodes(graph) : Home(x) \in Threads(graph) /\ x \in graph.tree[Home(x)]
  BY <1>1 DEF TreesDrop, Home
<1>4. \A t \in Threads(graph) : \A x \in graph.tree[t] : Home(x) = t
  <2> SUFFICES ASSUME NEW t \in Threads(graph), NEW x \in graph.tree[t] PROVE Home(x) = t
    OBVIOUS
  <2>1. Home(x) \in Threads(graph) /\ x \in graph.tree[Home(x)]
    BY DEF Home
  <2>2. graph.tree[t] \cap graph.tree[Home(x)] # {}
    BY <2>1
  <2> QED BY <1>1, <2>1, <2>2 DEF TreesDrop
<1>5. \A x \in Parts(graph), y \in Nodes(graph) : graph.owner[y] \in graph.tree[x] => y \in graph.tree[x]
  BY <1>2, Owners
<1> QED
  BY <1>2, <1>3, <1>4, <1>5

-----------------------------------------------------------------------------
(* Types, and the shape of a frame.                                         *)

Ats == {"idle", "round", "push", "block", "wake", "input", "wait", "park", "each", "call"}
Frames == [at : Ats, side : Nat \ {0}, i : Nat \ {0}, busy : BOOLEAN, msg : Seq(Message)]
Holdings == [at : Nat \ {0}, msg : Message]

FrameOK(x, f) ==
  /\ x \in Nodes(graph) /\ f.at \in {"round", "push", "block", "wake"} => f.side \in Sides(x)
  /\ x \in Nodes(graph) /\ f.at \in {"push", "block", "wake"} =>
       Len(f.msg) = 1 /\ f.i \in DOMAIN graph.outs[x][f.side]
  /\ x \in Nodes(graph) /\ f.at \in {"input", "wait"} => f.i \in 1 .. NumInputs(x)
  /\ f.at \in {"each", "call"} => f.side \in DOMAIN graph.owns[x]
  /\ f.at \in {"each", "call"} /\ graph.kind[x] = "io" => f.i \in DOMAIN graph.bound[x]

GraphTypes == graph \in Graphs /\ alive \subseteq Parts(graph)

EdgeTypes ==
  /\ buf \in [Inputs(graph) -> Seq(Message)]
  /\ \A i \in Inputs(graph) : Bound(i) # 0 => Len(buf[i]) <= Bound(i)
  /\ met \in [Outlets(graph) -> BOOLEAN]
  /\ passedBy \in [Outlets(graph) -> Nat]

RoutineTypes ==
  /\ kept \in [Nodes(graph) -> Seq(Message)]
  /\ \A x \in Nodes(graph) : Len(kept[x]) <= MaxKept
  /\ DOMAIN made = Nodes(graph) /\ DOMAIN pending = Nodes(graph)
  /\ \A x \in Nodes(graph) : /\ made[x] \in [Sides(x) -> Seq(Message)]
                             /\ pending[x] \in [Sides(x) -> Seq(Message)]

HeldTypes ==
  /\ DOMAIN held = Nodes(graph)
  /\ \A x \in Nodes(graph) :
       /\ held[x] \in [Sides(x) -> Seq(Holdings)]
       /\ \A s \in Sides(x) : held[x][s] # <<>> => held[x][s][1].at \in DOMAIN graph.outs[x][s]

FrameTypes == pc \in [Parts(graph) -> Frames] /\ \A x \in Parts(graph) : FrameOK(x, pc[x])

\* Every list holds nodes its part owns, each in one place.
ListTypes ==
  /\ DOMAIN workers = Parts(graph)
  /\ \A y \in Parts(graph) :
       /\ workers[y] \in Seq(Seq(Nodes(graph))) /\ Len(workers[y]) = Len(graph.owns[y])
       /\ \A p \in DOMAIN workers[y] : \A j \in DOMAIN workers[y][p] :
            \E h \in DOMAIN graph.owns[y][p] : workers[y][p][j] = graph.owns[y][p][h]
       /\ \A p, q \in DOMAIN workers[y] : \A j \in DOMAIN workers[y][p], h \in DOMAIN workers[y][q] :
            workers[y][p][j] = workers[y][q][h] => p = q /\ j = h

WriteTypes == written \in [Parts(graph) -> Seq(Message)]

Types ==
  GraphTypes /\ EdgeTypes /\ RoutineTypes /\ HeldTypes /\ FrameTypes /\ ListTypes /\ WriteTypes

\* y is in the middle of a call of x.
Calls(y, x) ==
  /\ pc[y].at = "call"
  /\ IF graph.kind[y] = "io" THEN x = workers[y][1][1]
     ELSE pc[y].i \in DOMAIN workers[y][pc[y].side] /\ x = workers[y][pc[y].side][pc[y].i]

\* One call stack per thread: whoever works was called by its owner.
CallInv == \A x \in Nodes(graph) \cap alive : pc[x].at # "idle" => Calls(graph.owner[x], x)

Worked(x) ==
  LET y == graph.owner[x]
  IN  \E p \in DOMAIN workers[y] : \E j \in DOMAIN workers[y][p] : x = workers[y][p][j]

\* A part goes no later than its owner, which lists it as long as it is there;
\* an Io drops its node and itself at once.
HouseInv ==
  /\ \A x \in Nodes(graph) \cap alive : graph.owner[x] \in alive /\ Worked(x)
  /\ \A y \in alive : \A p \in DOMAIN workers[y] : \A j \in DOMAIN workers[y][p] :
       workers[y][p][j] \in alive
  /\ \A t \in alive : graph.kind[t] = "io" => workers[t] = graph.owns[t]

StackInv == GraphTypes /\ FrameTypes /\ ListTypes /\ CallInv /\ HouseInv

LEMMA GraphIsOK == GraphTypes => GraphOK
BY WorkGraphAssumption DEF GraphTypes, GraphOK

LEMMA SameMessages == graph' = graph => Message' = Message /\ Frames' = Frames /\ Holdings' = Holdings
BY DEF Message, Frames, Holdings

LEMMA SomeFrames ==
  ASSUME NEW at \in Ats, NEW side \in Nat \ {0}, NEW i \in Nat \ {0}, NEW busy \in BOOLEAN,
         NEW msg \in Seq(Message)
  PROVE  /\ Frame(at, side, i, busy, msg) \in Frames
         /\ Frame(at, side, i, busy, msg).at = at /\ Frame(at, side, i, busy, msg).side = side
         /\ Frame(at, side, i, busy, msg).i = i /\ Frame(at, side, i, busy, msg).busy = busy
         /\ Frame(at, side, i, busy, msg).msg = msg
BY DEF Frame, Frames

\* What a frame is made of.
LEMMA FrameParts ==
  ASSUME NEW f \in Frames
  PROVE  /\ f.at \in Ats /\ f.side \in Nat \ {0} /\ f.i \in Nat \ {0} /\ f.busy \in BOOLEAN
         /\ [f EXCEPT !.at = "each"] \in Frames
BY DEF Frames, Ats

LEMMA IdleFrames == /\ Idle \in Frames /\ Idle.at = "idle"
                    /\ Entered \in Frames /\ Entered.at = "round" /\ Entered.side = 1 /\ ~Entered.busy
<1>1. <<>> \in Seq(Message) /\ "idle" \in Ats /\ "round" \in Ats
  BY DEF Ats
<1>2. 1 \in Nat \ {0} /\ FALSE \in BOOLEAN
  OBVIOUS
<1>3. Idle \in Frames /\ Idle.at = "idle"
  BY <1>1, <1>2 DEF Idle, Frame, Frames
<1>4. Entered \in Frames /\ Entered.at = "round" /\ Entered.side = 1 /\ Entered.busy = FALSE
  BY <1>1, <1>2 DEF Entered, Frame, Frames
<1> QED
  BY <1>3, <1>4

LEMMA GotoFrames ==
  ASSUME pc \in [Parts(graph) -> Frames], NEW x \in Parts(graph), NEW f \in Frames
  PROVE  /\ Goto(x, f) \in [Parts(graph) -> Frames] /\ Goto(x, f)[x] = f
         /\ \A y \in Parts(graph) : y # x => Goto(x, f)[y] = pc[y]
BY DEF Goto

LEMMA ReturnFrames ==
  ASSUME pc \in [Parts(graph) -> Frames], GraphOK, NEW x \in Nodes(graph)
  PROVE  /\ Return(x) \in [Parts(graph) -> Frames] /\ Return(x)[x] = Idle
         /\ Return(x)[graph.owner[x]].at = "each"
         /\ Return(x)[graph.owner[x]].side = pc[graph.owner[x]].side
         /\ Return(x)[graph.owner[x]].i =
              pc[graph.owner[x]].i + IF graph.kind[graph.owner[x]] = "io" THEN 0 ELSE 1
         /\ Return(x)[graph.owner[x]].msg = pc[graph.owner[x]].msg
         /\ \A y \in Parts(graph) : y # x /\ y # graph.owner[x] => Return(x)[y] = pc[y]
<1> DEFINE o == graph.owner[x]
           d == IF graph.kind[o] = "io" THEN 0 ELSE 1
           f == [pc[o] EXCEPT !.at = "each", !.i = pc[o].i + d]
<1>1. o \in Parts(graph) /\ o # x /\ x \in Parts(graph)
  BY Owners, KindsDiffer
<1>2. Return(x) = [pc EXCEPT ![x] = Idle, ![o] = f]
  BY <1>1 DEF Return
<1>3. f \in Frames /\ f.at = "each" /\ f.side = pc[o].side /\ f.i = pc[o].i + d /\ f.msg = pc[o].msg
  <2>1. pc[o] \in Frames
    BY <1>1
  <2>2. pc[o].i + d \in Nat \ {0} /\ "each" \in Ats
    BY <2>1 DEF Frames, Ats
  <2> HIDE DEF d
  <2> QED BY <2>1, <2>2 DEF Frames
<1> HIDE DEF f, o
<1>4. /\ Return(x) \in [Parts(graph) -> Frames] /\ Return(x)[x] = Idle /\ Return(x)[o] = f
      /\ \A y \in Parts(graph) : y # x /\ y # o => Return(x)[y] = pc[y]
  BY <1>1, <1>2, <1>3, IdleFrames
<1> QED
  BY <1>3, <1>4 DEF o
-----------------------------------------------------------------------------
(* Calls, returns and drops, as the frames and the lists see them.          *)

LEMMA CalledOnce ==
  ASSUME NEW y, NEW x, NEW z, Calls(y, x), Calls(y, z)
  PROVE  x = z
BY DEF Calls

\* A list's nodes are owned by its part.
LEMMA Listed ==
  ASSUME GraphOK, ListTypes, NEW y \in Parts(graph), NEW p \in DOMAIN workers[y],
         NEW j \in DOMAIN workers[y][p]
  PROVE  /\ workers[y][p][j] \in Owned(graph, y) /\ workers[y][p][j] \in Nodes(graph)
         /\ graph.owner[workers[y][p][j]] = y /\ workers[y][p][j] # y
<1>1. DOMAIN workers[y] = DOMAIN graph.owns[y]
  BY DEF ListTypes, GraphOK, Shaped, OwnedOnce
<1>2. PICK h \in DOMAIN graph.owns[y][p] : workers[y][p][j] = graph.owns[y][p][h]
  BY DEF ListTypes
<1>3. workers[y][p][j] \in Owned(graph, y)
  BY <1>1, <1>2 DEF Owned, ToSet
<1> QED
  BY <1>3, Owners

LEMMA ListedNext ==
  ASSUME GraphOK, graph' = graph, ListTypes', NEW y \in Parts(graph), NEW p \in DOMAIN workers'[y],
         NEW j \in DOMAIN workers'[y][p]
  PROVE  workers'[y][p][j] \in Nodes(graph) /\ graph.owner[workers'[y][p][j]] = y
<1>0. DOMAIN workers'[y] = DOMAIN graph.owns[y]
  BY DEF ListTypes, GraphOK, Shaped, OwnedOnce
<1>a. \A q \in DOMAIN workers'[y] : \A i \in DOMAIN workers'[y][q] :
        \E h \in DOMAIN graph.owns[y][q] : workers'[y][q][i] = graph.owns[y][q][h]
  BY ONLY ListTypes', graph' = graph, y \in Parts(graph) DEF ListTypes
<1>1. PICK h \in DOMAIN graph.owns[y][p] : workers'[y][p][j] = graph.owns[y][p][h]
  BY <1>a
<1>2. workers'[y][p][j] \in Owned(graph, y)
  BY <1>0, <1>1 DEF Owned, ToSet
<1> QED
  BY <1>2, Owners

LEMMA HouseStays ==
  ASSUME StackInv, UNCHANGED <<graph, alive, workers>>
  PROVE  GraphTypes' /\ ListTypes' /\ HouseInv'
<1>1. GraphTypes' /\ ListTypes'
  BY DEF StackInv, GraphTypes, ListTypes
<1>2. HouseInv'
  BY DEF StackInv, HouseInv, Worked
<1> QED
  BY <1>1, <1>2

LEMMA FrameStack ==
  ASSUME GraphOK, StackInv, UNCHANGED <<graph, alive>>, NEW x \in Parts(graph),
         GraphTypes', ListTypes', HouseInv', \A y \in Parts(graph) : y # x => workers'[y] = workers[y],
         pc[x].at # "call", x \in Nodes(graph) => pc[x].at # "idle",
         NEW f \in Frames, FrameOK(x, f), pc' = Goto(x, f)
  PROVE  StackInv'
<1>1. /\ pc' \in [Parts(graph) -> Frames] /\ pc'[x] = f
      /\ \A y \in Parts(graph) : y # x => pc'[y] = pc[y]
  BY GotoFrames DEF StackInv, FrameTypes
<1>2. FrameTypes'
  BY <1>1, SameMessages DEF StackInv, FrameTypes, FrameOK, Sides, NumInputs
<1>4. ASSUME NEW z \in Nodes(graph) \cap alive, pc'[z].at # "idle"
      PROVE  Calls(graph.owner[z], z)'
  <2>1. graph.owner[z] \in Parts(graph) /\ graph.owner[z] # z /\ z \in Parts(graph)
    BY Owners, KindsDiffer
  <2>2. pc[z].at # "idle"
    BY <1>1, <1>4, <2>1
  <2>3. Calls(graph.owner[z], z)
    BY <2>2 DEF StackInv, CallInv
  <2>4. graph.owner[z] # x
    BY <2>3 DEF Calls
  <2> QED BY <1>1, <2>1, <2>3, <2>4 DEF Calls
<1> QED
  BY <1>2, <1>4 DEF StackInv, CallInv

LEMMA GotoStack ==
  ASSUME GraphOK, StackInv, UNCHANGED <<graph, alive, workers>>, NEW x \in Parts(graph),
         pc[x].at # "call", x \in Nodes(graph) => pc[x].at # "idle",
         NEW f \in Frames, FrameOK(x, f), pc' = Goto(x, f)
  PROVE  StackInv'
BY HouseStays, FrameStack

LEMMA ReturnStack ==
  ASSUME GraphOK, StackInv, UNCHANGED <<graph, alive, workers>>,
         NEW x \in Nodes(graph) \cap alive, pc[x].at \notin {"idle", "call"}, pc' = Return(x)
  PROVE  StackInv'
<1> DEFINE o == graph.owner[x]
<1>0. o \in Parts(graph) /\ o # x /\ x \in Parts(graph)
  BY Owners, KindsDiffer
<1>1. /\ pc' \in [Parts(graph) -> Frames] /\ pc'[x] = Idle
      /\ pc'[o].at = "each" /\ pc'[o].side = pc[o].side
      /\ \A y \in Parts(graph) : y # x /\ y # o => pc'[y] = pc[y]
  BY ReturnFrames DEF StackInv, FrameTypes
<1>2. Calls(o, x)
  BY DEF StackInv, CallInv
<1>3. pc[o].at = "call"
  BY <1>2 DEF Calls
<1>4. FrameTypes'
  <2>1. ASSUME NEW y \in Parts(graph) PROVE FrameOK(y, pc[y])'
    <3>1. CASE y # x /\ y # o
      BY <1>1, <3>1 DEF StackInv, FrameTypes, FrameOK, Sides, NumInputs
    <3>2. CASE y = x
      BY <1>1, <3>2, IdleFrames DEF FrameOK
    <3>3. CASE y = o
      <4>1. graph.kind[o] = "io" => pc'[o].i = pc[o].i
        <5>1. pc[o].i \in Nat
          BY <1>0 DEF StackInv, FrameTypes, Frames
        <5> QED BY <1>0, <5>1, ReturnFrames DEF StackInv, FrameTypes
      <4>2. FrameOK(o, pc[o])
        BY <1>0 DEF StackInv, FrameTypes
      <4>3. o \in Nodes(graph) => graph.kind[o] # "io"
        BY KindsDiffer
      <4> QED BY <1>1, <1>3, <3>3, <4>1, <4>2, <4>3 DEF FrameOK
    <3> QED BY <3>1, <3>2, <3>3
  <2> QED BY <1>1, <2>1, SameMessages DEF FrameTypes
<1>5. GraphTypes' /\ ListTypes' /\ HouseInv'
  BY HouseStays
<1>6. ASSUME NEW z \in Nodes(graph) \cap alive, pc'[z].at # "idle"
      PROVE  Calls(graph.owner[z], z)'
  <2>1. graph.owner[z] \in Parts(graph) /\ graph.owner[z] # z /\ z \in Parts(graph)
    BY Owners, KindsDiffer
  <2>2. z # x
    BY <1>1, <1>6, IdleFrames
  <2>3. pc[z].at # "idle"
    BY <1>1, <1>3, <1>6, <2>1, <2>2
  <2>4. Calls(graph.owner[z], z)
    BY <2>3 DEF StackInv, CallInv
  <2>5. graph.owner[z] # x
    BY <2>4 DEF Calls
  <2>6. graph.owner[z] # o
    BY <1>2, <2>2, <2>4, CalledOnce
  <2> QED BY <1>1, <2>1, <2>4, <2>5, <2>6 DEF Calls
<1> QED
  BY <1>4, <1>5, <1>6 DEF StackInv, CallInv

\* y calls the node c of its lists.
LEMMA CallStack ==
  ASSUME GraphOK, StackInv, UNCHANGED <<graph, alive, workers>>,
         NEW y \in alive \cap Parts(graph), pc[y].at = "each",
         NEW c \in Nodes(graph) \cap alive, graph.owner[c] = y,
         IF graph.kind[y] = "io" THEN c = workers[y][1][1]
         ELSE pc[y].i \in DOMAIN workers[y][pc[y].side] /\ c = workers[y][pc[y].side][pc[y].i],
         pc' = [pc EXCEPT ![y].at = "call", ![c] = Entered]
  PROVE  StackInv'
<1>0. c # y /\ c \in Parts(graph)
  BY Owners, KindsDiffer
<1>1. pc \in [Parts(graph) -> Frames] /\ pc[y] \in Frames
  BY DEF StackInv, FrameTypes
<1> DEFINE f == [pc[y] EXCEPT !.at = "call"]
<1>2. f \in Frames /\ f.at = "call" /\ f.side = pc[y].side /\ f.i = pc[y].i
  BY <1>1 DEF Frames, Ats
<1>3. pc' = [pc EXCEPT ![y] = f, ![c] = Entered]
  BY <1>0, <1>1
<1> HIDE DEF f
<1>4. /\ pc' \in [Parts(graph) -> Frames] /\ pc'[y] = f /\ pc'[c] = Entered
      /\ \A z \in Parts(graph) : z # y /\ z # c => pc'[z] = pc[z]
  BY <1>0, <1>1, <1>2, <1>3, IdleFrames
<1>5. Calls(y, c)'
  BY <1>2, <1>4 DEF Calls
<1>6. pc[c].at = "idle"
  BY CalledOnce DEF StackInv, CallInv, Calls
<1>7. FrameTypes'
  <2>1. ASSUME NEW z \in Parts(graph) PROVE FrameOK(z, pc[z])'
    <3>1. CASE z # y /\ z # c
      BY <1>4, <3>1 DEF StackInv, FrameTypes, FrameOK, Sides, NumInputs
    <3>2. CASE z = c
      <4>1. LastSide(c) \in Nat \ {0} /\ Sides(c) = 1 .. LastSide(c)
        BY <1>0, OutletShape
      <4>2. 1 \in Sides(c)
        BY <4>1
      <4> QED BY <1>4, <3>2, <4>2, IdleFrames DEF FrameOK, Sides
    <3>3. CASE z = y
      <4>1. f.side \in DOMAIN graph.owns[y]
        BY <1>2 DEF StackInv, FrameTypes, FrameOK
      <4>2. graph.kind[y] = "io" => f.i \in DOMAIN graph.bound[y]
        BY <1>2 DEF StackInv, FrameTypes, FrameOK
      <4> QED BY <1>2, <1>4, <3>3, <4>1, <4>2 DEF FrameOK
    <3> QED BY <3>1, <3>2, <3>3
  <2> QED BY <1>4, <2>1, SameMessages DEF FrameTypes
<1>8. GraphTypes' /\ ListTypes' /\ HouseInv'
  BY HouseStays
<1>9. ASSUME NEW z \in Nodes(graph) \cap alive, pc'[z].at # "idle"
      PROVE  Calls(graph.owner[z], z)'
  <2>1. graph.owner[z] \in Parts(graph) /\ graph.owner[z] # z /\ z \in Parts(graph)
    BY Owners, KindsDiffer
  <2>2. CASE z = c
    BY <1>5, <2>2
  <2>3. CASE z # c
    <3>1. pc[z].at # "idle"
      BY <1>4, <1>9, <2>1, <2>3
    <3>2. Calls(graph.owner[z], z)
      BY <3>1 DEF StackInv, CallInv
    <3>3. graph.owner[z] # y /\ graph.owner[z] # c
      BY <1>6, <3>2 DEF Calls
    <3> QED BY <1>4, <2>1, <3>2, <3>3 DEF Calls
  <2> QED BY <2>2, <2>3
<1> QED
  BY <1>7, <1>8, <1>9 DEF StackInv, CallInv

\* Parts drop with all that they own and have not dropped yet.
LEMMA DropStack ==
  ASSUME GraphOK, StackInv, UNCHANGED <<graph, workers>>, NEW gone, alive' = alive \ gone,
         \A z \in (Nodes(graph) \cap alive) \ gone : graph.owner[z] \notin gone,
         \A z \in Nodes(graph) \cap gone : graph.owner[z] \in gone,
         \A y \in Parts(graph) : pc'[y] = pc[y] \/ (y \in gone /\ pc'[y] = Idle),
         pc' \in [Parts(graph) -> Frames]
  PROVE  StackInv'
<1>1. FrameTypes'
  <2>1. ASSUME NEW y \in Parts(graph) PROVE FrameOK(y, pc[y])'
    <3>1. CASE pc'[y] = pc[y]
      BY <3>1 DEF StackInv, FrameTypes, FrameOK, Sides, NumInputs
    <3>2. CASE pc'[y] = Idle
      BY <3>2, IdleFrames DEF FrameOK
    <3> QED BY <3>1, <3>2
  <2> QED BY <2>1, SameMessages DEF FrameTypes
<1>2. ListTypes' /\ GraphTypes'
  BY DEF StackInv, ListTypes, GraphTypes
<1>3. ASSUME NEW z \in Nodes(graph) \cap alive'
      PROVE  (pc'[z].at # "idle" => Calls(graph.owner[z], z)') /\ graph.owner[z] \in alive' /\ Worked(z)'
  <2>1. graph.owner[z] \in Parts(graph) /\ z \in Parts(graph) /\ z \in alive /\ z \notin gone
    BY Owners, KindsDiffer
  <2>2. pc'[z] = pc[z] /\ pc'[graph.owner[z]] = pc[graph.owner[z]]
    BY <2>1
  <2>3. pc'[z].at # "idle" => Calls(graph.owner[z], z)
    BY <2>1, <2>2 DEF StackInv, CallInv
  <2>4. graph.owner[z] \in alive /\ Worked(z)
    BY <2>1 DEF StackInv, HouseInv
  <2> QED BY <2>1, <2>2, <2>3, <2>4 DEF Calls, Worked
<1>4. ASSUME NEW y \in alive', NEW p \in DOMAIN workers'[y], NEW j \in DOMAIN workers'[y][p]
      PROVE  workers'[y][p][j] \in alive'
  <2>1. y \in Parts(graph) /\ y \in alive /\ y \notin gone
    BY DEF StackInv, GraphTypes
  <2>2. workers[y][p][j] \in Nodes(graph) /\ graph.owner[workers[y][p][j]] = y
    BY <2>1, Listed DEF StackInv
  <2> QED BY <2>1, <2>2 DEF StackInv, HouseInv
<1>5. \A t \in alive' : graph'.kind[t] = "io" => workers'[t] = graph'.owns[t]
  BY DEF StackInv, HouseInv
<1>6. HouseInv'
  BY <1>3, <1>4, <1>5 DEF HouseInv
<1> QED
  BY <1>1, <1>2, <1>3, <1>6 DEF StackInv, CallInv

LEMMA SwapRemoveSeq ==
  ASSUME NEW S, NEW q \in Seq(S), NEW i, q # <<>>
  PROVE  /\ SwapRemove(q, i) \in Seq(S)
         /\ DOMAIN SwapRemove(q, i) = 1 .. Len(q) - 1 /\ DOMAIN q = 1 .. Len(q)
         /\ Len(SwapRemove(q, i)) = Len(q) - 1
         /\ \A k \in 1 .. Len(q) - 1 : SwapRemove(q, i)[k] = IF k = i THEN q[Len(q)] ELSE q[k]
<1>1. Len(q) \in Nat \ {0} /\ DOMAIN q = 1 .. Len(q) /\ \A k \in 1 .. Len(q) : q[k] \in S
  OBVIOUS
<1>2. Last(q) = q[Len(q)] /\ Last(q) \in S
  BY <1>1 DEF Last
<1> DEFINE l == Len(q) - 1
<1>3. l \in Nat /\ \A k \in 1 .. l : k \in 1 .. Len(q)
  BY <1>1
<1>4. SwapRemove(q, i) = [k \in 1 .. l |-> IF k = i THEN Last(q) ELSE q[k]]
  BY DEF SwapRemove
<1> HIDE DEF l
<1>5. SwapRemove(q, i) \in [1 .. l -> S]
  BY <1>1, <1>2, <1>3, <1>4
<1>6. SwapRemove(q, i) \in Seq(S) /\ Len(SwapRemove(q, i)) = l
  BY <1>3, <1>5
<1> QED
  BY <1>1, <1>2, <1>4, <1>5, <1>6 DEF l

\* A list that lost its entry i still holds distinct entries of the old one.
LEMMA SwapRemoveKeeps ==
  ASSUME NEW S, NEW q \in Seq(S), NEW i, q # <<>>,
         \A j, h \in DOMAIN q : q[j] = q[h] => j = h
  PROVE  /\ SwapRemove(q, i) \in Seq(S)
         /\ \A j \in DOMAIN SwapRemove(q, i) : \E h \in DOMAIN q : SwapRemove(q, i)[j] = q[h]
         /\ \A j, h \in DOMAIN SwapRemove(q, i) :
              SwapRemove(q, i)[j] = SwapRemove(q, i)[h] => j = h
         /\ i \in DOMAIN q => \A j \in DOMAIN SwapRemove(q, i) : SwapRemove(q, i)[j] # q[i]
<1> DEFINE r == SwapRemove(q, i)
           l == Len(q)
<1>1. /\ r \in Seq(S) /\ DOMAIN r = 1 .. l - 1 /\ DOMAIN q = 1 .. l
      /\ \A k \in 1 .. l - 1 : r[k] = IF k = i THEN q[l] ELSE q[k]
  BY SwapRemoveSeq
<1>2. l \in Nat \ {0}
  BY SeqShape
<1> HIDE DEF r, l
<1>3. \A j \in DOMAIN r : \E h \in DOMAIN q : r[j] = q[h] /\ h = IF j = i THEN l ELSE j
  BY <1>1, <1>2
<1>4. ASSUME NEW j \in DOMAIN r, NEW h \in DOMAIN r, r[j] = r[h] PROVE j = h
  <2>1. PICK a \in DOMAIN q : r[j] = q[a] /\ a = IF j = i THEN l ELSE j
    BY <1>3
  <2>2. PICK b \in DOMAIN q : r[h] = q[b] /\ b = IF h = i THEN l ELSE h
    BY <1>3
  <2>3. a = b
    BY <1>4, <2>1, <2>2
  <2>4. j \in 1 .. l - 1 /\ h \in 1 .. l - 1
    BY <1>1
  <2> QED BY <1>2, <2>1, <2>2, <2>3, <2>4
<1>5. ASSUME i \in DOMAIN q, NEW j \in DOMAIN r PROVE r[j] # q[i]
  <2>1. PICK a \in DOMAIN q : r[j] = q[a] /\ a = IF j = i THEN l ELSE j
    BY <1>3
  <2>2. j \in 1 .. l - 1 /\ i \in 1 .. l
    BY <1>1, <1>5
  <2>3. a # i
    BY <1>2, <2>1, <2>2
  <2> QED BY <1>5, <2>1, <2>3
<1> QED
  BY <1>1, <1>3, <1>4, <1>5 DEF r

\* Nothing but the entry i is lost.
LEMMA SwapRemoveLoses ==
  ASSUME NEW S, NEW q \in Seq(S), NEW i \in DOMAIN q, NEW j \in DOMAIN q, j # i
  PROVE  \E h \in DOMAIN SwapRemove(q, i) : SwapRemove(q, i)[h] = q[j]
<1> DEFINE r == SwapRemove(q, i)
           l == Len(q)
<1>1. l \in Nat \ {0} /\ DOMAIN q = 1 .. l
  BY SeqShape
<1>2. /\ DOMAIN r = 1 .. l - 1
      /\ \A k \in 1 .. l - 1 : r[k] = IF k = i THEN q[l] ELSE q[k]
  BY <1>1, SwapRemoveSeq
<1> HIDE DEF r, l
<1>3. CASE j = l
  <2>1. i \in 1 .. l - 1
    BY <1>1, <1>3
  <2>2. r[i] = q[j]
    BY <1>2, <1>3, <2>1
  <2> QED BY <1>2, <2>1, <2>2 DEF r
<1>4. CASE j # l
  <2>1. j \in 1 .. l - 1
    BY <1>1, <1>4
  <2>2. r[j] = q[j]
    BY <1>2, <2>1
  <2> QED BY <1>2, <2>1, <2>2 DEF r
<1> QED
  BY <1>3, <1>4

\* The lists stay lists of what a part owns when one of them turns into another
\* with the same entries or fewer.
ListPut(y, p, r) == workers' = [workers EXCEPT ![y][p] = r]

LEMMA ListsChange ==
  ASSUME GraphOK, ListTypes, graph' = graph, NEW y \in Parts(graph), NEW p \in DOMAIN workers[y],
         NEW r \in Seq(Nodes(graph)), ListPut(y, p, r),
         \A j \in DOMAIN r : \E h \in DOMAIN workers[y][p] : r[j] = workers[y][p][h],
         \A j, h \in DOMAIN r : r[j] = r[h] => j = h
  PROVE  /\ ListTypes' /\ workers'[y][p] = r
         /\ \A q \in DOMAIN workers[y] : q # p => workers'[y][q] = workers[y][q]
         /\ \A z \in Parts(graph) : DOMAIN workers'[z] = DOMAIN workers[z]
                                    /\ (z # y => workers'[z] = workers[z])
<1> DEFINE N == Seq(Nodes(graph))
           v == [workers[y] EXCEPT ![p] = r]
<1>1. workers[y] \in Seq(N) /\ DOMAIN workers = Parts(graph)
  BY DEF ListTypes
<1>2. workers' = [workers EXCEPT ![y] = v]
  BY DEF ListPut
<1>3. v \in Seq(N) /\ Len(v) = Len(workers[y]) /\ DOMAIN v = DOMAIN workers[y] /\ v[p] = r
      /\ \A q \in DOMAIN workers[y] : q # p => v[q] = workers[y][q]
  BY <1>1
<1> HIDE DEF v
<1>4. /\ workers'[y] = v /\ DOMAIN workers' = Parts(graph)
      /\ \A z \in Parts(graph) : z # y => workers'[z] = workers[z]
  BY <1>1, <1>2
<1>c. Len(workers[y]) = Len(graph.owns[y])
  BY DEF ListTypes
<1>a. \A q \in DOMAIN workers[y] : \A j \in DOMAIN workers[y][q] :
        \E h \in DOMAIN graph.owns[y][q] : workers[y][q][j] = graph.owns[y][q][h]
  BY DEF ListTypes
<1>b. \A q, s \in DOMAIN workers[y] : \A j \in DOMAIN workers[y][q], h \in DOMAIN workers[y][s] :
        workers[y][q][j] = workers[y][s][h] => q = s /\ j = h
  BY DEF ListTypes
<1>5. ASSUME NEW q \in DOMAIN v, NEW j \in DOMAIN v[q]
      PROVE  /\ \E h \in DOMAIN workers[y][q] : v[q][j] = workers[y][q][h]
             /\ \E h \in DOMAIN graph.owns[y][q] : v[q][j] = graph.owns[y][q][h]
  <2>1. \E h \in DOMAIN workers[y][q] : v[q][j] = workers[y][q][h]
    <3>1. CASE q = p
      BY <1>3, <3>1
    <3>2. CASE q # p
      <4>1. v[q] = workers[y][q]
        BY <1>3, <3>2
      <4> QED BY <4>1
    <3> QED BY <3>1, <3>2
  <2>2. PICK h \in DOMAIN workers[y][q] : v[q][j] = workers[y][q][h]
    BY <2>1
  <2>3. q \in DOMAIN workers[y]
    BY <1>3
  <2> QED BY <1>a, <2>1, <2>2, <2>3
<1>6. ASSUME NEW q \in DOMAIN v, NEW s \in DOMAIN v, NEW j \in DOMAIN v[q], NEW h \in DOMAIN v[s],
             v[q][j] = v[s][h]
      PROVE  q = s /\ j = h
  <2>1. PICK a \in DOMAIN workers[y][q] : v[q][j] = workers[y][q][a]
    BY <1>5
  <2>2. PICK b \in DOMAIN workers[y][s] : v[s][h] = workers[y][s][b]
    BY <1>5
  <2>3. q = s
    <3>1. workers[y][q][a] = workers[y][s][b]
      BY <1>6, <2>1, <2>2
    <3>2. q \in DOMAIN workers[y] /\ s \in DOMAIN workers[y]
      BY <1>3
    <3> QED BY ONLY <1>b, <2>1, <2>2, <3>1, <3>2
  <2>4. CASE q = p
    BY <1>3, <1>6, <2>3, <2>4
  <2>5. CASE q # p
    <3>1. v[q] = workers[y][q] /\ v[s] = workers[y][s] /\ q \in DOMAIN workers[y]
      BY <1>3, <2>3, <2>5
    <3> QED BY <1>6, <1>b, <2>3, <3>1
  <2> QED BY <2>3, <2>4, <2>5
<1>7. ListTypes'
  <2> SUFFICES ASSUME NEW z \in Parts(graph)
               PROVE  /\ workers'[z] \in Seq(Seq(Nodes(graph))) /\ Len(workers'[z]) = Len(graph.owns[z])
                      /\ \A q \in DOMAIN workers'[z] : \A j \in DOMAIN workers'[z][q] :
                           \E h \in DOMAIN graph.owns[z][q] : workers'[z][q][j] = graph.owns[z][q][h]
                      /\ \A q, s \in DOMAIN workers'[z] :
                           \A j \in DOMAIN workers'[z][q], h \in DOMAIN workers'[z][s] :
                             workers'[z][q][j] = workers'[z][s][h] => q = s /\ j = h
    BY <1>4 DEF ListTypes
  <2>1. CASE z = y
    <3>1. Len(v) = Len(graph.owns[y]) /\ workers'[y] = v
      BY <1>3, <1>4, <1>c
    <3>2. v \in Seq(Seq(Nodes(graph)))
      BY <1>3
    <3>3. workers'[z] = v /\ graph.owns[z] = graph.owns[y]
      BY <2>1, <3>1
    <3>4. \A q \in DOMAIN v : \A j \in DOMAIN v[q] :
            \E h \in DOMAIN graph.owns[z][q] : v[q][j] = graph.owns[z][q][h]
      BY <1>5, <2>1
    <3>5. \A q, s \in DOMAIN v : \A j \in DOMAIN v[q], h \in DOMAIN v[s] : v[q][j] = v[s][h] => q = s /\ j = h
      BY <1>6
    <3> QED BY ONLY <3>1, <3>2, <3>3, <3>4, <3>5
  <2>2. CASE z # y
    BY <1>4, <2>2 DEF ListTypes
  <2> QED BY <2>1, <2>2
<1> QED
  BY <1>3, <1>4, <1>7

\* What x's end changes: its owner's list loses x, and goes on.
EndsGone(x) ==
  LET o == graph.owner[x]
  IN  IF graph.kind[o] = "io" THEN graph.tree[o] \cup Lent(graph) ELSE graph.tree[x]

LEMMA EndsShape ==
  ASSUME GraphOK, StackInv, NEW x \in Nodes(graph) \cap alive, pc[x].at # "idle", Ends(x)
  PROVE  LET o == graph.owner[x]
             p == pc[o].side
             w == workers[o][p]
         IN  /\ UNCHANGED <<graph, met, follow, written, passed, passedBy>>
             /\ alive' = alive \ EndsGone(x) /\ x \in EndsGone(x) /\ Drop(EndsGone(x))
             /\ graph.kind[o] = "io" => o \in EndsGone(x)
             /\ workers' = [workers EXCEPT ![o][p] = SwapRemove(w, pc[o].i)]
             /\ pc' \in [Parts(graph) -> Frames]
             /\ \A y \in Parts(graph) : /\ y \in EndsGone(x) => pc'[y] = Idle
                                        /\ y \notin EndsGone(x) /\ y # o => pc'[y] = pc[y]
             /\ o \notin EndsGone(x) => pc'[o] = [pc[o] EXCEPT !.at = "each"]
             /\ pc[o].at = "call" /\ o \in Parts(graph) /\ o \in alive /\ o # x
             /\ p \in DOMAIN workers[o] /\ w # <<>>
             /\ o \notin EndsGone(x) => pc[o].i \in DOMAIN w /\ w[pc[o].i] = x
             /\ \A z \in Nodes(graph) : graph.owner[z] \in EndsGone(x) => z \in EndsGone(x)
             /\ \A z \in Nodes(graph) \cap EndsGone(x) : z = x \/ graph.owner[z] \in EndsGone(x)
<1> DEFINE o == graph.owner[x]
           p == pc[o].side
           w == workers[o][p]
           gone == EndsGone(x)
           Facts == /\ w # <<>> /\ p \in DOMAIN workers[o] /\ x \in gone
                    /\ graph.kind[o] = "io" => o \in gone
                    /\ o \notin gone => pc[o].i \in DOMAIN w /\ w[pc[o].i] = x
                    /\ \A z \in Nodes(graph) : graph.owner[z] \in gone => z \in gone
                    /\ \A z \in Nodes(graph) \cap gone : z = x \/ graph.owner[z] \in gone
<1>1. o \in Parts(graph) /\ o # x /\ x \in Parts(graph)
  BY Owners, KindsDiffer
<1>2. /\ Drop(gone)
      /\ workers' = [workers EXCEPT ![o][p] = SwapRemove(@, pc[o].i)]
      /\ pc' = [y \in DOMAIN pc |-> IF y \in gone THEN Idle
                                    ELSE IF y = o THEN [pc[o] EXCEPT !.at = "each"] ELSE pc[y]]
  BY DEF Ends, EndsGone
<1>3. UNCHANGED <<graph, met, follow, written, passed, passedBy>> /\ alive' = alive \ gone
  BY <1>2 DEF Drop
<1>4. Calls(o, x) /\ pc[o].at = "call"
  BY DEF StackInv, CallInv, Calls
<1>5. o \in alive /\ Worked(x)
  BY DEF StackInv, HouseInv
<1>6. DOMAIN workers = Parts(graph) /\ workers[o] \in Seq(Seq(Nodes(graph)))
      /\ Len(workers[o]) = Len(graph.owns[o])
  BY <1>1 DEF StackInv, ListTypes
<1>7. graph.owns[o] \in Seq(Seq(Nodes(graph)))
  BY <1>1 DEF GraphOK, Shaped, OwnedOnce
<1>8. p \in DOMAIN workers[o]
  <2>1. FrameOK(o, pc[o])
    BY <1>1 DEF StackInv, FrameTypes
  <2>2. p \in DOMAIN graph.owns[o]
    BY <1>4, <2>1 DEF FrameOK
  <2> QED BY <1>6, <1>7, <2>2
<1>9. ASSUME graph.kind[o] = "io" PROVE Facts
  <2>1. o \in Threads(graph)
    BY <1>1, <1>9 DEF Threads
  <2>2. Len(graph.owns[o]) = 1 /\ Len(graph.owns[o][1]) = 1
    BY <1>9, <2>1 DEF GraphOK, Shaped, ThreadsWork
  <2>3. p = 1 /\ workers[o] = graph.owns[o]
    BY <1>5, <1>6, <1>8, <1>9, <2>2 DEF StackInv, HouseInv
  <2>4. w # <<>>
    BY <2>2, <2>3
  <2>5. gone = graph.tree[o] \cup Lent(graph) /\ o \in gone /\ x \in gone
    BY <1>1, <1>9, Trees DEF EndsGone
  <2>6. /\ \A z \in Nodes(graph) : graph.owner[z] \in gone => z \in gone
        /\ \A z \in Nodes(graph) \cap gone : z = x \/ graph.owner[z] \in gone
    <3>1. /\ \A z \in Nodes(graph) : graph.owner[z] \in graph.tree[o] \cup Lent(graph) => z \in graph.tree[o]
          /\ \A z \in Nodes(graph) : z \in graph.tree[o] \cup Lent(graph) =>
               z = o \/ graph.owner[z] \in graph.tree[o]
      <4>1. /\ \A z \in Nodes(graph) : graph.owner[z] \in graph.tree[o] => z \in graph.tree[o]
            /\ \A z \in graph.tree[o] \ {o} : graph.owner[z] \in graph.tree[o]
        BY <1>1, Trees
      <4>2. \A z \in Nodes(graph) : z \notin Lent(graph) /\ graph.owner[z] \notin Lent(graph)
        BY Owners, KindsDiffer
      <4> QED BY <4>1, <4>2
    <3>2. o \notin Nodes(graph)
      BY <2>1, KindsDiffer
    <3> QED BY <2>5, <3>1, <3>2
  <2> QED BY <1>1, <1>4, <1>8, <2>4, <2>5, <2>6
<1>10. ASSUME graph.kind[o] # "io" PROVE Facts
  <2>1. pc[o].i \in DOMAIN w /\ w[pc[o].i] = x
    BY <1>4, <1>10 DEF Calls
  <2>2. gone = graph.tree[x]
    BY <1>10 DEF EndsGone
  <2>3. /\ \A z \in Nodes(graph) : graph.owner[z] \in gone => z \in gone
        /\ \A z \in Nodes(graph) \cap gone : z = x \/ graph.owner[z] \in gone
        /\ x \in gone
    <3>1. /\ \A z \in Nodes(graph) : graph.owner[z] \in graph.tree[x] => z \in graph.tree[x]
          /\ \A z \in graph.tree[x] \ {x} : graph.owner[z] \in graph.tree[x]
          /\ x \in graph.tree[x]
      BY <1>1, Trees
    <3> QED BY <2>2, <3>1
  <2> QED BY <1>8, <1>10, <2>1, <2>3
<1>11. pc \in [Parts(graph) -> Frames]
  BY DEF StackInv, FrameTypes
<1>12. [pc[o] EXCEPT !.at = "each"] \in Frames
  <2>1. pc[o] \in Frames
    BY <1>1, <1>11
  <2> QED BY <2>1, FrameParts
<1>13. /\ pc' \in [Parts(graph) -> Frames]
       /\ \A y \in Parts(graph) : /\ y \in gone => pc'[y] = Idle
                                  /\ y \notin gone /\ y # o => pc'[y] = pc[y]
       /\ o \notin gone => pc'[o] = [pc[o] EXCEPT !.at = "each"]
  BY <1>1, <1>2, <1>11, <1>12, IdleFrames
<1>14. workers' = [workers EXCEPT ![o][p] = SwapRemove(w, pc[o].i)]
  BY <1>2
<1>15. Facts
  BY <1>9, <1>10
<1> QED
  BY <1>1, <1>2, <1>3, <1>4, <1>5, <1>13, <1>14, <1>15

LEMMA EndsStack ==
  ASSUME GraphOK, StackInv, NEW x \in Nodes(graph) \cap alive, pc[x].at # "idle", Ends(x)
  PROVE  StackInv'
<1> DEFINE o == graph.owner[x]
           p == pc[o].side
           w == workers[o][p]
           gone == EndsGone(x)
           r == SwapRemove(w, pc[o].i)
<1>1. /\ graph' = graph /\ alive' = alive \ gone /\ x \in gone
      /\ graph.kind[o] = "io" => o \in gone
      /\ workers' = [workers EXCEPT ![o][p] = r]
      /\ pc' \in [Parts(graph) -> Frames]
      /\ \A y \in Parts(graph) : /\ y \in gone => pc'[y] = Idle
                                 /\ y \notin gone /\ y # o => pc'[y] = pc[y]
      /\ o \notin gone => pc'[o] = [pc[o] EXCEPT !.at = "each"]
      /\ pc[o].at = "call" /\ o \in Parts(graph) /\ o \in alive /\ o # x
      /\ p \in DOMAIN workers[o] /\ w # <<>>
      /\ o \notin gone => pc[o].i \in DOMAIN w /\ w[pc[o].i] = x
      /\ \A z \in Nodes(graph) : graph.owner[z] \in gone => z \in gone
      /\ \A z \in Nodes(graph) \cap gone : z = x \/ graph.owner[z] \in gone
  BY EndsShape
<1>0. r = SwapRemove(w, pc[o].i) /\ w = workers[o][p] /\ graph.owner[x] = o
  OBVIOUS
<1> HIDE DEF gone, r, w, p, o
<1>2. w \in Seq(Nodes(graph)) /\ \A j, h \in DOMAIN w : w[j] = w[h] => j = h
  BY <1>0, <1>1 DEF StackInv, ListTypes
<1>3. /\ r \in Seq(Nodes(graph))
      /\ \A j \in DOMAIN r : \E h \in DOMAIN w : r[j] = w[h]
      /\ \A j, h \in DOMAIN r : r[j] = r[h] => j = h
      /\ o \notin gone => \A j \in DOMAIN r : r[j] # x
  BY <1>0, <1>1, <1>2, SwapRemoveKeeps
<1>4. /\ ListTypes' /\ workers'[o][p] = r
      /\ \A q \in DOMAIN workers[o] : q # p => workers'[o][q] = workers[o][q]
      /\ \A z \in Parts(graph) : DOMAIN workers'[z] = DOMAIN workers[z]
                                 /\ (z # o => workers'[z] = workers[z])
  <2>1. ListTypes
    BY DEF StackInv
  <2>2. p \in DOMAIN workers[o] /\ o \in Parts(graph) /\ graph' = graph
        /\ ListPut(o, p, r)
    BY <1>1 DEF ListPut
  <2>3. \A j \in DOMAIN r : \E h \in DOMAIN workers[o][p] : r[j] = workers[o][p][h]
    BY <1>0, <1>3
  <2> QED BY ONLY GraphOK, <1>3, <2>1, <2>2, <2>3, ListsChange
<1>5. FrameTypes'
  <2>1. ASSUME NEW y \in Parts(graph) PROVE FrameOK(y, pc[y])'
    <3>1. CASE y \in gone
      BY <1>1, <3>1, IdleFrames DEF FrameOK
    <3>2. CASE y \notin gone /\ y # o
      BY <1>1, <3>2 DEF StackInv, FrameTypes, FrameOK, Sides, NumInputs
    <3>3. CASE y \notin gone /\ y = o
      <4>1. pc[o] \in Frames /\ FrameOK(o, pc[o])
        BY <1>1 DEF StackInv, FrameTypes
      <4>2. pc'[o].at = "each" /\ pc'[o].side = pc[o].side
        BY <1>1, <3>3, <4>1 DEF Frames
      <4> QED BY <1>1, <3>3, <4>1, <4>2 DEF FrameOK
    <3> QED BY <3>1, <3>2, <3>3
  <2> QED BY <1>1, <2>1, SameMessages DEF FrameTypes
<1>6. GraphTypes'
  BY <1>1 DEF StackInv, GraphTypes
<1>7. HouseInv'
  <2>1. ASSUME NEW z \in Nodes(graph) \cap alive'
        PROVE  graph.owner[z] \in alive' /\ Worked(z)'
    <3>1. z \in alive /\ z \notin gone /\ z # x /\ graph.owner[z] \notin gone
      BY <1>1
    <3>2. graph.owner[z] \in alive /\ Worked(z)
      BY <3>1 DEF StackInv, HouseInv
    <3>3. CASE graph.owner[z] # o
      <4>1. graph.owner[z] \in Parts(graph)
        BY Owners
      <4>2. workers'[graph.owner[z]] = workers[graph.owner[z]]
        BY <1>4, <3>3, <4>1
      <4> QED BY <1>1, <3>1, <3>2, <4>2 DEF Worked
    <3>4. CASE graph.owner[z] = o
      <4>1. PICK q \in DOMAIN workers[o] : \E j \in DOMAIN workers[o][q] : z = workers[o][q][j]
        BY <3>2, <3>4 DEF Worked
      <4>2. CASE q # p
        <5>1. workers'[o][q] = workers[o][q] /\ q \in DOMAIN workers'[o]
          BY <1>1, <1>4, <4>1, <4>2
        <5> QED BY <1>1, <3>1, <3>2, <3>4, <4>1, <5>1 DEF Worked
      <4>3. CASE q = p
        <5>1. PICK j \in DOMAIN w : z = w[j]
          BY <1>0, <4>1, <4>3
        <5>2. j # pc[o].i /\ pc[o].i \in DOMAIN w
          BY <1>0, <1>1, <3>1, <3>4, <5>1
        <5>3. \E h \in DOMAIN r : r[h] = w[j]
          BY <1>0, <1>2, <5>1, <5>2, SwapRemoveLoses
        <5>4. \E h \in DOMAIN workers'[o][p] : z = workers'[o][p][h]
          BY <1>4, <5>1, <5>3
        <5>5. p \in DOMAIN workers'[o]
          BY <1>1, <1>4
        <5> QED BY <1>1, <3>1, <3>2, <3>4, <5>4, <5>5 DEF Worked
      <4> QED BY <4>2, <4>3
    <3> QED BY <3>3, <3>4
  <2>2. ASSUME NEW y \in alive', NEW q \in DOMAIN workers'[y], NEW j \in DOMAIN workers'[y][q]
        PROVE  workers'[y][q][j] \in alive'
    <3>1. y \in Parts(graph) /\ y \in alive /\ y \notin gone
      BY <1>1 DEF StackInv, GraphTypes
    <3>2. workers'[y][q][j] \in Nodes(graph) /\ graph.owner[workers'[y][q][j]] = y
      BY <1>1, <1>4, <3>1, ListedNext
    <3>3. PICK h \in DOMAIN workers[y][q] : workers'[y][q][j] = workers[y][q][h]
      <4>1. CASE y = o /\ q = p
        BY <1>0, <1>3, <1>4, <3>1, <4>1
      <4>2. CASE y = o /\ q # p
        <5>1. workers'[y][q] = workers[y][q]
          BY <1>4, <3>1, <4>2
        <5> QED BY <5>1
      <4>3. CASE y # o
        <5>1. workers'[y][q] = workers[y][q]
          BY <1>4, <3>1, <4>3
        <5> QED BY <5>1
      <4> QED BY <4>1, <4>2, <4>3
    <3>4. workers'[y][q][j] \in alive
      BY <1>4, <3>1, <3>3 DEF StackInv, HouseInv
    <3>5. workers'[y][q][j] # x
      <4> SUFFICES ASSUME workers'[y][q][j] = x PROVE FALSE
        OBVIOUS
      <4>1. y = o /\ y \notin gone
        BY <1>0, <3>1, <3>2
      <4>2. pc[o].i \in DOMAIN w /\ w[pc[o].i] = x /\ q \in DOMAIN workers[o]
        BY <1>1, <1>4, <4>1
      <4>3. q # p
        BY <1>3, <1>4, <4>1
      <4>4. workers'[y][q] = workers[o][q]
        BY <1>4, <4>1, <4>2, <4>3
      <4>5. workers[o][q][j] = workers[o][p][pc[o].i] /\ j \in DOMAIN workers[o][q]
            /\ pc[o].i \in DOMAIN workers[o][p]
        BY <1>0, <4>2, <4>4
      <4> QED BY <1>1, <4>2, <4>3, <4>5 DEF StackInv, ListTypes
    <3> QED BY <1>1, <3>1, <3>2, <3>4, <3>5
  <2>3. ASSUME NEW t \in alive', graph.kind[t] = "io" PROVE workers'[t] = graph.owns[t]
    <3>1. t \in Parts(graph) /\ t \in alive /\ t # o
      BY <1>1, <2>3 DEF StackInv, GraphTypes
    <3> QED BY <1>4, <2>3, <3>1 DEF StackInv, HouseInv
  <2> QED BY <1>1, <2>1, <2>2, <2>3 DEF HouseInv
<1>8. ASSUME NEW z \in Nodes(graph) \cap alive', pc'[z].at # "idle"
      PROVE  Calls(graph.owner[z], z)'
  <2>1. z \in alive /\ z \notin gone /\ z # x /\ graph.owner[z] \notin gone /\ graph.owner[z] \in Parts(graph)
        /\ z \in Parts(graph)
    BY <1>1, Owners, KindsDiffer
  <2>2. pc[z].at # "idle"
    BY <1>1, <1>8, <2>1
  <2>3. Calls(graph.owner[z], z)
    BY <2>1, <2>2 DEF StackInv, CallInv
  <2>4. graph.owner[z] # o
    <3>1. Calls(o, x)
      BY <1>0 DEF StackInv, CallInv
    <3> SUFFICES ASSUME graph.owner[z] = o PROVE FALSE
      OBVIOUS
    <3>2. Calls(o, z)
      BY <2>3
    <3>3. x = z
      BY ONLY <3>1, <3>2, CalledOnce
    <3> QED BY <2>1, <3>3
  <2> DEFINE y == graph.owner[z]
  <2>5. /\ pc'[y] = pc[y] /\ workers'[y] = workers[y] /\ graph' = graph
    BY <1>1, <1>4, <2>1, <2>4
  <2>6. Calls(y, z)'
    <3> HIDE DEF y
    <3> QED BY <2>3, <2>5 DEF Calls, y
  <2> QED BY <2>5, <2>6
<1> QED
  BY <1>1, <1>5, <1>6, <1>4, <1>7, <1>8 DEF StackInv, CallInv

-----------------------------------------------------------------------------
(* Rounds of work_each.                                                     *)

LEMMA RotateLeftSeq ==
  ASSUME NEW S, NEW q \in Seq(S)
  PROVE  /\ RotateLeft(q) \in Seq(S) /\ Len(RotateLeft(q)) = Len(q)
         /\ DOMAIN RotateLeft(q) = DOMAIN q /\ DOMAIN q = 1 .. Len(q)
         /\ \A k \in DOMAIN q : RotateLeft(q)[k] = IF k < Len(q) THEN q[k + 1] ELSE q[1]
<1> DEFINE l == Len(q)
<1>1. l \in Nat /\ DOMAIN q = 1 .. l
  OBVIOUS
<1>2. CASE l > 1
  <2>1. q # <<>>
    BY <1>2
  <2>2. Tail(q) \in Seq(S) /\ Len(Tail(q)) = l - 1 /\ Head(q) = q[1] /\ Head(q) \in S
        /\ \A k \in 1 .. l - 1 : Tail(q)[k] = q[k + 1]
    BY <2>1
  <2> DEFINE t == Tail(q)
             e == Head(q)
  <2>3. RotateLeft(q) = Append(t, e)
    BY <1>2 DEF RotateLeft
  <2> HIDE DEF t, e
  <2>4. t \in Seq(S) /\ e \in S /\ Len(t) = l - 1 /\ e = q[1] /\ \A k \in 1 .. l - 1 : t[k] = q[k + 1]
    BY <2>2 DEF t, e
  <2>5. Append(t, e) \in Seq(S) /\ Len(Append(t, e)) = l
        /\ \A k \in 1 .. l : Append(t, e)[k] = IF k < l THEN t[k] ELSE e
    <3> HIDE DEF l
    <3>1. l = Len(t) + 1 /\ Len(t) \in Nat
      BY <1>1, <1>2, <2>4
    <3>2. Append(t, e) \in Seq(S) /\ Len(Append(t, e)) = Len(t) + 1
          /\ \A k \in 1 .. Len(t) + 1 : Append(t, e)[k] = IF k = Len(t) + 1 THEN e ELSE t[k]
      BY <2>4, AppendProperties
    <3> QED BY <3>1, <3>2
  <2>6. \A k \in 1 .. l : Append(t, e)[k] = IF k < l THEN q[k + 1] ELSE q[1]
    BY <1>1, <2>4, <2>5
  <2>7. DOMAIN Append(t, e) = 1 .. l
    BY <2>5
  <2> QED BY <1>1, <2>3, <2>5, <2>6, <2>7
<1>3. CASE ~(l > 1)
  <2>1. RotateLeft(q) = q
    BY <1>3 DEF RotateLeft
  <2>2. \A k \in 1 .. l : k = 1 /\ ~(k < l)
    BY <1>1, <1>3
  <2> QED BY <1>1, <2>1, <2>2
<1> QED
  BY <1>2, <1>3

LEMMA RotateLeftKeeps ==
  ASSUME NEW S, NEW q \in Seq(S), \A j, h \in DOMAIN q : q[j] = q[h] => j = h
  PROVE  /\ RotateLeft(q) \in Seq(S)
         /\ \A j \in DOMAIN RotateLeft(q) : \E h \in DOMAIN q : RotateLeft(q)[j] = q[h]
         /\ \A j \in DOMAIN q : \E h \in DOMAIN RotateLeft(q) : RotateLeft(q)[h] = q[j]
         /\ \A j, h \in DOMAIN RotateLeft(q) : RotateLeft(q)[j] = RotateLeft(q)[h] => j = h
<1> DEFINE r == RotateLeft(q)
           l == Len(q)
<1>1. /\ r \in Seq(S) /\ DOMAIN r = 1 .. l /\ DOMAIN q = 1 .. l
      /\ \A k \in 1 .. l : r[k] = IF k < l THEN q[k + 1] ELSE q[1]
  BY RotateLeftSeq
<1>2. l \in Nat
  OBVIOUS
<1> HIDE DEF r, l
<1>3. \A j \in 1 .. l : \E h \in 1 .. l : r[j] = q[h] /\ h = IF j < l THEN j + 1 ELSE 1
  BY <1>1, <1>2
<1>4. ASSUME NEW j \in 1 .. l PROVE \E h \in 1 .. l : r[h] = q[j]
  <2>1. CASE j = 1
    <3>1. l \in 1 .. l /\ ~(l < l)
      BY <1>2
    <3>2. r[l] = q[j]
      BY <1>1, <2>1, <3>1
    <3> QED BY <3>1, <3>2
  <2>2. CASE j # 1
    <3>1. j - 1 \in 1 .. l /\ j - 1 < l /\ (j - 1) + 1 = j
      BY <1>2, <2>2
    <3>2. r[j - 1] = q[j]
      BY <1>1, <3>1
    <3> QED BY <3>1, <3>2
  <2> QED BY <2>1, <2>2
<1>5. ASSUME NEW j \in 1 .. l, NEW h \in 1 .. l, r[j] = r[h] PROVE j = h
  <2>1. PICK a \in 1 .. l : r[j] = q[a] /\ a = IF j < l THEN j + 1 ELSE 1
    BY <1>3
  <2>2. PICK b \in 1 .. l : r[h] = q[b] /\ b = IF h < l THEN h + 1 ELSE 1
    BY <1>3
  <2>3. a = b
    BY <1>1, <1>5, <2>1, <2>2
  <2> QED BY <1>2, <2>1, <2>2, <2>3
<1> QED
  BY <1>1, <1>3, <1>4, <1>5 DEF r

LEMMA EachEndsStack ==
  ASSUME GraphOK, StackInv, NEW x \in Parts(graph), EachEnds(x)
  PROVE  /\ StackInv' /\ UNCHANGED <<graph, alive>>
         /\ DOMAIN workers[x] = DOMAIN graph.owns[x] /\ pc[x].side \in DOMAIN workers[x]
         /\ workers'[x][pc[x].side] = RotateLeft(workers[x][pc[x].side])
         /\ \A q \in DOMAIN workers[x] : q # pc[x].side => workers'[x][q] = workers[x][q]
         /\ \A z \in Parts(graph) : DOMAIN workers'[z] = DOMAIN workers[z]
                                    /\ (z # x => workers'[z] = workers[z])
<1> DEFINE p == pc[x].side
           w == workers[x][p]
           r == RotateLeft(w)
           f == IF graph.kind[x] = "stream" THEN Frame("each", 1, 1, FALSE, <<>>)
                ELSE IF p < Len(workers[x]) THEN Frame("each", p + 1, 1, FALSE, <<>>)
                ELSE Frame("input", 1, 1, FALSE, <<>>)
<1>1. /\ x \in alive /\ pc[x].at = "each" /\ graph.kind[x] # "io"
      /\ UNCHANGED <<graph, alive>> /\ pc' = Goto(x, f) /\ ListPut(x, p, r)
  BY DEF EachEnds, Running, ListPut
<1>2. ListTypes /\ HouseInv /\ FrameTypes
  BY DEF StackInv
<1>3. p \in Nat \ {0} /\ p \in DOMAIN graph.owns[x]
  BY <1>1, <1>2 DEF FrameTypes, FrameOK, Frames
<1>4. graph.owns[x] \in Seq(Seq(Nodes(graph))) /\ workers[x] \in Seq(Seq(Nodes(graph)))
      /\ Len(workers[x]) = Len(graph.owns[x])
  BY <1>2 DEF ListTypes, GraphOK, Shaped, OwnedOnce
<1>5. DOMAIN workers[x] = DOMAIN graph.owns[x] /\ DOMAIN graph.owns[x] = 1 .. Len(workers[x])
      /\ Len(workers[x]) \in Nat /\ w \in Seq(Nodes(graph))
  BY <1>3, <1>4
<1>6. \A j, h \in DOMAIN w : w[j] = w[h] => j = h
  <2>1. p \in DOMAIN workers[x]
    BY <1>3, <1>5
  <2>2. \A q, s \in DOMAIN workers[x] : \A j \in DOMAIN workers[x][q], h \in DOMAIN workers[x][s] :
          workers[x][q][j] = workers[x][s][h] => q = s /\ j = h
    BY <1>2 DEF ListTypes
  <2> QED BY <2>1, <2>2
<1>7. f \in Frames /\ FrameOK(x, f)
  <2>1. <<>> \in Seq(Message) /\ FALSE \in BOOLEAN /\ 1 \in Nat \ {0} /\ {"each", "input"} \subseteq Ats
        /\ p + 1 \in Nat \ {0}
    BY <1>3 DEF Ats
  <2>2. f \in Frames
    <3>1. ASSUME NEW at \in {"each", "input"}, NEW side \in Nat \ {0}
          PROVE  Frame(at, side, 1, FALSE, <<>>) \in Frames
      <4>1. at \in Ats
        BY <2>1
      <4> QED BY <2>1, <4>1, SomeFrames
    <3> QED BY <2>1, <3>1
  <2>3. CASE graph.kind[x] = "stream"
    <3>1. 1 \in DOMAIN graph.owns[x]
      BY <1>3, <1>5
    <3>2. f.at = "each" /\ f.side = 1
      BY <2>3 DEF Frame
    <3> HIDE DEF f
    <3>3. graph.kind[x] # "io"
      BY <2>3
    <3> QED BY <2>2, <3>1, <3>2, <3>3 DEF FrameOK
  <2>4. CASE graph.kind[x] # "stream" /\ p < Len(workers[x])
    <3>1. p + 1 \in DOMAIN graph.owns[x]
      BY <1>3, <1>5, <2>4
    <3>2. f.at = "each" /\ f.side = p + 1 /\ graph.kind[x] # "io"
      BY <1>1, <2>4 DEF Frame
    <3> HIDE DEF f
    <3> QED BY <2>2, <3>1, <3>2 DEF FrameOK
  <2>5. CASE graph.kind[x] # "stream" /\ ~(p < Len(workers[x]))
    <3>1. x \in Nodes(graph) => 1 \in 1 .. NumInputs(x)
      BY OutletShape
    <3> QED BY <2>2, <2>5, <3>1 DEF FrameOK, Frame
  <2> QED BY <2>2, <2>3, <2>4, <2>5
<1> HIDE DEF f
<1>8. /\ r \in Seq(Nodes(graph))
      /\ \A j \in DOMAIN r : \E h \in DOMAIN workers[x][p] : r[j] = workers[x][p][h]
      /\ \A j \in DOMAIN workers[x][p] : \E h \in DOMAIN r : r[h] = workers[x][p][j]
      /\ \A j, h \in DOMAIN r : r[j] = r[h] => j = h
  BY <1>5, <1>6, RotateLeftKeeps
<1>0. r = RotateLeft(workers[x][p]) /\ p = pc[x].side
  OBVIOUS
<1> HIDE DEF r, w, p
<1>9. /\ ListTypes' /\ workers'[x][p] = r
      /\ \A q \in DOMAIN workers[x] : q # p => workers'[x][q] = workers[x][q]
      /\ \A z \in Parts(graph) : DOMAIN workers'[z] = DOMAIN workers[z]
                                 /\ (z # x => workers'[z] = workers[z])
  <2>1. p \in DOMAIN workers[x] /\ graph' = graph
    BY <1>1, <1>3, <1>5
  <2> QED BY ONLY GraphOK, x \in Parts(graph), <1>1, <1>2, <1>8, <2>1, ListsChange
<1>10. GraphTypes'
  BY <1>1 DEF StackInv, GraphTypes
\* The lists hold what they held.
<1>11. ASSUME NEW y \in Parts(graph), NEW q \in DOMAIN workers[y]
       PROVE  /\ \A j \in DOMAIN workers'[y][q] : \E h \in DOMAIN workers[y][q] : workers'[y][q][j] = workers[y][q][h]
              /\ \A j \in DOMAIN workers[y][q] : \E h \in DOMAIN workers'[y][q] : workers'[y][q][h] = workers[y][q][j]
  <2>1. CASE y = x /\ q = p
    BY <1>8, <1>9, <2>1
  <2>2. CASE ~(y = x /\ q = p)
    <3>1. workers'[y][q] = workers[y][q]
      BY <1>9, <2>2
    <3> QED BY <3>1
  <2> QED BY <2>1, <2>2
<1>12. HouseInv'
  <2>1. ASSUME NEW z \in Nodes(graph) \cap alive' PROVE graph.owner[z] \in alive' /\ Worked(z)'
    <3>1. z \in alive /\ graph.owner[z] \in Parts(graph)
      BY <1>1, Owners
    <3>2. graph.owner[z] \in alive /\ Worked(z)
      BY <1>2, <3>1 DEF HouseInv
    <3>3. PICK q \in DOMAIN workers[graph.owner[z]] : \E j \in DOMAIN workers[graph.owner[z]][q] :
                 z = workers[graph.owner[z]][q][j]
      BY <3>2 DEF Worked
    <3>4. q \in DOMAIN workers'[graph.owner[z]]
      BY <1>9, <3>1
    <3>5. \E j \in DOMAIN workers'[graph.owner[z]][q] : z = workers'[graph.owner[z]][q][j]
      BY <1>11, <3>1, <3>3
    <3> QED BY <1>1, <3>2, <3>4, <3>5 DEF Worked
  <2>2. ASSUME NEW y \in alive', NEW q \in DOMAIN workers'[y], NEW j \in DOMAIN workers'[y][q]
        PROVE  workers'[y][q][j] \in alive'
    <3>1. y \in alive /\ y \in Parts(graph) /\ q \in DOMAIN workers[y]
      BY <1>1, <1>9, <1>10 DEF StackInv, GraphTypes
    <3>2. PICK h \in DOMAIN workers[y][q] : workers'[y][q][j] = workers[y][q][h]
      BY <1>11, <3>1
    <3> QED BY <1>1, <1>2, <3>1, <3>2 DEF HouseInv
  <2>3. \A t \in alive' : graph'.kind[t] = "io" => workers'[t] = graph'.owns[t]
    <3>1. \A t \in alive : t \in Parts(graph)
      BY DEF StackInv, GraphTypes
    <3> QED BY <1>1, <1>2, <1>9, <3>1 DEF HouseInv
  <2> QED BY <1>1, <2>1, <2>2, <2>3 DEF HouseInv
<1>13. StackInv'
  <2>1. pc[x].at # "call" /\ pc[x].at # "idle"
    BY <1>1
  <2> QED BY <1>1, <1>7, <1>9, <1>10, <1>12, <2>1, FrameStack
<1> QED
  BY <1>0, <1>1, <1>3, <1>5, <1>9, <1>13

-----------------------------------------------------------------------------
(* Where a call goes from a push, and the step relation as its actions.     *)

\* The rotation is through with the edge k of side s.
NextOnSide(x, s, k, m) ==
  \/ k + 1 \in DOMAIN graph.outs[x][s] /\ pc' = Goto(x, Frame("push", s, k + 1, TRUE, <<m>>))
  \/ s < LastSide(x) /\ pc' = Goto(x, Frame("round", s + 1, 1, TRUE, <<>>))
  \/ s = LastSide(x) /\ pc' = Return(x)

LEMMA SideDoneGoes ==
  ASSUME GraphOK, NEW x \in Nodes(graph), NEW s \in Sides(x), NEW k, NEW m, pc' = SideDone(x, s)
  PROVE  NextOnSide(x, s, k, m)
<1>1. LastSide(x) \in Nat /\ Sides(x) = 1 .. LastSide(x)
  BY OutletShape, KindsDiffer
<1>2. s = LastSide(x) \/ s < LastSide(x)
  BY <1>1
<1> QED
  BY <1>1, <1>2 DEF SideDone, NextOnSide

LEMMA OnwardGoes ==
  ASSUME GraphOK, NEW x \in Nodes(graph), NEW s \in Sides(x), NEW k \in DOMAIN graph.outs[x][s],
         NEW m, pc' = Onward(x, s, k, m)
  PROVE  NextOnSide(x, s, k, m)
<1>1. x \in Parts(graph)
  BY KindsDiffer
<1>2. Len(graph.outs[x][s]) \in Nat /\ DOMAIN graph.outs[x][s] = 1 .. Len(graph.outs[x][s])
  BY <1>1, OutletShape
<1>3. CASE k = Len(graph.outs[x][s])
  BY <1>3, SideDoneGoes DEF Onward
<1>4. CASE k # Len(graph.outs[x][s])
  <2>1. k + 1 \in DOMAIN graph.outs[x][s]
    BY <1>2, <1>4
  <2> QED BY <1>4, <2>1 DEF Onward, NextOnSide
<1> QED
  BY <1>3, <1>4

LEMMA RotateGoes ==
  ASSUME GraphOK, NEW x \in Nodes(graph), NEW s \in Sides(x), NEW k \in DOMAIN graph.outs[x][s],
         NEW m, Rotate(x, s, k, m)
  PROVE  \/ NextOnSide(x, s, k, m)
         \/ pc' = Goto(x, Frame("wake", s, k, TRUE, <<m>>)) /\ Outcome(<<x, s, k>>, m) = "pushed"
<1>1. CASE Outcome(<<x, s, k>>, m) \in {"pushed", "dropped"}
  <2>1. pc' = Landed(x, s, k, m)
    BY <1>1 DEF Rotate
  <2> QED BY <1>1, <2>1, OnwardGoes DEF Landed
<1>2. CASE Outcome(<<x, s, k>>, m) \notin {"pushed", "dropped"}
  <2>1. pc' = SideDone(x, s)
    BY <1>2 DEF Rotate
  <2> QED BY <2>1, SideDoneGoes
<1> QED
  BY <1>1, <1>2

\* The frames of a push are well formed.
LEMMA PushFrames ==
  ASSUME GraphOK, NEW x \in Nodes(graph), NEW s \in Sides(x), NEW k \in DOMAIN graph.outs[x][s],
         NEW m \in Message, NEW at \in {"push", "wake", "block"}
  PROVE  Frame(at, s, k, TRUE, <<m>>) \in Frames /\ FrameOK(x, Frame(at, s, k, TRUE, <<m>>))
<1>1. s \in Nat \ {0} /\ k \in Nat \ {0}
  <2>1. x \in Parts(graph)
    BY KindsDiffer
  <2>2. Sides(x) = 1 .. LastSide(x) /\ DOMAIN graph.outs[x][s] = 1 .. Len(graph.outs[x][s])
    BY <2>1, OutletShape
  <2> QED BY <2>2
<1>2. <<m>> \in Seq(Message) /\ Len(<<m>>) = 1 /\ at \in Ats /\ TRUE \in BOOLEAN
  BY DEF Ats
<1>3. Frame(at, s, k, TRUE, <<m>>) \in Frames
  BY <1>1, <1>2, SomeFrames
<1> QED
  BY <1>2, <1>3 DEF FrameOK, Frame

LEMMA RoundFrames ==
  ASSUME GraphOK, NEW x \in Nodes(graph), NEW s \in Sides(x), NEW busy \in BOOLEAN
  PROVE  Frame("round", s, 1, busy, <<>>) \in Frames /\ FrameOK(x, Frame("round", s, 1, busy, <<>>))
<1>1. s \in Nat \ {0} /\ 1 \in Nat \ {0}
  <2>1. x \in Parts(graph)
    BY KindsDiffer
  <2>2. Sides(x) = 1 .. LastSide(x)
    BY <2>1, OutletShape
  <2> QED BY <2>2
<1>2. <<>> \in Seq(Message) /\ "round" \in Ats
  BY DEF Ats
<1>3. Frame("round", s, 1, busy, <<>>) \in Frames
  BY <1>1, <1>2, SomeFrames
<1> QED
  BY <1>3 DEF FrameOK, Frame

LEMMA InputFrames ==
  ASSUME GraphOK, NEW x \in Nodes(graph), NEW at \in {"input", "wait"}, NEW i \in 1 .. NumInputs(x),
         NEW busy \in BOOLEAN
  PROVE  Frame(at, 1, i, busy, <<>>) \in Frames /\ FrameOK(x, Frame(at, 1, i, busy, <<>>))
<1>1. NumInputs(x) \in Nat \ {0}
  BY OutletShape
<1>2. <<>> \in Seq(Message) /\ at \in Ats /\ 1 \in Nat \ {0} /\ i \in Nat \ {0}
  BY <1>1 DEF Ats
<1>3. Frame(at, 1, i, busy, <<>>) \in Frames
  BY <1>2, SomeFrames
<1> QED
  BY <1>3 DEF FrameOK, Frame

LEMMA PushStack ==
  ASSUME GraphOK, StackInv, UNCHANGED <<graph, alive, workers>>, NEW x \in Nodes(graph) \cap alive,
         pc[x].at \in {"round", "push", "block", "wake"}, NEW s \in Sides(x),
         NEW k \in DOMAIN graph.outs[x][s], NEW m \in Message,
         \/ NextOnSide(x, s, k, m)
         \/ \E at \in {"push", "wake", "block"} : pc' = Goto(x, Frame(at, s, k, TRUE, <<m>>))
  PROVE  StackInv'
<1>1. x \in Parts(graph)
  BY KindsDiffer
<1>2. ASSUME NEW h \in DOMAIN graph.outs[x][s], NEW at \in {"push", "wake", "block"},
             pc' = Goto(x, Frame(at, s, h, TRUE, <<m>>))
      PROVE  StackInv'
  <2>1. Frame(at, s, h, TRUE, <<m>>) \in Frames /\ FrameOK(x, Frame(at, s, h, TRUE, <<m>>))
    BY PushFrames
  <2> QED BY <1>1, <1>2, <2>1, GotoStack
<1>3. CASE s < LastSide(x) /\ pc' = Goto(x, Frame("round", s + 1, 1, TRUE, <<>>))
  <2>1. LastSide(x) \in Nat /\ Sides(x) = 1 .. LastSide(x)
    BY <1>1, OutletShape
  <2>2. s + 1 \in Sides(x) /\ TRUE \in BOOLEAN
    BY <1>3, <2>1
  <2>3. Frame("round", s + 1, 1, TRUE, <<>>) \in Frames /\ FrameOK(x, Frame("round", s + 1, 1, TRUE, <<>>))
    BY <2>2, RoundFrames
  <2> QED BY <1>1, <1>3, <2>3, GotoStack
<1>4. CASE pc' = Return(x)
  BY <1>4, ReturnStack
<1> QED
  BY <1>2, <1>3, <1>4 DEF NextOnSide

LEMMA Steps ==
  ASSUME GraphOK, alive \subseteq Parts(graph), Next
  PROVE  \/ \E x \in Nodes(graph) \cap alive : NodeStep(x)
         \/ \E t \in Threads(graph) \cap alive :
              \/ EachCalls(t) \/ EachEnds(t) \/ ThreadEnds(t) \/ IoWorks(t) \/ IoReads(t)
              \/ IoPushes(t) \/ IoDrops(t)
         \/ \E x \in Nodes(graph) \cap alive : Fails(x)
         \/ \E w \in Writers(graph) \cap alive : WakeTarget(w) \/ WriterLeaves(w) \/ Writes(w)
         \/ \E r \in Tees(graph) \cap alive : TeeLeaves(r)
<1>1. ASSUME NEW x, NodeStep(x) PROVE x \in alive
  BY <1>1 DEF NodeStep, Resumes, Delivers, RotateOn, Unblock, PushClosed, SideIdle, WakeTarget, Takes,
       FindsEmpty, InputsClosed, WaitFront, LooksAt, AllExhausted, Parks, EachCalls, EachEnds, Running
<1>2. ASSUME NEW t \in Threads(graph), NEW x \in graph.tree[t] \ {t} PROVE x \in Nodes(graph)
  BY Trees, KindsDiffer
<1>3. ASSUME NEW t \in Threads(graph), EachCalls(t) \/ EachEnds(t) \/ ThreadEnds(t) \/ IoWorks(t)
             \/ IoReads(t) \/ IoPushes(t) \/ IoDrops(t)
      PROVE  t \in alive
  BY <1>3 DEF EachCalls, EachEnds, ThreadEnds, IoWorks, IoReads, IoPushes, IoDrops, Running
<1>4. ASSUME NEW w, WakeTarget(w) \/ WriterLeaves(w) \/ Writes(w) PROVE w \in alive
  BY <1>4 DEF WakeTarget, WriterLeaves, Writes, Running
<1>5. \A x : (Fails(x) => x \in alive) /\ (TeeLeaves(x) => x \in alive)
  BY DEF Fails, TeeLeaves, Running
<1> QED
  BY <1>1, <1>2, <1>3, <1>4, <1>5 DEF Next, ThreadStep, WriterStep

LEMMA SameGraph == Next => graph' = graph
<1>1. ASSUME NEW x, Ends(x) PROVE graph' = graph
  BY <1>1 DEF Ends, Drop
<1>2. ASSUME NEW x, NodeStep(x) PROVE graph' = graph
  BY <1>1, <1>2 DEF NodeStep, Resumes, Delivers, RotateOn, Unblock, PushClosed, SideIdle, WakeTarget, Takes,
       FindsEmpty, InputsClosed, WaitFront, LooksAt, AllExhausted, Parks, EachCalls, EachEnds
<1>3. ASSUME NEW t, EachCalls(t) \/ EachEnds(t) \/ ThreadEnds(t) \/ IoWorks(t) \/ IoReads(t)
                    \/ IoPushes(t) \/ IoDrops(t)
      PROVE graph' = graph
  BY <1>3 DEF EachCalls, EachEnds, ThreadEnds, IoWorks, IoReads, IoPushes, IoDrops, Drop
<1>4. ASSUME NEW w, WakeTarget(w) \/ WriterLeaves(w) \/ Writes(w) \/ Fails(w) \/ TeeLeaves(w)
      PROVE graph' = graph
  BY <1>4 DEF WakeTarget, WriterLeaves, Writes, Fails, TeeLeaves, Drop
<1> QED
  BY <1>2, <1>3, <1>4 DEF Next, ThreadStep, WriterStep

LEMMA EachCallsStack ==
  ASSUME GraphOK, StackInv, NEW x \in Parts(graph), EachCalls(x)
  PROVE  LET c == workers[x][pc[x].side][pc[x].i]
         IN  /\ StackInv' /\ UNCHANGED <<graph, alive, workers, edgeVars, routineVars, held, written>>
             /\ c \in Nodes(graph) /\ c \in alive /\ graph.owner[c] = x /\ c # x /\ x \in alive
             /\ pc[x].at = "each" /\ pc[c].at = "idle"
             /\ pc[x].side \in DOMAIN workers[x] /\ pc[x].i \in DOMAIN workers[x][pc[x].side]
             /\ pc' = [pc EXCEPT ![x].at = "call", ![c] = Entered]
<1> DEFINE p == pc[x].side
           w == workers[x][p]
           c == w[pc[x].i]
<1>1. /\ x \in alive /\ pc[x].at = "each" /\ graph.kind[x] # "io" /\ pc[x].i <= Len(w)
      /\ UNCHANGED <<graph, alive, workers, edgeVars, routineVars, held, written>>
      /\ pc' = [pc EXCEPT ![x].at = "call", ![c] = Entered]
  BY DEF EachCalls, Running
<1>2. pc[x] \in Frames /\ FrameOK(x, pc[x])
  BY DEF StackInv, FrameTypes
<1>3. pc[x].i \in Nat \ {0} /\ p \in DOMAIN graph.owns[x]
  BY <1>1, <1>2 DEF Frames, FrameOK
<1>4. workers[x] \in Seq(Seq(Nodes(graph))) /\ Len(workers[x]) = Len(graph.owns[x])
      /\ graph.owns[x] \in Seq(Seq(Nodes(graph)))
  BY DEF StackInv, ListTypes, GraphOK, Shaped, OwnedOnce
<1>5. p \in DOMAIN workers[x] /\ w \in Seq(Nodes(graph))
  BY <1>3, <1>4
<1>6. pc[x].i \in DOMAIN w
  BY <1>1, <1>3, <1>5
<1>7. c \in Nodes(graph) /\ graph.owner[c] = x /\ c # x
  BY <1>5, <1>6, Listed DEF StackInv
<1>8. c \in alive
  BY <1>1, <1>5, <1>6 DEF StackInv, HouseInv
<1>9. StackInv'
  BY <1>1, <1>5, <1>6, <1>7, <1>8, CallStack
<1>10. pc[c].at = "idle"
  BY <1>1, <1>7, <1>8 DEF StackInv, CallInv, Calls
<1> QED
  BY <1>1, <1>5, <1>6, <1>7, <1>8, <1>9, <1>10

\* What a step of x is pushing, and how far it got with it.
Pushing(x, s, k, m) ==
  /\ s = pc[x].side /\ s \in Sides(x) /\ k \in DOMAIN graph.outs[x][s] /\ m \in Message
  /\ \/ pc[x].at \in {"push", "block"} /\ k = pc[x].i
     \/ pc[x].at = "round" /\ held[x][s] # <<>> /\ k = held[x][s][1].at
     \/ pc[x].at = "round" /\ held[x][s] = <<>> /\ k = 1
  /\ \/ Rotate(x, s, k, m)
     \/ /\ pc[x].at = "round" /\ Outcome(<<x, s, k>>, m) = "stuck"
        /\ pc' = Goto(x, Frame("block", s, k, TRUE, <<m>>))
        /\ held' = [held EXCEPT ![x][s] = <<>>] /\ UNCHANGED edgeVars
  /\ pc[x].at = "block" => Outcome(<<x, s, k>>, m) = "pushed"
  /\ UNCHANGED <<graph, alive, workers, written, kept>>

LEMMA NodePushes ==
  ASSUME GraphOK, Types, NEW x \in Nodes(graph) \cap alive,
         Resumes(x) \/ Delivers(x) \/ RotateOn(x) \/ Unblock(x)
  PROVE  \E s, k, m : Pushing(x, s, k, m)
<1> DEFINE s == pc[x].side
<1>1. x \in Parts(graph) /\ pc[x] \in Frames /\ FrameOK(x, pc[x])
  BY KindsDiffer DEF Types, FrameTypes
<1>2. s \in Sides(x)
  BY <1>1 DEF FrameOK, Resumes, Delivers, RotateOn, Unblock, Running
<1>3. CASE Resumes(x)
  <2> DEFINE k == held[x][s][1].at
             m == held[x][s][1].msg
  <2>1. held[x][s] \in Seq(Holdings) /\ held[x][s] # <<>> /\ k \in DOMAIN graph.outs[x][s]
    BY <1>2, <1>3 DEF Types, HeldTypes, Resumes
  <2>2. held[x][s][1] \in Holdings
    BY <2>1
  <2>3. m \in Message
    BY <2>2 DEF Holdings
  <2> QED BY <1>2, <1>3, <2>1, <2>3 DEF Resumes, Resume, Running, Pushing, routineVars
<1>4. CASE Delivers(x)
  <2>0. 1 \in DOMAIN graph.outs[x][s]
    BY <1>1, <1>2, OutletShape
  <2>1. CASE made[x][s] # <<>> /\ Rotate(x, s, 1, Head(made[x][s]))
    <3>1. made[x][s] \in Seq(Message)
      BY <1>2 DEF Types, RoutineTypes
    <3>2. Head(made[x][s]) \in Message
      BY <2>1, <3>1
    <3> QED BY <1>2, <1>4, <2>0, <2>1, <3>2 DEF Delivers, Running, Pushing
  <2>2. CASE pending[x][s] # <<>> /\ Rotate(x, s, 1, pending[x][s][1])
    <3>1. pending[x][s] \in Seq(Message)
      BY <1>2 DEF Types, RoutineTypes
    <3>2. pending[x][s][1] \in Message
      BY <2>2, <3>1
    <3> QED BY <1>2, <1>4, <2>0, <2>2, <3>2 DEF Delivers, Running, Pushing
  <2> QED BY <1>4, <2>1, <2>2 DEF Delivers
<1>5. CASE RotateOn(x) \/ Unblock(x)
  <2>1. pc[x].i \in DOMAIN graph.outs[x][s] /\ Len(pc[x].msg) = 1
    BY <1>1, <1>5 DEF FrameOK, RotateOn, Unblock, Running
  <2>2. pc[x].msg \in Seq(Message)
    BY <1>1 DEF Frames
  <2>3. pc[x].msg[1] \in Message
    BY <2>1, <2>2
  <2> QED BY <1>2, <1>5, <2>1, <2>3 DEF RotateOn, Unblock, Running, Pushing, routineVars
<1> QED
  BY <1>3, <1>4, <1>5

LEMMA NodeStack ==
  ASSUME GraphOK, Types, StackInv, NEW x \in Nodes(graph) \cap alive, NodeStep(x)
  PROVE  StackInv'
<1>0. x \in Parts(graph) /\ pc[x] \in Frames /\ FrameOK(x, pc[x])
  BY KindsDiffer DEF StackInv, FrameTypes
<1>1. CASE Resumes(x) \/ Delivers(x) \/ RotateOn(x) \/ Unblock(x)
  <2>1. PICK s, k, m : Pushing(x, s, k, m)
    BY <1>1, NodePushes
  <2>2. /\ UNCHANGED <<graph, alive, workers>> /\ pc[x].at \in {"round", "push", "block", "wake"}
        /\ s \in Sides(x) /\ k \in DOMAIN graph.outs[x][s] /\ m \in Message
    BY <2>1 DEF Pushing
  <2>3. \/ NextOnSide(x, s, k, m)
        \/ \E at \in {"push", "wake", "block"} : pc' = Goto(x, Frame(at, s, k, TRUE, <<m>>))
    <3>1. CASE Rotate(x, s, k, m)
      BY <2>2, <3>1, RotateGoes
    <3>2. CASE ~Rotate(x, s, k, m)
      BY <2>1, <3>2 DEF Pushing
    <3> QED BY <3>1, <3>2
  <2> QED BY ONLY <2>2, <2>3, GraphOK, StackInv, x \in Nodes(graph) \cap alive, PushStack
<1>2. CASE PushClosed(x) \/ InputsClosed(x) \/ AllExhausted(x) \/ (WaitFront(x) /\ Ends(x))
  <2>1. Ends(x)
    BY <1>2 DEF PushClosed, InputsClosed, AllExhausted
  <2>2. pc[x].at # "idle"
    BY <1>2 DEF PushClosed, Tried, InputsClosed, AllExhausted, WaitFront, Running
  <2> QED BY <2>1, <2>2, EndsStack
<1>3. CASE WakeTarget(x)
  <2> DEFINE s == pc[x].side
             k == pc[x].i
             m == pc[x].msg[1]
  <2>1. s \in Sides(x) /\ k \in DOMAIN graph.outs[x][s] /\ Len(pc[x].msg) = 1 /\ pc[x].at = "wake"
    BY <1>0, <1>3 DEF FrameOK, WakeTarget, Running
  <2>2. pc[x].msg \in Seq(Message)
    BY <1>0 DEF Frames
  <2>3. m \in Message
    BY <2>1, <2>2
  <2>4. pc' = Onward(x, s, k, m) /\ UNCHANGED <<graph, alive, workers>>
    BY <1>3, KindsDiffer DEF WakeTarget
  <2>5. NextOnSide(x, s, k, m)
    BY <2>1, <2>4, OnwardGoes
  <2> HIDE DEF s, k, m
  <2> QED BY ONLY <2>1, <2>3, <2>4, <2>5, GraphOK, StackInv, x \in Nodes(graph) \cap alive, PushStack
<1>4. CASE SideIdle(x)
  <2> DEFINE s == pc[x].side
  <2>1. pc[x].at = "round" /\ s \in Sides(x) /\ UNCHANGED <<graph, alive, workers>>
        /\ pc' = IF s < LastSide(x) THEN Goto(x, [pc[x] EXCEPT !.side = s + 1])
                 ELSE IF pc[x].busy THEN Return(x)
                 ELSE Goto(x, Frame("input", 1, 1, FALSE, <<>>))
    BY <1>0, <1>4 DEF FrameOK, SideIdle, Running
  <2>2. CASE s < LastSide(x)
    <3>1. LastSide(x) \in Nat /\ Sides(x) = 1 .. LastSide(x)
      BY <1>0, OutletShape
    <3>2. s + 1 \in Sides(x) /\ s + 1 \in Nat \ {0}
      BY <2>1, <2>2, <3>1
    <3> DEFINE f == [pc[x] EXCEPT !.side = s + 1]
    <3>3. f \in Frames /\ f.at = "round" /\ f.side = s + 1
      BY <1>0, <2>1, <3>2 DEF Frames
    <3>4. pc' = Goto(x, f)
      BY <2>1, <2>2
    <3> HIDE DEF f
    <3>5. FrameOK(x, f)
      BY <3>2, <3>3 DEF FrameOK
    <3> QED BY <1>0, <2>1, <3>3, <3>4, <3>5, GotoStack
  <2>3. CASE ~(s < LastSide(x)) /\ pc[x].busy
    <3>1. pc' = Return(x)
      BY <2>1, <2>3
    <3> QED BY <2>1, <3>1, ReturnStack
  <2>4. CASE ~(s < LastSide(x)) /\ ~pc[x].busy
    <3>1. pc' = Goto(x, Frame("input", 1, 1, FALSE, <<>>))
      BY <2>1, <2>4
    <3>2. 1 \in 1 .. NumInputs(x) /\ FALSE \in BOOLEAN
      BY OutletShape
    <3>3. Frame("input", 1, 1, FALSE, <<>>) \in Frames /\ FrameOK(x, Frame("input", 1, 1, FALSE, <<>>))
      BY <3>2, InputFrames
    <3> QED BY <1>0, <2>1, <3>1, <3>3, GotoStack
  <2> QED BY <2>2, <2>3, <2>4
<1>5. CASE Takes(x)
  <2>1. pc[x].at = "input" /\ pc' = Goto(x, Entered) /\ UNCHANGED <<graph, alive, workers>>
    BY <1>5 DEF Takes, Running
  <2>2. Entered \in Frames /\ FrameOK(x, Entered)
    <3>1. 1 \in Sides(x) /\ FALSE \in BOOLEAN
      BY <1>0, OutletShape
    <3> QED BY <3>1, RoundFrames DEF Entered
  <2> QED BY <1>0, <2>1, <2>2, GotoStack
<1>6. CASE FindsEmpty(x) \/ LooksAt(x) \/ Parks(x) \/ (WaitFront(x) /\ ~Ends(x))
  <2>1. NumInputs(x) \in Nat \ {0}
    BY OutletShape
  <2>2. pc[x].at \in {"input", "wait", "park"} /\ UNCHANGED <<graph, alive, workers>>
    BY <1>6 DEF FindsEmpty, LooksAt, Parks, WaitFront, Running
  <2>3. pc[x].at \in {"input", "wait"} => pc[x].i \in 1 .. NumInputs(x)
    BY <1>0 DEF FrameOK
  <2>4. \/ \E at \in {"input", "wait"}, i \in 1 .. NumInputs(x), busy \in BOOLEAN :
             pc' = Goto(x, Frame(at, 1, i, busy, <<>>))
        \/ \E at \in {"each", "park"} : /\ pc' = Goto(x, Frame(at, 1, 1, FALSE, <<>>))
                                        /\ at = "each" => ~(\A p \in DOMAIN workers[x] : workers[x][p] = <<>>)
    <3>1. CASE FindsEmpty(x)
      <4> DEFINE open == pc[x].busy \/ ~Exhausted(<<x, pc[x].i>>)
                 orphan == \A p \in DOMAIN workers[x] : workers[x][p] = <<>>
      <4>1. /\ pc' = Goto(x, IF pc[x].i < NumInputs(x) THEN Frame("input", 1, pc[x].i + 1, open, <<>>)
                              ELSE Frame(IF orphan THEN "wait" ELSE "each", 1, 1, FALSE, <<>>))
            /\ pc[x].at = "input"
        BY <3>1 DEF FindsEmpty, Running
      <4>2. open \in BOOLEAN
        OBVIOUS
      <4> HIDE DEF open
      <4>3. CASE pc[x].i < NumInputs(x)
        <5>1. pc[x].i + 1 \in 1 .. NumInputs(x)
          BY <2>1, <2>3, <4>1, <4>3
        <5> QED BY <4>1, <4>2, <4>3, <5>1
      <4>4. CASE ~(pc[x].i < NumInputs(x)) /\ orphan
        <5>1. 1 \in 1 .. NumInputs(x) /\ FALSE \in BOOLEAN
          BY <2>1
        <5>2. pc' = Goto(x, Frame("wait", 1, 1, FALSE, <<>>))
          BY <4>1, <4>4
        <5> QED BY <5>1, <5>2
      <4>5. CASE ~(pc[x].i < NumInputs(x)) /\ ~orphan
        <5>2. pc' = Goto(x, Frame("each", 1, 1, FALSE, <<>>))
          BY <4>1, <4>5
        <5> QED BY <4>5, <5>2
      <4> QED BY <4>3, <4>4, <4>5
    <3>2. CASE LooksAt(x)
      <4> DEFINE idle == pc[x].busy \/ ~Exhausted(<<x, pc[x].i>>)
                 i == <<x, pc[x].i>>
      <4>1. /\ pc' = Goto(x, IF buf[i] # <<>> THEN Frame("input", 1, 1, FALSE, <<>>)
                              ELSE IF pc[x].i < NumInputs(x) THEN Frame("wait", 1, pc[x].i + 1, idle, <<>>)
                              ELSE Frame("park", 1, 1, FALSE, <<>>))
            /\ pc[x].at = "wait"
        BY <3>2 DEF LooksAt, Running
      <4>2. idle \in BOOLEAN
        OBVIOUS
      <4>3. 1 \in 1 .. NumInputs(x) /\ FALSE \in BOOLEAN
        BY <2>1
      <4> HIDE DEF idle, i
      <4>4. CASE ~(buf[i] # <<>>) /\ pc[x].i < NumInputs(x)
        <5>1. pc[x].i + 1 \in 1 .. NumInputs(x)
          BY <2>1, <2>3, <4>1, <4>4
        <5> QED BY <4>1, <4>2, <4>4, <5>1
      <4> QED BY <4>1, <4>3, <4>4
    <3>3. CASE Parks(x) \/ (WaitFront(x) /\ ~Ends(x))
      <4>1. 1 \in 1 .. NumInputs(x) /\ FALSE \in BOOLEAN
        BY <2>1
      <4>2. pc' = Goto(x, Frame("wait", 1, 1, FALSE, <<>>)) \/ pc' = Goto(x, Frame("input", 1, 1, FALSE, <<>>))
        BY <3>3 DEF Parks, WaitFront
      <4> QED BY <4>1, <4>2
    <3> QED BY <1>6, <3>1, <3>2, <3>3
  <2>5. CASE \E at \in {"input", "wait"}, i \in 1 .. NumInputs(x), busy \in BOOLEAN :
               pc' = Goto(x, Frame(at, 1, i, busy, <<>>))
    <3>1. PICK at \in {"input", "wait"}, i \in 1 .. NumInputs(x), busy \in BOOLEAN :
               pc' = Goto(x, Frame(at, 1, i, busy, <<>>))
      BY <2>5
    <3>2. Frame(at, 1, i, busy, <<>>) \in Frames /\ FrameOK(x, Frame(at, 1, i, busy, <<>>))
      BY InputFrames
    <3> QED BY <1>0, <2>2, <3>1, <3>2, GotoStack
  <2>6. CASE \E at \in {"each", "park"} : /\ pc' = Goto(x, Frame(at, 1, 1, FALSE, <<>>))
                                          /\ at = "each" => ~(\A p \in DOMAIN workers[x] : workers[x][p] = <<>>)
    <3>1. PICK at \in {"each", "park"} : /\ pc' = Goto(x, Frame(at, 1, 1, FALSE, <<>>))
                                         /\ at = "each" => ~(\A p \in DOMAIN workers[x] : workers[x][p] = <<>>)
      BY <2>6
    <3>2. at = "each" => 1 \in DOMAIN graph.owns[x]
      <4>1. workers[x] \in Seq(Seq(Nodes(graph))) /\ Len(workers[x]) = Len(graph.owns[x])
            /\ graph.owns[x] \in Seq(Seq(Nodes(graph)))
        BY <1>0 DEF StackInv, ListTypes, GraphOK, Shaped, OwnedOnce
      <4>2. at = "each" => \E p \in DOMAIN workers[x] : TRUE
        BY <3>1
      <4> QED BY <4>1, <4>2
    <3>3. <<>> \in Seq(Message) /\ at \in Ats /\ 1 \in Nat \ {0} /\ FALSE \in BOOLEAN
      BY DEF Ats
    <3>4. Frame(at, 1, 1, FALSE, <<>>) \in Frames
      BY <3>3, SomeFrames
    <3>5. FrameOK(x, Frame(at, 1, 1, FALSE, <<>>))
      <4>1. graph.kind[x] # "io"
        BY KindsDiffer
      <4> QED BY <3>2, <4>1 DEF FrameOK, Frame
    <3> QED BY <1>0, <2>2, <3>1, <3>4, <3>5, GotoStack
  <2> QED BY <2>4, <2>5, <2>6
<1>7. CASE EachCalls(x)
  BY <1>0, <1>7, EachCallsStack
<1>8. CASE EachEnds(x)
  BY <1>0, <1>8, EachEndsStack
<1> QED
  BY <1>1, <1>2, <1>3, <1>4, <1>5, <1>6, <1>7, <1>8 DEF NodeStep

LEMMA ThreadRoots ==
  ASSUME GraphOK, NEW t \in Threads(graph)
  PROVE  /\ t \in Parts(graph) /\ t \notin Nodes(graph) /\ 1 \in DOMAIN graph.owns[t]
         /\ graph.owns[t] \in Seq(Seq(Nodes(graph))) /\ Len(graph.owns[t]) = 1
         /\ graph.kind[t] = "io" => 1 \in DOMAIN graph.owns[t][1] /\ Len(graph.owns[t][1]) = 1
<1>1. t \in Parts(graph) /\ t \notin Nodes(graph)
  BY KindsDiffer
<1>2. graph.owns[t] \in Seq(Seq(Nodes(graph))) /\ Len(graph.owns[t]) = 1
  BY <1>1 DEF GraphOK, Shaped, OwnedOnce, ThreadsWork
<1>3. 1 \in DOMAIN graph.owns[t] /\ graph.owns[t][1] \in Seq(Nodes(graph))
  BY <1>2
<1>4. graph.kind[t] = "io" => Len(graph.owns[t][1]) = 1
  BY DEF GraphOK, Shaped, ThreadsWork
<1>5. graph.kind[t] = "io" => 1 \in DOMAIN graph.owns[t][1]
  BY <1>3, <1>4
<1> QED
  BY <1>1, <1>2, <1>3, <1>4, <1>5

LEMMA IoWorksStack ==
  ASSUME GraphOK, StackInv, NEW t \in Threads(graph), IoWorks(t)
  PROVE  LET c == workers[t][1][1]
         IN  /\ StackInv' /\ UNCHANGED <<graph, alive, workers, edgeVars, routineVars, held, written>>
             /\ c \in Nodes(graph) /\ c \in alive /\ graph.owner[c] = t /\ c # t
             /\ pc[t].at = "each" /\ pc[c].at = "idle"
             /\ pc' = [pc EXCEPT ![t].at = "call", ![c] = Entered]
<1> DEFINE c == workers[t][1][1]
<1>1. /\ t \in alive /\ pc[t].at = "each" /\ graph.kind[t] = "io"
      /\ UNCHANGED <<graph, alive, workers, edgeVars, routineVars, held, written>>
      /\ pc' = [pc EXCEPT ![t].at = "call", ![c] = Entered]
  BY DEF IoWorks, Running
<1>2. workers[t] = graph.owns[t] /\ t \in Parts(graph) /\ 1 \in DOMAIN workers[t] /\ 1 \in DOMAIN workers[t][1]
  BY <1>1, ThreadRoots DEF StackInv, HouseInv
<1>3. c \in Nodes(graph) /\ graph.owner[c] = t /\ c # t
  BY <1>2, Listed DEF StackInv
<1>4. c \in alive
  BY <1>1, <1>2 DEF StackInv, HouseInv
<1>5. StackInv'
  BY <1>1, <1>2, <1>3, <1>4, CallStack
<1>6. pc[c].at = "idle"
  BY <1>1, <1>3, <1>4 DEF StackInv, CallInv, Calls
<1> QED
  BY <1>1, <1>3, <1>4, <1>5, <1>6

\* What an Io's caller can push, and a writer.
LEMMA OutsideMessages ==
  ASSUME GraphTypes, WriteTypes, NEW w \in Parts(graph), NEW k \in graph.kinds
  PROVE  [kind |-> k, from |-> w, nth |-> Len(written[w]) + 1, turn |-> 0] \in Message
<1>1. written[w] \in Seq(Message)
  BY DEF WriteTypes
<1>2. Len(written[w]) + 1 \in Nat
  BY <1>1
<1>3. k \in Kinds /\ 0 \in 0 .. MaxTurns
  BY WorkGraphAssumption DEF GraphTypes
<1> QED
  BY <1>2, <1>3 DEF Message

LEMMA ThreadStack ==
  ASSUME GraphOK, Types, StackInv, NEW t \in Threads(graph) \cap alive,
         \/ EachCalls(t) \/ EachEnds(t) \/ ThreadEnds(t) \/ IoWorks(t) \/ IoReads(t)
         \/ IoPushes(t) \/ IoDrops(t)
  PROVE  StackInv'
<1>0. t \in Parts(graph) /\ t \notin Nodes(graph) /\ pc \in [Parts(graph) -> Frames]
  BY ThreadRoots DEF StackInv, FrameTypes
<1>1. CASE EachCalls(t)
  BY <1>0, <1>1, EachCallsStack
<1>2. CASE EachEnds(t)
  BY <1>0, <1>2, EachEndsStack
<1>3. CASE IoWorks(t)
  BY <1>3, IoWorksStack
<1>4. CASE ThreadEnds(t)
  <2> DEFINE gone == {t}
  <2>1. /\ UNCHANGED <<graph, workers, pc>> /\ alive' = alive \ gone /\ graph.kind[t] = "stream"
        /\ workers[t][1] = <<>>
    BY <1>4 DEF ThreadEnds, Drop
  <2>2. ASSUME NEW z \in Nodes(graph) \cap alive PROVE graph.owner[z] # t
    <3> SUFFICES ASSUME graph.owner[z] = t PROVE FALSE
      OBVIOUS
    <3>1. Worked(z)
      BY DEF StackInv, HouseInv
    <3>2. PICK p \in DOMAIN workers[t] : \E j \in DOMAIN workers[t][p] : z = workers[t][p][j]
      BY <3>1 DEF Worked
    <3>3. workers[t] \in Seq(Seq(Nodes(graph))) /\ Len(workers[t]) = 1
      BY <1>0, ThreadRoots DEF StackInv, ListTypes
    <3>4. p = 1
      BY <3>2, <3>3
    <3> QED BY <2>1, <3>2, <3>4
  <2> HIDE DEF gone
  <2>3. \A z \in (Nodes(graph) \cap alive) \ gone : graph.owner[z] \notin gone
    BY <2>2 DEF gone
  <2>4. \A z \in Nodes(graph) \cap gone : graph.owner[z] \in gone
    BY <1>0 DEF gone
  <2>5. pc' \in [Parts(graph) -> Frames] /\ \A y \in Parts(graph) : pc'[y] = pc[y]
    BY <1>0, <2>1
  <2> QED BY <2>1, <2>3, <2>4, <2>5, DropStack
<1>5. CASE IoReads(t)
  <2>1. /\ UNCHANGED <<graph, alive, workers>> /\ pc[t].at = "each"
        /\ pc' = Goto(t, Idle) \/ pc' = pc
    BY <1>5 DEF IoReads, Running
  <2>2. FrameOK(t, Idle)
    BY IdleFrames DEF FrameOK
  <2>3. pc = Goto(t, pc[t]) /\ pc[t] \in Frames /\ FrameOK(t, pc[t])
    BY <1>0 DEF StackInv, FrameTypes, Goto
  <2>4. \E f \in Frames : FrameOK(t, f) /\ pc' = Goto(t, f)
    BY <2>1, <2>2, <2>3, IdleFrames
  <2> QED BY <1>0, <2>1, <2>4, GotoStack
<1>6. CASE IoPushes(t)
  <2>0. PICK w \in Lent(graph), k \in graph.kinds, i \in DOMAIN graph.bound[t] :
          \E m : /\ m = [kind |-> k, from |-> w, nth |-> Len(written[w]) + 1, turn |-> 0]
                 /\ pc' = IF Waits(m) THEN Goto(t, Frame("each", 1, i, FALSE, <<m>>)) ELSE pc
    BY <1>6 DEF IoPushes
  <2>1. PICK m :
             /\ m = [kind |-> k, from |-> w, nth |-> Len(written[w]) + 1, turn |-> 0]
             /\ pc' = IF Waits(m) THEN Goto(t, Frame("each", 1, i, FALSE, <<m>>)) ELSE pc
    BY <2>0
  <2>2. /\ UNCHANGED <<graph, alive, workers>> /\ pc[t].at = "idle"
    BY <1>6 DEF IoPushes, Running
  <2>3. m \in Message
    BY <2>1, OutsideMessages, KindsDiffer DEF Types
  <2>4. i \in Nat \ {0}
    BY <1>0, OutletShape
  <2>5. Frame("each", 1, i, FALSE, <<m>>) \in Frames
    <3>1. <<m>> \in Seq(Message) /\ "each" \in Ats /\ 1 \in Nat \ {0} /\ FALSE \in BOOLEAN
      BY <2>3 DEF Ats
    <3> QED BY <2>4, <3>1, SomeFrames
  <2>6. FrameOK(t, Frame("each", 1, i, FALSE, <<m>>))
    BY ThreadRoots DEF FrameOK, Frame
  <2>7. pc = Goto(t, pc[t]) /\ pc[t] \in Frames /\ FrameOK(t, pc[t])
    BY <1>0 DEF StackInv, FrameTypes, Goto
  <2>8. \E f \in Frames : FrameOK(t, f) /\ pc' = Goto(t, f)
    BY <2>1, <2>5, <2>6, <2>7
  <2> QED BY <1>0, <2>2, <2>8, GotoStack
<1>7. CASE IoDrops(t)
  <2> DEFINE gone == graph.tree[t] \cup Lent(graph)
  <2>1. /\ UNCHANGED <<graph, workers, pc>> /\ alive' = alive \ gone
    BY <1>7 DEF IoDrops, Drop
  <2>2. \A z \in Nodes(graph) : z \notin Lent(graph) /\ graph.owner[z] \notin Lent(graph) /\ z # t
    BY <1>0, Owners, KindsDiffer
  <2>3. /\ \A z \in Nodes(graph) : graph.owner[z] \in graph.tree[t] => z \in graph.tree[t]
        /\ \A z \in graph.tree[t] \ {t} : graph.owner[z] \in graph.tree[t]
    BY <1>0, Trees
  <2>4. /\ \A z \in (Nodes(graph) \cap alive) \ gone : graph.owner[z] \notin gone
        /\ \A z \in Nodes(graph) \cap gone : graph.owner[z] \in gone
    BY <2>2, <2>3
  <2> HIDE DEF gone
  <2>5. pc' \in [Parts(graph) -> Frames] /\ \A y \in Parts(graph) : pc'[y] = pc[y]
    BY <1>0, <2>1
  <2> QED BY <2>1, <2>4, <2>5, DropStack
<1> QED
  BY <1>1, <1>2, <1>3, <1>4, <1>5, <1>6, <1>7

LEMMA OutsideStack ==
  ASSUME GraphOK, Types, StackInv,
         \/ \E x \in Nodes(graph) \cap alive : Fails(x)
         \/ \E w \in Writers(graph) \cap alive : WakeTarget(w) \/ WriterLeaves(w) \/ Writes(w)
         \/ \E r \in Tees(graph) \cap alive : TeeLeaves(r)
  PROVE  StackInv'
<1>0. pc \in [Parts(graph) -> Frames]
  BY DEF StackInv, FrameTypes
<1>1. ASSUME NEW x \in Nodes(graph), Fails(x) PROVE StackInv'
  <2> DEFINE t == Home(x)
             gone == graph.tree[t]
  <2>1. /\ UNCHANGED <<graph, workers>> /\ alive' = alive \ gone
        /\ pc' = [y \in DOMAIN pc |-> IF y \in gone THEN Idle ELSE pc[y]]
    BY <1>1 DEF Fails, Drop
  <2>2. t \in Threads(graph) /\ t \in Parts(graph) /\ t \notin Nodes(graph)
    BY Trees, KindsDiffer
  <2>3. /\ \A z \in Nodes(graph) : graph.owner[z] \in gone => z \in gone
        /\ \A z \in gone \ {t} : graph.owner[z] \in gone
    BY <2>2, Trees
  <2>4. /\ \A z \in (Nodes(graph) \cap alive) \ gone : graph.owner[z] \notin gone
        /\ \A z \in Nodes(graph) \cap gone : graph.owner[z] \in gone
    BY <2>2, <2>3
  <2> HIDE DEF gone, t
  <2>5. /\ pc' \in [Parts(graph) -> Frames]
        /\ \A y \in Parts(graph) : pc'[y] = pc[y] \/ (y \in gone /\ pc'[y] = Idle)
    BY <1>0, <2>1, IdleFrames
  <2> QED BY <2>1, <2>4, <2>5, DropStack
<1>2. ASSUME NEW w, w \notin Nodes(graph), Drop({w}), UNCHANGED <<workers, pc>>,
             \A z \in Nodes(graph) : graph.owner[z] # w
      PROVE  StackInv'
  <2> DEFINE gone == {w}
  <2>1. UNCHANGED <<graph, workers>> /\ alive' = alive \ gone
    BY <1>2 DEF Drop
  <2>2. /\ \A z \in (Nodes(graph) \cap alive) \ gone : graph.owner[z] \notin gone
        /\ \A z \in Nodes(graph) \cap gone : graph.owner[z] \in gone
    BY <1>2
  <2> HIDE DEF gone
  <2>3. pc' \in [Parts(graph) -> Frames] /\ \A y \in Parts(graph) : pc'[y] = pc[y]
    BY <1>0, <1>2
  <2> QED BY <2>1, <2>2, <2>3, DropStack
<1>3. ASSUME NEW w \in Writers(graph) \cup Tees(graph), WriterLeaves(w) \/ TeeLeaves(w) PROVE StackInv'
  <2>1. w \notin Nodes(graph) /\ \A z \in Nodes(graph) : graph.owner[z] # w
    BY Owners, KindsDiffer
  <2>2. Drop({w}) /\ UNCHANGED <<workers, pc>>
    BY <1>3 DEF WriterLeaves, TeeLeaves
  <2> QED BY <1>2, <2>1, <2>2
<1>4. ASSUME NEW w \in Writers(graph), WakeTarget(w) \/ Writes(w) PROVE StackInv'
  <2>1. w \in Parts(graph) /\ w \notin Nodes(graph) /\ graph.kind[w] = "writer"
    BY KindsDiffer
  <2>2. /\ UNCHANGED <<graph, alive, workers>> /\ pc[w].at \in {"wake", "idle"}
        /\ pc' = Goto(w, Idle) \/ pc' = Goto(w, Frame("wake", 1, 1, FALSE, <<>>)) \/ pc' = pc
    BY <1>4, <2>1 DEF WakeTarget, Writes, Running
  <2>3. <<>> \in Seq(Message) /\ "wake" \in Ats /\ 1 \in Nat \ {0} /\ FALSE \in BOOLEAN
    BY DEF Ats
  <2>4. Frame("wake", 1, 1, FALSE, <<>>) \in Frames
    BY <2>3, SomeFrames
  <2>5. FrameOK(w, Frame("wake", 1, 1, FALSE, <<>>)) /\ FrameOK(w, Idle)
    BY <2>1, IdleFrames DEF FrameOK, Frame
  <2>6. pc = Goto(w, pc[w]) /\ pc[w] \in Frames /\ FrameOK(w, pc[w])
    BY <1>0, <2>1 DEF StackInv, FrameTypes, Goto
  <2>7. \E f \in Frames : FrameOK(w, f) /\ pc' = Goto(w, f)
    BY <2>2, <2>4, <2>5, <2>6, IdleFrames
  <2> QED BY <2>1, <2>2, <2>7, GotoStack
<1> QED
  BY <1>1, <1>3, <1>4

LEMMA StackInit == Init => GraphOK /\ StackInv
<1> SUFFICES ASSUME Init PROVE GraphOK /\ StackInv
  OBVIOUS
<1>1. GraphTypes /\ GraphOK
  <2>1. GraphTypes
    BY DEF Init, GraphTypes
  <2> QED BY <2>1, GraphIsOK
<1>2. FrameTypes
  <2>1. <<>> \in Seq(Message) /\ "each" \in Ats /\ 1 \in Nat \ {0} /\ FALSE \in BOOLEAN
    BY DEF Ats
  <2>2. Frame("each", 1, 1, FALSE, <<>>) \in Frames
    BY <2>1, SomeFrames
  <2>3. pc = [x \in Parts(graph) |->
             IF graph.kind[x] = "stream" THEN Frame("each", 1, 1, FALSE, <<>>) ELSE Idle]
    BY DEF Init
  <2>4. pc \in [Parts(graph) -> Frames]
    BY <2>2, <2>3, IdleFrames
  <2>5. ASSUME NEW x \in Parts(graph) PROVE FrameOK(x, pc[x])
    <3>1. CASE graph.kind[x] = "stream"
      <4>1. x \in Threads(graph)
        BY <3>1 DEF Threads
      <4>2. 1 \in DOMAIN graph.owns[x] /\ x \notin Nodes(graph)
        BY <1>1, <4>1, ThreadRoots
      <4>3. pc[x] = Frame("each", 1, 1, FALSE, <<>>)
        BY <2>3, <3>1
      <4> QED BY <3>1, <4>2, <4>3 DEF FrameOK, Frame
    <3>2. CASE graph.kind[x] # "stream"
      <4>1. pc[x] = Idle
        BY <2>3, <3>2
      <4> QED BY <4>1, IdleFrames DEF FrameOK
    <3> QED BY <3>1, <3>2
  <2> QED BY <2>4, <2>5 DEF FrameTypes
<1>3. workers = graph.owns /\ alive = Parts(graph) /\ OwnedOnce(graph) /\ DOMAIN graph.owns = Parts(graph)
  BY <1>1 DEF Init, GraphOK, Shaped
<1>4. ListTypes
  <2> SUFFICES ASSUME NEW y \in Parts(graph)
               PROVE  /\ workers[y] \in Seq(Seq(Nodes(graph))) /\ Len(workers[y]) = Len(graph.owns[y])
                      /\ \A p \in DOMAIN workers[y] : \A j \in DOMAIN workers[y][p] :
                           \E h \in DOMAIN graph.owns[y][p] : workers[y][p][j] = graph.owns[y][p][h]
                      /\ \A p, q \in DOMAIN workers[y] :
                           \A j \in DOMAIN workers[y][p], h \in DOMAIN workers[y][q] :
                             workers[y][p][j] = workers[y][q][h] => p = q /\ j = h
    BY <1>3 DEF ListTypes
  <2> QED BY <1>3 DEF OwnedOnce
<1>5. HouseInv
  <2>1. ASSUME NEW x \in Nodes(graph) PROVE graph.owner[x] \in alive /\ Worked(x)
    <3>1. graph.owner[x] \in Parts(graph) /\ x \in Owned(graph, graph.owner[x])
      BY <1>1, Owners
    <3>2. \E p \in DOMAIN graph.owns[graph.owner[x]] : x \in ToSet(graph.owns[graph.owner[x]][p])
      BY <3>1 DEF Owned
    <3> QED BY <1>3, <3>1, <3>2 DEF Worked, ToSet
  <2>2. ASSUME NEW y \in alive, NEW p \in DOMAIN workers[y], NEW j \in DOMAIN workers[y][p]
        PROVE  workers[y][p][j] \in alive
    <3>1. workers[y][p][j] \in Nodes(graph)
      BY <1>1, <1>3, <1>4, Listed
    <3> QED BY <1>3, <3>1, KindsDiffer
  <2> QED BY <1>3, <2>1, <2>2 DEF HouseInv
<1>6. CallInv
  <2>1. \A x \in Nodes(graph) : pc[x] = Idle
    BY KindsDiffer DEF Init
  <2> QED BY <2>1, IdleFrames DEF CallInv
<1> QED
  BY <1>1, <1>2, <1>4, <1>5, <1>6 DEF StackInv

LEMMA StackNext ==
  ASSUME Types, StackInv, Next
  PROVE  StackInv'
<1>1. GraphOK /\ alive \subseteq Parts(graph)
  BY GraphIsOK DEF StackInv, GraphTypes
<1> QED
  BY <1>1, Steps, NodeStack, ThreadStack, OutsideStack

-----------------------------------------------------------------------------
(* What a step does to the edges: one push, one pop, or a drop.             *)

PushStep == \E o \in Outlets(graph), m \in Message : Push(o, m) /\ UNCHANGED <<graph, alive>>
PopStep == \E i \in Inputs(graph) : buf[i] # <<>> /\ Pop(i) /\ UNCHANGED <<graph, alive>>
DropStep == \E gone : Drop(gone)

LEMMA OutsideOutlet ==
  ASSUME GraphOK, NEW w \in Writers(graph) \cup Lent(graph)
  PROVE  w \in Parts(graph) /\ <<w, 1, 1>> \in Outlets(graph)
<1>1. w \in Parts(graph)
  BY KindsDiffer
<1>2. LastSide(w) \in Nat \ {0} /\ Sides(w) = 1 .. LastSide(w)
  BY <1>1, OutletShape
<1>3. 1 \in Sides(w)
  BY <1>2
<1>4. Len(graph.outs[w][1]) \in Nat \ {0} /\ DOMAIN graph.outs[w][1] = 1 .. Len(graph.outs[w][1])
  BY <1>1, <1>3, OutletShape
<1>5. 1 \in DOMAIN graph.outs[w][1]
  BY <1>4
<1> QED
  BY <1>1, <1>3, <1>5, OutletShape

LEMMA NodeEdges ==
  ASSUME GraphOK, Types, NEW x \in Nodes(graph) \cap alive, NodeStep(x)
  PROVE  PushStep \/ PopStep \/ DropStep \/ UNCHANGED <<graph, alive, edgeVars>>
<1>0. x \in Parts(graph) /\ pc[x] \in Frames /\ FrameOK(x, pc[x])
  BY KindsDiffer DEF Types, FrameTypes
<1>1. CASE Resumes(x) \/ Delivers(x) \/ RotateOn(x) \/ Unblock(x)
  <2>1. PICK s, k, m : Pushing(x, s, k, m)
    BY <1>1, NodePushes
  <2>2. <<x, s, k>> \in Outlets(graph) /\ m \in Message /\ UNCHANGED <<graph, alive>>
    BY <1>0, <2>1, OutletShape DEF Pushing
  <2> QED BY <2>1, <2>2 DEF Pushing, Rotate, PushStep
<1>2. CASE PushClosed(x) \/ InputsClosed(x) \/ AllExhausted(x) \/ (WaitFront(x) /\ Ends(x))
  <2>1. Ends(x)
    BY <1>2 DEF PushClosed, InputsClosed, AllExhausted
  <2> QED BY <2>1 DEF Ends, DropStep
<1>3. CASE Takes(x)
  <2>1. pc[x].i \in 1 .. NumInputs(x) /\ DOMAIN graph.bound[x] = 1 .. NumInputs(x)
    BY <1>0, <1>3, OutletShape DEF Takes, Running, FrameOK
  <2>2. <<x, pc[x].i>> \in Inputs(graph)
    BY <1>0, <2>1, OutletShape
  <2> QED BY <1>3, <2>2 DEF Takes, PopStep
<1>4. CASE WakeTarget(x) \/ SideIdle(x) \/ FindsEmpty(x) \/ LooksAt(x) \/ Parks(x) \/ EachCalls(x)
           \/ EachEnds(x) \/ (WaitFront(x) /\ ~Ends(x))
  BY <1>4 DEF WakeTarget, SideIdle, FindsEmpty, LooksAt, Parks, EachCalls, EachEnds, WaitFront
<1> QED
  BY <1>1, <1>2, <1>3, <1>4 DEF NodeStep

LEMMA EdgeSteps ==
  ASSUME GraphOK, Types, Next
  PROVE  PushStep \/ PopStep \/ DropStep \/ UNCHANGED <<graph, alive, edgeVars>>
<1>0. alive \subseteq Parts(graph)
  BY DEF Types, GraphTypes
<1>1. CASE \E x \in Nodes(graph) \cap alive : NodeStep(x)
  BY <1>1, NodeEdges
<1>2. ASSUME NEW t \in Threads(graph), IoReads(t) PROVE PopStep
  <2>1. t \in Parts(graph)
    BY KindsDiffer
  <2>2. pc[t].i \in DOMAIN graph.bound[t]
    BY <1>2, <2>1 DEF Types, FrameTypes, FrameOK, IoReads, Running
  <2>3. <<t, pc[t].i>> \in Inputs(graph)
    BY <2>1, <2>2, OutletShape
  <2> QED BY <1>2, <2>3 DEF IoReads, PopStep
<1>3. ASSUME NEW t \in Threads(graph), IoPushes(t) PROVE PushStep
  <2>1a. PICK w \in Lent(graph), k \in graph.kinds :
           \E m : /\ m = [kind |-> k, from |-> w, nth |-> Len(written[w]) + 1, turn |-> 0]
                  /\ Push(<<w, 1, 1>>, m)
    BY <1>3 DEF IoPushes
  <2>1. PICK m :
             /\ m = [kind |-> k, from |-> w, nth |-> Len(written[w]) + 1, turn |-> 0]
             /\ Push(<<w, 1, 1>>, m)
    BY <2>1a
  <2>2. UNCHANGED <<graph, alive>>
    BY <1>3 DEF IoPushes
  <2>3. m \in Message
    BY <2>1, OutsideMessages, KindsDiffer DEF Types
  <2> QED BY <2>1, <2>2, <2>3, OutsideOutlet DEF PushStep
<1>4. ASSUME NEW w \in Writers(graph), Writes(w) PROVE PushStep
  <2>1a. PICK k \in graph.kinds :
           \E m : /\ m = [kind |-> k, from |-> w, nth |-> Len(written[w]) + 1, turn |-> 0]
                  /\ Push(<<w, 1, 1>>, m)
    BY <1>4 DEF Writes
  <2>1. PICK m :
             /\ m = [kind |-> k, from |-> w, nth |-> Len(written[w]) + 1, turn |-> 0]
             /\ Push(<<w, 1, 1>>, m)
    BY <2>1a
  <2>2. UNCHANGED <<graph, alive>>
    BY <1>4 DEF Writes
  <2>3. m \in Message
    BY <2>1, OutsideMessages, KindsDiffer DEF Types
  <2> QED BY <2>1, <2>2, <2>3, OutsideOutlet DEF PushStep
<1>5. ASSUME NEW x, EachCalls(x) \/ EachEnds(x) \/ IoWorks(x) \/ WakeTarget(x)
      PROVE  UNCHANGED <<graph, alive, edgeVars>>
  BY <1>5 DEF EachCalls, EachEnds, IoWorks, WakeTarget
<1>6. ASSUME NEW x, ThreadEnds(x) \/ IoDrops(x) \/ Fails(x) \/ WriterLeaves(x) \/ TeeLeaves(x)
      PROVE  DropStep
  BY <1>6 DEF ThreadEnds, IoDrops, Fails, WriterLeaves, TeeLeaves, DropStep
<1> QED
  BY <1>0, <1>1, <1>2, <1>3, <1>4, <1>5, <1>6, Steps

-----------------------------------------------------------------------------
(* Types, and the bounds of the buffers.                                    *)

LEMMA PushTypes ==
  ASSUME GraphOK, EdgeTypes, NEW o \in Outlets(graph), NEW m \in Message, Push(o, m), graph' = graph
  PROVE  EdgeTypes'
<1> DEFINE i == To(o)
<1>1. i \in Inputs(graph) /\ Bound(i) \in Nat /\ Message' = Message
  BY OutletShape, SameMessages
<1>2. buf[i] \in Seq(Message)
  BY <1>1 DEF EdgeTypes
<1>3. Append(buf[i], m) \in Seq(Message) /\ Len(Append(buf[i], m)) = Len(buf[i]) + 1 /\ Len(buf[i]) \in Nat
  BY <1>2
<1>4. /\ buf' \in [Inputs(graph) -> Seq(Message)]
      /\ \A j \in Inputs(graph) : Bound(j) # 0 => Len(buf'[j]) <= Bound(j)
  <2>1. CASE Outcome(o, m) = "pushed"
    <3>1. buf' = [buf EXCEPT ![i] = Append(buf[i], m)]
      BY <2>1 DEF Push
    <3>2. HasRoom(i)
      BY <2>1 DEF Outcome
    <3>3. Bound(i) # 0 => Len(buf[i]) + 1 <= Bound(i)
      BY <1>1, <1>3, <3>2 DEF HasRoom
    <3> HIDE DEF i
    <3> QED BY <1>1, <1>3, <3>1, <3>3 DEF EdgeTypes
  <2>2. CASE Outcome(o, m) # "pushed"
    BY <2>2 DEF Push, EdgeTypes
  <2> QED BY <2>1, <2>2
<1>5. met' \in [Outlets(graph) -> BOOLEAN]
  BY DEF Push, EdgeTypes
<1>6. passedBy' \in [Outlets(graph) -> Nat]
  <2> DEFINE new(u) == IF u = o /\ Outcome(o, m) \in {"pushed", "dropped"} THEN 0
                       ELSE IF Outcome(o, m) = "pushed" /\ u \in Overtaken(o) THEN passedBy[u] + 1
                       ELSE passedBy[u]
  <2>1. passedBy' = [u \in DOMAIN passedBy |-> new(u)]
    BY DEF Push
  <2>2. DOMAIN passedBy = Outlets(graph) /\ \A u \in Outlets(graph) : passedBy[u] \in Nat
    BY DEF EdgeTypes
  <2>3. \A u \in Outlets(graph) : new(u) \in Nat
    BY <2>2
  <2> HIDE DEF new
  <2> QED BY <2>1, <2>2, <2>3
<1> QED
  BY <1>1, <1>4, <1>5, <1>6 DEF EdgeTypes, Bound

LEMMA PopTypes ==
  ASSUME GraphOK, EdgeTypes, NEW i \in Inputs(graph), buf[i] # <<>>, Pop(i), graph' = graph
  PROVE  EdgeTypes'
<1>1. Bound(i) \in Nat /\ Message' = Message /\ buf[i] \in Seq(Message)
  BY OutletShape, SameMessages DEF EdgeTypes
<1>2. Tail(buf[i]) \in Seq(Message) /\ Len(Tail(buf[i])) = Len(buf[i]) - 1 /\ Len(buf[i]) \in Nat
  BY <1>1
<1>3. buf' = [buf EXCEPT ![i] = Tail(buf[i])] /\ passedBy' = passedBy
  BY DEF Pop
<1>4. /\ buf' \in [Inputs(graph) -> Seq(Message)]
      /\ \A j \in Inputs(graph) : Bound(j) # 0 => Len(buf'[j]) <= Bound(j)
  BY <1>1, <1>2, <1>3 DEF EdgeTypes
<1>5. met' \in [Outlets(graph) -> BOOLEAN]
  BY DEF Pop, EdgeTypes
<1> QED
  BY <1>1, <1>3, <1>4, <1>5 DEF EdgeTypes, Bound

LEMMA DropTypes ==
  ASSUME GraphOK, EdgeTypes, RoutineTypes, HeldTypes, NEW gone, Drop(gone)
  PROVE  EdgeTypes' /\ RoutineTypes' /\ HeldTypes'
<1>1. graph' = graph /\ Message' = Message /\ Holdings' = Holdings
  BY SameMessages DEF Drop
<1>2. <<>> \in Seq(Message) /\ <<>> \in Seq(Holdings) /\ Len(<<>>) = 0 /\ MaxKept \in Nat
  BY WorkGraphAssumption
<1>3. EdgeTypes'
  <2>1. \A i \in Inputs(graph) : Bound(i) \in Nat
    BY OutletShape
  <2>2. buf' = [i \in DOMAIN buf |-> IF i[1] \in gone THEN <<>> ELSE buf[i]] /\ UNCHANGED <<met, passedBy>>
    BY DEF Drop
  <2>3. /\ buf' \in [Inputs(graph) -> Seq(Message)]
        /\ \A j \in Inputs(graph) : Bound(j) # 0 => Len(buf'[j]) <= Bound(j)
    BY <1>2, <2>1, <2>2 DEF EdgeTypes
  <2> QED BY <1>1, <2>2, <2>3 DEF EdgeTypes, Bound
<1> DEFINE nodes == gone \cap Nodes(graph)
           Empty == [x \in Nodes(graph) |-> [s \in Sides(x) |-> <<>>]]
<1>4. /\ kept' = [x \in DOMAIN kept |-> IF x \in nodes THEN [y \in Nodes(graph) |-> <<>>][x] ELSE kept[x]]
      /\ made' = [x \in DOMAIN made |-> IF x \in nodes THEN Empty[x] ELSE made[x]]
      /\ pending' = [x \in DOMAIN pending |-> IF x \in nodes THEN Empty[x] ELSE pending[x]]
      /\ held' = [x \in DOMAIN held |-> IF x \in nodes THEN Empty[x] ELSE held[x]]
  BY DEF Drop
<1>5. \A x \in nodes : x \in Nodes(graph) /\ Empty[x] = [s \in Sides(x) |-> <<>>]
  OBVIOUS
<1> HIDE DEF nodes, Empty
<1>6. RoutineTypes'
  <2>1. /\ kept' \in [Nodes(graph) -> Seq(Message)]
        /\ \A x \in Nodes(graph) : Len(kept'[x]) <= MaxKept
    BY <1>2, <1>4, <1>5 DEF RoutineTypes
  <2>2. DOMAIN made' = Nodes(graph) /\ DOMAIN pending' = Nodes(graph)
    BY <1>4 DEF RoutineTypes
  <2>3. ASSUME NEW x \in Nodes(graph)
        PROVE  made'[x] \in [Sides(x) -> Seq(Message)] /\ pending'[x] \in [Sides(x) -> Seq(Message)]
    <3>1. /\ made'[x] = IF x \in nodes THEN Empty[x] ELSE made[x]
          /\ pending'[x] = IF x \in nodes THEN Empty[x] ELSE pending[x]
      BY <1>4 DEF RoutineTypes
    <3>2. CASE x \in nodes
      BY <1>2, <1>5, <3>1, <3>2
    <3>3. CASE x \notin nodes
      BY <3>1, <3>3 DEF RoutineTypes
    <3> QED BY <3>2, <3>3
  <2> QED BY <1>1, <2>1, <2>2, <2>3 DEF RoutineTypes, Sides
<1>7. HeldTypes'
  <2>1. DOMAIN held' = Nodes(graph)
    BY <1>4 DEF HeldTypes
  <2>2. ASSUME NEW x \in Nodes(graph)
        PROVE  /\ held'[x] \in [Sides(x) -> Seq(Holdings)]
               /\ \A s \in Sides(x) : held'[x][s] # <<>> => held'[x][s][1].at \in DOMAIN graph.outs[x][s]
    <3>1. held'[x] = IF x \in nodes THEN Empty[x] ELSE held[x]
      BY <1>4 DEF HeldTypes
    <3>2. CASE x \in nodes
      BY <1>2, <1>5, <3>1, <3>2
    <3>3. CASE x \notin nodes
      BY <3>1, <3>3 DEF HeldTypes
    <3> QED BY <3>2, <3>3
  <2> QED BY <1>1, <2>1, <2>2 DEF HeldTypes, Sides
<1> QED
  BY <1>3, <1>6, <1>7

LEMMA EdgeTypesNext ==
  ASSUME GraphOK, Types, Next
  PROVE  EdgeTypes'
<1>1. EdgeTypes /\ RoutineTypes /\ HeldTypes /\ graph' = graph
  BY SameGraph DEF Types
<1>2. CASE UNCHANGED edgeVars
  BY <1>1, <1>2, SameMessages DEF EdgeTypes, edgeVars, Bound
<1> QED
  BY <1>1, <1>2, EdgeSteps, PushTypes, PopTypes, DropTypes DEF PushStep, PopStep, DropStep

\* What a rotation leaves in the fan-out.
LEMMA PushingTypes ==
  ASSUME GraphOK, HeldTypes, NEW x \in Nodes(graph), NEW s, NEW k, NEW m, Pushing(x, s, k, m)
  PROVE  HeldTypes'
<1>1. graph' = graph /\ Holdings' = Holdings
  BY SameMessages DEF Pushing
<1>2. s \in Sides(x) /\ k \in DOMAIN graph.outs[x][s] /\ m \in Message /\ x \in Parts(graph)
  BY KindsDiffer DEF Pushing
<1>3. k \in Nat \ {0}
  BY <1>2, OutletShape
<1> DEFINE h == [at |-> k, msg |-> m]
<1>4. h \in Holdings /\ h.at = k
  BY <1>2, <1>3 DEF Holdings
<1>5. held' = [held EXCEPT ![x][s] = <<>>] \/ held' = [held EXCEPT ![x][s] = <<h>>]
  BY DEF Pushing, Rotate
<1> HIDE DEF h
<1>6. PICK q : held' = [held EXCEPT ![x][s] = q] /\ (q = <<>> \/ q = <<h>>)
  BY <1>5
<1>7. q \in Seq(Holdings) /\ (q # <<>> => q[1].at = k)
  <2>1. <<>> \in Seq(Holdings) /\ <<h>> \in Seq(Holdings) /\ <<h>>[1] = h
    BY <1>4
  <2> QED BY <1>4, <1>6, <2>1
<1>8. DOMAIN held' = Nodes(graph)
  BY <1>6 DEF HeldTypes
<1>9. ASSUME NEW y \in Nodes(graph)
      PROVE  /\ held'[y] \in [Sides(y) -> Seq(Holdings)]
             /\ \A r \in Sides(y) : held'[y][r] # <<>> => held'[y][r][1].at \in DOMAIN graph.outs[y][r]
  <2>1. CASE y # x
    <3>1. held'[y] = held[y]
      BY <1>6, <2>1 DEF HeldTypes
    <3> QED BY <3>1 DEF HeldTypes
  <2>2. CASE y = x
    <3>1. held[x] \in [Sides(x) -> Seq(Holdings)] /\ held'[x] = [held[x] EXCEPT ![s] = q]
      BY <1>6 DEF HeldTypes
    <3>2. held'[x] \in [Sides(x) -> Seq(Holdings)] /\ held'[x][s] = q
          /\ \A r \in Sides(x) : r # s => held'[x][r] = held[x][r]
      BY <1>2, <1>7, <3>1
    <3> QED BY <1>2, <1>7, <2>2, <3>2 DEF HeldTypes
  <2> QED BY <2>1, <2>2
<1> QED
  BY <1>1, <1>8, <1>9 DEF HeldTypes, Sides

\* What a routine puts out, and what it keeps back.
LEMMA EmitsTypes ==
  ASSUME GraphOK, RoutineTypes, NEW x \in Nodes(graph), NEW q \in Seq(Message), Emits(x, q)
  PROVE  DOMAIN made' = Nodes(graph) /\ \A y \in Nodes(graph) : made'[y] \in [Sides(y) -> Seq(Message)]
<1>1. PICK s \in Sides(x), turn \in {0, 1} :
        /\ \A k \in DOMAIN q : q[k].turn + turn <= MaxTurns
        /\ made' = [made EXCEPT ![x][s] = made[x][s] \o [k \in DOMAIN q |-> [q[k] EXCEPT !.turn = q[k].turn + turn]]]
  BY DEF Emits
<1> DEFINE e == [k \in DOMAIN q |-> [q[k] EXCEPT !.turn = q[k].turn + turn]]
<1>2. MaxTurns \in Nat /\ DOMAIN q = 1 .. Len(q) /\ Len(q) \in Nat
  BY WorkGraphAssumption
<1>3. ASSUME NEW k \in 1 .. Len(q) PROVE [q[k] EXCEPT !.turn = q[k].turn + turn] \in Message
  <2>1. q[k] \in Message /\ q[k].turn + turn <= MaxTurns
    BY <1>1, <1>2
  <2>2. q[k].turn \in 0 .. MaxTurns
    BY <2>1 DEF Message
  <2>3. q[k].turn + turn \in 0 .. MaxTurns
    BY <1>1, <1>2, <2>1, <2>2
  <2> QED BY <2>1, <2>3 DEF Message
<1>4. e = [k \in 1 .. Len(q) |-> [q[k] EXCEPT !.turn = q[k].turn + turn]]
  BY <1>2
<1> HIDE DEF e
<1>5. e \in [1 .. Len(q) -> Message]
  BY <1>3, <1>4
<1>6. e \in Seq(Message)
  BY <1>2, <1>5
<1>7. made' = [made EXCEPT ![x][s] = made[x][s] \o e]
  BY <1>1 DEF e
<1>8. made[x] \in [Sides(x) -> Seq(Message)]
  BY DEF RoutineTypes
<1>9. made[x][s] \o e \in Seq(Message)
  BY <1>6, <1>8
<1>10. made'[x] \in [Sides(x) -> Seq(Message)]
  BY <1>7, <1>8, <1>9 DEF RoutineTypes
<1>11. \A y \in Nodes(graph) : y # x => made'[y] = made[y]
  BY <1>7 DEF RoutineTypes
<1> QED
  BY <1>7, <1>10, <1>11 DEF RoutineTypes

LEMMA AcceptTypes ==
  ASSUME GraphOK, RoutineTypes, graph' = graph, NEW x \in Nodes(graph), NEW m \in Message, Accept(x, m)
  PROVE  RoutineTypes'
<1>0. Message' = Message /\ MaxKept \in Nat
  BY SameMessages, WorkGraphAssumption
<1>1. kept[x] \in Seq(Message) /\ Len(kept[x]) <= MaxKept
  BY DEF RoutineTypes
<1>2. Append(kept[x], m) \in Seq(Message) /\ Len(Append(kept[x], m)) = Len(kept[x]) + 1 /\ Len(kept[x]) \in Nat
  BY <1>1
<1>3. <<m>> \in Seq(Message) /\ <<>> \in Seq(Message) /\ Len(<<>>) = 0
  OBVIOUS
<1>4. m.kind \in Kinds
  BY DEF Message
<1> DEFINE KeptOK == kept' \in [Nodes(graph) -> Seq(Message)] /\ \A y \in Nodes(graph) : Len(kept'[y]) <= MaxKept
           MadeOK == DOMAIN made' = Nodes(graph) /\ \A y \in Nodes(graph) : made'[y] \in [Sides(y) -> Seq(Message)]
           OwedOK == DOMAIN pending' = Nodes(graph) /\ \A y \in Nodes(graph) : pending'[y] \in [Sides(y) -> Seq(Message)]
<1>5. kept' = [kept EXCEPT ![x] = <<>>] => KeptOK
  BY <1>0, <1>3 DEF RoutineTypes
<1>6. UNCHANGED kept => KeptOK
  BY DEF RoutineTypes
<1>7. UNCHANGED made => MadeOK
  BY DEF RoutineTypes
<1>8. UNCHANGED pending => OwedOK
  BY DEF RoutineTypes
<1>9. Owes(x, m) => OwedOK
  BY <1>3 DEF RoutineTypes, Owes
<1>10. Sends(x, m) => KeptOK /\ MadeOK /\ OwedOK
  <2> SUFFICES ASSUME Sends(x, m) PROVE KeptOK /\ MadeOK
    BY <1>8 DEF Sends
  <2>1. CASE Len(kept[x]) < MaxKept /\ kept' = [kept EXCEPT ![x] = Append(kept[x], m)] /\ UNCHANGED made
    <3>1. Len(Append(kept[x], m)) <= MaxKept
      BY <1>0, <1>2, <2>1
    <3>2. KeptOK
      BY <1>2, <2>1, <3>1 DEF RoutineTypes
    <3> QED BY <1>7, <2>1, <3>2
  <2>2. CASE Emits(x, Append(kept[x], m)) /\ kept' = [kept EXCEPT ![x] = <<>>]
    BY <1>2, <1>5, <2>2, EmitsTypes
  <2> QED BY <2>1, <2>2 DEF Sends
<1>11. KeptOK /\ MadeOK /\ OwedOK
  <2>1. CASE m.kind = "data"
    <3>1. Sends(x, m)
      BY <2>1 DEF Accept
    <3> QED BY <1>10, <3>1
  <2>2. CASE m.kind = "flush"
    <3>1. Emits(x, kept[x]) /\ kept' = [kept EXCEPT ![x] = <<>>] /\ Owes(x, m)
      BY <2>2 DEF Accept
    <3> HIDE DEF KeptOK, OwedOK
    <3> QED BY <1>1, <1>5, <1>9, <3>1, EmitsTypes
  <2>3. CASE m.kind = "marker"
    <3>1. Owes(x, m) /\ UNCHANGED <<kept, made>>
      BY <2>3 DEF Accept
    <3> QED BY <1>6, <1>7, <1>9, <3>1
  <2> QED BY <1>4, <2>1, <2>2, <2>3 DEF Kinds
<1> QED
  BY <1>0, <1>11 DEF RoutineTypes, Sides

LEMMA NodeTypes ==
  ASSUME GraphOK, Types, NEW x \in Nodes(graph) \cap alive, NodeStep(x)
  PROVE  RoutineTypes' /\ HeldTypes' /\ WriteTypes'
<1>0. x \in Parts(graph) /\ pc[x] \in Frames /\ FrameOK(x, pc[x])
  BY KindsDiffer DEF Types, FrameTypes
<1>1. RoutineTypes /\ HeldTypes /\ WriteTypes /\ EdgeTypes
  BY DEF Types
<1>2. graph' = graph => Message' = Message /\ Holdings' = Holdings
  BY SameMessages
<1>3. UNCHANGED <<graph, held>> => HeldTypes'
  BY <1>1, <1>2 DEF HeldTypes, Sides
<1>4. UNCHANGED <<graph, routineVars>> => RoutineTypes'
  BY <1>1, <1>2 DEF RoutineTypes, Sides, routineVars
<1>5. UNCHANGED <<graph, written>> => WriteTypes'
  BY <1>1, <1>2 DEF WriteTypes
<1>6. CASE Resumes(x) \/ Delivers(x) \/ RotateOn(x) \/ Unblock(x)
  <2>1. PICK s, k, m : Pushing(x, s, k, m)
    BY <1>6, NodePushes
  <2>2. HeldTypes' /\ UNCHANGED <<graph, written, kept>> /\ s \in Sides(x)
    BY <1>1, <2>1, PushingTypes DEF Pushing
  <2>3. CASE UNCHANGED routineVars
    BY <1>4, <1>5, <2>2, <2>3
  <2>4. CASE Delivers(x)
    <3> DEFINE r == pc[x].side
    <3>1. r \in Sides(x) /\ made[x] \in [Sides(x) -> Seq(Message)] /\ pending[x] \in [Sides(x) -> Seq(Message)]
      BY <1>0, <1>1, <2>4 DEF Delivers, Running, FrameOK, RoutineTypes
    <3>2. \/ /\ made[x][r] # <<>> /\ made' = [made EXCEPT ![x][r] = Tail(made[x][r])] /\ UNCHANGED pending
          \/ pending' = [pending EXCEPT ![x][r] = <<>>] /\ UNCHANGED made
      BY <2>4 DEF Delivers
    <3>3. CASE made[x][r] # <<>> /\ made' = [made EXCEPT ![x][r] = Tail(made[x][r])] /\ UNCHANGED pending
      <4>1. Tail(made[x][r]) \in Seq(Message)
        BY <3>1, <3>3
      <4>2. made'[x] \in [Sides(x) -> Seq(Message)] /\ \A y \in Nodes(graph) : y # x => made'[y] = made[y]
        BY <1>1, <3>1, <3>3, <4>1 DEF RoutineTypes
      <4>3. RoutineTypes'
        BY <1>1, <1>2, <2>2, <3>3, <4>2 DEF RoutineTypes, Sides
      <4> QED BY <1>5, <2>2, <4>3
    <3>4. CASE pending' = [pending EXCEPT ![x][r] = <<>>] /\ UNCHANGED made
      <4>1. <<>> \in Seq(Message)
        OBVIOUS
      <4>2. pending'[x] \in [Sides(x) -> Seq(Message)] /\ \A y \in Nodes(graph) : y # x => pending'[y] = pending[y]
        BY <1>1, <3>1, <3>4, <4>1 DEF RoutineTypes
      <4>3. RoutineTypes'
        BY <1>1, <1>2, <2>2, <3>4, <4>2 DEF RoutineTypes, Sides
      <4> QED BY <1>5, <2>2, <4>3
    <3> QED BY <3>2, <3>3, <3>4
  <2> QED BY <1>6, <2>3, <2>4 DEF Resumes, RotateOn, Unblock
<1>7. CASE PushClosed(x) \/ InputsClosed(x) \/ AllExhausted(x) \/ (WaitFront(x) /\ Ends(x))
  <2>1. Ends(x)
    BY <1>7 DEF PushClosed, InputsClosed, AllExhausted
  <2>2. PICK gone : Drop(gone)
    BY <2>1 DEF Ends
  <2>3. UNCHANGED <<graph, written>>
    BY <2>2 DEF Drop
  <2> QED BY <1>1, <1>5, <2>2, <2>3, DropTypes
<1>8. CASE Takes(x)
  <2> DEFINE i == <<x, pc[x].i>>
  <2>1. UNCHANGED <<graph, held, written>> /\ Accept(x, Head(buf[i])) /\ buf[i] # <<>>
    BY <1>8 DEF Takes
  <2>2. pc[x].i \in 1 .. NumInputs(x) /\ DOMAIN graph.bound[x] = 1 .. NumInputs(x)
    BY <1>0, <1>8, OutletShape DEF Takes, Running, FrameOK
  <2>3. i \in Inputs(graph)
    BY <1>0, <2>2, OutletShape
  <2>4. buf[i] \in Seq(Message)
    BY <1>1, <2>3 DEF EdgeTypes
  <2>5. Head(buf[i]) \in Message
    BY <2>1, <2>4
  <2> QED BY <1>1, <1>3, <1>5, <2>1, <2>5, AcceptTypes
<1>9. CASE WakeTarget(x) \/ SideIdle(x) \/ FindsEmpty(x) \/ LooksAt(x) \/ Parks(x) \/ EachCalls(x)
           \/ EachEnds(x) \/ (WaitFront(x) /\ ~Ends(x))
  <2>1. UNCHANGED <<graph, routineVars, held, written>>
    BY <1>9 DEF WakeTarget, SideIdle, FindsEmpty, LooksAt, Parks, EachCalls, EachEnds, WaitFront
  <2> QED BY <1>3, <1>4, <1>5, <2>1
<1> QED
  BY <1>6, <1>7, <1>8, <1>9 DEF NodeStep

LEMMA TypesNext ==
  ASSUME Types, StackInv, Next
  PROVE  Types' /\ StackInv'
<1>0. GraphOK /\ alive \subseteq Parts(graph) /\ graph' = graph
  BY GraphIsOK, SameGraph DEF StackInv, GraphTypes
<1>1. RoutineTypes /\ HeldTypes /\ WriteTypes /\ EdgeTypes
  BY DEF Types
<1>2. Message' = Message /\ Holdings' = Holdings
  BY <1>0, SameMessages
<1>3. StackInv' /\ EdgeTypes'
  BY <1>0, StackNext, EdgeTypesNext
<1>4. UNCHANGED held => HeldTypes'
  BY <1>0, <1>1, <1>2 DEF HeldTypes, Sides
<1>5. UNCHANGED routineVars => RoutineTypes'
  BY <1>0, <1>1, <1>2 DEF RoutineTypes, Sides, routineVars
<1>6. UNCHANGED written => WriteTypes'
  BY <1>0, <1>1, <1>2 DEF WriteTypes
<1>7. ASSUME NEW gone, Drop(gone) PROVE RoutineTypes' /\ HeldTypes' /\ WriteTypes'
  BY <1>0, <1>1, <1>6, <1>7, DropTypes DEF Drop
<1>8. ASSUME NEW w \in Parts(graph), NEW k \in graph.kinds, NEW m,
             m = [kind |-> k, from |-> w, nth |-> Len(written[w]) + 1, turn |-> 0],
             written' = [written EXCEPT ![w] = Append(written[w], m)]
      PROVE  WriteTypes'
  <2>1. m \in Message /\ written[w] \in Seq(Message)
    BY <1>8, OutsideMessages DEF Types, WriteTypes
  <2>2. Append(written[w], m) \in Seq(Message)
    BY <2>1
  <2> QED BY <1>0, <1>1, <1>2, <1>8, <2>2 DEF WriteTypes
<1>9. RoutineTypes' /\ HeldTypes' /\ WriteTypes'
  <2>1. CASE \E x \in Nodes(graph) \cap alive : NodeStep(x)
    BY <1>0, <2>1, NodeTypes
  <2>2. ASSUME NEW t, EachCalls(t) \/ EachEnds(t) \/ IoWorks(t) \/ IoReads(t) \/ WakeTarget(t)
        PROVE  RoutineTypes' /\ HeldTypes' /\ WriteTypes'
    <3>1. UNCHANGED <<routineVars, held, written>>
      BY <2>2 DEF EachCalls, EachEnds, IoWorks, IoReads, WakeTarget
    <3> QED BY <1>4, <1>5, <1>6, <3>1
  <2>3. ASSUME NEW t, ThreadEnds(t) \/ IoDrops(t) \/ Fails(t) \/ WriterLeaves(t) \/ TeeLeaves(t)
        PROVE  RoutineTypes' /\ HeldTypes' /\ WriteTypes'
    BY <1>7, <2>3 DEF ThreadEnds, IoDrops, Fails, WriterLeaves, TeeLeaves
  <2>4. ASSUME NEW t, IoPushes(t) PROVE RoutineTypes' /\ HeldTypes' /\ WriteTypes'
    <3>1. UNCHANGED <<routineVars, held>>
      BY <2>4 DEF IoPushes
    <3>2a. PICK w \in Lent(graph), k \in graph.kinds :
             \E m : /\ m = [kind |-> k, from |-> w, nth |-> Len(written[w]) + 1, turn |-> 0]
                    /\ written' = [written EXCEPT ![w] = Append(written[w], m)]
      BY <2>4 DEF IoPushes
    <3>2. PICK m :
             /\ m = [kind |-> k, from |-> w, nth |-> Len(written[w]) + 1, turn |-> 0]
             /\ written' = [written EXCEPT ![w] = Append(written[w], m)]
      BY <3>2a
    <3>3. WriteTypes'
      BY <1>8, <3>2, KindsDiffer
    <3> QED BY <1>4, <1>5, <3>1, <3>3
  <2>5. ASSUME NEW w \in Writers(graph), Writes(w) PROVE RoutineTypes' /\ HeldTypes' /\ WriteTypes'
    <3>1. UNCHANGED <<routineVars, held>>
      BY <2>5 DEF Writes
    <3>2a. PICK k \in graph.kinds :
             \E m : /\ m = [kind |-> k, from |-> w, nth |-> Len(written[w]) + 1, turn |-> 0]
                    /\ written' = [written EXCEPT ![w] = Append(written[w], m)]
      BY <2>5 DEF Writes
    <3>2. PICK m :
             /\ m = [kind |-> k, from |-> w, nth |-> Len(written[w]) + 1, turn |-> 0]
             /\ written' = [written EXCEPT ![w] = Append(written[w], m)]
      BY <3>2a
    <3>3. WriteTypes'
      BY <1>8, <3>2, KindsDiffer
    <3> QED BY <1>4, <1>5, <3>1, <3>3
  <2> QED BY <1>0, <2>1, <2>2, <2>3, <2>4, <2>5, Steps
<1> QED
  BY <1>3, <1>9 DEF Types, StackInv

LEMMA TypesInit == Init => Types /\ StackInv
<1> SUFFICES ASSUME Init PROVE Types
  BY StackInit
<1>1. GraphOK /\ StackInv
  BY StackInit
<1>2. <<>> \in Seq(Message) /\ <<>> \in Seq(Holdings) /\ Len(<<>>) = 0 /\ MaxKept \in Nat
  BY WorkGraphAssumption
<1>3. EdgeTypes
  <2>1. \A i \in Inputs(graph) : Bound(i) \in Nat
    BY <1>1, OutletShape
  <2> QED BY <1>2, <2>1 DEF Init, EdgeTypes
<1>4. RoutineTypes /\ HeldTypes /\ WriteTypes
  BY <1>2 DEF Init, RoutineTypes, HeldTypes, WriteTypes
<1> QED
  BY <1>1, <1>3, <1>4 DEF Types, StackInv

LEMMA TypesStay ==
  ASSUME Types, StackInv, UNCHANGED vars
  PROVE  Types' /\ StackInv'
<1>1. GraphTypes' /\ ListTypes' /\ HouseInv'
  BY HouseStays DEF vars
<1>2. Message' = Message /\ Frames' = Frames /\ Holdings' = Holdings
  BY SameMessages DEF vars
<1>3. FrameTypes'
  BY <1>2 DEF vars, StackInv, FrameTypes, FrameOK, Sides, NumInputs
<1>4. CallInv'
  BY DEF vars, StackInv, CallInv, Calls
<1>5. EdgeTypes' /\ RoutineTypes'
  BY <1>2 DEF vars, edgeVars, routineVars, Types, EdgeTypes, RoutineTypes, Bound, Sides
<1>6. HeldTypes' /\ WriteTypes'
  BY <1>2 DEF vars, Types, HeldTypes, WriteTypes, Sides
<1> QED
  BY <1>1, <1>3, <1>4, <1>5, <1>6 DEF Types, StackInv

\* What every reachable state is.
LEMMA TypeSafe == Spec => [](Types /\ StackInv)
<1> DEFINE I == Types /\ StackInv
<1>1. Init => I
  BY TypesInit
<1>2. I /\ [Next]_vars => I'
  <2> SUFFICES ASSUME Types, StackInv, [Next]_vars PROVE Types' /\ StackInv'
    OBVIOUS
  <2>1. CASE Next
    BY <2>1, TypesNext
  <2>2. CASE UNCHANGED vars
    BY <2>2, TypesStay
  <2> QED BY <2>1, <2>2
<1> QED
  BY <1>1, <1>2, PTL DEF Spec

\* The buffers hold messages, no more than their bounds, and a routine keeps
\* back no more than it may: try_push and the routines of work nodes.
THEOREM BuffersAreBounded == Spec => []TypeOK
<1>1. Types /\ StackInv => TypeOK
  BY DEF Types, GraphTypes, EdgeTypes, RoutineTypes, TypeOK
<1> QED
  BY <1>1, TypeSafe, PTL

-----------------------------------------------------------------------------
(* FollowData's one bit.                                                    *)

\* The bit is the kind of the last message the edge took.
FollowInv ==
  /\ follow \in [Outlets(graph) -> BOOLEAN]
  /\ passed \in [Outlets(graph) -> [before : BOOLEAN, data : BOOLEAN, through : BOOLEAN]]
  /\ \A o \in Outlets(graph) : Follows(o) => (follow[o] <=> passed[o].data)

LEMMA FollowStep ==
  ASSUME GraphOK, FollowInv, SignalsFollowData, NEW o \in Outlets(graph), NEW m, Push(o, m), graph' = graph
  PROVE  FollowInv' /\ SignalsFollowData'
<1> DEFINE taken == Outcome(o, m) \in {"pushed", "dropped"} /\ Follows(o)
           lands == Outcome(o, m) = "pushed"
           r == [before |-> passed[o].data, data |-> IsData(m), through |-> lands]
<1>1. IsData(m) \in BOOLEAN /\ lands \in BOOLEAN /\ passed[o].data \in BOOLEAN
  BY DEF IsData, FollowInv
<1>2. CASE ~taken
  <2>1. UNCHANGED <<follow, passed>>
    BY <1>2 DEF Push, Judged
  <2> QED BY <2>1 DEF FollowInv, SignalsFollowData, Follows
<1>3. CASE taken
  <2>1. follow' = [follow EXCEPT ![o] = IsData(m)] /\ passed' = [passed EXCEPT ![o] = r]
    BY <1>3 DEF Push, Judged
  <2>2. r \in [before : BOOLEAN, data : BOOLEAN, through : BOOLEAN]
        /\ r.before = passed[o].data /\ r.data = IsData(m) /\ r.through = lands
    BY <1>1
  <2>3. lands <=> Passes(o, m)
    BY <1>3 DEF Outcome
  <2>4. Passes(o, m) <=> IsData(m) \/ passed[o].data
    BY <1>3 DEF Passes, FollowInv
  <2> HIDE DEF r, lands
  <2>5. r.through <=> r.data \/ r.before
    BY <2>2, <2>3, <2>4
  <2>6. /\ follow' \in [Outlets(graph) -> BOOLEAN] /\ follow'[o] = IsData(m)
        /\ \A u \in Outlets(graph) : u # o => follow'[u] = follow[u]
    BY <1>1, <2>1 DEF FollowInv
  <2>7. /\ passed' \in [Outlets(graph) -> [before : BOOLEAN, data : BOOLEAN, through : BOOLEAN]] /\ passed'[o] = r
        /\ \A u \in Outlets(graph) : u # o => passed'[u] = passed[u]
    BY <2>1, <2>2 DEF FollowInv
  <2>8. ASSUME NEW u \in Outlets(graph), Follows(u)
        PROVE  /\ follow'[u] <=> passed'[u].data
               /\ passed'[u].through <=> passed'[u].data \/ passed'[u].before
    <3>1. CASE u = o
      BY <2>2, <2>5, <2>6, <2>7, <3>1
    <3>2. CASE u # o
      <4>1. follow'[u] = follow[u] /\ passed'[u] = passed[u]
        BY <2>6, <2>7, <3>2
      <4> QED BY <2>8, <4>1 DEF FollowInv, SignalsFollowData
    <3> QED BY <3>1, <3>2
  <2> QED BY <2>6, <2>7, <2>8 DEF FollowInv, SignalsFollowData, Follows
<1> QED
  BY <1>2, <1>3

LEMMA FollowNext ==
  ASSUME Types, StackInv, FollowInv, SignalsFollowData, [Next]_vars
  PROVE  FollowInv' /\ SignalsFollowData'
<1>1. GraphOK
  BY GraphIsOK DEF StackInv
<1>2. CASE UNCHANGED <<graph, follow, passed>>
  BY <1>2 DEF FollowInv, SignalsFollowData, Follows
<1>3. CASE PushStep
  BY <1>1, <1>3, FollowStep DEF PushStep
<1>4. CASE PopStep \/ DropStep
  BY <1>2, <1>4 DEF PopStep, DropStep, Pop, Drop
<1> QED
  BY <1>1, <1>2, <1>3, <1>4, EdgeSteps DEF vars, edgeVars

LEMMA FollowInit == Init => FollowInv /\ SignalsFollowData
BY DEF Init, FollowInv, SignalsFollowData

\* A signal passes a FollowData edge if and only if the message before it was
\* data: FollowData::passes, and judging a refused message again.
THEOREM SignalsTrailData == Spec => []SignalsFollowData
<1> DEFINE I == FollowInv /\ SignalsFollowData
<1>1. Init => I
  BY FollowInit
<1>2. I /\ Types /\ StackInv /\ [Next]_vars => I'
  BY FollowNext
<1> QED
  BY <1>1, <1>2, TypeSafe, PTL DEF Spec

-----------------------------------------------------------------------------
(* A bounded edge at home never holds a refusal when its turn comes.        *)

\* A refusal is remembered only while its edge is full.
MetInv == \A o \in Outlets(graph) : met[o] /\ To(o)[1] \in alive => ~HasRoom(To(o))

\* The bounded edges of a node to its own thread.
AtHome(o) == o[1] \in Nodes(graph) /\ Bound(To(o)) # 0 /\ To(o)[1] \in graph.tree[Home(o[1])]

FreshFrom(x, s) == \A o \in Outlets(graph) : o[1] = x /\ o[2] >= s /\ AtHome(o) => ~met[o]
Fresh(x) == FreshFrom(x, 1)

\* The turn of entry j of list p is still to come in this round of y.
ToCome(y, p, j) ==
  \/ p > pc[y].side
  \/ p = pc[y].side /\ (j > pc[y].i \/ (j = pc[y].i /\ pc[y].at = "each"))

\* The inputs of y that this round found empty hold no refusal, so once it has
\* found all empty none of its workers remembers one, until its turn is over.
FreshAt(y) ==
  /\ pc[y].at = "input" =>
       \A o \in Outlets(graph) : AtHome(o) /\ To(o)[1] = y /\ To(o)[2] < pc[y].i => ~met[o]
  /\ pc[y].at \in {"each", "call"} =>
       \A p \in DOMAIN workers[y] : \A j \in DOMAIN workers[y][p] :
         ToCome(y, p, j) => Fresh(workers[y][p][j])
  /\ pc[y].at \in {"input", "wait", "park", "each", "call"} => Fresh(y)
  /\ pc[y].at = "round" => FreshFrom(y, IF pc[y].busy THEN pc[y].side ELSE 1)
  /\ pc[y].at \in {"push", "wake", "block"} => FreshFrom(y, pc[y].side + 1)

FreshInv == \A y \in Nodes(graph) \cap alive : FreshAt(y)

LEMMA MetStep ==
  ASSUME GraphOK, Types, MetInv, Next
  PROVE  MetInv'
<1>0. EdgeTypes /\ graph' = graph
  BY SameGraph DEF Types
<1>1. \A o \in Outlets(graph) : To(o) \in Inputs(graph) /\ Bound(To(o)) \in Nat
  BY OutletShape
<1>2. CASE PushStep
  <2>1. PICK o \in Outlets(graph), m \in Message : Push(o, m) /\ UNCHANGED <<graph, alive>>
    BY <1>2 DEF PushStep
  <2>2. \A i \in Inputs(graph) : Len(buf[i]) \in Nat /\ Len(buf'[i]) \in Nat /\ Len(buf'[i]) >= Len(buf[i])
    <3>1. To(o) \in Inputs(graph) /\ buf[To(o)] \in Seq(Message)
      BY <1>0, <1>1 DEF EdgeTypes
    <3>2. Len(Append(buf[To(o)], m)) = Len(buf[To(o)]) + 1 /\ Len(buf[To(o)]) \in Nat
      BY <3>1
    <3>3. buf' = buf \/ buf' = [buf EXCEPT ![To(o)] = Append(buf[To(o)], m)]
      BY <2>1 DEF Push
    <3>4. \A i \in Inputs(graph) : Len(buf[i]) \in Nat
      BY <1>0 DEF EdgeTypes
    <3>5. CASE buf' = buf
      BY <3>4, <3>5
    <3>6. CASE buf' = [buf EXCEPT ![To(o)] = Append(buf[To(o)], m)]
      <4>1. buf'[To(o)] = Append(buf[To(o)], m)
        BY <1>0, <3>1, <3>6 DEF EdgeTypes
      <4>2. \A i \in Inputs(graph) : i # To(o) => buf'[i] = buf[i]
        BY <1>0, <3>6 DEF EdgeTypes
      <4> QED BY <3>1, <3>2, <3>4, <4>1, <4>2
    <3> QED BY <3>3, <3>5, <3>6
  <2>3. \A u \in Outlets(graph) : met'[u] => met[u] \/ (u = o /\ Outcome(o, m) = "full")
    BY <1>0, <2>1 DEF Push, EdgeTypes
  <2>4. Outcome(o, m) = "full" => ~HasRoom(To(o))
    BY DEF Outcome
  <2>5. ASSUME NEW u \in Outlets(graph), met'[u], To(u)[1] \in alive PROVE ~HasRoom(To(u))
    BY <2>3, <2>4, <2>5 DEF MetInv
  <2>6. \A u \in Outlets(graph) : ~HasRoom(To(u)) => ~HasRoom(To(u))'
    BY <1>0, <1>1, <2>2 DEF HasRoom, Bound, To
  <2> QED BY <1>0, <2>1, <2>5, <2>6 DEF MetInv, To
<1>3. CASE PopStep
  <2>1. PICK i \in Inputs(graph) : Pop(i) /\ UNCHANGED <<graph, alive>>
    BY <1>3 DEF PopStep
  <2>2. \A u \in Outlets(graph) : met'[u] => met[u] /\ To(u) # i
    BY <1>0, <2>1 DEF Pop, EdgeTypes
  <2>3. \A j \in Inputs(graph) : j # i => buf'[j] = buf[j]
    BY <1>0, <2>1 DEF Pop, EdgeTypes
  <2>4. \A u \in Outlets(graph) : met'[u] => buf'[To(u)] = buf[To(u)] /\ met[u]
    BY <1>1, <2>2, <2>3
  <2> QED BY <1>0, <1>1, <2>1, <2>4 DEF MetInv, HasRoom, Bound, To
<1>4. CASE DropStep
  <2>1. PICK gone : Drop(gone)
    BY <1>4 DEF DropStep
  <2>2. /\ met' = met /\ alive' = alive \ gone
        /\ \A i \in Inputs(graph) : i[1] \notin gone => buf'[i] = buf[i]
    BY <1>0, <2>1 DEF Drop, EdgeTypes
  <2> QED BY <1>0, <1>1, <2>2 DEF MetInv, HasRoom, Bound, To
<1>5. CASE UNCHANGED <<graph, alive, edgeVars>>
  BY <1>5 DEF MetInv, HasRoom, Bound, To, edgeVars
<1> QED
  BY <1>2, <1>3, <1>4, <1>5, EdgeSteps

\* A bounded edge at home leads to the owner, which is a node.
LEMMA HomeIsOwner ==
  ASSUME GraphOK, NEW o \in Outlets(graph), AtHome(o)
  PROVE  /\ o[1] \in Nodes(graph) /\ To(o)[1] = graph.owner[o[1]] /\ To(o)[1] \in Nodes(graph)
         /\ To(o)[1] # o[1]
<1> DEFINE x == o[1]
           t == Home(x)
           i == To(o)
<1>1. x \in Nodes(graph) /\ Bound(i) # 0 /\ i[1] \in graph.tree[t]
  BY DEF AtHome
<1>2. t \in Threads(graph) /\ x \in graph.tree[t]
  BY <1>1, Trees
<1>3. i[1] \in Parts(graph) /\ i[2] \in DOMAIN graph.bound[i[1]]
  BY OutletShape
<1>4. x \in Owned(graph, i[1])
  BY <1>1, <1>2 DEF GraphOK, BoundedAsTold, Bound, To
<1>5. graph.owner[x] = i[1] /\ i[1] # x
  BY <1>1, <1>3, <1>4, Owners
<1>6. i[1] \notin Threads(graph)
  BY <1>1, <1>3 DEF GraphOK, Shaped, ThreadsWork, Bound
<1> QED
  BY <1>1, <1>5, <1>6, Owners

\* Nobody else's round is touched.
LEMMA FreshOther ==
  ASSUME GraphOK, graph' = graph, StackInv, NEW y \in Nodes(graph), FreshAt(y),
         pc'[y] = pc[y], workers'[y] = workers[y],
         \A o \in Outlets(graph) : met'[o] => met[o] \/ (y # o[1] /\ y # graph.owner[o[1]])
  PROVE  FreshAt(y)'
<1>0. y \in Parts(graph)
  BY KindsDiffer
<1>1. \A x, s : (y = x \/ y = graph.owner[x]) /\ FreshFrom(x, s) => FreshFrom(x, s)'
  BY DEF FreshFrom, AtHome, To, Bound, Home
<1>2. \A x : (y = x \/ y = graph.owner[x]) /\ Fresh(x) => Fresh(x)'
  BY <1>1 DEF Fresh
<1>3. \A p \in DOMAIN workers[y] : \A j \in DOMAIN workers[y][p] : graph.owner[workers[y][p][j]] = y
  BY <1>0, Listed DEF StackInv
<1>4. pc[y].at = "input" =>
       \A o \in Outlets(graph) : AtHome(o) /\ To(o)[1] = y /\ To(o)[2] < pc[y].i => ~met'[o]
  BY HomeIsOwner DEF FreshAt
<1>5. (pc[y].at = "input" =>
       \A o \in Outlets(graph) : AtHome(o) /\ To(o)[1] = y /\ To(o)[2] < pc[y].i => ~met[o])'
  BY <1>4 DEF AtHome, To, Bound, Home
<1>6. pc[y].at \in {"each", "call"} =>
       \A p \in DOMAIN workers[y] : \A j \in DOMAIN workers[y][p] :
         ToCome(y, p, j) => Fresh(workers[y][p][j])'
  BY <1>2, <1>3 DEF FreshAt
<1>7. (pc[y].at \in {"each", "call"} =>
       \A p \in DOMAIN workers[y] : \A j \in DOMAIN workers[y][p] :
         ToCome(y, p, j) => Fresh(workers[y][p][j]))'
  <2> SUFFICES ASSUME pc'[y].at \in {"each", "call"}, NEW p \in DOMAIN workers'[y],
                      NEW j \in DOMAIN workers'[y][p], ToCome(y, p, j)'
               PROVE  Fresh(workers[y][p][j])'
    OBVIOUS
  <2> QED BY <1>6 DEF ToCome
<1>8. (pc[y].at \in {"input", "wait", "park", "each", "call"} => Fresh(y))'
  BY <1>2 DEF FreshAt
<1>9. (pc[y].at = "round" => FreshFrom(y, IF pc[y].busy THEN pc[y].side ELSE 1))'
  BY <1>1 DEF FreshAt
<1>10. (pc[y].at \in {"push", "wake", "block"} => FreshFrom(y, pc[y].side + 1))'
  BY <1>1 DEF FreshAt
<1> QED
  BY <1>5, <1>7, <1>8, <1>9, <1>10 DEF FreshAt

\* Whoever is not at work, or no node, or gone, has no round to speak of.
LEMMA FreshIdle ==
  ASSUME NEW y, pc[y].at = "idle"
  PROVE  FreshAt(y)
BY DEF FreshAt

\* The round of x goes on, and its entries to come are those it had.
LEMMA FreshGoto ==
  ASSUME GraphOK, StackInv, FreshInv, UNCHANGED <<graph, alive, workers>>, NEW x \in Parts(graph) \cap alive,
         NEW f \in Frames, pc' = Goto(x, f), pc[x].at \notin {"idle", "call"},
         \A o \in Outlets(graph) : met'[o] => met[o] \/ (o[1] = x /\ x \in Nodes(graph)),
         x \in Nodes(graph) => FreshAt(x)'
  PROVE  FreshInv'
<1>1. pc'[x] = f /\ \A y \in Parts(graph) : y # x => pc'[y] = pc[y]
  BY GotoFrames DEF StackInv, FrameTypes
<1>2. ASSUME NEW y \in Nodes(graph) \cap alive, y # x PROVE FreshAt(y)'
  <2>1. y \in Parts(graph) /\ pc'[y] = pc[y] /\ workers'[y] = workers[y] /\ FreshAt(y)
    BY <1>1, <1>2, KindsDiffer DEF FreshInv
  <2>2. CASE x \in Nodes(graph) /\ y = graph.owner[x]
    <3>1. Calls(y, x)
      BY <2>2 DEF StackInv, CallInv
    <3>2. pc[y].at = "call"
      BY <3>1 DEF Calls
\* x has its turn, so it is none of those to come.
    <3>3. ASSUME NEW p \in DOMAIN workers[y], NEW j \in DOMAIN workers[y][p], ToCome(y, p, j)
          PROVE  Fresh(workers[y][p][j])'
      <4>1. workers[y][p][j] # x
        <5>1. graph.kind[y] # "io"
          BY KindsDiffer
        <5>2. pc[y].i \in DOMAIN workers[y][pc[y].side] /\ x = workers[y][pc[y].side][pc[y].i]
          BY <3>1, <5>1 DEF Calls
        <5>3. pc[y].side \in DOMAIN workers[y]
          BY <2>1, <3>2 DEF StackInv, FrameTypes, FrameOK, ListTypes, GraphOK, Shaped, OwnedOnce
        <5>4. ~(p = pc[y].side /\ j = pc[y].i)
          <6>0. pc[y] \in Frames
            BY <2>1 DEF StackInv, FrameTypes
          <6>1. pc[y].side \in Nat /\ pc[y].i \in Nat
            BY <6>0, FrameParts
          <6> QED BY <3>2, <3>3, <6>1 DEF ToCome
        <5>5. \A q, r \in DOMAIN workers[y] : \A k \in DOMAIN workers[y][q], h \in DOMAIN workers[y][r] :
                workers[y][q][k] = workers[y][r][h] => q = r /\ k = h
          BY <2>1 DEF StackInv, ListTypes
        <5>6. PICK q : q = pc[y].side
          OBVIOUS
        <5>7. PICK k : k = pc[y].i
          OBVIOUS
        <5>8. workers[y][p][j] = workers[y][q][k] => p = q /\ j = k
          BY <3>3, <5>2, <5>3, <5>5, <5>6, <5>7
        <5> QED BY <5>2, <5>4, <5>6, <5>7, <5>8
      <4>2. Fresh(workers[y][p][j])
        BY <2>1, <3>2, <3>3 DEF FreshAt
      <4> QED BY <4>1, <4>2 DEF Fresh, FreshFrom, AtHome, To, Bound, Home
    <3>4. (pc[y].at \in {"each", "call"} =>
             \A p \in DOMAIN workers[y] : \A j \in DOMAIN workers[y][p] :
               ToCome(y, p, j) => Fresh(workers[y][p][j]))'
      <4> SUFFICES ASSUME NEW p \in DOMAIN workers'[y], NEW j \in DOMAIN workers'[y][p], ToCome(y, p, j)'
                   PROVE  Fresh(workers[y][p][j])'
        OBVIOUS
      <4> QED BY <2>1, <3>3 DEF ToCome
    <3>5. Fresh(y)'
      <4>1. Fresh(y)
        BY <2>1, <3>2 DEF FreshAt
      <4> QED BY <1>2, <4>1 DEF Fresh, FreshFrom, AtHome, To, Bound, Home
    <3>6. pc'[y].at = "call"
      BY <2>1, <3>2
    <3> QED BY <3>4, <3>5, <3>6 DEF FreshAt
  <2>3. CASE ~(x \in Nodes(graph) /\ y = graph.owner[x])
    <3>1. \A o \in Outlets(graph) : met'[o] => met[o] \/ (y # o[1] /\ y # graph.owner[o[1]])
      BY <1>2, <2>3
    <3> QED BY <2>1, <3>1, FreshOther
  <2> QED BY <2>2, <2>3
<1> QED
  BY <1>2 DEF FreshInv

\* x returns: its owner's round goes on with the entry after it.
LEMMA FreshReturn ==
  ASSUME GraphOK, StackInv, FreshInv, UNCHANGED <<graph, alive, workers>>, NEW x \in Nodes(graph) \cap alive,
         pc' = Return(x), pc[x].at \notin {"idle", "call"},
         \A o \in Outlets(graph) : met'[o] => met[o] \/ o[1] = x
  PROVE  FreshInv'
<1> DEFINE o == graph.owner[x]
<1>0. o \in Parts(graph) /\ o # x /\ x \in Parts(graph)
  BY Owners, KindsDiffer
<1>1. /\ pc'[x] = Idle /\ pc'[o].at = "each" /\ pc'[o].side = pc[o].side
      /\ pc'[o].i = pc[o].i + IF graph.kind[o] = "io" THEN 0 ELSE 1
      /\ \A y \in Parts(graph) : y # x /\ y # o => pc'[y] = pc[y]
  BY ReturnFrames DEF StackInv, FrameTypes
<1>2. Calls(o, x) /\ pc[o].at = "call"
  BY DEF StackInv, CallInv, Calls
<1>3. ASSUME NEW y \in Nodes(graph) \cap alive PROVE FreshAt(y)'
  <2>0. y \in Parts(graph) /\ FreshAt(y)
    BY KindsDiffer DEF FreshInv
  <2>1. CASE y = x
    <3>1. pc'[y].at = "idle"
      BY <1>1, <2>1, IdleFrames
    <3> QED BY <3>1 DEF FreshAt
  <2>2. CASE y = o
    <3>0. graph.kind[o] # "io" /\ pc[o].side \in Nat /\ pc[o].i \in Nat
      BY <1>0, <2>2, KindsDiffer DEF StackInv, FrameTypes, Frames
    <3>1. /\ pc[o].i \in DOMAIN workers[o][pc[o].side] /\ x = workers[o][pc[o].side][pc[o].i]
          /\ pc[o].side \in DOMAIN workers[o]
      <4>1. pc[o].i \in DOMAIN workers[o][pc[o].side] /\ x = workers[o][pc[o].side][pc[o].i]
        BY <1>2, <3>0 DEF Calls
      <4>2. pc[o].side \in DOMAIN graph.owns[o]
        BY <1>0, <1>2, <3>0 DEF StackInv, FrameTypes, FrameOK
      <4>3. /\ workers[o] \in Seq(Seq(Nodes(graph))) /\ Len(workers[o]) = Len(graph.owns[o])
            /\ graph.owns[o] \in Seq(Seq(Nodes(graph)))
        BY <1>0 DEF StackInv, ListTypes, GraphOK, Shaped, OwnedOnce
      <4>4. DOMAIN workers[o] = DOMAIN graph.owns[o]
        BY <4>3
      <4> QED BY <4>1, <4>2, <4>4
    <3>2. ASSUME NEW p \in DOMAIN workers[o], NEW j \in DOMAIN workers[o][p], ToCome(o, p, j)'
          PROVE  Fresh(workers[o][p][j])'
      <4>0. j \in Nat /\ p \in Nat
        <5>1. workers[o] \in Seq(Seq(Nodes(graph)))
          BY <1>0 DEF StackInv, ListTypes
        <5>2. workers[o][p] \in Seq(Nodes(graph))
          BY <5>1
        <5> QED BY <5>1, <5>2
      <4>1. ToCome(o, p, j) /\ ~(p = pc[o].side /\ j = pc[o].i)
        BY <1>1, <1>2, <3>0, <3>2, <4>0 DEF ToCome
      <4>2. workers[o][p][j] # x
        BY <1>0, <3>1, <4>1 DEF StackInv, ListTypes
      <4>3. Fresh(workers[o][p][j])
        BY <1>2, <2>0, <2>2, <4>1 DEF FreshAt
      <4> QED BY <4>2, <4>3 DEF Fresh, FreshFrom, AtHome, To, Bound, Home
    <3>3. Fresh(o)'
      <4>1. Fresh(o)
        BY <1>2, <2>0, <2>2 DEF FreshAt
      <4> QED BY <1>0, <4>1 DEF Fresh, FreshFrom, AtHome, To, Bound, Home
    <3>4. (pc[o].at \in {"each", "call"} =>
             \A p \in DOMAIN workers[o] : \A j \in DOMAIN workers[o][p] :
               ToCome(o, p, j) => Fresh(workers[o][p][j]))'
      BY <3>2
    <3> QED BY <1>1, <2>2, <3>3, <3>4 DEF FreshAt
  <2>3. CASE y # x /\ y # o
    BY <1>1, <2>0, <2>3, FreshOther
  <2> QED BY <2>1, <2>2, <2>3
<1> QED
  BY <1>3 DEF FreshInv

\* A step after which nobody remembers more, and the nodes still there go on
\* with what they were at.
LEMMA FreshStays ==
  ASSUME GraphOK, graph' = graph, StackInv, FreshInv, alive' \subseteq alive,
         \A y \in Nodes(graph) \cap alive' : pc'[y] = pc[y] /\ workers'[y] = workers[y],
         \A o \in Outlets(graph) : met'[o] => met[o]
  PROVE  FreshInv'
<1>1. ASSUME NEW y \in Nodes(graph) \cap alive' PROVE FreshAt(y)'
  <2>1. FreshAt(y)
    BY DEF FreshInv
  <2> QED BY <2>1, FreshOther
<1> QED
  BY <1>1 DEF FreshInv

\* The owner's next worker starts its turn with no refusal at home.
LEMMA FreshCall ==
  ASSUME GraphOK, StackInv, FreshInv, UNCHANGED <<graph, alive, workers, met>>,
         NEW y \in Parts(graph) \cap alive, pc[y].at = "each",
         NEW c \in Nodes(graph) \cap alive, graph.owner[c] = y, c # y,
         graph.kind[y] # "io" => /\ pc[y].side \in DOMAIN workers[y]
                                 /\ pc[y].i \in DOMAIN workers[y][pc[y].side]
                                 /\ c = workers[y][pc[y].side][pc[y].i],
         pc' = [pc EXCEPT ![y].at = "call", ![c] = Entered]
  PROVE  FreshInv'
<1>0. pc \in [Parts(graph) -> Frames] /\ c \in Parts(graph)
  BY KindsDiffer DEF StackInv, FrameTypes
<1>1. /\ pc'[c] = Entered /\ pc'[y] = [pc[y] EXCEPT !.at = "call"]
      /\ \A z \in Parts(graph) : z # y /\ z # c => pc'[z] = pc[z]
  BY <1>0
<1>2. pc'[y].at = "call" /\ pc'[y].side = pc[y].side /\ pc'[y].i = pc[y].i
  <2>1. pc[y] \in Frames
    BY <1>0
  <2> QED BY <1>1, <2>1 DEF Frames
<1>3. \A x, s : FreshFrom(x, s) => FreshFrom(x, s)'
  BY DEF FreshFrom, AtHome, To, Bound, Home
<1>4. FreshAt(c)'
  <2>1. Fresh(c)
    <3>1. CASE y \in Nodes(graph)
      <4>1. ToCome(y, pc[y].side, pc[y].i)
        BY DEF ToCome
      <4> QED BY <3>1, <4>1, KindsDiffer DEF FreshInv, FreshAt
    <3>2. CASE y \notin Nodes(graph)
      BY <3>2, HomeIsOwner DEF Fresh, FreshFrom
    <3> QED BY <3>1, <3>2
  <2>2. FreshFrom(c, 1)'
    BY <1>3, <2>1 DEF Fresh
  <2>3. pc'[c].at = "round" /\ ~pc'[c].busy
    BY <1>1, IdleFrames
  <2> QED BY <2>2, <2>3 DEF FreshAt
<1>5. ASSUME y \in Nodes(graph) PROVE FreshAt(y)'
  <2>1. FreshAt(y)
    BY <1>5 DEF FreshInv
  <2>2. Fresh(y)'
    BY <1>3, <2>1 DEF FreshAt, Fresh
  <2>3. ASSUME NEW p \in DOMAIN workers'[y], NEW j \in DOMAIN workers'[y][p], ToCome(y, p, j)'
        PROVE  Fresh(workers[y][p][j])'
    <3>1. ToCome(y, p, j)
      BY <1>2, <2>3 DEF ToCome
    <3>2. Fresh(workers[y][p][j])
      BY <2>1, <3>1 DEF FreshAt
    <3> QED BY <1>3, <3>2 DEF Fresh
  <2> QED BY <1>2, <2>2, <2>3 DEF FreshAt
<1>6. ASSUME NEW z \in Nodes(graph) \cap alive, z # y, z # c PROVE FreshAt(z)'
  <2>1. pc'[z] = pc[z] /\ FreshAt(z)
    BY <1>1, <1>6, KindsDiffer DEF FreshInv
  <2> QED BY <2>1, FreshOther
<1> QED
  BY <1>4, <1>5, <1>6 DEF FreshInv

\* A round ends: the workers of the next list are still to come.
LEMMA FreshEachEnds ==
  ASSUME GraphOK, StackInv, FreshInv, NEW x \in Parts(graph), EachEnds(x)
  PROVE  FreshInv'
<1> DEFINE p == pc[x].side
<1>0. /\ UNCHANGED <<graph, alive, met>> /\ pc \in [Parts(graph) -> Frames] /\ x \in alive
      /\ pc[x].at = "each"
  BY DEF EachEnds, StackInv, FrameTypes, Running, edgeVars
<1>1. /\ p \in DOMAIN workers[x]
      /\ \A q \in DOMAIN workers[x] : q # p => workers'[x][q] = workers[x][q]
      /\ \A z \in Parts(graph) : DOMAIN workers'[z] = DOMAIN workers[z]
                                 /\ (z # x => workers'[z] = workers[z])
  BY EachEndsStack
<1>2. \A z \in Parts(graph) : z # x => pc'[z] = pc[z]
  BY <1>0 DEF EachEnds, Goto
<1>3. \A z, s : FreshFrom(z, s) => FreshFrom(z, s)'
  BY <1>0 DEF FreshFrom, AtHome, To, Bound, Home
<1>4. ASSUME x \in Nodes(graph) PROVE FreshAt(x)'
  <2>1. FreshAt(x) /\ graph.kind[x] # "stream"
    BY <1>0, <1>4, KindsDiffer DEF FreshInv
  <2>2. Fresh(x)'
    BY <1>0, <1>3, <2>1 DEF FreshAt, Fresh
  <2>3. pc'[x] = IF p < Len(workers[x]) THEN Frame("each", p + 1, 1, FALSE, <<>>)
                 ELSE Frame("input", 1, 1, FALSE, <<>>)
    BY <1>0, <2>1 DEF EachEnds, Goto
  <2>4. workers[x] \in Seq(Seq(Nodes(graph))) /\ p \in Nat
    BY <1>0 DEF StackInv, ListTypes, Frames
  <2>5. CASE p < Len(workers[x])
    <3>1. pc'[x].at = "each" /\ pc'[x].side = p + 1 /\ pc'[x].i = 1
      BY <2>3, <2>5 DEF Frame
    <3>2. ASSUME NEW q \in DOMAIN workers'[x], NEW j \in DOMAIN workers'[x][q], ToCome(x, q, j)'
          PROVE  Fresh(workers[x][q][j])'
      <4>1. q \in Nat /\ q \in DOMAIN workers[x]
        BY <1>1, <2>4
      <4>2. q > p
        BY <2>4, <3>1, <3>2, <4>1 DEF ToCome
      <4>3. workers'[x][q] = workers[x][q]
        <5>1. q # p
          BY <2>4, <4>1, <4>2
        <5> QED BY <1>1, <4>1, <5>1
      <4>4. ToCome(x, q, j)
        BY <4>2 DEF ToCome
      <4>5. Fresh(workers[x][q][j])
        BY <1>0, <2>1, <4>1, <4>3, <4>4 DEF FreshAt
      <4> QED BY <1>3, <4>3, <4>5 DEF Fresh
    <3> QED BY <2>2, <3>1, <3>2 DEF FreshAt
  <2>6. CASE ~(p < Len(workers[x]))
    <3>1. pc'[x].at = "input" /\ pc'[x].i = 1
      BY <2>3, <2>6 DEF Frame
    <3>2. \A o \in Outlets(graph) : ~(To(o)[2] < 1)
      BY OutletShape
    <3>3. \A o \in Outlets(graph) : ~(To(o)[2] < 1)'
      BY <1>0, <3>2 DEF To
    <3> QED BY <1>0, <2>2, <3>1, <3>3 DEF FreshAt
  <2> QED BY <2>5, <2>6
<1>5. ASSUME NEW z \in Nodes(graph) \cap alive, z # x PROVE FreshAt(z)'
  <2>1. pc'[z] = pc[z] /\ FreshAt(z) /\ workers'[z] = workers[z]
    BY <1>1, <1>2, <1>5, KindsDiffer DEF FreshInv
  <2> QED BY <1>0, <2>1, FreshOther
<1> QED
  BY <1>0, <1>4, <1>5 DEF FreshInv

\* A worker ends: the last of the list takes its place, and its turn is to come.
LEMMA FreshEnds ==
  ASSUME GraphOK, StackInv, FreshInv, NEW x \in Nodes(graph) \cap alive, pc[x].at # "idle", Ends(x)
  PROVE  FreshInv'
<1> DEFINE o == graph.owner[x]
           p == pc[o].side
           w == workers[o][p]
           gone == EndsGone(x)
           i == pc[o].i
<1>1. /\ UNCHANGED <<graph, met>> /\ alive' = alive \ gone
      /\ graph.kind[o] = "io" => o \in gone
      /\ workers' = [workers EXCEPT ![o][p] = SwapRemove(w, i)]
      /\ \A y \in Parts(graph) : y \notin gone /\ y # o => pc'[y] = pc[y]
      /\ o \notin gone => pc'[o] = [pc[o] EXCEPT !.at = "each"]
      /\ pc[o].at = "call" /\ o \in Parts(graph) /\ o \in alive /\ o # x
      /\ p \in DOMAIN workers[o] /\ w # <<>>
  BY EndsShape
<1> HIDE DEF gone
<1>2. DOMAIN workers = Parts(graph) /\ workers[o] \in Seq(Seq(Nodes(graph)))
  BY <1>1 DEF StackInv, ListTypes
<1>3. \A z, s : FreshFrom(z, s) => FreshFrom(z, s)'
  BY <1>1 DEF FreshFrom, AtHome, To, Bound, Home
<1>4. ASSUME o \in Nodes(graph) \cap alive' PROVE FreshAt(o)'
  <2>1. FreshAt(o) /\ o \notin gone
    BY <1>1, <1>4 DEF FreshInv
  <2>2. Fresh(o)'
    BY <1>1, <1>3, <2>1 DEF FreshAt, Fresh
  <2>3. pc[o] \in Frames
    BY <1>1 DEF StackInv, FrameTypes
  <2>4. pc'[o].at = "each" /\ pc'[o].side = p /\ pc'[o].i = i /\ i \in Nat
    BY <1>1, <2>1, <2>3 DEF Frames
  <2>0. \A q \in DOMAIN workers[o] : \A j \in DOMAIN workers[o][q] :
          ToCome(o, q, j) => Fresh(workers[o][q][j])
    BY <1>1, <2>1 DEF FreshAt
  <2>5. ASSUME NEW q \in DOMAIN workers'[o], NEW j \in DOMAIN workers'[o][q], ToCome(o, q, j)'
        PROVE  Fresh(workers[o][q][j])'
    <3>1. CASE q # p
      <4>1. workers'[o][q] = workers[o][q] /\ q \in DOMAIN workers[o]
        BY <1>1, <1>2, <3>1
      <4>2. ToCome(o, q, j)
        BY <1>1, <2>4, <2>5, <3>1 DEF ToCome
      <4>3. Fresh(workers[o][q][j])
        BY <2>0, <4>1, <4>2
      <4> QED BY <1>1, <1>3, <4>1, <4>3 DEF Fresh
    <3>2. CASE q = p
      <4>1. w \in Seq(Nodes(graph)) /\ workers'[o][q] = SwapRemove(w, i)
        BY <1>1, <1>2, <3>2
      <4>2. /\ j \in 1 .. Len(w) - 1 /\ DOMAIN w = 1 .. Len(w)
            /\ workers'[o][q][j] = IF j = i THEN w[Len(w)] ELSE w[j]
        <5>1. w # <<>> /\ j \in DOMAIN SwapRemove(w, i)
          BY <1>1, <2>5, <4>1
        <5> HIDE DEF w, i
        <5> QED BY <4>1, <5>1, SwapRemoveSeq
      <4>3. Len(w) \in Nat
        BY <4>1
      <4>4. j > i \/ j = i
        <5>1. \/ q > pc'[o].side
              \/ q = pc'[o].side /\ (j > pc'[o].i \/ (j = pc'[o].i /\ pc'[o].at = "each"))
          BY <1>1, <2>5 DEF ToCome
        <5>2. ~(p > p)
          BY <2>3 DEF Frames
        <5> QED BY <2>4, <3>2, <5>1, <5>2
      <4>5. \E h \in DOMAIN w : h > i /\ workers'[o][q][j] = w[h]
        <5>1. CASE j = i
          <6>1. Len(w) \in DOMAIN w /\ Len(w) > i
            BY <2>4, <4>2, <4>3, <5>1
          <6> QED BY <4>2, <5>1, <6>1
        <5>2. CASE j # i
          <6>1. j \in DOMAIN w
            BY <4>2, <4>3
          <6> QED BY <4>2, <4>4, <5>2, <6>1
        <5> QED BY <5>1, <5>2
      <4>6. PICK h \in DOMAIN workers[o][p] : h > i /\ workers'[o][q][j] = workers[o][p][h]
        BY <4>5
      <4>7. ToCome(o, p, h)
        BY <4>6 DEF ToCome
      <4>8. Fresh(workers[o][p][h])
        BY <1>1, <2>0, <4>6, <4>7
      <4> QED BY <1>1, <1>3, <4>6, <4>8 DEF Fresh
    <3> QED BY <3>1, <3>2
  <2> QED BY <1>1, <2>2, <2>4, <2>5 DEF FreshAt
<1>5. ASSUME NEW z \in Nodes(graph) \cap alive', z # o PROVE FreshAt(z)'
  <2>1. z \in Parts(graph) /\ z \in alive /\ z \notin gone
    BY <1>1, KindsDiffer
  <2>2. pc'[z] = pc[z] /\ FreshAt(z) /\ workers'[z] = workers[z]
    BY <1>1, <1>2, <1>5, <2>1 DEF FreshInv
  <2> QED BY <1>1, <2>2, FreshOther
<1> QED
  BY <1>1, <1>4, <1>5 DEF FreshInv

\* A push meets a refusal on its own side only, which is behind it.
LEMMA FreshPush ==
  ASSUME GraphOK, StackInv, FreshInv, UNCHANGED <<graph, alive, workers>>,
         NEW x \in Nodes(graph) \cap alive, pc[x].at \in {"round", "push", "block", "wake"},
         NEW s \in Sides(x), s = pc[x].side, NEW k \in DOMAIN graph.outs[x][s], NEW m \in Message,
         \/ NextOnSide(x, s, k, m)
         \/ \E at \in {"push", "wake", "block"} : pc' = Goto(x, Frame(at, s, k, TRUE, <<m>>)),
         \A o \in Outlets(graph) : met'[o] => met[o] \/ o = <<x, s, k>>
  PROVE  FreshInv'
<1>0. x \in Parts(graph) /\ s \in Nat /\ \A o \in Outlets(graph) : o[1] = x => o[2] \in Nat
  BY KindsDiffer, OutletShape
<1>1. FreshFrom(x, s + 1)'
  <2>1. FreshFrom(x, s + 1)
    <3>1. FreshAt(x)
      BY DEF FreshInv
    <3>2. CASE pc[x].at = "round"
      <4>1. FreshFrom(x, s) \/ FreshFrom(x, 1)
        BY <3>1, <3>2 DEF FreshAt
      <4>2. \A o \in Outlets(graph) : o[1] = x /\ o[2] >= s + 1 => o[2] >= s /\ o[2] >= 1
        BY <1>0
      <4> QED BY <4>1, <4>2 DEF FreshFrom
    <3>3. CASE pc[x].at # "round"
      BY <3>1, <3>3 DEF FreshAt
    <3> QED BY <3>2, <3>3
  <2>2. \A o \in Outlets(graph) : o[1] = x /\ o[2] >= s + 1 => o # <<x, s, k>>
    BY <1>0
  <2> QED BY <2>1, <2>2 DEF FreshFrom, AtHome, To, Bound, Home
<1>2. ASSUME NEW h \in DOMAIN graph.outs[x][s], NEW at \in {"push", "wake", "block"},
             pc' = Goto(x, Frame(at, s, h, TRUE, <<m>>))
      PROVE  FreshInv'
  <2> DEFINE f == Frame(at, s, h, TRUE, <<m>>)
  <2>1. f \in Frames /\ f.at = at /\ f.side = s
    BY PushFrames DEF Frame
  <2>2. pc' = Goto(x, f)
    BY <1>2
  <2> HIDE DEF f
  <2>3. pc'[x] = f
    BY <1>0, <2>1, <2>2, GotoFrames DEF StackInv, FrameTypes
  <2>4. FreshAt(x)'
    BY <1>1, <2>1, <2>3 DEF FreshAt
  <2> QED BY <1>0, <2>1, <2>2, <2>4, FreshGoto
<1>3. CASE s < LastSide(x) /\ pc' = Goto(x, Frame("round", s + 1, 1, TRUE, <<>>))
  <2> DEFINE f == Frame("round", s + 1, 1, TRUE, <<>>)
  <2>1. LastSide(x) \in Nat /\ Sides(x) = 1 .. LastSide(x)
    BY <1>0, OutletShape
  <2>2. s + 1 \in Sides(x) /\ TRUE \in BOOLEAN
    BY <1>3, <2>1
  <2>3. f \in Frames /\ f.at = "round" /\ f.side = s + 1 /\ f.busy
    BY <2>2, RoundFrames DEF Frame
  <2>4. pc' = Goto(x, f)
    BY <1>3
  <2> HIDE DEF f
  <2>5. pc'[x] = f
    BY <1>0, <2>3, <2>4, GotoFrames DEF StackInv, FrameTypes
  <2>6. FreshAt(x)'
    BY <1>1, <2>3, <2>5 DEF FreshAt
  <2> QED BY <1>0, <2>3, <2>4, <2>6, FreshGoto
<1>4. CASE pc' = Return(x)
  BY <1>4, FreshReturn
<1> QED
  BY <1>2, <1>3, <1>4 DEF NextOnSide

\* Frames of a node that waits or looks for input.
LEMMA FreshLook ==
  ASSUME GraphOK, StackInv, FreshInv, UNCHANGED <<graph, alive, workers>>,
         NEW x \in Nodes(graph) \cap alive, pc[x].at \notin {"idle", "call"}, Fresh(x),
         \A o \in Outlets(graph) : met'[o] => met[o],
         NEW f \in Frames, pc' = Goto(x, f),
         \/ f.at \in {"wait", "park"}
         \/ f.at = "input" /\ \A o \in Outlets(graph) : AtHome(o) /\ To(o)[1] = x /\ To(o)[2] < f.i => ~met[o]
         \/ f.at = "each" /\ \A o \in Outlets(graph) : AtHome(o) /\ To(o)[1] = x => ~met[o]
         \/ f.at = "round" /\ f.busy = FALSE
  PROVE  FreshInv'
<1>0. x \in Parts(graph) /\ pc'[x] = f
  BY KindsDiffer, GotoFrames DEF StackInv, FrameTypes
<1>1. \A y, s : FreshFrom(y, s) => FreshFrom(y, s)'
  BY DEF FreshFrom, AtHome, To, Bound, Home
<1>2. Fresh(x)'
  BY <1>1 DEF Fresh
<1>3. FreshAt(x)'
  <2>1. CASE f.at \in {"wait", "park"}
    BY <1>0, <1>2, <2>1 DEF FreshAt
  <2>2. CASE f.at = "input" /\ \A o \in Outlets(graph) : AtHome(o) /\ To(o)[1] = x /\ To(o)[2] < f.i => ~met[o]
    <3>1. \A o \in Outlets(graph) : AtHome(o) /\ To(o)[1] = x /\ To(o)[2] < f.i => ~met'[o]
      BY <2>2
    <3>2. (\A o \in Outlets(graph) : AtHome(o) /\ To(o)[1] = x /\ To(o)[2] < pc[x].i => ~met[o])'
      BY <1>0, <3>1 DEF AtHome, To, Bound, Home
    <3> QED BY <1>0, <1>2, <2>2, <3>2 DEF FreshAt
  <2>3. CASE f.at = "each" /\ \A o \in Outlets(graph) : AtHome(o) /\ To(o)[1] = x => ~met[o]
    <3>1. ASSUME NEW p \in DOMAIN workers[x], NEW j \in DOMAIN workers[x][p]
          PROVE  Fresh(workers[x][p][j])
      <4>1. graph.owner[workers[x][p][j]] = x
        BY <1>0, Listed DEF StackInv
      <4>2. \A o \in Outlets(graph) : o[1] = workers[x][p][j] /\ AtHome(o) => To(o)[1] = x
        BY <4>1, HomeIsOwner
      <4> QED BY <2>3, <4>2 DEF Fresh, FreshFrom
    <3>2. ASSUME NEW p \in DOMAIN workers'[x], NEW j \in DOMAIN workers'[x][p]
          PROVE  Fresh(workers[x][p][j])'
      BY <1>1, <3>1 DEF Fresh
    <3> QED BY <1>0, <1>2, <2>3, <3>2 DEF FreshAt
  <2>4. CASE f.at = "round" /\ f.busy = FALSE
    BY <1>0, <1>2, <2>4 DEF FreshAt, Fresh
  <2> QED BY <2>1, <2>2, <2>3, <2>4
<1> QED
  BY <1>0, <1>3, FreshGoto

\* An input found empty is one that no bounded edge at home was refused by.
LEMMA EmptyIsUnmet ==
  ASSUME GraphOK, MetInv, NEW x \in alive, NEW p, buf[<<x, p>>] = <<>>
  PROVE  \A o \in Outlets(graph) : AtHome(o) /\ To(o)[1] = x /\ To(o)[2] = p => ~met[o]
<1> SUFFICES ASSUME NEW o \in Outlets(graph), AtHome(o), To(o)[1] = x, To(o)[2] = p, met[o]
             PROVE  FALSE
  OBVIOUS
<1>1. To(o) = <<x, p>> /\ Bound(To(o)) \in Nat
  BY OutletShape
<1>2. ~HasRoom(To(o)) /\ Len(buf[To(o)]) = 0
  BY <1>1 DEF MetInv
<1> QED
  BY <1>1, <1>2 DEF HasRoom, AtHome

LEMMA FreshNode ==
  ASSUME GraphOK, Types, StackInv, MetInv, FreshInv, NEW x \in Nodes(graph) \cap alive, NodeStep(x)
  PROVE  FreshInv'
<1>0. x \in Parts(graph) /\ pc[x] \in Frames /\ FrameOK(x, pc[x]) /\ FreshAt(x)
  BY KindsDiffer DEF StackInv, FrameTypes, FreshInv
<1>1. CASE Resumes(x) \/ Delivers(x) \/ RotateOn(x) \/ Unblock(x)
  <2>1. PICK s, k, m : Pushing(x, s, k, m)
    BY <1>1, NodePushes
  <2>2. /\ UNCHANGED <<graph, alive, workers>> /\ pc[x].at \in {"round", "push", "block", "wake"}
        /\ s \in Sides(x) /\ s = pc[x].side /\ k \in DOMAIN graph.outs[x][s] /\ m \in Message
    BY <2>1 DEF Pushing
  <2>3. \/ NextOnSide(x, s, k, m)
        \/ \E at \in {"push", "wake", "block"} : pc' = Goto(x, Frame(at, s, k, TRUE, <<m>>))
    <3>1. CASE Rotate(x, s, k, m)
      BY <2>2, <3>1, RotateGoes
    <3>2. CASE ~Rotate(x, s, k, m)
      BY <2>1, <3>2 DEF Pushing
    <3> QED BY <3>1, <3>2
  <2>4. \A o \in Outlets(graph) : met'[o] => met[o] \/ o = <<x, s, k>>
    <3>1. met' = met \/ met' = [met EXCEPT ![<<x, s, k>>] = TRUE]
      BY <2>1 DEF Pushing, Rotate, Push, edgeVars
    <3> QED BY <3>1 DEF Types, EdgeTypes
  <2> QED BY ONLY <2>2, <2>3, <2>4, GraphOK, StackInv, FreshInv, x \in Nodes(graph) \cap alive, FreshPush
<1>2. CASE PushClosed(x) \/ InputsClosed(x) \/ AllExhausted(x) \/ (WaitFront(x) /\ Ends(x))
  <2>1. Ends(x)
    BY <1>2 DEF PushClosed, InputsClosed, AllExhausted
  <2>2. pc[x].at # "idle"
    BY <1>2 DEF PushClosed, Tried, InputsClosed, AllExhausted, WaitFront, Running
  <2> QED BY <2>1, <2>2, FreshEnds
<1>3. CASE WakeTarget(x)
  <2> DEFINE s == pc[x].side
             k == pc[x].i
             m == pc[x].msg[1]
  <2>1. s \in Sides(x) /\ s = pc[x].side /\ k \in DOMAIN graph.outs[x][s] /\ Len(pc[x].msg) = 1
        /\ pc[x].at = "wake"
    BY <1>0, <1>3 DEF FrameOK, WakeTarget, Running
  <2>2. pc[x].msg \in Seq(Message)
    BY <1>0 DEF Frames
  <2>3. m \in Message
    BY <2>1, <2>2
  <2>4. pc' = Onward(x, s, k, m) /\ UNCHANGED <<graph, alive, workers>> /\ met' = met
    BY <1>3, KindsDiffer DEF WakeTarget, edgeVars
  <2>5. NextOnSide(x, s, k, m)
    BY <2>1, <2>4, OnwardGoes
  <2>6. \A o \in Outlets(graph) : met'[o] => met[o] \/ o = <<x, s, k>>
    BY <2>4
  <2> HIDE DEF s, k, m
  <2> QED BY ONLY <2>1, <2>3, <2>4, <2>5, <2>6, GraphOK, StackInv, FreshInv, x \in Nodes(graph) \cap alive, FreshPush
<1>4. CASE SideIdle(x)
  <2> DEFINE s == pc[x].side
  <2>1. pc[x].at = "round" /\ s \in Sides(x) /\ UNCHANGED <<graph, alive, workers>> /\ met' = met
        /\ pc' = IF s < LastSide(x) THEN Goto(x, [pc[x] EXCEPT !.side = s + 1])
                 ELSE IF pc[x].busy THEN Return(x)
                 ELSE Goto(x, Frame("input", 1, 1, FALSE, <<>>))
    BY <1>0, <1>4 DEF FrameOK, SideIdle, Running, edgeVars
  <2>2. CASE s < LastSide(x)
    <3>0. s \in Nat \ {0}
      BY <1>0 DEF Frames
    <3> DEFINE f == [pc[x] EXCEPT !.side = s + 1]
    <3>3. f \in Frames /\ f.at = "round" /\ f.side = s + 1 /\ f.busy = pc[x].busy
      BY <1>0, <2>1, <3>0 DEF Frames
    <3>4. pc' = Goto(x, f)
      BY <2>1, <2>2
    <3> HIDE DEF f
    <3>5. pc'[x] = f
      BY <1>0, <3>3, <3>4, GotoFrames DEF StackInv, FrameTypes
    <3>6. FreshFrom(x, IF f.busy THEN f.side ELSE 1)
      <4>1. FreshFrom(x, IF pc[x].busy THEN s ELSE 1)
        BY <1>0, <2>1 DEF FreshAt
      <4>2. \A o \in Outlets(graph) : o[1] = x /\ o[2] >= s + 1 => o[2] >= s
        BY <3>0, OutletShape
      <4> QED BY <3>3, <4>1, <4>2 DEF FreshFrom
    <3>7. FreshAt(x)'
      <4>1. (pc[x].at = "round")' /\ pc'[x].busy = f.busy /\ pc'[x].side = f.side
        BY <3>3, <3>5
      <4>2. \A o \in Outlets(graph) : o[1] = x /\ o[2] >= (IF f.busy THEN f.side ELSE 1) /\ AtHome(o) => ~met'[o]
        BY <2>1, <3>6 DEF FreshFrom
      <4>3. FreshFrom(x, IF pc[x].busy THEN pc[x].side ELSE 1)'
        BY <2>1, <4>1, <4>2 DEF FreshFrom, AtHome, To, Bound, Home
      <4> QED BY <4>1, <4>3 DEF FreshAt
    <3> QED BY <1>0, <2>1, <3>3, <3>4, <3>7, FreshGoto
  <2>3. CASE ~(s < LastSide(x)) /\ pc[x].busy
    <3>1. pc' = Return(x)
      BY <2>1, <2>3
    <3> QED BY <2>1, <3>1, FreshReturn
  <2>4. CASE ~(s < LastSide(x)) /\ ~pc[x].busy
    <3> DEFINE f == Frame("input", 1, 1, FALSE, <<>>)
    <3>1. pc' = Goto(x, f)
      BY <2>1, <2>4
    <3>2. 1 \in 1 .. NumInputs(x) /\ FALSE \in BOOLEAN
      BY OutletShape
    <3>3. f \in Frames /\ f.at = "input" /\ f.i = 1
      BY <3>2, InputFrames DEF Frame
    <3>4. \A o \in Outlets(graph) : ~(To(o)[2] < 1)
      BY OutletShape
    <3>5. Fresh(x)
      BY <1>0, <2>1, <2>4 DEF FreshAt, Fresh
    <3> HIDE DEF f
    <3>6. \A o \in Outlets(graph) : AtHome(o) /\ To(o)[1] = x /\ To(o)[2] < f.i => ~met[o]
      BY <3>3, <3>4
    <3> QED BY <2>1, <3>1, <3>3, <3>5, <3>6, FreshLook
  <2> QED BY <2>2, <2>3, <2>4
<1>5. CASE Takes(x)
  <2>1. pc[x].at = "input" /\ pc' = Goto(x, Entered) /\ UNCHANGED <<graph, alive, workers>>
        /\ Pop(<<x, pc[x].i>>)
    BY <1>5 DEF Takes, Running
  <2>2. \A o \in Outlets(graph) : met'[o] => met[o]
    BY <2>1 DEF Pop, Types, EdgeTypes
  <2>3. Fresh(x)
    BY <1>0, <2>1 DEF FreshAt
  <2>4. Entered.busy = FALSE
    BY DEF Entered, Frame
  <2> QED BY <2>1, <2>2, <2>3, <2>4, IdleFrames, FreshLook
<1>6. CASE FindsEmpty(x)
  <2> DEFINE open == pc[x].busy \/ ~Exhausted(<<x, pc[x].i>>)
             orphan == \A p \in DOMAIN workers[x] : workers[x][p] = <<>>
  <2>1. /\ pc' = Goto(x, IF pc[x].i < NumInputs(x) THEN Frame("input", 1, pc[x].i + 1, open, <<>>)
                          ELSE Frame(IF orphan THEN "wait" ELSE "each", 1, 1, FALSE, <<>>))
        /\ pc[x].at = "input" /\ UNCHANGED <<graph, alive, workers>> /\ met' = met
        /\ buf[<<x, pc[x].i>>] = <<>>
    BY <1>6 DEF FindsEmpty, Running, edgeVars
  <2>2. Fresh(x) /\ \A o \in Outlets(graph) : AtHome(o) /\ To(o)[1] = x /\ To(o)[2] < pc[x].i => ~met[o]
    BY <1>0, <2>1 DEF FreshAt
  <2>3. \A o \in Outlets(graph) : AtHome(o) /\ To(o)[1] = x /\ To(o)[2] = pc[x].i => ~met[o]
    BY <2>1, EmptyIsUnmet
  <2>4. /\ pc[x].i \in Nat \ {0} /\ NumInputs(x) \in Nat
        /\ \A o \in Outlets(graph) : To(o)[1] = x => To(o)[2] \in 1 .. NumInputs(x)
    BY <1>0, OutletShape DEF Frames
  <2>5. open \in BOOLEAN /\ <<>> \in Seq(Message) /\ 1 \in Nat \ {0} /\ FALSE \in BOOLEAN
        /\ {"input", "wait", "each"} \subseteq Ats
    BY DEF Ats
  <2> HIDE DEF open, orphan
  <2>6. CASE pc[x].i < NumInputs(x)
    <3> DEFINE f == Frame("input", 1, pc[x].i + 1, open, <<>>)
    <3>1. f \in Frames /\ f.at = "input" /\ f.i = pc[x].i + 1
      <4>1. pc[x].i + 1 \in Nat \ {0} /\ "input" \in Ats
        BY <2>4, <2>5
      <4>2. f \in Frames
        BY <2>5, <4>1, SomeFrames
      <4> QED BY <4>2 DEF Frame
    <3>2. pc' = Goto(x, f)
      BY <2>1, <2>6
    <3> HIDE DEF f
    <3>3. \A o \in Outlets(graph) : AtHome(o) /\ To(o)[1] = x /\ To(o)[2] < f.i => ~met[o]
      <4>1. \A o \in Outlets(graph) : To(o)[1] = x /\ To(o)[2] < pc[x].i + 1
                                        => To(o)[2] < pc[x].i \/ To(o)[2] = pc[x].i
        BY <2>4
      <4> QED BY <2>2, <2>3, <3>1, <4>1
    <3> QED BY <2>1, <2>2, <3>1, <3>2, <3>3, FreshLook
  <2>7. CASE ~(pc[x].i < NumInputs(x))
    <3> DEFINE f == Frame(IF orphan THEN "wait" ELSE "each", 1, 1, FALSE, <<>>)
    <3>1. f \in Frames /\ f.at \in {"wait", "each"}
      <4>1. (IF orphan THEN "wait" ELSE "each") \in Ats
        BY <2>5
      <4>2. f \in Frames
        BY <2>5, <4>1, SomeFrames
      <4> QED BY <4>2 DEF Frame
    <3>2. pc' = Goto(x, f)
      BY <2>1, <2>7
    <3> HIDE DEF f
    <3>3. \A o \in Outlets(graph) : AtHome(o) /\ To(o)[1] = x => ~met[o]
      <4>1. \A o \in Outlets(graph) : To(o)[1] = x => To(o)[2] < pc[x].i \/ To(o)[2] = pc[x].i
        BY <2>4, <2>7
      <4> QED BY <2>2, <2>3, <4>1
    <3> QED BY <2>1, <2>2, <3>1, <3>2, <3>3, FreshLook
  <2> QED BY <2>6, <2>7
<1>7. CASE LooksAt(x) \/ Parks(x) \/ (WaitFront(x) /\ ~Ends(x))
  <2> DEFINE idle == pc[x].busy \/ ~Exhausted(<<x, pc[x].i>>)
  <2>1. /\ pc[x].at \in {"wait", "park"} /\ UNCHANGED <<graph, alive, workers>> /\ met' = met
        /\ \/ pc' = Goto(x, Frame("input", 1, 1, FALSE, <<>>))
           \/ pc' = Goto(x, Frame("wait", 1, pc[x].i + 1, idle, <<>>))
           \/ pc' = Goto(x, Frame("wait", 1, 1, FALSE, <<>>))
           \/ pc' = Goto(x, Frame("park", 1, 1, FALSE, <<>>))
    BY <1>7 DEF LooksAt, Parks, WaitFront, Running, edgeVars
  <2>2. Fresh(x)
    BY <1>0, <2>1 DEF FreshAt
  <2>3. idle \in BOOLEAN /\ <<>> \in Seq(Message) /\ 1 \in Nat \ {0} /\ FALSE \in BOOLEAN
        /\ {"input", "wait", "park"} \subseteq Ats /\ pc[x].i + 1 \in Nat \ {0}
    BY <1>0 DEF Ats, Frames
  <2> HIDE DEF idle
  <2>4. PICK f \in Frames : /\ pc' = Goto(x, f)
                            /\ f.at \in {"wait", "park"} \/ (f.at = "input" /\ f.i = 1)
    <3>1. \A at \in {"input", "wait", "park"} : at \in Ats
      BY <2>3
    <3>2. ASSUME NEW at \in {"input", "wait", "park"}
          PROVE  Frame(at, 1, 1, FALSE, <<>>) \in Frames /\ Frame(at, 1, 1, FALSE, <<>>).at = at
                 /\ Frame(at, 1, 1, FALSE, <<>>).i = 1
      <4>1. at \in Ats
        BY <3>1
      <4>2. Frame(at, 1, 1, FALSE, <<>>) \in Frames
        BY <2>3, <4>1, SomeFrames
      <4> QED BY <4>2 DEF Frame
    <3>3. Frame("wait", 1, pc[x].i + 1, idle, <<>>) \in Frames
          /\ Frame("wait", 1, pc[x].i + 1, idle, <<>>).at = "wait"
      <4>1. "wait" \in Ats
        BY <3>1
      <4>2. Frame("wait", 1, pc[x].i + 1, idle, <<>>) \in Frames
        BY <2>3, <4>1, SomeFrames
      <4> QED BY <4>2 DEF Frame
    <3> QED BY <2>1, <3>2, <3>3
  <2>5. \A o \in Outlets(graph) : ~(To(o)[2] < 1)
    BY OutletShape
  <2> QED BY <2>1, <2>2, <2>4, <2>5, FreshLook
<1>8. CASE EachCalls(x)
  <2> DEFINE c == workers[x][pc[x].side][pc[x].i]
  <2>1. /\ UNCHANGED <<graph, alive, workers, met>>
        /\ c \in Nodes(graph) /\ c \in alive /\ graph.owner[c] = x /\ c # x
        /\ pc[x].at = "each"
        /\ pc[x].side \in DOMAIN workers[x] /\ pc[x].i \in DOMAIN workers[x][pc[x].side]
        /\ pc' = [pc EXCEPT ![x].at = "call", ![c] = Entered]
    BY <1>0, <1>8, EachCallsStack DEF edgeVars
  <2> HIDE DEF c
  <2>2. c = workers[x][pc[x].side][pc[x].i]
    BY DEF c
  <2> QED BY <1>0, <2>1, <2>2, FreshCall
<1>9. CASE EachEnds(x)
  BY <1>0, <1>9, FreshEachEnds
<1> QED
  BY <1>1, <1>2, <1>3, <1>4, <1>5, <1>6, <1>7, <1>8, <1>9 DEF NodeStep

LEMMA FreshThread ==
  ASSUME GraphOK, Types, StackInv, FreshInv, NEW t \in Threads(graph) \cap alive,
         \/ EachCalls(t) \/ EachEnds(t) \/ ThreadEnds(t) \/ IoWorks(t) \/ IoReads(t)
         \/ IoPushes(t) \/ IoDrops(t)
  PROVE  FreshInv'
<1>0. t \in Parts(graph) /\ t \notin Nodes(graph) /\ pc \in [Parts(graph) -> Frames]
      /\ \A y \in Nodes(graph) : y \in Parts(graph) /\ y # t
  BY ThreadRoots, KindsDiffer DEF StackInv, FrameTypes
<1>1. CASE EachCalls(t)
  <2> DEFINE c == workers[t][pc[t].side][pc[t].i]
  <2>1. /\ UNCHANGED <<graph, alive, workers, met>>
        /\ c \in Nodes(graph) /\ c \in alive /\ graph.owner[c] = t /\ c # t
        /\ pc[t].at = "each"
        /\ pc[t].side \in DOMAIN workers[t] /\ pc[t].i \in DOMAIN workers[t][pc[t].side]
        /\ pc' = [pc EXCEPT ![t].at = "call", ![c] = Entered]
    BY <1>0, <1>1, EachCallsStack DEF edgeVars
  <2> HIDE DEF c
  <2>2. c = workers[t][pc[t].side][pc[t].i]
    BY DEF c
  <2> QED BY <1>0, <2>1, <2>2, FreshCall
<1>2. CASE EachEnds(t)
  BY <1>0, <1>2, FreshEachEnds
<1>3. CASE IoWorks(t)
  <2> DEFINE c == workers[t][1][1]
  <2>1. /\ UNCHANGED <<graph, alive, workers, met>>
        /\ c \in Nodes(graph) /\ c \in alive /\ graph.owner[c] = t /\ c # t
        /\ pc[t].at = "each" /\ graph.kind[t] = "io"
        /\ pc' = [pc EXCEPT ![t].at = "call", ![c] = Entered]
    BY <1>3, IoWorksStack DEF edgeVars, IoWorks
  <2> HIDE DEF c
  <2> QED BY <1>0, <2>1, FreshCall
<1>4. CASE ThreadEnds(t)
  <2>1. /\ UNCHANGED <<graph, workers, pc, met>> /\ alive' \subseteq alive
    BY <1>4 DEF ThreadEnds, Drop
  <2> QED BY <2>1, FreshStays
<1>5. CASE IoReads(t)
  <2>1. /\ UNCHANGED <<graph, alive, workers>> /\ Pop(<<t, pc[t].i>>)
        /\ pc' = Goto(t, Idle) \/ pc' = pc
    BY <1>5 DEF IoReads
  <2>2. \A o \in Outlets(graph) : met'[o] => met[o]
    BY <2>1 DEF Pop, Types, EdgeTypes
  <2>3. \A y \in Nodes(graph) : pc'[y] = pc[y]
    BY <1>0, <2>1 DEF Goto
  <2> QED BY <2>1, <2>2, <2>3, FreshStays
<1>6. CASE IoPushes(t)
  <2>1. /\ UNCHANGED <<graph, alive, workers>> /\ met' = met
        /\ \/ \E f : pc' = Goto(t, f)
           \/ pc' = pc
    <3>1. /\ UNCHANGED <<graph, alive, workers>>
          /\ \/ \E f : pc' = Goto(t, f)
             \/ pc' = pc
      BY <1>6 DEF IoPushes
    <3>2. \E o, m : Push(o, m) /\ Outcome(o, m) = "pushed"
      BY <1>6 DEF IoPushes
    <3>3. met' = met
      BY <3>2 DEF Push
    <3> QED BY <3>1, <3>3
  <2>2. \A y \in Nodes(graph) : pc'[y] = pc[y]
    BY <1>0, <2>1 DEF Goto
  <2> QED BY <2>1, <2>2, FreshStays
<1>7. CASE IoDrops(t)
  <2>1. /\ UNCHANGED <<graph, workers, pc, met>> /\ alive' \subseteq alive
    BY <1>7 DEF IoDrops, Drop
  <2> QED BY <2>1, FreshStays
<1> QED
  BY <1>1, <1>2, <1>3, <1>4, <1>5, <1>6, <1>7

LEMMA FreshOutside ==
  ASSUME GraphOK, Types, StackInv, FreshInv,
         \/ \E x \in Nodes(graph) \cap alive : Fails(x)
         \/ \E w \in Writers(graph) \cap alive : WakeTarget(w) \/ WriterLeaves(w) \/ Writes(w)
         \/ \E r \in Tees(graph) \cap alive : TeeLeaves(r)
  PROVE  FreshInv'
<1>0. pc \in [Parts(graph) -> Frames] /\ \A y \in Nodes(graph) : y \in Parts(graph)
  BY KindsDiffer DEF StackInv, FrameTypes
<1>1. ASSUME NEW x \in Nodes(graph), Fails(x) PROVE FreshInv'
  <2>1. /\ UNCHANGED <<graph, workers, met>> /\ alive' = alive \ graph.tree[Home(x)]
        /\ pc' = [y \in DOMAIN pc |-> IF y \in graph.tree[Home(x)] THEN Idle ELSE pc[y]]
    BY <1>1 DEF Fails, Drop
  <2>2. \A y \in Nodes(graph) \cap alive' : pc'[y] = pc[y]
    BY <1>0, <2>1
  <2> QED BY <2>1, <2>2, FreshStays
<1>2. ASSUME NEW w \in Writers(graph) \cup Tees(graph), WriterLeaves(w) \/ TeeLeaves(w) PROVE FreshInv'
  <2>1. UNCHANGED <<graph, workers, pc, met>> /\ alive' \subseteq alive
    BY <1>2 DEF WriterLeaves, TeeLeaves, Drop
  <2> QED BY <2>1, FreshStays
<1>3. ASSUME NEW w \in Writers(graph), WakeTarget(w) \/ Writes(w) PROVE FreshInv'
  <2>1. w \in Parts(graph) /\ w \notin Nodes(graph) /\ graph.kind[w] = "writer"
    BY KindsDiffer
  <2>2. /\ UNCHANGED <<graph, alive, workers>> /\ met' = met
        /\ \/ \E f : pc' = Goto(w, f)
           \/ pc' = pc
    BY <1>3, <2>1 DEF WakeTarget, Writes, Push, edgeVars
  <2>3. \A y \in Nodes(graph) : pc'[y] = pc[y]
    BY <1>0, <2>1, <2>2 DEF Goto
  <2> QED BY <2>2, <2>3, FreshStays
<1> QED
  BY <1>1, <1>2, <1>3

LEMMA FreshNext ==
  ASSUME Types, StackInv, MetInv, FreshInv, Next
  PROVE  FreshInv'
<1>1. GraphOK /\ alive \subseteq Parts(graph)
  BY GraphIsOK DEF StackInv, GraphTypes
<1> QED
  BY <1>1, Steps, FreshNode, FreshThread, FreshOutside

\* A node is in a blocking push only from the step that found it Stuck on.
LEMMA BlocksWhenStuck ==
  ASSUME GraphOK, Types, StackInv, Next, NEW z \in Nodes(graph), Running(z, "block")'
  PROVE  \/ z \in alive /\ pc'[z] = pc[z]
         \/ /\ z \in alive /\ pc[z].at = "round"
            /\ \E k, m : /\ Outcome(<<z, pc[z].side, k>>, m) = "stuck" /\ k \in DOMAIN graph.outs[z][pc[z].side]
                         /\ pc[z].side \in Sides(z)
                         /\ pc'[z].side = pc[z].side /\ pc'[z].i = k
<1>0. /\ z \in Parts(graph) /\ z \in alive' /\ pc'[z].at = "block" /\ pc \in [Parts(graph) -> Frames]
      /\ alive \subseteq Parts(graph) /\ graph' = graph
  BY KindsDiffer, SameGraph DEF Running, StackInv, FrameTypes, GraphTypes
<1>1. \A y, f : y \in Parts(graph) /\ pc' = Goto(y, f) => pc'[y] = f /\ (z # y => pc'[z] = pc[z])
  BY <1>0 DEF Goto
<1>2. ASSUME NEW y \in Nodes(graph) \cap alive, pc' = Return(y), pc[y].at # "idle"
      PROVE  pc'[z] = pc[z]
  <2>1. pc'[y] = Idle /\ pc'[graph.owner[y]].at = "each"
        /\ (z # y /\ z # graph.owner[y] => pc'[z] = pc[z])
    BY <1>0, <1>2, ReturnFrames
  <2> QED BY <1>0, <2>1, IdleFrames
<1>3. ASSUME NEW y \in Nodes(graph) \cap alive, Ends(y), pc[y].at # "idle"
      PROVE  z \in alive /\ pc'[z] = pc[z]
  <2> DEFINE o == graph.owner[y]
  <2>1. /\ alive' = alive \ EndsGone(y)
        /\ (z \notin EndsGone(y) /\ z # o => pc'[z] = pc[z])
        /\ o \notin EndsGone(y) => pc'[o] = [pc[o] EXCEPT !.at = "each"]
        /\ o \in Parts(graph)
    BY <1>0, <1>3, EndsShape
  <2>2. pc[o] \in Frames
    BY <1>0, <2>1
  <2>3. o \notin EndsGone(y) => pc'[o].at = "each"
    BY <2>1, <2>2 DEF Frames
  <2> QED BY <1>0, <2>1, <2>3
<1>4. ASSUME NEW y \in Parts(graph), NEW c \in Nodes(graph), c # y, alive' = alive,
             pc' = [pc EXCEPT ![y].at = "call", ![c] = Entered]
      PROVE  z \in alive /\ pc'[z] = pc[z]
  <2>1. c \in Parts(graph)
    BY KindsDiffer
  <2>2. pc'[c] = Entered /\ pc'[y] = [pc[y] EXCEPT !.at = "call"] /\ (z # y /\ z # c => pc'[z] = pc[z])
    BY <1>0, <1>4, <2>1
  <2>3. pc[y] \in Frames
    BY <1>0
  <2>4. pc'[c].at = "round" /\ pc'[y].at = "call"
    BY <2>2, <2>3, IdleFrames DEF Frames
  <2> QED BY <1>0, <1>4, <2>2, <2>4
<1>5. ASSUME NEW x \in Nodes(graph) \cap alive, NEW s \in Sides(x), NEW k, NEW m, NextOnSide(x, s, k, m),
             pc[x].at # "idle", alive' = alive
      PROVE  z \in alive /\ pc'[z] = pc[z]
  <2>0. x \in Parts(graph)
    BY KindsDiffer
  <2>1. CASE pc' = Return(x)
    BY <1>0, <1>2, <1>5, <2>1
  <2>2. CASE pc' # Return(x)
    <3>1. PICK f : pc' = Goto(x, f) /\ f.at # "block"
      BY <1>5, <2>2 DEF NextOnSide, Frame
    <3> QED BY <1>0, <1>1, <1>5, <2>0, <3>1
  <2> QED BY <2>1, <2>2
<1>6. ASSUME NEW x \in Nodes(graph) \cap alive, NodeStep(x)
      PROVE  \/ z \in alive /\ pc'[z] = pc[z]
             \/ /\ z \in alive /\ pc[z].at = "round"
                /\ \E k, m : /\ Outcome(<<z, pc[z].side, k>>, m) = "stuck"
                             /\ k \in DOMAIN graph.outs[z][pc[z].side] /\ pc[z].side \in Sides(z)
                             /\ pc'[z].side = pc[z].side /\ pc'[z].i = k
  <2>0. x \in Parts(graph) /\ FrameOK(x, pc[x]) /\ pc[x] \in Frames
    BY KindsDiffer DEF StackInv, FrameTypes
  <2>1. CASE Resumes(x) \/ Delivers(x) \/ RotateOn(x) \/ Unblock(x)
    <3>1. PICK s, k, m : Pushing(x, s, k, m)
      BY <2>1, NodePushes
    <3>2. s = pc[x].side /\ s \in Sides(x) /\ k \in DOMAIN graph.outs[x][s] /\ alive' = alive
          /\ pc[x].at \in {"round", "push", "block"}
      BY <3>1 DEF Pushing
    <3>3. CASE Rotate(x, s, k, m)
      <4>1. CASE NextOnSide(x, s, k, m)
        BY <1>5, <3>2, <4>1
      <4>2. CASE pc' = Goto(x, Frame("wake", s, k, TRUE, <<m>>))
        <5> DEFINE f == Frame("wake", s, k, TRUE, <<m>>)
        <5>1. f.at = "wake"
          BY DEF Frame
        <5>2. pc' = Goto(x, f)
          BY <4>2
        <5> HIDE DEF f
        <5> QED BY <1>0, <1>1, <2>0, <3>2, <5>1, <5>2
      <4> QED BY <3>2, <3>3, <4>1, <4>2, RotateGoes
    <3>4. CASE ~Rotate(x, s, k, m)
      <4>1. /\ pc[x].at = "round" /\ Outcome(<<x, s, k>>, m) = "stuck"
            /\ pc' = Goto(x, Frame("block", s, k, TRUE, <<m>>))
        BY <3>1, <3>4 DEF Pushing
      <4>2. CASE z = x
        <5>1. pc'[z].side = s /\ pc'[z].i = k
          <6> DEFINE f == Frame("block", s, k, TRUE, <<m>>)
          <6>1. f.side = s /\ f.i = k
            BY DEF Frame
          <6>2. pc' = Goto(x, f)
            BY <4>1
          <6> HIDE DEF f
          <6> QED BY <1>1, <2>0, <4>2, <6>1, <6>2
        <5> QED BY <3>2, <4>1, <4>2, <5>1
      <4>3. CASE z # x
        BY <1>0, <1>1, <2>0, <3>2, <4>1, <4>3
      <4> QED BY <4>2, <4>3
    <3> QED BY <3>3, <3>4
  <2>2. CASE PushClosed(x) \/ InputsClosed(x) \/ AllExhausted(x) \/ (WaitFront(x) /\ Ends(x))
    <3>1. Ends(x)
      BY <2>2 DEF PushClosed, InputsClosed, AllExhausted
    <3>2. pc[x].at # "idle"
      BY <2>2 DEF PushClosed, Tried, InputsClosed, AllExhausted, WaitFront, Running
    <3> QED BY <1>3, <3>1, <3>2
  <2>3. CASE WakeTarget(x)
    <3>1. /\ pc[x].side \in Sides(x) /\ pc[x].i \in DOMAIN graph.outs[x][pc[x].side] /\ pc[x].at = "wake"
          /\ pc' = Onward(x, pc[x].side, pc[x].i, pc[x].msg[1]) /\ alive' = alive
      BY <2>0, <2>3, KindsDiffer DEF FrameOK, WakeTarget, Running
    <3>2. NextOnSide(x, pc[x].side, pc[x].i, pc[x].msg[1])
      BY <3>1, OnwardGoes
    <3> QED BY <1>5, <3>1, <3>2
  <2>4. CASE SideIdle(x)
    <3>1. /\ pc[x].at = "round" /\ alive' = alive
          /\ pc' = IF pc[x].side < LastSide(x) THEN Goto(x, [pc[x] EXCEPT !.side = pc[x].side + 1])
                   ELSE IF pc[x].busy THEN Return(x)
                   ELSE Goto(x, Frame("input", 1, 1, FALSE, <<>>))
      BY <2>4 DEF SideIdle, Running
    <3>2. [pc[x] EXCEPT !.side = pc[x].side + 1].at = "round"
      BY <2>0, <3>1 DEF Frames
    <3>3. CASE pc' = Return(x)
      BY <1>0, <1>2, <3>1, <3>3
    <3>4. CASE \E f : pc' = Goto(x, f) /\ f.at # "block"
      BY <1>0, <1>1, <2>0, <3>1, <3>4
    <3>5. Frame("input", 1, 1, FALSE, <<>>).at = "input"
      BY DEF Frame
    <3>6. pc' = Return(x) \/ \E f : pc' = Goto(x, f) /\ f.at # "block"
      <4>1. CASE pc[x].side < LastSide(x)
        BY <3>1, <3>2, <4>1
      <4>2. CASE ~(pc[x].side < LastSide(x))
        BY <3>1, <3>5, <4>2
      <4> QED BY <4>1, <4>2
    <3> QED BY <3>3, <3>4, <3>6
  <2>5. CASE Takes(x) \/ FindsEmpty(x) \/ LooksAt(x) \/ Parks(x) \/ (WaitFront(x) /\ ~Ends(x))
    <3>1. alive' = alive /\ \E f : pc' = Goto(x, f) /\ f.at # "block"
      BY <2>5, IdleFrames DEF Takes, FindsEmpty, LooksAt, Parks, WaitFront, Frame
    <3> QED BY <1>0, <1>1, <2>0, <3>1
  <2>6. CASE EachCalls(x)
    <3> DEFINE c == workers[x][pc[x].side][pc[x].i]
    <3>1. /\ alive' = alive /\ c \in Nodes(graph) /\ c # x
          /\ pc' = [pc EXCEPT ![x].at = "call", ![c] = Entered]
      BY <2>0, <2>6, EachCallsStack
    <3> HIDE DEF c
    <3> QED BY <1>4, <2>0, <3>1
  <2>7. CASE EachEnds(x)
    <3>1. alive' = alive /\ \E f : pc' = Goto(x, f) /\ f.at # "block"
      BY <2>7 DEF EachEnds, Frame
    <3> QED BY <1>0, <1>1, <2>0, <3>1
  <2> QED BY <1>6, <2>1, <2>2, <2>3, <2>4, <2>5, <2>6, <2>7 DEF NodeStep
<1>7. ASSUME NEW t \in Threads(graph) \cap alive,
             \/ EachCalls(t) \/ EachEnds(t) \/ ThreadEnds(t) \/ IoWorks(t) \/ IoReads(t)
             \/ IoPushes(t) \/ IoDrops(t)
      PROVE  z \in alive /\ pc'[z] = pc[z]
  <2>0. t \in Parts(graph) /\ t # z
    BY ThreadRoots
  <2>1. CASE EachCalls(t)
    <3> DEFINE c == workers[t][pc[t].side][pc[t].i]
    <3>1. /\ alive' = alive /\ c \in Nodes(graph) /\ c # t
          /\ pc' = [pc EXCEPT ![t].at = "call", ![c] = Entered]
      BY <2>0, <2>1, EachCallsStack
    <3> HIDE DEF c
    <3> QED BY <1>4, <2>0, <3>1
  <2>2. CASE IoWorks(t)
    <3> DEFINE c == workers[t][1][1]
    <3>1. /\ alive' = alive /\ c \in Nodes(graph) /\ c # t
          /\ pc' = [pc EXCEPT ![t].at = "call", ![c] = Entered]
      BY <2>2, IoWorksStack
    <3> HIDE DEF c
    <3> QED BY <1>4, <2>0, <3>1
  <2>3. CASE ~EachCalls(t) /\ ~IoWorks(t)
    <3>1. alive' \subseteq alive /\ (pc' = pc \/ \E f : pc' = Goto(t, f))
      BY <1>7, <2>3 DEF EachEnds, ThreadEnds, IoReads, IoPushes, IoDrops, Drop
    <3> QED BY <1>0, <1>1, <2>0, <3>1
  <2> QED BY <2>1, <2>2, <2>3
<1>8. ASSUME NEW w \in Parts(graph), w \notin Nodes(graph), graph.kind[w] = "writer",
             WakeTarget(w) \/ WriterLeaves(w) \/ Writes(w)
      PROVE  z \in alive /\ pc'[z] = pc[z]
  <2>1. alive' \subseteq alive /\ (pc' = pc \/ \E f : pc' = Goto(w, f))
    BY <1>8 DEF WakeTarget, WriterLeaves, Writes, Drop
  <2> QED BY <1>0, <1>1, <1>8, <2>1
<1>9. ASSUME NEW x, Fails(x) PROVE z \in alive /\ pc'[z] = pc[z]
  <2>1. alive' \subseteq alive /\ pc' = [y \in DOMAIN pc |-> IF y \in graph.tree[Home(x)] THEN Idle ELSE pc[y]]
    BY <1>9 DEF Fails, Drop
  <2>2. pc'[z] = Idle \/ pc'[z] = pc[z]
    BY <1>0, <2>1
  <2> QED BY <1>0, <2>1, <2>2, IdleFrames
<1>10. \A w \in Writers(graph) \cup Tees(graph) : w \in Parts(graph) /\ w \notin Nodes(graph)
  BY KindsDiffer
<1>11. \A w \in Writers(graph) : graph.kind[w] = "writer"
  BY KindsDiffer
<1>12. ASSUME NEW w \in Tees(graph), TeeLeaves(w) PROVE z \in alive /\ pc'[z] = pc[z]
  <2>1. alive' \subseteq alive /\ pc' = pc
    BY <1>12 DEF TeeLeaves, Drop
  <2> QED BY <1>0, <2>1
<1>13. \/ \E x \in Nodes(graph) \cap alive : NodeStep(x)
       \/ \E t \in Threads(graph) \cap alive :
              \/ EachCalls(t) \/ EachEnds(t) \/ ThreadEnds(t) \/ IoWorks(t) \/ IoReads(t)
              \/ IoPushes(t) \/ IoDrops(t)
       \/ \E x \in Nodes(graph) \cap alive : Fails(x)
       \/ \E w \in Writers(graph) \cap alive : WakeTarget(w) \/ WriterLeaves(w) \/ Writes(w)
       \/ \E r \in Tees(graph) \cap alive : TeeLeaves(r)
  BY <1>0, Steps
<1> QED
  BY <1>6, <1>7, <1>8, <1>9, <1>10, <1>11, <1>12, <1>13

LEMMA NeverStuckNext ==
  ASSUME Types, StackInv, MetInv, FreshInv, NeverStuckAtHome, Next
  PROVE  NeverStuckAtHome'
<1>0. GraphOK /\ graph' = graph
  BY GraphIsOK, SameGraph DEF StackInv, GraphTypes
<1> SUFFICES ASSUME NEW x \in Nodes(graph), Running(x, "block")'
             PROVE  (To(<<x, pc[x].side, pc[x].i>>)[1] \notin graph.tree[Home(x)])'
  BY <1>0 DEF NeverStuckAtHome
<1>1. CASE x \in alive /\ pc'[x] = pc[x]
  <2>1. Running(x, "block")
    BY <1>1 DEF Running
  <2>2. To(<<x, pc[x].side, pc[x].i>>)[1] \notin graph.tree[Home(x)]
    BY <2>1 DEF NeverStuckAtHome
  <2> QED BY <1>0, <1>1, <2>2 DEF To, Home
<1>2. CASE /\ x \in alive /\ pc[x].at = "round"
           /\ \E k, m : /\ Outcome(<<x, pc[x].side, k>>, m) = "stuck"
                        /\ k \in DOMAIN graph.outs[x][pc[x].side] /\ pc[x].side \in Sides(x)
                        /\ pc'[x].side = pc[x].side /\ pc'[x].i = k
  <2> DEFINE s == pc[x].side
  <2>1. PICK k, m : /\ Outcome(<<x, s, k>>, m) = "stuck"
                    /\ k \in DOMAIN graph.outs[x][s] /\ s \in Sides(x)
                    /\ pc'[x].side = s /\ pc'[x].i = k
    BY <1>2
  <2> DEFINE o == <<x, s, k>>
  <2>2. x \in Parts(graph) /\ o \in Outlets(graph) /\ o[1] = x /\ o[2] = s /\ s \in Nat /\ s >= 1
    BY <1>0, <2>1, KindsDiffer, OutletShape
  <2>3. met[o] /\ Bound(To(o)) # 0
    BY <2>1 DEF Outcome, HasRoom
  <2>4. ~AtHome(o)
    <3>1. FreshFrom(x, IF pc[x].busy THEN s ELSE 1)
      BY <1>2 DEF FreshInv, FreshAt
    <3>2. o[2] >= (IF pc[x].busy THEN s ELSE 1)
      BY <2>2
    <3> HIDE DEF o
    <3> QED BY <2>2, <2>3, <3>1, <3>2 DEF FreshFrom
  <2>5. To(o)[1] \notin graph.tree[Home(x)]
    BY <2>2, <2>3, <2>4 DEF AtHome
  <2>6. <<x, pc'[x].side, pc'[x].i>> = o
    BY <2>1
  <2> QED BY <1>0, <2>5, <2>6 DEF To, Home
<1> QED
  BY <1>0, <1>1, <1>2, BlocksWhenStuck

\* A push blocks only on an edge to another thread: a bounded edge to its own
\* thread has room, or has not refused it, whenever the node's turn comes
\* (work_each, MultiEdge::try_push, Fanout::resume).
THEOREM HomeNeverBlocks == Spec => []NeverStuckAtHome
<1> DEFINE I == MetInv /\ FreshInv /\ NeverStuckAtHome
<1>1. Init => I
  <2> SUFFICES ASSUME Init PROVE I
    OBVIOUS
  <2>1. \A o \in Outlets(graph) : met[o] = FALSE
    BY DEF Init
  <2>2. \A x, s : FreshFrom(x, s)
    BY <2>1 DEF FreshFrom
  <2>3. MetInv /\ FreshInv
    BY <2>1, <2>2 DEF MetInv, FreshInv, FreshAt, Fresh
  <2>4. \A x \in Nodes(graph) : pc[x] = Idle
    BY KindsDiffer DEF Init
  <2>5. NeverStuckAtHome
    BY <2>4, IdleFrames DEF NeverStuckAtHome, Running
  <2> QED BY <2>3, <2>5
<1>2. Types /\ StackInv /\ I /\ [Next]_vars => I'
  <2> SUFFICES ASSUME Types, StackInv, MetInv, FreshInv, NeverStuckAtHome, [Next]_vars
               PROVE  MetInv' /\ FreshInv' /\ NeverStuckAtHome'
    OBVIOUS
  <2>1. CASE Next
    <3>1. GraphOK
      BY GraphIsOK DEF StackInv, GraphTypes
    <3> QED BY <2>1, <3>1, MetStep, FreshNext, NeverStuckNext
  <2>2. CASE UNCHANGED vars
    <3>1. UNCHANGED <<graph, alive, buf, met, pc, workers>>
      BY <2>2 DEF vars, edgeVars
    <3>2. MetInv'
      BY <3>1 DEF MetInv, HasRoom, Bound, To
    <3>3. \A x, s : FreshFrom(x, s) => FreshFrom(x, s)'
      BY <3>1 DEF FreshFrom, AtHome, To, Bound, Home
    <3>4. FreshInv'
      <4>1. GraphOK
        BY GraphIsOK DEF StackInv, GraphTypes
      <4> QED BY <3>1, <4>1, FreshStays
    <3>5. NeverStuckAtHome'
      BY <3>1 DEF NeverStuckAtHome, Running, To, Home
    <3> QED BY <3>2, <3>4, <3>5
  <2> QED BY <2>1, <2>2
<1> QED
  BY <1>1, <1>2, TypeSafe, PTL DEF Spec

-----------------------------------------------------------------------------
(* Parents that take turns.                                                 *)

\* The producers of o's input take turns on list p.
Turns(o, p) == Bound(To(o)) # 0 /\ p \in DOMAIN graph.owns[To(o)[1]] /\ TakesTurns(To(o), p)

\* The message that o refused: the fan-out holds it, or it waits in the edge.
Holds(o) == held[o[1]][o[2]] # <<>> /\ held[o[1]][o[2]][1].at = o[3]
Blocks(o) == pc[o[1]].at = "block" /\ pc[o[1]].side = o[2] /\ pc[o[1]].i = o[3]

\* Sides are gone through in order, each with what it holds first.
SidesAt(x) ==
  /\ pc[x].at = "round" /\ ~pc[x].busy => \A s \in Sides(x) : s < pc[x].side => held[x][s] = <<>>
  /\ pc[x].at \in {"push", "wake", "block"} => held[x][pc[x].side] = <<>>
SidesInv == \A x \in Nodes(graph) \cap alive : SidesAt(x)

\* Only who was refused sees others go first.
RefusedInv ==
  \A o \in Outlets(graph) :
    o[1] \in Nodes(graph) \cap alive /\ passedBy[o] # 0 => Holds(o) \/ Blocks(o)

\* Lists only get shorter.
ShrinkInv ==
  \A y \in Parts(graph) : \A p \in DOMAIN workers[y] : Len(workers[y][p]) <= Len(graph.owns[y][p])

\* What c found empty stays so: nobody else runs on its thread.
EmptyInv ==
  \A o \in Outlets(graph) : \A p \in DOMAIN graph.owns[To(o)[1]] :
    LET c == To(o)[1]
    IN  c \in alive /\ pc[c].at = "input" /\ To(o)[2] < pc[c].i /\ Turns(o, p) => buf[To(o)] = <<>>

\* Whether x is past its side s, entry j of list p has its turn, and c its round.
Past(x, s) == pc[x].side > s /\ (pc[x].at \in {"push", "wake", "block"} \/ (pc[x].at = "round" /\ pc[x].busy))
InTurn(c, p, j) == pc[c].at = "call" /\ pc[c].side = p /\ pc[c].i = j
Working(c) == pc[c].at \in {"each", "call"}

\* In this round, entry j of list p will still try o, or has.
DueAt(o, p, j) ==
  LET c == To(o)[1]
  IN  Working(c) /\ (ToCome(c, p, j) \/ (InTurn(c, p, j) /\ ~Past(o[1], o[2])))
HadAt(o, p, j) ==
  LET c == To(o)[1]
  IN  Working(c) /\ pc[c].side = p /\ (j < pc[c].i \/ (InTurn(c, p, j) /\ Past(o[1], o[2])))

\* What entry j of m of a list that once had n may have seen go first, over a
\* bound of b, with l messages there: b for each of those ahead of it no more.
DueBound(b, n, m, j, l, d) ==
  d = 0 \/ IF j > 1 THEN d <= b * (n - j) + l
           ELSE d <= b * (n - 1) /\ (l = 0 \/ d <= b * (n - m - 1) + l)
HadBound(b, n, m, j, d) == d = 0 \/ d <= b * (n - (IF j > 1 THEN j - 1 ELSE m))
NextBound(b, n, j, d) == d = 0 \/ d <= b * (n - j)

TurnAt(o, p, j) ==
  LET i == To(o)
      b == Bound(i)
      n == Len(graph.owns[i[1]][p])
      m == Len(workers[i[1]][p])
      d == passedBy[o]
  IN  /\ DueAt(o, p, j) => DueBound(b, n, m, j, Len(buf[i]), d)
      /\ HadAt(o, p, j) => HadBound(b, n, m, j, d) /\ (Holds(o) => ~HasRoom(i))
      /\ ~DueAt(o, p, j) /\ ~HadAt(o, p, j) => NextBound(b, n, j, d)
TurnInv ==
  \A o \in Outlets(graph) : \A p \in DOMAIN graph.owns[To(o)[1]] :
    o[1] \in alive /\ Turns(o, p) =>
      \A j \in DOMAIN workers[To(o)[1]][p] : workers[To(o)[1]][p][j] = o[1] => TurnAt(o, p, j)

LEMMA Times ==
  ASSUME NEW b \in Nat
  PROVE  /\ \A k \in Int : b * k \in Int /\ b * (k + 1) = b * k + b
         /\ \A k, h \in Int : k <= h => b * k <= b * h
<1>1. \A k \in Int : b * k \in Int /\ b * (k + 1) = b * k + b
  OBVIOUS
<1>2. ASSUME NEW k \in Int, NEW h \in Int, k <= h PROVE b * k <= b * h
  <2>1. h - k \in Nat
    BY <1>2
  <2>2. b * (h - k) >= 0 /\ b * h = b * k + b * (h - k)
    BY <2>1
  <2> QED BY <2>2
<1> QED
  BY <1>1, <1>2

LEMMA DueFits ==
  ASSUME NEW b \in Nat, NEW n \in Nat, NEW m \in Nat, NEW j \in Nat \ {0}, NEW l \in Nat, NEW d \in Nat,
         j <= m, m <= n, l <= b, DueBound(b, n, m, j, l, d)
  PROVE  d <= b * (n - 1)
<1>1. b * (n - 1) \in Int /\ b * (n - 1) >= 0
  BY Times
<1>2. CASE j > 1 /\ d <= b * (n - j) + l
  <2>1. b * ((n - j) + 1) = b * (n - j) + b /\ b * (n - j) \in Int
    BY Times
  <2>2. b * ((n - j) + 1) <= b * (n - 1)
    <3>1. (n - j) + 1 \in Int /\ n - 1 \in Int /\ (n - j) + 1 <= n - 1
      BY <1>2
    <3> QED BY <3>1, Times
  <2> QED BY <1>1, <1>2, <2>1, <2>2
<1> QED
  BY <1>1, <1>2 DEF DueBound

LEMMA HadFits ==
  ASSUME NEW b \in Nat, NEW n \in Nat, NEW m \in Nat, NEW j \in Nat \ {0}, NEW d \in Nat,
         j <= m, m <= n, HadBound(b, n, m, j, d) \/ NextBound(b, n, j, d)
  PROVE  d <= b * (n - 1)
<1>1. \A k \in Nat \ {0} : b * (n - k) \in Int /\ b * (n - k) <= b * (n - 1)
  <2> TAKE k \in Nat \ {0}
  <2>1. n - k \in Int /\ n - 1 \in Int /\ n - k <= n - 1
    OBVIOUS
  <2> QED BY <2>1, Times
<1>2. b * (n - 1) >= 0
  BY Times
<1> DEFINE k == IF j > 1 THEN j - 1 ELSE m
<1>3. k \in Nat \ {0}
  OBVIOUS
<1>4. d = 0 \/ d <= b * (n - k) \/ d <= b * (n - j)
  BY DEF HadBound, NextBound
<1> HIDE DEF k
<1> QED
  BY <1>1, <1>2, <1>3, <1>4

\* Refused by a full input, it keeps what it had for one turn fewer.
LEMMA DueRefused ==
  ASSUME NEW b \in Nat, NEW n \in Nat, NEW m \in Nat, NEW j \in Nat \ {0}, NEW l \in Nat, NEW d \in Nat,
         j <= m, m <= n, l <= b, l # 0, DueBound(b, n, m, j, l, d)
  PROVE  HadBound(b, n, m, j, d)
<1>1. CASE j > 1
  <2>1. b * ((n - j) + 1) = b * (n - j) + b /\ b * (n - j) \in Int
    BY Times
  <2>2. (n - j) + 1 = n - (j - 1)
    OBVIOUS
  <2>3. d = 0 \/ d <= b * (n - (j - 1))
    BY <1>1, <2>1, <2>2 DEF DueBound
  <2> QED BY <1>1, <2>3 DEF HadBound
<1>2. CASE ~(j > 1)
  <2>1. b * ((n - m - 1) + 1) = b * (n - m - 1) + b /\ b * (n - m - 1) \in Int
    BY Times
  <2>2. (n - m - 1) + 1 = n - m
    OBVIOUS
  <2>3. d = 0 \/ d <= b * (n - m)
    BY <1>2, <2>1, <2>2 DEF DueBound
  <2> QED BY <1>2, <2>3 DEF HadBound
<1> QED
  BY <1>1, <1>2

\* A sibling ahead of it lands one more.
LEMMA DuePushed ==
  ASSUME NEW b \in Nat, NEW n \in Nat, NEW m \in Nat, NEW j \in Nat \ {0}, NEW l \in Nat, NEW d \in Nat,
         NEW e \in {d, d + 1}, j > 1, j <= n, DueBound(b, n, m, j, l, d), e = d + 1 \/ d = 0
  PROVE  DueBound(b, n, m, j, l + 1, e)
<1>1. b * (n - j) \in Int /\ b * (n - j) >= 0
  BY Times
<1> QED
  BY <1>1 DEF DueBound

\* The last of the list takes the place of one that ended.
LEMMA DueSwapped ==
  ASSUME NEW b \in Nat, NEW n \in Nat, NEW m \in Nat, NEW h \in Nat \ {0}, NEW l \in Nat, NEW d \in Nat,
         h < m, m <= n, l <= b, DueBound(b, n, m, m, l, d)
  PROVE  DueBound(b, n, m - 1, h, l, d)
<1>1. d = 0 \/ d <= b * (n - m) + l
  BY DEF DueBound
<1>2. b * (n - m) \in Int /\ b * ((n - m) + 1) = b * (n - m) + b
  BY Times
<1>3. CASE h > 1
  <2>1. b * (n - m) <= b * (n - h) /\ b * (n - h) \in Int
    BY Times
  <2> QED BY <1>1, <1>2, <1>3, <2>1 DEF DueBound
<1>4. CASE ~(h > 1)
  <2>1. b * ((n - m) + 1) <= b * (n - 1) /\ b * (n - 1) \in Int
    <3>1. (n - m) + 1 \in Int /\ n - 1 \in Int /\ (n - m) + 1 <= n - 1
      OBVIOUS
    <3> QED BY <3>1, Times
  <2>2. n - (m - 1) - 1 = n - m
    OBVIOUS
  <2> QED BY <1>1, <1>2, <1>4, <2>1, <2>2 DEF DueBound
<1> QED
  BY <1>3, <1>4

\* A list that got shorter.
LEMMA HadShrinks ==
  ASSUME NEW b \in Nat, NEW n \in Nat, NEW m \in Nat, NEW j \in Nat \ {0}, NEW d \in Nat,
         j < m, m <= n, HadBound(b, n, m, j, d)
  PROVE  HadBound(b, n, m - 1, j, d)
<1>1. b * (n - m) <= b * (n - (m - 1)) /\ b * (n - m) \in Int /\ b * (n - (m - 1)) \in Int
  <2>1. n - m \in Int /\ n - (m - 1) \in Int /\ n - m <= n - (m - 1)
    OBVIOUS
  <2> QED BY <2>1, Times
<1>2. CASE j > 1
  BY <1>2 DEF HadBound
<1>3. CASE ~(j > 1)
  BY <1>1, <1>3 DEF HadBound
<1> QED
  BY <1>2, <1>3

LEMMA DueShrinks ==
  ASSUME NEW b, NEW n, NEW m, NEW k, NEW j \in Nat, NEW l, NEW d, j > 1, DueBound(b, n, m, j, l, d)
  PROVE  DueBound(b, n, k, j, l, d)
BY DEF DueBound

\* The list turns, and who went first goes last.
LEMMA HadTurns ==
  ASSUME NEW b, NEW n, NEW m \in Nat, NEW j \in Nat \ {0}, NEW d, HadBound(b, n, m, j, d)
  PROVE  NextBound(b, n, IF j > 1 THEN j - 1 ELSE m, d)
BY DEF HadBound, NextBound

\* A round starts with an empty input.
LEMMA NextDue ==
  ASSUME NEW b \in Nat, NEW n \in Nat, NEW m \in Nat, NEW j \in Nat \ {0}, NEW d \in Nat, NextBound(b, n, j, d)
  PROVE  DueBound(b, n, m, j, 0, d)
<1>1. b * (n - j) \in Int
  BY Times
<1>2. j > 1 \/ j = 1
  OBVIOUS
<1> QED
  BY <1>1, <1>2 DEF DueBound, NextBound

-----------------------------------------------------------------------------
(* What a step leaves alone.                                                *)

\* A step of z and the other nodes: it may call one, or return to its owner.
LEMMA NodeTouches ==
  ASSUME GraphOK, Types, StackInv, NEW z \in Nodes(graph) \cap alive, NodeStep(z),
         NEW y \in Nodes(graph) \cap alive', y # z
  PROVE  /\ held'[y] = held[y] /\ (y # graph.owner[z] => workers'[y] = workers[y])
         /\ \/ pc'[y] = pc[y]
            \/ EachCalls(z) /\ graph.owner[y] = z /\ pc[y].at = "idle" /\ pc'[y] = Entered
            \/ /\ graph.owner[z] = y /\ pc[y].at = "call" /\ pc'[y].at = "each"
               /\ Ends(z) \/ (pc' = Return(z) /\ workers' = workers /\ graph.kind[y] # "io")
<1> DEFINE o == graph.owner[z]
<1>0. /\ y \in Parts(graph) /\ z \in Parts(graph) /\ o \in Parts(graph) /\ o # z
      /\ pc \in [Parts(graph) -> Frames] /\ FrameOK(z, pc[z]) /\ pc[z] \in Frames
      /\ DOMAIN held = Nodes(graph) /\ DOMAIN workers = Parts(graph) /\ graph.kind[y] # "io"
  BY KindsDiffer, Owners DEF StackInv, FrameTypes, Types, HeldTypes, ListTypes
<1>1. ASSUME NEW f, pc' = Goto(z, f), workers' = workers,
             held' = held \/ \E s, v : held' = [held EXCEPT ![z][s] = v]
      PROVE  held'[y] = held[y] /\ workers'[y] = workers[y] /\ pc'[y] = pc[y]
  BY <1>0, <1>1 DEF Goto
<1>2. ASSUME pc' = Return(z), pc[z].at # "idle", workers' = workers,
             held' = held \/ \E s, v : held' = [held EXCEPT ![z][s] = v]
      PROVE  /\ held'[y] = held[y] /\ workers'[y] = workers[y]
             /\ pc'[y] = pc[y] \/ (o = y /\ pc[y].at = "call" /\ pc'[y].at = "each")
  <2>1. held'[y] = held[y] /\ workers'[y] = workers[y]
    BY <1>0, <1>2
  <2>2. pc'[o].at = "each" /\ (y # o => pc'[y] = pc[y])
    BY <1>0, <1>2, ReturnFrames
  <2>3. pc[o].at = "call"
    BY <1>2 DEF StackInv, CallInv, Calls
  <2> QED BY <2>1, <2>2, <2>3
<1>3. CASE Resumes(z) \/ Delivers(z) \/ RotateOn(z) \/ Unblock(z)
  <2>1. PICK s, k, m : Pushing(z, s, k, m)
    BY <1>3, NodePushes
  <2>2. /\ workers' = workers /\ s \in Sides(z) /\ k \in DOMAIN graph.outs[z][s] /\ pc[z].at # "idle"
        /\ \E v : held' = [held EXCEPT ![z][s] = v]
    BY <2>1 DEF Pushing, Rotate
  <2>3. pc' = Return(z) \/ \E f : pc' = Goto(z, f)
    <3>1. CASE Rotate(z, s, k, m)
      BY <2>2, <3>1, RotateGoes DEF NextOnSide
    <3>2. CASE ~Rotate(z, s, k, m)
      BY <2>1, <3>2 DEF Pushing
    <3> QED BY <3>1, <3>2
  <2> QED BY <1>0, <1>1, <1>2, <2>2, <2>3
<1>4. CASE PushClosed(z) \/ InputsClosed(z) \/ AllExhausted(z) \/ (WaitFront(z) /\ Ends(z))
  <2>1. Ends(z) /\ pc[z].at # "idle"
    BY <1>4 DEF PushClosed, Tried, InputsClosed, AllExhausted, WaitFront, Running
  <2>2. /\ alive' = alive \ EndsGone(z) /\ Drop(EndsGone(z))
        /\ (y \notin EndsGone(z) /\ y # o => pc'[y] = pc[y])
        /\ o \notin EndsGone(z) => pc'[o] = [pc[o] EXCEPT !.at = "each"]
        /\ pc[o].at = "call"
        /\ workers' = [workers EXCEPT ![o][pc[o].side] = SwapRemove(workers[o][pc[o].side], pc[o].i)]
    BY <1>0, <2>1, EndsShape
  <2>3. y \notin EndsGone(z)
    BY <2>2
  <2>4. held'[y] = held[y]
    BY <1>0, <2>2, <2>3 DEF Drop
  <2>5. pc[o] \in Frames
    BY <1>0
  <2>6. [pc[o] EXCEPT !.at = "each"].at = "each"
    BY <2>5 DEF Frames
  <2>7. y # o => workers'[y] = workers[y]
    BY <1>0, <2>2
  <2> QED BY <2>1, <2>2, <2>3, <2>4, <2>6, <2>7
<1>5. CASE WakeTarget(z)
  <2>1. /\ pc[z].side \in Sides(z) /\ pc[z].i \in DOMAIN graph.outs[z][pc[z].side] /\ pc[z].at = "wake"
        /\ pc' = Onward(z, pc[z].side, pc[z].i, pc[z].msg[1]) /\ held' = held /\ workers' = workers
    BY <1>0, <1>5, KindsDiffer DEF FrameOK, WakeTarget, Running
  <2>2. pc' = Return(z) \/ \E f : pc' = Goto(z, f)
    BY <2>1, OnwardGoes DEF NextOnSide
  <2> QED BY <1>0, <1>1, <1>2, <2>1, <2>2
<1>6. CASE SideIdle(z)
  <2>1. /\ pc[z].at = "round" /\ held' = held /\ workers' = workers
        /\ pc' = Return(z) \/ \E f : pc' = Goto(z, f)
    BY <1>6 DEF SideIdle, Running
  <2> QED BY <1>0, <1>1, <1>2, <2>1
<1>7. CASE Takes(z) \/ FindsEmpty(z) \/ LooksAt(z) \/ Parks(z) \/ (WaitFront(z) /\ ~Ends(z))
  <2>1. held' = held /\ workers' = workers /\ \E f : pc' = Goto(z, f)
    BY <1>7 DEF Takes, FindsEmpty, LooksAt, Parks, WaitFront
  <2> QED BY <1>1, <2>1
<1>8. CASE EachCalls(z)
  <2> DEFINE c == workers[z][pc[z].side][pc[z].i]
  <2>1. /\ held' = held /\ workers' = workers /\ c \in Nodes(graph) /\ graph.owner[c] = z /\ pc[c].at = "idle"
        /\ pc' = [pc EXCEPT ![z].at = "call", ![c] = Entered]
    BY <1>0, <1>8, EachCallsStack
  <2> HIDE DEF c
  <2>2. c \in Parts(graph)
    BY <2>1, KindsDiffer
  <2>3. pc'[y] = IF y = c THEN Entered ELSE pc[y]
    BY <1>0, <2>1, <2>2
  <2> QED BY <1>8, <2>1, <2>3
<1>9. CASE EachEnds(z)
  <2>1. held' = held /\ \E f : pc' = Goto(z, f)
    BY <1>9 DEF EachEnds
  <2>2. workers'[y] = workers[y]
    BY <1>0, <1>9, EachEndsStack
  <2> QED BY <1>0, <2>1, <2>2 DEF Goto
<1> QED
  BY <1>3, <1>4, <1>5, <1>6, <1>7, <1>8, <1>9 DEF NodeStep

\* A step from elsewhere may call a root, no more.
LEMMA OutsideTouches ==
  ASSUME GraphOK, Types, StackInv, NEW y \in Nodes(graph) \cap alive',
         \/ \E t \in Threads(graph) \cap alive :
              \/ EachCalls(t) \/ EachEnds(t) \/ ThreadEnds(t) \/ IoWorks(t) \/ IoReads(t)
              \/ IoPushes(t) \/ IoDrops(t)
         \/ \E x \in Nodes(graph) \cap alive : Fails(x)
         \/ \E w \in Writers(graph) \cap alive : WakeTarget(w) \/ WriterLeaves(w) \/ Writes(w)
         \/ \E r \in Tees(graph) \cap alive : TeeLeaves(r)
  PROVE  /\ y \in alive /\ held'[y] = held[y] /\ workers'[y] = workers[y]
         /\ \/ pc'[y] = pc[y]
            \/ graph.owner[y] \in Threads(graph) /\ pc[y].at = "idle" /\ pc'[y] = Entered
<1>0. /\ y \in Parts(graph) /\ y \notin Threads(graph) /\ graph.kind[y] # "writer"
      /\ pc \in [Parts(graph) -> Frames]
      /\ DOMAIN held = Nodes(graph) /\ DOMAIN workers = Parts(graph)
  BY KindsDiffer DEF StackInv, FrameTypes, Types, HeldTypes, ListTypes
<1>1. ASSUME NEW gone, Drop(gone), workers' = workers, pc'[y] = pc[y] \/ y \in gone
      PROVE  y \in alive /\ held'[y] = held[y] /\ workers'[y] = workers[y] /\ pc'[y] = pc[y]
  <2>1. y \in alive /\ y \notin gone
    BY <1>1 DEF Drop
  <2>2. held'[y] = held[y]
    BY <1>0, <1>1, <2>1 DEF Drop
  <2> QED BY <1>1, <2>1, <2>2
<1>2. ASSUME NEW c \in Nodes(graph), NEW t \in Threads(graph), graph.owner[c] = t, pc[c].at = "idle",
             pc' = [pc EXCEPT ![t].at = "call", ![c] = Entered]
      PROVE  \/ pc'[y] = pc[y]
             \/ graph.owner[y] \in Threads(graph) /\ pc[y].at = "idle" /\ pc'[y] = Entered
  <2>1. c \in Parts(graph)
    BY KindsDiffer
  <2>2. pc'[y] = IF y = c THEN Entered ELSE pc[y]
    BY <1>0, <1>2, <2>1
  <2> QED BY <1>2, <2>2
<1>3. ASSUME NEW t \in Threads(graph) \cap alive, EachCalls(t) \/ IoWorks(t)
      PROVE  /\ y \in alive /\ held'[y] = held[y] /\ workers'[y] = workers[y]
             /\ \/ pc'[y] = pc[y]
                \/ graph.owner[y] \in Threads(graph) /\ pc[y].at = "idle" /\ pc'[y] = Entered
  <2>0. t \in Parts(graph)
    BY KindsDiffer
  <2>1. CASE EachCalls(t)
    <3> DEFINE c == workers[t][pc[t].side][pc[t].i]
    <3>1. /\ alive' = alive /\ held' = held /\ workers' = workers
          /\ c \in Nodes(graph) /\ graph.owner[c] = t /\ pc[c].at = "idle"
          /\ pc' = [pc EXCEPT ![t].at = "call", ![c] = Entered]
      BY <2>0, <2>1, EachCallsStack
    <3> HIDE DEF c
    <3> QED BY <1>2, <3>1
  <2>2. CASE IoWorks(t)
    <3> DEFINE c == workers[t][1][1]
    <3>1. /\ alive' = alive /\ held' = held /\ workers' = workers
          /\ c \in Nodes(graph) /\ graph.owner[c] = t /\ pc[c].at = "idle"
          /\ pc' = [pc EXCEPT ![t].at = "call", ![c] = Entered]
      BY <2>2, IoWorksStack
    <3> HIDE DEF c
    <3> QED BY <1>2, <3>1
  <2> QED BY <1>3, <2>1, <2>2
<1>4. ASSUME NEW t \in Threads(graph) \cap alive, EachEnds(t)
      PROVE  y \in alive /\ held'[y] = held[y] /\ workers'[y] = workers[y] /\ pc'[y] = pc[y]
  <2>1. t \in Parts(graph) /\ t # y
    BY <1>0, KindsDiffer
  <2>2. alive' = alive /\ held' = held /\ \E f : pc' = Goto(t, f)
    BY <1>4 DEF EachEnds
  <2>3. workers'[y] = workers[y]
    BY <1>0, <1>4, <2>1, EachEndsStack
  <2> QED BY <1>0, <2>1, <2>2, <2>3 DEF Goto
<1>5. ASSUME NEW t \in Threads(graph) \cap alive, ThreadEnds(t) \/ IoDrops(t)
      PROVE  y \in alive /\ held'[y] = held[y] /\ workers'[y] = workers[y] /\ pc'[y] = pc[y]
  BY <1>1, <1>5 DEF ThreadEnds, IoDrops
<1>6. ASSUME NEW t \in Threads(graph) \cap alive, IoReads(t) \/ IoPushes(t)
      PROVE  y \in alive /\ held'[y] = held[y] /\ workers'[y] = workers[y] /\ pc'[y] = pc[y]
  <2>1. /\ alive' = alive /\ held' = held /\ workers' = workers
        /\ pc' = pc \/ \E f : pc' = Goto(t, f)
    BY <1>6 DEF IoReads, IoPushes
  <2> QED BY <1>0, <2>1 DEF Goto
<1>7. ASSUME NEW x, Fails(x)
      PROVE  y \in alive /\ held'[y] = held[y] /\ workers'[y] = workers[y] /\ pc'[y] = pc[y]
  <2>1. /\ Drop(graph.tree[Home(x)]) /\ workers' = workers
        /\ pc' = [u \in DOMAIN pc |-> IF u \in graph.tree[Home(x)] THEN Idle ELSE pc[u]]
    BY <1>7 DEF Fails
  <2>2. pc'[y] = pc[y] \/ y \in graph.tree[Home(x)]
    BY <1>0, <2>1
  <2> QED BY <1>1, <2>1, <2>2
<1>8. ASSUME NEW w \in Writers(graph) \cup Tees(graph), WriterLeaves(w) \/ TeeLeaves(w)
      PROVE  y \in alive /\ held'[y] = held[y] /\ workers'[y] = workers[y] /\ pc'[y] = pc[y]
  BY <1>1, <1>8 DEF WriterLeaves, TeeLeaves
<1>9. ASSUME NEW w \in Writers(graph), WakeTarget(w) \/ Writes(w)
      PROVE  y \in alive /\ held'[y] = held[y] /\ workers'[y] = workers[y] /\ pc'[y] = pc[y]
  <2>1. graph.kind[w] = "writer" /\ w # y
    BY <1>0, KindsDiffer
  <2>2. /\ alive' = alive /\ held' = held /\ workers' = workers
        /\ pc' = pc \/ \E f : pc' = Goto(w, f)
    BY <1>9, <2>1 DEF WakeTarget, Writes
  <2> QED BY <1>0, <2>1, <2>2 DEF Goto
<1> QED
  BY <1>3, <1>4, <1>5, <1>6, <1>7, <1>8, <1>9

-----------------------------------------------------------------------------
(* Who can touch an input whose producers take turns.                       *)

LEMMA TurnShape ==
  ASSUME GraphOK, NEW o \in Outlets(graph), NEW p, Turns(o, p)
  PROVE  LET c == To(o)[1]
             x == o[1]
         IN  /\ x \in Nodes(graph) /\ x \in Parts(graph) /\ c \in Nodes(graph) /\ c \in Parts(graph)
             /\ graph.owner[x] = c /\ x # c
             /\ To(o) \in Inputs(graph) /\ To(o) = <<c, To(o)[2]>>
             /\ Bound(To(o)) \in Nat \ {0} /\ Len(graph.owns[c][p]) \in Nat
             /\ p \in DOMAIN graph.owns[c] /\ p \in Nat \ {0}
             /\ o[2] \in Sides(x) /\ o[2] \in Nat \ {0} /\ o[3] \in DOMAIN graph.outs[x][o[2]]
             /\ o = <<x, o[2], o[3]>>
             /\ \A u \in Outlets(graph) : To(u) = To(o) =>
                  /\ u[1] \in Nodes(graph) /\ graph.owner[u[1]] = c /\ u[1] # c
                  /\ \E h \in DOMAIN graph.owns[c][p] : graph.owns[c][p][h] = u[1]
                  /\ u[1] = x => u = o
<1> DEFINE i == To(o)
           c == i[1]
<1>1. /\ i \in Inputs(graph) /\ c \in Parts(graph) /\ i = <<c, i[2]>> /\ i[2] \in DOMAIN graph.bound[c]
      /\ Bound(i) \in Nat
      /\ o[1] \in Parts(graph) /\ o[2] \in Sides(o[1]) /\ o[3] \in DOMAIN graph.outs[o[1]][o[2]]
      /\ o = <<o[1], o[2], o[3]>>
  BY OutletShape
<1>2. /\ Bound(i) # 0 /\ p \in DOMAIN graph.owns[c]
      /\ graph.feeders[i] \subseteq ToSet(graph.owns[c][p])
      /\ \A u, v \in Outlets(graph) : To(u) = i /\ To(v) = i /\ u[1] = v[1] => u = v
  BY DEF Turns, TakesTurns
<1>3. graph.owns[c] \in Seq(Seq(Nodes(graph)))
  BY <1>1 DEF GraphOK, Shaped, OwnedOnce
<1>4. p \in Nat \ {0} /\ Len(graph.owns[c][p]) \in Nat
  BY <1>2, <1>3
<1>5. ASSUME NEW u \in Outlets(graph), To(u) = i
      PROVE  /\ u[1] \in Nodes(graph) /\ graph.owner[u[1]] = c /\ u[1] # c
             /\ \E h \in DOMAIN graph.owns[c][p] : graph.owns[c][p][h] = u[1]
  <2>1. graph.feeders[i] = {v[1] : v \in {w \in Outlets(graph) : Edge(graph, w).to = i}}
    BY <1>1 DEF GraphOK, Shaped
  <2>2. Edge(graph, u).to = i
    BY <1>5 DEF To
  <2>3. u[1] \in graph.feeders[i]
    BY <2>1, <2>2
  <2>4. \E h \in DOMAIN graph.owns[c][p] : graph.owns[c][p][h] = u[1]
    BY <1>2, <2>3 DEF ToSet
  <2>5. u[1] \in Owned(graph, c)
    BY <1>2, <2>4 DEF Owned, ToSet
  <2> QED BY <1>1, <2>4, <2>5, Owners
<1>6. c \notin Threads(graph)
  BY <1>1, <1>2 DEF GraphOK, Shaped, ThreadsWork, Bound
<1>7. c \in Nodes(graph)
  BY <1>5, <1>6, Owners
<1>8. o[2] \in Nat \ {0}
  BY <1>1, OutletShape
<1> QED
  BY <1>1, <1>2, <1>4, <1>5, <1>7, <1>8, KindsDiffer

\* Its producers are on one list.
LEMMA TurnPlace ==
  ASSUME GraphOK, ListTypes, NEW o \in Outlets(graph), NEW p, Turns(o, p),
         NEW u \in Outlets(graph), To(u) = To(o), NEW q \in DOMAIN workers[To(o)[1]],
         NEW h \in DOMAIN workers[To(o)[1]][q], workers[To(o)[1]][q][h] = u[1]
  PROVE  q = p
<1> DEFINE c == To(o)[1]
<1>1. /\ c \in Parts(graph) /\ p \in DOMAIN graph.owns[c]
      /\ \E g \in DOMAIN graph.owns[c][p] : graph.owns[c][p][g] = u[1]
  BY TurnShape
<1>2. \E g \in DOMAIN graph.owns[c][q] : graph.owns[c][q][g] = u[1]
  BY <1>1 DEF ListTypes
<1>3. DOMAIN workers[c] = DOMAIN graph.owns[c]
  BY <1>1 DEF ListTypes, GraphOK, Shaped, OwnedOnce
<1> QED
  BY <1>1, <1>2, <1>3 DEF GraphOK, Shaped, OwnedOnce

\* What a push on u does to an input, and to who waits for it.
LEMMA PushCounts ==
  ASSUME EdgeTypes, NEW u \in Outlets(graph), NEW o \in Outlets(graph), NEW m, Push(u, m),
         To(o) \in Inputs(graph)
  PROVE  /\ To(u) # To(o) => passedBy'[o] = passedBy[o] /\ buf'[To(o)] = buf[To(o)]
         /\ u = o => \/ passedBy'[o] = 0
                     \/ /\ Outcome(o, m) \notin {"pushed", "dropped"}
                        /\ passedBy'[o] = passedBy[o] /\ buf'[To(o)] = buf[To(o)]
         /\ u # o => \/ passedBy'[o] = passedBy[o] /\ buf'[To(o)] = buf[To(o)]
                     \/ /\ To(u) = To(o) /\ HasRoom(To(o)) /\ buf'[To(o)] = Append(buf[To(o)], m)
                        /\ \/ passedBy'[o] = passedBy[o] + 1 /\ Holds(o)
                           \/ passedBy'[o] = passedBy[o] /\ (~Holds(o) \/ o[1] = u[1]
                                \/ ~({o[1], u[1]} \subseteq Owned(graph, To(o)[1])))
<1>1. /\ passedBy'[o] = IF o = u /\ Outcome(u, m) \in {"pushed", "dropped"} THEN 0
                        ELSE IF Outcome(u, m) = "pushed" /\ o \in Overtaken(u) THEN passedBy[o] + 1
                        ELSE passedBy[o]
      /\ buf' = IF Outcome(u, m) = "pushed" THEN [buf EXCEPT ![To(u)] = Append(buf[To(u)], m)] ELSE buf
  BY DEF Push, EdgeTypes
<1>2. o \in Overtaken(u) <=> /\ To(o) = To(u) /\ o[1] # u[1] /\ Holds(o)
                             /\ {o[1], u[1]} \subseteq Owned(graph, To(u)[1])
  BY DEF Overtaken, Holds
<1>3. Outcome(u, m) = "pushed" => HasRoom(To(u))
  BY DEF Outcome
<1>4. DOMAIN buf = Inputs(graph)
  BY DEF EdgeTypes
<1>5. o \in Overtaken(u) => u # o
  BY <1>2
<1>6. CASE Outcome(u, m) = "pushed"
  <2>1. buf' = [buf EXCEPT ![To(u)] = Append(buf[To(u)], m)]
    BY <1>1, <1>6
  <2>2. buf'[To(o)] = IF To(u) = To(o) THEN Append(buf[To(o)], m) ELSE buf[To(o)]
    BY <1>4, <2>1
  <2> QED BY <1>1, <1>2, <1>3, <1>6, <2>2
<1>7. CASE Outcome(u, m) # "pushed"
  BY <1>1, <1>7
<1> QED
  BY <1>6, <1>7

\* A step of a node and an input of c: only c takes from it, and only those it
\* works push into it.
LEMMA NodeInput ==
  ASSUME GraphOK, Types, StackInv, NEW o \in Outlets(graph), NEW p, Turns(o, p), To(o)[1] \in alive',
         NEW z \in Nodes(graph) \cap alive, NodeStep(z)
  PROVE  \/ passedBy'[o] = passedBy[o] /\ buf'[To(o)] = buf[To(o)]
         \/ z = To(o)[1] /\ Takes(z) /\ passedBy'[o] = passedBy[o]
         \/ /\ graph.owner[z] = To(o)[1]
            /\ \E s, k, m : Pushing(z, s, k, m) /\ Rotate(z, s, k, m) /\ <<z, s, k>> \in Outlets(graph)
                            /\ To(<<z, s, k>>) = To(o)
<1> DEFINE i == To(o)
<1>0. /\ z \in Parts(graph) /\ pc[z] \in Frames /\ FrameOK(z, pc[z]) /\ i \in Inputs(graph)
      /\ EdgeTypes /\ DOMAIN buf = Inputs(graph) /\ i = <<i[1], i[2]>>
  BY KindsDiffer, TurnShape DEF Types, FrameTypes, EdgeTypes
<1>1. CASE Resumes(z) \/ Delivers(z) \/ RotateOn(z) \/ Unblock(z)
  <2>1. PICK s, k, m : Pushing(z, s, k, m)
    BY <1>1, NodePushes
  <2> DEFINE u == <<z, s, k>>
  <2>2. u \in Outlets(graph)
    BY <1>0, <2>1, OutletShape DEF Pushing
  <2>3. CASE ~Rotate(z, s, k, m)
    BY <2>1, <2>3 DEF Pushing, edgeVars
  <2>4. CASE Rotate(z, s, k, m) /\ To(u) # i
    <3>1. Push(u, m)
      BY <2>4 DEF Rotate
    <3> QED BY <1>0, <2>2, <2>4, <3>1, PushCounts
  <2>5. CASE Rotate(z, s, k, m) /\ To(u) = i
    <3>1. graph.owner[u[1]] = i[1]
      BY <2>2, <2>5, TurnShape
    <3>2. graph.owner[z] = i[1]
      BY <3>1
    <3> QED BY <2>1, <2>2, <2>5, <3>2
  <2> QED BY <2>3, <2>4, <2>5
<1>2. CASE PushClosed(z) \/ InputsClosed(z) \/ AllExhausted(z) \/ (WaitFront(z) /\ Ends(z))
  <2>1. Ends(z)
    BY <1>2 DEF PushClosed, InputsClosed, AllExhausted
  <2>2. PICK gone : Drop(gone)
    BY <2>1 DEF Ends
  <2>3. i[1] \notin gone
    BY <2>2 DEF Drop
  <2> QED BY <1>0, <2>2, <2>3 DEF Drop
<1>3. CASE Takes(z)
  <2>1. Pop(<<z, pc[z].i>>) /\ passedBy' = passedBy
    BY <1>3 DEF Takes, Pop
  <2>2. CASE z = i[1]
    BY <1>3, <2>1, <2>2
  <2>3. CASE z # i[1]
    <3>1. <<z, pc[z].i>> # i
      BY <1>0, <2>3
    <3> QED BY <1>0, <2>1, <3>1 DEF Pop
  <2> QED BY <2>2, <2>3
<1>4. CASE WakeTarget(z) \/ SideIdle(z) \/ FindsEmpty(z) \/ LooksAt(z) \/ Parks(z) \/ EachCalls(z)
           \/ EachEnds(z) \/ (WaitFront(z) /\ ~Ends(z))
  BY <1>4 DEF WakeTarget, SideIdle, FindsEmpty, LooksAt, Parks, EachCalls, EachEnds, WaitFront, edgeVars
<1> QED
  BY <1>1, <1>2, <1>3, <1>4 DEF NodeStep

\* Nobody else touches it.
LEMMA OutsideInput ==
  ASSUME GraphOK, Types, StackInv, NEW o \in Outlets(graph), NEW p, Turns(o, p), To(o)[1] \in alive',
         \/ \E t \in Threads(graph) \cap alive :
              \/ EachCalls(t) \/ EachEnds(t) \/ ThreadEnds(t) \/ IoWorks(t) \/ IoReads(t)
              \/ IoPushes(t) \/ IoDrops(t)
         \/ \E x \in Nodes(graph) \cap alive : Fails(x)
         \/ \E w \in Writers(graph) \cap alive : WakeTarget(w) \/ WriterLeaves(w) \/ Writes(w)
         \/ \E r \in Tees(graph) \cap alive : TeeLeaves(r)
  PROVE  passedBy'[o] = passedBy[o] /\ buf'[To(o)] = buf[To(o)]
<1> DEFINE i == To(o)
<1>0. /\ i \in Inputs(graph) /\ EdgeTypes /\ DOMAIN buf = Inputs(graph) /\ i = <<i[1], i[2]>>
      /\ i[1] \in Nodes(graph)
  BY TurnShape DEF Types, EdgeTypes
<1>1. ASSUME NEW gone, Drop(gone) PROVE passedBy'[o] = passedBy[o] /\ buf'[i] = buf[i]
  <2>1. i[1] \notin gone
    BY <1>1 DEF Drop
  <2> QED BY <1>0, <1>1, <2>1 DEF Drop
<1>2. ASSUME NEW w \in Writers(graph) \cup Lent(graph), NEW m, Push(<<w, 1, 1>>, m)
      PROVE  passedBy'[o] = passedBy[o] /\ buf'[i] = buf[i]
  <2> DEFINE u == <<w, 1, 1>>
  <2>1. u \in Outlets(graph) /\ u[1] \notin Nodes(graph)
    BY OutsideOutlet, KindsDiffer
  <2>2. To(u) # i
    BY <2>1, TurnShape
  <2> QED BY <1>0, <1>2, <2>1, <2>2, PushCounts
<1>3. ASSUME NEW x, ThreadEnds(x) \/ IoDrops(x) \/ Fails(x) \/ WriterLeaves(x) \/ TeeLeaves(x)
      PROVE  passedBy'[o] = passedBy[o] /\ buf'[i] = buf[i]
  BY <1>1, <1>3 DEF ThreadEnds, IoDrops, Fails, WriterLeaves, TeeLeaves
<1>4. ASSUME NEW x, EachCalls(x) \/ EachEnds(x) \/ IoWorks(x) \/ WakeTarget(x)
      PROVE  passedBy'[o] = passedBy[o] /\ buf'[i] = buf[i]
  BY <1>4 DEF EachCalls, EachEnds, IoWorks, WakeTarget, edgeVars
<1>5. ASSUME NEW t \in Threads(graph), IoReads(t) PROVE passedBy'[o] = passedBy[o] /\ buf'[i] = buf[i]
  <2>1. Pop(<<t, pc[t].i>>) /\ passedBy' = passedBy
    BY <1>5 DEF IoReads, Pop
  <2>2. <<t, pc[t].i>> # i
    BY <1>0, KindsDiffer
  <2> QED BY <1>0, <2>1, <2>2 DEF Pop
<1>6. ASSUME NEW t, IoPushes(t) PROVE passedBy'[o] = passedBy[o] /\ buf'[i] = buf[i]
  <2>1. \E w \in Lent(graph) : \E m : Push(<<w, 1, 1>>, m)
    BY <1>6 DEF IoPushes
  <2> QED BY <1>2, <2>1
<1>7. ASSUME NEW w \in Writers(graph), Writes(w) PROVE passedBy'[o] = passedBy[o] /\ buf'[i] = buf[i]
  <2>1. \E m : Push(<<w, 1, 1>>, m)
    BY <1>7 DEF Writes
  <2> QED BY <1>2, <2>1
<1> QED
  BY <1>3, <1>4, <1>5, <1>6, <1>7

-----------------------------------------------------------------------------
(* Refusals and what the fan-outs hold.                                     *)

\* Where a push leaves its side: through with the message, waiting in the
\* edge, or refused and done with the side.
LEMMA PushHolds ==
  ASSUME GraphOK, Types, StackInv, NEW x \in Nodes(graph) \cap alive, NEW s, NEW k, NEW m, Pushing(x, s, k, m)
  PROVE  /\ x \in Parts(graph) /\ s \in Sides(x) /\ s \in Nat \ {0} /\ s = pc[x].side
         /\ k \in DOMAIN graph.outs[x][s] /\ <<x, s, k>> \in Outlets(graph)
         /\ pc[x].at \in {"round", "push", "block"} /\ UNCHANGED <<graph, alive, workers>>
         /\ \A r \in Sides(x) : r # s => held'[x][r] = held[x][r]
         /\ \/ /\ held'[x][s] = <<>> /\ Push(<<x, s, k>>, m)
               /\ Outcome(<<x, s, k>>, m) \in {"pushed", "dropped"}
            \/ /\ held'[x][s] = <<>> /\ UNCHANGED edgeVars
               /\ pc[x].at = "round" /\ pc'[x].at = "block" /\ pc'[x].side = s /\ pc'[x].i = k
            \/ /\ held'[x][s] # <<>> /\ held'[x][s][1].at = k /\ Push(<<x, s, k>>, m)
               /\ ~HasRoom(To(<<x, s, k>>)) /\ pc[x].at \in {"round", "push"}
               /\ Outcome(<<x, s, k>>, m) \notin {"pushed", "dropped"}
               /\ pc'[x].at \notin {"push", "wake", "block"}
         /\ \/ pc' = Return(x) /\ s = LastSide(x) /\ pc'[x] = Idle
            \/ /\ \A y \in Parts(graph) : y # x => pc'[y] = pc[y]
               /\ \/ pc'[x].at \in {"push", "wake", "block"} /\ pc'[x].side = s /\ held'[x][s] = <<>>
                  \/ pc'[x].at = "round" /\ pc'[x].side = s + 1 /\ pc'[x].busy
<1> DEFINE o == <<x, s, k>>
<1>0. /\ s = pc[x].side /\ s \in Sides(x) /\ k \in DOMAIN graph.outs[x][s] /\ m \in Message
      /\ x \in Parts(graph) /\ pc \in [Parts(graph) -> Frames]
      /\ DOMAIN held = Nodes(graph) /\ DOMAIN held[x] = Sides(x)
      /\ pc[x].at \in {"round", "push", "block"} /\ UNCHANGED <<graph, alive, workers>>
  BY KindsDiffer DEF Pushing, Types, FrameTypes, HeldTypes
<1>1. s \in Nat \ {0} /\ o \in Outlets(graph) /\ LastSide(x) \in Nat /\ Sides(x) = 1 .. LastSide(x)
  BY <1>0, OutletShape
<1>2. ASSUME NEW at \in {"push", "wake", "block"}, NEW h \in DOMAIN graph.outs[x][s],
             pc' = Goto(x, Frame(at, s, h, TRUE, <<m>>))
      PROVE  /\ pc'[x].at = at /\ pc'[x].side = s /\ pc'[x].i = h
             /\ \A y \in Parts(graph) : y # x => pc'[y] = pc[y]
  <2> DEFINE f == Frame(at, s, h, TRUE, <<m>>)
  <2>1. f \in Frames /\ f.at = at /\ f.side = s /\ f.i = h
    BY <1>0, PushFrames DEF Frame
  <2>2. pc' = Goto(x, f)
    BY <1>2
  <2> HIDE DEF f
  <2> QED BY <1>0, <2>1, <2>2, GotoFrames
<1>3. ASSUME pc' = SideDone(x, s)
      PROVE  \/ pc' = Return(x) /\ s = LastSide(x) /\ pc'[x] = Idle
             \/ /\ \A y \in Parts(graph) : y # x => pc'[y] = pc[y]
                /\ pc'[x].at = "round" /\ pc'[x].side = s + 1 /\ pc'[x].busy
  <2>1. CASE s = LastSide(x)
    <3>1. pc' = Return(x)
      BY <1>3, <2>1 DEF SideDone
    <3> QED BY <1>0, <2>1, <3>1, ReturnFrames
  <2>2. CASE s # LastSide(x)
    <3> DEFINE f == Frame("round", s + 1, 1, TRUE, <<>>)
    <3>1. s + 1 \in Sides(x) /\ TRUE \in BOOLEAN
      BY <1>0, <1>1, <2>2
    <3>2. f \in Frames /\ f.at = "round" /\ f.side = s + 1 /\ f.busy
      BY <3>1, RoundFrames DEF Frame
    <3>3. pc' = Goto(x, f)
      BY <1>3, <2>2 DEF SideDone
    <3> HIDE DEF f
    <3> QED BY <1>0, <3>2, <3>3, GotoFrames
  <2> QED BY <2>1, <2>2
<1>4. CASE Rotate(x, s, k, m) /\ Outcome(o, m) \in {"pushed", "dropped"}
  <2>1. pc' = Landed(x, s, k, m) /\ held' = [held EXCEPT ![x][s] = <<>>] /\ Push(o, m)
    BY <1>4 DEF Rotate
  <2>2. held'[x][s] = <<>> /\ \A r \in Sides(x) : r # s => held'[x][r] = held[x][r]
    BY <1>0, <2>1
  <2>3. \/ pc' = Goto(x, Frame("wake", s, k, TRUE, <<m>>))
        \/ k + 1 \in DOMAIN graph.outs[x][s] /\ pc' = Goto(x, Frame("push", s, k + 1, TRUE, <<m>>))
        \/ pc' = SideDone(x, s)
    <3>1. Len(graph.outs[x][s]) \in Nat /\ DOMAIN graph.outs[x][s] = 1 .. Len(graph.outs[x][s])
      BY <1>0, OutletShape
    <3>2. k # Len(graph.outs[x][s]) => k + 1 \in DOMAIN graph.outs[x][s]
      BY <1>0, <3>1
    <3> QED BY <2>1, <3>2 DEF Landed, Onward
  <2>4. \/ pc' = Return(x) /\ s = LastSide(x) /\ pc'[x] = Idle
        \/ /\ \A y \in Parts(graph) : y # x => pc'[y] = pc[y]
           /\ \/ pc'[x].at \in {"push", "wake", "block"} /\ pc'[x].side = s
              \/ pc'[x].at = "round" /\ pc'[x].side = s + 1 /\ pc'[x].busy
    BY <1>0, <1>2, <1>3, <2>3
  <2> QED BY <1>0, <1>1, <1>4, <2>1, <2>2, <2>4
<1>5. CASE Rotate(x, s, k, m) /\ Outcome(o, m) \notin {"pushed", "dropped"}
  <2>1. /\ pc' = SideDone(x, s) /\ held' = [held EXCEPT ![x][s] = <<[at |-> k, msg |-> m]>>] /\ Push(o, m)
        /\ Outcome(o, m) # "closed"
    BY <1>5 DEF Rotate
  <2>2. held'[x][s] = <<[at |-> k, msg |-> m]>> /\ \A r \in Sides(x) : r # s => held'[x][r] = held[x][r]
    BY <1>0, <2>1
  <2>3. held'[x][s] # <<>> /\ held'[x][s][1].at = k
    BY <2>2
  <2>4. ~HasRoom(To(o))
    BY <1>5, <2>1 DEF Outcome
  <2>5. \/ pc' = Return(x) /\ s = LastSide(x) /\ pc'[x] = Idle
        \/ /\ \A y \in Parts(graph) : y # x => pc'[y] = pc[y]
           /\ pc'[x].at = "round" /\ pc'[x].side = s + 1 /\ pc'[x].busy
    BY <1>3, <2>1
  <2>6. pc'[x].at \notin {"push", "wake", "block"}
    BY <2>5, IdleFrames
  <2>7. pc[x].at # "block"
    BY <1>5 DEF Pushing
  <2> QED BY <1>0, <1>1, <1>5, <2>1, <2>2, <2>3, <2>4, <2>5, <2>6, <2>7
<1>6. CASE ~Rotate(x, s, k, m)
  <2>1. /\ pc[x].at = "round" /\ pc' = Goto(x, Frame("block", s, k, TRUE, <<m>>))
        /\ held' = [held EXCEPT ![x][s] = <<>>] /\ UNCHANGED edgeVars
    BY <1>6 DEF Pushing
  <2>2. held'[x][s] = <<>> /\ \A r \in Sides(x) : r # s => held'[x][r] = held[x][r]
    BY <1>0, <2>1
  <2>3. /\ pc'[x].at = "block" /\ pc'[x].side = s /\ pc'[x].i = k
        /\ \A y \in Parts(graph) : y # x => pc'[y] = pc[y]
    BY <1>0, <1>2, <2>1
  <2> QED BY <1>0, <1>1, <2>1, <2>2, <2>3
<1> QED
  BY <1>4, <1>5, <1>6

\* Where a node goes that pushes nothing.
LEMMA QuietMoves ==
  ASSUME GraphOK, Types, StackInv, NEW x \in Nodes(graph) \cap alive, NodeStep(x), x \in alive',
         \A s, k, m : ~Pushing(x, s, k, m)
  PROVE  /\ UNCHANGED <<held, passedBy>> /\ ~Ends(x)
         /\ \/ /\ WakeTarget(x) /\ pc[x].at = "wake" /\ workers' = workers
               /\ \/ pc' = Return(x) /\ pc'[x] = Idle /\ pc[x].side = LastSide(x)
                  \/ /\ \A y \in Parts(graph) : y # x => pc'[y] = pc[y]
                     /\ \/ pc'[x].at = "push" /\ pc'[x].side = pc[x].side
                        \/ pc'[x].at = "round" /\ pc'[x].side = pc[x].side + 1 /\ pc'[x].busy
            \/ /\ pc[x].at = "round" /\ held[x][pc[x].side] = <<>> /\ workers' = workers
               /\ \/ pc' = Return(x) /\ pc'[x] = Idle /\ pc[x].side = LastSide(x) /\ pc[x].busy
                  \/ /\ \A y \in Parts(graph) : y # x => pc'[y] = pc[y]
                     /\ \/ pc'[x].at = "input" /\ pc'[x].i = 1 /\ ~pc[x].busy /\ pc[x].side = LastSide(x)
                        \/ /\ pc'[x].at = "round" /\ pc'[x].side = pc[x].side + 1
                           /\ pc'[x].busy = pc[x].busy
            \/ /\ pc[x].at \in {"input", "wait", "park"} /\ workers' = workers
               /\ Takes(x) => pc[x].at = "input"
               /\ \A y \in Parts(graph) : y # x => pc'[y] = pc[y]
               /\ \/ pc'[x] = Entered \/ pc'[x].at \in {"wait", "park"} \/ (pc'[x].at = "input" /\ pc'[x].i = 1)
                  \/ FindsEmpty(x) /\ pc'[x].at = "input" /\ pc'[x].i = pc[x].i + 1
                  \/ /\ FindsEmpty(x) /\ pc[x].i = NumInputs(x)
                     /\ pc'[x].at = "each" /\ pc'[x].side = 1 /\ pc'[x].i = 1
            \/ EachCalls(x) \/ EachEnds(x)
<1>0. /\ x \in Parts(graph) /\ pc \in [Parts(graph) -> Frames] /\ pc[x] \in Frames /\ FrameOK(x, pc[x])
  BY KindsDiffer DEF Types, FrameTypes
<1>1. ASSUME Ends(x), pc[x].at # "idle" PROVE FALSE
  <2>1. alive' = alive \ EndsGone(x) /\ x \in EndsGone(x)
    BY <1>1, EndsShape
  <2> QED BY <2>1
<1>2. ~(PushClosed(x) \/ InputsClosed(x) \/ AllExhausted(x) \/ (WaitFront(x) /\ Ends(x)))
  <2> SUFFICES ASSUME PushClosed(x) \/ InputsClosed(x) \/ AllExhausted(x) \/ (WaitFront(x) /\ Ends(x))
               PROVE  FALSE
    OBVIOUS
  <2>1. Ends(x) /\ pc[x].at # "idle"
    BY DEF PushClosed, Tried, InputsClosed, AllExhausted, WaitFront, Running
  <2> QED BY <1>1, <2>1
<1>3. ~(Resumes(x) \/ Delivers(x) \/ RotateOn(x) \/ Unblock(x))
  BY NodePushes
<1>4. ASSUME NEW f, f \in Frames, pc' = Goto(x, f)
      PROVE  pc'[x] = f /\ \A y \in Parts(graph) : y # x => pc'[y] = pc[y]
  BY <1>0, <1>4, GotoFrames
<1>5. LastSide(x) \in Nat /\ Sides(x) = 1 .. LastSide(x) /\ NumInputs(x) \in Nat \ {0}
  BY <1>0, OutletShape
<1>6. CASE WakeTarget(x)
  <2> DEFINE s == pc[x].side
             k == pc[x].i
             m == pc[x].msg[1]
  <2>1. /\ s \in Sides(x) /\ k \in DOMAIN graph.outs[x][s] /\ pc[x].at = "wake" /\ pc' = Onward(x, s, k, m)
        /\ UNCHANGED <<held, passedBy, workers>> /\ Len(pc[x].msg) = 1
    BY <1>0, <1>6, KindsDiffer DEF FrameOK, WakeTarget, Running, edgeVars
  <2>2. m \in Message
    <3>1. pc[x].msg \in Seq(Message)
      BY <1>0 DEF Frames
    <3> QED BY <2>1, <3>1
  <2>3. NextOnSide(x, s, k, m)
    BY <2>1, OnwardGoes
  <2> HIDE DEF s, k, m
  <2>4. CASE k + 1 \in DOMAIN graph.outs[x][s] /\ pc' = Goto(x, Frame("push", s, k + 1, TRUE, <<m>>))
    <3> DEFINE f == Frame("push", s, k + 1, TRUE, <<m>>)
    <3>1. f \in Frames /\ f.at = "push" /\ f.side = s
      BY <2>1, <2>2, <2>4, PushFrames DEF Frame
    <3>2. pc' = Goto(x, f)
      BY <2>4
    <3> HIDE DEF f
    <3>3. pc'[x] = f /\ \A y \in Parts(graph) : y # x => pc'[y] = pc[y]
      BY <1>4, <3>1, <3>2
    <3> QED BY <1>1, <1>6, <2>1, <3>1, <3>3 DEF s
  <2>5. CASE s < LastSide(x) /\ pc' = Goto(x, Frame("round", s + 1, 1, TRUE, <<>>))
    <3> DEFINE f == Frame("round", s + 1, 1, TRUE, <<>>)
    <3>1. s + 1 \in Sides(x) /\ TRUE \in BOOLEAN
      BY <1>5, <2>1, <2>5
    <3>2. f \in Frames /\ f.at = "round" /\ f.side = s + 1 /\ f.busy
      BY <3>1, RoundFrames DEF Frame
    <3>3. pc' = Goto(x, f)
      BY <2>5
    <3> HIDE DEF f
    <3>4. pc'[x] = f /\ \A y \in Parts(graph) : y # x => pc'[y] = pc[y]
      BY <1>4, <3>2, <3>3
    <3> QED BY <1>1, <1>6, <2>1, <3>2, <3>4 DEF s
  <2>6. CASE s = LastSide(x) /\ pc' = Return(x)
    <3>1. pc'[x] = Idle
      BY <1>0, <2>6, ReturnFrames
    <3> QED BY <1>1, <1>6, <2>1, <2>6, <3>1 DEF s
  <2> QED BY <2>3, <2>4, <2>5, <2>6 DEF NextOnSide
<1>7. CASE SideIdle(x)
  <2> DEFINE s == pc[x].side
  <2>1. /\ pc[x].at = "round" /\ held[x][s] = <<>> /\ UNCHANGED <<held, passedBy, workers>>
        /\ pc' = IF s < LastSide(x) THEN Goto(x, [pc[x] EXCEPT !.side = s + 1])
                 ELSE IF pc[x].busy THEN Return(x)
                 ELSE Goto(x, Frame("input", 1, 1, FALSE, <<>>))
        /\ s \in Sides(x)
    BY <1>0, <1>7 DEF SideIdle, Running, edgeVars, FrameOK
  <2>0. ~Ends(x)
    BY <1>1, <2>1
  <2>2. CASE s < LastSide(x)
    <3> DEFINE f == [pc[x] EXCEPT !.side = s + 1]
    <3>1. s + 1 \in Nat \ {0}
      BY <1>5, <2>1
    <3>2. f \in Frames /\ f.at = "round" /\ f.side = s + 1 /\ f.busy = pc[x].busy
      BY <1>0, <2>1, <3>1 DEF Frames
    <3>3. pc' = Goto(x, f)
      BY <2>1, <2>2
    <3> HIDE DEF f
    <3>4. pc'[x] = f /\ \A y \in Parts(graph) : y # x => pc'[y] = pc[y]
      BY <1>4, <3>2, <3>3
    <3> QED BY <2>0, <2>1, <3>2, <3>4
  <2>3. CASE ~(s < LastSide(x)) /\ pc[x].busy
    <3>1. pc' = Return(x) /\ s = LastSide(x)
      BY <1>5, <2>1, <2>3
    <3>2. pc'[x] = Idle
      BY <1>0, <3>1, ReturnFrames
    <3> QED BY <2>0, <2>1, <2>3, <3>1, <3>2
  <2>4. CASE ~(s < LastSide(x)) /\ ~pc[x].busy
    <3> DEFINE f == Frame("input", 1, 1, FALSE, <<>>)
    <3>1. pc' = Goto(x, f) /\ s = LastSide(x)
      BY <1>5, <2>1, <2>4
    <3>4. 1 \in 1 .. NumInputs(x) /\ FALSE \in BOOLEAN
      BY <1>5
    <3>2. f \in Frames /\ f.at = "input" /\ f.i = 1
      BY <3>4, InputFrames DEF Frame
    <3> HIDE DEF f
    <3>3. pc'[x] = f /\ \A y \in Parts(graph) : y # x => pc'[y] = pc[y]
      BY <1>4, <3>1, <3>2
    <3> QED BY <2>0, <2>1, <2>4, <3>1, <3>2, <3>3
  <2> QED BY <2>2, <2>3, <2>4
<1>8. CASE Takes(x)
  <2>1. pc[x].at = "input" /\ UNCHANGED <<held, passedBy, workers>> /\ pc' = Goto(x, Entered)
    BY <1>8 DEF Takes, Running, Pop
  <2>2. pc'[x] = Entered /\ \A y \in Parts(graph) : y # x => pc'[y] = pc[y]
    BY <1>4, <2>1, IdleFrames
  <2>3. ~Ends(x)
    BY <1>1, <2>1
  <2> QED BY <2>1, <2>2, <2>3
<1>9. CASE FindsEmpty(x)
  <2>1. /\ pc[x].at = "input" /\ pc[x].i \in 1 .. NumInputs(x) /\ UNCHANGED <<held, passedBy, workers>>
    BY <1>0, <1>9 DEF FindsEmpty, Running, edgeVars, FrameOK
  <2>0. ~Ends(x)
    BY <1>1, <2>1
  <2> DEFINE open == pc[x].busy \/ ~Exhausted(<<x, pc[x].i>>)
             orphan == \A p \in DOMAIN workers[x] : workers[x][p] = <<>>
  <2>9. pc' = Goto(x, IF pc[x].i < NumInputs(x) THEN Frame("input", 1, pc[x].i + 1, open, <<>>)
                      ELSE Frame(IF orphan THEN "wait" ELSE "each", 1, 1, FALSE, <<>>))
    BY <1>9 DEF FindsEmpty
  <2>8. open \in BOOLEAN
    BY <1>0 DEF Frames
  <2> HIDE DEF open, orphan
  <2>2. CASE pc[x].i < NumInputs(x)
    <3> DEFINE f == Frame("input", 1, pc[x].i + 1, open, <<>>)
    <3>1. pc[x].i + 1 \in 1 .. NumInputs(x)
      BY <1>5, <2>1, <2>2
    <3>2. f \in Frames /\ f.at = "input" /\ f.i = pc[x].i + 1
      BY <2>8, <3>1, InputFrames DEF Frame
    <3>3. pc' = Goto(x, f)
      BY <2>2, <2>9
    <3> HIDE DEF f
    <3>4. pc'[x] = f /\ \A y \in Parts(graph) : y # x => pc'[y] = pc[y]
      BY <1>4, <3>2, <3>3
    <3>5. ~Takes(x)
      BY <1>9 DEF FindsEmpty, Takes
    <3> QED BY <1>9, <2>0, <2>1, <3>2, <3>4, <3>5
  <2>3. CASE ~(pc[x].i < NumInputs(x))
    <3> DEFINE at == IF orphan THEN "wait" ELSE "each"
               f == Frame(at, 1, 1, FALSE, <<>>)
    <3>1. at \in {"wait", "each"} /\ at \in Ats /\ <<>> \in Seq(Message) /\ FALSE \in BOOLEAN /\ 1 \in Nat \ {0}
      BY DEF Ats
    <3>2. pc' = Goto(x, f)
      BY <2>3, <2>9
    <3> HIDE DEF at
    <3>3. f \in Frames /\ f.at = at /\ f.side = 1 /\ f.i = 1
      BY <3>1, SomeFrames DEF Frame
    <3> HIDE DEF f
    <3>4. pc'[x] = f /\ \A y \in Parts(graph) : y # x => pc'[y] = pc[y]
      BY <1>4, <3>2, <3>3
    <3>5. ~Takes(x)
      BY <1>9 DEF FindsEmpty, Takes
    <3>6. pc[x].i = NumInputs(x)
      BY <1>5, <2>1, <2>3
    <3> QED BY <1>9, <2>0, <2>1, <3>1, <3>3, <3>4, <3>5, <3>6
  <2> QED BY <2>2, <2>3
<1>10. CASE LooksAt(x) \/ Parks(x) \/ (WaitFront(x) /\ ~Ends(x))
  <2>1. /\ pc[x].at \in {"wait", "park"} /\ UNCHANGED <<held, passedBy, workers>>
        /\ pc[x].at = "wait" => pc[x].i \in 1 .. NumInputs(x)
    BY <1>0, <1>10 DEF LooksAt, Parks, WaitFront, Running, edgeVars, FrameOK
  <2>0. ~Ends(x)
    BY <1>1, <2>1
  <2> DEFINE idle == pc[x].busy \/ ~Exhausted(<<x, pc[x].i>>)
  <2>8. idle \in BOOLEAN
    BY <1>0 DEF Frames
  <2>2. \/ pc' = Goto(x, Frame("input", 1, 1, FALSE, <<>>))
        \/ pc' = Goto(x, Frame("wait", 1, 1, FALSE, <<>>))
        \/ pc[x].at = "wait" /\ pc[x].i < NumInputs(x) /\ pc' = Goto(x, Frame("wait", 1, pc[x].i + 1, idle, <<>>))
        \/ pc' = Goto(x, Frame("park", 1, 1, FALSE, <<>>))
    BY <1>10 DEF LooksAt, Parks, WaitFront, Running
  <2> HIDE DEF idle
  <2>3. <<>> \in Seq(Message) /\ FALSE \in BOOLEAN /\ 1 \in Nat \ {0} /\ {"input", "wait", "park"} \subseteq Ats
        /\ (pc[x].at = "wait" => pc[x].i + 1 \in Nat \ {0})
    BY <1>5, <2>1 DEF Ats
  <2>4. PICK at \in {"input", "wait", "park"} :
          \E i \in Nat \ {0} : \E b \in BOOLEAN :
             pc' = Goto(x, Frame(at, 1, i, b, <<>>)) /\ (at = "input" => i = 1)
    BY <2>2, <2>3, <2>8
  <2>5. PICK i \in Nat \ {0} : \E b \in BOOLEAN :
             pc' = Goto(x, Frame(at, 1, i, b, <<>>)) /\ (at = "input" => i = 1)
    BY <2>4
  <2>6. PICK b \in BOOLEAN :
             pc' = Goto(x, Frame(at, 1, i, b, <<>>)) /\ (at = "input" => i = 1)
    BY <2>5
  <2> DEFINE f == Frame(at, 1, i, b, <<>>)
  <2>7. f \in Frames /\ f.at = at /\ f.i = i
    <3>1. at \in Ats
      BY <2>3
    <3> QED BY <2>3, <3>1, SomeFrames DEF Frame
  <2>9. pc' = Goto(x, f)
    BY <2>6
  <2> HIDE DEF f
  <2>10. pc'[x] = f /\ \A y \in Parts(graph) : y # x => pc'[y] = pc[y]
    BY <1>4, <2>7, <2>9
  <2>11. ~Takes(x)
    BY <2>1 DEF Takes, Running
  <2> QED BY <2>0, <2>1, <2>6, <2>7, <2>10, <2>11
<1>11. CASE EachCalls(x) \/ EachEnds(x)
  <2>1. UNCHANGED <<held, passedBy>> /\ pc[x].at # "idle"
    BY <1>11 DEF EachCalls, EachEnds, edgeVars, Running
  <2> QED BY <1>1, <1>11, <2>1
<1> QED
  BY <1>2, <1>3, <1>6, <1>7, <1>8, <1>9, <1>10, <1>11 DEF NodeStep

-----------------------------------------------------------------------------
(* The invariants that turns rest on.                                       *)

LEMMA AliveOnly ==
  ASSUME GraphOK, Types, Next
  PROVE  alive' \subseteq alive
BY EdgeSteps DEF PushStep, PopStep, DropStep, Drop

\* A step, seen from one node: its own, or what others may do to it.
LEMMA Moves ==
  ASSUME GraphOK, Types, StackInv, Next, NEW y \in Nodes(graph) \cap alive'
  PROVE  /\ y \in alive
         /\ \/ \E s, k, m : Pushing(y, s, k, m)
            \/ NodeStep(y) /\ \A s, k, m : ~Pushing(y, s, k, m)
            \/ /\ held'[y] = held[y]
               /\ \/ pc'[y] = pc[y]
                  \/ pc[y].at = "idle" /\ pc'[y] = Entered
                  \/ pc[y].at = "call" /\ pc'[y].at = "each"
<1>0. y \in alive /\ alive \subseteq Parts(graph)
  BY AliveOnly DEF Types, GraphTypes
<1>1. CASE \E z \in Nodes(graph) \cap alive : NodeStep(z)
  <2>1. PICK z \in Nodes(graph) \cap alive : NodeStep(z)
    BY <1>1
  <2>2. CASE z = y
    BY <1>0, <2>1, <2>2
  <2>3. CASE z # y
    BY <1>0, <2>1, <2>3, NodeTouches
  <2> QED BY <2>2, <2>3
<1>2. CASE ~\E z \in Nodes(graph) \cap alive : NodeStep(z)
  <2>1. \/ \E t \in Threads(graph) \cap alive :
              \/ EachCalls(t) \/ EachEnds(t) \/ ThreadEnds(t) \/ IoWorks(t) \/ IoReads(t)
              \/ IoPushes(t) \/ IoDrops(t)
        \/ \E x \in Nodes(graph) \cap alive : Fails(x)
        \/ \E w \in Writers(graph) \cap alive : WakeTarget(w) \/ WriterLeaves(w) \/ Writes(w)
        \/ \E r \in Tees(graph) \cap alive : TeeLeaves(r)
    BY <1>0, <1>2, Steps
  <2> QED BY <1>0, <2>1, OutsideTouches
<1> QED
  BY <1>1, <1>2

\* Where a node goes that works its upstreams.
LEMMA EachMoves ==
  ASSUME GraphOK, Types, StackInv, NEW x \in Nodes(graph), EachCalls(x) \/ EachEnds(x)
  PROVE  /\ pc[x].at = "each" /\ held' = held /\ passedBy' = passedBy /\ buf' = buf
         /\ pc'[x].at \in {"each", "call", "input"} /\ (pc'[x].at = "input" => pc'[x].i = 1)
         /\ EachCalls(x) => pc'[x] = [pc[x] EXCEPT !.at = "call"] /\ workers' = workers
         /\ EachEnds(x) => \/ pc'[x] = Frame("each", pc[x].side + 1, 1, FALSE, <<>>)
                           \/ pc'[x].at = "input" /\ ~(pc[x].side < Len(workers[x]))
<1>0. x \in Parts(graph) /\ pc \in [Parts(graph) -> Frames] /\ pc[x] \in Frames /\ graph.kind[x] # "stream"
  BY KindsDiffer DEF Types, FrameTypes
<1>1. CASE EachCalls(x)
  <2> DEFINE c == workers[x][pc[x].side][pc[x].i]
  <2>1. /\ UNCHANGED <<held, workers, edgeVars>> /\ c # x /\ pc[x].at = "each"
        /\ pc' = [pc EXCEPT ![x].at = "call", ![c] = Entered]
    BY <1>0, <1>1, EachCallsStack
  <2> HIDE DEF c
  <2>2. pc'[x] = [pc[x] EXCEPT !.at = "call"]
    BY <1>0, <2>1
  <2>3. pc'[x].at = "call"
    BY <1>0, <2>2 DEF Frames
  <2>4. ~EachEnds(x)
    <3>1. ~(pc[x].i > Len(workers[x][pc[x].side]))
      BY <1>0, <1>1 DEF EachCalls, Frames
    <3> QED BY <3>1 DEF EachEnds
  <2> QED BY <2>1, <2>2, <2>3, <2>4 DEF edgeVars
<1>2. CASE EachEnds(x)
  <2> DEFINE f == IF pc[x].side < Len(workers[x]) THEN Frame("each", pc[x].side + 1, 1, FALSE, <<>>)
                  ELSE Frame("input", 1, 1, FALSE, <<>>)
  <2>1. pc[x].at = "each" /\ UNCHANGED <<held, edgeVars>> /\ pc' = Goto(x, f)
    BY <1>0, <1>2 DEF EachEnds, Running
  <2>2. \/ f = Frame("each", pc[x].side + 1, 1, FALSE, <<>>) /\ f.at = "each"
        \/ f.at = "input" /\ f.i = 1 /\ ~(pc[x].side < Len(workers[x]))
    BY DEF Frame
  <2> HIDE DEF f
  <2>3. pc'[x] = f
    BY <1>0, <2>1 DEF Goto
  <2>4. ~EachCalls(x)
    <3>1. pc[x].i > Len(workers[x][pc[x].side])
      BY <1>2 DEF EachEnds
    <3>2. Len(workers[x][pc[x].side]) \in Nat
      <4>1. pc[x].side \in DOMAIN workers[x]
        BY <1>0, <1>2, EachEndsStack
      <4> QED BY <1>0, <4>1 DEF Types, ListTypes
    <3> QED BY <1>0, <3>1, <3>2 DEF EachCalls, Frames
  <2> QED BY <2>1, <2>2, <2>3, <2>4 DEF edgeVars
<1> QED
  BY <1>1, <1>2

LEMMA SidesNext ==
  ASSUME GraphOK, Types, StackInv, SidesInv, Next
  PROVE  SidesInv'
<1>0. graph' = graph
  BY SameGraph
<1> SUFFICES ASSUME NEW y \in Nodes(graph) \cap alive' PROVE SidesAt(y)'
  BY <1>0 DEF SidesInv
<1>1. y \in alive /\ SidesAt(y)
  BY Moves DEF SidesInv
<1>2. /\ y \in Parts(graph) /\ Sides(y) = 1 .. LastSide(y) /\ LastSide(y) \in Nat
      /\ pc[y] \in Frames /\ FrameOK(y, pc[y])
  BY KindsDiffer, OutletShape DEF Types, FrameTypes
<1>3. Sides(y)' = Sides(y)
  BY <1>0 DEF Sides
<1>4. CASE \E s, k, m : Pushing(y, s, k, m)
  <2>1. PICK s, k, m : Pushing(y, s, k, m)
    BY <1>4
  <2>2. \/ pc'[y].at = "idle"
        \/ pc'[y].at \in {"push", "wake", "block"} /\ pc'[y].side = s /\ held'[y][s] = <<>>
        \/ pc'[y].at = "round" /\ pc'[y].busy
    BY <1>1, <2>1, PushHolds, IdleFrames
  <2> QED BY <2>2 DEF SidesAt
<1>5. CASE NodeStep(y) /\ \A s, k, m : ~Pushing(y, s, k, m)
  <2>1. \/ pc'[y].at \notin {"round", "push", "wake", "block"}
        \/ pc'[y] = Entered /\ held' = held
        \/ /\ held' = held /\ pc[y].at = "wake"
           /\ \/ pc'[y].at = "push" /\ pc'[y].side = pc[y].side
              \/ pc'[y].at = "round" /\ pc'[y].busy
        \/ /\ held' = held /\ pc[y].at = "round" /\ held[y][pc[y].side] = <<>>
           /\ pc'[y].at = "round" /\ pc'[y].side = pc[y].side + 1 /\ pc'[y].busy = pc[y].busy
    <3>1. CASE EachCalls(y) \/ EachEnds(y)
      BY <3>1, EachMoves
    <3>2. CASE ~(EachCalls(y) \/ EachEnds(y))
      BY <1>1, <1>5, <3>2, QuietMoves, IdleFrames
    <3> QED BY <3>1, <3>2
  <2>2. CASE pc'[y].at \notin {"round", "push", "wake", "block"}
    BY <2>2 DEF SidesAt
  <2>3. CASE pc'[y] = Entered /\ held' = held
    BY <1>2, <1>3, <2>3, IdleFrames DEF SidesAt
  <2>4. CASE /\ held' = held /\ pc[y].at = "wake"
             /\ \/ pc'[y].at = "push" /\ pc'[y].side = pc[y].side
                \/ pc'[y].at = "round" /\ pc'[y].busy
    BY <1>1, <2>4 DEF SidesAt
  <2>5. CASE /\ held' = held /\ pc[y].at = "round" /\ held[y][pc[y].side] = <<>>
             /\ pc'[y].at = "round" /\ pc'[y].side = pc[y].side + 1 /\ pc'[y].busy = pc[y].busy
    <3>1. pc[y].side \in Nat
      BY <1>2 DEF Frames
    <3>2. ~pc'[y].busy => \A s \in Sides(y) : s < pc'[y].side => held'[y][s] = <<>>
      BY <1>1, <1>2, <2>5, <3>1 DEF SidesAt
    <3> QED BY <1>3, <2>5, <3>2 DEF SidesAt
  <2> QED BY <2>1, <2>2, <2>3, <2>4, <2>5
<1>6. CASE /\ held'[y] = held[y]
           /\ \/ pc'[y] = pc[y]
              \/ pc[y].at = "idle" /\ pc'[y] = Entered
              \/ pc[y].at = "call" /\ pc'[y].at = "each"
  <2>1. CASE pc'[y] = pc[y]
    BY <1>1, <1>3, <1>6, <2>1 DEF SidesAt
  <2>2. CASE pc'[y] = Entered
    BY <1>2, <1>3, <2>2, IdleFrames DEF SidesAt
  <2>3. CASE pc'[y].at = "each"
    BY <2>3 DEF SidesAt
  <2> QED BY <1>6, <2>1, <2>2, <2>3
<1> QED
  BY <1>4, <1>5, <1>6, Moves

\* What a step does to the count of an outlet.
LEMMA CountMoves ==
  ASSUME GraphOK, Types, Next, NEW o \in Outlets(graph)
  PROVE  passedBy'[o] = passedBy[o] \/ passedBy'[o] = 0 \/ (passedBy'[o] = passedBy[o] + 1 /\ Holds(o))
<1>1. CASE PushStep
  <2>1. PICK u \in Outlets(graph) : \E m \in Message : Push(u, m)
    BY <1>1 DEF PushStep
  <2>2. PICK m \in Message : Push(u, m)
    BY <2>1
  <2> QED BY <2>2, PushCounts, OutletShape DEF Types
<1>2. CASE PopStep
  BY <1>2 DEF PopStep, Pop
<1>3. CASE DropStep
  BY <1>3 DEF DropStep, Drop
<1>4. CASE UNCHANGED edgeVars
  BY <1>4 DEF edgeVars
<1> QED
  BY <1>1, <1>2, <1>3, <1>4, EdgeSteps

LEMMA RefusedNext ==
  ASSUME GraphOK, Types, StackInv, SidesInv, RefusedInv, Next
  PROVE  RefusedInv'
<1>0. graph' = graph
  BY SameGraph
<1> SUFFICES ASSUME NEW o \in Outlets(graph), o[1] \in Nodes(graph) \cap alive', passedBy'[o] # 0
             PROVE  Holds(o)' \/ Blocks(o)'
  BY <1>0 DEF RefusedInv
<1> DEFINE x == o[1]
<1>1. x \in alive /\ SidesAt(x)
  BY Moves DEF SidesInv
<1>2. Holds(o) \/ Blocks(o)
  BY <1>1, CountMoves DEF RefusedInv
<1>3. /\ x \in Parts(graph) /\ o[2] \in Sides(x) /\ o = <<x, o[2], o[3]>> /\ pc[x] \in Frames
  BY OutletShape DEF Types, FrameTypes
<1>4. CASE \E s, k, m : Pushing(x, s, k, m)
  <2>1. PICK s, k, m : Pushing(x, s, k, m)
    BY <1>4
  <2> DEFINE u == <<x, s, k>>
  <2>2. /\ s = pc[x].side /\ u \in Outlets(graph) /\ \A r \in Sides(x) : r # s => held'[x][r] = held[x][r]
        /\ \/ /\ Push(u, m) /\ Outcome(u, m) \in {"pushed", "dropped"}
           \/ pc'[x].at = "block" /\ pc'[x].side = s /\ pc'[x].i = k
           \/ held'[x][s] # <<>> /\ held'[x][s][1].at = k
    BY <1>1, <2>1, PushHolds
  <2>3. CASE o[2] # s
    <3>1. ~Blocks(o)
      BY <2>2, <2>3 DEF Blocks
    <3> QED BY <1>2, <1>3, <2>2, <2>3, <3>1 DEF Holds
  <2>4. CASE o[2] = s /\ o[3] = k
    <3>1. o = u
      BY <1>3, <2>4
    <3>2. ~(Push(u, m) /\ Outcome(u, m) \in {"pushed", "dropped"})
      BY <2>2, <3>1, PushCounts, OutletShape DEF Types
    <3> QED BY <2>2, <2>4, <3>2 DEF Holds, Blocks
  <2>5. CASE o[2] = s /\ o[3] # k
    <3>1. \/ pc[x].at \in {"push", "block"} /\ k = pc[x].i
          \/ pc[x].at = "round" /\ held[x][s] # <<>> /\ k = held[x][s][1].at
          \/ pc[x].at = "round" /\ held[x][s] = <<>>
      BY <2>1 DEF Pushing
    <3> QED BY <1>1, <1>2, <2>2, <2>5, <3>1 DEF Holds, Blocks, SidesAt
  <2> QED BY <2>3, <2>4, <2>5
<1>5. CASE NodeStep(x) /\ \A s, k, m : ~Pushing(x, s, k, m)
  <2>1. held' = held /\ pc[x].at # "block"
    <3>1. CASE EachCalls(x) \/ EachEnds(x)
      BY <3>1, EachMoves
    <3>2. CASE ~(EachCalls(x) \/ EachEnds(x))
      BY <1>1, <1>5, <3>2, QuietMoves
    <3> QED BY <3>1, <3>2
  <2> QED BY <1>2, <2>1 DEF Holds, Blocks
<1>6. CASE /\ held'[x] = held[x]
           /\ \/ pc'[x] = pc[x]
              \/ pc[x].at = "idle" /\ pc'[x] = Entered
              \/ pc[x].at = "call" /\ pc'[x].at = "each"
  BY <1>2, <1>6 DEF Holds, Blocks
<1> QED
  BY <1>1, <1>4, <1>5, <1>6, Moves

LEMMA NodeLists ==
  ASSUME NEW x \in Nodes(graph) \cap alive, NodeStep(x)
  PROVE  workers' = workers \/ EachEnds(x) \/ (Ends(x) /\ pc[x].at # "idle")
<1>1. CASE Resumes(x) \/ Delivers(x) \/ RotateOn(x) \/ Unblock(x)
  BY <1>1 DEF Resumes, Delivers, RotateOn, Unblock
<1>2. CASE PushClosed(x) \/ InputsClosed(x) \/ AllExhausted(x) \/ (WaitFront(x) /\ Ends(x))
  BY <1>2 DEF PushClosed, Tried, InputsClosed, AllExhausted, WaitFront, Running
<1>3. CASE WakeTarget(x) \/ SideIdle(x) \/ Takes(x) \/ FindsEmpty(x) \/ LooksAt(x) \/ Parks(x)
           \/ EachCalls(x) \/ (WaitFront(x) /\ ~Ends(x))
  BY <1>3 DEF WakeTarget, SideIdle, Takes, FindsEmpty, LooksAt, Parks, EachCalls, WaitFront
<1> QED
  BY <1>1, <1>2, <1>3 DEF NodeStep

\* Lists get no longer.
LEMMA ListsMove ==
  ASSUME GraphOK, Types, StackInv, Next, NEW y \in Parts(graph)
  PROVE  /\ DOMAIN workers'[y] = DOMAIN workers[y]
         /\ \A p \in DOMAIN workers[y] : /\ Len(workers'[y][p]) \in Nat
                                         /\ Len(workers'[y][p]) <= Len(workers[y][p])
<1>0. /\ DOMAIN workers = Parts(graph) /\ workers[y] \in Seq(Seq(Nodes(graph)))
      /\ \A p \in DOMAIN workers[y] : workers[y][p] \in Seq(Nodes(graph)) /\ Len(workers[y][p]) \in Nat
      /\ alive \subseteq Parts(graph)
  BY DEF Types, ListTypes, GraphTypes
<1>1. ASSUME workers' = workers
      PROVE  /\ DOMAIN workers'[y] = DOMAIN workers[y]
             /\ \A p \in DOMAIN workers[y] : /\ Len(workers'[y][p]) \in Nat
                                             /\ Len(workers'[y][p]) <= Len(workers[y][p])
  BY <1>0, <1>1
<1>2. ASSUME NEW x \in Parts(graph), EachEnds(x)
      PROVE  /\ DOMAIN workers'[y] = DOMAIN workers[y]
             /\ \A p \in DOMAIN workers[y] : /\ Len(workers'[y][p]) \in Nat
                                             /\ Len(workers'[y][p]) <= Len(workers[y][p])
  <2>1. /\ pc[x].side \in DOMAIN workers[x]
        /\ workers'[x][pc[x].side] = RotateLeft(workers[x][pc[x].side])
        /\ \A q \in DOMAIN workers[x] : q # pc[x].side => workers'[x][q] = workers[x][q]
        /\ DOMAIN workers'[y] = DOMAIN workers[y] /\ (y # x => workers'[y] = workers[y])
    BY <1>2, EachEndsStack
  <2>2. y = x => Len(workers'[y][pc[y].side]) = Len(workers[y][pc[y].side])
    BY <1>0, <2>1, RotateLeftSeq
  <2> QED BY <1>0, <2>1, <2>2
<1>3. ASSUME NEW x \in Nodes(graph) \cap alive, pc[x].at # "idle", Ends(x)
      PROVE  /\ DOMAIN workers'[y] = DOMAIN workers[y]
             /\ \A p \in DOMAIN workers[y] : /\ Len(workers'[y][p]) \in Nat
                                             /\ Len(workers'[y][p]) <= Len(workers[y][p])
  <2> DEFINE o == graph.owner[x]
             s == pc[o].side
             w == workers[o][s]
  <2>1. /\ workers' = [workers EXCEPT ![o][s] = SwapRemove(w, pc[o].i)]
        /\ s \in DOMAIN workers[o] /\ w # <<>> /\ o \in Parts(graph)
    BY <1>3, EndsShape
  <2>2. w \in Seq(Nodes(graph))
    BY <2>1 DEF Types, ListTypes
  <2>3. Len(SwapRemove(w, pc[o].i)) = Len(w) - 1 /\ Len(w) \in Nat \ {0}
    BY <2>1, <2>2, SwapRemoveSeq, SeqShape
  <2>4. /\ y # o => workers'[y] = workers[y]
        /\ y = o => /\ DOMAIN workers'[y] = DOMAIN workers[y] /\ workers'[y][s] = SwapRemove(w, pc[o].i)
                    /\ \A p \in DOMAIN workers[y] : p # s => workers'[y][p] = workers[y][p]
    BY <1>0, <2>1
  <2> HIDE DEF o, s
  <2> QED BY <1>0, <2>3, <2>4
<1>5. ASSUME NEW t, \/ EachCalls(t) \/ ThreadEnds(t) \/ IoWorks(t) \/ IoReads(t) \/ IoPushes(t) \/ IoDrops(t)
                    \/ Fails(t) \/ WakeTarget(t) \/ WriterLeaves(t) \/ Writes(t) \/ TeeLeaves(t)
      PROVE  workers' = workers
  BY <1>5 DEF EachCalls, ThreadEnds, IoWorks, IoReads, IoPushes, IoDrops, Fails, WakeTarget, WriterLeaves,
       Writes, TeeLeaves
<1>6. CASE \E x \in Nodes(graph) \cap alive : NodeStep(x)
  <2>1. PICK x \in Nodes(graph) \cap alive : NodeStep(x)
    BY <1>6
  <2>2. x \in Parts(graph)
    BY <1>0
  <2> QED BY <1>1, <1>2, <1>3, <2>1, <2>2, NodeLists
<1>7. CASE ~\E x \in Nodes(graph) \cap alive : NodeStep(x)
  <2>1. workers' = workers \/ \E t \in Threads(graph) : EachEnds(t)
    BY <1>0, <1>5, <1>7, Steps
  <2>2. \A t \in Threads(graph) : t \in Parts(graph)
    BY KindsDiffer
  <2> QED BY <1>1, <1>2, <2>1, <2>2
<1> QED
  BY <1>6, <1>7

LEMMA ShrinkNext ==
  ASSUME GraphOK, Types, StackInv, ShrinkInv, Next
  PROVE  ShrinkInv'
<1>0. graph' = graph
  BY SameGraph
<1> SUFFICES ASSUME NEW y \in Parts(graph), NEW p \in DOMAIN workers'[y]
             PROVE  Len(workers'[y][p]) <= Len(graph.owns[y][p])
  BY <1>0 DEF ShrinkInv
<1>1. p \in DOMAIN workers[y] /\ Len(workers'[y][p]) \in Nat /\ Len(workers'[y][p]) <= Len(workers[y][p])
  BY ListsMove
<1>2. Len(workers[y][p]) <= Len(graph.owns[y][p])
  BY <1>1 DEF ShrinkInv
<1>3. Len(workers[y][p]) \in Nat
  BY <1>1 DEF Types, ListTypes
<1>4. Len(graph.owns[y][p]) \in Nat
  <2>1. graph.owns[y] \in Seq(Seq(Nodes(graph))) /\ Len(workers[y]) = Len(graph.owns[y])
        /\ workers[y] \in Seq(Seq(Nodes(graph)))
    BY DEF GraphOK, Shaped, OwnedOnce, Types, ListTypes
  <2> QED BY <1>1, <2>1
<1> QED
  BY <1>1, <1>2, <1>3, <1>4

\* Who works is in a call of its owner.
LEMMA OwnerCalls ==
  ASSUME GraphOK, StackInv, NEW z \in Nodes(graph) \cap alive, pc[z].at # "idle"
  PROVE  pc[graph.owner[z]].at = "call"
BY DEF StackInv, CallInv, Calls

LEMMA EmptyNext ==
  ASSUME GraphOK, Types, StackInv, EmptyInv, Next
  PROVE  EmptyInv'
<1>0. graph' = graph
  BY SameGraph
<1> SUFFICES ASSUME NEW o \in Outlets(graph), NEW p, Turns(o, p), To(o)[1] \in alive',
                    pc'[To(o)[1]].at = "input", To(o)[2] < pc'[To(o)[1]].i
             PROVE  buf'[To(o)] = <<>>
  BY <1>0 DEF EmptyInv, Turns, TakesTurns, To, Bound
<1> DEFINE i == To(o)
           c == To(o)[1]
<1>1. /\ c \in Nodes(graph) /\ c \in Parts(graph) /\ c \in alive /\ i = <<c, i[2]>> /\ p \in DOMAIN graph.owns[c]
      /\ i \in Inputs(graph) /\ i[2] \in Nat \ {0} /\ pc[c] \in Frames
  <2>1. c \in alive
    BY AliveOnly
  <2>2. i[2] \in DOMAIN graph.bound[c] /\ DOMAIN graph.bound[c] \subseteq Nat \ {0}
    BY OutletShape
  <2> QED BY <2>1, <2>2, TurnShape DEF Types, FrameTypes
<1>2. ASSUME pc[c].at = "input", i[2] < pc[c].i PROVE buf[i] = <<>>
  BY <1>1, <1>2 DEF EmptyInv
<1>6. pc'[c].at = "input" /\ pc'[c].i # 1 /\ c \in Nodes(graph) \cap alive /\ c \in alive'
  BY <1>1
<1>3. ASSUME pc'[c] = pc[c], buf'[i] = buf[i] PROVE buf'[i] = <<>>
  BY <1>2, <1>3
<1>4. CASE \E z \in Nodes(graph) \cap alive : NodeStep(z)
  <2>1. PICK z \in Nodes(graph) \cap alive : NodeStep(z)
    BY <1>4
  <2>2. CASE z = c
    <3>1. ~\E s, k, m : Pushing(c, s, k, m)
      <4> SUFFICES ASSUME NEW s, NEW k, NEW m, Pushing(c, s, k, m) PROVE FALSE
        OBVIOUS
      <4>1. pc'[c].at # "input"
        BY <1>1, PushHolds, IdleFrames
      <4> QED BY <4>1
    <3>2. ~(EachCalls(c) \/ EachEnds(c))
      <4> HIDE DEF c
      <4> QED BY <1>6, EachMoves
    <3>3. FindsEmpty(c) /\ pc'[c].i = pc[c].i + 1 /\ pc[c].at = "input"
      <4> HIDE DEF c
      <4> QED BY <1>6, <2>1, <2>2, <3>1, <3>2, QuietMoves, IdleFrames DEF FindsEmpty, Running
    <3>4. buf[<<c, pc[c].i>>] = <<>> /\ buf' = buf
      BY <3>3 DEF FindsEmpty, edgeVars
    <3>5. i[2] = pc[c].i \/ i[2] < pc[c].i
      BY <1>1, <3>3 DEF Frames
    <3>6. CASE i[2] = pc[c].i
      BY <1>1, <3>4, <3>6
    <3>7. CASE i[2] < pc[c].i
      BY <1>2, <3>3, <3>4, <3>7
    <3> QED BY <3>5, <3>6, <3>7
  <2>3. CASE z # c
    <3>1. pc'[c] = pc[c]
      BY <1>1, <2>1, <2>3, NodeTouches, IdleFrames
    <3>2. ~\E s, k, m : Pushing(z, s, k, m) /\ graph.owner[z] = c
      <4> SUFFICES ASSUME NEW s, NEW k, NEW m, Pushing(z, s, k, m), graph.owner[z] = c PROVE FALSE
        OBVIOUS
      <4>1. pc[z].at # "idle"
        BY DEF Pushing
      <4>2. pc[c].at = "call"
        BY <4>1, OwnerCalls
      <4> QED BY <3>1, <4>2
    <3>3. buf'[i] = buf[i]
      BY <2>1, <2>3, <3>2, NodeInput
    <3> QED BY <1>3, <3>1, <3>3
  <2> QED BY <2>2, <2>3
<1>5. CASE ~\E z \in Nodes(graph) \cap alive : NodeStep(z)
  <2>1. \/ \E t \in Threads(graph) \cap alive :
              \/ EachCalls(t) \/ EachEnds(t) \/ ThreadEnds(t) \/ IoWorks(t) \/ IoReads(t)
              \/ IoPushes(t) \/ IoDrops(t)
        \/ \E x \in Nodes(graph) \cap alive : Fails(x)
        \/ \E w \in Writers(graph) \cap alive : WakeTarget(w) \/ WriterLeaves(w) \/ Writes(w)
        \/ \E r \in Tees(graph) \cap alive : TeeLeaves(r)
    BY <1>5, Steps DEF Types, GraphTypes
  <2>2. pc'[c] = pc[c]
    BY <1>1, <2>1, OutsideTouches, IdleFrames
  <2>3. buf'[i] = buf[i]
    BY <2>1, OutsideInput
  <2> QED BY <1>3, <2>2, <2>3
<1> QED
  BY <1>4, <1>5

-----------------------------------------------------------------------------
(* A step and an outlet o whose input's producers take turns on list p: x     *)
(* pushes into input i, which c owns.                                         *)

LEMMA TurnCtx ==
  ASSUME GraphOK, Types, StackInv, StackInv', ShrinkInv, Next,
         NEW o \in Outlets(graph), NEW p, Turns(o, p), o[1] \in alive',
         NEW c, NEW x, NEW i, c = To(o)[1], x = o[1], i = To(o)
  PROVE  /\ graph' = graph
         /\ x \in Nodes(graph) /\ x \in Parts(graph) /\ x \in alive /\ x \in alive'
         /\ c \in Nodes(graph) /\ c \in Parts(graph) /\ c \in alive /\ c \in alive'
         /\ graph.owner[x] = c /\ x # c /\ i \in Inputs(graph) /\ i = <<c, i[2]>> /\ i[2] \in 1 .. NumInputs(c)
         /\ NumInputs(c) \in Nat \ {0}
         /\ Bound(i) \in Nat \ {0} /\ Len(graph.owns[c][p]) \in Nat
         /\ pc \in [Parts(graph) -> Frames] /\ pc[c] \in Frames /\ pc[x] \in Frames
         /\ pc' \in [Parts(graph) -> Frames] /\ pc'[c] \in Frames /\ pc'[x] \in Frames
         /\ FrameOK(c, pc[c]) /\ FrameOK(x, pc[x])
         /\ o[2] \in Sides(x) /\ o[2] \in Nat \ {0} /\ o = <<x, o[2], o[3]>>
         /\ p \in Nat \ {0} /\ p \in DOMAIN workers[c] /\ p \in DOMAIN graph.owns[c]
         /\ workers[c][p] \in Seq(Nodes(graph)) /\ Len(workers[c][p]) \in Nat
         /\ DOMAIN workers[c][p] = 1 .. Len(workers[c][p])
         /\ Len(workers[c][p]) <= Len(graph.owns[c][p])
         /\ DOMAIN workers'[c][p] = 1 .. Len(workers'[c][p]) /\ Len(workers'[c][p]) \in Nat
         /\ Len(buf[i]) \in Nat /\ Len(buf[i]) <= Bound(i) /\ passedBy[o] \in Nat
         /\ \A j, h \in DOMAIN workers[c][p] : workers[c][p][j] = workers[c][p][h] => j = h
<1>0. graph' = graph
  BY SameGraph
<1>1. /\ x \in Nodes(graph) /\ x \in Parts(graph) /\ c \in Nodes(graph) /\ c \in Parts(graph)
      /\ graph.owner[x] = c /\ x # c /\ i \in Inputs(graph) /\ i = <<c, i[2]>>
      /\ Bound(i) \in Nat \ {0} /\ Len(graph.owns[c][p]) \in Nat
      /\ p \in DOMAIN graph.owns[c] /\ p \in Nat \ {0}
      /\ o[2] \in Sides(x) /\ o[2] \in Nat \ {0} /\ o = <<x, o[2], o[3]>>
  BY TurnShape
<1>2. x \in alive /\ c \in alive /\ c \in alive'
  <2>1. c \in alive'
    BY <1>0, <1>1 DEF StackInv, HouseInv
  <2> QED BY <2>1, AliveOnly
<1>3. i[2] \in 1 .. NumInputs(c) /\ NumInputs(c) \in Nat \ {0}
  BY <1>1, OutletShape
<1>4. /\ pc \in [Parts(graph) -> Frames] /\ pc[c] \in Frames /\ pc[x] \in Frames
      /\ FrameOK(c, pc[c]) /\ FrameOK(x, pc[x])
  BY <1>1 DEF StackInv, FrameTypes
<1>5. pc' \in [Parts(graph) -> Frames] /\ pc'[c] \in Frames /\ pc'[x] \in Frames
  <2>1. pc' \in [Parts(graph) -> Frames]
    BY <1>0, SameMessages DEF StackInv, FrameTypes
  <2> QED BY <1>1, <2>1
<1>6. /\ workers[c] \in Seq(Seq(Nodes(graph))) /\ Len(workers[c]) = Len(graph.owns[c])
      /\ graph.owns[c] \in Seq(Seq(Nodes(graph)))
      /\ \A q, r \in DOMAIN workers[c] : \A j \in DOMAIN workers[c][q], h \in DOMAIN workers[c][r] :
            workers[c][q][j] = workers[c][r][h] => q = r /\ j = h
  BY <1>1 DEF Types, ListTypes, GraphOK, Shaped, OwnedOnce
<1>7. p \in DOMAIN workers[c] /\ workers[c][p] \in Seq(Nodes(graph))
  BY <1>1, <1>6
<1>8. Len(workers[c][p]) \in Nat /\ DOMAIN workers[c][p] = 1 .. Len(workers[c][p])
  BY <1>7
<1>9. DOMAIN workers'[c][p] = 1 .. Len(workers'[c][p]) /\ Len(workers'[c][p]) \in Nat
  <2>1. workers'[c] \in Seq(Seq(Nodes(graph))) /\ Len(workers'[c]) = Len(graph.owns[c])
    BY <1>0, <1>1 DEF StackInv, ListTypes
  <2>2. p \in DOMAIN workers'[c]
    BY <1>1, <1>6, <2>1
  <2>3. workers'[c][p] \in Seq(Nodes(graph))
    BY <2>1, <2>2
  <2> QED BY <2>3
<1>10. Len(workers[c][p]) <= Len(graph.owns[c][p])
  BY <1>1, <1>7 DEF ShrinkInv
<1>11. Len(buf[i]) \in Nat /\ Len(buf[i]) <= Bound(i) /\ passedBy[o] \in Nat
  BY <1>1 DEF Types, EdgeTypes
<1>12. \A j, h \in DOMAIN workers[c][p] : workers[c][p][j] = workers[c][p][h] => j = h
  <2>1. PICK v : v = workers[c]
    OBVIOUS
  <2>2. p \in DOMAIN v /\ \A q, r \in DOMAIN v : \A j \in DOMAIN v[q], h \in DOMAIN v[r] :
                            v[q][j] = v[r][h] => q = r /\ j = h
    BY <1>6, <1>7, <2>1
  <2>3. \A j, h \in DOMAIN v[p] : v[p][j] = v[p][h] => j = h
    BY ONLY <2>2
  <2> QED BY <2>1, <2>3
<1> QED
  BY <1>0, <1>1, <1>2, <1>3, <1>4, <1>5, <1>7, <1>8, <1>9, <1>10, <1>11, <1>12, Zenon

LEMMA DueNow ==
  ASSUME graph' = graph, NEW o, NEW p, NEW j, NEW c, NEW x, c = To(o)[1], x = o[1]
  PROVE  /\ DueAt(o, p, j) <=> Working(c) /\ (ToCome(c, p, j) \/ (InTurn(c, p, j) /\ ~Past(x, o[2])))
         /\ HadAt(o, p, j) <=> /\ Working(c) /\ pc[c].side = p
                               /\ j < pc[c].i \/ (InTurn(c, p, j) /\ Past(x, o[2]))
         /\ DueAt(o, p, j)' <=> Working(c)' /\ (ToCome(c, p, j)' \/ (InTurn(c, p, j)' /\ ~Past(x, o[2])'))
         /\ HadAt(o, p, j)' <=> /\ Working(c)' /\ pc'[c].side = p
                                /\ j < pc'[c].i \/ (InTurn(c, p, j)' /\ Past(x, o[2])')
<1>1. To(o)' = To(o)
  BY DEF To
<1> QED
  BY <1>1 DEF DueAt, HadAt

\* The same where the step leaves c between two of its calls.
LEMMA RoundNow ==
  ASSUME graph' = graph, NEW o, NEW p, NEW j, NEW c, c = To(o)[1], pc'[c].at = "each"
  PROVE  /\ DueAt(o, p, j)' <=> \/ p > pc'[c].side
                                \/ p = pc'[c].side /\ (j > pc'[c].i \/ j = pc'[c].i)
         /\ HadAt(o, p, j)' <=> pc'[c].side = p /\ j < pc'[c].i
<1>1. Working(c)' /\ ~InTurn(c, p, j)'
  BY DEF Working, InTurn
<1>2. ToCome(c, p, j)' <=> \/ p > pc'[c].side
                           \/ p = pc'[c].side /\ (j > pc'[c].i \/ j = pc'[c].i)
  BY DEF ToCome
<1>3. /\ DueAt(o, p, j)' <=> Working(c)' /\ (ToCome(c, p, j)' \/ (InTurn(c, p, j)' /\ ~Past(o[1], o[2])'))
      /\ HadAt(o, p, j)' <=> /\ Working(c)' /\ pc'[c].side = p
                             /\ j < pc'[c].i \/ (InTurn(c, p, j)' /\ Past(o[1], o[2])')
  BY DueNow
<1> QED
  BY <1>1, <1>2, <1>3

LEMMA TurnNow ==
  ASSUME graph' = graph, NEW o, NEW p, NEW j, NEW c, NEW i, c = To(o)[1], i = To(o),
         DueAt(o, p, j)' => DueBound(Bound(i), Len(graph.owns[c][p]), Len(workers'[c][p]), j,
                                     Len(buf'[i]), passedBy'[o]),
         HadAt(o, p, j)' => /\ HadBound(Bound(i), Len(graph.owns[c][p]), Len(workers'[c][p]), j, passedBy'[o])
                            /\ Holds(o)' => ~(Bound(i) = 0 \/ Len(buf'[i]) < Bound(i)),
         ~DueAt(o, p, j)' /\ ~HadAt(o, p, j)' => NextBound(Bound(i), Len(graph.owns[c][p]), j, passedBy'[o])
  PROVE  TurnAt(o, p, j)'
<1>1. To(o)' = i /\ Bound(i)' = Bound(i) /\ graph' = graph
  BY DEF To, Bound
<1>2. HasRoom(i)' <=> (Bound(i) = 0 \/ Len(buf'[i]) < Bound(i))
  BY <1>1 DEF HasRoom
<1> QED
  BY <1>1, <1>2 DEF TurnAt

\* Nobody went first since.
LEMMA TurnZero ==
  ASSUME graph' = graph, NEW o, NEW p, NEW j, passedBy'[o] = 0, ~Holds(o)'
  PROVE  TurnAt(o, p, j)'
BY TurnNow DEF DueBound, HadBound, NextBound

\* Nothing it depends on changed.
LEMMA TurnSame ==
  ASSUME graph' = graph, NEW o, NEW p, NEW j, NEW c, NEW i, c = To(o)[1], i = To(o),
         TurnAt(o, p, j), passedBy'[o] = passedBy[o], buf'[i] = buf[i],
         Len(workers'[c][p]) = Len(workers[c][p]),
         DueAt(o, p, j)' <=> DueAt(o, p, j), HadAt(o, p, j)' <=> HadAt(o, p, j),
         HadAt(o, p, j) => (Holds(o)' => Holds(o))
  PROVE  TurnAt(o, p, j)'
BY TurnNow DEF TurnAt, HasRoom

\* The next round is as far away as it was.
LEMMA TurnRests ==
  ASSUME graph' = graph, NEW o, NEW p, NEW j, TurnAt(o, p, j), passedBy'[o] = passedBy[o],
         ~DueAt(o, p, j), ~HadAt(o, p, j), ~DueAt(o, p, j)', ~HadAt(o, p, j)'
  PROVE  TurnAt(o, p, j)'
BY TurnNow DEF TurnAt

LEMMA NodeRuns ==
  ASSUME NEW z, NodeStep(z)
  PROVE  pc[z].at \notin {"idle", "call"}
BY DEF NodeStep, Resumes, Delivers, RotateOn, Unblock, PushClosed, Tried, SideIdle, WakeTarget, Takes,
   FindsEmpty, InputsClosed, WaitFront, LooksAt, AllExhausted, Parks, EachCalls, EachEnds, Running

\* A step that touches neither the input nor the list.
LEMMA TurnFar ==
  ASSUME graph' = graph, NEW o, NEW p, NEW j, NEW c, NEW x, NEW i, c = To(o)[1], x = o[1], i = To(o),
         TurnAt(o, p, j), passedBy'[o] = passedBy[o], buf'[i] = buf[i], held'[x] = held[x],
         workers'[c] = workers[c],
         pc'[c] = pc[c] \/ (pc[c].at = "idle" /\ pc'[c] = Entered),
         \/ pc'[x] = pc[x]
         \/ pc[x].at = "idle" /\ pc'[x] = Entered
         \/ pc[x].at = "call" /\ pc'[x].at = "each"
  PROVE  TurnAt(o, p, j)'
<1>1. Past(x, o[2])' <=> Past(x, o[2])
  BY IdleFrames DEF Past
<1>2. /\ Working(c)' <=> Working(c)
      /\ Working(c) => (ToCome(c, p, j)' <=> ToCome(c, p, j)) /\ (InTurn(c, p, j)' <=> InTurn(c, p, j))
                       /\ pc'[c] = pc[c]
  BY IdleFrames DEF Working, ToCome, InTurn
<1>3. (DueAt(o, p, j)' <=> DueAt(o, p, j)) /\ (HadAt(o, p, j)' <=> HadAt(o, p, j))
  BY <1>1, <1>2, DueNow
<1>4. Holds(o)' => Holds(o)
  BY DEF Holds
<1> QED
  BY <1>3, <1>4, TurnSame

LEMMA TurnHas ==
  ASSUME TurnInv, NEW o \in Outlets(graph), NEW p, Turns(o, p), o[1] \in alive,
         NEW c, c = To(o)[1], NEW j \in DOMAIN workers[c][p], workers[c][p][j] = o[1]
  PROVE  TurnAt(o, p, j)
BY DEF TurnInv, Turns

\* A step of the owner.
LEMMA TurnOwner ==
  ASSUME GraphOK, Types, StackInv, StackInv', ShrinkInv, EmptyInv, TurnInv, Next,
         NEW o \in Outlets(graph), NEW p, Turns(o, p), o[1] \in alive',
         NEW c, NEW x, NEW i, c = To(o)[1], x = o[1], i = To(o), NodeStep(c),
         NEW j \in DOMAIN workers'[c][p], workers'[c][p][j] = x
  PROVE  TurnAt(o, p, j)'
<1> DEFINE m == Len(workers[c][p])
<1>0. /\ graph' = graph
      /\ x \in Nodes(graph) /\ x \in Parts(graph) /\ x \in alive /\ x \in alive'
      /\ c \in Nodes(graph) /\ c \in Parts(graph) /\ c \in alive /\ c \in alive'
      /\ graph.owner[x] = c /\ x # c /\ i \in Inputs(graph) /\ i = <<c, i[2]>> /\ i[2] \in 1 .. NumInputs(c)
      /\ NumInputs(c) \in Nat \ {0}
      /\ Bound(i) \in Nat \ {0} /\ Len(graph.owns[c][p]) \in Nat
      /\ pc[c] \in Frames /\ pc[x] \in Frames /\ FrameOK(c, pc[c])
      /\ o[2] \in Nat \ {0} /\ p \in Nat \ {0} /\ p \in DOMAIN workers[c]
      /\ workers[c][p] \in Seq(Nodes(graph)) /\ m \in Nat /\ DOMAIN workers[c][p] = 1 .. m
      /\ DOMAIN workers'[c][p] = 1 .. Len(workers'[c][p]) /\ Len(workers'[c][p]) \in Nat
      /\ Len(buf[i]) \in Nat /\ passedBy[o] \in Nat
  BY TurnCtx
<1>1. pc[c].at \notin {"idle", "call"} /\ pc[x].at = "idle"
  BY <1>0, NodeRuns, OwnerCalls
<1>2. held'[x] = held[x] /\ (pc'[x] = pc[x] \/ pc'[x] = Entered)
  <2>1. c \in Nodes(graph) \cap alive /\ x \in Nodes(graph) \cap alive' /\ x # c
    BY <1>0
  <2>2. held'[x] = held[x] /\ (pc'[x] = pc[x] \/ pc'[x] = Entered \/ pc[x].at = "call")
    BY <2>1, NodeTouches
  <2> QED BY <1>1, <2>2
<1>3. ~Past(x, o[2]) /\ ~Past(x, o[2])' /\ (Holds(o)' => Holds(o))
  BY <1>1, <1>2, IdleFrames DEF Past, Holds
<1>4. passedBy'[o] = passedBy[o]
  BY <1>0, NodeInput, Owners
<1>5. ASSUME workers'[c][p] = workers[c][p] PROVE TurnAt(o, p, j)
  BY <1>0, <1>5, TurnHas
<1>10. /\ DueAt(o, p, j) <=> Working(c) /\ (ToCome(c, p, j) \/ InTurn(c, p, j))
       /\ HadAt(o, p, j) <=> Working(c) /\ pc[c].side = p /\ j < pc[c].i
       /\ DueAt(o, p, j)' <=> Working(c)' /\ (ToCome(c, p, j)' \/ InTurn(c, p, j)')
       /\ HadAt(o, p, j)' <=> Working(c)' /\ pc'[c].side = p /\ j < pc'[c].i
  BY <1>0, <1>3, DueNow
<1>6. j \in Nat \ {0} /\ pc[c].i \in Nat \ {0} /\ pc[c].side \in Nat \ {0}
  <2>1. DOMAIN workers'[c][p] = 1 .. Len(workers'[c][p]) /\ Len(workers'[c][p]) \in Nat /\ pc[c] \in Frames
    BY <1>0
  <2>2. pc[c].i \in Nat \ {0} /\ pc[c].side \in Nat \ {0}
    BY <2>1, FrameParts
  <2>3. j \in Nat \ {0}
    <3> DEFINE l == Len(workers'[c][p])
    <3>1. j \in 1 .. l /\ l \in Nat
      BY <2>1
    <3> HIDE DEF l
    <3> QED BY <3>1
  <2> QED BY <2>2, <2>3
<1>7. CASE EachCalls(c)
  <2>1. pc[c].at = "each" /\ buf' = buf /\ workers' = workers /\ pc'[c] = [pc[c] EXCEPT !.at = "call"]
    BY <1>0, <1>7, EachMoves
  <2>2. pc'[c].at = "call" /\ pc'[c].side = pc[c].side /\ pc'[c].i = pc[c].i
    BY <1>0, <2>1 DEF Frames
  <2>3. (DueAt(o, p, j)' <=> DueAt(o, p, j)) /\ (HadAt(o, p, j)' <=> HadAt(o, p, j))
    BY <1>0, <1>6, <1>10, <2>1, <2>2 DEF Working, ToCome, InTurn
  <2> QED BY <1>0, <1>3, <1>4, <1>5, <2>1, <2>3, TurnSame
<1>8. CASE EachEnds(c)
  <2> DEFINE q == pc[c].side
  <2>1. /\ pc[c].at = "each" /\ buf' = buf
        /\ \/ pc'[c] = Frame("each", q + 1, 1, FALSE, <<>>)
           \/ pc'[c].at = "input" /\ ~(q < Len(workers[c]))
    BY <1>0, <1>8, EachMoves
  <2>2. \/ pc'[c].at = "each" /\ pc'[c].side = q + 1 /\ pc'[c].i = 1
        \/ pc'[c].at = "input" /\ ~(q < Len(workers[c]))
    BY <2>1 DEF Frame
  <2>3. /\ workers'[c][q] = RotateLeft(workers[c][q]) /\ q \in DOMAIN workers[c]
        /\ \A r \in DOMAIN workers[c] : r # q => workers'[c][r] = workers[c][r]
    BY <1>0, <1>8, EachEndsStack
  <2>4. pc[c].i > Len(workers[c][q])
    BY <1>8 DEF EachEnds
  <2>5. Len(workers[c]) \in Nat /\ p <= Len(workers[c])
    <3>1. workers[c] \in Seq(Seq(Nodes(graph))) /\ p \in DOMAIN workers[c]
      BY <1>0 DEF Types, ListTypes
    <3> QED BY <3>1
  <2>6. CASE q = p
    <3> DEFINE h == IF j < m THEN j + 1 ELSE 1
    <3>1. j \in 1 .. m /\ workers[c][p][h] = x /\ h \in 1 .. m
      <4>1. /\ Len(RotateLeft(workers[c][p])) = m
            /\ \A k \in DOMAIN workers[c][p] :
                 RotateLeft(workers[c][p])[k] = IF k < m THEN workers[c][p][k + 1] ELSE workers[c][p][1]
        <5>1. PICK s : s = workers[c][p]
          OBVIOUS
        <5>2. s \in Seq(Nodes(graph)) /\ m = Len(s)
          BY <1>0, <5>1
        <5> HIDE DEF m
        <5>3. /\ Len(RotateLeft(s)) = m
              /\ \A k \in DOMAIN s : RotateLeft(s)[k] = IF k < m THEN s[k + 1] ELSE s[1]
          BY <5>2, RotateLeftSeq
        <5> QED BY <5>1, <5>3
      <4> QED BY <1>0, <2>3, <2>6, <4>1
    <3>2. TurnAt(o, p, h)
      BY <1>0, <3>1, TurnHas
    <3>3. HadAt(o, p, h)
      <4>1. h < pc[c].i
        BY <1>0, <1>6, <2>4, <2>6, <3>1
      <4> QED BY <1>0, <2>1, <2>6, <4>1, DueNow DEF Working
    <3>4. HadBound(Bound(i), Len(graph.owns[c][p]), m, h, passedBy[o])
      BY <3>2, <3>3 DEF TurnAt
    <3>5. (IF h > 1 THEN h - 1 ELSE m) = j
      BY <1>0, <3>1
    <3>6. h \in Nat \ {0}
      BY <1>0, <3>1
    <3> HIDE DEF h, m
    <3>7. NextBound(Bound(i), Len(graph.owns[c][p]), j, passedBy[o])
      BY <1>0, <3>4, <3>5, <3>6, HadTurns
    <3>8. ~DueAt(o, p, j)' /\ ~HadAt(o, p, j)'
      <4>1. CASE pc'[c].at = "each" /\ pc'[c].side = q + 1
        <5>1. ~(p > pc'[c].side) /\ p # pc'[c].side
          BY <1>6, <2>6, <4>1
        <5>2. graph' = graph
          BY <1>0
        <5>3. /\ DueAt(o, p, j)' <=> \/ p > pc'[c].side
                                     \/ p = pc'[c].side /\ (j > pc'[c].i \/ j = pc'[c].i)
              /\ HadAt(o, p, j)' <=> pc'[c].side = p /\ j < pc'[c].i
          BY <4>1, <5>2, RoundNow
        <5> QED BY <5>1, <5>3
      <4>2. CASE pc'[c].at = "input"
        BY <1>0, <4>2, DueNow DEF Working
      <4> QED BY <2>2, <4>1, <4>2
    <3> QED BY <1>0, <1>4, <3>7, <3>8, TurnNow
  <2>7. CASE q < p
    <3>1. workers'[c][p] = workers[c][p]
      BY <1>0, <2>3, <2>7
    <3>2. pc'[c].at = "each" /\ pc'[c].side = q + 1 /\ pc'[c].i = 1 /\ q + 1 <= p
      BY <1>0, <1>6, <2>2, <2>5, <2>7
    <3>3. DueAt(o, p, j) /\ DueAt(o, p, j)' /\ ~HadAt(o, p, j) /\ ~HadAt(o, p, j)'
      <4>1. Working(c) /\ Working(c)' /\ ToCome(c, p, j) /\ pc[c].side # p
        BY <1>0, <1>6, <2>1, <2>7, <3>2 DEF Working, ToCome
      <4>2. ToCome(c, p, j)'
        <5>1. p > pc'[c].side \/ p = pc'[c].side
          <6>1. q \in Nat /\ p \in Nat
            BY <1>0, <1>6
          <6>2. q + 1 <= p /\ pc'[c].side = q + 1
            BY <3>2
          <6> HIDE DEF q
          <6>3. p > q + 1 \/ p = q + 1
            BY <6>1, <6>2
          <6> QED BY <6>2, <6>3
        <5>2. j > pc'[c].i \/ j = pc'[c].i
          BY <1>6, <3>2
        <5> QED BY <3>2, <5>1, <5>2 DEF ToCome
      <4>3. ~(j < pc'[c].i)
        BY <1>6, <3>2
      <4> QED BY <1>10, <4>1, <4>2, <4>3
    <3> QED BY <1>0, <1>4, <1>5, <2>1, <3>1, <3>3, TurnSame
  <2>8. CASE q > p
    <3>1. workers'[c][p] = workers[c][p]
      BY <1>0, <2>3, <2>8
    <3>2. ~DueAt(o, p, j) /\ ~DueAt(o, p, j)' /\ ~HadAt(o, p, j) /\ ~HadAt(o, p, j)'
      BY <1>0, <1>6, <1>10, <2>1, <2>2, <2>8 DEF Working, ToCome, InTurn
    <3> QED BY <1>0, <1>4, <1>5, <3>1, <3>2, TurnRests
  <2> QED BY <1>0, <1>6, <2>6, <2>7, <2>8
<1>9. CASE ~EachCalls(c) /\ ~EachEnds(c)
  <2>1. /\ workers' = workers /\ pc[c].at \notin {"each", "call"}
        /\ \/ pc'[c].at \notin {"each", "call"}
           \/ /\ FindsEmpty(c) /\ pc[c].i = NumInputs(c)
              /\ pc'[c].at = "each" /\ pc'[c].side = 1 /\ pc'[c].i = 1
    <3>1. CASE \E s, k, a : Pushing(c, s, k, a)
      BY <1>0, <3>1, PushHolds, IdleFrames
    <3>2. CASE ~\E s, k, a : Pushing(c, s, k, a)
      BY <1>0, <1>9, <3>2, QuietMoves, IdleFrames
    <3> QED BY <3>1, <3>2
  <2>2. TurnAt(o, p, j) /\ ~DueAt(o, p, j) /\ ~HadAt(o, p, j)
    BY <1>0, <1>5, <2>1, DueNow DEF Working
  <2>3. CASE pc'[c].at \notin {"each", "call"}
    <3>1. ~DueAt(o, p, j)' /\ ~HadAt(o, p, j)'
      BY <1>0, <2>3, DueNow DEF Working
    <3> QED BY <1>0, <1>4, <2>2, <3>1, TurnRests
  <2>4. CASE /\ FindsEmpty(c) /\ pc[c].i = NumInputs(c)
             /\ pc'[c].at = "each" /\ pc'[c].side = 1 /\ pc'[c].i = 1
    <3>1. buf[<<c, pc[c].i>>] = <<>> /\ buf' = buf /\ pc[c].at = "input"
      BY <2>4 DEF FindsEmpty, edgeVars, Running
    <3>2. buf[i] = <<>>
      <4>1. CASE i[2] = pc[c].i
        BY <1>0, <3>1, <4>1
      <4>2. CASE i[2] < pc[c].i
        <5>1. p \in DOMAIN graph.owns[To(o)[1]]
          BY DEF Turns
        <5> QED BY <1>0, <3>1, <4>2, <5>1 DEF EmptyInv
      <4> QED BY <1>0, <2>4, <4>1, <4>2
    <3>3. Len(buf'[i]) = 0
      BY <3>1, <3>2
    <3>4. ~HadAt(o, p, j)' /\ DueAt(o, p, j)'
      <4>1. /\ p > pc'[c].side \/ p = pc'[c].side
            /\ j > pc'[c].i \/ j = pc'[c].i
            /\ ~(j < pc'[c].i)
        <5>1. p \in Nat \ {0}
          BY <1>0
        <5> QED BY <1>6, <2>4, <5>1
      <4> QED BY <1>0, <2>4, <4>1, RoundNow
    <3>5. NextBound(Bound(i), Len(graph.owns[c][p]), j, passedBy[o])
      BY <2>2 DEF TurnAt
    <3>6. DueBound(Bound(i), Len(graph.owns[c][p]), Len(workers'[c][p]), j, 0, passedBy[o])
      BY <1>0, <1>6, <3>5, NextDue
    <3> QED BY <1>0, <1>4, <3>3, <3>4, <3>6, TurnNow
  <2> QED BY <2>1, <2>3, <2>4
<1> QED
  BY <1>7, <1>8, <1>9

\* Its own step.
LEMMA TurnSelf ==
  ASSUME GraphOK, Types, StackInv, StackInv', SidesInv, RefusedInv, ShrinkInv, TurnInv, Next,
         NEW o \in Outlets(graph), NEW p, Turns(o, p), o[1] \in alive',
         NEW c, NEW x, NEW i, c = To(o)[1], x = o[1], i = To(o), NodeStep(x),
         NEW j \in DOMAIN workers'[c][p], workers'[c][p][j] = x
  PROVE  TurnAt(o, p, j)'
<1> DEFINE s == pc[x].side
           t == o[2]
           b == Bound(i)
           n == Len(graph.owns[c][p])
           m == Len(workers[c][p])
<1>0. /\ graph' = graph
      /\ x \in Nodes(graph) /\ x \in Parts(graph) /\ x \in alive /\ x \in alive'
      /\ c \in Nodes(graph) /\ c \in Parts(graph) /\ c \in alive /\ c \in alive'
      /\ graph.owner[x] = c /\ x # c /\ i \in Inputs(graph)
      /\ b \in Nat \ {0} /\ n \in Nat
      /\ pc \in [Parts(graph) -> Frames] /\ pc[c] \in Frames /\ pc[x] \in Frames
      /\ FrameOK(c, pc[c]) /\ FrameOK(x, pc[x])
      /\ t \in Sides(x) /\ t \in Nat \ {0} /\ o = <<x, o[2], o[3]>>
      /\ p \in Nat \ {0} /\ p \in DOMAIN workers[c]
      /\ m \in Nat /\ DOMAIN workers[c][p] = 1 .. m /\ m <= n
      /\ Len(buf[i]) \in Nat /\ Len(buf[i]) <= b /\ passedBy[o] \in Nat
      /\ \A k, h \in DOMAIN workers[c][p] : workers[c][p][k] = workers[c][p][h] => k = h
  <2>1. /\ graph' = graph
        /\ x \in Nodes(graph) /\ x \in Parts(graph) /\ x \in alive /\ x \in alive'
        /\ c \in Nodes(graph) /\ c \in Parts(graph) /\ c \in alive /\ c \in alive'
        /\ graph.owner[x] = c /\ x # c /\ i \in Inputs(graph)
        /\ b \in Nat \ {0} /\ n \in Nat
    BY TurnCtx
  <2>2. /\ pc \in [Parts(graph) -> Frames] /\ pc[c] \in Frames /\ pc[x] \in Frames
        /\ FrameOK(c, pc[c]) /\ FrameOK(x, pc[x])
        /\ t \in Sides(x) /\ t \in Nat \ {0}
    BY TurnCtx
  <2>3. o = <<x, o[2], o[3]>>
    BY TurnCtx
  <2>4. /\ p \in Nat \ {0} /\ p \in DOMAIN workers[c]
        /\ m \in Nat /\ DOMAIN workers[c][p] = 1 .. m /\ m <= n
        /\ Len(buf[i]) \in Nat /\ Len(buf[i]) <= b /\ passedBy[o] \in Nat
    BY TurnCtx
  <2>5. \A k, h \in DOMAIN workers[c][p] : workers[c][p][k] = workers[c][p][h] => k = h
    BY <2>1, <2>4 DEF Types, ListTypes
  <2> QED BY <2>1, <2>2, <2>3, <2>4, <2>5
<1>1. /\ pc[c].at = "call" /\ pc[c].side = p /\ pc[c].i \in DOMAIN workers[c][p]
      /\ workers[c][p][pc[c].i] = x /\ graph.kind[c] # "io"
  <2>1. pc[x].at # "idle" /\ graph.kind[c] # "io"
    BY <1>0, NodeRuns, KindsDiffer
  <2>2. /\ pc[c].at = "call" /\ pc[c].i \in DOMAIN workers[c][pc[c].side]
        /\ workers[c][pc[c].side][pc[c].i] = x
    <3>1. Calls(graph.owner[x], x)
      BY <1>0, <2>1 DEF StackInv, CallInv
    <3>2. Calls(c, x)
      BY <1>0, <3>1
    <3> QED BY <2>1, <3>2 DEF Calls
  <2>3. pc[c].side \in DOMAIN workers[c]
    BY <1>0, <2>2 DEF FrameOK, Types, ListTypes
  <2>4. pc[c].side = p
    <3> DEFINE q == pc[c].side
               h == pc[c].i
    <3>1. q \in DOMAIN workers[To(o)[1]] /\ h \in DOMAIN workers[To(o)[1]][q] /\ workers[To(o)[1]][q][h] = o[1]
          /\ ListTypes
      BY <2>2, <2>3 DEF Types
    <3> HIDE DEF q, h
    <3>2. q = p
      BY <3>1, TurnPlace
    <3> QED BY <3>2 DEF q
  <2> QED BY <2>1, <2>2, <2>4
<1>2. /\ workers'[c] = workers[c]
      /\ pc'[c] = pc[c] \/ (pc' = Return(x) /\ pc'[x].at \notin {"each", "call", "input"})
  <2>1. \/ pc'[c] = pc[c] \/ pc' = Return(x) \/ Ends(x)
    BY <1>0, <1>1, NodeTouches
  <2>2. ~Ends(x)
    <3>1. pc[x].at # "idle"
      BY NodeRuns
    <3>2. Ends(x) => alive' = alive \ EndsGone(x) /\ x \in EndsGone(x)
      BY <1>0, <3>1, EndsShape
    <3> QED BY <1>0, <3>2
  <2>3. pc' = Return(x) => pc'[x].at \notin {"each", "call", "input"}
    BY <1>0, ReturnFrames, IdleFrames
  <2>4. workers'[c] = workers[c]
    <3>1. CASE \E r, k, a : Pushing(x, r, k, a)
      BY <3>1, PushHolds, <1>0
    <3>2. CASE EachEnds(x)
      BY <1>0, <3>2, EachEndsStack
    <3>3. CASE EachCalls(x)
      BY <1>0, <3>3, EachMoves
    <3>4. CASE ~(\E r, k, a : Pushing(x, r, k, a)) /\ ~EachEnds(x) /\ ~EachCalls(x)
      BY <1>0, <3>4, QuietMoves
    <3> QED BY <3>1, <3>2, <3>3, <3>4
  <2> QED BY <2>1, <2>2, <2>3, <2>4
<1>3. pc[c].i = j /\ j \in 1 .. m /\ TurnAt(o, p, j)
  <2>1. j \in DOMAIN workers[c][p] /\ workers[c][p][j] = x
    BY <1>2
  <2>2. pc[c].i = j
    BY <1>0, <1>1, <2>1
  <2> QED BY <1>0, <2>1, <2>2, TurnHas
<1>4. (DueAt(o, p, j) <=> ~Past(x, t)) /\ (HadAt(o, p, j) <=> Past(x, t))
  BY <1>0, <1>1, <1>3, DueNow DEF Working, ToCome, InTurn
<1>5. ASSUME pc'[c] = pc[c]
      PROVE  (DueAt(o, p, j)' <=> ~Past(x, t)') /\ (HadAt(o, p, j)' <=> Past(x, t)')
  BY <1>0, <1>1, <1>3, <1>5, DueNow DEF Working, ToCome, InTurn
<1>6. ASSUME pc' = Return(x) PROVE ~DueAt(o, p, j)' /\ HadAt(o, p, j)'
  <2>1. pc'[c].at = "each" /\ pc'[c].side = p /\ pc'[c].i = j + 1
    BY <1>0, <1>1, <1>3, <1>6, ReturnFrames
  <2>2. ~(p > pc'[c].side) /\ ~(j > pc'[c].i) /\ j # pc'[c].i /\ j < pc'[c].i
    <3>1. p \in Nat /\ j \in Nat
      BY <1>0, <1>3
    <3> QED BY <2>1, <3>1
  <2> QED BY <1>0, <2>1, <2>2, RoundNow
<1>7. ASSUME passedBy'[o] = passedBy[o], buf'[i] = buf[i], ~Past(x, t), ~Past(x, t)', pc'[c] = pc[c]
      PROVE  TurnAt(o, p, j)'
  BY <1>0, <1>2, <1>3, <1>4, <1>5, <1>7, TurnSame
<1>8. ASSUME passedBy'[o] = passedBy[o], buf'[i] = buf[i], Past(x, t), Holds(o)' => Holds(o),
             pc' = Return(x) \/ (pc'[c] = pc[c] /\ Past(x, t)')
      PROVE  TurnAt(o, p, j)'
  BY <1>0, <1>2, <1>3, <1>4, <1>5, <1>6, <1>8, TurnSame
<1>9. SidesAt(x) /\ (passedBy[o] # 0 => Holds(o) \/ Blocks(o)) /\ Sides(x) = 1 .. LastSide(x)
      /\ LastSide(x) \in Nat /\ s \in Nat \ {0}
  <2>1. SidesAt(x) /\ (passedBy[o] # 0 => Holds(o) \/ Blocks(o))
    BY <1>0 DEF SidesInv, RefusedInv
  <2>2. Sides(x) = 1 .. LastSide(x) /\ LastSide(x) \in Nat
    BY <1>0, OutletShape
  <2>3. s \in Nat \ {0}
    BY <1>0, FrameParts
  <2> QED BY <2>1, <2>2, <2>3
<1>10. ASSUME pc[x].at \in {"round", "push", "block", "wake"}, passedBy'[o] = passedBy[o], buf'[i] = buf[i],
              t # s => held'[x][t] = held[x][t],
              t = s => passedBy[o] = 0 /\ ~Holds(o)',
              \/ pc' = Return(x) /\ s = LastSide(x)
              \/ /\ pc'[c] = pc[c]
                 /\ \/ pc'[x].at \in {"push", "wake", "block"} /\ pc'[x].side = s
                    \/ pc'[x].at = "round" /\ pc'[x].side = s + 1 /\ pc'[x].busy
                    \/ /\ pc'[x].at = "round" /\ pc'[x].side = s + 1 /\ ~pc'[x].busy
                       /\ pc[x].at = "round" /\ ~pc[x].busy
                    \/ pc'[x].at = "input" /\ s = LastSide(x) /\ pc[x].at = "round" /\ ~pc[x].busy
       PROVE  TurnAt(o, p, j)'
  <2>1. CASE t = s
    BY <1>0, <1>10, <2>1, TurnZero
  <2>2. CASE t > s
    <3>1. s # LastSide(x)
      BY <1>0, <1>9, <2>2
    <3>2. ~Past(x, t) /\ ~Past(x, t)'
      BY <1>0, <1>9, <1>10, <2>2, <3>1 DEF Past
    <3> QED BY <1>7, <1>10, <3>1, <3>2
  <2>3. CASE t < s /\ Past(x, t)
    <3>1. pc' = Return(x) \/ (pc'[c] = pc[c] /\ Past(x, t)')
      BY <1>0, <1>9, <1>10, <2>3 DEF Past
    <3>2. Holds(o)' => Holds(o)
      BY <1>0, <1>10, <2>3 DEF Holds
    <3> QED BY <1>8, <1>10, <2>3, <3>1, <3>2
  <2>4. CASE t < s /\ ~Past(x, t)
    <3>1. pc[x].at = "round" /\ ~pc[x].busy
      BY <1>10, <2>4 DEF Past
    <3>2. held[x][t] = <<>> /\ held'[x][t] = <<>>
      BY <1>0, <1>9, <1>10, <2>4, <3>1 DEF SidesAt
    <3>3. ~Holds(o) /\ ~Holds(o)' /\ ~Blocks(o)
      BY <3>1, <3>2 DEF Holds, Blocks
    <3> QED BY <1>0, <1>9, <1>10, <3>3, TurnZero
  <2> QED BY <1>0, <1>9, <2>1, <2>2, <2>3, <2>4
<1>11. CASE \E r, k, a : Pushing(x, r, k, a)
  <2>1. PICK r, k, a : Pushing(x, r, k, a)
    BY <1>11
  <2> DEFINE u == <<x, r, k>>
  <2>2. /\ r = s /\ u \in Outlets(graph) /\ pc[x].at \in {"round", "push", "block"}
        /\ \A q \in Sides(x) : q # s => held'[x][q] = held[x][q]
        /\ \/ /\ held'[x][s] = <<>> /\ Push(u, a) /\ Outcome(u, a) \in {"pushed", "dropped"}
           \/ /\ held'[x][s] = <<>> /\ UNCHANGED edgeVars
              /\ pc[x].at = "round" /\ pc'[x].at = "block" /\ pc'[x].side = s /\ pc'[x].i = k
           \/ /\ held'[x][s] # <<>> /\ held'[x][s][1].at = k /\ Push(u, a) /\ ~HasRoom(To(u))
              /\ Outcome(u, a) \notin {"pushed", "dropped"} /\ pc'[x].at \notin {"push", "wake", "block"}
        /\ \/ pc' = Return(x) /\ s = LastSide(x) /\ pc'[x] = Idle
           \/ /\ pc'[c] = pc[c]
              /\ \/ pc'[x].at \in {"push", "wake", "block"} /\ pc'[x].side = s
                 \/ pc'[x].at = "round" /\ pc'[x].side = s + 1 /\ pc'[x].busy
    BY <1>0, <2>1, PushHolds
  <2>3. CASE u = o
    <3>0. t = s /\ o[3] = k /\ ~Past(x, t)
      BY <1>9, <2>2, <2>3 DEF Past
    <3>1. CASE held'[x][s] = <<>> /\ Push(u, a) /\ Outcome(u, a) \in {"pushed", "dropped"}
      <4>1. passedBy'[o] = 0
        BY <1>0, <2>2, <2>3, <3>1, PushCounts DEF Types
      <4>2. ~Holds(o)'
        BY <3>0, <3>1 DEF Holds
      <4> QED BY <1>0, <4>1, <4>2, TurnZero
    <3>2. CASE /\ UNCHANGED edgeVars
               /\ pc[x].at = "round" /\ pc'[x].at = "block" /\ pc'[x].side = s
      <4>1. pc'[c] = pc[c] /\ ~Past(x, t)'
        BY <1>9, <2>2, <3>0, <3>2, IdleFrames DEF Past
      <4>2. passedBy'[o] = passedBy[o] /\ buf'[i] = buf[i]
        BY <3>2 DEF edgeVars
      <4> QED BY <1>7, <3>0, <4>1, <4>2
    <3>3. CASE Push(u, a) /\ ~HasRoom(To(u)) /\ Outcome(u, a) \notin {"pushed", "dropped"}
               /\ pc'[x].at \notin {"push", "wake", "block"}
      <4>1. passedBy'[o] = passedBy[o] /\ buf'[i] = buf[i]
        <5>1. /\ passedBy'[o] = IF o = u /\ Outcome(u, a) \in {"pushed", "dropped"} THEN 0
                                ELSE IF Outcome(u, a) = "pushed" /\ o \in Overtaken(u) THEN passedBy[o] + 1
                                ELSE passedBy[o]
              /\ buf' = IF Outcome(u, a) = "pushed" THEN [buf EXCEPT ![To(u)] = Append(buf[To(u)], a)] ELSE buf
          BY <3>3 DEF Push, Types, EdgeTypes
        <5> QED BY <3>3, <5>1
      <4>2. ~DueAt(o, p, j)' /\ HadAt(o, p, j)'
        <5>1. CASE pc' = Return(x)
          BY <1>6, <5>1
        <5>2. CASE pc'[c] = pc[c] /\ pc'[x].at = "round" /\ pc'[x].side = s + 1 /\ pc'[x].busy
          <6>1. Past(x, t)'
            BY <1>9, <3>0, <5>2 DEF Past
          <6> QED BY <1>5, <5>2, <6>1
        <5> QED BY <2>2, <3>3, <5>1, <5>2
      <4>3. ~(b = 0 \/ Len(buf[i]) < b)
        BY <2>3, <3>3 DEF HasRoom
      <4>4. DueBound(b, n, m, j, Len(buf[i]), passedBy[o])
        BY <1>3, <1>4, <3>0 DEF TurnAt
      <4>5. HadBound(b, n, m, j, passedBy[o])
        <5>1. j \in Nat \ {0} /\ j <= m /\ Len(buf[i]) # 0
          BY <1>0, <1>3, <4>3
        <5> HIDE DEF b, n, m
        <5> QED BY <1>0, <4>4, <5>1, DueRefused
      <4> QED BY <1>0, <1>2, <4>1, <4>2, <4>3, <4>5, TurnNow
    <3> QED BY <2>2, <3>1, <3>2, <3>3
  <2>4. CASE u # o
    <3>1. To(u) # i
      <4>1. u \in Outlets(graph) /\ u[1] = o[1] /\ u # o
        BY <2>2, <2>4
      <4> HIDE DEF u
      <4> QED BY <4>1 DEF Turns, TakesTurns
    <3>2. passedBy'[o] = passedBy[o] /\ buf'[i] = buf[i]
      <4>1. CASE UNCHANGED edgeVars
        BY <4>1 DEF edgeVars
      <4>2. CASE Push(u, a)
        <5>1. u \in Outlets(graph) /\ To(o) \in Inputs(graph) /\ EdgeTypes /\ To(u) # To(o)
          BY <1>0, <2>2, <3>1 DEF Types
        <5> HIDE DEF u
        <5> QED BY <4>2, <5>1, PushCounts
      <4> QED BY <2>2, <4>1, <4>2
    <3>3. t = s => passedBy[o] = 0 /\ ~Holds(o)'
      <4> SUFFICES ASSUME t = s PROVE passedBy[o] = 0 /\ ~Holds(o)'
        OBVIOUS
      <4>1. o[3] # k
        BY <1>0, <2>2, <2>4
      <4>2. \/ pc[x].at \in {"push", "block"} /\ k = pc[x].i
            \/ pc[x].at = "round" /\ held[x][s] # <<>> /\ k = held[x][s][1].at
            \/ pc[x].at = "round" /\ held[x][s] = <<>>
        BY <2>1, <2>2 DEF Pushing
      <4>3. ~Holds(o) /\ ~Blocks(o)
        BY <1>9, <4>1, <4>2 DEF Holds, Blocks, SidesAt
      <4>4. ~Holds(o)'
        BY <2>2, <4>1 DEF Holds
      <4> QED BY <1>9, <4>3, <4>4
    <3>4. t # s => held'[x][t] = held[x][t]
      BY <1>0, <2>2
    <3> HIDE DEF s, t
    <3> QED BY <1>10, <2>2, <3>2, <3>3, <3>4
  <2> QED BY <2>3, <2>4
<1>12. CASE ~\E r, k, a : Pushing(x, r, k, a)
  <2>1. passedBy'[o] = passedBy[o] /\ buf'[i] = buf[i]
    <3> HIDE DEF s, t, b, n, m
    <3>1. x \in Nodes(graph) \cap alive /\ To(o)[1] \in alive' /\ x # To(o)[1]
      BY <1>0
    <3>2. \/ passedBy'[o] = passedBy[o] /\ buf'[To(o)] = buf[To(o)]
          \/ x = To(o)[1]
          \/ \E r, k, a : Pushing(x, r, k, a)
      BY <3>1, NodeInput
    <3> QED BY <1>12, <3>1, <3>2
  <2>2. CASE EachCalls(x) \/ EachEnds(x)
    <3>1. pc[x].at = "each" /\ pc'[x].at \in {"each", "call", "input"}
      BY <1>0, <2>2, EachMoves
    <3>2. ~Past(x, t) /\ ~Past(x, t)'
      BY <3>1 DEF Past
    <3>3. pc'[c] = pc[c]
      BY <1>2, <3>1
    <3> QED BY <1>7, <2>1, <3>2, <3>3
  <2>3. CASE ~(EachCalls(x) \/ EachEnds(x))
    <3>1. /\ held' = held
          /\ \/ /\ pc[x].at = "wake"
                /\ \/ pc' = Return(x) /\ s = LastSide(x)
                   \/ /\ pc'[c] = pc[c]
                      /\ \/ pc'[x].at = "push" /\ pc'[x].side = s
                         \/ pc'[x].at = "round" /\ pc'[x].side = s + 1 /\ pc'[x].busy
             \/ /\ pc[x].at = "round" /\ held[x][s] = <<>>
                /\ \/ pc' = Return(x) /\ s = LastSide(x)
                   \/ /\ pc'[c] = pc[c]
                      /\ \/ pc'[x].at = "input" /\ ~pc[x].busy /\ s = LastSide(x)
                         \/ pc'[x].at = "round" /\ pc'[x].side = s + 1 /\ pc'[x].busy = pc[x].busy
             \/ /\ pc[x].at \in {"input", "wait", "park"} /\ pc'[c] = pc[c]
                /\ pc'[x] = Entered \/ pc'[x].at \in {"wait", "park", "input", "each"}
      BY <1>0, <1>12, <2>3, QuietMoves
    <3>2. CASE pc[x].at \in {"input", "wait", "park"}
      <4>1. pc'[c] = pc[c] /\ ~Past(x, t) /\ ~Past(x, t)'
        BY <3>1, <3>2, IdleFrames DEF Past
      <4> QED BY <1>7, <2>1, <4>1
    <3>3. CASE pc[x].at \in {"wake", "round"}
      <4>1. pc[x].busy \in BOOLEAN /\ pc'[x].busy \in BOOLEAN
        <5>1. pc[x] \in Frames /\ pc'[x] \in Frames
          BY TurnCtx
        <5> QED BY <5>1, FrameParts
      <4>2. held[x][s] = <<>>
        BY <1>9, <3>1, <3>3 DEF SidesAt
      <4>3. t = s => passedBy[o] = 0 /\ ~Holds(o)'
        BY <1>9, <3>1, <3>3, <4>2 DEF Holds, Blocks
      <4> HIDE DEF s, t
      <4> QED BY <1>10, <2>1, <3>1, <3>3, <4>1, <4>3
    <3> QED BY <3>1, <3>2, <3>3
  <2> QED BY <2>2, <2>3
<1> QED
  BY <1>11, <1>12

\* A step of another producer.
LEMMA TurnSibling ==
  ASSUME GraphOK, Types, StackInv, StackInv', RefusedInv, ShrinkInv, TurnInv, Next,
         NEW o \in Outlets(graph), NEW p, Turns(o, p), o[1] \in alive',
         NEW c, NEW x, NEW i, c = To(o)[1], x = o[1], i = To(o),
         NEW z \in Nodes(graph) \cap alive, NodeStep(z), graph.owner[z] = c, z # x,
         NEW j \in DOMAIN workers'[c][p], workers'[c][p][j] = x
  PROVE  TurnAt(o, p, j)'
<1> DEFINE q == pc[c].side
           h == pc[c].i
           b == Bound(i)
           n == Len(graph.owns[c][p])
           m == Len(workers[c][p])
           l == Len(buf[i])
           d == passedBy[o]
<1>0. /\ graph' = graph
      /\ x \in Nodes(graph) /\ x \in Parts(graph) /\ x \in alive /\ x \in alive'
      /\ c \in Nodes(graph) /\ c \in Parts(graph) /\ c \in alive /\ c \in alive'
      /\ graph.owner[x] = c /\ x # c /\ i \in Inputs(graph) /\ i = <<c, i[2]>>
      /\ b \in Nat \ {0} /\ n \in Nat
  BY TurnCtx
<1>1. /\ pc \in [Parts(graph) -> Frames] /\ pc[c] \in Frames /\ FrameOK(c, pc[c])
      /\ p \in Nat \ {0} /\ p \in DOMAIN workers[c]
      /\ workers[c][p] \in Seq(Nodes(graph)) /\ m \in Nat /\ DOMAIN workers[c][p] = 1 .. m /\ m <= n
      /\ l \in Nat /\ l <= b /\ d \in Nat
      /\ DOMAIN workers'[c][p] = 1 .. Len(workers'[c][p]) /\ Len(workers'[c][p]) \in Nat
  BY TurnCtx
<1>2. /\ pc[c].at = "call" /\ q \in DOMAIN workers[c] /\ h \in DOMAIN workers[c][q] /\ workers[c][q][h] = z
      /\ z # c /\ pc[x].at = "idle" /\ graph.kind[c] # "io" /\ pc[z].at # "idle"
      /\ q \in Nat \ {0} /\ h \in Nat \ {0}
  <2>1. graph.kind[c] # "io" /\ z # c /\ pc[z].at # "idle"
    BY <1>0, KindsDiffer, Owners, NodeRuns
  <2>2. Calls(c, z)
    BY <1>0, <2>1 DEF StackInv, CallInv
  <2>3. pc[x].at = "idle"
    <3>1. pc[x].at # "idle" => Calls(c, x)
      BY <1>0 DEF StackInv, CallInv
    <3> QED BY <2>2, <3>1, CalledOnce
  <2>4. pc[c].at = "call" /\ h \in DOMAIN workers[c][q] /\ workers[c][q][h] = z
    BY <2>1, <2>2 DEF Calls
  <2>5. q \in DOMAIN workers[c]
    BY <1>0, <1>1, <2>4 DEF FrameOK, Types, ListTypes
  <2> QED BY <1>1, <2>1, <2>3, <2>4, <2>5 DEF Frames
<1>3. held'[x] = held[x] /\ pc'[x] = pc[x]
  BY <1>0, <1>2, NodeTouches
<1>4. ~Past(x, o[2]) /\ ~Past(x, o[2])' /\ (Holds(o)' <=> Holds(o)) /\ ~Blocks(o)
  BY <1>2, <1>3 DEF Past, Holds, Blocks
<1>5. \A k \in DOMAIN workers[c][p] : workers[c][p][k] = x => TurnAt(o, p, k) /\ (q = p => k # h)
  BY <1>0, <1>2, TurnHas
<1>6. ASSUME NEW k
      PROVE  /\ DueAt(o, p, k) <=> Working(c) /\ (ToCome(c, p, k) \/ InTurn(c, p, k))
             /\ HadAt(o, p, k) <=> Working(c) /\ pc[c].side = p /\ k < pc[c].i
             /\ DueAt(o, p, k)' <=> Working(c)' /\ (ToCome(c, p, k)' \/ InTurn(c, p, k)')
             /\ HadAt(o, p, k)' <=> Working(c)' /\ pc'[c].side = p /\ k < pc'[c].i
  BY <1>0, <1>4, DueNow
<1>7. CASE ~Ends(z)
  <2>1. workers'[c] = workers[c]
    <3>1. EachEnds(z) => workers'[c] = workers[c]
      <4>1. z \in Parts(graph)
        BY KindsDiffer
      <4> QED BY <1>0, <1>2, <4>1, EachEndsStack
    <3> QED BY <1>7, <3>1, NodeLists
  <2>2. pc'[c] = pc[c] \/ (pc'[c].at = "each" /\ pc'[c].side = q /\ pc'[c].i = h + 1)
    <3>1. pc'[c] = pc[c] \/ pc' = Return(z)
      BY <1>0, <1>2, <1>7, NodeTouches
    <3>2. CASE pc' = Return(z)
      BY <1>0, <1>1, <1>2, <3>2, ReturnFrames
    <3> QED BY <3>1, <3>2
  <2>3. j \in 1 .. m /\ TurnAt(o, p, j) /\ (q = p => j # h)
    BY <1>1, <1>5, <2>1
  <2>4. (DueAt(o, p, j)' <=> DueAt(o, p, j)) /\ (HadAt(o, p, j)' <=> HadAt(o, p, j))
    <3>1. CASE pc'[c] = pc[c]
      BY <1>6, <3>1 DEF Working, ToCome, InTurn
    <3>2. CASE pc'[c].at = "each" /\ pc'[c].side = q /\ pc'[c].i = h + 1
      <4>1. Working(c) /\ Working(c)' /\ ~InTurn(c, p, j) /\ ~InTurn(c, p, j)'
        BY <1>2, <2>3, <3>2 DEF Working, InTurn
      <4>2. (ToCome(c, p, j) <=> (p > q \/ (p = q /\ j > h)))
        BY <1>2 DEF ToCome
      <4>3. (ToCome(c, p, j)' <=> (p > q \/ (p = q /\ (j > h + 1 \/ j = h + 1))))
        BY <3>2 DEF ToCome
      <4>4. p = q => ((j > h) <=> (j > h + 1 \/ j = h + 1)) /\ ((j < h + 1) <=> (j < h))
        BY <1>2, <2>3
      <4> HIDE DEF h, q
      <4>5. pc[c].side = q /\ pc[c].i = h
        BY DEF h, q
      <4> QED BY <1>6, <3>2, <4>1, <4>2, <4>3, <4>4, <4>5
    <3> QED BY <2>2, <3>1, <3>2
  <2>5. CASE passedBy'[o] = d /\ buf'[i] = buf[i]
    BY <1>0, <1>4, <2>1, <2>3, <2>4, <2>5, TurnSame
  <2>6. CASE ~(passedBy'[o] = d /\ buf'[i] = buf[i])
    <3>1. PICK s, k, a : /\ Pushing(z, s, k, a) /\ Rotate(z, s, k, a) /\ <<z, s, k>> \in Outlets(graph)
                         /\ To(<<z, s, k>>) = i
      BY <1>0, <1>2, <2>6, NodeInput
    <3> DEFINE u == <<z, s, k>>
    <3>2. u # o /\ u[1] = z
      OBVIOUS
    <3>3. Push(u, a)
      BY <3>1 DEF Rotate
    <3>4. {x, z} \subseteq Owned(graph, c)
      BY <1>0, Owners
    <3>5. /\ HasRoom(i) /\ buf'[i] = Append(buf[i], a)
          /\ \/ passedBy'[o] = d + 1 /\ Holds(o)
             \/ passedBy'[o] = d /\ ~Holds(o)
      <4> HIDE DEF u
      <4>1. /\ HasRoom(i) /\ buf'[i] = Append(buf[i], a)
            /\ \/ passedBy'[o] = passedBy[o] + 1 /\ Holds(o)
               \/ passedBy'[o] = passedBy[o] /\ (~Holds(o) \/ o[1] = u[1]
                                \/ ~({o[1], u[1]} \subseteq Owned(graph, To(o)[1])))
        BY <1>0, <2>6, <3>1, <3>2, <3>3, PushCounts DEF Types, u
      <4> QED BY <3>2, <3>4, <4>1
    <3>6. q = p
      <4> DEFINE g == h
                 r == q
      <4>1. /\ r \in DOMAIN workers[To(o)[1]] /\ g \in DOMAIN workers[To(o)[1]][r]
            /\ workers[To(o)[1]][r][g] = u[1] /\ ListTypes /\ u \in Outlets(graph) /\ To(u) = To(o)
        BY <1>2, <3>1 DEF Types
      <4> HIDE DEF g, r, u
      <4>2. r = p
        BY <4>1, TurnPlace
      <4> QED BY <4>2 DEF r
    <3>7. Len(buf'[i]) = l + 1
      <4>1. buf[i] \in Seq(Message)
        BY <1>0 DEF Types, EdgeTypes
      <4> QED BY <3>5, <4>1
    <3>8. ~Holds(o) => d = 0
      BY <1>0, <1>4 DEF RefusedInv
    <3>9. CASE j > h
      <4>1. DueAt(o, p, j) /\ ~HadAt(o, p, j)
        <5>1. Working(c) /\ ToCome(c, p, j)
          BY <1>2, <3>6, <3>9 DEF Working, ToCome
        <5>2. ~(j < h)
          BY <1>2, <2>3, <3>9
        <5> QED BY <1>6, <5>1, <5>2
      <4>2. DueBound(b, n, m, j, l, d)
        BY <2>3, <4>1 DEF TurnAt
      <4>3. DueBound(b, n, m, j, l + 1, passedBy'[o])
        <5>1. j \in Nat \ {0} /\ j > 1 /\ j <= n /\ passedBy'[o] \in {d, d + 1} /\ (passedBy'[o] = d + 1 \/ d = 0)
          <6>1. passedBy'[o] \in {d, d + 1} /\ (passedBy'[o] = d + 1 \/ d = 0)
            BY <3>5, <3>8
          <6>2. j \in Nat \ {0} /\ j > 1 /\ j <= n
            BY <1>0, <1>1, <1>2, <2>3, <3>9
          <6> QED BY <6>1, <6>2
        <5> HIDE DEF b, n, m, l, d
        <5> QED BY <1>0, <1>1, <4>2, <5>1, DuePushed
      <4> QED BY <1>0, <2>1, <2>4, <3>7, <4>1, <4>3, TurnNow
    <3>10. CASE j < h
      <4>1. HadAt(o, p, j)
        BY <1>2, <1>6, <3>6, <3>10 DEF Working
      <4>2. Holds(o) => ~HasRoom(i)
        BY <2>3, <4>1 DEF TurnAt
      <4>3. passedBy'[o] = 0 /\ ~Holds(o)'
        BY <1>4, <3>5, <3>8, <4>2
      <4> QED BY <1>0, <4>3, TurnZero
    <3> QED BY <1>2, <2>3, <3>6, <3>9, <3>10
  <2> QED BY <2>5, <2>6
<1>8. CASE Ends(z)
  <2> DEFINE w == workers[c][q]
  <2>1. /\ passedBy' = passedBy /\ alive' = alive \ EndsGone(z) /\ Drop(EndsGone(z))
        /\ workers' = [workers EXCEPT ![c][q] = SwapRemove(w, h)]
        /\ c \notin EndsGone(z) => pc'[c] = [pc[c] EXCEPT !.at = "each"]
    <3>1. LET g == graph.owner[z]
              r == pc[g].side
          IN  /\ passedBy' = passedBy /\ alive' = alive \ EndsGone(z) /\ Drop(EndsGone(z))
              /\ workers' = [workers EXCEPT ![g][r] = SwapRemove(workers[g][r], pc[g].i)]
              /\ g \notin EndsGone(z) => pc'[g] = [pc[g] EXCEPT !.at = "each"]
      BY <1>0, <1>2, <1>8, EndsShape
    <3> QED BY <3>1
  <2>2. c \notin EndsGone(z)
    BY <1>0, <2>1
  <2>3. buf'[i] = buf[i]
    <3>1. DOMAIN buf = Inputs(graph) /\ i[1] = c
      BY <1>0 DEF Types, EdgeTypes
    <3> QED BY <1>0, <2>1, <2>2, <3>1 DEF Drop
  <2>4. pc'[c].at = "each" /\ pc'[c].side = q /\ pc'[c].i = h
    BY <1>1, <2>1, <2>2 DEF Frames
  <2>5. /\ workers'[c][q] = SwapRemove(w, h)
        /\ q # p => workers'[c][p] = workers[c][p]
    <3>1. DOMAIN workers = Parts(graph)
      BY DEF Types, ListTypes
    <3> HIDE DEF h, w
    <3> QED BY <1>0, <1>1, <1>2, <2>1, <3>1
  <2>6. CASE q # p
    <3>1. TurnAt(o, p, j) /\ workers'[c][p] = workers[c][p]
      BY <1>5, <2>5, <2>6
    <3>2. (DueAt(o, p, j)' <=> DueAt(o, p, j)) /\ (HadAt(o, p, j)' <=> HadAt(o, p, j))
      BY <1>2, <1>6, <2>4, <2>6 DEF Working, ToCome, InTurn
    <3> QED BY <1>0, <1>4, <2>1, <2>3, <3>1, <3>2, TurnSame
  <2>7. CASE q = p
    <3>1. /\ Len(workers'[c][p]) = m - 1 /\ j \in 1 .. m - 1
          /\ workers'[c][p][j] = IF j = h THEN workers[c][p][m] ELSE workers[c][p][j]
      <4>1. w \in Seq(Nodes(graph)) /\ w # <<>> /\ w = workers[c][p]
        BY <1>1, <1>2, <2>7
      <4>2. /\ Len(SwapRemove(w, h)) = Len(w) - 1
            /\ \A k \in 1 .. Len(w) - 1 : SwapRemove(w, h)[k] = IF k = h THEN w[Len(w)] ELSE w[k]
        <5> DEFINE g == h
        <5>1. w \in Seq(Nodes(graph)) /\ w # <<>>
          BY <4>1
        <5> HIDE DEF w, g
        <5>2. /\ Len(SwapRemove(w, g)) = Len(w) - 1
              /\ \A k \in 1 .. Len(w) - 1 : SwapRemove(w, g)[k] = IF k = g THEN w[Len(w)] ELSE w[k]
          BY <5>1, SwapRemoveSeq
        <5> QED BY <5>2 DEF g
      <4> QED BY <1>1, <2>5, <2>7, <4>1, <4>2
    <3>2. m \in Nat \ {0} /\ j \in Nat \ {0} /\ j < m /\ h \in 1 .. m /\ m \in 1 .. m /\ j \in 1 .. m
      BY <1>1, <1>2, <2>7, <3>1
    <3>3. CASE j = h
      <4>1. TurnAt(o, p, m)
        BY <1>1, <1>5, <3>1, <3>2, <3>3
      <4>2. DueAt(o, p, m)
        BY <1>2, <1>6, <2>7, <3>2, <3>3 DEF Working, ToCome
      <4>3. DueBound(b, n, m, m, l, d)
        BY <4>1, <4>2 DEF TurnAt
      <4>4. DueBound(b, n, m - 1, h, l, d)
        <5> HIDE DEF b, n, m, l, d, h
        <5> QED BY <1>0, <1>1, <1>2, <3>2, <3>3, <4>3, DueSwapped
      <4>5. DueAt(o, p, j)' /\ ~HadAt(o, p, j)'
        <5>1. Working(c)' /\ ToCome(c, p, j)' /\ ~(j < pc'[c].i)
          BY <2>4, <2>7, <3>2, <3>3 DEF Working, ToCome
        <5> QED BY <1>6, <5>1
      <4>6. DueBound(b, n, Len(workers'[c][p]), j, Len(buf'[i]), passedBy'[o])
        BY <2>1, <2>3, <3>1, <3>3, <4>4
      <4> HIDE DEF h
      <4> QED BY <1>0, <4>5, <4>6, TurnNow
    <3>4. CASE j < h
      <4>1. TurnAt(o, p, j)
        BY <1>1, <1>5, <3>1, <3>2, <3>4
      <4>2. HadAt(o, p, j) /\ HadAt(o, p, j)' /\ ~DueAt(o, p, j)'
        BY <1>2, <1>6, <2>4, <2>7, <3>2, <3>4 DEF Working, ToCome, InTurn
      <4>3. HadBound(b, n, m, j, d) /\ (Holds(o) => ~(b = 0 \/ l < b))
        BY <4>1, <4>2 DEF TurnAt, HasRoom
      <4>4. HadBound(b, n, m - 1, j, d)
        <5> HIDE DEF b, n, m, l, d, h
        <5> QED BY <1>0, <1>1, <3>2, <4>3, HadShrinks
      <4> QED BY <1>0, <1>4, <2>1, <2>3, <3>1, <4>2, <4>3, <4>4, TurnNow
    <3>5. CASE j > h
      <4>1. TurnAt(o, p, j)
        BY <1>1, <1>5, <3>1, <3>2, <3>5
      <4>2. DueAt(o, p, j) /\ ~HadAt(o, p, j)' /\ DueAt(o, p, j)'
        BY <1>2, <1>6, <2>4, <2>7, <3>2, <3>5 DEF Working, ToCome, InTurn
      <4>3. DueBound(b, n, m, j, l, d)
        BY <4>1, <4>2 DEF TurnAt
      <4>4. DueBound(b, n, m - 1, j, l, d)
        <5>1. j > 1 /\ j \in Nat
          BY <1>2, <3>2, <3>5
        <5> DEFINE k == m - 1
        <5>2. DueBound(b, n, k, j, l, d)
          <6> HIDE DEF b, n, m, l, d, h, k
          <6> QED BY <4>3, <5>1, DueShrinks
        <5> QED BY <5>2
      <4>5. DueBound(b, n, Len(workers'[c][p]), j, Len(buf'[i]), passedBy'[o])
        BY <2>1, <2>3, <3>1, <4>4
      <4> QED BY <1>0, <4>2, <4>5, TurnNow
    <3> QED BY <1>2, <3>2, <3>3, <3>4, <3>5
  <2> QED BY <2>6, <2>7
<1> QED
  BY <1>7, <1>8

LEMMA TurnNext ==
  ASSUME GraphOK, Types, StackInv, StackInv', SidesInv, RefusedInv, ShrinkInv, EmptyInv, TurnInv, Next
  PROVE  TurnInv'
<1>0. graph' = graph
  BY SameGraph
<1>1. \A o : To(o)' = To(o) /\ \A p : Turns(o, p)' <=> Turns(o, p)
  BY <1>0 DEF To, Turns, TakesTurns, Bound
<1> SUFFICES ASSUME NEW o \in Outlets(graph), NEW p, Turns(o, p), o[1] \in alive',
                    NEW j \in DOMAIN workers'[To(o)[1]][p], workers'[To(o)[1]][p][j] = o[1]
             PROVE  TurnAt(o, p, j)'
  BY <1>0, <1>1 DEF TurnInv
<1>2. PICK c : c = To(o)[1]
  OBVIOUS
<1>3. PICK x : x = o[1]
  OBVIOUS
<1>4. PICK i : i = To(o)
  OBVIOUS
<1>5. /\ x \in Nodes(graph) /\ x \in alive /\ x \in alive' /\ c \in Nodes(graph) /\ c \in alive /\ c \in alive'
      /\ graph.owner[x] = c /\ x # c
  BY <1>2, <1>3, <1>4, TurnCtx
<1>6. j \in DOMAIN workers'[c][p] /\ workers'[c][p][j] = x
  BY <1>2, <1>3
<1>7. ASSUME passedBy'[o] = passedBy[o], buf'[i] = buf[i], held'[x] = held[x], workers'[c] = workers[c],
             pc'[c] = pc[c] \/ (pc[c].at = "idle" /\ pc'[c] = Entered),
             \/ pc'[x] = pc[x]
             \/ pc[x].at = "idle" /\ pc'[x] = Entered
             \/ pc[x].at = "call" /\ pc'[x].at = "each"
      PROVE  TurnAt(o, p, j)'
  <2>1. TurnAt(o, p, j)
    BY <1>2, <1>3, <1>5, <1>6, <1>7, TurnHas
  <2> QED BY <1>0, <1>2, <1>3, <1>4, <1>7, <2>1, TurnFar
<1>8. CASE \E z \in Nodes(graph) \cap alive : NodeStep(z)
  <2>1. PICK z \in Nodes(graph) \cap alive : NodeStep(z)
    BY <1>8
  <2>2. CASE z = c
    BY <1>2, <1>3, <1>4, <1>6, <2>1, <2>2, TurnOwner
  <2>3. CASE z = x
    BY <1>2, <1>3, <1>4, <1>6, <2>1, <2>3, TurnSelf
  <2>4. CASE z # c /\ z # x /\ graph.owner[z] = c
    BY <1>2, <1>3, <1>4, <1>6, <2>1, <2>4, TurnSibling
  <2>5. CASE z # c /\ z # x /\ graph.owner[z] # c
    <3>1. passedBy'[o] = passedBy[o] /\ buf'[i] = buf[i]
      BY <1>2, <1>4, <1>5, <2>1, <2>5, NodeInput
    <3>2. /\ workers'[c] = workers[c]
          /\ pc'[c] = pc[c] \/ (pc[c].at = "idle" /\ pc'[c] = Entered)
      BY <1>5, <2>1, <2>5, NodeTouches
    <3>3. /\ held'[x] = held[x]
          /\ \/ pc'[x] = pc[x]
             \/ pc[x].at = "idle" /\ pc'[x] = Entered
             \/ pc[x].at = "call" /\ pc'[x].at = "each"
      BY <1>5, <2>1, <2>5, NodeTouches
    <3> QED BY <1>7, <3>1, <3>2, <3>3
  <2> QED BY <2>2, <2>3, <2>4, <2>5
<1>9. CASE ~\E z \in Nodes(graph) \cap alive : NodeStep(z)
  <2>1. \/ \E t \in Threads(graph) \cap alive :
              \/ EachCalls(t) \/ EachEnds(t) \/ ThreadEnds(t) \/ IoWorks(t) \/ IoReads(t)
              \/ IoPushes(t) \/ IoDrops(t)
        \/ \E y \in Nodes(graph) \cap alive : Fails(y)
        \/ \E w \in Writers(graph) \cap alive : WakeTarget(w) \/ WriterLeaves(w) \/ Writes(w)
        \/ \E r \in Tees(graph) \cap alive : TeeLeaves(r)
    BY <1>9, Steps DEF Types, GraphTypes
  <2>2. /\ workers'[c] = workers[c]
        /\ pc'[c] = pc[c] \/ (pc[c].at = "idle" /\ pc'[c] = Entered)
    BY <1>5, <2>1, OutsideTouches
  <2>3. held'[x] = held[x] /\ (pc'[x] = pc[x] \/ (pc[x].at = "idle" /\ pc'[x] = Entered))
    BY <1>5, <2>1, OutsideTouches
  <2>4. passedBy'[o] = passedBy[o] /\ buf'[i] = buf[i]
    BY <1>2, <1>4, <1>5, <2>1, OutsideInput
  <2> QED BY <1>7, <2>2, <2>3, <2>4
<1> QED
  BY <1>8, <1>9

\* An input without a bound refuses nobody.
RoomyInv ==
  \A o \in Outlets(graph) :
    o[1] \in Nodes(graph) \cap alive /\ Bound(To(o)) = 0 => ~Holds(o) /\ passedBy[o] = 0

LEMMA RoomyNext ==
  ASSUME GraphOK, Types, StackInv, RoomyInv, Next
  PROVE  RoomyInv'
<1>0. graph' = graph
  BY SameGraph
<1> SUFFICES ASSUME NEW o \in Outlets(graph), o[1] \in Nodes(graph) \cap alive', Bound(To(o)) = 0
             PROVE  ~Holds(o)' /\ passedBy'[o] = 0
  BY <1>0 DEF RoomyInv, Bound, To
<1> DEFINE x == o[1]
<1>1. /\ x \in Nodes(graph) /\ x \in alive /\ ~Holds(o) /\ passedBy[o] = 0 /\ o = <<x, o[2], o[3]>>
      /\ o[2] \in Sides(x)
  BY Moves, OutletShape DEF RoomyInv
<1>2. passedBy'[o] = 0
  BY <1>1, CountMoves
<1>3. CASE \E s, k, m : Pushing(x, s, k, m)
  <2>1. PICK s, k, m : Pushing(x, s, k, m)
    BY <1>3
  <2>2. /\ \A r \in Sides(x) : r # s => held'[x][r] = held[x][r]
        /\ \/ held'[x][s] = <<>>
           \/ held'[x][s][1].at = k /\ ~HasRoom(To(<<x, s, k>>))
    BY <1>1, <2>1, PushHolds
  <2>3. ~(s = o[2] /\ k = o[3] /\ ~HasRoom(To(<<x, s, k>>)))
    BY <1>1 DEF HasRoom
  <2> QED BY <1>1, <1>2, <2>2, <2>3 DEF Holds
<1>4. CASE NodeStep(x) /\ \A s, k, m : ~Pushing(x, s, k, m)
  <2>1. held' = held
    <3>1. CASE EachCalls(x) \/ EachEnds(x)
      BY <1>1, <3>1, EachMoves
    <3>2. CASE ~(EachCalls(x) \/ EachEnds(x))
      BY <1>1, <1>4, <3>2, QuietMoves
    <3> QED BY <3>1, <3>2
  <2> QED BY <1>1, <1>2, <2>1 DEF Holds
<1>5. CASE held'[x] = held[x]
  BY <1>1, <1>2, <1>5 DEF Holds
<1> QED
  BY <1>3, <1>4, <1>5, Moves

\* Whose turn it is or was, or who waits for the next round: none has seen more
\* go first than its siblings may have sent.
LEMMA TurnsSuffice ==
  ASSUME Types, StackInv, ShrinkInv, RoomyInv, TurnInv
  PROVE  NoParentStarves
<1>0. GraphOK
  BY GraphIsOK DEF StackInv, GraphTypes
<1> SUFFICES ASSUME NEW o \in Outlets(graph), NEW p \in DOMAIN graph.owns[To(o)[1]], o[1] \in alive,
                    TakesTurns(To(o), p)
             PROVE  passedBy[o] <= Bound(To(o)) * (Len(graph.owns[To(o)[1]][p]) - 1)
  BY DEF NoParentStarves
<1> DEFINE i == To(o)
           c == i[1]
           x == o[1]
           b == Bound(i)
           n == Len(graph.owns[c][p])
           m == Len(workers[c][p])
           d == passedBy[o]
           l == Len(buf[i])
<1>1. /\ i \in Inputs(graph) /\ c \in Parts(graph) /\ n \in Nat
      /\ workers[c] \in Seq(Seq(Nodes(graph))) /\ Len(workers[c]) = Len(graph.owns[c])
      /\ graph.owns[c] \in Seq(Seq(Nodes(graph)))
  <2>1. i \in Inputs(graph) /\ c \in Parts(graph)
    BY <1>0, OutletShape
  <2>2. /\ workers[c] \in Seq(Seq(Nodes(graph))) /\ Len(workers[c]) = Len(graph.owns[c])
        /\ graph.owns[c] \in Seq(Seq(Nodes(graph)))
    BY <1>0, <2>1 DEF Types, ListTypes, GraphOK, Shaped, OwnedOnce
  <2> QED BY <2>1, <2>2
<1>2. CASE b = 0
  <2>1. graph.feeders[i] = {v[1] : v \in {w \in Outlets(graph) : Edge(graph, w).to = i}}
    BY <1>0, <1>1 DEF GraphOK, Shaped
  <2>2. x \in graph.feeders[i]
    BY <2>1 DEF To
  <2>3. x \in Owned(graph, c)
    BY <2>2 DEF TakesTurns, Owned
  <2>4. x \in Nodes(graph)
    BY <1>0, <1>1, <2>3, Owners
  <2>5. d = 0
    BY <1>2, <2>4 DEF RoomyInv
  <2>6. 0 * (n - 1) = 0
    BY <1>1
  <2> QED BY <1>2, <2>5, <2>6
<1>3. CASE b # 0
  <2>1. Turns(o, p)
    BY <1>3 DEF Turns
  <2>2. x \in Nodes(graph) /\ graph.owner[x] = c /\ b \in Nat
    BY <1>0, <2>1, TurnShape
  <2>3. PICK q \in DOMAIN workers[c] : \E h \in DOMAIN workers[c][q] : x = workers[c][q][h]
    BY <2>2 DEF StackInv, HouseInv, Worked
  <2>4. PICK j \in DOMAIN workers[c][q] : x = workers[c][q][j]
    BY <2>3
  <2>5. q = p
    BY <1>0, <2>1, <2>4, TurnPlace DEF Types
  <2>6. TurnAt(o, p, j)
    BY <2>1, <2>4, <2>5, TurnHas
  <2>7. m \in Nat /\ j \in 1 .. m /\ m <= n
    <3>1. workers[c][p] \in Seq(Nodes(graph))
      BY <1>1, <2>3, <2>5
    <3>2. m <= n
      BY <1>1, <2>3, <2>5 DEF ShrinkInv
    <3> QED BY <2>4, <2>5, <3>1, <3>2
  <2>8. l \in Nat /\ l <= b /\ d \in Nat
    BY <1>1, <1>3 DEF Types, EdgeTypes
  <2>9. DueBound(b, n, m, j, l, d) \/ HadBound(b, n, m, j, d) \/ NextBound(b, n, j, d)
    BY <2>6 DEF TurnAt
  <2>10. j \in Nat \ {0} /\ j <= m
    BY <2>7
  <2> HIDE DEF b, n, m, d, l
  <2>11. d <= b * (n - 1)
    BY <1>1, <2>2, <2>7, <2>8, <2>9, <2>10, DueFits, HadFits
  <2> QED BY <2>11 DEF b, n, d
<1> QED
  BY <1>2, <1>3

\* Parents that take turns at a bounded input all get theirs: a refused one
\* sees no more than the input holds go first, for each of its siblings
\* (work_each and its rotation of the workers, Fanout::resume).
THEOREM ParentsTakeTurns == Spec => []NoParentStarves
<1> DEFINE I == SidesInv /\ RefusedInv /\ ShrinkInv /\ EmptyInv /\ RoomyInv /\ TurnInv
<1>1. Init => I
  <2> SUFFICES ASSUME Init PROVE I
    OBVIOUS
  <2>0. GraphOK
    BY GraphIsOK DEF Init, GraphTypes
  <2>1. /\ \A o \in Outlets(graph) : passedBy[o] = 0
        /\ workers = graph.owns
        /\ \A y \in Parts(graph) : pc[y].at \in {"each", "idle"}
        /\ \A x \in Nodes(graph) : pc[x].at = "idle"
        /\ \A x \in Nodes(graph) : \A s \in Sides(x) : held[x][s] = <<>>
    BY IdleFrames, KindsDiffer DEF Init, Frame
  <2>2. SidesInv /\ RefusedInv /\ EmptyInv
    <3>1. \A o \in Outlets(graph) : To(o)[1] \in Parts(graph)
      BY <2>0, OutletShape
    <3> QED BY <2>1, <3>1 DEF SidesInv, SidesAt, RefusedInv, EmptyInv
  <2>3. ShrinkInv
    <3> SUFFICES ASSUME NEW y \in Parts(graph), NEW p \in DOMAIN workers[y]
                 PROVE  Len(workers[y][p]) <= Len(graph.owns[y][p])
      BY DEF ShrinkInv
    <3>1. graph.owns[y] \in Seq(Seq(Nodes(graph))) /\ p \in DOMAIN graph.owns[y]
      BY <2>0, <2>1 DEF GraphOK, Shaped, OwnedOnce
    <3>2. Len(graph.owns[y][p]) \in Nat
      BY <3>1
    <3> QED BY <2>1, <3>2
  <2>4. ASSUME NEW o \in Outlets(graph), o[1] \in Nodes(graph) PROVE ~Holds(o)
    <3>1. o[2] \in Sides(o[1])
      BY <2>0, OutletShape
    <3> QED BY <2>1, <2>4, <3>1 DEF Holds
  <2>5. RoomyInv
    BY <2>1, <2>4 DEF RoomyInv
  <2>6. TurnInv
    <3> SUFFICES ASSUME NEW o \in Outlets(graph), NEW p, Turns(o, p), NEW j PROVE TurnAt(o, p, j)
      BY DEF TurnInv
    <3>1. passedBy[o] = 0 /\ ~Holds(o)
      BY <2>0, <2>1, <2>4, TurnShape
    <3> QED BY <3>1 DEF TurnAt, DueBound, HadBound, NextBound
  <2> QED BY <2>2, <2>3, <2>5, <2>6
<1>2. Types /\ StackInv /\ I /\ [Next]_vars => I'
  <2> SUFFICES ASSUME Types, StackInv, I, [Next]_vars PROVE I'
    OBVIOUS
  <2>1. CASE Next
    <3>1. GraphOK
      BY GraphIsOK DEF StackInv, GraphTypes
    <3>2. StackInv'
      BY <2>1, TypesNext
    <3> QED BY <2>1, <3>1, <3>2, SidesNext, RefusedNext, ShrinkNext, EmptyNext, RoomyNext, TurnNext
  <2>2. CASE UNCHANGED vars
    <3>1. UNCHANGED <<graph, alive, buf, held, pc, workers, passedBy>>
      BY <2>2 DEF vars, edgeVars
    <3>2. SidesInv' /\ ShrinkInv'
      BY <3>1 DEF SidesInv, SidesAt, Sides, ShrinkInv
    <3>3. \A o : To(o)' = To(o) /\ Bound(To(o))' = Bound(To(o)) /\ \A p : Turns(o, p)' <=> Turns(o, p)
      BY <3>1 DEF To, Turns, TakesTurns, Bound
    <3>4. RefusedInv' /\ RoomyInv'
      BY <3>1, <3>3 DEF RefusedInv, RoomyInv, Holds, Blocks
    <3>5. EmptyInv'
      BY <3>1, <3>3 DEF EmptyInv
    <3>6. \A o, p, j : TurnAt(o, p, j)' <=> TurnAt(o, p, j)
      BY <3>1, <3>3 DEF TurnAt, DueAt, HadAt, Working, ToCome, InTurn, Past, Holds, HasRoom, Bound, To
    <3>7. TurnInv'
      BY <3>1, <3>3, <3>6 DEF TurnInv
    <3> QED BY <3>2, <3>4, <3>5, <3>7
  <2> QED BY <2>1, <2>2
<1>3. Types /\ StackInv /\ I => NoParentStarves
  BY TurnsSuffice
<1> QED
  BY <1>1, <1>2, <1>3, TypeSafe, PTL DEF Spec

-----------------------------------------------------------------------------
(* The order of a writer's messages.  mark[o] is the last one that outlet o *)
(* took, done[x] the last one that part x took from its input: both -1 off  *)
(* the writer's ways.  Whatever is still to come has a greater number.      *)

Above(w, q, n) == \A k \in DOMAIN q : Ordered(w, q[k]) => n < q[k].nth
Upto(w, q, n) == \A k \in DOMAIN q : Ordered(w, q[k]) => q[k].nth <= n
Before(w, p, q) ==
  \A j \in DOMAIN p, k \in DOMAIN q : Ordered(w, p[j]) /\ Ordered(w, q[k]) => p[j].nth < q[k].nth

\* The message that side s of x is pushing, and whether its edge k is to take it yet.
Going(x, s) ==
  IF held[x][s] # <<>> THEN <<held[x][s][1].msg>>
  ELSE IF pc[x].side = s /\ pc[x].at \in {"push", "block", "wake"} THEN pc[x].msg ELSE <<>>
Still(x, s, k) ==
  IF held[x][s] # <<>> THEN held[x][s][1].at <= k
  ELSE IF pc[x].at = "wake" THEN pc[x].i < k ELSE pc[x].i <= k

\* A node looks for input with nothing left to push, side by side.
NothingOn(x, s) == held[x][s] = <<>> /\ made[x][s] = <<>> /\ pending[x][s] = <<>>
ClearAt(x) ==
  /\ pc[x].at \in {"input", "wait", "park", "each", "call"} => \A s \in Sides(x) : NothingOn(x, s)
  /\ pc[x].at = "round" /\ ~pc[x].busy => \A s \in Sides(x) : s < pc[x].side => NothingOn(x, s)
ClearInv == \A x \in Nodes(graph) \cap alive : ClearAt(x)

\* What a side has before it, in the order it goes out: the message going, the
\* output made, the signal pending, the data kept.
InLine(w, going, out, signal, rest, d) ==
  /\ Rising(w, out)
  /\ Before(w, going, out) /\ Before(w, going, signal) /\ Before(w, going, rest)
  /\ Before(w, out, signal) /\ Before(w, out, rest) /\ Before(w, signal, rest)
  /\ Upto(w, going, d) /\ Upto(w, out, d) /\ Upto(w, signal, d)
Beyond(w, out, signal, rest, n, d) ==
  n <= d /\ Above(w, out, n) /\ Above(w, signal, n) /\ Above(w, rest, n)
LineUp(w, x, s, mark, done) ==
  /\ InLine(w, Going(x, s), made[x][s], pending[x][s], kept[x], done[x])
  /\ \A k \in DOMAIN graph.outs[x][s] :
       /\ Beyond(w, made[x][s], pending[x][s], kept[x], mark[<<x, s, k>>], done[x])
       /\ Still(x, s, k) => Above(w, Going(x, s), mark[<<x, s, k>>])
NodeOrder(w, x, mark, done) ==
  /\ Rising(w, kept[x]) /\ Upto(w, kept[x], done[x])
  /\ \A s \in Sides(x) : LineUp(w, x, s, mark, done)

\* What is on the edge of o.
EdgeOrder(w, o, mark, done) ==
  /\ Rising(w, buf[To(o)]) /\ Upto(w, buf[To(o)], mark[o])
  /\ Above(w, buf[To(o)], done[To(o)[1]]) /\ done[To(o)[1]] <= mark[o]
EdgesInOrder(w, R, mark, done) ==
  /\ mark \in [Outlets(graph) -> Int] /\ done \in [Parts(graph) -> Int]
  /\ \A o \in R : EdgeOrder(w, o, mark, done)
  /\ \A i \in Inputs(graph) : (\A o \in R : To(o) # i) => Upto(w, buf[i], -1)
  /\ \A x \in Nodes(graph) : (\A o \in R : To(o)[1] # x) => done[x] = -1

OrderInv(w, R, mark, done) ==
  /\ EdgesInOrder(w, R, mark, done)
  /\ \A x \in Nodes(graph) \cap alive : NodeOrder(w, x, mark, done)
  /\ mark[<<w, 1, 1>>] <= Len(written[w])

\* R is every outlet that w's messages can take, and leads to each part once.
Tree(w, R) ==
  /\ R \subseteq Outlets(graph) /\ Ways(w, R)
  /\ \A u, v \in R : To(u)[1] = To(v)[1] => u = v

LEMMA OrderOfNone ==
  ASSUME NEW w, NEW q, NEW n
  PROVE  /\ Above(w, <<>>, n) /\ Upto(w, <<>>, n) /\ Rising(w, <<>>)
         /\ Before(w, <<>>, q) /\ Before(w, q, <<>>)
<1>1. \A k : k \notin DOMAIN <<>>
  OBVIOUS
<1> QED
  BY <1>1 DEF Above, Upto, Rising, Before

\* A list of one, ordered or not.
LEMMA OrderOfOne ==
  ASSUME NEW w, NEW q \in Seq(Message), NEW m \in Message, NEW n \in Int
  PROVE  /\ Above(w, <<m>>, n) <=> (Ordered(w, m) => n < m.nth)
         /\ Upto(w, <<m>>, n) <=> (Ordered(w, m) => m.nth <= n)
         /\ Before(w, <<m>>, q) <=> (Ordered(w, m) => Above(w, q, m.nth))
         /\ Upto(w, q, n) /\ Above(w, <<m>>, n) => Before(w, q, <<m>>)
<1>1. DOMAIN <<m>> = {1} /\ <<m>>[1] = m /\ m.nth \in Nat
  BY DEF Message
<1>2. \A k \in DOMAIN q : q[k].nth \in Nat
  <2>1. \A k \in DOMAIN q : q[k] \in Message
    OBVIOUS
  <2> QED BY <2>1 DEF Message
<1>3. /\ Above(w, <<m>>, n) <=> (Ordered(w, m) => n < m.nth)
      /\ Upto(w, <<m>>, n) <=> (Ordered(w, m) => m.nth <= n)
  BY <1>1 DEF Above, Upto
<1>4. Before(w, <<m>>, q) <=> (Ordered(w, m) => Above(w, q, m.nth))
  BY <1>1 DEF Before, Above
<1>5. ASSUME Upto(w, q, n), Above(w, <<m>>, n) PROVE Before(w, q, <<m>>)
  <2> SUFFICES ASSUME NEW j \in DOMAIN q, Ordered(w, q[j]), Ordered(w, m) PROVE q[j].nth < m.nth
    BY <1>1 DEF Before
  <2>1. q[j].nth <= n /\ n < m.nth
    BY <1>3, <1>5 DEF Upto
  <2> QED BY <1>1, <1>2, <2>1
<1> QED
  BY <1>3, <1>4, <1>5

LEMMA OrderOfAppend ==
  ASSUME NEW w, NEW q \in Seq(Message), NEW m \in Message, NEW n \in Int
  PROVE  /\ Above(w, q, n) /\ Above(w, <<m>>, n) => Above(w, Append(q, m), n)
         /\ Upto(w, q, n) /\ Upto(w, <<m>>, n) => Upto(w, Append(q, m), n)
         /\ Rising(w, q) /\ Upto(w, q, n) /\ Above(w, <<m>>, n) => Rising(w, Append(q, m))
<1> DEFINE a == Append(q, m)
<1>1. /\ Len(q) \in Nat /\ DOMAIN q = 1 .. Len(q) /\ DOMAIN a = 1 .. Len(q) + 1
      /\ \A k \in DOMAIN q : a[k] = q[k] /\ q[k] \in Message
      /\ a[Len(q) + 1] = m
  OBVIOUS
<1>2. \A k \in DOMAIN a : k \in DOMAIN q \/ k = Len(q) + 1
  BY <1>1
<1>3. m.nth \in Nat /\ \A k \in DOMAIN q : q[k].nth \in Nat
  BY <1>1 DEF Message
<1> HIDE DEF a
<1>4. Above(w, q, n) /\ Above(w, <<m>>, n) => Above(w, a, n)
  BY <1>1, <1>2, OrderOfOne DEF Above
<1>5. Upto(w, q, n) /\ Upto(w, <<m>>, n) => Upto(w, a, n)
  BY <1>1, <1>2, OrderOfOne DEF Upto
<1>6. ASSUME Rising(w, q), Upto(w, q, n), Above(w, <<m>>, n) PROVE Rising(w, a)
  <2> SUFFICES ASSUME NEW j \in DOMAIN a, NEW k \in DOMAIN a, j < k, Ordered(w, a[j]), Ordered(w, a[k])
               PROVE  a[j].nth < a[k].nth
    BY DEF Rising
  <2>1. j \in DOMAIN q
    BY <1>1
  <2>2. CASE k \in DOMAIN q
    BY <1>1, <1>6, <2>1, <2>2 DEF Rising
  <2>3. CASE k = Len(q) + 1
    <3>1. q[j].nth <= n /\ n < m.nth
      BY <1>1, <1>6, <2>1, <2>3, OrderOfOne DEF Upto
    <3> QED BY <1>1, <1>3, <2>1, <2>3, <3>1
  <2> QED BY <1>2, <2>2, <2>3
<1> QED
  BY <1>4, <1>5, <1>6 DEF a

\* The head of a list, and what is behind it.
LEMMA OrderOfTail ==
  ASSUME NEW w, NEW q \in Seq(Message), q # <<>>, NEW p, NEW n
  PROVE  /\ Head(q) \in Message /\ Tail(q) \in Seq(Message)
         /\ Above(w, q, n) => Above(w, Tail(q), n) /\ Above(w, <<Head(q)>>, n)
         /\ Upto(w, q, n) => Upto(w, Tail(q), n) /\ Upto(w, <<Head(q)>>, n)
         /\ Rising(w, q) => Rising(w, Tail(q)) /\ Before(w, <<Head(q)>>, Tail(q))
         /\ Before(w, q, p) => Before(w, Tail(q), p) /\ Before(w, <<Head(q)>>, p)
<1> DEFINE t == Tail(q)
<1>1. /\ Len(q) \in Nat \ {0} /\ DOMAIN q = 1 .. Len(q) /\ DOMAIN t = 1 .. Len(q) - 1
      /\ \A k \in DOMAIN t : k \in Nat /\ k + 1 \in DOMAIN q /\ t[k] = q[k + 1]
      /\ Head(q) = q[1] /\ 1 \in DOMAIN q /\ q[1] \in Message /\ t \in Seq(Message)
  OBVIOUS
<1>2. DOMAIN <<Head(q)>> = {1} /\ <<Head(q)>>[1] = q[1]
  BY <1>1
<1> HIDE DEF t
<1>3. Above(w, q, n) => Above(w, t, n) /\ Above(w, <<Head(q)>>, n)
  BY <1>1, <1>2 DEF Above
<1>4. Upto(w, q, n) => Upto(w, t, n) /\ Upto(w, <<Head(q)>>, n)
  BY <1>1, <1>2 DEF Upto
<1>5. ASSUME Rising(w, q) PROVE Rising(w, t) /\ Before(w, <<Head(q)>>, t)
  <2>1. Rising(w, t)
    <3> SUFFICES ASSUME NEW j \in DOMAIN t, NEW k \in DOMAIN t, j < k, Ordered(w, t[j]), Ordered(w, t[k])
                 PROVE  t[j].nth < t[k].nth
      BY DEF Rising
    <3>1. j + 1 \in DOMAIN q /\ k + 1 \in DOMAIN q /\ j + 1 < k + 1
      BY <1>1
    <3> QED BY <1>1, <1>5, <3>1 DEF Rising
  <2>2. Before(w, <<Head(q)>>, t)
    <3> SUFFICES ASSUME NEW k \in DOMAIN t, Ordered(w, q[1]), Ordered(w, t[k])
                 PROVE  q[1].nth < t[k].nth
      BY <1>2 DEF Before
    <3>1. k + 1 \in DOMAIN q /\ 1 < k + 1
      BY <1>1
    <3> QED BY <1>1, <1>5, <3>1 DEF Rising
  <2> QED BY <2>1, <2>2
<1>6. Before(w, q, p) => Before(w, t, p) /\ Before(w, <<Head(q)>>, p)
  BY <1>1, <1>2 DEF Before
<1> QED
  BY <1>1, <1>3, <1>4, <1>5, <1>6 DEF t

LEMMA OrderWeakens ==
  ASSUME NEW w, NEW q \in Seq(Message), NEW n \in Int, NEW h \in Int, n <= h
  PROVE  /\ Upto(w, q, n) => Upto(w, q, h)
         /\ Above(w, q, h) => Above(w, q, n)
<1>0. \A k \in DOMAIN q : q[k] \in Message
  OBVIOUS
<1>1. \A k \in DOMAIN q : q[k].nth \in Nat
  BY <1>0 DEF Message
<1> QED
  BY <1>1 DEF Upto, Above

\* What the routine turns to output keeps its order; a turn round a loop
\* changes nothing else of a message.
LEMMA OrderOfOutput ==
  ASSUME NEW w, NEW q \in Seq(Message), NEW turn, NEW t,
         t = <<>> \o [k \in DOMAIN q |-> [q[k] EXCEPT !.turn = @ + turn]], NEW n
  PROVE  /\ Rising(w, q) => Rising(w, t)
         /\ Above(w, q, n) => Above(w, t, n)
         /\ Upto(w, q, n) => Upto(w, t, n)
<1> DEFINE r == [k \in DOMAIN q |-> [q[k] EXCEPT !.turn = @ + turn]]
<1>1. /\ Len(q) \in Nat /\ DOMAIN q = 1 .. Len(q) /\ \A k \in DOMAIN q : q[k] \in Message
  OBVIOUS
<1>2. \A k \in DOMAIN q : /\ r[k].from = q[k].from /\ r[k].kind = q[k].kind /\ r[k].nth = q[k].nth
  BY <1>1 DEF Message
<1>3. DOMAIN r = 1 .. Len(q) /\ \E S : r \in Seq(S)
  <2> DEFINE S == {r[k] : k \in DOMAIN q}
  <2>1. r \in [1 .. Len(q) -> S] /\ DOMAIN r = 1 .. Len(q)
    BY <1>1
  <2> HIDE DEF r, S
  <2>2. r \in Seq(S)
    BY <1>1, <2>1
  <2> QED BY <2>1, <2>2
<1> HIDE DEF r
<1>4. t = r
  BY <1>3 DEF r
<1>5. DOMAIN t = DOMAIN q /\ \A k \in DOMAIN q : (Ordered(w, t[k]) <=> Ordered(w, q[k])) /\ t[k].nth = q[k].nth
  BY <1>1, <1>2, <1>3, <1>4 DEF Ordered
<1> QED
  BY <1>5 DEF Rising, Above, Upto

\* Only a node's own steps touch what its routine holds and owes.
LEMMA RoutineAlone ==
  ASSUME GraphOK, Types, StackInv, NEW y \in Nodes(graph) \cap alive',
         \/ \E z \in Nodes(graph) \cap alive : z # y /\ NodeStep(z)
         \/ \E t \in Threads(graph) \cap alive :
              \/ EachCalls(t) \/ EachEnds(t) \/ ThreadEnds(t) \/ IoWorks(t) \/ IoReads(t)
              \/ IoPushes(t) \/ IoDrops(t)
         \/ \E x \in Nodes(graph) \cap alive : Fails(x)
         \/ \E w \in Writers(graph) \cap alive : WakeTarget(w) \/ WriterLeaves(w) \/ Writes(w)
         \/ \E r \in Tees(graph) \cap alive : TeeLeaves(r)
  PROVE  kept'[y] = kept[y] /\ made'[y] = made[y] /\ pending'[y] = pending[y]
<1> DEFINE Same == kept'[y] = kept[y] /\ made'[y] = made[y] /\ pending'[y] = pending[y]
<1>0. DOMAIN kept = Nodes(graph) /\ DOMAIN made = Nodes(graph) /\ DOMAIN pending = Nodes(graph)
  BY DEF Types, RoutineTypes
<1>1. ASSUME NEW gone, Drop(gone) PROVE Same
  <2>1. y \notin gone
    BY <1>1 DEF Drop
  <2> QED BY <1>0, <1>1, <2>1 DEF Drop
<1>2. ASSUME UNCHANGED routineVars PROVE Same
  BY <1>2 DEF routineVars
<1>3. ASSUME NEW z \in Nodes(graph) \cap alive, NodeStep(z), z # y PROVE Same
  <2>1. CASE Resumes(z) \/ RotateOn(z) \/ Unblock(z) \/ WakeTarget(z) \/ SideIdle(z) \/ FindsEmpty(z)
             \/ LooksAt(z) \/ Parks(z) \/ EachCalls(z) \/ EachEnds(z) \/ (WaitFront(z) /\ ~Ends(z))
    BY <1>2, <2>1 DEF Resumes, RotateOn, Unblock, WakeTarget, SideIdle, FindsEmpty, LooksAt, Parks, EachCalls,
         EachEnds, WaitFront
  <2>2. CASE PushClosed(z) \/ InputsClosed(z) \/ AllExhausted(z) \/ (WaitFront(z) /\ Ends(z))
    <3>1. Ends(z)
      BY <2>2 DEF PushClosed, InputsClosed, AllExhausted
    <3> QED BY <1>1, <3>1 DEF Ends
  <2>3. CASE Delivers(z)
    BY <1>0, <1>3, <2>3 DEF Delivers
  <2>4. CASE Takes(z)
    <3>1. PICK m : Accept(z, m) /\ m.kind \in Kinds
      <4>0. z \in Parts(graph) /\ FrameOK(z, pc[z])
        BY KindsDiffer DEF Types, FrameTypes
      <4>1. pc[z].i \in 1 .. NumInputs(z) /\ DOMAIN graph.bound[z] = 1 .. NumInputs(z)
        BY <2>4, <4>0, OutletShape DEF Takes, Running, FrameOK
      <4>2. PICK b : b = buf[<<z, pc[z].i>>]
        OBVIOUS
      <4>3. b \in Seq(Message) /\ b # <<>> /\ Accept(z, Head(b))
        BY <2>4, <4>0, <4>1, <4>2, OutletShape DEF Takes, Types, EdgeTypes
      <4>4. Head(b) \in Message
        BY <4>3
      <4> QED BY <4>3, <4>4 DEF Message
    <3>2. \A q : Emits(z, q) => made'[y] = made[y]
      BY <1>0, <1>3 DEF Emits
    <3>3. Owes(z, m) => pending'[y] = pending[y]
      BY <1>0, <1>3 DEF Owes
    <3>4. Sends(z, m) => Same
      BY <1>0, <1>3, <3>2 DEF Sends
    <3>5. CASE m.kind = "data"
      BY <3>1, <3>4, <3>5 DEF Accept
    <3>6. CASE m.kind = "flush"
      BY <1>0, <1>3, <3>1, <3>2, <3>3, <3>6 DEF Accept
    <3>7. CASE m.kind = "marker"
      BY <1>0, <1>3, <3>1, <3>3, <3>7 DEF Accept
    <3> QED BY <3>1, <3>5, <3>6, <3>7 DEF Kinds
  <2> QED BY <1>3, <2>1, <2>2, <2>3, <2>4 DEF NodeStep
<1>4. ASSUME NEW t, \/ EachCalls(t) \/ EachEnds(t) \/ IoWorks(t) \/ IoReads(t) \/ IoPushes(t) \/ WakeTarget(t)
                    \/ Writes(t)
      PROVE  Same
  BY <1>2, <1>4 DEF EachCalls, EachEnds, IoWorks, IoReads, IoPushes, WakeTarget, Writes
<1>5. ASSUME NEW t, ThreadEnds(t) \/ IoDrops(t) \/ Fails(t) \/ WriterLeaves(t) \/ TeeLeaves(t)
      PROVE  Same
  BY <1>1, <1>5 DEF ThreadEnds, IoDrops, Fails, WriterLeaves, TeeLeaves
<1> QED
  BY <1>3, <1>4, <1>5

LEMMA RoutineTouches ==
  ASSUME GraphOK, Types, StackInv, Next, NEW y \in Nodes(graph) \cap alive'
  PROVE  \/ kept'[y] = kept[y] /\ made'[y] = made[y] /\ pending'[y] = pending[y]
         \/ Delivers(y) \/ Takes(y)
<1> DEFINE Same == kept'[y] = kept[y] /\ made'[y] = made[y] /\ pending'[y] = pending[y]
<1>0. /\ DOMAIN kept = Nodes(graph) /\ DOMAIN made = Nodes(graph) /\ DOMAIN pending = Nodes(graph)
      /\ alive \subseteq Parts(graph)
  BY DEF Types, RoutineTypes, GraphTypes
<1>1. CASE NodeStep(y)
  <2>1. CASE UNCHANGED routineVars
    BY <2>1 DEF routineVars
  <2>2. CASE Ends(y)
    <3>1. PICK gone : Drop(gone)
      BY <2>2 DEF Ends
    <3>2. y \notin gone
      BY <3>1 DEF Drop
    <3> QED BY <1>0, <3>1, <3>2 DEF Drop
  <2> QED
    BY <1>1, <2>1, <2>2 DEF NodeStep, Resumes, RotateOn, Unblock, WakeTarget, SideIdle, FindsEmpty, LooksAt, Parks,
       EachCalls, EachEnds, WaitFront, PushClosed, InputsClosed, AllExhausted
<1>2. CASE ~NodeStep(y)
  BY <1>0, <1>2, Steps, RoutineAlone
<1> QED
  BY <1>1, <1>2

LEMMA DeliversPushes ==
  ASSUME GraphOK, Types, NEW x \in Nodes(graph) \cap alive, \A s, k, m : ~Pushing(x, s, k, m)
  PROVE  ~Resumes(x) /\ ~Delivers(x) /\ ~RotateOn(x) /\ ~Unblock(x)
BY NodePushes

LEMMA ClearNext ==
  ASSUME GraphOK, Types, StackInv, ClearInv, Next
  PROVE  ClearInv'
<1>0. graph' = graph
  BY SameGraph
<1> SUFFICES ASSUME NEW y \in Nodes(graph) \cap alive' PROVE ClearAt(y)'
  BY <1>0 DEF ClearInv
<1>1. y \in alive /\ ClearAt(y) /\ y \in Parts(graph) /\ pc[y] \in Frames /\ FrameOK(y, pc[y])
  BY Moves, KindsDiffer DEF ClearInv, Types, FrameTypes
<1>2. LastSide(y) \in Nat \ {0} /\ Sides(y) = 1 .. LastSide(y) /\ Sides(y)' = Sides(y)
  BY <1>0, <1>1, OutletShape DEF Sides
<1>3. ASSUME pc'[y].at \in {"idle", "push", "wake", "block"} \/ (pc'[y].at = "round" /\ pc'[y].busy)
             \/ pc'[y] = Entered
      PROVE  ClearAt(y)'
  <2>1. CASE pc'[y].at \in {"idle", "push", "wake", "block"} \/ (pc'[y].at = "round" /\ pc'[y].busy)
    BY <2>1 DEF ClearAt
  <2>2. CASE pc'[y] = Entered
    <3>1. pc'[y].at = "round" /\ pc'[y].side = 1
      BY <2>2, IdleFrames
    <3>2. \A s \in Sides(y) : ~(s < 1)
      BY <1>2
    <3> QED BY <1>2, <3>1, <3>2 DEF ClearAt
  <2> QED BY <1>3, <2>1, <2>2
<1>4. CASE \E s, k, m : Pushing(y, s, k, m)
  <2>1. PICK s, k, m : Pushing(y, s, k, m)
    BY <1>4
  <2>2. \/ pc'[y] = Idle
        \/ pc'[y].at \in {"push", "wake", "block"}
        \/ pc'[y].at = "round" /\ pc'[y].busy
    BY <1>1, <2>1, PushHolds
  <2> QED BY <1>3, <2>2, IdleFrames
<1>5. CASE ~\E s, k, m : Pushing(y, s, k, m)
  <2>0. ~Delivers(y) /\ ~Resumes(y) /\ ~RotateOn(y) /\ ~Unblock(y)
    BY <1>1, <1>5, DeliversPushes
  <2>1. CASE NodeStep(y) /\ ~Takes(y)
    <3>1. UNCHANGED held /\ ~Ends(y)
      BY <1>1, <1>5, <2>1, QuietMoves
    <3>2. made'[y] = made[y] /\ pending'[y] = pending[y]
      BY <2>0, <2>1, RoutineTouches
    <3>3. \A s : NothingOn(y, s)' <=> NothingOn(y, s)
      BY <3>1, <3>2 DEF NothingOn
    <3>4. CASE WakeTarget(y)
      <4>0. pc[y].at = "wake" /\ ~EachCalls(y) /\ ~EachEnds(y)
        BY <3>4 DEF WakeTarget, EachCalls, EachEnds, Running
      <4>1. pc'[y] = Idle \/ pc'[y].at = "push" \/ (pc'[y].at = "round" /\ pc'[y].busy)
        BY <1>1, <1>5, <2>1, <4>0, QuietMoves
      <4> QED BY <1>3, <4>1, IdleFrames
    <3>5. CASE SideIdle(y)
      <4> DEFINE s == pc[y].side
      <4>1. pc[y].at = "round" /\ NothingOn(y, s) /\ s \in Sides(y)
        BY <1>1, <3>5 DEF SideIdle, NothingOn, Running, FrameOK
      <4>0. ~EachCalls(y) /\ ~EachEnds(y)
        BY <4>1 DEF EachCalls, EachEnds, Running
      <4>2. \/ pc'[y] = Idle
            \/ pc'[y].at = "input" /\ ~pc[y].busy /\ s = LastSide(y)
            \/ pc'[y].at = "round" /\ pc'[y].side = s + 1 /\ pc'[y].busy = pc[y].busy
        BY <1>1, <1>5, <2>1, <4>0, <4>1, QuietMoves
      <4> HIDE DEF s
      <4>3. CASE pc'[y] = Idle
        BY <1>3, <4>3, IdleFrames
      <4>4. CASE pc'[y].at = "input" /\ ~pc[y].busy /\ s = LastSide(y)
        <5>1. \A r \in Sides(y) : r = s \/ r < s
          BY <1>2, <4>4
        <5>2. \A r \in Sides(y) : NothingOn(y, r)
          BY <1>1, <4>1, <4>4, <5>1 DEF ClearAt, s
        <5> QED BY <1>2, <3>3, <4>4, <5>2 DEF ClearAt
      <4>5. CASE pc'[y].at = "round" /\ pc'[y].side = s + 1 /\ pc'[y].busy = pc[y].busy
        <5>1. \A r \in Sides(y) : r < s + 1 => r = s \/ r < s
          BY <1>2, <4>1
        <5>2. ~pc[y].busy => \A r \in Sides(y) : r < s + 1 => NothingOn(y, r)
          BY <1>1, <4>1, <5>1 DEF ClearAt, s
        <5> QED BY <1>2, <3>3, <4>5, <5>2 DEF ClearAt
      <4> QED BY <4>2, <4>3, <4>4, <4>5
    <3>6. CASE ~WakeTarget(y) /\ ~SideIdle(y)
      <4>1. pc[y].at \in {"input", "wait", "park", "each", "call"}
        BY <2>0, <2>1, <3>1, <3>6 DEF NodeStep, PushClosed, InputsClosed, AllExhausted, FindsEmpty, WaitFront,
             LooksAt, Parks, EachCalls, EachEnds, Running
      <4>2. \A s \in Sides(y) : NothingOn(y, s)
        BY <1>1, <4>1 DEF ClearAt
      <4> QED BY <1>2, <3>3, <4>2 DEF ClearAt
    <3> QED BY <3>4, <3>5, <3>6
  <2>2. CASE Takes(y)
    <3>1. pc'[y] = Entered
      BY <1>1, <2>2, IdleFrames, GotoFrames DEF Takes, Types, FrameTypes
    <3> QED BY <1>3, <3>1
  <2>3. CASE ~NodeStep(y)
    <3>1. held'[y] = held[y] /\ made'[y] = made[y] /\ pending'[y] = pending[y]
      <4>1. ~Takes(y)
        BY <2>3 DEF NodeStep
      <4> QED BY <1>5, <2>0, <2>3, <4>1, Moves, RoutineTouches
    <3>2. \A s : NothingOn(y, s)' <=> NothingOn(y, s)
      BY <3>1 DEF NothingOn
    <3>3. CASE pc'[y] = pc[y]
      BY <1>1, <1>2, <3>2, <3>3 DEF ClearAt
    <3>4. CASE pc[y].at = "idle" /\ pc'[y] = Entered
      BY <1>3, <3>4
    <3>5. CASE pc[y].at = "call" /\ pc'[y].at = "each"
      BY <1>1, <1>2, <3>2, <3>5 DEF ClearAt
    <3> QED BY <1>5, <2>3, <3>3, <3>4, <3>5, Moves
  <2> QED BY <2>1, <2>2, <2>3
<1> QED
  BY <1>4, <1>5

\* Where the message comes from that side s of x is pushing.
Source(x, s, k, m) ==
  \/ /\ Going(x, s) = <<m>> /\ (\A j \in DOMAIN graph.outs[x][s] : k <= j <=> Still(x, s, j))
     /\ UNCHANGED <<made, pending>>
  \/ /\ Going(x, s) = <<>> /\ made[x][s] # <<>> /\ m = Head(made[x][s]) /\ k = 1
     /\ made' = [made EXCEPT ![x][s] = Tail(@)] /\ UNCHANGED pending
  \/ /\ Going(x, s) = <<>> /\ made[x][s] = <<>> /\ pending[x][s] # <<>> /\ m = pending[x][s][1] /\ k = 1
     /\ pending' = [pending EXCEPT ![x][s] = <<>>] /\ UNCHANGED made

LEMMA Sources ==
  ASSUME GraphOK, Types, NEW x \in Nodes(graph) \cap alive, SidesAt(x),
         Resumes(x) \/ Delivers(x) \/ RotateOn(x) \/ Unblock(x)
  PROVE  \E s, k, m : Pushing(x, s, k, m) /\ Source(x, s, k, m)
<1>0. PICK s : s = pc[x].side
  OBVIOUS
<1>1. x \in Parts(graph) /\ pc[x] \in Frames /\ FrameOK(x, pc[x])
  BY KindsDiffer DEF Types, FrameTypes
<1>2. s \in Sides(x)
  BY <1>0, <1>1 DEF FrameOK, Resumes, Delivers, RotateOn, Unblock, Running
<1>3. CASE Resumes(x)
  <2>0. PICK h : h = held[x][s][1]
    OBVIOUS
  <2>1. held[x][s] \in Seq(Holdings) /\ held[x][s] # <<>> /\ h.at \in DOMAIN graph.outs[x][s]
    BY <1>0, <1>2, <1>3, <2>0 DEF Types, HeldTypes, Resumes
  <2>2. h \in Holdings
    BY <2>0, <2>1
  <2>3. h.msg \in Message
    BY <2>2 DEF Holdings
  <2>4. Pushing(x, s, h.at, h.msg) /\ UNCHANGED <<made, pending>>
    BY <1>0, <1>2, <1>3, <2>0, <2>1, <2>3 DEF Resumes, Resume, Running, Pushing, routineVars
  <2>5. Going(x, s) = <<h.msg>> /\ \A j \in DOMAIN graph.outs[x][s] : h.at <= j <=> Still(x, s, j)
    BY <2>0, <2>1 DEF Going, Still
  <2> QED BY <2>4, <2>5 DEF Source
<1>4. CASE Delivers(x)
  <2>0. 1 \in DOMAIN graph.outs[x][s] /\ Going(x, s) = <<>>
    BY <1>0, <1>1, <1>2, <1>4, OutletShape DEF Delivers, Running, Going
  <2>1. CASE made[x][s] # <<>> /\ Rotate(x, s, 1, Head(made[x][s]))
             /\ made' = [made EXCEPT ![x][s] = Tail(@)] /\ UNCHANGED pending
    <3>1. made[x][s] \in Seq(Message)
      BY <1>2 DEF Types, RoutineTypes
    <3>2. Head(made[x][s]) \in Message
      BY <2>1, <3>1
    <3>3. Pushing(x, s, 1, Head(made[x][s]))
      BY <1>0, <1>2, <1>4, <2>0, <2>1, <3>2 DEF Delivers, Running, Pushing
    <3> QED BY <2>0, <2>1, <3>3 DEF Source
  <2>2. CASE made[x][s] = <<>> /\ pending[x][s] # <<>> /\ Rotate(x, s, 1, pending[x][s][1])
             /\ pending' = [pending EXCEPT ![x][s] = <<>>] /\ UNCHANGED made
    <3>1. pending[x][s] \in Seq(Message)
      BY <1>2 DEF Types, RoutineTypes
    <3>2. pending[x][s][1] \in Message
      BY <2>2, <3>1
    <3>3. Pushing(x, s, 1, pending[x][s][1])
      BY <1>0, <1>2, <1>4, <2>0, <2>2, <3>2 DEF Delivers, Running, Pushing
    <3> QED BY <2>0, <2>2, <3>3 DEF Source
  <2> QED BY <1>0, <1>4, <2>1, <2>2 DEF Delivers
<1>5. CASE RotateOn(x) \/ Unblock(x)
  <2>1. pc[x].i \in DOMAIN graph.outs[x][s] /\ Len(pc[x].msg) = 1 /\ pc[x].at \in {"push", "block"}
    BY <1>0, <1>1, <1>5 DEF FrameOK, RotateOn, Unblock, Running
  <2>2. pc[x].msg \in Seq(Message)
    BY <1>1 DEF Frames
  <2>3. pc[x].msg[1] \in Message /\ pc[x].msg = <<pc[x].msg[1]>>
    BY <2>1, <2>2
  <2>4. Pushing(x, s, pc[x].i, pc[x].msg[1]) /\ UNCHANGED <<made, pending>>
    BY <1>0, <1>2, <1>5, <2>1, <2>3 DEF RotateOn, Unblock, Running, Pushing, routineVars
  <2>5. held[x][s] = <<>>
    BY <1>0, <2>1 DEF SidesAt
  <2>6. Going(x, s) = <<pc[x].msg[1]>>
    BY <1>0, <2>1, <2>3, <2>5 DEF Going
  <2>7. \A j \in DOMAIN graph.outs[x][s] : pc[x].i <= j <=> Still(x, s, j)
    BY <2>1, <2>5 DEF Still
  <2> QED BY <2>4, <2>6, <2>7 DEF Source
<1> QED
  BY <1>3, <1>4, <1>5

\* What a push leaves on its way: the message for the edges that have not had
\* it, and the other sides as they were.
LEMMA PushGoing ==
  ASSUME GraphOK, Types, StackInv, NEW x \in Nodes(graph) \cap alive, NEW s, NEW k, NEW m, Pushing(x, s, k, m)
  PROVE  /\ \A r \in Sides(x) : r # s => /\ Going(x, r)' = Going(x, r)
                                         /\ \A j : held[x][r] # <<>> => Still(x, r, j)' = Still(x, r, j)
                                         /\ held[x][r] = <<>> => Going(x, r) = <<>>
         /\ \/ /\ Going(x, s)' = <<>> /\ k = Len(graph.outs[x][s])
               /\ Outcome(<<x, s, k>>, m) \in {"pushed", "dropped"}
            \/ /\ Going(x, s)' = <<m>>
               /\ \A j \in DOMAIN graph.outs[x][s] : Still(x, s, j)' <=>
                    k <= j /\ (Outcome(<<x, s, k>>, m) \in {"pushed", "dropped"} => k # j)
<1> DEFINE o == <<x, s, k>>
<1>0. /\ s = pc[x].side /\ s \in Sides(x) /\ k \in DOMAIN graph.outs[x][s] /\ m \in Message
      /\ x \in Parts(graph) /\ pc \in [Parts(graph) -> Frames]
      /\ DOMAIN held = Nodes(graph) /\ DOMAIN held[x] = Sides(x)
  BY KindsDiffer DEF Pushing, Types, FrameTypes, HeldTypes
<1>9. /\ s \in Nat \ {0} /\ \A r \in Sides(x) : r # s => held'[x][r] = held[x][r]
      /\ \/ pc'[x] = Idle
         \/ pc'[x].at \in {"push", "wake", "block"} /\ pc'[x].side = s
         \/ pc'[x].at = "round"
  <2>1. s \in Nat \ {0}
    BY PushHolds
  <2>2. \A r \in Sides(x) : r # s => held'[x][r] = held[x][r]
    <3>1. \E v : held' = [held EXCEPT ![x][s] = v]
      BY DEF Pushing, Rotate
    <3> QED BY <1>0, <3>1
  <2>3. \/ pc'[x] = Idle
        \/ pc'[x].at \in {"push", "wake", "block"} /\ pc'[x].side = s
        \/ pc'[x].at = "round"
    BY PushHolds
  <2> QED BY <2>1, <2>2, <2>3
<1>1. Len(graph.outs[x][s]) \in Nat /\ DOMAIN graph.outs[x][s] = 1 .. Len(graph.outs[x][s])
  BY <1>0, OutletShape
<1>2. ASSUME NEW r \in Sides(x), r # s
      PROVE  /\ Going(x, r)' = Going(x, r)
             /\ \A j : held[x][r] # <<>> => Still(x, r, j)' = Still(x, r, j)
             /\ held[x][r] = <<>> => Going(x, r) = <<>>
  <2>1. held'[x][r] = held[x][r]
    BY <1>2, <1>9
  <2>2. pc[x].side # r /\ ~(pc'[x].side = r /\ pc'[x].at \in {"push", "block", "wake"})
    BY <1>0, <1>2, <1>9, IdleFrames
  <2> QED BY <2>1, <2>2 DEF Going, Still
<1>3. ASSUME NEW at \in {"push", "wake", "block"}, NEW h \in DOMAIN graph.outs[x][s],
             pc' = Goto(x, Frame(at, s, h, TRUE, <<m>>)), held'[x][s] = <<>>
      PROVE  Going(x, s)' = <<m>> /\ \A j \in DOMAIN graph.outs[x][s] :
               Still(x, s, j)' <=> IF at = "wake" THEN h < j ELSE h <= j
  <2> DEFINE f == Frame(at, s, h, TRUE, <<m>>)
  <2>1. f \in Frames /\ f.at = at /\ f.side = s /\ f.i = h /\ f.msg = <<m>>
    BY <1>0, PushFrames DEF Frame
  <2>2. pc' = Goto(x, f)
    BY <1>3
  <2> HIDE DEF f
  <2>3. pc'[x] = f
    BY <1>0, <2>1, <2>2, GotoFrames
  <2> QED BY <1>3, <2>1, <2>3 DEF Going, Still
<1>4. ASSUME pc' = SideDone(x, s) PROVE pc'[x].at \in {"idle", "round"}
  <2>1. CASE s = LastSide(x)
    <3>1. pc' = Return(x)
      BY <1>4, <2>1 DEF SideDone
    <3> QED BY <1>0, <3>1, ReturnFrames, IdleFrames
  <2>2. CASE s # LastSide(x)
    <3> DEFINE f == Frame("round", s + 1, 1, TRUE, <<>>)
    <3>0. LastSide(x) \in Nat /\ Sides(x) = 1 .. LastSide(x)
      BY <1>0, OutletShape
    <3>1. s + 1 \in Sides(x) /\ TRUE \in BOOLEAN
      BY <1>0, <1>9, <2>2, <3>0
    <3>2. f \in Frames /\ f.at = "round"
      BY <3>1, RoundFrames DEF Frame
    <3>3. pc' = Goto(x, f)
      BY <1>4, <2>2 DEF SideDone
    <3> HIDE DEF f
    <3> QED BY <1>0, <3>2, <3>3, GotoFrames
  <2> QED BY <2>1, <2>2
<1>5. ASSUME pc'[x].at \in {"idle", "round"}, held'[x][s] = <<>> PROVE Going(x, s)' = <<>>
  BY <1>5 DEF Going
<1>6. CASE Rotate(x, s, k, m) /\ Outcome(o, m) \in {"pushed", "dropped"}
  <2>1. pc' = Landed(x, s, k, m) /\ held' = [held EXCEPT ![x][s] = <<>>]
    BY <1>6 DEF Rotate
  <2>2. held'[x][s] = <<>>
    BY <1>0, <2>1
  <2>3. CASE pc' = Goto(x, Frame("wake", s, k, TRUE, <<m>>))
    <3>1. Going(x, s)' = <<m>> /\ \A j \in DOMAIN graph.outs[x][s] : Still(x, s, j)' <=> k < j
      BY <1>0, <1>3, <2>2, <2>3
    <3> QED BY <1>0, <1>1, <1>2, <1>6, <3>1
  <2>4. CASE k + 1 \in DOMAIN graph.outs[x][s] /\ pc' = Goto(x, Frame("push", s, k + 1, TRUE, <<m>>))
    <3>1. Going(x, s)' = <<m>> /\ \A j \in DOMAIN graph.outs[x][s] : Still(x, s, j)' <=> k + 1 <= j
      BY <1>3, <2>2, <2>4
    <3> QED BY <1>0, <1>1, <1>2, <1>6, <3>1
  <2>5. CASE k = Len(graph.outs[x][s]) /\ pc' = SideDone(x, s)
    BY <1>2, <1>4, <1>5, <1>6, <2>2, <2>5
  <2>6. k # Len(graph.outs[x][s]) => k + 1 \in DOMAIN graph.outs[x][s]
    BY <1>0, <1>1
  <2> QED BY <2>1, <2>3, <2>4, <2>5, <2>6 DEF Landed, Onward
<1>7. CASE Rotate(x, s, k, m) /\ Outcome(o, m) \notin {"pushed", "dropped"}
  <2>1. held' = [held EXCEPT ![x][s] = <<[at |-> k, msg |-> m]>>]
    BY <1>7 DEF Rotate
  <2>2. held'[x][s] = <<[at |-> k, msg |-> m]>>
    BY <1>0, <2>1
  <2>3. Going(x, s)' = <<m>> /\ \A j : Still(x, s, j)' <=> k <= j
    BY <2>2 DEF Going, Still
  <2> QED BY <1>2, <1>7, <2>3
<1>8. CASE ~Rotate(x, s, k, m)
  <2>1. /\ Outcome(o, m) = "stuck" /\ pc' = Goto(x, Frame("block", s, k, TRUE, <<m>>))
        /\ held' = [held EXCEPT ![x][s] = <<>>]
    BY <1>8 DEF Pushing
  <2>2. held'[x][s] = <<>>
    BY <1>0, <2>1
  <2>3. Going(x, s)' = <<m>> /\ \A j \in DOMAIN graph.outs[x][s] : Still(x, s, j)' <=> k <= j
    BY <1>0, <1>3, <2>1, <2>2
  <2> QED BY <1>2, <2>1, <2>3
<1> QED
  BY <1>6, <1>7, <1>8

\* A push that woke its biunion goes on to the edges that are left.
LEMMA WakeGoing ==
  ASSUME GraphOK, Types, NEW y \in Nodes(graph) \cap alive, WakeTarget(y), NEW r \in Sides(y)
  PROVE  \/ Going(y, r)' = <<>> /\ (Going(y, r) = <<>> \/ \A j \in DOMAIN graph.outs[y][r] : ~Still(y, r, j))
         \/ Going(y, r)' = Going(y, r) /\ \A j \in DOMAIN graph.outs[y][r] : Still(y, r, j)' <=> Still(y, r, j)
<1> DEFINE s == pc[y].side
           k == pc[y].i
           m == pc[y].msg[1]
           f == Frame("push", s, k + 1, TRUE, <<m>>)
           g == Frame("round", s + 1, 1, TRUE, <<>>)
<1>0. /\ y \in Parts(graph) /\ pc \in [Parts(graph) -> Frames] /\ pc[y] \in Frames /\ FrameOK(y, pc[y])
      /\ held' = held
  BY KindsDiffer DEF Types, FrameTypes, WakeTarget
<1>1. /\ pc[y].at = "wake" /\ s \in Sides(y) /\ k \in DOMAIN graph.outs[y][s] /\ Len(pc[y].msg) = 1
      /\ graph.kind[y] # "writer" /\ pc' = Onward(y, s, k, m)
  BY <1>0, KindsDiffer DEF WakeTarget, Running, FrameOK
<1>2. pc[y].msg \in Seq(Message)
  BY <1>0 DEF Frames
<1>3. m \in Message /\ pc[y].msg = <<m>>
  BY <1>1, <1>2
<1>4. /\ Len(graph.outs[y][s]) \in Nat /\ DOMAIN graph.outs[y][s] = 1 .. Len(graph.outs[y][s])
      /\ LastSide(y) \in Nat /\ Sides(y) = 1 .. LastSide(y)
  BY <1>0, <1>1, OutletShape
<1>8. CASE held[y][r] # <<>>
  BY <1>0, <1>8 DEF Going, Still
<1>9. ASSUME held[y][r] = <<>>, pc'[y].at \in {"round", "idle"}, k = Len(graph.outs[y][s])
      PROVE  Going(y, r)' = <<>> /\ (Going(y, r) = <<>> \/ \A j \in DOMAIN graph.outs[y][r] : ~Still(y, r, j))
  <2>1. Going(y, r)' = <<>>
    BY <1>0, <1>9 DEF Going
  <2>2. CASE r # s
    BY <1>9, <2>1, <2>2 DEF Going
  <2>3. CASE r = s
    <3>1. \A j \in DOMAIN graph.outs[y][s] : ~(k < j)
      BY <1>4, <1>9
    <3> QED BY <1>1, <1>9, <2>1, <2>3, <3>1 DEF Still
  <2> QED BY <2>2, <2>3
<1>5. CASE held[y][r] = <<>> /\ k # Len(graph.outs[y][s])
  <2>1. k + 1 \in DOMAIN graph.outs[y][s] /\ k \in Nat
    <3>1. \A n \in Nat : \A h \in 1 .. n : h # n => h + 1 \in 1 .. n /\ h \in Nat
      OBVIOUS
    <3> QED BY <1>1, <1>4, <1>5, <3>1
  <2>2. f \in Frames /\ f.at = "push" /\ f.side = s /\ f.i = k + 1 /\ f.msg = <<m>>
    BY <1>0, <1>1, <1>3, <2>1, PushFrames DEF Frame
  <2>3. pc' = Goto(y, f)
    BY <1>1, <1>5 DEF Onward
  <2> HIDE DEF f
  <2>4. pc'[y] = f
    BY <1>0, <2>2, <2>3, GotoFrames
  <2>5. CASE r # s
    BY <1>0, <1>5, <2>2, <2>4, <2>5 DEF Going
  <2>6. CASE r = s
    <3>1. \A j \in DOMAIN graph.outs[y][s] : k + 1 <= j <=> k < j
      BY <1>4, <2>1
    <3>2. Going(y, r)' = <<m>> /\ Going(y, r) = <<m>>
      BY <1>0, <1>1, <1>3, <1>5, <2>2, <2>4, <2>6 DEF Going
    <3>3. \A j : Still(y, r, j)' <=> k + 1 <= j
      BY <1>0, <1>5, <2>2, <2>4 DEF Still
    <3>4. \A j : k < j <=> Still(y, r, j)
      BY <1>1, <1>5 DEF Still
    <3> QED BY <2>6, <3>1, <3>2, <3>3, <3>4
  <2> QED BY <2>5, <2>6
<1>6. CASE held[y][r] = <<>> /\ k = Len(graph.outs[y][s]) /\ s # LastSide(y)
  <2>1. s + 1 \in Sides(y) /\ TRUE \in BOOLEAN
    BY <1>1, <1>4, <1>6
  <2>2. g \in Frames /\ g.at = "round"
    BY <1>0, <2>1, RoundFrames DEF Frame
  <2>3. pc' = Goto(y, g)
    BY <1>1, <1>6 DEF Onward, SideDone
  <2> HIDE DEF g
  <2>4. pc'[y].at = "round"
    BY <1>0, <2>2, <2>3, GotoFrames
  <2> QED BY <1>6, <1>9, <2>4
<1>7. CASE held[y][r] = <<>> /\ k = Len(graph.outs[y][s]) /\ s = LastSide(y)
  <2>0. pc' = Return(y)
    BY <1>1, <1>7 DEF Onward, SideDone
  <2>1. pc'[y] = Idle
    BY <1>0, <2>0, ReturnFrames
  <2> QED BY <1>7, <1>9, <2>1, IdleFrames
<1> QED BY <1>5, <1>6, <1>7, <1>8

LEMMA LineGone ==
  ASSUME NEW w, NEW g, NEW a, NEW p, NEW q, NEW d, InLine(w, g, a, p, q, d)
  PROVE  InLine(w, <<>>, a, p, q, d)
BY OrderOfNone DEF InLine

\* The next of the output goes.
LEMMA LineOutput ==
  ASSUME NEW w, NEW g, NEW a \in Seq(Message), a # <<>>, NEW p, NEW q, NEW d, InLine(w, g, a, p, q, d)
  PROVE  /\ InLine(w, <<Head(a)>>, Tail(a), p, q, d)
         /\ \A n : Beyond(w, a, p, q, n, d) => Beyond(w, Tail(a), p, q, n, d) /\ Above(w, <<Head(a)>>, n)
<1>1. /\ Rising(w, Tail(a)) /\ Before(w, <<Head(a)>>, Tail(a))
      /\ Upto(w, Tail(a), d) /\ Upto(w, <<Head(a)>>, d)
  BY OrderOfTail DEF InLine
<1>2. \A r : Before(w, a, r) => Before(w, Tail(a), r) /\ Before(w, <<Head(a)>>, r)
  BY OrderOfTail
<1>3. \A n : Above(w, a, n) => Above(w, Tail(a), n) /\ Above(w, <<Head(a)>>, n)
  BY OrderOfTail
<1> QED
  BY <1>1, <1>2, <1>3 DEF InLine, Beyond

\* The pending signal goes, there being no output.
LEMMA LineSignal ==
  ASSUME NEW w, NEW g, NEW p \in Seq(Message), p # <<>>, NEW q, NEW d, InLine(w, g, <<>>, p, q, d)
  PROVE  /\ InLine(w, <<p[1]>>, <<>>, <<>>, q, d)
         /\ \A n : Beyond(w, <<>>, p, q, n, d) => Beyond(w, <<>>, <<>>, q, n, d) /\ Above(w, <<p[1]>>, n)
<1>1. Head(p) = p[1]
  OBVIOUS
<1>2. Upto(w, <<p[1]>>, d) /\ Before(w, <<p[1]>>, q)
  BY <1>1, OrderOfTail DEF InLine
<1>3. \A n : Above(w, p, n) => Above(w, <<p[1]>>, n)
  BY <1>1, OrderOfTail
<1> QED
  BY <1>2, <1>3, OrderOfNone DEF InLine, Beyond

\* An outlet that took m has what is behind it still to come.
LEMMA LineTaken ==
  ASSUME NEW w, NEW m \in Message, NEW a \in Seq(Message), NEW p \in Seq(Message), NEW q \in Seq(Message),
         NEW d \in Int, InLine(w, <<m>>, a, p, q, d), Ordered(w, m)
  PROVE  Beyond(w, a, p, q, m.nth, d)
<1>1. Above(w, a, m.nth) /\ Above(w, p, m.nth) /\ Above(w, q, m.nth) /\ m.nth <= d
  BY OrderOfOne DEF InLine
<1> QED
  BY <1>1 DEF Beyond

\* A node that moves nothing, or is through with the message it had going.
LEMMA NodeKeeps ==
  ASSUME graph' = graph, NEW w, NEW x \in Nodes(graph), NEW mark, NEW done, NodeOrder(w, x, mark, done),
         kept'[x] = kept[x], made'[x] = made[x], pending'[x] = pending[x], NEW mk, NEW dn,
         dn[x] = done[x], \A s \in Sides(x) : \A k \in DOMAIN graph.outs[x][s] : mk[<<x, s, k>>] = mark[<<x, s, k>>],
         \A s \in Sides(x) :
           \/ Going(x, s)' = <<>>
           \/ Going(x, s)' = Going(x, s) /\ \A k \in DOMAIN graph.outs[x][s] : Still(x, s, k)' => Still(x, s, k)
  PROVE  NodeOrder(w, x, mk, dn)'
<1>1. Rising(w, kept'[x]) /\ Upto(w, kept'[x], dn[x]) /\ Sides(x)' = Sides(x)
  BY DEF NodeOrder, Sides
<1>2. ASSUME NEW s \in Sides(x) PROVE LineUp(w, x, s, mk, dn)'
  <2> DEFINE outs == DOMAIN graph.outs[x][s]
  <2>1. LineUp(w, x, s, mark, done)
    BY DEF NodeOrder
  <2>2. CASE Going(x, s)' = <<>>
    <3>1. InLine(w, Going(x, s)', made'[x][s], pending'[x][s], kept'[x], dn[x])
      BY <2>1, <2>2, LineGone DEF LineUp
    <3>2. \A k \in outs : Beyond(w, made'[x][s], pending'[x][s], kept'[x], mk[<<x, s, k>>], dn[x])
      BY <2>1 DEF LineUp
    <3>3. \A k \in outs : Above(w, Going(x, s)', mk[<<x, s, k>>])
      BY <2>2, OrderOfNone
    <3> QED BY <3>1, <3>2, <3>3 DEF LineUp
  <2>3. CASE Going(x, s)' = Going(x, s) /\ \A k \in outs : Still(x, s, k)' => Still(x, s, k)
    BY <2>1, <2>3 DEF LineUp
  <2> QED BY <2>2, <2>3
<1> QED
  BY <1>1, <1>2 DEF NodeOrder

\* A push of a node: what its outlet took, it has behind it.
LEMMA NodePushed ==
  ASSUME GraphOK, Types, StackInv, NEW w, NEW x \in Nodes(graph) \cap alive, NEW s, NEW k, NEW m,
         Pushing(x, s, k, m), Source(x, s, k, m), NEW mark \in [Outlets(graph) -> Int],
         NEW done \in [Parts(graph) -> Int], NodeOrder(w, x, mark, done), NEW mk,
         mk = IF Ordered(w, m) /\ Outcome(<<x, s, k>>, m) \in {"pushed", "dropped"}
              THEN [mark EXCEPT ![<<x, s, k>>] = m.nth] ELSE mark
  PROVE  /\ NodeOrder(w, x, mk, done)'
         /\ Ordered(w, m) => mark[<<x, s, k>>] < m.nth /\ m.nth <= done[x]
<1> DEFINE Out(r) == DOMAIN graph.outs[x][r]
<1>0. /\ s \in Sides(x) /\ k \in Out(s) /\ m \in Message /\ kept' = kept /\ graph' = graph
      /\ x \in Parts(graph) /\ Sides(x)' = Sides(x) /\ done[x] \in Int
      /\ \A r \in Sides(x) : \A j \in Out(r) : <<x, r, j>> \in Outlets(graph) /\ mark[<<x, r, j>>] \in Int
  BY KindsDiffer, OutletShape DEF Pushing, Sides
<1>1. /\ kept[x] \in Seq(Message) /\ DOMAIN made = Nodes(graph) /\ DOMAIN pending = Nodes(graph)
      /\ made[x] \in [Sides(x) -> Seq(Message)] /\ pending[x] \in [Sides(x) -> Seq(Message)]
      /\ Out(s) \subseteq Nat
  <2>1. Len(graph.outs[x][s]) \in Nat /\ DOMAIN graph.outs[x][s] = 1 .. Len(graph.outs[x][s])
    BY <1>0, OutletShape
  <2> QED BY <2>1 DEF Types, RoutineTypes
<1>2. made[x][s] \in Seq(Message) /\ pending[x][s] \in Seq(Message) /\ LineUp(w, x, s, mark, done)
  BY <1>0, <1>1 DEF NodeOrder
<1>3. \A r \in Sides(x) : r # s => made'[x][r] = made[x][r] /\ pending'[x][r] = pending[x][r]
  BY <1>1 DEF Source
<1>4. /\ InLine(w, <<m>>, made'[x][s], pending'[x][s], kept[x], done[x])
      /\ \A j \in Out(s) : Beyond(w, made'[x][s], pending'[x][s], kept[x], mark[<<x, s, j>>], done[x])
      /\ \A j \in Out(s) : k <= j => Above(w, <<m>>, mark[<<x, s, j>>])
      /\ made'[x][s] \in Seq(Message) /\ pending'[x][s] \in Seq(Message)
  <2>1. CASE /\ Going(x, s) = <<m>> /\ (\A j \in Out(s) : k <= j <=> Still(x, s, j))
             /\ UNCHANGED <<made, pending>>
    BY <1>2, <2>1 DEF LineUp
  <2>2. CASE /\ made[x][s] # <<>> /\ m = Head(made[x][s]) /\ k = 1
             /\ made' = [made EXCEPT ![x][s] = Tail(@)] /\ UNCHANGED pending
    <3>1. made'[x][s] = Tail(made[x][s]) /\ pending'[x][s] = pending[x][s] /\ Tail(made[x][s]) \in Seq(Message)
      BY <1>0, <1>1, <1>2, <2>2, OrderOfTail
    <3>2. /\ InLine(w, <<m>>, Tail(made[x][s]), pending[x][s], kept[x], done[x])
          /\ \A n : Beyond(w, made[x][s], pending[x][s], kept[x], n, done[x]) =>
               Beyond(w, Tail(made[x][s]), pending[x][s], kept[x], n, done[x]) /\ Above(w, <<m>>, n)
      BY <1>2, <2>2, LineOutput DEF LineUp
    <3> QED BY <1>2, <3>1, <3>2 DEF LineUp
  <2>3. CASE /\ made[x][s] = <<>> /\ pending[x][s] # <<>> /\ m = pending[x][s][1] /\ k = 1
             /\ pending' = [pending EXCEPT ![x][s] = <<>>] /\ UNCHANGED made
    <3>1. made'[x][s] = <<>> /\ pending'[x][s] = <<>>
      BY <1>0, <1>1, <2>3
    <3>2. /\ InLine(w, <<m>>, <<>>, <<>>, kept[x], done[x])
          /\ \A n : Beyond(w, <<>>, pending[x][s], kept[x], n, done[x]) =>
               Beyond(w, <<>>, <<>>, kept[x], n, done[x]) /\ Above(w, <<m>>, n)
      BY <1>2, <2>3, LineSignal DEF LineUp
    <3> QED BY <1>2, <2>3, <3>1, <3>2 DEF LineUp
  <2> QED BY <2>1, <2>2, <2>3 DEF Source
<1>5. Ordered(w, m) => mark[<<x, s, k>>] < m.nth /\ m.nth <= done[x]
  <2>1. k <= k
    <3>1. k \in Nat
      BY <1>0, <1>1
    <3> QED BY <3>1
  <2>2. Above(w, <<m>>, mark[<<x, s, k>>]) /\ Upto(w, <<m>>, done[x])
    BY <1>0, <1>4, <2>1 DEF InLine
  <2> QED BY <1>0, <1>1, <2>2, OrderOfOne
<1>6. /\ \A r \in Sides(x) : \A j \in Out(r) : <<r, j>> # <<s, k>> => mk[<<x, r, j>>] = mark[<<x, r, j>>]
      /\ mk[<<x, s, k>>] = IF Ordered(w, m) /\ Outcome(<<x, s, k>>, m) \in {"pushed", "dropped"} THEN m.nth
                           ELSE mark[<<x, s, k>>]
  BY <1>0
<1>7. \/ Going(x, s)' = <<>>
      \/ /\ Going(x, s)' = <<m>>
         /\ \A j \in Out(s) : Still(x, s, j)' =>
              k <= j /\ (Outcome(<<x, s, k>>, m) \in {"pushed", "dropped"} => k # j)
  BY PushGoing
<1>8. LineUp(w, x, s, mk, done)'
  <2>1. InLine(w, Going(x, s)', made'[x][s], pending'[x][s], kept[x], done[x])
    BY <1>4, <1>7, LineGone
  <2>2. ASSUME NEW j \in Out(s)
        PROVE  /\ Beyond(w, made'[x][s], pending'[x][s], kept[x], mk[<<x, s, j>>], done[x])
               /\ Still(x, s, j)' => Above(w, Going(x, s)', mk[<<x, s, j>>])
    <3>1. CASE mk[<<x, s, j>>] = mark[<<x, s, j>>]
      <4>1. Still(x, s, j)' => Above(w, Going(x, s)', mk[<<x, s, j>>])
        BY <1>4, <1>7, <3>1, OrderOfNone
      <4> QED BY <1>4, <3>1, <4>1
    <3>2. CASE mk[<<x, s, j>>] # mark[<<x, s, j>>]
      <4>1. j = k /\ Ordered(w, m) /\ Outcome(<<x, s, k>>, m) \in {"pushed", "dropped"} /\ mk[<<x, s, j>>] = m.nth
        BY <1>0, <1>6, <3>2
      <4>2. Beyond(w, made'[x][s], pending'[x][s], kept[x], m.nth, done[x])
        BY <1>0, <1>1, <1>4, <4>1, LineTaken
      <4>3. Still(x, s, j)' => Above(w, Going(x, s)', mk[<<x, s, j>>])
        BY <1>7, <4>1, OrderOfNone
      <4> QED BY <4>1, <4>2, <4>3
    <3> QED BY <3>1, <3>2
  <2> QED BY <1>0, <2>1, <2>2 DEF LineUp
<1>9. ASSUME NEW r \in Sides(x), r # s PROVE LineUp(w, x, r, mk, done)'
  <2>1. /\ Going(x, r)' = Going(x, r) /\ made'[x][r] = made[x][r] /\ pending'[x][r] = pending[x][r]
        /\ \A j \in Out(r) : mk[<<x, r, j>>] = mark[<<x, r, j>>]
    BY <1>3, <1>6, <1>9, PushGoing
  <2>2. LineUp(w, x, r, mark, done)
    BY DEF NodeOrder
  <2>3. \A j \in Out(r) : Still(x, r, j)' => Above(w, Going(x, r), mark[<<x, r, j>>])
    <3>1. CASE held[x][r] # <<>>
      <4>1. \A j : Still(x, r, j)' = Still(x, r, j)
        BY <1>9, <3>1, PushGoing
      <4> QED BY <2>2, <4>1 DEF LineUp
    <3>2. CASE held[x][r] = <<>>
      <4>1. Going(x, r) = <<>>
        BY <1>9, <3>2, PushGoing
      <4> QED BY <4>1, OrderOfNone
    <3> QED BY <3>1, <3>2
  <2> QED BY <1>0, <2>1, <2>2, <2>3 DEF LineUp
<1>10. Rising(w, kept'[x]) /\ Upto(w, kept'[x], done[x])
  BY <1>0 DEF NodeOrder
<1> QED
  BY <1>0, <1>5, <1>8, <1>9, <1>10 DEF NodeOrder

\* A node takes a message from its input, everything it had to push being gone.
LEMMA NodeTook ==
  ASSUME GraphOK, Types, StackInv, NEW w, NEW x \in Nodes(graph) \cap alive, Takes(x), ClearAt(x),
         NEW m \in Message, m = Head(buf[<<x, pc[x].i>>]), NEW mark \in [Outlets(graph) -> Int],
         NEW done \in [Parts(graph) -> Int], NodeOrder(w, x, mark, done), Ordered(w, m) => done[x] < m.nth,
         NEW dn, dn = IF Ordered(w, m) THEN [done EXCEPT ![x] = m.nth] ELSE done
  PROVE  NodeOrder(w, x, mark, dn)'
<1> DEFINE Out(r) == DOMAIN graph.outs[x][r]
           q == kept[x]
           d == dn[x]
<1>0. /\ graph' = graph /\ x \in Parts(graph) /\ Sides(x)' = Sides(x) /\ held' = held /\ Accept(x, m)
      /\ pc' = Goto(x, Entered) /\ pc[x].at = "input" /\ pc \in [Parts(graph) -> Frames]
      /\ \A r \in Sides(x) : \A j \in Out(r) : mark[<<x, r, j>>] \in Int
      /\ done[x] \in Int
  BY KindsDiffer, OutletShape DEF Takes, Running, Sides, Types, FrameTypes
<1>1. /\ q \in Seq(Message) /\ DOMAIN kept = Nodes(graph) /\ DOMAIN made = Nodes(graph) /\ DOMAIN pending = Nodes(graph)
      /\ made[x] \in [Sides(x) -> Seq(Message)] /\ pending[x] \in [Sides(x) -> Seq(Message)]
      /\ DOMAIN made[x] = Sides(x)
  BY DEF Types, RoutineTypes
<1>2. \A s \in Sides(x) : held[x][s] = <<>> /\ made[x][s] = <<>> /\ pending[x][s] = <<>>
  BY <1>0 DEF ClearAt, NothingOn
<1>3. \A s \in Sides(x) : Going(x, s)' = <<>>
  <2>1. pc'[x].at = "round"
    BY <1>0, IdleFrames, GotoFrames
  <2> QED BY <1>0, <1>2, <2>1 DEF Going
<1>4. /\ Rising(w, q) /\ Upto(w, q, done[x])
      /\ \A s \in Sides(x) : \A k \in Out(s) : mark[<<x, s, k>>] <= done[x] /\ Above(w, q, mark[<<x, s, k>>])
  BY DEF NodeOrder, LineUp, Beyond
<1>5. /\ d \in Int /\ done[x] <= d /\ Upto(w, <<m>>, d) /\ Above(w, <<m>>, done[x])
  <2>1. m.nth \in Nat
    BY DEF Message
  <2>2. d = IF Ordered(w, m) THEN m.nth ELSE done[x]
    BY <1>0
  <2>3. d \in Int /\ done[x] <= d
    BY <1>0, <2>1, <2>2
  <2> HIDE DEF d
  <2>4. Upto(w, <<m>>, d) /\ Above(w, <<m>>, done[x])
    <3>1. \A n \in Int : /\ Above(w, <<m>>, n) <=> (Ordered(w, m) => n < m.nth)
                         /\ Upto(w, <<m>>, n) <=> (Ordered(w, m) => m.nth <= n)
      BY <1>1, OrderOfOne
    <3> QED BY <1>0, <2>1, <2>2, <2>3, <3>1
  <2> QED BY <2>3, <2>4
<1>6. /\ Upto(w, q, d)
      /\ \A s \in Sides(x) : \A k \in Out(s) : /\ mark[<<x, s, k>>] <= d
                                               /\ Above(w, <<m>>, mark[<<x, s, k>>])
  <2>1. Upto(w, q, d)
    BY <1>0, <1>1, <1>4, <1>5, OrderWeakens
  <2>2. ASSUME NEW s \in Sides(x), NEW k \in Out(s)
        PROVE  mark[<<x, s, k>>] <= d /\ Above(w, <<m>>, mark[<<x, s, k>>])
    <3>1. mark[<<x, s, k>>] \in Int /\ mark[<<x, s, k>>] <= done[x]
      BY <1>0, <1>4
    <3>2. <<m>> \in Seq(Message)
      OBVIOUS
    <3>3. Above(w, <<m>>, mark[<<x, s, k>>])
      BY <1>0, <1>5, <3>1, <3>2, OrderWeakens
    <3> QED BY <1>0, <1>5, <3>1, <3>3
  <2> QED BY <2>1, <2>2
<1>7. /\ Rising(w, Append(q, m)) /\ Upto(w, Append(q, m), d)
      /\ \A s \in Sides(x) : \A k \in Out(s) : Above(w, Append(q, m), mark[<<x, s, k>>])
  BY <1>0, <1>1, <1>4, <1>5, <1>6, OrderOfAppend
<1> HIDE DEF d
\* What the new state has to show, side by side.
<1>8. ASSUME Rising(w, kept'[x]), Upto(w, kept'[x], d),
             \A s \in Sides(x) :
               /\ Rising(w, made'[x][s]) /\ Upto(w, made'[x][s], d) /\ Upto(w, pending'[x][s], d)
               /\ Before(w, made'[x][s], pending'[x][s]) /\ Before(w, made'[x][s], kept'[x])
               /\ Before(w, pending'[x][s], kept'[x])
               /\ \A k \in Out(s) : /\ Above(w, made'[x][s], mark[<<x, s, k>>])
                                    /\ Above(w, pending'[x][s], mark[<<x, s, k>>])
                                    /\ Above(w, kept'[x], mark[<<x, s, k>>])
      PROVE  NodeOrder(w, x, mark, dn)'
  <2> SUFFICES ASSUME NEW s \in Sides(x) PROVE LineUp(w, x, s, mark, dn)'
    BY <1>0, <1>8 DEF NodeOrder, d
  <2>1. InLine(w, <<>>, made'[x][s], pending'[x][s], kept'[x], d)
    BY <1>8, OrderOfNone DEF InLine
  <2>2. \A k \in Out(s) : /\ Beyond(w, made'[x][s], pending'[x][s], kept'[x], mark[<<x, s, k>>], d)
                          /\ Above(w, <<>>, mark[<<x, s, k>>])
    BY <1>6, <1>8, OrderOfNone DEF Beyond
  <2> QED BY <1>0, <1>3, <2>1, <2>2 DEF LineUp, d
\* The routine's output is the list it turned, on one side.
<1>9. ASSUME NEW t \in Seq(Message), Emits(x, t)
      PROVE  \A s \in Sides(x) :
               \/ made'[x][s] = <<>>
               \/ /\ \A n : Above(w, t, n) => Above(w, made'[x][s], n)
                  /\ \A n : Upto(w, t, n) => Upto(w, made'[x][s], n)
                  /\ Rising(w, t) => Rising(w, made'[x][s])
                  /\ made'[x][s] \in Seq(Message)
  <2>0. made'[x] \in [Sides(x) -> Seq(Message)]
    BY <1>0, <1>9, EmitsTypes DEF Types
  <2>1. PICK s \in Sides(x) :
          made' = [made EXCEPT ![x][s] = @ \o [k \in DOMAIN t |-> [t[k] EXCEPT !.turn = @ + IF Loops(x, s) THEN 1 ELSE 0]]]
    BY <1>9 DEF Emits
  <2>2. PICK turn : turn = IF Loops(x, s) THEN 1 ELSE 0
    OBVIOUS
  <2>3. PICK l : l = <<>> \o [k \in DOMAIN t |-> [t[k] EXCEPT !.turn = @ + turn]]
    OBVIOUS
  <2>4. made'[x][s] = l /\ \A r \in Sides(x) : r # s => made'[x][r] = <<>>
    BY <1>1, <1>2, <2>1, <2>2, <2>3
  <2>5. /\ \A n : Above(w, t, n) => Above(w, l, n)
        /\ \A n : Upto(w, t, n) => Upto(w, l, n)
        /\ Rising(w, t) => Rising(w, l)
    BY <2>3, OrderOfOutput
  <2> QED BY <2>0, <2>4, <2>5
<1> HIDE DEF q
<1>10. CASE m.kind = "data"
  <2>1. Sends(x, m) /\ pending' = pending
    BY <1>0, <1>10 DEF Accept, Sends
  <2>2. CASE kept' = [kept EXCEPT ![x] = Append(@, m)] /\ made' = made
    <3>1. kept'[x] = Append(q, m) /\ \A s \in Sides(x) : made'[x][s] = <<>> /\ pending'[x][s] = <<>>
      BY <1>1, <1>2, <2>1, <2>2 DEF q
    <3> QED BY <1>7, <1>8, <3>1, OrderOfNone
  <2>3. CASE Emits(x, Append(q, m)) /\ kept' = [kept EXCEPT ![x] = <<>>]
    <3>1. kept'[x] = <<>> /\ \A s \in Sides(x) : pending'[x][s] = <<>>
      BY <1>1, <1>2, <2>1, <2>3
    <3>2. Append(q, m) \in Seq(Message)
      BY <1>1
    <3>3. \A s \in Sides(x) : /\ Rising(w, made'[x][s]) /\ Upto(w, made'[x][s], d)
                              /\ \A k \in Out(s) : Above(w, made'[x][s], mark[<<x, s, k>>])
      BY <1>7, <1>9, <2>3, <3>2, OrderOfNone
    <3> QED BY <1>8, <3>1, <3>3, OrderOfNone
  <2> QED BY <2>1, <2>2, <2>3 DEF Sends, q
<1>11. CASE m.kind = "flush"
  <2>1. Emits(x, q) /\ kept' = [kept EXCEPT ![x] = <<>>] /\ Owes(x, m)
    BY <1>0, <1>11 DEF Accept, q
  <2>2. kept'[x] = <<>> /\ \A s \in Sides(x) : pending'[x][s] = <<m>>
    BY <1>1, <2>1 DEF Owes
  <2>3. ASSUME NEW s \in Sides(x)
        PROVE  /\ Rising(w, made'[x][s]) /\ Upto(w, made'[x][s], d) /\ Before(w, made'[x][s], <<m>>)
               /\ \A k \in Out(s) : Above(w, made'[x][s], mark[<<x, s, k>>])
    <3>1. CASE made'[x][s] = <<>>
      BY <3>1, OrderOfNone
    <3>2. CASE made'[x][s] # <<>>
      <4>1. /\ Rising(w, made'[x][s]) /\ Upto(w, made'[x][s], d) /\ Upto(w, made'[x][s], done[x])
            /\ \A k \in Out(s) : Above(w, made'[x][s], mark[<<x, s, k>>])
            /\ made'[x][s] \in Seq(Message)
        BY <1>1, <1>4, <1>6, <1>9, <2>1, <3>2 DEF q
      <4>2. Before(w, made'[x][s], <<m>>)
        BY <1>0, <1>5, <4>1, OrderOfOne
      <4> QED BY <4>1, <4>2
    <3> QED BY <3>1, <3>2
  <2> QED BY <1>5, <1>6, <1>8, <2>2, <2>3, OrderOfNone
<1>12. CASE m.kind = "marker"
  <2>1. kept' = kept /\ made' = made /\ Owes(x, m)
    BY <1>0, <1>12 DEF Accept
  <2>2. kept'[x] = q /\ \A s \in Sides(x) : made'[x][s] = <<>> /\ pending'[x][s] = <<m>>
    BY <1>1, <1>2, <2>1 DEF Owes, q
  <2>3. Before(w, <<m>>, q)
    <3>1. ~Ordered(w, m)
      BY <1>12 DEF Ordered
    <3> QED BY <1>0, <1>1, <3>1, OrderOfOne DEF q
  <2>4. /\ Rising(w, kept'[x]) /\ Upto(w, kept'[x], d)
        /\ \A s \in Sides(x) : \A k \in Out(s) : Above(w, kept'[x], mark[<<x, s, k>>])
    BY <1>4, <1>6, <2>2 DEF q
  <2> QED BY <1>5, <1>6, <1>8, <2>2, <2>3, <2>4, OrderOfNone
<1>13. m.kind \in Kinds
  BY DEF Message
<1> QED
  BY <1>10, <1>11, <1>12, <1>13 DEF Kinds

\* The outlets that R leaves out, and those it does not.
LEMMA TreeShape ==
  ASSUME GraphOK, NEW w, NEW R, Tree(w, R)
  PROVE  /\ \A o \in R : o \in Outlets(graph) /\ To(o) \in Inputs(graph) /\ To(o)[1] \in Parts(graph)
         /\ \A u \in Outlets(graph) : u[1] = w => u \in R
         /\ \A u \in Outlets(graph), o \in R : To(o)[1] = u[1] => u \in R
         /\ \A u, o \in R : To(u)[1] = To(o)[1] => u = o
<1>1. R \subseteq Outlets(graph) /\ \A u, o \in R : To(u)[1] = To(o)[1] => u = o
  BY DEF Tree
<1>2. \A u \in Outlets(graph) : u[1] = w \/ (\E o \in R : To(o)[1] = u[1]) => u \in R
  BY DEF Tree, Ways
<1> QED
  BY <1>1, <1>2, OutletShape

\* Edges that are left alone, or lose all they hold.
LEMMA OrderStays ==
  ASSUME GraphOK, Types, NEW w, NEW R, Tree(w, R), NEW mark, NEW done, EdgesInOrder(w, R, mark, done),
         graph' = graph, \A i \in Inputs(graph) : buf'[i] = buf[i] \/ buf'[i] = <<>>
  PROVE  EdgesInOrder(w, R, mark, done)'
<1>1. ASSUME NEW o \in R PROVE EdgeOrder(w, o, mark, done)'
  <2>1. EdgeOrder(w, o, mark, done) /\ To(o) \in Inputs(graph) /\ To(o)' = To(o)
    BY TreeShape DEF EdgesInOrder, To
  <2>2. buf'[To(o)] = buf[To(o)] \/ buf'[To(o)] = <<>>
    BY <2>1
  <2> QED BY <2>1, <2>2, OrderOfNone DEF EdgeOrder
<1>2. ASSUME NEW i \in Inputs(graph), \A o \in R : To(o) # i PROVE Upto(w, buf'[i], -1)
  BY <1>2, OrderOfNone DEF EdgesInOrder
<1>3. \A o \in R : To(o)' = To(o)
  BY DEF To
<1> QED
  BY <1>1, <1>2, <1>3 DEF EdgesInOrder

\* A push into an outlet, of a message it has not had.
LEMMA PushOrder ==
  ASSUME GraphOK, Types, NEW w, NEW R, Tree(w, R), NEW mark, NEW done, EdgesInOrder(w, R, mark, done),
         NEW u \in Outlets(graph), NEW m \in Message, Push(u, m), graph' = graph,
         Ordered(w, m) => u \in R /\ mark[u] < m.nth,
         NEW mk, mk = IF Ordered(w, m) /\ Outcome(u, m) \in {"pushed", "dropped"}
                      THEN [mark EXCEPT ![u] = m.nth] ELSE mark
  PROVE  EdgesInOrder(w, R, mk, done)'
<1>0. /\ mark \in [Outlets(graph) -> Int] /\ done \in [Parts(graph) -> Int] /\ m.nth \in Int
      /\ buf \in [Inputs(graph) -> Seq(Message)] /\ To(u) \in Inputs(graph)
  <2>1. m.nth \in Int
    BY DEF Message
  <2> QED BY <2>1, OutletShape DEF EdgesInOrder, Types, EdgeTypes
<1>1. mk \in [Outlets(graph) -> Int] /\ \A o \in Outlets(graph) : o # u => mk[o] = mark[o]
  BY <1>0
<1>2. ASSUME NEW i \in Inputs(graph)
      PROVE  buf'[i] = buf[i] \/ (i = To(u) /\ Outcome(u, m) = "pushed" /\ buf'[i] = Append(buf[i], m))
  BY <1>0 DEF Push
<1>3. /\ \A n \in Int : /\ Above(w, <<m>>, n) <=> (Ordered(w, m) => n < m.nth)
                        /\ Upto(w, <<m>>, n) <=> (Ordered(w, m) => m.nth <= n)
  <2>1. <<>> \in Seq(Message)
    OBVIOUS
  <2> QED BY <2>1, OrderOfOne
<1>4. ASSUME NEW o \in R PROVE EdgeOrder(w, o, mk, done)'
  <2> DEFINE i == To(o)
             d == done[i[1]]
  <2>1. /\ EdgeOrder(w, o, mark, done) /\ i \in Inputs(graph) /\ o \in Outlets(graph) /\ To(o)' = i
        /\ mark[o] \in Int /\ mk[o] \in Int /\ d \in Int /\ buf[i] \in Seq(Message)
    BY <1>0, <1>1, TreeShape DEF EdgesInOrder, To
  <2>2. /\ Rising(w, buf[i]) /\ Upto(w, buf[i], mark[o]) /\ Above(w, buf[i], d) /\ d <= mark[o]
    BY <2>1 DEF EdgeOrder
  <2>3. mark[o] <= mk[o]
    <3>1. CASE o = u /\ Ordered(w, m)
      BY <1>0, <2>1, <3>1
    <3>2. CASE ~(o = u /\ Ordered(w, m))
      BY <1>1, <2>1, <3>2
    <3> QED BY <3>1, <3>2
  <2>4. Upto(w, buf[i], mk[o]) /\ d <= mk[o]
    BY <2>1, <2>2, <2>3, OrderWeakens
  <2>5. CASE buf'[i] = buf[i]
    BY <2>1, <2>2, <2>4, <2>5 DEF EdgeOrder
  <2>6. CASE i = To(u) /\ Outcome(u, m) = "pushed" /\ buf'[i] = Append(buf[i], m)
    <3>1. Ordered(w, m) => o = u /\ mk[o] = m.nth /\ mark[o] < m.nth
      <4>1. Ordered(w, m) => o = u
        BY <2>6, TreeShape
      <4> QED BY <1>0, <2>1, <2>6, <4>1
    <3>2. Above(w, <<m>>, mark[o]) /\ Above(w, <<m>>, d) /\ Upto(w, <<m>>, mk[o])
      <4>1. m.nth \in Int /\ mark[o] \in Int /\ d \in Int /\ mk[o] \in Int /\ d <= mark[o]
        BY <1>0, <2>1, <2>2
      <4> HIDE DEF d, i
      <4>2. Ordered(w, m) => mark[o] < m.nth /\ d < m.nth /\ m.nth <= mk[o]
        BY <3>1, <4>1
      <4> QED BY <1>3, <4>1, <4>2
    <3>3. Rising(w, Append(buf[i], m)) /\ Upto(w, Append(buf[i], m), mk[o]) /\ Above(w, Append(buf[i], m), d)
      BY <2>1, <2>2, <2>4, <3>2, OrderOfAppend
    <3> QED BY <2>1, <2>4, <2>6, <3>3 DEF EdgeOrder
  <2> QED BY <1>2, <2>1, <2>5, <2>6
<1>5. ASSUME NEW i \in Inputs(graph), \A o \in R : To(o) # i PROVE Upto(w, buf'[i], -1)
  <2>1. Upto(w, buf[i], -1) /\ buf[i] \in Seq(Message) /\ -1 \in Int
    BY <1>0, <1>5 DEF EdgesInOrder
  <2>2. CASE i = To(u) /\ buf'[i] = Append(buf[i], m)
    <3>1. ~Ordered(w, m)
      BY <1>5, <2>2
    <3> QED BY <1>3, <2>1, <2>2, <3>1, OrderOfAppend
  <2> QED BY <1>2, <2>1, <2>2
<1>6. \A o \in R : To(o)' = To(o)
  BY DEF To
<1>7. \A x \in Nodes(graph) : (\A o \in R : To(o)[1] # x) => done[x] = -1
  BY DEF EdgesInOrder
<1> QED
  BY <1>0, <1>1, <1>4, <1>5, <1>6, <1>7 DEF EdgesInOrder

\* A pop: what comes out is the least of what is still to come.
LEMMA PopOrder ==
  ASSUME GraphOK, Types, NEW w, NEW R, Tree(w, R), NEW mark, NEW done, EdgesInOrder(w, R, mark, done),
         NEW i \in Inputs(graph), buf[i] # <<>>, Pop(i), graph' = graph, NEW m, m = Head(buf[i]),
         NEW dn, dn = IF Ordered(w, m) THEN [done EXCEPT ![i[1]] = m.nth] ELSE done
  PROVE  /\ m \in Message /\ (Ordered(w, m) => done[i[1]] < m.nth)
         /\ EdgesInOrder(w, R, mark, done)'
         /\ EdgesInOrder(w, R, mark, dn)'
<1>0. /\ mark \in [Outlets(graph) -> Int] /\ done \in [Parts(graph) -> Int] /\ i[1] \in Parts(graph)
      /\ buf \in [Inputs(graph) -> Seq(Message)] /\ \A o \in R : To(o)' = To(o)
      /\ \A x \in Nodes(graph) : (\A o \in R : To(o)[1] # x) => done[x] = -1
  BY OutletShape DEF EdgesInOrder, Types, EdgeTypes, To
<1> DEFINE q == buf[i]
<1>1. q \in Seq(Message) /\ q # <<>> /\ Tail(q) \in Seq(Message) /\ m \in Message
  BY <1>0, OrderOfTail
<1>2. m.nth \in Nat
  BY <1>1 DEF Message
<1>3. buf'[i] = Tail(q) /\ \A j \in Inputs(graph) : j # i => buf'[j] = buf[j]
  BY <1>0 DEF Pop
<1> HIDE DEF q
<1>4. /\ \A n \in Int : /\ Above(w, <<m>>, n) <=> (Ordered(w, m) => n < m.nth)
                        /\ Upto(w, <<m>>, n) <=> (Ordered(w, m) => m.nth <= n)
      /\ Before(w, <<m>>, Tail(q)) <=> (Ordered(w, m) => Above(w, Tail(q), m.nth))
  <2>1. \A n \in Int : /\ Above(w, <<m>>, n) <=> (Ordered(w, m) => n < m.nth)
                       /\ Upto(w, <<m>>, n) <=> (Ordered(w, m) => m.nth <= n)
    BY <1>1, OrderOfOne
  <2>2. 0 \in Int
    OBVIOUS
  <2>3. Before(w, <<m>>, Tail(q)) <=> (Ordered(w, m) => Above(w, Tail(q), m.nth))
    BY <1>1, <2>2, OrderOfOne
  <2> QED BY <2>1, <2>3
\* Left behind by the message.
<1>5. /\ \A n : Above(w, q, n) => Above(w, Tail(q), n) /\ Above(w, <<m>>, n)
      /\ \A n : Upto(w, q, n) => Upto(w, Tail(q), n) /\ Upto(w, <<m>>, n)
      /\ Rising(w, q) => Rising(w, Tail(q)) /\ Before(w, <<m>>, Tail(q))
  BY <1>1, OrderOfTail DEF q
<1>6. ASSUME \A o \in R : To(o) # i PROVE ~Ordered(w, m)
  <2>1. Upto(w, q, -1)
    BY <1>6 DEF EdgesInOrder, q
  <2>2. Upto(w, <<m>>, -1) /\ -1 \in Int
    BY <1>5, <2>1
  <2> QED BY <1>2, <1>4, <2>2
<1>7. ASSUME NEW o \in R
      PROVE  /\ EdgeOrder(w, o, mark, done) /\ o \in Outlets(graph) /\ To(o) \in Inputs(graph)
             /\ mark[o] \in Int /\ done[To(o)[1]] \in Int
  BY <1>0, TreeShape DEF EdgesInOrder
<1>8. ASSUME NEW o \in R, To(o) = i
      PROVE  /\ Rising(w, Tail(q)) /\ Upto(w, Tail(q), mark[o]) /\ Above(w, Tail(q), done[i[1]])
             /\ done[i[1]] <= mark[o]
             /\ Ordered(w, m) => done[i[1]] < m.nth /\ m.nth <= mark[o] /\ Above(w, Tail(q), m.nth)
  <2>1. Rising(w, q) /\ Upto(w, q, mark[o]) /\ Above(w, q, done[i[1]]) /\ done[i[1]] <= mark[o]
    BY <1>7, <1>8 DEF EdgeOrder, q
  <2>2. mark[o] \in Int /\ done[i[1]] \in Int
    BY <1>0, <1>7
  <2>3. Above(w, <<m>>, done[i[1]]) /\ Upto(w, <<m>>, mark[o]) /\ Before(w, <<m>>, Tail(q))
    BY <1>5, <2>1
  <2> QED BY <1>4, <1>5, <2>1, <2>2, <2>3
<1>9. Ordered(w, m) => done[i[1]] < m.nth
  BY <1>6, <1>8
<1>10. \A j \in Inputs(graph) : (\A o \in R : To(o) # j) => Upto(w, buf'[j], -1)
  <2> SUFFICES ASSUME NEW j \in Inputs(graph), \A o \in R : To(o) # j PROVE Upto(w, buf'[j], -1)
    OBVIOUS
  <2>1. Upto(w, buf[j], -1)
    BY DEF EdgesInOrder
  <2> QED BY <1>3, <1>5, <2>1 DEF q
<1>11. EdgesInOrder(w, R, mark, done)'
  <2>1. ASSUME NEW o \in R PROVE EdgeOrder(w, o, mark, done)'
    <3>1. CASE To(o) = i
      BY <1>0, <1>3, <1>8, <3>1 DEF EdgeOrder
    <3>2. CASE To(o) # i
      <4>1. buf'[To(o)] = buf[To(o)]
        BY <1>3, <1>7, <3>2
      <4> QED BY <1>0, <1>7, <4>1 DEF EdgeOrder
    <3> QED BY <3>1, <3>2
  <2> QED BY <1>0, <1>10, <2>1 DEF EdgesInOrder
<1>12. ASSUME Ordered(w, m) PROVE EdgesInOrder(w, R, mark, dn)'
  <2>0. PICK o \in R : To(o) = i
    BY <1>6, <1>12
  <2>1. /\ dn \in [Parts(graph) -> Int] /\ dn[i[1]] = m.nth
        /\ \A x \in Parts(graph) : x # i[1] => dn[x] = done[x]
    BY <1>0, <1>2, <1>12
  <2>2. ASSUME NEW v \in R PROVE EdgeOrder(w, v, mark, dn)'
    <3>1. CASE v = o
      <4>1. To(v)' = i /\ buf'[i] = Tail(q) /\ dn[i[1]] = m.nth
        BY <1>0, <1>3, <2>0, <2>1, <3>1
      <4>2. Rising(w, Tail(q)) /\ Upto(w, Tail(q), mark[v]) /\ Above(w, Tail(q), m.nth) /\ m.nth <= mark[v]
        BY <1>8, <1>12, <2>0, <3>1
      <4> HIDE DEF EdgesInOrder
      <4> QED BY <4>1, <4>2 DEF EdgeOrder
    <3>2. CASE v # o
      <4>1. To(v)[1] # i[1] /\ To(v)[1] \in Parts(graph)
        BY <2>0, <3>2, TreeShape
      <4>2. buf'[To(v)] = buf[To(v)] /\ dn[To(v)[1]] = done[To(v)[1]]
        BY <1>3, <1>7, <2>1, <4>1
      <4> QED BY <1>0, <1>7, <4>2 DEF EdgeOrder
    <3> QED BY <3>1, <3>2
  <2>3. \A x \in Nodes(graph) : (\A v \in R : To(v)[1] # x) => dn[x] = -1
    BY <1>0, <2>0, <2>1, KindsDiffer
  <2> QED BY <1>0, <1>10, <2>1, <2>2, <2>3 DEF EdgesInOrder
<1> QED
  BY <1>1, <1>9, <1>11, <1>12

\* A step that is not a push or a take of y's.
Outside ==
  \/ \E t \in Threads(graph) \cap alive :
       \/ EachCalls(t) \/ EachEnds(t) \/ ThreadEnds(t) \/ IoWorks(t) \/ IoReads(t)
       \/ IoPushes(t) \/ IoDrops(t)
  \/ \E x \in Nodes(graph) \cap alive : Fails(x)
  \/ \E w \in Writers(graph) \cap alive : WakeTarget(w) \/ WriterLeaves(w) \/ Writes(w)
  \/ \E r \in Tees(graph) \cap alive : TeeLeaves(r)
Feeds(x) == Resumes(x) \/ Delivers(x) \/ RotateOn(x) \/ Unblock(x)
Rests(y) ==
  \/ Outside
  \/ \E z \in Nodes(graph) \cap alive : NodeStep(z) /\ (z = y => ~Feeds(y) /\ ~Takes(y))

\* It leaves what y has on its way, and what its routine holds and owes.
Leaves(y, r) ==
  \/ Going(y, r)' = <<>> /\ (Going(y, r) = <<>> \/ \A j \in DOMAIN graph.outs[y][r] : ~Still(y, r, j))
  \/ Going(y, r)' = Going(y, r) /\ \A j \in DOMAIN graph.outs[y][r] : Still(y, r, j)' <=> Still(y, r, j)

LEMMA GoingRests ==
  ASSUME GraphOK, Types, StackInv, Next, NEW y \in Nodes(graph) \cap alive', Rests(y)
  PROVE  /\ kept'[y] = kept[y] /\ made'[y] = made[y] /\ pending'[y] = pending[y]
         /\ \A r \in Sides(y) : Leaves(y, r)
<1> DEFINE Same == kept'[y] = kept[y] /\ made'[y] = made[y] /\ pending'[y] = pending[y]
<1>0. y \in alive /\ y \in Parts(graph) /\ pc \in [Parts(graph) -> Frames] /\ pc[y] \in Frames /\ FrameOK(y, pc[y])
  BY Moves, KindsDiffer DEF Types, FrameTypes
<1>1. ASSUME held'[y] = held[y], \/ pc'[y] = pc[y]
                                \/ {pc[y].at, pc'[y].at} \cap {"push", "block", "wake"} = {}
      PROVE  \A r \in Sides(y) : Leaves(y, r)
  <2> SUFFICES ASSUME NEW r \in Sides(y) PROVE Leaves(y, r)
    OBVIOUS
  <2>1. CASE held[y][r] # <<>> \/ pc'[y] = pc[y]
    BY <1>1, <2>1 DEF Going, Still, Leaves
  <2>2. CASE held[y][r] = <<>> /\ {pc[y].at, pc'[y].at} \cap {"push", "block", "wake"} = {}
    BY <1>1, <2>2 DEF Going, Leaves
  <2> QED BY <1>1, <2>1, <2>2
<1>2. ASSUME held'[y] = held[y],
             \/ pc'[y] = pc[y]
             \/ pc[y].at = "idle" /\ pc'[y] = Entered
             \/ pc[y].at = "call" /\ pc'[y].at = "each"
      PROVE  \A r \in Sides(y) : Leaves(y, r)
  BY <1>1, <1>2, IdleFrames
<1>3. CASE Outside
  <2>1. Same
    BY <1>3, RoutineAlone DEF Outside
  <2>2. /\ held'[y] = held[y]
        /\ pc'[y] = pc[y] \/ (pc[y].at = "idle" /\ pc'[y] = Entered)
    BY <1>3, OutsideTouches DEF Outside
  <2> QED BY <1>2, <2>1, <2>2
<1>4. ASSUME NEW z \in Nodes(graph) \cap alive, NodeStep(z), z # y
      PROVE  Same /\ \A r \in Sides(y) : Leaves(y, r)
  <2>1. Same
    BY <1>4, RoutineAlone
  <2>2. /\ held'[y] = held[y]
        /\ \/ pc'[y] = pc[y]
           \/ pc[y].at = "idle" /\ pc'[y] = Entered
           \/ pc[y].at = "call" /\ pc'[y].at = "each"
    BY <1>4, NodeTouches
  <2> QED BY <1>2, <2>1, <2>2
<1>5. CASE NodeStep(y) /\ ~Feeds(y) /\ ~Takes(y)
  <2>1. Same
    BY <1>5, RoutineTouches DEF Feeds
  <2>2. CASE WakeTarget(y)
    BY <1>0, <2>1, <2>2, WakeGoing DEF Leaves
  <2>3. CASE SideIdle(y)
    <3> DEFINE s == pc[y].side
               f == [pc[y] EXCEPT !.side = s + 1]
               g == Frame("input", 1, 1, FALSE, <<>>)
    <3>1. held' = held /\ pc[y].at = "round" /\ s \in Nat \ {0}
      BY <1>0, <2>3 DEF SideIdle, Running, Frames
    <3>2. f \in Frames /\ f.at = "round"
      BY <1>0, <3>1 DEF Frames
    <3>6. g \in Frames /\ g.at = "input"
      <4>1. 1 \in 1 .. NumInputs(y) /\ FALSE \in BOOLEAN
        BY OutletShape
      <4>2. Frame("input", 1, 1, FALSE, <<>>) \in Frames
        BY <4>1, InputFrames
      <4> QED BY <4>2 DEF Frame
    <3>3. pc' = Goto(y, f) \/ pc' = Goto(y, g) \/ pc' = Return(y)
      BY <2>3 DEF SideIdle
    <3> HIDE DEF f, g
    <3>4. pc'[y].at \in {"round", "input", "idle"}
      <4>1. Return(y)[y].at = "idle"
        BY <1>0, ReturnFrames, IdleFrames
      <4>2. Goto(y, f)[y] = f /\ Goto(y, g)[y] = g
        BY <1>0, <3>2, <3>6, GotoFrames
      <4> QED BY <3>2, <3>3, <3>6, <4>1, <4>2
    <3>5. {pc[y].at, pc'[y].at} \cap {"push", "block", "wake"} = {}
      BY <3>1, <3>4
    <3> QED BY <1>1, <2>1, <3>1, <3>5
  <2>4. CASE PushClosed(y)
    <3>2. Ends(y)
      BY <2>4 DEF PushClosed
    <3>3. y \in alive /\ pc[y].at # "idle"
      BY <1>0, <2>4, IdleFrames DEF PushClosed, Tried
    <3>4. alive' = alive \ EndsGone(y) /\ y \in EndsGone(y)
      BY <3>2, <3>3, EndsShape
    <3> QED BY <3>4
  <2>5. CASE ~WakeTarget(y) /\ ~SideIdle(y) /\ ~PushClosed(y)
    <3>1. pc[y].at \in {"input", "wait", "park", "each"}
      BY <1>5, <2>5 DEF NodeStep, Feeds, Takes, InputsClosed, AllExhausted, FindsEmpty, WaitFront, LooksAt,
         Parks, EachCalls, EachEnds, Running
    <3>2. \A s, k, m : ~Pushing(y, s, k, m)
      BY <3>1 DEF Pushing
    <3>3. /\ held'[y] = held[y]
          /\ \/ pc'[y] = Idle \/ pc'[y] = Entered \/ pc'[y].at \in {"input", "round", "wait", "park", "each"}
             \/ EachCalls(y) \/ EachEnds(y)
      BY <1>0, <1>5, <2>5, <3>2, QuietMoves
    <3>4. EachCalls(y) \/ EachEnds(y) => pc'[y].at \in {"each", "call", "input"}
      BY <1>0, EachMoves
    <3>5. {pc[y].at, pc'[y].at} \cap {"push", "block", "wake"} = {}
      BY <3>1, <3>3, <3>4, IdleFrames
    <3> QED BY <1>1, <2>1, <3>3, <3>5
  <2> QED BY <2>2, <2>3, <2>4, <2>5
<1> QED
  BY <1>3, <1>4, <1>5 DEF Rests

LEMMA NodeRests ==
  ASSUME GraphOK, Types, StackInv, Next, NEW y \in Nodes(graph) \cap alive', Rests(y),
         NEW w, NEW mark, NEW done, NodeOrder(w, y, mark, done), NEW mk, NEW dn, dn[y] = done[y],
         \A s \in Sides(y) : \A k \in DOMAIN graph.outs[y][s] : mk[<<y, s, k>>] = mark[<<y, s, k>>]
  PROVE  NodeOrder(w, y, mk, dn)'
<1>1. graph' = graph
  BY SameGraph
<1> QED
  <2>1. \A r \in Sides(y) :
          \/ Going(y, r)' = <<>>
          \/ Going(y, r)' = Going(y, r) /\ \A j \in DOMAIN graph.outs[y][r] : Still(y, r, j)' => Still(y, r, j)
    BY GoingRests DEF Leaves
  <2> QED BY <1>1, <2>1, GoingRests, NodeKeeps

\* A push by a node, into an outlet of R if the message is one of w's in order.
LEMMA OrderPushed ==
  ASSUME GraphOK, Types, StackInv, SidesInv, Next, NEW w \in Writers(graph), NEW R, Tree(w, R),
         NEW mark, NEW done, OrderInv(w, R, mark, done), NEW x \in Nodes(graph) \cap alive, NodeStep(x), Feeds(x)
  PROVE  \E mk : OrderInv(w, R, mk, done)'
<1>0. /\ mark \in [Outlets(graph) -> Int] /\ done \in [Parts(graph) -> Int] /\ EdgesInOrder(w, R, mark, done)
      /\ graph' = graph /\ x \in alive /\ SidesAt(x) /\ NodeOrder(w, x, mark, done) /\ x \in Parts(graph) /\ x # w
  BY SameGraph, KindsDiffer DEF OrderInv, EdgesInOrder, SidesInv
<1>1. PICK s, k, m : Pushing(x, s, k, m) /\ Source(x, s, k, m)
  BY <1>0, Sources DEF Feeds
<1> DEFINE o == <<x, s, k>>
<1>2. PICK mk : mk = IF Ordered(w, m) /\ Outcome(o, m) \in {"pushed", "dropped"}
                     THEN [mark EXCEPT ![o] = m.nth] ELSE mark
  OBVIOUS
<1>3. NodeOrder(w, x, mk, done)' /\ (Ordered(w, m) => mark[o] < m.nth /\ m.nth <= done[x])
  BY <1>0, <1>1, <1>2, NodePushed
<1>4. m \in Message /\ m.nth \in Nat /\ o \in Outlets(graph) /\ written' = written
  <2>1. m \in Message /\ s \in Sides(x) /\ k \in DOMAIN graph.outs[x][s] /\ written' = written
    BY <1>1 DEF Pushing
  <2> QED BY <1>0, <2>1, OutletShape DEF Message
<1>5. Ordered(w, m) => o \in R
  <2> SUFFICES ASSUME Ordered(w, m) PROVE o \in R
    OBVIOUS
  <2>1. done[x] # -1
    <3>1. m.nth <= done[x] /\ done[x] \in Int
      BY <1>0, <1>3
    <3> QED BY <1>4, <3>1
  <2>2. \E v \in R : To(v)[1] = x
    BY <1>0, <2>1 DEF EdgesInOrder
  <2> QED BY <1>4, <2>2, TreeShape
<1>6. EdgesInOrder(w, R, mk, done)'
  <2>1. CASE Push(o, m)
    BY <1>0, <1>2, <1>3, <1>4, <1>5, <2>1, PushOrder
  <2>2. CASE ~Push(o, m)
    <3>1. Outcome(o, m) = "stuck" /\ buf' = buf
      BY <1>1, <2>2 DEF Pushing, Rotate, edgeVars
    <3>2. mk = mark
      BY <1>2, <3>1
    <3> QED BY <1>0, <3>1, <3>2, OrderStays
  <2> QED BY <2>1, <2>2
<1>7. \A u \in Outlets(graph) : u # o => mk[u] = mark[u]
  BY <1>0, <1>2
<1>8. mk[<<w, 1, 1>>] <= Len(written'[w])
  <2>1. <<w, 1, 1>> \in Outlets(graph) /\ <<w, 1, 1>> # o
    BY <1>0, OutsideOutlet
  <2> QED BY <1>4, <1>7, <2>1 DEF OrderInv
<1>9. ASSUME NEW y \in Nodes(graph) \cap alive' PROVE NodeOrder(w, y, mk, done)'
  <2>1. CASE y = x
    BY <1>3, <2>1
  <2>2. CASE y # x
    <3>1. Rests(y) /\ y \in alive /\ y \in Parts(graph)
      BY <2>2, Moves, KindsDiffer DEF Rests
    <3>2. \A r \in Sides(y) : \A j \in DOMAIN graph.outs[y][r] : <<y, r, j>> \in Outlets(graph) /\ <<y, r, j>> # o
      BY <2>2, <3>1, OutletShape
    <3>3. \A r \in Sides(y) : \A j \in DOMAIN graph.outs[y][r] : mk[<<y, r, j>>] = mark[<<y, r, j>>]
      BY <1>7, <3>2
    <3>4. NodeOrder(w, y, mark, done)
      BY <3>1 DEF OrderInv
    <3> QED BY <3>1, <3>3, <3>4, NodeRests
  <2> QED BY <2>1, <2>2
<1> QED
  BY <1>0, <1>6, <1>8, <1>9 DEF OrderInv

LEMMA OrderTook ==
  ASSUME GraphOK, Types, StackInv, ClearInv, Next, NEW w \in Writers(graph), NEW R, Tree(w, R),
         NEW mark, NEW done, OrderInv(w, R, mark, done), NEW x \in Nodes(graph) \cap alive, Takes(x)
  PROVE  \E dn : OrderInv(w, R, mark, dn)'
<1>0. /\ mark \in [Outlets(graph) -> Int] /\ done \in [Parts(graph) -> Int] /\ EdgesInOrder(w, R, mark, done)
      /\ graph' = graph /\ ClearAt(x) /\ NodeOrder(w, x, mark, done) /\ x \in Parts(graph)
      /\ NodeStep(x) /\ written' = written /\ FrameOK(x, pc[x])
  BY SameGraph, KindsDiffer DEF OrderInv, EdgesInOrder, ClearInv, NodeStep, Takes, Types, FrameTypes
<1>1. PICK i : i = <<x, pc[x].i>>
  OBVIOUS
<1>2. i \in Inputs(graph) /\ buf[i] # <<>> /\ Pop(i) /\ i[1] = x
  <2>1. pc[x].i \in 1 .. NumInputs(x) /\ DOMAIN graph.bound[x] = 1 .. NumInputs(x)
    BY <1>0, OutletShape DEF Takes, Running, FrameOK
  <2> QED BY <1>0, <1>1, <2>1, OutletShape DEF Takes
<1>3. PICK m : m = Head(buf[i])
  OBVIOUS
<1>4. PICK dn : dn = IF Ordered(w, m) THEN [done EXCEPT ![x] = m.nth] ELSE done
  OBVIOUS
<1>5. m \in Message /\ (Ordered(w, m) => done[x] < m.nth) /\ EdgesInOrder(w, R, mark, dn)'
  BY <1>0, <1>2, <1>3, <1>4, PopOrder
<1>6. NodeOrder(w, x, mark, dn)'
  BY <1>0, <1>1, <1>3, <1>4, <1>5, NodeTook
<1>7. ASSUME NEW y \in Nodes(graph) \cap alive' PROVE NodeOrder(w, y, mark, dn)'
  <2>1. CASE y = x
    BY <1>6, <2>1
  <2>2. CASE y # x
    <3>1. Rests(y) /\ y \in alive /\ y \in Parts(graph)
      BY <1>0, <2>2, Moves, KindsDiffer DEF Rests
    <3>2. dn[y] = done[y] /\ NodeOrder(w, y, mark, done)
      BY <1>0, <1>4, <2>2, <3>1 DEF OrderInv
    <3> QED BY <3>1, <3>2, NodeRests
  <2> QED BY <2>1, <2>2
<1>8. mark[<<w, 1, 1>>] <= Len(written'[w])
  BY <1>0 DEF OrderInv
<1> QED
  BY <1>0, <1>5, <1>7, <1>8 DEF OrderInv

\* Every other step moves what is on an edge at most.
LEMMA OrderElse ==
  ASSUME GraphOK, Types, StackInv, Next, NEW w \in Writers(graph), NEW R, Tree(w, R),
         NEW mark, NEW done, OrderInv(w, R, mark, done),
         Outside \/ \E x \in Nodes(graph) \cap alive : NodeStep(x) /\ ~Feeds(x) /\ ~Takes(x)
  PROVE  \E mk : OrderInv(w, R, mk, done)'
<1>0. /\ mark \in [Outlets(graph) -> Int] /\ EdgesInOrder(w, R, mark, done) /\ graph' = graph
      /\ mark[<<w, 1, 1>>] <= Len(written[w]) /\ w \in Parts(graph) /\ <<w, 1, 1>> \in Outlets(graph)
      /\ written \in [Parts(graph) -> Seq(Message)]
  BY SameGraph, OutsideOutlet DEF OrderInv, EdgesInOrder, Types, WriteTypes
<1>1. ASSUME NEW mk, EdgesInOrder(w, R, mk, done)', mk[<<w, 1, 1>>] <= Len(written'[w]),
             \A u \in Outlets(graph) : u[1] # w => mk[u] = mark[u]
      PROVE  \E l : OrderInv(w, R, l, done)'
  <2>1. ASSUME NEW y \in Nodes(graph) \cap alive' PROVE NodeOrder(w, y, mk, done)'
    <3>1. Rests(y) /\ y \in alive /\ y \in Parts(graph) /\ y # w
      BY Moves, KindsDiffer DEF Rests
    <3>2. \A r \in Sides(y) : \A j \in DOMAIN graph.outs[y][r] : mk[<<y, r, j>>] = mark[<<y, r, j>>]
      BY <1>1, <3>1, OutletShape
    <3>3. NodeOrder(w, y, mark, done)
      BY <3>1 DEF OrderInv
    <3> QED BY <3>1, <3>2, <3>3, NodeRests
  <2> QED BY <1>0, <1>1, <2>1 DEF OrderInv
<1>2. ASSUME written' = written, \A i \in Inputs(graph) : buf'[i] = buf[i] \/ buf'[i] = <<>>
      PROVE  \E l : OrderInv(w, R, l, done)'
  <2>1. EdgesInOrder(w, R, mark, done)'
    BY <1>0, <1>2, OrderStays
  <2> QED BY <1>0, <1>1, <1>2, <2>1
<1>3. ASSUME UNCHANGED <<edgeVars, written>> PROVE \E l : OrderInv(w, R, l, done)'
  BY <1>2, <1>3 DEF edgeVars
<1>4. ASSUME NEW parts, Drop(parts) PROVE \E l : OrderInv(w, R, l, done)'
  <2>1. written' = written /\ \A i \in DOMAIN buf : buf'[i] = buf[i] \/ buf'[i] = <<>>
    BY <1>4 DEF Drop
  <2>2. DOMAIN buf = Inputs(graph)
    BY DEF Types, EdgeTypes
  <2> QED BY <1>2, <2>1, <2>2
<1>5. ASSUME NEW x \in Nodes(graph) \cap alive, NodeStep(x), ~Feeds(x), ~Takes(x)
      PROVE  \E l : OrderInv(w, R, l, done)'
  <2>1. CASE Ends(x)
    BY <1>4, <2>1 DEF Ends
  <2>2. CASE ~Ends(x)
    <3>1. UNCHANGED <<edgeVars, written>>
      BY <1>5, <2>2 DEF NodeStep, Feeds, PushClosed, SideIdle, WakeTarget, FindsEmpty, InputsClosed, WaitFront,
         LooksAt, AllExhausted, Parks, EachCalls, EachEnds
    <3> QED BY <1>3, <3>1
  <2> QED BY <2>1, <2>2
<1>6. ASSUME NEW t, EachCalls(t) \/ EachEnds(t) \/ IoWorks(t) \/ WakeTarget(t)
      PROVE  \E l : OrderInv(w, R, l, done)'
  BY <1>3, <1>6 DEF EachCalls, EachEnds, IoWorks, WakeTarget
<1>7. ASSUME NEW t, ThreadEnds(t) \/ IoDrops(t) \/ Fails(t) \/ WriterLeaves(t) \/ TeeLeaves(t)
      PROVE  \E l : OrderInv(w, R, l, done)'
  BY <1>4, <1>7 DEF ThreadEnds, IoDrops, Fails, WriterLeaves, TeeLeaves
<1>8. ASSUME NEW t \in Threads(graph), IoReads(t) PROVE \E l : OrderInv(w, R, l, done)'
  <2>1. PICK i : i = <<t, pc[t].i>>
    OBVIOUS
  <2>2. t \in Parts(graph) /\ pc[t].i \in DOMAIN graph.bound[t]
    BY <1>8, KindsDiffer DEF Types, FrameTypes, FrameOK, IoReads, Running
  <2>3. i \in Inputs(graph) /\ Pop(i) /\ buf[i] # <<>> /\ written' = written
    BY <1>8, <2>1, <2>2, OutletShape DEF IoReads
  <2>5. PICK m : m = Head(buf[i])
    OBVIOUS
  <2>6. EdgesInOrder(w, R, mark, done)'
    BY <1>0, <2>3, <2>5, PopOrder
  <2> QED BY <1>0, <1>1, <2>3, <2>6
\* What others write is none of w's.
<1>9. ASSUME NEW v \in Writers(graph) \cup Lent(graph), NEW k \in graph.kinds, NEW m,
             m = [kind |-> k, from |-> v, nth |-> Len(written[v]) + 1, turn |-> 0],
             Push(<<v, 1, 1>>, m), Outcome(<<v, 1, 1>>, m) = "pushed",
             written' = [written EXCEPT ![v] = Append(@, m)]
      PROVE  \E l : OrderInv(w, R, l, done)'
  <2>1. v \in Parts(graph) /\ <<v, 1, 1>> \in Outlets(graph) /\ m \in Message
    BY <1>9, OutsideOutlet, OutsideMessages DEF Types
  <2>2. PICK mk : mk = IF Ordered(w, m) /\ Outcome(<<v, 1, 1>>, m) \in {"pushed", "dropped"}
                       THEN [mark EXCEPT ![<<v, 1, 1>>] = m.nth] ELSE mark
    OBVIOUS
  <2>3. /\ Len(written[v]) \in Nat /\ Len(written[w]) \in Nat
        /\ Len(written'[w]) = IF v = w THEN Len(written[w]) + 1 ELSE Len(written[w])
    <3>1. written[v] \in Seq(Message) /\ written[w] \in Seq(Message)
      BY <1>0, <2>1
    <3>2. written'[w] = IF v = w THEN Append(written[w], m) ELSE written[w]
      BY <1>0, <1>9, <2>1
    <3> QED BY <3>1, <3>2
  <2>4. m.nth = Len(written[v]) + 1 /\ m.from = v
    BY <1>9
  <2>5. mark[<<w, 1, 1>>] \in Int
    BY <1>0
  <2>6. Ordered(w, m) => v = w /\ <<v, 1, 1>> \in R /\ mark[<<v, 1, 1>>] < m.nth
    <3>1. <<w, 1, 1>> \in R
      BY <1>0, TreeShape
    <3> QED BY <1>0, <2>3, <2>4, <2>5, <3>1 DEF Ordered
  <2>7. EdgesInOrder(w, R, mk, done)'
    <3>1. PICK u : u = <<v, 1, 1>>
      OBVIOUS
    <3>2. /\ u \in Outlets(graph) /\ Push(u, m) /\ (Ordered(w, m) => u \in R /\ mark[u] < m.nth)
          /\ mk = IF Ordered(w, m) /\ Outcome(u, m) \in {"pushed", "dropped"}
                  THEN [mark EXCEPT ![u] = m.nth] ELSE mark
      BY <1>9, <2>1, <2>2, <2>6, <3>1
    <3>3. graph' = graph /\ EdgesInOrder(w, R, mark, done) /\ m \in Message
      BY <1>0, <2>1
    <3> QED BY <3>2, <3>3, PushOrder
  <2>8. mk[<<w, 1, 1>>] = m.nth \/ mk[<<w, 1, 1>>] = mark[<<w, 1, 1>>]
    BY <1>0, <2>1, <2>2, <2>6
  <2>9. Ordered(w, m) => v = w
    BY <2>6
  <2>10. mk[<<w, 1, 1>>] <= Len(written'[w])
    <3>1. CASE Ordered(w, m)
      BY <1>0, <2>3, <2>4, <2>5, <2>8, <2>9, <3>1
    <3>2. CASE ~Ordered(w, m)
      BY <1>0, <2>2, <2>3, <2>5, <3>2
    <3> QED BY <3>1, <3>2
  <2>11. \A u \in Outlets(graph) : u[1] # w => mk[u] = mark[u]
    BY <1>0, <2>2, <2>9
  <2> QED BY <1>1, <2>7, <2>10, <2>11
<1>10. ASSUME NEW t \in Threads(graph), IoPushes(t) PROVE \E l : OrderInv(w, R, l, done)'
  <2>1. PICK v \in Lent(graph), k \in graph.kinds :
          \E m : /\ m = [kind |-> k, from |-> v, nth |-> Len(written[v]) + 1, turn |-> 0]
                 /\ Push(<<v, 1, 1>>, m) /\ Outcome(<<v, 1, 1>>, m) = "pushed"
                 /\ written' = [written EXCEPT ![v] = Append(@, m)]
    BY <1>10 DEF IoPushes
  <2> QED BY <1>9, <2>1
<1>11. ASSUME NEW v \in Writers(graph), Writes(v) PROVE \E l : OrderInv(w, R, l, done)'
  <2>1. PICK k \in graph.kinds :
          \E m : /\ m = [kind |-> k, from |-> v, nth |-> Len(written[v]) + 1, turn |-> 0]
                 /\ Push(<<v, 1, 1>>, m) /\ Outcome(<<v, 1, 1>>, m) = "pushed"
                 /\ written' = [written EXCEPT ![v] = Append(@, m)]
    BY <1>11 DEF Writes
  <2> QED BY <1>9, <2>1
<1> QED
  BY <1>5, <1>6, <1>7, <1>8, <1>10, <1>11 DEF Outside

LEMMA OrderNext ==
  ASSUME GraphOK, Types, StackInv, SidesInv, ClearInv, Next, NEW w \in Writers(graph), NEW R, Tree(w, R),
         NEW mark, NEW done, OrderInv(w, R, mark, done)
  PROVE  \E mk, dn : OrderInv(w, R, mk, dn)'
<1>0. alive \subseteq Parts(graph)
  BY DEF Types, GraphTypes
<1>1. CASE \E x \in Nodes(graph) \cap alive : NodeStep(x) /\ Feeds(x)
  BY <1>1, OrderPushed
<1>2. CASE \E x \in Nodes(graph) \cap alive : Takes(x)
  BY <1>2, OrderTook
<1>3. CASE Outside \/ \E x \in Nodes(graph) \cap alive : NodeStep(x) /\ ~Feeds(x) /\ ~Takes(x)
  BY <1>3, OrderElse
<1> QED
  BY <1>0, <1>1, <1>2, <1>3, Steps DEF Outside

OrderedAll == \A w \in Writers(graph) : \A R : Tree(w, R) => \E mark, done : OrderInv(w, R, mark, done)

LEMMA OrderInit ==
  ASSUME Init, GraphOK, NEW w \in Writers(graph), NEW R, Tree(w, R)
  PROVE  \E mark, done : OrderInv(w, R, mark, done)
<1>0. /\ w \in Parts(graph) /\ w \notin Nodes(graph) /\ Nodes(graph) \subseteq Parts(graph)
      /\ <<w, 1, 1>> \in Outlets(graph) /\ <<w, 1, 1>> \in R
  BY KindsDiffer, OutsideOutlet, TreeShape
<1>1. PICK mark : mark = [o \in Outlets(graph) |-> IF o \in R THEN 0 ELSE -1]
  OBVIOUS
<1>2. PICK done : done = [x \in Parts(graph) |-> IF \E o \in R : To(o)[1] = x THEN 0 ELSE -1]
  OBVIOUS
<1>3. mark \in [Outlets(graph) -> Int] /\ done \in [Parts(graph) -> Int]
  BY <1>1, <1>2
<1>4. \A i \in Inputs(graph) : buf[i] = <<>>
  BY DEF Init
<1>5. ASSUME NEW o \in R PROVE EdgeOrder(w, o, mark, done)
  <2>1. To(o) \in Inputs(graph) /\ To(o)[1] \in Parts(graph) /\ o \in Outlets(graph)
    BY TreeShape
  <2>2. mark[o] = 0 /\ done[To(o)[1]] = 0
    BY <1>1, <1>2, <2>1
  <2>3. buf[To(o)] = <<>> /\ 0 <= 0
    BY <1>4, <2>1
  <2> QED BY <2>2, <2>3, OrderOfNone DEF EdgeOrder
<1>6. EdgesInOrder(w, R, mark, done)
  <2>1. \A i \in Inputs(graph) : Upto(w, buf[i], -1)
    BY <1>4, OrderOfNone
  <2>2. \A x \in Nodes(graph) : (\A o \in R : To(o)[1] # x) => done[x] = -1
    BY <1>0, <1>2
  <2> QED BY <1>3, <1>5, <2>1, <2>2 DEF EdgesInOrder
<1>7. ASSUME NEW x \in Nodes(graph) PROVE NodeOrder(w, x, mark, done)
  <2>1. kept[x] = <<>> /\ pc[x] = Idle
    BY <1>0, KindsDiffer DEF Init
  <2>2. ASSUME NEW s \in Sides(x) PROVE LineUp(w, x, s, mark, done)
    <3>1. made[x][s] = <<>> /\ pending[x][s] = <<>> /\ held[x][s] = <<>>
      BY DEF Init
    <3>2. Going(x, s) = <<>>
      BY <2>1, <3>1, IdleFrames DEF Going
    <3>3. ASSUME NEW k \in DOMAIN graph.outs[x][s] PROVE mark[<<x, s, k>>] <= done[x]
      <4>1. <<x, s, k>> \in Outlets(graph) /\ x \in Parts(graph) /\ x # w /\ <<x, s, k>>[1] = x
        BY <1>0, OutletShape
      <4>2. <<x, s, k>> \in R => \E u \in R : To(u)[1] = x
        BY <4>1 DEF Tree, Ways
      <4>3. /\ mark[<<x, s, k>>] = IF <<x, s, k>> \in R THEN 0 ELSE -1
            /\ done[x] = IF \E o \in R : To(o)[1] = x THEN 0 ELSE -1
        BY <1>1, <1>2, <4>1
      <4> QED BY <4>2, <4>3
    <3>4. Upto(w, <<>>, done[x]) /\ Rising(w, <<>>) /\ Before(w, <<>>, <<>>) /\ \A n : Above(w, <<>>, n)
      BY OrderOfNone
    <3> QED BY <2>1, <3>1, <3>2, <3>3, <3>4 DEF LineUp, InLine, Beyond
  <2>3. Rising(w, kept[x]) /\ Upto(w, kept[x], done[x])
    BY <2>1, OrderOfNone
  <2> QED BY <2>2, <2>3 DEF NodeOrder
<1>8. mark[<<w, 1, 1>>] <= Len(written[w])
  <2>1. mark[<<w, 1, 1>>] = 0 /\ written[w] = <<>>
    BY <1>0, <1>1 DEF Init
  <2> QED BY <2>1
<1> QED
  BY <1>6, <1>7, <1>8 DEF OrderInv

LEMMA OrderSuffices ==
  ASSUME GraphOK, Types, OrderedAll
  PROVE  InOrder
<1> SUFFICES ASSUME NEW w \in Writers(graph), OnePath(w), NEW i \in Inputs(graph) PROVE Rising(w, buf[i])
  BY DEF InOrder
<1>1. PICK R : Tree(w, R)
  BY DEF OnePath, Tree
<1>2. PICK mark, done : OrderInv(w, R, mark, done)
  BY <1>1 DEF OrderedAll
<1>3. CASE \E o \in R : To(o) = i
  BY <1>2, <1>3 DEF OrderInv, EdgesInOrder, EdgeOrder
<1>4. CASE \A o \in R : To(o) # i
  <2>1. Upto(w, buf[i], -1)
    BY <1>2, <1>4 DEF OrderInv, EdgesInOrder
  <2>2. \A k \in DOMAIN buf[i] : buf[i][k] \in Message
    BY DEF Types, EdgeTypes
  <2>3. \A k \in DOMAIN buf[i] : ~Ordered(w, buf[i][k])
    BY <2>1, <2>2 DEF Upto, Message
  <2> QED BY <2>3 DEF Rising
<1> QED
  BY <1>3, <1>4

\* Data and Flushes keep the order they were written in, on every edge and at
\* every reader, where one path leads to each part: through routines that keep
\* data back, signals that wait for the output before them, pushes suspended
\* and resumed at the edge that refused them (Fanout::resume, work_output).
THEOREM OrderIsKept == Spec => []InOrder
<1> DEFINE I == SidesInv /\ ClearInv /\ OrderedAll
<1>1. Init => I
  <2> SUFFICES ASSUME Init PROVE I
    OBVIOUS
  <2>1. GraphOK
    BY GraphIsOK DEF Init, GraphTypes
  <2>2. \A x \in Nodes(graph) : pc[x].at = "idle" /\ \A s \in Sides(x) : held[x][s] = <<>>
    BY IdleFrames, KindsDiffer DEF Init
  <2>3. SidesInv /\ ClearInv
    BY <2>2 DEF SidesInv, SidesAt, ClearInv, ClearAt
  <2> QED BY <2>1, <2>3, OrderInit DEF OrderedAll
<1>2. Types /\ StackInv /\ I /\ [Next]_vars => I'
  <2> SUFFICES ASSUME Types, StackInv, I, [Next]_vars PROVE I'
    OBVIOUS
  <2>1. CASE Next
    <3>1. GraphOK /\ graph' = graph
      BY <2>1, GraphIsOK, SameGraph DEF StackInv, GraphTypes
    <3>2. \A w, R : Tree(w, R)' <=> Tree(w, R)
      BY <3>1 DEF Tree, Ways, To
    <3>3. OrderedAll'
      <4> SUFFICES ASSUME NEW w \in Writers(graph), NEW R, Tree(w, R)
                   PROVE  \E mark, done : OrderInv(w, R, mark, done)'
        BY <3>1, <3>2 DEF OrderedAll
      <4>1. PICK mark, done : OrderInv(w, R, mark, done)
        BY DEF OrderedAll
      <4> QED BY <2>1, <3>1, <4>1, OrderNext
    <3> QED BY <2>1, <3>1, <3>3, SidesNext, ClearNext
  <2>2. CASE UNCHANGED vars
    <3>1. UNCHANGED <<graph, alive, buf, kept, made, pending, held, pc, written>>
      BY <2>2 DEF vars, edgeVars, routineVars
    <3>2. SidesInv' /\ ClearInv'
      BY <3>1 DEF SidesInv, SidesAt, Sides, ClearInv, ClearAt, NothingOn
    <3>3. \A w, R, mark, done : OrderInv(w, R, mark, done)' <=> OrderInv(w, R, mark, done)
      BY <3>1 DEF OrderInv, EdgesInOrder, EdgeOrder, NodeOrder, LineUp, Going, Still, Sides, To
    <3>4. \A w, R : Tree(w, R)' <=> Tree(w, R)
      BY <3>1 DEF Tree, Ways, To
    <3> QED BY <3>1, <3>2, <3>3, <3>4 DEF OrderedAll
  <2> QED BY <2>1, <2>2
<1>3. Types /\ StackInv /\ I => InOrder
  BY OrderSuffices, GraphIsOK DEF StackInv, GraphTypes
<1> QED
  BY <1>1, <1>2, <1>3, TypeSafe, PTL DEF Spec
=============================================================================
