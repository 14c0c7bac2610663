----------------------------- MODULE WorkGraph -------------------------------
(***************************************************************************)
(* Work graphs: line, biunion, bifurcation and pulled nodes (node/*/work,  *)
(* work/pulled), worked by their owners (work_each), by the loop of a      *)
(* thread (work/stream) or by a Reader (LineIo), pushing through fan-outs  *)
(* into plain, waking and FollowData edges.  A step takes at most one edge *)
(* lock.  An edge is its buffer, as Channel has it; its producers are the  *)
(* parts still there that push into it.  A thread is one call stack: pc    *)
(* holds the frame of every call in progress.                              *)
(***************************************************************************)
EXTENDS Wiring, FiniteSets, Functions

CONSTANTS Graphs,     \* the graphs to run, each with what its outside may do:
                      \*   kinds    the kinds of messages written
                      \*   most[w]  bound: messages writer w writes
                      \*   keeps    nodes whose routine may keep data back
                      \*   leaves   readers may leave, fails: routines may fail,
                      \*            flushes: the caller waits for its Flushes
          MaxKept,    \* bound: messages a routine keeps back
          MaxTurns    \* bound: times a routine sends a message round a loop

Kinds == {"data", "flush", "marker"}

ASSUME WorkGraphAssumption ==
  /\ MaxKept \in Nat /\ MaxTurns \in Nat
  /\ \A g \in Graphs : /\ Shaped(g) /\ BoundedAsTold(g)
                       /\ g.kinds \subseteq Kinds
                       /\ \A w \in DOMAIN g.most : g.most[w] \in Nat

ASSUME GraphsAreFinite == \A g \in Graphs : IsFiniteSet(Parts(g))

VARIABLES
  graph,    \* the graph that runs; it never changes
  alive,    \* parts not dropped yet
  buf,      \* per input, the edge's buffer
  met,      \* per outlet: it was refused, and nothing was popped since
  follow,   \* per outlet, FollowData's last_was_data
  kept,     \* per node, data its routine took and has not turned to output
  made,     \* per node and output side, the routine's output
  pending,  \* per node and output side, a signal held until made is empty
  held,     \* per node and output side, the message the fan-out holds
  workers,  \* per part and input, the upstreams it works
  pc,       \* per part, the frame of the call in progress
  token,    \* per biunion, its parker's token
  written,  \* history: what each writer pushed
  passed,   \* history: the last message each FollowData edge took, and the one before
  passedBy, \* history: per outlet, siblings' messages that landed since it was refused
  broke     \* history: an error or a dropped reader cut the graph short

edgeVars == <<buf, met, follow, passed, passedBy>>
routineVars == <<kept, made, pending>>
vars == <<graph, alive, edgeVars, routineVars, held, workers, pc, token, written, broke>>

Message == [kind : Kinds, from : Parts(graph),
            nth : Nat, turn : 0 .. MaxTurns]
AtMostOne(S) == {<<>>} \cup {<<m>> : m \in S}
Frame(at, side, i, busy, msg) == [at |-> at, side |-> side, i |-> i, busy |-> busy, msg |-> msg]
Idle == Frame("idle", 1, 1, FALSE, <<>>)
Entered == Frame("round", 1, 1, FALSE, <<>>)

Sides(x) == DOMAIN graph.outs[x]
LastSide(x) == Len(graph.outs[x])
To(o) == Edge(graph, o).to
Bound(i) == graph.bound[i[1]][i[2]]
Exhausted(i) == buf[i] = <<>> /\ graph.feeders[i] \cap alive = {}
HasRoom(i) == Bound(i) = 0 \/ Len(buf[i]) < Bound(i)
ReceiverGone(i) == i[1] \notin alive
Home(x) == CHOOSE t \in Threads(graph) : x \in graph.tree[t]
Waking(i) == graph.kind[i[1]] = "biunion"

Init ==
  /\ graph \in Graphs
  /\ alive = Parts(graph)
  /\ buf = [i \in Inputs(graph) |-> <<>>]
  /\ met = [o \in Outlets(graph) |-> FALSE]
  /\ follow = [o \in Outlets(graph) |-> FALSE]
  /\ kept = [x \in Nodes(graph) |-> <<>>]
  /\ made = [x \in Nodes(graph) |-> [s \in Sides(x) |-> <<>>]]
  /\ pending = made
  /\ held = made
  /\ workers = graph.owns
  /\ pc = [x \in Parts(graph) |->
             IF graph.kind[x] = "stream" THEN Frame("each", 1, 1, FALSE, <<>>) ELSE Idle]
  /\ token = [x \in Nodes(graph) |-> FALSE]
  /\ written = [x \in Parts(graph) |-> <<>>]
  /\ passed = [o \in Outlets(graph) |-> [before |-> FALSE, data |-> FALSE, through |-> FALSE]]
  /\ passedBy = [o \in Outlets(graph) |-> 0]
  /\ broke = FALSE

Running(x, at) == x \in alive /\ pc[x].at = at
Goto(x, frame) == [pc EXCEPT ![x] = frame]
\* The call returns Ok: the owner goes on to its next worker.
Return(x) ==
  LET o == graph.owner[x]
      next == pc[o].i + IF graph.kind[o] = "io" THEN 0 ELSE 1
  IN  [pc EXCEPT ![x] = Idle, ![o] = [pc[o] EXCEPT !.at = "each", !.i = next]]
-----------------------------------------------------------------------------
(* Dropping parts: their ends of the edges go, and waking edges tell their
   biunion. *)

Targets(x) == {To(o) : o \in {u \in Outlets(graph) : u[1] = x}}

\* Mutant: a sender dropped without a word to the parked biunion.
DropWakesNobody(parts) == {}
\* WakeOnDrop: the biunions that a drop of these parts wakes.
DropWakes(parts) == {i[1] : i \in {j \in UNION {Targets(x) : x \in parts} : Waking(j)}} \ parts

Drop(parts) ==
  LET nodes == parts \cap Nodes(graph)
      Cleared(f, value) == [x \in DOMAIN f |-> IF x \in nodes THEN value[x] ELSE f[x]]
      Empty == [x \in Nodes(graph) |-> [s \in Sides(x) |-> <<>>]]
  IN  /\ alive' = alive \ parts
      /\ buf' = [i \in DOMAIN buf |-> IF i[1] \in parts THEN <<>> ELSE buf[i]]
      /\ kept' = Cleared(kept, [x \in Nodes(graph) |-> <<>>])
      /\ made' = Cleared(made, Empty)
      /\ pending' = Cleared(pending, Empty)
      /\ held' = Cleared(held, Empty)
      /\ token' = [x \in DOMAIN token |-> IF x \in nodes THEN FALSE
                                          ELSE token[x] \/ x \in DropWakes(parts)]
      /\ UNCHANGED <<graph, met, follow, written, passed, passedBy>>

\* Vec::swap_remove.
SwapRemove(seq, i) == [k \in 1 .. Len(seq) - 1 |-> IF k = i THEN Last(seq) ELSE seq[k]]

\* work() returned Closed: the owner drops the node and all it owned.  A
\* Reader passes the error on, and its LineIo is dropped whole.
Ends(x) ==
  LET o == graph.owner[x]
      gone == IF graph.kind[o] = "io" THEN graph.tree[o] \cup Lent(graph)
              ELSE graph.tree[x]
      p == pc[o].side
  IN  /\ Drop(gone)
      /\ workers' = [workers EXCEPT ![o][p] = SwapRemove(@, pc[o].i)]
      /\ pc' = [y \in DOMAIN pc |-> IF y \in gone THEN Idle
                                    ELSE IF y = o THEN [pc[o] EXCEPT !.at = "each"] ELSE pc[y]]
-----------------------------------------------------------------------------
(* One try_push on one edge. *)

IsData(m) == m.kind = "data"
Follows(o) == Edge(graph, o).follows
\* FollowData::passes.
Passes(o, m) == Follows(o) => IsData(m) \/ follow[o]

Outcome(o, m) ==
  IF ~Passes(o, m) THEN "dropped"
  ELSE IF ReceiverGone(To(o)) THEN "closed"
  ELSE IF HasRoom(To(o)) THEN "pushed"
  ELSE IF met[o] THEN "stuck" ELSE "full"

\* Mutant: a refusal leaves the follow state advanced.
JudgedOnce(o, m) == IF Follows(o) THEN [follow EXCEPT ![o] = IsData(m)] ELSE follow
\* A refused message is judged again under the state it met.
Judged(o, m) ==
  IF Follows(o) /\ Outcome(o, m) \in {"pushed", "dropped"}
  THEN [follow EXCEPT ![o] = IsData(m)] ELSE follow

\* The outlets of siblings that a message landing from o overtakes.
Overtaken(o) ==
  {u \in Outlets(graph) :
     /\ To(u) = To(o) /\ u[1] # o[1]
     /\ {u[1], o[1]} \subseteq Owned(graph, To(o)[1])
     /\ held[u[1]][u[2]] # <<>> /\ held[u[1]][u[2]][1].at = u[3]}

Push(o, m) ==
  LET taken == Outcome(o, m) \in {"pushed", "dropped"}
      lands == Outcome(o, m) = "pushed"
  IN  /\ buf' = IF lands THEN [buf EXCEPT ![To(o)] = Append(@, m)] ELSE buf
      /\ met' = IF Outcome(o, m) = "full" THEN [met EXCEPT ![o] = TRUE] ELSE met
      /\ follow' = Judged(o, m)
      /\ passed' = IF taken /\ Follows(o)
                   THEN [passed EXCEPT ![o] = [before |-> @.data, data |-> IsData(m), through |-> lands]]
                   ELSE passed
      /\ passedBy' = [u \in DOMAIN passedBy |->
                        IF u = o /\ taken THEN 0
                        ELSE IF lands /\ u \in Overtaken(o) THEN passedBy[u] + 1
                        ELSE passedBy[u]]

\* Mutant: the refusals of the last epoch still count.
PopSameEpoch(i) ==
  /\ buf' = [buf EXCEPT ![i] = Tail(@)]
  /\ UNCHANGED <<met, follow, passed, passedBy>>
Pop(i) ==
  /\ buf' = [buf EXCEPT ![i] = Tail(@)]
  /\ met' = [o \in DOMAIN met |-> met[o] /\ To(o) # i]
  /\ UNCHANGED <<follow, passed, passedBy>>
-----------------------------------------------------------------------------
(* A node's output: per side a fan-out, delivering one message per round. *)

\* What the node does once side s is through with its message.
SideDone(x, s) ==
  IF s = LastSide(x) THEN Return(x) ELSE Goto(x, Frame("round", s + 1, 1, TRUE, <<>>))
\* Where the rotation goes after outlet k took the message.
Onward(x, s, k, m) ==
  IF k = Len(graph.outs[x][s]) THEN SideDone(x, s)
  ELSE Goto(x, Frame("push", s, k + 1, TRUE, <<m>>))
\* The edge landed a message: a waking one wakes its biunion next.
Landed(x, s, k, m) ==
  IF Waking(To(<<x, s, k>>)) /\ Outcome(<<x, s, k>>, m) # "dropped"
  THEN Goto(x, Frame("wake", s, k, TRUE, <<m>>))
  ELSE Onward(x, s, k, m)

\* Mutant: a suspended rotation starts over.
RotateStartsOver(x, s, k, m) ==
  LET o == <<x, s, k>>
  IN  /\ Outcome(o, m) # "closed"
      /\ Push(o, m)
      /\ IF Outcome(o, m) \in {"pushed", "dropped"}
         THEN pc' = Landed(x, s, k, m) /\ held' = [held EXCEPT ![x][s] = <<>>]
         ELSE pc' = SideDone(x, s) /\ held' = [held EXCEPT ![x][s] = <<[at |-> 1, msg |-> m]>>]
\* Fanout::rotate_from: a refusal, Full or Stuck, leaves the message held.
Rotate(x, s, k, m) ==
  LET o == <<x, s, k>>
  IN  /\ Outcome(o, m) # "closed"
      /\ Push(o, m)
      /\ IF Outcome(o, m) \in {"pushed", "dropped"}
         THEN pc' = Landed(x, s, k, m) /\ held' = [held EXCEPT ![x][s] = <<>>]
         ELSE pc' = SideDone(x, s) /\ held' = [held EXCEPT ![x][s] = <<[at |-> k, msg |-> m]>>]

\* Fanout::resume: Full suspends again, Stuck blocks.
Resume(x, s) ==
  LET k == held[x][s][1].at
      m == held[x][s][1].msg
      o == <<x, s, k>>
  IN  \/ Outcome(o, m) # "stuck" /\ Rotate(x, s, k, m)
      \/ /\ Outcome(o, m) = "stuck"
         /\ pc' = Goto(x, Frame("block", s, k, TRUE, <<m>>))
         /\ held' = [held EXCEPT ![x][s] = <<>>]
         /\ UNCHANGED edgeVars

\* The rotation goes on to its next edge.
RotateOn(x) ==
  /\ Running(x, "push")
  /\ Rotate(x, pc[x].side, pc[x].i, pc[x].msg[1])
  /\ UNCHANGED <<graph, alive, routineVars, workers, token, written, broke>>

\* The blocking push of a Stuck message: it waits in the edge until it lands.
Unblock(x) ==
  /\ Running(x, "block")
  /\ Outcome(<<x, pc[x].side, pc[x].i>>, pc[x].msg[1]) = "pushed"
  /\ Rotate(x, pc[x].side, pc[x].i, pc[x].msg[1])
  /\ UNCHANGED <<graph, alive, routineVars, workers, token, written, broke>>

\* The push wakes the biunion only now, the message being there.
WakeTarget(x) ==
  /\ Running(x, "wake")
  /\ token' = [y \in DOMAIN token |-> token[y] \/ y = To(<<x, pc[x].side, pc[x].i>>)[1]]
  /\ pc' = IF graph.kind[x] = "writer" THEN Goto(x, Idle)
           ELSE Onward(x, pc[x].side, pc[x].i, pc[x].msg[1])
  /\ UNCHANGED <<graph, alive, edgeVars, routineVars, held, workers, written, broke>>

\* The edge in the rotation's way has lost its receiver.
Tried(x) ==
  LET f == pc[x]
      From(k, m) == [k |-> k, m |-> m]
  IN  IF f.at \in {"push", "block"} THEN {From(f.i, f.msg[1])}
      ELSE IF f.at # "round" THEN {}
      ELSE IF held[x][f.side] # <<>> THEN {From(held[x][f.side][1].at, held[x][f.side][1].msg)}
      ELSE IF made[x][f.side] # <<>> THEN {From(1, made[x][f.side][1])}
      ELSE {From(1, m) : m \in ToSet(pending[x][f.side])}

PushClosed(x) ==
  /\ x \in alive \cap Nodes(graph)
  /\ \E t \in Tried(x) : Outcome(<<x, pc[x].side, t.k>>, t.m) = "closed"
  /\ Ends(x)
  /\ broke' = TRUE
-----------------------------------------------------------------------------
(* One round of a node: work(). *)

\* Finish the suspended push, else push the routine's next output, else the
\* pending signal, else look for input.
Resumes(x) ==
  /\ Running(x, "round")
  /\ held[x][pc[x].side] # <<>>
  /\ Resume(x, pc[x].side)
  /\ UNCHANGED <<graph, alive, routineVars, workers, token, written, broke>>

Delivers(x) ==
  LET s == pc[x].side
  IN  /\ Running(x, "round") /\ held[x][s] = <<>>
      /\ \/ /\ made[x][s] # <<>>
            /\ Rotate(x, s, 1, Head(made[x][s]))
            /\ made' = [made EXCEPT ![x][s] = Tail(@)]
            /\ UNCHANGED pending
         \/ /\ made[x][s] = <<>> /\ pending[x][s] # <<>>
            /\ Rotate(x, s, 1, pending[x][s][1])
            /\ pending' = [pending EXCEPT ![x][s] = <<>>]
            /\ UNCHANGED made
      /\ UNCHANGED <<graph, alive, kept, workers, token, written, broke>>

\* The side has nothing to push.  Input is taken only when no side had.
SideIdle(x) ==
  LET s == pc[x].side
  IN  /\ Running(x, "round")
      /\ held[x][s] = <<>> /\ made[x][s] = <<>> /\ pending[x][s] = <<>>
      /\ pc' = IF s < LastSide(x) THEN Goto(x, [pc[x] EXCEPT !.side = s + 1])
               ELSE IF pc[x].busy THEN Return(x)
               ELSE Goto(x, Frame("input", 1, 1, FALSE, <<>>))
      /\ UNCHANGED <<graph, alive, edgeVars, routineVars, held, workers, token, written, broke>>
-----------------------------------------------------------------------------
(* Input: one message to the routine, or a signal to pending. *)

\* An edge back into the part of the graph that feeds x.
Loops(x, s) == \E i \in {To(<<x, s, k>>) : k \in DOMAIN graph.outs[x][s]} : i[1] \in graph.tree[x]

\* The routine turns q to output on a side it chooses; round a loop it sends a
\* message only so often.
Emits(x, q) ==
  \E s \in Sides(x) :
    LET turn == IF Loops(x, s) THEN 1 ELSE 0
    IN  /\ \A k \in DOMAIN q : q[k].turn + turn <= MaxTurns
        /\ made' = [made EXCEPT ![x][s] = @ \o [k \in DOMAIN q |-> [q[k] EXCEPT !.turn = @ + turn]]]

\* send: the data is kept back, or all that was kept goes with it.
Sends(x, m) ==
  /\ UNCHANGED pending
  /\ \/ /\ x \in graph.keeps /\ Len(kept[x]) < MaxKept
        /\ kept' = [kept EXCEPT ![x] = Append(@, m)]
        /\ UNCHANGED made
     \/ /\ Emits(x, Append(kept[x], m))
        /\ kept' = [kept EXCEPT ![x] = <<>>]

\* A signal is owed to every side.
Owes(x, m) == pending' = [pending EXCEPT ![x] = [s \in Sides(x) |-> <<m>>]]

\* Mutant: a Flush passes the routine by.
FlushIsMarker(x, m) ==
  CASE m.kind = "data" -> Sends(x, m)
    [] OTHER           -> Owes(x, m) /\ UNCHANGED <<kept, made>>
Accept(x, m) ==
  CASE m.kind = "data"   -> Sends(x, m)
    [] m.kind = "flush"  -> Emits(x, kept[x]) /\ kept' = [kept EXCEPT ![x] = <<>>] /\ Owes(x, m)
    [] m.kind = "marker" -> Owes(x, m) /\ UNCHANGED <<kept, made>>

NumInputs(x) == Len(graph.bound[x])

\* poll found a message on input p.
Takes(x) ==
  LET i == <<x, pc[x].i>>
  IN  /\ Running(x, "input") /\ buf[i] # <<>>
      /\ Pop(i)
      /\ Accept(x, Head(buf[i]))
      /\ pc' = Goto(x, Entered)
      /\ UNCHANGED <<graph, alive, held, workers, token, written, broke>>

\* poll found input p empty; a closed side just stops feeding.  With no parents
\* left the node waits on its edges, else it works them.
FindsEmpty(x) ==
  LET i == <<x, pc[x].i>>
      open == pc[x].busy \/ ~Exhausted(i)
      orphan == \A p \in DOMAIN workers[x] : workers[x][p] = <<>>
  IN  /\ Running(x, "input") /\ buf[i] = <<>>
      /\ \/ pc[x].i < NumInputs(x) \/ open
      /\ pc' = Goto(x, IF pc[x].i < NumInputs(x) THEN Frame("input", 1, pc[x].i + 1, open, <<>>)
                       ELSE Frame(IF orphan THEN "wait" ELSE "each", 1, 1, FALSE, <<>>))
      /\ UNCHANGED <<graph, alive, edgeVars, routineVars, held, workers, token, written, broke>>

\* The last input closed.
InputsClosed(x) ==
  /\ Running(x, "input") /\ pc[x].i = NumInputs(x)
  /\ ~pc[x].busy /\ Exhausted(<<x, pc[x].i>>)
  /\ Ends(x)
  /\ UNCHANGED broke

\* wait_front: blocked until the edge has a message, or never can.
WaitFront(x) ==
  LET i == <<x, 1>>
  IN  /\ Running(x, "wait") /\ ~Waking(i)
      /\ \/ /\ buf[i] # <<>>
            /\ pc' = Goto(x, Frame("input", 1, 1, FALSE, <<>>))
            /\ UNCHANGED <<graph, alive, edgeVars, routineVars, held, workers, token, written, broke>>
         \/ /\ Exhausted(i)
            /\ Ends(x)
            /\ UNCHANGED broke

\* wait_any: one edge's state at a time, each under its own lock.
LooksAt(x) ==
  LET i == <<x, pc[x].i>>
      idle == pc[x].busy \/ ~Exhausted(i)
  IN  /\ Running(x, "wait") /\ Waking(i)
      /\ \/ buf[i] # <<>> \/ pc[x].i < NumInputs(x) \/ idle
      /\ pc' = Goto(x, IF buf[i] # <<>> THEN Frame("input", 1, 1, FALSE, <<>>)
                       ELSE IF pc[x].i < NumInputs(x) THEN Frame("wait", 1, pc[x].i + 1, idle, <<>>)
                       ELSE Frame("park", 1, 1, FALSE, <<>>))
      /\ UNCHANGED <<graph, alive, edgeVars, routineVars, held, workers, token, written, broke>>

AllExhausted(x) ==
  LET i == <<x, pc[x].i>>
  IN  /\ Running(x, "wait") /\ Waking(i) /\ pc[x].i = NumInputs(x)
      /\ ~pc[x].busy /\ Exhausted(i)
      /\ Ends(x)
      /\ UNCHANGED broke

\* Parker::park, as module Parker has it.
Parks(x) ==
  /\ Running(x, "park") /\ token[x]
  /\ token' = [token EXCEPT ![x] = FALSE]
  /\ pc' = Goto(x, Frame("wait", 1, 1, FALSE, <<>>))
  /\ UNCHANGED <<graph, alive, edgeVars, routineVars, held, workers, written, broke>>
-----------------------------------------------------------------------------
(* work_each: every worker in turn, dropping those that report Closed. *)

EachCalls(x) ==
  LET p == pc[x].side
      c == workers[x][p][pc[x].i]
  IN  /\ Running(x, "each") /\ graph.kind[x] # "io"
      /\ pc[x].i <= Len(workers[x][p])
      /\ pc' = [pc EXCEPT ![x].at = "call", ![c] = Entered]
      /\ UNCHANGED <<graph, alive, edgeVars, routineVars, held, workers, token, written, broke>>

\* Mutant: the round always starts with the same worker.
RotateNone(seq) == seq
\* The one that went first goes last next round.
RotateLeft(seq) == IF Len(seq) > 1 THEN Append(Tail(seq), Head(seq)) ELSE seq

\* The round is over: the other side's workers, or the node's input again.  A
\* thread starts the next round while it has workers.
EachEnds(x) ==
  LET p == pc[x].side
  IN  /\ Running(x, "each") /\ graph.kind[x] # "io"
      /\ pc[x].i > Len(workers[x][p])
      /\ \/ graph.kind[x] # "stream" \/ workers[x][p] # <<>>
      /\ workers' = [workers EXCEPT ![x][p] = RotateLeft(@)]
      /\ pc' = Goto(x, IF graph.kind[x] = "stream" THEN Frame("each", 1, 1, FALSE, <<>>)
                       ELSE IF p < Len(workers[x]) THEN Frame("each", p + 1, 1, FALSE, <<>>)
                       ELSE Frame("input", 1, 1, FALSE, <<>>))
      /\ UNCHANGED <<graph, alive, edgeVars, routineVars, held, token, written, broke>>

\* work_loop has nothing left to work.
ThreadEnds(t) ==
  /\ Running(t, "each") /\ graph.kind[t] = "stream"
  /\ workers[t][1] = <<>>
  /\ Drop({t})
  /\ UNCHANGED <<workers, pc, broke>>

\* A routine's error ends the thread's loop: everything it worked drops.
Fails(x) ==
  LET t == Home(x)
  IN  /\ Running(x, "input") /\ graph.fails
      /\ buf[<<x, pc[x].i>>] # <<>>
      /\ Drop(graph.tree[t])
      /\ pc' = [y \in DOMAIN pc |-> IF y \in graph.tree[t] THEN Idle ELSE pc[y]]
      /\ broke' = TRUE
      /\ UNCHANGED workers
-----------------------------------------------------------------------------
(* Outside the work threads: writers, and the readers of tees. *)

\* A blocking push: it takes effect once there is room.
Writes(w) ==
  LET o == <<w, 1, 1>>
  IN  /\ Running(w, "idle") /\ graph.kind[w] = "writer"
      /\ Len(written[w]) < graph.most[w]
      /\ \E k \in graph.kinds :
           LET m == [kind |-> k, from |-> w, nth |-> Len(written[w]) + 1, turn |-> 0]
           IN  /\ Outcome(o, m) = "pushed"
               /\ Push(o, m)
               /\ written' = [written EXCEPT ![w] = Append(@, m)]
      /\ pc' = IF Waking(To(o)) THEN Goto(w, Frame("wake", 1, 1, FALSE, <<>>)) ELSE pc
      /\ UNCHANGED <<graph, alive, routineVars, held, workers, token, broke>>

\* The writer is closed or dropped, whether or not its node is still there.
WriterLeaves(w) ==
  /\ Running(w, "idle") /\ graph.kind[w] = "writer"
  /\ Drop({w})
  /\ UNCHANGED <<workers, pc, broke>>

TeeLeaves(r) ==
  /\ graph.leaves /\ r \in alive /\ graph.kind[r] = "tee"
  /\ Drop({r})
  /\ broke' = TRUE
  /\ UNCHANGED <<workers, pc>>
-----------------------------------------------------------------------------
(* LineIo, BiunionIo, BifurcationIo: push, and flush or mark, which read until
   the signal is back and no other copy of it is on its way to the reader. *)

\* Only a LineIo can wait for a Flush; the others just push it.
Waits(m) == m.kind = "marker" \/ (m.kind = "flush" /\ graph.flushes)

\* With two readers the caller names the one it waits at.
IoPushes(t) ==
  /\ Running(t, "idle") /\ graph.kind[t] = "io"
  /\ \E w \in Lent(graph), k \in graph.kinds, i \in DOMAIN graph.bound[t] :
       LET o == <<w, 1, 1>>
           m == [kind |-> k, from |-> w, nth |-> Len(written[w]) + 1, turn |-> 0]
       IN  /\ Len(written[w]) < graph.most[w]
           /\ Outcome(o, m) = "pushed"
           /\ Push(o, m)
           /\ written' = [written EXCEPT ![w] = Append(@, m)]
           /\ pc' = IF Waits(m) THEN Goto(t, Frame("each", 1, i, FALSE, <<m>>)) ELSE pc
           /\ token' = [y \in DOMAIN token |-> token[y] \/ (Waking(To(o)) /\ y = To(o)[1])]
  /\ UNCHANGED <<graph, alive, routineVars, held, workers, broke>>

\* Reader::read works its node while it has nothing to return.
IoWorks(t) ==
  /\ Running(t, "each") /\ graph.kind[t] = "io"
  /\ buf[<<t, pc[t].i>>] = <<>>
  /\ pc' = [pc EXCEPT ![t].at = "call", ![workers[t][1][1]] = Entered]
  /\ UNCHANGED <<graph, alive, edgeVars, routineVars, held, workers, token, written, broke>>

\* Side s of x has m: it waits there, is held, or is being pushed to the edges
\* left.  What a suspended fan-out holds counts as one copy, clones and all.
Bears(x, s, m) ==
  \/ pending[x][s] = <<m>>
  \/ held[x][s] # <<>> /\ held[x][s][1].msg = m
  \/ /\ pc[x].side = s /\ pc[x].msg = <<m>>
     /\ pc[x].at \in {"push", "block"} \/ (pc[x].at = "wake" /\ pc[x].i < Len(graph.outs[x][s]))
\* Trackable::active: the caller's copy, and those in edges and nodes.
Active(m) ==
  1 + Cardinality(UNION {{<<i, k>> : k \in {j \in DOMAIN buf[i] : buf[i][j] = m}} : i \in Inputs(graph)})
    + Cardinality(UNION {{<<x, s>> : s \in {r \in Sides(x) : Bears(x, r, m)}} : x \in Nodes(graph)})

\* Mutant: the first copy to come out ends the flush.
AnyCopy(t, m) == m = pc[t].msg[1]
\* The signal is back and active() counts the caller's copy and this one; beside
\* a second reader, its copy too.
IsBack(t, m) == m = pc[t].msg[1] /\ Active(m) <= 1 + Len(graph.bound[t])

IoReads(t) ==
  LET i == <<t, pc[t].i>>
  IN  /\ Running(t, "each") /\ graph.kind[t] = "io"
      /\ buf[i] # <<>>
      /\ Pop(i)
      /\ pc' = IF IsBack(t, Head(buf[i])) THEN Goto(t, Idle) ELSE pc
      /\ UNCHANGED <<graph, alive, routineVars, held, workers, token, written, broke>>

IoDrops(t) ==
  /\ Running(t, "idle") /\ graph.kind[t] = "io"
  /\ Drop(graph.tree[t] \cup Lent(graph))
  /\ UNCHANGED <<workers, pc, broke>>
-----------------------------------------------------------------------------
NodeStep(x) ==
  \/ Resumes(x) \/ Delivers(x) \/ RotateOn(x) \/ Unblock(x) \/ PushClosed(x) \/ SideIdle(x)
  \/ WakeTarget(x)
  \/ Takes(x) \/ FindsEmpty(x) \/ InputsClosed(x)
  \/ WaitFront(x) \/ LooksAt(x) \/ AllExhausted(x) \/ Parks(x)
  \/ EachCalls(x) \/ EachEnds(x)

ThreadStep(t) ==
  /\ t \in Threads(graph)
  /\ \/ EachCalls(t) \/ EachEnds(t) \/ ThreadEnds(t) \/ IoWorks(t) \/ IoReads(t)
     \/ \E x \in graph.tree[t] \ {t} : NodeStep(x)

WriterStep(w) == w \in Writers(graph) /\ (WakeTarget(w) \/ WriterLeaves(w))

Next ==
  \/ \E t \in Threads(graph) : ThreadStep(t) \/ IoPushes(t) \/ IoDrops(t)
  \/ \E x \in Nodes(graph) : Fails(x)
  \/ \E w \in Writers(graph) : WriterStep(w) \/ Writes(w)
  \/ \E r \in Tees(graph) : TeeLeaves(r)

Spec == Init /\ [][Next]_vars

\* The system runs every thread; writers and LineIos are dropped some day.
Fairness ==
  /\ \A t \in UNION {Threads(g) : g \in Graphs} :
       WF_vars(ThreadStep(t)) /\ WF_vars(t \in Threads(graph) /\ IoDrops(t))
  /\ \A w \in UNION {Writers(g) : g \in Graphs} : WF_vars(WriterStep(w))

LiveSpec == Spec /\ Fairness
-----------------------------------------------------------------------------
TypeOK ==
  /\ graph \in Graphs /\ alive \subseteq Parts(graph)
  /\ \A i \in Inputs(graph) : buf[i] \in Seq(Message) /\ (Bound(i) # 0 => Len(buf[i]) <= Bound(i))
  /\ \A x \in Nodes(graph) : kept[x] \in Seq(Message) /\ Len(kept[x]) <= MaxKept

(* work.rs, on bounded inputs: "An upstream refused by such an input yields
   and finds room when rescheduled".  A node never blocks on an input of its
   own thread, where nobody would be left to drain it: whatever the routines
   do, Stuck is only for edges to other threads. *)
NeverStuckAtHome ==
  \A x \in Nodes(graph) : Running(x, "block") =>
    To(<<x, pc[x].side, pc[x].i>>)[1] \notin graph.tree[Home(x)]

\* The producers of input i are on list p of its node, with one edge each.
TakesTurns(i, p) ==
  /\ graph.feeders[i] \subseteq ToSet(graph.owns[i[1]][p])
  /\ \A u, v \in Outlets(graph) : To(u) = i /\ To(v) = i /\ u[1] = v[1] => u = v

(* work_each rotates its workers so that under a bounded input whoever goes
   first does not refill it for ever: where the producers of an input take
   turns, each round lets a refused one go earlier, so that it sees no more
   messages go first than the input holds, for each of its siblings. *)
NoParentStarves ==
  \A o \in Outlets(graph) :
    LET i == To(o) IN
    \A p \in DOMAIN graph.owns[i[1]] :
      o[1] \in alive /\ TakesTurns(i, p) =>
        passedBy[o] <= Bound(i) * (Len(graph.owns[i[1]][p]) - 1)

(* A signal passes a FollowData edge if and only if the message the edge took
   before it was data, however often the edge refused either of them. *)
SignalsFollowData ==
  \A o \in Outlets(graph) :
    Follows(o) => (passed[o].through <=> passed[o].data \/ passed[o].before)

(* Where one path leads from a writer to each part, every edge and every
   reader gets the data and Flushes of the writer in the order they were
   written, none twice, through nodes that hold them back, fan-outs that
   suspend half way and parents that take turns. *)
\* R is every outlet that messages of w can take.
Ways(w, R) == R = {o \in Outlets(graph) : o[1] = w \/ \E u \in R : To(u)[1] = o[1]}
OnePath(w) ==
  \E R \in SUBSET Outlets(graph) : Ways(w, R) /\ \A u, v \in R : To(u)[1] = To(v)[1] => u = v
Ordered(w, m) == m.from = w /\ m.kind # "marker"
Rising(w, q) ==
  \A j, k \in DOMAIN q : j < k /\ Ordered(w, q[j]) /\ Ordered(w, q[k]) => q[j].nth < q[k].nth
InOrder ==
  \A w \in Writers(graph) : OnePath(w) => \A i \in Inputs(graph) : Rising(w, buf[i])

\* Where no Flush is lost: no message comes back to a node, no marker goes
\* before a Flush on a FollowData edge, a node feeds the node that works it,
\* and no LineIo holds the graph and drops it.
Acyclic == \A x \in Nodes(graph) : \A s \in Sides(x) : ~Loops(x, s)
FlushesThrough ==
  /\ Acyclic /\ "marker" \notin graph.kinds
  /\ \A t \in Threads(graph) : graph.kind[t] # "io"
  /\ \A x \in Nodes(graph) : graph.owner[x] \in Nodes(graph) =>
       \E o \in Outlets(graph) : o[1] = x /\ To(o)[1] = graph.owner[x]
(* All that was written before a writer's last Flush has arrived by the time
   the threads end: at every reader on its way, on one side of a bifurcation.
   Only an error or a reader that leaves may cut it short. *)
Arrived(m, w) ==
  \E D \in SUBSET Outlets(graph) :
    /\ <<w, 1, 1>> \in D
    /\ \A o \in D :
         LET x == To(o)[1]
         IN  IF graph.kind[x] = "tee" THEN m \in ToSet(buf[To(o)])
             ELSE \E s \in Sides(x) : \A k \in DOMAIN graph.outs[x][s] : <<x, s, k>> \in D
FlushedIsDelivered ==
  (alive \subseteq Tees(graph) /\ ~broke /\ FlushesThrough) =>
    \A w \in Writers(graph) : \A i, j \in DOMAIN written[w] :
      (i < j /\ written[w][i].kind = "data" /\ written[w][j].kind = "flush") => Arrived(written[w][i], w)

(* LineIo::flush returns only once the graph, loop and all, holds no data of
   its writer any more; a mark, which flushes no routine, once none moves that
   its reader would see. *)
Moving(w, r) ==
  LET Seen(i) == i[1] = r[1] => i = r
      Leads(x, s) == \E k \in DOMAIN graph.outs[x][s] : Seen(To(<<x, s, k>>))
      Mine(m) == IsData(m) /\ m.from = w
  IN  \/ \E i \in Inputs(graph) : Seen(i) /\ \E k \in DOMAIN buf[i] : Mine(buf[i][k])
      \/ \E x \in Nodes(graph) : \E s \in Sides(x) :
           /\ Leads(x, s)
           /\ \/ \E k \in DOMAIN made[x][s] : Mine(made[x][s][k])
              \/ held[x][s] # <<>> /\ Mine(held[x][s][1].msg)
IoReturnsAll ==
  [][\A t \in Threads(graph) : \A w \in Lent(graph), i \in DOMAIN graph.bound[t] :
       (/\ Running(t, "each") /\ graph.kind[t] = "io" /\ pc'[t].at = "idle" /\ t \in alive'
        /\ pc[t].i = i /\ pc[t].msg[1].from = w) =>
          /\ ~Moving(w, <<t, i>>)'
          /\ pc[t].msg[1].kind = "flush" => \A x \in Nodes(graph) : kept'[x] = <<>>]_vars

(* Every thread ends once its writers are gone: no consumer sleeps through
   the last close, no push blocks for ever. *)
ThreadsEnd == <>(alive \cap Threads(graph) = {})
=============================================================================
