------------------------------ MODULE PollNode -------------------------------
(***************************************************************************)
(* One node of a poll thread: an Input phase per side, a Work phase and an *)
(* Output phase over one shared state (node/poll, node/line/poll/node,     *)
(* node/biunion/poll/node), with the routine of FutureRoutine between them *)
(* and edges of poll::edge around them.  A poll is several steps, one per  *)
(* message: what is outside the thread may push, pop and close between     *)
(* two of them.  The thread polls the woken phases in any order, each      *)
(* wake clearing when its poll begins, as Scheduler shows it does.         *)
(***************************************************************************)
EXTENDS FutureRoutine, Messages, FiniteSets, FiniteSetsExt, SequencesExt

CONSTANTS Budget,     \* messages an Input takes, or Output delivers, per poll
          NumEdges,   \* output edges of the node
          EdgeBound,  \* bound of each output edge
          MaxSent     \* bound: messages upstream sends in all

ASSUME NodeAssumption ==
  /\ Budget \in Nat \ {0} /\ NumEdges \in Nat \ {0} /\ EdgeBound \in Nat \ {0}
  /\ MaxSent \in Nat
  /\ Inputs # {} /\ Inputs \cap {"work", "output", "none", "fail", "close", "fatal"} = {}

VARIABLES
  state,      \* NodeState
  signal,     \* the Flush or Marker a state carries, as a sequence
  open,       \* sides that still feed the node
  held,       \* the message each Input holds, as a sequence
  sent,       \* history: what upstream pushed to each side
  read,       \* how much of sent the Input took off its edge
  inClosed,   \* the side's edge is closed
  delivered,  \* history: what each output edge took
  taken,      \* how much of delivered the edge's consumer popped
  edge,       \* "open", or who closed the output edge: "tx" or "rx"
  owesPop,    \* the output edge refused since its last pop
  suspended,  \* Output's held message and the edge that refused it
  woken,      \* phases that will be polled
  gone,       \* phases that returned Closed and were dropped
  pc          \* the poll in progress: phase and budget left, or idle

edgeVars == <<delivered, taken, edge, owesPop, suspended>>
inletVars == <<sent, read, inClosed>>
nodeVars == <<state, signal, open, held>>
vars == <<routineVars, nodeVars, inletVars, edgeVars, woken, gone, pc>>

Phases == Inputs \cup {"work", "output"}
Edges == 1 .. NumEdges
Message == [kind : {"data", "flush", "marker"}, from : Inputs, nth : 1 .. MaxSent]
States == {"Running", "Flushing", "FlushReady", "MarkerReady", "Forwarding",
           "CloseReady", "Closed"}
Idle == [phase |-> "none", left |-> 0]
AtMostOne(S) == {<<>>} \cup {<<m>> : m \in S}

TypeOK ==
  /\ state \in States /\ signal \in AtMostOne(Message)
  /\ open \in [Inputs -> BOOLEAN]
  /\ held \in [Inputs -> AtMostOne(Message)]
  /\ \A i \in Inputs :
       /\ sent[i] \in Seq(Message) /\ Len(sent[i]) <= MaxSent
       /\ read[i] \in 0 .. Len(sent[i])
       /\ Len(iq[i]) <= Room + 1 /\ Len(iq[i]) > Room => Last(iq[i]).kind = "flush"
  /\ inClosed \in [Inputs -> BOOLEAN]
  /\ \A e \in Edges :
       /\ taken[e] \in 0 .. Len(delivered[e])
       /\ Len(delivered[e]) - taken[e] <= EdgeBound
  /\ edge \in [Edges -> {"open", "tx", "rx"}] /\ owesPop \in [Edges -> BOOLEAN]
  /\ suspended \in AtMostOne([at : Edges, msg : Message])
  /\ Len(oq) <= Room
  /\ (fut = "recv") = (hand = <<>>)
  /\ woken \subseteq Phases \ gone /\ gone \subseteq Phases
  /\ pc.phase \in Phases \cup {"none", "fail", "close", "fatal"} /\ pc.left \in 0 .. Budget

Init ==
  /\ RoutineInit
  /\ state = "Running" /\ signal = <<>>
  /\ open = [i \in Inputs |-> TRUE] /\ held = [i \in Inputs |-> <<>>]
  /\ sent = [i \in Inputs |-> <<>>] /\ read = [i \in Inputs |-> 0]
  /\ inClosed = [i \in Inputs |-> FALSE]
  /\ delivered = [e \in Edges |-> <<>>] /\ taken = [e \in Edges |-> 0]
  /\ edge = [e \in Edges |-> "open"] /\ owesPop = [e \in Edges |-> FALSE]
  /\ suspended = <<>>
  /\ woken = Phases /\ gone = {} /\ pc = Idle

\* Wakes of phases already dropped do nothing.
Wake(phases) == woken' = woken \cup (phases \ gone)
Stop == pc' = Idle
-----------------------------------------------------------------------------
(* The edges' far ends: producers upstream, consumers downstream. *)

Upstream(i) ==
  /\ ~inClosed[i]
  /\ MapThenSumSet(LAMBDA j : Len(sent[j]), Inputs) < MaxSent
  /\ \E k \in {"data", "flush", "marker"} :
       sent' = [sent EXCEPT ![i] = Append(@, [kind |-> k, from |-> i, nth |-> Len(@) + 1])]
  /\ Wake({i})
  /\ UNCHANGED <<routineVars, nodeVars, read, inClosed, edgeVars, gone, pc>>

UpstreamCloses(i) ==
  /\ ~inClosed[i]
  /\ inClosed' = [inClosed EXCEPT ![i] = TRUE]
  /\ Wake({i})
  /\ UNCHANGED <<routineVars, nodeVars, sent, read, edgeVars, gone, pc>>

Waiting(e) == Len(delivered[e]) - taken[e]

\* The first pop after a refusal wakes Output.
Downstream(e) ==
  /\ edge[e] # "rx"
  /\ Waiting(e) > 0
  /\ taken' = [taken EXCEPT ![e] = @ + 1]
  /\ owesPop' = [owesPop EXCEPT ![e] = FALSE]
  /\ Wake(IF owesPop[e] THEN {"output"} ELSE {})
  /\ UNCHANGED <<routineVars, nodeVars, inletVars, delivered, edge, suspended, gone, pc>>

\* The consumer drops its receiver: a refused Output is woken to find out.
DownstreamCloses(e) ==
  /\ edge[e] # "rx"
  /\ edge' = [edge EXCEPT ![e] = "rx"]
  /\ owesPop' = [owesPop EXCEPT ![e] = FALSE]
  /\ Wake(IF owesPop[e] THEN {"output"} ELSE {})
  /\ UNCHANGED <<routineVars, nodeVars, inletVars, delivered, taken, suspended, gone, pc>>

Io ==
  /\ IoDone
  /\ Wake({"work"})
  /\ UNCHANGED <<nodeVars, inletVars, edgeVars, gone, pc>>
-----------------------------------------------------------------------------
(* The thread takes a woken phase and polls it. *)

Begin(p) == pc = Idle /\ p \in woken

\* The phase returned Closed.  The last one to go drops the shared state, and
\* with it the edges' ends the node held.
DropPhase(p) ==
  /\ gone' = gone \cup {p}
  /\ Stop

SharedDropped(p) == gone \cup {p} = Phases
EdgesAfter(p) ==
  [e \in Edges |-> IF SharedDropped(p) /\ edge[e] = "open" THEN "tx" ELSE edge[e]]
InletsAfter(p) == [i \in Inputs |-> inClosed[i] \/ SharedDropped(p)]

\* A poll that finds the node closed.
LeaveClosed(p) ==
  /\ Begin(p)
  /\ state \in {"CloseReady", "Closed"}
  /\ p = "output" => state = "Closed"
  /\ woken' = woken \ {p}
  /\ DropPhase(p)
  /\ held' = [i \in Inputs |-> IF i = p THEN <<>> ELSE held[i]]
  /\ edge' = EdgesAfter(p) /\ inClosed' = InletsAfter(p)
  /\ UNCHANGED <<routineVars, state, signal, open, sent, read, delivered, taken, owesPop, suspended>>

\* A poll that has to wait for Output to return the node to Running.
Swallow(p) ==
  /\ Begin(p)
  /\ IF p = "work" THEN state \in {"FlushReady", "Forwarding"}
     ELSE p # "output" /\ state \in {"Flushing", "FlushReady", "MarkerReady", "Forwarding"}
  /\ woken' = woken \ {p}
  /\ UNCHANGED <<routineVars, nodeVars, inletVars, edgeVars, gone, pc>>
-----------------------------------------------------------------------------
(* Input: feed the routine as one side. *)

\* Mutant: a side drains while the routine is being flushed.
DrainsInFlush == state \in {"Running", "Flushing"}
\* An Input drains in Running only; in the states between, it waits for Output.
Drains == state = "Running"

\* Feed::drain up to its loop: the held message first, then the open edge.
InputBegins(i) ==
  /\ Begin(i)
  /\ Drains
  /\ \/ /\ held[i] # <<>> /\ ~HasRoom(i)
        /\ Refuse(i)
        /\ woken' = woken \ {i}
        /\ UNCHANGED <<held, pc>>
     \/ /\ held[i] # <<>> /\ TrySend(i, held[i][1])
        /\ woken' = (woken \ {i}) \cup (SendWakes(i) \ gone)
        /\ held' = [held EXCEPT ![i] = <<>>]
        /\ pc' = [phase |-> i, left |-> Budget]
     \/ /\ held[i] = <<>>
        /\ woken' = woken \ {i}
        /\ pc' = IF open[i] THEN [phase |-> i, left |-> Budget] ELSE Idle
        /\ UNCHANGED <<routineVars, held>>
  /\ UNCHANGED <<state, signal, open, inletVars, edgeVars, gone>>

Feeding(i) == pc.phase = i /\ pc.left > 0
NextIn(i) == sent[i][read[i] + 1]
HasNext(i) == read[i] < Len(sent[i])
Advance(i) == read' = [read EXCEPT ![i] = @ + 1]

\* Mutant: a message the routine refuses is dropped.
InputDropsRefused(i) ==
  /\ Feeding(i) /\ HasNext(i) /\ NextIn(i).kind = "data"
  /\ Advance(i)
  /\ \/ TrySend(i, NextIn(i)) /\ Wake(SendWakes(i))
     \/ Refuse(i) /\ UNCHANGED woken
  /\ pc' = [pc EXCEPT !.left = @ - 1]
  /\ UNCHANGED <<nodeVars, sent, inClosed, edgeVars, gone>>

InputData(i) ==
  /\ Feeding(i) /\ HasNext(i) /\ NextIn(i).kind = "data"
  /\ Advance(i)
  /\ \/ /\ TrySend(i, NextIn(i))
        /\ Wake(SendWakes(i))
        /\ pc' = [pc EXCEPT !.left = @ - 1]
        /\ UNCHANGED held
     \/ /\ Refuse(i)
        /\ held' = [held EXCEPT ![i] = <<NextIn(i)>>]
        /\ Stop
        /\ UNCHANGED woken
  /\ UNCHANGED <<state, signal, open, sent, inClosed, edgeVars, gone>>

InputFlush(i) ==
  /\ Feeding(i) /\ HasNext(i) /\ NextIn(i).kind = "flush"
  /\ Advance(i)
  /\ Flush
  /\ state' = "Flushing" /\ signal' = <<NextIn(i)>>
  /\ Wake({"work"} \cup FlushWakes)
  /\ Stop
  /\ UNCHANGED <<open, held, sent, inClosed, edgeVars, gone>>
InputMarker(i) ==
  /\ Feeding(i) /\ HasNext(i) /\ NextIn(i).kind = "marker"
  /\ Advance(i)
  /\ state' = "MarkerReady" /\ signal' = <<NextIn(i)>>
  /\ Wake({"work"})
  /\ Stop
  /\ UNCHANGED <<routineVars, open, held, sent, inClosed, edgeVars, gone>>

InputEmpty(i) ==
  /\ Feeding(i) /\ ~HasNext(i) /\ ~inClosed[i]
  /\ Stop
  /\ UNCHANGED <<routineVars, nodeVars, inletVars, edgeVars, woken, gone>>

\* Open::others: the node ends with its last input.
LastInput(i) == \A j \in Inputs \ {i} : ~open[j]

InputCloses(i) ==
  /\ Feeding(i) /\ ~HasNext(i) /\ inClosed[i]
  /\ open' = [open EXCEPT ![i] = FALSE]
  /\ IF LastInput(i)
     THEN /\ state' = "CloseReady"
          /\ woken' = (woken \cup (Phases \ gone)) \ {i}
          /\ DropPhase(i)
     ELSE Stop /\ UNCHANGED <<state, woken, gone>>
  /\ UNCHANGED <<routineVars, signal, held, inletVars, edgeVars>>

\* Budget spent: the Input wakes itself.
InputYields(i) ==
  /\ pc.phase = i /\ pc.left = 0
  /\ Wake({i})
  /\ Stop
  /\ UNCHANGED <<routineVars, nodeVars, inletVars, edgeVars, gone>>
-----------------------------------------------------------------------------
(* Work: poll the routine. *)

WorkBegins ==
  /\ Begin("work")
  /\ state \in {"Running", "Flushing", "MarkerReady"}
  /\ woken' = woken \ {"work"}
  /\ pc' = [phase |-> "work", left |-> 0]
  /\ UNCHANGED <<routineVars, nodeVars, inletVars, edgeVars, gone>>

WorkTakes(i) ==
  /\ pc.phase = "work"
  /\ FutureTakes(i)
  /\ Wake(TakeWakes(i))
  /\ UNCHANGED <<nodeVars, inletVars, edgeVars, gone, pc>>

WorkSends ==
  /\ pc.phase = "work"
  /\ FutureSends
  /\ Wake(SentWakes)
  /\ UNCHANGED <<nodeVars, inletVars, edgeVars, gone, pc>>

\* Pending.  A Marker gets this one poll, then it is Output's.
WorkPends ==
  /\ pc.phase = "work"
  /\ FutureParks
  /\ Wake(IF state = "MarkerReady" THEN {"output"} ELSE {})
  /\ Stop
  /\ UNCHANGED <<nodeVars, inletVars, edgeVars, gone>>

\* Ready.  Outside a flush, or with input unread, it is a fatal error.
WorkReady ==
  /\ pc.phase = "work"
  /\ FutureReturns
  /\ IF state = "Flushing" /\ SegmentEnded
     THEN /\ Renew
          /\ state' = "FlushReady"
          /\ Wake({"output"})
          /\ Stop
     ELSE /\ pc' = [phase |-> "fatal", left |-> 0]
          /\ UNCHANGED <<routineVars, state, woken>>
  /\ UNCHANGED <<signal, open, held, inletVars, edgeVars, gone>>
-----------------------------------------------------------------------------
(* Output: drain the routine into the edges. *)

OutputBegins ==
  /\ Begin("output")
  /\ state # "Closed"
  /\ woken' = woken \ {"output"}
  /\ pc' = [phase |-> "output", left |-> Budget]
  /\ UNCHANGED <<routineVars, nodeVars, inletVars, edgeVars, gone>>

\* Edges from `from` on that stop a rotation; a closed one ends it in error.
Stops(from) == {e \in Edges : e >= from /\ (edge[e] # "open" \/ Waiting(e) >= EdgeBound)}
Outcome(from) ==
  IF Stops(from) = {} THEN "complete"
  ELSE IF edge[Min(Stops(from))] # "open" THEN "closed" ELSE "suspended"
Reached(from) == IF Stops(from) = {} THEN NumEdges ELSE Min(Stops(from)) - 1
Give(m, edges) == [e \in Edges |-> IF e \in edges THEN Append(delivered[e], m) ELSE delivered[e]]
\* Mutant: the refused message is not kept.
SuspendDrops(from, m) ==
  /\ suspended' = <<>>
  /\ owesPop' = IF Outcome(from) = "suspended" THEN [owesPop EXCEPT ![Reached(from) + 1] = TRUE]
                ELSE owesPop
\* Mutant: the edge does not note that it refused.
SuspendUnnoted(from, m) ==
  /\ suspended' = IF Outcome(from) = "suspended" THEN <<[at |-> Reached(from) + 1, msg |-> m]>>
                  ELSE <<>>
  /\ UNCHANGED owesPop
Suspend(from, m) ==
  IF Outcome(from) = "suspended"
  THEN /\ suspended' = <<[at |-> Reached(from) + 1, msg |-> m]>>
       /\ owesPop' = [owesPop EXCEPT ![Reached(from) + 1] = TRUE]
  ELSE suspended' = <<>> /\ UNCHANGED owesPop

\* Fanout::rotate_from: every edge up to the first stop takes the message.
Rotate(from, m) ==
  /\ delivered' = Give(m, from .. Reached(from))
  /\ Suspend(from, m)

\* Where a poll of Output goes after a rotation that did not complete.
Halted(outcome) ==
  IF outcome = "closed" THEN [phase |-> "fail", left |-> 0]
  ELSE IF state = "CloseReady" THEN [phase |-> "close", left |-> 0]
  ELSE Idle

\* The held message first: nothing new is drained while an edge refuses it.
OutputRetries ==
  /\ pc.phase = "output" /\ suspended # <<>>
  /\ LET held1 == suspended[1]
         outcome == Outcome(held1.at)
     IN  /\ Rotate(held1.at, held1.msg)
         /\ pc' = IF outcome = "complete" THEN pc ELSE Halted(outcome)
  /\ UNCHANGED <<routineVars, nodeVars, inletVars, taken, edge, woken, gone>>

Draining == pc.phase = "output" /\ suspended = <<>> /\ state # "Forwarding"

OutputDelivers ==
  /\ Draining /\ pc.left > 0
  /\ Pop
  /\ Wake(PopWakes)
  /\ Rotate(1, Head(oq))
  /\ pc' = IF Outcome(1) = "complete" THEN [pc EXCEPT !.left = @ - 1] ELSE Halted(Outcome(1))
  /\ UNCHANGED <<nodeVars, inletVars, taken, edge, gone>>

\* Budget spent: Output wakes itself, whatever else it was about to do.
OutputYields ==
  /\ Draining /\ pc.left = 0
  /\ Wake({"output"})
  /\ Stop
  /\ UNCHANGED <<routineVars, nodeVars, inletVars, edgeVars, gone>>

\* The routine has no more.  A signal waiting behind the data goes out now.
OutputDrained ==
  /\ Draining /\ pc.left > 0
  /\ PopNothing
  /\ CASE state \in {"FlushReady", "MarkerReady"} ->
            /\ state' = "Forwarding" /\ signal' = <<>>
            /\ Rotate(1, signal[1])
            /\ pc' = IF Outcome(1) = "complete" THEN pc ELSE Halted(Outcome(1))
       [] state = "CloseReady" ->
            /\ pc' = [phase |-> "close", left |-> 0]
            /\ UNCHANGED <<state, signal, delivered, owesPop, suspended>>
       [] OTHER -> Stop /\ UNCHANGED <<state, signal, delivered, owesPop, suspended>>
  /\ UNCHANGED <<open, held, inletVars, taken, edge, woken, gone>>

\* Mutant: the return to Running wakes only the Inputs.
ResumeWakesInputs == Inputs
\* Emit::running: the inputs resume, and Work replays a wake it swallowed.
ResumeWakes == Inputs \cup {"work"}

OutputForwarded ==
  /\ pc.phase = "output" /\ suspended = <<>> /\ state = "Forwarding"
  /\ state' = "Running"
  /\ Wake(ResumeWakes)
  /\ Stop
  /\ UNCHANGED <<routineVars, signal, open, held, inletVars, edgeVars, gone>>

\* Mutant: Output closes the node without telling the other phases.
EndWakesNobody == {}
\* Emit::close: who learns that the node is closed.
EndWakes == Inputs \cup {"work"}

\* Output returns Closed: an edge did, or the node's last input closed and the
\* routine is drained.  In the second case every edge is closed downstream, and
\* a message an edge still refuses is dropped.
OutputEnds ==
  /\ pc.phase \in {"fail", "close"}
  /\ state' = "Closed" /\ signal' = <<>>
  /\ suspended' = <<>>
  /\ woken' = (woken \cup (EndWakes \ gone)) \ {"output"}
  /\ DropPhase("output")
  /\ inClosed' = InletsAfter("output")
  /\ edge' = [e \in Edges |-> IF edge[e] = "open" /\ pc.phase = "close" THEN "tx"
                              ELSE EdgesAfter("output")[e]]
  /\ UNCHANGED <<routineVars, open, held, sent, read, delivered, taken, owesPop>>
-----------------------------------------------------------------------------
PollOf(p) ==
  \/ LeaveClosed(p) \/ Swallow(p)
  \/ /\ p \in Inputs
     /\ InputBegins(p)
  \/ p = "work" /\ WorkBegins
  \/ p = "output" /\ OutputBegins

PollGoesOn ==
  \/ \E i \in Inputs : \/ InputData(i) \/ InputFlush(i) \/ InputMarker(i)
                       \/ InputEmpty(i) \/ InputCloses(i) \/ InputYields(i)
                       \/ WorkTakes(i)
  \/ WorkSends \/ WorkPends \/ WorkReady
  \/ OutputRetries \/ OutputDelivers \/ OutputYields \/ OutputDrained
  \/ OutputForwarded \/ OutputEnds

\* Nothing is left to do, inside the node or around it.
Finished ==
  /\ gone = Phases
  /\ \A e \in Edges : edge[e] = "rx" \/ Waiting(e) = 0
  /\ UNCHANGED vars

Next ==
  \/ \E p \in Phases : PollOf(p)
  \/ PollGoesOn
  \/ \E i \in Inputs : Upstream(i) \/ UpstreamCloses(i)
  \/ \E e \in Edges : Downstream(e) \/ DownstreamCloses(e)
  \/ Io
  \/ Finished

Spec == Init /\ [][Next]_vars

\* The scheduler serves every wake; consumers drain their edges; I/O completes.
\* Nothing is assumed of the producers.
Fairness ==
  /\ \A p \in Phases : SF_vars(PollOf(p))
  /\ WF_vars(PollGoesOn)
  /\ \A e \in Edges : WF_vars(Downstream(e))
  /\ WF_vars(Io)

LiveSpec == Spec /\ Fairness
-----------------------------------------------------------------------------
(* A routine that keeps its contract never brings the node to one of its
   fatal errors: Ready outside a flush, or a segment that ends with input
   unread (drive.rs, FutureRoutine::poll).  Input must stop at a Flush. *)
NoFatal == pc.phase # "fatal"

(* Each edge gets a side's data and Flushes in the order they were pushed,
   none missing in between, none twice, however often the message was held,
   by the Input, the future or an edge.  Only a Marker, which the routine
   never sees, may pass data. *)
OfSide(q, i) == Only(q, [kind : {"data", "flush"}, from : {i}, nth : Nat \ {0}])
InOrder ==
  \A e \in Edges, i \in Inputs : IsPrefix(OfSide(delivered[e], i), OfSide(sent[i], i))

(* The output's edges never drift apart: each edge has what a later edge
   has, and at most the one message being rotated more. *)
EdgesInLockstep ==
  \A e \in Edges : \A f \in e .. NumEdges :
    /\ IsPrefix(delivered[f], delivered[e])
    /\ Len(delivered[e]) - Len(delivered[f]) <= 1

(* "Flush before closing to deliver it" (FutureRoutine's Factory::bounded): a
   node that closes on its own, its consumers still there, has delivered on
   every edge all that was pushed up to each side's last Flush. *)
LastFlush(i) ==
  LET pushed == OfSide(sent[i], i)
      flushes == {k \in DOMAIN pushed : pushed[k].kind = "flush"}
  IN  IF flushes = {} THEN 0 ELSE Max(flushes)
FlushedIsDelivered ==
  (state = "Closed" /\ \A e \in Edges : edge[e] # "rx") =>
    \A e \in Edges, i \in Inputs :
      Len(OfSide(delivered[e], i)) >= LastFlush(i)

(* No wake is lost: when no phase is to be polled, the node either waits for
   the consumer of an edge that will wake Output, or for the future's I/O, or
   it is Running with all that was pushed to its open sides delivered. *)
QuietMeansDone ==
  (pc = Idle /\ woken = {} /\ gone # Phases) =>
    \/ suspended # <<>> /\ owesPop[suspended[1].at]
    \/ fut = "io"
    \/ /\ state = "Running" /\ suspended = <<>> /\ hand = <<>> /\ oq = <<>>
       /\ \A i \in Inputs :
            /\ held[i] = <<>> /\ iq[i] = <<>> /\ read[i] = Len(sent[i])
            /\ open[i] # inClosed[i]

(* The module doc of node/biunion/poll/node.rs: "Close from either input
   closes the node". *)
EitherCloseEndsTheNode ==
  (\E i \in Inputs : ~open[i]) => state \in {"CloseReady", "Closed"}

(* Every Flush pushed to a side comes out of every edge, unless a consumer
   leaves: again and again there is a moment when none is missing. *)
FlushesOf(i) == {m \in ToSet(sent[i]) : m.kind = "flush"}
FlushesArrive ==
  []<>(\/ \E e \in Edges : edge[e] = "rx"
       \/ \A e \in Edges, i \in Inputs : FlushesOf(i) \subseteq ToSet(delivered[e]))

(* A closing node takes all its phases with it, so that its thread can end. *)
EveryPhaseEnds == (\A i \in Inputs : inClosed[i]) ~> gone = Phases
=============================================================================
