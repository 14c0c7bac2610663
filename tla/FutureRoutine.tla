---------------------------- MODULE FutureRoutine ----------------------------
(***************************************************************************)
(* poll::future: the routine that runs a user's async fn between an input  *)
(* queue per side and an output queue (node/line/poll/future.rs,           *)
(* node/biunion/poll/future.rs).  Only the node that owns it steps it, so  *)
(* the operators here are the calls the node makes: each states what the   *)
(* call does to the queues, and a companion operator states which of the   *)
(* node's phases the call wakes.  The async fn itself is the caller's: it  *)
(* is modelled as one that takes any waiting item, may wait for I/O before *)
(* it sends the item on, and returns once every side showed it its Flush.  *)
(***************************************************************************)
EXTENDS Naturals, Sequences

CONSTANTS Inputs,   \* the node's sides: one for a line, two for a biunion
          Room      \* the bound of each queue

ASSUME RoomAssumption == Room \in Nat \ {0}

VARIABLES
  iq,          \* input queue of each side; a Flush item may be one past Room
  sawFlush,    \* Inner.closed of each input queue: its Flush was received
  refused,     \* a send was refused since the last pop
  recvParked,  \* the future waits for an item of this queue
  oq,          \* output queue
  armed,       \* the last pop of oq found it empty: the next send wakes Output
  sendParked,  \* the future waits for room in oq
  fut,         \* where the future stands: "recv", "io" or "send"
  hand         \* the item the future took and has not sent, as a sequence

routineVars == <<iq, sawFlush, refused, recvParked, oq, armed, sendParked, fut, hand>>

RoutineInit ==
  /\ iq = [i \in Inputs |-> <<>>]
  /\ sawFlush = [i \in Inputs |-> FALSE]
  /\ refused = [i \in Inputs |-> FALSE]
  /\ recvParked = [i \in Inputs |-> FALSE]
  /\ oq = <<>> /\ armed = TRUE /\ sendParked = FALSE
  /\ fut = "recv" /\ hand = <<>>

WorkIf(parked) == IF parked THEN {"work"} ELSE {}
-----------------------------------------------------------------------------
(* What the node's Input calls. *)

HasRoom(i) == Len(iq[i]) < Room

SendWakes(i) == WorkIf(recvParked[i])

TrySend(i, m) ==
  /\ HasRoom(i)
  /\ iq' = [iq EXCEPT ![i] = Append(@, m)]
  /\ recvParked' = [recvParked EXCEPT ![i] = FALSE]
  /\ UNCHANGED <<sawFlush, refused, oq, armed, sendParked, fut, hand>>

\* Accept::Full: the refusal owes Input a wake.
Refuse(i) ==
  /\ ~HasRoom(i)
  /\ refused' = [refused EXCEPT ![i] = TRUE]
  /\ UNCHANGED <<iq, sawFlush, recvParked, oq, armed, sendParked, fut, hand>>

FlushItem(i) == [kind |-> "flush", from |-> i, nth |-> 0]

FlushWakes == WorkIf(\E i \in Inputs : recvParked[i])

\* A Flush of either side is put into every input queue.
Flush ==
  /\ iq' = [i \in Inputs |-> Append(iq[i], FlushItem(i))]
  /\ recvParked' = [i \in Inputs |-> FALSE]
  /\ UNCHANGED <<sawFlush, refused, oq, armed, sendParked, fut, hand>>
-----------------------------------------------------------------------------
(* What the node's Output calls. *)

PopWakes == WorkIf(sendParked)

Pop ==
  /\ oq # <<>>
  /\ oq' = Tail(oq)
  /\ sendParked' = FALSE
  /\ UNCHANGED <<iq, sawFlush, refused, recvParked, armed, fut, hand>>

\* A pop of an empty queue arms it.
PopNothing ==
  /\ oq = <<>>
  /\ armed' = TRUE
  /\ UNCHANGED <<iq, sawFlush, refused, recvParked, oq, sendParked, fut, hand>>
-----------------------------------------------------------------------------
(* One poll of the future, an await at a time. *)

\* Input phases a pop of side i wakes.
TakeWakes(i) == IF refused[i] THEN {i} ELSE {}

\* recv of side i resolves; a data item may need I/O before it is sent on.
FutureTakes(i) ==
  /\ fut = "recv"
  /\ ~sawFlush[i]
  /\ iq[i] # <<>>
  /\ iq' = [iq EXCEPT ![i] = Tail(@)]
  /\ refused' = [refused EXCEPT ![i] = FALSE]
  /\ IF Head(iq[i]).kind = "flush"
     THEN /\ sawFlush' = [sawFlush EXCEPT ![i] = TRUE]
          /\ UNCHANGED <<fut, hand>>
     ELSE /\ hand' = <<Head(iq[i])>>
          /\ fut' \in {"io", "send"}
          /\ UNCHANGED sawFlush
  /\ UNCHANGED <<recvParked, oq, armed, sendParked>>

SentWakes == IF armed THEN {"output"} ELSE {}

\* send resolves.
FutureSends ==
  /\ fut = "send"
  /\ Len(oq) < Room
  /\ oq' = Append(oq, hand[1])
  /\ armed' = FALSE
  /\ fut' = "recv" /\ hand' = <<>>
  /\ UNCHANGED <<iq, sawFlush, refused, recvParked, sendParked>>

\* Everything the future waits for is missing: it parks and the poll is Pending.
FutureParks ==
  \/ /\ fut = "io"
     /\ UNCHANGED routineVars
  \/ /\ fut = "send"
     /\ Len(oq) >= Room
     /\ sendParked' = TRUE
     /\ UNCHANGED <<iq, sawFlush, refused, recvParked, oq, armed, fut, hand>>
  \/ /\ fut = "recv"
     /\ \E i \in Inputs : ~sawFlush[i]
     /\ \A i \in Inputs : ~sawFlush[i] => iq[i] = <<>>
     /\ recvParked' = [i \in Inputs |-> recvParked[i] \/ ~sawFlush[i]]
     /\ UNCHANGED <<iq, sawFlush, refused, oq, armed, sendParked, fut, hand>>

FutureReturns == fut = "recv" /\ \A i \in Inputs : sawFlush[i]

\* Sender::ended: nothing unread, and the Flush was observed.
SegmentEnded == \A i \in Inputs : iq[i] = <<>> /\ sawFlush[i]

\* Ready: fresh input queues for the next segment, with nobody parked on them.
Renew ==
  /\ FutureReturns
  /\ SegmentEnded
  /\ iq' = [i \in Inputs |-> <<>>]
  /\ sawFlush' = [i \in Inputs |-> FALSE]
  /\ refused' = [i \in Inputs |-> FALSE]
  /\ recvParked' = [i \in Inputs |-> FALSE]
  /\ UNCHANGED <<oq, armed, sendParked, fut, hand>>

\* The I/O the future waits for is done; its waker wakes Work.
IoDone ==
  /\ fut = "io"
  /\ fut' = "send"
  /\ UNCHANGED <<iq, sawFlush, refused, recvParked, oq, armed, sendParked, hand>>
=============================================================================
