-------------------------- MODULE SyncEdgeClients --------------------------
(***************************************************************************)
(* The edge with the callers the crate has: writers, which try and block   *)
(* when refused; work nodes, which try, try again in a later round and     *)
(* block only when told Stuck; poll nodes, which never block and retry the *)
(* message they hold whenever they are polled, by the edge's wake or       *)
(* another; and a consumer that reads until Closed.  Every producer sends  *)
(* as many messages as it may, or leaves early, and drops its handle.      *)
(***************************************************************************)
EXTENDS SyncEdge

CONSTANTS
  Writers,     \* the writers of applications
  Workers,     \* the work nodes; all other producers are poll nodes
  WriterSends  \* BOUND: messages a writer sends; the others send MaxSend

Tasks == Handles \ (Writers \cup Workers)

ASSUME ClientsAssumption ==
  /\ Writers \subseteq Handles /\ Workers \subseteq Handles
  /\ Writers \cap Workers = {}
  /\ Tasks \subseteq Wakers      \* each poll node binds the edge to its own waker
  /\ WriterSends \in 0 .. MaxSend
  /\ MaxBinds = 1

Quota(h) == IF h \in Writers THEN WriterSends ELSE MaxSend

Sending(h) == status[h] = "open" /\ sent[h] < Quota(h) /\ outcome[h] # "Closed"

\* Told Full or Stuck, h holds the message: Fanout's suspended, Single's held.
Refused(h) == outcome[h] \in {"Full", "Stuck"}

\* Refused within Writer::push, or Stuck within Fanout::resume: the same call
\* goes on to block in push_back.
WillBlock(h) ==
  \/ h \in Writers /\ Refused(h)
  \/ h \in Workers /\ outcome[h] = "Stuck"

ThreadPushes(h) ==
  /\ h \in Writers \cup Workers /\ Sending(h)
  /\ \/ ~WillBlock(h) /\ TryPushBack(h)
     \/ WillBlock(h) /\ PushBack(h)

\* Single and Fanout::retry, called by any poll of the node's Output: a signal
\* in the state or a spent budget wakes it as well as the edge does.
TaskPushes(h) == h \in Tasks /\ waker[h] = h /\ Sending(h) /\ TryPushBack(h)

\* A handle is dropped: at the end, by the close of a poll node with whatever
\* it holds, by a work thread that failed, or by the owner of a writer; only
\* not in the middle of a push.
Quits(h) == ~WillBlock(h) /\ Release(h)

\* What a producer does of itself.  A poll node that holds a message waits for
\* the edge's wake: nothing else is sure to have it polled.
Producer(h) ==
  \/ ThreadPushes(h)
  \/ h \in Tasks /\ Schedule(h, h)
  \/ (Refused(h) => h \in woken) /\ TaskPushes(h)
  \/ ~Sending(h) /\ Quits(h)
  \/ RecheckRoom(h) \/ NotifyConsumer(h) \/ LastSenderCloses(h)

Consumer ==
  \/ ~ended /\ \E k \in {"front", "all"} : BlockingRead(k)
  \/ NotifyProducers

Finished ==
  /\ \A h \in Minted : status[h] = "released" /\ pc[h] = "idle"
  /\ ended /\ rx = "idle"

ClientNext ==
  \/ \E h \in Minted : Producer(h) \/ TaskPushes(h) \/ Quits(h)
  \/ Consumer
  \/ \E t \in Threads : WakeOne(t)
  \/ ReceiverCloses
  \/ SpuriousWakeup
  \/ Finished /\ UNCHANGED vars

\* The operating system runs every thread that is not blocked.  Nothing is
\* asked of polls the edge did not wake, nor of those who leave early.
ClientFairness ==
  /\ \A h \in Minted : WF_vars(Producer(h)) /\ WF_vars(WakeOne(h))
  /\ WF_vars(Consumer) /\ WF_vars(WakeOne("rx"))

ClientSpec == Init /\ [][ClientNext]_vars /\ ClientFairness

\* Nobody waits for ever: whatever the races between pushes, pops, the last
\* drop and a close by the receiver, every producer gets through, leaves or is
\* told Closed, and the consumer is told Closed after the last message.
EveryoneFinishes == <>[]Finished

\* Where the wake of h is before it fired.
Listed(h) == \E i \in DOMAIN refused : refused[i].waker = h
OwedBy(h, t) == \E i \in DOMAIN owed[t] : owed[t][i].waker = h

\* "A refusal parks it, the message held, until the edge wakes it" (the poll
\* nodes' doc; Emit): a poll node that holds a refused message is woken, is
\* about to be by a thread that drained or closed the edge, or is on the list
\* of an edge that is still full and open, however many polls retried in
\* between, were told Stuck or used up the wake of an older refusal.
RefusedTaskIsWoken ==
  \A h \in Tasks : status[h] = "open" /\ Refused(h) =>
    \/ h \in woken
    \/ \E t \in Threads : OwedBy(h, t)
    \/ Listed(h) /\ IsFull /\ ~closed

=============================================================================
