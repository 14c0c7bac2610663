------------------------------ MODULE Channel ------------------------------
(***************************************************************************)
(* What edge::sync promises, without locks, condition variables or         *)
(* wakers: a bounded FIFO from producers that come and go to one consumer, *)
(* ended by the consumer shutting it or by the last producer leaving.      *)
(***************************************************************************)
EXTENDS Integers, Sequences, FiniteSets

CONSTANTS
  Handles,   \* the producers there can be
  Minted,    \* those present at the start
  Bound      \* messages the channel holds at most; 0 is unbounded

VARIABLES
  queue,     \* messages landed and not taken: <<producer, its serial number>>
  status,    \* "unborn", "open" or "released", per producer
  shut,      \* nothing lands any more
  sent,      \* messages landed, per producer
  got,       \* messages taken, per producer
  ended      \* the consumer was told the channel is over

vars == <<queue, status, shut, sent, got, ended>>

Open == {h \in Handles : status[h] = "open"}

Init ==
  /\ queue = <<>>
  /\ status = [h \in Handles |-> IF h \in Minted THEN "open" ELSE "unborn"]
  /\ shut = FALSE
  /\ sent = [h \in Handles |-> 0]
  /\ got = [h \in Handles |-> 0]
  /\ ended = FALSE

\* A new producer: minted by the consumer, which does not revive a channel it
\* was told is over, or cloned from one that is still a producer.
Join(h) ==
  /\ status[h] = "unborn"
  /\ ~ended \/ Open # {}
  /\ status' = [status EXCEPT ![h] = "open"]
  /\ UNCHANGED <<queue, shut, sent, got, ended>>

\* A producer is done, or is born done (the clone of one that is).
Leave(h) ==
  /\ status[h] # "released"
  /\ status' = [status EXCEPT ![h] = "released"]
  /\ UNCHANGED <<queue, shut, sent, got, ended>>

Put(h) ==
  /\ status[h] = "open" /\ ~shut
  /\ Bound # 0 => Len(queue) < Bound
  /\ queue' = Append(queue, <<h, sent[h] + 1>>)
  /\ sent' = [sent EXCEPT ![h] = @ + 1]
  /\ UNCHANGED <<status, shut, got, ended>>

\* The consumer takes the oldest n messages: one, or everything.
Take(n) ==
  /\ queue # <<>>
  /\ queue' = SubSeq(queue, n + 1, Len(queue))
  /\ got' = [h \in Handles |->
               got[h] + Cardinality({i \in 1..n : queue[i][1] = h})]
  /\ UNCHANGED <<status, shut, sent, ended>>

Shut ==
  /\ ~shut
  /\ shut' = TRUE
  /\ UNCHANGED <<queue, status, sent, got, ended>>

End ==
  /\ queue = <<>>
  /\ shut \/ Open = {}
  /\ ended' = TRUE
  /\ UNCHANGED <<queue, status, shut, sent, got>>

Next ==
  \/ \E h \in Handles : Join(h) \/ Leave(h) \/ Put(h)
  \/ \E n \in {1, Len(queue)} : Take(n)
  \/ Shut
  \/ End

Spec == Init /\ [][Next]_vars

=============================================================================
