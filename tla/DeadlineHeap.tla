---------------------------- MODULE DeadlineHeap ----------------------------
(***************************************************************************)
(* poll::timer - the poll thread's timers: a min-heap of deadlines whose   *)
(* entries die lazily, a table of recycled cells with generations that     *)
(* tell a key's timer from the cell's later occupants, and the guards that *)
(* hold keys.  Single-threaded: one step is one call, except that expire   *)
(* is one step per timer it fires.                                         *)
(***************************************************************************)
EXTENDS Integers, Sequences, FiniteSets

CONSTANTS
  Nodes,       \* the nodes timers re-poll
  MaxTime,     \* BOUND: deadlines and clock readings are 0..MaxTime
  MaxTimers    \* BOUND: timers registered in a run

ASSUME DeadlineHeapAssumption == Nodes # {} /\ MaxTime \in Nat /\ MaxTimers \in Nat

Times  == 0 .. MaxTime
Timers == 1 .. MaxTimers      \* timers, numbered as they are registered
CellId == 1 .. MaxTimers

VARIABLES
  heap,        \* entries [deadline, cell, generation], dead ones included
  size,        \* cells allocated: cells 1..size exist
  generation,  \* per cell: bumped on every vacate
  occupant,    \* per cell: its timer, 0 when vacant
  free,        \* vacant cells, the last one is reused first
  clock,       \* Instant::now()
  expiring,    \* the clock reading of an expire under way, -1 outside
  registered,  \* history: timers registered
  node, due, key, guarded, fate,  \* history: per timer, its node, deadline,
               \* key, whether a TimerGuard holds the key, and what became of it
  peak         \* history: most timers live at once

vars == <<heap, size, generation, occupant, free, clock, expiring, registered,
          node, due, key, guarded, fate, peak>>

Fates == {"unborn", "live", "fired", "cancelled"}
Live == {t \in Timers : fate[t] = "live"}

Init ==
  /\ heap = {} /\ size = 0
  /\ generation = [c \in CellId |-> 0] /\ occupant = [c \in CellId |-> 0]
  /\ free = <<>>
  /\ clock = 0 /\ expiring = -1
  /\ registered = 0
  /\ node = [t \in Timers |-> CHOOSE n \in Nodes : TRUE]
  /\ due = [t \in Timers |-> 0]
  /\ key = [t \in Timers |-> [cell |-> 0, generation |-> 0]]
  /\ guarded = [t \in Timers |-> FALSE]
  /\ fate = [t \in Timers |-> "unborn"]
  /\ peak = 0

\* Mutant: any occupant of the cell answers to the key.
IsOccupied(c, g) == c \in 1 .. size /\ occupant[c] # 0

IsLive(c, g) == c \in 1 .. size /\ generation[c] = g /\ occupant[c] # 0

\* Mutant: the max-heap's own order, not reversed.
After(e, f) ==
  \/ e.deadline > f.deadline
  \/ /\ e.deadline = f.deadline
     /\ \/ e.cell > f.cell
        \/ e.cell = f.cell /\ e.generation > f.generation

\* The order of the heap: by deadline, ties by cell, then by generation.
Before(e, f) ==
  \/ e.deadline < f.deadline
  \/ /\ e.deadline = f.deadline
     /\ \/ e.cell < f.cell
        \/ e.cell = f.cell /\ e.generation < f.generation

Alive == {e \in heap : IsLive(e.cell, e.generation)}

\* The heap once peek or pop discarded the dead entries above the first live.
Pruned == {e \in heap : \E f \in Alive : f = e \/ Before(f, e)}

\* The live entry on top, when there is one.
Top == CHOOSE e \in Alive : \A f \in Alive : f = e \/ Before(e, f)

-----------------------------------------------------------------------------

\* The cell of a new timer: the one vacated last, else one more.
FreshCell == IF free = <<>> THEN size + 1 ELSE free[Len(free)]

\* DeadlineHeap::register, through Timer::schedule_at (which drops the key) or
\* Timer::arm (whose guard keeps it).
Register(n, d, guard) ==
  /\ expiring = -1 /\ registered < MaxTimers
  /\ LET t == registered + 1
         c == FreshCell
     IN
       /\ registered' = t
       /\ IF free = <<>> THEN size' = size + 1 /\ UNCHANGED free
          ELSE free' = SubSeq(free, 1, Len(free) - 1) /\ UNCHANGED size
       /\ occupant' = [occupant EXCEPT ![c] = t]
       /\ heap' = heap \cup
            {[deadline |-> d, cell |-> c, generation |-> generation[c]]}
       /\ key' = [key EXCEPT ![t] = [cell |-> c, generation |-> generation[c]]]
       /\ node' = [node EXCEPT ![t] = n] /\ due' = [due EXCEPT ![t] = d]
       /\ guarded' = [guarded EXCEPT ![t] = guard]
       /\ fate' = [fate EXCEPT ![t] = "live"]
       /\ peak' = IF Cardinality(Live) + 1 > peak THEN Cardinality(Live) + 1 ELSE peak
  /\ UNCHANGED <<generation, clock, expiring>>

\* Mutant: a vacated cell is not handed back.
VacateUnlisted(c, outcome) ==
  /\ fate' = [fate EXCEPT ![occupant[c]] = outcome]
  /\ occupant' = [occupant EXCEPT ![c] = 0]
  /\ generation' = [generation EXCEPT ![c] = @ + 1]
  /\ UNCHANGED free

\* take_live on a live key: vacate the cell, bump its generation, recycle it.
Vacate(c, outcome) ==
  /\ fate' = [fate EXCEPT ![occupant[c]] = outcome]
  /\ occupant' = [occupant EXCEPT ![c] = 0]
  /\ generation' = [generation EXCEPT ![c] = @ + 1]
  /\ free' = Append(free, c)

\* A guard drops, at any time after it was armed: cancel is a no-op on a key
\* whose timer is gone, whoever occupies its cell by then.
DropGuard(t) ==
  /\ expiring = -1 /\ guarded[t]
  /\ guarded' = [guarded EXCEPT ![t] = FALSE]
  /\ IF IsLive(key[t].cell, key[t].generation)
     THEN Vacate(key[t].cell, "cancelled")
     ELSE UNCHANGED <<fate, occupant, generation, free>>
  /\ UNCHANGED <<heap, size, clock, expiring, registered, node, due, key, peak>>

\* Timers::earliest: peek discards the dead entries on top.
Earliest ==
  /\ expiring = -1
  /\ heap' = Pruned
  /\ UNCHANGED <<size, generation, occupant, free, clock, expiring, registered,
                 node, due, key, guarded, fate, peak>>

\* Timers::expire: a peek, and a clock reading only if a timer is live.
ExpireStart ==
  /\ expiring = -1
  /\ heap' = Pruned
  /\ expiring' = IF Alive = {} THEN -1 ELSE clock
  /\ UNCHANGED <<size, generation, occupant, free, clock, registered, node, due,
                 key, guarded, fate, peak>>

\* pop(now) fires the top timer ...
ExpirePop ==
  /\ expiring # -1 /\ Alive # {} /\ Top.deadline <= expiring
  /\ heap' = Pruned \ {Top}
  /\ Vacate(Top.cell, "fired")
  /\ UNCHANGED <<size, clock, expiring, registered, node, due, key, guarded, peak>>

\* ... until no live entry is due.
ExpireEnd ==
  /\ expiring # -1
  /\ Alive # {} => Top.deadline > expiring
  /\ heap' = Pruned
  /\ expiring' = -1
  /\ UNCHANGED <<size, generation, occupant, free, clock, registered, node, due,
                 key, guarded, fate, peak>>

Tick ==
  /\ clock < MaxTime
  /\ clock' = clock + 1
  /\ UNCHANGED <<heap, size, generation, occupant, free, expiring, registered,
                 node, due, key, guarded, fate, peak>>

Next ==
  \/ \E n \in Nodes, d \in Times, guard \in BOOLEAN : Register(n, d, guard)
  \/ \E t \in Timers : DropGuard(t)
  \/ Earliest \/ ExpireStart \/ ExpirePop \/ ExpireEnd \/ Tick

Spec == Init /\ [][Next]_vars

-----------------------------------------------------------------------------
Entries == [deadline : Times, cell : 1 .. size, generation : Nat]

\* Types, and every index within the cell table: heap entries, free cells.
TypeOK ==
  /\ heap \subseteq Entries
  /\ size \in 0 .. MaxTimers
  /\ generation \in [CellId -> Nat] /\ occupant \in [CellId -> 0 .. MaxTimers]
  /\ free \in Seq(1 .. size)
  /\ clock \in Times /\ expiring \in Times \cup {-1}
  /\ registered \in 0 .. MaxTimers
  /\ node \in [Timers -> Nodes] /\ due \in [Timers -> Times]
  /\ key \in [Timers -> [cell : 0 .. MaxTimers, generation : Nat]]
  /\ guarded \in [Timers -> BOOLEAN] /\ fate \in [Timers -> Fates]
  /\ peak \in 0 .. MaxTimers

\* "Grows to the peak count of live timers and stays there": churn of timers
\* armed and dropped never grows the cell table.
CellsBoundedByPeak == size <= peak

\* Dropping a guard ends no timer but its own.
CancelEndsItsOwn ==
  [][\A t \in Timers : fate'[t] = "cancelled" /\ fate[t] # "cancelled" =>
       guarded[t] /\ ~guarded'[t]]_vars

\* Expiry is exact, although the heap mixes dead entries with live ones: a
\* timer fires at most once, not after its guard dropped, not before its
\* deadline nor before a live one that is due earlier; and expire leaves none
\* that was due when it read the clock.
ExpireIsExact ==
  [][/\ \A t \in Timers : fate'[t] = "fired" /\ fate[t] # "fired" =>
          /\ fate[t] = "live" /\ due[t] <= clock
          /\ \A u \in Live : due[t] <= due[u]
     /\ expiring # -1 /\ expiring' = -1 =>
          \A t \in Timers : fate'[t] = "live" => due[t] > expiring]_vars
=============================================================================
