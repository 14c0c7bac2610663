------------------------ MODULE DeadlineHeap_proofs ------------------------
(***************************************************************************)
(* Proofs about the timers of DeadlineHeap, for every number of timers and *)
(* every range of deadlines: the cell table never outgrows the most timers *)
(* that were live at once, a guard ends no timer but its own, and expiry   *)
(* is exact.                                                               *)
(***************************************************************************)
EXTENDS DeadlineHeap, Induction_proofs

\* The heap entry of a timer.
EntryOf(t) ==
  [deadline |-> due[t], cell |-> key[t].cell, generation |-> key[t].generation]

\* Timers are born in the order of their numbers, and only a born one has a guard.
BornInOrder ==
  /\ \A t \in Timers : fate[t] = "unborn" <=> t > registered
  /\ \A t \in Timers : guarded[t] => t <= registered

\* A live timer occupies the cell of its key, under the key's generation, and
\* its entry is in the heap.
LiveAreHoused ==
  \A t \in Live : /\ key[t].cell \in 1 .. size
                  /\ occupant[key[t].cell] = t
                  /\ generation[key[t].cell] = key[t].generation
                  /\ EntryOf(t) \in heap

\* Whatever occupies a cell is live and has the cell in its key.
OccupantsAreLive ==
  \A c \in CellId : occupant[c] # 0 =>
    c <= size /\ occupant[c] \in Live /\ key[occupant[c]].cell = c

\* The free list has every vacant cell, each once, and no other.
FreeIsVacant ==
  /\ \A i \in 1 .. Len(free) : occupant[free[i]] = 0
  /\ \A i, j \in 1 .. Len(free) : free[i] = free[j] => i = j
  /\ \A c \in 1 .. size : occupant[c] = 0 => \E i \in 1 .. Len(free) : free[i] = c

\* A dead entry is older than its cell: no later occupant revives it.
EntriesAge ==
  \A e \in heap :
    /\ e.generation <= generation[e.cell]
    /\ occupant[e.cell] = 0 => e.generation < generation[e.cell]
    /\ IsLive(e.cell, e.generation) => e = EntryOf(occupant[e.cell])

\* So is the key of a timer that is gone.
KeysAge ==
  \A t \in Timers : fate[t] \in {"fired", "cancelled"} =>
    key[t].cell \in 1 .. size /\ key[t].generation < generation[key[t].cell]

IInv == /\ TypeOK /\ BornInOrder /\ LiveAreHoused /\ OccupantsAreLive
        /\ FreeIsVacant /\ EntriesAge /\ KeysAge
        /\ CellsBoundedByPeak
        /\ expiring <= clock

-----------------------------------------------------------------------------
(* The heap's order.                                                        *)

LEMMA EntryTyped ==
  ASSUME TypeOK, NEW e \in heap
  PROVE  /\ e.deadline \in Times /\ e.deadline \in Nat
         /\ e.cell \in 1 .. size /\ e.cell \in CellId /\ e.cell \in Nat
         /\ e.generation \in Nat
         /\ e = [deadline |-> e.deadline, cell |-> e.cell, generation |-> e.generation]
<1>1. e \in Entries
  BY DEF TypeOK
<1>2. size \in 0 .. MaxTimers
  BY DEF TypeOK
<1> QED
  BY <1>1, <1>2, DeadlineHeapAssumption DEF Entries, Times, CellId

\* When a live entry is in the heap, the first one is.
LEMMA TopIsFirst ==
  ASSUME TypeOK, Alive # {}
  PROVE  Top \in Alive /\ \A f \in Alive : f = Top \/ Before(Top, f)
<1>1. Alive \subseteq heap
  BY DEF Alive
<1> DEFINE Deadlines == {e.deadline : e \in Alive}
<1>2. PICK d \in Deadlines : \A x \in Deadlines : d <= x
  <2>1. Deadlines \subseteq Nat /\ Deadlines # {}
    BY <1>1, EntryTyped
  <2> HIDE DEF Deadlines
  <2> QED BY <2>1, LeastExists
<1> DEFINE Cells == {e.cell : e \in {f \in Alive : f.deadline = d}}
<1>3. PICK c \in Cells : \A x \in Cells : c <= x
  <2>1. Cells \subseteq Nat /\ Cells # {}
    BY <1>1, EntryTyped
  <2> HIDE DEF Cells
  <2> QED BY <2>1, LeastExists
<1> DEFINE Generations == {e.generation : e \in {f \in Alive : f.deadline = d /\ f.cell = c}}
<1>4. PICK g \in Generations : \A x \in Generations : g <= x
  <2>1. Generations \subseteq Nat /\ Generations # {}
    BY <1>1, EntryTyped
  <2> HIDE DEF Generations
  <2> QED BY <2>1, LeastExists
<1>5. PICK e \in Alive : e.deadline = d /\ e.cell = c /\ e.generation = g
  BY <1>4
<1>6. ASSUME NEW f \in Alive PROVE f = e \/ Before(e, f)
  <2>1. e \in heap /\ f \in heap
    BY <1>1
  <2>2. d <= f.deadline
    BY <1>2
  <2>3. f.deadline = d => c <= f.cell
    BY <1>3
  <2>4. f.deadline = d /\ f.cell = c => g <= f.generation
    BY <1>4
  <2>5. f = e \/ e.deadline # f.deadline \/ e.cell # f.cell \/ e.generation # f.generation
    BY <2>1, EntryTyped
  <2> QED BY <1>5, <2>1, <2>2, <2>3, <2>4, <2>5, EntryTyped DEF Before
<1> QED
  BY <1>6 DEF Top

\* Discarding the dead entries above the first live one discards no live one.
LEMMA PrunedKeepsAlive ==
  Pruned \subseteq heap /\ Alive \subseteq Pruned
BY DEF Pruned, Alive

\* The entry of a live timer is a live one.
LEMMA LiveEntries ==
  ASSUME IInv, NEW t \in Live
  PROVE  EntryOf(t) \in Alive /\ key[t].cell \in 1 .. size
<1>1. t \in Timers /\ t # 0
  BY DEF Live, Timers
<1>2. /\ key[t].cell \in 1 .. size /\ occupant[key[t].cell] = t
      /\ generation[key[t].cell] = key[t].generation /\ EntryOf(t) \in heap
  BY DEF IInv, LiveAreHoused
<1>3. EntryOf(t).cell = key[t].cell /\ EntryOf(t).generation = key[t].generation
  BY DEF EntryOf
<1> DEFINE e == EntryOf(t)
<1>4. e \in heap /\ IsLive(e.cell, e.generation)
  BY <1>1, <1>2, <1>3 DEF IsLive
<1> HIDE DEF e
<1>5. e \in Alive
  BY <1>4 DEF Alive
<1> QED
  BY <1>2, <1>5 DEF e

\* A live entry is that of the timer in its cell.
LEMMA AliveIsHoused ==
  ASSUME IInv, NEW e \in Alive
  PROVE  /\ e.cell \in 1 .. size /\ e.cell \in CellId
         /\ occupant[e.cell] \in Live /\ occupant[e.cell] # 0
         /\ e = EntryOf(occupant[e.cell])
<1>1. e \in heap /\ IsLive(e.cell, e.generation)
  BY DEF Alive
<1>2. e.cell \in 1 .. size /\ e.cell \in CellId
  BY <1>1, EntryTyped DEF IInv
<1> QED
  BY <1>1, <1>2 DEF IInv, OccupantsAreLive, EntriesAge, IsLive

\* The indices a state's cells and timers have.
LEMMA Indices ==
  ASSUME TypeOK
  PROVE  /\ MaxTimers \in Nat /\ MaxTime \in Nat
         /\ size \in Nat /\ size <= MaxTimers
         /\ 1 .. size \subseteq CellId
         /\ Live \subseteq Timers
         /\ 0 \notin Timers /\ Timers = CellId
         /\ Len(free) \in Nat /\ \A i \in 1 .. Len(free) : free[i] \in 1 .. size
<1>1. MaxTimers \in Nat /\ MaxTime \in Nat /\ size \in 0 .. MaxTimers /\ free \in Seq(1 .. size)
  BY DeadlineHeapAssumption DEF TypeOK
<1>2. Len(free) \in Nat /\ \A i \in 1 .. Len(free) : free[i] \in 1 .. size
  BY <1>1
<1>3. Live \subseteq Timers
  BY DEF Live
<1> QED
  BY <1>1, <1>2, <1>3 DEF CellId, Timers
-----------------------------------------------------------------------------
(* Every step preserves the invariant.                                      *)

LEMMA InitInv == Init => IInv
<1> SUFFICES ASSUME Init PROVE IInv
  OBVIOUS
<1>1. MaxTimers \in Nat /\ MaxTime \in Nat /\ Nodes # {} /\ 0 \notin Timers
  BY DeadlineHeapAssumption DEF Timers
<1>2. TypeOK
  <2>1. free \in Seq(1 .. size)
    BY DEF Init
  <2>2. node \in [Timers -> Nodes]
    BY <1>1 DEF Init
  <2>3. key \in [Timers -> [cell : 0 .. MaxTimers, generation : Nat]]
    BY <1>1 DEF Init
  <2>4. heap \subseteq Entries
    BY DEF Init
  <2> QED BY <1>1, <2>1, <2>2, <2>3, <2>4 DEF Init, TypeOK, CellId, Timers, Times, Fates
<1>3. Live = {}
  BY DEF Init, Live
<1>4. BornInOrder
  BY <1>1 DEF Init, BornInOrder, Timers
<1>5. LiveAreHoused
  BY <1>3 DEF LiveAreHoused
<1>6. OccupantsAreLive
  BY DEF Init, OccupantsAreLive
<1>7. FreeIsVacant
  BY DEF Init, FreeIsVacant
<1>8. EntriesAge
  BY DEF Init, EntriesAge
<1>9. KeysAge
  BY DEF Init, KeysAge
<1> QED
  BY <1>2, <1>4, <1>5, <1>6, <1>7, <1>8, <1>9 DEF Init, IInv, CellsBoundedByPeak

\* Steps that leave the timers and the cell table alone may only discard dead
\* entries and move the clock.
LEMMA PruneInv ==
  ASSUME IInv, heap' \subseteq heap, Alive \subseteq heap',
         clock' \in Times, expiring' \in Times \cup {-1}, expiring' <= clock',
         UNCHANGED <<size, generation, occupant, free, registered, node, due,
                     key, guarded, fate, peak>>
  PROVE  IInv'
<1>1. TypeOK'
  <2>1. heap' \subseteq Entries'
    BY DEF IInv, TypeOK, Entries
  <2> QED BY <2>1 DEF IInv, TypeOK
<1>2. Live' = Live /\ \A t \in Timers : EntryOf(t)' = EntryOf(t)
  BY DEF Live, EntryOf
<1>3. BornInOrder'
  BY DEF IInv, BornInOrder
<1>4. LiveAreHoused'
  <2>1. ASSUME NEW t \in Live PROVE EntryOf(t) \in heap'
    BY <2>1, LiveEntries
  <2>2. \A t \in Live : EntryOf(t)' = EntryOf(t)
    BY <1>2 DEF Live
  <2> QED BY <1>2, <2>1, <2>2 DEF IInv, LiveAreHoused
<1>5. OccupantsAreLive'
  BY <1>2 DEF IInv, OccupantsAreLive
<1>6. FreeIsVacant'
  BY DEF IInv, FreeIsVacant
<1>7. EntriesAge'
  BY DEF IInv, EntriesAge, IsLive, EntryOf
<1>8. KeysAge'
  BY DEF IInv, KeysAge
<1> QED
  BY <1>1, <1>3, <1>4, <1>5, <1>6, <1>7, <1>8 DEF IInv, CellsBoundedByPeak

\* A timer leaves its cell, cancelled or fired.
LEMMA VacateInv ==
  ASSUME IInv, NEW c \in 1 .. size, occupant[c] # 0,
         NEW outcome \in {"fired", "cancelled"}, Vacate(c, outcome),
         heap' \subseteq heap,
         \A u \in Live : u # occupant[c] => EntryOf(u) \in heap',
         guarded' \in [Timers -> BOOLEAN], \A t \in Timers : guarded'[t] => guarded[t],
         UNCHANGED <<size, clock, expiring, registered, node, due, key, peak>>
  PROVE  IInv'
<1> USE Indices DEF IInv
<1> DEFINE o == occupant[c]
           l == Len(free)
<1>1. /\ c \in CellId /\ o \in Live /\ o \in Timers /\ key[o].cell = c
      /\ fate[o] = "live"
  BY DEF OccupantsAreLive, Live
<1>2. /\ fate' = [fate EXCEPT ![o] = outcome]
      /\ occupant' = [occupant EXCEPT ![c] = 0]
      /\ generation' = [generation EXCEPT ![c] = @ + 1]
      /\ free' = Append(free, c)
  BY DEF Vacate
<1>3. /\ fate \in [Timers -> Fates] /\ occupant \in [CellId -> 0 .. MaxTimers]
      /\ generation \in [CellId -> Nat] /\ free \in Seq(1 .. size)
  BY DEF TypeOK
<1>4. /\ fate'[o] = outcome /\ \A t \in Timers : t # o => fate'[t] = fate[t]
      /\ occupant'[c] = 0 /\ \A x \in CellId : x # c => occupant'[x] = occupant[x]
      /\ generation'[c] = generation[c] + 1 /\ generation[c] \in Nat
      /\ \A x \in CellId : x # c => generation'[x] = generation[x]
      /\ \A x \in CellId : generation'[x] \in Nat /\ generation[x] \in Nat
                           /\ generation[x] <= generation'[x]
  BY <1>1, <1>2, <1>3
<1>5. /\ Len(free') = l + 1 /\ free'[l + 1] = c /\ l \in Nat
      /\ \A i \in 1 .. l : free'[i] = free[i]
  BY <1>2, <1>3
<1> HIDE DEF o, l
<1>6. Live' = Live \ {o}
  BY <1>1, <1>4 DEF Live
<1>7. TypeOK'
  <2>1. heap' \subseteq Entries'
    BY DEF TypeOK, Entries
  <2>2. free' \in Seq((1 .. size)')
    BY <1>2, <1>3
  <2>3. generation' \in [CellId -> Nat] /\ occupant' \in [CellId -> 0 .. MaxTimers]
    BY <1>1, <1>2, <1>3, <1>4
  <2>4. fate' \in [Timers -> Fates]
    BY <1>1, <1>2, <1>3 DEF Fates
  <2> QED BY <2>1, <2>2, <2>3, <2>4 DEF TypeOK
<1>8. BornInOrder'
  <2>1. (fate[o] = "unborn") = (fate'[o] = "unborn")
    BY <1>1, <1>4
  <2> QED BY <1>1, <1>4, <2>1 DEF BornInOrder
<1>9. LiveAreHoused'
  <2> SUFFICES ASSUME NEW t \in Live'
               PROVE  /\ key[t].cell \in 1 .. size /\ occupant'[key[t].cell] = t
                      /\ generation'[key[t].cell] = key[t].generation
                      /\ EntryOf(t)' \in heap'
    BY DEF LiveAreHoused
  <2>1. t \in Live /\ t # o
    BY <1>6
  <2>2. /\ key[t].cell \in 1 .. size /\ occupant[key[t].cell] = t
        /\ generation[key[t].cell] = key[t].generation
    BY <2>1 DEF LiveAreHoused
  <2>3. key[t].cell # c /\ key[t].cell \in CellId
    BY <2>1, <2>2 DEF o
  <2>4. EntryOf(t)' = EntryOf(t)
    BY DEF EntryOf
  <2>5. EntryOf(t) \in heap'
    BY <2>1 DEF o
  <2> QED BY <1>4, <2>2, <2>3, <2>4, <2>5
<1>10. OccupantsAreLive'
  <2> SUFFICES ASSUME NEW x \in CellId, occupant'[x] # 0
               PROVE  x <= size /\ occupant'[x] \in Live' /\ key[occupant'[x]].cell = x
    BY DEF OccupantsAreLive
  <2>1. x # c /\ occupant'[x] = occupant[x]
    BY <1>4
  <2>2. x <= size /\ occupant[x] \in Live /\ key[occupant[x]].cell = x
    BY <2>1 DEF OccupantsAreLive
  <2>3. occupant[x] # o
    BY <1>1, <2>1, <2>2
  <2> QED BY <1>6, <2>1, <2>2, <2>3
<1>11. FreeIsVacant'
  <2>1. \A i \in 1 .. l : free[i] # c /\ free[i] \in CellId
    BY DEF FreeIsVacant, l
  <2>2. \A i \in 1 .. l + 1 : occupant'[free'[i]] = 0
    BY <1>4, <1>5, <2>1 DEF FreeIsVacant, l
  <2>3. ASSUME NEW i \in 1 .. l + 1, NEW j \in 1 .. l + 1, free'[i] = free'[j]
        PROVE  i = j
    <3>1. CASE i \in 1 .. l /\ j \in 1 .. l
      BY <1>5, <2>3, <3>1 DEF FreeIsVacant, l
    <3> QED BY <1>5, <2>1, <2>3, <3>1
  <2>4. ASSUME NEW x \in 1 .. size, occupant'[x] = 0
        PROVE  \E i \in 1 .. l + 1 : free'[i] = x
    <3>1. CASE x = c
      BY <1>5, <3>1
    <3>2. CASE x # c
      <4>1. PICK i \in 1 .. l : free[i] = x
        BY <1>4, <2>4, <3>2 DEF FreeIsVacant, l
      <4> QED BY <1>5, <4>1
    <3> QED BY <3>1, <3>2
  <2> QED BY <1>5, <2>2, <2>3, <2>4 DEF FreeIsVacant
<1>12. EntriesAge'
  <2> SUFFICES ASSUME NEW e \in heap'
               PROVE  /\ e.generation <= generation'[e.cell]
                      /\ occupant'[e.cell] = 0 => e.generation < generation'[e.cell]
                      /\ IsLive(e.cell, e.generation)' => e = EntryOf(occupant[e.cell])'
    BY DEF EntriesAge
  <2>1. e \in heap /\ e.cell \in CellId /\ e.generation \in Nat
    BY EntryTyped
  <2>2. /\ e.generation <= generation[e.cell]
        /\ occupant[e.cell] = 0 => e.generation < generation[e.cell]
        /\ IsLive(e.cell, e.generation) => e = EntryOf(occupant[e.cell])
    BY <2>1 DEF EntriesAge
  <2>3. CASE e.cell = c
    <3>1. ~ IsLive(e.cell, e.generation)'
      BY <1>4, <2>3 DEF IsLive
    <3>2. e.generation < generation'[e.cell]
      BY <1>4, <2>1, <2>2, <2>3
    <3> QED BY <3>1, <3>2, <1>4, <2>1
  <2>4. CASE e.cell # c
    <3>1. /\ generation'[e.cell] = generation[e.cell]
          /\ occupant'[e.cell] = occupant[e.cell]
      BY <1>4, <2>1, <2>4
    <3>2. IsLive(e.cell, e.generation)' = IsLive(e.cell, e.generation)
      BY <3>1 DEF IsLive
    <3>3. EntryOf(occupant[e.cell])' = EntryOf(occupant[e.cell])
      BY <3>1 DEF EntryOf
    <3> QED BY <2>2, <3>1, <3>2, <3>3
  <2> QED BY <2>3, <2>4
<1>13. KeysAge'
  <2> SUFFICES ASSUME NEW t \in Timers, fate'[t] \in {"fired", "cancelled"}
               PROVE  key[t].cell \in 1 .. size
                      /\ key[t].generation < generation'[key[t].cell]
    BY DEF KeysAge
  <2>1. CASE t = o
    <3>1. generation[c] = key[o].generation
      BY <1>1 DEF LiveAreHoused
    <3> QED BY <1>1, <1>4, <2>1, <3>1
  <2>2. CASE t # o
    <3>1. /\ key[t].cell \in 1 .. size /\ key[t].cell \in CellId
          /\ key[t].generation < generation[key[t].cell]
      BY <1>4, <2>2 DEF KeysAge
    <3>2. key[t].generation \in Nat
      BY DEF TypeOK
    <3> QED BY <1>4, <3>1, <3>2
  <2> QED BY <2>1, <2>2
<1> QED
  BY <1>7, <1>8, <1>9, <1>10, <1>11, <1>12, <1>13 DEF CellsBoundedByPeak

\* The live timers are counted; when no cell is vacant they are as many as the
\* cells.
LEMMA LiveAreCounted ==
  ASSUME IInv
  PROVE  /\ IsFiniteSet(Live) /\ Cardinality(Live) \in Nat
         /\ Cardinality(Live) <= registered
         /\ free = <<>> => size <= Cardinality(Live)
<1> USE Indices DEF IInv
<1>1. Live \in SUBSET (1 .. registered) /\ registered \in Nat
  <2>1. registered \in Nat
    BY DEF TypeOK
  <2>2. ASSUME NEW t \in Live PROVE t \in 1 .. registered
    BY <2>1 DEF Live, Timers, BornInOrder
  <2> QED BY <2>1, <2>2
<1>2. IsFiniteSet(1 .. registered) /\ Cardinality(1 .. registered) = registered
  <2>1. registered \in Int /\ 1 \in Int /\ registered >= 0
    BY <1>1
  <2>2. /\ IsFiniteSet(1 .. registered)
        /\ Cardinality(1 .. registered) = IF 1 > registered THEN 0 ELSE registered - 1 + 1
    BY ONLY <2>1, FS_Interval
  <2> QED BY <2>1, <2>2
<1>3. IsFiniteSet(Live) /\ Cardinality(Live) \in Nat /\ Cardinality(Live) <= registered
  BY ONLY <1>1, <1>2, FS_Subset, FS_CardinalityType
<1>4. ASSUME free = <<>> PROVE size <= Cardinality(Live)
  <2> DEFINE f == [c \in 1 .. size |-> occupant[c]]
  <2>1. ASSUME NEW c \in 1 .. size PROVE occupant[c] \in Live /\ key[occupant[c]].cell = c
    <3>1. occupant[c] # 0
      BY <1>4 DEF FreeIsVacant
    <3> QED BY <3>1 DEF OccupantsAreLive
  <2>2. f \in Injection(1 .. size, Live)
    <3>1. f \in [1 .. size -> Live]
      BY <2>1
    <3>2. \A a, b \in 1 .. size : f[a] = f[b] => a = b
      BY <2>1
    <3> QED BY <3>1, <3>2 DEF Injection, IsInjective
  <2>3. Cardinality(1 .. size) = size
    BY FS_Interval
  <2> HIDE DEF f
  <2>4. Cardinality(1 .. size) <= Cardinality(Live)
    BY <1>3, <2>2, FS_Injection
  <2> QED BY <2>3, <2>4
<1> QED
  BY <1>3, <1>4

\* A new timer gets a vacant cell, and there is room for one.
LEMMA FreshCellIsVacant ==
  ASSUME IInv, registered < MaxTimers
  PROVE  /\ FreshCell \in CellId /\ occupant[FreshCell] = 0
         /\ free = <<>> => FreshCell = size + 1 /\ size < MaxTimers
         /\ free # <<>> => /\ Len(free) \in Nat \ {0} /\ FreshCell = free[Len(free)]
                           /\ FreshCell \in 1 .. size
<1> USE Indices DEF IInv
<1>1. CASE free = <<>>
  <2>1. registered \in Nat
    BY DEF TypeOK
  <2>2. size < MaxTimers
    BY <1>1, <2>1, LiveAreCounted
  <2>3. FreshCell = size + 1
    BY <1>1 DEF FreshCell
  <2>4. size + 1 \in CellId
    BY <2>2 DEF CellId
  <2>5. ~ size + 1 <= size
    OBVIOUS
  <2> QED BY <1>1, <2>2, <2>3, <2>4, <2>5 DEF OccupantsAreLive
<1>2. CASE free # <<>>
  <2>1. free \in Seq(1 .. size)
    BY DEF TypeOK
  <2>2. Len(free) \in Nat \ {0}
    BY <1>2, <2>1
  <2>3. Len(free) \in 1 .. Len(free)
    BY <2>2
  <2> QED BY <1>2, <2>2, <2>3 DEF FreshCell, FreeIsVacant
<1> QED
  BY <1>1, <1>2

\* A sequence without its last element.
LEMMA FrontOf ==
  ASSUME NEW S, NEW q \in Seq(S), Len(q) \in Nat \ {0}
  PROVE  LET p == SubSeq(q, 1, Len(q) - 1)
         IN  p \in Seq(S) /\ Len(p) = Len(q) - 1 /\ \A i \in 1 .. Len(q) - 1 : p[i] = q[i]
<1> DEFINE n == Len(q) - 1
           p == SubSeq(q, 1, n)
<1>1. n \in Nat /\ n <= Len(q)
  OBVIOUS
<1>2. Len(p) = n /\ \A i \in 1 .. n : p[i] = q[i]
  <2> HIDE DEF n
  <2> QED BY <1>1
<1>3. \A i \in 1 .. n : q[i] \in S
  BY <1>1
<1>4. p \in Seq(S)
  <2> HIDE DEF n
  <2> QED BY <1>1, <1>3
<1> QED
  BY <1>2, <1>4

\* A timer is registered.
LEMMA RegisterInv ==
  ASSUME IInv, NEW n \in Nodes, NEW d \in Times, NEW guard \in BOOLEAN,
         Register(n, d, guard)
  PROVE  IInv'
<1> USE Indices DEF IInv
<1>0. PICK t : t = registered + 1
  OBVIOUS
<1> DEFINE c == FreshCell
           l == Len(free)
           k == [cell |-> c, generation |-> generation[c]]
           e == [deadline |-> d, cell |-> c, generation |-> generation[c]]
<1>1. /\ expiring = -1 /\ registered < MaxTimers
      /\ registered' = t
      /\ IF free = <<>> THEN size' = size + 1 /\ UNCHANGED free
         ELSE free' = SubSeq(free, 1, l - 1) /\ UNCHANGED size
      /\ occupant' = [occupant EXCEPT ![c] = t]
      /\ heap' = heap \cup {e}
      /\ key' = [key EXCEPT ![t] = k]
      /\ node' = [node EXCEPT ![t] = n] /\ due' = [due EXCEPT ![t] = d]
      /\ guarded' = [guarded EXCEPT ![t] = guard]
      /\ fate' = [fate EXCEPT ![t] = "live"]
      /\ peak' = IF Cardinality(Live) + 1 > peak THEN Cardinality(Live) + 1 ELSE peak
      /\ UNCHANGED <<generation, clock, expiring>>
  BY <1>0 DEF Register
<1>2. /\ c \in CellId /\ occupant[c] = 0
      /\ free = <<>> => c = size + 1 /\ size < MaxTimers
      /\ free # <<>> => l \in Nat \ {0} /\ c = free[l] /\ c \in 1 .. size
  BY <1>1, FreshCellIsVacant
<1>3. /\ heap \subseteq Entries
      /\ generation \in [CellId -> Nat] /\ occupant \in [CellId -> 0 .. MaxTimers]
      /\ free \in Seq(1 .. size)
      /\ registered \in 0 .. MaxTimers
      /\ node \in [Timers -> Nodes] /\ due \in [Timers -> Times]
      /\ key \in [Timers -> [cell : 0 .. MaxTimers, generation : Nat]]
      /\ guarded \in [Timers -> BOOLEAN] /\ fate \in [Timers -> Fates]
      /\ peak \in 0 .. MaxTimers
  BY DEF TypeOK
<1>4. t \in Timers /\ t # 0 /\ t > registered /\ t \in 0 .. MaxTimers
  BY <1>0, <1>1, <1>3 DEF Timers
<1>5. /\ size' \in 0 .. MaxTimers /\ size <= size' /\ c \in 1 .. size'
      /\ \A x \in 1 .. size' : x = c \/ x \in 1 .. size
  BY <1>1, <1>2
<1>6. k.cell = c /\ k.generation = generation[c] /\ e.cell = c
      /\ e.generation = generation[c] /\ generation[c] \in Nat
  BY <1>2, <1>3
<1> HIDE DEF c, l, k, e
<1>7. /\ fate'[t] = "live" /\ key'[t] = k /\ due'[t] = d /\ occupant'[c] = t
      /\ guarded'[t] = guard /\ fate[t] = "unborn"
      /\ \A u \in Timers : u # t => /\ fate'[u] = fate[u] /\ key'[u] = key[u]
                                    /\ due'[u] = due[u] /\ guarded'[u] = guarded[u]
      /\ \A x \in CellId : x # c => occupant'[x] = occupant[x]
  BY <1>1, <1>2, <1>3, <1>4 DEF BornInOrder
<1>8. Live' = Live \cup {t} /\ t \notin Live
  BY <1>4, <1>7 DEF Live
<1>9. EntryOf(t)' = e
  BY <1>6, <1>7 DEF EntryOf, e
<1>10. \A u \in Timers : u # t => EntryOf(u)' = EntryOf(u)
  BY <1>7 DEF EntryOf
<1>11. TypeOK'
  <2>1. heap' \subseteq Entries'
    <3>1. Entries \subseteq Entries'
      BY <1>5 DEF Entries
    <3>2. e \in Entries'
      BY <1>5, <1>6 DEF Entries, e
    <3> QED BY <1>1, <1>3, <3>1, <3>2
  <2>2. free' \in Seq((1 .. size)')
    <3>1. CASE free = <<>>
      BY <1>1, <3>1
    <3>2. CASE free # <<>>
      <4>1. SubSeq(free, 1, l - 1) \in Seq(1 .. size)
        BY ONLY <1>2, <1>3, <3>2, FrontOf DEF l
      <4> QED BY <1>1, <3>2, <4>1
    <3> QED BY <3>1, <3>2
  <2>3. occupant' \in [CellId -> 0 .. MaxTimers]
    BY <1>1, <1>3, <1>4
  <2>4. key' \in [Timers -> [cell : 0 .. MaxTimers, generation : Nat]]
    <3>1. k \in [cell : 0 .. MaxTimers, generation : Nat]
      BY <1>2, <1>6 DEF k, CellId
    <3> QED BY <1>1, <1>3, <3>1
  <2>5. peak' \in 0 .. MaxTimers
    BY <1>1, <1>3, LiveAreCounted
  <2>6. /\ node' \in [Timers -> Nodes] /\ due' \in [Timers -> Times]
        /\ guarded' \in [Timers -> BOOLEAN] /\ fate' \in [Timers -> Fates]
    BY <1>1, <1>3 DEF Fates
  <2>7. clock' \in Times /\ expiring' \in Times \cup {-1} /\ generation' \in [CellId -> Nat]
    BY <1>1 DEF TypeOK
  <2>8. registered' \in 0 .. MaxTimers
    BY <1>1, <1>4
  <2> QED BY <1>5, <2>1, <2>2, <2>3, <2>4, <2>5, <2>6, <2>7, <2>8 DEF TypeOK
<1>12. BornInOrder'
  <2>1. ASSUME NEW u \in Timers, u # t
        PROVE  (fate'[u] = "unborn" <=> u > t) /\ (guarded'[u] => u <= t)
    <3>1. (u > registered) <=> (u > t)
      BY <1>0, <1>3, <2>1 DEF Timers
    <3>2. u <= registered => u <= t
      BY <1>0, <1>3 DEF Timers
    <3> QED BY <1>7, <2>1, <3>1, <3>2 DEF BornInOrder
  <2>2. (fate'[t] = "unborn" <=> t > t) /\ (guarded'[t] => t <= t)
    BY <1>4, <1>7
  <2> QED BY <1>1, <2>1, <2>2 DEF BornInOrder
<1>13. LiveAreHoused'
  <2> SUFFICES ASSUME NEW u \in Live'
               PROVE  /\ key'[u].cell \in 1 .. size' /\ occupant'[key'[u].cell] = u
                      /\ generation'[key'[u].cell] = key'[u].generation
                      /\ EntryOf(u)' \in heap'
    BY DEF LiveAreHoused
  <2>1. CASE u = t
    BY <1>1, <1>5, <1>6, <1>7, <1>9, <2>1
  <2>2. CASE u # t
    <3>1. u \in Live /\ u \in Timers /\ u # 0
      BY <1>8, <2>2
    <3>2. /\ key[u].cell \in 1 .. size /\ occupant[key[u].cell] = u
          /\ generation[key[u].cell] = key[u].generation /\ EntryOf(u) \in heap
      BY <3>1 DEF LiveAreHoused
    <3>3. key[u].cell # c /\ key[u].cell \in CellId
      BY <1>2, <3>1, <3>2
    <3> QED BY <1>1, <1>5, <1>7, <1>10, <2>2, <3>1, <3>2, <3>3
  <2> QED BY <2>1, <2>2
<1>14. OccupantsAreLive'
  <2> SUFFICES ASSUME NEW x \in CellId, occupant'[x] # 0
               PROVE  x <= size' /\ occupant'[x] \in Live' /\ key'[occupant'[x]].cell = x
    BY DEF OccupantsAreLive
  <2>1. CASE x = c
    BY <1>5, <1>6, <1>7, <1>8, <2>1
  <2>2. CASE x # c
    <3>1. x <= size /\ occupant[x] \in Live /\ key[occupant[x]].cell = x
      BY <1>7, <2>2 DEF OccupantsAreLive
    <3>2. occupant[x] # t /\ occupant[x] \in Timers /\ x \in Nat
      BY <1>8, <3>1 DEF CellId
    <3> QED BY <1>5, <1>7, <1>8, <2>2, <3>1, <3>2
  <2> QED BY <2>1, <2>2
<1>15. FreeIsVacant'
  <2>1. CASE free = <<>>
    <3>1. free' = <<>> /\ 1 .. Len(free') = {}
      BY <1>1, <2>1
    <3>2. ASSUME NEW x \in 1 .. size', occupant'[x] = 0 PROVE FALSE
      <4>1. x # c /\ x \in 1 .. size /\ x \in CellId
        BY <1>4, <1>5, <1>7, <3>2
      <4> QED BY <1>7, <2>1, <3>2, <4>1 DEF FreeIsVacant
    <3> QED BY <3>1, <3>2 DEF FreeIsVacant
  <2>2. CASE free # <<>>
    <3>1. /\ l \in Nat \ {0} /\ c = free[l] /\ size' = size
          /\ free' = SubSeq(free, 1, l - 1)
      BY <1>1, <1>2, <2>2
    <3>2. Len(free') = l - 1 /\ \A i \in 1 .. l - 1 : free'[i] = free[i]
      BY ONLY <1>3, <3>1, FrontOf DEF l
    <3>3. \A i \in 1 .. l - 1 : i \in 1 .. l /\ i # l /\ free[i] \in CellId /\ free[i] # c
      BY <3>1 DEF FreeIsVacant, l
    <3>4. \A i \in 1 .. l - 1 : occupant'[free'[i]] = 0
      <4>1. \A i \in 1 .. l - 1 : occupant'[free[i]] = occupant[free[i]]
        BY <1>7, <3>3
      <4> QED BY <3>2, <3>3, <4>1 DEF FreeIsVacant, l
    <3>5. \A i, j \in 1 .. l - 1 : free'[i] = free'[j] => i = j
      BY <3>2, <3>3 DEF FreeIsVacant, l
    <3>6. ASSUME NEW x \in 1 .. size, occupant'[x] = 0
          PROVE  \E i \in 1 .. l - 1 : free'[i] = x
      <4>1. x # c /\ occupant[x] = 0
        BY <1>4, <1>7, <3>6
      <4>2. PICK i \in 1 .. l : free[i] = x
        BY <4>1 DEF FreeIsVacant, l
      <4>3. i \in 1 .. l - 1
        BY <3>1, <4>1, <4>2
      <4> QED BY <3>2, <4>2, <4>3
    <3> QED BY <3>1, <3>2, <3>4, <3>5, <3>6 DEF FreeIsVacant
  <2> QED BY <2>1, <2>2
<1>16. EntriesAge'
  <2> SUFFICES ASSUME NEW f \in heap'
               PROVE  /\ f.generation <= generation'[f.cell]
                      /\ occupant'[f.cell] = 0 => f.generation < generation'[f.cell]
                      /\ IsLive(f.cell, f.generation)' => f = EntryOf(occupant[f.cell])'
    BY DEF EntriesAge
  <2>1. CASE f = e
    BY <1>1, <1>4, <1>6, <1>7, <1>9, <2>1
  <2>2. CASE f \in heap
    <3>1. f.cell \in 1 .. size /\ f.cell \in CellId /\ f.generation \in Nat
      BY <2>2, EntryTyped
    <3>2. /\ f.generation <= generation[f.cell]
          /\ occupant[f.cell] = 0 => f.generation < generation[f.cell]
          /\ IsLive(f.cell, f.generation) => f = EntryOf(occupant[f.cell])
      BY <2>2 DEF EntriesAge
    <3>3. CASE f.cell = c
      <4>1. f.generation < generation[c] /\ occupant'[c] # 0
        BY <1>2, <1>4, <1>7, <3>2, <3>3
      <4>2. ~ IsLive(f.cell, f.generation)'
        BY <1>1, <1>6, <3>1, <3>3, <4>1 DEF IsLive
      <4> QED BY <1>1, <3>2, <3>3, <4>1, <4>2
    <3>4. CASE f.cell # c
      <4>1. occupant'[f.cell] = occupant[f.cell]
        BY <1>7, <3>1, <3>4
      <4>2. IsLive(f.cell, f.generation)' => IsLive(f.cell, f.generation)
        BY <1>1, <3>1, <4>1 DEF IsLive
      <4>3. ASSUME occupant[f.cell] # 0
            PROVE  EntryOf(occupant[f.cell])' = EntryOf(occupant[f.cell])
        <5>1. occupant[f.cell] \in Timers /\ occupant[f.cell] # t
          BY <1>8, <3>1, <4>3 DEF OccupantsAreLive
        <5> QED BY <1>7, <4>1, <5>1 DEF EntryOf
      <4>4. IsLive(f.cell, f.generation) => occupant[f.cell] # 0
        BY DEF IsLive
      <4> QED BY <1>1, <3>2, <4>1, <4>2, <4>3, <4>4
    <3> QED BY <3>3, <3>4
  <2> QED BY <1>1, <2>1, <2>2
<1>17. KeysAge'
  <2> SUFFICES ASSUME NEW u \in Timers, fate'[u] \in {"fired", "cancelled"}
               PROVE  key'[u].cell \in 1 .. size'
                      /\ key'[u].generation < generation'[key'[u].cell]
    BY DEF KeysAge
  <2>1. u # t /\ fate[u] \in {"fired", "cancelled"}
    BY <1>7
  <2> QED BY <1>1, <1>5, <1>7, <2>1 DEF KeysAge
<1>18. CellsBoundedByPeak'
  BY <1>1, <1>2, <1>3, LiveAreCounted DEF CellsBoundedByPeak
<1> QED
  BY <1>1, <1>11, <1>12, <1>13, <1>14, <1>15, <1>16, <1>17, <1>18

\* A guard drops.
LEMMA DropGuardInv ==
  ASSUME IInv, NEW t \in Timers, DropGuard(t)
  PROVE  IInv'
<1>1. /\ guarded' = [guarded EXCEPT ![t] = FALSE]
      /\ UNCHANGED <<heap, size, clock, expiring, registered, node, due, key, peak>>
  BY DEF DropGuard
<1>2. /\ guarded' \in [Timers -> BOOLEAN]
      /\ \A u \in Timers : guarded'[u] => guarded[u]
  BY <1>1 DEF IInv, TypeOK
<1>3. CASE IsLive(key[t].cell, key[t].generation)
  <2> DEFINE c == key[t].cell
  <2>1. c \in 1 .. size /\ occupant[c] # 0 /\ Vacate(c, "cancelled")
    BY <1>3 DEF DropGuard, IsLive
  <2>2. \A u \in Live : EntryOf(u) \in heap'
    BY <1>1 DEF IInv, LiveAreHoused
  <2> HIDE DEF c
  <2> QED BY <1>1, <1>2, <2>1, <2>2, VacateInv
<1>4. CASE ~ IsLive(key[t].cell, key[t].generation)
  <2>1. UNCHANGED <<fate, occupant, generation, free>>
    BY <1>4 DEF DropGuard
  <2>2. TypeOK'
    BY <1>1, <1>2, <2>1 DEF IInv, TypeOK, Entries
  <2>3. Live' = Live /\ \A u : EntryOf(u)' = EntryOf(u)
    BY <1>1, <2>1 DEF Live, EntryOf
  <2>4. BornInOrder'
    BY <1>1, <1>2, <2>1 DEF IInv, BornInOrder
  <2>5. LiveAreHoused'
    BY <1>1, <2>1, <2>3 DEF IInv, LiveAreHoused
  <2>6. OccupantsAreLive' /\ FreeIsVacant' /\ KeysAge'
    BY <1>1, <2>1, <2>3 DEF IInv, OccupantsAreLive, FreeIsVacant, KeysAge
  <2>7. EntriesAge'
    BY <1>1, <2>1 DEF IInv, EntriesAge, IsLive, EntryOf
  <2> QED BY <1>1, <2>2, <2>4, <2>5, <2>6, <2>7 DEF IInv, CellsBoundedByPeak
<1> QED
  BY <1>3, <1>4

\* Expire fires the top timer: what it changes.
LEMMA PopFacts ==
  ASSUME IInv, ExpirePop
  PROVE  LET o == occupant[Top.cell]
         IN  /\ Top.cell \in 1 .. size /\ o # 0 /\ o \in Live /\ Top = EntryOf(o)
             /\ \A f \in Alive : f = Top \/ Before(Top, f)
             /\ Vacate(Top.cell, "fired") /\ heap' = Pruned \ {Top}
             /\ Top.deadline <= expiring
             /\ UNCHANGED <<size, clock, expiring, registered, node, due, key,
                            guarded, peak>>
<1>1. Top \in Alive /\ \A f \in Alive : f = Top \/ Before(Top, f)
  BY TopIsFirst DEF IInv, ExpirePop
<1> QED
  BY <1>1, AliveIsHoused DEF ExpirePop

LEMMA ExpirePopInv ==
  ASSUME IInv, ExpirePop
  PROVE  IInv'
<1> DEFINE c == Top.cell
           o == occupant[c]
<1>1. /\ c \in 1 .. size /\ o # 0 /\ o \in Live
      /\ Vacate(c, "fired") /\ heap' = Pruned \ {Top}
      /\ UNCHANGED <<size, clock, expiring, registered, node, due, key, guarded, peak>>
  BY PopFacts
<1>2. heap' \subseteq heap
  BY <1>1, PrunedKeepsAlive
<1>3. ASSUME NEW u \in Live, u # o PROVE EntryOf(u) \in heap'
  <2>1. EntryOf(u) \in Pruned
    BY LiveEntries, PrunedKeepsAlive
  <2>2. occupant[key[u].cell] = u /\ EntryOf(u).cell = key[u].cell
    BY DEF IInv, LiveAreHoused, EntryOf
  <2>3. EntryOf(u) # Top
    BY <1>3, <2>2
  <2> QED BY <1>1, <2>1, <2>3
<1>4. guarded' \in [Timers -> BOOLEAN]
  BY <1>1 DEF IInv, TypeOK
<1> HIDE DEF c
<1> QED
  BY <1>1, <1>2, <1>3, <1>4, VacateInv

\* Every step preserves the invariant.
LEMMA NextInv == IInv /\ [Next]_vars => IInv'
<1> SUFFICES ASSUME IInv, [Next]_vars PROVE IInv'
  OBVIOUS
<1>0. /\ clock \in Times /\ expiring \in Times \cup {-1} /\ expiring <= clock
      /\ MaxTime \in Nat /\ clock \in Nat
  BY DeadlineHeapAssumption DEF IInv, TypeOK, Times
<1>1. ASSUME NEW n \in Nodes, NEW d \in Times, NEW guard \in BOOLEAN, Register(n, d, guard)
      PROVE  IInv'
  BY <1>1, RegisterInv
<1>2. ASSUME NEW t \in Timers, DropGuard(t) PROVE IInv'
  BY <1>2, DropGuardInv
<1>3. CASE Earliest
  <2>1. /\ heap' = Pruned
        /\ UNCHANGED <<size, generation, occupant, free, clock, expiring, registered,
                       node, due, key, guarded, fate, peak>>
    BY <1>3 DEF Earliest
  <2> QED BY <1>0, <2>1, PrunedKeepsAlive, PruneInv
<1>4. CASE ExpireStart
  <2>1. /\ heap' = Pruned /\ expiring' \in {-1, clock}
        /\ UNCHANGED <<size, generation, occupant, free, clock, registered,
                       node, due, key, guarded, fate, peak>>
    BY <1>4 DEF ExpireStart
  <2>2. expiring' \in Times \cup {-1} /\ expiring' <= clock'
    BY <1>0, <2>1
  <2> QED BY <1>0, <2>1, <2>2, PrunedKeepsAlive, PruneInv
<1>5. CASE ExpirePop
  BY <1>5, ExpirePopInv
<1>6. CASE ExpireEnd
  <2>1. /\ heap' = Pruned /\ expiring' = -1
        /\ UNCHANGED <<size, generation, occupant, free, clock, registered,
                       node, due, key, guarded, fate, peak>>
    BY <1>6 DEF ExpireEnd
  <2>2. expiring' \in Times \cup {-1} /\ expiring' <= clock'
    BY <1>0, <2>1
  <2> QED BY <1>0, <2>1, <2>2, PrunedKeepsAlive, PruneInv
<1>7. CASE Tick
  <2>1. /\ clock < MaxTime /\ clock' = clock + 1 /\ heap' = heap
        /\ UNCHANGED <<size, generation, occupant, free, expiring, registered,
                       node, due, key, guarded, fate, peak>>
    BY <1>7 DEF Tick
  <2>2. clock' \in Times /\ expiring' \in Times \cup {-1} /\ expiring' <= clock'
    BY <1>0, <2>1 DEF Times
  <2>3. heap' \subseteq heap /\ Alive \subseteq heap'
    BY <2>1 DEF Alive
  <2> QED BY <2>1, <2>2, <2>3, PruneInv
<1>8. CASE UNCHANGED vars
  <2>1. heap' \subseteq heap /\ Alive \subseteq heap'
    BY <1>8 DEF vars, Alive
  <2> QED BY <1>0, <1>8, <2>1, PruneInv DEF vars
<1> QED
  BY <1>1, <1>2, <1>3, <1>4, <1>5, <1>6, <1>7, <1>8 DEF Next

-----------------------------------------------------------------------------

LEMMA Invariant == Spec => []IInv
<1> QED
  BY InitInv, NextInv, PTL DEF Spec

\* poll::timer's entries, free cells and keys stay within the cell table.
THEOREM TimersTyped == Spec => []TypeOK
<1>1. IInv => TypeOK
  BY DEF IInv
<1> QED
  BY <1>1, Invariant, PTL

\* However timers are armed, dropped and fired, DeadlineHeap's cell table never
\* has more cells than timers were live at once: the free list has every vacant
\* cell, so a cell is added only when each of them holds a live timer of its own.
THEOREM CellsStayBounded == Spec => []CellsBoundedByPeak
<1>1. IInv => CellsBoundedByPeak
  BY DEF IInv
<1> QED
  BY <1>1, Invariant, PTL

\* A TimerGuard that drops cancels the timer it was armed for, or none: no key
\* outlives its timer under the generation of its cell.
LEMMA CancelStep ==
  ASSUME IInv, [Next]_vars, NEW t \in Timers, fate'[t] = "cancelled", fate[t] # "cancelled"
  PROVE  guarded[t] /\ ~guarded'[t]
<1>1. fate \in [Timers -> Fates]
  BY DEF IInv, TypeOK
<1>2. PICK s \in Timers : DropGuard(s)
  <2>1. ASSUME NEW n \in Nodes, NEW d \in Times, NEW guard \in BOOLEAN, Register(n, d, guard)
        PROVE  FALSE
    <3>1. fate' = [fate EXCEPT ![registered + 1] = "live"]
      BY <2>1 DEF Register
    <3> QED BY <1>1, <3>1
  <2>2. CASE ExpirePop
    <3>1. Vacate(Top.cell, "fired")
      BY <2>2 DEF ExpirePop
    <3>2. fate' = [fate EXCEPT ![occupant[Top.cell]] = "fired"]
      BY <3>1 DEF Vacate
    <3> QED BY <1>1, <3>2
  <2>3. CASE UNCHANGED fate
    BY <2>3
  <2> QED BY <2>1, <2>2, <2>3 DEF Next, vars, Earliest, ExpireStart, ExpireEnd, Tick
<1>3. guarded[s] /\ guarded' = [guarded EXCEPT ![s] = FALSE]
  BY <1>2 DEF DropGuard
<1>4. IsLive(key[s].cell, key[s].generation) /\ Vacate(key[s].cell, "cancelled")
  BY <1>2 DEF DropGuard
<1>5. fate[s] = "live"
  <2>1. fate[s] # "unborn"
    BY <1>3, DeadlineHeapAssumption DEF IInv, BornInOrder, TypeOK, Timers
  <2>2. fate[s] \notin {"fired", "cancelled"}
    <3>1. SUFFICES ASSUME fate[s] \in {"fired", "cancelled"} PROVE FALSE
      OBVIOUS
    <3>2. /\ key[s].generation < generation[key[s].cell]
          /\ key[s].cell \in CellId
      BY <3>1, Indices DEF IInv, KeysAge
    <3>3. generation[key[s].cell] \in Nat
      BY <3>2 DEF IInv, TypeOK
    <3> QED BY <1>4, <3>2, <3>3 DEF IsLive
  <2> QED BY <1>1, <2>1, <2>2 DEF Fates
<1>6. occupant[key[s].cell] = s
  BY <1>5 DEF IInv, LiveAreHoused, Live
<1>7. fate' = [fate EXCEPT ![s] = "cancelled"]
  BY <1>4, <1>6 DEF Vacate
<1>8. t = s
  BY <1>1, <1>7
<1> QED
  BY <1>3, <1>8 DEF IInv, TypeOK

\* Dropping a guard ends no timer but its own, whoever occupies the cell its
\* key names by then.
THEOREM GuardsEndTheirOwn == Spec => CancelEndsItsOwn
<1>1. IInv /\ [Next]_vars
        => [\A t \in Timers : fate'[t] = "cancelled" /\ fate[t] # "cancelled" =>
              guarded[t] /\ ~guarded'[t]]_vars
  BY CancelStep
<1> QED
  BY <1>1, Invariant, PTL DEF Spec, CancelEndsItsOwn

\* A timer that fires is live, due by the clock, and no live one is due before it.
LEMMA FireStep ==
  ASSUME IInv, [Next]_vars, NEW t \in Timers, fate'[t] = "fired", fate[t] # "fired"
  PROVE  /\ fate[t] = "live" /\ due[t] <= clock
         /\ \A u \in Live : due[t] <= due[u]
<1>1. fate \in [Timers -> Fates]
  BY DEF IInv, TypeOK
<1>2. ExpirePop
  <2>1. ASSUME NEW n \in Nodes, NEW d \in Times, NEW guard \in BOOLEAN, Register(n, d, guard)
        PROVE  FALSE
    <3>1. fate' = [fate EXCEPT ![registered + 1] = "live"]
      BY <2>1 DEF Register
    <3> QED BY <1>1, <3>1
  <2>2. ASSUME NEW s \in Timers, DropGuard(s) PROVE FALSE
    <3>1. \/ fate' = [fate EXCEPT ![occupant[key[s].cell]] = "cancelled"]
          \/ fate' = fate
      BY <2>2 DEF DropGuard, Vacate
    <3> QED BY <1>1, <3>1
  <2>3. CASE UNCHANGED fate
    BY <2>3
  <2> QED BY <2>1, <2>2, <2>3 DEF Next, vars, Earliest, ExpireStart, ExpireEnd, Tick
<1> DEFINE o == occupant[Top.cell]
<1>3. /\ o \in Live /\ Top = EntryOf(o)
      /\ \A f \in Alive : f = Top \/ Before(Top, f)
      /\ Vacate(Top.cell, "fired") /\ Top.deadline <= expiring
  BY <1>2, PopFacts
<1>4. fate' = [fate EXCEPT ![o] = "fired"]
  BY <1>3 DEF Vacate
<1>5. t = o
  BY <1>1, <1>4
<1>6. due \in [Timers -> Nat] /\ Live \subseteq Timers /\ clock \in Nat /\ expiring \in Int
  BY DeadlineHeapAssumption DEF IInv, TypeOK, Times, Live
<1>7. Top.deadline = due[t]
  BY <1>3, <1>5 DEF EntryOf
<1>8. expiring <= clock
  BY DEF IInv
<1>9. ASSUME NEW u \in Live PROVE due[t] <= due[u]
  <2>1. EntryOf(u) \in Alive /\ EntryOf(u).deadline = due[u]
    BY LiveEntries DEF EntryOf
  <2>2. EntryOf(u) = Top \/ Before(Top, EntryOf(u))
    BY <1>3, <2>1
  <2> QED BY <1>6, <1>7, <2>1, <2>2 DEF Before
<1> QED
  BY <1>3, <1>5, <1>6, <1>7, <1>8, <1>9 DEF Live

\* An expire that ends leaves no live timer that was due when it read the clock.
LEMMA ExpireEndStep ==
  ASSUME IInv, [Next]_vars, expiring # -1, expiring' = -1,
         NEW t \in Timers, fate'[t] = "live"
  PROVE  due[t] > expiring
<1>1. ExpireEnd
  BY DEF Next, vars, Register, DropGuard, Earliest, ExpireStart, ExpirePop, Tick
<1>2. t \in Live
  BY <1>1 DEF ExpireEnd, Live
<1>3. EntryOf(t) \in Alive /\ EntryOf(t).deadline = due[t]
  BY <1>2, LiveEntries DEF EntryOf
<1>4. Top \in Alive /\ (EntryOf(t) = Top \/ Before(Top, EntryOf(t)))
  BY <1>3, TopIsFirst DEF IInv
<1>5. Top.deadline > expiring
  BY <1>1, <1>3 DEF ExpireEnd
<1>6. Top.deadline \in Nat /\ due[t] \in Nat /\ expiring \in Int
  <2>1. Top \in heap
    BY <1>4 DEF Alive
  <2>2. Top.deadline \in Nat
    BY <2>1, EntryTyped DEF IInv
  <2> QED BY <2>2, DeadlineHeapAssumption DEF IInv, TypeOK, Times
<1> QED
  BY <1>3, <1>4, <1>5, <1>6 DEF Before

\* Timers::expire is exact, although the heap mixes dead entries with live ones:
\* a live timer's entry stays in the heap, a dead one's generation is behind its
\* cell's, and the first live entry is the least in the order of the heap.
THEOREM ExpiresExactly == Spec => ExpireIsExact
<1>1. IInv /\ [Next]_vars
        => [/\ \A t \in Timers : fate'[t] = "fired" /\ fate[t] # "fired" =>
                 /\ fate[t] = "live" /\ due[t] <= clock
                 /\ \A u \in Live : due[t] <= due[u]
            /\ expiring # -1 /\ expiring' = -1 =>
                 \A t \in Timers : fate'[t] = "live" => due[t] > expiring]_vars
  BY FireStep, ExpireEndStep
<1> QED
  BY <1>1, Invariant, PTL DEF Spec, ExpireIsExact
=============================================================================
