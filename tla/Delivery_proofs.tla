--------------------------- MODULE Delivery_proofs ---------------------------
(***************************************************************************)
(* That a Flush brings out all that was written before it, for any graph   *)
(* through which Flushes pass (FlushesThrough), and that a LineIo alone    *)
(* with its graph returns once all of it has come out (IoReturnsAll).      *)
(***************************************************************************)
EXTENDS WorkGraph_proofs, FiniteSetTheorems, FunctionTheorems

In(m, q) == \E k \in DOMAIN q : q[k] = m
HasFlush(q) == \E k \in DOMAIN q : q[k].kind = "flush"
Behind(m, q) == \A j \in DOMAIN q : q[j] = m => \E k \in DOMAIN q : j < k /\ q[k].kind = "flush"

LEMMA OfNone == \A m : ~In(m, <<>>) /\ ~HasFlush(<<>>) /\ Behind(m, <<>>)
BY DEF In, HasFlush, Behind

LEMMA OfOne ==
  ASSUME NEW n, NEW m
  PROVE  (In(m, <<n>>) <=> m = n) /\ (HasFlush(<<n>>) <=> n.kind = "flush")
BY DEF In, HasFlush

LEMMA OfAppend ==
  ASSUME NEW S, NEW q \in Seq(S), NEW n \in S, NEW m
  PROVE  /\ In(m, Append(q, n)) <=> In(m, q) \/ m = n
         /\ HasFlush(Append(q, n)) <=> HasFlush(q) \/ n.kind = "flush"
         /\ n.kind = "flush" /\ m # n => Behind(m, Append(q, n))
         /\ Behind(m, q) /\ m # n => Behind(m, Append(q, n))
<1> DEFINE p == Append(q, n)
<1>1. /\ Len(q) \in Nat /\ DOMAIN q = 1 .. Len(q) /\ DOMAIN p = 1 .. Len(q) + 1
      /\ p[Len(q) + 1] = n /\ \A k \in 1 .. Len(q) : p[k] = q[k]
  OBVIOUS
<1>2. \A k \in 1 .. Len(q) + 1 : k = Len(q) + 1 \/ (k \in 1 .. Len(q) /\ k < Len(q) + 1)
  BY <1>1
<1>3. \A k \in 1 .. Len(q) : k \in 1 .. Len(q) + 1
  BY <1>1
<1>5. Len(q) + 1 \in 1 .. Len(q) + 1
  BY <1>1
<1> HIDE DEF p
<1>4. In(m, p) <=> In(m, q) \/ m = n
  BY <1>1, <1>2, <1>3, <1>5 DEF In
<1>6. HasFlush(p) <=> HasFlush(q) \/ n.kind = "flush"
  BY <1>1, <1>2, <1>3, <1>5 DEF HasFlush
<1>7. n.kind = "flush" /\ m # n => Behind(m, p)
  BY <1>1, <1>2, <1>5 DEF Behind
<1>8. Behind(m, q) /\ m # n => Behind(m, p)
  <2> SUFFICES ASSUME Behind(m, q), m # n, NEW j \in DOMAIN p, p[j] = m
               PROVE  \E k \in DOMAIN p : j < k /\ p[k].kind = "flush"
    BY DEF Behind
  <2>1. j \in DOMAIN q /\ q[j] = m
    BY <1>1, <1>2
  <2>2. PICK k \in DOMAIN q : j < k /\ q[k].kind = "flush"
    BY <2>1 DEF Behind
  <2> QED BY <1>1, <1>3, <2>2
<1> QED
  BY <1>4, <1>6, <1>7, <1>8 DEF p

LEMMA OfTail ==
  ASSUME NEW S, NEW q \in Seq(S), q # <<>>, NEW m
  PROVE  /\ In(m, q) <=> In(m, Tail(q)) \/ m = Head(q)
         /\ HasFlush(q) <=> HasFlush(Tail(q)) \/ Head(q).kind = "flush"
         /\ Behind(m, q) => Behind(m, Tail(q)) /\ (m = Head(q) => HasFlush(Tail(q)))
         /\ In(Head(q), q)
<1> DEFINE p == Tail(q)
<1>1. /\ Len(q) \in Nat \ {0} /\ DOMAIN q = 1 .. Len(q) /\ DOMAIN p = 1 .. Len(q) - 1
      /\ q[1] = Head(q) /\ \A k \in 1 .. Len(q) - 1 : p[k] = q[k + 1]
  OBVIOUS
<1>2. /\ \A k \in 1 .. Len(q) - 1 : k + 1 \in 1 .. Len(q)
      /\ \A k \in 1 .. Len(q) : k = 1 \/ (k - 1 \in 1 .. Len(q) - 1 /\ (k - 1) + 1 = k)
      /\ 1 \in 1 .. Len(q)
      /\ \A j \in 1 .. Len(q) - 1, k \in 1 .. Len(q) :
           j + 1 < k => k # 1 /\ j < k - 1
      /\ \A k \in 1 .. Len(q) : 1 < k => k # 1
  BY <1>1
<1> HIDE DEF p
<1>3. \A k \in 1 .. Len(q) : k # 1 => k - 1 \in 1 .. Len(q) - 1 /\ p[k - 1] = q[k]
  BY <1>1, <1>2
<1>4. In(m, q) <=> In(m, p) \/ m = Head(q)
  BY <1>1, <1>2, <1>3 DEF In
<1>5. HasFlush(q) <=> HasFlush(p) \/ Head(q).kind = "flush"
  BY <1>1, <1>2, <1>3 DEF HasFlush
<1>6. ASSUME Behind(m, q) PROVE Behind(m, p)
  <2> SUFFICES ASSUME NEW j \in DOMAIN p, p[j] = m PROVE \E k \in DOMAIN p : j < k /\ p[k].kind = "flush"
    BY DEF Behind
  <2>1. j + 1 \in DOMAIN q /\ q[j + 1] = m
    BY <1>1, <1>2
  <2>2. PICK k \in DOMAIN q : j + 1 < k /\ q[k].kind = "flush"
    BY <1>6, <2>1 DEF Behind
  <2>3. k # 1 /\ j < k - 1
    BY <1>1, <1>2, <2>2
  <2> QED BY <1>1, <1>3, <2>2, <2>3
<1>7. ASSUME Behind(m, q), m = Head(q) PROVE HasFlush(p)
  <2>1. PICK k \in DOMAIN q : 1 < k /\ q[k].kind = "flush"
    BY <1>1, <1>2, <1>7 DEF Behind
  <2> QED BY <1>1, <1>2, <1>3, <2>1 DEF HasFlush
<1>8. In(Head(q), q)
  BY <1>1, <1>2 DEF In
<1> QED
  BY <1>4, <1>5, <1>6, <1>7, <1>8 DEF p

-----------------------------------------------------------------------------
(* H has the outlets that took message m of writer w, D those through which *)
(* no Flush went since.                                                     *)

LeftTo(x, s, k) == IF Still(x, s, k) THEN Going(x, s) ELSE <<>>
Has(m, x, s, k) == In(m, made[x][s]) \/ In(m, LeftTo(x, s, k))
Brings(x, s, k) == HasFlush(pending[x][s]) \/ HasFlush(LeftTo(x, s, k))
Coming(x, D) == \E i \in Inputs(graph) : i[1] = x /\ (HasFlush(buf[i]) \/ \E u \in D : To(u) = i)

\* Where m is once it went through the outlets of H: at what they lead to, or on.
Carried(m, x, H) ==
  \/ x \in alive /\ In(m, kept[x])
  \/ \E s \in Sides(x) : \A k \in DOMAIN graph.outs[x][s] :
       <<x, s, k>> \in H \/ (x \in alive /\ Has(m, x, s, k))
Borne(m, H) ==
  \A o \in H : In(m, buf[To(o)]) \/ (To(o)[1] \in Nodes(graph) /\ Carried(m, To(o)[1], H))

\* A Flush is on its way to each outlet of D, and to whatever still holds m.
Owing(w, D) ==
  \A o \in D : \/ o = <<w, 1, 1>> /\ w \in alive
               \/ o[1] \in Nodes(graph) \cap alive /\ (Brings(o[1], o[2], o[3]) \/ Coming(o[1], D))
Followed(m, D) == \A i \in Inputs(graph) : Behind(m, buf[i]) \/ \E u \in D : To(u) = i
FlushedOut(m, D) ==
  \A x \in Nodes(graph) \cap alive :
    /\ In(m, kept[x]) => Coming(x, D)
    /\ \A s \in Sides(x) : \A k \in DOMAIN graph.outs[x][s] :
         Has(m, x, s, k) => HasFlush(pending[x][s]) \/ Coming(x, D)
FlowInv(w, m, H, D) ==
  /\ D \subseteq H /\ H \subseteq Outlets(graph) /\ <<w, 1, 1>> \in H
  /\ Borne(m, H) /\ Owing(w, D) /\ Followed(m, D) /\ FlushedOut(m, D)
  /\ \A o \in D : Follows(o) => follow[o]

\* One signal waits at most, and never data.
SignalAt(x) == \A s \in Sides(x) : pending[x][s] = <<>> \/ \E n : pending[x][s] = <<n>> /\ ~IsData(n)

\* What a node's step leaves as it was.
Same(y) ==
  /\ kept'[y] = kept[y] /\ made'[y] = made[y] /\ pending'[y] = pending[y]
  /\ \A s \in Sides(y) : \A k \in DOMAIN graph.outs[y][s] : LeftTo(y, s, k)' = LeftTo(y, s, k)

Taken(x, s, k, n) == Outcome(<<x, s, k>>, n) \in {"pushed", "dropped"}

\* What a push does to what its side holds.
LEMMA PushLeft ==
  ASSUME GraphOK, Types, StackInv, NEW x \in Nodes(graph) \cap alive, NEW s, NEW k, NEW n,
         Pushing(x, s, k, n), Source(x, s, k, n), SignalAt(x)
  PROVE  /\ s \in Sides(x) /\ k \in DOMAIN graph.outs[x][s]
         /\ made[x][s] \in Seq(Message) /\ pending[x][s] \in Seq(Message)
         /\ \A j \in DOMAIN graph.outs[x][s] :
              LeftTo(x, s, j)' = IF k <= j /\ ~(Taken(x, s, k, n) /\ j = k) THEN <<n>> ELSE <<>>
         /\ \/ /\ \A j \in DOMAIN graph.outs[x][s] : LeftTo(x, s, j) = IF k <= j THEN <<n>> ELSE <<>>
               /\ made'[x][s] = made[x][s] /\ pending'[x][s] = pending[x][s]
            \/ /\ \A j \in DOMAIN graph.outs[x][s] : LeftTo(x, s, j) = <<>> /\ k <= j
               /\ made[x][s] # <<>> /\ n = Head(made[x][s]) /\ made'[x][s] = Tail(made[x][s])
               /\ pending'[x][s] = pending[x][s]
            \/ /\ \A j \in DOMAIN graph.outs[x][s] : LeftTo(x, s, j) = <<>> /\ k <= j
               /\ made[x][s] = <<>> /\ made'[x][s] = <<>>
               /\ pending[x][s] = <<n>> /\ ~IsData(n) /\ pending'[x][s] = <<>>
         /\ kept'[x] = kept[x]
         /\ \A r \in Sides(x) : r # s =>
              /\ made'[x][r] = made[x][r] /\ pending'[x][r] = pending[x][r]
              /\ \A j \in DOMAIN graph.outs[x][r] : LeftTo(x, r, j)' = LeftTo(x, r, j)
<1> DEFINE Out(r) == DOMAIN graph.outs[x][r]
<1>0. /\ s \in Sides(x) /\ k \in Out(s) /\ n \in Message /\ kept' = kept /\ graph' = graph /\ x \in Parts(graph)
  BY KindsDiffer DEF Pushing
<1>1. /\ DOMAIN made = Nodes(graph) /\ DOMAIN pending = Nodes(graph)
      /\ made[x] \in [Sides(x) -> Seq(Message)] /\ pending[x] \in [Sides(x) -> Seq(Message)]
      /\ Len(graph.outs[x][s]) \in Nat /\ Out(s) = 1 .. Len(graph.outs[x][s])
  BY <1>0, OutletShape DEF Types, RoutineTypes
<1>2. made[x][s] \in Seq(Message) /\ pending[x][s] \in Seq(Message)
  BY <1>0, <1>1
<1>3. ASSUME NEW j \in Out(s)
      PROVE  LeftTo(x, s, j)' = IF k <= j /\ ~(Taken(x, s, k, n) /\ j = k) THEN <<n>> ELSE <<>>
  <2>1. CASE /\ Going(x, s)' = <<>> /\ k = Len(graph.outs[x][s]) /\ Taken(x, s, k, n)
    <3>1. LeftTo(x, s, j)' = <<>>
      BY <2>1 DEF LeftTo
    <3>2. k <= j => j = k
      BY <1>0, <1>1, <2>1
    <3> QED BY <2>1, <3>1, <3>2
  <2>2. CASE Going(x, s)' = <<n>> /\ (Still(x, s, j)' <=> k <= j /\ (Taken(x, s, k, n) => k # j))
    BY <2>2 DEF LeftTo
  <2> QED BY <2>1, <2>2, PushGoing DEF Taken
<1>4. \A j \in Out(s) : 1 <= j
  BY <1>1
<1>5. \/ /\ \A j \in Out(s) : LeftTo(x, s, j) = IF k <= j THEN <<n>> ELSE <<>>
         /\ made'[x][s] = made[x][s] /\ pending'[x][s] = pending[x][s]
      \/ /\ \A j \in Out(s) : LeftTo(x, s, j) = <<>> /\ k <= j
         /\ made[x][s] # <<>> /\ n = Head(made[x][s]) /\ made'[x][s] = Tail(made[x][s])
         /\ pending'[x][s] = pending[x][s]
      \/ /\ \A j \in Out(s) : LeftTo(x, s, j) = <<>> /\ k <= j
         /\ made[x][s] = <<>> /\ made'[x][s] = <<>>
         /\ pending[x][s] = <<n>> /\ ~IsData(n) /\ pending'[x][s] = <<>>
  <2>1. CASE /\ Going(x, s) = <<n>> /\ (\A j \in Out(s) : k <= j <=> Still(x, s, j))
             /\ UNCHANGED <<made, pending>>
    BY <2>1 DEF LeftTo
  <2>2. CASE /\ Going(x, s) = <<>> /\ made[x][s] # <<>> /\ n = Head(made[x][s]) /\ k = 1
             /\ made' = [made EXCEPT ![x][s] = Tail(@)] /\ UNCHANGED pending
    <3>1. made'[x][s] = Tail(made[x][s])
      BY <1>0, <1>1, <2>2
    <3> QED BY <1>4, <2>2, <3>1 DEF LeftTo
  <2>3. CASE /\ Going(x, s) = <<>> /\ made[x][s] = <<>> /\ pending[x][s] # <<>> /\ n = pending[x][s][1]
             /\ k = 1 /\ pending' = [pending EXCEPT ![x][s] = <<>>] /\ UNCHANGED made
    <3>1. pending'[x][s] = <<>>
      BY <1>0, <1>1, <2>3
    <3>2. pending[x][s] = <<n>> /\ ~IsData(n)
      BY <1>0, <2>3 DEF SignalAt
    <3> QED BY <1>4, <2>3, <3>1, <3>2 DEF LeftTo
  <2> QED BY <2>1, <2>2, <2>3 DEF Source
<1>6. ASSUME NEW r \in Sides(x), r # s
      PROVE  /\ made'[x][r] = made[x][r] /\ pending'[x][r] = pending[x][r]
             /\ \A j \in Out(r) : LeftTo(x, r, j)' = LeftTo(x, r, j)
  <2>1. made'[x][r] = made[x][r] /\ pending'[x][r] = pending[x][r]
    BY <1>1, <1>6 DEF Source
  <2>2. /\ Going(x, r)' = Going(x, r)
        /\ \A j : held[x][r] # <<>> => Still(x, r, j)' = Still(x, r, j)
        /\ held[x][r] = <<>> => Going(x, r) = <<>>
    BY <1>6, PushGoing
  <2> QED BY <2>1, <2>2 DEF LeftTo
<1> QED
  BY <1>0, <1>2, <1>3, <1>5, <1>6

LEMMA PushHas ==
  ASSUME GraphOK, Types, StackInv, NEW x \in Nodes(graph) \cap alive, NEW s, NEW k, NEW n,
         Pushing(x, s, k, n), Source(x, s, k, n), SignalAt(x)
  PROVE  /\ \A j \in DOMAIN graph.outs[x][s] : ~(Taken(x, s, k, n) /\ j = k) =>
              (\A m : Has(m, x, s, j) => Has(m, x, s, j)') /\ (Brings(x, s, j) => Brings(x, s, j)')
         /\ \A m : Has(m, x, s, k) => Has(m, x, s, k)' \/ m = n
         /\ Brings(x, s, k) => Brings(x, s, k)' \/ n.kind = "flush"
         /\ \A m : IsData(m) => \A j \in DOMAIN graph.outs[x][s] :
              Has(m, x, s, j)' => Has(m, x, s, j) /\ pending'[x][s] = pending[x][s]
         /\ IsData(n) => Has(n, x, s, k) /\ pending'[x][s] = pending[x][s]
         /\ \A r \in Sides(x) : r # s =>
              /\ pending'[x][r] = pending[x][r]
              /\ \A j \in DOMAIN graph.outs[x][r] :
                   (\A m : Has(m, x, r, j)' <=> Has(m, x, r, j)) /\ (Brings(x, r, j)' <=> Brings(x, r, j))
         /\ SignalAt(x)'
         /\ kept'[x] = kept[x]
<1> DEFINE Out == DOMAIN graph.outs[x][s]
<1>0. /\ s \in Sides(x) /\ k \in Out /\ made[x][s] \in Seq(Message) /\ kept'[x] = kept[x]
      /\ graph' = graph /\ x \in Parts(graph)
  BY PushLeft, KindsDiffer DEF Pushing
<1>1. \A j \in Out : LeftTo(x, s, j)' = IF k <= j /\ ~(Taken(x, s, k, n) /\ j = k) THEN <<n>> ELSE <<>>
  BY PushLeft
<1>2. k <= k
  <2>1. DOMAIN graph.outs[x][s] = 1 .. Len(graph.outs[x][s]) /\ Len(graph.outs[x][s]) \in Nat
    BY <1>0, OutletShape
  <2> QED BY <1>0, <2>1
<1>3. \A r \in Sides(x) : r # s =>
        /\ pending'[x][r] = pending[x][r]
        /\ \A j \in DOMAIN graph.outs[x][r] :
             (\A m : Has(m, x, r, j)' <=> Has(m, x, r, j)) /\ (Brings(x, r, j)' <=> Brings(x, r, j))
  <2>1. \A r \in Sides(x) : r # s =>
          /\ made'[x][r] = made[x][r] /\ pending'[x][r] = pending[x][r]
          /\ \A j \in DOMAIN graph.outs[x][r] : LeftTo(x, r, j)' = LeftTo(x, r, j)
    BY PushLeft
  <2> QED BY <2>1 DEF Has, Brings
<1>4. SignalAt(x)'
  <2>1. \A r \in Sides(x) : pending'[x][r] = pending[x][r] \/ pending'[x][r] = <<>>
    BY <1>3, PushLeft
  <2>2. Sides(x)' = Sides(x)
    BY <1>0 DEF Sides
  <2> QED BY <2>1, <2>2 DEF SignalAt, IsData
<1> DEFINE Goal ==
      /\ \A j \in Out : ~(Taken(x, s, k, n) /\ j = k) =>
           (\A m : Has(m, x, s, j) => Has(m, x, s, j)') /\ (Brings(x, s, j) => Brings(x, s, j)')
      /\ \A m : Has(m, x, s, k) => Has(m, x, s, k)' \/ m = n
      /\ Brings(x, s, k) => Brings(x, s, k)' \/ n.kind = "flush"
      /\ \A m : IsData(m) => \A j \in Out :
           Has(m, x, s, j)' => Has(m, x, s, j) /\ pending'[x][s] = pending[x][s]
      /\ IsData(n) => Has(n, x, s, k) /\ pending'[x][s] = pending[x][s]
<1>5. CASE /\ \A j \in Out : LeftTo(x, s, j) = IF k <= j THEN <<n>> ELSE <<>>
           /\ made'[x][s] = made[x][s] /\ pending'[x][s] = pending[x][s]
  <2>1. \A j \in Out : ~(Taken(x, s, k, n) /\ j = k) => LeftTo(x, s, j)' = LeftTo(x, s, j)
    BY <1>1, <1>5
  <2>2. \A j \in Out : LeftTo(x, s, j)' = LeftTo(x, s, j) \/ LeftTo(x, s, j)' = <<>>
    BY <1>1, <1>5
  <2>3. LeftTo(x, s, k) = <<n>>
    BY <1>0, <1>2, <1>5
  <2> QED BY <1>0, <1>3, <1>4, <1>5, <2>1, <2>2, <2>3, OfNone, OfOne DEF Has, Brings
<1>6. CASE /\ \A j \in Out : LeftTo(x, s, j) = <<>> /\ k <= j
           /\ made[x][s] # <<>> /\ n = Head(made[x][s]) /\ made'[x][s] = Tail(made[x][s])
           /\ pending'[x][s] = pending[x][s]
  <2>1. \A m : In(m, made[x][s]) <=> In(m, made'[x][s]) \/ m = n
    BY <1>0, <1>6, OfTail
  <2>2. \A j \in Out : ~(Taken(x, s, k, n) /\ j = k) => LeftTo(x, s, j)' = <<n>>
    BY <1>1, <1>6
  <2>3. \A j \in Out : LeftTo(x, s, j)' = <<n>> \/ LeftTo(x, s, j)' = <<>>
    BY <1>1, <1>6
  <2> QED BY <1>0, <1>3, <1>4, <1>6, <2>1, <2>2, <2>3, OfNone, OfOne DEF Has, Brings
<1>7. CASE /\ \A j \in Out : LeftTo(x, s, j) = <<>> /\ k <= j
           /\ made[x][s] = <<>> /\ made'[x][s] = <<>>
           /\ pending[x][s] = <<n>> /\ ~IsData(n) /\ pending'[x][s] = <<>>
  <2>2. \A j \in Out : ~(Taken(x, s, k, n) /\ j = k) => LeftTo(x, s, j)' = <<n>>
    BY <1>1, <1>7
  <2>3. \A j \in Out : LeftTo(x, s, j)' = <<n>> \/ LeftTo(x, s, j)' = <<>>
    BY <1>1, <1>7
  <2>4. \A m : IsData(m) => m # n
    BY <1>7
  <2> QED BY <1>0, <1>3, <1>4, <1>7, <2>2, <2>3, <2>4, OfNone, OfOne DEF Has, Brings
<1> QED
  BY <1>5, <1>6, <1>7, PushLeft

LEMMA RestsSame ==
  ASSUME GraphOK, Types, StackInv, Next, NEW y \in Nodes(graph) \cap alive', Rests(y)
  PROVE  Same(y)
<1>1. /\ kept'[y] = kept[y] /\ made'[y] = made[y] /\ pending'[y] = pending[y]
      /\ \A r \in Sides(y) : Leaves(y, r)
  BY GoingRests
<1>2. ASSUME NEW s \in Sides(y), NEW k \in DOMAIN graph.outs[y][s] PROVE LeftTo(y, s, k)' = LeftTo(y, s, k)
  BY <1>1 DEF Leaves, LeftTo
<1> QED
  BY <1>1, <1>2 DEF Same

\* What a push through outlet o makes of H and of D.
Reach(H, o, n, m) == IF Outcome(o, n) = "pushed" /\ n = m THEN H \cup {o} ELSE H
Due(D, o, n, m) ==
  IF Outcome(o, n) # "pushed" THEN D
  ELSE IF n = m THEN D \cup {o} ELSE IF n.kind = "flush" THEN D \ {o} ELSE D

LEMMA FlowPush ==
  ASSUME GraphOK, Types, FollowInv, NEW o \in Outlets(graph), NEW n \in Message, n.kind # "marker",
         Push(o, n) \/ (Outcome(o, n) = "stuck" /\ UNCHANGED <<buf, follow>>), graph' = graph,
         NEW m, IsData(m), NEW H, NEW D, D \subseteq H, H \subseteq Outlets(graph),
         Followed(m, D), \A u \in D : Follows(u) => follow[u],
         NEW H2, NEW D2, H2 = Reach(H, o, n, m), D2 = Due(D, o, n, m)
  PROVE  /\ D2 \subseteq H2 /\ H2 \subseteq Outlets(graph) /\ H \subseteq H2
         /\ Followed(m, D2)' /\ \A u \in D2 : Follows(u)' => follow'[u]
         /\ \A y : Coming(y, D) => Coming(y, D2)'
         /\ \A i \in Inputs(graph) : In(m, buf[i]) => In(m, buf'[i])
         /\ Outcome(o, n) = "pushed" /\ n = m => o \in D2 /\ In(m, buf'[To(o)])
         /\ o \in D2 => o \in D \/ (Outcome(o, n) = "pushed" /\ n = m)
         /\ \A u \in D2 : u # o => u \in D
         /\ o \in D /\ n.kind = "flush" /\ Outcome(o, n) \in {"pushed", "dropped"} => o \notin D2
         /\ Outcome(o, n) = "dropped" => n # m
<1> DEFINE i == To(o)
           pushed == Outcome(o, n) = "pushed"
<1>0. /\ i \in Inputs(graph) /\ buf \in [Inputs(graph) -> Seq(Message)] /\ n.kind \in {"data", "flush"}
      /\ follow \in [Outlets(graph) -> BOOLEAN] /\ \A u : To(u)' = To(u) /\ Follows(u)' = Follows(u)
  BY OutletShape DEF Types, EdgeTypes, Message, Kinds, FollowInv, To, Follows
<1>1. /\ pushed => buf'[i] = Append(buf[i], n)
      /\ ~pushed => buf' = buf
      /\ \A j \in Inputs(graph) : j # i => buf'[j] = buf[j]
  BY <1>0 DEF Push
<1>10. /\ In(m, Append(buf[i], n)) <=> In(m, buf[i]) \/ m = n
       /\ HasFlush(Append(buf[i], n)) <=> HasFlush(buf[i]) \/ n.kind = "flush"
       /\ n.kind = "flush" /\ m # n => Behind(m, Append(buf[i], n))
       /\ Behind(m, buf[i]) /\ m # n => Behind(m, Append(buf[i], n))
  <2>1. PICK q \in Seq(Message) : q = buf[i]
    BY <1>0
  <2> HIDE DEF i, pushed
  <2>2. /\ In(m, Append(q, n)) <=> In(m, q) \/ m = n
        /\ HasFlush(Append(q, n)) <=> HasFlush(q) \/ n.kind = "flush"
        /\ n.kind = "flush" /\ m # n => Behind(m, Append(q, n))
        /\ Behind(m, q) /\ m # n => Behind(m, Append(q, n))
    BY ONLY q \in Seq(Message), n \in Message, OfAppend
  <2> QED BY <2>1, <2>2
<1>2. Outcome(o, n) = "dropped" => Follows(o) /\ ~IsData(n) /\ ~follow[o] /\ o \notin D /\ n # m
  BY DEF Outcome, Passes
<1>3. /\ \A u \in Outlets(graph) : u # o => follow'[u] = follow[u]
      /\ pushed /\ Follows(o) => follow'[o] = IsData(n)
      /\ Outcome(o, n) \notin {"pushed", "dropped"} => follow' = follow
  BY <1>0 DEF Push, Judged
<1>4. /\ D2 \subseteq H2 /\ H2 \subseteq Outlets(graph) /\ H \subseteq H2
      /\ \A u \in D2 : u # o => u \in D
      /\ \A u \in D : u # o => u \in D2
      /\ o \in D2 => o \in D \/ (pushed /\ n = m)
      /\ pushed /\ n = m => o \in D2
      /\ o \in D /\ o \notin D2 => pushed /\ n.kind = "flush" /\ n # m
      /\ n.kind = "flush" /\ pushed => o \notin D2
      /\ ~pushed => D2 = D
  BY <1>0 DEF Reach, Due, IsData
<1> HIDE DEF i, pushed
<1>5. ASSUME NEW j \in Inputs(graph)
      PROVE  (In(m, buf[j]) => In(m, buf'[j])) /\ (HasFlush(buf[j]) => HasFlush(buf'[j]))
  <2>1. CASE buf'[j] = buf[j]
    BY <2>1
  <2>2. CASE j = i /\ buf'[i] = Append(buf[i], n)
    BY <1>10, <2>2
  <2> QED BY <1>1, <2>1, <2>2
<1>6. /\ pushed /\ n = m => In(m, buf'[i])
      /\ pushed /\ n.kind = "flush" => HasFlush(buf'[i])
  BY <1>0, <1>1, <1>10
<1>7. \A y : Coming(y, D) => Coming(y, D2)'
  <2> SUFFICES ASSUME NEW y, NEW j \in Inputs(graph), j[1] = y, HasFlush(buf[j]) \/ \E u \in D : To(u) = j
               PROVE  HasFlush(buf'[j]) \/ \E u \in D2 : To(u) = j
    BY <1>0 DEF Coming
  <2> QED BY <1>0, <1>4, <1>5, <1>6 DEF i
<1>8. ASSUME NEW j \in Inputs(graph) PROVE Behind(m, buf'[j]) \/ \E u \in D2 : To(u) = j
  <2>1. CASE j # i
    BY <1>1, <1>4, <2>1 DEF Followed, i
  <2>2. CASE j = i
    <3>1. CASE ~pushed
      BY <1>1, <1>4, <2>2, <3>1 DEF Followed, i
    <3>2. CASE pushed /\ n = m
      BY <1>4, <2>2, <3>2 DEF i
    <3>3. CASE pushed /\ n # m
      <4>1. (n.kind = "flush" \/ Behind(m, buf[i])) => Behind(m, buf'[i])
        BY <1>1, <1>10, <3>3
      <4>2. Behind(m, buf[i]) \/ \E u \in D : To(u) = i
        BY <1>0 DEF Followed
      <4> QED BY <1>4, <2>2, <3>3, <4>1, <4>2
    <3> QED BY <3>1, <3>2, <3>3
  <2> QED BY <2>1, <2>2
<1>9. ASSUME NEW u \in D2, Follows(u) PROVE follow'[u]
  <2>1. CASE u # o
    BY <1>3, <1>4, <1>9, <2>1
  <2>2. CASE u = o
    <3>1. CASE pushed
      BY <1>0, <1>3, <1>4, <1>9, <2>2, <3>1 DEF IsData
    <3>2. CASE ~pushed
      BY <1>2, <1>3, <1>4, <1>9, <2>2, <3>2 DEF pushed
    <3> QED BY <3>1, <3>2
  <2> QED BY <2>1, <2>2
<1> QED
  BY <1>0, <1>2, <1>4, <1>5, <1>6, <1>7, <1>8, <1>9 DEF Followed, i, pushed

\* A node's push: what came through its outlet went on from the node, and what is
\* due there, or was when m came, the node still owes or is to get.
LEMMA FlowFed ==
  ASSUME GraphOK, Types, StackInv, FollowInv, Next, NEW w \in Writers(graph), NEW m, IsData(m),
         NEW H, NEW D, FlowInv(w, m, H, D), NEW x \in Nodes(graph) \cap alive, NodeStep(x), NEW s, NEW k,
         NEW n, n.kind # "marker", Pushing(x, s, k, n), Source(x, s, k, n), SignalAt(x)
  PROVE  \E H2, D2 : FlowInv(w, m, H2, D2)' /\ (<<w, 1, 1>> \in D2 => <<w, 1, 1>> \in D)
<1>0. /\ graph' = graph /\ alive' = alive /\ s \in Sides(x) /\ k \in DOMAIN graph.outs[x][s] /\ n \in Message
      /\ x \in Parts(graph) /\ w \in Parts(graph) /\ w # x /\ kept'[x] = kept[x] /\ follow \in [Outlets(graph) -> BOOLEAN]
  BY KindsDiffer DEF Pushing, FollowInv
<1>1. PICK o : o = <<x, s, k>>
  OBVIOUS
<1>2. PICK H2 : H2 = Reach(H, o, n, m)
  OBVIOUS
<1>3. PICK D2 : D2 = Due(D, o, n, m)
  OBVIOUS
<1>4. /\ o \in Outlets(graph) /\ <<w, 1, 1>> # o
      /\ Push(o, n) \/ (Outcome(o, n) = "stuck" /\ UNCHANGED <<buf, follow>>)
  BY <1>0, <1>1, OutletShape DEF Pushing, Rotate, edgeVars
<1>5. /\ D \subseteq H /\ H \subseteq Outlets(graph) /\ <<w, 1, 1>> \in H
      /\ Borne(m, H) /\ Owing(w, D) /\ Followed(m, D) /\ FlushedOut(m, D) /\ \A u \in D : Follows(u) => follow[u]
  BY DEF FlowInv
<1>6. /\ D2 \subseteq H2 /\ H2 \subseteq Outlets(graph) /\ H \subseteq H2
      /\ Followed(m, D2)' /\ \A u \in D2 : Follows(u)' => follow'[u]
      /\ \A y : Coming(y, D) => Coming(y, D2)'
      /\ \A i \in Inputs(graph) : In(m, buf[i]) => In(m, buf'[i])
      /\ Outcome(o, n) = "pushed" /\ n = m => o \in D2 /\ In(m, buf'[To(o)])
      /\ o \in D2 => o \in D \/ (Outcome(o, n) = "pushed" /\ n = m)
      /\ \A u \in D2 : u # o => u \in D
      /\ o \in D /\ n.kind = "flush" /\ Outcome(o, n) \in {"pushed", "dropped"} => o \notin D2
      /\ Outcome(o, n) = "dropped" => n # m
  BY <1>0, <1>2, <1>3, <1>4, <1>5, FlowPush
<1> DEFINE Out(r) == DOMAIN graph.outs[x][r]
<1>7. /\ \A j \in Out(s) : ~(Taken(x, s, k, n) /\ j = k) =>
           (Has(m, x, s, j) => Has(m, x, s, j)') /\ (Brings(x, s, j) => Brings(x, s, j)')
      /\ Has(m, x, s, k) => Has(m, x, s, k)' \/ m = n
      /\ Brings(x, s, k) => Brings(x, s, k)' \/ n.kind = "flush"
      /\ \A j \in Out(s) : Has(m, x, s, j)' => Has(m, x, s, j) /\ pending'[x][s] = pending[x][s]
      /\ IsData(n) => Has(n, x, s, k) /\ pending'[x][s] = pending[x][s]
      /\ \A r \in Sides(x) : r # s =>
           /\ pending'[x][r] = pending[x][r]
           /\ \A j \in Out(r) : (Has(m, x, r, j)' <=> Has(m, x, r, j)) /\ (Brings(x, r, j)' <=> Brings(x, r, j))
  BY PushHas
<1>8. \A y : Sides(y)' = Sides(y) /\ \A i : i \in Inputs(graph)' <=> i \in Inputs(graph)
  BY <1>0 DEF Sides
<1>9. \A u : To(u)' = To(u)
  BY <1>0 DEF To
<1>10. /\ o \in H2 => o \in H \/ (Outcome(o, n) = "pushed" /\ n = m)
       /\ Outcome(o, n) = "pushed" /\ n = m => o \in H2
       /\ \A u \in H2 : u # o => u \in H
  BY <1>2 DEF Reach
<1> HIDE DEF Out
<1>11. ASSUME NEW y \in Nodes(graph) \cap alive, y # x
       PROVE  /\ kept'[y] = kept[y] /\ pending'[y] = pending[y]
              /\ \A r \in Sides(y) : \A j \in DOMAIN graph.outs[y][r] :
                   (Has(m, y, r, j)' <=> Has(m, y, r, j)) /\ (Brings(y, r, j)' <=> Brings(y, r, j))
  <2>1. Rests(y) /\ y \in alive'
    BY <1>0, <1>11 DEF Rests
  <2>2. Same(y)
    BY <2>1, RestsSame
  <2> QED BY <2>2 DEF Same, Has, Brings
<1>12. Owing(w, D2)'
  <2> SUFFICES ASSUME NEW u \in D2
               PROVE  \/ u = <<w, 1, 1>> /\ w \in alive'
                      \/ u[1] \in Nodes(graph) \cap alive /\ (Brings(u[1], u[2], u[3])' \/ Coming(u[1], D2)')
    BY <1>0 DEF Owing
  <2>1. CASE u \in D /\ u = <<w, 1, 1>> /\ w \in alive
    BY <1>0, <2>1
  <2>2. CASE u \in D /\ u[1] \in Nodes(graph) \cap alive /\ (Brings(u[1], u[2], u[3]) \/ Coming(u[1], D))
    <3>0. u \in Outlets(graph)
      BY <1>5, <2>2
    <3>1. CASE Coming(u[1], D)
      BY <1>6, <2>2, <3>1
    <3>2. CASE u[1] # x /\ Brings(u[1], u[2], u[3])
      BY <1>11, <2>2, <3>0, <3>2, OutletShape
    <3>3. CASE u[1] = x /\ u # o /\ Brings(u[1], u[2], u[3])
      <4>1. u[2] \in Sides(x) /\ u[3] \in Out(u[2]) /\ u = <<x, u[2], u[3]>>
        BY <3>0, <3>3, OutletShape DEF Out
      <4>2. u[2] # s \/ u[3] # k
        BY <1>1, <3>3, <4>1
      <4> QED BY <1>7, <2>2, <3>3, <4>1, <4>2 DEF Out
    <3>4. CASE u = o /\ Brings(u[1], u[2], u[3])
      <4>1. u[1] = x /\ u[2] = s /\ u[3] = k
        BY <1>1, <3>4
      <4>2. Taken(x, s, k, n) => n.kind # "flush"
        BY <1>1, <1>6, <2>2, <3>4 DEF Taken
      <4>3. Brings(x, s, k)'
        BY <1>0, <1>7, <3>4, <4>1, <4>2 DEF Out
      <4> QED BY <2>2, <4>1, <4>3
    <3> QED BY <2>2, <3>1, <3>2, <3>3, <3>4
  <2>3. CASE u \notin D
    <3>1. u = o /\ n = m /\ u[1] = x /\ u[2] = s /\ u[3] = k
      BY <1>1, <1>6, <2>3
    <3>2. HasFlush(pending[x][s]) \/ Coming(x, D)
      BY <1>0, <1>5, <1>7, <3>1 DEF FlushedOut
    <3>3. Brings(x, s, k)' \/ Coming(x, D2)'
      BY <1>6, <1>7, <3>1, <3>2 DEF Brings
    <3> QED BY <1>0, <3>1, <3>3
  <2> QED BY <1>5, <2>1, <2>2, <2>3 DEF Owing
<1>13. FlushedOut(m, D2)'
  <2> SUFFICES ASSUME NEW y \in Nodes(graph) \cap alive
               PROVE  /\ In(m, kept'[y]) => Coming(y, D2)'
                      /\ \A r \in Sides(y) : \A j \in DOMAIN graph.outs[y][r] :
                           Has(m, y, r, j)' => HasFlush(pending'[y][r]) \/ Coming(y, D2)'
    BY <1>0, <1>8 DEF FlushedOut
  <2>1. /\ In(m, kept[y]) => Coming(y, D)
        /\ \A r \in Sides(y) : \A j \in DOMAIN graph.outs[y][r] :
             Has(m, y, r, j) => HasFlush(pending[y][r]) \/ Coming(y, D)
    BY <1>5 DEF FlushedOut
  <2>2. CASE y # x
    BY <1>6, <1>11, <2>1, <2>2
  <2>3. CASE y = x
    <3>1. ASSUME NEW r \in Sides(y), NEW j \in DOMAIN graph.outs[y][r], Has(m, y, r, j)'
          PROVE  HasFlush(pending'[y][r]) \/ Coming(y, D2)'
      <4>1. Has(m, y, r, j) /\ pending'[y][r] = pending[y][r]
        BY <1>7, <2>3, <3>1 DEF Out
      <4> QED BY <1>6, <2>1, <4>1
    <3> QED BY <1>0, <1>6, <2>1, <2>3, <3>1
  <2> QED BY <2>2, <2>3
<1>14. Borne(m, H2)'
  <2> SUFFICES ASSUME NEW u \in H2
               PROVE  In(m, buf'[To(u)]) \/ (To(u)[1] \in Nodes(graph) /\ Carried(m, To(u)[1], H2)')
    BY <1>0, <1>9 DEF Borne
  <2>0. u \in Outlets(graph) /\ To(u) \in Inputs(graph)
    BY <1>6, OutletShape
  <2>1. CASE u \notin H
    BY <1>6, <1>10, <2>1
  <2>2. CASE u \in H /\ In(m, buf[To(u)])
    BY <1>6, <2>0, <2>2
  <2>3. CASE u \in H /\ To(u)[1] \in Nodes(graph) /\ Carried(m, To(u)[1], H)
    <3>1. PICK y : y = To(u)[1]
      OBVIOUS
    <3>4. Carried(m, y, H2)' <=>
            \/ y \in alive /\ In(m, kept'[y])
            \/ \E r \in Sides(y) : \A j \in DOMAIN graph.outs[y][r] :
                 <<y, r, j>> \in H2 \/ (y \in alive /\ Has(m, y, r, j)')
      BY <1>0, <1>8 DEF Carried
    <3>2. ASSUME y \in alive, In(m, kept[y]) PROVE Carried(m, y, H2)'
      <4>1. kept'[y] = kept[y]
        BY <1>0, <1>11, <2>3, <3>1, <3>2
      <4> QED BY <3>2, <3>4, <4>1
    <3>3. ASSUME NEW r \in Sides(y),
                 \A j \in DOMAIN graph.outs[y][r] : <<y, r, j>> \in H \/ (y \in alive /\ Has(m, y, r, j))
          PROVE  Carried(m, y, H2)'
      <4>1. ASSUME NEW j \in DOMAIN graph.outs[y][r], <<y, r, j>> \notin H
            PROVE  <<y, r, j>> \in H2 \/ (y \in alive /\ Has(m, y, r, j)')
        <5>1. y \in alive /\ Has(m, y, r, j)
          BY <3>3, <4>1
        <5>2. CASE y # x
          BY <1>11, <2>3, <3>1, <5>1, <5>2
        <5>3. CASE y = x /\ r # s
          BY <1>7, <5>1, <5>3 DEF Out
        <5>4. CASE y = x /\ r = s
          <6>1. CASE ~(Taken(x, s, k, n) /\ j = k)
            BY <1>7, <5>1, <5>4, <6>1 DEF Out
          <6>2. CASE Taken(x, s, k, n) /\ j = k
            BY <1>1, <1>6, <1>7, <1>10, <5>1, <5>4, <6>2 DEF Taken
          <6> QED BY <6>1, <6>2
        <5> QED BY <5>2, <5>3, <5>4
      <4> QED BY <1>6, <3>4, <4>1
    <3> QED BY <1>9, <2>3, <3>1, <3>2, <3>3 DEF Carried
  <2> QED BY <1>5, <2>1, <2>2, <2>3 DEF Borne
<1> QED
  BY <1>0, <1>4, <1>5, <1>6, <1>12, <1>13, <1>14 DEF FlowInv

\* Without a loop a routine's output is what it turned, as it was.
LEMMA EmitsAll ==
  ASSUME GraphOK, Types, NEW x \in Nodes(graph), \A s \in Sides(x) : made[x][s] = <<>> /\ ~Loops(x, s),
         NEW q \in Seq(Message), Emits(x, q)
  PROVE  \E s \in Sides(x) : made'[x][s] = q /\ \A r \in Sides(x) : r # s => made'[x][r] = <<>>
<1>1. /\ DOMAIN made = Nodes(graph) /\ made[x] \in [Sides(x) -> Seq(Message)]
  BY DEF Types, RoutineTypes
<1>2. PICK s \in Sides(x) :
        made' = [made EXCEPT ![x][s] = @ \o [k \in DOMAIN q |-> [q[k] EXCEPT !.turn = @ + IF Loops(x, s) THEN 1 ELSE 0]]]
  BY DEF Emits
<1>3. PICK l : l = [k \in DOMAIN q |-> [q[k] EXCEPT !.turn = @ + IF Loops(x, s) THEN 1 ELSE 0]]
  OBVIOUS
<1>4. ~Loops(x, s)
  OBVIOUS
<1>5. ASSUME NEW n \in Message PROVE [n EXCEPT !.turn = @ + 0] = n
  <2>1. n.turn \in Nat
    BY WorkGraphAssumption DEF Message
  <2>2. n.turn + 0 = n.turn
    BY <2>1
  <2> QED BY <2>2 DEF Message
<1>6. \A k \in DOMAIN q : q[k] \in Message
  OBVIOUS
<1>7. l = [k \in DOMAIN q |-> q[k]]
  BY <1>3, <1>4, <1>5, <1>6
<1>8. l = q
  BY <1>7
<1>9. <<>> \o q = q
  OBVIOUS
<1>10. made'[x][s] = <<>> \o l /\ \A r \in Sides(x) : r # s => made'[x][r] = <<>>
  BY <1>1, <1>2, <1>3
<1> QED
  BY <1>8, <1>9, <1>10

\* What a take does: the data is kept, or goes out behind all that was kept; a
\* Flush brings out what was kept and is owed on every side.
Took(x, n) ==
  /\ \A s \in Sides(x) : /\ pending[x][s] = <<>> /\ made[x][s] = <<>>
                         /\ \A k : LeftTo(x, s, k) = <<>> /\ LeftTo(x, s, k)' = <<>>
  /\ \/ /\ n.kind = "data" /\ \A s \in Sides(x) : pending'[x][s] = <<>>
        /\ \/ kept'[x] = Append(kept[x], n) /\ \A s \in Sides(x) : made'[x][s] = <<>>
           \/ /\ kept'[x] = <<>>
              /\ \E s \in Sides(x) : /\ made'[x][s] = Append(kept[x], n)
                                     /\ \A r \in Sides(x) : r # s => made'[x][r] = <<>>
     \/ /\ n.kind = "flush" /\ \A s \in Sides(x) : pending'[x][s] = <<n>>
        /\ kept'[x] = <<>>
        /\ \E s \in Sides(x) : /\ made'[x][s] = kept[x]
                               /\ \A r \in Sides(x) : r # s => made'[x][r] = <<>>

LEMMA TookShape ==
  ASSUME GraphOK, Types, Acyclic, NEW x \in Nodes(graph) \cap alive, Takes(x), ClearAt(x),
         NEW n, n = Head(buf[<<x, pc[x].i>>]), n.kind \in {"data", "flush"}
  PROVE  Took(x, n)
<1>0. /\ graph' = graph /\ x \in Parts(graph) /\ held' = held /\ Accept(x, n)
      /\ pc' = Goto(x, Entered) /\ pc[x].at = "input" /\ pc \in [Parts(graph) -> Frames]
      /\ buf[<<x, pc[x].i>>] # <<>>
  BY KindsDiffer DEF Takes, Running, Types, FrameTypes
<1>1. /\ kept[x] \in Seq(Message) /\ DOMAIN kept = Nodes(graph) /\ DOMAIN pending = Nodes(graph)
      /\ n \in Message
  <2>1. pc[x].i \in 1 .. NumInputs(x) /\ DOMAIN graph.bound[x] = 1 .. NumInputs(x)
    BY <1>0, OutletShape DEF Types, FrameTypes, FrameOK
  <2>2. buf[<<x, pc[x].i>>] \in Seq(Message)
    BY <1>0, <2>1, OutletShape DEF Types, EdgeTypes
  <2> QED BY <1>0, <2>2 DEF Types, RoutineTypes
<1>2. \A s \in Sides(x) : held[x][s] = <<>> /\ made[x][s] = <<>> /\ pending[x][s] = <<>> /\ ~Loops(x, s)
  BY <1>0 DEF ClearAt, NothingOn, Acyclic
<1>3. \A s \in Sides(x) : Going(x, s)' = <<>> /\ Going(x, s) = <<>>
  <2>1. pc'[x].at = "round"
    BY <1>0, IdleFrames, GotoFrames
  <2> QED BY <1>0, <1>2, <2>1 DEF Going
<1>4. \A s \in Sides(x) : \A k : LeftTo(x, s, k) = <<>> /\ LeftTo(x, s, k)' = <<>>
  BY <1>3 DEF LeftTo
<1>5. CASE n.kind = "data"
  <2>1. Sends(x, n) /\ pending' = pending
    BY <1>0, <1>5 DEF Accept, Sends
  <2>2. CASE kept' = [kept EXCEPT ![x] = Append(@, n)] /\ made' = made
    BY <1>1, <1>2, <1>4, <1>5, <2>1, <2>2 DEF Took
  <2>3. CASE Emits(x, Append(kept[x], n)) /\ kept' = [kept EXCEPT ![x] = <<>>]
    <3>1. Append(kept[x], n) \in Seq(Message)
      BY <1>1
    <3>2. \E s \in Sides(x) : /\ made'[x][s] = Append(kept[x], n)
                              /\ \A r \in Sides(x) : r # s => made'[x][r] = <<>>
      BY <1>2, <2>3, <3>1, EmitsAll
    <3> QED BY <1>1, <1>2, <1>4, <1>5, <2>1, <2>3, <3>2 DEF Took
  <2> QED BY <2>1, <2>2, <2>3 DEF Sends
<1>6. CASE n.kind = "flush"
  <2>1. Emits(x, kept[x]) /\ kept' = [kept EXCEPT ![x] = <<>>] /\ Owes(x, n)
    BY <1>0, <1>6 DEF Accept
  <2>2. \E s \in Sides(x) : made'[x][s] = kept[x] /\ \A r \in Sides(x) : r # s => made'[x][r] = <<>>
    BY <1>1, <1>2, <2>1, EmitsAll
  <2>3. \A s \in Sides(x) : pending'[x][s] = <<n>>
    BY <1>1, <2>1 DEF Owes
  <2> QED BY <1>1, <1>2, <1>4, <1>6, <2>1, <2>2, <2>3 DEF Took
<1> QED
  BY <1>5, <1>6

\* A take: what came in the node holds, and a Flush that came for it is owed.
LEMMA FlowTook ==
  ASSUME GraphOK, Types, StackInv, Acyclic, Next, NEW w \in Writers(graph), NEW m, IsData(m),
         NEW H, NEW D, FlowInv(w, m, H, D), NEW x \in Nodes(graph) \cap alive, Takes(x), ClearAt(x),
         Head(buf[<<x, pc[x].i>>]).kind # "marker"
  PROVE  FlowInv(w, m, H, D)'
<1>0. /\ graph' = graph /\ alive' = alive /\ follow' = follow /\ FrameOK(x, pc[x]) /\ NodeStep(x)
      /\ x \in Parts(graph)
  BY KindsDiffer DEF Takes, Pop, NodeStep, Types, FrameTypes
<1>1. PICK i : i = <<x, pc[x].i>>
  OBVIOUS
<1>2. /\ i \in Inputs(graph) /\ buf[i] # <<>> /\ i[1] = x
      /\ buf'[i] = Tail(buf[i]) /\ \A j \in Inputs(graph) : j # i => buf'[j] = buf[j]
      /\ buf[i] \in Seq(Message)
  <2>1. pc[x].i \in 1 .. NumInputs(x) /\ DOMAIN graph.bound[x] = 1 .. NumInputs(x)
    BY <1>0, OutletShape DEF Takes, Running, FrameOK
  <2>2. i \in Inputs(graph) /\ buf[i] # <<>> /\ i[1] = x /\ Pop(i)
    BY <1>0, <1>1, <2>1, OutletShape DEF Takes
  <2> QED BY <2>2 DEF Pop, Types, EdgeTypes
<1>3. PICK n : n = Head(buf[i])
  OBVIOUS
<1>4. n.kind \in {"data", "flush"} /\ n \in Message
  <2>1. n \in Message
    BY <1>2, <1>3
  <2> QED BY <1>1, <1>3, <2>1 DEF Message, Kinds
<1>5. /\ D \subseteq H /\ H \subseteq Outlets(graph) /\ <<w, 1, 1>> \in H
      /\ Borne(m, H) /\ Owing(w, D) /\ Followed(m, D) /\ FlushedOut(m, D) /\ \A u \in D : Follows(u) => follow[u]
  BY DEF FlowInv
<1>6. /\ In(m, buf[i]) => In(m, buf'[i]) \/ m = n
      /\ HasFlush(buf[i]) => HasFlush(buf'[i]) \/ n.kind = "flush"
      /\ Behind(m, buf[i]) => Behind(m, buf'[i]) /\ (m = n => HasFlush(buf'[i]))
  BY <1>2, <1>3, OfTail
<1>7. Took(x, n)
  BY <1>1, <1>3, <1>4, TookShape
<1>8. \A y : Sides(y)' = Sides(y)
  BY <1>0 DEF Sides
<1>9. \A u : To(u)' = To(u) /\ Follows(u)' = Follows(u)
  BY <1>0 DEF To, Follows
<1>10. ASSUME NEW y \in Nodes(graph) \cap alive, y # x
       PROVE  /\ kept'[y] = kept[y] /\ pending'[y] = pending[y]
              /\ \A r \in Sides(y) : \A j \in DOMAIN graph.outs[y][r] :
                   (Has(m, y, r, j)' <=> Has(m, y, r, j)) /\ (Brings(y, r, j)' <=> Brings(y, r, j))
  <2>1. Rests(y) /\ y \in alive'
    BY <1>0, <1>10 DEF Rests
  <2>2. Same(y)
    BY <2>1, RestsSame
  <2> QED BY <2>2 DEF Same, Has, Brings
<1>11. /\ \A y : y # x /\ Coming(y, D) => Coming(y, D)'
       /\ Coming(x, D) => Coming(x, D)' \/ n.kind = "flush"
  <2> SUFFICES ASSUME NEW j \in Inputs(graph), HasFlush(buf[j]) \/ \E u \in D : To(u) = j
               PROVE  HasFlush(buf'[j]) \/ (\E u \in D : To(u) = j) \/ (j[1] = x /\ n.kind = "flush")
    BY <1>0, <1>9 DEF Coming
  <2> QED BY <1>2, <1>6
<1>12. \A k \in Sides(x) : \A j : /\ Has(m, x, k, j)' <=> In(m, made'[x][k])
                                  /\ ~Has(m, x, k, j)
                                  /\ ~Brings(x, k, j)
                                  /\ Brings(x, k, j)' <=> HasFlush(pending'[x][k])
  BY <1>7, OfNone DEF Took, Has, Brings
<1>13. kept[x] \in Seq(Message)
  BY DEF Types, RoutineTypes
<1>14. In(m, Append(kept[x], n)) <=> In(m, kept[x]) \/ m = n
  BY <1>4, <1>13, OfAppend
<1>15. ASSUME n.kind = "flush" PROVE \A s \in Sides(x) : HasFlush(pending'[x][s])
  BY <1>7, <1>15, OfOne DEF Took
<1>16. Followed(m, D)'
  <2> SUFFICES ASSUME NEW j \in Inputs(graph) PROVE Behind(m, buf'[j]) \/ \E u \in D : To(u) = j
    BY <1>0, <1>9 DEF Followed
  <2> QED BY <1>2, <1>5, <1>6 DEF Followed
<1>17. Owing(w, D)'
  <2> SUFFICES ASSUME NEW u \in D
               PROVE  \/ u = <<w, 1, 1>> /\ w \in alive
                      \/ u[1] \in Nodes(graph) \cap alive /\ (Brings(u[1], u[2], u[3])' \/ Coming(u[1], D)')
    BY <1>0 DEF Owing
  <2>0. u \in Outlets(graph)
    BY <1>5
  <2>1. u[2] \in Sides(u[1]) /\ u[3] \in DOMAIN graph.outs[u[1]][u[2]]
    BY <2>0, OutletShape
  <2>2. CASE u[1] # x
    BY <1>5, <1>10, <1>11, <2>1, <2>2 DEF Owing
  <2>3. CASE u[1] = x /\ u # <<w, 1, 1>>
    <3>1. Coming(x, D) /\ u[2] \in Sides(x)
      BY <1>5, <1>12, <2>1, <2>3 DEF Owing
    <3> QED BY <1>11, <1>12, <1>15, <2>3, <3>1
  <2>4. CASE u = <<w, 1, 1>> /\ u[1] = x
    BY <2>4, KindsDiffer
  <2> QED BY <2>2, <2>3, <2>4
<1>18. FlushedOut(m, D)'
  <2> SUFFICES ASSUME NEW y \in Nodes(graph) \cap alive
               PROVE  /\ In(m, kept'[y]) => Coming(y, D)'
                      /\ \A r \in Sides(y) : \A j \in DOMAIN graph.outs[y][r] :
                           Has(m, y, r, j)' => HasFlush(pending'[y][r]) \/ Coming(y, D)'
    BY <1>0, <1>8 DEF FlushedOut
  <2>1. /\ In(m, kept[y]) => Coming(y, D)
        /\ \A r \in Sides(y) : \A j \in DOMAIN graph.outs[y][r] :
             Has(m, y, r, j) => HasFlush(pending[y][r]) \/ Coming(y, D)
    BY <1>5 DEF FlushedOut
  <2>2. CASE y # x
    BY <1>10, <1>11, <2>1, <2>2
  <2>3. CASE y = x /\ n.kind = "flush"
    BY <1>4, <1>7, <1>15, <2>3, OfNone DEF Took
  <2>4. CASE y = x /\ n.kind = "data"
    <3>1. m = n => Coming(x, D)'
      <4> SUFFICES ASSUME m = n PROVE HasFlush(buf'[i]) \/ \E u \in D : To(u) = i
        BY <1>0, <1>2, <1>9 DEF Coming
      <4> QED BY <1>2, <1>5, <1>6 DEF Followed
    <3>2. In(m, kept[x]) \/ m = n => Coming(x, D)'
      BY <1>11, <2>1, <2>4, <3>1
    <3>3. \/ kept'[x] = Append(kept[x], n) /\ \A s \in Sides(x) : made'[x][s] = <<>>
          \/ /\ kept'[x] = <<>>
             /\ \A s \in Sides(x) : made'[x][s] = Append(kept[x], n) \/ made'[x][s] = <<>>
      BY <1>7, <2>4 DEF Took
    <3>4. /\ In(m, kept'[x]) => In(m, kept[x]) \/ m = n
          /\ \A s \in Sides(x) : In(m, made'[x][s]) => In(m, kept[x]) \/ m = n
      BY <1>14, <3>3, OfNone
    <3> QED BY <1>12, <2>4, <3>2, <3>4
  <2> QED BY <1>4, <2>2, <2>3, <2>4
<1>19. Borne(m, H)'
  <2> SUFFICES ASSUME NEW u \in H
               PROVE  In(m, buf'[To(u)]) \/ (To(u)[1] \in Nodes(graph) /\ Carried(m, To(u)[1], H)')
    BY <1>0, <1>9 DEF Borne
  <2>0. u \in Outlets(graph) /\ To(u) \in Inputs(graph)
    BY <1>5, OutletShape
  <2>1. PICK y : y = To(u)[1]
    OBVIOUS
  <2>2. Carried(m, y, H)' <=>
            \/ y \in alive /\ In(m, kept'[y])
            \/ \E r \in Sides(y) : \A j \in DOMAIN graph.outs[y][r] :
                 <<y, r, j>> \in H \/ (y \in alive /\ Has(m, y, r, j)')
    BY <1>0, <1>8 DEF Carried
  <2>3. In(m, kept[x]) \/ (n.kind = "data" /\ m = n) => Carried(m, x, H)'
    <3> SUFFICES ASSUME In(m, kept[x]) \/ (n.kind = "data" /\ m = n)
                 PROVE  In(m, kept'[x]) \/ \E r \in Sides(x) : In(m, made'[x][r])
      BY <1>0, <1>8, <1>12 DEF Carried
    <3> QED BY <1>7, <1>14 DEF Took
  <2>4. CASE In(m, buf[To(u)])
    <3>1. CASE To(u) # i \/ In(m, buf'[i])
      BY <1>2, <2>0, <2>4, <3>1
    <3>2. CASE To(u) = i /\ m = n
      <4>1. Carried(m, x, H)' /\ y = x
        BY <1>2, <1>4, <2>1, <2>3, <3>2 DEF IsData
      <4> QED BY <1>9, <2>1, <4>1
    <3> QED BY <1>6, <2>4, <3>1, <3>2
  <2>5. CASE y \in Nodes(graph) /\ Carried(m, y, H)
    <3>1. Carried(m, y, H)'
      <4>1. CASE y = x /\ In(m, kept[x])
        BY <2>3, <4>1
      <4>2. CASE y # x /\ y \in alive /\ In(m, kept[y])
        BY <1>10, <2>2, <2>5, <4>2
      <4>3. ASSUME NEW r \in Sides(y),
                   \A j \in DOMAIN graph.outs[y][r] : <<y, r, j>> \in H \/ (y \in alive /\ Has(m, y, r, j))
            PROVE  Carried(m, y, H)'
        <5>1. CASE y = x
          BY <1>12, <2>2, <4>3, <5>1
        <5>2. CASE y # x
          BY <1>10, <2>2, <2>5, <4>3, <5>2
        <5> QED BY <5>1, <5>2
      <4> QED BY <2>5, <4>1, <4>2, <4>3 DEF Carried
    <3> QED BY <1>9, <2>1, <2>5, <3>1
  <2> QED BY <1>5, <2>1, <2>4, <2>5 DEF Borne
<1> QED
  BY <1>0, <1>5, <1>9, <1>16, <1>17, <1>18, <1>19 DEF FlowInv

\* Every node left as it was: what is on the edges settles the rest.
LEMMA FlowRests ==
  ASSUME GraphOK, NEW w, NEW m, NEW H, NEW D, FlowInv(w, m, H, D), graph' = graph, alive' = alive,
         \A y \in Nodes(graph) \cap alive : Same(y), NEW D2, D2 \subseteq D,
         Followed(m, D2)', \A u \in D2 : Follows(u)' => follow'[u], \A y : Coming(y, D) => Coming(y, D2)',
         \A i \in Inputs(graph) : In(m, buf[i]) => In(m, buf'[i])
  PROVE  FlowInv(w, m, H, D2)'
<1>1. /\ D \subseteq H /\ H \subseteq Outlets(graph) /\ <<w, 1, 1>> \in H
      /\ Borne(m, H) /\ Owing(w, D) /\ FlushedOut(m, D)
  BY DEF FlowInv
<1>2. \A y : Sides(y)' = Sides(y)
  BY DEF Sides
<1>3. \A u : To(u)' = To(u)
  BY DEF To
<1>4. ASSUME NEW y \in Nodes(graph) \cap alive
      PROVE  /\ kept'[y] = kept[y] /\ pending'[y] = pending[y]
             /\ \A r \in Sides(y) : \A j \in DOMAIN graph.outs[y][r] :
                  (Has(m, y, r, j)' <=> Has(m, y, r, j)) /\ (Brings(y, r, j)' <=> Brings(y, r, j))
  BY DEF Same, Has, Brings
<1>5. Owing(w, D2)'
  <2> SUFFICES ASSUME NEW u \in D2
               PROVE  \/ u = <<w, 1, 1>> /\ w \in alive
                      \/ u[1] \in Nodes(graph) \cap alive /\ (Brings(u[1], u[2], u[3])' \/ Coming(u[1], D2)')
    BY DEF Owing
  <2>0. u \in Outlets(graph)
    BY <1>1
  <2>1. u[2] \in Sides(u[1]) /\ u[3] \in DOMAIN graph.outs[u[1]][u[2]]
    BY <2>0, OutletShape
  <2> QED BY <1>1, <1>4, <2>1 DEF Owing
<1>6. FlushedOut(m, D2)'
  <2> SUFFICES ASSUME NEW y \in Nodes(graph) \cap alive
               PROVE  /\ In(m, kept'[y]) => Coming(y, D2)'
                      /\ \A r \in Sides(y) : \A j \in DOMAIN graph.outs[y][r] :
                           Has(m, y, r, j)' => HasFlush(pending'[y][r]) \/ Coming(y, D2)'
    BY <1>2 DEF FlushedOut
  <2> QED BY <1>1, <1>4 DEF FlushedOut
<1>7. Borne(m, H)'
  <2> SUFFICES ASSUME NEW u \in H
               PROVE  In(m, buf'[To(u)]) \/ (To(u)[1] \in Nodes(graph) /\ Carried(m, To(u)[1], H)')
    BY <1>3 DEF Borne
  <2>0. u \in Outlets(graph) /\ To(u) \in Inputs(graph)
    BY <1>1, OutletShape
  <2>1. PICK y : y = To(u)[1]
    OBVIOUS
  <2>2. Carried(m, y, H)' <=>
            \/ y \in alive /\ In(m, kept'[y])
            \/ \E r \in Sides(y) : \A j \in DOMAIN graph.outs[y][r] :
                 <<y, r, j>> \in H \/ (y \in alive /\ Has(m, y, r, j)')
    BY <1>2 DEF Carried
  <2>3. y \in Nodes(graph) /\ Carried(m, y, H) => Carried(m, y, H)'
    BY <1>4, <2>2 DEF Carried
  <2> QED BY <1>1, <1>3, <2>0, <2>1, <2>3 DEF Borne
<1> QED
  BY <1>1, <1>5, <1>6, <1>7 DEF FlowInv

\* A write, of a message that is not m.
LEMMA FlowWrote ==
  ASSUME GraphOK, Types, StackInv, FollowInv, Next, NEW w \in Writers(graph), NEW m, IsData(m),
         NEW H, NEW D, FlowInv(w, m, H, D), NEW v \in Writers(graph) \cap alive, Writes(v),
         NEW n \in Message, n.kind # "marker", n # m, Push(<<v, 1, 1>>, n), Outcome(<<v, 1, 1>>, n) = "pushed"
  PROVE  \E D2 : /\ FlowInv(w, m, H, D2)' /\ D2 \subseteq D
                 /\ v = w /\ n.kind = "flush" => <<w, 1, 1>> \notin D2
<1>0. graph' = graph /\ alive' = alive /\ <<v, 1, 1>> \in Outlets(graph)
  BY OutsideOutlet DEF Writes
<1>1. PICK D2 : D2 = Due(D, <<v, 1, 1>>, n, m)
  OBVIOUS
<1>2. PICK H2 : H2 = Reach(H, <<v, 1, 1>>, n, m)
  OBVIOUS
<1>3. /\ D \subseteq H /\ H \subseteq Outlets(graph)
      /\ Followed(m, D) /\ \A u \in D : Follows(u) => follow[u]
  BY DEF FlowInv
<1>4. /\ Followed(m, D2)' /\ \A u \in D2 : Follows(u)' => follow'[u]
      /\ \A y : Coming(y, D) => Coming(y, D2)'
      /\ \A i \in Inputs(graph) : In(m, buf[i]) => In(m, buf'[i])
  BY <1>0, <1>1, <1>2, <1>3, FlowPush
<1>5. D2 \subseteq D /\ (v = w /\ n.kind = "flush" => <<w, 1, 1>> \notin D2)
  BY <1>1 DEF Due
<1>6. ASSUME NEW y \in Nodes(graph) \cap alive PROVE Same(y)
  <2>1. Rests(y) /\ y \in alive'
    BY <1>0 DEF Rests, Outside
  <2> QED BY <2>1, RestsSame
<1>7. FlowInv(w, m, H, D2)'
  BY <1>0, <1>4, <1>5, <1>6, FlowRests
<1> QED
  BY <1>5, <1>7

Nowhere(m) ==
  /\ \A i \in Inputs(graph) : ~In(m, buf[i])
  /\ \A x \in Nodes(graph) \cap alive :
       ~In(m, kept[x]) /\ \A s \in Sides(x) : \A k \in DOMAIN graph.outs[x][s] : ~Has(m, x, s, k)

\* Data just written: its writer has it, and owes its Flush.
LEMMA FlowStart ==
  ASSUME GraphOK, Types, StackInv, FollowInv, Next, NEW w \in Writers(graph) \cap alive, Writes(w),
         NEW m \in Message, IsData(m), Nowhere(m), Push(<<w, 1, 1>>, m), Outcome(<<w, 1, 1>>, m) = "pushed"
  PROVE  FlowInv(w, m, {<<w, 1, 1>>}, {<<w, 1, 1>>})'
<1>0. /\ graph' = graph /\ alive' = alive /\ <<w, 1, 1>> \in Outlets(graph)
      /\ buf \in [Inputs(graph) -> Seq(Message)] /\ follow \in [Outlets(graph) -> BOOLEAN]
  BY OutsideOutlet DEF Writes, Types, EdgeTypes, FollowInv
<1>1. PICK o : o = <<w, 1, 1>>
  OBVIOUS
<1>2. To(o) \in Inputs(graph) /\ \A u : To(u)' = To(u) /\ Follows(u)' = Follows(u)
  BY <1>0, <1>1, OutletShape DEF To, Follows
<1>3. buf'[To(o)] = Append(buf[To(o)], m) /\ \A i \in Inputs(graph) : i # To(o) => buf'[i] = buf[i]
  BY <1>0, <1>1, <1>2 DEF Push
<1>4. In(m, buf'[To(o)])
  <2>1. buf[To(o)] \in Seq(Message)
    BY <1>0, <1>2
  <2> QED BY <1>3, <2>1, OfAppend
<1>5. \A i \in Inputs(graph) : i # To(o) => Behind(m, buf'[i])
  BY <1>3 DEF Nowhere, In, Behind
<1>6. Follows(o) => follow'[o]
  BY <1>0, <1>1 DEF Push, Judged
<1>7. ASSUME NEW y \in Nodes(graph) \cap alive
      PROVE  /\ ~In(m, kept'[y])
             /\ \A s \in Sides(y) : \A k \in DOMAIN graph.outs[y][s] : ~Has(m, y, s, k)'
  <2>1. Rests(y) /\ y \in alive'
    BY <1>0 DEF Rests, Outside
  <2>2. Same(y)
    BY <2>1, RestsSame
  <2> QED BY <2>2 DEF Same, Has, Nowhere
<1>8. FlushedOut(m, {o})'
  <2>1. \A y : Sides(y)' = Sides(y)
    BY <1>0 DEF Sides
  <2> QED BY <1>0, <1>7, <2>1 DEF FlushedOut
<1>9. Followed(m, {o})' /\ Borne(m, {o})' /\ Owing(w, {o})'
  BY <1>0, <1>1, <1>2, <1>4, <1>5 DEF Followed, Borne, Owing
<1> QED
  BY <1>0, <1>1, <1>2, <1>6, <1>8, <1>9 DEF FlowInv

-----------------------------------------------------------------------------
(* What is on its way was written, and so no message is written twice.      *)

Known(n, W) == n.kind # "marker" /\ n.nth \in Nat /\ n.from \in DOMAIN W /\ n.nth <= Len(W[n.from])
AllKnown(q, W) == \A k \in DOMAIN q : Known(q[k], W)
KnownAt(x) ==
  /\ AllKnown(kept[x], written)
  /\ \A s \in Sides(x) : /\ AllKnown(made[x][s], written) /\ AllKnown(pending[x][s], written)
                         /\ AllKnown(Going(x, s), written)
KnownInv ==
  /\ \A i \in Inputs(graph) : AllKnown(buf[i], written)
  /\ \A x \in Nodes(graph) \cap alive : KnownAt(x)
  /\ \A w \in Writers(graph) : \A i \in DOMAIN written[w] : written[w][i].from = w /\ written[w][i].nth = i

LEMMA KnownSeq ==
  ASSUME NEW q \in Seq(Message), NEW W, AllKnown(q, W)
  PROVE  /\ q # <<>> => Known(Head(q), W) /\ AllKnown(Tail(q), W)
         /\ \A n \in Message : Known(n, W) => AllKnown(Append(q, n), W)
<1>1. q # <<>> => Known(Head(q), W) /\ AllKnown(Tail(q), W)
  <2> SUFFICES ASSUME q # <<>> PROVE Known(Head(q), W) /\ AllKnown(Tail(q), W)
    OBVIOUS
  <2>1. /\ 1 \in DOMAIN q /\ q[1] = Head(q)
        /\ \A k \in DOMAIN Tail(q) : k + 1 \in DOMAIN q /\ Tail(q)[k] = q[k + 1]
    OBVIOUS
  <2> QED BY <2>1 DEF AllKnown
<1>2. ASSUME NEW n \in Message, Known(n, W) PROVE AllKnown(Append(q, n), W)
  <2>1. \A k \in DOMAIN Append(q, n) : Append(q, n)[k] = n \/ (k \in DOMAIN q /\ Append(q, n)[k] = q[k])
    OBVIOUS
  <2> QED BY <1>2, <2>1 DEF AllKnown
<1> QED
  BY <1>1, <1>2

LEMMA KnownFew == \A W : AllKnown(<<>>, W) /\ \A n : Known(n, W) => AllKnown(<<n>>, W)
BY DEF AllKnown

LEMMA KnownLonger ==
  ASSUME written \in [Parts(graph) -> Seq(Message)], NEW v \in Parts(graph), NEW n \in Message,
         written' = [written EXCEPT ![v] = Append(@, n)]
  PROVE  \A q : AllKnown(q, written) => AllKnown(q, written')
<1>1. /\ DOMAIN written' = Parts(graph) /\ DOMAIN written = Parts(graph)
      /\ \A p \in Parts(graph) :
           Len(written[p]) \in Nat /\ (written'[p] = written[p] \/ Len(written'[p]) = Len(written[p]) + 1)
  OBVIOUS
<1>2. \A p \in Parts(graph) : \A j \in Nat : j <= Len(written[p]) => j <= Len(written'[p])
  BY <1>1
<1> QED
  BY <1>1, <1>2 DEF AllKnown, Known

\* Where all of a node's messages stay or go, the rest is known still.
LEMMA KnownRests ==
  ASSUME GraphOK, Types, StackInv, Next, NEW y \in Nodes(graph) \cap alive', Rests(y), KnownAt(y),
         \A q : AllKnown(q, written) => AllKnown(q, written')
  PROVE  KnownAt(y)'
<1>1. graph' = graph
  BY SameGraph
<1>2. /\ kept'[y] = kept[y] /\ made'[y] = made[y] /\ pending'[y] = pending[y]
      /\ \A r \in Sides(y) : Going(y, r)' = <<>> \/ Going(y, r)' = Going(y, r)
  BY GoingRests DEF Leaves
<1> QED
  BY <1>1, <1>2, KnownFew DEF KnownAt, Sides

LEMMA KnownFed ==
  ASSUME GraphOK, Types, StackInv, Next, KnownInv, NEW x \in Nodes(graph) \cap alive, NodeStep(x), NEW s, NEW k,
         NEW n, Pushing(x, s, k, n), Source(x, s, k, n)
  PROVE  KnownInv' /\ Known(n, written)
<1>0. /\ graph' = graph /\ alive' = alive /\ written' = written /\ kept' = kept
      /\ s \in Sides(x) /\ k \in DOMAIN graph.outs[x][s] /\ n \in Message /\ x \in Parts(graph)
      /\ buf \in [Inputs(graph) -> Seq(Message)]
  BY KindsDiffer DEF Pushing, Types, EdgeTypes
<1>1. /\ DOMAIN made = Nodes(graph) /\ DOMAIN pending = Nodes(graph)
      /\ made[x] \in [Sides(x) -> Seq(Message)] /\ pending[x] \in [Sides(x) -> Seq(Message)]
  BY DEF Types, RoutineTypes
<1>2. made[x][s] \in Seq(Message) /\ pending[x][s] \in Seq(Message)
  BY <1>0, <1>1
<1>3. KnownAt(x)
  BY DEF KnownInv
<1>4. /\ Known(n, written) /\ AllKnown(made'[x][s], written) /\ AllKnown(pending'[x][s], written)
      /\ \A r \in Sides(x) : r # s => made'[x][r] = made[x][r] /\ pending'[x][r] = pending[x][r]
  <2>0. AllKnown(made[x][s], written) /\ AllKnown(pending[x][s], written) /\ AllKnown(Going(x, s), written)
    BY <1>0, <1>3 DEF KnownAt
  <2>1. CASE Going(x, s) = <<n>> /\ UNCHANGED <<made, pending>>
    <3>1. Known(n, written)
      BY <2>0, <2>1 DEF AllKnown
    <3> QED BY <2>0, <2>1, <3>1
  <2>2. CASE made[x][s] # <<>> /\ n = Head(made[x][s]) /\ made' = [made EXCEPT ![x][s] = Tail(@)] /\ UNCHANGED pending
    <3>1. Known(n, written) /\ AllKnown(Tail(made[x][s]), written)
      BY <1>2, <2>0, <2>2, KnownSeq
    <3>2. made'[x][s] = Tail(made[x][s]) /\ \A r \in Sides(x) : r # s => made'[x][r] = made[x][r]
      BY <1>0, <1>1, <2>2
    <3> QED BY <2>0, <2>2, <3>1, <3>2
  <2>3. CASE pending[x][s] # <<>> /\ n = pending[x][s][1] /\ pending' = [pending EXCEPT ![x][s] = <<>>] /\ UNCHANGED made
    <3>1. 1 \in DOMAIN pending[x][s]
      BY <1>2, <2>3
    <3>2. Known(n, written)
      BY <2>0, <2>3, <3>1 DEF AllKnown
    <3>3. pending'[x][s] = <<>> /\ \A r \in Sides(x) : r # s => pending'[x][r] = pending[x][r]
      BY <1>0, <1>1, <2>3
    <3> QED BY <2>0, <2>3, <3>2, <3>3, KnownFew
  <2> QED BY <2>1, <2>2, <2>3 DEF Source
<1>5. \A r \in Sides(x) : AllKnown(Going(x, r)', written)
  <2>1. Going(x, s)' = <<>> \/ Going(x, s)' = <<n>>
    BY PushGoing
  <2>2. ASSUME NEW r \in Sides(x), r # s PROVE Going(x, r)' = Going(x, r)
    BY <2>2, PushGoing
  <2> QED BY <1>3, <1>4, <2>1, <2>2, KnownFew DEF KnownAt
<1>6. KnownAt(x)'
  <2>1. Sides(x)' = Sides(x)
    BY <1>0 DEF Sides
  <2> QED BY <1>0, <1>3, <1>4, <1>5, <2>1 DEF KnownAt
<1>7. ASSUME NEW y \in Nodes(graph) \cap alive PROVE KnownAt(y)'
  <2>1. CASE y # x
    <3>1. Rests(y) /\ y \in alive' /\ KnownAt(y)
      BY <1>0, <2>1 DEF Rests, KnownInv
    <3> QED BY <1>0, <3>1, KnownRests
  <2> QED BY <1>6, <2>1
<1>8. ASSUME NEW i \in Inputs(graph) PROVE AllKnown(buf'[i], written)
  <2>1. buf[i] \in Seq(Message) /\ AllKnown(buf[i], written)
    BY <1>0 DEF KnownInv
  <2>2. buf'[i] = buf[i] \/ buf'[i] = Append(buf[i], n)
    BY <1>0 DEF Pushing, Rotate, Push, edgeVars
  <2> QED BY <1>0, <1>4, <2>1, <2>2, KnownSeq
<1> QED
  BY <1>0, <1>4, <1>7, <1>8 DEF KnownInv

LEMMA KnownTook ==
  ASSUME GraphOK, Types, StackInv, Next, Acyclic, KnownInv, NEW x \in Nodes(graph) \cap alive, Takes(x), ClearAt(x)
  PROVE  KnownInv' /\ Known(Head(buf[<<x, pc[x].i>>]), written)
<1>0. /\ graph' = graph /\ alive' = alive /\ written' = written /\ FrameOK(x, pc[x]) /\ NodeStep(x)
      /\ x \in Parts(graph)
  BY KindsDiffer DEF Takes, NodeStep, Types, FrameTypes
<1>1. PICK i : i = <<x, pc[x].i>>
  OBVIOUS
<1>2. /\ i \in Inputs(graph) /\ buf[i] # <<>> /\ buf[i] \in Seq(Message) /\ AllKnown(buf[i], written)
      /\ buf'[i] = Tail(buf[i]) /\ \A j \in Inputs(graph) : j # i => buf'[j] = buf[j]
  <2>1. pc[x].i \in 1 .. NumInputs(x) /\ DOMAIN graph.bound[x] = 1 .. NumInputs(x)
    BY <1>0, OutletShape DEF Takes, Running, FrameOK
  <2>2. i \in Inputs(graph) /\ buf[i] # <<>> /\ Pop(i)
    BY <1>0, <1>1, <2>1, OutletShape DEF Takes
  <2> QED BY <2>2 DEF Pop, Types, EdgeTypes, KnownInv
<1>3. PICK n : n = Head(buf[i])
  OBVIOUS
<1>4. n \in Message /\ Known(n, written) /\ AllKnown(Tail(buf[i]), written)
  BY <1>2, <1>3, KnownSeq
<1>5. n.kind \in {"data", "flush"}
  BY <1>4 DEF Message, Kinds, Known
<1>6. /\ kept[x] \in Seq(Message) /\ KnownAt(x)
  BY DEF Types, RoutineTypes, KnownInv
<1>7. AllKnown(Append(kept[x], n), written) /\ AllKnown(kept[x], written)
  BY <1>4, <1>6, KnownSeq DEF KnownAt
<1>8. /\ \A s \in Sides(x) : \A k : LeftTo(x, s, k) = <<>> /\ LeftTo(x, s, k)' = <<>>
      /\ kept'[x] \in {<<>>, Append(kept[x], n)}
      /\ \A s \in Sides(x) : pending'[x][s] \in {<<>>, <<n>>} /\ made'[x][s] \in {<<>>, kept[x], Append(kept[x], n)}
  <2>1. Took(x, n)
    BY <1>1, <1>3, <1>5, TookShape
  <2> DEFINE Made(q) == \E s \in Sides(x) : made'[x][s] = q /\ \A r \in Sides(x) : r # s => made'[x][r] = <<>>
  <2>2. \A q : Made(q) => \A s \in Sides(x) : made'[x][s] \in {<<>>, q}
    OBVIOUS
  <2> QED BY <2>1, <2>2 DEF Took
<1>9. \A s \in Sides(x) : Going(x, s)' = <<>>
  <2>1. pc[x].at = "input" /\ pc'[x].at = "round" /\ held' = held
    BY <1>0, IdleFrames, GotoFrames DEF Takes, Running, Types, FrameTypes
  <2>2. \A s \in Sides(x) : held[x][s] = <<>>
    BY <2>1 DEF ClearAt, NothingOn
  <2> QED BY <2>1, <2>2 DEF Going
<1>10. KnownAt(x)'
  <2>1. Sides(x)' = Sides(x)
    BY <1>0 DEF Sides
  <2> QED BY <1>0, <1>4, <1>7, <1>8, <1>9, <2>1, KnownFew DEF KnownAt
<1>11. ASSUME NEW y \in Nodes(graph) \cap alive PROVE KnownAt(y)'
  <2>1. CASE y # x
    <3>1. Rests(y) /\ y \in alive' /\ KnownAt(y)
      BY <1>0, <2>1 DEF Rests, KnownInv
    <3> QED BY <1>0, <3>1, KnownRests
  <2> QED BY <1>10, <2>1
<1> QED
  BY <1>0, <1>1, <1>2, <1>3, <1>4, <1>11 DEF KnownInv

\* A write is of a message that is nowhere yet.
LEMMA KnownWrote ==
  ASSUME GraphOK, Types, StackInv, Next, KnownInv, "marker" \notin graph.kinds,
         NEW v \in Writers(graph) \cap alive, Writes(v)
  PROVE  /\ KnownInv'
         /\ \E n \in Message :
              /\ n.kind # "marker" /\ n.from = v /\ n.nth = Len(written[v]) + 1 /\ Nowhere(n)
              /\ Push(<<v, 1, 1>>, n) /\ Outcome(<<v, 1, 1>>, n) = "pushed"
              /\ written' = [written EXCEPT ![v] = Append(@, n)]
<1>0. /\ graph' = graph /\ alive' = alive /\ v \in Parts(graph)
      /\ written \in [Parts(graph) -> Seq(Message)] /\ buf \in [Inputs(graph) -> Seq(Message)]
      /\ Writers(graph) \subseteq Parts(graph)
  BY KindsDiffer DEF Writes, Types, WriteTypes, EdgeTypes
<1>1. PICK c \in graph.kinds :
        \E m : /\ m = [kind |-> c, from |-> v, nth |-> Len(written[v]) + 1, turn |-> 0]
               /\ Push(<<v, 1, 1>>, m) /\ Outcome(<<v, 1, 1>>, m) = "pushed"
               /\ written' = [written EXCEPT ![v] = Append(@, m)]
  BY DEF Writes
<1>2. PICK n : /\ n = [kind |-> c, from |-> v, nth |-> Len(written[v]) + 1, turn |-> 0]
               /\ Push(<<v, 1, 1>>, n) /\ Outcome(<<v, 1, 1>>, n) = "pushed"
               /\ written' = [written EXCEPT ![v] = Append(@, n)]
  BY <1>1
<1>3. n \in Message
  BY <1>0, <1>2, OutsideMessages DEF Types
<1>4. n.kind # "marker" /\ n.from = v /\ n.nth = Len(written[v]) + 1 /\ Len(written[v]) \in Nat
  BY <1>0, <1>2
<1>5. \A q : AllKnown(q, written) => ~In(n, q)
  BY <1>4 DEF AllKnown, Known, In
<1>6. Nowhere(n)
  <2>1. ASSUME NEW x \in Nodes(graph) \cap alive, NEW s \in Sides(x), NEW k PROVE ~Has(n, x, s, k)
    <3>1. AllKnown(made[x][s], written) /\ AllKnown(Going(x, s), written)
      BY DEF KnownInv, KnownAt
    <3> QED BY <1>5, <3>1, OfNone DEF Has, LeftTo
  <2> QED BY <1>5, <2>1 DEF Nowhere, KnownInv, KnownAt
<1>7. \A q : AllKnown(q, written) => AllKnown(q, written')
  BY <1>0, <1>2, <1>3, KnownLonger
<1>8. Known(n, written')
  <2>1. Len(written'[v]) = Len(written[v]) + 1 /\ v \in DOMAIN written'
    BY <1>0, <1>2, <1>3
  <2> QED BY <1>4, <2>1 DEF Known
<1>9. ASSUME NEW i \in Inputs(graph) PROVE AllKnown(buf'[i], written')
  <2>1. buf[i] \in Seq(Message) /\ AllKnown(buf[i], written')
    BY <1>0, <1>7 DEF KnownInv
  <2>2. buf'[i] = buf[i] \/ buf'[i] = Append(buf[i], n)
    BY <1>0, <1>2 DEF Push
  <2> QED BY <1>3, <1>8, <2>1, <2>2, KnownSeq
<1>10. ASSUME NEW y \in Nodes(graph) \cap alive PROVE KnownAt(y)'
  <2>1. Rests(y) /\ y \in alive' /\ KnownAt(y)
    BY <1>0 DEF Rests, Outside, KnownInv
  <2> QED BY <1>7, <2>1, KnownRests
<1>11. ASSUME NEW u \in Writers(graph), NEW i \in DOMAIN written'[u] PROVE written'[u][i].from = u /\ written'[u][i].nth = i
  <2>0. u \in Parts(graph) /\ written[u] \in Seq(Message)
    BY <1>0
  <2>1. CASE u # v
    BY <1>0, <1>2, <1>11, <2>0, <2>1 DEF KnownInv
  <2>2. CASE u = v
    <3>1. written'[u] = Append(written[u], n)
      BY <1>0, <1>2, <2>2
    <3>2. (i \in DOMAIN written[u] /\ written'[u][i] = written[u][i]) \/ (i = Len(written[u]) + 1 /\ written'[u][i] = n)
      BY <1>3, <1>11, <2>0, <3>1
    <3> QED BY <1>4, <2>2, <3>2 DEF KnownInv
  <2> QED BY <2>1, <2>2
<1>12. KnownInv'
  BY <1>0, <1>9, <1>10, <1>11 DEF KnownInv
<1> QED
  BY <1>2, <1>3, <1>4, <1>6, <1>12

\* A node that closes because nothing can come any more.
Quits(x) ==
  /\ x \in Nodes(graph) \cap alive /\ Ends(x)
  /\ \/ pc[x].at = "input" /\ pc[x].i = NumInputs(x) /\ ~pc[x].busy /\ Exhausted(<<x, pc[x].i>>)
     \/ pc[x].at = "wait" /\ ~Waking(<<x, 1>>) /\ Exhausted(<<x, 1>>)
     \/ /\ pc[x].at = "wait" /\ Waking(<<x, pc[x].i>>) /\ pc[x].i = NumInputs(x)
        /\ ~pc[x].busy /\ Exhausted(<<x, pc[x].i>>)
Streams == \A t \in Threads(graph) : graph.kind[t] # "io"
\* A step that leaves every LineIo and its writers where they are.
Steady == \A t \in Threads(graph) : graph.kind[t] = "io" => t \in alive' /\ Lent(graph) \subseteq alive
Feeding ==
  \A x \in Nodes(graph) : graph.owner[x] \in Nodes(graph) =>
    \E o \in Outlets(graph) : o[1] = x /\ To(o)[1] = graph.owner[x]
Quiet ==
  /\ written' = written
  /\ \A y \in Nodes(graph) \cap alive' : Rests(y)
  /\ \/ UNCHANGED <<alive, buf, follow>>
     \/ broke' = TRUE /\ alive' \subseteq alive
        /\ (\E P : Drop(P))
     \/ broke' = broke /\ \E x : Quits(x)
     \/ broke' = broke /\ \E t \in Threads(graph) \cap alive : Drop({t})
     \/ broke' = broke /\ \E v \in Writers(graph) \cap alive : Drop({v})

LEMMA QuietSteps ==
  ASSUME GraphOK, Types, Next, Steady,
         \/ /\ Outside /\ ~\E v \in Writers(graph) \cap alive : Writes(v)
            /\ ~\E t \in Threads(graph) \cap alive : IoReads(t) \/ IoPushes(t)
         \/ \E x \in Nodes(graph) \cap alive : NodeStep(x) /\ ~Feeds(x) /\ ~Takes(x)
  PROVE  Quiet
<1>0. alive \subseteq Parts(graph) /\ alive' \subseteq alive
  BY AliveOnly DEF Types, GraphTypes
<1>1. \A y \in Nodes(graph) \cap alive' : Rests(y)
  BY <1>0 DEF Rests
<1>2. ASSUME UNCHANGED <<edgeVars, written, alive>> PROVE Quiet
  BY <1>1, <1>2 DEF Quiet, edgeVars
<1>3. \A P : Drop(P) => written' = written
  BY DEF Drop
<1>4. ASSUME NEW x \in Nodes(graph) \cap alive, NodeStep(x), ~Feeds(x), ~Takes(x) PROVE Quiet
  <2>1. CASE Ends(x)
    <3>1. \E P : Drop(P)
      BY <2>1 DEF Ends
    <3>2. CASE PushClosed(x)
      BY <1>0, <1>1, <1>3, <3>1, <3>2 DEF Quiet, PushClosed
    <3>3. CASE InputsClosed(x) \/ AllExhausted(x) \/ (WaitFront(x) /\ Exhausted(<<x, 1>>))
      <4>1. Quits(x) /\ broke' = broke
        BY <2>1, <3>3 DEF Quits, InputsClosed, AllExhausted, WaitFront, Running
      <4> QED BY <1>1, <1>3, <3>1, <4>1 DEF Quiet
    <3>4. CASE ~PushClosed(x) /\ ~InputsClosed(x) /\ ~AllExhausted(x) /\ ~(WaitFront(x) /\ Exhausted(<<x, 1>>))
      <4>1. UNCHANGED <<edgeVars, written, alive>>
        BY <1>4, <3>4 DEF NodeStep, Feeds, SideIdle, WakeTarget, FindsEmpty, WaitFront, LooksAt, Parks, EachCalls,
             EachEnds
      <4> QED BY <1>2, <4>1
    <3> QED BY <3>2, <3>3, <3>4
  <2>2. CASE ~Ends(x)
    <3>1. UNCHANGED <<edgeVars, written, alive>>
      BY <1>4, <2>2 DEF NodeStep, Feeds, PushClosed, SideIdle, WakeTarget, FindsEmpty, InputsClosed, WaitFront,
         LooksAt, AllExhausted, Parks, EachCalls, EachEnds
    <3> QED BY <1>2, <3>1
  <2> QED BY <2>1, <2>2
<1>5. ASSUME NEW t, EachCalls(t) \/ EachEnds(t) \/ IoWorks(t) \/ WakeTarget(t) PROVE Quiet
  <2>1. UNCHANGED <<edgeVars, written, alive>>
    BY <1>5 DEF EachCalls, EachEnds, IoWorks, WakeTarget
  <2> QED BY <1>2, <2>1
<1>6. ASSUME NEW x, Fails(x) \/ TeeLeaves(x) PROVE Quiet
  <2>1. broke' = TRUE /\ \E P : Drop(P)
    BY <1>6 DEF Fails, TeeLeaves
  <2> QED BY <1>0, <1>1, <1>3, <2>1 DEF Quiet
<1>7. ASSUME NEW t \in Threads(graph) \cap alive, ThreadEnds(t) PROVE Quiet
  BY <1>1, <1>3, <1>7 DEF Quiet, ThreadEnds
<1>8. ASSUME NEW v \in Writers(graph) \cap alive, WriterLeaves(v) PROVE Quiet
  BY <1>1, <1>3, <1>8 DEF Quiet, WriterLeaves
<1>9. ASSUME NEW t \in Threads(graph), IoDrops(t) PROVE FALSE
  <2>1. t \in graph.tree[t] /\ graph.kind[t] = "io"
    BY <1>9, Trees, KindsDiffer DEF IoDrops
  <2>2. t \notin alive'
    BY <1>9, <2>1 DEF IoDrops, Drop
  <2> QED BY <2>1, <2>2 DEF Steady
<1> QED
  BY <1>4, <1>5, <1>6, <1>7, <1>8, <1>9 DEF Outside

LEMMA SteadySteps ==
  ASSUME GraphOK, Types, Next, Steady
  PROVE  \/ \E x \in Nodes(graph) \cap alive : NodeStep(x) /\ Feeds(x)
         \/ \E x \in Nodes(graph) \cap alive : Takes(x)
         \/ \E v \in Writers(graph) \cap alive : Writes(v)
         \/ \E t \in Threads(graph) \cap alive : IoReads(t) \/ IoPushes(t)
         \/ Quiet
<1>0. alive \subseteq Parts(graph)
  BY DEF Types, GraphTypes
<1>1. Outside \/ \E x \in Nodes(graph) \cap alive : NodeStep(x)
  BY <1>0, Steps DEF Outside
<1> QED
  BY <1>1, QuietSteps

\* Where no thread is a LineIo's, a step is a push, a take, a write, or quiet.
LEMMA FlowSteps ==
  ASSUME GraphOK, Types, Next, Streams
  PROVE  \/ \E x \in Nodes(graph) \cap alive : NodeStep(x) /\ Feeds(x)
         \/ \E x \in Nodes(graph) \cap alive : Takes(x)
         \/ \E v \in Writers(graph) \cap alive : Writes(v)
         \/ Quiet
<1>1. Steady /\ \A t \in Threads(graph) : ~IoReads(t) /\ ~IoPushes(t)
  BY DEF Streams, Steady, IoReads, IoPushes
<1> QED
  BY <1>1, SteadySteps

LEMMA QuietEdges ==
  ASSUME Quiet, Types
  PROVE  /\ \A i \in Inputs(graph) : buf'[i] = buf[i] \/ buf'[i] = <<>>
         /\ follow' = follow
         /\ alive' = alive \/ \A i \in Inputs(graph) : i[1] \in alive \ alive' => buf'[i] = <<>>
<1>1. ASSUME NEW P, Drop(P)
      PROVE  /\ follow' = follow /\ \A i \in Inputs(graph) : buf'[i] = buf[i] \/ buf'[i] = <<>>
             /\ \A i \in Inputs(graph) : i[1] \in alive \ alive' => buf'[i] = <<>>
  BY <1>1 DEF Drop, Types, EdgeTypes
<1>2. UNCHANGED <<alive, buf, follow>> \/ \E P : Drop(P)
  BY DEF Quiet, Quits, Ends
<1> QED
  BY <1>1, <1>2

\* An input that nothing can come to any more stays so; what is dropped takes
\* nothing in.
LEMMA EdgesStay ==
  ASSUME GraphOK, Types, StackInv, SidesInv, Next, Steady
  PROVE  /\ \A i \in Inputs(graph) : Exhausted(i) => Exhausted(i)'
         /\ (\A i \in Inputs(graph) : i[1] \notin alive => buf[i] = <<>>)
              => \A i \in Inputs(graph) : i[1] \notin alive' => buf'[i] = <<>>
<1>0. graph' = graph /\ alive' \subseteq alive /\ buf \in [Inputs(graph) -> Seq(Message)]
  BY SameGraph, AliveOnly DEF Types, EdgeTypes
<1>1. ASSUME NEW o \in Outlets(graph), o[1] \in alive, NEW n,
             Push(o, n) \/ UNCHANGED buf, alive' = alive
      PROVE  \A i \in Inputs(graph) : /\ Exhausted(i) => Exhausted(i)'
                                      /\ i[1] \notin alive /\ buf[i] = <<>> => buf'[i] = <<>>
  <2> SUFFICES ASSUME NEW i \in Inputs(graph)
               PROVE  /\ Exhausted(i) => Exhausted(i)'
                      /\ i[1] \notin alive /\ buf[i] = <<>> => buf'[i] = <<>>
    OBVIOUS
  <2>1. CASE buf'[i] = buf[i]
    BY <1>0, <1>1, <2>1 DEF Exhausted
  <2>2. CASE buf'[i] # buf[i]
    <3>1. Outcome(o, n) = "pushed" /\ i = To(o)
      BY <1>0, <1>1, <2>2 DEF Push
    <3>2. i[1] \in alive
      BY <3>1 DEF Outcome, ReceiverGone
    <3>3. o[1] \in graph.feeders[i]
      BY <3>1 DEF GraphOK, Shaped, To
    <3> QED BY <1>1, <3>2, <3>3 DEF Exhausted
  <2> QED BY <2>1, <2>2
<1>2. CASE \E x \in Nodes(graph) \cap alive : NodeStep(x) /\ Feeds(x)
  <2>1. PICK x \in Nodes(graph) \cap alive : Feeds(x)
    BY <1>2
  <2>2. PICK s, k, n : Pushing(x, s, k, n)
    BY <2>1, NodePushes DEF Feeds
  <2>3. /\ <<x, s, k>> \in Outlets(graph) /\ alive' = alive
        /\ Push(<<x, s, k>>, n) \/ UNCHANGED buf
    BY <2>2, OutletShape, KindsDiffer DEF Pushing, Rotate, edgeVars
  <2> QED BY <1>1, <2>3
<1>3. CASE (\E x \in Nodes(graph) \cap alive : Takes(x)) \/ \E t \in Threads(graph) : IoReads(t)
  <2>1. PICK i : Pop(i) /\ buf[i] # <<>> /\ alive' = alive
    BY <1>3 DEF Takes, IoReads
  <2>2. \A j \in Inputs(graph) : buf[j] = <<>> => buf'[j] = <<>>
    BY <1>0, <2>1 DEF Pop
  <2> QED BY <1>0, <2>1, <2>2 DEF Exhausted
<1>4. CASE \/ \E v \in Writers(graph) \cap alive : Writes(v)
         \/ \E t \in Threads(graph) : IoPushes(t)
  <2>1. PICK v \in (Writers(graph) \cup Lent(graph)) \cap alive : \E n : Push(<<v, 1, 1>>, n) /\ alive' = alive
    BY <1>4 DEF Writes, IoPushes, Steady
  <2>2. <<v, 1, 1>> \in Outlets(graph)
    BY OutsideOutlet
  <2> QED BY <1>1, <2>1, <2>2
<1>5. CASE Quiet
  <2>1. /\ \A i \in Inputs(graph) : buf[i] = <<>> => buf'[i] = <<>>
        /\ \A i \in Inputs(graph) : i[1] \in alive \ alive' => buf'[i] = <<>>
    BY <1>5, QuietEdges
  <2> QED BY <1>0, <2>1 DEF Exhausted
<1> QED
  BY <1>2, <1>3, <1>4, <1>5, SteadySteps

\* The inputs a node has been through without a busy one are exhausted.
SeenAt(x) ==
  pc[x].at \in {"input", "wait"} /\ ~pc[x].busy =>
    \A p \in 1 .. NumInputs(x) : p < pc[x].i => Exhausted(<<x, p>>)
SeenInv == \A x \in Nodes(graph) \cap alive : SeenAt(x)

LEMMA SeenNext ==
  ASSUME GraphOK, Types, StackInv, SidesInv, Next, Steady, SeenInv
  PROVE  SeenInv'
<1>0. graph' = graph
  BY SameGraph
<1> SUFFICES ASSUME NEW y \in Nodes(graph) \cap alive' PROVE SeenAt(y)'
  BY <1>0 DEF SeenInv
<1>1. /\ y \in alive /\ SeenAt(y) /\ y \in Parts(graph) /\ pc[y] \in Frames /\ FrameOK(y, pc[y])
      /\ pc \in [Parts(graph) -> Frames]
  BY Moves, KindsDiffer DEF SeenInv, Types, FrameTypes
<1>2. /\ NumInputs(y) \in Nat \ {0} /\ NumInputs(y)' = NumInputs(y) /\ DOMAIN graph.bound[y] = 1 .. NumInputs(y)
      /\ \A p \in 1 .. NumInputs(y) : <<y, p>> \in Inputs(graph)
  BY <1>0, <1>1, OutletShape DEF NumInputs
<1>3. ASSUME NEW f, pc'[y] = f, f.at \in {"input", "wait"} => f.i = 1 PROVE SeenAt(y)'
  <2>1. \A p \in 1 .. NumInputs(y) : ~(p < 1)
    BY <1>2
  <2> QED BY <1>2, <1>3, <2>1 DEF SeenAt
<1>4. ASSUME NEW f, pc'[y] = f, pc[y].at \in {"input", "wait"}, f.i = pc[y].i + 1, pc[y].i \in Nat,
             ~f.busy => ~pc[y].busy /\ Exhausted(<<y, pc[y].i>>)
      PROVE  SeenAt(y)'
  <2>1. \A p \in 1 .. NumInputs(y) : p < f.i => p < pc[y].i \/ p = pc[y].i
    BY <1>2, <1>4
  <2>2. ~f.busy => \A p \in 1 .. NumInputs(y) : p < f.i => Exhausted(<<y, p>>)
    BY <1>1, <1>4, <2>1 DEF SeenAt
  <2>3. ~f.busy => \A p \in 1 .. NumInputs(y) : p < f.i => Exhausted(<<y, p>>)'
    BY <1>2, <2>2, EdgesStay
  <2> QED BY <1>2, <1>4, <2>3 DEF SeenAt
<1>5. CASE \E s, k, m : Pushing(y, s, k, m)
  <2>1. PICK s, k, m : Pushing(y, s, k, m)
    BY <1>5
  <2>2. \/ pc'[y] = Idle
        \/ pc'[y].at \in {"push", "wake", "block"}
        \/ pc'[y].at = "round" /\ pc'[y].busy
    BY <1>1, <2>1, PushHolds
  <2> QED BY <1>3, <2>2, IdleFrames
<1>6. CASE NodeStep(y) /\ ~\E s, k, m : Pushing(y, s, k, m)
  <2>0. ~Delivers(y) /\ ~Resumes(y) /\ ~RotateOn(y) /\ ~Unblock(y) /\ ~Ends(y)
    BY <1>1, <1>6, DeliversPushes, QuietMoves
  <2>1. CASE FindsEmpty(y) \/ LooksAt(y)
    <3>1. PICK open : open = (pc[y].busy \/ ~Exhausted(<<y, pc[y].i>>))
      OBVIOUS
    <3>2. PICK at : at \in {"input", "wait", "each", "park"} /\
             (pc' = Goto(y, Frame(at, 1, 1, FALSE, <<>>))
              \/ (pc' = Goto(y, Frame(at, 1, pc[y].i + 1, open, <<>>)) /\ at \in {"input", "wait"}))
      BY <2>1, <3>1 DEF FindsEmpty, LooksAt
    <3>3. pc[y].at \in {"input", "wait"} /\ pc[y].i \in Nat
      BY <1>1, <2>1 DEF FindsEmpty, LooksAt, Running, Frames
    <3>4. CASE pc' = Goto(y, Frame(at, 1, 1, FALSE, <<>>))
      <4>1. pc'[y] = Frame(at, 1, 1, FALSE, <<>>)
        BY <1>1, <3>4 DEF Goto
      <4> QED BY <1>3, <4>1 DEF Frame
    <3>5. CASE pc' = Goto(y, Frame(at, 1, pc[y].i + 1, open, <<>>))
      <4>1. pc'[y] = Frame(at, 1, pc[y].i + 1, open, <<>>)
        BY <1>1, <3>5 DEF Goto
      <4>2. PICK f : f = Frame(at, 1, pc[y].i + 1, open, <<>>)
        OBVIOUS
      <4>3. f.i = pc[y].i + 1 /\ f.busy = open
        BY <4>2 DEF Frame
      <4>4. ~f.busy => ~pc[y].busy /\ Exhausted(<<y, pc[y].i>>)
        BY <3>1, <4>3
      <4> QED BY <1>4, <3>3, <4>1, <4>2, <4>3, <4>4
    <3> QED BY <3>2, <3>4, <3>5
  <2>2. CASE WaitFront(y) \/ Parks(y)
    <3>1. PICK at : pc' = Goto(y, Frame(at, 1, 1, FALSE, <<>>))
      BY <2>0, <2>2 DEF WaitFront, Parks
    <3>2. pc'[y] = Frame(at, 1, 1, FALSE, <<>>)
      BY <1>1, <3>1 DEF Goto
    <3> QED BY <1>3, <3>2 DEF Frame
  <2>3. CASE EachCalls(y) \/ EachEnds(y)
    BY <1>3, <2>3, EachMoves
  <2>4. CASE Takes(y)
    <3>1. pc'[y] = Entered
      BY <1>1, <2>4, IdleFrames, GotoFrames DEF Takes, Types, FrameTypes
    <3> QED BY <1>3, <3>1, IdleFrames
  <2>5. CASE WakeTarget(y) \/ SideIdle(y)
    <3>0. /\ ~EachCalls(y) /\ ~EachEnds(y) /\ pc[y].at \notin {"input", "wait", "park"}
      BY <2>5 DEF WakeTarget, SideIdle, EachCalls, EachEnds, Running
    <3>1. pc'[y] = Idle \/ pc'[y].at \in {"push", "round"} \/ (pc'[y].at = "input" /\ pc'[y].i = 1)
      BY <1>1, <1>6, <3>0, QuietMoves
    <3> QED BY <1>3, <3>1, IdleFrames
  <2> QED BY <1>6, <2>0, <2>1, <2>2, <2>3, <2>4, <2>5 DEF NodeStep, PushClosed, InputsClosed, AllExhausted
<1>7. CASE pc'[y] = pc[y]
  <2>1. pc[y].at \in {"input", "wait"} /\ ~pc[y].busy =>
          \A p \in 1 .. NumInputs(y) : p < pc[y].i => Exhausted(<<y, p>>)'
    BY <1>1, <1>2, EdgesStay DEF SeenAt
  <2> QED BY <1>2, <1>7, <2>1 DEF SeenAt
<1>8. CASE pc'[y] = Entered \/ pc'[y].at = "each"
  BY <1>3, <1>8, IdleFrames
<1> QED
  BY <1>5, <1>6, <1>7, <1>8, Moves

\* What was dropped takes all it owned with it, and has nothing on its edges.
DeadInv ==
  /\ \A i \in Inputs(graph) : i[1] \notin alive => buf[i] = <<>>
  /\ \A y \in Nodes(graph) : y \notin alive => graph.tree[y] \cap alive = {}

\* A node that quits goes alone: what it owned fed it, and is gone.
LEMMA QuitsAlone ==
  ASSUME GraphOK, Types, StackInv, Steady, Feeding, SeenInv, DeadInv, NEW x, Quits(x)
  PROVE  /\ \A p \in 1 .. NumInputs(x) : Exhausted(<<x, p>>)
         /\ Drop(graph.tree[x]) /\ alive' = alive \ {x} /\ \A i \in Inputs(graph) : buf'[i] = buf[i]
<1>0. /\ x \in Nodes(graph) \cap alive /\ x \in Parts(graph) /\ Ends(x) /\ pc[x] \in Frames
      /\ pc[x].at \in {"input", "wait"} /\ pc[x].at # "idle" /\ SeenAt(x)
      /\ buf \in [Inputs(graph) -> Seq(Message)]
  BY KindsDiffer DEF Quits, Types, FrameTypes, SeenInv, EdgeTypes
<1>1. EdgesLead(graph) /\ TreesDrop(graph)
  BY DEF GraphOK, Shaped
<1>2. /\ NumInputs(x) \in Nat \ {0} /\ (graph.kind[x] # "biunion" => NumInputs(x) = 1)
      /\ \A p \in 1 .. NumInputs(x) : <<x, p>> \in Inputs(graph)
      /\ DOMAIN graph.bound[x] = 1 .. NumInputs(x)
  BY <1>0, <1>1, OutletShape DEF EdgesLead, NumInputs
<1>3. \A p \in 1 .. NumInputs(x) : Exhausted(<<x, p>>)
  <2>1. CASE pc[x].at = "wait" /\ ~Waking(<<x, 1>>) /\ Exhausted(<<x, 1>>)
    <3>1. NumInputs(x) = 1
      BY <1>2, <2>1 DEF Waking
    <3>2. \A p \in 1 .. NumInputs(x) : p = 1
      BY <3>1
    <3> QED BY <2>1, <3>2
  <2>2. CASE pc[x].i = NumInputs(x) /\ ~pc[x].busy /\ Exhausted(<<x, pc[x].i>>)
    <3>1. \A p \in 1 .. NumInputs(x) : p < NumInputs(x) \/ p = NumInputs(x)
      BY <1>2
    <3> QED BY <1>0, <2>2, <3>1 DEF SeenAt
  <2> QED BY <2>1, <2>2 DEF Quits
<1>4. ASSUME NEW y \in Owned(graph, x) PROVE graph.tree[y] \cap alive = {}
  <2>1. y \in Nodes(graph) /\ graph.owner[y] = x
    BY <1>0, Owners
  <2>2. PICK o \in Outlets(graph) : o[1] = y /\ To(o)[1] = x
    BY <1>0, <2>1 DEF Feeding
  <2>3. To(o) \in Inputs(graph) /\ To(o) = <<x, To(o)[2]>> /\ To(o)[2] \in 1 .. NumInputs(x)
    <3>1. PICK i \in Inputs(graph) : i = To(o)
      BY <2>2, OutletShape
    <3>2. i = <<i[1], i[2]>> /\ i[2] \in DOMAIN graph.bound[i[1]]
      BY OutletShape
    <3>3. i[1] = x
      BY <2>2, <3>1
    <3>4. i[2] \in 1 .. NumInputs(x)
      <4>1. i[2] \in DOMAIN graph.bound[x]
        BY <3>2, <3>3
      <4> QED BY <1>2, <4>1
    <3>5. i = <<x, i[2]>>
      BY <3>2, <3>3
    <3> QED BY <3>1, <3>4, <3>5
  <2>4. y \in graph.feeders[To(o)]
    BY <2>2, <2>3 DEF GraphOK, Shaped, To
  <2>5. y \notin alive
    BY <1>3, <2>3, <2>4 DEF Exhausted
  <2> QED BY <2>1, <2>5 DEF DeadInv
<1>5. graph.tree[x] \cap alive = {x}
  <2>1. graph.tree[x] = {x} \cup UNION {graph.tree[y] : y \in Owned(graph, x)}
    BY <1>0, <1>1 DEF TreesDrop
  <2> QED BY <1>0, <1>4, <2>1
<1>6. Drop(graph.tree[x])
  <2>1. ASSUME graph.kind[graph.owner[x]] = "io" PROVE FALSE
    <3>1. graph.owner[x] \in Threads(graph) /\ graph.owner[x] \in graph.tree[graph.owner[x]]
      BY <1>0, <2>1, Owners, KindsDiffer, Trees
    <3>2. graph.owner[x] \notin alive'
      BY <1>0, <2>1, <3>1 DEF Ends, Drop
    <3> QED BY <2>1, <3>1, <3>2 DEF Steady
  <2> QED BY <1>0, <2>1 DEF Ends
<1>7. alive' = alive \ {x}
  BY <1>5, <1>6 DEF Drop
<1>8. ASSUME NEW i \in Inputs(graph) PROVE buf'[i] = buf[i]
  <2>0. i[1] \in Parts(graph) /\ i = <<i[1], i[2]>> /\ i[2] \in DOMAIN graph.bound[i[1]]
    BY OutletShape
  <2>1. CASE i[1] \notin graph.tree[x]
    BY <1>0, <1>6, <2>1 DEF Drop
  <2>2. CASE i[1] \in graph.tree[x]
    <3>1. buf'[i] = <<>>
      BY <1>0, <1>6, <2>2 DEF Drop
    <3>2. buf[i] = <<>>
      <4>1. CASE i[1] = x
        <5>1. i[2] \in 1 .. NumInputs(x)
          <6>1. i[2] \in DOMAIN graph.bound[x]
            BY <2>0, <4>1
          <6> QED BY <1>2, <6>1
        <5>2. i = <<x, i[2]>>
          BY <2>0, <4>1
        <5> QED BY <1>3, <5>1, <5>2 DEF Exhausted
      <4>2. CASE i[1] # x
        BY <1>5, <2>2, <4>2 DEF DeadInv
      <4> QED BY <4>1, <4>2
    <3> QED BY <3>1, <3>2
  <2> QED BY <2>1, <2>2
<1> QED
  BY <1>3, <1>6, <1>7, <1>8

\* The drop of a part without inputs leaves every edge as it was.
LEMMA LeavesAlone ==
  ASSUME GraphOK, Types, Steady, NEW t \in Threads(graph) \cup Writers(graph), Drop({t})
  PROVE  \A i \in Inputs(graph) : buf'[i] = buf[i]
<1>1. EdgesLead(graph) /\ buf \in [Inputs(graph) -> Seq(Message)]
  BY DEF GraphOK, Shaped, Types, EdgeTypes
<1>2. ASSUME NEW i \in Inputs(graph) PROVE i[1] # t
  <2>1. i[1] \in Parts(graph) /\ i[2] \in DOMAIN graph.bound[i[1]]
    BY OutletShape
  <2>2. graph.bound[i[1]] # <<>>
    BY <2>1
  <2>3. i[1] \in Nodes(graph) \cup Tees(graph) \/ graph.kind[i[1]] = "io"
    BY <1>1, <2>1, <2>2 DEF EdgesLead
  <2>4. t \notin alive'
    BY DEF Drop
  <2> QED BY <2>3, <2>4, KindsDiffer DEF Steady, Threads
<1> QED
  BY <1>1, <1>2 DEF Drop

LEMMA DeadNext ==
  ASSUME GraphOK, Types, StackInv, SidesInv, Steady, Feeding, SeenInv, DeadInv, Next, broke' # TRUE
  PROVE  DeadInv'
<1>0. graph' = graph /\ alive' \subseteq alive /\ TreesDrop(graph)
  BY SameGraph, AliveOnly DEF GraphOK, Shaped
<1>1. \A i \in Inputs(graph) : i[1] \notin alive' => buf'[i] = <<>>
  BY <1>0, EdgesStay DEF DeadInv
<1>2. ASSUME NEW y \in Nodes(graph), y \notin alive' PROVE graph.tree[y] \cap alive' = {}
  <2>1. CASE y \notin alive
    BY <1>0, <2>1 DEF DeadInv
  <2>2. CASE y \in alive
    <3>1. alive' # alive
      BY <1>2, <2>2
    <3>2. PICK x : Quits(x) \/ (Drop({x}) /\ x \in Threads(graph) \cup Writers(graph))
      <4>1. \A z : Feeds(z) => alive' = alive
        BY DEF Feeds, Resumes, Delivers, RotateOn, Unblock
      <4>2. \A z : Takes(z) \/ Writes(z) \/ IoReads(z) \/ IoPushes(z) => alive' = alive
        BY DEF Takes, Writes, IoReads, IoPushes
      <4>3. Quiet
        BY <1>0, <3>1, <4>1, <4>2, SteadySteps
      <4> QED BY <3>1, <4>3 DEF Quiet
    <3>3. CASE Quits(x)
      <4>1. Drop(graph.tree[x]) /\ alive' = alive \ {x} /\ x \in Parts(graph)
        BY <3>3, QuitsAlone, KindsDiffer DEF Quits
      <4>2. y = x
        BY <1>2, <2>2, <4>1
      <4> QED BY <4>1, <4>2 DEF Drop
    <3>4. CASE Drop({x}) /\ x \in Threads(graph) \cup Writers(graph)
      BY <1>2, <2>2, <3>4, KindsDiffer DEF Drop
    <3> QED BY <3>2, <3>3, <3>4
  <2> QED BY <2>1, <2>2
<1> QED
  BY <1>0, <1>1, <1>2 DEF DeadInv

\* Nothing is left of m, nor of a Flush to follow it, at a node and before it.
Spent(m, y, D) ==
  /\ ~Coming(y, D) /\ ~In(m, kept[y])
  /\ \A s \in Sides(y) : \A k \in DOMAIN graph.outs[y][s] : ~Has(m, y, s, k) /\ ~Brings(y, s, k)

\* Parts that go with nothing left in them.
LEMMA FlowLess ==
  ASSUME GraphOK, graph' = graph, NEW w, NEW m, NEW H, NEW D, FlowInv(w, m, H, D),
         alive' \subseteq alive, follow' = follow, \A i \in Inputs(graph) : buf'[i] = buf[i],
         w \in alive' \/ <<w, 1, 1>> \notin D,
         \A y \in Nodes(graph) \cap alive' : Same(y),
         \A y \in Nodes(graph) \cap alive : y \in alive' \/ Spent(m, y, D)
  PROVE  FlowInv(w, m, H, D)'
<1>1. /\ D \subseteq H /\ H \subseteq Outlets(graph) /\ <<w, 1, 1>> \in H
      /\ Borne(m, H) /\ Owing(w, D) /\ Followed(m, D) /\ FlushedOut(m, D)
      /\ \A o \in D : Follows(o) => follow[o]
  BY DEF FlowInv
<1>2. \A y : Sides(y)' = Sides(y)
  BY DEF Sides
<1>3. \A u : To(u)' = To(u) /\ Follows(u)' = Follows(u)
  BY DEF To, Follows
<1>4. ASSUME NEW y \in Nodes(graph) \cap alive'
      PROVE  /\ kept'[y] = kept[y] /\ pending'[y] = pending[y]
             /\ \A r \in Sides(y) : \A j \in DOMAIN graph.outs[y][r] :
                  (Has(m, y, r, j)' <=> Has(m, y, r, j)) /\ (Brings(y, r, j)' <=> Brings(y, r, j))
  BY DEF Same, Has, Brings
<1>5. \A y : Coming(y, D)' <=> Coming(y, D)
  BY <1>3 DEF Coming
<1>6. Followed(m, D)'
  BY <1>1, <1>3 DEF Followed
<1>7. Owing(w, D)'
  <2> SUFFICES ASSUME NEW u \in D
               PROVE  \/ u = <<w, 1, 1>> /\ w \in alive'
                      \/ u[1] \in Nodes(graph) \cap alive' /\ (Brings(u[1], u[2], u[3])' \/ Coming(u[1], D)')
    BY DEF Owing
  <2>0. u \in Outlets(graph)
    BY <1>1
  <2>1. u[2] \in Sides(u[1]) /\ u[3] \in DOMAIN graph.outs[u[1]][u[2]]
    BY <2>0, OutletShape
  <2>2. CASE u = <<w, 1, 1>> /\ w \in alive
    BY <2>2
  <2>3. CASE u[1] \in Nodes(graph) \cap alive /\ (Brings(u[1], u[2], u[3]) \/ Coming(u[1], D))
    <3>1. u[1] \in alive'
      BY <2>1, <2>3 DEF Spent
    <3> QED BY <1>4, <1>5, <2>1, <2>3, <3>1
  <2> QED BY <1>1, <2>2, <2>3 DEF Owing
<1>8. FlushedOut(m, D)'
  <2> SUFFICES ASSUME NEW y \in Nodes(graph) \cap alive'
               PROVE  /\ In(m, kept'[y]) => Coming(y, D)'
                      /\ \A r \in Sides(y) : \A j \in DOMAIN graph.outs[y][r] :
                           Has(m, y, r, j)' => HasFlush(pending'[y][r]) \/ Coming(y, D)'
    BY <1>2 DEF FlushedOut
  <2> QED BY <1>1, <1>4, <1>5 DEF FlushedOut
<1>9. Borne(m, H)'
  <2> SUFFICES ASSUME NEW u \in H
               PROVE  In(m, buf'[To(u)]) \/ (To(u)[1] \in Nodes(graph) /\ Carried(m, To(u)[1], H)')
    BY <1>3 DEF Borne
  <2>0. u \in Outlets(graph) /\ To(u) \in Inputs(graph)
    BY <1>1, OutletShape
  <2>1. PICK y : y = To(u)[1]
    OBVIOUS
  <2>2. Carried(m, y, H)' <=>
            \/ y \in alive' /\ In(m, kept'[y])
            \/ \E r \in Sides(y) : \A j \in DOMAIN graph.outs[y][r] :
                 <<y, r, j>> \in H \/ (y \in alive' /\ Has(m, y, r, j)')
    BY <1>2 DEF Carried
  <2>3. ASSUME y \in Nodes(graph), Carried(m, y, H) PROVE Carried(m, y, H)'
    <3>1. CASE y \in alive'
      BY <1>4, <2>2, <2>3, <3>1 DEF Carried
    <3>2. CASE y \notin alive' /\ y \in alive
      BY <2>2, <2>3, <3>2 DEF Carried, Spent
    <3>3. CASE y \notin alive
      BY <2>2, <2>3, <3>3 DEF Carried
    <3> QED BY <3>1, <3>2, <3>3
  <2>4. In(m, buf[To(u)]) \/ (y \in Nodes(graph) /\ Carried(m, y, H))
    BY <1>1, <2>1 DEF Borne
  <2>5. buf'[To(u)] = buf[To(u)]
    BY <2>0
  <2> QED BY <1>3, <2>1, <2>3, <2>4, <2>5
<1> QED
  BY <1>1, <1>3, <1>6, <1>7, <1>8, <1>9 DEF FlowInv

\* A node that quits has nothing of m left: what nothing can come to any more
\* got its Flush before.
LEMMA QuitsSpent ==
  ASSUME GraphOK, Types, StackInv, ClearInv, Steady, Feeding, SeenInv, DeadInv, NEW x, Quits(x),
         NEW w \in Writers(graph), NEW m, NEW H, NEW D, FlowInv(w, m, H, D)
  PROVE  Spent(m, x, D)
<1>1. /\ D \subseteq Outlets(graph) /\ Owing(w, D) /\ FlushedOut(m, D)
      /\ x \in Nodes(graph) \cap alive /\ pc[x].at \in {"input", "wait"} /\ ClearAt(x)
  BY DEF FlowInv, Quits, ClearInv
<1>2. ASSUME NEW i \in Inputs(graph), i[1] = x PROVE Exhausted(i)
  <2>0. DOMAIN graph.bound[x] = 1 .. NumInputs(x)
    BY <1>1, OutletShape
  <2>1. i = <<i[1], i[2]>> /\ i[2] \in DOMAIN graph.bound[i[1]]
    BY OutletShape
  <2>2. i[2] \in 1 .. NumInputs(x)
    BY <1>2, <2>0, <2>1
  <2>3. i = <<x, i[2]>>
    BY <1>2, <2>1
  <2> QED BY <2>2, <2>3, QuitsAlone
<1>3. ~Coming(x, D)
  <2> SUFFICES ASSUME NEW i \in Inputs(graph), i[1] = x
               PROVE  ~HasFlush(buf[i]) /\ \A u \in D : To(u) # i
    BY DEF Coming
  <2>1. ~HasFlush(buf[i])
    BY <1>2, OfNone DEF Exhausted
  <2>2. ASSUME NEW u \in D, To(u) = i PROVE FALSE
    <3>1. u[1] \in alive
      BY <1>1 DEF Owing
    <3>2. u[1] \in graph.feeders[i]
      BY <1>1, <2>2 DEF GraphOK, Shaped, To
    <3> QED BY <1>2, <3>1, <3>2 DEF Exhausted
  <2> QED BY <2>1, <2>2
<1>4. ASSUME NEW s \in Sides(x), NEW k PROVE ~Has(m, x, s, k) /\ ~Brings(x, s, k)
  <2>1. NothingOn(x, s)
    BY <1>1 DEF ClearAt
  <2>2. LeftTo(x, s, k) = <<>>
    BY <1>1, <2>1 DEF NothingOn, LeftTo, Going
  <2> QED BY <2>1, <2>2, OfNone DEF NothingOn, Has, Brings
<1>5. ~In(m, kept[x])
  BY <1>1, <1>3 DEF FlushedOut
<1> QED
  BY <1>3, <1>4, <1>5 DEF Spent

LEMMA FlowQuiet ==
  ASSUME GraphOK, Types, StackInv, ClearInv, Steady, Feeding, SeenInv, DeadInv, Next, Quiet, broke' # TRUE,
         NEW w \in Writers(graph), NEW m, NEW H, NEW D, FlowInv(w, m, H, D),
         w \in alive' \/ <<w, 1, 1>> \notin D
  PROVE  FlowInv(w, m, H, D)'
<1>0. graph' = graph /\ alive' \subseteq alive
  BY SameGraph, AliveOnly
<1>1. \A y \in Nodes(graph) \cap alive' : Same(y)
  BY RestsSame DEF Quiet
<1>2. CASE UNCHANGED <<alive, buf, follow>>
  BY <1>0, <1>1, <1>2, FlowLess
<1>3. CASE \E x : Quits(x)
  <2>1. PICK x : Quits(x)
    BY <1>3
  <2>2. /\ alive' = alive \ {x} /\ follow' = follow /\ \A i \in Inputs(graph) : buf'[i] = buf[i]
    BY <2>1, QuitsAlone DEF Drop
  <2>3. Spent(m, x, D)
    BY <2>1, QuitsSpent
  <2> QED BY <1>0, <1>1, <2>2, <2>3, FlowLess
<1>4. CASE \E t \in Threads(graph) \cup Writers(graph) : Drop({t})
  <2>1. PICK t \in Threads(graph) \cup Writers(graph) : Drop({t})
    BY <1>4
  <2>2. alive' = alive \ {t} /\ follow' = follow /\ t \notin Nodes(graph)
    BY <2>1, KindsDiffer DEF Drop
  <2>3. \A i \in Inputs(graph) : buf'[i] = buf[i]
    BY <1>0, <2>1, LeavesAlone
  <2> QED BY <1>0, <1>1, <2>2, <2>3, FlowLess
<1> QED
  BY <1>2, <1>3, <1>4 DEF Quiet

LEMMA KnownQuiet ==
  ASSUME GraphOK, Types, StackInv, Next, Quiet, KnownInv
  PROVE  KnownInv'
<1>0. graph' = graph /\ alive' \subseteq alive /\ written' = written
  BY SameGraph, AliveOnly DEF Quiet
<1>1. \A i \in Inputs(graph) : AllKnown(buf'[i], written')
  BY <1>0, QuietEdges, KnownFew DEF KnownInv
<1>2. ASSUME NEW y \in Nodes(graph) \cap alive' PROVE KnownAt(y)'
  <2>1. Rests(y) /\ KnownAt(y)
    BY <1>0 DEF Quiet, KnownInv
  <2> QED BY <1>0, <2>1, KnownRests
<1> QED
  BY <1>0, <1>1, <1>2 DEF KnownInv

-----------------------------------------------------------------------------
(* Data and signals in what a node has, and what a take makes of them.      *)

Signalled(q) == \E k \in DOMAIN q : ~IsData(q[k])
Laden(q) == \E k \in DOMAIN q : IsData(q[k])
Trailed(q) == \A j \in DOMAIN q : IsData(q[j]) => \E k \in DOMAIN q : j < k /\ ~IsData(q[k])
\* Every signal of q is the one that call f waits for.
Own(q, f) == \A k \in DOMAIN q : IsData(q[k]) \/ f = <<q[k]>>

LEMMA TrailNone == ~Signalled(<<>>) /\ ~Laden(<<>>) /\ Trailed(<<>>) /\ \A f : Own(<<>>, f)
BY DEF Signalled, Laden, Trailed, Own

LEMMA TrailOne ==
  ASSUME NEW n
  PROVE  /\ Signalled(<<n>>) <=> ~IsData(n)
         /\ Laden(<<n>>) <=> IsData(n)
         /\ \A f : Own(<<n>>, f) <=> IsData(n) \/ f = <<n>>
BY DEF Signalled, Laden, Own

LEMMA TrailAppend ==
  ASSUME NEW S, NEW q \in Seq(S), NEW n \in S
  PROVE  /\ Signalled(Append(q, n)) <=> Signalled(q) \/ ~IsData(n)
         /\ ~IsData(n) => Trailed(Append(q, n))
         /\ \A f : Own(Append(q, n), f) <=> Own(q, f) /\ (IsData(n) \/ f = <<n>>)
<1> DEFINE p == Append(q, n)
<1>1. /\ Len(q) \in Nat /\ DOMAIN q = 1 .. Len(q) /\ DOMAIN p = 1 .. Len(q) + 1
      /\ p[Len(q) + 1] = n /\ \A k \in 1 .. Len(q) : p[k] = q[k]
  OBVIOUS
<1>2. \A k \in 1 .. Len(q) + 1 : k = Len(q) + 1 \/ (k \in 1 .. Len(q) /\ k < Len(q) + 1)
  BY <1>1
<1>3. (\A k \in 1 .. Len(q) : k \in 1 .. Len(q) + 1) /\ Len(q) + 1 \in 1 .. Len(q) + 1
  BY <1>1
<1> HIDE DEF p
<1>4. Signalled(p) <=> Signalled(q) \/ ~IsData(n)
  BY <1>1, <1>2, <1>3 DEF Signalled
<1>5. ~IsData(n) => Trailed(p)
  BY <1>1, <1>2, <1>3 DEF Trailed
<1>6. \A f : Own(p, f) <=> Own(q, f) /\ (IsData(n) \/ f = <<n>>)
  BY <1>1, <1>2, <1>3 DEF Own
<1> QED
  BY <1>4, <1>5, <1>6 DEF p

LEMMA TrailTail ==
  ASSUME NEW S, NEW q \in Seq(S), q # <<>>
  PROVE  /\ Signalled(q) <=> Signalled(Tail(q)) \/ ~IsData(Head(q))
         /\ Laden(q) <=> Laden(Tail(q)) \/ IsData(Head(q))
         /\ Trailed(q) => Trailed(Tail(q)) /\ (IsData(Head(q)) => Signalled(Tail(q)))
         /\ \A f : Own(q, f) <=> Own(Tail(q), f) /\ (IsData(Head(q)) \/ f = <<Head(q)>>)
<1> DEFINE p == Tail(q)
<1>1. /\ Len(q) \in Nat \ {0} /\ DOMAIN q = 1 .. Len(q) /\ DOMAIN p = 1 .. Len(q) - 1
      /\ q[1] = Head(q) /\ \A k \in 1 .. Len(q) - 1 : p[k] = q[k + 1]
  OBVIOUS
<1>2. /\ \A k \in 1 .. Len(q) - 1 : k + 1 \in 1 .. Len(q)
      /\ \A k \in 1 .. Len(q) : k = 1 \/ (k - 1 \in 1 .. Len(q) - 1 /\ (k - 1) + 1 = k)
      /\ 1 \in 1 .. Len(q)
      /\ \A j \in 1 .. Len(q) - 1, k \in 1 .. Len(q) : j + 1 < k => k # 1 /\ j < k - 1
      /\ \A k \in 1 .. Len(q) : 1 < k => k # 1
  BY <1>1
<1> HIDE DEF p
<1>3. \A k \in 1 .. Len(q) : k # 1 => k - 1 \in 1 .. Len(q) - 1 /\ p[k - 1] = q[k]
  BY <1>1, <1>2
<1>4. Signalled(q) <=> Signalled(p) \/ ~IsData(Head(q))
  <2>1. ASSUME NEW k \in DOMAIN q, ~IsData(q[k]) PROVE Signalled(p) \/ ~IsData(Head(q))
    <3>1. k = 1 => ~IsData(Head(q))
      BY <1>1, <2>1
    <3>2. k # 1 => k - 1 \in DOMAIN p /\ ~IsData(p[k - 1])
      BY <1>1, <1>3, <2>1
    <3> QED BY <3>1, <3>2 DEF Signalled
  <2>2. ASSUME NEW k \in DOMAIN p, ~IsData(p[k]) PROVE k + 1 \in DOMAIN q /\ ~IsData(q[k + 1])
    BY <1>1, <1>2, <2>2
  <2>3. 1 \in DOMAIN q /\ q[1] = Head(q)
    BY <1>1, <1>2
  <2> QED BY <2>1, <2>2, <2>3 DEF Signalled
<1>5. Laden(q) <=> Laden(p) \/ IsData(Head(q))
  <2>1. ASSUME NEW k \in DOMAIN q, IsData(q[k]) PROVE Laden(p) \/ IsData(Head(q))
    <3>1. k = 1 => IsData(Head(q))
      BY <1>1, <2>1
    <3>2. k # 1 => k - 1 \in DOMAIN p /\ IsData(p[k - 1])
      BY <1>1, <1>3, <2>1
    <3> QED BY <3>1, <3>2 DEF Laden
  <2>2. ASSUME NEW k \in DOMAIN p, IsData(p[k]) PROVE k + 1 \in DOMAIN q /\ IsData(q[k + 1])
    BY <1>1, <1>2, <2>2
  <2>3. 1 \in DOMAIN q /\ q[1] = Head(q)
    BY <1>1, <1>2
  <2> QED BY <2>1, <2>2, <2>3 DEF Laden
<1>6. ASSUME Trailed(q) PROVE Trailed(p)
  <2> SUFFICES ASSUME NEW j \in DOMAIN p, IsData(p[j]) PROVE \E k \in DOMAIN p : j < k /\ ~IsData(p[k])
    BY DEF Trailed
  <2>1. j + 1 \in DOMAIN q /\ IsData(q[j + 1])
    BY <1>1, <1>2
  <2>2. PICK k \in DOMAIN q : j + 1 < k /\ ~IsData(q[k])
    BY <1>6, <2>1 DEF Trailed
  <2>3. k # 1 /\ j < k - 1
    BY <1>1, <1>2, <2>2
  <2> QED BY <1>1, <1>3, <2>2, <2>3
<1>7. ASSUME Trailed(q), IsData(Head(q)) PROVE Signalled(p)
  <2>1. PICK k \in DOMAIN q : 1 < k /\ ~IsData(q[k])
    BY <1>1, <1>2, <1>7 DEF Trailed
  <2> QED BY <1>1, <1>2, <1>3, <2>1 DEF Signalled
<1>8. \A f : Own(q, f) <=> Own(p, f) /\ (IsData(Head(q)) \/ f = <<Head(q)>>)
  BY <1>1, <1>2, <1>3 DEF Own
<1> QED
  BY <1>4, <1>5, <1>6, <1>7, <1>8 DEF p

\* What a routine turns to output: data, as all it is given is.
LEMMA EmitsTrail ==
  ASSUME GraphOK, Types, NEW x \in Nodes(graph), \A s \in Sides(x) : made[x][s] = <<>>,
         NEW q \in Seq(Message), Emits(x, q), ~Signalled(q)
  PROVE  \A s \in Sides(x) : ~Signalled(made'[x][s])
<1>1. /\ DOMAIN made = Nodes(graph) /\ made[x] \in [Sides(x) -> Seq(Message)]
  BY DEF Types, RoutineTypes
<1> DEFINE Turn(s) == IF Loops(x, s) THEN 1 ELSE 0
<1>0. PICK s \in Sides(x) :
        made' = [made EXCEPT ![x][s] = @ \o [k \in DOMAIN q |-> [q[k] EXCEPT !.turn = @ + Turn(s)]]]
  BY DEF Emits
<1>2. PICK turn : made' = [made EXCEPT ![x][s] = @ \o [k \in DOMAIN q |-> [q[k] EXCEPT !.turn = @ + turn]]]
  BY <1>0
<1>3. PICK l : l = [k \in DOMAIN q |-> [q[k] EXCEPT !.turn = @ + turn]]
  OBVIOUS
<1>4. made'[x][s] = <<>> \o l /\ \A r \in Sides(x) : r # s => made'[x][r] = <<>>
  BY <1>1, <1>2, <1>3
<1>5. DOMAIN l = 1 .. Len(q) /\ Len(q) \in Nat /\ \A k \in DOMAIN q : q[k] \in Message
  BY <1>3
<1>6. \A k \in 1 .. Len(q) : l[k].kind = q[k].kind
  BY <1>3, <1>5 DEF Message
<1>7. DOMAIN (<<>> \o l) = 1 .. Len(q) /\ \A k \in 1 .. Len(q) : (<<>> \o l)[k] = l[k]
  <2>1. Len(l) = Len(q)
    BY <1>5
  <2> QED BY <1>5, <2>1
<1>8. ~Signalled(<<>> \o l)
  BY <1>5, <1>6, <1>7 DEF Signalled, IsData
<1> QED
  BY <1>4, <1>8, TrailNone

\* What a take does: a signal is owed on every side, a Flush brings out what was
\* kept, and nothing but data is kept or made.
Turned(x, n) ==
  /\ \A s \in Sides(x) : /\ pending[x][s] = <<>> /\ made[x][s] = <<>> /\ Going(x, s)' = <<>>
                         /\ \A k : LeftTo(x, s, k) = <<>> /\ LeftTo(x, s, k)' = <<>>
                         /\ pending'[x][s] = IF IsData(n) THEN <<>> ELSE <<n>>
  /\ n.kind = "flush" => kept'[x] = <<>>
  /\ n.kind = "marker" => kept'[x] = kept[x] /\ \A s \in Sides(x) : made'[x][s] = <<>>
  /\ ~Signalled(kept[x]) => ~Signalled(kept'[x]) /\ \A s \in Sides(x) : ~Signalled(made'[x][s])
  /\ kept'[x] # <<>> => kept[x] # <<>> \/ x \in graph.keeps

LEMMA TurnedShape ==
  ASSUME GraphOK, Types, NEW x \in Nodes(graph) \cap alive, Takes(x), ClearAt(x)
  PROVE  LET i == <<x, pc[x].i>>
             n == Head(buf[i])
         IN  /\ Turned(x, n) /\ n \in Message /\ i \in Inputs(graph)
             /\ buf[i] \in Seq(Message) /\ buf[i] # <<>> /\ buf'[i] = Tail(buf[i])
             /\ \A j \in Inputs(graph) : j # i => buf'[j] = buf[j]
<1> DEFINE i == <<x, pc[x].i>>
           n == Head(buf[i])
<1>0. /\ graph' = graph /\ x \in Parts(graph) /\ held' = held /\ Accept(x, n)
      /\ pc' = Goto(x, Entered) /\ pc[x].at = "input" /\ pc \in [Parts(graph) -> Frames]
      /\ buf[i] # <<>> /\ Pop(i) /\ FrameOK(x, pc[x])
  BY KindsDiffer DEF Takes, Running, Types, FrameTypes
<1>1. /\ i \in Inputs(graph) /\ buf \in [Inputs(graph) -> Seq(Message)]
  <2>1. pc[x].i \in 1 .. NumInputs(x) /\ DOMAIN graph.bound[x] = 1 .. NumInputs(x)
    BY <1>0, OutletShape DEF FrameOK
  <2> QED BY <1>0, <2>1, OutletShape DEF Types, EdgeTypes
<1>2. n \in Message /\ buf[i] \in Seq(Message) /\ buf'[i] = Tail(buf[i]) /\ \A j \in Inputs(graph) : j # i => buf'[j] = buf[j]
  <2>1. buf[i] \in Seq(Message)
    BY <1>1
  <2>2. buf'[i] = Tail(buf[i]) /\ \A j \in Inputs(graph) : j # i => buf'[j] = buf[j]
    BY <1>0, <1>1 DEF Pop
  <2>3. n \in Message
    BY <1>0, <2>1
  <2> QED BY <2>1, <2>2, <2>3
<1>3. n.kind \in {"data", "flush", "marker"}
  BY <1>2 DEF Message, Kinds
<1>4. kept[x] \in Seq(Message) /\ DOMAIN kept = Nodes(graph) /\ DOMAIN pending = Nodes(graph)
  BY DEF Types, RoutineTypes
<1>5. \A s \in Sides(x) : held[x][s] = <<>> /\ made[x][s] = <<>> /\ pending[x][s] = <<>>
  BY <1>0 DEF ClearAt, NothingOn
<1>6. \A s \in Sides(x) : Going(x, s)' = <<>> /\ Going(x, s) = <<>>
  <2>1. pc'[x].at = "round"
    BY <1>0, IdleFrames, GotoFrames
  <2> QED BY <1>0, <1>5, <2>1 DEF Going
<1>7. \A s \in Sides(x) : \A k : LeftTo(x, s, k) = <<>> /\ LeftTo(x, s, k)' = <<>>
  BY <1>6 DEF LeftTo
<1>8. Owes(x, n) => \A s \in Sides(x) : pending'[x][s] = <<n>>
  BY <1>4 DEF Owes
<1> HIDE DEF n, i
<1> DEFINE Mine == \A s \in Sides(x) : pending'[x][s] = IF IsData(n) THEN <<>> ELSE <<n>>
           Data == ~Signalled(kept[x]) => ~Signalled(kept'[x]) /\ \A s \in Sides(x) : ~Signalled(made'[x][s])
           Kept == kept'[x] # <<>> => kept[x] # <<>> \/ x \in graph.keeps
           Whole == /\ Mine /\ Data /\ Kept
                    /\ n.kind = "flush" => kept'[x] = <<>>
                    /\ n.kind = "marker" => kept'[x] = kept[x] /\ \A s \in Sides(x) : made'[x][s] = <<>>
<1>9. Whole
  <2>1. CASE n.kind = "data"
    <3>1. Sends(x, n) /\ pending' = pending
      BY <1>0, <2>1 DEF Accept, Sends
    <3>2. Append(kept[x], n) \in Seq(Message) /\ (Signalled(Append(kept[x], n)) <=> Signalled(kept[x]))
      BY <1>2, <1>4, <2>1, TrailAppend DEF IsData
    <3>3. CASE x \in graph.keeps /\ kept' = [kept EXCEPT ![x] = Append(@, n)] /\ made' = made
      BY <1>4, <1>5, <2>1, <3>1, <3>2, <3>3, TrailNone DEF IsData
    <3>4. CASE Emits(x, Append(kept[x], n)) /\ kept' = [kept EXCEPT ![x] = <<>>]
      <4>1. ~Signalled(kept[x]) => \A s \in Sides(x) : ~Signalled(made'[x][s])
        BY <1>5, <3>2, <3>4, EmitsTrail
      <4> QED BY <1>4, <1>5, <2>1, <3>1, <3>4, <4>1, TrailNone DEF IsData
    <3> QED BY <3>1, <3>3, <3>4 DEF Sends
  <2>2. CASE n.kind = "flush"
    <3>1. Emits(x, kept[x]) /\ kept' = [kept EXCEPT ![x] = <<>>] /\ Owes(x, n)
      BY <1>0, <2>2 DEF Accept
    <3>2. ~Signalled(kept[x]) => \A s \in Sides(x) : ~Signalled(made'[x][s])
      BY <1>4, <1>5, <3>1, EmitsTrail
    <3> QED BY <1>4, <1>8, <2>2, <3>1, <3>2, TrailNone DEF IsData
  <2>3. CASE n.kind = "marker"
    <3>1. Owes(x, n) /\ kept' = kept /\ made' = made
      BY <1>0, <2>3 DEF Accept
    <3> QED BY <1>5, <1>8, <2>3, <3>1, TrailNone DEF IsData
  <2> QED BY <1>3, <2>1, <2>2, <2>3
<1>10. Turned(x, n)
  BY <1>5, <1>6, <1>7, <1>9 DEF Turned
<1> QED
  BY <1>0, <1>1, <1>2, <1>10 DEF n, i

SignalInv == \A x \in Nodes(graph) \cap alive : SignalAt(x)

LEMMA SignalNext ==
  ASSUME GraphOK, Types, StackInv, SidesInv, ClearInv, Next, SignalInv
  PROVE  SignalInv'
<1>0. graph' = graph /\ alive' \subseteq alive
  BY SameGraph, AliveOnly
<1> SUFFICES ASSUME NEW y \in Nodes(graph) \cap alive' PROVE SignalAt(y)'
  BY <1>0 DEF SignalInv
<1>1. y \in alive /\ SignalAt(y) /\ SidesAt(y) /\ ClearAt(y) /\ Sides(y)' = Sides(y)
  BY <1>0 DEF SignalInv, SidesInv, ClearInv, Sides
<1>2. CASE Rests(y)
  <2>1. pending'[y] = pending[y]
    BY <1>2, GoingRests
  <2> QED BY <1>1, <2>1 DEF SignalAt
<1>3. CASE NodeStep(y) /\ Feeds(y)
  <2>1. PICK s, k, n : Pushing(y, s, k, n) /\ Source(y, s, k, n)
    BY <1>1, <1>3, Sources DEF Feeds
  <2> QED BY <1>1, <2>1, PushHas
<1>4. CASE Takes(y)
  <2>1. PICK n : Turned(y, n)
    BY <1>1, <1>4, TurnedShape
  <2>2. \A s \in Sides(y) : pending'[y][s] = IF IsData(n) THEN <<>> ELSE <<n>>
    BY <2>1 DEF Turned
  <2> QED BY <1>1, <2>2 DEF SignalAt, IsData
<1>5. Rests(y) \/ (NodeStep(y) /\ Feeds(y)) \/ Takes(y)
  <2>1. alive \subseteq Parts(graph)
    BY DEF Types, GraphTypes
  <2> QED BY <1>1, <2>1, Steps DEF Rests, Outside
<1> QED
  BY <1>2, <1>3, <1>4, <1>5

-----------------------------------------------------------------------------
(* All of it together.                                                      *)
\* A Flush was written behind message i.
Sealed(q, i) == \E j \in DOMAIN q : i < j /\ q[j].kind = "flush"
\* The data of a writer that may still flush, or did.
Traced ==
  \A w \in Writers(graph) : \A i, m :
    /\ i \in DOMAIN written[w] /\ m = written[w][i] /\ IsData(m)
    /\ w \in alive \/ Sealed(written[w], i)
    => \E H, D : FlowInv(w, m, H, D) /\ (Sealed(written[w], i) => <<w, 1, 1>> \notin D)
FlushInv ==
  FlushesThrough /\ broke # TRUE => KnownInv /\ SignalInv /\ SeenInv /\ DeadInv /\ Traced

LEMMA BrokeStays ==
  ASSUME GraphOK, Types, Next
  PROVE  broke' = broke \/ broke' = TRUE
<1>1. ASSUME NEW x, NodeStep(x) PROVE broke' = broke \/ broke' = TRUE
  BY <1>1 DEF NodeStep, Resumes, Delivers, RotateOn, Unblock, PushClosed, SideIdle, WakeTarget, Takes, FindsEmpty,
     InputsClosed, WaitFront, LooksAt, AllExhausted, Parks, EachCalls, EachEnds
<1>2. ASSUME NEW t, EachCalls(t) \/ EachEnds(t) \/ ThreadEnds(t) \/ IoWorks(t) \/ IoReads(t) \/ IoPushes(t)
                    \/ IoDrops(t) \/ Fails(t) \/ WakeTarget(t) \/ WriterLeaves(t) \/ Writes(t) \/ TeeLeaves(t)
      PROVE  broke' = broke \/ broke' = TRUE
  BY <1>2 DEF EachCalls, EachEnds, ThreadEnds, IoWorks, IoReads, IoPushes, IoDrops, Fails, WakeTarget, WriterLeaves,
     Writes, TeeLeaves
<1>3. alive \subseteq Parts(graph)
  BY DEF Types, GraphTypes
<1> QED
  BY <1>1, <1>2, <1>3, Steps

LEMMA TracedNext ==
  ASSUME GraphOK, Types, StackInv, SidesInv, ClearInv, FollowInv, FlushesThrough, Next, broke' # TRUE,
         KnownInv, SignalInv, SeenInv, DeadInv, Traced
  PROVE  KnownInv' /\ Traced'
<1>0. /\ graph' = graph /\ alive' \subseteq alive /\ Streams /\ Acyclic /\ "marker" \notin graph.kinds
      /\ written \in [Parts(graph) -> Seq(Message)] /\ Steady /\ Feeding
  BY SameGraph, AliveOnly DEF FlushesThrough, Streams, Steady, Feeding, Types, WriteTypes
<1> DEFINE Now(w, i, m) == /\ i \in DOMAIN written[w] /\ m = written[w][i] /\ IsData(m)
                           /\ w \in alive \/ Sealed(written[w], i)
           Goal(w, i, m) == \E H, D : FlowInv(w, m, H, D)' /\ (Sealed(written'[w], i) => <<w, 1, 1>> \notin D)
<1>1. (\A w \in Writers(graph) : \A i, m :
         i \in DOMAIN written'[w] /\ m = written'[w][i] /\ IsData(m) /\ (w \in alive' \/ Sealed(written'[w], i))
           => Goal(w, i, m))
        => Traced'
  BY <1>0 DEF Traced, IsData
<1>2. \A w \in Writers(graph) : \A i, m : Now(w, i, m) =>
        \E H, D : FlowInv(w, m, H, D) /\ (Sealed(written[w], i) => <<w, 1, 1>> \notin D)
  BY DEF Traced
<1>3. CASE \E x \in Nodes(graph) \cap alive : NodeStep(x) /\ Feeds(x)
  <2>1. PICK x \in Nodes(graph) \cap alive : NodeStep(x) /\ Feeds(x)
    BY <1>3
  <2>2. SidesAt(x) /\ SignalAt(x)
    BY DEF SidesInv, SignalInv
  <2>3. PICK s, k, n : Pushing(x, s, k, n) /\ Source(x, s, k, n)
    BY <2>1, <2>2, Sources DEF Feeds
  <2>4. KnownInv' /\ n.kind # "marker" /\ written' = written /\ alive' = alive
    <3>1. KnownInv' /\ Known(n, written)
      BY <2>1, <2>3, KnownFed
    <3> QED BY <2>3, <3>1 DEF Known, Pushing
  <2>5. ASSUME NEW w \in Writers(graph), NEW i, NEW m, Now(w, i, m) PROVE Goal(w, i, m)
    <3>1. PICK H, D : FlowInv(w, m, H, D) /\ (Sealed(written[w], i) => <<w, 1, 1>> \notin D)
      BY <1>2, <2>5
    <3>2. \E H2, D2 : FlowInv(w, m, H2, D2)' /\ (<<w, 1, 1>> \in D2 => <<w, 1, 1>> \in D)
      BY <2>1, <2>2, <2>3, <2>4, <2>5, <3>1, FlowFed
    <3> QED BY <2>4, <3>1, <3>2
  <2> QED BY <1>1, <2>4, <2>5
<1>4. CASE \E x \in Nodes(graph) \cap alive : Takes(x)
  <2>1. PICK x \in Nodes(graph) \cap alive : Takes(x)
    BY <1>4
  <2>2. ClearAt(x) /\ written' = written /\ alive' = alive
    BY <2>1 DEF ClearInv, Takes
  <2>3. KnownInv' /\ Head(buf[<<x, pc[x].i>>]).kind # "marker"
    BY <1>0, <2>1, <2>2, KnownTook DEF Known
  <2>4. ASSUME NEW w \in Writers(graph), NEW i, NEW m, Now(w, i, m) PROVE Goal(w, i, m)
    <3>1. PICK H, D : FlowInv(w, m, H, D) /\ (Sealed(written[w], i) => <<w, 1, 1>> \notin D)
      BY <1>2, <2>4
    <3>2. FlowInv(w, m, H, D)'
      BY <1>0, <2>1, <2>2, <2>3, <2>4, <3>1, FlowTook
    <3> QED BY <2>2, <3>1, <3>2
  <2> QED BY <1>1, <2>2, <2>3, <2>4
<1>5. CASE \E v \in Writers(graph) \cap alive : Writes(v)
  <2>1. PICK v \in Writers(graph) \cap alive : Writes(v)
    BY <1>5
  <2>2. PICK n \in Message :
          /\ n.kind # "marker" /\ n.from = v /\ n.nth = Len(written[v]) + 1 /\ Nowhere(n)
          /\ Push(<<v, 1, 1>>, n) /\ Outcome(<<v, 1, 1>>, n) = "pushed"
          /\ written' = [written EXCEPT ![v] = Append(@, n)]
    BY <1>0, <2>1, KnownWrote
  <2>3. KnownInv' /\ alive' = alive
    BY <1>0, <2>1, KnownWrote DEF Writes
  <2>4. v \in Parts(graph) /\ written[v] \in Seq(Message) /\ written'[v] = Append(written[v], n)
    BY <1>0, <2>2, KindsDiffer
  <2>5. /\ DOMAIN written[v] = 1 .. Len(written[v]) /\ Len(written[v]) \in Nat
        /\ DOMAIN written'[v] = 1 .. Len(written[v]) + 1 /\ written'[v][Len(written[v]) + 1] = n
        /\ \A j \in 1 .. Len(written[v]) : written'[v][j] = written[v][j]
    BY <2>2, <2>4
  <2>6. ASSUME NEW w \in Writers(graph), NEW i, NEW m, Now(w, i, m),
               Sealed(written'[w], i) => Sealed(written[w], i) \/ (v = w /\ n.kind = "flush")
        PROVE  Goal(w, i, m)
    <3>1. PICK H, D : FlowInv(w, m, H, D) /\ (Sealed(written[w], i) => <<w, 1, 1>> \notin D)
      BY <1>2, <2>6
    <3>2. n # m
      <4>1. m.from = w /\ m.nth = i
        BY <2>6 DEF KnownInv
      <4>2. w = v => i # Len(written[v]) + 1
        BY <2>5, <2>6
      <4> QED BY <2>2, <4>1, <4>2
    <3>3. \E D2 : /\ FlowInv(w, m, H, D2)' /\ D2 \subseteq D
                  /\ v = w /\ n.kind = "flush" => <<w, 1, 1>> \notin D2
      BY <2>1, <2>2, <2>6, <3>1, <3>2, FlowWrote
    <3> QED BY <2>6, <3>1, <3>3
  <2>7. ASSUME NEW w \in Writers(graph), NEW i, NEW m, i \in DOMAIN written'[w], m = written'[w][i], IsData(m),
               w \in alive' \/ Sealed(written'[w], i)
        PROVE  Goal(w, i, m)
    <3>1. CASE w # v
      <4>1. w \in Parts(graph)
        BY KindsDiffer
      <4>2. written'[w] = written[w]
        BY <1>0, <2>2, <3>1, <4>1
      <4> QED BY <2>3, <2>6, <2>7, <4>2
    <3>2. CASE w = v /\ i # Len(written[v]) + 1
      <4>1. i \in DOMAIN written[w] /\ m = written[w][i]
        BY <2>5, <2>7, <3>2
      <4>2. Sealed(written'[w], i) => Sealed(written[w], i) \/ n.kind = "flush"
        BY <2>5, <3>2 DEF Sealed
      <4> QED BY <2>1, <2>6, <2>7, <3>2, <4>1, <4>2
    <3>3. CASE w = v /\ i = Len(written[v]) + 1
      <4>1. m = n
        BY <2>5, <2>7, <3>3
      <4>2. ~Sealed(written'[w], i)
        BY <2>5, <3>3 DEF Sealed
      <4>3. FlowInv(w, m, {<<w, 1, 1>>}, {<<w, 1, 1>>})'
        BY <2>1, <2>2, <2>7, <3>3, <4>1, FlowStart
      <4> QED BY <4>2, <4>3
    <3> QED BY <3>1, <3>2, <3>3
  <2> QED BY <1>1, <2>3, <2>7
<1>6. CASE Quiet
  <2>1. KnownInv' /\ written' = written
    BY <1>6, KnownQuiet DEF Quiet
  <2>2. ASSUME NEW w \in Writers(graph), NEW i, NEW m, Now(w, i, m), w \in alive' \/ Sealed(written[w], i)
        PROVE  Goal(w, i, m)
    <3>1. PICK H, D : FlowInv(w, m, H, D) /\ (Sealed(written[w], i) => <<w, 1, 1>> \notin D)
      BY <1>2, <2>2
    <3>2. FlowInv(w, m, H, D)'
      BY <1>0, <1>6, <2>2, <3>1, FlowQuiet
    <3> QED BY <2>1, <3>1, <3>2
  <2> QED BY <1>0, <1>1, <2>1, <2>2
<1> QED
  BY <1>0, <1>3, <1>4, <1>5, <1>6, FlowSteps

LEMMA FlushInit == Init => FlushInv
<1> SUFFICES ASSUME Init PROVE KnownInv /\ SignalInv /\ SeenInv /\ DeadInv /\ Traced
  BY DEF FlushInv
<1>1. GraphOK /\ alive = Parts(graph) /\ Nodes(graph) \subseteq Parts(graph) /\ Writers(graph) \subseteq Parts(graph)
  BY GraphIsOK, KindsDiffer DEF Init, GraphTypes
<1>2. ASSUME NEW x \in Nodes(graph)
      PROVE  /\ kept[x] = <<>> /\ pc[x] = Idle
             /\ \A s \in Sides(x) : made[x][s] = <<>> /\ pending[x][s] = <<>> /\ Going(x, s) = <<>>
  <2>1. pc[x] = Idle
    BY <1>1, KindsDiffer DEF Init
  <2> QED BY <2>1, IdleFrames DEF Init, Going
<1>3. \A w \in Parts(graph) : written[w] = <<>>
  BY DEF Init
<1>4. \A i \in Inputs(graph) : i[1] \in Parts(graph) /\ buf[i] = <<>>
  BY <1>1, OutletShape DEF Init
<1>5. KnownInv
  BY <1>1, <1>2, <1>3, <1>4, KnownFew DEF KnownInv, KnownAt
<1>6. SignalInv /\ SeenInv
  BY <1>2, IdleFrames DEF SignalInv, SignalAt, SeenInv, SeenAt
<1>7. DeadInv /\ Traced
  BY <1>1, <1>3, <1>4 DEF DeadInv, Traced
<1> QED
  BY <1>5, <1>6, <1>7

LEMMA FlushNext ==
  ASSUME GraphOK, Types, StackInv, SidesInv, ClearInv, FollowInv, FlushInv, Next
  PROVE  FlushInv'
<1>0. graph' = graph
  BY SameGraph
<1>1. FlushesThrough' <=> FlushesThrough
  BY <1>0 DEF FlushesThrough, Acyclic, Loops, Sides, To
<1> SUFFICES ASSUME FlushesThrough, broke' # TRUE
             PROVE  KnownInv' /\ SignalInv' /\ SeenInv' /\ DeadInv' /\ Traced'
  BY <1>1 DEF FlushInv
<1>2. Steady /\ Feeding
  BY DEF FlushesThrough, Steady, Feeding
<1>3. KnownInv /\ SignalInv /\ SeenInv /\ DeadInv /\ Traced
  BY BrokeStays DEF FlushInv
<1> QED
  BY <1>2, <1>3, SignalNext, SeenNext, DeadNext, TracedNext

\* Once all threads are gone the outlets that took a message are its way to
\* the readers: no node holds it any more.
LEMMA FlushSuffices ==
  ASSUME GraphOK, Types, FlushInv
  PROVE  FlushedIsDelivered
<1> SUFFICES ASSUME alive \subseteq Tees(graph), ~broke, FlushesThrough, NEW w \in Writers(graph),
                    NEW i \in DOMAIN written[w], NEW j \in DOMAIN written[w],
                    i < j, written[w][i].kind = "data", written[w][j].kind = "flush"
             PROVE  Arrived(written[w][i], w)
  BY DEF FlushedIsDelivered
<1>0. broke # TRUE
  BY Zenon
<1>1. DeadInv /\ Traced /\ EdgesLead(graph)
  BY <1>0 DEF FlushInv, GraphOK, Shaped
<1>2. PICK m : m = written[w][i]
  OBVIOUS
<1>3. PICK H, D : FlowInv(w, m, H, D)
  BY <1>1, <1>2 DEF Traced, Sealed, IsData
<1>4. H \subseteq Outlets(graph) /\ <<w, 1, 1>> \in H /\ Borne(m, H)
  BY <1>3 DEF FlowInv
<1>5. \A x \in Nodes(graph) : x \notin alive /\ x \in Parts(graph) /\ graph.kind[x] # "tee"
  BY KindsDiffer
<1>6. ASSUME NEW o \in H, graph.kind[To(o)[1]] = "tee" PROVE m \in ToSet(buf[To(o)])
  <2>1. In(m, buf[To(o)])
    BY <1>4, <1>5, <1>6 DEF Borne
  <2> QED BY <2>1 DEF In, ToSet
<1>7. ASSUME NEW o \in H, graph.kind[To(o)[1]] # "tee"
      PROVE  \E s \in Sides(To(o)[1]) : \A k \in DOMAIN graph.outs[To(o)[1]][s] : <<To(o)[1], s, k>> \in H
  <2>1. PICK x : x = To(o)[1]
    OBVIOUS
  <2>2. o \in Outlets(graph)
    BY <1>4
  <2>3. To(o) \in Inputs(graph) /\ x \in Parts(graph) /\ To(o)[2] \in DOMAIN graph.bound[x]
    BY <2>1, <2>2, OutletShape
  <2>4. graph.bound[x] # <<>>
    BY <2>3
  <2>5. x \in Nodes(graph) \cup Tees(graph) \/ graph.kind[x] = "io"
    BY <1>1, <2>3, <2>4 DEF EdgesLead
  <2>6. x \in Nodes(graph)
    <3>1. x \notin Tees(graph)
      BY <1>7, <2>1, KindsDiffer
    <3>2. graph.kind[x] # "io"
      BY <2>3 DEF FlushesThrough, Threads
    <3> QED BY <2>5, <3>1, <3>2
  <2>7. buf[To(o)] = <<>>
    BY <1>1, <1>5, <2>1, <2>3, <2>6 DEF DeadInv
  <2>8. Carried(m, x, H)
    BY <1>4, <2>1, <2>7, OfNone DEF Borne
  <2> QED BY <1>5, <2>1, <2>6, <2>8 DEF Carried
<1>8. Arrived(m, w)
  <2>1. H \in SUBSET Outlets(graph)
    BY <1>4
  <2> QED BY <1>4, <1>6, <1>7, <2>1 DEF Arrived
<1> QED
  BY <1>2, <1>8

\* All that was written before a Flush has come out, to every reader on its
\* way, by the time the threads have ended, where no error cut the graph short:
\* a routine that keeps data back gives it up for the Flush (work_flush), a
\* node quits only once nothing can come to it any more (InputsClosed,
\* wait_front, wait_any), and what waits at a full edge is held, not dropped.
THEOREM FlushesDeliver == Spec => []FlushedIsDelivered
<1> DEFINE I == SidesInv /\ ClearInv /\ FollowInv /\ SignalsFollowData /\ FlushInv
<1>1. Init => I
  <2> SUFFICES ASSUME Init PROVE SidesInv /\ ClearInv
    BY FollowInit, FlushInit
  <2>1. \A x \in Nodes(graph) : pc[x].at = "idle"
    BY IdleFrames, KindsDiffer DEF Init
  <2> QED BY <2>1 DEF SidesInv, SidesAt, ClearInv, ClearAt
<1>2. Types /\ StackInv /\ I /\ [Next]_vars => I'
  <2> SUFFICES ASSUME Types, StackInv, I, [Next]_vars PROVE I'
    OBVIOUS
  <2>0. GraphOK /\ FollowInv' /\ SignalsFollowData'
    BY GraphIsOK, FollowNext DEF StackInv
  <2>1. CASE Next
    BY <2>0, <2>1, SidesNext, ClearNext, FlushNext
  <2>2. CASE UNCHANGED vars
    <3>1. UNCHANGED <<graph, alive, buf, follow, kept, made, pending, held, pc, written, broke>>
      BY <2>2 DEF vars, edgeVars, routineVars
    <3>2. SidesInv' /\ ClearInv'
      BY <3>1 DEF SidesInv, SidesAt, Sides, ClearInv, ClearAt, NothingOn
    <3>3. KnownInv' <=> KnownInv
      BY <3>1 DEF KnownInv, KnownAt, Going, Sides
    <3>4. (SignalInv' <=> SignalInv) /\ (SeenInv' <=> SeenInv) /\ (DeadInv' <=> DeadInv)
      BY <3>1 DEF SignalInv, SignalAt, SeenInv, SeenAt, NumInputs, Exhausted, DeadInv, Sides
    <3>5. \A w, m, H, D : FlowInv(w, m, H, D)' <=> FlowInv(w, m, H, D)
      BY <3>1 DEF FlowInv, Borne, Carried, Owing, Coming, Followed, FlushedOut, Brings, Has, LeftTo, Going, Still,
         Sides, To, Follows
    <3>6. Traced' <=> Traced
      BY <3>1, <3>5 DEF Traced, IsData
    <3>7. FlushesThrough' <=> FlushesThrough
      BY <3>1 DEF FlushesThrough, Acyclic, Loops, Sides, To
    <3> QED BY <2>0, <3>1, <3>2, <3>3, <3>4, <3>6, <3>7 DEF FlushInv
  <2> QED BY <2>1, <2>2
<1>3. Types /\ StackInv /\ I => FlushedIsDelivered
  BY FlushSuffices, GraphIsOK DEF StackInv, GraphTypes
<1> QED
  BY <1>1, <1>2, <1>3, TypeSafe, PTL DEF Spec

-----------------------------------------------------------------------------
(* A LineIo alone with its graph, loop and all: a signal chases the data    *)
(* through it, and is the last to come out.                                 *)

\* In what follows D has the outlets through which no signal went since the last
\* data.
Burdened(x, s, k) == Laden(made[x][s]) \/ Laden(LeftTo(x, s, k))
Pledged(x, s, k) == pending[x][s] # <<>> \/ Signalled(LeftTo(x, s, k))
Called(x) == \E i \in Inputs(graph) : i[1] = x /\ Signalled(buf[i])
Fed(x, D) == Called(x) \/ \E i \in Inputs(graph) : i[1] = x /\ \E u \in D : To(u) = i

\* Whose signal for outlet o is still to come: the caller has none out yet, or the
\* node holds it, or has it on an edge.
Sent(t, o) == o[1] \in Lent(graph) /\ pc[t].at = "idle"
Owed(o) == o[1] \in Nodes(graph) /\ (Pledged(o[1], o[2], o[3]) \/ Called(o[1]))
\* No part of D waits only for itself: round a loop one outlet at least is owed a
\* signal from outside it.
Backed(t, D) ==
  \A K \in SUBSET D : K # {} =>
    \E o \in K : Sent(t, o) \/ Owed(o) \/ \E u \in D \ K : To(u)[1] = o[1]

\* The caller waits for a marker, which brings out nothing that is kept back.
Marking(t) == pc[t].at # "idle" /\ pc[t].msg[1].kind = "marker"
SameCall(t) ==
  (pc'[t].at = "idle" <=> pc[t].at = "idle") /\ (pc[t].at # "idle" => pc'[t].msg = pc[t].msg)

Chased(t, D) ==
  /\ D \subseteq Outlets(graph) /\ Backed(t, D)
  /\ \A o \in D : o[1] \in alive /\ (Follows(o) => follow[o])
  /\ \A i \in Inputs(graph) : Trailed(buf[i]) \/ \E u \in D : To(u) = i
  /\ \A x \in Nodes(graph) \cap alive :
       /\ "flush" \in graph.kinds /\ ~Marking(t) /\ kept[x] # <<>> => Fed(x, D)
       /\ \A s \in Sides(x) : \A k \in DOMAIN graph.outs[x][s] :
            Burdened(x, s, k) => pending[x][s] # <<>> \/ Fed(x, D)

LEMMA BackedStays ==
  ASSUME NEW t, NEW D, Backed(t, D), NEW o, NEW D2, D2 \subseteq D \cup {o}, graph' = graph,
         \A u \in D2 \cap D : Sent(t, u) \/ Owed(u) => Sent(t, u)' \/ Owed(u)',
         \A u \in D2 \cap D, v \in D \ D2 : To(v)[1] = u[1] => Owed(u)',
         o \in D2 /\ o \notin D => Sent(t, o)' \/ Owed(o)' \/ \E v \in D2 \cap D : To(v)[1] = o[1]
  PROVE  Backed(t, D2)'
<1>0. \A u : To(u)' = To(u)
  BY DEF To
<1> SUFFICES ASSUME NEW K \in SUBSET D2, K # {}
             PROVE  \E u \in K : Sent(t, u)' \/ Owed(u)' \/ \E v \in D2 \ K : To(v)[1] = u[1]
  BY <1>0 DEF Backed
<1>1. CASE K \cap D = {}
  <2>1. K = {o} /\ o \notin D /\ o \in D2
    BY <1>1
  <2> QED BY <2>1
<1>2. CASE K \cap D # {}
  <2>1. PICK u \in K \cap D : Sent(t, u) \/ Owed(u) \/ \E v \in D \ (K \cap D) : To(v)[1] = u[1]
    <3>1. K \cap D \in SUBSET D
      OBVIOUS
    <3> QED BY <1>2, <3>1 DEF Backed
  <2>2. u \in D2 \cap D
    OBVIOUS
  <2>3. CASE Sent(t, u) \/ Owed(u)
    BY <2>2, <2>3
  <2>4. CASE \E v \in D \ (K \cap D) : To(v)[1] = u[1]
    <3>1. PICK v \in D \ (K \cap D) : To(v)[1] = u[1]
      BY <2>4
    <3>2. v \in D2 => v \in D2 \ K
      BY <3>1
    <3> QED BY <2>2, <3>1, <3>2
  <2> QED BY <2>1, <2>3, <2>4
<1> QED
  BY <1>1, <1>2

\* What a push through outlet o makes of D.
Chase(D, o, n) ==
  IF Outcome(o, n) # "pushed" THEN D ELSE IF IsData(n) THEN D \cup {o} ELSE D \ {o}

LEMMA ChasePush ==
  ASSUME GraphOK, Types, FollowInv, NEW o \in Outlets(graph), NEW n \in Message,
         Push(o, n) \/ (Outcome(o, n) = "stuck" /\ UNCHANGED <<buf, follow>>), graph' = graph,
         NEW D, D \subseteq Outlets(graph), \A u \in D : Follows(u) => follow[u],
         \A i \in Inputs(graph) : Trailed(buf[i]) \/ \E u \in D : To(u) = i,
         NEW D2, D2 = Chase(D, o, n)
  PROVE  /\ D2 \subseteq Outlets(graph)
         /\ \A u \in D2 : Follows(u)' => follow'[u]
         /\ \A i \in Inputs(graph) : Trailed(buf'[i]) \/ \E u \in D2 : To(u) = i
         /\ \A y : (Called(y) => Called(y)') /\ (Fed(y, D) => Fed(y, D2)')
         /\ \A v \in D \ D2 : \A y : To(v)[1] = y => Called(y)'
         /\ \A u \in D2 : u # o => u \in D
         /\ o \in D2 => o \in D \/ IsData(n)
         /\ IsData(n) => D \subseteq D2
         /\ Outcome(o, n) \in {"pushed", "dropped"} /\ ~IsData(n) => o \notin D2
<1> DEFINE i == To(o)
           pushed == Outcome(o, n) = "pushed"
<1>0. /\ i \in Inputs(graph) /\ buf \in [Inputs(graph) -> Seq(Message)]
      /\ follow \in [Outlets(graph) -> BOOLEAN] /\ \A u : To(u)' = To(u) /\ Follows(u)' = Follows(u)
      /\ \A u \in Outlets(graph) : To(u) \in Inputs(graph)
  BY OutletShape DEF Types, EdgeTypes, FollowInv, To, Follows
<1>1. /\ pushed => buf'[i] = Append(buf[i], n)
      /\ ~pushed => buf' = buf
      /\ \A j \in Inputs(graph) : j # i => buf'[j] = buf[j]
  BY <1>0 DEF Push
<1>2. /\ Signalled(Append(buf[i], n)) <=> Signalled(buf[i]) \/ ~IsData(n)
      /\ ~IsData(n) => Trailed(Append(buf[i], n))
  <2>1. buf[i] \in Seq(Message)
    BY <1>0
  <2> QED BY <2>1, TrailAppend
<1>3. Outcome(o, n) = "dropped" => ~IsData(n) /\ o \notin D
  BY DEF Outcome, Passes
<1>4. /\ \A u \in Outlets(graph) : u # o => follow'[u] = follow[u]
      /\ pushed /\ Follows(o) => follow'[o] = IsData(n)
      /\ Outcome(o, n) \notin {"pushed", "dropped"} => follow' = follow
  BY <1>0 DEF Push, Judged
<1>5. /\ D2 \subseteq Outlets(graph)
      /\ \A u \in D2 : u # o => u \in D
      /\ \A u \in D : u # o => u \in D2
      /\ o \in D2 => o \in D \/ (pushed /\ IsData(n))
      /\ pushed /\ IsData(n) => o \in D2
      /\ pushed /\ ~IsData(n) => o \notin D2
      /\ o \in D /\ o \notin D2 => pushed /\ ~IsData(n)
      /\ ~pushed => D2 = D
  BY DEF Chase
<1>6. IsData(n) => D \subseteq D2
  BY <1>5
<1>7. Outcome(o, n) \in {"pushed", "dropped"} /\ ~IsData(n) => o \notin D2
  BY <1>3, <1>5
<1> HIDE DEF i, pushed
<1>8. \A j \in Inputs(graph) : Signalled(buf[j]) => Signalled(buf'[j])
  BY <1>1, <1>2
<1>9. \A y : Called(y) => Called(y)'
  BY <1>8 DEF Called
<1>10. \A v \in D \ D2 : \A y : To(v)[1] = y => Called(y)'
  <2> SUFFICES ASSUME NEW v \in D \ D2 PROVE Signalled(buf'[To(v)])
    BY <1>0 DEF Called
  <2>1. v = o /\ pushed /\ ~IsData(n)
    BY <1>5
  <2> QED BY <1>1, <1>2, <2>1 DEF i
<1>11. \A y : Fed(y, D) => Fed(y, D2)'
  <2> SUFFICES ASSUME NEW y, NEW j \in Inputs(graph), j[1] = y, NEW u \in D, To(u) = j
               PROVE  Called(y)' \/ \E v \in D2 : To(v) = j
    BY <1>0, <1>9 DEF Fed
  <2> QED BY <1>10
<1>12. ASSUME NEW j \in Inputs(graph) PROVE Trailed(buf'[j]) \/ \E u \in D2 : To(u) = j
  <2>1. CASE j # i
    BY <1>1, <1>5, <2>1 DEF i
  <2>2. CASE j = i /\ ~pushed
    BY <1>1, <1>5, <2>2 DEF i
  <2>3. CASE j = i /\ pushed
    BY <1>1, <1>2, <1>5, <2>3 DEF i
  <2> QED BY <2>1, <2>2, <2>3
<1>13. ASSUME NEW u \in D2, Follows(u) PROVE follow'[u]
  <2>1. CASE u # o
    BY <1>4, <1>5, <1>13, <2>1
  <2>2. CASE u = o /\ pushed
    BY <1>4, <1>5, <1>13, <2>2
  <2>3. CASE u = o /\ ~pushed
    BY <1>3, <1>4, <1>5, <1>13, <2>3 DEF pushed
  <2> QED BY <2>1, <2>2, <2>3
<1> QED
  BY <1>0, <1>5, <1>6, <1>7, <1>9, <1>10, <1>11, <1>12, <1>13

LEMMA PushTrail ==
  ASSUME GraphOK, Types, StackInv, NEW x \in Nodes(graph) \cap alive, NEW s, NEW k, NEW n,
         Pushing(x, s, k, n), Source(x, s, k, n), SignalAt(x)
  PROVE  /\ \A j \in DOMAIN graph.outs[x][s] :
              /\ Burdened(x, s, j)' => Burdened(x, s, j) /\ pending'[x][s] = pending[x][s]
              /\ Pledged(x, s, j) => Pledged(x, s, j)' \/ (Taken(x, s, k, n) /\ j = k /\ ~IsData(n))
         /\ IsData(n) => Burdened(x, s, k) /\ pending'[x][s] = pending[x][s]
         /\ \A r \in Sides(x) : r # s =>
              /\ pending'[x][r] = pending[x][r]
              /\ \A j \in DOMAIN graph.outs[x][r] :
                   (Burdened(x, r, j)' <=> Burdened(x, r, j)) /\ (Pledged(x, r, j)' <=> Pledged(x, r, j))
         /\ kept'[x] = kept[x]
<1> DEFINE Out == DOMAIN graph.outs[x][s]
<1>0. /\ s \in Sides(x) /\ k \in Out /\ made[x][s] \in Seq(Message) /\ kept'[x] = kept[x]
      /\ graph' = graph /\ x \in Parts(graph)
  BY PushLeft, KindsDiffer DEF Pushing
<1>1. \A j \in Out : LeftTo(x, s, j)' = IF k <= j /\ ~(Taken(x, s, k, n) /\ j = k) THEN <<n>> ELSE <<>>
  BY PushLeft
<1>2. k <= k
  <2>1. DOMAIN graph.outs[x][s] = 1 .. Len(graph.outs[x][s]) /\ Len(graph.outs[x][s]) \in Nat
    BY <1>0, OutletShape
  <2> QED BY <1>0, <2>1
<1>3. \A r \in Sides(x) : r # s =>
        /\ pending'[x][r] = pending[x][r]
        /\ \A j \in DOMAIN graph.outs[x][r] :
             (Burdened(x, r, j)' <=> Burdened(x, r, j)) /\ (Pledged(x, r, j)' <=> Pledged(x, r, j))
  <2>1. \A r \in Sides(x) : r # s =>
          /\ made'[x][r] = made[x][r] /\ pending'[x][r] = pending[x][r]
          /\ \A j \in DOMAIN graph.outs[x][r] : LeftTo(x, r, j)' = LeftTo(x, r, j)
    BY PushLeft
  <2> QED BY <2>1 DEF Burdened, Pledged
<1> DEFINE Goal ==
      /\ \A j \in Out :
           /\ Burdened(x, s, j)' => Burdened(x, s, j) /\ pending'[x][s] = pending[x][s]
           /\ Pledged(x, s, j) => Pledged(x, s, j)' \/ (Taken(x, s, k, n) /\ j = k /\ ~IsData(n))
      /\ IsData(n) => Burdened(x, s, k) /\ pending'[x][s] = pending[x][s]
<1>5. CASE /\ \A j \in Out : LeftTo(x, s, j) = IF k <= j THEN <<n>> ELSE <<>>
           /\ made'[x][s] = made[x][s] /\ pending'[x][s] = pending[x][s]
  <2>1. \A j \in Out : ~(Taken(x, s, k, n) /\ j = k) => LeftTo(x, s, j)' = LeftTo(x, s, j)
    BY <1>1, <1>5
  <2>2. \A j \in Out : LeftTo(x, s, j)' = LeftTo(x, s, j) \/ LeftTo(x, s, j)' = <<>>
    BY <1>1, <1>5
  <2>3. LeftTo(x, s, k) = <<n>>
    BY <1>0, <1>2, <1>5
  <2>4. Goal
    BY <1>0, <1>5, <2>1, <2>2, <2>3, TrailNone, TrailOne DEF Burdened, Pledged
  <2> QED BY <1>0, <1>3, <2>4
<1>6. CASE /\ \A j \in Out : LeftTo(x, s, j) = <<>> /\ k <= j
           /\ made[x][s] # <<>> /\ n = Head(made[x][s]) /\ made'[x][s] = Tail(made[x][s])
           /\ pending'[x][s] = pending[x][s]
  <2>1. Laden(made[x][s]) <=> Laden(made'[x][s]) \/ IsData(n)
    BY <1>0, <1>6, TrailTail
  <2>2. \A j \in Out : LeftTo(x, s, j)' = <<n>> \/ LeftTo(x, s, j)' = <<>>
    BY <1>1, <1>6
  <2>4. Goal
    BY <1>0, <1>6, <2>1, <2>2, TrailNone, TrailOne DEF Burdened, Pledged
  <2> QED BY <1>0, <1>3, <2>4
<1>7. CASE /\ \A j \in Out : LeftTo(x, s, j) = <<>> /\ k <= j
           /\ made[x][s] = <<>> /\ made'[x][s] = <<>>
           /\ pending[x][s] = <<n>> /\ ~IsData(n) /\ pending'[x][s] = <<>>
  <2>1. \A j \in Out : ~(Taken(x, s, k, n) /\ j = k) => LeftTo(x, s, j)' = <<n>>
    BY <1>1, <1>7
  <2>2. \A j \in Out : LeftTo(x, s, j)' = <<n>> \/ LeftTo(x, s, j)' = <<>>
    BY <1>1, <1>7
  <2>4. Goal
    BY <1>0, <1>7, <2>1, <2>2, TrailNone, TrailOne DEF Burdened, Pledged
  <2> QED BY <1>0, <1>3, <2>4
<1> QED
  BY <1>5, <1>6, <1>7, PushLeft

\* What leads on from where edges lead to is a node.
LEMMA FedIsNode ==
  ASSUME GraphOK, NEW o \in Outlets(graph), NEW u \in Outlets(graph), To(u)[1] = o[1]
  PROVE  o[1] \in Nodes(graph)
<1>1. /\ o[1] \in Parts(graph) /\ o[2] \in Sides(o[1]) /\ To(u)[2] \in DOMAIN graph.bound[o[1]]
  BY OutletShape
<1>2. graph.bound[o[1]] # <<>> /\ graph.outs[o[1]] # <<>>
  BY <1>1 DEF Sides
<1>3. EdgesLead(graph)
  BY DEF GraphOK, Shaped
<1>4. o[1] \notin Threads(graph) \cup Tees(graph)
  BY <1>2, <1>3 DEF EdgesLead
<1>5. o[1] \in Nodes(graph) \cup Tees(graph) \/ graph.kind[o[1]] = "io"
  BY <1>1, <1>2, <1>3 DEF EdgesLead
<1> QED
  BY <1>1, <1>4, <1>5 DEF Threads

\* A node's push: what goes on from a node was there with its signal behind it,
\* or with one to come.
LEMMA ChaseFed ==
  ASSUME GraphOK, Types, StackInv, FollowInv, Next, NEW t, NEW D, Chased(t, D),
         SameCall(t),
         NEW x \in Nodes(graph) \cap alive, NodeStep(x), NEW s, NEW k, NEW n,
         Pushing(x, s, k, n), Source(x, s, k, n), SignalAt(x)
  PROVE  \E D2 : Chased(t, D2)'
<1>0. /\ graph' = graph /\ alive' = alive /\ s \in Sides(x) /\ k \in DOMAIN graph.outs[x][s] /\ n \in Message
      /\ x \in Parts(graph) /\ kept'[x] = kept[x]
  BY KindsDiffer DEF Pushing
<1>1. PICK o : o = <<x, s, k>>
  OBVIOUS
<1>3. PICK D2 : D2 = Chase(D, o, n)
  OBVIOUS
<1>4. /\ o \in Outlets(graph)
      /\ Push(o, n) \/ (Outcome(o, n) = "stuck" /\ UNCHANGED <<buf, follow>>)
  BY <1>0, <1>1, OutletShape DEF Pushing, Rotate, edgeVars
<1>5. /\ D \subseteq Outlets(graph) /\ Backed(t, D)
      /\ \A u \in D : u[1] \in alive /\ (Follows(u) => follow[u])
      /\ \A i \in Inputs(graph) : Trailed(buf[i]) \/ \E u \in D : To(u) = i
      /\ \A y \in Nodes(graph) \cap alive :
           /\ "flush" \in graph.kinds /\ ~Marking(t) /\ kept[y] # <<>> => Fed(y, D)
           /\ \A r \in Sides(y) : \A j \in DOMAIN graph.outs[y][r] :
                Burdened(y, r, j) => pending[y][r] # <<>> \/ Fed(y, D)
  BY DEF Chased
<1>6. /\ D2 \subseteq Outlets(graph)
      /\ \A u \in D2 : Follows(u)' => follow'[u]
      /\ \A i \in Inputs(graph) : Trailed(buf'[i]) \/ \E u \in D2 : To(u) = i
      /\ \A y : (Called(y) => Called(y)') /\ (Fed(y, D) => Fed(y, D2)')
      /\ \A v \in D \ D2 : \A y : To(v)[1] = y => Called(y)'
      /\ \A u \in D2 : u # o => u \in D
      /\ o \in D2 => o \in D \/ IsData(n)
      /\ IsData(n) => D \subseteq D2
      /\ Outcome(o, n) \in {"pushed", "dropped"} /\ ~IsData(n) => o \notin D2
  BY <1>0, <1>3, <1>4, <1>5, ChasePush
<1> DEFINE Out(r) == DOMAIN graph.outs[x][r]
<1>7. /\ \A j \in Out(s) :
           /\ Burdened(x, s, j)' => Burdened(x, s, j) /\ pending'[x][s] = pending[x][s]
           /\ Pledged(x, s, j) => Pledged(x, s, j)' \/ (Taken(x, s, k, n) /\ j = k /\ ~IsData(n))
      /\ IsData(n) => Burdened(x, s, k) /\ pending'[x][s] = pending[x][s]
      /\ \A r \in Sides(x) : r # s =>
           /\ pending'[x][r] = pending[x][r]
           /\ \A j \in Out(r) :
                (Burdened(x, r, j)' <=> Burdened(x, r, j)) /\ (Pledged(x, r, j)' <=> Pledged(x, r, j))
  BY PushTrail
<1>8. /\ \A y : Sides(y)' = Sides(y)
      /\ \A u : To(u)' = To(u)
      /\ Marking(t)' <=> Marking(t)
  BY <1>0 DEF Sides, To, Marking, SameCall
<1> HIDE DEF Out
<1>9. ASSUME NEW y \in Nodes(graph) \cap alive, y # x
      PROVE  /\ kept'[y] = kept[y] /\ pending'[y] = pending[y]
             /\ \A r \in Sides(y) : \A j \in DOMAIN graph.outs[y][r] :
                  (Burdened(y, r, j)' <=> Burdened(y, r, j)) /\ (Pledged(y, r, j)' <=> Pledged(y, r, j))
  <2>1. Rests(y) /\ y \in alive'
    BY <1>0, <1>9 DEF Rests
  <2>2. Same(y)
    BY <2>1, RestsSame
  <2> QED BY <2>2 DEF Same, Burdened, Pledged
<1>10. ASSUME NEW u \in D2, u \in D, Sent(t, u) \/ Owed(u) PROVE Sent(t, u)' \/ Owed(u)'
  <2>0. u \in Outlets(graph)
    BY <1>5, <1>10
  <2>1. CASE Sent(t, u)
    BY <1>0, <2>1 DEF Sent, SameCall
  <2>2. CASE Owed(u)
    <3>0. u[1] \in Nodes(graph) \cap alive /\ (Pledged(u[1], u[2], u[3]) \/ Called(u[1]))
      BY <1>5, <1>10, <2>2 DEF Owed
    <3> SUFFICES Pledged(u[1], u[2], u[3])' \/ Called(u[1])'
      BY <1>0, <3>0 DEF Owed
    <3>1. CASE Called(u[1])
      BY <1>6, <3>1
    <3>2. CASE u[1] # x /\ Pledged(u[1], u[2], u[3])
      BY <1>9, <2>0, <3>0, <3>2, OutletShape
    <3>3. CASE u[1] = x /\ Pledged(u[1], u[2], u[3])
      <4>1. u[2] \in Sides(x) /\ u[3] \in Out(u[2]) /\ u = <<x, u[2], u[3]>>
        BY <2>0, <3>3, OutletShape DEF Out
      <4>2. u[2] = s /\ u[3] = k => ~(Taken(x, s, k, n) /\ ~IsData(n))
        BY <1>1, <1>6, <1>10, <4>1 DEF Taken
      <4> QED BY <1>7, <3>3, <4>1, <4>2
    <3> QED BY <3>0, <3>1, <3>2, <3>3
  <2> QED BY <1>10, <2>1, <2>2
<1>11. ASSUME NEW u \in D2, u \in D, NEW v \in D \ D2, To(v)[1] = u[1] PROVE Owed(u)'
  <2>1. Called(u[1])'
    BY <1>6, <1>11
  <2>2. u[1] \in Nodes(graph)
    BY <1>5, <1>11, FedIsNode
  <2> QED BY <1>0, <2>1, <2>2 DEF Owed
<1>12. ASSUME o \in D2, o \notin D PROVE Owed(o)' \/ \E v \in D2 \cap D : To(v)[1] = o[1]
  <2>0. IsData(n) /\ D \subseteq D2 /\ o[1] = x /\ o[2] = s /\ o[3] = k
    BY <1>1, <1>6, <1>12
  <2>1. pending[x][s] # <<>> \/ Fed(x, D)
    BY <1>0, <1>5, <1>7, <2>0
  <2>2. CASE pending[x][s] # <<>>
    <3>1. Pledged(x, s, k)'
      BY <1>7, <2>0, <2>2 DEF Pledged
    <3> QED BY <1>0, <2>0, <3>1 DEF Owed
  <2>3. CASE Called(x)
    BY <1>0, <1>6, <2>0, <2>3 DEF Owed
  <2>4. CASE \E i \in Inputs(graph) : i[1] = x /\ \E u \in D : To(u) = i
    BY <2>0, <2>4
  <2> QED BY <2>1, <2>2, <2>3, <2>4 DEF Fed
<1>13. Backed(t, D2)'
  <2>1. D2 \subseteq D \cup {o}
    BY <1>6
  <2> QED BY <1>0, <1>5, <1>10, <1>11, <1>12, <2>1, BackedStays
<1>14. \A u \in D2 : u[1] \in alive'
  BY <1>0, <1>1, <1>5, <1>6
<1>15. ASSUME NEW y \in Nodes(graph) \cap alive
       PROVE  /\ "flush" \in graph.kinds /\ ~Marking(t)' /\ kept'[y] # <<>> => Fed(y, D2)'
              /\ \A r \in Sides(y) : \A j \in DOMAIN graph.outs[y][r] :
                   Burdened(y, r, j)' => pending'[y][r] # <<>> \/ Fed(y, D2)'
  <2>1. /\ "flush" \in graph.kinds /\ ~Marking(t) /\ kept[y] # <<>> => Fed(y, D)
        /\ \A r \in Sides(y) : \A j \in DOMAIN graph.outs[y][r] :
             Burdened(y, r, j) => pending[y][r] # <<>> \/ Fed(y, D)
    BY <1>5
  <2>2. CASE y # x
    BY <1>6, <1>8, <1>9, <2>1, <2>2
  <2>3. CASE y = x
    <3>1. ASSUME NEW r \in Sides(y), NEW j \in DOMAIN graph.outs[y][r], Burdened(y, r, j)'
          PROVE  pending'[y][r] # <<>> \/ Fed(y, D2)'
      <4>1. Burdened(y, r, j) /\ pending'[y][r] = pending[y][r]
        BY <1>7, <2>3, <3>1 DEF Out
      <4> QED BY <1>6, <2>1, <4>1
    <3> QED BY <1>0, <1>6, <1>8, <2>1, <2>3, <3>1
  <2> QED BY <2>2, <2>3
<1>16. Chased(t, D2)'
  BY <1>0, <1>6, <1>8, <1>13, <1>14, <1>15 DEF Chased
<1> QED
  BY <1>16

\* What is dropped holds nothing.
GoneAt(x) == kept[x] = <<>> /\ \A s \in Sides(x) : made[x][s] = <<>> /\ held[x][s] = <<>>
GoneInv == \A x \in Nodes(graph) : x \notin alive => GoneAt(x)

LEMMA GoneNext ==
  ASSUME GraphOK, Types, StackInv, Next, GoneInv
  PROVE  GoneInv'
<1>0. /\ graph' = graph /\ alive \subseteq Parts(graph)
      /\ DOMAIN kept = Nodes(graph) /\ DOMAIN made = Nodes(graph) /\ DOMAIN held = Nodes(graph)
  BY SameGraph DEF Types, GraphTypes, RoutineTypes, HeldTypes
<1> SUFFICES ASSUME NEW y \in Nodes(graph), y \notin alive' PROVE GoneAt(y)'
  BY <1>0 DEF GoneInv
<1>1. Sides(y)' = Sides(y) /\ (y \notin alive => GoneAt(y))
  BY <1>0 DEF Sides, GoneInv
<1>2. ASSUME NEW gone, Drop(gone) PROVE GoneAt(y)'
  <2>1. CASE y \in gone
    BY <1>0, <1>1, <1>2, <2>1 DEF Drop, GoneAt
  <2>2. CASE y \notin gone
    <3>1. y \notin alive
      BY <1>2, <2>2 DEF Drop
    <3> QED BY <1>0, <1>1, <1>2, <2>2, <3>1 DEF Drop, GoneAt
  <2> QED BY <2>1, <2>2
<1>3. ASSUME UNCHANGED <<alive, routineVars, held>> PROVE GoneAt(y)'
  BY <1>1, <1>3 DEF routineVars, GoneAt
<1>4. ASSUME NEW x \in Nodes(graph) \cap alive, NodeStep(x) PROVE GoneAt(y)'
  <2>1. CASE Ends(x)
    BY <1>2, <2>1 DEF Ends
  <2>2. CASE Feeds(x)
    <3>1. PICK s, k, n : Pushing(x, s, k, n)
      BY <2>2, NodePushes DEF Feeds
    <3>2. kept' = kept /\ alive' = alive /\ x # y
      BY <3>1 DEF Pushing
    <3>3. \A r \in Sides(y) : held'[y][r] = held[y][r]
      BY <1>0, <3>1, <3>2 DEF Pushing, Rotate
    <3>4. made'[y] = made[y]
      BY <1>0, <2>2, <3>2 DEF Feeds, Resumes, Delivers, RotateOn, Unblock, routineVars
    <3> QED BY <1>1, <3>2, <3>3, <3>4 DEF GoneAt
  <2>3. CASE Takes(x)
    <3>0. alive' = alive /\ held' = held /\ x # y
      BY <2>3 DEF Takes
    <3>1. PICK m : Accept(x, m) /\ m.kind \in Kinds
      <4>0. x \in Parts(graph) /\ FrameOK(x, pc[x])
        BY KindsDiffer DEF Types, FrameTypes
      <4>1. pc[x].i \in 1 .. NumInputs(x) /\ DOMAIN graph.bound[x] = 1 .. NumInputs(x)
        BY <2>3, <4>0, OutletShape DEF Takes, Running, FrameOK
      <4>2. PICK b : b = buf[<<x, pc[x].i>>]
        OBVIOUS
      <4>3. b \in Seq(Message) /\ b # <<>> /\ Accept(x, Head(b))
        BY <2>3, <4>0, <4>1, <4>2, OutletShape DEF Takes, Types, EdgeTypes
      <4>4. Head(b) \in Message
        BY <4>3
      <4> QED BY <4>3, <4>4 DEF Message
    <3>2. \A q : Emits(x, q) => made'[y] = made[y]
      BY <1>0, <3>0 DEF Emits
    <3>3. kept'[y] = kept[y] /\ made'[y] = made[y]
      BY <1>0, <3>0, <3>1, <3>2 DEF Accept, Sends, Kinds
    <3> QED BY <1>1, <3>0, <3>3 DEF GoneAt
  <2>4. CASE ~Ends(x) /\ ~Feeds(x) /\ ~Takes(x)
    <3>1. UNCHANGED <<alive, routineVars, held>>
      BY <1>4, <2>4 DEF NodeStep, Feeds, PushClosed, SideIdle, WakeTarget, FindsEmpty, InputsClosed, WaitFront,
         LooksAt, AllExhausted, Parks, EachCalls, EachEnds
    <3> QED BY <1>3, <3>1
  <2> QED BY <2>1, <2>2, <2>3, <2>4
<1>5. ASSUME NEW t, \/ EachCalls(t) \/ EachEnds(t) \/ IoWorks(t) \/ IoReads(t) \/ IoPushes(t) \/ WakeTarget(t)
                    \/ Writes(t)
      PROVE  GoneAt(y)'
  BY <1>3, <1>5 DEF EachCalls, EachEnds, IoWorks, IoReads, IoPushes, WakeTarget, Writes
<1>6. ASSUME NEW t, ThreadEnds(t) \/ IoDrops(t) \/ Fails(t) \/ WriterLeaves(t) \/ TeeLeaves(t)
      PROVE  GoneAt(y)'
  BY <1>2, <1>6 DEF ThreadEnds, IoDrops, Fails, WriterLeaves, TeeLeaves
<1> QED
  BY <1>0, <1>4, <1>5, <1>6, Steps

\* A take: a node holds what came in, and owes the signal that did.
LEMMA ChaseTook ==
  ASSUME GraphOK, Types, StackInv, Next, NEW t, NEW D, Chased(t, D), SameCall(t),
         NEW x \in Nodes(graph) \cap alive, Takes(x), ClearAt(x),
         Head(buf[<<x, pc[x].i>>]).kind = "marker" => Marking(t)
  PROVE  Chased(t, D)'
<1>0. /\ graph' = graph /\ alive' = alive /\ follow' = follow /\ NodeStep(x) /\ x \in Parts(graph)
  BY KindsDiffer DEF Takes, Pop, NodeStep
<1>1. PICK i : i = <<x, pc[x].i>>
  OBVIOUS
<1>2. PICK n : n = Head(buf[i])
  OBVIOUS
<1>3. /\ Turned(x, n) /\ n \in Message /\ i \in Inputs(graph)
      /\ buf[i] \in Seq(Message) /\ buf[i] # <<>> /\ buf'[i] = Tail(buf[i])
      /\ \A j \in Inputs(graph) : j # i => buf'[j] = buf[j]
  BY <1>1, <1>2, TurnedShape
<1>4. i[1] = x /\ (n.kind = "marker" => Marking(t)) /\ n.kind \in Kinds
  BY <1>1, <1>2, <1>3 DEF Message
<1>5. /\ Signalled(buf[i]) => Signalled(buf'[i]) \/ ~IsData(n)
      /\ Trailed(buf[i]) => Trailed(buf'[i]) /\ (IsData(n) => Signalled(buf'[i]))
  BY <1>2, <1>3, TrailTail
<1>6. /\ D \subseteq Outlets(graph) /\ Backed(t, D)
      /\ \A u \in D : u[1] \in alive /\ (Follows(u) => follow[u])
      /\ \A j \in Inputs(graph) : Trailed(buf[j]) \/ \E u \in D : To(u) = j
      /\ \A y \in Nodes(graph) \cap alive :
           /\ "flush" \in graph.kinds /\ ~Marking(t) /\ kept[y] # <<>> => Fed(y, D)
           /\ \A r \in Sides(y) : \A j \in DOMAIN graph.outs[y][r] :
                Burdened(y, r, j) => pending[y][r] # <<>> \/ Fed(y, D)
  BY DEF Chased
<1>7. /\ \A y : Sides(y)' = Sides(y)
      /\ \A u : To(u)' = To(u) /\ Follows(u)' = Follows(u)
      /\ Marking(t)' <=> Marking(t)
  BY <1>0 DEF Sides, To, Follows, Marking, SameCall
<1>8. /\ \A y : y # x /\ Called(y) => Called(y)'
      /\ Called(x) => Called(x)' \/ ~IsData(n)
  <2> SUFFICES ASSUME NEW j \in Inputs(graph), Signalled(buf[j])
               PROVE  Signalled(buf'[j]) \/ (j[1] = x /\ ~IsData(n))
    BY <1>0 DEF Called
  <2> QED BY <1>3, <1>4, <1>5
<1>9. /\ \A y : y # x /\ Fed(y, D) => Fed(y, D)'
      /\ Fed(x, D) => Fed(x, D)' \/ ~IsData(n)
  BY <1>0, <1>7, <1>8 DEF Fed
<1>10. IsData(n) => Fed(x, D)'
  <2> SUFFICES ASSUME IsData(n) PROVE Fed(x, D)'
    OBVIOUS
  <2>1. CASE Trailed(buf[i])
    <3>1. Signalled(buf'[i])
      BY <1>5, <2>1
    <3>2. Called(x)'
      BY <1>0, <1>3, <1>4, <3>1 DEF Called
    <3> QED BY <3>2 DEF Fed
  <2>2. CASE \E u \in D : To(u) = i
    BY <1>0, <1>3, <1>4, <1>7, <2>2 DEF Fed
  <2> QED BY <1>3, <1>6, <2>1, <2>2
<1>11. ASSUME NEW y \in Nodes(graph) \cap alive, y # x
       PROVE  /\ kept'[y] = kept[y] /\ pending'[y] = pending[y]
              /\ \A r \in Sides(y) : \A j \in DOMAIN graph.outs[y][r] :
                   (Burdened(y, r, j)' <=> Burdened(y, r, j)) /\ (Pledged(y, r, j)' <=> Pledged(y, r, j))
  <2>1. Rests(y) /\ y \in alive'
    BY <1>0, <1>11 DEF Rests
  <2>2. Same(y)
    BY <2>1, RestsSame
  <2> QED BY <2>2 DEF Same, Burdened, Pledged
<1>12. \A s \in Sides(x) : \A k : ~Pledged(x, s, k) /\ (~IsData(n) => Pledged(x, s, k)' /\ pending'[x][s] # <<>>)
  <2>1. ASSUME NEW s \in Sides(x), NEW k PROVE ~Pledged(x, s, k)
    <3>1. pending[x][s] = <<>> /\ LeftTo(x, s, k) = <<>>
      BY <1>3 DEF Turned
    <3> QED BY <3>1, TrailNone DEF Pledged
  <2>2. ASSUME NEW s \in Sides(x), ~IsData(n) PROVE pending'[x][s] # <<>>
    <3>1. pending'[x][s] = <<n>>
      BY <1>3, <2>2 DEF Turned
    <3> QED BY <3>1
  <2> QED BY <2>1, <2>2 DEF Pledged
<1>13. ASSUME NEW u \in D, Sent(t, u) \/ Owed(u) PROVE Sent(t, u)' \/ Owed(u)'
  <2>0. u \in Outlets(graph) /\ u[2] \in Sides(u[1]) /\ u[3] \in DOMAIN graph.outs[u[1]][u[2]] /\ u[1] \in alive
    BY <1>6, OutletShape
  <2>1. CASE Sent(t, u)
    BY <1>0, <2>1 DEF Sent, SameCall
  <2>2. CASE Owed(u) /\ u[1] # x
    BY <1>0, <1>8, <1>11, <2>0, <2>2 DEF Owed
  <2>3. CASE Owed(u) /\ u[1] = x
    <3>1. Called(x) /\ u[2] \in Sides(x)
      BY <1>12, <2>0, <2>3 DEF Owed
    <3>2. Called(x)' \/ Pledged(x, u[2], u[3])'
      BY <1>8, <1>12, <3>1
    <3> QED BY <1>0, <2>3, <3>2 DEF Owed
  <2> QED BY <1>13, <2>1, <2>2, <2>3
<1>14. Backed(t, D)'
  <2>1. D \subseteq D \cup {i}
    OBVIOUS
  <2>2. \A v \in D \ D : FALSE
    OBVIOUS
  <2> QED BY <1>0, <1>6, <1>13, <2>1, <2>2, BackedStays
<1>15. ASSUME NEW y \in Nodes(graph) \cap alive
       PROVE  /\ "flush" \in graph.kinds /\ ~Marking(t) /\ kept'[y] # <<>> => Fed(y, D)'
              /\ \A r \in Sides(y) : \A j \in DOMAIN graph.outs[y][r] :
                   Burdened(y, r, j)' => pending'[y][r] # <<>> \/ Fed(y, D)'
  <2>1. CASE y # x
    BY <1>6, <1>9, <1>11, <2>1
  <2>2. CASE y = x /\ IsData(n)
    BY <1>10, <2>2
  <2>3. CASE y = x /\ n.kind = "flush"
    BY <1>3, <1>12, <2>3 DEF Turned, IsData
  <2>4. CASE y = x /\ n.kind = "marker"
    BY <1>4, <1>12, <2>4 DEF IsData
  <2> QED BY <1>4, <2>1, <2>2, <2>3, <2>4 DEF IsData, Kinds
<1>16. \A j \in Inputs(graph) : Trailed(buf'[j]) \/ \E u \in D : To(u) = j
  BY <1>3, <1>5, <1>6
<1> QED
  BY <1>0, <1>6, <1>7, <1>14, <1>15, <1>16 DEF Chased

\* Every node left as it was: what is on the edges settles the rest.
LEMMA ChaseRests ==
  ASSUME GraphOK, NEW t, NEW D, Chased(t, D), graph' = graph, alive' \subseteq alive,
         \A y \in Nodes(graph) \cap alive' : Same(y), NEW D2, D2 \subseteq Outlets(graph),
         \A u \in D2 : u[1] \in alive' /\ (Follows(u)' => follow'[u]),
         \A i \in Inputs(graph) : Trailed(buf'[i]) \/ \E u \in D2 : To(u) = i,
         \A y \in Nodes(graph) : Fed(y, D) => Fed(y, D2)', Marking(t) => Marking(t)', Backed(t, D2)'
  PROVE  Chased(t, D2)'
<1>1. \A y : Sides(y)' = Sides(y)
  BY DEF Sides
<1>2. \A u : To(u)' = To(u)
  BY DEF To
<1>3. ASSUME NEW y \in Nodes(graph) \cap alive'
      PROVE  /\ "flush" \in graph.kinds /\ ~Marking(t)' /\ kept'[y] # <<>> => Fed(y, D2)'
             /\ \A r \in Sides(y) : \A j \in DOMAIN graph.outs[y][r] :
                  Burdened(y, r, j)' => pending'[y][r] # <<>> \/ Fed(y, D2)'
  <2>1. /\ "flush" \in graph.kinds /\ ~Marking(t) /\ kept[y] # <<>> => Fed(y, D)
        /\ \A r \in Sides(y) : \A j \in DOMAIN graph.outs[y][r] :
             Burdened(y, r, j) => pending[y][r] # <<>> \/ Fed(y, D)
    BY DEF Chased
  <2>2. /\ kept'[y] = kept[y] /\ pending'[y] = pending[y]
        /\ \A r \in Sides(y) : \A j \in DOMAIN graph.outs[y][r] : Burdened(y, r, j)' <=> Burdened(y, r, j)
    BY DEF Same, Burdened
  <2> QED BY <2>1, <2>2
<1>4. \A i \in Inputs(graph) : Trailed(buf[i])' \/ \E u \in D2 : To(u)' = i
  BY <1>2
<1> QED
  BY <1>1, <1>3, <1>4 DEF Chased

\* A quitting node was owed no signal: nothing is to come through it.
LEMMA QuitsChased ==
  ASSUME GraphOK, Types, StackInv, ClearInv, Steady, Feeding, SeenInv, DeadInv, NEW x, Quits(x),
         NEW t, NEW D, Chased(t, D)
  PROVE  \A u \in D : u[1] # x
<1>1. /\ D \subseteq Outlets(graph) /\ Backed(t, D) /\ \A u \in D : u[1] \in alive
      /\ x \in Nodes(graph) \cap alive /\ pc[x].at \in {"input", "wait"} /\ ClearAt(x)
  BY DEF Chased, Quits, ClearInv
<1>2. ASSUME NEW i \in Inputs(graph), i[1] = x PROVE Exhausted(i)
  <2>0. DOMAIN graph.bound[x] = 1 .. NumInputs(x)
    BY <1>1, OutletShape
  <2>1. i = <<i[1], i[2]>> /\ i[2] \in DOMAIN graph.bound[i[1]]
    BY OutletShape
  <2>2. i[2] \in 1 .. NumInputs(x)
    BY <1>2, <2>0, <2>1
  <2>3. i = <<x, i[2]>>
    BY <1>2, <2>1
  <2> QED BY <2>2, <2>3, QuitsAlone
<1>3. \A u \in D : To(u)[1] # x
  <2> SUFFICES ASSUME NEW u \in D, To(u)[1] = x PROVE FALSE
    OBVIOUS
  <2>1. To(u) \in Inputs(graph) /\ u \in Outlets(graph) /\ u[1] \in alive
    BY <1>1, OutletShape
  <2>2. u[1] \in graph.feeders[To(u)]
    BY <2>1 DEF GraphOK, Shaped, To
  <2> QED BY <1>2, <2>1, <2>2 DEF Exhausted
<1>4. ~Called(x)
  BY <1>2, TrailNone DEF Called, Exhausted
<1>5. ASSUME NEW s \in Sides(x), NEW k PROVE ~Pledged(x, s, k)
  <2>1. NothingOn(x, s)
    BY <1>1 DEF ClearAt
  <2>2. LeftTo(x, s, k) = <<>>
    BY <1>1, <2>1 DEF NothingOn, LeftTo, Going
  <2> QED BY <2>1, <2>2, TrailNone DEF NothingOn, Pledged
<1> SUFFICES ASSUME NEW w \in D, w[1] = x PROVE FALSE
  OBVIOUS
<1>6. PICK K : K = {u \in D : u[1] = x}
  OBVIOUS
<1>7. PICK o \in K : Sent(t, o) \/ Owed(o) \/ \E u \in D \ K : To(u)[1] = o[1]
  <2>1. K \in SUBSET D /\ K # {}
    BY <1>6
  <2> QED BY <1>1, <2>1 DEF Backed
<1>8. o[1] = x /\ o \in Outlets(graph)
  BY <1>1, <1>6, <1>7
<1>9. ~Sent(t, o)
  BY <1>1, <1>8, KindsDiffer DEF Sent
<1>10. ~Owed(o)
  BY <1>4, <1>5, <1>8, OutletShape DEF Owed
<1> QED
  BY <1>3, <1>7, <1>8, <1>9, <1>10

-----------------------------------------------------------------------------
(* Its graph stays whole: nothing goes that something is pushed to.         *)

\* Without a FollowData edge on the way, each node that keeps data back is led
\* to from the writer.
PlainWays(P) ==
  /\ P \subseteq Outlets(graph) /\ \A o \in P : ~Follows(o)
  /\ \A K \in SUBSET P : K # {} => \E o \in K : o[1] \in Lent(graph) \/ \E u \in P \ K : To(u)[1] = o[1]
  /\ \A x \in graph.keeps \cap Nodes(graph) : \E o \in P : To(o)[1] = x

\* One LineIo has the graph to itself, its caller waits for each signal, and no
\* error or dropped reader cuts the graph short.  Where markers may come before
\* Flushes a Flush needs a way that no marker can close to it.
LineIoAlone ==
  /\ Writers(graph) = {} /\ ~graph.fails /\ ~graph.leaves
  /\ \A t, u \in Threads(graph) : graph.kind[t] = "io" /\ graph.kind[u] = "io" => t = u
  /\ \A t \in Threads(graph) : graph.kind[t] = "io" => Len(graph.bound[t]) = 1
  /\ \A o, u \in Outlets(graph) : o[1] \in Lent(graph) /\ u[1] \in Lent(graph) => o = u
  /\ "flush" \in graph.kinds => graph.flushes
  /\ {"flush", "marker"} \subseteq graph.kinds => \E P : PlainWays(P)
  /\ Feeding

\* What is pushed to is there.
OpenInv == \A o \in Outlets(graph) : o[1] \in alive => To(o)[1] \in alive

LEMMA NeverClosed ==
  ASSUME GraphOK, Types, OpenInv, NEW x \in Nodes(graph) \cap alive
  PROVE  ~PushClosed(x)
<1> SUFFICES ASSUME NEW f \in Tried(x), Outcome(<<x, pc[x].side, f.k>>, f.m) = "closed" PROVE FALSE
  BY DEF PushClosed
<1>0. x \in Parts(graph) /\ FrameOK(x, pc[x])
  BY KindsDiffer DEF Types, FrameTypes
<1>1. PICK s : s = pc[x].side
  OBVIOUS
<1>2. s \in Sides(x) /\ f.k \in DOMAIN graph.outs[x][s]
  <2>1. CASE pc[x].at \in {"push", "block"}
    BY <1>0, <1>1, <2>1 DEF Tried, FrameOK
  <2>2. CASE pc[x].at = "round"
    <3>1. s \in Sides(x)
      BY <1>0, <1>1, <2>2 DEF FrameOK
    <3>2. 1 \in DOMAIN graph.outs[x][s]
      BY <1>0, <3>1, OutletShape
    <3>3. CASE held[x][s] # <<>>
      <4>1. f.k = held[x][s][1].at
        BY <1>1, <2>2, <3>3 DEF Tried
      <4> QED BY <3>1, <3>3, <4>1 DEF Types, HeldTypes
    <3>4. CASE held[x][s] = <<>>
      <4>1. f.k = 1
        BY <1>1, <2>2, <3>4 DEF Tried
      <4> QED BY <3>1, <3>2, <4>1
    <3> QED BY <3>3, <3>4
  <2> QED BY <2>1, <2>2 DEF Tried
<1>3. PICK o \in Outlets(graph) : o = <<x, s, f.k>>
  BY <1>0, <1>2, OutletShape
<1>4. ReceiverGone(To(o))
  BY <1>1, <1>3 DEF Outcome
<1>5. o[1] = x
  BY <1>3
<1> QED
  BY <1>4, <1>5 DEF OpenInv, ReceiverGone

\* What a step may do that leaves the LineIo there.
LEMMA IoSteps ==
  ASSUME GraphOK, Types, StackInv, SidesInv, LineIoAlone, SeenInv, DeadInv, OpenInv, broke # TRUE, Next,
         Lent(graph) \subseteq alive, NEW t \in Threads(graph) \cap alive', graph.kind[t] = "io"
  PROVE  /\ Steady /\ broke' # TRUE /\ Lent(graph) \subseteq alive' /\ OpenInv'
         /\ \/ \E x \in Nodes(graph) \cap alive : NodeStep(x) /\ Feeds(x)
            \/ \E x \in Nodes(graph) \cap alive : Takes(x)
            \/ t \in alive /\ (IoReads(t) \/ IoPushes(t))
            \/ Quiet /\ UNCHANGED <<alive, buf, follow>>
            \/ Quiet /\ \E x : Quits(x)
            \/ Quiet /\ \E u \in Threads(graph) : Drop({u})
<1>0. /\ graph' = graph /\ alive' \subseteq alive /\ alive \subseteq Parts(graph) /\ Feeding /\ EdgesLead(graph)
      /\ \A u \in Threads(graph) : graph.kind[u] = "io" => u = t
  BY SameGraph, AliveOnly DEF Types, GraphTypes, LineIoAlone, GraphOK, Shaped
<1>1. Steady
  BY <1>0 DEF Steady
<1>2. broke' # TRUE
  <2>1. ASSUME NEW x \in Nodes(graph) \cap alive, NodeStep(x) PROVE broke' = broke
    <3>1. ~PushClosed(x)
      BY NeverClosed
    <3> QED BY <2>1, <3>1 DEF NodeStep, Resumes, Delivers, RotateOn, Unblock, SideIdle, WakeTarget, Takes, FindsEmpty,
               InputsClosed, WaitFront, LooksAt, AllExhausted, Parks, EachCalls, EachEnds
  <2>2. ASSUME NEW u, EachCalls(u) \/ EachEnds(u) \/ ThreadEnds(u) \/ IoWorks(u) \/ IoReads(u) \/ IoPushes(u)
                      \/ IoDrops(u)
        PROVE  broke' = broke
    BY <2>2 DEF EachCalls, EachEnds, ThreadEnds, IoWorks, IoReads, IoPushes, IoDrops
  <2>3. \A x : ~Fails(x) /\ ~TeeLeaves(x)
    BY DEF LineIoAlone, Fails, TeeLeaves
  <2>4. Writers(graph) = {}
    BY DEF LineIoAlone
  <2> QED BY <1>0, <2>1, <2>2, <2>3, <2>4, Steps
<1> DEFINE Cases ==
             \/ \E x \in Nodes(graph) \cap alive : NodeStep(x) /\ Feeds(x)
             \/ \E x \in Nodes(graph) \cap alive : Takes(x)
             \/ t \in alive /\ (IoReads(t) \/ IoPushes(t))
             \/ Quiet /\ UNCHANGED <<alive, buf, follow>>
             \/ Quiet /\ \E x : Quits(x)
             \/ Quiet /\ \E u \in Threads(graph) : Drop({u})
<1>3. Cases
  <2>1. ASSUME NEW u \in Threads(graph) \cap alive, IoReads(u) \/ IoPushes(u)
        PROVE  t \in alive /\ (IoReads(t) \/ IoPushes(t))
    <3>1. u = t
      BY <1>0, <2>1 DEF IoReads, IoPushes
    <3> QED BY <2>1, <3>1
  <2>2. Writers(graph) = {}
    BY DEF LineIoAlone
  <2>3. ASSUME Quiet PROVE Cases
    BY <1>2, <2>2, <2>3 DEF Quiet
  <2> QED BY <1>1, <2>1, <2>2, <2>3, SteadySteps
<1>4. \/ alive' = alive
      \/ \E x : Quits(x) /\ alive' = alive \ {x}
      \/ \E u \in Threads(graph) : Drop({u}) /\ alive' = alive \ {u}
  <2>1. \A z : Feeds(z) => alive' = alive
    BY DEF Feeds, Resumes, Delivers, RotateOn, Unblock
  <2>2. \A z : Takes(z) \/ IoReads(z) \/ IoPushes(z) => alive' = alive
    BY DEF Takes, IoReads, IoPushes
  <2>3. \A x : Quits(x) => alive' = alive \ {x}
    BY <1>0, <1>1, QuitsAlone
  <2>4. \A u : Drop({u}) => alive' = alive \ {u}
    BY DEF Drop
  <2> QED BY <1>3, <2>1, <2>2, <2>3, <2>4
<1>5. Lent(graph) \subseteq alive'
  BY <1>4, KindsDiffer DEF Quits
<1>6. OpenInv'
  <2> SUFFICES ASSUME NEW o \in Outlets(graph), o[1] \in alive' PROVE To(o)[1] \in alive'
    BY <1>0 DEF OpenInv, To
  <2>1. o[1] \in alive /\ To(o)[1] \in alive
    BY <1>0 DEF OpenInv
  <2>2. ASSUME NEW x, Quits(x), To(o)[1] = x PROVE FALSE
    <3>1. x \in Nodes(graph) /\ \A p \in 1 .. NumInputs(x) : Exhausted(<<x, p>>)
      BY <1>0, <1>1, <2>2, QuitsAlone DEF Quits
    <3>2. PICK i \in Inputs(graph) : i = To(o)
      BY OutletShape
    <3>3. i = <<x, i[2]>> /\ i[2] \in 1 .. NumInputs(x)
      <4>1. i = <<i[1], i[2]>> /\ i[2] \in DOMAIN graph.bound[i[1]] /\ i[1] = x
        BY <2>2, <3>2, OutletShape
      <4>2. DOMAIN graph.bound[x] = 1 .. NumInputs(x)
        BY <3>1, OutletShape
      <4> QED BY <4>1, <4>2
    <3>4. Exhausted(i)
      BY <3>1, <3>3
    <3>5. o[1] \in graph.feeders[i]
      BY <3>2 DEF GraphOK, Shaped, To
    <3> QED BY <2>1, <3>4, <3>5 DEF Exhausted
  <2>3. ASSUME NEW u \in Threads(graph), Drop({u}), To(o)[1] = u PROVE FALSE
    <3>1. u # t
      BY <2>3 DEF Drop
    <3>2. graph.kind[u] # "io"
      BY <1>0, <3>1
    <3>3. u \in Parts(graph) /\ To(o)[2] \in DOMAIN graph.bound[u]
      BY <2>3, OutletShape
    <3>4. graph.bound[u] # <<>>
      BY <3>3
    <3> QED BY <1>0, <3>2, <3>3, <3>4, KindsDiffer DEF EdgesLead
  <2> QED BY <1>4, <2>1, <2>2, <2>3
<1> QED
  BY <1>1, <1>2, <1>3, <1>5, <1>6

\* Its caller waits for one signal, or for none.
IoFrame(t) ==
  /\ pc[t].at \in {"idle", "each", "call"}
  /\ pc[t].at # "idle" =>
       \E m \in Message : pc[t].msg = <<m>> /\ m.kind \in graph.kinds /\ ~IsData(m)

LEMMA IoMoves ==
  ASSUME GraphOK, Types, StackInv, LineIoAlone, Next, NEW t \in Threads(graph) \cap alive', graph.kind[t] = "io",
         t \in alive, ~IoReads(t), ~IoPushes(t)
  PROVE  \/ pc'[t] = pc[t]
         \/ /\ pc[t].at \in {"each", "call"} /\ pc'[t].at \in {"each", "call"}
            /\ pc'[t].msg = pc[t].msg
<1> DEFINE Stays == \/ pc'[t] = pc[t]
                    \/ /\ pc[t].at \in {"each", "call"} /\ pc'[t].at \in {"each", "call"}
                       /\ pc'[t].msg = pc[t].msg
<1>0. /\ alive \subseteq Parts(graph) /\ t \in Parts(graph) /\ t \notin Nodes(graph)
      /\ pc \in [Parts(graph) -> Frames] /\ Nodes(graph) \subseteq Parts(graph)
      /\ \A u \in Threads(graph) : graph.kind[u] = "io" => u = t
  BY KindsDiffer DEF Types, GraphTypes, FrameTypes, LineIoAlone
<1>1. ASSUME NEW x \in Nodes(graph) \cap alive, pc' = Return(x), pc[x].at # "idle" PROVE Stays
  <2>1. CASE graph.owner[x] # t
    BY <1>0, <1>1, <2>1, ReturnFrames
  <2>2. CASE graph.owner[x] = t
    <3>1. pc[t].at = "call"
      BY <1>1, <2>2 DEF StackInv, CallInv, Calls
    <3>2. pc'[t].at = "each" /\ pc'[t].msg = pc[t].msg
      BY <1>0, <1>1, <2>2, ReturnFrames
    <3> QED BY <3>1, <3>2
  <2> QED BY <2>1, <2>2
<1>2. ASSUME NEW u \in Parts(graph), u # t, NEW c \in Parts(graph), c # t,
             pc' = [pc EXCEPT ![u].at = "call", ![c] = Entered]
      PROVE  Stays
  BY <1>0, <1>2
<1>3. ASSUME NEW x \in Nodes(graph) \cap alive, NodeStep(x) PROVE Stays
  <2>0. x # t /\ x \in Parts(graph)
    BY <1>0
  <2>1. CASE \E s, k, m : Pushing(x, s, k, m)
    <3>1. PICK s, k, m : Pushing(x, s, k, m)
      BY <2>1
    <3>2. pc[x].at # "idle" /\ (pc' = Return(x) \/ \A y \in Parts(graph) : y # x => pc'[y] = pc[y])
      BY <3>1, PushHolds
    <3> QED BY <1>0, <1>1, <2>0, <3>2
  <2>2. CASE EachCalls(x)
    <3>1. PICK c : /\ c \in Nodes(graph)
                   /\ pc' = [pc EXCEPT ![x].at = "call", ![c] = Entered]
      BY <2>0, <2>2, EachCallsStack
    <3> QED BY <1>0, <1>2, <2>0, <3>1
  <2>3. CASE EachEnds(x)
    BY <1>0, <2>0, <2>3 DEF EachEnds, Goto
  <2>4. CASE Ends(x)
    <3>0. pc[x].at # "idle"
      <4>1. CASE PushClosed(x) \/ InputsClosed(x) \/ AllExhausted(x) \/ WaitFront(x)
        BY <4>1 DEF PushClosed, Tried, InputsClosed, AllExhausted, WaitFront, Running
      <4>2. CASE ~PushClosed(x) /\ ~InputsClosed(x) /\ ~AllExhausted(x) /\ ~WaitFront(x)
        <5>1. alive' = alive
          BY <1>3, <4>2 DEF NodeStep, Resumes, Delivers, RotateOn, Unblock, SideIdle, WakeTarget, Takes, FindsEmpty,
             LooksAt, Parks, EachCalls, EachEnds
        <5>2. x \in graph.tree[x] /\ graph.owner[x] \in Parts(graph)
                 /\ (graph.kind[graph.owner[x]] = "io" => x \in graph.tree[graph.owner[x]])
          <6>1. graph.owner[x] \in Parts(graph)
            BY <2>0, Owners
          <6>2. graph.owner[x] \in graph.tree[graph.owner[x]]
            BY <6>1, Trees
          <6> QED BY <2>0, <6>1, <6>2, Trees
        <5>3. x \notin alive'
          BY <2>4, <5>2 DEF Ends, Drop
        <5> QED BY <5>1, <5>3
      <4> QED BY <4>1, <4>2
    <3>1. /\ alive' = alive \ EndsGone(x)
          /\ graph.kind[graph.owner[x]] = "io" => graph.owner[x] \in EndsGone(x)
          /\ \A y \in Parts(graph) : y \notin EndsGone(x) /\ y # graph.owner[x] => pc'[y] = pc[y]
      BY <2>4, <3>0, EndsShape
    <3>2. t \notin EndsGone(x)
      BY <3>1
    <3> QED BY <1>0, <3>1, <3>2
  <2>5. CASE ~(\E s, k, m : Pushing(x, s, k, m)) /\ ~EachCalls(x) /\ ~EachEnds(x) /\ ~Ends(x)
    <3>1. x \in alive'
      <4>1. alive' = alive
        BY <1>3, <2>5 DEF NodeStep, Resumes, Delivers, RotateOn, Unblock, PushClosed, SideIdle, WakeTarget, Takes,
           FindsEmpty, InputsClosed, WaitFront, LooksAt, AllExhausted, Parks
      <4> QED BY <4>1
    <3>2. \/ pc' = Return(x) /\ pc[x].at # "idle"
          \/ \A y \in Parts(graph) : y # x => pc'[y] = pc[y]
      BY <1>3, <2>5, <3>1, QuietMoves
    <3> QED BY <1>0, <1>1, <2>0, <3>2
  <2> QED BY <2>1, <2>2, <2>3, <2>4, <2>5
<1>4. ASSUME NEW u \in Threads(graph) \cap alive,
             EachCalls(u) \/ EachEnds(u) \/ ThreadEnds(u) \/ IoWorks(u) \/ IoReads(u) \/ IoPushes(u) \/ IoDrops(u)
      PROVE  Stays
  <2>0. u \in Parts(graph) /\ (u # t => graph.kind[u] # "io")
    BY <1>0
  <2>1. CASE EachCalls(u)
    <3>0. u # t
      BY <2>1 DEF EachCalls
    <3>1. PICK c : c \in Nodes(graph) /\ pc' = [pc EXCEPT ![u].at = "call", ![c] = Entered]
      BY <2>0, <2>1, EachCallsStack
    <3> QED BY <1>0, <1>2, <2>0, <3>0, <3>1
  <2>2. CASE EachEnds(u)
    <3>0. u # t
      BY <2>2 DEF EachEnds
    <3> QED BY <1>0, <2>0, <2>2, <3>0 DEF EachEnds, Goto
  <2>3. CASE ThreadEnds(u)
    BY <2>3 DEF ThreadEnds
  <2>4. CASE IoWorks(u)
    <3>0. u = t
      BY <2>0, <2>4 DEF IoWorks
    <3>1. PICK c : c \in Nodes(graph) /\ pc[t].at = "each" /\ pc' = [pc EXCEPT ![t].at = "call", ![c] = Entered]
      BY <2>4, <3>0, IoWorksStack
    <3>2. pc'[t].at = "call" /\ pc'[t].msg = pc[t].msg
      BY <1>0, <3>1 DEF Frames
    <3> QED BY <3>1, <3>2
  <2>5. CASE IoReads(u) \/ IoPushes(u)
    BY <2>0, <2>5 DEF IoReads, IoPushes
  <2>6. CASE IoDrops(u)
    <3>1. u = t
      BY <2>0, <2>6 DEF IoDrops
    <3>2. t \in graph.tree[t]
      BY <1>0, Trees
    <3>3. t \notin alive'
      BY <2>6, <3>1, <3>2 DEF IoDrops, Drop
    <3> QED BY <3>3
  <2> QED BY <1>4, <2>1, <2>2, <2>3, <2>4, <2>5, <2>6
<1>5. \A x : ~Fails(x) /\ ~TeeLeaves(x)
  BY DEF LineIoAlone, Fails, TeeLeaves
<1>6. Writers(graph) = {}
  BY DEF LineIoAlone
<1> QED
  BY <1>0, <1>3, <1>4, <1>5, <1>6, Steps

LEMMA IoCalls ==
  ASSUME GraphOK, Types, StackInv, LineIoAlone, Next, NEW t \in Threads(graph) \cap alive', graph.kind[t] = "io",
         t \in alive, ~IoReads(t), ~IoPushes(t), IoFrame(t)
  PROVE  SameCall(t) /\ IoFrame(t)'
<1>1. graph' = graph
  BY SameGraph
<1>2. \/ pc'[t] = pc[t]
      \/ /\ pc[t].at \in {"each", "call"} /\ pc'[t].at \in {"each", "call"}
         /\ pc'[t].msg = pc[t].msg
  BY IoMoves
<1>3. Message' = Message
  BY <1>1 DEF Message
<1> QED
  BY <1>1, <1>2, <1>3 DEF SameCall, IoFrame, IsData

-----------------------------------------------------------------------------
(* The signal that its caller waits for is the only one.                    *)

Awaited(t) == IF pc[t].at = "idle" THEN <<>> ELSE pc[t].msg
PureAt(x, f) ==
  /\ ~Signalled(kept[x]) /\ (kept[x] # <<>> => x \in graph.keeps)
  /\ \A s \in Sides(x) : /\ ~Signalled(made[x][s]) /\ Own(pending[x][s], f)
                         /\ \A k \in DOMAIN graph.outs[x][s] : Own(LeftTo(x, s, k), f)
Pure(f) ==
  (\A i \in Inputs(graph) : Own(buf[i], f)) /\ \A x \in Nodes(graph) \cap alive : PureAt(x, f)

LEMMA PureRests ==
  ASSUME GraphOK, Types, StackInv, Next, NEW y \in Nodes(graph) \cap alive', Rests(y), NEW f, PureAt(y, f)
  PROVE  PureAt(y, f)'
<1>1. graph' = graph
  BY SameGraph
<1>2. Same(y)
  BY RestsSame
<1>4. Sides(y)' = Sides(y)
  BY <1>1 DEF Sides
<1> QED
  BY <1>1, <1>2, <1>4 DEF PureAt, Same

\* The rest of the nodes rest.
LEMMA PureOthers ==
  ASSUME GraphOK, Types, StackInv, Next, NEW f, Pure(f), \A y \in Nodes(graph) \cap alive' : Rests(y) \/ PureAt(y, f)',
         \A i \in Inputs(graph) : Own(buf'[i], f)
  PROVE  Pure(f)'
<1>0. graph' = graph /\ alive' \subseteq alive
  BY SameGraph, AliveOnly
<1>1. ASSUME NEW y \in Nodes(graph) \cap alive' PROVE PureAt(y, f)'
  <2>1. PureAt(y, f)
    BY <1>0 DEF Pure
  <2> QED BY <2>1, PureRests
<1> QED
  BY <1>0, <1>1 DEF Pure

LEMMA PureFed ==
  ASSUME GraphOK, Types, StackInv, Next, NEW f, Pure(f), NEW x \in Nodes(graph) \cap alive, NodeStep(x),
         NEW s, NEW k, NEW n, Pushing(x, s, k, n), Source(x, s, k, n), SignalAt(x)
  PROVE  Pure(f)'
<1>0. /\ graph' = graph /\ alive' = alive /\ kept' = kept
      /\ s \in Sides(x) /\ n \in Message /\ x \in Parts(graph) /\ buf \in [Inputs(graph) -> Seq(Message)]
  BY KindsDiffer DEF Pushing, Types, EdgeTypes
<1>1. /\ DOMAIN made = Nodes(graph) /\ DOMAIN pending = Nodes(graph)
      /\ made[x] \in [Sides(x) -> Seq(Message)] /\ pending[x] \in [Sides(x) -> Seq(Message)]
  BY DEF Types, RoutineTypes
<1>2. made[x][s] \in Seq(Message) /\ pending[x][s] \in Seq(Message)
  BY <1>0, <1>1
<1>3. PureAt(x, f)
  BY DEF Pure
<1> DEFINE Out == DOMAIN graph.outs[x][s]
           Goal == Own(<<n>>, f) /\ ~Signalled(made'[x][s]) /\ Own(pending'[x][s], f)
<1>4. Goal
  <2>0. /\ ~Signalled(made[x][s]) /\ Own(pending[x][s], f) /\ \A j \in Out : Own(LeftTo(x, s, j), f)
        /\ k \in Out /\ k <= k
    <3>1. k \in Out /\ Out = 1 .. Len(graph.outs[x][s]) /\ Len(graph.outs[x][s]) \in Nat
      BY <1>0, OutletShape DEF Pushing
    <3>2. k <= k
      BY <3>1
    <3> QED BY <1>0, <1>3, <3>1, <3>2 DEF PureAt
  <2>1. CASE /\ \A j \in Out : LeftTo(x, s, j) = IF k <= j THEN <<n>> ELSE <<>>
             /\ made'[x][s] = made[x][s] /\ pending'[x][s] = pending[x][s]
    <3>1. LeftTo(x, s, k) = <<n>>
      BY <2>0, <2>1
    <3>2. Own(<<n>>, f)
      BY <2>0, <3>1
    <3> QED BY <2>0, <2>1, <3>2
  <2>2. CASE /\ made[x][s] # <<>> /\ n = Head(made[x][s]) /\ made'[x][s] = Tail(made[x][s])
             /\ pending'[x][s] = pending[x][s]
    <3>1. IsData(n) /\ ~Signalled(Tail(made[x][s]))
      BY <1>2, <2>0, <2>2, TrailTail
    <3> QED BY <2>0, <2>2, <3>1, TrailOne
  <2>3. CASE made'[x][s] = <<>> /\ pending[x][s] = <<n>> /\ pending'[x][s] = <<>>
    BY <2>0, <2>3, TrailNone
  <2> QED BY <2>1, <2>2, <2>3, PushLeft
<1>5. /\ \A j \in Out : LeftTo(x, s, j)' = <<n>> \/ LeftTo(x, s, j)' = <<>>
      /\ \A r \in Sides(x) : r # s =>
           /\ made'[x][r] = made[x][r] /\ pending'[x][r] = pending[x][r]
           /\ \A j \in DOMAIN graph.outs[x][r] : LeftTo(x, r, j)' = LeftTo(x, r, j)
  <2>1. \A j \in Out : LeftTo(x, s, j)' = IF k <= j /\ ~(Taken(x, s, k, n) /\ j = k) THEN <<n>> ELSE <<>>
    BY PushLeft
  <2>2. \A r \in Sides(x) : r # s =>
           /\ made'[x][r] = made[x][r] /\ pending'[x][r] = pending[x][r]
           /\ \A j \in DOMAIN graph.outs[x][r] : LeftTo(x, r, j)' = LeftTo(x, r, j)
    BY PushLeft
  <2> QED BY <2>1, <2>2
<1>6. PureAt(x, f)'
  <2>1. Sides(x)' = Sides(x)
    BY <1>0 DEF Sides
  <2>2. ASSUME NEW r \in Sides(x)
        PROVE  /\ ~Signalled(made'[x][r]) /\ Own(pending'[x][r], f)
               /\ \A j \in DOMAIN graph.outs[x][r] : Own(LeftTo(x, r, j)', f)
    <3>1. CASE r = s
      BY <1>4, <1>5, <3>1, TrailNone
    <3>2. CASE r # s
      BY <1>3, <1>5, <3>2 DEF PureAt
    <3> QED BY <3>1, <3>2
  <2> QED BY <1>0, <1>3, <2>1, <2>2 DEF PureAt
<1>7. \A y \in Nodes(graph) \cap alive' : Rests(y) \/ PureAt(y, f)'
  BY <1>0, <1>6 DEF Rests
<1>8. ASSUME NEW i \in Inputs(graph) PROVE Own(buf'[i], f)
  <2>1. buf[i] \in Seq(Message) /\ Own(buf[i], f)
    BY <1>0 DEF Pure
  <2>2. buf'[i] = buf[i] \/ buf'[i] = Append(buf[i], n)
    BY <1>0 DEF Pushing, Rotate, Push, edgeVars
  <2>3. Own(Append(buf[i], n), f)
    BY <1>0, <1>4, <2>1, TrailAppend, TrailOne
  <2> QED BY <2>1, <2>2, <2>3
<1> QED
  BY <1>7, <1>8, PureOthers

LEMMA PureTook ==
  ASSUME GraphOK, Types, StackInv, Next, NEW f, Pure(f), NEW x \in Nodes(graph) \cap alive, Takes(x), ClearAt(x)
  PROVE  /\ Pure(f)'
         /\ IsData(Head(buf[<<x, pc[x].i>>])) \/ f = <<Head(buf[<<x, pc[x].i>>])>>
<1>0. graph' = graph /\ alive' = alive /\ NodeStep(x)
  BY DEF Takes, NodeStep
<1>1. PICK i : i = <<x, pc[x].i>>
  OBVIOUS
<1>2. PICK n : n = Head(buf[i])
  OBVIOUS
<1>3. /\ Turned(x, n) /\ n \in Message /\ i \in Inputs(graph)
      /\ buf[i] \in Seq(Message) /\ buf[i] # <<>> /\ buf'[i] = Tail(buf[i])
      /\ \A j \in Inputs(graph) : j # i => buf'[j] = buf[j]
  BY <1>1, <1>2, TurnedShape
<1>4. Own(Tail(buf[i]), f) /\ (IsData(n) \/ f = <<n>>)
  <2>1. Own(buf[i], f)
    BY <1>3 DEF Pure
  <2> QED BY <1>2, <1>3, <2>1, TrailTail
<1>5. PureAt(x, f)'
  <2>0. PureAt(x, f)
    BY DEF Pure
  <2>1. Sides(x)' = Sides(x)
    BY <1>0 DEF Sides
  <2>2. ASSUME NEW s \in Sides(x)
        PROVE  /\ Own(pending'[x][s], f) /\ ~Signalled(made'[x][s])
               /\ \A k \in DOMAIN graph.outs[x][s] : Own(LeftTo(x, s, k)', f)
    BY <1>3, <1>4, <2>0, TrailNone, TrailOne DEF Turned, PureAt
  <2>3. ~Signalled(kept'[x]) /\ (kept'[x] # <<>> => x \in graph.keeps)
    BY <1>3, <2>0 DEF Turned, PureAt
  <2> QED BY <1>0, <2>1, <2>2, <2>3 DEF PureAt
<1>6. \A y \in Nodes(graph) \cap alive' : Rests(y) \/ PureAt(y, f)'
  BY <1>0, <1>5 DEF Rests
<1>7. \A j \in Inputs(graph) : Own(buf'[j], f)
  BY <1>3, <1>4 DEF Pure
<1> QED
  BY <1>1, <1>2, <1>4, <1>6, <1>7, PureOthers

LEMMA PureQuiet ==
  ASSUME GraphOK, Types, StackInv, Next, Quiet, NEW f, Pure(f)
  PROVE  Pure(f)'
<1>1. \A i \in Inputs(graph) : Own(buf'[i], f)
  BY QuietEdges, TrailNone DEF Pure
<1>2. \A y \in Nodes(graph) \cap alive' : Rests(y)
  BY DEF Quiet
<1> QED
  BY <1>1, <1>2, PureOthers

-----------------------------------------------------------------------------
(* The steps that push nothing on, and the caller's own.                    *)

\* D stands where nothing comes to a node or leaves it.
LEMMA ChaseStays ==
  ASSUME GraphOK, Types, StackInv, Next, NEW t, NEW D, Chased(t, D), SameCall(t), follow' = follow,
         \A y \in Nodes(graph) \cap alive' : Rests(y), \A u \in D : u[1] \in alive',
         \A i \in Inputs(graph) :
           buf'[i] = buf[i] \/ (i[1] \notin Nodes(graph) /\ (Trailed(buf[i]) => Trailed(buf'[i])))
  PROVE  Chased(t, D)'
<1>0. graph' = graph /\ alive' \subseteq alive /\ \A u : To(u)' = To(u) /\ Follows(u)' = Follows(u)
  BY SameGraph, AliveOnly DEF To, Follows
<1>1. \A y \in Nodes(graph) \cap alive' : Same(y)
  BY RestsSame
<1>2. /\ D \subseteq Outlets(graph) /\ Backed(t, D) /\ \A u \in D : Follows(u) => follow[u]
      /\ \A i \in Inputs(graph) : Trailed(buf[i]) \/ \E u \in D : To(u) = i
  BY DEF Chased
<1>3. \A y \in Nodes(graph) : Called(y)' <=> Called(y)
  BY <1>0 DEF Called
<1>4. \A y \in Nodes(graph) : Fed(y, D) => Fed(y, D)'
  BY <1>0, <1>3 DEF Fed
<1>5. Marking(t) => Marking(t)'
  BY DEF Marking, SameCall
<1>6. ASSUME NEW u \in D, Sent(t, u) \/ Owed(u) PROVE Sent(t, u)' \/ Owed(u)'
  <2>0. u \in Outlets(graph) /\ u[2] \in Sides(u[1]) /\ u[3] \in DOMAIN graph.outs[u[1]][u[2]]
    BY <1>2, OutletShape
  <2>1. CASE Sent(t, u)
    BY <1>0, <2>1 DEF Sent, SameCall
  <2>2. CASE Owed(u)
    <3>1. u[1] \in Nodes(graph) \cap alive'
      BY <2>2 DEF Owed
    <3>2. Pledged(u[1], u[2], u[3])' <=> Pledged(u[1], u[2], u[3])
      BY <1>1, <2>0, <3>1 DEF Same, Pledged
    <3> QED BY <1>0, <1>3, <2>2, <3>1, <3>2 DEF Owed
  <2> QED BY <1>6, <2>1, <2>2
<1>7. Backed(t, D)'
  <2>1. D \subseteq D \cup {t} /\ \A v \in D \ D : FALSE
    OBVIOUS
  <2> QED BY <1>0, <1>2, <1>6, <2>1, BackedStays
<1>8. \A i \in Inputs(graph) : Trailed(buf'[i]) \/ \E u \in D : To(u) = i
  BY <1>2
<1>9. \A u \in D : u[1] \in alive' /\ (Follows(u)' => follow'[u])
  BY <1>0, <1>2
<1> QED
  BY <1>0, <1>1, <1>2, <1>4, <1>5, <1>7, <1>8, <1>9, ChaseRests

LEMMA ChaseQuiet ==
  ASSUME GraphOK, Types, StackInv, ClearInv, Steady, Feeding, SeenInv, DeadInv, Next, Quiet,
         \/ UNCHANGED <<alive, buf, follow>>
         \/ \E x : Quits(x)
         \/ \E u \in Threads(graph) : Drop({u}),
         NEW t, NEW D, Chased(t, D), SameCall(t)
  PROVE  Chased(t, D)'
<1>0. /\ \A y \in Nodes(graph) \cap alive' : Rests(y)
      /\ D \subseteq Outlets(graph) /\ \A u \in D : u[1] \in alive
  BY DEF Quiet, Chased
<1>1. CASE UNCHANGED <<alive, buf, follow>>
  BY <1>0, <1>1, ChaseStays
<1>2. CASE \E x : Quits(x)
  <2>1. PICK x : Quits(x)
    BY <1>2
  <2>2. /\ alive' = alive \ {x} /\ follow' = follow /\ \A i \in Inputs(graph) : buf'[i] = buf[i]
    BY <2>1, QuitsAlone DEF Drop
  <2>3. \A u \in D : u[1] # x
    BY <2>1, QuitsChased
  <2> QED BY <1>0, <2>2, <2>3, ChaseStays
<1>3. CASE \E u \in Threads(graph) : Drop({u})
  <2>1. PICK z \in Threads(graph) : Drop({z})
    BY <1>3
  <2>2. alive' = alive \ {z} /\ follow' = follow /\ \A i \in Inputs(graph) : buf'[i] = buf[i]
    BY <2>1, LeavesAlone DEF Drop
  <2>3. \A u \in D : u[1] # z
    <3> SUFFICES ASSUME NEW u \in D, u[1] = z PROVE FALSE
      OBVIOUS
    <3>1. u[2] \in Sides(z)
      BY <1>0, OutletShape
    <3>2. graph.outs[z] = <<>>
      BY DEF GraphOK, Shaped, EdgesLead
    <3> QED BY <3>1, <3>2 DEF Sides
  <2> QED BY <1>0, <2>2, <2>3, ChaseStays
<1> QED
  BY <1>1, <1>2, <1>3

\* What a caller pushes is Outside for every node.
LEMMA IoRests ==
  ASSUME NEW t \in Threads(graph) \cap alive, IoReads(t) \/ IoPushes(t)
  PROVE  \A y : Rests(y)
BY DEF Rests, Outside

\* A read that goes on reading.
LEMMA ChaseReads ==
  ASSUME GraphOK, Types, StackInv, Next, NEW t \in Threads(graph) \cap alive, IoReads(t), pc' = pc,
         NEW D, Chased(t, D), NEW f, Pure(f)
  PROVE  Chased(t, D)' /\ Pure(f)'
<1>1. PICK i : i = <<t, pc[t].i>>
  OBVIOUS
<1>2. /\ alive' = alive /\ follow' = follow /\ buf[i] # <<>> /\ Pop(i) /\ graph.kind[t] = "io"
      /\ pc[t].at = "each" /\ t \in Parts(graph) /\ t \notin Nodes(graph)
  BY <1>1, KindsDiffer DEF IoReads, Pop, Running
<1>3. i \in Inputs(graph) /\ buf \in [Inputs(graph) -> Seq(Message)]
  <2>1. pc[t].i \in DOMAIN graph.bound[t]
    BY <1>2 DEF Types, FrameTypes, FrameOK
  <2> QED BY <1>1, <1>2, <2>1, OutletShape DEF Types, EdgeTypes
<1>4. buf'[i] = Tail(buf[i]) /\ \A j \in Inputs(graph) : j # i => buf'[j] = buf[j]
  BY <1>2, <1>3 DEF Pop
<1>5. /\ Trailed(buf[i]) => Trailed(buf'[i])
      /\ Own(buf[i], f) => Own(buf'[i], f)
  <2>1. buf[i] \in Seq(Message)
    BY <1>3
  <2> QED BY <1>2, <1>4, <2>1, TrailTail
<1>6. Pure(f)'
  <2>1. \A j \in Inputs(graph) : Own(buf'[j], f)
    BY <1>3, <1>4, <1>5 DEF Pure
  <2> QED BY <2>1, IoRests, PureOthers
<1>7. Chased(t, D)'
  <2>1. SameCall(t) /\ \A u \in D : u[1] \in alive'
    BY <1>2 DEF SameCall, Chased
  <2> QED BY <1>1, <1>2, <1>4, <1>5, <2>1, IoRests, ChaseStays
<1> QED
  BY <1>6, <1>7

\* A push: its data is ahead of a signal that the caller has not sent yet, and
\* its signal is the only one.
LEMMA ChaseSent ==
  ASSUME GraphOK, Types, StackInv, FollowInv, Next, LineIoAlone, Lent(graph) \subseteq alive,
         NEW t \in Threads(graph) \cap alive, IoPushes(t), NEW D, Chased(t, D), Pure(<<>>)
  PROVE  (\E D2 : Chased(t, D2)') /\ (\A f : f = Awaited(t)' => Pure(f)') /\ IoFrame(t)'
<1>0. /\ graph' = graph /\ alive' = alive /\ pc[t].at = "idle" /\ t \in Parts(graph) /\ graph.kind[t] = "io"
      /\ \A u : To(u)' = To(u) /\ Follows(u)' = Follows(u)
  BY KindsDiffer DEF IoPushes, Running, To, Follows
<1> DEFINE New(w, k) == [kind |-> k, from |-> w, nth |-> Len(written[w]) + 1, turn |-> 0]
           Pushed(w, c, m) == /\ Outcome(<<w, 1, 1>>, m) = "pushed" /\ Push(<<w, 1, 1>>, m)
                              /\ pc' = IF Waits(m) THEN Goto(t, Frame("each", 1, c, FALSE, <<m>>)) ELSE pc
<1>a. PICK w \in Lent(graph), k \in graph.kinds, c \in DOMAIN graph.bound[t] : Pushed(w, c, New(w, k))
  BY DEF IoPushes
<1>b. PICK m : m = New(w, k)
  OBVIOUS
<1>1. /\ m = [kind |-> k, from |-> w, nth |-> Len(written[w]) + 1, turn |-> 0]
      /\ Outcome(<<w, 1, 1>>, m) = "pushed" /\ Push(<<w, 1, 1>>, m)
      /\ pc' = IF Waits(m) THEN Goto(t, Frame("each", 1, c, FALSE, <<m>>)) ELSE pc
  BY <1>a, <1>b
<1> HIDE DEF New, Pushed
<1>2. PICK o : o = <<w, 1, 1>>
  OBVIOUS
<1>3. /\ o \in Outlets(graph) /\ o[1] = w /\ w \in alive /\ m \in Message /\ m.kind = k /\ k \in graph.kinds
      /\ k \in Kinds
  BY <1>1, <1>2, OutsideOutlet, OutsideMessages, KindsDiffer DEF Types, Message
<1>4. PICK D2 : D2 = Chase(D, o, m)
  OBVIOUS
<1>5. /\ D \subseteq Outlets(graph) /\ Backed(t, D)
      /\ \A u \in D : u[1] \in alive /\ (Follows(u) => follow[u])
      /\ \A i \in Inputs(graph) : Trailed(buf[i]) \/ \E u \in D : To(u) = i
  BY DEF Chased
<1>6. /\ D2 \subseteq Outlets(graph)
      /\ \A u \in D2 : Follows(u)' => follow'[u]
      /\ \A i \in Inputs(graph) : Trailed(buf'[i]) \/ \E u \in D2 : To(u) = i
      /\ \A y : (Called(y) => Called(y)') /\ (Fed(y, D) => Fed(y, D2)')
      /\ \A v \in D \ D2 : \A y : To(v)[1] = y => Called(y)'
      /\ \A u \in D2 : u # o => u \in D
      /\ o \in D2 => o \in D \/ IsData(m)
      /\ IsData(m) => D \subseteq D2
      /\ Outcome(o, m) \in {"pushed", "dropped"} /\ ~IsData(m) => o \notin D2
  BY <1>0, <1>1, <1>2, <1>3, <1>4, <1>5, ChasePush
<1>7. \A y \in Nodes(graph) \cap alive' : Same(y)
  BY IoRests, RestsSame
<1>8. IsData(m) => pc' = pc
  BY <1>1, <1>3 DEF IsData, Waits
<1>9. ~IsData(m) => pc'[t].at = "each" /\ pc'[t].msg = <<m>>
  <2> SUFFICES ASSUME ~IsData(m) PROVE pc'[t].at = "each" /\ pc'[t].msg = <<m>>
    OBVIOUS
  <2>1. Waits(m)
    BY <1>3 DEF IsData, Waits, Kinds, LineIoAlone
  <2>2. pc \in [Parts(graph) -> Frames]
    BY DEF Types, FrameTypes
  <2> QED BY <1>0, <1>1, <2>1, <2>2 DEF Goto, Frame
<1>10. ASSUME NEW u \in D2, u \in D, Sent(t, u) \/ Owed(u) PROVE Sent(t, u)' \/ Owed(u)'
  <2>0. u \in Outlets(graph) /\ u[2] \in Sides(u[1]) /\ u[3] \in DOMAIN graph.outs[u[1]][u[2]] /\ u[1] \in alive
    BY <1>5, <1>10, OutletShape
  <2>1. CASE Sent(t, u) /\ IsData(m)
    BY <1>0, <1>8, <2>1 DEF Sent
  <2>2. CASE Sent(t, u) /\ ~IsData(m)
    <3>1. u = o
      BY <1>1, <1>3, <2>0, <2>2 DEF LineIoAlone, Sent
    <3> QED BY <1>1, <1>2, <1>6, <2>2, <3>1
  <2>3. CASE Owed(u)
    <3>1. u[1] \in Nodes(graph) \cap alive'
      BY <1>0, <2>0, <2>3 DEF Owed
    <3>2. Pledged(u[1], u[2], u[3])' <=> Pledged(u[1], u[2], u[3])
      BY <1>7, <2>0, <3>1 DEF Same, Pledged
    <3> QED BY <1>0, <1>6, <2>3, <3>1, <3>2 DEF Owed
  <2> QED BY <1>10, <2>1, <2>2, <2>3
<1>11. ASSUME NEW u \in D2, u \in D, NEW v \in D \ D2, To(v)[1] = u[1] PROVE Owed(u)'
  <2>1. Called(u[1])'
    BY <1>6, <1>11
  <2>2. u[1] \in Nodes(graph)
    BY <1>5, <1>11, FedIsNode
  <2> QED BY <1>0, <2>1, <2>2 DEF Owed
<1>12. o \in D2 /\ o \notin D => Sent(t, o)'
  BY <1>0, <1>1, <1>3, <1>6, <1>8 DEF Sent
<1>13. Backed(t, D2)'
  <2>1. D2 \subseteq D \cup {o}
    BY <1>6
  <2> QED BY <1>0, <1>5, <1>10, <1>11, <1>12, <2>1, BackedStays
<1>14. Chased(t, D2)'
  <2>1. \A u \in D2 : u[1] \in alive' /\ (Follows(u)' => follow'[u])
    BY <1>0, <1>3, <1>5, <1>6
  <2>2. ~Marking(t)
    BY <1>0 DEF Marking
  <2> QED BY <1>0, <1>6, <1>7, <1>13, <2>1, <2>2, ChaseRests
<1>15. ASSUME NEW f, f = Awaited(t)' PROVE Pure(f)'
  <2>1. IsData(m) \/ f = <<m>>
    BY <1>9, <1>15 DEF Awaited
  <2>2. \A q : Own(q, <<>>) => Own(q, f)
    BY DEF Own
  <2>3. Pure(f)
    BY <2>2 DEF Pure, PureAt
  <2>4. ASSUME NEW i \in Inputs(graph) PROVE Own(buf'[i], f)
    <3>1. buf[i] \in Seq(Message) /\ Own(buf[i], f)
      BY <2>3 DEF Pure, Types, EdgeTypes
    <3>2. buf'[i] = buf[i] \/ buf'[i] = Append(buf[i], m)
      BY <1>1 DEF Push, Types, EdgeTypes
    <3>3. Own(Append(buf[i], m), f)
      BY <1>3, <2>1, <3>1, TrailAppend
    <3> QED BY <3>1, <3>2, <3>3
  <2> QED BY <2>3, <2>4, IoRests, PureOthers
<1>16. IoFrame(t)'
  <2>1. Message' = Message
    BY <1>0 DEF Message
  <2>2. \A q \in Message : IsData(q)' <=> IsData(q)
    BY DEF IsData
  <2>3. CASE IsData(m)
    BY <1>0, <1>8, <2>3 DEF IoFrame
  <2>4. CASE ~IsData(m)
    BY <1>0, <1>3, <1>9, <2>1, <2>4 DEF IoFrame
  <2> QED BY <2>3, <2>4
<1> QED
  BY <1>14, <1>15, <1>16

-----------------------------------------------------------------------------
(* When active() counts two copies there is no third.                       *)

LEMMA FinitePairs ==
  ASSUME NEW S, IsFiniteSet(S), NEW d, \A x \in S : IsFiniteSet(d[x])
  PROVE  IsFiniteSet(UNION {{<<x, k>> : k \in d[x]} : x \in S})
<1> DEFINE f == [x \in S |-> d[x]]
           T == {d[x] : x \in S}
<1>1. IsFiniteSet(T)
  <2>1. f \in [S -> T] /\ \A y \in T : \E x \in S : f[x] = y
    OBVIOUS
  <2>2. f \in Surjection(S, T)
    <3> HIDE DEF f, T
    <3> QED BY <2>1, Fun_IsSurj
  <2> HIDE DEF f, T
  <2> QED BY <2>2, FS_Surjection
<1>2. \A y \in T : IsFiniteSet(y)
  OBVIOUS
<1>3. IsFiniteSet(UNION T)
  <2> HIDE DEF T
  <2> QED BY <1>1, <1>2, FS_UNION
<1>4. IsFiniteSet(S \X UNION T)
  BY <1>3, FS_Product
<1>5. UNION {{<<x, k>> : k \in d[x]} : x \in S} \in SUBSET (S \X UNION T)
  OBVIOUS
<1> QED
  BY <1>4, <1>5, FS_Subset

LEMMA InputsFinite ==
  ASSUME GraphOK, Types
  PROVE  IsFiniteSet(Inputs(graph)) /\ IsFiniteSet(Nodes(graph)) /\ \A x \in Parts(graph) : IsFiniteSet(Sides(x))
<1>1. IsFiniteSet(Parts(graph))
  BY GraphsAreFinite DEF Types, GraphTypes
<1>2. IsFiniteSet(Nodes(graph))
  <2>1. Nodes(graph) \in SUBSET Parts(graph)
    BY KindsDiffer
  <2> QED BY <1>1, <2>1, FS_Subset
<1>3. ASSUME NEW x \in Parts(graph) PROVE IsFiniteSet(Sides(x)) /\ IsFiniteSet(DOMAIN graph.bound[x])
  <2>1. LastSide(x) \in Int /\ Sides(x) = 1 .. LastSide(x)
    BY OutletShape
  <2>2. IsFiniteSet(1 .. LastSide(x))
    BY <2>1, FS_Interval
  <2>3. graph.bound[x] \in Seq(Nat)
    BY DEF GraphOK, Shaped, EdgesLead
  <2>4. PICK n \in Int : DOMAIN graph.bound[x] = 1 .. n
    BY <2>3
  <2>5. IsFiniteSet(1 .. n)
    BY FS_Interval
  <2> QED BY <2>1, <2>2, <2>4, <2>5
<1>4. IsFiniteSet(Inputs(graph))
  <2> DEFINE d == [x \in Parts(graph) |-> DOMAIN graph.bound[x]]
  <2>1. \A x \in Parts(graph) : IsFiniteSet(d[x])
    BY <1>3
  <2>2. IsFiniteSet(UNION {{<<x, k>> : k \in d[x]} : x \in Parts(graph)})
    <3> HIDE DEF d
    <3> QED BY <1>1, <2>1, FinitePairs
  <2>3. Inputs(graph) = UNION {{<<x, k>> : k \in d[x]} : x \in Parts(graph)}
    BY DEF Inputs
  <2> QED BY <2>2, <2>3
<1> QED
  BY <1>2, <1>3, <1>4

LEMMA ActiveFew ==
  ASSUME GraphOK, Types, NEW i \in Inputs(graph), buf[i] # <<>>, NEW m, m = Head(buf[i]), Active(m) <= 2
  PROVE  /\ \A j \in Inputs(graph) : \A k \in DOMAIN buf[j] : buf[j][k] = m => j = i /\ k = 1
         /\ \A x \in Nodes(graph) : \A s \in Sides(x) : ~Bears(x, s, m)
<1> DEFINE d == [j \in Inputs(graph) |-> {k \in DOMAIN buf[j] : buf[j][k] = m}]
           e == [x \in Nodes(graph) |-> {s \in Sides(x) : Bears(x, s, m)}]
           A == UNION {{<<j, k>> : k \in d[j]} : j \in Inputs(graph)}
           B == UNION {{<<x, s>> : s \in e[x]} : x \in Nodes(graph)}
<1>1. \A j \in Inputs(graph) : IsFiniteSet(d[j])
  <2> SUFFICES ASSUME NEW j \in Inputs(graph) PROVE IsFiniteSet(d[j])
    OBVIOUS
  <2>1. buf[j] \in Seq(Message)
    BY DEF Types, EdgeTypes
  <2>2. Len(buf[j]) \in Int /\ DOMAIN buf[j] = 1 .. Len(buf[j])
    BY <2>1
  <2>3. IsFiniteSet(1 .. Len(buf[j]))
    BY <2>2, FS_Interval
  <2>4. d[j] \in SUBSET (1 .. Len(buf[j]))
    BY <2>2
  <2> HIDE DEF d
  <2> QED BY <2>3, <2>4, FS_Subset
<1>2. \A x \in Nodes(graph) : IsFiniteSet(e[x])
  <2> SUFFICES ASSUME NEW x \in Nodes(graph) PROVE IsFiniteSet(e[x])
    OBVIOUS
  <2>1. IsFiniteSet(Sides(x))
    BY InputsFinite, KindsDiffer
  <2>2. e[x] \in SUBSET Sides(x)
    OBVIOUS
  <2> HIDE DEF e
  <2> QED BY <2>1, <2>2, FS_Subset
<1>3. Active(m) = 1 + Cardinality(A) + Cardinality(B)
  <2>1. A = UNION {{<<j, k>> : k \in {l \in DOMAIN buf[j] : buf[j][l] = m}} : j \in Inputs(graph)}
    OBVIOUS
  <2>2. B = UNION {{<<x, s>> : s \in {r \in Sides(x) : Bears(x, r, m)}} : x \in Nodes(graph)}
    OBVIOUS
  <2> HIDE DEF A, B, d, e
  <2> QED BY <2>1, <2>2 DEF Active
<1>4. \A j \in Inputs(graph) : \A k \in DOMAIN buf[j] : buf[j][k] = m => <<j, k>> \in A
  OBVIOUS
<1>5. \A x \in Nodes(graph) : \A s \in Sides(x) : Bears(x, s, m) => <<x, s>> \in B
  OBVIOUS
<1>6. 1 \in DOMAIN buf[i] /\ buf[i][1] = m
  <2>1. buf[i] \in Seq(Message)
    BY DEF Types, EdgeTypes
  <2> QED BY <2>1
<1> HIDE DEF d, e
<1>7. IsFiniteSet(A) /\ IsFiniteSet(B)
  <2>1. IsFiniteSet(Inputs(graph)) /\ IsFiniteSet(Nodes(graph))
    BY InputsFinite
  <2>2. IsFiniteSet(A)
    BY <1>1, <2>1, FinitePairs
  <2>3. IsFiniteSet(B)
    BY <1>2, <2>1, FinitePairs
  <2> QED BY <2>2, <2>3
<1> HIDE DEF A, B
<1>8. Cardinality(A) \in Nat /\ Cardinality(B) \in Nat
  BY <1>7, FS_CardinalityType
<1>9. Cardinality(A) # 0
  BY <1>4, <1>6, <1>7, FS_EmptySet
<1>10. Cardinality(A) = 1 /\ Cardinality(B) = 0
  BY <1>3, <1>8, <1>9
<1>11. B = {}
  BY <1>7, <1>10, FS_EmptySet
<1>12. \A z \in A : z = <<i, 1>>
  <2>1. PICK z : A = {z}
    BY <1>7, <1>10, FS_Singleton
  <2> QED BY <1>4, <1>6, <2>1
<1>13. ASSUME NEW j \in Inputs(graph), NEW k \in DOMAIN buf[j], buf[j][k] = m PROVE j = i /\ k = 1
  BY <1>4, <1>12, <1>13
<1> QED
  BY <1>5, <1>11, <1>13

-----------------------------------------------------------------------------
(* The signal is back, and last: nothing is behind it, or beside it.        *)

Emptied ==
  /\ \A i \in Inputs(graph) : buf[i] = <<>>
  /\ \A x \in Nodes(graph) \cap alive : \A s \in Sides(x) :
       /\ made[x][s] = <<>> /\ pending[x][s] = <<>>
       /\ \A k \in DOMAIN graph.outs[x][s] : ~Laden(LeftTo(x, s, k)) /\ ~Signalled(LeftTo(x, s, k))

LEMMA BlankSeq ==
  ASSUME NEW S, NEW q \in Seq(S), ~Laden(q), ~Signalled(q)
  PROVE  q = <<>>
<1>1. 1 \notin DOMAIN q
  BY DEF Laden, Signalled
<1> QED
  BY <1>1

LEMMA NoFirst ==
  ASSUME NEW S, NEW q \in Seq(S), 1 \notin DOMAIN q
  PROVE  q = <<>>
  OBVIOUS

LEMMA OnlyFirst ==
  ASSUME NEW S, NEW q \in Seq(S), Len(q) = 1
  PROVE  Tail(q) = <<>>
<1>1. q # <<>>
  OBVIOUS
<1>2. PICK p : p = Tail(q)
  OBVIOUS
<1>3. p \in Seq(S) /\ Len(p) = 0
  BY <1>1, <1>2
<1>4. p = <<>>
  BY <1>3
<1> QED
  BY <1>2, <1>4

LEMMA IoBack ==
  ASSUME GraphOK, Types, StackInv, SignalInv, LineIoAlone, Next, NEW t \in Threads(graph) \cap alive,
         IoReads(t), pc' # pc, IoFrame(t), NEW D, Chased(t, D), Pure(pc[t].msg)
  PROVE  /\ Emptied' /\ graph' = graph /\ alive' = alive /\ pc'[t] = Idle /\ kept' = kept /\ follow' = follow
         /\ pc[t].msg[1].kind \in graph.kinds
         /\ pc[t].msg[1].kind = "flush" => \A x \in Nodes(graph) \cap alive : kept[x] = <<>>
         /\ "flush" \in graph.kinds /\ pc[t].msg[1].kind # "flush" => pc[t].msg[1].kind = "marker"
<1>1. PICK i : i = <<t, pc[t].i>>
  OBVIOUS
<1>2. PICK m : m = Head(buf[i])
  OBVIOUS
<1>3. /\ alive' = alive /\ follow' = follow /\ buf[i] # <<>> /\ Pop(i) /\ graph.kind[t] = "io"
      /\ pc[t].at = "each" /\ t \in Parts(graph) /\ t \notin Nodes(graph) /\ graph' = graph
      /\ IsBack(t, m) /\ pc' = Goto(t, Idle) /\ kept' = kept /\ pc \in [Parts(graph) -> Frames]
  BY <1>1, <1>2, KindsDiffer DEF IoReads, Pop, Running, routineVars, Types, FrameTypes
<1>4. i \in Inputs(graph) /\ buf \in [Inputs(graph) -> Seq(Message)] /\ i[1] = t
  <2>1. pc[t].i \in DOMAIN graph.bound[t]
    BY <1>3 DEF Types, FrameTypes, FrameOK
  <2> QED BY <1>1, <1>3, <2>1, OutletShape DEF Types, EdgeTypes
<1>5. /\ buf'[i] = Tail(buf[i]) /\ \A j \in Inputs(graph) : j # i => buf'[j] = buf[j]
      /\ buf[i] \in Seq(Message)
  BY <1>3, <1>4 DEF Pop
<1>6. pc[t].msg = <<m>> /\ m \in Message /\ m.kind \in graph.kinds /\ ~IsData(m)
  <2>1. PICK n \in Message : pc[t].msg = <<n>> /\ n.kind \in graph.kinds /\ ~IsData(n)
    BY <1>3 DEF IoFrame
  <2>2. m = n
    BY <1>3, <2>1 DEF IsBack
  <2> QED BY <2>1, <2>2
<1>7. /\ \A j \in Inputs(graph) : \A k \in DOMAIN buf[j] : buf[j][k] = m => j = i /\ k = 1
      /\ \A x \in Nodes(graph) : \A s \in Sides(x) : ~Bears(x, s, m)
  <2>1. Active(m) <= 2
    <3>1. Len(graph.bound[t]) = 1
      BY <1>3 DEF LineIoAlone
    <3> QED BY <1>3, <3>1 DEF IsBack
  <2> QED BY <1>2, <1>3, <1>4, <2>1, ActiveFew
<1>8. \A j \in Inputs(graph) : \A k \in DOMAIN buf[j] : ~IsData(buf[j][k]) => j = i /\ k = 1
  BY <1>6, <1>7 DEF Pure, Own
<1>9. \A x \in Nodes(graph) : ~Called(x)
  BY <1>3, <1>4, <1>8 DEF Called, Signalled
<1>10. ASSUME NEW x \in Nodes(graph) \cap alive, NEW s \in Sides(x)
       PROVE  /\ pending[x][s] = <<>>
              /\ \A k \in DOMAIN graph.outs[x][s] : ~Signalled(LeftTo(x, s, k))
  <2>0. ~Bears(x, s, m) /\ Own(pending[x][s], <<m>>) /\ \A k \in DOMAIN graph.outs[x][s] : Own(LeftTo(x, s, k), <<m>>)
    BY <1>6, <1>7 DEF Pure, PureAt
  <2>1. pending[x][s] = <<>>
    <3>1. \A n : pending[x][s] = <<n>> /\ ~IsData(n) => n = m
      BY <2>0, TrailOne
    <3> QED BY <2>0, <3>1 DEF SignalInv, SignalAt, Bears
  <2>2. ASSUME NEW k \in DOMAIN graph.outs[x][s], Signalled(LeftTo(x, s, k)) PROVE FALSE
    <3>1. Still(x, s, k) /\ LeftTo(x, s, k) = Going(x, s) /\ Going(x, s) # <<>>
      BY <2>2, TrailNone DEF LeftTo
    <3>2. PICK n : Going(x, s) = <<n>> /\ (held[x][s] # <<>> => n = held[x][s][1].msg)
                   /\ (held[x][s] = <<>> => pc[x].side = s /\ pc[x].at \in {"push", "block", "wake"} /\ pc[x].msg = <<n>>)
      <4>1. CASE held[x][s] # <<>>
        BY <4>1 DEF Going
      <4>2. CASE held[x][s] = <<>>
        <5>1. pc[x].side = s /\ pc[x].at \in {"push", "block", "wake"} /\ Going(x, s) = pc[x].msg
          BY <3>1, <4>2 DEF Going
        <5>2. pc[x].msg \in Seq(Message) /\ Len(pc[x].msg) = 1
          BY <1>3, <5>1, KindsDiffer DEF Types, FrameTypes, FrameOK, Frames
        <5>3. pc[x].msg = <<pc[x].msg[1]>>
          BY <5>2
        <5> QED BY <4>2, <5>1, <5>3
      <4> QED BY <4>1, <4>2
    <3>3. n = m
      BY <2>0, <2>2, <3>1, <3>2, TrailOne
    <3>4. held[x][s] = <<>>
      BY <2>0, <3>2, <3>3 DEF Bears
    <3>5. pc[x].at = "wake" /\ pc[x].i < k
      BY <2>0, <3>1, <3>2, <3>3, <3>4 DEF Bears, Still
    <3>6. pc[x].i < Len(graph.outs[x][s])
      <4>1. k \in 1 .. Len(graph.outs[x][s]) /\ Len(graph.outs[x][s]) \in Nat
        BY OutletShape, KindsDiffer
      <4>2. pc[x].i \in Nat
        BY <1>3, KindsDiffer DEF Frames
      <4> QED BY <3>5, <4>1, <4>2
    <3> QED BY <2>0, <3>2, <3>3, <3>4, <3>5, <3>6 DEF Bears
  <2> QED BY <2>1, <2>2
<1>11. D = {}
  <2> SUFFICES ASSUME D # {} PROVE FALSE
    OBVIOUS
  <2>1. Backed(t, D) /\ D \subseteq Outlets(graph) /\ D \in SUBSET D /\ \A u \in D : u[1] \in alive
    BY DEF Chased
  <2>2. PICK o \in D : Sent(t, o) \/ Owed(o) \/ \E u \in D \ D : To(u)[1] = o[1]
    BY <2>1 DEF Backed
  <2>3. o[1] \in Nodes(graph) \cap alive /\ Pledged(o[1], o[2], o[3])
    BY <1>3, <1>9, <2>1, <2>2 DEF Sent, Owed
  <2>4. o[2] \in Sides(o[1]) /\ o[3] \in DOMAIN graph.outs[o[1]][o[2]]
    BY <2>1, OutletShape
  <2> QED BY <1>10, <2>3, <2>4 DEF Pledged
<1>12. ASSUME NEW j \in Inputs(graph) PROVE buf'[j] = <<>>
  <2>1. Trailed(buf[j]) /\ buf[j] \in Seq(Message)
    BY <1>4, <1>11 DEF Chased
  <2>2. DOMAIN buf[j] = 1 .. Len(buf[j]) /\ Len(buf[j]) \in Nat
    BY <2>1
  <2>3. \A k \in DOMAIN buf[j] : j = i /\ k = 1
    <3> SUFFICES ASSUME NEW k \in DOMAIN buf[j], ~(j = i /\ k = 1) PROVE FALSE
      OBVIOUS
    <3>1. IsData(buf[j][k])
      BY <1>8
    <3>2. PICK l \in DOMAIN buf[j] : k < l /\ ~IsData(buf[j][l])
      BY <2>1, <3>1 DEF Trailed
    <3>3. l = 1
      BY <1>8, <3>2
    <3> QED BY <2>2, <3>2, <3>3
  <2>4. CASE j # i
    <3>1. 1 \notin DOMAIN buf[j]
      BY <2>3, <2>4
    <3>2. buf[j] \in Seq(Message)
      BY <2>1
    <3>3. buf[j] = <<>>
      BY <3>1, <3>2, NoFirst
    <3> QED BY <1>5, <2>4, <3>3
  <2>5. CASE j = i
    <3>1. Len(buf[j]) = 1
      <4>1. Len(buf[j]) # 0
        BY <1>3, <2>1, <2>5
      <4>2. Len(buf[j]) \in DOMAIN buf[j]
        BY <2>2, <4>1
      <4> QED BY <2>3, <4>2
    <3>2. buf[j] \in Seq(Message)
      BY <2>1
    <3>3. Tail(buf[j]) = <<>>
      BY <3>1, <3>2, OnlyFirst
    <3> QED BY <1>5, <2>5, <3>3
  <2> QED BY <2>4, <2>5
<1>13. ASSUME NEW x \in Nodes(graph) \cap alive
       PROVE  /\ "flush" \in graph.kinds /\ ~Marking(t) => kept[x] = <<>>
              /\ \A s \in Sides(x) : \A k \in DOMAIN graph.outs[x][s] : ~Burdened(x, s, k)
  BY <1>9, <1>10, <1>11 DEF Chased, Fed
<1>14. ASSUME NEW x \in Nodes(graph) \cap alive, NEW s \in Sides(x) PROVE made[x][s] = <<>>
  <2>1. 1 \in DOMAIN graph.outs[x][s]
    BY OutletShape, KindsDiffer
  <2>2. ~Laden(made[x][s]) /\ ~Signalled(made[x][s])
    BY <1>13, <2>1 DEF Burdened, Pure, PureAt
  <2>3. made[x][s] \in Seq(Message)
    BY DEF Types, RoutineTypes
  <2> QED BY <2>2, <2>3, BlankSeq
<1>15. \A y \in Nodes(graph) \cap alive : Same(y)
  BY <1>3, IoRests, RestsSame
<1>16. Emptied'
  <2>1. \A x : Sides(x)' = Sides(x)
    BY <1>3 DEF Sides
  <2>2. ASSUME NEW x \in Nodes(graph) \cap alive, NEW s \in Sides(x)
        PROVE  /\ made'[x][s] = <<>> /\ pending'[x][s] = <<>>
               /\ \A k \in DOMAIN graph.outs[x][s] : ~Laden(LeftTo(x, s, k)') /\ ~Signalled(LeftTo(x, s, k)')
    <3>1. Same(x) /\ made[x][s] = <<>> /\ pending[x][s] = <<>>
      BY <1>10, <1>14, <1>15
    <3>2. \A k \in DOMAIN graph.outs[x][s] : ~Laden(LeftTo(x, s, k)) /\ ~Signalled(LeftTo(x, s, k))
      BY <1>10, <1>13 DEF Burdened
    <3> QED BY <3>1, <3>2 DEF Same
  <2> QED BY <1>3, <1>12, <2>1, <2>2 DEF Emptied
<1>17. pc[t].msg[1] = m /\ m.kind \in Kinds /\ m.kind # "data"
  BY <1>6 DEF Message, IsData
<1>18. pc'[t] = Idle
  BY <1>3, IdleFrames, GotoFrames
<1> QED
  BY <1>3, <1>6, <1>13, <1>16, <1>17, <1>18 DEF Kinds, Marking

-----------------------------------------------------------------------------
(* Emptied, the graph moves nothing, and is there for the next call.        *)

StillNow == \A w, r : ~Moving(w, r)

LEMMA EmptyMoves == GraphOK /\ Types /\ GoneInv /\ Emptied => StillNow
<1> SUFFICES ASSUME GraphOK, Types, GoneInv, Emptied, NEW w, NEW r PROVE ~Moving(w, r)
  BY DEF StillNow
<1>1. \A i \in Inputs(graph) : buf[i] = <<>>
  BY DEF Emptied
<1>2. ASSUME NEW x \in Nodes(graph), NEW s \in Sides(x)
      PROVE  /\ made[x][s] = <<>>
             /\ held[x][s] # <<>> => ~IsData(held[x][s][1].msg)
  <2>1. CASE x \notin alive
    BY <2>1 DEF GoneInv, GoneAt
  <2>2. CASE x \in alive
    <3>1. made[x][s] = <<>>
      BY <2>2 DEF Emptied
    <3>2. ASSUME held[x][s] # <<>> PROVE ~IsData(held[x][s][1].msg)
      <4>1. PICK k \in DOMAIN graph.outs[x][s] : k = held[x][s][1].at
        BY <3>2 DEF Types, HeldTypes
      <4>2. k \in Nat
        BY <4>1, OutletShape, KindsDiffer
      <4>3. LeftTo(x, s, k) = <<held[x][s][1].msg>>
        BY <3>2, <4>1, <4>2 DEF LeftTo, Still, Going
      <4>4. ~Laden(LeftTo(x, s, k))
        BY <2>2, <4>1 DEF Emptied
      <4> QED BY <4>3, <4>4, TrailOne
    <3> QED BY <3>1, <3>2
  <2> QED BY <2>1, <2>2
<1> QED
  BY <1>1, <1>2 DEF Moving

\* Nothing of a way that no marker closes goes.
WaysInv == \A P : PlainWays(P) => \A o \in P : o[1] \in alive

LEMMA WaysNext ==
  ASSUME GraphOK, Types, StackInv, Steady, Feeding, SeenInv, DeadInv, Next, WaysInv,
         \/ alive' = alive
         \/ \E x : Quits(x)
         \/ \E u \in Threads(graph) : Drop({u})
  PROVE  WaysInv'
<1>0. graph' = graph /\ \A u : To(u)' = To(u) /\ Follows(u)' = Follows(u)
  BY SameGraph DEF To, Follows
<1>1. \A P : PlainWays(P)' <=> PlainWays(P)
  BY <1>0 DEF PlainWays
<1> SUFFICES ASSUME NEW P, PlainWays(P), NEW o \in P, o[1] \notin alive' PROVE FALSE
  BY <1>1 DEF WaysInv
<1>2. /\ P \subseteq Outlets(graph) /\ \A u \in P : u[1] \in alive
      /\ \A K \in SUBSET P : K # {} => \E u \in K : u[1] \in Lent(graph) \/ \E v \in P \ K : To(v)[1] = u[1]
  BY DEF PlainWays, WaysInv
<1>3. PICK K : K = {u \in P : u[1] = o[1]}
  OBVIOUS
<1>4. PICK u \in K : u[1] \in Lent(graph) \/ \E v \in P \ K : To(v)[1] = u[1]
  <2>1. K \in SUBSET P /\ K # {}
    BY <1>3
  <2> QED BY <1>2, <2>1
<1>5. u[1] = o[1] /\ o \in Outlets(graph) /\ u \in Outlets(graph) /\ o[1] \in alive
  BY <1>2, <1>3, <1>4
<1>6. CASE \E x : Quits(x)
  <2>1. PICK x : Quits(x)
    BY <1>6
  <2>2. x \in Nodes(graph) /\ alive' = alive \ {x} /\ \A p \in 1 .. NumInputs(x) : Exhausted(<<x, p>>)
    BY <2>1, QuitsAlone DEF Quits
  <2>3. o[1] = x
    BY <1>5, <2>2
  <2>4. PICK v \in P : To(v)[1] = x
    BY <1>4, <1>5, <2>2, <2>3, KindsDiffer
  <2>5. PICK i \in Inputs(graph) : i = To(v)
    BY <1>2, OutletShape
  <2>6. i = <<x, i[2]>> /\ i[2] \in 1 .. NumInputs(x)
    <3>1. i = <<i[1], i[2]>> /\ i[2] \in DOMAIN graph.bound[i[1]] /\ i[1] = x
      BY <2>4, <2>5, OutletShape
    <3>2. DOMAIN graph.bound[x] = 1 .. NumInputs(x)
      BY <2>2, OutletShape
    <3> QED BY <3>1, <3>2
  <2>7. Exhausted(i)
    BY <2>2, <2>6
  <2>8. v[1] \in graph.feeders[i] /\ v[1] \in alive
    BY <1>2, <2>5 DEF GraphOK, Shaped, To
  <2> QED BY <2>7, <2>8 DEF Exhausted
<1>7. CASE \E t \in Threads(graph) : Drop({t})
  <2>1. PICK t \in Threads(graph) : Drop({t})
    BY <1>7
  <2>2. o[1] = t
    BY <1>5, <2>1 DEF Drop
  <2>3. PICK v \in P : To(v)[1] = u[1]
    BY <1>4, <1>5, <2>2, KindsDiffer
  <2>4. u[1] \in Nodes(graph)
    BY <1>2, <1>5, <2>3, FedIsNode
  <2> QED BY <1>5, <2>2, <2>4, KindsDiffer
<1> QED
  BY <1>5, <1>6, <1>7

\* What the routines keep back they keep for a Flush that may yet come.
Sparing ==
  \A x \in Nodes(graph) \cap alive :
    /\ ~Signalled(kept[x])
    /\ kept[x] # <<>> => x \in graph.keeps /\ ("flush" \in graph.kinds => "marker" \in graph.kinds)

\* The call of thread t, or that there is none, and what it waits for.
Driven(t) ==
  /\ IoFrame(t) /\ \A f : f = Awaited(t) => Pure(f)
  /\ \E D : Chased(t, D)

LEMMA EmptyDrives ==
  ASSUME NEW t
  PROVE  GraphOK /\ Types /\ LineIoAlone /\ Lent(graph) \subseteq alive /\ WaysInv /\ Emptied /\ Sparing /\ pc[t] = Idle
         => Driven(t)
<1> SUFFICES ASSUME GraphOK, Types, LineIoAlone, Lent(graph) \subseteq alive, WaysInv, Emptied, Sparing, pc[t] = Idle
             PROVE  Driven(t)
  OBVIOUS
<1>0. pc[t].at = "idle" /\ Awaited(t) = <<>> /\ IoFrame(t)
  BY IdleFrames DEF Awaited, IoFrame
<1>1. \A q, f : ~Signalled(q) => Own(q, f)
  BY DEF Signalled, Own
<1>2. /\ \A i \in Inputs(graph) : buf[i] = <<>>
      /\ \A x \in Nodes(graph) \cap alive : \A s \in Sides(x) :
           /\ made[x][s] = <<>> /\ pending[x][s] = <<>>
           /\ \A k \in DOMAIN graph.outs[x][s] : ~Laden(LeftTo(x, s, k)) /\ ~Signalled(LeftTo(x, s, k))
  BY DEF Emptied
<1>3. Pure(<<>>)
  <2>1. \A i \in Inputs(graph) : Own(buf[i], <<>>)
    BY <1>2, TrailNone
  <2>2. ASSUME NEW x \in Nodes(graph) \cap alive PROVE PureAt(x, <<>>)
    <3>1. ~Signalled(kept[x]) /\ (kept[x] # <<>> => x \in graph.keeps)
      BY DEF Sparing
    <3>2. ASSUME NEW s \in Sides(x)
          PROVE  /\ ~Signalled(made[x][s]) /\ Own(pending[x][s], <<>>)
                 /\ \A k \in DOMAIN graph.outs[x][s] : Own(LeftTo(x, s, k), <<>>)
      BY <1>1, <1>2, TrailNone
    <3> QED BY <3>1, <3>2 DEF PureAt
  <2> QED BY <2>1, <2>2 DEF Pure
<1>4. \A x \in Nodes(graph) \cap alive : \A s \in Sides(x) : \A k \in DOMAIN graph.outs[x][s] : ~Burdened(x, s, k)
  BY <1>2, TrailNone DEF Burdened
<1>5. CASE {"flush", "marker"} \subseteq graph.kinds
  <2>1. PICK P : PlainWays(P)
    BY <1>5 DEF LineIoAlone
  <2>2. /\ P \subseteq Outlets(graph) /\ \A o \in P : ~Follows(o) /\ o[1] \in alive
        /\ \A K \in SUBSET P : K # {} => \E o \in K : o[1] \in Lent(graph) \/ \E u \in P \ K : To(u)[1] = o[1]
    BY <2>1 DEF PlainWays, WaysInv
  <2>3. Backed(t, P)
    BY <1>0, <2>2 DEF Backed, Sent
  <2>4. ASSUME NEW x \in Nodes(graph) \cap alive, kept[x] # <<>> PROVE Fed(x, P)
    <3>1. x \in graph.keeps
      BY <2>4 DEF Sparing
    <3>2. PICK o \in P : To(o)[1] = x
      BY <2>1, <3>1 DEF PlainWays
    <3>3. To(o) \in Inputs(graph)
      BY <2>2, OutletShape
    <3> QED BY <3>2, <3>3 DEF Fed
  <2>5. Chased(t, P)
    BY <1>2, <1>4, <2>2, <2>3, <2>4, TrailNone DEF Chased
  <2> QED BY <1>0, <1>3, <2>5 DEF Driven
<1>6. CASE ~({"flush", "marker"} \subseteq graph.kinds)
  <2>1. "flush" \in graph.kinds => \A x \in Nodes(graph) \cap alive : kept[x] = <<>>
    BY <1>6 DEF Sparing
  <2>2. Backed(t, {})
    BY DEF Backed
  <2>3. Chased(t, {})
    BY <1>2, <1>4, <2>1, <2>2, TrailNone DEF Chased
  <2> QED BY <1>0, <1>3, <2>3 DEF Driven
<1> QED
  BY <1>5, <1>6

\* The same of the next state.
LEMMA EmptyMovesNext == (GraphOK /\ Types /\ GoneInv /\ Emptied)' => StillNow'
BY EmptyMoves, PTL

LEMMA EmptyDrivesNext ==
  ASSUME NEW t
  PROVE  (GraphOK /\ Types /\ LineIoAlone /\ Lent(graph) \subseteq alive /\ WaysInv /\ Emptied /\ Sparing /\ pc[t] = Idle)'
         => Driven(t)'
BY EmptyDrives, PTL

-----------------------------------------------------------------------------
(* The LineIo and its graph, from call to call.                             *)

Whole == broke # TRUE /\ Lent(graph) \subseteq alive /\ OpenInv /\ SeenInv /\ DeadInv /\ WaysInv
IoInv == \A t \in Threads(graph) \cap alive : graph.kind[t] = "io" => Whole /\ Driven(t)

LEMMA WholeNext ==
  ASSUME GraphOK, Types, StackInv, SidesInv, LineIoAlone, Whole, Next,
         NEW t \in Threads(graph) \cap alive', graph.kind[t] = "io"
  PROVE  Whole' /\ Steady /\ Feeding
<1>1. /\ broke # TRUE /\ Lent(graph) \subseteq alive /\ OpenInv /\ SeenInv /\ DeadInv /\ WaysInv
      /\ graph' = graph /\ Feeding
  BY SameGraph DEF Whole, LineIoAlone
<1>2. /\ Steady /\ broke' # TRUE /\ Lent(graph) \subseteq alive' /\ OpenInv'
      /\ \/ \E x \in Nodes(graph) \cap alive : NodeStep(x) /\ Feeds(x)
         \/ \E x \in Nodes(graph) \cap alive : Takes(x)
         \/ t \in alive /\ (IoReads(t) \/ IoPushes(t))
         \/ Quiet /\ UNCHANGED <<alive, buf, follow>>
         \/ Quiet /\ \E x : Quits(x)
         \/ Quiet /\ \E u \in Threads(graph) : Drop({u})
  BY <1>1, IoSteps
<1>3. alive' = alive \/ (\E x : Quits(x)) \/ (\E u \in Threads(graph) : Drop({u}))
  <2>1. \A x : Feeds(x) => alive' = alive
    BY DEF Feeds, Resumes, Delivers, RotateOn, Unblock
  <2>2. \A x : Takes(x) \/ IoReads(x) \/ IoPushes(x) => alive' = alive
    BY DEF Takes, IoReads, IoPushes
  <2> QED BY <1>2, <2>1, <2>2
<1>4. WaysInv'
  BY <1>1, <1>2, <1>3, WaysNext
<1>5. SeenInv' /\ DeadInv'
  BY <1>1, <1>2, SeenNext, DeadNext
<1> QED
  BY <1>1, <1>2, <1>4, <1>5 DEF Whole

\* The call returns: the graph is empty, and the LineIo may be called again.
LEMMA DrivenBack ==
  ASSUME GraphOK, Types, StackInv, SidesInv, SignalInv, LineIoAlone, Whole, Next,
         NEW t \in Threads(graph) \cap alive, IoReads(t), pc' # pc, Driven(t)
  PROVE  /\ Emptied' /\ Driven(t)'
         /\ pc[t].msg[1].kind = "flush" => \A x \in Nodes(graph) \cap alive : kept'[x] = <<>>
<1>0. PICK D : Chased(t, D)
  BY DEF Driven
<1>1. /\ graph.kind[t] = "io" /\ pc[t].at = "each" /\ IoFrame(t) /\ Pure(pc[t].msg) /\ t \in alive'
      /\ \A f : f = Awaited(t) => Pure(f)
  BY DEF IoReads, Running, Driven, Awaited
<1>2. /\ Emptied' /\ graph' = graph /\ alive' = alive /\ pc'[t] = Idle /\ kept' = kept
      /\ pc[t].msg[1].kind \in graph.kinds
      /\ pc[t].msg[1].kind = "flush" => \A x \in Nodes(graph) \cap alive : kept[x] = <<>>
      /\ "flush" \in graph.kinds /\ pc[t].msg[1].kind # "flush" => pc[t].msg[1].kind = "marker"
  BY <1>0, <1>1, IoBack
<1>3. Sparing'
  <2>1. ASSUME NEW x \in Nodes(graph) \cap alive
        PROVE  /\ ~Signalled(kept[x]) /\ (kept[x] # <<>> => x \in graph.keeps)
               /\ kept[x] # <<>> /\ "flush" \in graph.kinds => "marker" \in graph.kinds
    <3>1. PureAt(x, pc[t].msg)
      BY <1>1 DEF Pure
    <3> QED BY <1>2, <3>1 DEF PureAt
  <2> QED BY <1>2, <2>1 DEF Sparing
<1>4. Whole'
  BY <1>1, WholeNext
<1>5. Types' /\ GraphOK'
  <2>1. Types' /\ StackInv'
    BY TypesNext
  <2> QED BY <2>1, <1>2 DEF GraphOK
<1>6. LineIoAlone'
  <2>1. \A u : To(u)' = To(u) /\ Follows(u)' = Follows(u)
    BY <1>2 DEF To, Follows
  <2>2. \A P : PlainWays(P)' <=> PlainWays(P)
    BY <1>2, <2>1 DEF PlainWays
  <2>3. Feeding' <=> Feeding
    BY <1>2, <2>1 DEF Feeding
  <2> QED BY <1>2, <2>2, <2>3 DEF LineIoAlone
<1>7. Driven(t)'
  BY <1>2, <1>3, <1>4, <1>5, <1>6, EmptyDrivesNext DEF Whole
<1> QED
  BY <1>2, <1>7

LEMMA DrivenNext ==
  ASSUME GraphOK, Types, StackInv, SidesInv, ClearInv, FollowInv, SignalInv, LineIoAlone, Whole, Next,
         NEW t \in Threads(graph) \cap alive', graph.kind[t] = "io", Driven(t)
  PROVE  Driven(t)'
<1>0. /\ broke # TRUE /\ Lent(graph) \subseteq alive /\ OpenInv /\ SeenInv /\ DeadInv /\ WaysInv
      /\ graph' = graph /\ alive' \subseteq alive /\ Feeding /\ t \in alive /\ IoFrame(t)
  BY SameGraph, AliveOnly DEF Whole, LineIoAlone, Driven
<1>1. /\ Steady
      /\ \/ \E x \in Nodes(graph) \cap alive : NodeStep(x) /\ Feeds(x)
         \/ \E x \in Nodes(graph) \cap alive : Takes(x)
         \/ t \in alive /\ (IoReads(t) \/ IoPushes(t))
         \/ Quiet /\ UNCHANGED <<alive, buf, follow>>
         \/ Quiet /\ \E x : Quits(x)
         \/ Quiet /\ \E u \in Threads(graph) : Drop({u})
  BY <1>0, IoSteps
<1>2. PICK D : Chased(t, D)
  BY DEF Driven
<1>3. PICK f : f = Awaited(t)
  OBVIOUS
<1>4. Pure(f)
  BY <1>3 DEF Driven
<1>5. CASE IoReads(t)
  <2>1. CASE pc' = pc
    <3>1. Chased(t, D)' /\ Pure(f)'
      BY <1>0, <1>2, <1>4, <1>5, <2>1, ChaseReads
    <3>2. IoFrame(t)' /\ Awaited(t)' = f
      <4>1. Message' = Message
        BY <1>0, SameMessages
      <4> QED BY <1>0, <1>3, <2>1, <4>1 DEF IoFrame, Awaited
    <3> QED BY <3>1, <3>2 DEF Driven
  <2>2. CASE pc' # pc
    BY <1>0, <1>5, <2>2, DrivenBack
  <2> QED BY <2>1, <2>2
<1>6. CASE IoPushes(t)
  <2>1. f = <<>>
    BY <1>3, <1>6 DEF IoPushes, Running, Awaited
  <2>2. (\E D2 : Chased(t, D2)') /\ (\A g : g = Awaited(t)' => Pure(g)') /\ IoFrame(t)'
    BY <1>0, <1>2, <1>4, <1>6, <2>1, ChaseSent
  <2> QED BY <2>2 DEF Driven
<1>7. CASE ~IoReads(t) /\ ~IoPushes(t)
  <2>1. SameCall(t) /\ IoFrame(t)'
    BY <1>0, <1>7, IoCalls
  <2>2. Awaited(t)' = f
    BY <1>3, <2>1 DEF SameCall, Awaited
  <2>3. ASSUME Pure(f)', \E D2 : Chased(t, D2)' PROVE Driven(t)'
    BY <2>1, <2>2, <2>3 DEF Driven
  <2>4. ASSUME NEW x \in Nodes(graph) \cap alive, NodeStep(x), Feeds(x) PROVE Driven(t)'
    <3>1. SidesAt(x) /\ SignalAt(x)
      BY DEF SidesInv, SignalInv
    <3>2. PICK s, k, n : Pushing(x, s, k, n) /\ Source(x, s, k, n)
      BY <2>4, <3>1, Sources DEF Feeds
    <3>3. \E D2 : Chased(t, D2)'
      BY <1>2, <2>1, <2>4, <3>1, <3>2, ChaseFed
    <3>4. Pure(f)'
      BY <1>4, <2>4, <3>1, <3>2, PureFed
    <3> QED BY <2>3, <3>3, <3>4
  <2>5. ASSUME NEW x \in Nodes(graph) \cap alive, Takes(x) PROVE Driven(t)'
    <3>1. ClearAt(x)
      BY DEF ClearInv
    <3>2. PICK n : n = Head(buf[<<x, pc[x].i>>])
      OBVIOUS
    <3>3. Pure(f)' /\ (IsData(n) \/ f = <<n>>)
      BY <1>4, <2>5, <3>1, <3>2, PureTook
    <3>4. n.kind = "marker" => Marking(t)
      BY <1>3, <3>3 DEF Awaited, Marking, IsData
    <3>5. Chased(t, D)'
      BY <1>2, <2>1, <2>5, <3>1, <3>2, <3>4, ChaseTook
    <3> QED BY <2>3, <3>3, <3>5
  <2>6. ASSUME Quiet,
               \/ UNCHANGED <<alive, buf, follow>>
               \/ \E x : Quits(x)
               \/ \E u \in Threads(graph) : Drop({u})
        PROVE  Driven(t)'
    <3>1. Chased(t, D)'
      BY <1>0, <1>1, <1>2, <2>1, <2>6, ChaseQuiet
    <3>2. Pure(f)'
      BY <1>4, <2>6, PureQuiet
    <3> QED BY <2>3, <3>1, <3>2
  <2> QED BY <1>1, <1>7, <2>4, <2>5, <2>6
<1> QED
  BY <1>5, <1>6, <1>7

LEMMA IoInit == Init /\ LineIoAlone => IoInv
<1> SUFFICES ASSUME Init, LineIoAlone, NEW t \in Threads(graph), graph.kind[t] = "io" PROVE Whole /\ Driven(t)
  BY DEF IoInv
<1>1. /\ GraphOK /\ Types /\ alive = Parts(graph) /\ Nodes(graph) \subseteq Parts(graph) /\ Lent(graph) \subseteq Parts(graph)
      /\ t \in Parts(graph)
  BY TypesInit, GraphIsOK, KindsDiffer DEF Init, GraphTypes, StackInv
<1>2. pc[t] = Idle
  BY <1>1 DEF Init
<1>3. ASSUME NEW x \in Nodes(graph)
      PROVE  /\ kept[x] = <<>> /\ pc[x] = Idle
             /\ \A s \in Sides(x) : made[x][s] = <<>> /\ pending[x][s] = <<>> /\ \A k : LeftTo(x, s, k) = <<>>
  <2>1. pc[x] = Idle
    BY <1>1, KindsDiffer DEF Init
  <2>2. \A s \in Sides(x) : Going(x, s) = <<>>
    BY <2>1, IdleFrames DEF Init, Going
  <2> QED BY <2>1, <2>2 DEF Init, LeftTo
<1>4. \A i \in Inputs(graph) : i[1] \in Parts(graph) /\ buf[i] = <<>>
  BY <1>1, OutletShape DEF Init
<1>5. OpenInv /\ WaysInv
  <2>1. \A o \in Outlets(graph) : o[1] \in Parts(graph) /\ To(o)[1] \in Parts(graph)
    BY <1>1, OutletShape
  <2> QED BY <1>1, <2>1 DEF OpenInv, WaysInv, PlainWays
<1>6. SeenInv /\ DeadInv
  BY <1>1, <1>3, <1>4, IdleFrames DEF SeenInv, SeenAt, DeadInv
<1>7. broke # TRUE
  BY Zenon DEF Init
<1>8. Emptied
  BY <1>3, <1>4, TrailNone DEF Emptied
<1>9. Sparing
  BY <1>3, TrailNone DEF Sparing
<1>10. Lent(graph) \subseteq alive /\ WaysInv
  BY <1>1, <1>5
<1>11. Driven(t)
  BY <1>1, <1>2, <1>8, <1>9, <1>10, EmptyDrives
<1> QED
  BY <1>1, <1>5, <1>6, <1>7, <1>11 DEF Whole

LEMMA IoNext ==
  ASSUME GraphOK, Types, StackInv, SidesInv, ClearInv, FollowInv, SignalInv, LineIoAlone, IoInv, Next
  PROVE  IoInv'
<1>1. graph' = graph /\ alive' \subseteq alive
  BY SameGraph, AliveOnly
<1>2. ASSUME NEW t \in Threads(graph) \cap alive', graph.kind[t] = "io" PROVE Whole' /\ Driven(t)'
  <2>1. Whole /\ Driven(t)
    BY <1>1, <1>2 DEF IoInv
  <2> QED BY <1>2, <2>1, WholeNext, DrivenNext
<1> QED
  BY <1>1, <1>2 DEF IoInv

\* LineIo::flush and mark return only once their signal has been through the
\* whole graph, loop and all, with nothing left of what was written before it:
\* the last copy that Trackable counts (Active) comes back when no edge or node
\* has the signal any more, and the signal goes out behind the data everywhere,
\* through fan-outs that suspend, FollowData edges and nodes that hold it back.
THEOREM LineIoReturnsAll == Spec /\ LineIoAlone => IoReturnsAll
<1> DEFINE Others == SidesInv /\ ClearInv /\ FollowInv /\ SignalsFollowData /\ SignalInv /\ GoneInv
           I == Others /\ LineIoAlone /\ IoInv
           Step == \A t \in Threads(graph) : \A w \in Lent(graph), i \in DOMAIN graph.bound[t] :
                     (/\ Running(t, "each") /\ graph.kind[t] = "io" /\ pc'[t].at = "idle" /\ t \in alive'
                      /\ pc[t].i = i /\ pc[t].msg[1].from = w) =>
                        /\ ~Moving(w, <<t, i>>)'
                        /\ pc[t].msg[1].kind = "flush" => \A x \in Nodes(graph) : kept'[x] = <<>>
<1>1. Init /\ LineIoAlone => I
  <2> SUFFICES ASSUME Init, LineIoAlone PROVE Others
    BY IoInit
  <2>1. Nodes(graph) \subseteq Parts(graph) /\ alive = Parts(graph)
    BY KindsDiffer DEF Init
  <2>2. \A x \in Nodes(graph) : pc[x].at = "idle"
    BY <2>1, IdleFrames, KindsDiffer DEF Init
  <2>3. SidesInv /\ ClearInv
    BY <2>2 DEF SidesInv, SidesAt, ClearInv, ClearAt
  <2>4. SignalInv /\ GoneInv
    BY <2>1 DEF Init, SignalInv, SignalAt, GoneInv
  <2> QED BY <2>3, <2>4, FollowInit
<1>2. Types /\ StackInv /\ I /\ [Next]_vars => I'
  <2> SUFFICES ASSUME Types, StackInv, I, [Next]_vars PROVE I'
    OBVIOUS
  <2>0. GraphOK /\ FollowInv' /\ SignalsFollowData'
    BY GraphIsOK, FollowNext DEF StackInv
  <2>1. graph' = graph
    BY SameGraph DEF vars
  <2>2. LineIoAlone'
    <3>1. \A u : To(u)' = To(u) /\ Follows(u)' = Follows(u)
      BY <2>1 DEF To, Follows
    <3>2. \A P : PlainWays(P)' <=> PlainWays(P)
      BY <2>1, <3>1 DEF PlainWays
    <3>3. Feeding' <=> Feeding
      BY <2>1, <3>1 DEF Feeding
    <3> QED BY <2>1, <3>2, <3>3 DEF LineIoAlone
  <2>3. CASE Next
    <3>1. SidesInv' /\ ClearInv' /\ SignalInv' /\ GoneInv'
      BY <2>0, <2>3, SidesNext, ClearNext, SignalNext, GoneNext
    <3>2. IoInv'
      BY <2>0, <2>3, IoNext
    <3> QED BY <2>0, <2>2, <3>1, <3>2
  <2>4. CASE UNCHANGED vars
    <3>1. UNCHANGED <<graph, alive, buf, follow, kept, made, pending, held, pc, written, broke>>
      BY <2>4 DEF vars, edgeVars, routineVars
    <3>2. SidesInv' /\ ClearInv' /\ SignalInv' /\ GoneInv'
      BY <3>1 DEF SidesInv, SidesAt, Sides, ClearInv, ClearAt, NothingOn, SignalInv, SignalAt, GoneInv, GoneAt
    <3>3. (OpenInv' <=> OpenInv) /\ (SeenInv' <=> SeenInv) /\ (DeadInv' <=> DeadInv)
      BY <3>1 DEF OpenInv, SeenInv, SeenAt, NumInputs, Exhausted, DeadInv, To
    <3>4. WaysInv' <=> WaysInv
      BY <3>1 DEF WaysInv, PlainWays, To, Follows
    <3>5. Whole' <=> Whole
      BY <3>1, <3>3, <3>4 DEF Whole
    <3>6. \A t : (IoFrame(t)' <=> IoFrame(t)) /\ Awaited(t)' = Awaited(t)
      BY <3>1 DEF IoFrame, Awaited, Message
    <3>7. \A f : Pure(f)' <=> Pure(f)
      BY <3>1 DEF Pure, PureAt, LeftTo, Going, Still, Sides
    <3>8. \A t, D : Chased(t, D)' <=> Chased(t, D)
      BY <3>1 DEF Chased, Backed, Sent, Owed, Pledged, Called, Fed, Marking, Burdened, LeftTo, Going, Still, Sides,
         To, Follows
    <3>9. \A t : Driven(t)' <=> Driven(t)
      BY <3>6, <3>7, <3>8 DEF Driven
    <3>10. IoInv'
      BY <3>1, <3>5, <3>9 DEF IoInv
    <3> QED BY <2>0, <2>2, <3>2, <3>10
  <2> QED BY <2>3, <2>4
<1>3. Types /\ StackInv /\ I /\ (Types /\ StackInv)' /\ I' /\ [Next]_vars => [Step]_vars
  <2> SUFFICES ASSUME Types, StackInv, I, Types', GoneInv', Next,
                      NEW t \in Threads(graph), NEW w \in Lent(graph), NEW i \in DOMAIN graph.bound[t],
                      Running(t, "each"), graph.kind[t] = "io", pc'[t].at = "idle", t \in alive'
               PROVE  /\ ~Moving(w, <<t, i>>)'
                      /\ pc[t].msg[1].kind = "flush" => \A x \in Nodes(graph) : kept'[x] = <<>>
    OBVIOUS
  <2>0. GraphOK /\ t \in alive /\ pc[t].at = "each" /\ graph' = graph /\ Whole /\ Driven(t) /\ alive' \subseteq alive
    <3>1. GraphOK
      BY GraphIsOK DEF StackInv
    <3> QED BY <3>1, SameGraph, AliveOnly DEF Running, IoInv
  <2>1. IoReads(t)
    <3>1. ~IoPushes(t)
      BY <2>0 DEF IoPushes, Running
    <3> QED BY <2>0, <3>1, IoMoves
  <2>2. pc' # pc
    BY <2>0
  <2>3. /\ Emptied'
        /\ pc[t].msg[1].kind = "flush" => \A x \in Nodes(graph) \cap alive : kept'[x] = <<>>
    BY <2>0, <2>1, <2>2, DrivenBack
  <2>4. StillNow'
    <3>1. GraphOK'
      BY <2>0 DEF GraphOK
    <3> QED BY <2>3, <3>1, EmptyMovesNext
  <2>5. ASSUME NEW x \in Nodes(graph), pc[t].msg[1].kind = "flush" PROVE kept'[x] = <<>>
    <3>1. CASE x \in alive
      BY <2>3, <2>5, <3>1
    <3>2. CASE x \notin alive
      BY <2>0, <3>2 DEF GoneInv, GoneAt
    <3> QED BY <3>1, <3>2
  <2> QED BY <2>4, <2>5 DEF StillNow
<1>4. [][Step]_vars => IoReturnsAll
  BY DEF IoReturnsAll
<1> HIDE DEF Others, I, Step
<1> QED
  BY <1>1, <1>2, <1>3, <1>4, TypeSafe, PTL DEF Spec
==============================================================================
