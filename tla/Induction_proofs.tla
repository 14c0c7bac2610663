-------------------------- MODULE Induction_proofs --------------------------
(***************************************************************************)
(* Induction over the naturals, stated for a set, so that it needs no      *)
(* operator as its parameter; and what it proves of Messages' Only and of  *)
(* least and greatest elements.                                            *)
(***************************************************************************)
EXTENDS Messages, Integers, FiniteSets, TLAPS, FiniteSetTheorems, WellFoundedInduction

\* A set of naturals that has 0 and, with each number, the next has them all:
\* the numbers missing below x would have a least one.
LEMMA SetInduction ==
  ASSUME NEW S, 0 \in S, \A n \in Nat : n \in S => n + 1 \in S
  PROVE  Nat \subseteq S
<1> SUFFICES ASSUME NEW x \in Nat, x \notin S PROVE FALSE
  OBVIOUS
<1> DEFINE All == 1 .. x
           Missing == {1 .. k : k \in {j \in 0 .. x : j \notin S}}
<1>1. IsWellFoundedOn(StrictSubsetOrdering(All), SUBSET All)
  <2>1. IsFiniteSet(All)
    BY FS_Interval
  <2> HIDE DEF All
  <2> QED BY <2>1, FS_FiniteSubsetsOfFinite, FS_StrictSubsetOrderingWellFounded
<1>2. Missing \subseteq SUBSET All /\ 1 .. x \in Missing
  OBVIOUS
<1>3. PICK low \in Missing : \A y \in Missing : <<y, low>> \notin StrictSubsetOrdering(All)
  <2> HIDE DEF Missing, All
  <2>1. Missing # {}
    BY <1>2
  <2> QED BY <1>1, <1>2, <2>1, WFMin
<1>4. PICK k \in 0 .. x : k \notin S /\ low = 1 .. k
  OBVIOUS
<1>5. k # 0 /\ k - 1 \in 0 .. x /\ k - 1 \notin S
  BY <1>4
<1>6. 1 .. k - 1 \in Missing
  BY <1>5
<1>7. <<1 .. k - 1, low>> \in StrictSubsetOrdering(All)
  <2>1. 1 .. k - 1 \subseteq 1 .. k /\ k \in 1 .. k /\ k \notin 1 .. k - 1
    BY <1>5
  <2>2. 1 .. k - 1 \in SUBSET All /\ low \in SUBSET All
    BY <1>2, <1>6
  <2> QED BY <1>4, <2>1, <2>2 DEF StrictSubsetOrdering
<1> QED
  BY <1>3, <1>6, <1>7

-----------------------------------------------------------------------------
(* The messages of a sequence that are in a set.                            *)

\* f is SelectSeq's recursion over q.
Selects(f, q, S) ==
  f = [n \in 0 .. Len(q) |-> IF n = 0 THEN <<>>
                             ELSE IF q[n] \in S THEN Append(f[n - 1], q[n]) ELSE f[n - 1]]

LEMMA SelectsStep ==
  ASSUME NEW A, NEW q \in Seq(A), NEW S, NEW f, NEW a, Selects(f, q, S), NEW m \in A,
         a = IF m \in S THEN Append(f[Len(q)], m) ELSE f[Len(q)]
  PROVE  /\ Selects([n \in 0 .. Len(q) + 1 |-> IF n <= Len(q) THEN f[n] ELSE a], Append(q, m), S)
<1> DEFINE p == Append(q, m)
           l == Len(q)
           g == [n \in 0 .. l + 1 |-> IF n <= l THEN f[n] ELSE a]
           h == [n \in 0 .. l + 1 |-> IF n = 0 THEN <<>>
                             ELSE IF p[n] \in S THEN Append(g[n - 1], p[n]) ELSE g[n - 1]]
<1>1. l \in Nat /\ Len(p) = l + 1 /\ p[l + 1] = m /\ \A n \in 1 .. l : p[n] = q[n]
  OBVIOUS
<1>2. \A n \in 0 .. l : f[n] = IF n = 0 THEN <<>>
                               ELSE IF q[n] \in S THEN Append(f[n - 1], q[n]) ELSE f[n - 1]
  BY DEF Selects
<1> HIDE DEF p, l
<1>3. /\ \A n \in 0 .. l : g[n] = f[n]
      /\ g[l + 1] = a
  BY <1>1
<1>4. ASSUME NEW n \in 0 .. l + 1 PROVE g[n] = h[n]
  <2>1. CASE n = 0
    BY <1>1, <1>2, <1>3, <2>1
  <2>2. CASE n \in 1 .. l
    <3>1. n - 1 \in 0 .. l /\ n \in 0 .. l /\ n # 0
      BY <1>1, <2>2
    <3> QED BY <1>1, <1>2, <1>3, <2>2, <3>1
  <2>3. CASE n = l + 1
    <3>1. n - 1 = l /\ n # 0 /\ l \in 0 .. l
      BY <1>1, <2>3
    <3> QED BY <1>1, <1>3, <2>3, <3>1 DEF l
  <2> QED BY <1>1, <2>1, <2>2, <2>3
<1>5. g = h
  BY <1>4
<1> QED
  BY <1>1, <1>5 DEF Selects, p, l

LEMMA SelectsExists ==
  ASSUME NEW A, NEW S, NEW q \in Seq(A)
  PROVE  \E f : Selects(f, q, S)
<1> DEFINE N == {n \in Nat : \A p \in Seq(A) : Len(p) = n => \E f : Selects(f, p, S)}
<1>1. 0 \in N
  <2> SUFFICES ASSUME NEW p \in Seq(A), Len(p) = 0 PROVE \E f : Selects(f, p, S)
    OBVIOUS
  <2>1. Selects([n \in 0 .. 0 |-> <<>>], p, S)
    BY DEF Selects
  <2> QED BY <2>1
<1>2. ASSUME NEW n \in N PROVE n + 1 \in N
  <2> SUFFICES ASSUME NEW p \in Seq(A), Len(p) = n + 1 PROVE \E f : Selects(f, p, S)
    OBVIOUS
  <2> DEFINE p0 == SubSeq(p, 1, n)
  <2>1. p0 \in Seq(A) /\ Len(p0) = n /\ p = Append(p0, p[n + 1]) /\ p[n + 1] \in A
    OBVIOUS
  <2>2. PICK f : Selects(f, p0, S)
    BY <2>1
  <2> HIDE DEF p0
  <2>3. \E g : Selects(g, Append(p0, p[n + 1]), S)
    BY <2>1, <2>2, SelectsStep
  <2> QED BY <2>1, <2>3
<1>3. Nat \subseteq N
  <2> HIDE DEF N
  <2> QED BY <1>1, <1>2, SetInduction
<1> QED
  BY <1>3

LEMMA SelectsUnique ==
  ASSUME NEW A, NEW S, NEW q \in Seq(A), NEW f, NEW g, Selects(f, q, S), Selects(g, q, S)
  PROVE  f[Len(q)] = g[Len(q)]
<1> DEFINE N == {n \in Nat : n <= Len(q) => f[n] = g[n]}
<1>0. /\ \A n \in 0 .. Len(q) : f[n] = IF n = 0 THEN <<>>
                               ELSE IF q[n] \in S THEN Append(f[n - 1], q[n]) ELSE f[n - 1]
      /\ \A n \in 0 .. Len(q) : g[n] = IF n = 0 THEN <<>>
                               ELSE IF q[n] \in S THEN Append(g[n - 1], q[n]) ELSE g[n - 1]
  BY DEF Selects
<1>1. 0 \in N
  BY <1>0
<1>2. ASSUME NEW n \in N PROVE n + 1 \in N
  <2> SUFFICES ASSUME n + 1 <= Len(q) PROVE f[n + 1] = g[n + 1]
    OBVIOUS
  <2>1. n + 1 \in 0 .. Len(q) /\ n + 1 # 0 /\ (n + 1) - 1 = n /\ f[n] = g[n]
    OBVIOUS
  <2> QED BY <1>0, <2>1
<1>3. Nat \subseteq N
  <2> HIDE DEF N
  <2> QED BY <1>1, <1>2, SetInduction
<1> QED
  BY <1>3

LEMMA OnlySelects ==
  ASSUME NEW A, NEW S, NEW q \in Seq(A), NEW f, Selects(f, q, S)
  PROVE  Only(q, S) = f[Len(q)]
<1> DEFINE g == CHOOSE h : Selects(h, q, S)
<1>1. Selects(g, q, S)
  OBVIOUS
<1>2. Only(q, S) = g[Len(q)]
  BY DEF Only, Selects
<1> QED
  BY <1>1, <1>2, SelectsUnique

\* Only, one message at a time.
LEMMA OnlyEmpty == \A S : Only(<<>>, S) = <<>>
<1> TAKE S
<1>1. Selects([n \in 0 .. 0 |-> <<>>], <<>>, S) /\ <<>> \in Seq({})
  BY DEF Selects
<1>2. Only(<<>>, S) = [n \in 0 .. 0 |-> <<>>][Len(<<>>)]
  BY ONLY <1>1, OnlySelects
<1> QED
  BY <1>2

LEMMA OnlyAppend ==
  ASSUME NEW A, NEW S, NEW q \in Seq(A), NEW m \in A
  PROVE  Only(Append(q, m), S) = IF m \in S THEN Append(Only(q, S), m) ELSE Only(q, S)
<1>1. PICK f : Selects(f, q, S)
  BY SelectsExists
<1> DEFINE a == IF m \in S THEN Append(f[Len(q)], m) ELSE f[Len(q)]
           g == [n \in 0 .. Len(q) + 1 |-> IF n <= Len(q) THEN f[n] ELSE a]
<1>2. Selects(g, Append(q, m), S)
  BY <1>1, SelectsStep
<1>3. Only(q, S) = f[Len(q)]
  BY <1>1, OnlySelects
<1>4. Append(q, m) \in Seq(A) /\ Len(Append(q, m)) = Len(q) + 1 /\ Len(q) \in Nat
  OBVIOUS
<1>5. g[Len(q) + 1] = a
  BY <1>4
<1> HIDE DEF g
<1>6. Only(Append(q, m), S) = g[Len(Append(q, m))]
  BY <1>2, <1>4, OnlySelects
<1> QED
  BY <1>3, <1>4, <1>5, <1>6

LEMMA OnlyOne ==
  ASSUME NEW S, NEW m
  PROVE  Only(<<m>>, S) = IF m \in S THEN <<m>> ELSE <<>>
<1>1. <<>> \in Seq({m}) /\ m \in {m} /\ Append(<<>>, m) = <<m>>
  OBVIOUS
<1>2. Only(Append(<<>>, m), S) = IF m \in S THEN Append(Only(<<>>, S), m) ELSE Only(<<>>, S)
  BY <1>1, OnlyAppend
<1> QED
  BY <1>1, <1>2, OnlyEmpty

\* An induction over the length of a sequence of elements of A.
LEMMA SeqInduction ==
  ASSUME NEW A, NEW Good, <<>> \in Good,
         \A q \in Seq(A), m \in A : q \in Good => Append(q, m) \in Good
  PROVE  Seq(A) \subseteq Good
<1> DEFINE N == {n \in Nat : \A q \in Seq(A) : Len(q) = n => q \in Good}
<1>1. 0 \in N
  OBVIOUS
<1>2. ASSUME NEW n \in N PROVE n + 1 \in N
  <2> SUFFICES ASSUME NEW q \in Seq(A), Len(q) = n + 1 PROVE q \in Good
    OBVIOUS
  <2> DEFINE p == SubSeq(q, 1, n)
  <2>1. p \in Seq(A) /\ Len(p) = n /\ q = Append(p, q[n + 1]) /\ q[n + 1] \in A
    OBVIOUS
  <2> QED BY <2>1
<1>3. Nat \subseteq N
  <2> HIDE DEF N
  <2> QED BY <1>1, <1>2, SetInduction
<1> QED
  BY <1>3

LEMMA OnlyType ==
  ASSUME NEW A, NEW S, NEW q \in Seq(A)
  PROVE  Only(q, S) \in Seq(A \cap S)
<1> DEFINE Good == {p \in Seq(A) : Only(p, S) \in Seq(A \cap S)}
<1>1. <<>> \in Good
  <2>1. Only(<<>>, S) = <<>>
    BY OnlyEmpty
  <2>2. <<>> \in Seq(A) /\ <<>> \in Seq(A \cap S)
    OBVIOUS
  <2> QED BY <2>1, <2>2
<1>2. ASSUME NEW p \in Seq(A), NEW m \in A, p \in Good PROVE Append(p, m) \in Good
  <2>1. Only(p, S) \in Seq(A \cap S) /\ Append(p, m) \in Seq(A)
    BY <1>2
  <2>2. Only(Append(p, m), S) = IF m \in S THEN Append(Only(p, S), m) ELSE Only(p, S)
    BY ONLY p \in Seq(A), m \in A, OnlyAppend
  <2>3. Only(Append(p, m), S) \in Seq(A \cap S)
    BY <2>1, <2>2
  <2> QED BY <2>1, <2>3
<1>3. Seq(A) \subseteq Good
  <2> HIDE DEF Good
  <2> QED BY <1>1, <1>2, SeqInduction
<1> QED
  BY <1>3

LEMMA OnlyConcat ==
  ASSUME NEW A, NEW S, NEW p \in Seq(A), NEW q \in Seq(A)
  PROVE  Only(p \o q, S) = Only(p, S) \o Only(q, S)
<1> DEFINE Good == {r \in Seq(A) : Only(p \o r, S) = Only(p, S) \o Only(r, S)}
<1>1. <<>> \in Good
  <2>1. p \o <<>> = p /\ Only(p, S) \in Seq(A \cap S)
    BY OnlyType
  <2> QED BY <2>1, OnlyEmpty
<1>2. ASSUME NEW r \in Seq(A), NEW m \in A, r \in Good PROVE Append(r, m) \in Good
  <2>1. /\ p \o Append(r, m) = Append(p \o r, m) /\ p \o r \in Seq(A)
        /\ Only(p, S) \in Seq(A \cap S) /\ Only(r, S) \in Seq(A \cap S)
    BY OnlyType
  <2>2. Only(p \o r, S) = Only(p, S) \o Only(r, S)
    BY <1>2
  <2>3. Only(p \o Append(r, m), S) = Only(p, S) \o Only(Append(r, m), S)
    <3>1. Only(Append(r, m), S) = IF m \in S THEN Append(Only(r, S), m) ELSE Only(r, S)
      BY ONLY r \in Seq(A), m \in A, OnlyAppend
    <3>2. Only(Append(p \o r, m), S)
            = IF m \in S THEN Append(Only(p \o r, S), m) ELSE Only(p \o r, S)
      <4> DEFINE pr == p \o r
      <4>1. pr \in Seq(A)
        BY <2>1
      <4> HIDE DEF pr
      <4>2. Only(Append(pr, m), S) = IF m \in S THEN Append(Only(pr, S), m) ELSE Only(pr, S)
        BY ONLY <4>1, m \in A, OnlyAppend
      <4> QED BY <4>2 DEF pr
    <3> QED BY <2>1, <2>2, <3>1, <3>2
  <2> QED BY <2>3
<1>3. Seq(A) \subseteq Good
  <2> HIDE DEF Good
  <2> QED BY <1>1, <1>2, SeqInduction
<1> QED
  BY <1>3

-----------------------------------------------------------------------------
(* Least and greatest elements.                                             *)

LEMMA LeastExists ==
  ASSUME NEW S \in SUBSET Nat, S # {}
  PROVE  \E x \in S : \A y \in S : x <= y
<1> SUFFICES ASSUME \A x \in S : \E y \in S : y < x PROVE FALSE
  OBVIOUS
<1> DEFINE N == {n \in Nat : \A k \in 0 .. n : k \notin S}
<1>1. 0 \in N
  OBVIOUS
<1>2. ASSUME NEW n \in N PROVE n + 1 \in N
  OBVIOUS
<1>3. Nat \subseteq N
  <2> HIDE DEF N
  <2> QED BY <1>1, <1>2, SetInduction
<1>4. \A k \in S : k \in N /\ k \in 0 .. k
  BY <1>3
<1> QED
  BY <1>4

LEMMA GreatestExists ==
  ASSUME NEW b \in Nat, NEW S \in SUBSET (0 .. b), S # {}
  PROVE  \E x \in S : \A y \in S : x >= y
<1> DEFINE T == {b - x : x \in S}
<1>1. PICK z \in T : \A y \in T : z <= y
  <2>1. PICK x \in S : x \in 0 .. b
    OBVIOUS
  <2>2. b - x \in T
    OBVIOUS
  <2>3. \A y \in S : b - y \in Nat
    OBVIOUS
  <2>4. T \in SUBSET Nat
    BY <2>3
  <2> HIDE DEF T
  <2> QED BY <2>2, <2>4, LeastExists
<1>2. PICK x \in S : z = b - x
  OBVIOUS
<1>3. \A y \in S : b - y \in T /\ z <= b - y
  BY <1>1
<1> QED
  BY <1>2, <1>3
=============================================================================
