---------------------------- MODULE MCWorkGraph ------------------------------
(***************************************************************************)
(* Graphs for WorkGraph, wired as the crate's users wire them.             *)
(***************************************************************************)
EXTENDS WorkGraph

\* What the outside does to a graph.
Run(g, kinds, most, keeps, leaves, fails) ==
  Wired(g) @@ [kinds |-> kinds, most |-> most, keeps |-> keeps, leaves |-> leaves, fails |-> fails,
               flushes |-> \E x \in Parts(g) : g.kind[x] = "io" /\ Cardinality(Lent(g)) = 1
                                              /\ Len(g.bound[x]) = 1]

\* Two lines own into a bounded one, which ends in a tee: a.via(c), b.via(c).
Merge ==
  LET c  == Line(NewGraph, "c", 1)
      ab == Line(Line(c, "a", 0), "b", 0)
      w  == Writer(Writer(ab, "w1", "a", 1), "w2", "b", 1)
      v  == Via(Via(w, "a", 1, "c", 1), "b", 1, "c", 1)
  IN  Stream(Tee(v, "c", 1, "r1"), "c", "t1")

\* Three parents that take turns.
Merge3 ==
  LET n == Line(Line(Line(Line(NewGraph, "d", 1), "a", 0), "b", 0), "c", 0)
      w == Writer(Writer(Writer(n, "w1", "a", 1), "w2", "b", 1), "w3", "c", 1)
      v == Via(Via(Via(w, "a", 1, "d", 1), "b", 1, "d", 1), "c", 1, "d", 1)
  IN  Stream(Tee(v, "d", 1, "r1"), "d", "t1")

\* A biunion owns a parent on each side, one of them by a side path.
Join ==
  LET n == Biunion(Line(Line(NewGraph, "a", 0), "b", 0), "c", 1, 1)
      w == Writer(Writer(n, "w1", "a", 1), "w2", "b", 1)
      v == Schedules(Pushes(Via(w, "a", 1, "c", 1), "b", 1, "c", 2), "c", 2, "b")
  IN  Stream(Tee(v, "c", 1, "r1"), "c", "t1")

\* A pull chain fans out: into its owner, then into a line on another thread.
Fan ==
  LET n == Line(Line(Pulled(NewGraph, "a", 0), "b", 1), "c", 1)
      w == Writer(n, "w1", "a", 1)
      v == Pushes(Via(w, "a", 1, "c", 1), "a", 1, "b", 1)
  IN  Stream(Stream(Tee(Tee(v, "b", 1, "r1"), "c", 1, "r2"), "c", "t1"), "b", "t2")

\* A bifurcation feeds its owner, and a biunion on another thread.
Split ==
  LET n == Biunion(Line(Bifurcation(NewGraph, "a", 0), "b", 1), "c", 1, 0)
      w == Writer(Writer(n, "w1", "a", 1), "w2", "c", 2)
      v == Via(Pushes(w, "a", 2, "c", 1), "a", 1, "b", 1)
  IN  Stream(Stream(Tee(Tee(v, "b", 1, "r1"), "c", 1, "r2"), "b", "t1"), "c", "t2")

\* Data circles from the bifurcation's left side into the biunion it owns.
Loop ==
  LET n == Bifurcation(Biunion(NewGraph, "a", 0, 0), "b", 0)
      v == Via(Pushes(n, "b", 1, "a", 1), "a", 1, "b", 1)
  IN  LineIo(v, "t1", "b", 2, "w1", "a", 2)

\* The same with a line: its writer and the loop share one input.
LineLoop ==
  LET n == Bifurcation(Line(NewGraph, "a", 0), "b", 0)
      v == Via(Pushes(n, "b", 1, "a", 1), "a", 1, "b", 1)
  IN  LineIo(v, "t1", "b", 2, "w1", "a", 1)

\* A biunion with a parent, written on both sides.
Pair ==
  LET n == Line(Biunion(NewGraph, "c", 1, 0), "a", 0)
  IN  BiunionIo(Via(n, "a", 1, "c", 1), "t1", "c", <<"w1", "a", 1>>, <<"w2", "c", 2>>)

\* A bifurcation with a parent, read on both sides.
Halves ==
  LET n == Line(Bifurcation(NewGraph, "b", 1), "a", 0)
  IN  BifurcationIo(Via(n, "a", 1, "b", 1), "t1", "b", "w1", "a", 1)

W(x, y, z) == [w1 |-> x, w2 |-> y, w3 |-> z]
ABC == {"a", "b", "c"}
AllGraphs ==
  {Run(Merge, {"data", "flush"}, W(2, 2, 0), ABC, FALSE, FALSE),
   Run(Merge3, {"data"}, W(2, 2, 2), {}, FALSE, FALSE),
   Run(Join, {"data", "flush"}, W(2, 2, 0), ABC, FALSE, FALSE),
   Run(Fan, {"data", "flush"}, W(3, 0, 0), {"a"}, FALSE, FALSE),
   Run(Fan, {"data", "flush"}, W(2, 0, 0), {"a"}, TRUE, TRUE),
   Run(Split, {"data", "flush"}, W(2, 0, 0), {"a"}, FALSE, FALSE),
   Run(Split, {"data", "flush"}, W(1, 1, 0), {"a"}, FALSE, FALSE),
   Run(Loop, {"data", "flush", "marker"}, W(4, 0, 0), ABC, FALSE, FALSE),
   Run(Pair, {"data", "flush", "marker"}, W(3, 3, 0), ABC, FALSE, FALSE),
   Run(Halves, {"data", "flush", "marker"}, W(5, 0, 0), ABC, FALSE, FALSE),
   Run(LineLoop, {"data", "flush", "marker"}, W(4, 0, 0), ABC, FALSE, FALSE)}
=============================================================================
