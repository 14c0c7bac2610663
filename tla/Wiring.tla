------------------------------- MODULE Wiring --------------------------------
(***************************************************************************)
(* How a work graph is put together before it runs: nodes with the bounds  *)
(* of their inputs, edges added in the order the calls are made, upstreams *)
(* moved into the node that will work them, roots moved onto threads.  A   *)
(* graph is a record of functions over its parts:                          *)
(*   kind[x]   what x is                                                   *)
(*   bound[x]  per input of x, the bound of its edge, 0 for unbounded      *)
(*   outs[x]   per output side of x, the edges it pushes into, in order    *)
(*   owns[x]   per input of x, the parts x works, in order                 *)
(* An input is <<x, p>>: input p of x.                                     *)
(***************************************************************************)
EXTENDS Naturals, Sequences, TLC, SequencesExt

NewGraph == [kind |-> <<>>, bound |-> <<>>, outs |-> <<>>, owns |-> <<>>]

Parts(g) == DOMAIN g.kind

Place(g, x, kind, bounds, sides, owners) ==
  [kind  |-> g.kind @@ (x :> kind),
   bound |-> g.bound @@ (x :> bounds),
   outs  |-> g.outs @@ (x :> [s \in 1 .. sides |-> <<>>]),
   owns  |-> g.owns @@ (x :> [p \in 1 .. owners |-> <<>>])]

Line(g, x, bound) == Place(g, x, "line", <<bound>>, 1, 1)
Biunion(g, x, left, right) == Place(g, x, "biunion", <<left, right>>, 1, 2)
Bifurcation(g, x, bound) == Place(g, x, "bifurcation", <<bound>>, 2, 1)

\* A pull chain as a work node: its WriterBuffer is the one input it has.
Pulled(g, x, bound) == Place(g, x, "pulled", <<bound>>, 1, 1)

Outlet(g, up, side, to, follows) ==
  [g EXCEPT !.outs[up][side] = Append(@, [to |-> to, follows |-> follows])]

\* The owning edge: `up` feeds input p of `down`, which works it from then on.
Via(g, up, side, down, p) ==
  [Outlet(g, up, side, <<down, p>>, FALSE) EXCEPT !.owns[down][p] = Append(@, up)]

\* The side path: an edge whose signals follow data.
Pushes(g, up, side, down, p) == Outlet(g, up, side, <<down, p>>, TRUE)

\* The schedule-only edge.
Schedules(g, down, p, up) == [g EXCEPT !.owns[down][p] = Append(@, up)]

Writer(g, w, x, p) == Outlet(Place(g, w, "writer", <<>>, 1, 0), w, 1, <<x, p>>, FALSE)

Tee(g, x, side, r) == Outlet(Place(g, r, "tee", <<0>>, 0, 0), x, side, <<r, 1>>, FALSE)

\* A root on a thread of its own.
Stream(g, x, t) == Schedules(Place(g, t, "stream", <<>>, 0, 1), t, 1, x)

\* A writer that an Io of the kinds below holds.
Lends(g, w, x, p) == [Writer(g, w, x, p) EXCEPT !.kind[w] = "lent"]

\* A LineIo: a Reader, which owns the root whose side it reads, and a writer.
LineIo(g, t, root, side, w, x, p) ==
  Lends(Via(Place(g, t, "io", <<0>>, 0, 1), root, side, t, 1), w, x, p)

\* The same with a writer for each side of a biunion.
BiunionIo(g, t, root, left, right) ==
  Lends(LineIo(g, t, root, 1, left[1], left[2], left[3]), right[1], right[2], right[3])

\* A writer, a reader that tees from each side of the root, and the root to work.
BifurcationIo(g, t, root, w, x, p) ==
  LET owner == Schedules(Place(g, t, "io", <<0, 0>>, 0, 1), t, 1, root)
  IN  Lends(Outlet(Outlet(owner, root, 1, <<t, 1>>, FALSE), root, 2, <<t, 2>>, FALSE), w, x, p)
-----------------------------------------------------------------------------
(* What a graph's parts are to one another. *)

Inputs(g) == UNION {{<<x, p>> : p \in DOMAIN g.bound[x]} : x \in Parts(g)}
Outlets(g) == UNION {UNION {{<<x, s, k>> : k \in DOMAIN g.outs[x][s]} : s \in DOMAIN g.outs[x]}
                     : x \in Parts(g)}
Edge(g, o) == g.outs[o[1]][o[2]][o[3]]

Owned(g, x) == UNION {ToSet(g.owns[x][p]) : p \in DOMAIN g.owns[x]}

\* Each part with all it owns, and what those own.
Subtrees(g) ==
  LET tree[x \in Parts(g)] == {x} \cup UNION {tree[y] : y \in Owned(g, x)} IN tree

Nodes(g) == {x \in Parts(g) : g.kind[x] \in {"line", "biunion", "bifurcation", "pulled"}}
Threads(g) == {x \in Parts(g) : g.kind[x] \in {"stream", "io"}}
Writers(g) == {x \in Parts(g) : g.kind[x] = "writer"}
Lent(g) == {x \in Parts(g) : g.kind[x] = "lent"}
Tees(g) == {x \in Parts(g) : g.kind[x] = "tee"}

\* A finished graph, with what its structure says of it: who owns a part, what
\* drops with it, who feeds an input.
Wired(g) ==
  g @@ [owner   |-> [x \in UNION {Owned(g, y) : y \in Parts(g)} |->
                       CHOOSE y \in Parts(g) : x \in Owned(g, y)],
        tree    |-> Subtrees(g),
        feeders |-> [i \in Inputs(g) |-> {o[1] : o \in {u \in Outlets(g) : Edge(g, u).to = i}}]]
-----------------------------------------------------------------------------
(* What the calls make sure of. *)

\* Every edge leads from an output side to an input, and every side has one.
EdgesLead(g) ==
  /\ \A x \in Parts(g) : /\ g.bound[x] \in Seq(Nat)
                         /\ g.outs[x] \in Seq(Seq([to : Inputs(g), follows : BOOLEAN]))
  /\ \A x \in Nodes(g) : g.bound[x] # <<>> /\ (g.kind[x] # "biunion" => Len(g.bound[x]) = 1)
  /\ \A x \in Parts(g) : g.bound[x] # <<>> => x \in Nodes(g) \cup Tees(g) \/ g.kind[x] = "io"
  /\ \A x \in Nodes(g) \cup Writers(g) \cup Lent(g) :
       g.outs[x] # <<>> /\ \A s \in DOMAIN g.outs[x] : g.outs[x][s] # <<>>
  /\ \A x \in Threads(g) \cup Tees(g) : g.outs[x] = <<>>

\* An upstream moves into its owner: a node is owned once, and not by itself.
OwnedOnce(g) ==
  /\ \A y \in Parts(g) : /\ g.owns[y] \in Seq(Seq(Nodes(g))) /\ y \notin Owned(g, y)
                          /\ \A x \in Owned(g, y) : g.owner[x] = y
  /\ \A y \in Parts(g) : \A p, q \in DOMAIN g.owns[y] :
       \A i \in DOMAIN g.owns[y][p], j \in DOMAIN g.owns[y][q] :
         g.owns[y][p][i] = g.owns[y][q][j] => p = q /\ i = j
  /\ \A x \in Nodes(g) : g.owner[x] \in Nodes(g) \cup Threads(g) /\ x \in Owned(g, g.owner[x])

\* What a part owns drops with it, and nothing else does.  Every node ends up
\* on one thread, which a stream or an Io is.
TreesDrop(g) ==
  /\ \A x \in Parts(g) :
       /\ x \in g.tree[x] /\ g.tree[x] \subseteq Nodes(g) \cup {x}
       /\ g.tree[x] = {x} \cup UNION {g.tree[y] : y \in Owned(g, x)}
       /\ \A y \in g.tree[x] : Owned(g, y) \subseteq g.tree[x] /\ g.tree[y] \subseteq g.tree[x]
       /\ \A y \in g.tree[x] \ {x} : g.owner[y] \in g.tree[x]
  /\ \A x \in Nodes(g) : \E t \in Threads(g) : x \in g.tree[t]
  /\ \A t, u \in Threads(g) : g.tree[t] \cap g.tree[u] # {} => t = u

\* A thread works the roots of one list, an Io just one; no input of theirs is
\* bounded.
ThreadsWork(g) ==
  \A t \in Threads(g) :
    /\ Len(g.owns[t]) = 1 /\ (g.kind[t] = "io" => Len(g.owns[t][1]) = 1)
    /\ \A p \in DOMAIN g.bound[t] : g.bound[t][p] = 0

Shaped(g) ==
  /\ DOMAIN g.bound = Parts(g) /\ DOMAIN g.outs = Parts(g)
  /\ DOMAIN g.owns = Parts(g) /\ DOMAIN g.tree = Parts(g)
  /\ DOMAIN g.feeders = Inputs(g)
  /\ \A i \in Inputs(g) : g.feeders[i] = {o[1] : o \in {u \in Outlets(g) : Edge(g, u).to = i}}
  /\ EdgesLead(g) /\ OwnedOnce(g) /\ TreesDrop(g) /\ ThreadsWork(g)

(* work.rs: "Bound an input only when its producers are the node's own Via
   upstreams or run on other threads." *)
BoundedAsTold(g) ==
  \A t \in Threads(g) : \A o \in Outlets(g) :
    LET i == Edge(g, o).to
    IN  g.bound[i[1]][i[2]] # 0 /\ {o[1], i[1]} \subseteq g.tree[t] => o[1] \in Owned(g, i[1])
=============================================================================
