--------------------------- MODULE AfforestProofs ---------------------------
(***************************************************************************)
(* Theorems about Afforest for every set of graphs, every number of        *)
(* rounds, chunk size and set of threads.  The argument follows the trees  *)
(* of the label forest: a step either leaves every vertex in its tree or   *)
(* joins two trees that an edge connects, so that two vertices with one    *)
(* root never part again.  What a thread of Link holds is known up to the  *)
(* tree it is in, and each edge is in one tree, is still in a thread's     *)
(* share, or was skipped at an end that is in the tree of c.               *)
(***************************************************************************)
EXTENDS Afforest, LabelForestProofs

LinkPlaces == {"next", "edge", "readV", "while", "cas", "climb", "climb2", "readLow", "end"}

\* The root of each vertex; two vertices are in one tree when theirs agree.
Roots == [v \in Node |-> RootIn(comp, v)]
Same(x, y) == Roots[x] = Roots[y]

Typed ==
    /\ g \in Graphs /\ neighbor_rounds \in NeighborRounds
    /\ ForestType
    /\ r \in 0 .. neighbor_rounds
    /\ c \in Node \cup {NoLabel}
    /\ nbrs \in [Thread -> [out : SUBSET Node, in : SUBSET Node]]
    /\ p1 \in [Thread -> Node]
    /\ p2 \in [Thread -> Node]
    /\ p_high \in [Thread -> Node]

InComponent == \A n \in Node : comp[n] \in Component(g, n)

\* What a thread holds in the middle of Link(u, v): a label of the tree of u
\* and one of the tree of v, in either order.
LinkSound(t) ==
    /\ InIteration(t) => /\ nbrs[t].out \subseteq out_neigh(g, u[t])
                         /\ nbrs[t].in \subseteq in_neigh(g, u[t])
    /\ pc[t] \notin {"next", "edge", "end"} => nbrs[t] # NoNeighbors
    /\ pc[t] = "readV" => Same(p1[t], u[t])
    /\ pc[t] \in {"while", "cas", "climb", "climb2", "readLow"} =>
          \/ Same(p1[t], u[t]) /\ Same(p2[t], Neighbor(t))
          \/ Same(p2[t], u[t]) /\ Same(p1[t], Neighbor(t))
    /\ pc[t] \in {"cas", "climb", "climb2"} => p1[t] # p2[t]
    /\ pc[t] = "climb2" => Same(p_high[t], high(t))

\* Round i has linked the neighbour of rank i of every vertex that has one.
RoundDone(i) ==
    \A n \in Node : out_neigh_from(g, n, i) # {} => Same(n, Min(out_neigh_from(g, n, i)))

\* The vertex x and its outgoing neighbour y are still to be linked in this
\* region; and y with its incoming neighbour x.
LinkingOut(x, y) ==
    \E t \in Thread : \/ x \in todo[t]
                      \/ InIteration(t) /\ u[t] = x /\ y \in nbrs[t].out
LinkingIn(x, y) ==
    \E t \in Thread : \/ y \in todo[t]
                      \/ InIteration(t) /\ u[t] = y /\ x \in nbrs[t].in

\* The running round has linked it, or will.
SampleInv ==
    \A n \in Node : out_neigh_from(g, n, r) # {} =>
       LET v == Min(out_neigh_from(g, n, r)) IN Same(n, v) \/ LinkingOut(n, v)

\* The last phase has linked x with its outgoing neighbour y, will do so, or
\* has skipped x; and the same for the incoming neighbour x of y.
LinkInv ==
    /\ c \in Node
    /\ \A e \in g.edges :
          /\ Same(e[1], e[2]) \/ Same(e[1], c) \/ LinkingOut(e[1], e[2])
          /\ g.directed => Same(e[1], e[2]) \/ Same(e[2], c) \/ LinkingIn(e[1], e[2])

EdgesJoined == \A e \in g.edges : Same(e[1], e[2])

\* What every region of links keeps, and what a compress region keeps.
LinkBase ==
    /\ pc \in [Thread -> LinkPlaces]
    /\ SharesApart /\ SharesTaken
    /\ \A t \in Thread : LinkSound(t)

CompressBase ==
    /\ CompressInv
    /\ \A t \in Thread : pc[t] = "store" => Same(label[t], u[t])

\* What has been linked when.
Progress ==
    /\ \A i \in 0 .. (r - 1) : RoundDone(i)
    /\ phase = "sample" => r < neighbor_rounds /\ SampleInv
    /\ phase = "compress" => r < neighbor_rounds /\ RoundDone(r)
    /\ phase = "link" => r = neighbor_rounds /\ LinkInv
    /\ phase \in {"final", "done"} => EdgesJoined

IInv ==
    /\ Typed /\ Descends /\ InComponent
    /\ phase \in {"rounds", "sample", "compress", "link", "final", "done"}
    /\ Linking => LinkBase
    /\ Compressing => CompressBase
    /\ phase \in {"rounds", "done"} => Flat /\ pc = [t \in Thread |-> "end"]
    /\ Progress

-----------------------------------------------------------------------------
\* The graph and the two lists of an iteration.

\* What type correctness says of the graph the kernel runs on.
LEMMA GraphFacts ==
    ASSUME Typed
    PROVE  /\ IsGraph(g)
           /\ \A e \in g.edges : /\ e[1] \in Node /\ e[2] \in Node /\ e = <<e[1], e[2]>>
                                 /\ e[2] \in out_neigh(g, e[1]) /\ e[1] \in in_neigh(g, e[2])
           /\ \A x \in Node : \A y \in out_neigh(g, x) \cup in_neigh(g, x) :
                 y \in Node /\ Linked(g, x, y)
<1>1. IsGraph(g)
  BY GraphsAssumption DEF Typed
<1>2. \A e \in g.edges : e \in Node \X Node
  BY <1>1 DEF IsGraph
<1>3. \A e \in g.edges : e[1] \in Node /\ e[2] \in Node /\ e = <<e[1], e[2]>>
  BY <1>2
<1> QED BY <1>1, <1>3 DEF out_neigh, in_neigh, Linked

\* The neighbour that Link is called with, and the two labels it holds.
LEMMA LinkFacts ==
    ASSUME Typed, NEW t \in Thread
    PROVE  /\ high(t) \in Node /\ low(t) \in Node
           /\ p1[t] # p2[t] => low(t) < high(t)
           /\ \/ high(t) = p1[t] /\ low(t) = p2[t]
              \/ high(t) = p2[t] /\ low(t) = p1[t]
           /\ nbrs[t] # NoNeighbors =>
                 /\ Neighbor(t) \in Node
                 /\ Neighbor(t) \in nbrs[t].out \cup nbrs[t].in
<1>1. p1[t] \in Node /\ p2[t] \in Node /\ p1[t] \in Int /\ p2[t] \in Int
  BY NumNodesAssumption DEF Typed, Node
<1>2. /\ high(t) \in Node /\ low(t) \in Node
      /\ p1[t] # p2[t] => low(t) < high(t)
      /\ \/ high(t) = p1[t] /\ low(t) = p2[t]
         \/ high(t) = p2[t] /\ low(t) = p1[t]
  BY <1>1 DEF high, low
<1>3. ASSUME nbrs[t] # NoNeighbors
      PROVE  Neighbor(t) \in Node /\ Neighbor(t) \in nbrs[t].out \cup nbrs[t].in
  <2>1. /\ nbrs[t] = [out |-> nbrs[t].out, in |-> nbrs[t].in]
        /\ nbrs[t].out \in SUBSET Node /\ nbrs[t].in \in SUBSET Node
    BY DEF Typed
  <2>2. nbrs[t].out # {} \/ nbrs[t].in # {}
    BY <1>3, <2>1 DEF NoNeighbors, Neighbors
  <2>3. nbrs[t].out \in SUBSET Nat /\ nbrs[t].in \in SUBSET Nat
    BY <2>1, NodeNat
  <2> QED BY <2>1, <2>2, <2>3, MinNode DEF Neighbor
<1> QED BY <1>2, <1>3

\* What is left of the neighbours of an iteration after the one at hand.
LEMMA OthersFacts ==
    ASSUME Typed, NEW t \in Thread, nbrs[t] # NoNeighbors
    PROVE  /\ Others(nbrs[t]) \in [out : SUBSET Node, in : SUBSET Node]
           /\ Others(nbrs[t]).out \subseteq nbrs[t].out
           /\ Others(nbrs[t]).in \subseteq nbrs[t].in
           /\ \A y \in nbrs[t].out : y \in Others(nbrs[t]).out \/ y = Neighbor(t)
           /\ \A y \in nbrs[t].in : y \in Others(nbrs[t]).in \/ y = Neighbor(t)
<1>1. nbrs[t].out \in SUBSET Node /\ nbrs[t].in \in SUBSET Node
  BY DEF Typed
<1> QED BY <1>1 DEF Others, Neighbor, Neighbors

\* The outgoing list from an index on is a part of the list.
LEMMA FromFacts ==
    ASSUME Typed, NEW n \in Node, NEW i
    PROVE  /\ out_neigh_from(g, n, i) \in SUBSET Node
           /\ out_neigh_from(g, n, i) \subseteq out_neigh(g, n)
           /\ out_neigh_from(g, n, i) # {} =>
                 Min(out_neigh_from(g, n, i)) \in out_neigh_from(g, n, i)
<1>1. out_neigh_from(g, n, i) \subseteq out_neigh(g, n) /\ out_neigh(g, n) \subseteq Node
  BY DEF out_neigh_from, out_neigh
<1> QED BY <1>1, NodeNat, MinNode

\* What the last phase leaves out of the outgoing list was linked in a round:
\* the neighbour of rank i is the first of those round i looks at.
LEMMA LeftOutWasSampled ==
    ASSUME Typed, NEW n \in Node, NEW k \in Nat,
           NEW y \in out_neigh(g, n), y \notin out_neigh_from(g, n, k)
    PROVE  \E i \in 0 .. (k - 1) : /\ out_neigh_from(g, n, i) # {}
                                   /\ y = Min(out_neigh_from(g, n, i))
<1> DEFINE below(z) == {w \in out_neigh(g, n) : w < z}
           i == Cardinality(below(y))
           from == out_neigh_from(g, n, i)
<1>1. out_neigh(g, n) \in SUBSET Node /\ out_neigh(g, n) \in SUBSET Nat
  BY NodeNat DEF out_neigh
<1>2. \A z : below(z) \subseteq Node
  BY <1>1
<1>3. \A z : IsFiniteSet(below(z))
  BY <1>2, NodeFinite, FS_Subset
<1>4. i \in Nat
  BY <1>3, FS_CardinalityType
<1>5. i < k
  BY <1>4 DEF out_neigh_from
<1>6. y \in from
  BY <1>4 DEF out_neigh_from
<1>7. from \in SUBSET Nat
  BY <1>1 DEF out_neigh_from
<1>8. Min(from) \in from /\ Min(from) <= y
  BY <1>6, <1>7, MinNode
<1>9. Min(from) = y
  <2> SUFFICES ASSUME Min(from) # y PROVE FALSE
    OBVIOUS
  <2>1. Min(from) \in Nat /\ y \in Nat /\ Min(from) \in out_neigh(g, n)
    BY <1>1, <1>7, <1>8 DEF out_neigh_from
  <2>2. Min(from) < y
    BY <1>8, <2>1
  <2>3. below(Min(from)) \subseteq below(y)
    BY <1>1, <2>1, <2>2
  <2>4. Min(from) \in below(y) /\ Min(from) \notin below(Min(from))
    BY <2>1, <2>2
  <2>5. /\ Cardinality(below(Min(from))) <= Cardinality(below(y))
        /\ Cardinality(below(Min(from))) # Cardinality(below(y))
    <3> HIDE DEF below
    <3> QED BY <1>3, <2>3, <2>4, FS_Subset
  <2>6. Cardinality(below(Min(from))) >= i
    BY <1>8 DEF out_neigh_from
  <2>7. Cardinality(below(Min(from))) \in Nat
    BY <1>3, FS_CardinalityType
  <2> QED BY <1>4, <2>5, <2>6, <2>7
<1> QED BY <1>4, <1>5, <1>6, <1>9

-----------------------------------------------------------------------------
\* Roots before and after a step.

\* The roots of a forest of labels: each is below the vertices of its tree,
\* and a label is in the tree of its vertex.
LEMMA RootsNow ==
    ASSUME Typed, Descends
    PROVE  /\ Labels(comp)
           /\ \A v \in Node : /\ Roots[v] = RootIn(comp, v) /\ Roots[v] \in Node
                              /\ Roots[v] <= v
                              /\ Roots[comp[v]] = Roots[v]
                              /\ comp[v] = v => Roots[v] = v
                              /\ Roots[Roots[v]] = Roots[v]
<1>1. Labels(comp)
  BY DEF Labels, Typed, ForestType, Descends
<1>2. \A v \in Node : /\ comp[v] \in Node
                      /\ RootIn(comp, v) \in Node /\ RootIn(comp, v) <= v
                      /\ comp[RootIn(comp, v)] = RootIn(comp, v)
                      /\ comp[v] = v => RootIn(comp, v) = v
                      /\ RootIn(comp, comp[v]) = RootIn(comp, v)
  BY <1>1, RootFacts, RootOfLabel DEF Labels
<1>3. \A v \in Node : Roots[v] = RootIn(comp, v)
  BY DEF Roots
<1> QED BY <1>1, <1>2, <1>3

\* The trees lie within the components of the graph.
LEMMA SameComponent ==
    ASSUME Typed, Descends, InComponent, NEW x \in Node, NEW y \in Node, Same(x, y)
    PROVE  Component(g, x) = Component(g, y)
<1> DEFINE C == [n \in Node |-> Component(g, n)]
<1>1. IsGraph(g) /\ comp \in [Node -> Node]
  BY GraphFacts DEF Typed, ForestType
<1>2. \A n \in Node : C[comp[n]] = C[n]
  BY <1>1, ComponentClass DEF InComponent
<1>3. Labels(comp) /\ \A v \in Node : Roots[v] = RootIn(comp, v)
  BY RootsNow
<1>4. C[Roots[x]] = C[x] /\ C[Roots[y]] = C[y]
  <2> HIDE DEF C
  <2> QED BY <1>2, <1>3, RootInvariant
<1>5. C[x] = C[y]
  BY <1>4 DEF Same
<1> QED BY <1>5

\* No two trees part.
Joins == \A x, y \in Node : Same(x, y) => Roots'[x] = Roots'[y]

\* A successful compare-and-swap hangs the root n below l: the labels still
\* descend, and n's tree becomes part of l's, so that vertices of one tree
\* stay in one tree.
LEMMA LinkStores ==
    ASSUME Typed, Descends, InComponent,
           NEW n \in Node, NEW l \in Node, l < n, comp[n] = n,
           Component(g, l) = Component(g, n),
           g' = g, comp' = [comp EXCEPT ![n] = l]
    PROVE  /\ Descends' /\ InComponent'
           /\ comp' \in [Node -> Node]
           /\ \A v \in Node : Roots'[v] = IF Roots[v] = n THEN Roots[l] ELSE Roots[v]
           /\ Joins
           /\ \A v \in Node : comp'[v] <= comp[v]
<1>1. /\ Labels(comp)
      /\ \A v \in Node : Roots[v] = RootIn(comp, v)
  BY RootsNow
<1>2. /\ Labels(comp')
      /\ \A v \in Node : /\ RootIn(comp, v) = n => RootIn(comp', v) = RootIn(comp, l)
                         /\ RootIn(comp, v) # n => RootIn(comp', v) = RootIn(comp, v)
  <2>1. Moves(comp, comp', n, l)
    BY DEF Moves, Typed, ForestType
  <2> DEFINE h == comp'
             f == comp
  <2>2. Labels(f) /\ f[n] = n /\ Moves(f, h, n, l)
    BY <1>1, <2>1
  <2> HIDE DEF f, h
  <2>3. /\ Labels(h)
        /\ \A v \in Node : /\ RootIn(f, v) = n => RootIn(h, v) = RootIn(f, l)
                           /\ RootIn(f, v) # n => RootIn(h, v) = RootIn(f, v)
    BY <2>2, LinkJoinsRoots
  <2> QED BY <2>3 DEF f, h
<1>3. \A v \in Node : Roots'[v] = RootIn(comp', v)
  BY DEF Roots
<1>4. l \in Component(g, n)
  BY ComponentLeast, GraphFacts
<1>5. InComponent'
  BY <1>4 DEF InComponent, Typed, ForestType
<1>6. \A v \in Node : Roots'[v] = IF Roots[v] = n THEN Roots[l] ELSE Roots[v]
  BY <1>1, <1>2, <1>3
<1>7. \A v \in Node : comp'[v] <= comp[v]
  <2>1. \A v \in Node : comp[v] \in Node /\ comp'[v] = IF v = n THEN l ELSE comp[v]
    BY DEF Typed, ForestType
  <2>2. \A v \in Node : v \in Int
    BY NumNodesAssumption DEF Node
  <2> QED BY <2>1, <2>2
<1> QED BY <1>2, <1>5, <1>6, <1>7 DEF Labels, Descends, Joins, Same

\* The roots are a function of the labels.
LEMMA SameRoots == ASSUME comp' = comp PROVE Roots' = Roots
BY DEF Roots

\* A step that writes no label leaves the trees as they are.
LEMMA SameNow ==
    ASSUME Typed, Descends, InComponent, comp' = comp, g' = g
    PROVE  Descends' /\ InComponent' /\ Roots' = Roots /\ Joins
BY SameRoots DEF Descends, InComponent, Joins, Same

\* What a compress step writes keeps every vertex in its tree.
LEMMA CompressMoves ==
    ASSUME Typed, Descends, InComponent,
           NEW n \in Node, NEW l \in Node, l <= comp[n], comp[n] # n, Same(l, n),
           g' = g, comp' = [comp EXCEPT ![n] = l]
    PROVE  /\ InComponent' /\ Joins
           /\ \A v \in Node : Roots'[v] = Roots[v] /\ comp'[v] <= comp[v]
<1>1. /\ Labels(comp)
      /\ \A v \in Node : Roots[v] = RootIn(comp, v)
  BY RootsNow
<1>2. \A v \in Node : comp[v] \in Node /\ comp[v] <= v /\ v \in Int
  BY NumNodesAssumption DEF Typed, ForestType, Descends, Node
<1>3. l <= n /\ l # n
  BY <1>2
<1>4. \A v \in Node : Roots'[v] = RootIn(comp', v)
  BY DEF Roots
<1>5. \A v \in Node : RootIn(comp', v) = RootIn(comp, v)
  <2> DEFINE f == comp
             h == comp'
  <2>1. Moves(f, h, n, l) /\ Labels(f) /\ f[n] # n /\ RootIn(f, l) = RootIn(f, n)
    BY <1>1 DEF Moves, Typed, ForestType, Same
  <2> HIDE DEF f, h
  <2>2. \A v \in Node : RootIn(h, v) = RootIn(f, v)
    BY <1>3, <2>1, CompressKeepsRoots
  <2> QED BY <2>2 DEF f, h
<1>6. l \in Component(g, n)
  BY SameComponent, ComponentLeast, GraphFacts
<1>7. \A v \in Node : comp'[v] = IF v = n THEN l ELSE comp[v]
  BY DEF Typed, ForestType
<1>8. InComponent'
  BY <1>6, <1>7 DEF InComponent
<1>9. \A v \in Node : comp'[v] <= comp[v]
  BY <1>2, <1>7
<1>10. \A v \in Node : Roots'[v] = Roots[v]
  BY <1>1, <1>4, <1>5
<1>11. Joins
  BY <1>10 DEF Joins, Same
<1> QED BY <1>8, <1>9, <1>10, <1>11

-----------------------------------------------------------------------------
\* The steps of Link.  Each one keeps what every thread knows and forgets no
\* link that is still to be made.

NoLinkLost ==
    \A x, y \in Node :
       /\ LinkingOut(x, y) => LinkingOut(x, y)' \/ Roots'[x] = Roots'[y]
       /\ LinkingIn(x, y) => LinkingIn(x, y)' \/ Roots'[x] = Roots'[y]

LinkEffect ==
    Typed' /\ Descends' /\ InComponent' /\ LinkBase' /\ Joins /\ NoLinkLost

\* A thread may drop a neighbour that it has joined with its vertex.
LEMMA NothingForgotten ==
    ASSUME Typed, todo' = todo,
           \A s \in Thread : InIteration(s) /\ nbrs[s] # NoNeighbors =>
              /\ InIteration(s)' /\ u'[s] = u[s]
              /\ \/ nbrs'[s] = nbrs[s]
                 \/ /\ nbrs'[s] = Others(nbrs[s])
                    /\ Roots'[u[s]] = Roots'[Neighbor(s)]
    PROVE  NoLinkLost
<1> SUFFICES ASSUME NEW x \in Node, NEW y \in Node
             PROVE  /\ LinkingOut(x, y) => LinkingOut(x, y)' \/ Roots'[x] = Roots'[y]
                    /\ LinkingIn(x, y) => LinkingIn(x, y)' \/ Roots'[x] = Roots'[y]
  BY DEF NoLinkLost
<1>1. ASSUME NEW s \in Thread, \/ y \in nbrs[s].out
                               \/ x \in nbrs[s].in
      PROVE  nbrs[s] # NoNeighbors
  BY <1>1 DEF NoNeighbors, Neighbors
<1>2. ASSUME LinkingOut(x, y) PROVE LinkingOut(x, y)' \/ Roots'[x] = Roots'[y]
  <2>1. PICK s \in Thread : \/ x \in todo[s]
                            \/ InIteration(s) /\ u[s] = x /\ y \in nbrs[s].out
    BY <1>2 DEF LinkingOut
  <2>2. CASE x \in todo[s]
    BY <2>2 DEF LinkingOut
  <2>3. CASE InIteration(s) /\ u[s] = x /\ y \in nbrs[s].out
    <3>1. nbrs[s] # NoNeighbors
      BY <1>1, <2>3
    <3>2. InIteration(s)' /\ u'[s] = x
      BY <2>3, <3>1
    <3>3. y \in nbrs'[s].out \/ Roots'[x] = Roots'[y]
      BY <2>3, <3>1, OthersFacts
    <3> QED BY <3>2, <3>3 DEF LinkingOut
  <2> QED BY <2>1, <2>2, <2>3
<1>3. ASSUME LinkingIn(x, y) PROVE LinkingIn(x, y)' \/ Roots'[x] = Roots'[y]
  <2>1. PICK s \in Thread : \/ y \in todo[s]
                            \/ InIteration(s) /\ u[s] = y /\ x \in nbrs[s].in
    BY <1>3 DEF LinkingIn
  <2>2. CASE y \in todo[s]
    BY <2>2 DEF LinkingIn
  <2>3. CASE InIteration(s) /\ u[s] = y /\ x \in nbrs[s].in
    <3>1. nbrs[s] # NoNeighbors
      BY <1>1, <2>3
    <3>2. InIteration(s)' /\ u'[s] = y
      BY <2>3, <3>1
    <3>3. x \in nbrs'[s].in \/ Roots'[x] = Roots'[y]
      BY <2>3, <3>1, OthersFacts
    <3> QED BY <3>2, <3>3 DEF LinkingIn
  <2> QED BY <2>1, <2>2, <2>3
<1> QED BY <1>2, <1>3

\* What another thread knows stays true while trees only join.
LEMMA OthersSound ==
    ASSUME Typed, Joins, g' = g, NEW s \in Thread, LinkSound(s),
           pc'[s] = pc[s], u'[s] = u[s], nbrs'[s] = nbrs[s],
           p1'[s] = p1[s], p2'[s] = p2[s], p_high'[s] = p_high[s]
    PROVE  LinkSound(s)'
<1>1. /\ u[s] \in Node /\ p1[s] \in Node /\ p2[s] \in Node /\ p_high[s] \in Node
      /\ high(s) \in Node
      /\ nbrs[s] # NoNeighbors => Neighbor(s) \in Node
  BY LinkFacts DEF Typed, ForestType
<1>2. \A x, y \in Node : Same(x, y) => Roots'[x] = Roots'[y]
  BY DEF Joins
<1>3. Neighbor(s)' = Neighbor(s) /\ high(s)' = high(s) /\ InIteration(s)' = InIteration(s)
  BY DEF Neighbor, high, InIteration
<1>4. pc[s] \notin {"next", "edge", "end"} => nbrs[s] # NoNeighbors
  BY DEF LinkSound
<1>5. /\ InIteration(s)' => /\ nbrs'[s].out \subseteq out_neigh(g', u'[s])
                            /\ nbrs'[s].in \subseteq in_neigh(g', u'[s])
      /\ pc'[s] \notin {"next", "edge", "end"} => nbrs'[s] # NoNeighbors
      /\ pc'[s] \in {"cas", "climb", "climb2"} => p1'[s] # p2'[s]
  BY <1>3 DEF LinkSound
<1>6. pc[s] = "readV" => Roots'[p1[s]] = Roots'[u[s]]
  BY <1>1, <1>2 DEF LinkSound
<1>7. pc[s] \in {"while", "cas", "climb", "climb2", "readLow"} =>
          \/ Roots'[p1[s]] = Roots'[u[s]] /\ Roots'[p2[s]] = Roots'[Neighbor(s)]
          \/ Roots'[p2[s]] = Roots'[u[s]] /\ Roots'[p1[s]] = Roots'[Neighbor(s)]
  BY <1>1, <1>2, <1>4 DEF LinkSound
<1>8. pc[s] = "climb2" => Roots'[p_high[s]] = Roots'[high(s)]
  BY <1>1, <1>2 DEF LinkSound
<1> QED BY <1>3, <1>5, <1>6, <1>7, <1>8 DEF LinkSound, Same

\* A step within Link that changes nothing but the thread's place and locals.
LEMMA LinkMoves ==
    ASSUME Typed, Descends, InComponent, LinkBase, NEW t \in Thread,
           InIteration(t), InIteration(t)', pc' \in [Thread -> LinkPlaces],
           UNCHANGED <<serial, comp, todo, u, label, nbrs>>,
           p1' \in [Thread -> Node], p2' \in [Thread -> Node], p_high' \in [Thread -> Node],
           \A s \in Thread : s # t => /\ pc'[s] = pc[s] /\ p1'[s] = p1[s]
                                      /\ p2'[s] = p2[s] /\ p_high'[s] = p_high[s],
           LinkSound(t)'
    PROVE  LinkEffect
<1>1. /\ g' = g /\ neighbor_rounds' = neighbor_rounds /\ r' = r /\ c' = c
      /\ comp' = comp /\ todo' = todo /\ u' = u /\ label' = label /\ nbrs' = nbrs
  BY DEF serial, args
<1>2. Descends' /\ InComponent' /\ Joins
  BY <1>1, SameNow
<1>3. SharesApart' /\ SharesTaken'
  BY <1>1, SharesMove DEF Typed, LinkBase
<1>4. \A s \in Thread : LinkSound(s)'
  BY <1>1, <1>2, OthersSound DEF LinkBase
<1>5. NoLinkLost
  <2>1. \A s \in Thread : InIteration(s) => InIteration(s)'
    BY DEF InIteration
  <2> QED BY <1>1, <2>1, NothingForgotten
<1>6. Typed'
  BY <1>1 DEF Typed, ForestType
<1> QED BY <1>2, <1>3, <1>4, <1>5, <1>6 DEF LinkEffect, LinkBase

\* Link returns with its two vertices in one tree.
LEMMA LinkReturns ==
    ASSUME Typed, LinkBase, NEW t \in Thread,
           pc[t] \notin {"next", "edge", "end"}, Return(t),
           UNCHANGED <<serial, todo, u, label>>,
           comp' \in [Node -> Node], Descends', InComponent', Joins,
           Roots'[u[t]] = Roots'[Neighbor(t)]
    PROVE  LinkEffect
<1>1. /\ g' = g /\ neighbor_rounds' = neighbor_rounds /\ r' = r /\ c' = c
      /\ todo' = todo /\ u' = u /\ label' = label
      /\ nbrs' = [nbrs EXCEPT ![t] = Others(@)]
      /\ p1' = [p1 EXCEPT ![t] = 0] /\ p2' = [p2 EXCEPT ![t] = 0]
      /\ p_high' = [p_high EXCEPT ![t] = 0]
      /\ pc' = [pc EXCEPT ![t] = "edge"]
  BY DEF serial, args, Return, Goto
<1>2. LinkSound(t) /\ nbrs[t] # NoNeighbors
  BY DEF LinkBase, LinkSound
<1>3. /\ Others(nbrs[t]) \in [out : SUBSET Node, in : SUBSET Node]
      /\ Others(nbrs[t]).out \subseteq nbrs[t].out
      /\ Others(nbrs[t]).in \subseteq nbrs[t].in
  BY <1>2, OthersFacts
<1>4. /\ nbrs' \in [Thread -> [out : SUBSET Node, in : SUBSET Node]]
      /\ nbrs'[t] = Others(nbrs[t])
      /\ \A s \in Thread : s # t => nbrs'[s] = nbrs[s]
  BY <1>1, <1>3 DEF Typed
<1>5. /\ p1' \in [Thread -> Node] /\ p2' \in [Thread -> Node] /\ p_high' \in [Thread -> Node]
      /\ \A s \in Thread : s # t => p1'[s] = p1[s] /\ p2'[s] = p2[s] /\ p_high'[s] = p_high[s]
  BY <1>1, NodeNat DEF Typed
<1>6. /\ pc' \in [Thread -> LinkPlaces] /\ pc'[t] = "edge"
      /\ \A s \in Thread : s # t => pc'[s] = pc[s]
  BY <1>1 DEF LinkBase, LinkPlaces
<1>7. InIteration(t) /\ \A s \in Thread : InIteration(s)' <=> InIteration(s)
  BY <1>6 DEF InIteration
<1>8. Typed'
  BY <1>1, <1>4, <1>5 DEF Typed, ForestType
<1>9. SharesApart' /\ SharesTaken'
  BY <1>1, <1>6, <1>7, SharesMove DEF Typed, LinkBase
<1>10. LinkSound(t)'
  <2>1. nbrs[t].out \subseteq out_neigh(g, u[t]) /\ nbrs[t].in \subseteq in_neigh(g, u[t])
    BY <1>2, <1>7 DEF LinkSound
  <2> QED BY <1>1, <1>3, <1>4, <1>6, <2>1 DEF LinkSound
<1>11. \A s \in Thread : LinkSound(s)'
  BY <1>1, <1>4, <1>5, <1>6, <1>10, OthersSound DEF LinkBase
<1>12. NoLinkLost
  <2>1. \A s \in Thread : \/ nbrs'[s] = nbrs[s]
                          \/ /\ nbrs'[s] = Others(nbrs[s])
                             /\ Roots'[u[s]] = Roots'[Neighbor(s)]
    BY <1>4
  <2> QED BY <1>1, <1>7, <2>1, NothingForgotten
<1> QED BY <1>6, <1>8, <1>9, <1>11, <1>12 DEF LinkEffect, LinkBase

\* Leaving the iteration of a vertex, all its neighbours linked, keeps the
\* invariant of a linking loop.
LEMMA EndIterationKeeps ==
    ASSUME Typed, Descends, InComponent, LinkBase, NEW t \in Thread, EndIteration(t)
    PROVE  LinkEffect
<1>1. /\ pc[t] = "edge" /\ nbrs[t] = NoNeighbors
      /\ u' = [u EXCEPT ![t] = 0] /\ pc' = [pc EXCEPT ![t] = "next"]
      /\ g' = g /\ neighbor_rounds' = neighbor_rounds /\ r' = r /\ c' = c
      /\ comp' = comp /\ todo' = todo /\ label' = label
      /\ nbrs' = nbrs /\ p1' = p1 /\ p2' = p2 /\ p_high' = p_high
  BY DEF EndIteration, Goto, serial, args, locals
<1>2. /\ pc' \in [Thread -> LinkPlaces] /\ pc'[t] = "next"
      /\ \A s \in Thread : s # t => pc'[s] = pc[s]
  BY <1>1 DEF LinkBase, LinkPlaces
<1>3. InIteration(t) /\ \A s \in Thread : s # t => (InIteration(s)' <=> InIteration(s))
  BY <1>1, <1>2 DEF InIteration
<1>4. u' \in [Thread -> Node] /\ \A s \in Thread : s # t => u'[s] = u[s]
  BY <1>1, NodeNat DEF Typed, ForestType
<1>5. SharesApart' /\ SharesTaken'
  BY <1>1, <1>2, <1>3, <1>4, SharesEnd DEF LinkBase, Typed
<1>6. Typed'
  BY <1>1, <1>4 DEF Typed, ForestType
<1>7. Descends' /\ InComponent' /\ Joins
  BY <1>1, SameNow
<1>8. LinkSound(t)'
  BY <1>2 DEF LinkSound, InIteration
<1>9. \A s \in Thread : LinkSound(s)'
  BY <1>1, <1>2, <1>4, <1>7, <1>8, OthersSound DEF LinkBase
<1>10. NoLinkLost
  BY <1>1, <1>3, <1>4, NothingForgotten
<1> QED BY <1>2, <1>5, <1>6, <1>7, <1>9, <1>10 DEF LinkEffect, LinkBase

\* So does a thread that has no vertex left.
LEMMA LeaveKeeps ==
    ASSUME Typed, Descends, InComponent, LinkBase, NEW t \in Thread, LeaveLoop(t),
           UNCHANGED <<serial, locals>>
    PROVE  LinkEffect
<1>1. /\ pc[t] = "next" /\ todo[t] = {}
      /\ comp' = comp /\ todo' = todo /\ u' = u /\ label' = label
      /\ g' = g /\ neighbor_rounds' = neighbor_rounds /\ r' = r /\ c' = c
      /\ nbrs' = nbrs /\ p1' = p1 /\ p2' = p2 /\ p_high' = p_high
  BY DEF LeaveLoop, serial, args, locals
<1>2. /\ pc' \in [Thread -> LinkPlaces]
      /\ SharesApart' /\ SharesTaken'
      /\ pc'[t] = "end" /\ \A s \in Thread : s # t => pc'[s] = pc[s]
  <2>1. ForestType /\ SharesApart /\ SharesTaken /\ pc \in [Thread -> LinkPlaces]
    BY DEF LinkBase, Typed
  <2>2. "end" \in LinkPlaces
    BY DEF LinkPlaces
  <2> QED BY <2>1, <2>2, SharesLeave
<1>3. Typed' /\ Descends' /\ InComponent' /\ Joins
  BY <1>1, SameNow DEF Typed, ForestType
<1>4. LinkSound(t)'
  BY <1>2 DEF LinkSound, InIteration
<1>5. \A s \in Thread : LinkSound(s)'
  BY <1>1, <1>2, <1>3, <1>4, OthersSound DEF LinkBase
<1>6. NoLinkLost
  <2>1. \A s \in Thread : InIteration(s) => InIteration(s)'
    BY <1>1, <1>2 DEF InIteration
  <2> QED BY <1>1, <2>1, NothingForgotten
<1> QED BY <1>2, <1>3, <1>5, <1>6 DEF LinkEffect, LinkBase

\* Link's read of comp[u] keeps it.
LEMMA LinkReadUKeeps ==
    ASSUME Typed, Descends, InComponent, LinkBase, NEW t \in Thread, LinkReadU(t)
    PROVE  LinkEffect
<1>1. /\ pc[t] = "edge" /\ nbrs[t] # NoNeighbors
      /\ p1' = [p1 EXCEPT ![t] = comp[u[t]]] /\ pc' = [pc EXCEPT ![t] = "readV"]
      /\ UNCHANGED <<serial, comp, todo, u, label, nbrs, p2, p_high>>
  BY DEF LinkReadU, Goto
<1>2. /\ pc' \in [Thread -> LinkPlaces] /\ pc'[t] = "readV"
      /\ \A s \in Thread : s # t => pc'[s] = pc[s]
  BY <1>1 DEF LinkBase, LinkPlaces
<1>3. InIteration(t) /\ InIteration(t)'
  BY <1>1, <1>2 DEF InIteration
<1>4. /\ u[t] \in Node /\ comp[u[t]] \in Node /\ Roots[comp[u[t]]] = Roots[u[t]]
      /\ Roots' = Roots
  BY <1>1, RootsNow, SameNow DEF Typed, ForestType, serial, args
<1>5. /\ p1' \in [Thread -> Node] /\ p1'[t] = comp[u[t]]
      /\ \A s \in Thread : s # t => p1'[s] = p1[s]
  BY <1>1, <1>4 DEF Typed
<1>6. LinkSound(t)'
  <2>1. nbrs[t].out \subseteq out_neigh(g, u[t]) /\ nbrs[t].in \subseteq in_neigh(g, u[t])
    BY <1>3 DEF LinkBase, LinkSound
  <2>2. nbrs' = nbrs /\ u' = u /\ g' = g
    BY <1>1 DEF serial, args
  <2> QED BY <1>1, <1>2, <1>4, <1>5, <2>1, <2>2 DEF LinkSound, Same
<1>7. /\ UNCHANGED <<serial, comp, todo, u, label, nbrs>>
      /\ p2' \in [Thread -> Node] /\ p_high' \in [Thread -> Node] /\ p2' = p2 /\ p_high' = p_high
  BY <1>1 DEF Typed
<1> QED BY <1>2, <1>3, <1>5, <1>6, <1>7, LinkMoves

\* Link's read of comp[v] keeps it.
LEMMA LinkReadVKeeps ==
    ASSUME Typed, Descends, InComponent, LinkBase, NEW t \in Thread, LinkReadV(t)
    PROVE  LinkEffect
<1>1. /\ pc[t] = "readV"
      /\ p2' = [p2 EXCEPT ![t] = comp[Neighbor(t)]] /\ pc' = [pc EXCEPT ![t] = "while"]
      /\ UNCHANGED <<serial, comp, todo, u, label, nbrs, p1, p_high>>
  BY DEF LinkReadV, Goto
<1>2. /\ pc' \in [Thread -> LinkPlaces] /\ pc'[t] = "while"
      /\ \A s \in Thread : s # t => pc'[s] = pc[s]
  BY <1>1 DEF LinkBase, LinkPlaces
<1>3. InIteration(t) /\ InIteration(t)'
  BY <1>1, <1>2 DEF InIteration
<1>4. LinkSound(t) /\ nbrs[t] # NoNeighbors /\ Neighbor(t) \in Node
  BY <1>1, LinkFacts DEF LinkBase, LinkSound
<1>5. /\ comp[Neighbor(t)] \in Node /\ Roots[comp[Neighbor(t)]] = Roots[Neighbor(t)]
      /\ Roots' = Roots
  BY <1>1, <1>4, RootsNow, SameNow DEF Typed, ForestType, serial, args
<1>6. /\ p2' \in [Thread -> Node] /\ p2'[t] = comp[Neighbor(t)]
      /\ \A s \in Thread : s # t => p2'[s] = p2[s]
  BY <1>1, <1>5 DEF Typed
<1>7. LinkSound(t)'
  <2>1. /\ nbrs' = nbrs /\ u' = u /\ g' = g /\ p1' = p1
        /\ Neighbor(t)' = Neighbor(t)
    BY <1>1 DEF serial, args, Neighbor
  <2>2. /\ nbrs[t].out \subseteq out_neigh(g, u[t]) /\ nbrs[t].in \subseteq in_neigh(g, u[t])
        /\ Roots[p1[t]] = Roots[u[t]]
    BY <1>1, <1>3, <1>4 DEF LinkSound, Same
  <2> QED BY <1>2, <1>4, <1>5, <1>6, <2>1, <2>2 DEF LinkSound, Same
<1>8. /\ UNCHANGED <<serial, comp, todo, u, label, nbrs>>
      /\ p1' \in [Thread -> Node] /\ p_high' \in [Thread -> Node] /\ p1' = p1 /\ p_high' = p_high
  BY <1>1 DEF Typed
<1> QED BY <1>2, <1>3, <1>6, <1>7, <1>8, LinkMoves

\* The ends of the edge that Link is called with, and the labels it holds.
LEMMA LinkEnds ==
    ASSUME Typed, LinkBase, NEW t \in Thread,
           pc[t] \in {"while", "cas", "climb", "climb2", "readLow"}
    PROVE  /\ u[t] \in Node /\ Neighbor(t) \in Node
           /\ Linked(g, u[t], Neighbor(t))
           /\ nbrs[t] # NoNeighbors
           /\ nbrs[t].out \subseteq out_neigh(g, u[t])
           /\ nbrs[t].in \subseteq in_neigh(g, u[t])
           /\ \/ Same(high(t), u[t]) /\ Same(low(t), Neighbor(t))
              \/ Same(low(t), u[t]) /\ Same(high(t), Neighbor(t))
<1>1. LinkSound(t) /\ InIteration(t)
  BY DEF LinkBase, InIteration
<1>2. /\ nbrs[t] # NoNeighbors
      /\ nbrs[t].out \subseteq out_neigh(g, u[t]) /\ nbrs[t].in \subseteq in_neigh(g, u[t])
  BY <1>1 DEF LinkSound
<1>3. /\ Neighbor(t) \in Node /\ Neighbor(t) \in nbrs[t].out \cup nbrs[t].in
      /\ u[t] \in Node
  BY <1>2, LinkFacts DEF Typed, ForestType
<1>4. Linked(g, u[t], Neighbor(t))
  BY <1>2, <1>3, GraphFacts
<1>5. \/ Same(p1[t], u[t]) /\ Same(p2[t], Neighbor(t))
      \/ Same(p2[t], u[t]) /\ Same(p1[t], Neighbor(t))
  BY <1>1 DEF LinkSound
<1>6. \/ high(t) = p1[t] /\ low(t) = p2[t]
      \/ high(t) = p2[t] /\ low(t) = p1[t]
  BY LinkFacts
<1> QED BY <1>2, <1>3, <1>4, <1>5, <1>6

\* Link returns from its while loop with u and v in one tree.
LEMMA LinkDoneKeeps ==
    ASSUME Typed, Descends, InComponent, LinkBase, NEW t \in Thread, LinkDone(t)
    PROVE  LinkEffect
<1>1. /\ pc[t] = "while" /\ p1[t] = p2[t] /\ Return(t)
      /\ UNCHANGED <<serial, comp, todo, u, label>>
  BY DEF LinkDone
<1>2. Roots[u[t]] = Roots[Neighbor(t)]
  <2>1. \/ high(t) = p1[t] /\ low(t) = p2[t]
        \/ high(t) = p2[t] /\ low(t) = p1[t]
    BY LinkFacts
  <2> QED BY <1>1, <2>1, LinkEnds DEF Same
<1>3. Descends' /\ InComponent' /\ Joins /\ Roots' = Roots
  BY <1>1, SameNow DEF serial, args
<1>4. comp' \in [Node -> Node] /\ UNCHANGED <<serial, todo, u, label>>
  BY <1>1 DEF Typed, ForestType
<1> QED BY <1>1, <1>2, <1>3, <1>4, LinkReturns

\* The read of comp[high] keeps it, and Link returns from there only when
\* high is already below low.
LEMMA LinkReadHighKeeps ==
    ASSUME Typed, Descends, InComponent, LinkBase, NEW t \in Thread, LinkReadHigh(t)
    PROVE  LinkEffect
<1>1. /\ pc[t] = "while" /\ p1[t] # p2[t]
      /\ UNCHANGED <<serial, comp, todo, u, label>>
  BY DEF LinkReadHigh
<1>2. Descends' /\ InComponent' /\ Joins /\ Roots' = Roots
  BY <1>1, SameNow DEF serial, args
<1>3. comp' \in [Node -> Node] /\ UNCHANGED <<serial, todo, u, label>>
  BY <1>1 DEF Typed, ForestType
<1>4. CASE comp[high(t)] = low(t) /\ Return(t)
  <2>1. Roots[low(t)] = Roots[high(t)]
    BY <1>4, LinkFacts, RootsNow
  <2>2. Roots[u[t]] = Roots[Neighbor(t)]
    BY <1>1, <2>1, LinkEnds DEF Same
  <2> QED BY <1>1, <1>2, <1>3, <1>4, <2>2, LinkReturns
<1>5. CASE /\ UNCHANGED locals
           /\ Goto(t, IF comp[high(t)] = high(t) THEN "cas" ELSE "climb")
  <2>1. nbrs' = nbrs /\ p1' = p1 /\ p2' = p2 /\ p_high' = p_high /\ u' = u /\ g' = g
    BY <1>1, <1>5 DEF locals, serial, args
  <2>2. /\ pc' \in [Thread -> LinkPlaces] /\ pc'[t] \in {"cas", "climb"}
        /\ \A s \in Thread : s # t => pc'[s] = pc[s]
    BY <1>5 DEF LinkBase, LinkPlaces, Goto
  <2>3. InIteration(t) /\ InIteration(t)'
    BY <1>1, <2>2 DEF InIteration
  <2>4. LinkSound(t)'
    <3>1. /\ nbrs[t] # NoNeighbors
          /\ nbrs[t].out \subseteq out_neigh(g, u[t]) /\ nbrs[t].in \subseteq in_neigh(g, u[t])
      BY <1>1, LinkEnds
    <3>2. \/ Roots[p1[t]] = Roots[u[t]] /\ Roots[p2[t]] = Roots[Neighbor(t)]
          \/ Roots[p2[t]] = Roots[u[t]] /\ Roots[p1[t]] = Roots[Neighbor(t)]
      BY <1>1 DEF LinkBase, LinkSound, Same
    <3>3. Neighbor(t)' = Neighbor(t)
      BY <2>1 DEF Neighbor
    <3> QED BY <1>1, <1>2, <2>1, <2>2, <3>1, <3>2, <3>3 DEF LinkSound, Same
  <2>5. p1 \in [Thread -> Node] /\ p2 \in [Thread -> Node] /\ p_high \in [Thread -> Node]
    BY DEF Typed
  <2> QED BY <1>1, <2>1, <2>2, <2>3, <2>4, <2>5, LinkMoves
<1> QED BY <1>4, <1>5 DEF LinkReadHigh

\* A thread that goes on within Link without changing labels or vertices.
LEMMA LinkClimbs ==
    ASSUME Typed, Descends, InComponent, LinkBase, NEW t \in Thread,
           pc[t] \in {"cas", "climb", "climb2", "readLow"},
           pc'[t] \in {"while", "climb", "climb2", "readLow"},
           pc' = [pc EXCEPT ![t] = pc'[t]],
           UNCHANGED <<serial, comp, todo, u, label, nbrs>>,
           NEW q1 \in Node, p1' = [p1 EXCEPT ![t] = q1],
           NEW q2 \in Node, p2' = [p2 EXCEPT ![t] = q2],
           NEW qh \in Node, p_high' = [p_high EXCEPT ![t] = qh],
           \/ Same(q1, high(t)) /\ Same(q2, low(t))
           \/ Same(q1, low(t)) /\ Same(q2, high(t)),
           pc'[t] \in {"climb", "climb2"} => q1 # q2,
           pc'[t] = "climb2" => q1 = p1[t] /\ q2 = p2[t] /\ Same(qh, high(t))
    PROVE  LinkEffect
<1>1. /\ p1' \in [Thread -> Node] /\ p2' \in [Thread -> Node] /\ p_high' \in [Thread -> Node]
      /\ p1'[t] = q1 /\ p2'[t] = q2 /\ p_high'[t] = qh
      /\ \A s \in Thread : s # t => p1'[s] = p1[s] /\ p2'[s] = p2[s] /\ p_high'[s] = p_high[s]
  BY DEF Typed
<1>2. /\ pc' \in [Thread -> LinkPlaces]
      /\ \A s \in Thread : s # t => pc'[s] = pc[s]
  BY DEF LinkBase, LinkPlaces
<1>3. InIteration(t) /\ InIteration(t)'
  BY DEF InIteration
<1>4. Roots' = Roots /\ nbrs' = nbrs /\ u' = u /\ g' = g
  BY SameNow DEF serial, args
<1>5. /\ nbrs[t] # NoNeighbors
      /\ nbrs[t].out \subseteq out_neigh(g, u[t]) /\ nbrs[t].in \subseteq in_neigh(g, u[t])
      /\ \/ Roots[high(t)] = Roots[u[t]] /\ Roots[low(t)] = Roots[Neighbor(t)]
         \/ Roots[low(t)] = Roots[u[t]] /\ Roots[high(t)] = Roots[Neighbor(t)]
  BY LinkEnds DEF Same
<1>6. Neighbor(t)' = Neighbor(t)
  BY <1>4 DEF Neighbor
<1>7. pc'[t] = "climb2" => high(t)' = high(t)
  BY <1>1 DEF high
<1>8. LinkSound(t)'
  <2>1. \/ Roots[q1] = Roots[u[t]] /\ Roots[q2] = Roots[Neighbor(t)]
        \/ Roots[q2] = Roots[u[t]] /\ Roots[q1] = Roots[Neighbor(t)]
    BY <1>5 DEF Same
  <2> QED BY <1>1, <1>4, <1>5, <1>6, <1>7, <2>1 DEF LinkSound, Same
<1> QED BY <1>1, <1>2, <1>3, <1>8, LinkMoves

\* The compare_and_swap that succeeds.
LinkCasJoins(t) ==
    /\ comp[high(t)] = high(t) /\ low(t) < high(t)
    /\ comp' = [comp EXCEPT ![high(t)] = low(t)]
    /\ \A v \in Node :
          Roots'[v] = IF Roots[v] = high(t) THEN Roots[low(t)] ELSE Roots[v]

\* The compare-and-swap keeps it, won or lost; the one that wins joins two
\* trees of one component, and no label ever rises.
LEMMA LinkCasKeeps ==
    ASSUME Typed, Descends, InComponent, LinkBase, NEW t \in Thread, LinkCas(t)
    PROVE  /\ LinkEffect
           /\ \/ comp' = comp
              \/ LinkCasJoins(t)
           /\ \A v \in Node : comp'[v] <= comp[v]
<1>1. pc[t] = "cas" /\ UNCHANGED <<serial, todo, u, label>> /\ g' = g
  BY DEF LinkCas, serial, args
<1>2. /\ high(t) \in Node /\ low(t) \in Node
      /\ p1[t] # p2[t] => low(t) < high(t)
  BY LinkFacts
<1>3. p1[t] # p2[t]
  BY <1>1 DEF LinkBase, LinkSound
<1>4. CASE /\ comp[high(t)] = high(t)
           /\ comp' = [comp EXCEPT ![high(t)] = low(t)]
           /\ Return(t)
  <2> DEFINE h == high(t)
             l == low(t)
  <2>1. h \in Node /\ l \in Node /\ l < h /\ comp[h] = h /\ comp' = [comp EXCEPT ![h] = l]
    BY <1>2, <1>3, <1>4
  <2>2. /\ u[t] \in Node /\ Neighbor(t) \in Node
        /\ Linked(g, u[t], Neighbor(t))
        /\ \/ Same(h, u[t]) /\ Same(l, Neighbor(t))
           \/ Same(l, u[t]) /\ Same(h, Neighbor(t))
    BY <1>1, LinkEnds
  <2> HIDE DEF h, l
  <2>3. Component(g, l) = Component(g, h)
    <3>1. Component(g, u[t]) = Component(g, Neighbor(t))
      <4>1. IsGraph(g)
        BY GraphFacts
      <4>2. Neighbor(t) \in Component(g, u[t])
        BY <2>2, <4>1, ComponentLeast
      <4> QED BY <2>2, <4>1, <4>2, ComponentClass
    <3>2. CASE Same(h, u[t]) /\ Same(l, Neighbor(t))
      BY <2>1, <2>2, <3>1, <3>2, SameComponent
    <3>3. CASE Same(l, u[t]) /\ Same(h, Neighbor(t))
      BY <2>1, <2>2, <3>1, <3>3, SameComponent
    <3> QED BY <2>2, <3>2, <3>3
  <2>4. /\ Descends' /\ InComponent' /\ Joins
        /\ comp' \in [Node -> Node]
        /\ \A v \in Node : Roots'[v] = IF Roots[v] = h THEN Roots[l] ELSE Roots[v]
        /\ \A v \in Node : comp'[v] <= comp[v]
    BY <1>1, <2>1, <2>3, LinkStores
  <2>5. Roots[h] = h
    BY <2>1, RootsNow
  <2>6. Roots'[u[t]] = Roots'[Neighbor(t)]
    BY <2>2, <2>4, <2>5 DEF Same
  <2>7. LinkEffect
    BY <1>1, <1>4, <2>4, <2>6, LinkReturns
  <2>8. LinkCasJoins(t)
    BY <2>1, <2>4 DEF h, l, LinkCasJoins
  <2> QED BY <2>4, <2>7, <2>8
<1>5. CASE Goto(t, "climb") /\ UNCHANGED <<comp, locals>>
  <2>1. /\ nbrs' = nbrs /\ comp' = comp /\ pc' = [pc EXCEPT ![t] = "climb"]
        /\ p1' = p1 /\ p2' = p2 /\ p_high' = p_high
    BY <1>5 DEF locals, Goto
  <2>2. /\ p1[t] \in Node /\ p1' = [p1 EXCEPT ![t] = p1[t]]
        /\ p2[t] \in Node /\ p2' = [p2 EXCEPT ![t] = p2[t]]
        /\ p_high[t] \in Node /\ p_high' = [p_high EXCEPT ![t] = p_high[t]]
    BY <2>1 DEF Typed
  <2>3. pc'[t] = "climb"
    BY <2>1 DEF LinkBase
  <2>4. \/ Same(p1[t], high(t)) /\ Same(p2[t], low(t))
        \/ Same(p1[t], low(t)) /\ Same(p2[t], high(t))
    BY LinkFacts DEF Same
  <2>5. LinkEffect
    <3>1. UNCHANGED <<serial, comp, todo, u, label, nbrs>>
      BY <1>1, <2>1
    <3> DEFINE q1 == p1[t]
               q2 == p2[t]
               qh == p_high[t]
    <3>2. /\ q1 \in Node /\ p1' = [p1 EXCEPT ![t] = q1]
          /\ q2 \in Node /\ p2' = [p2 EXCEPT ![t] = q2]
          /\ qh \in Node /\ p_high' = [p_high EXCEPT ![t] = qh]
          /\ q1 # q2
          /\ \/ Same(q1, high(t)) /\ Same(q2, low(t))
             \/ Same(q1, low(t)) /\ Same(q2, high(t))
      BY <1>3, <2>2, <2>4
    <3>3. pc[t] = "cas" /\ pc'[t] = "climb" /\ pc' = [pc EXCEPT ![t] = pc'[t]]
      BY <1>1, <2>1, <2>3
    <3> HIDE DEF q1, q2, qh
    <3> QED BY <3>1, <3>2, <3>3, LinkClimbs
  <2>6. \A v \in Node : comp'[v] <= comp[v]
    <3>1. \A v \in Node : comp[v] \in Int
      BY NumNodesAssumption DEF Typed, ForestType, Node
    <3> QED BY <2>1, <3>1
  <2> QED BY <2>1, <2>5, <2>6
<1> QED BY <1>4, <1>5 DEF LinkCas

\* The read of comp[high] on the way up keeps it.
LEMMA LinkClimbHighKeeps ==
    ASSUME Typed, Descends, InComponent, LinkBase, NEW t \in Thread, LinkClimbHigh(t)
    PROVE  LinkEffect
<1>1. /\ pc[t] = "climb" /\ pc' = [pc EXCEPT ![t] = "climb2"]
      /\ p_high' = [p_high EXCEPT ![t] = comp[high(t)]] /\ p1' = p1 /\ p2' = p2
      /\ UNCHANGED <<serial, comp, todo, u, label, nbrs>>
  BY DEF LinkClimbHigh, Goto
<1>2. /\ high(t) \in Node
      /\ \/ high(t) = p1[t] /\ low(t) = p2[t]
         \/ high(t) = p2[t] /\ low(t) = p1[t]
  BY LinkFacts
<1>3. comp[high(t)] \in Node /\ Same(comp[high(t)], high(t))
  BY <1>2, RootsNow DEF Typed, ForestType, Same
<1>4. /\ p1[t] \in Node /\ p1' = [p1 EXCEPT ![t] = p1[t]]
      /\ p2[t] \in Node /\ p2' = [p2 EXCEPT ![t] = p2[t]]
  BY <1>1 DEF Typed
<1>5. pc'[t] = "climb2" /\ p1[t] # p2[t]
  BY <1>1 DEF LinkBase, LinkSound
<1>6. \/ Same(p1[t], high(t)) /\ Same(p2[t], low(t))
      \/ Same(p1[t], low(t)) /\ Same(p2[t], high(t))
  BY <1>2 DEF Same
<1> QED BY <1>1, <1>3, <1>4, <1>5, <1>6, LinkClimbs

\* The read of its label keeps it: the thread still holds one vertex of u's
\* tree and one of v's.
LEMMA LinkClimbKeeps ==
    ASSUME Typed, Descends, InComponent, LinkBase, NEW t \in Thread, LinkClimb(t)
    PROVE  LinkEffect
<1>1. /\ pc[t] = "climb2" /\ pc' = [pc EXCEPT ![t] = "readLow"]
      /\ p1' = [p1 EXCEPT ![t] = comp[p_high[t]]]
      /\ p2' = [p2 EXCEPT ![t] = low(t)]
      /\ p_high' = [p_high EXCEPT ![t] = 0]
      /\ UNCHANGED <<serial, comp, todo, u, label, nbrs>>
  BY DEF LinkClimb, Goto
<1>2. low(t) \in Node /\ p_high[t] \in Node /\ 0 \in Node
  BY LinkFacts, NodeNat DEF Typed
<1>3. comp[p_high[t]] \in Node /\ Same(comp[p_high[t]], p_high[t])
  BY <1>2, RootsNow DEF Typed, ForestType, Same
<1>4. Same(p_high[t], high(t))
  BY <1>1 DEF LinkBase, LinkSound
<1>5. Same(comp[p_high[t]], high(t)) /\ Same(low(t), low(t))
  BY <1>3, <1>4 DEF Same
<1>6. pc'[t] = "readLow"
  BY <1>1 DEF LinkBase
<1> QED BY <1>1, <1>2, <1>3, <1>5, <1>6, LinkClimbs

\* The read of comp[low] keeps it, for the same reason.
LEMMA LinkReadLowKeeps ==
    ASSUME Typed, Descends, InComponent, LinkBase, NEW t \in Thread, LinkReadLow(t)
    PROVE  LinkEffect
<1>1. /\ pc[t] = "readLow" /\ pc' = [pc EXCEPT ![t] = "while"]
      /\ p2' = [p2 EXCEPT ![t] = comp[p2[t]]]
      /\ UNCHANGED <<serial, comp, todo, u, label, nbrs>> /\ p1' = p1 /\ p_high' = p_high
  BY DEF LinkReadLow, Goto, Typed
<1>2. /\ p1[t] \in Node /\ p1' = [p1 EXCEPT ![t] = p1[t]]
      /\ p2[t] \in Node
      /\ p_high[t] \in Node /\ p_high' = [p_high EXCEPT ![t] = p_high[t]]
  BY <1>1 DEF Typed
<1>3. comp[p2[t]] \in Node /\ Same(comp[p2[t]], p2[t])
  BY <1>2, RootsNow DEF Typed, ForestType, Same
<1>4. pc'[t] = "while"
  BY <1>1 DEF LinkBase
<1>5. \/ Same(p1[t], high(t)) /\ Same(comp[p2[t]], low(t))
      \/ Same(p1[t], low(t)) /\ Same(comp[p2[t]], high(t))
  BY <1>3, LinkFacts DEF Same
<1> QED BY <1>1, <1>2, <1>3, <1>4, <1>5, LinkClimbs

-----------------------------------------------------------------------------
\* Taking an iteration: the neighbours it will not link are linked already, or
\* its vertex is in the tree of c.

TakeSets(t) ==
    IF phase = "sample" THEN Sampled(u'[t])
    ELSE IF comp[u'[t]] = c THEN NoNeighbors ELSE Remaining(u'[t])

\* Taking the next vertex keeps it, whatever neighbours the iteration is to
\* link.
LEMMA TakeKeeps ==
    ASSUME Typed, Descends, InComponent, LinkBase, NEW t \in Thread, Take(t)
    PROVE  /\ Typed' /\ Descends' /\ InComponent' /\ LinkBase' /\ Joins /\ Roots' = Roots
           /\ serial' = serial /\ comp' = comp
           /\ u'[t] \in Node /\ todo'[t] = todo[t] \ {u'[t]} /\ InIteration(t)'
           /\ nbrs'[t] = TakeSets(t) /\ ~InIteration(t)
           /\ \A s \in Thread : s # t => /\ todo'[s] = todo[s] /\ u'[s] = u[s]
                                         /\ nbrs'[s] = nbrs[s]
                                         /\ InIteration(s)' = InIteration(s)
<1>1. /\ pc[t] = "next" /\ todo[t] # {}
      /\ u' = [u EXCEPT ![t] = Min(todo[t])]
      /\ todo' = [todo EXCEPT ![t] = @ \ {Min(@)}]
      /\ pc' = [pc EXCEPT ![t] = "edge"]
      /\ serial' = serial /\ comp' = comp /\ label' = label
      /\ p1' = p1 /\ p2' = p2 /\ p_high' = p_high
  BY DEF Take, TakeVertex, Goto
<1>2. /\ pc' \in [Thread -> LinkPlaces] /\ pc'[t] = "edge"
      /\ \A s \in Thread : s # t => pc'[s] = pc[s]
  BY <1>1 DEF LinkBase, LinkPlaces
<1>3. InIteration(t)' /\ ~InIteration(t)
      /\ \A s \in Thread : s # t => InIteration(s)' = InIteration(s)
  BY <1>1, <1>2 DEF InIteration
<1>4. /\ todo' \in [Thread -> SUBSET Node] /\ u' \in [Thread -> Node]
      /\ u'[t] = Min(todo[t]) /\ u'[t] \in todo[t]
      /\ todo'[t] = todo[t] \ {u'[t]}
      /\ \A s \in Thread : s # t => u'[s] = u[s] /\ todo'[s] = todo[s]
      /\ SharesApart' /\ SharesTaken'
  BY <1>1, <1>2, <1>3, SharesTake DEF LinkBase, Typed
<1>5. /\ g' = g /\ neighbor_rounds' = neighbor_rounds /\ r' = r /\ c' = c
  BY <1>1 DEF serial, args
<1>6. nbrs' = [nbrs EXCEPT ![t] = TakeSets(t)]
  BY <1>4 DEF Take, TakeSets
<1>7. u'[t] \in Node
  BY <1>4
<1>8. \A n \in Node :
         /\ Sampled(n) \in [out : SUBSET Node, in : SUBSET Node]
         /\ Sampled(n).out \subseteq out_neigh(g, n) /\ Sampled(n).in \subseteq in_neigh(g, n)
         /\ Remaining(n) \in [out : SUBSET Node, in : SUBSET Node]
         /\ Remaining(n).out \subseteq out_neigh(g, n) /\ Remaining(n).in \subseteq in_neigh(g, n)
         /\ NoNeighbors \in [out : SUBSET Node, in : SUBSET Node]
         /\ NoNeighbors.out = {} /\ NoNeighbors.in = {}
  <2> SUFFICES ASSUME NEW n \in Node
      PROVE
         /\ Sampled(n) \in [out : SUBSET Node, in : SUBSET Node]
         /\ Sampled(n).out \subseteq out_neigh(g, n) /\ Sampled(n).in \subseteq in_neigh(g, n)
         /\ Remaining(n) \in [out : SUBSET Node, in : SUBSET Node]
         /\ Remaining(n).out \subseteq out_neigh(g, n) /\ Remaining(n).in \subseteq in_neigh(g, n)
         /\ NoNeighbors \in [out : SUBSET Node, in : SUBSET Node]
         /\ NoNeighbors.out = {} /\ NoNeighbors.in = {}
    OBVIOUS
  <2>1. in_neigh(g, n) \in SUBSET Node /\ out_neigh(g, n) \in SUBSET Node
    BY DEF in_neigh, out_neigh
  <2>2. \A i : /\ out_neigh_from(g, n, i) \in SUBSET Node
               /\ out_neigh_from(g, n, i) \subseteq out_neigh(g, n)
               /\ out_neigh_from(g, n, i) # {} =>
                     Min(out_neigh_from(g, n, i)) \in out_neigh_from(g, n, i)
    BY FromFacts
  <2> QED BY <2>1, <2>2 DEF Sampled, Remaining, NoNeighbors, Neighbors
<1>9. /\ nbrs' \in [Thread -> [out : SUBSET Node, in : SUBSET Node]]
      /\ nbrs'[t] = TakeSets(t)
      /\ nbrs'[t].out \subseteq out_neigh(g, u'[t]) /\ nbrs'[t].in \subseteq in_neigh(g, u'[t])
      /\ \A s \in Thread : s # t => nbrs'[s] = nbrs[s]
  <2>1. /\ TakeSets(t) \in [out : SUBSET Node, in : SUBSET Node]
        /\ TakeSets(t).out \subseteq out_neigh(g, u'[t])
        /\ TakeSets(t).in \subseteq in_neigh(g, u'[t])
    BY <1>7, <1>8 DEF TakeSets
  <2> QED BY <1>6, <2>1 DEF Typed
<1>10. Typed'
  BY <1>1, <1>4, <1>5, <1>9 DEF Typed, ForestType
<1>11. Descends' /\ InComponent' /\ Joins /\ Roots' = Roots
  BY <1>1, <1>5, SameNow
<1>12. LinkSound(t)'
  BY <1>2, <1>5, <1>9 DEF LinkSound
<1>13. \A s \in Thread : LinkSound(s)'
  BY <1>1, <1>2, <1>4, <1>5, <1>9, <1>11, <1>12, OthersSound DEF LinkBase
<1> QED BY <1>1, <1>2, <1>3, <1>4, <1>7, <1>9, <1>10, <1>11, <1>13 DEF LinkBase

\* In a sampling round the vertex taken has its neighbour of the round
\* still to link, so the round's promise stands.
LEMMA TakeSamples ==
    ASSUME Typed, Descends, InComponent, LinkBase, NEW t \in Thread, Take(t),
           phase = "sample", SampleInv
    PROVE  SampleInv'
<1>1. /\ Roots' = Roots /\ serial' = serial
      /\ todo'[t] = todo[t] \ {u'[t]} /\ InIteration(t)' /\ ~InIteration(t)
      /\ nbrs'[t] = TakeSets(t)
      /\ \A s \in Thread : s # t => /\ todo'[s] = todo[s] /\ u'[s] = u[s]
                                    /\ nbrs'[s] = nbrs[s]
                                    /\ InIteration(s)' = InIteration(s)
  BY TakeKeeps
<1>2. g' = g /\ r' = r
  BY <1>1 DEF serial, args
<1> SUFFICES ASSUME NEW n \in Node, out_neigh_from(g, n, r) # {},
                    NEW v, v = Min(out_neigh_from(g, n, r))
             PROVE  Roots[n] = Roots[v] \/ LinkingOut(n, v)'
  BY <1>1, <1>2, Zenon DEF SampleInv, Same
<1>3. Roots[n] = Roots[v] \/ LinkingOut(n, v)
  BY DEF SampleInv, Same
<1>4. CASE LinkingOut(n, v)
  <2>1. PICK s \in Thread : \/ n \in todo[s]
                            \/ InIteration(s) /\ u[s] = n /\ v \in nbrs[s].out
    BY <1>4 DEF LinkingOut
  <2>2. CASE s # t
    BY <1>1, <2>1, <2>2 DEF LinkingOut
  <2>3. CASE s = t /\ n # u'[t]
    BY <1>1, <2>1, <2>3 DEF LinkingOut
  <2>4. CASE s = t /\ n = u'[t]
    <3>1. v \in nbrs'[t].out
      BY <1>1, <2>4 DEF TakeSets, Sampled, Neighbors
    <3> QED BY <1>1, <2>4, <3>1 DEF LinkingOut
  <2> QED BY <2>2, <2>3, <2>4
<1> QED BY <1>3, <1>4

\* In the last phase the iteration covers the neighbours the rounds have
\* not linked; a vertex skipped is one whose label is the sampled one.
LEMMA TakeLinks ==
    ASSUME Typed, Descends, InComponent, LinkBase, NEW t \in Thread, Take(t),
           phase = "link", LinkInv, r = neighbor_rounds,
           \A i \in 0 .. (r - 1) : RoundDone(i)
    PROVE  LinkInv'
<1>1. /\ Roots' = Roots /\ serial' = serial /\ u'[t] \in Node
      /\ todo'[t] = todo[t] \ {u'[t]} /\ InIteration(t)' /\ ~InIteration(t)
      /\ nbrs'[t] = TakeSets(t)
      /\ \A s \in Thread : s # t => /\ todo'[s] = todo[s] /\ u'[s] = u[s]
                                    /\ nbrs'[s] = nbrs[s]
                                    /\ InIteration(s)' = InIteration(s)
  BY TakeKeeps
<1>2. g' = g /\ c' = c
  BY <1>1 DEF serial, args
<1>3. comp[u'[t]] = c => Same(u'[t], c)
  BY <1>1, RootsNow DEF Same
<1>4. comp[u'[t]] # c => nbrs'[t] = Remaining(u'[t])
  BY <1>1 DEF TakeSets
<1>5. ASSUME NEW x \in Node, NEW y \in out_neigh(g, x), LinkingOut(x, y)
      PROVE  Same(x, y) \/ Same(x, c) \/ LinkingOut(x, y)'
  <2>1. PICK s \in Thread : \/ x \in todo[s]
                            \/ InIteration(s) /\ u[s] = x /\ y \in nbrs[s].out
    BY <1>5 DEF LinkingOut
  <2>2. CASE s # t
    BY <1>1, <2>1, <2>2 DEF LinkingOut
  <2>3. CASE s = t /\ x # u'[t]
    BY <1>1, <2>1, <2>3 DEF LinkingOut
  <2>4. CASE x = u'[t] /\ comp[x] # c
    <3>1. CASE y \in out_neigh_from(g, x, neighbor_rounds)
      <4>1. y \in nbrs'[t].out
        BY <1>4, <2>4, <3>1 DEF Remaining, Neighbors
      <4> QED BY <1>1, <2>4, <4>1 DEF LinkingOut
    <3>2. CASE y \notin out_neigh_from(g, x, neighbor_rounds)
      <4>1. neighbor_rounds \in Nat
        BY RoundsAssumption DEF Typed
      <4>2. PICK i \in 0 .. (neighbor_rounds - 1) :
               out_neigh_from(g, x, i) # {} /\ y = Min(out_neigh_from(g, x, i))
        BY <3>2, <4>1, LeftOutWasSampled
      <4>3. RoundDone(i)
        BY <4>2
      <4> QED BY <4>2, <4>3 DEF RoundDone
    <3> QED BY <3>1, <3>2
  <2>5. CASE x = u'[t] /\ comp[x] = c
    BY <1>3, <2>5
  <2> QED BY <2>2, <2>3, <2>4, <2>5
<1>6. ASSUME NEW y \in Node, NEW x \in in_neigh(g, y), g.directed, LinkingIn(x, y)
      PROVE  Same(y, c) \/ LinkingIn(x, y)'
  <2>1. PICK s \in Thread : \/ y \in todo[s]
                            \/ InIteration(s) /\ u[s] = y /\ x \in nbrs[s].in
    BY <1>6 DEF LinkingIn
  <2>2. CASE s # t
    BY <1>1, <2>1, <2>2 DEF LinkingIn
  <2>3. CASE s = t /\ y # u'[t]
    BY <1>1, <2>1, <2>3 DEF LinkingIn
  <2>4. CASE y = u'[t] /\ comp[y] # c
    <3>1. x \in nbrs'[t].in
      BY <1>4, <1>6, <2>4 DEF Remaining, Neighbors
    <3> QED BY <1>1, <2>4, <3>1 DEF LinkingIn
  <2>5. CASE y = u'[t] /\ comp[y] = c
    BY <1>3, <2>5
  <2> QED BY <2>2, <2>3, <2>4, <2>5
<1>7. \A e \in g.edges : /\ e[1] \in Node /\ e[2] \in Node
                         /\ e[2] \in out_neigh(g, e[1]) /\ e[1] \in in_neigh(g, e[2])
  BY GraphFacts
<1>8. ASSUME NEW e \in g.edges
      PROVE  /\ Same(e[1], e[2]) \/ Same(e[1], c) \/ LinkingOut(e[1], e[2])'
             /\ g.directed => Same(e[1], e[2]) \/ Same(e[2], c) \/ LinkingIn(e[1], e[2])'
  <2>1. /\ Same(e[1], e[2]) \/ Same(e[1], c) \/ LinkingOut(e[1], e[2])
        /\ g.directed => Same(e[1], e[2]) \/ Same(e[2], c) \/ LinkingIn(e[1], e[2])
    BY DEF LinkInv
  <2> QED BY <1>5, <1>6, <1>7, <2>1
<1> QED BY <1>1, <1>2, <1>8 DEF LinkInv, Same

-----------------------------------------------------------------------------
\* A step of a thread keeps the invariant.

\* What a round has joined stays joined.
LEMMA JoinedStays ==
    ASSUME Typed, Joins, g' = g, NEW i, RoundDone(i)
    PROVE  RoundDone(i)'
<1>1. \A n \in Node : /\ out_neigh_from(g, n, i) \in SUBSET Node
                      /\ out_neigh_from(g, n, i) # {} =>
                            Min(out_neigh_from(g, n, i)) \in out_neigh_from(g, n, i)
  BY FromFacts
<1> QED BY <1>1 DEF RoundDone, Joins, Same

\* The account of which edges are linked survives a step that undoes no
\* join and keeps the account of its own phase.
LEMMA ProgressKeeps ==
    ASSUME Typed, Progress, Joins, serial' = serial,
           phase = "sample" => SampleInv', phase = "link" => LinkInv'
    PROVE  Progress'
<1>1. g' = g /\ r' = r /\ phase' = phase /\ neighbor_rounds' = neighbor_rounds
  BY DEF serial, args
<1>2. \A i : RoundDone(i) => RoundDone(i)'
  BY <1>1, JoinedStays
<1>3. EdgesJoined => EdgesJoined'
  <2>1. \A e \in g.edges : e[1] \in Node /\ e[2] \in Node
    BY GraphFacts
  <2> QED BY <1>1, <2>1 DEF EdgesJoined, Joins, Same
<1>4. \A i \in 0 .. (r - 1) : RoundDone(i)'
  BY <1>2 DEF Progress
<1>5. ASSUME phase = "compress" PROVE RoundDone(r)'
  <2>1. \A n \in Node : /\ out_neigh_from(g, n, r) \in SUBSET Node
                        /\ out_neigh_from(g, n, r) # {} =>
                              Min(out_neigh_from(g, n, r)) \in out_neigh_from(g, n, r)
    BY FromFacts
  <2>2. RoundDone(r)
    BY <1>5 DEF Progress
  <2> QED BY <1>1, <2>1, <2>2 DEF RoundDone, Joins, Same
<1>6. (\A i \in 0 .. (r - 1) : RoundDone(i))'
  BY <1>1, <1>4 DEF RoundDone
<1> QED BY <1>1, <1>3, <1>5, <1>6 DEF Progress

\* The account of a phase survives a step in which no link in hand is lost.
LEMMA LinksKept ==
    ASSUME Typed, Joins, NoLinkLost, serial' = serial
    PROVE  (SampleInv => SampleInv') /\ (LinkInv => LinkInv')
<1>1. g' = g /\ r' = r /\ c' = c
  BY DEF serial, args
<1>2. ASSUME SampleInv PROVE SampleInv'
  <2> SUFFICES ASSUME NEW n \in Node, out_neigh_from(g, n, r) # {},
                      NEW v, v = Min(out_neigh_from(g, n, r))
               PROVE  Roots'[n] = Roots'[v] \/ LinkingOut(n, v)'
    BY <1>1, Zenon DEF SampleInv, Same
  <2>1. v \in Node
    BY FromFacts
  <2>2. Roots[n] = Roots[v] \/ LinkingOut(n, v)
    BY <1>2 DEF SampleInv, Same
  <2> QED BY <2>1, <2>2 DEF NoLinkLost, Joins, Same
<1>3. ASSUME LinkInv PROVE LinkInv'
  <2>1. c \in Node
    BY <1>3 DEF LinkInv
  <2>2. ASSUME NEW e \in g.edges
        PROVE  /\ \/ Roots'[e[1]] = Roots'[e[2]] \/ Roots'[e[1]] = Roots'[c]
                  \/ LinkingOut(e[1], e[2])'
               /\ g.directed =>
                     \/ Roots'[e[1]] = Roots'[e[2]] \/ Roots'[e[2]] = Roots'[c]
                     \/ LinkingIn(e[1], e[2])'
    <3>1. e[1] \in Node /\ e[2] \in Node
      BY GraphFacts
    <3>2. /\ Same(e[1], e[2]) \/ Same(e[1], c) \/ LinkingOut(e[1], e[2])
          /\ g.directed => Same(e[1], e[2]) \/ Same(e[2], c) \/ LinkingIn(e[1], e[2])
      BY <1>3 DEF LinkInv
    <3>3. \A x, y \in Node : Same(x, y) => Roots'[x] = Roots'[y]
      BY DEF Joins
    <3> QED BY <2>1, <3>1, <3>2, <3>3 DEF NoLinkLost
  <2> QED BY <1>1, <2>1, <2>2 DEF LinkInv, Same
<1> QED BY <1>2, <1>3

\* The steps of Link and its loop, but for taking an iteration.
LEMMA LinkEffects ==
    ASSUME Typed, Descends, InComponent, LinkBase, Linking, NEW t \in Thread,
           ThreadStep(t), ~Take(t)
    PROVE  /\ LinkEffect /\ serial' = serial
           /\ comp' = comp \/ (LinkCas(t) /\ LinkCasJoins(t))
<1>1. ~Compressing
  BY DEF Linking, Compressing
<1>2. CASE LinkCas(t)
  BY <1>2, LinkCasKeeps DEF LinkCas
<1>3. CASE LeaveLoop(t) /\ UNCHANGED <<serial, locals>>
  BY <1>3, LeaveKeeps DEF LeaveLoop
<1>4. CASE EndIteration(t)
  BY <1>4, EndIterationKeeps DEF EndIteration
<1>5. CASE LinkReadU(t) \/ LinkReadV(t) \/ LinkReadLow(t)
  BY <1>5, LinkReadUKeeps, LinkReadVKeeps, LinkReadLowKeeps DEF LinkReadU, LinkReadV, LinkReadLow
<1>6. CASE LinkDone(t) \/ LinkReadHigh(t)
  BY <1>6, LinkDoneKeeps, LinkReadHighKeeps DEF LinkDone, LinkReadHigh
<1>7. CASE LinkClimbHigh(t) \/ LinkClimb(t)
  BY <1>7, LinkClimbHighKeeps, LinkClimbKeeps DEF LinkClimbHigh, LinkClimb
<1> QED BY <1>1, <1>2, <1>3, <1>4, <1>5, <1>6, <1>7 DEF ThreadStep

\* Every step of a thread in a linking loop keeps the inductive invariant.
LEMMA LinkPhaseKeeps ==
    ASSUME IInv, Linking, NEW t \in Thread, ThreadStep(t)
    PROVE  IInv'
<1>1. Typed /\ Descends /\ InComponent /\ LinkBase /\ Progress
  BY DEF IInv
<1>2. ~Compressing /\ phase \notin {"rounds", "done"}
  BY DEF Linking, Compressing
<1>3. /\ Typed' /\ Descends' /\ InComponent' /\ LinkBase' /\ Joins /\ serial' = serial
      /\ phase = "sample" => SampleInv'
      /\ phase = "link" => LinkInv'
  <2>1. CASE Take(t)
    BY <1>1, <2>1, TakeKeeps, TakeSamples, TakeLinks DEF Progress
  <2>2. CASE ~Take(t)
    BY <1>1, <2>2, LinkEffects, LinksKept DEF LinkEffect, Progress
  <2> QED BY <2>1, <2>2
<1>4. Progress'
  BY <1>1, <1>3, ProgressKeeps
<1>5. phase' = phase
  BY <1>3 DEF serial, args
<1> QED BY <1>1, <1>2, <1>3, <1>4, <1>5 DEF IInv, Linking, Compressing

\* Every step of a thread in a compress loop keeps it, moves no vertex to
\* another tree and raises no label.
LEMMA CompressPhaseKeeps ==
    ASSUME IInv, Compressing, NEW t \in Thread, ThreadStep(t)
    PROVE  /\ IInv' /\ serial' = serial
           /\ \A v \in Node : Roots'[v] = Roots[v] /\ comp'[v] <= comp[v]
<1>1. Typed /\ Descends /\ InComponent /\ CompressBase /\ Progress
  BY DEF IInv
<1>2. ~Linking /\ phase \notin {"rounds", "done", "sample", "link"}
  BY DEF Linking, Compressing
<1>3. CompressStep(t) /\ serial' = serial /\ UNCHANGED <<serial, locals>>
  <2>1. CASE Compressing /\ CompressStep(t) /\ UNCHANGED <<serial, locals>>
    BY <2>1
  <2>2. CASE ~(Compressing /\ CompressStep(t) /\ UNCHANGED <<serial, locals>>)
    <3>1. CASE LinkReadV(t) \/ LinkDone(t) \/ LinkReadHigh(t) \/ LinkCas(t)
                 \/ LinkClimbHigh(t) \/ LinkClimb(t) \/ LinkReadLow(t)
      <4>1. pc[t] \in CompressPlaces
        BY <1>1 DEF CompressBase, CompressInv
      <4> QED BY <3>1, <4>1 DEF CompressPlaces, LinkReadV, LinkDone, LinkReadHigh,
                                LinkCas, LinkClimbHigh, LinkClimb, LinkReadLow
    <3>2. CASE Take(t) \/ EndIteration(t) \/ LinkReadU(t)
      BY <1>2, <3>2 DEF Take, EndIteration, LinkReadU
    <3> QED BY <1>2, <2>2, <3>1, <3>2 DEF ThreadStep
  <2> QED BY <2>1, <2>2
<1>4. /\ g' = g /\ neighbor_rounds' = neighbor_rounds /\ r' = r /\ c' = c /\ phase' = phase
      /\ nbrs' = nbrs /\ p1' = p1 /\ p2' = p2 /\ p_high' = p_high
  BY <1>3 DEF serial, args, locals
<1>5. ForestType' /\ Descends' /\ CompressInv' /\ CompressEffect(t)
  BY <1>1, <1>3, CompressKeeps DEF Typed, CompressBase
<1>6. Typed'
  BY <1>1, <1>4, <1>5 DEF Typed
<1>7. /\ InComponent' /\ Joins
      /\ \A v \in Node : Roots'[v] = Roots[v] /\ comp'[v] <= comp[v]
  <2>1. CASE comp' = comp
    <3>1. \A v \in Node : comp[v] \in Int
      BY <1>1, NumNodesAssumption DEF Typed, ForestType, Node
    <3> QED BY <1>1, <1>4, <2>1, <3>1, SameNow
  <2>2. CASE /\ pc[t] = "store"
             /\ comp' = [comp EXCEPT ![u[t]] = label[t]]
             /\ comp[u[t]] # u[t] /\ label[t] <= comp[u[t]]
    <3> DEFINE n == u[t]
               l == label[t]
    <3>1. /\ n \in Node /\ l \in Node /\ l <= comp[n] /\ comp[n] # n /\ Same(l, n)
          /\ comp' = [comp EXCEPT ![n] = l]
      BY <1>1, <2>2 DEF CompressBase, Typed, ForestType
    <3> HIDE DEF n, l
    <3> QED BY <1>1, <1>4, <3>1, CompressMoves
  <2> QED BY <1>5, <2>1, <2>2 DEF CompressEffect
<1>8. \A s \in Thread : pc'[s] = "store" => Same(label[s], u[s])'
  <2> SUFFICES ASSUME NEW s \in Thread, pc'[s] = "store"
               PROVE  Roots'[label'[s]] = Roots'[u'[s]]
    BY DEF Same
  <2>1. CASE CompressLoad(t)
    <3>1. /\ label'[t] = comp[comp[u[t]]] /\ (\A z \in Thread : z # t => label'[z] = label[z])
      BY <1>1, <2>1, CompressLoads DEF Typed, CompressBase
    <3>2. /\ comp' = comp /\ u' = u /\ pc' = [pc EXCEPT ![t] = "store"]
      BY <2>1 DEF CompressLoad, Goto
    <3>3. Roots' = Roots
      BY <3>2, SameRoots
    <3>4. CASE s = t
      <4>1. u[t] \in Node /\ comp[u[t]] \in Node
        BY <1>1 DEF Typed, ForestType
      <4>2. Roots[comp[comp[u[t]]]] = Roots[u[t]]
        BY <1>1, <4>1, RootsNow
      <4> QED BY <3>1, <3>2, <3>3, <3>4, <4>2
    <3>5. CASE s # t
      <4>1. pc[s] = "store"
        BY <1>1, <3>2, <3>5 DEF CompressBase, CompressInv
      <4> QED BY <1>1, <3>1, <3>2, <3>3, <3>5, <4>1 DEF CompressBase, Same
    <3> QED BY <3>4, <3>5
  <2>2. CASE ~CompressLoad(t)
    <3>1. s # t /\ pc[s] = "store" /\ u'[s] = u[s] /\ label'[s] = label[s]
      <4>1. pc \in [Thread -> CompressPlaces] /\ u \in [Thread -> Node] /\ label \in [Thread -> Node]
        BY <1>1 DEF CompressBase, CompressInv, Typed, ForestType
      <4>2. CASE TakeVertex(t, "test") /\ UNCHANGED <<comp, label>>
        BY <4>1, <4>2 DEF TakeVertex, Goto
      <4>3. CASE CompressTest(t)
        BY <4>1, <4>3 DEF CompressTest, Goto
      <4>4. CASE CompressStore(t)
        BY <4>1, <4>4 DEF CompressStore, Goto
      <4>5. CASE LeaveLoop(t)
        BY <4>1, <4>5 DEF LeaveLoop, Goto
      <4> QED BY <1>3, <2>2, <4>2, <4>3, <4>4, <4>5 DEF CompressStep
    <3>2. u[s] \in Node /\ label[s] \in Node /\ Same(label[s], u[s])
      BY <1>1, <3>1 DEF Typed, ForestType, CompressBase
    <3> QED BY <1>7, <3>1, <3>2 DEF Same
  <2> QED BY <2>1, <2>2
<1>9. Progress'
  BY <1>1, <1>2, <1>3, <1>7, ProgressKeeps
<1>10. CompressBase'
  BY <1>5, <1>8 DEF CompressBase
<1> QED BY <1>2, <1>3, <1>4, <1>5, <1>6, <1>7, <1>9, <1>10 DEF IInv, Linking, Compressing

-----------------------------------------------------------------------------
\* The steps of the master.

\* Every initial state satisfies the inductive invariant.
LEMMA InitIInv == Init => IInv
<1> SUFFICES ASSUME Init PROVE IInv
  OBVIOUS
<1>1. /\ g \in Graphs /\ neighbor_rounds \in NeighborRounds
      /\ comp = [n \in Node |-> n] /\ todo = [t \in Thread |-> {}]
      /\ pc = [t \in Thread |-> "end"] /\ u = [t \in Thread |-> 0]
      /\ label = [t \in Thread |-> 0]
      /\ phase = "rounds" /\ r = 0 /\ c = NoLabel
      /\ nbrs = [t \in Thread |-> NoNeighbors]
      /\ p1 = [t \in Thread |-> 0] /\ p2 = p1 /\ p_high = p1
  BY DEF Init, ForestInit
<1>2. ForestType
  BY <1>1, NodeNat DEF ForestType
<1>3. r \in 0 .. neighbor_rounds
  BY <1>1, RoundsAssumption
<1>4. nbrs \in [Thread -> [out : SUBSET Node, in : SUBSET Node]]
  BY <1>1 DEF NoNeighbors, Neighbors
<1>5. Typed
  BY <1>1, <1>2, <1>3, <1>4, NodeNat DEF Typed
<1>6. Descends
  BY <1>1, NodeNat DEF Descends
<1>7. InComponent
  BY <1>1, <1>5, GraphFacts, ComponentLeast DEF InComponent
<1>8. Flat
  BY <1>1 DEF Flat
<1>9. Progress
  BY <1>1 DEF Progress
<1> QED BY <1>1, <1>5, <1>6, <1>7, <1>8, <1>9 DEF IInv, Linking, Compressing

\* A parallel region starts: the labels are what they were, and each vertex is
\* in one thread's share.
LEMMA ForkFacts ==
    ASSUME Typed, Descends, InComponent, NEW region, Fork(region)
    PROVE  /\ g' = g /\ neighbor_rounds' = neighbor_rounds /\ phase' = region
           /\ comp' = comp /\ Roots' = Roots
           /\ Divides(todo', Node) /\ pc' = [t \in Thread |-> "next"]
           /\ r' \in 0 .. neighbor_rounds /\ c' \in Node \cup {NoLabel} => Typed'
           /\ Descends' /\ InComponent'
<1>1. /\ g' = g /\ neighbor_rounds' = neighbor_rounds /\ phase' = region
      /\ comp' = comp /\ u' = u /\ label' = label
      /\ nbrs' = nbrs /\ p1' = p1 /\ p2' = p2 /\ p_high' = p_high
      /\ todo' \in ChunkSchedules(Node, [n \in Node |-> ChunkOf(n)])
      /\ pc' = [t \in Thread |-> "next"]
  BY DEF Fork, args, locals
<1>2. Divides(todo', Node)
  BY <1>1, ChunkScheduleDivides
<1>3. todo' \in [Thread -> SUBSET Node]
  BY <1>2 DEF Divides
<1> QED BY <1>1, <1>2, <1>3, SameNow DEF Typed, ForestType

\* A linking loop starts with every edge still to be looked at.
LEMMA LinksStart ==
    ASSUME Typed, Divides(todo', Node), pc' = [t \in Thread |-> "next"]
    PROVE  /\ LinkBase'
           /\ \A x, y \in Node : LinkingOut(x, y)' /\ LinkingIn(x, y)'
<1>1. /\ todo' \in [Thread -> SUBSET Node]
      /\ SharesApart' /\ SharesTaken'
      /\ \A t \in Thread : pc'[t] = "next"
  BY SharesStart DEF Typed
<1>2. pc' \in [Thread -> LinkPlaces]
  BY DEF LinkPlaces
<1>3. \A t \in Thread : LinkSound(t)'
  BY <1>1 DEF LinkSound, InIteration
<1>4. \A x \in Node : \E t \in Thread : x \in todo'[t]
  BY DEF Divides
<1> QED BY <1>1, <1>2, <1>3, <1>4 DEF LinkBase, LinkingOut, LinkingIn

\* The start of a sampling round keeps it.
LEMMA StartRoundKeeps ==
    ASSUME IInv, StartRound
    PROVE  IInv' /\ comp' = comp /\ g' = g
<1>1. phase = "rounds" /\ r < neighbor_rounds /\ Fork("sample") /\ r' = r /\ c' = c
  BY DEF StartRound
<1>2. Typed /\ Descends /\ InComponent /\ Progress
  BY DEF IInv
<1>3. /\ g' = g /\ neighbor_rounds' = neighbor_rounds /\ phase' = "sample"
      /\ comp' = comp /\ Roots' = Roots
      /\ Divides(todo', Node) /\ pc' = [t \in Thread |-> "next"]
      /\ Typed' /\ Descends' /\ InComponent'
  BY <1>1, <1>2, ForkFacts DEF Typed
<1>4. LinkBase' /\ \A x, y \in Node : LinkingOut(x, y)' /\ LinkingIn(x, y)'
  BY <1>2, <1>3, LinksStart
<1>5. SampleInv'
  BY <1>1, <1>2, <1>3, <1>4, FromFacts DEF SampleInv
<1>6. Progress'
  BY <1>1, <1>2, <1>3, <1>5 DEF Progress, RoundDone, Same
<1> QED BY <1>3, <1>4, <1>6 DEF IInv, Linking, Compressing

\* At the barrier of a linking loop nothing is left to be linked.
LEMMA LinksEnd ==
    ASSUME LinkBase, AtBarrier
    PROVE  \A x, y : ~LinkingOut(x, y) /\ ~LinkingIn(x, y)
<1>1. \A t \in Thread : todo[t] = {} /\ ~InIteration(t)
  BY DEF LinkBase, AtBarrier, SharesTaken, InIteration
<1> QED BY <1>1 DEF LinkingOut, LinkingIn

\* The barrier after the round's linking loop keeps it: the round's
\* neighbours are joined.
LEMMA EndSampleKeeps ==
    ASSUME IInv, EndSample
    PROVE  IInv' /\ comp' = comp /\ g' = g
<1>1. phase = "sample" /\ AtBarrier /\ Fork("compress") /\ r' = r /\ c' = c
  BY DEF EndSample
<1>2. Typed /\ Descends /\ InComponent /\ Progress /\ LinkBase
  BY <1>1 DEF IInv, Linking
<1>3. /\ g' = g /\ neighbor_rounds' = neighbor_rounds /\ phase' = "compress"
      /\ comp' = comp /\ Roots' = Roots
      /\ Divides(todo', Node) /\ pc' = [t \in Thread |-> "next"]
      /\ Typed' /\ Descends' /\ InComponent'
  BY <1>1, <1>2, ForkFacts DEF Typed
<1>4. CompressInv' /\ \A t \in Thread : pc'[t] = "next"
  BY <1>2, <1>3, CompressStarts DEF Typed
<1>5. RoundDone(r)
  BY <1>1, <1>2, LinksEnd DEF Progress, SampleInv, RoundDone
<1>6. Progress'
  BY <1>1, <1>2, <1>3, <1>5 DEF Progress, RoundDone, Same
<1> QED BY <1>3, <1>4, <1>6 DEF IInv, Linking, Compressing, CompressBase

\* The barrier after a compress loop keeps it: the trees are flat.
LEMMA EndCompressKeeps ==
    ASSUME IInv, EndCompress
    PROVE  IInv' /\ comp' = comp /\ g' = g
<1>1. /\ phase = "compress" /\ AtBarrier /\ phase' = "rounds" /\ r' = r + 1
      /\ g' = g /\ neighbor_rounds' = neighbor_rounds /\ c' = c
      /\ comp' = comp /\ todo' = todo /\ pc' = pc /\ u' = u /\ label' = label
      /\ nbrs' = nbrs /\ p1' = p1 /\ p2' = p2 /\ p_high' = p_high
  BY DEF EndCompress, args, locals
<1>2. Typed /\ Descends /\ InComponent /\ Progress /\ CompressInv
  BY <1>1 DEF IInv, Compressing, CompressBase
<1>3. r < neighbor_rounds /\ r \in Nat /\ neighbor_rounds \in Nat
  BY <1>1, <1>2, RoundsAssumption DEF Progress, Typed
<1>4. Typed' /\ Descends' /\ InComponent' /\ Roots' = Roots
  BY <1>1, <1>2, <1>3, SameNow DEF Typed, ForestType
<1>5. Flat
  BY <1>1, <1>2, CompressEnds DEF Typed
<1>6. pc = [t \in Thread |-> "end"]
  BY <1>1, <1>2 DEF AtBarrier, CompressInv
<1>7. \A i \in 0 .. r : RoundDone(i)
  BY <1>1, <1>2, <1>3 DEF Progress
<1>8. (\A i \in 0 .. (r - 1) : RoundDone(i))'
  BY <1>1, <1>3, <1>4, <1>7 DEF RoundDone, Same
<1>9. Progress'
  BY <1>1, <1>8 DEF Progress
<1> QED BY <1>1, <1>4, <1>5, <1>6, <1>9 DEF IInv, Linking, Compressing, Flat

\* SampleFrequentElement keeps it, whatever vertices it draws: the label it
\* returns is some vertex's, which is all the last phase relies on.
LEMMA PickLabelKeeps ==
    ASSUME IInv, PickLabel
    PROVE  IInv' /\ comp' = comp /\ g' = g
<1>1. /\ phase = "rounds" /\ r >= neighbor_rounds /\ Fork("link") /\ r' = r
      /\ c' \in {comp[n] : n \in Node}
  BY DEF PickLabel, SampleFrequentElement
<1>2. Typed /\ Descends /\ InComponent /\ Progress
  BY DEF IInv
<1>3. c' \in Node
  BY <1>1, <1>2 DEF Typed, ForestType
<1>4. /\ g' = g /\ neighbor_rounds' = neighbor_rounds /\ phase' = "link"
      /\ comp' = comp /\ Roots' = Roots
      /\ Divides(todo', Node) /\ pc' = [t \in Thread |-> "next"]
      /\ Typed' /\ Descends' /\ InComponent'
  BY <1>1, <1>2, <1>3, ForkFacts DEF Typed
<1>5. LinkBase' /\ \A x, y \in Node : LinkingOut(x, y)' /\ LinkingIn(x, y)'
  BY <1>2, <1>4, LinksStart
<1>6. LinkInv'
  BY <1>2, <1>3, <1>4, <1>5, GraphFacts DEF LinkInv
<1>7. r = neighbor_rounds
  BY <1>1, <1>2, RoundsAssumption DEF Typed
<1>8. Progress'
  BY <1>1, <1>2, <1>4, <1>6, <1>7 DEF Progress, RoundDone, Same
<1> QED BY <1>4, <1>5, <1>8 DEF IInv, Linking, Compressing

\* When the last linking loop is over each edge is within a tree: both its ends
\* were skipped only if both were in the tree of c.
LEMMA EndLinkKeeps ==
    ASSUME IInv, EndLink
    PROVE  IInv' /\ comp' = comp /\ g' = g
<1>1. phase = "link" /\ AtBarrier /\ Fork("final") /\ r' = r /\ c' = c
  BY DEF EndLink
<1>2. Typed /\ Descends /\ InComponent /\ Progress /\ LinkBase /\ LinkInv
  BY <1>1 DEF IInv, Linking, Progress
<1>3. /\ g' = g /\ neighbor_rounds' = neighbor_rounds /\ phase' = "final"
      /\ comp' = comp /\ Roots' = Roots
      /\ Divides(todo', Node) /\ pc' = [t \in Thread |-> "next"]
      /\ Typed' /\ Descends' /\ InComponent'
  BY <1>1, <1>2, ForkFacts DEF Typed
<1>4. CompressInv' /\ \A t \in Thread : pc'[t] = "next"
  BY <1>2, <1>3, CompressStarts DEF Typed
<1>5. EdgesJoined
  <2> SUFFICES ASSUME NEW e \in g.edges PROVE Roots[e[1]] = Roots[e[2]]
    BY DEF EdgesJoined, Same
  <2>1. \A d \in g.edges :
           /\ Roots[d[1]] = Roots[d[2]] \/ Roots[d[1]] = Roots[c]
           /\ g.directed => Roots[d[1]] = Roots[d[2]] \/ Roots[d[2]] = Roots[c]
    BY <1>1, <1>2, LinksEnd DEF LinkInv, Same
  <2>2. CASE g.directed
    BY <2>1, <2>2
  <2>3. CASE ~g.directed
    <3>1. <<e[2], e[1]>> \in g.edges
      BY <1>2, <2>3, GraphFacts DEF IsGraph
    <3>2. Roots[e[2]] = Roots[e[1]] \/ Roots[e[2]] = Roots[c]
      BY <2>1, <3>1
    <3> QED BY <2>1, <3>2
  <2> QED BY <2>2, <2>3
<1>6. Progress'
  BY <1>1, <1>2, <1>3, <1>5 DEF Progress, RoundDone, EdgesJoined, Same
<1> QED BY <1>3, <1>4, <1>6 DEF IInv, Linking, Compressing, CompressBase

\* The end of the last compress loop keeps it.
LEMMA FinishKeeps ==
    ASSUME IInv, Finish
    PROVE  IInv' /\ comp' = comp /\ g' = g
<1>1. /\ phase = "final" /\ AtBarrier /\ phase' = "done" /\ r' = r
      /\ g' = g /\ neighbor_rounds' = neighbor_rounds /\ c' = c
      /\ comp' = comp /\ todo' = todo /\ pc' = pc /\ u' = u /\ label' = label
      /\ nbrs' = nbrs /\ p1' = p1 /\ p2' = p2 /\ p_high' = p_high
  BY DEF Finish, args, locals
<1>2. Typed /\ Descends /\ InComponent /\ Progress /\ CompressInv
  BY <1>1 DEF IInv, Compressing, CompressBase
<1>3. Typed' /\ Descends' /\ InComponent' /\ Roots' = Roots
  BY <1>1, <1>2, SameNow DEF Typed, ForestType
<1>4. Flat
  BY <1>1, <1>2, CompressEnds DEF Typed
<1>5. pc = [t \in Thread |-> "end"]
  BY <1>1, <1>2 DEF AtBarrier, CompressInv
<1>6. Progress'
  BY <1>1, <1>2, <1>3 DEF Progress, RoundDone, EdgesJoined, Same
<1> QED BY <1>1, <1>3, <1>4, <1>5, <1>6 DEF IInv, Linking, Compressing, Flat

\* The invariant is inductive.
LEMMA NextIInv == IInv /\ [Next \/ Returned]_vars => IInv'
<1> SUFFICES ASSUME IInv, [Next \/ Returned]_vars PROVE IInv'
  OBVIOUS
<1>1. CASE Master
  BY <1>1, StartRoundKeeps, EndSampleKeeps, EndCompressKeeps, PickLabelKeeps,
     EndLinkKeeps, FinishKeeps DEF Master
<1>2. ASSUME NEW t \in Thread, ThreadStep(t) PROVE IInv'
  <2>1. CASE Linking
    BY <1>2, <2>1, LinkPhaseKeeps
  <2>2. CASE Compressing
    BY <1>2, <2>2, CompressPhaseKeeps
  <2>3. CASE ~Linking /\ ~Compressing
    <3>1. pc[t] = "end"
      BY <2>3 DEF IInv, Linking, Compressing
    <3> QED BY <1>2, <2>3, <3>1 DEF ThreadStep, Take, EndIteration, LinkReadU, LinkReadV,
               LinkDone, LinkReadHigh, LinkCas, LinkClimbHigh, LinkClimb, LinkReadLow
  <2> QED BY <2>1, <2>2, <2>3
<1>3. CASE UNCHANGED vars
  <2>1. /\ serial' = serial /\ phase' = phase /\ r' = r /\ c' = c /\ g' = g
        /\ neighbor_rounds' = neighbor_rounds
        /\ comp' = comp /\ todo' = todo /\ pc' = pc /\ u' = u /\ label' = label
        /\ nbrs' = nbrs /\ p1' = p1 /\ p2' = p2 /\ p_high' = p_high
    BY <1>3 DEF vars, serial, args, locals
  <2>2. Roots' = Roots
    BY <2>1, SameRoots
  <2>3. Typed' /\ Descends' /\ InComponent' /\ Flat' = Flat
    BY <2>1 DEF IInv, Typed, ForestType, Descends, InComponent, Flat
  <2>4. \A t : InIteration(t)' <=> InIteration(t)
    BY <2>1 DEF InIteration
  <2>5. \A x, y : Same(x, y)' <=> Same(x, y)
    BY <2>2 DEF Same
  <2>6. (SharesApart' <=> SharesApart) /\ (SharesTaken' <=> SharesTaken)
    BY <2>1, <2>4 DEF SharesApart, SharesTaken
  <2>7. \A t : LinkSound(t)' <=> LinkSound(t)
    BY <2>1, <2>4, <2>5 DEF LinkSound, Neighbor, high
  <2>8. LinkBase' <=> LinkBase
    BY <2>1, <2>6, <2>7 DEF LinkBase
  <2>9. CompressBase' <=> CompressBase
    <3>1. \A n : Finished(n)' <=> Finished(n)
      BY <2>1, <2>4 DEF Finished
    <3> QED BY <2>1, <2>5, <2>6, <3>1 DEF CompressBase, CompressInv
  <2>10. Progress' <=> Progress
    <3>1. \A x, y : (LinkingOut(x, y)' <=> LinkingOut(x, y)) /\ (LinkingIn(x, y)' <=> LinkingIn(x, y))
      BY <2>1, <2>4 DEF LinkingOut, LinkingIn
    <3>2. \A i : RoundDone(i)' <=> RoundDone(i)
      BY <2>1, <2>5 DEF RoundDone
    <3>3. SampleInv' <=> SampleInv
      BY <2>1, <2>5, <3>1 DEF SampleInv
    <3>4. LinkInv' <=> LinkInv
      BY <2>1, <2>5, <3>1 DEF LinkInv
    <3>5. EdgesJoined' <=> EdgesJoined
      BY <2>1, <2>5 DEF EdgesJoined
    <3> QED BY <2>1, <3>2, <3>3, <3>4, <3>5 DEF Progress
  <2> QED BY <2>1, <2>3, <2>8, <2>9, <2>10 DEF IInv, Linking, Compressing
<1> QED BY <1>1, <1>2, <1>3 DEF Next, Returned

\* The invariant holds in every reachable state, whichever threads take which
\* iterations, however their links race and whatever label is sampled.
THEOREM Invariance == Spec => []IInv
<1>1. Init => IInv
  BY InitIInv
<1>2. IInv /\ [Next \/ Returned]_vars => IInv'
  BY NextIInv
<1> QED BY <1>1, <1>2, PTL DEF Spec

-----------------------------------------------------------------------------
\* The module's properties.

\* Every variable has its type, so that no chase through labels leaves comp,
\* and the labels are flat between rounds: a compress region leaves each vertex
\* labelled with a root although other threads rewrite the labels it follows
\* (cc.cc:59-67, 116).
THEOREM RoundsStartFlat == Spec => []CompressFlattens
<1>1. IInv => CompressFlattens
  BY DEF IInv, Typed, ForestType, CompressFlattens, TypeOK
<1> QED BY <1>1, Invariance, PTL

\* When the linking loops are over every edge is within one tree, whichever
\* vertices were skipped because their label was c when it was read
\* (cc.cc:117-143).
THEOREM SkippingIsSafe == Spec => []NoEdgeSkipped
<1>1. IInv => NoEdgeSkipped
  <2> SUFFICES ASSUME IInv, phase = "final", NEW e \in g.edges
               PROVE  Root(e[1]) = Root(e[2])
    BY DEF NoEdgeSkipped
  <2>1. Same(e[1], e[2]) /\ e[1] \in Node /\ e[2] \in Node
    BY GraphFacts DEF IInv, Progress, EdgesJoined
  <2>2. RootIn(comp, e[1]) = RootIn(comp, e[2])
    BY <2>1, RootsNow DEF IInv, Same
  <2> QED BY <2>2 DEF Root, RootIn
<1> QED BY <1>1, Invariance, PTL

\* What Afforest returns passes its verifier and names each component by its
\* least vertex, for every graph, number of rounds and schedule
\* (cc.cc:144-149, 171-215).
THEOREM ResultCorrect == Spec => []VerifierAccepts
<1>1. IInv => VerifierAccepts
  <2> SUFFICES ASSUME IInv, phase = "done"
               PROVE  /\ CCVerifier(g)
                      /\ \A v \in Node : comp[v] = Min(Component(g, v))
    BY DEF VerifierAccepts
  <2>1. Typed /\ Descends /\ InComponent /\ Flat /\ EdgesJoined
    BY DEF IInv, Progress
  <2>2. \A v \in Node : comp[v] = Roots[v]
    <3> SUFFICES ASSUME NEW v \in Node PROVE comp[v] = Roots[v]
      OBVIOUS
    <3>1. comp[v] \in Node /\ comp[comp[v]] = comp[v]
      BY <2>1 DEF Typed, ForestType, Flat
    <3> QED BY <2>1, <3>1, RootsNow
  <2>3. \A e \in g.edges : comp[e[1]] = comp[e[2]]
    BY <2>1, <2>2, GraphFacts DEF EdgesJoined, Same
  <2>4. IsGraph(g) /\ comp \in [Node -> Node] /\ \A n \in Node : comp[n] \in Component(g, n)
    BY <2>1, GraphFacts DEF Typed, ForestType, InComponent
  <2> QED BY <2>1, <2>3, <2>4, AgreeingLabelsAreComponents
<1> QED BY <1>1, Invariance, PTL

\* What each step does to the labels and the trees.
LEMMA StepEffect ==
    ASSUME IInv, [Next \/ Returned]_vars
    PROVE  /\ g' = g
           /\ \/ /\ \A v \in Node : Roots'[v] = Roots[v]
                 /\ \A v \in Node : comp'[v] <= comp[v]
              \/ \E t \in Thread : LinkCas(t) /\ LinkCasJoins(t)
<1>1. Typed /\ Descends /\ InComponent
  BY DEF IInv
<1>2. \A v \in Node : comp[v] \in Int
  BY <1>1, NumNodesAssumption DEF Typed, ForestType, Node
<1>3. ASSUME comp' = comp PROVE \A v \in Node : Roots'[v] = Roots[v] /\ comp'[v] <= comp[v]
  BY <1>2, <1>3, SameRoots
<1>4. CASE Master
  BY <1>3, <1>4, StartRoundKeeps, EndSampleKeeps, EndCompressKeeps, PickLabelKeeps,
     EndLinkKeeps, FinishKeeps DEF Master
<1>5. ASSUME NEW t \in Thread, ThreadStep(t)
      PROVE  /\ g' = g
             /\ \/ \A v \in Node : Roots'[v] = Roots[v] /\ comp'[v] <= comp[v]
                \/ LinkCas(t) /\ LinkCasJoins(t)
  <2>1. CASE Linking
    <3>1. LinkBase
      BY <2>1 DEF IInv
    <3>2. serial' = serial /\ (comp' = comp \/ (LinkCas(t) /\ LinkCasJoins(t)))
      BY <1>1, <1>5, <2>1, <3>1, LinkEffects, TakeKeeps
    <3> QED BY <1>3, <3>2 DEF serial, args
  <2>2. CASE Compressing
    BY <1>5, <2>2, CompressPhaseKeeps DEF serial, args
  <2>3. CASE ~Linking /\ ~Compressing
    <3>1. pc[t] = "end"
      BY <2>3 DEF IInv, Linking, Compressing
    <3> QED BY <1>5, <2>3, <3>1 DEF ThreadStep, Take, EndIteration, LinkReadU, LinkReadV,
               LinkDone, LinkReadHigh, LinkCas, LinkClimbHigh, LinkClimb, LinkReadLow
  <2> QED BY <2>1, <2>2, <2>3
<1>6. CASE UNCHANGED vars
  BY <1>3, <1>6 DEF vars, serial, args
<1> QED BY <1>4, <1>5, <1>6 DEF Next, Returned

\* No step of any thread raises a label, whatever the others did between its
\* reads and its write, so that no cycle of labels can arise (cc.cc:47-55, 63-65).
THEOREM LabelsOnlyDescend == Spec => LabelsDescend
<1>1. IInv /\ [Next \/ Returned]_vars => [\A n \in Node : comp'[n] <= comp[n]]_comp
  <2> SUFFICES ASSUME IInv, [Next \/ Returned]_vars PROVE \A n \in Node : comp'[n] <= comp[n]
    OBVIOUS
  <2>1. CASE \A v \in Node : comp'[v] <= comp[v]
    BY <2>1
  <2>2. ASSUME NEW t \in Thread, LinkCas(t), LinkCasJoins(t)
        PROVE  \A v \in Node : comp'[v] <= comp[v]
    <3>1. Typed /\ Descends /\ InComponent /\ pc[t] = "cas"
      BY <2>2 DEF IInv, LinkCas
    <3>2. LinkBase
      <4>1. "cas" \notin CompressPlaces
        BY DEF CompressPlaces
      <4> QED BY <3>1, <4>1 DEF IInv, CompressBase, CompressInv, Linking, Compressing
    <3> QED BY <2>2, <3>1, <3>2, LinkCasKeeps
  <2> QED BY <2>1, <2>2, StepEffect
<1> QED BY <1>1, Invariance, PTL DEF Spec, LabelsDescend

-----------------------------------------------------------------------------
\* The refinement of ComponentMerging.

\* The parts into which f divides the vertices.
Tree(f, x) == {v \in Node : f[v] = x}
PartsOf(f) == {Tree(f, x) : x \in {f[v] : v \in Node}}

\* The parts that the refinement reports are the trees of the forest.
LEMMA PartsAreTrees ==
    ASSUME Typed, Descends
    PROVE  Parts = PartsOf(Roots)
<1>1. \A v \in Node : Root(v) = Roots[v]
  BY RootsNow DEF Root, RootIn
<1>2. {Root(v) : v \in Node} = {Roots[v] : v \in Node}
  BY <1>1
<1>3. \A x : {v \in Node : Root(v) = x} = Tree(Roots, x)
  BY <1>1 DEF Tree
<1>4. PartsOf(Roots) = {Tree(Roots, x) : x \in {Root(v) : v \in Node}}
  BY <1>2 DEF PartsOf
<1>5. \A S : S \in Parts <=> S \in {Tree(Roots, x) : x \in {Root(v) : v \in Node}}
  <2> DEFINE X == {Root(v) : v \in Node}
             A(x) == {v \in Node : Root(v) = x}
  <2>1. Parts = {A(x) : x \in X}
    BY DEF Parts
  <2>2. \A x : A(x) = Tree(Roots, x)
    BY <1>3
  <2> HIDE DEF X, A
  <2>3. \A S : S \in Parts <=> \E x \in X : S = Tree(Roots, x)
    BY <2>1, <2>2
  <2>4. \A S : S \in Parts <=> S \in {Tree(Roots, x) : x \in X}
    BY <2>3
  <2> QED BY <2>4 DEF X
<1> QED BY <1>4, <1>5

\* Function q is f with the tree of h joined to that of k.
Joined(f, q, h, k) ==
    /\ f[h] = h /\ f[k] = k /\ h # k
    /\ \A v \in Node : (f[v] = h => q[v] = k) /\ (f[v] # h => q[v] = f[v])

\* Joining the tree of h to that of k merges these two parts.
LEMMA JoiningMerges ==
    ASSUME NEW f, NEW q, NEW h \in Node, NEW k \in Node, Joined(f, q, h, k)
    PROVE  /\ Tree(f, h) \in PartsOf(f) /\ Tree(f, k) \in PartsOf(f)
           /\ Tree(f, h) # Tree(f, k)
           /\ PartsOf(q) = (PartsOf(f) \ {Tree(f, h), Tree(f, k)})
                              \cup {Tree(f, h) \cup Tree(f, k)}
<1> USE DEF Joined
<1>1. h \in Tree(f, h) /\ k \in Tree(f, k) /\ h \notin Tree(f, k)
  BY DEF Tree
<1>2. Tree(f, h) \in PartsOf(f) /\ Tree(f, k) \in PartsOf(f)
  BY DEF PartsOf
<1>3. Tree(q, k) = Tree(f, h) \cup Tree(f, k)
  BY DEF Tree
<1>4. \A x : x # h /\ x # k => Tree(q, x) = Tree(f, x)
  BY DEF Tree
<1>5. \A S \in PartsOf(q) : \/ S = Tree(f, h) \cup Tree(f, k)
                            \/ S \in PartsOf(f) \ {Tree(f, h), Tree(f, k)}
  <2> SUFFICES ASSUME NEW v \in Node
               PROVE  \/ Tree(q, q[v]) = Tree(f, h) \cup Tree(f, k)
                      \/ Tree(q, q[v]) \in PartsOf(f) \ {Tree(f, h), Tree(f, k)}
    BY DEF PartsOf
  <2>1. CASE q[v] = k
    BY <1>3, <2>1
  <2>2. CASE q[v] # k
    <3>1. q[v] = f[v] /\ f[v] # h /\ f[v] # k
      BY <2>2
    <3>2. Tree(q, q[v]) = Tree(f, f[v])
      BY <1>4, <3>1
    <3>3. Tree(f, f[v]) \in PartsOf(f)
      BY DEF PartsOf
    <3>4. v \in Tree(f, f[v]) /\ v \notin Tree(f, h) /\ v \notin Tree(f, k)
      BY <3>1 DEF Tree
    <3> QED BY <3>2, <3>3, <3>4
  <2> QED BY <2>1, <2>2
<1>6. Tree(f, h) \cup Tree(f, k) \in PartsOf(q)
  <2>1. q[h] = k
    OBVIOUS
  <2>2. Tree(q, q[h]) \in PartsOf(q)
    BY DEF PartsOf
  <2> QED BY <1>3, <2>1, <2>2
<1>7. ASSUME NEW S \in PartsOf(f) \ {Tree(f, h), Tree(f, k)} PROVE S \in PartsOf(q)
  <2>1. PICK v \in Node : S = Tree(f, f[v])
    BY DEF PartsOf
  <2>2. f[v] # h /\ f[v] # k
    BY <2>1
  <2>3. S = Tree(q, q[v])
    BY <1>4, <2>1, <2>2
  <2> QED BY <2>3 DEF PartsOf
<1> QED BY <1>1, <1>2, <1>5, <1>6, <1>7

\* The link that succeeds merges the parts of the two ends of its edge.
LEMMA CasMerges ==
    ASSUME IInv, NEW t \in Thread, LinkCas(t), LinkCasJoins(t), IInv', g' = g
    PROVE  Merging!Next
<1>1. Typed /\ Descends /\ InComponent /\ pc[t] = "cas" /\ LinkBase
  <2>1. Typed /\ Descends /\ InComponent /\ pc[t] = "cas"
    BY DEF IInv, LinkCas
  <2>2. "cas" \notin CompressPlaces
    BY DEF CompressPlaces
  <2> QED BY <2>1, <2>2 DEF IInv, CompressBase, CompressInv, Linking, Compressing
<1> DEFINE h == high(t)
           k == Roots[low(t)]
           P == Tree(Roots, h)
           Q == Tree(Roots, k)
<1>2. /\ h \in Node /\ low(t) \in Node
  BY <1>1, LinkFacts
<1>3. /\ comp[h] = h /\ low(t) < h
      /\ \A v \in Node : Roots'[v] = IF Roots[v] = h THEN k ELSE Roots[v]
  BY DEF LinkCasJoins
<1>4. k \in Node /\ Roots[h] = h /\ Roots[k] = k /\ k <= low(t)
  BY <1>1, <1>2, <1>3, RootsNow
<1>5. h # k
  <2>1. h \in Int /\ k \in Int /\ low(t) \in Int
    BY <1>2, <1>4, NumNodesAssumption DEF Node
  <2> QED BY <1>3, <1>4, <2>1
<1>6. /\ P \in PartsOf(Roots) /\ Q \in PartsOf(Roots) /\ P # Q
      /\ PartsOf(Roots') = (PartsOf(Roots) \ {P, Q}) \cup {P \cup Q}
  <2> DEFINE f == Roots
             q == Roots'
  <2>1. Joined(f, q, h, k)
    BY <1>3, <1>4, <1>5 DEF Joined
  <2> HIDE DEF h, k, f, q
  <2>3. /\ Tree(f, h) \in PartsOf(f) /\ Tree(f, k) \in PartsOf(f)
        /\ Tree(f, h) # Tree(f, k)
        /\ PartsOf(q) = (PartsOf(f) \ {Tree(f, h), Tree(f, k)})
                           \cup {Tree(f, h) \cup Tree(f, k)}
    BY <1>2, <1>4, <2>1, JoiningMerges
  <2> QED BY <2>3 DEF f, q
<1>7. Parts = PartsOf(Roots) /\ Parts' = PartsOf(Roots)'
  <2>1. Parts = PartsOf(Roots)
    BY <1>1, PartsAreTrees
  <2>2. (Typed /\ Descends)'
    BY DEF IInv
  <2>3. (Typed /\ Descends => Parts = PartsOf(Roots))'
    BY PartsAreTrees, PTL
  <2> QED BY <2>1, <2>2, <2>3
<1>8. PartsOf(Roots)' = PartsOf(Roots')
  BY DEF PartsOf, Tree
<1>9. /\ u[t] \in Node /\ Neighbor(t) \in Node
      /\ Linked(g, u[t], Neighbor(t))
      /\ \/ Same(h, u[t]) /\ Same(low(t), Neighbor(t))
         \/ Same(low(t), u[t]) /\ Same(h, Neighbor(t))
  BY <1>1, LinkEnds
<1>10. \/ u[t] \in P /\ Neighbor(t) \in Q
       \/ u[t] \in Q /\ Neighbor(t) \in P
  BY <1>4, <1>9 DEF Same, Tree
<1>11. \E e \in g.edges : {e[1], e[2]} \cap P # {} /\ {e[1], e[2]} \cap Q # {}
  <2> HIDE DEF P, Q
  <2>1. CASE <<u[t], Neighbor(t)>> \in g.edges
    <3> DEFINE e == <<u[t], Neighbor(t)>>
    <3>1. {e[1], e[2]} \cap P # {} /\ {e[1], e[2]} \cap Q # {}
      BY <1>10
    <3> QED BY <2>1, <3>1
  <2>2. CASE <<Neighbor(t), u[t]>> \in g.edges
    <3> DEFINE e == <<Neighbor(t), u[t]>>
    <3>1. {e[1], e[2]} \cap P # {} /\ {e[1], e[2]} \cap Q # {}
      BY <1>10
    <3> QED BY <2>2, <3>1
  <2> QED BY <1>9, <2>1, <2>2 DEF Linked
<1> HIDE DEF P, Q
<1>12. Merging!Merge(P, Q)
  BY <1>6, <1>7, <1>8, <1>11 DEF Merging!Merge
<1> QED BY <1>6, <1>7, <1>12 DEF Merging!Next

\* Afforest implements ComponentMerging: of all the steps of all threads only a
\* compare_and_swap that succeeds changes the partition of the vertices, and it
\* merges the parts that the two ends of an edge are in (cc.cc:50-51).
THEOREM Refinement == Spec => RefinesComponentMerging
<1>1. Init => Merging!Init
  <2> SUFFICES ASSUME Init PROVE Parts = {{v} : v \in Node} /\ g \in Graphs
    BY DEF Merging!Init, Merging!Node, Node
  <2>1. Typed /\ Descends /\ comp = [n \in Node |-> n]
    BY InitIInv DEF IInv, Init, ForestInit
  <2>2. \A v \in Node : Roots[v] = v
    BY <2>1, RootsNow
  <2>3. {Roots[v] : v \in Node} = Node
    BY <2>2
  <2>4. \A x \in Node : Tree(Roots, x) = {x}
    BY <2>2 DEF Tree
  <2>5. PartsOf(Roots) = {{v} : v \in Node}
    <3>1. PartsOf(Roots) = {Tree(Roots, x) : x \in Node}
      BY <2>3 DEF PartsOf
    <3> QED BY <2>4, <3>1
  <2> QED BY <2>1, <2>5, PartsAreTrees DEF Typed
<1>2. IInv /\ IInv' /\ [Next \/ Returned]_vars => [Merging!Next]_(Merging!ccvars)
  <2> SUFFICES ASSUME IInv, IInv', [Next \/ Returned]_vars
               PROVE  Merging!Next \/ (g' = g /\ Parts' = Parts)
    BY DEF Merging!ccvars
  <2>1. CASE \E t \in Thread : LinkCas(t) /\ LinkCasJoins(t)
    BY <2>1, StepEffect, CasMerges
  <2>2. CASE \A v \in Node : Roots'[v] = Roots[v]
    <3>1. PartsOf(Roots)' = PartsOf(Roots)
      BY <2>2 DEF PartsOf, Tree
    <3>2. (Typed /\ Descends => Parts = PartsOf(Roots))'
      BY PartsAreTrees, PTL
    <3>3. Parts' = PartsOf(Roots)' /\ Parts = PartsOf(Roots)
      BY <3>2, PartsAreTrees DEF IInv
    <3> QED BY <3>1, <3>3, StepEffect
  <2> QED BY <2>1, <2>2, StepEffect
<1> QED BY <1>1, <1>2, Invariance, PTL DEF Spec, RefinesComponentMerging, Merging!Spec
=============================================================================
