------------------------------ MODULE LevelBFS ------------------------------
(***************************************************************************)
(* What a level-synchronous breadth-first search does, whoever does it and *)
(* in whichever direction: it hangs one unvisited vertex at a time below a *)
(* visited one that has an edge to it, and starts on a level only when     *)
(* every vertex of the level before it has been visited.                   *)
(***************************************************************************)
EXTENDS CSRGraph

CONSTANT Graphs
VARIABLES g, source,
          tree,      \* [Node -> the vertex it was visited from, or NoNode]
          depth      \* [Node -> its level in the tree, or Unreached]

bfsvars == <<g, source, tree, depth>>

NoNode == -1

Visited(v) == depth[v] # Unreached

Init ==
    /\ g \in Graphs /\ source \in Node
    /\ tree = [v \in Node |-> IF v = source THEN source ELSE NoNode]
    /\ depth = [v \in Node |-> IF v = source THEN 0 ELSE Unreached]

Visit(u, v) ==
    /\ Visited(u) /\ ~Visited(v)
    /\ v \in out_neigh(g, u)
    /\ \A w \in Node : Visited(w) /\ depth[w] < depth[u] =>
          \A x \in out_neigh(g, w) : Visited(x)
    /\ tree' = [tree EXCEPT ![v] = u]
    /\ depth' = [depth EXCEPT ![v] = depth[u] + 1]
    /\ UNCHANGED <<g, source>>

Next == \E u, v \in Node : Visit(u, v)

Spec == Init /\ [][Next]_bfsvars
=============================================================================
