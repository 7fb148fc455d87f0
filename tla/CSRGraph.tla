------------------------------ MODULE CSRGraph ------------------------------
(***************************************************************************)
(* CSRGraph (src/src/graph.h) as the kernels read it.  A graph is          *)
(*     [directed |-> BOOLEAN, edges |-> a set of pairs <<u, v>>]           *)
(* over the vertices 0 .. NumNodes-1.  BuilderBase sorts each neighbour    *)
(* list and drops duplicates and self-loops, so a neighbourhood is a set   *)
(* that is iterated in ascending order.  An undirected graph has both      *)
(* directions of each edge and one array that serves as out and in.        *)
(***************************************************************************)
EXTENDS Integers, FiniteSets, FiniteSetsExt

CONSTANT NumNodes
ASSUME NumNodesAssumption == NumNodes \in Nat \ {0}

Node == 0 .. (NumNodes - 1)

IsGraph(g) ==
    /\ {"directed", "edges"} \subseteq DOMAIN g
    /\ g.directed \in BOOLEAN
    /\ g.edges \subseteq {e \in Node \X Node : e[1] # e[2]}
    /\ ~g.directed => \A e \in g.edges : <<e[2], e[1]>> \in g.edges

out_neigh(g, u) == {v \in Node : <<u, v>> \in g.edges}
in_neigh(g, v)  == {u \in Node : <<u, v>> \in g.edges}
out_degree(g, u) == Cardinality(out_neigh(g, u))
in_degree(g, v)  == Cardinality(in_neigh(g, v))

\* out_neigh(u, start_offset): the list without its first `offset` entries.
out_neigh_from(g, u, offset) ==
    {v \in out_neigh(g, u) : Cardinality({w \in out_neigh(g, u) : w < v}) >= offset}

\* num_edges() counts an undirected edge once.
num_edges(g) == IF g.directed THEN Cardinality(g.edges) ELSE Cardinality(g.edges) \div 2
num_edges_directed(g) == IF g.directed THEN num_edges(g) ELSE 2 * num_edges(g)

-----------------------------------------------------------------------------
\* Reference definitions that the kernels are compared with.

Unreached == -1

\* The vertices at most k edges away from s.
Within(g, s) ==
    LET ball[k \in 0 .. NumNodes] ==
          IF k = 0 THEN {s}
          ELSE LET inner == ball[k - 1]
               IN  inner \cup UNION {out_neigh(g, u) : u \in inner}
    IN  ball

\* Hop distance from s, what the serial searches of the verifiers compute.
Depth(g, s) ==
    LET ball == Within(g, s)
    IN  [v \in Node |-> IF v \in ball[NumNodes]
                        THEN Min({k \in 0 .. NumNodes : v \in ball[k]})
                        ELSE Unreached]

\* The vertices connected with v when edges are followed both ways.
Component(g, v) ==
    Within([g EXCEPT !.edges = @ \cup {<<e[2], e[1]>> : e \in @}], v)[NumNodes]
=============================================================================
