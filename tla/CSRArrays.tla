------------------------------ MODULE CSRArrays ------------------------------
(***************************************************************************)
(* The arrays behind a CSRGraph (src/src/graph.h), for the components that *)
(* build, write and read them; the kernels use the sets of CSRGraph.  An   *)
(* array of n elements is a function on 0 .. n-1.  A destination is a pair *)
(* <<vertex, weight>>, of weight NoWeight in an unweighted graph, and an   *)
(* index holds the distance of each pointer from the array's start.        *)
(***************************************************************************)
EXTENDS Integers, FiniteSets, FiniteSetsExt, Sequences, SequencesExt, Folds

NoWeight == 0

\* An element that nothing was stored in yet.
Garbage == <<-1, NoWeight>>

\* NodeWeight::operator<, and < on plain vertices.
Less(a, b) == a[1] < b[1] \/ (a[1] = b[1] /\ a[2] < b[2])

\* NodeWeight::operator== does not look at the weights.
SameNode(a, b) == a[1] = b[1]

\* A neighbourhood, from begin() to end().
Neighborhood(n, index, neighs) ==
    [i \in 1 .. (index[n + 1] - index[n]) |-> neighs[index[n] + i - 1]]

VertexOffsets(index) == [n \in DOMAIN index |-> index[n] - index[0]]

-----------------------------------------------------------------------------
\* The two constructors.  An undirected graph shares one pair of arrays and
\* counts half of its entries.

DirectedCSR(num_nodes, out_index, out_neighs, in_index, in_neighs) ==
    [directed |-> TRUE, num_nodes |-> num_nodes,
     num_edges |-> out_index[num_nodes] - out_index[0],
     out_index |-> out_index, out_neighs |-> out_neighs,
     in_index |-> in_index, in_neighs |-> in_neighs]

UndirectedCSR(num_nodes, index, neighs) ==
    [directed |-> FALSE, num_nodes |-> num_nodes,
     num_edges |-> (index[num_nodes] - index[0]) \div 2,
     out_index |-> index, out_neighs |-> neighs,
     in_index |-> index, in_neighs |-> neighs]

num_edges_directed(g) == IF g.directed THEN g.num_edges ELSE 2 * g.num_edges

out_neigh(g, n) == Neighborhood(n, g.out_index, g.out_neighs)
in_neigh(g, n)  == Neighborhood(n, g.in_index, g.in_neighs)
out_degree(g, n) == g.out_index[n + 1] - g.out_index[n]

\* The members of S in the order of op, a strict total order on them.
InOrder(S, op(_, _)) ==
    [i \in 1 .. Cardinality(S) |-> CHOOSE x \in S : Cardinality({y \in S : op(y, x)}) = i - 1]

-----------------------------------------------------------------------------
\* Reference definitions: the arrays that hold a set of arcs <<u, v, w>>.

\* One list after the other.
FlatIndex(num_nodes, list) ==
    [n \in 0 .. num_nodes |->
        SumFunctionOnSet([m \in 0 .. num_nodes - 1 |-> Len(list[m])], 0 .. n - 1)]

Flat(num_nodes, list) ==
    LET s == FlattenSeq([n \in 1 .. num_nodes |-> list[n - 1]])
    IN  [i \in 0 .. Len(s) - 1 |-> s[i + 1]]

\* The sorted lists of the arcs that leave each vertex, and of those that enter.
ListsOf(num_nodes, arcs) ==
    [n \in 0 .. num_nodes - 1 |-> InOrder({<<a[2], a[3]>> : a \in {b \in arcs : b[1] = n}}, Less)]

Turned(arcs) == {<<a[2], a[1], a[3]>> : a \in arcs}

\* The graph of a set of arcs.
GraphOf(num_nodes, directed, arcs) ==
    LET out == ListsOf(num_nodes, arcs)
        in  == ListsOf(num_nodes, Turned(arcs))
    IN  IF directed
        THEN DirectedCSR(num_nodes, FlatIndex(num_nodes, out), Flat(num_nodes, out),
                                    FlatIndex(num_nodes, in), Flat(num_nodes, in))
        ELSE UndirectedCSR(num_nodes, FlatIndex(num_nodes, out), Flat(num_nodes, out))

\* The arcs a graph's lists hold.
ArcsOf(g) ==
    UNION {{<<n, d[1], d[2]>> : d \in Range(out_neigh(g, n))} : n \in 0 .. g.num_nodes - 1}

\* The arcs of the graph built from edges: no self-loops, their inverses if it
\* is symmetrized, and of parallel arcs the lightest.
ArcsFrom(edges, symmetrize) ==
    LET given == {a \in edges : a[1] # a[2]}
        all   == given \cup (IF symmetrize THEN Turned(given) ELSE {})
    IN  {a \in all : \A b \in all : b[1] = a[1] /\ b[2] = a[2] => a[3] <= b[3]}
=============================================================================
