------------------------- MODULE MCShiloachVishkin -------------------------
EXTENDS ShiloachVishkin, TLC

Pairs == {e \in Node \X Node : e[1] < e[2]}
Directed(E)   == [directed |-> TRUE, edges |-> E]
Undirected(E) == [directed |-> FALSE, edges |-> E \cup {<<e[2], e[1]>> : e \in E}]

\* Trees and cycles over four vertices, undirected, and directed with the edges
\* against the order of the vertices.
MCGraphs ==
    LET Sparse == {S \in SUBSET Pairs : Cardinality(S) \in {2, 3}}
    IN  {Undirected(E) : E \in Sparse}
          \cup {Directed({<<e[2], e[1]>> : e \in E}) : E \in Sparse}
=============================================================================
