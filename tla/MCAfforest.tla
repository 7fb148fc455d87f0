----------------------------- MODULE MCAfforest -----------------------------
EXTENDS Afforest

Pairs == {e \in Node \X Node : e[1] < e[2]}
Directed(E)   == [directed |-> TRUE, edges |-> E]
Undirected(E) == [directed |-> FALSE, edges |-> E \cup {<<e[2], e[1]>> : e \in E}]

\* Undirected graphs with three edges (paths, stars, a triangle and a lonely
\* vertex), two cycles, and directed graphs whose edges run against the order of
\* the vertices, so that only the reverse neighbourhoods link them.
Cycle(a, b, c4, d) == {<<a, b>>, <<b, c4>>, <<c4, d>>, <<a, d>>}
MCGraphs ==
    LET Three == {S \in SUBSET Pairs : Cardinality(S) = 3}
    IN  {Undirected(E) : E \in Three \cup {Cycle(0, 1, 2, 3), {<<0, 2>>, <<1, 2>>, <<1, 3>>, <<0, 3>>}}}
          \cup {Directed({<<e[2], e[1]>> : e \in E}) : E \in {S \in Three : <<2, 3>> \in S}}
=============================================================================
