------------------------------ MODULE MCDOBFS ------------------------------
EXTENDS DOBFS

Directed(E)   == [directed |-> TRUE, edges |-> E]
Undirected(E) == [directed |-> FALSE, edges |-> E \cup {<<e[2], e[1]>> : e \in E}]

\* From vertex 0 the levels have 1, 2, 1, 2 and 1 vertices.  With alpha = 8 and
\* beta = 4 the search starts bottom-up, comes back to a queue of one vertex,
\* goes top-down and turns bottom-up again, now with old bits in front.
Hourglass == {<<0, 1>>, <<0, 2>>, <<1, 3>>, <<2, 3>>, <<3, 4>>, <<3, 5>>,
              <<4, 0>>, <<4, 6>>, <<5, 0>>}

\* The two vertices of level 1 share their three out-neighbours: threads of a
\* top-down step race for them, and the queue fills to its last slot.
Fan == {<<0, 1>>, <<0, 2>>, <<1, 3>>, <<1, 4>>, <<1, 5>>,
        <<2, 3>>, <<2, 4>>, <<2, 5>>, <<3, 6>>, <<5, 6>>}

MCGraphs == {Directed(Hourglass), Directed(Fan), Undirected(Fan)}
=============================================================================
