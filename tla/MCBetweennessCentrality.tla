---------------------- MODULE MCBetweennessCentrality ----------------------
EXTENDS BetweennessCentrality

Directed(E)   == [directed |-> TRUE, edges |-> E]
Undirected(E) == [directed |-> FALSE, edges |-> E \cup {<<e[2], e[1]>> : e \in E}]

\* Two shortest paths from 0 to 3, found by whichever threads take 1 and 2; the
\* edge from 1 to 2 joins two vertices of one level, and 4 reaches nothing.
Diamond == {<<0, 1>>, <<0, 2>>, <<1, 2>>, <<1, 3>>, <<2, 3>>, <<3, 4>>}

MCGraphs == {Directed(Diamond), Undirected(Diamond)}

\* One trial with two sources, two trials with one, and the first of these.
MCRuns == {<<1, 2>>, <<2, 1>>}
OneSource == {<<1, 1>>}

\* The start vertex is drawn, or it is the one without out-edges.
Drawn == {NoVertex}
Sink  == {NoVertex, 4}
=============================================================================
