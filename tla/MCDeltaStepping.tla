-------------------------- MODULE MCDeltaStepping --------------------------
EXTENDS DeltaStepping, TLC

\* The edges of E with the weights w.
Weighted(E, w) == [directed |-> TRUE, edges |-> E, weight |-> w]

\* Vertex 2 hangs below 0, 1 and 3, vertex 3 below 1 and 2.  With weights of 1
\* and 3 each may be lowered several times and move to a lower bin.
Kite == {<<0, 1>>, <<0, 2>>, <<1, 2>>, <<1, 3>>, <<2, 3>>, <<3, 2>>}

\* In the graph without edges the frontier of line 98 has no slot for the source.
MCGraphs == {Weighted(Kite, w) : w \in [Kite -> {1, 3}]} \cup {Weighted({}, <<>>)}

\* Triples <<from, to, weight>>.  Vertex 1 is reached with distance 10 and put
\* in the first bin; before that bin is done its distance falls to 3.
Detour == {<<0, 1, 10>>, <<0, 2, 1>>, <<2, 1, 2>>,
           <<1, 3, 100>>, <<1, 4, 100>>, <<1, 5, 100>>, <<1, 6, 100>>}

DetourGraph ==
    LET E == {<<x[1], x[2]>> : x \in Detour}
    IN  {Weighted(E, [e \in E |-> (CHOOSE x \in Detour : <<x[1], x[2]>> = e)[3]])}

Symmetry == Permutations(Thread)
=============================================================================
