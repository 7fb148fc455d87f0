-------------------------- MODULE ComponentMerging --------------------------
(***************************************************************************)
(* What a union-find search for connected components does to the vertices: *)
(* it starts with every vertex on its own and merges two parts at a time,  *)
(* never parts that no edge connects, and never splits one.                *)
(***************************************************************************)
EXTENDS CSRGraph

CONSTANT Graphs
VARIABLES g, parts

ccvars == <<g, parts>>

Init == g \in Graphs /\ parts = {{v} : v \in Node}

Merge(P, R) ==
    /\ P # R
    /\ \E e \in g.edges : {e[1], e[2]} \cap P # {} /\ {e[1], e[2]} \cap R # {}
    /\ parts' = (parts \ {P, R}) \cup {P \cup R}
    /\ UNCHANGED g

Next == \E P, R \in parts : Merge(P, R)

Spec == Init /\ [][Next]_ccvars
=============================================================================
