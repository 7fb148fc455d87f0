---------------------------- MODULE LabelForest ----------------------------
(***************************************************************************)
(* The label array comp of the two connected-components kernels: a forest  *)
(* in which comp[n] is the parent of n and a root is its own parent.  Both *)
(* kernels flatten it with the same loop (src/src/cc.cc:60-67,             *)
(* src/src/cc_sv.cc:75-80).  A thread compresses the vertices of its share *)
(* one read or write of comp at a time.  Only the thread that has vertex n *)
(* writes comp[n]; comp[comp[n]] may be written by another thread between  *)
(* its two reads.                                                          *)
(***************************************************************************)
EXTENDS CSRGraph, OpenMP

VARIABLES comp,
          todo,      \* [Thread -> vertices left to it in this region]
          pc,        \* [Thread -> its place in the region]
          u,         \* [Thread -> the vertex of its iteration]
          label      \* [Thread -> the comp[comp[n]] it read]

Goto(t, place) == pc' = [pc EXCEPT ![t] = place]
AtBarrier == \A t \in Thread : pc[t] = "end"

ForestInit ==
    /\ comp = [n \in Node |-> n]
    /\ todo = [t \in Thread |-> {}]
    /\ pc = [t \in Thread |-> "end"]
    /\ u = [t \in Thread |-> 0]
    /\ label = [t \in Thread |-> 0]

\* The thread takes its next iteration and goes on at `place`.
TakeVertex(t, place) ==
    /\ pc[t] = "next" /\ todo[t] # {}
    /\ u' = [u EXCEPT ![t] = Min(todo[t])]
    /\ todo' = [todo EXCEPT ![t] = @ \ {Min(@)}]
    /\ Goto(t, place)

\* No iteration is left: the thread waits at the barrier of the loop.
LeaveLoop(t) ==
    /\ pc[t] = "next" /\ todo[t] = {}
    /\ Goto(t, "end")
    /\ UNCHANGED <<comp, todo, u, label>>

\* while (comp[n] != comp[comp[n]])
CompressTest(t) ==
    /\ pc[t] = "test"
    /\ IF comp[u[t]] # comp[comp[u[t]]]
       THEN Goto(t, "load") /\ UNCHANGED u
       ELSE Goto(t, "next") /\ u' = [u EXCEPT ![t] = 0]
    /\ UNCHANGED <<comp, todo, label>>

\* comp[n] = comp[comp[n]], the read ...
CompressLoad(t) ==
    /\ pc[t] = "load"
    /\ label' = [label EXCEPT ![t] = comp[comp[u[t]]]]
    /\ Goto(t, "store")
    /\ UNCHANGED <<comp, todo, u>>

\* Slip: `if` for `while`.
CompressStore_Once(t) ==
    /\ pc[t] = "store"
    /\ comp' = [comp EXCEPT ![u[t]] = label[t]]
    /\ label' = [label EXCEPT ![t] = 0]
    /\ u' = [u EXCEPT ![t] = 0]
    /\ Goto(t, "next")
    /\ UNCHANGED todo

\* ... and the write.
CompressStore(t) ==
    /\ pc[t] = "store"
    /\ comp' = [comp EXCEPT ![u[t]] = label[t]]
    /\ label' = [label EXCEPT ![t] = 0]
    /\ Goto(t, "test")
    /\ UNCHANGED <<todo, u>>

CompressStep(t) ==
    \/ TakeVertex(t, "test") /\ UNCHANGED <<comp, label>>
    \/ CompressTest(t) \/ CompressLoad(t) \/ CompressStore(t)
    \/ LeaveLoop(t)

-----------------------------------------------------------------------------

\* The end of the label chain of v.  A chain that ends takes fewer than
\* NumNodes steps.
Root(v) ==
    LET chain[k \in 0 .. NumNodes] == IF k = 0 THEN v ELSE comp[chain[k - 1]]
    IN  chain[NumNodes]

\* CCVerifier of either kernel: a search from one vertex of each label, made
\* as if the graph were undirected, meets that label only, and the searches
\* together visit every vertex.
CCVerifier(g) ==
    LET label_to_source(l) == Max({n \in Node : comp[n] = l})
        labels             == {comp[n] : n \in Node}
        visited(l)         == Component(g, label_to_source(l))
    IN  /\ \A l \in labels : \A v \in visited(l) : comp[v] = l
        /\ UNION {visited(l) : l \in labels} = Node

Flat == \A n \in Node : comp[comp[n]] = comp[n]
=============================================================================
