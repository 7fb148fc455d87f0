------------------------- MODULE LabelForestProofs -------------------------
(***************************************************************************)
(* Lemmas about LabelForest that the proofs of both connected-components   *)
(* kernels need: what a thread's share is worth while other threads run,   *)
(* and why the compress loop leaves flat trees although each thread reads  *)
(* labels that others write.                                               *)
(***************************************************************************)
EXTENDS LabelForest, CSRGraphProofs

ForestType ==
    /\ comp \in [Node -> Node]
    /\ todo \in [Thread -> SUBSET Node]
    /\ u \in [Thread -> Node]
    /\ label \in [Thread -> Node]

\* A label is never larger than its vertex.
Descends == \A n \in Node : comp[n] <= n

\* The thread is in the middle of the iteration of u[t].
InIteration(t) == pc[t] \notin {"next", "end"}

\* Each vertex is in the share of one thread, and stays that thread's while
\* its iteration runs.
SharesApart ==
    \A s, t \in Thread :
       s # t => /\ todo[s] \cap todo[t] = {}
                /\ InIteration(t) => u[t] \notin todo[s]
                /\ InIteration(s) /\ InIteration(t) => u[s] # u[t]

\* An iteration that runs is no longer in its thread's share, and a thread
\* that waits has none left.
SharesTaken ==
    \A t \in Thread : /\ InIteration(t) => u[t] \notin todo[t]
                      /\ pc[t] = "end" => todo[t] = {}

\* The iteration of n is over.
Finished(n) ==
    \A t \in Thread : n \notin todo[t] /\ ~(InIteration(t) /\ u[t] = n)

CompressPlaces == {"next", "test", "load", "store", "end"}

\* A thread that goes on with its loop has a vertex that is no root, and what
\* it is about to write is below the label it found there; the vertices that
\* are finished have labels that are roots.
CompressInv ==
    /\ pc \in [Thread -> CompressPlaces]
    /\ SharesApart /\ SharesTaken
    /\ \A t \in Thread :
          /\ pc[t] \in {"load", "store"} => comp[u[t]] # u[t]
          /\ pc[t] = "store" => label[t] <= comp[u[t]]
    /\ \A n \in Node : Finished(n) => comp[comp[n]] = comp[n]

\* A region that starts has its vertices divided among the threads, none of
\* them in an iteration yet and none of the iterations done.
LEMMA SharesStart ==
    ASSUME ForestType, Divides(todo', Node), pc' = [t \in Thread |-> "next"]
    PROVE  /\ todo' \in [Thread -> SUBSET Node]
           /\ SharesApart' /\ SharesTaken'
           /\ \A n \in Node : ~Finished(n)'
           /\ \A t \in Thread : pc'[t] = "next"
BY DEF Divides, SharesApart, SharesTaken, Finished, InIteration

\* What taking an iteration does to the shares.
LEMMA SharesTake ==
    ASSUME ForestType, SharesApart, SharesTaken,
           NEW t \in Thread, pc[t] = "next", todo[t] # {},
           u' = [u EXCEPT ![t] = Min(todo[t])],
           todo' = [todo EXCEPT ![t] = @ \ {Min(@)}],
           InIteration(t)', \A s \in Thread : s # t => pc'[s] = pc[s]
    PROVE  /\ todo' \in [Thread -> SUBSET Node] /\ u' \in [Thread -> Node]
           /\ u'[t] = Min(todo[t]) /\ u'[t] \in todo[t]
           /\ todo'[t] = todo[t] \ {u'[t]}
           /\ \A s \in Thread : s # t => u'[s] = u[s] /\ todo'[s] = todo[s]
           /\ SharesApart' /\ SharesTaken'
           /\ \A n \in Node : Finished(n)' <=> Finished(n)
<1>1. todo[t] \in SUBSET Node
  BY DEF ForestType
<1>2. Min(todo[t]) \in todo[t]
  BY <1>1, MinNode, NodeNat
<1>3. /\ todo' \in [Thread -> SUBSET Node] /\ u' \in [Thread -> Node]
      /\ u'[t] = Min(todo[t]) /\ u'[t] \in todo[t]
      /\ todo'[t] = todo[t] \ {u'[t]}
      /\ \A s \in Thread : s # t => u'[s] = u[s] /\ todo'[s] = todo[s]
  BY <1>1, <1>2 DEF ForestType
<1>4. ~InIteration(t) /\ \A s \in Thread : s # t => (InIteration(s)' <=> InIteration(s))
  BY DEF InIteration
<1>5. SharesApart'
  BY <1>3, <1>4 DEF SharesApart
<1>6. SharesTaken'
  BY <1>3, <1>4 DEF SharesTaken, InIteration
<1>7. ASSUME NEW n \in Node PROVE Finished(n)' <=> Finished(n)
  <2>1. ASSUME NEW s \in Thread
        PROVE (n \notin todo'[s] /\ ~(InIteration(s)' /\ u'[s] = n))
                <=> (n \notin todo[s] /\ ~(InIteration(s) /\ u[s] = n))
    BY <1>3, <1>4
  <2> QED BY <2>1 DEF Finished
<1> QED BY <1>3, <1>5, <1>6, <1>7

\* The shares when a thread moves on inside its iteration.
LEMMA SharesMove ==
    ASSUME ForestType, SharesApart, SharesTaken,
           NEW t \in Thread, InIteration(t), InIteration(t)',
           todo' = todo, u' = u,
           \A s \in Thread : s # t => pc'[s] = pc[s]
    PROVE  /\ SharesApart' /\ SharesTaken'
           /\ \A n \in Node : Finished(n)' <=> Finished(n)
<1>1. \A s \in Thread : InIteration(s)' <=> InIteration(s)
  BY DEF InIteration
<1>2. SharesApart'
  BY <1>1 DEF SharesApart
<1>3. SharesTaken'
  BY <1>1 DEF SharesTaken, InIteration
<1>4. \A n \in Node : Finished(n)' <=> Finished(n)
  BY <1>1 DEF Finished
<1> QED BY <1>2, <1>3, <1>4

\* The shares when a thread ends its iteration.
LEMMA SharesEnd ==
    ASSUME ForestType, SharesApart, SharesTaken,
           NEW t \in Thread, InIteration(t), pc'[t] = "next",
           todo' = todo, \A s \in Thread : s # t => pc'[s] = pc[s] /\ u'[s] = u[s]
    PROVE  /\ SharesApart' /\ SharesTaken'
           /\ \A n \in Node : Finished(n)' <=> Finished(n) \/ n = u[t]
<1>1. /\ \A s \in Thread : s # t => (InIteration(s)' <=> InIteration(s))
      /\ ~InIteration(t)'
  BY DEF InIteration
<1>2. SharesApart'
  BY <1>1 DEF SharesApart
<1>3. SharesTaken'
  <2>1. ASSUME NEW s \in Thread
        PROVE  /\ InIteration(s)' => u'[s] \notin todo'[s]
               /\ pc'[s] = "end" => todo'[s] = {}
    BY <1>1 DEF SharesTaken
  <2> QED BY <2>1 DEF SharesTaken
<1>4. ASSUME NEW n \in Node
      PROVE  Finished(n)' <=> Finished(n) \/ n = u[t]
  <2>1. CASE n = u[t]
    <3>1. \A s \in Thread : n \notin todo[s]
      BY <2>1 DEF SharesApart, SharesTaken
    <3>2. \A s \in Thread : s # t => ~(InIteration(s) /\ u[s] = n)
      BY <2>1 DEF SharesApart
    <3> QED BY <1>1, <2>1, <3>1, <3>2 DEF Finished
  <2>2. CASE n # u[t]
    BY <1>1, <2>2 DEF Finished
  <2> QED BY <2>1, <2>2
<1> QED BY <1>2, <1>3, <1>4

\* The shares when a thread leaves its loop.
LEMMA SharesLeave ==
    ASSUME ForestType, SharesApart, SharesTaken,
           NEW P, pc \in [Thread -> P], "end" \in P,
           NEW t \in Thread, LeaveLoop(t)
    PROVE  /\ ForestType' /\ pc' \in [Thread -> P]
           /\ SharesApart' /\ SharesTaken'
           /\ pc'[t] = "end" /\ \A s \in Thread : s # t => pc'[s] = pc[s]
           /\ \A n \in Node : Finished(n)' <=> Finished(n)
<1>1. /\ pc[t] = "next" /\ todo[t] = {} /\ pc' = [pc EXCEPT ![t] = "end"]
      /\ comp' = comp /\ todo' = todo /\ u' = u /\ label' = label
  BY DEF LeaveLoop, Goto
<1>2. /\ pc' \in [Thread -> P] /\ pc'[t] = "end"
      /\ \A s \in Thread : s # t => pc'[s] = pc[s]
  BY <1>1
<1>3. \A s \in Thread : InIteration(s)' <=> InIteration(s)
  BY <1>1, <1>2 DEF InIteration
<1>4. SharesApart'
  BY <1>1, <1>3 DEF SharesApart
<1>5. SharesTaken'
  BY <1>1, <1>2, <1>3 DEF SharesTaken
<1>6. \A n \in Node : Finished(n)' <=> Finished(n)
  BY <1>1, <1>3 DEF Finished
<1>7. ForestType'
  BY <1>1 DEF ForestType
<1> QED BY <1>2, <1>4, <1>5, <1>6, <1>7

-----------------------------------------------------------------------------
\* Each step of the compress loop, whatever the other threads are doing in it.

\* The invariant of the compress loop holds when the region starts.
LEMMA CompressStarts ==
    ASSUME ForestType, Divides(todo', Node), pc' = [t \in Thread |-> "next"]
    PROVE  todo' \in [Thread -> SUBSET Node] /\ CompressInv'
<1>1. /\ todo' \in [Thread -> SUBSET Node]
      /\ SharesApart' /\ SharesTaken'
      /\ \A n \in Node : ~Finished(n)'
      /\ \A t \in Thread : pc'[t] = "next"
  BY SharesStart
<1>2. pc' \in [Thread -> CompressPlaces]
  BY DEF CompressPlaces
<1> QED BY <1>1, <1>2 DEF CompressInv

\* What a step of the loop does to the labels: nothing, or it moves one vertex,
\* which is no root, to a lower label.
CompressEffect(t) ==
    \/ comp' = comp
    \/ /\ pc[t] = "store"
       /\ comp' = [comp EXCEPT ![u[t]] = label[t]]
       /\ comp[u[t]] # u[t] /\ label[t] <= comp[u[t]]

\* It is kept by a thread that takes its next vertex.
LEMMA CompressTakes ==
    ASSUME ForestType, Descends, CompressInv,
           NEW t \in Thread, TakeVertex(t, "test"), UNCHANGED <<comp, label>>
    PROVE  ForestType' /\ CompressInv'
<1>1. /\ pc[t] = "next" /\ todo[t] # {} /\ comp' = comp /\ label' = label
      /\ u' = [u EXCEPT ![t] = Min(todo[t])]
      /\ todo' = [todo EXCEPT ![t] = @ \ {Min(@)}]
      /\ pc' = [pc EXCEPT ![t] = "test"]
  BY DEF TakeVertex, Goto
<1>2. /\ pc' \in [Thread -> CompressPlaces] /\ pc'[t] = "test"
      /\ \A s \in Thread : s # t => pc'[s] = pc[s]
  BY <1>1 DEF CompressInv, CompressPlaces
<1>3. InIteration(t)'
  BY <1>2 DEF InIteration
<1>4. /\ todo' \in [Thread -> SUBSET Node] /\ u' \in [Thread -> Node]
      /\ \A s \in Thread : s # t => u'[s] = u[s] /\ todo'[s] = todo[s]
      /\ SharesApart' /\ SharesTaken'
      /\ \A n \in Node : Finished(n)' <=> Finished(n)
  BY <1>1, <1>2, <1>3, SharesTake DEF CompressInv
<1>5. ForestType'
  BY <1>1, <1>4 DEF ForestType
<1> QED BY <1>1, <1>2, <1>4, <1>5 DEF CompressInv

\* It is kept by the test of the while loop, which leaves the iteration
\* only when the label of the label is the label.
LEMMA CompressTests ==
    ASSUME ForestType, Descends, CompressInv,
           NEW t \in Thread, CompressTest(t)
    PROVE  ForestType' /\ CompressInv'
<1>1. /\ pc[t] = "test" /\ comp' = comp /\ todo' = todo /\ label' = label
      /\ InIteration(t)
  BY DEF CompressTest, InIteration
<1>2. CASE comp[u[t]] # comp[comp[u[t]]]
  <2>1. u' = u /\ pc' = [pc EXCEPT ![t] = "load"]
    BY <1>2 DEF CompressTest, Goto
  <2>2. /\ pc' \in [Thread -> CompressPlaces] /\ pc'[t] = "load"
        /\ \A s \in Thread : s # t => pc'[s] = pc[s]
    BY <2>1 DEF CompressInv, CompressPlaces
  <2>3. InIteration(t)'
    BY <2>2 DEF InIteration
  <2>4. SharesApart' /\ SharesTaken' /\ \A n \in Node : Finished(n)' <=> Finished(n)
    BY <1>1, <2>1, <2>2, <2>3, SharesMove DEF CompressInv
  <2>5. comp[u[t]] # u[t]
    BY <1>2 DEF ForestType
  <2>6. ForestType'
    BY <1>1, <2>1 DEF ForestType
  <2> QED BY <1>1, <2>1, <2>2, <2>4, <2>5, <2>6 DEF CompressInv
<1>3. CASE comp[u[t]] = comp[comp[u[t]]]
  <2>1. u' = [u EXCEPT ![t] = 0] /\ pc' = [pc EXCEPT ![t] = "next"]
    BY <1>3 DEF CompressTest, Goto
  <2>2. /\ pc' \in [Thread -> CompressPlaces] /\ pc'[t] = "next"
        /\ \A s \in Thread : s # t => pc'[s] = pc[s] /\ u'[s] = u[s]
    BY <2>1 DEF CompressInv, CompressPlaces, ForestType
  <2>3. SharesApart' /\ SharesTaken'
        /\ \A n \in Node : Finished(n)' <=> Finished(n) \/ n = u[t]
    BY <1>1, <2>2, SharesEnd DEF CompressInv
  <2>4. ForestType'
    BY <1>1, <2>1, NodeNat DEF ForestType
  <2> QED BY <1>1, <1>3, <2>2, <2>3, <2>4 DEF CompressInv
<1> QED BY <1>2, <1>3

\* It is kept by the load of the label's label, which is what the thread
\* then holds.
LEMMA CompressLoads ==
    ASSUME ForestType, Descends, CompressInv,
           NEW t \in Thread, CompressLoad(t)
    PROVE  /\ ForestType' /\ CompressInv'
           /\ label'[t] = comp[comp[u[t]]] /\ \A s \in Thread : s # t => label'[s] = label[s]
<1>1. /\ pc[t] = "load" /\ comp' = comp /\ todo' = todo /\ u' = u
      /\ label' = [label EXCEPT ![t] = comp[comp[u[t]]]]
      /\ pc' = [pc EXCEPT ![t] = "store"]
  BY DEF CompressLoad, Goto
<1>2. /\ pc' \in [Thread -> CompressPlaces] /\ pc'[t] = "store"
      /\ \A s \in Thread : s # t => pc'[s] = pc[s]
  BY <1>1 DEF CompressInv, CompressPlaces
<1>3. InIteration(t) /\ InIteration(t)'
  BY <1>1, <1>2 DEF InIteration
<1>4. SharesApart' /\ SharesTaken' /\ \A n \in Node : Finished(n)' <=> Finished(n)
  BY <1>1, <1>2, <1>3, SharesMove DEF CompressInv
<1>5. /\ label' \in [Thread -> Node] /\ label'[t] = comp[comp[u[t]]]
      /\ \A s \in Thread : s # t => label'[s] = label[s]
  BY <1>1 DEF ForestType
<1>6. label'[t] <= comp[u[t]]
  BY <1>5 DEF ForestType, Descends
<1>7. ForestType'
  BY <1>1, <1>5 DEF ForestType
<1> QED BY <1>1, <1>2, <1>4, <1>5, <1>6, <1>7 DEF CompressInv

\* It is kept by the store, whatever the other threads have compressed
\* since the load: the label written is an ancestor of the one it replaces.
LEMMA CompressStores ==
    ASSUME ForestType, Descends, CompressInv,
           NEW t \in Thread, CompressStore(t)
    PROVE  /\ ForestType' /\ Descends' /\ CompressInv'
           /\ CompressEffect(t)
<1>1. /\ pc[t] = "store" /\ todo' = todo /\ u' = u
      /\ comp' = [comp EXCEPT ![u[t]] = label[t]]
      /\ label' = [label EXCEPT ![t] = 0]
      /\ pc' = [pc EXCEPT ![t] = "test"]
  BY DEF CompressStore, Goto
<1>2. /\ pc' \in [Thread -> CompressPlaces] /\ pc'[t] = "test"
      /\ \A s \in Thread : s # t => pc'[s] = pc[s] /\ label'[s] = label[s]
  BY <1>1 DEF CompressInv, CompressPlaces, ForestType
<1>3. InIteration(t) /\ InIteration(t)'
  BY <1>1, <1>2 DEF InIteration
<1>4. SharesApart' /\ SharesTaken' /\ \A n \in Node : Finished(n)' <=> Finished(n)
  BY <1>1, <1>2, <1>3, SharesMove DEF CompressInv
<1>5. comp[u[t]] # u[t] /\ label[t] <= comp[u[t]]
  BY <1>1 DEF CompressInv
<1>6. comp'[u[t]] = label[t] /\ \A n \in Node : n # u[t] => comp'[n] = comp[n]
  BY <1>1 DEF ForestType
<1>7. ForestType'
  BY <1>1, NodeNat DEF ForestType
<1>8. /\ u[t] \in Node /\ label[t] <= u[t]
  <2>1. u[t] \in Node /\ comp[u[t]] \in Node /\ label[t] \in Node
    BY DEF ForestType
  <2>2. u[t] \in Nat /\ comp[u[t]] \in Nat /\ label[t] \in Nat
    BY <2>1, NodeNat
  <2>3. comp[u[t]] <= u[t]
    BY <2>1 DEF Descends
  <2> QED BY <1>5, <2>1, <2>2, <2>3
<1>9. Descends'
  <2>1. ASSUME NEW n \in Node PROVE comp'[n] <= n
    BY <1>6, <1>8 DEF Descends
  <2> QED BY <2>1 DEF Descends
<1>10. ASSUME NEW s \in Thread
       PROVE  /\ pc'[s] \in {"load", "store"} => comp'[u'[s]] # u'[s]
              /\ pc'[s] = "store" => label'[s] <= comp'[u'[s]]
  <2>1. CASE s = t
    BY <1>2, <2>1
  <2>2. CASE s # t
    <3>1. pc[s] \in {"load", "store"} => InIteration(s)
      BY DEF InIteration
    <3>2. pc[s] \in {"load", "store"} => u[s] # u[t]
      BY <1>3, <2>2, <3>1 DEF CompressInv, SharesApart
    <3>3. u[s] \in Node
      BY DEF ForestType
    <3> QED BY <1>1, <1>2, <1>6, <2>2, <3>2, <3>3 DEF CompressInv
  <2> QED BY <2>1, <2>2
<1>11. ASSUME NEW n \in Node, Finished(n)'
       PROVE  comp'[comp'[n]] = comp'[n]
  <2>1. Finished(n) /\ comp[comp[n]] = comp[n]
    BY <1>4, <1>11 DEF CompressInv
  <2>2. n # u[t]
    BY <1>3, <2>1 DEF Finished
  <2>3. comp[n] # u[t] /\ comp[n] \in Node
    BY <1>5, <2>1 DEF ForestType
  <2> QED BY <1>6, <2>1, <2>2, <2>3
<1> QED BY <1>1, <1>2, <1>4, <1>5, <1>7, <1>9, <1>10, <1>11 DEF CompressInv, CompressEffect

\* It is kept by a thread that has no vertex left and waits at the barrier.
LEMMA CompressLeaves ==
    ASSUME ForestType, Descends, CompressInv,
           NEW t \in Thread, LeaveLoop(t)
    PROVE  ForestType' /\ CompressInv'
<1>1. comp' = comp /\ u' = u /\ label' = label
  BY DEF LeaveLoop
<1>2. "end" \in CompressPlaces
  BY DEF CompressPlaces
<1>3. /\ ForestType' /\ pc' \in [Thread -> CompressPlaces]
      /\ SharesApart' /\ SharesTaken'
      /\ pc'[t] = "end" /\ \A s \in Thread : s # t => pc'[s] = pc[s]
      /\ \A n \in Node : Finished(n)' <=> Finished(n)
  BY <1>2, SharesLeave DEF CompressInv
<1> QED BY <1>1, <1>3 DEF CompressInv

\* So every step of the compress loop keeps it, and a step that changes a
\* label moves it along its own tree.
LEMMA CompressKeeps ==
    ASSUME ForestType, Descends, CompressInv,
           NEW t \in Thread, CompressStep(t)
    PROVE  ForestType' /\ Descends' /\ CompressInv' /\ CompressEffect(t)
<1>1. CASE CompressStore(t)
  BY <1>1, CompressStores
<1>2. CASE ~CompressStore(t)
  <2>1. comp' = comp
    BY <1>2 DEF CompressStep, CompressTest, CompressLoad, LeaveLoop
  <2>2. Descends' /\ CompressEffect(t)
    BY <2>1 DEF Descends, CompressEffect
  <2>3. ForestType' /\ CompressInv'
    BY <1>2, CompressTakes, CompressTests, CompressLoads, CompressLeaves DEF CompressStep
  <2> QED BY <2>2, <2>3
<1> QED BY <1>1, <1>2

\* At the barrier of the loop every label is a root.
LEMMA CompressEnds ==
    ASSUME ForestType, CompressInv, AtBarrier
    PROVE  Flat
<1>1. \A t \in Thread : pc[t] = "end" /\ todo[t] = {} /\ ~InIteration(t)
  BY DEF AtBarrier, CompressInv, SharesTaken, InIteration
<1>2. \A n \in Node : Finished(n)
  BY <1>1 DEF Finished
<1> QED BY <1>2 DEF CompressInv, Flat

-----------------------------------------------------------------------------
\* What the verifier of either kernel asks of the final labels.

\* Max of a set of vertices is one of them, and the greatest.
LEMMA MaxNode ==
    ASSUME NEW S \in SUBSET Node, S # {}
    PROVE  Max(S) \in S /\ \A y \in S : Max(S) >= y
<1> DEFINE T == {k \in Nat : \E x \in S : k = NumNodes - x}
<1>1. \A x \in S : x \in Nat /\ NumNodes - x \in Nat
  BY NumNodesAssumption DEF Node
<1>2. T \in SUBSET Nat /\ T # {}
  BY <1>1
<1>3. \E k \in T : \A l \in T : k <= l
  BY <1>2, NatLeast
<1>4. PICK k \in T : \A l \in T : k <= l
  BY <1>3
<1>5. PICK x \in S : k = NumNodes - x
  BY <1>4
<1>6. \A y \in S : NumNodes - y \in T
  BY <1>1
<1> HIDE DEF T
<1>7. \A y \in S : NumNodes - x <= NumNodes - y
  BY <1>4, <1>5, <1>6
<1>8. \A y \in S : x >= y
  BY <1>1, <1>7, NumNodesAssumption
<1> QED BY <1>8, Zenon DEF Max

\* Labels that stay within components, never exceed their vertices and agree
\* over every edge are the least vertices of the components.
LEMMA AgreeingLabelsAreComponents ==
    ASSUME NEW gr, IsGraph(gr), comp \in [Node -> Node], Descends,
           \A n \in Node : comp[n] \in Component(gr, n),
           \A e \in gr.edges : comp[e[1]] = comp[e[2]]
    PROVE  CCVerifier(gr) /\ \A v \in Node : comp[v] = Min(Component(gr, v))
<1>1. \A v \in Node : \A x \in Component(gr, v) : comp[x] = comp[v]
  BY ConstantOnComponent
<1>2. ASSUME NEW v \in Node PROVE comp[v] = Min(Component(gr, v))
  <2> DEFINE m == Min(Component(gr, v))
  <2>1. Component(gr, v) \in SUBSET Nat /\ Component(gr, v) # {}
    BY ComponentLeast, NodeNat
  <2>2. m \in Component(gr, v) /\ \A y \in Component(gr, v) : m <= y
    BY <2>1, MinNode
  <2>3. m \in Node
    BY <2>2, ComponentLeast
  <2> HIDE DEF m
  <2>4. comp[m] \in Component(gr, v)
    BY <2>2, <2>3, ComponentClass
  <2>5. comp[m] <= m /\ m <= comp[m]
    BY <2>2, <2>3, <2>4 DEF Descends
  <2>6. comp[m] = m
    <3>1. comp[m] \in Nat /\ m \in Nat
      BY <2>3, NodeNat
    <3> QED BY <2>5, <3>1
  <2>7. comp[m] = comp[v]
    BY <1>1, <2>2
  <2> QED BY <2>6, <2>7 DEF m
<1>3. CCVerifier(gr)
  <2> DEFINE Same(l) == {n \in Node : comp[n] = l}
             Source(l) == Max(Same(l))
             labels == {comp[n] : n \in Node}
             Visited(l) == Component(gr, Source(l))
  <2>1. ASSUME NEW l \in labels PROVE Source(l) \in Node /\ comp[Source(l)] = l
    <3>1. Same(l) \in SUBSET Node /\ Same(l) # {}
      OBVIOUS
    <3>2. Max(Same(l)) \in Same(l)
      BY <3>1, MaxNode
    <3> QED BY <3>2
  <2>2. ASSUME NEW v \in Node
        PROVE  comp[v] \in labels /\ v \in Visited(comp[v])
    <3>1. comp[v] \in labels
      OBVIOUS
    <3> DEFINE src == Source(comp[v])
    <3>2. src \in Node /\ comp[src] = comp[v]
      BY <2>1, <3>1
    <3> HIDE DEF src
    <3>3. comp[v] \in Component(gr, v) /\ comp[v] \in Component(gr, src)
      BY <3>2
    <3>4. Component(gr, v) = Component(gr, src)
      BY <3>2, <3>3, ComponentClass
    <3>5. v \in Component(gr, src)
      BY <3>4, ComponentLeast
    <3> QED BY <3>1, <3>5 DEF src
  <2> HIDE DEF Source
  <2>3. \A l \in labels : \A v \in Visited(l) : comp[v] = l
    BY <1>1, <2>1
  <2>4. \A l \in labels : Visited(l) \subseteq Node
    BY <2>1, ComponentLeast
  <2> HIDE DEF labels, Visited
  <2>5. UNION {Visited(l) : l \in labels} = Node
    BY <2>2, <2>4
  <2> QED BY <2>3, <2>5, Zenon DEF CCVerifier, labels, Visited, Source, Same
<1> QED BY <1>2, <1>3

-----------------------------------------------------------------------------
\* Roots.  RootIn(f, v) is Root(v) for the label array f, so that the trees
\* before and after a step can be compared.

RootIn(f, v) ==
    LET chain[k \in 0 .. NumNodes] == IF k = 0 THEN v ELSE f[chain[k - 1]]
    IN  chain[NumNodes]

Labels(f) == f \in [Node -> Node] /\ \A n \in Node : f[n] <= n

\* The chain of labels of v, step by step.
LEMMA ChainSteps ==
    ASSUME NEW f, Labels(f), NEW v \in Node
    PROVE  \E h \in [0 .. NumNodes -> Node] :
              /\ h[0] = v /\ \A k \in 1 .. NumNodes : h[k] = f[h[k - 1]]
              /\ RootIn(f, v) = h[NumNodes]
<1> DEFINE Chain(h) == h = [k \in 0 .. NumNodes |-> IF k = 0 THEN v ELSE f[h[k - 1]]]
<1>1. f \in [Node -> Node] /\ NumNodes \in Nat
  BY NumNodesAssumption DEF Labels
<1>2. PICK h0 : Iterates(h0, f, v, NumNodes, Node)
  BY <1>1, IteratesExist
<1>3. Chain(h0)
  <2>1. h0 = [k \in 0 .. NumNodes |-> h0[k]]
    BY <1>2 DEF Iterates
  <2>2. ASSUME NEW k \in 0 .. NumNodes
        PROVE  h0[k] = IF k = 0 THEN v ELSE f[h0[k - 1]]
    BY <1>1, <1>2 DEF Iterates
  <2> QED BY <2>1, <2>2, Zenon
<1> DEFINE h == CHOOSE b : Chain(b)
<1>4. RootIn(f, v) = h[NumNodes]
  BY Zenon DEF RootIn
<1> HIDE DEF Chain
<1>5. Chain(h)
  BY <1>3
<1> HIDE DEF h
<1>6. /\ DOMAIN h = 0 .. NumNodes
      /\ \A k \in 0 .. NumNodes : h[k] = IF k = 0 THEN v ELSE f[h[k - 1]]
  <2>1. h = [k \in 0 .. NumNodes |-> IF k = 0 THEN v ELSE f[h[k - 1]]]
    BY <1>5, Zenon DEF Chain
  <2> DEFINE e == [k \in 0 .. NumNodes |-> IF k = 0 THEN v ELSE f[h[k - 1]]]
  <2>2. /\ DOMAIN e = 0 .. NumNodes
        /\ \A k \in 0 .. NumNodes : e[k] = IF k = 0 THEN v ELSE f[h[k - 1]]
    OBVIOUS
  <2> HIDE DEF e
  <2>3. h = e
    BY <2>1 DEF e
  <2> QED BY <2>2, <2>3
<1>7. h[0] = v /\ \A k \in 1 .. NumNodes : h[k] = f[h[k - 1]]
  BY <1>1, <1>6
<1>8. \A k \in 0 .. NumNodes : h[k] \in Node
  <2> DEFINE M == {n \in Nat : n <= NumNodes => h[n] \in Node}
  <2>1. 0 \in M
    BY <1>7
  <2>2. ASSUME NEW n \in Nat, n \in M PROVE n + 1 \in M
    BY <1>1, <1>7, <2>2
  <2> HIDE DEF M
  <2>3. Nat \subseteq M
    BY <2>1, <2>2, NatInduct
  <2> QED BY <1>1, <2>3 DEF M
<1>9. h \in [0 .. NumNodes -> Node]
  BY <1>5, <1>6, <1>8, Zenon DEF Chain
<1> QED BY <1>4, <1>7, <1>9

\* A chain ends in a root after NumNodes steps: every step before that lowers
\* the label by one at least.
LEMMA RootFacts ==
    ASSUME NEW f, Labels(f), NEW v \in Node
    PROVE  /\ RootIn(f, v) \in Node
           /\ f[RootIn(f, v)] = RootIn(f, v)
           /\ RootIn(f, v) <= v
           /\ f[v] = v => RootIn(f, v) = v
<1>1. PICK h \in [0 .. NumNodes -> Node] :
              /\ h[0] = v /\ \A k \in 1 .. NumNodes : h[k] = f[h[k - 1]]
              /\ RootIn(f, v) = h[NumNodes]
  BY ChainSteps
<1>2. /\ NumNodes \in Nat
      /\ \A k \in 0 .. NumNodes : h[k] \in Node /\ h[k] \in Nat
      /\ \A n \in Node : f[n] \in Node /\ f[n] <= n /\ f[n] \in Nat
  BY <1>1, NumNodesAssumption, NodeNat DEF Labels
<1> DEFINE M == {n \in Nat : n <= NumNodes =>
                    /\ h[n] <= v
                    /\ f[h[n]] = h[n] \/ h[n] <= v - n
                    /\ f[v] = v => h[n] = v}
<1>3. 0 \in M
  BY <1>1, <1>2, NodeNat
<1>4. ASSUME NEW n \in Nat, n \in M PROVE n + 1 \in M
  <2> SUFFICES ASSUME n + 1 <= NumNodes
               PROVE  /\ h[n + 1] <= v
                      /\ f[h[n + 1]] = h[n + 1] \/ h[n + 1] <= v - (n + 1)
                      /\ f[v] = v => h[n + 1] = v
    OBVIOUS
  <2>1. n \in 0 .. NumNodes /\ n + 1 \in 0 .. NumNodes /\ n + 1 \in 1 .. NumNodes
        /\ (n + 1) - 1 = n
    BY <1>2
  <2>2. h[n + 1] = f[h[n]]
    BY <1>1, <2>1
  <2>3. /\ h[n] <= v
        /\ f[h[n]] = h[n] \/ h[n] <= v - n
        /\ f[v] = v => h[n] = v
    BY <1>4, <2>1, <1>2
  <2>4. h[n] \in Nat /\ h[n + 1] \in Nat /\ h[n] \in Node /\ h[n + 1] <= h[n] /\ v \in Nat
    BY <1>2, <2>1, <2>2, NodeNat
  <2>5. CASE f[h[n]] = h[n]
    BY <2>2, <2>3, <2>5
  <2>6. CASE f[h[n]] # h[n]
    <3>1. h[n] <= v - n /\ h[n + 1] # h[n]
      BY <2>2, <2>3, <2>6
    <3> QED BY <2>2, <2>3, <2>4, <3>1
  <2> QED BY <2>5, <2>6
<1> HIDE DEF M
<1>5. Nat \subseteq M
  BY <1>3, <1>4, NatInduct
<1>6. /\ h[NumNodes] <= v
      /\ f[h[NumNodes]] = h[NumNodes] \/ h[NumNodes] <= v - NumNodes
      /\ f[v] = v => h[NumNodes] = v
  BY <1>2, <1>5 DEF M
<1>7. v - NumNodes < 0 /\ h[NumNodes] \in Nat /\ v \in Nat /\ h[NumNodes] \in Node
  BY <1>2, NumNodesAssumption DEF Node
<1> QED BY <1>1, <1>2, <1>6, <1>7

\* What agrees along every label agrees on a vertex and its root.
LEMMA RootInvariant ==
    ASSUME NEW f, Labels(f), NEW R, \A n \in Node : R[f[n]] = R[n], NEW v \in Node
    PROVE  R[RootIn(f, v)] = R[v]
<1>1. PICK h \in [0 .. NumNodes -> Node] :
              /\ h[0] = v /\ \A k \in 1 .. NumNodes : h[k] = f[h[k - 1]]
              /\ RootIn(f, v) = h[NumNodes]
  BY ChainSteps
<1>2. NumNodes \in Nat
  BY NumNodesAssumption
<1> DEFINE M == {n \in Nat : n <= NumNodes => R[h[n]] = R[v]}
<1>3. 0 \in M
  BY <1>1
<1>4. ASSUME NEW n \in Nat, n \in M PROVE n + 1 \in M
  <2> SUFFICES ASSUME n + 1 <= NumNodes PROVE R[h[n + 1]] = R[v]
    OBVIOUS
  <2>1. n \in 0 .. NumNodes /\ n + 1 \in 1 .. NumNodes /\ (n + 1) - 1 = n
    BY <1>2
  <2>2. h[n + 1] = f[h[n]] /\ h[n] \in Node /\ R[h[n]] = R[v]
    BY <1>1, <1>2, <1>4, <2>1
  <2> QED BY <2>2
<1> HIDE DEF M
<1>5. Nat \subseteq M
  BY <1>3, <1>4, NatInduct
<1> QED BY <1>1, <1>2, <1>5 DEF M

\* Roots are the only function that maps a root to itself and every vertex to
\* what its label is mapped to.
LEMMA RootUnique ==
    ASSUME NEW f, Labels(f), NEW R,
           \A n \in Node : R[f[n]] = R[n],
           \A n \in Node : f[n] = n => R[n] = n
    PROVE  \A v \in Node : RootIn(f, v) = R[v]
<1> SUFFICES ASSUME NEW v \in Node PROVE RootIn(f, v) = R[v]
  OBVIOUS
<1>1. R[RootIn(f, v)] = R[v]
  BY RootInvariant
<1>2. RootIn(f, v) \in Node /\ f[RootIn(f, v)] = RootIn(f, v)
  BY RootFacts
<1> QED BY <1>1, <1>2

\* A vertex and its label have one root.
LEMMA RootOfLabel ==
    ASSUME NEW f, Labels(f), NEW v \in Node
    PROVE  RootIn(f, f[v]) = RootIn(f, v)
<1>1. PICK h \in [0 .. NumNodes -> Node] :
              /\ h[0] = v /\ \A k \in 1 .. NumNodes : h[k] = f[h[k - 1]]
              /\ RootIn(f, v) = h[NumNodes]
  BY ChainSteps
<1>2. f[v] \in Node
  BY DEF Labels
<1>3. PICK l \in [0 .. NumNodes -> Node] :
              /\ l[0] = f[v] /\ \A k \in 1 .. NumNodes : l[k] = f[l[k - 1]]
              /\ RootIn(f, f[v]) = l[NumNodes]
  BY <1>2, ChainSteps
<1>4. NumNodes \in Nat
  BY NumNodesAssumption
<1> DEFINE M == {n \in Nat : n <= NumNodes => l[n] = f[h[n]]}
<1>5. 0 \in M
  BY <1>1, <1>3
<1>6. ASSUME NEW n \in Nat, n \in M PROVE n + 1 \in M
  <2> SUFFICES ASSUME n + 1 <= NumNodes PROVE l[n + 1] = f[h[n + 1]]
    OBVIOUS
  <2>1. n \in 0 .. NumNodes /\ n + 1 \in 1 .. NumNodes /\ (n + 1) - 1 = n
    BY <1>4
  <2>2. h[n + 1] = f[h[n]] /\ l[n + 1] = f[l[n]] /\ l[n] = f[h[n]]
    BY <1>1, <1>3, <1>4, <1>6, <2>1
  <2> QED BY <2>2
<1> HIDE DEF M
<1>7. Nat \subseteq M
  BY <1>5, <1>6, NatInduct
<1>8. l[NumNodes] = f[h[NumNodes]]
  BY <1>4, <1>7 DEF M
<1>9. f[RootIn(f, v)] = RootIn(f, v)
  BY RootFacts
<1> QED BY <1>1, <1>3, <1>8, <1>9

\* Label array h is f with the label of n replaced by l.
Moves(f, h, n, l) ==
    h \in [Node -> Node] /\ h[n] = l /\ \A v \in Node : v # n => h[v] = f[v]

\* Moving a vertex that is no root to a lower label of its tree leaves every
\* vertex in its tree.
LEMMA CompressKeepsRoots ==
    ASSUME NEW f, Labels(f), NEW n \in Node, NEW l \in Node,
           l <= n, f[n] # n, l # n, RootIn(f, l) = RootIn(f, n),
           NEW h, Moves(f, h, n, l)
    PROVE  Labels(h) /\ \A v \in Node : RootIn(h, v) = RootIn(f, v)
<1> DEFINE R == [v \in Node |-> RootIn(f, v)]
<1>1. h[n] = l /\ (\A v \in Node : v # n => h[v] = f[v]) /\ h \in [Node -> Node]
  BY DEF Moves
<1>2. \A v \in Node : R[v] = RootIn(f, v)
  OBVIOUS
<1> HIDE DEF R
<1>3. Labels(h)
  BY <1>1 DEF Labels
<1>4. ASSUME NEW v \in Node PROVE R[h[v]] = R[v] /\ (h[v] = v => R[v] = v)
  <2>1. CASE v = n
    BY <1>1, <1>2, <2>1
  <2>2. CASE v # n
    <3>1. h[v] = f[v] /\ f[v] \in Node
      BY <1>1, <2>2 DEF Labels
    <3> QED BY <1>2, <3>1, RootOfLabel, RootFacts
  <2> QED BY <2>1, <2>2
<1>5. \A v \in Node : RootIn(h, v) = R[v]
  BY <1>3, <1>4, RootUnique
<1> QED BY <1>2, <1>3, <1>5

\* Linking a root below a lower label joins its tree to that label's, and
\* changes no other.
LEMMA LinkJoinsRoots ==
    ASSUME NEW f, Labels(f), NEW n \in Node, NEW l \in Node, l < n, f[n] = n,
           NEW h, Moves(f, h, n, l)
    PROVE  /\ Labels(h)
           /\ \A v \in Node : /\ RootIn(f, v) = n => RootIn(h, v) = RootIn(f, l)
                              /\ RootIn(f, v) # n => RootIn(h, v) = RootIn(f, v)
<1> DEFINE R == [v \in Node |-> IF RootIn(f, v) = n THEN RootIn(f, l) ELSE RootIn(f, v)]
<1>1. h[n] = l /\ (\A v \in Node : v # n => h[v] = f[v]) /\ h \in [Node -> Node]
  BY DEF Moves
<1>2. \A v \in Node : R[v] = IF RootIn(f, v) = n THEN RootIn(f, l) ELSE RootIn(f, v)
  OBVIOUS
<1> HIDE DEF R
<1>3. l # n /\ l <= n /\ l \in Nat /\ n \in Nat
  BY NodeNat
<1>4. Labels(h)
  BY <1>1, <1>3 DEF Labels
<1>5. RootIn(f, n) = n
  BY RootFacts
<1>6. RootIn(f, l) # n
  <2>1. RootIn(f, l) <= l /\ RootIn(f, l) \in Nat
    BY RootFacts, NodeNat
  <2> QED BY <1>3, <2>1
<1>7. ASSUME NEW v \in Node PROVE R[h[v]] = R[v] /\ (h[v] = v => R[v] = v)
  <2>1. CASE v = n
    BY <1>1, <1>2, <1>3, <1>5, <1>6, <2>1
  <2>2. CASE v # n
    <3>1. h[v] = f[v] /\ f[v] \in Node
      BY <1>1, <2>2 DEF Labels
    <3>2. RootIn(f, f[v]) = RootIn(f, v) /\ (f[v] = v => RootIn(f, v) = v)
      BY RootOfLabel, RootFacts
    <3> QED BY <1>2, <2>2, <3>1, <3>2
  <2> QED BY <2>1, <2>2
<1>8. \A v \in Node : RootIn(h, v) = R[v]
  BY <1>4, <1>7, RootUnique
<1> QED BY <1>2, <1>4, <1>8
=============================================================================
