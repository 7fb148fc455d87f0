----------------------- MODULE ShiloachVishkinProofs -----------------------
(***************************************************************************)
(* Theorems about ShiloachVishkin for every set of graphs and every set of *)
(* threads: however hooks race and are lost, the labels stay within their  *)
(* components, every pass starts from flat trees and follows until no edge *)
(* joins two of them, and the result is what the verifier accepts.         *)
(***************************************************************************)
EXTENDS ShiloachVishkin, LabelForestProofs

HookPlaces == {"next", "edge", "readV", "if", "hook", "end"}

\* What a thread knows of the labels it has read, in the hooking loop.
LocalsSound(t) ==
    /\ pc[t] \in {"edge", "readV", "if", "hook"} => rem[t] \subseteq out_neigh(g, u[t])
    /\ pc[t] \in {"readV", "if", "hook"} =>
          rem[t] # {} /\ comp_u[t] \in Component(g, u[t])
    /\ pc[t] \in {"if", "hook"} => comp_v[t] \in Component(g, Min(rem[t]))
    /\ pc[t] = "hook" => comp_u[t] # comp_v[t]

\* The edge is still to be examined in this pass.
Pending(x, y) ==
    \E t \in Thread : \/ x \in todo[t]
                      \/ InIteration(t) /\ u[t] = x /\ y \in rem[t]

\* As long as a pass has hooked nothing, the labels are those it started with:
\* the trees are flat, what a thread has read is still true, and each edge that
\* was examined joins two vertices with one label.
QuietPass ==
    /\ Flat
    /\ \A t \in Thread :
          /\ pc[t] \in {"readV", "if"} => comp_u[t] = comp[u[t]]
          /\ pc[t] = "if" => comp_v[t] = comp[Min(rem[t])]
    /\ \A e \in g.edges : comp[e[1]] = comp[e[2]] \/ Pending(e[1], e[2])

Agree == \A e \in g.edges : comp[e[1]] = comp[e[2]]

HookInv ==
    /\ pc \in [Thread -> HookPlaces]
    /\ SharesApart /\ SharesTaken
    /\ \A t \in Thread : LocalsSound(t)
    /\ ~change => QuietPass

SVCompressInv ==
    /\ CompressInv
    /\ \A t \in Thread : pc[t] = "store" => label[t] \in Component(g, u[t])
    /\ ~change => /\ Flat /\ Agree
                  /\ \A t \in Thread : pc[t] \notin {"load", "store"}

SerialInv ==
    /\ pc = [t \in Thread |-> "end"]
    /\ Flat
    /\ ~change => Agree

Typed ==
    /\ g \in Graphs /\ change \in BOOLEAN
    /\ ForestType
    /\ rem \in [Thread -> SUBSET Node]
    /\ comp_u \in [Thread -> Node]
    /\ comp_v \in [Thread -> Node]

InComponent == \A n \in Node : comp[n] \in Component(g, n)

IInv ==
    /\ Typed /\ Descends /\ InComponent
    /\ phase \in {"while", "hook", "compress", "done"}
    /\ phase = "hook" => HookInv
    /\ phase = "compress" => SVCompressInv
    /\ phase \in {"while", "done"} => SerialInv
    /\ phase = "done" => ~change

-----------------------------------------------------------------------------

\* What type correctness says of the graph the kernel runs on.
LEMMA GraphFacts ==
    ASSUME Typed
    PROVE  /\ IsGraph(g)
           /\ \A e \in g.edges : e[1] \in Node /\ e[2] \in out_neigh(g, e[1]) /\ e = <<e[1], e[2]>>
           /\ \A x \in Node : out_neigh(g, x) \subseteq Node
           /\ \A x \in Node : \A y \in out_neigh(g, x) : Linked(g, x, y)
<1>1. IsGraph(g)
  BY GraphsAssumption DEF Typed
<1>2. \A e \in g.edges : e \in Node \X Node
  BY <1>1 DEF IsGraph
<1>3. \A e \in g.edges : e[1] \in Node /\ e[2] \in Node /\ e = <<e[1], e[2]>>
  BY <1>2
<1> QED BY <1>1, <1>3 DEF out_neigh, Linked

\* The steps that read and write nothing but a thread's locals leave what
\* another thread knows as it is.
LEMMA TakeKeeps ==
    ASSUME Typed, HookInv, NEW t \in Thread, Take(t)
    PROVE  Typed' /\ HookInv'
<1>1. /\ pc[t] = "next" /\ todo[t] # {}
      /\ u' = [u EXCEPT ![t] = Min(todo[t])]
      /\ todo' = [todo EXCEPT ![t] = @ \ {Min(@)}]
      /\ pc' = [pc EXCEPT ![t] = "edge"]
      /\ rem' = [rem EXCEPT ![t] = out_neigh(g, Min(todo[t]))]
      /\ g' = g /\ change' = change /\ comp' = comp /\ label' = label
      /\ comp_u' = comp_u /\ comp_v' = comp_v
  BY DEF Take, TakeVertex, Goto
<1>2. /\ pc' \in [Thread -> HookPlaces] /\ pc'[t] = "edge"
      /\ \A s \in Thread : s # t => pc'[s] = pc[s]
  BY <1>1 DEF HookInv, HookPlaces
<1>3. InIteration(t)' /\ ~InIteration(t)
      /\ \A s \in Thread : s # t => (InIteration(s)' <=> InIteration(s))
  BY <1>1, <1>2 DEF InIteration
<1>4. /\ todo' \in [Thread -> SUBSET Node] /\ u' \in [Thread -> Node]
      /\ u'[t] = Min(todo[t]) /\ u'[t] \in todo[t]
      /\ todo'[t] = todo[t] \ {u'[t]}
      /\ \A s \in Thread : s # t => u'[s] = u[s] /\ todo'[s] = todo[s]
      /\ SharesApart' /\ SharesTaken'
  BY <1>1, <1>2, <1>3, SharesTake DEF HookInv, Typed
<1>5. u'[t] \in Node /\ out_neigh(g, u'[t]) \subseteq Node
  BY <1>4, GraphFacts DEF Typed, ForestType
<1>6. /\ rem' \in [Thread -> SUBSET Node] /\ rem'[t] = out_neigh(g, u'[t])
      /\ \A s \in Thread : s # t => rem'[s] = rem[s]
  BY <1>1, <1>4, <1>5 DEF Typed
<1>7. Typed'
  BY <1>1, <1>4, <1>6 DEF Typed, ForestType
<1>8. \A s \in Thread : LocalsSound(s)'
  <2> SUFFICES ASSUME NEW s \in Thread PROVE LocalsSound(s)'
    OBVIOUS
  <2>1. CASE s = t
    BY <1>1, <1>2, <1>6, <2>1 DEF LocalsSound
  <2>2. CASE s # t
    <3>1. LocalsSound(s)
      BY DEF HookInv
    <3> QED BY <1>1, <1>2, <1>4, <1>6, <2>2, <3>1 DEF LocalsSound
  <2> QED BY <2>1, <2>2
<1>9. ASSUME ~change PROVE QuietPass'
  <2>1. QuietPass
    BY <1>9 DEF HookInv
  <2>2. \A s \in Thread :
          /\ pc'[s] \in {"readV", "if"} => comp_u'[s] = comp'[u'[s]]
          /\ pc'[s] = "if" => comp_v'[s] = comp'[Min(rem'[s])]
    BY <1>1, <1>2, <1>4, <1>6, <2>1 DEF QuietPass
  <2>3. ASSUME NEW e \in g.edges, Pending(e[1], e[2])
        PROVE  Pending(e[1], e[2])'
    <3>1. PICK s \in Thread : \/ e[1] \in todo[s]
                              \/ InIteration(s) /\ u[s] = e[1] /\ e[2] \in rem[s]
      BY <2>3 DEF Pending
    <3>2. CASE s # t
      BY <1>3, <1>4, <1>6, <3>1, <3>2 DEF Pending
    <3>3. CASE s = t /\ e[1] = u'[t]
      <4>1. e[2] \in rem'[t]
        BY <1>6, <3>3, GraphFacts
      <4> QED BY <1>3, <3>3, <4>1 DEF Pending
    <3>4. CASE s = t /\ e[1] # u'[t]
      BY <1>3, <1>4, <3>1, <3>4 DEF Pending
    <3> QED BY <3>2, <3>3, <3>4
  <2>4. Flat'
    BY <1>1, <2>1 DEF QuietPass, Flat
  <2> QED BY <1>1, <2>1, <2>2, <2>3, <2>4 DEF QuietPass
<1> QED BY <1>1, <1>2, <1>4, <1>7, <1>8, <1>9 DEF HookInv

\* A thread that leaves the iteration of a vertex keeps the invariant of
\* the hooking pass: an edge is no longer in any thread's hands only when
\* it has been looked at.
LEMMA EndIterationKeeps ==
    ASSUME Typed, HookInv, NEW t \in Thread, EndIteration(t)
    PROVE  Typed' /\ HookInv'
<1>1. /\ pc[t] = "edge" /\ rem[t] = {}
      /\ u' = [u EXCEPT ![t] = 0]
      /\ pc' = [pc EXCEPT ![t] = "next"]
      /\ g' = g /\ change' = change /\ comp' = comp /\ todo' = todo /\ label' = label
      /\ rem' = rem /\ comp_u' = comp_u /\ comp_v' = comp_v
  BY DEF EndIteration, Goto, locals
<1>2. /\ pc' \in [Thread -> HookPlaces] /\ pc'[t] = "next"
      /\ \A s \in Thread : s # t => pc'[s] = pc[s]
  BY <1>1 DEF HookInv, HookPlaces
<1>3. InIteration(t) /\ \A s \in Thread : s # t => (InIteration(s)' <=> InIteration(s))
  BY <1>1, <1>2 DEF InIteration
<1>4. u' \in [Thread -> Node] /\ \A s \in Thread : s # t => u'[s] = u[s]
  BY <1>1, NodeNat DEF Typed, ForestType
<1>5. SharesApart' /\ SharesTaken'
  BY <1>1, <1>2, <1>3, <1>4, SharesEnd DEF HookInv, Typed
<1>6. Typed'
  BY <1>1, <1>4 DEF Typed, ForestType
<1>7. \A s \in Thread : LocalsSound(s)'
  <2> SUFFICES ASSUME NEW s \in Thread PROVE LocalsSound(s)'
    OBVIOUS
  <2>1. LocalsSound(s)
    BY DEF HookInv
  <2> QED BY <1>1, <1>2, <1>4, <2>1 DEF LocalsSound
<1>8. ASSUME ~change PROVE QuietPass'
  <2>1. QuietPass
    BY <1>8 DEF HookInv
  <2>2. \A s \in Thread :
          /\ pc'[s] \in {"readV", "if"} => comp_u'[s] = comp'[u'[s]]
          /\ pc'[s] = "if" => comp_v'[s] = comp'[Min(rem'[s])]
    BY <1>1, <1>2, <1>4, <2>1 DEF QuietPass
  <2>3. \A e \in g.edges : Pending(e[1], e[2]) => Pending(e[1], e[2])'
    BY <1>1, <1>3, <1>4 DEF Pending
  <2>4. Flat'
    BY <1>1, <2>1 DEF QuietPass, Flat
  <2> QED BY <1>1, <2>1, <2>2, <2>3, <2>4 DEF QuietPass
<1> QED BY <1>1, <1>2, <1>5, <1>6, <1>7, <1>8 DEF HookInv

\* Reading the label of u keeps it.
LEMMA ReadUKeeps ==
    ASSUME Typed, InComponent, HookInv, NEW t \in Thread, ReadU(t)
    PROVE  Typed' /\ HookInv'
<1>1. /\ pc[t] = "edge" /\ rem[t] # {}
      /\ comp_u' = [comp_u EXCEPT ![t] = comp[u[t]]]
      /\ pc' = [pc EXCEPT ![t] = "readV"]
      /\ g' = g /\ change' = change /\ comp' = comp /\ todo' = todo /\ label' = label
      /\ u' = u /\ rem' = rem /\ comp_v' = comp_v
  BY DEF ReadU, Goto
<1>2. /\ pc' \in [Thread -> HookPlaces] /\ pc'[t] = "readV"
      /\ \A s \in Thread : s # t => pc'[s] = pc[s]
  BY <1>1 DEF HookInv, HookPlaces
<1>3. \A s \in Thread : InIteration(s)' <=> InIteration(s)
  BY <1>1, <1>2 DEF InIteration
<1>4. InIteration(t) /\ InIteration(t)'
  BY <1>1, <1>3 DEF InIteration
<1>5. SharesApart' /\ SharesTaken'
  BY <1>1, <1>2, <1>4, SharesMove DEF HookInv, Typed
<1>6. /\ comp_u' \in [Thread -> Node] /\ comp_u'[t] = comp[u[t]]
      /\ \A s \in Thread : s # t => comp_u'[s] = comp_u[s]
  BY <1>1 DEF Typed, ForestType
<1>7. Typed'
  BY <1>1, <1>6 DEF Typed, ForestType
<1>8. \A s \in Thread : LocalsSound(s)'
  <2> SUFFICES ASSUME NEW s \in Thread PROVE LocalsSound(s)'
    OBVIOUS
  <2>1. LocalsSound(s)
    BY DEF HookInv
  <2>2. comp[u[t]] \in Component(g, u[t])
    BY DEF InComponent, Typed, ForestType
  <2> QED BY <1>1, <1>2, <1>6, <2>1, <2>2 DEF LocalsSound
<1>9. ASSUME ~change PROVE QuietPass'
  <2>1. QuietPass
    BY <1>9 DEF HookInv
  <2>2. \A s \in Thread :
          /\ pc'[s] \in {"readV", "if"} => comp_u'[s] = comp'[u'[s]]
          /\ pc'[s] = "if" => comp_v'[s] = comp'[Min(rem'[s])]
    BY <1>1, <1>2, <1>6, <2>1 DEF QuietPass
  <2>3. \A e \in g.edges : Pending(e[1], e[2]) => Pending(e[1], e[2])'
    BY <1>1, <1>3 DEF Pending
  <2>4. Flat'
    BY <1>1, <2>1 DEF QuietPass, Flat
  <2> QED BY <1>1, <2>1, <2>2, <2>3, <2>4 DEF QuietPass
<1> QED BY <1>1, <1>2, <1>5, <1>7, <1>8, <1>9 DEF HookInv

\* Reading the label of v keeps it.
LEMMA ReadVKeeps ==
    ASSUME Typed, InComponent, HookInv, NEW t \in Thread, ReadV(t)
    PROVE  Typed' /\ HookInv'
<1>1. /\ pc[t] = "readV"
      /\ comp_v' = [comp_v EXCEPT ![t] = comp[Min(rem[t])]]
      /\ pc' = [pc EXCEPT ![t] = "if"]
      /\ g' = g /\ change' = change /\ comp' = comp /\ todo' = todo /\ label' = label
      /\ u' = u /\ rem' = rem /\ comp_u' = comp_u
  BY DEF ReadV, Goto
<1>2. /\ pc' \in [Thread -> HookPlaces] /\ pc'[t] = "if"
      /\ \A s \in Thread : s # t => pc'[s] = pc[s]
  BY <1>1 DEF HookInv, HookPlaces
<1>3. \A s \in Thread : InIteration(s)' <=> InIteration(s)
  BY <1>1, <1>2 DEF InIteration
<1>4. InIteration(t) /\ InIteration(t)'
  BY <1>1, <1>3 DEF InIteration
<1>5. SharesApart' /\ SharesTaken'
  BY <1>1, <1>2, <1>4, SharesMove DEF HookInv, Typed
<1>6. rem[t] \in SUBSET Node /\ rem[t] # {}
  BY <1>1 DEF Typed, HookInv, LocalsSound
<1>7. Min(rem[t]) \in Node
  BY <1>6, MinNode, NodeNat
<1>8. /\ comp_v' \in [Thread -> Node] /\ comp_v'[t] = comp[Min(rem[t])]
      /\ \A s \in Thread : s # t => comp_v'[s] = comp_v[s]
  BY <1>1, <1>7 DEF Typed, ForestType
<1>9. Typed'
  BY <1>1, <1>8 DEF Typed, ForestType
<1>10. \A s \in Thread : LocalsSound(s)'
  <2> SUFFICES ASSUME NEW s \in Thread PROVE LocalsSound(s)'
    OBVIOUS
  <2>1. LocalsSound(s)
    BY DEF HookInv
  <2>2. comp[Min(rem[t])] \in Component(g, Min(rem[t]))
    BY <1>7 DEF InComponent
  <2> QED BY <1>1, <1>2, <1>8, <2>1, <2>2 DEF LocalsSound
<1>11. ASSUME ~change PROVE QuietPass'
  <2>1. QuietPass
    BY <1>11 DEF HookInv
  <2>2. \A s \in Thread :
          /\ pc'[s] \in {"readV", "if"} => comp_u'[s] = comp'[u'[s]]
          /\ pc'[s] = "if" => comp_v'[s] = comp'[Min(rem'[s])]
    BY <1>1, <1>2, <1>8, <2>1 DEF QuietPass
  <2>3. \A e \in g.edges : Pending(e[1], e[2]) => Pending(e[1], e[2])'
    BY <1>1, <1>3 DEF Pending
  <2>4. Flat'
    BY <1>1, <2>1 DEF QuietPass, Flat
  <2> QED BY <1>1, <2>1, <2>2, <2>3, <2>4 DEF QuietPass
<1> QED BY <1>1, <1>2, <1>5, <1>9, <1>10, <1>11 DEF HookInv

\* NextNeighbor, in the words of the lemmas.
LEMMA NextNeighborEffect ==
    ASSUME Typed, HookInv, NEW t \in Thread, pc[t] \in {"if", "hook"}, NextNeighbor(t)
    PROVE  /\ pc' \in [Thread -> HookPlaces] /\ pc'[t] = "edge"
           /\ \A s \in Thread : s # t => pc'[s] = pc[s]
           /\ rem' \in [Thread -> SUBSET Node] /\ rem'[t] = rem[t] \ {Min(rem[t])}
           /\ \A s \in Thread : s # t => rem'[s] = rem[s]
           /\ comp_u' \in [Thread -> Node] /\ comp_v' \in [Thread -> Node]
           /\ \A s \in Thread : s # t => comp_u'[s] = comp_u[s] /\ comp_v'[s] = comp_v[s]
           /\ \A s \in Thread : InIteration(s)' <=> InIteration(s)
           /\ InIteration(t)
<1>1. /\ rem' = [rem EXCEPT ![t] = @ \ {Min(@)}]
      /\ comp_u' = [comp_u EXCEPT ![t] = 0]
      /\ comp_v' = [comp_v EXCEPT ![t] = 0]
      /\ pc' = [pc EXCEPT ![t] = "edge"]
  BY DEF NextNeighbor, Goto
<1>2. /\ pc' \in [Thread -> HookPlaces] /\ pc'[t] = "edge"
      /\ \A s \in Thread : s # t => pc'[s] = pc[s]
  BY <1>1 DEF HookInv, HookPlaces
<1>3. (\A s \in Thread : InIteration(s)' <=> InIteration(s)) /\ InIteration(t)
  BY <1>2 DEF InIteration
<1>4. rem[t] \in SUBSET Node
  BY DEF Typed
<1> QED BY <1>1, <1>2, <1>3, <1>4, NodeNat DEF Typed

\* The test and the hook keep it, however stale the labels the thread
\* holds: an edge whose hook another thread overwrites, or which needs
\* none, stays accounted for by the change flag or the equal labels of its
\* ends.
LEMMA TestKeeps ==
    ASSUME Typed, HookInv, NEW t \in Thread, Test(t)
    PROVE  Typed' /\ HookInv'
<1>1. /\ pc[t] = "if"
      /\ g' = g /\ change' = change /\ comp' = comp /\ todo' = todo /\ label' = label
      /\ u' = u
  BY DEF Test
<1>2. CASE comp_u[t] # comp_v[t] /\ high_comp(t) = comp[high_comp(t)]
  <2>1. /\ pc' = [pc EXCEPT ![t] = "hook"]
        /\ rem' = rem /\ comp_u' = comp_u /\ comp_v' = comp_v
    BY <1>2 DEF Test, Goto, locals
  <2>2. /\ pc' \in [Thread -> HookPlaces] /\ pc'[t] = "hook"
        /\ \A s \in Thread : s # t => pc'[s] = pc[s]
    BY <2>1 DEF HookInv, HookPlaces
  <2>3. /\ \A s \in Thread : InIteration(s)' <=> InIteration(s)
        /\ InIteration(t) /\ InIteration(t)'
    BY <1>1, <2>2 DEF InIteration
  <2>4. SharesApart' /\ SharesTaken'
    BY <1>1, <2>2, <2>3, SharesMove DEF HookInv, Typed
  <2>5. Typed'
    BY <1>1, <2>1 DEF Typed, ForestType
  <2>6. \A s \in Thread : LocalsSound(s)'
    <3> SUFFICES ASSUME NEW s \in Thread PROVE LocalsSound(s)'
      OBVIOUS
    <3>1. LocalsSound(s)
      BY DEF HookInv
    <3> QED BY <1>1, <1>2, <2>1, <2>2, <3>1 DEF LocalsSound
  <2>7. ASSUME ~change PROVE QuietPass'
    <3>1. QuietPass
      BY <2>7 DEF HookInv
    <3>2. \A s \in Thread :
            /\ pc'[s] \in {"readV", "if"} => comp_u'[s] = comp'[u'[s]]
            /\ pc'[s] = "if" => comp_v'[s] = comp'[Min(rem'[s])]
      BY <1>1, <2>1, <2>2, <3>1 DEF QuietPass
    <3>3. \A e \in g.edges : Pending(e[1], e[2]) => Pending(e[1], e[2])'
      BY <1>1, <2>1, <2>3 DEF Pending
    <3>4. Flat'
      BY <1>1, <3>1 DEF QuietPass, Flat
    <3> QED BY <1>1, <3>1, <3>2, <3>3, <3>4 DEF QuietPass
  <2> QED BY <1>1, <2>2, <2>4, <2>5, <2>6, <2>7 DEF HookInv
<1>3. CASE ~(comp_u[t] # comp_v[t] /\ high_comp(t) = comp[high_comp(t)])
  <2>1. NextNeighbor(t)
    BY <1>3 DEF Test
  <2>2. /\ pc' \in [Thread -> HookPlaces] /\ pc'[t] = "edge"
        /\ \A s \in Thread : s # t => pc'[s] = pc[s]
        /\ rem' \in [Thread -> SUBSET Node] /\ rem'[t] = rem[t] \ {Min(rem[t])}
        /\ \A s \in Thread : s # t => rem'[s] = rem[s]
        /\ comp_u' \in [Thread -> Node] /\ comp_v' \in [Thread -> Node]
        /\ \A s \in Thread : s # t => comp_u'[s] = comp_u[s] /\ comp_v'[s] = comp_v[s]
        /\ \A s \in Thread : InIteration(s)' <=> InIteration(s)
        /\ InIteration(t)
    BY <1>1, <2>1, NextNeighborEffect
  <2>3. SharesApart' /\ SharesTaken'
    BY <1>1, <2>2, SharesMove DEF HookInv, Typed
  <2>4. Typed'
    BY <1>1, <2>2 DEF Typed, ForestType
  <2>5. \A s \in Thread : LocalsSound(s)'
    <3> SUFFICES ASSUME NEW s \in Thread PROVE LocalsSound(s)'
      OBVIOUS
    <3>1. LocalsSound(s)
      BY DEF HookInv
    <3> QED BY <1>1, <2>2, <3>1 DEF LocalsSound
  <2>6. ASSUME ~change PROVE QuietPass'
    <3>1. QuietPass
      BY <2>6 DEF HookInv
    <3>2. \A s \in Thread :
            /\ pc'[s] \in {"readV", "if"} => comp_u'[s] = comp'[u'[s]]
            /\ pc'[s] = "if" => comp_v'[s] = comp'[Min(rem'[s])]
      BY <1>1, <2>2, <3>1 DEF QuietPass
    <3>3. comp[u[t]] = comp[Min(rem[t])]
      <4>1. comp_u[t] = comp[u[t]] /\ comp_v[t] = comp[Min(rem[t])]
        BY <1>1, <3>1 DEF QuietPass
      <4>2. u[t] \in Node /\ Min(rem[t]) \in Node
        <5>1. rem[t] \in SUBSET Node /\ rem[t] # {}
          BY <1>1 DEF Typed, HookInv, LocalsSound
        <5> QED BY <5>1, MinNode, NodeNat DEF Typed, ForestType
      <4>3. comp[comp_u[t]] = comp_u[t] /\ comp[comp_v[t]] = comp_v[t]
        BY <3>1, <4>1, <4>2 DEF QuietPass, Flat
      <4>4. comp[high_comp(t)] = high_comp(t)
        BY <4>3 DEF high_comp
      <4> QED BY <1>3, <4>1, <4>4
    <3>4. ASSUME NEW e \in g.edges, Pending(e[1], e[2]),
                 ~(e[1] = u[t] /\ e[2] = Min(rem[t]))
          PROVE  Pending(e[1], e[2])'
      BY <1>1, <2>2, <3>4 DEF Pending
    <3>5. \A e \in g.edges : comp'[e[1]] = comp'[e[2]] \/ Pending(e[1], e[2])'
      BY <1>1, <3>1, <3>3, <3>4 DEF QuietPass
    <3>6. Flat'
      BY <1>1, <3>1 DEF QuietPass, Flat
    <3> QED BY <1>1, <3>2, <3>5, <3>6 DEF QuietPass
  <2> QED BY <1>1, <2>2, <2>3, <2>4, <2>5, <2>6 DEF HookInv
<1> QED BY <1>2, <1>3

\* A hook, even a late one, puts a vertex below a smaller one of its component.
LEMMA HookKeeps ==
    ASSUME Typed, Descends, InComponent, HookInv, NEW t \in Thread, Hook(t)
    PROVE  Typed' /\ Descends' /\ InComponent' /\ HookInv'
<1>1. /\ pc[t] = "hook" /\ change' = TRUE
      /\ comp' = [comp EXCEPT ![high_comp(t)] = low_comp(t)]
      /\ NextNeighbor(t)
      /\ g' = g /\ todo' = todo /\ label' = label /\ u' = u
  BY DEF Hook
<1>2. /\ pc' \in [Thread -> HookPlaces] /\ pc'[t] = "edge"
      /\ \A s \in Thread : s # t => pc'[s] = pc[s]
      /\ rem' \in [Thread -> SUBSET Node] /\ rem'[t] = rem[t] \ {Min(rem[t])}
      /\ \A s \in Thread : s # t => rem'[s] = rem[s]
      /\ comp_u' \in [Thread -> Node] /\ comp_v' \in [Thread -> Node]
      /\ \A s \in Thread : s # t => comp_u'[s] = comp_u[s] /\ comp_v'[s] = comp_v[s]
      /\ \A s \in Thread : InIteration(s)' <=> InIteration(s)
      /\ InIteration(t)
  BY <1>1, NextNeighborEffect
<1>3. /\ comp_u[t] \in Node /\ comp_v[t] \in Node /\ comp_u[t] # comp_v[t]
      /\ comp_u[t] \in Int /\ comp_v[t] \in Int
  <2>1. comp_u[t] \in Node /\ comp_v[t] \in Node
    BY DEF Typed
  <2>2. comp_u[t] # comp_v[t]
    BY <1>1 DEF HookInv, LocalsSound
  <2>3. comp_u[t] \in Nat /\ comp_v[t] \in Nat
    BY <2>1, NodeNat
  <2> QED BY <2>1, <2>2, <2>3
<1>4. \/ high_comp(t) = comp_u[t] /\ low_comp(t) = comp_v[t]
      \/ high_comp(t) = comp_v[t] /\ low_comp(t) = comp_u[t]
  BY <1>3 DEF high_comp, low_comp
<1>5. high_comp(t) \in Node /\ low_comp(t) \in Node /\ low_comp(t) <= high_comp(t)
  BY <1>3 DEF high_comp, low_comp
<1>6. Component(g, comp_u[t]) = Component(g, comp_v[t])
  <2>1. rem[t] \in SUBSET Node /\ rem[t] # {} /\ rem[t] \subseteq out_neigh(g, u[t])
        /\ comp_u[t] \in Component(g, u[t]) /\ comp_v[t] \in Component(g, Min(rem[t]))
    BY <1>1 DEF Typed, HookInv, LocalsSound
  <2>2. Min(rem[t]) \in rem[t]
    BY <2>1, MinNode, NodeNat
  <2>3. u[t] \in Node /\ Min(rem[t]) \in Node /\ Linked(g, u[t], Min(rem[t]))
    BY <2>1, <2>2, GraphFacts DEF Typed, ForestType
  <2>4. Min(rem[t]) \in Component(g, u[t])
    BY <2>3, ComponentLeast, GraphFacts
  <2> QED BY <2>1, <2>3, <2>4, ComponentClass, GraphFacts
<1>7. low_comp(t) \in Component(g, high_comp(t))
  BY <1>3, <1>4, <1>6, ComponentLeast, GraphFacts
<1>8. comp'[high_comp(t)] = low_comp(t)
      /\ \A n \in Node : n # high_comp(t) => comp'[n] = comp[n]
  BY <1>1, <1>5 DEF Typed, ForestType
<1>9. Typed'
  BY <1>1, <1>2, <1>5 DEF Typed, ForestType
<1>10. Descends'
  <2>1. ASSUME NEW n \in Node PROVE comp'[n] <= n
    BY <1>5, <1>8 DEF Descends
  <2> QED BY <2>1 DEF Descends
<1>11. InComponent'
  <2>1. ASSUME NEW n \in Node PROVE comp'[n] \in Component(g, n)
    BY <1>7, <1>8 DEF InComponent
  <2> QED BY <1>1, <2>1 DEF InComponent
<1>12. SharesApart' /\ SharesTaken'
  BY <1>1, <1>2, SharesMove DEF HookInv, Typed
<1>13. \A s \in Thread : LocalsSound(s)'
  <2> SUFFICES ASSUME NEW s \in Thread PROVE LocalsSound(s)'
    OBVIOUS
  <2>1. LocalsSound(s)
    BY DEF HookInv
  <2> QED BY <1>1, <1>2, <2>1 DEF LocalsSound
<1> QED BY <1>1, <1>2, <1>9, <1>10, <1>11, <1>12, <1>13 DEF HookInv

\* A thread that has no vertex left keeps it.
LEMMA LeaveHookKeeps ==
    ASSUME Typed, HookInv, NEW t \in Thread, LeaveLoop(t),
           UNCHANGED <<g, phase, change, locals>>
    PROVE  Typed' /\ HookInv'
<1>1. /\ g' = g /\ change' = change /\ rem' = rem /\ comp_u' = comp_u /\ comp_v' = comp_v
      /\ pc[t] = "next" /\ comp' = comp /\ todo' = todo /\ u' = u /\ label' = label
  BY DEF LeaveLoop, locals
<1>2. "end" \in HookPlaces
  BY DEF HookPlaces
<1>3. /\ ForestType' /\ pc' \in [Thread -> HookPlaces]
      /\ SharesApart' /\ SharesTaken'
      /\ pc'[t] = "end" /\ \A s \in Thread : s # t => pc'[s] = pc[s]
  BY <1>2, SharesLeave DEF HookInv, Typed
<1>4. \A s \in Thread : InIteration(s)' <=> InIteration(s)
  BY <1>1, <1>3 DEF InIteration
<1>5. \A s \in Thread : LocalsSound(s)'
  <2> SUFFICES ASSUME NEW s \in Thread PROVE LocalsSound(s)'
    OBVIOUS
  <2>1. LocalsSound(s)
    BY DEF HookInv
  <2> QED BY <1>1, <1>3, <2>1 DEF LocalsSound
<1>6. ASSUME ~change PROVE QuietPass'
  <2>1. QuietPass
    BY <1>6 DEF HookInv
  <2>2. \A s \in Thread :
          /\ pc'[s] \in {"readV", "if"} => comp_u'[s] = comp'[u'[s]]
          /\ pc'[s] = "if" => comp_v'[s] = comp'[Min(rem'[s])]
    BY <1>1, <1>3, <2>1 DEF QuietPass
  <2>3. \A e \in g.edges : Pending(e[1], e[2]) => Pending(e[1], e[2])'
    BY <1>1, <1>4 DEF Pending
  <2>4. Flat'
    BY <1>1, <2>1 DEF QuietPass, Flat
  <2> QED BY <1>1, <2>1, <2>2, <2>3, <2>4 DEF QuietPass
<1> QED BY <1>1, <1>3, <1>5, <1>6 DEF HookInv, Typed

-----------------------------------------------------------------------------
\* The compress loop, and the serial steps between the loops.

\* A step of the compress loop keeps the labels in their components and
\* what the pass left to the next one.
LEMMA SVCompressKeeps ==
    ASSUME Typed, Descends, InComponent, SVCompressInv, NEW t \in Thread, CompressStep(t),
           UNCHANGED <<g, phase, change, locals>>
    PROVE  Typed' /\ Descends' /\ InComponent' /\ SVCompressInv'
<1>1. /\ g' = g /\ change' = change /\ rem' = rem /\ comp_u' = comp_u /\ comp_v' = comp_v
  BY DEF locals
<1>2. ForestType' /\ Descends' /\ CompressInv' /\ CompressEffect(t)
  BY CompressKeeps DEF Typed, SVCompressInv
<1>3. Typed'
  BY <1>1, <1>2 DEF Typed
<1>4. CASE CompressStore(t)
  <2>1. /\ pc[t] = "store"
        /\ comp' = [comp EXCEPT ![u[t]] = label[t]] /\ u' = u
        /\ label' = [label EXCEPT ![t] = 0] /\ pc' = [pc EXCEPT ![t] = "test"]
    BY <1>4 DEF CompressStore, Goto
  <2>2. change
    BY <2>1 DEF SVCompressInv
  <2>3. ASSUME NEW n \in Node PROVE comp'[n] \in Component(g, n)
    BY <2>1 DEF SVCompressInv, InComponent, Typed, ForestType
  <2>4. ASSUME NEW s \in Thread, pc'[s] = "store"
        PROVE  label'[s] \in Component(g, u[s])
    BY <2>1, <2>4 DEF SVCompressInv, CompressInv, Typed, ForestType
  <2> QED BY <1>1, <1>2, <1>3, <2>1, <2>2, <2>3, <2>4 DEF InComponent, SVCompressInv
<1>5. CASE CompressLoad(t)
  <2>1. /\ pc[t] = "load" /\ comp' = comp /\ u' = u
        /\ label' = [label EXCEPT ![t] = comp[comp[u[t]]]]
        /\ pc' = [pc EXCEPT ![t] = "store"]
    BY <1>5 DEF CompressLoad, Goto
  <2>2. change
    BY <2>1 DEF SVCompressInv
  <2>3. comp[comp[u[t]]] \in Component(g, u[t])
    <3>1. u[t] \in Node /\ comp[u[t]] \in Node
      BY DEF Typed, ForestType
    <3>2. comp[u[t]] \in Component(g, u[t]) /\ comp[comp[u[t]]] \in Component(g, comp[u[t]])
      BY <3>1 DEF InComponent
    <3> QED BY <3>1, <3>2, ComponentClass, GraphFacts
  <2>4. ASSUME NEW s \in Thread, pc'[s] = "store"
        PROVE  label'[s] \in Component(g, u[s])
    BY <2>1, <2>3, <2>4 DEF SVCompressInv, CompressInv, Typed, ForestType
  <2>5. InComponent'
    BY <1>1, <2>1 DEF InComponent
  <2> QED BY <1>1, <1>2, <1>3, <2>1, <2>2, <2>4, <2>5 DEF SVCompressInv
<1>6. CASE ~CompressStore(t) /\ ~CompressLoad(t)
  <2>1. comp' = comp /\ label' = label
    BY <1>6 DEF CompressStep, CompressTest, LeaveLoop
  <2>2. /\ pc'[t] \in {"test", "load", "next", "end"}
        /\ \A s \in Thread : s # t => pc'[s] = pc[s] /\ u'[s] = u[s]
    BY <1>6 DEF CompressStep, TakeVertex, CompressTest, LeaveLoop, Goto,
                SVCompressInv, CompressInv, CompressPlaces, Typed, ForestType
  <2>3. \A s \in Thread : pc'[s] = "store" => label'[s] \in Component(g', u'[s])
    BY <1>1, <2>1, <2>2 DEF SVCompressInv
  <2>4. InComponent'
    BY <1>1, <2>1 DEF InComponent
  <2>5. ASSUME ~change
        PROVE  Flat' /\ Agree' /\ pc'[t] \notin {"load", "store"}
    <3>1. Flat /\ Agree
      BY <2>5 DEF SVCompressInv
    <3>2. Flat' /\ Agree'
      BY <1>1, <2>1, <3>1 DEF Flat, Agree
    <3>3. comp[u[t]] = comp[comp[u[t]]]
      BY <3>1 DEF Flat, Typed, ForestType
    <3>4. pc'[t] # "load"
      BY <1>6, <3>3 DEF CompressStep, TakeVertex, CompressTest, LeaveLoop, Goto,
                SVCompressInv, CompressInv, CompressPlaces
    <3> QED BY <2>2, <3>2, <3>4
  <2> QED BY <1>1, <1>2, <1>3, <2>2, <2>3, <2>4, <2>5 DEF SVCompressInv
<1> QED BY <1>4, <1>5, <1>6

\* Every initial state satisfies the inductive invariant.
LEMMA InitIInv == Init => IInv
<1> SUFFICES ASSUME Init PROVE IInv
  OBVIOUS
<1>1. /\ g \in Graphs /\ comp = [n \in Node |-> n]
      /\ todo = [t \in Thread |-> {}] /\ pc = [t \in Thread |-> "end"]
      /\ u = [t \in Thread |-> 0] /\ label = [t \in Thread |-> 0]
      /\ phase = "while" /\ change = TRUE
      /\ rem = [t \in Thread |-> {}]
      /\ comp_u = [t \in Thread |-> 0] /\ comp_v = [t \in Thread |-> 0]
  BY DEF Init, ForestInit
<1>2. Typed
  BY <1>1, NodeNat DEF Typed, ForestType
<1>3. Descends
  <2>1. \A n \in Node : comp[n] <= n
    BY <1>1, NodeNat
  <2> QED BY <2>1 DEF Descends
<1>4. InComponent
  <2>1. \A n \in Node : comp[n] = n /\ n \in Component(g, n)
    BY <1>1, <1>2, ComponentLeast, GraphFacts
  <2> QED BY <2>1 DEF InComponent
<1>5. SerialInv
  <2>1. Flat
    BY <1>1 DEF Flat
  <2> QED BY <1>1, <2>1 DEF SerialInv
<1> QED BY <1>1, <1>2, <1>3, <1>4, <1>5 DEF IInv

\* The test of while (change) keeps it: a pass starts from flat trees.
LEMMA StartPassKeeps ==
    ASSUME IInv, StartPass
    PROVE  IInv'
<1>1. /\ phase = "while" /\ change' = FALSE /\ phase' = "hook"
      /\ todo' \in Schedules(Node) /\ pc' = [t \in Thread |-> "next"]
      /\ g' = g /\ comp' = comp /\ u' = u /\ label' = label
      /\ rem' = rem /\ comp_u' = comp_u /\ comp_v' = comp_v
  BY DEF StartPass, Fork, locals
<1>2. Divides(todo', Node)
  BY <1>1, ScheduleDivides
<1>3. /\ todo' \in [Thread -> SUBSET Node]
      /\ SharesApart' /\ SharesTaken'
      /\ \A t \in Thread : pc'[t] = "next"
  BY <1>1, <1>2, SharesStart DEF IInv, Typed
<1>4. Typed' /\ Descends' /\ InComponent'
  BY <1>1, <1>3 DEF IInv, Typed, ForestType, Descends, InComponent
<1>5. pc' \in [Thread -> HookPlaces]
  BY <1>1 DEF HookPlaces
<1>6. \A t \in Thread : LocalsSound(t)'
  BY <1>3 DEF LocalsSound
<1>7. QuietPass'
  <2>1. Flat'
    BY <1>1 DEF IInv, SerialInv, Flat
  <2>2. ASSUME NEW e \in g.edges PROVE Pending(e[1], e[2])'
    <3>1. e[1] \in Node
      BY GraphFacts DEF IInv
    <3>2. \E t \in Thread : e[1] \in todo'[t]
      BY <1>2, <3>1 DEF Divides
    <3> QED BY <3>2 DEF Pending
  <2> QED BY <1>1, <1>3, <2>1, <2>2 DEF QuietPass
<1> QED BY <1>1, <1>3, <1>4, <1>5, <1>6, <1>7 DEF IInv, HookInv

\* The barrier after the hooking loop keeps it.
LEMMA StartCompressKeeps ==
    ASSUME IInv, StartCompress
    PROVE  IInv'
<1>1. /\ phase = "hook" /\ AtBarrier /\ change' = change /\ phase' = "compress"
      /\ todo' \in Schedules(Node) /\ pc' = [t \in Thread |-> "next"]
      /\ g' = g /\ comp' = comp /\ u' = u /\ label' = label
      /\ rem' = rem /\ comp_u' = comp_u /\ comp_v' = comp_v
  BY DEF StartCompress, Fork, locals
<1>2. todo' \in [Thread -> SUBSET Node] /\ CompressInv'
  BY <1>1, ScheduleDivides, CompressStarts DEF IInv, Typed
<1>3. Typed' /\ Descends' /\ InComponent'
  BY <1>1, <1>2 DEF IInv, Typed, ForestType, Descends, InComponent
<1>4. \A t \in Thread : pc'[t] = "next"
  BY <1>1
<1>5. ASSUME ~change PROVE Flat' /\ Agree'
  <2>1. QuietPass /\ SharesTaken
    BY <1>1, <1>5 DEF IInv, HookInv
  <2>2. \A t \in Thread : todo[t] = {} /\ ~InIteration(t)
    BY <1>1, <2>1 DEF AtBarrier, SharesTaken, InIteration
  <2>3. Flat /\ Agree
    BY <2>1, <2>2 DEF QuietPass, Pending, Agree
  <2> QED BY <1>1, <2>3 DEF Flat, Agree
<1> QED BY <1>1, <1>2, <1>3, <1>4, <1>5 DEF IInv, SVCompressInv

\* The barrier after the compress loop keeps it: what the loop leaves is
\* flat.
LEMMA EndPassKeeps ==
    ASSUME IInv, EndPass
    PROVE  IInv'
<1>1. /\ phase = "compress" /\ AtBarrier /\ phase' = "while"
      /\ g' = g /\ change' = change /\ comp' = comp /\ todo' = todo /\ pc' = pc
      /\ u' = u /\ label' = label /\ rem' = rem /\ comp_u' = comp_u /\ comp_v' = comp_v
  BY DEF EndPass, locals
<1>2. SVCompressInv /\ Typed /\ Descends /\ InComponent
  BY <1>1 DEF IInv
<1>3. Typed' /\ Descends' /\ InComponent'
  BY <1>1, <1>2 DEF Typed, ForestType, Descends, InComponent
<1>4. Flat
  BY <1>1, <1>2, CompressEnds DEF SVCompressInv, Typed
<1>5. pc = [t \in Thread |-> "end"]
  BY <1>1, <1>2 DEF AtBarrier, SVCompressInv, CompressInv
<1>6. SerialInv'
  BY <1>1, <1>2, <1>4, <1>5 DEF SerialInv, SVCompressInv, Flat, Agree
<1> QED BY <1>1, <1>3, <1>6 DEF IInv

\* Leaving while (change) keeps it.
LEMMA FinishKeeps ==
    ASSUME IInv, Finish
    PROVE  IInv'
<1>1. /\ phase = "while" /\ ~change /\ phase' = "done"
      /\ g' = g /\ change' = change /\ comp' = comp /\ todo' = todo /\ pc' = pc
      /\ u' = u /\ label' = label /\ rem' = rem /\ comp_u' = comp_u /\ comp_v' = comp_v
  BY DEF Finish, locals
<1>2. Typed' /\ Descends' /\ InComponent'
  BY <1>1 DEF IInv, Typed, ForestType, Descends, InComponent
<1>3. SerialInv'
  BY <1>1 DEF IInv, SerialInv, Flat, Agree
<1> QED BY <1>1, <1>2, <1>3 DEF IInv

\* Every step of a thread keeps it, in either region.
LEMMA ThreadStepKeeps ==
    ASSUME IInv, NEW t \in Thread, ThreadStep(t)
    PROVE  IInv'
<1>1. Typed /\ Descends /\ InComponent
  BY DEF IInv
<1>2. CASE phase = "hook"
  <2>1. HookInv
    BY <1>2 DEF IInv
  <2>2. phase' = phase
    BY <1>2 DEF ThreadStep, Take, EndIteration, ReadU, ReadV, Test, Hook
  <2>3. Typed' /\ Descends' /\ InComponent' /\ HookInv'
    <3>1. CASE Hook(t)
      BY <1>1, <2>1, <3>1, HookKeeps
    <3>2. CASE ~Hook(t)
      <4>1. Typed' /\ HookInv'
        BY <1>1, <1>2, <2>1, <3>2, TakeKeeps, EndIterationKeeps, ReadUKeeps,
           ReadVKeeps, TestKeeps, LeaveHookKeeps DEF ThreadStep
      <4>2. comp' = comp /\ g' = g
        BY <1>2, <3>2 DEF ThreadStep, Take, EndIteration, ReadU, ReadV, Test, LeaveLoop
      <4> QED BY <1>1, <4>1, <4>2 DEF Descends, InComponent
    <3> QED BY <3>1, <3>2
  <2> QED BY <1>2, <2>2, <2>3 DEF IInv
<1>3. CASE phase = "compress"
  <2>1. CompressStep(t) /\ UNCHANGED <<g, phase, change, locals>> /\ SVCompressInv
    BY <1>3 DEF IInv, ThreadStep
  <2>2. Typed' /\ Descends' /\ InComponent' /\ SVCompressInv'
    BY <1>1, <2>1, SVCompressKeeps
  <2> QED BY <1>3, <2>1, <2>2 DEF IInv
<1> QED BY <1>2, <1>3 DEF ThreadStep

\* The invariant is inductive.
LEMMA NextIInv == IInv /\ [Next \/ Returned]_vars => IInv'
<1> SUFFICES ASSUME IInv, [Next \/ Returned]_vars PROVE IInv'
  OBVIOUS
<1>1. CASE Master
  BY <1>1, StartPassKeeps, StartCompressKeeps, EndPassKeeps, FinishKeeps DEF Master
<1>2. CASE \E t \in Thread : ThreadStep(t)
  BY <1>2, ThreadStepKeeps
<1>3. CASE UNCHANGED vars
  BY <1>3 DEF vars, locals, IInv, Typed, ForestType, Descends, InComponent,
              HookInv, SharesApart, SharesTaken, InIteration, LocalsSound, QuietPass, Flat,
              Pending, SVCompressInv, CompressInv, Finished, Agree, SerialInv
<1> QED BY <1>1, <1>2, <1>3 DEF Next, Returned

\* The invariant holds in every reachable state, whichever threads take which
\* iterations and however their steps interleave.
THEOREM Invariance == Spec => []IInv
<1>1. Init => IInv
  BY InitIInv
<1>2. IInv /\ [Next \/ Returned]_vars => IInv'
  BY NextIInv
<1> QED BY <1>1, <1>2, PTL DEF Spec

-----------------------------------------------------------------------------
\* The module's properties.

\* Each variable has its type, no label exceeds its vertex, and no hook, not
\* even one that overwrites another, takes a vertex out of its component
\* (cc_sv.cc:47-49, 65-71).
THEOREM LabelsStaySound == Spec => []LabelsSound
<1>1. IInv => LabelsSound
  BY DEF IInv, Typed, ForestType, Descends, InComponent, LabelsSound, TypeOK
<1> QED BY <1>1, Invariance, PTL

\* A hook that two threads raced for and one lost is made up for: the kernel
\* leaves its loop only when every edge joins two vertices of one label.
THEOREM HooksRetried == Spec => []LostHookRetried
<1>1. IInv => LostHookRetried
  BY DEF IInv, SerialInv, Agree, LostHookRetried
<1> QED BY <1>1, Invariance, PTL

\* The compress loop (cc_sv.cc:75-80) leaves every vertex labelled with a root,
\* although each thread follows labels that others are rewriting.
THEOREM PassesStartFlat == Spec => []PassStartsFlat
<1>1. IInv => PassStartsFlat
  BY DEF IInv, SerialInv, PassStartsFlat
<1> QED BY <1>1, Invariance, PTL

\* What the kernel returns passes its verifier and names each component by its
\* least vertex, for every graph, number of threads and schedule.
THEOREM ResultCorrect == Spec => []VerifierAccepts
<1>1. IInv => VerifierAccepts
  <2> SUFFICES ASSUME IInv, phase = "done"
               PROVE  /\ CCVerifier(g)
                      /\ \A v \in Node : comp[v] = Min(Component(g, v))
    BY DEF VerifierAccepts
  <2>1. /\ comp \in [Node -> Node] /\ Descends
        /\ \A n \in Node : comp[n] \in Component(g, n)
        /\ \A e \in g.edges : comp[e[1]] = comp[e[2]]
    BY DEF IInv, Typed, ForestType, InComponent, SerialInv, Agree
  <2>2. IsGraph(g)
    BY GraphFacts DEF IInv
  <2> QED BY <2>1, <2>2, AgreeingLabelsAreComponents
<1> QED BY <1>1, Invariance, PTL
=============================================================================
