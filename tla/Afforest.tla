------------------------------ MODULE Afforest ------------------------------
(***************************************************************************)
(* Connected components by Afforest (src/src/cc.cc): a concurrent union-   *)
(* find in which comp[n] is the parent of n in a forest of label trees.    *)
(* The kernel runs neighbor_rounds rounds of (link one sampled neighbour   *)
(* of each vertex, compress), samples the label c that is probably most    *)
(* frequent, links the remaining edges of the vertices not labelled c, and *)
(* compresses again.  Each step is one access to comp.                     *)
(***************************************************************************)
EXTENDS LabelForest

CONSTANTS Graphs,
          NeighborRounds,   \* values of neighbor_rounds (2)
          ChunkSize         \* of schedule(dynamic, 16384)

ASSUME GraphsAssumption == \A gr \in Graphs : IsGraph(gr)
ASSUME RoundsAssumption == NeighborRounds \subseteq Nat
ASSUME ChunkAssumption == ChunkSize \in Nat \ {0}

VARIABLES
    g, neighbor_rounds,   \* arguments of Afforest
    phase,                \* the region being executed
    r,                    \* round counter, lines 104-114
    c,                    \* the label to skip, or NoLabel before line 118
    nbrs,                 \* [Thread -> neighbours of u left to link: the outgoing
                          \*  ones, and then the incoming ones]
    p1, p2, p_high        \* [Thread -> the locals of Link]

args    == <<g, neighbor_rounds>>
locals  == <<nbrs, p1, p2, p_high>>
serial  == <<args, phase, r, c>>            \* what no thread changes
vars    == <<serial, comp, todo, pc, u, label, locals>>

NoLabel == -1

ChunkOf(n) == n \div ChunkSize

\* Slip: the comparison the wrong way round.
high_Min(t) == IF p1[t] < p2[t] THEN p1[t] ELSE p2[t]

\* The larger of the two labels Link holds, and the other one.
high(t) == IF p1[t] > p2[t] THEN p1[t] ELSE p2[t]
low(t)  == p1[t] + (p2[t] - high(t))

Linking == phase \in {"sample", "link"}
Compressing == phase \in {"compress", "final"}

-----------------------------------------------------------------------------
\* The iterations of the linking loops.

Neighbors(outs, ins) == [out |-> outs, in |-> ins]
NoNeighbors == Neighbors({}, {})

\* Both lists are linked in ascending order.
Neighbor(t)  == IF nbrs[t].out # {} THEN Min(nbrs[t].out) ELSE Min(nbrs[t].in)
Others(nbr)  == IF nbr.out # {} THEN Neighbors(nbr.out \ {Min(nbr.out)}, nbr.in)
                ELSE Neighbors({}, nbr.in \ {Min(nbr.in)})

\* Line 107, and lines 128, 137 and 141: the neighbours an iteration links.
Sampled(n) == IF out_neigh_from(g, n, r) = {} THEN NoNeighbors
              ELSE Neighbors({Min(out_neigh_from(g, n, r))}, {})

\* Slip: the reverse edges of a directed graph are forgotten.
Remaining_OutOnly(n) == Neighbors(out_neigh_from(g, n, neighbor_rounds), {})

\* Slip: one neighbour more than the rounds have linked is left out.
Remaining_OffByOne(n) ==
    Neighbors(out_neigh_from(g, n, neighbor_rounds + 1),
              IF g.directed THEN in_neigh(g, n) ELSE {})

Remaining(n) ==
    Neighbors(out_neigh_from(g, n, neighbor_rounds),
              IF g.directed THEN in_neigh(g, n) ELSE {})

\* An iteration of the final phase is skipped when its label is c, read now;
\* other threads may be changing it.
Take(t) ==
    /\ Linking
    /\ TakeVertex(t, "edge")
    /\ nbrs' = [nbrs EXCEPT ![t] =
                  LET n == Min(todo[t])
                  IN  IF phase = "sample" THEN Sampled(n)
                      ELSE IF comp[n] = c THEN NoNeighbors ELSE Remaining(n)]
    /\ UNCHANGED <<serial, comp, label, p1, p2, p_high>>

EndIteration(t) ==
    /\ Linking /\ pc[t] = "edge" /\ nbrs[t] = NoNeighbors
    /\ u' = [u EXCEPT ![t] = 0]
    /\ Goto(t, "next")
    /\ UNCHANGED <<serial, comp, todo, label, locals>>

-----------------------------------------------------------------------------
\* Link(u, v, comp), lines 42-56, one read or write of comp a step.

\* Link returns: its locals are gone and the next neighbour follows.
Return(t) ==
    /\ nbrs' = [nbrs EXCEPT ![t] = Others(@)]
    /\ p1' = [p1 EXCEPT ![t] = 0]
    /\ p2' = [p2 EXCEPT ![t] = 0]
    /\ p_high' = [p_high EXCEPT ![t] = 0]
    /\ Goto(t, "edge")

\* p1 = comp[u]
LinkReadU(t) ==
    /\ Linking /\ pc[t] = "edge" /\ nbrs[t] # NoNeighbors
    /\ p1' = [p1 EXCEPT ![t] = comp[u[t]]]
    /\ Goto(t, "readV")
    /\ UNCHANGED <<serial, comp, todo, u, label, nbrs, p2, p_high>>

\* p2 = comp[v]
LinkReadV(t) ==
    /\ pc[t] = "readV"
    /\ p2' = [p2 EXCEPT ![t] = comp[Neighbor(t)]]
    /\ Goto(t, "while")
    /\ UNCHANGED <<serial, comp, todo, u, label, nbrs, p1, p_high>>

LinkDone(t) ==
    /\ pc[t] = "while" /\ p1[t] = p2[t]
    /\ Return(t)
    /\ UNCHANGED <<serial, comp, todo, u, label>>

\* Slip: a label that is no root is tried again instead of climbed.
LinkReadHigh_NoClimb(t) ==
    /\ pc[t] = "while" /\ p1[t] # p2[t]
    /\ \/ comp[high(t)] = low(t) /\ Return(t)
       \/ /\ comp[high(t)] # low(t)
          /\ Goto(t, IF comp[high(t)] = high(t) THEN "cas" ELSE "while")
          /\ UNCHANGED locals
    /\ UNCHANGED <<serial, comp, todo, u, label>>

\* p_high = comp[high], and what lines 50-52 make of it.
LinkReadHigh(t) ==
    /\ pc[t] = "while" /\ p1[t] # p2[t]
    /\ \/ comp[high(t)] = low(t) /\ Return(t)
       \/ /\ comp[high(t)] # low(t)
          /\ Goto(t, IF comp[high(t)] = high(t) THEN "cas" ELSE "climb")
          /\ UNCHANGED locals
    /\ UNCHANGED <<serial, comp, todo, u, label>>

\* Slip: the label is written without compare_and_swap.
LinkCas_Store(t) ==
    /\ pc[t] = "cas"
    /\ comp' = [comp EXCEPT ![high(t)] = low(t)]
    /\ Return(t)
    /\ UNCHANGED <<serial, todo, u, label>>

\* compare_and_swap(comp[high], high, low)
LinkCas(t) ==
    /\ pc[t] = "cas"
    /\ \/ /\ comp[high(t)] = high(t)
          /\ comp' = [comp EXCEPT ![high(t)] = low(t)]
          /\ Return(t)
       \/ /\ comp[high(t)] # high(t)
          /\ Goto(t, "climb")
          /\ UNCHANGED <<comp, locals>>
    /\ UNCHANGED <<serial, todo, u, label>>

\* p1 = comp[comp[high]] is two reads: p_high holds the first.
LinkClimbHigh(t) ==
    /\ pc[t] = "climb"
    /\ p_high' = [p_high EXCEPT ![t] = comp[high(t)]]
    /\ Goto(t, "climb2")
    /\ UNCHANGED <<serial, comp, todo, u, label, nbrs, p1, p2>>

\* The second read, p2 = comp[low] reading low first since p1 is overwritten.
LinkClimb(t) ==
    /\ pc[t] = "climb2"
    /\ p1' = [p1 EXCEPT ![t] = comp[p_high[t]]]
    /\ p2' = [p2 EXCEPT ![t] = low(t)]
    /\ p_high' = [p_high EXCEPT ![t] = 0]
    /\ Goto(t, "readLow")
    /\ UNCHANGED <<serial, comp, todo, u, label, nbrs>>

\* p2 = comp[low]
LinkReadLow(t) ==
    /\ pc[t] = "readLow"
    /\ p2' = [p2 EXCEPT ![t] = comp[@]]
    /\ Goto(t, "while")
    /\ UNCHANGED <<serial, comp, todo, u, label, nbrs, p1, p_high>>

-----------------------------------------------------------------------------
\* The serial part of Afforest, lines 94-149.

Init ==
    /\ g \in Graphs /\ neighbor_rounds \in NeighborRounds
    /\ ForestInit
    /\ phase = "rounds" /\ r = 0 /\ c = NoLabel
    /\ nbrs = [t \in Thread |-> NoNeighbors]
    /\ p1 = [t \in Thread |-> 0] /\ p2 = p1 /\ p_high = p1

Fork(region) ==
    /\ phase' = region
    /\ todo' \in ChunkSchedules(Node, [n \in Node |-> ChunkOf(n)])
    /\ pc' = [t \in Thread |-> "next"]
    /\ UNCHANGED <<args, comp, u, label, locals>>

StartRound ==
    phase = "rounds" /\ r < neighbor_rounds /\ Fork("sample") /\ UNCHANGED <<r, c>>

EndSample == phase = "sample" /\ AtBarrier /\ Fork("compress") /\ UNCHANGED <<r, c>>

EndCompress ==
    /\ phase = "compress" /\ AtBarrier
    /\ phase' = "rounds" /\ r' = r + 1
    /\ UNCHANGED <<args, c, comp, todo, pc, u, label, locals>>

\* It counts the labels of 1024 vertices drawn at random and returns the one
\* it saw most: any label that is present may be the answer.
SampleFrequentElement == {comp[n] : n \in Node}

PickLabel ==
    /\ phase = "rounds" /\ r >= neighbor_rounds
    /\ c' \in SampleFrequentElement
    /\ Fork("link")
    /\ UNCHANGED r

EndLink == phase = "link" /\ AtBarrier /\ Fork("final") /\ UNCHANGED <<r, c>>

Finish ==
    /\ phase = "final" /\ AtBarrier
    /\ phase' = "done"
    /\ UNCHANGED <<args, r, c, comp, todo, pc, u, label, locals>>

-----------------------------------------------------------------------------

ThreadStep(t) ==
    \/ Take(t) \/ EndIteration(t)
    \/ LinkReadU(t) \/ LinkReadV(t) \/ LinkDone(t) \/ LinkReadHigh(t) \/ LinkCas(t)
    \/ LinkClimbHigh(t) \/ LinkClimb(t) \/ LinkReadLow(t)
    \/ Linking /\ LeaveLoop(t) /\ UNCHANGED <<serial, locals>>
    \/ Compressing /\ CompressStep(t) /\ UNCHANGED <<serial, locals>>

Master == StartRound \/ EndSample \/ EndCompress \/ PickLabel \/ EndLink \/ Finish

Next == Master \/ \E t \in Thread : ThreadStep(t)

\* Afforest has returned; any other state without a successor is a deadlock.
Returned == phase = "done" /\ UNCHANGED vars

Spec == Init /\ [][Next \/ Returned]_vars

\* The operating system runs every thread of the team again and again.
FairSpec == Spec /\ WF_vars(Master) /\ \A t \in Thread : WF_vars(ThreadStep(t))

-----------------------------------------------------------------------------
\* Properties.

\* Each variable has its type; every register that indexes comp is a vertex, so
\* no chase through labels (cc.cc:48, 53-54) leaves the array.
TypeOK ==
    /\ g \in Graphs /\ neighbor_rounds \in NeighborRounds
    /\ comp \in [Node -> Node]
    /\ r \in 0 .. neighbor_rounds
    /\ c \in Node \cup {NoLabel}
    /\ todo \in [Thread -> SUBSET Node]
    /\ nbrs \in [Thread -> [out : SUBSET Node, in : SUBSET Node]]
    /\ \A f \in {u, label, p1, p2, p_high} : f \in [Thread -> Node]

\* A label only ever becomes smaller, whatever link and compress steps of other
\* threads come between a thread's reads and its write; hence no two links can
\* close a cycle of labels.
LabelsDescend == [][\A n \in Node : comp'[n] <= comp[n]]_comp

\* The trees of comp are a union-find: each link joins the two trees of an
\* edge's ends, and neither a racing link nor path compression takes a vertex
\* out of its tree (cc.cc:50-51, 63-65).
Parts == {{v \in Node : Root(v) = x} : x \in {Root(v) : v \in Node}}

Merging == INSTANCE ComponentMerging WITH parts <- Parts
RefinesComponentMerging == Merging!Spec

\* Between rounds every label is a root (cc.cc:116: "due to prior compression"),
\* although threads compress chains through each other's vertices.
CompressFlattens ==
    /\ TypeOK
    /\ phase = "rounds" => Flat

\* Skipping the vertices labelled c (cc.cc:125), and the first neighbours of
\* the others, leaves no edge unlinked even though labels change while they
\* are compared with c.
NoEdgeSkipped ==
    phase = "final" => \A e \in g.edges : Root(e[1]) = Root(e[2])

\* The result passes CCVerifier (cc.cc:171-215), and the label of a component
\* is its least vertex, however the links raced and whatever was sampled.
VerifierAccepts ==
    phase = "done" =>
       /\ CCVerifier(g)
       /\ \A v \in Node : comp[v] = Min(Component(g, v))

\* The loops of Link and Compress and the barriers let every run end.
Termination == <>(phase = "done")
=============================================================================
