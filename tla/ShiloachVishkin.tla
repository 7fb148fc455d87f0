-------------------------- MODULE ShiloachVishkin --------------------------
(***************************************************************************)
(* Connected components by Shiloach-Vishkin (src/src/cc_sv.cc).  Passes    *)
(* over all edges hook a root below the smaller label of an edge's other   *)
(* end, then the label trees are flattened, until a pass hooks nothing.    *)
(* A hook reads the root, tests it and writes it in separate steps with no *)
(* compare-and-swap: two threads may hook the same root and one hook is    *)
(* lost.  Each step is one access to comp.                                 *)
(***************************************************************************)
EXTENDS LabelForest

CONSTANT Graphs
ASSUME GraphsAssumption == \A gr \in Graphs : IsGraph(gr)

VARIABLES g,
          phase,             \* the region being executed
          change,            \* a hook was made in this pass
          rem,               \* [Thread -> neighbours of u left]
          comp_u, comp_v     \* [Thread -> the labels it read]

locals == <<rem, comp_u, comp_v>>
vars   == <<g, phase, change, comp, todo, pc, u, label, locals>>

high_comp(t) == IF comp_u[t] > comp_v[t] THEN comp_u[t] ELSE comp_v[t]

low_comp(t) == comp_u[t] + (comp_v[t] - high_comp(t))

-----------------------------------------------------------------------------
\* The hooking loop, lines 60-74.

Take(t) ==
    /\ TakeVertex(t, "edge")
    /\ rem' = [rem EXCEPT ![t] = out_neigh(g, Min(todo[t]))]
    /\ UNCHANGED <<g, phase, change, comp, label, comp_u, comp_v>>

EndIteration(t) ==
    /\ pc[t] = "edge" /\ rem[t] = {}
    /\ u' = [u EXCEPT ![t] = 0]
    /\ Goto(t, "next")
    /\ UNCHANGED <<g, phase, change, comp, todo, label, locals>>

\* comp_u = comp[u]
ReadU(t) ==
    /\ pc[t] = "edge" /\ rem[t] # {}
    /\ comp_u' = [comp_u EXCEPT ![t] = comp[u[t]]]
    /\ Goto(t, "readV")
    /\ UNCHANGED <<g, phase, change, comp, todo, u, label, rem, comp_v>>

\* comp_v = comp[v]
ReadV(t) ==
    /\ pc[t] = "readV"
    /\ comp_v' = [comp_v EXCEPT ![t] = comp[Min(rem[t])]]
    /\ Goto(t, "if")
    /\ UNCHANGED <<g, phase, change, comp, todo, u, label, rem, comp_u>>

NextNeighbor(t) ==
    /\ rem' = [rem EXCEPT ![t] = @ \ {Min(@)}]
    /\ comp_u' = [comp_u EXCEPT ![t] = 0]
    /\ comp_v' = [comp_v EXCEPT ![t] = 0]
    /\ Goto(t, "edge")

\* Slip: the hooking condition without the min-max swap, so that it depends on
\* the edge's direction.
Test_EdgeDirection(t) ==
    /\ pc[t] = "if"
    /\ IF comp_u[t] < comp_v[t] /\ comp_v[t] = comp[comp_v[t]]
       THEN Goto(t, "hook") /\ UNCHANGED locals
       ELSE NextNeighbor(t)
    /\ UNCHANGED <<g, phase, change, comp, todo, u, label>>

\* Lines 65-69: equal labels are passed over, and so is a high_comp that is
\* not a root.
Test(t) ==
    /\ pc[t] = "if"
    /\ IF comp_u[t] # comp_v[t] /\ high_comp(t) = comp[high_comp(t)]
       THEN Goto(t, "hook") /\ UNCHANGED locals
       ELSE NextNeighbor(t)
    /\ UNCHANGED <<g, phase, change, comp, todo, u, label>>

\* Slip: change is not set.
Hook_Silent(t) ==
    /\ pc[t] = "hook"
    /\ comp' = [comp EXCEPT ![high_comp(t)] = low_comp(t)]
    /\ NextNeighbor(t)
    /\ UNCHANGED <<g, phase, change, todo, u, label>>

\* Slip: the edge's direction decides which label is overwritten.
Hook_Directed(t) ==
    /\ pc[t] = "hook"
    /\ change' = TRUE
    /\ comp' = [comp EXCEPT ![comp_v[t]] = comp_u[t]]
    /\ NextNeighbor(t)
    /\ UNCHANGED <<g, phase, todo, u, label>>

\* Lines 70-71, whatever comp[high_comp] has become since it was tested.
Hook(t) ==
    /\ pc[t] = "hook"
    /\ change' = TRUE
    /\ comp' = [comp EXCEPT ![high_comp(t)] = low_comp(t)]
    /\ NextNeighbor(t)
    /\ UNCHANGED <<g, phase, todo, u, label>>

-----------------------------------------------------------------------------
\* The serial part, lines 50-84.  Each iteration may fall to any thread.

Init ==
    /\ g \in Graphs
    /\ ForestInit
    /\ phase = "while" /\ change = TRUE
    /\ rem = [t \in Thread |-> {}]
    /\ comp_u = [t \in Thread |-> 0] /\ comp_v = comp_u

Fork(region) ==
    /\ phase' = region
    /\ todo' \in Schedules(Node)
    /\ pc' = [t \in Thread |-> "next"]
    /\ UNCHANGED <<g, comp, u, label, locals>>

\* Slip: change keeps the value of the last pass.
StartPass_NoReset == phase = "while" /\ change /\ Fork("hook") /\ UNCHANGED change

StartPass == phase = "while" /\ change /\ change' = FALSE /\ Fork("hook")

\* Slip: the pass ends without flattening the trees.
StartCompress_Skip ==
    /\ phase = "hook" /\ AtBarrier
    /\ phase' = "compress"
    /\ UNCHANGED <<g, change, comp, todo, pc, u, label, locals>>

StartCompress == phase = "hook" /\ AtBarrier /\ Fork("compress") /\ UNCHANGED change

EndPass ==
    /\ phase = "compress" /\ AtBarrier
    /\ phase' = "while"
    /\ UNCHANGED <<g, change, comp, todo, pc, u, label, locals>>

Finish ==
    /\ phase = "while" /\ ~change
    /\ phase' = "done"
    /\ UNCHANGED <<g, change, comp, todo, pc, u, label, locals>>

-----------------------------------------------------------------------------

ThreadStep(t) ==
    \/ /\ phase = "hook"
       /\ \/ Take(t) \/ EndIteration(t)
          \/ ReadU(t) \/ ReadV(t) \/ Test(t) \/ Hook(t)
          \/ LeaveLoop(t) /\ UNCHANGED <<g, phase, change, locals>>
    \/ /\ phase = "compress"
       /\ CompressStep(t) /\ UNCHANGED <<g, phase, change, locals>>

Master == StartPass \/ StartCompress \/ EndPass \/ Finish

Next == Master \/ \E t \in Thread : ThreadStep(t)

\* The kernel has returned; any other state without a successor is a deadlock.
Returned == phase = "done" /\ UNCHANGED vars

Spec == Init /\ [][Next \/ Returned]_vars

\* The operating system runs every thread of the team again and again.
FairSpec == Spec /\ WF_vars(Master) /\ \A t \in Thread : WF_vars(ThreadStep(t))

-----------------------------------------------------------------------------
\* Properties.

\* Each variable has its type.
TypeOK ==
    /\ g \in Graphs /\ change \in BOOLEAN
    /\ comp \in [Node -> Node]
    /\ todo \in [Thread -> SUBSET Node]
    /\ rem \in [Thread -> SUBSET Node]
    /\ \A f \in {u, label, comp_u, comp_v} : f \in [Thread -> Node]

\* Lower labels win independently of the direction of edges (cc_sv.cc:47-49):
\* a label is never larger than its vertex and stays within the vertex's
\* component, so label chains end, whichever of two racing hooks is lost.
LabelsSound ==
    /\ TypeOK
    /\ \A n \in Node : comp[n] <= n /\ comp[n] \in Component(g, n)

\* While a hook that was tested is about to be written, the root it overwrites
\* may have been hooked by another thread, and then that hook is lost.  The
\* kernel makes up for it: as long as some edge joins two trees when a pass
\* ends, the pass has recorded a change and another one follows.
LostHookRetried ==
    phase = "while" =>
       \/ change
       \/ \A e \in g.edges : comp[e[1]] = comp[e[2]]

\* Each pass starts from flat trees, which the test for a root relies on.
PassStartsFlat == phase = "while" => Flat

\* The result passes CCVerifier (cc_sv.cc:106-150), and the label of a component
\* is its least vertex, whichever hooks were lost.
VerifierAccepts ==
    phase = "done" =>
       /\ CCVerifier(g)
       /\ \A v \in Node : comp[v] = Min(Component(g, v))

\* Lost hooks cannot keep the kernel going for ever: some hook of a pass
\* survives, and every one lowers a label.
Termination == <>(phase = "done")
=============================================================================
