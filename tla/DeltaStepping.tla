--------------------------- MODULE DeltaStepping ---------------------------
(***************************************************************************)
(* Single-source shortest paths by delta-stepping (src/src/sssp.cc).  One  *)
(* parallel region runs the whole search.  In an iteration the threads     *)
(* share out the vertices of the current bin (the frontier), relax their   *)
(* edges into thread-local bins, run on with their own part of the same    *)
(* bin (bucket fusion), vote for the next bin, and after a barrier copy    *)
(* their part of it to the frontier.  The bin index and the length of the  *)
(* frontier are double buffered: index iter&1 is current, the other next.  *)
(***************************************************************************)
EXTENDS CSRGraph, OpenMP, Sequences

CONSTANTS Graphs,              \* weighted graphs
          Deltas,              \* values of delta
          kDistInf,            \* half the largest 32-bit weight
          kMaxBin,             \* half the largest size_t
          kBinSizeThreshold    \* 1000

\* InsertWeights draws 1 .. 255; a weight read from a file is taken not to be
\* negative, since RelaxEdges would turn a negative distance into a huge bin index.
IsWGraph(gr) == IsGraph(gr) /\ gr.weight \in [gr.edges -> Nat]

ASSUME GraphsAssumption == \A gr \in Graphs : IsWGraph(gr)
ASSUME DeltasAssumption == Deltas \subseteq Nat \ {0}
\* A distance is below kDistInf, so that the bin index of any is below kMaxBin.
ASSUME LimitsAssumption ==
    /\ {kDistInf, kMaxBin, kBinSizeThreshold} \subseteq Nat \ {0}
    /\ kDistInf <= kMaxBin

VARIABLES
    g, source, delta,     \* arguments of DeltaStep
    oracle,               \* auxiliary: the distances SSSPVerifier computes
    dist,
    frontier,
    shared_indexes,       \* [0..1 -> bin index, or kMaxBin]
    frontier_tails,       \* [0..1 -> length of the frontier]
    single_taken,         \* a thread has taken the omp single of this iteration
    iter,                 \* [Thread -> the parity of its iter]
    local_bins,           \* [Thread -> sequence of bins; bin i is at place i + 1]
    todo,                 \* [Thread -> frontier slots left to it]
    fused,                \* [Thread -> vertices of its curr_bin_copy left]
    pc, u,
    nbrs,                 \* [Thread -> neighbours of u left to relax]
    old_dist, new_dist,   \* [Thread -> the locals of RelaxEdges]
    copy_start            \* [Thread -> first slot claimed for its bin]

args   == <<g, source, delta, oracle>>
shared == <<frontier, shared_indexes, frontier_tails, single_taken>>
relax  == <<u, nbrs, old_dist, new_dist>>
vars   == <<args, dist, shared, iter, local_bins, todo, fused, pc, relax, copy_start>>

weight(v, w) == g.weight[<<v, w>>]
Goto(t, place) == pc' = [pc EXCEPT ![t] = place]

\* The references of lines 110-113, as a thread sees them.
curr(t) == iter[t]
next(t) == 1 - iter[t]
curr_bin_index(t) == shared_indexes[curr(t)]
next_bin_index(t) == shared_indexes[next(t)]

\* Bin i of a thread's bins; one never resized to is empty.
Bin(bins, i) == IF i < Len(bins) THEN bins[i + 1] ELSE <<>>

\* local_bins[i] = b, resized when there is no bin i.
WithBin(bins, i, b) ==
    [k \in 1 .. Max({Len(bins), i + 1}) |-> IF k = i + 1 THEN b ELSE Bin(bins, k - 1)]

-----------------------------------------------------------------------------
\* RelaxEdges, lines 68-85.

\* wn.v, the neighbour at hand
neighbor(t) == Min(nbrs[t])

\* The call: the thread goes through the out-neighbours of v, if it has any.
RelaxEdges(t, v) ==
    /\ u' = [u EXCEPT ![t] = v]
    /\ nbrs' = [nbrs EXCEPT ![t] = out_neigh(g, v)]
    /\ pc' = [pc EXCEPT ![t] = IF out_neigh(g, v) = {} THEN "next" ELSE "edge"]

NextEdge(t) ==
    /\ nbrs' = [nbrs EXCEPT ![t] = @ \ {neighbor(t)}]
    /\ old_dist' = [old_dist EXCEPT ![t] = 0]
    /\ new_dist' = [new_dist EXCEPT ![t] = 0]
    /\ Goto(t, IF nbrs[t] = {neighbor(t)} THEN "next" ELSE "edge")

\* old_dist = dist[wn.v]
ReadOld(t) ==
    /\ pc[t] = "edge"
    /\ old_dist' = [old_dist EXCEPT ![t] = dist[neighbor(t)]]
    /\ Goto(t, "readU")
    /\ UNCHANGED <<args, dist, shared, iter, local_bins, todo, fused, u, nbrs, new_dist, copy_start>>

\* while (new_dist < old_dist), after one more read of dist.
TestNew(t, new, old) ==
    IF new < old
    THEN /\ old_dist' = [old_dist EXCEPT ![t] = old]
         /\ new_dist' = [new_dist EXCEPT ![t] = new]
         /\ Goto(t, "cas")
         /\ UNCHANGED nbrs
    ELSE NextEdge(t)

\* new_dist = dist[u] + wn.w, which another thread may have lowered meanwhile
ReadNew(t) ==
    /\ pc[t] = "readU"
    /\ TestNew(t, dist[u[t]] + weight(u[t], neighbor(t)), old_dist[t])
    /\ UNCHANGED <<args, dist, shared, iter, local_bins, todo, fused, u, copy_start>>

Binned(t, v, d) ==
    WithBin(local_bins[t], d \div delta, Append(Bin(local_bins[t], d \div delta), v))

\* Slip: the distance is stored without compare_and_swap.
Cas_Store(t) ==
    /\ pc[t] = "cas"
    /\ dist' = [dist EXCEPT ![neighbor(t)] = new_dist[t]]
    /\ local_bins' = [local_bins EXCEPT ![t] = Binned(t, neighbor(t), new_dist[t])]
    /\ NextEdge(t)
    /\ UNCHANGED <<args, shared, iter, todo, fused, u, copy_start>>

\* compare_and_swap(dist[wn.v], old_dist, new_dist); the bins are local.
Cas(t) ==
    /\ pc[t] = "cas"
    /\ \/ /\ dist[neighbor(t)] = old_dist[t]
          /\ dist' = [dist EXCEPT ![neighbor(t)] = new_dist[t]]
          /\ local_bins' = [local_bins EXCEPT ![t] = Binned(t, neighbor(t), new_dist[t])]
          /\ NextEdge(t)
       \/ /\ dist[neighbor(t)] # old_dist[t]
          /\ Goto(t, "recheck")
          /\ UNCHANGED <<dist, local_bins, nbrs, old_dist, new_dist>>
    /\ UNCHANGED <<args, shared, iter, todo, fused, u, copy_start>>

\* "swap failed, recheck dist update & retry"
Recheck(t) ==
    /\ pc[t] = "recheck"
    /\ TestNew(t, new_dist[t], dist[neighbor(t)])
    /\ UNCHANGED <<args, dist, shared, iter, local_bins, todo, fused, u, copy_start>>

-----------------------------------------------------------------------------
\* One iteration of the while loop, lines 109-153.

While(t) ==
    /\ pc[t] = "while"
    /\ Goto(t, IF curr_bin_index(t) # kMaxBin THEN "next" ELSE "done")
    /\ UNCHANGED <<args, dist, shared, iter, local_bins, todo, fused, relax, copy_start>>

\* Slip: > for >= in the test below.
InBin_Strict(t, v) == dist[v] > delta * curr_bin_index(t)

\* Vertices whose distance fell below the bin were processed with a lower bin.
InBin(t, v) == dist[v] >= delta * curr_bin_index(t)

\* Lines 114-119.
TakeFrontier(t) ==
    /\ pc[t] = "next" /\ todo[t] # {}
    /\ LET i == Min(todo[t])
       IN  /\ todo' = [todo EXCEPT ![t] = @ \ {i}]
           /\ IF InBin(t, frontier[i]) THEN RelaxEdges(t, frontier[i]) ELSE UNCHANGED <<u, nbrs, pc>>
    /\ UNCHANGED <<args, dist, shared, iter, local_bins, fused, old_dist, new_dist, copy_start>>

\* Lines 120-127: the thread's own part of the bin, unless it is large.
LoopDone(t) == pc[t] = "next" /\ todo[t] = {} /\ fused[t] = <<>>

CanFuse(t) ==
    LET own == Bin(local_bins[t], curr_bin_index(t))
    IN  own # <<>> /\ Len(own) < kBinSizeThreshold

Fuse(t) ==
    /\ LoopDone(t) /\ CanFuse(t)
    /\ fused' = [fused EXCEPT ![t] = Bin(local_bins[t], curr_bin_index(t))]
    /\ local_bins' = [local_bins EXCEPT ![t] = WithBin(@, curr_bin_index(t), <<>>)]
    /\ UNCHANGED <<args, dist, shared, iter, todo, pc, relax, copy_start>>

TakeFused(t) ==
    /\ pc[t] = "next" /\ todo[t] = {} /\ fused[t] # <<>>
    /\ fused' = [fused EXCEPT ![t] = Tail(@)]
    /\ RelaxEdges(t, Head(fused[t]))
    /\ UNCHANGED <<args, dist, shared, iter, local_bins, todo, old_dist, new_dist, copy_start>>

\* The bins a thread may vote for.
NonEmpty(t) == {i \in curr_bin_index(t) .. (Len(local_bins[t]) - 1) : Bin(local_bins[t], i) # <<>>}

\* Slip: next_bin_index = i, the last vote wins.
Vote_Last(t) ==
    /\ LoopDone(t) /\ ~CanFuse(t)
    /\ shared_indexes' = IF NonEmpty(t) = {} THEN shared_indexes
                         ELSE [shared_indexes EXCEPT ![next(t)] = Min(NonEmpty(t))]
    /\ Goto(t, "barrier1")
    /\ UNCHANGED <<args, dist, frontier, frontier_tails, single_taken, iter, local_bins,
                   todo, fused, relax, copy_start>>

\* Lines 128-134; the minimum is taken in a critical section.
Vote(t) ==
    /\ LoopDone(t) /\ ~CanFuse(t)
    /\ shared_indexes' = [shared_indexes EXCEPT ![next(t)] = Min({@} \cup NonEmpty(t))]
    /\ Goto(t, "barrier1")
    /\ UNCHANGED <<args, dist, frontier, frontier_tails, single_taken, iter, local_bins,
                   todo, fused, relax, copy_start>>

\* Line 135.
Barrier1 ==
    /\ \A t \in Thread : pc[t] = "barrier1"
    /\ pc' = [t \in Thread |-> "single"]
    /\ single_taken' = FALSE
    /\ UNCHANGED <<args, dist, frontier, shared_indexes, frontier_tails, iter, local_bins,
                   todo, fused, relax, copy_start>>

\* Slip: the old bin index is left in place.
Single_KeepsIndex(t) ==
    /\ pc[t] = "single" /\ ~single_taken
    /\ single_taken' = TRUE
    /\ frontier_tails' = [frontier_tails EXCEPT ![curr(t)] = 0]
    /\ Goto(t, "copy")
    /\ UNCHANGED <<args, dist, frontier, shared_indexes, iter, local_bins, todo, fused, relax, copy_start>>

\* Lines 136-143, by one thread; the others do not wait for it.
Single(t) ==
    /\ pc[t] = "single" /\ ~single_taken
    /\ single_taken' = TRUE
    /\ shared_indexes' = [shared_indexes EXCEPT ![curr(t)] = kMaxBin]
    /\ frontier_tails' = [frontier_tails EXCEPT ![curr(t)] = 0]
    /\ Goto(t, "copy")
    /\ UNCHANGED <<args, dist, frontier, iter, local_bins, todo, fused, relax, copy_start>>

PassSingle(t) ==
    /\ pc[t] = "single" /\ single_taken
    /\ Goto(t, "copy")
    /\ UNCHANGED <<args, dist, shared, iter, local_bins, todo, fused, relax, copy_start>>

\* Lines 144-146.
Claim(t) ==
    /\ pc[t] = "copy" /\ next_bin_index(t) < Len(local_bins[t])
    /\ copy_start' = [copy_start EXCEPT ![t] = frontier_tails[next(t)]]
    /\ frontier_tails' = [frontier_tails EXCEPT
                            ![next(t)] = @ + Len(Bin(local_bins[t], next_bin_index(t)))]
    /\ Goto(t, "fill")
    /\ UNCHANGED <<args, dist, frontier, shared_indexes, single_taken, iter, local_bins,
                   todo, fused, relax>>

\* iter++
NextIter(t) == iter' = [iter EXCEPT ![t] = next(t)] /\ Goto(t, "barrier2")

\* Lines 147-149.  The frontier is written where the code writes it, within its
\* bounds or not.
Fill(t) ==
    /\ pc[t] = "fill"
    /\ LET bin   == Bin(local_bins[t], next_bin_index(t))
           slots == copy_start[t] .. (copy_start[t] + Len(bin) - 1)
       IN  frontier' = [i \in DOMAIN frontier \cup slots |->
                           IF i \in slots THEN bin[i - copy_start[t] + 1] ELSE frontier[i]]
    /\ local_bins' = [local_bins EXCEPT ![t] = WithBin(@, next_bin_index(t), <<>>)]
    /\ copy_start' = [copy_start EXCEPT ![t] = 0]
    /\ NextIter(t)
    /\ UNCHANGED <<args, dist, shared_indexes, frontier_tails, single_taken, todo, fused, relax>>

NoCopy(t) ==
    /\ pc[t] = "copy" /\ next_bin_index(t) >= Len(local_bins[t])
    /\ NextIter(t)
    /\ UNCHANGED <<args, dist, shared, local_bins, todo, fused, relax, copy_start>>

\* Line 152, and the division of the next frontier among the threads.
Barrier2 ==
    /\ \A t \in Thread : pc[t] = "barrier2"
    /\ \E p \in 0 .. 1 :
          /\ \A t \in Thread : iter[t] = p
          /\ todo' \in Schedules(0 .. (frontier_tails[p] - 1))
    /\ pc' = [t \in Thread |-> "while"]
    /\ UNCHANGED <<args, dist, shared, iter, local_bins, fused, relax, copy_start>>

-----------------------------------------------------------------------------

\* The distances that one more edge leads to.
Lowered(gr, d) ==
    [v \in Node |-> Min({d[v]} \cup {d[w] + gr.weight[<<w, v>>] : w \in in_neigh(gr, v)})]

Rounds(gr, s) ==
    LET step[k \in 0 .. NumNodes] ==
          IF k = 0 THEN [v \in Node |-> IF v = s THEN 0 ELSE kDistInf]
          ELSE Lowered(gr, step[k - 1])
    IN  step

\* Distances from s over at most NumNodes edges: what the serial search of
\* SSSPVerifier, lines 168-199, computes.
Distances(gr, s) == Rounds(gr, s)[NumNodes]

Unwritten == -1       \* the content of a slot of the frontier never written

\* Lines 87-108.
Init ==
    /\ g \in Graphs /\ source \in Node /\ delta \in Deltas
    /\ oracle = Distances(g, source)
    /\ dist = [v \in Node |-> IF v = source THEN 0 ELSE kDistInf]
    /\ frontier = [i \in {0} \cup 0 .. (num_edges_directed(g) - 1) |->
                     IF i = 0 THEN source ELSE Unwritten]
    /\ shared_indexes = [p \in 0 .. 1 |-> IF p = 0 THEN 0 ELSE kMaxBin]
    /\ frontier_tails = [p \in 0 .. 1 |-> 1 - p]
    /\ single_taken = FALSE
    /\ iter = [t \in Thread |-> 0]
    /\ local_bins = [t \in Thread |-> <<>>]
    /\ todo \in Schedules({0})
    /\ fused = local_bins
    /\ pc = [t \in Thread |-> "while"]
    /\ u = [t \in Thread |-> 0]
    /\ nbrs = [t \in Thread |-> {}]
    /\ old_dist = u /\ new_dist = u /\ copy_start = u

ThreadStep(t) ==
    \/ While(t) \/ TakeFrontier(t) \/ Fuse(t) \/ TakeFused(t) \/ Vote(t)
    \/ ReadOld(t) \/ ReadNew(t) \/ Cas(t) \/ Recheck(t)
    \/ Single(t) \/ PassSingle(t) \/ Claim(t) \/ Fill(t) \/ NoCopy(t)

Next == Barrier1 \/ Barrier2 \/ \E t \in Thread : ThreadStep(t)

Finished == \A t \in Thread : pc[t] = "done"

\* DeltaStep has returned; any other state without a successor is a deadlock.
Returned == Finished /\ UNCHANGED vars

Spec == Init /\ [][Next \/ Returned]_vars

\* Every thread runs again and again, and a barrier releases threads that have
\* all arrived.
FairSpec == Spec /\ WF_vars(Barrier1 \/ Barrier2) /\ \A t \in Thread : WF_vars(ThreadStep(t))

-----------------------------------------------------------------------------
\* Properties.

\* Each variable has its type, and a thread reads only slots of the frontier
\* that some copy has filled.
TypeOK ==
    /\ g \in Graphs /\ source \in Node /\ delta \in Deltas
    /\ dist \in [Node -> 0 .. kDistInf]
    /\ shared_indexes \in [0 .. 1 -> 0 .. kMaxBin]
    /\ frontier_tails \in [0 .. 1 -> Nat]
    /\ iter \in [Thread -> 0 .. 1]
    /\ local_bins \in [Thread -> Seq(Seq(Node))]
    /\ \A t \in Thread : \A i \in todo[t] : i \in DOMAIN frontier /\ frontier[i] \in Node
    /\ fused \in [Thread -> Seq(Node)] /\ nbrs \in [Thread -> SUBSET Node]
    /\ u \in [Thread -> Node]

\* "In the next phase, each thread copies its selected thread-local bin into the
\* shared bin" (sssp.cc:38-39): the copies stay within the num_edges_directed()
\* slots that the shared bin, the frontier, is allocated with (sssp.cc:98).
FrontierFits == \A p \in 0 .. 1 : frontier_tails[p] <= num_edges_directed(g)

\* Bucket fusion works "without violating the priority-based execution order"
\* (sssp.cc:49-50): once a bin is being processed, every vertex whose true
\* distance lies in a lower bin has it, whatever the other threads still hold.
PriorityOrder ==
    /\ TypeOK
    /\ \A t \in Thread :
          curr_bin_index(t) # kMaxBin =>
             \A v \in Node : oracle[v] < delta * curr_bin_index(t) => dist[v] = oracle[v]

\* Between two iterations no improvement is forgotten: a vertex with an edge
\* that could still shorten a path waits in the new frontier, where it passes
\* the test of line 117, or in a higher bin of some thread.
NothingForgotten ==
    (\A t \in Thread : pc[t] = "barrier2") =>
       \A e \in g.edges :
          LET waiting == \E p \in 0 .. 1, t \in Thread :
                            /\ p = iter[t]
                            /\ \/ /\ \E i \in 0 .. (frontier_tails[p] - 1) : frontier[i] = e[1]
                                  /\ InBin(t, e[1])
                               \/ \E s \in Thread, b \in (shared_indexes[p] + 1) .. kMaxBin :
                                     \E k \in DOMAIN Bin(local_bins[s], b) :
                                        Bin(local_bins[s], b)[k] = e[1]
          IN  dist[e[1]] + g.weight[e] < dist[e[2]] => waiting

\* The result passes SSSPVerifier, although distances are lowered by racing
\* threads and a vertex stays in a bin after its distance has moved to another.
VerifierAccepts == Finished => dist = oracle

\* The search ends: the vote finds no bin, at the same iteration for all
\* threads, and no thread waits at a barrier for one that has left.
Termination == <>Finished
=============================================================================
