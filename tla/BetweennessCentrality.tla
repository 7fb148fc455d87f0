----------------------- MODULE BetweennessCentrality -----------------------
(***************************************************************************)
(* Betweenness centrality by Brandes' algorithm (src/src/bc.cc).  For each *)
(* source a parallel breadth-first search (PBFS) counts shortest paths and *)
(* marks the edges they use in a bitmap, all in one parallel region with a *)
(* barrier a level; then dependencies are summed up level by level from    *)
(* the farthest back to the source.  Scores are exact fractions here: the  *)
(* rounding of float and double is left out.  BenchmarkKernel of           *)
(* src/src/benchmark.h runs the kernel in trials and has each result       *)
(* verified, with sources from a picker of the verifier's own.             *)
(***************************************************************************)
EXTENDS CSRGraph, Bitmap, OpenMP, SequencesExt

CONSTANTS Graphs,
          Runs,          \* numbers of trials and of sources in a trial, as pairs
          StartVertices, \* values of the option -r, NoVertex when it is absent
          LocalSize      \* of a QueueBuffer (16384)

ASSUME GraphsAssumption == \A gr \in Graphs : IsGraph(gr)
ASSUME RunsAssumption == Runs \subseteq Nat \X Nat
NoVertex == -1
ASSUME StartVerticesAssumption == StartVertices \subseteq Node \cup {NoVertex}
ASSUME LocalSizeAssumption == LocalSize \in Nat \ {0}

VARIABLES
    g, given_source,     \* the graph, and the start vertex of SourcePicker
    num_trials, num_iters,
    trial,               \* trials that are over
    picks,               \* what a new SourcePicker returns, as far as that is fixed
    sp, vsp,             \* how often the kernel's and the verifier's have been asked
    sources,             \* the sources of this trial
    scores, deltas,      \* [Node -> fraction]
    path_counts, succ,   \* [Node -> Nat] and the bitmap of successor edges
    depths,
    depth_index,         \* slots of the queue at which the levels begin
    phase,
    d, left,             \* level of the back-propagation and its slots left
    single_taken,        \* a thread has taken the omp single of this level
    todo,                \* [Thread -> slots of the window left to it]
    local                \* [Thread -> its place and the locals of PBFS]

VARIABLES shared, shared_in, shared_out_start, shared_out_end, local_queue, copy_start

Q == INSTANCE SlidingQueue WITH Elem <- Node, Capacity <- NumNodes, Garbage <- -1

qvars  == <<shared, shared_in, shared_out_start, shared_out_end, local_queue, copy_start>>
opts   == <<g, given_source, num_trials, num_iters>>
args   == <<opts, trial, picks, sp, vsp, sources>>
marks  == <<path_counts, succ, depths>>
sums   == <<scores, deltas, d, left>>
vars   == <<args, marks, sums, depth_index, phase, single_taken, todo, local, qvars>>

-----------------------------------------------------------------------------
\* Fractions, in lowest terms.  NaN is what 0 / 0 gives.

NaN == <<0, 0>>
Zero == <<0, 1>>
Frac(n, m) == LET k == Max({i \in 1 .. m : n % i = 0 /\ m % i = 0}) IN <<n \div k, m \div k>>
Plus(a, b)  == Frac(a[1] * b[2] + b[1] * a[2], a[2] * b[2])
Times(a, b) == Frac(a[1] * b[1], a[2] * b[2])
Over(a, b)  == IF b = Zero THEN NaN ELSE Frac(a[1] * b[2], a[2] * b[1])
Largest(S)  == CHOOSE x \in S : \A y \in S : y[1] * x[2] <= x[1] * y[2]

\* Lines 138-145.
Normalized(s) == [n \in Node |-> Over(s[n], Largest({s[v] : v \in Node}))]

\* Lines 125-130: what u receives from the vertices of S, its successors.
Dependency(counts, received, u, S) ==
    MapThenFoldSet(Plus, Zero,
                   LAMBDA v : Times(Frac(counts[u], counts[v]), Plus(<<1, 1>>, received[v])),
                   LAMBDA T : CHOOSE v \in T : TRUE, S)

\* &v - g_out_start: the place of an edge in the array of neighbours.
EdgeIndex(e) ==
    Cardinality({f \in g.edges : f[1] < e[1] \/ (f[1] = e[1] /\ f[2] < e[2])})

-----------------------------------------------------------------------------
\* PBFS, lines 62-91: what thread t does, one shared-memory access a step.

At(t, place) == phase = "PBFS" /\ local[t].pc = place
Goto(t, place) == local' = [local EXCEPT ![t].pc = place]
AllAt(place) == phase = "PBFS" /\ \A t \in Thread : local[t].pc = place
next_v(t) == Min(local[t].nbrs)
edge(t) == EdgeIndex(<<local[t].u, next_v(t)>>)

\* The neighbour is dealt with: it is on a shortest path from u, or not.
Judge(t, dep) ==
    IF dep = local[t].depth THEN Goto(t, "set_bit")
    ELSE local' = [local EXCEPT ![t].pc = "edge", ![t].nbrs = @ \ {next_v(t)}]

While(t) ==
    /\ At(t, "while")
    /\ IF Q!empty THEN Goto(t, "end")
       ELSE local' = [local EXCEPT ![t].pc = "next", ![t].depth = @ + 1]
    /\ UNCHANGED <<args, marks, sums, depth_index, phase, single_taken, todo, qvars>>

TakeVertex(t) ==
    /\ At(t, "next")
    /\ IF todo[t] = {} THEN Goto(t, "flush") /\ UNCHANGED todo
       ELSE LET u == shared[Min(todo[t])]
            IN  /\ todo' = [todo EXCEPT ![t] = @ \ {Min(@)}]
                /\ local' = [local EXCEPT ![t].pc = "edge", ![t].u = u, ![t].nbrs = out_neigh(g, u)]
    /\ UNCHANGED <<args, marks, sums, depth_index, phase, single_taken, qvars>>

\* depths[v] == -1, line 72.  A depth that is not -1 never changes, so the test
\* of line 76 is made with it at once.
Test(t) ==
    /\ At(t, "edge")
    /\ IF local[t].nbrs = {} THEN local' = [local EXCEPT ![t].pc = "next", ![t].u = 0]
       ELSE IF depths[next_v(t)] = -1 THEN Goto(t, "cas")
       ELSE Judge(t, depths[next_v(t)])
    /\ UNCHANGED <<args, marks, sums, depth_index, phase, single_taken, todo, qvars>>

\* Slip: the compare-and-swap is repeated until it succeeds.
Cas_Spin(t) ==
    /\ At(t, "cas")
    /\ IF depths[next_v(t)] = -1
       THEN depths' = [depths EXCEPT ![next_v(t)] = local[t].depth] /\ Goto(t, "push")
       ELSE UNCHANGED <<depths, local>>
    /\ UNCHANGED <<args, path_counts, succ, sums, depth_index, phase, single_taken, todo, qvars>>

\* Line 73; the loser goes on to line 76.
Cas(t) ==
    /\ At(t, "cas")
    /\ IF depths[next_v(t)] = -1
       THEN depths' = [depths EXCEPT ![next_v(t)] = local[t].depth] /\ Goto(t, "push")
       ELSE Judge(t, depths[next_v(t)]) /\ UNCHANGED depths
    /\ UNCHANGED <<args, path_counts, succ, sums, depth_index, phase, single_taken, todo, qvars>>

\* lqueue.push_back(v), with a flush of its own when the buffer is full.
Push(t) ==
    /\ At(t, "push")
    /\ \/ Q!LocalPush(t, next_v(t)) /\ Goto(t, "set_bit")
       \/ Len(local_queue[t]) = LocalSize /\ Q!Claim(t) /\ UNCHANGED local
       \/ Q!CopyOut(t) /\ UNCHANGED local
    /\ UNCHANGED <<args, marks, sums, depth_index, phase, single_taken, todo>>

\* succ.set_bit_atomic(&v - g_out_start), the load ...
SuccLoad(t) ==
    /\ At(t, "set_bit")
    /\ local' = [local EXCEPT ![t].pc = "swap", ![t].word = Word(succ, edge(t))]
    /\ UNCHANGED <<args, marks, sums, depth_index, phase, single_taken, todo, qvars>>

\* Slip: set_bit for set_bit_atomic.
SuccSwap_Plain(t) ==
    /\ At(t, "swap")
    /\ succ' = set_bit(succ, edge(t), local[t].word)
    /\ local' = [local EXCEPT ![t].pc = "count", ![t].word = {}]
    /\ UNCHANGED <<args, path_counts, depths, sums, depth_index, phase, single_taken, todo, qvars>>

\* ... and the compare-and-swap.
SuccSwap(t) ==
    /\ At(t, "swap")
    /\ LET won == CanSwap(succ, edge(t), local[t].word)
       IN  /\ succ' = IF won THEN set_bit(succ, edge(t), local[t].word) ELSE succ
           /\ local' = [local EXCEPT ![t].pc = IF won THEN "count" ELSE "set_bit", ![t].word = {}]
    /\ UNCHANGED <<args, path_counts, depths, sums, depth_index, phase, single_taken, todo, qvars>>

\* The omp atomic of lines 78-79; path_counts[u] is final during u's level.
Count(t) ==
    /\ At(t, "count")
    /\ path_counts' = [path_counts EXCEPT ![next_v(t)] = @ + path_counts[local[t].u]]
    /\ local' = [local EXCEPT ![t].pc = "edge", ![t].nbrs = @ \ {next_v(t)}]
    /\ UNCHANGED <<args, succ, depths, sums, depth_index, phase, single_taken, todo, qvars>>

Flush(t) ==
    /\ At(t, "flush")
    /\ \/ Q!Claim(t) /\ UNCHANGED local
       \/ Q!CopyOut(t) /\ Goto(t, "barrier")
    /\ UNCHANGED <<args, marks, sums, depth_index, phase, single_taken, todo>>

\* Line 84.
Barrier ==
    /\ AllAt("barrier")
    /\ local' = [t \in Thread |-> [local[t] EXCEPT !.pc = "single"]]
    /\ single_taken' = FALSE
    /\ UNCHANGED <<args, marks, sums, depth_index, phase, todo, qvars>>

\* Lines 85-89 are executed by one thread; all wait for it at the end.
Single(t) ==
    /\ At(t, "single") /\ ~single_taken
    /\ single_taken' = TRUE
    /\ depth_index' = Append(depth_index, shared_out_start)
    /\ Q!slide_window
    /\ Goto(t, "single end")
    /\ UNCHANGED <<args, marks, sums, phase, todo>>

PassSingle(t) ==
    /\ At(t, "single") /\ single_taken
    /\ Goto(t, "single end")
    /\ UNCHANGED <<args, marks, sums, depth_index, phase, single_taken, todo, qvars>>

\* The implicit barrier of omp single; the next window is divided.
EndSingle ==
    /\ AllAt("single end")
    /\ local' = [t \in Thread |-> [local[t] EXCEPT !.pc = "while"]]
    /\ todo' \in Schedules(Q!WindowSlots)
    /\ UNCHANGED <<args, marks, sums, depth_index, phase, single_taken, qvars>>

-----------------------------------------------------------------------------
\* The serial part of Brandes, lines 96-147, and of PBFS.

Unborn == [pc |-> "end", depth |-> 0, u |-> 0, nbrs |-> {}, word |-> {}]

\* SourcePicker::PickNext draws until the vertex has an out-edge, or returns the
\* start vertex it was given.  Pickers have the same seed: the k-th call of one
\* returns what the k-th call of any other does.
PickNext(k) ==
    IF given_source # NoVertex THEN {given_source}
    ELSE IF k \in DOMAIN picks THEN {picks[k]} ELSE {s \in Node : out_degree(g, s) > 0}

Init ==
    /\ g \in Graphs /\ given_source \in StartVertices
    /\ \E r \in Runs : num_trials = r[1] /\ num_iters = r[2]
    /\ trial = 0 /\ picks = <<>> /\ sp = 0 /\ vsp = 0
    /\ sources = <<>>
    /\ scores = [n \in Node |-> Zero] /\ deltas = scores
    /\ path_counts = [n \in Node |-> 0] /\ succ = {}
    /\ depths = [n \in Node |-> -1]
    /\ depth_index = <<>>
    /\ phase = (IF num_trials = 0 THEN "done" ELSE "iter") /\ d = 0 /\ left = {}
    /\ single_taken = FALSE
    /\ todo = [t \in Thread |-> {}]
    /\ local = [t \in Thread |-> Unborn]
    /\ Q!QInit

\* Lines 109-115 and 55-57.
StartIter ==
    /\ phase = "iter" /\ Len(sources) < num_iters
    /\ sp' = sp + 1
    /\ \E s \in PickNext(sp') :
          /\ sources' = Append(sources, s)
          /\ picks' = IF sp' \in DOMAIN picks THEN picks ELSE Append(picks, s)
          /\ depths' = [n \in Node |-> IF n = s THEN 0 ELSE -1]
          /\ path_counts' = [n \in Node |-> IF n = s THEN 1 ELSE 0]
    /\ succ' = {} /\ depth_index' = <<>>
    /\ Q!reset
    /\ phase' = "push_back"
    /\ UNCHANGED <<opts, trial, vsp, sums, single_taken, todo, local>>

\* Lines 58-59.
PushSource ==
    /\ phase = "push_back"
    /\ Q!SerialPush(sources[Len(sources)])
    /\ depth_index' = <<shared_out_start>>
    /\ phase' = "slide_window"
    /\ UNCHANGED <<args, marks, sums, single_taken, todo, local>>

\* Lines 60-65.
StartPBFS ==
    /\ phase = "slide_window"
    /\ Q!slide_window
    /\ phase' = "PBFS"
    /\ todo' \in Schedules(shared_out_end .. (shared_in - 1))
    /\ local' = [t \in Thread |-> [Unborn EXCEPT !.pc = "while"]]
    /\ UNCHANGED <<args, marks, sums, depth_index, single_taken>>

\* Lines 92 and 119; the levels are counted down from depth_index.size()-2.
EndPBFS ==
    /\ AllAt("end")
    /\ depth_index' = Append(depth_index, shared_out_start)
    /\ deltas' = [n \in Node |-> Zero]
    /\ d' = Len(depth_index) /\ left' = {}
    /\ phase' = "back"
    /\ UNCHANGED <<args, marks, scores, single_taken, todo, local, qvars>>

\* Line 121; depth_index[d] of the code is at place d + 1 here.
BackLevel ==
    /\ phase = "back" /\ left = {}
    /\ IF d = 0 THEN phase' = "iter" /\ UNCHANGED <<d, left>>
       ELSE /\ d' = d - 1
            /\ left' = depth_index[d] .. (depth_index[d + 1] - 1)
            /\ UNCHANGED phase
    /\ UNCHANGED <<args, marks, scores, deltas, depth_index, single_taken, todo, local, qvars>>

Successors(u) == {v \in out_neigh(g, u) : get_bit(succ, EdgeIndex(<<u, v>>))}

\* Slip: = for += in line 132.
BackVertex_Assign ==
    /\ phase = "back"
    /\ \E i \in left :
          LET u       == shared[i]
              delta_u == Dependency(path_counts, deltas, u, Successors(u))
          IN  /\ deltas' = [deltas EXCEPT ![u] = delta_u]
              /\ scores' = [scores EXCEPT ![u] = delta_u]
              /\ left' = left \ {i}
    /\ UNCHANGED <<args, marks, d, depth_index, phase, single_taken, todo, local, qvars>>

\* Lines 124-132.  An iteration writes only what belongs to its own u and reads
\* deltas of other levels: the iterations of a level happen in any order.
BackVertex ==
    /\ phase = "back"
    /\ \E i \in left :
          LET u       == shared[i]
              delta_u == Dependency(path_counts, deltas, u, Successors(u))
          IN  /\ deltas' = [deltas EXCEPT ![u] = delta_u]
              /\ scores' = [scores EXCEPT ![u] = Plus(@, delta_u)]
              /\ left' = left \ {i}
    /\ UNCHANGED <<args, marks, d, depth_index, phase, single_taken, todo, local, qvars>>

Normalize ==
    /\ phase = "iter" /\ Len(sources) = num_iters
    /\ scores' = Normalized(scores)
    /\ phase' = "verify"
    /\ UNCHANGED <<args, marks, deltas, d, left, depth_index, single_taken, todo, local, qvars>>

\* The verification draws its sources; what it finds is BCVerifier below.  The
\* next trial calls Brandes again, whose new scores are 0; what else is new there
\* is set before it is read.
Verify ==
    /\ phase = "verify"
    /\ vsp' = vsp + num_iters
    /\ trial' = trial + 1
    /\ phase' = IF trial' < num_trials THEN "iter" ELSE "done"
    /\ sources' = <<>> /\ scores' = [n \in Node |-> Zero] /\ deltas' = scores'
    /\ UNCHANGED <<opts, picks, sp, marks, d, left, depth_index, single_taken, todo, local, qvars>>

-----------------------------------------------------------------------------

ThreadStep(t) ==
    \/ While(t) \/ TakeVertex(t) \/ Test(t) \/ Cas(t) \/ Push(t)
    \/ SuccLoad(t) \/ SuccSwap(t) \/ Count(t)
    \/ Flush(t) \/ Single(t) \/ PassSingle(t)

\* What happens when all threads have arrived.
Team == Barrier \/ EndSingle \/ EndPBFS

Next ==
    \/ StartIter \/ PushSource \/ StartPBFS
    \/ Team \/ \E t \in Thread : ThreadStep(t)
    \/ BackLevel \/ BackVertex \/ Normalize \/ Verify

\* The trials are over; any other state without a successor is a deadlock.
Returned == phase = "done" /\ UNCHANGED vars

Spec == Init /\ [][Next \/ Returned]_vars

\* The operating system runs every thread of the team again and again.
FairSpec == Spec /\ WF_vars(Team) /\ \A t \in Thread : WF_vars(ThreadStep(t))

-----------------------------------------------------------------------------
\* BCVerifier, lines 161-227, and the definition of what is computed.

\* Lines 171-189: the number of shortest paths from s to each vertex.
PathCounts(s) ==
    LET depth == Depth(g, s)
        count[v \in Node] ==
            IF v = s THEN 1
            ELSE MapThenSumSet(LAMBDA u : count[u],
                               {u \in in_neigh(g, v) : depth[u] >= 0 /\ depth[v] = depth[u] + 1})
    IN  count

\* Lines 190-209; the recursion visits the farthest vertices first.
Deltas(s) ==
    LET depth  == Depth(g, s)
        counts == PathCounts(s)
        delta[u \in Node] ==
            Dependency(counts, delta, u,
                       {v \in out_neigh(g, u) : depth[u] >= 0 /\ depth[v] = depth[u] + 1})
    IN  delta

\* Lines 169, 208 and 213-215: the sum over the sources list, normalised; share
\* has a fraction for each source and vertex.
Scores(list, share) ==
    Normalized([n \in Node |-> FoldLeft(LAMBDA sum, s : Plus(sum, share[s][n]), Zero, list)])

\* Line 170, for each iteration.
VerifierSources == {list \in [1 .. num_iters -> Node] : \A k \in 1 .. num_iters : list[k] \in PickNext(vsp + k)}

BCVerifier == \A list \in VerifierSources : scores = Scores(list, [s \in Node |-> Deltas(s)])

\* What the dependency of s on u stands for: of the shortest paths from s to
\* each vertex other than u, the share that u lies on.  Unlike betweenness proper
\* it counts the paths that begin in u = s, in the kernel and in the verifier.
PairShares(s) ==
    LET depth  == [x \in Node |-> Depth(g, x)]
        counts == [x \in Node |-> PathCounts(x)]
        beyond(u) == {x \in Node \ {u} : /\ depth[s][u] # Unreached /\ depth[u][x] # Unreached
                                         /\ depth[s][u] + depth[u][x] = depth[s][x]}
    IN  [u \in Node |->
           MapThenFoldSet(Plus, Zero,
                          LAMBDA x : Frac(counts[s][u] * counts[u][x], counts[s][x]),
                          LAMBDA T : CHOOSE x \in T : TRUE, beyond(u))]

-----------------------------------------------------------------------------
\* Properties.

source == sources[Len(sources)]
Level(k) == {v \in Node : Depth(g, source)[v] = k}

\* Each variable has its type.
TypeOK ==
    /\ g \in Graphs /\ given_source \in StartVertices /\ <<num_trials, num_iters>> \in Runs
    /\ sources \in Seq(Node) /\ Len(sources) <= num_iters
    /\ depths \in [Node -> -1 .. NumNodes]
    /\ path_counts \in [Node -> Nat]
    /\ succ \subseteq 0 .. (Cardinality(g.edges) - 1)
    /\ shared \in [0 .. (NumNodes - 1) -> Node \cup {-1}]
    /\ \A n \in Node : (phase # "verify" => scores[n][2] > 0) /\ deltas[n][2] > 0
    /\ todo \in [Thread -> SUBSET (0 .. (NumNodes - 1))]

\* When the search from a source ends, succ holds exactly the edges on shortest
\* paths, every path has been counted once although a vertex is claimed by one
\* thread and counted by others (bc.cc:72-80), and each level is one range of
\* the queue between two entries of depth_index (bc.cc:87, 92).
PathsExact ==
    /\ TypeOK
    /\ phase = "back" =>
          /\ depths = Depth(g, source)
          /\ path_counts = PathCounts(source)
          /\ succ = {EdgeIndex(e) : e \in {f \in g.edges : /\ depths[f[1]] # -1
                                                           /\ depths[f[2]] = depths[f[1]] + 1}}
          /\ \A k \in 2 .. (Len(depth_index) - 1) :
                {shared[i] : i \in depth_index[k] .. (depth_index[k + 1] - 1)} = Level(k - 2)
          /\ shared_in = Cardinality({v \in Node : depths[v] # -1})

\* In every trial the scores pass BCVerifier, whose own picker is in step with the
\* kernel's (bc.cc:109, 170), and before the normalisation they were what
\* betweenness is defined to be, for every choice of sources and schedule.
VerifierAccepts ==
    phase = "verify" => BCVerifier /\ scores = Scores(sources, [s \in Node |-> PairShares(s)])

\* A search that has begun ends: every thread sees the same windows and leaves
\* the loop at the same level, so that none waits at a barrier for one that has
\* left (bc.cc:66, 84-89), and no claim or bit is retried for ever.
Termination == phase = "PBFS" ~> phase = "back"

\* "Additionally, the scores are normalized to the range [0,1]" (bc.cc:31).
NormalizedRange ==
    phase = "verify" => \A n \in Node : scores[n][2] > 0 /\ scores[n][1] <= scores[n][2]
=============================================================================
