------------------------------- MODULE DOBFS -------------------------------
(***************************************************************************)
(* The direction-optimizing breadth-first search of src/src/bfs.cc, with   *)
(* its OpenMP parallel regions.  A master alternates serial code with four *)
(* kinds of region: TDStep, QueueToBitmap, BUStep and BitmapToQueue.  In a *)
(* region each thread works through its share of the iterations, one       *)
(* shared-memory access at a time, and waits at the barrier that ends it.  *)
(***************************************************************************)
EXTENDS CSRGraph, Bitmap, OpenMP, Sequences

CONSTANTS Graphs,        \* the graphs the search may be given
          Alphas, Betas, \* values of the switching parameters (15 and 18)
          ChunkSize,     \* of BUStep's schedule(dynamic, 1024)
          LocalSize      \* of a QueueBuffer (16384)

ASSUME GraphsAssumption == \A gr \in Graphs : IsGraph(gr)
ASSUME AlphaBetaAssumption == Alphas \subseteq Nat \ {0} /\ Betas \subseteq Nat \ {0}
\* A chunk covers whole words of the bitmap, as 1024 covers words of 64 bits.
ASSUME ChunkAssumption == ChunkSize \in Nat \ {0} /\ ChunkSize % BitsPerWord = 0
ASSUME LocalSizeAssumption == LocalSize \in Nat \ {0}

VARIABLES
    g, source, alpha, beta,         \* arguments of DOBFS
    depth,                          \* auxiliary: hop distances from source
    parent,                         \* the result, with the encoding of lines 32-36
    front, curr,                    \* bitmaps
    edges_to_check, scout_count, awake_count, old_awake_count,
    phase,                          \* the serial code, or the region, being executed
    reduced,                        \* the reduction variable of the current region
    todo,                           \* [Thread -> iterations left to it]
    pc,                             \* [Thread -> its place in the region]
    u,                              \* [Thread -> the vertex it works on]
    rem,                            \* [Thread -> neighbours of u still to scan]
    curr_val,                       \* [Thread -> the parent[v] it read]
    word                            \* [Thread -> the bitmap word it loaded]

VARIABLES shared, shared_in, shared_out_start, shared_out_end, local_queue, copy_start

\* SlidingQueue<NodeID> queue(g.num_nodes()), and each region's lqueue.
Q == INSTANCE SlidingQueue WITH Elem <- Node, Capacity <- NumNodes, Garbage <- -1

qvars   == <<shared, shared_in, shared_out_start, shared_out_end, local_queue, copy_start>>
args    == <<g, source, alpha, beta, depth>>
counts  == <<edges_to_check, scout_count, awake_count, old_awake_count>>
threads == <<todo, pc, u, rem, curr_val, word>>
vars    == <<args, parent, front, curr, counts, phase, reduced, threads, qvars>>

Idle == 0                           \* a register that holds nothing of interest

-----------------------------------------------------------------------------
\* Parallel regions.

\* Slip: BUStep's schedule without its chunk size.
ChunkOf_One(n) == n

\* The chunk of BUStep's schedule that iteration n belongs to.
ChunkOf(n) == n \div ChunkSize

\* The master opens a region whose iterations are divided as s.
Fork(region, s) ==
    /\ phase' = region
    /\ todo' = s
    /\ pc' = [t \in Thread |-> "next"]
    /\ reduced' = 0
    /\ UNCHANGED <<u, rem, curr_val, word>>

AtBarrier == \A t \in Thread : pc[t] = "end"

\* Thread t is at the head of the loop of the given region.
AtNext(t, region) == phase = region /\ pc[t] = "next"
Take(t, i) == todo[t] # {} /\ i = Min(todo[t])
Goto(t, label) == pc' = [pc EXCEPT ![t] = label]

serial == <<args, counts, phase>>       \* what no thread changes

-----------------------------------------------------------------------------
\* QueueToBitmap, lines 93-99: set_bit_atomic for each vertex of the window.

Q2BTake(t) ==
    /\ AtNext(t, "QueueToBitmap")
    /\ \E i \in todo[t] :
          /\ Take(t, i)
          /\ todo' = [todo EXCEPT ![t] = @ \ {i}]
          /\ u' = [u EXCEPT ![t] = shared[i]]
    /\ Goto(t, "load")
    /\ UNCHANGED <<serial, parent, front, curr, reduced, rem, curr_val, word, qvars>>

Q2BLoad(t) ==
    /\ phase = "QueueToBitmap" /\ pc[t] = "load"
    /\ word' = [word EXCEPT ![t] = Word(front, u[t])]
    /\ Goto(t, "store")
    /\ UNCHANGED <<serial, parent, front, curr, reduced, todo, u, rem, curr_val, qvars>>

\* Slip: set_bit instead of set_bit_atomic.
Q2BSwap_Plain(t) ==
    /\ phase = "QueueToBitmap" /\ pc[t] = "store"
    /\ front' = set_bit(front, u[t], word[t])
    /\ Goto(t, "next")
    /\ u' = [u EXCEPT ![t] = Idle]
    /\ word' = [word EXCEPT ![t] = {}]
    /\ UNCHANGED <<serial, parent, curr, reduced, todo, rem, curr_val, qvars>>

Q2BSwap(t) ==
    /\ phase = "QueueToBitmap" /\ pc[t] = "store"
    /\ word' = [word EXCEPT ![t] = {}]
    /\ \/ /\ CanSwap(front, u[t], word[t])
          /\ front' = set_bit(front, u[t], word[t])
          /\ Goto(t, "next")
          /\ u' = [u EXCEPT ![t] = Idle]
       \/ /\ ~CanSwap(front, u[t], word[t])
          /\ Goto(t, "load")
          /\ UNCHANGED <<front, u>>
    /\ UNCHANGED <<serial, parent, curr, reduced, todo, rem, curr_val, qvars>>

Q2BEnd(t) ==
    /\ AtNext(t, "QueueToBitmap") /\ todo[t] = {}
    /\ Goto(t, "end")
    /\ UNCHANGED <<serial, parent, front, curr, reduced, todo, u, rem, curr_val, word, qvars>>

-----------------------------------------------------------------------------
\* BUStep, lines 47-65.  Only the thread that has u's chunk writes parent[u],
\* and nothing writes front, so one step covers the scan of u's in-neighbours,
\* the claim, and the load half of next.set_bit(u).

\* Slip: the scan stops at the first in-neighbour, in the front or not.
BUVisit_AnyNeighbor(t) ==
    /\ AtNext(t, "BUStep")
    /\ \E n \in todo[t] :
          /\ Take(t, n)
          /\ todo' = [todo EXCEPT ![t] = @ \ {n}]
          /\ LET awake == in_neigh(g, n)
             IN  IF parent[n] < 0 /\ awake # {}
                 THEN /\ parent' = [parent EXCEPT ![n] = Min(awake)]
                      /\ reduced' = reduced + 1
                      /\ u' = [u EXCEPT ![t] = n]
                      /\ word' = [word EXCEPT ![t] = Word(curr, n)]
                      /\ Goto(t, "store")
                 ELSE UNCHANGED <<parent, reduced, u, word, pc>>
    /\ UNCHANGED <<serial, front, curr, rem, curr_val, qvars>>

BUVisit(t) ==
    /\ AtNext(t, "BUStep")
    /\ \E n \in todo[t] :
          /\ Take(t, n)
          /\ todo' = [todo EXCEPT ![t] = @ \ {n}]
          /\ LET awake == {v \in in_neigh(g, n) : get_bit(front, v)}
             IN  IF parent[n] < 0 /\ awake # {}
                 THEN /\ parent' = [parent EXCEPT ![n] = Min(awake)]
                      /\ reduced' = reduced + 1
                      /\ u' = [u EXCEPT ![t] = n]
                      /\ word' = [word EXCEPT ![t] = Word(curr, n)]
                      /\ Goto(t, "store")
                 ELSE UNCHANGED <<parent, reduced, u, word, pc>>
    /\ UNCHANGED <<serial, front, curr, rem, curr_val, qvars>>

\* The store half of next.set_bit(u), which is not atomic with the load.
BUSetBit(t) ==
    /\ phase = "BUStep" /\ pc[t] = "store"
    /\ curr' = set_bit(curr, u[t], word[t])
    /\ u' = [u EXCEPT ![t] = Idle]
    /\ word' = [word EXCEPT ![t] = {}]
    /\ Goto(t, "next")
    /\ UNCHANGED <<serial, parent, front, reduced, todo, rem, curr_val, qvars>>

BUEnd(t) ==
    /\ AtNext(t, "BUStep") /\ todo[t] = {}
    /\ Goto(t, "end")
    /\ UNCHANGED <<serial, parent, front, curr, reduced, todo, u, rem, curr_val, word, qvars>>

-----------------------------------------------------------------------------
\* QueueBuffer::push_back of vertex v, as the steps a thread takes when it is
\* at "push"; the last one leads to the label `after`.

PushBack(t, v, after) ==
    \/ /\ Q!LocalPush(t, v)
       /\ rem' = [rem EXCEPT ![t] = @ \ {v}]
       /\ Goto(t, after)
    \/ /\ \/ Len(local_queue[t]) = LocalSize /\ Q!Claim(t)
          \/ Q!CopyOut(t)
       /\ UNCHANGED <<rem, pc>>

\* lqueue.flush() at the end of a region, then its barrier.
Flush(t) ==
    /\ pc[t] = "flush"
    /\ \/ Q!Claim(t) /\ UNCHANGED pc
       \/ Q!CopyOut(t) /\ Goto(t, "end")
    /\ UNCHANGED <<serial, parent, front, curr, reduced, todo, u, rem, curr_val, word>>

\* Slip: a region that ends without lqueue.flush().
LeaveLoop_NoFlush(t) ==
    /\ phase \in {"TDStep", "BitmapToQueue"}
    /\ pc[t] = "next" /\ todo[t] = {}
    /\ Goto(t, "end")
    /\ UNCHANGED <<serial, parent, front, curr, reduced, todo, u, rem, curr_val, word, qvars>>

\* The loops of TDStep and BitmapToQueue are nowait: a thread whose share is
\* done goes on to its flush while others still push.
LeaveLoop(t) ==
    /\ phase \in {"TDStep", "BitmapToQueue"}
    /\ pc[t] = "next" /\ todo[t] = {}
    /\ Goto(t, "flush")
    /\ UNCHANGED <<serial, parent, front, curr, reduced, todo, u, rem, curr_val, word, qvars>>

-----------------------------------------------------------------------------
\* TDStep, lines 68-90.

TDTake(t) ==
    /\ AtNext(t, "TDStep")
    /\ \E i \in todo[t] :
          /\ Take(t, i)
          /\ todo' = [todo EXCEPT ![t] = @ \ {i}]
          /\ u' = [u EXCEPT ![t] = shared[i]]
          /\ rem' = [rem EXCEPT ![t] = out_neigh(g, shared[i])]
    /\ Goto(t, "scan")
    /\ UNCHANGED <<serial, parent, front, curr, reduced, curr_val, word, qvars>>

\* curr_val = parent[v]; a visited v is passed over.
TDRead(t) ==
    /\ phase = "TDStep" /\ pc[t] = "scan"
    /\ \E v \in rem[t] :
          /\ v = Min(rem[t])
          /\ IF parent[v] < 0
             THEN /\ curr_val' = [curr_val EXCEPT ![t] = parent[v]]
                  /\ Goto(t, "cas")
                  /\ UNCHANGED rem
             ELSE /\ rem' = [rem EXCEPT ![t] = @ \ {v}]
                  /\ UNCHANGED <<curr_val, pc>>
    /\ UNCHANGED <<serial, parent, front, curr, reduced, todo, u, word, qvars>>

TDScanned(t) ==
    /\ phase = "TDStep" /\ pc[t] = "scan" /\ rem[t] = {}
    /\ Goto(t, "next")
    /\ u' = [u EXCEPT ![t] = Idle]
    /\ UNCHANGED <<serial, parent, front, curr, reduced, todo, rem, curr_val, word, qvars>>

\* Slip: a plain store of parent[v] instead of the compare-and-swap.
TDCas_Store(t) ==
    /\ phase = "TDStep" /\ pc[t] = "cas"
    /\ \E v \in rem[t] :
          /\ v = Min(rem[t])
          /\ parent' = [parent EXCEPT ![v] = u[t]]
          /\ reduced' = reduced - curr_val[t]
          /\ Goto(t, "push")
    /\ curr_val' = [curr_val EXCEPT ![t] = Idle]
    /\ UNCHANGED <<serial, front, curr, todo, u, rem, word, qvars>>

\* compare_and_swap(parent[v], curr_val, u): the winner pushes v and counts
\* v's edges (the count is the thread's own until the region ends, so it may
\* be taken here rather than after the push).
TDCas(t) ==
    /\ phase = "TDStep" /\ pc[t] = "cas"
    /\ \E v \in rem[t] :
          /\ v = Min(rem[t])
          /\ \/ /\ parent[v] = curr_val[t]
                /\ parent' = [parent EXCEPT ![v] = u[t]]
                /\ reduced' = reduced - curr_val[t]
                /\ Goto(t, "push")
                /\ UNCHANGED rem
             \/ /\ parent[v] # curr_val[t]
                /\ rem' = [rem EXCEPT ![t] = @ \ {v}]
                /\ Goto(t, "scan")
                /\ UNCHANGED <<parent, reduced>>
    /\ curr_val' = [curr_val EXCEPT ![t] = Idle]
    /\ UNCHANGED <<serial, front, curr, todo, u, word, qvars>>

TDPush(t) ==
    /\ phase = "TDStep" /\ pc[t] = "push"
    /\ PushBack(t, Min(rem[t]), "scan")
    /\ UNCHANGED <<serial, parent, front, curr, reduced, todo, u, curr_val, word>>

-----------------------------------------------------------------------------
\* BitmapToQueue, lines 101-113; an iteration whose bit is clear does nothing,
\* and nobody writes the bitmap, so only the others are iterated.

B2QTake(t) ==
    /\ AtNext(t, "BitmapToQueue")
    /\ \E n \in todo[t] :
          /\ Take(t, n)
          /\ todo' = [todo EXCEPT ![t] = @ \ {n}]
          /\ rem' = [rem EXCEPT ![t] = {n}]
    /\ Goto(t, "push")
    /\ UNCHANGED <<serial, parent, front, curr, reduced, u, curr_val, word, qvars>>

B2QPush(t) ==
    /\ phase = "BitmapToQueue" /\ pc[t] = "push"
    /\ PushBack(t, Min(rem[t]), "next")
    /\ UNCHANGED <<serial, parent, front, curr, reduced, todo, u, curr_val, word>>

-----------------------------------------------------------------------------
\* The master, lines 124-175.

\* Slip: the encoding as the comment at line 35 has it.
InitParent_Plain(gr) == [n \in Node |-> -out_degree(gr, n)]

\* InitParent: the negated out-degree, -1 for a vertex that has no out-edge.
InitParent(gr) == [n \in Node |-> IF out_degree(gr, n) # 0 THEN -out_degree(gr, n) ELSE -1]

Init ==
    /\ g \in Graphs /\ source \in Node
    /\ alpha \in Alphas /\ beta \in Betas
    /\ depth = Depth(g, source)
    /\ parent = [InitParent(g) EXCEPT ![source] = source]
    /\ front = {} /\ curr = {}
    /\ edges_to_check = num_edges_directed(g)
    /\ scout_count = out_degree(g, source)
    /\ awake_count = 0 /\ old_awake_count = 0
    /\ phase = "push_back(source)"
    /\ reduced = 0
    /\ todo = [t \in Thread |-> {}]
    /\ pc = [t \in Thread |-> "end"]
    /\ u = [t \in Thread |-> Idle]
    /\ rem = [t \in Thread |-> {}]
    /\ curr_val = [t \in Thread |-> Idle]
    /\ word = [t \in Thread |-> {}]
    /\ Q!QInit

\* Lines 134-135.
PushSource ==
    /\ phase = "push_back(source)"
    /\ Q!SerialPush(source)
    /\ phase' = "slide_window"
    /\ UNCHANGED <<args, parent, front, curr, counts, reduced, threads>>

SlideSource ==
    /\ phase = "slide_window"
    /\ Q!slide_window
    /\ phase' = "while"
    /\ UNCHANGED <<args, parent, front, curr, counts, reduced, threads>>

\* Line 143: is the frontier's edge count large against what is left?
GoBottomUp == scout_count > edges_to_check \div alpha

StartBottomUp ==
    /\ phase = "while" /\ ~Q!empty /\ GoBottomUp
    /\ \E s \in Schedules(Q!WindowSlots) : Fork("QueueToBitmap", s)
    /\ UNCHANGED <<args, parent, front, curr, counts, qvars>>

StartTopDown ==
    /\ phase = "while" /\ ~Q!empty /\ ~GoBottomUp
    /\ edges_to_check' = edges_to_check - scout_count
    /\ \E s \in Schedules(Q!WindowSlots) : Fork("TDStep", s)
    /\ UNCHANGED <<args, parent, front, curr, scout_count, awake_count, old_awake_count, qvars>>

\* Slip: no slide_window after a top-down step.
EndTopDown_NoSlide ==
    /\ phase = "TDStep" /\ AtBarrier
    /\ scout_count' = reduced
    /\ phase' = "while"
    /\ reduced' = 0
    /\ UNCHANGED <<args, parent, front, curr, edges_to_check, awake_count, old_awake_count,
                   threads, qvars>>

\* Lines 164-165.
EndTopDown ==
    /\ phase = "TDStep" /\ AtBarrier
    /\ scout_count' = reduced
    /\ Q!slide_window
    /\ phase' = "while"
    /\ reduced' = 0
    /\ UNCHANGED <<args, parent, front, curr, edges_to_check, awake_count, old_awake_count,
                   threads>>

\* Lines 147-151, and next.reset() of the first BUStep.
EndQueueToBitmap ==
    /\ phase = "QueueToBitmap" /\ AtBarrier
    /\ awake_count' = Q!size
    /\ old_awake_count' = Q!size
    /\ Q!slide_window
    /\ curr' = {}
    /\ \E s \in ChunkSchedules(Node, [n \in Node |-> ChunkOf(n)]) : Fork("BUStep", s)
    /\ UNCHANGED <<args, parent, front, edges_to_check, scout_count>>

\* Lines 152-158: swap the bitmaps, then go round again or convert back.
AnotherBUStep ==
    \/ reduced >= old_awake_count
    \/ reduced > NumNodes \div beta

EndBUStep ==
    /\ phase = "BUStep" /\ AtBarrier
    /\ awake_count' = reduced
    /\ front' = curr
    /\ \/ /\ AnotherBUStep
          /\ old_awake_count' = reduced
          /\ curr' = {}
          /\ \E s \in ChunkSchedules(Node, [n \in Node |-> ChunkOf(n)]) : Fork("BUStep", s)
       \/ /\ ~AnotherBUStep
          /\ curr' = front
          /\ \E s \in Schedules(curr) : Fork("BitmapToQueue", s)
          /\ UNCHANGED old_awake_count
    /\ UNCHANGED <<args, parent, edges_to_check, scout_count, qvars>>

\* Lines 112 and 160.
EndBitmapToQueue ==
    /\ phase = "BitmapToQueue" /\ AtBarrier
    /\ Q!slide_window
    /\ scout_count' = 1
    /\ phase' = "while"
    /\ UNCHANGED <<args, parent, front, curr, edges_to_check, awake_count, old_awake_count,
                   reduced, threads>>

\* Lines 170-174: the degrees of unvisited vertices become -1.
Finish ==
    /\ phase = "while" /\ Q!empty
    /\ parent' = [n \in Node |-> IF parent[n] < -1 THEN -1 ELSE parent[n]]
    /\ phase' = "done"
    /\ UNCHANGED <<args, front, curr, counts, reduced, threads, qvars>>

-----------------------------------------------------------------------------

ThreadStep(t) ==
    \/ Q2BTake(t) \/ Q2BLoad(t) \/ Q2BSwap(t) \/ Q2BEnd(t)
    \/ BUVisit(t) \/ BUSetBit(t) \/ BUEnd(t)
    \/ TDTake(t) \/ TDRead(t) \/ TDCas(t) \/ TDPush(t) \/ TDScanned(t)
    \/ B2QTake(t) \/ B2QPush(t)
    \/ LeaveLoop(t) \/ Flush(t)

Master ==
    \/ PushSource \/ SlideSource
    \/ StartBottomUp \/ EndQueueToBitmap \/ EndBUStep \/ EndBitmapToQueue
    \/ StartTopDown \/ EndTopDown
    \/ Finish

Next == Master \/ \E t \in Thread : ThreadStep(t)

\* Returned: DOBFS has ended.  The disjunct makes a deadlock of the search
\* visible to TLC.
Returned == phase = "done" /\ UNCHANGED vars

Spec == Init /\ [][Next \/ Returned]_vars

\* The operating system runs every thread of the team again and again.
Fairness == WF_vars(Master) /\ \A t \in Thread : WF_vars(ThreadStep(t))

FairSpec == Spec /\ Fairness

-----------------------------------------------------------------------------
\* BFSVerifier, lines 192-243: the check the program makes of its own result
\* under -v, against the depths of a serial search.
BFSVerifier ==
    \A n \in Node :
       IF depth[n] # Unreached /\ parent[n] # -1
       THEN IF n = source
            THEN parent[n] = n
            ELSE parent[n] \in in_neigh(g, n) /\ depth[parent[n]] = depth[n] - 1
       ELSE depth[n] = parent[n]

-----------------------------------------------------------------------------
\* Properties.

\* depth never changes; it is what BFSVerifier's serial search computes.
Level(d) == {v \in Node : depth[v] = d}
Visited == {v \in Node : parent[v] >= 0}

\* Each variable has its type.  The edge budget never becomes negative, and a
\* register that indexes the graph or the queue never leaves its range.
TypeOK ==
    /\ g \in Graphs /\ source \in Node /\ alpha \in Alphas /\ beta \in Betas
    /\ depth \in [Node -> Unreached .. NumNodes]
    /\ parent \in [Node -> -NumNodes .. (NumNodes - 1)]
    /\ front \subseteq Node /\ curr \subseteq Node
    /\ {edges_to_check, scout_count, awake_count, old_awake_count, reduced} \subseteq Nat
    /\ todo \in [Thread -> SUBSET Node]
    /\ u \in [Thread -> Node]
    /\ rem \in [Thread -> SUBSET Node]
    /\ curr_val \in [Thread -> -NumNodes .. Idle]
    /\ word \in [Thread -> SUBSET Node]

\* Between two regions the window is one complete level of the search and
\* everything up to that level, and nothing beyond, has been visited
\* (bfs.cc:142): no vertex is lost in a flush, in a bitmap conversion or in
\* an unfinished bottom-up step, and none is queued a level late.
FrontierIsLevel ==
    /\ TypeOK
    /\ phase = "while" =>
          IF Q!empty
          THEN Visited = {v \in Node : depth[v] # Unreached}
          ELSE \E d \in 0 .. NumNodes :
                  /\ Q!Window = Level(d)
                  /\ Q!size = Cardinality(Level(d))
                  /\ Visited = {v \in Node : depth[v] \in 0 .. d}

\* When the threads of a bottom-up step meet at its barrier, the bitmap it
\* built holds exactly the next level and the reduction counted it: no
\* non-atomic set_bit (bfs.cc:58) overwrote another thread's bit.
NoBitLost ==
    phase = "BUStep" /\ AtBarrier =>
       /\ reduced = Cardinality(curr)
       /\ \E d \in 1 .. (NumNodes + 1) :
             /\ curr = Level(d)
             /\ Visited = {v \in Node : depth[v] \in 0 .. d}

\* front is not cleared before the frontier is added to it again (bfs.cc:145),
\* so the bits of an earlier level may still be set.  They wake no vertex:
\* while a bottom-up step runs, each bit set in front is a vertex of the level
\* being expanded or has no unvisited out-neighbour.
StaleFrontHarmless ==
    phase = "BUStep" =>
       \E d \in 0 .. NumNodes :
          /\ Level(d) \subseteq front
          /\ Visited \subseteq {v \in Node : depth[v] \in 0 .. (d + 1)}
          /\ \A v \in front \ Level(d) : out_neigh(g, v) \subseteq Visited

\* The result is a shortest-path tree of everything the source reaches, as
\* BFSVerifier judges it, however the threads were interleaved and whichever
\* directions the heuristic chose (bfs.cc:143, 156).
VerifierAccepts == phase = "done" => BFSVerifier

\* The search drives its queue by the protocol SlidingQueue assumes: it slides
\* only when every buffer is flushed, and queues no vertex twice.  Hence the
\* theorems about SlidingQueue hold of this queue: with one slot per vertex
\* (bfs.cc:133) it cannot overflow.
FollowsQueueProtocol == Q!Spec

\* The top-down and the bottom-up steps together are a level-synchronous
\* search: a vertex is claimed once, by a vertex one level above it, and only
\* when the level above is complete.
Tree == INSTANCE LevelBFS WITH
           tree  <- [v \in Node |-> IF parent[v] >= 0 THEN parent[v] ELSE -1],
           depth <- [v \in Node |-> IF parent[v] >= 0 THEN depth[v] ELSE Unreached]

RefinesLevelBFS == Tree!Spec

\* The search ends: its while loop, the do-while of the bottom-up steps, whose
\* condition also holds when equally many vertices wake twice in a row, and
\* the retried compare-and-swaps.
Termination == <>(phase = "done")
=============================================================================
