----------------------------- MODULE DOBFSProofs -----------------------------
(***************************************************************************)
(* Theorems about DOBFS for every graph, every number of threads, every    *)
(* division of the iterations and all parameters of the heuristic.  The    *)
(* inductive invariant names the level d that the search is expanding and  *)
(* says, for each region, where every vertex of the levels d and d + 1     *)
(* is: visited or not, in the queue, in a bitmap, in a thread's share or   *)
(* in its hands.  The queue is dealt with through the theorems about       *)
(* SlidingQueue: to the search it is the three sets Window, Hidden and     *)
(* Pushed.                                                                 *)
(***************************************************************************)
EXTENDS DOBFS, CSRGraphProofs

QP == INSTANCE SlidingQueueProofs WITH
         Elem <- Node, Capacity <- NumNodes, Garbage <- -1

-----------------------------------------------------------------------------
\* The inductive invariant.

UpTo(d) == {v \in Node : depth[v] \in 0 .. d}

\* depth is what a breadth-first search of g computes.
DepthOK ==
    /\ depth \in [Node -> Unreached .. NumNodes]
    /\ \A v \in Node : depth[v] = 0 <=> v = source
    /\ \A x \in Node : \A y \in out_neigh(g, x) :
          depth[x] # Unreached => depth[y] \in 0 .. (depth[x] + 1)
    /\ \A v \in Node : depth[v] > 0 =>
          \E x \in in_neigh(g, v) : depth[x] = depth[v] - 1

\* A visited vertex hangs below a vertex of the level above its own.
TreeOK ==
    /\ parent[source] = source
    /\ \A v \in Visited \ {source} :
          /\ depth[v] > 0
          /\ parent[v] \in in_neigh(g, v)
          /\ depth[parent[v]] = depth[v] - 1

Base == TypeOK /\ DOMAIN pc = Thread /\ DepthOK /\ TreeOK /\ QP!IInv

AtRest == Q!Quiescent /\ AtBarrier

\* Bits left in front by an earlier level wake no vertex.
StaleOK(d) == \A v \in front \ Level(d) : out_neigh(g, v) \subseteq Visited

\* What holds in every phase.
LevelOK(d) ==
    /\ UpTo(d) \subseteq Visited /\ Visited \subseteq UpTo(d + 1)
    /\ phase \notin {"BUStep", "TDStep"} => Visited = UpTo(d)
    /\ phase \in {"QueueToBitmap", "BUStep", "TDStep"} => Level(d) # {}
    /\ QP!Pushed \subseteq Visited
    /\ StaleOK(d)

SerialOK(d) ==
    /\ phase \notin {"QueueToBitmap", "BUStep", "BitmapToQueue", "TDStep"} => AtRest
    /\ phase = "push_back(source)" =>
          d = 0 /\ QP!Window = {} /\ QP!Hidden = {} /\ QP!Pushed = {}
    /\ phase = "slide_window" => d = 0 /\ QP!Window = {} /\ QP!Hidden = {source}
    /\ phase = "while" => QP!Window = Level(d) /\ QP!Hidden = {}
    /\ phase = "done" =>
          Level(d) = {} /\ \A v \in Node : parent[v] < 0 => parent[v] = -1

\* A vertex of the window is in the bitmap, or some thread will set its bit.
HasVertex(t, v) == (\E i \in todo[t] : shared[i] = v) \/ (pc[t] \in {"load", "store"} /\ u[t] = v)

Q2BThreadOK(d, t) ==
    /\ pc[t] \in {"next", "load", "store", "end"}
    /\ todo[t] \subseteq Q!WindowSlots
    /\ pc[t] \in {"load", "store"} => u[t] \in Level(d)
    /\ pc[t] = "end" => todo[t] = {}

QueueToBitmapOK(d) ==
    phase = "QueueToBitmap" =>
       /\ Q!Quiescent /\ QP!Window = Level(d) /\ QP!Hidden = {}
       /\ \A t \in Thread : Q2BThreadOK(d, t)
       /\ \A v \in Level(d) \ front : \E t \in Thread : HasVertex(t, v)

\* The vertices whose word of the bitmap the thread may still write.
Mine(t) == todo[t] \cup (IF pc[t] = "store" THEN {u[t]} ELSE {})

\* No two threads of a bottom-up step have vertices of the same chunk.
ChunksApart ==
    \A s, t \in Thread : s # t =>
       \A x \in Mine(s), y \in Mine(t) : ChunkOf(x) # ChunkOf(y)

\* The vertices of level d + 1 that have been visited.
Woken(d) == Visited \cap Level(d + 1)

BUThreadOK(d, t) ==
    /\ pc[t] \in {"next", "store", "end"}
    /\ todo[t] \cap Woken(d) = {}
    /\ pc[t] = "store" => u[t] \in Woken(d) /\ word[t] = Word(curr, u[t])
    /\ pc[t] = "end" => todo[t] = {}

BUStepOK(d) ==
    phase = "BUStep" =>
       /\ Q!Quiescent /\ QP!Window = {} /\ QP!Hidden = {} /\ QP!Pushed \subseteq UpTo(d)
       /\ Level(d) \subseteq front
       /\ old_awake_count >= 1
       /\ curr \subseteq Woken(d)
       /\ reduced = Cardinality(Woken(d))
       /\ \A t \in Thread : BUThreadOK(d, t)
       /\ ChunksApart
       /\ \A v \in Level(d + 1) \ curr : \E t \in Thread : v \in Mine(t)

\* The vertices a thread still has to push.
Unqueued(t) == todo[t] \cup (IF pc[t] = "push" THEN rem[t] ELSE {})

\* The loop and the flush that TDStep and BitmapToQueue have in common.
FlushOK(t) ==
    /\ pc[t] \in {"flush", "end"} => todo[t] = {}
    /\ pc[t] = "end" => local_queue[t] = << >> /\ ~Q!Copying(t)

B2QThreadOK(d, t) ==
    /\ pc[t] \in {"next", "push", "flush", "end"}
    /\ Unqueued(t) \subseteq Level(d)
    /\ Unqueued(t) \cap QP!Pushed = {}
    /\ pc[t] = "push" => \E n \in Node : rem[t] = {n} /\ n \notin todo[t]
    /\ FlushOK(t)

BitmapToQueueOK(d) ==
    phase = "BitmapToQueue" =>
       /\ QP!Window = {} /\ QP!Hidden \subseteq Level(d)
       /\ front = Level(d)
       /\ \A t \in Thread : B2QThreadOK(d, t)
       /\ \A s, t \in Thread : s # t => Unqueued(s) \cap Unqueued(t) = {}
       /\ \A v \in Level(d) \ QP!Hidden : \E t \in Thread : v \in Unqueued(t)

\* A thread has claimed v and not yet pushed it.
Pushing(t, v) == pc[t] = "push" /\ v = Min(rem[t])

\* The edge from x to y is still to be scanned by t.
HasEdge(t, x, y) ==
    \/ \E i \in todo[t] : shared[i] = x
    \/ pc[t] \in {"scan", "cas", "push"} /\ u[t] = x /\ y \in rem[t]

TDThreadOK(d, t) ==
    /\ pc[t] \in {"next", "scan", "cas", "push", "flush", "end"}
    /\ todo[t] \subseteq Q!WindowSlots
    /\ pc[t] \in {"scan", "cas", "push"} =>
          u[t] \in Level(d) /\ rem[t] \subseteq out_neigh(g, u[t])
    /\ pc[t] \in {"cas", "push"} => rem[t] # {}
    /\ pc[t] = "cas" =>
          /\ curr_val[t] < 0
          /\ parent[Min(rem[t])] = curr_val[t] \/ Min(rem[t]) \in Visited
    /\ pc[t] = "push" => Min(rem[t]) \in Woken(d) \ QP!Pushed
    /\ FlushOK(t)

\* No two threads have claimed the same vertex.
PushersApart == \A s, t \in Thread : \A v \in Node : Pushing(s, v) /\ Pushing(t, v) => s = t

\* A vertex claimed in this step is queued or in its claimer's hands.
ClaimsKept(d) == \A v \in Woken(d) \ QP!Hidden : \E t \in Thread : Pushing(t, v)

\* An edge out of the level is still to be scanned or leads to a visited vertex.
EdgesLeft(d) ==
    \A x \in Level(d) : \A y \in out_neigh(g, x) \ Visited :
       \E t \in Thread : HasEdge(t, x, y)

TDStepOK(d) ==
    phase = "TDStep" =>
       /\ QP!Window = Level(d) /\ QP!Hidden \subseteq Level(d + 1)
       /\ \A t \in Thread : TDThreadOK(d, t)
       /\ PushersApart /\ ClaimsKept(d) /\ EdgesLeft(d)

PhaseOK(d) ==
    /\ LevelOK(d) /\ SerialOK(d)
    /\ QueueToBitmapOK(d) /\ BUStepOK(d) /\ BitmapToQueueOK(d) /\ TDStepOK(d)

IInv == Base /\ \E d \in 0 .. (NumNodes + 1) : PhaseOK(d)

-----------------------------------------------------------------------------
\* The queue.  It is an instance of SlidingQueue, so what is proved of that
\* module holds of it, once its assumptions are met.

\* One slot per vertex: the queue of line 133 meets SlidingQueue's assumptions.
LEMMA QueueAssumptions ==
    /\ -1 \notin Node /\ LocalSize \in Nat \ {0} /\ NumNodes \in Nat
    /\ QP!IsFiniteSet(Node) /\ QP!Cardinality(Node) <= NumNodes
<1>1. QP!IsFiniteSet(Node)
  BY NodeFinite DEF QP!IsFiniteSet, IsFiniteSet
<1>2. QP!Cardinality(Node) = Cardinality(Node)
  BY Zenon DEF QP!Cardinality, Cardinality
<1> QED BY <1>1, <1>2, NodeFinite, LocalSizeAssumption, NumNodesAssumption DEF Node

\* DOBFS and the theorems speak of the same queue.
LEMMA SameQueue ==
    /\ Q!Quiescent <=> QP!Quiescent
    /\ Q!WindowSlots = QP!WindowSlots /\ Q!Window = QP!Window
    /\ Q!size = QP!size /\ (Q!empty <=> QP!empty)
    /\ Q!QInit <=> QP!QInit
    /\ Q!slide_window <=> QP!slide_window
    /\ Q!qvars = QP!qvars
    /\ Q!Pushed = QP!Pushed
<1>1. \A t \in Thread : /\ Q!Copying(t) <=> QP!Copying(t)
                        /\ Q!Claimed(t) = QP!Claimed(t)
                        /\ Q!Buffered(t) = QP!Buffered(t)
  BY DEF Q!Copying, QP!Copying, Q!NoCopy, QP!NoCopy, Q!Claimed, QP!Claimed,
         Q!Buffered, QP!Buffered
<1>2. Q!Quiescent <=> QP!Quiescent
  BY <1>1 DEF Q!Quiescent, QP!Quiescent
<1>3. Q!Pushed = QP!Pushed
  <2>1. Q!Filled = QP!Filled
    BY <1>1 DEF Q!Filled, QP!Filled
  <2>2. UNION {Q!Buffered(t) : t \in Thread} = UNION {QP!Buffered(t) : t \in Thread}
    BY <1>1
  <2> QED BY <2>1, <2>2 DEF Q!Pushed, QP!Pushed
<1> QED BY <1>2, <1>3
        DEF Q!WindowSlots, QP!WindowSlots, Q!Window, QP!Window, Q!size, QP!size,
            Q!empty, QP!empty, Q!QInit, QP!QInit, Q!NoCopy, QP!NoCopy,
            Q!slide_window, QP!slide_window, Q!qvars, QP!qvars

\* The same for the operations of a thread.
LEMMA SameOperations ==
    /\ \A t \in Thread : /\ \A e \in Node : Q!LocalPush(t, e) <=> QP!LocalPush(t, e)
                         /\ Q!Claim(t) <=> QP!Claim(t)
                         /\ Q!CopyOut(t) <=> QP!CopyOut(t)
    /\ \A e \in Node : Q!SerialPush(e) <=> QP!SerialPush(e)
BY DEF Q!Copying, QP!Copying, Q!NoCopy, QP!NoCopy, Q!Claimed, QP!Claimed,
       Q!LocalPush, QP!LocalPush, Q!Claim, QP!Claim, Q!CopyOut, QP!CopyOut,
       Q!SerialPush, QP!SerialPush

\* What an iteration over the window finds.
LEMMA QueueReads ==
    ASSUME QP!IInv
    PROVE  /\ Q!Window = QP!Window /\ Q!Pushed = QP!Pushed
           /\ \A i \in Q!WindowSlots : shared[i] \in QP!Window
           /\ \A v \in QP!Window : \E i \in Q!WindowSlots : shared[i] = v
           /\ QP!Window \subseteq QP!Pushed /\ QP!Hidden \subseteq QP!Pushed
           /\ QP!Pushed \subseteq Node
           /\ Q!size \in Nat /\ Q!size = Cardinality(QP!Window)
           /\ Q!empty <=> QP!Window = {}
           /\ Q!WindowSlots \subseteq Node
<1>1. QP!Cardinality(QP!Window) = Cardinality(QP!Window)
  BY Zenon DEF QP!Cardinality, Cardinality
<1>2. /\ \A i \in QP!WindowSlots : shared[i] \in Node
      /\ QP!Window \subseteq QP!Pushed /\ QP!Hidden \subseteq QP!Pushed
      /\ QP!Pushed \subseteq Node
      /\ QP!size \in Nat /\ QP!size = Cardinality(QP!Window)
      /\ QP!empty <=> QP!Window = {}
  BY <1>1, QueueAssumptions, QP!WindowHeld
<1>3. QP!WindowSlots \subseteq Node
  BY NumNodesAssumption DEF QP!WindowSlots, QP!IInv, QP!TypeOK, Node
<1>4. \A i \in QP!WindowSlots : shared[i] \in QP!Window
  BY DEF QP!Window
<1>5. \A v \in QP!Window : \E i \in QP!WindowSlots : shared[i] = v
  BY DEF QP!Window
<1> QED BY <1>2, <1>3, <1>4, <1>5, SameQueue

\* The window is not moved and its slots are not written.
WindowKept ==
    /\ QP!Window' = QP!Window /\ Q!WindowSlots' = Q!WindowSlots
    /\ \A i \in Q!WindowSlots : shared'[i] = shared[i]

\* A step of the queue's protocol.
QueueStep == [Q!Next]_(Q!qvars)

\* Every step of the protocol keeps the queue's invariant.
LEMMA QueueStepKeeps ==
    ASSUME QP!IInv, QueueStep
    PROVE  /\ QP!IInv'
           /\ \A i \in 0 .. (shared_out_end - 1) : shared'[i] = shared[i]
<1>1. [QP!Next]_(QP!qvars)
  <2>1. CASE Q!Next
    <3>1. QP!Next
      BY <2>1, SameQueue, SameOperations
      DEF Q!Next, QP!Next, Q!Fresh, QP!Fresh, Q!reset, QP!reset
    <3> QED BY <3>1
  <2>2. CASE UNCHANGED Q!qvars
    BY <2>2 DEF Q!qvars, QP!qvars
  <2> QED BY <2>1, <2>2 DEF QueueStep
<1>2. QP!IInv'
  BY <1>1, QueueAssumptions, QP!StepIInv
<1>3. \A i \in 0 .. (shared_out_end - 1) : shared'[i] = shared[i]
  BY <1>1, QueueAssumptions, QP!StableStep
<1> QED BY <1>2, <1>3

\* Hence a step that leaves the bounds of the window leaves the window.
LEMMA KeepsWindow ==
    ASSUME QP!IInv, QueueStep,
           shared_out_start' = shared_out_start, shared_out_end' = shared_out_end
    PROVE  WindowKept
<1>1. Q!WindowSlots' = Q!WindowSlots
  BY DEF Q!WindowSlots
<1>2. Q!WindowSlots \subseteq 0 .. (shared_out_end - 1)
  BY NumNodesAssumption DEF Q!WindowSlots, QP!IInv, QP!TypeOK
<1>3. \A i \in Q!WindowSlots : shared'[i] = shared[i]
  BY <1>2, QueueStepKeeps
<1>4. QP!Window' = QP!Window
  BY <1>1, <1>3, SameQueue DEF Q!WindowSlots, QP!WindowSlots, QP!Window
<1> QED BY <1>1, <1>3, <1>4 DEF WindowKept

\* The push of a vertex that was never queued.
LEMMA PushEffect ==
    ASSUME QP!IInv, NEW t \in Thread, NEW e \in Node, e \notin QP!Pushed, Q!LocalPush(t, e)
    PROVE  /\ QueueStep /\ QP!IInv' /\ WindowKept
           /\ QP!Hidden' = QP!Hidden \cup {e} /\ QP!Pushed' = QP!Pushed \cup {e}
<1>1. QP!LocalPush(t, e) /\ QP!Fresh(e)
  BY SameOperations DEF QP!Fresh
<1>2. QueueStep
  <2>1. Q!Fresh(e)
    BY SameQueue DEF Q!Fresh
  <2> QED BY <2>1 DEF QueueStep, Q!Next
<1>3. QP!Hidden' = QP!Hidden \cup {e} /\ QP!Pushed' = QP!Pushed \cup {e}
  BY <1>1, QueueAssumptions, QP!PushIsAppend
<1>4. WindowKept
  BY <1>2, KeepsWindow DEF Q!LocalPush
<1> QED BY <1>2, <1>3, <1>4, QueueStepKeeps

\* The two halves of a flush, which no reader can tell from nothing.
LEMMA FlushEffect ==
    ASSUME QP!IInv, NEW t \in Thread, Q!Claim(t) \/ Q!CopyOut(t)
    PROVE  /\ QueueStep /\ QP!IInv' /\ WindowKept
           /\ QP!Hidden' = QP!Hidden /\ QP!Pushed' = QP!Pushed
<1>1. QueueStep
  BY DEF QueueStep, Q!Next
<1>2. WindowKept
  BY <1>1, KeepsWindow DEF Q!Claim, Q!CopyOut
<1>3. QP!Hidden' = QP!Hidden /\ QP!Pushed' = QP!Pushed
  <2>1. CASE Q!Claim(t)
    <3>1. QP!Claim(t)
      BY <2>1, SameOperations
    <3> QED BY <3>1, QueueAssumptions, QP!ClaimIsStutter
  <2>2. CASE Q!CopyOut(t)
    <3>1. QP!CopyOut(t)
      BY <2>2, SameOperations
    <3> QED BY <3>1, QueueAssumptions, QP!CopyIsStutter
  <2> QED BY <2>1, <2>2
<1> QED BY <1>1, <1>2, <1>3, QueueStepKeeps

\* A step that does not touch the queue.
LEMMA NoQueueEffect ==
    ASSUME QP!IInv, UNCHANGED qvars
    PROVE  /\ QueueStep /\ QP!IInv' /\ WindowKept
           /\ QP!Hidden' = QP!Hidden /\ QP!Pushed' = QP!Pushed
           /\ Q!Quiescent' <=> Q!Quiescent
<1>1. /\ shared' = shared /\ shared_in' = shared_in /\ shared_out_start' = shared_out_start
      /\ shared_out_end' = shared_out_end /\ local_queue' = local_queue
      /\ copy_start' = copy_start
  BY DEF qvars
<1>2. QueueStep
  BY <1>1 DEF QueueStep, Q!qvars
<1>3. WindowKept
  BY <1>1, <1>2, KeepsWindow
<1>4. QP!Filled' = QP!Filled /\ \A t \in Thread : QP!Buffered(t)' = QP!Buffered(t)
  BY <1>1 DEF QP!Filled, QP!Claimed, QP!Copying, QP!Buffered
<1>5. QP!Hidden' = QP!Hidden /\ QP!Pushed' = QP!Pushed
  BY <1>1, <1>4 DEF QP!Hidden, QP!Pushed
<1>6. Q!Quiescent' <=> Q!Quiescent
  BY <1>1 DEF Q!Quiescent, Q!Copying
<1> QED BY <1>2, <1>3, <1>5, <1>6, QueueStepKeeps

\* A slide between regions brings what was appended into the window.
LEMMA SlideEffect ==
    ASSUME QP!IInv, Q!Quiescent, Q!slide_window
    PROVE  /\ QueueStep /\ QP!IInv' /\ Q!Quiescent'
           /\ QP!Window' = QP!Hidden /\ QP!Hidden' = {} /\ QP!Pushed' = QP!Pushed
<1>1. QueueStep
  BY DEF QueueStep, Q!Next
<1>2. QP!Quiescent /\ QP!slide_window
  BY SameQueue
<1>3. QP!Window' = QP!Hidden /\ QP!Hidden' = {} /\ QP!Pushed' = QP!Pushed
  BY <1>2, QueueAssumptions, QP!SlideIsSlide
<1>4. Q!Quiescent'
  BY DEF Q!slide_window, Q!Quiescent, Q!Copying
<1> QED BY <1>1, <1>3, <1>4, QueueStepKeeps

\* The push_back of the source.
LEMMA SerialPushEffect ==
    ASSUME QP!IInv, Q!Quiescent, NEW e \in Node, e \notin QP!Pushed, Q!SerialPush(e)
    PROVE  /\ QueueStep /\ QP!IInv' /\ Q!Quiescent'
           /\ QP!Window' = QP!Window
           /\ QP!Hidden' = QP!Hidden \cup {e} /\ QP!Pushed' = QP!Pushed \cup {e}
<1>1. QueueStep
  <2>1. Q!Fresh(e)
    BY SameQueue DEF Q!Fresh
  <2> QED BY <2>1 DEF QueueStep, Q!Next
<1>2. QP!Quiescent /\ QP!SerialPush(e) /\ QP!Fresh(e)
  BY SameQueue, SameOperations DEF QP!Fresh
<1>3. /\ QP!Window' = QP!Window
      /\ QP!Hidden' = QP!Hidden \cup {e} /\ QP!Pushed' = QP!Pushed \cup {e}
  BY <1>2, QueueAssumptions, QP!SerialPushIsAppend
<1>4. Q!Quiescent'
  BY DEF Q!SerialPush, Q!Quiescent, Q!Copying
<1> QED BY <1>1, <1>3, <1>4, QueueStepKeeps

-----------------------------------------------------------------------------
\* Levels.

\* The depths the verifier computes are hop distances.
LEMMA InitDepth ==
    ASSUME source \in Node, depth = Depth(g, source)
    PROVE  DepthOK
<1> DEFINE D == Depth(g, source)
<1>1. /\ D \in [Node -> Unreached .. NumNodes]
      /\ \A v \in Node : D[v] = 0 <=> v = source
      /\ \A x \in Node : \A y \in out_neigh(g, x) :
            D[x] # Unreached => D[y] \in 0 .. (D[x] + 1)
      /\ \A v \in Node : D[v] > 0 => \E x \in in_neigh(g, v) : D[x] = D[v] - 1
  BY DepthFacts
<1> HIDE DEF D
<1>2. depth = D
  BY DEF D
<1> QED BY <1>1, <1>2 DEF DepthOK

\* How the levels lie: an edge leads at most one level on, and every vertex
\* below the first level is reached from the level above its own.
LEMMA LevelFacts ==
    ASSUME DepthOK, NEW d \in Nat
    PROVE  /\ UpTo(d + 1) = UpTo(d) \cup Level(d + 1)
           /\ UpTo(d) \cap Level(d + 1) = {}
           /\ Level(d) \subseteq UpTo(d) /\ UpTo(d) \subseteq Node /\ Level(d + 1) \subseteq Node
           /\ \A x \in UpTo(d) : out_neigh(g, x) \subseteq UpTo(d + 1)
           /\ \A v \in Level(d + 1) : \E x \in Level(d) : v \in out_neigh(g, x) /\ x \in in_neigh(g, v)
           /\ Level(d) # {} => d <= NumNodes
           /\ \A v \in Level(d + 1) : depth[v] = d + 1 /\ v # source
           /\ \A x \in Level(d) : depth[x] = d
<1>1. \A v \in Node : depth[v] \in Int
  BY NumNodesAssumption DEF DepthOK, Unreached
<1>2. UpTo(d + 1) = UpTo(d) \cup Level(d + 1)
  BY <1>1 DEF UpTo, Level
<1>3. UpTo(d) \cap Level(d + 1) = {} /\ Level(d) \subseteq UpTo(d)
  BY <1>1 DEF UpTo, Level
<1>4. ASSUME NEW x \in UpTo(d) PROVE out_neigh(g, x) \subseteq UpTo(d + 1)
  <2>1. x \in Node /\ depth[x] \in 0 .. d /\ depth[x] # Unreached
    BY DEF UpTo, Unreached
  <2>2. \A y \in out_neigh(g, x) : depth[y] \in 0 .. (depth[x] + 1) /\ y \in Node
    BY <2>1 DEF DepthOK, out_neigh
  <2> QED BY <1>1, <2>1, <2>2 DEF UpTo
<1>5. ASSUME NEW v \in Level(d + 1)
      PROVE  \E x \in Level(d) : v \in out_neigh(g, x) /\ x \in in_neigh(g, v)
  <2>1. v \in Node /\ depth[v] = d + 1
    BY DEF Level
  <2>2. PICK x \in in_neigh(g, v) : depth[x] = depth[v] - 1
    BY <2>1 DEF DepthOK
  <2> QED BY <2>1, <2>2 DEF Level, in_neigh, out_neigh
<1>6. Level(d) # {} => d <= NumNodes
  BY NumNodesAssumption DEF DepthOK, Level, Unreached
<1>7. \A v \in Level(d + 1) : depth[v] = d + 1 /\ v # source
  BY DEF Level, DepthOK
<1> QED BY <1>2, <1>3, <1>4, <1>5, <1>6, <1>7 DEF UpTo, Level

\* The source is alone in the first level.
LEMMA FirstLevel ==
    ASSUME DepthOK, source \in Node
    PROVE  Level(0) = {source} /\ UpTo(0) = {source}
BY DEF DepthOK, Level, UpTo

\* After an empty level there is nothing left to reach.
LEMMA LastLevel ==
    ASSUME DepthOK, NEW d \in Nat, Level(d) = {}
    PROVE  UpTo(d) = {v \in Node : depth[v] # Unreached}
<1> DEFINE M == {k \in Nat : Level(d + k) = {}}
<1>1. 0 \in M
  OBVIOUS
<1>2. ASSUME NEW k \in Nat, k \in M PROVE k + 1 \in M
  <2>1. d + k \in Nat /\ d + (k + 1) = (d + k) + 1
    OBVIOUS
  <2>2. \A v \in Level((d + k) + 1) : \E x \in Level(d + k) : v \in out_neigh(g, x)
    BY <2>1, LevelFacts
  <2> QED BY <1>2, <2>1, <2>2
<1> HIDE DEF M
<1>3. Nat \subseteq M
  BY <1>1, <1>2, NatInduct
<1>4. \A v \in Node : depth[v] \in Int /\ depth[v] >= -1
  BY NumNodesAssumption DEF DepthOK, Unreached
<1>5. ASSUME NEW v \in Node, depth[v] > d PROVE FALSE
  <2>1. depth[v] - d \in M
    BY <1>3, <1>4, <1>5
  <2>2. d + (depth[v] - d) = depth[v]
    BY <1>4
  <2> QED BY <2>1, <2>2 DEF M, Level
<1> QED BY <1>4, <1>5 DEF UpTo, Unreached

-----------------------------------------------------------------------------
\* What a step leaves alone.

\* A step of t changes no other thread's registers, and nothing that belongs
\* to the master.
StepOf(t) ==
    /\ UNCHANGED serial
    /\ DOMAIN pc' = Thread
    /\ \A s \in Thread \ {t} :
          /\ todo'[s] = todo[s] /\ pc'[s] = pc[s] /\ u'[s] = u[s] /\ rem'[s] = rem[s]
          /\ curr_val'[s] = curr_val[s] /\ word'[s] = word[s]
          /\ local_queue'[s] = local_queue[s] /\ copy_start'[s] = copy_start[s]

\* The functions of the registers, which EXCEPT needs.
LEMMA Registers ==
    ASSUME Base
    PROVE  /\ DOMAIN todo = Thread /\ DOMAIN pc = Thread /\ DOMAIN u = Thread
           /\ DOMAIN rem = Thread /\ DOMAIN curr_val = Thread /\ DOMAIN word = Thread
           /\ DOMAIN local_queue = Thread /\ DOMAIN copy_start = Thread
<1>1. TypeOK /\ QP!TypeOK /\ DOMAIN pc = Thread
  BY DEF Base, QP!IInv
<1> QED BY <1>1 DEF TypeOK, QP!TypeOK

\* A step of a thread changes neither the graph nor the serial code's
\* variables, and nothing that belongs to another thread.
LEMMA ThreadStepFrame ==
    ASSUME Base, NEW t \in Thread, ThreadStep(t)
    PROVE  StepOf(t)
<1> USE Registers DEF StepOf, serial, Goto
<1>1. CASE Q2BTake(t)
  BY <1>1 DEF Q2BTake, qvars
<1>2. CASE Q2BLoad(t)
  BY <1>2 DEF Q2BLoad, qvars
<1>3. CASE Q2BSwap(t)
  BY <1>3 DEF Q2BSwap, qvars
<1>4. CASE Q2BEnd(t) \/ BUEnd(t)
  BY <1>4 DEF Q2BEnd, BUEnd, qvars
<1>5. CASE BUVisit(t)
  <2>1. UNCHANGED <<serial, rem, curr_val, qvars>> /\ todo' = [todo EXCEPT ![t] = todo'[t]]
    BY <1>5 DEF BUVisit
  <2>2. \/ pc' = [pc EXCEPT ![t] = "store"] /\ u' = [u EXCEPT ![t] = u'[t]] /\ word' = [word EXCEPT ![t] = word'[t]]
        \/ UNCHANGED <<u, word, pc>>
    BY <1>5 DEF BUVisit
  <2> QED BY <2>1, <2>2 DEF qvars
<1>6. CASE BUSetBit(t)
  BY <1>6 DEF BUSetBit, qvars
<1>7. CASE TDTake(t)
  BY <1>7 DEF TDTake, qvars
<1>8. CASE TDRead(t)
  BY <1>8 DEF TDRead, qvars
<1>9. CASE TDCas(t)
  BY <1>9 DEF TDCas, qvars
<1>10. CASE TDScanned(t)
  BY <1>10 DEF TDScanned, qvars
<1>11. CASE TDPush(t) \/ B2QPush(t)
  <2>1. UNCHANGED <<serial, todo, u, curr_val, word>>
    BY <1>11 DEF TDPush, B2QPush
  <2>2. PICK v, after : PushBack(t, v, after)
    BY <1>11 DEF TDPush, B2QPush
  <2> QED BY <2>1, <2>2 DEF PushBack, Q!LocalPush, Q!Claim, Q!CopyOut
<1>12. CASE B2QTake(t)
  BY <1>12 DEF B2QTake, qvars
<1>13. CASE LeaveLoop(t)
  BY <1>13 DEF LeaveLoop, qvars
<1>14. CASE Flush(t)
  BY <1>14 DEF Flush, Q!Claim, Q!CopyOut
<1> QED BY <1>1, <1>2, <1>3, <1>4, <1>5, <1>6, <1>7, <1>8, <1>9, <1>10, <1>11, <1>12,
           <1>13, <1>14 DEF ThreadStep

\* The levels are those of the graph.
LEMMA SameLevels ==
    ASSUME depth' = depth
    PROVE  \A k : Level(k)' = Level(k) /\ UpTo(k)' = UpTo(k)
BY DEF Level, UpTo

\* The visited vertices are a function of the parent array.
LEMMA SameVisited == ASSUME parent' = parent PROVE Visited' = Visited
BY DEF Visited

\* Where parent stays, so does what was said of the tree.
LEMMA BaseKeeps ==
    ASSUME Base, TypeOK', UNCHANGED <<args, parent>>, DOMAIN pc' = Thread, QP!IInv'
    PROVE  Base'
<1>1. DepthOK'
  BY DEF Base, DepthOK, args, in_neigh, out_neigh
<1>2. Visited' = Visited
  BY SameVisited
<1>3. TreeOK'
  BY <1>2 DEF Base, TreeOK, args, in_neigh
<1> QED BY <1>1, <1>3 DEF Base

\* What holds of the levels throughout an iteration survives a step that
\* changes neither the parents nor the queue's pushed vertices.
LEMMA LevelKeeps ==
    ASSUME NEW d, LevelOK(d), UNCHANGED <<g, depth, parent, front, phase>>,
           QP!Pushed' = QP!Pushed
    PROVE  LevelOK(d)'
<1>1. Visited' = Visited /\ \A k : Level(k)' = Level(k) /\ UpTo(k)' = UpTo(k)
  BY SameVisited, SameLevels
<1>2. StaleOK(d)'
  BY <1>1 DEF LevelOK, StaleOK, out_neigh
<1> QED BY <1>1, <1>2 DEF LevelOK

-----------------------------------------------------------------------------
\* QueueToBitmap.

\* A successful compare-and-swap adds one bit and loses none.
LEMMA SwapSetsBit ==
    ASSUME NEW bm, NEW pos, NEW loaded, CanSwap(bm, pos, loaded)
    PROVE  set_bit(bm, pos, loaded) = bm \cup {pos}
BY DEF CanSwap, set_bit, StoreWord, Word

\* In QueueToBitmap, the invariant of the phase is all that there is to
\* show.
LEMMA Q2BFrame ==
    ASSUME NEW d, phase = "QueueToBitmap", phase' = phase, LevelOK(d)', QueueToBitmapOK(d)'
    PROVE  PhaseOK(d)'
BY DEF PhaseOK, SerialOK, BUStepOK, BitmapToQueueOK, TDStepOK

\* The other threads do not notice a step that leaves the queue alone.
LEMMA Q2BOthers ==
    ASSUME NEW d, NEW t \in Thread, StepOf(t), WindowKept,
           NEW s \in Thread, s # t, Q2BThreadOK(d, s)
    PROVE  Q2BThreadOK(d, s)'
<1>1. \A k : Level(k)' = Level(k)
  BY SameLevels DEF StepOf, serial, args
<1> QED BY <1>1 DEF StepOf, WindowKept, Q2BThreadOK

\* The parts of the invariant a step of the region has to keep.
LEMMA Q2BKeeps ==
    ASSUME Base, NEW d, PhaseOK(d), NEW t \in Thread, phase = "QueueToBitmap",
           StepOf(t), UNCHANGED <<parent, qvars>>, TypeOK',
           front' = front \/ \E v \in Level(d) : front' = front \cup {v},
           Q2BThreadOK(d, t)',
           \A v \in Level(d) : HasVertex(t, v) /\ v \notin front' => HasVertex(t, v)'
    PROVE  Base' /\ PhaseOK(d)'
<1>1. /\ QP!IInv' /\ WindowKept /\ QP!Hidden' = QP!Hidden /\ QP!Pushed' = QP!Pushed
      /\ Q!Quiescent' <=> Q!Quiescent
  BY NoQueueEffect DEF Base
<1>2. Base'
  BY <1>1, BaseKeeps DEF StepOf, serial
<1>3. Visited' = Visited /\ \A k : Level(k)' = Level(k) /\ UpTo(k)' = UpTo(k)
  BY SameVisited, SameLevels DEF StepOf, serial, args
<1>4. UNCHANGED <<g, phase>> /\ LevelOK(d) /\ QueueToBitmapOK(d)
  BY DEF StepOf, serial, args, PhaseOK
<1>5. LevelOK(d)'
  <2>1. StaleOK(d)'
    BY <1>3, <1>4 DEF LevelOK, StaleOK, out_neigh
  <2> QED BY <1>1, <1>3, <1>4, <2>1 DEF LevelOK
<1>6. \A s \in Thread : Q2BThreadOK(d, s)'
  BY <1>1, <1>4, Q2BOthers DEF QueueToBitmapOK
<1>7. ASSUME NEW v \in Level(d), v \notin front'
      PROVE  \E s \in Thread : HasVertex(s, v)'
  <2>1. v \notin front
    BY <1>7
  <2>2. PICK s \in Thread : HasVertex(s, v)
    BY <1>4, <1>7, <2>1 DEF QueueToBitmapOK
  <2>3. CASE s = t
    BY <1>7, <2>2, <2>3
  <2>4. CASE s # t
    <3>1. todo'[s] = todo[s] /\ pc'[s] = pc[s] /\ u'[s] = u[s]
      BY <2>4 DEF StepOf
    <3>2. \A i \in todo[s] : shared'[i] = shared[i]
      BY <1>1, <1>4 DEF WindowKept, QueueToBitmapOK, Q2BThreadOK
    <3> QED BY <2>2, <3>1, <3>2 DEF HasVertex
  <2> QED BY <2>3, <2>4
<1>8. QueueToBitmapOK(d)'
  <2>1. Q!Quiescent' /\ QP!Window' = Level(d)' /\ QP!Hidden' = {}
    BY <1>1, <1>3, <1>4 DEF WindowKept, QueueToBitmapOK
  <2>2. \A v \in Level(d)' \ front' : \E s \in Thread : HasVertex(s, v)'
    BY <1>3, <1>7
  <2> QED BY <1>6, <2>1, <2>2 DEF QueueToBitmapOK
<1> QED BY <1>2, <1>4, <1>5, <1>8, Q2BFrame

\* Every step of QueueToBitmap keeps the invariant: a bit set by no thread
\* yet belongs to a vertex some thread has still to do.
LEMMA Q2BSteps ==
    ASSUME Base, NEW d, PhaseOK(d), NEW t \in Thread,
           Q2BTake(t) \/ Q2BLoad(t) \/ Q2BSwap(t) \/ Q2BEnd(t)
    PROVE  Base' /\ PhaseOK(d)'
<1>1. StepOf(t)
  BY ThreadStepFrame DEF ThreadStep
<1>2. /\ phase = "QueueToBitmap"
      /\ UNCHANGED <<parent, qvars>>
  BY DEF Q2BTake, Q2BLoad, Q2BSwap, Q2BEnd, AtNext
<1>3. Q2BThreadOK(d, t) /\ QP!Window = Level(d)
  BY <1>2 DEF PhaseOK, QueueToBitmapOK
<1>4. \A k : Level(k)' = Level(k)
  BY <1>1, SameLevels DEF StepOf, serial, args
<1>5. /\ Q!WindowSlots' = Q!WindowSlots /\ shared' = shared
      /\ \A i \in Q!WindowSlots : shared[i] \in Level(d)
      /\ Level(d) \subseteq Node
  BY <1>2, <1>3, QueueReads DEF qvars, Q!WindowSlots, Base, Level
<1>6. TypeOK
  BY DEF Base
<1>7. CASE Q2BTake(t)
  <2>1. PICK i \in todo[t] : /\ todo' = [todo EXCEPT ![t] = @ \ {i}]
                             /\ u' = [u EXCEPT ![t] = shared[i]]
    BY <1>7 DEF Q2BTake
  <2>2. /\ pc[t] = "next" /\ pc'[t] = "load" /\ todo'[t] = todo[t] \ {i} /\ u'[t] = shared[i]
        /\ front' = front /\ i \in Q!WindowSlots
    BY <1>3, <1>7, <2>1, Registers DEF Q2BTake, AtNext, Goto, Q2BThreadOK
  <2>3. TypeOK'
    <3>1. shared[i] \in Node
      BY <1>5, <2>2
    <3> QED BY <1>6, <1>7, <2>1, <3>1 DEF TypeOK, Q2BTake, serial, args, counts
  <2>4. Q2BThreadOK(d, t)'
    BY <1>3, <1>4, <1>5, <2>2 DEF Q2BThreadOK
  <2>5. \A v \in Level(d) : HasVertex(t, v) => HasVertex(t, v)'
    BY <1>5, <2>2 DEF HasVertex
  <2> QED BY <1>1, <1>2, <2>2, <2>3, <2>4, <2>5, Q2BKeeps
<1>8. CASE Q2BLoad(t)
  <2>1. /\ pc[t] = "load" /\ pc'[t] = "store" /\ todo' = todo /\ u' = u /\ front' = front
    BY <1>8, Registers DEF Q2BLoad, Goto
  <2>2. TypeOK'
    BY <1>6, <1>8 DEF TypeOK, Q2BLoad, serial, args, counts, Word
  <2>3. Q2BThreadOK(d, t)'
    BY <1>3, <1>4, <1>5, <2>1 DEF Q2BThreadOK
  <2>4. \A v \in Level(d) : HasVertex(t, v) => HasVertex(t, v)'
    BY <1>5, <2>1 DEF HasVertex
  <2> QED BY <1>1, <1>2, <2>1, <2>2, <2>3, <2>4, Q2BKeeps
<1>9. CASE Q2BSwap(t)
  <2>1. pc[t] = "store" /\ todo' = todo /\ u[t] \in Level(d)
    BY <1>3, <1>9 DEF Q2BSwap, Q2BThreadOK
  <2>2. \/ front' = front \cup {u[t]} /\ pc'[t] = "next"
        \/ front' = front /\ u' = u /\ pc'[t] = "load"
    BY <1>9, SwapSetsBit, Registers DEF Q2BSwap, Goto
  <2>3. TypeOK'
    <3>1. front' \subseteq Node
      BY <1>5, <1>6, <2>1, <2>2 DEF TypeOK
    <3>2. u' \in [Thread -> Node]
      BY <1>6, <1>9, NodeNat DEF TypeOK, Q2BSwap, Idle
    <3> QED BY <1>6, <1>9, <3>1, <3>2 DEF TypeOK, Q2BSwap, serial, args, counts
  <2>4. Q2BThreadOK(d, t)'
    BY <1>3, <1>4, <1>5, <2>1, <2>2 DEF Q2BThreadOK
  <2>5. \A v \in Level(d) : HasVertex(t, v) /\ v \notin front' => HasVertex(t, v)'
    BY <1>5, <2>1, <2>2 DEF HasVertex
  <2>6. front' = front \/ \E v \in Level(d) : front' = front \cup {v}
    BY <2>1, <2>2
  <2> QED BY <1>1, <1>2, <2>3, <2>4, <2>5, <2>6, Q2BKeeps
<1>10. CASE Q2BEnd(t)
  <2>1. pc[t] = "next" /\ todo[t] = {} /\ pc'[t] = "end" /\ todo' = todo /\ front' = front
    BY <1>10, Registers DEF Q2BEnd, AtNext, Goto
  <2>2. TypeOK'
    BY <1>6, <1>10 DEF TypeOK, Q2BEnd, serial, args, counts
  <2>3. Q2BThreadOK(d, t)'
    BY <1>3, <1>4, <1>5, <2>1 DEF Q2BThreadOK
  <2>4. \A v \in Level(d) : HasVertex(t, v) => HasVertex(t, v)'
    BY <2>1 DEF HasVertex
  <2> QED BY <1>1, <1>2, <2>1, <2>2, <2>3, <2>4, Q2BKeeps
<1> QED BY <1>7, <1>8, <1>9, <1>10

-----------------------------------------------------------------------------
\* Visiting a vertex, in either direction.

\* An unvisited vertex with an edge from the level is one of the next level.
LEMMA NextLevel ==
    ASSUME DepthOK, NEW d \in Nat, LevelOK(d), NEW v \in Level(d),
           NEW n \in out_neigh(g, v), n \notin Visited
    PROVE  n \in Level(d + 1) /\ v \in in_neigh(g, n) /\ v \in Node /\ n \in Node
<1>1. v \in UpTo(d) /\ v \in Node
  BY LevelFacts
<1>2. n \in UpTo(d + 1)
  BY <1>1, LevelFacts
<1>3. n \notin UpTo(d)
  BY DEF LevelOK
<1>4. n \in Level(d + 1)
  BY <1>2, <1>3, LevelFacts
<1> QED BY <1>1, <1>4 DEF in_neigh, out_neigh

\* The effect of hanging it below a vertex of the level.
LEMMA VisitEffect ==
    ASSUME Base, NEW d \in Nat, LevelOK(d), phase \in {"BUStep", "TDStep"},
           NEW v \in Level(d), NEW n \in out_neigh(g, v), n \notin Visited,
           parent' = [parent EXCEPT ![n] = v],
           UNCHANGED <<args, front, phase>>, QP!Pushed' = QP!Pushed
    PROVE  /\ DepthOK' /\ TreeOK' /\ LevelOK(d)'
           /\ parent'[n] = v /\ \A x \in Node \ {n} : parent'[x] = parent[x]
           /\ Visited' = Visited \cup {n}
           /\ Woken(d)' = Woken(d) \cup {n} /\ n \notin Woken(d)
           /\ n \in Level(d + 1)
<1>1. n \in Level(d + 1) /\ v \in in_neigh(g, n) /\ v \in Node /\ n \in Node
  BY NextLevel DEF Base
<1>2. g' = g /\ source' = source /\ depth' = depth /\ front' = front /\ phase' = phase
  BY DEF args
<1>3. parent'[n] = v /\ \A x \in Node \ {n} : parent'[x] = parent[x]
  BY <1>1 DEF Base, TypeOK
<1>4. Visited' = Visited \cup {n}
  BY <1>1, <1>3, NodeNat DEF Visited
<1>5. \A k : Level(k)' = Level(k) /\ UpTo(k)' = UpTo(k)
  BY <1>2, SameLevels
<1>6. Woken(d)' = Woken(d) \cup {n} /\ n \notin Woken(d)
  BY <1>1, <1>4, <1>5 DEF Woken
<1>7. DepthOK'
  BY <1>2 DEF Base, DepthOK, in_neigh, out_neigh
<1>8. TreeOK'
  <2>1. n # source /\ depth[n] = d + 1 /\ depth[v] = d
    BY <1>1, LevelFacts DEF Base
  <2>2. source \in Node
    BY DEF Base, TypeOK
  <2>3. ASSUME NEW x \in Visited' \ {source}
        PROVE  /\ depth[x] > 0
               /\ parent'[x] \in in_neigh(g, x)
               /\ depth[parent'[x]] = depth[x] - 1
    <3>1. CASE x = n
      BY <1>1, <1>3, <2>1, <3>1
    <3>2. CASE x # n
      <4>1. x \in Visited \ {source} /\ parent'[x] = parent[x]
        BY <1>3, <1>4, <3>2 DEF Visited
      <4> QED BY <4>1 DEF Base, TreeOK
    <3> QED BY <3>1, <3>2
  <2>4. parent'[source] = source
    BY <1>3, <2>1, <2>2 DEF Base, TreeOK
  <2>5. in_neigh(g', n) = in_neigh(g, n) /\ \A x : in_neigh(g', x) = in_neigh(g, x)
    BY <1>2
  <2> QED BY <1>2, <2>3, <2>4, <2>5 DEF TreeOK
<1>9. LevelOK(d)'
  <2>1. n \in UpTo(d + 1)
    BY <1>1, LevelFacts DEF Base
  <2>2. StaleOK(d)'
    BY <1>2, <1>4, <1>5 DEF LevelOK, StaleOK, out_neigh
  <2> QED BY <1>2, <1>4, <1>5, <2>1, <2>2 DEF LevelOK
<1> QED BY <1>1, <1>3, <1>4, <1>6, <1>7, <1>8, <1>9

-----------------------------------------------------------------------------
\* BUStep.

\* Division: a is below n * k when its quotient is below k.
LEMMA QuotientBound ==
    ASSUME NEW a \in Nat, NEW n \in Nat \ {0}, NEW k \in Nat
    PROVE  a \div n < k <=> a < n * k
<1> DEFINE q == a \div n
<1>1. q \in Nat /\ n * q <= a /\ a < n * q + n
  OBVIOUS
<1> HIDE DEF q
<1>2. \A b, c \in Nat : b <= c => n * b <= n * c
  OBVIOUS
<1>3. ASSUME q < k PROVE a < n * k
  <2>1. n * (q + 1) <= n * k
    BY <1>1, <1>2, <1>3
  <2>2. n * (q + 1) = n * q + n /\ n * q \in Nat /\ n * k \in Nat
    BY <1>1
  <2> QED BY <1>1, <2>1, <2>2
<1>4. ASSUME ~(q < k) PROVE ~(a < n * k)
  <2>1. n * k <= n * q /\ n * k \in Nat /\ n * q \in Nat
    BY <1>1, <1>2, <1>4
  <2> QED BY <1>1, <2>1
<1> QED BY <1>3, <1>4 DEF q

\* A chunk of the schedule covers whole words of the bitmap, so vertices of
\* different chunks have their bits in different words.
LEMMA ChunksCoverWords ==
    ASSUME NEW x \in Nat, NEW y \in Nat, word_offset(x) = word_offset(y)
    PROVE  ChunkOf(x) = ChunkOf(y)
<1> DEFINE q == ChunkSize \div BitsPerWord
<1>1. /\ BitsPerWord \in Nat \ {0} /\ ChunkSize \in Nat \ {0}
      /\ q \in Nat /\ ChunkSize = BitsPerWord * q
  BY BitsPerWordAssumption, ChunkAssumption
<1> HIDE DEF q
<1>2. ASSUME NEW a \in Nat, NEW b \in Nat, word_offset(a) = word_offset(b)
      PROVE  ~(ChunkOf(a) < ChunkOf(b))
  <2> SUFFICES ASSUME ChunkOf(a) < ChunkOf(b) PROVE FALSE
    OBVIOUS
  <2> DEFINE e == ChunkOf(b)
  <2>1. e \in Nat /\ ~(b \div ChunkSize < e)
    BY <1>1 DEF ChunkOf
  <2>2. a \div ChunkSize < e
    BY DEF ChunkOf
  <2> HIDE DEF e
  <2>3. a < ChunkSize * e /\ ~(b < ChunkSize * e)
    BY <1>1, <2>1, <2>2, QuotientBound
  <2>4. ChunkSize * e = BitsPerWord * (q * e) /\ q * e \in Nat
    BY <1>1, <2>1
  <2> DEFINE m == q * e
  <2> HIDE DEF m
  <2>5. m \in Nat /\ a < BitsPerWord * m /\ ~(b < BitsPerWord * m)
    BY <2>3, <2>4 DEF m
  <2>6. a \div BitsPerWord < m /\ ~(b \div BitsPerWord < m)
    BY <1>1, <2>5, QuotientBound
  <2> QED BY <1>2, <2>6 DEF word_offset
<1>3. ChunkOf(x) \in Int /\ ChunkOf(y) \in Int
  BY <1>1 DEF ChunkOf
<1> QED BY <1>2, <1>3

\* In BUStep, the invariant of the phase is all that there is to show.
LEMMA BUFrame ==
    ASSUME NEW d, phase = "BUStep", phase' = phase, LevelOK(d)', BUStepOK(d)'
    PROVE  PhaseOK(d)'
BY DEF PhaseOK, SerialOK, QueueToBitmapOK, BitmapToQueueOK, TDStepOK

\* A vertex examined bottom-up keeps it: it is claimed, counted and set in
\* next exactly when it has an in-neighbour in the front.
LEMMA BUVisitKeeps ==
    ASSUME Base, NEW d \in Nat, PhaseOK(d), NEW t \in Thread, BUVisit(t)
    PROVE  Base' /\ PhaseOK(d)'
<1>1. StepOf(t)
  BY ThreadStepFrame DEF ThreadStep
<1>2. phase = "BUStep" /\ pc[t] = "next" /\ UNCHANGED <<serial, front, curr, qvars>>
  BY DEF BUVisit, AtNext
<1>3. LevelOK(d) /\ BUStepOK(d) /\ DepthOK /\ TypeOK
  BY DEF PhaseOK, Base
<1>4. /\ QP!IInv' /\ WindowKept /\ QP!Hidden' = QP!Hidden /\ QP!Pushed' = QP!Pushed
      /\ Q!Quiescent' <=> Q!Quiescent
  BY <1>2, NoQueueEffect DEF Base
<1>5. \A k : Level(k)' = Level(k) /\ UpTo(k)' = UpTo(k)
  BY <1>2, SameLevels DEF serial, args
<1>6. PICK n \in todo[t] :
         /\ todo' = [todo EXCEPT ![t] = @ \ {n}]
         /\ LET awake == {v \in in_neigh(g, n) : get_bit(front, v)}
            IN  IF parent[n] < 0 /\ awake # {}
                THEN /\ parent' = [parent EXCEPT ![n] = Min(awake)]
                     /\ reduced' = reduced + 1
                     /\ u' = [u EXCEPT ![t] = n]
                     /\ word' = [word EXCEPT ![t] = Word(curr, n)]
                     /\ Goto(t, "store")
                ELSE UNCHANGED <<parent, reduced, u, word, pc>>
  BY DEF BUVisit
<1>7. n \in Node /\ todo'[t] = todo[t] \ {n} /\ n \in Mine(t) /\ Mine(t) = todo[t]
  BY <1>2, <1>3, <1>6 DEF TypeOK, Mine
<1>8. \A s \in Thread \ {t} : /\ todo'[s] = todo[s] /\ pc'[s] = pc[s] /\ u'[s] = u[s]
                              /\ word'[s] = word[s] /\ Mine(s)' = Mine(s)
                              /\ n \notin todo[s]
  <2>1. \A s \in Thread \ {t} : n \notin Mine(s)
    BY <1>2, <1>3, <1>7 DEF BUStepOK, ChunksApart
  <2> QED BY <1>1, <2>1 DEF StepOf, Mine
<1>9. \A s \in Thread : BUThreadOK(d, s)
  BY <1>2, <1>3 DEF BUStepOK
<1>10. UNCHANGED <<phase, old_awake_count>>
  BY <1>2 DEF serial, counts
<1> DEFINE awake == {v \in in_neigh(g, n) : get_bit(front, v)}
<1>11. CASE parent[n] < 0 /\ awake # {}
  <2> DEFINE v == Min(awake)
  <2>1. v \in awake
    <3>1. awake \in SUBSET Nat
      BY NodeNat DEF in_neigh
    <3> QED BY <1>11, <3>1, MinNode
  <2>2. /\ parent' = [parent EXCEPT ![n] = v] /\ reduced' = reduced + 1
        /\ u' = [u EXCEPT ![t] = n] /\ word' = [word EXCEPT ![t] = Word(curr, n)]
        /\ pc' = [pc EXCEPT ![t] = "store"]
    BY <1>6, <1>11 DEF Goto
  <2>3. v \in front /\ n \in out_neigh(g, v) /\ n \notin Visited /\ v \in Node
    <3>1. v \in in_neigh(g, n) /\ v \in front
      BY <2>1 DEF get_bit
    <3>2. n \notin Visited
      BY <1>3, <1>7, <1>11 DEF Visited, TypeOK
    <3> HIDE DEF v
    <3> QED BY <1>7, <3>1, <3>2 DEF in_neigh, out_neigh
  <2> HIDE DEF v, awake
  <2>4. v \in Level(d)
    BY <1>3, <2>3 DEF LevelOK, StaleOK
  <2>5. /\ DepthOK' /\ TreeOK' /\ LevelOK(d)'
        /\ Woken(d)' = Woken(d) \cup {n} /\ n \notin Woken(d) /\ n \in Level(d + 1)
        /\ Visited' = Visited \cup {n}
    BY <1>2, <1>3, <1>4, <2>2, <2>3, <2>4, VisitEffect DEF serial
  <2>6. pc'[t] = "store" /\ u'[t] = n /\ word'[t] = Word(curr, n)
    BY <2>2, Registers
  <2>7. TypeOK'
    <3>1. parent' \in [Node -> -NumNodes .. (NumNodes - 1)]
      <4>1. v \in -NumNodes .. (NumNodes - 1)
        BY <2>3, NumNodesAssumption DEF Node
      <4> QED BY <1>3, <2>2, <4>1 DEF TypeOK
    <3>2. u' \in [Thread -> Node] /\ word' \in [Thread -> SUBSET Node] /\ reduced' \in Nat
      BY <1>3, <1>7, <2>2 DEF TypeOK, Word
    <3>3. todo' \in [Thread -> SUBSET Node]
      BY <1>3, <1>6 DEF TypeOK
    <3>4. UNCHANGED <<serial, front, curr, rem, curr_val>>
      BY DEF BUVisit
    <3> QED BY <1>3, <3>1, <3>2, <3>3, <3>4 DEF TypeOK, serial, args, counts
  <2>8. Mine(t)' = Mine(t)
    BY <1>7, <2>6 DEF Mine
  <2>9. reduced' = Cardinality(Woken(d)')
    <3>1. IsFiniteSet(Woken(d))
      BY NodeFinite, FS_Subset DEF Woken, Visited
    <3>2. Cardinality(Woken(d) \cup {n}) = Cardinality(Woken(d)) + 1
      BY <2>5, <3>1, FS_AddElement
    <3> QED BY <1>2, <1>3, <2>2, <2>5, <3>2 DEF BUStepOK
  <2>10. \A s \in Thread : BUThreadOK(d, s)'
    <3>1. BUThreadOK(d, t)'
      BY <1>2, <1>7, <1>9, <2>5, <2>6 DEF BUThreadOK
    <3>2. ASSUME NEW s \in Thread, s # t PROVE BUThreadOK(d, s)'
      BY <1>2, <1>8, <1>9, <2>5, <3>2 DEF BUThreadOK
    <3> QED BY <3>1, <3>2
  <2>11. BUStepOK(d)'
    <3>1. Q!Quiescent' /\ QP!Window' = {} /\ QP!Hidden' = {} /\ QP!Pushed' \subseteq UpTo(d)'
      BY <1>2, <1>3, <1>4, <1>5 DEF BUStepOK, WindowKept
    <3>2. \A s \in Thread : Mine(s)' = Mine(s)
      BY <1>8, <2>8
    <3>3. ChunksApart'
      BY <1>2, <1>3, <3>2 DEF BUStepOK, ChunksApart
    <3>4. curr' \subseteq Woken(d)' /\ Level(d)' \subseteq front' /\ old_awake_count' >= 1
      BY <1>2, <1>3, <1>5, <1>10, <2>5 DEF BUStepOK
    <3>5. \A x \in Level(d + 1)' \ curr' : \E s \in Thread : x \in Mine(s)'
      BY <1>2, <1>3, <1>5, <3>2 DEF BUStepOK
    <3> QED BY <2>9, <2>10, <3>1, <3>3, <3>4, <3>5 DEF BUStepOK
  <2> QED BY <1>1, <1>2, <1>4, <1>10, <2>5, <2>7, <2>11, BUFrame DEF Base, StepOf
<1>12. CASE ~(parent[n] < 0 /\ awake # {})
  <2>1. UNCHANGED <<parent, reduced, u, word, pc>>
    BY <1>6, <1>12
  <2>2. n \notin Level(d + 1)
    <3> SUFFICES ASSUME n \in Level(d + 1) PROVE FALSE
      OBVIOUS
    <3>1. n \notin Visited
      BY <1>9, <1>6 DEF BUThreadOK, Woken
    <3>2. parent[n] < 0
      BY <1>3, <1>7, <3>1 DEF Visited, TypeOK
    <3>3. PICK x \in Level(d) : x \in in_neigh(g, n)
      BY <1>3, LevelFacts
    <3>4. x \in awake
      BY <1>2, <1>3, <3>3 DEF BUStepOK, get_bit
    <3> QED BY <1>12, <3>2, <3>4
  <2>3. TypeOK'
    BY <1>3, <1>6, <2>1 DEF TypeOK, BUVisit, serial, args, counts
  <2>4. Base'
    BY <1>1, <1>2, <1>4, <2>1, <2>3, BaseKeeps DEF serial, StepOf
  <2>5. Visited' = Visited /\ Woken(d)' = Woken(d)
    BY <1>5, <2>1, SameVisited DEF Woken
  <2>6. LevelOK(d)'
    BY <1>2, <1>3, <1>4, <2>1, LevelKeeps DEF serial, args
  <2>7. Mine(t)' = Mine(t) \ {n}
    BY <1>2, <1>7, <2>1 DEF Mine
  <2>8. \A s \in Thread : BUThreadOK(d, s)'
    <3>1. BUThreadOK(d, t)'
      BY <1>2, <1>7, <1>9, <2>1, <2>5 DEF BUThreadOK
    <3>2. ASSUME NEW s \in Thread, s # t PROVE BUThreadOK(d, s)'
      BY <1>2, <1>8, <1>9, <2>5, <3>2 DEF BUThreadOK
    <3> QED BY <3>1, <3>2
  <2>9. BUStepOK(d)'
    <3>1. Q!Quiescent' /\ QP!Window' = {} /\ QP!Hidden' = {} /\ QP!Pushed' \subseteq UpTo(d)'
      BY <1>2, <1>3, <1>4, <1>5 DEF BUStepOK, WindowKept
    <3>2. \A s \in Thread : Mine(s)' \subseteq Mine(s)
      BY <1>8, <2>7
    <3>3. ChunksApart'
      BY <1>2, <1>3, <3>2 DEF BUStepOK, ChunksApart
    <3>4. /\ curr' \subseteq Woken(d)' /\ Level(d)' \subseteq front' /\ old_awake_count' >= 1
          /\ reduced' = Cardinality(Woken(d)')
      BY <1>2, <1>3, <1>5, <1>10, <2>1, <2>5 DEF BUStepOK
    <3>5. \A x \in Level(d + 1)' \ curr' : \E s \in Thread : x \in Mine(s)'
      BY <1>2, <1>3, <1>5, <1>8, <2>2, <2>7 DEF BUStepOK
    <3> QED BY <2>8, <3>1, <3>3, <3>4, <3>5 DEF BUStepOK
  <2> QED BY <1>2, <1>10, <2>4, <2>6, <2>9, BUFrame
<1> QED BY <1>11, <1>12

\* The store of set_bit: nobody else wrote the word since the load, because
\* it lies in a chunk of the thread's own, so no bit is lost.
LEMMA BUSetBitKeeps ==
    ASSUME Base, NEW d \in Nat, PhaseOK(d), NEW t \in Thread, BUSetBit(t)
    PROVE  Base' /\ PhaseOK(d)'
<1>1. StepOf(t)
  BY ThreadStepFrame DEF ThreadStep
<1>2. /\ phase = "BUStep" /\ pc[t] = "store" /\ pc'[t] = "next"
      /\ UNCHANGED <<serial, parent, front, reduced, todo, qvars>>
  BY Registers DEF BUSetBit, Goto
<1>3. LevelOK(d) /\ BUStepOK(d) /\ TypeOK
  BY DEF PhaseOK, Base
<1>4. /\ QP!IInv' /\ WindowKept /\ QP!Hidden' = QP!Hidden /\ QP!Pushed' = QP!Pushed
      /\ Q!Quiescent' <=> Q!Quiescent
  BY <1>2, NoQueueEffect DEF Base
<1>5. /\ \A k : Level(k)' = Level(k) /\ UpTo(k)' = UpTo(k)
      /\ Visited' = Visited
      /\ UNCHANGED <<phase, old_awake_count>>
  BY <1>2, SameLevels, SameVisited DEF serial, args, counts
<1>6. Woken(d)' = Woken(d)
  BY <1>5 DEF Woken
<1>7. BUThreadOK(d, t) /\ u[t] \in Woken(d) /\ word[t] = Word(curr, u[t])
  BY <1>2, <1>3 DEF BUStepOK, BUThreadOK
<1>8. curr' = curr \cup {u[t]}
  <2>1. curr' = set_bit(curr, u[t], word[t])
    BY DEF BUSetBit
  <2> QED BY <1>7, <2>1, SwapSetsBit DEF CanSwap
<1>9. Mine(t)' = todo[t] /\ Mine(t) = todo[t] \cup {u[t]}
  BY <1>2 DEF Mine
<1>10. \A s \in Thread \ {t} : /\ todo'[s] = todo[s] /\ pc'[s] = pc[s] /\ u'[s] = u[s]
                               /\ word'[s] = word[s] /\ Mine(s)' = Mine(s)
  BY <1>1 DEF StepOf, Mine
<1>11. TypeOK'
  <2>1. u[t] \in Node
    BY <1>3 DEF TypeOK
  <2>2. u' \in [Thread -> Node] /\ word' \in [Thread -> SUBSET Node] /\ curr' \subseteq Node
    BY <1>3, <1>8, <2>1, NodeNat DEF TypeOK, BUSetBit, Idle
  <2>3. UNCHANGED <<serial, parent, front, reduced, todo, rem, curr_val>>
    BY DEF BUSetBit
  <2> QED BY <1>3, <2>2, <2>3 DEF TypeOK, serial, args, counts
<1>12. Base'
  BY <1>1, <1>2, <1>4, <1>11, BaseKeeps DEF serial, StepOf
<1>13. LevelOK(d)'
  BY <1>2, <1>3, <1>4, <1>5, LevelKeeps DEF serial, args
<1>14. ASSUME NEW s \in Thread, s # t PROVE BUThreadOK(d, s)'
  <2>1. BUThreadOK(d, s)
    BY <1>2, <1>3 DEF BUStepOK
  <2>2. CASE pc[s] = "store"
    <3>1. u[s] \in Mine(s) /\ u[t] \in Mine(t) /\ u[s] \in Nat /\ u[t] \in Nat
      BY <1>2, <1>3, <2>2, NodeNat DEF Mine, TypeOK
    <3>2. word_offset(u[s]) # word_offset(u[t])
      BY <1>2, <1>3, <1>14, <3>1, ChunksCoverWords DEF BUStepOK, ChunksApart
    <3>3. Word(curr', u[s]) = Word(curr, u[s])
      BY <1>8, <3>2 DEF Word
    <3> QED BY <1>2, <1>6, <1>10, <1>14, <2>1, <2>2, <3>3 DEF BUThreadOK
  <2>3. CASE pc[s] # "store"
    BY <1>2, <1>6, <1>10, <1>14, <2>1, <2>3 DEF BUThreadOK
  <2> QED BY <2>2, <2>3
<1>15. BUThreadOK(d, t)'
  BY <1>2, <1>6, <1>7 DEF BUThreadOK
<1>16. BUStepOK(d)'
  <2>1. Q!Quiescent' /\ QP!Window' = {} /\ QP!Hidden' = {} /\ QP!Pushed' \subseteq UpTo(d)'
    BY <1>2, <1>3, <1>4, <1>5 DEF BUStepOK, WindowKept
  <2>2. \A s \in Thread : Mine(s)' \subseteq Mine(s)
    BY <1>9, <1>10
  <2>3. ChunksApart'
    BY <1>2, <1>3, <2>2 DEF BUStepOK, ChunksApart
  <2>4. /\ curr' \subseteq Woken(d)' /\ Level(d)' \subseteq front' /\ old_awake_count' >= 1
        /\ reduced' = Cardinality(Woken(d)')
    BY <1>2, <1>3, <1>5, <1>6, <1>7, <1>8 DEF BUStepOK
  <2>5. \A x \in Level(d + 1)' \ curr' : \E s \in Thread : x \in Mine(s)'
    BY <1>2, <1>3, <1>5, <1>8, <1>9, <1>10 DEF BUStepOK
  <2> QED BY <1>14, <1>15, <2>1, <2>3, <2>4, <2>5 DEF BUStepOK
<1> QED BY <1>2, <1>5, <1>12, <1>13, <1>16, BUFrame

\* A thread that ends its share of the bottom-up step and adds its count to
\* awake_count keeps it.
LEMMA BUEndKeeps ==
    ASSUME Base, NEW d \in Nat, PhaseOK(d), NEW t \in Thread, BUEnd(t)
    PROVE  Base' /\ PhaseOK(d)'
<1>1. StepOf(t)
  BY ThreadStepFrame DEF ThreadStep
<1>2. /\ phase = "BUStep" /\ pc[t] = "next" /\ todo[t] = {} /\ pc'[t] = "end"
      /\ UNCHANGED <<serial, parent, front, curr, reduced, todo, u, rem, curr_val, word, qvars>>
  BY Registers DEF BUEnd, AtNext, Goto
<1>3. LevelOK(d) /\ BUStepOK(d) /\ TypeOK
  BY DEF PhaseOK, Base
<1>4. /\ QP!IInv' /\ WindowKept /\ QP!Hidden' = QP!Hidden /\ QP!Pushed' = QP!Pushed
      /\ Q!Quiescent' <=> Q!Quiescent
  BY <1>2, NoQueueEffect DEF Base
<1>5. /\ \A k : Level(k)' = Level(k) /\ UpTo(k)' = UpTo(k)
      /\ Visited' = Visited
      /\ UNCHANGED <<phase, old_awake_count>>
  BY <1>2, SameLevels, SameVisited DEF serial, args, counts
<1>6. Woken(d)' = Woken(d)
  BY <1>5 DEF Woken
<1>7. \A s \in Thread : Mine(s)' = Mine(s)
  <2>1. \A s \in Thread : todo'[s] = todo[s] /\ u'[s] = u[s] /\ (pc'[s] = "store" <=> pc[s] = "store")
    BY <1>1, <1>2 DEF StepOf
  <2> QED BY <2>1 DEF Mine
<1>8. TypeOK'
  BY <1>2, <1>3 DEF TypeOK, serial, args, counts
<1>9. Base'
  BY <1>1, <1>2, <1>4, <1>8, BaseKeeps DEF serial, StepOf
<1>10. LevelOK(d)'
  BY <1>2, <1>3, <1>4, <1>5, LevelKeeps DEF serial, args
<1>11. \A s \in Thread : BUThreadOK(d, s)'
  BY <1>1, <1>2, <1>3, <1>6 DEF BUStepOK, BUThreadOK, StepOf
<1>12. BUStepOK(d)'
  <2>1. Q!Quiescent' /\ QP!Window' = {} /\ QP!Hidden' = {} /\ QP!Pushed' \subseteq UpTo(d)'
    BY <1>2, <1>3, <1>4, <1>5 DEF BUStepOK, WindowKept
  <2>2. ChunksApart'
    BY <1>2, <1>3, <1>7 DEF BUStepOK, ChunksApart
  <2>3. /\ curr' \subseteq Woken(d)' /\ Level(d)' \subseteq front' /\ old_awake_count' >= 1
        /\ reduced' = Cardinality(Woken(d)')
    BY <1>2, <1>3, <1>5, <1>6 DEF BUStepOK
  <2>4. \A x \in Level(d + 1)' \ curr' : \E s \in Thread : x \in Mine(s)'
    BY <1>2, <1>3, <1>5, <1>7 DEF BUStepOK
  <2> QED BY <1>11, <2>1, <2>2, <2>3, <2>4 DEF BUStepOK
<1> QED BY <1>2, <1>5, <1>9, <1>10, <1>12, BUFrame

-----------------------------------------------------------------------------
\* What TDStep and BitmapToQueue have in common: the buffered push, and the
\* flush after the loop.

\* A push_back of a vertex never queued hides it in the queue; the flush that
\* may have to come first cannot be observed.
LEMMA PushBackEffect ==
    ASSUME Base, NEW t \in Thread, NEW e \in Node, e \notin QP!Pushed,
           NEW after, PushBack(t, e, after)
    PROVE  /\ QueueStep /\ QP!IInv' /\ WindowKept
           /\ \/ /\ QP!Hidden' = QP!Hidden /\ QP!Pushed' = QP!Pushed
                 /\ UNCHANGED <<rem, pc>>
              \/ /\ QP!Hidden' = QP!Hidden \cup {e} /\ QP!Pushed' = QP!Pushed \cup {e}
                 /\ rem' = [rem EXCEPT ![t] = @ \ {e}] /\ pc' = [pc EXCEPT ![t] = after]
<1>1. QP!IInv
  BY DEF Base
<1>2. CASE /\ Q!LocalPush(t, e)
           /\ rem' = [rem EXCEPT ![t] = @ \ {e}]
           /\ Goto(t, after)
  BY <1>1, <1>2, PushEffect DEF Goto
<1>3. CASE (Q!Claim(t) \/ Q!CopyOut(t)) /\ UNCHANGED <<rem, pc>>
  BY <1>1, <1>3, FlushEffect
<1> QED BY <1>2, <1>3 DEF PushBack

\* The flush at the end leaves the thread's buffer empty.
LEMMA LastFlushEffect ==
    ASSUME Base, NEW t \in Thread, Flush(t)
    PROVE  /\ QueueStep /\ QP!IInv' /\ WindowKept
           /\ QP!Hidden' = QP!Hidden /\ QP!Pushed' = QP!Pushed
           /\ pc[t] = "flush"
           /\ UNCHANGED <<serial, parent, front, curr, reduced, todo, u, rem, curr_val, word>>
           /\ \/ pc'[t] = "flush"
              \/ pc'[t] = "end" /\ local_queue'[t] = << >> /\ ~Q!Copying(t)'
<1>1. QP!IInv /\ (Q!Claim(t) \/ Q!CopyOut(t))
  BY DEF Base, Flush
<1>2. /\ QueueStep /\ QP!IInv' /\ WindowKept
      /\ QP!Hidden' = QP!Hidden /\ QP!Pushed' = QP!Pushed
  BY <1>1, FlushEffect
<1>3. \/ pc'[t] = "flush"
      \/ pc'[t] = "end" /\ local_queue'[t] = << >> /\ ~Q!Copying(t)'
  <2>1. CASE Q!Claim(t) /\ UNCHANGED pc
    BY <2>1 DEF Flush
  <2>2. CASE Q!CopyOut(t) /\ Goto(t, "end")
    <3>1. pc'[t] = "end"
      BY <2>2, Registers DEF Goto
    <3>2. local_queue'[t] = << >> /\ copy_start'[t] = Q!NoCopy
      BY <2>2, Registers DEF Q!CopyOut
    <3> QED BY <3>1, <3>2 DEF Q!Copying
  <2> QED BY <2>1, <2>2 DEF Flush
<1> QED BY <1>2, <1>3 DEF Flush

-----------------------------------------------------------------------------
\* TDStep.

\* In TDStep, the invariant of the phase is all that there is to show.
LEMMA TDFrame ==
    ASSUME NEW d, phase = "TDStep", phase' = phase, LevelOK(d)', TDStepOK(d)'
    PROVE  PhaseOK(d)'
BY DEF PhaseOK, SerialOK, QueueToBitmapOK, BitmapToQueueOK, BUStepOK

\* Another thread's place keeps its meaning when vertices are visited and
\* other vertices than its own are queued.
LEMMA TDOthers ==
    ASSUME NEW d, NEW t \in Thread, StepOf(t), WindowKept, TypeOK,
           NEW s \in Thread, s # t, TDThreadOK(d, s),
           Visited \subseteq Visited', Woken(d) \subseteq Woken(d)',
           \A x \in Node : parent'[x] = parent[x] \/ x \in Visited',
           \A v \in Node : Pushing(s, v) => v \notin QP!Pushed'
    PROVE  TDThreadOK(d, s)'
<1>1. \A k : Level(k)' = Level(k)
  BY SameLevels DEF StepOf, serial, args
<1>2. /\ todo'[s] = todo[s] /\ pc'[s] = pc[s] /\ u'[s] = u[s] /\ rem'[s] = rem[s]
      /\ curr_val'[s] = curr_val[s]
      /\ local_queue'[s] = local_queue[s] /\ copy_start'[s] = copy_start[s]
      /\ g' = g /\ Q!WindowSlots' = Q!WindowSlots
  BY DEF StepOf, serial, args, WindowKept
<1>3. FlushOK(s)'
  BY <1>2 DEF TDThreadOK, FlushOK, Q!Copying
<1>4. ASSUME pc[s] = "cas"
      PROVE  curr_val'[s] < 0 /\ (parent'[Min(rem'[s])] = curr_val'[s] \/ Min(rem'[s]) \in Visited')
  <2>1. rem[s] # {} /\ rem[s] \in SUBSET Node
    BY <1>4 DEF TDThreadOK, TypeOK
  <2>2. Min(rem[s]) \in Node
    BY <2>1, MinNode, NodeNat
  <2> QED BY <1>2, <1>4, <2>2 DEF TDThreadOK
<1>5. ASSUME pc[s] = "push"
      PROVE  Min(rem'[s]) \in Woken(d)' \ QP!Pushed'
  <2>1. Min(rem[s]) \in Woken(d) /\ Min(rem[s]) \in Node
    BY <1>5 DEF TDThreadOK, Woken, Visited
  <2> QED BY <1>2, <1>5, <2>1 DEF Pushing
<1>6. out_neigh(g', u'[s]) = out_neigh(g, u[s])
  BY <1>2
<1> QED BY <1>1, <1>2, <1>3, <1>4, <1>5, <1>6 DEF TDThreadOK

\* The other threads keep their edges.
LEMMA EdgesKept ==
    ASSUME NEW d, NEW t \in Thread, StepOf(t), WindowKept, EdgesLeft(d),
           \A s \in Thread : todo[s] \subseteq Q!WindowSlots,
           Visited \subseteq Visited',
           \A x \in Level(d) : \A y \in out_neigh(g, x) \ Visited' :
              HasEdge(t, x, y) => HasEdge(t, x, y)'
    PROVE  EdgesLeft(d)'
<1>1. \A k : Level(k)' = Level(k)
  BY SameLevels DEF StepOf, serial, args
<1>2. g' = g
  BY DEF StepOf, serial, args
<1>3. ASSUME NEW x \in Level(d), NEW y \in out_neigh(g, x) \ Visited'
      PROVE  \E s \in Thread : HasEdge(s, x, y)'
  <2>1. PICK s \in Thread : HasEdge(s, x, y)
    BY <1>3 DEF EdgesLeft
  <2>2. CASE s = t
    BY <1>3, <2>1, <2>2
  <2>3. CASE s # t
    <3>1. /\ todo'[s] = todo[s] /\ pc'[s] = pc[s] /\ u'[s] = u[s] /\ rem'[s] = rem[s]
          /\ \A i \in todo[s] : shared'[i] = shared[i]
      BY <2>3 DEF StepOf, WindowKept
    <3> QED BY <2>1, <3>1 DEF HasEdge
  <2> QED BY <2>2, <2>3
<1> QED BY <1>1, <1>2, <1>3 DEF EdgesLeft, out_neigh

\* A thread's push is its own.
LEMMA PushingOthers ==
    ASSUME NEW t \in Thread, StepOf(t)
    PROVE  \A s \in Thread : s # t => \A v : Pushing(s, v)' <=> Pushing(s, v)
BY DEF StepOf, Pushing

\* A step of the region that claims no vertex.  Either the queue looks as it
\* did, and the thread pushes what it pushed; or it has queued its vertex.
LEMMA TDKeeps ==
    ASSUME Base, NEW d \in Nat, PhaseOK(d), NEW t \in Thread, phase = "TDStep",
           StepOf(t), UNCHANGED <<parent, front>>, TypeOK', QP!IInv', WindowKept,
           \/ /\ QP!Hidden' = QP!Hidden /\ QP!Pushed' = QP!Pushed
              /\ \A v \in Node : Pushing(t, v)' <=> Pushing(t, v)
           \/ \E e \in Node :
                 /\ QP!Hidden' = QP!Hidden \cup {e} /\ QP!Pushed' = QP!Pushed \cup {e}
                 /\ Pushing(t, e) /\ pc'[t] # "push",
           TDThreadOK(d, t)',
           \A x \in Level(d) : \A y \in out_neigh(g, x) \ Visited :
              HasEdge(t, x, y) => HasEdge(t, x, y)'
    PROVE  Base' /\ PhaseOK(d)'
<1>1. /\ LevelOK(d) /\ TDStepOK(d) /\ TypeOK /\ DepthOK
      /\ UNCHANGED <<args, g, depth, phase>>
  BY DEF PhaseOK, Base, StepOf, serial, args
<1>2. Base'
  BY <1>1, BaseKeeps DEF StepOf
<1>3. /\ \A k : Level(k)' = Level(k) /\ UpTo(k)' = UpTo(k)
      /\ Visited' = Visited
  BY <1>1, SameLevels, SameVisited
<1>4. Woken(d)' = Woken(d)
  BY <1>3 DEF Woken
<1>5. /\ QP!Window = Level(d) /\ QP!Hidden \subseteq Level(d + 1)
      /\ \A s \in Thread : TDThreadOK(d, s)
      /\ PushersApart /\ ClaimsKept(d) /\ EdgesLeft(d)
  BY <1>1 DEF TDStepOK
<1>6. \A s \in Thread : s # t => \A v : Pushing(s, v)' <=> Pushing(s, v)
  BY PushingOthers
<1>7. EdgesLeft(d)'
  <2>1. \A s \in Thread : todo[s] \subseteq Q!WindowSlots
    BY <1>5 DEF TDThreadOK
  <2> QED BY <1>3, <1>5, <2>1, EdgesKept
<1>8. CASE /\ QP!Hidden' = QP!Hidden /\ QP!Pushed' = QP!Pushed
           /\ \A v \in Node : Pushing(t, v)' <=> Pushing(t, v)
  <2>1. \A s \in Thread : \A v \in Node : Pushing(s, v)' <=> Pushing(s, v)
    BY <1>6, <1>8
  <2>2. \A s \in Thread : \A v \in Node : Pushing(s, v) => v \notin QP!Pushed
    BY <1>5 DEF TDThreadOK, Pushing
  <2>3. LevelOK(d)'
    BY <1>1, <1>8, LevelKeeps
  <2>4. \A s \in Thread : TDThreadOK(d, s)'
    BY <1>1, <1>3, <1>4, <1>5, <1>8, <2>2, TDOthers
  <2>5. PushersApart'
    BY <1>5, <2>1 DEF PushersApart
  <2>6. ClaimsKept(d)'
    <3>1. Woken(d) \subseteq Node
      BY DEF Woken, Visited
    <3> QED BY <1>4, <1>5, <1>8, <2>1, <3>1 DEF ClaimsKept
  <2>7. TDStepOK(d)'
    BY <1>3, <1>5, <1>7, <1>8, <2>4, <2>5, <2>6 DEF TDStepOK, WindowKept
  <2> QED BY <1>1, <1>2, <2>3, <2>7, TDFrame
<1>9. CASE \E e \in Node :
              /\ QP!Hidden' = QP!Hidden \cup {e} /\ QP!Pushed' = QP!Pushed \cup {e}
              /\ Pushing(t, e) /\ pc'[t] # "push"
  <2>1. PICK e \in Node :
           /\ QP!Hidden' = QP!Hidden \cup {e} /\ QP!Pushed' = QP!Pushed \cup {e}
           /\ Pushing(t, e) /\ pc'[t] # "push"
    BY <1>9
  <2>2. e \in Woken(d)
    BY <1>5, <2>1 DEF TDThreadOK, Pushing
  <2>3. \A v : Pushing(t, v)' = FALSE
    BY <2>1 DEF Pushing
  <2>4. ASSUME NEW s \in Thread, s # t, NEW v \in Node, Pushing(s, v)
        PROVE  v \notin QP!Pushed'
    <3>1. v \notin QP!Pushed
      BY <1>5, <2>4 DEF TDThreadOK, Pushing
    <3>2. v # e
      BY <1>5, <2>1, <2>4 DEF PushersApart
    <3> QED BY <2>1, <3>1, <3>2
  <2>5. \A s \in Thread : TDThreadOK(d, s)'
    BY <1>1, <1>3, <1>4, <1>5, <2>4, TDOthers
  <2>6. PushersApart'
    BY <1>5, <1>6, <2>3 DEF PushersApart
  <2>7. ClaimsKept(d)'
    <3> SUFFICES ASSUME NEW v \in Woken(d)', v \notin QP!Hidden'
                 PROVE  \E s \in Thread : Pushing(s, v)'
      BY DEF ClaimsKept
    <3>1. v \in Woken(d) \ QP!Hidden /\ v # e
      BY <1>4, <2>1
    <3>2. PICK s \in Thread : Pushing(s, v)
      BY <1>5, <3>1 DEF ClaimsKept
    <3>3. s # t
      BY <2>1, <3>1, <3>2 DEF Pushing
    <3> QED BY <1>6, <3>2, <3>3
  <2>8. StaleOK(d)'
    BY <1>1, <1>3 DEF LevelOK, StaleOK, out_neigh
  <2>9. LevelOK(d)'
    BY <1>1, <1>3, <2>1, <2>2, <2>8 DEF LevelOK, Woken
  <2>10. QP!Hidden' \subseteq Level(d + 1)'
    BY <1>3, <1>5, <2>1, <2>2 DEF Woken
  <2>11. TDStepOK(d)'
    BY <1>3, <1>5, <1>7, <2>5, <2>6, <2>7, <2>10 DEF TDStepOK, WindowKept
  <2> QED BY <1>1, <1>2, <2>9, <2>11, TDFrame
<1> QED BY <1>8, <1>9

\* The steps of TDStep that touch neither parent nor the queue.
LEMMA TDQuiet ==
    ASSUME Base, NEW d \in Nat, PhaseOK(d), NEW t \in Thread, phase = "TDStep",
           StepOf(t), UNCHANGED <<parent, front, qvars>>, TypeOK',
           pc[t] # "push", pc'[t] # "push",
           TDThreadOK(d, t)',
           \A x \in Level(d) : \A y \in out_neigh(g, x) \ Visited :
              HasEdge(t, x, y) => HasEdge(t, x, y)'
    PROVE  Base' /\ PhaseOK(d)'
<1>1. /\ QP!IInv' /\ WindowKept /\ QP!Hidden' = QP!Hidden /\ QP!Pushed' = QP!Pushed
  BY NoQueueEffect DEF Base
<1>2. \A v \in Node : Pushing(t, v)' <=> Pushing(t, v)
  BY DEF Pushing
<1> QED BY <1>1, <1>2, TDKeeps

\* A thread that takes the next vertex of the window keeps it: the edges it
\* is to look at are the vertex's.
LEMMA TDTakeKeeps ==
    ASSUME Base, NEW d \in Nat, PhaseOK(d), NEW t \in Thread, TDTake(t)
    PROVE  Base' /\ PhaseOK(d)'
<1>1. StepOf(t)
  BY ThreadStepFrame DEF ThreadStep
<1>2. PICK i \in todo[t] : /\ todo' = [todo EXCEPT ![t] = @ \ {i}]
                           /\ u' = [u EXCEPT ![t] = shared[i]]
                           /\ rem' = [rem EXCEPT ![t] = out_neigh(g, shared[i])]
  BY DEF TDTake
<1>3. /\ phase = "TDStep" /\ pc[t] = "next" /\ pc'[t] = "scan"
      /\ todo'[t] = todo[t] \ {i} /\ u'[t] = shared[i] /\ rem'[t] = out_neigh(g, shared[i])
      /\ UNCHANGED <<serial, parent, front, curr, reduced, curr_val, word, qvars>>
  BY <1>2, Registers DEF TDTake, AtNext, Goto
<1>4. TypeOK /\ TDThreadOK(d, t) /\ QP!Window = Level(d) /\ QP!IInv
  BY <1>3 DEF Base, PhaseOK, TDStepOK
<1>5. shared[i] \in Level(d) /\ shared[i] \in Node
  <2>1. i \in Q!WindowSlots
    BY <1>2, <1>4 DEF TDThreadOK
  <2> QED BY <1>4, <2>1, QueueReads DEF Level
<1>6. TypeOK'
  <2>1. out_neigh(g, shared[i]) \in SUBSET Node
    BY DEF out_neigh
  <2> QED BY <1>2, <1>3, <1>4, <1>5, <2>1 DEF TypeOK, serial, args, counts
<1>7. /\ \A k : Level(k)' = Level(k)
      /\ g' = g /\ Q!WindowSlots' = Q!WindowSlots /\ shared' = shared
  BY <1>3, SameLevels DEF serial, args, qvars, Q!WindowSlots
<1>8. TDThreadOK(d, t)'
  <2>1. out_neigh(g', u'[t]) = out_neigh(g, shared[i])
    BY <1>3, <1>7
  <2> QED BY <1>3, <1>4, <1>5, <1>7, <2>1 DEF TDThreadOK, FlushOK
<1>9. ASSUME NEW x \in Level(d), NEW y \in out_neigh(g, x), HasEdge(t, x, y)
      PROVE  HasEdge(t, x, y)'
  <2>1. PICK j \in todo[t] : shared[j] = x
    BY <1>3, <1>9 DEF HasEdge
  <2>2. CASE j = i
    BY <1>3, <1>9, <2>1, <2>2 DEF HasEdge
  <2>3. CASE j # i
    BY <1>3, <1>7, <2>1, <2>3 DEF HasEdge
  <2> QED BY <2>2, <2>3
<1> QED BY <1>1, <1>3, <1>6, <1>8, <1>9, TDQuiet

\* The read of parent[v] keeps it: a value found negative is what the
\* compare-and-swap will test, however stale.
LEMMA TDReadKeeps ==
    ASSUME Base, NEW d \in Nat, PhaseOK(d), NEW t \in Thread, TDRead(t)
    PROVE  Base' /\ PhaseOK(d)'
<1>1. StepOf(t)
  BY ThreadStepFrame DEF ThreadStep
<1>2. /\ phase = "TDStep" /\ pc[t] = "scan"
      /\ UNCHANGED <<serial, parent, front, curr, reduced, todo, u, word, qvars>>
  BY DEF TDRead
<1>3. TypeOK /\ TDThreadOK(d, t)
  BY <1>2 DEF Base, PhaseOK, TDStepOK
<1>4. PICK v \in rem[t] :
         /\ v = Min(rem[t])
         /\ IF parent[v] < 0
            THEN /\ curr_val' = [curr_val EXCEPT ![t] = parent[v]]
                 /\ Goto(t, "cas")
                 /\ UNCHANGED rem
            ELSE /\ rem' = [rem EXCEPT ![t] = @ \ {v}]
                 /\ UNCHANGED <<curr_val, pc>>
  BY DEF TDRead
<1>5. v \in Node /\ parent[v] \in -NumNodes .. (NumNodes - 1)
  BY <1>3, <1>4 DEF TypeOK
<1>6. /\ \A k : Level(k)' = Level(k)
      /\ Visited' = Visited /\ u'[t] = u[t] /\ todo'[t] = todo[t] /\ parent' = parent
      /\ g' = g /\ Q!WindowSlots' = Q!WindowSlots /\ shared' = shared
  BY <1>2, SameLevels, SameVisited DEF serial, args, qvars, Q!WindowSlots
<1>7. CASE parent[v] < 0
  <2>1. curr_val'[t] = parent[v] /\ pc'[t] = "cas" /\ rem'[t] = rem[t]
    BY <1>4, <1>7, Registers DEF Goto
  <2>2. TypeOK'
    <3>1. parent[v] \in -NumNodes .. Idle
      BY <1>5, <1>7, NumNodesAssumption DEF Idle
    <3> QED BY <1>2, <1>3, <1>4, <1>7, <3>1 DEF TypeOK, serial, args, counts
  <2>3. TDThreadOK(d, t)'
    <3>1. out_neigh(g', u'[t]) = out_neigh(g, u[t])
      BY <1>6
    <3>2. FlushOK(t)'
      BY <2>1 DEF FlushOK
    <3>3. parent'[Min(rem'[t])] = curr_val'[t] /\ curr_val'[t] < 0 /\ rem'[t] # {}
      BY <1>4, <1>6, <1>7, <2>1
    <3> QED BY <1>2, <1>3, <1>6, <2>1, <3>1, <3>2, <3>3 DEF TDThreadOK
  <2>4. \A x, y : HasEdge(t, x, y) => HasEdge(t, x, y)'
    BY <1>2, <1>6, <2>1 DEF HasEdge
  <2> QED BY <1>1, <1>2, <2>1, <2>2, <2>3, <2>4, TDQuiet
<1>8. CASE ~(parent[v] < 0)
  <2>1. v \in Visited
    BY <1>5, <1>8 DEF Visited
  <2>2. rem'[t] = rem[t] \ {v} /\ pc'[t] = "scan" /\ UNCHANGED <<curr_val, pc>>
    BY <1>2, <1>4, <1>8, Registers
  <2>3. TypeOK'
    BY <1>2, <1>3, <1>4, <1>8 DEF TypeOK, serial, args, counts
  <2>4. TDThreadOK(d, t)'
    <3>1. out_neigh(g', u'[t]) = out_neigh(g, u[t])
      BY <1>6
    <3>2. FlushOK(t)'
      BY <2>2 DEF FlushOK
    <3> QED BY <1>2, <1>3, <1>6, <2>2, <3>1, <3>2 DEF TDThreadOK
  <2>5. \A x, y : y \notin Visited /\ HasEdge(t, x, y) => HasEdge(t, x, y)'
    BY <1>2, <1>6, <2>1, <2>2 DEF HasEdge
  <2> QED BY <1>1, <1>2, <2>2, <2>3, <2>4, <2>5, TDQuiet
<1> QED BY <1>7, <1>8

\* A thread that has scanned all the edges of its vertex keeps it.
LEMMA TDScannedKeeps ==
    ASSUME Base, NEW d \in Nat, PhaseOK(d), NEW t \in Thread, TDScanned(t)
    PROVE  Base' /\ PhaseOK(d)'
<1>1. StepOf(t)
  BY ThreadStepFrame DEF ThreadStep
<1>2. /\ phase = "TDStep" /\ pc[t] = "scan" /\ rem[t] = {} /\ pc'[t] = "next"
      /\ u' = [u EXCEPT ![t] = Idle]
      /\ UNCHANGED <<serial, parent, front, curr, reduced, todo, rem, curr_val, word, qvars>>
  BY Registers DEF TDScanned, Goto
<1>3. TypeOK /\ TDThreadOK(d, t)
  BY <1>2 DEF Base, PhaseOK, TDStepOK
<1>4. TypeOK'
  BY <1>2, <1>3, NodeNat DEF TypeOK, serial, args, counts, Idle
<1>5. Q!WindowSlots' = Q!WindowSlots /\ shared' = shared /\ todo'[t] = todo[t]
  BY <1>2 DEF qvars, Q!WindowSlots
<1>6. TDThreadOK(d, t)'
  BY <1>2, <1>3, <1>5 DEF TDThreadOK, FlushOK
<1>7. \A x, y : HasEdge(t, x, y) => HasEdge(t, x, y)'
  BY <1>2, <1>5 DEF HasEdge
<1> QED BY <1>1, <1>2, <1>4, <1>6, <1>7, TDQuiet

\* The winner of a compare-and-swap has claimed a vertex of the next level,
\* and nobody else has it in hand; a loser leaves a visited vertex.
LEMMA TDCasKeeps ==
    ASSUME Base, NEW d \in Nat, PhaseOK(d), NEW t \in Thread, TDCas(t)
    PROVE  Base' /\ PhaseOK(d)'
<1>1. StepOf(t)
  BY ThreadStepFrame DEF ThreadStep
<1>2. /\ phase = "TDStep" /\ pc[t] = "cas" /\ curr_val' = [curr_val EXCEPT ![t] = Idle]
      /\ UNCHANGED <<serial, front, curr, todo, u, word, qvars>>
  BY DEF TDCas
<1>3. /\ TypeOK /\ LevelOK(d) /\ TDStepOK(d) /\ DepthOK
      /\ TDThreadOK(d, t)
  BY <1>2 DEF Base, PhaseOK, TDStepOK
<1> DEFINE v == Min(rem[t])
<1>4. v \in rem[t] /\ v \in Node
  <2>1. rem[t] # {} /\ rem[t] \in SUBSET Node
    BY <1>2, <1>3 DEF TDThreadOK, TypeOK
  <2> QED BY <2>1, MinNode, NodeNat
<1>5. \/ /\ parent[v] = curr_val[t]
         /\ parent' = [parent EXCEPT ![v] = u[t]]
         /\ reduced' = reduced - curr_val[t]
         /\ pc' = [pc EXCEPT ![t] = "push"]
         /\ UNCHANGED rem
      \/ /\ parent[v] # curr_val[t]
         /\ rem' = [rem EXCEPT ![t] = @ \ {v}]
         /\ pc' = [pc EXCEPT ![t] = "scan"]
         /\ UNCHANGED <<parent, reduced>>
  BY DEF TDCas, Goto
<1>6. /\ u[t] \in Level(d) /\ rem[t] \subseteq out_neigh(g, u[t])
      /\ curr_val[t] < 0 /\ (parent[v] = curr_val[t] \/ v \in Visited)
  BY <1>2, <1>3 DEF TDThreadOK
<1>7. /\ QP!IInv' /\ WindowKept /\ QP!Hidden' = QP!Hidden /\ QP!Pushed' = QP!Pushed
  BY <1>2, NoQueueEffect DEF Base
<1>8. /\ \A k : Level(k)' = Level(k)
      /\ u'[t] = u[t] /\ todo'[t] = todo[t]
      /\ g' = g /\ phase' = phase
      /\ Q!WindowSlots' = Q!WindowSlots /\ shared' = shared
  BY <1>2, SameLevels DEF serial, args, qvars, Q!WindowSlots
<1>9. curr_val' \in [Thread -> -NumNodes .. Idle]
  BY <1>2, <1>3, NumNodesAssumption DEF TypeOK, Idle
<1> HIDE DEF v
<1>10. CASE /\ parent[v] # curr_val[t]
            /\ rem' = [rem EXCEPT ![t] = @ \ {v}]
            /\ pc' = [pc EXCEPT ![t] = "scan"]
            /\ UNCHANGED <<parent, reduced>>
  <2>1. v \in Visited /\ rem'[t] = rem[t] \ {v} /\ pc'[t] = "scan"
    BY <1>6, <1>10, Registers
  <2>2. TypeOK'
    BY <1>2, <1>3, <1>9, <1>10 DEF TypeOK, serial, args, counts
  <2>3. TDThreadOK(d, t)'
    <3>1. out_neigh(g', u'[t]) = out_neigh(g, u[t])
      BY <1>8
    <3>2. FlushOK(t)'
      BY <2>1 DEF FlushOK
    <3> QED BY <1>2, <1>3, <1>6, <1>8, <2>1, <3>1, <3>2 DEF TDThreadOK
  <2>4. \A x, y : y \notin Visited /\ HasEdge(t, x, y) => HasEdge(t, x, y)'
    BY <1>2, <1>8, <2>1 DEF HasEdge
  <2> QED BY <1>1, <1>2, <1>10, <2>1, <2>2, <2>3, <2>4, TDQuiet
<1>11. CASE /\ parent[v] = curr_val[t]
            /\ parent' = [parent EXCEPT ![v] = u[t]]
            /\ reduced' = reduced - curr_val[t]
            /\ pc' = [pc EXCEPT ![t] = "push"]
            /\ UNCHANGED rem
  <2>1. v \notin Visited /\ v \in out_neigh(g, u[t])
    <3>1. parent[v] < 0 /\ parent[v] \in Int
      BY <1>3, <1>4, <1>6, <1>11, NumNodesAssumption DEF TypeOK
    <3> QED BY <1>4, <1>6, <3>1 DEF Visited
  <2>2. pc'[t] = "push" /\ rem'[t] = rem[t] /\ Min(rem'[t]) = v
    BY <1>11, Registers DEF v
  <2>3. /\ DepthOK' /\ TreeOK' /\ LevelOK(d)'
        /\ parent'[v] = u[t] /\ \A x \in Node \ {v} : parent'[x] = parent[x]
        /\ Visited' = Visited \cup {v}
        /\ Woken(d)' = Woken(d) \cup {v} /\ v \notin Woken(d)
    <3> DEFINE w == u[t]
    <3>1. w \in Level(d) /\ v \in out_neigh(g, w) /\ parent' = [parent EXCEPT ![v] = w]
      BY <1>6, <1>11, <2>1
    <3>2. UNCHANGED <<args, front, phase>> /\ phase \in {"BUStep", "TDStep"}
      BY <1>2 DEF serial
    <3> HIDE DEF w
    <3>3. /\ DepthOK' /\ TreeOK' /\ LevelOK(d)'
          /\ Visited' = Visited \cup {v}
          /\ Woken(d)' = Woken(d) \cup {v} /\ v \notin Woken(d)
      BY <1>3, <1>7, <2>1, <3>1, <3>2, VisitEffect
    <3>4. parent'[v] = w /\ \A x \in Node \ {v} : parent'[x] = parent[x]
      BY <1>3, <1>4, <3>1 DEF TypeOK
    <3> QED BY <3>3, <3>4 DEF w
  <2>4. v \notin QP!Pushed
    BY <1>3, <2>1 DEF LevelOK
  <2>5. TypeOK'
    <3>1. u[t] \in Node
      BY <1>3 DEF TypeOK
    <3>2. u[t] \in -NumNodes .. (NumNodes - 1)
      BY <3>1, NumNodesAssumption DEF Node
    <3>3. parent' \in [Node -> -NumNodes .. (NumNodes - 1)]
      BY <1>3, <1>11, <3>2 DEF TypeOK
    <3>4. reduced' \in Nat
      <4>1. curr_val[t] \in -NumNodes .. Idle /\ reduced \in Nat
        BY <1>3 DEF TypeOK
      <4> QED BY <1>11, <4>1, NumNodesAssumption DEF Idle
    <3> QED BY <1>2, <1>3, <1>9, <1>11, <3>3, <3>4 DEF TypeOK, serial, args, counts
  <2>6. Base'
    BY <1>1, <1>7, <2>3, <2>5 DEF Base, StepOf
  <2>7. TDThreadOK(d, t)'
    <3>1. out_neigh(g', u'[t]) = out_neigh(g, u[t])
      BY <1>8
    <3>2. FlushOK(t)'
      BY <2>2 DEF FlushOK
    <3>3. Min(rem'[t]) \in Woken(d)' \ QP!Pushed'
      BY <1>7, <2>2, <2>3, <2>4
    <3> QED BY <1>2, <1>3, <1>4, <1>6, <1>8, <2>2, <3>1, <3>2, <3>3 DEF TDThreadOK
  <2>8. /\ QP!Window = Level(d) /\ QP!Hidden \subseteq Level(d + 1)
        /\ \A s \in Thread : TDThreadOK(d, s)
        /\ PushersApart /\ ClaimsKept(d) /\ EdgesLeft(d)
    BY <1>2, <1>3 DEF TDStepOK
  <2>9. \A s \in Thread : s # t => \A x : Pushing(s, x)' <=> Pushing(s, x)
    BY <1>1, PushingOthers
  <2>10. \A x : Pushing(t, x)' <=> x = v
    BY <2>2 DEF Pushing
  <2>11. \A s \in Thread : \A x \in Node : Pushing(s, x) => x \in Woken(d) \ QP!Pushed
    BY <2>8 DEF TDThreadOK, Pushing
  <2>12. ASSUME NEW s \in Thread, s # t PROVE TDThreadOK(d, s)'
    <3>1. \A x \in Node : parent'[x] = parent[x] \/ x \in Visited'
      BY <2>3
    <3> QED BY <1>1, <1>3, <1>7, <2>3, <2>8, <2>11, <2>12, <3>1, TDOthers
  <2>13. PushersApart'
    BY <2>3, <2>8, <2>9, <2>10, <2>11 DEF PushersApart
  <2>14. ClaimsKept(d)'
    <3> SUFFICES ASSUME NEW x \in Woken(d)', x \notin QP!Hidden'
                 PROVE  \E s \in Thread : Pushing(s, x)'
      BY DEF ClaimsKept
    <3>1. CASE x = v
      BY <2>10, <3>1
    <3>2. CASE x # v
      <4>1. x \in Woken(d) \ QP!Hidden
        BY <1>7, <2>3, <3>2
      <4>2. PICK s \in Thread : Pushing(s, x)
        BY <2>8, <4>1 DEF ClaimsKept
      <4>3. s # t
        BY <1>2, <4>2 DEF Pushing
      <4> QED BY <2>9, <4>2, <4>3
    <3> QED BY <3>1, <3>2
  <2>15. EdgesLeft(d)'
    <3>1. \A x, y : HasEdge(t, x, y) => HasEdge(t, x, y)'
      BY <1>2, <1>8, <2>2 DEF HasEdge
    <3>2. \A s \in Thread : todo[s] \subseteq Q!WindowSlots
      BY <2>8 DEF TDThreadOK
    <3>3. Visited \subseteq Visited'
      BY <2>3
    <3> QED BY <1>1, <1>7, <2>8, <3>1, <3>2, <3>3, EdgesKept
  <2>16. TDStepOK(d)'
    BY <1>7, <1>8, <2>7, <2>8, <2>12, <2>13, <2>14, <2>15 DEF TDStepOK, WindowKept
  <2> QED BY <1>2, <1>8, <2>3, <2>6, <2>16, TDFrame
<1> QED BY <1>5, <1>10, <1>11

\* The claimer queues its vertex, once; a flush of a full buffer, which may
\* have to come first, hides nothing and queues nothing new.
LEMMA TDPushKeeps ==
    ASSUME Base, NEW d \in Nat, PhaseOK(d), NEW t \in Thread, TDPush(t)
    PROVE  Base' /\ PhaseOK(d)'
<1>1. StepOf(t)
  BY ThreadStepFrame DEF ThreadStep
<1> DEFINE v == Min(rem[t])
<1>2. /\ phase = "TDStep" /\ pc[t] = "push" /\ PushBack(t, v, "scan")
      /\ UNCHANGED <<serial, parent, front, curr, reduced, todo, u, curr_val, word>>
  BY DEF TDPush
<1>3. /\ TypeOK /\ TDStepOK(d) /\ TDThreadOK(d, t)
  BY <1>2 DEF Base, PhaseOK, TDStepOK
<1>4. v \in rem[t] /\ v \in Node
  <2>1. rem[t] # {} /\ rem[t] \in SUBSET Node
    BY <1>2, <1>3 DEF TDThreadOK, TypeOK
  <2> QED BY <2>1, MinNode, NodeNat
<1>5. v \in Woken(d) /\ v \notin QP!Pushed /\ Pushing(t, v)
  BY <1>2, <1>3 DEF TDThreadOK, Pushing
<1> HIDE DEF v
<1>6. /\ QP!IInv' /\ WindowKept
      /\ \/ /\ QP!Hidden' = QP!Hidden /\ QP!Pushed' = QP!Pushed
            /\ UNCHANGED <<rem, pc>>
         \/ /\ QP!Hidden' = QP!Hidden \cup {v} /\ QP!Pushed' = QP!Pushed \cup {v}
            /\ rem' = [rem EXCEPT ![t] = @ \ {v}] /\ pc' = [pc EXCEPT ![t] = "scan"]
  <2>1. v \in Node /\ v \notin QP!Pushed /\ PushBack(t, v, "scan")
    BY <1>2, <1>4, <1>5
  <2> QED BY <2>1, PushBackEffect
<1>7. /\ \A k : Level(k)' = Level(k)
      /\ Woken(d)' = Woken(d) /\ Visited' = Visited
      /\ u'[t] = u[t] /\ todo'[t] = todo[t] /\ g' = g
      /\ Q!WindowSlots' = Q!WindowSlots
      /\ \A i \in todo[t] : shared'[i] = shared[i]
  <2>1. \A k : Level(k)' = Level(k)
    BY <1>2, SameLevels DEF serial, args
  <2>2. Visited' = Visited
    BY <1>2, SameVisited
  <2>3. \A i \in todo[t] : shared'[i] = shared[i]
    BY <1>3, <1>6 DEF TDThreadOK, WindowKept
  <2> QED BY <1>2, <1>6, <2>1, <2>2, <2>3 DEF serial, args, WindowKept, Woken
<1>8. out_neigh(g', u'[t]) = out_neigh(g, u[t])
  BY <1>7
<1>9. CASE /\ QP!Hidden' = QP!Hidden /\ QP!Pushed' = QP!Pushed
           /\ UNCHANGED <<rem, pc>>
  <2>1. TypeOK'
    BY <1>2, <1>3, <1>9 DEF TypeOK, serial, args, counts
  <2>2. TDThreadOK(d, t)'
    <3>1. FlushOK(t)'
      BY <1>2, <1>9 DEF FlushOK
    <3> QED BY <1>2, <1>3, <1>7, <1>8, <1>9, <3>1 DEF TDThreadOK
  <2>3. \A x : Pushing(t, x)' <=> Pushing(t, x)
    BY <1>9 DEF Pushing
  <2>4. \A x, y : HasEdge(t, x, y) => HasEdge(t, x, y)'
    BY <1>7, <1>9 DEF HasEdge
  <2> QED BY <1>1, <1>2, <1>6, <1>9, <2>1, <2>2, <2>3, <2>4, TDKeeps
<1>10. CASE /\ QP!Hidden' = QP!Hidden \cup {v} /\ QP!Pushed' = QP!Pushed \cup {v}
            /\ rem' = [rem EXCEPT ![t] = @ \ {v}] /\ pc' = [pc EXCEPT ![t] = "scan"]
  <2>1. rem'[t] = rem[t] \ {v} /\ pc'[t] = "scan"
    BY <1>10, Registers
  <2>2. TypeOK'
    BY <1>2, <1>3, <1>10 DEF TypeOK, serial, args, counts
  <2>3. TDThreadOK(d, t)'
    <3>1. FlushOK(t)'
      BY <2>1 DEF FlushOK
    <3> QED BY <1>2, <1>3, <1>7, <1>8, <2>1, <3>1 DEF TDThreadOK
  <2>4. \A x, y : y \notin Visited /\ HasEdge(t, x, y) => HasEdge(t, x, y)'
    BY <1>2, <1>5, <1>7, <2>1 DEF HasEdge, Woken
  <2> QED BY <1>1, <1>2, <1>4, <1>5, <1>6, <1>10, <2>1, <2>2, <2>3, <2>4, TDKeeps
<1> QED BY <1>6, <1>9, <1>10

\* A thread whose share is done goes on to its flush, and from there to the
\* barrier, whatever the others still do.
LEMMA TDLeaveKeeps ==
    ASSUME Base, NEW d \in Nat, PhaseOK(d), NEW t \in Thread, phase = "TDStep",
           LeaveLoop(t) \/ Flush(t)
    PROVE  Base' /\ PhaseOK(d)'
<1>1. StepOf(t)
  BY ThreadStepFrame DEF ThreadStep
<1>2. TypeOK /\ TDThreadOK(d, t)
  BY DEF Base, PhaseOK, TDStepOK
<1>3. UNCHANGED <<serial, parent, front, curr, reduced, todo, u, rem, curr_val, word>>
  BY DEF LeaveLoop, Flush
<1>4. TypeOK'
  BY <1>2, <1>3 DEF TypeOK, serial, args, counts
<1>5. \A k : Level(k)' = Level(k)
  BY <1>3, SameLevels DEF serial, args
<1>6. CASE LeaveLoop(t)
  <2>1. pc[t] = "next" /\ todo[t] = {} /\ pc'[t] = "flush" /\ UNCHANGED qvars
    BY <1>6, Registers DEF LeaveLoop, Goto
  <2>2. TDThreadOK(d, t)'
    BY <1>2, <1>3, <1>5, <2>1 DEF TDThreadOK, FlushOK
  <2>3. \A x, y : HasEdge(t, x, y) => HasEdge(t, x, y)'
    BY <2>1 DEF HasEdge
  <2> QED BY <1>1, <1>3, <1>4, <2>1, <2>2, <2>3, TDQuiet
<1>7. CASE Flush(t)
  <2>1. /\ QP!IInv' /\ WindowKept
        /\ QP!Hidden' = QP!Hidden /\ QP!Pushed' = QP!Pushed
        /\ pc[t] = "flush"
        /\ \/ pc'[t] = "flush"
           \/ pc'[t] = "end" /\ local_queue'[t] = << >> /\ ~Q!Copying(t)'
    BY <1>7, LastFlushEffect
  <2>2. todo[t] = {} /\ todo'[t] = {}
    BY <1>2, <1>3, <2>1 DEF TDThreadOK, FlushOK
  <2>3. TDThreadOK(d, t)'
    BY <2>1, <2>2 DEF TDThreadOK, FlushOK
  <2>4. \A x, y : HasEdge(t, x, y) => HasEdge(t, x, y)'
    BY <2>1, <2>2 DEF HasEdge
  <2>5. \A x : Pushing(t, x)' <=> Pushing(t, x)
    BY <2>1 DEF Pushing
  <2> QED BY <1>1, <1>3, <1>4, <2>1, <2>3, <2>4, <2>5, TDKeeps
<1> QED BY <1>6, <1>7

-----------------------------------------------------------------------------
\* BitmapToQueue.

\* In BitmapToQueue, the invariant of the phase is all that there is to
\* show.
LEMMA B2QFrame ==
    ASSUME NEW d, phase = "BitmapToQueue", phase' = phase, LevelOK(d)', BitmapToQueueOK(d)'
    PROVE  PhaseOK(d)'
BY DEF PhaseOK, SerialOK, QueueToBitmapOK, TDStepOK, BUStepOK

\* Another thread's share and buffer are its own.
LEMMA B2QOthers ==
    ASSUME NEW d, NEW t \in Thread, StepOf(t),
           NEW s \in Thread, s # t, B2QThreadOK(d, s),
           Unqueued(s) \cap QP!Pushed' = {}
    PROVE  B2QThreadOK(d, s)' /\ Unqueued(s)' = Unqueued(s)
<1>1. \A k : Level(k)' = Level(k)
  BY SameLevels DEF StepOf, serial, args
<1>2. /\ todo'[s] = todo[s] /\ pc'[s] = pc[s] /\ rem'[s] = rem[s]
      /\ local_queue'[s] = local_queue[s] /\ copy_start'[s] = copy_start[s]
  BY DEF StepOf
<1>3. Unqueued(s)' = Unqueued(s)
  BY <1>2 DEF Unqueued
<1>4. FlushOK(s)'
  BY <1>2 DEF B2QThreadOK, FlushOK, Q!Copying
<1> QED BY <1>1, <1>2, <1>3, <1>4 DEF B2QThreadOK

\* The parts of the invariant a step of the region has to keep: either nothing
\* moves, or one vertex goes from the thread's share into the queue.
LEMMA B2QKeeps ==
    ASSUME Base, NEW d \in Nat, PhaseOK(d), NEW t \in Thread, phase = "BitmapToQueue",
           StepOf(t), UNCHANGED <<parent, front>>, TypeOK', QP!IInv', WindowKept,
           \/ /\ QP!Hidden' = QP!Hidden /\ QP!Pushed' = QP!Pushed
              /\ Unqueued(t)' = Unqueued(t)
           \/ \E e \in Unqueued(t) :
                 /\ QP!Hidden' = QP!Hidden \cup {e} /\ QP!Pushed' = QP!Pushed \cup {e}
                 /\ Unqueued(t)' = Unqueued(t) \ {e},
           B2QThreadOK(d, t)'
    PROVE  Base' /\ PhaseOK(d)'
<1>1. /\ LevelOK(d) /\ BitmapToQueueOK(d) /\ DepthOK
      /\ UNCHANGED <<args, g, depth, phase>>
  BY DEF PhaseOK, Base, StepOf, serial, args
<1>2. Base'
  BY <1>1, BaseKeeps DEF StepOf
<1>3. /\ \A k : Level(k)' = Level(k) /\ UpTo(k)' = UpTo(k)
      /\ Visited' = Visited /\ Visited = UpTo(d) /\ Level(d) \subseteq Visited
  BY <1>1, SameLevels, SameVisited, LevelFacts DEF LevelOK
<1>4. /\ QP!Window = {} /\ QP!Hidden \subseteq Level(d)
      /\ front = Level(d)
      /\ \A s \in Thread : B2QThreadOK(d, s)
      /\ \A r, s \in Thread : r # s => Unqueued(r) \cap Unqueued(s) = {}
      /\ \A v \in Level(d) \ QP!Hidden : \E s \in Thread : v \in Unqueued(s)
  BY <1>1 DEF BitmapToQueueOK
<1>5. PICK E : /\ E \subseteq Unqueued(t)
               /\ QP!Hidden' = QP!Hidden \cup E /\ QP!Pushed' = QP!Pushed \cup E
               /\ Unqueued(t)' = Unqueued(t) \ E
  <2>1. CASE /\ QP!Hidden' = QP!Hidden /\ QP!Pushed' = QP!Pushed
             /\ Unqueued(t)' = Unqueued(t)
    <3> WITNESS {}
    <3> QED BY <2>1
  <2>2. CASE \E e \in Unqueued(t) :
                /\ QP!Hidden' = QP!Hidden \cup {e} /\ QP!Pushed' = QP!Pushed \cup {e}
                /\ Unqueued(t)' = Unqueued(t) \ {e}
    <3>1. PICK e \in Unqueued(t) :
             /\ QP!Hidden' = QP!Hidden \cup {e} /\ QP!Pushed' = QP!Pushed \cup {e}
             /\ Unqueued(t)' = Unqueued(t) \ {e}
      BY <2>2
    <3> WITNESS {e}
    <3> QED BY <3>1
  <2> QED BY <2>1, <2>2
<1>6. E \subseteq Level(d)
  BY <1>4, <1>5 DEF B2QThreadOK
<1>7. LevelOK(d)'
  <2>1. StaleOK(d)'
    BY <1>1, <1>3 DEF LevelOK, StaleOK, out_neigh
  <2>2. QP!Pushed' \subseteq Visited'
    BY <1>1, <1>3, <1>5, <1>6 DEF LevelOK
  <2> QED BY <1>1, <1>3, <2>1, <2>2 DEF LevelOK
<1>8. ASSUME NEW s \in Thread, s # t
      PROVE  B2QThreadOK(d, s)' /\ Unqueued(s)' = Unqueued(s)
  <2>1. Unqueued(s) \cap QP!Pushed' = {}
    BY <1>4, <1>5, <1>8 DEF B2QThreadOK
  <2> QED BY <1>4, <1>8, <2>1, B2QOthers
<1>9. \A s \in Thread : Unqueued(s)' \subseteq Unqueued(s)
  BY <1>5, <1>8
<1>10. BitmapToQueueOK(d)'
  <2>1. QP!Window' = {} /\ QP!Hidden' \subseteq Level(d)' /\ front' = Level(d)'
    BY <1>3, <1>4, <1>5, <1>6 DEF WindowKept
  <2>2. \A s \in Thread : B2QThreadOK(d, s)'
    BY <1>8
  <2>3. \A r, s \in Thread : r # s => Unqueued(r)' \cap Unqueued(s)' = {}
    BY <1>4, <1>9
  <2>4. \A v \in Level(d)' \ QP!Hidden' : \E s \in Thread : v \in Unqueued(s)'
    BY <1>3, <1>4, <1>5, <1>8
  <2> QED BY <2>1, <2>2, <2>3, <2>4 DEF BitmapToQueueOK
<1> QED BY <1>1, <1>2, <1>7, <1>10, B2QFrame

\* A thread takes the next set bit of its share.
LEMMA B2QTakeKeeps ==
    ASSUME Base, NEW d \in Nat, PhaseOK(d), NEW t \in Thread, B2QTake(t)
    PROVE  Base' /\ PhaseOK(d)'
<1>1. StepOf(t)
  BY ThreadStepFrame DEF ThreadStep
<1>2. PICK n \in todo[t] : /\ todo' = [todo EXCEPT ![t] = @ \ {n}]
                           /\ rem' = [rem EXCEPT ![t] = {n}]
  BY DEF B2QTake
<1>3. /\ phase = "BitmapToQueue" /\ pc[t] = "next" /\ pc'[t] = "push"
      /\ todo'[t] = todo[t] \ {n} /\ rem'[t] = {n}
      /\ UNCHANGED <<serial, parent, front, curr, reduced, u, curr_val, word, qvars>>
  BY <1>2, Registers DEF B2QTake, AtNext, Goto
<1>4. TypeOK /\ B2QThreadOK(d, t)
  BY <1>3 DEF Base, PhaseOK, BitmapToQueueOK
<1>5. n \in Node
  BY <1>2, <1>4 DEF TypeOK
<1>6. TypeOK'
  BY <1>2, <1>3, <1>4, <1>5 DEF TypeOK, serial, args, counts
<1>7. /\ QP!IInv' /\ WindowKept /\ QP!Hidden' = QP!Hidden /\ QP!Pushed' = QP!Pushed
  BY <1>3, NoQueueEffect DEF Base
<1>8. Unqueued(t)' = Unqueued(t)
  BY <1>2, <1>3 DEF Unqueued
<1>9. \A k : Level(k)' = Level(k)
  BY <1>3, SameLevels DEF serial, args
<1>10. B2QThreadOK(d, t)'
  BY <1>3, <1>4, <1>5, <1>7, <1>8, <1>9 DEF B2QThreadOK, FlushOK
<1> QED BY <1>1, <1>3, <1>6, <1>7, <1>8, <1>10, B2QKeeps

\* It queues the vertex, perhaps after a flush.
LEMMA B2QPushKeeps ==
    ASSUME Base, NEW d \in Nat, PhaseOK(d), NEW t \in Thread, B2QPush(t)
    PROVE  Base' /\ PhaseOK(d)'
<1>1. StepOf(t)
  BY ThreadStepFrame DEF ThreadStep
<1> DEFINE v == Min(rem[t])
<1>2. /\ phase = "BitmapToQueue" /\ pc[t] = "push" /\ PushBack(t, v, "next")
      /\ UNCHANGED <<serial, parent, front, curr, reduced, todo, u, curr_val, word>>
  BY DEF B2QPush
<1>3. TypeOK /\ B2QThreadOK(d, t)
  BY <1>2 DEF Base, PhaseOK, BitmapToQueueOK
<1>4. PICK n \in Node : rem[t] = {n} /\ n \notin todo[t]
  BY <1>2, <1>3 DEF B2QThreadOK
<1>5. v = n
  <2>1. {n} \in SUBSET Nat /\ {n} # {}
    BY NodeNat
  <2>2. Min({n}) \in {n}
    BY <2>1, MinNode
  <2> QED BY <1>4, <2>2
<1> HIDE DEF v
<1>6. Unqueued(t) = todo[t] \cup {v} /\ v \in Node /\ v \notin QP!Pushed /\ v \notin todo[t]
      /\ rem[t] = {v}
  BY <1>2, <1>3, <1>4, <1>5 DEF Unqueued, B2QThreadOK
<1>7. /\ QP!IInv' /\ WindowKept
      /\ \/ /\ QP!Hidden' = QP!Hidden /\ QP!Pushed' = QP!Pushed
            /\ UNCHANGED <<rem, pc>>
         \/ /\ QP!Hidden' = QP!Hidden \cup {v} /\ QP!Pushed' = QP!Pushed \cup {v}
            /\ rem' = [rem EXCEPT ![t] = @ \ {v}] /\ pc' = [pc EXCEPT ![t] = "next"]
  BY <1>2, <1>6, PushBackEffect
<1>8. todo'[t] = todo[t] /\ \A k : Level(k)' = Level(k)
  BY <1>2, SameLevels DEF serial, args
<1>9. CASE /\ QP!Hidden' = QP!Hidden /\ QP!Pushed' = QP!Pushed
           /\ UNCHANGED <<rem, pc>>
  <2>1. TypeOK'
    BY <1>2, <1>3, <1>9 DEF TypeOK, serial, args, counts
  <2>2. Unqueued(t)' = Unqueued(t)
    BY <1>8, <1>9 DEF Unqueued
  <2>3. B2QThreadOK(d, t)'
    BY <1>2, <1>3, <1>8, <1>9, <2>2 DEF B2QThreadOK, FlushOK
  <2> QED BY <1>1, <1>2, <1>7, <1>9, <2>1, <2>2, <2>3, B2QKeeps
<1>10. CASE /\ QP!Hidden' = QP!Hidden \cup {v} /\ QP!Pushed' = QP!Pushed \cup {v}
            /\ rem' = [rem EXCEPT ![t] = @ \ {v}] /\ pc' = [pc EXCEPT ![t] = "next"]
  <2>1. rem'[t] = rem[t] \ {v} /\ pc'[t] = "next"
    BY <1>10, Registers
  <2>2. TypeOK'
    BY <1>2, <1>3, <1>10 DEF TypeOK, serial, args, counts
  <2>3. Unqueued(t)' = Unqueued(t) \ {v} /\ v \in Unqueued(t) /\ Unqueued(t)' = todo[t]
    BY <1>6, <1>8, <2>1 DEF Unqueued
  <2>4. B2QThreadOK(d, t)'
    BY <1>3, <1>6, <1>8, <1>10, <2>1, <2>3 DEF B2QThreadOK, FlushOK
  <2> QED BY <1>1, <1>2, <1>7, <1>10, <2>2, <2>3, <2>4, B2QKeeps
<1> QED BY <1>7, <1>9, <1>10

\* The end of its share and its flush.
LEMMA B2QLeaveKeeps ==
    ASSUME Base, NEW d \in Nat, PhaseOK(d), NEW t \in Thread, phase = "BitmapToQueue",
           LeaveLoop(t) \/ Flush(t)
    PROVE  Base' /\ PhaseOK(d)'
<1>1. StepOf(t)
  BY ThreadStepFrame DEF ThreadStep
<1>2. TypeOK /\ B2QThreadOK(d, t)
  BY DEF Base, PhaseOK, BitmapToQueueOK
<1>3. UNCHANGED <<serial, parent, front, curr, reduced, todo, u, rem, curr_val, word>>
  BY DEF LeaveLoop, Flush
<1>4. TypeOK'
  BY <1>2, <1>3 DEF TypeOK, serial, args, counts
<1>5. \A k : Level(k)' = Level(k)
  BY <1>3, SameLevels DEF serial, args
<1>6. /\ QP!IInv' /\ WindowKept
      /\ QP!Hidden' = QP!Hidden /\ QP!Pushed' = QP!Pushed
      /\ todo[t] = {} /\ todo'[t] = {} /\ pc[t] \in {"next", "flush"}
      /\ \/ pc'[t] = "flush"
         \/ pc'[t] = "end" /\ local_queue'[t] = << >> /\ ~Q!Copying(t)'
  <2>1. CASE LeaveLoop(t)
    <3>1. pc[t] = "next" /\ todo[t] = {} /\ pc'[t] = "flush" /\ UNCHANGED qvars
      BY <2>1, Registers DEF LeaveLoop, Goto
    <3> QED BY <1>3, <3>1, NoQueueEffect DEF Base
  <2>2. CASE Flush(t)
    <3>1. /\ QP!IInv' /\ WindowKept
          /\ QP!Hidden' = QP!Hidden /\ QP!Pushed' = QP!Pushed
          /\ pc[t] = "flush"
          /\ \/ pc'[t] = "flush"
             \/ pc'[t] = "end" /\ local_queue'[t] = << >> /\ ~Q!Copying(t)'
      BY <2>2, LastFlushEffect
    <3> QED BY <1>2, <1>3, <3>1 DEF B2QThreadOK, FlushOK
  <2> QED BY <2>1, <2>2
<1>7. Unqueued(t) = {} /\ Unqueued(t)' = {}
  BY <1>6 DEF Unqueued
<1>8. B2QThreadOK(d, t)'
  BY <1>6, <1>7 DEF B2QThreadOK, FlushOK
<1> QED BY <1>1, <1>3, <1>4, <1>6, <1>7, <1>8, B2QKeeps

-----------------------------------------------------------------------------
\* The serial code before the first level.

\* The encoding marks every vertex but the source as unvisited.
LEMMA InitEncoding ==
    ASSUME g \in Graphs, source \in Node,
           parent = [InitParent(g) EXCEPT ![source] = source]
    PROVE  /\ parent \in [Node -> -NumNodes .. (NumNodes - 1)]
           /\ Visited = {source} /\ parent[source] = source
<1>1. \A n \in Node : out_degree(g, n) \in 0 .. NumNodes
  BY GraphsAssumption, DegreeBounds
<1>2. InitParent(g) \in [Node -> -NumNodes .. -1]
  <2>1. \A n \in Node : (IF out_degree(g, n) # 0 THEN -out_degree(g, n) ELSE -1)
                           \in -NumNodes .. -1
    BY <1>1, NumNodesAssumption
  <2> QED BY <2>1 DEF InitParent
<1>3. /\ parent[source] = source
      /\ \A n \in Node \ {source} : parent[n] = InitParent(g)[n]
      /\ DOMAIN parent = Node
  BY <1>2
<1>4. \A n \in Node \ {source} : parent[n] \in -NumNodes .. -1
  BY <1>2, <1>3
<1>5. source \in 0 .. (NumNodes - 1)
  BY DEF Node
<1>6. \A n \in Node : parent[n] \in -NumNodes .. (NumNodes - 1)
  BY <1>3, <1>4, <1>5, NumNodesAssumption
<1>7. parent \in [Node -> -NumNodes .. (NumNodes - 1)]
  BY <1>2, <1>6
<1>8. Visited = {source}
  <2>1. \A n \in Node \ {source} : ~(parent[n] >= 0)
    BY <1>4, NumNodesAssumption
  <2>2. parent[source] >= 0
    BY <1>3, <1>5, NumNodesAssumption
  <2> QED BY <2>1, <2>2 DEF Visited
<1> QED BY <1>3, <1>7, <1>8

\* Every initial state satisfies the inductive invariant.
LEMMA InitIInv == Init => IInv
<1> SUFFICES ASSUME Init PROVE IInv
  OBVIOUS
<1>1. DepthOK
  BY InitDepth DEF Init
<1>2. /\ parent \in [Node -> -NumNodes .. (NumNodes - 1)]
      /\ Visited = {source} /\ parent[source] = source
  BY InitEncoding DEF Init
<1>3. QP!IInv /\ QP!Window = {} /\ QP!Hidden = {} /\ QP!Pushed = {}
  <2>1. QP!QInit
    BY SameQueue DEF Init
  <2> QED BY <2>1, QueueAssumptions, QP!InitIInv, QP!InitIsEmpty
<1>4. TypeOK
  <2>1. num_edges_directed(g) \in Nat /\ out_degree(g, source) \in Nat
    BY GraphsAssumption, DegreeBounds, NumNodesAssumption DEF Init
  <2>2. /\ todo \in [Thread -> SUBSET Node] /\ u \in [Thread -> Node]
        /\ rem \in [Thread -> SUBSET Node] /\ curr_val \in [Thread -> -NumNodes .. Idle]
        /\ word \in [Thread -> SUBSET Node]
    BY NodeNat, NumNodesAssumption DEF Init, Idle
  <2> QED BY <1>1, <1>2, <2>1, <2>2 DEF Init, TypeOK, DepthOK
<1>5. Base
  <2>1. DOMAIN pc = Thread
    BY DEF Init
  <2> QED BY <1>1, <1>2, <1>3, <1>4, <2>1 DEF Base, TreeOK
<1>6. phase = "push_back(source)" /\ AtRest
  BY DEF Init, AtRest, AtBarrier, Q!QInit, Q!Quiescent, Q!Copying
<1>7. LevelOK(0)
  <2>1. UpTo(0) = {source} /\ UpTo(0) \subseteq UpTo(0 + 1)
    BY <1>1, FirstLevel, LevelFacts DEF Init
  <2>2. front = {}
    BY DEF Init
  <2> QED BY <1>2, <1>3, <1>6, <2>1, <2>2 DEF LevelOK, StaleOK
<1>8. PhaseOK(0)
  BY <1>3, <1>6, <1>7 DEF PhaseOK, SerialOK, QueueToBitmapOK, BUStepOK, BitmapToQueueOK, TDStepOK
<1> QED BY <1>5, <1>8, NumNodesAssumption DEF IInv

\* In the serial phases the registers of the threads say nothing.
LEMMA SerialFrame ==
    ASSUME NEW d, phase' \in {"slide_window", "while", "done"}, LevelOK(d)', SerialOK(d)'
    PROVE  PhaseOK(d)'
BY DEF PhaseOK, QueueToBitmapOK, BUStepOK, BitmapToQueueOK, TDStepOK

\* Line 134.
LEMMA PushSourceKeeps ==
    ASSUME Base, NEW d \in Nat, PhaseOK(d), PushSource
    PROVE  Base' /\ PhaseOK(d)'
<1>1. /\ phase = "push_back(source)" /\ phase' = "slide_window" /\ Q!SerialPush(source)
      /\ UNCHANGED <<args, parent, front, curr, counts, reduced, threads>>
  BY DEF PushSource
<1>2. /\ d = 0 /\ Q!Quiescent /\ AtBarrier
      /\ QP!Window = {} /\ QP!Hidden = {} /\ QP!Pushed = {}
      /\ LevelOK(d)
  BY <1>1 DEF PhaseOK, SerialOK, AtRest
<1>3. source \in Node /\ DepthOK /\ TypeOK /\ QP!IInv /\ DOMAIN pc = Thread
  BY DEF Base, TypeOK
<1>4. /\ QP!IInv' /\ Q!Quiescent'
      /\ QP!Window' = {} /\ QP!Hidden' = {source} /\ QP!Pushed' = {source}
  BY <1>1, <1>2, <1>3, SerialPushEffect
<1>5. /\ \A k : Level(k)' = Level(k) /\ UpTo(k)' = UpTo(k)
      /\ Visited' = Visited /\ UNCHANGED <<g, front, source>> /\ pc' = pc
  BY <1>1, SameLevels, SameVisited DEF args, threads
<1>6. Base'
  <2>1. TypeOK'
    BY <1>1, <1>3 DEF TypeOK, args, counts, threads
  <2> QED BY <1>1, <1>3, <1>4, <1>5, <2>1, BaseKeeps DEF args
<1>7. LevelOK(d)'
  <2>1. StaleOK(d)'
    BY <1>2, <1>5 DEF LevelOK, StaleOK, out_neigh
  <2>2. UpTo(d) = {source}
    BY <1>2, <1>3, FirstLevel
  <2> QED BY <1>1, <1>2, <1>4, <1>5, <2>1, <2>2 DEF LevelOK
<1>8. SerialOK(d)'
  BY <1>1, <1>2, <1>4, <1>5 DEF SerialOK, AtRest, AtBarrier
<1> QED BY <1>1, <1>6, <1>7, <1>8, SerialFrame

\* A slide that only uncovers what was hidden, the level d.
LEMMA SlideToWhile ==
    ASSUME Base, NEW d \in Nat, LevelOK(d), NEW e \in Nat, LevelOK(e)', TypeOK',
           Q!Quiescent, AtBarrier, QP!Hidden = Level(e),
           Q!slide_window, phase' = "while", UNCHANGED <<args, parent, pc>>
    PROVE  Base' /\ PhaseOK(e)'
<1>1. /\ QP!IInv' /\ Q!Quiescent'
      /\ QP!Window' = QP!Hidden /\ QP!Hidden' = {}
  BY SlideEffect DEF Base
<1>2. Base'
  BY <1>1, BaseKeeps DEF Base
<1>3. \A k : Level(k)' = Level(k)
  BY SameLevels DEF args
<1>4. SerialOK(e)'
  BY <1>1, <1>3 DEF SerialOK, AtRest, AtBarrier
<1> QED BY <1>2, <1>4, SerialFrame

\* Line 135.
LEMMA SlideSourceKeeps ==
    ASSUME Base, NEW d \in Nat, PhaseOK(d), SlideSource
    PROVE  Base' /\ PhaseOK(d)'
<1>1. /\ phase = "slide_window" /\ phase' = "while" /\ Q!slide_window
      /\ UNCHANGED <<args, parent, front, curr, counts, reduced, threads>>
  BY DEF SlideSource
<1>2. d = 0 /\ Q!Quiescent /\ AtBarrier /\ QP!Hidden = {source} /\ LevelOK(d)
  BY <1>1 DEF PhaseOK, SerialOK, AtRest
<1>3. QP!Hidden = Level(d)
  BY <1>2, FirstLevel DEF Base, TypeOK
<1>4. TypeOK'
  BY <1>1 DEF Base, TypeOK, args, counts, threads
<1>5. QP!Pushed' = QP!Pushed
  BY <1>1, <1>2, SlideEffect DEF Base
<1>6. LevelOK(d)'
  <2>1. /\ \A k : Level(k)' = Level(k) /\ UpTo(k)' = UpTo(k)
        /\ Visited' = Visited /\ UNCHANGED <<g, front>>
    BY <1>1, SameLevels, SameVisited DEF args
  <2>2. StaleOK(d)'
    BY <1>2, <2>1 DEF LevelOK, StaleOK, out_neigh
  <2> QED BY <1>1, <1>2, <1>5, <2>1, <2>2 DEF LevelOK
<1> QED BY <1>1, <1>2, <1>3, <1>4, <1>6, SlideToWhile DEF threads

-----------------------------------------------------------------------------
\* The master opens a region.

\* What every region starts with.
LEMMA ForkEffect ==
    ASSUME TypeOK, NEW region, NEW I, I \subseteq Node, NEW s, Divides(s, I), Fork(region, s)
    PROVE  /\ phase' = region /\ reduced' = 0 /\ todo' = s /\ DOMAIN pc' = Thread
           /\ \A t \in Thread : pc'[t] = "next" /\ todo'[t] \subseteq I
           /\ \A i \in I : \E t \in Thread : i \in todo'[t]
           /\ \A r, t \in Thread : r # t => todo'[r] \cap todo'[t] = {}
           /\ todo' \in [Thread -> SUBSET Node]
           /\ UNCHANGED <<u, rem, curr_val, word>>
<1>1. /\ phase' = region /\ reduced' = 0 /\ todo' = s /\ pc' = [t \in Thread |-> "next"]
      /\ UNCHANGED <<u, rem, curr_val, word>>
  BY DEF Fork
<1>2. s \in [Thread -> SUBSET Node]
  BY DEF Divides
<1> QED BY <1>1, <1>2 DEF Divides

\* The level goes from one phase to the next.
LEMMA LevelMoves ==
    ASSUME NEW d \in Nat, NEW e \in Nat, DepthOK, LevelOK(d),
           UNCHANGED <<g, depth, parent>>, QP!Pushed' = QP!Pushed,
           Visited = UpTo(e),
           phase' \in {"QueueToBitmap", "BUStep", "TDStep"} => Level(e) # {},
           StaleOK(e)'
    PROVE  LevelOK(e)' /\ Visited' = UpTo(e)' /\ Woken(e)' = {}
<1>1. Visited' = Visited /\ \A k : Level(k)' = Level(k) /\ UpTo(k)' = UpTo(k)
  BY SameVisited, SameLevels
<1>2. UpTo(e) \subseteq UpTo(e + 1) /\ UpTo(e) \cap Level(e + 1) = {}
  BY LevelFacts
<1> QED BY <1>1, <1>2 DEF LevelOK, Woken

\* Line 143, bottom-up.
LEMMA StartBottomUpKeeps ==
    ASSUME Base, NEW d \in Nat, PhaseOK(d), StartBottomUp
    PROVE  Base' /\ PhaseOK(d)'
<1>1. PICK s \in Schedules(Q!WindowSlots) : Fork("QueueToBitmap", s)
  BY DEF StartBottomUp
<1>2. phase = "while" /\ ~Q!empty /\ UNCHANGED <<args, parent, front, curr, counts, qvars>>
  BY DEF StartBottomUp
<1>3. TypeOK /\ DepthOK /\ QP!IInv
  BY DEF Base
<1>4. /\ LevelOK(d) /\ Visited = UpTo(d)
      /\ Q!Quiescent /\ QP!Window = Level(d) /\ QP!Hidden = {}
  BY <1>2 DEF PhaseOK, LevelOK, SerialOK, AtRest
<1>5. /\ Level(d) # {} /\ Q!WindowSlots \subseteq Node
      /\ \A v \in Level(d) : \E i \in Q!WindowSlots : shared[i] = v
  BY <1>2, <1>3, <1>4, QueueReads
<1>6. /\ QP!IInv' /\ WindowKept /\ QP!Hidden' = QP!Hidden /\ QP!Pushed' = QP!Pushed
      /\ Q!Quiescent' <=> Q!Quiescent
  BY <1>2, <1>3, NoQueueEffect
<1>7. /\ phase' = "QueueToBitmap" /\ reduced' = 0 /\ DOMAIN pc' = Thread
      /\ \A t \in Thread : pc'[t] = "next" /\ todo'[t] \subseteq Q!WindowSlots
      /\ \A i \in Q!WindowSlots : \E t \in Thread : i \in todo'[t]
      /\ todo' \in [Thread -> SUBSET Node]
      /\ UNCHANGED <<u, rem, curr_val, word>>
  <2>1. Divides(s, Q!WindowSlots)
    BY <1>1, ScheduleDivides
  <2> QED BY <1>1, <1>3, <1>5, <2>1, ForkEffect
<1>8. Base'
  <2>1. TypeOK'
    BY <1>2, <1>3, <1>7 DEF TypeOK, args, counts
  <2> QED BY <1>2, <1>6, <1>7, <2>1, BaseKeeps
<1>9. /\ \A k : Level(k)' = Level(k)
      /\ UNCHANGED <<g, front, depth>> /\ Visited' = Visited
  BY <1>2, SameLevels, SameVisited DEF args
<1>10. LevelOK(d)'
  <2>1. StaleOK(d)'
    BY <1>4, <1>9 DEF LevelOK, StaleOK, out_neigh
  <2> QED BY <1>2, <1>3, <1>4, <1>5, <1>6, <1>9, <2>1, LevelMoves
<1>11. QueueToBitmapOK(d)'
  <2>1. \A t \in Thread : Q2BThreadOK(d, t)'
    BY <1>6, <1>7 DEF Q2BThreadOK, WindowKept
  <2>2. \A v \in Level(d)' \ front' : \E t \in Thread : HasVertex(t, v)'
    <3> SUFFICES ASSUME NEW v \in Level(d) PROVE \E t \in Thread : HasVertex(t, v)'
      BY <1>9
    <3>1. PICK i \in Q!WindowSlots : shared[i] = v
      BY <1>5
    <3>2. PICK t \in Thread : i \in todo'[t]
      BY <1>7
    <3>3. shared'[i] = v
      BY <1>6, <3>1 DEF WindowKept
    <3> QED BY <3>2, <3>3 DEF HasVertex
  <2> QED BY <1>4, <1>6, <1>9, <2>1, <2>2 DEF QueueToBitmapOK, WindowKept
<1>12. PhaseOK(d)'
  BY <1>7, <1>10, <1>11 DEF PhaseOK, SerialOK, BUStepOK, BitmapToQueueOK, TDStepOK
<1> QED BY <1>8, <1>12

\* Line 143, top-down: the budget of edges cannot be overdrawn, since the
\* frontier's edge count is no more than its quotient by alpha.
LEMMA StartTopDownKeeps ==
    ASSUME Base, NEW d \in Nat, PhaseOK(d), StartTopDown
    PROVE  Base' /\ PhaseOK(d)'
<1>1. PICK s \in Schedules(Q!WindowSlots) : Fork("TDStep", s)
  BY DEF StartTopDown
<1>2. /\ phase = "while" /\ ~Q!empty /\ ~GoBottomUp
      /\ edges_to_check' = edges_to_check - scout_count
      /\ UNCHANGED <<args, parent, front, curr, scout_count, awake_count, old_awake_count, qvars>>
  BY DEF StartTopDown
<1>3. TypeOK /\ DepthOK /\ QP!IInv
  BY DEF Base
<1>4. /\ LevelOK(d) /\ Visited = UpTo(d)
      /\ Q!Quiescent /\ QP!Window = Level(d) /\ QP!Hidden = {}
  BY <1>2 DEF PhaseOK, LevelOK, SerialOK, AtRest
<1>5. /\ Level(d) # {} /\ Q!WindowSlots \subseteq Node
      /\ \A v \in Level(d) : \E i \in Q!WindowSlots : shared[i] = v
  BY <1>2, <1>3, <1>4, QueueReads
<1>6. /\ QP!IInv' /\ WindowKept /\ QP!Hidden' = QP!Hidden /\ QP!Pushed' = QP!Pushed
  BY <1>2, <1>3, NoQueueEffect
<1>7. /\ phase' = "TDStep" /\ reduced' = 0 /\ DOMAIN pc' = Thread
      /\ \A t \in Thread : pc'[t] = "next" /\ todo'[t] \subseteq Q!WindowSlots
      /\ \A i \in Q!WindowSlots : \E t \in Thread : i \in todo'[t]
      /\ todo' \in [Thread -> SUBSET Node]
      /\ UNCHANGED <<u, rem, curr_val, word>>
  <2>1. Divides(s, Q!WindowSlots)
    BY <1>1, ScheduleDivides
  <2> QED BY <1>1, <1>3, <1>5, <2>1, ForkEffect
<1>8. edges_to_check' \in Nat
  <2>1. edges_to_check \in Nat /\ scout_count \in Nat /\ alpha \in Nat \ {0}
    BY <1>3, AlphaBetaAssumption DEF TypeOK
  <2>2. edges_to_check \div alpha <= edges_to_check
    <3> DEFINE q == edges_to_check \div alpha
    <3>1. q \in Nat /\ alpha * q <= edges_to_check
      BY <2>1
    <3> HIDE DEF q
    <3>2. alpha * q = q + (alpha - 1) * q /\ (alpha - 1) * q \in Nat
      BY <2>1, <3>1
    <3>3. q <= edges_to_check
      BY <2>1, <3>1, <3>2
    <3> QED BY <3>3 DEF q
  <2>3. scout_count <= edges_to_check \div alpha
    <3>1. edges_to_check \div alpha \in Nat
      BY <2>1
    <3> QED BY <1>2, <2>1, <3>1 DEF GoBottomUp
  <2>4. scout_count <= edges_to_check
    <3>1. edges_to_check \div alpha \in Nat
      BY <2>1
    <3> QED BY <2>1, <2>2, <2>3, <3>1
  <2> QED BY <1>2, <2>1, <2>4
<1>9. Base'
  <2>1. TypeOK'
    BY <1>2, <1>3, <1>7, <1>8 DEF TypeOK, args
  <2> QED BY <1>2, <1>6, <1>7, <2>1, BaseKeeps
<1>10. /\ \A k : Level(k)' = Level(k)
       /\ UNCHANGED <<g, front, depth>> /\ Visited' = Visited
  BY <1>2, SameLevels, SameVisited DEF args
<1>11. LevelOK(d)' /\ Woken(d)' = {}
  <2>1. StaleOK(d)'
    BY <1>4, <1>10 DEF LevelOK, StaleOK, out_neigh
  <2> QED BY <1>2, <1>3, <1>4, <1>5, <1>6, <1>10, <2>1, LevelMoves
<1>12. TDStepOK(d)'
  <2>1. \A t \in Thread : TDThreadOK(d, t)'
    BY <1>6, <1>7 DEF TDThreadOK, FlushOK, WindowKept
  <2>2. PushersApart' /\ ClaimsKept(d)'
    <3>1. \A t \in Thread : \A v : Pushing(t, v)' = FALSE
      BY <1>7 DEF Pushing
    <3> QED BY <1>11, <3>1 DEF PushersApart, ClaimsKept
  <2>3. EdgesLeft(d)'
    <3> SUFFICES ASSUME NEW x \in Level(d)', NEW y \in (out_neigh(g, x) \ Visited)'
                 PROVE  \E t \in Thread : HasEdge(t, x, y)'
      BY DEF EdgesLeft
    <3>1. PICK i \in Q!WindowSlots : shared[i] = x
      BY <1>5, <1>10
    <3>2. PICK t \in Thread : i \in todo'[t]
      BY <1>7
    <3>3. shared'[i] = x
      BY <1>6, <3>1 DEF WindowKept
    <3> QED BY <3>2, <3>3 DEF HasEdge
  <2>4. QP!Window' = Level(d)' /\ QP!Hidden' = {}
    BY <1>4, <1>6, <1>10 DEF WindowKept
  <2> QED BY <2>1, <2>2, <2>3, <2>4 DEF TDStepOK
<1>13. PhaseOK(d)'
  BY <1>7, <1>11, <1>12 DEF PhaseOK, SerialOK, BUStepOK, BitmapToQueueOK, QueueToBitmapOK
<1> QED BY <1>9, <1>13

-----------------------------------------------------------------------------
\* The master closes a region.

\* What every bottom-up step starts with.
LEMMA BUStarts ==
    ASSUME NEW e \in Nat, TypeOK,
           NEW s \in ChunkSchedules(Node, [n \in Node |-> ChunkOf(n)]), Fork("BUStep", s),
           Q!Quiescent', QP!Window' = {}, QP!Hidden' = {}, QP!Pushed' \subseteq UpTo(e)',
           Level(e)' \subseteq front', old_awake_count' >= 1, curr' = {}, Woken(e)' = {},
           LevelOK(e)'
    PROVE  PhaseOK(e)' /\ todo' \in [Thread -> SUBSET Node] /\ DOMAIN pc' = Thread
           /\ reduced' = 0 /\ UNCHANGED <<u, rem, curr_val, word>>
<1>1. /\ phase' = "BUStep" /\ reduced' = 0 /\ todo' = s /\ DOMAIN pc' = Thread
      /\ \A t \in Thread : pc'[t] = "next"
      /\ \A n \in Node : \E t \in Thread : n \in todo'[t]
      /\ todo' \in [Thread -> SUBSET Node]
      /\ UNCHANGED <<u, rem, curr_val, word>>
  <2>1. Divides(s, Node)
    BY ChunkScheduleDivides
  <2> QED BY <2>1, ForkEffect
<1>2. \A t \in Thread : Mine(t)' = todo'[t]
  BY <1>1 DEF Mine
<1>3. ChunksApart'
  <2> SUFFICES ASSUME NEW r \in Thread, NEW t \in Thread, r # t,
                      NEW x \in todo'[r], NEW y \in todo'[t]
               PROVE  ChunkOf(x) # ChunkOf(y)
    BY <1>2 DEF ChunksApart
  <2> DEFINE chunk == [n \in Node |-> ChunkOf(n)]
  <2>1. x \in Node /\ y \in Node
    BY <1>1
  <2>2. s \in ChunkSchedules(Node, chunk) /\ x \in s[r] /\ y \in s[t]
    BY <1>1
  <2>3. chunk[x] = ChunkOf(x) /\ chunk[y] = ChunkOf(y)
    BY <2>1
  <2> HIDE DEF chunk
  <2>4. chunk[x] # chunk[y]
    BY <2>2, ChunksAreApart
  <2> QED BY <2>3, <2>4
<1>4. \A t \in Thread : BUThreadOK(e, t)'
  BY <1>1 DEF BUThreadOK
<1>5. \A v \in Level(e + 1)' \ curr' : \E t \in Thread : v \in Mine(t)'
  BY <1>1, <1>2 DEF Level
<1>6. reduced' = Cardinality(Woken(e)')
  BY <1>1, FS_EmptySet
<1>7. BUStepOK(e)'
  BY <1>3, <1>4, <1>5, <1>6 DEF BUStepOK
<1>8. PhaseOK(e)'
  BY <1>1, <1>7 DEF PhaseOK, SerialOK, QueueToBitmapOK, BitmapToQueueOK, TDStepOK
<1> QED BY <1>1, <1>8

\* Lines 148-151: behind the barrier the whole level is in the bitmap.
LEMMA EndQueueToBitmapKeeps ==
    ASSUME Base, NEW d \in Nat, PhaseOK(d), EndQueueToBitmap
    PROVE  Base' /\ PhaseOK(d)'
<1>1. PICK s \in ChunkSchedules(Node, [n \in Node |-> ChunkOf(n)]) : Fork("BUStep", s)
  BY DEF EndQueueToBitmap
<1>2. /\ phase = "QueueToBitmap" /\ AtBarrier /\ Q!slide_window /\ curr' = {}
      /\ awake_count' = Q!size /\ old_awake_count' = Q!size
      /\ UNCHANGED <<args, parent, front, edges_to_check, scout_count>>
  BY DEF EndQueueToBitmap
<1>3. TypeOK /\ DepthOK /\ QP!IInv
  BY DEF Base
<1>4. /\ LevelOK(d) /\ Visited = UpTo(d) /\ Level(d) # {} /\ QP!Pushed \subseteq Visited
      /\ Q!Quiescent /\ QP!Window = Level(d) /\ QP!Hidden = {}
      /\ \A t \in Thread : Q2BThreadOK(d, t)
      /\ \A v \in Level(d) \ front : \E t \in Thread : HasVertex(t, v)
  BY <1>2 DEF PhaseOK, LevelOK, QueueToBitmapOK
<1>5. Level(d) \subseteq front
  BY <1>2, <1>4 DEF AtBarrier, Q2BThreadOK, HasVertex
<1>6. /\ QP!IInv' /\ Q!Quiescent'
      /\ QP!Window' = {} /\ QP!Hidden' = {} /\ QP!Pushed' = QP!Pushed
  BY <1>2, <1>3, <1>4, SlideEffect
<1>7. Q!size \in Nat /\ Q!size >= 1
  <2>1. Q!size \in Nat /\ Q!size = Cardinality(Level(d))
    BY <1>3, <1>4, QueueReads
  <2>2. IsFiniteSet(Level(d))
    BY NodeFinite, FS_Subset DEF Level
  <2>3. Cardinality(Level(d)) # 0
    BY <1>4, <2>2, FS_EmptySet
  <2> QED BY <2>1, <2>3
<1>8. /\ \A k : Level(k)' = Level(k) /\ UpTo(k)' = UpTo(k)
      /\ UNCHANGED <<g, front, depth>> /\ Visited' = Visited
  BY <1>2, SameLevels, SameVisited DEF args
<1>9. LevelOK(d)' /\ Woken(d)' = {}
  <2>1. StaleOK(d)'
    BY <1>4, <1>8 DEF LevelOK, StaleOK, out_neigh
  <2> QED BY <1>2, <1>3, <1>4, <1>6, <1>8, <2>1, LevelMoves
<1>10. /\ PhaseOK(d)' /\ todo' \in [Thread -> SUBSET Node] /\ DOMAIN pc' = Thread
       /\ reduced' = 0 /\ UNCHANGED <<u, rem, curr_val, word>>
  <2>1. QP!Pushed' \subseteq UpTo(d)' /\ Level(d)' \subseteq front' /\ old_awake_count' >= 1
    BY <1>2, <1>4, <1>5, <1>6, <1>7, <1>8
  <2> QED BY <1>1, <1>2, <1>3, <1>6, <1>9, <2>1, BUStarts
<1>11. Base'
  <2>1. TypeOK'
    BY <1>2, <1>3, <1>7, <1>10 DEF TypeOK, args
  <2> QED BY <1>2, <1>6, <1>10, <2>1, BaseKeeps
<1> QED BY <1>10, <1>11

\* Behind the barrier of a bottom-up step the next level is complete: every
\* vertex of it was found, and its bit is set.
LEMMA BUBarrier ==
    ASSUME Base, NEW d \in Nat, PhaseOK(d), phase = "BUStep", AtBarrier
    PROVE  /\ curr = Level(d + 1) /\ Visited = UpTo(d + 1)
           /\ reduced = Cardinality(curr)
<1>1. LevelOK(d) /\ BUStepOK(d) /\ DepthOK
  BY DEF PhaseOK, Base
<1>2. \A t \in Thread : Mine(t) = {}
  BY <1>1 DEF BUStepOK, BUThreadOK, AtBarrier, Mine
<1>3. Level(d + 1) \subseteq curr /\ curr \subseteq Woken(d) /\ Woken(d) \subseteq Level(d + 1)
  BY <1>1, <1>2 DEF BUStepOK, Woken
<1>4. Visited = UpTo(d + 1)
  <2>1. UpTo(d + 1) = UpTo(d) \cup Level(d + 1)
    BY <1>1, LevelFacts
  <2> QED BY <1>1, <1>3, <2>1 DEF LevelOK, Woken
<1>5. curr = Level(d + 1) /\ Woken(d) = curr
  BY <1>3
<1>6. reduced = Cardinality(curr)
  BY <1>1, <1>5 DEF BUStepOK
<1> QED BY <1>4, <1>5, <1>6

\* Lines 152-158: the next level is in the bitmap that becomes the front, and
\* either another bottom-up step starts on it or it goes back to the queue.
LEMMA EndBUStepKeeps ==
    ASSUME Base, NEW d \in Nat, PhaseOK(d), EndBUStep
    PROVE  Base' /\ PhaseOK(d + 1)'
<1> DEFINE e == d + 1
<1>1. /\ phase = "BUStep" /\ AtBarrier /\ awake_count' = reduced /\ front' = curr
      /\ UNCHANGED <<args, parent, edges_to_check, scout_count, qvars>>
  BY DEF EndBUStep
<1>2. TypeOK /\ DepthOK /\ QP!IInv
  BY DEF Base
<1>3. /\ LevelOK(d) /\ old_awake_count >= 1
      /\ Q!Quiescent /\ QP!Window = {} /\ QP!Hidden = {} /\ QP!Pushed \subseteq UpTo(d)
  BY <1>1 DEF PhaseOK, BUStepOK
<1>4. e \in Nat /\ curr = Level(e) /\ Visited = UpTo(e) /\ reduced = Cardinality(Level(e))
  BY <1>1, BUBarrier
<1>5. UpTo(d) \subseteq UpTo(e) /\ UpTo(d) \cap Level(e) = {}
  BY <1>2, LevelFacts
<1> HIDE DEF e
<1>6. /\ QP!IInv' /\ QP!Window' = {} /\ QP!Hidden' = {} /\ QP!Pushed' = QP!Pushed
      /\ Q!Quiescent'
  BY <1>1, <1>2, <1>3, NoQueueEffect DEF WindowKept
<1>7. /\ \A k : Level(k)' = Level(k) /\ UpTo(k)' = UpTo(k)
      /\ UNCHANGED <<g, depth>>
  BY <1>1, SameLevels DEF args
<1>8. front' = Level(e)' /\ StaleOK(e)' /\ QP!Pushed' \subseteq UpTo(e)'
  BY <1>1, <1>3, <1>4, <1>5, <1>6, <1>7 DEF StaleOK
<1>9. CASE AnotherBUStep /\ old_awake_count' = reduced /\ curr' = {}
           /\ \E s \in ChunkSchedules(Node, [n \in Node |-> ChunkOf(n)]) : Fork("BUStep", s)
  <2>1. PICK s \in ChunkSchedules(Node, [n \in Node |-> ChunkOf(n)]) : Fork("BUStep", s)
    BY <1>9
  <2>2. reduced >= 1
    <3>1. /\ reduced \in Nat /\ old_awake_count \in Nat /\ NumNodes \in Nat
          /\ beta \in Nat \ {0}
      BY <1>2, NumNodesAssumption, AlphaBetaAssumption DEF TypeOK
    <3>2. NumNodes \div beta \in Nat
      BY <3>1
    <3> QED BY <1>3, <1>9, <3>1, <3>2 DEF AnotherBUStep
  <2>3. Level(e) # {}
    BY <1>4, <2>2, FS_EmptySet
  <2>4. LevelOK(e)' /\ Woken(e)' = {}
    BY <1>1, <1>2, <1>3, <1>4, <1>6, <1>7, <1>8, <2>3, LevelMoves
  <2>5. /\ PhaseOK(e)' /\ todo' \in [Thread -> SUBSET Node] /\ DOMAIN pc' = Thread
        /\ reduced' = 0 /\ UNCHANGED <<u, rem, curr_val, word>>
    <3>1. Level(e)' \subseteq front' /\ old_awake_count' >= 1 /\ curr' = {}
      BY <1>8, <1>9, <2>2
    <3> QED BY <1>2, <1>4, <1>6, <1>8, <2>1, <2>4, <3>1, BUStarts
  <2>6. Base'
    <3>1. TypeOK'
      BY <1>1, <1>2, <1>9, <2>5 DEF TypeOK, args, Fork
    <3> QED BY <1>1, <1>6, <2>5, <3>1, BaseKeeps
  <2> QED BY <2>5, <2>6 DEF e
<1>10. CASE curr' = front /\ (\E s \in Schedules(curr) : Fork("BitmapToQueue", s))
            /\ UNCHANGED old_awake_count
  <2>1. PICK s \in Schedules(curr) : Fork("BitmapToQueue", s)
    BY <1>10
  <2>2. /\ phase' = "BitmapToQueue" /\ reduced' = 0 /\ DOMAIN pc' = Thread
        /\ \A t \in Thread : pc'[t] = "next" /\ todo'[t] \subseteq curr
        /\ \A i \in curr : \E t \in Thread : i \in todo'[t]
        /\ \A r, t \in Thread : r # t => todo'[r] \cap todo'[t] = {}
        /\ todo' \in [Thread -> SUBSET Node]
        /\ UNCHANGED <<u, rem, curr_val, word>>
    <3>1. Divides(s, curr)
      BY <2>1, ScheduleDivides
    <3>2. curr \subseteq Node
      BY <1>2 DEF TypeOK
    <3> QED BY <1>2, <2>1, <3>1, <3>2, ForkEffect
  <2>3. LevelOK(e)'
    BY <1>1, <1>2, <1>3, <1>4, <1>6, <1>7, <1>8, <2>2, LevelMoves
  <2>4. \A t \in Thread : Unqueued(t)' = todo'[t]
    BY <2>2 DEF Unqueued
  <2>5. \A t \in Thread : B2QThreadOK(e, t)'
    <3>1. Level(e)' \cap QP!Pushed' = {}
      BY <1>3, <1>5, <1>6, <1>7
    <3> QED BY <1>4, <1>7, <2>2, <2>4, <3>1 DEF B2QThreadOK, FlushOK
  <2>6. BitmapToQueueOK(e)'
    BY <1>4, <1>6, <1>7, <1>8, <2>2, <2>4, <2>5 DEF BitmapToQueueOK
  <2>7. PhaseOK(e)'
    BY <2>2, <2>3, <2>6 DEF PhaseOK, SerialOK, QueueToBitmapOK, BUStepOK, TDStepOK
  <2>8. Base'
    <3>1. TypeOK'
      BY <1>1, <1>2, <1>10, <2>2 DEF TypeOK, args
    <3> QED BY <1>1, <1>6, <2>2, <3>1, BaseKeeps
  <2> QED BY <2>7, <2>8 DEF e
<1> QED BY <1>9, <1>10 DEF EndBUStep

\* Behind the barrier of a top-down step every out-neighbour of the level has
\* been visited, and the next level is what the queue hides.
LEMMA TDBarrier ==
    ASSUME Base, NEW d \in Nat, PhaseOK(d), phase = "TDStep", AtBarrier
    PROVE  /\ QP!Hidden = Level(d + 1) /\ Visited = UpTo(d + 1)
           /\ \A x \in Level(d) : out_neigh(g, x) \subseteq Visited
           /\ Q!Quiescent
<1>1. LevelOK(d) /\ TDStepOK(d) /\ DepthOK /\ \A t \in Thread : pc[t] = "end" /\ TDThreadOK(d, t)
  BY DEF PhaseOK, Base, AtBarrier, TDStepOK
<1>2. \A t \in Thread : todo[t] = {} /\ local_queue[t] = << >> /\ ~Q!Copying(t)
  BY <1>1 DEF TDThreadOK, FlushOK
<1>3. Q!Quiescent
  BY <1>2 DEF Q!Quiescent
<1>4. \A x \in Level(d) : out_neigh(g, x) \subseteq Visited
  <2>1. \A t \in Thread : \A x, y : ~HasEdge(t, x, y)
    BY <1>1, <1>2 DEF HasEdge
  <2> QED BY <1>1, <2>1 DEF TDStepOK, EdgesLeft
<1>5. Woken(d) \subseteq QP!Hidden /\ QP!Hidden \subseteq Level(d + 1)
  <2>1. \A t \in Thread : \A v : ~Pushing(t, v)
    BY <1>1 DEF Pushing
  <2> QED BY <1>1, <2>1 DEF TDStepOK, ClaimsKept
<1>6. Level(d + 1) \subseteq Visited
  <2>1. \A v \in Level(d + 1) : \E x \in Level(d) : v \in out_neigh(g, x)
    BY <1>1, LevelFacts
  <2> QED BY <1>4, <2>1
<1>7. Woken(d) = Level(d + 1)
  BY <1>6 DEF Woken
<1>8. Visited = UpTo(d + 1)
  <2>1. UpTo(d + 1) = UpTo(d) \cup Level(d + 1)
    BY <1>1, LevelFacts
  <2> QED BY <1>1, <1>6, <2>1 DEF LevelOK
<1> QED BY <1>3, <1>4, <1>5, <1>7, <1>8

\* Lines 164-165.
LEMMA EndTopDownKeeps ==
    ASSUME Base, NEW d \in Nat, PhaseOK(d), EndTopDown
    PROVE  Base' /\ PhaseOK(d + 1)'
<1> DEFINE e == d + 1
<1>1. /\ phase = "TDStep" /\ AtBarrier /\ scout_count' = reduced /\ Q!slide_window
      /\ phase' = "while" /\ reduced' = 0
      /\ UNCHANGED <<args, parent, front, curr, edges_to_check, awake_count, old_awake_count,
                     threads>>
  BY DEF EndTopDown
<1>2. TypeOK /\ DepthOK /\ QP!IInv /\ LevelOK(d)
  BY DEF Base, PhaseOK
<1>3. /\ e \in Nat /\ QP!Hidden = Level(e) /\ Visited = UpTo(e) /\ Q!Quiescent
      /\ \A x \in Level(d) : out_neigh(g, x) \subseteq Visited
  BY <1>1, TDBarrier
<1> HIDE DEF e
<1>4. QP!Pushed' = QP!Pushed
  BY <1>1, <1>2, <1>3, SlideEffect
<1>5. /\ \A k : Level(k)' = Level(k)
      /\ UNCHANGED <<g, depth, front>> /\ Visited' = Visited
  BY <1>1, SameLevels, SameVisited DEF args
<1>6. StaleOK(e)'
  <2>1. \A v \in front : out_neigh(g, v) \subseteq Visited
    BY <1>2, <1>3 DEF LevelOK, StaleOK
  <2> QED BY <1>5, <2>1 DEF StaleOK, out_neigh
<1>7. LevelOK(e)'
  BY <1>1, <1>2, <1>3, <1>4, <1>5, <1>6, LevelMoves
<1>8. TypeOK'
  BY <1>1, <1>2 DEF TypeOK, args, threads
<1>9. UNCHANGED <<args, parent, pc>>
  BY <1>1 DEF threads
<1>10. Base' /\ PhaseOK(e)'
  BY <1>1, <1>2, <1>3, <1>7, <1>8, <1>9, SlideToWhile
<1> QED BY <1>10 DEF e

\* Lines 112 and 160: the level is back in the queue.
LEMMA EndBitmapToQueueKeeps ==
    ASSUME Base, NEW d \in Nat, PhaseOK(d), EndBitmapToQueue
    PROVE  Base' /\ PhaseOK(d)'
<1>1. /\ phase = "BitmapToQueue" /\ AtBarrier /\ scout_count' = 1 /\ Q!slide_window
      /\ phase' = "while"
      /\ UNCHANGED <<args, parent, front, curr, edges_to_check, awake_count, old_awake_count,
                     reduced, threads>>
  BY DEF EndBitmapToQueue
<1>2. /\ TypeOK /\ DepthOK /\ QP!IInv /\ LevelOK(d) /\ BitmapToQueueOK(d) /\ Visited = UpTo(d)
      /\ \A t \in Thread : pc[t] = "end" /\ B2QThreadOK(d, t)
  BY <1>1 DEF Base, PhaseOK, LevelOK, BitmapToQueueOK, AtBarrier
<1>3. \A t \in Thread : Unqueued(t) = {} /\ local_queue[t] = << >> /\ ~Q!Copying(t)
  BY <1>2 DEF B2QThreadOK, FlushOK, Unqueued
<1>4. Q!Quiescent /\ QP!Hidden = Level(d) /\ front = Level(d)
  BY <1>1, <1>2, <1>3 DEF BitmapToQueueOK, Q!Quiescent
<1>5. QP!Pushed' = QP!Pushed
  BY <1>1, <1>2, <1>4, SlideEffect
<1>6. /\ \A k : Level(k)' = Level(k)
      /\ UNCHANGED <<g, depth, front>>
  BY <1>1, SameLevels DEF args
<1>7. StaleOK(d)'
  BY <1>4, <1>6 DEF StaleOK
<1>8. LevelOK(d)'
  BY <1>1, <1>2, <1>5, <1>6, <1>7, LevelMoves
<1>9. TypeOK'
  BY <1>1, <1>2 DEF TypeOK, args, threads
<1>10. UNCHANGED <<args, parent, pc>>
  BY <1>1 DEF threads
<1> QED BY <1>1, <1>2, <1>4, <1>8, <1>9, <1>10, SlideToWhile

\* Lines 171-174: what was visited keeps its parent.
LEMMA FinishKeeps ==
    ASSUME Base, NEW d \in Nat, PhaseOK(d), Finish
    PROVE  Base' /\ PhaseOK(d)'
<1>1. /\ phase = "while" /\ Q!empty /\ phase' = "done"
      /\ parent' = [n \in Node |-> IF parent[n] < -1 THEN -1 ELSE parent[n]]
      /\ UNCHANGED <<args, front, curr, counts, reduced, threads, qvars>>
  BY DEF Finish
<1>2. TypeOK /\ DepthOK /\ TreeOK /\ QP!IInv /\ DOMAIN pc = Thread
  BY DEF Base
<1>3. /\ LevelOK(d) /\ Visited = UpTo(d) /\ QP!Window = Level(d)
      /\ Q!Quiescent /\ AtBarrier
  BY <1>1 DEF PhaseOK, LevelOK, SerialOK, AtRest
<1>4. Level(d) = {}
  BY <1>1, <1>2, <1>3, QueueReads
<1>5. QP!IInv' /\ QP!Pushed' = QP!Pushed /\ Q!Quiescent'
  BY <1>1, <1>2, <1>3, NoQueueEffect
<1>6. \A n \in Node : /\ parent[n] \in Int /\ parent'[n] \in -NumNodes .. (NumNodes - 1)
                      /\ parent'[n] >= 0 <=> parent[n] >= 0
                      /\ parent[n] >= 0 => parent'[n] = parent[n]
                      /\ parent'[n] < 0 => parent'[n] = -1
  <2> SUFFICES ASSUME NEW n \in Node
               PROVE  /\ parent[n] \in Int /\ parent'[n] \in -NumNodes .. (NumNodes - 1)
                      /\ parent'[n] >= 0 <=> parent[n] >= 0
                      /\ parent[n] >= 0 => parent'[n] = parent[n]
                      /\ parent'[n] < 0 => parent'[n] = -1
    OBVIOUS
  <2>1. parent[n] \in -NumNodes .. (NumNodes - 1)
    BY <1>2 DEF TypeOK
  <2>2. parent'[n] = IF parent[n] < -1 THEN -1 ELSE parent[n]
    BY <1>1
  <2> QED BY <2>1, <2>2, NumNodesAssumption
<1>7. Visited' = Visited /\ \A v \in Visited : parent'[v] = parent[v]
  BY <1>6 DEF Visited
<1>8. /\ \A k : Level(k)' = Level(k) /\ UpTo(k)' = UpTo(k)
      /\ UNCHANGED <<g, source, depth, front, pc>>
  BY <1>1, SameLevels DEF args, threads
<1>9. DepthOK' /\ TreeOK'
  <2>1. DepthOK'
    BY <1>2, <1>8 DEF DepthOK, in_neigh, out_neigh
  <2>2. source \in Visited
    <3>1. parent[source] >= 0
      BY <1>2, NodeNat DEF TreeOK, TypeOK
    <3> QED BY <1>2, <3>1 DEF Visited, TypeOK
  <2>3. TreeOK'
    BY <1>2, <1>7, <1>8, <2>2 DEF TreeOK, in_neigh
  <2> QED BY <2>1, <2>3
<1>10. TypeOK'
  <2>1. parent' \in [Node -> -NumNodes .. (NumNodes - 1)]
    <3>1. DOMAIN parent' = Node /\ parent' = [n \in Node |-> parent'[n]]
      BY <1>1
    <3> QED BY <1>6, <3>1
  <2> QED BY <1>1, <1>2, <2>1 DEF TypeOK, args, counts, threads
<1>11. LevelOK(d)'
  <2>1. StaleOK(d)'
    BY <1>3, <1>7, <1>8 DEF LevelOK, StaleOK, out_neigh
  <2> QED BY <1>1, <1>3, <1>5, <1>7, <1>8, <2>1 DEF LevelOK
<1>12. SerialOK(d)'
  BY <1>1, <1>3, <1>4, <1>5, <1>6, <1>8 DEF SerialOK, AtRest, AtBarrier
<1>13. Base'
  BY <1>2, <1>5, <1>8, <1>9, <1>10 DEF Base
<1> QED BY <1>1, <1>11, <1>12, <1>13, SerialFrame

\* Nothing happens.
LEMMA StutterKeeps ==
    ASSUME Base, NEW d \in Nat, PhaseOK(d), UNCHANGED vars
    PROVE  Base' /\ PhaseOK(d)'
<1>1. /\ UNCHANGED <<args, parent, front, curr, counts, phase, reduced, threads, qvars>>
      /\ UNCHANGED <<g, source, depth, old_awake_count, todo, pc, u, rem, curr_val, word>>
      /\ UNCHANGED <<shared, local_queue, copy_start>>
  BY DEF vars, args, counts, threads, qvars
<1>2. /\ QP!IInv' /\ WindowKept /\ QP!Hidden' = QP!Hidden /\ QP!Pushed' = QP!Pushed
      /\ Q!Quiescent' <=> Q!Quiescent
  BY <1>1, NoQueueEffect DEF Base
<1>3. Base'
  <2>1. TypeOK'
    BY <1>1 DEF Base, TypeOK, args, counts, threads
  <2> QED BY <1>1, <1>2, <2>1, BaseKeeps DEF Base
<1>4. Visited' = Visited /\ \A k : Level(k)' = Level(k) /\ UpTo(k)' = UpTo(k)
  BY <1>1, SameVisited, SameLevels
<1>5. LevelOK(d)'
  BY <1>1, <1>2, LevelKeeps DEF PhaseOK
<1>6. \A x : out_neigh(g', x) = out_neigh(g, x)
  BY <1>1
<1>7. AtRest' <=> AtRest
  BY <1>1, <1>2 DEF AtRest, AtBarrier
<1>8. SerialOK(d)'
  BY <1>1, <1>2, <1>4, <1>7 DEF PhaseOK, SerialOK, WindowKept
<1>9. \A t \in Thread : FlushOK(t)' <=> FlushOK(t)
  BY <1>1 DEF FlushOK, Q!Copying
<1>10. QueueToBitmapOK(d)'
  <2>1. \A t \in Thread : Q2BThreadOK(d, t)' <=> Q2BThreadOK(d, t)
    BY <1>1, <1>2, <1>4 DEF Q2BThreadOK, WindowKept
  <2>2. \A t \in Thread : \A v : HasVertex(t, v)' <=> HasVertex(t, v)
    BY <1>1 DEF HasVertex
  <2> QED BY <1>1, <1>2, <1>4, <2>1, <2>2 DEF PhaseOK, QueueToBitmapOK, WindowKept
<1>11. Woken(d)' = Woken(d)
  BY <1>4 DEF Woken
<1>12. BUStepOK(d)'
  <2>1. \A t \in Thread : Mine(t)' = Mine(t)
    BY <1>1 DEF Mine
  <2>2. \A t \in Thread : BUThreadOK(d, t)' <=> BUThreadOK(d, t)
    BY <1>1, <1>11 DEF BUThreadOK
  <2>3. ChunksApart' <=> ChunksApart
    BY <2>1 DEF ChunksApart
  <2> QED BY <1>1, <1>2, <1>4, <1>11, <2>1, <2>2, <2>3 DEF PhaseOK, BUStepOK, WindowKept
<1>13. BitmapToQueueOK(d)'
  <2>1. \A t \in Thread : Unqueued(t)' = Unqueued(t)
    BY <1>1 DEF Unqueued
  <2>2. \A t \in Thread : B2QThreadOK(d, t)' <=> B2QThreadOK(d, t)
    BY <1>1, <1>2, <1>4, <1>9, <2>1 DEF B2QThreadOK
  <2> QED BY <1>1, <1>2, <1>4, <2>1, <2>2 DEF PhaseOK, BitmapToQueueOK, WindowKept
<1>14. TDStepOK(d)'
  <2>1. \A t \in Thread : \A v : Pushing(t, v)' <=> Pushing(t, v)
    BY <1>1 DEF Pushing
  <2>2. \A t \in Thread : \A x, y : HasEdge(t, x, y)' <=> HasEdge(t, x, y)
    BY <1>1 DEF HasEdge
  <2>3. \A t \in Thread : TDThreadOK(d, t)' <=> TDThreadOK(d, t)
    BY <1>1, <1>2, <1>4, <1>6, <1>9, <1>11 DEF TDThreadOK, WindowKept
  <2>4. PushersApart' <=> PushersApart
    BY <2>1 DEF PushersApart
  <2>5. ClaimsKept(d)' <=> ClaimsKept(d)
    BY <1>2, <1>11, <2>1 DEF ClaimsKept
  <2>6. EdgesLeft(d)' <=> EdgesLeft(d)
    BY <1>4, <1>6, <2>2 DEF EdgesLeft
  <2> QED BY <1>1, <1>2, <1>4, <2>3, <2>4, <2>5, <2>6 DEF PhaseOK, TDStepOK, WindowKept
<1> QED BY <1>3, <1>5, <1>8, <1>10, <1>12, <1>13, <1>14 DEF PhaseOK

-----------------------------------------------------------------------------
\* The invariant is inductive.

\* A thread's step stays within the level.
LEMMA ThreadKeeps ==
    ASSUME Base, NEW d \in Nat, PhaseOK(d), NEW t \in Thread, ThreadStep(t)
    PROVE  Base' /\ PhaseOK(d)'
<1>1. CASE Q2BTake(t) \/ Q2BLoad(t) \/ Q2BSwap(t) \/ Q2BEnd(t)
  BY <1>1, Q2BSteps
<1>2. CASE BUVisit(t)
  BY <1>2, BUVisitKeeps
<1>3. CASE BUSetBit(t)
  BY <1>3, BUSetBitKeeps
<1>4. CASE BUEnd(t)
  BY <1>4, BUEndKeeps
<1>5. CASE TDTake(t)
  BY <1>5, TDTakeKeeps
<1>6. CASE TDRead(t)
  BY <1>6, TDReadKeeps
<1>7. CASE TDCas(t)
  BY <1>7, TDCasKeeps
<1>8. CASE TDPush(t)
  BY <1>8, TDPushKeeps
<1>9. CASE TDScanned(t)
  BY <1>9, TDScannedKeeps
<1>10. CASE B2QTake(t)
  BY <1>10, B2QTakeKeeps
<1>11. CASE B2QPush(t)
  BY <1>11, B2QPushKeeps
<1>12. CASE LeaveLoop(t) \/ Flush(t)
  <2>1. pc[t] # "end" /\ (pc[t] = "flush" \/ phase \in {"TDStep", "BitmapToQueue"})
    BY <1>12 DEF LeaveLoop, Flush
  <2>2. pc[t] = "flush" => phase \in {"TDStep", "BitmapToQueue"}
    <3>1. phase \notin {"QueueToBitmap", "BUStep", "BitmapToQueue", "TDStep"} => pc[t] = "end"
      BY DEF PhaseOK, SerialOK, AtRest, AtBarrier
    <3>2. phase = "QueueToBitmap" => pc[t] # "flush"
      BY DEF PhaseOK, QueueToBitmapOK, Q2BThreadOK
    <3>3. phase = "BUStep" => pc[t] # "flush"
      BY DEF PhaseOK, BUStepOK, BUThreadOK
    <3> QED BY <3>1, <3>2, <3>3
  <2> QED BY <1>12, <2>1, <2>2, TDLeaveKeeps, B2QLeaveKeeps
<1> QED BY <1>1, <1>2, <1>3, <1>4, <1>5, <1>6, <1>7, <1>8, <1>9, <1>10, <1>11, <1>12
        DEF ThreadStep

\* The master's steps go from level to level, while there is one.
LEMMA MasterKeeps ==
    ASSUME Base, NEW d \in Nat, PhaseOK(d), Master
    PROVE  Base' /\ \E e \in {d, d + 1} : PhaseOK(e)' /\ (e = d \/ Level(d) # {})
<1>1. CASE EndBUStep
  <2>1. Level(d) # {}
    BY <1>1 DEF PhaseOK, LevelOK, EndBUStep
  <2> QED BY <1>1, <2>1, EndBUStepKeeps
<1>2. CASE EndTopDown
  <2>1. Level(d) # {}
    BY <1>2 DEF PhaseOK, LevelOK, EndTopDown
  <2> QED BY <1>2, <2>1, EndTopDownKeeps
<1>3. CASE PushSource
  BY <1>3, PushSourceKeeps
<1>4. CASE SlideSource
  BY <1>4, SlideSourceKeeps
<1>5. CASE StartBottomUp
  BY <1>5, StartBottomUpKeeps
<1>6. CASE StartTopDown
  BY <1>6, StartTopDownKeeps
<1>7. CASE EndQueueToBitmap
  BY <1>7, EndQueueToBitmapKeeps
<1>8. CASE EndBitmapToQueue
  BY <1>8, EndBitmapToQueueKeeps
<1>9. CASE Finish
  BY <1>9, FinishKeeps
<1> QED BY <1>1, <1>2, <1>3, <1>4, <1>5, <1>6, <1>7, <1>8, <1>9 DEF Master

\* Every step keeps it.
LEMMA NextIInv == IInv /\ [Next \/ Returned]_vars => IInv'
<1> SUFFICES ASSUME IInv, [Next \/ Returned]_vars PROVE IInv'
  OBVIOUS
<1>1. PICK d \in 0 .. (NumNodes + 1) : PhaseOK(d)
  BY DEF IInv
<1>2. d \in Nat /\ Base
  BY NumNodesAssumption DEF IInv
<1>3. CASE \E t \in Thread : ThreadStep(t)
  BY <1>1, <1>2, <1>3, ThreadKeeps DEF IInv
<1>4. CASE Master
  <2>1. PICK e \in {d, d + 1} : Base' /\ PhaseOK(e)' /\ (e = d \/ Level(d) # {})
    BY <1>1, <1>2, <1>4, MasterKeeps
  <2>2. Level(d) # {} => d <= NumNodes
    BY <1>2, LevelFacts DEF Base
  <2>3. e \in 0 .. (NumNodes + 1)
    BY <1>1, <1>2, <2>1, <2>2, NumNodesAssumption
  <2> QED BY <2>1, <2>3 DEF IInv
<1>5. CASE Returned \/ UNCHANGED vars
  BY <1>1, <1>2, <1>5, StutterKeeps DEF IInv, Returned
<1> QED BY <1>3, <1>4, <1>5 DEF Next

\* Every reachable state, of every search of every graph by any number of
\* threads, satisfies the invariant.
THEOREM Invariance == Spec => []IInv
  BY InitIInv, NextIInv, PTL DEF Spec

-----------------------------------------------------------------------------
\* What the search promises.

\* Between two regions the queue holds one complete level, each vertex of it
\* once, and exactly the levels up to it have been visited.
THEOREM QueueIsLevel == Spec => []FrontierIsLevel
<1>1. IInv => FrontierIsLevel
  <2> SUFFICES ASSUME IInv PROVE FrontierIsLevel
    OBVIOUS
  <2>1. TypeOK /\ DepthOK /\ QP!IInv
    BY DEF IInv, Base
  <2>2. PICK d \in 0 .. (NumNodes + 1) : PhaseOK(d)
    BY DEF IInv
  <2>3. d \in Nat
    BY NumNodesAssumption
  <2>4. ASSUME phase = "while"
        PROVE  IF Q!empty
               THEN Visited = {v \in Node : depth[v] # Unreached}
               ELSE \E k \in 0 .. NumNodes :
                       /\ Q!Window = Level(k)
                       /\ Q!size = Cardinality(Level(k))
                       /\ Visited = {v \in Node : depth[v] \in 0 .. k}
    <3>1. Visited = UpTo(d) /\ QP!Window = Level(d)
      BY <2>2, <2>4 DEF PhaseOK, LevelOK, SerialOK
    <3>2. /\ Q!Window = Level(d) /\ Q!size = Cardinality(Level(d))
          /\ Q!empty <=> Level(d) = {}
      BY <2>1, <3>1, QueueReads
    <3>3. CASE Q!empty
      BY <2>1, <2>3, <3>1, <3>2, <3>3, LastLevel
    <3>4. CASE ~Q!empty
      <4>1. d \in 0 .. NumNodes
        BY <2>1, <2>3, <3>2, <3>4, LevelFacts, NumNodesAssumption
      <4> QED BY <3>1, <3>2, <3>4, <4>1 DEF UpTo
    <3> QED BY <3>3, <3>4
  <2> QED BY <2>1, <2>4 DEF FrontierIsLevel
<1> QED BY <1>1, Invariance, PTL

\* No bit is lost to the non-atomic set_bit of a bottom-up step, because the
\* chunks of its schedule cover whole words.
THEOREM BitsAreKept == Spec => []NoBitLost
<1>1. IInv => NoBitLost
  <2> SUFFICES ASSUME IInv, phase = "BUStep", AtBarrier
               PROVE  /\ reduced = Cardinality(curr)
                      /\ \E k \in 1 .. (NumNodes + 1) :
                            /\ curr = Level(k)
                            /\ Visited = {v \in Node : depth[v] \in 0 .. k}
    BY DEF NoBitLost
  <2>1. PICK d \in 0 .. (NumNodes + 1) : PhaseOK(d)
    BY DEF IInv
  <2>2. d \in Nat /\ Base
    BY NumNodesAssumption DEF IInv
  <2>3. Level(d) # {}
    BY <2>1 DEF PhaseOK, LevelOK
  <2>4. d + 1 \in 1 .. (NumNodes + 1)
    BY <2>2, <2>3, LevelFacts, NumNodesAssumption DEF Base
  <2>5. curr = Level(d + 1) /\ Visited = UpTo(d + 1) /\ reduced = Cardinality(curr)
    BY <2>1, <2>2, BUBarrier
  <2> QED BY <2>4, <2>5 DEF UpTo
<1> QED BY <1>1, Invariance, PTL

\* The bits an earlier level left in the front wake no vertex.
THEOREM StaleBitsAreHarmless == Spec => []StaleFrontHarmless
<1>1. IInv => StaleFrontHarmless
  <2> SUFFICES ASSUME IInv, phase = "BUStep"
               PROVE  \E k \in 0 .. NumNodes :
                         /\ Level(k) \subseteq front
                         /\ Visited \subseteq {v \in Node : depth[v] \in 0 .. (k + 1)}
                         /\ \A v \in front \ Level(k) : out_neigh(g, v) \subseteq Visited
    BY DEF StaleFrontHarmless
  <2>1. PICK d \in 0 .. (NumNodes + 1) : PhaseOK(d)
    BY DEF IInv
  <2>2. Level(d) # {} /\ Visited \subseteq UpTo(d + 1) /\ StaleOK(d) /\ Level(d) \subseteq front
    BY <2>1 DEF PhaseOK, LevelOK, BUStepOK
  <2>3. d \in Nat /\ DepthOK
    BY NumNodesAssumption DEF IInv, Base
  <2>4. d \in 0 .. NumNodes
    BY <2>2, <2>3, LevelFacts, NumNodesAssumption
  <2> QED BY <2>2, <2>4 DEF StaleOK, UpTo
<1> QED BY <1>1, Invariance, PTL

\* The result is a shortest-path tree of what the source reaches: the program
\* accepts it under -v.
THEOREM ResultIsVerified == Spec => []VerifierAccepts
<1>1. IInv => VerifierAccepts
  <2> SUFFICES ASSUME IInv, phase = "done", NEW n \in Node
               PROVE  IF depth[n] # Unreached /\ parent[n] # -1
                      THEN IF n = source
                           THEN parent[n] = n
                           ELSE parent[n] \in in_neigh(g, n) /\ depth[parent[n]] = depth[n] - 1
                      ELSE depth[n] = parent[n]
    BY DEF VerifierAccepts, BFSVerifier
  <2>1. TypeOK /\ DepthOK /\ TreeOK
    BY DEF IInv, Base
  <2>2. PICK d \in 0 .. (NumNodes + 1) : PhaseOK(d)
    BY DEF IInv
  <2>3. d \in Nat
    BY NumNodesAssumption
  <2>4. Visited = UpTo(d) /\ Level(d) = {} /\ \A v \in Node : parent[v] < 0 => parent[v] = -1
    BY <2>2 DEF PhaseOK, LevelOK, SerialOK
  <2>5. Visited = {v \in Node : depth[v] # Unreached}
    BY <2>1, <2>3, <2>4, LastLevel
  <2>6. parent[n] \in Int
    BY <2>1, NumNodesAssumption DEF TypeOK
  <2>7. CASE n \in Visited
    BY <2>1, <2>5, <2>6, <2>7 DEF TreeOK, Visited
  <2>8. CASE n \notin Visited
    <3>1. parent[n] = -1 /\ depth[n] = -1
      BY <2>4, <2>5, <2>6, <2>8 DEF Visited, Unreached
    <3> QED BY <3>1
  <2> QED BY <2>7, <2>8
<1> QED BY <1>1, Invariance, PTL

-----------------------------------------------------------------------------
\* The queue's protocol.

\* Every step of the kernel is one of the steps the queue's own proofs
\* assume of its client.
LEMMA ProtocolStep ==
    ASSUME IInv, [Next \/ Returned]_vars
    PROVE  QueueStep
<1>1. PICK d \in 0 .. (NumNodes + 1) : PhaseOK(d)
  BY DEF IInv
<1>2. Base /\ QP!IInv /\ TypeOK
  BY DEF IInv, Base
<1>3. CASE UNCHANGED qvars
  BY <1>2, <1>3, NoQueueEffect
<1>4. ASSUME NEW t \in Thread, Flush(t) PROVE QueueStep
  BY <1>2, <1>4, LastFlushEffect
<1>5. ASSUME NEW t \in Thread, TDPush(t) PROVE QueueStep
  <2> DEFINE v == Min(rem[t])
  <2>1. /\ phase = "TDStep" /\ pc[t] = "push" /\ PushBack(t, v, "scan")
    BY <1>5 DEF TDPush
  <2>2. TDThreadOK(d, t)
    BY <1>1, <2>1 DEF PhaseOK, TDStepOK
  <2>3. v \in Node /\ v \notin QP!Pushed
    BY <2>1, <2>2 DEF TDThreadOK, Woken, Visited
  <2> HIDE DEF v
  <2> QED BY <1>2, <2>1, <2>3, PushBackEffect
<1>6. ASSUME NEW t \in Thread, B2QPush(t) PROVE QueueStep
  <2> DEFINE v == Min(rem[t])
  <2>1. /\ phase = "BitmapToQueue" /\ pc[t] = "push" /\ PushBack(t, v, "next")
    BY <1>6 DEF B2QPush
  <2>2. B2QThreadOK(d, t)
    BY <1>1, <2>1 DEF PhaseOK, BitmapToQueueOK
  <2>3. v \in rem[t]
    <3>1. rem[t] # {} /\ rem[t] \in SUBSET Node
      BY <1>2, <2>1, <2>2 DEF B2QThreadOK, TypeOK
    <3> QED BY <3>1, MinNode, NodeNat
  <2>4. v \in Node /\ v \notin QP!Pushed
    BY <1>2, <2>1, <2>2, <2>3 DEF B2QThreadOK, Unqueued, TypeOK
  <2> HIDE DEF v
  <2> QED BY <1>2, <2>1, <2>4, PushBackEffect
<1>7. ASSUME NEW t \in Thread, ThreadStep(t), ~Flush(t), ~TDPush(t), ~B2QPush(t)
      PROVE  UNCHANGED qvars
  BY <1>7 DEF ThreadStep, Q2BTake, Q2BLoad, Q2BSwap, Q2BEnd, BUVisit, BUSetBit, BUEnd,
              TDTake, TDRead, TDCas, TDScanned, B2QTake, LeaveLoop
<1>8. CASE PushSource
  <2>1. Q!Quiescent /\ QP!Pushed = {} /\ source \in Node /\ Q!SerialPush(source)
    BY <1>1, <1>2, <1>8 DEF PushSource, PhaseOK, SerialOK, AtRest, TypeOK
  <2> QED BY <1>2, <2>1, SerialPushEffect
<1>9. CASE Q!Quiescent /\ Q!slide_window
  BY <1>2, <1>9, SlideEffect
<1>10. CASE SlideSource
  <2>1. Q!Quiescent /\ Q!slide_window
    BY <1>1, <1>10 DEF SlideSource, PhaseOK, SerialOK, AtRest
  <2> QED BY <1>9, <2>1
<1>11. CASE EndQueueToBitmap
  <2>1. Q!Quiescent /\ Q!slide_window
    BY <1>1, <1>11 DEF EndQueueToBitmap, PhaseOK, QueueToBitmapOK
  <2> QED BY <1>9, <2>1
<1>12. CASE EndTopDown
  <2>1. Q!Quiescent /\ Q!slide_window
    BY <1>1, <1>2, <1>12, TDBarrier, NumNodesAssumption DEF EndTopDown
  <2> QED BY <1>9, <2>1
<1>13. CASE EndBitmapToQueue
  <2>1. Q!slide_window /\ \A t \in Thread : pc[t] = "end" /\ B2QThreadOK(d, t)
    BY <1>1, <1>13 DEF EndBitmapToQueue, PhaseOK, BitmapToQueueOK, AtBarrier
  <2>2. Q!Quiescent
    BY <2>1 DEF B2QThreadOK, FlushOK, Q!Quiescent
  <2> QED BY <1>9, <2>1, <2>2
<1>14. CASE StartBottomUp \/ StartTopDown \/ EndBUStep \/ Finish \/ Returned \/ UNCHANGED vars
  <2>1. UNCHANGED qvars
    BY <1>14 DEF StartBottomUp, StartTopDown, EndBUStep, Finish, Returned, vars
  <2> QED BY <1>3, <2>1
<1> QED BY <1>3, <1>4, <1>5, <1>6, <1>7, <1>8, <1>10, <1>11, <1>12, <1>13, <1>14
        DEF Next, Master

\* The search keeps to the protocol the theorems about SlidingQueue assume.
THEOREM QueueProtocol == Spec => FollowsQueueProtocol
<1>1. Init => Q!QInit
  BY DEF Init
<1>2. IInv /\ [Next \/ Returned]_vars => [Q!Next]_(Q!qvars)
  BY ProtocolStep DEF QueueStep
<1> QED BY <1>1, <1>2, Invariance, PTL DEF Spec, FollowsQueueProtocol, Q!Spec

-----------------------------------------------------------------------------
\* The level-synchronous search.

\* The vertices are hung below a level, one at a time.
Claims(d) ==
    \E v \in Level(d) : \E n \in out_neigh(g, v) :
       n \notin Visited /\ parent' = [parent EXCEPT ![n] = v]

\* A vertex examined bottom-up writes no parent, or claims a vertex of the
\* next level for a parent in this one.
LEMMA BUVisitClaims ==
    ASSUME Base, NEW d \in Nat, PhaseOK(d), NEW t \in Thread, BUVisit(t)
    PROVE  parent' = parent \/ Claims(d)
<1>1. phase = "BUStep"
  BY DEF BUVisit, AtNext
<1>2. PICK n \in todo[t] :
         LET awake == {v \in in_neigh(g, n) : get_bit(front, v)}
         IN  IF parent[n] < 0 /\ awake # {}
             THEN parent' = [parent EXCEPT ![n] = Min(awake)]
             ELSE parent' = parent
  BY DEF BUVisit
<1>3. LevelOK(d) /\ TypeOK /\ n \in Node
  BY DEF Base, PhaseOK, TypeOK
<1> DEFINE awake == {v \in in_neigh(g, n) : get_bit(front, v)}
<1>4. CASE parent[n] < 0 /\ awake # {}
  <2> DEFINE v == Min(awake)
  <2>1. v \in awake
    <3>1. awake \in SUBSET Nat
      BY NodeNat DEF in_neigh
    <3> QED BY <1>4, <3>1, MinNode
  <2>2. parent' = [parent EXCEPT ![n] = v]
    BY <1>2, <1>4
  <2>3. v \in in_neigh(g, n) /\ v \in front
    BY <2>1 DEF get_bit
  <2>4. n \notin Visited
    BY <1>3, <1>4 DEF Visited, TypeOK
  <2> HIDE DEF v
  <2>5. n \in out_neigh(g, v)
    BY <1>3, <2>3 DEF in_neigh, out_neigh
  <2>6. v \in Level(d)
    BY <1>3, <2>3, <2>4, <2>5 DEF LevelOK, StaleOK
  <2> QED BY <2>2, <2>4, <2>5, <2>6 DEF Claims
<1>5. CASE ~(parent[n] < 0 /\ awake # {})
  BY <1>2, <1>5
<1> QED BY <1>4, <1>5

\* A compare-and-swap of the top-down step writes no parent, or claims a
\* vertex of the next level for a parent in this one.
LEMMA TDCasClaims ==
    ASSUME Base, NEW d \in Nat, PhaseOK(d), NEW t \in Thread, TDCas(t)
    PROVE  parent' = parent \/ Claims(d)
<1>1. phase = "TDStep" /\ pc[t] = "cas"
  BY DEF TDCas
<1>2. TypeOK /\ TDThreadOK(d, t)
  BY <1>1 DEF Base, PhaseOK, TDStepOK
<1>3. PICK v \in rem[t] :
         parent' = parent \/ (parent[v] = curr_val[t] /\ parent' = [parent EXCEPT ![v] = u[t]])
  BY DEF TDCas
<1>4. u[t] \in Level(d) /\ v \in out_neigh(g, u[t]) /\ curr_val[t] < 0 /\ curr_val[t] \in Int
  BY <1>1, <1>2, NumNodesAssumption DEF TDThreadOK, TypeOK, Idle
<1>5. CASE parent[v] = curr_val[t] /\ parent' = [parent EXCEPT ![v] = u[t]]
  <2>1. v \notin Visited
    BY <1>4, <1>5 DEF Visited
  <2> QED BY <1>4, <1>5, <2>1 DEF Claims
<1> QED BY <1>3, <1>5

\* The tree is the part of parent that visited vertices have.
LEMMA SameTree ==
    ASSUME UNCHANGED <<g, source, depth>>, Visited' = Visited,
           \A v \in Visited : parent'[v] = parent[v]
    PROVE  UNCHANGED Tree!bfsvars
<1>1. \A v \in Node : /\ parent'[v] >= 0 <=> parent[v] >= 0
                      /\ parent[v] >= 0 => parent'[v] = parent[v]
  BY DEF Visited
<1>2. [v \in Node |-> IF parent'[v] >= 0 THEN parent'[v] ELSE -1] =
      [v \in Node |-> IF parent[v] >= 0 THEN parent[v] ELSE -1]
  BY <1>1
<1>3. [v \in Node |-> IF parent'[v] >= 0 THEN depth'[v] ELSE Unreached] =
      [v \in Node |-> IF parent[v] >= 0 THEN depth[v] ELSE Unreached]
  BY <1>1
<1> QED BY <1>2, <1>3 DEF Tree!bfsvars

\* A claim hangs an unvisited vertex below a visited one when the level above
\* is complete.
LEMMA ClaimIsVisit ==
    ASSUME Base, NEW d \in Nat, LevelOK(d), UNCHANGED args, Claims(d)
    PROVE  Tree!Next
<1>0. PICK v \in Level(d) : \E n \in out_neigh(g, v) :
         n \notin Visited /\ parent' = [parent EXCEPT ![n] = v]
  BY DEF Claims
<1>1. PICK n \in out_neigh(g, v) :
         n \notin Visited /\ parent' = [parent EXCEPT ![n] = v]
  BY <1>0
<1>2. TypeOK /\ DepthOK /\ UNCHANGED <<g, source, depth>>
  BY DEF Base, args
<1>3. n \in Level(d + 1) /\ v \in Node /\ n \in Node
  BY <1>1, <1>2, NextLevel
<1>4. v \in Visited /\ depth[v] = d /\ depth[n] = d + 1 /\ v >= 0
  BY <1>1, <1>2, <1>3, LevelFacts, NodeNat DEF LevelOK
<1> DEFINE T == [x \in Node |-> IF parent[x] >= 0 THEN parent[x] ELSE -1]
           D == [x \in Node |-> IF parent[x] >= 0 THEN depth[x] ELSE Unreached]
<1>5. parent'[n] = v /\ \A x \in Node \ {n} : parent'[x] = parent[x]
  BY <1>1, <1>2, <1>3 DEF TypeOK
<1>6. \A x \in Node : D[x] # Unreached <=> x \in Visited
  <2>1. Visited \subseteq {x \in Node : depth[x] \in 0 .. ((d + 1))}
    BY DEF LevelOK, UpTo
  <2> QED BY <2>1 DEF Visited, Unreached
<1>7. \A x \in Visited : D[x] = depth[x]
  BY DEF Visited
<1>8. T' = [T EXCEPT ![n] = v]
  BY <1>3, <1>4, <1>5
<1>9. D' = [D EXCEPT ![n] = D[v] + 1]
  <2>1. D[v] + 1 = depth[n]
    BY <1>4, <1>7
  <2>2. \A x \in Node : D'[x] = IF x = n THEN depth[n] ELSE D[x]
    BY <1>2, <1>4, <1>5
  <2> QED BY <1>3, <2>1, <2>2
<1>10. ASSUME NEW w \in Node, w \in Visited, D[w] < D[v], NEW x \in out_neigh(g, w)
       PROVE  x \in Visited
  <2>1. depth[w] < d /\ depth[w] \in Nat
    BY <1>4, <1>7, <1>10 DEF LevelOK, UpTo
  <2>2. x \in UpTo(depth[w] + 1)
    BY <1>2, <2>1, LevelFacts DEF UpTo
  <2>3. x \in UpTo(d)
    BY <2>1, <2>2 DEF UpTo
  <2> QED BY <2>3 DEF LevelOK
<1> HIDE DEF T, D
<1>11. Tree!Visit(v, n)
  <2>1. \A x : Tree!out_neigh(g, x) = out_neigh(g, x)
    BY DEF Tree!out_neigh, out_neigh, Tree!Node, Node
  <2>2. \A x \in Node : Tree!Visited(x) <=> x \in Visited
    BY <1>6 DEF Tree!Visited, Tree!Unreached, Unreached, D
  <2>3. Tree!Visited(v) /\ ~Tree!Visited(n) /\ n \in Tree!out_neigh(g, v)
    BY <1>1, <1>3, <1>4, <2>1, <2>2
  <2>4. \A w \in Node : Tree!Visited(w) /\ D[w] < D[v] =>
           \A x \in Tree!out_neigh(g, w) : Tree!Visited(x)
    <3>1. \A w \in Node : out_neigh(g, w) \subseteq Node
      BY DEF out_neigh
    <3> QED BY <1>10, <2>1, <2>2, <3>1
  <2>5. g' = g /\ source' = source
    BY <1>2
  <2> QED BY <1>8, <1>9, <2>3, <2>4, <2>5, Zenon DEF Tree!Visit, T, D, Tree!Node, Node
<1> QED BY <1>3, <1>11 DEF Tree!Next, Tree!Node, Node

\* The kernel's initial states are initial states of the level-by-level
\* search.
LEMMA TreeInit == Init => Tree!Init
<1> SUFFICES ASSUME Init PROVE Tree!Init
  OBVIOUS
<1>1. g \in Graphs /\ source \in Node
  BY DEF Init
<1>2. Visited = {source} /\ parent[source] = source /\ DepthOK
  BY InitEncoding, InitDepth DEF Init
<1>3. \A v \in Node : parent[v] >= 0 <=> v = source
  BY <1>2 DEF Visited
<1>4. depth[source] = 0
  BY <1>1, <1>2 DEF DepthOK
<1>5. [v \in Node |-> IF parent[v] >= 0 THEN parent[v] ELSE -1] =
      [v \in Node |-> IF v = source THEN source ELSE -1]
  BY <1>2, <1>3
<1>6. [v \in Node |-> IF parent[v] >= 0 THEN depth[v] ELSE Unreached] =
      [v \in Node |-> IF v = source THEN 0 ELSE Unreached]
  BY <1>3, <1>4
<1> QED BY <1>1, <1>5, <1>6
        DEF Tree!Init, Tree!Node, Node, Tree!NoNode, Tree!Unreached, Unreached

\* Every step of the kernel is a step of the level-by-level search or
\* changes nothing of it.
LEMMA TreeStep == IInv /\ [Next \/ Returned]_vars => [Tree!Next]_(Tree!bfsvars)
<1> SUFFICES ASSUME IInv, [Next \/ Returned]_vars PROVE [Tree!Next]_(Tree!bfsvars)
  OBVIOUS
<1>1. PICK d \in 0 .. (NumNodes + 1) : PhaseOK(d)
  BY DEF IInv
<1>2. d \in Nat /\ Base /\ LevelOK(d)
  BY <1>1, NumNodesAssumption DEF IInv, PhaseOK
<1>3. UNCHANGED args
  BY DEF Next, Master, ThreadStep, Returned, vars, serial,
         Q2BTake, Q2BLoad, Q2BSwap, Q2BEnd, BUVisit, BUSetBit, BUEnd,
         TDTake, TDRead, TDCas, TDPush, TDScanned, B2QTake, B2QPush, LeaveLoop, Flush,
         PushSource, SlideSource, StartBottomUp, EndQueueToBitmap, EndBUStep,
         EndBitmapToQueue, StartTopDown, EndTopDown, Finish
<1>4. UNCHANGED <<g, source, depth>>
  BY <1>3 DEF args
<1>5. ASSUME parent' = parent PROVE UNCHANGED Tree!bfsvars
  BY <1>4, <1>5, SameTree, SameVisited
<1>6. ASSUME NEW t \in Thread, BUVisit(t) \/ TDCas(t) PROVE [Tree!Next]_(Tree!bfsvars)
  <2>1. parent' = parent \/ Claims(d)
    BY <1>1, <1>2, <1>6, BUVisitClaims, TDCasClaims
  <2> QED BY <1>2, <1>3, <1>5, <2>1, ClaimIsVisit
<1>7. CASE Finish
  <2>1. \A n \in Node : parent'[n] = IF parent[n] < -1 THEN -1 ELSE parent[n]
    BY <1>7 DEF Finish
  <2>2. \A n \in Node : parent[n] \in Int
    BY <1>2, NumNodesAssumption DEF Base, TypeOK
  <2>3. Visited' = Visited /\ \A n \in Visited : parent'[n] = parent[n]
    BY <2>1, <2>2 DEF Visited
  <2> QED BY <1>4, <2>3, SameTree
<1>8. ASSUME ~Finish, ~(\E t \in Thread : BUVisit(t) \/ TDCas(t))
      PROVE  parent' = parent
  BY <1>8 DEF Next, Master, ThreadStep, Returned, vars,
         Q2BTake, Q2BLoad, Q2BSwap, Q2BEnd, BUSetBit, BUEnd,
         TDTake, TDRead, TDPush, TDScanned, B2QTake, B2QPush, LeaveLoop, Flush,
         PushSource, SlideSource, StartBottomUp, EndQueueToBitmap, EndBUStep,
         EndBitmapToQueue, StartTopDown, EndTopDown
<1> QED BY <1>5, <1>6, <1>7, <1>8

\* The steps in both directions together are a level-synchronous search.
THEOREM Refinement == Spec => RefinesLevelBFS
BY TreeInit, TreeStep, Invariance, PTL DEF Spec, RefinesLevelBFS, Tree!Spec
=============================================================================
