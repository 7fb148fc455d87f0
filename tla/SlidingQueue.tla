---------------------------- MODULE SlidingQueue ----------------------------
(***************************************************************************)
(* SlidingQueue<T> and its per-thread QueueBuffer<T>                       *)
(* (src/src/sliding_queue.h).  The queue is one array that only grows: a   *)
(* window [shared_out_start, shared_out_end) that readers iterate, and     *)
(* behind it the slots up to shared_in that writers have claimed.  A       *)
(* thread collects elements in its QueueBuffer and flushes them in two     *)
(* steps: an atomic fetch_and_add claims as many slots as it holds, and a  *)
(* plain copy, which other threads' steps may precede, fills them.         *)
(***************************************************************************)
EXTENDS Integers, Sequences, FiniteSets

CONSTANTS Thread,     \* the OpenMP threads that push concurrently
          Elem,       \* the values pushed (vertex ids)
          Capacity,   \* shared_size, the constructor's argument
          LocalSize,  \* given_size of a QueueBuffer (16384)
          Garbage     \* the content of a slot never written

ASSUME ElemAssumption      == IsFiniteSet(Elem) /\ Cardinality(Elem) <= Capacity
ASSUME CapacityAssumption  == Capacity \in Nat
ASSUME LocalSizeAssumption == LocalSize \in Nat \ {0}
ASSUME GarbageAssumption   == Garbage \notin Elem

VARIABLES shared,            \* the array
          shared_in,         \* next slot to claim
          shared_out_start,  \* the window
          shared_out_end,
          local_queue,       \* [Thread -> the content of its QueueBuffer]
          copy_start         \* [Thread -> first slot its flush claimed]

qvars == <<shared, shared_in, shared_out_start, shared_out_end,
           local_queue, copy_start>>

NoCopy == -1                 \* copy_start of a thread that is not in flush()

-----------------------------------------------------------------------------
\* Derived state.

Copying(t) == copy_start[t] # NoCopy

\* The slots a thread has claimed and not yet filled.
Claimed(t) ==
    IF Copying(t)
    THEN copy_start[t] .. (copy_start[t] + Len(local_queue[t]) - 1)
    ELSE {}

\* The slots that hold what was pushed.
Filled == {i \in 0 .. (shared_in - 1) : \A t \in Thread : i \notin Claimed(t)}

Buffered(t) == {local_queue[t][k] : k \in DOMAIN local_queue[t]}

\* Everything pushed since the last reset.
Pushed == {shared[i] : i \in Filled} \cup UNION {Buffered(t) : t \in Thread}

\* begin() .. end(), as slots and as the elements an iteration reads.
WindowSlots == shared_out_start .. (shared_out_end - 1)
Window      == {shared[i] : i \in WindowSlots}

empty == shared_out_start = shared_out_end
size  == shared_out_end - shared_out_start

\* Every QueueBuffer has been flushed: what holds behind the barrier that
\* ends a parallel region.
Quiescent == \A t \in Thread : local_queue[t] = <<>> /\ ~Copying(t)

-----------------------------------------------------------------------------
\* Operations.

\* The constructor allocates and resets; every QueueBuffer starts empty.
QInit ==
    /\ shared = [i \in 0 .. (Capacity - 1) |-> Garbage]
    /\ shared_in = 0 /\ shared_out_start = 0 /\ shared_out_end = 0
    /\ local_queue = [t \in Thread |-> <<>>]
    /\ copy_start = [t \in Thread |-> NoCopy]

\* Slip: ++shared_in for shared_in++.
SerialPush_PreIncrement(e) ==
    /\ shared_in' = shared_in + 1
    /\ shared' = [i \in DOMAIN shared \cup {shared_in'} |->
                     IF i = shared_in' THEN e ELSE shared[i]]
    /\ UNCHANGED <<shared_out_start, shared_out_end, local_queue, copy_start>>

\* SlidingQueue::push_back, only called outside parallel regions.  The array
\* is written where the code writes it, within its bounds or not.
SerialPush(e) ==
    /\ shared' = [i \in DOMAIN shared \cup {shared_in} |->
                     IF i = shared_in THEN e ELSE shared[i]]
    /\ shared_in' = shared_in + 1
    /\ UNCHANGED <<shared_out_start, shared_out_end, local_queue, copy_start>>

\* QueueBuffer::push_back when there is room; when there is none, the thread
\* first takes Claim and CopyOut.
LocalPush(t, e) ==
    /\ ~Copying(t)
    /\ Len(local_queue[t]) < LocalSize
    /\ local_queue' = [local_queue EXCEPT ![t] = Append(@, e)]
    /\ UNCHANGED <<shared, shared_in, shared_out_start, shared_out_end, copy_start>>

\* Slip: claims one slot, as a push_back does, instead of `in` slots.
Claim_OneSlot(t) ==
    /\ ~Copying(t)
    /\ copy_start' = [copy_start EXCEPT ![t] = shared_in]
    /\ shared_in' = shared_in + 1
    /\ UNCHANGED <<shared, shared_out_start, shared_out_end, local_queue>>

\* Slip: claims a whole buffer, local_size slots, however many it holds.
Claim_WholeBuffer(t) ==
    /\ ~Copying(t)
    /\ copy_start' = [copy_start EXCEPT ![t] = shared_in]
    /\ shared_in' = shared_in + LocalSize
    /\ UNCHANGED <<shared, shared_out_start, shared_out_end, local_queue>>

\* Slip: copies to the start of the window (begin()) instead of its claim.
Claim_AtWindow(t) ==
    /\ ~Copying(t)
    /\ copy_start' = [copy_start EXCEPT ![t] = shared_out_start]
    /\ shared_in' = shared_in + Len(local_queue[t])
    /\ UNCHANGED <<shared, shared_out_start, shared_out_end, local_queue>>

\* QueueBuffer::flush, first half: fetch_and_add(sq.shared_in, in).
Claim(t) ==
    /\ ~Copying(t)
    /\ copy_start' = [copy_start EXCEPT ![t] = shared_in]
    /\ shared_in' = shared_in + Len(local_queue[t])
    /\ UNCHANGED <<shared, shared_out_start, shared_out_end, local_queue>>

\* Slip: flush forgets in = 0.
CopyOut_KeepsBuffer(t) ==
    /\ Copying(t)
    /\ shared' = [i \in DOMAIN shared \cup Claimed(t) |->
                     IF i \in Claimed(t)
                     THEN local_queue[t][i - copy_start[t] + 1]
                     ELSE shared[i]]
    /\ copy_start' = [copy_start EXCEPT ![t] = NoCopy]
    /\ UNCHANGED <<shared_in, shared_out_start, shared_out_end, local_queue>>

\* QueueBuffer::flush, second half: std::copy and in = 0.
CopyOut(t) ==
    /\ Copying(t)
    /\ shared' = [i \in DOMAIN shared \cup Claimed(t) |->
                     IF i \in Claimed(t)
                     THEN local_queue[t][i - copy_start[t] + 1]
                     ELSE shared[i]]
    /\ local_queue' = [local_queue EXCEPT ![t] = <<>>]
    /\ copy_start' = [copy_start EXCEPT ![t] = NoCopy]
    /\ UNCHANGED <<shared_in, shared_out_start, shared_out_end>>

\* Slip: the two assignments of slide_window in the other order.
slide_window_Swapped ==
    /\ shared_out_end' = shared_in
    /\ shared_out_start' = shared_out_end'
    /\ UNCHANGED <<shared, shared_in, local_queue, copy_start>>

slide_window ==
    /\ shared_out_start' = shared_out_end
    /\ shared_out_end' = shared_in
    /\ UNCHANGED <<shared, shared_in, local_queue, copy_start>>

reset ==
    /\ shared_out_start' = 0 /\ shared_out_end' = 0 /\ shared_in' = 0
    /\ UNCHANGED <<shared, local_queue, copy_start>>

-----------------------------------------------------------------------------
\* The queue under the protocol its callers follow: within a parallel region
\* each thread pushes and flushes its own buffer; slide_window, reset and the
\* serial push_back are called between regions.  A caller pushes an element
\* at most once (a breadth-first search pushes the vertices it claims).

Fresh(e) == e \notin Pushed

Next ==
    \/ \E t \in Thread :
          \/ \E e \in Elem : Fresh(e) /\ LocalPush(t, e)
          \/ Claim(t)
          \/ CopyOut(t)
    \/ Quiescent /\ \E e \in Elem : Fresh(e) /\ SerialPush(e)
    \/ Quiescent /\ slide_window
    \/ Quiescent /\ reset

Spec == QInit /\ [][Next]_qvars

-----------------------------------------------------------------------------
\* Properties.

\* Each variable has its type; in particular the array keeps the domain it
\* was allocated with (src/src/sliding_queue.h:36).
TypeOK ==
    /\ shared \in [0 .. (Capacity - 1) -> Elem \cup {Garbage}]
    /\ shared_in \in 0 .. Capacity
    /\ shared_out_start \in 0 .. shared_out_end
    /\ shared_out_end \in 0 .. shared_in
    /\ local_queue \in [Thread -> Seq(Elem)]
    /\ copy_start \in [Thread -> Int]

\* The copy of a flush writes slots that no other flush writes, that no
\* reader can see yet, and that lie below shared_in (flush, lines 103-108).
ClaimsApart ==
    \A t \in Thread :
       /\ Claimed(t) \subseteq shared_out_end .. (shared_in - 1)
       /\ \A u \in Thread \ {t} : Claimed(t) \cap Claimed(u) = {}

\* Nothing pushed is lost or stored twice: an element pushed sits in one
\* filled slot or in one place of one thread's buffer.
HeldOnce ==
    /\ \A i \in Filled :
          /\ shared[i] \in Elem
          /\ \A j \in Filled : shared[i] = shared[j] => i = j
          /\ \A t \in Thread : shared[i] \notin Buffered(t)
    /\ \A t, u \in Thread :
          \A k \in DOMAIN local_queue[t], l \in DOMAIN local_queue[u] :
             local_queue[t][k] = local_queue[u][l] => t = u /\ k = l

\* Although slots are never recycled, the array cannot overflow: what is
\* claimed and what still waits in the buffers fits the capacity.  The code
\* checks no bound; it relies on each element being pushed once.
NoOverflow ==
    /\ shared_in <= Capacity
    /\ \A t \in Thread : ~Copying(t) => shared_in + Len(local_queue[t]) <= Capacity

\* A reader iterating the window never sees a slot change under it, whatever
\* the writers do: only a reset rewinds the array.
WindowStable ==
    [][shared_in' >= shared_in =>
          \A i \in 0 .. (shared_out_end - 1) : shared'[i] = shared[i]]_qvars

\* The class comment, "appends aren't seen until SlideWindow() called"
\* (sliding_queue.h:17), as a refinement: callers cannot tell the queue and
\* its buffers from plain sets, whatever the order of claims and copies.
DB == INSTANCE DoubleBufferedQueue WITH
         visible  <- Window,
         appended <- {shared[i] : i \in Filled \ (0 .. (shared_out_end - 1))}
                       \cup UNION {Buffered(t) : t \in Thread},
         received <- Pushed

RefinesDoubleBuffer == DB!Spec
=============================================================================
