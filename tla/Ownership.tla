----------------------------- MODULE Ownership -----------------------------
(***************************************************************************)
(* Who frees a graph's arrays: the program runs of GraphFile, with the     *)
(* arrays that MakeGraph allocates (src/src/builder.h, src/src/reader.h),  *)
(* the objects that hold them, their moves and destructors (src/src/       *)
(* graph.h, src/src/pvector.h).  Values returned are constructed in place, *)
(* as the compilers do it; std::exit calls no destructor.                  *)
(***************************************************************************)
EXTENDS GraphFile

VARIABLE heap    \* of the current or last run: see NoHeap

Null == "nullptr"

\* A CSRGraph that owns nothing.
NoArrays == [directed |-> FALSE, num_edges |-> -1, out_index |-> Null, out_neighs |-> Null,
             in_index |-> Null, in_neighs |-> Null]

\* The objects are MakeGraphFromEL's result, MakeGraph's local g and main's graph.
NoHeap == [live |-> {},         \* [block, by, size] of every array allocated
           own |-> [o \in {"temporary", "g", "main"} |-> NoArrays],
           el |-> Null,         \* the edge list's memory
           faults |-> {},
           run |-> NoRun]

-----------------------------------------------------------------------------
\* Allocation.

Alloc(h, b, by, size) == [h EXCEPT !.live = @ \cup {[block |-> b, by |-> by, size |-> size]}]

NewArray(h, b) == Alloc(h, b, "new[]", 0)

\* delete[], numa_free, memkind_free or realloc of a block.  Only numa_free is
\* told its size.
Free(h, b, by, size) ==
    LET found == {x \in h.live : x.block = b}
        Fault(x) == IF x.by # by THEN {"wrong deallocator"}
                    ELSE IF by = "numa" /\ x.size # size THEN {"wrong size"} ELSE {}
    IN  IF b = Null THEN h
        ELSE [h EXCEPT !.live = @ \ found,
                       !.faults = @ \cup IF found = {} THEN {"freed twice"}
                                          ELSE UNION {Fault(x) : x \in found}]

-----------------------------------------------------------------------------
\* CSRGraph.

Placed == CASE build.neighs = "dram"  -> "new[]"
            [] build.neighs = "numa1" -> "numa"
            [] build.neighs = "nvm"   -> "memkind"

ReleaseResources(h, o) ==
    LET gr  == h.own[o]
        out == Free(Free(h, gr.out_index, "new[]", 0), gr.out_neighs, Placed, gr.num_edges)
    IN  IF gr.directed
        THEN Free(Free(out, gr.in_index, "new[]", 0), gr.in_neighs, Placed, gr.num_edges)
        ELSE out

\* Slip: the other graph keeps its pointers.
MoveTo_KeepsOther(h, to, from) ==
    LET r == ReleaseResources(h, to) IN [r EXCEPT !.own[to] = h.own[from]]

\* Both moves; a graph just declared has nothing to release.  The other graph
\* keeps directed_ only.
MoveTo(h, to, from) ==
    LET r == ReleaseResources(h, to)
    IN  [r EXCEPT !.own[to] = h.own[from],
                  !.own[from] = [NoArrays EXCEPT !.directed = h.own[from].directed]]

\* The two constructors.
Construct(h, o, gr, arrays) ==
    [h EXCEPT !.own[o] =
       [directed |-> gr.directed, num_edges |-> gr.num_edges,
        out_index |-> arrays.index, out_neighs |-> arrays.neighs,
        in_index |-> IF gr.directed THEN arrays.inv_index ELSE arrays.index,
        in_neighs |-> IF gr.directed THEN arrays.inv_neighs ELSE arrays.neighs]]

Arrays(index, neighs, inv_index, inv_neighs) ==
    [index |-> index, neighs |-> neighs, inv_index |-> inv_index, inv_neighs |-> inv_neighs]

-----------------------------------------------------------------------------
\* MakeGraph's three ways to a graph gr.

\* All arrays but the neighbours' are plain.
ReadSerialized(gr) ==
    LET size == num_edges_directed(gr)
        out  == Alloc(NewArray(NoHeap, "index"), "neighs", Placed, size)
        all  == IF gr.directed THEN Alloc(NewArray(out, "inv_index"), "inv_neighs", Placed, size)
                ELSE out
    IN  Construct(all, "main", gr, Arrays("index", "neighs", "inv_index", "inv_neighs"))

\* MakeCSR and SquishCSR allocate the same arrays, for one direction or two.
NewCSR(h, gr, arrays) ==
    LET out == NewArray(NewArray(h, arrays.index), arrays.neighs)
    IN  IF gr.directed THEN NewArray(NewArray(out, arrays.inv_index), arrays.inv_neighs) ELSE out

\* g = MakeGraphFromEL(el), and the temporary's destructor.
AssignG(h) == ReleaseResources(MoveTo(h, "g", "temporary"), "temporary")

\* An edge list allocates no memory before its first push_back.
NewEdgeList(edges) == IF edges = <<>> THEN NoHeap ELSE [NewArray(NoHeap, "el") EXCEPT !.el = "el"]

\* el goes out of scope, SquishGraph returns a new graph, g is destroyed.
BuildByCSR(gr, edges) ==
    LET csr   == Arrays("index", "neighs", "inv_index", "inv_neighs")
        sq    == Arrays("sq_index", "sq_neighs", "sq_inv_index", "sq_inv_neighs")
        made  == AssignG(Construct(NewCSR(NewEdgeList(edges), gr, csr), "temporary", gr, csr))
        no_el == Free(made, made.el, "new[]", 0)
    IN  ReleaseResources(Construct(NewCSR(no_el, gr, sq), "main", gr, sq), "g")

\* The edge list's memory becomes the neighbours by realloc, which to no bytes
\* only frees it; leak() keeps it from el's destructor.  MakeGraph returns g.
BuildInPlace(gr, edges) ==
    LET list   == NewArray(NewEdgeList(edges), "index")
        neighs == IF gr.num_edges = 0 /\ list.el # Null THEN Null ELSE "reallocated"
        moved  == [Free(list, list.el, "malloc", 0) EXCEPT !.el = Null]
        again  == IF neighs = Null THEN moved ELSE Alloc(moved, neighs, "malloc", 0)
        all    == IF gr.directed THEN NewArray(NewArray(again, "inv_index"), "inv_neighs") ELSE again
        made   == AssignG(Construct(all, "temporary", gr, Arrays("index", neighs, "inv_index", "inv_neighs")))
        no_el  == Free(made, made.el, "new[]", 0)
    IN  ReleaseResources(MoveTo(no_el, "main", "g"), "g")

MakeGraph(r, gr) ==
    LET edges == ReadFile(r.src, file[r.src], r.weighted).edges
    IN  [(IF r.src \in Serialized THEN ReadSerialized(gr)
          ELSE IF r.in_place THEN BuildInPlace(gr, edges) ELSE BuildByCSR(gr, edges)) EXCEPT !.run = r]

-----------------------------------------------------------------------------

OwnInit == Init /\ heap = NoHeap

\* Nothing can be said of a graph that is Unread.
OwnLoad == /\ Load
           /\ heap' = IF pc' = "loaded" /\ g' # Unread THEN MakeGraph(run', g') ELSE NoHeap

\* main returns.
OwnEndKernel == EndKernel /\ heap' = ReleaseResources(heap, "main")
OwnOpenFile  == OpenFile /\ UNCHANGED heap
OwnWrite     == Write /\ heap' = IF exited' = 0 THEN ReleaseResources(heap, "main") ELSE heap
OwnRest      == Rest /\ UNCHANGED heap

OwnNext == OwnLoad \/ OwnEndKernel \/ OwnOpenFile \/ OwnWrite \/ OwnRest

OwnSpec == OwnInit /\ [][OwnNext]_<<vars, heap>>

-----------------------------------------------------------------------------
\* Properties.

\* No array is freed twice, although an undirected graph holds each of its
\* arrays twice and graphs are moved and destroyed on the way to main
\* (graph.h:122-146, 187-221); a program that returns from main has freed all
\* of them.  They are freed by the function that belongs to their allocation,
\* and with its size, except in three cases that the code has: neighbours
\* built in place come from realloc; neighbours built from an edge list are
\* plain, yet freed as the placement's are; and numa_free is given half the
\* size of an undirected graph's.
HeapSound ==
    LET r == heap.run
    IN  /\ "freed twice" \notin heap.faults
        /\ "wrong deallocator" \in heap.faults =>
              r.src \notin Serialized /\ (r.in_place \/ build.neighs # "dram")
        /\ "wrong size" \in heap.faults =>
              r.src \in Serialized /\ build.neighs = "numa1" /\ ~heap.own["main"].directed
        /\ pc = "idle" /\ exited = 0 => heap.live = {}
=============================================================================
