# TLA+ models of the GAP benchmark suite

The repository (`src/`) is the GAP Benchmark Suite with memory-placement
variants: shared-memory graph kernels in C++ with OpenMP. This directory holds
TLA+ modules translated from that code, TLC configurations that check them on
small instances, and theorems about them that TLAPS checks. File names below
are relative to `src/src/`.

Run from this directory:

    tlc -workers 2 -config MCDOBFS.cfg MCDOBFS       # any run of PROJECT.json
    tlapm DOBFSProofs.tla                            # any module named *Proofs

`PROJECT.json` lists components, runs, the mapping from definitions to source
lines, hazards, findings and theorems.

## 1. Inventory

A program reads or generates an edge list (`reader.h`, `generator.h`), builds a
CSR graph (`builder.h`, `graph.h`), and runs one kernel in repeated trials
(`benchmark.h`), each followed on request by a serial verifier. There is no
network, no persistence beyond graph files and no error recovery: a failure
exits. What is hard is the shared memory inside the kernels' parallel regions,
where threads race on plain and atomic accesses by design, and the arithmetic
of array building.

| component | state | operations | interacts with | hard behaviour | correct when |
|---|---|---|---|---|---|
| `sliding_queue.h` | one array, next free slot, window; per-thread buffers | push_back, flush, slide_window, reset | bfs, bc | claim and copy of a flush are apart; no bounds check; slots never recycled | double buffering, nothing lost or held twice, no overflow |
| `bitmap.h` | words of 64 bits | set_bit, set_bit_atomic, get_bit, reset, swap | bfs, bc, cc verifiers | a bit is set by rewriting its word | no lost bits |
| `graph.h` | index and neighbour arrays, owned by one object | degrees, neighbourhoods, moves, release | everything | three allocators, moves | neighbourhoods are the edges; each array is freed once by its own allocator |
| `bfs.cc` | parent, queue, two bitmaps, counters | TDStep, BUStep, two conversions, direction switch | queue, bitmap, graph | racing claims, plain set_bit, stale bits, switching | shortest-path tree, terminates |
| `cc.cc` | comp | Link, Compress, sampling, final phase | graph | lock-free union-find with racing links and compression | labels are exactly the components, terminates |
| `cc_sv.cc` | comp, change | hook, compress, pass loop | graph | hooks without compare-and-swap get lost | as above |
| `sssp.cc` | dist, thread-local bins, frontier, double-buffered index and tail | RelaxEdges, fusion, vote, copy | graph | two barriers, unawaited single, stale bin entries | exact distances, order of bins, terminates, copies stay inside the frontier |
| `bc.cc` | depths, path counts, successor bits, depth index, scores | PBFS, back-propagation, normalisation | queue, bitmap | claim against count, implicit barrier | scores of Brandes' algorithm, in [0,1] |
| `builder.h` | edge list, degrees, offsets | CountDegrees, ParallelPrefixSum, MakeCSR, SquishCSR, MakeCSRInPlace, RelabelByDegree | graph, pvector, generator | concurrent placement, overlapping moves in place, out-of-range read | the CSR graph has exactly the edges, sorted, without loops or duplicates |
| `reader.h`, `writer.h`, `converter.cc` | files | one parser per format, serialized form | builder | types checked in two places, end of input, a file emptied before a refusal | what is written is read back, or refused |
| `generator.h` | random generators | uniform and R-MAT lists, permutation, weights | builder | blocks generated by any thread | list independent of schedule |
| `pvector.h` | three pointers, memory type | growth, moves, leak, swap | all | ownership | freed once, by the right allocator |
| `benchmark.h` | source pickers, trial loop | PickNext, TopK, BenchmarkKernel | kernels | two pickers in step, retry loop | verifier judges the source the kernel used |
| `tc.cc` | none shared but a reduction | OrderedCount, relabelling heuristic | builder | an iterator without an end, early exits of three loops | number of triangles |
| `pr.cc`, `pr_spmv.cc` | scores, contributions | in-place and Jacobi iteration | graph | floating point, racy reads | error below a bound |
| `platform_atomics.h` | - | fetch_and_add, compare_and_swap | all | compiler variants | one atomic step |
| `command_line.h`, `timer.h`, `util.h` | options | parsing, printing | mains | - | - |

## 2. Modules

    SlidingQueue ──refines──> DoubleBufferedQueue
         │ INSTANCE
    DOBFS ──refines──> LevelBFS            CSRGraph, OpenMP, Bitmap: EXTENDed
    Afforest ─────refines──> ComponentMerging
         └ LabelForest ┘ (EXTENDed by Afforest and ShiloachVishkin)
    DeltaStepping
    BetweennessCentrality ──INSTANCE──> SlidingQueue

    CSRArrays
      ├── Generator <──EXTENDS── Builder <──EXTENDS── TriangleCount
      └── GraphFile <──EXTENDS── Ownership

    CSRGraphProofs <──EXTENDS── LabelForestProofs <──EXTENDS── AfforestProofs,
         ↑ EXTENDS                                             ShiloachVishkinProofs
    DOBFSProofs, DeltaSteppingProofs, BetweennessCentralityProofs
    DOBFSProofs, BetweennessCentralityProofs ──INSTANCE──> SlidingQueueProofs

The upper modules are kernels, and take a graph as a set of edges (`CSRGraph`).
The lower ones say where a graph comes from: `Builder` makes its arrays from an edge
list, read or generated, and shows that they are `GraphOf` the arcs asked for (`GraphExact`).
`GraphFile`, which is about files and formats, uses that definition in the builder's
place. `TriangleCount` runs on Builder's own result.

**How concurrency is modelled.** A kernel is one module. Serial code between
parallel regions is done by master actions; in a region every thread has a
program counter and takes one step per access to shared memory that another
thread may conflict with. Accesses that touch only thread-local data, or data
nobody else writes during the region, are part of the neighbouring step, and the
comment at the action says which. `OpenMP` gives a region its division of
iterations: *every* division is tried (`Schedules`), so a result holds for
static, dynamic and guided schedules and for idle threads; `ChunkSchedules` does
the same for chunks where a schedule clause fixes their size. Threads execute
their own iterations in ascending order, as OpenMP guarantees. Memory is
sequentially consistent, with reads and writes of one aligned word atomic.
That is what the x86 build gives for the code as written, but a compiler may keep
the plain racy reads of `cc.cc` and `cc_sv.cc` in registers, and the models do not
cover that.

**SlidingQueue** (`sliding_queue.h`). `shared`, `shared_in`, `shared_out_start`,
`shared_out_end` are the class's fields; the array is written where the code
writes it, so an index out of bounds shows as a larger domain. `local_queue[t]`
is the content of thread t's `QueueBuffer`, and `copy_start[t]` is set while t is
inside `flush`. `flush` is two actions, `Claim` (the fetch_and_add) and `CopyOut`
(the copy and `in = 0`). `Next` lets threads push and flush freely and allows the
serial operations when all buffers are empty: that is the protocol of the
callers, and DOBFS is checked to follow it (`FollowsQueueProtocol`).

**Bitmap** (`bitmap.h`). The set of positions whose bit is 1. `set_bit` takes the
word its load returned, so that kernels model the load and the store as two
steps and a store brings old neighbour bits back.

**CSRGraph** (`graph.h`). Queries over a graph given by its edges, and reference
definitions (distances, components) that the verifiers compute serially.

**DOBFS** (`bfs.cc`). The regions are `Q2B*`, `BU*`, `TD*`, `B2Q*`; the master's
actions are named for what they start or end and carry the counters of lines
124-175. `PushBack` and `Flush` drive the instance `Q` of SlidingQueue with the
module's own variables, so DOBFS *is* the queue's user rather than a
reimplementation. `BUVisit` covers the scan of one vertex in one step, because
during BUStep nobody writes `front` and only the owner of a chunk writes that
vertex's `parent`. `depth` is auxiliary. `BFSVerifier` is the program's own check.

**LevelBFS** states what any level-synchronous search does. DOBFS implements it
under a mapping that forgets everything but the visited part of `parent`.

**LabelForest** (`Compress` of `cc.cc`, lines 75-80 of `cc_sv.cc`): the label array and its flattening loop, with the
load and store of `comp[n] = comp[comp[n]]` apart. **Afforest** (`cc.cc`) adds
Link read by read (`nbrs` is what a thread's iteration has still to link, of the outgoing
and of the incoming list; `p1`, `p2`, `high`, `p_high` are Link's locals; the two
dereferences of `comp[comp[high]]` are two steps), the sampling rounds, the
sampled label (any label present, since 1024 random draws may return any) and
the final phase for directed and undirected graphs. **ComponentMerging** is its
specification: parts of the vertex set are merged along edges and never split.
**ShiloachVishkin** (`cc_sv.cc`) has the root test and the hook's write apart.

**DeltaStepping** (`sssp.cc`). One parallel region; every thread has its own
`iter` parity, bins and locals of RelaxEdges. `Vote` is a critical section.
`Single` is taken by the first thread, and `PassSingle` lets the others go on
(`nowait`). `Claim` and `Fill` are the halves of the copy. The frontier is written
where the code writes it. `nbrs` holds the neighbours that RelaxEdges has still to
reach; it takes the smallest first, as the sorted lists have them. The module assumes
what the code's limits stand for: weights are not negative, and every
distance below `kDistInf` has a bin below `kMaxBin`. `Distances` lowers all
distances once for each vertex, which is what the verifier's search comes to.

**BetweennessCentrality** (`bc.cc`, and SourcePicker and BenchmarkKernel of `benchmark.h`). PBFS is one
parallel region whose threads claim vertices, set successor bits (load and
compare-and-swap apart) and add path counts; the queue is an instance of
SlidingQueue, as in DOBFS. `Barrier` is line 84; `Single`, `PassSingle` and
`EndSingle` are the `omp single` and its implicit barrier. `depth_index` holds
the slots at which levels begin. Back-propagation is a step for each vertex
(`BackVertex`), in any order within a level. Scores are fractions, so that sums are
exact. `Verify` ends a trial: the verifier draws as many sources from a picker of its own
(`vsp`), which has the seed of the kernel's (`sp`), so that the k-th call of either returns
`picks[k]`. The scores are compared with BCVerifier on those sources and with what dependencies stand for:
shares of the shortest paths of each pair. The pairs include paths that begin in the
vertex itself, which betweenness proper leaves out: the kernel and its verifier
both add the dependency of the source to the source's own score (lines 132, 208).

**CSRArrays** (`graph.h`). A graph as its arrays: functions on index ranges that
start at 0, pointers as offsets into the neighbours. An unweighted neighbour has
weight `NoWeight`. `GraphOf` is the graph that given arcs should become.

**Generator** (`generator.h`). What a block of edges or weights holds, given the
random number generator it is begun with, and the whole lists as the seeds alone
determine them. `mt19937` is a constant operator, so nothing depends on what the numbers
are. A number stands for one result of a distribution, however many words of the real
generator it takes.

**Builder** (`builder.h`). `phase` is where the serial code stands. `MakeCSR` forks
the threads; each edge is `ClaimU`/`ClaimV` (the fetch_and_add) and
`StoreU`/`StoreV` (the word), so that all threads race for slots in shared
lists. CountDegrees and ParallelPrefixSum are operators: their threads write
disjoint or atomic words and meet at a barrier before anybody reads. The
in-place path is serial, a step for each of its loops: `SquishEL`, `Overwrite`,
`CountMissing`, `MakeRoom`, `SpreadOut`, `AddInverses`. They work on the words
of the edge list's memory, where an edge is two words and a neighbour is one, so
reading an overwritten or unwritten word has its effect. Generated lists begin as
garbage: `GenerateBlock` and `WeighBlock` let any thread take a block, with a
generator (`rng`) that outlives it. `BeyondArray` is what
line 252 may find behind its vector.

**TriangleCount** (`tc.cc`, and RelabelByDegree of `builder.h`). `WorthRelabelling` gives
every answer that some draw of samples leads to. `Scan` moves the iterator of
line 59 over the words of the *whole* neighbour array, as the code does; that it
stays in u's list is a property (`IteratorInList`). An iteration of the parallel
loop is one step, since iterations share nothing but the reduction.

**GraphFile** (`reader.h`, `writer.h`, `converter.cc`). There is one file per suffix
and a sequence of program runs, each compiled with the same types (`build`). A
run is `Load`, then either a kernel that ends or the converter's `OpenFile` and
`Write`. Text files are sequences of numbers or lines; serialized ones sequences of
words, of which a weighted destination takes two. `meaning` is auxiliary: what a
file's author put into it. The constant `BlankAtEnd` of the MC module says whether lines of
`.graph` files end with a blank. It is assumed that the converter's outputs are
named as `README.md` and `benchmark/bench.mk` name them: a weighted graph written
to a `.sg` file would be misread, since the file itself does not say.

**Ownership** (`graph.h`, the allocations of `builder.h`, `reader.h`, and `leak` of
`pvector.h`) adds to each of GraphFile's runs the arrays it allocates, with what, and
who holds them. The objects are the temporary of MakeGraphFromEL, MakeGraph's `g`, and main's
graph. `Free` records a fault if a block is freed twice, by another function than the one that
belongs to its allocation, or (numa_free) with another size.

Operators named `X_Something` under a comment "Slip:" are variants of `X` with a
plausible bug. No specification uses them; they serve to confirm that each
property would notice (PROJECT.json, `mutants`).

## 3. Runs

Each takes from a second to two minutes with two workers.

| run | instance | what it shows |
|---|---|---|
| `sliding_queue` | 2 threads, 4 elements, 4 slots, buffers of 2 | all interleavings of pushes, claims and copies; types, `ClaimsApart`, `HeldOnce`, `NoOverflow`, `WindowStable`; refinement of the double-buffered queue |
| `dobfs` | 3 graphs of 7 vertices, every source, alpha 1, 4, 8, beta 4, words of 2 bits, chunks of 2, buffers of 1, fair | levels are handed on whole (`FrontierIsLevel`), no bit lost, stale bits harmless, queue protocol kept, LevelBFS implemented, result accepted by BFSVerifier, termination |
| `afforest` | undirected graphs of 4 vertices with 3 edges, two cycles, 10 directed ones with reversed edges; 0 or 2 sampling rounds, fair | labels descend, unions only along edges, compression flattens, no edge skipped, labels are exactly the components, termination |
| `shiloach_vishkin` | forests and cycles of 4 vertices, undirected and directed, fair | sound labels, lost hooks made up for, flat at each pass, verifier accepts, termination |
| `delta_stepping` | 64 weightings of a 4-vertex graph and the graph without edges, every source, delta 1, 2, 3, fusion threshold 3, fair | order of bins, nothing forgotten, exact distances, termination |
| `delta_stepping_frontier` | a 7-edge graph, delta 100 | violation: eight entries copied into seven slots |
| `betweenness` | a directed and an undirected graph of 5 vertices with two shortest paths; one trial with two drawn sources, two trials with one; words of 3 bits, buffers of 1, fair | successor bits, path counts and levels exact, scores accepted by BCVerifier and equal to pair shares, every search ends |
| `betweenness_range` | the same graphs, source drawn or vertex 4 | violation: scores in [0,1] |
| `triangles` | 3 threads; every edge list of up to 4 edges over 3 vertices, both ways of building, directed and symmetrized; lists with parallel weights; in place, 4 to 6 arcs over 4 vertices, K4 and a wheel; uniform and R-MAT lists of 4 edges over 4 vertices, weighted or not, and of 8 edges in place; blocks of 2 | the lists are what the seeds say (`SeedsDecide`), no slot claimed twice (`SlotsOnce`), the graph exact (`GraphExact`), the iterator stays in its list, triangles counted as the verifier and the definition count them |
| `builder_in_place` | as above, the word behind `invs_needed` 0 or 1 | violation: a graph built from the wrong words |
| `graph_files` | 18 documents in all text formats, 6 builds, 3 program runs, with `-s`, `-m`, `-w`, `-b`, `-e` in all combinations | serialized files give back the graph (`RoundTrip`), a broken one is never read (`NoBrokenRead`), all formats agree (`FormatsAgree`), every array is freed once (`HeapSound`) |
| `metis_last_neighbor` | as above, lines of `.graph` end with a digit | violation: the last neighbour of each line is lost |

Each module has one type invariant. Except in SlidingQueue it is the first conjunct
of another property (`FrontierIsLevel`, `CompressFlattens`, `LabelsSound`,
`PriorityOrder`, `PathsExact`, `SlotsOnce`, `RoundTrip`).

**Why these bounds.** Two threads suffice for the races: each hazard in the list
is between one thread's read and its write, and any number of third parties acts
between them as one other thread can. Buffers of 1 or 2 force flushes in the middle of
a region; a capacity equal to the number of elements makes the last slot be
used. Words of 2 bits make neighbouring vertices share a word, and a chunk of
2 keeps the relation of 1024 to 64, a multiple of the word. The seven-vertex graphs were made so that
the search starts bottom-up, returns to the queue, goes top-down, and turns again
with old bits in `front`, and so that two threads race for the same children;
with 3 vertices the bottom-up phase would never come twice. Four vertices let two
links race on one root while a third tree is being attached. Weights of 1 and 3
with delta 1 to 3 make a vertex move to a lower bin, stay in its bin, or be
reinserted while it is fused; threshold 3 makes some bins too large to fuse.
In `betweenness` two threads count paths into one vertex and set two bits of one
word, and a second source shows that what the first one left behind (queue, bits,
counts) does not matter.
In `triangles` three threads claim slots of one list, and four edges over three
vertices bring repetitions, self-loops, edges in both directions and empty
lists; blocks of 2 give a prefix sum more than one block. Moving entries up in place goes wrong, if
it does, where lists before and behind grow by different amounts: six arcs over
four vertices have all patterns of missing inverses up to three in a list. A
wheel has triangles at its hub and none outside; `MinAverageDegree` 1 and
`MaxSamples` 3 let the heuristic answer both ways. In `graph_files` three runs are a
conversion to text or words, a second one from there, and a kernel; a
refused write followed by a read needs two. `InsertedWeight` stands for all drawn
weights and differs from each weight in a document.
`kDistInf` and `kMaxBin` exceed every distance and bin index that occurs, and
`kDistInf <= kMaxBin`, as half the largest 32-bit and 64-bit integers are.

**Fairness.** The master is weakly fair, and each thread is (`WF` of its whole
step; in BetweennessCentrality `Team`, what happens at barriers, in place of the
master, since only the search has a liveness property): the operating system runs every thread of a team again and again, and a
thread that runs can always take its next step unless it waits at a barrier. No
fairness is assumed of particular outcomes, so a compare-and-swap may fail as
often as others change the word. Specifications without liveness properties
assume none. Deadlock is checked in every run; where a kernel has returned,
the disjunct `Returned` stutters.

**Findings.**

* `sssp.cc:98` gives the frontier one slot per directed edge. A vertex processed
  twice in one bin with a better distance each time enters its neighbours twice,
  and the copy of line 147 runs past the end. `FrontierFits` fails. It takes a
  delta large against some path, and a single thread suffices. All other
  properties of that module hold because the model lets the array grow.
* `bc.cc:31` says scores are normalized to [0,1]. With `-r` and a vertex without
  out-edges all scores are 0, and line 145 divides 0 by 0: every score is NaN
  (`NormalizedRange`; drawn sources always have out-edges). BCVerifier
  divides the same way and does not notice.
* `builder.h:252` adds `invs_needed[num_nodes_]`, a word behind the vector, to the
  number of missing inverses. The copy that follows reads that many words below
  where it should, so `-m -s` is right only if the word is 0
  (`GraphExact` in `builder_in_place`).
* `reader.h:140` extracts a neighbour and the white space behind it in one
  condition. At the end of a line without trailing blank the second extraction
  fails and the neighbour is dropped (`FormatsAgree` in
  `metis_last_neighbor`; libstdc++ behaves so since version 11).

**Remarks.** Met while modelling; no run contradicts a statement of the
repository here, and the properties hold with these cases written into them.

* `bfs.cc:35` says an unvisited vertex has `parent[x] = -out_degree(x)`; line
  120 stores -1 where the degree is 0, as it must, and lines 170-174 make all of
  them -1 in the end. The mutant `InitParent_Plain` shows what the comment's
  encoding would do.
* With the types committed in `benchmark.h` and `graph.h` (32-bit weights, 64-bit
  SGID) no `.wsg` file can be written: the writer exits with -8, after it emptied the file,
  although `README.md` and `benchmark/bench.mk` make `.wsg` files.
* `-m -s` exits with -33 ("Call to realloc() failed") for an edge list of
  self-loops only, because realloc to no bytes returns a null pointer.
* `-s` and `-m` have no effect on a serialized file. A skew-symmetric matrix is
  read as a general one. Isolated vertices behind the last edge are lost in every
  text format, and the vertex count in a Metis or DIMACS header is not used.
* Neighbours built in place come from `new[]`, pass through `realloc` and end in
  `delete[]`. Neighbours built from an edge list are plain and, with `NEIGH_ON_NUMA1` or
  `NEIGH_ON_NVM`, freed by numa_free or memkind_free. An undirected graph read
  onto NUMA memory is freed with half its size. `HeapSound` names these three
  cases and rules out all others.

## 4. Proofs

TLC's runs fix a graph of a few vertices and two or three threads. The theorems
hold for every set of graphs over `0 .. NumNodes - 1`, every finite set of
threads, every division of the iterations that `OpenMP` allows, every interleaving,
and every value of the kernels' parameters.

| theorem (module) | states |
|---|---|
| `TypeCorrect`, `ClaimsAreApart`, `ElementsHeldOnce`, `NeverOverflows` (`SlidingQueueProofs`) | `[]TypeOK`, `[]ClaimsApart`, `[]HeldOnce`, `[]NoOverflow` |
| `WindowIsStable`, `Refinement` (`SlidingQueueProofs`) | `WindowStable`, `RefinesDoubleBuffer` |
| `QueueIsLevel` (`DOBFSProofs`) | `[]FrontierIsLevel`, type correctness included |
| `BitsAreKept`, `StaleBitsAreHarmless` (`DOBFSProofs`) | `[]NoBitLost`, `[]StaleFrontHarmless` |
| `ResultIsVerified` (`DOBFSProofs`) | `[]VerifierAccepts` |
| `QueueProtocol`, `Refinement` (`DOBFSProofs`) | `FollowsQueueProtocol`, `RefinesLevelBFS` |
| `RoundsStartFlat`, `SkippingIsSafe`, `ResultCorrect` (`AfforestProofs`) | `[]CompressFlattens`, `[]NoEdgeSkipped`, `[]VerifierAccepts` |
| `LabelsOnlyDescend`, `Refinement` (`AfforestProofs`) | `LabelsDescend`, `RefinesComponentMerging` |
| `LabelsStaySound`, `PassesStartFlat`, `HooksRetried`, `ResultCorrect` (`ShiloachVishkinProofs`) | `[]LabelsSound`, `[]PassStartsFlat`, `[]LostHookRetried`, `[]VerifierAccepts` |
| `BinsInOrder`, `NoImprovementLost`, `ResultCorrect` (`DeltaSteppingProofs`) | `[]PriorityOrder`, `[]NothingForgotten`, `[]VerifierAccepts` |

| `TypeCorrect`, `PathsExactHolds` (`BetweennessCentralityProofs`) | `[]TypeOK`, `[]PathsExact` |
| `ScoresVerified` (`BetweennessCentralityProofs`) | `[](phase = "verify" => VerifierSources = {sources} /\ BCVerifier)`, half of `VerifierAccepts` |
| `QueueProtocol`, `LevelsTogether` (`BetweennessCentralityProofs`) | `Q!Spec`; once a thread has left the search loop, the window is empty and every other thread has left it or is about to |

So for the queue and the kernels of `bfs`, `cc`, `cc_sv` and `sssp` every safety property that a
passing run checks, including action properties and refinements, is a theorem; what remains of
their runs is `Termination`, and of the run of `bc` also that the scores are pair shares. Every
module's invariant is a theorem `Invariance` of its own.

**Assumptions.** Only those that the modules declare: at least one vertex and one
thread, graphs whose edges join their vertices, positive parameters, the weights and limits
of DeltaStepping named in section 2, and in DOBFS a
chunk that is a multiple of the word (1024 and 64, line 51 of `bfs.cc`). `BitsAreKept`
uses that one where two threads would otherwise share a word.
`SlidingQueue` assumes no more elements than slots; for the queues of `bfs` and `bc`,
"one slot per vertex" (line 133 of `bfs.cc`, line 104 of `bc.cc`), `QueueAssumptions` proves it
in each proof module.

**SlidingQueue.** The inductive invariant `IInv` is the conjunction of the four state
properties. None is inductive alone. `TypeOK` says that `shared` keeps its domain, for which
a claim has to end within the capacity, and no action checks that; so `NoOverflow`
is needed. It in turn follows from counting: `HeldOnce` and
`ClaimsApart` give each slot below `shared_in` an element of its own, the one it
holds or the one about to be copied to it, and a thread's buffer continues the
numbering; this is an injection of the slots into `Elem` (lemmas `SlotBound`,
`Room`, `Fit`), hence at most `Capacity` of them. `HeldOnce` in
turn needs `ClaimsApart` where a copy writes (`CopyOutStep`) and the callers'
`Fresh` where an element enters. `Refinement` shows that pushes are appends, that
claims and copies change nothing a caller can tell (`ClaimIsStutter`,
`CopyIsStutter`), and that sliding and resetting are what the abstract queue says.
These theorems assume the callers' protocol as part of `Next`.

**DOBFS.** The proof uses the queue's theorems instead of looking inside: to the
search, the queue is three sets, what is in the `Window`, what is `Hidden` behind it,
and what was ever `Pushed` and not yet reset, and one lemma for each operation says how it changes them. `IInv`
names the level d that is being expanded and says, for each region, where
every vertex of the levels d and d + 1 is. In `TDStep`, for instance, the window
is level d; an edge out of it leads to a visited vertex or is still in some
thread's share (`EdgesLeft`); a vertex claimed is queued or in the hands of the one thread
whose compare-and-swap succeeded (`ClaimsKept`, `PushersApart`), which is why it is pushed once; and the value a thread is about
to compare with is the parent still there, unless the vertex has been visited since
(`TDThreadOK`). In `BUStep` every vertex of level d + 1 has its bit in
`curr` or is in the chunks a thread has left (`ChunksApart` makes it that thread's alone, so a store
brings no old bit back). `StaleOK` runs through all regions: a bit of `front` outside
level d belongs to a vertex whose out-neighbours are all visited. `VerifierAccepts` follows
since every claim gives a vertex of level d + 1 a parent in level d (`Claims`), and the
same fact is the refinement's step. `QueueProtocol` needs the invariant where a vertex
enters the queue: it has to be fresh, that is, visited in this level and pushed by
nobody. With that theorem nothing about the queue of `bfs` is
assumed of its caller any more.

**Shared lemmas.** `CSRGraphProofs` has what several kernels need: the hop distances are a
fixed point of the edge relation (`DepthFacts`), a component is closed
under edges and generated by them, each vertex of a loop falls in one
thread's share (`Divides`), chunks do not overlap, the degrees that `reduced` and `scout_count` add
stay bounded. `LabelForestProofs` has the trees of a label array with `comp[n] <= n`
(the root that `RootIn` computes by following labels, what a write of one label does to it) and the proof of the
compress loop: a label that a thread has read is an ancestor, still, when it is
stored, because other threads only replace labels by ancestors, and a finished vertex is
labelled with a root, because roots do not change during the loop.

**Afforest.** A label can be stale by any amount when Link uses it. What stays true
is the tree it is in, since trees only merge: so `LinkSound` describes a thread's
locals up to the tree (`Same`), and every step is shown to satisfy `Joins`: vertices with one root keep one
root. A compare-and-swap can win only on a root (`LinkCasJoins`), which
it hangs below a smaller vertex of the same component. `Progress`
accounts for edges: each is within a tree, still in a thread's share, or was skipped at
an end that is in the tree of the sampled label. For an undirected graph both orientations of
an edge are listed, so it is skipped only if both its ends are in that tree; for a directed
one the last phase goes through incoming lists as well. Either way the two ends end up together
(`SkippingIsSafe`), for whatever label the sampling returned. The rounds
count only because the neighbour of rank i is the first of those from i on
(`LeftOutWasSampled`). With labels that never leave a component, flat trees and no edge
between two trees, the labels are the components (`ResultCorrect`); that the verifier's traversal accepts them follows.

**ShiloachVishkin.** Hooks may be overwritten, so a tree can lose what it was joined with
and there is nothing like `Joins`. What is invariant is `InComponent` (a label is in its vertex's component),
and, as long as `change` is false, `QuietPass`: no label has been written in this pass, hence what
threads have read is true and each edge examined joins two vertices of one label. A hook that was
lost has set `change`, and the pass that ends the loop is a quiet one over all edges.

**DeltaStepping.** A bin entry is only a vertex; whether it still means anything depends on
the vertex's distance, which other threads lower meanwhile. So `IInv` does not follow entries. It
says of each *edge* that could still shorten a path (`Tense`) who attends to it: some
thread has the edge's tail in its own bin for the tail's present distance, in its share
of the frontier (where the tail passes the test of line 117) or in its fused copy, or is
relaxing that very edge with a distance it has read and not used yet (`Attends`). A
compare-and-swap that lowers a vertex makes edges out of it tense, and puts the vertex where
they are attended to (`CasEffect`); one that fails has been overtaken and looks again, and a thread gives an edge up
only when it is not tense. While the threads work (`Work`), everything below the current bin is empty and
`Settled`: distances there are final, since a shortest path to a vertex that is not final has a first edge that is
tense (`SettledBelow`), and its tail would wait in a lower bin. Fusion keeps this although a thread
runs ahead of the others, because what it relaxes lies in the current bin. The vote is a minimum over all
threads, so at the barrier the next bin is the lowest that holds anything (`Barrier1Keeps`).
While the threads copy (`Copy`), what a thread has not copied yet is still in its bin and what it has
copied is in the slots it claimed, which are its own. `shared_indexes[curr]` is
reset by whoever comes first, which the others never read again: each of them reads the other index from there on, and
this is what makes the missing barrier behind the `single` harmless. Distances never fall below the true ones
(`Sound`), and without tense edges they are the true ones (`DistancesClosed`), so the end,
where no bin is left, is `ResultCorrect`. The frontier's length plays no role: it is the array that grows beyond
its allocation (`FrontierFits`), and the theorems hold for the array as the code writes it.

**BetweennessCentrality.** The queue is used through its theorems, as in DOBFS, and the search
part of `IInv` (`WorkOK`) is about the level k that is being searched. It is written in terms of
*edges*: `Left(t)` is what thread t has still to deal with, of its slots of the window and of
the vertex in its hands, and no edge is left to two threads (`Apart`). An edge on a shortest
path that nobody has left is `Counted`; one that at most waits for its count is `Marked`. Then
`path_counts` is at every moment the sum over the counted edges (`PathSums`) and `succ` the
marked ones, no matter which thread claimed the vertex at their end. The claim enters
only where a vertex is pushed: a vertex of the next level that has been visited and is not
queued is in the hands of the thread that won the compare-and-swap (`ClaimsKept`). Since
`path_counts` of level k are no longer written while the level is searched, adding them
along the edges of a level keeps the equation (`CountStep`), and when the level is over all its
edges are counted. Between two barriers (`SlideOK`) every thread stands at the `omp single`, and
only one of them moves the window and records where the level ends (`Recorded`); hence all
threads test the same window, and `LevelsTogether` follows. At the end the equation is the
recursion of the verifier, which only one function satisfies (`CountsUnique`). The way back
has the vertices whose dependency is done (`Summed`): all levels from `d` on and those of level
d - 1 whose slot has been taken. A dependency reads only those of the next level, which
do not change any more (`BackVertexStep`), so any order within a level gives the verifier's fractions
(`DeltasAre`); and a source's dependencies are added to the scores once (`LastLevelScores`). That sums over a set
do not depend on how a member is picked first, and what one of them gains when a member is added,
are lemmas about the folds of the community modules (`FoldAgree`, `SumAdd`, `TotalAppend`); fractions are shown
to stay in lowest terms under the operations used. The pickers are in step since the verifier's calls so far and
this trial's sources make up the calls of the kernel's (`PickersOK`). That dependencies are what they stand for, the shares of all
pairs' shortest paths, is Brandes' theorem about graphs and not about this code; it is checked
by the run and not proved.

**Recursion and induction.** `Within`, the hop distances and the roots are recursive
functions. The library's theorems of natural induction take a predicate as a
parameter, which no installed prover can instantiate. `CSRGraphProofs` therefore casts induction as membership:
`NatInduct` says that a set with 0 and closed under successor contains `Nat`, and
follows from the well-foundedness of `<` (`NatLeast`); `IteratesExist` replaces recursive
definitions in proofs by a list of the iterates.

**Only model-checked:** liveness (`Termination` of every kernel; out of the prover's reach, like
ENABLED); the pair shares in `VerifierAccepts` of BetweennessCentrality; Builder, TriangleCount,
GraphFile and Ownership, whose reference definitions are what the builder's folds compute, and
exhaustive tables of documents.

## 5. What is not modelled

* PageRank: its result is a floating-point limit, and what its races do is
  bounded only numerically.
* `pvector`'s growth, and its moves, which do not carry the memory type: no
  object that is moved on the modelled paths has one other than the default.
* TopK, which orders what is printed, and the trials of the kernels other than
  `bc.cc`, which share nothing between trials but the pickers.
* PickNext's loop as a loop: over a graph without edges it never ends.
* Malformed text: missing numbers, vertices out of range, files without
  suffix, a `.graph` file with fewer lines than vertices.
* Option parsing, timers, printing.
* Weight arithmetic at the limits of 32 bits in DeltaStepping; weak memory and
  compiler caching of racy reads.
* The variants of atomics for other compilers. NUMA and persistent memory are
  modelled as allocators (Ownership), not as places.

## 6. Plan

1. Proofs. `SlotsOnce` of Builder from "the offset of a vertex lies
   between its row's ends and counts what was claimed"; `IteratorInList` of TriangleCount from sorted lists that a
   vertex of their own bounds.
2. `pvector` with growth and memory types.
