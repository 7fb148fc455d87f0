------------------------------ MODULE Builder ------------------------------
(***************************************************************************)
(* BuilderBase (src/src/builder.h): an edge list that was read, or that    *)
(* the threads of a Generator make, becomes a CSRGraph.  The usual path    *)
(* counts degrees, lets all threads place the edges through atomic offsets *)
(* into one array, and squishes the result.  The in-place path (-m) sorts  *)
(* the edge list and turns its own memory into the neighbour array, with   *)
(* or without the missing inverse edges.                                   *)
(***************************************************************************)
EXTENDS Generator

CONSTANTS Inputs,       \* command line and the edge list read, of the builds considered
          BlockSize,    \* of a prefix sum, 1 << 20 in the code
          BeyondArray   \* what may lie behind the last element of invs_needed

ASSUME InputsAssumption ==
    \A i \in Inputs : /\ i.el \in Seq(Nat \X Nat \X Nat)
                      /\ {i.needs_weights, i.has_weights, i.symmetrize, i.in_place} \subseteq BOOLEAN
                      /\ ~i.has_weights => \A k \in DOMAIN i.el : i.el[k][3] = NoWeight
                      /\ i.gen = NoGenerator \/ (i.gen.scale \in Nat /\ i.el = <<>> /\ ~i.has_weights)
ASSUME BuilderAssumption == BlockSize \in Nat \ {0} /\ BeyondArray \subseteq Nat

VARIABLES input,              \* options, the list read or the generator's parameters
          phase,              \* where the serial code stands
          num_nodes,
          el,                 \* the EdgeList, squished by the in-place path
          transpose,          \* parameter of the MakeCSR call being executed
          index, offsets,     \* row pointers; the offsets move as slots are taken
          neighs,             \* the array being filled, in place el's own memory
          first,              \* out-going arrays while the inverse is built
          indegrees,
          invs_needed, total_missing_inv,
          todo, pc, slot,     \* [Thread -> iterations left, step, claimed slot]
          rng,                \* [Thread -> its random number generator]
          graph               \* the result

inPlace == <<indegrees, invs_needed, total_missing_inv>>
threads == <<todo, pc, slot, rng>>
vars    == <<input, phase, num_nodes, el, transpose, index, offsets, neighs,
             first, inPlace, threads, graph>>

Vertices == 0 .. num_nodes - 1
Nothing  == <<>>

\* Outcomes that end the build.
Ended == {"done", "exit -30", "exit -33", "undefined"}

-----------------------------------------------------------------------------
\* Helpers of both paths.

FindMaxNodeID(edges) == Max({0} \cup UNION {{e[1], e[2]} : e \in ToSet(edges)})

\* The threads add with fetch_and_add and nobody reads a degree before the
\* loop's barrier, so only the sums matter.
CountDegrees(edges, trans) ==
    [n \in Vertices |->
        (IF input.symmetrize \/ ~trans THEN Cardinality({i \in DOMAIN edges : edges[i][1] = n}) ELSE 0)
      + (IF (input.symmetrize /\ ~input.in_place) \/ (~input.symmetrize /\ trans)
         THEN Cardinality({i \in DOMAIN edges : edges[i][2] = n}) ELSE 0)]

\* Slip: a block does not start at the sum of the blocks before it.
ParallelPrefixSum_LocalOnly(degrees) ==
    [i \in 0 .. Cardinality(DOMAIN degrees) |->
        SumFunctionOnSet(degrees, (i \div BlockSize) * BlockSize .. i - 1)]

\* Blocks are summed apart, then each is filled in from its own start.
ParallelPrefixSum(degrees) ==
    LET size       == Cardinality(DOMAIN degrees)
        num_blocks == (size + BlockSize - 1) \div BlockSize
        Start(b)   == b * BlockSize
        local_sums == [b \in 0 .. num_blocks - 1 |->
                        SumFunctionOnSet(degrees, Start(b) .. Min({Start(b + 1), size}) - 1)]
        bulk_prefix == [b \in 0 .. num_blocks |-> SumFunctionOnSet(local_sums, 0 .. b - 1)]
    IN  [i \in 0 .. size |->
            IF i = size THEN bulk_prefix[num_blocks]
            ELSE bulk_prefix[i \div BlockSize]
                   + SumFunctionOnSet(degrees, Start(i \div BlockSize) .. i - 1)]

-----------------------------------------------------------------------------
\* Constructor, generator, and MakeGraphFromEL up to the choice of a path.

Init ==
    /\ input \in Inputs
    /\ phase = "construct" /\ num_nodes = -1
    /\ el = input.el
    /\ transpose = FALSE
    /\ index = Nothing /\ offsets = Nothing /\ neighs = Nothing
    /\ first = Nothing /\ indegrees = Nothing /\ invs_needed = Nothing
    /\ total_missing_inv = 0
    /\ todo = [t \in Thread |-> {}]
    /\ pc = [t \in Thread |-> "next"] /\ slot = [t \in Thread |-> 0]
    /\ rng = [t \in Thread |-> Unseeded]
    /\ graph = Nothing

\* In-place building refuses weights.
Construct ==
    /\ phase = "construct"
    /\ phase' = IF input.in_place /\ input.needs_weights THEN "exit -30"
                ELSE IF input.gen = NoGenerator THEN "size" ELSE "generator"
    /\ UNCHANGED <<input, num_nodes, el, transpose, index, offsets, neighs, first,
                   inPlace, threads, graph>>

\* A region of Generator: new random number generators, and blocks to share out.
Region(name, size) ==
    /\ phase' = name
    /\ todo' \in Schedules(0 .. NumBlocks(size) - 1)
    /\ rng' = [t \in Thread |-> Unseeded]
    /\ UNCHANGED <<pc, slot>>

\* GenerateEL.
StartGenerator ==
    /\ phase = "generator"
    /\ el' = [e \in 1 .. GenEdges(input.gen) |-> <<-1, -1, NoWeight>>]
    /\ Region("generate", GenEdges(input.gen))
    /\ UNCHANGED <<input, num_nodes, transpose, index, offsets, neighs, first, inPlace, graph>>

\* Slip: a thread seeds its generator for its first block only.
Reseed_Once(t, b) == IF rng[t] = Unseeded THEN Seeded(b) ELSE rng[t]

\* rng.seed(kRandSeed + block/block_size).
Reseed(t, b) == Seeded(b)

\* Blocks are parts of el that no other thread reads or writes.
FillBlock(t, b, edges, draws) ==
    /\ el' = [e \in DOMAIN el |-> IF e \in InBlock(b, Len(el)) THEN edges[e] ELSE el[e]]
    /\ rng' = [rng EXCEPT ![t] = Skip(Reseed(t, b), draws * Cardinality(InBlock(b, Len(el))))]
    /\ todo' = [todo EXCEPT ![t] = @ \ {b}]
    /\ UNCHANGED <<input, phase, num_nodes, transpose, index, offsets, neighs, first,
                   inPlace, pc, slot, graph>>

GenerateBlock(t) ==
    /\ phase = "generate" /\ todo[t] # {}
    /\ LET b == Min(todo[t])
       IN  FillBlock(t, b, [e \in DOMAIN el |-> EdgeAt(input.gen, Reseed(t, b), e)],
                     DrawsPerEdge(input.gen))

AtBarrier == \A t \in Thread : todo[t] = {} /\ pc[t] = "next"

\* The generators end with their region.
EndGenerator ==
    /\ phase = "generate" /\ AtBarrier
    /\ el' = IF input.gen.uniform THEN el ELSE PermuteIDs(input.gen, el)
    /\ phase' = "size" /\ rng' = [t \in Thread |-> Unseeded]
    /\ UNCHANGED <<input, num_nodes, transpose, index, offsets, neighs, first,
                   inPlace, todo, pc, slot, graph>>

\* ReadFile has cleared needs_weights_ if the list came with weights.
AnyPath == IF input.in_place THEN "squish el" ELSE "make csr"

SizeGraph ==
    /\ phase = "size"
    /\ num_nodes' = FindMaxNodeID(el) + 1
    /\ IF input.needs_weights /\ ~input.has_weights THEN Region("insert weights", Len(el))
       ELSE phase' = AnyPath /\ UNCHANGED threads
    /\ UNCHANGED <<input, el, transpose, index, offsets, neighs, first, inPlace, graph>>

\* InsertWeights.
WeighBlock(t) ==
    /\ phase = "insert weights" /\ todo[t] # {}
    /\ LET b == Min(todo[t])
       IN  FillBlock(t, b, [e \in DOMAIN el |-> <<el[e][1], el[e][2], WeightAt(Reseed(t, b), e)>>], 1)

EndWeights ==
    /\ phase = "insert weights" /\ AtBarrier
    /\ phase' = AnyPath /\ rng' = [t \in Thread |-> Unseeded]
    /\ UNCHANGED <<input, num_nodes, el, transpose, index, offsets, neighs, first,
                   inPlace, todo, pc, slot, graph>>

-----------------------------------------------------------------------------
\* MakeCSR.

\* Degrees, offsets, allocation and the start of the parallel loop.
MakeCSR(trans) ==
    LET prefix == ParallelPrefixSum(CountDegrees(el, trans))
    IN  /\ phase' = "copy"
        /\ transpose' = trans
        /\ index' = prefix /\ offsets' = prefix
        /\ neighs' = [i \in 0 .. prefix[num_nodes] - 1 |-> Garbage]
        /\ todo' \in Schedules(DOMAIN el)
        /\ UNCHANGED <<input, num_nodes, el, inPlace, pc, slot, rng, graph>>

StartCSR == phase = "make csr" /\ MakeCSR(FALSE) /\ UNCHANGED first

IntoSource == input.symmetrize \/ ~transpose
IntoDest   == input.symmetrize \/ transpose
CurEdge(t) == el[Min(todo[t])]

\* fetch_and_add(offsets[n], 1), the start of an assignment to neighs.
Claim(t, n, next) ==
    /\ slot' = [slot EXCEPT ![t] = offsets[n]]
    /\ offsets' = [offsets EXCEPT ![n] = @ + 1]
    /\ pc' = [pc EXCEPT ![t] = next]
    /\ UNCHANGED <<input, phase, num_nodes, el, transpose, index, neighs, first, inPlace,
                   todo, rng, graph>>

ClaimU(t) ==
    /\ phase = "copy" /\ pc[t] = "next" /\ todo[t] # {} /\ IntoSource
    /\ Claim(t, CurEdge(t)[1], "store u")

ClaimV(t) ==
    /\ phase = "copy" /\ todo[t] # {}
    /\ pc[t] = "v" \/ (pc[t] = "next" /\ ~IntoSource)
    /\ Claim(t, CurEdge(t)[2], "store v")

\* The rest of the assignment.
Store(t, dest) ==
    /\ neighs' = [neighs EXCEPT ![slot[t]] = dest]
    /\ slot' = [slot EXCEPT ![t] = 0]
    /\ UNCHANGED <<input, phase, num_nodes, el, transpose, index, offsets, first, inPlace,
                   rng, graph>>

EndIteration(t) ==
    /\ todo' = [todo EXCEPT ![t] = @ \ {Min(@)}]
    /\ pc' = [pc EXCEPT ![t] = "next"]

StoreU(t) ==
    /\ pc[t] = "store u"
    /\ Store(t, <<CurEdge(t)[2], CurEdge(t)[3]>>)
    /\ IF IntoDest THEN pc' = [pc EXCEPT ![t] = "v"] /\ UNCHANGED todo
       ELSE EndIteration(t)

\* GetSource(e) carries the weight over.
StoreV(t) ==
    /\ pc[t] = "store v"
    /\ Store(t, <<CurEdge(t)[1], CurEdge(t)[3]>>)
    /\ EndIteration(t)

\* A directed graph is built once more with its edges turned.
StartInverse ==
    /\ phase = "copy" /\ AtBarrier /\ ~input.symmetrize /\ ~transpose
    /\ first' = [index |-> index, neighs |-> neighs]
    /\ MakeCSR(TRUE)

EndCSR ==
    /\ phase = "copy" /\ AtBarrier /\ (input.symmetrize \/ transpose)
    /\ graph' = IF input.symmetrize THEN UndirectedCSR(num_nodes, index, neighs)
                ELSE DirectedCSR(num_nodes, first.index, first.neighs, index, neighs)
    /\ phase' = "squish"
    /\ UNCHANGED <<input, num_nodes, el, transpose, index, offsets, neighs, first,
                   inPlace, threads>>

-----------------------------------------------------------------------------
\* SquishGraph.

\* std::sort, std::unique and std::remove: of equal vertices the one with the
\* least weight stays, and the vertex itself goes.
Squish(n, list) ==
    InOrder({d \in Range(list) : /\ d[1] # n
                                      /\ \A x \in Range(list) : SameNode(x, d) => ~Less(x, d)},
                 Less)

SquishCSR(old_index, old_neighs) ==
    LET list == [n \in Vertices |-> Squish(n, Neighborhood(n, old_index, old_neighs))]
    IN  [index |-> ParallelPrefixSum([n \in Vertices |-> Len(list[n])]),
         neighs |-> Flat(num_nodes, list)]

SquishGraph(g) ==
    LET out == SquishCSR(g.out_index, g.out_neighs)
        inv == SquishCSR(g.in_index, g.in_neighs)
    IN  IF g.directed
        THEN DirectedCSR(num_nodes, out.index, out.neighs, inv.index, inv.neighs)
        ELSE UndirectedCSR(num_nodes, out.index, out.neighs)

EndMakeGraph ==
    /\ phase = "squish"
    /\ graph' = SquishGraph(graph)
    /\ phase' = "done"
    /\ UNCHANGED <<input, num_nodes, el, transpose, index, offsets, neighs, first,
                   inPlace, threads>>

-----------------------------------------------------------------------------
\* MakeCSRInPlace.  neighs is the memory of the edge list, whose k-th edge is
\* in the words 2k and 2k + 1.

Resize(array, size) == [i \in 0 .. size - 1 |-> IF i \in DOMAIN array THEN array[i] ELSE Garbage]

\* Sort, unique and remove_if on the edges.
SquishEdges(edges) ==
    InOrder({<<e[1], e[2], NoWeight>> : e \in {x \in ToSet(edges) : x[1] # x[2]}},
                 LAMBDA d, e : d[1] < e[1] \/ (d[1] = e[1] /\ d[2] < e[2]))

Words(edges) ==
    [i \in 0 .. 2 * Len(edges) - 1 |-> <<edges[i \div 2 + 1][1 + (i % 2)], NoWeight>>]

SquishEL ==
    /\ phase = "squish el"
    /\ el' = SquishEdges(el)
    /\ neighs' = Resize(Words(el'), 2 * Len(el))
    /\ offsets' = ParallelPrefixSum(CountDegrees(el', FALSE))
    /\ indegrees' = CountDegrees(el', TRUE)
    /\ phase' = "overwrite"
    /\ UNCHANGED <<input, num_nodes, transpose, index, first, invs_needed,
                   total_missing_inv, threads, graph>>

\* for (Edge e : el) (*neighs)[offsets[e.u]++] = e.v; each edge is read from the
\* words that the loop overwrites.
Overwritten ==
    FoldLeftDomain(
        LAMBDA s, k : LET u == s.mem[2 * k - 2][1]
                          v == s.mem[2 * k - 1]
                      IN  [mem |-> [s.mem EXCEPT ![s.offsets[u]] = v],
                           offsets |-> [s.offsets EXCEPT ![u] = @ + 1]],
        [mem |-> neighs, offsets |-> offsets], el)

\* The loop, and the offsets shifted down again.
Overwrite ==
    /\ phase = "overwrite"
    /\ neighs' = Overwritten.mem
    /\ offsets' = [n \in 0 .. num_nodes |-> IF n = 0 THEN 0 ELSE Overwritten.offsets[n - 1]]
    /\ phase' = IF input.symmetrize THEN "count missing" ELSE "invert"
    /\ UNCHANGED <<input, num_nodes, el, transpose, index, first, inPlace, threads, graph>>

\* The in-coming lists, filled in the order of the out-going ones.
Inverted(out_index, out_neighs, inoffsets) ==
    LET arcs == FlattenSeq([n \in 1 .. num_nodes |->
                    [i \in 1 .. Len(Neighborhood(n - 1, out_index, out_neighs)) |->
                        <<n - 1, Neighborhood(n - 1, out_index, out_neighs)[i][1]>>]])
    IN  FoldLeft(LAMBDA s, a : [mem |-> [s.mem EXCEPT ![s.next[a[2]]] = <<a[1], NoWeight>>],
                                next |-> [s.next EXCEPT ![a[2]] = @ + 1]],
                 [mem |-> [i \in 0 .. inoffsets[num_nodes] - 1 |-> Garbage], next |-> inoffsets],
                 arcs).mem

FinishDirected ==
    /\ phase = "invert"
    /\ neighs' = Resize(neighs, Len(el))
    /\ index' = offsets
    /\ LET inoffsets == ParallelPrefixSum(indegrees)
       IN  graph' = DirectedCSR(num_nodes, index', neighs', inoffsets,
                                Inverted(index', neighs', inoffsets))
    /\ phase' = "done"
    /\ UNCHANGED <<input, num_nodes, el, transpose, offsets, first, inPlace, threads>>

\* std::binary_search by halving, over words first .. last - 1.  It finds x if
\* the words less than x come before all others, sorted or not.
BinarySearch(mem, from, to, x) ==
    LET lower_bound[lo \in Int, len \in Nat] ==
          IF len = 0 THEN lo
          ELSE LET half == len \div 2
               IN  IF mem[lo + half][1] < x
                   THEN lower_bound[lo + half + 1, len - half - 1]
                   ELSE lower_bound[lo, half]
        pos == lower_bound[from, to - from]
    IN  pos # to /\ ~(x < mem[pos][1])

\* Step 1.
CountMissing ==
    /\ phase = "count missing"
    /\ invs_needed' =
         [v \in Vertices |->
            Cardinality({<<u, i>> \in Vertices \X DOMAIN neighs :
                /\ offsets[u] <= i /\ i < offsets[u + 1]
                /\ neighs[i][1] = v
                /\ ~BinarySearch(neighs, offsets[v], offsets[v + 1], u)})]
    /\ phase' = "make room"
    /\ UNCHANGED <<input, num_nodes, el, transpose, index, offsets, neighs, first,
                   indegrees, total_missing_inv, threads, graph>>

\* New offsets and realloc.  The loop runs to n = num_nodes_ and adds the word
\* behind invs_needed to the total, after the last offset was set.  realloc to
\* no bytes frees the memory and returns nullptr; an empty edge list has none,
\* and is given some.
MakeRoom ==
    /\ phase = "make room"
    /\ \E beyond \in BeyondArray :
         total_missing_inv' = SumFunction(invs_needed) + beyond
    /\ offsets' = [n \in 0 .. num_nodes |-> offsets[n] + SumFunctionOnSet(invs_needed, 0 .. n - 1)]
    /\ neighs' = Resize(neighs, offsets'[num_nodes])
    /\ phase' = IF offsets'[num_nodes] = 0 /\ DOMAIN neighs # {} THEN "exit -33" ELSE "spread out"
    /\ UNCHANGED <<input, num_nodes, el, transpose, index, first, indegrees, invs_needed,
                   threads, graph>>

\* The entries of n move up, last first, from total_missing_inv words below.
MoveUp(s, n) ==
    LET moved == offsets[n + 1] - (offsets[n] + invs_needed[n])
    IN  [mem |-> FoldLeft(LAMBDA m, j : [m EXCEPT ![s.tail - j] =
                             LET src == offsets[n + 1] - 1 - j - s.total
                             IN  IF src \in DOMAIN m THEN m[src] ELSE Garbage],
                          s.mem, [j \in 1 .. moved |-> j - 1]),
         tail |-> s.tail - moved - invs_needed[n],
         total |-> s.total - invs_needed[n]]

\* Step 2.  A word that was never stored is used as a vertex by the next step.
SpreadOut ==
    /\ phase = "spread out"
    /\ LET s == FoldLeft(MoveUp, [mem |-> neighs, tail |-> offsets[num_nodes] - 1,
                                  total |-> total_missing_inv],
                         [k \in 1 .. num_nodes |-> num_nodes - k])
       IN  /\ neighs' = s.mem
           /\ total_missing_inv' = s.total
    /\ phase' = IF \E n \in Vertices, i \in DOMAIN neighs :
                      /\ offsets[n] + invs_needed[n] <= i /\ i < offsets[n + 1]
                      /\ neighs'[i] = Garbage
                THEN "undefined" ELSE "add inverses"
    /\ UNCHANGED <<input, num_nodes, el, transpose, index, offsets, first, indegrees,
                   invs_needed, threads, graph>>

\* Slip: the search takes in the free words of v.
AddInverse_SearchesFree(u, s, i) ==
    LET v == s.mem[i][1]
    IN  IF BinarySearch(s.mem, offsets[v], offsets[v + 1], u) THEN s
        ELSE [s EXCEPT !.mem[offsets[v] + s.needed[v] - 1] = <<u, NoWeight>>,
                       !.needed[v] = @ - 1]

\* u is put into the last free word of v unless it is found there; words added
\* before it are less than u and in front, in descending order.
AddInverse(u, s, i) ==
    LET v    == s.mem[i][1]
        from == offsets[v] + s.needed[v]
    IN  IF ~s.ok \/ BinarySearch(s.mem, from, offsets[v + 1], u) THEN s
        ELSE [s EXCEPT !.mem[from - 1] = <<u, NoWeight>>, !.needed[v] = @ - 1,
                       !.ok = from > 0]

\* Step 3.
AddInverses ==
    /\ phase = "add inverses"
    /\ LET AddOf(s, u) ==
             FoldLeft(LAMBDA r, i : AddInverse(u, r, i), s,
                      [k \in 1 .. offsets[u + 1] - offsets[u] - s.needed[u] |->
                          offsets[u] + s.needed[u] + k - 1])
           s == FoldLeft(AddOf, [mem |-> neighs, needed |-> invs_needed, ok |-> TRUE],
                         [k \in 1 .. num_nodes |-> k - 1])
       IN  /\ neighs' = s.mem /\ invs_needed' = s.needed
           /\ phase' = IF s.ok THEN "sort lists" ELSE "undefined"
    /\ UNCHANGED <<input, num_nodes, el, transpose, index, offsets, first, indegrees,
                   total_missing_inv, threads, graph>>

FinishSymmetric ==
    /\ phase = "sort lists"
    /\ neighs' = Flat(num_nodes, [n \in Vertices |-> SortSeq(Neighborhood(n, offsets, neighs), Less)])
    /\ index' = offsets
    /\ graph' = UndirectedCSR(num_nodes, index', neighs')
    /\ phase' = "done"
    /\ UNCHANGED <<input, num_nodes, el, transpose, offsets, first, inPlace, threads>>

-----------------------------------------------------------------------------
InPlace == \/ SquishEL \/ Overwrite \/ FinishDirected
           \/ CountMissing \/ MakeRoom \/ SpreadOut \/ AddInverses \/ FinishSymmetric

Build ==
    \/ Construct \/ StartGenerator \/ EndGenerator \/ SizeGraph \/ EndWeights
    \/ StartCSR \/ StartInverse \/ EndCSR \/ EndMakeGraph \/ InPlace
    \/ \E t \in Thread : GenerateBlock(t) \/ WeighBlock(t)
    \/ \E t \in Thread : ClaimU(t) \/ StoreU(t) \/ ClaimV(t) \/ StoreV(t)

-----------------------------------------------------------------------------
\* Properties.

\* The edge list before and after weights are inserted, and the arcs the graph
\* should have.
SourceEL == IF input.gen = NoGenerator THEN input.el ELSE GeneratedEL(input.gen)
GivenEL  == IF input.needs_weights /\ ~input.has_weights THEN WithWeights(SourceEL) ELSE SourceEL
Arcs     == ArcsFrom(ToSet(GivenEL), input.symmetrize)

\* Every array has the size its readers assume, and the vertices of all edges
\* have a degree, an offset and a list.
TypeOK ==
    /\ num_nodes # -1 => \A e \in ToSet(el) : {e[1], e[2]} \subseteq Vertices
    /\ DOMAIN offsets \in {{}, 0 .. num_nodes} /\ DOMAIN index \in {{}, 0 .. num_nodes}
    /\ Range(offsets) \subseteq Nat /\ Range(index) \subseteq Nat
    /\ Range(neighs) \subseteq ((Vertices \X Nat) \cup {Garbage})
    /\ phase \in {"copy", "squish"} => \A t \in Thread : todo[t] \subseteq DOMAIN el
    /\ total_missing_inv \in Nat

\* The generator's comment (generator.h:27), "deterministic output edgelist": the
\* edges and weights are those of the blocks' seeds, whichever threads drew them
\* and how far their generators had come.
SeedsDecide ==
    /\ phase = "size" => el = SourceEL
    /\ phase \in {"make csr", "squish el"} => el = GivenEL

\* MakeCSR's threads, which take slots with fetch_and_add and store into them
\* later: a slot that is held lies in the list of the vertex it was taken for,
\* is still empty, and is held by one thread only; after the loop no slot is
\* left empty.  (builder.h:306-315)
SlotsOnce ==
    LET Holds(t) == pc[t] \in {"store u", "store v"}
        owner(t) == IF pc[t] = "store u" THEN CurEdge(t)[1] ELSE CurEdge(t)[2]
    IN  /\ TypeOK
        /\ \A t \in Thread : Holds(t) =>
              /\ index[owner(t)] <= slot[t] /\ slot[t] < index[owner(t) + 1]
              /\ slot[t] \in DOMAIN neighs /\ neighs[slot[t]] = Garbage
              /\ \A s \in Thread \ {t} : Holds(s) => slot[s] # slot[t]
        /\ phase = "squish" => Garbage \notin Range(neighs)

\* Whichever path was taken and however the threads interleaved, the graph
\* holds exactly the arcs asked for, in sorted lists without self-loops or
\* duplicates, its inverse agrees, and no read or write left an array.  The
\* in-place path gives up only on weights, or if no edge is left to symmetrize.
GraphExact ==
    /\ phase # "undefined"
    /\ phase = "done" => graph = GraphOf(num_nodes, ~input.symmetrize, Arcs)
    /\ phase = "exit -30" => input.in_place /\ input.needs_weights
    /\ phase = "exit -33" => input.in_place /\ input.symmetrize /\ Arcs = {} /\ SourceEL # <<>>
=============================================================================
