--------------------------- MODULE TriangleCount ---------------------------
(***************************************************************************)
(* Triangle counting (src/src/tc.cc) on the graph that Builder makes.      *)
(* main refuses directed graphs; Hybrid relabels the vertices by degree if *)
(* a sample of the degrees looks skewed; OrderedCount then counts each     *)
(* triangle at its largest vertex, with an iterator over u's list that     *)
(* never goes back and is not compared with the list's end.                *)
(***************************************************************************)
EXTENDS Builder

CONSTANTS MinAverageDegree,   \* 10 in the code
          MaxSamples          \* 1000 in the code
ASSUME TriangleCountAssumption == MinAverageDegree \in Nat \ {0} /\ MaxSamples \in Nat \ {0}

VARIABLES kernel,       \* "building", "refused", "counting" or "returned"
          g,            \* the graph OrderedCount reads
          unvisited,    \* iterations of the parallel loop still to be executed
          total         \* the reduction variable

tcVars == <<kernel, g, unvisited, total>>

-----------------------------------------------------------------------------
\* BuilderBase::RelabelByDegree.

\* Vertices by decreasing pair of degree and identifier.
ByDegree(gr) ==
    LET degree(n) == out_degree(gr, n)
    IN  InOrder(Vertices, LAMBDA a, b : degree(a) > degree(b) \/ (degree(a) = degree(b) /\ a > b))

RelabelByDegree(gr) ==
    LET order   == ByDegree(gr)
        new_ids == [v \in Vertices |-> (CHOOSE i \in DOMAIN order : order[i] = v) - 1]
        list    == [n \in Vertices |->
                      LET old == out_neigh(gr, order[n + 1])
                      IN  SortSeq([i \in DOMAIN old |-> <<new_ids[old[i][1]], NoWeight>>], Less)]
        degrees == [n \in Vertices |-> out_degree(gr, order[n + 1])]
    IN  UndirectedCSR(num_nodes, ParallelPrefixSum(degrees), Flat(num_nodes, list))

-----------------------------------------------------------------------------
\* WorthRelabelling: what the heuristic may answer.  SourcePicker draws any
\* vertices that have an edge; the average must exceed 1.3 times the median.

WorthRelabelling(gr) ==
    LET num_samples == Min({MaxSamples, num_nodes})
        Drawn  == {v \in Vertices : out_degree(gr, v) # 0}
        Skewed(pick) ==
            LET samples == SortSeq([k \in 1 .. num_samples |-> out_degree(gr, pick[k])], <)
            IN  10 * FoldLeft(+, 0, samples) > 13 * num_samples * samples[num_samples \div 2 + 1]
    IN  IF gr.num_edges \div num_nodes < MinAverageDegree THEN {FALSE}
        ELSE {Skewed(pick) : pick \in [1 .. num_samples -> Drawn]}

-----------------------------------------------------------------------------
\* OrderedCount.

Word(gr, i) == gr.out_neighs[i][1]

\* The neighbours of n before the first one greater than n, where both for
\* loops break.
UpTo(gr, n) ==
    LET list == out_neigh(gr, n)
        big  == {i \in DOMAIN list : list[i][1] > n}
    IN  SubSeq(list, 1, IF big = {} THEN Len(list) ELSE Min(big) - 1)

\* Slip: the iterator stops one word late.
Advance_PastEqual(gr, it, w) ==
    Min({i \in DOMAIN gr.out_neighs : i >= it /\ Word(gr, i) > w} \cup {2 * gr.num_edges})

\* while (*it < w) it++, over the words of the whole graph.
Advance(gr, it, w) ==
    Min({i \in DOMAIN gr.out_neighs : i >= it /\ Word(gr, i) >= w} \cup {2 * gr.num_edges})

\* Slip: the inner loop does not break at v.
Scan_NoBreak(gr, u, v) ==
    FoldLeft(LAMBDA s, w :
               LET it == Advance(gr, s.it, w[1])
               IN  [it |-> it,
                    found |-> s.found + (IF it < 2 * gr.num_edges /\ Word(gr, it) = w[1] THEN 1 ELSE 0)],
             [it |-> gr.out_index[u], found |-> 0],
             out_neigh(gr, v))

\* The inner loop for u and v: where the iterator ends and what it found.
Scan(gr, u, v) ==
    FoldLeft(LAMBDA s, w :
               LET it == Advance(gr, s.it, w[1])
               IN  [it |-> it,
                    found |-> s.found + (IF it < 2 * gr.num_edges /\ Word(gr, it) = w[1] THEN 1 ELSE 0)],
             [it |-> gr.out_index[u], found |-> 0],
             UpTo(gr, v))

CountAt(gr, u) == FoldLeft(LAMBDA s, v : s + Scan(gr, u, v[1]).found, 0, UpTo(gr, u))

-----------------------------------------------------------------------------

TCInit ==
    /\ Init
    /\ kernel = "building" /\ g = Nothing /\ unvisited = {} /\ total = 0

BuildStep == kernel = "building" /\ Build /\ UNCHANGED tcVars

\* "Input graph is directed but tc requires undirected"
Refuse ==
    /\ kernel = "building" /\ phase = "done" /\ ~input.needs_weights
    /\ graph.directed
    /\ kernel' = "refused"
    /\ UNCHANGED <<g, unvisited, total, vars>>

\* Hybrid up to the parallel loop.
Hybrid ==
    /\ kernel = "building" /\ phase = "done" /\ ~input.needs_weights
    /\ ~graph.directed
    /\ \E worth \in WorthRelabelling(graph) :
         g' = IF worth THEN RelabelByDegree(graph) ELSE graph
    /\ kernel' = "counting" /\ unvisited' = Vertices /\ total' = 0
    /\ UNCHANGED vars

\* One iteration.  The iterations share nothing but the reduction, so a thread
\* may execute one from start to end.
CountVertex(u) ==
    /\ kernel = "counting" /\ u \in unvisited
    /\ total' = total + CountAt(g, u)
    /\ unvisited' = unvisited \ {u}
    /\ UNCHANGED <<kernel, g, vars>>

Return ==
    /\ kernel = "counting" /\ unvisited = {}
    /\ kernel' = "returned"
    /\ UNCHANGED <<g, unvisited, total, vars>>

TCNext == BuildStep \/ Refuse \/ Hybrid \/ (\E u \in unvisited : CountVertex(u)) \/ Return

\* The program has ended; any other state without a successor is a deadlock.
Exited ==
    /\ \/ kernel \in {"refused", "returned"}
       \/ phase \in Ended \ {"done"}
       \/ phase = "done" /\ input.needs_weights
    /\ UNCHANGED <<vars, tcVars>>

TCSpec == TCInit /\ [][TCNext \/ Exited]_<<vars, tcVars>>

-----------------------------------------------------------------------------
\* Properties.

\* TCVerifier: each triangle is in six intersections.
TCVerifier(gr) ==
    SumFunction([e \in Vertices \X Vertices |->
        IF e[2] \in {d[1] : d \in Range(out_neigh(gr, e[1]))}
        THEN Cardinality(Range(out_neigh(gr, e[1])) \cap Range(out_neigh(gr, e[2]))) ELSE 0]) \div 6

\* The kernel's iterator is not compared with the end of u's list (tc.cc:63).
\* It cannot leave the list all the same: it stops at v at the latest, since
\* only w up to v are looked for and v is in the list.
IteratorInList ==
    kernel = "counting" =>
        \A u \in unvisited : \A v \in {d[1] : d \in Range(UpTo(g, u))} :
            Scan(g, u, v).it < g.out_index[u + 1]

\* Built in either way, relabelled or not, and counted in any order, the total
\* is the number of sets of three vertices that are joined by edges of the
\* input, and TCVerifier (tc.cc:109-128), which reads the graph as it was
\* built, agrees.
VerifierAccepts ==
    kernel = "returned" =>
        /\ total = Cardinality({S \in kSubset(3, Vertices) :
                       \A a, b \in S : a # b => <<a, b, NoWeight>> \in Arcs})
        /\ total = TCVerifier(graph)
=============================================================================
