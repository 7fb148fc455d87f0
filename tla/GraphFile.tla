----------------------------- MODULE GraphFile -----------------------------
(***************************************************************************)
(* Graphs in files: Reader (src/src/reader.h), WriterBase (src/src/        *)
(* writer.h) and the converter that chains them (src/src/converter.cc).    *)
(* There is one file for each suffix.  Program runs follow one another:    *)
(* each loads a file, and the converter then writes another one.  What the *)
(* builder makes of an edge list is given by the definition that Builder's *)
(* GraphExact establishes.                                                 *)
(***************************************************************************)
EXTENDS CSRArrays

CONSTANTS Builds,           \* widths of the types NodeID, WeightT, SGID, and
                            \* where the neighbours go: "dram", "numa1", "nvm"
          Documents,        \* files made by other programs, as a sequence
          InsertedWeight,   \* stands for the weights that InsertWeights draws
          MaxRuns,          \* bound on the number of program runs
          NoFile, NoGraph,
          Unread            \* a graph whose arrays were filled past the end of a file

ASSUME GraphFileAssumption ==
    /\ \A b \in Builds : /\ {b.NodeID, b.WeightT, b.SGID} \subseteq {32, 64}
                         /\ b.neighs \in {"dram", "numa1", "nvm"}
    /\ MaxRuns \in Nat /\ InsertedWeight \in Nat \ {NoWeight}

VARIABLES build,      \* the types the programs were compiled with
          file,       \* [suffix -> contents or NoFile]
          meaning,    \* [suffix -> the arcs and vertices written there]
          run,        \* options of the current program run
          pc, g,      \* its step and the graph it holds
          exited,     \* exit code of the last run, 0 if it went well
          runs        \* program runs so far

vars == <<build, file, meaning, run, pc, g, exited, runs>>

Serialized == {".sg", ".wsg"}
Suffix     == {".el", ".wel", ".gr", ".graph", ".mtx"} \cup Serialized

\* What an edge list gives or how its reader gave up.
Edges(list, needs) == [exit |-> 0, edges |-> list, needs_weights |-> needs]
Exit(code)         == [exit |-> code]

-----------------------------------------------------------------------------
\* The text readers.  Edges are <<u, v, w>>; EdgePair's constructor drops the
\* weight in an unweighted program and makes it 1 if none was read.

Pairs(tokens) == [k \in 1 .. Len(tokens) \div 2 |-> <<tokens[2 * k - 1], tokens[2 * k], 1>>]

Triples(tokens) ==
    [k \in 1 .. Len(tokens) \div 3 |-> <<tokens[3 * k - 2], tokens[3 * k - 1], tokens[3 * k]>>]

ReadInEL(tokens, needs) == Edges(Pairs(tokens), needs)
ReadInWEL(tokens)       == Edges(Triples(tokens), FALSE)

\* Lines that do not start with 'a' are skipped; vertices count from 1.
ReadInGR(lines) ==
    LET arcs == SelectSeq(lines, LAMBDA l : l.kind = "a")
    IN  Edges([k \in DOMAIN arcs |-> <<arcs[k].u - 1, arcs[k].v - 1, arcs[k].w>>], FALSE)

\* while (edge_stream >> v >> std::ws): skipping white space fails if the line
\* ended with v, and then the body is not executed for v.
Extracted(line, read_weights) ==
    LET width == IF read_weights THEN 2 ELSE 1
        all   == Len(line.tokens) \div width
        kept  == IF line.blank_at_end THEN all ELSE Max({0, all - 1})
    IN  [k \in 1 .. kept |-> IF read_weights
                             THEN <<line.tokens[2 * k - 1] - 1, line.tokens[2 * k]>>
                             ELSE <<line.tokens[k] - 1, 1>>]

\* A header without fmt field.
NoFmt == -1

\* The header's fmt field, comments, and a line for each vertex.
ReadInMetis(doc) ==
    LET lines        == SelectSeq(doc.lines, LAMBDA l : ~l.comment)
        read_weights == doc.fmt = 1
        At(u)        == LET ds == Extracted(lines[u], read_weights)
                        IN  [k \in DOMAIN ds |-> <<u - 1, ds[k][1], ds[k][2]>>]
    IN  IF doc.fmt \notin {NoFmt, 0, 1, 100} THEN Exit(-20)
        ELSE Edges(FlattenSeq([u \in 1 .. doc.num_nodes |-> At(u)]), ~read_weights)

\* Slip: the entries of a symmetric matrix are not mirrored.
ReadInMTX_OneSided(doc) ==
    Edges([k \in DOMAIN doc.entries |->
              <<doc.entries[k][1] - 1, doc.entries[k][2] - 1,
                IF doc.field = "pattern" THEN 1 ELSE doc.entries[k][3]>>],
          doc.field = "pattern")

\* The banner decides; an entry of a symmetric matrix is two edges.
ReadInMTX(doc) ==
    LET read_weights == doc.field # "pattern"
        undirected   == doc.symmetry = "symmetric"
        EdgesOf(x)   == LET w == IF read_weights THEN x[3] ELSE 1
                        IN  <<<<x[1] - 1, x[2] - 1, w>>>>
                              \o IF undirected THEN <<<<x[2] - 1, x[1] - 1, w>>>> ELSE <<>>
    IN  CASE doc.start # "%%MatrixMarket" -> Exit(-21)
          [] doc.start = "%%MatrixMarket" /\ (doc.object # "matrix" \/ doc.format # "coordinate") -> Exit(-22)
          [] OTHER ->
               IF doc.field = "complex" THEN Exit(-23)
               ELSE IF doc.field \notin {"pattern", "real", "double", "integer"} THEN Exit(-24)
               ELSE IF doc.symmetry \notin {"symmetric", "general", "skew-symmetric"} THEN Exit(-25)
               ELSE IF doc.m # doc.n THEN Exit(-26)
               ELSE Edges(FlattenSeq([k \in DOMAIN doc.entries |-> EdgesOf(doc.entries[k])]),
                          ~read_weights)

-----------------------------------------------------------------------------
\* The builder's part.

\* needs_weights_ starts as TRUE in a weighted program; formats with weights
\* clear it.
ReadFile(suffix, contents, weighted) ==
    CASE suffix = ".el"    -> ReadInEL(contents, weighted)
      [] suffix = ".wel"   -> ReadInWEL(contents)
      [] suffix = ".gr"    -> ReadInGR(contents)
      [] suffix = ".graph" -> ReadInMetis(contents)
      [] suffix = ".mtx"   -> ReadInMTX(contents)

\* InsertWeights, and what an unweighted program keeps.
WeightOf(w, weighted, needs_weights) ==
    IF ~weighted THEN NoWeight ELSE IF needs_weights THEN InsertedWeight ELSE w

MakeGraphFromEL(list, weighted, symmetrize) ==
    LET arcs == {<<e[1], e[2], WeightOf(e[3], weighted, list.needs_weights)>> : e \in ToSet(list.edges)}
    IN  GraphOf(1 + Max({0} \cup UNION {{a[1], a[2]} : a \in arcs}),
                ~symmetrize, ArcsFrom(arcs, symmetrize))

-----------------------------------------------------------------------------
\* Serialized files: words, of which the first three are the header.

\* Slip: the types are not compared with those of the file.
ReaderRefuses_Never(suffix, weighted) == 0

\* Exit code of the reader's type checks, 0 if they pass.
ReaderRefuses(suffix, weighted) ==
    LET wsg == suffix = ".wsg"
    IN  IF build.NodeID # build.SGID \/ wsg # weighted \/ (wsg /\ build.WeightT # build.SGID)
        THEN 5 ELSE 0

\* DestID_ takes two words if it has a weight.
ReadSerializedGraph(words, weighted) ==
    LET directed  == words[1]
        num_edges == words[2]
        num_nodes == words[3]
        width     == IF weighted THEN 2 ELSE 1
        size      == num_nodes + 1 + width * num_edges
        index(at)  == [n \in 0 .. num_nodes |-> words[at + n]]
        neighs(at) == [i \in 0 .. num_edges - 1 |->
                         LET w == at + num_nodes + 1 + width * i
                         IN  <<words[w], IF weighted THEN words[w + 1] ELSE NoWeight>>]
    IN  IF Len(words) < 3 THEN Unread
        ELSE IF Len(words) < 3 + (IF directed THEN 2 ELSE 1) * size THEN Unread
        ELSE IF directed
             THEN DirectedCSR(num_nodes, index(4), neighs(4), index(4 + size), neighs(4 + size))
             ELSE UndirectedCSR(num_nodes, index(4), neighs(4))

\* Exit code of the writer's type checks.
WriterRefuses(weighted) ==
    IF build.NodeID # build.SGID THEN 4
    ELSE IF weighted /\ build.WeightT # build.SGID THEN 8 ELSE 0

Array(a) == [i \in 1 .. Cardinality(DOMAIN a) |-> a[i - 1]]

\* Slip: an undirected graph's edges are written as if each had one direction.
WriteSerializedGraph_Halved(gr, weighted) ==
    LET words(d)             == IF weighted THEN d ELSE <<d[1]>>
        Block(index, neighs) == Array(VertexOffsets(index))
            \o FlattenSeq([i \in 1 .. gr.num_edges |-> words(neighs[i - 1])])
    IN  <<gr.directed, gr.num_edges, gr.num_nodes>>
          \o Block(gr.out_index, gr.out_neighs)
          \o IF gr.directed THEN Block(gr.in_index, gr.in_neighs) ELSE <<>>

WriteSerializedGraph(gr, weighted) ==
    LET words(d)             == IF weighted THEN d ELSE <<d[1]>>
        Block(index, neighs) == Array(VertexOffsets(index))
            \o FlattenSeq([i \in 1 .. num_edges_directed(gr) |-> words(neighs[i - 1])])
    IN  <<gr.directed, num_edges_directed(gr), gr.num_nodes>>
          \o Block(gr.out_index, gr.out_neighs)
          \o IF gr.directed THEN Block(gr.in_index, gr.in_neighs) ELSE <<>>

\* A line for each out-going edge, with the weight if there is one.
WriteEL(gr, weighted) ==
    LET Line(u, d) == <<u, d[1]>> \o IF weighted THEN <<d[2]>> ELSE <<>>
    IN  FlattenSeq([n \in 1 .. gr.num_nodes |->
            FlattenSeq([k \in 1 .. out_degree(gr, n - 1) |-> Line(n - 1, out_neigh(gr, n - 1)[k])])])

-----------------------------------------------------------------------------
\* Program runs.  A kernel has no destination.  The converter's is named as
\* README.md and benchmark/bench.mk do, after what -b or -e and -w write.

NoDestination == "none"
Destination(weighted) == IF weighted THEN {".wsg", ".wel"} ELSE {".sg", ".el"}
NoRun == [src |-> "none", weighted |-> FALSE, symmetrize |-> FALSE, in_place |-> FALSE,
          dst |-> NoDestination]

Init ==
    /\ build \in Builds
    /\ \E k \in DOMAIN Documents :
         LET d == Documents[k] IN
         /\ file = [s \in Suffix |-> IF s = d.suffix THEN d.contents ELSE NoFile]
         /\ meaning = [s \in Suffix |-> IF s = d.suffix THEN d.meaning ELSE NoGraph]
    /\ run = NoRun /\ pc = "idle" /\ g = NoGraph
    /\ exited = 0 /\ runs = 0

End(code) == pc' = "idle" /\ g' = NoGraph /\ run' = NoRun /\ exited' = code

\* The builder's constructor and MakeGraph.  A serialized file is the graph,
\* whatever -s and -m say; realloc fails in MakeCSRInPlace if no
\* edge is left.
Load ==
    /\ pc = "idle" /\ runs < MaxRuns
    /\ runs' = runs + 1
    /\ \E src \in Suffix, weighted, symmetrize, in_place \in BOOLEAN :
       \E dst \in Destination(weighted) \cup {NoDestination} :
         LET refusal == ReaderRefuses(src, weighted)
             list    == ReadFile(src, file[src], weighted)
             made    == MakeGraphFromEL(list, weighted, symmetrize)
             Loaded(gr) ==
                /\ g' = gr /\ pc' = "loaded" /\ exited' = 0
                /\ run' = [src |-> src, weighted |-> weighted, symmetrize |-> symmetrize,
                           in_place |-> in_place, dst |-> dst]
         IN  IF in_place /\ weighted THEN End(-30)
             ELSE IF src \in Serialized
             THEN IF refusal # 0 THEN End(-refusal)
                  ELSE IF file[src] = NoFile THEN End(-6)
                  ELSE Loaded(ReadSerializedGraph(file[src], weighted))
             ELSE IF file[src] = NoFile THEN End(-2)
                  ELSE IF list.exit # 0 THEN End(list.exit)
                  ELSE IF in_place /\ symmetrize /\ list.edges # <<>> /\ made.num_edges = 0 THEN End(-33)
                  ELSE Loaded(made)
    /\ UNCHANGED <<build, file, meaning>>

\* A kernel is done with its graph.
EndKernel ==
    /\ pc = "loaded" /\ run.dst = NoDestination
    /\ End(0)
    /\ UNCHANGED <<build, file, meaning, runs>>

\* WriteGraph opens its file, which empties it.
OpenFile ==
    /\ pc = "loaded" /\ run.dst # NoDestination
    /\ file' = [file EXCEPT ![run.dst] = <<>>]
    /\ meaning' = [meaning EXCEPT ![run.dst] = NoGraph]
    /\ pc' = "opened"
    /\ UNCHANGED <<build, run, g, exited, runs>>

Write ==
    /\ pc = "opened"
    /\ LET refusal == IF run.dst \in Serialized THEN WriterRefuses(run.weighted) ELSE 0
       IN  /\ End(-refusal)
           /\ IF refusal # 0 THEN UNCHANGED <<file, meaning>>
              ELSE /\ file' = [file EXCEPT ![run.dst] =
                                 IF run.dst \in Serialized THEN WriteSerializedGraph(g, run.weighted)
                                 ELSE WriteEL(g, run.weighted)]
                   /\ meaning' = [meaning EXCEPT ![run.dst] =
                                    [graph |-> g, arcs |-> ArcsOf(g), weighted |-> run.weighted]]
    /\ UNCHANGED <<build, runs>>

\* No run is left.
Rest == pc = "idle" /\ runs = MaxRuns /\ UNCHANGED vars

Next == Load \/ EndKernel \/ OpenFile \/ Write \/ Rest

Spec == Init /\ [][Next]_vars

-----------------------------------------------------------------------------
\* Properties.

TypeOK ==
    /\ pc \in {"idle", "loaded", "opened"}
    /\ pc = "idle" <=> g = NoGraph
    /\ \A s \in Suffix : file[s] = NoFile => meaning[s] = NoGraph

\* The writer's word sequence and the reader's agree (writer.h:58-68 and
\* reader.h:313-369): a serialized file gives back the graph it was made from,
\* array by array, whether directed or not, and whatever -s says.
RoundTrip ==
    /\ TypeOK
    /\ pc = "loaded" /\ run.src \in Serialized /\ meaning[run.src] # NoGraph =>
          g = meaning[run.src].graph

\* A graph that ReadSerializedGraph's file does not contain is never run on:
\* the writer empties its file before it may refuse (writer.h:76 and 40-48),
\* and every reader compiled with the same types refuses the file that is left,
\* as does one whose destinations have another size than those in the file.
NoBrokenRead == g # Unread

\* All formats describe the same graphs: a text file is loaded as the arcs its
\* author listed, whatever the format counts from, mirrors or comments out, with
\* its weights if both sides have them and inserted ones if only the program has.
\* This takes in files the converter wrote as text from any other format.
FormatsAgree ==
    pc = "loaded" /\ run.src \notin Serialized =>
        LET m == meaning[run.src]
        IN  /\ m # NoGraph
            /\ ArcsOf(g) = ArcsFrom({<<a[1], a[2], WeightOf(a[3], run.weighted, ~m.weighted)>> : a \in m.arcs},
                                    run.symmetrize)
=============================================================================
