-------------------------- MODULE MCTriangleCount --------------------------
EXTENDS TriangleCount

CONSTANT InPlaceArcs   \* bound on the length of the edge lists built in place

\* Edge lists of up to four edges over three vertices, with repetitions,
\* self-loops and both directions; sorted, because every division of the edges
\* among the threads is tried anyway.
Place(e) == 9 * e[1] + 3 * e[2] + e[3]
Sorted(S, k) == {l \in [1 .. k -> S] : \A i, j \in 1 .. k : i < j => Place(l[i]) <= Place(l[j])}
Short == UNION {Sorted((0 .. 2) \X (0 .. 2) \X {NoWeight}, k) : k \in 0 .. 4}

\* Parallel edges of different weight, and a self-loop.
Heavy == Sorted({0} \X (0 .. 1) \X (1 .. 2), 3) \cup Sorted({0, 1} \X (0 .. 1) \X (1 .. 2), 2)

\* Sets of arcs over four vertices, in descending order, and the complete graph
\* and a wheel, whose arcs point both up and down.
Arcs4 == {a \in (0 .. 3) \X (0 .. 3) \X {NoWeight} : a[1] # a[2]}
Long  == {InOrder(S, LAMBDA a, b : Less(b, a)) : S \in UNION {kSubset(k, Arcs4) : k \in 4 .. InPlaceArcs}}
K4    == <<<<0, 1, 0>>, <<2, 0, 0>>, <<0, 3, 0>>, <<1, 2, 0>>, <<3, 1, 0>>, <<2, 3, 0>>>>
Wheel == <<<<0, 4, 0>>, <<4, 1, 0>>, <<2, 4, 0>>, <<4, 3, 0>>, <<0, 1, 0>>, <<1, 2, 0>>, <<2, 3, 0>>, <<3, 0, 0>>>>

\* Four edges over four vertices, in two blocks; in place eight, in four blocks.
Gen(degree) == [scale : {2}, degree : {degree}, uniform : BOOLEAN, right_to_left : BOOLEAN]

MCInputs ==
    [el : Short, needs_weights : {FALSE}, has_weights : {FALSE}, symmetrize : BOOLEAN, in_place : BOOLEAN,
     gen : {NoGenerator}]
      \cup [el : Heavy, needs_weights : {TRUE}, has_weights : {TRUE}, symmetrize : BOOLEAN, in_place : BOOLEAN,
            gen : {NoGenerator}]
      \cup [el : Long \cup {K4, Wheel}, needs_weights : {FALSE}, has_weights : {FALSE}, symmetrize : BOOLEAN,
            in_place : {TRUE}, gen : {NoGenerator}]
      \cup [el : {<<>>}, needs_weights : BOOLEAN, has_weights : {FALSE}, symmetrize : BOOLEAN,
            in_place : {FALSE}, gen : Gen(1)]
      \cup [el : {<<>>}, needs_weights : {FALSE}, has_weights : {FALSE}, symmetrize : BOOLEAN,
            in_place : {TRUE}, gen : Gen(2)]

\* Numbers that differ from seed to seed and from draw to draw.
MCmt19937(seed, k) == (12 * (seed + 2) ^ 3 + 7 * k * k + 29 * (seed + 2) * k + 3) % 97

Symmetry == Permutations(Thread)
=============================================================================
