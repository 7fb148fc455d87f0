----------------------------- MODULE Generator -----------------------------
(***************************************************************************)
(* Synthetic graphs and weights (src/src/generator.h).  "Blocking/         *)
(* reseeding is for parallelism with deterministic output edgelist": a     *)
(* list is made in blocks, and a thread seeds its generator anew for each. *)
(* The definitions here say what a block holds, given the generator it is  *)
(* begun with, and what the whole list should be; Builder has the threads. *)
(***************************************************************************)
EXTENDS CSRArrays, OpenMP

CONSTANTS mt19937(_, _),    \* the k-th number of a generator, given its seed
          GenBlockSize      \* 1 << 18 in the code

ASSUME GeneratorAssumption ==
    /\ GenBlockSize \in Nat \ {0}
    /\ \A seed \in -1 .. 7, k \in 1 .. 7 : mt19937(seed, k) \in Nat

\* A generator is its seed, counted from kRandSeed, and how far it has come.
Seeded(b) == [seed |-> b, drawn |-> 0]
Unseeded  == [seed |-> -1, drawn |-> 0]
Skip(rng, n) == [rng EXCEPT !.drawn = @ + n]

\* The k-th number below range that a uniform distribution gives.
Draw(rng, k, range) == mt19937(rng.seed, rng.drawn + k) % range

\* The options -g, -u and -k; a scale of -1 means that nothing is generated.
NoGenerator == [scale |-> -1, degree |-> 0, uniform |-> FALSE, right_to_left |-> FALSE]

GenNodes(gen) == 2 ^ gen.scale
GenEdges(gen) == GenNodes(gen) * gen.degree
NumBlocks(size) == (size + GenBlockSize - 1) \div GenBlockSize

\* Places of block b in a list.
InBlock(b, size) == {e \in 1 .. size : (e - 1) \div GenBlockSize = b}

-----------------------------------------------------------------------------
\* Edges.

\* Edge(udist(rng), udist(rng)); compilers evaluate the arguments in either order.
UniformEdge(gen, rng) ==
    LET one == Draw(rng, 1, GenNodes(gen))
        two == Draw(rng, 2, GenNodes(gen))
    IN  IF gen.right_to_left THEN <<two, one, NoWeight>> ELSE <<one, two, NoWeight>>

\* Each number chooses a quadrant of the adjacency matrix, and the next one a
\* quadrant of that.  The quadrants' probabilities are left out.
RMatEdge(gen, rng) ==
    LET quadrant(depth) == Draw(rng, depth + 1, 4)
        Bits(b(_)) == FoldLeftDomain(LAMBDA s, i : 2 * s + b(quadrant(i - 1)), 0, [i \in 1 .. gen.scale |-> i])
    IN  <<Bits(LAMBDA q : q \div 2), Bits(LAMBDA q : q % 2), NoWeight>>

DrawsPerEdge(gen) == IF gen.uniform THEN 2 ELSE gen.scale

\* Edge e of a block, whose first edge is made with rng.
EdgeAt(gen, rng, e) ==
    LET now == Skip(rng, DrawsPerEdge(gen) * ((e - 1) % GenBlockSize))
    IN  IF gen.uniform THEN UniformEdge(gen, now) ELSE RMatEdge(gen, now)

\* shuffle, with a generator of its own.
Permutation(n) ==
    FoldLeft(LAMBDA p, i : LET j == Draw(Seeded(0), i, i + 1)
                           IN  [p EXCEPT ![i] = p[j], ![j] = p[i]],
             [v \in 0 .. n - 1 |-> v], [i \in 1 .. n - 1 |-> i])

PermuteIDs(gen, list) ==
    LET permutation == Permutation(GenNodes(gen))
    IN  [e \in DOMAIN list |-> <<permutation[list[e][1]], permutation[list[e][2]], list[e][3]>>]

\* Weights are drawn from 1 to 255.
WeightAt(rng, e) == 1 + Draw(Skip(rng, (e - 1) % GenBlockSize), 1, 255)

-----------------------------------------------------------------------------
\* Reference definitions: the lists that the seeds alone determine.

BlockOf(e) == (e - 1) \div GenBlockSize

GeneratedEL(gen) ==
    LET list == [e \in 1 .. GenEdges(gen) |-> EdgeAt(gen, Seeded(BlockOf(e)), e)]
    IN  IF gen.uniform THEN list ELSE PermuteIDs(gen, list)

WithWeights(list) == [e \in DOMAIN list |-> <<list[e][1], list[e][2], WeightAt(Seeded(BlockOf(e)), e)>>]
=============================================================================
