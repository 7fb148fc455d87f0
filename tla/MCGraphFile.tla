---------------------------- MODULE MCGraphFile ----------------------------
EXTENDS Ownership

CONSTANT BlankAtEnd    \* whether lines of .graph documents end with a blank

\* The types committed in benchmark.h and graph.h, with each placement of the
\* neighbours; those the comments beside them keep from the original suite; and
\* both changes made by halves.
Types(n, w, s, where) == [NodeID |-> n, WeightT |-> w, SGID |-> s, neighs |-> where]
MCBuilds == {Types(64, 32, 64, where) : where \in {"dram", "numa1", "nvm"}}
              \cup {Types(32, 32, 32, "dram"), Types(64, 64, 64, "numa1"), Types(64, 32, 32, "dram")}

Document(suffix, contents, arcs, weighted) ==
    [suffix |-> suffix, contents |-> contents, meaning |-> [arcs |-> arcs, weighted |-> weighted]]
Refused(suffix, contents) == [suffix |-> suffix, contents |-> contents, meaning |-> NoGraph]

\* Edge lists, one empty, one of a self-loop, one with a token too many.
ELs == <<Document(".el", <<>>, {}, FALSE),
        Document(".el", <<1, 1>>, {}, FALSE),
        Document(".el", <<0, 1, 1, 2, 2, 0, 1, 1>>, {<<0, 1, 1>>, <<1, 2, 1>>, <<2, 0, 1>>}, FALSE),
        Document(".el", <<0, 2, 2, 0, 1>>, {<<0, 2, 1>>, <<2, 0, 1>>}, FALSE),
        Document(".wel", <<0, 1, 5, 0, 1, 3, 2, 1, 4>>, {<<0, 1, 3>>, <<2, 1, 4>>}, TRUE)>>

GRs == <<Document(".gr", <<[kind |-> "c"], [kind |-> "p"], [kind |-> "a", u |-> 1, v |-> 2, w |-> 3],
                          [kind |-> "a", u |-> 2, v |-> 3, w |-> 5]>>,
                 {<<0, 1, 3>>, <<1, 2, 5>>}, TRUE)>>

Line(tokens) == [comment |-> FALSE, tokens |-> tokens, blank_at_end |-> BlankAtEnd]
Comment == [comment |-> TRUE]

Metis == <<Document(".graph", [fmt |-> NoFmt, num_nodes |-> 3,
                              lines |-> <<Line(<<2, 3>>), Comment, Line(<<1>>), Line(<<1>>)>>],
                   {<<0, 1, 1>>, <<0, 2, 1>>, <<1, 0, 1>>, <<2, 0, 1>>}, FALSE),
          Document(".graph", [fmt |-> 1, num_nodes |-> 3,
                              lines |-> <<Line(<<2, 7, 3, 4>>), Line(<<1, 7>>), Line(<<1, 4>>)>>],
                   {<<0, 1, 7>>, <<0, 2, 4>>, <<1, 0, 7>>, <<2, 0, 4>>}, TRUE),
          Refused(".graph", [fmt |-> 11, num_nodes |-> 0, lines |-> <<>>])>>

Market(field, symmetry, entries) ==
    [start |-> "%%MatrixMarket", object |-> "matrix", format |-> "coordinate", field |-> field,
     symmetry |-> symmetry, m |-> 3, n |-> 3, entries |-> entries]

MTXs == <<Document(".mtx", Market("pattern", "symmetric", <<<<2, 1>>, <<3, 1>>>>),
                  {<<1, 0, 1>>, <<0, 1, 1>>, <<2, 0, 1>>, <<0, 2, 1>>}, FALSE),
         Document(".mtx", Market("integer", "general", <<<<1, 2, 6>>, <<2, 3, 2>>, <<3, 3, 9>>>>),
                  {<<0, 1, 6>>, <<1, 2, 2>>}, TRUE),
         Document(".mtx", Market("real", "symmetric", <<<<3, 2, 8>>>>), {<<2, 1, 8>>, <<1, 2, 8>>}, TRUE)>>

NoMatrix == Market("real", "general", <<>>)
BadMTXs == <<Refused(".mtx", [NoMatrix EXCEPT !.start = "%%Matrix"]),
             Refused(".mtx", [NoMatrix EXCEPT !.format = "array"]),
             Refused(".mtx", [NoMatrix EXCEPT !.field = "complex"]),
             Refused(".mtx", [NoMatrix EXCEPT !.field = "boolean"]),
             Refused(".mtx", [NoMatrix EXCEPT !.symmetry = "hermitian"]),
             Refused(".mtx", [NoMatrix EXCEPT !.n = 4])>>

MCDocuments == ELs \o GRs \o Metis \o MTXs \o BadMTXs
=============================================================================
