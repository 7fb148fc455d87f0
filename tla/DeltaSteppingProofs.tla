------------------------ MODULE DeltaSteppingProofs ------------------------
(***************************************************************************)
(* Theorems about DeltaStepping for every set of weighted graphs, every    *)
(* delta, threshold and set of threads.  A vertex whose distance could     *)
(* still shorten a neighbour's waits somewhere: in the bin its distance    *)
(* calls for, in the frontier, in the copy a thread fuses, or in the       *)
(* middle of a thread's relaxations.  When all threads meet at the first   *)
(* barrier only bins are left, and the vote has found the lowest.          *)
(***************************************************************************)
EXTENDS DeltaStepping, CSRGraphProofs, SequenceTheorems

-----------------------------------------------------------------------------
\* The distances that SSSPVerifier compares with.

\* What the assumption on the limits says of each.
LEMMA Limits ==
    /\ kDistInf \in Nat \ {0} /\ kMaxBin \in Nat \ {0} /\ kBinSizeThreshold \in Nat \ {0}
    /\ kDistInf <= kMaxBin
BY LimitsAssumption

\* Rounds is the iteration it is written as.
LEMMA RoundSteps ==
    ASSUME NEW gr, IsWGraph(gr), NEW s \in Node
    PROVE  /\ Rounds(gr, s) \in [0 .. NumNodes -> [Node -> 0 .. kDistInf]]
           /\ \A v \in Node : Rounds(gr, s)[0][v] = IF v = s THEN 0 ELSE kDistInf
           /\ \A k \in 1 .. NumNodes : Rounds(gr, s)[k] = Lowered(gr, Rounds(gr, s)[k - 1])
<1> DEFINE Row == [Node -> 0 .. kDistInf]
           First == [v \in Node |-> IF v = s THEN 0 ELSE kDistInf]
           Lower(d) == Lowered(gr, d)
           F == [d \in Row |-> Lower(d)]
           Steps(b) == b = [k \in 0 .. NumNodes |-> IF k = 0 THEN First ELSE Lower(b[k - 1])]
<1>1. \A d \in Row : Lower(d) \in Row
  <2> SUFFICES ASSUME NEW d \in Row, NEW v \in Node
               PROVE  Min({d[v]} \cup
                          {d[w] + gr.weight[<<w, v>>] : w \in in_neigh(gr, v)}) \in 0 .. kDistInf
    BY DEF Lowered
  <2> DEFINE S == {d[v]} \cup {d[w] + gr.weight[<<w, v>>] : w \in in_neigh(gr, v)}
  <2>1. \A w \in in_neigh(gr, v) : w \in Node /\ gr.weight[<<w, v>>] \in Nat
    BY DEF in_neigh, IsWGraph
  <2>2. \A w \in Node : d[w] \in Nat
    BY Limits
  <2>3. S \in SUBSET Nat /\ d[v] \in S
    <3>1. \A w \in in_neigh(gr, v) : d[w] + gr.weight[<<w, v>>] \in Nat
      BY <2>1, <2>2
    <3> QED BY <3>1, <2>2
  <2> HIDE DEF S
  <2>4. Min(S) \in Nat /\ Min(S) <= d[v]
    BY <2>3, MinNode
  <2>5. Min(S) \in 0 .. kDistInf
    BY <2>4, Limits
  <2> QED BY <2>5 DEF S
<1>2. First \in Row /\ NumNodes \in Nat
  BY Limits, NumNodesAssumption
<1> HIDE DEF Lower, First, Row
<1>3. F \in [Row -> Row]
  BY <1>1
<1> HIDE DEF F
<1>4. PICK f : Iterates(f, F, First, NumNodes, Row)
  BY <1>2, <1>3, IteratesExist
<1>5. Steps(f)
  <2> USE <1>4 DEF Iterates
  <2>1. ASSUME NEW k \in 0 .. NumNodes
        PROVE  f[k] = IF k = 0 THEN First ELSE Lower(f[k - 1])
    <3>1. CASE k = 0
      BY <3>1
    <3>2. CASE k # 0
      <4>1. k \in 1 .. NumNodes /\ k - 1 \in 0 .. NumNodes
        BY <3>2, <1>2
      <4>2. f[k - 1] \in Row /\ f[k] = F[f[k - 1]]
        BY <4>1
      <4> QED BY <4>2, <3>2 DEF F
    <3> QED BY <3>1, <3>2
  <2>2. f = [k \in 0 .. NumNodes |-> f[k]]
    OBVIOUS
  <2> QED BY <2>1, <2>2, Zenon
<1> DEFINE b == Rounds(gr, s)
<1>6. b = CHOOSE h : Steps(h)
  BY Zenon DEF Rounds, First, Lower
<1> HIDE DEF Steps
<1>7. Steps(b)
  BY <1>5, <1>6
<1> HIDE DEF b
<1>8. /\ DOMAIN b = 0 .. NumNodes
      /\ \A k \in 0 .. NumNodes : b[k] = IF k = 0 THEN First ELSE Lower(b[k - 1])
  <2>1. b = [k \in 0 .. NumNodes |-> IF k = 0 THEN First ELSE Lower(b[k - 1])]
    BY <1>7, Zenon DEF Steps
  <2> DEFINE e == [k \in 0 .. NumNodes |-> IF k = 0 THEN First ELSE Lower(b[k - 1])]
  <2>2. /\ DOMAIN e = 0 .. NumNodes
        /\ \A k \in 0 .. NumNodes : e[k] = IF k = 0 THEN First ELSE Lower(b[k - 1])
    OBVIOUS
  <2> HIDE DEF e
  <2>3. b = e
    BY <2>1 DEF e
  <2> QED BY <2>2, <2>3
<1>9. b[0] = First /\ \A k \in 1 .. NumNodes : b[k] = Lower(b[k - 1])
  BY <1>2, <1>8
<1>10. \A k \in 0 .. NumNodes : b[k] \in Row
  <2> DEFINE M == {n \in Nat : n <= NumNodes => b[n] \in Row}
  <2>1. 0 \in M
    BY <1>2, <1>9
  <2>2. ASSUME NEW n \in Nat, n \in M PROVE n + 1 \in M
    BY <1>1, <1>2, <1>9, <2>2
  <2> HIDE DEF M
  <2>3. Nat \subseteq M
    BY <2>1, <2>2, NatInduct
  <2> QED BY <1>2, <2>3 DEF M
<1>11. b \in [0 .. NumNodes -> Row]
  BY <1>7, <1>8, <1>10, Zenon DEF Steps
<1>12. \A v \in Node : b[0][v] = IF v = s THEN 0 ELSE kDistInf
  BY <1>9 DEF First
<1>13. \A k \in 1 .. NumNodes : b[k] = Lowered(gr, b[k - 1])
  BY <1>9 DEF Lower
<1> QED BY <1>11, <1>12, <1>13 DEF b, Row

\* An edge of a weighted graph and its weight.
LEMMA WeightNat ==
    ASSUME NEW gr, IsWGraph(gr), NEW x \in Node, NEW y \in Node, <<x, y>> \in gr.edges
    PROVE  gr.weight[<<x, y>>] \in Nat /\ x \in in_neigh(gr, y) /\ y \in out_neigh(gr, x)
BY DEF IsWGraph, in_neigh, out_neigh

\* A round lowers a distance along one edge or leaves it, and no edge of the
\* round before is left out.
LEMMA RoundFacts ==
    ASSUME NEW gr, IsWGraph(gr), NEW s \in Node, NEW k \in 1 .. NumNodes, NEW v \in Node
    PROVE  LET R == Rounds(gr, s)
           IN  /\ R[k][v] \in 0 .. kDistInf /\ R[k - 1][v] \in 0 .. kDistInf
               /\ R[k][v] <= R[k - 1][v]
               /\ \A w \in Node : <<w, v>> \in gr.edges =>
                     R[k][v] <= R[k - 1][w] + gr.weight[<<w, v>>]
               /\ \/ R[k][v] = R[k - 1][v]
                  \/ \E w \in Node : /\ <<w, v>> \in gr.edges
                                     /\ R[k][v] = R[k - 1][w] + gr.weight[<<w, v>>]
<1> DEFINE R == Rounds(gr, s)
           S == {R[k - 1][v]} \cup {R[k - 1][w] + gr.weight[<<w, v>>] : w \in in_neigh(gr, v)}
<1>1. /\ R \in [0 .. NumNodes -> [Node -> 0 .. kDistInf]]
      /\ R[k][v] = Min(S)
  <2>1. R[k] = Lowered(gr, R[k - 1])
    BY RoundSteps
  <2>2. Lowered(gr, R[k - 1])[v] = Min(S)
    BY DEF Lowered
  <2> QED BY <2>1, <2>2, RoundSteps
<1>2. k \in 0 .. NumNodes /\ k - 1 \in 0 .. NumNodes
  BY NumNodesAssumption
<1> HIDE DEF R
<1>3. \A w \in Node : R[k - 1][w] \in 0 .. kDistInf /\ R[k][w] \in 0 .. kDistInf
  BY <1>1, <1>2
<1>4. \A w \in in_neigh(gr, v) :
         w \in Node /\ <<w, v>> \in gr.edges /\ gr.weight[<<w, v>>] \in Nat
  BY WeightNat DEF in_neigh
<1>5. S \in SUBSET Nat /\ R[k - 1][v] \in S
  <2>1. \A w \in in_neigh(gr, v) : R[k - 1][w] + gr.weight[<<w, v>>] \in Nat
    BY <1>3, <1>4, Limits
  <2>2. R[k - 1][v] \in Nat
    BY <1>3, Limits
  <2> QED BY <2>1, <2>2
<1>6. Min(S) \in S /\ \A z \in S : Min(S) <= z
  BY <1>5, MinNode, Zenon
<1>7. \A w \in Node : <<w, v>> \in gr.edges => R[k - 1][w] + gr.weight[<<w, v>>] \in S
  <2>1. \A w \in Node : <<w, v>> \in gr.edges => w \in in_neigh(gr, v)
    BY DEF in_neigh
  <2> QED BY <2>1
<1>8. \A z \in S : \/ z = R[k - 1][v]
                   \/ \E w \in Node : /\ <<w, v>> \in gr.edges
                                      /\ z = R[k - 1][w] + gr.weight[<<w, v>>]
  BY <1>4
<1> HIDE DEF S
<1> QED BY <1>1, <1>3, <1>5, <1>6, <1>7, <1>8 DEF R

\* NumNodes rounds are enough: no edge leads to a shorter distance any more.
\* After k rounds there are k vertices, no farther than the others, that no
\* edge can improve.
LEMMA DistancesClosed ==
    ASSUME NEW gr, IsWGraph(gr), NEW s \in Node,
           NEW x \in Node, NEW y \in Node, <<x, y>> \in gr.edges
    PROVE  Distances(gr, s)[y] <= Distances(gr, s)[x] + gr.weight[<<x, y>>]
<1> DEFINE R == Rounds(gr, s)
           wt(a, b) == gr.weight[<<a, b>>]
           Edge(a, b) == <<a, b>> \in gr.edges
           Least(k, S) ==
              /\ \A a \in S, c \in Node \ S : R[k][a] <= R[k][c]
              /\ \A a \in S, b \in S, c \in Node \ S : Edge(b, c) => R[k][a] <= R[k][b] + wt(b, c)
              /\ \A a \in S, b \in Node : Edge(b, a) => R[k][a] <= R[k][b] + wt(b, a)
           M == {n \in Nat : n <= NumNodes =>
                    \E S \in SUBSET Node : Cardinality(S) = n /\ Least(n, S)}
<1>1. \A k \in 0 .. NumNodes : \A v \in Node : R[k][v] \in Nat
  <2>1. R \in [0 .. NumNodes -> [Node -> 0 .. kDistInf]]
    BY RoundSteps
  <2> HIDE DEF R
  <2> QED BY <2>1, Limits
<1>2. \A a, b \in Node : Edge(a, b) => wt(a, b) \in Nat
  BY WeightNat
<1>3. \A k \in 1 .. NumNodes : \A v \in Node :
         /\ R[k][v] <= R[k - 1][v]
         /\ \A w \in Node : Edge(w, v) => R[k][v] <= R[k - 1][w] + wt(w, v)
         /\ \/ R[k][v] = R[k - 1][v]
            \/ \E w \in Node : Edge(w, v) /\ R[k][v] = R[k - 1][w] + wt(w, v)
  <2> SUFFICES ASSUME NEW k \in 1 .. NumNodes, NEW v \in Node
               PROVE  /\ R[k][v] <= R[k - 1][v]
                      /\ \A w \in Node : Edge(w, v) => R[k][v] <= R[k - 1][w] + wt(w, v)
                      /\ \/ R[k][v] = R[k - 1][v]
                         \/ \E w \in Node : Edge(w, v) /\ R[k][v] = R[k - 1][w] + wt(w, v)
    OBVIOUS
  <2> QED BY RoundFacts
<1> HIDE DEF R, wt, Edge
<1>4. 0 \in M
  <2>1. Cardinality({}) = 0
    BY FS_EmptySet
  <2>2. Least(0, {})
    OBVIOUS
  <2> QED BY <2>1, <2>2
<1>5. ASSUME NEW n \in Nat, n \in M PROVE n + 1 \in M
  <2> SUFFICES ASSUME n + 1 <= NumNodes
               PROVE  \E S \in SUBSET Node : Cardinality(S) = n + 1 /\ Least(n + 1, S)
    OBVIOUS
  <2> DEFINE k == n + 1
  <2>1. k \in 1 .. NumNodes /\ k - 1 = n /\ n \in 0 .. NumNodes /\ k \in 0 .. NumNodes
    BY NumNodesAssumption
  <2>2. PICK S \in SUBSET Node : Cardinality(S) = n /\ Least(n, S)
    BY <1>5, <2>1
  <2>3. IsFiniteSet(S) /\ S # Node
    BY <2>2, NodeFinite, FS_Subset
  <2> HIDE DEF k
  <2>4. \A v \in Node : R[k][v] \in Nat /\ R[n][v] \in Nat /\ R[k][v] <= R[n][v]
    BY <1>1, <1>3, <2>1
  <2>5. \A v, w \in Node : Edge(w, v) => R[k][v] <= R[n][w] + wt(w, v)
    BY <1>3, <2>1
  <2>6. \A v \in Node : \/ R[k][v] = R[n][v]
                        \/ \E w \in Node : Edge(w, v) /\ R[k][v] = R[n][w] + wt(w, v)
    BY <1>3, <2>1
  <2>7. \A a \in S : R[k][a] = R[n][a]
    <3> SUFFICES ASSUME NEW a \in S PROVE R[k][a] = R[n][a]
      OBVIOUS
    <3>1. CASE R[k][a] = R[n][a]
      BY <3>1
    <3>2. CASE \E w \in Node : Edge(w, a) /\ R[k][a] = R[n][w] + wt(w, a)
      BY <2>2, <2>4, <3>2
    <3> QED BY <2>6, <3>1, <3>2
  <2>8. \A a \in S, c \in Node \ S : R[k][a] <= R[k][c]
    <3> SUFFICES ASSUME NEW a \in S, NEW c \in Node \ S PROVE R[k][a] <= R[k][c]
      OBVIOUS
    <3>1. CASE R[k][c] = R[n][c]
      BY <2>2, <2>7, <3>1
    <3>2. ASSUME NEW w \in Node, Edge(w, c), R[k][c] = R[n][w] + wt(w, c)
          PROVE  R[k][a] <= R[k][c]
      <4>1. CASE w \in S
        BY <2>2, <2>7, <3>2, <4>1
      <4>2. CASE w \notin S
        <5>1. R[n][a] <= R[n][w]
          BY <2>2, <4>2
        <5> QED BY <1>2, <2>4, <2>7, <3>2, <5>1
      <4> QED BY <4>1, <4>2
    <3> QED BY <2>6, <3>1, <3>2
  <2>9. PICK z \in Node \ S : \A c \in Node \ S : R[k][z] <= R[k][c]
    <3> DEFINE T == {R[k][c] : c \in Node \ S}
    <3>1. T \in SUBSET Nat /\ T # {}
      BY <2>3, <2>4
    <3> HIDE DEF T
    <3>2. PICK m \in T : \A i \in T : m <= i
      BY <3>1, NatLeast
    <3> QED BY <3>2 DEF T
  <2> DEFINE U == S \cup {z}
  <2>10. U \in SUBSET Node /\ Cardinality(U) = n + 1
    BY <2>2, <2>3, <2>9, FS_AddElement
  <2>11. \A a \in U : R[k][a] <= R[k][z]
    BY <2>4, <2>8, <2>9
  <2>12. \A a \in U, c \in Node \ U : R[k][a] <= R[k][c]
    BY <2>8, <2>9
  <2>13. ASSUME NEW a \in U, NEW b \in U, NEW c \in Node \ U, Edge(b, c)
         PROVE  R[k][a] <= R[k][b] + wt(b, c)
    <3>1. CASE b \in S
      <4>1. R[k][c] <= R[k][b] + wt(b, c)
        BY <2>5, <2>7, <2>13, <3>1
      <4>2. R[k][a] <= R[k][c]
        BY <2>12
      <4> QED BY <1>2, <2>4, <2>13, <3>1, <4>1, <4>2
    <3>2. CASE b = z
      BY <1>2, <2>4, <2>11, <2>13, <3>2
    <3> QED BY <3>1, <3>2
  <2>14. ASSUME NEW a \in U, NEW b \in Node, Edge(b, a)
         PROVE  R[k][a] <= R[k][b] + wt(b, a)
    <3>0. a \in Node
      OBVIOUS
    <3>1. CASE b \in S
      BY <2>5, <2>7, <2>14, <3>0, <3>1
    <3>2. CASE b \notin S
      <4>1. R[k][z] <= R[k][b]
        BY <2>9, <3>2
      <4>2. R[k][a] <= R[k][z]
        BY <2>11
      <4> QED BY <1>2, <2>4, <2>14, <3>0, <4>1, <4>2
    <3> QED BY <3>1, <3>2
  <2>15. Least(k, U)
    BY <2>12, <2>13, <2>14
  <2> HIDE DEF U, Least
  <2> QED BY <2>10, <2>15 DEF k
<1> HIDE DEF M
<1>6. Nat \subseteq M
  BY <1>4, <1>5, NatInduct
<1>7. PICK S \in SUBSET Node : Cardinality(S) = NumNodes /\ Least(NumNodes, S)
  BY <1>6, NumNodesAssumption DEF M
<1>8. S = Node
  BY <1>7, NodeFinite, FS_Subset
<1>9. R[NumNodes][y] <= R[NumNodes][x] + wt(x, y)
  BY <1>7, <1>8 DEF Edge
<1> QED BY <1>9 DEF R, wt, Distances

\* The source has distance 0, and no distance exceeds kDistInf.
LEMMA DistancesType ==
    ASSUME NEW gr, IsWGraph(gr), NEW s \in Node
    PROVE  /\ Distances(gr, s) \in [Node -> 0 .. kDistInf]
           /\ Distances(gr, s)[s] = 0
<1> DEFINE R == Rounds(gr, s)
           M == {n \in Nat : n <= NumNodes => R[n][s] = 0}
<1>1. R \in [0 .. NumNodes -> [Node -> 0 .. kDistInf]] /\ R[0][s] = 0
  BY RoundSteps
<1>2. \A k \in 1 .. NumNodes : R[k][s] <= R[k - 1][s] /\ R[k][s] \in 0 .. kDistInf
  BY RoundFacts
<1> HIDE DEF R
<1>3. ASSUME NEW n \in Nat, n \in M PROVE n + 1 \in M
  <2> SUFFICES ASSUME n + 1 <= NumNodes PROVE R[n + 1][s] = 0
    OBVIOUS
  <2>1. n + 1 \in 1 .. NumNodes /\ (n + 1) - 1 = n /\ R[n][s] = 0
    BY <1>3, NumNodesAssumption
  <2> QED BY <1>2, <2>1, Limits
<1>4. 0 \in M
  BY <1>1
<1> HIDE DEF M
<1>5. Nat \subseteq M
  BY <1>3, <1>4, NatInduct
<1>6. R[NumNodes][s] = 0 /\ R[NumNodes] \in [Node -> 0 .. kDistInf]
  BY <1>1, <1>5, NumNodesAssumption DEF M
<1> QED BY <1>6 DEF R, Distances

\* A round keeps a distance or takes it over an edge.
RoundChoice(gr, R) ==
    \A k \in 1 .. NumNodes : \A v \in Node :
       \/ R[k][v] = R[k - 1][v]
       \/ \E w \in Node : <<w, v>> \in gr.edges /\ R[k][v] = R[k - 1][w] + gr.weight[<<w, v>>]

LEMMA RoundsChoose ==
    ASSUME NEW gr, IsWGraph(gr), NEW s \in Node
    PROVE  RoundChoice(gr, Rounds(gr, s))
BY RoundFacts DEF RoundChoice

\* Distances that never undercut the rounds' and that no edge out of a vertex
\* below D can improve are the right ones below D.
LEMMA SettledBelow ==
    ASSUME NEW gr, IsWGraph(gr), NEW s \in Node, NEW D \in Nat,
           NEW d \in [Node -> 0 .. kDistInf], d[s] = 0,
           \A v \in Node : Distances(gr, s)[v] <= d[v],
           \A x, y \in Node : <<x, y>> \in gr.edges /\ d[x] + gr.weight[<<x, y>>] < d[y]
                                 => d[x] >= D,
           NEW v \in Node, Distances(gr, s)[v] < D
    PROVE  d[v] = Distances(gr, s)[v]
<1> DEFINE R == Rounds(gr, s)
           M == {n \in Nat : n <= NumNodes =>
                    \A z \in Node : R[n][z] < D => d[z] <= R[n][z]}
<1>1. /\ R \in [0 .. NumNodes -> [Node -> 0 .. kDistInf]]
      /\ \A z \in Node : R[0][z] = IF z = s THEN 0 ELSE kDistInf
  BY RoundSteps
<1>2. RoundChoice(gr, R)
  BY RoundsChoose
<1> HIDE DEF R
<1>3. 0 \in M
  <2>1. ASSUME NEW z \in Node PROVE d[z] <= R[0][z]
    <3>1. d[z] \in 0 .. kDistInf /\ d[s] = 0
      OBVIOUS
    <3>2. R[0][z] = IF z = s THEN 0 ELSE kDistInf
      BY <1>1
    <3> QED BY <3>1, <3>2, Limits
  <2> QED BY <2>1
<1>4. ASSUME NEW n \in Nat, n \in M PROVE n + 1 \in M
  <2> SUFFICES ASSUME n + 1 <= NumNodes, NEW z \in Node, R[n + 1][z] < D
               PROVE  d[z] <= R[n + 1][z]
    OBVIOUS
  <2>1. /\ n + 1 \in 1 .. NumNodes /\ (n + 1) - 1 = n /\ n \in 0 .. NumNodes
        /\ \A a \in Node : R[n][a] < D => d[a] <= R[n][a]
    BY <1>4, NumNodesAssumption
  <2>2. CASE R[n + 1][z] = R[n][z]
    BY <2>1, <2>2
  <2>3. ASSUME NEW w \in Node, <<w, z>> \in gr.edges,
               R[n + 1][z] = R[n][w] + gr.weight[<<w, z>>]
        PROVE  d[z] <= R[n + 1][z]
    <3>1. gr.weight[<<w, z>>] \in Nat /\ R[n][w] \in Nat /\ d[w] \in Nat /\ d[z] \in Nat
      <4>1. gr.weight[<<w, z>>] \in Nat
        BY <2>3, WeightNat
      <4>2. R[n] \in [Node -> 0 .. kDistInf]
        BY <1>1, <2>1
      <4>3. R[n][w] \in 0 .. kDistInf
        BY <4>2
      <4>4. d[w] \in 0 .. kDistInf /\ d[z] \in 0 .. kDistInf
        OBVIOUS
      <4> QED BY <4>1, <4>3, <4>4, Limits
    <3>2. R[n][w] < D /\ d[w] <= R[n][w] /\ d[w] < D
      <4>1. R[n][w] + gr.weight[<<w, z>>] < D
        BY <2>3
      <4>2. R[n][w] < D
        BY <3>1, <4>1
      <4>3. d[w] <= R[n][w]
        BY <2>1, <4>2
      <4> QED BY <3>1, <4>2, <4>3
    <3>3. ~(d[w] + gr.weight[<<w, z>>] < d[z])
      <4>1. ~(d[w] >= D)
        BY <3>1, <3>2
      <4> QED BY <2>3, <4>1
    <3> QED BY <2>3, <3>1, <3>2, <3>3
  <2>4. \/ R[n + 1][z] = R[(n + 1) - 1][z]
        \/ \E w \in Node : /\ <<w, z>> \in gr.edges
                           /\ R[n + 1][z] = R[(n + 1) - 1][w] + gr.weight[<<w, z>>]
    BY <1>2, <2>1, Zenon DEF RoundChoice
  <2>5. \/ R[n + 1][z] = R[n][z]
        \/ \E w \in Node : <<w, z>> \in gr.edges /\ R[n + 1][z] = R[n][w] + gr.weight[<<w, z>>]
    BY <2>1, <2>4, Zenon
  <2> QED BY <2>2, <2>3, <2>5
<1> HIDE DEF M
<1>5. Nat \subseteq M
  BY <1>3, <1>4, NatInduct
<1>6. R[NumNodes][v] < D => d[v] <= R[NumNodes][v]
  BY <1>5, NumNodesAssumption DEF M
<1>7. Distances(gr, s)[v] \in 0 .. kDistInf /\ Distances(gr, s)[v] = R[NumNodes][v]
  BY DistancesType DEF Distances, R
<1> QED BY <1>6, <1>7, Limits

-----------------------------------------------------------------------------
\* Bins.

Holds(s, x) == \E k \in 1 .. Len(s) : s[k] = x

\* Bin i reads as empty beyond the last one.
LEMMA BinType ==
    ASSUME NEW bins \in Seq(Seq(Node)), NEW i \in Nat
    PROVE  /\ Bin(bins, i) \in Seq(Node)
           /\ i >= Len(bins) => Bin(bins, i) = <<>>
<1>1. CASE i < Len(bins)
  <2>1. i + 1 \in 1 .. Len(bins)
    BY <1>1
  <2>2. bins[i + 1] \in Seq(Node)
    BY <2>1, ElementOfSeq
  <2> QED BY <1>1, <2>2 DEF Bin
<1>2. CASE ~(i < Len(bins))
  BY <1>2 DEF Bin
<1> QED BY <1>1, <1>2

\* Replacing bin i, beyond the last one or not, changes no other bin.
LEMMA WithBinFacts ==
    ASSUME NEW bins \in Seq(Seq(Node)), NEW i \in Nat, NEW b \in Seq(Node)
    PROVE  /\ WithBin(bins, i, b) \in Seq(Seq(Node))
           /\ Len(WithBin(bins, i, b)) = IF i < Len(bins) THEN Len(bins) ELSE i + 1
           /\ Bin(WithBin(bins, i, b), i) = b
           /\ \A j \in Nat : j # i => Bin(WithBin(bins, i, b), j) = Bin(bins, j)
<1> DEFINE n == Max({Len(bins), i + 1})
           s == WithBin(bins, i, b)
<1>1. n \in {Len(bins), i + 1} /\ n >= Len(bins) /\ n >= i + 1
  <2>1. Len(bins) \in Nat
    OBVIOUS
  <2> DEFINE T == {Len(bins), i + 1}
  <2>2. \E x \in T : \A y \in T : x >= y
    BY <2>1
  <2>3. Max(T) \in T /\ \A y \in T : Max(T) >= y
    BY <2>2 DEF Max
  <2> QED BY <2>3
<1>2. n \in Nat
  BY <1>1
<1>3. s = [k \in 1 .. n |-> IF k = i + 1 THEN b ELSE Bin(bins, k - 1)]
  BY DEF WithBin
<1> HIDE DEF n, s
<1>4. \A k \in 1 .. n : (IF k = i + 1 THEN b ELSE Bin(bins, k - 1)) \in Seq(Node)
  BY BinType, <1>2
<1>5. s \in Seq(Seq(Node)) /\ Len(s) = n
  BY <1>2, <1>3, <1>4, IsASeq
<1>6. ASSUME NEW j \in Nat
      PROVE  Bin(s, j) = IF j = i THEN b ELSE Bin(bins, j)
  <2>1. CASE j < n
    <3>1. j + 1 \in 1 .. n /\ (j + 1) - 1 = j /\ (j + 1 = i + 1 <=> j = i)
      BY <1>2, <2>1
    <3>2. s[j + 1] = IF j + 1 = i + 1 THEN b ELSE Bin(bins, (j + 1) - 1)
      BY <1>3, <3>1
    <3>3. Bin(s, j) = s[j + 1]
      BY <1>5, <2>1 DEF Bin
    <3> QED BY <3>1, <3>2, <3>3
  <2>2. CASE ~(j < n)
    <3>1. j # i /\ ~(j < Len(bins))
      BY <1>1, <1>2, <2>2
    <3> QED BY <1>5, <2>2, <3>1 DEF Bin
  <2> QED BY <2>1, <2>2
<1>7. Len(s) = IF i < Len(bins) THEN Len(bins) ELSE i + 1
  <2>1. Len(bins) \in Nat
    OBVIOUS
  <2> QED BY <1>1, <1>5, <2>1
<1> QED BY <1>5, <1>6, <1>7 DEF s

\* What is in a sequence after an element was added or taken from the front.
LEMMA HoldsFacts ==
    ASSUME NEW s \in Seq(Node)
    PROVE  /\ \A v \in Node : /\ Append(s, v) \in Seq(Node) /\ Append(s, v) # <<>>
                              /\ Holds(Append(s, v), v)
                              /\ \A x : Holds(s, x) => Holds(Append(s, v), x)
           /\ s # <<>> => /\ Head(s) \in Node /\ Tail(s) \in Seq(Node)
                          /\ \A x : Holds(s, x) => x = Head(s) \/ Holds(Tail(s), x)
           /\ \A x : Holds(s, x) => s # <<>>
<1>1. ASSUME NEW v \in Node
      PROVE  /\ Append(s, v) \in Seq(Node) /\ Append(s, v) # <<>>
             /\ Holds(Append(s, v), v)
             /\ \A x : Holds(s, x) => Holds(Append(s, v), x)
  <2> DEFINE r == Append(s, v)
  <2>1. /\ r \in Seq(Node) /\ Len(r) = Len(s) + 1
        /\ \A k \in 1 .. Len(s) : r[k] = s[k]
        /\ r[Len(s) + 1] = v
    OBVIOUS
  <2> HIDE DEF r
  <2>2. Len(s) \in Nat
    OBVIOUS
  <2>3. Holds(r, v) /\ r # <<>>
    BY <2>1, <2>2 DEF Holds
  <2>4. \A x : Holds(s, x) => Holds(r, x)
    BY <2>1, <2>2 DEF Holds
  <2> QED BY <2>1, <2>3, <2>4 DEF r
<1>2. ASSUME s # <<>>
      PROVE  /\ Head(s) \in Node /\ Tail(s) \in Seq(Node)
             /\ \A x : Holds(s, x) => x = Head(s) \/ Holds(Tail(s), x)
  <2>1. /\ Head(s) \in Node /\ Head(s) = s[1] /\ Tail(s) \in Seq(Node)
        /\ Len(Tail(s)) = Len(s) - 1 /\ Len(s) \in Nat
        /\ \A k \in 1 .. (Len(s) - 1) : Tail(s)[k] = s[k + 1]
    BY <1>2
  <2>2. ASSUME NEW x, Holds(s, x), x # Head(s)
        PROVE  Holds(Tail(s), x)
    <3>1. PICK k \in 1 .. Len(s) : s[k] = x
      BY <2>2 DEF Holds
    <3>2. k - 1 \in 1 .. (Len(s) - 1) /\ (k - 1) + 1 = k
      BY <2>1, <2>2, <3>1
    <3>3. Tail(s)[k - 1] = x
      BY <2>1, <3>1, <3>2
    <3> QED BY <2>1, <3>2, <3>3 DEF Holds
  <2> QED BY <2>1, <2>2
<1>3. \A x : Holds(s, x) => s # <<>>
  BY DEF Holds
<1> QED BY <1>1, <1>2, <1>3

\* A distance falls in bin n or a higher one when it is not below the bin.
LEMMA BinOrder ==
    ASSUME NEW x \in Nat, NEW n \in Nat, NEW d \in Nat \ {0}
    PROVE  /\ x \div d \in Nat /\ x \div d <= x
           /\ x \div d >= n <=> x >= d * n
<1> DEFINE q == x \div d
           r == x % d
<1>1. q \in Int /\ r \in 0 .. (d - 1) /\ x = d * q + r
  OBVIOUS
<1> HIDE DEF q, r
<1>2. q \in Nat
  <2> SUFFICES ASSUME q < 0 PROVE FALSE
    BY <1>1
  <2>1. d * q <= d * (0 - 1)
    BY <1>1
  <2> QED BY <1>1, <2>1
<1>3. q <= x
  <2>1. d * q >= q
    BY <1>2
  <2> QED BY <1>1, <1>2, <2>1
<1>4. ASSUME q >= n PROVE x >= d * n
  <2>1. d * q >= d * n
    BY <1>2, <1>4
  <2> QED BY <1>1, <1>2, <2>1
<1>5. ASSUME q < n PROVE x < d * n
  <2>1. q + 1 <= n
    BY <1>2, <1>5
  <2>2. d * (q + 1) <= d * n
    BY <1>2, <2>1
  <2>3. d * (q + 1) = d * q + d
    BY <1>2
  <2> QED BY <1>1, <1>2, <2>2, <2>3
<1> QED BY <1>2, <1>3, <1>4, <1>5 DEF q

-----------------------------------------------------------------------------
\* The inductive invariant.

BinNo == 0 .. kMaxBin
BinOf(x) == dist[x] \div delta

\* Relaxing the edge from x to y would still lower the distance of y.
Tense(x, y) == dist[x] + weight(x, y) < dist[y]

InOwnBin(t, x) == Holds(Bin(local_bins[t], BinOf(x)), x)

Relaxing(t) == pc[t] \in {"edge", "readU", "cas", "recheck"}

\* t is on its way to relax the edge from x to y, with a distance of x that has
\* not been lowered since it was read.
ToRelax(t, x, y) ==
    /\ Relaxing(t) /\ u[t] = x /\ y \in nbrs[t]
    /\ pc[t] \in {"cas", "recheck"} /\ y = neighbor(t) => new_dist[t] <= dist[x] + weight(x, y)

\* x is in t's part of the frontier of bin b, and passes the test of line 117.
InShare(t, x, b) == dist[x] >= delta * b /\ \E i \in todo[t] : frontier[i] = x

\* t will still relax the edge from x to y while bin b lasts, or later.
Attends(t, x, y, b) ==
    InOwnBin(t, x) \/ InShare(t, x, b) \/ Holds(fused[t], x) \/ ToRelax(t, x, y)

Waits(x, y, b) == \E t \in Thread : Attends(t, x, y, b)

\* No distance undercuts the length of a shortest path, and those below bin b
\* are found.
Sound == \A v \in Node : oracle[v] <= dist[v]
Settled(b) == \A v \in Node : oracle[v] < delta * b => dist[v] = oracle[v]

WorkPlaces == {"while", "next", "edge", "readU", "cas", "recheck", "barrier1", "done"}
CopyPlaces == {"single", "copy", "fill", "barrier2"}

Typed ==
    /\ g \in Graphs /\ source \in Node /\ delta \in Deltas
    /\ oracle = Distances(g, source)
    /\ dist \in [Node -> 0 .. kDistInf] /\ dist[source] = 0
    /\ shared_indexes \in [0 .. 1 -> BinNo]
    /\ frontier_tails \in [0 .. 1 -> Nat]
    /\ single_taken \in BOOLEAN
    /\ pc \in [Thread -> WorkPlaces \cup CopyPlaces]
    /\ iter \in [Thread -> 0 .. 1]
    /\ local_bins \in [Thread -> Seq(Seq(Node))]
    /\ \A t \in Thread : Len(local_bins[t]) <= kDistInf
    /\ todo \in [Thread -> SUBSET Nat]
    /\ fused \in [Thread -> Seq(Node)]
    /\ nbrs \in [Thread -> SUBSET Node]
    /\ u \in [Thread -> Node]
    /\ old_dist \in [Thread -> Nat] /\ new_dist \in [Thread -> Nat]
    /\ copy_start \in [Thread -> Nat]

\* What t has read in the middle of RelaxEdges.
LocalsOK(t) ==
    /\ Relaxing(t) => nbrs[t] # {} /\ nbrs[t] \subseteq out_neigh(g, u[t])
    /\ pc[t] = "readU" => old_dist[t] <= kDistInf /\ dist[neighbor(t)] <= old_dist[t]
    /\ pc[t] = "cas" => new_dist[t] < old_dist[t]
    /\ pc[t] \in {"cas", "recheck"} =>
          new_dist[t] < kDistInf /\ oracle[neighbor(t)] <= new_dist[t]

ShareOK(t) == \A i \in todo[t] : i \in DOMAIN frontier /\ frontier[i] \in Node

Empty(t, i) == Bin(local_bins[t], i) = <<>>

\* t has nothing left to do in bin b, and has voted for a bin no higher than any
\* of its own.
Voted(t, b) ==
    /\ todo[t] = {} /\ fused[t] = <<>>
    /\ \A i \in BinNo : i < b => Empty(t, i)

\* From the second barrier to the first: threads take turns at bin b, with
\* iter of parity p, and vote for the next.
Work(p) ==
    LET b == shared_indexes[p]  n == shared_indexes[1 - p]
    IN  /\ pc \in [Thread -> WorkPlaces]
        /\ \A t \in Thread : iter[t] = p
        /\ frontier_tails[1 - p] = 0
        /\ b <= n
        /\ \A t \in Thread : (pc[t] = "done" => b = kMaxBin)
                             /\ (pc[t] \notin {"while", "done"} => b # kMaxBin)
        /\ Settled(b)
        /\ \A t \in Thread : LocalsOK(t) /\ ShareOK(t)
        /\ \A t \in Thread : \A i \in BinNo : i < b => Empty(t, i)
        /\ \A t \in Thread : pc[t] = "barrier1" => Voted(t, n)
        /\ \A x \in Node : \A y \in out_neigh(g, x) : Tense(x, y) => Waits(x, y, b)

\* The slots that t has claimed and not filled yet, for bin n.
ClaimedSlots(t, n) ==
    IF pc[t] = "fill"
    THEN copy_start[t] .. (copy_start[t] + Len(Bin(local_bins[t], n)) - 1)
    ELSE {}

\* A slot of the next frontier that is filled.
FilledWith(i, x, n) ==
    /\ i \in DOMAIN frontier /\ frontier[i] = x
    /\ \A t \in Thread : i \notin ClaimedSlots(t, n)

\* What t has done of its part of the copy of bin n to the next frontier, of
\* length tail.
CopyOK(t, p, n, tail) ==
    /\ pc[t] \in CopyPlaces
    /\ iter[t] = IF pc[t] = "barrier2" THEN 1 - p ELSE p
    /\ todo[t] = {} /\ fused[t] = <<>>
    /\ ~single_taken => pc[t] = "single"
    /\ \A i \in BinNo : i < n => Empty(t, i)
    /\ pc[t] = "barrier2" => Empty(t, n)
    /\ pc[t] = "fill" => n < Len(local_bins[t])
    /\ ClaimedSlots(t, n) \subseteq 0 .. (tail - 1)

\* x waits in the next frontier, or in a thread's bin.
AtHand(x, n, tail) ==
    \/ \E t \in Thread : InOwnBin(t, x)
    \/ dist[x] >= delta * n /\ \E i \in 0 .. (tail - 1) : FilledWith(i, x, n)

\* From the first barrier to the second: the threads copy bin n to the frontier.
Copy(p) ==
    LET b == shared_indexes[p]
        n == shared_indexes[1 - p]
        tail == frontier_tails[1 - p]
    IN  /\ \A t \in Thread : CopyOK(t, p, n, tail)
        /\ ~single_taken => tail = 0 /\ Settled(b)
        /\ single_taken => b = kMaxBin /\ frontier_tails[p] = 0
        /\ Settled(n)
        /\ \A s, t \in Thread : s # t => ClaimedSlots(s, n) \cap ClaimedSlots(t, n) = {}
        /\ \A i \in 0 .. (tail - 1) : \/ \E t \in Thread : i \in ClaimedSlots(t, n)
                                      \/ \E x \in Node : FilledWith(i, x, n)
        /\ \A x \in Node : \A y \in out_neigh(g, x) : Tense(x, y) => AtHand(x, n, tail)

IInv == Typed /\ Sound /\ \E p \in 0 .. 1 : Work(p) \/ Copy(p)

\* The graph, delta and the distances of the verifier while DeltaStep runs.
LEMMA GraphFacts ==
    ASSUME Typed
    PROVE  /\ IsWGraph(g) /\ delta \in Nat \ {0}
           /\ oracle \in [Node -> 0 .. kDistInf] /\ oracle[source] = 0
           /\ \A x \in Node : \A y \in out_neigh(g, x) :
                 y \in Node /\ weight(x, y) \in Nat /\ oracle[y] <= oracle[x] + weight(x, y)
           /\ \A x \in Node : oracle[x] \in Nat /\ dist[x] \in Nat
<1>1. IsWGraph(g) /\ delta \in Nat \ {0} /\ source \in Node
  BY GraphsAssumption, DeltasAssumption DEF Typed
<1>2. oracle \in [Node -> 0 .. kDistInf] /\ oracle[source] = 0
  BY <1>1, DistancesType DEF Typed
<1>3. ASSUME NEW x \in Node, NEW y \in out_neigh(g, x)
      PROVE  y \in Node /\ weight(x, y) \in Nat /\ oracle[y] <= oracle[x] + weight(x, y)
  <2>1. y \in Node /\ <<x, y>> \in g.edges
    BY DEF out_neigh
  <2> QED BY <1>1, <2>1, WeightNat, DistancesClosed DEF Typed, weight
<1>4. \A x \in Node : oracle[x] \in Nat /\ dist[x] \in Nat
  BY <1>2, Limits DEF Typed
<1> QED BY <1>1, <1>2, <1>3, <1>4

\* What the neighbour at hand is.
LEMMA NeighborFacts ==
    ASSUME Typed, NEW t \in Thread, nbrs[t] # {}
    PROVE  neighbor(t) \in nbrs[t] /\ neighbor(t) \in Node
<1>1. nbrs[t] \in SUBSET Nat /\ nbrs[t] \subseteq Node
  BY NodeNat DEF Typed
<1> QED BY <1>1, MinNode DEF neighbor

\* The search starts with the source in bin 0 and all other distances infinite.
LEMMA InitIInv == Init => IInv
<1> SUFFICES ASSUME Init PROVE IInv
  OBVIOUS
<1>1. Divides(todo, {0}) /\ todo \in [Thread -> SUBSET {0}]
  BY ScheduleDivides DEF Init, Divides
<1>2. Typed
  <2>1. <<>> \in Seq(Seq(Node)) /\ <<>> \in Seq(Node) /\ Len(<<>>) = 0
    OBVIOUS
  <2>2. todo \in [Thread -> SUBSET Nat]
    BY <1>1
  <2>3. local_bins \in [Thread -> Seq(Seq(Node))] /\ fused \in [Thread -> Seq(Node)]
        /\ \A t \in Thread : local_bins[t] = <<>>
    BY <2>1 DEF Init
  <2>4. \A t \in Thread : Len(local_bins[t]) <= kDistInf
    BY <2>1, <2>3, Limits
  <2>5. shared_indexes \in [0 .. 1 -> BinNo] /\ frontier_tails \in [0 .. 1 -> Nat]
        /\ dist \in [Node -> 0 .. kDistInf] /\ dist[source] = 0
    <3>1. 0 \in BinNo /\ kMaxBin \in BinNo /\ 0 \in 0 .. kDistInf /\ kDistInf \in 0 .. kDistInf
      BY Limits DEF BinNo
    <3> QED BY <3>1 DEF Init
  <2>6. /\ iter \in [Thread -> 0 .. 1] /\ single_taken \in BOOLEAN
        /\ nbrs \in [Thread -> SUBSET Node] /\ u \in [Thread -> Node]
        /\ old_dist \in [Thread -> Nat] /\ new_dist \in [Thread -> Nat]
        /\ copy_start \in [Thread -> Nat] /\ pc \in [Thread -> WorkPlaces \cup CopyPlaces]
    <3>1. /\ iter = [t \in Thread |-> 0] /\ single_taken = FALSE
          /\ nbrs = [t \in Thread |-> {}] /\ u = [t \in Thread |-> 0]
          /\ old_dist = u /\ new_dist = u /\ copy_start = u
      BY DEF Init
    <3>2. iter \in [Thread -> 0 .. 1] /\ nbrs \in [Thread -> SUBSET Node]
      BY <3>1
    <3>3. u \in [Thread -> Node] /\ u \in [Thread -> Nat]
      BY <3>1, NodeNat
    <3>4. pc \in [Thread -> WorkPlaces \cup CopyPlaces]
      BY DEF Init, WorkPlaces
    <3> QED BY <3>1, <3>2, <3>3, <3>4
  <2>7. g \in Graphs /\ source \in Node /\ delta \in Deltas /\ oracle = Distances(g, source)
    BY DEF Init
  <2> QED BY <2>2, <2>3, <2>4, <2>5, <2>6, <2>7 DEF Typed
<1>3. \A x \in Node : oracle[x] \in 0 .. kDistInf /\ oracle[source] = 0
  BY <1>2, GraphFacts
<1>4. Sound
  BY <1>3, Limits DEF Sound, Init
<1>5. Work(0)
  <2>1. shared_indexes[0] = 0 /\ shared_indexes[1 - 0] = kMaxBin
        /\ frontier_tails[1 - 0] = 0
    BY DEF Init
  <2>2. /\ pc \in [Thread -> WorkPlaces]
        /\ \A t \in Thread : pc[t] = "while" /\ iter[t] = 0
    BY DEF Init, WorkPlaces
  <2>3. Settled(0)
    BY <1>2, <1>3, GraphFacts DEF Settled
  <2>4. \A t \in Thread : LocalsOK(t) /\ ShareOK(t)
    <3>1. 0 \in DOMAIN frontier /\ frontier[0] \in Node
      BY DEF Init
    <3>2. \A t \in Thread : \A i \in todo[t] : i = 0
      BY <1>1
    <3>3. \A t \in Thread : ShareOK(t)
      BY <3>1, <3>2 DEF ShareOK
    <3>4. \A t \in Thread : LocalsOK(t)
      BY <2>2 DEF LocalsOK, Relaxing
    <3> QED BY <3>3, <3>4
  <2>5. ASSUME NEW x \in Node, NEW y \in out_neigh(g, x), Tense(x, y)
        PROVE  Waits(x, y, 0)
    <3>1. x = source
      <4>1. dist[x] < dist[y] /\ dist[y] <= kDistInf /\ y \in Node
        BY <1>2, <2>5, GraphFacts DEF Tense, Typed
      <4>2. dist = [v \in Node |-> IF v = source THEN 0 ELSE kDistInf]
        BY DEF Init
      <4>3. dist[x] < kDistInf
        BY <1>2, <4>1, Limits DEF Typed
      <4> QED BY <4>2, <4>3, Limits
    <3>2. PICK t \in Thread : 0 \in todo[t]
      BY <1>1 DEF Divides
    <3>3. frontier[0] = x /\ dist[x] >= delta * 0
      BY <3>1, <1>2, GraphFacts DEF Init
    <3> QED BY <3>2, <3>3 DEF Waits, Attends, InShare
  <2> DEFINE b == shared_indexes[0]
             n == shared_indexes[1 - 0]
  <2>6. \A t \in Thread : \A i \in BinNo : ~(i < b)
    BY <2>1 DEF BinNo
  <2>7. b <= n /\ Settled(b)
    BY <2>1, <2>3, Limits
  <2>8. \A x \in Node : \A y \in out_neigh(g, x) : Tense(x, y) => Waits(x, y, b)
    BY <2>1, <2>5
  <2>9. \A t \in Thread : ~(pc[t] = "done") /\ ~(pc[t] \notin {"while", "done"})
                           /\ ~(pc[t] = "barrier1")
    BY <2>2
  <2>10. \A t \in Thread : \A i \in BinNo : i < b => Empty(t, i)
    BY <2>6
  <2> HIDE DEF b, n
  <2>11. frontier_tails[1 - 0] = 0
    BY <2>1
  <2> QED BY <2>2, <2>4, <2>7, <2>8, <2>9, <2>10, <2>11 DEF Work, b, n
<1> QED BY <1>2, <1>4, <1>5 DEF IInv

\* Only t's part of the per-thread state changes.
OthersRest(t) ==
    \A s \in Thread \ {t} :
       /\ pc'[s] = pc[s] /\ u'[s] = u[s] /\ nbrs'[s] = nbrs[s]
       /\ old_dist'[s] = old_dist[s] /\ new_dist'[s] = new_dist[s]
       /\ todo'[s] = todo[s] /\ fused'[s] = fused[s] /\ local_bins'[s] = local_bins[s]

\* Where t may be while bin b lasts and n is the lowest bin voted for.
PlaceOK(t, b, n) ==
    /\ pc[t] \in WorkPlaces
    /\ pc[t] = "done" => b = kMaxBin
    /\ pc[t] \notin {"while", "done"} => b # kMaxBin
    /\ pc[t] = "barrier1" => Voted(t, n)

\* A step of t that lowers no distance, keeps the current bin and votes for no
\* higher a bin than the others keeps the invariant if what it leaves waiting
\* with t it found there.
LEMMA LocalStep ==
    ASSUME Typed, Sound, Typed', NEW p \in 0 .. 1, Work(p), NEW t \in Thread,
           UNCHANGED <<args, dist, frontier, frontier_tails, iter>>,
           shared_indexes'[p] = shared_indexes[p],
           shared_indexes[p] <= shared_indexes'[1 - p],
           shared_indexes'[1 - p] <= shared_indexes[1 - p],
           OthersRest(t),
           PlaceOK(t, shared_indexes[p], shared_indexes[1 - p])',
           LocalsOK(t)', ShareOK(t)',
           \A i \in BinNo : i < shared_indexes[p] => Empty(t, i)',
           \A x \in Node : \A y \in out_neigh(g, x) :
              Tense(x, y) /\ Attends(t, x, y, shared_indexes[p]) =>
                 Attends(t, x, y, shared_indexes[p])'
    PROVE  IInv'
<1> DEFINE b == shared_indexes[p]
           n == shared_indexes[1 - p]
<1>1. Sound' /\ Settled(b)'
  <2>1. Settled(b)
    BY DEF Work
  <2> QED BY <2>1 DEF Sound, Settled, args
<1>2. g' = g /\ delta' = delta /\ oracle' = oracle /\ b' = b
  BY DEF args
<1>3. ASSUME NEW s \in Thread, s # t
      PROVE  /\ pc'[s] = pc[s] /\ u'[s] = u[s] /\ nbrs'[s] = nbrs[s]
             /\ old_dist'[s] = old_dist[s] /\ new_dist'[s] = new_dist[s]
             /\ todo'[s] = todo[s] /\ fused'[s] = fused[s] /\ local_bins'[s] = local_bins[s]
  BY <1>3 DEF OthersRest
<1>4. b \in BinNo /\ n \in BinNo /\ n' \in BinNo /\ n' <= n /\ b <= n'
  <2>1. 1 - p \in 0 .. 1
    OBVIOUS
  <2> QED BY <2>1 DEF Typed
<1>5. ASSUME NEW s \in Thread
      PROVE  PlaceOK(s, b, n)' /\ LocalsOK(s)' /\ ShareOK(s)'
             /\ \A i \in BinNo : i < b => Empty(s, i)'
  <2>1. CASE s = t
    BY <2>1
  <2>2. CASE s # t
    <3>1. LocalsOK(s) /\ ShareOK(s) /\ PlaceOK(s, b, n) /\ \A i \in BinNo : i < b => Empty(s, i)
      BY DEF Work, PlaceOK
    <3>2. LocalsOK(s)' /\ ShareOK(s)' /\ \A i \in BinNo : i < b => Empty(s, i)'
      BY <1>2, <1>3, <2>2, <3>1 DEF LocalsOK, ShareOK, Empty, Relaxing, neighbor
    <3>3. Voted(s, n) => Voted(s, n)'
      <4> SUFFICES ASSUME Voted(s, n) PROVE Voted(s, n)'
        OBVIOUS
      <4>1. \A i \in BinNo : i < n' => Empty(s, i)'
        BY <1>3, <1>4, <2>2, Limits DEF Voted, Empty, BinNo
      <4> QED BY <1>3, <2>2, <4>1 DEF Voted
    <3>4. PlaceOK(s, b, n)'
      BY <1>2, <1>3, <2>2, <3>1, <3>3 DEF PlaceOK
    <3> QED BY <3>2, <3>4
  <2> QED BY <2>1, <2>2
<1>6. ASSUME NEW x \in Node, NEW y \in out_neigh(g, x), Tense(x, y)'
      PROVE  Waits(x, y, b)'
  <2>1. Tense(x, y)
    BY <1>2, <1>6 DEF Tense, weight
  <2>2. PICK s \in Thread : Attends(s, x, y, b)
    BY <2>1 DEF Work, Waits
  <2>3. CASE s = t
    BY <2>1, <2>2, <2>3 DEF Waits
  <2>4. CASE s # t
    <3>1. Attends(s, x, y, b)'
      BY <1>2, <1>3, <2>2, <2>4 DEF Attends, InOwnBin, BinOf, InShare, ToRelax, Relaxing,
                                     neighbor, weight
    <3> QED BY <3>1 DEF Waits
  <2> QED BY <2>3, <2>4
<1>7. pc' \in [Thread -> WorkPlaces]
  <2>1. \A s \in Thread : pc'[s] \in WorkPlaces
    BY <1>5 DEF PlaceOK
  <2> QED BY <2>1 DEF Typed
<1>8. (\A s \in Thread : iter[s] = p) /\ frontier_tails[1 - p] = 0
  BY DEF Work
<1> HIDE DEF b, n
<1>9. Work(p)'
  <2>1. \A x \in Node : \A y \in out_neigh(g, x) : Tense(x, y)' => Waits(x, y, b)'
    BY <1>6
  <2> QED BY <1>1, <1>2, <1>4, <1>5, <1>7, <1>8, <2>1 DEF Work, PlaceOK, b, n
<1> QED BY <1>1, <1>9 DEF IInv

\* What Work says of the thread that moves, and where it is.
LEMMA WorkFacts ==
    ASSUME Typed, NEW p \in 0 .. 1, Work(p), NEW t \in Thread
    PROVE  /\ shared_indexes[p] \in BinNo /\ shared_indexes[1 - p] \in BinNo
           /\ shared_indexes[p] <= shared_indexes[1 - p]
           /\ curr(t) = p /\ next(t) = 1 - p
           /\ curr_bin_index(t) = shared_indexes[p] /\ next_bin_index(t) = shared_indexes[1 - p]
           /\ PlaceOK(t, shared_indexes[p], shared_indexes[1 - p])
           /\ LocalsOK(t) /\ ShareOK(t)
           /\ \A i \in BinNo : i < shared_indexes[p] => Empty(t, i)
<1>1. 1 - p \in 0 .. 1
  OBVIOUS
<1>2. iter[t] = p
  BY DEF Work
<1> QED BY <1>1, <1>2 DEF Work, Typed, PlaceOK, curr, next, curr_bin_index, next_bin_index

\* The test at the top of the loop takes a thread into the iteration or out.
LEMMA WhileKeeps ==
    ASSUME Typed, Sound, NEW p \in 0 .. 1, Work(p), NEW t \in Thread, While(t)
    PROVE  IInv'
<1> USE DEF shared, relax
<1>1. /\ pc[t] = "while" /\ UNCHANGED <<args, dist, shared, iter, local_bins, todo, fused, relax, copy_start>>
      /\ pc' = [pc EXCEPT ![t] = IF shared_indexes[p] # kMaxBin THEN "next" ELSE "done"]
  BY WorkFacts DEF While, Goto
<1>2. Typed'
  BY <1>1 DEF Typed, args, WorkPlaces
<1>3. /\ \A s \in Thread : s # t => pc'[s] = pc[s]
      /\ pc'[t] \in {"next", "done"}
      /\ pc'[t] = IF shared_indexes[p] # kMaxBin THEN "next" ELSE "done"
  BY <1>1 DEF Typed
<1>4. OthersRest(t)
  BY <1>1, <1>3 DEF OthersRest
<1>5. PlaceOK(t, shared_indexes[p], shared_indexes[1 - p])'
  BY <1>1, <1>3 DEF PlaceOK, WorkPlaces
<1>6. LocalsOK(t)' /\ ShareOK(t)' /\ \A i \in BinNo : i < shared_indexes[p] => Empty(t, i)'
  <2>1. ShareOK(t) /\ \A i \in BinNo : i < shared_indexes[p] => Empty(t, i)
    BY WorkFacts
  <2>2. LocalsOK(t)'
    BY <1>3 DEF LocalsOK, Relaxing
  <2> QED BY <1>1, <2>1, <2>2 DEF ShareOK, Empty
<1>7. ASSUME NEW x \in Node, NEW y \in out_neigh(g, x), Attends(t, x, y, shared_indexes[p])
      PROVE  Attends(t, x, y, shared_indexes[p])'
  BY <1>1, <1>7 DEF Attends, InOwnBin, BinOf, InShare, ToRelax, Relaxing, args
<1>8. shared_indexes[p] <= shared_indexes[1 - p] /\ shared_indexes[1 - p] <= shared_indexes[1 - p]
  BY WorkFacts DEF BinNo
<1> QED BY <1>1, <1>2, <1>4, <1>5, <1>6, <1>7, <1>8, LocalStep

\* A step inside RelaxEdges that changes t's locals only.
LEMMA LocalsStep ==
    ASSUME Typed, Sound, NEW p \in 0 .. 1, Work(p), NEW t \in Thread, Relaxing(t),
           UNCHANGED <<args, dist, shared, iter, local_bins, todo, fused, u, copy_start>>,
           \A s \in Thread : s # t => /\ pc'[s] = pc[s] /\ nbrs'[s] = nbrs[s]
                                      /\ old_dist'[s] = old_dist[s] /\ new_dist'[s] = new_dist[s],
           pc' \in [Thread -> WorkPlaces \cup CopyPlaces], nbrs' \in [Thread -> SUBSET Node],
           old_dist' \in [Thread -> Nat], new_dist' \in [Thread -> Nat],
           pc'[t] \in {"next", "edge", "readU", "cas", "recheck"},
           LocalsOK(t)',
           \A y \in out_neigh(g, u[t]) :
              Tense(u[t], y) /\ ToRelax(t, u[t], y) => ToRelax(t, u[t], y)'
    PROVE  IInv'
<1> USE DEF shared
<1>1. Typed'
  BY DEF Typed, args
<1>2. OthersRest(t)
  BY DEF OthersRest
<1>3. /\ PlaceOK(t, shared_indexes[p], shared_indexes[1 - p])
      /\ ShareOK(t) /\ \A i \in BinNo : i < shared_indexes[p] => Empty(t, i)
      /\ shared_indexes[p] <= shared_indexes[1 - p]
      /\ shared_indexes[1 - p] <= shared_indexes[1 - p]
  BY WorkFacts DEF BinNo
<1>4. PlaceOK(t, shared_indexes[p], shared_indexes[1 - p])'
  BY <1>3 DEF PlaceOK, WorkPlaces, Relaxing
<1>5. ShareOK(t)' /\ \A i \in BinNo : i < shared_indexes[p] => Empty(t, i)'
  BY <1>3 DEF ShareOK, Empty
<1>6. ASSUME NEW x \in Node, NEW y \in out_neigh(g, x), Tense(x, y),
             Attends(t, x, y, shared_indexes[p])
      PROVE  Attends(t, x, y, shared_indexes[p])'
  <2>1. CASE ToRelax(t, x, y)
    <3>1. u[t] = x
      BY <2>1 DEF ToRelax
    <3> QED BY <1>6, <2>1, <3>1 DEF Attends
  <2>2. CASE InOwnBin(t, x) \/ InShare(t, x, shared_indexes[p]) \/ Holds(fused[t], x)
    BY <2>2 DEF Attends, InOwnBin, BinOf, InShare, args
  <2> QED BY <1>6, <2>1, <2>2 DEF Attends
<1> QED BY <1>1, <1>2, <1>3, <1>4, <1>5, <1>6, LocalStep

\* What NextEdge does.
LEMMA NextEdgeEffect ==
    ASSUME Typed, NEW t \in Thread, nbrs[t] # {}, NextEdge(t)
    PROVE  /\ nbrs' \in [Thread -> SUBSET Node] /\ nbrs'[t] = nbrs[t] \ {neighbor(t)}
           /\ pc' \in [Thread -> WorkPlaces \cup CopyPlaces]
           /\ pc'[t] \in {"next", "edge"} /\ (pc'[t] = "next" <=> nbrs'[t] = {})
           /\ old_dist' \in [Thread -> Nat] /\ new_dist' \in [Thread -> Nat]
           /\ \A s \in Thread : s # t => /\ pc'[s] = pc[s] /\ nbrs'[s] = nbrs[s]
                                         /\ old_dist'[s] = old_dist[s] /\ new_dist'[s] = new_dist[s]
<1>1. /\ nbrs' \in [Thread -> SUBSET Node] /\ nbrs'[t] = nbrs[t] \ {neighbor(t)}
      /\ \A s \in Thread : s # t => nbrs'[s] = nbrs[s]
  BY DEF NextEdge, Typed
<1>2. /\ old_dist' \in [Thread -> Nat] /\ new_dist' \in [Thread -> Nat]
      /\ \A s \in Thread : s # t => old_dist'[s] = old_dist[s] /\ new_dist'[s] = new_dist[s]
  BY DEF NextEdge, Typed
<1>3. pc' = [pc EXCEPT ![t] = IF nbrs[t] = {neighbor(t)} THEN "next" ELSE "edge"]
  BY DEF NextEdge, Goto
<1>4. /\ pc' \in [Thread -> WorkPlaces \cup CopyPlaces]
      /\ pc'[t] = IF nbrs[t] = {neighbor(t)} THEN "next" ELSE "edge"
      /\ \A s \in Thread : s # t => pc'[s] = pc[s]
  BY <1>3 DEF Typed, WorkPlaces
<1>5. nbrs[t] = {neighbor(t)} <=> nbrs'[t] = {}
  BY <1>1, NeighborFacts
<1> QED BY <1>1, <1>2, <1>4, <1>5

\* Reading the distance of the neighbour forgets nothing.
LEMMA ReadOldKeeps ==
    ASSUME Typed, Sound, NEW p \in 0 .. 1, Work(p), NEW t \in Thread, ReadOld(t)
    PROVE  IInv'
<1> USE DEF shared
<1>1. /\ pc[t] = "edge" /\ pc' = [pc EXCEPT ![t] = "readU"]
      /\ old_dist' = [old_dist EXCEPT ![t] = dist[neighbor(t)]]
      /\ UNCHANGED <<args, dist, shared, iter, local_bins, todo, fused, u, nbrs, new_dist, copy_start>>
  BY DEF ReadOld, Goto
<1>2. Relaxing(t) /\ LocalsOK(t)
  BY <1>1, WorkFacts DEF Relaxing
<1>3. neighbor(t) \in Node
  BY <1>2, NeighborFacts DEF LocalsOK
<1>4. dist[neighbor(t)] \in Nat /\ dist[neighbor(t)] <= kDistInf
  BY <1>3, Limits DEF Typed
<1>5. /\ old_dist' \in [Thread -> Nat] /\ old_dist'[t] = dist[neighbor(t)]
      /\ pc' \in [Thread -> WorkPlaces \cup CopyPlaces] /\ pc'[t] = "readU"
      /\ \A s \in Thread : s # t => pc'[s] = pc[s] /\ old_dist'[s] = old_dist[s]
  BY <1>1, <1>4 DEF Typed, WorkPlaces
<1>6. LocalsOK(t)'
  BY <1>1, <1>2, <1>4, <1>5 DEF LocalsOK, Relaxing, args, neighbor
<1>7. \A y \in out_neigh(g, u[t]) : ToRelax(t, u[t], y) => ToRelax(t, u[t], y)'
  BY <1>1, <1>5 DEF ToRelax, Relaxing
<1> QED BY <1>1, <1>2, <1>5, <1>6, <1>7, LocalsStep DEF Typed

\* The test of the distance at hand against the neighbour's: if it is no
\* improvement, the edge is not tense and the thread may go on to the next.
LEMMA TestNewKeeps ==
    ASSUME Typed, Sound, NEW p \in 0 .. 1, Work(p), NEW t \in Thread, Relaxing(t),
           UNCHANGED <<args, dist, shared, iter, local_bins, todo, fused, u, copy_start>>,
           NEW new \in Nat, NEW old \in Nat, TestNew(t, new, old),
           old <= kDistInf, oracle[neighbor(t)] <= new,
           Tense(u[t], neighbor(t)) /\ ToRelax(t, u[t], neighbor(t)) =>
              new <= dist[u[t]] + weight(u[t], neighbor(t)) /\ dist[neighbor(t)] <= old
    PROVE  IInv'
<1> USE DEF shared
<1>1. LocalsOK(t)
  BY WorkFacts
<1>2. /\ neighbor(t) \in nbrs[t] /\ neighbor(t) \in Node
      /\ nbrs[t] # {} /\ nbrs[t] \subseteq out_neigh(g, u[t])
  BY <1>1, NeighborFacts DEF LocalsOK
<1>3. u[t] \in Node /\ neighbor(t) \in out_neigh(g, u[t])
  BY <1>2 DEF Typed
<1>4. CASE new < old
  <2>1. /\ old_dist' = [old_dist EXCEPT ![t] = old] /\ new_dist' = [new_dist EXCEPT ![t] = new]
        /\ pc' = [pc EXCEPT ![t] = "cas"] /\ UNCHANGED nbrs
    BY <1>4 DEF TestNew, Goto
  <2>2. /\ old_dist' \in [Thread -> Nat] /\ old_dist'[t] = old
        /\ new_dist' \in [Thread -> Nat] /\ new_dist'[t] = new
        /\ \A s \in Thread : s # t => old_dist'[s] = old_dist[s] /\ new_dist'[s] = new_dist[s]
    BY <2>1 DEF Typed
  <2>3. /\ pc' \in [Thread -> WorkPlaces \cup CopyPlaces] /\ pc'[t] = "cas"
        /\ \A s \in Thread : s # t => pc'[s] = pc[s]
    BY <2>1 DEF Typed, WorkPlaces
  <2>4. new < kDistInf
    BY <1>4, Limits
  <2>5. LocalsOK(t)'
    BY <1>2, <1>4, <2>1, <2>2, <2>3, <2>4 DEF LocalsOK, args, neighbor
  <2>6. ASSUME NEW y \in out_neigh(g, u[t]), Tense(u[t], y), ToRelax(t, u[t], y)
        PROVE  ToRelax(t, u[t], y)'
    BY <2>1, <2>2, <2>3, <2>6 DEF ToRelax, Relaxing, neighbor, weight, args
  <2> QED BY <2>1, <2>2, <2>3, <2>5, <2>6, LocalsStep DEF Typed
<1>5. CASE ~(new < old)
  <2>1. NextEdge(t)
    BY <1>5 DEF TestNew
  <2>2. /\ nbrs' \in [Thread -> SUBSET Node] /\ nbrs'[t] = nbrs[t] \ {neighbor(t)}
        /\ pc' \in [Thread -> WorkPlaces \cup CopyPlaces]
        /\ pc'[t] \in {"next", "edge"} /\ (pc'[t] = "next" <=> nbrs'[t] = {})
        /\ old_dist' \in [Thread -> Nat] /\ new_dist' \in [Thread -> Nat]
        /\ \A s \in Thread : s # t => /\ pc'[s] = pc[s] /\ nbrs'[s] = nbrs[s]
                                      /\ old_dist'[s] = old_dist[s] /\ new_dist'[s] = new_dist[s]
    BY <1>2, <2>1, NextEdgeEffect
  <2>3. LocalsOK(t)'
    BY <1>2, <2>2 DEF LocalsOK, Relaxing, args
  <2>4. ~(Tense(u[t], neighbor(t)) /\ ToRelax(t, u[t], neighbor(t)))
    <3>1. /\ dist[u[t]] \in Nat /\ weight(u[t], neighbor(t)) \in Nat /\ dist[neighbor(t)] \in Nat
      BY <1>2, <1>3, GraphFacts
    <3> QED BY <1>5, <3>1 DEF Tense
  <2>5. ASSUME NEW y \in out_neigh(g, u[t]), Tense(u[t], y), ToRelax(t, u[t], y)
        PROVE  ToRelax(t, u[t], y)'
    <3>1. y # neighbor(t) /\ y \in nbrs[t]
      BY <2>4, <2>5 DEF ToRelax
    <3> QED BY <2>2, <3>1 DEF ToRelax, Relaxing
  <2> QED BY <2>2, <2>3, <2>5, LocalsStep
<1> QED BY <1>4, <1>5

\* The new distance read from the neighbour's and u's is that of a path.
LEMMA ReadNewKeeps ==
    ASSUME Typed, Sound, NEW p \in 0 .. 1, Work(p), NEW t \in Thread, ReadNew(t)
    PROVE  IInv'
<1> DEFINE y == neighbor(t)
           new == dist[u[t]] + weight(u[t], y)
<1>1. pc[t] = "readU" /\ Relaxing(t) /\ LocalsOK(t) /\ TestNew(t, new, old_dist[t])
  BY WorkFacts DEF ReadNew, Relaxing
<1>2. u[t] \in Node /\ y \in out_neigh(g, u[t]) /\ old_dist[t] \in Nat
  BY <1>1, NeighborFacts DEF LocalsOK, Typed
<1>3. /\ y \in Node /\ weight(u[t], y) \in Nat /\ oracle[y] <= oracle[u[t]] + weight(u[t], y)
      /\ oracle[u[t]] \in Nat /\ dist[u[t]] \in Nat /\ oracle[y] \in Nat
  BY <1>2, GraphFacts
<1>4. oracle[u[t]] <= dist[u[t]]
  BY <1>2 DEF Sound
<1>5. new \in Nat /\ oracle[y] <= new
  BY <1>3, <1>4
<1>6. old_dist[t] <= kDistInf /\ dist[y] <= old_dist[t] /\ new <= new
  BY <1>1, <1>5 DEF LocalsOK
<1>7. UNCHANGED <<args, dist, shared, iter, local_bins, todo, fused, u, copy_start>>
  BY DEF ReadNew
<1> HIDE DEF new
<1>8. new = dist[u[t]] + weight(u[t], y)
  BY DEF new
<1> QED BY <1>1, <1>2, <1>5, <1>6, <1>7, <1>8, TestNewKeeps

\* Nor does the recheck after a failed swap forget the edge.
LEMMA RecheckKeeps ==
    ASSUME Typed, Sound, NEW p \in 0 .. 1, Work(p), NEW t \in Thread, Recheck(t)
    PROVE  IInv'
<1> DEFINE y == neighbor(t)
<1>1. pc[t] = "recheck" /\ Relaxing(t) /\ LocalsOK(t) /\ TestNew(t, new_dist[t], dist[y])
  BY WorkFacts DEF Recheck, Relaxing
<1>2. y \in Node /\ new_dist[t] \in Nat /\ oracle[y] <= new_dist[t]
  BY <1>1, NeighborFacts DEF LocalsOK, Typed
<1>3. dist[y] \in Nat /\ dist[y] <= kDistInf /\ dist[y] <= dist[y]
  BY <1>2, Limits DEF Typed
<1>4. UNCHANGED <<args, dist, shared, iter, local_bins, todo, fused, u, copy_start>>
  BY DEF Recheck
<1>5. ToRelax(t, u[t], y) => new_dist[t] <= dist[u[t]] + weight(u[t], y)
  BY <1>1 DEF ToRelax
<1> QED BY <1>1, <1>2, <1>3, <1>4, <1>5, TestNewKeeps

\* A thread that starts on v is on its way to relax all its edges.
LEMMA RelaxEdgesEffect ==
    ASSUME Typed, NEW t \in Thread, NEW v \in Node, RelaxEdges(t, v), UNCHANGED args
    PROVE  /\ u' \in [Thread -> Node] /\ nbrs' \in [Thread -> SUBSET Node]
           /\ pc' \in [Thread -> WorkPlaces \cup CopyPlaces]
           /\ pc'[t] \in {"next", "edge"}
           /\ \A s \in Thread : s # t => pc'[s] = pc[s] /\ u'[s] = u[s] /\ nbrs'[s] = nbrs[s]
           /\ LocalsOK(t)'
           /\ \A y \in out_neigh(g, v) : ToRelax(t, v, y)'
<1>1. out_neigh(g, v) \in SUBSET Node
  BY DEF out_neigh
<1>2. /\ u' \in [Thread -> Node] /\ u'[t] = v
      /\ \A s \in Thread : s # t => u'[s] = u[s]
  BY DEF RelaxEdges, Typed
<1>3. /\ nbrs' \in [Thread -> SUBSET Node] /\ nbrs'[t] = out_neigh(g, v)
      /\ \A s \in Thread : s # t => nbrs'[s] = nbrs[s]
  BY <1>1 DEF RelaxEdges, Typed
<1>4. pc' = [pc EXCEPT ![t] = IF out_neigh(g, v) = {} THEN "next" ELSE "edge"]
  BY DEF RelaxEdges
<1>5. /\ pc' \in [Thread -> WorkPlaces \cup CopyPlaces]
      /\ pc'[t] = IF out_neigh(g, v) = {} THEN "next" ELSE "edge"
      /\ \A s \in Thread : s # t => pc'[s] = pc[s]
  BY <1>4 DEF Typed, WorkPlaces
<1>6. LocalsOK(t)'
  BY <1>2, <1>3, <1>5 DEF LocalsOK, Relaxing, args
<1>7. ASSUME NEW y \in out_neigh(g, v) PROVE ToRelax(t, v, y)'
  BY <1>2, <1>3, <1>5 DEF ToRelax, Relaxing
<1> QED BY <1>2, <1>3, <1>5, <1>6, <1>7

\* A vertex leaves the thread's part of the frontier to be relaxed, or because
\* its distance has fallen below the bin.
LEMMA TakeFrontierKeeps ==
    ASSUME Typed, Sound, NEW p \in 0 .. 1, Work(p), NEW t \in Thread, TakeFrontier(t)
    PROVE  IInv'
<1> USE DEF shared
<1> DEFINE b == shared_indexes[p]
<1>1. /\ b <= shared_indexes[1 - p] /\ shared_indexes[1 - p] <= shared_indexes[1 - p]
      /\ curr_bin_index(t) = b /\ PlaceOK(t, b, shared_indexes[1 - p])
      /\ LocalsOK(t) /\ ShareOK(t) /\ \A k \in BinNo : k < b => Empty(t, k)
  BY WorkFacts DEF BinNo
<1>2. PICK i \in todo[t], v \in Node : i = Min(todo[t]) /\ v = frontier[i]
  <2>1. todo[t] # {} /\ todo[t] \in SUBSET Nat
    BY DEF TakeFrontier, Typed
  <2>2. Min(todo[t]) \in todo[t]
    BY <2>1, MinNode
  <2> QED BY <1>1, <2>2 DEF ShareOK
<1>3. /\ pc[t] = "next" /\ todo[t] # {} /\ todo' = [todo EXCEPT ![t] = @ \ {i}]
      /\ UNCHANGED <<args, dist, shared, iter, local_bins, fused, old_dist, new_dist, copy_start>>
      /\ IF InBin(t, v) THEN RelaxEdges(t, v) ELSE UNCHANGED <<u, nbrs, pc>>
  BY <1>2 DEF TakeFrontier
<1>4. /\ todo' \in [Thread -> SUBSET Nat] /\ todo'[t] = todo[t] \ {i}
      /\ \A s \in Thread : s # t => todo'[s] = todo[s]
  BY <1>3 DEF Typed
<1>5. InBin(t, v) <=> dist[v] >= delta * b
  BY <1>1 DEF InBin
<1> HIDE DEF b
<1>6. /\ u' \in [Thread -> Node] /\ nbrs' \in [Thread -> SUBSET Node]
      /\ pc' \in [Thread -> WorkPlaces \cup CopyPlaces]
      /\ pc'[t] \in {"next", "edge"}
      /\ \A s \in Thread : s # t => pc'[s] = pc[s] /\ u'[s] = u[s] /\ nbrs'[s] = nbrs[s]
      /\ LocalsOK(t)'
      /\ InBin(t, v) => \A y \in out_neigh(g, v) : ToRelax(t, v, y)'
  <2>1. CASE InBin(t, v)
    <3>1. RelaxEdges(t, v) /\ UNCHANGED args
      BY <1>3, <2>1
    <3> QED BY <3>1, RelaxEdgesEffect
  <2>2. CASE ~InBin(t, v)
    <3>1. UNCHANGED <<u, nbrs, pc>>
      BY <1>3, <2>2
    <3>2. LocalsOK(t)'
      BY <1>3, <3>1 DEF LocalsOK, Relaxing
    <3> QED BY <1>3, <2>2, <3>1, <3>2 DEF Typed
  <2> QED BY <2>1, <2>2
<1>7. Typed'
  BY <1>3, <1>4, <1>6 DEF Typed, args
<1>8. OthersRest(t)
  BY <1>3, <1>4, <1>6 DEF OthersRest
<1>9. PlaceOK(t, b, shared_indexes[1 - p])'
  BY <1>1, <1>3, <1>6 DEF PlaceOK, WorkPlaces, b
<1>10. ShareOK(t)' /\ \A k \in BinNo : k < b => Empty(t, k)'
  BY <1>1, <1>3, <1>4 DEF ShareOK, Empty
<1>11. ASSUME NEW x \in Node, NEW y \in out_neigh(g, x), Attends(t, x, y, b)
       PROVE  Attends(t, x, y, b)'
  <2>1. ~ToRelax(t, x, y) /\ b' = b
    BY <1>3 DEF ToRelax, Relaxing, b
  <2>2. CASE InOwnBin(t, x) \/ Holds(fused[t], x)
    BY <1>3, <2>2 DEF Attends, InOwnBin, BinOf, args
  <2>3. CASE InShare(t, x, b)
    <3>1. PICK k \in todo[t] : frontier[k] = x /\ dist[x] >= delta * b
      BY <2>3 DEF InShare
    <3>2. CASE k = i
      <4>1. x = v /\ InBin(t, v)
        BY <1>2, <1>5, <3>1, <3>2
      <4> QED BY <1>6, <4>1 DEF Attends
    <3>3. CASE k # i
      <4>1. k \in todo'[t] /\ frontier'[k] = x /\ dist'[x] >= delta' * b'
        BY <1>3, <1>4, <2>1, <3>1, <3>3 DEF args
      <4> QED BY <4>1 DEF Attends, InShare
    <3> QED BY <3>2, <3>3
  <2> QED BY <1>11, <2>1, <2>2, <2>3 DEF Attends
<1> QED BY <1>1, <1>3, <1>6, <1>7, <1>8, <1>9, <1>10, <1>11, LocalStep DEF b

\* A fused vertex is relaxed without a test.
LEMMA TakeFusedKeeps ==
    ASSUME Typed, Sound, NEW p \in 0 .. 1, Work(p), NEW t \in Thread, TakeFused(t)
    PROVE  IInv'
<1> USE DEF shared
<1> DEFINE b == shared_indexes[p]
<1>1. fused[t] \in Seq(Node) /\ fused[t] # <<>>
  BY DEF Typed, TakeFused
<1>2. PICK v \in Node : /\ v = Head(fused[t]) /\ Tail(fused[t]) \in Seq(Node)
                        /\ \A x : Holds(fused[t], x) => x = v \/ Holds(Tail(fused[t]), x)
  BY <1>1, HoldsFacts
<1>3. /\ pc[t] = "next" /\ fused[t] # <<>> /\ fused' = [fused EXCEPT ![t] = Tail(@)]
      /\ RelaxEdges(t, v)
      /\ UNCHANGED <<args, dist, shared, iter, local_bins, todo, old_dist, new_dist, copy_start>>
  BY <1>2 DEF TakeFused
<1>4. /\ b <= shared_indexes[1 - p] /\ shared_indexes[1 - p] <= shared_indexes[1 - p]
      /\ PlaceOK(t, b, shared_indexes[1 - p])
      /\ ShareOK(t) /\ \A k \in BinNo : k < b => Empty(t, k)
  BY WorkFacts DEF BinNo
<1>5. /\ fused' \in [Thread -> Seq(Node)] /\ fused'[t] = Tail(fused[t])
      /\ \A s \in Thread : s # t => fused'[s] = fused[s]
  BY <1>2, <1>3 DEF Typed
<1> HIDE DEF b
<1>6. /\ u' \in [Thread -> Node] /\ nbrs' \in [Thread -> SUBSET Node]
      /\ pc' \in [Thread -> WorkPlaces \cup CopyPlaces]
      /\ pc'[t] \in {"next", "edge"}
      /\ \A s \in Thread : s # t => pc'[s] = pc[s] /\ u'[s] = u[s] /\ nbrs'[s] = nbrs[s]
      /\ LocalsOK(t)'
      /\ \A y \in out_neigh(g, v) : ToRelax(t, v, y)'
  BY <1>3, RelaxEdgesEffect
<1>7. Typed'
  BY <1>3, <1>5, <1>6 DEF Typed, args
<1>8. OthersRest(t)
  BY <1>3, <1>5, <1>6 DEF OthersRest
<1>9. PlaceOK(t, b, shared_indexes[1 - p])'
  BY <1>3, <1>4, <1>6 DEF PlaceOK, WorkPlaces, b
<1>10. ShareOK(t)' /\ \A k \in BinNo : k < b => Empty(t, k)'
  BY <1>3, <1>4 DEF ShareOK, Empty
<1>11. ASSUME NEW x \in Node, NEW y \in out_neigh(g, x), Attends(t, x, y, b)
       PROVE  Attends(t, x, y, b)'
  <2>1. ~ToRelax(t, x, y) /\ b' = b
    BY <1>3 DEF ToRelax, Relaxing, b
  <2>2. CASE InOwnBin(t, x) \/ InShare(t, x, b)
    BY <1>3, <2>1, <2>2 DEF Attends, InOwnBin, InShare, BinOf, args
  <2>3. CASE Holds(fused[t], x)
    BY <1>2, <1>5, <1>6, <2>3 DEF Attends
  <2> QED BY <1>11, <2>1, <2>2, <2>3 DEF Attends
<1> QED BY <1>3, <1>4, <1>6, <1>7, <1>8, <1>9, <1>10, <1>11, LocalStep DEF b

\* Replacing a bin of t that a distance can fall in.
LEMMA BinReplaced ==
    ASSUME Typed, NEW t \in Thread, NEW i \in Nat, i < kDistInf, NEW b \in Seq(Node),
           local_bins' = [local_bins EXCEPT ![t] = WithBin(local_bins[t], i, b)]
    PROVE  /\ local_bins' \in [Thread -> Seq(Seq(Node))]
           /\ \A s \in Thread : Len(local_bins'[s]) <= kDistInf
           /\ \A s \in Thread : s # t => local_bins'[s] = local_bins[s]
           /\ Bin(local_bins'[t], i) = b
           /\ \A j \in Nat : j # i => Bin(local_bins'[t], j) = Bin(local_bins[t], j)
           /\ i < Len(local_bins[t]) => Len(local_bins'[t]) = Len(local_bins[t])
<1> DEFINE lb == local_bins[t]
           r == WithBin(lb, i, b)
<1>1. lb \in Seq(Seq(Node)) /\ Len(lb) \in Nat /\ Len(lb) <= kDistInf
  BY LenProperties DEF Typed
<1> HIDE DEF lb
<1>2. r \in Seq(Seq(Node))
  BY <1>1, WithBinFacts
<1>3. Len(r) = IF i < Len(lb) THEN Len(lb) ELSE i + 1
  BY <1>1, WithBinFacts
<1>4. Bin(r, i) = b /\ \A j \in Nat : j # i => Bin(r, j) = Bin(lb, j)
  BY <1>1, WithBinFacts
<1> HIDE DEF r
<1>5. Len(r) <= kDistInf
  BY <1>1, <1>3, Limits
<1>6. /\ local_bins' \in [Thread -> Seq(Seq(Node))] /\ local_bins'[t] = r
      /\ \A s \in Thread : s # t => local_bins'[s] = local_bins[s]
  BY <1>2 DEF Typed, r, lb
<1>7. \A s \in Thread : Len(local_bins'[s]) <= kDistInf
  BY <1>5, <1>6 DEF Typed
<1>8. i < Len(local_bins[t]) => Len(local_bins'[t]) = Len(local_bins[t])
  BY <1>3, <1>6 DEF lb
<1> QED BY <1>4, <1>6, <1>7, <1>8 DEF lb

\* What a thread fuses leaves its bin for its copy.
LEMMA FuseKeeps ==
    ASSUME Typed, Sound, NEW p \in 0 .. 1, Work(p), NEW t \in Thread, Fuse(t)
    PROVE  IInv'
<1> USE DEF shared, relax
<1> DEFINE b == shared_indexes[p]
           own == Bin(local_bins[t], b)
<1>1. /\ b \in BinNo /\ b <= shared_indexes[1 - p] /\ shared_indexes[1 - p] <= shared_indexes[1 - p]
      /\ curr_bin_index(t) = b /\ PlaceOK(t, b, shared_indexes[1 - p])
      /\ LocalsOK(t) /\ ShareOK(t) /\ \A k \in BinNo : k < b => Empty(t, k)
  BY WorkFacts DEF BinNo
<1>2. b \in Nat
  BY <1>1, Limits DEF BinNo
<1>3. /\ pc[t] = "next" /\ fused[t] = <<>> /\ own # <<>>
      /\ fused' = [fused EXCEPT ![t] = own] 
      /\ local_bins' = [local_bins EXCEPT ![t] = WithBin(@, b, <<>>)]
      /\ UNCHANGED <<args, dist, shared, iter, todo, pc, relax, copy_start>>
  BY <1>1 DEF Fuse, LoopDone, CanFuse
<1>4. own \in Seq(Node) /\ b < kDistInf
  <2>1. local_bins[t] \in Seq(Seq(Node)) /\ Len(local_bins[t]) \in Nat /\ Len(local_bins[t]) <= kDistInf
    BY LenProperties DEF Typed
  <2>2. own \in Seq(Node) /\ b < Len(local_bins[t])
    BY <1>2, <1>3, <2>1, BinType
  <2> QED BY <1>2, <2>1, <2>2, Limits
<1> HIDE DEF b
<1>5. /\ local_bins' \in [Thread -> Seq(Seq(Node))]
      /\ \A s \in Thread : Len(local_bins'[s]) <= kDistInf
      /\ \A s \in Thread : s # t => local_bins'[s] = local_bins[s]
      /\ Bin(local_bins'[t], b) = <<>>
      /\ \A k \in Nat : k # b => Bin(local_bins'[t], k) = Bin(local_bins[t], k)
  <2> DEFINE none == <<>>
  <2>1. none \in Seq(Node)
    OBVIOUS
  <2> HIDE DEF none
  <2>2. local_bins' = [local_bins EXCEPT ![t] = WithBin(local_bins[t], b, none)]
    BY <1>3 DEF none
  <2>3. Bin(local_bins'[t], b) = none
    BY <1>2, <1>4, <2>1, <2>2, BinReplaced
  <2> QED BY <1>2, <1>4, <2>1, <2>2, <2>3, BinReplaced DEF none
<1> HIDE DEF own
<1>7. /\ fused' \in [Thread -> Seq(Node)] /\ fused'[t] = own
      /\ \A s \in Thread : s # t => fused'[s] = fused[s]
  BY <1>3, <1>4 DEF Typed
<1>8. Typed'
  BY <1>3, <1>5, <1>7 DEF Typed, args
<1>9. OthersRest(t)
  BY <1>3, <1>5, <1>7 DEF OthersRest
<1>10. PlaceOK(t, b, shared_indexes[1 - p])'
  BY <1>1, <1>3 DEF PlaceOK, WorkPlaces, b
<1>11. LocalsOK(t)' /\ ShareOK(t)' /\ \A k \in BinNo : k < b => Empty(t, k)'
  <2>1. \A k \in BinNo : k < b => Empty(t, k)'
    BY <1>1, <1>5, Limits DEF Empty, BinNo
  <2>2. LocalsOK(t)'
    BY <1>1, <1>3 DEF LocalsOK, Relaxing
  <2>3. ShareOK(t)'
    BY <1>1, <1>3 DEF ShareOK
  <2> QED BY <2>1, <2>2, <2>3
<1>12. ASSUME NEW x \in Node, NEW y \in out_neigh(g, x), Attends(t, x, y, b)
       PROVE  Attends(t, x, y, b)'
  <2>1. ~ToRelax(t, x, y) /\ ~Holds(fused[t], x) /\ b' = b
    BY <1>3 DEF ToRelax, Relaxing, b, Holds
  <2>2. CASE InShare(t, x, b)
    BY <1>3, <2>1, <2>2 DEF Attends, InShare, args
  <2>3. CASE InOwnBin(t, x)
    <3>1. BinOf(x) \in Nat /\ BinOf(x)' = BinOf(x)
      <4>1. dist[x] \in Nat /\ delta \in Nat \ {0}
        BY GraphFacts
      <4> QED BY <1>3, <4>1, BinOrder DEF BinOf, args
    <3>2. CASE BinOf(x) = b
      <4>1. Holds(own, x)
        BY <2>3, <3>2 DEF InOwnBin, own
      <4> QED BY <1>7, <4>1 DEF Attends
    <3>3. CASE BinOf(x) # b
      <4>1. Bin(local_bins'[t], BinOf(x)) = Bin(local_bins[t], BinOf(x))
        BY <1>5, <3>1, <3>3
      <4>2. InOwnBin(t, x)'
        BY <2>3, <3>1, <4>1 DEF InOwnBin
      <4> QED BY <4>2 DEF Attends
    <3> QED BY <3>2, <3>3
  <2> QED BY <1>12, <2>1, <2>2, <2>3 DEF Attends
<1> QED BY <1>1, <1>3, <1>8, <1>9, <1>10, <1>11, <1>12, LocalStep DEF b

\* A thread votes for the lowest of its bins, and joins the others at the barrier.
LEMMA VoteKeeps ==
    ASSUME Typed, Sound, NEW p \in 0 .. 1, Work(p), NEW t \in Thread, Vote(t)
    PROVE  IInv'
<1> USE DEF shared, relax
<1> DEFINE b == shared_indexes[p]
           n == shared_indexes[1 - p]
<1>1. /\ b \in BinNo /\ n \in BinNo /\ b <= n
      /\ next(t) = 1 - p /\ curr_bin_index(t) = b /\ PlaceOK(t, b, n)
      /\ LocalsOK(t) /\ ShareOK(t) /\ \A k \in BinNo : k < b => Empty(t, k)
  BY WorkFacts
<1>2. PICK m \in Int : m = Min({n} \cup NonEmpty(t)) /\ m \in {n} \cup NonEmpty(t)
                       /\ \A i \in {n} \cup NonEmpty(t) : m <= i
  <2>1. NonEmpty(t) \in SUBSET Nat /\ n \in Nat
    BY <1>1, Limits DEF NonEmpty, BinNo
  <2> HIDE DEF n
  <2>2. {n} \cup NonEmpty(t) \in SUBSET Nat /\ {n} \cup NonEmpty(t) # {}
    BY <2>1
  <2> QED BY <2>2, MinNode
<1>3. /\ pc[t] = "next" /\ todo[t] = {} /\ fused[t] = <<>>
      /\ shared_indexes' = [shared_indexes EXCEPT ![1 - p] = m]
      /\ pc' = [pc EXCEPT ![t] = "barrier1"]
      /\ UNCHANGED <<args, dist, frontier, frontier_tails, single_taken, iter, local_bins,
                     todo, fused, relax, copy_start>>
  BY <1>1, <1>2 DEF Vote, LoopDone, Goto
<1>4. Len(local_bins[t]) \in Nat /\ Len(local_bins[t]) <= kDistInf
  BY LenProperties DEF Typed
<1>5. m \in BinNo /\ b <= m /\ m <= n
  <2>1. b <= m /\ m <= n
    BY <1>1, <1>2 DEF NonEmpty, BinNo
  <2> QED BY <1>1, <1>2, <2>1, Limits DEF BinNo
<1>6. /\ shared_indexes' \in [0 .. 1 -> BinNo] /\ shared_indexes'[p] = b /\ shared_indexes'[1 - p] = m
      /\ pc' \in [Thread -> WorkPlaces \cup CopyPlaces] /\ pc'[t] = "barrier1"
      /\ \A s \in Thread : s # t => pc'[s] = pc[s]
  BY <1>3, <1>5 DEF Typed, WorkPlaces
<1> HIDE DEF b, n
<1>7. Typed'
  BY <1>3, <1>6 DEF Typed, args
<1>8. OthersRest(t)
  BY <1>3, <1>6 DEF OthersRest
<1>9. \A i \in BinNo : i < m => Empty(t, i)
  <2> SUFFICES ASSUME NEW i \in BinNo, i < m, ~Empty(t, i) PROVE FALSE
    OBVIOUS
  <2>1. i \in Nat /\ b <= i
    BY <1>1, Limits DEF BinNo
  <2>2. i < Len(local_bins[t])
    BY <1>4, <2>1 DEF Empty, Bin
  <2>3. i \in NonEmpty(t)
    BY <1>1, <1>4, <2>1, <2>2, Limits DEF NonEmpty, Empty, BinNo
  <2> QED BY <1>2, <2>1, <2>3
<1>10. PlaceOK(t, b, n)'
  <2>1. Voted(t, n)'
    BY <1>3, <1>6, <1>9 DEF Voted, Empty, n
  <2>2. b # kMaxBin
    BY <1>1, <1>3 DEF PlaceOK
  <2> QED BY <1>6, <2>1, <2>2 DEF PlaceOK, WorkPlaces, b
<1>11. LocalsOK(t)' /\ ShareOK(t)' /\ \A k \in BinNo : k < b => Empty(t, k)'
  <2>1. LocalsOK(t)'
    BY <1>6 DEF LocalsOK, Relaxing
  <2>2. ShareOK(t)' /\ \A k \in BinNo : k < b => Empty(t, k)'
    BY <1>1, <1>3 DEF ShareOK, Empty
  <2> QED BY <2>1, <2>2
<1>12. ASSUME NEW x \in Node, NEW y \in out_neigh(g, x), Attends(t, x, y, b)
       PROVE  Attends(t, x, y, b)'
  <2>1. InOwnBin(t, x)
    BY <1>3, <1>12 DEF Attends, InShare, ToRelax, Relaxing, Holds
  <2>2. InOwnBin(t, x)'
    BY <1>3, <2>1 DEF InOwnBin, BinOf, args
  <2> QED BY <2>2 DEF Attends
<1>13. /\ shared_indexes'[p] = shared_indexes[p] /\ shared_indexes[p] <= shared_indexes'[1 - p]
       /\ shared_indexes'[1 - p] <= shared_indexes[1 - p]
  BY <1>5, <1>6 DEF b, n
<1> QED BY <1>3, <1>7, <1>8, <1>10, <1>11, <1>12, <1>13, LocalStep DEF b, n

\* A swap that fails leaves the edge to be looked at again.
LEMMA CasFailKeeps ==
    ASSUME Typed, Sound, NEW p \in 0 .. 1, Work(p), NEW t \in Thread,
           Cas(t), dist[neighbor(t)] # old_dist[t]
    PROVE  IInv'
<1> USE DEF shared
<1>1. /\ pc[t] = "cas" /\ pc' = [pc EXCEPT ![t] = "recheck"]
      /\ UNCHANGED <<dist, local_bins, nbrs, old_dist, new_dist>>
      /\ UNCHANGED <<args, shared, iter, todo, fused, u, copy_start>>
  BY DEF Cas, Goto
<1>2. /\ pc' \in [Thread -> WorkPlaces \cup CopyPlaces] /\ pc'[t] = "recheck"
      /\ \A s \in Thread : s # t => pc'[s] = pc[s]
  BY <1>1 DEF Typed, WorkPlaces
<1>3. Relaxing(t) /\ LocalsOK(t)
  BY <1>1, WorkFacts DEF Relaxing
<1>4. LocalsOK(t)'
  BY <1>1, <1>2, <1>3 DEF LocalsOK, Relaxing, args, neighbor
<1>5. ASSUME NEW y \in out_neigh(g, u[t]), ToRelax(t, u[t], y)
      PROVE  ToRelax(t, u[t], y)'
  BY <1>1, <1>2, <1>5 DEF ToRelax, Relaxing, neighbor, weight, args
<1> QED BY <1>1, <1>2, <1>3, <1>4, <1>5, LocalsStep DEF Typed

\* t lowers the distance of y0 to nd and puts y0 in its bin for nd.
Lowers(t, y0, nd) ==
    /\ Typed' /\ Sound'
    /\ y0 \in Node /\ y0 \in nbrs[t] /\ nbrs'[t] = nbrs[t] \ {y0}
    /\ nbrs[t] \subseteq out_neigh(g, u[t])
    /\ pc'[t] \in {"next", "edge"} /\ (pc'[t] = "next" <=> nbrs'[t] = {})
    /\ nd \in Nat /\ nd < dist[y0] /\ oracle[y0] <= nd
    /\ dist'[y0] = nd /\ \A x \in Node : x # y0 => dist'[x] = dist[x]
    /\ \A j \in Nat : j # nd \div delta => Bin(local_bins'[t], j) = Bin(local_bins[t], j)
    /\ \A x : Holds(Bin(local_bins[t], nd \div delta), x) \/ x = y0
                 => Holds(Bin(local_bins'[t], nd \div delta), x)
    /\ \A s \in Thread : s # t =>
          /\ pc'[s] = pc[s] /\ nbrs'[s] = nbrs[s] /\ local_bins'[s] = local_bins[s]
          /\ old_dist'[s] = old_dist[s] /\ new_dist'[s] = new_dist[s]
    /\ UNCHANGED <<args, shared, iter, todo, fused, u, copy_start>>

\* A swap that succeeds lowers the distance of y0 to nd and puts y0 in t's bin
\* for nd; y0 was not settled, so that bin is not below the current one.
LEMMA CasEffect ==
    ASSUME Typed, Sound, NEW p \in 0 .. 1, Work(p), NEW t \in Thread,
           Cas(t), dist[neighbor(t)] = old_dist[t],
           NEW y0, y0 = neighbor(t), NEW nd, nd = new_dist[t]
    PROVE  Lowers(t, y0, nd)
<1> USE DEF shared
<1>1. /\ pc[t] = "cas" /\ dist' = [dist EXCEPT ![y0] = nd]
      /\ local_bins' = [local_bins EXCEPT ![t] = Binned(t, y0, nd)]
      /\ NextEdge(t)
      /\ UNCHANGED <<args, shared, iter, todo, fused, u, copy_start>>
  BY DEF Cas
<1>2. /\ nd \in Nat /\ nd < dist[y0] /\ nd < kDistInf /\ oracle[y0] <= nd
      /\ nbrs[t] # {} /\ nbrs[t] \subseteq out_neigh(g, u[t])
  <2>1. LocalsOK(t)
    BY WorkFacts
  <2> QED BY <1>1, <2>1 DEF LocalsOK, Relaxing, Typed
<1>3. y0 \in Node /\ y0 \in nbrs[t]
  BY <1>2, NeighborFacts
<1>4. /\ nbrs' \in [Thread -> SUBSET Node] /\ nbrs'[t] = nbrs[t] \ {y0}
      /\ pc' \in [Thread -> WorkPlaces \cup CopyPlaces]
      /\ pc'[t] \in {"next", "edge"} /\ (pc'[t] = "next" <=> nbrs'[t] = {})
      /\ old_dist' \in [Thread -> Nat] /\ new_dist' \in [Thread -> Nat]
      /\ \A s \in Thread : s # t => /\ pc'[s] = pc[s] /\ nbrs'[s] = nbrs[s]
                                    /\ old_dist'[s] = old_dist[s] /\ new_dist'[s] = new_dist[s]
  BY <1>1, <1>2, NextEdgeEffect
<1>5. dist'[y0] = nd /\ \A x \in Node : x # y0 => dist'[x] = dist[x]
  BY <1>1, <1>3 DEF Typed
<1>6. dist' \in [Node -> 0 .. kDistInf] /\ dist'[source] = 0
  <2>1. nd \in 0 .. kDistInf
    BY <1>2, Limits
  <2>2. y0 # source
    BY <1>2 DEF Typed
  <2> QED BY <1>1, <1>5, <2>1, <2>2 DEF Typed
<1> DEFINE bi == nd \div delta
           old == Bin(local_bins[t], bi)
           new == Append(old, y0)
<1>7. bi \in Nat /\ bi < kDistInf
  <2>1. delta \in Nat \ {0}
    BY GraphFacts
  <2>2. bi \in Nat /\ bi <= nd
    BY <1>2, <2>1, BinOrder
  <2> QED BY <1>2, <2>2, Limits
<1>8. local_bins' = [local_bins EXCEPT ![t] = WithBin(local_bins[t], bi, new)]
  BY <1>1 DEF Binned
<1> HIDE DEF bi
<1>9. old \in Seq(Node)
  BY <1>7, BinType DEF Typed
<1> HIDE DEF old
<1>10. /\ new \in Seq(Node) /\ Holds(new, y0) /\ \A x : Holds(old, x) => Holds(new, x)
  BY <1>3, <1>9, HoldsFacts
<1> HIDE DEF new
<1>11. /\ local_bins' \in [Thread -> Seq(Seq(Node))]
       /\ \A s \in Thread : Len(local_bins'[s]) <= kDistInf
       /\ \A s \in Thread : s # t => local_bins'[s] = local_bins[s]
       /\ Bin(local_bins'[t], bi) = new
       /\ \A j \in Nat : j # bi => Bin(local_bins'[t], j) = Bin(local_bins[t], j)
  BY <1>7, <1>8, <1>10, BinReplaced
<1>12. Typed'
  BY <1>1, <1>4, <1>6, <1>11 DEF Typed, args
<1>13. Sound'
  BY <1>1, <1>2, <1>5 DEF Sound, args
<1>14. \A x : Holds(old, x) \/ x = y0 => Holds(Bin(local_bins'[t], bi), x)
  BY <1>10, <1>11
<1> QED BY <1>1, <1>2, <1>3, <1>4, <1>5, <1>11, <1>12, <1>13, <1>14 DEF bi, old, Lowers

\* Relaxing an edge keeps the invariant: the vertex whose distance is lowered
\* waits in the bin of its new distance, and the edge is no longer tense.
LEMMA CasKeeps ==
    ASSUME Typed, Sound, NEW p \in 0 .. 1, Work(p), NEW t \in Thread,
           Cas(t), dist[neighbor(t)] = old_dist[t]
    PROVE  IInv'
<1> DEFINE b == shared_indexes[p]
           n == shared_indexes[1 - p]
<1>1. PICK y0, nd : y0 = neighbor(t) /\ nd = new_dist[t]
  OBVIOUS
<1>2. /\ Typed' /\ Sound'
      /\ y0 \in Node /\ y0 \in nbrs[t] /\ nbrs'[t] = nbrs[t] \ {y0}
      /\ nbrs[t] \subseteq out_neigh(g, u[t])
      /\ pc'[t] \in {"next", "edge"} /\ (pc'[t] = "next" <=> nbrs'[t] = {})
      /\ nd \in Nat /\ nd < dist[y0] /\ oracle[y0] <= nd
      /\ dist'[y0] = nd /\ \A x \in Node : x # y0 => dist'[x] = dist[x]
      /\ \A j \in Nat : j # nd \div delta => Bin(local_bins'[t], j) = Bin(local_bins[t], j)
      /\ \A x : Holds(Bin(local_bins[t], nd \div delta), x) \/ x = y0
                   => Holds(Bin(local_bins'[t], nd \div delta), x)
      /\ \A s \in Thread : s # t =>
            /\ pc'[s] = pc[s] /\ nbrs'[s] = nbrs[s] /\ local_bins'[s] = local_bins[s]
            /\ old_dist'[s] = old_dist[s] /\ new_dist'[s] = new_dist[s]
      /\ UNCHANGED <<args, shared, iter, todo, fused, u, copy_start>>
  <2>1. Lowers(t, y0, nd)
    BY <1>1, CasEffect
  <2> QED BY <2>1 DEF Lowers
<1> USE DEF shared
<1>3. pc[t] = "cas"
  BY DEF Cas
<1>4. b' = b /\ n' = n /\ g' = g /\ delta' = delta /\ oracle' = oracle /\ source' = source
  BY <1>2 DEF args
<1>5. /\ b \in Nat /\ b # kMaxBin /\ Settled(b) /\ delta \in Nat \ {0}
      /\ \A x \in Node : oracle[x] \in Nat /\ dist[x] \in Nat /\ dist'[x] \in Nat /\ dist'[x] <= dist[x]
  <2>1. /\ b \in Nat /\ b # kMaxBin
    BY <1>3, WorkFacts, Limits DEF PlaceOK, BinNo
  <2>2. Settled(b)
    BY DEF Work
  <2>3. \A x \in Node : oracle[x] \in Nat /\ dist[x] \in Nat /\ delta \in Nat \ {0}
    BY GraphFacts
  <2>4. \A x \in Node : dist'[x] \in Nat /\ dist'[x] <= dist[x]
    BY <1>2, <2>3
  <2> QED BY <2>1, <2>2, <2>3, <2>4, GraphFacts
<1> DEFINE bi == nd \div delta
<1>6. oracle[y0] >= delta * b /\ nd >= delta * b
  <2>1. delta * b \in Nat
    BY <1>5
  <2>2. oracle[y0] < delta * b => dist[y0] = oracle[y0]
    BY <1>2, <1>5 DEF Settled
  <2> QED BY <1>2, <1>5, <2>1, <2>2
<1>7. bi \in Nat /\ bi >= b
  BY <1>2, <1>5, <1>6, BinOrder
<1>8. Settled(b)'
  <2> SUFFICES ASSUME NEW v \in Node, oracle[v] < delta * b PROVE dist'[v] = oracle[v]
    BY <1>4 DEF Settled
  <2>1. v # y0
    BY <1>2, <1>5, <1>6
  <2> QED BY <1>2, <1>5, <2>1 DEF Settled
<1> HIDE DEF b, n, bi
<1>9. ASSUME NEW s \in Thread
      PROVE  /\ LocalsOK(s)' /\ ShareOK(s)' /\ PlaceOK(s, b, n)'
             /\ \A i \in BinNo : i < b => Empty(s, i)'
  <2>1. LocalsOK(s) /\ ShareOK(s) /\ PlaceOK(s, b, n) /\ \A i \in BinNo : i < b => Empty(s, i)
    BY WorkFacts DEF b, n
  <2>2. ShareOK(s)'
    BY <1>2, <2>1 DEF ShareOK
  <2>3. CASE s = t
    <3>1. LocalsOK(t)'
      BY <1>2, <1>4 DEF LocalsOK, Relaxing
    <3>2. PlaceOK(t, b, n)'
      BY <1>2, <1>4, <1>5 DEF PlaceOK, WorkPlaces
    <3>3. ASSUME NEW i \in BinNo, i < b PROVE Empty(t, i)'
      <4>1. i \in Nat /\ i # bi
        BY <1>5, <1>7, <3>3, Limits DEF BinNo
      <4> QED BY <1>2, <2>1, <2>3, <3>3, <4>1 DEF Empty, bi
    <3> QED BY <2>2, <2>3, <3>1, <3>2, <3>3
  <2>4. CASE s # t
    <3>1. /\ pc'[s] = pc[s] /\ nbrs'[s] = nbrs[s] /\ local_bins'[s] = local_bins[s]
          /\ old_dist'[s] = old_dist[s] /\ new_dist'[s] = new_dist[s] /\ u'[s] = u[s]
          /\ todo'[s] = todo[s] /\ fused'[s] = fused[s]
      BY <1>2, <2>4
    <3>2. neighbor(s)' = neighbor(s)
      BY <3>1 DEF neighbor
    <3>3. LocalsOK(s)'
      <4>1. pc[s] = "readU" => dist'[neighbor(s)] <= old_dist[s]
        <5> SUFFICES ASSUME pc[s] = "readU" PROVE dist'[neighbor(s)] <= old_dist[s]
          OBVIOUS
        <5>1. nbrs[s] # {} /\ dist[neighbor(s)] <= old_dist[s] /\ old_dist[s] \in Nat
          BY <2>1 DEF LocalsOK, Relaxing, Typed
        <5>2. neighbor(s) \in Node
          BY <5>1, NeighborFacts
        <5> QED BY <1>5, <5>1, <5>2
      <4> QED BY <1>4, <2>1, <3>1, <3>2, <4>1 DEF LocalsOK, Relaxing
    <3>4. PlaceOK(s, b, n)' /\ \A i \in BinNo : i < b => Empty(s, i)'
      BY <1>4, <2>1, <3>1 DEF PlaceOK, Voted, Empty
    <3> QED BY <2>2, <3>3, <3>4
  <2> QED BY <2>3, <2>4
<1>10. ASSUME NEW x \in Node, NEW y \in out_neigh(g, x), Tense(x, y)'
       PROVE  Waits(x, y, b)'
  <2>1. CASE x = y0
    <3>1. BinOf(x)' = bi
      BY <1>2, <1>4, <2>1 DEF BinOf, bi
    <3>2. InOwnBin(t, x)'
      BY <1>2, <2>1, <3>1 DEF InOwnBin, bi
    <3> QED BY <3>2 DEF Waits, Attends
  <2>2. CASE x # y0
    <3>1. /\ dist'[x] = dist[x] /\ y \in Node /\ weight(x, y)' = weight(x, y)
          /\ weight(x, y) \in Nat
      BY <1>2, <1>4, <2>2, GraphFacts DEF weight
    <3>2. Tense(x, y)
      BY <1>5, <1>10, <3>1 DEF Tense
    <3>3. PICK s \in Thread : Attends(s, x, y, b)
      BY <3>2 DEF Work, Waits, b
    <3>4. BinOf(x)' = BinOf(x) /\ BinOf(x) \in Nat
      BY <1>4, <1>5, <3>1, BinOrder DEF BinOf
    <3>5. CASE InOwnBin(s, x)
      <4>1. CASE s # t
        <5>1. InOwnBin(s, x)'
          BY <1>2, <3>4, <3>5, <4>1 DEF InOwnBin
        <5> QED BY <5>1 DEF Waits, Attends
      <4>2. CASE s = t
        <5>1. InOwnBin(t, x)'
          <6>1. CASE BinOf(x) = bi
            BY <1>2, <3>4, <3>5, <4>2, <6>1 DEF InOwnBin, bi
          <6>2. CASE BinOf(x) # bi
            <7>1. Bin(local_bins'[t], BinOf(x)) = Bin(local_bins[t], BinOf(x))
              BY <1>2, <3>4, <6>2 DEF bi
            <7> QED BY <3>4, <3>5, <4>2, <7>1 DEF InOwnBin
          <6> QED BY <6>1, <6>2
        <5> QED BY <5>1 DEF Waits, Attends
      <4> QED BY <4>1, <4>2
    <3>6. CASE InShare(s, x, b) \/ Holds(fused[s], x)
      <4>1. InShare(s, x, b)' \/ Holds(fused[s], x)'
        BY <1>2, <1>4, <3>1, <3>6 DEF InShare, Holds
      <4> QED BY <4>1 DEF Waits, Attends
    <3>7. CASE ToRelax(s, x, y)
      <4>1. CASE s # t
        <5>1. /\ pc'[s] = pc[s] /\ nbrs'[s] = nbrs[s] /\ u'[s] = u[s]
              /\ new_dist'[s] = new_dist[s] /\ neighbor(s)' = neighbor(s)
          BY <1>2, <4>1 DEF neighbor
        <5>2. ToRelax(s, x, y)'
          BY <3>1, <3>7, <5>1 DEF ToRelax, Relaxing
        <5> QED BY <5>2 DEF Waits, Attends
      <4>2. CASE s = t
        <5>1. u[t] = x /\ y \in nbrs[t]
          BY <3>7, <4>2 DEF ToRelax
        <5>2. y # y0
          <6>1. y = y0 => nd <= dist[x] + weight(x, y)
            BY <1>1, <1>3, <3>7, <4>2 DEF ToRelax
          <6>2. dist'[x] + weight(x, y)' < dist'[y]
            BY <1>10 DEF Tense
          <6>3. dist[x] \in Nat
            BY <1>5
          <6> QED BY <1>2, <3>1, <6>1, <6>2, <6>3
        <5>3. y \in nbrs'[t] /\ pc'[t] = "edge" /\ u'[t] = x
          BY <1>2, <5>1, <5>2
        <5>4. ToRelax(t, x, y)'
          BY <5>3 DEF ToRelax, Relaxing
        <5> QED BY <5>4 DEF Waits, Attends
      <4> QED BY <4>1, <4>2
    <3> QED BY <3>3, <3>5, <3>6, <3>7 DEF Attends
  <2> QED BY <2>1, <2>2
<1>11. Work(p)'
  <2>1. pc' \in [Thread -> WorkPlaces]
    <3>1. \A s \in Thread : pc'[s] \in WorkPlaces
      BY <1>9 DEF PlaceOK
    <3> QED BY <1>2, <3>1 DEF Typed
  <2>2. (\A s \in Thread : iter'[s] = p) /\ frontier_tails'[1 - p] = 0 /\ b <= n
    BY <1>2 DEF Work, b, n
  <2>3. \A x \in Node : \A y \in out_neigh(g, x)' : Tense(x, y)' => Waits(x, y, b)'
    BY <1>4, <1>10 DEF out_neigh
  <2> QED BY <1>4, <1>8, <1>9, <2>1, <2>2, <2>3 DEF Work, PlaceOK, b, n
<1> QED BY <1>2, <1>11 DEF IInv

\* When all threads have voted, a vertex that can still improve another waits in
\* a bin that is not below the one voted for: what is nearer is settled.
LEMMA Barrier1Keeps ==
    ASSUME Typed, Sound, NEW p \in 0 .. 1, Work(p), Barrier1
    PROVE  IInv'
<1> USE DEF shared, relax
<1> DEFINE b == shared_indexes[p]
           n == shared_indexes[1 - p]
           tail == frontier_tails[1 - p]
<1>1. /\ \A t \in Thread : pc[t] = "barrier1"
      /\ pc' = [t \in Thread |-> "single"] /\ single_taken' = FALSE
      /\ UNCHANGED <<args, dist, frontier, shared_indexes, frontier_tails, iter, local_bins,
                     todo, fused, relax, copy_start>>
  BY DEF Barrier1
<1>2. \A t \in Thread : pc'[t] = "single"
  BY <1>1
<1>3. pc' \in [Thread -> WorkPlaces \cup CopyPlaces]
  BY <1>1 DEF CopyPlaces
<1>4. Typed' /\ Sound'
  BY <1>1, <1>3 DEF Typed, Sound, args
<1>5. /\ \A t \in Thread : Voted(t, n) /\ iter[t] = p
      /\ Settled(b) /\ tail = 0
      /\ \A x \in Node : \A y \in out_neigh(g, x) : Tense(x, y) => Waits(x, y, b)
  BY <1>1 DEF Work
<1>6. n \in BinNo /\ n \in Nat /\ b' = b /\ n' = n /\ tail' = tail
  <2>1. 1 - p \in 0 .. 1
    OBVIOUS
  <2> QED BY <1>1, <2>1, Limits DEF Typed, BinNo
<1> HIDE DEF b, n, tail
<1>7. ASSUME NEW x \in Node, NEW y \in out_neigh(g, x), Tense(x, y)
      PROVE  dist[x] >= delta * n /\ \E t \in Thread : InOwnBin(t, x)
  <2>1. PICK t \in Thread : Attends(t, x, y, b)
    BY <1>5, <1>7 DEF Waits
  <2>2. InOwnBin(t, x)
    BY <1>1, <1>5, <2>1 DEF Attends, InShare, ToRelax, Relaxing, Voted, Holds
  <2>3. dist[x] \in Nat /\ dist[x] <= kDistInf /\ delta \in Nat \ {0}
    BY GraphFacts DEF Typed
  <2>4. BinOf(x) \in BinNo /\ BinOf(x) \in Nat /\ (BinOf(x) >= n <=> dist[x] >= delta * n)
    <3>1. BinOf(x) \in Nat /\ BinOf(x) <= dist[x] /\ (BinOf(x) >= n <=> dist[x] >= delta * n)
      BY <1>6, <2>3, BinOrder DEF BinOf
    <3> QED BY <2>3, <3>1, Limits DEF BinNo
  <2>5. ~Empty(t, BinOf(x))
    BY <2>2 DEF InOwnBin, Empty, Holds
  <2> QED BY <1>5, <1>6, <2>2, <2>4, <2>5 DEF Voted
<1>8. Settled(n)
  <2>1. /\ IsWGraph(g) /\ source \in Node /\ oracle = Distances(g, source)
        /\ dist \in [Node -> 0 .. kDistInf] /\ dist[source] = 0
    BY GraphFacts DEF Typed
  <2>2. \A v \in Node : Distances(g, source)[v] <= dist[v]
    BY <2>1 DEF Sound
  <2>3. \A x, y \in Node : <<x, y>> \in g.edges /\ dist[x] + g.weight[<<x, y>>] < dist[y]
                              => dist[x] >= delta * n
    BY <1>7 DEF Tense, weight, out_neigh
  <2>4. delta * n \in Nat
    BY <1>6, GraphFacts
  <2>5. \A v \in Node : Distances(g, source)[v] < delta * n => dist[v] = Distances(g, source)[v]
    BY <2>1, <2>2, <2>3, <2>4, SettledBelow
  <2> QED BY <2>1, <2>5 DEF Settled
<1>9. Settled(b)' /\ Settled(n)'
  BY <1>1, <1>5, <1>6, <1>8 DEF Settled, args
<1>10. ASSUME NEW t \in Thread PROVE CopyOK(t, p, n, tail)' /\ ClaimedSlots(t, n)' = {}
  <2>1. ClaimedSlots(t, n)' = {}
    BY <1>2 DEF ClaimedSlots
  <2> QED BY <1>1, <1>2, <1>5, <1>6, <2>1 DEF CopyOK, CopyPlaces, Voted, Empty
<1>11. ASSUME NEW x \in Node, NEW y \in out_neigh(g, x), Tense(x, y)'
       PROVE  AtHand(x, n, tail)'
  <2>1. Tense(x, y)
    BY <1>1, <1>11 DEF Tense, weight, args
  <2>2. PICK t \in Thread : InOwnBin(t, x)
    BY <1>7, <2>1
  <2>3. InOwnBin(t, x)'
    BY <1>1, <2>2 DEF InOwnBin, BinOf, args
  <2> QED BY <2>3 DEF AtHand
<1>12. Copy(p)'
  <2>1. \A i \in 0 .. (tail - 1) : FALSE
    BY <1>5
  <2>2. \A x \in Node : \A y \in out_neigh(g, x)' : Tense(x, y)' => AtHand(x, n, tail)'
    BY <1>1, <1>11 DEF out_neigh, args
  <2>3. tail' = 0 /\ single_taken' = FALSE
    BY <1>1, <1>5, <1>6
  <2>4. \A i \in 0 .. (tail' - 1) : FALSE
    BY <2>3
  <2>5. \A s, t \in Thread : s # t => ClaimedSlots(s, n)' \cap ClaimedSlots(t, n)' = {}
    BY <1>10
  <2> QED BY <1>9, <1>10, <2>2, <2>3, <2>4, <2>5 DEF Copy, b, n, tail
<1> QED BY <1>4, <1>12 DEF IInv

\* Only t's part of the per-thread state changes in the copy.
OthersCopy(t) ==
    \A s \in Thread \ {t} :
       /\ pc'[s] = pc[s] /\ iter'[s] = iter[s] /\ todo'[s] = todo[s] /\ fused'[s] = fused[s]
       /\ local_bins'[s] = local_bins[s] /\ copy_start'[s] = copy_start[s]

\* A step of t in the copy, once the single block is taken, keeps the invariant
\* if it claims no slot twice, and the slots and the waiting vertices stay
\* accounted for.
LEMMA CopyStep ==
    ASSUME Typed, Sound, Typed', NEW p \in 0 .. 1, Copy(p), NEW t \in Thread,
           UNCHANGED <<args, dist>>,
           OthersCopy(t),
           shared_indexes'[1 - p] = shared_indexes[1 - p],
           frontier_tails'[1 - p] >= frontier_tails[1 - p],
           single_taken', shared_indexes'[p] = kMaxBin, frontier_tails'[p] = 0,
           CopyOK(t, p, shared_indexes[1 - p], frontier_tails[1 - p])',
           \A s \in Thread : s # t =>
              ClaimedSlots(t, shared_indexes[1 - p])' \cap ClaimedSlots(s, shared_indexes[1 - p]) = {},
           \A i \in 0 .. (frontier_tails'[1 - p] - 1) :
              \/ \E s \in Thread : i \in ClaimedSlots(s, shared_indexes[1 - p])'
              \/ \E x \in Node : FilledWith(i, x, shared_indexes[1 - p])',
           \A x \in Node : AtHand(x, shared_indexes[1 - p], frontier_tails[1 - p])
                              => AtHand(x, shared_indexes[1 - p], frontier_tails[1 - p])'
    PROVE  IInv'
<1> DEFINE n == shared_indexes[1 - p]
           tail == frontier_tails[1 - p]
<1>1. g' = g /\ delta' = delta /\ oracle' = oracle /\ n' = n /\ Sound'
  BY DEF args, Sound
<1>2. n \in BinNo /\ tail \in Nat /\ tail' \in Nat /\ tail' >= tail
  <2>1. 1 - p \in 0 .. 1
    OBVIOUS
  <2> QED BY <2>1 DEF Typed
<1>3. /\ \A s \in Thread : CopyOK(s, p, n, tail)
      /\ Settled(n)
      /\ \A s, r \in Thread : s # r => ClaimedSlots(s, n) \cap ClaimedSlots(r, n) = {}
      /\ \A x \in Node : \A y \in out_neigh(g, x) : Tense(x, y) => AtHand(x, n, tail)
  BY DEF Copy
<1>4. ASSUME NEW s \in Thread, s # t
      PROVE  /\ pc'[s] = pc[s] /\ iter'[s] = iter[s] /\ todo'[s] = todo[s] /\ fused'[s] = fused[s]
             /\ local_bins'[s] = local_bins[s] /\ copy_start'[s] = copy_start[s]
  BY <1>4 DEF OthersCopy
<1> HIDE DEF n, tail
<1>5. ASSUME NEW s \in Thread, s # t PROVE ClaimedSlots(s, n)' = ClaimedSlots(s, n)
  BY <1>1, <1>4, <1>5 DEF ClaimedSlots
<1>6. ASSUME NEW s \in Thread PROVE CopyOK(s, p, n, tail)'
  <2>1. CASE s = t
    BY <2>1 DEF n, tail
  <2>2. CASE s # t
    <3>1. CopyOK(s, p, n, tail) /\ ClaimedSlots(s, n)' = ClaimedSlots(s, n)
      BY <1>3, <1>5, <2>2
    <3>2. 0 .. (tail - 1) \subseteq 0 .. (tail' - 1)
      <4>1. \A a, b \in Nat : b >= a => 0 .. (a - 1) \subseteq 0 .. (b - 1)
        OBVIOUS
      <4> QED BY <1>2, <4>1
    <3> QED BY <1>1, <1>4, <2>2, <3>1, <3>2 DEF CopyOK, Empty
  <2> QED BY <2>1, <2>2
<1>7. Settled(n)'
  BY <1>1, <1>3 DEF Settled
<1>8. ASSUME NEW s \in Thread, NEW r \in Thread, s # r
      PROVE  ClaimedSlots(s, n)' \cap ClaimedSlots(r, n)' = {}
  BY <1>3, <1>5, <1>8 DEF n
<1>9. ASSUME NEW x \in Node, NEW y \in out_neigh(g, x), Tense(x, y)'
      PROVE  AtHand(x, n, tail)'
  <2>1. Tense(x, y)
    BY <1>1, <1>9 DEF Tense, weight
  <2> QED BY <1>3, <2>1 DEF n, tail
<1>10. Copy(p)'
  <2>1. \A x \in Node : \A y \in out_neigh(g, x)' : Tense(x, y)' => AtHand(x, n, tail)'
    BY <1>1, <1>9 DEF out_neigh
  <2>2. \A s \in Thread : CopyOK(s, p, n, tail)'
    BY <1>6
  <2> QED BY <1>7, <1>8, <2>1, <2>2 DEF Copy, n, tail
<1> QED BY <1>1, <1>10 DEF IInv

\* What Copy says of the thread that moves.
LEMMA CopyFacts ==
    ASSUME Typed, NEW p \in 0 .. 1, Copy(p), NEW t \in Thread
    PROVE  /\ shared_indexes[1 - p] \in BinNo /\ frontier_tails[1 - p] \in Nat
           /\ shared_indexes[1 - p] \in Nat
           /\ CopyOK(t, p, shared_indexes[1 - p], frontier_tails[1 - p])
           /\ pc[t] # "barrier2" => /\ curr(t) = p /\ next(t) = 1 - p
                                    /\ next_bin_index(t) = shared_indexes[1 - p]
           /\ single_taken => shared_indexes[p] = kMaxBin /\ frontier_tails[p] = 0
           /\ pc[t] # "single" => single_taken
<1>1. 1 - p \in 0 .. 1
  OBVIOUS
<1>2. shared_indexes[1 - p] \in BinNo /\ shared_indexes[1 - p] \in Nat
  BY <1>1, Limits DEF Typed, BinNo
<1>3. CopyOK(t, p, shared_indexes[1 - p], frontier_tails[1 - p])
  BY DEF Copy
<1> QED BY <1>1, <1>2, <1>3 DEF Copy, CopyOK, Typed, curr, next, next_bin_index

\* A step in the copy that leaves the bins, the frontier and the claims alone.
LEMMA PassStep ==
    ASSUME Typed, Sound, Typed', NEW p \in 0 .. 1, Copy(p), NEW t \in Thread,
           UNCHANGED <<args, dist, frontier, local_bins, todo, fused, copy_start>>,
           OthersCopy(t), pc[t] # "fill", pc'[t] # "fill",
           shared_indexes'[1 - p] = shared_indexes[1 - p],
           frontier_tails'[1 - p] = frontier_tails[1 - p],
           single_taken', shared_indexes'[p] = kMaxBin, frontier_tails'[p] = 0,
           CopyOK(t, p, shared_indexes[1 - p], frontier_tails[1 - p])'
    PROVE  IInv'
<1> DEFINE n == shared_indexes[1 - p]
           tail == frontier_tails[1 - p]
<1>1. g' = g /\ delta' = delta /\ n' = n /\ tail' = tail /\ tail \in Nat
  BY CopyFacts DEF args
<1>2. \A i \in 0 .. (tail - 1) : \/ \E s \in Thread : i \in ClaimedSlots(s, n)
                                 \/ \E x \in Node : FilledWith(i, x, n)
  BY DEF Copy
<1>3. frontier_tails'[1 - p] >= frontier_tails[1 - p]
  BY <1>1
<1> HIDE DEF n, tail
<1>4. ASSUME NEW s \in Thread PROVE ClaimedSlots(s, n)' = ClaimedSlots(s, n)
  <2>1. s # t => pc'[s] = pc[s]
    BY DEF OthersCopy
  <2> QED BY <1>1, <2>1 DEF ClaimedSlots
<1>5. ASSUME NEW i, NEW x, FilledWith(i, x, n) PROVE FilledWith(i, x, n)'
  BY <1>4, <1>5 DEF FilledWith
<1>6. ASSUME NEW x \in Node, AtHand(x, n, tail) PROVE AtHand(x, n, tail)'
  BY <1>1, <1>5, <1>6 DEF AtHand, InOwnBin, BinOf
<1>7. ClaimedSlots(t, n)' = {}
  BY DEF ClaimedSlots
<1>8. \A i \in 0 .. (frontier_tails'[1 - p] - 1) :
         \/ \E s \in Thread : i \in ClaimedSlots(s, n)'
         \/ \E x \in Node : FilledWith(i, x, n)'
  BY <1>1, <1>2, <1>4, <1>5 DEF tail
<1> QED BY <1>3, <1>6, <1>7, <1>8, CopyStep DEF n, tail

\* The single block resets the index and the length that the next iteration
\* will vote for and append to.
LEMMA SingleKeeps ==
    ASSUME Typed, Sound, NEW p \in 0 .. 1, Copy(p), NEW t \in Thread, Single(t)
    PROVE  IInv'
<1> USE DEF relax
<1>1. /\ pc[t] = "single" /\ single_taken' = TRUE
      /\ shared_indexes' = [shared_indexes EXCEPT ![p] = kMaxBin]
      /\ frontier_tails' = [frontier_tails EXCEPT ![p] = 0]
      /\ pc' = [pc EXCEPT ![t] = "copy"]
      /\ UNCHANGED <<args, dist, frontier, iter, local_bins, todo, fused, relax, copy_start>>
  BY CopyFacts DEF Single, Goto
<1>2. /\ pc' \in [Thread -> WorkPlaces \cup CopyPlaces] /\ pc'[t] = "copy"
      /\ \A s \in Thread : s # t => pc'[s] = pc[s]
  BY <1>1 DEF Typed, CopyPlaces
<1>3. /\ shared_indexes' \in [0 .. 1 -> BinNo] /\ shared_indexes'[p] = kMaxBin
      /\ shared_indexes'[1 - p] = shared_indexes[1 - p]
      /\ frontier_tails' \in [0 .. 1 -> Nat] /\ frontier_tails'[p] = 0
      /\ frontier_tails'[1 - p] = frontier_tails[1 - p]
  <2>1. 1 - p \in 0 .. 1 /\ 1 - p # p /\ kMaxBin \in BinNo
    BY Limits DEF BinNo
  <2> QED BY <1>1, <2>1 DEF Typed
<1>4. Typed'
  BY <1>1, <1>2, <1>3 DEF Typed, args
<1>5. OthersCopy(t)
  BY <1>1, <1>2 DEF OthersCopy
<1>6. CopyOK(t, p, shared_indexes[1 - p], frontier_tails[1 - p])'
  <2>1. CopyOK(t, p, shared_indexes[1 - p], frontier_tails[1 - p])
    BY CopyFacts
  <2> QED BY <1>1, <1>2, <1>3, <2>1 DEF CopyOK, CopyPlaces, Empty, ClaimedSlots
<1> QED BY <1>1, <1>2, <1>3, <1>4, <1>5, <1>6, PassStep

\* The other threads go on without waiting for it.
LEMMA PassSingleKeeps ==
    ASSUME Typed, Sound, NEW p \in 0 .. 1, Copy(p), NEW t \in Thread, PassSingle(t)
    PROVE  IInv'
<1> USE DEF shared, relax
<1>1. /\ pc[t] = "single" /\ single_taken /\ pc' = [pc EXCEPT ![t] = "copy"]
      /\ UNCHANGED <<args, dist, shared, iter, local_bins, todo, fused, relax, copy_start>>
  BY DEF PassSingle, Goto
<1>2. /\ pc' \in [Thread -> WorkPlaces \cup CopyPlaces] /\ pc'[t] = "copy"
      /\ \A s \in Thread : s # t => pc'[s] = pc[s]
  BY <1>1 DEF Typed, CopyPlaces
<1>3. Typed' /\ OthersCopy(t)
  BY <1>1, <1>2 DEF Typed, OthersCopy, args
<1>4. /\ CopyOK(t, p, shared_indexes[1 - p], frontier_tails[1 - p])
      /\ shared_indexes[p] = kMaxBin /\ frontier_tails[p] = 0
  BY <1>1, CopyFacts
<1>5. CopyOK(t, p, shared_indexes[1 - p], frontier_tails[1 - p])'
  BY <1>1, <1>2, <1>4 DEF CopyOK, CopyPlaces, Empty, ClaimedSlots
<1> QED BY <1>1, <1>2, <1>3, <1>4, <1>5, PassStep

\* A thread without a bin of that number has nothing to copy.
LEMMA NoCopyKeeps ==
    ASSUME Typed, Sound, NEW p \in 0 .. 1, Copy(p), NEW t \in Thread, NoCopy(t)
    PROVE  IInv'
<1> USE DEF shared, relax
<1> DEFINE n == shared_indexes[1 - p]
           tail == frontier_tails[1 - p]
<1>1. /\ pc[t] = "copy" /\ n >= Len(local_bins[t])
      /\ iter' = [iter EXCEPT ![t] = 1 - p] /\ pc' = [pc EXCEPT ![t] = "barrier2"]
      /\ UNCHANGED <<args, dist, shared, local_bins, todo, fused, relax, copy_start>>
  <2>1. pc[t] = "copy"
    BY DEF NoCopy
  <2>2. next(t) = 1 - p /\ next_bin_index(t) = n
    BY <2>1, CopyFacts
  <2> QED BY <2>1, <2>2 DEF NoCopy, NextIter, Goto
<1>2. /\ pc' \in [Thread -> WorkPlaces \cup CopyPlaces] /\ pc'[t] = "barrier2"
      /\ \A s \in Thread : s # t => pc'[s] = pc[s]
  BY <1>1 DEF Typed, CopyPlaces
<1>3. /\ iter' \in [Thread -> 0 .. 1] /\ iter'[t] = 1 - p
      /\ \A s \in Thread : s # t => iter'[s] = iter[s]
  BY <1>1 DEF Typed
<1>4. Typed' /\ OthersCopy(t)
  BY <1>1, <1>2, <1>3 DEF Typed, OthersCopy, args
<1>5. /\ CopyOK(t, p, n, tail) /\ single_taken
      /\ shared_indexes[p] = kMaxBin /\ frontier_tails[p] = 0 /\ n \in Nat
  BY <1>1, CopyFacts
<1>6. Empty(t, n)
  BY <1>1, <1>5, BinType DEF Empty, Typed
<1> HIDE DEF n, tail
<1>7. n' = n /\ tail' = tail
  BY <1>1 DEF n, tail
<1>8. CopyOK(t, p, n, tail)'
  BY <1>1, <1>2, <1>3, <1>5, <1>6, <1>7 DEF CopyOK, CopyPlaces, Empty, ClaimedSlots
<1> QED BY <1>1, <1>2, <1>4, <1>5, <1>8, PassStep DEF n, tail

\* A thread claims the slots behind those already claimed.
LEMMA ClaimKeeps ==
    ASSUME Typed, Sound, NEW p \in 0 .. 1, Copy(p), NEW t \in Thread, Claim(t)
    PROVE  IInv'
<1> USE DEF relax
<1> DEFINE n == shared_indexes[1 - p]
           tail == frontier_tails[1 - p]
           len == Len(Bin(local_bins[t], n))
<1>1. /\ pc[t] = "copy" /\ n < Len(local_bins[t])
      /\ copy_start' = [copy_start EXCEPT ![t] = tail]
      /\ frontier_tails' = [frontier_tails EXCEPT ![1 - p] = tail + len]
      /\ pc' = [pc EXCEPT ![t] = "fill"]
      /\ UNCHANGED <<args, dist, frontier, shared_indexes, single_taken, iter, local_bins,
                     todo, fused, relax>>
  <2>1. pc[t] = "copy"
    BY DEF Claim
  <2>2. next(t) = 1 - p /\ next_bin_index(t) = n
    BY <2>1, CopyFacts
  <2> QED BY <2>1, <2>2 DEF Claim, Goto
<1>2. /\ CopyOK(t, p, n, tail) /\ single_taken
      /\ shared_indexes[p] = kMaxBin /\ frontier_tails[p] = 0
      /\ n \in Nat /\ tail \in Nat
  BY <1>1, CopyFacts
<1>3. len \in Nat
  <2>1. Bin(local_bins[t], n) \in Seq(Node)
    BY <1>2, BinType DEF Typed
  <2> QED BY <2>1, LenProperties
<1> HIDE DEF n, len
<1>4. /\ pc' \in [Thread -> WorkPlaces \cup CopyPlaces] /\ pc'[t] = "fill"
      /\ \A s \in Thread : s # t => pc'[s] = pc[s]
  BY <1>1 DEF Typed, CopyPlaces
<1>5. /\ copy_start' \in [Thread -> Nat] /\ copy_start'[t] = tail
      /\ \A s \in Thread : s # t => copy_start'[s] = copy_start[s]
  BY <1>1, <1>2 DEF Typed
<1>6. /\ frontier_tails' \in [0 .. 1 -> Nat] /\ frontier_tails'[p] = 0
      /\ frontier_tails'[1 - p] = tail + len
  <2>1. 1 - p \in 0 .. 1 /\ 1 - p # p
    OBVIOUS
  <2> QED BY <1>1, <1>2, <1>3, <2>1 DEF Typed
<1> HIDE DEF tail
<1>7. Typed' /\ OthersCopy(t)
  BY <1>1, <1>4, <1>5, <1>6 DEF Typed, OthersCopy, args
<1>8. n' = n /\ tail' = tail + len /\ tail' >= tail /\ tail' \in Nat
  BY <1>1, <1>2, <1>3, <1>6 DEF n, tail
<1>9. ClaimedSlots(t, n)' = tail .. (tail + len - 1) /\ ClaimedSlots(t, n) = {}
  BY <1>1, <1>4, <1>5, <1>8 DEF ClaimedSlots, len
<1>10. ASSUME NEW s \in Thread, s # t
       PROVE  ClaimedSlots(s, n)' = ClaimedSlots(s, n) /\ ClaimedSlots(s, n) \subseteq 0 .. (tail - 1)
  <2>1. ClaimedSlots(s, n)' = ClaimedSlots(s, n)
    BY <1>1, <1>4, <1>5, <1>8, <1>10 DEF ClaimedSlots
  <2>2. CopyOK(s, p, n, tail)
    BY DEF Copy, n, tail
  <2> QED BY <2>1, <2>2 DEF CopyOK
<1>11. CopyOK(t, p, n, tail)'
  <2>1. \A a, c, m \in Nat : m = a + c => a .. (a + c - 1) \subseteq 0 .. (m - 1)
    OBVIOUS
  <2>2. ClaimedSlots(t, n)' \subseteq 0 .. (tail' - 1)
    BY <1>2, <1>3, <1>8, <1>9, <2>1
  <2> QED BY <1>1, <1>2, <1>4, <1>8, <2>2 DEF CopyOK, CopyPlaces, Empty
<1>12. \A s \in Thread : s # t => ClaimedSlots(t, n)' \cap ClaimedSlots(s, n) = {}
  <2> SUFFICES ASSUME NEW s \in Thread, s # t, NEW i \in ClaimedSlots(s, n), i \in ClaimedSlots(t, n)'
               PROVE  FALSE
    OBVIOUS
  <2>1. i \in 0 .. (tail - 1)
    BY <1>10
  <2>2. i \in tail .. (tail + len - 1)
    BY <1>9
  <2> QED BY <1>2, <1>3, <2>1, <2>2
<1>13. ASSUME NEW i \in 0 .. (tail - 1), NEW x, FilledWith(i, x, n) PROVE FilledWith(i, x, n)'
  <2>1. i \notin ClaimedSlots(t, n)'
    BY <1>2, <1>3, <1>9
  <2>2. \A s \in Thread : i \notin ClaimedSlots(s, n)'
    BY <1>10, <1>13, <2>1 DEF FilledWith
  <2> QED BY <1>1, <1>13, <2>2 DEF FilledWith
<1>14. ASSUME NEW i \in 0 .. (tail' - 1)
       PROVE  (\E s \in Thread : i \in ClaimedSlots(s, n)') \/ (\E x \in Node : FilledWith(i, x, n)')
  <2>1. CASE i < tail
    <3>1. i \in 0 .. (tail - 1)
      BY <1>2, <1>8, <2>1
    <3>2. \/ \E s \in Thread : i \in ClaimedSlots(s, n)
          \/ \E x \in Node : FilledWith(i, x, n)
      BY <3>1 DEF Copy, n, tail
    <3>3. \A s \in Thread : i \in ClaimedSlots(s, n) => i \in ClaimedSlots(s, n)'
      BY <1>9, <1>10
    <3> QED BY <1>13, <3>1, <3>2, <3>3
  <2>2. CASE ~(i < tail)
    <3>1. i \in tail .. (tail + len - 1)
      BY <1>2, <1>3, <1>8, <2>2
    <3> QED BY <1>9, <3>1
  <2> QED BY <2>1, <2>2
<1>15. ASSUME NEW x \in Node, AtHand(x, n, tail) PROVE AtHand(x, n, tail)'
  <2>1. CASE \E s \in Thread : InOwnBin(s, x)
    BY <1>1, <2>1 DEF AtHand, InOwnBin, BinOf, args
  <2>2. CASE dist[x] >= delta * n /\ \E i \in 0 .. (tail - 1) : FilledWith(i, x, n)
    <3>1. PICK i \in 0 .. (tail - 1) : FilledWith(i, x, n)
      BY <2>2
    <3>2. i \in 0 .. (tail' - 1) /\ FilledWith(i, x, n)'
      BY <1>2, <1>3, <1>8, <1>13, <3>1
    <3>3. dist'[x] >= delta' * n'
      BY <1>1, <1>8, <2>2 DEF args
    <3> QED BY <3>2, <3>3 DEF AtHand
  <2> QED BY <1>15, <2>1, <2>2 DEF AtHand
<1>16. single_taken' /\ shared_indexes'[p] = kMaxBin /\ UNCHANGED <<args, dist>>
       /\ shared_indexes'[1 - p] = shared_indexes[1 - p]
  BY <1>1, <1>2
<1>17. \A i \in 0 .. (frontier_tails'[1 - p] - 1) :
          \/ \E s \in Thread : i \in ClaimedSlots(s, n)'
          \/ \E x \in Node : FilledWith(i, x, n)'
  BY <1>14 DEF tail
<1>18. frontier_tails'[1 - p] >= frontier_tails[1 - p]
  BY <1>8 DEF tail
<1> QED BY <1>6, <1>7, <1>11, <1>12, <1>15, <1>16, <1>17, <1>18, CopyStep DEF n, tail

\* A thread writes its bin to the slots it claimed, which nobody else writes.
LEMMA FillKeeps ==
    ASSUME Typed, Sound, NEW p \in 0 .. 1, Copy(p), NEW t \in Thread, Fill(t)
    PROVE  IInv'
<1> USE DEF relax
<1> DEFINE n == shared_indexes[1 - p]
           tail == frontier_tails[1 - p]
           bin == Bin(local_bins[t], n)
           from == copy_start[t]
           slots == from .. (from + Len(bin) - 1)
<1>1. /\ pc[t] = "fill" /\ pc' = [pc EXCEPT ![t] = "barrier2"]
      /\ frontier' = [i \in DOMAIN frontier \cup slots |->
                         IF i \in slots THEN bin[i - from + 1] ELSE frontier[i]]
      /\ local_bins' = [local_bins EXCEPT ![t] = WithBin(local_bins[t], n, <<>>)]
      /\ copy_start' = [copy_start EXCEPT ![t] = 0]
      /\ iter' = [iter EXCEPT ![t] = 1 - p]
      /\ UNCHANGED <<args, dist, shared_indexes, frontier_tails, single_taken, todo, fused, relax>>
  <2>1. pc[t] = "fill"
    BY DEF Fill
  <2>2. next(t) = 1 - p /\ next_bin_index(t) = n
    BY <2>1, CopyFacts
  <2> QED BY <2>1, <2>2 DEF Fill, NextIter, Goto
<1>2. /\ CopyOK(t, p, n, tail) /\ single_taken
      /\ shared_indexes[p] = kMaxBin /\ frontier_tails[p] = 0
      /\ n \in Nat /\ tail \in Nat /\ delta \in Nat \ {0}
  BY <1>1, CopyFacts, GraphFacts
<1>3. bin \in Seq(Node) /\ from \in Nat /\ n < kDistInf
  <2>1. n < Len(local_bins[t]) /\ Len(local_bins[t]) \in Nat /\ Len(local_bins[t]) <= kDistInf
    BY <1>1, <1>2, LenProperties DEF CopyOK, Typed
  <2>2. local_bins[t] \in Seq(Seq(Node)) /\ from \in Nat
    BY DEF Typed
  <2>3. bin \in Seq(Node)
    BY <1>2, <2>2, BinType
  <2>4. n < kDistInf
    BY <1>2, <2>1, Limits
  <2> QED BY <2>2, <2>3, <2>4
<1>4. Len(bin) \in Nat /\ \A k \in 1 .. Len(bin) : bin[k] \in Node
  BY <1>3
<1>5. ClaimedSlots(t, n) = slots
  BY <1>1 DEF ClaimedSlots
<1> HIDE DEF n, tail, bin
<1>6. /\ pc' \in [Thread -> WorkPlaces \cup CopyPlaces] /\ pc'[t] = "barrier2"
      /\ \A s \in Thread : s # t => pc'[s] = pc[s]
  BY <1>1 DEF Typed, CopyPlaces
<1>7. /\ copy_start' \in [Thread -> Nat] /\ iter' \in [Thread -> 0 .. 1] /\ iter'[t] = 1 - p
      /\ \A s \in Thread : s # t => copy_start'[s] = copy_start[s] /\ iter'[s] = iter[s]
  BY <1>1 DEF Typed
<1>8. /\ local_bins' \in [Thread -> Seq(Seq(Node))]
      /\ \A s \in Thread : Len(local_bins'[s]) <= kDistInf
      /\ \A s \in Thread : s # t => local_bins'[s] = local_bins[s]
      /\ Bin(local_bins'[t], n) = <<>>
      /\ \A k \in Nat : k # n => Bin(local_bins'[t], k) = Bin(local_bins[t], k)
  <2> DEFINE none == <<>>
  <2>1. none \in Seq(Node)
    OBVIOUS
  <2> HIDE DEF none
  <2>2. local_bins' = [local_bins EXCEPT ![t] = WithBin(local_bins[t], n, none)]
    BY <1>1 DEF none
  <2>3. Bin(local_bins'[t], n) = none
    BY <1>2, <1>3, <2>1, <2>2, BinReplaced
  <2> QED BY <1>2, <1>3, <2>1, <2>2, <2>3, BinReplaced DEF none
<1>9. n' = n /\ tail' = tail
  BY <1>1 DEF n, tail
<1>10. Typed' /\ OthersCopy(t)
  BY <1>1, <1>6, <1>7, <1>8 DEF Typed, OthersCopy, args
<1>11. ClaimedSlots(t, n)' = {} /\ \A s \in Thread : s # t => ClaimedSlots(s, n)' = ClaimedSlots(s, n)
  BY <1>6, <1>7, <1>8, <1>9 DEF ClaimedSlots
<1>12. CopyOK(t, p, n, tail)'
  <2>1. \A i \in BinNo : i < n => Empty(t, i)'
    BY <1>2, <1>8, Limits DEF CopyOK, Empty, BinNo
  <2>2. Empty(t, n)'
    BY <1>8, <1>9 DEF Empty
  <2> QED BY <1>1, <1>2, <1>6, <1>7, <1>9, <1>11, <2>1, <2>2 DEF CopyOK, CopyPlaces
<1>13. /\ \A i \in slots : i \in DOMAIN frontier' /\ frontier'[i] = bin[i - from + 1]
       /\ \A i : i \in DOMAIN frontier /\ i \notin slots =>
                    i \in DOMAIN frontier' /\ frontier'[i] = frontier[i]
  BY <1>1
<1>14. ASSUME NEW i \in slots, NEW s \in Thread PROVE i \notin ClaimedSlots(s, n)'
  <2>1. s # t => ClaimedSlots(s, n) \cap ClaimedSlots(t, n) = {}
    BY DEF Copy, n
  <2> QED BY <1>5, <1>11, <2>1
<1>15. ASSUME NEW i, NEW x, FilledWith(i, x, n) PROVE FilledWith(i, x, n)'
  <2>1. i \in DOMAIN frontier /\ frontier[i] = x /\ \A s \in Thread : i \notin ClaimedSlots(s, n)
    BY <1>15 DEF FilledWith
  <2>2. i \notin slots
    BY <1>5, <2>1
  <2>3. \A s \in Thread : i \notin ClaimedSlots(s, n)'
    BY <1>11, <2>1
  <2> HIDE DEF slots
  <2>4. i \in DOMAIN frontier' /\ frontier'[i] = x
    BY <1>13, <2>1, <2>2
  <2> QED BY <2>3, <2>4 DEF FilledWith
<1>16. ASSUME NEW i \in slots, NEW x, x = bin[i - from + 1]
       PROVE  x \in Node /\ FilledWith(i, x, n)'
  <2>1. i - from + 1 \in 1 .. Len(bin)
    BY <1>3, <1>4
  <2>2. FilledWith(i, x, n)'
    BY <1>13, <1>14, <1>16 DEF FilledWith
  <2> QED BY <1>4, <1>16, <2>1, <2>2
<1>17. ASSUME NEW i \in 0 .. (tail - 1)
       PROVE  (\E s \in Thread : i \in ClaimedSlots(s, n)') \/ (\E x \in Node : FilledWith(i, x, n)')
  <2>1. \/ \E s \in Thread : i \in ClaimedSlots(s, n)
        \/ \E x \in Node : FilledWith(i, x, n)
    BY DEF Copy, n, tail
  <2>2. CASE i \in ClaimedSlots(t, n)
    BY <1>5, <1>16, <2>2
  <2>3. ASSUME NEW s \in Thread, s # t, i \in ClaimedSlots(s, n)
        PROVE  \E r \in Thread : i \in ClaimedSlots(r, n)'
    BY <1>11, <2>3
  <2> QED BY <1>15, <2>1, <2>2, <2>3
<1>18. slots \subseteq 0 .. (tail - 1)
  BY <1>2, <1>5 DEF CopyOK
<1>19. ASSUME NEW x \in Node, AtHand(x, n, tail) PROVE AtHand(x, n, tail)'
  <2>1. ASSUME NEW s \in Thread, InOwnBin(s, x), s # t PROVE AtHand(x, n, tail)'
    <3>1. InOwnBin(s, x)'
      BY <1>1, <1>8, <2>1 DEF InOwnBin, BinOf, args
    <3> QED BY <3>1 DEF AtHand
  <2>2. CASE InOwnBin(t, x)
    <3>1. dist[x] \in Nat
      BY GraphFacts
    <3>2. BinOf(x) \in Nat /\ (BinOf(x) >= n <=> dist[x] >= delta * n) /\ BinOf(x)' = BinOf(x)
      BY <1>1, <1>2, <3>1, BinOrder DEF BinOf, args
    <3>3. CASE BinOf(x) = n
      <4>1. PICK k \in 1 .. Len(bin) : bin[k] = x
        BY <2>2, <3>3 DEF InOwnBin, Holds, bin
      <4>2. PICK i \in slots : i = from + k - 1 /\ i - from + 1 = k
        <5>1. from + k - 1 \in slots /\ (from + k - 1) - from + 1 = k
          BY <1>3, <1>4
        <5> QED BY <5>1
      <4>3. FilledWith(i, x, n)'
        BY <1>16, <4>1, <4>2
      <4>4. i \in 0 .. (tail' - 1)
        BY <1>9, <1>18
      <4>5. dist'[x] >= delta' * n'
        <5>1. dist[x] >= delta * n
          BY <1>2, <3>2, <3>3
        <5> QED BY <1>1, <1>9, <5>1 DEF args
      <4> QED BY <4>3, <4>4, <4>5 DEF AtHand
    <3>4. CASE BinOf(x) # n
      <4>1. Bin(local_bins'[t], BinOf(x)) = Bin(local_bins[t], BinOf(x))
        BY <1>8, <3>2, <3>4
      <4>2. InOwnBin(t, x)'
        BY <2>2, <3>2, <4>1 DEF InOwnBin
      <4> QED BY <4>2 DEF AtHand
    <3> QED BY <3>3, <3>4
  <2>3. CASE dist[x] >= delta * n /\ \E i \in 0 .. (tail - 1) : FilledWith(i, x, n)
    <3>1. PICK i \in 0 .. (tail - 1) : FilledWith(i, x, n)
      BY <2>3
    <3>2. i \in 0 .. (tail' - 1) /\ FilledWith(i, x, n)'
      BY <1>9, <1>15, <3>1
    <3>3. dist'[x] >= delta' * n'
      BY <1>1, <1>9, <2>3 DEF args
    <3> QED BY <3>2, <3>3 DEF AtHand
  <2> QED BY <1>19, <2>1, <2>2, <2>3 DEF AtHand
<1>20. /\ UNCHANGED <<args, dist>> /\ single_taken' /\ shared_indexes'[p] = kMaxBin
       /\ frontier_tails'[p] = 0 /\ shared_indexes'[1 - p] = shared_indexes[1 - p]
  BY <1>1, <1>2
<1>21. frontier_tails'[1 - p] >= frontier_tails[1 - p]
  BY <1>2, <1>9 DEF tail
<1>22. \A s \in Thread : s # t => ClaimedSlots(t, n)' \cap ClaimedSlots(s, n) = {}
  BY <1>11
<1>23. \A i \in 0 .. (frontier_tails'[1 - p] - 1) :
          \/ \E s \in Thread : i \in ClaimedSlots(s, n)'
          \/ \E x \in Node : FilledWith(i, x, n)'
  BY <1>1, <1>17 DEF tail
<1> QED BY <1>10, <1>12, <1>19, <1>20, <1>21, <1>22, <1>23, CopyStep DEF n, tail

\* After the second barrier every slot of the next frontier is filled, and the
\* threads share it out.
LEMMA Barrier2Keeps ==
    ASSUME Typed, Sound, NEW p \in 0 .. 1, Copy(p), Barrier2
    PROVE  IInv'
<1> USE DEF shared, relax
<1> DEFINE q == 1 - p
           b == shared_indexes[q]
           tail == frontier_tails[q]
<1>1. PICK t0 \in Thread : TRUE
  BY ThreadAssumption
<1>2. /\ \A t \in Thread : pc[t] = "barrier2" /\ iter[t] = q
      /\ pc' = [t \in Thread |-> "while"]
      /\ todo' \in Schedules(0 .. (tail - 1))
      /\ UNCHANGED <<args, dist, shared, iter, local_bins, fused, relax, copy_start>>
  <2>1. \A t \in Thread : pc[t] = "barrier2"
    BY DEF Barrier2
  <2>2. \A t \in Thread : iter[t] = q
    BY <2>1, CopyFacts DEF CopyOK
  <2>3. PICK r \in 0 .. 1 : /\ \A t \in Thread : iter[t] = r
                            /\ todo' \in Schedules(0 .. (frontier_tails[r] - 1))
    BY DEF Barrier2
  <2>4. r = q
    BY <1>1, <2>2, <2>3
  <2> QED BY <2>1, <2>2, <2>3, <2>4 DEF Barrier2
<1>3. /\ q \in 0 .. 1 /\ 1 - q = p /\ b \in BinNo /\ b <= kMaxBin /\ tail \in Nat
      /\ shared_indexes[p] = kMaxBin /\ frontier_tails[p] = 0
  <2>1. /\ b \in BinNo /\ tail \in Nat /\ shared_indexes[p] = kMaxBin /\ frontier_tails[p] = 0
    BY <1>1, <1>2, CopyFacts
  <2> QED BY <2>1, Limits DEF BinNo
<1>4. /\ Divides(todo', 0 .. (tail - 1)) /\ todo' \in [Thread -> SUBSET (0 .. (tail - 1))]
      /\ todo' \in [Thread -> SUBSET Nat]
  <2>1. Divides(todo', 0 .. (tail - 1))
    BY <1>2, ScheduleDivides
  <2>2. todo' \in [Thread -> SUBSET (0 .. (tail - 1))] /\ 0 .. (tail - 1) \subseteq Nat
    BY <1>3, <2>1 DEF Divides
  <2> QED BY <2>1, <2>2
<1> HIDE DEF q, b, tail
<1>5. /\ pc' \in [Thread -> WorkPlaces \cup CopyPlaces] /\ pc' \in [Thread -> WorkPlaces]
      /\ \A t \in Thread : pc'[t] = "while"
  BY <1>2 DEF WorkPlaces
<1>6. Typed' /\ Sound'
  BY <1>2, <1>4, <1>5 DEF Typed, Sound, args
<1>7. /\ Settled(b)
      /\ \A i \in 0 .. (tail - 1) : \E x \in Node : FilledWith(i, x, b)
      /\ \A x \in Node : \A y \in out_neigh(g, x) : Tense(x, y) => AtHand(x, b, tail)
      /\ \A t \in Thread : CopyOK(t, p, b, tail)
  <2>1. \A t \in Thread : ClaimedSlots(t, b) = {}
    BY <1>2 DEF ClaimedSlots
  <2> QED BY <2>1 DEF Copy, b, tail, q
<1>8. b' = b /\ shared_indexes'[p] = kMaxBin /\ g' = g /\ delta' = delta /\ oracle' = oracle
  BY <1>2, <1>3 DEF b, q, args
<1>9. Settled(b)'
  BY <1>2, <1>7, <1>8 DEF Settled
<1>10. ASSUME NEW t \in Thread
       PROVE  LocalsOK(t)' /\ ShareOK(t)' /\ \A i \in BinNo : i < b => Empty(t, i)'
  <2>1. LocalsOK(t)'
    BY <1>5 DEF LocalsOK, Relaxing
  <2>2. ShareOK(t)'
    <3> SUFFICES ASSUME NEW i \in todo'[t] PROVE i \in DOMAIN frontier' /\ frontier'[i] \in Node
      BY DEF ShareOK
    <3>1. i \in 0 .. (tail - 1)
      BY <1>4
    <3> QED BY <1>2, <1>7, <3>1 DEF FilledWith
  <2>3. \A i \in BinNo : i < b => Empty(t, i)'
    BY <1>2, <1>7 DEF CopyOK, Empty
  <2> QED BY <2>1, <2>2, <2>3
<1>11. ASSUME NEW x \in Node, NEW y \in out_neigh(g, x), Tense(x, y)'
       PROVE  Waits(x, y, b)'
  <2>1. Tense(x, y)
    BY <1>2, <1>11 DEF Tense, weight, args
  <2>2. AtHand(x, b, tail)
    BY <1>7, <2>1
  <2>3. ASSUME NEW t \in Thread, InOwnBin(t, x) PROVE Waits(x, y, b)'
    <3>1. InOwnBin(t, x)'
      BY <1>2, <2>3 DEF InOwnBin, BinOf, args
    <3> QED BY <3>1 DEF Waits, Attends
  <2>4. ASSUME dist[x] >= delta * b, NEW i \in 0 .. (tail - 1), FilledWith(i, x, b)
        PROVE  Waits(x, y, b)'
    <3>1. PICK t \in Thread : i \in todo'[t]
      BY <1>4 DEF Divides
    <3>2. frontier'[i] = x /\ dist'[x] >= delta' * b'
      BY <1>2, <1>8, <2>4 DEF FilledWith
    <3> QED BY <3>1, <3>2 DEF Waits, Attends, InShare
  <2> QED BY <2>2, <2>3, <2>4 DEF AtHand
<1>12. Work(q)'
  <2>1. \A t \in Thread : iter'[t] = q
    BY <1>2
  <2>2. frontier_tails'[1 - q] = 0 /\ shared_indexes'[1 - q] = kMaxBin
    BY <1>2, <1>3
  <2>3. b' <= shared_indexes'[1 - q]
    BY <1>3, <1>8, <2>2
  <2>4. \A x \in Node : \A y \in out_neigh(g, x)' : Tense(x, y)' => Waits(x, y, b)'
    BY <1>8, <1>11 DEF out_neigh
  <2>5. \A t \in Thread : /\ ~(pc'[t] = "done") /\ ~(pc'[t] \notin {"while", "done"})
                          /\ ~(pc'[t] = "barrier1")
    BY <1>5
  <2>6. q' = q
    BY DEF q
  <2> QED BY <1>5, <1>8, <1>9, <1>10, <2>1, <2>2, <2>3, <2>4, <2>5, <2>6 DEF Work, b
<1> QED BY <1>3, <1>6, <1>12 DEF IInv

-----------------------------------------------------------------------------
\* The theorems.

\* Every step keeps the invariant.
LEMMA NextIInv == IInv /\ [Next \/ Returned]_vars => IInv'
<1> SUFFICES ASSUME IInv, [Next \/ Returned]_vars PROVE IInv'
  OBVIOUS
<1>1. Typed /\ Sound
  BY DEF IInv
<1>2. PICK p \in 0 .. 1 : Work(p) \/ Copy(p)
  BY DEF IInv
<1>3. CASE UNCHANGED vars
  <2>1. /\ g' = g /\ source' = source /\ delta' = delta /\ oracle' = oracle /\ dist' = dist
        /\ frontier' = frontier /\ shared_indexes' = shared_indexes
        /\ frontier_tails' = frontier_tails /\ single_taken' = single_taken
        /\ iter' = iter /\ local_bins' = local_bins /\ todo' = todo /\ fused' = fused /\ pc' = pc
        /\ u' = u /\ nbrs' = nbrs /\ old_dist' = old_dist /\ new_dist' = new_dist
        /\ copy_start' = copy_start
    BY <1>3 DEF vars, args, shared, relax
  <2>2. Typed' /\ Sound'
    BY <1>1, <2>1 DEF Typed, Sound
  <2>3. /\ \A b : Settled(b)' <=> Settled(b)
        /\ \A x, y : Tense(x, y)' <=> Tense(x, y)
        /\ \A t, x : InOwnBin(t, x)' <=> InOwnBin(t, x)
        /\ \A t, i : Empty(t, i)' <=> Empty(t, i)
    BY <2>1 DEF Settled, Tense, weight, InOwnBin, BinOf, Empty
  <2>4. Work(p)' <=> Work(p)
    <3>1. \A t : neighbor(t)' = neighbor(t) /\ (Relaxing(t)' <=> Relaxing(t))
      BY <2>1 DEF neighbor, Relaxing
    <3>2. \A t : (LocalsOK(t)' <=> LocalsOK(t)) /\ (ShareOK(t)' <=> ShareOK(t))
      BY <2>1, <3>1 DEF LocalsOK, ShareOK
    <3>3. \A t, b : Voted(t, b)' <=> Voted(t, b)
      BY <2>1, <2>3 DEF Voted
    <3>4. \A t, x, b : InShare(t, x, b)' <=> InShare(t, x, b)
      BY <2>1 DEF InShare
    <3>5. \A t, x, y : ToRelax(t, x, y)' <=> ToRelax(t, x, y)
      BY <2>1, <3>1 DEF ToRelax, weight
    <3>6. \A x, y, b : Waits(x, y, b)' <=> Waits(x, y, b)
      BY <2>1, <2>3, <3>4, <3>5 DEF Waits, Attends
    <3> QED BY <2>1, <2>3, <3>2, <3>3, <3>6 DEF Work
  <2>5. Copy(p)' <=> Copy(p)
    <3>1. \A t, n : ClaimedSlots(t, n)' = ClaimedSlots(t, n)
      BY <2>1 DEF ClaimedSlots
    <3>2. \A i, x, n : FilledWith(i, x, n)' <=> FilledWith(i, x, n)
      BY <2>1, <3>1 DEF FilledWith
    <3>3. \A t, n, tail : CopyOK(t, p, n, tail)' <=> CopyOK(t, p, n, tail)
      BY <2>1, <2>3, <3>1 DEF CopyOK
    <3>4. \A x, n, tail : AtHand(x, n, tail)' <=> AtHand(x, n, tail)
      BY <2>1, <2>3, <3>2 DEF AtHand
    <3> QED BY <2>1, <2>3, <3>1, <3>2, <3>3, <3>4 DEF Copy
  <2> QED BY <1>2, <2>2, <2>4, <2>5 DEF IInv
<1>4. CASE Barrier1
  <2>1. Work(p)
    BY <1>2, <1>4, ThreadAssumption DEF Barrier1, Copy, CopyOK, CopyPlaces
  <2> QED BY <1>1, <1>4, <2>1, Barrier1Keeps
<1>5. CASE Barrier2
  <2>1. Copy(p)
    BY <1>2, <1>5, ThreadAssumption DEF Barrier2, Work, WorkPlaces
  <2> QED BY <1>1, <1>5, <2>1, Barrier2Keeps
<1>6. ASSUME NEW t \in Thread, ThreadStep(t) PROVE IInv'
  <2>1. CASE Work(p)
    <3>1. pc[t] \in WorkPlaces
      BY <2>1 DEF Work
    <3>2. ~(Single(t) \/ PassSingle(t) \/ Claim(t) \/ Fill(t) \/ NoCopy(t))
      BY <3>1 DEF WorkPlaces, Single, PassSingle, Claim, Fill, NoCopy
    <3>3. CASE Cas(t)
      BY <1>1, <2>1, <3>3, CasKeeps, CasFailKeeps
    <3>4. CASE While(t) \/ TakeFrontier(t) \/ Fuse(t) \/ TakeFused(t) \/ Vote(t)
      BY <1>1, <2>1, <3>4, WhileKeeps, TakeFrontierKeeps, FuseKeeps, TakeFusedKeeps, VoteKeeps
    <3>5. CASE ReadOld(t) \/ ReadNew(t) \/ Recheck(t)
      BY <1>1, <2>1, <3>5, ReadOldKeeps, ReadNewKeeps, RecheckKeeps
    <3> QED BY <1>6, <3>2, <3>3, <3>4, <3>5 DEF ThreadStep
  <2>2. CASE Copy(p)
    <3>1. pc[t] \in CopyPlaces
      BY <2>2 DEF Copy, CopyOK
    <3>2. Single(t) \/ PassSingle(t) \/ Claim(t) \/ Fill(t) \/ NoCopy(t)
      BY <1>6, <3>1 DEF CopyPlaces, ThreadStep, While, TakeFrontier, Fuse, LoopDone, TakeFused,
                        Vote, ReadOld, ReadNew, Cas, Recheck
    <3> QED BY <1>1, <2>2, <3>2, SingleKeeps, PassSingleKeeps, ClaimKeeps, FillKeeps, NoCopyKeeps
  <2> QED BY <1>2, <2>1, <2>2
<1> QED BY <1>3, <1>4, <1>5, <1>6 DEF Next, Returned

\* In every state each edge that could still shorten a path is waiting somewhere,
\* and the distances below the current bin are settled.
THEOREM Invariance == Spec => []IInv
BY InitIInv, NextIInv, PTL DEF Spec

\* Delta-stepping with bucket fusion keeps the order of the bins: what lies
\* below the bin being processed is final, whatever other threads still hold.
THEOREM BinsInOrder == Spec => []PriorityOrder
<1>1. IInv => PriorityOrder
  <2> SUFFICES ASSUME IInv PROVE PriorityOrder
    OBVIOUS
  <2>1. PICK p \in 0 .. 1 : Work(p) \/ Copy(p)
    BY DEF IInv
  <2>2. Typed
    BY DEF IInv
  <2>3. TypeOK
    <3>1. \A t \in Thread : \A i \in todo[t] : i \in DOMAIN frontier /\ frontier[i] \in Node
      BY <2>1 DEF Work, ShareOK, Copy, CopyOK
    <3> QED BY <2>2, <3>1 DEF Typed, TypeOK, BinNo
  <2>4. ASSUME NEW t \in Thread, curr_bin_index(t) # kMaxBin, NEW v \in Node,
               oracle[v] < delta * curr_bin_index(t)
        PROVE  dist[v] = oracle[v]
    <3>1. Settled(curr_bin_index(t))
      BY <2>1, <2>4 DEF Work, Copy, CopyOK, curr_bin_index, curr
    <3> QED BY <2>4, <3>1 DEF Settled
  <2> QED BY <2>3, <2>4 DEF PriorityOrder
<1> QED BY <1>1, Invariance, PTL

\* Between two iterations every vertex with an edge that could still shorten a
\* path is in the new frontier or in a higher bin of some thread.
THEOREM NoImprovementLost == Spec => []NothingForgotten
<1>1. IInv => NothingForgotten
  <2> SUFFICES ASSUME IInv, \A t \in Thread : pc[t] = "barrier2", NEW e \in g.edges,
                      dist[e[1]] + g.weight[e] < dist[e[2]]
               PROVE  \E p \in 0 .. 1, t \in Thread :
                         /\ p = iter[t]
                         /\ \/ /\ \E i \in 0 .. (frontier_tails[p] - 1) : frontier[i] = e[1]
                               /\ InBin(t, e[1])
                            \/ \E s \in Thread, b \in (shared_indexes[p] + 1) .. kMaxBin :
                                  \E k \in DOMAIN Bin(local_bins[s], b) :
                                     Bin(local_bins[s], b)[k] = e[1]
    BY DEF NothingForgotten
  <2>1. PICK t \in Thread : pc[t] = "barrier2"
    BY ThreadAssumption
  <2>2. PICK p \in 0 .. 1 : Copy(p)
    BY <2>1 DEF IInv, Work, WorkPlaces
  <2> DEFINE q == 1 - p
             n == shared_indexes[q]
             tail == frontier_tails[q]
             x == e[1]
             y == e[2]
  <2>3. Typed /\ delta \in Nat \ {0} /\ e \in Node \X Node
    <3>1. Typed /\ delta \in Nat \ {0} /\ IsGraph(g)
      BY GraphFacts DEF IInv, IsWGraph
    <3> QED BY <3>1 DEF IsGraph
  <2>4. /\ q \in 0 .. 1 /\ n \in Nat /\ iter[t] = q /\ curr_bin_index(t) = n
        /\ \A s \in Thread : CopyOK(s, p, n, tail)
    <3>1. n \in Nat /\ \A s \in Thread : CopyOK(s, p, n, tail)
      BY <2>2, <2>3, CopyFacts
    <3> QED BY <2>1, <3>1 DEF CopyOK, curr_bin_index, curr
  <2>5. x \in Node /\ y \in out_neigh(g, x) /\ Tense(x, y)
    <3>1. x \in Node /\ y \in Node /\ e = <<x, y>>
      BY <2>3
    <3> QED BY <3>1 DEF out_neigh, Tense, weight
  <2>6. AtHand(x, n, tail)
    BY <2>2, <2>5 DEF Copy
  <2>7. CASE dist[x] >= delta * n /\ \E i \in 0 .. (tail - 1) : FilledWith(i, x, n)
    BY <2>4, <2>7 DEF FilledWith, InBin
  <2>8. ASSUME NEW s \in Thread, InOwnBin(s, x)
        PROVE  \E b \in (n + 1) .. kMaxBin :
                  \E k \in DOMAIN Bin(local_bins[s], b) : Bin(local_bins[s], b)[k] = x
    <3>1. BinOf(x) \in Nat /\ BinOf(x) \in BinNo
      <4>1. dist[x] \in Nat /\ dist[x] <= kDistInf
        BY <2>3, <2>5, GraphFacts DEF Typed
      <4>2. BinOf(x) \in Nat /\ BinOf(x) <= dist[x]
        BY <2>3, <4>1, BinOrder DEF BinOf
      <4> QED BY <4>1, <4>2, Limits DEF BinNo
    <3>2. Bin(local_bins[s], BinOf(x)) \in Seq(Node)
      BY <2>3, <3>1, BinType DEF Typed
    <3>3. PICK k \in DOMAIN Bin(local_bins[s], BinOf(x)) : Bin(local_bins[s], BinOf(x))[k] = x
      BY <2>8, <3>2 DEF InOwnBin, Holds
    <3>4. ~Empty(s, BinOf(x)) /\ Empty(s, n) /\ \A i \in BinNo : i < n => Empty(s, i)
      BY <2>4, <2>8 DEF InOwnBin, Empty, Holds, CopyOK
    <3>5. BinOf(x) \in (n + 1) .. kMaxBin
      <4>1. BinOf(x) # n /\ ~(BinOf(x) < n)
        BY <3>1, <3>4
      <4> QED BY <2>4, <3>1, <4>1, Limits DEF BinNo
    <3> QED BY <3>3, <3>5
  <2> QED BY <2>4, <2>6, <2>7, <2>8 DEF AtHand
<1> QED BY <1>1, Invariance, PTL

\* When DeltaStep returns, every distance is the one SSSPVerifier computes.
THEOREM ResultCorrect == Spec => []VerifierAccepts
<1>1. IInv => VerifierAccepts
  <2> SUFFICES ASSUME IInv, Finished PROVE dist = oracle
    BY DEF VerifierAccepts
  <2>1. PICK t \in Thread : pc[t] = "done"
    BY ThreadAssumption DEF Finished
  <2>2. PICK p \in 0 .. 1 : Work(p)
    BY <2>1 DEF IInv, Copy, CopyOK, CopyPlaces
  <2>3. Settled(kMaxBin)
    BY <2>1, <2>2 DEF Work
  <2>4. /\ Sound /\ dist \in [Node -> 0 .. kDistInf] /\ oracle \in [Node -> 0 .. kDistInf]
        /\ delta \in Nat \ {0}
    BY GraphFacts DEF IInv, Typed
  <2>5. delta * kMaxBin >= kDistInf /\ delta * kMaxBin \in Nat
    <3>1. kMaxBin \in Nat /\ kDistInf \in Nat /\ kDistInf <= kMaxBin
      BY Limits
    <3>2. delta * kMaxBin >= kMaxBin /\ delta * kMaxBin \in Nat
      BY <2>4, <3>1
    <3> QED BY <3>1, <3>2
  <2>6. ASSUME NEW v \in Node PROVE dist[v] = oracle[v]
    <3>1. /\ oracle[v] <= dist[v] /\ dist[v] \in 0 .. kDistInf /\ oracle[v] \in 0 .. kDistInf
          /\ oracle[v] < delta * kMaxBin => dist[v] = oracle[v]
      BY <2>3, <2>4 DEF Sound, Settled
    <3> QED BY <2>5, <3>1, Limits
  <2> QED BY <2>4, <2>6
<1> QED BY <1>1, Invariance, PTL
=============================================================================
