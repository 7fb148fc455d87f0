--------------------------- MODULE CSRGraphProofs ---------------------------
(***************************************************************************)
(* Lemmas that the proofs of several kernels need, for every graph: least  *)
(* vertices, the growing neighbourhoods Within, the hop distances and the  *)
(* connected components they end in, and how a schedule divides a parallel *)
(* loop.  The facts about Within are inductions over the number of edges;  *)
(* each is cast as membership in a set of naturals, to which NatInduct     *)
(* applies.                                                                *)
(***************************************************************************)
EXTENDS CSRGraph, OpenMP, FiniteSetTheorems, TLAPS

\* A set of naturals that is not empty has a least element.
LEMMA NatLeast ==
    ASSUME NEW T \in SUBSET Nat, T # {}
    PROVE  \E x \in T : \A y \in T : x <= y
<1> DEFINE R == {p \in Nat \X Nat : p[1] < p[2]}
<1>1. IsWellFoundedOn(R, Nat)
  BY NatLessThanWellFounded DEF OpToRel
<1>2. \A x, y \in T : <<y, x>> \in R <=> y < x
  OBVIOUS
<1> HIDE DEF R
<1>3. \E x \in T : \A y \in T : ~(<<y, x>> \in R)
  BY <1>1, WFMin
<1>4. PICK x \in T : \A y \in T : ~(<<y, x>> \in R)
  BY <1>3
<1>5. \A y \in T : ~(y < x)
  BY <1>2, <1>4
<1> QED BY <1>5

\* Induction over the naturals, for a property given as a set.
LEMMA NatInduct ==
    ASSUME NEW S, 0 \in S, \A n \in Nat : n \in S => n + 1 \in S
    PROVE  Nat \subseteq S
<1> SUFFICES ASSUME ~(Nat \subseteq S) PROVE FALSE
  OBVIOUS
<1>1. PICK n \in Nat \ S : \A m \in Nat \ S : n <= m
  BY NatLeast
<1>2. n # 0 /\ n - 1 \in Nat
  BY <1>1
<1>3. n - 1 \in S
  BY <1>1, <1>2
<1>4. (n - 1) + 1 \in S
  BY <1>2, <1>3
<1> QED BY <1>1, <1>4

\* Min of a set of vertices is one of them, and the least.
LEMMA MinNode ==
    ASSUME NEW S \in SUBSET Nat, S # {}
    PROVE  Min(S) \in S /\ \A y \in S : Min(S) <= y
BY NatLeast, Zenon DEF Min

\* f lists what m iterations of F make of a.
Iterates(f, F, a, m, S) ==
    /\ f \in [0 .. m -> S]
    /\ f[0] = a
    /\ \A k \in 1 .. m : f[k] = F[f[k - 1]]

\* A function of a set into itself can be iterated any number of times.
LEMMA IteratesExist ==
    ASSUME NEW S, NEW F \in [S -> S], NEW a \in S, NEW m \in Nat
    PROVE  \E f : Iterates(f, F, a, m, S)
<1> DEFINE Good(f, n) == f[0] = a /\ \A k \in 1 .. n : f[k] = F[f[k - 1]]
           M == {n \in Nat : \E f \in [0 .. n -> S] : Good(f, n)}
<1>1. 0 \in M
  <2>1. [k \in 0 .. 0 |-> a] \in [0 .. 0 -> S] /\ Good([k \in 0 .. 0 |-> a], 0)
    OBVIOUS
  <2> QED BY <2>1
<1>2. ASSUME NEW n \in Nat, n \in M PROVE n + 1 \in M
  <2>1. PICK f \in [0 .. n -> S] : Good(f, n)
    BY <1>2
  <2> DEFINE h == [k \in 0 .. (n + 1) |-> IF k = n + 1 THEN F[f[n]] ELSE f[k]]
  <2>2. h \in [0 .. (n + 1) -> S]
    OBVIOUS
  <2>3. h[0] = a
    BY <2>1
  <2>4. ASSUME NEW k \in 1 .. (n + 1) PROVE h[k] = F[h[k - 1]]
    <3>1. CASE k = n + 1
      BY <3>1
    <3>2. CASE k # n + 1
      <4>1. k \in 1 .. n /\ k - 1 \in 0 .. n /\ k - 1 # n + 1 /\ k - 1 \in 0 .. (n + 1)
        BY <3>2
      <4>2. h[k] = f[k] /\ h[k - 1] = f[k - 1]
        BY <4>1
      <4> QED BY <2>1, <4>1, <4>2
    <3> QED BY <3>1, <3>2
  <2> HIDE DEF h
  <2> QED BY <2>2, <2>3, <2>4
<1> HIDE DEF M
<1>3. Nat \subseteq M
  BY <1>1, <1>2, NatInduct
<1> QED BY <1>3 DEF M, Iterates

-----------------------------------------------------------------------------
\* Within is the iteration it is written as.
LEMMA WithinSteps ==
    ASSUME NEW gr, NEW s \in Node
    PROVE  /\ Within(gr, s) \in [0 .. NumNodes -> SUBSET Node]
           /\ Within(gr, s)[0] = {s}
           /\ \A k \in 1 .. NumNodes :
                 Within(gr, s)[k] = Within(gr, s)[k - 1]
                    \cup UNION {out_neigh(gr, x) : x \in Within(gr, s)[k - 1]}
<1> DEFINE Grow(X) == X \cup UNION {out_neigh(gr, x) : x \in X}
           F == [X \in SUBSET Node |-> Grow(X)]
           Balls(b) == b = [k \in 0 .. NumNodes |->
                              IF k = 0 THEN {s} ELSE Grow(b[k - 1])]
<1>1. \A X \in SUBSET Node : Grow(X) \in SUBSET Node
  BY DEF out_neigh
<1>2. F \in [SUBSET Node -> SUBSET Node]
  BY <1>1
<1>3. {s} \in SUBSET Node /\ NumNodes \in Nat
  BY NumNodesAssumption
<1> HIDE DEF F
<1>4. PICK f : Iterates(f, F, {s}, NumNodes, SUBSET Node)
  BY <1>2, <1>3, IteratesExist
<1>5. Balls(f)
  <2> USE <1>4 DEF Iterates
  <2>1. ASSUME NEW k \in 0 .. NumNodes
        PROVE  f[k] = IF k = 0 THEN {s} ELSE Grow(f[k - 1])
    <3>1. CASE k = 0
      BY <3>1
    <3>2. CASE k # 0
      <4>1. k \in 1 .. NumNodes /\ k - 1 \in 0 .. NumNodes
        BY <3>2, <1>3
      <4>2. f[k - 1] \in SUBSET Node /\ f[k] = F[f[k - 1]]
        BY <4>1
      <4> QED BY <4>2, <3>2 DEF F
    <3> QED BY <3>1, <3>2
  <2> HIDE DEF Grow
  <2>2. f = [k \in 0 .. NumNodes |-> f[k]]
    OBVIOUS
  <2> QED BY <2>1, <2>2, Zenon
<1> DEFINE b == Within(gr, s)
<1>6. b = CHOOSE h : Balls(h)
  BY Zenon DEF Within
<1> HIDE DEF Balls
<1>7. Balls(b)
  BY <1>5, <1>6
<1> HIDE DEF Grow, b
<1>8. /\ DOMAIN b = 0 .. NumNodes
      /\ \A k \in 0 .. NumNodes : b[k] = IF k = 0 THEN {s} ELSE Grow(b[k - 1])
  <2>1. b = [k \in 0 .. NumNodes |-> IF k = 0 THEN {s} ELSE Grow(b[k - 1])]
    BY <1>7, Zenon DEF Balls
  <2> DEFINE e == [k \in 0 .. NumNodes |-> IF k = 0 THEN {s} ELSE Grow(b[k - 1])]
  <2>2. /\ DOMAIN e = 0 .. NumNodes
        /\ \A k \in 0 .. NumNodes : e[k] = IF k = 0 THEN {s} ELSE Grow(b[k - 1])
    OBVIOUS
  <2> HIDE DEF e
  <2>3. b = e
    BY <2>1 DEF e
  <2> QED BY <2>2, <2>3
<1>9. b[0] = {s} /\ \A k \in 1 .. NumNodes : b[k] = Grow(b[k - 1])
  BY <1>3, <1>8
<1>10. \A k \in 0 .. NumNodes : b[k] \in SUBSET Node
  <2> DEFINE M == {n \in Nat : n <= NumNodes => b[n] \in SUBSET Node}
  <2>1. 0 \in M
    BY <1>9
  <2>2. ASSUME NEW n \in Nat, n \in M PROVE n + 1 \in M
    BY <1>1, <1>3, <1>9, <2>2
  <2> HIDE DEF M
  <2>3. Nat \subseteq M
    BY <2>1, <2>2, NatInduct
  <2> QED BY <1>3, <2>3 DEF M
<1>11. b \in [0 .. NumNodes -> SUBSET Node]
  BY <1>7, <1>8, <1>10, Zenon DEF Balls
<1> QED BY <1>9, <1>11 DEF b, Grow

\* The neighbourhoods hold their centre and grow.
LEMMA WithinGrows ==
    ASSUME NEW gr, NEW s \in Node
    PROVE  \A k \in 0 .. NumNodes : s \in Within(gr, s)[k]
<1> DEFINE M == {n \in Nat : n <= NumNodes => s \in Within(gr, s)[n]}
<1>1. 0 \in M
  BY WithinSteps
<1>2. ASSUME NEW n \in Nat, n \in M PROVE n + 1 \in M
  BY <1>2, WithinSteps, NumNodesAssumption
<1> HIDE DEF M
<1>3. Nat \subseteq M
  BY <1>1, <1>2, NatInduct
<1> QED BY <1>3, NumNodesAssumption DEF M

\* They stay inside every set that holds the centre and is closed under edges.
LEMMA WithinLeast ==
    ASSUME NEW gr, NEW s \in Node, NEW X, s \in X,
           \A x \in X : out_neigh(gr, x) \subseteq X
    PROVE  \A k \in 0 .. NumNodes : Within(gr, s)[k] \subseteq X
<1> DEFINE M == {n \in Nat : n <= NumNodes => Within(gr, s)[n] \subseteq X}
<1>1. 0 \in M
  BY WithinSteps
<1>2. ASSUME NEW n \in Nat, n \in M PROVE n + 1 \in M
  <2>1. CASE n + 1 <= NumNodes
    <3>1. n + 1 \in 1 .. NumNodes /\ (n + 1) - 1 = n /\ Within(gr, s)[n] \subseteq X
      BY <1>2, <2>1, NumNodesAssumption
    <3>2. Within(gr, s)[n + 1] = Within(gr, s)[n]
             \cup UNION {out_neigh(gr, x) : x \in Within(gr, s)[n]}
      BY <3>1, WithinSteps
    <3>3. Within(gr, s)[n + 1] \subseteq X
      BY <3>1, <3>2
    <3> QED BY <3>3
  <2>2. CASE ~(n + 1 <= NumNodes)
    BY <2>2
  <2> QED BY <2>1, <2>2
<1> HIDE DEF M
<1>3. Nat \subseteq M
  BY <1>1, <1>2, NatInduct
<1> QED BY <1>3, NumNodesAssumption DEF M

\* The vertices are naturals, and finitely many.
LEMMA NodeNat == Node \in SUBSET Nat /\ 0 \in Node /\ \A n \in Node : n \in Nat
BY NumNodesAssumption DEF Node

\* The vertices of a graph are finitely many, NumNodes of them.
LEMMA NodeFinite == IsFiniteSet(Node) /\ Cardinality(Node) = NumNodes
BY FS_Interval, NumNodesAssumption DEF Node

\* After NumNodes steps nothing is left to reach: a neighbourhood that is not
\* closed under edges has gained a vertex with every step.
LEMMA WithinClosed ==
    ASSUME NEW gr, NEW s \in Node,
           NEW x \in Within(gr, s)[NumNodes]
    PROVE  out_neigh(gr, x) \subseteq Within(gr, s)[NumNodes]
<1> DEFINE b == Within(gr, s)
           Next1(X) == X \cup UNION {out_neigh(gr, z) : z \in X}
           Closed(X) == \A z \in X : out_neigh(gr, z) \subseteq X
           M == {n \in Nat : n <= NumNodes =>
                               Closed(b[n]) \/ Cardinality(b[n]) >= n + 1}
<1>1. /\ NumNodes \in Nat
      /\ b \in [0 .. NumNodes -> SUBSET Node]
      /\ b[0] = {s}
      /\ \A k \in 1 .. NumNodes : b[k] = Next1(b[k - 1])
  BY WithinSteps, NumNodesAssumption
<1>2. \A k \in 0 .. NumNodes : IsFiniteSet(b[k]) /\ Cardinality(b[k]) \in Nat
                               /\ Cardinality(b[k]) <= NumNodes
  BY <1>1, NodeFinite, FS_Subset, FS_CardinalityType
<1> HIDE DEF b
<1>3. 0 \in M
  <2>1. Cardinality(b[0]) = 1
    BY <1>1, FS_Singleton
  <2> QED BY <2>1
<1>4. ASSUME NEW n \in Nat, n \in M PROVE n + 1 \in M
  <2> SUFFICES ASSUME n + 1 <= NumNodes
               PROVE  Closed(b[n + 1]) \/ Cardinality(b[n + 1]) >= (n + 1) + 1
    OBVIOUS
  <2>1. n \in 0 .. NumNodes /\ n + 1 \in 0 .. NumNodes /\ n + 1 \in 1 .. NumNodes
        /\ (n + 1) - 1 = n
    BY <1>1
  <2>2. b[n + 1] = Next1(b[n])
    BY <1>1, <2>1
  <2>3. CASE Closed(b[n])
    <3>1. b[n + 1] = b[n]
      BY <2>2, <2>3
    <3> QED BY <3>1, <2>3
  <2>4. CASE ~Closed(b[n])
    <3>1. Cardinality(b[n]) >= n + 1
      BY <1>4, <2>1, <2>4
    <3>2. b[n] \subseteq b[n + 1] /\ b[n] # b[n + 1]
      BY <2>2, <2>4
    <3>3. Cardinality(b[n]) <= Cardinality(b[n + 1])
          /\ Cardinality(b[n]) # Cardinality(b[n + 1])
      BY <1>2, <2>1, <3>2, FS_Subset
    <3> QED BY <1>2, <2>1, <3>1, <3>3
  <2> QED BY <2>3, <2>4
<1> HIDE DEF M
<1>5. Nat \subseteq M
  BY <1>3, <1>4, NatInduct
<1>6. Closed(b[NumNodes])
  BY <1>1, <1>2, <1>5 DEF M
<1> QED BY <1>6 DEF b

-----------------------------------------------------------------------------
\* Hop distances: the source has distance 0, an edge leads at most one level
\* further, and every other vertex reached has a vertex one level before it.
LEMMA DepthFacts ==
    ASSUME NEW gr, NEW s \in Node
    PROVE  /\ Depth(gr, s) \in [Node -> Unreached .. NumNodes]
           /\ \A v \in Node : Depth(gr, s)[v] = 0 <=> v = s
           /\ \A x \in Node : \A y \in out_neigh(gr, x) :
                 Depth(gr, s)[x] # Unreached => Depth(gr, s)[y] \in 0 .. (Depth(gr, s)[x] + 1)
           /\ \A v \in Node : Depth(gr, s)[v] > 0 =>
                 \E x \in in_neigh(gr, v) : Depth(gr, s)[x] = Depth(gr, s)[v] - 1
<1> DEFINE b == Within(gr, s)
           D == Depth(gr, s)
           K(v) == {k \in 0 .. NumNodes : v \in b[k]}
<1>1. /\ NumNodes \in Nat
      /\ b \in [0 .. NumNodes -> SUBSET Node]
      /\ b[0] = {s}
      /\ \A k \in 1 .. NumNodes :
            b[k] = b[k - 1] \cup UNION {out_neigh(gr, z) : z \in b[k - 1]}
  BY WithinSteps, NumNodesAssumption
<1>2. \A x \in b[NumNodes] : out_neigh(gr, x) \subseteq b[NumNodes]
  BY WithinClosed
<1>3. s \in b[NumNodes]
  BY <1>1, WithinGrows
<1>4. \A k \in 0 .. NumNodes : b[k] \subseteq b[NumNodes]
  BY <1>2, <1>3, WithinLeast
<1>5. D = [v \in Node |-> IF v \in b[NumNodes] THEN Min(K(v)) ELSE Unreached]
  BY Zenon DEF Depth
<1> HIDE DEF b, D
<1>6. ASSUME NEW v \in b[NumNodes]
      PROVE  /\ D[v] \in 0 .. NumNodes /\ v \in b[D[v]]
             /\ \A k \in 0 .. NumNodes : v \in b[k] => D[v] <= k
  <2>1. K(v) \in SUBSET Nat /\ NumNodes \in K(v)
    BY <1>1, <1>6
  <2>2. v \in Node
    BY <1>1, <1>6
  <2>3. D[v] = Min(K(v))
    BY <1>5, <1>6, <2>2
  <2>4. D[v] \in K(v) /\ \A k \in K(v) : D[v] <= k
    BY <2>1, <2>3, MinNode
  <2> QED BY <2>4
<1>7. \A v \in Node : v \notin b[NumNodes] => D[v] = Unreached
  BY <1>5
<1> HIDE DEF K
<1>8. D \in [Node -> Unreached .. NumNodes]
  <2>1. \A v \in Node : D[v] \in Unreached .. NumNodes
    BY <1>1, <1>6, <1>7 DEF Unreached
  <2> QED BY <1>5, <2>1
<1>9. \A v \in Node : D[v] # Unreached <=> v \in b[NumNodes]
  BY <1>1, <1>6, <1>7 DEF Unreached
<1>10. ASSUME NEW v \in Node
       PROVE  D[v] = 0 <=> v = s
  BY <1>1, <1>3, <1>6, <1>7 DEF Unreached
<1>11. ASSUME NEW x \in Node, NEW y \in out_neigh(gr, x), D[x] # Unreached
       PROVE  D[y] \in 0 .. (D[x] + 1)
  <2>1. x \in b[NumNodes] /\ y \in b[NumNodes]
    BY <1>2, <1>9, <1>11
  <2>2. D[x] \in 0 .. NumNodes /\ D[y] \in 0 .. NumNodes /\ x \in b[D[x]]
    BY <1>6, <2>1
  <2>3. CASE D[x] = NumNodes
    BY <2>2, <2>3
  <2>4. CASE D[x] # NumNodes
    <3> DEFINE k == D[x] + 1
    <3>1. k \in 1 .. NumNodes /\ k - 1 = D[x]
      BY <1>1, <2>2, <2>4
    <3> HIDE DEF k
    <3>2. y \in b[k]
      BY <1>1, <2>2, <3>1, <1>11
    <3>3. D[y] <= k
      BY <1>6, <2>1, <3>1, <3>2
    <3> QED BY <2>2, <3>3 DEF k
  <2> QED BY <2>3, <2>4
<1>12. ASSUME NEW v \in Node, D[v] > 0
       PROVE  \E x \in in_neigh(gr, v) : D[x] = D[v] - 1
  <2> DEFINE k == D[v]
  <2>1. v \in b[NumNodes]
    BY <1>7, <1>12 DEF Unreached
  <2>2. k \in 1 .. NumNodes /\ k - 1 \in 0 .. NumNodes
    BY <1>1, <1>6, <1>12, <2>1
  <2>3. v \in b[k] /\ \A j \in 0 .. NumNodes : v \in b[j] => k <= j
    BY <1>6, <2>1
  <2> HIDE DEF k
  <2>4. v \notin b[k - 1]
    BY <2>2, <2>3
  <2>5. PICK x \in b[k - 1] : v \in out_neigh(gr, x)
    BY <1>1, <2>2, <2>3, <2>4
  <2>6. x \in Node /\ x \in b[NumNodes]
    BY <1>1, <1>4, <2>2, <2>5
  <2>7. D[x] <= k - 1 /\ D[x] \in 0 .. NumNodes
    BY <1>6, <2>2, <2>5, <2>6
  <2>8. D[v] \in 0 .. (D[x] + 1)
    BY <1>9, <1>11, <2>5, <2>6
  <2>9. D[x] = k - 1
    BY <2>2, <2>7, <2>8 DEF k
  <2>10. x \in in_neigh(gr, v)
    BY <2>5, <2>6 DEF in_neigh, out_neigh
  <2> QED BY <2>9, <2>10 DEF k
<1> QED BY <1>8, <1>10, <1>11, <1>12 DEF D

-----------------------------------------------------------------------------
\* Two vertices with an edge between them, in either direction.
Linked(g, x, y) == <<x, y>> \in g.edges \/ <<y, x>> \in g.edges

\* With the reverse of every edge added, the neighbours of x are the
\* vertices an edge links it to in either direction.
LEMMA SymmetricNeighbors ==
    ASSUME NEW g, IsGraph(g), NEW x \in Node
    PROVE  out_neigh([g EXCEPT !.edges = @ \cup {<<e[2], e[1]>> : e \in @}], x)
              = {y \in Node : Linked(g, x, y)}
<1> DEFINE back == {<<e[2], e[1]>> : e \in g.edges}
           h == [g EXCEPT !.edges = g.edges \cup back]
<1>1. h.edges = g.edges \cup back
  BY DEF IsGraph
<1>2. \A y \in Node : <<x, y>> \in back <=> <<y, x>> \in g.edges
  <2>1. \A e \in g.edges : e = <<e[1], e[2]>>
    BY DEF IsGraph
  <2> QED BY <2>1
<1> HIDE DEF back
<1>3. \A y \in Node : <<x, y>> \in h.edges <=> Linked(g, x, y)
  BY <1>1, <1>2 DEF Linked
<1> HIDE DEF h
<1>4. out_neigh(h, x) = {y \in Node : Linked(g, x, y)}
  BY <1>3 DEF out_neigh
<1> QED BY <1>4 DEF h, back

\* The component of v is the least set that holds v and is closed under edges.
LEMMA ComponentLeast ==
    ASSUME NEW g, IsGraph(g), NEW v \in Node
    PROVE  /\ Component(g, v) \subseteq Node
           /\ v \in Component(g, v)
           /\ \A x \in Component(g, v), y \in Node :
                 Linked(g, x, y) => y \in Component(g, v)
           /\ \A X \in SUBSET Node :
                 /\ v \in X
                 /\ \A x \in X, y \in Node : Linked(g, x, y) => y \in X
                 => Component(g, v) \subseteq X
<1> DEFINE h == [g EXCEPT !.edges = @ \cup {<<e[2], e[1]>> : e \in @}]
<1>1. \A x \in Node : out_neigh(h, x) = {y \in Node : Linked(g, x, y)}
  BY SymmetricNeighbors
<1>2. Component(g, v) = Within(h, v)[NumNodes]
  BY DEF Component
<1> HIDE DEF h
<1>3. NumNodes \in 0 .. NumNodes
  BY NumNodesAssumption
<1>4. Component(g, v) \subseteq Node /\ v \in Component(g, v)
  BY <1>2, <1>3, WithinSteps, WithinGrows
<1>5. \A x \in Component(g, v), y \in Node : Linked(g, x, y) => y \in Component(g, v)
  BY <1>1, <1>2, <1>4, WithinClosed
<1>6. ASSUME NEW X \in SUBSET Node, v \in X,
             \A x \in X, y \in Node : Linked(g, x, y) => y \in X
      PROVE  Component(g, v) \subseteq X
  <2>1. \A x \in X : out_neigh(h, x) \subseteq X
    BY <1>1, <1>6
  <2> QED BY <1>2, <1>3, <1>6, <2>1, WithinLeast
<1> QED BY <1>4, <1>5, <1>6

\* Components are the classes of an equivalence relation.
LEMMA ComponentClass ==
    ASSUME NEW g, IsGraph(g), NEW v \in Node, NEW x \in Component(g, v)
    PROVE  Component(g, x) = Component(g, v)
<1>1. x \in Node
  BY ComponentLeast
<1>2. ASSUME NEW a \in Node, NEW z \in Component(g, a)
      PROVE  Component(g, z) \subseteq Component(g, a)
  <2>1. z \in Node
    BY ComponentLeast
  <2>2. /\ Component(g, a) \in SUBSET Node
        /\ \A s \in Component(g, a), y \in Node :
              Linked(g, s, y) => y \in Component(g, a)
    BY ComponentLeast
  <2> QED BY <2>1, <2>2, ComponentLeast
<1>3. v \in Component(g, x)
  <2> DEFINE X == {y \in Node : v \in Component(g, y)}
  <2>1. v \in X
    BY ComponentLeast
  <2>2. ASSUME NEW a \in X, NEW b \in Node, Linked(g, a, b)
        PROVE  b \in X
    <3>1. Linked(g, b, a) /\ b \in Component(g, b)
      BY <2>2, ComponentLeast DEF Linked
    <3>2. a \in Component(g, b)
      BY <3>1, ComponentLeast
    <3> QED BY <1>2, <3>2
  <2> HIDE DEF X
  <2>3. X \in SUBSET Node
    BY DEF X
  <2>4. Component(g, v) \subseteq X
    BY <2>1, <2>2, <2>3, ComponentLeast
  <2> QED BY <2>4 DEF X
<1> QED BY <1>1, <1>2, <1>3

\* A function that agrees on the ends of every edge agrees on a component.
LEMMA ConstantOnComponent ==
    ASSUME NEW g, IsGraph(g), NEW f,
           \A e \in g.edges : f[e[1]] = f[e[2]],
           NEW v \in Node, NEW x \in Component(g, v)
    PROVE  f[x] = f[v]
<1> DEFINE X == {y \in Node : f[y] = f[v]}
<1>1. ASSUME NEW a \in X, NEW b \in Node, Linked(g, a, b)
      PROVE  b \in X
  BY <1>1 DEF Linked
<1>2. X \in SUBSET Node /\ v \in X
  OBVIOUS
<1> HIDE DEF X
<1>3. Component(g, v) \subseteq X
  BY <1>1, <1>2, ComponentLeast
<1> QED BY <1>3 DEF X

-----------------------------------------------------------------------------
\* Parallel loops.

\* Every iteration in I is one thread's, and no other's.
Divides(share, I) ==
    /\ share \in [Thread -> SUBSET I]
    /\ \A i \in I : \E t \in Thread : i \in share[t]
    /\ \A s, t \in Thread : s # t => share[s] \cap share[t] = {}

\* A schedule divides the iterations among the threads.
LEMMA ScheduleDivides ==
    ASSUME NEW I, NEW share \in Schedules(I)
    PROVE  Divides(share, I)
<1>1. PICK who \in [I -> Thread] : share = [t \in Thread |-> {i \in I : who[i] = t}]
  BY DEF Schedules
<1>2. \A t \in Thread : share[t] = {i \in I : who[i] = t}
  BY <1>1
<1>3. share \in [Thread -> SUBSET I]
  BY <1>1
<1> QED BY <1>2, <1>3 DEF Divides

\* So does a schedule by chunks.
LEMMA ChunkScheduleDivides ==
    ASSUME NEW I, NEW chunk, NEW share \in ChunkSchedules(I, chunk)
    PROVE  Divides(share, I)
<1> DEFINE C == {chunk[i] : i \in I}
<1>1. PICK s \in Schedules(C) : share = [t \in Thread |-> {i \in I : chunk[i] \in s[t]}]
  BY DEF ChunkSchedules
<1>2. Divides(s, C)
  BY <1>1, ScheduleDivides
<1>3. share \in [Thread -> SUBSET I]
  BY <1>1
<1>4. \A t \in Thread, i \in I : i \in share[t] <=> chunk[i] \in s[t]
  BY <1>1
<1>5. \A i \in I : chunk[i] \in C
  OBVIOUS
<1> HIDE DEF C
<1>6. \A i \in I : \E t \in Thread : i \in share[t]
  BY <1>2, <1>4, <1>5 DEF Divides
<1>7. \A r, t \in Thread : r # t => share[r] \cap share[t] = {}
  <2> SUFFICES ASSUME NEW r \in Thread, NEW t \in Thread, r # t,
                      NEW i \in share[r], i \in share[t]
               PROVE  FALSE
    BY <1>3
  <2>1. i \in I
    BY <1>3
  <2>2. chunk[i] \in s[r] \cap s[t]
    BY <1>4, <2>1
  <2> QED BY <1>2, <2>2 DEF Divides
<1> QED BY <1>3, <1>6, <1>7 DEF Divides

\* No chunk is shared by two threads.
LEMMA ChunksAreApart ==
    ASSUME NEW I, NEW chunk, NEW share \in ChunkSchedules(I, chunk),
           NEW r \in Thread, NEW t \in Thread, r # t,
           NEW x \in share[r], NEW y \in share[t]
    PROVE  chunk[x] # chunk[y]
<1> DEFINE C == {chunk[i] : i \in I}
<1>1. PICK s \in Schedules(C) : share = [q \in Thread |-> {i \in I : chunk[i] \in s[q]}]
  BY DEF ChunkSchedules
<1>2. s[r] \cap s[t] = {}
  BY <1>1, ScheduleDivides DEF Divides
<1>3. chunk[x] \in s[r] /\ chunk[y] \in s[t]
  BY <1>1
<1> QED BY <1>2, <1>3

\* A vertex has at most NumNodes out-edges, and a graph finitely many edges.
LEMMA DegreeBounds ==
    ASSUME NEW gr, IsGraph(gr)
    PROVE  /\ num_edges_directed(gr) \in Nat
           /\ \A x \in Node : out_degree(gr, x) \in 0 .. NumNodes
<1>1. \A x \in Node : out_degree(gr, x) \in 0 .. NumNodes
  <2> SUFFICES ASSUME NEW x \in Node
               PROVE  Cardinality(out_neigh(gr, x)) \in 0 .. NumNodes
    BY DEF out_degree
  <2>1. out_neigh(gr, x) \subseteq Node
    BY DEF out_neigh
  <2>2. IsFiniteSet(out_neigh(gr, x)) /\ Cardinality(out_neigh(gr, x)) <= NumNodes
    BY <2>1, NodeFinite, FS_Subset
  <2> QED BY <2>2, FS_CardinalityType, NumNodesAssumption
<1>2. num_edges_directed(gr) \in Nat
  <2>1. IsFiniteSet(Node \X Node)
    BY NodeFinite, FS_Product
  <2>2. gr.edges \subseteq Node \X Node
    BY DEF IsGraph
  <2>3. Cardinality(gr.edges) \in Nat
    BY <2>1, <2>2, FS_Subset, FS_CardinalityType
  <2> DEFINE m == Cardinality(gr.edges)
  <2>4. m \in Nat
    BY <2>3
  <2> HIDE DEF m
  <2>5. m \div 2 \in Nat
    BY <2>4
  <2>6. num_edges(gr) = m \/ num_edges(gr) = m \div 2
    BY DEF num_edges, m
  <2> QED BY <2>4, <2>5, <2>6 DEF num_edges_directed
<1> QED BY <1>1, <1>2
=============================================================================
