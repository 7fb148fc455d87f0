-------------------- MODULE BetweennessCentralityProofs --------------------
(***************************************************************************)
(* Theorems about BetweennessCentrality for every set of graphs, numbers   *)
(* of trials and sources, and set of threads.  An edge of the level that   *)
(* is being searched is in one thread's share until that thread has dealt  *)
(* with it; so each edge on a shortest path adds its paths once, although  *)
(* a vertex may be claimed by one thread and counted by others.  The way   *)
(* back turns the paths into dependencies level by level, and their sums   *)
(* are the verifier's.                                                     *)
(***************************************************************************)
EXTENDS BetweennessCentrality, CSRGraphProofs

QP == INSTANCE SlidingQueueProofs WITH
         Elem <- Node, Capacity <- NumNodes, Garbage <- -1

-----------------------------------------------------------------------------
\* The inductive invariant.

Sum(f, S) == MapThenSumSet(LAMBDA x : f[x], S)

\* The fractions in lowest terms.
Fraction == {q \in Nat \X (Nat \ {0}) : Frac(q[1], q[2]) = q}

Inner  == {"edge", "cas", "push", "set_bit", "swap", "count"}
Working == {"while", "next", "flush", "barrier", "end"} \cup Inner
Places == Working \cup {"single", "single end"}
Phases == {"iter", "push_back", "slide_window", "PBFS", "back", "verify", "done"}

LocalType == [pc : Places, depth : Nat, u : Node, nbrs : SUBSET Node, word : SUBSET Nat]

Types ==
    /\ g \in Graphs /\ given_source \in StartVertices /\ <<num_trials, num_iters>> \in Runs
    /\ sources \in Seq(Node) /\ Len(sources) <= num_iters
    /\ depths \in [Node -> -1 .. NumNodes] /\ path_counts \in [Node -> Nat]
    /\ succ \subseteq 0 .. (Cardinality(g.edges) - 1)
    /\ todo \in [Thread -> SUBSET Node] /\ local \in [Thread -> LocalType]
    /\ phase \in Phases /\ single_taken \in BOOLEAN
    /\ deltas \in [Node -> Fraction]
    /\ QP!IInv

\* The kernel's picker and the verifier's are in step: the verifier's calls so
\* far and the sources of this trial are all calls of the kernel's.
PickersOK ==
    /\ sp \in Nat /\ vsp \in Nat /\ num_iters \in Nat
    /\ sp = vsp + Len(sources)
    /\ picks \in Seq(Node) /\ Len(picks) = sp
    /\ \A k \in DOMAIN sources :
          /\ sources[k] = picks[vsp + k]
          /\ given_source # NoVertex => sources[k] = given_source
    /\ phase \in {"push_back", "slide_window", "PBFS", "back"} => sources # <<>>
    /\ phase = "verify" => Len(sources) = num_iters

Dep == Depth(g, source)
UpTo(k) == {v \in Node : Dep[v] \in 0 .. k}
Visited == {v \in Node : depths[v] # -1}

\* The edges on shortest paths that begin in the levels 0 to k.
TreeEdges(k) == {e \in g.edges : Dep[e[1]] \in 0 .. k /\ Dep[e[2]] = Dep[e[1]] + 1}

\* The edges that thread t has still to deal with, and those of them whose bit it
\* has not set.
Left(t) ==
    {e \in g.edges : \/ \E i \in todo[t] : shared[i] = e[1]
                     \/ e[1] = local[t].u /\ e[2] \in local[t].nbrs}
InHand(t) == <<local[t].u, next_v(t)>>
Unmarked(t) == {e \in Left(t) : ~(local[t].pc = "count" /\ e = InHand(t))}
Counted(k) == {e \in TreeEdges(k) : \A t \in Thread : e \notin Left(t)}
Marked(k)  == {e \in TreeEdges(k) : \A t \in Thread : e \notin Unmarked(t)}

\* A vertex has as many paths as the counted edges bring it.
PathSums(k) ==
    \A y \in Node :
       path_counts[y] = IF y = source THEN 1 ELSE Sum(path_counts, {x \in Node : <<x, y>> \in Counted(k)})

\* The levels above k lie in the queue one after another.
Recorded(k) ==
    /\ depth_index \in Seq(Nat) /\ Len(depth_index) = k + 1
    /\ LET ends == Append(depth_index, shared_out_start)
       IN  /\ ends[1] = 0 /\ ends[2] = 0
           /\ \A n \in 2 .. (k + 1) :
                 /\ ends[n + 1] <= shared_out_start
                 /\ {shared[i] : i \in ends[n] .. (ends[n + 1] - 1)} = Level(n - 2)

\* What holds of level k throughout the search.
LevelOK(k) ==
    /\ \A v \in Visited : depths[v] = Dep[v]
    /\ UpTo(k) \subseteq Visited /\ Visited \subseteq UpTo(k + 1)
    /\ UpTo(k) \subseteq QP!Pushed /\ QP!Pushed \subseteq Visited
    /\ PathSums(k)
    /\ succ = {EdgeIndex(e) : e \in Marked(k)}

\* The thread has claimed v and not yet pushed it.
Pushing(t, v) == local[t].pc = "push" /\ v = next_v(t)

Empty(t) == local_queue[t] = <<>> /\ ~Q!Copying(t)

ThreadOK(k, t) ==
    /\ local[t].pc \in Working
    /\ todo[t] \subseteq Q!WindowSlots
    /\ local[t].nbrs \subseteq out_neigh(g, local[t].u)
    /\ local[t].pc \notin Inner => local[t].nbrs = {}
    /\ local[t].pc \in Inner =>
          local[t].u \in Level(k) /\ \A i \in todo[t] : shared[i] # local[t].u
    /\ local[t].pc \in Inner \ {"edge"} => local[t].nbrs # {}
    /\ local[t].pc \in {"push", "set_bit", "swap", "count"} => next_v(t) \in Visited \cap Level(k + 1)
    /\ local[t].pc = "push" => next_v(t) \notin QP!Pushed
    /\ local[t].depth = IF local[t].pc \in {"while", "end"} THEN k ELSE k + 1
    /\ local[t].pc \in {"flush", "barrier", "end"} => todo[t] = {}
    /\ local[t].pc \in {"while", "barrier", "end"} => Empty(t)
    /\ local[t].pc \notin {"while", "end"} => Level(k) # {}
    /\ local[t].pc = "end" => Level(k) = {}

\* No two threads have the same edge to deal with or the same vertex to push.
Apart == \A s, t \in Thread : s # t => /\ Left(s) \cap Left(t) = {}
                                       /\ \A v \in Node : ~(Pushing(s, v) /\ Pushing(t, v))

\* A vertex claimed in this level is queued or in its claimer's hands.
ClaimsKept(k) == \A v \in (Visited \cap Level(k + 1)) \ QP!Hidden : \E t \in Thread : Pushing(t, v)

\* An edge out of the level is still to be dealt with or leads to a visited vertex.
EdgesLeft(k) ==
    \A x \in Level(k) : \A y \in out_neigh(g, x) \ Visited :
       \E t \in Thread : <<x, y>> \in Left(t)

WorkOK(k) ==
    /\ LevelOK(k) /\ Recorded(k)
    /\ QP!Window = Level(k) /\ QP!Hidden \subseteq Level(k + 1)
    /\ \A t \in Thread : ThreadOK(k, t)
    /\ Apart /\ ClaimsKept(k) /\ EdgesLeft(k)

\* Between the barrier and the end of the omp single.
SlideOK(k) ==
    /\ LevelOK(k) /\ Level(k) # {} /\ Visited = UpTo(k + 1) /\ UpTo(k + 1) \subseteq QP!Pushed
    /\ Recorded(IF single_taken THEN k + 1 ELSE k)
    /\ Q!Quiescent
    /\ \A t \in Thread :
          /\ local[t].pc \in (IF single_taken THEN {"single", "single end"} ELSE {"single"})
          /\ local[t].depth = k + 1 /\ local[t].nbrs = {} /\ todo[t] = {}
    /\ IF single_taken THEN QP!Window = Level(k + 1) /\ QP!Hidden = {}
       ELSE QP!Window = Level(k) /\ QP!Hidden = Level(k + 1)

Begun ==
    /\ depths = [n \in Node |-> IF n = source THEN 0 ELSE -1]
    /\ path_counts = [n \in Node |-> IF n = source THEN 1 ELSE 0]
    /\ succ = {} /\ QP!Window = {}

\* The neighbours one level closer to s, and one level farther away.
Parents(s, v)  == {u \in in_neigh(g, v) : Depth(g, s)[u] >= 0 /\ Depth(g, s)[v] = Depth(g, s)[u] + 1}
Children(s, u) == {v \in out_neigh(g, u) : Depth(g, s)[u] >= 0 /\ Depth(g, s)[v] = Depth(g, s)[u] + 1}

\* count satisfies the recursion of lines 171-189, and delta that of 190-209.
CountsPaths(s, count) ==
    \A v \in Node : count[v] = IF v = s THEN 1 ELSE Sum(count, Parents(s, v))
SumsDependencies(s, counts, delta) ==
    \A u \in Node : delta[u] = Dependency(counts, delta, u, Children(s, u))

\* The state of the searches that are over.
Found ==
    /\ depths = Dep /\ CountsPaths(source, path_counts)
    /\ succ = {EdgeIndex(e) : e \in {f \in g.edges : Dep[f[1]] # -1 /\ Dep[f[2]] = Dep[f[1]] + 1}}
    /\ depth_index \in Seq(Nat)
    /\ \A n \in 2 .. (Len(depth_index) - 1) :
          /\ depth_index[n + 1] <= shared_in
          /\ {shared[i] : i \in depth_index[n] .. (depth_index[n + 1] - 1)} = Level(n - 2)
    /\ Len(depth_index) >= 2 /\ depth_index[1] = 0 /\ depth_index[2] = 0
    /\ shared_in = Cardinality(Visited)
    /\ d \in 0 .. (Len(depth_index) - 1) /\ left \subseteq 0 .. (shared_in - 1)

PhaseOK ==
    /\ phase # "PBFS" => Q!Quiescent
    /\ phase = "push_back" => Begun /\ QP!Hidden = {} /\ QP!Pushed = {} /\ shared_out_start = 0
    /\ phase = "slide_window" =>
          Begun /\ QP!Hidden = {source} /\ QP!Pushed = {source} /\ depth_index = <<0>>
          /\ shared_out_start = 0 /\ shared_out_end = 0
    /\ phase = "PBFS" => \E k \in 0 .. (NumNodes + 1) : WorkOK(k) \/ SlideOK(k)
    /\ phase = "back" => Found

\* The verifier's fractions for the source s in the graph gr.
DeltasIn(gr, s) ==
    LET depth == Depth(gr, s)
        count[v \in Node] ==
            IF v = s THEN 1
            ELSE MapThenSumSet(LAMBDA u : count[u],
                               {u \in in_neigh(gr, v) : depth[u] >= 0 /\ depth[v] = depth[u] + 1})
        delta[u \in Node] ==
            Dependency(count, delta, u,
                       {v \in out_neigh(gr, u) : depth[u] >= 0 /\ depth[v] = depth[u] + 1})
    IN  delta

\* What the iterations for the sources of list make of the scores.
Total(list, share, n) == FoldLeft(LAMBDA sum, s : Plus(sum, share[s][n]), Zero, list)
Shares(gr) == [s \in Node |-> DeltasIn(gr, s)]
Sofar(gr, list) == [n \in Node |-> Total(list, Shares(gr), n)]
Before(list) == SubSeq(list, 1, Len(list) - 1)

\* The dependencies on the sources of list are fractions.
Sums(gr, list) == \A k \in DOMAIN list : DeltasIn(gr, list[k]) \in [Node -> Fraction]

\* The vertices whose dependency has been computed.
Summed == {n \in Node : \/ Dep[n] >= d
                        \/ Dep[n] = d - 1 /\ \A i \in left : shared[i] # n}

HalfSummed ==
    /\ left # {} => d < Len(depth_index) - 1
    /\ \A i \in left : i \in depth_index[d + 1] .. (depth_index[d + 2] - 1)
    /\ \A n \in Node :
          /\ deltas[n] = IF n \in Summed THEN Dependency(path_counts, deltas, n, Children(source, n)) ELSE Zero
          /\ scores[n] = IF n \in Summed THEN Plus(Sofar(g, Before(sources))[n], deltas[n])
                         ELSE Sofar(g, Before(sources))[n]

ScoresOK ==
    /\ Sums(g, IF phase \in {"iter", "verify"} THEN sources ELSE Before(sources))
    /\ phase # "verify" => scores \in [Node -> Fraction]
    /\ phase = "iter" => scores = Sofar(g, sources)
    /\ phase \in {"push_back", "slide_window", "PBFS"} => scores = Sofar(g, Before(sources))
    /\ phase = "back" => HalfSummed
    /\ phase = "verify" => scores = Normalized(Sofar(g, sources))

IInv == Types /\ PickersOK /\ PhaseOK /\ ScoresOK

-----------------------------------------------------------------------------
\* Folds over sets.

\* it[s] is what folding p over s makes of base, for each set s of members of U;
\* c picks the members.
IsFold(it, U, base, c, p) ==
    \A s \in SUBSET U : it[s] = IF s = {} THEN base ELSE p[<<c[s], it[s \ {c[s]}]>>]

\* The size of a set without one of its members.
LEMMA CardMinus ==
    ASSUME NEW S, IsFiniteSet(S), NEW x \in S
    PROVE  /\ IsFiniteSet(S \ {x}) /\ Cardinality(S) \in Nat /\ Cardinality(S \ {x}) \in Nat
           /\ Cardinality(S) = Cardinality(S \ {x}) + 1
BY FS_RemoveElement, FS_CardinalityType

\* A fold over a finite set exists.
LEMMA FoldExists ==
    ASSUME NEW V, NEW U, IsFiniteSet(U), NEW base \in V,
           NEW c, \A s \in SUBSET U : s # {} => c[s] \in s,
           NEW p \in [U \X V -> V]
    PROVE  \E it \in [SUBSET U -> V] : IsFold(it, U, base, c, p)
<1> DEFINE m == Cardinality(U) + 1
           Val(h, s) == IF s = {} THEN base ELSE p[<<c[s], h[s \ {c[s]}]>>]
           F == [h \in [SUBSET U -> V] |-> [s \in SUBSET U |-> Val(h, s)]]
           a == [s \in SUBSET U |-> base]
<1>1. m \in Nat /\ Cardinality(U) \in Nat
  BY FS_CardinalityType
<1>2. ASSUME NEW h \in [SUBSET U -> V], NEW s \in SUBSET U PROVE Val(h, s) \in V
  <2>1. CASE s = {}
    BY <2>1
  <2>2. CASE s # {}
    <3>1. c[s] \in U /\ h[s \ {c[s]}] \in V
      BY <2>2
    <3> QED BY <2>2, <3>1
  <2> QED BY <2>1, <2>2
<1>3. \A h \in [SUBSET U -> V] : Val(h, {}) = base
  OBVIOUS
<1>4. \A h \in [SUBSET U -> V] : \A s \in SUBSET U : s # {} => Val(h, s) = p[<<c[s], h[s \ {c[s]}]>>]
  OBVIOUS
<1> HIDE DEF m, Val
<1>5. /\ F \in [[SUBSET U -> V] -> [SUBSET U -> V]] /\ a \in [SUBSET U -> V]
      /\ \A h \in [SUBSET U -> V] : \A s \in SUBSET U : F[h][s] = Val(h, s)
  BY <1>2
<1>6. a[{}] = base
  OBVIOUS
<1> HIDE DEF F, a
<1>7. PICK f : Iterates(f, F, a, m, [SUBSET U -> V])
  BY <1>1, <1>5, IteratesExist
<1>8. /\ f[0] = a /\ \A n \in 0 .. m : f[n] \in [SUBSET U -> V]
      /\ \A n \in 1 .. m : \A s \in SUBSET U : f[n][s] = Val(f[n - 1], s)
  <2>1. /\ f[0] = a /\ f \in [0 .. m -> [SUBSET U -> V]]
        /\ \A n \in 1 .. m : f[n] = F[f[n - 1]]
    BY <1>7 DEF Iterates
  <2>2. \A n \in 1 .. m : n - 1 \in 0 .. m
    BY <1>1
  <2> QED BY <1>5, <2>1, <2>2
<1> DEFINE M == {n \in Nat : n < m => \A s \in SUBSET U : Cardinality(s) <= n => f[n + 1][s] = f[n][s]}
<1>9. \A s \in SUBSET U : IsFiniteSet(s) /\ Cardinality(s) \in Nat /\ Cardinality(s) <= Cardinality(U)
  BY FS_Subset, FS_CardinalityType
<1>10. 0 \in M
  <2> SUFFICES ASSUME 0 < m, NEW s \in SUBSET U, Cardinality(s) <= 0 PROVE f[0 + 1][s] = f[0][s]
    OBVIOUS
  <2>1. s = {}
    BY <1>9, FS_EmptySet
  <2>2. 1 \in 1 .. m /\ 1 - 1 = 0 /\ 0 \in 0 .. m
    BY <1>1
  <2>3. f[1][s] = Val(f[0], s)
    BY <1>8, <2>2
  <2>4. f[0] \in [SUBSET U -> V] /\ f[0] = a
    BY <1>8, <2>2
  <2> QED BY <1>3, <1>6, <2>1, <2>3, <2>4
<1>11. ASSUME NEW n \in Nat, n \in M PROVE n + 1 \in M
  <2> SUFFICES ASSUME n + 1 < m, NEW s \in SUBSET U, Cardinality(s) <= n + 1
               PROVE  f[(n + 1) + 1][s] = f[n + 1][s]
    OBVIOUS
  <2>1. /\ n + 1 \in 1 .. m /\ (n + 1) + 1 \in 1 .. m /\ (n + 1) - 1 = n
        /\ ((n + 1) + 1) - 1 = n + 1 /\ n < m /\ n \in 0 .. m /\ n + 1 \in 0 .. m
    BY <1>1
  <2>2. f[(n + 1) + 1][s] = Val(f[n + 1], s) /\ f[n + 1][s] = Val(f[n], s)
    BY <1>8, <2>1
  <2>3. f[n] \in [SUBSET U -> V] /\ f[n + 1] \in [SUBSET U -> V]
    BY <1>8, <2>1
  <2>4. CASE s = {}
    BY <1>3, <2>2, <2>3, <2>4
  <2>5. CASE s # {}
    <3> DEFINE r == s \ {c[s]}
    <3>1. c[s] \in s /\ r \in SUBSET U
      BY <2>5
    <3>2. Cardinality(r) <= n
      BY <1>9, <3>1, CardMinus
    <3> HIDE DEF r
    <3>3. f[n + 1][r] = f[n][r]
      BY <1>11, <2>1, <3>1, <3>2
    <3>4. /\ Val(f[n + 1], s) = p[<<c[s], f[n + 1][r]>>]
          /\ Val(f[n], s) = p[<<c[s], f[n][r]>>]
      BY <1>4, <2>3, <2>5, Zenon DEF r
    <3> QED BY <2>2, <3>3, <3>4
  <2> QED BY <2>4, <2>5
<1> HIDE DEF M
<1>12. Nat \subseteq M
  BY <1>10, <1>11, NatInduct
<1> DEFINE n == Cardinality(U)
<1>13. n \in Nat /\ n < m /\ n + 1 \in 1 .. m /\ (n + 1) - 1 = n /\ n \in 0 .. m
  BY <1>1 DEF m
<1>14. \A s \in SUBSET U : Cardinality(s) <= n
  BY <1>9
<1> HIDE DEF n
<1>15. \A s \in SUBSET U : f[n + 1][s] = f[n][s]
  BY <1>12, <1>13, <1>14 DEF M
<1>16. f[n] \in [SUBSET U -> V] /\ \A s \in SUBSET U : f[n + 1][s] = Val(f[n], s)
  BY <1>8, <1>13
<1>17. \A s \in SUBSET U : f[n][s] = Val(f[n], s)
  BY <1>15, <1>16
<1>18. IsFold(f[n], U, base, c, p)
  BY <1>17 DEF IsFold, Val
<1> QED BY <1>16, <1>18

\* h satisfies the recursion of a fold as far as its values are in V.
FoldLaw(h, U, V, base, c, p) ==
    /\ base \in V /\ p \in [U \X V -> V]
    /\ \A s \in SUBSET U : s # {} => c[s] \in s
    /\ h[{}] = base
    /\ \A s \in SUBSET U : s # {} /\ h[s \ {c[s]}] \in V => h[s] = p[<<c[s], h[s \ {c[s]}]>>]

\* Then they are.
LEMMA FoldTyped ==
    ASSUME NEW V, NEW U, IsFiniteSet(U), NEW base, NEW c, NEW p, NEW h,
           FoldLaw(h, U, V, base, c, p)
    PROVE  IsFold(h, U, base, c, p) /\ \A s \in SUBSET U : h[s] \in V
<1>0. /\ base \in V /\ p \in [U \X V -> V]
      /\ \A s \in SUBSET U : s # {} => c[s] \in s
      /\ h[{}] = base
      /\ \A s \in SUBSET U : s # {} /\ h[s \ {c[s]}] \in V => h[s] = p[<<c[s], h[s \ {c[s]}]>>]
  BY DEF FoldLaw
<1> DEFINE M == {n \in Nat : \A s \in SUBSET U : Cardinality(s) <= n => h[s] \in V}
<1>1. \A s \in SUBSET U : IsFiniteSet(s) /\ Cardinality(s) \in Nat
  BY FS_Subset, FS_CardinalityType
<1>2. ASSUME NEW s \in SUBSET U, s # {}, h[s \ {c[s]}] \in V
      PROVE  h[s] = p[<<c[s], h[s \ {c[s]}]>>] /\ h[s] \in V
  <2> DEFINE r == s \ {c[s]}
  <2>1. h[s] = p[<<c[s], h[r]>>]
    BY <1>0, <1>2, Zenon
  <2>2. c[s] \in U /\ h[r] \in V
    BY <1>0, <1>2
  <2> HIDE DEF r
  <2>3. h[s] \in V
    BY <1>0, <2>1, <2>2
  <2> QED BY <2>1, <2>3 DEF r
<1>3. 0 \in M
  <2>1. ASSUME NEW s \in SUBSET U, Cardinality(s) <= 0 PROVE h[s] \in V
    <3>1. s = {}
      BY <1>1, <2>1, FS_EmptySet
    <3> QED BY <1>0, <3>1
  <2> QED BY <2>1
<1>4. ASSUME NEW n \in Nat, n \in M PROVE n + 1 \in M
  <2> SUFFICES ASSUME NEW s \in SUBSET U, Cardinality(s) <= n + 1 PROVE h[s] \in V
    OBVIOUS
  <2>1. CASE s = {}
    BY <1>0, <2>1
  <2>2. CASE s # {}
    <3> DEFINE r == s \ {c[s]}
    <3>1. c[s] \in s /\ r \in SUBSET U
      BY <1>0, <2>2
    <3>2. Cardinality(r) <= n
      BY <1>1, <3>1, CardMinus
    <3> HIDE DEF r
    <3>3. h[r] \in V
      BY <1>4, <3>1, <3>2
    <3> QED BY <1>2, <2>2, <3>3 DEF r
  <2> QED BY <2>1, <2>2
<1> HIDE DEF M
<1>5. Nat \subseteq M
  BY <1>3, <1>4, NatInduct
<1>6. \A s \in SUBSET U : h[s] \in V
  BY <1>1, <1>5 DEF M
<1>7. ASSUME NEW s \in SUBSET U, s # {} PROVE h[s] = p[<<c[s], h[s \ {c[s]}]>>]
  <2>1. s \ {c[s]} \in SUBSET U
    OBVIOUS
  <2>2. h[s \ {c[s]}] \in V
    BY <1>6, <2>1
  <2> QED BY <1>2, <1>7, <2>2
<1> QED BY <1>0, <1>6, <1>7, Zenon DEF IsFold

\* Two folds, over subsets of U1 and of U2, pick and combine alike in S.
Alike(S, V, base, i1, U1, c1, p1, i2, U2, c2, p2) ==
    /\ IsFold(i1, U1, base, c1, p1) /\ S \subseteq U1 /\ i1 \in [SUBSET U1 -> V]
    /\ IsFold(i2, U2, base, c2, p2) /\ S \subseteq U2
    /\ \A s \in SUBSET S : s # {} => c1[s] \in s /\ c2[s] = c1[s]
    /\ \A x \in S : \A v \in V : p1[<<x, v>>] = p2[<<x, v>>]

\* They agree on S.
LEMMA FoldAgree ==
    ASSUME NEW S, IsFiniteSet(S), NEW V, NEW base, NEW i1, NEW U1, NEW c1, NEW p1,
           NEW i2, NEW U2, NEW c2, NEW p2, Alike(S, V, base, i1, U1, c1, p1, i2, U2, c2, p2)
    PROVE  i1[S] = i2[S]
<1>0. /\ IsFold(i1, U1, base, c1, p1) /\ S \subseteq U1 /\ i1 \in [SUBSET U1 -> V]
      /\ IsFold(i2, U2, base, c2, p2) /\ S \subseteq U2
      /\ \A s \in SUBSET S : s # {} => c1[s] \in s /\ c2[s] = c1[s]
      /\ \A x \in S : \A v \in V : p1[<<x, v>>] = p2[<<x, v>>]
  BY DEF Alike
<1> DEFINE M == {n \in Nat : \A s \in SUBSET S : Cardinality(s) <= n => i1[s] = i2[s]}
<1>1. \A s \in SUBSET S : IsFiniteSet(s) /\ Cardinality(s) \in Nat
  BY FS_Subset, FS_CardinalityType
<1>2. i1[{}] = base /\ i2[{}] = base
  <2>1. {} \in SUBSET U1 /\ {} \in SUBSET U2
    OBVIOUS
  <2> QED BY <1>0, <2>1, Zenon DEF IsFold
<1>3. 0 \in M
  <2>1. \A s \in SUBSET S : Cardinality(s) <= 0 => s = {}
    BY <1>1, FS_EmptySet
  <2> QED BY <1>2, <2>1
<1>4. ASSUME NEW n \in Nat, n \in M PROVE n + 1 \in M
  <2> SUFFICES ASSUME NEW s \in SUBSET S, Cardinality(s) <= n + 1 PROVE i1[s] = i2[s]
    OBVIOUS
  <2>1. CASE s = {}
    BY <1>2, <2>1
  <2>2. CASE s # {}
    <3> DEFINE r == s \ {c1[s]}
    <3>1. c1[s] \in s /\ c2[s] = c1[s] /\ r \in SUBSET S /\ c1[s] \in S /\ r \in SUBSET U1
      BY <1>0, <2>2
    <3>2. Cardinality(r) <= n
      BY <1>1, <3>1, CardMinus
    <3>3. s \in SUBSET U1 /\ s \in SUBSET U2
      BY <1>0
    <3>4. i1[s] = p1[<<c1[s], i1[r]>>]
      BY <1>0, <2>2, <3>3, Zenon DEF IsFold
    <3>5. i2[s] = p2[<<c2[s], i2[s \ {c2[s]}]>>]
      BY <1>0, <2>2, <3>3, Zenon DEF IsFold
    <3>6. i2[s] = p2[<<c1[s], i2[r]>>]
      BY <3>1, <3>5, Zenon
    <3> HIDE DEF r
    <3>7. i1[r] = i2[r] /\ i1[r] \in V
      BY <1>0, <1>4, <3>1, <3>2
    <3> QED BY <1>0, <3>1, <3>4, <3>6, <3>7
  <2> QED BY <2>1, <2>2
<1> HIDE DEF M
<1>5. Nat \subseteq M
  BY <1>3, <1>4, NatInduct
<1>6. Cardinality(S) \in M /\ S \in SUBSET S
  BY <1>1, <1>5
<1> QED BY <1>1, <1>6 DEF M

-----------------------------------------------------------------------------
\* Sums of naturals.

\* How MapThenFoldSet picks a member, and what a sum does with it.
Pick(S) == [s \in SUBSET S |-> CHOOSE x \in s : TRUE]
AddTo(f, S) == [q \in S \X Nat |-> f[q[1]] + q[2]]

\* The members picked are members.
LEMMA Picks ==
    ASSUME NEW S
    PROVE  /\ \A s \in SUBSET S : Pick(S)[s] = CHOOSE x \in s : TRUE
           /\ \A s \in SUBSET S : s # {} => Pick(S)[s] \in s
BY DEF Pick

\* A sum is a fold.
LEMMA SumFold ==
    ASSUME NEW S, IsFiniteSet(S), NEW f, \A x \in S : f[x] \in Nat
    PROVE  \E it \in [SUBSET S -> Nat] :
              IsFold(it, S, 0, Pick(S), AddTo(f, S)) /\ Sum(f, S) = it[S]
<1> DEFINE c == Pick(S)
           p == AddTo(f, S)
           Val(it, s) == IF s = {} THEN 0
                         ELSE f[CHOOSE x \in s : TRUE] + it[s \ {CHOOSE x \in s : TRUE}]
           Eq(it) == it = [s \in SUBSET S |-> Val(it, s)]
           h == CHOOSE h : Eq(h)
<1>1. \A s \in SUBSET S : s # {} => c[s] = (CHOOSE x \in s : TRUE) /\ c[s] \in s
  BY Picks
<1>2. p \in [S \X Nat -> Nat] /\ \A x \in S : \A v \in Nat : p[<<x, v>>] = f[x] + v
  BY DEF AddTo
<1>3. Sum(f, S) = h[S]
  BY DEF Sum, MapThenSumSet, MapThenFoldSet
<1> HIDE DEF c, p
<1>4. PICK it \in [SUBSET S -> Nat] : IsFold(it, S, 0, c, p)
  BY <1>1, <1>2, FoldExists, Zenon
<1>5. ASSUME NEW i, NEW s \in SUBSET S, s # {} PROVE Val(i, s) = f[c[s]] + i[s \ {c[s]}]
  <2>1. c[s] = CHOOSE x \in s : TRUE
    BY <1>1, <1>5
  <2> QED BY <1>5, <2>1, Zenon
<1>6. ASSUME NEW i PROVE Val(i, {}) = 0
  OBVIOUS
<1> HIDE DEF Val
<1>7. ASSUME NEW i, NEW s \in SUBSET S, s # {}, i[s \ {c[s]}] \in Nat
      PROVE  Val(i, s) = p[<<c[s], i[s \ {c[s]}]>>]
  <2> DEFINE r == s \ {c[s]}
  <2>1. Val(i, s) = f[c[s]] + i[r] /\ c[s] \in S /\ i[r] \in Nat
    BY <1>1, <1>5, <1>7
  <2> HIDE DEF r
  <2>2. Val(i, s) = p[<<c[s], i[r]>>]
    BY <1>2, <2>1
  <2> QED BY <2>2 DEF r
<1>8. Eq(it)
  <2>1. ASSUME NEW s \in SUBSET S PROVE it[s] = Val(it, s)
    <3>1. CASE s = {}
      BY <1>4, <1>6, <3>1 DEF IsFold
    <3>2. CASE s # {}
      <4>1. s \ {c[s]} \in SUBSET S
        OBVIOUS
      <4>2. it[s \ {c[s]}] \in Nat
        BY <4>1
      <4> QED BY <1>4, <1>7, <3>2, <4>2, Zenon DEF IsFold
    <3> QED BY <3>1, <3>2
  <2> QED BY <2>1
<1>9. Eq(h)
  BY <1>8
<1> HIDE DEF h
<1>10. \A s \in SUBSET S : h[s] = Val(h, s)
  BY <1>9
<1>11. h[{}] = 0
  BY <1>6, <1>10
<1>12. \A s \in SUBSET S : s # {} /\ h[s \ {c[s]}] \in Nat => h[s] = p[<<c[s], h[s \ {c[s]}]>>]
  BY <1>7, <1>10, Zenon
<1>13. IsFold(h, S, 0, c, p) /\ \A s \in SUBSET S : h[s] \in Nat
  <2>1. FoldLaw(h, S, Nat, 0, c, p)
    BY <1>1, <1>2, <1>11, <1>12 DEF FoldLaw
  <2> QED BY <2>1, FoldTyped
<1>14. h \in [SUBSET S -> Nat]
  BY <1>9, <1>10, <1>13
<1> QED BY <1>3, <1>13, <1>14 DEF c, p

\* The sum over the set without the member that is picked first.
LEMMA SumPick ==
    ASSUME NEW S, IsFiniteSet(S), NEW f, \A x \in S : f[x] \in Nat
    PROVE  /\ Sum(f, S) \in Nat
           /\ S = {} => Sum(f, S) = 0
           /\ S # {} => LET x == CHOOSE x \in S : TRUE
                        IN  x \in S /\ Sum(f, S) = f[x] + Sum(f, S \ {x})
<1>1. PICK it \in [SUBSET S -> Nat] : IsFold(it, S, 0, Pick(S), AddTo(f, S)) /\ Sum(f, S) = it[S]
  BY SumFold
<1>2. S \in SUBSET S
  OBVIOUS
<1>3. CASE S = {}
  <2>1. it[S] = 0
    BY <1>1, <1>2, <1>3, Zenon DEF IsFold
  <2> QED BY <1>1, <1>3, <2>1
<1>4. CASE S # {}
  <2> DEFINE x == CHOOSE x \in S : TRUE
             T == S \ {x}
  <2>1. x \in S /\ Pick(S)[S] = x /\ T \in SUBSET S
    BY <1>4, Picks
  <2>2. it[S] = AddTo(f, S)[<<Pick(S)[S], it[S \ {Pick(S)[S]}]>>]
    BY <1>1, <1>2, <1>4, Zenon DEF IsFold
  <2>3. it[S] = AddTo(f, S)[<<x, it[T]>>]
    BY <2>1, <2>2, Zenon
  <2> HIDE DEF x
  <2>4. IsFiniteSet(T)
    BY FS_Subset
  <2>5. PICK r \in [SUBSET T -> Nat] : IsFold(r, T, 0, Pick(T), AddTo(f, T)) /\ Sum(f, T) = r[T]
    BY <2>4, SumFold
  <2>6. it[T] = r[T]
    <3>1. \A s \in SUBSET T : s # {} => Pick(S)[s] \in s /\ Pick(T)[s] = Pick(S)[s]
      BY <2>1, Picks
    <3>2. \A z \in T : \A v \in Nat : AddTo(f, S)[<<z, v>>] = AddTo(f, T)[<<z, v>>]
      BY DEF AddTo
    <3>3. T \subseteq S /\ T \subseteq T
      OBVIOUS
    <3> DEFINE c1 == Pick(S)
               c2 == Pick(T)
               p1 == AddTo(f, S)
               p2 == AddTo(f, T)
    <3>4. IsFold(it, S, 0, c1, p1) /\ IsFold(r, T, 0, c2, p2)
      BY <1>1, <2>5
    <3>5. /\ \A s \in SUBSET T : s # {} => c1[s] \in s /\ c2[s] = c1[s]
          /\ \A z \in T : \A v \in Nat : p1[<<z, v>>] = p2[<<z, v>>]
      BY <3>1, <3>2
    <3> HIDE DEF T, c1, c2, p1, p2
    <3>6. Alike(T, Nat, 0, it, S, c1, p1, r, T, c2, p2)
      BY <1>1, <3>3, <3>4, <3>5 DEF Alike
    <3> QED BY <2>4, <3>6, FoldAgree
  <2>7. it[S] = f[x] + it[T]
    BY <2>1, <2>3 DEF AddTo
  <2>8. Sum(f, S) = f[x] + Sum(f, T)
    BY <1>1, <2>5, <2>6, <2>7
  <2>9. Sum(f, S) \in Nat
    BY <1>1, <1>2
  <2> QED BY <1>4, <2>1, <2>8, <2>9, Zenon DEF x
<1> QED BY <1>3, <1>4

\* The order in which members are added does not matter.
LEMMA SumAdd ==
    ASSUME NEW S, IsFiniteSet(S), NEW f, \A x \in S : f[x] \in Nat, NEW a \in S
    PROVE  Sum(f, S) = f[a] + Sum(f, S \ {a})
<1> DEFINE M == {n \in Nat : \A T \in SUBSET S : Cardinality(T) <= n =>
                                \A z \in T : Sum(f, T) = f[z] + Sum(f, T \ {z})}
<1>1. \A s \in SUBSET S : IsFiniteSet(s) /\ Cardinality(s) \in Nat
  BY FS_Subset, FS_CardinalityType
<1>2. \A T \in SUBSET S : Sum(f, T) \in Nat
  BY <1>1, SumPick
<1>3. 0 \in M
  <2>1. \A T \in SUBSET S : Cardinality(T) <= 0 => T = {}
    BY <1>1, FS_EmptySet
  <2> QED BY <2>1
<1>4. ASSUME NEW n \in Nat, n \in M PROVE n + 1 \in M
  <2> SUFFICES ASSUME NEW T \in SUBSET S, Cardinality(T) <= n + 1, NEW z \in T
               PROVE  Sum(f, T) = f[z] + Sum(f, T \ {z})
    OBVIOUS
  <2> DEFINE x == CHOOSE x \in T : TRUE
             X == T \ {x}
             Z == T \ {z}
             XZ == X \ {z}
  <2>1. x \in T /\ Sum(f, T) = f[x] + Sum(f, X)
    BY <1>1, SumPick
  <2> HIDE DEF x
  <2>2. CASE z = x
    BY <2>1, <2>2
  <2>3. CASE z # x
    <3>1. z \in X /\ X \in SUBSET S /\ x \in Z /\ Z \in SUBSET S /\ Z \ {x} = XZ /\ XZ \in SUBSET S
      BY <2>1, <2>3
    <3>2. Cardinality(X) <= n /\ Cardinality(Z) <= n
      BY <1>1, <2>1, CardMinus
    <3> HIDE DEF X, Z, XZ
    <3>3. Sum(f, X) = f[z] + Sum(f, X \ {z}) /\ Sum(f, Z) = f[x] + Sum(f, Z \ {x})
      BY <1>4, <3>1, <3>2, Zenon
    <3>4. Sum(f, X) = f[z] + Sum(f, XZ) /\ Sum(f, Z) = f[x] + Sum(f, XZ)
      BY <3>1, <3>3 DEF XZ
    <3>5. f[x] \in Nat /\ f[z] \in Nat /\ Sum(f, XZ) \in Nat
      BY <1>2, <2>1, <3>1
    <3>6. Sum(f, T) = f[z] + Sum(f, Z)
      BY <2>1, <3>4, <3>5
    <3> QED BY <3>6 DEF Z
  <2> QED BY <2>2, <2>3
<1> HIDE DEF M
<1>5. Cardinality(S) \in M /\ S \in SUBSET S
  BY <1>1, <1>3, <1>4, NatInduct
<1> QED BY <1>1, <1>5 DEF M

\* A sum depends on the terms only.
LEMMA SumSame ==
    ASSUME NEW S, IsFiniteSet(S), NEW f, NEW h, \A x \in S : f[x] \in Nat /\ h[x] = f[x]
    PROVE  Sum(h, S) = Sum(f, S)
<1>1. PICK i \in [SUBSET S -> Nat] : IsFold(i, S, 0, Pick(S), AddTo(f, S)) /\ Sum(f, S) = i[S]
  BY SumFold
<1>2. PICK j \in [SUBSET S -> Nat] : IsFold(j, S, 0, Pick(S), AddTo(h, S)) /\ Sum(h, S) = j[S]
  BY SumFold
<1>3. \A x \in S : \A v \in Nat : AddTo(f, S)[<<x, v>>] = AddTo(h, S)[<<x, v>>]
  BY DEF AddTo
<1>4. \A s \in SUBSET S : s # {} => Pick(S)[s] \in s
  BY Picks
<1>5. i[S] = j[S]
  <2> DEFINE c == Pick(S)
             p == AddTo(f, S)
             q == AddTo(h, S)
  <2>1. IsFold(i, S, 0, c, p) /\ IsFold(j, S, 0, c, q)
    BY <1>1, <1>2
  <2>2. /\ \A s \in SUBSET S : s # {} => c[s] \in s /\ c[s] = c[s]
        /\ \A z \in S : \A v \in Nat : p[<<z, v>>] = q[<<z, v>>]
    BY <1>3, <1>4
  <2>3. S \subseteq S
    OBVIOUS
  <2> HIDE DEF c, p, q
  <2>4. Alike(S, Nat, 0, i, S, c, p, j, S, c, q)
    BY <1>1, <2>1, <2>2, <2>3 DEF Alike
  <2> QED BY <2>4, FoldAgree
<1> QED BY <1>1, <1>2, <1>5

\* A sum is at least each of its terms.
LEMMA SumAtLeast ==
    ASSUME NEW S, IsFiniteSet(S), NEW f, \A x \in S : f[x] \in Nat, NEW a \in S
    PROVE  Sum(f, S) >= f[a]
<1>1. IsFiniteSet(S \ {a})
  BY FS_Subset
<1>2. Sum(f, S \ {a}) \in Nat /\ f[a] \in Nat
  BY <1>1, SumPick
<1> QED BY <1>2, SumAdd

-----------------------------------------------------------------------------
\* Fractions.

\* A bounded set of naturals has a largest member.
LEMMA MaxMember ==
    ASSUME NEW S \in SUBSET Nat, S # {}, NEW m \in Nat, \A i \in S : i <= m
    PROVE  Max(S) \in S /\ \A i \in S : i <= Max(S)
<1> DEFINE T == {m - i : i \in S}
<1>1. T \in SUBSET Nat /\ T # {}
  <2>1. \A i \in S : m - i \in Nat
    OBVIOUS
  <2> QED BY <2>1
<1>2. PICK x \in T : \A y \in T : x <= y
  BY <1>1, NatLeast
<1>3. PICK k \in S : x = m - k
  BY <1>2
<1>4. \A i \in S : k >= i
  <2> SUFFICES ASSUME NEW i \in S PROVE k >= i
    OBVIOUS
  <2>1. m - k <= m - i
    BY <1>2, <1>3
  <2> QED BY <2>1
<1>5. Max(S) \in S /\ \A i \in S : Max(S) >= i
  BY <1>4 DEF Max
<1>6. \A i \in S : i <= Max(S)
  BY <1>5
<1> QED BY <1>5, <1>6

\* The common divisors of n and m that Frac picks the largest from.
Divisors(n, m) == {i \in 1 .. m : n % i = 0 /\ m % i = 0}

\* Some common divisor is the largest.
LEMMA LargestDivisor ==
    ASSUME NEW n \in Nat, NEW m \in Nat \ {0}
    PROVE  /\ Max(Divisors(n, m)) \in Divisors(n, m)
           /\ \A i \in Divisors(n, m) : i <= Max(Divisors(n, m))
<1>1. 1 \in Divisors(n, m)
  BY DEF Divisors
<1>2. Divisors(n, m) \in SUBSET Nat /\ \A i \in Divisors(n, m) : i <= m
  BY DEF Divisors
<1> QED BY <1>1, <1>2, MaxMember

\* What was multiplied can be divided.
LEMMA Cancelled == ASSUME NEW q \in Nat, NEW k \in Nat \ {0} PROVE (k * q) % k = 0 /\ (k * q) \div k = q
OBVIOUS

\* A divisor leaves nothing over.
LEMMA Divided ==
    ASSUME NEW n \in Nat, NEW k \in Nat \ {0}, n % k = 0
    PROVE  n \div k \in Nat /\ n = k * (n \div k)
OBVIOUS

\* Frac cancels all there is to cancel.
LEMMA FracLowest ==
    ASSUME NEW n \in Nat, NEW m \in Nat \ {0}
    PROVE  Frac(n, m) \in Fraction
<1> DEFINE k == Max(Divisors(n, m))
           a == n \div k
           b == m \div k
           j == Max(Divisors(a, b))
<1>1. k \in 1 .. m /\ n % k = 0 /\ m % k = 0
  BY LargestDivisor DEF Divisors
<1>2. Frac(n, m) = <<a, b>>
  BY DEF Frac, Divisors
<1>3. \A i \in Divisors(n, m) : i <= k
  BY LargestDivisor
<1> HIDE DEF k
<1>4. k \in Nat \ {0} /\ a \in Nat /\ b \in Nat /\ n = k * a /\ m = k * b
  BY <1>1, Divided
<1> HIDE DEF a, b
<1>5. b \in Nat \ {0}
  BY <1>4
<1>6. j \in 1 .. b /\ a % j = 0 /\ b % j = 0
  BY <1>4, <1>5, LargestDivisor DEF Divisors
<1>7. Frac(a, b) = <<a \div j, b \div j>>
  BY DEF Frac, Divisors
<1> HIDE DEF j
<1> DEFINE a1 == a \div j
           b1 == b \div j
<1>8. j \in Nat \ {0} /\ a1 \in Nat /\ b1 \in Nat /\ a = j * a1 /\ b = j * b1
  BY <1>4, <1>6, Divided
<1> HIDE DEF a1, b1
<1>9. n = (k * j) * a1 /\ m = (k * j) * b1
  BY <1>4, <1>8
<1>10. k * j \in Nat \ {0} /\ b1 \in Nat \ {0}
  BY <1>4, <1>5, <1>8
<1>11. n % (k * j) = 0 /\ m % (k * j) = 0
  BY <1>8, <1>9, <1>10, Cancelled
<1>12. k * j <= m
  BY <1>9, <1>10
<1>13. k * j <= k
  BY <1>3, <1>10, <1>11, <1>12 DEF Divisors
<1>14. j = 1
  BY <1>4, <1>8, <1>13
<1>15. a \div j = a /\ b \div j = b
  BY <1>4, <1>14
<1> QED BY <1>2, <1>4, <1>5, <1>7, <1>15 DEF Fraction

\* The products that Plus and Times make of two fractions.
LEMMA Products ==
    ASSUME NEW a \in Nat, NEW b \in Nat \ {0}, NEW c \in Nat, NEW e \in Nat \ {0}
    PROVE  a * e + c * b \in Nat /\ a * c \in Nat /\ b * e \in Nat \ {0}
<1>1. a * e \in Nat /\ c * b \in Nat /\ a * c \in Nat /\ b * e \in Nat /\ b * e # 0
  OBVIOUS
<1> QED BY <1>1

\* Fractions are closed under Plus and Times, and Zero changes nothing.
LEMMA Fractions ==
    /\ Zero \in Fraction
    /\ \A q \in Fraction : q \in Nat \X Nat /\ q[1] \in Nat /\ q[2] \in Nat \ {0} /\ q[2] > 0
    /\ \A q, r \in Fraction : Plus(q, r) \in Fraction /\ Times(q, r) \in Fraction
    /\ \A q \in Fraction : Plus(q, Zero) = q
<1>1. Frac(0, 1) \in Fraction
  BY FracLowest
<1>2. Frac(0, 1) = Zero
  <2>1. Max(Divisors(0, 1)) = 1
    BY LargestDivisor DEF Divisors
  <2> QED BY <2>1 DEF Frac, Divisors, Zero
<1>3. ASSUME NEW q \in Fraction
      PROVE  q \in Nat \X Nat /\ q[1] \in Nat /\ q[2] \in Nat \ {0} /\ q[2] > 0
  BY DEF Fraction
<1>4. ASSUME NEW q \in Fraction, NEW r \in Fraction
      PROVE  Plus(q, r) \in Fraction /\ Times(q, r) \in Fraction
  <2> DEFINE n == q[1] * r[2] + r[1] * q[2]
             o == q[1] * r[1]
             m == q[2] * r[2]
  <2>1. q[1] \in Nat /\ q[2] \in Nat \ {0} /\ r[1] \in Nat /\ r[2] \in Nat \ {0}
    BY DEF Fraction
  <2>2. n \in Nat /\ o \in Nat /\ m \in Nat \ {0}
    BY <2>1, Products
  <2>3. Plus(q, r) = Frac(n, m) /\ Times(q, r) = Frac(o, m)
    BY DEF Plus, Times
  <2> HIDE DEF n, o, m
  <2> QED BY <2>2, <2>3, FracLowest
<1>5. ASSUME NEW q \in Fraction PROVE Plus(q, Zero) = q
  <2>1. q[1] \in Nat /\ q[2] \in Nat \ {0} /\ Frac(q[1], q[2]) = q
    BY DEF Fraction
  <2>2. q[1] * Zero[2] + Zero[1] * q[2] = q[1] /\ q[2] * Zero[2] = q[2]
    BY <2>1 DEF Zero
  <2> QED BY <2>1, <2>2 DEF Plus
<1> QED BY <1>1, <1>2, <1>3, <1>4, <1>5

-----------------------------------------------------------------------------
\* Dependencies.

\* What v hands to u, and what folding does with it.
Share(counts, received, u, v) == Times(Frac(counts[u], counts[v]), Plus(<<1, 1>>, received[v]))
Gather(counts, received, u, S) == [q \in S \X Fraction |-> Plus(Share(counts, received, u, q[1]), q[2])]

\* The numbers and fractions that a dependency of u on the vertices of S is
\* computed from.
Sound(counts, received, u, S) ==
    /\ counts[u] \in Nat
    /\ \A v \in S : counts[v] \in Nat \ {0} /\ received[v] \in Fraction

\* A dependency is a fold.
DependencyIsFold(counts, received, u, S) ==
    \E it \in [SUBSET S -> Fraction] :
       /\ IsFold(it, S, Zero, Pick(S), Gather(counts, received, u, S))
       /\ Dependency(counts, received, u, S) = it[S]

\* Dependencies are such folds.
LEMMA DependencyFold ==
    ASSUME NEW counts, NEW received, NEW u, NEW S, IsFiniteSet(S), Sound(counts, received, u, S)
    PROVE  DependencyIsFold(counts, received, u, S)
<1> DEFINE c == Pick(S)
           p == Gather(counts, received, u, S)
           f(v) == Share(counts, received, u, v)
           Val(it, s) == IF s = {} THEN Zero
                         ELSE Plus(f(CHOOSE x \in s : TRUE), it[s \ {CHOOSE x \in s : TRUE}])
           Eq(it) == it = [s \in SUBSET S |-> Val(it, s)]
           h == CHOOSE h : Eq(h)
<1>1. \A s \in SUBSET S : s # {} => c[s] = (CHOOSE x \in s : TRUE) /\ c[s] \in s
  BY Picks
<1>2. \A v \in S : f(v) \in Fraction
  <2> SUFFICES ASSUME NEW v \in S PROVE f(v) \in Fraction
    OBVIOUS
  <2>1. counts[u] \in Nat /\ counts[v] \in Nat \ {0} /\ received[v] \in Fraction
    BY DEF Sound
  <2>2. Frac(1, 1) \in Fraction /\ Frac(counts[u], counts[v]) \in Fraction
    BY <2>1, FracLowest
  <2>3. Frac(1, 1) = <<1, 1>>
    <3>1. Max(Divisors(1, 1)) = 1
      BY LargestDivisor DEF Divisors
    <3> QED BY <3>1 DEF Frac, Divisors
  <2> QED BY <2>1, <2>2, <2>3, Fractions DEF Share
<1>3. Dependency(counts, received, u, S) = h[S]
  BY DEF Dependency, MapThenFoldSet, Share
<1> HIDE DEF c, f
<1>4. p \in [S \X Fraction -> Fraction] /\ \A x \in S : \A v \in Fraction : p[<<x, v>>] = Plus(f(x), v)
  BY <1>2, Fractions DEF Gather, f
<1> HIDE DEF p
<1>5. Zero \in Fraction
  BY Fractions
<1>6. PICK it \in [SUBSET S -> Fraction] : IsFold(it, S, Zero, c, p)
  BY <1>1, <1>4, <1>5, FoldExists, Zenon
<1>7. ASSUME NEW i, NEW s \in SUBSET S, s # {} PROVE Val(i, s) = Plus(f(c[s]), i[s \ {c[s]}])
  <2>1. c[s] = CHOOSE x \in s : TRUE
    BY <1>1, <1>7
  <2> QED BY <1>7, <2>1, Zenon
<1>8. ASSUME NEW i PROVE Val(i, {}) = Zero
  OBVIOUS
<1> HIDE DEF Val
<1>9. ASSUME NEW i, NEW s \in SUBSET S, s # {}, i[s \ {c[s]}] \in Fraction
      PROVE  Val(i, s) = p[<<c[s], i[s \ {c[s]}]>>]
  <2> DEFINE r == s \ {c[s]}
  <2>1. Val(i, s) = Plus(f(c[s]), i[r]) /\ c[s] \in S /\ i[r] \in Fraction
    BY <1>1, <1>7, <1>9
  <2> HIDE DEF r
  <2>2. Val(i, s) = p[<<c[s], i[r]>>]
    BY <1>4, <2>1
  <2> QED BY <2>2 DEF r
<1>10. Eq(it)
  <2>1. ASSUME NEW s \in SUBSET S PROVE it[s] = Val(it, s)
    <3>1. CASE s = {}
      BY <1>6, <1>8, <3>1 DEF IsFold
    <3>2. CASE s # {}
      <4>1. s \ {c[s]} \in SUBSET S
        OBVIOUS
      <4>2. it[s \ {c[s]}] \in Fraction
        BY <4>1
      <4> QED BY <1>6, <1>9, <3>2, <4>2, Zenon DEF IsFold
    <3> QED BY <3>1, <3>2
  <2> QED BY <2>1
<1>11. Eq(h)
  BY <1>10
<1> HIDE DEF h
<1>12. \A s \in SUBSET S : h[s] = Val(h, s)
  BY <1>11
<1>13. h[{}] = Zero
  BY <1>8, <1>12
<1>14. \A s \in SUBSET S : s # {} /\ h[s \ {c[s]}] \in Fraction => h[s] = p[<<c[s], h[s \ {c[s]}]>>]
  BY <1>9, <1>12, Zenon
<1>15. IsFold(h, S, Zero, c, p) /\ \A s \in SUBSET S : h[s] \in Fraction
  <2>1. FoldLaw(h, S, Fraction, Zero, c, p)
    BY <1>1, <1>4, <1>5, <1>13, <1>14 DEF FoldLaw
  <2> QED BY <2>1, FoldTyped
<1>16. h \in [SUBSET S -> Fraction]
  BY <1>11, <1>12, <1>15
<1> QED BY <1>3, <1>15, <1>16 DEF c, p, DependencyIsFold

\* Where counts and received are the same, so is the dependency.
LEMMA DependencySame ==
    ASSUME NEW counts, NEW received, NEW u, NEW S, IsFiniteSet(S), Sound(counts, received, u, S),
           NEW counts2, NEW received2, counts2[u] = counts[u],
           \A v \in S : counts2[v] = counts[v] /\ received2[v] = received[v]
    PROVE  /\ Dependency(counts2, received2, u, S) = Dependency(counts, received, u, S)
           /\ Dependency(counts, received, u, S) \in Fraction
           /\ S = {} => Dependency(counts, received, u, S) = Zero
<1> DEFINE c == Pick(S)
           p1 == Gather(counts, received, u, S)
           p2 == Gather(counts2, received2, u, S)
<1>1. PICK i \in [SUBSET S -> Fraction] :
         IsFold(i, S, Zero, c, p1) /\ Dependency(counts, received, u, S) = i[S]
  <2>1. DependencyIsFold(counts, received, u, S)
    BY DependencyFold
  <2> QED BY <2>1 DEF DependencyIsFold
<1>2. Sound(counts2, received2, u, S)
  BY DEF Sound
<1>3. PICK j \in [SUBSET S -> Fraction] :
         IsFold(j, S, Zero, c, p2) /\ Dependency(counts2, received2, u, S) = j[S]
  <2>1. DependencyIsFold(counts2, received2, u, S)
    BY <1>2, DependencyFold
  <2> QED BY <2>1 DEF DependencyIsFold
<1>4. \A v \in S : Share(counts, received, u, v) = Share(counts2, received2, u, v)
  BY DEF Share
<1>5. \A v \in S : \A q \in Fraction : p1[<<v, q>>] = p2[<<v, q>>]
  BY <1>4 DEF Gather
<1>6. \A s \in SUBSET S : s # {} => c[s] \in s /\ c[s] = c[s]
  BY Picks
<1>7. S \subseteq S /\ S \in SUBSET S
  OBVIOUS
<1> HIDE DEF c, p1, p2
<1>8. Alike(S, Fraction, Zero, i, S, c, p1, j, S, c, p2)
  BY <1>1, <1>3, <1>5, <1>6, <1>7 DEF Alike
<1>9. i[S] = j[S]
  BY <1>8, FoldAgree
<1>10. S = {} => i[S] = Zero
  BY <1>1, <1>7, Zenon DEF IsFold
<1> QED BY <1>1, <1>3, <1>7, <1>9, <1>10

-----------------------------------------------------------------------------
\* Scores.

\* FoldLeft takes the last element of a sequence first.
Highest(S) == [s \in SUBSET S |-> Max(s)]
AddShare(list, share, n) ==
    [q \in (1 .. Len(list)) \X Fraction |-> Plus(q[2], share[list[q[1]]][n])]

\* The highest of a set of places.
LEMMA Highests ==
    ASSUME NEW m \in Nat
    PROVE  /\ IsFiniteSet(1 .. m)
           /\ \A s \in SUBSET (1 .. m) : s # {} => Highest(1 .. m)[s] = Max(s) /\ Max(s) \in s
           /\ Max(1 .. (m + 1)) = m + 1
<1>1. IsFiniteSet(1 .. m)
  BY FS_Interval
<1>2. ASSUME NEW s \in SUBSET (1 .. m), s # {} PROVE Max(s) \in s
  <2>1. s \in SUBSET Nat /\ \A i \in s : i <= m
    OBVIOUS
  <2> QED BY <1>2, <2>1, MaxMember
<1>3. Max(1 .. (m + 1)) = m + 1
  <2>1. 1 .. (m + 1) \in SUBSET Nat /\ m + 1 \in 1 .. (m + 1) /\ \A i \in 1 .. (m + 1) : i <= m + 1
    OBVIOUS
  <2>2. Max(1 .. (m + 1)) \in 1 .. (m + 1) /\ m + 1 <= Max(1 .. (m + 1))
    BY <2>1, MaxMember
  <2> QED BY <2>2
<1> QED BY <1>1, <1>2, <1>3 DEF Highest

TotalIsFold(list, share, n, S) ==
    \E it \in [SUBSET S -> Fraction] :
       IsFold(it, S, Zero, Highest(S), AddShare(list, share, n)) /\ Total(list, share, n) = it[S]

\* A total is a fold, and takes the last place first.
LEMMA TotalFold ==
    ASSUME NEW list \in Seq(Node), NEW share, NEW n,
           \A k \in DOMAIN list : share[list[k]][n] \in Fraction
    PROVE  TotalIsFold(list, share, n, 1 .. Len(list))
<1> DEFINE S == 1 .. Len(list)
           c == Highest(S)
           p == AddShare(list, share, n)
           f(k) == share[list[k]][n]
           Val(it, s) == IF s = {} THEN Zero ELSE Plus(it[s \ {Max(s)}], f(Max(s)))
           Eq(it) == it = [s \in SUBSET S |-> Val(it, s)]
           h == CHOOSE h : Eq(h)
<1>0. Len(list) \in Nat /\ DOMAIN list = S
  OBVIOUS
<1>1. IsFiniteSet(S) /\ \A s \in SUBSET S : s # {} => c[s] = Max(s) /\ c[s] \in s
  BY <1>0, Highests
<1>2. \A k \in S : f(k) \in Fraction
  OBVIOUS
<1>3. Total(list, share, n) = h[S]
  BY <1>0 DEF Total, FoldLeft, MapThenFoldSet
<1> HIDE DEF S, c, f
<1>4. p \in [S \X Fraction -> Fraction] /\ \A x \in S : \A v \in Fraction : p[<<x, v>>] = Plus(v, f(x))
  BY <1>2, Fractions DEF AddShare, f, S
<1> HIDE DEF p
<1>5. Zero \in Fraction
  BY Fractions
<1>6. PICK it \in [SUBSET S -> Fraction] : IsFold(it, S, Zero, c, p)
  BY <1>1, <1>4, <1>5, FoldExists, Zenon
<1>7. ASSUME NEW i, NEW s \in SUBSET S, s # {} PROVE Val(i, s) = Plus(i[s \ {c[s]}], f(c[s]))
  <2>1. c[s] = Max(s)
    BY <1>1, <1>7
  <2> QED BY <1>7, <2>1, Zenon
<1>8. ASSUME NEW i PROVE Val(i, {}) = Zero
  OBVIOUS
<1> HIDE DEF Val
<1>9. ASSUME NEW i, NEW s \in SUBSET S, s # {}, i[s \ {c[s]}] \in Fraction
      PROVE  Val(i, s) = p[<<c[s], i[s \ {c[s]}]>>]
  <2> DEFINE r == s \ {c[s]}
  <2>1. Val(i, s) = Plus(i[r], f(c[s])) /\ c[s] \in S /\ i[r] \in Fraction
    BY <1>1, <1>7, <1>9
  <2> HIDE DEF r
  <2>2. Val(i, s) = p[<<c[s], i[r]>>]
    BY <1>4, <2>1
  <2> QED BY <2>2 DEF r
<1>10. Eq(it)
  <2>1. ASSUME NEW s \in SUBSET S PROVE it[s] = Val(it, s)
    <3>1. CASE s = {}
      BY <1>6, <1>8, <3>1 DEF IsFold
    <3>2. CASE s # {}
      <4>1. s \ {c[s]} \in SUBSET S
        OBVIOUS
      <4>2. it[s \ {c[s]}] \in Fraction
        BY <4>1
      <4> QED BY <1>6, <1>9, <3>2, <4>2, Zenon DEF IsFold
    <3> QED BY <3>1, <3>2
  <2> QED BY <2>1
<1>11. Eq(h)
  BY <1>10
<1> HIDE DEF h
<1>12. \A s \in SUBSET S : h[s] = Val(h, s)
  BY <1>11
<1>13. h[{}] = Zero
  BY <1>8, <1>12
<1>14. \A s \in SUBSET S : s # {} /\ h[s \ {c[s]}] \in Fraction => h[s] = p[<<c[s], h[s \ {c[s]}]>>]
  BY <1>9, <1>12, Zenon
<1>15. IsFold(h, S, Zero, c, p) /\ \A s \in SUBSET S : h[s] \in Fraction
  <2>1. FoldLaw(h, S, Fraction, Zero, c, p)
    BY <1>1, <1>4, <1>5, <1>13, <1>14 DEF FoldLaw
  <2> QED BY <1>1, <2>1, FoldTyped
<1>16. h \in [SUBSET S -> Fraction]
  BY <1>11, <1>12, <1>15
<1> QED BY <1>3, <1>15, <1>16 DEF c, p, S, TotalIsFold

\* The sum of one more share.
LEMMA TotalAppend ==
    ASSUME NEW list \in Seq(Node), NEW s \in Node, NEW share, NEW n,
           \A k \in DOMAIN list : share[list[k]][n] \in Fraction, share[s][n] \in Fraction
    PROVE  /\ Total(list, share, n) \in Fraction
           /\ list = <<>> => Total(list, share, n) = Zero
           /\ Total(Append(list, s), share, n) = Plus(Total(list, share, n), share[s][n])
<1> DEFINE m == Len(list)
           D == 1 .. m
           E == 1 .. (m + 1)
           long == Append(list, s)
           p1 == AddShare(long, share, n)
           p2 == AddShare(list, share, n)
           c1 == Highest(E)
           c2 == Highest(D)
<1>1. /\ m \in Nat /\ long \in Seq(Node) /\ Len(long) = m + 1 /\ DOMAIN list = D /\ DOMAIN long = E
      /\ long[m + 1] = s /\ \A k \in D : k \in E /\ long[k] = list[k]
  OBVIOUS
<1>2. \A k \in DOMAIN long : share[long[k]][n] \in Fraction
  <2> SUFFICES ASSUME NEW k \in E PROVE share[long[k]][n] \in Fraction
    BY <1>1
  <2>1. k \in D \/ k = m + 1
    BY <1>1
  <2> QED BY <1>1, <2>1
<1>3. PICK i \in [SUBSET E -> Fraction] : IsFold(i, E, Zero, c1, p1) /\ Total(long, share, n) = i[E]
  <2>1. TotalIsFold(long, share, n, 1 .. Len(long))
    <3> HIDE DEF long
    <3> QED BY <1>1, <1>2, TotalFold
  <2> QED BY <1>1, <2>1 DEF TotalIsFold
<1>4. PICK j \in [SUBSET D -> Fraction] : IsFold(j, D, Zero, c2, p2) /\ Total(list, share, n) = j[D]
  BY TotalFold DEF TotalIsFold
<1>5. /\ IsFiniteSet(D) /\ \A r \in SUBSET D : r # {} => c2[r] = Max(r) /\ Max(r) \in r
      /\ \A r \in SUBSET E : r # {} => c1[r] = Max(r) /\ Max(r) \in r
      /\ Max(E) = m + 1
  <2>1. m \in Nat /\ m + 1 \in Nat
    BY <1>1
  <2> QED BY <2>1, Highests
<1>6. E \ {m + 1} = D /\ D \in SUBSET E /\ D \in SUBSET D /\ E \in SUBSET E /\ E # {} /\ m + 1 \in E
  BY <1>1
<1>7. \A k \in D : \A v \in Fraction : p1[<<k, v>>] = p2[<<k, v>>]
  <2> SUFFICES ASSUME NEW k \in D, NEW v \in Fraction PROVE p1[<<k, v>>] = p2[<<k, v>>]
    OBVIOUS
  <2>1. k \in 1 .. Len(long) /\ long[k] = list[k]
    BY <1>1
  <2> HIDE DEF long
  <2> QED BY <2>1 DEF AddShare
<1>8. \A v \in Fraction : p1[<<m + 1, v>>] = Plus(v, share[s][n])
  <2>1. m + 1 \in 1 .. Len(long)
    BY <1>1
  <2> HIDE DEF long
  <2> QED BY <1>1, <2>1 DEF AddShare
<1> HIDE DEF m, D, E, long, p1, p2, c1, c2
<1>9. i[D] = j[D]
  <2>1. Alike(D, Fraction, Zero, i, E, c1, p1, j, D, c2, p2)
    BY <1>3, <1>4, <1>5, <1>6, <1>7 DEF Alike
  <2> QED BY <1>5, <2>1, FoldAgree
<1>10. i[E] = p1[<<c1[E], i[E \ {c1[E]}]>>]
  BY <1>3, <1>6, Zenon DEF IsFold
<1>11. c1[E] = m + 1
  BY <1>5, <1>6
<1>12. i[E] = p1[<<m + 1, i[D]>>]
  BY <1>6, <1>10, <1>11
<1>13. j[D] \in Fraction
  BY <1>6
<1>14. i[E] = Plus(j[D], share[s][n])
  BY <1>8, <1>9, <1>12, <1>13
<1>15. list = <<>> => j[D] = Zero
  <2> SUFFICES ASSUME list = <<>> PROVE j[D] = Zero
    OBVIOUS
  <2>1. D = {}
    BY DEF D, m
  <2> QED BY <1>4, <1>6, <2>1, Zenon DEF IsFold
<1> QED BY <1>3, <1>4, <1>13, <1>14, <1>15 DEF long

-----------------------------------------------------------------------------
\* What the verifier computes.

\* The verifier computes them so.
LEMMA SameDeltas == \A s : Deltas(s) = DeltasIn(g, s)
BY DEF Deltas, DeltasIn, PathCounts

\* The neighbours depend on the graph alone.
LEMMA SameSource ==
    ASSUME UNCHANGED g
    PROVE  /\ \A s, v : Parents(s, v)' = Parents(s, v) /\ Children(s, v)' = Children(s, v)
           /\ \A s, count : CountsPaths(s, count)' <=> CountsPaths(s, count)
<1>1. \A s : Depth(g, s)' = Depth(g, s)
  OBVIOUS
<1>2. \A s, v : Parents(s, v)' = Parents(s, v) /\ Children(s, v)' = Children(s, v)
  BY <1>1 DEF Parents, Children, in_neigh, out_neigh
<1> QED BY <1>2 DEF CountsPaths

\* Parents are one level closer to s, children one level farther.
LEMMA Neighbours ==
    ASSUME NEW s \in Node, NEW v \in Node
    PROVE  /\ IsFiniteSet(Parents(s, v)) /\ Parents(s, v) \subseteq Node
           /\ IsFiniteSet(Children(s, v)) /\ Children(s, v) \subseteq Node
           /\ \A x \in Parents(s, v) : /\ Depth(g, s)[x] \in Nat
                                       /\ Depth(g, s)[v] = Depth(g, s)[x] + 1
           /\ \A x \in Children(s, v) : /\ Depth(g, s)[x] \in Nat
                                        /\ Depth(g, s)[x] = Depth(g, s)[v] + 1
           /\ Depth(g, s)[v] \in Int /\ Depth(g, s)[v] >= -1 /\ Depth(g, s)[v] <= NumNodes
           /\ Depth(g, s)[v] < 0 => Parents(s, v) = {} /\ Children(s, v) = {}
<1>1. Depth(g, s) \in [Node -> Unreached .. NumNodes]
  BY DepthFacts
<1>2. Parents(s, v) \in SUBSET Node /\ Children(s, v) \in SUBSET Node
  BY DEF Parents, Children, in_neigh, out_neigh
<1>3. IsFiniteSet(Parents(s, v)) /\ IsFiniteSet(Children(s, v))
  BY <1>2, NodeFinite, FS_Subset
<1>4. \A x \in Node : Depth(g, s)[x] \in Int /\ Depth(g, s)[x] >= -1 /\ Depth(g, s)[x] <= NumNodes
  BY <1>1, NumNodesAssumption DEF Unreached
<1>5. \A x \in Parents(s, v) : Depth(g, s)[x] \in Nat /\ Depth(g, s)[v] = Depth(g, s)[x] + 1
  BY <1>2, <1>4 DEF Parents
<1>6. \A x \in Children(s, v) : Depth(g, s)[x] \in Nat /\ Depth(g, s)[x] = Depth(g, s)[v] + 1
  BY <1>2, <1>4 DEF Children
<1>7. Depth(g, s)[v] < 0 => Parents(s, v) = {} /\ Children(s, v) = {}
  <2> SUFFICES ASSUME Depth(g, s)[v] < 0 PROVE Parents(s, v) = {} /\ Children(s, v) = {}
    OBVIOUS
  <2>1. ASSUME NEW x \in Parents(s, v) PROVE FALSE
    BY <1>4, <1>5
  <2>2. ASSUME NEW x \in Children(s, v) PROVE FALSE
    BY <1>4 DEF Children
  <2> QED BY <2>1, <2>2
<1> QED BY <1>2, <1>3, <1>4, <1>5, <1>6, <1>7

\* Only one function satisfies the recursion.
LEMMA CountsUnique ==
    ASSUME NEW s \in Node, NEW count \in [Node -> Nat], CountsPaths(s, count),
           NEW h, CountsPaths(s, h)
    PROVE  \A v \in Node : h[v] = count[v]
<1> DEFINE D == Depth(g, s)
           M == {n \in Nat : \A v \in Node : D[v] < n => h[v] = count[v]}
<1>1. \A v \in Node : D[v] \in Int /\ D[v] >= -1 /\ D[v] <= NumNodes
  BY Neighbours
<1>2. ASSUME NEW n \in Nat, n = 0 \/ n - 1 \in M PROVE n \in M
  <2> SUFFICES ASSUME NEW v \in Node, D[v] < n PROVE h[v] = count[v]
    OBVIOUS
  <2> DEFINE S == Parents(s, v)
  <2>1. IsFiniteSet(S) /\ S \subseteq Node
    BY Neighbours
  <2>2. \A x \in S : h[x] = count[x] /\ count[x] \in Nat
    <3> SUFFICES ASSUME NEW x \in S PROVE h[x] = count[x] /\ count[x] \in Nat
      OBVIOUS
    <3>1. x \in Node /\ D[x] \in Nat /\ D[v] = D[x] + 1
      BY Neighbours
    <3>2. n # 0 /\ D[x] < n - 1
      BY <3>1
    <3> QED BY <1>2, <3>1, <3>2
  <2> HIDE DEF S
  <2>3. Sum(h, S) = Sum(count, S)
    BY <2>1, <2>2, SumSame
  <2>4. /\ h[v] = IF v = s THEN 1 ELSE Sum(h, S)
        /\ count[v] = IF v = s THEN 1 ELSE Sum(count, S)
    BY DEF S, CountsPaths
  <2> QED BY <2>3, <2>4
<1> HIDE DEF M
<1>3. Nat \subseteq M
  <2>1. 0 \in M
    BY <1>2
  <2>2. \A n \in Nat : n \in M => n + 1 \in M
    <3> SUFFICES ASSUME NEW n \in Nat, n \in M PROVE n + 1 \in M
      OBVIOUS
    <3>1. n + 1 \in Nat /\ (n + 1) - 1 = n
      OBVIOUS
    <3> QED BY <1>2, <3>1
  <2> QED BY <2>1, <2>2, NatInduct
<1>4. NumNodes + 1 \in M
  BY <1>3, NumNodesAssumption
<1> QED BY <1>1, <1>4, NumNodesAssumption DEF M

\* So what satisfies the recursion is PathCounts.
LEMMA PathCountsAre ==
    ASSUME NEW s \in Node, NEW count \in [Node -> Nat], CountsPaths(s, count)
    PROVE  PathCounts(s) = count
<1> DEFINE Eq(h) == h = [v \in Node |-> IF v = s THEN 1 ELSE Sum(h, Parents(s, v))]
           h == CHOOSE h : Eq(h)
<1>1. PathCounts(s) = h
  BY DEF PathCounts, Sum, Parents
<1>2. Eq(count)
  BY DEF CountsPaths
<1>3. Eq(h)
  BY <1>2
<1> HIDE DEF h
<1>4. CountsPaths(s, h)
  BY <1>3 DEF CountsPaths
<1>5. \A v \in Node : h[v] = count[v]
  BY <1>4, CountsUnique
<1> QED BY <1>1, <1>3, <1>5

\* Every vertex that can be reached has a path.
LEMMA PathsExist ==
    ASSUME NEW s \in Node, NEW count \in [Node -> Nat], CountsPaths(s, count)
    PROVE  \A v \in Node : Depth(g, s)[v] >= 0 => count[v] > 0
<1> DEFINE D == Depth(g, s)
           M == {n \in Nat : \A v \in Node : D[v] >= 0 /\ D[v] < n => count[v] > 0}
<1>1. \A v \in Node : D[v] \in Int /\ D[v] >= -1 /\ D[v] <= NumNodes
  BY Neighbours
<1>2. 0 \in M
  BY <1>1
<1>3. ASSUME NEW n \in Nat, n \in M PROVE n + 1 \in M
  <2> SUFFICES ASSUME NEW v \in Node, D[v] >= 0, D[v] < n + 1 PROVE count[v] > 0
    OBVIOUS
  <2>1. CASE v = s
    BY <2>1 DEF CountsPaths
  <2>2. CASE v # s
    <3>1. D[v] > 0
      BY <1>1, <2>2, DepthFacts
    <3>2. PICK x \in in_neigh(g, v) : D[x] = D[v] - 1
      BY <3>1, DepthFacts
    <3>3. x \in Node /\ D[x] >= 0 /\ D[x] < n /\ D[v] = D[x] + 1
      BY <1>1, <3>1, <3>2 DEF in_neigh
    <3>4. x \in Parents(s, v) /\ count[x] > 0
      BY <1>3, <3>2, <3>3 DEF Parents
    <3>5. IsFiniteSet(Parents(s, v)) /\ \A z \in Parents(s, v) : count[z] \in Nat
      BY Neighbours
    <3>6. Sum(count, Parents(s, v)) >= count[x] /\ Sum(count, Parents(s, v)) \in Nat
      BY <3>4, <3>5, SumAtLeast, SumPick
    <3>7. count[v] = Sum(count, Parents(s, v)) /\ count[x] \in Nat
      BY <2>2, <3>3 DEF CountsPaths
    <3> QED BY <3>4, <3>6, <3>7
  <2> QED BY <2>1, <2>2
<1> HIDE DEF M
<1>4. NumNodes + 1 \in M
  BY <1>2, <1>3, NatInduct, NumNodesAssumption
<1> QED BY <1>1, <1>4, NumNodesAssumption DEF M

\* The same for the dependencies, from the farthest vertices inwards.
LEMMA DeltasAre ==
    ASSUME NEW s \in Node, NEW count \in [Node -> Nat], CountsPaths(s, count),
           NEW delta \in [Node -> Fraction], SumsDependencies(s, count, delta)
    PROVE  DeltasIn(g, s) = delta
<1> DEFINE Eq(h) == h = [u \in Node |-> Dependency(count, h, u, Children(s, u))]
           h == CHOOSE h : Eq(h)
           D == Depth(g, s)
           M == {n \in Nat : \A u \in Node : D[u] + n > NumNodes => h[u] = delta[u]}
<1>1. DeltasIn(g, s) = h
  <2>1. PathCounts(s) = count
    BY PathCountsAre
  <2>2. Deltas(s) = h
    BY <2>1 DEF Deltas, Children
  <2> QED BY <2>2, SameDeltas
<1>2. Eq(delta)
  BY DEF SumsDependencies
<1>3. Eq(h)
  BY <1>2
<1> HIDE DEF h
<1>4. \A u \in Node : D[u] \in Int /\ D[u] >= -1 /\ D[u] <= NumNodes
  BY Neighbours
<1>5. 0 \in M
  BY <1>4, NumNodesAssumption
<1>6. ASSUME NEW n \in Nat, n \in M PROVE n + 1 \in M
  <2> SUFFICES ASSUME NEW u \in Node, D[u] + (n + 1) > NumNodes PROVE h[u] = delta[u]
    OBVIOUS
  <2> DEFINE S == Children(s, u)
  <2>1. IsFiniteSet(S)
    BY Neighbours
  <2>2. \A x \in S : x \in Node /\ D[x] = D[u] + 1 /\ D[x] >= 0
    BY Neighbours
  <2>3. \A x \in S : h[x] = delta[x]
    BY <1>4, <1>6, <2>2, NumNodesAssumption
  <2>4. Sound(count, delta, u, S)
    <3>1. \A x \in S : count[x] \in Nat /\ count[x] > 0
      BY <2>2, PathsExist
    <3> QED BY <2>2, <3>1 DEF Sound
  <2> HIDE DEF S
  <2>5. Dependency(count, h, u, S) = Dependency(count, delta, u, S)
    BY <2>1, <2>3, <2>4, DependencySame
  <2>6. h[u] = Dependency(count, h, u, S)
    BY <1>3 DEF S
  <2>7. delta[u] = Dependency(count, delta, u, S)
    BY DEF S, SumsDependencies
  <2> QED BY <2>5, <2>6, <2>7
<1> HIDE DEF M
<1>7. NumNodes + 2 \in M
  BY <1>5, <1>6, NatInduct, NumNodesAssumption
<1>8. \A u \in Node : h[u] = delta[u]
  BY <1>4, <1>7, NumNodesAssumption DEF M
<1> QED BY <1>1, <1>3, <1>8

-----------------------------------------------------------------------------
\* The queue.  It is an instance of SlidingQueue, so what is proved of that
\* module holds of it, once its assumptions are met.

\* One slot per vertex: the queue of line 104 meets SlidingQueue's assumptions.
LEMMA QueueAssumptions ==
    /\ -1 \notin Node /\ LocalSize \in Nat \ {0} /\ NumNodes \in Nat
    /\ QP!IsFiniteSet(Node) /\ QP!Cardinality(Node) <= NumNodes
<1>1. QP!IsFiniteSet(Node)
  BY NodeFinite DEF QP!IsFiniteSet, IsFiniteSet
<1>2. QP!Cardinality(Node) = Cardinality(Node)
  BY Zenon DEF QP!Cardinality, Cardinality
<1> QED BY <1>1, <1>2, NodeFinite, LocalSizeAssumption, NumNodesAssumption DEF Node

\* The kernel and the theorems speak of the same queue.
LEMMA SameQueue ==
    /\ Q!Quiescent <=> QP!Quiescent
    /\ Q!WindowSlots = QP!WindowSlots /\ Q!Window = QP!Window
    /\ Q!size = QP!size /\ (Q!empty <=> QP!empty)
    /\ Q!QInit <=> QP!QInit
    /\ Q!slide_window <=> QP!slide_window
    /\ Q!qvars = QP!qvars
    /\ Q!Pushed = QP!Pushed
<1>1. \A t \in Thread : /\ Q!Copying(t) <=> QP!Copying(t)
                        /\ Q!Claimed(t) = QP!Claimed(t)
                        /\ Q!Buffered(t) = QP!Buffered(t)
  BY DEF Q!Copying, QP!Copying, Q!NoCopy, QP!NoCopy, Q!Claimed, QP!Claimed,
         Q!Buffered, QP!Buffered
<1>2. Q!Quiescent <=> QP!Quiescent
  BY <1>1 DEF Q!Quiescent, QP!Quiescent
<1>3. Q!Pushed = QP!Pushed
  <2>1. Q!Filled = QP!Filled
    BY <1>1 DEF Q!Filled, QP!Filled
  <2>2. UNION {Q!Buffered(t) : t \in Thread} = UNION {QP!Buffered(t) : t \in Thread}
    BY <1>1
  <2> QED BY <2>1, <2>2 DEF Q!Pushed, QP!Pushed
<1> QED BY <1>2, <1>3
        DEF Q!WindowSlots, QP!WindowSlots, Q!Window, QP!Window, Q!size, QP!size,
            Q!empty, QP!empty, Q!QInit, QP!QInit, Q!NoCopy, QP!NoCopy,
            Q!slide_window, QP!slide_window, Q!qvars, QP!qvars

\* The same for the operations of a thread.
LEMMA SameOperations ==
    /\ \A t \in Thread : /\ \A e \in Node : Q!LocalPush(t, e) <=> QP!LocalPush(t, e)
                         /\ Q!Claim(t) <=> QP!Claim(t)
                         /\ Q!CopyOut(t) <=> QP!CopyOut(t)
    /\ \A e \in Node : Q!SerialPush(e) <=> QP!SerialPush(e)
    /\ Q!reset <=> QP!reset
BY DEF Q!Copying, QP!Copying, Q!NoCopy, QP!NoCopy, Q!Claimed, QP!Claimed,
       Q!LocalPush, QP!LocalPush, Q!Claim, QP!Claim, Q!CopyOut, QP!CopyOut,
       Q!SerialPush, QP!SerialPush, Q!reset, QP!reset

\* What an iteration over the window finds.
LEMMA QueueReads ==
    ASSUME QP!IInv
    PROVE  /\ Q!Window = QP!Window /\ Q!Pushed = QP!Pushed
           /\ \A i \in Q!WindowSlots : shared[i] \in QP!Window
           /\ \A v \in QP!Window : \E i \in Q!WindowSlots : shared[i] = v
           /\ QP!Window \subseteq QP!Pushed /\ QP!Hidden \subseteq QP!Pushed
           /\ QP!Pushed \subseteq Node
           /\ Q!size \in Nat /\ Q!size = Cardinality(QP!Window)
           /\ Q!empty <=> QP!Window = {}
           /\ Q!WindowSlots \subseteq Node
<1>1. QP!Cardinality(QP!Window) = Cardinality(QP!Window)
  BY Zenon DEF QP!Cardinality, Cardinality
<1>2. /\ \A i \in QP!WindowSlots : shared[i] \in Node
      /\ QP!Window \subseteq QP!Pushed /\ QP!Hidden \subseteq QP!Pushed
      /\ QP!Pushed \subseteq Node
      /\ QP!size \in Nat /\ QP!size = Cardinality(QP!Window)
      /\ QP!empty <=> QP!Window = {}
  BY <1>1, QueueAssumptions, QP!WindowHeld
<1>3. QP!WindowSlots \subseteq Node
  BY NumNodesAssumption DEF QP!WindowSlots, QP!IInv, QP!TypeOK, Node
<1>4. \A i \in QP!WindowSlots : shared[i] \in QP!Window
  BY DEF QP!Window
<1>5. \A v \in QP!Window : \E i \in QP!WindowSlots : shared[i] = v
  BY DEF QP!Window
<1> QED BY <1>2, <1>3, <1>4, <1>5, SameQueue

\* The window is not moved and its slots are not written.
WindowKept ==
    /\ QP!Window' = QP!Window /\ Q!WindowSlots' = Q!WindowSlots
    /\ \A i \in Q!WindowSlots : shared'[i] = shared[i]

\* A step of the queue's protocol.
QueueStep == [Q!Next]_(Q!qvars)

\* Every step of the protocol keeps the queue's invariant.
LEMMA QueueStepKeeps ==
    ASSUME QP!IInv, QueueStep
    PROVE  /\ QP!IInv'
           /\ \A i \in 0 .. (shared_out_end - 1) : shared'[i] = shared[i]
<1>1. [QP!Next]_(QP!qvars)
  <2>1. CASE Q!Next
    <3>1. QP!Next
      BY <2>1, SameQueue, SameOperations
      DEF Q!Next, QP!Next, Q!Fresh, QP!Fresh, Q!reset, QP!reset
    <3> QED BY <3>1
  <2>2. CASE UNCHANGED Q!qvars
    BY <2>2 DEF Q!qvars, QP!qvars
  <2> QED BY <2>1, <2>2 DEF QueueStep
<1>2. QP!IInv'
  BY <1>1, QueueAssumptions, QP!StepIInv
<1>3. \A i \in 0 .. (shared_out_end - 1) : shared'[i] = shared[i]
  BY <1>1, QueueAssumptions, QP!StableStep
<1> QED BY <1>2, <1>3

\* Hence a step that leaves the bounds of the window leaves the window.
LEMMA KeepsWindow ==
    ASSUME QP!IInv, QueueStep,
           shared_out_start' = shared_out_start, shared_out_end' = shared_out_end
    PROVE  WindowKept
<1>1. Q!WindowSlots' = Q!WindowSlots
  BY DEF Q!WindowSlots
<1>2. Q!WindowSlots \subseteq 0 .. (shared_out_end - 1)
  BY NumNodesAssumption DEF Q!WindowSlots, QP!IInv, QP!TypeOK
<1>3. \A i \in Q!WindowSlots : shared'[i] = shared[i]
  BY <1>2, QueueStepKeeps
<1>4. QP!Window' = QP!Window
  BY <1>1, <1>3, SameQueue DEF Q!WindowSlots, QP!WindowSlots, QP!Window
<1> QED BY <1>1, <1>3, <1>4 DEF WindowKept

\* The push of a vertex that was never queued.
LEMMA PushEffect ==
    ASSUME QP!IInv, NEW t \in Thread, NEW e \in Node, e \notin QP!Pushed, Q!LocalPush(t, e)
    PROVE  /\ QueueStep /\ QP!IInv' /\ WindowKept
           /\ QP!Hidden' = QP!Hidden \cup {e} /\ QP!Pushed' = QP!Pushed \cup {e}
<1>1. QP!LocalPush(t, e) /\ QP!Fresh(e)
  BY SameOperations DEF QP!Fresh
<1>2. QueueStep
  <2>1. Q!Fresh(e)
    BY SameQueue DEF Q!Fresh
  <2> QED BY <2>1 DEF QueueStep, Q!Next
<1>3. QP!Hidden' = QP!Hidden \cup {e} /\ QP!Pushed' = QP!Pushed \cup {e}
  BY <1>1, QueueAssumptions, QP!PushIsAppend
<1>4. WindowKept
  BY <1>2, KeepsWindow DEF Q!LocalPush
<1> QED BY <1>2, <1>3, <1>4, QueueStepKeeps

\* The two halves of a flush, which no reader can tell from nothing.
LEMMA FlushEffect ==
    ASSUME QP!IInv, NEW t \in Thread, Q!Claim(t) \/ Q!CopyOut(t)
    PROVE  /\ QueueStep /\ QP!IInv' /\ WindowKept
           /\ QP!Hidden' = QP!Hidden /\ QP!Pushed' = QP!Pushed
<1>1. QueueStep
  BY DEF QueueStep, Q!Next
<1>2. WindowKept
  BY <1>1, KeepsWindow DEF Q!Claim, Q!CopyOut
<1>3. QP!Hidden' = QP!Hidden /\ QP!Pushed' = QP!Pushed
  <2>1. CASE Q!Claim(t)
    <3>1. QP!Claim(t)
      BY <2>1, SameOperations
    <3> QED BY <3>1, QueueAssumptions, QP!ClaimIsStutter
  <2>2. CASE Q!CopyOut(t)
    <3>1. QP!CopyOut(t)
      BY <2>2, SameOperations
    <3> QED BY <3>1, QueueAssumptions, QP!CopyIsStutter
  <2> QED BY <2>1, <2>2
<1> QED BY <1>1, <1>2, <1>3, QueueStepKeeps

\* A step that does not touch the queue.
LEMMA NoQueueEffect ==
    ASSUME QP!IInv, UNCHANGED qvars
    PROVE  /\ QueueStep /\ QP!IInv' /\ WindowKept
           /\ QP!Hidden' = QP!Hidden /\ QP!Pushed' = QP!Pushed
           /\ Q!Quiescent' <=> Q!Quiescent
<1>1. /\ shared' = shared /\ shared_in' = shared_in /\ shared_out_start' = shared_out_start
      /\ shared_out_end' = shared_out_end /\ local_queue' = local_queue
      /\ copy_start' = copy_start
  BY DEF qvars
<1>2. QueueStep
  BY <1>1 DEF QueueStep, Q!qvars
<1>3. WindowKept
  BY <1>1, <1>2, KeepsWindow
<1>4. QP!Filled' = QP!Filled /\ \A t \in Thread : QP!Buffered(t)' = QP!Buffered(t)
  BY <1>1 DEF QP!Filled, QP!Claimed, QP!Copying, QP!Buffered
<1>5. QP!Hidden' = QP!Hidden /\ QP!Pushed' = QP!Pushed
  BY <1>1, <1>4 DEF QP!Hidden, QP!Pushed
<1>6. Q!Quiescent' <=> Q!Quiescent
  BY <1>1 DEF Q!Quiescent, Q!Copying
<1> QED BY <1>2, <1>3, <1>5, <1>6, QueueStepKeeps

\* A slide between regions brings what was appended into the window.
LEMMA SlideEffect ==
    ASSUME QP!IInv, Q!Quiescent, Q!slide_window
    PROVE  /\ QueueStep /\ QP!IInv' /\ Q!Quiescent'
           /\ QP!Window' = QP!Hidden /\ QP!Hidden' = {} /\ QP!Pushed' = QP!Pushed
<1>1. QueueStep
  BY DEF QueueStep, Q!Next
<1>2. QP!Quiescent /\ QP!slide_window
  BY SameQueue
<1>3. QP!Window' = QP!Hidden /\ QP!Hidden' = {} /\ QP!Pushed' = QP!Pushed
  BY <1>2, QueueAssumptions, QP!SlideIsSlide
<1>4. Q!Quiescent'
  BY DEF Q!slide_window, Q!Quiescent, Q!Copying
<1> QED BY <1>1, <1>3, <1>4, QueueStepKeeps

\* The push_back of the source.
LEMMA SerialPushEffect ==
    ASSUME QP!IInv, Q!Quiescent, NEW e \in Node, e \notin QP!Pushed, Q!SerialPush(e)
    PROVE  /\ QueueStep /\ QP!IInv' /\ Q!Quiescent'
           /\ QP!Window' = QP!Window
           /\ QP!Hidden' = QP!Hidden \cup {e} /\ QP!Pushed' = QP!Pushed \cup {e}
<1>1. QueueStep
  <2>1. Q!Fresh(e)
    BY SameQueue DEF Q!Fresh
  <2> QED BY <2>1 DEF QueueStep, Q!Next
<1>2. QP!Quiescent /\ QP!SerialPush(e) /\ QP!Fresh(e)
  BY SameQueue, SameOperations DEF QP!Fresh
<1>3. /\ QP!Window' = QP!Window
      /\ QP!Hidden' = QP!Hidden \cup {e} /\ QP!Pushed' = QP!Pushed \cup {e}
  BY <1>2, QueueAssumptions, QP!SerialPushIsAppend
<1>4. Q!Quiescent'
  BY DEF Q!SerialPush, Q!Quiescent, Q!Copying
<1> QED BY <1>1, <1>3, <1>4, QueueStepKeeps

\* A reset between two searches.
LEMMA ResetEffect ==
    ASSUME QP!IInv, Q!Quiescent, Q!reset
    PROVE  /\ QueueStep /\ QP!IInv' /\ Q!Quiescent'
           /\ QP!Window' = {} /\ QP!Hidden' = {} /\ QP!Pushed' = {}
<1>1. QueueStep
  BY DEF QueueStep, Q!Next
<1>2. QP!Quiescent /\ QP!reset
  BY SameQueue, SameOperations
<1>3. QP!Window' = {} /\ QP!Hidden' = {} /\ QP!Pushed' = {}
  BY <1>2, QueueAssumptions, QP!ResetIsClear
<1>4. Q!Quiescent'
  BY DEF Q!reset, Q!Quiescent, Q!Copying
<1> QED BY <1>1, <1>3, <1>4, QueueStepKeeps

\* When all buffers have been flushed, each slot below shared_in holds a vertex
\* of its own.
LEMMA PushedCount ==
    ASSUME QP!IInv, Q!Quiescent
    PROVE  /\ QP!Pushed = {shared[i] : i \in 0 .. (shared_in - 1)}
           /\ shared_in = Cardinality(QP!Pushed)
           /\ \A i \in 0 .. (shared_in - 1) : shared[i] \in Node
           /\ shared_in \in 0 .. NumNodes
<1> DEFINE S == 0 .. (shared_in - 1)
           f == [i \in S |-> shared[i]]
<1>1. QP!Quiescent
  BY SameQueue
<1>2. QP!Pushed = {shared[i] : i \in S}
  BY <1>1, QueueAssumptions, QP!QuiescentPushed
<1>3. shared_in \in 0 .. NumNodes
  BY DEF QP!IInv, QP!TypeOK
<1>4. QP!Filled = S
  BY <1>1 DEF QP!Filled, QP!Claimed, QP!Quiescent
<1>5. \A i \in S : shared[i] \in Node /\ \A j \in S : shared[i] = shared[j] => i = j
  BY <1>4 DEF QP!IInv, QP!HeldOnce
<1>6. f \in Bijection(S, QP!Pushed)
  <2>1. f \in [S -> QP!Pushed]
    BY <1>2
  <2>2. \A i, j \in S : f[i] = f[j] => i = j
    BY <1>5
  <2>3. \A v \in QP!Pushed : \E i \in S : f[i] = v
    BY <1>2
  <2> QED BY <2>1, <2>2, <2>3 DEF Bijection, Injection, Surjection, IsInjective
<1>7. IsFiniteSet(S) /\ Cardinality(S) = shared_in
  BY <1>3, FS_Interval, NumNodesAssumption
<1>8. Cardinality(QP!Pushed) = shared_in
  <2>1. ExistsBijection(S, QP!Pushed)
    BY <1>6 DEF ExistsBijection
  <2> QED BY <1>7, <2>1, FS_Bijection, Zenon
<1> QED BY <1>2, <1>3, <1>5, <1>8

-----------------------------------------------------------------------------
\* Levels and edges.

\* How the levels lie: an edge leads at most one level on, and every vertex
\* below the first level is reached from the level above its own.
LEMMA LevelFacts ==
    ASSUME source \in Node, NEW k \in Nat
    PROVE  /\ \A v \in Node : Dep[v] \in Int /\ Dep[v] >= -1 /\ Dep[v] <= NumNodes
           /\ UpTo(k + 1) = UpTo(k) \cup Level(k + 1)
           /\ UpTo(k) \cap Level(k + 1) = {}
           /\ Level(k) \subseteq UpTo(k) /\ UpTo(k) \subseteq Node /\ Level(k + 1) \subseteq Node
           /\ \A x \in UpTo(k) : out_neigh(g, x) \subseteq UpTo(k + 1)
           /\ \A v \in Level(k + 1) : \E x \in Level(k) : v \in out_neigh(g, x)
           /\ Level(k) # {} => k <= NumNodes
           /\ \A v \in Level(k + 1) : Dep[v] = k + 1 /\ v # source
           /\ \A x \in Level(k) : x \in Node /\ Dep[x] = k
<1>1. /\ \A v \in Node : Dep[v] \in Int /\ Dep[v] >= -1 /\ Dep[v] <= NumNodes
      /\ \A v \in Node : Dep[v] = 0 <=> v = source
      /\ \A x \in Node : \A y \in out_neigh(g, x) : Dep[x] # Unreached => Dep[y] \in 0 .. (Dep[x] + 1)
      /\ \A v \in Node : Dep[v] > 0 => \E x \in in_neigh(g, v) : Dep[x] = Dep[v] - 1
  BY DepthFacts, Neighbours DEF Dep
<1>2. \A n : Level(n) = {v \in Node : Dep[v] = n}
  BY DEF Level, Dep
<1> HIDE DEF Dep
<1>3. UpTo(k + 1) = UpTo(k) \cup Level(k + 1)
  BY <1>1, <1>2 DEF UpTo
<1>4. UpTo(k) \cap Level(k + 1) = {} /\ Level(k) \subseteq UpTo(k)
  BY <1>1, <1>2 DEF UpTo
<1>5. ASSUME NEW x \in UpTo(k) PROVE out_neigh(g, x) \subseteq UpTo(k + 1)
  <2>1. x \in Node /\ Dep[x] \in 0 .. k /\ Dep[x] # Unreached
    BY DEF UpTo, Unreached
  <2>2. \A y \in out_neigh(g, x) : Dep[y] \in 0 .. (Dep[x] + 1) /\ y \in Node
    BY <1>1, <2>1 DEF out_neigh
  <2> QED BY <1>1, <2>1, <2>2 DEF UpTo
<1>6. ASSUME NEW v \in Level(k + 1) PROVE \E x \in Level(k) : v \in out_neigh(g, x)
  <2>1. v \in Node /\ Dep[v] = k + 1
    BY <1>2
  <2>2. PICK x \in in_neigh(g, v) : Dep[x] = Dep[v] - 1
    BY <1>1, <2>1
  <2> QED BY <1>2, <2>1, <2>2 DEF in_neigh, out_neigh
<1>7. Level(k) # {} => k <= NumNodes
  BY <1>1, <1>2
<1>8. \A v \in Level(k + 1) : Dep[v] = k + 1 /\ v # source
  BY <1>1, <1>2
<1> QED BY <1>1, <1>2, <1>3, <1>4, <1>5, <1>6, <1>7, <1>8 DEF UpTo

\* The source is alone in the first level.
LEMMA FirstLevel ==
    ASSUME source \in Node
    PROVE  Level(0) = {source} /\ UpTo(0) = {source} /\ Dep[source] = 0
<1>1. \A v \in Node : Dep[v] = 0 <=> v = source
  BY DepthFacts DEF Dep
<1>2. Level(0) = {v \in Node : Dep[v] = 0}
  BY DEF Level, Dep
<1> QED BY <1>1, <1>2 DEF UpTo

\* After an empty level there is nothing left to reach.
LEMMA LastLevel ==
    ASSUME source \in Node, NEW k \in Nat, Level(k) = {}
    PROVE  UpTo(k) = {v \in Node : Dep[v] # -1} /\ Level(k + 1) = {}
<1> DEFINE M == {n \in Nat : Level(k + n) = {}}
<1>1. 0 \in M
  OBVIOUS
<1>2. ASSUME NEW n \in Nat, n \in M PROVE n + 1 \in M
  <2>1. k + n \in Nat /\ k + (n + 1) = (k + n) + 1
    OBVIOUS
  <2>2. \A v \in Level((k + n) + 1) : \E x \in Level(k + n) : v \in out_neigh(g, x)
    BY <2>1, LevelFacts
  <2> QED BY <1>2, <2>1, <2>2
<1> HIDE DEF M
<1>3. Nat \subseteq M
  BY <1>1, <1>2, NatInduct
<1>4. \A v \in Node : Dep[v] \in Int /\ Dep[v] >= -1
  BY LevelFacts
<1>5. \A n : Level(n) = {v \in Node : Dep[v] = n}
  BY DEF Level, Dep
<1> HIDE DEF Dep
<1>6. ASSUME NEW v \in Node, Dep[v] > k PROVE FALSE
  <2>1. Dep[v] - k \in M
    BY <1>3, <1>4, <1>6
  <2>2. k + (Dep[v] - k) = Dep[v]
    BY <1>4
  <2> QED BY <1>5, <2>1, <2>2 DEF M
<1>7. Level(k + 1) = {}
  <2>1. 1 \in M
    BY <1>3
  <2> QED BY <2>1 DEF M
<1> QED BY <1>4, <1>6, <1>7 DEF UpTo

\* The edges and their places in the array of neighbours.
LEMMA EdgePlaces ==
    ASSUME IsGraph(g)
    PROVE  /\ IsFiniteSet(g.edges)
           /\ \A e \in g.edges : /\ e \in Node \X Node /\ e = <<e[1], e[2]>>
                                 /\ e[2] \in out_neigh(g, e[1])
                                 /\ EdgeIndex(e) \in 0 .. (Cardinality(g.edges) - 1)
           /\ \A x \in Node : \A y \in out_neigh(g, x) : y \in Node /\ <<x, y>> \in g.edges
           /\ \A e, f \in g.edges : EdgeIndex(e) = EdgeIndex(f) => e = f
<1> DEFINE E == g.edges
           Smaller(e) == {f \in E : f[1] < e[1] \/ (f[1] = e[1] /\ f[2] < e[2])}
<1>1. \A e \in E : e \in Node \X Node /\ e = <<e[1], e[2]>> /\ e[1] \in Nat /\ e[2] \in Nat
  BY NodeNat DEF IsGraph
<1>2. IsFiniteSet(E)
  <2>1. IsFiniteSet(Node \X Node)
    BY NodeFinite, FS_Product
  <2>2. E \subseteq Node \X Node
    BY <1>1
  <2> QED BY <2>1, <2>2, FS_Subset
<1>3. \A e : EdgeIndex(e) = Cardinality(Smaller(e))
  BY DEF EdgeIndex
<1>4. \A e : IsFiniteSet(Smaller(e)) /\ Cardinality(Smaller(e)) \in Nat
  <2> SUFFICES ASSUME NEW e PROVE IsFiniteSet(Smaller(e)) /\ Cardinality(Smaller(e)) \in Nat
    OBVIOUS
  <2>1. Smaller(e) \subseteq E
    OBVIOUS
  <2> HIDE DEF Smaller, E
  <2> QED BY <1>2, <2>1, FS_Subset, FS_CardinalityType
<1>5. ASSUME NEW e \in E, NEW f \in E, f[1] < e[1] \/ (f[1] = e[1] /\ f[2] < e[2])
      PROVE  Cardinality(Smaller(f)) < Cardinality(Smaller(e))
  <2>1. f \in Smaller(e) /\ f \notin Smaller(f)
    BY <1>1, <1>5
  <2>2. Smaller(f) \subseteq Smaller(e)
    BY <1>1, <1>5
  <2> HIDE DEF Smaller, E
  <2>3. Smaller(f) \subseteq Smaller(e) \ {f}
    BY <2>1, <2>2
  <2>4. IsFiniteSet(Smaller(e) \ {f}) /\ Cardinality(Smaller(e)) = Cardinality(Smaller(e) \ {f}) + 1
    BY <1>4, <2>1, CardMinus
  <2>5. Cardinality(Smaller(f)) <= Cardinality(Smaller(e) \ {f})
    BY <2>3, <2>4, FS_Subset
  <2> QED BY <1>4, <2>4, <2>5, FS_CardinalityType
<1>6. ASSUME NEW e \in E PROVE EdgeIndex(e) \in 0 .. (Cardinality(E) - 1)
  <2>1. Smaller(e) \subseteq E \ {e}
    BY <1>1
  <2> HIDE DEF Smaller, E
  <2>2. IsFiniteSet(E \ {e}) /\ Cardinality(E) = Cardinality(E \ {e}) + 1 /\ Cardinality(E \ {e}) \in Nat
    BY <1>2, CardMinus
  <2>3. Cardinality(Smaller(e)) <= Cardinality(E \ {e})
    BY <2>1, <2>2, FS_Subset
  <2> QED BY <1>3, <1>4, <2>2, <2>3
<1>7. ASSUME NEW e \in E, NEW f \in E, EdgeIndex(e) = EdgeIndex(f) PROVE e = f
  <2>1. Cardinality(Smaller(e)) = Cardinality(Smaller(f)) /\ Cardinality(Smaller(e)) \in Nat
    BY <1>3, <1>4, <1>7
  <2> HIDE DEF Smaller
  <2>2. ~(f[1] < e[1] \/ (f[1] = e[1] /\ f[2] < e[2]))
    BY <1>5, <2>1
  <2>3. ~(e[1] < f[1] \/ (e[1] = f[1] /\ e[2] < f[2]))
    BY <1>5, <2>1
  <2>4. e[1] = f[1] /\ e[2] = f[2]
    BY <1>1, <2>2, <2>3
  <2> QED BY <1>1, <2>4
<1>8. \A e \in E : e[2] \in out_neigh(g, e[1])
  BY <1>1 DEF out_neigh
<1>9. \A x \in Node : \A y \in out_neigh(g, x) : y \in Node /\ <<x, y>> \in E
  BY DEF out_neigh
<1> QED BY <1>1, <1>2, <1>6, <1>7, <1>8, <1>9

-----------------------------------------------------------------------------
\* What a step of a thread leaves alone.

StepOf(t) ==
    /\ UNCHANGED <<args, sums, phase>>
    /\ \A s \in Thread \ {t} :
          /\ local'[s] = local[s] /\ todo'[s] = todo[s]
          /\ local_queue'[s] = local_queue[s] /\ copy_start'[s] = copy_start[s]

\* The functions that EXCEPT needs.
LEMMA Registers ==
    ASSUME Types
    PROVE  /\ DOMAIN todo = Thread /\ DOMAIN local = Thread
           /\ DOMAIN local_queue = Thread /\ DOMAIN copy_start = Thread
           /\ DOMAIN depths = Node /\ DOMAIN path_counts = Node
           /\ \A t \in Thread :
                 /\ local[t] \in LocalType /\ todo[t] \subseteq Node
                 /\ local[t].pc \in Places /\ local[t].depth \in Nat /\ local[t].u \in Node
                 /\ local[t].nbrs \subseteq Node /\ local[t].word \subseteq Nat
                 /\ DOMAIN local[t] = {"pc", "depth", "u", "nbrs", "word"}
<1>1. QP!TypeOK
  BY DEF Types, QP!IInv
<1>2. \A t \in Thread : local[t] \in LocalType /\ todo[t] \subseteq Node
  BY DEF Types
<1>3. \A r \in LocalType : /\ r.pc \in Places /\ r.depth \in Nat /\ r.u \in Node
                           /\ r.nbrs \subseteq Node /\ r.word \subseteq Nat
                           /\ DOMAIN r = {"pc", "depth", "u", "nbrs", "word"}
  BY DEF LocalType
<1> QED BY <1>1, <1>2, <1>3 DEF Types, QP!TypeOK

\* Everything that belongs to the graph and the source.
LEMMA SameLevels ==
    ASSUME UNCHANGED <<g, sources>>
    PROVE  /\ source' = source /\ Dep' = Dep
           /\ \A k : Level(k)' = Level(k) /\ UpTo(k)' = UpTo(k) /\ TreeEdges(k)' = TreeEdges(k)
           /\ \A e : EdgeIndex(e)' = EdgeIndex(e)
           /\ \A x : out_neigh(g, x)' = out_neigh(g, x)
<1>1. source' = source
  BY DEF source
<1>2. Depth(g, source)' = Depth(g, source)
  BY <1>1
<1> QED BY <1>1, <1>2 DEF Dep, Level, UpTo, TreeEdges, EdgeIndex, out_neigh

\* A thread whose registers and slots stay has the edges it had.
LEMMA SameLeft ==
    ASSUME NEW s, UNCHANGED g, WindowKept, todo[s] \subseteq Q!WindowSlots,
           todo'[s] = todo[s], local'[s].u = local[s].u, local'[s].nbrs = local[s].nbrs
    PROVE  /\ Left(s)' = Left(s) /\ next_v(s)' = next_v(s) /\ InHand(s)' = InHand(s)
           /\ (local'[s].pc = "count") = (local[s].pc = "count") => Unmarked(s)' = Unmarked(s)
           /\ (local'[s].pc = "push") = (local[s].pc = "push") =>
                 \A v : Pushing(s, v)' <=> Pushing(s, v)
<1>1. next_v(s)' = next_v(s)
  BY DEF next_v
<1>2. InHand(s)' = InHand(s)
  BY <1>1 DEF InHand
<1>3. \A i \in todo[s] : shared'[i] = shared[i]
  BY DEF WindowKept
<1>4. Left(s)' = Left(s)
  BY <1>3 DEF Left
<1> QED BY <1>1, <1>2, <1>4 DEF Unmarked, Pushing

\* What was recorded of the levels above the window stays recorded.
LEMMA RecordedKeeps ==
    ASSUME QP!IInv, NEW k \in Nat, Recorded(k), UNCHANGED <<g, sources, depth_index, shared_out_start>>,
           \A i \in 0 .. (shared_out_end - 1) : shared'[i] = shared[i]
    PROVE  Recorded(k)'
<1> DEFINE ends == Append(depth_index, shared_out_start)
<1>1. shared_out_start \in Nat /\ shared_out_end \in Nat /\ shared_out_start <= shared_out_end
  BY NumNodesAssumption DEF QP!IInv, QP!TypeOK
<1>2. /\ depth_index \in Seq(Nat) /\ Len(depth_index) = k + 1 /\ ends[1] = 0 /\ ends[2] = 0
      /\ \A n \in 2 .. (k + 1) :
            /\ ends[n + 1] <= shared_out_start
            /\ {shared[i] : i \in ends[n] .. (ends[n + 1] - 1)} = Level(n - 2)
  BY DEF Recorded
<1>3. ends' = ends
  OBVIOUS
<1>4. ends \in Seq(Nat) /\ Len(ends) = k + 2
  BY <1>1, <1>2
<1> HIDE DEF ends
<1>5. ASSUME NEW n \in 2 .. (k + 1)
      PROVE  {shared'[i] : i \in ends[n] .. (ends[n + 1] - 1)} = Level(n - 2)'
  <2>1. ends[n] \in Nat /\ ends[n + 1] \in Nat /\ ends[n + 1] <= shared_out_start
    <3>1. n \in 1 .. Len(ends) /\ n + 1 \in 1 .. Len(ends)
      BY <1>4
    <3>2. ends[n] \in Nat /\ ends[n + 1] \in Nat
      BY <1>4, <3>1
    <3>3. ends[n + 1] <= shared_out_start
      BY <1>2
    <3> QED BY <3>2, <3>3
  <2>2. \A i \in ends[n] .. (ends[n + 1] - 1) : shared'[i] = shared[i]
    BY <1>1, <2>1
  <2>3. Level(n - 2)' = Level(n - 2)
    BY SameLevels
  <2>4. {shared[i] : i \in ends[n] .. (ends[n + 1] - 1)} = Level(n - 2)
    BY <1>2
  <2>5. {shared'[i] : i \in ends[n] .. (ends[n + 1] - 1)} = {shared[i] : i \in ends[n] .. (ends[n + 1] - 1)}
    BY <2>2
  <2> QED BY <2>3, <2>4, <2>5
<1> QED BY <1>2, <1>3, <1>5 DEF Recorded, ends

\* A step of thread t in level k, as the other threads see it.
Effect(t) ==
    /\ StepOf(t) /\ UNCHANGED depth_index
    /\ WindowKept /\ shared_out_start' = shared_out_start
    /\ \A i \in 0 .. (shared_out_end - 1) : shared'[i] = shared[i]
    /\ QP!Hidden \subseteq QP!Hidden'
    /\ QP!Pushed' \subseteq QP!Pushed \cup {v \in Node : Pushing(t, v)}
    /\ QP!Hidden' \subseteq QP!Hidden \cup {v \in Node : Pushing(t, v)}
    /\ Visited \subseteq Visited'
    /\ \A v \in Node : Pushing(t, v)' => Pushing(t, v) \/ v \notin Visited
    /\ \A v \in Visited' : v \notin Visited \/ Pushing(t, v) => Pushing(t, v)' \/ v \in QP!Hidden'
    /\ Left(t)' \subseteq Left(t)
    /\ \A e \in Left(t) \ Left(t)' : e[2] \in Visited'

\* Such a step leaves what WorkOK says of the others.
LEMMA WorkKeeps ==
    ASSUME Types, source \in Node, NEW k \in Nat, WorkOK(k), NEW t \in Thread, Effect(t),
           ThreadOK(k, t)', LevelOK(k)'
    PROVE  WorkOK(k)'
<1>1. /\ UNCHANGED <<g, sources>> /\ WindowKept /\ QP!IInv
      /\ \A s \in Thread \ {t} : local'[s] = local[s] /\ todo'[s] = todo[s]
                                 /\ local_queue'[s] = local_queue[s] /\ copy_start'[s] = copy_start[s]
  BY DEF Effect, StepOf, args, opts, Types
<1>2. \A n : Level(n)' = Level(n)
  BY <1>1, SameLevels
<1>3. /\ \A s \in Thread : ThreadOK(k, s)
      /\ \A s \in Thread : todo[s] \subseteq Q!WindowSlots
  BY DEF WorkOK, ThreadOK
<1>4. ASSUME NEW s \in Thread \ {t}
      PROVE  /\ Left(s)' = Left(s) /\ next_v(s)' = next_v(s) /\ \A v : Pushing(s, v)' <=> Pushing(s, v)
  BY <1>1, <1>3, SameLeft
<1>5. Recorded(k)'
  BY <1>1, RecordedKeeps DEF WorkOK, Effect
<1>6. QP!Window' = Level(k)'
  BY <1>2 DEF WorkOK, Effect, WindowKept
<1>7. \A v : Pushing(t, v) => v \in Visited /\ v \in Level(k + 1) /\ v \in Node
  BY <1>3 DEF ThreadOK, Pushing, Visited
<1>8. QP!Hidden' \subseteq Level(k + 1)'
  BY <1>2, <1>7 DEF WorkOK, Effect
<1>9. Apart'
  <2> SUFFICES ASSUME NEW r \in Thread, NEW s \in Thread, r # s
               PROVE  /\ Left(r)' \cap Left(s)' = {}
                      /\ \A v \in Node : ~(Pushing(r, v)' /\ Pushing(s, v)')
    BY DEF Apart
  <2>1. \A x \in Thread : Left(x)' \subseteq Left(x)
    BY <1>4 DEF Effect
  <2>2. Left(r) \cap Left(s) = {} /\ \A v \in Node : ~(Pushing(r, v) /\ Pushing(s, v))
    BY DEF WorkOK, Apart
  <2>3. \A x \in Thread \ {t} : \A v \in Node : Pushing(x, v)' => Pushing(x, v) /\ v \in Visited
    BY <1>3, <1>4 DEF ThreadOK, Pushing
  <2>4. \A v \in Node : Pushing(t, v)' => Pushing(t, v) \/ v \notin Visited
    BY DEF Effect
  <2>5. \A v \in Node : ~(Pushing(r, v)' /\ Pushing(s, v)')
    BY <2>2, <2>3, <2>4
  <2> QED BY <2>1, <2>2, <2>5
<1>10. ASSUME NEW s \in Thread PROVE ThreadOK(k, s)'
  <2>1. CASE s = t
    BY <2>1
  <2>2. CASE s # t
    <3>1. ThreadOK(k, s)
      BY <1>3
    <3>2. /\ local'[s] = local[s] /\ todo'[s] = todo[s] /\ next_v(s)' = next_v(s)
          /\ Empty(s)' <=> Empty(s)
      BY <1>1, <1>4, <2>2 DEF Empty, Q!Copying
    <3>3. out_neigh(g, local[s].u)' = out_neigh(g, local[s].u)
      BY <1>1, <3>2 DEF out_neigh
    <3>4. Q!WindowSlots' = Q!WindowSlots /\ \A i \in todo[s] : shared'[i] = shared[i]
      BY <1>1, <1>3 DEF WindowKept
    <3>5. next_v(s) \in Visited => next_v(s)' \in Visited'
      BY <3>2 DEF Effect
    <3>6. local[s].pc = "push" => next_v(s)' \notin QP!Pushed'
      <4> SUFFICES ASSUME local[s].pc = "push", next_v(s) \in QP!Pushed' PROVE FALSE
        BY <3>2
      <4>1. Pushing(s, next_v(s)) /\ next_v(s) \notin QP!Pushed /\ next_v(s) \in Node
        BY <3>1 DEF ThreadOK, Pushing, Visited
      <4>2. ~Pushing(t, next_v(s))
        BY <2>2, <4>1 DEF WorkOK, Apart
      <4> QED BY <4>1, <4>2 DEF Effect
    <3> QED BY <1>2, <3>1, <3>2, <3>3, <3>4, <3>5, <3>6 DEF ThreadOK
  <2> QED BY <2>1, <2>2
<1>11. ClaimsKept(k)'
  <2> SUFFICES ASSUME NEW v \in (Visited' \cap Level(k + 1)) \ QP!Hidden' PROVE \E s \in Thread : Pushing(s, v)'
    BY <1>2 DEF ClaimsKept
  <2>1. CASE v \notin Visited \/ Pushing(t, v)
    BY <2>1 DEF Effect
  <2>2. CASE v \in Visited /\ ~Pushing(t, v)
    <3>1. v \notin QP!Hidden
      BY DEF Effect
    <3>2. PICK s \in Thread : Pushing(s, v)
      BY <2>2, <3>1 DEF WorkOK, ClaimsKept
    <3> QED BY <1>4, <2>2, <3>2
  <2> QED BY <2>1, <2>2
<1>12. EdgesLeft(k)'
  <2> SUFFICES ASSUME NEW x \in Level(k), NEW y \in out_neigh(g, x), y \notin Visited'
               PROVE  \E s \in Thread : <<x, y>> \in Left(s)'
    BY <1>1, <1>2 DEF EdgesLeft, out_neigh
  <2>1. y \notin Visited
    BY DEF Effect
  <2>2. PICK s \in Thread : <<x, y>> \in Left(s)
    BY <2>1 DEF WorkOK, EdgesLeft
  <2>3. CASE s = t
    BY <2>2, <2>3 DEF Effect
  <2>4. CASE s # t
    BY <1>4, <2>2, <2>4
  <2> QED BY <2>3, <2>4
<1> QED BY <1>5, <1>6, <1>8, <1>9, <1>10, <1>11, <1>12 DEF WorkOK

-----------------------------------------------------------------------------
\* Steps of a thread that write neither the marks nor the queue.

\* The search has begun and its source is a vertex.
Searching(k) == Types /\ source \in Node /\ phase = "PBFS" /\ k \in Nat

\* What a step of a thread may change keeps its type.
LEMMA TypesKeep ==
    ASSUME Types, UNCHANGED <<args, phase, deltas>>, single_taken' \in BOOLEAN,
           depths' \in [Node -> -1 .. NumNodes], path_counts' \in [Node -> Nat],
           succ' \subseteq 0 .. (Cardinality(g.edges) - 1),
           todo' \in [Thread -> SUBSET Node], local' \in [Thread -> LocalType], QP!IInv'
    PROVE  Types'
BY DEF Types, args, opts

\* The neighbour at hand.
LEMMA ThreadFacts ==
    ASSUME NEW k, Searching(k), WorkOK(k), NEW t \in Thread
    PROVE  /\ ThreadOK(k, t) /\ local[t] \in LocalType /\ local[t].u \in Node /\ IsGraph(g)
           /\ local[t].nbrs \subseteq Node /\ todo[t] \subseteq Q!WindowSlots
           /\ local[t].pc \in Inner => Dep[local[t].u] = k
           /\ local[t].nbrs # {} =>
                 /\ next_v(t) \in local[t].nbrs /\ next_v(t) \in Node
                 /\ next_v(t) \in out_neigh(g, local[t].u)
                 /\ InHand(t) = <<local[t].u, next_v(t)>> /\ InHand(t) \in Left(t)
                 /\ InHand(t) \in g.edges /\ edge(t) = EdgeIndex(InHand(t))
                 /\ local[t].pc \in Inner /\ \A i \in todo[t] : shared[i] # local[t].u
<1>1. ThreadOK(k, t)
  BY DEF WorkOK
<1>2. IsGraph(g)
  BY GraphsAssumption DEF Searching, Types
<1>3. local[t] \in LocalType /\ local[t].u \in Node /\ local[t].nbrs \subseteq Node
  BY Registers DEF Searching
<1>4. local[t].pc \in Inner => Dep[local[t].u] = k
  BY <1>1, LevelFacts DEF ThreadOK, Searching
<1>5. ASSUME local[t].nbrs # {}
      PROVE  /\ next_v(t) \in local[t].nbrs /\ next_v(t) \in Node
             /\ next_v(t) \in out_neigh(g, local[t].u)
             /\ InHand(t) = <<local[t].u, next_v(t)>> /\ InHand(t) \in Left(t)
             /\ InHand(t) \in g.edges /\ edge(t) = EdgeIndex(InHand(t))
             /\ local[t].pc \in Inner /\ \A i \in todo[t] : shared[i] # local[t].u
  <2>1. next_v(t) \in local[t].nbrs
    BY <1>3, <1>5, MinNode, NodeNat DEF next_v
  <2>2. next_v(t) \in out_neigh(g, local[t].u)
    BY <1>1, <2>1 DEF ThreadOK
  <2>3. InHand(t) = <<local[t].u, next_v(t)>> /\ InHand(t) \in g.edges
    BY <1>2, <1>3, <2>2, EdgePlaces DEF InHand
  <2>4. edge(t) = EdgeIndex(InHand(t))
    BY DEF edge, InHand
  <2>5. InHand(t) \in Left(t)
    BY <2>1, <2>3 DEF Left
  <2> QED BY <1>1, <1>3, <1>5, <2>1, <2>2, <2>3, <2>4, <2>5 DEF ThreadOK
<1> QED BY <1>1, <1>2, <1>3, <1>4, <1>5 DEF ThreadOK

\* The sets of edges after a step of t.
LEMMA EdgeSets ==
    ASSUME NEW k, Searching(k), WorkOK(k), NEW t \in Thread, StepOf(t), WindowKept
    PROVE  /\ Counted(k)' = {e \in TreeEdges(k) : e \notin Left(t)' /\ \A s \in Thread \ {t} : e \notin Left(s)}
           /\ Marked(k)' = {e \in TreeEdges(k) : e \notin Unmarked(t)' /\ \A s \in Thread \ {t} : e \notin Unmarked(s)}
           /\ Counted(k) = {e \in TreeEdges(k) : e \notin Left(t) /\ \A s \in Thread \ {t} : e \notin Left(s)}
           /\ Marked(k) = {e \in TreeEdges(k) : e \notin Unmarked(t) /\ \A s \in Thread \ {t} : e \notin Unmarked(s)}
<1>1. TreeEdges(k)' = TreeEdges(k) /\ g' = g
  BY SameLevels DEF StepOf, args, opts
<1>2. \A s \in Thread \ {t} : Left(s)' = Left(s) /\ Unmarked(s)' = Unmarked(s)
  BY <1>1, SameLeft, ThreadFacts DEF StepOf
<1> QED BY <1>1, <1>2 DEF Counted, Marked

\* The marks still fit the same sets of edges.
LEMMA LevelSame ==
    ASSUME NEW k, LevelOK(k), UNCHANGED <<g, sources, marks>>, QP!Pushed' = QP!Pushed,
           Counted(k)' = Counted(k), Marked(k)' = Marked(k)
    PROVE  LevelOK(k)'
<1>1. Visited' = Visited /\ depths' = depths /\ path_counts' = path_counts /\ succ' = succ
  BY DEF Visited, marks
<1>2. /\ source' = source /\ Dep' = Dep /\ \A n : UpTo(n)' = UpTo(n)
      /\ \A e : EdgeIndex(e)' = EdgeIndex(e)
  BY SameLevels
<1>3. PathSums(k)'
  BY <1>1, <1>2 DEF LevelOK, PathSums
<1>4. succ' = {EdgeIndex(e)' : e \in Marked(k)'}
  BY <1>1, <1>2 DEF LevelOK
<1> QED BY <1>1, <1>2, <1>3, <1>4 DEF LevelOK

\* Only edges that are on no shortest path may be dropped.
LEMMA QuietStep ==
    ASSUME NEW k, Searching(k), WorkOK(k), NEW t \in Thread, StepOf(t),
           UNCHANGED <<marks, depth_index, single_taken, qvars>>,
           ThreadOK(k, t)', todo' \in [Thread -> SUBSET Node], local' \in [Thread -> LocalType],
           local[t].pc \notin {"push", "count"}, local'[t].pc \notin {"push", "count"},
           Left(t)' \subseteq Left(t),
           \A e \in Left(t) \ Left(t)' : e[2] \in Visited /\ e \notin TreeEdges(k)
    PROVE  Types' /\ WorkOK(k)'
<1>1. /\ QP!IInv' /\ WindowKept /\ QP!Hidden' = QP!Hidden /\ QP!Pushed' = QP!Pushed
      /\ \A i \in 0 .. (shared_out_end - 1) : shared'[i] = shared[i]
  BY NoQueueEffect, QueueStepKeeps DEF Searching, Types
<1>2. Types'
  BY <1>1, TypesKeep DEF Searching, StepOf, sums, marks, Types
<1>3. Visited' = Visited
  BY DEF Visited, marks
<1>4. Unmarked(t)' = Left(t)' /\ Unmarked(t) = Left(t)
  BY DEF Unmarked
<1>5. Counted(k)' = Counted(k) /\ Marked(k)' = Marked(k)
  <2> DEFINE others == {e \in TreeEdges(k) : \A s \in Thread \ {t} : e \notin Left(s)}
             rest == {e \in TreeEdges(k) : \A s \in Thread \ {t} : e \notin Unmarked(s)}
  <2>1. /\ Counted(k)' = {e \in others : e \notin Left(t)'}
        /\ Counted(k) = {e \in others : e \notin Left(t)}
        /\ Marked(k)' = {e \in rest : e \notin Unmarked(t)'}
        /\ Marked(k) = {e \in rest : e \notin Unmarked(t)}
    BY <1>1, EdgeSets
  <2>2. \A e \in others : e \in Left(t)' <=> e \in Left(t)
    OBVIOUS
  <2>3. \A e \in rest : e \in Unmarked(t)' <=> e \in Unmarked(t)
    BY <1>4
  <2> HIDE DEF others, rest
  <2> QED BY <2>1, <2>2, <2>3
<1>6. LevelOK(k)'
  BY <1>1, <1>5, LevelSame DEF StepOf, args, opts, WorkOK
<1>7. \A v : ~Pushing(t, v) /\ ~Pushing(t, v)'
  BY DEF Pushing
<1>8. Effect(t)
  BY <1>1, <1>3, <1>7 DEF Effect, qvars
<1> QED BY <1>2, <1>6, <1>8, WorkKeeps DEF Searching

\* No vertex is twice in the window.
LEMMA WindowOnce ==
    ASSUME QP!IInv
    PROVE  \A i, j \in Q!WindowSlots : shared[i] = shared[j] => i = j
<1>1. /\ shared_in \in Nat /\ shared_out_start \in Nat /\ shared_out_end \in Nat
      /\ shared_out_end <= shared_in
  BY NumNodesAssumption DEF QP!IInv, QP!TypeOK
<1>2. \A t \in Thread : QP!Claimed(t) \subseteq shared_out_end .. (shared_in - 1)
  BY DEF QP!IInv, QP!ClaimsApart
<1>3. \A i \in Q!WindowSlots : i \in 0 .. (shared_in - 1) /\ ~(i \in shared_out_end .. (shared_in - 1))
  BY <1>1 DEF Q!WindowSlots
<1>4. Q!WindowSlots \subseteq QP!Filled
  BY <1>2, <1>3 DEF QP!Filled
<1> QED BY <1>4 DEF QP!IInv, QP!HeldOnce

\* A thread goes on to another place and keeps what else it has.
LEMMA GotoEffect ==
    ASSUME Types, NEW t \in Thread, NEW place \in Places, Goto(t, place)
    PROVE  /\ local' \in [Thread -> LocalType]
           /\ local'[t].pc = place /\ local'[t].depth = local[t].depth
           /\ local'[t].u = local[t].u /\ local'[t].nbrs = local[t].nbrs
           /\ \A s \in Thread \ {t} : local'[s] = local[s]
<1>1. local \in [Thread -> LocalType]
  BY DEF Types
<1> QED BY <1>1 DEF Goto, LocalType

\* A thread is done with the neighbour at hand.
LEMMA DropEffect ==
    ASSUME Types, NEW t \in Thread,
           local' = [local EXCEPT ![t].pc = "edge", ![t].nbrs = @ \ {next_v(t)}]
    PROVE  /\ local' \in [Thread -> LocalType]
           /\ local'[t].pc = "edge" /\ local'[t].depth = local[t].depth
           /\ local'[t].u = local[t].u /\ local'[t].nbrs = local[t].nbrs \ {next_v(t)}
           /\ \A s \in Thread \ {t} : local'[s] = local[s]
<1>1. local \in [Thread -> LocalType]
  BY DEF Types
<1> DEFINE r == [local[t] EXCEPT !.pc = "edge", !.nbrs = @ \ {next_v(t)}]
<1>2. \A s \in Thread : local'[s] = IF s = t THEN r ELSE local[s]
  BY <1>1
<1>3. /\ r \in LocalType /\ r.pc = "edge" /\ r.depth = local[t].depth /\ r.u = local[t].u
      /\ r.nbrs = local[t].nbrs \ {next_v(t)}
  BY <1>1 DEF LocalType, Places, Working, Inner
<1> HIDE DEF r
<1> QED BY <1>1, <1>2, <1>3

\* Then it has one edge less.
LEMMA LeftWithout ==
    ASSUME NEW k, Searching(k), WorkOK(k), NEW t \in Thread, local[t].nbrs # {},
           WindowKept, UNCHANGED g, todo'[t] = todo[t],
           local'[t].u = local[t].u, local'[t].nbrs = local[t].nbrs \ {next_v(t)}
    PROVE  Left(t)' = Left(t) \ {InHand(t)}
<1>1. /\ \A i \in todo[t] : shared'[i] = shared[i] /\ shared[i] # local[t].u
      /\ InHand(t) = <<local[t].u, next_v(t)>> /\ IsGraph(g)
  BY ThreadFacts DEF WindowKept
<1>2. \A e \in g.edges : e = <<e[1], e[2]>>
  BY <1>1, EdgePlaces
<1>3. \A e \in g.edges : e = InHand(t) <=> e[1] = local[t].u /\ e[2] = next_v(t)
  BY <1>1, <1>2
<1>4. \A e \in g.edges : e \in Left(t)' <=> e \in Left(t) /\ e # InHand(t)
  BY <1>1, <1>3 DEF Left
<1> QED BY <1>4 DEF Left

\* A thread whose registers and slots stay keeps its edges.
LEMMA LeftKept ==
    ASSUME NEW k, Searching(k), WorkOK(k), NEW t \in Thread, WindowKept, UNCHANGED g,
           todo'[t] = todo[t], local'[t].u = local[t].u, local'[t].nbrs = local[t].nbrs
    PROVE  Left(t)' = Left(t) /\ next_v(t)' = next_v(t) /\ InHand(t)' = InHand(t)
BY ThreadFacts, SameLeft

\* The frame of the steps that write neither the marks nor the queue.
LEMMA QuietFrame ==
    ASSUME NEW k, Searching(k), WorkOK(k), NEW t \in Thread,
           UNCHANGED <<args, marks, sums, depth_index, phase, single_taken, qvars>>,
           \A s \in Thread \ {t} : local'[s] = local[s] /\ todo'[s] = todo[s]
    PROVE  /\ StepOf(t) /\ UNCHANGED <<marks, depth_index, single_taken, qvars>> /\ UNCHANGED <<g, sources>>
           /\ QP!IInv' /\ WindowKept /\ Q!WindowSlots' = Q!WindowSlots /\ shared' = shared
           /\ QP!Pushed' = QP!Pushed /\ Visited' = Visited /\ (Empty(t)' <=> Empty(t))
           /\ \A n : Level(n)' = Level(n)
           /\ \A x : out_neigh(g, x)' = out_neigh(g, x)
<1>1. UNCHANGED <<g, sources>> /\ shared' = shared /\ local_queue' = local_queue /\ copy_start' = copy_start
  BY DEF args, opts, qvars
<1>2. StepOf(t)
  BY <1>1 DEF StepOf
<1>3. QP!IInv' /\ WindowKept /\ QP!Pushed' = QP!Pushed
  BY NoQueueEffect DEF Searching, Types
<1>4. Q!WindowSlots' = Q!WindowSlots
  BY <1>3 DEF WindowKept
<1>5. Visited' = Visited
  BY DEF marks, Visited
<1>6. Empty(t)' <=> Empty(t)
  BY <1>1 DEF Empty, Q!Copying
<1>7. \A n : Level(n)' = Level(n)
  BY <1>1, SameLevels
<1>8. \A x : out_neigh(g, x)' = out_neigh(g, x)
  BY <1>1, SameLevels
<1> QED BY <1>1, <1>2, <1>3, <1>4, <1>5, <1>6, <1>7, <1>8

\* The test of line 66: the window is the level, for every thread.
LEMMA WhileStep ==
    ASSUME NEW k, Searching(k), WorkOK(k), NEW t \in Thread, While(t)
    PROVE  Types' /\ WorkOK(k)'
<1>1. local[t].pc = "while" /\ ThreadOK(k, t) /\ local \in [Thread -> LocalType] /\ Types
  BY ThreadFacts DEF While, At, Searching, Types
<1>2. local[t].nbrs = {} /\ Empty(t) /\ local[t].depth = k /\ todo[t] \subseteq Q!WindowSlots
  BY <1>1 DEF ThreadOK, Inner
<1>3. Q!empty <=> Level(k) = {}
  BY QueueReads DEF Searching, Types, WorkOK
<1>4. Level(k) = {} => todo[t] = {}
  <2>1. Level(k) = {} => Q!WindowSlots = {}
    BY QueueReads DEF Searching, Types, WorkOK
  <2> QED BY <1>2, <2>1
<1>5. /\ local' \in [Thread -> LocalType] /\ local'[t].nbrs = {} /\ local'[t].u = local[t].u
      /\ \A s \in Thread \ {t} : local'[s] = local[s]
      /\ \/ Level(k) = {} /\ local'[t].pc = "end" /\ local'[t].depth = k
         \/ Level(k) # {} /\ local'[t].pc = "next" /\ local'[t].depth = k + 1
  <2>1. CASE Q!empty
    <3>1. Goto(t, "end") /\ "end" \in Places
      BY <2>1 DEF While, Places, Working
    <3> QED BY <1>1, <1>2, <1>3, <2>1, <3>1, GotoEffect
  <2>2. CASE ~Q!empty
    <3>1. local' = [local EXCEPT ![t].pc = "next", ![t].depth = @ + 1]
      BY <2>2 DEF While
    <3> DEFINE r == [local[t] EXCEPT !.pc = "next", !.depth = @ + 1]
    <3>2. \A s \in Thread : local'[s] = IF s = t THEN r ELSE local[s]
      BY <1>1, <3>1
    <3>3. /\ r \in LocalType /\ r.pc = "next" /\ r.depth = local[t].depth + 1
          /\ r.u = local[t].u /\ r.nbrs = local[t].nbrs
      <4>1. local[t] \in LocalType /\ local[t].depth \in Nat
        BY <1>1, Registers
      <4>2. local[t].depth + 1 \in Nat
        BY <4>1
      <4> DEFINE n == local[t].depth + 1
      <4> HIDE DEF n
      <4>3. [local[t] EXCEPT !.pc = "next", !.depth = n] \in LocalType
        BY <4>1, <4>2 DEF LocalType, Places, Working, n
      <4> QED BY <4>1, <4>3 DEF LocalType, n
    <3> HIDE DEF r
    <3>4. local' \in [Thread -> LocalType]
      BY <1>1, <3>1, <3>2, <3>3
    <3> QED BY <1>2, <1>3, <2>2, <3>2, <3>3, <3>4
  <2> QED BY <2>1, <2>2
<1>6. UNCHANGED <<args, marks, sums, depth_index, phase, single_taken, qvars>> /\ todo' = todo
  BY DEF While
<1>7. /\ StepOf(t) /\ UNCHANGED <<marks, depth_index, single_taken, qvars>> /\ UNCHANGED <<g, sources>>
      /\ QP!IInv' /\ WindowKept /\ Q!WindowSlots' = Q!WindowSlots /\ (Empty(t)' <=> Empty(t))
      /\ \A n : Level(n)' = Level(n)
  BY <1>5, <1>6, QuietFrame
<1>8. Left(t)' = Left(t)
  BY <1>2, <1>5, <1>6, <1>7, LeftKept
<1>9. ThreadOK(k, t)'
  BY <1>1, <1>2, <1>4, <1>5, <1>6, <1>7 DEF ThreadOK, Inner, Working
<1> QED BY <1>1, <1>5, <1>6, <1>7, <1>8, <1>9, QuietStep DEF Types

\* The next vertex of the thread's share.
LEMMA TakeVertexStep ==
    ASSUME NEW k, Searching(k), WorkOK(k), NEW t \in Thread, TakeVertex(t)
    PROVE  Types' /\ WorkOK(k)'
<1>1. local[t].pc = "next" /\ ThreadOK(k, t) /\ local \in [Thread -> LocalType] /\ Types
  BY ThreadFacts DEF TakeVertex, At, Searching, Types
<1>2. /\ local[t].nbrs = {} /\ local[t].depth = k + 1 /\ todo[t] \subseteq Q!WindowSlots
      /\ Level(k) # {} /\ todo[t] \subseteq Nat /\ todo \in [Thread -> SUBSET Node]
  BY <1>1, NodeNat DEF ThreadOK, Inner, Types
<1>3. UNCHANGED <<args, marks, sums, depth_index, phase, single_taken, qvars>>
  BY DEF TakeVertex
<1>4. CASE todo[t] = {}
  <2>1. Goto(t, "flush") /\ todo' = todo /\ "flush" \in Places
    BY <1>4 DEF TakeVertex, Places, Working
  <2>2. /\ local' \in [Thread -> LocalType] /\ local'[t].nbrs = {} /\ local'[t].u = local[t].u
        /\ local'[t].pc = "flush" /\ local'[t].depth = k + 1
        /\ \A s \in Thread \ {t} : local'[s] = local[s]
    BY <1>1, <1>2, <2>1, GotoEffect
  <2>3. /\ StepOf(t) /\ UNCHANGED <<marks, depth_index, single_taken, qvars>> /\ UNCHANGED <<g, sources>>
        /\ WindowKept /\ Q!WindowSlots' = Q!WindowSlots
        /\ \A n : Level(n)' = Level(n)
    BY <1>3, <2>1, <2>2, QuietFrame
  <2>4. Left(t)' = Left(t)
    BY <1>2, <2>1, <2>2, <2>3, LeftKept
  <2>5. ThreadOK(k, t)'
    BY <1>2, <1>4, <2>1, <2>2, <2>3 DEF ThreadOK, Inner, Working
  <2> QED BY <1>1, <1>2, <2>1, <2>2, <2>3, <2>4, <2>5, QuietStep
<1>5. CASE todo[t] # {}
  <2> DEFINE m == Min(todo[t])
             u == shared[m]
  <2>1. /\ todo' = [todo EXCEPT ![t] = @ \ {m}]
        /\ local' = [local EXCEPT ![t].pc = "edge", ![t].u = u, ![t].nbrs = out_neigh(g, u)]
    BY <1>5 DEF TakeVertex
  <2>2. m \in todo[t] /\ m \in Q!WindowSlots
    BY <1>2, <1>5, MinNode
  <2>3. u \in Level(k) /\ u \in Node
    <3>1. u \in QP!Window
      BY <1>1, <2>2, QueueReads DEF Types
    <3> QED BY <3>1 DEF WorkOK, Level
  <2>4. \A i \in todo[t] \ {m} : shared[i] # u
    BY <1>1, <1>2, <2>2, WindowOnce DEF Types
  <2> HIDE DEF m, u
  <2>5. /\ local' \in [Thread -> LocalType] /\ local'[t].nbrs = out_neigh(g, u) /\ local'[t].u = u
        /\ local'[t].pc = "edge" /\ local'[t].depth = k + 1
        /\ \A s \in Thread \ {t} : local'[s] = local[s]
    <3> DEFINE N == out_neigh(g, u)
               r == [local[t] EXCEPT !.pc = "edge", !.u = u, !.nbrs = N]
    <3>1. N \in SUBSET Node
      BY DEF out_neigh
    <3> HIDE DEF N
    <3>2. r \in LocalType /\ r.pc = "edge" /\ r.depth = local[t].depth /\ r.u = u /\ r.nbrs = N
      BY <1>1, <2>3, <3>1 DEF LocalType, Places, Working, Inner
    <3>3. \A s \in Thread : local'[s] = IF s = t THEN r ELSE local[s]
      BY <1>1, <2>1 DEF N
    <3> HIDE DEF r
    <3>4. local' \in [Thread -> LocalType]
      BY <1>1, <2>1, <3>2, <3>3
    <3> QED BY <1>2, <3>2, <3>3, <3>4 DEF N
  <2>6. /\ todo' \in [Thread -> SUBSET Node] /\ todo'[t] = todo[t] \ {m}
        /\ \A s \in Thread \ {t} : todo'[s] = todo[s]
    BY <1>2, <2>1
  <2>7. /\ StepOf(t) /\ UNCHANGED <<marks, depth_index, single_taken, qvars>> /\ UNCHANGED <<g, sources>>
        /\ WindowKept /\ Q!WindowSlots' = Q!WindowSlots /\ shared' = shared
        /\ \A n : Level(n)' = Level(n)
        /\ \A x : out_neigh(g, x)' = out_neigh(g, x)
    BY <1>3, <2>5, <2>6, QuietFrame
  <2>8. Left(t)' = Left(t)
    <3>1. IsGraph(g)
      BY ThreadFacts
    <3>2. \A e \in g.edges : e[2] \in out_neigh(g, e[1])
      BY <3>1, EdgePlaces
    <3>3. \A e \in g.edges : e \in Left(t)' <=> (\E i \in todo[t] \ {m} : shared[i] = e[1]) \/ e[1] = u
      BY <2>5, <2>6, <2>7, <3>2 DEF Left
    <3>4. \A e \in g.edges : e \in Left(t) <=> \E i \in todo[t] : shared[i] = e[1]
      BY <1>2 DEF Left
    <3>5. \A e \in g.edges : e \in Left(t)' <=> e \in Left(t)
      BY <2>2, <3>3, <3>4 DEF u
    <3> QED BY <2>7, <3>5 DEF Left
  <2>9. ThreadOK(k, t)'
    BY <1>2, <2>3, <2>4, <2>5, <2>6, <2>7 DEF ThreadOK, Inner, Working
  <2> QED BY <1>1, <1>2, <2>5, <2>6, <2>7, <2>8, <2>9, QuietStep
<1> QED BY <1>4, <1>5

\* The neighbour at hand is visited, and the thread judges its depth.
LEMMA JudgeStep ==
    ASSUME NEW k, Searching(k), WorkOK(k), NEW t \in Thread,
           local[t].pc \in {"edge", "cas"}, local[t].nbrs # {}, depths[next_v(t)] # -1,
           Judge(t, depths[next_v(t)]), todo' = todo,
           UNCHANGED <<args, marks, sums, depth_index, phase, single_taken, qvars>>
    PROVE  Types' /\ WorkOK(k)'
<1> DEFINE v == next_v(t)
<1>1. /\ ThreadOK(k, t) /\ local \in [Thread -> LocalType] /\ Types
      /\ todo \in [Thread -> SUBSET Node] /\ k \in Nat /\ source \in Node
  BY ThreadFacts DEF Searching, Types
<1>2. /\ v \in local[t].nbrs /\ v \in Node /\ InHand(t) = <<local[t].u, v>> /\ InHand(t) \in Left(t)
      /\ Dep[local[t].u] = k
  BY ThreadFacts DEF Inner
<1>3. v \in Visited /\ depths[v] = Dep[v]
  BY <1>2 DEF Visited, WorkOK, LevelOK
<1>4. local[t].depth = k + 1
  BY <1>1 DEF ThreadOK
<1>5. CASE depths[v] = k + 1
  <2>1. Goto(t, "set_bit") /\ "set_bit" \in Places
    BY <1>4, <1>5 DEF Judge, Places, Working, Inner
  <2>2. /\ local' \in [Thread -> LocalType] /\ local'[t].nbrs = local[t].nbrs /\ local'[t].u = local[t].u
        /\ local'[t].pc = "set_bit" /\ local'[t].depth = k + 1
        /\ \A s \in Thread \ {t} : local'[s] = local[s]
    BY <1>1, <1>4, <2>1, GotoEffect
  <2>3. /\ StepOf(t) /\ UNCHANGED <<marks, depth_index, single_taken, qvars>> /\ UNCHANGED <<g, sources>>
        /\ WindowKept /\ Q!WindowSlots' = Q!WindowSlots /\ shared' = shared /\ Visited' = Visited
        /\ \A n : Level(n)' = Level(n)
        /\ \A x : out_neigh(g, x)' = out_neigh(g, x)
    BY <2>2, QuietFrame
  <2>4. Left(t)' = Left(t) /\ next_v(t)' = v
    BY <2>2, <2>3, LeftKept
  <2>5. v \in Level(k + 1)
    BY <1>2, <1>3, <1>5 DEF Level, Dep
  <2> HIDE DEF v
  <2>6. ThreadOK(k, t)'
    BY <1>1, <1>3, <2>2, <2>3, <2>4, <2>5 DEF ThreadOK, Inner, Working
  <2> QED BY <1>1, <2>2, <2>3, <2>4, <2>6, QuietStep
<1>6. CASE depths[v] # k + 1
  <2>1. local' = [local EXCEPT ![t].pc = "edge", ![t].nbrs = @ \ {next_v(t)}]
    BY <1>4, <1>6 DEF Judge
  <2>2. /\ local' \in [Thread -> LocalType] /\ local'[t].nbrs = local[t].nbrs \ {next_v(t)}
        /\ local'[t].u = local[t].u /\ local'[t].pc = "edge" /\ local'[t].depth = k + 1
        /\ \A s \in Thread \ {t} : local'[s] = local[s]
    BY <1>1, <1>4, <2>1, DropEffect
  <2>3. /\ StepOf(t) /\ UNCHANGED <<marks, depth_index, single_taken, qvars>> /\ UNCHANGED <<g, sources>>
        /\ WindowKept /\ Q!WindowSlots' = Q!WindowSlots /\ shared' = shared /\ Visited' = Visited
        /\ \A n : Level(n)' = Level(n)
        /\ \A x : out_neigh(g, x)' = out_neigh(g, x)
    BY <2>2, QuietFrame
  <2>4. Left(t)' = Left(t) \ {InHand(t)}
    BY <2>2, <2>3, LeftWithout
  <2>5. InHand(t)[2] \in Visited /\ InHand(t) \notin TreeEdges(k)
    BY <1>2, <1>3, <1>6 DEF TreeEdges
  <2>6. ThreadOK(k, t)'
    BY <1>1, <2>2, <2>3 DEF ThreadOK, Inner, Working
  <2> QED BY <1>1, <2>2, <2>3, <2>4, <2>5, <2>6, QuietStep
<1> QED BY <1>5, <1>6

\* The neighbour is visited, or not yet.
LEMMA TestStep ==
    ASSUME NEW k, Searching(k), WorkOK(k), NEW t \in Thread, Test(t)
    PROVE  Types' /\ WorkOK(k)'
<1>1. local[t].pc = "edge" /\ ThreadOK(k, t) /\ local \in [Thread -> LocalType] /\ Types
  BY ThreadFacts DEF Test, At, Searching, Types
<1>2. /\ local[t].depth = k + 1 /\ todo[t] \subseteq Q!WindowSlots /\ Level(k) # {}
      /\ todo \in [Thread -> SUBSET Node]
  BY <1>1 DEF ThreadOK, Types
<1>3. UNCHANGED <<args, marks, sums, depth_index, phase, single_taken, qvars>> /\ todo' = todo
  BY DEF Test
<1>4. CASE local[t].nbrs = {}
  <2>1. local' = [local EXCEPT ![t].pc = "next", ![t].u = 0]
    BY <1>4 DEF Test
  <2>2. /\ local' \in [Thread -> LocalType] /\ local'[t].nbrs = {}
        /\ local'[t].pc = "next" /\ local'[t].depth = k + 1
        /\ \A s \in Thread \ {t} : local'[s] = local[s]
    <3> DEFINE r == [local[t] EXCEPT !.pc = "next", !.u = 0]
    <3>1. r \in LocalType /\ r.pc = "next" /\ r.depth = local[t].depth /\ r.nbrs = local[t].nbrs
      BY <1>1, NodeNat DEF LocalType, Places, Working
    <3>2. \A s \in Thread : local'[s] = IF s = t THEN r ELSE local[s]
      BY <1>1, <2>1
    <3> HIDE DEF r
    <3>3. local' \in [Thread -> LocalType]
      BY <1>1, <2>1, <3>1, <3>2
    <3> QED BY <1>2, <1>4, <3>1, <3>2, <3>3
  <2>3. /\ StepOf(t) /\ UNCHANGED <<marks, depth_index, single_taken, qvars>> /\ UNCHANGED <<g, sources>>
        /\ WindowKept /\ Q!WindowSlots' = Q!WindowSlots /\ shared' = shared
        /\ \A n : Level(n)' = Level(n)
    BY <1>3, <2>2, QuietFrame
  <2>4. Left(t)' = Left(t)
    BY <1>3, <1>4, <2>2, <2>3 DEF Left
  <2>5. ThreadOK(k, t)'
    BY <1>2, <1>3, <2>2, <2>3 DEF ThreadOK, Inner, Working
  <2> QED BY <1>1, <1>2, <1>3, <2>2, <2>3, <2>4, <2>5, QuietStep
<1>5. CASE local[t].nbrs # {} /\ depths[next_v(t)] = -1
  <2>1. Goto(t, "cas") /\ "cas" \in Places
    BY <1>5 DEF Test, Places, Working, Inner
  <2>2. /\ local' \in [Thread -> LocalType] /\ local'[t].nbrs = local[t].nbrs /\ local'[t].u = local[t].u
        /\ local'[t].pc = "cas" /\ local'[t].depth = k + 1
        /\ \A s \in Thread \ {t} : local'[s] = local[s]
    BY <1>1, <1>2, <2>1, GotoEffect
  <2>3. /\ StepOf(t) /\ UNCHANGED <<marks, depth_index, single_taken, qvars>> /\ UNCHANGED <<g, sources>>
        /\ WindowKept /\ Q!WindowSlots' = Q!WindowSlots /\ shared' = shared /\ Visited' = Visited
        /\ \A n : Level(n)' = Level(n)
        /\ \A x : out_neigh(g, x)' = out_neigh(g, x)
    BY <1>3, <2>2, QuietFrame
  <2>4. Left(t)' = Left(t)
    BY <1>3, <2>2, <2>3, LeftKept
  <2>5. ThreadOK(k, t)'
    BY <1>1, <1>3, <1>5, <2>2, <2>3 DEF ThreadOK, Inner, Working
  <2> QED BY <1>1, <1>2, <1>3, <2>2, <2>3, <2>4, <2>5, QuietStep
<1>6. CASE local[t].nbrs # {} /\ depths[next_v(t)] # -1
  <2>1. Judge(t, depths[next_v(t)])
    BY <1>6 DEF Test
  <2> QED BY <1>1, <1>3, <1>6, <2>1, JudgeStep
<1> QED BY <1>4, <1>5, <1>6

\* The load of set_bit_atomic.
LEMMA SuccLoadStep ==
    ASSUME NEW k, Searching(k), WorkOK(k), NEW t \in Thread, SuccLoad(t)
    PROVE  Types' /\ WorkOK(k)'
<1>1. local[t].pc = "set_bit" /\ ThreadOK(k, t) /\ local \in [Thread -> LocalType] /\ Types
  BY ThreadFacts DEF SuccLoad, At, Searching, Types
<1>2. local[t].depth = k + 1 /\ local[t].nbrs # {} /\ todo \in [Thread -> SUBSET Node]
  BY <1>1 DEF ThreadOK, Inner, Types
<1>3. UNCHANGED <<args, marks, sums, depth_index, phase, single_taken, qvars>> /\ todo' = todo
  BY DEF SuccLoad
<1>4. /\ local' \in [Thread -> LocalType] /\ local'[t].nbrs = local[t].nbrs /\ local'[t].u = local[t].u
      /\ local'[t].pc = "swap" /\ local'[t].depth = k + 1
      /\ \A s \in Thread \ {t} : local'[s] = local[s]
  <2> DEFINE W == Word(succ, edge(t))
             r == [local[t] EXCEPT !.pc = "swap", !.word = W]
  <2>1. W \subseteq Nat
    <3>1. succ \subseteq Nat
      BY <1>1 DEF Types
    <3> QED BY <3>1 DEF Word
  <2>2. local' = [local EXCEPT ![t].pc = "swap", ![t].word = W]
    BY DEF SuccLoad
  <2> HIDE DEF W
  <2>3. /\ r \in LocalType /\ r.pc = "swap" /\ r.depth = local[t].depth /\ r.u = local[t].u
        /\ r.nbrs = local[t].nbrs
    BY <1>1, <2>1 DEF LocalType, Places, Working, Inner
  <2>4. \A s \in Thread : local'[s] = IF s = t THEN r ELSE local[s]
    BY <1>1, <2>2
  <2> HIDE DEF r
  <2>5. local' \in [Thread -> LocalType]
    BY <1>1, <2>2, <2>3, <2>4
  <2> QED BY <1>2, <2>3, <2>4, <2>5
<1>5. /\ StepOf(t) /\ UNCHANGED <<marks, depth_index, single_taken, qvars>> /\ UNCHANGED <<g, sources>>
      /\ WindowKept /\ Q!WindowSlots' = Q!WindowSlots /\ shared' = shared /\ Visited' = Visited
      /\ \A n : Level(n)' = Level(n)
      /\ \A x : out_neigh(g, x)' = out_neigh(g, x)
  BY <1>3, <1>4, QuietFrame
<1>6. Left(t)' = Left(t) /\ next_v(t)' = next_v(t)
  BY <1>3, <1>4, <1>5, LeftKept
<1>7. ThreadOK(k, t)'
  BY <1>1, <1>3, <1>4, <1>5, <1>6 DEF ThreadOK, Inner, Working
<1> QED BY <1>1, <1>2, <1>3, <1>4, <1>5, <1>6, <1>7, QuietStep

-----------------------------------------------------------------------------
\* Steps of a thread that write a mark.

\* The claims and the queue stay, and what is dropped is visited.
LEMMA MarkingStep ==
    ASSUME NEW k, Searching(k), WorkOK(k), NEW t \in Thread, StepOf(t),
           UNCHANGED <<depths, depth_index, single_taken, qvars>>,
           ThreadOK(k, t)', LevelOK(k)', todo' \in [Thread -> SUBSET Node], local' \in [Thread -> LocalType],
           path_counts' \in [Node -> Nat], succ' \subseteq 0 .. (Cardinality(g.edges) - 1),
           local[t].pc # "push", local'[t].pc # "push",
           Left(t)' \subseteq Left(t), \A e \in Left(t) \ Left(t)' : e[2] \in Visited
    PROVE  Types' /\ WorkOK(k)'
<1>1. /\ QP!IInv' /\ WindowKept /\ QP!Hidden' = QP!Hidden /\ QP!Pushed' = QP!Pushed
      /\ \A i \in 0 .. (shared_out_end - 1) : shared'[i] = shared[i]
  BY NoQueueEffect, QueueStepKeeps DEF Searching, Types
<1>2. Types'
  BY <1>1, TypesKeep DEF Searching, StepOf, sums, Types
<1>3. Visited' = Visited
  BY DEF Visited
<1>4. \A v : ~Pushing(t, v) /\ ~Pushing(t, v)'
  BY DEF Pushing
<1>5. Effect(t)
  BY <1>1, <1>3, <1>4 DEF Effect, qvars
<1> QED BY <1>2, <1>5, WorkKeeps DEF Searching

\* Setting a bit through its word sets that bit and no other.
LEMMA BitSet ==
    ASSUME NEW bm, NEW pos, NEW w, CanSwap(bm, pos, w)
    PROVE  set_bit(bm, pos, w) = bm \cup {pos}
BY DEF CanSwap, set_bit, StoreWord, Word

\* The swap succeeds with the word that is there, so no bit of another thread is lost.
LEMMA SuccSwapStep ==
    ASSUME NEW k, Searching(k), WorkOK(k), NEW t \in Thread, SuccSwap(t)
    PROVE  Types' /\ WorkOK(k)'
<1> DEFINE won == CanSwap(succ, edge(t), local[t].word)
           place == IF won THEN "count" ELSE "set_bit"
           e == InHand(t)
<1>1. /\ local[t].pc = "swap" /\ ThreadOK(k, t) /\ local \in [Thread -> LocalType] /\ Types
      /\ IsGraph(g) /\ k \in Nat
  BY ThreadFacts DEF SuccSwap, At, Searching, Types
<1>2. local[t].depth = k + 1 /\ local[t].nbrs # {} /\ todo \in [Thread -> SUBSET Node]
  BY <1>1 DEF ThreadOK, Inner, Types
<1>3. /\ UNCHANGED <<args, path_counts, depths, sums, depth_index, phase, single_taken, qvars>> /\ todo' = todo
      /\ succ' = IF won THEN set_bit(succ, edge(t), local[t].word) ELSE succ
      /\ local' = [local EXCEPT ![t].pc = place, ![t].word = {}]
  BY DEF SuccSwap
<1> HIDE DEF place
<1>4. /\ local' \in [Thread -> LocalType] /\ local'[t].nbrs = local[t].nbrs /\ local'[t].u = local[t].u
      /\ local'[t].pc = place /\ local'[t].depth = k + 1
      /\ \A s \in Thread \ {t} : local'[s] = local[s]
  <2> DEFINE r == [local[t] EXCEPT !.pc = place, !.word = {}]
  <2>1. place \in Places
    BY DEF place, Places, Working, Inner
  <2>2. /\ r \in LocalType /\ r.pc = place /\ r.depth = local[t].depth /\ r.u = local[t].u
        /\ r.nbrs = local[t].nbrs
    BY <1>1, <2>1 DEF LocalType
  <2>3. \A s \in Thread : local'[s] = IF s = t THEN r ELSE local[s]
    BY <1>1, <1>3
  <2> HIDE DEF r
  <2>4. local' \in [Thread -> LocalType]
    BY <1>1, <1>3, <2>2, <2>3
  <2> QED BY <1>2, <2>2, <2>3, <2>4
<1>5. CASE ~won
  <2>1. succ' = succ /\ place = "set_bit"
    BY <1>3, <1>5 DEF place
  <2>2. UNCHANGED <<args, marks, sums, depth_index, phase, single_taken, qvars>>
    BY <1>3, <2>1 DEF marks
  <2>3. /\ StepOf(t) /\ UNCHANGED <<marks, depth_index, single_taken, qvars>> /\ UNCHANGED <<g, sources>>
        /\ WindowKept /\ Q!WindowSlots' = Q!WindowSlots /\ shared' = shared /\ Visited' = Visited
        /\ \A n : Level(n)' = Level(n)
        /\ \A x : out_neigh(g, x)' = out_neigh(g, x)
    BY <1>3, <1>4, <2>2, QuietFrame
  <2>4. Left(t)' = Left(t) /\ next_v(t)' = next_v(t)
    BY <1>3, <1>4, <2>3, LeftKept
  <2>5. ThreadOK(k, t)'
    BY <1>1, <1>3, <1>4, <2>1, <2>3, <2>4 DEF ThreadOK, Inner, Working
  <2> QED BY <1>1, <1>2, <1>3, <1>4, <2>1, <2>3, <2>4, <2>5, QuietStep
<1>6. CASE won
  <2>1. place = "count"
    BY <1>6 DEF place
  <2>2. /\ e \in g.edges /\ e \in Left(t) /\ e = <<local[t].u, next_v(t)>> /\ edge(t) = EdgeIndex(e)
        /\ Dep[local[t].u] = k /\ next_v(t) \in Level(k + 1)
    BY <1>1, <1>2, ThreadFacts DEF ThreadOK, Inner
  <2>3. succ' = succ \cup {EdgeIndex(e)}
    BY <1>3, <1>6, <2>2, BitSet
  <2>4. e \in TreeEdges(k)
    <3>1. Dep[next_v(t)] = k + 1
      BY <2>2 DEF Level, Dep
    <3> QED BY <1>1, <2>2, <3>1 DEF TreeEdges
  <2>5. /\ UNCHANGED <<g, sources>> /\ shared' = shared /\ local_queue' = local_queue /\ copy_start' = copy_start
        /\ StepOf(t)
    BY <1>3, <1>4 DEF args, opts, qvars, StepOf
  <2>6. WindowKept /\ Q!WindowSlots' = Q!WindowSlots /\ QP!Pushed' = QP!Pushed
    BY <1>1, <1>3, NoQueueEffect DEF Types, WindowKept
  <2>7. Left(t)' = Left(t) /\ next_v(t)' = next_v(t) /\ InHand(t)' = e
    BY <1>3, <1>4, <2>5, <2>6, LeftKept
  <2>8. Unmarked(t) = Left(t) /\ Unmarked(t)' = Left(t) \ {e}
    BY <1>1, <1>4, <2>1, <2>7 DEF Unmarked
  <2>9. \A s \in Thread \ {t} : e \notin Unmarked(s)
    <3>1. \A s \in Thread \ {t} : e \notin Left(s)
      BY <2>2 DEF WorkOK, Apart
    <3> QED BY <3>1 DEF Unmarked
  <2> HIDE DEF e
  <2>10. Counted(k)' = Counted(k) /\ Marked(k)' = Marked(k) \cup {e}
    <3> DEFINE others == {f \in TreeEdges(k) : \A s \in Thread \ {t} : f \notin Left(s)}
               rest == {f \in TreeEdges(k) : \A s \in Thread \ {t} : f \notin Unmarked(s)}
    <3>1. /\ Counted(k)' = {f \in others : f \notin Left(t)'}
          /\ Counted(k) = {f \in others : f \notin Left(t)}
          /\ Marked(k)' = {f \in rest : f \notin Unmarked(t)'}
          /\ Marked(k) = {f \in rest : f \notin Unmarked(t)}
      BY <2>5, <2>6, EdgeSets
    <3>2. e \in rest
      BY <2>4, <2>9
    <3> HIDE DEF others, rest
    <3> QED BY <2>7, <2>8, <3>1, <3>2
  <2>11. LevelOK(k)'
    <3>1. /\ source' = source /\ Dep' = Dep /\ \A n : UpTo(n)' = UpTo(n)
          /\ \A f : EdgeIndex(f)' = EdgeIndex(f)
      BY <2>5, SameLevels
    <3>2. Visited' = Visited
      BY <1>3 DEF Visited
    <3>3. PathSums(k)'
      BY <1>3, <2>10, <3>1 DEF WorkOK, LevelOK, PathSums
    <3>4. succ' = {EdgeIndex(f)' : f \in Marked(k)'}
      <4>1. succ = {EdgeIndex(f) : f \in Marked(k)}
        BY DEF WorkOK, LevelOK
      <4> QED BY <2>3, <2>10, <3>1, <4>1
    <3> QED BY <1>3, <2>6, <3>1, <3>2, <3>3, <3>4 DEF WorkOK, LevelOK
  <2>12. Visited' = Visited /\ \A n : Level(n)' = Level(n)
    BY <1>3, <2>5, SameLevels DEF Visited
  <2>13. \A x : out_neigh(g, x)' = out_neigh(g, x)
    BY <2>5, SameLevels
  <2>14. ThreadOK(k, t)'
    BY <1>1, <1>3, <1>4, <2>1, <2>5, <2>6, <2>7, <2>12, <2>13 DEF ThreadOK, Inner, Working
  <2>15. EdgeIndex(e) \in 0 .. (Cardinality(g.edges) - 1)
    BY <1>1, <2>2, EdgePlaces
  <2>16. succ' \subseteq 0 .. (Cardinality(g.edges) - 1) /\ path_counts' \in [Node -> Nat]
    BY <1>1, <1>3, <2>3, <2>15 DEF Types
  <2> QED BY <1>1, <1>2, <1>3, <1>4, <2>1, <2>5, <2>7, <2>11, <2>14, <2>16, MarkingStep
<1> QED BY <1>5, <1>6

\* One more edge is counted, into a vertex from which none is counted yet.
LEMMA CountOne ==
    ASSUME IsGraph(g), source \in Node, NEW k \in Nat, PathSums(k), NEW e \in TreeEdges(k), e \notin Counted(k),
           Dep[e[1]] = k, path_counts \in [Node -> Nat], UNCHANGED <<g, sources>>,
           path_counts' = [path_counts EXCEPT ![e[2]] = @ + path_counts[e[1]]],
           Counted(k)' = Counted(k) \cup {e}
    PROVE  PathSums(k)'
<1> DEFINE In(y) == {x \in Node : <<x, y>> \in Counted(k)}
           In1(y) == {x \in Node : <<x, y>> \in Counted(k) \cup {e}}
           u == e[1]
           v == e[2]
<1>1. /\ u \in Node /\ v \in Node /\ e = <<u, v>> /\ u # v /\ Dep[v] = k + 1 /\ v # source
      /\ Counted(k) \subseteq TreeEdges(k)
      /\ \A f \in TreeEdges(k) : f[1] # f[2] /\ f[1] # v
  <2>1. \A f \in TreeEdges(k) : f \in g.edges /\ Dep[f[1]] \in 0 .. k /\ Dep[f[2]] = Dep[f[1]] + 1
    BY DEF TreeEdges
  <2>2. e \in g.edges /\ Dep[v] = k + 1
    BY <2>1
  <2>3. u \in Node /\ v \in Node /\ e = <<u, v>>
    BY <2>2, EdgePlaces
  <2>4. \A f \in TreeEdges(k) : f[1] # f[2] /\ f[1] # v
    BY <2>1, <2>2
  <2>5. v # source
    BY <2>2, FirstLevel
  <2> QED BY <2>2, <2>3, <2>4, <2>5 DEF Counted
<1>2. \A y : IsFiniteSet(In(y)) /\ In(y) \subseteq Node /\ IsFiniteSet(In1(y)) /\ In1(y) \subseteq Node
  <2> SUFFICES ASSUME NEW y PROVE IsFiniteSet(In(y)) /\ In(y) \subseteq Node /\ IsFiniteSet(In1(y)) /\ In1(y) \subseteq Node
    OBVIOUS
  <2>1. In(y) \subseteq Node /\ In1(y) \subseteq Node
    OBVIOUS
  <2> HIDE DEF In, In1
  <2> QED BY <2>1, NodeFinite, FS_Subset
<1>3. \A y : (\A x \in In1(y) : x # v) /\ (\A x \in In(y) : x # v)
  BY <1>1
<1>4. \A y \in Node : y # v => In1(y) = In(y)
  BY <1>1
<1>5. u \in In1(v) /\ In1(v) \ {u} = In(v)
  BY <1>1
<1>6. \A y \in Node : path_counts[y] = IF y = source THEN 1 ELSE Sum(path_counts, In(y))
  BY DEF PathSums
<1>7. path_counts' \in [Node -> Nat] /\ \A x \in Node : path_counts'[x] = IF x = v THEN path_counts[v] + path_counts[u] ELSE path_counts[x]
  BY <1>1
<1> HIDE DEF In, In1
<1>8. ASSUME NEW y \in Node PROVE Sum(path_counts', In1(y)) = Sum(path_counts, In1(y))
  <2>1. \A x \in In1(y) : path_counts[x] \in Nat /\ path_counts'[x] = path_counts[x]
    BY <1>2, <1>3, <1>7
  <2> QED BY <1>2, <2>1, SumSame
<1>9. Sum(path_counts, In1(v)) = path_counts[u] + Sum(path_counts, In(v)) /\ Sum(path_counts, In(v)) \in Nat
  <2>1. \A x \in In1(v) : path_counts[x] \in Nat
    BY <1>2
  <2>2. \A x \in In(v) : path_counts[x] \in Nat
    BY <1>2
  <2>3. Sum(path_counts, In1(v)) = path_counts[u] + Sum(path_counts, In1(v) \ {u})
    BY <1>2, <1>5, <2>1, SumAdd
  <2>4. Sum(path_counts, In(v)) \in Nat
    BY <1>2, <2>2, SumPick
  <2> QED BY <1>5, <2>3, <2>4
<1>10. ASSUME NEW y \in Node PROVE path_counts'[y] = IF y = source THEN 1 ELSE Sum(path_counts', In1(y))
  <2>1. CASE y = v
    <3>1. path_counts[v] = Sum(path_counts, In(v))
      BY <1>1, <1>6
    <3>2. path_counts'[v] = Sum(path_counts, In(v)) + path_counts[u] /\ path_counts[u] \in Nat
      BY <1>1, <1>7, <3>1
    <3>3. path_counts'[v] = Sum(path_counts', In1(v))
      <4>1. Sum(path_counts', In1(v)) = Sum(path_counts, In1(v))
        BY <1>1, <1>8
      <4>2. path_counts'[v] = path_counts[u] + Sum(path_counts, In(v))
        BY <1>9, <3>2
      <4> QED BY <1>9, <4>1, <4>2, Zenon
    <3> QED BY <1>1, <2>1, <3>3
  <2>2. CASE y # v
    BY <1>4, <1>6, <1>7, <1>8, <2>2
  <2> QED BY <2>1, <2>2
<1>11. source' = source
  BY DEF source
<1> QED BY <1>10, <1>11 DEF PathSums, In1

\* The paths of u are final: those of v grow by the one edge.
LEMMA CountStep ==
    ASSUME NEW k, Searching(k), WorkOK(k), NEW t \in Thread, Count(t)
    PROVE  Types' /\ WorkOK(k)'
<1> DEFINE e == InHand(t)
<1>1. /\ local[t].pc = "count" /\ ThreadOK(k, t) /\ local \in [Thread -> LocalType] /\ Types
      /\ IsGraph(g) /\ k \in Nat /\ source \in Node
  BY ThreadFacts DEF Count, At, Searching, Types
<1>2. local[t].depth = k + 1 /\ local[t].nbrs # {} /\ todo \in [Thread -> SUBSET Node]
  BY <1>1 DEF ThreadOK, Inner, Types
<1>3. /\ UNCHANGED <<args, succ, depths, sums, depth_index, phase, single_taken, qvars>> /\ todo' = todo
      /\ path_counts' = [path_counts EXCEPT ![next_v(t)] = @ + path_counts[local[t].u]]
      /\ local' = [local EXCEPT ![t].pc = "edge", ![t].nbrs = @ \ {next_v(t)}]
  BY DEF Count
<1>4. /\ local' \in [Thread -> LocalType] /\ local'[t].nbrs = local[t].nbrs \ {next_v(t)}
      /\ local'[t].u = local[t].u /\ local'[t].pc = "edge" /\ local'[t].depth = k + 1
      /\ \A s \in Thread \ {t} : local'[s] = local[s]
  BY <1>1, <1>2, <1>3, DropEffect
<1>5. /\ e \in g.edges /\ e \in Left(t) /\ e = <<local[t].u, next_v(t)>>
      /\ Dep[local[t].u] = k /\ next_v(t) \in Level(k + 1) /\ next_v(t) \in Visited
  BY <1>1, <1>2, ThreadFacts DEF ThreadOK, Inner
<1>6. e \in TreeEdges(k) /\ e[2] \in Visited /\ e[1] = local[t].u /\ e[2] = next_v(t)
  <2>1. Dep[next_v(t)] = k + 1
    BY <1>5 DEF Level, Dep
  <2> QED BY <1>1, <1>5, <2>1 DEF TreeEdges
<1>7. /\ UNCHANGED <<g, sources>> /\ shared' = shared /\ local_queue' = local_queue /\ copy_start' = copy_start
      /\ StepOf(t)
  BY <1>3, <1>4 DEF args, opts, qvars, StepOf
<1>8. WindowKept /\ Q!WindowSlots' = Q!WindowSlots /\ QP!Pushed' = QP!Pushed
  BY <1>1, <1>3, NoQueueEffect DEF Types, WindowKept
<1>9. Left(t)' = Left(t) \ {e}
  BY <1>2, <1>3, <1>4, <1>7, <1>8, LeftWithout
<1>10. Unmarked(t) = Left(t) \ {e} /\ Unmarked(t)' = Left(t) \ {e}
  BY <1>1, <1>4, <1>9 DEF Unmarked
<1>11. \A s \in Thread \ {t} : e \notin Left(s)
  BY <1>5 DEF WorkOK, Apart
<1> HIDE DEF e
<1>12. Counted(k)' = Counted(k) \cup {e} /\ Marked(k)' = Marked(k) /\ e \notin Counted(k)
  <2> DEFINE others == {f \in TreeEdges(k) : \A s \in Thread \ {t} : f \notin Left(s)}
             rest == {f \in TreeEdges(k) : \A s \in Thread \ {t} : f \notin Unmarked(s)}
  <2>1. /\ Counted(k)' = {f \in others : f \notin Left(t)'}
        /\ Counted(k) = {f \in others : f \notin Left(t)}
        /\ Marked(k)' = {f \in rest : f \notin Unmarked(t)'}
        /\ Marked(k) = {f \in rest : f \notin Unmarked(t)}
    BY <1>7, <1>8, EdgeSets
  <2>2. e \in others
    BY <1>6, <1>11
  <2> HIDE DEF others, rest
  <2> QED BY <1>5, <1>9, <1>10, <2>1, <2>2
<1>13. LevelOK(k)'
  <2>1. /\ source' = source /\ Dep' = Dep /\ \A n : UpTo(n)' = UpTo(n)
        /\ \A f : EdgeIndex(f)' = EdgeIndex(f)
    BY <1>7, SameLevels
  <2>2. Visited' = Visited
    BY <1>3 DEF Visited
  <2>3. PathSums(k)'
    <3>1. PathSums(k) /\ path_counts \in [Node -> Nat]
      BY <1>1 DEF WorkOK, LevelOK, Types
    <3>2. path_counts' = [path_counts EXCEPT ![e[2]] = @ + path_counts[e[1]]]
      BY <1>3, <1>6
    <3>3. Dep[e[1]] = k
      BY <1>5, <1>6
    <3> QED BY <1>1, <1>6, <1>7, <1>12, <3>1, <3>2, <3>3, CountOne
  <2>4. succ' = {EdgeIndex(f)' : f \in Marked(k)'}
    <3>1. succ = {EdgeIndex(f) : f \in Marked(k)}
      BY DEF WorkOK, LevelOK
    <3> QED BY <1>3, <1>12, <2>1, <3>1
  <2> QED BY <1>3, <1>8, <2>1, <2>2, <2>3, <2>4 DEF WorkOK, LevelOK
<1>14. Visited' = Visited /\ \A n : Level(n)' = Level(n)
  BY <1>3, <1>7, SameLevels DEF Visited
<1>15. \A x : out_neigh(g, x)' = out_neigh(g, x)
  BY <1>7, SameLevels
<1>16. ThreadOK(k, t)'
  BY <1>1, <1>3, <1>4, <1>7, <1>8, <1>14, <1>15 DEF ThreadOK, Inner, Working
<1>17. path_counts' \in [Node -> Nat] /\ succ' \subseteq 0 .. (Cardinality(g.edges) - 1)
  <2>1. path_counts \in [Node -> Nat] /\ local[t].u \in Node
    BY <1>1, ThreadFacts DEF Types
  <2>2. path_counts[next_v(t)] + path_counts[local[t].u] \in Nat
    BY <1>5, <2>1 DEF Visited
  <2> QED BY <1>1, <1>3, <2>1, <2>2 DEF Types
<1> QED BY <1>1, <1>2, <1>3, <1>4, <1>6, <1>7, <1>9, <1>13, <1>16, <1>17, MarkingStep

\* The claim that succeeds.
LEMMA ClaimStep ==
    ASSUME NEW k, Searching(k), WorkOK(k), NEW t \in Thread, Cas(t), depths[next_v(t)] = -1
    PROVE  Types' /\ WorkOK(k)'
<1> DEFINE v == next_v(t)
<1>1. /\ local[t].pc = "cas" /\ ThreadOK(k, t) /\ local \in [Thread -> LocalType] /\ Types
      /\ IsGraph(g) /\ k \in Nat /\ source \in Node /\ phase = "PBFS"
  BY ThreadFacts DEF Cas, At, Searching, Types
<1>2. local[t].depth = k + 1 /\ local[t].nbrs # {} /\ todo \in [Thread -> SUBSET Node]
  BY <1>1 DEF ThreadOK, Inner, Types
<1>3. /\ UNCHANGED <<args, path_counts, succ, sums, depth_index, phase, single_taken, qvars>> /\ todo' = todo
      /\ depths' = [depths EXCEPT ![v] = k + 1] /\ Goto(t, "push") /\ "push" \in Places
  BY <1>2 DEF Cas, Places, Working, Inner
<1>4. /\ local' \in [Thread -> LocalType] /\ local'[t].nbrs = local[t].nbrs /\ local'[t].u = local[t].u
      /\ local'[t].pc = "push" /\ local'[t].depth = k + 1
      /\ \A s \in Thread \ {t} : local'[s] = local[s]
  BY <1>1, <1>2, <1>3, GotoEffect
<1>5. v \in Node /\ v \in out_neigh(g, local[t].u) /\ local[t].u \in Level(k)
  BY <1>1, <1>2, ThreadFacts DEF ThreadOK, Inner
<1>6. v \in Level(k + 1) /\ v \notin Visited /\ Dep[v] = k + 1 /\ k + 1 \in 0 .. NumNodes
  <2>1. v \notin Visited
    BY DEF Visited
  <2>2. v \in UpTo(k + 1) /\ v \notin UpTo(k)
    BY <1>1, <1>5, <2>1, LevelFacts DEF WorkOK, LevelOK
  <2>3. v \in Level(k + 1) /\ Dep[v] = k + 1
    BY <1>1, <2>2, LevelFacts
  <2>4. k + 1 <= NumNodes
    BY <1>1, <1>5, <2>3, LevelFacts
  <2> QED BY <1>1, <2>1, <2>3, <2>4, NumNodesAssumption
<1>7. /\ UNCHANGED <<g, sources>> /\ shared' = shared /\ local_queue' = local_queue /\ copy_start' = copy_start
      /\ StepOf(t) /\ shared_out_start' = shared_out_start
  BY <1>3, <1>4 DEF args, opts, qvars, StepOf
<1>8. /\ QP!IInv' /\ WindowKept /\ Q!WindowSlots' = Q!WindowSlots /\ QP!Hidden' = QP!Hidden
      /\ QP!Pushed' = QP!Pushed
  BY <1>1, <1>3, NoQueueEffect DEF Types, WindowKept
<1>9. Left(t)' = Left(t) /\ next_v(t)' = v
  BY <1>3, <1>4, <1>7, <1>8, LeftKept
<1>10. Unmarked(t)' = Left(t) /\ Unmarked(t) = Left(t)
  BY <1>1, <1>4, <1>9 DEF Unmarked
<1>11. Visited' = Visited \cup {v} /\ depths' \in [Node -> -1 .. NumNodes]
  <2>1. depths \in [Node -> -1 .. NumNodes]
    BY <1>1 DEF Types
  <2>2. depths' \in [Node -> -1 .. NumNodes] /\ \A n \in Node : depths'[n] = IF n = v THEN k + 1 ELSE depths[n]
    <3>1. k + 1 \in -1 .. NumNodes
      BY <1>1, <1>6
    <3> HIDE DEF v
    <3> QED BY <1>3, <1>5, <2>1, <3>1
  <2> HIDE DEF v
  <2>3. k + 1 # -1
    BY <1>1
  <2> QED BY <1>5, <2>2, <2>3 DEF Visited
<1> HIDE DEF v
<1>12. Counted(k)' = Counted(k) /\ Marked(k)' = Marked(k)
  <2> DEFINE others == {f \in TreeEdges(k) : \A s \in Thread \ {t} : f \notin Left(s)}
             rest == {f \in TreeEdges(k) : \A s \in Thread \ {t} : f \notin Unmarked(s)}
  <2>1. /\ Counted(k)' = {f \in others : f \notin Left(t)'}
        /\ Counted(k) = {f \in others : f \notin Left(t)}
        /\ Marked(k)' = {f \in rest : f \notin Unmarked(t)'}
        /\ Marked(k) = {f \in rest : f \notin Unmarked(t)}
    BY <1>7, <1>8, EdgeSets
  <2> HIDE DEF others, rest
  <2> QED BY <1>9, <1>10, <2>1
<1>13. LevelOK(k)'
  <2>1. /\ source' = source /\ Dep' = Dep /\ \A n : UpTo(n)' = UpTo(n)
        /\ \A f : EdgeIndex(f)' = EdgeIndex(f)
    BY <1>7, SameLevels
  <2>2. PathSums(k)'
    BY <1>3, <1>12, <2>1 DEF WorkOK, LevelOK, PathSums
  <2>3. succ' = {EdgeIndex(f)' : f \in Marked(k)'}
    <3>1. succ = {EdgeIndex(f) : f \in Marked(k)}
      BY DEF WorkOK, LevelOK
    <3> QED BY <1>3, <1>12, <2>1, <3>1
  <2>4. \A n \in Visited' : depths'[n] = Dep[n]
    BY <1>1, <1>3, <1>5, <1>6, <1>11 DEF WorkOK, LevelOK, Types, Visited
  <2>5. Visited' \subseteq UpTo(k + 1)
    BY <1>1, <1>6, <1>11, LevelFacts DEF WorkOK, LevelOK
  <2> QED BY <1>8, <1>11, <2>1, <2>2, <2>3, <2>4, <2>5 DEF WorkOK, LevelOK
<1>14. ThreadOK(k, t)'
  <2>1. \A n : Level(n)' = Level(n)
    BY <1>7, SameLevels
  <2>2. \A x : out_neigh(g, x)' = out_neigh(g, x)
    BY <1>7, SameLevels
  <2>3. v \notin QP!Pushed
    BY <1>6 DEF WorkOK, LevelOK
  <2> QED BY <1>1, <1>3, <1>4, <1>6, <1>7, <1>8, <1>9, <1>11, <2>1, <2>2, <2>3 DEF ThreadOK, Inner, Working
<1>15. Effect(t)
  <2>1. \A n : ~Pushing(t, n)
    BY <1>1 DEF Pushing
  <2>2. \A n : Pushing(t, n)' <=> n = v
    BY <1>4, <1>9 DEF Pushing
  <2> QED BY <1>3, <1>6, <1>7, <1>8, <1>9, <1>11, <2>1, <2>2 DEF Effect
<1>16. Types'
  <2>1. UNCHANGED <<args, phase, deltas, single_taken, path_counts, succ>>
    BY <1>3 DEF sums
  <2> QED BY <1>1, <1>2, <1>3, <1>4, <1>8, <1>11, <2>1, TypesKeep DEF Types
<1> QED BY <1>1, <1>13, <1>14, <1>15, <1>16, WorkKeeps

\* The winner claims the vertex; the loser finds its depth.
LEMMA CasStep ==
    ASSUME NEW k, Searching(k), WorkOK(k), NEW t \in Thread, Cas(t)
    PROVE  Types' /\ WorkOK(k)'
<1>1. CASE depths[next_v(t)] = -1
  BY <1>1, ClaimStep
<1>2. CASE depths[next_v(t)] # -1
  <2>1. local[t].pc = "cas" /\ ThreadOK(k, t)
    BY ThreadFacts DEF Cas, At
  <2>2. local[t].nbrs # {}
    BY <2>1 DEF ThreadOK, Inner
  <2>3. /\ Judge(t, depths[next_v(t)]) /\ todo' = todo
        /\ UNCHANGED <<args, marks, sums, depth_index, phase, single_taken, qvars>>
    BY <1>2 DEF Cas, marks
  <2> QED BY <1>2, <2>1, <2>2, <2>3, JudgeStep
<1> QED BY <1>1, <1>2

-----------------------------------------------------------------------------
\* Steps of a thread that write the queue.

\* Neither the marks nor the edges of the thread change, and at most the vertex
\* it was pushing is queued.
LEMMA QueueingStep ==
    ASSUME NEW k, Searching(k), WorkOK(k), NEW t \in Thread, StepOf(t), QueueStep, WindowKept,
           UNCHANGED <<marks, depth_index, single_taken, todo, shared_out_start>>,
           local' \in [Thread -> LocalType], local'[t].u = local[t].u, local'[t].nbrs = local[t].nbrs,
           local[t].pc # "count", local'[t].pc # "count", local'[t].pc = "push" => local[t].pc = "push",
           NEW new \in SUBSET {v \in Node : Pushing(t, v)},
           QP!Hidden' = QP!Hidden \cup new, QP!Pushed' = QP!Pushed \cup new,
           local[t].pc = "push" /\ local'[t].pc # "push" => next_v(t) \in new,
           ThreadOK(k, t)'
    PROVE  Types' /\ WorkOK(k)'
<1>1. QP!IInv' /\ \A i \in 0 .. (shared_out_end - 1) : shared'[i] = shared[i]
  BY QueueStepKeeps DEF Searching, Types
<1>2. Types'
  BY <1>1, TypesKeep DEF Searching, StepOf, sums, marks, Types
<1>3. UNCHANGED <<g, sources>>
  BY DEF StepOf, args, opts
<1>4. Left(t)' = Left(t) /\ next_v(t)' = next_v(t)
  BY <1>3, LeftKept
<1>5. Unmarked(t)' = Left(t) /\ Unmarked(t) = Left(t)
  BY <1>4 DEF Unmarked
<1>6. Counted(k)' = Counted(k) /\ Marked(k)' = Marked(k)
  <2> DEFINE others == {e \in TreeEdges(k) : \A s \in Thread \ {t} : e \notin Left(s)}
             rest == {e \in TreeEdges(k) : \A s \in Thread \ {t} : e \notin Unmarked(s)}
  <2>1. /\ Counted(k)' = {e \in others : e \notin Left(t)'}
        /\ Counted(k) = {e \in others : e \notin Left(t)}
        /\ Marked(k)' = {e \in rest : e \notin Unmarked(t)'}
        /\ Marked(k) = {e \in rest : e \notin Unmarked(t)}
    BY EdgeSets
  <2> HIDE DEF others, rest
  <2> QED BY <1>4, <1>5, <2>1
<1>7. \A v : Pushing(t, v) => v = next_v(t) /\ v \in Visited
  BY ThreadFacts DEF ThreadOK, Pushing
<1>8. Visited' = Visited /\ depths' = depths /\ path_counts' = path_counts /\ succ' = succ
  BY DEF Visited, marks
<1>9. LevelOK(k)'
  <2>1. /\ source' = source /\ Dep' = Dep /\ \A n : UpTo(n)' = UpTo(n)
        /\ \A e : EdgeIndex(e)' = EdgeIndex(e)
    BY <1>3, SameLevels
  <2>2. PathSums(k)'
    BY <1>6, <1>8, <2>1 DEF WorkOK, LevelOK, PathSums
  <2>3. succ' = {EdgeIndex(e)' : e \in Marked(k)'}
    BY <1>6, <1>8, <2>1 DEF WorkOK, LevelOK
  <2>4. QP!Pushed' \subseteq Visited
    BY <1>7 DEF WorkOK, LevelOK
  <2> QED BY <1>8, <2>1, <2>2, <2>3, <2>4 DEF WorkOK, LevelOK
<1>10. Effect(t)
  <2>1. \A v : Pushing(t, v)' => Pushing(t, v)
    BY <1>4 DEF Pushing
  <2>2. \A v : Pushing(t, v) => Pushing(t, v)' \/ v \in QP!Hidden'
    BY <1>4 DEF Pushing
  <2> QED BY <1>1, <1>4, <1>8, <2>1, <2>2 DEF Effect
<1> QED BY <1>2, <1>9, <1>10, WorkKeeps DEF Searching

\* The frame of these steps.
LEMMA QueueFrame ==
    ASSUME NEW k, Searching(k), WorkOK(k), NEW t \in Thread,
           UNCHANGED <<args, marks, sums, depth_index, phase, single_taken, todo>>,
           \A s \in Thread \ {t} : local'[s] = local[s],
           \/ \E v \in Node : v \notin QP!Pushed /\ Q!LocalPush(t, v)
           \/ Q!Claim(t) \/ Q!CopyOut(t)
    PROVE  /\ StepOf(t) /\ QueueStep /\ WindowKept /\ Q!WindowSlots' = Q!WindowSlots
           /\ \A i \in Q!WindowSlots : shared'[i] = shared[i]
           /\ UNCHANGED <<marks, depth_index, single_taken, todo, shared_out_start>> /\ UNCHANGED <<g, sources>>
           /\ \A n : Level(n)' = Level(n)
           /\ \A x : out_neigh(g, x)' = out_neigh(g, x)
           /\ Visited' = Visited
<1>1. UNCHANGED <<g, sources>>
  BY DEF args, opts
<1>2. QP!IInv
  BY DEF Searching, Types
<1>3. QueueStep /\ WindowKept
  BY <1>2, PushEffect, FlushEffect
<1>4. \A s \in Thread \ {t} : local_queue'[s] = local_queue[s] /\ copy_start'[s] = copy_start[s]
  BY <1>2 DEF Q!LocalPush, Q!Claim, Q!CopyOut, QP!IInv, QP!TypeOK
<1>5. StepOf(t)
  BY <1>4 DEF StepOf
<1>6. shared_out_start' = shared_out_start
  BY DEF Q!LocalPush, Q!Claim, Q!CopyOut
<1>7. \A n : Level(n)' = Level(n)
  BY <1>1, SameLevels
<1>8. \A x : out_neigh(g, x)' = out_neigh(g, x)
  BY <1>1, SameLevels
<1>9. Visited' = Visited
  BY DEF marks, Visited
<1> QED BY <1>1, <1>3, <1>5, <1>6, <1>7, <1>8, <1>9 DEF WindowKept

\* A claimed vertex is pushed once, when the buffer has room.
LEMMA PushStep ==
    ASSUME NEW k, Searching(k), WorkOK(k), NEW t \in Thread, Push(t)
    PROVE  Types' /\ WorkOK(k)'
<1>1. /\ local[t].pc = "push" /\ ThreadOK(k, t) /\ local \in [Thread -> LocalType] /\ Types
      /\ UNCHANGED <<args, marks, sums, depth_index, phase, single_taken, todo>>
  BY ThreadFacts DEF Push, At, Searching, Types
<1>2. /\ local[t].depth = k + 1 /\ local[t].nbrs # {} /\ next_v(t) \notin QP!Pushed /\ QP!IInv
      /\ next_v(t) \in Node /\ \A v : Pushing(t, v) <=> v = next_v(t)
  BY <1>1, ThreadFacts DEF ThreadOK, Inner, Types, Pushing
<1>3. CASE Q!LocalPush(t, next_v(t)) /\ Goto(t, "set_bit")
  <2>1. /\ local' \in [Thread -> LocalType] /\ local'[t].nbrs = local[t].nbrs /\ local'[t].u = local[t].u
        /\ local'[t].pc = "set_bit" /\ local'[t].depth = k + 1
        /\ \A s \in Thread \ {t} : local'[s] = local[s]
    <3>1. "set_bit" \in Places
      BY DEF Places, Working, Inner
    <3> QED BY <1>1, <1>2, <1>3, <3>1, GotoEffect
  <2>2. /\ StepOf(t) /\ QueueStep /\ WindowKept /\ Q!WindowSlots' = Q!WindowSlots
        /\ \A i \in Q!WindowSlots : shared'[i] = shared[i]
        /\ UNCHANGED <<marks, depth_index, single_taken, todo, shared_out_start>> /\ UNCHANGED <<g, sources>>
        /\ \A n : Level(n)' = Level(n)
        /\ \A x : out_neigh(g, x)' = out_neigh(g, x)
        /\ Visited' = Visited
    BY <1>1, <1>2, <1>3, <2>1, QueueFrame
  <2>3. QP!Hidden' = QP!Hidden \cup {next_v(t)} /\ QP!Pushed' = QP!Pushed \cup {next_v(t)}
    BY <1>2, <1>3, PushEffect
  <2>4. next_v(t)' = next_v(t)
    BY <2>1, <2>2, LeftKept
  <2>5. ThreadOK(k, t)'
    BY <1>1, <2>1, <2>2, <2>4 DEF ThreadOK, Inner, Working
  <2> DEFINE new == {next_v(t)}
  <2>6. new \in SUBSET {v \in Node : Pushing(t, v)} /\ next_v(t) \in new
    BY <1>2
  <2>7. QP!Hidden' = QP!Hidden \cup new /\ QP!Pushed' = QP!Pushed \cup new
    BY <2>3
  <2> HIDE DEF new
  <2> QED BY <1>1, <2>1, <2>2, <2>5, <2>6, <2>7, QueueingStep
<1>4. CASE (Q!Claim(t) \/ Q!CopyOut(t)) /\ UNCHANGED local
  <2>1. /\ StepOf(t) /\ QueueStep /\ WindowKept /\ Q!WindowSlots' = Q!WindowSlots
        /\ \A i \in Q!WindowSlots : shared'[i] = shared[i]
        /\ UNCHANGED <<marks, depth_index, single_taken, todo, shared_out_start>> /\ UNCHANGED <<g, sources>>
        /\ \A n : Level(n)' = Level(n)
        /\ \A x : out_neigh(g, x)' = out_neigh(g, x)
        /\ Visited' = Visited
    BY <1>1, <1>4, QueueFrame
  <2>2. QP!Hidden' = QP!Hidden /\ QP!Pushed' = QP!Pushed
    BY <1>2, <1>4, FlushEffect
  <2>3. next_v(t)' = next_v(t)
    BY <1>4, <2>1, LeftKept
  <2>4. ThreadOK(k, t)'
    BY <1>1, <1>4, <2>1, <2>2, <2>3 DEF ThreadOK, Inner
  <2> DEFINE new == {}
  <2>5. new \in SUBSET {v \in Node : Pushing(t, v)}
    OBVIOUS
  <2>6. QP!Hidden' = QP!Hidden \cup new /\ QP!Pushed' = QP!Pushed \cup new
    BY <2>2
  <2> HIDE DEF new
  <2> QED BY <1>1, <1>4, <2>1, <2>4, <2>5, <2>6, QueueingStep
<1> QED BY <1>3, <1>4 DEF Push

\* The flush at the end of the loop.
LEMMA FlushStep ==
    ASSUME NEW k, Searching(k), WorkOK(k), NEW t \in Thread, Flush(t)
    PROVE  Types' /\ WorkOK(k)'
<1>1. /\ local[t].pc = "flush" /\ ThreadOK(k, t) /\ local \in [Thread -> LocalType] /\ Types
      /\ UNCHANGED <<args, marks, sums, depth_index, phase, single_taken, todo>>
      /\ Q!Claim(t) \/ Q!CopyOut(t)
  BY ThreadFacts DEF Flush, At, Searching, Types
<1>2. local[t].depth = k + 1 /\ local[t].nbrs = {} /\ QP!IInv /\ todo[t] = {} /\ Level(k) # {}
  BY <1>1 DEF ThreadOK, Inner, Types
<1>3. /\ local' \in [Thread -> LocalType] /\ local'[t].nbrs = local[t].nbrs /\ local'[t].u = local[t].u
      /\ local'[t].depth = k + 1 /\ local'[t].pc \in {"flush", "barrier"}
      /\ local'[t].pc = "barrier" => Q!CopyOut(t)
      /\ \A s \in Thread \ {t} : local'[s] = local[s]
  <2>1. CASE UNCHANGED local
    BY <1>1, <1>2, <2>1
  <2>2. CASE Q!CopyOut(t) /\ Goto(t, "barrier")
    <3>1. "barrier" \in Places
      BY DEF Places, Working
    <3> QED BY <1>1, <1>2, <2>2, <3>1, GotoEffect
  <2> QED BY <2>1, <2>2 DEF Flush
<1>4. /\ StepOf(t) /\ QueueStep /\ WindowKept /\ Q!WindowSlots' = Q!WindowSlots
      /\ UNCHANGED <<marks, depth_index, single_taken, todo, shared_out_start>> /\ UNCHANGED <<g, sources>>
      /\ \A n : Level(n)' = Level(n)
  BY <1>1, <1>3, QueueFrame
<1>5. QP!Hidden' = QP!Hidden /\ QP!Pushed' = QP!Pushed
  BY <1>1, <1>2, FlushEffect
<1>6. Q!CopyOut(t) => Empty(t)'
  BY <1>2 DEF Q!CopyOut, Empty, Q!Copying, Q!NoCopy, QP!IInv, QP!TypeOK
<1>7. ThreadOK(k, t)'
  BY <1>1, <1>2, <1>3, <1>4, <1>6 DEF ThreadOK, Inner, Working
<1> DEFINE new == {}
<1>8. new \in SUBSET {v \in Node : Pushing(t, v)}
  OBVIOUS
<1>9. QP!Hidden' = QP!Hidden \cup new /\ QP!Pushed' = QP!Pushed \cup new
  BY <1>5
<1> HIDE DEF new
<1> QED BY <1>1, <1>3, <1>4, <1>7, <1>8, <1>9, QueueingStep

-----------------------------------------------------------------------------
\* From one level to the next.

\* The edges on shortest paths out of the levels before k.
Above(k) == {e \in g.edges : Dep[e[1]] \in 0 .. (k - 1) /\ Dep[e[2]] = Dep[e[1]] + 1}

\* The state in which a level begins: the window is divided among the threads.
LEMMA LevelBegins ==
    ASSUME UNCHANGED <<g, sources>>, IsGraph(g), source \in Node, NEW k \in Nat,
           todo' \in Schedules(Q!WindowSlots'),
           \A t \in Thread : /\ local'[t].pc = "while" /\ local'[t].depth = k /\ local'[t].nbrs = {}
                             /\ Empty(t)',
           \A i, j \in Q!WindowSlots' : shared'[i] = shared'[j] => i = j,
           QP!Window' = Level(k), QP!Hidden' = {}, QP!Pushed' = UpTo(k), Visited' = UpTo(k),
           \A v \in UpTo(k) : depths'[v] = Dep[v],
           Recorded(k)',
           \A y \in Node : path_counts'[y] = IF y = source THEN 1
                                             ELSE Sum(path_counts', {x \in Node : <<x, y>> \in Above(k)}),
           succ' = {EdgeIndex(e) : e \in Above(k)}
    PROVE  WorkOK(k)'
<1>1. /\ source' = source /\ Dep' = Dep /\ g' = g
      /\ \A n : Level(n)' = Level(n) /\ UpTo(n)' = UpTo(n) /\ TreeEdges(n)' = TreeEdges(n)
      /\ \A e : EdgeIndex(e)' = EdgeIndex(e)
      /\ \A x : out_neigh(g, x)' = out_neigh(g, x)
  BY SameLevels
<1>2. /\ \A i \in Q!WindowSlots' : shared'[i] \in Level(k)
      /\ \A v \in Level(k) : \E i \in Q!WindowSlots' : shared'[i] = v
  BY DEF QP!Window, QP!WindowSlots, Q!WindowSlots
<1>3. /\ \A t \in Thread : todo'[t] \subseteq Q!WindowSlots'
      /\ \A i \in Q!WindowSlots' : \E t \in Thread : i \in todo'[t]
      /\ \A s, t \in Thread : s # t => todo'[s] \cap todo'[t] = {}
  <2>1. Divides(todo', Q!WindowSlots')
    BY ScheduleDivides
  <2> QED BY <2>1 DEF Divides
<1>4. \A t \in Thread : Left(t)' = {e \in g.edges : \E i \in todo'[t] : shared'[i] = e[1]}
  BY <1>1 DEF Left
<1>5. \A t \in Thread : Unmarked(t)' = Left(t)'
  BY DEF Unmarked
<1>6. \A e \in g.edges : e[1] \in Node /\ e = <<e[1], e[2]>> /\ Dep[e[1]] \in Int
  BY EdgePlaces, LevelFacts
<1>7. \A e \in g.edges : (\E t \in Thread : e \in Left(t)') <=> Dep[e[1]] = k
  <2>1. \A e \in g.edges : e[1] \in Level(k) <=> Dep[e[1]] = k
    BY <1>6 DEF Level, Dep
  <2> QED BY <1>2, <1>3, <1>4, <2>1
<1>8. TreeEdges(k) \ {e \in g.edges : Dep[e[1]] = k} = Above(k)
  BY <1>6 DEF TreeEdges, Above
<1>9. Counted(k)' = Above(k) /\ Marked(k)' = Above(k)
  <2>1. Counted(k)' = {e \in TreeEdges(k) : \A t \in Thread : e \notin Left(t)'}
    BY <1>1 DEF Counted
  <2>2. Marked(k)' = Counted(k)'
    BY <1>1, <1>5, <2>1 DEF Marked
  <2>3. TreeEdges(k) \subseteq g.edges
    BY DEF TreeEdges
  <2>4. Counted(k)' = TreeEdges(k) \ {e \in g.edges : Dep[e[1]] = k}
    BY <1>7, <2>1, <2>3
  <2> QED BY <1>8, <2>2, <2>4
<1>10. LevelOK(k)'
  <2>1. PathSums(k)'
    BY <1>1, <1>9 DEF PathSums
  <2>2. succ' = {EdgeIndex(e)' : e \in Marked(k)'}
    BY <1>1, <1>9
  <2>3. UpTo(k) \subseteq UpTo(k + 1)
    BY LevelFacts
  <2> QED BY <1>1, <2>1, <2>2, <2>3 DEF LevelOK
<1>11. ASSUME NEW t \in Thread PROVE ThreadOK(k, t)'
  BY <1>3 DEF ThreadOK, Inner, Working
<1>12. \A t \in Thread : \A v : ~Pushing(t, v)'
  BY DEF Pushing
<1>13. Apart'
  <2>1. ASSUME NEW s \in Thread, NEW t \in Thread, s # t, NEW e \in Left(s)', e \in Left(t)' PROVE FALSE
    <3>1. PICK i \in todo'[s] : shared'[i] = e[1]
      BY <1>4, <2>1
    <3>2. PICK j \in todo'[t] : shared'[j] = e[1]
      BY <1>4, <2>1
    <3>3. i = j
      BY <1>3, <3>1, <3>2
    <3> QED BY <1>3, <2>1, <3>3
  <2> QED BY <1>12, <2>1 DEF Apart
<1>14. ClaimsKept(k)'
  <2>1. UpTo(k) \cap Level(k + 1) = {}
    BY LevelFacts
  <2> QED BY <1>1, <2>1 DEF ClaimsKept
<1>15. EdgesLeft(k)'
  <2> SUFFICES ASSUME NEW x \in Level(k), NEW y \in out_neigh(g, x)
               PROVE  \E t \in Thread : <<x, y>> \in Left(t)'
    BY <1>1 DEF EdgesLeft
  <2>1. x \in Node /\ Dep[x] = k /\ <<x, y>> \in g.edges
    BY LevelFacts, EdgePlaces
  <2> QED BY <1>7, <2>1
<1> QED BY <1>1, <1>10, <1>11, <1>13, <1>14, <1>15 DEF WorkOK

\* All threads pass to the same place and keep their loop variables.
LEMMA AllMove ==
    ASSUME local \in [Thread -> LocalType], NEW p \in Places,
           local' = [t \in Thread |-> [local[t] EXCEPT !.pc = p]]
    PROVE  /\ local' \in [Thread -> LocalType]
           /\ \A t \in Thread : /\ local'[t].pc = p
                                /\ local'[t].nbrs = local[t].nbrs
                                /\ local'[t].depth = local[t].depth
<1>1. ASSUME NEW x \in LocalType
      PROVE  /\ [x EXCEPT !.pc = p] \in LocalType
             /\ [x EXCEPT !.pc = p].pc = p
             /\ [x EXCEPT !.pc = p].nbrs = x.nbrs
             /\ [x EXCEPT !.pc = p].depth = x.depth
  BY DEF LocalType
<1>2. \A t \in Thread : local[t] \in LocalType /\ local'[t] = [local[t] EXCEPT !.pc = p]
  OBVIOUS
<1>3. \A t \in Thread : local'[t] \in LocalType
  BY <1>1, <1>2
<1> QED BY <1>1, <1>2, <1>3

\* All threads wait at the barrier of line 84: the level is done.
LEMMA BarrierStep ==
    ASSUME NEW k, Searching(k), WorkOK(k), Barrier
    PROVE  Types' /\ SlideOK(k)'
<1>1. /\ Types /\ k \in Nat /\ source \in Node /\ IsGraph(g) /\ QP!IInv /\ local \in [Thread -> LocalType]
      /\ \A t \in Thread : ThreadOK(k, t) /\ local[t].pc = "barrier"
      /\ UNCHANGED <<args, marks, sums, depth_index, phase, todo, qvars>> /\ single_taken' = FALSE
  BY GraphsAssumption DEF Barrier, AllAt, Searching, Types, WorkOK
<1>2. \A t \in Thread : local[t].nbrs = {} /\ todo[t] = {} /\ Empty(t) /\ local[t].depth = k + 1
                        /\ Level(k) # {}
  BY <1>1 DEF ThreadOK, Inner
<1>3. /\ local' \in [Thread -> LocalType]
      /\ \A t \in Thread : local'[t].pc = "single" /\ local'[t].nbrs = {} /\ local'[t].depth = k + 1
  <2>1. local' = [t \in Thread |-> [local[t] EXCEPT !.pc = "single"]]
    BY DEF Barrier
  <2>2. "single" \in Places
    BY DEF Places
  <2>3. /\ local' \in [Thread -> LocalType]
        /\ \A t \in Thread : /\ local'[t].pc = "single"
                             /\ local'[t].nbrs = local[t].nbrs
                             /\ local'[t].depth = local[t].depth
    BY <1>1, <2>1, <2>2, AllMove
  <2> QED BY <1>2, <2>3
<1>4. UNCHANGED <<g, sources>> /\ todo' = todo /\ shared' = shared /\ shared_out_start' = shared_out_start
  BY <1>1 DEF args, opts, qvars
<1>5. \A t \in Thread : /\ Left(t) = {} /\ Unmarked(t) = {} /\ Left(t)' = {} /\ Unmarked(t)' = {}
                        /\ \A v : ~Pushing(t, v)
  BY <1>1, <1>2, <1>3, <1>4 DEF Left, Unmarked, Pushing
<1>6. Visited = UpTo(k + 1)
  <2>1. Level(k + 1) \subseteq Visited
    <3>1. \A x \in Level(k) : \A y \in out_neigh(g, x) : y \in Visited
      BY <1>5 DEF WorkOK, EdgesLeft
    <3>2. \A y \in Level(k + 1) : \E x \in Level(k) : y \in out_neigh(g, x)
      BY <1>1, LevelFacts
    <3> QED BY <3>1, <3>2
  <2>2. UpTo(k) \subseteq Visited /\ Visited \subseteq UpTo(k + 1)
    BY DEF WorkOK, LevelOK
  <2>3. UpTo(k + 1) = UpTo(k) \cup Level(k + 1)
    BY <1>1, LevelFacts
  <2> QED BY <2>1, <2>2, <2>3
<1>7. QP!Hidden = Level(k + 1) /\ UpTo(k + 1) \subseteq QP!Pushed
  <2>1. UpTo(k + 1) = UpTo(k) \cup Level(k + 1)
    BY <1>1, LevelFacts
  <2>2. Level(k + 1) \subseteq QP!Hidden
    BY <1>5, <1>6, <2>1 DEF WorkOK, ClaimsKept
  <2>3. QP!Hidden \subseteq QP!Pushed
    BY <1>1, QueueReads
  <2> QED BY <2>1, <2>2, <2>3 DEF WorkOK, LevelOK
<1>8. /\ QP!IInv' /\ QP!Hidden' = QP!Hidden /\ QP!Pushed' = QP!Pushed /\ QP!Window' = QP!Window
      /\ Q!Quiescent'
  <2>1. Q!Quiescent
    BY <1>2 DEF Q!Quiescent, Empty
  <2> QED BY <1>1, <2>1, NoQueueEffect DEF WindowKept
<1>9. Types'
  <2>1. UNCHANGED <<args, phase, deltas, depths, path_counts, succ>> /\ single_taken' \in BOOLEAN
    BY <1>1 DEF sums, marks
  <2> QED BY <1>1, <1>3, <1>4, <1>8, <2>1, TypesKeep DEF Types
<1>10. /\ \A n : Level(n)' = Level(n) /\ UpTo(n)' = UpTo(n) /\ TreeEdges(n)' = TreeEdges(n)
       /\ Visited' = Visited
  BY <1>1, <1>4, SameLevels DEF Visited, marks
<1>11. Counted(k)' = Counted(k) /\ Marked(k)' = Marked(k)
  BY <1>5, <1>10 DEF Counted, Marked
<1>12. LevelOK(k)'
  BY <1>1, <1>4, <1>8, <1>11, LevelSame DEF WorkOK
<1>13. Recorded(k)'
  BY <1>1, <1>4, RecordedKeeps DEF WorkOK
<1>14. Level(k) # {}
  BY <1>2, ThreadAssumption
<1>15. QP!Window' = Level(k)' /\ QP!Hidden' = Level(k + 1)'
  BY <1>7, <1>8, <1>10 DEF WorkOK
<1> QED BY <1>1, <1>2, <1>3, <1>4, <1>6, <1>7, <1>8, <1>9, <1>10, <1>12, <1>13, <1>14, <1>15 DEF SlideOK

\* The window becomes the last level recorded.
LEMMA RecordedGrows ==
    ASSUME QP!IInv, NEW k \in Nat, Recorded(k), QP!Window = Level(k), UNCHANGED <<g, sources, shared>>,
           depth_index' = Append(depth_index, shared_out_start), shared_out_start' = shared_out_end
    PROVE  Recorded(k + 1)'
<1> DEFINE a == shared_out_start
           z == shared_out_end
           ends == Append(depth_index, a)
           ends1 == Append(ends, z)
<1>1. a \in Nat /\ z \in Nat /\ a <= z
  BY NumNodesAssumption DEF QP!IInv, QP!TypeOK
<1>2. /\ depth_index \in Seq(Nat) /\ Len(depth_index) = k + 1 /\ ends[1] = 0 /\ ends[2] = 0
      /\ \A n \in 2 .. (k + 1) :
            /\ ends[n + 1] <= a
            /\ {shared[i] : i \in ends[n] .. (ends[n + 1] - 1)} = Level(n - 2)
  BY DEF Recorded
<1>3. ends' = ends1 /\ depth_index' = ends /\ shared' = shared
  OBVIOUS
<1>4. ends \in Seq(Nat) /\ Len(ends) = k + 2 /\ ends[k + 2] = a
  BY <1>1, <1>2
<1>5. {shared[i] : i \in a .. (z - 1)} = Level(k)
  BY DEF QP!Window, QP!WindowSlots
<1>6. \A n : Level(n)' = Level(n)
  BY SameLevels
<1> HIDE DEF ends
<1>7. Len(ends1) = k + 3 /\ ends1[k + 3] = z /\ \A n \in 1 .. (k + 2) : ends1[n] = ends[n]
  BY <1>1, <1>4
<1> HIDE DEF ends1
<1>8. ASSUME NEW n \in 2 .. ((k + 1) + 1)
      PROVE  /\ ends1[n + 1] <= z
             /\ {shared[i] : i \in ends1[n] .. (ends1[n + 1] - 1)} = Level(n - 2)
  <2>1. CASE n \in 2 .. (k + 1)
    <3>1. ends1[n] = ends[n] /\ ends1[n + 1] = ends[n + 1]
      BY <1>7, <2>1
    <3>2. ends[n + 1] <= a /\ ends[n + 1] \in Nat
      <4>1. n + 1 \in 1 .. (k + 2)
        BY <2>1
      <4>2. ends[n + 1] \in Nat
        BY <1>4, <4>1
      <4> QED BY <1>2, <2>1, <4>2
    <3>3. {shared[i] : i \in ends[n] .. (ends[n + 1] - 1)} = Level(n - 2)
      BY <1>2, <2>1
    <3> QED BY <1>1, <3>1, <3>2, <3>3
  <2>2. CASE n = k + 2
    <3>1. ends1[n] = a /\ ends1[n + 1] = z /\ n - 2 = k
      BY <1>4, <1>7, <2>2
    <3> QED BY <1>1, <1>5, <3>1
  <2> QED BY <2>1, <2>2
<1>9. ends1[1] = 0 /\ ends1[2] = 0
  BY <1>2, <1>7
<1> DEFINE all == Append(depth_index, shared_out_start)
<1>10. all' = ends1
  BY <1>3 DEF ends, ends1
<1>11. depth_index' \in Seq(Nat) /\ Len(depth_index') = (k + 1) + 1
  BY <1>3, <1>4
<1>12. \A n \in 2 .. ((k + 1) + 1) :
          /\ all'[n + 1] <= shared_out_start'
          /\ {shared'[i] : i \in all'[n] .. (all'[n + 1] - 1)} = Level(n - 2)'
  BY <1>3, <1>6, <1>8, <1>10
<1>13. all'[1] = 0 /\ all'[2] = 0
  BY <1>9, <1>10
<1> HIDE DEF all
<1> QED BY <1>11, <1>12, <1>13 DEF Recorded, all

\* The one thread that executes lines 85-89.
LEMMA SingleStep ==
    ASSUME NEW k, Searching(k), SlideOK(k), NEW t \in Thread, Single(t)
    PROVE  Types' /\ SlideOK(k)'
<1>1. /\ Types /\ k \in Nat /\ source \in Node /\ QP!IInv /\ local \in [Thread -> LocalType]
      /\ local[t].pc = "single" /\ ~single_taken /\ single_taken' = TRUE /\ Goto(t, "single end")
      /\ UNCHANGED <<args, marks, sums, phase, todo>>
      /\ depth_index' = Append(depth_index, shared_out_start) /\ Q!slide_window
  BY DEF Single, At, Searching, Types
<1>2. /\ LevelOK(k) /\ Level(k) # {} /\ Visited = UpTo(k + 1) /\ UpTo(k + 1) \subseteq QP!Pushed
      /\ Recorded(k) /\ Q!Quiescent
      /\ \A s \in Thread : /\ local[s].pc = "single" /\ local[s].depth = k + 1
                           /\ local[s].nbrs = {} /\ todo[s] = {}
      /\ QP!Window = Level(k) /\ QP!Hidden = Level(k + 1)
  BY <1>1 DEF SlideOK
<1>3. /\ local' \in [Thread -> LocalType] /\ local'[t].pc = "single end" /\ local'[t].depth = k + 1
      /\ local'[t].nbrs = {} /\ \A s \in Thread \ {t} : local'[s] = local[s]
  <2>1. "single end" \in Places
    BY DEF Places
  <2> QED BY <1>1, <1>2, <2>1, GotoEffect
<1>4. /\ UNCHANGED <<g, sources>> /\ todo' = todo /\ shared' = shared
      /\ shared_out_start' = shared_out_end
  BY <1>1 DEF args, opts, Q!slide_window
<1>5. QP!IInv' /\ Q!Quiescent' /\ QP!Window' = QP!Hidden /\ QP!Hidden' = {} /\ QP!Pushed' = QP!Pushed
  BY <1>1, <1>2, SlideEffect
<1>6. Types'
  <2>1. UNCHANGED <<args, phase, deltas, depths, path_counts, succ>> /\ single_taken' \in BOOLEAN
    BY <1>1 DEF sums, marks
  <2> QED BY <1>1, <1>3, <1>4, <1>5, <2>1, TypesKeep DEF Types
<1>7. /\ \A n : Level(n)' = Level(n) /\ UpTo(n)' = UpTo(n) /\ TreeEdges(n)' = TreeEdges(n)
      /\ Visited' = Visited
  BY <1>1, <1>4, SameLevels DEF Visited, marks
<1>8. \A s \in Thread : local'[s].nbrs = {} /\ todo'[s] = {} /\ local'[s].depth = k + 1
                        /\ local'[s].pc \in {"single", "single end"}
  BY <1>2, <1>3, <1>4
<1>9. \A s \in Thread : Left(s) = {} /\ Unmarked(s) = {} /\ Left(s)' = {} /\ Unmarked(s)' = {}
  BY <1>2, <1>8 DEF Left, Unmarked
<1>10. Counted(k)' = Counted(k) /\ Marked(k)' = Marked(k)
  BY <1>7, <1>9 DEF Counted, Marked
<1>11. LevelOK(k)'
  BY <1>1, <1>2, <1>4, <1>5, <1>10, LevelSame
<1>12. Recorded(k + 1)'
  BY <1>1, <1>2, <1>4, RecordedGrows
<1> QED BY <1>1, <1>2, <1>5, <1>6, <1>7, <1>8, <1>11, <1>12 DEF SlideOK

\* The others pass it by.
LEMMA PassSingleStep ==
    ASSUME NEW k, Searching(k), SlideOK(k), NEW t \in Thread, PassSingle(t)
    PROVE  Types' /\ SlideOK(k)'
<1>1. /\ Types /\ k \in Nat /\ source \in Node /\ QP!IInv /\ local \in [Thread -> LocalType]
      /\ local[t].pc = "single" /\ single_taken /\ single_taken' = single_taken /\ Goto(t, "single end")
      /\ UNCHANGED <<args, marks, sums, depth_index, phase, todo, qvars>>
  BY DEF PassSingle, At, Searching, Types
<1>2. /\ LevelOK(k) /\ Level(k) # {} /\ Visited = UpTo(k + 1) /\ UpTo(k + 1) \subseteq QP!Pushed
      /\ Recorded(k + 1) /\ Q!Quiescent
      /\ \A s \in Thread : /\ local[s].pc \in {"single", "single end"} /\ local[s].depth = k + 1
                           /\ local[s].nbrs = {} /\ todo[s] = {}
      /\ QP!Window = Level(k + 1) /\ QP!Hidden = {}
  BY <1>1 DEF SlideOK
<1>3. /\ local' \in [Thread -> LocalType] /\ local'[t].pc = "single end" /\ local'[t].depth = k + 1
      /\ local'[t].nbrs = {} /\ \A s \in Thread \ {t} : local'[s] = local[s]
  <2>1. "single end" \in Places
    BY DEF Places
  <2> QED BY <1>1, <1>2, <2>1, GotoEffect
<1>4. /\ UNCHANGED <<g, sources, depth_index, shared_out_start>> /\ todo' = todo /\ shared' = shared
  BY <1>1 DEF args, opts, qvars
<1>5. /\ QP!IInv' /\ (Q!Quiescent' <=> Q!Quiescent) /\ QP!Window' = QP!Window /\ QP!Hidden' = QP!Hidden
      /\ QP!Pushed' = QP!Pushed
  BY <1>1, NoQueueEffect DEF WindowKept
<1>6. Types'
  <2>1. UNCHANGED <<args, phase, deltas, depths, path_counts, succ>> /\ single_taken' \in BOOLEAN
    BY <1>1 DEF sums, marks, Types
  <2> QED BY <1>1, <1>3, <1>4, <1>5, <2>1, TypesKeep DEF Types
<1>7. /\ \A n : Level(n)' = Level(n) /\ UpTo(n)' = UpTo(n) /\ TreeEdges(n)' = TreeEdges(n)
      /\ Visited' = Visited
  BY <1>1, <1>4, SameLevels DEF Visited, marks
<1>8. \A s \in Thread : local'[s].nbrs = {} /\ todo'[s] = {} /\ local'[s].depth = k + 1
                        /\ local'[s].pc \in {"single", "single end"}
  BY <1>2, <1>3, <1>4
<1>9. \A s \in Thread : Left(s) = {} /\ Unmarked(s) = {} /\ Left(s)' = {} /\ Unmarked(s)' = {}
  BY <1>2, <1>8 DEF Left, Unmarked
<1>10. Counted(k)' = Counted(k) /\ Marked(k)' = Marked(k)
  BY <1>7, <1>9 DEF Counted, Marked
<1>11. LevelOK(k)'
  BY <1>1, <1>2, <1>4, <1>5, <1>10, LevelSame
<1>12. Recorded(k + 1)'
  <2>1. k \in Nat
    BY DEF Searching
  <2>2. k + 1 \in Nat
    BY <2>1
  <2> QED BY <1>1, <1>2, <1>4, <2>2, RecordedKeeps
<1> QED BY <1>1, <1>2, <1>5, <1>6, <1>7, <1>8, <1>11, <1>12 DEF SlideOK

\* All threads leave the omp single together; a level begins.
LEMMA EndSingleStep ==
    ASSUME NEW k, Searching(k), SlideOK(k), EndSingle
    PROVE  Types' /\ WorkOK(k + 1)' /\ k <= NumNodes
<1>0. k \in Nat
  BY DEF Searching
<1> DEFINE m == k + 1
<1>00. m \in Nat /\ m - 1 = k
  BY <1>0
<1> HIDE DEF m
<1>1. /\ Types /\ k \in Nat /\ source \in Node /\ IsGraph(g) /\ QP!IInv /\ local \in [Thread -> LocalType]
      /\ \A t \in Thread : local[t].pc = "single end"
      /\ UNCHANGED <<args, marks, sums, depth_index, phase, single_taken, qvars>>
      /\ local' = [t \in Thread |-> [local[t] EXCEPT !.pc = "while"]]
      /\ todo' \in Schedules(Q!WindowSlots)
  BY GraphsAssumption DEF EndSingle, AllAt, Searching, Types
<1>2. single_taken
  BY <1>1, ThreadAssumption DEF SlideOK
<1>3. /\ LevelOK(k) /\ Level(k) # {} /\ Visited = UpTo(k + 1) /\ UpTo(k + 1) \subseteq QP!Pushed
      /\ Recorded(k + 1) /\ Q!Quiescent
      /\ \A s \in Thread : local[s].depth = k + 1 /\ local[s].nbrs = {} /\ todo[s] = {}
      /\ QP!Window = Level(k + 1) /\ QP!Hidden = {}
  BY <1>2 DEF SlideOK
<1>4. /\ local' \in [Thread -> LocalType]
      /\ \A t \in Thread : local'[t].pc = "while" /\ local'[t].depth = k + 1 /\ local'[t].nbrs = {}
  <2>1. "while" \in Places
    BY DEF Places, Working
  <2>2. /\ local' \in [Thread -> LocalType]
        /\ \A t \in Thread : /\ local'[t].pc = "while"
                             /\ local'[t].nbrs = local[t].nbrs
                             /\ local'[t].depth = local[t].depth
    BY <1>1, <2>1, AllMove
  <2> QED BY <1>3, <2>2
<1>5. /\ UNCHANGED <<g, sources, depth_index, shared_out_start>> /\ shared' = shared
      /\ local_queue' = local_queue /\ copy_start' = copy_start
      /\ depths' = depths /\ path_counts' = path_counts /\ succ' = succ /\ Visited' = Visited
  BY <1>1 DEF args, opts, qvars, marks, Visited
<1>6. /\ QP!IInv' /\ QP!Window' = QP!Window /\ QP!Hidden' = QP!Hidden
      /\ QP!Pushed' = QP!Pushed /\ Q!WindowSlots' = Q!WindowSlots
  BY <1>1, NoQueueEffect DEF WindowKept
<1>7. k <= NumNodes
  BY <1>1, <1>3, LevelFacts
<1>8. Recorded(k + 1)'
  <2>1. Recorded(m)
    BY <1>3 DEF m
  <2>2. Recorded(m)'
    BY <1>00, <1>1, <1>5, <2>1, RecordedKeeps
  <2> QED BY <2>2 DEF m
<1>9. todo' \in [Thread -> SUBSET Node]
  <2>1. Q!WindowSlots \subseteq Node
    BY <1>1, QueueReads
  <2>2. todo' \in [Thread -> SUBSET Q!WindowSlots]
    BY <1>1, ScheduleDivides DEF Divides
  <2> QED BY <2>1, <2>2
<1>10. Types'
  <2>1. UNCHANGED <<args, phase, deltas, depths, path_counts, succ, single_taken>>
    BY <1>1 DEF sums, marks
  <2> QED BY <1>1, <1>4, <1>6, <1>9, <2>1, TypesKeep DEF Types
<1>11. Above(k + 1) = TreeEdges(k) /\ Counted(k) = TreeEdges(k) /\ Marked(k) = TreeEdges(k)
  <2>1. \A t \in Thread : Left(t) = {} /\ Unmarked(t) = {}
    BY <1>3 DEF Left, Unmarked
  <2>2. (k + 1) - 1 = k
    BY <1>0
  <2> QED BY <2>1, <2>2 DEF Above, TreeEdges, Counted, Marked
<1>12. \A t \in Thread : Empty(t)'
  BY <1>3, <1>5 DEF Empty, Q!Quiescent, Q!Copying
<1>13. QP!Pushed = UpTo(k + 1)
  BY <1>3 DEF LevelOK
<1>14. \A i, j \in Q!WindowSlots' : shared'[i] = shared'[j] => i = j
  BY <1>1, <1>5, <1>6, WindowOnce
<1>15. /\ \A v \in UpTo(k + 1) : depths'[v] = Dep[v]
       /\ \A y \in Node : path_counts'[y] = IF y = source THEN 1
                                            ELSE Sum(path_counts', {x \in Node : <<x, y>> \in Above(k + 1)})
       /\ succ' = {EdgeIndex(e) : e \in Above(k + 1)}
  BY <1>3, <1>5, <1>11 DEF LevelOK, PathSums
<1>16. k + 1 \in Nat /\ todo' \in Schedules(Q!WindowSlots')
  BY <1>00, <1>1, <1>6 DEF m
<1> HIDE DEF EndSingle
<1>17. WorkOK(k + 1)'
  BY <1>1, <1>3, <1>4, <1>5, <1>6, <1>8, <1>12, <1>13, <1>14, <1>15, <1>16, LevelBegins
<1> QED BY <1>7, <1>10, <1>17

-----------------------------------------------------------------------------
\* The search as a whole.

\* While there is a source, it is a vertex.
LEMMA SourceIsNode ==
    ASSUME Types, PickersOK, phase \in {"push_back", "slide_window", "PBFS", "back"}
    PROVE  source \in Node /\ Len(sources) \in DOMAIN sources /\ IsGraph(g)
<1>1. sources \in Seq(Node) /\ sources # <<>>
  BY DEF Types, PickersOK
<1>2. Len(sources) \in DOMAIN sources
  BY <1>1
<1>3. IsGraph(g)
  BY GraphsAssumption DEF Types
<1> QED BY <1>1, <1>2, <1>3 DEF source

\* A step of a thread.
LEMMA ThreadStepKeeps ==
    ASSUME NEW k \in Nat, Searching(k), WorkOK(k) \/ SlideOK(k), NEW t \in Thread, ThreadStep(t)
    PROVE  /\ Types' /\ (WorkOK(k)' \/ SlideOK(k)')
           /\ UNCHANGED <<args, sums, phase>>
<1>1. UNCHANGED <<args, sums, phase>>
  BY DEF ThreadStep, While, TakeVertex, Test, Cas, Push, SuccLoad, SuccSwap, Count, Flush, Single,
         PassSingle, marks
<1>2. CASE WorkOK(k)
  <2>1. local[t].pc \in Working
    BY <1>2 DEF WorkOK, ThreadOK
  <2>2. ~Single(t) /\ ~PassSingle(t)
    BY <2>1 DEF Single, PassSingle, At, Working, Inner
  <2> QED BY <1>1, <1>2, <2>2, WhileStep, TakeVertexStep, TestStep, CasStep, PushStep, SuccLoadStep,
             SuccSwapStep, CountStep, FlushStep DEF ThreadStep
<1>3. CASE SlideOK(k)
  <2>1. local[t].pc \in {"single", "single end"}
    BY <1>3 DEF SlideOK
  <2>2. Single(t) \/ PassSingle(t)
    BY <2>1 DEF ThreadStep, While, TakeVertex, Test, Cas, Push, SuccLoad, SuccSwap, Count, Flush, At
  <2> QED BY <1>1, <1>3, <2>2, SingleStep, PassSingleStep
<1> QED BY <1>2, <1>3

\* A step of the team within the search.
LEMMA TeamStepKeeps ==
    ASSUME NEW k \in 0 .. (NumNodes + 1), Searching(k), WorkOK(k) \/ SlideOK(k), Barrier \/ EndSingle
    PROVE  /\ Types' /\ \E n \in 0 .. (NumNodes + 1) : WorkOK(n)' \/ SlideOK(n)'
           /\ UNCHANGED <<args, sums, phase>>
<1>1. UNCHANGED <<args, sums, phase>>
  BY DEF Barrier, EndSingle
<1>2. CASE Barrier
  <2>1. \A t \in Thread : local[t].pc = "barrier"
    BY <1>2 DEF Barrier, AllAt
  <2>2. WorkOK(k)
    BY <2>1, ThreadAssumption DEF SlideOK
  <2> QED BY <1>1, <1>2, <2>2, BarrierStep
<1>3. CASE EndSingle
  <2>1. \A t \in Thread : local[t].pc = "single end"
    BY <1>3 DEF EndSingle, AllAt
  <2>2. SlideOK(k)
    BY <2>1, ThreadAssumption DEF WorkOK, ThreadOK, Working, Inner
  <2>3. Types' /\ WorkOK(k + 1)' /\ k <= NumNodes
    BY <1>3, <2>2, EndSingleStep
  <2>4. k + 1 \in 0 .. (NumNodes + 1)
    BY <2>3, NumNodesAssumption
  <2> QED BY <1>1, <2>3, <2>4
<1> QED BY <1>2, <1>3

\* The first level begins.
LEMMA StartPBFSStep ==
    ASSUME Types, PickersOK, PhaseOK, StartPBFS
    PROVE  Types' /\ WorkOK(0)'
<1>1. /\ phase = "slide_window" /\ Q!slide_window /\ phase' = "PBFS" /\ QP!IInv
      /\ todo' \in Schedules(shared_out_end .. (shared_in - 1))
      /\ local' = [t \in Thread |-> [Unborn EXCEPT !.pc = "while"]]
      /\ UNCHANGED <<args, marks, sums, depth_index, single_taken>>
  BY DEF StartPBFS, Types
<1>2. source \in Node /\ IsGraph(g)
  BY <1>1, SourceIsNode
<1>3. /\ depths = [n \in Node |-> IF n = source THEN 0 ELSE -1]
      /\ path_counts = [n \in Node |-> IF n = source THEN 1 ELSE 0]
      /\ succ = {} /\ QP!Hidden = {source} /\ QP!Pushed = {source} /\ depth_index = <<0>>
      /\ shared_out_start = 0 /\ shared_out_end = 0 /\ Q!Quiescent
  BY <1>1 DEF PhaseOK, Begun
<1>4. /\ local' \in [Thread -> LocalType]
      /\ \A t \in Thread : local'[t].pc = "while" /\ local'[t].depth = 0 /\ local'[t].nbrs = {}
  BY <1>1, NodeNat DEF Unborn, LocalType, Places, Working
<1>5. /\ UNCHANGED <<g, sources>> /\ shared' = shared /\ shared_out_start' = 0
      /\ local_queue' = local_queue /\ copy_start' = copy_start
      /\ depths' = depths /\ path_counts' = path_counts /\ succ' = succ /\ Visited' = Visited
      /\ Q!WindowSlots' = shared_out_end .. (shared_in - 1)
  BY <1>1, <1>3 DEF args, opts, Q!slide_window, marks, Visited, Q!WindowSlots
<1>6. QP!IInv' /\ Q!Quiescent' /\ QP!Window' = QP!Hidden /\ QP!Hidden' = {} /\ QP!Pushed' = QP!Pushed
  BY <1>1, <1>3, SlideEffect
<1>7. /\ shared_in \in 0 .. NumNodes
      /\ \A i, j \in Q!WindowSlots' : shared'[i] = shared'[j] => i = j
  <2>1. shared_in \in 0 .. NumNodes
    BY <1>1, <1>3, PushedCount
  <2>2. \A i \in 0 .. (shared_in - 1) : i \in QP!Filled
    BY <1>3, SameQueue DEF QP!Filled, QP!Claimed, QP!Quiescent
  <2>3. \A i \in Q!WindowSlots' : i \in QP!Filled
    BY <1>3, <1>5, <2>1, <2>2
  <2> QED BY <1>1, <1>5, <2>1, <2>3 DEF QP!IInv, QP!HeldOnce
<1>8. todo' \in [Thread -> SUBSET Node]
  <2>1. todo' \in [Thread -> SUBSET (shared_out_end .. (shared_in - 1))]
    BY <1>1, ScheduleDivides DEF Divides
  <2>2. shared_out_end .. (shared_in - 1) \subseteq Node
    BY <1>3, <1>7, NumNodesAssumption DEF Node
  <2> QED BY <2>1, <2>2
<1>9. Types'
  <2>1. UNCHANGED <<args, deltas, depths, path_counts, succ, single_taken>>
    BY <1>1, <1>5 DEF sums
  <2> QED BY <1>1, <1>4, <1>6, <1>8, <2>1 DEF Types, args, opts, Phases
<1>10. /\ QP!Window' = Level(0) /\ QP!Pushed' = UpTo(0) /\ Visited' = UpTo(0)
       /\ \A v \in UpTo(0) : depths'[v] = Dep[v]
  <2>1. Visited = {source}
    BY <1>2, <1>3 DEF Visited
  <2> QED BY <1>2, <1>3, <1>5, <1>6, <2>1, FirstLevel
<1>11. Recorded(0)'
  <2> DEFINE ends == Append(depth_index, shared_out_start)
  <2>1. depth_index' = <<0>> /\ shared_out_start' = 0
    BY <1>1, <1>3, <1>5
  <2>2. Append(<<0>>, 0)[1] = 0 /\ Append(<<0>>, 0)[2] = 0 /\ <<0>> \in Seq(Nat) /\ Len(<<0>>) = 0 + 1
    OBVIOUS
  <2>3. ends' = Append(<<0>>, 0)
    BY <2>1
  <2>4. depth_index' \in Seq(Nat) /\ Len(depth_index') = 0 + 1 /\ ends'[1] = 0 /\ ends'[2] = 0
    BY <2>1, <2>2, <2>3
  <2>5. \A n \in 2 .. (0 + 1) : FALSE
    OBVIOUS
  <2> HIDE DEF ends
  <2> QED BY <2>4, <2>5 DEF Recorded, ends
<1>12. Above(0) = {}
  BY <1>2, LevelFacts DEF Above
<1>13. \A y \in Node : path_counts'[y] = IF y = source THEN 1
                                         ELSE Sum(path_counts', {x \in Node : <<x, y>> \in Above(0)})
  <2>1. \A y : {x \in Node : <<x, y>> \in Above(0)} = {}
    BY <1>12
  <2>2. Sum(path_counts', {}) = 0
    BY FS_EmptySet, SumPick
  <2> QED BY <1>3, <1>5, <2>1, <2>2
<1>14. succ' = {EdgeIndex(e) : e \in Above(0)}
  BY <1>3, <1>5, <1>12
<1>15. \A t \in Thread : Empty(t)'
  BY <1>3, <1>5 DEF Empty, Q!Quiescent, Q!Copying
<1>16. todo' \in Schedules(Q!WindowSlots')
  BY <1>1, <1>5
<1> HIDE DEF StartPBFS
<1>17. WorkOK(0)'
  BY <1>2, <1>4, <1>5, <1>6, <1>7, <1>10, <1>11, <1>13, <1>14, <1>15, <1>16, LevelBegins
<1> QED BY <1>9, <1>17

\* The search ends: everything that can be reached has been reached, and every
\* edge on a shortest path is marked and counted.
LEMMA EndPBFSStep ==
    ASSUME NEW k, Searching(k), WorkOK(k), EndPBFS
    PROVE  /\ Types' /\ Found' /\ Q!Quiescent'
           /\ \A n \in Node : Dep[n] < d' - 1
           /\ d' + 1 = Len(depth_index')
<1>0. k \in Nat
  BY DEF Searching
<1>1. /\ Types /\ source \in Node /\ IsGraph(g) /\ QP!IInv
      /\ \A t \in Thread : local[t].pc = "end" /\ ThreadOK(k, t)
      /\ depth_index' = Append(depth_index, shared_out_start)
      /\ deltas' = [n \in Node |-> Zero] /\ d' = Len(depth_index) /\ left' = {} /\ phase' = "back"
      /\ UNCHANGED <<args, marks, scores, single_taken, todo, local, qvars>>
  BY GraphsAssumption DEF EndPBFS, AllAt, Searching, Types, WorkOK
<1>2. \A t \in Thread : local[t].nbrs = {} /\ todo[t] = {} /\ Empty(t) /\ Level(k) = {}
  BY <1>1 DEF ThreadOK, Inner
<1>3. Level(k) = {} /\ Q!Quiescent
  BY <1>2, ThreadAssumption DEF Q!Quiescent, Empty
<1>4. UpTo(k) = {v \in Node : Dep[v] # -1} /\ Level(k + 1) = {}
  BY <1>0, <1>1, <1>3, LastLevel
<1>5. /\ \A v \in Node : Dep[v] \in Int /\ Dep[v] >= -1 /\ Dep[v] <= NumNodes
      /\ UpTo(k + 1) = UpTo(k)
  <2>1. UpTo(k + 1) = UpTo(k) \cup Level(k + 1)
    BY <1>0, <1>1, LevelFacts
  <2> QED BY <1>1, <1>4, <2>1, LevelFacts
<1>6. \A v \in Node : Dep[v] < k
  <2>1. \A v \in Node : Dep[v] # k
    BY <1>3 DEF Level, Dep
  <2>2. \A v \in Node : Dep[v] # -1 => Dep[v] \in 0 .. k
    BY <1>4 DEF UpTo
  <2> QED BY <1>0, <1>5, <2>1, <2>2
<1>7. Visited = UpTo(k) /\ QP!Pushed = Visited
  BY <1>5 DEF WorkOK, LevelOK
<1>8. depths = Dep
  <2>1. depths \in [Node -> -1 .. NumNodes] /\ Dep \in [Node -> Unreached .. NumNodes]
    BY <1>1, DepthFacts DEF Types, Dep
  <2>2. \A v \in Node : depths[v] = Dep[v]
    BY <1>4, <1>7 DEF WorkOK, LevelOK, Visited
  <2> HIDE DEF Dep
  <2> QED BY <2>1, <2>2
<1>9. \A t \in Thread : Left(t) = {} /\ Unmarked(t) = {}
  BY <1>2 DEF Left, Unmarked
<1>10. Counted(k) = TreeEdges(k) /\ Marked(k) = TreeEdges(k)
  BY <1>9 DEF Counted, Marked
<1>11. \A x \in Node : Dep[x] \in 0 .. k <=> Dep[x] # -1
  BY <1>0, <1>5, <1>6
<1>12. CountsPaths(source, path_counts)
  <2>1. ASSUME NEW y \in Node PROVE {x \in Node : <<x, y>> \in TreeEdges(k)} = Parents(source, y)
    <3>1. \A x \in Node : <<x, y>> \in TreeEdges(k) <=>
             <<x, y>> \in g.edges /\ Dep[x] \in 0 .. k /\ Dep[y] = Dep[x] + 1
      BY DEF TreeEdges
    <3>2. \A x \in Node : Dep[x] \in 0 .. k <=> Dep[x] >= 0
      BY <1>0, <1>5, <1>6
    <3>3. \A x \in Node : x \in Parents(source, y) <=>
             <<x, y>> \in g.edges /\ Dep[x] >= 0 /\ Dep[y] = Dep[x] + 1
      BY DEF Parents, Dep, in_neigh
    <3>4. Parents(source, y) \subseteq Node
      BY <1>1, Neighbours
    <3> QED BY <3>1, <3>2, <3>3, <3>4
  <2>2. PathSums(k)
    BY DEF WorkOK, LevelOK
  <2> QED BY <1>10, <2>1, <2>2 DEF PathSums, CountsPaths
<1>14. succ = {EdgeIndex(e) : e \in {f \in g.edges : Dep[f[1]] # -1 /\ Dep[f[2]] = Dep[f[1]] + 1}}
  <2>1. TreeEdges(k) = {f \in g.edges : Dep[f[1]] # -1 /\ Dep[f[2]] = Dep[f[1]] + 1}
    BY <1>1, <1>11, EdgePlaces DEF TreeEdges
  <2> QED BY <1>10, <2>1 DEF WorkOK, LevelOK
<1>15. /\ UNCHANGED <<g, sources>> /\ shared' = shared /\ shared_in' = shared_in /\ depths' = depths
       /\ path_counts' = path_counts /\ succ' = succ /\ Visited' = Visited /\ source' = source
       /\ Dep' = Dep /\ (\A n : Level(n)' = Level(n)) /\ (\A e : EdgeIndex(e)' = EdgeIndex(e))
  BY <1>1, SameLevels DEF args, opts, qvars, marks, Visited
<1>16. QP!IInv' /\ Q!Quiescent'
  BY <1>1, <1>3, NoQueueEffect
<1>17. Types'
  <2>1. deltas' \in [Node -> Fraction]
    BY <1>1, Fractions
  <2> QED BY <1>1, <1>15, <1>16, <2>1 DEF Types, args, opts, Phases
<1>18. /\ depth_index' \in Seq(Nat) /\ Len(depth_index') = k + 2 /\ d' = k + 1
       /\ depth_index'[1] = 0 /\ depth_index'[2] = 0
       /\ \A n \in 2 .. (k + 1) :
             /\ depth_index'[n + 1] <= shared_out_start
             /\ {shared[i] : i \in depth_index'[n] .. (depth_index'[n + 1] - 1)} = Level(n - 2)
  <2>1. shared_out_start \in Nat
    BY <1>1, NumNodesAssumption DEF QP!IInv, QP!TypeOK
  <2>2. Recorded(k)
    BY DEF WorkOK
  <2>3. depth_index \in Seq(Nat) /\ Len(depth_index) = k + 1
    BY <2>2 DEF Recorded
  <2>4. depth_index' \in Seq(Nat) /\ Len(depth_index') = k + 2
    BY <1>0, <1>1, <2>1, <2>3
  <2> QED BY <1>1, <2>2, <2>3, <2>4 DEF Recorded
<1>19. shared_out_start <= shared_in /\ shared_out_start \in Nat /\ shared_in \in Nat
       /\ shared_in = Cardinality(Visited)
  BY <1>1, <1>3, <1>7, PushedCount, NumNodesAssumption DEF QP!IInv, QP!TypeOK
<1>20. \A n \in 2 .. (Len(depth_index') - 1) :
          /\ depth_index'[n + 1] <= shared_in'
          /\ {shared'[i] : i \in depth_index'[n] .. (depth_index'[n + 1] - 1)} = Level(n - 2)'
  <2> SUFFICES ASSUME NEW n \in 2 .. (Len(depth_index') - 1)
               PROVE  /\ depth_index'[n + 1] <= shared_in'
                      /\ {shared'[i] : i \in depth_index'[n] .. (depth_index'[n + 1] - 1)} = Level(n - 2)'
    OBVIOUS
  <2>1. n \in 2 .. (k + 1) /\ n + 1 \in 1 .. Len(depth_index')
    BY <1>0, <1>18
  <2>2. depth_index'[n + 1] \in Nat
    BY <1>18, <2>1
  <2>3. depth_index'[n + 1] <= shared_out_start
    BY <1>18, <2>1
  <2>4. {shared[i] : i \in depth_index'[n] .. (depth_index'[n + 1] - 1)} = Level(n - 2)
    BY <1>18, <2>1
  <2>5. depth_index'[n + 1] <= shared_in'
    BY <1>15, <1>19, <2>2, <2>3
  <2> QED BY <1>15, <2>4, <2>5
<1>21. Found'
  <2>1. depths' = Dep' /\ CountsPaths(source, path_counts)'
    BY <1>1, <1>8, <1>12, <1>15, SameSource DEF args, opts
  <2>2. succ' = {EdgeIndex(e)' : e \in {f \in g.edges' : Dep'[f[1]] # -1 /\ Dep'[f[2]] = Dep'[f[1]] + 1}}
    BY <1>14, <1>15
  <2>3. Len(depth_index') >= 2 /\ d' \in 0 .. (Len(depth_index') - 1) /\ left' \subseteq 0 .. (shared_in' - 1)
    BY <1>0, <1>1, <1>18
  <2>4. shared_in' = Cardinality(Visited')
    BY <1>15, <1>19
  <2> QED BY <1>18, <1>20, <2>1, <2>2, <2>3, <2>4 DEF Found
<1>22. \A n \in Node : Dep[n] < d' - 1
  BY <1>0, <1>5, <1>6, <1>18
<1>23. d' + 1 = Len(depth_index')
  BY <1>0, <1>18
<1> QED BY <1>16, <1>17, <1>21, <1>22, <1>23

-----------------------------------------------------------------------------
\* The serial part of a trial.

Core == Types /\ PickersOK /\ PhaseOK

\* A step that asks no picker.
LEMMA PickersKept ==
    ASSUME PickersOK, UNCHANGED args,
           \/ phase' = phase \/ phase' = "iter"
           \/ phase \in {"push_back", "slide_window", "PBFS"} /\ phase' \in {"slide_window", "PBFS", "back"}
           \/ phase' = "verify" /\ Len(sources) = num_iters
    PROVE  PickersOK'
<1>1. /\ given_source' = given_source /\ num_iters' = num_iters /\ picks' = picks /\ sp' = sp
      /\ vsp' = vsp /\ sources' = sources
  BY DEF args, opts
<1> QED BY <1>1 DEF PickersOK

\* The picker returns a vertex: the one it returned to the other picker, the
\* start vertex, or one with an out-edge.
LEMMA StartIterStep ==
    ASSUME Core, StartIter
    PROVE  Core' /\ \E s \in Node : sources' = Append(sources, s)
<1>1. PICK s \in PickNext(sp + 1) :
          /\ sources' = Append(sources, s)
          /\ picks' = IF sp + 1 \in DOMAIN picks THEN picks ELSE Append(picks, s)
          /\ depths' = [n \in Node |-> IF n = s THEN 0 ELSE -1]
          /\ path_counts' = [n \in Node |-> IF n = s THEN 1 ELSE 0]
  BY DEF StartIter
<1>2. /\ phase = "iter" /\ Len(sources) < num_iters /\ sp' = sp + 1 /\ succ' = {}
      /\ Q!reset /\ phase' = "push_back"
      /\ UNCHANGED <<g, given_source, num_trials, num_iters, vsp, deltas, single_taken, todo, local>>
  BY DEF StartIter, opts, sums
<1>3. /\ sp \in Nat /\ vsp \in Nat /\ num_iters \in Nat /\ sp = vsp + Len(sources)
      /\ picks \in Seq(Node) /\ Len(picks) = sp /\ DOMAIN picks = 1 .. sp
      /\ sources \in Seq(Node) /\ DOMAIN sources = 1 .. Len(sources) /\ Len(sources) \in Nat
      /\ \A k \in DOMAIN sources :
            /\ sources[k] = picks[vsp + k]
            /\ given_source # NoVertex => sources[k] = given_source
  <2>1. sources \in Seq(Node) /\ PickersOK
    BY DEF Core, Types
  <2>2. picks \in Seq(Node) /\ Len(picks) = sp
    BY <2>1 DEF PickersOK
  <2> QED BY <2>1, <2>2 DEF PickersOK
<1>4. s \in Node /\ (given_source # NoVertex => s = given_source)
  <2>1. sp + 1 \notin DOMAIN picks
    BY <1>3
  <2>2. given_source \in Node \cup {NoVertex}
    BY StartVerticesAssumption DEF Core, Types
  <2> QED BY <2>1, <2>2 DEF PickNext
<1>5. picks' = Append(picks, s)
  BY <1>1, <1>3
<1>6. /\ sources' \in Seq(Node) /\ Len(sources') = Len(sources) + 1 /\ sources' # <<>>
      /\ DOMAIN sources' = 1 .. (Len(sources) + 1)
      /\ \A k \in 1 .. Len(sources) : sources'[k] = sources[k]
      /\ sources'[Len(sources) + 1] = s
      /\ picks' \in Seq(Node) /\ Len(picks') = sp + 1
      /\ \A k \in 1 .. sp : picks'[k] = picks[k]
      /\ picks'[sp + 1] = s
  <2>1. \A list \in Seq(Node) :
           LET long == Append(list, s)
           IN  /\ long \in Seq(Node) /\ Len(long) = Len(list) + 1 /\ long # <<>>
               /\ DOMAIN long = 1 .. (Len(list) + 1)
               /\ \A k \in 1 .. Len(list) : long[k] = list[k]
               /\ long[Len(list) + 1] = s
    BY <1>4
  <2>2. sources' = Append(sources, s) /\ sources \in Seq(Node) /\ picks \in Seq(Node) /\ Len(picks) = sp
    BY <1>1, <1>3
  <2> QED BY <1>5, <2>1, <2>2
<1>7. \A k \in DOMAIN sources' :
         sources'[k] = picks'[vsp + k] /\ (given_source # NoVertex => sources'[k] = given_source)
  <2> SUFFICES ASSUME NEW k \in 1 .. (Len(sources) + 1)
               PROVE  sources'[k] = picks'[vsp + k] /\ (given_source # NoVertex => sources'[k] = given_source)
    BY <1>6
  <2>1. CASE k = Len(sources) + 1
    <3>1. vsp + k = sp + 1
      BY <1>3, <2>1
    <3> QED BY <1>4, <1>6, <2>1, <3>1
  <2>2. CASE k \in 1 .. Len(sources)
    <3>1. vsp + k \in 1 .. sp
      BY <1>3, <2>2
    <3> QED BY <1>3, <1>6, <2>2, <3>1
  <2> QED BY <1>3, <2>1, <2>2
<1>8. PickersOK'
  BY <1>2, <1>3, <1>6, <1>7 DEF PickersOK
<1>9. /\ QP!IInv' /\ Q!Quiescent' /\ QP!Window' = {} /\ QP!Hidden' = {} /\ QP!Pushed' = {}
      /\ shared_out_start' = 0
  <2>1. QP!IInv /\ Q!Quiescent
    BY <1>2 DEF Core, Types, PhaseOK
  <2> QED BY <1>2, <2>1, ResetEffect DEF Q!reset
<1>10. Types'
  <2>1. depths' \in [Node -> -1 .. NumNodes] /\ path_counts' \in [Node -> Nat]
    BY <1>1, NumNodesAssumption
  <2>2. Len(sources') <= num_iters'
    BY <1>2, <1>3, <1>6
  <2> QED BY <1>2, <1>6, <1>9, <2>1, <2>2 DEF Core, Types, Phases
<1>11. source' = s
  BY <1>3, <1>6 DEF source
<1>12. Begun'
  BY <1>1, <1>2, <1>9, <1>11 DEF Begun
<1>13. PhaseOK'
  BY <1>2, <1>9, <1>12 DEF PhaseOK
<1> QED BY <1>1, <1>4, <1>8, <1>10, <1>13 DEF Core

\* The source is put into the queue.
LEMMA PushSourceStep ==
    ASSUME Core, PushSource
    PROVE  Core'
<1>1. /\ phase = "push_back" /\ Q!SerialPush(source) /\ depth_index' = <<shared_out_start>>
      /\ phase' = "slide_window" /\ UNCHANGED <<args, marks, sums, single_taken, todo, local>>
  BY DEF PushSource, source
<1>2. /\ Begun /\ Q!Quiescent /\ QP!IInv /\ QP!Hidden = {} /\ QP!Pushed = {} /\ shared_out_start = 0
      /\ source \in Node
  BY <1>1, SourceIsNode DEF Core, PhaseOK, Types
<1>3. /\ QP!IInv' /\ Q!Quiescent' /\ QP!Window' = QP!Window
      /\ QP!Hidden' = {source} /\ QP!Pushed' = {source}
  <2>1. source \notin QP!Pushed
    BY <1>2
  <2> QED BY <1>1, <1>2, <2>1, SerialPushEffect
<1>4. source' = source /\ depths' = depths /\ path_counts' = path_counts /\ succ' = succ
  BY <1>1 DEF source, args, marks
<1>5. shared_out_start' = 0 /\ shared_out_end' = 0
  <2>1. Q!empty
    BY <1>2, QueueReads DEF Begun
  <2>2. shared_out_start = shared_out_end
    BY <2>1 DEF Q!empty
  <2> QED BY <1>1, <1>2, <2>2 DEF Q!SerialPush
<1>6. Begun'
  BY <1>2, <1>3, <1>4 DEF Begun
<1>7. PhaseOK'
  BY <1>1, <1>2, <1>3, <1>4, <1>5, <1>6 DEF PhaseOK
<1>8. Types'
  BY <1>1, <1>3 DEF Core, Types, args, opts, marks, sums, Phases
<1>9. PickersOK'
  BY <1>1, PickersKept DEF Core
<1> QED BY <1>7, <1>8, <1>9 DEF Core

\* The first window.
LEMMA StartPBFSCore ==
    ASSUME Core, StartPBFS
    PROVE  Core'
<1>1. Types' /\ WorkOK(0)'
  BY StartPBFSStep DEF Core
<1>2. phase = "slide_window" /\ phase' = "PBFS" /\ UNCHANGED args
  BY DEF StartPBFS
<1>3. 0 \in 0 .. (NumNodes + 1)
  BY NumNodesAssumption
<1>4. PhaseOK'
  BY <1>1, <1>2, <1>3 DEF PhaseOK
<1> QED BY <1>1, <1>2, <1>4, PickersKept DEF Core

\* A step of the search.
LEMMA SearchCore ==
    ASSUME Core, Barrier \/ EndSingle \/ \E t \in Thread : ThreadStep(t)
    PROVE  Core' /\ phase = "PBFS" /\ UNCHANGED <<args, sums, phase>>
<1>1. phase = "PBFS"
  BY DEF Barrier, EndSingle, AllAt, ThreadStep, While, TakeVertex, Test, Cas, Push, SuccLoad, SuccSwap,
         Count, Flush, Single, PassSingle, At
<1>2. PICK k \in 0 .. (NumNodes + 1) : WorkOK(k) \/ SlideOK(k)
  BY <1>1 DEF Core, PhaseOK
<1>3. k \in Nat
  BY NumNodesAssumption
<1>4. Searching(k)
  BY <1>1, <1>3, SourceIsNode DEF Core, Searching
<1>5. /\ Types' /\ \E n \in 0 .. (NumNodes + 1) : WorkOK(n)' \/ SlideOK(n)'
      /\ UNCHANGED <<args, sums, phase>>
  <2>1. CASE Barrier \/ EndSingle
    BY <1>2, <1>4, <2>1, TeamStepKeeps
  <2>2. CASE \E t \in Thread : ThreadStep(t)
    <3>1. PICK t \in Thread : ThreadStep(t)
      BY <2>2
    <3> QED BY <1>2, <1>3, <1>4, <3>1, ThreadStepKeeps
  <2> QED BY <2>1, <2>2
<1>6. PhaseOK'
  BY <1>1, <1>5 DEF PhaseOK
<1> QED BY <1>1, <1>5, <1>6, PickersKept DEF Core

\* The end of the search.
LEMMA EndPBFSCore ==
    ASSUME Core, EndPBFS
    PROVE  Core' /\ (\A n \in Node : Dep[n] < d' - 1) /\ d' + 1 = Len(depth_index')
<1>1. phase = "PBFS" /\ phase' = "back" /\ UNCHANGED args /\ \A t \in Thread : local[t].pc = "end"
  BY DEF EndPBFS, AllAt
<1>2. PICK k \in 0 .. (NumNodes + 1) : WorkOK(k) \/ SlideOK(k)
  BY <1>1 DEF Core, PhaseOK
<1>3. Searching(k)
  BY <1>1, SourceIsNode, NumNodesAssumption DEF Core, Searching
<1>4. WorkOK(k)
  BY <1>1, <1>2, ThreadAssumption DEF SlideOK
<1>5. /\ Types' /\ Found' /\ Q!Quiescent'
      /\ \A n \in Node : Dep[n] < d' - 1
      /\ d' + 1 = Len(depth_index')
  BY <1>3, <1>4, EndPBFSStep
<1>6. PhaseOK'
  BY <1>1, <1>5 DEF PhaseOK
<1> QED BY <1>1, <1>5, <1>6, PickersKept DEF Core

-----------------------------------------------------------------------------
\* The way back through the levels.

\* Nothing that was found is lost.
LEMMA FoundKept ==
    ASSUME Found, UNCHANGED <<g, sources, marks, depth_index, shared, shared_in>>,
           d' \in 0 .. (Len(depth_index) - 1), left' \subseteq 0 .. (shared_in - 1)
    PROVE  Found'
<1>1. /\ depths' = depths /\ path_counts' = path_counts /\ succ' = succ
      /\ depth_index' = depth_index /\ shared' = shared /\ shared_in' = shared_in /\ Visited' = Visited
  BY DEF marks, Visited
<1>2. /\ source' = source /\ Dep' = Dep /\ g' = g
      /\ \A k : Level(k)' = Level(k)
      /\ \A e : EdgeIndex(e)' = EdgeIndex(e)
  BY SameLevels
<1>3. depths' = Dep' /\ CountsPaths(source, path_counts)'
  BY <1>1, <1>2, SameSource DEF Found
<1>4. succ' = {EdgeIndex(e)' : e \in {f \in g.edges' : Dep'[f[1]] # -1 /\ Dep'[f[2]] = Dep'[f[1]] + 1}}
  BY <1>1, <1>2 DEF Found
<1>5. \A n \in 2 .. (Len(depth_index') - 1) :
          /\ depth_index'[n + 1] <= shared_in'
          /\ {shared'[i] : i \in depth_index'[n] .. (depth_index'[n + 1] - 1)} = Level(n - 2)'
  BY <1>1, <1>2 DEF Found
<1> QED BY <1>1, <1>3, <1>4, <1>5 DEF Found

\* The slots of the levels, as the entries of depth_index give them.
Slots(n) == depth_index[n] .. (depth_index[n + 1] - 1)

\* After the search they hold the levels, each vertex once.
LEMMA LevelSlots ==
    ASSUME Core, phase = "back"
    PROVE  /\ Len(depth_index) \in Nat /\ Len(depth_index) >= 2
           /\ d \in 0 .. (Len(depth_index) - 1) /\ left \subseteq 0 .. (shared_in - 1)
           /\ Slots(1) = {}
           /\ \A n \in 2 .. (Len(depth_index) - 1) :
                 Slots(n) \subseteq 0 .. (shared_in - 1) /\ {shared[i] : i \in Slots(n)} = Level(n - 2)
           /\ \A i \in 0 .. (shared_in - 1) :
                 shared[i] \in Node /\ \A j \in 0 .. (shared_in - 1) : shared[i] = shared[j] => i = j
<1>1. Found /\ Q!Quiescent /\ QP!IInv
  BY DEF Core, PhaseOK, Types
<1>2. /\ depth_index \in Seq(Nat) /\ Len(depth_index) >= 2 /\ Len(depth_index) \in Nat
      /\ depth_index[1] = 0 /\ depth_index[2] = 0
      /\ d \in 0 .. (Len(depth_index) - 1) /\ left \subseteq 0 .. (shared_in - 1)
      /\ \A n \in 2 .. (Len(depth_index) - 1) :
            depth_index[n + 1] <= shared_in /\ {shared[i] : i \in Slots(n)} = Level(n - 2)
  <2>1. /\ depth_index \in Seq(Nat) /\ Len(depth_index) >= 2
        /\ depth_index[1] = 0 /\ depth_index[2] = 0
        /\ d \in 0 .. (Len(depth_index) - 1) /\ left \subseteq 0 .. (shared_in - 1)
    BY <1>1 DEF Found
  <2>2. Len(depth_index) \in Nat
    BY <2>1
  <2>3. \A n \in 2 .. (Len(depth_index) - 1) :
            depth_index[n + 1] <= shared_in /\ {shared[i] : i \in Slots(n)} = Level(n - 2)
    BY <1>1, Zenon DEF Found, Slots
  <2> QED BY <2>1, <2>2, <2>3
<1>3. shared_in \in Nat
  BY <1>1, PushedCount, NumNodesAssumption
<1>4. ASSUME NEW n \in 2 .. (Len(depth_index) - 1) PROVE Slots(n) \subseteq 0 .. (shared_in - 1)
  <2>1. n \in DOMAIN depth_index /\ n + 1 \in DOMAIN depth_index
    BY <1>2
  <2>2. depth_index[n] \in Nat /\ depth_index[n + 1] \in Nat /\ depth_index[n + 1] <= shared_in
    BY <1>2, <2>1
  <2> QED BY <1>3, <2>2 DEF Slots
<1>5. Slots(1) = {}
  BY <1>2 DEF Slots
<1>6. \A i \in 0 .. (shared_in - 1) :
         shared[i] \in Node /\ \A j \in 0 .. (shared_in - 1) : shared[i] = shared[j] => i = j
  <2>1. \A i \in 0 .. (shared_in - 1) : i \in QP!Filled
    BY <1>1, SameQueue DEF QP!Filled, QP!Claimed, QP!Quiescent
  <2> QED BY <1>1, <2>1, PushedCount DEF QP!IInv, QP!HeldOnce
<1> QED BY <1>2, <1>4, <1>5, <1>6

\* The marked edges out of a vertex lead to its successors.
LEMMA SuccessorsAre ==
    ASSUME IsGraph(g), source \in Node, Found, NEW u \in Node
    PROVE  Successors(u) = Children(source, u)
<1> DEFINE T == {f \in g.edges : Dep[f[1]] # -1 /\ Dep[f[2]] = Dep[f[1]] + 1}
<1>1. succ = {EdgeIndex(e) : e \in T}
  BY DEF Found
<1>2. \A v \in out_neigh(g, u) : v \in Node /\ <<u, v>> \in g.edges
  BY EdgePlaces
<1>3. \A e, f \in g.edges : EdgeIndex(e) = EdgeIndex(f) => e = f
  BY EdgePlaces
<1>4. ASSUME NEW v \in out_neigh(g, u) PROVE EdgeIndex(<<u, v>>) \in succ <=> <<u, v>> \in T
  BY <1>1, <1>2, <1>3
<1>5. Dep[u] \in Int /\ Dep[u] >= -1
  BY Neighbours DEF Dep
<1>6. \A v \in out_neigh(g, u) : <<u, v>> \in T <=> Dep[u] >= 0 /\ Dep[v] = Dep[u] + 1
  BY <1>2, <1>5
<1> QED BY <1>4, <1>6 DEF Successors, get_bit, Children, Dep

\* What the dependencies are computed from is sound, whatever fractions have been
\* received.
LEMMA SoundEverywhere ==
    ASSUME Core, phase = "back", NEW received \in [Node -> Fraction], NEW u \in Node
    PROVE  /\ Sound(path_counts, received, u, Children(source, u))
           /\ IsFiniteSet(Children(source, u))
           /\ \A v \in Children(source, u) : v \in Node /\ Dep[v] = Dep[u] + 1 /\ Dep[u] \in Int /\ Dep[u] >= 0
<1>1. source \in Node /\ path_counts \in [Node -> Nat] /\ CountsPaths(source, path_counts)
  BY SourceIsNode DEF Core, Types, PhaseOK, Found
<1>2. \A v \in Node : Dep[v] >= 0 => path_counts[v] > 0
  BY <1>1, PathsExist DEF Dep
<1>3. /\ IsFiniteSet(Children(source, u)) /\ Children(source, u) \subseteq Node
      /\ \A v \in Children(source, u) : Dep[v] \in Nat /\ Dep[v] = Dep[u] + 1
      /\ Dep[u] \in Int /\ Dep[u] >= -1
      /\ Dep[u] < 0 => Children(source, u) = {}
  BY <1>1, Neighbours DEF Dep
<1>4. \A v \in Children(source, u) : v \in Node /\ Dep[v] = Dep[u] + 1 /\ Dep[v] >= 0 /\ Dep[u] \in Int /\ Dep[u] >= 0
  <2> HIDE DEF Dep
  <2> QED BY <1>3
<1>5. \A v \in Children(source, u) : path_counts[v] \in Nat /\ path_counts[v] > 0
  BY <1>1, <1>2, <1>4
<1> QED BY <1>1, <1>3, <1>4, <1>5 DEF Sound

\* The next level, the verification and the end leave what was found.
LEMMA BackLevelCore ==
    ASSUME Core, BackLevel
    PROVE  Core'
<1>1. /\ phase = "back" /\ left = {}
      /\ UNCHANGED <<args, marks, scores, deltas, depth_index, single_taken, todo, local, qvars>>
      /\ d = 0 => phase' = "iter"
      /\ d # 0 => phase' = phase /\ d' = d - 1 /\ left' = Slots(d)
  BY DEF BackLevel, Slots
<1>2. Found /\ Q!Quiescent /\ QP!IInv
  BY <1>1 DEF Core, PhaseOK, Types
<1>3. QP!IInv' /\ Q!Quiescent'
  BY <1>1, <1>2, NoQueueEffect
<1>4. phase' \in {"iter", "back"}
  BY <1>1
<1>5. Types'
  BY <1>1, <1>3, <1>4 DEF Core, Types, args, opts, marks, Phases
<1>6. PickersOK'
  BY <1>1, <1>4, PickersKept DEF Core
<1>7. phase' = "back" => Found'
  <2> SUFFICES ASSUME d # 0 PROVE Found'
    BY <1>1
  <2>1. /\ Len(depth_index) \in Nat /\ d \in 0 .. (Len(depth_index) - 1) /\ Slots(1) = {}
        /\ \A n \in 2 .. (Len(depth_index) - 1) : Slots(n) \subseteq 0 .. (shared_in - 1)
    BY <1>1, LevelSlots
  <2>2. d = 1 \/ d \in 2 .. (Len(depth_index) - 1)
    BY <2>1
  <2>3. d' \in 0 .. (Len(depth_index) - 1)
    BY <1>1, <2>1
  <2>4. left' \subseteq 0 .. (shared_in - 1)
    BY <1>1, <2>1, <2>2
  <2> QED BY <1>1, <1>2, <2>3, <2>4, FoundKept DEF args, opts, qvars
<1>8. PhaseOK'
  BY <1>3, <1>4, <1>7 DEF PhaseOK
<1> QED BY <1>5, <1>6, <1>8 DEF Core

\* What a slot left belongs to.
LEMMA SlotsLeft ==
    ASSUME Core, phase = "back", HalfSummed, NEW i \in left
    PROVE  /\ i \in 0 .. (shared_in - 1) /\ d \in Nat /\ d >= 1 /\ d < Len(depth_index) - 1
           /\ shared[i] \in Node /\ Dep[shared[i]] = d - 1
<1>1. d < Len(depth_index) - 1 /\ i \in Slots(d + 1)
  <2>1. (d + 1) + 1 = d + 2
    BY LevelSlots
  <2> QED BY <2>1 DEF HalfSummed, Slots
<1>2. /\ Len(depth_index) \in Nat /\ d \in 0 .. (Len(depth_index) - 1) /\ left \subseteq 0 .. (shared_in - 1)
      /\ Slots(1) = {}
      /\ \A n \in 2 .. (Len(depth_index) - 1) : {shared[j] : j \in Slots(n)} = Level(n - 2)
      /\ \A j \in 0 .. (shared_in - 1) : shared[j] \in Node
  BY LevelSlots
<1>3. d # 0
  BY <1>1, <1>2
<1>4. d + 1 \in 2 .. (Len(depth_index) - 1) /\ (d + 1) - 2 = d - 1
  BY <1>1, <1>2, <1>3
<1>5. shared[i] \in Level(d - 1)
  BY <1>1, <1>2, <1>4
<1> QED BY <1>1, <1>2, <1>3, <1>5 DEF Level, Dep

\* An iteration computes the dependency of its own vertex, from the final
\* dependencies of the level beyond it.
LEMMA BackVertexStep ==
    ASSUME Core, BackVertex, HalfSummed, Sums(g, Before(sources)), scores \in [Node -> Fraction]
    PROVE  Core' /\ HalfSummed' /\ scores' \in [Node -> Fraction]
<1>1. PICK i \in left :
          /\ deltas' = [deltas EXCEPT ![shared[i]] =
                           Dependency(path_counts, deltas, shared[i], Successors(shared[i]))]
          /\ scores' = [scores EXCEPT ![shared[i]] =
                           Plus(@, Dependency(path_counts, deltas, shared[i], Successors(shared[i])))]
          /\ left' = left \ {i}
  BY DEF BackVertex
<1> DEFINE u == shared[i]
           delta_u == Dependency(path_counts, deltas, u, Children(source, u))
<1>2. /\ phase = "back" /\ UNCHANGED <<args, marks, d, depth_index, phase, single_taken, todo, local, qvars>>
  BY DEF BackVertex
<1>3. /\ Found /\ Q!Quiescent /\ QP!IInv /\ source \in Node /\ IsGraph(g)
      /\ deltas \in [Node -> Fraction]
  BY <1>2, SourceIsNode DEF Core, PhaseOK, Types
<1>4. i \in 0 .. (shared_in - 1) /\ d \in Nat /\ d >= 1 /\ u \in Node /\ Dep[u] = d - 1
  BY <1>2, SlotsLeft
<1>5. /\ Len(depth_index) \in Nat /\ d \in 0 .. (Len(depth_index) - 1) /\ left \subseteq 0 .. (shared_in - 1)
      /\ \A j \in left : shared[j] = u => j = i
  <2>1. /\ Len(depth_index) \in Nat /\ d \in 0 .. (Len(depth_index) - 1) /\ left \subseteq 0 .. (shared_in - 1)
        /\ \A j, k \in 0 .. (shared_in - 1) : shared[j] = shared[k] => j = k
    BY <1>2, LevelSlots
  <2> QED BY <1>4, <2>1
<1>6. Successors(u) = Children(source, u)
  BY <1>3, <1>4, SuccessorsAre
<1> HIDE DEF u
<1>7. /\ deltas' = [deltas EXCEPT ![u] = delta_u]
      /\ scores' = [scores EXCEPT ![u] = Plus(@, delta_u)]
  BY <1>1, <1>6 DEF u
<1>8. delta_u \in Fraction
  BY <1>2, <1>3, <1>4, SoundEverywhere, DependencySame
<1> HIDE DEF delta_u
<1>9. /\ deltas' \in [Node -> Fraction] /\ scores' \in [Node -> Fraction]
      /\ deltas'[u] = delta_u /\ scores'[u] = Plus(scores[u], delta_u)
      /\ \A n \in Node : n # u => deltas'[n] = deltas[n] /\ scores'[n] = scores[n]
  <2>1. Plus(scores[u], delta_u) \in Fraction
    BY <1>4, <1>8, Fractions
  <2> QED BY <1>3, <1>4, <1>7, <1>8, <2>1
<1>10. /\ QP!IInv' /\ Q!Quiescent' /\ UNCHANGED <<g, sources>> /\ shared' = shared /\ d' = d
       /\ depth_index' = depth_index /\ path_counts' = path_counts /\ phase' = "back"
       /\ source' = source /\ Dep' = Dep /\ \A n : Children(source, n)' = Children(source, n)
  BY <1>2, <1>3, NoQueueEffect, SameLevels, SameSource DEF args, opts, marks, qvars
<1>11. Core'
  <2>1. Types'
    BY <1>2, <1>9, <1>10 DEF Core, Types, args, opts, marks
  <2>2. PickersOK'
    BY <1>2, PickersKept DEF Core
  <2>3. Found'
    BY <1>1, <1>2, <1>3, <1>5, FoundKept DEF args, opts, qvars
  <2>4. PhaseOK'
    BY <1>10, <2>3 DEF PhaseOK
  <2> QED BY <2>1, <2>2, <2>4 DEF Core
<1>12. u \in Summed' /\ u \notin Summed
  BY <1>1, <1>4, <1>5, <1>10 DEF Summed, u
<1>13. \A n \in Node : n # u => (n \in Summed' <=> n \in Summed)
  BY <1>1, <1>10 DEF Summed, u
<1>14. \A n \in Summed' : n \in Node /\ Dep[n] >= d - 1
  <2>1. \A n \in Node : Dep[n] \in Int
    BY <1>3, Neighbours DEF Dep
  <2> QED BY <1>4, <1>10, <2>1 DEF Summed
<1>15. ASSUME NEW n \in Summed'
       PROVE  Dependency(path_counts, deltas', n, Children(source, n))
                 = Dependency(path_counts, deltas, n, Children(source, n))
  <2>1. n \in Node /\ Dep[n] >= d - 1
    BY <1>14
  <2>2. /\ Sound(path_counts, deltas, n, Children(source, n)) /\ IsFiniteSet(Children(source, n))
        /\ \A v \in Children(source, n) : v \in Node /\ Dep[v] = Dep[n] + 1 /\ Dep[n] \in Int
    BY <1>2, <1>3, <2>1, SoundEverywhere
  <2>3. \A v \in Children(source, n) : deltas'[v] = deltas[v]
    <3> SUFFICES ASSUME NEW v \in Children(source, n) PROVE deltas'[v] = deltas[v]
      OBVIOUS
    <3>1. v \in Node /\ v # u
      BY <1>4, <2>1, <2>2
    <3> QED BY <1>9, <3>1
  <2> QED BY <2>2, <2>3, DependencySame
<1>16. ASSUME NEW n \in Node
       PROVE  /\ deltas'[n] = IF n \in Summed' THEN Dependency(path_counts, deltas', n, Children(source, n)) ELSE Zero
              /\ scores'[n] = IF n \in Summed' THEN Plus(Sofar(g, Before(sources))[n], deltas'[n])
                              ELSE Sofar(g, Before(sources))[n]
  <2>1. /\ deltas[n] = IF n \in Summed THEN Dependency(path_counts, deltas, n, Children(source, n)) ELSE Zero
        /\ scores[n] = IF n \in Summed THEN Plus(Sofar(g, Before(sources))[n], deltas[n])
                       ELSE Sofar(g, Before(sources))[n]
    BY DEF HalfSummed
  <2>2. CASE n = u
    BY <1>9, <1>12, <1>15, <2>1, <2>2 DEF delta_u
  <2>3. CASE n # u
    BY <1>9, <1>13, <1>15, <2>1, <2>3
  <2> QED BY <2>2, <2>3
<1>17. HalfSummed'
  <2>1. /\ left' # {} => d < Len(depth_index) - 1
        /\ \A j \in left' : j \in depth_index[d + 1] .. (depth_index[d + 2] - 1)
    BY <1>1 DEF HalfSummed
  <2> HIDE DEF Dep, Summed
  <2> QED BY <1>10, <1>16, <2>1 DEF HalfSummed
<1> QED BY <1>9, <1>11, <1>17

-----------------------------------------------------------------------------
\* The scores.

\* Without a source nothing is summed.
LEMMA TotalEmpty == \A share, n : Total(<<>>, share, n) = Zero
<1> SUFFICES ASSUME NEW share, NEW n PROVE Total(<<>>, share, n) = Zero
  OBVIOUS
<1> DEFINE list == <<>>
<1>1. list \in Seq(Node) /\ Len(list) = 0 /\ DOMAIN list = {}
  OBVIOUS
<1> HIDE DEF list
<1>2. TotalIsFold(list, share, n, 1 .. Len(list))
  BY <1>1, TotalFold
<1>3. 1 .. Len(list) = {} /\ {} \in SUBSET {}
  BY <1>1
<1>4. Total(list, share, n) = Zero
  BY <1>2, <1>3 DEF TotalIsFold, IsFold
<1> QED BY <1>4 DEF list

\* With one source more the scores grow by its dependencies.
LEMMA SofarAppend ==
    ASSUME NEW gr, NEW list \in Seq(Node), NEW s \in Node, Sums(gr, list),
           DeltasIn(gr, s) \in [Node -> Fraction]
    PROVE  \A n \in Node : /\ Sofar(gr, list)[n] \in Fraction
                           /\ Sofar(gr, Append(list, s))[n] = Plus(Sofar(gr, list)[n], DeltasIn(gr, s)[n])
<1> SUFFICES ASSUME NEW n \in Node
             PROVE  /\ Sofar(gr, list)[n] \in Fraction
                    /\ Sofar(gr, Append(list, s))[n] = Plus(Sofar(gr, list)[n], DeltasIn(gr, s)[n])
  OBVIOUS
<1> DEFINE share == Shares(gr)
<1>1. \A x \in Node : share[x] = DeltasIn(gr, x)
  BY DEF Shares
<1>2. /\ Sofar(gr, list)[n] = Total(list, share, n)
      /\ Sofar(gr, Append(list, s))[n] = Total(Append(list, s), share, n)
  BY DEF Sofar
<1> HIDE DEF share
<1>3. \A k \in DOMAIN list : list[k] \in Node
  OBVIOUS
<1>4. \A k \in DOMAIN list : share[list[k]][n] \in Fraction
  BY <1>1, <1>3 DEF Sums
<1>5. share[s][n] \in Fraction
  BY <1>1
<1> QED BY <1>1, <1>2, <1>4, <1>5, TotalAppend

\* The sources without the last.
LEMMA BeforeLast ==
    ASSUME NEW list \in Seq(Node)
    PROVE  /\ Before(list) \in Seq(Node)
           /\ list # <<>> => list[Len(list)] \in Node /\ Append(Before(list), list[Len(list)]) = list
           /\ \A s \in Node : Before(Append(list, s)) = list
           /\ Before(<<>>) = <<>>
<1>1. Before(list) \in Seq(Node)
  BY DEF Before
<1>2. \A s \in Node : Before(Append(list, s)) = list
  BY DEF Before
<1>3. list # <<>> => list[Len(list)] \in Node /\ Append(Before(list), list[Len(list)]) = list
  BY DEF Before
<1>4. Before(<<>>) = <<>>
  BY DEF Before
<1> QED BY <1>1, <1>2, <1>3, <1>4

\* A step within an iteration that leaves the scores.
LEMMA ScoresKept ==
    ASSUME ScoresOK, UNCHANGED <<g, sources, scores>>,
           phase \in {"push_back", "slide_window", "PBFS"}, phase' \in {"push_back", "slide_window", "PBFS"}
    PROVE  ScoresOK'
<1>1. Sums(g, Before(sources)) /\ scores \in [Node -> Fraction] /\ scores = Sofar(g, Before(sources))
  BY DEF ScoresOK
<1>2. Sums(g, Before(sources))' /\ (scores = Sofar(g, Before(sources)))'
  BY <1>1
<1> QED BY <1>1, <1>2 DEF ScoresOK

\* A new iteration begins with the sum over the earlier ones.
LEMMA StartIterScores ==
    ASSUME Core, ScoresOK, StartIter, NEW s \in Node, sources' = Append(sources, s)
    PROVE  ScoresOK'
<1>1. phase = "iter" /\ phase' = "push_back" /\ g' = g /\ scores' = scores
  BY DEF StartIter, opts, sums
<1>2. Before(sources') = sources
  BY BeforeLast DEF Core, Types
<1>3. Sums(g, sources) /\ scores \in [Node -> Fraction] /\ scores = Sofar(g, sources)
  BY <1>1 DEF ScoresOK
<1>4. Sums(g, Before(sources))' /\ (scores = Sofar(g, Before(sources)))'
  BY <1>1, <1>2, <1>3
<1> QED BY <1>1, <1>3, <1>4 DEF ScoresOK

\* At the end of the search no dependency has been computed.
LEMMA EndPBFSScores ==
    ASSUME Core, ScoresOK, EndPBFS
    PROVE  ScoresOK'
<1>1. /\ phase = "PBFS" /\ phase' = "back" /\ UNCHANGED <<g, sources, scores>>
      /\ deltas' = [n \in Node |-> Zero] /\ left' = {}
  BY DEF EndPBFS, AllAt, args, opts
<1>2. \A n \in Node : Dep[n] < d' - 1
  BY EndPBFSCore
<1>3. d' \in Int /\ \A n \in Node : Dep[n] \in Int
  <2>1. PhaseOK' /\ source \in Node
    BY <1>1, EndPBFSCore, SourceIsNode DEF Core
  <2>2. d' \in Int
    BY <1>1, <2>1 DEF PhaseOK, Found
  <2> QED BY <2>1, <2>2, Neighbours DEF Dep
<1>4. Dep' = Dep
  BY <1>1, SameLevels
<1>5. Summed' = {}
  <2> HIDE DEF Dep
  <2> QED BY <1>2, <1>3, <1>4 DEF Summed
<1>6. Sums(g, Before(sources)) /\ scores \in [Node -> Fraction] /\ scores = Sofar(g, Before(sources))
  BY <1>1 DEF ScoresOK
<1>7. scores' = Sofar(g', Before(sources')) /\ Sums(g', Before(sources'))
  BY <1>1, <1>6
<1>8. HalfSummed'
  BY <1>1, <1>5, <1>7 DEF HalfSummed
<1> QED BY <1>1, <1>6, <1>7, <1>8 DEF ScoresOK

\* A level that has been dealt with makes way for the one above it; below the
\* source's there are the vertices that were not reached, which receive nothing.
LEMMA NextLevelScores ==
    ASSUME Core, HalfSummed, Sums(g, Before(sources)), BackLevel, d # 0
    PROVE  HalfSummed'
<1>1. /\ phase = "back" /\ left = {} /\ d' = d - 1 /\ left' = Slots(d)
      /\ UNCHANGED <<args, marks, scores, deltas, depth_index, qvars>>
  BY DEF BackLevel, Slots
<1>2. /\ g' = g /\ sources' = sources /\ shared' = shared /\ depth_index' = depth_index
      /\ path_counts' = path_counts /\ deltas' = deltas /\ scores' = scores
      /\ source' = source /\ Dep' = Dep /\ \A n : Children(source, n)' = Children(source, n)
  BY <1>1, SameLevels, SameSource DEF args, opts, marks, qvars
<1>3. /\ Len(depth_index) \in Nat /\ d \in 0 .. (Len(depth_index) - 1) /\ Slots(1) = {}
      /\ \A n \in 2 .. (Len(depth_index) - 1) : {shared[i] : i \in Slots(n)} = Level(n - 2)
  BY <1>1, LevelSlots
<1>4. source \in Node /\ deltas \in [Node -> Fraction]
  BY <1>1, SourceIsNode DEF Core, Types
<1>5. \A n \in Node : Dep[n] \in Int /\ Dep[n] >= -1
  BY <1>4, Neighbours DEF Dep
<1>6. \A n \in Node : n \in Summed <=> Dep[n] >= d - 1
  BY <1>1, <1>3, <1>5 DEF Summed
<1>7. ASSUME NEW n \in Node PROVE n \in Summed' <=> (n \in Summed \/ (Dep[n] = -1 /\ d = 1))
  <2>1. n \in Summed' <=> (Dep[n] >= d - 1 \/ (Dep[n] = d - 2 /\ \A i \in Slots(d) : shared[i] # n))
    BY <1>1, <1>2, <1>3 DEF Summed
  <2>2. CASE d = 1
    BY <1>3, <1>5, <1>6, <2>1, <2>2
  <2>3. CASE d # 1
    <3>1. {shared[i] : i \in Slots(d)} = Level(d - 2)
      BY <1>3, <2>3
    <3>2. Dep[n] = d - 2 => n \in Level(d - 2)
      BY DEF Level, Dep
    <3>3. Dep[n] = d - 2 => \E i \in Slots(d) : shared[i] = n
      BY <3>1, <3>2
    <3> QED BY <1>5, <1>6, <2>1, <2>3, <3>3
  <2> QED BY <2>2, <2>3
<1>8. ASSUME NEW n \in Node, Dep[n] = -1
      PROVE  Dependency(path_counts, deltas, n, Children(source, n)) = Zero
  <2>1. Children(source, n) = {}
    BY <1>4, <1>8, Neighbours DEF Dep
  <2>2. /\ Sound(path_counts, deltas, n, Children(source, n))
        /\ IsFiniteSet(Children(source, n))
    BY <1>1, <1>4, SoundEverywhere
  <2> QED BY <2>1, <2>2, DependencySame
<1>9. \A n \in Node : Plus(Sofar(g, Before(sources))[n], Zero) = Sofar(g, Before(sources))[n]
  <2> SUFFICES ASSUME NEW n \in Node
               PROVE  Plus(Sofar(g, Before(sources))[n], Zero) = Sofar(g, Before(sources))[n]
    OBVIOUS
  <2>1. Before(sources) \in Seq(Node)
    BY BeforeLast DEF Core, Types
  <2>2. \A k \in DOMAIN Before(sources) : Shares(g)[Before(sources)[k]][n] \in Fraction
    <3> SUFFICES ASSUME NEW k \in DOMAIN Before(sources)
                 PROVE  Shares(g)[Before(sources)[k]][n] \in Fraction
      OBVIOUS
    <3>1. Before(sources)[k] \in Node /\ DeltasIn(g, Before(sources)[k]) \in [Node -> Fraction]
      BY <2>1 DEF Sums
    <3> QED BY <3>1 DEF Shares
  <2>3. Total(Before(sources), Shares(g), n) \in Fraction
    <3>1. TotalIsFold(Before(sources), Shares(g), n, 1 .. Len(Before(sources)))
      BY <2>1, <2>2, TotalFold
    <3>2. 1 .. Len(Before(sources)) \in SUBSET (1 .. Len(Before(sources)))
      OBVIOUS
    <3> QED BY <3>1, <3>2 DEF TotalIsFold
  <2> QED BY <2>3, Fractions DEF Sofar
<1>10. ASSUME NEW n \in Node
       PROVE  /\ deltas[n] = IF n \in Summed' THEN Dependency(path_counts, deltas, n, Children(source, n)) ELSE Zero
              /\ scores[n] = IF n \in Summed' THEN Plus(Sofar(g, Before(sources))[n], deltas[n])
                             ELSE Sofar(g, Before(sources))[n]
  <2>1. /\ deltas[n] = IF n \in Summed THEN Dependency(path_counts, deltas, n, Children(source, n)) ELSE Zero
        /\ scores[n] = IF n \in Summed THEN Plus(Sofar(g, Before(sources))[n], deltas[n])
                       ELSE Sofar(g, Before(sources))[n]
    BY DEF HalfSummed
  <2>2. CASE n \in Summed \/ n \notin Summed'
    BY <1>7, <2>1, <2>2
  <2>3. CASE n \notin Summed /\ n \in Summed'
    <3>1. Dep[n] = -1
      BY <1>7, <2>3
    <3> QED BY <1>8, <1>9, <2>1, <2>3, <3>1
  <2> QED BY <2>2, <2>3
<1>11. left' # {} => d' < Len(depth_index) - 1
  BY <1>1, <1>3
<1>12. \A i \in left' : i \in depth_index[d' + 1] .. (depth_index[d' + 2] - 1)
  <2>1. d' + 1 = d /\ d' + 2 = d + 1
    BY <1>1, <1>3
  <2> QED BY <1>1, <2>1 DEF Slots
<1> HIDE DEF Summed, Dep
<1> QED BY <1>2, <1>10, <1>11, <1>12 DEF HalfSummed

\* When all levels have been dealt with the dependencies on the source have been
\* added to the scores.
LEMMA LastLevelScores ==
    ASSUME Core, HalfSummed, Sums(g, Before(sources)), scores \in [Node -> Fraction],
           phase = "back", left = {}, d = 0
    PROVE  Sums(g, sources) /\ scores = Sofar(g, sources)
<1>1. /\ source \in Node /\ path_counts \in [Node -> Nat] /\ CountsPaths(source, path_counts)
      /\ deltas \in [Node -> Fraction] /\ sources \in Seq(Node) /\ sources # <<>>
  BY SourceIsNode DEF Core, Types, PhaseOK, Found, PickersOK
<1>2. Summed = Node
  <2>1. \A n \in Node : Dep[n] \in Int /\ Dep[n] >= -1
    BY <1>1, Neighbours DEF Dep
  <2> HIDE DEF Dep
  <2> QED BY <2>1 DEF Summed
<1>3. SumsDependencies(source, path_counts, deltas)
  BY <1>2 DEF HalfSummed, SumsDependencies
<1>4. DeltasIn(g, source) = deltas
  BY <1>1, <1>3, DeltasAre
<1>5. Before(sources) \in Seq(Node) /\ Append(Before(sources), source) = sources
  BY <1>1, BeforeLast DEF source
<1>6. ASSUME NEW k \in DOMAIN sources PROVE DeltasIn(g, sources[k]) \in [Node -> Fraction]
  <2>1. \/ k \in DOMAIN Before(sources) /\ sources[k] = Before(sources)[k]
        \/ sources[k] = source
    <3> DEFINE list == Before(sources)
    <3>1. list \in Seq(Node) /\ Append(list, source) = sources
      BY <1>5
    <3> HIDE DEF list
    <3>2. k \in 1 .. (Len(list) + 1)
      BY <1>1, <3>1
    <3>3. k \in 1 .. Len(list) \/ k = Len(list) + 1
      BY <3>1, <3>2
    <3> QED BY <1>1, <3>1, <3>3 DEF list
  <2> QED BY <1>1, <1>4, <2>1 DEF Sums
<1>7. \A n \in Node : scores[n] = Sofar(g, sources)[n]
  <2>1. \A n \in Node : scores[n] = Plus(Sofar(g, Before(sources))[n], deltas[n])
    BY <1>2 DEF HalfSummed
  <2>2. \A n \in Node : Sofar(g, Append(Before(sources), source))[n]
                           = Plus(Sofar(g, Before(sources))[n], DeltasIn(g, source)[n])
    BY <1>1, <1>4, <1>5, SofarAppend
  <2> QED BY <1>4, <1>5, <2>1, <2>2
<1>8. scores = Sofar(g, sources)
  <2>1. Sofar(g, sources) = [n \in Node |-> Sofar(g, sources)[n]]
    BY DEF Sofar
  <2> QED BY <1>7, <2>1
<1> QED BY <1>6, <1>8 DEF Sums

\* The scores are normalised, which nobody but the verifier sees.
LEMMA NormalizeStep ==
    ASSUME IInv, Normalize
    PROVE  IInv'
<1>1. /\ phase = "iter" /\ Len(sources) = num_iters /\ scores' = Normalized(scores) /\ phase' = "verify"
      /\ UNCHANGED <<args, marks, deltas, d, left, depth_index, single_taken, todo, local, qvars>>
  BY DEF Normalize
<1>2. QP!IInv' /\ Q!Quiescent'
  BY <1>1, NoQueueEffect DEF IInv, Types, PhaseOK
<1>3. Types'
  BY <1>1, <1>2 DEF IInv, Types, args, opts, marks, Phases
<1>4. PickersOK'
  BY <1>1, PickersKept DEF IInv
<1>5. PhaseOK'
  BY <1>1, <1>2 DEF PhaseOK
<1>6. Sums(g, sources) /\ scores = Sofar(g, sources) /\ g' = g /\ sources' = sources
  BY <1>1 DEF IInv, ScoresOK, args, opts
<1>7. Sums(g', sources') /\ scores' = Normalized(Sofar(g', sources'))
  BY <1>1, <1>6
<1> QED BY <1>1, <1>3, <1>4, <1>5, <1>7 DEF IInv, ScoresOK

\* No source has been summed.
LEMMA NothingSummed ==
    /\ \A gr : Sums(gr, <<>>) /\ Sums(gr, Before(<<>>))
    /\ \A gr : Sofar(gr, <<>>) = [n \in Node |-> Zero]
    /\ [n \in Node |-> Zero] \in [Node -> Fraction]
<1>1. <<>> \in Seq(Node) /\ DOMAIN <<>> = {}
  OBVIOUS
<1>2. Before(<<>>) = <<>>
  BY <1>1, BeforeLast
<1>3. \A gr : Sums(gr, <<>>)
  BY <1>1 DEF Sums
<1>4. \A gr : Sofar(gr, <<>>) = [n \in Node |-> Zero]
  BY TotalEmpty DEF Sofar
<1>5. [n \in Node |-> Zero] \in [Node -> Fraction]
  BY Fractions
<1> QED BY <1>2, <1>3, <1>4, <1>5

\* The verifier's picker catches up, and the next trial begins.
LEMMA VerifyStep ==
    ASSUME IInv, Verify
    PROVE  IInv'
<1>1. /\ phase = "verify" /\ vsp' = vsp + num_iters /\ phase' \in {"iter", "done"}
      /\ sources' = <<>> /\ scores' = [n \in Node |-> Zero] /\ deltas' = [n \in Node |-> Zero]
      /\ UNCHANGED <<opts, picks, sp, marks, d, left, depth_index, single_taken, todo, local, qvars>>
  BY DEF Verify
<1>2. QP!IInv' /\ Q!Quiescent'
  BY <1>1, NoQueueEffect DEF IInv, Types, PhaseOK
<1>3. sources' \in Seq(Node) /\ Len(sources') = 0 /\ DOMAIN sources' = {}
  BY <1>1
<1>4. /\ sp \in Nat /\ vsp \in Nat /\ num_iters \in Nat /\ sp = vsp + num_iters
      /\ picks \in Seq(Node) /\ Len(picks) = sp
  BY <1>1 DEF IInv, PickersOK
<1>5. Types'
  <2>1. deltas' \in [Node -> Fraction] /\ Len(sources') <= num_iters
    BY <1>1, <1>3, <1>4, NothingSummed
  <2> QED BY <1>1, <1>2, <1>3, <2>1 DEF IInv, Types, opts, marks, Phases
<1>6. PickersOK'
  BY <1>1, <1>3, <1>4 DEF PickersOK, opts
<1>7. PhaseOK'
  BY <1>1, <1>2 DEF PhaseOK
<1>8. ScoresOK'
  <2>1. Sums(g', sources') /\ Sums(g', Before(sources')) /\ scores' = Sofar(g', sources')
        /\ scores' \in [Node -> Fraction]
    BY <1>1, NothingSummed
  <2> QED BY <1>1, <2>1 DEF ScoresOK
<1> QED BY <1>5, <1>6, <1>7, <1>8 DEF IInv

\* The invariant holds at the start.
LEMMA InitIInv == Init => IInv
<1> SUFFICES ASSUME Init PROVE IInv
  OBVIOUS
<1>1. /\ g \in Graphs /\ given_source \in StartVertices /\ <<num_trials, num_iters>> \in Runs
      /\ num_iters \in Nat
  <2>1. PICK r \in Runs : num_trials = r[1] /\ num_iters = r[2]
    BY DEF Init
  <2>2. r = <<r[1], r[2]>> /\ r[2] \in Nat
    BY RunsAssumption
  <2> QED BY <2>1, <2>2 DEF Init
<1>2. QP!IInv /\ Q!Quiescent
  <2>1. QP!QInit
    BY SameQueue DEF Init
  <2>2. QP!IInv
    BY <2>1, QueueAssumptions, QP!InitIInv
  <2>3. QP!Quiescent
    BY <2>1 DEF QP!QInit, QP!Quiescent, QP!Copying
  <2> QED BY <2>2, <2>3, SameQueue
<1>3. /\ sources = <<>> /\ picks = <<>> /\ sp = 0 /\ vsp = 0 /\ phase \in {"iter", "done"}
      /\ scores = [n \in Node |-> Zero] /\ deltas = [n \in Node |-> Zero]
      /\ path_counts = [n \in Node |-> 0] /\ succ = {} /\ depths = [n \in Node |-> -1]
      /\ single_taken = FALSE /\ todo = [t \in Thread |-> {}] /\ local = [t \in Thread |-> Unborn]
  BY DEF Init
<1>4. sources \in Seq(Node) /\ Len(sources) = 0 /\ DOMAIN sources = {} /\ picks \in Seq(Node) /\ Len(picks) = 0
  BY <1>3
<1>5. local \in [Thread -> LocalType]
  BY <1>3, NodeNat DEF Unborn, LocalType, Places, Working
<1>6. depths \in [Node -> -1 .. NumNodes] /\ path_counts \in [Node -> Nat]
  BY <1>3, NumNodesAssumption
<1>7. Types
  <2>1. deltas \in [Node -> Fraction] /\ todo \in [Thread -> SUBSET Node] /\ Len(sources) <= num_iters
    BY <1>1, <1>3, <1>4, NothingSummed
  <2>2. succ \subseteq 0 .. (Cardinality(g.edges) - 1) /\ single_taken \in BOOLEAN /\ phase \in Phases
    BY <1>3 DEF Phases
  <2> QED BY <1>1, <1>2, <1>4, <1>5, <1>6, <2>1, <2>2 DEF Types
<1>8. PickersOK
  BY <1>1, <1>3, <1>4 DEF PickersOK
<1>9. PhaseOK
  BY <1>2, <1>3 DEF PhaseOK
<1>10. ScoresOK
  BY <1>3, NothingSummed DEF ScoresOK
<1> QED BY <1>7, <1>8, <1>9, <1>10 DEF IInv

\* What a step that does nothing leaves, an observer of the search still finds.
Still == UNCHANGED <<args, marks, sums, depth_index, phase, single_taken, todo, local, qvars>>

\* The sets that the invariant speaks of.
LEMMA StillSets ==
    ASSUME QP!IInv, Still
    PROVE  /\ UNCHANGED <<g, sources>>
           /\ \A k : Counted(k)' = Counted(k) /\ Marked(k)' = Marked(k)
           /\ \A s : /\ Left(s)' = Left(s) /\ next_v(s)' = next_v(s)
                     /\ \A v : Pushing(s, v)' <=> Pushing(s, v)
                     /\ Empty(s)' <=> Empty(s)
           /\ Visited' = Visited /\ \A k : Recorded(k)' <=> Recorded(k)
<1>1. /\ g' = g /\ sources' = sources /\ shared' = shared /\ shared_out_start' = shared_out_start
      /\ todo' = todo /\ local' = local /\ local_queue' = local_queue /\ copy_start' = copy_start
      /\ depths' = depths /\ depth_index' = depth_index
  BY DEF Still, args, opts, marks, qvars
<1>2. \A k : TreeEdges(k)' = TreeEdges(k) /\ Level(k)' = Level(k)
  BY <1>1, SameLevels
<1>3. \A s : Left(s)' = Left(s) /\ next_v(s)' = next_v(s)
  BY <1>1 DEF Left, next_v
<1>4. \A s : Unmarked(s)' = Unmarked(s)
  BY <1>1, <1>3 DEF Unmarked, InHand
<1>5. \A k : Counted(k)' = Counted(k) /\ Marked(k)' = Marked(k)
  BY <1>2, <1>3, <1>4 DEF Counted, Marked
<1>6. \A s : (\A v : Pushing(s, v)' <=> Pushing(s, v)) /\ (Empty(s)' <=> Empty(s))
  BY <1>1, <1>3 DEF Pushing, Empty, Q!Copying
<1>7. \A k : Recorded(k)' <=> Recorded(k)
  <2> SUFFICES ASSUME NEW k PROVE Recorded(k)' <=> Recorded(k)
    OBVIOUS
  <2>1. \A n : Level(n)' = Level(n)
    BY <1>2
  <2>2. depth_index' = depth_index /\ shared_out_start' = shared_out_start /\ shared' = shared
    BY <1>1
  <2> DEFINE ends == Append(depth_index, shared_out_start)
  <2>3. ends' = ends
    BY <2>2
  <2> HIDE DEF ends
  <2> QED BY <2>1, <2>2, <2>3, Zenon DEF Recorded, ends
<1>8. Visited' = Visited
  BY <1>1 DEF Visited
<1> QED BY <1>1, <1>3, <1>5, <1>6, <1>7, <1>8

\* The search stands where it stood.
LEMMA StillSearching ==
    ASSUME Types, Still, NEW k
    PROVE  (WorkOK(k) => WorkOK(k)') /\ (SlideOK(k) => SlideOK(k)')
<1>1. /\ QP!IInv' /\ QP!Hidden' = QP!Hidden /\ QP!Pushed' = QP!Pushed /\ QP!Window' = QP!Window
      /\ Q!WindowSlots' = Q!WindowSlots /\ (Q!Quiescent' <=> Q!Quiescent)
  BY NoQueueEffect DEF Types, Still, WindowKept
<1>2. /\ g' = g /\ sources' = sources /\ shared' = shared /\ marks' = marks
      /\ todo' = todo /\ local' = local /\ single_taken' = single_taken
  BY DEF Still, args, opts, qvars
<1>3. /\ \A n : Counted(n)' = Counted(n) /\ Marked(n)' = Marked(n)
      /\ \A s : /\ Left(s)' = Left(s) /\ next_v(s)' = next_v(s)
                /\ \A v : Pushing(s, v)' <=> Pushing(s, v)
                /\ Empty(s)' <=> Empty(s)
      /\ Visited' = Visited /\ \A n : Recorded(n)' <=> Recorded(n)
  BY StillSets DEF Types
<1>4. \A n : Level(n)' = Level(n) /\ UpTo(n)' = UpTo(n) /\ \A x : out_neigh(g, x)' = out_neigh(g, x)
  BY <1>2, SameLevels
<1>5. LevelOK(k) => LevelOK(k)'
  BY <1>1, <1>2, <1>3, LevelSame
<1>6. \A t : ThreadOK(k, t) => ThreadOK(k, t)'
  BY <1>1, <1>2, <1>3, <1>4 DEF ThreadOK
<1>7. WorkOK(k) => WorkOK(k)'
  <2>1. (Apart => Apart') /\ (ClaimsKept(k) => ClaimsKept(k)') /\ (EdgesLeft(k) => EdgesLeft(k)')
    BY <1>1, <1>2, <1>3, <1>4 DEF Apart, ClaimsKept, EdgesLeft
  <2> QED BY <1>1, <1>3, <1>4, <1>5, <1>6, <2>1 DEF WorkOK
<1>8. SlideOK(k) => SlideOK(k)'
  BY <1>1, <1>2, <1>3, <1>4, <1>5 DEF SlideOK
<1> QED BY <1>7, <1>8

\* And so the invariant holds as it did.
LEMMA StillKeeps ==
    ASSUME IInv, Still
    PROVE  IInv'
<1>1. QP!IInv' /\ (Q!Quiescent' <=> Q!Quiescent) /\ QP!Hidden' = QP!Hidden /\ QP!Pushed' = QP!Pushed
      /\ QP!Window' = QP!Window
  BY NoQueueEffect DEF IInv, Types, Still, WindowKept
<1>2. /\ UNCHANGED <<g, sources, scores, deltas, d, left, phase, depth_index, marks, shared, shared_in>>
      /\ shared_out_start' = shared_out_start /\ shared_out_end' = shared_out_end
      /\ UNCHANGED args
  BY DEF Still, args, opts, sums, qvars
<1>3. Types'
  BY <1>1, <1>2 DEF IInv, Types, Still, args, opts, marks
<1>4. PickersOK'
  BY <1>2, PickersKept DEF IInv
<1>5. /\ Found => Found'
      /\ Begun => Begun'
  <2>1. Found => Found'
    BY <1>2, FoundKept DEF Found
  <2> QED BY <1>1, <1>2, <2>1 DEF Begun, source, marks
<1>6. PhaseOK'
  BY <1>1, <1>2, <1>5, StillSearching DEF IInv, PhaseOK, source
<1>7. HalfSummed => HalfSummed'
  <2>1. source' = source /\ Dep' = Dep /\ \A n : Children(source, n)' = Children(source, n)
    BY <1>2, SameLevels, SameSource
  <2>2. Summed' = Summed
    BY <1>2, <2>1 DEF Summed
  <2> QED BY <1>2, <2>1, <2>2 DEF HalfSummed, marks
<1>8. ScoresOK'
  BY <1>2, <1>7 DEF IInv, ScoresOK
<1> QED BY <1>3, <1>4, <1>6, <1>8 DEF IInv

\* Every step keeps the invariant.
LEMMA StepIInv ==
    ASSUME IInv, [Next \/ Returned]_vars
    PROVE  IInv'
<1>1. Core /\ ScoresOK
  BY DEF IInv, Core
<1>2. CASE StartIter
  <2>1. Core'
    BY <1>1, <1>2, StartIterStep
  <2>2. ScoresOK'
    <3>1. PICK s \in Node : sources' = Append(sources, s)
      BY <1>1, <1>2, StartIterStep
    <3> QED BY <1>1, <1>2, <3>1, StartIterScores
  <2> QED BY <2>1, <2>2 DEF Core, IInv
<1>3. CASE PushSource
  <2>1. phase = "push_back" /\ phase' = "slide_window" /\ UNCHANGED <<g, sources, scores>>
    BY <1>3 DEF PushSource, args, opts, sums
  <2> QED BY <1>1, <1>3, <2>1, PushSourceStep, ScoresKept DEF Core, IInv
<1>4. CASE StartPBFS
  <2>1. phase = "slide_window" /\ phase' = "PBFS" /\ UNCHANGED <<g, sources, scores>>
    BY <1>4 DEF StartPBFS, args, opts, sums
  <2> QED BY <1>1, <1>4, <2>1, StartPBFSCore, ScoresKept DEF Core, IInv
<1>5. CASE Barrier \/ EndSingle \/ \E t \in Thread : ThreadStep(t)
  <2>1. phase = "PBFS" /\ phase' = "PBFS" /\ UNCHANGED <<g, sources, scores>> /\ Core'
    BY <1>1, <1>5, SearchCore DEF args, opts, sums
  <2> QED BY <1>1, <2>1, ScoresKept DEF Core, IInv
<1>6. CASE EndPBFS
  BY <1>1, <1>6, EndPBFSCore, EndPBFSScores DEF Core, IInv
<1>7. CASE BackLevel
  <2>1. Core'
    BY <1>1, <1>7, BackLevelCore
  <2>2. /\ phase = "back" /\ left = {} /\ UNCHANGED <<g, sources, scores>>
        /\ d = 0 => phase' = "iter"
        /\ d # 0 => phase' = "back"
    BY <1>7 DEF BackLevel, args, opts
  <2>3. HalfSummed /\ Sums(g, Before(sources)) /\ scores \in [Node -> Fraction]
    BY <1>1, <2>2 DEF ScoresOK
  <2>4. CASE d = 0
    <3>1. Sums(g, sources) /\ scores = Sofar(g, sources)
      BY <1>1, <2>2, <2>3, <2>4, LastLevelScores
    <3>2. Sums(g', sources') /\ scores' = Sofar(g', sources') /\ scores' \in [Node -> Fraction]
      BY <2>2, <2>3, <3>1
    <3>3. ScoresOK'
      BY <2>2, <2>4, <3>2 DEF ScoresOK
    <3> QED BY <2>1, <3>3 DEF Core, IInv
  <2>5. CASE d # 0
    <3>1. HalfSummed'
      BY <1>1, <1>7, <2>3, <2>5, NextLevelScores
    <3>2. Sums(g', Before(sources')) /\ scores' \in [Node -> Fraction]
      BY <2>2, <2>3
    <3>3. ScoresOK'
      BY <2>2, <2>5, <3>1, <3>2 DEF ScoresOK
    <3> QED BY <2>1, <3>3 DEF Core, IInv
  <2> QED BY <2>4, <2>5
<1>8. CASE BackVertex
  <2>1. phase = "back" /\ phase' = "back" /\ UNCHANGED <<g, sources>>
    BY <1>8 DEF BackVertex, args, opts
  <2>2. HalfSummed /\ Sums(g, Before(sources)) /\ scores \in [Node -> Fraction]
    BY <1>1, <2>1 DEF ScoresOK
  <2>3. Core' /\ HalfSummed' /\ scores' \in [Node -> Fraction]
    BY <1>1, <1>8, <2>2, BackVertexStep
  <2>4. Sums(g', Before(sources'))
    BY <2>1, <2>2
  <2>5. ScoresOK'
    BY <2>1, <2>3, <2>4 DEF ScoresOK
  <2> QED BY <2>3, <2>5 DEF Core, IInv
<1>9. CASE Normalize
  BY <1>9, NormalizeStep
<1>10. CASE Verify
  BY <1>10, VerifyStep
<1>11. CASE UNCHANGED vars
  BY <1>11, StillKeeps DEF vars, Still
<1> QED BY <1>2, <1>3, <1>4, <1>5, <1>6, <1>7, <1>8, <1>9, <1>10, <1>11 DEF Next, Team, Returned

-----------------------------------------------------------------------------
\* The theorems.

\* Every reachable state, of any number of trials on any graph with any number of
\* threads, satisfies the invariant.
THEOREM Invariance == Spec => []IInv
  BY InitIInv, StepIInv, PTL DEF Spec

\* The invariant has the types.
LEMMA Typed == IInv => TypeOK
<1> SUFFICES ASSUME IInv PROVE TypeOK
  OBVIOUS
<1>1. Types /\ (phase # "verify" => scores \in [Node -> Fraction])
  BY DEF IInv, ScoresOK
<1>2. shared \in [0 .. (NumNodes - 1) -> Node \cup {-1}]
  BY <1>1, QueueAssumptions DEF Types, QP!IInv, QP!TypeOK
<1>3. \A n \in Node : (phase # "verify" => scores[n][2] > 0) /\ deltas[n][2] > 0
  <2>1. \A f \in [Node -> Fraction] : \A n \in Node : f[n][2] > 0
    BY Fractions
  <2> QED BY <1>1, <2>1 DEF Types
<1>4. todo \in [Thread -> SUBSET (0 .. (NumNodes - 1))]
  BY <1>1 DEF Types, Node
<1> QED BY <1>1, <1>2, <1>3, <1>4 DEF Types, TypeOK

\* Each variable has its type.
THEOREM TypeCorrect == Spec => []TypeOK
  BY Invariance, Typed, PTL

\* When the search from a source ends, the bitmap holds exactly the edges on
\* shortest paths, each path has been counted once, whichever thread claimed the
\* vertex it leads to, and each level is one range of the queue (bc.cc:72-92).
THEOREM PathsExactHolds == Spec => []PathsExact
<1>1. ASSUME IInv PROVE PathsExact
  <2> SUFFICES ASSUME phase = "back"
               PROVE  /\ depths = Depth(g, source)
                      /\ path_counts = PathCounts(source)
                      /\ succ = {EdgeIndex(e) : e \in {f \in g.edges : /\ depths[f[1]] # -1
                                                                       /\ depths[f[2]] = depths[f[1]] + 1}}
                      /\ \A k \in 2 .. (Len(depth_index) - 1) :
                            {shared[i] : i \in depth_index[k] .. (depth_index[k + 1] - 1)} = Level(k - 2)
                      /\ shared_in = Cardinality({v \in Node : depths[v] # -1})
    BY <1>1, Typed DEF PathsExact
  <2>1. /\ Found /\ source \in Node /\ path_counts \in [Node -> Nat]
    BY <1>1, SourceIsNode DEF IInv, PhaseOK, Types
  <2>2. depths = Dep /\ CountsPaths(source, path_counts)
    BY <2>1 DEF Found
  <2>3. PathCounts(source) = path_counts
    BY <2>1, <2>2, PathCountsAre
  <2>4. succ = {EdgeIndex(e) : e \in {f \in g.edges : depths[f[1]] # -1 /\ depths[f[2]] = depths[f[1]] + 1}}
    BY <2>1, <2>2 DEF Found
  <2>5. depths = Depth(g, source)
    BY <2>2 DEF Dep
  <2> QED BY <2>1, <2>3, <2>4, <2>5 DEF Found, Visited
<1> QED BY <1>1, Invariance, PTL

\* What the verifier's picker returns is what the kernel's returned.
LEMMA VerifierDraws ==
    ASSUME PickersOK, sources \in Seq(Node), phase = "verify"
    PROVE  VerifierSources = {sources}
<1>1. /\ sp = vsp + num_iters /\ vsp \in Nat /\ num_iters \in Nat /\ Len(sources) = num_iters
      /\ picks \in Seq(Node) /\ Len(picks) = sp
      /\ \A k \in DOMAIN sources : /\ sources[k] = picks[vsp + k]
                                   /\ given_source # NoVertex => sources[k] = given_source
  BY DEF PickersOK
<1>2. DOMAIN sources = 1 .. num_iters /\ DOMAIN picks = 1 .. sp /\ sources \in [1 .. num_iters -> Node]
  BY <1>1
<1>3. ASSUME NEW k \in 1 .. num_iters PROVE PickNext(vsp + k) = {sources[k]}
  <2>1. vsp + k \in DOMAIN picks
    BY <1>1, <1>2
  <2> QED BY <1>1, <1>2, <2>1 DEF PickNext
<1>4. \A list \in [1 .. num_iters -> Node] :
         (\A k \in 1 .. num_iters : list[k] \in PickNext(vsp + k)) <=> list = sources
  <2> SUFFICES ASSUME NEW list \in [1 .. num_iters -> Node]
               PROVE  (\A k \in 1 .. num_iters : list[k] \in PickNext(vsp + k)) <=> list = sources
    OBVIOUS
  <2>1. \A k \in 1 .. num_iters : list[k] \in PickNext(vsp + k) <=> list[k] = sources[k]
    BY <1>3
  <2>2. (\A k \in 1 .. num_iters : list[k] = sources[k]) <=> list = sources
    <3> DEFINE D == 1 .. num_iters
    <3>1. sources \in [D -> Node] /\ list \in [D -> Node]
      BY <1>2
    <3> HIDE DEF D
    <3>2. \A e, f \in [D -> Node] : (\A k \in D : e[k] = f[k]) => e = f
      OBVIOUS
    <3>3. (\A k \in D : list[k] = sources[k]) => list = sources
      BY <3>1, <3>2, Zenon
    <3> QED BY <3>3 DEF D
  <2> QED BY <2>1, <2>2
<1> QED BY <1>2, <1>4 DEF VerifierSources

\* In every trial the scores pass the verifier, whose own picker draws exactly
\* the kernel's sources, whatever the schedule was (bc.cc:109, 161-227).
VerifierPasses == phase = "verify" => VerifierSources = {sources} /\ BCVerifier

\* And so it is in every reachable state.
THEOREM ScoresVerified == Spec => []VerifierPasses
<1>1. ASSUME IInv PROVE VerifierPasses
  <2> SUFFICES ASSUME phase = "verify" PROVE VerifierSources = {sources} /\ BCVerifier
    BY DEF VerifierPasses
  <2>1. VerifierSources = {sources}
    BY <1>1, VerifierDraws DEF IInv, Types
  <2>2. scores = Normalized(Sofar(g, sources))
    BY <1>1 DEF IInv, ScoresOK
  <2>3. [s \in Node |-> Deltas(s)] = Shares(g)
    BY SameDeltas DEF Shares
  <2>4. Scores(sources, Shares(g)) = Normalized(Sofar(g, sources))
    BY DEF Scores, Sofar, Total
  <2> QED BY <2>1, <2>2, <2>3, <2>4 DEF BCVerifier
<1> QED BY <1>1, Invariance, PTL

\* Within a search: what a thread pushes was never queued, and the window slides
\* when all buffers have been flushed.
LEMMA SearchQueueStep ==
    ASSUME IInv, NEW t \in Thread, Push(t) \/ Flush(t) \/ Single(t)
    PROVE  QueueStep
<1>1. phase = "PBFS" /\ QP!IInv /\ Types
  BY DEF IInv, Types, Push, Flush, Single, At
<1>2. PICK k \in 0 .. (NumNodes + 1) : WorkOK(k) \/ SlideOK(k)
  BY <1>1 DEF IInv, PhaseOK
<1>3. Searching(k)
  BY <1>1, SourceIsNode, NumNodesAssumption DEF IInv, Searching
<1>4. CASE Single(t)
  <2>1. local[t].pc = "single" /\ Q!slide_window /\ ~single_taken
    BY <1>4 DEF Single, At
  <2>2. SlideOK(k)
    BY <1>2, <2>1 DEF WorkOK, ThreadOK, Working, Inner
  <2> QED BY <1>1, <2>1, <2>2, SlideEffect DEF SlideOK
<1>5. CASE Flush(t)
  BY <1>1, <1>5, FlushEffect DEF Flush
<1>6. CASE Push(t)
  <2>1. local[t].pc = "push"
    BY <1>6 DEF Push, At
  <2>2. WorkOK(k)
    BY <1>2, <2>1 DEF SlideOK
  <2>3. next_v(t) \notin QP!Pushed /\ next_v(t) \in Node
    BY <1>3, <2>1, <2>2, ThreadFacts DEF WorkOK, ThreadOK, Inner
  <2>4. Q!LocalPush(t, next_v(t)) \/ Q!Claim(t) \/ Q!CopyOut(t)
    BY <1>6 DEF Push
  <2> QED BY <1>1, <2>3, <2>4, PushEffect, FlushEffect
<1> QED BY <1>4, <1>5, <1>6

\* Every step is one of the protocol, or leaves the queue alone.
LEMMA ProtocolStep ==
    ASSUME IInv, [Next \/ Returned]_vars
    PROVE  QueueStep
<1>1. QP!IInv /\ (phase # "PBFS" => Q!Quiescent)
  BY DEF IInv, Types, PhaseOK
<1>2. CASE UNCHANGED qvars
  BY <1>1, <1>2, NoQueueEffect
<1>3. CASE StartIter
  BY <1>1, <1>3, ResetEffect DEF StartIter
<1>4. CASE PushSource
  <2>1. phase = "push_back" /\ Q!SerialPush(source)
    BY <1>4 DEF PushSource, source
  <2>2. source \in Node /\ source \notin QP!Pushed
    BY <2>1, SourceIsNode DEF IInv, PhaseOK
  <2> QED BY <1>1, <2>1, <2>2, SerialPushEffect
<1>5. CASE StartPBFS
  BY <1>1, <1>5, SlideEffect DEF StartPBFS
<1>6. CASE \E t \in Thread : ThreadStep(t)
  <2>1. PICK t \in Thread : ThreadStep(t)
    BY <1>6
  <2>2. CASE Push(t) \/ Flush(t) \/ Single(t)
    BY <2>2, SearchQueueStep
  <2>3. CASE ~(Push(t) \/ Flush(t) \/ Single(t))
    <3>1. UNCHANGED qvars
      BY <2>1, <2>3 DEF ThreadStep, While, TakeVertex, Test, Cas, SuccLoad, SuccSwap, Count, PassSingle
    <3> QED BY <1>2, <3>1
  <2> QED BY <2>2, <2>3
<1>7. CASE Team \/ BackLevel \/ BackVertex \/ Normalize \/ Verify \/ UNCHANGED vars
  <2>1. UNCHANGED qvars
    BY <1>7 DEF Team, Barrier, EndSingle, EndPBFS, BackLevel, BackVertex, Normalize, Verify, vars
  <2> QED BY <1>2, <2>1
<1> QED BY <1>3, <1>4, <1>5, <1>6, <1>7 DEF Next, Returned

\* The searches drive the queue by the protocol that the theorems about
\* SlidingQueue assume, over all sources and trials: with one slot per vertex
\* (bc.cc:104) it never overflows.
THEOREM QueueProtocol == Spec => Q!Spec
<1>1. Init => Q!QInit
  BY DEF Init
<1>2. IInv /\ [Next \/ Returned]_vars => [Q!Next]_(Q!qvars)
  BY ProtocolStep DEF QueueStep
<1> QED BY <1>1, <1>2, Invariance, PTL DEF Spec, Q!Spec

\* When a thread has left the loop, every other has left it or is about to: it
\* stands before the test of line 66 and finds the window empty.  So no thread
\* waits at a barrier for one that has left (bc.cc:66, 84-89).
NoneLeftBehind ==
    phase = "PBFS" /\ (\E s \in Thread : local[s].pc = "end")
       => Q!empty /\ \A t \in Thread : local[t].pc \in {"while", "end"}

\* And so it is in every reachable state.
THEOREM LevelsTogether == Spec => []NoneLeftBehind
<1>1. ASSUME IInv PROVE NoneLeftBehind
  <2> SUFFICES ASSUME phase = "PBFS", NEW s \in Thread, local[s].pc = "end"
               PROVE  Q!empty /\ \A t \in Thread : local[t].pc \in {"while", "end"}
    BY DEF NoneLeftBehind
  <2>1. PICK k \in 0 .. (NumNodes + 1) : WorkOK(k) \/ SlideOK(k)
    BY <1>1 DEF IInv, PhaseOK
  <2>2. WorkOK(k)
    BY <2>1 DEF SlideOK
  <2>3. \A t \in Thread : ThreadOK(k, t)
    BY <2>2 DEF WorkOK
  <2>4. Level(k) = {}
    BY <2>3 DEF ThreadOK
  <2>5. Q!empty
    BY <1>1, <2>2, <2>4, QueueReads DEF IInv, Types, WorkOK
  <2> QED BY <2>3, <2>4, <2>5 DEF ThreadOK
<1> QED BY <1>1, Invariance, PTL
=============================================================================
