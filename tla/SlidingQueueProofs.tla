------------------------- MODULE SlidingQueueProofs -------------------------
(***************************************************************************)
(* Theorems about SlidingQueue for every set of threads, every finite set  *)
(* of elements and every buffer size.  The inductive invariant is the      *)
(* conjunction of the module's own properties.  Its one unobvious part is  *)
(* NoOverflow: no action checks the capacity, so the bound has to come     *)
(* from counting.  Every slot below shared_in holds, or is about to        *)
(* receive, an element no other slot holds; this is an injection of the    *)
(* slots into Elem.                                                        *)
(***************************************************************************)
EXTENDS SlidingQueue, FiniteSetTheorems, TLAPS

\* TypeOK without the bound on shared_in, which follows from the rest.
Base ==
    /\ shared_in \in Nat
    /\ shared_out_start \in Nat /\ shared_out_end \in Nat
    /\ shared_out_start <= shared_out_end /\ shared_out_end <= shared_in
    /\ local_queue \in [Thread -> Seq(Elem)]
    /\ copy_start \in [Thread -> Int]

IInv == TypeOK /\ ClaimsApart /\ HeldOnce /\ NoOverflow

-----------------------------------------------------------------------------
\* Distinct elements in n slots bound n by the capacity.
LEMMA SlotBound ==
    ASSUME NEW n \in Nat, NEW f \in [0 .. (n - 1) -> Elem],
           \A i, j \in 0 .. (n - 1) : f[i] = f[j] => i = j
    PROVE  n <= Capacity
<1>1. f \in Injection(0 .. (n - 1), Elem)
  BY DEF Injection, IsInjective
<1>2. Cardinality(0 .. (n - 1)) <= Cardinality(Elem)
  BY <1>1, FS_Injection, ElemAssumption, Zenon
<1>3. Cardinality(0 .. (n - 1)) = n
  BY FS_Interval
<1>4. Cardinality(Elem) \in Nat
  BY FS_CardinalityType, ElemAssumption
<1> QED BY <1>2, <1>3, <1>4, ElemAssumption, CapacityAssumption

\* Claims and contents that are apart leave room for one more buffer `ext`.
LEMMA Room ==
    ASSUME Base, ClaimsApart, HeldOnce,
           NEW ext \in Seq(Elem),
           \A k, l \in DOMAIN ext : ext[k] = ext[l] => k = l,
           \A k \in DOMAIN ext, i \in Filled : ext[k] # shared[i],
           \A k \in DOMAIN ext, t \in Thread :
              Copying(t) => ext[k] \notin Buffered(t)
    PROVE  shared_in + Len(ext) <= Capacity
<1> DEFINE n == shared_in + Len(ext)
           Owner(i) == CHOOSE t \in Thread : i \in Claimed(t)
           f == [i \in 0 .. (n - 1) |->
                   IF i >= shared_in THEN ext[i - shared_in + 1]
                   ELSE IF i \in Filled THEN shared[i]
                   ELSE local_queue[Owner(i)][i - copy_start[Owner(i)] + 1]]
<1>1. n \in Nat /\ shared_in \in Nat /\ Len(ext) \in Nat /\ DOMAIN ext = 1 .. Len(ext)
  BY DEF Base
<1>2. ASSUME NEW i \in 0 .. (n - 1), i < shared_in, i \notin Filled
      PROVE  /\ Owner(i) \in Thread /\ i \in Claimed(Owner(i)) /\ Copying(Owner(i))
             /\ i - copy_start[Owner(i)] + 1 \in DOMAIN local_queue[Owner(i)]
             /\ f[i] = local_queue[Owner(i)][i - copy_start[Owner(i)] + 1]
             /\ f[i] \in Buffered(Owner(i))
             /\ f[i] \in Elem
  <2>1. \E t \in Thread : i \in Claimed(t)
    BY <1>1, <1>2 DEF Filled
  <2>2. Owner(i) \in Thread /\ i \in Claimed(Owner(i))
    BY <2>1
  <2>3. Copying(Owner(i))
    BY <2>2 DEF Claimed
  <2> DEFINE o == Owner(i)
  <2> HIDE DEF Owner
  <2>4. local_queue[o] \in Seq(Elem) /\ copy_start[o] \in Int
    BY <2>2 DEF Base
  <2>5. i - copy_start[o] + 1 \in 1 .. Len(local_queue[o])
    BY <2>2, <2>3, <2>4 DEF Claimed
  <2>6. i - copy_start[o] + 1 \in DOMAIN local_queue[o]
    BY <2>4, <2>5
  <2>7. f[i] = local_queue[o][i - copy_start[o] + 1]
    BY <1>1, <1>2
  <2> QED BY <2>2, <2>3, <2>4, <2>6, <2>7 DEF Buffered
<1>3. ASSUME NEW i \in 0 .. (n - 1), i >= shared_in
      PROVE  /\ i - shared_in + 1 \in DOMAIN ext
             /\ f[i] = ext[i - shared_in + 1]
             /\ f[i] \in Elem
  BY <1>1, <1>3
<1>4. ASSUME NEW i \in 0 .. (n - 1), i < shared_in, i \in Filled
      PROVE  f[i] = shared[i] /\ f[i] \in Elem
  BY <1>1, <1>4 DEF HeldOnce
<1> HIDE DEF Owner, f
<1>5. f \in [0 .. (n - 1) -> Elem]
  <2>1. \A i \in 0 .. (n - 1) : f[i] \in Elem
    BY <1>1, <1>2, <1>3, <1>4
  <2> QED BY <2>1 DEF f
<1>6. ASSUME NEW i \in 0 .. (n - 1), NEW j \in 0 .. (n - 1), f[i] = f[j]
      PROVE  i = j
  <2>1. CASE i >= shared_in /\ j >= shared_in
    <3>1. /\ i - shared_in + 1 \in DOMAIN ext
          /\ j - shared_in + 1 \in DOMAIN ext
          /\ ext[i - shared_in + 1] = ext[j - shared_in + 1]
      BY <1>3, <1>6, <2>1
    <3>2. i - shared_in + 1 = j - shared_in + 1
      BY <3>1
    <3> QED BY <1>1, <3>2
  <2>2. CASE i >= shared_in /\ j < shared_in
    BY <1>1, <1>2, <1>3, <1>4, <1>6, <2>2
  <2>3. CASE i < shared_in /\ j >= shared_in
    BY <1>1, <1>2, <1>3, <1>4, <1>6, <2>3
  <2>4. CASE i < shared_in /\ j < shared_in
    <3>1. CASE i \in Filled /\ j \in Filled
      BY <1>4, <1>6, <2>4, <3>1 DEF HeldOnce
    <3>2. CASE i \in Filled /\ j \notin Filled
      BY <1>2, <1>4, <1>6, <2>4, <3>2 DEF HeldOnce
    <3>3. CASE i \notin Filled /\ j \in Filled
      BY <1>2, <1>4, <1>6, <2>4, <3>3 DEF HeldOnce
    <3>4. CASE i \notin Filled /\ j \notin Filled
      <4> DEFINE o == Owner(i)
                 p == Owner(j)
      <4>1. /\ o \in Thread /\ p \in Thread
            /\ i - copy_start[o] + 1 \in DOMAIN local_queue[o]
            /\ j - copy_start[p] + 1 \in DOMAIN local_queue[p]
            /\ local_queue[o][i - copy_start[o] + 1] =
               local_queue[p][j - copy_start[p] + 1]
        BY <1>2, <1>6, <2>4, <3>4
      <4> HIDE DEF o, p
      <4>2. o = p /\ i - copy_start[o] + 1 = j - copy_start[p] + 1
        BY <4>1 DEF HeldOnce
      <4>3. copy_start[o] \in Int
        BY <4>1 DEF Base
      <4> QED BY <4>2, <4>3, <1>1
    <3> QED BY <3>1, <3>2, <3>3, <3>4
  <2> QED BY <1>1, <2>1, <2>2, <2>3, <2>4
<1> HIDE DEF n
<1> QED BY <1>1, <1>5, <1>6, SlotBound DEF n

\* Hence no flush, and no serial push, can run past the end of the array.
LEMMA Fit == Base /\ ClaimsApart /\ HeldOnce => NoOverflow
<1> SUFFICES ASSUME Base, ClaimsApart, HeldOnce PROVE NoOverflow
  OBVIOUS
<1>1. shared_in <= Capacity
  <2>1. << >> \in Seq(Elem) /\ DOMAIN << >> = {} /\ Len(<< >>) = 0
    OBVIOUS
  <2>2. shared_in + Len(<< >>) <= Capacity
    BY <2>1, Room
  <2> QED BY <2>1, <2>2 DEF Base
<1>2. ASSUME NEW t \in Thread, ~Copying(t)
      PROVE  shared_in + Len(local_queue[t]) <= Capacity
  <2> DEFINE ext == local_queue[t]
  <2>1. ext \in Seq(Elem)
    BY DEF Base
  <2>2. \A k, l \in DOMAIN ext : ext[k] = ext[l] => k = l
    BY DEF HeldOnce
  <2>3. \A k \in DOMAIN ext, i \in Filled : ext[k] # shared[i]
    BY DEF HeldOnce, Buffered
  <2>4. \A k \in DOMAIN ext, u \in Thread : Copying(u) => ext[k] \notin Buffered(u)
    BY <1>2 DEF HeldOnce, Buffered
  <2> HIDE DEF ext
  <2>5. shared_in + Len(ext) <= Capacity
    BY <2>1, <2>2, <2>3, <2>4, Room
  <2> QED BY <2>5 DEF ext
<1> QED BY <1>1, <1>2 DEF NoOverflow

-----------------------------------------------------------------------------
\* The initial state, and each action, establish the invariant.

\* The constructor's state satisfies the invariant.
LEMMA InitIInv == QInit => IInv
<1> SUFFICES ASSUME QInit PROVE IInv
  OBVIOUS
<1>1. \A t \in Thread : ~Copying(t) /\ Claimed(t) = {} /\ DOMAIN local_queue[t] = {}
  BY DEF QInit, Copying, Claimed
<1>2. Filled = {}
  BY DEF QInit, Filled
<1>3. TypeOK
  BY CapacityAssumption DEF QInit, TypeOK, NoCopy
<1>4. ClaimsApart /\ HeldOnce
  BY <1>1, <1>2 DEF ClaimsApart, HeldOnce
<1>5. Base
  BY <1>3 DEF TypeOK, Base
<1> QED BY <1>3, <1>4, <1>5, Fit DEF IInv

\* Base is a weakening of the type invariant.
LEMMA TypeBase == TypeOK => Base
  BY DEF TypeOK, Base

\* A thread-local push keeps the claims and adds one new element.
LEMMA LocalPushStep ==
    ASSUME IInv, NEW t \in Thread, NEW e \in Elem, Fresh(e), LocalPush(t, e)
    PROVE  TypeOK' /\ ClaimsApart' /\ HeldOnce'
<1>1. Base
  BY TypeBase DEF IInv
<1> DEFINE n == Len(local_queue[t])
<1>2. /\ local_queue[t] \in Seq(Elem) /\ n \in Nat
      /\ local_queue'[t] = Append(local_queue[t], e)
      /\ \A u \in Thread \ {t} : local_queue'[u] = local_queue[u]
      /\ DOMAIN local_queue[t] = 1 .. n
      /\ DOMAIN local_queue'[t] = 1 .. (n + 1)
      /\ local_queue'[t][n + 1] = e
      /\ \A k \in 1 .. n : local_queue'[t][k] = local_queue[t][k]
  BY <1>1 DEF Base, LocalPush
<1>3. TypeOK'
  BY <1>2 DEF IInv, TypeOK, LocalPush
<1>4. \A u \in Thread : Claimed(u)' = Claimed(u)
  BY <1>2 DEF LocalPush, Claimed, Copying
<1>5. Filled' = Filled /\ shared' = shared
  BY <1>4 DEF Filled, LocalPush
<1>6. ClaimsApart'
  BY <1>4 DEF IInv, ClaimsApart, LocalPush
<1>7. /\ \A i \in Filled : shared[i] # e
      /\ \A u \in Thread : e \notin Buffered(u)
  BY DEF Fresh, Pushed
<1>8. \A u \in Thread : Buffered(u)' \subseteq Buffered(u) \cup {e}
  <2>1. Buffered(t)' \subseteq Buffered(t) \cup {e}
    <3>1. ASSUME NEW k \in 1 .. (n + 1)
          PROVE  local_queue'[t][k] = e \/ (k \in 1 .. n /\ local_queue'[t][k] = local_queue[t][k])
      <4>1. k \in 1 .. n \/ k = n + 1
        BY <1>2
      <4> QED BY <1>2, <4>1
    <3> HIDE DEF n
    <3> QED BY <1>2, <3>1 DEF Buffered
  <2>2. \A u \in Thread \ {t} : Buffered(u)' = Buffered(u)
    BY <1>2 DEF Buffered
  <2> QED BY <2>1, <2>2
<1>9. ASSUME NEW u \in Thread, NEW v \in Thread,
             NEW k \in DOMAIN local_queue'[u], NEW l \in DOMAIN local_queue'[v],
             local_queue'[u][k] = local_queue'[v][l]
      PROVE  u = v /\ k = l
  <2>1. \A w \in Thread : \A m \in DOMAIN local_queue[w] : local_queue[w][m] # e
    BY <1>7 DEF Buffered
  <2>2. ASSUME NEW w \in Thread, NEW m \in DOMAIN local_queue'[w], ~(w = t /\ m = n + 1)
        PROVE  m \in DOMAIN local_queue[w] /\ local_queue'[w][m] = local_queue[w][m]
    BY <1>2, <2>2
  <2>3. CASE (u = t /\ k = n + 1) /\ (v = t /\ l = n + 1)
    BY <2>3
  <2>4. CASE (u = t /\ k = n + 1) /\ ~(v = t /\ l = n + 1)
    <3>1. local_queue'[u][k] = e
      BY <1>2, <2>4
    <3>2. local_queue'[v][l] # e
      BY <2>1, <2>2, <2>4
    <3> QED BY <1>9, <3>1, <3>2
  <2>5. CASE ~(u = t /\ k = n + 1) /\ (v = t /\ l = n + 1)
    <3>1. local_queue'[v][l] = e
      BY <1>2, <2>5
    <3>2. local_queue'[u][k] # e
      BY <2>1, <2>2, <2>5
    <3> QED BY <1>9, <3>1, <3>2
  <2>6. CASE ~(u = t /\ k = n + 1) /\ ~(v = t /\ l = n + 1)
    <3>1. \A w, x \in Thread : \A m \in DOMAIN local_queue[w], o \in DOMAIN local_queue[x] :
             local_queue[w][m] = local_queue[x][o] => w = x /\ m = o
      BY DEF IInv, HeldOnce
    <3>2. /\ k \in DOMAIN local_queue[u] /\ local_queue'[u][k] = local_queue[u][k]
          /\ l \in DOMAIN local_queue[v] /\ local_queue'[v][l] = local_queue[v][l]
      BY <2>2, <2>6
    <3>3. local_queue[u][k] = local_queue[v][l]
      BY <1>9, <3>2
    <3> QED BY <3>1, <3>2, <3>3
  <2> QED BY <2>3, <2>4, <2>5, <2>6
<1>10. HeldOnce'
  BY <1>5, <1>7, <1>8, <1>9 DEF IInv, HeldOnce
<1> QED BY <1>3, <1>6, <1>10

\* The fetch_and_add of a flush claims slots that nobody else has.
LEMMA ClaimStep ==
    ASSUME IInv, NEW t \in Thread, Claim(t)
    PROVE  TypeOK' /\ ClaimsApart' /\ HeldOnce'
<1>1. Base
  BY TypeBase DEF IInv
<1> DEFINE n == Len(local_queue[t])
<1>2. /\ shared_in \in Nat /\ n \in Nat /\ ~Copying(t)
      /\ shared_out_end \in Nat /\ shared_out_end <= shared_in
      /\ shared_in' = shared_in + n
      /\ copy_start'[t] = shared_in
      /\ \A u \in Thread \ {t} : copy_start'[u] = copy_start[u]
      /\ shared' = shared /\ local_queue' = local_queue
      /\ shared_out_end' = shared_out_end
  BY <1>1 DEF Base, Claim
<1>3. TypeOK'
  <2>1. shared_in + n <= Capacity
    BY <1>2 DEF IInv, NoOverflow
  <2> QED BY <1>2, <2>1, CapacityAssumption DEF IInv, TypeOK, Claim
<1>4. \A u \in Thread \ {t} : Claimed(u)' = Claimed(u)
  BY <1>2 DEF Claimed, Copying
<1>5. Claimed(t) = {} /\ Claimed(t)' = shared_in .. (shared_in' - 1)
  BY <1>2 DEF Claimed, Copying, NoCopy
<1>6. \A u \in Thread : Claimed(u) \subseteq shared_out_end .. (shared_in - 1)
  BY DEF IInv, ClaimsApart
<1>7. \A u \in Thread : Claimed(u)' \subseteq shared_out_end .. (shared_in' - 1)
  BY <1>2, <1>4, <1>5, <1>6
<1>8. ASSUME NEW u \in Thread, NEW v \in Thread \ {u}
      PROVE  Claimed(u)' \cap Claimed(v)' = {}
  <2>1. CASE u = t
    BY <1>2, <1>4, <1>5, <1>6, <2>1
  <2>2. CASE v = t
    BY <1>2, <1>4, <1>5, <1>6, <2>2
  <2>3. CASE u # t /\ v # t
    BY <1>4, <2>3 DEF IInv, ClaimsApart
  <2> QED BY <2>1, <2>2, <2>3
<1>9. ClaimsApart'
  BY <1>2, <1>7, <1>8 DEF ClaimsApart
<1>10. Filled' = Filled
  <2>1. ASSUME NEW i \in Filled'
        PROVE  i \in Filled
    <3>1. i \in Nat /\ i < shared_in
      BY <1>2, <1>5, <2>1 DEF Filled
    <3> QED BY <1>2, <1>4, <1>5, <2>1, <3>1 DEF Filled
  <2>2. ASSUME NEW i \in Filled
        PROVE  i \in Filled'
    BY <1>2, <1>4, <1>5, <2>2 DEF Filled
  <2> QED BY <2>1, <2>2
<1>11. HeldOnce'
  BY <1>2, <1>10 DEF IInv, HeldOnce, Buffered
<1> QED BY <1>3, <1>9, <1>11

\* The copy of a flush moves its elements to its own slots, once each.
LEMMA CopyOutStep ==
    ASSUME IInv, NEW t \in Thread, CopyOut(t)
    PROVE  TypeOK' /\ ClaimsApart' /\ HeldOnce'
<1>1. Base
  BY TypeBase DEF IInv
<1> DEFINE n == Len(local_queue[t])
           c == copy_start[t]
<1>2. /\ shared_in \in Nat /\ n \in Nat /\ c \in Int /\ Copying(t)
      /\ shared_out_end \in Nat /\ shared_out_end <= shared_in
      /\ shared_in' = shared_in /\ shared_out_end' = shared_out_end
      /\ DOMAIN local_queue[t] = 1 .. n
      /\ local_queue'[t] = << >> /\ copy_start'[t] = NoCopy
      /\ \A u \in Thread \ {t} : local_queue'[u] = local_queue[u]
                                 /\ copy_start'[u] = copy_start[u]
  BY <1>1 DEF Base, CopyOut
<1>3. Claimed(t) = c .. (c + n - 1) /\ Claimed(t) \subseteq shared_out_end .. (shared_in - 1)
  BY <1>2 DEF Claimed, IInv, ClaimsApart
<1>4. /\ shared' \in [0 .. (Capacity - 1) -> Elem \cup {Garbage}]
      /\ \A i \in 0 .. (Capacity - 1) \ Claimed(t) : shared'[i] = shared[i]
      /\ \A i \in Claimed(t) : /\ i - c + 1 \in DOMAIN local_queue[t]
                              /\ shared'[i] = local_queue[t][i - c + 1]
  <2>1. \A i \in Claimed(t) : i \in 0 .. (Capacity - 1) /\ i - c + 1 \in 1 .. n
    BY <1>2, <1>3, CapacityAssumption DEF IInv, TypeOK
  <2>2. DOMAIN shared = 0 .. (Capacity - 1)
    BY DEF IInv, TypeOK
  <2>3. DOMAIN shared \cup Claimed(t) = 0 .. (Capacity - 1)
    BY <2>1, <2>2
  <2>4. \A i \in Claimed(t) : local_queue[t][i - c + 1] \in Elem
    BY <1>1, <2>1 DEF Base
  <2>5. shared' = [i \in 0 .. (Capacity - 1) |->
                     IF i \in Claimed(t) THEN local_queue[t][i - c + 1] ELSE shared[i]]
    BY <2>3 DEF CopyOut
  <2> QED BY <1>2, <2>1, <2>4, <2>5 DEF IInv, TypeOK
<1>5. TypeOK'
  <2>1. local_queue' \in [Thread -> Seq(Elem)] /\ copy_start' \in [Thread -> Int]
    BY <1>1 DEF Base, CopyOut, NoCopy
  <2> QED BY <1>4, <2>1 DEF IInv, TypeOK, CopyOut
<1>6. Claimed(t)' = {} /\ \A u \in Thread \ {t} : Claimed(u)' = Claimed(u)
  BY <1>2 DEF Claimed, Copying
<1>7. ClaimsApart'
  BY <1>2, <1>6 DEF IInv, ClaimsApart
<1>8. Filled' = Filled \cup Claimed(t)
  <2>1. Claimed(t) \subseteq 0 .. (shared_in - 1)
    BY <1>2, <1>3
  <2>2. \A u \in Thread \ {t} : Claimed(u) \cap Claimed(t) = {}
    BY DEF IInv, ClaimsApart
  <2>3. Filled' = {i \in 0 .. (shared_in - 1) : \A u \in Thread \ {t} : i \notin Claimed(u)}
    BY <1>2, <1>6 DEF Filled
  <2> QED BY <2>1, <2>2, <2>3 DEF Filled
<1>9. \A i \in Filled : i \notin Claimed(t) /\ i \in 0 .. (Capacity - 1)
  BY <1>2, CapacityAssumption DEF Filled, IInv, TypeOK
<1>10. /\ \A w, x \in Thread : \A m \in DOMAIN local_queue[w], o \in DOMAIN local_queue[x] :
             local_queue[w][m] = local_queue[x][o] => w = x /\ m = o
       /\ \A i, j \in Filled : shared[i] = shared[j] => i = j
       /\ \A i \in Filled, w \in Thread : shared[i] \notin Buffered(w)
       /\ \A i \in Filled : shared[i] \in Elem
  BY DEF IInv, HeldOnce
<1>11. Buffered(t)' = {} /\ \A u \in Thread \ {t} : Buffered(u)' = Buffered(u)
  BY <1>2 DEF Buffered
<1>12. ASSUME NEW i \in Filled'
       PROVE  /\ shared'[i] \in Elem
              /\ \A j \in Filled' : shared'[i] = shared'[j] => i = j
              /\ \A u \in Thread : shared'[i] \notin Buffered(u)'
  <2>1. CASE i \in Filled
    <3>1. shared'[i] = shared[i]
      BY <1>4, <1>9, <2>1
    <3>2. \A j \in Claimed(t) : shared'[j] \in Buffered(t)
      BY <1>4 DEF Buffered
    <3> QED BY <1>4, <1>8, <1>9, <1>10, <1>11, <2>1, <3>1, <3>2
  <2>2. CASE i \in Claimed(t)
    <3>1. shared'[i] = local_queue[t][i - c + 1] /\ i - c + 1 \in DOMAIN local_queue[t]
      BY <1>4, <2>2
    <3>2. shared'[i] \in Buffered(t) /\ shared'[i] \in Elem
      BY <1>1, <3>1 DEF Buffered, Base
    <3>3. ASSUME NEW j \in Claimed(t), shared'[i] = shared'[j]
          PROVE  i = j
      <4>1. shared'[j] = local_queue[t][j - c + 1] /\ j - c + 1 \in DOMAIN local_queue[t]
        BY <1>4
      <4>2. \A m, o \in DOMAIN local_queue[t] :
               local_queue[t][m] = local_queue[t][o] => m = o
        BY <1>10
      <4> DEFINE m == i - c + 1
                 o == j - c + 1
      <4>3. /\ m \in DOMAIN local_queue[t] /\ o \in DOMAIN local_queue[t]
            /\ local_queue[t][m] = local_queue[t][o]
        BY <3>1, <3>3, <4>1
      <4> HIDE DEF m, o
      <4>4. m = o
        BY <4>2, <4>3
      <4>5. i \in Int /\ j \in Int
        BY <1>2, <1>3, <2>2
      <4> QED BY <1>2, <4>4, <4>5 DEF m, o
    <3>4. ASSUME NEW j \in Filled
          PROVE  shared'[i] # shared'[j]
      BY <1>4, <1>9, <1>10, <3>2
    <3>5. ASSUME NEW u \in Thread
          PROVE  shared'[i] \notin Buffered(u)'
      <4>1. CASE u = t
        BY <1>11, <4>1
      <4>2. CASE u # t
        <5>1. \A m \in DOMAIN local_queue[u] : local_queue[u][m] # shared'[i]
          BY <1>10, <3>1, <4>2
        <5>2. shared'[i] \notin Buffered(u)
          BY <5>1 DEF Buffered
        <5> QED BY <1>11, <4>2, <5>2
      <4> QED BY <4>1, <4>2
    <3> QED BY <1>8, <3>2, <3>3, <3>4, <3>5
  <2> QED BY <1>8, <2>1, <2>2
<1>13. \A w, x \in Thread : \A m \in DOMAIN local_queue'[w], o \in DOMAIN local_queue'[x] :
             local_queue'[w][m] = local_queue'[x][o] => w = x /\ m = o
  BY <1>2, <1>10
<1>14. HeldOnce'
  BY <1>12, <1>13 DEF HeldOnce
<1> QED BY <1>5, <1>7, <1>14

\* A push between regions fills the next slot with a new element.
LEMMA SerialPushStep ==
    ASSUME IInv, Quiescent, NEW e \in Elem, Fresh(e), SerialPush(e)
    PROVE  TypeOK' /\ ClaimsApart' /\ HeldOnce'
<1>1. Base
  BY TypeBase DEF IInv
<1>2. /\ shared_in \in Nat /\ shared_in' = shared_in + 1
      /\ shared'[shared_in] = e
      /\ \A i \in DOMAIN shared : i # shared_in => shared'[i] = shared[i]
      /\ local_queue' = local_queue /\ copy_start' = copy_start
      /\ shared_out_start' = shared_out_start /\ shared_out_end' = shared_out_end
  BY <1>1 DEF Base, SerialPush
<1>3. Base'
  BY <1>1, <1>2 DEF Base
<1>4. \A t \in Thread : /\ Claimed(t) = {} /\ Claimed(t)' = {}
                       /\ DOMAIN local_queue[t] = {} /\ DOMAIN local_queue'[t] = {}
                       /\ Buffered(t)' = {}
  BY <1>2 DEF Quiescent, Claimed, Copying, Buffered
<1>5. Filled = 0 .. (shared_in - 1) /\ Filled' = 0 .. shared_in
  BY <1>2, <1>4 DEF Filled
<1>6. ClaimsApart'
  BY <1>4 DEF ClaimsApart
<1>7. \A i \in Filled : i \in DOMAIN shared /\ i # shared_in
  BY <1>2, <1>5, CapacityAssumption DEF IInv, TypeOK
<1>8. \A i \in Filled : shared'[i] = shared[i] /\ shared[i] # e /\ shared[i] \in Elem
  BY <1>2, <1>7 DEF Fresh, Pushed, IInv, HeldOnce
<1>9. Filled' = Filled \cup {shared_in}
  BY <1>2, <1>5
<1>10. HeldOnce'
  <2>1. \A i, j \in Filled' : shared'[i] = shared'[j] => i = j
    BY <1>2, <1>8, <1>9 DEF IInv, HeldOnce
  <2>2. \A i \in Filled' : shared'[i] \in Elem
    BY <1>2, <1>8, <1>9
  <2> QED BY <1>4, <2>1, <2>2 DEF HeldOnce
<1>11. NoOverflow'
  BY <1>3, <1>6, <1>10, Fit, PTL
<1>12. TypeOK'
  <2>1. shared_in + 1 <= Capacity
    BY <1>2, <1>11 DEF NoOverflow
  <2>2. DOMAIN shared \cup {shared_in} = 0 .. (Capacity - 1)
    BY <1>2, <2>1, CapacityAssumption DEF IInv, TypeOK
  <2>3. shared' \in [0 .. (Capacity - 1) -> Elem \cup {Garbage}]
    BY <2>2 DEF SerialPush, IInv, TypeOK
  <2> QED BY <1>2, <1>3, <2>1, <2>3, CapacityAssumption DEF Base, TypeOK
<1> QED BY <1>6, <1>10, <1>12

\* Sliding moves the window over filled slots only.
LEMMA SlideStep ==
    ASSUME IInv, Quiescent, slide_window
    PROVE  TypeOK' /\ ClaimsApart' /\ HeldOnce'
<1>1. TypeOK'
  BY CapacityAssumption DEF IInv, TypeOK, slide_window
<1>2. \A t \in Thread : Claimed(t)' = {} /\ Claimed(t) = {} /\ Buffered(t)' = Buffered(t)
  BY DEF Quiescent, slide_window, Claimed, Copying, Buffered
<1>3. Filled' = Filled
  BY <1>2 DEF Filled, slide_window
<1> QED BY <1>1, <1>2, <1>3 DEF IInv, HeldOnce, ClaimsApart, slide_window

\* A reset between regions leaves nothing held.
LEMMA ResetStep ==
    ASSUME IInv, Quiescent, reset
    PROVE  TypeOK' /\ ClaimsApart' /\ HeldOnce'
<1>1. TypeOK'
  BY CapacityAssumption DEF IInv, TypeOK, reset
<1>2. \A t \in Thread : Claimed(t)' = {} /\ DOMAIN local_queue'[t] = {}
  BY DEF Quiescent, reset, Claimed, Copying
<1>3. Filled' = {}
  BY DEF Filled, reset
<1> QED BY <1>1, <1>2, <1>3 DEF HeldOnce, ClaimsApart

-----------------------------------------------------------------------------
\* The invariant and the safety properties it contains.

\* Every step keeps the invariant: each action keeps its parts, and the
\* bound on the slots follows from them.
LEMMA StepIInv == IInv /\ [Next]_qvars => IInv'
<1> SUFFICES ASSUME IInv, [Next]_qvars PROVE IInv'
  OBVIOUS
<1>1. TypeOK' /\ ClaimsApart' /\ HeldOnce'
  <2>1. CASE \E t \in Thread, e \in Elem : Fresh(e) /\ LocalPush(t, e)
    BY <2>1, LocalPushStep
  <2>2. CASE \E t \in Thread : Claim(t)
    BY <2>2, ClaimStep
  <2>3. CASE \E t \in Thread : CopyOut(t)
    BY <2>3, CopyOutStep
  <2>4. CASE Quiescent /\ \E e \in Elem : Fresh(e) /\ SerialPush(e)
    BY <2>4, SerialPushStep
  <2>5. CASE Quiescent /\ slide_window
    BY <2>5, SlideStep
  <2>6. CASE Quiescent /\ reset
    BY <2>6, ResetStep
  <2>7. CASE UNCHANGED qvars
    <3>1. Filled' = Filled /\ \A t \in Thread : /\ Claimed(t)' = Claimed(t)
                                              /\ Buffered(t)' = Buffered(t)
      BY <2>7 DEF qvars, Filled, Claimed, Copying, Buffered
    <3> QED BY <2>7, <3>1 DEF qvars, IInv, TypeOK, ClaimsApart, HeldOnce
  <2> QED BY <2>1, <2>2, <2>3, <2>4, <2>5, <2>6, <2>7 DEF Next
<1>2. Base'
  BY <1>1, TypeBase, PTL
<1>3. NoOverflow'
  BY <1>1, <1>2, Fit, PTL
<1> QED BY <1>1, <1>3 DEF IInv

\* The invariant holds in every reachable state, for any number of threads.
THEOREM Invariance == Spec => []IInv
  BY InitIInv, StepIInv, PTL DEF Spec

\* Every variable keeps its type; above all, no push or flush ever writes
\* outside the array the constructor allocated.
THEOREM TypeCorrect == Spec => []TypeOK
<1>1. IInv => TypeOK
  BY DEF IInv
<1> QED BY <1>1, Invariance, PTL

\* Concurrent flushes never write the same slot, nor one a reader can see.
THEOREM ClaimsAreApart == Spec => []ClaimsApart
<1>1. IInv => ClaimsApart
  BY DEF IInv
<1> QED BY <1>1, Invariance, PTL

\* No element pushed is lost or duplicated by the claim-and-copy of flush.
THEOREM ElementsHeldOnce == Spec => []HeldOnce
<1>1. IInv => HeldOnce
  BY DEF IInv
<1> QED BY <1>1, Invariance, PTL

\* A queue with a slot per element never overflows, without a bounds check.
THEOREM NeverOverflows == Spec => []NoOverflow
<1>1. IInv => NoOverflow
  BY DEF IInv
<1> QED BY <1>1, Invariance, PTL

-----------------------------------------------------------------------------
\* What readers and callers observe.

\* Under the invariant no step writes a slot below shared_out_end.
LEMMA StableStep ==
    ASSUME IInv, [Next]_qvars, NEW i \in 0 .. (shared_out_end - 1)
    PROVE  shared'[i] = shared[i]
<1>1. /\ i \in DOMAIN shared /\ i < shared_out_end
      /\ shared_out_end \in Nat /\ shared_in \in Nat /\ shared_out_end <= shared_in
  BY CapacityAssumption DEF IInv, TypeOK
<1>2. ASSUME NEW t \in Thread, CopyOut(t)
      PROVE  shared'[i] = shared[i]
  <2>1. i \notin Claimed(t)
    BY <1>1 DEF IInv, ClaimsApart
  <2> QED BY <1>1, <1>2, <2>1 DEF CopyOut
<1>3. ASSUME NEW e \in Elem, SerialPush(e)
      PROVE  shared'[i] = shared[i]
  BY <1>1, <1>3 DEF SerialPush
<1>4. CASE shared' = shared
  BY <1>4
<1> QED BY <1>2, <1>3, <1>4
        DEF Next, LocalPush, Claim, slide_window, reset, qvars

\* A window being read never changes under its reader.
THEOREM WindowIsStable == Spec => WindowStable
<1>1. IInv /\ [Next]_qvars =>
        [shared_in' >= shared_in =>
            \A i \in 0 .. (shared_out_end - 1) : shared'[i] = shared[i]]_qvars
  BY StableStep
<1> QED BY <1>1, Invariance, PTL DEF Spec, WindowStable

Hidden == {shared[i] : i \in Filled \ (0 .. (shared_out_end - 1))}
            \cup UNION {Buffered(t) : t \in Thread}

\* A buffered push is an append, whatever the other threads are doing.
LEMMA PushIsAppend ==
    ASSUME IInv, NEW e \in Elem, Fresh(e), NEW t \in Thread, LocalPush(t, e)
    PROVE  /\ Window' = Window /\ Hidden' = Hidden \cup {e}
           /\ e \notin Pushed /\ Pushed' = Pushed \cup {e}
<1>1. /\ local_queue[t] \in Seq(Elem)
      /\ local_queue'[t] = Append(local_queue[t], e)
      /\ \A u \in Thread \ {t} : local_queue'[u] = local_queue[u]
      /\ shared' = shared /\ shared_in' = shared_in /\ copy_start' = copy_start
      /\ shared_out_start' = shared_out_start /\ shared_out_end' = shared_out_end
  BY DEF IInv, TypeOK, LocalPush
<1>2. Window' = Window
  BY <1>1 DEF Window, WindowSlots
<1>3. Filled' = Filled
  <2>1. ~Copying(t)
    BY DEF LocalPush
  <2>2. \A u \in Thread : Claimed(u)' = Claimed(u)
    BY <1>1, <2>1 DEF Claimed, Copying
  <2> QED BY <1>1, <2>2 DEF Filled
<1>4. Buffered(t)' = Buffered(t) \cup {e} /\ \A u \in Thread \ {t} : Buffered(u)' = Buffered(u)
  <2> DEFINE n == Len(local_queue[t])
  <2>1. /\ DOMAIN local_queue[t] = 1 .. n /\ DOMAIN local_queue'[t] = 1 .. (n + 1)
        /\ n \in Nat /\ local_queue'[t][n + 1] = e
        /\ \A k \in 1 .. n : local_queue'[t][k] = local_queue[t][k]
    BY <1>1
  <2> HIDE DEF n
  <2>2. 1 .. (n + 1) = (1 .. n) \cup {n + 1}
    BY <2>1
  <2>3. Buffered(t)' = Buffered(t) \cup {e}
    BY <2>1, <2>2 DEF Buffered
  <2> QED BY <1>1, <2>3 DEF Buffered
<1>5. Hidden' = Hidden \cup {e}
  BY <1>1, <1>3, <1>4 DEF Hidden
<1>6. Pushed' = Pushed \cup {e}
  BY <1>1, <1>3, <1>4 DEF Pushed
<1> QED BY <1>2, <1>5, <1>6 DEF Fresh

\* No caller can observe the copy of a flush.
LEMMA CopyIsStutter ==
    ASSUME IInv, NEW t \in Thread, CopyOut(t)
    PROVE  Window' = Window /\ Hidden' = Hidden /\ Pushed' = Pushed
<1>1. /\ TypeOK' /\ TypeOK
      /\ shared_in' = shared_in
      /\ shared_out_start' = shared_out_start /\ shared_out_end' = shared_out_end
  BY CopyOutStep DEF IInv, CopyOut
<1>2. Window' = Window
  <2>1. \A i \in 0 .. (shared_out_end - 1) : shared'[i] = shared[i]
    BY StableStep DEF Next
  <2>2. WindowSlots \subseteq 0 .. (shared_out_end - 1)
    BY CapacityAssumption, <1>1 DEF WindowSlots, TypeOK
  <2> QED BY <1>1, <2>1, <2>2 DEF Window, WindowSlots
<1> DEFINE n == Len(local_queue[t])
           c == copy_start[t]
           Behind == 0 .. (shared_out_end - 1)
<1>3. /\ Copying(t) /\ n \in Nat /\ c \in Int /\ DOMAIN local_queue[t] = 1 .. n
      /\ local_queue'[t] = << >> /\ copy_start'[t] = NoCopy
      /\ \A u \in Thread \ {t} : local_queue'[u] = local_queue[u]
                                 /\ copy_start'[u] = copy_start[u]
  BY <1>1 DEF TypeOK, CopyOut
<1>4. Claimed(t) = c .. (c + n - 1)
  BY <1>3 DEF Claimed
<1>5. /\ Claimed(t)' = {} /\ Buffered(t)' = {}
      /\ \A u \in Thread \ {t} : Claimed(u)' = Claimed(u) /\ Buffered(u)' = Buffered(u)
  BY <1>3 DEF Claimed, Copying, Buffered
<1>6. Claimed(t) \subseteq 0 .. (shared_in - 1) /\ Claimed(t) \cap Behind = {}
  BY <1>1, CapacityAssumption DEF IInv, ClaimsApart, TypeOK
<1>7. Filled' = Filled \cup Claimed(t) /\ Filled \cap Claimed(t) = {}
  <2>1. \A u \in Thread \ {t} : Claimed(u) \cap Claimed(t) = {}
    BY DEF IInv, ClaimsApart
  <2>2. Filled' = {i \in 0 .. (shared_in - 1) : \A u \in Thread \ {t} : i \notin Claimed(u)}
    BY <1>1, <1>5 DEF Filled
  <2> QED BY <1>6, <2>1, <2>2 DEF Filled
<1>8. \A i \in Filled : shared'[i] = shared[i]
  BY <1>1, <1>7, CapacityAssumption DEF CopyOut, TypeOK, Filled
<1>9. {shared'[i] : i \in Claimed(t)} = Buffered(t)
  <2>1. ASSUME NEW i \in Claimed(t)
        PROVE  shared'[i] \in Buffered(t)
    BY <1>3, <1>4 DEF CopyOut, Buffered
  <2>2. ASSUME NEW k \in 1 .. n
        PROVE  c + k - 1 \in Claimed(t) /\ shared'[c + k - 1] = local_queue[t][k]
    <3>1. c + k - 1 \in Claimed(t) /\ (c + k - 1) - c + 1 = k
      BY <1>3, <1>4
    <3> QED BY <3>1 DEF CopyOut
  <2> QED BY <1>3, <2>1, <2>2 DEF Buffered
<1>10. {shared'[i] : i \in Filled' \ Behind} =
         {shared[i] : i \in Filled \ Behind} \cup Buffered(t)
  BY <1>6, <1>7, <1>8, <1>9
<1>11. UNION {Buffered(u) : u \in Thread} =
         Buffered(t) \cup UNION {Buffered(u)' : u \in Thread}
  BY <1>5
<1>12. Behind' = Behind
  BY <1>1
<1>13. Hidden' = {shared'[i] : i \in Filled' \ Behind} \cup UNION {Buffered(u)' : u \in Thread}
  BY <1>12 DEF Hidden
<1>14. Hidden = {shared[i] : i \in Filled \ Behind} \cup UNION {Buffered(u) : u \in Thread}
  BY DEF Hidden
<1>15. {shared'[i] : i \in Filled'} = {shared[i] : i \in Filled} \cup Buffered(t)
  BY <1>7, <1>8, <1>9
<1>16. Pushed' = Pushed
  BY <1>11, <1>15 DEF Pushed
<1> HIDE DEF Behind
<1> QED BY <1>2, <1>10, <1>11, <1>13, <1>14, <1>16

\* Nor the claim: the slots it takes are not filled yet.
LEMMA ClaimIsStutter ==
    ASSUME IInv, NEW t \in Thread, Claim(t)
    PROVE  Window' = Window /\ Hidden' = Hidden /\ Pushed' = Pushed
<1>1. /\ shared_in \in Nat /\ Len(local_queue[t]) \in Nat
      /\ shared_in' = shared_in + Len(local_queue[t]) /\ ~Copying(t)
      /\ copy_start'[t] = shared_in /\ local_queue' = local_queue
      /\ \A u \in Thread \ {t} : copy_start'[u] = copy_start[u]
  BY CapacityAssumption DEF IInv, TypeOK, Claim
<1>2. Claimed(t) = {} /\ Claimed(t)' = shared_in .. (shared_in' - 1)
  BY <1>1 DEF Claimed, Copying, NoCopy
<1>3. \A u \in Thread \ {t} :
         Claimed(u)' = Claimed(u) /\ Claimed(u) \subseteq 0 .. (shared_in - 1)
  BY <1>1, CapacityAssumption DEF Claimed, Copying, IInv, ClaimsApart, TypeOK
<1>4. \A i \in Filled' : i \in Filled
  <2> SUFFICES ASSUME NEW i \in Filled' PROVE i \in Filled
    OBVIOUS
  <2>1. i \in 0 .. (shared_in' - 1) /\ \A u \in Thread : i \notin Claimed(u)'
    BY DEF Filled
  <2>2. i \in 0 .. (shared_in - 1)
    BY <1>1, <1>2, <2>1
  <2> QED BY <1>2, <1>3, <2>1, <2>2 DEF Filled
<1>5. \A i \in Filled : i \in Filled'
  <2> SUFFICES ASSUME NEW i \in Filled PROVE i \in Filled'
    OBVIOUS
  <2>1. i \in 0 .. (shared_in - 1) /\ \A u \in Thread : i \notin Claimed(u)
    BY DEF Filled
  <2>2. i \in 0 .. (shared_in' - 1) /\ i \notin Claimed(t)'
    BY <1>1, <1>2, <2>1
  <2> QED BY <1>3, <2>1, <2>2 DEF Filled
<1>6. Filled' = Filled /\ \A u \in Thread : Buffered(u)' = Buffered(u)
  BY <1>1, <1>4, <1>5 DEF Buffered
<1> QED BY <1>6 DEF Claim, Window, WindowSlots, Hidden, Pushed

\* The slots behind the window, which the next slide brings into it.
Appended == {shared[i] : i \in shared_out_end .. (shared_in - 1)}

\* Between regions what was appended is what lies behind the window.
LEMMA QuiescentContent == IInv /\ Quiescent => Hidden = Appended
<1> SUFFICES ASSUME IInv, Quiescent PROVE Hidden = Appended
  OBVIOUS
<1>1. \A t \in Thread : Claimed(t) = {} /\ Buffered(t) = {}
  BY DEF Quiescent, Claimed, Copying, Buffered
<1>2. Filled = 0 .. (shared_in - 1)
  BY <1>1 DEF Filled
<1>3. Filled \ (0 .. (shared_out_end - 1)) = shared_out_end .. (shared_in - 1)
  BY <1>2, CapacityAssumption DEF IInv, TypeOK
<1> QED BY <1>1, <1>2, <1>3 DEF Hidden, Appended

\* Between regions every claimed slot is filled and every buffer empty.
LEMMA QuiescentPushed ==
    IInv /\ Quiescent => Pushed = {shared[i] : i \in 0 .. (shared_in - 1)}
<1>1. Quiescent => \A t \in Thread : Claimed(t) = {} /\ Buffered(t) = {}
  BY DEF Quiescent, Claimed, Copying, Buffered
<1> QED BY <1>1 DEF Filled, Pushed

\* The serial operations, called when the queue is quiescent.
LEMMA SerialPushIsAppend ==
    ASSUME IInv, Quiescent, NEW e \in Elem, Fresh(e), SerialPush(e)
    PROVE  /\ Window' = Window /\ Hidden' = Hidden \cup {e}
           /\ e \notin Pushed /\ Pushed' = Pushed \cup {e}
<1>1. /\ shared_in \in Nat /\ shared_out_end \in Nat /\ shared_out_end <= shared_in
      /\ shared_in' = shared_in + 1 /\ shared'[shared_in] = e
      /\ shared_out_start' = shared_out_start /\ shared_out_end' = shared_out_end
      /\ Quiescent'
  BY CapacityAssumption DEF IInv, TypeOK, SerialPush, Quiescent, Copying
<1>2. \A i \in 0 .. (shared_in - 1) : shared'[i] = shared[i]
  BY <1>1, CapacityAssumption DEF IInv, TypeOK, SerialPush
<1>3. Window' = Window
  <2>1. WindowSlots \subseteq 0 .. (shared_in - 1)
    BY <1>1, CapacityAssumption DEF WindowSlots, IInv, TypeOK
  <2> QED BY <1>1, <1>2, <2>1 DEF Window, WindowSlots
<1>4. IInv'
  BY StepIInv DEF Next
<1>5. Hidden = Appended
  BY QuiescentContent
<1>6. (Hidden = Appended)'
  BY <1>1, <1>4, QuiescentContent, PTL
<1>7. shared_out_end .. shared_in = (shared_out_end .. (shared_in - 1)) \cup {shared_in}
  BY <1>1
<1>8. \A i \in shared_out_end .. (shared_in - 1) : shared'[i] = shared[i]
  BY <1>1, <1>2
<1>9. shared_in' - 1 = shared_in
  BY <1>1
<1>10. Hidden' = Hidden \cup {e}
  BY <1>1, <1>5, <1>6, <1>7, <1>8, <1>9 DEF Appended
<1>11. Pushed = {shared[i] : i \in 0 .. (shared_in - 1)}
  BY QuiescentPushed
<1>12. (Pushed = {shared[i] : i \in 0 .. (shared_in - 1)})'
  BY <1>1, <1>4, QuiescentPushed, PTL
<1>13. 0 .. shared_in = (0 .. (shared_in - 1)) \cup {shared_in}
  BY <1>1
<1>14. Pushed' = Pushed \cup {e}
  BY <1>1, <1>2, <1>9, <1>11, <1>12, <1>13
<1> QED BY <1>3, <1>10, <1>14 DEF Fresh

\* After a slide the window is what had been appended.
LEMMA SlideIsSlide ==
    ASSUME IInv, Quiescent, slide_window
    PROVE  Window' = Hidden /\ Hidden' = {} /\ Pushed' = Pushed
<1>1. IInv' /\ Quiescent'
  BY StepIInv DEF Next, Quiescent, slide_window, Copying
<1>2. Window' = Hidden
  BY QuiescentContent DEF Appended, Window, WindowSlots, slide_window
<1>3. (Hidden = Appended)'
  BY <1>1, QuiescentContent, PTL
<1>4. shared_out_end' .. (shared_in' - 1) = {}
  BY CapacityAssumption DEF slide_window, IInv, TypeOK
<1>5. Pushed = {shared[i] : i \in 0 .. (shared_in - 1)}
  BY QuiescentPushed
<1>6. (Pushed = {shared[i] : i \in 0 .. (shared_in - 1)})'
  BY <1>1, QuiescentPushed, PTL
<1> QED BY <1>2, <1>3, <1>4, <1>5, <1>6 DEF Appended, slide_window

\* After a reset the queue holds nothing.
LEMMA ResetIsClear ==
    ASSUME IInv, Quiescent, reset
    PROVE  Window' = {} /\ Hidden' = {} /\ Pushed' = {}
<1>1. IInv' /\ Quiescent'
  BY StepIInv DEF Next, Quiescent, reset, Copying
<1>2. (Hidden = Appended)'
  BY <1>1, QuiescentContent, PTL
<1>3. (Pushed = {shared[i] : i \in 0 .. (shared_in - 1)})'
  BY <1>1, QuiescentPushed, PTL
<1> QED BY <1>2, <1>3 DEF Appended, Window, WindowSlots, reset

\* What a reader finds: the elements of the window are elements that were
\* pushed, one in each slot.
LEMMA WindowHeld ==
    ASSUME IInv
    PROVE  /\ \A i \in WindowSlots : shared[i] \in Elem
           /\ Window \subseteq Pushed /\ Hidden \subseteq Pushed
           /\ Pushed \subseteq Elem
           /\ size \in Nat /\ size = Cardinality(Window)
           /\ empty <=> Window = {}
<1>1. /\ shared_in \in Nat /\ shared_out_end \in Nat /\ shared_out_start \in Nat
      /\ shared_out_start <= shared_out_end /\ shared_out_end <= shared_in
  BY CapacityAssumption DEF IInv, TypeOK
<1>2. WindowSlots \subseteq Filled
  BY <1>1 DEF WindowSlots, Filled, IInv, ClaimsApart
<1>3. \A i \in WindowSlots : shared[i] \in Elem
  BY <1>2 DEF IInv, HeldOnce
<1>4. Window \subseteq Pushed /\ Hidden \subseteq Pushed
  BY <1>2 DEF Window, Pushed, Hidden
<1>5. Pushed \subseteq Elem
  <2>1. \A t \in Thread : Buffered(t) \subseteq Elem
    BY DEF IInv, TypeOK, Buffered
  <2> QED BY <2>1 DEF Pushed, IInv, HeldOnce
<1>6. size \in Nat /\ size = Cardinality(Window)
  <2> DEFINE f == [i \in WindowSlots |-> shared[i]]
  <2>1. IsFiniteSet(WindowSlots) /\ Cardinality(WindowSlots) = size /\ size \in Nat
    <3> DEFINE a == shared_out_start
               b == shared_out_end - 1
    <3>1. a \in Int /\ b \in Int /\ size \in Nat /\ size = b - a + 1 /\ (a > b => size = 0)
      BY <1>1 DEF size
    <3> HIDE DEF a, b
    <3>2. IsFiniteSet(a .. b) /\ Cardinality(a .. b) = IF a > b THEN 0 ELSE b - a + 1
      BY <3>1, FS_Interval
    <3>3. WindowSlots = a .. b
      BY DEF WindowSlots, a, b
    <3> QED BY <3>1, <3>2, <3>3
  <2>2. f \in Bijection(WindowSlots, Window)
    <3>1. \A i, j \in WindowSlots : f[i] = f[j] => i = j
      BY <1>2 DEF IInv, HeldOnce
    <3>2. f \in [WindowSlots -> Window] /\ \A e \in Window : \E i \in WindowSlots : f[i] = e
      BY DEF Window
    <3> QED BY <3>1, <3>2 DEF Bijection, Injection, Surjection, IsInjective
  <2>3. Cardinality(WindowSlots) = Cardinality(Window)
    <3>1. ExistsBijection(WindowSlots, Window)
      BY <2>2 DEF ExistsBijection
    <3> QED BY <2>1, <3>1, FS_Bijection, Zenon
  <2> QED BY <2>1, <2>3
<1>7. empty <=> Window = {}
  <2>1. empty <=> WindowSlots = {}
    BY <1>1 DEF empty, WindowSlots
  <2> QED BY <2>1 DEF Window
<1> QED BY <1>3, <1>4, <1>5, <1>6, <1>7

\* A new queue shows nothing and holds nothing.
LEMMA InitIsEmpty ==
    ASSUME QInit
    PROVE  Window = {} /\ Hidden = {} /\ Pushed = {}
<1>1. Filled = {} /\ \A t \in Thread : Buffered(t) = {}
  BY DEF QInit, Filled, Buffered
<1>2. WindowSlots = {}
  BY DEF QInit, WindowSlots
<1> QED BY <1>1, <1>2 DEF Window, Hidden, Pushed

\* To its callers the queue with its buffers is the double-buffered pair of
\* sets of the class comment: appends are not seen until the window slides,
\* and then all of them are.
THEOREM Refinement == Spec => RefinesDoubleBuffer
<1>1. QInit => DB!Init
  BY InitIsEmpty DEF DB!Init, Hidden
<1>2. IInv /\ [Next]_qvars => [DB!Next]_DB!dbvars
  <2> SUFFICES ASSUME IInv, [Next]_qvars PROVE [DB!Next]_DB!dbvars
    OBVIOUS
  <2>1. ASSUME NEW e \in Elem, e \notin Pushed, Pushed' = Pushed \cup {e},
               Window' = Window, Hidden' = Hidden \cup {e}
        PROVE  DB!Next
    BY <2>1 DEF DB!Next, DB!Append, Hidden
  <2>2. ASSUME Window' = Window, Hidden' = Hidden, Pushed' = Pushed
        PROVE  [DB!Next]_DB!dbvars
    BY <2>2 DEF DB!dbvars, Hidden
  <2>3. CASE \E t \in Thread, e \in Elem : Fresh(e) /\ LocalPush(t, e)
    BY <2>1, <2>3, PushIsAppend
  <2>4. CASE \E t \in Thread : Claim(t)
    BY <2>2, <2>4, ClaimIsStutter
  <2>5. CASE \E t \in Thread : CopyOut(t)
    BY <2>2, <2>5, CopyIsStutter
  <2>6. CASE Quiescent /\ \E e \in Elem : Fresh(e) /\ SerialPush(e)
    BY <2>1, <2>6, SerialPushIsAppend
  <2>7. CASE Quiescent /\ slide_window
    BY <2>7, SlideIsSlide DEF DB!Next, DB!Slide, Hidden
  <2>8. CASE Quiescent /\ reset
    BY <2>8, ResetIsClear DEF DB!Next, DB!Clear, Hidden
  <2>9. CASE UNCHANGED qvars
    <3>1. Filled' = Filled /\ \A t \in Thread : Buffered(t)' = Buffered(t)
      BY <2>9 DEF qvars, Filled, Claimed, Copying, Buffered
    <3> QED BY <2>2, <2>9, <3>1 DEF qvars, Window, WindowSlots, Hidden, Pushed
  <2> QED BY <2>3, <2>4, <2>5, <2>6, <2>7, <2>8, <2>9 DEF Next
<1> QED BY <1>1, <1>2, Invariance, PTL DEF Spec, RefinesDoubleBuffer, DB!Spec
=============================================================================
