----------------------------- MODULE SlabProofs -----------------------------
(***************************************************************************)
(* The slab allocator keeps its books, for every number of frames and of   *)
(* buffers in a slab, its hash table implements a map, for every table     *)
(* size and set of keys, and buffers and headers have room, for every size *)
(* of an object.                                                           *)
(*                                                                         *)
(* The invariant of a cache, SlabInv, is that of SlabCache; the order that *)
(* ListInOrder reads off the links with ListFrom is that of the positions  *)
(* of q. The invariant of the table, HashInv, adds to Reachable that a     *)
(* lookup never leaves the path to its key, and that an insertion has      *)
(* passed only FULL buckets: since no bucket becomes EMPTY again, both     *)
(* last.                                                                   *)
(***************************************************************************)
EXTENDS SlabCache, SlabHash, SlabGeometry, WellFoundedInduction

(***************************************************************************)
(* Walks over the list                                                     *)
(***************************************************************************)
WalkStep(next, f, n, s) ==
  IF s \in {NULL, tslab} \/ n = 0 THEN <<>> ELSE <<s>> \o f[n - 1][next[s]]

IsWalk(next, f, N) == f = [n \in 0 .. N |-> [s \in Slabs \cup {NULL} |-> WalkStep(next, f, n, s)]]

From(q, i, k) == [j \in 1 .. k |-> q[i + j - 1]]
Least(a, b) == IF a < b THEN a ELSE b

\* Every set of numbers with an element has a least one: the proofs below by induction
\* take the least counterexample.
LEMMA LeastNumber ==
  ASSUME NEW S \in SUBSET Nat, S # {}
  PROVE  \E x \in S : \A y \in S : x <= y
<1>1. PICK x \in S : \A y \in S : ~(<<y, x>> \in OpToRel(<, Nat))
  BY NatLessThanWellFounded, WFMin, Zenon
<1>2. ASSUME NEW y \in S PROVE x <= y
  <2>1. ~(y < x)
    BY <1>1, Zenon DEF OpToRel
  <2>2. QED
    BY <2>1
<1>3. QED
  BY <1>2

\* The walks of every length exist, so that ListFrom is one.
LEMMA WalkExists ==
  ASSUME NEW next, NEW N \in Nat
  PROVE  \E f : IsWalk(next, f, N)
<1> DEFINE Bad == {n \in Nat : ~\E f : IsWalk(next, f, n)}
<1> SUFFICES ASSUME Bad # {} PROVE FALSE
  BY Zenon
<1>1. PICK n \in Bad : \A l \in Bad : n <= l
  <2>1. Bad \in SUBSET Nat
    OBVIOUS
  <2> HIDE DEF Bad
  <2> QED
    BY <2>1, LeastNumber
<1>2. n \in Nat /\ ~\E f : IsWalk(next, f, n)
  OBVIOUS
<1>3. n # 0
  <2> DEFINE f == [l \in 0 .. 0 |-> [s \in Slabs \cup {NULL} |-> <<>>]]
  <2>1. IsWalk(next, f, 0)
    BY DEF IsWalk, WalkStep
  <2>2. QED
    BY <1>2, <2>1, Zenon
<1>4. n - 1 \in Nat /\ n - 1 \notin Bad
  <2>1. n - 1 \in Nat /\ ~(n <= n - 1)
    BY <1>2, <1>3
  <2>2. QED
    BY <1>1, <2>1, Zenon
<1>5. PICK g : IsWalk(next, g, n - 1)
  BY <1>4
<1> DEFINE f == [l \in 0 .. n |-> IF l = n THEN [s \in Slabs \cup {NULL} |-> WalkStep(next, g, n, s)]
                                 ELSE g[l]]
<1>6. \A l \in 0 .. n - 1 : f[l] = g[l]
  BY <1>2
<1>7. ASSUME NEW l \in 0 .. n, NEW s PROVE WalkStep(next, f, l, s) = WalkStep(next, g, l, s)
  <2>1. CASE l = 0
    BY <2>1 DEF WalkStep
  <2>2. CASE l # 0
    <3>1. f[l - 1] = g[l - 1]
      <4>1. l - 1 \in 0 .. n - 1
        BY <1>2, <2>2
      <4> HIDE DEF f
      <4>2. QED
        BY <1>6, <4>1
    <3> HIDE DEF f
    <3>2. QED
      BY <3>1 DEF WalkStep
  <2>3. QED
    BY <2>1, <2>2
<1>8. ASSUME NEW l \in 0 .. n PROVE f[l] = [s \in Slabs \cup {NULL} |-> WalkStep(next, f, l, s)]
  <2>1. CASE l = n
    <3>1. f[l] = [s \in Slabs \cup {NULL} |-> WalkStep(next, g, l, s)]
      BY <2>1
    <3> HIDE DEF f
    <3>2. QED
      BY <1>7, <3>1, Zenon
  <2>2. CASE l # n
    <3>1. l \in 0 .. n - 1
      BY <1>2, <2>2
    <3>2. g[l] = [s \in Slabs \cup {NULL} |-> WalkStep(next, g, l, s)]
      BY <1>5, <3>1, Zenon DEF IsWalk
    <3>3. f[l] = g[l]
      BY <1>6, <3>1
    <3> HIDE DEF f
    <3>4. QED
      BY <1>7, <3>2, <3>3, Zenon
  <2>3. QED
    BY <2>1, <2>2
<1>9. IsWalk(next, f, n)
  <2>1. f = [l \in 0 .. n |-> f[l]]
    BY <1>2
  <2> HIDE DEF f
  <2>2. QED
    BY <1>8, <2>1, Zenon DEF IsWalk
<1>10. QED
  BY <1>2, <1>9

\* ListFrom is the walk along the links of the cache.
LEMMA ListFromWalks == IsWalk(c.next, ListFrom, NFrames)
<1> DEFINE F(f) == [n \in 0 .. NFrames |->
                      [s \in Slabs \cup {NULL} |->
                         IF s \in {NULL, tslab} \/ n = 0 THEN <<>> ELSE <<s>> \o f[n - 1][c.next[s]]]]
<1>1. PICK g : g = F(g)
  <2>1. PICK g : IsWalk(c.next, g, NFrames)
    BY WalkExists, SlabAssumption DEF SlabAssumption
  <2>2. g = F(g)
    BY <2>1, Zenon DEF IsWalk, WalkStep
  <2>3. QED
    BY <2>2, Zenon
<1>2. ListFrom = CHOOSE f : f = F(f)
  BY Zenon DEF ListFrom
<1>3. ListFrom = F(ListFrom)
  BY <1>1, <1>2, Zenon
<1>4. QED
  BY <1>3, Zenon DEF IsWalk, WalkStep


\* A walk that begins one slab earlier.
LEMMA FromStep ==
  ASSUME NEW q, NEW i \in Nat, NEW k \in Nat
  PROVE  <<q[i]>> \o From(q, i + 1, k) = From(q, i, k + 1)
<1> DEFINE f == From(q, i + 1, k)
           g == From(q, i, k + 1)
<1>1. f \in Seq({q[x] : x \in Nat}) /\ Len(f) = k
  BY DEF From
<1>2. \A j \in 1 .. k : f[j] = q[i + j]
  <2>1. \A j \in 1 .. k : (i + 1) + j - 1 = i + j
    OBVIOUS
  <2>2. QED
    BY <2>1 DEF From
<1>3. g = [j \in 1 .. k + 1 |-> IF j = 1 THEN q[i] ELSE f[j - 1]]
  <2>1. ASSUME NEW j \in 1 .. k + 1 PROVE q[i + j - 1] = IF j = 1 THEN q[i] ELSE f[j - 1]
    <3>1. CASE j = 1
      <4>1. i + j - 1 = i
        BY <3>1
      <4>2. QED
        BY <3>1, <4>1, Zenon
    <3>2. CASE j # 1
      <4>1. j - 1 \in 1 .. k /\ i + (j - 1) = i + j - 1
        BY <3>2
      <4> HIDE DEF f
      <4>2. QED
        BY <1>2, <3>2, <4>1
    <3>3. QED
      BY <3>1, <3>2
  <2>2. QED
    BY <2>1, Zenon DEF From
<1> HIDE DEF f, g
<1>4. q[i] \in {q[x] : x \in Nat}
  OBVIOUS
<1>5. <<q[i]>> \o f = [j \in 1 .. k + 1 |-> IF j = 1 THEN q[i] ELSE f[j - 1]]
  BY <1>1, <1>4
<1>6. QED
  BY <1>3, <1>5 DEF f, g

\* Walking the list from position i visits what follows there, up to the bound.
LEMMA WalkIs ==
  ASSUME NEW next, NEW prev, NEW U, NEW q, NEW m, Linked(next, prev, U, q, m),
         NEW f, NEW N \in Nat, IsWalk(next, f, N)
  PROVE  \A n \in 0 .. N : \A i \in 1 .. m + 1 : f[n][q[i]] = From(q, i, Least(n, m + 1 - i))
<1> DEFINE Right(n) == \A i \in 1 .. m + 1 : f[n][q[i]] = From(q, i, Least(n, m + 1 - i))
           Bad == {n \in 0 .. N : ~Right(n)}
<1>0. m \in Nat
  BY DEF Linked
<1> SUFFICES ASSUME Bad # {} PROVE FALSE
  BY Zenon
<1>1. PICK n \in Bad : \A l \in Bad : n <= l
  <2>1. Bad \in SUBSET Nat
    OBVIOUS
  <2> HIDE DEF Bad
  <2> QED
    BY <2>1, LeastNumber
<1>2. n \in 0 .. N /\ ~Right(n)
  BY Zenon
<1>3. PICK i \in 1 .. m + 1 : f[n][q[i]] # From(q, i, Least(n, m + 1 - i))
  BY <1>2
<1>4. i \in 0 .. m + 1 /\ q[i] \in Slabs
  BY <1>0 DEF Linked
<1>5. f[n][q[i]] = WalkStep(next, f, n, q[i])
  <2>1. f[n] = [s \in Slabs \cup {NULL} |-> WalkStep(next, f, n, s)]
    BY <1>2, Zenon DEF IsWalk
  <2>2. q[i] \in Slabs \cup {NULL}
    BY <1>4
  <2>3. [s \in Slabs \cup {NULL} |-> WalkStep(next, f, n, s)][q[i]] = WalkStep(next, f, n, q[i])
    BY <2>2, Zenon
  <2>4. QED
    BY <2>1, <2>3, Zenon
<1>6. \A x : From(q, x, 0) = <<>>
  BY DEF From
<1>7. n # 0
  <2>1. SUFFICES ASSUME n = 0 PROVE FALSE
    OBVIOUS
  <2>2. Least(n, m + 1 - i) = 0
    BY <1>0, <2>1 DEF Least
  <2>3. QED
    BY <1>3, <1>5, <1>6, <2>1, <2>2 DEF WalkStep
<1>8. i # m + 1
  <2>1. SUFFICES ASSUME i = m + 1 PROVE FALSE
    OBVIOUS
  <2>2. Least(n, m + 1 - i) = 0 /\ q[i] = tslab
    BY <1>0, <1>2, <2>1 DEF Least, Linked
  <2>3. QED
    BY <1>3, <1>5, <1>6, <2>2 DEF WalkStep
<1>9. i \in 1 .. m /\ i \in 0 .. m /\ i + 1 \in 1 .. m + 1 /\ m + 1 \in 0 .. m + 1 /\ i \in Nat
  BY <1>0, <1>8
<1>10. q[i] # tslab /\ q[i] # NULL /\ next[q[i]] = q[i + 1]
  <2>1. q[i] # tslab
    BY <1>4, <1>8, <1>9 DEF Linked
  <2>2. QED
    BY <1>4, <1>9, <2>1, NotFrames DEF Linked
<1>11. n - 1 \in 0 .. N /\ n - 1 \in Nat /\ Right(n - 1)
  <2>1. n - 1 \in 0 .. N /\ n - 1 \in Nat /\ ~(n <= n - 1)
    BY <1>2, <1>7
  <2>2. QED
    BY <1>1, <2>1, Zenon
<1>12. f[n - 1][q[i + 1]] = From(q, i + 1, Least(n - 1, m + 1 - (i + 1)))
  BY <1>9, <1>11, Zenon
<1>13. /\ Least(n - 1, m + 1 - (i + 1)) \in Nat
       /\ Least(n, m + 1 - i) = Least(n - 1, m + 1 - (i + 1)) + 1
  BY <1>0, <1>2, <1>7, <1>9 DEF Least
<1>14. f[n][q[i]] = <<q[i]>> \o f[n - 1][q[i + 1]]
  BY <1>5, <1>7, <1>10, Zenon DEF WalkStep
<1>15. f[n][q[i]] = From(q, i, Least(n, m + 1 - i))
  BY <1>9, <1>12, <1>13, <1>14, FromStep, Zenon
<1>16. QED
  BY <1>3, <1>15

\* The list has as many members as there are frames in use.
LEMMA ListLength ==
  ASSUME NEW next, NEW prev, NEW U, NEW q, NEW m, Linked(next, prev, U, q, m)
  PROVE  m \in Nat /\ Cardinality(U) = m /\ m <= NFrames
<1>1. m \in Nat /\ NFrames \in Nat /\ \A i \in 1 .. m : i \in 0 .. m + 1 /\ q[i] \in U
  BY SlabAssumption DEF Linked, SlabAssumption
<1> DEFINE h == [i \in 1 .. m |-> q[i]]
<1>2. h \in [1 .. m -> U]
  BY <1>1
<1>3. \A a, b \in 1 .. m : h[a] = h[b] => a = b
  BY <1>1 DEF Linked
<1>4. \A s \in U : \E a \in 1 .. m : h[a] = s
  BY DEF Linked
<1> HIDE DEF h
<1>5. h \in Bijection(1 .. m, U)
  BY <1>2, <1>3, <1>4 DEF Bijection, Injection, Surjection, IsInjective
<1>6. Cardinality(U) = m
  BY <1>1, <1>5, FS_CountingElements DEF ExistsBijection
<1>7. IsFiniteSet(SlabFrames) /\ Cardinality(SlabFrames) = NFrames
  BY <1>1, FS_Interval DEF SlabFrames
<1>8. U \in SUBSET SlabFrames
  BY DEF Linked
<1>9. Cardinality(U) <= Cardinality(SlabFrames)
  BY <1>7, <1>8, FS_Subset
<1>10. QED
  BY <1>1, <1>6, <1>7, <1>9

-----------------------------------------------------------------------------
(***************************************************************************)
(* The invariant                                                           *)
(***************************************************************************)
SlabInv == /\ Sound(c) /\ Counted(c, live) /\ dangling \in BOOLEAN
           /\ dangling = FALSE => InOrder(c)

\* The walks of kmem_cache_reap and of the properties, by position.
LEMMA WalksByPosition ==
  ASSUME NEW q, NEW m, NEW k, Linked(c.next, c.prev, Used(c), q, m), Sorted(c.refs, c.fl_ptr, q, m, k)
  PROVE  Chain = From(q, 1, m) /\ ReapWalk = From(q, k, m + 1 - k)
<1>1. m \in Nat /\ m <= NFrames /\ NFrames \in Nat
  BY ListLength, SlabAssumption DEF SlabAssumption
<1>2. \A n \in 0 .. NFrames : \A i \in 1 .. m + 1 : ListFrom[n][q[i]] = From(q, i, Least(n, m + 1 - i))
  <2>1. IsWalk(c.next, ListFrom, NFrames)
    BY ListFromWalks
  <2>2. QED
    BY <1>1, <2>1, WalkIs
<1>3. k \in 1 .. m + 1 /\ c.fl_ptr = q[k] /\ c.next[hslab] = q[1]
  <2>1. 0 \in 0 .. m /\ 0 + 1 = 1
    BY <1>1
  <2>2. QED
    BY <2>1 DEF Linked, Sorted
<1>4. 1 \in 1 .. m + 1 /\ NFrames \in 0 .. NFrames
  BY <1>1
<1>5. ListFrom[NFrames][q[1]] = From(q, 1, Least(NFrames, m + 1 - 1))
  BY <1>2, <1>4, Zenon
<1>6. ListFrom[NFrames][q[k]] = From(q, k, Least(NFrames, m + 1 - k))
  BY <1>2, <1>3, <1>4, Zenon
<1>7. Least(NFrames, m + 1 - 1) = m /\ Least(NFrames, m + 1 - k) = m + 1 - k
  BY <1>1, <1>3 DEF Least
<1>8. QED
  BY <1>3, <1>5, <1>6, <1>7, Zenon DEF Chain, ReapWalk

\* The invariant implies that the list is in order.
LEMMA OrderHolds == SlabInv => ListInOrder
<1> SUFFICES ASSUME SlabInv, dangling = FALSE PROVE ListInOrder
  BY Zenon DEF ListInOrder, SlabInv
<1>1. PICK q, m, k : Linked(c.next, c.prev, Used(c), q, m) /\ Sorted(c.refs, c.fl_ptr, q, m, k)
  BY DEF SlabInv, InOrder
<1>2. Chain = From(q, 1, m)
  BY <1>1, WalksByPosition
<1>3. UsedFrames = Used(c) /\ m \in Nat /\ Cardinality(Used(c)) = m
  BY <1>1, ListLength DEF UsedFrames, Used
<1>4. Len(Chain) = m /\ DOMAIN Chain = 1 .. m /\ \A i \in 1 .. m : Chain[i] = q[i]
  <2>1. \A i \in 1 .. m : 1 + i - 1 = i
    BY <1>3
  <2>2. QED
    BY <1>2, <1>3, <2>1 DEF From
<1>5. Range(Chain) = UsedFrames
  BY <1>1, <1>3, <1>4 DEF Range, Linked
<1>6. k \in 1 .. m + 1 /\ c.fl_ptr = q[k]
  BY <1>1 DEF Sorted
<1>7. BufCnt \in Nat \ {0} /\ \A i \in 1 .. m : i \in 1 .. k - 1 \/ i \in k .. m
  BY <1>3, <1>6, SlabAssumption DEF SlabAssumption
<1>8. ASSUME NEW i \in DOMAIN Chain, NEW n \in DOMAIN Chain, i < n
      PROVE  /\ c.refs[Chain[n]] = BufCnt => c.refs[Chain[i]] = BufCnt
             /\ c.refs[Chain[i]] = 0 => c.refs[Chain[n]] = 0
  <2>1. i \in 1 .. m /\ n \in 1 .. m /\ Chain[i] = q[i] /\ Chain[n] = q[n]
    BY <1>4
  <2>2. c.refs[q[i]] = 0 => c.refs[q[n]] = 0
    BY <1>1, <1>8, <2>1 DEF Sorted
  <2>3. ASSUME c.refs[q[n]] = BufCnt PROVE c.refs[q[i]] = BufCnt
    <3>1. n \notin k .. m
      BY <1>1, <1>7, <2>3 DEF Sorted
    <3>2. i \in 1 .. k - 1
      BY <1>3, <1>6, <1>7, <1>8, <2>1, <3>1, SMTT(30)
    <3>3. QED
      BY <1>1, <3>2 DEF Sorted
  <2>4. QED
    BY <2>1, <2>2, <2>3
<1>9. \/ c.fl_ptr = tslab /\ \A s \in UsedFrames : c.refs[s] = BufCnt
      \/ \E n \in DOMAIN Chain : /\ c.fl_ptr = Chain[n] /\ c.refs[Chain[n]] < BufCnt
                                 /\ \A i \in 1 .. n - 1 : c.refs[Chain[i]] = BufCnt
  <2>1. CASE k = m + 1
    <3>1. c.fl_ptr = tslab
      BY <1>1, <1>6, <2>1, Zenon DEF Linked
    <3>2. \A i \in 1 .. m : c.refs[q[i]] = BufCnt
      <4>1. \A i \in 1 .. m : i \in 1 .. k - 1
        BY <1>3, <2>1
      <4>2. QED
        BY <1>1, <4>1 DEF Sorted
    <3>3. QED
      BY <1>1, <1>3, <3>1, <3>2 DEF Linked
  <2>2. CASE k # m + 1
    <3>1. k \in 1 .. m /\ k \in k .. m /\ \A i \in 1 .. k - 1 : i \in 1 .. m
      BY <1>3, <1>6, <2>2
    <3>2. c.refs[q[k]] < BufCnt /\ \A i \in 1 .. k - 1 : c.refs[q[i]] = BufCnt
      BY <1>1, <3>1 DEF Sorted
    <3>3. k \in DOMAIN Chain /\ Chain[k] = q[k] /\ \A i \in 1 .. k - 1 : Chain[i] = q[i]
      BY <1>4, <3>1
    <3>4. QED
      BY <1>6, <3>2, <3>3
  <2>3. QED
    BY <2>1, <2>2
<1>10. QED
  BY <1>3, <1>4, <1>5, <1>8, <1>9 DEF ListInOrder

\* kmem_cache_reap frees slabs without a buffer in use only.
LEMMA ReapedUnused ==
  ASSUME SlabInv, dangling = FALSE
  PROVE  \A s \in Reaped : s \in Used(c) /\ c.refs[s] = 0
<1>1. PICK q, m, k : Linked(c.next, c.prev, Used(c), q, m) /\ Sorted(c.refs, c.fl_ptr, q, m, k)
  BY DEF SlabInv, InOrder
<1>2. ReapWalk = From(q, k, m + 1 - k)
  BY <1>1, WalksByPosition
<1>3. m \in Nat /\ k \in 1 .. m + 1
  BY <1>1 DEF Linked, Sorted
<1>4. /\ DOMAIN ReapWalk = 1 .. m + 1 - k
      /\ \A n \in 1 .. m + 1 - k : k + n - 1 \in 1 .. m /\ ReapWalk[n] = q[k + n - 1]
  BY <1>2, <1>3 DEF From
<1>5. SUFFICES ASSUME NEW n \in DOMAIN ReapWalk, NEW l \in 1 .. n, Unused(ReapWalk[l])
               PROVE  ReapWalk[n] \in Used(c) /\ c.refs[ReapWalk[n]] = 0
  BY DEF Reaped
<1>6. /\ k + n - 1 \in 1 .. m /\ ReapWalk[n] = q[k + n - 1]
      /\ k + l - 1 \in 1 .. m /\ ReapWalk[l] = q[k + l - 1] /\ n \in Nat /\ l \in Nat
  <2>1. l \in 1 .. m + 1 - k /\ n \in Nat /\ l \in Nat
    BY <1>3, <1>4
  <2>2. QED
    BY <1>4, <2>1
<1>7. c.refs[q[k + l - 1]] = 0 /\ q[k + n - 1] \in Used(c)
  BY <1>1, <1>5, <1>6, Zenon DEF Unused, Linked
<1>8. c.refs[q[k + n - 1]] = 0
  <2>1. CASE l = n
    BY <1>7, <2>1
  <2>2. CASE l # n
    <3>1. k + l - 1 < k + n - 1
      BY <1>3, <1>5, <1>6, <2>2
    <3>2. QED
      BY <1>1, <1>6, <1>7, <3>1 DEF Sorted
  <2>3. QED
    BY <2>1, <2>2
<1>9. QED
  BY <1>6, <1>7, <1>8


\* The empty cache: hslab and tslab only.
LEMMA SlabStart == SlabInit => SlabInv
<1> SUFFICES ASSUME SlabInit PROVE SlabInv
  OBVIOUS
<1>0. BufCnt \in Nat \ {0} /\ NFrames \in Nat
  BY SlabAssumption DEF SlabAssumption
<1>1. c \in Caches /\ c.fault = FALSE
  BY <1>0, NotFrames DEF SlabInit, Caches, Links
<1>2. Used(c) = {} /\ c.fl_ptr = tslab /\ c.next[hslab] = tslab /\ c.prev[tslab] = hslab
  BY NotFrames DEF SlabInit, Used
<1>3. Counted(c, live)
  BY <1>2 DEF SlabInit, Counted
<1> DEFINE q == [i \in 0 .. 1 |-> IF i = 0 THEN hslab ELSE tslab]
<1>4. Linked(c.next, c.prev, Used(c), q, 0)
  BY <1>2, NotFrames DEF Linked
<1>5. Sorted(c.refs, c.fl_ptr, q, 0, 1)
  BY <1>2 DEF Sorted
<1> HIDE DEF q
<1>6. InOrder(c)
  BY <1>4, <1>5, Zenon DEF InOrder
<1>7. QED
  BY <1>1, <1>3, <1>6, Zenon DEF SlabInv, Sound, SlabInit

\* kmem_cache_alloc keeps the invariant.
LEMMA AllocKeeps == SlabInv /\ Alloc => SlabInv'
<1> SUFFICES ASSUME SlabInv, Alloc PROVE SlabInv'
  OBVIOUS
<1>1. dangling = FALSE /\ dangling' = dangling
  BY DEF SlabInv, Alloc, Ready
<1>2. Sound(c) /\ InOrder(c) /\ Counted(c, live)
  BY <1>1 DEF SlabInv
<1>3. PICK e \in GrowIfNone(c) : \E d \in GrowIfFull(e) :
        LET s == d.fl_ptr
        IN IF d.fault \/ Deref(d, {s}).fault \/ s \notin SlabFrames \/ d.freelist[s] = <<>>
           THEN c' = [d EXCEPT !.fault = TRUE] /\ UNCHANGED live
           ELSE c' = TakeBuffer(d) /\ live' = live \cup {<<s, Head(d.freelist[s])>>}
  BY Zenon DEF Alloc
<1>4. Sound(e) /\ InOrder(e) /\ Counted(e, live) /\ e.fl_ptr \in Used(e)
  <2>1. CASE c.fl_ptr \in {NULL, tslab}
    <3>1. e \in kmem_cache_grow(c)
      BY <2>1 DEF GrowIfNone
    <3>2. QED
      BY <1>2, <3>1, GrowKeeps
  <2>2. CASE c.fl_ptr \notin {NULL, tslab}
    <3>1. e = c
      BY <2>2 DEF GrowIfNone
    <3>2. PICK q, m, k : Linked(c.next, c.prev, Used(c), q, m) /\ Sorted(c.refs, c.fl_ptr, q, m, k)
      BY <1>2 DEF InOrder
    <3>3. m \in Nat /\ k \in 1 .. m + 1 /\ c.fl_ptr = q[k] /\ q[m + 1] = tslab
      BY <3>2 DEF Linked, Sorted
    <3>4. k \in 1 .. m
      BY <2>2, <3>3
    <3>5. c.fl_ptr \in Used(c)
      BY <3>2, <3>3, <3>4, Zenon DEF Linked
    <3>6. QED
      BY <1>2, <3>1, <3>5
  <2>3. QED
    BY <2>1, <2>2
<1>5. /\ e.refs[e.fl_ptr] < BufCnt /\ e.freelist[e.fl_ptr] # <<>>
      /\ Sound(TakeBuffer(e)) /\ InOrder(TakeBuffer(e))
      /\ Counted(TakeBuffer(e), live \cup {<<e.fl_ptr, Head(e.freelist[e.fl_ptr])>>})
  BY <1>4, TakeKeeps
<1>6. e.fault = FALSE /\ e.fl_ptr \in SlabFrames /\ Deref(e, {e.fl_ptr}) = e
  <2>1. e.fl_ptr # NULL /\ e.fl_ptr \notin e.free
    BY <1>4, NotFrames DEF Used
  <2>2. QED
    BY <1>4, <2>1 DEF Sound, Deref, Used
<1>7. GrowIfFull(e) = {e}
  <2>1. e.refs[e.fl_ptr] # Count(e.fl_ptr)
    <3>1. Count(e.fl_ptr) = BufCnt
      BY <1>6 DEF Count
    <3>2. BufCnt \in Nat
      BY SlabAssumption DEF SlabAssumption
    <3>3. QED
      BY <1>5, <3>1, <3>2
  <2>2. QED
    BY <1>6, <2>1, Zenon DEF GrowIfFull
<1>8. c' = TakeBuffer(e) /\ live' = live \cup {<<e.fl_ptr, Head(e.freelist[e.fl_ptr])>>}
  BY <1>3, <1>5, <1>6, <1>7, Zenon
<1>9. QED
  BY <1>1, <1>5, <1>8 DEF SlabInv

\* kmem_cache_reap keeps the invariant.
LEMMA ReapKeeps == SlabInv /\ kmem_cache_reap => SlabInv'
<1> SUFFICES ASSUME SlabInv, kmem_cache_reap PROVE SlabInv'
  OBVIOUS
<1>1. dangling = FALSE /\ live' = live /\ c' = [c EXCEPT !.free = @ \cup Reaped]
  BY DEF SlabInv, kmem_cache_reap, Ready
<1>2. c \in Caches /\ c.fault = FALSE /\ Counted(c, live) /\ InOrder(c)
  BY <1>1 DEF SlabInv, Sound
<1>3. \A s \in Reaped : s \in Used(c) /\ c.refs[s] = 0
  BY <1>1, ReapedUnused, Zenon
<1> HIDE DEF Reaped
<1>4. Reaped \subseteq SlabFrames /\ c.free \in SUBSET SlabFrames
  BY <1>2, <1>3, Fields DEF Used
<1>5. /\ c' \in Caches /\ c'.fault = FALSE /\ c'.free = c.free \cup Reaped
      /\ c'.next = c.next /\ c'.prev = c.prev /\ c'.refs = c.refs /\ c'.fl_ptr = c.fl_ptr
      /\ c'.freelist = c.freelist
  BY <1>1, <1>2, <1>4, Zenon DEF Caches
<1>6. Counted(c', live)
  <2>1. ASSUME NEW b \in live PROVE b[1] \notin Reaped
    <3>1. c.refs[b[1]] \in 1 .. BufCnt
      BY <1>2, PutKeeps, Zenon DEF Sound
    <3>2. c.refs[b[1]] # 0
      BY <3>1, SlabAssumption DEF SlabAssumption
    <3>3. QED
      BY <1>3, <3>2
  <2>2. QED
    BY <1>2, <1>5, <2>1 DEF Counted, Used
<1>7. CASE Reaped = {}
  <2>1. Used(c') = Used(c) /\ dangling' = FALSE
    BY <1>1, <1>5, <1>7, Zenon DEF Used, kmem_cache_reap
  <2>2. InOrder(c')
    BY <1>2, <1>5, <2>1 DEF InOrder
  <2>3. QED
    BY <1>1, <1>5, <1>6, <2>1, <2>2, Zenon DEF SlabInv, Sound
<1>8. CASE Reaped # {}
  <2>1. dangling' = TRUE
    BY <1>8, Zenon DEF kmem_cache_reap
  <2>2. QED
    BY <1>1, <1>5, <1>6, <2>1 DEF SlabInv, Sound
<1>9. QED
  BY <1>7, <1>8

\* kmem_cache_free keeps the invariant.
LEMMA FreeKeeps == ASSUME NEW b \in live PROVE SlabInv /\ Free(b) => SlabInv'
<1> SUFFICES ASSUME SlabInv, Free(b) PROVE SlabInv'
  OBVIOUS
<1> DEFINE s == b[1]
           p == Put(c, b)
           K == live \ {b}
<1>0. Returned(b) = p
  BY DEF Returned, Put
<1>1. dangling = FALSE /\ live' = K
  BY DEF SlabInv, Free, Ready
<1>2. Sound(c) /\ Counted(c, live) /\ InOrder(c)
  BY <1>1 DEF SlabInv
<1>3. /\ s \in SlabFrames /\ s \notin c.free /\ c.refs[s] \in 1 .. BufCnt
      /\ p.refs = [c.refs EXCEPT ![s] = c.refs[s] - 1] /\ p.fl_ptr = c.fl_ptr
  <2>1. /\ s \in Used(c) /\ s \in SlabFrames /\ Sound(p) /\ Counted(p, K) /\ c.refs[s] \in 1 .. BufCnt
        /\ p.refs = [c.refs EXCEPT ![s] = c.refs[s] - 1] /\ p.fl_ptr = c.fl_ptr
        /\ p.free = c.free /\ p.next = c.next /\ p.prev = c.prev
    BY <1>2, PutKeeps
  <2>2. s \notin c.free
    BY <2>1 DEF Used
  <2>3. QED
    BY <2>1, <2>2, Zenon
<1>4. p.refs[s] = c.refs[s] - 1 /\ BufCnt \in Nat \ {0}
  <2>1. s \in Slabs /\ c.refs \in [Slabs -> Nat]
    BY <1>2, <1>3, Fields, NotFrames DEF Sound
  <2>2. QED
    BY <1>3, <2>1, SlabAssumption DEF SlabAssumption
<1>5. Deref(c, {s}) = c /\ c.fault = FALSE
  BY <1>2, <1>3, NotFrames DEF Deref, Sound
<1> HIDE DEF p, K, s
<1>6. /\ dangling' = (dangling \/ (p.refs[s] = 0 /\ s = c.fl_ptr))
      /\ c' = IF p.refs[s] = 0 THEN Release(p, s)
              ELSE IF p.refs[s] = BufCnt - 1 THEN Requeue(p, s) ELSE p
  BY <1>0, <1>5, Zenon DEF Free, s
<1>7. CASE p.refs[s] = 0
  <2>1. c.refs[s] = 1
    BY <1>3, <1>4, <1>7
  <2>2. Sound(Release(p, s)) /\ Counted(Release(p, s), K) /\ (c.fl_ptr # s => InOrder(Release(p, s)))
    BY <1>2, <2>1, ReleaseKeeps DEF p, s, K
  <2>3. c' = Release(p, s) /\ dangling' = (s = c.fl_ptr)
    BY <1>1, <1>6, <1>7
  <2>4. QED
    BY <1>1, <2>2, <2>3, Zenon DEF SlabInv
<1>8. CASE p.refs[s] # 0 /\ p.refs[s] = BufCnt - 1
  <2>1. c.refs[s] = BufCnt /\ BufCnt # 1
    BY <1>3, <1>4, <1>8
  <2>2. Sound(Requeue(p, s)) /\ InOrder(Requeue(p, s)) /\ Counted(Requeue(p, s), K)
    BY <1>2, <2>1, RequeueKeeps DEF p, s, K
  <2>3. c' = Requeue(p, s) /\ dangling' = FALSE
    BY <1>1, <1>6, <1>8, Zenon
  <2>4. QED
    BY <1>1, <2>2, <2>3, Zenon DEF SlabInv
<1>9. CASE p.refs[s] # 0 /\ p.refs[s] # BufCnt - 1
  <2>1. c.refs[s] # BufCnt /\ c.refs[s] # 1
    BY <1>3, <1>4, <1>9
  <2>2. Sound(p) /\ InOrder(p) /\ Counted(p, K)
    BY <1>2, <2>1, StayKeeps DEF p, s, K
  <2>3. c' = p /\ dangling' = FALSE
    BY <1>1, <1>6, <1>9, Zenon
  <2>4. QED
    BY <1>1, <2>2, <2>3, Zenon DEF SlabInv
<1>10. QED
  BY <1>7, <1>8, <1>9

\* Every call keeps the invariant.
LEMMA SlabStep == SlabInv /\ [SlabNext]_slab_vars => SlabInv'
<1> SUFFICES ASSUME SlabInv, [SlabNext]_slab_vars PROVE SlabInv'
  OBVIOUS
<1>1. CASE Grow
  <2>1. c' \in kmem_cache_grow(c) /\ dangling = FALSE /\ UNCHANGED <<live, dangling>>
    BY <1>1 DEF Grow, Ready, SlabInv
  <2>2. Sound(c') /\ InOrder(c') /\ Counted(c', live)
    BY <2>1, GrowKeeps DEF SlabInv
  <2>3. QED
    BY <2>1, <2>2 DEF SlabInv
<1>2. CASE Alloc
  BY <1>2, AllocKeeps
<1>3. CASE kmem_cache_reap
  BY <1>3, ReapKeeps
<1>4. ASSUME NEW b \in live, Free(b) PROVE SlabInv'
  BY <1>4, FreeKeeps
<1>5. CASE UNCHANGED slab_vars
  BY <1>5 DEF slab_vars, SlabInv
<1>6. QED
  BY <1>1, <1>2, <1>3, <1>4, <1>5 DEF SlabNext

\* As long as the cache points to no freed slab, no call of kmem_cache_alloc or
\* kmem_cache_free follows a NULL link or reads the header of a free frame, for every
\* number of frames and buffers.
THEOREM NeverFaults == SlabSpec => []NoFault
<1>1. SlabInv => NoFault
  BY DEF SlabInv, Sound, NoFault
<1>2. QED
  BY <1>1, SlabStart, SlabStep, PTL DEF SlabSpec

\* No buffer is handed out twice, and no frame with a buffer in use is given back, by
\* kmem_cache_free or kmem_cache_reap.
THEOREM BuffersAccounted == SlabSpec => []RefsCountLive
<1>1. SlabInv => RefsCountLive
  <2> SUFFICES ASSUME SlabInv PROVE RefsCountLive
    OBVIOUS
  <2>1. Counted(c, live) /\ UsedFrames = Used(c)
    BY DEF SlabInv, UsedFrames, Used
  <2>2. QED
    BY <2>1, Zenon DEF RefsCountLive, Counted, Accounted, Out
<1>2. QED
  BY <1>1, SlabStart, SlabStep, PTL DEF SlabSpec

\* The list stays in the order full, partial, unused, with fl_ptr at the first slab that
\* is not full.
THEOREM OrderKept == SlabSpec => []ListInOrder
BY OrderHolds, SlabStart, SlabStep, PTL DEF SlabSpec

(***************************************************************************)
(* The hash table                                                          *)
(***************************************************************************)
\* A key is in at most one bucket.
KeysOnce == \A a, b \in Buckets : \A k \in Keys : Holds(a, k) /\ Holds(b, k) => a = b

\* A lookup is on the path to its key.
LookupOnPath ==
  op # Idle /\ op.kind \in {"get", "erase"} =>
    \A b \in Buckets : Holds(b, op.key) => op.at \in path[b] \cup {b}

\* An insertion has passed FULL buckets, from the hash of its key to where it is.
SetPassedFull ==
  op # Idle /\ op.kind = "set" =>
    /\ ~InTable(op.key) /\ op.val \in Vals
    /\ hash(op.key) \in op.passed \cup {op.at}
    /\ \A x \in op.passed : State(x) = "FULL" /\ NextBucket(x) \in op.passed \cup {op.at}

HashInv == HashTypeOK /\ KeysOnce /\ Reachable /\ LookupOnPath /\ SetPassedFull

\* A probe stays inside the table, and buckets exist.
LEMMA ProbeInTable ==
  ASSUME HashTypeOK
  PROVE  /\ \A k \in Keys : hash(k) \in Buckets
         /\ \A b \in Buckets : NextBucket(b) \in Buckets
         /\ InitCapacity \in Nat \ {0}
<1>1. InitCapacity \in Nat \ {0}
  BY HashAssumption, SlabSizesAssumption DEF HashAssumption, SlabSizesAssumption, InitCapacity
<1>2. QED
  BY <1>1, HashAssumption DEF HashAssumption, hash, NextBucket, Buckets, HashTypeOK

\* ht_init yields a table that satisfies the invariant.
LEMMA HashStart == ht_init => HashInv
<1> SUFFICES ASSUME ht_init PROVE HashInv
  OBVIOUS
<1>1. HashTypeOK
  BY DEF ht_init, HashTypeOK
<1>2. \A b \in Buckets : State(b) = "EMPTY" /\ \A k \in Keys : ~Holds(b, k)
  BY DEF ht_init, State, Holds
<1>3. op = Idle
  BY DEF ht_init
<1>4. KeysOnce /\ Reachable
  BY <1>2 DEF KeysOnce, Reachable, State
<1>5. QED
  BY <1>1, <1>3, <1>4 DEF HashInv, LookupOnPath, SetPassedFull

\* A step that leaves the buckets alone keeps what the invariant says of them.
LEMMA SameBuckets ==
  ASSUME HashInv, UNCHANGED <<buckets, path, capacity>>
  PROVE  KeysOnce' /\ Reachable' /\ (\A k \in Keys : ValueOf(k)' = ValueOf(k))
BY DEF HashInv, KeysOnce, Reachable, Holds, State, hash, NextBucket, ValueOf, InTable

\* The operations begin at the hash of their key, which is on every path to it.
LEMMA CallInv == HashInv /\ Calling => HashInv'
<1> SUFFICES ASSUME HashInv, Calling PROVE HashInv'
  OBVIOUS
<1>1. PICK kind \in {"get", "erase", "set"}, k \in Keys, v \in Vals \cup {None} :
        BeginOp(kind, k, v) /\ (kind = "set" => v \in Vals /\ ~InTable(k))
  BY DEF Calling, BeginGet, BeginErase, BeginSet
<1>2. capacity' = capacity
  BY HashAssumption DEF Calling, BeginGet, BeginErase, BeginSet, HashInv, HashTypeOK, HashAssumption
<1>3. UNCHANGED <<buckets, path, size>>
  BY <1>1 DEF BeginOp
<1>4. op' = [kind |-> kind, key |-> k, val |-> v, at |-> hash(k), passed |-> {}]
  BY <1>1 DEF BeginOp
<1>5. hash(k) \in Buckets
  BY ProbeInTable DEF HashInv
<1>6. HashTypeOK'
  <2>1. op' \in [kind : {"get", "erase", "set"}, key : Keys, val : Vals \cup {None},
                 at : Buckets, passed : SUBSET Buckets]
    BY <1>4, <1>5
  <2>2. QED
    BY <2>1, <1>2, <1>3 DEF HashInv, HashTypeOK
<1>7. LookupOnPath'
  BY <1>2, <1>3, <1>4, Zenon DEF LookupOnPath, HashInv, Reachable, Holds, State, hash
<1>8. SetPassedFull'
  BY <1>1, <1>2, <1>3, <1>4 DEF SetPassedFull, InTable, Holds, hash
<1>9. QED
  BY <1>2, <1>3, <1>6, <1>7, <1>8, SameBuckets DEF HashInv

\* A probe of a lookup that is not there yet stays on the path to its key.
LEMMA ProbeOnInv == HashInv /\ ProbeOn => HashInv'
<1> SUFFICES ASSUME HashInv, ProbeOn PROVE HashInv'
  OBVIOUS
<1>1. /\ UNCHANGED <<buckets, path, capacity, size>>
      /\ op' = [op EXCEPT !.at = NextBucket(op.at), !.passed = @ \cup {op.at}]
      /\ op # Idle /\ op.kind \in {"get", "erase"}
      /\ ~Holds(op.at, op.key) /\ State(op.at) # "EMPTY"
  BY DEF ProbeOn, Step
<1>2. op \in [kind : {"get", "erase", "set"}, key : Keys, val : Vals \cup {None},
              at : Buckets, passed : SUBSET Buckets]
  BY <1>1 DEF HashInv, HashTypeOK
<1>3. NextBucket(op.at) \in Buckets
  BY <1>2, ProbeInTable DEF HashInv
<1>4. HashTypeOK'
  BY <1>1, <1>2, <1>3, Zenon DEF HashInv, HashTypeOK
<1>5. op'.kind = op.kind /\ op'.key = op.key /\ op'.at = NextBucket(op.at)
  BY <1>1, <1>2
<1>6. LookupOnPath'
  <2> SUFFICES ASSUME NEW b \in Buckets, Holds(b, op.key) PROVE NextBucket(op.at) \in path[b] \cup {b}
    BY <1>1, <1>5 DEF LookupOnPath, Holds
  <2>1. op.at \in path[b]
    BY <1>1 DEF HashInv, LookupOnPath
  <2>2. QED
    BY <2>1 DEF HashInv, Reachable, Holds, State
<1>7. SetPassedFull'
  BY <1>1, <1>5 DEF SetPassedFull
<1>8. QED
  BY <1>1, <1>4, <1>6, <1>7, SameBuckets DEF HashInv

\* An insertion passes a FULL bucket.
LEMMA SetOnInv == HashInv /\ SetOn => HashInv'
<1> SUFFICES ASSUME HashInv, SetOn PROVE HashInv'
  OBVIOUS
<1>1. /\ UNCHANGED <<buckets, path, capacity, size>>
      /\ op' = [op EXCEPT !.at = NextBucket(op.at), !.passed = @ \cup {op.at}]
      /\ op # Idle /\ op.kind = "set" /\ State(op.at) = "FULL"
  BY DEF SetOn, Step
<1>2. op \in [kind : {"get", "erase", "set"}, key : Keys, val : Vals \cup {None},
              at : Buckets, passed : SUBSET Buckets]
  BY <1>1 DEF HashInv, HashTypeOK
<1>3. NextBucket(op.at) \in Buckets
  BY <1>2, ProbeInTable DEF HashInv
<1>4. HashTypeOK'
  BY <1>1, <1>2, <1>3, Zenon DEF HashInv, HashTypeOK
<1>5. /\ op'.kind = op.kind /\ op'.key = op.key /\ op'.at = NextBucket(op.at)
      /\ op'.val = op.val /\ op'.passed = op.passed \cup {op.at}
  BY <1>1, <1>2, Zenon
<1>6. SetPassedFull'
  <2>1. ~InTable(op.key)' /\ op'.val \in Vals
    BY <1>1, <1>5 DEF HashInv, SetPassedFull, InTable, Holds
  <2>2. hash(op.key)' \in op'.passed \cup {op'.at}
    BY <1>1, <1>5 DEF HashInv, SetPassedFull, hash
  <2>3. \A x \in op'.passed : State(x)' = "FULL" /\ NextBucket(x)' \in op'.passed \cup {op'.at}
    BY <1>1, <1>5 DEF HashInv, SetPassedFull, State, NextBucket
  <2>4. QED
    BY <2>1, <2>2, <2>3 DEF SetPassedFull
<1>7. LookupOnPath'
  BY <1>1, <1>5 DEF LookupOnPath
<1>8. QED
  BY <1>1, <1>4, <1>6, <1>7, SameBuckets DEF HashInv

\* When a lookup meets an EMPTY bucket its key is in no bucket.
LEMMA EmptyMeansAbsent ==
  ASSUME HashInv, NotFound
  PROVE  op.key \in Keys /\ ~InTable(op.key)
<1>1. op # Idle /\ op.kind \in {"get", "erase"} /\ State(op.at) = "EMPTY"
  BY DEF NotFound
<1>2. op.key \in Keys
  BY <1>1 DEF HashInv, HashTypeOK
<1>3. ASSUME NEW b \in Buckets, Holds(b, op.key) PROVE FALSE
  <2>1. op.at \in path[b] \cup {b} /\ State(b) = "FULL"
    BY <1>1, <1>3, Zenon DEF HashInv, LookupOnPath, Holds, State
  <2>2. QED
    BY <2>1, <1>1 DEF HashInv, Reachable
<1>4. QED
  BY <1>2, <1>3 DEF InTable

\* Returning without a change of the table.
LEMMA ReturnInv == HashInv /\ (NotFound \/ GetFound) => HashInv'
<1> SUFFICES ASSUME HashInv, NotFound \/ GetFound PROVE HashInv'
  OBVIOUS
<1>1. UNCHANGED <<buckets, path, capacity, size>> /\ op' = Idle
  BY DEF NotFound, GetFound, Return
<1>2. HashTypeOK'
  BY <1>1 DEF HashInv, HashTypeOK
<1>3. QED
  BY <1>1, <1>2, SameBuckets DEF HashInv, LookupOnPath, SetPassedFull

\* An erased bucket is DELETED: no path loses a bucket.
LEMMA EraseInv ==
  ASSUME HashInv, EraseFound
  PROVE  /\ HashInv' /\ op.key \in Keys /\ op.at \in Buckets
         /\ \A b \in Buckets, k \in Keys : Holds(b, k)' <=> Holds(b, k) /\ b # op.at
         /\ \A b \in Buckets : buckets'[b].val = buckets[b].val
<1>1. /\ op # Idle /\ op.kind = "erase" /\ Holds(op.at, op.key)
      /\ buckets' = [buckets EXCEPT ![op.at].state = "DELETED"]
      /\ UNCHANGED <<path, capacity>> /\ op' = Idle /\ size' = size - 1
  BY DEF EraseFound, Return, Erased
<1>2. op.at \in Buckets /\ op.key \in Keys
  BY <1>1 DEF HashInv, HashTypeOK
<1>3. buckets \in [Buckets -> [state : {"EMPTY", "DELETED", "FULL"}, key : Keys \cup {0}, val : Vals \cup {None}]]
  BY DEF HashInv, HashTypeOK
<1>4. /\ \A b \in Buckets : /\ buckets'[b].val = buckets[b].val /\ buckets'[b].key = buckets[b].key
                            /\ buckets'[b].state = IF b = op.at THEN "DELETED" ELSE buckets[b].state
  BY <1>1, <1>2, <1>3
<1>5. HashTypeOK'
  BY <1>1, <1>2, <1>3 DEF HashInv, HashTypeOK
<1>6. \A b \in Buckets, k \in Keys : Holds(b, k)' <=> Holds(b, k) /\ b # op.at
  BY <1>4 DEF Holds
<1>7. KeysOnce'
  BY <1>6 DEF HashInv, KeysOnce
<1>8. Reachable'
  BY <1>1, <1>4 DEF HashInv, HashTypeOK, Reachable, State, hash, NextBucket
<1>9. LookupOnPath' /\ SetPassedFull'
  BY <1>1, Zenon DEF LookupOnPath, SetPassedFull
<1>10. QED
  BY <1>2, <1>4, <1>5, <1>6, <1>7, <1>8, <1>9 DEF HashInv

\* An insertion fills a bucket that holds no key.
LEMMA SetInv ==
  ASSUME HashInv, SetHere
  PROVE  /\ HashInv' /\ op.key \in Keys /\ op.at \in Buckets /\ op.val \in Vals
         /\ ~InTable(op.key) /\ \A k \in Keys : ~Holds(op.at, k)
         /\ \A b \in Buckets, k \in Keys :
              Holds(b, k)' <=> IF b = op.at THEN k = op.key ELSE Holds(b, k)
         /\ \A b \in Buckets : buckets'[b].val = IF b = op.at THEN op.val ELSE buckets[b].val
<1>1. /\ op # Idle /\ op.kind = "set" /\ State(op.at) # "FULL"
      /\ buckets' = [buckets EXCEPT ![op.at] = [state |-> "FULL", key |-> op.key, val |-> op.val]]
      /\ path' = [path EXCEPT ![op.at] = op.passed]
      /\ UNCHANGED capacity /\ op' = Idle /\ size' = size + 1
  BY DEF SetHere, Return
<1>2. /\ op.at \in Buckets /\ op.key \in Keys /\ op.val \in Vals /\ ~InTable(op.key)
      /\ op.passed \in SUBSET Buckets
  BY <1>1 DEF HashInv, HashTypeOK, SetPassedFull
<1>3. /\ buckets \in [Buckets -> [state : {"EMPTY", "DELETED", "FULL"}, key : Keys \cup {0}, val : Vals \cup {None}]]
      /\ path \in [Buckets -> SUBSET Buckets]
  BY DEF HashInv, HashTypeOK
<1>4. \A b \in Buckets : b # op.at => buckets'[b] = buckets[b] /\ path'[b] = path[b]
  BY <1>1, <1>3, Zenon
<1>5. /\ buckets'[op.at].state = "FULL" /\ buckets'[op.at].key = op.key
      /\ buckets'[op.at].val = op.val /\ path'[op.at] = op.passed
  BY <1>1, <1>2, <1>3
<1>6. HashTypeOK'
  <2>1. buckets' \in [Buckets -> [state : {"EMPTY", "DELETED", "FULL"}, key : Keys \cup {0}, val : Vals \cup {None}]]
    BY <1>1, <1>2, <1>3
  <2>2. path' \in [Buckets -> SUBSET Buckets]
    BY <1>1, <1>2, <1>3
  <2>3. QED
    BY <2>1, <2>2, <1>1 DEF HashInv, HashTypeOK
<1>7. /\ \A k \in Keys : ~Holds(op.at, k)
      /\ \A b \in Buckets, k \in Keys :
           Holds(b, k)' <=> IF b = op.at THEN k = op.key ELSE Holds(b, k)
      /\ \A b \in Buckets : buckets'[b].val = IF b = op.at THEN op.val ELSE buckets[b].val
  BY <1>1, <1>2, <1>4, <1>5 DEF Holds, State
<1>8. KeysOnce'
  BY <1>2, <1>7 DEF HashInv, KeysOnce, InTable
<1>9. Reachable'
  <2> SUFFICES ASSUME NEW b \in Buckets, State(b)' = "FULL"
               PROVE  /\ hash(buckets[b].key)' \in path'[b] \cup {b}
                      /\ \A x \in path'[b] : State(x)' # "EMPTY" /\ NextBucket(x)' \in path'[b] \cup {b}
    BY DEF Reachable
  <2>1. \A x \in Buckets : State(x) # "EMPTY" => State(x)' # "EMPTY"
    BY <1>4, <1>5, Zenon DEF State
  <2>2. CASE b = op.at
    <3>1. \A x \in op.passed : State(x) = "FULL" /\ NextBucket(x) \in op.passed \cup {b}
      BY <1>1, <2>2 DEF HashInv, SetPassedFull
    <3>2. hash(op.key) \in op.passed \cup {b}
      BY <1>1, <2>2, Zenon DEF HashInv, SetPassedFull
    <3>3. QED
      BY <1>1, <1>2, <1>5, <2>1, <2>2, <3>1, <3>2, SMTT(30) DEF hash, NextBucket
  <2>3. CASE b # op.at
    <3>1. State(b) = "FULL" /\ buckets'[b].key = buckets[b].key /\ path'[b] = path[b]
      BY <1>4, <2>3 DEF State
    <3>2. path[b] \subseteq Buckets
      BY <1>3, Zenon
    <3>3. QED
      BY <1>1, <2>1, <3>1, <3>2 DEF HashInv, Reachable, hash, NextBucket
  <2>4. QED
    BY <2>2, <2>3, Zenon
<1>10. LookupOnPath' /\ SetPassedFull'
  BY <1>1 DEF LookupOnPath, SetPassedFull
<1>11. QED
  BY <1>2, <1>5, <1>6, <1>7, <1>8, <1>9, <1>10 DEF HashInv

\* The invariant is inductive.
LEMMA HashStep == HashInv /\ [HashNext]_ht_vars => HashInv'
<1> SUFFICES ASSUME HashInv, [HashNext]_ht_vars PROVE HashInv'
  OBVIOUS
<1>1. CASE UNCHANGED ht_vars
  <2>1. op' = op /\ UNCHANGED <<buckets, path, capacity, size>>
    BY <1>1 DEF ht_vars
  <2>2. HashTypeOK' /\ LookupOnPath' /\ SetPassedFull'
    BY <2>1, Zenon DEF HashInv, HashTypeOK, LookupOnPath, SetPassedFull, InTable, Holds, State, hash, NextBucket
  <2>3. QED
    BY <2>1, <2>2, SameBuckets DEF HashInv
<1>2. CASE Calling
  BY <1>2, CallInv
<1>3. CASE Probe
  BY <1>3, ProbeOnInv, SetOnInv, ReturnInv, EraseInv, SetInv DEF Probe
<1>4. QED
  BY <1>1, <1>2, <1>3 DEF HashNext

\* The value of a key is the one in any bucket that holds it.
LEMMA ValueIs ==
  ASSUME KeysOnce, NEW k \in Keys, NEW b \in Buckets, Holds(b, k)
  PROVE  ValueOf(k) = buckets[b].val
BY DEF KeysOnce, ValueOf, InTable

\* The same, in the next state.
LEMMA ValueWillBe ==
  ASSUME KeysOnce', NEW k \in Keys, NEW b \in Buckets, Holds(b, k)'
  PROVE  ValueOf(k)' = buckets'[b].val
BY DEF KeysOnce, ValueOf, InTable

\* The types of the table hold in every reachable state.
THEOREM TypeCorrect == HashSpec => []HashTypeOK
<1>1. HashInv => HashTypeOK
  BY DEF HashInv
<1>2. QED
  BY HashStart, HashStep, <1>1, PTL DEF HashSpec

\* Every stored key stays reachable by the probes of ht_get and ht_erase, whatever
\* sequence of ht_set and ht_erase filled the table.
THEOREM KeysReachable == HashSpec => []Reachable
<1>1. HashInv => Reachable
  BY DEF HashInv
<1>2. QED
  BY HashStart, HashStep, <1>1, PTL DEF HashSpec

\* Every call of ht_get, ht_set and ht_erase that returns acts as on a map.
THEOREM Refinement == HashSpec => ImplementsMap
<1> DEFINE map == [k \in Keys |-> ValueOf(k)]
<1>1. ht_init => M!Init
  <2> SUFFICES ASSUME ht_init PROVE M!Init
    OBVIOUS
  <2>1. \A k \in Keys : ValueOf(k) = None
    BY DEF ht_init, ValueOf, InTable, Holds
  <2>2. last = M!Result("get", None, None)
    BY DEF ht_init, M!Result
  <2>3. QED
    BY <2>1, <2>2 DEF M!Init
<1>2. HashInv /\ HashInv' /\ [HashNext]_ht_vars => [M!Next]_<<map, last>>
  <2> SUFFICES ASSUME HashInv, HashInv', [HashNext]_ht_vars PROVE [M!Next]_<<map, last>>
    OBVIOUS
  <2>1. ASSUME UNCHANGED <<buckets, path, capacity, last>> PROVE UNCHANGED <<map, last>>
    <3>1. \A k \in Keys : ValueOf(k)' = ValueOf(k)
      BY <2>1, SameBuckets
    <3>2. QED
      BY <2>1, <3>1
  <2>2. CASE UNCHANGED ht_vars
    BY <2>1, <2>2 DEF ht_vars
  <2>3. CASE Calling
    <3>1. capacity' = capacity /\ UNCHANGED <<buckets, path, last>>
      BY <2>3, HashAssumption DEF Calling, BeginGet, BeginErase, BeginSet, BeginOp, HashInv, HashTypeOK, HashAssumption
    <3>2. QED
      BY <2>1, <3>1, Zenon
  <2>4. CASE ProbeOn \/ SetOn
    BY <2>1, <2>4 DEF ProbeOn, SetOn, Step
  <2>5. CASE NotFound
    <3>1. UNCHANGED <<buckets, path, capacity>> /\ op.kind \in {"get", "erase"}
          /\ last' = M!Result(op.kind, op.key, None)
      BY <2>5 DEF NotFound, Return, M!Result
    <3>2. op.key \in Keys /\ ValueOf(op.key) = None
      BY <2>5, EmptyMeansAbsent DEF ValueOf
    <3>3. map' = map
      <4>1. \A k \in Keys : ValueOf(k)' = ValueOf(k)
        BY <3>1, SameBuckets
      <4>2. QED
        BY <4>1
    <3>4. map[op.key] = None /\ map = [map EXCEPT ![op.key] = None]
      BY <3>2
    <3>5. M!Get(op.key) \/ M!Erase(op.key)
      BY <3>1, <3>3, <3>4 DEF M!Get, M!Erase
    <3>6. QED
      BY <3>2, <3>5 DEF M!Next
  <2>6. CASE GetFound
    <3>1. /\ UNCHANGED <<buckets, path, capacity>> /\ op.kind = "get" /\ op # Idle
          /\ last' = M!Result("get", op.key, buckets[op.at].val) /\ Holds(op.at, op.key)
      BY <2>6 DEF GetFound, Return, M!Result
    <3>2. op.key \in Keys /\ op.at \in Buckets
      BY <3>1, Zenon DEF HashInv, HashTypeOK
    <3>3. ValueOf(op.key) = buckets[op.at].val
      BY <3>1, <3>2, ValueIs, Zenon DEF HashInv
    <3>4. map' = map
      <4>1. \A k \in Keys : ValueOf(k)' = ValueOf(k)
        BY <3>1, SameBuckets, Zenon
      <4>2. QED
        BY <4>1
    <3>5. M!Get(op.key)
      BY <3>1, <3>2, <3>3, <3>4, Zenon DEF M!Get
    <3>6. QED
      BY <3>2, <3>5, Zenon DEF M!Next
  <2>7. CASE EraseFound
    <3>1. /\ op.key \in Keys /\ op.at \in Buckets
          /\ \A b \in Buckets, k \in Keys : Holds(b, k)' <=> Holds(b, k) /\ b # op.at
          /\ \A b \in Buckets : buckets'[b].val = buckets[b].val
      BY <2>7, EraseInv
    <3>2. Holds(op.at, op.key) /\ last' = M!Result("erase", op.key, buckets[op.at].val)
      BY <2>7, Zenon DEF EraseFound, Return, M!Result
    <3>3. ValueOf(op.key) = buckets[op.at].val
      BY <3>1, <3>2, ValueIs DEF HashInv
    <3>4. ASSUME NEW k \in Keys PROVE ValueOf(k)' = IF k = op.key THEN None ELSE ValueOf(k)
      <4>1. CASE k = op.key
        <5>1. ~InTable(k)'
          BY <3>1, <3>2, <4>1 DEF HashInv, KeysOnce, InTable
        <5>2. QED
          BY <4>1, <5>1, Zenon DEF ValueOf
      <4>2. CASE k # op.key
        <5>1. \A b \in Buckets : Holds(b, k)' <=> Holds(b, k)
          BY <3>1, <3>2, <4>2 DEF Holds
        <5>2. CASE \E b \in Buckets : Holds(b, k)
          BY <3>1, <4>2, <5>1, <5>2, ValueIs, ValueWillBe DEF HashInv
        <5>3. CASE ~\E b \in Buckets : Holds(b, k)
          BY <4>2, <5>1, <5>3 DEF ValueOf, InTable
        <5>4. QED
          BY <5>2, <5>3, Zenon
      <4>3. QED
        BY <4>1, <4>2, Zenon
    <3>5. map' = [map EXCEPT ![op.key] = None]
      BY <3>1, <3>4, Zenon
    <3>6. M!Erase(op.key)
      BY <3>1, <3>2, <3>3, <3>5 DEF M!Erase
    <3>7. QED
      BY <3>1, <3>6, Zenon DEF M!Next
  <2>8. CASE SetHere
    <3>1. /\ op.key \in Keys /\ op.at \in Buckets /\ op.val \in Vals
          /\ ~InTable(op.key) /\ \A k \in Keys : ~Holds(op.at, k)
          /\ \A b \in Buckets, k \in Keys :
               Holds(b, k)' <=> IF b = op.at THEN k = op.key ELSE Holds(b, k)
          /\ \A b \in Buckets : buckets'[b].val = IF b = op.at THEN op.val ELSE buckets[b].val
      BY <2>8, SetInv, Zenon
    <3>2. last' = M!Result("set", op.key, op.val)
      BY <2>8 DEF SetHere, Return, M!Result
    <3>3. ValueOf(op.key) = None
      BY <3>1 DEF ValueOf
    <3>4. ASSUME NEW k \in Keys PROVE ValueOf(k)' = IF k = op.key THEN op.val ELSE ValueOf(k)
      <4>1. CASE k = op.key
        <5>1. PICK b \in Buckets : b = op.at
          BY <3>1
        <5>2. Holds(b, k)' /\ buckets'[b].val = op.val
          BY <3>1, <4>1, <5>1
        <5>3. QED
          BY <4>1, <5>2, ValueWillBe, Zenon DEF HashInv
      <4>2. CASE k # op.key
        <5>1. \A b \in Buckets : Holds(b, k)' <=> Holds(b, k)
          BY <3>1, <4>2, Zenon
        <5>2. CASE \E b \in Buckets : Holds(b, k)
          <6>1. PICK b \in Buckets : Holds(b, k)
            BY <5>2, Zenon
          <6>2. b # op.at
            BY <3>1, <6>1
          <6>3. ValueOf(k) = buckets[b].val
            BY <6>1, ValueIs DEF HashInv
          <6>4. ValueOf(k)' = buckets'[b].val
            BY <6>1, <5>1, ValueWillBe, Zenon DEF HashInv
          <6>5. QED
            BY <3>1, <4>2, <6>2, <6>3, <6>4
        <5>3. CASE ~\E b \in Buckets : Holds(b, k)
          BY <4>2, <5>1, <5>3 DEF ValueOf, InTable
        <5>4. QED
          BY <5>2, <5>3, Zenon
      <4>3. QED
        BY <4>1, <4>2
    <3>5. map' = [map EXCEPT ![op.key] = op.val]
      BY <3>1, <3>4, ZenonT(30)
    <3>6. M!Set(op.key, op.val)
      BY <3>1, <3>2, <3>3, <3>5 DEF M!Set
    <3>7. QED
      BY <3>1, <3>6 DEF M!Next
  <2>9. QED
    BY <2>2, <2>3, <2>4, <2>5, <2>6, <2>7, <2>8 DEF HashNext, Probe
<1>3. QED
  BY <1>1, <1>2, HashStart, HashStep, PTL DEF HashSpec, ImplementsMap, M!Spec
-----------------------------------------------------------------------------
(***************************************************************************)
(* The layout of a slab                                                    *)
(***************************************************************************)
\* Division of numbers, with remainder.
LEMMA Quotient ==
  ASSUME NEW a \in Nat, NEW b \in Nat \ {0}
  PROVE  /\ a \div b \in Nat /\ (a \div b) * b <= a /\ a < (a \div b + 1) * b
<1>1. a = b * (a \div b) + (a % b) /\ a % b \in 0 .. b - 1 /\ a \div b \in Int
  OBVIOUS
<1> DEFINE u == a \div b
<1>2. u \in Int /\ a = b * u + (a % b) /\ a % b \in 0 .. b - 1
  BY <1>1
<1> HIDE DEF u
<1>3. u >= 0
  <2>1. CASE u <= -1
    <3>1. b * u <= b * (-1)
      BY <1>2, <2>1
    <3>2. QED
      BY <1>2, <3>1
  <2>2. QED
    BY <1>2, <2>1
<1>4. b * u = u * b /\ (u + 1) * b = u * b + b
  BY <1>2
<1>5. u \in Nat /\ u * b <= a /\ a < (u + 1) * b
  BY <1>2, <1>3, <1>4
<1>6. QED
  BY <1>5 DEF u

\* Multiples of a number that differ are ordered as their factors.
LEMMA Multiples ==
  ASSUME NEW a \in Int, NEW b \in Int, NEW e \in Nat \ {0}
  PROVE  /\ a <= b => a * e <= b * e
         /\ a * e < b * e => a < b
         /\ a * e <= b * e => a <= b
<1>1. ASSUME NEW x \in Int, NEW y \in Int, x <= y PROVE x * e <= y * e
  BY <1>1
<1>2. (b + 1) * e = b * e + e /\ (a + 1) * e = a * e + e
  OBVIOUS
<1>3. b <= a \/ a + 1 <= b
  OBVIOUS
<1>4. b + 1 <= a \/ a <= b
  OBVIOUS
<1>5. b <= a => b * e <= a * e
  BY <1>1
<1>6. b + 1 <= a => (b + 1) * e <= a * e
  BY <1>1
<1> QED
  BY <1>1, <1>2, <1>3, <1>4, <1>5, <1>6

\* Pages rounds up.
LEMMA PagesRoundUp ==
  ASSUME NEW x \in Nat
  PROVE  /\ Pages(x) \in Nat /\ x <= Pages(x) * PAGE_SIZE /\ Pages(x) * PAGE_SIZE < x + PAGE_SIZE
         /\ PAGE_SIZE \in Nat \ {0}
<1>1. PAGE_SIZE \in Nat \ {0}
  BY SlabSizesAssumption DEF SlabSizesAssumption
<1> DEFINE y == x + PAGE_SIZE - 1
           u == y \div PAGE_SIZE
<1>2. y \in Nat /\ y = x + PAGE_SIZE - 1
  BY <1>1
<1> HIDE DEF y
<1>3. u \in Nat /\ u * PAGE_SIZE <= y /\ y < (u + 1) * PAGE_SIZE
  BY <1>1, <1>2, Quotient, Zenon
<1>4. Pages(x) = u
  BY DEF Pages, y
<1> HIDE DEF u
<1>5. (u + 1) * PAGE_SIZE = u * PAGE_SIZE + PAGE_SIZE
  BY <1>1, <1>3
<1>6. u * PAGE_SIZE \in Nat
  BY <1>1, <1>3
<1>7. QED
  BY <1>1, <1>2, <1>3, <1>4, <1>5, <1>6

\* A small slab, for every object size.
LEMMA SmallFits == ASSUME NEW sz \in Nat \ {0} PROVE SmallBuffersFit(sz)
<1> SUFFICES ASSUME Small(sz)
             PROVE  /\ slab_addr = PAGE_SIZE - SIZEOF_SLAB
                    /\ buf_cnt(sz) * eff_size(sz) <= slab_addr
                    /\ LinksWritten(sz) >= buf_cnt(sz) - 1
                    /\ Terminator(sz) >= 0 /\ Terminator(sz) + PTR <= slab_addr
                    /\ \A k \in 0 .. buf_cnt(sz) - 1 :
                         \/ Terminator(sz) >= k * eff_size(sz) + sz + PTR
                         \/ Terminator(sz) + PTR <= k * eff_size(sz)
  BY Zenon DEF SmallBuffersFit
<1> DEFINE e == eff_size(sz)
           d == slab_addr
           n == LinksWritten(sz)
           b == buf_cnt(sz)
<1>1. /\ d = PAGE_SIZE - SIZEOF_SLAB /\ d \in Nat \ {0} /\ d < PAGE_SIZE
      /\ e = sz + SIZEOF_BUFCTL /\ e \in Nat \ {0} /\ SIZEOF_BUFCTL >= 16 /\ SIZEOF_BUFCTL \in Nat
      /\ PAGE_SIZE > 2 * (SIZEOF_SLAB + SIZEOF_BUFCTL) /\ PAGE_SIZE \in Nat /\ SIZEOF_SLAB \in Nat
  BY SlabSizesAssumption DEF SlabSizesAssumption, slab_addr, eff_size, PTR
<1>2. 2 * sz <= PAGE_SIZE
  <2>1. BUFS_PER_SLAB \in Int /\ 2 <= BUFS_PER_SLAB
    BY SlabSizesAssumption DEF SlabSizesAssumption
  <2>2. 2 * sz <= BUFS_PER_SLAB * sz
    BY <2>1, Multiples
  <2>3. BUFS_PER_SLAB * sz = sz * BUFS_PER_SLAB
    BY <2>1
  <2>4. QED
    BY <1>1, <2>1, <2>2, <2>3 DEF Small
<1>3. e < d
  BY <1>1, <1>2
<1>4. n = CHOOSE m \in 0 .. PAGE_SIZE : (m + 1) * e >= d /\ (m = 0 \/ m * e < d)
  BY DEF LinksWritten
<1>5. b \in Nat /\ b * e <= d
  <2>1. b = d \div e
    BY <1>1 DEF buf_cnt
  <2> HIDE DEF b, d, e
  <2>2. QED
    BY <1>1, <2>1, Quotient, ZenonT(30)
<1>t. Terminator(sz) = n * e - 8
  BY DEF Terminator, PTR
<1> HIDE DEF n, d, e, b
<1>6. \E m \in 0 .. PAGE_SIZE : (m + 1) * e >= d /\ (m = 0 \/ m * e < d)
  <2> DEFINE x == d - 1
             m == x \div e
  <2>1. x \in Nat /\ x = d - 1
    BY <1>1
  <2> HIDE DEF x
  <2>2. m \in Nat /\ m * e <= x /\ x < (m + 1) * e
    BY <1>1, <2>1, Quotient, Zenon
  <2> HIDE DEF m
  <2>3. m * 1 <= m * e
    BY <1>1, <2>2
  <2>4. m * e \in Nat /\ (m + 1) * e \in Nat
    BY <1>1, <2>2
  <2>5. m \in 0 .. PAGE_SIZE
    BY <1>1, <2>1, <2>2, <2>3, <2>4
  <2>6. (m + 1) * e >= d /\ m * e < d
    BY <1>1, <2>1, <2>2, <2>4
  <2>7. QED
    BY <2>5, <2>6
<1>7. n \in 0 .. PAGE_SIZE /\ (n + 1) * e >= d /\ (n = 0 \/ n * e < d)
  BY <1>4, <1>6, Zenon
<1>8. n \in Nat /\ n * e \in Nat /\ (n + 1) * e = n * e + e
  BY <1>1, <1>7
<1>9. n # 0
  BY <1>1, <1>3, <1>7, <1>8
<1>10. 1 * e <= n * e
  BY <1>1, <1>8, <1>9
<1>11. n * e < d
  BY <1>7, <1>9
<1>12. b <= n + 1
  <2>1. b * e <= (n + 1) * e
    BY <1>1, <1>5, <1>7, <1>8
  <2>2. QED
    BY <1>1, <1>5, <1>8, <2>1, Multiples
<1>13. ASSUME NEW k \in 0 .. b - 1
       PROVE  n * e - 8 >= k * e + sz + 8 \/ (n * e - 8) + 8 <= k * e
  <2>1. k \in Nat /\ k * e \in Nat
    BY <1>1, <1>5
  <2>2. CASE k + 1 <= n
    <3>1. (k + 1) * e <= n * e
      BY <1>1, <1>8, <2>1, <2>2, Multiples
    <3>2. (k + 1) * e = k * e + e
      BY <1>1, <2>1
    <3>3. QED
      BY <1>1, <1>8, <2>1, <3>1, <3>2
  <2>3. CASE n <= k
    <3>1. n * e <= k * e
      BY <1>1, <1>8, <2>1, <2>3, Multiples
    <3>2. QED
      BY <1>8, <2>1, <3>1
  <2>4. QED
    BY <1>8, <2>1, <2>2, <2>3
<1>14. n * e - 8 >= 0 /\ (n * e - 8) + 8 <= d /\ n >= b - 1
  BY <1>1, <1>5, <1>8, <1>10, <1>11, <1>12
<1>15. QED
  BY <1>1, <1>5, <1>t, <1>13, <1>14 DEF n, e, d, b, PTR

\* A large slab, for every object size.
LEMMA LargeFits == ASSUME NEW sz \in Nat \ {0} PROVE LargeBuffersFit(sz) /\ BufferPagesFreed(sz)
<1>1. PAGE_SIZE \in Nat \ {0} /\ SIZEOF_SLAB \in Nat /\ SIZEOF_BUFCTL \in Nat /\ BUFS_PER_SLAB \in Nat
  BY SlabSizesAssumption DEF SlabSizesAssumption
<1> DEFINE w == sz * BUFS_PER_SLAB
           f == frames(sz)
           m == f * PAGE_SIZE
           b == buffers(sz)
<1>2. w \in Nat
  BY <1>1
<1>3. f = Pages(w) /\ b = m \div sz
  BY DEF frames, buffers
<1> HIDE DEF f, b, w
<1>4. f \in Nat /\ w <= f * PAGE_SIZE /\ f * PAGE_SIZE < w + PAGE_SIZE
  BY <1>2, <1>3, PagesRoundUp
<1>5. m \in Nat
  BY <1>1, <1>4
<1> HIDE DEF m
<1>6. b \in Nat /\ b * sz <= m /\ m < (b + 1) * sz
  BY <1>3, <1>5, Quotient
<1>7. BUFS_PER_SLAB <= b
  <2>1. BUFS_PER_SLAB * sz = w
    BY <1>1 DEF w
  <2>2. BUFS_PER_SLAB * sz < (b + 1) * sz
    BY <1>1, <1>2, <1>4, <1>5, <1>6, <2>1 DEF m
  <2>3. BUFS_PER_SLAB < b + 1
    BY <1>1, <1>6, <2>2, Multiples
  <2>4. QED
    BY <1>1, <1>6, <2>3
<1>8. SIZEOF_SLAB + b * SIZEOF_BUFCTL <= Pages(SIZEOF_SLAB + b * SIZEOF_BUFCTL) * PAGE_SIZE
  <2>1. SIZEOF_SLAB + b * SIZEOF_BUFCTL \in Nat
    BY <1>1, <1>6
  <2>2. QED
    BY <2>1, PagesRoundUp, Zenon
<1>9. Pages(b * sz) = f
  <2> DEFINE x == b * sz
             g == Pages(x)
  <2>1. x \in Nat /\ w <= x /\ x <= m
    <3>1. x \in Nat
      BY <1>6
    <3>2. BUFS_PER_SLAB * sz <= b * sz
      BY <1>1, <1>6, <1>7, Multiples
    <3>3. QED
      BY <1>1, <1>6, <3>1, <3>2 DEF w
  <2> HIDE DEF x
  <2>2. g \in Nat /\ x <= g * PAGE_SIZE /\ g * PAGE_SIZE < x + PAGE_SIZE
    BY <2>1, PagesRoundUp, Zenon
  <2> HIDE DEF g
  <2>3. g * PAGE_SIZE \in Nat /\ (g + 1) * PAGE_SIZE = g * PAGE_SIZE + PAGE_SIZE
    BY <1>1, <2>2
  <2>4. (f + 1) * PAGE_SIZE = f * PAGE_SIZE + PAGE_SIZE /\ f * PAGE_SIZE \in Nat
    BY <1>1, <1>4
  <2>5. g * PAGE_SIZE < (f + 1) * PAGE_SIZE
    BY <1>1, <2>1, <2>2, <2>3, <2>4 DEF m
  <2>6. f * PAGE_SIZE < (g + 1) * PAGE_SIZE
    BY <1>1, <1>2, <1>4, <2>1, <2>2, <2>3, <2>4
  <2>7. g < f + 1 /\ f < g + 1
    BY <1>1, <1>4, <2>2, <2>5, <2>6, Multiples
  <2>8. g = f
    BY <1>4, <2>2, <2>7
  <2>9. QED
    BY <2>8 DEF g, x
<1>10. QED
  BY <1>1, <1>6, <1>7, <1>8, <1>9
     DEF LargeBuffersFit, BufferPagesFreed, slab_frames, freed_buf_frames, b, f, m

\* For every page size, size of the headers and object size kmem_cache_grow lays buffers,
\* links and headers out without an overlap, and _free_large_slab frees what it took.
THEOREM LayoutFits == GeometrySpec => []BuffersFit
<1> DEFINE I == object_size \in Nat \ {0}
<1>1. GeometryInit => I
  BY ObjectSizesAssumption DEF GeometryInit, ObjectSizesAssumption
<1>2. I /\ [GeometryNext]_object_size => I'
  BY DEF GeometryNext
<1>3. I => BuffersFit
  BY SmallFits, LargeFits, Zenon DEF BuffersFit
<1>4. QED
  BY <1>1, <1>2, <1>3, PTL DEF GeometrySpec
=============================================================================
