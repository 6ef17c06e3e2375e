------------------------------ MODULE SlabCache ------------------------------
(***************************************************************************)
(* What the steps of kmem_cache_grow, kmem_cache_alloc and kmem_cache_free *)
(* keep, for every number of frames and of buffers in a slab.              *)
(*                                                                         *)
(* A cache is in order (InOrder) when some sequence q of slabs, hslab at   *)
(* position 0 and tslab at m + 1, is what next and prev link (Linked), the *)
(* frames of q are the used ones, and fl_ptr is the position of q where    *)
(* the full slabs end and before which no slab has room (Sorted).          *)
(* _insert_slab and _rm_slab insert and remove a position of q. Counted    *)
(* says of every used slab that refs is the number of its live buffers and *)
(* that its freelist holds each of the others once.                        *)
(***************************************************************************)
EXTENDS Slab, FiniteSetTheorems, TLAPS

(***************************************************************************)
(* Lists of slabs                                                          *)
(***************************************************************************)
\* The links next and prev run through the frames in U in the order of q, from hslab at
\* position 0 to tslab at position m + 1.
Linked(next, prev, U, q, m) ==
  /\ m \in Nat /\ q \in [0 .. m + 1 -> Slabs] /\ q[0] = hslab /\ q[m + 1] = tslab
  /\ \A i \in 1 .. m : q[i] \in U
  /\ \A s \in U : s \in SlabFrames /\ \E i \in 1 .. m : q[i] = s
  /\ \A i, j \in 0 .. m + 1 : q[i] = q[j] => i = j
  /\ \A i \in 0 .. m : next[q[i]] = q[i + 1] /\ prev[q[i + 1]] = q[i]

Inserted(q, m, k, s) == [i \in 0 .. m + 2 |-> IF i < k THEN q[i] ELSE IF i = k THEN s ELSE q[i - 1]]
Removed(q, m, k) == [i \in 0 .. m |-> IF i < k THEN q[i] ELSE q[i + 1]]

Links == [Slabs -> Slabs \cup {NULL}]

\* The links of a slab that is in no list do not matter.
LEMMA LinksOutside ==
  ASSUME NEW next \in Links, NEW prev \in Links, NEW U, NEW q, NEW m, Linked(next, prev, U, q, m),
         NEW s \in SlabFrames, s \notin U, NEW x, NEW y
  PROVE  Linked([next EXCEPT ![s] = x], [prev EXCEPT ![s] = y], U, q, m)
<1>1. \A i \in 0 .. m + 1 : q[i] # s
  <2>1. hslab # s /\ tslab # s
    BY SlabAssumption DEF SlabAssumption, SlabFrames, hslab, tslab
  <2>2. QED
    BY <2>1 DEF Linked
<1>2. \A i \in 0 .. m : i \in 0 .. m + 1 /\ i + 1 \in 0 .. m + 1
  BY DEF Linked
<1>3. QED
  BY <1>1, <1>2 DEF Linked, Links

\* _insert_slab puts a slab that is in no list before the one at position k.
LEMMA InsertLinks ==
  ASSUME NEW next \in Links, NEW prev \in Links, NEW U, NEW q, NEW m, Linked(next, prev, U, q, m),
         NEW k \in 1 .. m + 1, NEW s \in SlabFrames, s \notin U
  PROVE  /\ prev[q[k]] = q[k - 1]
         /\ Linked([next EXCEPT ![q[k - 1]] = s, ![s] = q[k]],
                   [prev EXCEPT ![s] = q[k - 1], ![q[k]] = s], U \cup {s}, Inserted(q, m, k, s), m + 1)
<1> DEFINE r == Inserted(q, m, k, s)
           nx == [next EXCEPT ![q[k - 1]] = s, ![s] = q[k]]
           pv == [prev EXCEPT ![s] = q[k - 1], ![q[k]] = s]
<1>0. m \in Nat /\ s \in Slabs /\ s # hslab /\ s # tslab
  BY SlabAssumption DEF SlabAssumption, SlabFrames, hslab, tslab, Linked, Slabs
<1>1. \A i \in 0 .. m + 1 : q[i] # s /\ q[i] \in Slabs
  BY <1>0 DEF Linked
<1>2. r \in [0 .. m + 2 -> Slabs]
  BY <1>0, <1>1 DEF Inserted
<1>3. r[0] = hslab /\ r[m + 2] = tslab
  BY <1>0 DEF Inserted, Linked
<1>4. \A i \in 1 .. m + 1 : r[i] \in U \cup {s}
  BY <1>0 DEF Inserted, Linked
<1>5. ASSUME NEW t \in U \cup {s} PROVE t \in SlabFrames /\ \E i \in 1 .. m + 1 : r[i] = t
  <2>1. CASE t = s
    <3>1. k \in 1 .. m + 1 /\ r[k] = s
      BY <1>0 DEF Inserted
    <3>2. QED
      BY <2>1, <3>1
  <2>2. CASE t \in U
    <3>1. PICK i \in 1 .. m : q[i] = t
      BY <2>2 DEF Linked
    <3>2. CASE i < k
      <4>1. i \in 1 .. m + 1 /\ r[i] = t
        BY <1>0, <3>1, <3>2 DEF Inserted
      <4>2. QED
        BY <2>2, <4>1 DEF Linked
    <3>3. CASE i >= k
      <4>1. i + 1 \in 1 .. m + 1 /\ r[i + 1] = t
        BY <1>0, <3>1, <3>3 DEF Inserted
      <4>2. QED
        BY <2>2, <4>1 DEF Linked
    <3>4. QED
      BY <1>0, <3>2, <3>3
  <2>3. QED
    BY <2>1, <2>2
<1>6. ASSUME NEW i \in 0 .. m + 2, NEW j \in 0 .. m + 2, r[i] = r[j] PROVE i = j
  <2>1. /\ i < k => i \in 0 .. m + 1 /\ r[i] = q[i]
        /\ j < k => j \in 0 .. m + 1 /\ r[j] = q[j]
    BY <1>0 DEF Inserted
  <2>2. /\ i = k => r[i] = s
        /\ j = k => r[j] = s
    BY <1>0 DEF Inserted
  <2>3. /\ i > k => i - 1 \in 0 .. m + 1 /\ r[i] = q[i - 1]
        /\ j > k => j - 1 \in 0 .. m + 1 /\ r[j] = q[j - 1]
    BY <1>0 DEF Inserted
  <2>4. \A a, b \in 0 .. m + 1 : q[a] = q[b] => a = b
    BY DEF Linked
  <2> HIDE DEF r
  <2>5. CASE i = k \/ j = k
    BY <1>0, <1>1, <1>6, <2>1, <2>2, <2>3, <2>5
  <2>6. CASE i # k /\ j # k
    BY <1>0, <1>6, <2>1, <2>3, <2>4, <2>6
  <2>7. QED
    BY <2>5, <2>6
<1>7. k - 1 \in 0 .. m /\ k \in 0 .. m + 1 /\ k - 1 \in 0 .. m + 1 /\ q[k - 1] # q[k]
  BY <1>0 DEF Linked
<1>8. ASSUME NEW i \in 0 .. m + 1 PROVE nx[r[i]] = r[i + 1] /\ pv[r[i + 1]] = r[i]
  <2>1. CASE i < k - 1
    <3>1. i \in 0 .. m /\ i \in 0 .. m + 1 /\ i + 1 \in 0 .. m + 1 /\ r[i] = q[i] /\ r[i + 1] = q[i + 1]
      BY <1>0, <2>1 DEF Inserted
    <3>2. q[i] # q[k - 1] /\ q[i + 1] # q[k] /\ next[q[i]] = q[i + 1] /\ prev[q[i + 1]] = q[i]
      BY <1>0, <1>7, <2>1, <3>1 DEF Linked
    <3>3. QED
      BY <1>1, <3>1, <3>2 DEF Links
  <2>2. CASE i = k - 1
    <3>1. r[i] = q[k - 1] /\ r[i + 1] = s
      BY <1>0, <2>2 DEF Inserted
    <3>2. QED
      BY <1>0, <1>1, <1>7, <3>1 DEF Links
  <2>3. CASE i = k
    <3>1. r[i] = s /\ r[i + 1] = q[k]
      BY <1>0, <2>3 DEF Inserted
    <3>2. QED
      BY <1>0, <1>1, <1>7, <3>1 DEF Links
  <2>4. CASE i > k
    <3>1. i - 1 \in 0 .. m /\ i - 1 \in 0 .. m + 1 /\ i \in 0 .. m + 1 /\ r[i] = q[i - 1] /\ r[i + 1] = q[i]
      BY <1>0, <2>4 DEF Inserted
    <3>2. q[i - 1] # q[k - 1] /\ q[i] # q[k]
      BY <1>0, <1>7, <2>4, <3>1 DEF Linked
    <3>3. next[q[i - 1]] = q[i] /\ prev[q[i]] = q[i - 1]
      <4>1. (i - 1) + 1 = i
        BY <1>0
      <4>2. QED
        BY <3>1, <4>1 DEF Linked
    <3>4. QED
      BY <1>1, <3>1, <3>2, <3>3 DEF Links
  <2>5. QED
    BY <1>0, <2>1, <2>2, <2>3, <2>4
<1>9. prev[q[k]] = q[k - 1]
  <2>1. (k - 1) + 1 = k
    BY <1>0
  <2>2. QED
    BY <1>7, <2>1 DEF Linked
<1>10. m + 1 \in Nat /\ (m + 1) + 1 = m + 2
  BY <1>0
<1> HIDE DEF r, nx, pv
<1>11. Linked(nx, pv, U \cup {s}, r, m + 1)
  BY <1>2, <1>3, <1>4, <1>5, <1>6, <1>8, <1>10 DEF Linked
<1>12. QED
  BY <1>9, <1>11 DEF r, nx, pv

\* _rm_slab takes the slab at position k out of its list.
LEMMA RemoveLinks ==
  ASSUME NEW next \in Links, NEW prev \in Links, NEW U, NEW q, NEW m, Linked(next, prev, U, q, m),
         NEW k \in 1 .. m
  PROVE  /\ next[q[k]] = q[k + 1] /\ prev[q[k]] = q[k - 1]
         /\ Linked([next EXCEPT ![q[k - 1]] = q[k + 1], ![q[k]] = NULL],
                   [prev EXCEPT ![q[k + 1]] = q[k - 1], ![q[k]] = NULL],
                   U \ {q[k]}, Removed(q, m, k), m - 1)
<1> DEFINE r == Removed(q, m, k)
           nx == [next EXCEPT ![q[k - 1]] = q[k + 1], ![q[k]] = NULL]
           pv == [prev EXCEPT ![q[k + 1]] = q[k - 1], ![q[k]] = NULL]
<1>0. m \in Nat /\ m - 1 \in Nat /\ (m - 1) + 1 = m /\ k \in Nat
  BY DEF Linked
<1>1. /\ k - 1 \in 0 .. m /\ k \in 0 .. m /\ k - 1 \in 0 .. m + 1 /\ k \in 0 .. m + 1
      /\ k + 1 \in 0 .. m + 1 /\ (k - 1) + 1 = k
  BY <1>0
<1>2. \A a, b \in 0 .. m + 1 : q[a] = q[b] => a = b
  BY DEF Linked
<1>3. next[q[k]] = q[k + 1] /\ prev[q[k]] = q[k - 1]
  BY <1>1 DEF Linked
<1>4. ASSUME NEW n \in 0 .. m
      PROVE  /\ n < k => n \in 0 .. m + 1 /\ r[n] = q[n]
             /\ n >= k => n + 1 \in 0 .. m + 1 /\ r[n] = q[n + 1]
  BY <1>0 DEF Removed
<1>5. r \in [0 .. m -> Slabs]
  BY <1>0 DEF Removed, Linked
<1>6. r[0] = hslab /\ r[m] = tslab
  BY <1>0 DEF Removed, Linked
<1>7. \A i \in 1 .. m - 1 : r[i] \in U \ {q[k]}
  <2>1. \A i \in 1 .. m : q[i] \in U
    BY DEF Linked
  <2> HIDE DEF r
  <2>2. ASSUME NEW i \in 1 .. m - 1 PROVE r[i] \in U \ {q[k]}
    <3>1. /\ i < k => i \in 1 .. m /\ i \in 0 .. m + 1 /\ r[i] = q[i]
          /\ i >= k => i + 1 \in 1 .. m /\ i + 1 \in 0 .. m + 1 /\ r[i] = q[i + 1]
      BY <1>0, <1>4
    <3>2. QED
      BY <1>0, <1>1, <1>2, <2>1, <3>1
  <2>3. QED
    BY <2>2
<1>8. ASSUME NEW t \in U \ {q[k]} PROVE t \in SlabFrames /\ \E i \in 1 .. m - 1 : r[i] = t
  <2>1. PICK i \in 1 .. m : q[i] = t
    BY DEF Linked
  <2>2. i # k /\ t \in SlabFrames
    BY <2>1 DEF Linked
  <2> HIDE DEF r
  <2>3. CASE i < k
    <3>1. i \in 1 .. m - 1 /\ r[i] = t
      BY <1>0, <1>4, <2>1, <2>3
    <3>2. QED
      BY <2>2, <3>1
  <2>4. CASE i > k
    <3>1. i - 1 \in 1 .. m - 1 /\ i - 1 \in 0 .. m /\ i - 1 >= k /\ (i - 1) + 1 = i
      BY <1>0, <2>1, <2>4
    <3>2. r[i - 1] = t
      BY <1>0, <1>4, <2>1, <3>1
    <3>3. QED
      BY <2>2, <3>1, <3>2
  <2>5. QED
    BY <1>0, <2>2, <2>3, <2>4
<1>9. ASSUME NEW i \in 0 .. m, NEW j \in 0 .. m, r[i] = r[j] PROVE i = j
  <2> HIDE DEF r
  <2>1. /\ i < k => i \in 0 .. m + 1 /\ r[i] = q[i]
        /\ i >= k => i + 1 \in 0 .. m + 1 /\ r[i] = q[i + 1]
    BY <1>0, <1>4
  <2>2. /\ j < k => j \in 0 .. m + 1 /\ r[j] = q[j]
        /\ j >= k => j + 1 \in 0 .. m + 1 /\ r[j] = q[j + 1]
    BY <1>0, <1>4
  <2>3. QED
    BY <1>0, <1>2, <1>9, <2>1, <2>2
<1>10. \A i \in 0 .. m + 1 : q[i] \in Slabs
  BY DEF Linked
<1>11. ASSUME NEW i \in 0 .. m - 1 PROVE nx[r[i]] = r[i + 1] /\ pv[r[i + 1]] = r[i]
  <2>1. CASE i < k - 1
    <3>1. /\ i \in 0 .. m /\ i + 1 \in 0 .. m /\ i \in 0 .. m + 1 /\ i + 1 \in 0 .. m + 1
          /\ r[i] = q[i] /\ r[i + 1] = q[i + 1]
      BY <1>0, <2>1 DEF Removed
    <3>2. /\ q[i] # q[k - 1] /\ q[i] # q[k] /\ q[i + 1] # q[k] /\ q[i + 1] # q[k + 1]
      BY <1>0, <1>1, <1>2, <2>1, <3>1
    <3>3. next[q[i]] = q[i + 1] /\ prev[q[i + 1]] = q[i]
      BY <3>1 DEF Linked
    <3>4. QED
      BY <1>10, <3>1, <3>2, <3>3 DEF Links
  <2>2. CASE i = k - 1
    <3>1. r[i] = q[k - 1] /\ r[i + 1] = q[k + 1]
      BY <1>0, <2>2 DEF Removed
    <3>2. q[k - 1] # q[k] /\ q[k + 1] # q[k]
      BY <1>0, <1>1, <1>2
    <3>3. QED
      BY <1>1, <1>10, <3>1, <3>2 DEF Links
  <2>3. CASE i >= k
    <3>1. /\ i + 1 \in 0 .. m /\ i + 1 \in 0 .. m + 1 /\ i + 2 \in 0 .. m + 1
          /\ r[i] = q[i + 1] /\ r[i + 1] = q[i + 2] /\ (i + 1) + 1 = i + 2
      BY <1>0, <2>3 DEF Removed
    <3>2. /\ q[i + 1] # q[k - 1] /\ q[i + 1] # q[k] /\ q[i + 2] # q[k] /\ q[i + 2] # q[k + 1]
      BY <1>0, <1>1, <1>2, <2>3, <3>1
    <3>3. next[q[i + 1]] = q[i + 2] /\ prev[q[i + 2]] = q[i + 1]
      BY <3>1 DEF Linked
    <3>4. QED
      BY <1>10, <3>1, <3>2, <3>3 DEF Links
  <2>4. QED
    BY <1>0, <2>1, <2>2, <2>3
<1> HIDE DEF r, nx, pv
<1>12. Linked(nx, pv, U \ {q[k]}, r, m - 1)
  BY <1>0, <1>5, <1>6, <1>7, <1>8, <1>9, <1>11, Zenon DEF Linked
<1>13. QED
  BY <1>3, <1>12 DEF r, nx, pv

-----------------------------------------------------------------------------
(***************************************************************************)
(* Counting buffers                                                        *)
(***************************************************************************)
Buffers == SlabFrames \X (1 .. BufCnt)
Out(L, s) == {b \in L : b[1] = s}

\* Slab s, with n references and this freelist, has handed out its buffers in L.
Accounted(list, n, L, s) ==
  /\ n = Cardinality(Out(L, s)) /\ list \in Seq(1 .. BufCnt) /\ Len(list) = BufCnt - n
  /\ Range(list) = (1 .. BufCnt) \ {b[2] : b \in Out(L, s)}
  /\ \A i, j \in 1 .. Len(list) : list[i] = list[j] => i = j

\* The buffers of a slab are finitely many.
LEMMA OutIsFinite ==
  ASSUME NEW L \in SUBSET Buffers, NEW s
  PROVE  IsFiniteSet(Out(L, s)) /\ Cardinality(Out(L, s)) \in Nat
<1>1. IsFiniteSet(SlabFrames) /\ IsFiniteSet(1 .. BufCnt)
  BY SlabAssumption, FS_Interval DEF SlabAssumption, SlabFrames
<1>2. IsFiniteSet(Buffers)
  BY <1>1, FS_Product, Zenon DEF Buffers
<1>3. Out(L, s) \subseteq Buffers
  BY DEF Out
<1>4. QED
  BY <1>2, <1>3, FS_Subset, FS_CardinalityType

\* A new slab has handed out nothing.
LEMMA NewAccounted ==
  ASSUME NEW L, NEW s, Out(L, s) = {}
  PROVE  Accounted([k \in 1 .. BufCnt |-> k], 0, L, s)
<1> DEFINE list == [k \in 1 .. BufCnt |-> k]
<1>0. BufCnt \in Nat
  BY SlabAssumption DEF SlabAssumption
<1>1. list \in Seq(1 .. BufCnt) /\ Len(list) = BufCnt - 0
  BY <1>0
<1>2. Range(list) = 1 .. BufCnt
  BY <1>0 DEF Range
<1>3. Cardinality(Out(L, s)) = 0
  BY FS_EmptySet
<1>4. {b[2] : b \in Out(L, s)} = {}
  OBVIOUS
<1>5. \A i, j \in 1 .. Len(list) : list[i] = list[j] => i = j
  BY <1>0, <1>1
<1>6. QED
  BY <1>1, <1>2, <1>3, <1>4, <1>5, Zenon DEF Accounted

\* Taking the first buffer of the freelist.
LEMMA TakeAccounted ==
  ASSUME NEW L \in SUBSET Buffers, NEW s \in SlabFrames, NEW list, NEW n, Accounted(list, n, L, s), n < BufCnt
  PROVE  /\ list # <<>> /\ <<s, Head(list)>> \in Buffers \ L
         /\ Accounted(Tail(list), n + 1, L \cup {<<s, Head(list)>>}, s)
<1> DEFINE x == Head(list)
           b == <<s, x>>
           K == L \cup {b}
<1>0. BufCnt \in Nat /\ n \in Nat /\ list \in Seq(1 .. BufCnt) /\ Len(list) \in Nat /\ Len(list) = BufCnt - n
  BY SlabAssumption, OutIsFinite DEF SlabAssumption, Accounted
<1>1. list # <<>> /\ Len(list) > 0
  BY <1>0
<1>2. x = list[1] /\ x \in 1 .. BufCnt
  BY <1>0, <1>1
<1>3. x \in Range(list)
  BY <1>0, <1>1, <1>2 DEF Range
<1>4. b \notin L
  <2>1. SUFFICES ASSUME b \in L PROVE FALSE
    OBVIOUS
  <2>2. b \in Out(L, s) /\ b[2] = x
    BY <2>1 DEF Out
  <2>3. QED
    BY <1>3, <2>2 DEF Accounted
<1>5. b \in Buffers
  BY <1>2 DEF Buffers
<1>6. Out(K, s) = Out(L, s) \cup {b}
  BY DEF Out
<1>7. n + 1 = Cardinality(Out(K, s))
  <2>1. b \notin Out(L, s)
    BY <1>4 DEF Out
  <2>2. IsFiniteSet(Out(L, s)) /\ n = Cardinality(Out(L, s))
    BY OutIsFinite DEF Accounted
  <2>3. Cardinality(Out(L, s) \cup {b}) = Cardinality(Out(L, s)) + 1
    <3> HIDE DEF b
    <3> QED
      BY <2>1, <2>2, FS_AddElement
  <2>4. QED
    BY <1>6, <2>2, <2>3, Zenon
<1>8. Tail(list) \in Seq(1 .. BufCnt) /\ Len(Tail(list)) = Len(list) - 1
  BY <1>0, <1>1
<1>9. \A i \in 1 .. Len(Tail(list)) : i + 1 \in 1 .. Len(list) /\ Tail(list)[i] = list[i + 1]
  BY <1>0, <1>1, <1>8
<1>10. \A i, j \in 1 .. Len(list) : list[i] = list[j] => i = j
  BY DEF Accounted
<1>11. \A i, j \in 1 .. Len(Tail(list)) : Tail(list)[i] = Tail(list)[j] => i = j
  <2>1. SUFFICES ASSUME NEW i \in 1 .. Len(Tail(list)), NEW j \in 1 .. Len(Tail(list)),
                        Tail(list)[i] = Tail(list)[j]
                 PROVE  i = j
    OBVIOUS
  <2>2. i + 1 \in 1 .. Len(list) /\ j + 1 \in 1 .. Len(list) /\ list[i + 1] = list[j + 1]
    BY <1>9, <2>1
  <2>3. i + 1 = j + 1
    BY <1>10, <2>2
  <2>4. QED
    BY <1>0, <1>8, <2>3
<1>12. Range(Tail(list)) = Range(list) \ {x}
  <2>1. DOMAIN list = 1 .. Len(list) /\ DOMAIN Tail(list) = 1 .. Len(Tail(list))
    BY <1>0, <1>8
  <2>2. ASSUME NEW y \in Range(Tail(list)) PROVE y \in Range(list) \ {x}
    <3>1. PICK i \in 1 .. Len(Tail(list)) : y = Tail(list)[i]
      BY <2>1 DEF Range
    <3>2. i + 1 \in 1 .. Len(list) /\ y = list[i + 1]
      BY <1>9, <3>1
    <3>3. 1 \in 1 .. Len(list) /\ i + 1 # 1
      BY <1>0, <1>1, <1>8
    <3>4. y # x
      BY <1>2, <1>10, <3>2, <3>3
    <3>5. QED
      BY <2>1, <3>2, <3>4 DEF Range
  <2>3. ASSUME NEW y \in Range(list) \ {x} PROVE y \in Range(Tail(list))
    <3>1. PICK i \in 1 .. Len(list) : y = list[i]
      BY <2>1 DEF Range
    <3>2. i # 1
      BY <1>2, <3>1
    <3>3. i - 1 \in 1 .. Len(Tail(list)) /\ (i - 1) + 1 = i
      BY <1>0, <1>8, <3>2
    <3>4. y = Tail(list)[i - 1]
      BY <1>9, <3>1, <3>3
    <3>5. QED
      BY <2>1, <3>3, <3>4, Zenon DEF Range
  <2>4. QED
    BY <2>2, <2>3
<1>13. {d[2] : d \in Out(K, s)} = {d[2] : d \in Out(L, s)} \cup {x}
  <2>1. b[2] = x
    OBVIOUS
  <2> HIDE DEF b, x, K
  <2> QED
    BY <1>6, <2>1
<1>14. Range(Tail(list)) = (1 .. BufCnt) \ {d[2] : d \in Out(K, s)}
  BY <1>12, <1>13, Zenon DEF Accounted
<1> HIDE DEF x, b, K
<1>15. Accounted(Tail(list), n + 1, K, s)
  BY <1>0, <1>7, <1>8, <1>11, <1>14 DEF Accounted
<1>16. QED
  BY <1>1, <1>4, <1>5, <1>15 DEF x, b, K

\* Putting a buffer back at the head of the freelist.
LEMMA ReturnAccounted ==
  ASSUME NEW L \in SUBSET Buffers, NEW b \in L, NEW list, NEW n, Accounted(list, n, L, b[1])
  PROVE  n \in 1 .. BufCnt /\ Accounted(<<b[2]>> \o list, n - 1, L \ {b}, b[1])
<1> DEFINE s == b[1]
           x == b[2]
           K == L \ {b}
           more == <<x>> \o list
<1>0. BufCnt \in Nat /\ n \in Nat /\ list \in Seq(1 .. BufCnt) /\ Len(list) \in Nat /\ Len(list) = BufCnt - n
  BY SlabAssumption, OutIsFinite DEF SlabAssumption, Accounted
<1>1. b = <<s, x>> /\ s \in SlabFrames /\ x \in 1 .. BufCnt
  BY DEF Buffers
<1>2. b \in Out(L, s)
  BY DEF Out
<1>3. Out(K, s) = Out(L, s) \ {b}
  BY DEF Out
<1>4. Cardinality(Out(K, s)) = n - 1
  <2>1. IsFiniteSet(Out(L, s)) /\ n = Cardinality(Out(L, s))
    BY OutIsFinite DEF Accounted
  <2>2. Cardinality(Out(L, s) \ {b}) = Cardinality(Out(L, s)) - 1
    BY <1>2, <2>1, FS_RemoveElement, Zenon
  <2>3. QED
    BY <1>3, <2>1, <2>2
<1>5. n >= 1
  <2>1. Cardinality(Out(K, s)) \in Nat
    BY OutIsFinite
  <2>2. QED
    BY <1>0, <1>4, <2>1
<1>6. x \notin Range(list)
  BY <1>2 DEF Accounted
<1>7. more \in Seq(1 .. BufCnt) /\ Len(more) = Len(list) + 1
  BY <1>0, <1>1
<1>8. more[1] = x /\ \A i \in 1 .. Len(list) : more[i + 1] = list[i]
  BY <1>0, <1>1
<1>9. \A i \in 1 .. Len(more) : i # 1 => i - 1 \in 1 .. Len(list) /\ more[i] = list[i - 1]
  BY <1>0, <1>7
<1>10. \A i \in 1 .. Len(list) : list[i] # x
  <2>1. DOMAIN list = 1 .. Len(list)
    BY <1>0
  <2>2. QED
    BY <1>6, <2>1 DEF Range
<1>11. \A i, j \in 1 .. Len(more) : more[i] = more[j] => i = j
  <2>1. SUFFICES ASSUME NEW i \in 1 .. Len(more), NEW j \in 1 .. Len(more), more[i] = more[j] PROVE i = j
    OBVIOUS
  <2>2. \A k, l \in 1 .. Len(list) : list[k] = list[l] => k = l
    BY DEF Accounted
  <2>3. /\ i # 1 => i - 1 \in 1 .. Len(list) /\ more[i] = list[i - 1]
        /\ j # 1 => j - 1 \in 1 .. Len(list) /\ more[j] = list[j - 1]
    BY <1>9
  <2> HIDE DEF more, x
  <2>4. CASE i = 1 \/ j = 1
    BY <1>8, <1>10, <2>1, <2>3, <2>4
  <2>5. CASE i # 1 /\ j # 1
    <3>1. i - 1 = j - 1
      BY <2>1, <2>2, <2>3, <2>5
    <3>2. QED
      BY <1>0, <1>7, <3>1
  <2>6. QED
    BY <2>4, <2>5
<1>12. Range(more) = Range(list) \cup {x}
  <2>1. DOMAIN list = 1 .. Len(list) /\ DOMAIN more = 1 .. Len(more)
    BY <1>0, <1>7
  <2> HIDE DEF more, x
  <2>2. ASSUME NEW y \in Range(more) PROVE y \in Range(list) \cup {x}
    <3>1. PICK i \in 1 .. Len(more) : y = more[i]
      BY <2>1 DEF Range
    <3>2. QED
      BY <1>8, <1>9, <2>1, <3>1, Zenon DEF Range
  <2>3. ASSUME NEW y \in Range(list) PROVE y \in Range(more)
    <3>1. PICK i \in 1 .. Len(list) : y = list[i]
      BY <2>1 DEF Range
    <3>2. i + 1 \in 1 .. Len(more) /\ y = more[i + 1]
      BY <1>0, <1>7, <1>8, <3>1
    <3>3. QED
      BY <2>1, <3>2 DEF Range
  <2>4. x \in Range(more)
    <3>1. 1 \in 1 .. Len(more)
      BY <1>0, <1>7
    <3>2. QED
      BY <1>8, <2>1, <3>1 DEF Range
  <2>5. QED
    BY <2>2, <2>3, <2>4
<1>13. {d[2] : d \in Out(K, s)} = {d[2] : d \in Out(L, s)} \ {x}
  <2>1. \A d \in Out(L, s) : d = <<s, d[2]>>
    BY DEF Out, Buffers
  <2>2. \A d \in Out(L, s) : d[2] = x => d = b
    BY <1>1, <2>1
  <2>3. QED
    BY <1>2, <1>3, <2>2, Zenon
<1>14. Range(more) = (1 .. BufCnt) \ {d[2] : d \in Out(K, s)}
  <2>1. x \in {d[2] : d \in Out(L, s)}
    BY <1>2
  <2>2. QED
    BY <1>1, <1>12, <1>13, <2>1, Zenon DEF Accounted
<1> HIDE DEF more, K, s, x
<1>15. n \in 1 .. BufCnt
  BY <1>0, <1>5
<1>16. Accounted(more, n - 1, K, s)
  BY <1>0, <1>4, <1>7, <1>11, <1>14, SMTT(30) DEF Accounted
<1>17. QED
  BY <1>15, <1>16 DEF more, K, s, x

-----------------------------------------------------------------------------
(***************************************************************************)
(* The cache                                                               *)
(***************************************************************************)
Caches ==
  [prev : Links, next : Links, fl_ptr : Slabs \cup {NULL}, refs : [Slabs -> Nat],
   freelist : [Slabs -> Seq(1 .. BufCnt)], free : SUBSET SlabFrames, fault : BOOLEAN]

\* No call on the cache has gone wrong.
Sound(d) == d \in Caches /\ d.fault = FALSE

\* Frames of the cache, which hold its headers.
Used(d) == SlabFrames \ d.free

\* Slabs that are full come before position k, where fl_ptr is, and the others from there
\* on, those without a buffer in use last.
Sorted(refs, fl_ptr, q, m, k) ==
  /\ k \in 1 .. m + 1 /\ fl_ptr = q[k]
  /\ \A i \in 1 .. k - 1 : refs[q[i]] = BufCnt
  /\ \A i \in k .. m : refs[q[i]] < BufCnt
  /\ \A i, j \in 1 .. m : i < j /\ refs[q[i]] = 0 => refs[q[j]] = 0

InOrder(d) ==
  \E q, m, k : Linked(d.next, d.prev, Used(d), q, m) /\ Sorted(d.refs, d.fl_ptr, q, m, k)

Counted(d, L) ==
  /\ L \in SUBSET Buffers /\ \A b \in L : b[1] \notin d.free
  /\ \A s \in Used(d) : Accounted(d.freelist[s], d.refs[s], L, s)

\* The parts of a cache.
LEMMA Fields ==
  ASSUME NEW d \in Caches
  PROVE  /\ d.next \in Links /\ d.prev \in Links /\ d.fl_ptr \in Slabs \cup {NULL}
         /\ d.refs \in [Slabs -> Nat] /\ d.freelist \in [Slabs -> Seq(1 .. BufCnt)]
         /\ d.free \in SUBSET SlabFrames /\ d.fault \in BOOLEAN
BY DEF Caches

\* What is not a frame is in no free frame.
LEMMA NotFrames ==
  /\ hslab \in Slabs /\ tslab \in Slabs /\ hslab # tslab /\ NULL \notin Slabs
  /\ hslab \notin SlabFrames /\ tslab \notin SlabFrames /\ SlabFrames \subseteq Slabs
BY SlabAssumption DEF SlabAssumption, SlabFrames, Slabs, hslab, tslab, NULL

\* The members of a list are slabs of the cache or its sentinels: reading them is no fault.
LEMMA MembersInUse ==
  ASSUME NEW d \in Caches, NEW next, NEW prev, NEW U, U \cap d.free = {}, NEW q, NEW m,
         Linked(next, prev, U, q, m), NEW i \in 0 .. m + 1
  PROVE  q[i] \in Slabs /\ q[i] \notin d.free /\ q[i] # NULL
<1>1. q[i] \in Slabs /\ m \in Nat
  BY DEF Linked
<1>2. q[i] \in U \cup {hslab, tslab}
  <2>1. i = 0 \/ i = m + 1 \/ i \in 1 .. m
    BY <1>1
  <2>2. QED
    BY <2>1 DEF Linked
<1>3. q[i] \notin d.free
  BY <1>2, NotFrames, Fields
<1>4. QED
  BY <1>1, <1>3, NotFrames

\* d and e differ in their links, those of e being next and prev.
Relinked(d, e, next, prev) ==
  /\ e.next = next /\ e.prev = prev /\ e.fl_ptr = d.fl_ptr /\ e.refs = d.refs
  /\ e.freelist = d.freelist /\ e.free = d.free

\* _insert_slab without a fault changes links only.
LEMMA InsertFields ==
  ASSUME NEW d, Sound(d), NEW it \in Slabs, NEW s \in SlabFrames,
         d.prev[it] \in Slabs, it \notin d.free, d.prev[it] \notin d.free
  PROVE  /\ Sound(_insert_slab(d, it, s))
         /\ Relinked(d, _insert_slab(d, it, s), [d.next EXCEPT ![d.prev[it]] = s, ![s] = it],
                     [d.prev EXCEPT ![s] = d.prev[it], ![it] = s])
<1> DEFINE p == d.prev[it]
<1>0. d \in Caches /\ d.fault = FALSE
  BY DEF Sound
<1>1. it # NULL /\ p # NULL /\ s \in Slabs
  BY NotFrames
<1>2. Deref(d, {it, p}) = d
  BY <1>1 DEF Deref
<1> DEFINE nx == [d.next EXCEPT ![p] = s, ![s] = it]
           pv == [d.prev EXCEPT ![s] = p, ![it] = s]
<1>3. _insert_slab(d, it, s) = [d EXCEPT !.next = nx, !.prev = pv]
  BY <1>0, <1>2 DEF _insert_slab
<1>4. nx \in Links /\ pv \in Links
  BY <1>0, <1>1, Fields, Zenon DEF Links
<1> HIDE DEF nx, pv
<1> DEFINE e == [d EXCEPT !.next = nx, !.prev = pv]
<1>5. e \in Caches /\ e.fault = FALSE
  BY <1>0, <1>4, Zenon DEF Caches
<1>6. Relinked(d, e, nx, pv)
  BY <1>0 DEF Relinked, Caches
<1> HIDE DEF e
<1>7. QED
  BY <1>3, <1>5, <1>6, Zenon DEF Sound, nx, pv, e

\* _rm_slab without a fault changes links only.
LEMMA RemoveFields ==
  ASSUME NEW d, Sound(d), NEW s \in SlabFrames, d.prev[s] \in Slabs, d.next[s] \in Slabs,
         s \notin d.free, d.prev[s] \notin d.free, d.next[s] \notin d.free
  PROVE  /\ Sound(_rm_slab(d, s))
         /\ Relinked(d, _rm_slab(d, s), [d.next EXCEPT ![d.prev[s]] = d.next[s], ![s] = NULL],
                     [d.prev EXCEPT ![d.next[s]] = d.prev[s], ![s] = NULL])
<1> DEFINE p == d.prev[s]
           n == d.next[s]
<1>0. d \in Caches /\ d.fault = FALSE
  BY DEF Sound
<1>1. n # NULL /\ p # NULL /\ s # NULL /\ s \in Slabs
  BY NotFrames
<1>2. Deref(d, {s, p, n}) = d
  BY <1>1 DEF Deref
<1> DEFINE nx == [d.next EXCEPT ![p] = n, ![s] = NULL]
           pv == [d.prev EXCEPT ![n] = p, ![s] = NULL]
<1>3. _rm_slab(d, s) = [d EXCEPT !.next = nx, !.prev = pv]
  BY <1>0, <1>2 DEF _rm_slab
<1>4. nx \in Links /\ pv \in Links
  BY <1>0, <1>1, Fields, Zenon DEF Links
<1> HIDE DEF nx, pv
<1> DEFINE e == [d EXCEPT !.next = nx, !.prev = pv]
<1>5. e \in Caches /\ e.fault = FALSE
  BY <1>0, <1>4, Zenon DEF Caches
<1>6. Relinked(d, e, nx, pv)
  BY <1>0 DEF Relinked, Caches
<1> HIDE DEF e
<1>7. QED
  BY <1>3, <1>5, <1>6, Zenon DEF Sound, nx, pv, e


\* kmem_cache_grow appends an unused slab; afterwards fl_ptr is at a slab of the cache.
LEMMA GrowKeeps ==
  ASSUME NEW d, Sound(d), InOrder(d), NEW L, Counted(d, L), NEW e \in kmem_cache_grow(d)
  PROVE  Sound(e) /\ InOrder(e) /\ Counted(e, L) /\ e.fl_ptr \in Used(e)
<1>0. d \in Caches /\ d.fault = FALSE
  BY DEF Sound
<1> DEFINE ids == [k \in 1 .. BufCnt |-> k]
<1>1. PICK f \in d.free :
        e = _append_slab([d EXCEPT !.free = @ \ {f}, !.refs[f] = 0, !.next[f] = NULL, !.prev[f] = NULL,
                                   !.freelist[f] = ids], f)
  BY Zenon DEF kmem_cache_grow
<1> DEFINE d1 == [d EXCEPT !.free = @ \ {f}, !.refs[f] = 0, !.next[f] = NULL, !.prev[f] = NULL,
                           !.freelist[f] = ids]
<1>2. f \in SlabFrames /\ f \in Slabs /\ f \notin Used(d) /\ BufCnt \in Nat \ {0}
  BY <1>0, Fields, NotFrames, SlabAssumption DEF Used, SlabAssumption
<1>3. /\ d1.free = d.free \ {f} /\ d1.refs = [d.refs EXCEPT ![f] = 0]
      /\ d1.next = [d.next EXCEPT ![f] = NULL] /\ d1.prev = [d.prev EXCEPT ![f] = NULL]
      /\ d1.freelist = [d.freelist EXCEPT ![f] = ids] /\ d1.fl_ptr = d.fl_ptr /\ d1.fault = FALSE
  BY <1>0 DEF Caches
<1>4. d1 \in Caches
  <2>1. ids \in Seq(1 .. BufCnt)
    BY <1>2
  <2> HIDE DEF ids
  <2>2. /\ d1.free \in SUBSET SlabFrames /\ d1.refs \in [Slabs -> Nat] /\ d1.next \in Links
        /\ d1.prev \in Links /\ d1.freelist \in [Slabs -> Seq(1 .. BufCnt)]
    BY <1>0, <1>2, <1>3, <2>1, Fields DEF Links
  <2> DEFINE d2 == [d EXCEPT !.free = d1.free, !.refs = d1.refs, !.next = d1.next, !.prev = d1.prev,
                             !.freelist = d1.freelist]
  <2>3. d1 = d2
    BY <1>3
  <2> HIDE DEF d1
  <2>4. d2 \in Caches
    BY <1>0, <2>2, Zenon DEF Caches
  <2>5. QED
    BY <2>3, <2>4
<1>5. PICK q, m, k : Linked(d.next, d.prev, Used(d), q, m) /\ Sorted(d.refs, d.fl_ptr, q, m, k)
  BY DEF InOrder
<1>6. m \in Nat /\ m + 1 \in 1 .. m + 1 /\ m \in 0 .. m + 1 /\ m + 1 \in 0 .. m + 1 /\ (m + 1) - 1 = m
  BY <1>5 DEF Linked
<1>7. q[m + 1] = tslab
  BY <1>5 DEF Linked
<1> HIDE DEF d1, ids
<1> DEFINE r == Inserted(q, m, m + 1, f)
           e1 == _insert_slab(d1, tslab, f)
<1>8. Linked(d1.next, d1.prev, Used(d), q, m)
  <2>1. d.next \in Links /\ d.prev \in Links
    BY <1>0, Fields
  <2>2. Linked([d.next EXCEPT ![f] = NULL], [d.prev EXCEPT ![f] = NULL], Used(d), q, m)
    BY <1>2, <1>5, <2>1, LinksOutside, Zenon
  <2>3. QED
    BY <1>3, <2>2, Zenon
<1>9. d1.next \in Links /\ d1.prev \in Links /\ Used(d) \cap d1.free = {}
  BY <1>3, <1>4, Fields DEF Used
<1>10. /\ d1.prev[tslab] = q[m]
       /\ Linked([d1.next EXCEPT ![q[m]] = f, ![f] = tslab], [d1.prev EXCEPT ![f] = q[m], ![tslab] = f],
                 Used(d) \cup {f}, r, m + 1)
  <2>1. /\ d1.prev[q[m + 1]] = q[(m + 1) - 1]
        /\ Linked([d1.next EXCEPT ![q[(m + 1) - 1]] = f, ![f] = q[m + 1]],
                  [d1.prev EXCEPT ![f] = q[(m + 1) - 1], ![q[m + 1]] = f],
                  Used(d) \cup {f}, Inserted(q, m, m + 1, f), m + 1)
    BY <1>2, <1>6, <1>8, <1>9, InsertLinks, Zenon
  <2>2. QED
    BY <1>6, <1>7, <2>1, Zenon DEF r
<1>11. q[m] \in Slabs /\ q[m] \notin d1.free /\ tslab \in Slabs /\ tslab \notin d1.free
  BY <1>4, <1>6, <1>7, <1>8, <1>9, MembersInUse
<1>12. /\ Sound(e1)
       /\ Relinked(d1, e1, [d1.next EXCEPT ![q[m]] = f, ![f] = tslab],
                   [d1.prev EXCEPT ![f] = q[m], ![tslab] = f])
  <2>1. Sound(d1)
    BY <1>3, <1>4 DEF Sound
  <2>2. QED
    BY <1>2, <1>10, <1>11, <2>1, InsertFields, Zenon DEF e1
<1> HIDE DEF e1, r
<1>13. e = IF d.fl_ptr = tslab THEN [e1 EXCEPT !.fl_ptr = f] ELSE e1
  <2>1. e = _append_slab(d1, f)
    BY <1>1 DEF d1
  <2>2. QED
    BY <1>3, <2>1, Zenon DEF _append_slab, e1
<1>14. /\ e \in Caches /\ e.fault = FALSE /\ e.next = e1.next /\ e.prev = e1.prev
       /\ e.refs = d1.refs /\ e.freelist = d1.freelist /\ e.free = d.free \ {f}
       /\ e.fl_ptr = IF d.fl_ptr = tslab THEN f ELSE d.fl_ptr
  <2>0. /\ e1 \in Caches /\ e1.fault = FALSE
        /\ e1.refs = d1.refs /\ e1.freelist = d1.freelist /\ e1.free = d1.free /\ e1.fl_ptr = d1.fl_ptr
    BY <1>12 DEF Sound, Relinked
  <2>1. CASE d.fl_ptr = tslab
    BY <1>2, <1>3, <1>13, <2>0, <2>1, Zenon DEF Caches
  <2>2. CASE d.fl_ptr # tslab
    BY <1>3, <1>13, <2>0, <2>2
  <2>3. QED
    BY <2>1, <2>2, Zenon
<1>15. Used(e) = Used(d) \cup {f}
  BY <1>2, <1>14 DEF Used
<1>16. Linked(e.next, e.prev, Used(e), r, m + 1)
  BY <1>10, <1>12, <1>14, <1>15, Zenon DEF Relinked
<1>17. Sorted(e.refs, e.fl_ptr, r, m + 1, k)
  <2>1. k \in 1 .. m + 1 /\ d.fl_ptr = q[k]
    BY <1>5 DEF Sorted
  <2>2. /\ \A i \in 1 .. m : r[i] = q[i] /\ q[i] \in Used(d)
        /\ r[m + 1] = f
    BY <1>5, <1>6 DEF r, Inserted, Linked
  <2>3. e.fl_ptr = r[k]
    <3>1. CASE k = m + 1
      BY <1>7, <1>14, <2>1, <2>2, <3>1
    <3>2. CASE k # m + 1
      <4>1. k \in 1 .. m
        BY <1>6, <2>1, <3>2
      <4>2. q[k] # tslab
        BY <2>2, <4>1, NotFrames DEF Used
      <4>3. QED
        BY <1>14, <2>1, <2>2, <4>1, <4>2
    <3>3. QED
      BY <3>1, <3>2
  <2>4. ASSUME NEW i \in 1 .. m PROVE e.refs[r[i]] = d.refs[q[i]]
    <3>1. q[i] # f /\ q[i] \in Slabs
      BY <1>2, <2>2, NotFrames DEF Used
    <3>2. QED
      BY <1>0, <1>3, <1>14, <2>2, <3>1, Fields
  <2>5. e.refs[r[m + 1]] = 0
    BY <1>0, <1>2, <1>3, <1>14, <2>2, Fields
  <2>6. \A i \in 1 .. k - 1 : e.refs[r[i]] = BufCnt
    <3>1. \A i \in 1 .. k - 1 : i \in 1 .. m
      BY <1>6, <2>1
    <3>2. QED
      BY <1>5, <2>4, <3>1 DEF Sorted
  <2>7. \A i \in k .. m + 1 : e.refs[r[i]] < BufCnt
    <3>1. \A i \in k .. m + 1 : i = m + 1 \/ (i \in 1 .. m /\ i \in k .. m)
      BY <1>6, <2>1
    <3>2. QED
      BY <1>2, <1>5, <2>4, <2>5, <3>1 DEF Sorted
  <2>8. ASSUME NEW i \in 1 .. m + 1, NEW j \in 1 .. m + 1, i < j, e.refs[r[i]] = 0
        PROVE  e.refs[r[j]] = 0
    <3>1. j = m + 1 \/ (i \in 1 .. m /\ j \in 1 .. m)
      BY <1>6, <2>8
    <3>2. QED
      BY <1>5, <2>4, <2>5, <2>8, <3>1 DEF Sorted
  <2>9. k \in 1 .. (m + 1) + 1
    BY <1>6, <2>1
  <2>10. QED
    BY <2>3, <2>6, <2>7, <2>8, <2>9 DEF Sorted
<1>18. InOrder(e)
  BY <1>16, <1>17 DEF InOrder
<1>19. e.fl_ptr \in Used(e)
  <2>1. k \in 1 .. m + 1 /\ e.fl_ptr = r[k]
    BY <1>5, <1>17 DEF Sorted
  <2>2. QED
    BY <1>16, <2>1 DEF Linked
<1>20. Counted(e, L)
  <2>1. L \in SUBSET Buffers /\ \A b \in L : b[1] \notin e.free
    BY <1>14 DEF Counted
  <2>2. ASSUME NEW s \in Used(e) PROVE Accounted(e.freelist[s], e.refs[s], L, s)
    <3>1. CASE s = f
      <4>1. Out(L, s) = {}
        BY <3>1 DEF Out, Counted
      <4>2. e.freelist[s] = ids /\ e.refs[s] = 0
        BY <1>0, <1>2, <1>3, <1>14, <3>1, Fields
      <4>3. QED
        BY <4>1, <4>2, NewAccounted DEF ids
    <3>2. CASE s # f
      <4>1. s \in Used(d) /\ s \in Slabs
        BY <1>15, <3>2, NotFrames DEF Used
      <4>2. e.freelist[s] = d.freelist[s] /\ e.refs[s] = d.refs[s]
        BY <1>0, <1>2, <1>3, <1>14, <3>2, <4>1, Fields
      <4>3. QED
        BY <4>1, <4>2 DEF Counted
    <3>3. QED
      BY <3>1, <3>2
  <2>3. QED
    BY <2>1, <2>2 DEF Counted
<1>21. QED
  BY <1>14, <1>18, <1>19, <1>20 DEF Sound


\* Handing out or taking back a buffer of a slab does not touch the counts of the others.
LEMMA OthersAccounted ==
  ASSUME NEW L, NEW K, NEW s, \A b \in (L \cup K) \ (L \cap K) : b[1] = s,
         NEW t, t # s, NEW list, NEW n, Accounted(list, n, L, t)
  PROVE  Accounted(list, n, K, t)
<1>1. Out(K, t) = Out(L, t)
  BY DEF Out
<1>2. QED
  BY <1>1 DEF Accounted

\* kmem_cache_alloc finds a buffer at fl_ptr and takes it.
LEMMA TakeKeeps ==
  ASSUME NEW d, Sound(d), InOrder(d), NEW L, Counted(d, L), d.fl_ptr \in Used(d)
  PROVE  /\ d.refs[d.fl_ptr] < BufCnt /\ d.freelist[d.fl_ptr] # <<>>
         /\ Sound(TakeBuffer(d)) /\ InOrder(TakeBuffer(d))
         /\ Counted(TakeBuffer(d), L \cup {<<d.fl_ptr, Head(d.freelist[d.fl_ptr])>>})
<1> DEFINE s == d.fl_ptr
           b == <<s, Head(d.freelist[s])>>
           K == L \cup {b}
           t == [d EXCEPT !.freelist[s] = Tail(@), !.refs[s] = @ + 1]
           e == TakeBuffer(d)
<1>0. d \in Caches /\ d.fault = FALSE
  BY DEF Sound
<1>1. s \in Slabs /\ s \in SlabFrames /\ s \notin d.free /\ BufCnt \in Nat \ {0}
  BY NotFrames, SlabAssumption DEF Used, SlabAssumption
<1>2. PICK q, m, k : Linked(d.next, d.prev, Used(d), q, m) /\ Sorted(d.refs, s, q, m, k)
  BY DEF InOrder
<1>3. m \in Nat /\ k \in 1 .. m + 1 /\ s = q[k]
  BY <1>2 DEF Linked, Sorted
<1>4. k \in 1 .. m
  <2>1. k # m + 1
    BY <1>1, <1>2, <1>3, NotFrames DEF Linked
  <2>2. QED
    BY <1>3, <2>1
<1>5. d.refs[s] < BufCnt /\ d.refs[s] \in Nat
  <2>1. k \in k .. m
    BY <1>3, <1>4
  <2>2. d.refs[s] < BufCnt
    BY <1>2, <1>3, <2>1 DEF Sorted
  <2>3. QED
    BY <1>0, <1>1, <2>2, Fields
<1>6. Accounted(d.freelist[s], d.refs[s], L, s) /\ L \in SUBSET Buffers
  BY DEF Counted
<1>7. /\ d.freelist[s] # <<>> /\ b \in Buffers \ L
      /\ Accounted(Tail(d.freelist[s]), d.refs[s] + 1, K, s)
  <2>1. s \in SlabFrames /\ d.refs[s] < BufCnt
    BY <1>1, <1>5
  <2> HIDE DEF s
  <2>2. QED
    BY <1>6, <2>1, TakeAccounted, Zenon
<1>8. d.freelist[s] \in Seq(1 .. BufCnt) /\ Tail(d.freelist[s]) \in Seq(1 .. BufCnt)
  BY <1>7 DEF Accounted, Counted
<1>9. /\ t.free = d.free /\ t.refs = [d.refs EXCEPT ![s] = d.refs[s] + 1] /\ t.next = d.next
      /\ t.prev = d.prev /\ t.freelist = [d.freelist EXCEPT ![s] = Tail(d.freelist[s])]
      /\ t.fl_ptr = s /\ t.fault = FALSE
  BY <1>0 DEF Caches
<1>10. t \in Caches
  <2>1. t.refs \in [Slabs -> Nat] /\ t.freelist \in [Slabs -> Seq(1 .. BufCnt)]
    BY <1>0, <1>1, <1>5, <1>8, <1>9, Fields
  <2> DEFINE t2 == [d EXCEPT !.refs = t.refs, !.freelist = t.freelist]
  <2>2. t = t2
    BY <1>9, Zenon
  <2> HIDE DEF t
  <2>3. t2 \in Caches
    BY <1>0, <2>1, Zenon DEF Caches
  <2>4. QED
    BY <2>2, <2>3
<1>11. e = IF t.refs[s] >= BufCnt THEN [t EXCEPT !.fl_ptr = t.next[s]] ELSE t
  BY DEF TakeBuffer, FullAfterAlloc
<1> HIDE DEF t, e, b, K
<1>12. k + 1 \in 0 .. m + 1 /\ k \in 0 .. m
  BY <1>3, <1>4
<1>13. t.next[s] = q[k + 1] /\ q[k + 1] \in Slabs
  BY <1>2, <1>3, <1>9, <1>12 DEF Linked
<1>14. /\ e \in Caches /\ e.fault = FALSE /\ e.free = d.free /\ e.refs = t.refs /\ e.next = d.next
       /\ e.prev = d.prev /\ e.freelist = t.freelist
       /\ e.fl_ptr = IF t.refs[s] >= BufCnt THEN q[k + 1] ELSE q[k]
  <2>1. CASE t.refs[s] >= BufCnt
    BY <1>9, <1>10, <1>11, <1>13, <2>1, Zenon DEF Caches
  <2>2. CASE ~(t.refs[s] >= BufCnt)
    BY <1>3, <1>9, <1>10, <1>11, <2>2
  <2>3. QED
    BY <2>1, <2>2, Zenon
<1>15. Used(e) = Used(d)
  BY <1>14 DEF Used
<1>16. t.refs[s] = d.refs[s] + 1 /\ \A x \in Slabs : x # s => t.refs[x] = d.refs[x]
  BY <1>0, <1>1, <1>9, Fields
<1>17. ASSUME NEW i \in 1 .. m
       PROVE  /\ q[i] \in Slabs /\ (q[i] = s => i = k)
              /\ i # k => t.refs[q[i]] = d.refs[q[i]]
  <2>1. i \in 0 .. m + 1 /\ k \in 0 .. m + 1
    BY <1>3, <1>4
  <2>2. q[i] \in Slabs /\ (q[i] = s => i = k)
    BY <1>2, <1>3, <2>1 DEF Linked
  <2>3. QED
    BY <1>16, <2>2
<1> DEFINE l == IF t.refs[s] >= BufCnt THEN k + 1 ELSE k
<1>18. Sorted(e.refs, e.fl_ptr, q, m, l)
  <2>1. l \in 1 .. m + 1 /\ e.fl_ptr = q[l]
    BY <1>3, <1>4, <1>14
  <2>2. \A i \in 1 .. k - 1 : i \in 1 .. m /\ i # k
    BY <1>3, <1>4
  <2>3. \A i \in 1 .. k - 1 : t.refs[q[i]] = BufCnt
    BY <1>2, <1>3, <1>17, <2>2 DEF Sorted
  <2>4. \A i \in k + 1 .. m : i \in k .. m /\ i \in 1 .. m /\ i # k
    BY <1>3, <1>4
  <2>5. \A i \in k + 1 .. m : t.refs[q[i]] < BufCnt
    BY <1>2, <1>3, <1>17, <2>4 DEF Sorted
  <2>6. \A i \in 1 .. l - 1 : e.refs[q[i]] = BufCnt
    <3>1. \A i \in 1 .. l - 1 : i \in 1 .. k - 1 \/ (i = k /\ t.refs[s] >= BufCnt)
      BY <1>3, <1>4
    <3>2. t.refs[s] >= BufCnt => t.refs[s] = BufCnt
      BY <1>1, <1>5, <1>16
    <3>3. QED
      BY <1>3, <1>14, <2>3, <3>1, <3>2
  <2>7. \A i \in l .. m : e.refs[q[i]] < BufCnt
    <3>1. \A i \in l .. m : i \in k + 1 .. m \/ (i = k /\ ~(t.refs[s] >= BufCnt))
      BY <1>3, <1>4
    <3>2. ~(t.refs[s] >= BufCnt) => t.refs[s] < BufCnt
      BY <1>1, <1>5, <1>16
    <3>3. QED
      BY <1>3, <1>14, <2>5, <3>1, <3>2
  <2>8. ASSUME NEW i \in 1 .. m, NEW j \in 1 .. m, i < j, e.refs[q[i]] = 0 PROVE e.refs[q[j]] = 0
    <3>1. i # k /\ d.refs[q[i]] = 0
      <4>1. i # k
        BY <1>3, <1>5, <1>14, <1>16, <2>8
      <4>2. QED
        BY <1>3, <1>14, <1>17, <2>8, <4>1
    <3>2. d.refs[q[j]] = 0
      BY <1>2, <2>8, <3>1 DEF Sorted
    <3>3. j # k
      <4>1. SUFFICES ASSUME j = k PROVE FALSE
        OBVIOUS
      <4>2. i \in 1 .. k - 1
        BY <1>3, <1>4, <2>8, <4>1
      <4>3. d.refs[q[i]] = BufCnt
        BY <1>2, <4>2 DEF Sorted
      <4>4. QED
        BY <1>1, <3>1, <4>3
    <3>4. QED
      BY <1>3, <1>14, <1>17, <3>2, <3>3
  <2> HIDE DEF l
  <2>9. QED
    BY <2>1, <2>6, <2>7, <2>8 DEF Sorted
<1>19. InOrder(e)
  BY <1>2, <1>14, <1>15, <1>18, Zenon DEF InOrder
<1>20. Counted(e, K)
  <2>1. K \in SUBSET Buffers /\ b[1] = s
    BY <1>6, <1>7 DEF K, b
  <2>2. \A x \in K : x[1] \notin e.free
    BY <1>1, <1>14, <2>1 DEF K, Counted
  <2>3. ASSUME NEW x \in Used(e) PROVE Accounted(e.freelist[x], e.refs[x], K, x)
    <3>1. CASE x = s
      <4>1. e.freelist[s] = Tail(d.freelist[s]) /\ e.refs[s] = d.refs[s] + 1
        BY <1>0, <1>1, <1>9, <1>14, Fields
      <4>2. QED
        BY <1>7, <3>1, <4>1
    <3>2. CASE x # s
      <4>1. x \in Slabs /\ Accounted(d.freelist[x], d.refs[x], L, x)
        BY <1>15, NotFrames DEF Used, Counted
      <4>2. e.freelist[x] = d.freelist[x] /\ e.refs[x] = d.refs[x]
        BY <1>0, <1>1, <1>9, <1>14, <3>2, <4>1, Fields
      <4>3. \A y \in (L \cup K) \ (L \cap K) : y[1] = s
        BY <2>1 DEF K
      <4>4. Accounted(d.freelist[x], d.refs[x], K, x)
        BY <3>2, <4>1, <4>3, OthersAccounted, Zenon
      <4>5. QED
        BY <4>2, <4>4
    <3>3. QED
      BY <3>1, <3>2
  <2>4. QED
    BY <2>1, <2>2, <2>3 DEF Counted
<1>21. QED
  BY <1>5, <1>7, <1>14, <1>19, <1>20 DEF Sound, e, K, b


\* d and e are the same but for links and faults.
SameSlabs(d, e) == e.fl_ptr = d.fl_ptr /\ e.refs = d.refs /\ e.freelist = d.freelist /\ e.free = d.free

\* _rm_slab on a slab of the list.
LEMMA RemoveKeeps ==
  ASSUME NEW d, Sound(d), NEW q, NEW m, Linked(d.next, d.prev, Used(d), q, m), NEW j \in 1 .. m
  PROVE  /\ Sound(_rm_slab(d, q[j])) /\ SameSlabs(d, _rm_slab(d, q[j]))
         /\ Linked(_rm_slab(d, q[j]).next, _rm_slab(d, q[j]).prev, Used(d) \ {q[j]}, Removed(q, m, j), m - 1)
<1> DEFINE e == _rm_slab(d, q[j])
           nx == [d.next EXCEPT ![q[j - 1]] = q[j + 1], ![q[j]] = NULL]
           pv == [d.prev EXCEPT ![q[j + 1]] = q[j - 1], ![q[j]] = NULL]
<1>0. d \in Caches /\ d.next \in Links /\ d.prev \in Links /\ Used(d) \cap d.free = {}
  BY Fields DEF Sound, Used
<1>1. /\ d.next[q[j]] = q[j + 1] /\ d.prev[q[j]] = q[j - 1]
      /\ Linked(nx, pv, Used(d) \ {q[j]}, Removed(q, m, j), m - 1)
  BY <1>0, RemoveLinks, Zenon
<1>2. j \in 0 .. m + 1 /\ j - 1 \in 0 .. m + 1 /\ j + 1 \in 0 .. m + 1
  BY DEF Linked
<1>3. /\ q[j - 1] \in Slabs /\ q[j - 1] \notin d.free
      /\ q[j + 1] \in Slabs /\ q[j + 1] \notin d.free
  BY <1>0, <1>2, MembersInUse, Zenon
<1>4. q[j] \in SlabFrames /\ q[j] \notin d.free
  BY DEF Linked, Used
<1>5. Sound(e) /\ Relinked(d, e, nx, pv)
  BY <1>1, <1>3, <1>4, RemoveFields, Zenon
<1> HIDE DEF e, nx, pv
<1>6. QED
  BY <1>1, <1>5, Zenon DEF Relinked, SameSlabs, e

\* _insert_slab of a slab that is in use and not in the list.
LEMMA InsertKeeps ==
  ASSUME NEW d, Sound(d), NEW U, U \cap d.free = {}, NEW q, NEW m, Linked(d.next, d.prev, U, q, m),
         NEW k \in 1 .. m + 1, NEW s \in SlabFrames, s \notin U
  PROVE  /\ Sound(_insert_slab(d, q[k], s)) /\ SameSlabs(d, _insert_slab(d, q[k], s))
         /\ Linked(_insert_slab(d, q[k], s).next, _insert_slab(d, q[k], s).prev, U \cup {s},
                   Inserted(q, m, k, s), m + 1)
<1> DEFINE e == _insert_slab(d, q[k], s)
           nx == [d.next EXCEPT ![q[k - 1]] = s, ![s] = q[k]]
           pv == [d.prev EXCEPT ![s] = q[k - 1], ![q[k]] = s]
<1>0. d \in Caches /\ d.next \in Links /\ d.prev \in Links
  BY Fields DEF Sound
<1>1. d.prev[q[k]] = q[k - 1] /\ Linked(nx, pv, U \cup {s}, Inserted(q, m, k, s), m + 1)
  BY <1>0, InsertLinks, Zenon
<1>2. k \in 0 .. m + 1 /\ k - 1 \in 0 .. m + 1
  BY DEF Linked
<1>3. q[k] \in Slabs /\ q[k] \notin d.free /\ q[k - 1] \in Slabs /\ q[k - 1] \notin d.free
  BY <1>0, <1>2, MembersInUse, Zenon
<1>4. Sound(e) /\ Relinked(d, e, nx, pv)
  BY <1>1, <1>3, InsertFields, Zenon
<1> HIDE DEF e, nx, pv
<1>5. QED
  BY <1>1, <1>4, Zenon DEF Relinked, SameSlabs, e

\* Without the slab at position j, which is not at fl_ptr, the others stay sorted.
LEMMA RemoveSorted ==
  ASSUME NEW refs, NEW fl_ptr, NEW q, NEW m \in Nat, NEW k, Sorted(refs, fl_ptr, q, m, k),
         NEW j \in 1 .. m, j # k, NEW new, \A i \in 1 .. m : i # j => new[q[i]] = refs[q[i]]
  PROVE  Sorted(new, fl_ptr, Removed(q, m, j), m - 1, IF j < k THEN k - 1 ELSE k)
<1> DEFINE r == Removed(q, m, j)
           l == IF j < k THEN k - 1 ELSE k
           At(i) == IF i < j THEN i ELSE i + 1
<1>1. k \in 1 .. m + 1 /\ fl_ptr = q[k] /\ j \in Nat
  BY DEF Sorted
<1>2. l \in 1 .. m /\ (m - 1) + 1 = m /\ r[l] = q[k]
  BY <1>1 DEF Removed
<1>3. ASSUME NEW i \in 1 .. m - 1
      PROVE  /\ At(i) \in 1 .. m /\ At(i) # j /\ r[i] = q[At(i)] /\ new[r[i]] = refs[q[At(i)]]
             /\ (i < l => At(i) \in 1 .. k - 1) /\ (i >= l => At(i) \in k .. m)
  <2>1. At(i) \in 1 .. m /\ At(i) # j /\ r[i] = q[At(i)]
    BY <1>1 DEF Removed
  <2>2. (i < l => At(i) \in 1 .. k - 1) /\ (i >= l => At(i) \in k .. m)
    BY <1>1
  <2> HIDE DEF At, r, l
  <2>3. QED
    BY <2>1, <2>2
<1>4. ASSUME NEW i \in 1 .. l - 1 PROVE new[r[i]] = BufCnt
  <2>1. i \in 1 .. m - 1 /\ i < l
    BY <1>1, <1>2
  <2>2. At(i) \in 1 .. k - 1 /\ new[r[i]] = refs[q[At(i)]]
    BY <1>3, <2>1
  <2> HIDE DEF At, r, l
  <2>3. QED
    BY <2>2 DEF Sorted
<1>5. ASSUME NEW i \in l .. m - 1 PROVE new[r[i]] < BufCnt
  <2>1. i \in 1 .. m - 1 /\ i >= l
    BY <1>1, <1>2
  <2>2. At(i) \in k .. m /\ new[r[i]] = refs[q[At(i)]]
    BY <1>3, <2>1
  <2> HIDE DEF At, r, l
  <2>3. QED
    BY <2>2 DEF Sorted
<1>6. ASSUME NEW i \in 1 .. m - 1, NEW n \in 1 .. m - 1, i < n, new[r[i]] = 0 PROVE new[r[n]] = 0
  <2>1. At(i) \in 1 .. m /\ new[r[i]] = refs[q[At(i)]]
    BY <1>3
  <2>2. At(n) \in 1 .. m /\ new[r[n]] = refs[q[At(n)]]
    BY <1>3
  <2>3. At(i) < At(n)
    BY <1>1, <1>6
  <2> HIDE DEF At, r, l
  <2>4. QED
    BY <1>6, <2>1, <2>2, <2>3 DEF Sorted
<1> HIDE DEF r, l
<1>7. Sorted(new, fl_ptr, r, m - 1, l)
  BY <1>1, <1>2, <1>4, <1>5, <1>6 DEF Sorted
<1>8. QED
  BY <1>7 DEF r, l

\* A full slab that got a buffer back moves to fl_ptr, behind the other full ones.
LEMMA RequeueSorted ==
  ASSUME NEW refs, NEW fl_ptr, NEW q, NEW m \in Nat, NEW k, Sorted(refs, fl_ptr, q, m, k),
         NEW j \in 1 .. m, j < k, NEW new, \A i \in 1 .. m : i # j => new[q[i]] = refs[q[i]],
         new[q[j]] \in Nat, new[q[j]] # 0, new[q[j]] < BufCnt
  PROVE  Sorted(new, q[j], Inserted(Removed(q, m, j), m - 1, k - 1, q[j]), m, k - 1)
<1> DEFINE r == Inserted(Removed(q, m, j), m - 1, k - 1, q[j])
           At(i) == IF i < j THEN i ELSE IF i < k - 1 THEN i + 1 ELSE IF i = k - 1 THEN j ELSE i
<1>0. BufCnt \in Nat \ {0}
  BY SlabAssumption DEF SlabAssumption
<1>1. k \in 1 .. m + 1 /\ fl_ptr = q[k] /\ j \in Nat /\ k - 1 \in 1 .. m + 1
  BY DEF Sorted
<1>2. ASSUME NEW i \in 1 .. m
      PROVE  /\ At(i) \in 1 .. m /\ r[i] = q[At(i)]
             /\ i < k - 1 => At(i) \in 1 .. k - 1 /\ At(i) # j
             /\ i = k - 1 => At(i) = j
             /\ i > k - 1 => At(i) \in k .. m /\ At(i) # j
  BY <1>1 DEF Inserted, Removed
<1>3. r[k - 1] = q[j]
  BY <1>1 DEF Inserted
<1>4. ASSUME NEW i \in 1 .. (k - 1) - 1 PROVE new[r[i]] = BufCnt
  <2>1. i \in 1 .. m /\ i < k - 1
    BY <1>1
  <2>2. At(i) \in 1 .. k - 1 /\ At(i) \in 1 .. m /\ At(i) # j /\ r[i] = q[At(i)]
    BY <1>2, <2>1
  <2> HIDE DEF At, r
  <2>3. QED
    BY <2>2 DEF Sorted
<1>5. ASSUME NEW i \in k - 1 .. m PROVE new[r[i]] < BufCnt
  <2>1. i \in 1 .. m /\ (i = k - 1 \/ i > k - 1)
    BY <1>1, SMTT(30)
  <2>2. i # k - 1 => At(i) \in k .. m /\ At(i) \in 1 .. m /\ At(i) # j /\ r[i] = q[At(i)]
    BY <1>2, <2>1
  <2> HIDE DEF At, r
  <2>3. QED
    BY <1>3, <2>2 DEF Sorted
<1>6. ASSUME NEW i \in 1 .. m, NEW n \in 1 .. m, i < n, new[r[i]] = 0 PROVE new[r[n]] = 0
  <2>1. i > k - 1
    <3>1. CASE i < k - 1
      <4>1. i \in 1 .. (k - 1) - 1
        BY <1>1, <3>1
      <4>2. QED
        BY <1>0, <1>4, <1>6, <4>1
    <3>2. CASE i = k - 1
      BY <1>3, <1>6, <3>2
    <3>3. QED
      BY <1>1, <3>1, <3>2
  <2>2. i \in k .. m /\ n \in k .. m /\ n > k - 1 /\ r[i] = q[i] /\ r[n] = q[n] /\ i # j /\ n # j
    BY <1>1, <1>6, <2>1 DEF Inserted, Removed
  <2> HIDE DEF r
  <2>3. QED
    BY <1>6, <2>2 DEF Sorted
<1> HIDE DEF r
<1>7. Sorted(new, q[j], r, m, k - 1)
  BY <1>1, <1>3, <1>4, <1>5, <1>6, SMTT(30) DEF Sorted
<1>8. QED
  BY <1>7 DEF r


\* What kmem_cache_free does to the counts before it looks at the lists (Returned).
Put(d, b) == [d EXCEPT !.freelist[b[1]] = <<b[2]>> \o @, !.refs[b[1]] = @ - 1]

\* The slab of a buffer in use is in use, and counts one buffer less without it.
LEMMA PutKeeps ==
  ASSUME NEW d, Sound(d), NEW L, Counted(d, L), NEW b \in L
  PROVE  /\ b[1] \in Used(d) /\ b[1] \in SlabFrames /\ d.refs[b[1]] \in 1 .. BufCnt
         /\ Sound(Put(d, b)) /\ Counted(Put(d, b), L \ {b})
         /\ Put(d, b).refs = [d.refs EXCEPT ![b[1]] = d.refs[b[1]] - 1]
         /\ Put(d, b).fl_ptr = d.fl_ptr /\ Put(d, b).free = d.free
         /\ Put(d, b).next = d.next /\ Put(d, b).prev = d.prev
<1> DEFINE s == b[1]
           e == Put(d, b)
           K == L \ {b}
<1>0. d \in Caches /\ d.fault = FALSE
  BY DEF Sound
<1>1. L \in SUBSET Buffers /\ s \in SlabFrames /\ b[2] \in 1 .. BufCnt /\ s \notin d.free
  BY DEF Counted, Buffers
<1>2. s \in Used(d) /\ s \in Slabs
  BY <1>1, NotFrames DEF Used
<1>3. Accounted(d.freelist[s], d.refs[s], L, s)
  BY <1>2 DEF Counted
<1>4. d.refs[s] \in 1 .. BufCnt /\ Accounted(<<b[2]>> \o d.freelist[s], d.refs[s] - 1, K, s)
  BY <1>1, <1>3, ReturnAccounted, Zenon
<1>5. /\ e.freelist = [d.freelist EXCEPT ![s] = <<b[2]>> \o d.freelist[s]]
      /\ e.refs = [d.refs EXCEPT ![s] = d.refs[s] - 1]
      /\ e.fl_ptr = d.fl_ptr /\ e.free = d.free /\ e.next = d.next /\ e.prev = d.prev /\ e.fault = FALSE
  BY <1>0 DEF Caches, Put
<1>6. e \in Caches
  <2>1. <<b[2]>> \o d.freelist[s] \in Seq(1 .. BufCnt) /\ d.refs[s] - 1 \in Nat
    BY <1>4, SlabAssumption DEF Accounted, SlabAssumption
  <2> HIDE DEF e
  <2>2. e.refs \in [Slabs -> Nat] /\ e.freelist \in [Slabs -> Seq(1 .. BufCnt)]
    BY <1>0, <1>2, <1>5, <2>1, Fields
  <2> DEFINE f == [d EXCEPT !.refs = e.refs, !.freelist = e.freelist]
  <2>3. e = f
    BY <1>5, Zenon DEF Put, e
  <2>4. f \in Caches
    BY <1>0, <2>2, Zenon DEF Caches
  <2>5. QED
    BY <2>3, <2>4
<1> HIDE DEF e
<1>7. Counted(e, K)
  <2>1. K \in SUBSET Buffers /\ \A x \in K : x[1] \notin e.free
    BY <1>5 DEF Counted
  <2>2. ASSUME NEW x \in Used(e) PROVE Accounted(e.freelist[x], e.refs[x], K, x)
    <3>1. CASE x = s
      <4>1. e.freelist[s] = <<b[2]>> \o d.freelist[s] /\ e.refs[s] = d.refs[s] - 1
        BY <1>0, <1>2, <1>5, Fields
      <4>2. QED
        BY <1>4, <3>1, <4>1
    <3>2. CASE x # s
      <4>1. x \in Slabs /\ Accounted(d.freelist[x], d.refs[x], L, x)
        BY <1>5, NotFrames DEF Used, Counted
      <4>2. e.freelist[x] = d.freelist[x] /\ e.refs[x] = d.refs[x]
        BY <1>0, <1>2, <1>5, <3>2, <4>1, Fields
      <4>3. \A y \in (L \cup K) \ (L \cap K) : y[1] = s
        OBVIOUS
      <4> HIDE DEF K, s
      <4>4. Accounted(d.freelist[x], d.refs[x], K, x)
        BY <3>2, <4>1, <4>3, OthersAccounted, ZenonT(30)
      <4>5. QED
        BY <4>2, <4>4
    <3>3. QED
      BY <3>1, <3>2
  <2>3. QED
    BY <2>1, <2>2, ZenonT(30) DEF Counted
<1>8. QED
  BY <1>1, <1>2, <1>4, <1>5, <1>6, <1>7 DEF Sound, e

\* kmem_cache_free gives a slab back that has no buffer in use any more.
LEMMA ReleaseKeeps ==
  ASSUME NEW d, Sound(d), InOrder(d), NEW L, Counted(d, L), NEW b \in L, d.refs[b[1]] = 1
  PROVE  /\ Sound(Release(Put(d, b), b[1])) /\ Counted(Release(Put(d, b), b[1]), L \ {b})
         /\ d.fl_ptr # b[1] => InOrder(Release(Put(d, b), b[1]))
<1> DEFINE s == b[1]
           p == Put(d, b)
           r == _rm_slab(p, s)
           e == Release(p, s)
           K == L \ {b}
<1>0. /\ s \in Used(d) /\ s \in SlabFrames /\ Sound(p) /\ Counted(p, K) /\ d.refs[s] \in 1 .. BufCnt
      /\ p.refs = [d.refs EXCEPT ![s] = d.refs[s] - 1] /\ p.fl_ptr = d.fl_ptr
      /\ p.free = d.free /\ p.next = d.next /\ p.prev = d.prev
  BY PutKeeps
<1>1. PICK q, m, k : Linked(d.next, d.prev, Used(d), q, m) /\ Sorted(d.refs, d.fl_ptr, q, m, k)
  BY DEF InOrder
<1>2. PICK j \in 1 .. m : q[j] = s
  BY <1>0, <1>1 DEF Linked
<1>3. d \in Caches /\ p \in Caches /\ d.refs \in [Slabs -> Nat] /\ s \in Slabs /\ m \in Nat
  BY <1>0, <1>1, Fields, NotFrames DEF Sound, Linked
<1>4. Used(p) = Used(d)
  BY <1>0 DEF Used
<1>5. Sound(r) /\ SameSlabs(p, r) /\ Linked(r.next, r.prev, Used(d) \ {s}, Removed(q, m, j), m - 1)
  <2> HIDE DEF p, s
  <2>1. Linked(p.next, p.prev, Used(p), q, m)
    BY <1>0, <1>1, <1>4
  <2>2. QED
    BY <1>0, <1>2, <1>4, <2>1, RemoveKeeps, ZenonT(30)
<1>6. e = [r EXCEPT !.free = @ \cup {s}]
  BY DEF Release
<1> HIDE DEF p, r, e, s, K
<1>7. /\ e \in Caches /\ e.fault = FALSE /\ e.next = r.next /\ e.prev = r.prev /\ e.refs = p.refs
      /\ e.fl_ptr = d.fl_ptr /\ e.freelist = p.freelist /\ e.free = d.free \cup {s}
  <2>1. /\ r \in Caches /\ r.fault = FALSE /\ r.refs = p.refs /\ r.fl_ptr = d.fl_ptr
        /\ r.freelist = p.freelist /\ r.free = d.free
    BY <1>0, <1>5 DEF Sound, SameSlabs
  <2>2. QED
    BY <1>0, <1>6, <2>1, Zenon DEF Caches
<1>8. Used(e) = Used(d) \ {s}
  BY <1>7 DEF Used
<1>9. Counted(e, K)
  <2>1. K \in SUBSET Buffers
    BY <1>0 DEF Counted
  <2>2. Out(K, s) = {}
    <3>1. p.refs[s] = Cardinality(Out(K, s))
      BY <1>0, <1>4 DEF Counted, Accounted
    <3>2. p.refs[s] = 0
      BY <1>0, <1>3 DEF s
    <3>3. QED
      BY <2>1, <3>1, <3>2, OutIsFinite, FS_EmptySet, ZenonT(30)
  <2>3. \A x \in K : x[1] \notin e.free
    BY <1>0, <1>7, <2>2 DEF Counted, Out
  <2>4. \A x \in Used(e) : Accounted(e.freelist[x], e.refs[x], K, x)
    BY <1>0, <1>4, <1>7, <1>8 DEF Counted
  <2>5. QED
    BY <2>1, <2>3, <2>4 DEF Counted
<1>10. ASSUME d.fl_ptr # s PROVE InOrder(e)
  <2>1. j # k
    BY <1>1, <1>2, <1>10 DEF Sorted
  <2>2. \A i \in 1 .. m : i # j => p.refs[q[i]] = d.refs[q[i]]
    <3>1. \A i \in 1 .. m : i # j => q[i] # s /\ q[i] \in Slabs
      <4>1. \A i \in 1 .. m : i \in 0 .. m + 1
        BY <1>3
      <4>2. QED
        BY <1>1, <1>2, <4>1 DEF Linked
    <3>2. QED
      BY <1>0, <1>3, <3>1
  <2>3. Sorted(p.refs, d.fl_ptr, Removed(q, m, j), m - 1, IF j < k THEN k - 1 ELSE k)
    BY <1>1, <1>3, <2>1, <2>2, RemoveSorted, ZenonT(30)
  <2>4. QED
    BY <1>5, <1>7, <1>8, <2>3, ZenonT(30) DEF InOrder
<1>11. QED
  BY <1>7, <1>9, <1>10 DEF Sound, e, p, s, K


\* kmem_cache_free moves a full slab that got a buffer back to fl_ptr.
LEMMA RequeueKeeps ==
  ASSUME NEW d, Sound(d), InOrder(d), NEW L, Counted(d, L), NEW b \in L,
         d.refs[b[1]] = BufCnt, BufCnt # 1
  PROVE  /\ Sound(Requeue(Put(d, b), b[1])) /\ InOrder(Requeue(Put(d, b), b[1]))
         /\ Counted(Requeue(Put(d, b), b[1]), L \ {b})
<1> DEFINE s == b[1]
           p == Put(d, b)
           r == _rm_slab(p, s)
           i == _insert_slab(r, p.fl_ptr, s)
           e == Requeue(p, s)
           K == L \ {b}
<1>0. /\ s \in Used(d) /\ s \in SlabFrames /\ Sound(p) /\ Counted(p, K) /\ d.refs[s] \in 1 .. BufCnt
      /\ p.refs = [d.refs EXCEPT ![s] = d.refs[s] - 1] /\ p.fl_ptr = d.fl_ptr
      /\ p.free = d.free /\ p.next = d.next /\ p.prev = d.prev
  BY PutKeeps
<1>1. PICK q, m, k : Linked(d.next, d.prev, Used(d), q, m) /\ Sorted(d.refs, d.fl_ptr, q, m, k)
  BY DEF InOrder
<1>2. PICK j \in 1 .. m : q[j] = s
  BY <1>0, <1>1 DEF Linked
<1>3. /\ d \in Caches /\ p \in Caches /\ d.refs \in [Slabs -> Nat] /\ s \in Slabs /\ m \in Nat
      /\ BufCnt \in Nat \ {0} /\ k \in 1 .. m + 1 /\ d.fl_ptr = q[k]
  BY <1>0, <1>1, Fields, NotFrames, SlabAssumption, SMTT(30) DEF Sound, Linked, Sorted, SlabAssumption
<1>4. Used(p) = Used(d)
  BY <1>0 DEF Used
<1>5. j < k
  <2>1. SUFFICES ASSUME ~(j < k) PROVE FALSE
    OBVIOUS
  <2>2. j \in k .. m
    BY <1>3, <2>1
  <2>3. d.refs[s] < BufCnt
    BY <1>1, <1>2, <2>2 DEF Sorted
  <2>4. QED
    BY <1>3, <2>3
<1>6. Sound(r) /\ SameSlabs(p, r) /\ Linked(r.next, r.prev, Used(d) \ {s}, Removed(q, m, j), m - 1)
  <2> HIDE DEF p, s
  <2>1. Linked(p.next, p.prev, Used(p), q, m)
    BY <1>0, <1>1, <1>4
  <2>2. QED
    BY <1>0, <1>2, <1>4, <2>1, RemoveKeeps, ZenonT(30)
<1>7. /\ k - 1 \in 1 .. (m - 1) + 1 /\ (m - 1) + 1 = m
      /\ Removed(q, m, j)[k - 1] = p.fl_ptr
  BY <1>0, <1>3, <1>5 DEF Removed
<1>8. (Used(d) \ {s}) \cap r.free = {} /\ s \notin Used(d) \ {s}
  BY <1>0, <1>6, Zenon DEF SameSlabs, Used
<1>9. /\ Sound(i) /\ SameSlabs(r, i)
      /\ Linked(i.next, i.prev, (Used(d) \ {s}) \cup {s}, Inserted(Removed(q, m, j), m - 1, k - 1, s), m)
  <2> HIDE DEF p, r, s
  <2> DEFINE w == Removed(q, m, j)
             x == _insert_slab(r, w[k - 1], s)
  <2>1. /\ Sound(x) /\ SameSlabs(r, x)
        /\ Linked(x.next, x.prev, (Used(d) \ {s}) \cup {s}, Inserted(w, m - 1, k - 1, s), (m - 1) + 1)
    BY <1>0, <1>6, <1>7, <1>8, InsertKeeps, Zenon
  <2>2. x = i
    BY <1>7, Zenon
  <2> HIDE DEF x, i
  <2>3. QED
    BY <1>7, <2>1, <2>2, Zenon
<1>10. e = [i EXCEPT !.fl_ptr = s]
  BY DEF Requeue
<1> HIDE DEF p, r, i, e, s, K
<1>11. /\ e \in Caches /\ e.fault = FALSE /\ e.next = i.next /\ e.prev = i.prev /\ e.refs = p.refs
       /\ e.fl_ptr = s /\ e.freelist = p.freelist /\ e.free = p.free
  <2>1. i \in Caches /\ i.fault = FALSE /\ i.refs = p.refs /\ i.freelist = p.freelist /\ i.free = p.free
    BY <1>6, <1>9, Zenon DEF Sound, SameSlabs
  <2>2. QED
    BY <1>3, <1>10, <2>1, Zenon DEF Caches
<1>12. Used(e) = (Used(d) \ {s}) \cup {s} /\ Used(e) = Used(p)
  BY <1>0, <1>11 DEF Used
<1>13. Counted(e, K)
  BY <1>0, <1>11, <1>12 DEF Counted
<1>14. Sorted(e.refs, e.fl_ptr, Inserted(Removed(q, m, j), m - 1, k - 1, s), m, k - 1)
  <2>1. \A n \in 1 .. m : n # j => p.refs[q[n]] = d.refs[q[n]]
    <3>1. \A n \in 1 .. m : n # j => q[n] # s /\ q[n] \in Slabs
      <4>1. \A n \in 1 .. m : n \in 0 .. m + 1
        BY <1>3
      <4>2. QED
        BY <1>1, <1>2, <4>1 DEF Linked
    <3>2. QED
      BY <1>0, <1>3, <3>1
  <2>2. p.refs[q[j]] \in Nat /\ p.refs[q[j]] # 0 /\ p.refs[q[j]] < BufCnt
    BY <1>0, <1>2, <1>3 DEF s
  <2>3. Sorted(p.refs, q[j], Inserted(Removed(q, m, j), m - 1, k - 1, q[j]), m, k - 1)
    BY <1>1, <1>3, <1>5, <2>1, <2>2, RequeueSorted, Zenon
  <2>4. QED
    BY <1>2, <1>11, <2>3, ZenonT(30)
<1>15. InOrder(e)
  BY <1>9, <1>11, <1>12, <1>14, Zenon DEF InOrder
<1>16. QED
  BY <1>11, <1>13, <1>15 DEF Sound, e, p, s, K

\* A slab that keeps its place when it gets a buffer back.
LEMMA StayKeeps ==
  ASSUME NEW d, Sound(d), InOrder(d), NEW L, Counted(d, L), NEW b \in L,
         d.refs[b[1]] # 1, d.refs[b[1]] # BufCnt
  PROVE  Sound(Put(d, b)) /\ InOrder(Put(d, b)) /\ Counted(Put(d, b), L \ {b})
<1> DEFINE s == b[1]
           p == Put(d, b)
           K == L \ {b}
<1>0. /\ s \in Used(d) /\ s \in SlabFrames /\ Sound(p) /\ Counted(p, K) /\ d.refs[s] \in 1 .. BufCnt
      /\ p.refs = [d.refs EXCEPT ![s] = d.refs[s] - 1] /\ p.fl_ptr = d.fl_ptr
      /\ p.free = d.free /\ p.next = d.next /\ p.prev = d.prev
  BY PutKeeps
<1>1. PICK q, m, k : Linked(d.next, d.prev, Used(d), q, m) /\ Sorted(d.refs, d.fl_ptr, q, m, k)
  BY DEF InOrder
<1>2. PICK j \in 1 .. m : q[j] = s
  BY <1>0, <1>1 DEF Linked
<1>3. /\ d.refs \in [Slabs -> Nat] /\ s \in Slabs /\ m \in Nat
      /\ BufCnt \in Nat \ {0} /\ k \in 1 .. m + 1 /\ d.fl_ptr = q[k]
  BY <1>0, <1>1, Fields, NotFrames, SlabAssumption DEF Sound, Linked, Sorted, SlabAssumption
<1>4. Used(p) = Used(d)
  BY <1>0 DEF Used
<1> HIDE DEF p, s
<1>5. p.refs[s] = d.refs[s] - 1 /\ p.refs[s] < BufCnt /\ p.refs[s] # 0 /\ d.refs[s] # 0
  BY <1>0, <1>3 DEF s
<1>6. ASSUME NEW i \in 1 .. m, i # j PROVE p.refs[q[i]] = d.refs[q[i]]
  <2>1. q[i] # s /\ q[i] \in Slabs
    <3>1. i \in 0 .. m + 1 /\ j \in 0 .. m + 1
      BY <1>3
    <3>2. QED
      BY <1>1, <1>2, <1>6, <3>1 DEF Linked
  <2>2. QED
    BY <1>0, <1>3, <2>1
<1>7. Sorted(p.refs, p.fl_ptr, q, m, k)
  <2>1. ASSUME NEW i \in 1 .. k - 1 PROVE p.refs[q[i]] = BufCnt
    <3>1. i \in 1 .. m /\ d.refs[q[i]] = BufCnt
      BY <1>1, <1>3 DEF Sorted
    <3>2. i # j
      BY <1>0, <1>2, <1>3, <3>1 DEF s
    <3>3. QED
      BY <1>6, <3>1, <3>2
  <2>2. ASSUME NEW i \in k .. m PROVE p.refs[q[i]] < BufCnt
    <3>1. i \in 1 .. m /\ d.refs[q[i]] < BufCnt
      BY <1>1, <1>3 DEF Sorted
    <3>2. QED
      BY <1>2, <1>5, <1>6, <3>1
  <2>3. ASSUME NEW i \in 1 .. m, NEW n \in 1 .. m, i < n, p.refs[q[i]] = 0 PROVE p.refs[q[n]] = 0
    <3>1. i # j /\ d.refs[q[i]] = 0
      BY <1>2, <1>5, <1>6, <2>3, ZenonT(30)
    <3>2. d.refs[q[n]] = 0
      BY <1>1, <2>3, <3>1 DEF Sorted
    <3>3. n # j
      BY <1>2, <1>5, <3>2
    <3>4. QED
      BY <1>6, <3>2, <3>3
  <2>4. QED
    BY <1>0, <1>3, <2>1, <2>2, <2>3 DEF Sorted
<1>8. InOrder(p)
  BY <1>0, <1>1, <1>4, <1>7, Zenon DEF InOrder
<1>9. QED
  BY <1>0, <1>8 DEF p

-----------------------------------------------------------------------------
==============================================================================
