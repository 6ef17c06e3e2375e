---------------------------- MODULE PagerTables -----------------------------
(***************************************************************************)
(* What a write to a page table does to the tables and to translations, for*)
(* every table size and memory: lemmas about the operators of Pager.       *)
(*                                                                         *)
(* The frames that tables refer to as tables, level by level, are disjoint,*)
(* each has one entry that refers to it, and none is free (Tree).  So      *)
(* linking a zeroed table changes the translation of no page, and an entry *)
(* is on the path of the pages of its block and of no other.               *)
(***************************************************************************)
EXTENDS Pager, WellFoundedInduction, TLAPS

Entries == [present : BOOLEAN, ps : BOOLEAN, frame : Frames, uc : BOOLEAN]

TypeOK ==
  /\ mem \in [Frames -> [Indices -> Entries]]
  /\ pool \in SUBSET (Frames \ {0}) /\ lost \in SUBSET {"start", "kernel", "direct", "running"}
  /\ pml4 \in Frames /\ cr3 \in BOOLEAN /\ pc \in {"start", "kernel", "direct", "running"}
  /\ p \in Nat /\ call \in Calls \cup {NoCall} /\ level \in 1..4 /\ table \in Frames

\* An entry that refers to a table, and one that maps a block.
IsLink(e) == e.present /\ ~e.ps
IsBlock(e) == e.present /\ e.ps

\* The tables that the tables in T refer to, in memory m.
Kids(m, T) == {x \in Frames : \E t \in T : \E n \in Indices : IsLink(m[t][n]) /\ m[t][n].frame = x}

T3 == Kids(mem, {pml4})
T2 == Kids(mem, T3)
T1 == Kids(mem, T2)

OneParent(m, T) ==
  \A t, u \in T : \A k, n \in Indices :
    IsLink(m[t][k]) /\ IsLink(m[u][n]) /\ m[t][k].frame = m[u][n].frame => t = u /\ k = n

NoBlocks(m, T) == \A t \in T : \A n \in Indices : ~IsBlock(m[t][n])

Apart(S, T) == S \cap T = {}

Tree ==
  /\ pml4 \notin T3 /\ pml4 \notin T2 /\ pml4 \notin T1 /\ pml4 \notin pool
  /\ Apart(T3, T2) /\ Apart(T3, T1) /\ Apart(T2, T1)
  /\ Apart(T3, pool) /\ Apart(T2, pool) /\ Apart(T1, pool)
  /\ OneParent(mem, {pml4}) /\ OneParent(mem, T3) /\ OneParent(mem, T2)
  /\ NoBlocks(mem, {pml4}) /\ NoBlocks(mem, T3)

\* The entries on the path of page v.
E4(v) == mem[pml4][Index(v, 4)]
E3(v) == mem[E4(v).frame][Index(v, 3)]
E2(v) == mem[E3(v).frame][Index(v, 2)]
E1(v) == mem[E2(v).frame][Index(v, 1)]

-----------------------------------------------------------------------------
(***************************************************************************)
(* Numbers                                                                 *)
(***************************************************************************)
\* The sizes are numbers.
LEMMA Sizes == /\ E \in Nat /\ E > 1 /\ MaxFrame \in Nat
               /\ E * E \in Nat /\ E * E * E \in Nat /\ E * E * E * E \in Nat
  BY PagerAssumption DEF PagerAssumption

\* Quotient and remainder by the table size.
LEMMA DivMod ==
  ASSUME NEW v \in Nat
  PROVE  v \div E \in Nat /\ v % E \in Indices /\ v = (v \div E) * E + (v % E)
  BY Sizes DEF Indices

\* A quotient is below the bound of its dividend's multiple.
LEMMA DivBound ==
  ASSUME NEW v \in Nat, NEW b \in Nat, v < b * E
  PROVE  v \div E < b
<1> DEFINE q == v \div E
<1>1. q \in Nat /\ q * E <= v
  BY DivMod, Sizes DEF Indices
<1> HIDE DEF q
<1>2. ASSUME q >= b PROVE FALSE
  <2>1. q * E >= b * E
    BY <1>1, <1>2, Sizes
  <2>2. QED
    BY <1>1, <2>1, Sizes
<1>3. QED
  BY <1>1, <1>2 DEF q

\* The indices of a page are its digits to the base of the table size.
LEMMA IndexIs ==
  ASSUME NEW v \in VirtualPages
  PROVE  /\ v \in Nat
         /\ Index(v, 1) = v % E /\ Index(v, 2) = (v \div E) % E
         /\ Index(v, 3) = ((v \div E) \div E) % E
         /\ Index(v, 4) = ((v \div E) \div E) \div E
         /\ \A l \in 1..4 : Index(v, l) \in Indices
<1> DEFINE v1 == v \div E
           v2 == v1 \div E
           v3 == v2 \div E
<1>1. v \in Nat /\ v < E * E * E * E
  BY Sizes DEF VirtualPages
<1>2. v1 \in Nat /\ v1 < E * E * E
  BY <1>1, DivMod, DivBound, Sizes
<1> HIDE DEF v1
<1>3. v2 \in Nat /\ v2 < E * E
  BY <1>2, DivMod, DivBound, Sizes, Zenon
<1> HIDE DEF v2
<1>4. v3 \in Nat /\ v3 < E
  BY <1>3, DivMod, DivBound, Sizes
<1> HIDE DEF v3
<1>5. v3 % E = v3
  BY <1>4, Sizes
<1>6. v % E \in Indices /\ v1 % E \in Indices /\ v2 % E \in Indices /\ v3 \in Indices
  BY <1>1, <1>2, <1>3, <1>4, DivMod, Sizes DEF Indices
<1>7. Index(v, 1) = v % E /\ Index(v, 2) = v1 % E /\ Index(v, 3) = v2 % E /\ Index(v, 4) = v3 % E
  BY DEF Index, v1, v2, v3
<1>8. \A l \in 1..4 : Index(v, l) \in Indices
  BY <1>5, <1>6, <1>7
<1>9. QED
  BY <1>1, <1>5, <1>7, <1>8 DEF v1, v2, v3

\* Pages are in the same block when they share the upper three indices, and equal when
\* they share all four.
LEMMA SameBlock ==
  ASSUME NEW v \in VirtualPages, NEW w \in VirtualPages
  PROVE  /\ Index(v, 2) = Index(w, 2) /\ Index(v, 3) = Index(w, 3) /\ Index(v, 4) = Index(w, 4)
              <=> v \div E = w \div E
         /\ v \div E = w \div E /\ Index(v, 1) = Index(w, 1) => v = w
<1>1. v \in Nat /\ w \in Nat
  BY IndexIs
<1> DEFINE a == v \div E
           b == w \div E
<1>2. /\ a \in Nat /\ a = (a \div E) * E + (a % E) /\ b \in Nat /\ b = (b \div E) * E + (b % E)
      /\ v = a * E + (v % E) /\ w = b * E + (w % E)
  BY <1>1, DivMod
<1>3. a \div E \in Nat /\ b \div E \in Nat
  BY <1>2, DivMod
<1>4. /\ a \div E = ((a \div E) \div E) * E + ((a \div E) % E)
      /\ b \div E = ((b \div E) \div E) * E + ((b \div E) % E)
  BY <1>3, DivMod
<1> HIDE DEF a, b
<1>5. /\ Index(v, 2) = a % E /\ Index(v, 3) = (a \div E) % E /\ Index(v, 4) = (a \div E) \div E
      /\ Index(w, 2) = b % E /\ Index(w, 3) = (b \div E) % E /\ Index(w, 4) = (b \div E) \div E
      /\ Index(v, 1) = v % E /\ Index(w, 1) = w % E
  BY IndexIs DEF a, b
<1>6. Index(v, 2) = Index(w, 2) /\ Index(v, 3) = Index(w, 3) /\ Index(v, 4) = Index(w, 4) => a = b
  <2> SUFFICES ASSUME a % E = b % E, (a \div E) % E = (b \div E) % E,
                      (a \div E) \div E = (b \div E) \div E
               PROVE  a = b
    BY <1>5
  <2>1. a \div E = b \div E
    BY <1>4
  <2>2. QED
    BY <1>2, <2>1
<1>7. a = b => Index(v, 2) = Index(w, 2) /\ Index(v, 3) = Index(w, 3) /\ Index(v, 4) = Index(w, 4)
  BY <1>5
<1>8. a = b /\ Index(v, 1) = Index(w, 1) => v = w
  BY <1>2, <1>5
<1>9. QED
  BY <1>6, <1>7, <1>8 DEF a, b

\* Every non-empty set of natural numbers has a least element.
LEMMA LeastNumber ==
  ASSUME NEW S \in SUBSET Nat, S # {}
  PROVE  \E x \in S : \A y \in S : x <= y
<1>1. PICK x \in S : \A y \in S : ~(<<y, x>> \in OpToRel(<, Nat))
  BY NatLessThanWellFounded, WFMin, Zenon
<1>2. ASSUME NEW y \in S PROVE x <= y
  <2>1. ~(y < x)
    BY <1>1, Zenon DEF OpToRel
  <2>2. QED
    BY <2>1
<1>3. QED
  BY <1>2

\* The first free frame is free.
LEMMA MinIsFree ==
  ASSUME NEW S \in SUBSET Frames, S # {}
  PROVE  Min(S) \in S
<1>1. S \in SUBSET Nat
  BY Sizes DEF Frames
<1>2. PICK x \in S : \A y \in S : x <= y
  BY <1>1, LeastNumber
<1>3. QED
  BY <1>2, Zenon DEF Min

\* The end of memory is the end of a region.
LEMMA MaxIsEnd == Max(MemEnds) \in MemEnds /\ Max(MemEnds) \in Nat
<1> DEFINE S == {MaxFrame - x : x \in MemEnds}
<1>1. MemEnds \subseteq 0..MaxFrame /\ MemEnds # {}
  BY PagerAssumption, DirectMapAssumption DEF PagerAssumption, DirectMapAssumption, Frames
<1>2. S \in SUBSET Nat /\ S # {}
  <2>1. \A x \in MemEnds : MaxFrame - x \in Nat
    BY <1>1, Sizes
  <2>2. QED
    BY <1>1, <2>1, Zenon
<1>3. PICK s \in S : \A y \in S : s <= y
  <2> HIDE DEF S
  <2>1. QED
    BY <1>2, LeastNumber
<1>4. PICK x \in MemEnds : s = MaxFrame - x
  BY <1>3
<1>5. \A y \in MemEnds : x >= y
  <2> TAKE y \in MemEnds
  <2>1. MaxFrame - x <= MaxFrame - y
    BY <1>3, <1>4
  <2>2. QED
    BY <1>1, <2>1, Sizes
<1>6. Max(MemEnds) \in MemEnds
  BY <1>4, <1>5, Zenon DEF Max
<1> HIDE DEF S
<1>7. Max(MemEnds) \in 0..MaxFrame
  BY <1>1, <1>6, Zenon
<1>8. QED
  BY <1>6, <1>7, Sizes

\* top is a multiple of a block, not below the highest end, and all of it is mapped.
LEMMA TopIs ==
  /\ top \in Nat /\ top % E = 0 /\ Max(MemEnds) <= top
  /\ top <= MaxFrame + 1 /\ Offset + top <= E * E * E * E /\ Offset \in Nat /\ Offset % E = 0
<1> DEFINE h == Max(MemEnds)
           a == h + E - 1
           q == a \div E
<1>1. h \in Nat
  BY MaxIsEnd
<1> HIDE DEF h
<1>2. a \in Nat /\ a = h + E - 1
  BY <1>1, Sizes
<1> HIDE DEF a
<1>3. q \in Nat /\ a = q * E + (a % E) /\ a % E \in 0..(E - 1)
  BY <1>2, DivMod, Sizes, Zenon DEF Indices
<1> HIDE DEF q
<1>4. q * E \in Nat /\ h <= q * E
  BY <1>1, <1>2, <1>3, Sizes
<1>5. (q * E) % E = 0
  BY <1>3, Sizes
<1>6. top = q * E
  BY DEF top, q, a, h
<1>7. QED
  BY <1>4, <1>5, <1>6, PagerAssumption, DirectMapAssumption, Sizes
  DEF h, PagerAssumption, DirectMapAssumption, VirtualPages
-----------------------------------------------------------------------------
(***************************************************************************)
(* Tables                                                                  *)
(***************************************************************************)
\* What the entries that map_page writes are.
LEMMA EntryFacts ==
  /\ Absent \in Entries /\ ~IsLink(Absent) /\ ~IsBlock(Absent)
  /\ \A f \in Frames, u \in BOOLEAN :
       /\ Present(f, FALSE, u) \in Entries /\ IsLink(Present(f, FALSE, u))
       /\ ~IsBlock(Present(f, FALSE, u)) /\ Present(f, FALSE, u).frame = f
       /\ Present(f, TRUE, u) \in Entries /\ ~IsLink(Present(f, TRUE, u))
       /\ IsBlock(Present(f, TRUE, u))
<1>1. 0 \in Frames
  BY Sizes DEF Frames
<1>2. QED
  BY <1>1 DEF Absent, Present, IsLink, IsBlock, Entries

\* Tables that are the same refer to the same tables.
LEMMA KidsSame ==
  ASSUME NEW m1, NEW m2, NEW T, \A t \in T : m2[t] = m1[t]
  PROVE  Kids(m2, T) = Kids(m1, T)
  BY DEF Kids

\* A zeroed table refers to no table.
LEMMA KidsOfNew ==
  ASSUME NEW m, NEW T, NEW f, \A n \in Indices : ~IsLink(m[f][n])
  PROVE  Kids(m, T \cup {f}) = Kids(m, T)
  BY DEF Kids

\* One more link, at an entry that was not one.
LinkAdded(m1, m2, T, t, n, f) ==
  /\ t \in T /\ n \in Indices /\ f \in Frames
  /\ ~IsLink(m1[t][n]) /\ IsLink(m2[t][n]) /\ m2[t][n].frame = f
  /\ \A k \in Indices \ {n} : m2[t][k] = m1[t][k]
  /\ \A u \in T \ {t} : m2[u] = m1[u]

\* A new link adds the table it refers to.
LEMMA KidsLinked ==
  ASSUME NEW m1, NEW m2, NEW T, NEW t, NEW n, NEW f, LinkAdded(m1, m2, T, t, n, f)
  PROVE  Kids(m2, T) = Kids(m1, T) \cup {f}
<1> USE DEF LinkAdded
<1>1. ASSUME NEW x \in Kids(m2, T) PROVE x \in Kids(m1, T) \cup {f}
  BY <1>1 DEF Kids
<1>2. ASSUME NEW x \in Kids(m1, T) PROVE x \in Kids(m2, T)
  BY <1>2 DEF Kids
<1>3. f \in Kids(m2, T)
  BY DEF Kids
<1>4. QED
  BY <1>1, <1>2, <1>3

\* Tables that are the same keep one parent each.
LEMMA ParentSame ==
  ASSUME NEW m1, NEW m2, NEW T, \A t \in T : m2[t] = m1[t], OneParent(m1, T)
  PROVE  OneParent(m2, T)
  BY DEF OneParent

\* A zeroed table is the parent of none.
LEMMA ParentOfNew ==
  ASSUME NEW m, NEW T, NEW f, \A n \in Indices : ~IsLink(m[f][n]), OneParent(m, T)
  PROVE  OneParent(m, T \cup {f})
  BY DEF OneParent

\* A new link to a table that had no parent gives it one.
LEMMA ParentLinked ==
  ASSUME NEW m1, NEW m2, NEW T, NEW t, NEW n, NEW f, LinkAdded(m1, m2, T, t, n, f),
         f \notin Kids(m1, T), OneParent(m1, T)
  PROVE  OneParent(m2, T)
<1> USE DEF LinkAdded
<1>1. SUFFICES ASSUME NEW u \in T, NEW w \in T, NEW k \in Indices, NEW l \in Indices,
                      IsLink(m2[u][k]), IsLink(m2[w][l]), m2[u][k].frame = m2[w][l].frame
               PROVE  u = w /\ k = l
  BY DEF OneParent
<1>2. ASSUME NEW x \in T, NEW j \in Indices, IsLink(m2[x][j]), ~(x = t /\ j = n)
      PROVE  m2[x][j] = m1[x][j] /\ m2[x][j].frame # f
  <2>1. m2[x][j] = m1[x][j]
    BY <1>2
  <2>2. QED
    BY <1>2, <2>1 DEF Kids
<1>3. CASE u = t /\ k = n
  BY <1>1, <1>2, <1>3
<1>4. CASE w = t /\ l = n
  BY <1>1, <1>2, <1>4
<1>5. CASE ~(u = t /\ k = n) /\ ~(w = t /\ l = n)
  <2>1. m2[u][k] = m1[u][k] /\ m2[w][l] = m1[w][l]
    BY <1>1, <1>2, <1>5
  <2>2. QED
    BY <1>1, <2>1 DEF OneParent
<1>6. QED
  BY <1>3, <1>4, <1>5

\* Memory m2 is m1 with frame f zeroed and linked at entry n of table t.
LinkedAt(m1, m2, t, n, f) ==
  /\ \A u \in Frames \ {t, f} : m2[u] = m1[u]
  /\ \A k \in Indices : m2[f][k] = Absent
  /\ \A k \in Indices \ {n} : m2[t][k] = m1[t][k]
  /\ m2[t][n] = Present(f, FALSE, FALSE)

\* Memory m2 is m1 with entry n of table t written.
Wrote(m1, m2, t, n, e) ==
  /\ \A u \in Frames \ {t} : m2[u] = m1[u]
  /\ \A k \in Indices \ {n} : m2[t][k] = m1[t][k]
  /\ m2[t][n] = e

\* Tables are frames.
LEMMA KidsAreFrames == T3 \subseteq Frames /\ T2 \subseteq Frames /\ T1 \subseteq Frames
  BY DEF T3, T2, T1, Kids

\* Linking a zeroed free frame keeps the tables a tree.
LEMMA TreeLinked ==
  ASSUME TypeOK, Tree, NEW t \in {pml4} \cup T3 \cup T2, NEW n \in Indices,
         ~mem[t][n].present, NEW f \in pool,
         LinkedAt(mem, mem', t, n, f),
         pool' = pool \ {f}, pml4' = pml4
  PROVE  /\ Tree' /\ f # t
         /\ f \in {pml4'} \cup T3' \cup T2' \cup T1'
         /\ T3' \cup T2' \cup T1' = T3 \cup T2 \cup T1 \cup {f}
<1>1. /\ pml4 \in Frames /\ t \in Frames /\ f \in Frames
      /\ f # t /\ f # pml4 /\ f \notin T3 /\ f \notin T2 /\ f \notin T1
  BY KidsAreFrames DEF TypeOK, Tree, Apart
<1>2. /\ \A u \in Frames \ {t, f} : mem'[u] = mem[u]
      /\ \A k \in Indices : mem'[f][k] = Absent
      /\ \A k \in Indices \ {n} : mem'[t][k] = mem[t][k]
      /\ mem'[t][n] = Present(f, FALSE, FALSE)
  BY <1>1 DEF LinkedAt
<1>3. /\ ~IsLink(mem[t][n]) /\ IsLink(mem'[t][n]) /\ mem'[t][n].frame = f
      /\ \A k \in Indices : ~IsLink(mem'[f][k]) /\ ~IsBlock(mem'[f][k])
      /\ ~IsBlock(mem'[t][n])
  <2>1. ~IsLink(mem[t][n])
    BY DEF IsLink
  <2>2. QED
    BY <1>1, <1>2, <2>1, EntryFacts, Zenon
<1>4. ASSUME NEW T, T \subseteq Frames, t \notin T, f \notin T
      PROVE  Kids(mem', T) = Kids(mem, T) /\ (OneParent(mem, T) => OneParent(mem', T))
  <2>1. \A u \in T : mem'[u] = mem[u]
    BY <1>2, <1>4
  <2>2. QED
    BY <2>1, KidsSame, ParentSame
<1>5. ASSUME NEW T, T \subseteq Frames, t \in T, f \notin T, f \notin Kids(mem, T)
      PROVE  /\ Kids(mem', T) = Kids(mem, T) \cup {f}
             /\ OneParent(mem, T) => OneParent(mem', T)
  <2>1. \A u \in T \ {t} : mem'[u] = mem[u]
    BY <1>2, <1>5
  <2>2. LinkAdded(mem, mem', T, t, n, f)
    BY <1>1, <1>2, <1>3, <1>5, <2>1, Zenon DEF LinkAdded
  <2>3. QED
    BY <1>5, <2>2, KidsLinked, ParentLinked
<1>6. ASSUME NEW T
      PROVE  /\ Kids(mem', T \cup {f}) = Kids(mem', T)
             /\ OneParent(mem', T) => OneParent(mem', T \cup {f})
  BY <1>3, KidsOfNew, ParentOfNew
<1>7. ASSUME NEW T, T \subseteq Frames, NoBlocks(mem, T)
      PROVE  NoBlocks(mem', T) /\ NoBlocks(mem', T \cup {f})
  <2>1. ASSUME NEW u \in T \cup {f}, NEW k \in Indices PROVE ~IsBlock(mem'[u][k])
    <3>1. CASE u = f
      BY <1>3, <3>1
    <3>2. CASE u = t /\ u # f /\ k = n
      BY <1>3, <3>2
    <3>3. CASE u # f /\ ~(u = t /\ k = n)
      BY <1>2, <1>7, <2>1, <3>3 DEF NoBlocks
    <3>4. QED
      BY <3>1, <3>2, <3>3
  <2>2. QED
    BY <2>1 DEF NoBlocks
<1>8. {pml4} \subseteq Frames /\ T3 \subseteq Frames /\ T2 \subseteq Frames
  BY <1>1, KidsAreFrames
<1>9. /\ T3 = Kids(mem, {pml4}) /\ T2 = Kids(mem, T3) /\ T1 = Kids(mem, T2)
      /\ T3' = Kids(mem', {pml4}) /\ T2' = Kids(mem', T3') /\ T1' = Kids(mem', T2')
  BY DEF T3, T2, T1
<1>10. CASE t = pml4
  <2>1. t \notin T3 /\ t \notin T2
    BY <1>10 DEF Tree
  <2>2. T3' = T3 \cup {f} /\ OneParent(mem', {pml4})
    BY <1>1, <1>5, <1>8, <1>9, <1>10 DEF Tree
  <2>3. T2' = T2 /\ OneParent(mem', T3')
    <3>1. Kids(mem', T3) = T2 /\ OneParent(mem', T3)
      BY <1>1, <1>4, <1>8, <1>9, <2>1 DEF Tree
    <3>2. QED
      BY <1>6, <1>9, <2>2, <3>1, SMTT(30)
  <2>4. T1' = T1 /\ OneParent(mem', T2')
    BY <1>1, <1>4, <1>8, <1>9, <2>1, <2>3 DEF Tree
  <2>5. NoBlocks(mem', {pml4}) /\ NoBlocks(mem', T3')
    BY <1>7, <1>8, <2>2, Zenon DEF Tree
  <2>6. QED
    BY <1>1, <2>2, <2>3, <2>4, <2>5 DEF Tree, Apart
<1>11. CASE t \in T3
  <2>1. t # pml4 /\ t \notin T2
    BY <1>11 DEF Tree, Apart
  <2>2. T3' = T3 /\ OneParent(mem', {pml4})
    BY <1>1, <1>4, <1>8, <1>9, <2>1 DEF Tree
  <2>3. T2' = T2 \cup {f} /\ OneParent(mem', T3')
    BY <1>1, <1>5, <1>8, <1>9, <1>11, <2>2, Zenon DEF Tree
  <2>4. T1' = T1 /\ OneParent(mem', T2')
    <3>1. Kids(mem', T2) = T1 /\ OneParent(mem', T2)
      BY <1>1, <1>4, <1>8, <1>9, <2>1 DEF Tree
    <3>2. T1' = Kids(mem', T2 \cup {f}) /\ OneParent(mem', T2 \cup {f})
      BY <1>6, <1>9, <2>3, <3>1
    <3>3. QED
      BY <1>6, <2>3, <3>1, <3>2
  <2>5. NoBlocks(mem', {pml4}) /\ NoBlocks(mem', T3')
    BY <1>7, <1>8, <2>2, Zenon DEF Tree
  <2>6. QED
    BY <1>1, <2>2, <2>3, <2>4, <2>5 DEF Tree, Apart
<1>12. CASE t \in T2
  <2>1. t # pml4 /\ t \notin T3
    BY <1>12 DEF Tree, Apart
  <2>2. T3' = T3 /\ OneParent(mem', {pml4})
    BY <1>1, <1>4, <1>8, <1>9, <2>1 DEF Tree
  <2>3. T2' = T2 /\ OneParent(mem', T3')
    BY <1>1, <1>4, <1>8, <1>9, <2>1, <2>2 DEF Tree
  <2>4. T1' = T1 \cup {f} /\ OneParent(mem', T2')
    BY <1>1, <1>5, <1>8, <1>9, <1>12, <2>3 DEF Tree
  <2>5. NoBlocks(mem', {pml4}) /\ NoBlocks(mem', T3')
    BY <1>7, <1>8, <2>2, Zenon DEF Tree
  <2>6. QED
    BY <1>1, <2>2, <2>3, <2>4, <2>5 DEF Tree, Apart
<1>13. QED
  BY <1>10, <1>11, <1>12

\* Writing a page's entry, in a table of the last level, keeps the tables a tree.
LEMMA TreeLeaf ==
  ASSUME TypeOK, Tree, NEW t \in T1, NEW n \in Indices, NEW e,
         Wrote(mem, mem', t, n, e), pool' = pool, pml4' = pml4
  PROVE  Tree' /\ T3' = T3 /\ T2' = T2 /\ T1' = T1
<1>1. t \in Frames /\ t # pml4 /\ t \notin T3 /\ t \notin T2
  BY KidsAreFrames DEF Tree, Apart
<1>2. \A u \in Frames \ {t} : mem'[u] = mem[u]
  BY <1>1 DEF Wrote
<1>3. ASSUME NEW T, T \subseteq Frames, t \notin T
      PROVE  /\ Kids(mem', T) = Kids(mem, T) /\ (OneParent(mem, T) => OneParent(mem', T))
             /\ NoBlocks(mem, T) => NoBlocks(mem', T)
  <2>1. \A u \in T : mem'[u] = mem[u]
    BY <1>2, <1>3
  <2>2. QED
    BY <2>1, KidsSame, ParentSame DEF NoBlocks
<1>4. {pml4} \subseteq Frames /\ T3 \subseteq Frames /\ T2 \subseteq Frames
  BY KidsAreFrames DEF TypeOK
<1>5. /\ T3 = Kids(mem, {pml4}) /\ T2 = Kids(mem, T3) /\ T1 = Kids(mem, T2)
      /\ T3' = Kids(mem', {pml4}) /\ T2' = Kids(mem', T3') /\ T1' = Kids(mem', T2')
  BY DEF T3, T2, T1
<1>6. T3' = T3 /\ OneParent(mem', {pml4}) /\ NoBlocks(mem', {pml4})
  BY <1>1, <1>3, <1>4, <1>5 DEF Tree
<1>7. T2' = T2 /\ OneParent(mem', T3') /\ NoBlocks(mem', T3')
  BY <1>1, <1>3, <1>4, <1>5, <1>6 DEF Tree
<1>8. T1' = T1 /\ OneParent(mem', T2')
  BY <1>1, <1>3, <1>4, <1>5, <1>7 DEF Tree
<1>9. QED
  BY <1>6, <1>7, <1>8 DEF Tree, Apart

\* So does writing a block's entry, in a table of the level above; a table that was
\* linked there is no longer one.
LEMMA TreeBlock ==
  ASSUME TypeOK, Tree, NEW t \in T2, NEW n \in Indices, NEW e, ~IsLink(e),
         Wrote(mem, mem', t, n, e), pool' = pool, pml4' = pml4
  PROVE  Tree' /\ T3' = T3 /\ T2' = T2 /\ T1' \subseteq T1
<1>1. t \in Frames /\ t # pml4 /\ t \notin T3
  BY KidsAreFrames DEF Tree, Apart
<1>2. /\ \A u \in Frames \ {t} : mem'[u] = mem[u]
      /\ \A k \in Indices \ {n} : mem'[t][k] = mem[t][k]
      /\ mem'[t][n] = e
  BY <1>1 DEF Wrote
<1>3. ASSUME NEW T, T \subseteq Frames, t \notin T
      PROVE  /\ Kids(mem', T) = Kids(mem, T) /\ (OneParent(mem, T) => OneParent(mem', T))
             /\ NoBlocks(mem, T) => NoBlocks(mem', T)
  <2>1. \A u \in T : mem'[u] = mem[u]
    BY <1>2, <1>3
  <2>2. QED
    BY <2>1, KidsSame, ParentSame DEF NoBlocks
<1>4. {pml4} \subseteq Frames /\ T3 \subseteq Frames /\ T2 \subseteq Frames
  BY KidsAreFrames DEF TypeOK
<1>5. /\ T3 = Kids(mem, {pml4}) /\ T2 = Kids(mem, T3) /\ T1 = Kids(mem, T2)
      /\ T3' = Kids(mem', {pml4}) /\ T2' = Kids(mem', T3') /\ T1' = Kids(mem', T2')
  BY DEF T3, T2, T1
<1>6. T3' = T3 /\ OneParent(mem', {pml4}) /\ NoBlocks(mem', {pml4})
  BY <1>1, <1>3, <1>4, <1>5 DEF Tree
<1>7. T2' = T2 /\ OneParent(mem', T3') /\ NoBlocks(mem', T3')
  BY <1>1, <1>3, <1>4, <1>5, <1>6 DEF Tree
<1>8. \A u \in T2, k \in Indices : IsLink(mem'[u][k]) => mem'[u][k] = mem[u][k]
  BY <1>2, <1>4
<1>9. Kids(mem', T2) \subseteq Kids(mem, T2)
  BY <1>8 DEF Kids
<1>10. OneParent(mem', T2)
  <2>1. OneParent(mem, T2)
    BY DEF Tree
  <2>2. QED
    BY <1>8, <2>1 DEF OneParent
<1>11. T1' \subseteq T1 /\ OneParent(mem', T2')
  BY <1>5, <1>7, <1>9, <1>10
<1>12. QED
  BY <1>6, <1>7, <1>11 DEF Tree, Apart
-----------------------------------------------------------------------------
(***************************************************************************)
(* Paths                                                                   *)
(***************************************************************************)
\* The path of a page goes through the tables of each level in turn.
LEMMA PathIn ==
  ASSUME TypeOK, Tree, NEW v \in VirtualPages
  PROVE  /\ E4(v).present => IsLink(E4(v)) /\ E4(v).frame \in T3
         /\ IsLink(E4(v)) /\ E3(v).present => IsLink(E3(v)) /\ E3(v).frame \in T2
         /\ IsLink(E4(v)) /\ IsLink(E3(v)) /\ IsLink(E2(v)) => E2(v).frame \in T1
<1>1. \A l \in 1..4 : Index(v, l) \in Indices
  BY IndexIs
<1>2. pml4 \in Frames /\ \A u \in Frames, k \in Indices : mem[u][k] \in Entries
  BY DEF TypeOK
<1>3. \A e \in Entries : e.frame \in Frames /\ (e.present => IsLink(e) \/ IsBlock(e))
                         /\ (IsLink(e) => e.present)
  BY DEF Entries, IsLink, IsBlock
<1>4. ASSUME E4(v).present PROVE IsLink(E4(v)) /\ E4(v).frame \in T3
  <2>1. IsLink(E4(v))
    BY <1>1, <1>2, <1>3, <1>4 DEF E4, Tree, NoBlocks
  <2>2. QED
    BY <1>1, <1>2, <1>3, <2>1 DEF E4, T3, Kids
<1>5. ASSUME IsLink(E4(v)), E3(v).present PROVE IsLink(E3(v)) /\ E3(v).frame \in T2
  <2>1. E4(v).frame \in T3 /\ E4(v).frame \in Frames
    BY <1>1, <1>2, <1>3, <1>4, <1>5 DEF E4
  <2>2. IsLink(E3(v))
    BY <1>1, <1>2, <1>3, <1>5, <2>1 DEF E3, Tree, NoBlocks
  <2>3. QED
    BY <1>1, <1>2, <1>3, <2>1, <2>2 DEF E3, T2, Kids
<1>6. ASSUME IsLink(E4(v)), IsLink(E3(v)), IsLink(E2(v)) PROVE E2(v).frame \in T1
  <2>1. E4(v).frame \in Frames
    BY <1>1, <1>2, <1>3 DEF E4
  <2>2. E3(v).present
    BY <1>1, <1>2, <1>3, <1>6, <2>1 DEF E3
  <2>3. E3(v).frame \in T2 /\ E3(v).frame \in Frames
    BY <1>5, <1>6, <2>2, KidsAreFrames
  <2>4. QED
    BY <1>1, <1>2, <1>3, <1>6, <2>3 DEF E2, T1, Kids
<1>7. QED
  BY <1>4, <1>5, <1>6

\* Paths that reach the same table share their indices.
LEMMA SamePath ==
  ASSUME TypeOK, Tree, NEW v \in VirtualPages, NEW w \in VirtualPages,
         IsLink(E4(v)), IsLink(E3(v)), IsLink(E4(w)), IsLink(E3(w))
  PROVE  /\ E3(v).frame = E3(w).frame => Index(v, 4) = Index(w, 4) /\ Index(v, 3) = Index(w, 3)
         /\ IsLink(E2(v)) /\ IsLink(E2(w)) /\ E2(v).frame = E2(w).frame => v \div E = w \div E
<1>1. \A l \in 1..4 : Index(v, l) \in Indices /\ Index(w, l) \in Indices
  BY IndexIs
<1>2. E4(v).present /\ E3(v).present /\ E4(w).present /\ E3(w).present
  BY DEF IsLink
<1>3. /\ E4(v).frame \in T3 /\ E4(w).frame \in T3
      /\ E3(v).frame \in T2 /\ E3(w).frame \in T2
  BY <1>2, PathIn, Zenon
<1>4. ASSUME E3(v).frame = E3(w).frame PROVE Index(v, 4) = Index(w, 4) /\ Index(v, 3) = Index(w, 3)
  <2>1. Index(v, 3) = Index(w, 3) /\ E4(v).frame = E4(w).frame
    BY <1>1, <1>3, <1>4 DEF Tree, OneParent, E3
  <2>2. QED
    BY <1>1, <2>1, SMTT(30) DEF Tree, OneParent, E4
<1>5. ASSUME IsLink(E2(v)), IsLink(E2(w)), E2(v).frame = E2(w).frame PROVE v \div E = w \div E
  <2>1. Index(v, 2) = Index(w, 2) /\ E3(v).frame = E3(w).frame
    BY <1>1, <1>3, <1>5 DEF Tree, OneParent, E2
  <2>2. QED
    BY <1>4, <2>1, SameBlock, Zenon
<1>6. QED
  BY <1>4, <1>5

\* The path of a page after a step.
LEMMA PathPrimed ==
  ASSUME NEW v
  PROVE  /\ E4(v)' = mem'[pml4'][Index(v, 4)] /\ E3(v)' = mem'[E4(v)'.frame][Index(v, 3)]
         /\ E2(v)' = mem'[E3(v)'.frame][Index(v, 2)] /\ E1(v)' = mem'[E2(v)'.frame][Index(v, 1)]
  BY DEF E4, E3, E2, E1

\* What the processor makes of the entries on a path.
LEMMA TranslateIs ==
  ASSUME NEW v
  PROVE  /\ ~E4(v).present \/ ~E3(v).present \/ ~E2(v).present => Translate(v) = Unmapped
         /\ IsLink(E2(v)) /\ ~E1(v).present => Translate(v) = Unmapped
         /\ E4(v).present /\ E3(v).present /\ IsBlock(E2(v)) =>
              Translate(v) = Mapped(E2(v).frame + Index(v, 1), TRUE, E2(v).uc)
         /\ E4(v).present /\ E3(v).present /\ IsLink(E2(v)) /\ E1(v).present =>
              Translate(v) = Mapped(E1(v).frame, FALSE, E1(v).uc)
  BY ZenonT(30) DEF Translate, E4, E3, E2, E1, IsLink, IsBlock

\* What the processor makes of a path after a step.
LEMMA TranslatePrimed ==
  ASSUME NEW v
  PROVE  /\ ~E4(v)'.present \/ ~E3(v)'.present \/ ~E2(v)'.present => Translate(v)' = Unmapped
         /\ IsLink(E2(v)') /\ ~E1(v)'.present => Translate(v)' = Unmapped
         /\ E4(v)'.present /\ E3(v)'.present /\ IsBlock(E2(v)') =>
              Translate(v)' = Mapped(E2(v)'.frame + Index(v, 1), TRUE, E2(v)'.uc)
         /\ E4(v)'.present /\ E3(v)'.present /\ IsLink(E2(v)') /\ E1(v)'.present =>
              Translate(v)' = Mapped(E1(v)'.frame, FALSE, E1(v)'.uc)
  BY Zenon DEF Translate, E4, E3, E2, E1, IsLink, IsBlock

\* Translate, from the entries on the path.
Walked(e4, e3, e2, e1, i) ==
  IF ~e4.present \/ ~e3.present \/ ~e2.present THEN Unmapped
  ELSE IF e2.ps THEN Mapped(e2.frame + i, TRUE, e2.uc)
  ELSE IF ~e1.present THEN Unmapped
  ELSE Mapped(e1.frame, FALSE, e1.uc)

\* Equal paths, equal translations.
LEMMA TranslateSame ==
  ASSUME NEW v, E4(v)' = E4(v), E3(v)' = E3(v), E2(v)' = E2(v), IsLink(E2(v)) => E1(v)' = E1(v)
  PROVE  Translate(v)' = Translate(v)
<1>1. Translate(v) = Walked(E4(v), E3(v), E2(v), E1(v), Index(v, 1))
  BY Zenon DEF Translate, E4, E3, E2, E1, Walked
<1>2. Translate(v)' = Walked(E4(v)', E3(v)', E2(v)', E1(v)', Index(v, 1))
  BY Zenon DEF Translate, E4, E3, E2, E1, Walked
<1>3. \A e4, e3, e2, x, y, i : ~IsLink(e2) => Walked(e4, e3, e2, x, i) = Walked(e4, e3, e2, y, i)
  BY ZenonT(30) DEF Walked, IsLink
<1>4. CASE IsLink(E2(v))
  BY <1>1, <1>2, <1>4, Zenon
<1>5. CASE ~IsLink(E2(v))
  <2>1. Walked(E4(v), E3(v), E2(v), E1(v)', Index(v, 1)) = Walked(E4(v), E3(v), E2(v), E1(v), Index(v, 1))
    BY <1>3, <1>5
  <2>2. QED
    BY <1>1, <1>2, <2>1
<1>6. QED
  BY <1>4, <1>5, Zenon

\* A present entry is a link or a block, and holds what was written.
LEMMA PresentIs ==
  /\ \A e : (IsLink(e) => e.present) /\ (IsBlock(e) => e.present)
  /\ \A e \in Entries : e.present => IsLink(e) \/ IsBlock(e)
  /\ ~Absent.present
  /\ \A f \in Frames, u \in BOOLEAN : /\ Present(f, FALSE, u).present /\ Present(f, TRUE, u).present
                                      /\ Present(f, FALSE, u).frame = f
                                      /\ Present(f, TRUE, u).frame = f
                                      /\ Present(f, FALSE, u).uc = u
                                      /\ Present(f, TRUE, u).uc = u
  BY DEF IsLink, IsBlock, Absent, Present, Entries

\* Linking a zeroed table changes no translation, and no entry on a path so far as it
\* leads.
LEMMA LinkKeepsPaths ==
  ASSUME TypeOK, Tree, NEW t \in {pml4} \cup T3 \cup T2, NEW n \in Indices,
         ~mem[t][n].present, NEW f \in pool, LinkedAt(mem, mem', t, n, f), pml4' = pml4,
         NEW v \in VirtualPages
  PROVE  /\ Translate(v)' = Translate(v)
         /\ IsLink(E4(v)) => E4(v)' = E4(v)
         /\ IsLink(E4(v)) /\ IsLink(E3(v)) => E3(v)' = E3(v)
         /\ IsLink(E4(v)) /\ IsLink(E3(v)) /\ IsLink(E2(v)) => E2(v)' = E2(v)
<1>1. /\ pml4 \in Frames /\ t \in Frames /\ f \in Frames
      /\ f # t /\ f # pml4 /\ f \notin T3 /\ f \notin T2 /\ f \notin T1
  BY KidsAreFrames DEF TypeOK, Tree, Apart
<1>2. /\ \A u \in Frames \ {t, f} : mem'[u] = mem[u]
      /\ \A k \in Indices : mem'[f][k] = Absent
      /\ \A k \in Indices \ {n} : mem'[t][k] = mem[t][k]
      /\ mem'[t][n] = Present(f, FALSE, FALSE)
  BY <1>1 DEF LinkedAt
<1>3. \A u \in {pml4} \cup T3 \cup T2 \cup T1, k \in Indices :
         mem[u][k].present => mem'[u][k] = mem[u][k]
  BY <1>1, <1>2, KidsAreFrames
<1>4. \A u \in {pml4} \cup T3 \cup T2 \cup T1, k \in Indices :
         ~(u = t /\ k = n) => mem'[u][k] = mem[u][k]
  BY <1>1, <1>2, KidsAreFrames
<1>5. /\ Index(v, 1) \in Indices /\ Index(v, 2) \in Indices
      /\ Index(v, 3) \in Indices /\ Index(v, 4) \in Indices
  BY IndexIs
<1>e4. E4(v) = mem[pml4][Index(v, 4)] /\ E4(v)' = mem'[pml4][Index(v, 4)]
  BY PathPrimed, ZenonT(30) DEF E4
<1>e3. E3(v) = mem[E4(v).frame][Index(v, 3)] /\ E3(v)' = mem'[E4(v)'.frame][Index(v, 3)]
  BY PathPrimed, ZenonT(30) DEF E3
<1>e2. E2(v) = mem[E3(v).frame][Index(v, 2)] /\ E2(v)' = mem'[E3(v)'.frame][Index(v, 2)]
  BY PathPrimed, ZenonT(30) DEF E2
<1>e1. E1(v) = mem[E2(v).frame][Index(v, 1)] /\ E1(v)' = mem'[E2(v)'.frame][Index(v, 1)]
  BY PathPrimed, ZenonT(30) DEF E1
<1>6. /\ mem'[t][n].present /\ mem'[t][n].frame = f /\ IsLink(mem'[t][n])
      /\ \A k \in Indices : ~mem'[f][k].present
  <2>1. \A k \in Indices : ~mem'[f][k].present
    BY <1>2, PresentIs, Zenon
  <2>2. QED
    BY <1>1, <1>2, <2>1, PresentIs, EntryFacts, ZenonT(30)
<1>7. CASE ~E4(v).present
  <2>1. Translate(v) = Unmapped /\ ~IsLink(E4(v))
    BY <1>7, TranslateIs, PresentIs, Zenon
  <2>2. ~E4(v)'.present \/ ~E3(v)'.present
    <3>1. CASE pml4 = t /\ Index(v, 4) = n
      BY <1>5, <1>6, <1>e4, <1>e3, <3>1
    <3>2. CASE ~(pml4 = t /\ Index(v, 4) = n)
      BY <1>4, <1>5, <1>7, <1>e4, <3>2
    <3>3. QED
      BY <3>1, <3>2
  <2>3. QED
    BY <2>1, <2>2, TranslatePrimed, Zenon
<1>8. CASE E4(v).present
  <2>1. E4(v)' = E4(v) /\ IsLink(E4(v)) /\ E4(v).frame \in T3
    <3>1. IsLink(E4(v)) /\ E4(v).frame \in T3
      BY <1>8, PathIn
    <3>2. QED
      BY <1>3, <1>5, <1>8, <1>e4, <3>1
  <2>2. CASE ~E3(v).present
    <3>1. Translate(v) = Unmapped /\ ~IsLink(E3(v))
      BY <2>2, TranslateIs, PresentIs, Zenon
    <3>2. ~E3(v)'.present \/ ~E2(v)'.present
      <4>1. CASE E4(v).frame = t /\ Index(v, 3) = n
        BY <1>5, <1>6, <1>e3, <1>e2, <2>1, <4>1
      <4>2. CASE ~(E4(v).frame = t /\ Index(v, 3) = n)
        <5>1. mem'[E4(v).frame][Index(v, 3)] = mem[E4(v).frame][Index(v, 3)]
          BY <1>4, <1>5, <2>1, <4>2, ZenonT(30)
        <5>2. QED
          BY <1>e3, <2>1, <2>2, <5>1, Zenon
      <4>3. QED
        BY <4>1, <4>2, Zenon
    <3>3. QED
      BY <2>1, <3>1, <3>2, TranslatePrimed, Zenon
  <2>3. CASE E3(v).present
    <3>1. E3(v)' = E3(v) /\ IsLink(E3(v)) /\ E3(v).frame \in T2
      <4>1. IsLink(E3(v)) /\ E3(v).frame \in T2
        BY <2>1, <2>3, PathIn, Zenon
      <4>2. QED
        BY <1>3, <1>5, <1>e3, <2>1, <2>3, <4>1
    <3>2. CASE ~E2(v).present
      <4>1. Translate(v) = Unmapped /\ ~IsLink(E2(v))
        BY <3>2, TranslateIs, PresentIs, Zenon
      <4>2. Translate(v)' = Unmapped
        <5>1. CASE E3(v).frame = t /\ Index(v, 2) = n
          <6>1. E2(v)' = mem'[t][n] /\ E1(v)' = mem'[E2(v)'.frame][Index(v, 1)]
            BY <1>e2, <1>e1, <3>1, <5>1, Zenon
          <6>2. IsLink(E2(v)') /\ ~E1(v)'.present
            BY <1>5, <1>6, <6>1
          <6>3. QED
            BY <6>2, TranslatePrimed, Zenon
        <5>2. CASE ~(E3(v).frame = t /\ Index(v, 2) = n)
          <6>1. E2(v)' = E2(v)
            BY <1>4, <1>5, <1>e2, <3>1, <5>2
          <6>2. QED
            BY <3>2, <6>1, TranslatePrimed, Zenon
        <5>3. QED
          BY <5>1, <5>2
      <4>3. QED
        BY <2>1, <3>1, <4>1, <4>2
    <3>3. CASE E2(v).present
      <4>1. E2(v)' = E2(v)
        BY <1>3, <1>5, <1>e2, <3>1, <3>3
      <4>2. CASE IsLink(E2(v))
        <5>1. E2(v).frame \in T1
          BY <2>1, <3>1, <4>2, PathIn
        <5>2. E2(v).frame # t
          BY <5>1 DEF Tree, Apart
        <5>3. E1(v)' = E1(v)
          BY <1>4, <1>5, <1>e1, <4>1, <5>1, <5>2, SMTT(30)
        <5>4. QED
          BY <2>1, <3>1, <4>1, <5>3, TranslateSame, Zenon
      <4>3. CASE ~IsLink(E2(v))
        BY <2>1, <3>1, <4>1, <4>3, TranslateSame
      <4>4. QED
        BY <4>2, <4>3, Zenon
    <3>4. QED
      BY <3>2, <3>3, Zenon
  <2>4. QED
    BY <2>2, <2>3
<1>9. QED
  BY <1>7, <1>8

\* The entry map_page writes at the end of the path of page c maps that page and leaves
\* every other as it was.
LEMMA LeafMapsPage ==
  ASSUME TypeOK, Tree, NEW c \in VirtualPages, IsLink(E4(c)), IsLink(E3(c)), IsLink(E2(c)),
         NEW a \in Frames, NEW u \in BOOLEAN,
         Wrote(mem, mem', E2(c).frame, Index(c, 1), Present(a, FALSE, u)), pml4' = pml4,
         NEW v \in VirtualPages
  PROVE  Translate(v)' = IF v = c THEN Mapped(a, FALSE, u) ELSE Translate(v)
<1> DEFINE t == E2(c).frame
           n == Index(c, 1)
<1>0. E4(c).present /\ E3(c).present
  BY PresentIs, Zenon
<1>1. t \in T1 /\ t \in Frames /\ t # pml4 /\ t \notin T3 /\ t \notin T2 /\ n \in Indices
  <2>1. t \in T1
    BY <1>0, PathIn, SMTT(30)
  <2>2. n \in Indices
    BY IndexIs
  <2>3. QED
    BY <2>1, <2>2, KidsAreFrames DEF Tree, Apart
<1>2. /\ \A x \in Frames \ {t} : mem'[x] = mem[x]
      /\ \A k \in Indices \ {n} : mem'[t][k] = mem[t][k]
      /\ mem'[t][n] = Present(a, FALSE, u)
  BY DEF Wrote
<1> HIDE DEF t, n
<1>3. \A x \in {pml4} \cup T3 \cup T2 : mem'[x] = mem[x]
  BY <1>1, <1>2, KidsAreFrames DEF TypeOK
<1>4. Index(v, 1) \in Indices /\ Index(v, 2) \in Indices
  BY IndexIs, SMTT(30)
<1>e4. E4(v) = mem[pml4][Index(v, 4)] /\ E4(v)' = mem'[pml4][Index(v, 4)]
  BY PathPrimed, ZenonT(30) DEF E4
<1>e3. E3(v) = mem[E4(v).frame][Index(v, 3)] /\ E3(v)' = mem'[E4(v)'.frame][Index(v, 3)]
  BY PathPrimed, ZenonT(30) DEF E3
<1>e2. E2(v) = mem[E3(v).frame][Index(v, 2)] /\ E2(v)' = mem'[E3(v)'.frame][Index(v, 2)]
  BY PathPrimed, ZenonT(30) DEF E2
<1>e1. E1(v) = mem[E2(v).frame][Index(v, 1)] /\ E1(v)' = mem'[E2(v)'.frame][Index(v, 1)]
  BY PathPrimed, ZenonT(30) DEF E1
<1>5. E4(v)' = E4(v)
  BY <1>3, <1>e4
<1>6. CASE ~E4(v).present
  <2>1. Translate(v) = Unmapped /\ Translate(v)' = Unmapped
    BY <1>5, <1>6, TranslateIs, TranslatePrimed, Zenon
  <2>2. v # c
    BY <1>6, PresentIs
  <2>3. QED
    BY <2>1, <2>2
<1>7. CASE E4(v).present
  <2>1. IsLink(E4(v)) /\ E4(v).frame \in T3
    BY <1>7, PathIn, Zenon
  <2>2. E3(v)' = E3(v)
    BY <1>3, <1>5, <1>e3, <2>1
  <2>3. CASE ~E3(v).present
    <3>1. Translate(v) = Unmapped /\ Translate(v)' = Unmapped
      BY <2>2, <2>3, TranslateIs, TranslatePrimed, Zenon
    <3>2. v # c
      BY <2>3, PresentIs
    <3>3. QED
      BY <3>1, <3>2
  <2>4. CASE E3(v).present
    <3>1. IsLink(E3(v)) /\ E3(v).frame \in T2
      BY <2>1, <2>4, PathIn, Zenon
    <3>2. E2(v)' = E2(v)
      BY <1>3, <1>e2, <2>2, <3>1
    <3>3. CASE ~IsLink(E2(v))
      <4>1. Translate(v)' = Translate(v)
        BY <1>5, <2>2, <3>2, <3>3, TranslateSame
      <4>2. v # c
        BY <3>3
      <4>3. QED
        BY <4>1, <4>2
    <3>4. CASE IsLink(E2(v)) /\ v # c
      <4>1. E2(v).frame \in T1
        BY <2>1, <3>1, <3>4, PathIn
      <4>2. E2(v).frame = t => Index(v, 1) # n
        <5>1. E2(v).frame = t => v \div E = c \div E
          BY <2>1, <3>1, <3>4, SamePath, Zenon DEF t
        <5>2. QED
          BY <3>4, <5>1, SameBlock DEF n
      <4>3. E1(v)' = mem'[E2(v).frame][Index(v, 1)] /\ E1(v) = mem[E2(v).frame][Index(v, 1)]
        BY <1>e1, <3>2
      <4>4. E1(v)' = E1(v)
        <5>1. E2(v).frame \in Frames /\ Index(v, 1) \in Indices
          BY <1>4, <4>1, KidsAreFrames, Zenon
        <5>2. CASE E2(v).frame = t
          BY <1>2, <4>2, <4>3, <5>1, <5>2, Zenon
        <5>3. CASE E2(v).frame # t
          BY <1>2, <4>3, <5>1, <5>3
        <5>4. QED
          BY <5>2, <5>3
      <4>5. QED
        BY <1>5, <2>2, <3>2, <3>4, <4>4, TranslateSame, Zenon
    <3>5. CASE v = c
      <4>1. E1(v)' = Present(a, FALSE, u)
        <5>1. E2(v)'.frame = t /\ Index(v, 1) = n
          BY <3>2, <3>5 DEF t, n
        <5>2. QED
          BY <1>2, <1>e1, <5>1, Zenon
      <4>2. E4(v)'.present /\ E3(v)'.present /\ IsLink(E2(v)')
        BY <1>5, <1>7, <2>2, <2>4, <3>2, <3>5, Zenon
      <4>3. E1(v)'.present /\ E1(v)'.frame = a /\ E1(v)'.uc = u
        BY <4>1 DEF Present
      <4>4. QED
        BY <3>5, <4>2, <4>3, TranslatePrimed, Zenon
    <3>6. QED
      BY <3>3, <3>4, <3>5, Zenon
  <2>5. QED
    BY <2>3, <2>4, ZenonT(30)
<1>8. QED
  BY <1>6, <1>7, Zenon

\* The entry map_page_2m writes maps the pages of its block and no other.
LEMMA EntryMapsBlock ==
  ASSUME TypeOK, Tree, NEW c \in VirtualPages, IsLink(E4(c)), IsLink(E3(c)),
         NEW a \in Frames, NEW u \in BOOLEAN,
         Wrote(mem, mem', E3(c).frame, Index(c, 2), Present(a, TRUE, u)), pml4' = pml4,
         NEW v \in VirtualPages
  PROVE  Translate(v)' = IF v \div E = c \div E THEN Mapped(a + (v % E), TRUE, u) ELSE Translate(v)
<1> DEFINE t == E3(c).frame
           n == Index(c, 2)
<1>0. E4(c).present /\ E3(c).present
  BY PresentIs, Zenon
<1>1. t \in T2 /\ t \in Frames /\ t # pml4 /\ t \notin T3 /\ t \notin T1 /\ n \in Indices
  <2>1. t \in T2
    BY <1>0, PathIn
  <2>2. n \in Indices
    BY IndexIs, SMTT(30)
  <2>3. QED
    BY <2>1, <2>2, KidsAreFrames DEF Tree, Apart
<1>2. /\ \A x \in Frames \ {t} : mem'[x] = mem[x]
      /\ \A k \in Indices \ {n} : mem'[t][k] = mem[t][k]
      /\ mem'[t][n] = Present(a, TRUE, u)
  BY DEF Wrote
<1> HIDE DEF t, n
<1>3. \A x \in {pml4} \cup T3 \cup T1 : mem'[x] = mem[x]
  BY <1>1, <1>2, KidsAreFrames DEF TypeOK
<1>4. Index(v, 1) \in Indices /\ Index(v, 2) \in Indices
  BY IndexIs, SMTT(30)
<1>e4. E4(v) = mem[pml4][Index(v, 4)] /\ E4(v)' = mem'[pml4][Index(v, 4)]
  BY PathPrimed, ZenonT(30) DEF E4
<1>e3. E3(v) = mem[E4(v).frame][Index(v, 3)] /\ E3(v)' = mem'[E4(v)'.frame][Index(v, 3)]
  BY PathPrimed, ZenonT(30) DEF E3
<1>e2. E2(v) = mem[E3(v).frame][Index(v, 2)] /\ E2(v)' = mem'[E3(v)'.frame][Index(v, 2)]
  BY PathPrimed, ZenonT(30) DEF E2
<1>e1. E1(v) = mem[E2(v).frame][Index(v, 1)] /\ E1(v)' = mem'[E2(v)'.frame][Index(v, 1)]
  BY PathPrimed, ZenonT(30) DEF E1
<1>5. E4(v)' = E4(v)
  BY <1>3, <1>e4, SMTT(30)
<1>6. v \div E = c \div E => E4(v) = E4(c) /\ E3(v) = E3(c) /\ Index(v, 2) = n
  BY SameBlock, Zenon DEF E4, E3, n
<1>7. CASE ~E4(v).present
  <2>1. Translate(v) = Unmapped /\ Translate(v)' = Unmapped
    BY <1>5, <1>7, TranslateIs, TranslatePrimed, Zenon
  <2>2. v \div E # c \div E
    BY <1>0, <1>6, <1>7
  <2>3. QED
    BY <2>1, <2>2
<1>8. CASE E4(v).present
  <2>1. IsLink(E4(v)) /\ E4(v).frame \in T3
    BY <1>8, PathIn, Zenon
  <2>2. E3(v)' = E3(v)
    BY <1>3, <1>5, <1>e3, <2>1
  <2>3. CASE ~E3(v).present
    <3>1. Translate(v) = Unmapped /\ Translate(v)' = Unmapped
      BY <2>2, <2>3, TranslateIs, TranslatePrimed, Zenon
    <3>2. v \div E # c \div E
      BY <1>0, <1>6, <2>3
    <3>3. QED
      BY <3>1, <3>2
  <2>4. CASE E3(v).present
    <3>1. IsLink(E3(v)) /\ E3(v).frame \in T2
      BY <2>1, <2>4, PathIn, Zenon
    <3>2. E2(v)' = mem'[E3(v).frame][Index(v, 2)] /\ E2(v) = mem[E3(v).frame][Index(v, 2)]
      BY <1>e2, <2>2
    <3>3. CASE v \div E # c \div E
      <4>1. E3(v).frame = t => Index(v, 2) # n
        BY <2>1, <3>1, <3>3, SamePath, SameBlock DEF t, n
      <4>2. E2(v)' = E2(v)
        <5>1. E3(v).frame \in Frames /\ Index(v, 2) \in Indices
          BY <1>4, <3>1, KidsAreFrames, Zenon
        <5>2. CASE E3(v).frame = t
          BY <1>2, <3>2, <4>1, <5>1, <5>2, Zenon
        <5>3. CASE E3(v).frame # t
          BY <1>2, <3>2, <5>1, <5>3, Zenon
        <5>4. QED
          BY <5>2, <5>3
      <4>3. IsLink(E2(v)) => E1(v)' = E1(v)
        <5>1. IsLink(E2(v)) => E2(v).frame \in T1
          BY <2>1, <3>1, PathIn
        <5>2. QED
          BY <1>3, <1>e1, <4>2, <5>1
      <4>4. QED
        BY <1>5, <2>2, <3>3, <4>2, <4>3, TranslateSame, Zenon
    <3>4. CASE v \div E = c \div E
      <4>1. E2(v)' = Present(a, TRUE, u)
        BY <1>2, <1>6, <3>2, <3>4, Zenon DEF t
      <4>2. E4(v)'.present /\ E3(v)'.present
        BY <1>5, <1>8, <2>2, <2>4, Zenon
      <4>3. IsBlock(E2(v)') /\ E2(v)'.frame = a /\ E2(v)'.uc = u
        <5>1. IsBlock(E2(v)')
          BY <4>1, EntryFacts, Zenon
        <5>2. QED
          BY <4>1, <5>1 DEF Present
      <4>4. Index(v, 1) = v % E
        BY IndexIs
      <4>5. QED
        BY <3>4, <4>2, <4>3, <4>4, TranslatePrimed, Zenon
    <3>5. QED
      BY <3>3, <3>4, Zenon
  <2>5. QED
    BY <2>3, <2>4, ZenonT(30)
<1>9. QED
  BY <1>7, <1>8, Zenon
=============================================================================
