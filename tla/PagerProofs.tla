---------------------------- MODULE PagerProofs -----------------------------
(***************************************************************************)
(* Proofs about Pager for every table size, memory, kernel and set of later*)
(* map_page calls outside the kernel's pages and the direct map.           *)
(*                                                                         *)
(* Every call in progress is one that paging_init or a later caller made   *)
(* (CallKind), it has walked down the path of its page (OnPath), and it    *)
(* meets no block on the way, since blocks are mapped only in the direct   *)
(* map (BlocksAreDirect) and no other call maps a page there.  While       *)
(* kalloc_frame finds frames, the tables are a tree besides (IInv).  So a  *)
(* step that links a zeroed table changes the translation of no page, and  *)
(* the entry a call writes last is on the path of the pages it asked for   *)
(* and of no other.                                                        *)
(***************************************************************************)
EXTENDS PagerTables

\* The call in progress has walked down the path of its page.
OnPath ==
  call # NoCall =>
    /\ call.huge => level # 1
    /\ level = 4 => table = pml4
    /\ \A c \in VirtualPages : call.vaddr = c =>
         /\ level # 4 => IsLink(E4(c)) /\ (level = 3 => table = E4(c).frame)
         /\ level \in {1, 2} => IsLink(E3(c)) /\ (level = 2 => table = E3(c).frame)
         /\ level = 1 => IsLink(E2(c)) /\ table = E2(c).frame

\* Blocks are mapped only in the direct map.
BlocksAreDirect ==
  \A v \in VirtualPages, f \in Nat, u \in BOOLEAN : Translate(v) = Mapped(f, TRUE, u) => v \in DirectMap

\* Which call is in progress.
KernelCall(v) == [vaddr |-> v, paddr |-> KernelFrame(v), uc |-> FALSE, huge |-> FALSE]
DirectCall(f) == [vaddr |-> f + Offset, paddr |-> f, uc |-> FALSE, huge |-> TRUE]

CallKind ==
  /\ pc = "start" => call = NoCall
  /\ pc = "kernel" => /\ p >= KernelStart
                      /\ call # NoCall => \E v \in KernelStart..(KernelEnd - 1) :
                                            p = v + 1 /\ call = KernelCall(v)
  /\ pc = "direct" => /\ p % E = 0 /\ p <= top
                      /\ call # NoCall => \E f \in 0..(top - 1) :
                                            f % E = 0 /\ p = f + E /\ call = DirectCall(f)
  /\ pc = "running" /\ call # NoCall => call \in LateCalls
  /\ cr3 => pc = "running"

-----------------------------------------------------------------------------
(***************************************************************************)
(* Types and calls                                                         *)
(***************************************************************************)
\* Multiples of the table size are a table size apart.
LEMMA Multiples ==
  ASSUME NEW a \in Nat, NEW b \in Nat, a % E = 0, b % E = 0
  PROVE  (a < b => a + E <= b) /\ (a + E) % E = 0 /\ (a + b) % E = 0
<1> DEFINE x == a \div E
           y == b \div E
<1>1. x \in Nat /\ y \in Nat /\ a = x * E /\ b = y * E
  <2>1. x \in Nat /\ y \in Nat /\ a = x * E + (a % E) /\ b = y * E + (b % E)
    BY DivMod
  <2> HIDE DEF x, y
  <2>2. QED
    BY <2>1, Sizes
<1> HIDE DEF x, y
<1>2. ASSUME a < b PROVE a + E <= b
  <2>1. ASSUME x >= y PROVE FALSE
    <3>1. x * E >= y * E
      BY <1>1, <2>1, Sizes
    <3>2. QED
      BY <1>1, <1>2, <3>1, Sizes
  <2>2. (x + 1) * E <= y * E
    BY <1>1, <2>1, Sizes
  <2>3. (x + 1) * E = x * E + E
    BY <1>1, Sizes
  <2>4. QED
    BY <1>1, <2>2, <2>3, Sizes
<1>3. \A k \in Nat : (k * E) % E = 0
  BY Sizes
<1>4. a + E = (x + 1) * E /\ a + b = (x + y) * E
  BY <1>1, Sizes
<1>5. QED
  BY <1>1, <1>2, <1>3, <1>4

\* The arguments of every call are pages and frames.
LEMMA CallTypes ==
  /\ \A v \in KernelStart..(KernelEnd - 1) : v \in VirtualPages /\ KernelCall(v) \in Calls
  /\ \A f \in 0..(top - 1) : DirectCall(f) \in Calls /\ f + Offset \in VirtualPages /\ f \in Frames
  /\ \A c \in LateCalls : c \in Calls /\ c.huge = FALSE
  /\ \A c \in Calls : c # NoCall
<1>1. ASSUME NEW v \in KernelStart..(KernelEnd - 1) PROVE v \in VirtualPages /\ KernelCall(v) \in Calls
  <2>1. KernelStart \in Nat /\ KernelEnd \in Nat /\ KernelEnd <= E * E * E * E - 1
    BY PagerAssumption, Sizes DEF PagerAssumption, VirtualPages
  <2>2. v \in VirtualPages
    BY <2>1, Sizes DEF VirtualPages
  <2>3. KernelFrame(v) \in Frames
    BY PagerAssumption DEF PagerAssumption, KernelFrame
  <2>4. QED
    BY <2>2, <2>3 DEF KernelCall, Calls
<1>2. ASSUME NEW f \in 0..(top - 1)
      PROVE  DirectCall(f) \in Calls /\ f + Offset \in VirtualPages /\ f \in Frames
  <2>1. f \in Frames /\ f + Offset \in VirtualPages
    BY TopIs, Sizes DEF Frames, VirtualPages
  <2>2. QED
    BY <2>1 DEF DirectCall, Calls
<1>3. ASSUME NEW c \in LateCalls PROVE c \in Calls /\ c.huge = FALSE
  <2>1. c \in Calls /\ ~c.huge
    BY PagerAssumption DEF PagerAssumption
  <2>2. c.huge \in BOOLEAN
    BY <2>1 DEF Calls
  <2>3. QED
    BY <2>1, <2>2
<1>4. ASSUME NEW c \in Calls PROVE c # NoCall
  <2>1. DOMAIN c = {"vaddr", "paddr", "uc", "huge"}
    BY DEF Calls
  <2>2. DOMAIN NoCall = {"none"}
    BY DEF NoCall
  <2>3. QED
    BY <2>1, <2>2
<1>5. QED
  BY <1>1, <1>2, <1>3, <1>4, Zenon

\* At boot the variables have their types.
LEMMA TypeInit == Init => TypeOK /\ CallKind
<1> SUFFICES ASSUME Init PROVE TypeOK /\ CallKind
  OBVIOUS
<1>1. 0 \in Frames /\ MaxFrame \in Frames
  BY Sizes DEF Frames
<1>2. \A e \in {Absent, Present(0, FALSE, FALSE), Present(MaxFrame, TRUE, TRUE)} : e \in Entries
  BY <1>1, EntryFacts, Zenon
<1>3. mem \in [Frames -> [Indices -> Entries]]
  BY <1>2, Zenon DEF Init
<1>4. pool \in SUBSET (Frames \ {0})
  BY PagerAssumption DEF Init, PagerAssumption
<1>5. TypeOK
  <2>1. /\ lost = {} /\ pml4 = 0 /\ cr3 = FALSE /\ pc = "start" /\ p = 0 /\ call = NoCall
        /\ level = 4 /\ table = 0
    BY DEF Init
  <2>2. lost \in SUBSET {"start", "kernel", "direct", "running"}
    BY <2>1
  <2>3. pml4 \in Frames /\ p \in Nat /\ level \in 1..4 /\ table \in Frames
    BY <1>1, <2>1
  <2>4. cr3 \in BOOLEAN /\ pc \in {"start", "kernel", "direct", "running"} /\ call \in Calls \cup {NoCall}
    BY <2>1, Zenon
  <2>5. QED
    BY <1>3, <1>4, <2>2, <2>3, <2>4 DEF TypeOK
<1>6. CallKind
  BY DEF Init, CallKind
<1>7. QED
  BY <1>5, <1>6

\* kalloc_frame takes a free frame, unless there is none.
LEMMA Alloc ==
  ASSUME TypeOK, NEW f \in Frames, kalloc_frame(f)
  PROVE  /\ pool' \in SUBSET (Frames \ {0}) /\ pool' \subseteq pool
         /\ lost' \in SUBSET {"start", "kernel", "direct", "running"}
         /\ lost \subseteq lost'
         /\ lost' = {} => f \in pool /\ pool' = pool \ {f}
<1>1. CASE pool # {}
  <2>1. f = Min(pool) /\ pool' = pool \ {f} /\ lost' = lost
    BY <1>1 DEF kalloc_frame
  <2>2. pool \in SUBSET Frames
    BY DEF TypeOK
  <2>3. f \in pool
    BY <1>1, <2>1, <2>2, MinIsFree
  <2>4. QED
    BY <2>1, <2>3 DEF TypeOK
<1>2. CASE pool = {}
  BY <1>2, Zenon DEF kalloc_frame, TypeOK
<1>3. QED
  BY <1>1, <1>2

\* Every step keeps the types, and a call in progress is one of paging_init's or a late one.
LEMMA TypeNext == TypeOK /\ CallKind /\ [Next]_vars => TypeOK' /\ CallKind'
<1> SUFFICES ASSUME TypeOK, CallKind, [Next]_vars PROVE TypeOK' /\ CallKind'
  OBVIOUS
<1>1. CASE InitPml4
  <2>1. PICK f \in Frames : kalloc_frame(f) /\ pml4' = f /\ mem' = zero_table(mem, f)
    BY <1>1 DEF InitPml4
  <2>2. /\ pc' = "kernel" /\ p' = KernelStart /\ KernelStart \in Nat /\ call = NoCall
        /\ UNCHANGED <<cr3, call, level, table>> /\ ~cr3
    BY <1>1, PagerAssumption, Sizes DEF InitPml4, CallKind, PagerAssumption, VirtualPages
  <2>3. mem' \in [Frames -> [Indices -> Entries]]
    BY <2>1, EntryFacts DEF zero_table, TypeOK
  <2>4. TypeOK'
    BY <2>1, <2>2, <2>3, Alloc DEF TypeOK
  <2>5. CallKind'
    BY <2>2 DEF CallKind
  <2>6. QED
    BY <2>4, <2>5
<1>2. CASE MapKernel
  <2>1. pc = "kernel" /\ call = NoCall /\ UNCHANGED <<mem, pool, lost, pml4, cr3>> /\ p >= KernelStart
    BY <1>2 DEF MapKernel, CallKind
  <2>2. CASE p < KernelEnd /\ Begin(KernelCall(p)) /\ p' = p + 1 /\ UNCHANGED pc
    <3>1. p \in KernelStart..(KernelEnd - 1)
      BY <2>1, <2>2, PagerAssumption, Sizes DEF TypeOK, PagerAssumption, VirtualPages
    <3>2. KernelCall(p) \in Calls
      BY <3>1, CallTypes
    <3>3. TypeOK'
      BY <2>1, <2>2, <3>2 DEF Begin, TypeOK
    <3>4. CallKind'
      <4>1. p' = p + 1 /\ call' = KernelCall(p) /\ pc' = "kernel" /\ cr3' = cr3
        BY <2>1, <2>2 DEF Begin
      <4>2. p' >= KernelStart
        BY <3>1, <4>1, PagerAssumption, Sizes DEF PagerAssumption, VirtualPages
      <4>3. QED
        BY <2>1, <3>1, <4>1, <4>2 DEF CallKind
    <3>5. QED
      BY <3>3, <3>4
  <2>3. CASE p >= KernelEnd /\ pc' = "direct" /\ p' = 0 /\ UNCHANGED <<call, level, table>>
    <3>1. TypeOK'
      BY <2>1, <2>3 DEF TypeOK
    <3>2. 0 % E = 0 /\ 0 <= top
      BY TopIs, Sizes
    <3>3. CallKind'
      BY <2>1, <2>3, <3>2 DEF CallKind
    <3>4. QED
      BY <3>1, <3>3
  <2>4. QED
    BY <1>2, <2>2, <2>3 DEF MapKernel, KernelCall
<1>3. CASE MapDirect
  <2>1. pc = "direct" /\ call = NoCall /\ UNCHANGED <<mem, pool, lost, pml4>> /\ p % E = 0 /\ p \in Nat
    BY <1>3 DEF MapDirect, CallKind, TypeOK
  <2>2. CASE p < top /\ Begin(DirectCall(p)) /\ p' = p + E /\ UNCHANGED <<pc, cr3>>
    <3>1. p \in 0..(top - 1)
      BY <2>1, <2>2, TopIs
    <3>2. DirectCall(p) \in Calls
      BY <3>1, CallTypes
    <3>3. TypeOK'
      BY <2>1, <2>2, <3>2, Sizes DEF Begin, TypeOK
    <3>4. p' % E = 0 /\ p' <= top
      BY <2>1, <2>2, Multiples, TopIs
    <3>5. CallKind'
      BY <2>1, <2>2, <3>1, <3>4 DEF Begin, CallKind
    <3>6. QED
      BY <3>3, <3>5
  <2>3. CASE p >= top /\ cr3' = TRUE /\ pc' = "running" /\ UNCHANGED <<p, call, level, table>>
    <3>1. TypeOK'
      BY <2>1, <2>3 DEF TypeOK
    <3>2. CallKind'
      BY <2>1, <2>3 DEF CallKind
    <3>3. QED
      BY <3>1, <3>2
  <2>4. QED
    BY <1>3, <2>2, <2>3, Zenon DEF MapDirect, DirectCall
<1>4. CASE LateMap
  <2>1. PICK c \in LateCalls : Begin(c)
    BY <1>4 DEF LateMap
  <2>2. pc = "running" /\ UNCHANGED <<mem, pool, lost, pml4, cr3, pc, p>>
    BY <1>4 DEF LateMap
  <2>3. c \in Calls
    BY CallTypes
  <2>4. TypeOK'
    BY <2>1, <2>2, <2>3 DEF Begin, TypeOK
  <2>5. CallKind'
    BY <2>1, <2>2 DEF Begin, CallKind
  <2>6. QED
    BY <2>4, <2>5
<1>5. CASE Walk
  <2>1. /\ call # NoCall /\ level > LeafLevel /\ level' = level - 1 /\ LeafLevel \in {1, 2}
        /\ UNCHANGED <<pml4, cr3, pc, p, call>> /\ call \in Calls /\ call.vaddr \in VirtualPages
    BY <1>5 DEF Walk, LeafLevel, TypeOK, Calls
  <2>2. CallKind'
    BY <2>1 DEF CallKind
  <2>3. level' \in 1..4
    BY <2>1 DEF TypeOK
  <2> DEFINE n == Index(call.vaddr, level)
  <2>4. n \in Indices
    BY <2>1, IndexIs DEF TypeOK
  <2>5. CASE mem[table][n].present /\ table' = mem[table][n].frame /\ UNCHANGED <<mem, pool, lost>>
    <3>1. table' \in Frames
      BY <2>4, <2>5 DEF TypeOK, Entries
    <3>2. TypeOK'
      BY <2>1, <2>3, <2>5, <3>1 DEF TypeOK
    <3>3. QED
      BY <2>2, <3>2
  <2>6. CASE \E f \in Frames : /\ kalloc_frame(f) /\ table' = f
                               /\ mem' = [zero_table(mem, f) EXCEPT
                                            ![table][n] = Present(f, FALSE, FALSE)]
    <3>1. PICK f \in Frames : /\ kalloc_frame(f) /\ table' = f
                              /\ mem' = [zero_table(mem, f) EXCEPT
                                           ![table][n] = Present(f, FALSE, FALSE)]
      BY <2>6, Zenon
    <3>2. table \in Frames
      BY DEF TypeOK
    <3>3. mem' \in [Frames -> [Indices -> Entries]]
      <4> DEFINE z == zero_table(mem, f)
                 e == Present(f, FALSE, FALSE)
      <4>1. z \in [Frames -> [Indices -> Entries]] /\ e \in Entries
        BY EntryFacts, Zenon DEF TypeOK, zero_table
      <4>2. mem' = [z EXCEPT ![table][n] = e]
        BY <3>1
      <4> HIDE DEF z, e, n
      <4>3. QED
        BY <2>4, <3>2, <4>1, <4>2
    <3>4. TypeOK'
      BY <2>1, <2>3, <3>1, <3>3, Alloc, Zenon DEF TypeOK
    <3>5. QED
      BY <2>2, <3>4
  <2>7. QED
    BY <1>5, <2>5, <2>6, Zenon DEF Walk
<1>6. CASE WriteLeaf
  <2>1. /\ call # NoCall /\ call \in Calls /\ call.vaddr \in VirtualPages /\ call.paddr \in Frames
        /\ call.uc \in BOOLEAN /\ call' = NoCall
        /\ UNCHANGED <<pool, lost, pml4, cr3, pc, p, level, table>>
    BY <1>6 DEF WriteLeaf, TypeOK, Calls
  <2>2. CallKind'
    BY <2>1 DEF CallKind
  <2> DEFINE n == Index(call.vaddr, level)
  <2>3. n \in Indices /\ table \in Frames
    BY <2>1, IndexIs DEF TypeOK
  <2>4. call.paddr - (call.paddr % E) \in Frames
    <3>1. call.paddr \in Nat
      BY <2>1, Sizes DEF Frames
    <3>2. call.paddr % E \in Nat /\ call.paddr % E <= call.paddr
      BY <3>1, Sizes
    <3>3. QED
      BY <2>1, <3>1, <3>2, Sizes DEF Frames
  <2>5. \E e \in Entries : mem' = [mem EXCEPT ![table][n] = e]
    <3>1. CASE call.huge
      BY <1>6, <2>1, <2>4, <3>1, EntryFacts, Zenon DEF WriteLeaf, Uncached
    <3>2. CASE ~call.huge
      BY <1>6, <2>1, <3>2, EntryFacts, Zenon DEF WriteLeaf, Uncached
    <3>3. QED
      BY <3>1, <3>2
  <2>6. mem' \in [Frames -> [Indices -> Entries]]
    BY <2>3, <2>5 DEF TypeOK
  <2>7. TypeOK'
    BY <2>1, <2>6 DEF TypeOK
  <2>8. QED
    BY <2>2, <2>7
<1>7. CASE UNCHANGED vars
  <2>1. UNCHANGED <<mem, pool, lost, pml4, cr3, pc, p, call, level, table>>
    BY <1>7 DEF vars
  <2>2. TypeOK'
    BY <2>1 DEF TypeOK
  <2>3. CallKind'
    BY <2>1 DEF CallKind
  <2>4. QED
    BY <2>2, <2>3
<1>8. QED
  BY <1>1, <1>2, <1>3, <1>4, <1>5, <1>6, <1>7 DEF Next
-----------------------------------------------------------------------------
(***************************************************************************)
(* What a step does to the tables and the translation                      *)
(***************************************************************************)
Good == Tree /\ OnPath /\ BlocksAreDirect

\* An unmapped page, a mapped page and a page in a block are different things.
LEMMA MappedIs ==
  /\ \A f, b, u : Unmapped # Mapped(f, b, u)
  /\ \A f, g \in Nat, u, w \in BOOLEAN : Mapped(f, FALSE, u) # Mapped(g, TRUE, w)
<1>1. ASSUME NEW f, NEW b, NEW u PROVE Unmapped # Mapped(f, b, u)
  <2>1. Unmapped.mapped = FALSE /\ Mapped(f, b, u).mapped = TRUE
    BY DEF Unmapped, Mapped
  <2>2. QED
    BY <2>1
<1>2. ASSUME NEW f \in Nat, NEW g \in Nat, NEW u \in BOOLEAN, NEW w \in BOOLEAN
      PROVE  Mapped(f, FALSE, u) # Mapped(g, TRUE, w)
  <2>1. Mapped(f, FALSE, u).ps = FALSE /\ Mapped(g, TRUE, w).ps = TRUE
    BY DEF Mapped
  <2>2. QED
    BY <2>1, Zenon
<1>3. QED
  BY <1>1, <1>2, Zenon

\* The page of a map_page call is outside the direct map, the block of a map_page_2m call
\* inside.
LEMMA CallApart ==
  ASSUME LateCallsApart, TypeOK, CallKind, call # NoCall
  PROVE  /\ call \in Calls /\ call.vaddr \in VirtualPages /\ call.huge \in BOOLEAN
         /\ ~call.huge => call.vaddr \notin DirectMap
         /\ call.huge => pc = "direct"
         /\ call.huge => \A v \in VirtualPages : v \div E = call.vaddr \div E => v \in DirectMap
<1>1. call \in Calls /\ call.vaddr \in VirtualPages /\ call.huge \in BOOLEAN
  BY DEF TypeOK, Calls
<1>2. CASE pc = "kernel"
  <2>1. PICK v \in KernelStart..(KernelEnd - 1) : call = KernelCall(v)
    BY <1>2 DEF CallKind
  <2>2. call.vaddr = v /\ call.huge = FALSE
    BY <2>1 DEF KernelCall
  <2>3. v \notin DirectMap
    BY DirectMapAssumption DEF DirectMapAssumption
  <2>4. QED
    BY <1>1, <2>2, <2>3
<1>3. CASE pc = "direct"
  <2>1. PICK f \in 0..(top - 1) : f % E = 0 /\ call = DirectCall(f)
    BY <1>3 DEF CallKind
  <2>2. call.vaddr = f + Offset /\ call.huge = TRUE
    BY <2>1 DEF DirectCall
  <2>3. f \in Nat /\ Offset \in Nat /\ f + E <= top /\ (f + Offset) % E = 0
    BY <2>1, TopIs, Multiples
  <2>4. ASSUME NEW v \in VirtualPages, v \div E = (f + Offset) \div E PROVE v \in DirectMap
    <3> DEFINE q == v \div E
               c == f + Offset
    <3>1. v \in Nat /\ c \in Nat
      BY <2>3, IndexIs
    <3>2. q \in Nat /\ v = q * E + (v % E) /\ v % E \in 0..(E - 1) /\ c = q * E + (c % E)
      BY <2>4, <3>1, DivMod DEF Indices
    <3>3. c % E = 0
      BY <2>3
    <3> HIDE DEF q
    <3>4. v = c + (v % E)
      BY <3>1, <3>2, <3>3, Sizes
    <3>5. QED
      BY <2>3, <3>1, <3>2, <3>4, TopIs, Sizes DEF DirectMap
  <2>5. QED
    BY <1>1, <1>3, <2>2, <2>4
<1>4. CASE pc = "running"
  <2>1. call \in LateCalls
    BY <1>4 DEF CallKind
  <2>2. call.huge = FALSE /\ call.vaddr \notin DirectMap
    BY <2>1, CallTypes DEF LateCallsApart
  <2>3. QED
    BY <1>1, <2>2
<1>5. QED
  BY <1>2, <1>3, <1>4 DEF TypeOK, CallKind

\* paging_init starts with an empty top-level table.
LEMMA StepInitPml4 ==
  ASSUME TypeOK, CallKind, InitPml4, lost' = {}
  PROVE  /\ Good' /\ \A v \in VirtualPages : Translate(v)' = Unmapped
         /\ pml4' \in pool /\ pool' \subseteq pool /\ T3' = {} /\ T2' = {} /\ T1' = {}
<1>1. PICK f \in Frames : kalloc_frame(f) /\ pml4' = f /\ mem' = zero_table(mem, f)
  BY DEF InitPml4
<1>2. f \in pool /\ pool' = pool \ {f}
  BY <1>1, Alloc
<1>3. \A n \in Indices : mem'[pml4'][n] = Absent
  BY <1>1 DEF zero_table, TypeOK
<1>4. \A n \in Indices : ~IsLink(mem'[pml4'][n]) /\ ~IsBlock(mem'[pml4'][n])
  BY <1>3, EntryFacts
<1>5. T3' = {}
  BY <1>4 DEF T3, Kids
<1>6. T2' = {}
  BY <1>5 DEF T2, Kids
<1>7. T1' = {}
  BY <1>6 DEF T1, Kids
<1>8. /\ OneParent(mem', {pml4'}) /\ OneParent(mem', T3') /\ OneParent(mem', T2')
      /\ NoBlocks(mem', {pml4'}) /\ NoBlocks(mem', T3')
  BY <1>4, <1>5, <1>6, SMTT(30) DEF OneParent, NoBlocks
<1>9. Tree'
  BY <1>1, <1>2, <1>5, <1>6, <1>7, <1>8, SMTT(30) DEF Tree, Apart
<1>10. call' = NoCall
  BY SMTT(30) DEF InitPml4, CallKind
<1>11. ASSUME NEW v \in VirtualPages PROVE Translate(v)' = Unmapped
  <2>1. E4(v)' = Absent
    BY <1>3, PathPrimed, IndexIs
  <2>2. ~E4(v)'.present
    BY <2>1, PresentIs
  <2>3. QED
    BY <2>2, TranslatePrimed, Zenon
<1>12. BlocksAreDirect'
  BY <1>11, MappedIs, Zenon DEF BlocksAreDirect
<1>13. OnPath'
  BY <1>10 DEF OnPath
<1>14. QED
  BY <1>1, <1>2, <1>5, <1>6, <1>7, <1>9, <1>11, <1>12, <1>13 DEF Good

\* A step that changes neither memory nor the top-level table changes no translation.
LEMMA SameMemory ==
  ASSUME UNCHANGED <<mem, pool, pml4>>
  PROVE  /\ \A v : Translate(v)' = Translate(v)
         /\ Tree => Tree'
         /\ BlocksAreDirect => BlocksAreDirect'
         /\ T3' = T3 /\ T2' = T2 /\ T1' = T1
<1>1. T3' = T3 /\ T2' = T2 /\ T1' = T1
  BY Zenon DEF T3, T2, T1
<1>2. \A v : Translate(v)' = Translate(v)
  BY DEF Translate
<1>3. Tree => Tree'
  BY <1>1 DEF Tree
<1>4. BlocksAreDirect => BlocksAreDirect'
  BY <1>2, Zenon DEF BlocksAreDirect
<1>5. QED
  BY <1>1, <1>2, <1>3, <1>4

\* Starting a call, or leaving a loop of paging_init, changes no translation.
LEMMA StepBegin ==
  ASSUME TypeOK, CallKind, Good, MapKernel \/ MapDirect \/ LateMap
  PROVE  Good' /\ \A v : Translate(v)' = Translate(v)
<1>1. UNCHANGED <<mem, pool, pml4>> /\ call = NoCall
  BY DEF MapKernel, MapDirect, LateMap
<1>2. (\E c \in Calls : Begin(c)) \/ call' = NoCall
  BY <1>1, TypeNext DEF MapKernel, MapDirect, LateMap, Next, TypeOK, Begin
<1>3. OnPath'
  <2>1. CASE call' = NoCall
    BY <2>1 DEF OnPath
  <2>2. CASE \E c \in Calls : Begin(c)
    BY <1>1, <2>2, SMTT(30) DEF Begin, OnPath
  <2>3. QED
    BY <1>2, <2>1, <2>2
<1>4. QED
  BY <1>1, <1>3, SameMemory DEF Good

\* Where the walk of a call is: the entry it looks at next is on the path of its page.
LEMMA WalkIsAt ==
  ASSUME TypeOK, Tree, OnPath, call # NoCall, NEW c \in VirtualPages, call.vaddr = c
  PROVE  LET e == mem[table][Index(c, level)]
         IN  /\ level = 4 => table = pml4 /\ e = E4(c)
             /\ level = 3 => table \in T3 /\ e = E3(c) /\ IsLink(E4(c))
             /\ level = 2 => table \in T2 /\ e = E2(c) /\ IsLink(E4(c)) /\ IsLink(E3(c))
             /\ level = 1 => table \in T1 /\ IsLink(E4(c)) /\ IsLink(E3(c)) /\ IsLink(E2(c))
<1>1. level \in 1..4
  BY DEF TypeOK
<1>2. CASE level = 4
  BY <1>2, SMTT(30) DEF OnPath, E4
<1>3. CASE level = 3
  <2>1. IsLink(E4(c)) /\ table = E4(c).frame
    BY <1>3 DEF OnPath
  <2>2. E4(c).present
    BY <2>1, PresentIs
  <2>3. QED
    BY <1>3, <2>1, <2>2, PathIn DEF E3
<1>4. CASE level = 2
  <2>1. IsLink(E4(c)) /\ IsLink(E3(c)) /\ table = E3(c).frame
    BY <1>4 DEF OnPath
  <2>2. E3(c).present
    BY <2>1, PresentIs
  <2>3. QED
    BY <1>4, <2>1, <2>2, PathIn DEF E2
<1>5. CASE level = 1
  <2>1. IsLink(E4(c)) /\ IsLink(E3(c)) /\ IsLink(E2(c)) /\ table = E2(c).frame
    BY <1>5 DEF OnPath
  <2>2. QED
    BY <1>5, <2>1, PathIn
<1>6. QED
  BY <1>1, <1>2, <1>3, <1>4, <1>5

\* No 4 KiB call meets a block entry.
LEMMA NoBlockMet ==
  ASSUME TypeOK, Good, NEW c \in VirtualPages, c \notin DirectMap,
         IsLink(E4(c)), IsLink(E3(c)), E2(c).present
  PROVE  IsLink(E2(c))
<1>2. E3(c).present /\ E4(c).present
  BY PresentIs
<1>3. E3(c).frame \in Frames /\ Index(c, 2) \in Indices /\ Index(c, 1) \in Nat
  BY <1>2, PathIn, KidsAreFrames, IndexIs DEF Good, Indices
<1>4. E2(c) \in Entries
  BY <1>3 DEF TypeOK, E2
<1>5. E2(c).frame + Index(c, 1) \in Nat /\ E2(c).uc \in BOOLEAN
  BY <1>3, <1>4, Sizes DEF Entries, Frames
<1>6. ASSUME IsBlock(E2(c)) PROVE FALSE
  <2>1. Translate(c) = Mapped(E2(c).frame + Index(c, 1), TRUE, E2(c).uc)
    BY <1>2, <1>6, TranslateIs, Zenon
  <2>2. QED
    BY <1>5, <2>1, Zenon DEF Good, BlocksAreDirect
<1>7. QED
  BY <1>4, <1>6, PresentIs

\* A step of the walk changes no translation; the tables it adds were free frames.
LEMMA StepWalk ==
  ASSUME LateCallsApart, TypeOK, CallKind, Good, Walk, lost' = {}
  PROVE  /\ Good' /\ \A v \in VirtualPages : Translate(v)' = Translate(v)
         /\ (T3' \cup T2' \cup T1') \subseteq (T3 \cup T2 \cup T1 \cup pool)
<1>1. /\ call # NoCall /\ level > LeafLevel /\ level' = level - 1 /\ call' = call
      /\ pml4' = pml4 /\ level \in 1..4
  BY DEF Walk, TypeOK
<1>c. PICK c \in VirtualPages : call.vaddr = c
  BY <1>1 DEF TypeOK, Calls
<1> DEFINE n == Index(c, level)
<1>2. call \in Calls /\ call.huge \in BOOLEAN /\ (~call.huge => c \notin DirectMap)
  BY <1>1, <1>c, CallApart, Zenon
<1>3. n \in Indices /\ table \in Frames
  BY <1>1, <1>2, IndexIs DEF TypeOK
<1>4. level \in {2, 3, 4} /\ (call.huge => level # 2)
  BY <1>1 DEF LeafLevel
<1>5. Tree /\ OnPath /\ BlocksAreDirect
  BY DEF Good
<1>6. /\ level = 4 => table = pml4 /\ mem[table][n] = E4(c)
      /\ level = 3 => table \in T3 /\ mem[table][n] = E3(c) /\ IsLink(E4(c))
      /\ level = 2 => table \in T2 /\ mem[table][n] = E2(c) /\ IsLink(E4(c)) /\ IsLink(E3(c))
  BY <1>c, <1>1, <1>5, WalkIsAt, Zenon
<1> HIDE DEF n
<1>7. CASE mem[table][n].present /\ table' = mem[table][n].frame /\ UNCHANGED <<mem, pool, lost>>
  <2>1. E4(c)' = E4(c) /\ E3(c)' = E3(c) /\ E2(c)' = E2(c)
    BY <1>1, <1>7 DEF E4, E3, E2
  <2>2. OnPath'
    <3>1. CASE level = 4
      <4>1. IsLink(E4(c))
        BY <1>2, <1>5, <1>6, <1>7, <3>1, PathIn, SMTT(30)
      <4>2. level' = 3 /\ table' = E4(c)'.frame /\ IsLink(E4(c)')
        BY <1>1, <1>6, <1>7, <2>1, <3>1, <4>1
      <4>3. QED
        BY <1>c, <1>1, <4>2, SMTT(30) DEF OnPath
    <3>2. CASE level = 3
      <4>1. IsLink(E4(c)) /\ IsLink(E3(c))
        BY <1>2, <1>5, <1>6, <1>7, <3>2, PathIn, SMTT(30)
      <4>2. level' = 2 /\ table' = E3(c)'.frame /\ IsLink(E4(c)') /\ IsLink(E3(c)')
        BY <1>1, <1>6, <1>7, <2>1, <3>2, <4>1
      <4>3. QED
        BY <1>c, <1>1, <4>2, SMTT(30) DEF OnPath
    <3>3. CASE level = 2
      <4>1. IsLink(E4(c)) /\ IsLink(E3(c)) /\ IsLink(E2(c))
        BY <1>1, <1>2, <1>4, <1>6, <1>7, <3>3, NoBlockMet, SMTT(30)
      <4>2. /\ level' = 1 /\ table' = E2(c)'.frame
            /\ IsLink(E4(c)') /\ IsLink(E3(c)') /\ IsLink(E2(c)')
        BY <1>1, <1>6, <1>7, <2>1, <3>3, <4>1
      <4>3. ~call'.huge
        BY <1>1, <1>4, <3>3
      <4>4. QED
        BY <1>c, <1>1, <4>2, <4>3, SMTT(30) DEF OnPath
    <3>4. QED
      BY <1>4, <3>1, <3>2, <3>3
  <2>3. UNCHANGED <<mem, pool, pml4>>
    BY <1>1, <1>7
  <2>4. QED
    BY <1>5, <2>2, <2>3, SameMemory, Zenon DEF Good
<1>8. CASE /\ ~mem[table][n].present
           /\ \E f \in Frames : /\ kalloc_frame(f) /\ table' = f
                                /\ mem' = [zero_table(mem, f) EXCEPT
                                             ![table][n] = Present(f, FALSE, FALSE)]
  <2>1. PICK f \in Frames : /\ kalloc_frame(f) /\ table' = f
                            /\ mem' = [zero_table(mem, f) EXCEPT
                                         ![table][n] = Present(f, FALSE, FALSE)]
    BY <1>8, Zenon
  <2>2. f \in pool /\ pool' = pool \ {f}
    BY <2>1, Alloc
  <2>3. table \in {pml4} \cup T3 \cup T2
    BY <1>4, <1>6
  <2>4. f # table
    BY <1>5, <2>2, <2>3 DEF Tree, Apart
  <2>5. LinkedAt(mem, mem', table, n, f)
    <3> DEFINE e == Present(f, FALSE, FALSE)
    <3>1. mem' = [[mem EXCEPT ![f] = [k \in Indices |-> Absent]] EXCEPT ![table][n] = e]
      BY <2>1 DEF zero_table
    <3>2. mem \in [Frames -> [Indices -> Entries]]
      BY DEF TypeOK
    <3> HIDE DEF e
    <3>3. /\ \A u \in Frames \ {table, f} : mem'[u] = mem[u]
          /\ \A k \in Indices : mem'[f][k] = Absent
          /\ \A k \in Indices \ {n} : mem'[table][k] = mem[table][k]
          /\ mem'[table][n] = e
      BY <1>3, <2>4, <3>1, <3>2, SMTT(30)
    <3>4. QED
      BY <3>3 DEF LinkedAt, e
  <2>6. Tree' /\ T3' \cup T2' \cup T1' = T3 \cup T2 \cup T1 \cup {f}
    BY <1>1, <1>3, <1>5, <1>8, <2>2, <2>3, <2>5, TreeLinked, ZenonT(30)
  <2>7. \A v \in VirtualPages :
          /\ Translate(v)' = Translate(v)
          /\ IsLink(E4(v)) => E4(v)' = E4(v)
          /\ IsLink(E4(v)) /\ IsLink(E3(v)) => E3(v)' = E3(v)
          /\ IsLink(E4(v)) /\ IsLink(E3(v)) /\ IsLink(E2(v)) => E2(v)' = E2(v)
    BY <1>1, <1>3, <1>5, <1>8, <2>2, <2>3, <2>5, LinkKeepsPaths, ZenonT(30)
  <2>8. mem'[table][n] = Present(f, FALSE, FALSE)
    BY <2>5 DEF LinkedAt
  <2>9. IsLink(mem'[table][n]) /\ mem'[table][n].frame = f /\ table' = f
    BY <2>1, <2>8, EntryFacts, ZenonT(30)
  <2>10. OnPath'
    <3>1. CASE level = 4
      <4>1. E4(c)' = mem'[table][n]
        BY <1>1, <1>6, <3>1, PathPrimed DEF n
      <4>2. level' = 3 /\ table' = E4(c)'.frame /\ IsLink(E4(c)')
        <5>1. level' = 3
          BY <1>1, <3>1
        <5>2. QED
          BY <2>9, <4>1, <5>1, Zenon
      <4>3. QED
        BY <1>c, <1>1, <4>2, SMTT(30) DEF OnPath
    <3>2. CASE level = 3
      <4>1. E4(c)' = E4(c) /\ IsLink(E4(c)) /\ table = E4(c).frame
        BY <1>c, <1>1, <1>2, <1>5, <1>6, <2>7, <3>2, SMTT(30) DEF OnPath
      <4>2. E3(c)' = mem'[table][n]
        BY <3>2, <4>1, PathPrimed, Zenon DEF n
      <4>3. level' = 2 /\ table' = E3(c)'.frame /\ IsLink(E4(c)') /\ IsLink(E3(c)')
        <5>1. level' = 2
          BY <1>1, <3>2
        <5>2. QED
          BY <2>9, <4>1, <4>2, <5>1, Zenon
      <4>4. QED
        BY <1>c, <1>1, <4>3, SMTT(30) DEF OnPath
    <3>3. CASE level = 2
      <4>1. /\ E4(c)' = E4(c) /\ IsLink(E4(c)) /\ E3(c)' = E3(c) /\ IsLink(E3(c))
            /\ table = E3(c).frame
        BY <1>c, <1>1, <1>2, <1>5, <1>6, <2>7, <3>3, SMTT(30) DEF OnPath
      <4>2. E2(c)' = mem'[table][n]
        BY <3>3, <4>1, PathPrimed, Zenon DEF n
      <4>3. /\ level' = 1 /\ table' = E2(c)'.frame
            /\ IsLink(E4(c)') /\ IsLink(E3(c)') /\ IsLink(E2(c)')
        <5>1. level' = 1
          BY <1>1, <3>3
        <5>2. QED
          BY <2>9, <4>1, <4>2, <5>1, Zenon
      <4>4. ~call'.huge
        BY <1>1, <1>4, <3>3
      <4>5. QED
        BY <1>c, <1>1, <4>3, <4>4, SMTT(30) DEF OnPath
    <3>4. QED
      BY <1>4, <3>1, <3>2, <3>3, Zenon
  <2>11. BlocksAreDirect'
    BY <1>5, <2>7, Zenon DEF BlocksAreDirect
  <2>12. QED
    BY <2>2, <2>6, <2>7, <2>10, <2>11 DEF Good
<1>9. QED
  BY <1>c, <1>7, <1>8, Zenon DEF Walk, n

\* The last step of a call maps what was asked for and nothing else.
LEMMA StepLeaf ==
  ASSUME LateCallsApart, TypeOK, CallKind, Good, WriteLeaf
  PROVE  /\ Good' /\ (T3' \cup T2' \cup T1') \subseteq (T3 \cup T2 \cup T1)
         /\ ~call.huge => \A v \in VirtualPages :
              Translate(v)' = IF v = call.vaddr THEN Mapped(call.paddr, FALSE, call.uc)
                              ELSE Translate(v)
         /\ call.huge => \A v \in VirtualPages :
              Translate(v)' = IF v \div E = call.vaddr \div E
                              THEN Mapped((call.paddr - (call.paddr % E)) + (v % E), TRUE, call.uc)
                              ELSE Translate(v)
<1>1. /\ call # NoCall /\ level = LeafLevel /\ level \in 1..4
      /\ UNCHANGED <<pool, pml4>> /\ call' = NoCall
  BY DEF WriteLeaf, TypeOK
<1>2. PICK c \in VirtualPages : call.vaddr = c
  BY <1>1 DEF TypeOK, Calls
<1>3. PICK u \in BOOLEAN : call.uc = u
  BY <1>1 DEF TypeOK, Calls
<1>4. PICK b \in Frames : call.paddr = b
  BY <1>1 DEF TypeOK, Calls
<1>5. call.huge \in BOOLEAN /\ (~call.huge => c \notin DirectMap)
      /\ (call.huge => \A v \in VirtualPages : v \div E = c \div E => v \in DirectMap)
  BY <1>1, <1>2, CallApart
<1>6. Tree /\ OnPath /\ BlocksAreDirect
  BY DEF Good
<1>7. OnPath'
  BY <1>1 DEF OnPath
<1>8. mem \in [Frames -> [Indices -> Entries]] /\ table \in Frames
  BY DEF TypeOK
<1>9. b \in Nat /\ b % E \in Nat /\ b - (b % E) \in Frames
  <2>1. b \in Nat
    BY Sizes DEF Frames
  <2>2. b % E \in Nat /\ b % E <= b
    BY <2>1, Sizes
  <2>3. QED
    BY <2>1, <2>2, Sizes DEF Frames
<1>10. CASE ~call.huge
  <2>1. level = 1
    BY <1>1, <1>10, Zenon DEF LeafLevel
  <2>2. table \in T1 /\ IsLink(E4(c)) /\ IsLink(E3(c)) /\ IsLink(E2(c)) /\ table = E2(c).frame
    BY <1>1, <1>2, <1>6, <2>1, WalkIsAt DEF OnPath
  <2>3. Index(c, 1) \in Indices
    BY IndexIs
  <2>4. Wrote(mem, mem', table, Index(c, 1), Present(b, FALSE, u))
    <3> DEFINE e == Present(b, FALSE, u)
               n == Index(c, 1)
    <3>1. mem' = [mem EXCEPT ![table][n] = e]
      BY <1>2, <1>3, <1>4, <1>10, <2>1, Zenon DEF WriteLeaf, Uncached
    <3>2. n \in Indices
      BY <2>3
    <3> HIDE DEF e, n
    <3>3. QED
      BY <1>8, <3>1, <3>2, Zenon DEF Wrote, e, n
  <2>5. Tree' /\ T3' = T3 /\ T2' = T2 /\ T1' = T1
    BY <1>1, <1>6, <2>2, <2>3, <2>4, TreeLeaf, Zenon
  <2>6. \A v \in VirtualPages : Translate(v)' = IF v = c THEN Mapped(b, FALSE, u) ELSE Translate(v)
    BY <1>1, <1>6, <2>2, <2>4, LeafMapsPage, Zenon
  <2>7. BlocksAreDirect'
    BY <1>6, <1>9, <2>6, MappedIs, Zenon DEF BlocksAreDirect
  <2>8. Good'
    BY <1>7, <2>5, <2>7 DEF Good
  <2>9. QED
    BY <1>2, <1>3, <1>4, <1>10, <2>5, <2>6, <2>8, Zenon
<1>11. CASE call.huge
  <2>1. level = 2
    BY <1>1, <1>11, Zenon DEF LeafLevel
  <2>2. table \in T2 /\ IsLink(E4(c)) /\ IsLink(E3(c)) /\ table = E3(c).frame
    BY <1>1, <1>2, <1>6, <2>1, WalkIsAt DEF OnPath
  <2>3. Index(c, 2) \in Indices
    BY IndexIs
  <2>4. PICK a \in Frames : a = b - (b % E)
    BY <1>9
  <2>5. Wrote(mem, mem', table, Index(c, 2), Present(a, TRUE, u))
    <3> DEFINE e == Present(a, TRUE, u)
               n == Index(c, 2)
    <3>1. mem' = [mem EXCEPT ![table][n] = e]
      BY <1>2, <1>3, <1>4, <1>11, <2>1, <2>4 DEF WriteLeaf, Uncached
    <3>2. n \in Indices
      BY <2>3
    <3> HIDE DEF e, n
    <3>3. QED
      BY <1>8, <3>1, <3>2, Zenon DEF Wrote, e, n
  <2>6. ~IsLink(Present(a, TRUE, u))
    BY EntryFacts, Zenon
  <2>7. Tree' /\ T3' = T3 /\ T2' = T2 /\ T1' \subseteq T1
    BY <1>1, <1>6, <2>2, <2>3, <2>5, <2>6, TreeBlock, Zenon
  <2>8. \A v \in VirtualPages :
          Translate(v)' = IF v \div E = c \div E THEN Mapped(a + (v % E), TRUE, u) ELSE Translate(v)
    BY <1>1, <1>6, <2>2, <2>5, EntryMapsBlock, Zenon
  <2>9. BlocksAreDirect'
    <3> SUFFICES ASSUME NEW v \in VirtualPages, NEW f \in Nat, NEW w \in BOOLEAN,
                        Translate(v)' = Mapped(f, TRUE, w)
                 PROVE  v \in DirectMap
      BY Zenon DEF BlocksAreDirect
    <3>1. CASE v \div E = c \div E
      BY <1>5, <1>11, <3>1
    <3>2. CASE v \div E # c \div E
      BY <1>6, <2>8, <3>2, Zenon DEF BlocksAreDirect
    <3>3. QED
      BY <3>1, <3>2
  <2>10. Good'
    BY <1>7, <2>7, <2>9 DEF Good
  <2>11. QED
    BY <1>2, <1>3, <1>4, <1>11, <2>4, <2>7, <2>8, <2>10, ZenonT(30)
<1>12. QED
  BY <1>5, <1>10, <1>11, Zenon

-----------------------------------------------------------------------------
\* What paging_init has mapped so far.
KernelDone(v) == Translate(v) = Mapped(KernelFrame(v), FALSE, FALSE)
DirectDone(f) == Translate(f + Offset) = Mapped(f, TRUE, FALSE)

Progress ==
  /\ pc = "kernel" => \A v \in KernelStart..(KernelEnd - 1) :
                        v < p /\ (call # NoCall => v # call.vaddr) => KernelDone(v)
  /\ pc \in {"direct", "running"} => \A v \in KernelStart..(KernelEnd - 1) : KernelDone(v)
  /\ pc = "direct" => \A f \in 0..(top - 1) :
                        f < (IF call = NoCall THEN p ELSE p - E) => DirectDone(f)
  /\ pc = "running" => \A f \in 0..(top - 1) : DirectDone(f)

\* Frames that are or can become tables are memory, which the direct map covers.
TablesInMemory ==
  /\ pool \subseteq 0..(top - 1)
  /\ pc # "start" => ({pml4} \cup T3 \cup T2 \cup T1) \subseteq 0..(top - 1)

IInv ==
  /\ TypeOK
  /\ CallKind
  /\ lost = {} => pc = "start" \/ (Tree /\ OnPath /\ BlocksAreDirect)
-----------------------------------------------------------------------------
(***************************************************************************)
(* The inductive invariant                                                 *)
(***************************************************************************)
\* lost only grows, so a step that ends with frames left began with frames left.
LEMMA LostGrows == TypeOK /\ [Next]_vars => lost \subseteq lost'
<1> SUFFICES ASSUME TypeOK, [Next]_vars PROVE lost \subseteq lost'
  OBVIOUS
<1>1. CASE InitPml4
  BY <1>1, Alloc DEF InitPml4
<1>2. CASE Walk
  BY <1>2, Alloc, Zenon DEF Walk
<1>3. CASE MapKernel \/ MapDirect \/ LateMap \/ WriteLeaf
  BY <1>3, Zenon DEF MapKernel, MapDirect, LateMap, WriteLeaf
<1>4. QED
  BY <1>1, <1>2, <1>3 DEF Next, vars

\* Before init_pml4 the invariant holds.
LEMMA InvInit == Init => IInv
  BY TypeInit, Zenon DEF IInv, Init

\* Every step of paging_init and map_page keeps the invariant.
LEMMA InvNext ==
  ASSUME LateCallsApart, IInv, [Next]_vars
  PROVE  IInv'
<1>1. TypeOK /\ CallKind /\ TypeOK' /\ CallKind'
  BY TypeNext DEF IInv
<1>2. SUFFICES ASSUME lost' = {} PROVE pc' = "start" \/ Good'
  BY <1>1 DEF IInv, Good
<1>3. pc = "start" \/ Good
  BY <1>1, <1>2, LostGrows DEF IInv, Good
<1>4. CASE InitPml4
  BY <1>1, <1>2, <1>4, StepInitPml4
<1>5. ASSUME MapKernel \/ MapDirect \/ LateMap PROVE Good'
  <2>1. pc # "start"
    BY <1>5 DEF MapKernel, MapDirect, LateMap
  <2>2. QED
    BY <1>1, <1>3, <1>5, <2>1, StepBegin, Zenon
<1>6. ASSUME Walk PROVE Good'
  <2>1. pc # "start"
    BY <1>1, <1>6 DEF Walk, CallKind
  <2>2. QED
    BY <1>1, <1>2, <1>3, <1>6, <2>1, StepWalk, Zenon
<1>7. ASSUME WriteLeaf PROVE Good'
  <2>1. pc # "start"
    BY <1>1, <1>7 DEF WriteLeaf, CallKind
  <2>2. QED
    BY <1>1, <1>3, <1>7, <2>1, StepLeaf, ZenonT(30)
<1>8. CASE UNCHANGED vars
  <2>1. UNCHANGED <<mem, pool, pml4>> /\ UNCHANGED <<pc, call, level, table>>
    BY <1>8 DEF vars
  <2>2. CASE pc = "start"
    BY <2>1, <2>2
  <2>3. CASE Good
    <3>1. OnPath'
      BY <2>1, <2>3, Zenon DEF Good, OnPath, E4, E3, E2
    <3>2. QED
      BY <2>1, <2>3, <3>1, SameMemory DEF Good
  <2>4. QED
    BY <1>3, <2>2, <2>3
<1>9. QED
  BY <1>4, <1>5, <1>6, <1>7, <1>8 DEF Next

\* The links of the model's properties are the ones the tables' frames come from.
LEMMA LinksAre ==
  ASSUME TypeOK, NEW T \in SUBSET Frames
  PROVE  /\ {l[3] : l \in LiveLinks(T)} = Kids(mem, T)
         /\ \A l \in LiveLinks(T) : \E t \in T, n \in Indices :
              IsLink(mem[t][n]) /\ l = <<t, n, mem[t][n].frame>>
<1>1. ASSUME NEW l \in LiveLinks(T)
      PROVE  \E t \in T, n \in Indices : IsLink(mem[t][n]) /\ l = <<t, n, mem[t][n].frame>>
  BY <1>1 DEF LiveLinks, Links, IsLink
<1>2. ASSUME NEW t \in T, NEW n \in Indices, IsLink(mem[t][n])
      PROVE  <<t, n, mem[t][n].frame>> \in LiveLinks(T)
  BY <1>2 DEF LiveLinks, Links, IsLink
<1>3. ASSUME NEW t \in T, NEW n \in Indices
      PROVE  mem[t][n].frame \in Frames
  BY DEF TypeOK, Entries
<1>4. Kids(mem, T) \subseteq {l[3] : l \in LiveLinks(T)}
  <2> SUFFICES ASSUME NEW x \in Kids(mem, T) PROVE \E l \in LiveLinks(T) : x = l[3]
    OBVIOUS
  <2>1. PICK t \in T, n \in Indices : IsLink(mem[t][n]) /\ mem[t][n].frame = x
    BY DEF Kids
  <2>2. <<t, n, mem[t][n].frame>> \in LiveLinks(T) /\ <<t, n, mem[t][n].frame>>[3] = x
    BY <1>2, <2>1
  <2>3. QED
    BY <2>2
<1>5. {l[3] : l \in LiveLinks(T)} \subseteq Kids(mem, T)
  <2> SUFFICES ASSUME NEW l \in LiveLinks(T) PROVE l[3] \in Kids(mem, T)
    OBVIOUS
  <2>1. PICK t \in T, n \in Indices : IsLink(mem[t][n]) /\ l = <<t, n, mem[t][n].frame>>
    BY <1>1
  <2>2. QED
    BY <1>3, <2>1 DEF Kids
<1>6. QED
  BY <1>1, <1>4, <1>5, Zenon

\* The tables are pml4 and the three levels under it.
LEMMA TablesAre ==
  ASSUME TypeOK
  PROVE  /\ {l[3] : l \in Pdpts} = T3 /\ {l[3] : l \in Pds} = T2 /\ {l[3] : l \in Pts} = T1
         /\ Pdpts = LiveLinks({pml4}) /\ Pds = LiveLinks(T3) /\ Pts = LiveLinks(T2)
         /\ Tables = {pml4} \cup T3 \cup T2 \cup T1
<1>1. {pml4} \in SUBSET Frames /\ T3 \in SUBSET Frames /\ T2 \in SUBSET Frames
  BY KidsAreFrames DEF TypeOK
<1>2. Pdpts = LiveLinks({pml4}) /\ {l[3] : l \in Pdpts} = T3
  BY <1>1, LinksAre DEF Pdpts, T3
<1>3. Pds = LiveLinks(T3) /\ {l[3] : l \in Pds} = T2
  BY <1>1, <1>2, LinksAre, Zenon DEF Pds, T2
<1>4. Pts = LiveLinks(T2) /\ {l[3] : l \in Pts} = T1
  BY <1>1, <1>3, LinksAre, Zenon DEF Pts, T1
<1>5. {l[3] : l \in TableLinks} = {l[3] : l \in Pdpts} \cup {l[3] : l \in Pds} \cup {l[3] : l \in Pts}
  BY DEF TableLinks
<1>6. QED
  BY <1>2, <1>3, <1>4, <1>5, Zenon DEF Tables

\* The sets of tables by level, disjoint and with one parent each, make the tree that
\* TablesAreATree speaks of.
LEMMA TreeIsATree ==
  ASSUME TypeOK, Tree
  PROVE  TablesAreATree
<1>1. {pml4} \in SUBSET Frames /\ T3 \in SUBSET Frames /\ T2 \in SUBSET Frames
  BY KidsAreFrames DEF TypeOK
<1>2. ASSUME NEW T \in SUBSET Frames, OneParent(mem, T),
             NEW k \in LiveLinks(T), NEW l \in LiveLinks(T), k[3] = l[3]
      PROVE  k = l
  <2>1. PICK t \in T, n \in Indices : IsLink(mem[t][n]) /\ k = <<t, n, mem[t][n].frame>>
    BY <1>2, LinksAre
  <2>2. PICK u \in T, m \in Indices : IsLink(mem[u][m]) /\ l = <<u, m, mem[u][m].frame>>
    BY <1>2, LinksAre
  <2>3. mem[t][n].frame = mem[u][m].frame
    BY <1>2, <2>1, <2>2, Zenon
  <2>4. t = u /\ n = m
    BY <1>2, <2>1, <2>2, <2>3 DEF OneParent
  <2>5. QED
    BY <2>1, <2>2, <2>4
<1>3. /\ \A l \in Pdpts : l[3] \in T3
      /\ \A l \in Pds : l[3] \in T2
      /\ \A l \in Pts : l[3] \in T1
  BY TablesAre, Zenon
<1>4. \A k, l \in TableLinks : k[3] = l[3] => k = l
  <2>1. /\ \A k, l \in Pdpts : k[3] = l[3] => k = l
        /\ \A k, l \in Pds : k[3] = l[3] => k = l
        /\ \A k, l \in Pts : k[3] = l[3] => k = l
    BY <1>1, <1>2, TablesAre, Zenon DEF Tree
  <2>2. QED
    BY <1>3, <2>1 DEF TableLinks, Tree, Apart
<1>5. \A l \in TableLinks : l[3] # pml4
  BY <1>3, Zenon DEF TableLinks, Tree
<1>6. Tables \cap pool = {}
  BY TablesAre DEF Tree, Apart
<1>7. QED
  BY <1>4, <1>5, <1>6 DEF TablesAreATree

\* While kalloc_frame finds frames, the tables map_page builds are a tree: one
\* entry refers to each, none is pml4 and none is a frame it can still return.
THEOREM TablesFormATree ==
  ASSUME LateCallsApart
  PROVE  Spec => []TablesAreATree
<1>1. Init => IInv
  BY InvInit
<1>2. IInv /\ [Next]_vars => IInv'
  BY InvNext
<1>3. IInv => TablesAreATree
  <2> SUFFICES ASSUME IInv, pc # "start", lost = {} PROVE TablesAreATree
    BY DEF TablesAreATree
  <2>1. QED
    BY TreeIsATree DEF IInv
<1>4. QED
  BY <1>1, <1>2, <1>3, PTL DEF Spec
-----------------------------------------------------------------------------
(***************************************************************************)
(* The refinement of VirtualMemory                                         *)
(***************************************************************************)
\* The first page of a block determines the block.
LEMMA AlignedIs ==
  ASSUME NEW v \in Nat, NEW w \in Nat
  PROVE  (v - (v % E) = w - (w % E)) <=> (v \div E = w \div E)
<1> DEFINE a == v \div E
           b == w \div E
<1>1. a \in Nat /\ b \in Nat /\ v % E \in Nat /\ w % E \in Nat
      /\ v = a * E + (v % E) /\ w = b * E + (w % E)
  BY DivMod DEF Indices
<1> HIDE DEF a, b
<1>2. v - (v % E) = a * E /\ w - (w % E) = b * E
  <2> DEFINE r == v % E
             s == w % E
  <2>1. a * E \in Nat /\ b * E \in Nat /\ r \in Nat /\ s \in Nat /\ v = a * E + r /\ w = b * E + s
    BY <1>1, Sizes
  <2> HIDE DEF r, s
  <2>2. v - r = a * E /\ w - s = b * E
    BY <2>1
  <2>3. QED
    BY <2>2 DEF r, s
<1>3. ASSUME a < b PROVE a * E < b * E
  <2>1. (a + 1) * E <= b * E /\ (a + 1) * E = a * E + E
    BY <1>1, <1>3, Sizes
  <2>2. QED
    BY <1>1, <2>1, Sizes
<1>4. ASSUME b < a PROVE b * E < a * E
  <2>1. (b + 1) * E <= a * E /\ (b + 1) * E = b * E + E
    BY <1>1, <1>4, Sizes
  <2>2. QED
    BY <1>1, <2>1, Sizes
<1>5. a * E = b * E <=> a = b
  BY <1>1, <1>3, <1>4, Sizes
<1>6. QED
  BY <1>2, <1>5 DEF a, b

\* What each page translates to once paging_init has begun.
Vm == [v \in VirtualPages |-> IF pc = "start" THEN Unmapped ELSE Translate(v)]

\* A step that keeps every translation and the request is a stuttering step.
LEMMA Stutters ==
  ASSUME Vm' = Vm, call' = call, lost = {}, lost' = {}
  PROVE  UNCHANGED VM!vars
  BY DEF VM!vars, Vm

\* Beginning a call changes no translation.
LEMMA BeginRefines ==
  ASSUME TypeOK, CallKind, Good, TypeOK', MapKernel \/ MapDirect \/ LateMap, lost = {}, lost' = {}
  PROVE  [VM!Next]_(VM!vars)
<1>1. \A v : Translate(v)' = Translate(v)
  BY StepBegin, Zenon
<1>2. pc # "start" /\ pc' # "start" /\ call = NoCall
  BY DEF MapKernel, MapDirect, LateMap
<1>3. Vm' = Vm
  BY <1>1, <1>2 DEF Vm
<1>4. call' = call \/ call' \in Calls
  BY <1>2 DEF TypeOK
<1>5. CASE call' \in Calls
  <2>1. VM!Ask
    BY <1>2, <1>3, <1>5 DEF VM!Ask, Vm
  <2>2. QED
    BY <2>1 DEF VM!Next
<1>6. QED
  BY <1>3, <1>4, <1>5, Stutters

\* The last write of a call maps the pages it asked for and no other.
LEMMA LeafRefines ==
  ASSUME LateCallsApart, TypeOK, CallKind, Good, WriteLeaf, lost = {}, lost' = {}
  PROVE  VM!Next
<1>1. call # NoCall /\ call' = NoCall /\ pc' = pc /\ pc # "start"
  BY DEF WriteLeaf, CallKind
<1>2. call \in Calls /\ call.vaddr \in VirtualPages /\ call.huge \in BOOLEAN
  BY <1>1 DEF TypeOK, Calls
<1>3. CASE ~call.huge
  <2>1. call.huge = FALSE
    BY <1>2, <1>3
  <2>2. VM!Mapping(call.paddr, call) = Mapped(call.paddr, FALSE, call.uc)
    BY <2>1, Zenon DEF VM!Mapping, Mapped
  <2>3. \A v \in VirtualPages :
          Translate(v)' = IF v = call.vaddr THEN Mapped(call.paddr, FALSE, call.uc) ELSE Translate(v)
    BY <1>3, StepLeaf, Zenon
  <2>4. Vm' = [Vm EXCEPT ![call.vaddr] = Mapped(call.paddr, FALSE, call.uc)]
    <3> DEFINE w == Mapped(call.paddr, FALSE, call.uc)
               x == call.vaddr
    <3>1. \A v \in VirtualPages : Translate(v)' = IF v = x THEN w ELSE Translate(v)
      BY <2>3, Zenon
    <3> HIDE DEF w, x
    <3>2. Vm' = [Vm EXCEPT ![x] = w]
      BY <1>1, <3>1, Zenon DEF Vm
    <3>3. QED
      BY <3>2 DEF w, x
  <2>5. VM!Map
    BY <1>1, <1>3, <2>2, <2>4 DEF VM!Map, Vm
  <2>6. QED
    BY <2>5 DEF VM!Next
<1>4. CASE call.huge
  <2>1. call.huge = TRUE
    BY <1>2, <1>4
  <2>2. \A f : VM!Mapping(f, call) = Mapped(f, TRUE, call.uc)
    BY <2>1, Zenon DEF VM!Mapping, Mapped
  <2>3. \A v \in VirtualPages :
          Translate(v)' = IF v \div E = call.vaddr \div E
                          THEN Mapped((call.paddr - (call.paddr % E)) + (v % E), TRUE, call.uc)
                          ELSE Translate(v)
    BY <1>4, StepLeaf, Zenon
  <2>4. \A v \in VirtualPages :
          (VM!Aligned(v) = VM!Aligned(call.vaddr)) <=> (v \div E = call.vaddr \div E)
    BY <1>2, AlignedIs, IndexIs DEF VM!Aligned
  <2>5. VM!Aligned(call.paddr) = call.paddr - (call.paddr % E)
    BY DEF VM!Aligned
  <2>6. \A v \in VirtualPages :
          Translate(v)' = IF VM!Aligned(v) = VM!Aligned(call.vaddr)
                          THEN VM!Mapping(VM!Aligned(call.paddr) + (v % E), call)
                          ELSE Translate(v)
    BY <2>2, <2>3, <2>4, <2>5, Zenon
  <2>7. VM!MapBlock
    BY <1>1, <1>4, <2>6 DEF VM!MapBlock
  <2>8. QED
    BY <2>7 DEF VM!Next
<1>5. QED
  BY <1>2, <1>3, <1>4, Zenon

\* Every step is one of Vm, or none.
LEMMA StepRefines ==
  ASSUME LateCallsApart, IInv, IInv', [Next]_vars
  PROVE  [VM!Next]_(VM!vars)
<1>1. TypeOK /\ CallKind /\ TypeOK' /\ CallKind'
  BY DEF IInv
<1>2. CASE lost' # {}
  BY <1>2 DEF VM!Next
<1>3. CASE lost' = {}
  <2>1. lost = {} /\ (pc = "start" \/ Good)
    BY <1>1, <1>3, LostGrows DEF IInv, Good
  <2>2. CASE InitPml4
    <3>1. \A v \in VirtualPages : Translate(v)' = Unmapped
      BY <1>1, <1>3, <2>2, StepInitPml4
    <3>2. pc = "start" /\ call' = call
      BY <2>2 DEF InitPml4
    <3>3. Vm' = Vm
      BY <3>1, <3>2 DEF Vm
    <3>4. QED
      BY <1>3, <2>1, <3>2, <3>3, Stutters
  <2>3. CASE MapKernel \/ MapDirect \/ LateMap
    <3>1. pc # "start"
      BY <2>3 DEF MapKernel, MapDirect, LateMap
    <3>2. QED
      BY <1>1, <1>3, <2>1, <2>3, <3>1, BeginRefines, SMTT(30)
  <2>4. CASE Walk
    <3>1. call' = call /\ pc' = pc /\ pc # "start"
      BY <1>1, <2>4 DEF Walk, CallKind
    <3>2. \A v \in VirtualPages : Translate(v)' = Translate(v)
      BY <1>1, <1>3, <2>1, <2>4, <3>1, StepWalk, SMTT(30)
    <3>3. Vm' = Vm
      BY <3>1, <3>2 DEF Vm
    <3>4. QED
      BY <1>3, <2>1, <3>1, <3>3, Stutters, Zenon
  <2>5. CASE WriteLeaf
    <3>1. pc # "start"
      BY <1>1, <2>5 DEF WriteLeaf, CallKind
    <3>2. QED
      BY <1>1, <1>3, <2>1, <2>5, <3>1, LeafRefines, SMTT(30)
  <2>6. CASE UNCHANGED vars
    <3>1. UNCHANGED <<mem, pool, pml4>> /\ pc' = pc /\ call' = call
      BY <2>6 DEF vars
    <3>2. Vm' = Vm
      BY <3>1, SameMemory DEF Vm
    <3>3. QED
      BY <1>3, <2>1, <3>1, <3>2, Stutters
  <2>7. QED
    BY <2>2, <2>3, <2>4, <2>5, <2>6 DEF Next
<1>4. QED
  BY <1>2, <1>3

\* The tables implement the abstract virtual memory: a map_page or map_page_2m call maps
\* what it was asked for at its last step, and no other step changes a translation.
THEOREM Refinement ==
  ASSUME LateCallsApart
  PROVE  Spec => ImplementsVirtualMemory
<1>1. Init => IInv
  BY InvInit
<1>2. IInv /\ [Next]_vars => IInv'
  BY InvNext
<1>3. Init => VM!Init
  BY DEF Init, VM!Init
<1>4. IInv /\ IInv' /\ [Next]_vars => [VM!Next]_(VM!vars)
  BY StepRefines
<1>5. QED
  BY <1>1, <1>2, <1>3, <1>4, PTL DEF Spec, ImplementsVirtualMemory, VM!Spec
-----------------------------------------------------------------------------
(***************************************************************************)
(* What paging_init maps stays mapped                                      *)
(***************************************************************************)
\* The pages of the block at a, a multiple of E.
LEMMA InBlock ==
  ASSUME NEW a \in Nat, a % E = 0, NEW x \in Nat
  PROVE  /\ x < a => x \div E # a \div E
         /\ a <= x /\ x < a + E => x \div E = a \div E /\ x % E = x - a
<1> DEFINE k == a \div E
           q == x \div E
           r == x % E
<1>1. k \in Nat /\ q \in Nat /\ r \in 0..(E - 1) /\ x = q * E + r /\ a = k * E + (a % E)
  BY DivMod DEF Indices
<1> HIDE DEF k, q, r
<1>2. a = k * E /\ k * E \in Nat /\ q * E \in Nat
  BY <1>1, Sizes
<1>3. ASSUME x < a PROVE q # k
  BY <1>1, <1>2, <1>3, Sizes
<1>4. ASSUME a <= x, x < a + E PROVE q = k /\ r = x - a
  <2>1. ASSUME q < k PROVE FALSE
    <3>1. (q + 1) * E <= k * E /\ (q + 1) * E = q * E + E
      BY <1>1, <2>1, Sizes
    <3>2. QED
      BY <1>1, <1>2, <1>4, <3>1, Sizes, SMTT(30)
  <2>2. ASSUME q > k PROVE FALSE
    <3>1. (k + 1) * E <= q * E /\ (k + 1) * E = k * E + E
      BY <1>1, <2>2, Sizes
    <3>2. QED
      BY <1>1, <1>2, <1>4, <3>1, Sizes, SMTT(30)
  <2>3. q = k
    BY <1>1, <2>1, <2>2
  <2>4. QED
    BY <1>1, <1>2, <2>3, Sizes
<1>5. QED
  BY <1>3, <1>4 DEF k, q, r

\* The pages that Progress is about.
LEMMA ProgressPages ==
  /\ KernelStart \in Nat /\ KernelEnd \in Nat
  /\ \A v \in KernelStart..(KernelEnd - 1) : v \in VirtualPages /\ v \notin DirectMap /\ v \in Nat
  /\ \A f \in 0..(top - 1) : f + Offset \in VirtualPages /\ f + Offset \in DirectMap /\ f \in Nat
<1>1. KernelStart \in Nat /\ KernelEnd \in Nat
  BY PagerAssumption, Sizes DEF PagerAssumption, VirtualPages
<1>2. \A v \in KernelStart..(KernelEnd - 1) : v \in VirtualPages /\ v \notin DirectMap /\ v \in Nat
  BY <1>1, CallTypes, DirectMapAssumption DEF DirectMapAssumption
<1>3. \A f \in 0..(top - 1) : f + Offset \in VirtualPages /\ f + Offset \in DirectMap /\ f \in Nat
  BY CallTypes, TopIs DEF DirectMap
<1>4. QED
  BY <1>1, <1>2, <1>3

\* A step that changes no translation and neither begins nor ends a call.
LEMMA ProgressKept ==
  ASSUME Progress, \A v \in VirtualPages : Translate(v)' = Translate(v),
         UNCHANGED <<pc, p, call>>
  PROVE  Progress'
<1>1. /\ \A v \in KernelStart..(KernelEnd - 1) : KernelDone(v) => KernelDone(v)'
      /\ \A f \in 0..(top - 1) : DirectDone(f) => DirectDone(f)'
  BY ProgressPages, Zenon DEF KernelDone, DirectDone
<1>2. QED
  BY <1>1 DEF Progress

\* Beginning a call undoes nothing that paging_init has mapped.
LEMMA ProgressBegin ==
  ASSUME TypeOK, CallKind, Progress, \A v : Translate(v)' = Translate(v),
         MapKernel \/ MapDirect \/ LateMap
  PROVE  Progress'
<1>1. /\ \A v \in KernelStart..(KernelEnd - 1) : KernelDone(v) => KernelDone(v)'
      /\ \A f \in 0..(top - 1) : DirectDone(f) => DirectDone(f)'
  BY Zenon DEF KernelDone, DirectDone
<1>2. call = NoCall /\ p \in Nat /\ KernelStart \in Nat /\ KernelEnd \in Nat /\ top \in Nat
  BY ProgressPages, TopIs DEF MapKernel, MapDirect, LateMap, TypeOK
<1>3. \A c \in Calls : c # NoCall
  BY CallTypes
<1>4. CASE MapKernel
  <2>1. pc = "kernel"
    BY <1>4 DEF MapKernel
  <2>2. \A v \in KernelStart..(KernelEnd - 1) : v < p => KernelDone(v)'
    BY <1>1, <1>2, <2>1, Zenon DEF Progress
  <2>3. CASE p < KernelEnd
    <3>1. pc' = "kernel" /\ p' = p + 1 /\ call'.vaddr = p /\ call' # NoCall
      <4>1. pc' = "kernel" /\ p' = p + 1 /\ call' = KernelCall(p)
        BY <1>2, <1>4, <2>1, <2>3 DEF MapKernel, Begin, KernelCall
      <4>2. p \in KernelStart..(KernelEnd - 1)
        BY <1>2, <2>1, <2>3 DEF CallKind
      <4>3. QED
        BY <1>3, <4>1, <4>2, CallTypes DEF KernelCall
    <3>2. QED
      BY <1>2, <2>2, <3>1 DEF Progress
  <2>4. CASE p >= KernelEnd
    <3>1. pc' = "direct" /\ p' = 0 /\ call' = NoCall
      BY <1>2, <1>4, <2>4 DEF MapKernel
    <3>2. \A v \in KernelStart..(KernelEnd - 1) : KernelDone(v)'
      BY <1>2, <2>2, <2>4
    <3>3. QED
      BY <3>1, <3>2 DEF Progress
  <2>5. QED
    BY <1>2, <2>3, <2>4
<1>5. CASE MapDirect
  <2>1. pc = "direct" /\ p <= top
    BY <1>5 DEF MapDirect, CallKind
  <2>2. /\ \A v \in KernelStart..(KernelEnd - 1) : KernelDone(v)'
        /\ \A f \in 0..(top - 1) : f < p => DirectDone(f)'
    BY <1>1, <1>2, <2>1, Zenon DEF Progress
  <2>3. CASE p < top
    <3>1. pc' = "direct" /\ p' = p + E /\ call' # NoCall
      <4>1. pc' = "direct" /\ p' = p + E /\ call' = DirectCall(p)
        BY <1>2, <1>5, <2>1, <2>3 DEF MapDirect, Begin, DirectCall
      <4>2. p \in 0..(top - 1)
        BY <1>2, <2>3
      <4>3. QED
        BY <1>3, <4>1, <4>2, CallTypes, Zenon
    <3>2. p' - E = p
      BY <1>2, <3>1, Sizes
    <3>3. QED
      BY <2>2, <3>1, <3>2, Zenon DEF Progress
  <2>4. CASE p >= top
    <3>1. pc' = "running"
      BY <1>2, <1>5, <2>4 DEF MapDirect
    <3>2. \A f \in 0..(top - 1) : DirectDone(f)'
      BY <1>2, <2>2, <2>4
    <3>3. QED
      BY <2>2, <3>1, <3>2, Zenon DEF Progress
  <2>5. QED
    BY <1>2, <2>3, <2>4
<1>6. CASE LateMap
  <2>1. pc = "running" /\ pc' = "running"
    BY <1>6 DEF LateMap
  <2>2. QED
    BY <1>1, <2>1 DEF Progress
<1>7. QED
  BY <1>4, <1>5, <1>6

\* The last write of a call adds its pages to what is mapped, and undoes nothing.
LEMMA ProgressLeaf ==
  ASSUME LateCallsApart, TypeOK, CallKind, Good, Progress, WriteLeaf
  PROVE  Progress'
<1>1. call # NoCall /\ call' = NoCall /\ pc' = pc /\ p' = p
  BY DEF WriteLeaf
<1>2. p \in Nat /\ KernelStart \in Nat /\ KernelEnd \in Nat /\ top \in Nat /\ Offset \in Nat
  BY ProgressPages, TopIs DEF TypeOK
<1>3. CASE pc = "kernel"
  <2>1. PICK w \in KernelStart..(KernelEnd - 1) : p = w + 1 /\ call = KernelCall(w)
    BY <1>1, <1>3 DEF CallKind
  <2>2. call.vaddr = w /\ call.paddr = KernelFrame(w) /\ call.uc = FALSE /\ ~call.huge
    BY <2>1 DEF KernelCall
  <2>3. \A v \in VirtualPages :
          Translate(v)' = IF v = w THEN Mapped(KernelFrame(w), FALSE, FALSE) ELSE Translate(v)
    BY <2>2, StepLeaf, Zenon
  <2>4. ASSUME NEW v \in KernelStart..(KernelEnd - 1), v < p PROVE KernelDone(v)'
    <3>1. v \in VirtualPages
      BY ProgressPages
    <3>2. CASE v = w
      BY <2>3, <3>1, <3>2, Zenon DEF KernelDone
    <3>3. CASE v # w
      <4>1. KernelDone(v)
        BY <1>1, <1>3, <2>2, <2>4, <3>3, Zenon DEF Progress
      <4>2. QED
        BY <2>3, <3>1, <3>3, <4>1, Zenon DEF KernelDone
    <3>4. QED
      BY <3>2, <3>3
  <2>5. QED
    BY <1>1, <1>3, <2>4 DEF Progress
<1>4. CASE pc = "direct"
  <2>1. PICK g \in 0..(top - 1) : g % E = 0 /\ p = g + E /\ call = DirectCall(g)
    BY <1>1, <1>4 DEF CallKind
  <2>2. call.vaddr = g + Offset /\ call.paddr = g /\ call.uc = FALSE /\ call.huge
    BY <2>1 DEF DirectCall
  <2>3. g \in Nat /\ g - (g % E) = g /\ (g + Offset) % E = 0 /\ g + Offset \in Nat
    BY <1>2, <2>1, Multiples, TopIs
  <2>4. \A v \in VirtualPages :
          Translate(v)' = IF v \div E = (g + Offset) \div E
                          THEN Mapped(g + (v % E), TRUE, FALSE) ELSE Translate(v)
    BY <2>2, <2>3, StepLeaf, Zenon
  <2>5. ASSUME NEW v \in KernelStart..(KernelEnd - 1) PROVE KernelDone(v)'
    <3>1. KernelDone(v) /\ v \in VirtualPages /\ v \notin DirectMap
      BY <1>4, ProgressPages DEF Progress
    <3>2. v \div E # (g + Offset) \div E
      BY <1>1, <2>2, <3>1, CallApart
    <3>3. QED
      BY <2>4, <3>1, <3>2, Zenon DEF KernelDone
  <2>6. ASSUME NEW f \in 0..(top - 1), f < p PROVE DirectDone(f)'
    <3>1. f \in Nat /\ f + Offset \in VirtualPages /\ f + Offset \in Nat
      BY <1>2, ProgressPages
    <3>2. CASE f < g
      <4>1. (f + Offset) \div E # (g + Offset) \div E
        BY <1>2, <2>3, <3>1, <3>2, InBlock, SMTT(30)
      <4>2. DirectDone(f)
        <5>1. p - E = g
          BY <2>1, <2>3, Sizes
        <5>2. QED
          BY <1>1, <1>4, <3>2, <5>1, Zenon DEF Progress
      <4>3. QED
        BY <2>4, <3>1, <4>1, <4>2, Zenon DEF DirectDone
    <3>3. CASE f >= g
      <4>1. g + Offset <= f + Offset /\ f + Offset < (g + Offset) + E
        BY <1>2, <2>1, <2>3, <2>6, <3>1, <3>3, Sizes, SMTT(30)
      <4>2. (f + Offset) \div E = (g + Offset) \div E /\ (f + Offset) % E = (f + Offset) - (g + Offset)
        BY <2>3, <3>1, <4>1, InBlock, Zenon
      <4>3. g + ((f + Offset) % E) = f
        BY <1>2, <2>3, <3>1, <4>2
      <4>4. QED
        BY <2>4, <3>1, <4>2, <4>3, Zenon DEF DirectDone
    <3>4. QED
      BY <2>3, <3>1, <3>2, <3>3
  <2>7. QED
    BY <1>1, <1>4, <2>5, <2>6 DEF Progress
<1>5. CASE pc = "running"
  <2>1. call \in LateCalls
    BY <1>1, <1>5 DEF CallKind
  <2>2. ~call.huge /\ call.vaddr \notin DirectMap /\ call.vaddr \notin KernelStart..(KernelEnd - 1)
    BY <2>1, CallTypes DEF LateCallsApart
  <2>3. \A v \in VirtualPages : v # call.vaddr => Translate(v)' = Translate(v)
    BY <2>2, StepLeaf, Zenon
  <2>4. ASSUME NEW v \in KernelStart..(KernelEnd - 1) PROVE KernelDone(v)'
    BY <1>5, <2>2, <2>3, ProgressPages, Zenon DEF Progress, KernelDone
  <2>5. ASSUME NEW f \in 0..(top - 1) PROVE DirectDone(f)'
    <3>1. DirectDone(f) /\ f + Offset \in VirtualPages /\ f + Offset # call.vaddr
      BY <1>5, <2>2, ProgressPages DEF Progress
    <3>2. QED
      BY <2>3, <3>1, Zenon DEF DirectDone
  <2>6. QED
    BY <1>1, <1>5, <2>4, <2>5 DEF Progress
<1>6. CASE pc = "start"
  BY <1>1, <1>6 DEF Progress
<1>7. QED
  BY <1>3, <1>4, <1>5, <1>6, Zenon DEF TypeOK

\* The invariant of paging_init's progress, while frames last.
Built == lost = {} => Progress /\ TablesInMemory

\* At boot every free frame is memory.
LEMMA BuiltInit == Init => Built
<1> SUFFICES ASSUME Init PROVE Progress /\ TablesInMemory
  BY DEF Built
<1>1. Progress
  BY DEF Init, Progress
<1>2. pool \in Pools
  BY DEF Init
<1>3. \A f \in pool : f \in Nat /\ f < Max(MemEnds)
  BY <1>2, PagerAssumption, DirectMapAssumption, Sizes
  DEF PagerAssumption, DirectMapAssumption, Frames
<1>4. pool \subseteq 0..(top - 1)
  <2> DEFINE h == Max(MemEnds)
  <2>1. h \in Nat /\ h <= top /\ top \in Nat /\ \A f \in pool : f \in Nat /\ f < h
    BY <1>3, MaxIsEnd, TopIs
  <2> HIDE DEF h
  <2>2. QED
    BY <2>1
<1>5. QED
  BY <1>1, <1>4 DEF TablesInMemory, Init

\* Every step keeps what paging_init has mapped.
LEMMA BuiltNext ==
  ASSUME LateCallsApart, IInv, Built, [Next]_vars
  PROVE  Built'
<1>1. TypeOK /\ CallKind
  BY DEF IInv
<1>2. SUFFICES ASSUME lost' = {} PROVE Progress' /\ TablesInMemory'
  BY DEF Built
<1>3. (pc = "start" \/ Good) /\ Progress /\ TablesInMemory
  BY <1>1, <1>2, LostGrows DEF IInv, Good, Built
<1>4. CASE InitPml4
  <2>1. pc' = "kernel" /\ p' = KernelStart /\ KernelStart \in Nat
    BY <1>4, ProgressPages DEF InitPml4
  <2>2. Progress'
    BY <2>1, ProgressPages DEF Progress
  <2>3. pml4' \in pool /\ pool' \subseteq pool /\ T3' = {} /\ T2' = {} /\ T1' = {}
    BY <1>1, <1>2, <1>4, StepInitPml4
  <2>4. TablesInMemory'
    BY <1>3, <2>3, Zenon DEF TablesInMemory
  <2>5. QED
    BY <2>2, <2>4
<1>5. CASE MapKernel \/ MapDirect \/ LateMap
  <2>1. pc # "start" /\ UNCHANGED <<mem, pool, pml4>>
    BY <1>5 DEF MapKernel, MapDirect, LateMap
  <2>2. Progress'
    BY <1>1, <1>3, <1>5, <2>1, StepBegin, ProgressBegin
  <2>3. TablesInMemory'
    BY <1>3, <2>1, SameMemory, Zenon DEF TablesInMemory
  <2>4. QED
    BY <2>2, <2>3
<1>6. CASE Walk
  <2>1. pc # "start" /\ UNCHANGED <<pc, p, call, pml4>>
    BY <1>1, <1>6 DEF Walk, CallKind
  <2>2. /\ \A v \in VirtualPages : Translate(v)' = Translate(v)
        /\ (T3' \cup T2' \cup T1') \subseteq (T3 \cup T2 \cup T1 \cup pool)
    BY <1>1, <1>2, <1>3, <1>6, <2>1, StepWalk
  <2>3. Progress'
    BY <1>3, <2>1, <2>2, ProgressKept
  <2>4. pool' \subseteq pool
    BY <1>1, <1>6, Alloc, Zenon DEF Walk
  <2>5. TablesInMemory'
    BY <1>3, <2>1, <2>2, <2>4, ZenonT(30) DEF TablesInMemory
  <2>6. QED
    BY <2>3, <2>5
<1>7. CASE WriteLeaf
  <2>1. pc # "start" /\ UNCHANGED <<pc, pool, pml4>>
    BY <1>1, <1>7 DEF WriteLeaf, CallKind
  <2>2. Progress'
    BY <1>1, <1>3, <1>7, <2>1, ProgressLeaf
  <2>3. (T3' \cup T2' \cup T1') \subseteq (T3 \cup T2 \cup T1)
    BY <1>1, <1>3, <1>7, <2>1, StepLeaf, Zenon
  <2>4. TablesInMemory'
    BY <1>3, <2>1, <2>3, Zenon DEF TablesInMemory
  <2>5. QED
    BY <2>2, <2>4
<1>8. CASE UNCHANGED vars
  <2>1. UNCHANGED <<mem, pool, pml4>> /\ UNCHANGED <<pc, p, call>>
    BY <1>8 DEF vars
  <2>2. QED
    BY <1>3, <2>1, SameMemory, ProgressKept DEF TablesInMemory
<1>9. QED
  BY <1>4, <1>5, <1>6, <1>7, <1>8 DEF Next

\* While kalloc_frame finds frames: from the moment CR3 is loaded the kernel's pages and
\* the direct map keep their frames, and the direct map reaches every table.
THEOREM StaysMapped ==
  ASSUME LateCallsApart
  PROVE  Spec => [](lost = {} => PagerStaysMapped)
<1>1. Init => IInv /\ Built
  BY InvInit, BuiltInit
<1>2. IInv /\ Built /\ [Next]_vars => IInv' /\ Built'
  BY InvNext, BuiltNext
<1>3. IInv /\ Built => (lost = {} => PagerStaysMapped)
  <2> SUFFICES ASSUME IInv, Built, lost = {}, cr3
               PROVE  /\ \A v \in KernelStart..KernelEnd-1 :
                           Translate(v) = Mapped(v - KernelStart + PhysicalBase, FALSE, FALSE)
                      /\ \A f \in 0..Max(MemEnds)-1 : Translate(f + Offset) = Mapped(f, TRUE, FALSE)
                      /\ \A t \in Tables : Translate(t + Offset).mapped /\ Translate(t + Offset).frame = t
    BY Zenon DEF PagerStaysMapped, KernelStaysMapped, TablesAreReachable
  <2>1. pc = "running" /\ TypeOK /\ Progress /\ TablesInMemory
    BY DEF IInv, CallKind, Built
  <2>2. /\ \A v \in KernelStart..(KernelEnd - 1) : KernelDone(v)
        /\ \A f \in 0..(top - 1) : DirectDone(f)
    BY <2>1 DEF Progress
  <2>3. ASSUME NEW f \in 0..Max(MemEnds)-1 PROVE f \in 0..(top - 1)
    <3> DEFINE h == Max(MemEnds)
    <3>1. h \in Nat /\ h <= top /\ top \in Nat /\ f \in 0..h-1
      BY <2>3, MaxIsEnd, TopIs, Zenon
    <3> HIDE DEF h
    <3>2. QED
      BY <3>1
  <2>4. ASSUME NEW t \in Tables
        PROVE  Translate(t + Offset).mapped /\ Translate(t + Offset).frame = t
    <3>1. t \in 0..(top - 1)
      BY <2>1, <2>4, TablesAre DEF TablesInMemory
    <3>2. Translate(t + Offset) = Mapped(t, TRUE, FALSE)
      BY <2>2, <3>1, Zenon DEF DirectDone
    <3>3. QED
      BY <3>2 DEF Mapped
  <2>5. QED
    BY <2>2, <2>3, <2>4, Zenon DEF KernelDone, DirectDone, KernelFrame
<1>4. QED
  BY <1>1, <1>2, <1>3, PTL DEF Spec

\* A map_page call that ends with frames left maps its page as the caller asked.  The
\* hypothesis is what the call that maps the I/O APIC in the direct map breaks.
THEOREM CallsEndMapped ==
  ASSUME LateCallsApart
  PROVE  Spec => CallsTakeEffect
<1>1. Init => IInv
  BY InvInit
<1>2. IInv /\ [Next]_vars => IInv'
  BY InvNext
<1> DEFINE Effect == call # NoCall /\ call' = NoCall /\ ~call.huge /\ lost = {} =>
                       \A v \in {call.vaddr} : Translate(v)' = Mapped(call.paddr, FALSE, call.uc)
<1>3. IInv /\ [Next]_vars => [Effect]_vars
  <2> SUFFICES ASSUME IInv, [Next]_vars, call # NoCall, call' = NoCall, ~call.huge, lost = {}
               PROVE  \A v \in {call.vaddr} : Translate(v)' = Mapped(call.paddr, FALSE, call.uc)
    BY Zenon
  <2>1. TypeOK /\ CallKind /\ pc # "start" /\ Good /\ call.vaddr \in VirtualPages
    BY DEF IInv, CallKind, Good, TypeOK, Calls
  <2>2. WriteLeaf
    BY Zenon DEF Next, InitPml4, MapKernel, MapDirect, LateMap, Walk, vars
  <2>3. \A v \in VirtualPages : v = call.vaddr => Translate(v)' = Mapped(call.paddr, FALSE, call.uc)
    BY <2>1, <2>2, StepLeaf, Zenon
  <2>4. QED
    BY <2>1, <2>3, Zenon
<1>4. QED
  BY <1>1, <1>2, <1>3, PTL DEF Spec, CallsTakeEffect
=============================================================================
