---------------------------- MODULE KernelProofs ----------------------------
(***************************************************************************)
(* Proofs about the frame allocator, for every word width, batch size and  *)
(* memory map, and about the interrupts, for every firmware and any number *)
(* of keys.                                                                *)
(***************************************************************************)
EXTENDS PfaRanges, Interrupts, FiniteSetTheorems, TLAPS

\* What is out of the pool is marked: a frame that a client holds or that waits
\* in pre_frames has its bit set, and that bit is one of the bitmap's.
Marked == held \cup Pending \subseteq bitmap \cap Tracked

\* The inductive invariant.
IInv == TypeOK /\ NoDoubleAllocation /\ OnlyUsableFrames /\ Marked

\* No step changes the memory map or npages, so what is defined from them alone
\* stays.
LEMMA MapIsFixed ==
  ASSUME UNCHANGED <<mmap, npages>>
  PROVE  /\ Tracked' = Tracked
         /\ Usable' = Usable
         /\ BitmapFrames' = BitmapFrames
BY DEF Tracked, Words, Usable, BitmapFrames, bitmap_addr, bitmap_size, EntryEnd

\* pfa_init leaves clear only frames that a client may have.
LEMMA InitInv == Init => IInv
<1> SUFFICES ASSUME Init PROVE IInv
  OBVIOUS
<1> USE SizesAssumption DEF SizesAssumption, Frames
<1>1. TypeOK
  <2>1. bitmap \subseteq Frames
    BY DEF Init, pfa_init, Tracked, BitmapFrames
  <2>2. pre_frames \in [0..Prefetch-1 -> Frames]
    BY DEF Init, NULL
  <2>3. pframe \in 0..Prefetch /\ i \in 0..Prefetch
    BY DEF Init
  <2> QED
    BY <2>1, <2>2, <2>3, Zenon DEF Init, pfa_init, TypeOK
<1>2. Slots = {} /\ Pending = {}
  BY DEF Init, Slots, Pending
<1>3. NoDoubleAllocation /\ Marked
  BY <1>2 DEF Init, NoDoubleAllocation, Marked, Pool
<1>4. Clear \subseteq free_available_memory \ (BitmapFrames \cup {0})
  BY DEF Init, pfa_init, Clear
<1>5. free_available_memory \subseteq Usable
  <2> SUFFICES ASSUME NEW f \in Frames, NEW n \in DOMAIN mmap,
                      mmap[n].base <= f, f + 1 < EntryEnd(mmap[n])
               PROVE  f < EntryEnd(mmap[n])
    BY DEF free_available_memory, Usable
  <2>1. mmap[n] \in MemMapEntry
    BY MemMapsAssumption DEF Init
  <2> QED
    BY <2>1 DEF EntryEnd, MemMapEntry
<1>6. OnlyUsableFrames
  BY <1>2, <1>4, <1>5 DEF Init, OnlyUsableFrames, Pool
<1> QED
  BY <1>1, <1>3, <1>6 DEF IInv

\* Every step keeps the invariant: handing out a waiting frame moves it from
\* pre_frames to held, a refill moves clear bits to pre_frames, a failing refill
\* forgets what waited, and a free clears the bit of a held frame.
LEMMA StepInv == IInv /\ [Next]_vars => IInv'
<1> SUFFICES ASSUME IInv, [Next]_vars PROVE IInv'
  OBVIOUS
<1> USE SizesAssumption DEF SizesAssumption, Frames
<1>t. TypeOK /\ NoDoubleAllocation /\ OnlyUsableFrames /\ Marked
  BY DEF IInv
<1>1. CASE KallocPrefetched
  <2>1. UNCHANGED <<mmap, npages>> /\ pframe \in Slots /\ pframe \in 0..Prefetch-1
    BY <1>1, <1>t DEF KallocPrefetched, TypeOK, Slots
  <2>2. Slots' = Slots \ {pframe} /\ pre_frames' = pre_frames
    BY <1>1, <1>t DEF KallocPrefetched, TypeOK, Slots
  <2>3. Pending' = Pending \ {pre_frames[pframe]} /\ pre_frames[pframe] \in Pending
    BY <2>1, <2>2, <1>t, Zenon DEF Pending, NoDoubleAllocation
  <2>4. Clear' = Clear /\ held' = held \cup {pre_frames[pframe]} /\ bitmap' = bitmap
    BY <1>1, <2>1, MapIsFixed DEF KallocPrefetched, Clear, HandOut
  <2>5. TypeOK'
    <3>1. held' \subseteq Frames
      BY <1>t, <2>1, <2>4, Zenon DEF TypeOK
    <3>2. pframe' \in 0..Prefetch
      BY <1>1, <2>1 DEF KallocPrefetched
    <3> QED
      BY <1>1, <1>t, <3>1, <3>2 DEF KallocPrefetched, TypeOK
  <2>6. NoDoubleAllocation'
    BY <1>t, <2>2, <2>3, <2>4 DEF NoDoubleAllocation, Pool
  <2>7. OnlyUsableFrames'
    BY <1>t, <2>1, <2>3, <2>4, MapIsFixed DEF OnlyUsableFrames, Pool
  <2>8. Marked'
    BY <1>t, <2>1, <2>3, <2>4, MapIsFixed DEF Marked
  <2> QED
    BY <2>5, <2>6, <2>7, <2>8 DEF IInv
<1>2. CASE KallocRefill
  <2>1. UNCHANGED <<mmap, npages, bitmap, held>> /\ Slots' = {} /\ Pending' = {}
    BY <1>2 DEF KallocRefill, Slots, Pending
  <2>2. Clear' = Clear
    BY <2>1, MapIsFixed DEF Clear
  <2>3. TypeOK'
    BY <1>2, <1>t DEF KallocRefill, TypeOK
  <2> QED
    BY <1>t, <2>1, <2>2, <2>3, MapIsFixed
    DEF IInv, NoDoubleAllocation, OnlyUsableFrames, Marked, Pool
<1>3. CASE RefillFrame
  <2>1. PICK f \in Clear : kalloc_frame_int(f) /\ pre_frames' = [pre_frames EXCEPT ![i] = f]
    BY <1>3, Zenon DEF RefillFrame
  <2>2. UNCHANGED <<mmap, npages, held>> /\ bitmap' = bitmap \cup {f}
    BY <1>3, <2>1 DEF RefillFrame, kalloc_frame_int
  <2>3. f \in Tracked /\ f \in Frames /\ f \notin bitmap
    BY <2>1 DEF Clear, Tracked
  <2>4. Slots = 0..i-1 /\ Slots' = 0..i /\ i \in 0..Prefetch-1
    BY <1>3, <1>t DEF RefillFrame, Slots, TypeOK
  <2>5. /\ \A n \in 0..i-1 : pre_frames'[n] = pre_frames[n]
        /\ pre_frames'[i] = f
    BY <2>1, <2>4, <1>t DEF TypeOK
  <2>6. Pending' = Pending \cup {f}
    BY <2>4, <2>5 DEF Pending
  <2>7. Clear' = Clear \ {f}
    BY <2>2, MapIsFixed DEF Clear
  <2>8. TypeOK'
    BY <1>3, <1>t, <2>1, <2>2, <2>3, <2>4 DEF RefillFrame, TypeOK
  <2>9. NoDoubleAllocation'
    <3>1. \A n \in 0..i-1 : pre_frames[n] # f
      BY <1>t, <2>3, <2>4 DEF Marked, Pending
    <3>2. \A m, n \in Slots' : pre_frames'[m] = pre_frames'[n] => m = n
      BY <1>t, <2>4, <2>5, <3>1 DEF NoDoubleAllocation
    <3> QED
      BY <1>t, <2>1, <2>2, <2>6, <2>7, <3>2 DEF NoDoubleAllocation, Pool
  <2>10. OnlyUsableFrames' /\ Marked'
    BY <1>t, <2>1, <2>2, <2>3, <2>6, <2>7, MapIsFixed, SMTT(30) DEF OnlyUsableFrames, Pool, Marked
  <2> QED
    BY <2>8, <2>9, <2>10 DEF IInv
<1>4. CASE RefillFails
  <2>1. UNCHANGED <<mmap, npages, bitmap, held>> /\ Slots' = {} /\ Pending' = {}
    BY <1>4, <1>t DEF RefillFails, Slots, Pending, TypeOK
  <2>2. Clear' = Clear
    BY <2>1, MapIsFixed DEF Clear
  <2>3. TypeOK'
    <3>1. pre_frames' \in [0..Prefetch-1 -> Frames]
      BY <1>4, <1>t DEF RefillFails, TypeOK, NULL
    <3>2. i' \in 0..Prefetch
      BY <1>4 DEF RefillFails
    <3> QED
      BY <1>4, <1>t, <3>1, <3>2, Zenon DEF RefillFails, TypeOK
  <2> QED
    BY <1>t, <2>1, <2>2, <2>3, MapIsFixed
    DEF IInv, NoDoubleAllocation, OnlyUsableFrames, Marked, Pool
<1>5. CASE RefillDone
  <2>1. UNCHANGED <<mmap, npages, bitmap, pre_frames>> /\ 0 \in Slots
    BY <1>5 DEF RefillDone, Slots
  <2>2. Slots' = Slots \ {0}
    BY <1>5 DEF RefillDone, Slots
  <2>3. Pending' = Pending \ {pre_frames[0]} /\ pre_frames[0] \in Pending
    BY <2>1, <2>2, <1>t DEF Pending, NoDoubleAllocation
  <2>4. Clear' = Clear /\ held' = held \cup {pre_frames[0]}
    BY <1>5, <2>1, MapIsFixed DEF RefillDone, Clear, HandOut
  <2>5. TypeOK'
    <3>1. held' \subseteq Frames
      <4>1. pre_frames[0] \in Frames
        BY <1>t DEF TypeOK
      <4> QED
        BY <1>t, <2>4, <4>1, Zenon DEF TypeOK
    <3>2. pframe' \in 0..Prefetch /\ i' \in 0..Prefetch
      BY <1>5 DEF RefillDone
    <3>3. allocate' \in {0, 1} /\ filling' = FALSE
      BY <1>5 DEF RefillDone
    <3> QED
      BY <1>t, <2>1, <3>1, <3>2, <3>3, Zenon DEF TypeOK
  <2>6. NoDoubleAllocation'
    BY <1>t, <2>1, <2>2, <2>3, <2>4, SMTT(30) DEF NoDoubleAllocation, Pool
  <2>7. OnlyUsableFrames' /\ Marked'
    BY <1>t, <2>1, <2>3, <2>4, MapIsFixed DEF OnlyUsableFrames, Pool, Marked
  <2> QED
    BY <2>5, <2>6, <2>7 DEF IInv
<1>6. ASSUME NEW f \in held, kfree_frame(f) PROVE IInv'
  <2>1. UNCHANGED <<mmap, npages, pre_frames, pframe, allocate, filling, i>>
        /\ bitmap' = bitmap \ {f} /\ held' = held \ {f}
    BY <1>6 DEF kfree_frame
  <2>2. Slots' = Slots /\ Pending' = Pending
    BY <2>1 DEF Slots, Pending
  <2>3. Clear' = Clear \cup {f} /\ f \notin Pending /\ f \notin Clear
    BY <1>t, <2>1, MapIsFixed, SMTT(30) DEF Clear, Marked, NoDoubleAllocation, Pool
  <2>4. TypeOK'
    BY <1>t, <2>1 DEF TypeOK
  <2>5. NoDoubleAllocation'
    BY <1>t, <2>1, <2>2, <2>3 DEF NoDoubleAllocation, Pool
  <2>6. OnlyUsableFrames' /\ Marked'
    BY <1>t, <2>1, <2>2, <2>3, MapIsFixed, SMTT(30) DEF OnlyUsableFrames, Pool, Marked
  <2> QED
    BY <2>4, <2>5, <2>6 DEF IInv
<1>7. CASE UNCHANGED vars
  <2>1. UNCHANGED <<mmap, npages>> /\ Slots' = Slots /\ Pending' = Pending
        /\ bitmap' = bitmap /\ held' = held /\ pre_frames' = pre_frames
    BY <1>7 DEF vars, Slots, Pending
  <2>2. Clear' = Clear
    BY <2>1, MapIsFixed DEF Clear
  <2>3. TypeOK'
    BY <1>7, <1>t DEF vars, TypeOK
  <2> QED
    BY <1>t, <2>1, <2>2, <2>3, MapIsFixed, SMTT(30)
    DEF IInv, NoDoubleAllocation, OnlyUsableFrames, Marked, Pool
<1> QED
  BY <1>1, <1>2, <1>3, <1>4, <1>5, <1>6, <1>7 DEF Next, kalloc_frame

\* The invariant holds throughout.
LEMMA InvHolds == Spec => []IInv
BY InitInv, StepInv, PTL DEF Spec

\* Type correctness of the allocator.
THEOREM TypeCorrect == Spec => []TypeOK
BY InvHolds, PTL DEF IInv

\* No frame ever has two holders, whatever the memory map and however
\* allocations, frees and failing refills are interleaved.
THEOREM NeverAllocatedTwice == Spec => []NoDoubleAllocation
BY InvHolds, PTL DEF IInv

\* kalloc_frame only ever returns usable frames other than the bitmap's own
\* and frame 0.
THEOREM OnlyUsableAllocated == Spec => []OnlyUsableFrames
BY InvHolds, PTL DEF IInv

\* A refill that fails has fewer than Prefetch frames waiting.
LEMMA FewerThanABatch ==
  ASSUME IInv, filling, i < Prefetch, Clear = {}
  PROVE  Cardinality(Pool) < Prefetch
<1> USE SizesAssumption DEF SizesAssumption
<1>1. i \in 0..Prefetch-1 /\ Pool = {pre_frames[n] : n \in 0..i-1}
  BY DEF IInv, TypeOK, Pool, Pending, Slots
<1> DEFINE g == [n \in 0..i-1 |-> pre_frames[n]]
<1>2. g \in Surjection(0..i-1, Pool)
  BY <1>1, Zenon DEF Surjection
<1>3. IsFiniteSet(0..i-1) /\ Cardinality(0..i-1) = i
  <2>1. 0 \in Int /\ i-1 \in Int
    BY <1>1
  <2>2. IsFiniteSet(0..i-1) /\ Cardinality(0..i-1) = IF 0 > i-1 THEN 0 ELSE i-1-0+1
    BY <2>1, FS_Interval, Zenon
  <2> QED
    BY <1>1, <2>2
<1>4. Cardinality(Pool) <= i /\ IsFiniteSet(Pool)
  BY <1>2, <1>3, FS_Surjection
<1>5. Cardinality(Pool) \in Nat
  BY <1>4, FS_CardinalityType
<1> QED
  BY <1>1, <1>4, <1>5

\* Each step of the allocator is a step of the abstract one, or changes neither
\* its pool nor what is held.
LEMMA StepRefines == IInv /\ IInv' /\ [Next]_vars => [FA!Next]_(FA!vars)
<1> SUFFICES ASSUME IInv, IInv', [Next]_vars PROVE [FA!Next]_(FA!vars)
  OBVIOUS
<1>t. TypeOK /\ NoDoubleAllocation /\ OnlyUsableFrames /\ Marked
  BY DEF IInv
<1> USE SizesAssumption DEF SizesAssumption
<1>0. Pool \subseteq Frames /\ held \subseteq Frames
  BY <1>t DEF OnlyUsableFrames, Usable, TypeOK
<1>1. CASE KallocPrefetched
  <2>1. UNCHANGED <<mmap, npages, pre_frames>> /\ pframe \in Slots
    BY <1>1, <1>t DEF KallocPrefetched, TypeOK, Slots
  <2>2. Slots' = Slots \ {pframe}
    BY <1>1, <1>t DEF KallocPrefetched, TypeOK, Slots
  <2>3. Pending' = Pending \ {pre_frames[pframe]} /\ pre_frames[pframe] \in Pending
    BY <2>1, <2>2, <1>t DEF Pending, NoDoubleAllocation
  <2>4. Clear' = Clear /\ held' = held \cup {pre_frames[pframe]}
    BY <1>1, <2>1, MapIsFixed DEF KallocPrefetched, Clear, HandOut
  <2>5. FA!Alloc(pre_frames[pframe])
    BY <1>t, <2>3, <2>4 DEF FA!Alloc, Pool, NoDoubleAllocation
  <2> QED
    BY <1>0, <2>3, <2>5 DEF FA!Next, Pool
<1>2. CASE KallocRefill
  <2>1. Pending' = {} /\ Pending = {} /\ UNCHANGED <<mmap, npages, bitmap, held>>
    BY <1>2, <1>t DEF KallocRefill, Pending, Slots, TypeOK
  <2>2. Pool' = Pool
    BY <2>1, MapIsFixed DEF Clear, Pool
  <2> QED
    BY <2>1, <2>2 DEF FA!vars
<1>3. CASE RefillFrame
  <2>1. PICK f \in Clear : kalloc_frame_int(f) /\ pre_frames' = [pre_frames EXCEPT ![i] = f]
    BY <1>3, Zenon DEF RefillFrame
  <2>2. UNCHANGED <<mmap, npages, held>> /\ bitmap' = bitmap \cup {f}
    BY <1>3, <2>1 DEF RefillFrame, kalloc_frame_int
  <2>3. Slots = 0..i-1 /\ Slots' = 0..i /\ i \in 0..Prefetch-1
    BY <1>3, <1>t DEF RefillFrame, Slots, TypeOK
  <2>4. /\ \A n \in 0..i-1 : pre_frames'[n] = pre_frames[n]
        /\ pre_frames'[i] = f
    BY <2>1, <2>3, <1>t DEF TypeOK
  <2>5. Pending' = Pending \cup {f}
    BY <2>3, <2>4 DEF Pending
  <2>6. Clear' = Clear \ {f}
    BY <2>2, MapIsFixed DEF Clear
  <2> QED
    BY <2>1, <2>2, <2>5, <2>6 DEF FA!vars, Pool
<1>4. CASE RefillFails
  <2>1. UNCHANGED <<mmap, npages, bitmap, held>> /\ Pending' = {} /\ Clear = {}
    BY <1>4, <1>t DEF RefillFails, Slots, Pending, TypeOK
  <2>2. Pool' = {}
    BY <2>1, MapIsFixed DEF Clear, Pool
  <2>3. Cardinality(Pool) < Prefetch
    BY <1>4, FewerThanABatch DEF RefillFails
  <2>4. FA!AllocFails
    BY <2>1, <2>2, <2>3, Zenon DEF FA!AllocFails, FA!Cardinality, Cardinality
  <2> QED
    BY <2>4, Zenon DEF FA!Next
<1>5. CASE RefillDone
  <2>1. UNCHANGED <<mmap, npages, bitmap, pre_frames>> /\ 0 \in Slots
    BY <1>5 DEF RefillDone, Slots
  <2>2. Slots' = Slots \ {0}
    BY <1>5 DEF RefillDone, Slots
  <2>3. Pending' = Pending \ {pre_frames[0]} /\ pre_frames[0] \in Pending
    BY <2>1, <2>2, <1>t DEF Pending, NoDoubleAllocation
  <2>4. Clear' = Clear /\ held' = held \cup {pre_frames[0]}
    BY <1>5, <2>1, MapIsFixed DEF RefillDone, Clear, HandOut
  <2>5. FA!Alloc(pre_frames[0])
    BY <1>t, <2>3, <2>4 DEF FA!Alloc, Pool, NoDoubleAllocation
  <2> QED
    BY <1>0, <2>3, <2>5 DEF FA!Next, Pool
<1>6. ASSUME NEW f \in held, kfree_frame(f) PROVE FA!Free(f)
  <2>1. UNCHANGED <<mmap, npages, pre_frames, pframe, allocate, filling, i>>
        /\ bitmap' = bitmap \ {f} /\ held' = held \ {f}
    BY <1>6 DEF kfree_frame
  <2>2. Pending' = Pending
    BY <2>1 DEF Slots, Pending
  <2>3. Clear' = Clear \cup {f}
    BY <1>t, <2>1, MapIsFixed DEF Clear, Marked
  <2> QED
    BY <2>1, <2>2, <2>3 DEF FA!Free, Pool
<1>7. CASE UNCHANGED vars
  BY <1>7, MapIsFixed DEF vars, FA!vars, Pool, Pending, Slots, Clear
<1> QED
  BY <1>0, <1>1, <1>2, <1>3, <1>4, <1>5, <1>6, <1>7 DEF Next, kalloc_frame, FA!Next

\* kalloc_frame and kfree_frame implement the abstract frame allocator.
THEOREM Refinement == Spec => ImplementsFrameAllocator
<1>1. Init => FA!Init
  <2>1. Init => Pool \subseteq Frames
    BY InitInv DEF IInv, OnlyUsableFrames, Usable
  <2> QED
    BY <2>1 DEF Init, FA!Init
<1>2. IInv /\ IInv' /\ [Next]_vars => [FA!Next]_(FA!vars)
  BY StepRefines
<1> QED
  BY <1>1, <1>2, InvHolds, PTL DEF Spec, ImplementsFrameAllocator, FA!Spec
-----------------------------------------------------------------------------
(***************************************************************************)
(* pfa_init                                                                *)
(***************************************************************************)
\* Usable memory ends where an unsigned int can still tell, and one of its entries is
\* longer than the bitmap: what pfa_init takes for granted of the memory map.
Addressable == \A n \in DOMAIN mmap : mmap[n].usable => EntryEnd(mmap[n]) < UintPages
RoomForBitmap == \E n \in DOMAIN mmap : mmap[n].usable /\ mmap[n].length * PageBytes > bitmap_size

\* Every set of numbers with an element has a least one; proofs by induction below take
\* the least counterexample.
LEMMA LeastNumber ==
  ASSUME NEW S \in SUBSET Nat, S # {}
  PROVE  \E x \in S : \A y \in S : x <= y
<1>1. PICK x \in S : \A y \in S : ~(<<y, x>> \in OpToRel(<, Nat))
  BY NatLessThanWellFounded, WFMin, Zenon
<1>2. ASSUME NEW y \in S PROVE x <= y
  <2>1. ~(y < x)
    BY <1>1, Zenon DEF OpToRel
  <2>2. QED
    BY <2>1
<1>3. QED
  BY <1>2

\* An entry of the memory map ends at a number.
LEMMA EndIsNat == ASSUME NEW e \in MemMapEntry PROVE EntryEnd(e) \in Nat
BY DEF MemMapEntry, EntryEnd

\* A number that fits does not wrap.
LEMMA NoWrap == \A a \in Nat, b \in Nat \ {0} : a < b => a % b = a
OBVIOUS

\* mem_high after n entries of m, from its value before.
HighStep(m, n, h) == IF m[n].usable /\ EntryEnd(m[n]) > h THEN EntryEnd(m[n]) % UintPages ELSE h

IsHigh(m, k, g) == g[0] = 0 /\ \A n \in 1..k : g[n] = HighStep(m, n, g[n - 1])

\* The loop over the memory map has a result after every number of entries.
LEMMA HighExists ==
  ASSUME NEW m \in Seq(MemMapEntry)
  PROVE  \A k \in 0..Len(m) : \E g \in [0..k -> Nat] : IsHigh(m, k, g)
<1> USE SizesAssumption DEF SizesAssumption
<1> DEFINE Bad == {k \in 0..Len(m) : ~\E g \in [0..k -> Nat] : IsHigh(m, k, g)}
<1> SUFFICES ASSUME Bad # {} PROVE FALSE
  BY Zenon
<1>0. Len(m) \in Nat /\ Bad \in SUBSET Nat
  OBVIOUS
<1>1. PICK k \in Bad : \A l \in Bad : k <= l
  <2> HIDE DEF Bad
  <2> QED
    BY <1>0, LeastNumber
<1>2. k # 0
  <2>1. [n \in 0..0 |-> 0] \in [0..0 -> Nat] /\ IsHigh(m, 0, [n \in 0..0 |-> 0])
    BY DEF IsHigh
  <2>2. QED
    BY <1>1, <2>1, SMTT(30)
<1>3. k \in 1..Len(m) /\ k - 1 \in 0..Len(m) /\ k - 1 \notin Bad
  <2>1. k \in 1..Len(m) /\ k - 1 \in 0..Len(m) /\ ~(k <= k - 1)
    BY <1>0, <1>1, <1>2
  <2>2. QED
    BY <1>1, <2>1, Zenon
<1>4. PICK g \in [0..(k - 1) -> Nat] : IsHigh(m, k - 1, g)
  BY <1>3
<1> DEFINE h == [n \in 0..k |-> IF n = k THEN HighStep(m, k, g[k - 1]) ELSE g[n]]
<1>5. EntryEnd(m[k]) \in Nat
  <2>1. m[k] \in MemMapEntry
    BY <1>3
  <2>2. QED
    BY <2>1, EndIsNat
<1>6. HighStep(m, k, g[k - 1]) \in Nat
  <2>1. EntryEnd(m[k]) % UintPages \in Nat
    BY <1>5
  <2>2. g[k - 1] \in Nat
    BY <1>3, <1>4
  <2>3. QED
    BY <2>1, <2>2 DEF HighStep
<1>7. h \in [0..k -> Nat]
  BY <1>3, <1>4, <1>6
<1>8. IsHigh(m, k, h)
  <2>1. h[0] = 0
    BY <1>3, <1>4, SMTT(30) DEF IsHigh
  <2>2. ASSUME NEW n \in 1..k PROVE h[n] = HighStep(m, n, h[n - 1])
    <3>1. h[n - 1] = g[n - 1]
      BY <1>3
    <3>2. n # k => n \in 1..(k - 1) /\ h[n] = g[n]
      BY <1>3
    <3>3. CASE n = k
      BY <1>3, <3>1, <3>3, SMTT(30)
    <3>4. CASE n # k
      BY <1>4, <3>1, <3>2, <3>4 DEF IsHigh
    <3>5. QED
      BY <3>3, <3>4
  <2>3. QED
    BY <2>1, <2>2, Zenon DEF IsHigh
<1>9. QED
  BY <1>1, <1>7, <1>8, SMTT(30)

\* mem_high is not below the end of a usable entry, if none is past the unsigned int.
LEMMA HighIsHigh ==
  ASSUME NEW m \in Seq(MemMapEntry),
         \A n \in DOMAIN m : m[n].usable => EntryEnd(m[n]) < UintPages
  PROVE  mem_high(m) \in Nat /\ \A n \in DOMAIN m : m[n].usable => EntryEnd(m[n]) <= mem_high(m)
<1> USE SizesAssumption DEF SizesAssumption
<1> DEFINE F(high) == [n \in 0..Len(m) |->
                         IF n = 0 THEN 0
                         ELSE IF m[n].usable /\ EntryEnd(m[n]) > high[n-1]
                              THEN EntryEnd(m[n]) % UintPages ELSE high[n-1]]
           high == CHOOSE g : g = F(g)
<1>1. mem_high(m) = high[Len(m)]
  BY DEF mem_high
<1>2. PICK g \in [0..Len(m) -> Nat] : IsHigh(m, Len(m), g)
  BY HighExists
<1>3. g = F(g)
  BY <1>2 DEF IsHigh, HighStep
<1>4. high = F(high)
  BY <1>3, Zenon
<1> HIDE DEF high
<1>5. high[0] = 0 /\ \A n \in 1..Len(m) : high[n] = HighStep(m, n, high[n-1])
  BY <1>4 DEF HighStep
<1> DEFINE Right(k) == high[k] \in Nat /\ \A n \in 1..k : m[n].usable => EntryEnd(m[n]) <= high[k]
           Bad == {k \in 0..Len(m) : ~Right(k)}
<1>6. Bad = {}
  <2> SUFFICES ASSUME Bad # {} PROVE FALSE
    OBVIOUS
  <2>0. Len(m) \in Nat /\ Bad \in SUBSET Nat
    OBVIOUS
  <2>1. PICK k \in Bad : \A l \in Bad : k <= l
    <3> HIDE DEF Bad
    <3> QED
      BY <2>0, LeastNumber, SMTT(30)
  <2>2. Right(0)
    BY <1>5
  <2>3. k \in 1..Len(m) /\ k - 1 \in 0..Len(m) /\ Right(k - 1)
    BY <2>1, <2>2
  <2>4. EntryEnd(m[k]) \in Nat /\ (m[k].usable => EntryEnd(m[k]) < UintPages)
    <3>1. m[k] \in MemMapEntry /\ k \in DOMAIN m
      BY <2>3
    <3>2. EntryEnd(m[k]) \in Nat
      BY <3>1, EndIsNat
    <3>3. QED
      BY <3>1, <3>2
  <2>5. m[k].usable => EntryEnd(m[k]) % UintPages = EntryEnd(m[k])
    BY <2>4, NoWrap, Zenon
  <2>6. high[k] = HighStep(m, k, high[k - 1])
    BY <1>5, <2>3, SMTT(30)
  <2>7. high[k] \in Nat /\ high[k] >= high[k - 1] /\ (m[k].usable => EntryEnd(m[k]) <= high[k])
    <3>1. CASE m[k].usable /\ EntryEnd(m[k]) > high[k - 1]
      <4>1. high[k] = EntryEnd(m[k])
        BY <2>5, <2>6, <3>1, SMTT(30) DEF HighStep
      <4>2. QED
        BY <2>3, <2>4, <3>1, <4>1, SMTT(30)
    <3>2. CASE ~(m[k].usable /\ EntryEnd(m[k]) > high[k - 1])
      <4>1. high[k] = high[k - 1]
        BY <2>6, <3>2 DEF HighStep
      <4>2. QED
        BY <2>3, <2>4, <3>2, <4>1, SMTT(30)
    <3>3. QED
      BY <3>1, <3>2
  <2>8. ASSUME NEW n \in 1..k, m[n].usable PROVE EntryEnd(m[n]) <= high[k]
    <3>1. CASE n = k
      BY <2>7, <2>8, <3>1
    <3>2. CASE n # k
      <4>1. n \in 1..(k - 1) /\ n \in 1..Len(m)
        BY <2>3, <3>2
      <4>2. EntryEnd(m[n]) \in Nat /\ EntryEnd(m[n]) <= high[k - 1]
        <5>1. m[n] \in MemMapEntry
          BY <4>1
        <5>2. EntryEnd(m[n]) \in Nat
          BY <5>1, EndIsNat
        <5>3. QED
          BY <2>3, <2>8, <4>1, <5>2
      <4>3. QED
        BY <2>3, <2>7, <4>2, SMTT(30)
    <3>3. QED
      BY <3>1, <3>2
  <2>9. QED
    BY <2>1, <2>7, <2>8
<1>7. Right(Len(m))
  BY <1>6
<1>8. QED
  BY <1>1, <1>7

\* Rounding up: enough, and not more than what fits.
LEMMA RoundUp ==
  ASSUME NEW a \in Nat, NEW b \in Nat \ {0}
  PROVE  /\ (a + b - 1) \div b \in Nat /\ a <= b * ((a + b - 1) \div b)
         /\ \A c \in Nat : a <= c * b => (a + b - 1) \div b <= c
<1> DEFINE d == a + b - 1
           e == d \div b
<1>1. d \in Nat
  OBVIOUS
<1> HIDE DEF d
<1>2. e \in Nat /\ e * b <= d /\ d < e * b + b
  BY <1>1
<1> HIDE DEF e
<1>3. a <= b * e
  BY <1>2 DEF d
<1>4. ASSUME NEW c \in Nat, a <= c * b PROVE e <= c
  <2>1. e * b < (c + 1) * b
    <3>1. (c + 1) * b = c * b + b
      OBVIOUS
    <3>2. QED
      BY <1>2, <1>4, <3>1 DEF d
  <2>2. ASSUME e > c PROVE FALSE
    <3>1. (c + 1) * b <= e * b
      BY <1>2, <2>2
    <3>2. QED
      BY <1>2, <2>1, <3>1
  <2>3. QED
    BY <1>2, <2>2
<1>5. QED
  BY <1>2, <1>3, <1>4 DEF d, e

\* The words of the bitmap hold a bit for every frame of usable memory, and the bitmap
\* lies in one usable entry.
LEMMA BitmapIsLargeEnough ==
  ASSUME TypeOK, Addressable, RoomForBitmap
  PROVE  BitmapCoversMemory
<1> USE SizesAssumption DEF SizesAssumption
<1>1. mmap \in Seq(MemMapEntry) /\ npages = mem_high(mmap)
  BY MemMapsAssumption DEF TypeOK
<1>2. npages \in Nat /\ \A n \in DOMAIN mmap : mmap[n].usable => EntryEnd(mmap[n]) <= npages
  BY <1>1, HighIsHigh DEF Addressable
<1>3. Words \in Nat /\ npages <= W * Words
  BY <1>2, RoundUp DEF Words
<1>4. ASSUME NEW n \in DOMAIN mmap
      PROVE  mmap[n].base \in Nat /\ mmap[n].length \in Nat
             /\ EntryEnd(mmap[n]) = mmap[n].base + mmap[n].length
  <2>1. mmap[n] \in MemMapEntry
    BY <1>1
  <2>2. QED
    BY <2>1 DEF MemMapEntry, EntryEnd
<1>5. \A f \in Frames, n \in DOMAIN mmap : mmap[n].usable /\ f < EntryEnd(mmap[n]) => f \in Tracked
  <2> SUFFICES ASSUME NEW f \in Frames, NEW n \in DOMAIN mmap, mmap[n].usable, f < EntryEnd(mmap[n])
               PROVE  f \in Tracked
    OBVIOUS
  <2>1. f \in Nat /\ EntryEnd(mmap[n]) \in Nat /\ EntryEnd(mmap[n]) <= npages /\ W * Words \in Nat
    BY <1>2, <1>3, <1>4, SMTT(30) DEF Frames
  <2>2. f < W * Words
    BY <1>2, <1>3, <2>1
  <2>3. QED
    BY <2>2 DEF Tracked
<1>6. free_available_memory \subseteq Tracked
  <2> SUFFICES ASSUME NEW f \in Frames, NEW n \in DOMAIN mmap, mmap[n].usable, f + 1 < EntryEnd(mmap[n])
               PROVE  f < EntryEnd(mmap[n])
    BY <1>5 DEF free_available_memory
  <2> QED
    BY <1>4 DEF Frames
<1> DEFINE Fits == {n \in DOMAIN mmap : mmap[n].usable /\ mmap[n].length * PageBytes > bitmap_size}
<1>7. PICK e \in Fits : bitmap_addr = mmap[e].base
  <2>1. Fits # {} /\ Fits \in SUBSET Nat
    BY <1>1 DEF RoomForBitmap
  <2>2. \E n \in Fits : \A l \in Fits : n <= l
    <3> HIDE DEF Fits
    <3> QED
      BY <2>1, LeastNumber
  <2>3. bitmap_addr = mmap[CHOOSE n \in Fits : \A l \in Fits : n <= l].base
    BY DEF bitmap_addr
  <2>4. (CHOOSE n \in Fits : \A l \in Fits : n <= l) \in Fits
    <3> HIDE DEF Fits
    <3> QED
      BY <2>2, Zenon
  <2>5. QED
    BY <2>3, <2>4, Zenon
<1> DEFINE count == (bitmap_size + PageBytes - 1) \div PageBytes
<1>8. count \in Nat /\ count <= mmap[e].length
  <2>1. bitmap_size \in Nat /\ mmap[e].length \in Nat
    BY <1>3, <1>4 DEF bitmap_size
  <2>2. bitmap_size <= mmap[e].length * PageBytes
    BY <2>1
  <2>3. QED
    BY <2>1, <2>2, RoundUp, SMTT(30)
<1>9. ASSUME NEW f \in BitmapFrames PROVE f \in Tracked /\ f \in Usable
  <2>1. f \in Frames /\ mmap[e].base <= f /\ f < mmap[e].base + count
    BY <1>7, <1>9, Zenon DEF BitmapFrames
  <2>2. e \in DOMAIN mmap /\ mmap[e].usable
    OBVIOUS
  <2> HIDE DEF count
  <2>3. f < EntryEnd(mmap[e])
    BY <1>4, <1>8, <2>1, <2>2 DEF Frames
  <2>4. QED
    BY <1>5, <2>1, <2>2, <2>3 DEF Usable
<1>10. QED
  BY <1>6, <1>9 DEF BitmapCoversMemory

\* Every bit that pfa_init sets or clears lies in the bitmap, and the bitmap in usable
\* memory, for every memory map that an unsigned int can address and that has room.
THEOREM BitmapCovers == Spec /\ Addressable /\ RoomForBitmap => []BitmapCoversMemory
<1>1. Addressable /\ RoomForBitmap /\ [Next]_vars => Addressable' /\ RoomForBitmap'
  <2> SUFFICES ASSUME [Next]_vars PROVE UNCHANGED <<mmap, npages>>
    BY DEF Addressable, RoomForBitmap, bitmap_size, Words, EntryEnd
  <2> QED
    BY DEF Next, kalloc_frame, KallocPrefetched, KallocRefill, RefillFrame, RefillFails, RefillDone,
           kfree_frame, vars
<1>2. TypeOK /\ Addressable /\ RoomForBitmap => BitmapCoversMemory
  BY BitmapIsLargeEnough
<1>3. QED
  BY <1>1, <1>2, TypeCorrect, PTL DEF Spec
-----------------------------------------------------------------------------
(***************************************************************************)
(* kalloc_frames                                                           *)
(***************************************************************************)
\* The word and the bit of a frame.
LEMMA WordAndBit ==
  ASSUME NEW x \in Nat
  PROVE  /\ x \div W \in Nat /\ x % W \in 0..(W - 1) /\ x = (x \div W) * W + (x % W)
BY SizesAssumption DEF SizesAssumption

\* Frames are in the order of their words, and in a word in the order of their bits.
LEMMA WordOrder ==
  ASSUME NEW x \in Nat, NEW y \in Nat, x <= y
  PROVE  x \div W <= y \div W /\ (x \div W = y \div W => x % W <= y % W)
<1> USE SizesAssumption DEF SizesAssumption
<1> DEFINE a == x \div W
           b == x % W
           c == y \div W
           d == y % W
<1>1. /\ a \in Nat /\ b \in 0..(W - 1) /\ x = a * W + b
      /\ c \in Nat /\ d \in 0..(W - 1) /\ y = c * W + d
  BY WordAndBit
<1> HIDE DEF a, b, c, d
<1>2. ASSUME c < a PROVE FALSE
  <2>1. (c + 1) * W <= a * W
    BY <1>1, <1>2
  <2>2. (c + 1) * W = c * W + W
    BY <1>1
  <2>3. QED
    BY <1>1, <2>1, <2>2
<1>3. a = c => b <= d
  BY <1>1
<1>4. QED
  BY <1>1, <1>2, <1>3, SMTT(30) DEF a, b, c, d

\* set_range and clear_range reach every frame from start to end.
LEMMA RangeIsMasked ==
  ASSUME NEW start \in Nat, NEW end \in Nat, NEW x \in start..end
  PROVE  x \in RangeMask(start, end)
<1> USE SizesAssumption DEF SizesAssumption
<1> DEFINE k == x \div W
           b == x % W
           first == ToWord(OnesLeft(start % W))
           last == ToWord(OnesRight(W - 1 - (end % W)))
           In(l, bits) == {l * W + c : c \in bits}
<1>1. x \in Nat /\ k \in Nat /\ b \in 0..(W - 1) /\ x = k * W + b
  BY WordAndBit
<1>2. start \div W \in Nat /\ end \div W \in Nat /\ start % W \in 0..(W - 1) /\ end % W \in 0..(W - 1)
  BY WordAndBit, SMTT(30)
<1>3. /\ start \div W <= k /\ (start \div W = k => start % W <= b)
      /\ k <= end \div W /\ (k = end \div W => b <= end % W)
  <2>1. x \in Nat /\ start <= x /\ x <= end
    BY <1>1
  <2>2. QED
    BY <2>1, WordOrder, Zenon
<1>4. start \div W = k => b \in first
  BY <1>1, <1>2, <1>3 DEF ToWord, OnesLeft, WordBits
<1>5. k = end \div W => b \in last
  BY <1>1, <1>2, <1>3 DEF ToWord, OnesRight, WordBits
<1>6. start \div W < k /\ k < end \div W => x \in ((start \div W) + 1) * W .. (end \div W) * W - 1
  <2> HIDE DEF k, b
  <2> DEFINE sw == start \div W
             ew == end \div W
  <2>0. sw \in Nat /\ ew \in Nat
    BY <1>2
  <2> SUFFICES ASSUME sw < k, k < ew PROVE x \in (sw + 1) * W .. ew * W - 1
    OBVIOUS
  <2> HIDE DEF sw, ew
  <2>1. (sw + 1) * W <= k * W
    BY <1>1, <2>0
  <2>2. (k + 1) * W <= ew * W /\ (k + 1) * W = k * W + W
    BY <1>1, <2>0, SMTT(30)
  <2>3. QED
    BY <1>1, <2>0, <2>1, <2>2
<1>7. RangeMask(start, end) =
        IF start \div W = end \div W THEN In(start \div W, first \cap last)
        ELSE In(start \div W, first) \cup (((start \div W) + 1) * W .. (end \div W) * W - 1)
               \cup In(end \div W, last)
  BY DEF RangeMask
<1> HIDE DEF first, last, k, b
<1>8. CASE start \div W = end \div W
  <2>1. start \div W = k /\ k = end \div W
    BY <1>1, <1>2, <1>3, <1>8
  <2>2. x \in In(start \div W, first \cap last)
    BY <1>1, <1>4, <1>5, <2>1, Zenon
  <2>3. QED
    BY <1>7, <1>8, <2>2
<1>9. CASE start \div W # end \div W
  <2>1. CASE k = start \div W
    <3>1. x \in In(start \div W, first)
      BY <1>1, <1>4, <2>1, SMTT(30)
    <3>2. QED
      BY <1>7, <1>9, <3>1
  <2>2. CASE k = end \div W
    <3>1. x \in In(end \div W, last)
      BY <1>1, <1>5, <2>2
    <3>2. QED
      BY <1>7, <1>9, <3>1, SMTT(30)
  <2>3. CASE start \div W < k /\ k < end \div W
    BY <1>6, <1>7, <1>9, <2>3
  <2>4. QED
    BY <1>1, <1>2, <1>3, <2>1, <2>2, <2>3, SMTT(30)
<1>10. QED
  BY <1>8, <1>9

\* Where the bit behind the run lies in the word that kalloc_frames takes it to be in,
\* test_range has looked at every frame of the run.
LEMMA TestedRunIsClear ==
  ASSUME NEW bits, NEW s \in Nat, NEW n \in Nat, Tests(bits, s, n), (s % W) + (n % W) < W,
         NEW x \in s..(s + n - 1)
  PROVE  x \notin bits
<1> USE SizesAssumption DEF SizesAssumption
<1> DEFINE sw == s \div W
           sb == s % W
           nw == n \div W
           nb == n % W
           k == x \div W
           b == x % W
<1>1. /\ sw \in Nat /\ sb \in 0..(W - 1) /\ s = sw * W + sb
      /\ nw \in Nat /\ nb \in 0..(W - 1) /\ n = nw * W + nb
      /\ x \in Nat /\ k \in Nat /\ b \in 0..(W - 1) /\ x = k * W + b
  <2>1. x \in Nat
    OBVIOUS
  <2>2. QED
    BY <2>1, WordAndBit, Zenon
<1>2. sw <= k /\ (sw = k => sb <= b)
  <2>1. x \in Nat /\ s <= x
    OBVIOUS
  <2>2. QED
    BY <2>1, WordOrder, Zenon
<1>3. (n + sb) % W = sb + nb
  <2> HIDE DEF sw, sb, nw, nb, k, b
  <2>1. n + sb = W * nw + (sb + nb) /\ n + sb \in Nat /\ sb + nb \in 0..(W - 1)
    BY <1>1 DEF sb, nb
  <2>2. \A a, q \in Nat : \A r \in 0..(W - 1) : a = W * q + r => a % W = r
    OBVIOUS
  <2>3. QED
    BY <1>1, <2>1, <2>2, SMTT(30)
<1>4. k <= sw + nw /\ (k = sw + nw => b < sb + nb)
  <2> HIDE DEF sw, sb, nw, nb, k, b
  <2>1. (sw + nw) * W = sw * W + nw * W
    BY <1>1
  <2>2. k * W + b < (sw + nw) * W + (sb + nb)
    BY <1>1, <2>1
  <2>3. sb + nb < W
    BY DEF sb, nb
  <2>4. ASSUME k > sw + nw PROVE FALSE
    <3>1. ((sw + nw) + 1) * W <= k * W
      BY <1>1, <2>4, SMTT(30)
    <3>2. ((sw + nw) + 1) * W = (sw + nw) * W + W
      BY <1>1, SMTT(30)
    <3>3. QED
      BY <1>1, <2>2, <2>3, <3>1, <3>2, SMTT(30)
  <2>5. ASSUME k = sw + nw PROVE b < sb + nb
    BY <1>1, <2>2, <2>5, SMTT(30)
  <2>6. QED
    BY <1>1, <2>4, <2>5
<1>5. test_range(bits, sw, sw + nw, sb, sb + nb)
  BY <1>3, SMTT(30) DEF Tests
<1> HIDE DEF sw, sb, nw, nb, k, b
<1>6. b \in Word(bits, k) <=> x \in bits
  BY <1>1 DEF Word, WordBits
<1>7. CASE nw = 0
  <2>1. k = sw /\ sw + nw = sw
    BY <1>1, <1>2, <1>4, <1>7, SMTT(30)
  <2>2. b \in FromBit(sb) \cap BelowBit(sb + nb)
    BY <1>1, <1>2, <1>4, <1>7, <2>1, SMTT(30) DEF FromBit, BelowBit, WordBits
  <2>3. Word(bits, k) \cap (FromBit(sb) \cap BelowBit(sb + nb)) = {}
    BY <1>5, <2>1 DEF test_range
  <2>4. QED
    BY <1>6, <2>2, <2>3, SMTT(30)
<1>8. CASE nw # 0
  <2>1. sw # sw + nw
    BY <1>1, <1>8
  <2>2. /\ Word(bits, sw) \cap FromBit(sb) = {}
        /\ \A l \in (sw + 1)..((sw + nw) - 1) : Word(bits, l) = {}
        /\ Word(bits, sw + nw) \cap BelowBit(sb + nb) = {}
    BY <1>5, <2>1, Zenon DEF test_range
  <2>3. CASE k = sw
    <3>1. b \in FromBit(sb)
      BY <1>1, <1>2, <2>3, SMTT(30) DEF FromBit, WordBits
    <3>2. QED
      BY <1>6, <2>2, <2>3, <3>1, SMTT(30)
  <2>4. CASE k = sw + nw
    <3>1. b \in BelowBit(sb + nb)
      BY <1>1, <1>4, <2>4 DEF BelowBit, WordBits
    <3>2. QED
      BY <1>6, <2>2, <2>4, <3>1
  <2>5. CASE k # sw /\ k # sw + nw
    <3>1. k \in (sw + 1)..((sw + nw) - 1)
      BY <1>1, <1>2, <1>4, <2>5
    <3>2. QED
      BY <1>6, <2>2, <3>1
  <2>6. QED
    BY <2>3, <2>4, <2>5, SMTT(30)
<1>9. QED
  BY <1>7, <1>8

\* A new run is where kalloc_frames tested last and marked.
LEMMA NewRun ==
  ASSUME [RNext]_rvars, NEW r \in runs' \ runs
  PROVE  /\ r.start \in Nat /\ r.frames \in Nat \ {0}
         /\ \E past : Tests(bitmap \cup past, r.start, r.frames)
         /\ bitmap' = bitmap \cup (RangeMask(r.start, r.start + r.frames) \cap Tracked)
         /\ Tracked' = Tracked
<1> USE SizesAssumption, BoundsAssumption DEF SizesAssumption, BoundsAssumption
<1>1. runs' # runs /\ ~UNCHANGED rvars
  BY DEF rvars
<1>2. ~\E q \in runs : kfree_frames(q)
  BY DEF kfree_frames
<1>3. PICK n \in 1..MaxRun : kalloc_frames(n)
  BY <1>1, <1>2, SMTT(30) DEF RNext
<1>4. n \in Nat \ {0} /\ UNCHANGED <<mmap, npages>>
  BY <1>3 DEF kalloc_frames
<1>5. PICK past \in Past(n) :
        LET Fits == {k \in Tracked : Tests(bitmap \cup past, k, n)}
        IN  /\ Fits # {}
            /\ LET s_idx == CHOOSE k \in Fits : \A l \in Fits : k <= l
               IN  /\ set_range(s_idx, s_idx + n)
                   /\ runs' = runs \cup {[start |-> s_idx, frames |-> n]}
  BY <1>3, Zenon DEF kalloc_frames
<1> DEFINE Fits == {k \in Tracked : Tests(bitmap \cup past, k, n)}
           s_idx == CHOOSE k \in Fits : \A l \in Fits : k <= l
<1>6. /\ Fits # {} /\ set_range(s_idx, s_idx + n)
      /\ runs' = runs \cup {[start |-> s_idx, frames |-> n]}
  BY <1>5, Zenon
<1>7. Fits \in SUBSET Nat
  BY DEF Tracked, Frames
<1>8. s_idx \in Fits
  <2> HIDE DEF Fits
  <2>1. \E k \in Fits : \A l \in Fits : k <= l
    BY <1>6, <1>7, LeastNumber
  <2>2. QED
    BY <2>1, Zenon
<1>9. s_idx \in Nat /\ Tests(bitmap \cup past, s_idx, n)
  BY <1>7, <1>8
<1> HIDE DEF s_idx, Fits
<1>10. r = [start |-> s_idx, frames |-> n]
  BY <1>6
<1>11. r.start = s_idx /\ r.frames = n
  BY <1>10
<1>12. Tracked' = Tracked
  BY <1>4, MapIsFixed
<1>13. QED
  BY <1>4, <1>6, <1>9, <1>11, <1>12, ZenonT(30) DEF set_range

\* A run that kalloc_frames returns is marked to its last frame, for every word width,
\* length of the run and state of the bitmap.
THEOREM RunsMarked == RSpec => RunsAreMarked
<1>1. [RNext]_rvars => \A r \in runs' \ runs : FramesOf(r) \cap Tracked \subseteq bitmap'
  <2> SUFFICES ASSUME [RNext]_rvars, NEW r \in runs' \ runs, NEW x \in FramesOf(r), x \in Tracked
               PROVE  x \in bitmap'
    OBVIOUS
  <2>1. /\ r.start \in Nat /\ r.frames \in Nat \ {0}
        /\ bitmap' = bitmap \cup (RangeMask(r.start, r.start + r.frames) \cap Tracked)
    BY NewRun
  <2>2. x \in r.start..(r.start + r.frames)
    BY <2>1 DEF FramesOf
  <2>3. x \in RangeMask(r.start, r.start + r.frames)
    BY <2>1, <2>2, RangeIsMasked
  <2>4. QED
    BY <2>1, <2>3
<1>2. QED
  BY <1>1, PTL DEF RSpec, RunsAreMarked

\* A run that neither ends with its word nor crosses one more word boundary than
\* frames >> 5 was clear to its last frame, for every word width.
THEOREM InWordRunsClear == RSpec => InWordRunsWereClear
<1>1. [RNext]_rvars => \A r \in runs' \ runs :
                         (r.start % W) + (r.frames % W) < W => FramesOf(r) \cap bitmap = {}
  <2> SUFFICES ASSUME [RNext]_rvars, NEW r \in runs' \ runs, (r.start % W) + (r.frames % W) < W,
                      NEW x \in FramesOf(r)
               PROVE  x \notin bitmap
    OBVIOUS
  <2>1. /\ r.start \in Nat /\ r.frames \in Nat \ {0}
        /\ \E past : Tests(bitmap \cup past, r.start, r.frames)
    BY NewRun, SMTT(30)
  <2>2. PICK past : Tests(bitmap \cup past, r.start, r.frames)
    BY <2>1, Zenon
  <2>3. x \in r.start..(r.start + r.frames - 1)
    BY DEF FramesOf
  <2>4. x \notin bitmap \cup past
    BY <2>1, <2>2, <2>3, TestedRunIsClear, Zenon
  <2>5. QED
    BY <2>4
<1>2. QED
  BY <1>1, PTL DEF RSpec, InWordRunsWereClear
-----------------------------------------------------------------------------
(***************************************************************************)
(* AcknowledgedOnce and HardwareIrqsReturn of Interrupts.                  *)
(*                                                                         *)
(* Both rest on one invariant: which vectors can be where (Typed), and     *)
(* that the PIC has an unmasked line only at the two steps of the boot     *)
(* code between remap_irqs and pic_disable (Window).  The second needs     *)
(* also that no vector is pending before send_eoi has its address (Early). *)
(***************************************************************************)
Pic == FirmwareBase..(FirmwareBase + 7)

Typed ==
  /\ pc \in 1..16
  /\ "vector" \in DOMAIN cpu /\ cpu.vector \in {0, 255} \cup Vectors \cup Pic
  /\ pic \in [mask : SUBSET Lines, irr : SUBSET Lines, base : {FirmwareBase}]
  /\ "irr" \in DOMAIN lapic /\ "isr" \in DOMAIN lapic
  /\ lapic.irr \subseteq Vectors /\ lapic.isr \subseteq Vectors
  /\ route \in [Lines -> {0, 33, 34, 35}]

Window == pc \in {4, 5} \/ (pic.mask = Lines /\ cpu.vector \notin Pic)

IrqInv == Typed /\ Window /\ AcknowledgedOnce

USE DEF Vectors, TIMER_VECTOR, Pic, FirmwareBase, Lines

\* Where the boot code's steps stand.
LEMMA Places ==
  ASSUME NEW k \in 1..16
  PROVE  /\ Boot[k] = "remap1" <=> k = 3
         /\ Boot[k] = "remap2" <=> k = 4
         /\ Boot[k] = "disable1" <=> k = 5
         /\ Boot[k] = "apic_offset" <=> k = 7
         /\ Boot[k] = "enable" <=> k = 9
         /\ Boot[k] = "apic_start_timer" <=> k = 11
         /\ Boot[k] \in {"route1", "route3", "route4"} <=> k \in 12..14
         /\ Boot[k] = "hcf" <=> k = 16
BY DEF Boot

\* The invariant holds when kernel_main reaches idt_init.
LEMMA IrqStart == IrqInit => IrqInv
<1> SUFFICES ASSUME IrqInit PROVE IrqInv
  OBVIOUS
<1>1. Typed
  BY InterruptsAssumption DEF IrqInit, Typed, InterruptsAssumption
<1>2. Window /\ AcknowledgedOnce
  BY DEF IrqInit, Window, AcknowledgedOnce
<1> QED
  BY <1>1, <1>2, SMTT(30) DEF IrqInv

\* A step of the boot code runs outside handlers and changes no vector.
LEMMA BootInv == ASSUME IrqInv, BootCode PROVE IrqInv'
<1> USE DEF IrqInv, Go
<1>1. cpu.vector = 0 /\ pc \in 1..16
  BY DEF Typed, BootCode, idt_init, Elsewhere, remap_irqs, pic_disable, apic_init,
         apic_start_timer, ioapic_route, ps2_init, At, Running
<1>2. pc # 16
  BY <1>1, Places DEF BootCode, idt_init, Elsewhere, remap_irqs, pic_disable, apic_init,
         apic_start_timer, ioapic_route, ps2_init, At
<1>3. CASE idt_init
  BY <1>1, <1>2, <1>3, Places, SMTT(30) DEF idt_init, At, Typed, Window, AcknowledgedOnce
<1>4. CASE Elsewhere
  BY <1>1, <1>2, <1>4, Places, SMTT(30) DEF Elsewhere, At, Typed, Window, AcknowledgedOnce
<1>5. CASE remap_irqs
  BY <1>1, <1>2, <1>5, Places, SMTT(30) DEF remap_irqs, At, Typed, Window, AcknowledgedOnce
<1>6. CASE pic_disable
  BY <1>1, <1>2, <1>6, Places, SMTT(30) DEF pic_disable, Disabled, At, Typed, Window, AcknowledgedOnce
<1>7. CASE apic_init
  BY <1>1, <1>2, <1>7, Places, SMTT(30) DEF apic_init, At, Typed, Window, AcknowledgedOnce
<1>8. CASE apic_start_timer
  BY <1>1, <1>2, <1>8, Places, SMTT(30) DEF apic_start_timer, At, Typed, Window, AcknowledgedOnce
<1>9. CASE ioapic_route
  BY <1>1, <1>2, <1>9, Places, SMTT(30) DEF ioapic_route, At, Typed, Window, AcknowledgedOnce
<1>10. CASE ps2_init
  BY <1>1, <1>2, <1>10, Places, SMTT(30) DEF ps2_init, At, Typed, Window, AcknowledgedOnce
<1> QED
  BY <1>3, <1>4, <1>5, <1>6, <1>7, <1>8, <1>9, <1>10, SMTT(30) DEF BootCode

\* Hardware makes vectors pending and starts handlers.
LEMMA HardwareInv ==
  ASSUME IrqInv,
         \/ PitEdge \/ SerialEdge \/ Type \/ Arrive \/ TimerExpires
         \/ (\E v \in Vectors : DeliverLapic(v)) \/ (\E l \in Lines : DeliverPic(l)) \/ DeliverSpurious
  PROVE  IrqInv'
<1> USE DEF IrqInv
<1>1. CASE PitEdge
  BY <1>1 DEF PitEdge, Raise, Accept, Typed, Window, AcknowledgedOnce
<1>2. CASE SerialEdge
  BY <1>2 DEF SerialEdge, Raise, Accept, Typed, Window, AcknowledgedOnce
<1>3. CASE Type
  BY <1>3 DEF Type, Typed, Window, AcknowledgedOnce
<1>4. CASE Arrive
  BY <1>4 DEF Arrive, Raise, Accept, Typed, Window, AcknowledgedOnce
<1>5. CASE TimerExpires
  BY <1>5 DEF TimerExpires, Typed, Window, AcknowledgedOnce
<1>6. CASE \E v \in Vectors : DeliverLapic(v)
  BY <1>6 DEF DeliverLapic, Enter, Running, Typed, Window, AcknowledgedOnce
<1>7. CASE \E l \in Lines : DeliverPic(l)
  BY <1>7 DEF DeliverPic, Enter, Running, Typed, Window, AcknowledgedOnce
<1>8. CASE DeliverSpurious
  BY <1>8 DEF DeliverSpurious, Enter, Running, Typed, Window, AcknowledgedOnce
<1> QED
  BY <1>1, <1>2, <1>3, <1>4, <1>5, <1>6, <1>7, <1>8, SMTT(30)

\* exception_handler retires the vector it was entered with, and no other.
LEMMA HandlerInv == ASSUME IrqInv, Dispatch \/ send_eoi PROVE IrqInv'
<1> USE DEF IrqInv
<1>1. CASE Dispatch
  BY <1>1 DEF Dispatch, Quiet, Typed, Window, AcknowledgedOnce
<1>2. CASE send_eoi
  <2>1. CASE ~apic_offset
    BY <1>2, <2>1, SMTT(30) DEF send_eoi, Typed, Window, AcknowledgedOnce
  <2>2. CASE apic_offset
    <3>1. lapic'.isr = {}
      BY <1>2, <2>2 DEF send_eoi, Acknowledges, Typed, AcknowledgedOnce
    <3>2. cpu'.vector = 0 /\ "vector" \in DOMAIN cpu'
      <4>1. cpu' = [cpu EXCEPT !.vector = 0, !.iflag = TRUE, !.acked = FALSE]
        BY <1>2, <2>2 DEF send_eoi
      <4>2. "vector" \in DOMAIN cpu
        BY DEF Typed
      <4> HIDE DEF IrqInv
      <4> QED
        BY <4>1, <4>2
    <3>3. "irr" \in DOMAIN lapic' /\ "isr" \in DOMAIN lapic' /\ lapic'.irr = lapic.irr
      BY <1>2, <2>2 DEF send_eoi, Typed
    <3>4. UNCHANGED <<pc, pic, route>>
      BY <1>2 DEF send_eoi
    <3> QED
      BY <3>1, <3>2, <3>3, <3>4, SMTT(30) DEF Typed, Window, AcknowledgedOnce
  <2> QED
    BY <2>1, <2>2
<1> QED
  BY <1>1, <1>2

\* Boot code, hardware and handlers keep the invariant in every interleaving.
LEMMA IrqStep == ASSUME IrqInv, [IrqNext]_irq_vars PROVE IrqInv'
<1>1. CASE BootCode
  BY <1>1, BootInv, SMTT(30)
<1>2. CASE \/ PitEdge \/ SerialEdge \/ Type \/ Arrive \/ TimerExpires
           \/ (\E v \in Vectors : DeliverLapic(v)) \/ (\E l \in Lines : DeliverPic(l))
           \/ DeliverSpurious
  BY <1>2, HardwareInv
<1>3. CASE Dispatch \/ send_eoi
  BY <1>3, HandlerInv, SMTT(30)
<1>4. CASE hcf \/ Halted \/ UNCHANGED irq_vars
  BY <1>4 DEF hcf, Halted, irq_vars, IrqInv, Typed, Window, AcknowledgedOnce
<1> QED
  BY <1>1, <1>2, <1>3, <1>4, SMTT(30) DEF IrqNext

\* Each interrupt of the local APIC is acknowledged once, with its own vector, whatever
\* arrives while exception_handler runs and whatever the firmware left behind.
THEOREM EoiMatches == IrqSpec => []AcknowledgedOnce
<1>1. IrqInv => AcknowledgedOnce
  BY DEF IrqInv
<1> QED
  BY <1>1, IrqStart, IrqStep, PTL DEF IrqSpec

-----------------------------------------------------------------------------
\* Before apic_init has set apic_offset, the local APIC has no vector to deliver, no
\* source of one, and no handler of one to end.
Early ==
  /\ pc > 7 => apic_offset = TRUE
  /\ pc <= 7 => /\ lapic.irr = {} /\ lapic.isr = {} /\ lapic.timer = FALSE
                /\ \A l \in Lines : route[l] = 0

\* Only vectors that are dispatched quietly get as far as send_eoi.
Acked == cpu.acked => cpu.vector \in Vectors

Fields == "timer" \in DOMAIN lapic /\ "acked" \in DOMAIN cpu /\ "stuck" \in DOMAIN cpu

ReturnInv == Fields /\ Early /\ Acked /\ HardwareIrqsReturn

\* kernel_main starts with nothing pending.
LEMMA InitHInv == IrqInit => ReturnInv
<1> SUFFICES ASSUME IrqInit PROVE ReturnInv
  OBVIOUS
<1>1. Early
  <2>1. pc = 1 /\ \A l \in Lines : route[l] = 0
    BY DEF IrqInit
  <2>2. lapic.irr = {} /\ lapic.isr = {}
    BY DEF IrqInit
  <2>3. lapic.timer = FALSE
    BY ZenonT(30) DEF IrqInit
  <2> QED
    BY <2>1, <2>2, <2>3, SMTT(30) DEF Early
<1>2. Fields /\ Acked /\ HardwareIrqsReturn
  BY DEF IrqInit, Fields, Acked, HardwareIrqsReturn
<1> QED
  BY <1>1, <1>2 DEF ReturnInv

\* The boot code reaches apic_start_timer and ioapic_route with apic_offset set.
LEMMA BootHInv == ASSUME IrqInv, ReturnInv, BootCode PROVE ReturnInv'
<1> USE DEF ReturnInv, Go
<1>1. pc \in 1..16 /\ cpu.vector = 0 /\ ~cpu.stuck
  BY DEF IrqInv, Typed, BootCode, idt_init, Elsewhere, remap_irqs, pic_disable, apic_init,
         apic_start_timer, ioapic_route, ps2_init, At, Running
<1>2. CASE idt_init
  BY <1>1, <1>2, Places, SMTT(30) DEF idt_init, At, Fields, Early, Acked, HardwareIrqsReturn
<1>3. CASE Elsewhere
  BY <1>1, <1>3, Places DEF Elsewhere, At, Fields, Early, Acked, HardwareIrqsReturn
<1>4. CASE remap_irqs \/ pic_disable
  BY <1>1, <1>4, Places DEF remap_irqs, pic_disable, At, Fields, Early, Acked, HardwareIrqsReturn
<1>5. CASE apic_init
  BY <1>1, <1>5, Places, SMTT(30) DEF apic_init, At, Fields, Early, Acked, HardwareIrqsReturn
<1>6. CASE apic_start_timer
  BY <1>1, <1>6, Places, SMTT(30) DEF apic_start_timer, At, Fields, Early, Acked, HardwareIrqsReturn
<1>7. CASE ioapic_route
  BY <1>1, <1>7, Places, SMTT(30) DEF ioapic_route, At, Fields, Early, Acked, HardwareIrqsReturn
<1>8. CASE ps2_init
  BY <1>1, <1>8, Places, SMTT(30) DEF ps2_init, At, Fields, Early, Acked, HardwareIrqsReturn
<1> QED
  BY <1>2, <1>3, <1>4, <1>5, <1>6, <1>7, <1>8, SMTT(30) DEF BootCode

\* Devices find no route, and the processor no vector, before apic_offset is set.
LEMMA HardwareHInv ==
  ASSUME IrqInv, ReturnInv,
         \/ PitEdge \/ SerialEdge \/ Type \/ Arrive \/ TimerExpires
         \/ (\E v \in Vectors : DeliverLapic(v)) \/ (\E l \in Lines : DeliverPic(l)) \/ DeliverSpurious
  PROVE  ReturnInv'
<1> USE DEF ReturnInv, IrqInv
<1>1. CASE PitEdge \/ SerialEdge \/ Type \/ Arrive
  <2>1. UNCHANGED <<pc, cpu, apic_offset, route>>
    BY <1>1 DEF PitEdge, SerialEdge, Type, Arrive
  <2>2. lapic' = lapic \/ \E l \in Lines : Accept({route[l]})
    BY <1>1 DEF PitEdge, SerialEdge, Type, Arrive, Raise
  <2>3. "timer" \in DOMAIN lapic' /\ lapic'.timer = lapic.timer /\ lapic'.isr = lapic.isr
    BY <2>2 DEF Accept, Fields, Typed
  <2>4. (\A l \in Lines : route[l] = 0) => lapic'.irr = lapic.irr
    <3> SUFFICES ASSUME \A l \in Lines : route[l] = 0, NEW l \in Lines, Accept({route[l]})
                 PROVE  lapic'.irr = lapic.irr
      BY <2>2
    <3>1. {route[l]} \ {0} = {}
      OBVIOUS
    <3>2. (IF lapic.on THEN {route[l]} \ {0} ELSE {}) = {}
      BY <3>1
    <3>3. lapic' = [lapic EXCEPT !.irr = lapic.irr \cup {}]
      BY <3>2, Zenon DEF Accept
    <3> QED
      BY <3>3 DEF Typed
  <2> QED
    BY <2>1, <2>3, <2>4, SMTT(30) DEF Fields, Early, Acked, HardwareIrqsReturn
<1>2. CASE TimerExpires
  BY <1>2 DEF TimerExpires, Typed, Fields, Early, Acked, HardwareIrqsReturn
<1>3. CASE \E v \in Vectors : DeliverLapic(v)
  BY <1>3 DEF DeliverLapic, Enter, Running, Typed, Fields, Early, Acked, HardwareIrqsReturn
<1>4. CASE \E l \in Lines : DeliverPic(l)
  BY <1>4 DEF DeliverPic, Enter, Running, Typed, Fields, Early, Acked, HardwareIrqsReturn
<1>5. CASE DeliverSpurious
  BY <1>5 DEF DeliverSpurious, Enter, Running, Typed, Fields, Early, Acked, HardwareIrqsReturn
<1> QED
  BY <1>1, <1>2, <1>3, <1>4, <1>5, SMTT(30)

\* What exception_handler does not dispatch is the PIC's or spurious; what it does
\* dispatch it can acknowledge.
LEMMA HandlerHInv == ASSUME IrqInv, ReturnInv, Dispatch \/ send_eoi PROVE ReturnInv'
<1> USE DEF ReturnInv, IrqInv
<1>1. CASE Dispatch
  BY <1>1, Places DEF Dispatch, Quiet, Typed, Window, Fields, Early, Acked, HardwareIrqsReturn
<1>2. CASE send_eoi
  <2>1. lapic.isr = {cpu.vector} /\ apic_offset
    BY <1>2, SMTT(30) DEF send_eoi, Acked, AcknowledgedOnce, Early, Typed
  <2>2. cpu' = [cpu EXCEPT !.vector = 0, !.iflag = TRUE, !.acked = FALSE] /\ UNCHANGED <<pc, apic_offset, route>>
    BY <1>2, <2>1 DEF send_eoi
  <2>3. ~cpu.stuck /\ lapic'.irr = lapic.irr /\ lapic'.timer = lapic.timer /\ "timer" \in DOMAIN lapic'
    BY <1>2, <2>1, SMTT(30) DEF send_eoi, Fields, Typed
  <2>4. pc > 7
    BY <2>1 DEF Early, Typed
  <2> QED
    BY <2>1, <2>2, <2>3, <2>4 DEF Typed, Fields, Early, Acked, HardwareIrqsReturn
<1> QED
  BY <1>1, <1>2

\* Every step keeps the second invariant.
LEMMA NextHInv == ASSUME IrqInv, ReturnInv, [IrqNext]_irq_vars PROVE ReturnInv'
<1>1. CASE BootCode
  BY <1>1, BootHInv
<1>2. CASE \/ PitEdge \/ SerialEdge \/ Type \/ Arrive \/ TimerExpires
           \/ (\E v \in Vectors : DeliverLapic(v)) \/ (\E l \in Lines : DeliverPic(l))
           \/ DeliverSpurious
  BY <1>2, HardwareHInv
<1>3. CASE Dispatch \/ send_eoi
  BY <1>3, HandlerHInv, SMTT(30)
<1>4. CASE hcf \/ Halted \/ UNCHANGED irq_vars
  BY <1>4 DEF hcf, Halted, irq_vars, ReturnInv, Fields, Early, Acked, HardwareIrqsReturn
<1> QED
  BY <1>1, <1>2, <1>3, <1>4 DEF IrqNext

\* The kernel halts only for a spurious interrupt, or for one of the PIC between
\* remap_irqs and pic_disable; no interrupt of a device it has set up halts it.
THEOREM OnlyStrayIrqsHalt == IrqSpec => []HardwareIrqsReturn
<1>1. ReturnInv => HardwareIrqsReturn
  BY DEF ReturnInv
<1> QED
  BY <1>1, IrqStart, IrqStep, InitHInv, NextHInv, PTL DEF IrqSpec
=============================================================================
