-------------------------------- MODULE Pfa --------------------------------
(***************************************************************************)
(* The page frame allocator of kernel/arch/x86_64/pfa.c, its single-frame  *)
(* interface: pfa_init, kalloc_frame, kfree_frame.                         *)
(*                                                                         *)
(* A frame is its number, the physical address divided by PAGE_SIZE, so    *)
(* frame 0 is the code's NULL.  The bitmap is the set of its one bits:     *)
(* bit i is bit (i & 31) of word i >> 5.  Bases and lengths of the memory  *)
(* map are in pages: Limine aligns usable entries to pages.                *)
(*                                                                         *)
(* One call of kalloc_frame that refills pre_frames takes one step for     *)
(* each iteration of its loop; no other call runs meanwhile, because the   *)
(* kernel has one thread and no interrupt handler allocates.               *)
(***************************************************************************)
EXTENDS Naturals, Sequences, FiniteSets

CONSTANTS
  W,          \* bits in a word of the bitmap: 32 in the code
  Prefetch,   \* size of pre_frames: 20 in the code
  PageBytes,  \* PAGE_SIZE
  WordBytes,  \* sizeof(uint32_t)
  UintPages,  \* pages an unsigned int can address: 2^32 / PAGE_SIZE
  MaxFrame,   \* the largest frame number considered
  MemMaps     \* the memory maps the boot loader may hand over

Frames == 0..MaxFrame

MemMapEntry == [usable : BOOLEAN, base : Nat, length : Nat]

ASSUME SizesAssumption ==
  /\ W \in Nat \ {0} /\ Prefetch \in Nat \ {0} /\ MaxFrame \in Nat
  /\ PageBytes \in Nat \ {0} /\ WordBytes \in Nat \ {0} /\ UintPages \in Nat \ {0}

ASSUME MemMapsAssumption == \A m \in MemMaps : m \in Seq(MemMapEntry)

VARIABLES
  mmap,        \* mmap_request.response, never changed
  npages,      \* pages below mem_high, never changed after pfa_init
  bitmap,      \* the bits that are one
  pre_frames,  \* prefetched frames
  pframe,      \* next prefetched frame to hand out
  allocate,    \* 1: the next call refills pre_frames
  filling,     \* a call of kalloc_frame is inside its refill loop
  i,           \* that loop's index
  held         \* frames handed out and not freed (not in the code: the
               \* clients' view)

vars == <<mmap, npages, bitmap, pre_frames, pframe, allocate, filling, i, held>>

NULL == 0
-----------------------------------------------------------------------------
(***************************************************************************)
(* pfa_init                                                                *)
(***************************************************************************)
EntryEnd(e) == e.base + e.length

\* The end of usable memory, kept in an unsigned int: it wraps at UintPages.
mem_high(m) ==
  LET high[n \in 0..Len(m)] ==
        IF n = 0 THEN 0
        ELSE IF m[n].usable /\ EntryEnd(m[n]) > high[n-1]
             THEN EntryEnd(m[n]) % UintPages
             ELSE high[n-1]
  IN  high[Len(m)]

\* Mutant of Words: a last word that is not full is left out.
WordsRoundedDown == npages \div W

\* The words of the bitmap.
Words == (npages + W - 1) \div W

\* The bits that the bitmap's words hold.
Tracked == {f \in Frames : f < W * Words}

\* The pages free_available_memory clears in each usable entry: its loop runs
\* while the page after this one also lies below the entry's end.
free_available_memory ==
  {f \in Frames : \E n \in DOMAIN mmap : /\ mmap[n].usable
                                         /\ mmap[n].base <= f
                                         /\ f + 1 < EntryEnd(mmap[n])}

bitmap_size == Words * WordBytes

\* The first usable entry longer than the bitmap.
bitmap_addr ==
  LET Fits == {n \in DOMAIN mmap : mmap[n].usable /\ mmap[n].length * PageBytes > bitmap_size}
  IN  mmap[CHOOSE n \in Fits : \A k \in Fits : n <= k].base

BitmapFrames ==
  LET count == (bitmap_size + PageBytes - 1) \div PageBytes
  IN  {f \in Frames : bitmap_addr <= f /\ f < bitmap_addr + count}

\* Mutant of pfa_init: page 0 is not marked.
PfaInitForgetsPageZero ==
  /\ npages = mem_high(mmap)
  /\ bitmap = (Tracked \ free_available_memory) \cup BitmapFrames

\* All used, then usable memory freed, then the bitmap and page 0 marked.
pfa_init ==
  /\ npages = mem_high(mmap)
  /\ bitmap = ((Tracked \ free_available_memory) \cup BitmapFrames) \cup {0}
-----------------------------------------------------------------------------
(***************************************************************************)
(* kalloc_frame_int, kalloc_frame, kfree_frame                             *)
(***************************************************************************)
Clear == Tracked \ bitmap

\* Mutant of kalloc_frame_int: the bit found is not set.
KallocFrameIntForgetsBit(f) ==
  /\ f \in Clear
  /\ \A g \in Clear : f <= g
  /\ UNCHANGED bitmap

\* The first clear bit, which the word scan and then the bit scan find.
kalloc_frame_int(f) ==
  /\ f \in Clear
  /\ \A g \in Clear : f <= g
  /\ bitmap' = bitmap \cup {f}

HandOut(f) == held' = held \cup {f}

\* A prefetched frame is left: return it.
KallocPrefetched ==
  /\ ~filling /\ pframe # Prefetch /\ allocate # 1
  /\ HandOut(pre_frames[pframe])
  /\ pframe' = pframe + 1
  /\ UNCHANGED <<mmap, npages, bitmap, pre_frames, allocate, filling, i>>

\* None is left: enter the refill loop.
KallocRefill ==
  /\ ~filling /\ (pframe = Prefetch \/ allocate = 1)
  /\ allocate' = 1
  /\ filling' = TRUE /\ i' = 0
  /\ UNCHANGED <<mmap, npages, bitmap, pre_frames, pframe, held>>

RefillFrame ==
  /\ filling /\ i < Prefetch
  /\ \E f \in Clear : /\ kalloc_frame_int(f)
                      /\ pre_frames' = [pre_frames EXCEPT ![i] = f]
  /\ i' = i + 1
  /\ UNCHANGED <<mmap, npages, pframe, allocate, filling, held>>

\* "out of frames": return NULL from inside the loop; allocate stays 1.
RefillFails ==
  /\ filling /\ i < Prefetch /\ Clear = {}
  /\ pre_frames' = [pre_frames EXCEPT ![i] = NULL]
  /\ filling' = FALSE /\ i' = 0
  /\ UNCHANGED <<mmap, npages, bitmap, pframe, allocate, held>>

\* Mutant of RefillDone: allocate is not reset.
RefillDoneKeepsAllocate ==
  /\ filling /\ i = Prefetch
  /\ HandOut(pre_frames[0])
  /\ pframe' = 1
  /\ filling' = FALSE /\ i' = 0
  /\ UNCHANGED <<mmap, npages, bitmap, pre_frames, allocate>>

\* The loop is over: return the first frame of the new batch.
RefillDone ==
  /\ filling /\ i = Prefetch
  /\ HandOut(pre_frames[0])
  /\ pframe' = 1 /\ allocate' = 0
  /\ filling' = FALSE /\ i' = 0
  /\ UNCHANGED <<mmap, npages, bitmap, pre_frames>>

kalloc_frame ==
  KallocPrefetched \/ KallocRefill \/ RefillFrame \/ RefillFails \/ RefillDone

\* A client gives back a frame it holds.
kfree_frame(f) ==
  /\ ~filling /\ f \in held
  /\ bitmap' = bitmap \ {f}
  /\ held' = held \ {f}
  /\ UNCHANGED <<mmap, npages, pre_frames, pframe, allocate, filling, i>>

Init ==
  /\ mmap \in MemMaps
  /\ pfa_init
  /\ pre_frames = [n \in 0..Prefetch-1 |-> NULL]
  /\ pframe = 0 /\ allocate = 1
  /\ filling = FALSE /\ i = 0
  /\ held = {}

Next == kalloc_frame \/ \E f \in held : kfree_frame(f)

Spec == Init /\ [][Next]_vars
-----------------------------------------------------------------------------
(***************************************************************************)
(* Properties                                                              *)
(***************************************************************************)
\* The prefetched frames that kalloc_frame has not handed out yet.
Slots == IF filling THEN 0..i-1
         ELSE IF allocate = 1 THEN {} ELSE pframe..Prefetch-1

Pending == {pre_frames[n] : n \in Slots}

\* Every frame that kalloc_frame can still return.
Pool == Clear \cup Pending

Usable ==
  {f \in Frames : \E n \in DOMAIN mmap : /\ mmap[n].usable
                                         /\ mmap[n].base <= f
                                         /\ f < EntryEnd(mmap[n])}

\* The variables keep their ranges; pframe, a uint8_t, never passes the end of
\* pre_frames, and a clear allocate means that pre_frames is a full batch.
TypeOK ==
  /\ mmap \in MemMaps /\ npages = mem_high(mmap)
  /\ bitmap \subseteq Frames /\ held \subseteq Frames
  /\ pre_frames \in [0..Prefetch-1 -> Frames]
  /\ pframe \in 0..Prefetch /\ i \in 0..Prefetch
  /\ allocate \in {0, 1} /\ filling \in BOOLEAN
  /\ filling => allocate = 1

\* No frame has two holders: what a client holds is neither clear in the bitmap
\* nor waiting in pre_frames, no frame waits there twice, and no waiting frame
\* is clear in the bitmap (kalloc_frame_int would find it again).
NoDoubleAllocation ==
  /\ Pool \cap held = {}
  /\ Pending \cap Clear = {}
  /\ \A m, n \in Slots : pre_frames[m] = pre_frames[n] => m = n

\* kalloc_frame hands out only frames of usable memory-map entries, never one
\* of the frames the bitmap itself lies in, and never frame 0, which callers
\* would take for NULL.
OnlyUsableFrames ==
  /\ Pool \cup held \subseteq Usable
  /\ (Pool \cup held) \cap (BitmapFrames \cup {0}) = {}

\* Every bit that pfa_init sets or clears lies in the bitmap's words, and the
\* bitmap lies inside the usable entry bitmap_addr chose for it.
BitmapCoversMemory ==
  /\ free_available_memory \cup BitmapFrames \subseteq Tracked
  /\ BitmapFrames \subseteq Usable

\* kalloc_frame and kfree_frame implement the abstract allocator: in particular
\* a failing call, and no other, loses frames, and it fails only when less than
\* one batch is left.
FA == INSTANCE FrameAllocator WITH Batch <- Prefetch, pool <- Pool

ImplementsFrameAllocator == FA!Spec

\* A call that reports "out of frames" does so only when no frame is left.
OutOfFramesMeansNoneLeft ==
  [][filling /\ i < Prefetch /\ ~filling' => Pool = {}]_vars
=============================================================================
