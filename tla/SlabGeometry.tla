---------------------------- MODULE SlabGeometry ----------------------------
(***************************************************************************)
(* The arithmetic of kmem_cache_grow, _free_large_slab and kmem_cache_free *)
(* in slab.c: where the buffers, their links and the header of a slab lie, *)
(* for every object size. Addresses are offsets from pstart.               *)
(***************************************************************************)
EXTENDS SlabSizes

CONSTANT Sizes         \* the sizes of objects
ASSUME ObjectSizesAssumption == Sizes \subseteq Nat \ {0}

VARIABLE object_size   \* a cache's size

Pages(bytes) == (bytes + PAGE_SIZE - 1) \div PAGE_SIZE

Small(sz) == sz * BUFS_PER_SLAB <= PAGE_SIZE     \* size <= SMALL_OBJ_SIZE
slab_addr == LET a == PAGE_SIZE - SIZEOF_SLAB IN a - (a % ALIGNOF_SLAB)
eff_size(sz) == sz + SIZEOF_BUFCTL

\* Mutant of buf_cnt: the header is not subtracted.
buf_cnt_page(sz) == PAGE_SIZE \div eff_size(sz)

buf_cnt(sz) == (PAGE_SIZE - SIZEOF_SLAB) \div eff_size(sz)

\* How many links the loop writes, and the store of NULL behind it.
LinksWritten(sz) ==
  CHOOSE n \in 0 .. PAGE_SIZE : /\ (n + 1) * eff_size(sz) >= slab_addr
                                /\ n = 0 \/ n * eff_size(sz) < slab_addr
Terminator(sz) == LinksWritten(sz) * eff_size(sz) - PTR

\* Large objects: bytes of buffers, their number, and the pages of the header.
frames(sz) == Pages(sz * BUFS_PER_SLAB)
buffers(sz) == (frames(sz) * PAGE_SIZE) \div sz

slab_frames(sz) == Pages(SIZEOF_SLAB + buffers(sz) * SIZEOF_BUFCTL)

\* _free_large_slab
freed_buf_frames(sz) == Pages(buffers(sz) * sz)

GeometryInit == object_size \in Sizes
GeometryNext == UNCHANGED object_size
GeometrySpec == GeometryInit /\ [][GeometryNext]_object_size
-----------------------------------------------------------------------------
\* The buffers of a small slab and their links end before the header that
\* kmem_cache_free finds from the page, the loop links all of them, and the NULL
\* it stores last is in the page and falls on no object and no link (slab.c:191-211, 290).
SmallBuffersFit(sz) ==
  Small(sz) =>
    /\ slab_addr = PAGE_SIZE - SIZEOF_SLAB
    /\ buf_cnt(sz) * eff_size(sz) <= slab_addr
    /\ LinksWritten(sz) >= buf_cnt(sz) - 1
    /\ Terminator(sz) >= 0 /\ Terminator(sz) + PTR <= slab_addr
    /\ \A k \in 0 .. buf_cnt(sz) - 1 :
         LET buf == k * eff_size(sz)
         IN Terminator(sz) >= buf + sz + PTR \/ Terminator(sz) + PTR <= buf

\* A large slab holds at least BUFS_PER_SLAB buffers, all inside its pages, and
\* its bufctl array inside the pages of the header (slab.c:214-236).
LargeBuffersFit(sz) ==
  ~Small(sz) =>
    /\ buffers(sz) >= BUFS_PER_SLAB /\ buffers(sz) * sz <= frames(sz) * PAGE_SIZE
    /\ SIZEOF_SLAB + buffers(sz) * SIZEOF_BUFCTL <= slab_frames(sz) * PAGE_SIZE

\* _free_large_slab gives back as many pages of buffers as kmem_cache_grow took,
\* though it computes them from buf_cnt (slab.c:253, 215).
BufferPagesFreed(sz) == ~Small(sz) => freed_buf_frames(sz) = frames(sz)

\* For every object size the buffers and links of a small slab end before its header,
\* those of a large one lie inside its pages, and _free_large_slab gives back as many
\* pages as kmem_cache_grow took.
BuffersFit ==
  SmallBuffersFit(object_size) /\ LargeBuffersFit(object_size) /\ BufferPagesFreed(object_size)
=============================================================================
