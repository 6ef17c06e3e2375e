----------------------------- MODULE SlabSizes -----------------------------
(***************************************************************************)
(* The sizes that slab.c is compiled with: of a page, of the structures of *)
(* slab.h, and how many buffers a slab has at least.                       *)
(***************************************************************************)
EXTENDS Integers

CONSTANTS PAGE_SIZE, SIZEOF_SLAB, SIZEOF_BUFCTL, SIZEOF_HASH_VAL, ALIGNOF_SLAB, BUFS_PER_SLAB

PTR == 8

\* kmem_bufctl has room for two pointers, a header needs no padding before the end of its
\* page, and half a page is more than a header and a kmem_bufctl.
ASSUME SlabSizesAssumption ==
  /\ PAGE_SIZE \in Nat /\ SIZEOF_SLAB \in Nat \ {0} /\ SIZEOF_BUFCTL \in Nat
  /\ SIZEOF_HASH_VAL \in Nat \ {0} /\ ALIGNOF_SLAB \in Nat \ {0} /\ BUFS_PER_SLAB \in Nat
  /\ (PAGE_SIZE - SIZEOF_SLAB) % ALIGNOF_SLAB = 0 /\ SIZEOF_BUFCTL >= 2 * PTR
  /\ BUFS_PER_SLAB >= 2 /\ PAGE_SIZE > 2 * (SIZEOF_SLAB + SIZEOF_BUFCTL)
=============================================================================
