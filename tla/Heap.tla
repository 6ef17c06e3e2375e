-------------------------------- MODULE Heap --------------------------------
(***************************************************************************)
(* The heap of libc: heap_init, malloc and free of libc/stdlib/heap.c.     *)
(*                                                                         *)
(* Addresses are byte offsets from the page heap_init maps.  The free list *)
(* has one node, the one head points to: malloc copies the next field of   *)
(* the node it splits, which heap_init made NULL, and free links nothing   *)
(* in, so that every walk of the list ends after that node.  What lies     *)
(* behind the page is taken to be mapped too: a write there does not fault.*)
(***************************************************************************)
EXTENDS Integers, FiniteSets

CONSTANTS PAGE_SIZE,   \* bytes of the one mapped page
          UINT32,      \* 2^32, the width of a node's size field
          Sizes,       \* the sizes asked for
          MaxBlocks    \* bound on the calls of malloc

ASSUME HeapAssumption ==
  /\ PAGE_SIZE \in Nat /\ UINT32 \in Nat /\ PAGE_SIZE < UINT32
  /\ Sizes \subseteq Nat /\ MaxBlocks \in Nat

VARIABLES head,        \* the free node: its address and its size field
          blocks,      \* (history) the blocks handed out: address, size, freed or not
          returned       \* what the last call of malloc returned

heap_vars == <<head, blocks, returned>>

NULL == -1

heap_node == 12        \* sizeof(heap_node_t), packed
used_block == 8        \* sizeof(used_block_t), packed

\* The bytes of a block's header and of the block; those of the free node.
BlockBytes(b) == (b.at - used_block)..(b.at + b.size - 1)
NodeBytes == head.at..(head.at + heap_node - 1)

heap_init ==
  /\ head = [at |-> 0, size |-> PAGE_SIZE - heap_node]
  /\ blocks = {}
  /\ returned = NULL

\* Mutant of SplitAt: the rest starts where the block would end without its header.
SplitAtHeader(size) == head.at + size

\* Where malloc puts the node of what is left.
SplitAt(size) == head.at + heap_node + size

\* The size field of that node. It wraps around if less than a node is left.
Rest(size) == (head.size - size - heap_node) % UINT32

\* The test of the loop in malloc: the node's own header is not counted.
Fits(size) == size < head.size

\* A call of malloc the node can serve.
Split(size) ==
  /\ Fits(size)
  /\ head' = [at |-> SplitAt(size), size |-> Rest(size)]
  /\ blocks' = blocks \cup {[at |-> head.at + used_block, size |-> size, freed |-> FALSE]}
  /\ returned' = head.at + used_block

\* A call of malloc that walks off the list: "malloc error: OOM".
OutOfMemory(size) ==
  /\ ~Fits(size)
  /\ returned' = NULL
  /\ UNCHANGED <<head, blocks>>

malloc(size) == Cardinality(blocks) < MaxBlocks /\ (Split(size) \/ OutOfMemory(size))

\* free overwrites the size in the block's header with a distance to a "next"
\* read across that header, and returns nothing to the list.
free(b) ==
  /\ ~b.freed
  /\ blocks' = (blocks \ {b}) \cup {[b EXCEPT !.freed = TRUE]}
  /\ UNCHANGED <<head, returned>>

HeapNext == (\E size \in Sizes : malloc(size)) \/ (\E b \in blocks : free(b))

HeapSpec == heap_init /\ [][HeapNext]_heap_vars

-----------------------------------------------------------------------------
\* No two blocks malloc returned share a byte, headers included, and none shares
\* one with the free node that the next call will read and overwrite.
BlocksApart ==
  /\ \A a, b \in blocks : a.at # b.at => BlockBytes(a) \cap BlockBytes(b) = {}
  /\ \A b \in blocks : BlockBytes(b) \cap NodeBytes = {}
=============================================================================
