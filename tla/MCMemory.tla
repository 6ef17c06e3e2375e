------------------------------ MODULE MCMemory ------------------------------
(***************************************************************************)
(* The kernel's memory above the page frames: the page tables, and of the  *)
(* slab allocator the slabs of a cache, the layout of a slab and the hash  *)
(* table.  They share no state, so that a behaviour of this run is a       *)
(* behaviour of one of them, part, and the variables of the others keep    *)
(* their first values.                                                     *)
(***************************************************************************)
EXTENDS MCPager, Slab, SlabHash, SlabGeometry

\* None of the calls is the one for the I/O APIC (PagerIoapic).
ASSUME MCCallsApart == LateCallsApart

VARIABLE part

\* One initial state of the page tables.
Boot ==
  /\ Init
  /\ mem = [f \in Frames |-> [n \in Indices |-> Absent]] /\ pool = CHOOSE f \in Pools : TRUE

MCSizes == 1 .. 3 * PAGE_SIZE
OneSize == object_size = 3 * PAGE_SIZE

MCInit ==
  \/ part = "pager" /\ Init /\ SlabInit /\ OneSize /\ ht_init
  \/ part = "slab" /\ Boot /\ SlabInit /\ OneSize /\ ht_init
  \/ part = "geometry" /\ Boot /\ SlabInit /\ GeometryInit /\ ht_init
  \/ part = "hash" /\ Boot /\ SlabInit /\ OneSize /\ ht_init

MCNext ==
  /\ \/ part = "pager" /\ Next /\ UNCHANGED <<slab_vars, object_size, ht_vars>>
     \/ part = "slab" /\ SlabNext /\ UNCHANGED <<vars, object_size, ht_vars>>
     \/ part = "geometry" /\ GeometryNext /\ UNCHANGED <<vars, slab_vars, ht_vars>>
     \/ part = "hash" /\ HashNext /\ UNCHANGED <<vars, slab_vars, object_size>>
  /\ UNCHANGED part

MCSpec ==
  /\ MCInit /\ [][MCNext]_<<part, vars, slab_vars, object_size, ht_vars>>
  /\ WF_ht_vars(Probe)
=============================================================================
