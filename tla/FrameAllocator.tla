--------------------------- MODULE FrameAllocator ---------------------------
(***************************************************************************)
(* What the single-frame interface of the page frame allocator promises    *)
(* to its clients: a pool of frames, each handed out to one holder at a    *)
(* time.  The promise has one blemish that the code really has: an         *)
(* allocation may fail while up to Batch - 1 frames are left, and those    *)
(* frames are then lost.                                                   *)
(***************************************************************************)
EXTENDS Naturals, FiniteSets

CONSTANTS Frames,   \* every frame number
          Batch     \* how many frames the implementation prefetches at a time

VARIABLES pool,     \* frames that an allocation can still return
          held      \* frames handed out and not given back

vars == <<pool, held>>

Init == pool \in SUBSET Frames /\ held = {}

Alloc(f) == /\ f \in pool
            /\ pool' = pool \ {f}
            /\ held' = held \cup {f}

\* An allocation fails only when less than a batch is left, and loses it.
AllocFails == /\ Cardinality(pool) < Batch
              /\ pool' = {}
              /\ UNCHANGED held

Free(f) == /\ f \in held
           /\ held' = held \ {f}
           /\ pool' = pool \cup {f}

Next == AllocFails \/ \E f \in Frames : Alloc(f) \/ Free(f)

Spec == Init /\ [][Next]_vars
=============================================================================
