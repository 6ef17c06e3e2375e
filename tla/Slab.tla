-------------------------------- MODULE Slab --------------------------------
(***************************************************************************)
(* One cache of slab.c for small objects: the list of slabs between the    *)
(* sentinels hslab and tslab, ordered full, partial, unused; fl_ptr, the   *)
(* first slab with a free buffer; one page frame per slab, its header at   *)
(* the end of the frame. How buffers lie in a slab is SlabGeometry.        *)
(***************************************************************************)
EXTENDS Integers, Sequences, FiniteSets, Functions

CONSTANTS
  NFrames,    \* bound: page frames that kalloc_frame hands out
  BufCnt      \* buf_cnt of a slab

ASSUME SlabAssumption == NFrames \in Nat /\ BufCnt \in Nat \ {0}

NULL == 0
hslab == -1
tslab == -2
SlabFrames == 1 .. NFrames
Slabs == SlabFrames \cup {hslab, tslab}

VARIABLES
  c,        \* the cache and its slabs; the headers live in the frames
  live,     \* buffers handed out and not freed: frame and number (history)
  dangling  \* the cache points to a freed slab: kmem_cache_reap freed one, which stays
            \* in the list, or kmem_cache_free the one at fl_ptr (history)

slab_vars == <<c, live, dangling>>

\* A header that is read or written must not be NULL or in a free frame: that
\* faults, or works on memory that is not the cache's any more.
Deref(d, S) == IF S \cap (d.free \cup {NULL}) # {} THEN [d EXCEPT !.fault = TRUE] ELSE d
-----------------------------------------------------------------------------
_insert_slab(d, it, slab) ==
  LET p == d.prev[it]
      e == Deref(d, {it, p})
  IN IF e.fault THEN e
     ELSE [d EXCEPT !.next = [@ EXCEPT ![p] = slab, ![slab] = it],
                    !.prev = [@ EXCEPT ![slab] = p, ![it] = slab]]

_append_slab(d, slab) ==
  LET e == _insert_slab(d, tslab, slab)
  IN IF d.fl_ptr = tslab THEN [e EXCEPT !.fl_ptr = slab] ELSE e

_rm_slab(d, slab) ==
  LET p == d.prev[slab]
      n == d.next[slab]
      e == Deref(d, {slab, p, n})
  IN IF e.fault THEN e
     ELSE [d EXCEPT !.next = [@ EXCEPT ![p] = n, ![slab] = NULL],
                    !.prev = [@ EXCEPT ![n] = p, ![slab] = NULL]]

\* kmem_cache_grow for small objects; the pfa may return any free frame.
kmem_cache_grow(d) ==
  {_append_slab([d EXCEPT !.free = @ \ {f}, !.refs[f] = 0, !.next[f] = NULL, !.prev[f] = NULL,
                          !.freelist[f] = [k \in 1 .. BufCnt |-> k]], f) : f \in d.free}

Count(s) == IF s \in SlabFrames THEN BufCnt ELSE 0

\* The two reasons of kmem_cache_alloc to grow, one after the other.
GrowIfNone(d) == IF d.fl_ptr \in {NULL, tslab} THEN kmem_cache_grow(d) ELSE {d}
GrowIfFull(d) == LET e == Deref(d, {d.fl_ptr})
                 IN IF ~e.fault /\ d.refs[d.fl_ptr] = Count(d.fl_ptr) THEN kmem_cache_grow(d) ELSE {e}

\* Mutant of FullAfterAlloc: fl_ptr moves on one buffer too late.
FullTooLate(d, s) == d.refs[s] > BufCnt

FullAfterAlloc(d, s) == d.refs[s] >= BufCnt

TakeBuffer(d) ==
  LET s == d.fl_ptr
      t == [d EXCEPT !.freelist[s] = Tail(@), !.refs[s] = @ + 1]
  IN IF FullAfterAlloc(t, s) THEN [t EXCEPT !.fl_ptr = t.next[s]] ELSE t

\* The client makes its next call. Once the cache points to a freed slab, its lists are
\* in memory that is not the cache's, and the model stops.
Ready == ~c.fault /\ ~dangling

Grow ==
  /\ Ready /\ \E d \in kmem_cache_grow(c) : c' = d
  /\ UNCHANGED <<live, dangling>>

Alloc ==
  /\ Ready
  /\ \E e \in GrowIfNone(c) : \E d \in GrowIfFull(e) :
       LET s == d.fl_ptr
       IN IF d.fault \/ Deref(d, {s}).fault \/ s \notin SlabFrames \/ d.freelist[s] = <<>>
          THEN c' = [d EXCEPT !.fault = TRUE] /\ UNCHANGED live
          ELSE c' = TakeBuffer(d) /\ live' = live \cup {<<s, Head(d.freelist[s])>>}
  /\ UNCHANGED dangling
-----------------------------------------------------------------------------
\* Mutant of Requeue: a slab that was full goes to the end of the list.
RequeueLast(d, s) == LET e == _insert_slab(_rm_slab(d, s), tslab, s)
                     IN IF d.fl_ptr = tslab THEN [e EXCEPT !.fl_ptr = s] ELSE e

\* A slab that was full becomes the first with a free buffer.
Requeue(d, s) == [_insert_slab(_rm_slab(d, s), d.fl_ptr, s) EXCEPT !.fl_ptr = s]

Release(d, s) == LET e == _rm_slab(d, s) IN [e EXCEPT !.free = @ \cup {s}]

\* Mutant of Returned: refs is not decremented.
ReturnedKeepsRefs(b) == [c EXCEPT !.freelist[b[1]] = <<b[2]>> \o @]

\* The buffer is the first of the freelist again.
Returned(b) == [c EXCEPT !.freelist[b[1]] = <<b[2]>> \o @, !.refs[b[1]] = @ - 1]

\* kmem_cache_free for small objects.
Free(b) ==
  /\ Ready /\ b \in live
  /\ LET s == b[1]
         d == Returned(b)
     IN /\ dangling' = (dangling \/ (d.refs[s] = 0 /\ s = c.fl_ptr))
        /\ c' = IF Deref(c, {s}).fault THEN Deref(c, {s})
                ELSE IF d.refs[s] = 0 THEN Release(d, s)
                ELSE IF d.refs[s] = BufCnt - 1 THEN Requeue(d, s) ELSE d
  /\ live' = live \ {b}

\* The slabs from s to the tail, as the loops of kmem_cache_reap walk them, at most n.
ListFrom[n \in 0 .. NFrames] ==
  [s \in Slabs \cup {NULL} |->
     IF s \in {NULL, tslab} \/ n = 0 THEN <<>> ELSE <<s>> \o ListFrom[n - 1][c.next[s]]]

ReapWalk == ListFrom[NFrames][c.fl_ptr]
Unused(s) == c.refs[s] = 0

\* The first loop skips slabs in use; the second frees whatever follows.
Reaped == {ReapWalk[n] : n \in {k \in DOMAIN ReapWalk : \E m \in 1 .. k : Unused(ReapWalk[m])}}

kmem_cache_reap ==
  /\ Ready
  /\ c' = [c EXCEPT !.free = @ \cup Reaped]
  /\ dangling' = (dangling \/ Reaped # {})
  /\ UNCHANGED live
-----------------------------------------------------------------------------
SlabInit ==
  /\ c = [prev |-> [s \in Slabs |-> IF s = tslab THEN hslab ELSE NULL],
          next |-> [s \in Slabs |-> IF s = hslab THEN tslab ELSE NULL],
          fl_ptr |-> tslab,
          refs |-> [s \in Slabs |-> 0], freelist |-> [s \in Slabs |-> <<>>],
          free |-> SlabFrames, fault |-> FALSE]
  /\ live = {} /\ dangling = FALSE

SlabNext == Grow \/ Alloc \/ kmem_cache_reap \/ \E b \in live : Free(b)

SlabSpec == SlabInit /\ [][SlabNext]_slab_vars
-----------------------------------------------------------------------------
Chain == ListFrom[NFrames][c.next[hslab]]
UsedFrames == SlabFrames \ c.free

\* As long as the cache points to no freed slab, no call follows a NULL link, reads the
\* header of a frame that went back to the pfa, or takes a buffer of a slab that has
\* none left, the slot behind the freelist included, which kmem_cache_grow does not
\* terminate (slab.c:210).
NoFault == ~c.fault

\* refs counts the buffers that a slab has handed out, and the rest are in its
\* freelist, each once: no buffer is ever handed out twice, and no frame with a buffer
\* in use is given back (slab.c:269, 301).
RefsCountLive ==
  /\ \A b \in live : b[1] \notin c.free
  /\ \A s \in UsedFrames :
       LET out == {b \in live : b[1] = s}
       IN /\ c.refs[s] = Cardinality(out) /\ Len(c.freelist[s]) = BufCnt - c.refs[s]
          /\ Range(c.freelist[s]) = (1 .. BufCnt) \ {b[2] : b \in out}

\* The list runs over the slabs in use in the order full, partial, unused, fl_ptr
\* being the first that is not full: what kmem_cache_alloc and the second loop of
\* kmem_cache_reap take for granted (slab.c:266, 333).
ListInOrder ==
  ~dangling =>
    /\ Range(Chain) = UsedFrames /\ Len(Chain) = Cardinality(UsedFrames)
    /\ \A m, n \in DOMAIN Chain : m < n =>
         /\ c.refs[Chain[n]] = BufCnt => c.refs[Chain[m]] = BufCnt
         /\ c.refs[Chain[m]] = 0 => c.refs[Chain[n]] = 0
    /\ \/ /\ c.fl_ptr = tslab
          /\ \A s \in UsedFrames : c.refs[s] = BufCnt
       \/ \E n \in DOMAIN Chain :
            /\ c.fl_ptr = Chain[n] /\ c.refs[Chain[n]] < BufCnt
            /\ \A m \in 1 .. n - 1 : c.refs[Chain[m]] = BufCnt
=============================================================================
