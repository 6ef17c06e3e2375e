--------------------------- MODULE VirtualMemory ---------------------------
(***************************************************************************)
(* What the pager promises: a function from virtual pages to mappings.  A  *)
(* caller asks for one page, or for one aligned block of pages, to be      *)
(* mapped; the request takes effect at once, as asked, and changes no      *)
(* other page.  The promise ends when page table memory runs out.          *)
(***************************************************************************)
EXTENDS Naturals

CONSTANTS Pages,      \* virtual page numbers
          Block,      \* pages in a block
          Requests,   \* [vaddr, paddr : page numbers; uc, huge : BOOLEAN]
          None,       \* no request is pending
          Unmapped    \* what a page with no mapping translates to

VARIABLES vm,         \* the mapping of each page
          request,    \* the request in progress
          exhausted   \* a page table could not be allocated

vars == <<vm, request, exhausted>>

Aligned(v) == v - (v % Block)
Mapping(f, r) == [mapped |-> TRUE, frame |-> f, ps |-> r.huge, uc |-> r.uc]

Init == /\ vm = [v \in Pages |-> Unmapped]
        /\ request = None /\ exhausted = FALSE

Ask == /\ request = None /\ request' \in Requests
       /\ UNCHANGED <<vm, exhausted>>

Map == /\ request # None /\ ~request.huge
       /\ vm' = [vm EXCEPT ![request.vaddr] = Mapping(request.paddr, request)]
       /\ request' = None /\ UNCHANGED exhausted

MapBlock ==
  /\ request # None /\ request.huge
  /\ vm' = [v \in Pages |->
              IF Aligned(v) = Aligned(request.vaddr)
              THEN Mapping(Aligned(request.paddr) + (v % Block), request)
              ELSE vm[v]]
  /\ request' = None /\ UNCHANGED exhausted

Next == \/ ~exhausted /\ (Ask \/ Map \/ MapBlock)
        \/ exhausted'

Spec == Init /\ [][Next]_vars
=============================================================================
