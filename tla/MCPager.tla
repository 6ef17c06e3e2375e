------------------------------ MODULE MCPager ------------------------------
(***************************************************************************)
(* Three entries in a table: 81 virtual pages, blocks of three pages.  The *)
(* direct map starts at page 27, the first page of the second top-level    *)
(* entry, and covers 24 frames; the kernel's two pages are in the third.   *)
(***************************************************************************)
EXTENDS Pager

Call(v, f, u) == [vaddr |-> v, paddr |-> f, uc |-> u, huge |-> FALSE]

\* The local APIC, mapped at its own physical address (apic.c:78).
LapicCall == Call(20, 20, TRUE)

\* A page after the kernel (heap.c:32), in the kernel's own page table.
HeapCall == Call(74, 7, FALSE)

\* The same page again, and pages that share some or no tables with others.
OtherCalls == {Call(74, 8, FALSE), Call(21, 9, FALSE), Call(60, 7, TRUE)}

MCLateCalls == {LapicCall, HeapCall} \cup OtherCalls

\* The I/O APIC, mapped in the direct map (ioapic.c:119).
IoapicCalls == {Call(27 + 18, 18, TRUE)}

\* Enough frames for every call; enough for paging_init but not for the later
\* calls; not enough for paging_init.
MCPools == {{1, 2, 4, 5, 6, 10, 11, 12, 13, 14, 15, 16, 17},
            {1, 2, 4, 5, 6, 10, 11, 12, 17},
            {1, 2, 4, 5, 6, 10}}
=============================================================================
