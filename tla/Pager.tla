------------------------------- MODULE Pager -------------------------------
(***************************************************************************)
(* The page tables of kernel/arch/x86_64/pager.c: paging_init and the      *)
(* map_page calls that follow it at boot.                                  *)
(*                                                                         *)
(* Addresses are page numbers.  A table has E entries (512 in the code),   *)
(* so a virtual page number has four base-E digits and a "2 MiB" page      *)
(* spans E pages.  Physical memory is a function from frames to tables,    *)
(* whatever the frame is used for: map_page writes where its walk leads.   *)
(*                                                                         *)
(* A call of map_page or map_page_2m takes one step for each level.        *)
(***************************************************************************)
EXTENDS Naturals, FiniteSets, FiniteSetsExt

CONSTANTS
  E,             \* entries in a table
  MaxFrame,      \* the largest physical frame number
  Pools,         \* frames kalloc_frame can hand out before paging_init
  MemEnds,       \* ends of all memory map entries, usable or not
  Offset,        \* page number of the direct map (HHDM)
  KernelStart,   \* kernel_start_virtual, the virtual base of eaddr_request
  KernelEnd,     \* kernel_end_virtual
  PhysicalBase,  \* eaddr_request: where the boot loader put the kernel
  LateCalls      \* the map_page calls made after paging_init

Frames == 0..MaxFrame
Indices == 0..E-1
VirtualPages == 0..(E * E * E * E - 1)

\* A call: virtual page, frame, cache attribute, map_page or map_page_2m.
Calls == [vaddr : VirtualPages, paddr : Frames, uc : BOOLEAN, huge : BOOLEAN]
NoCall == [none |-> TRUE]

ASSUME PagerAssumption ==
  /\ E \in Nat \ {0, 1} /\ MaxFrame \in Nat
  /\ Pools \subseteq SUBSET (Frames \ {0}) /\ MemEnds \subseteq Frames
  /\ Offset \in VirtualPages /\ Offset % E = 0
  /\ KernelStart \in VirtualPages /\ KernelEnd \in VirtualPages
  /\ PhysicalBase \in Frames
  /\ \A v \in KernelStart..(KernelEnd - 1) : v - KernelStart + PhysicalBase \in Frames
  /\ LateCalls \subseteq Calls /\ \A c \in LateCalls : ~c.huge

\* An entry: the present bit, the PS bit, the frame and the cache attribute.
\* present FALSE stands for any value with the present bit clear.
Absent == [present |-> FALSE, ps |-> FALSE, frame |-> 0, uc |-> FALSE]
Present(f, big, u) == [present |-> TRUE, ps |-> big, frame |-> f, uc |-> u]

VARIABLES
  mem,     \* physical memory, read as page tables
  pool,    \* frames kalloc_frame can still return
  lost,    \* where paging_init was when kalloc_frame returned NULL (history)
  pml4,    \* frame of the top-level table
  cr3,     \* the table the processor uses is pml4
  pc,      \* where paging_init is: "start", "kernel", "direct" or "running"
  p,       \* its loop variable
  call,    \* the map_page call in progress, or NoCall
  level,   \* the level its walk has reached
  table    \* that table's frame

vars == <<mem, pool, lost, pml4, cr3, pc, p, call, level, table>>
-----------------------------------------------------------------------------
\* The index of virtual page v in a table of level l: shifts and a mask.
Index(v, l) == CASE l = 1 -> v % E
                 [] l = 2 -> (v \div E) % E
                 [] l = 3 -> ((v \div E) \div E) % E
                 [] l = 4 -> (((v \div E) \div E) \div E) % E

\* Mutant of zero_table: the loop stops one entry early.
ZeroTableMissesLast(m, f) ==
  [m EXCEPT ![f] = [n \in Indices |-> IF n = E-1 THEN m[f][n] ELSE Absent]]

\* Memory m after zero_table(f).
zero_table(m, f) == [m EXCEPT ![f] = [n \in Indices |-> Absent]]

\* Nothing is freed here, so the bitmap scan hands out the lowest frame first;
\* with none left the caller gets NULL, frame 0, and goes on.
kalloc_frame(f) ==
  IF pool # {}
  THEN f = Min(pool) /\ pool' = pool \ {f} /\ UNCHANGED lost
  ELSE f = 0 /\ lost' = lost \cup {pc} /\ UNCHANGED pool

Begin(c) == call' = c /\ level' = 4 /\ table' = pml4

LeafLevel == IF call.huge THEN 2 ELSE 1

\* One level of the walk: a missing table is allocated, zeroed and linked; a
\* present entry is followed, whether or not its PS bit is set.
Walk ==
  /\ call # NoCall /\ level > LeafLevel
  /\ LET n == Index(call.vaddr, level)
     IN  \/ /\ mem[table][n].present
            /\ table' = mem[table][n].frame
            /\ UNCHANGED <<mem, pool, lost>>
         \/ /\ ~mem[table][n].present
            /\ \E f \in Frames :
                 /\ kalloc_frame(f)
                 /\ mem' = [zero_table(mem, f) EXCEPT
                               ![table][n] = Present(f, FALSE, FALSE)]
                 /\ table' = f
  /\ level' = level - 1
  /\ UNCHANGED <<pml4, cr3, pc, p, call>>

\* Mutant of Uncached: the caller's flags are not written.
UncachedNever == FALSE

\* The flags of map_page; only the cache attribute is ever asked for.
Uncached == call.uc

\* The entry that map_page or map_page_2m writes at the end of its walk.
WriteLeaf ==
  /\ call # NoCall /\ level = LeafLevel
  /\ LET n == Index(call.vaddr, level)
         leaf == IF call.huge
                 THEN Present(call.paddr - (call.paddr % E), TRUE, Uncached)
                 ELSE Present(call.paddr, FALSE, Uncached)
     IN  mem' = [mem EXCEPT ![table][n] = leaf]
  /\ call' = NoCall /\ UNCHANGED <<pool, lost, pml4, cr3, pc, p, level, table>>
-----------------------------------------------------------------------------
(***************************************************************************)
(* paging_init and the later calls                                         *)
(***************************************************************************)
InitPml4 ==
  /\ pc = "start"
  /\ \E f \in Frames : /\ kalloc_frame(f)
                       /\ pml4' = f
                       /\ mem' = zero_table(mem, f)
  /\ pc' = "kernel" /\ p' = KernelStart
  /\ UNCHANGED <<cr3, call, level, table>>

KernelFrame(v) == v - KernelStart + PhysicalBase

MapKernel ==
  /\ pc = "kernel" /\ call = NoCall
  /\ \/ /\ p < KernelEnd
        /\ Begin([vaddr |-> p, paddr |-> KernelFrame(p), uc |-> FALSE, huge |-> FALSE])
        /\ p' = p + 1 /\ UNCHANGED pc
     \/ /\ p >= KernelEnd
        /\ pc' = "direct" /\ p' = 0
        /\ UNCHANGED <<call, level, table>>
  /\ UNCHANGED <<mem, pool, lost, pml4, cr3>>

\* Mutant of top: rounded down.
TopRoundedDown == (Max(MemEnds) \div E) * E

\* The end of the highest memory map entry, rounded up to a block.
top == ((Max(MemEnds) + E - 1) \div E) * E

DirectMap == Offset..(Offset + top - 1)

\* The direct map fits and is not where the kernel is; kalloc_frame's frames are memory.
ASSUME DirectMapAssumption ==
  /\ MemEnds # {} /\ top <= MaxFrame + 1 /\ Offset + top <= E * E * E * E
  /\ \A frames \in Pools : \A f \in frames : f < Max(MemEnds)
  /\ \A v \in KernelStart..(KernelEnd - 1) : v \notin DirectMap

\* The later calls map neither a page of the kernel nor one of the direct map.
LateCallsApart ==
  \A c \in LateCalls : c.vaddr \notin DirectMap /\ c.vaddr \notin KernelStart..(KernelEnd - 1)

MapDirect ==
  /\ pc = "direct" /\ call = NoCall
  /\ \/ /\ p < top
        /\ Begin([vaddr |-> p + Offset, paddr |-> p, uc |-> FALSE, huge |-> TRUE])
        /\ p' = p + E /\ UNCHANGED <<pc, cr3>>
     \/ /\ p >= top
        /\ cr3' = TRUE
        /\ pc' = "running" /\ UNCHANGED <<p, call, level, table>>
  /\ UNCHANGED <<mem, pool, lost, pml4>>

\* apic_init, ioapic_init and heap_init map a page each.
LateMap ==
  /\ pc = "running" /\ call = NoCall
  /\ \E c \in LateCalls : Begin(c)
  /\ UNCHANGED <<mem, pool, lost, pml4, cr3, pc, p>>

\* Frames hold anything before their first use as a table.
Init ==
  /\ \E junk \in {Absent, Present(0, FALSE, FALSE), Present(MaxFrame, TRUE, TRUE)} :
       mem = [f \in Frames |-> [n \in Indices |-> junk]]
  /\ pool \in Pools /\ lost = {}
  /\ pml4 = 0 /\ cr3 = FALSE
  /\ pc = "start" /\ p = 0
  /\ call = NoCall
  /\ level = 4 /\ table = 0

Next == InitPml4 \/ MapKernel \/ MapDirect \/ LateMap \/ Walk \/ WriteLeaf

Spec == Init /\ [][Next]_vars
-----------------------------------------------------------------------------
(***************************************************************************)
(* Properties                                                              *)
(***************************************************************************)
Unmapped == [mapped |-> FALSE]
Mapped(f, big, u) == [mapped |-> TRUE, frame |-> f, ps |-> big, uc |-> u]

\* The processor's walk of the tables under pml4.
Translate(v) ==
  LET e4 == mem[pml4][Index(v, 4)]
      e3 == mem[e4.frame][Index(v, 3)]
      e2 == mem[e3.frame][Index(v, 2)]
      e1 == mem[e2.frame][Index(v, 1)]
  IN  IF ~e4.present \/ ~e3.present \/ ~e2.present THEN Unmapped
      ELSE IF e2.ps THEN Mapped(e2.frame + Index(v, 1), TRUE, e2.uc)
      ELSE IF ~e1.present THEN Unmapped
      ELSE Mapped(e1.frame, FALSE, e1.uc)

\* The frames that entries of the tables in T refer to as tables, with the
\* entry: <<table, index, frame>>.
Links(T) == {<<t, n, mem[t][n].frame>> : t \in T, n \in Indices}
LiveLinks(T) == {l \in Links(T) : mem[l[1]][l[2]].present /\ ~mem[l[1]][l[2]].ps}
Pdpts == LiveLinks({pml4})
Pds == LiveLinks({l[3] : l \in Pdpts})
Pts == LiveLinks({l[3] : l \in Pds})
TableLinks == Pdpts \cup Pds \cup Pts
Tables == {pml4} \cup {l[3] : l \in TableLinks}

\* While frames last, the tables are a tree: one entry refers to each table
\* except pml4, no table is pml4, and none is a frame kalloc_frame can return.
TablesAreATree ==
  pc # "start" /\ lost = {} =>
    /\ \A k, l \in TableLinks : k[3] = l[3] => k = l
    /\ \A l \in TableLinks : l[3] # pml4
    /\ Tables \cap pool = {}

\* From the moment CR3 is loaded the kernel's own pages keep their frames, and
\* so does every page of the direct map up to the highest memory map end, even
\* if frames run out after that.
KernelStaysMapped ==
  cr3 /\ lost \subseteq {"running"} =>
    /\ \A v \in KernelStart..KernelEnd-1 :
         Translate(v) = Mapped(v - KernelStart + PhysicalBase, FALSE, FALSE)
    /\ \A f \in 0..Max(MemEnds)-1 : Translate(f + Offset) = Mapped(f, TRUE, FALSE)

\* map_page reaches each table at its frame plus the direct map's offset, which
\* works after CR3 is loaded because the direct map holds every table.
TablesAreReachable ==
  cr3 /\ lost \subseteq {"running"} =>
    \A t \in Tables : Translate(t + Offset).mapped /\ Translate(t + Offset).frame = t

\* Both, for the kernel that runs on its own tables.
PagerStaysMapped == KernelStaysMapped /\ TablesAreReachable

\* The tables implement the abstract virtual memory: a call takes effect, as it
\* was asked, at its last step, and no step that allocates, zeroes or links a
\* table changes the translation of any page.
VM == INSTANCE VirtualMemory
        WITH Pages <- VirtualPages, Block <- E, Requests <- Calls,
             None <- NoCall,
             vm <- [v \in VirtualPages |->
                      IF pc = "start" THEN Unmapped ELSE Translate(v)],
             request <- call,
             exhausted <- lost # {}

ImplementsVirtualMemory == VM!Spec

\* A finished map_page call maps its page to the frame and with the cache
\* attribute the caller gave.
CallsTakeEffect ==
  [][call # NoCall /\ call' = NoCall /\ ~call.huge /\ lost = {} =>
       \A v \in {call.vaddr} : Translate(v)' = Mapped(call.paddr, FALSE, call.uc)]_vars
=============================================================================
