---------------------------- MODULE Descriptors -----------------------------
(***************************************************************************)
(* The descriptor tables: gdt_init and write_tss (gdt.c), flush_gdt and    *)
(* flush_tss (boot.S), and idt_init's loop (idt.c).                        *)
(*                                                                         *)
(* A 64-bit address is the sequence of its eight bytes, the lowest first,  *)
(* so that a shift and a mask select bytes.  The fields of an entry keep   *)
(* their place: the first four bytes of the second half of a TSS           *)
(* descriptor, limit_lo and base_lo, hold bits 32 to 63 of the base.       *)
(***************************************************************************)
EXTENDS Integers, Sequences

CONSTANTS Tss,         \* the addresses tss_entry may be linked at
          Stub(_)      \* isr_stub_table

VARIABLES pc,          \* "gdt", "flush_gdt", "flush_tss", "idt" or "done"
          k,           \* index of the loop, or of the next call of encodeGDTEntry
          tss,         \* &tss_entry
          gdt, idt,    \* the entries written
          seg          \* the selectors loaded: cs, data and tr, as indices into the GDT

vars == <<pc, k, tss, gdt, idt, seg>>

Zero == <<0, 0, 0, 0, 0, 0, 0, 0>>
NoEntry == [limit_lo |-> <<0, 0>>, base_lo |-> <<0, 0>>, base_mid |-> 0, access |-> 0,
            flags |-> 0, base_hi |-> 0]

Init ==
  /\ pc = "gdt" /\ k = 0 /\ tss \in Tss
  /\ gdt = [i \in 0..8 |-> NoEntry] /\ idt = <<>> /\ seg = [cs |-> 0, data |-> 0, tr |-> 0]

\* Mutant of BaseHi: bits 16 to 23 again.
BaseHiMid(base) == base[3]

\* (base >> 24) & 0xff
BaseHi(base) == base[4]

encodeGDTEntry(base, limit, access, flags) ==
  [base_lo |-> SubSeq(base, 1, 2), base_mid |-> base[3], base_hi |-> BaseHi(base),
   limit_lo |-> <<limit % 256, (limit \div 256) % 256>>,
   access |-> access, flags |-> ((limit \div 65536) % 16) + ((flags * 16) % 256)]

Flat == 1048575        \* 0xfffff
TssLimit == 111        \* sizeof(tss_entry) - 1

\* Access byte and flags of entries 1 to 6.
Segments == <<<<154, 12>>, <<154, 10>>, <<146, 12>>, <<250, 10>>, <<242, 12>>, <<250, 10>>>>

Encode ==
  /\ pc = "gdt" /\ k <= 6 /\ k' = k + 1
  /\ gdt' = [gdt EXCEPT ![k] =
               IF k = 0 THEN encodeGDTEntry(Zero, 0, 0, 0)
               ELSE encodeGDTEntry(Zero, Flat, Segments[k][1], Segments[k][2])]
  /\ UNCHANGED <<pc, tss, idt, seg>>

write_tss ==
  /\ pc = "gdt" /\ k = 7 /\ pc' = "flush_gdt" /\ k' = 0
  /\ gdt' = [gdt EXCEPT ![7] = encodeGDTEntry(tss, TssLimit, 137, 0),
                        ![8].base_lo = SubSeq(tss, 5, 6), ![8].limit_lo = SubSeq(tss, 7, 8)]
  /\ UNCHANGED <<tss, idt, seg>>

\* 2 * 8, in flush_gdt and in every gate.
KernelCode == 2

flush_gdt ==
  /\ pc = "flush_gdt" /\ pc' = "flush_tss" /\ seg' = [seg EXCEPT !.cs = KernelCode, !.data = 3]
  /\ UNCHANGED <<k, tss, gdt, idt>>

flush_tss ==
  /\ pc = "flush_tss" /\ pc' = "idt" /\ seg' = [seg EXCEPT !.tr = 7]
  /\ UNCHANGED <<k, tss, gdt, idt>>

\* ((uint64_t)isr >> 16) & 0xffff
OffsetMid(isr) == SubSeq(isr, 3, 4)

idt_set_descriptor(isr, flags) ==
  [offset_lo |-> SubSeq(isr, 1, 2), ss |-> KernelCode, ist |-> 0, attributes |-> flags,
   offset_mid |-> OffsetMid(isr), offset_hi |-> SubSeq(isr, 5, 8)]

\* One iteration of idt_init's loop; 0x8e is a present interrupt gate.
idt_init ==
  /\ pc = "idt" /\ idt' = Append(idt, idt_set_descriptor(Stub(k), 142)) /\ k' = k + 1
  /\ pc' = IF k = 255 THEN "done" ELSE pc
  /\ UNCHANGED <<tss, gdt, seg>>

Finished == pc = "done" /\ UNCHANGED vars

Next == Encode \/ write_tss \/ flush_gdt \/ flush_tss \/ idt_init \/ Finished

Spec == Init /\ [][Next]_vars

-----------------------------------------------------------------------------
\* How the processor reads the tables.
Bit(n, b) == (n \div 2^b) % 2 = 1
IsCode(e) == Bit(e.access, 7) /\ Bit(e.access, 4) /\ Bit(e.access, 3)
IsData(e) == Bit(e.access, 7) /\ Bit(e.access, 4) /\ ~Bit(e.access, 3)
Dpl(e) == (e.access \div 32) % 4
Long(e) == Bit(e.flags, 5)
TssBase(i) == gdt[i].base_lo \o <<gdt[i].base_mid, gdt[i].base_hi>>
                \o gdt[i + 1].limit_lo \o gdt[i + 1].base_lo

\* A selector the kernel loads, in flush_gdt, in flush_tss or through a gate, refers to
\* an entry that is already written and is of the kind the processor demands there:
\* 64-bit code, writable data and an available TSS, all of the kernel's privilege.
SelectorsUsable ==
  /\ seg.cs # 0 => IsCode(gdt[seg.cs]) /\ Long(gdt[seg.cs]) /\ Dpl(gdt[seg.cs]) = 0
  /\ seg.data # 0 => IsData(gdt[seg.data]) /\ Bit(gdt[seg.data].access, 1) /\ Dpl(gdt[seg.data]) = 0
  /\ seg.tr # 0 => gdt[seg.tr].access % 32 = 9 /\ Bit(gdt[seg.tr].access, 7)
  /\ \A v \in 1..Len(idt) : IsCode(gdt[idt[v].ss]) /\ Long(gdt[idt[v].ss])

\* The task register leads to tss_entry, wherever the linker puts it in the kernel's
\* two gigabytes, although its address is spread over two entries.
TssFound == seg.tr # 0 => TssBase(seg.tr) = tss

\* Every gate leads to the stub of its own vector.
GatesLeadToStubs ==
  \A v \in 1..Len(idt) : idt[v].offset_lo \o idt[v].offset_mid \o idt[v].offset_hi = Stub(v - 1)

\* What the tables are for: selectors, task register and gates lead where the kernel
\* means them to, from the moment each is loaded or set.
TablesLead == SelectorsUsable /\ TssFound /\ GatesLeadToStubs
=============================================================================
