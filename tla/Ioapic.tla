------------------------------- MODULE Ioapic -------------------------------
(***************************************************************************)
(* find_table and ioapic_init of kernel/arch/x86_64/ioapic.c: from the     *)
(* ACPI tables to the redirection registers of the I/O APIC.               *)
(*                                                                         *)
(* A firmware is a record: the RSDP's revision, the signatures of the      *)
(* tables in its RSDT and XSDT (xsdt = <<>> when the address is zero), the *)
(* entries of the MADT and what is true of the machine, which I/O APIC     *)
(* (its address) serves which global interrupts and how the ISA lines are  *)
(* wired to those.  Registers are written through an 8-bit offset.         *)
(***************************************************************************)
EXTENDS Integers, Sequences

CONSTANTS Firmwares,   \* the firmwares considered
          Apics,       \* addresses of I/O APICs, non-zero
          lapic_id,    \* of the processor that boots
          Gsis         \* global interrupts of one I/O APIC

VARIABLES fw,          \* the firmware
          io_pc,          \* "find", "parse", "route" or "done"
          io_k,           \* loop index: of find_table, then of the MADT's entries
          madt,        \* whether find_table found the MADT
          io,          \* ioapic_phys and gsi_base
          irq_gsi, irq_flags,
          redir        \* the registers of the I/O APICs

io_vars == <<fw, io_pc, io_k, madt, io, irq_gsi, irq_flags, redir>>

IsaIrqs == 0..15                             \* ISA_IRQ_COUNT
UsedLines == {1, 3, 4}

-----------------------------------------------------------------------------
\* What the firmware says, and what is true of the machine.
MadtEntry ==
  [type : Nat, length : Nat, ioapic_addr : Apics \cup {0}, gsi_base : Nat,
   irq_src : Nat, gsi : Nat, flags : SUBSET {"low", "level"}]
Firmware ==
  [revision : Nat, rsdt : Seq(STRING), xsdt : Seq(STRING), madt : Seq(MadtEntry),
   wire : [IsaIrqs -> [gsi : Nat, low : BOOLEAN, level : BOOLEAN]],
   serves : [Apics -> Nat \cup {-1}]]

IsApic(f, n) == f.madt[n].type = 1
Overrides(f, n, x) == f.madt[n].type = 2 /\ f.madt[n].irq_src = x
Serves(f, a, gsi) == f.serves[a] >= 0 /\ f.serves[a] <= gsi /\ gsi < f.serves[a] + Gsis
ServesLine(f, a) == \E x \in UsedLines : Serves(f, a, f.wire[x].gsi)

\* ACPI: the XSDT, where there is one, stands for the RSDT.
ListsMadt(f) ==
  LET listed == IF f.revision < 2 \/ f.xsdt = <<>> THEN f.rsdt ELSE f.xsdt
  IN  \E t \in DOMAIN listed : listed[t] = "APIC"

\* The MADT is there, has no malformed entry and says what is true: where the used lines
\* are wired, each to an input of its own, and which I/O APICs serve them.
Complete(f) ==
  /\ ListsMadt(f)
  /\ \A n \in DOMAIN f.madt :
       /\ f.madt[n].length # 0
       /\ IsApic(f, n) => \A a \in Apics : f.madt[n].ioapic_addr = a => f.madt[n].gsi_base = f.serves[a]
       /\ \A x \in UsedLines : Overrides(f, n, x) =>
            f.wire[x] = [gsi |-> f.madt[n].gsi, low |-> "low" \in f.madt[n].flags,
                         level |-> "level" \in f.madt[n].flags]
  /\ \A x \in UsedLines :
       /\ \/ \E n \in DOMAIN f.madt : Overrides(f, n, x)
          \/ f.wire[x] = [gsi |-> x, low |-> FALSE, level |-> FALSE]
       /\ \A y \in UsedLines : f.wire[x].gsi = f.wire[y].gsi => x = y
       /\ \E a \in Apics : Serves(f, a, f.wire[x].gsi)
  /\ \A a \in Apics : ServesLine(f, a) =>
       \E n \in DOMAIN f.madt : IsApic(f, n) /\ f.madt[n].ioapic_addr = a

\* No I/O APIC can be found: the MADT is missing, lists none or is cut short before it.
NoneListed(f) ==
  \/ ~ListsMadt(f)
  \/ \A n \in DOMAIN f.madt : IsApic(f, n) => \E m \in 1..n : f.madt[m].length = 0

\* An I/O APIC has so many inputs that the register of each fits the 8-bit offset.
ASSUME IoapicAssumption ==
  /\ Apics \subseteq Nat \ {0}
  /\ Gsis \in 1..120
  /\ lapic_id \in Nat
  /\ Firmwares \subseteq {f \in Firmware : Complete(f) \/ NoneListed(f)}

-----------------------------------------------------------------------------
Masked == [vector |-> 0, low |-> FALSE, level |-> FALSE, masked |-> TRUE]

IoapicInit ==
  /\ fw \in Firmwares
  /\ io_pc = "find" /\ io_k = 1 /\ madt = FALSE /\ io = [phys |-> 0, base |-> 0]
  /\ irq_gsi = [x \in IsaIrqs |-> x] /\ irq_flags = [x \in IsaIrqs |-> {}]
  /\ redir = [a \in Apics |-> [r \in 0..255 |-> [low |-> Masked, high |-> 0]]]

\* Mutant of UseXsdt: the XSDT is taken for an ACPI 2.0 pointer even when it is absent.
UseXsdtByRevision == fw.revision >= 2

UseXsdt == fw.revision >= 2 /\ fw.xsdt # <<>>

Tables == IF UseXsdt THEN fw.xsdt ELSE fw.rsdt

\* One iteration of find_table("APIC"); NULL ends ioapic_init.
find_table ==
  /\ io_pc = "find"
  /\ \/ io_k > Len(Tables) /\ io_pc' = "done" /\ UNCHANGED <<io_k, madt>>
     \/ io_k <= Len(Tables) /\ Tables[io_k] # "APIC" /\ io_k' = io_k + 1 /\ UNCHANGED <<io_pc, madt>>
     \/ io_k <= Len(Tables) /\ Tables[io_k] = "APIC" /\ io_pc' = "parse" /\ madt' = TRUE /\ io_k' = 1
  /\ UNCHANGED <<fw, io, irq_gsi, irq_flags, redir>>

\* "guard against a malformed table"
Malformed(e) == e.length = 0

\* p += entry->length, in entries.
NextEntry(e) == IF e.length = 0 THEN io_k ELSE io_k + 1

EntryLeft == io_k <= Len(fw.madt) /\ ~Malformed(fw.madt[io_k])

\* One iteration of the loop over the MADT's entries.
Parse ==
  /\ io_pc = "parse" /\ EntryLeft
  /\ LET e == fw.madt[io_k]
         src == IF e.type = 2 THEN {e.irq_src} \cap IsaIrqs ELSE {}
     IN  /\ io' = IF e.type = 1 THEN [phys |-> e.ioapic_addr, base |-> e.gsi_base] ELSE io
         /\ irq_gsi' = [x \in IsaIrqs |-> IF x \in src THEN e.gsi ELSE irq_gsi[x]]
         /\ irq_flags' = [x \in IsaIrqs |-> IF x \in src THEN e.flags ELSE irq_flags[x]]
         /\ io_k' = NextEntry(e)
  /\ UNCHANGED <<fw, io_pc, madt, redir>>

\* The end of the entries, or a malformed one.
ParseEnd ==
  /\ io_pc = "parse" /\ ~EntryLeft
  /\ io_pc' = IF io.phys = 0 THEN "done" ELSE "route"
  /\ io_k' = 1
  /\ UNCHANGED <<fw, madt, io, irq_gsi, irq_flags, redir>>

\* The register ioapic_route computes in 32 bits, cut to the 8 of write_ioapic's offset.
Register(gsi) == (16 + 2 * (gsi - io.base)) % 256

\* low in ioapic_route: flags are the override's active-low and level bits.
Entry(vector, flags) ==
  [vector |-> vector, low |-> "low" \in flags, level |-> "level" \in flags, masked |-> FALSE]

\* Keyboard IRQ 1 to vector 0x21, serial IRQ 3 to 0x22 and serial IRQ 4 to 0x23.
Routes == <<[irq |-> 1, vector |-> 33], [irq |-> 3, vector |-> 34], [irq |-> 4, vector |-> 35]>>

\* One of the three calls of ioapic_route, and the end of ioapic_init behind the last.
RouteLine ==
  /\ io_pc = "route" /\ io_k' = io_k + 1
  /\ redir' = [redir EXCEPT ![io.phys][Register(irq_gsi[Routes[io_k].irq])] =
                 [low |-> Entry(Routes[io_k].vector, irq_flags[Routes[io_k].irq]), high |-> lapic_id]]
  /\ io_pc' = IF io_k = Len(Routes) THEN "done" ELSE io_pc
  /\ UNCHANGED <<fw, madt, io, irq_gsi, irq_flags>>

Finished == io_pc = "done" /\ UNCHANGED io_vars

IoapicNext == find_table \/ Parse \/ ParseEnd \/ RouteLine \/ Finished

IoapicSpec == IoapicInit /\ [][IoapicNext]_io_vars /\ WF_io_vars(IoapicNext)

-----------------------------------------------------------------------------
\* The register of a global interrupt in the I/O APIC that serves it.
RegisterOf(a, gsi) == redir[a][16 + 2 * (gsi - fw.serves[a])]

\* Every I/O APIC entry replaces what the one before it said: no other I/O APIC is listed
\* behind the one that serves the lines.
IsaApicLast ==
  \A n \in DOMAIN fw.madt, a \in Apics :
    IsApic(fw, n) /\ fw.madt[n].ioapic_addr = a /\ ServesLine(fw, a)
      => \A m \in DOMAIN fw.madt : m > n => ~IsApic(fw, m)

\* The three lines the driver names: that input of the I/O APIC serving a line raises its
\* vector at this processor, with the line's polarity and mode.
ThreeRouted ==
  \A x \in {<<1, 33>>, <<3, 34>>, <<4, 35>>}, a \in Apics :
    LET line == fw.wire[x[1]]
    IN  Serves(fw, a, line.gsi) =>
          RegisterOf(a, line.gsi) =
            [low |-> [vector |-> x[2], low |-> line.low, level |-> line.level, masked |-> FALSE],
             high |-> lapic_id]

\* Every input that is not unmasked for one of the three stays as the boot loader left
\* it, and an I/O APIC nobody named is not touched.
OthersMasked ==
  \A a \in Apics, r \in 0..255 :
    redir[a][r].low.masked
      \/ (Complete(fw) /\ \E x \in UsedLines : /\ Serves(fw, a, fw.wire[x].gsi)
                                               /\ r = 16 + 2 * (fw.wire[x].gsi - fw.serves[a]))

\* "It routes keyboard IRQ 1 to vector 0x21, serial IRQ 3 to 0x22, and serial IRQ 4
\* to 0x23": wherever the tables say the lines are wired to, they are routed when
\* ioapic_init is done, and no other line can interrupt at any time; if the I/O APIC
\* serving them is the last in the table.
LinesRouted == IsaApicLast => OthersMasked /\ (io_pc = "done" /\ Complete(fw) => ThreeRouted)
=============================================================================
