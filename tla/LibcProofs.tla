----------------------------- MODULE LibcProofs -----------------------------
(***************************************************************************)
(* Proofs about the memory and string functions, the terminal and the      *)
(* heap, for every memory, framebuffer, font, text, page size and width of *)
(* the heap's size field; and about the I/O APIC, for ACPI tables of any   *)
(* length.                                                                 *)
(***************************************************************************)
EXTENDS Strings, Heap, Terminal, Ioapic, TLAPS
-----------------------------------------------------------------------------
(***************************************************************************)
(* The I/O APIC: for every firmware that says what is true of the machine  *)
(* or lists no I/O APIC, with tables of any length.                        *)
(***************************************************************************)
Blank == [low |-> Masked, high |-> 0]
Untouched == \A a \in Apics, r \in 0..255 : redir[a][r] = Blank
Registers ==
  [low : [vector : Nat, low : BOOLEAN, level : BOOLEAN, masked : BOOLEAN], high : Nat]

\* find_table: none of the tables it has looked at is the MADT.
Searching ==
  /\ io_k \in 1..(Len(Tables) + 1) /\ \A t \in 1..(io_k - 1) : Tables[t] # "APIC"
  /\ io = [phys |-> 0, base |-> 0]
  /\ \A x \in UsedLines : irq_gsi[x] = x /\ irq_flags[x] = {}

\* The walk over the MADT holds the last I/O APIC it has met and, for each used line, what
\* an override it has met says.
LastApic ==
  \/ io = [phys |-> 0, base |-> 0] /\ \A e \in 1..(io_k - 1) : ~IsApic(fw, e)
  \/ \E e \in 1..(io_k - 1) :
       /\ IsApic(fw, e) /\ io = [phys |-> fw.madt[e].ioapic_addr, base |-> fw.madt[e].gsi_base]
       /\ \A m \in (e + 1)..(io_k - 1) : ~IsApic(fw, m)
LineMet(x) ==
  \/ irq_gsi[x] = x /\ irq_flags[x] = {} /\ \A e \in 1..(io_k - 1) : ~Overrides(fw, e, x)
  \/ \E e \in 1..(io_k - 1) :
       Overrides(fw, e, x) /\ irq_gsi[x] = fw.madt[e].gsi /\ irq_flags[x] = fw.madt[e].flags
Walking ==
  /\ ListsMadt(fw) /\ io_k \in 1..(Len(fw.madt) + 1)
  /\ \A e \in 1..(io_k - 1) : fw.madt[e].length # 0
  /\ LastApic /\ \A x \in UsedLines : LineMet(x)

\* Behind the walk: it holds the I/O APIC of the used lines and how they are wired to it.
Wired(x) == [gsi |-> irq_gsi[x], low |-> "low" \in irq_flags[x], level |-> "level" \in irq_flags[x]]
Found ==
  /\ Complete(fw)
  /\ io.base = fw.serves[io.phys]
  /\ \A a \in Apics : ServesLine(fw, a) => a = io.phys
  /\ \A x \in UsedLines : fw.wire[x] = Wired(x)

\* The first j lines are routed, and nothing else is written.
Slot(j) == Register(irq_gsi[Routes[j].irq])
Programmed(j) == [low |-> Entry(Routes[j].vector, irq_flags[Routes[j].irq]), high |-> lapic_id]
IsRouted(j) == redir[io.phys][Slot(j)] = Programmed(j)
Spared(a, r, j) == redir[a][r] = Blank \/ (a = io.phys /\ \E l \in 1..j : r = Slot(l))
Routed(j) ==
  /\ \A l \in 1..j : IsRouted(l)
  /\ \A a \in Apics, r \in 0..255 : Spared(a, r, j)

\* The inductive invariant.
IoapicInv ==
  /\ fw \in Firmwares
  /\ redir \in [Apics -> [0..255 -> Registers]]
  /\ \/ io_pc = "find" /\ Searching /\ Untouched
     \/ io_pc = "parse" /\ Walking /\ Untouched
     \/ /\ io_pc = "route" /\ io_k \in 1..3 /\ io.phys \in Apics
        /\ IsaApicLast => Found /\ Routed(io_k - 1)
     \/ io_pc = "done" /\ Untouched /\ ~(Complete(fw) /\ IsaApicLast)
     \/ io_pc = "done" /\ io.phys \in Apics /\ (IsaApicLast => Found /\ Routed(3))

\* What is assumed of a firmware.
LEMMA FirmwareFacts ==
  ASSUME fw \in Firmwares
  PROVE  /\ fw.revision \in Nat /\ fw.rsdt \in Seq(STRING) /\ fw.xsdt \in Seq(STRING)
         /\ fw.madt \in Seq(MadtEntry) /\ DOMAIN fw.madt = 1..Len(fw.madt)
         /\ fw.wire \in [IsaIrqs -> [gsi : Nat, low : BOOLEAN, level : BOOLEAN]]
         /\ fw.serves \in [Apics -> Nat \cup {-1}]
         /\ Complete(fw) \/ NoneListed(fw)
  BY IoapicAssumption DEF Firmware

\* ioapic_init starts with the identity map and no I/O APIC.
LEMMA IoapicStart == ASSUME IoapicInit PROVE IoapicInv
<1>1. Tables \in Seq(STRING)
  BY FirmwareFacts, Zenon DEF IoapicInit, Tables, UseXsdt
<1>2. redir \in [Apics -> [0..255 -> Registers]]
  BY DEF IoapicInit, Registers, Masked
<1>3. Untouched
  BY DEF IoapicInit, Untouched, Blank
<1> QED
  BY <1>1, <1>2, <1>3, SMTT(30) DEF IoapicInit, IoapicInv, Searching, UsedLines, IsaIrqs

\* The search ends at the MADT, or behind tables among which it is not.
LEMMA SearchStep == ASSUME IoapicInv, find_table PROVE IoapicInv'
<1>1. io_pc = "find" /\ Searching /\ Untouched /\ fw \in Firmwares
  BY DEF IoapicInv, find_table
<1>2. UNCHANGED <<fw, io, irq_gsi, irq_flags, redir>> /\ Tables' = Tables
  BY DEF find_table, Tables, UseXsdt
<1>3. Tables \in Seq(STRING)
  BY <1>1, FirmwareFacts DEF Tables, UseXsdt
<1>4. ListsMadt(fw) <=> \E t \in 1..Len(Tables) : Tables[t] = "APIC"
  <2>1. fw.revision \in Nat
    BY <1>1, FirmwareFacts
  <2>2. Tables = IF fw.revision < 2 \/ fw.xsdt = <<>> THEN fw.rsdt ELSE fw.xsdt
    BY <2>1, SMTT(30) DEF Tables, UseXsdt
  <2> QED
    BY <2>2, <1>3 DEF ListsMadt
<1>5. Untouched' /\ (redir \in [Apics -> [0..255 -> Registers]])'
  BY <1>1, <1>2 DEF IoapicInv, Untouched
<1>6. CASE io_k > Len(Tables) /\ io_pc' = "done" /\ UNCHANGED <<io_k, madt>>
  <2>1. ~ListsMadt(fw)
    BY <1>1, <1>3, <1>4, <1>6 DEF Searching
  <2>2. ~Complete(fw)'
    BY <2>1, <1>2 DEF Complete
  <2> QED
    BY <2>2, <1>1, <1>2, <1>5, <1>6 DEF IoapicInv
<1>7. CASE io_k <= Len(Tables) /\ Tables[io_k] # "APIC" /\ io_k' = io_k + 1 /\ UNCHANGED <<io_pc, madt>>
  <2>1. Searching'
    BY <1>1, <1>2, <1>3, <1>7 DEF Searching
  <2> QED
    BY <2>1, <1>1, <1>2, <1>5, <1>7 DEF IoapicInv
<1>8. CASE io_k <= Len(Tables) /\ Tables[io_k] = "APIC" /\ io_pc' = "parse" /\ madt' = TRUE /\ io_k' = 1
  <2>1. ListsMadt(fw)
    BY <1>1, <1>3, <1>4, <1>8 DEF Searching
  <2>2. ListsMadt(fw)' /\ fw.madt \in Seq(MadtEntry)
    BY <2>1, <1>1, <1>2, FirmwareFacts
  <2>3. LastApic' /\ \A x \in UsedLines : LineMet(x)'
    BY <1>1, <1>2, <1>8 DEF LastApic, LineMet, Searching
  <2>4. Walking'
    BY <2>2, <2>3, <1>2, <1>8, SMTT(30) DEF Walking
  <2> QED
    BY <2>4, <1>1, <1>2, <1>5, <1>8 DEF IoapicInv
<1> QED
  BY <1>6, <1>7, <1>8, Zenon DEF find_table

\* One entry: it replaces the I/O APIC, or what was known of one line, or nothing.
LEMMA EntryStep == ASSUME IoapicInv, Parse PROVE IoapicInv'
<1>1. io_pc = "parse" /\ Walking /\ Untouched /\ fw \in Firmwares /\ EntryLeft
  BY DEF IoapicInv, Parse
<1>2. UNCHANGED <<fw, io_pc, redir>>
  BY DEF Parse
<1>3. fw.madt \in Seq(MadtEntry)
  BY <1>1, FirmwareFacts
<1>4. /\ io_k \in 1..Len(fw.madt) /\ fw.madt[io_k].length # 0
  BY <1>1, <1>3 DEF Walking, EntryLeft, Malformed
<1>5. io_k' = io_k + 1
  BY <1>4 DEF Parse, NextEntry
<1>6. LastApic'
  <2>1. CASE IsApic(fw, io_k)
    <3>1. io' = [phys |-> fw.madt[io_k].ioapic_addr, base |-> fw.madt[io_k].gsi_base]
      BY <2>1 DEF Parse, IsApic
    <3>2. io_k \in 1..(io_k' - 1) /\ \A m \in (io_k + 1)..(io_k' - 1) : ~IsApic(fw, m)
      BY <1>4, <1>5
    <3> QED
      BY <2>1, <3>1, <3>2, <1>2 DEF LastApic, IsApic
  <2>2. CASE ~IsApic(fw, io_k)
    <3>1. io' = io
      BY <2>2 DEF Parse, IsApic
    <3>2. \A m \in Nat : m < io_k' <=> m < io_k \/ m = io_k
      BY <1>4, <1>5
    <3> QED
      BY <2>2, <3>1, <3>2, <1>1, <1>2, <1>4, <1>5 DEF Walking, LastApic, IsApic
  <2> QED
    BY <2>1, <2>2
<1>7. ASSUME NEW x \in UsedLines PROVE LineMet(x)'
  <2>0. x \in IsaIrqs /\ LineMet(x)
    BY <1>1 DEF UsedLines, IsaIrqs, Walking
  <2>1. CASE Overrides(fw, io_k, x)
    <3>1. irq_gsi'[x] = fw.madt[io_k].gsi /\ irq_flags'[x] = fw.madt[io_k].flags
      BY <2>0, <2>1 DEF Parse, Overrides
    <3>2. io_k \in 1..(io_k' - 1)
      BY <1>4, <1>5
    <3> QED
      BY <2>1, <3>1, <3>2, <1>2 DEF LineMet, Overrides
  <2>2. CASE ~Overrides(fw, io_k, x)
    <3>1. irq_gsi'[x] = irq_gsi[x] /\ irq_flags'[x] = irq_flags[x]
      BY <2>0, <2>2 DEF Parse, Overrides
    <3> QED
      BY <2>0, <2>2, <3>1, <1>2, <1>4, <1>5 DEF LineMet, Overrides
  <2> QED
    BY <2>1, <2>2
<1>8. Walking'
  <2>1. ListsMadt(fw)' /\ io_k' \in 1..(Len(fw'.madt) + 1)
    BY <1>1, <1>2, <1>3, <1>4, <1>5 DEF Walking
  <2>2. \A e \in 1..(io_k' - 1) : fw'.madt[e].length # 0
    BY <1>1, <1>2, <1>4, <1>5 DEF Walking
  <2> QED
    BY <2>1, <2>2, <1>6, <1>7 DEF Walking
<1> QED
  BY <1>1, <1>2, <1>8 DEF IoapicInv, Untouched

\* A complete MADT that was walked to its end, with the lines' I/O APIC last.
LEMMA WalkFinds ==
  ASSUME fw \in Firmwares, Walking, Complete(fw), IsaApicLast, ~EntryLeft
  PROVE  io.phys \in Apics /\ Found
<1>1. fw.madt \in Seq(MadtEntry) /\ DOMAIN fw.madt = 1..Len(fw.madt)
  BY FirmwareFacts
<1>2. io_k = Len(fw.madt) + 1
  <2>1. io_k \in 1..(Len(fw.madt) + 1) /\ \A e \in DOMAIN fw.madt : fw.madt[e].length # 0
    BY Zenon DEF Walking, Complete
  <2> QED
    BY <2>1, <1>1 DEF EntryLeft, Malformed
<1>3. \A e : e \in 1..(io_k - 1) <=> e \in DOMAIN fw.madt
  BY <1>1, <1>2
<1>4. ASSUME NEW a \in Apics, ServesLine(fw, a)
      PROVE  a = io.phys /\ io.base = fw.serves[a]
  <2>1. PICK e \in DOMAIN fw.madt : IsApic(fw, e) /\ fw.madt[e].ioapic_addr = a
    BY <1>4 DEF Complete
  <2>2. \A m \in DOMAIN fw.madt : m > e => ~IsApic(fw, m)
    BY <1>4, <2>1 DEF IsaApicLast
  <2>3. PICK m \in 1..(io_k - 1) :
          /\ IsApic(fw, m) /\ io = [phys |-> fw.madt[m].ioapic_addr, base |-> fw.madt[m].gsi_base]
          /\ \A o \in (m + 1)..(io_k - 1) : ~IsApic(fw, o)
    BY <2>1, <1>3 DEF Walking, LastApic
  <2>4. m = e
    BY <2>1, <2>2, <2>3, <1>1, <1>2
  <2>5. fw.madt[e].gsi_base = fw.serves[a]
    BY <2>1, Zenon DEF Complete
  <2> QED
    BY <2>1, <2>3, <2>4, <2>5
<1>5. PICK a \in Apics : Serves(fw, a, fw.wire[1].gsi)
  BY DEF Complete, UsedLines
<1>6. ServesLine(fw, a)
  BY <1>5 DEF ServesLine, UsedLines
<1>7. ASSUME NEW x \in UsedLines PROVE fw.wire[x] = Wired(x)
  <2>1. CASE \E e \in DOMAIN fw.madt : Overrides(fw, e, x)
    <3>1. PICK e \in DOMAIN fw.madt :
            Overrides(fw, e, x) /\ irq_gsi[x] = fw.madt[e].gsi /\ irq_flags[x] = fw.madt[e].flags
      BY <2>1, <1>3 DEF Walking, LineMet
    <3> QED
      BY <3>1 DEF Complete, Wired
  <2>2. CASE ~\E e \in DOMAIN fw.madt : Overrides(fw, e, x)
    <3>1. irq_gsi[x] = x /\ irq_flags[x] = {}
      BY <2>2, <1>3 DEF Walking, LineMet
    <3>2. fw.wire[x] = [gsi |-> x, low |-> FALSE, level |-> FALSE]
      BY <2>2 DEF Complete
    <3>3. ("low" \in irq_flags[x]) = FALSE /\ ("level" \in irq_flags[x]) = FALSE
      BY <3>1
    <3> QED
      BY <3>1, <3>2, <3>3, Zenon DEF Wired
  <2> QED
    BY <2>1, <2>2, Zenon
<1> QED
  BY <1>4, <1>6, <1>7 DEF Found

\* Behind the walk an I/O APIC is known only if the tables are complete.
LEMMA WalkEnds == ASSUME IoapicInv, ParseEnd PROVE IoapicInv'
<1>1. io_pc = "parse" /\ Walking /\ Untouched /\ fw \in Firmwares /\ ~EntryLeft
  BY DEF IoapicInv, ParseEnd
<1>2. UNCHANGED <<fw, io, irq_gsi, irq_flags, redir>> /\ io_k' = 1
  BY DEF ParseEnd
<1>3. fw.madt \in Seq(MadtEntry)
  BY <1>1, FirmwareFacts
<1>4. Untouched' /\ (redir \in [Apics -> [0..255 -> Registers]])' /\ IsaApicLast' = IsaApicLast
      /\ Complete(fw)' = Complete(fw)
  BY <1>1, <1>2, Zenon DEF IoapicInv, Untouched, IsaApicLast
<1>5. CASE io.phys = 0
  <2>1. ~(Complete(fw) /\ IsaApicLast)
    <3>1. 0 \notin Apics
      BY IoapicAssumption
    <3> QED
      BY <3>1, <1>1, <1>5, WalkFinds
  <2>2. io_pc' = "done"
    BY <1>5, Zenon DEF ParseEnd
  <2> QED
    BY <2>1, <2>2, <1>1, <1>2, <1>4 DEF IoapicInv
<1>6. CASE io.phys # 0
  <2>1. PICK e \in 1..(io_k - 1) : IsApic(fw, e) /\ io.phys = fw.madt[e].ioapic_addr
    BY <1>1, <1>6 DEF Walking, LastApic
  <2>2. e \in DOMAIN fw.madt /\ io.phys \in Apics
    <3>1. e \in 1..Len(fw.madt)
      BY <1>1, <1>3, <2>1 DEF Walking
    <3>2. fw.madt[e] \in MadtEntry /\ e \in DOMAIN fw.madt
      BY <3>1, <1>3
    <3>3. fw.madt[e].ioapic_addr \in Apics \cup {0}
      BY <3>2 DEF MadtEntry
    <3> QED
      BY <3>2, <3>3, <2>1, <1>6
  <2>3. Complete(fw)
    <3>1. ASSUME NEW m \in 1..e PROVE fw.madt[m].length # 0
      BY <1>1, <2>1 DEF Walking
    <3>2. ~NoneListed(fw)
      BY <1>1, <2>1, <2>2, <3>1 DEF NoneListed, Walking
    <3> QED
      BY <1>1, <3>2, FirmwareFacts
  <2>4. IsaApicLast => Found
    BY <1>1, <2>3, WalkFinds
  <2>5. IsaApicLast' => Found'
    BY <2>4, <1>2, <1>4 DEF Found, Wired
  <2>6. Routed(0)'
    <3>1. \A a \in Apics, r \in 0..255 : Spared(a, r, 0)'
      BY <1>4, ZenonT(30) DEF Untouched, Spared
    <3>2. 1..0 = {}
      OBVIOUS
    <3> QED
      BY <3>1, <3>2, Zenon DEF Routed
  <2>7. io_pc' = "route"
    BY <1>6 DEF ParseEnd
  <2> QED
    BY <1>1, <1>2, <1>4, <2>2, <2>5, <2>6, <2>7 DEF IoapicInv
<1> QED
  BY <1>5, <1>6

\* The lines have registers of their own, the ones of the inputs they are wired to.
LEMMA OwnSlots ==
  ASSUME fw \in Firmwares, io.phys \in Apics, Found
  PROVE  /\ \A j \in 1..3 : /\ Routes[j].irq \in UsedLines /\ Routes[j].vector = 32 + j
                            /\ Slot(j) = 16 + 2 * (fw.wire[Routes[j].irq].gsi - fw.serves[io.phys])
                            /\ Slot(j) \in 0..255
                            /\ Serves(fw, io.phys, fw.wire[Routes[j].irq].gsi)
         /\ \A j, l \in 1..3 : Slot(j) = Slot(l) => j = l
<1>1. \A j \in 1..3 : Routes[j].irq \in UsedLines /\ Routes[j].vector = 32 + j
  BY DEF Routes, UsedLines
<1>2. \A j, l \in 1..3 : Routes[j].irq = Routes[l].irq => j = l
  BY DEF Routes
<1>3. ASSUME NEW x \in UsedLines
      PROVE  /\ Serves(fw, io.phys, fw.wire[x].gsi)
             /\ irq_gsi[x] = fw.wire[x].gsi /\ fw.wire[x].gsi \in Nat
             /\ io.base = fw.serves[io.phys] /\ fw.serves[io.phys] \in Nat
             /\ Register(irq_gsi[x]) = 16 + 2 * (fw.wire[x].gsi - fw.serves[io.phys])
             /\ Register(irq_gsi[x]) \in 0..255
  <2>1. PICK a \in Apics : Serves(fw, a, fw.wire[x].gsi)
    BY Zenon DEF Found, Complete
  <2>2. a = io.phys
    BY <2>1 DEF Found, ServesLine
  <2>3. fw.wire \in [IsaIrqs -> [gsi : Nat, low : BOOLEAN, level : BOOLEAN]] /\ fw.serves \in [Apics -> Nat \cup {-1}]
    BY FirmwareFacts
  <2>4. fw.wire[x].gsi \in Nat /\ fw.serves[io.phys] \in Nat
    <3>1. x \in IsaIrqs
      BY DEF UsedLines, IsaIrqs
    <3>2. fw.wire[x] \in [gsi : Nat, low : BOOLEAN, level : BOOLEAN]
      BY <3>1, <2>3, Zenon
    <3>3. fw.serves[io.phys] \in Nat \cup {-1} /\ fw.serves[io.phys] >= 0
      BY <2>1, <2>2, <2>3 DEF Serves
    <3> QED
      BY <3>2, <3>3
  <2>5. irq_gsi[x] = fw.wire[x].gsi /\ io.base = fw.serves[io.phys]
    <3>1. fw.wire[x] = Wired(x) /\ io.base = fw.serves[io.phys]
      BY DEF Found
    <3>2. Wired(x).gsi = irq_gsi[x]
      BY DEF Wired
    <3> QED
      BY <3>1, <3>2
  <2>6. 16 + 2 * (fw.wire[x].gsi - fw.serves[io.phys]) \in 0..255
    <3>1. Gsis \in 1..120
      BY IoapicAssumption, Zenon
    <3>2. \A g, b \in Nat : b <= g /\ g < b + Gsis => 16 + 2 * (g - b) \in 0..255
      BY <3>1
    <3>3. fw.serves[io.phys] <= fw.wire[x].gsi /\ fw.wire[x].gsi < fw.serves[io.phys] + Gsis
      BY <2>1, <2>2, Zenon DEF Serves
    <3> QED
      BY <3>2, <3>3, <2>4, Zenon
  <2>7. Register(irq_gsi[x]) = 16 + 2 * (fw.wire[x].gsi - fw.serves[io.phys])
    <3>1. \A m \in 0..255 : m % 256 = m
      OBVIOUS
    <3> QED
      BY <3>1, <2>5, <2>6, ZenonT(30) DEF Register
  <2> QED
    BY <2>1, <2>2, <2>4, <2>5, <2>6, <2>7, ZenonT(30)
<1>4. \A x, y \in UsedLines : fw.wire[x].gsi = fw.wire[y].gsi => x = y
  BY Zenon DEF Found, Complete
<1>5. ASSUME NEW j \in 1..3, NEW l \in 1..3, Slot(j) = Slot(l) PROVE j = l
  <2>1. fw.wire[Routes[j].irq].gsi = fw.wire[Routes[l].irq].gsi
    BY <1>1, <1>3, <1>5, SMTT(30) DEF Slot
  <2> QED
    BY <2>1, <1>1, <1>2, <1>4, Zenon
<1> QED
  BY <1>1, <1>3, <1>5, ZenonT(30) DEF Slot

\* One line more is routed; the registers written before keep their values.
LEMMA RouteStep == ASSUME IoapicInv, RouteLine PROVE IoapicInv'
<1>1. /\ io_pc = "route" /\ io_k \in 1..3 /\ io.phys \in Apics /\ fw \in Firmwares
      /\ redir \in [Apics -> [0..255 -> Registers]]
      /\ IsaApicLast => Found /\ Routed(io_k - 1)
  BY DEF IoapicInv, RouteLine
<1>2. UNCHANGED <<fw, io, irq_gsi, irq_flags>> /\ io_k' = io_k + 1
      /\ redir' = [redir EXCEPT ![io.phys][Slot(io_k)] = Programmed(io_k)]
  BY DEF RouteLine, Slot, Programmed
<1>3. Programmed(io_k) \in Registers
  <2>1. Routes[io_k].vector \in Nat
    BY <1>1 DEF Routes
  <2>2. lapic_id \in Nat
    BY IoapicAssumption, Zenon
  <2>3. Entry(Routes[io_k].vector, irq_flags[Routes[io_k].irq])
          \in [vector : Nat, low : BOOLEAN, level : BOOLEAN, masked : BOOLEAN]
    <3>1. \A v \in Nat, b, c \in BOOLEAN :
            [vector |-> v, low |-> b, level |-> c, masked |-> FALSE]
              \in [vector : Nat, low : BOOLEAN, level : BOOLEAN, masked : BOOLEAN]
      OBVIOUS
    <3>2. \A f : ("low" \in f) \in BOOLEAN /\ ("level" \in f) \in BOOLEAN
      BY SMTT(30)
    <3> QED
      BY <3>1, <3>2, <2>1, Zenon DEF Entry
  <2> QED
    BY <2>2, <2>3, Zenon DEF Programmed, Registers
<1>4. redir' \in [Apics -> [0..255 -> Registers]]
  <2>1. [redir[io.phys] EXCEPT ![Slot(io_k)] = Programmed(io_k)] \in [0..255 -> Registers]
    BY <1>1, <1>3, Zenon
  <2> QED
    BY <2>1, <1>1, <1>2
<1>5. IsaApicLast' = IsaApicLast /\ (Found => Found')
  BY <1>2 DEF IsaApicLast, Found, Wired
<1>6. ASSUME IsaApicLast PROVE Routed(io_k - 1)'
  <2>1. Found /\ Routed(io_k - 1)
    BY <1>1, <1>6, Zenon
  <2>2. /\ \A j \in 1..3 : Slot(j) \in 0..255
        /\ \A j, l \in 1..3 : Slot(j) = Slot(l) => j = l
    BY <2>1, <1>1, OwnSlots
  <2>3. \A j : Slot(j)' = Slot(j) /\ Programmed(j)' = Programmed(j)
    BY <1>2 DEF Slot, Programmed, Register
  <2>4. \A a \in Apics, r \in 0..255 :
          redir'[a][r] = IF a = io.phys /\ r = Slot(io_k) THEN Programmed(io_k) ELSE redir[a][r]
    BY <1>1, <1>2
  <2>5. ASSUME NEW l \in 1..io_k PROVE redir'[io.phys][Slot(l)] = Programmed(l)
    <3>1. CASE l = io_k
      BY <3>1, <1>1, <2>2, <2>4, Zenon
    <3>2. CASE l # io_k
      <4>1. l \in 1..(io_k - 1) /\ l \in 1..3 /\ io_k \in 1..3
        BY <3>2, <1>1
      <4>2. redir[io.phys][Slot(l)] = Programmed(l)
        BY <4>1, <2>1, Zenon DEF Routed, IsRouted
      <4>3. Slot(l) # Slot(io_k) /\ Slot(l) \in 0..255
        BY <4>1, <3>2, <2>2
      <4> QED
        BY <4>2, <4>3, <1>1, <2>4, Zenon
    <3> QED
      BY <3>1, <3>2
  <2>6. ASSUME NEW a \in Apics, NEW r \in 0..255
        PROVE  redir'[a][r] = Blank \/ (a = io.phys /\ \E l \in 1..io_k : r = Slot(l))
    <3>1. CASE a = io.phys /\ r = Slot(io_k)
      BY <3>1, <1>1
    <3>2. CASE ~(a = io.phys /\ r = Slot(io_k))
      <4>1. redir'[a][r] = redir[a][r]
        BY <3>2, <2>4, Zenon
      <4>2. redir[a][r] = Blank \/ (a = io.phys /\ \E l \in 1..(io_k - 1) : r = Slot(l))
        BY <2>1, Zenon DEF Routed, Spared
      <4>3. \A l \in 1..(io_k - 1) : l \in 1..io_k
        BY <1>1
      <4> QED
        BY <4>1, <4>2, <4>3, Zenon
    <3> QED
      BY <3>1, <3>2, Zenon
  <2>7. \A l \in 1..io_k : IsRouted(l)'
    BY <2>3, <2>5, <1>2, Zenon DEF IsRouted
  <2>8. \A a \in Apics, r \in 0..255 : \A j : j = io_k => Spared(a, r, j)'
    BY <2>3, <2>6, <1>2, ZenonT(30) DEF Spared
  <2>9. io_k' - 1 = io_k
    BY <1>1, <1>2
  <2> QED
    BY <2>7, <2>8, <2>9, ZenonT(30) DEF Routed
<1>7. CASE io_k = 3
  <2>1. io_pc' = "done"
    BY <1>7 DEF RouteLine, Routes
  <2>2. io_k' - 1 = 3
    BY <1>2, <1>7
  <2>3. IsaApicLast' => Found' /\ Routed(3)'
    <3>1. Routed(io_k - 1)' => Routed(3)'
      BY <2>2, ZenonT(30) DEF Routed
    <3> QED
      BY <3>1, <1>1, <1>5, <1>6, Zenon
  <2> QED
    BY <2>1, <2>3, <1>1, <1>2, <1>4 DEF IoapicInv
<1>8. CASE io_k # 3
  <2>1. io_pc' = "route" /\ io_k' \in 1..3
    BY <1>1, <1>2, <1>8 DEF RouteLine, Routes
  <2>2. IsaApicLast' => Found' /\ Routed(io_k - 1)'
    BY <1>1, <1>5, <1>6
  <2> QED
    BY <2>1, <2>2, <1>1, <1>2, <1>4, Zenon DEF IoapicInv
<1> QED
  BY <1>7, <1>8

\* A step of something else.
LEMMA IoapicIdle == ASSUME IoapicInv, UNCHANGED io_vars PROVE IoapicInv'
<1>1. IsaApicLast' = IsaApicLast /\ Found' = Found /\ Untouched' = Untouched /\ Searching' = Searching
  BY Zenon DEF io_vars, IsaApicLast, Found, Wired, Untouched, Searching, Tables, UseXsdt
<1>2. Walking' = Walking
  BY DEF io_vars, Walking, LastApic, LineMet
<1>3. (Routed(3) => Routed(3)') /\ (Routed(io_k - 1) => Routed(io_k - 1)')
  <2>1. UNCHANGED <<redir, io, io_k>> /\ \A j : Slot(j)' = Slot(j) /\ Programmed(j)' = Programmed(j)
    BY Zenon DEF io_vars, Slot, Programmed, Register
  <2>2. \A l : IsRouted(l)' = IsRouted(l)
    BY <2>1, Zenon DEF IsRouted
  <2>3. \A a, r, j : Spared(a, r, j)' = Spared(a, r, j)
    BY <2>1, Zenon DEF Spared
  <2> QED
    BY <2>1, <2>2, <2>3, ZenonT(30) DEF Routed
<1> QED
  BY <1>1, <1>2, <1>3, Zenon DEF IoapicInv, io_vars

\* In a state of the invariant: before the routing nothing is unmasked, and behind it the
\* three registers are the ones of the inputs the lines are wired to.
LEMMA InvRoutes == ASSUME IoapicInv PROVE LinesRouted
<1> SUFFICES ASSUME IsaApicLast
             PROVE  OthersMasked /\ (io_pc = "done" /\ Complete(fw) => ThreeRouted)
  BY DEF LinesRouted
<1>1. CASE Untouched /\ ~(io_pc = "done" /\ Complete(fw))
  <2>1. Blank.low.masked
    BY DEF Blank, Masked
  <2> QED
    BY <2>1, <1>1, Zenon DEF Untouched, OthersMasked
<1>2. ASSUME NEW j \in 0..3, io.phys \in Apics, Found, Routed(j), io_pc = "done" => j = 3
      PROVE  OthersMasked /\ (io_pc = "done" => ThreeRouted)
  <2>0. fw \in Firmwares /\ Complete(fw)
    BY <1>2, ZenonT(30) DEF IoapicInv, Found
  <2>1. /\ \A l \in 1..3 : /\ Routes[l].irq \in UsedLines /\ Routes[l].vector = 32 + l
                           /\ Slot(l) = 16 + 2 * (fw.wire[Routes[l].irq].gsi - fw.serves[io.phys])
                           /\ Serves(fw, io.phys, fw.wire[Routes[l].irq].gsi)
    BY <2>0, <1>2, OwnSlots
  <2>2. OthersMasked
    <3>1. SUFFICES ASSUME NEW a \in Apics, NEW r \in 0..255, redir[a][r] # Blank
                   PROVE  \E x \in UsedLines : /\ Serves(fw, a, fw.wire[x].gsi)
                                               /\ r = 16 + 2 * (fw.wire[x].gsi - fw.serves[a])
      <4>1. Blank.low.masked
        BY Zenon DEF Blank, Masked
      <4> QED
        BY <4>1, <2>0, Zenon DEF OthersMasked
    <3>2. a = io.phys /\ \E l \in 1..3 : r = Slot(l)
      <4>1. a = io.phys /\ \E l \in 1..j : r = Slot(l)
        BY <3>1, <1>2, ZenonT(30) DEF Routed, Spared
      <4>2. \A l \in 1..j : l \in 1..3
        OBVIOUS
      <4> QED
        BY <4>1, <4>2, Zenon
    <3>3. PICK l \in 1..3 : r = Slot(l)
      BY <3>2, Zenon
    <3>4. /\ Routes[l].irq \in UsedLines /\ Serves(fw, io.phys, fw.wire[Routes[l].irq].gsi)
          /\ r = 16 + 2 * (fw.wire[Routes[l].irq].gsi - fw.serves[io.phys])
      BY <3>3, <2>1, Zenon
    <3> QED
      BY <3>2, <3>4, Zenon
  <2>3. ASSUME io_pc = "done" PROVE ThreeRouted
    <3>1. ASSUME NEW l \in 1..3, NEW a \in Apics, Serves(fw, a, fw.wire[Routes[l].irq].gsi)
          PROVE  RegisterOf(a, fw.wire[Routes[l].irq].gsi) =
                   [low |-> [vector |-> 32 + l, low |-> fw.wire[Routes[l].irq].low,
                             level |-> fw.wire[Routes[l].irq].level, masked |-> FALSE],
                    high |-> lapic_id]
      <4>1. a = io.phys
        BY <3>1, <2>1, <1>2, Zenon DEF Found, ServesLine
      <4>2. redir[io.phys][Slot(l)] = Programmed(l)
        BY <2>3, <1>2, ZenonT(30) DEF Routed, IsRouted
      <4>3. fw.wire[Routes[l].irq] = Wired(Routes[l].irq)
        BY <2>1, <1>2 DEF Found
      <4>4. Programmed(l) = [low |-> [vector |-> 32 + l, low |-> fw.wire[Routes[l].irq].low,
                             level |-> fw.wire[Routes[l].irq].level, masked |-> FALSE],
                    high |-> lapic_id]
        <5>1. /\ Wired(Routes[l].irq).low = ("low" \in irq_flags[Routes[l].irq])
              /\ Wired(Routes[l].irq).level = ("level" \in irq_flags[Routes[l].irq])
          BY Zenon DEF Wired
        <5> QED
          BY <5>1, <4>3, <2>1, Zenon DEF Programmed, Entry
      <4> QED
        BY <4>1, <4>2, <4>4, <2>1, ZenonT(30) DEF RegisterOf
    <3>2. Routes[1].irq = 1 /\ Routes[2].irq = 3 /\ Routes[3].irq = 4
      BY DEF Routes
    <3> QED
      <4>1. ASSUME NEW x \in {<<1, 33>>, <<3, 34>>, <<4, 35>>}
            PROVE  \E l \in 1..3 : x[1] = Routes[l].irq /\ x[2] = 32 + l
        BY <3>2
      <4> QED
        BY <4>1, <3>1, Zenon DEF ThreeRouted
  <2> QED
    BY <2>2, <2>3
<1>3. CASE io_pc = "route"
  BY <1>2, <1>3 DEF IoapicInv
<1>4. CASE io_pc = "done" /\ io.phys \in Apics /\ Found /\ Routed(3)
  BY <1>2, <1>4
<1> QED
  BY <1>1, <1>3, <1>4 DEF IoapicInv

\* For every firmware, of any number of entries in any order: when ioapic_init is done the
\* keyboard's and the serial ports' lines raise their vectors, wherever they are wired to,
\* and it unmasks nothing else at any time.
THEOREM LinesAreRouted == IoapicSpec => []LinesRouted
<1>1. IoapicInv /\ [IoapicNext]_io_vars => IoapicInv'
  BY SearchStep, EntryStep, WalkEnds, RouteStep, IoapicIdle DEF IoapicNext, Finished
<1>2. IoapicInit => IoapicInv
  BY IoapicStart
<1>3. IoapicInv => LinesRouted
  BY InvRoutes
<1> QED
  BY <1>1, <1>2, <1>3, PTL DEF IoapicSpec
-----------------------------------------------------------------------------
(***************************************************************************)
(* memmove, memcpy and memset are right for every memory, every size and   *)
(* every overlap of their operands; memcmp and the string functions, for   *)
(* every memory and all strings in it, do what string.h promises.          *)
(***************************************************************************)
\* The bytes a copy has written so far: from the front, or from the back.
Written == IF Backward THEN (p + i)..(p + n - 1) ELSE p..(p + i - 1)

\* The operands of a call that copies: they lie in memory, and for memcpy apart.
Operands ==
  /\ p \in Addr /\ q \in Addr /\ n \in 0..Size /\ old \in Memory /\ val \in Bytes
  /\ fn \in {"memmove", "memcpy", "memset", "memcmp"} => p + n <= Size /\ q + n <= Size
  /\ fn = "memcpy" => Apart(p, q, n, n)
  /\ pc \in {"loop", "copy", "done"}

\* The loop invariant: what is written is the source's old contents, the rest of
\* memory is untouched, and the index tells the two apart.
CopyInv ==
  fn \in {"memmove", "memcpy", "memset"} =>
    /\ i \in 0..n
    /\ pc # "copy"
    /\ pc = "done" => i = IF Backward THEN 0 ELSE n
    /\ mem = [a \in Addr |-> IF a \in Written
                             THEN IF fn = "memset" THEN val ELSE old[a - p + q]
                             ELSE old[a]]

\* memcmp has found no difference before its index and changes nothing.
CompareInv ==
  fn = "memcmp" =>
    /\ i \in 0..n /\ mem = old /\ pc # "copy"
    /\ pc = "loop" => \A k \in 0..(i - 1) : old[p + k] = old[q + k]
    /\ ComparesRight

IInv == Operands /\ CopyInv /\ CompareInv

\* Before its first step a function has copied and compared nothing.
LEMMA InitInv == Init => IInv
<1> SUFFICES ASSUME Init PROVE IInv
  OBVIOUS
<1> USE StringsAssumption DEF StringsAssumption, Addr
<1>1. Operands
  BY DEF Init, Operands, Callable, Memory
<1>2. CopyInv
  <2> SUFFICES ASSUME fn \in {"memmove", "memcpy", "memset"} PROVE CopyInv
    BY DEF CopyInv
  <2>1. i \in 0..n /\ pc = "loop"
    BY DEF Init
  <2>2. \A a \in Addr : a \notin Written
    BY DEF Init, Written
  <2>3. mem = [a \in Addr |-> old[a]]
    BY DEF Init, Memory
  <2>4. QED
    BY <2>1, <2>2, <2>3 DEF CopyInv
<1>3. CompareInv
  BY DEF Init, CompareInv, ComparesRight, Backward
<1>4. QED
  BY <1>1, <1>2, <1>3, Zenon DEF IInv

\* One byte copied or compared keeps the invariant.
LEMMA NextInv == IInv /\ [Next]_vars => IInv'
<1> SUFFICES ASSUME IInv, [Next]_vars PROVE IInv'
  BY ZenonT(30)
<1> USE StringsAssumption DEF StringsAssumption, Addr
<1>1. call' = call
  BY DEF Next, vars, CopyForward, CopyBackward, memcmp, strlen, strcpy, strcat, strcmp, strncmp, Returned
<1>2. fn' = fn /\ p' = p /\ q' = q /\ n' = n /\ val' = val /\ old' = old
  BY <1>1 DEF call
<1>3. Backward' = Backward
  BY <1>2 DEF Backward
<1>4. pc' \in {"loop", "copy", "done"}
  BY ZenonT(30) DEF IInv, Operands, Next, vars, CopyForward, CopyBackward, memcmp, strlen, strcpy, strcat,
         strcmp, strncmp, Returned, CopyString, On, Stop
<1>5. Operands'
  BY <1>2, <1>4 DEF IInv, Operands, Apart, Memory
<1>6. CopyInv'
  <2> SUFFICES ASSUME fn \in {"memmove", "memcpy", "memset"} PROVE CopyInv'
    BY <1>2 DEF CopyInv
  <2>1. CASE UNCHANGED vars
    BY <2>1, <1>2, <1>3 DEF IInv, CopyInv, Written, vars
  <2>2. CASE CopyForward /\ i < n
    <3>1. /\ i \in Nat /\ n \in Nat /\ ~Backward /\ pc = "loop" /\ pc' = "loop" /\ i' = i + 1
          /\ mem' = [mem EXCEPT ![p + i] = IF fn = "memset" THEN val ELSE mem[q + i]]
      BY <2>2 DEF CopyForward, IInv, CopyInv, Operands, On, Stop
    <3>2. p + i \in Addr /\ p \in Nat /\ q \in Nat
      BY <2>2, <3>1 DEF IInv, Operands
    <3>3. fn # "memset" => mem[q + i] = old[q + i]
      <4>1. fn # "memset" => q + i \in Addr /\ q + i \notin Written
        BY <2>2, <3>1, <3>2 DEF IInv, Operands, Written, Apart, Backward
      <4>2. QED
        BY <4>1 DEF IInv, CopyInv
    <3>4. \A a \in Addr : a \in Written' <=> a \in Written \/ a = p + i
      BY <1>2, <1>3, <3>1, <3>2 DEF Written
    <3>5. mem' = [a \in Addr |-> IF a \in Written'
                                 THEN IF fn = "memset" THEN val ELSE old[a - p + q] ELSE old[a]]
      <4>1. mem' = [a \in Addr |-> IF a = p + i THEN IF fn = "memset" THEN val ELSE mem[q + i] ELSE mem[a]]
        BY <3>1, Zenon DEF IInv, CopyInv
      <4>2. \A a \in Addr : mem[a] = IF a \in Written
                                    THEN IF fn = "memset" THEN val ELSE old[a - p + q] ELSE old[a]
        BY DEF IInv, CopyInv
      <4>3. (p + i) - p + q = q + i
        BY <3>1, <3>2
      <4>4. QED
        BY <3>3, <3>4, <4>1, <4>2, <4>3
    <3>6. i' \in 0..n
      BY <2>2, <3>1
    <3>7. QED
      BY <1>2, <1>3, <3>1, <3>5, <3>6, Zenon DEF CopyInv
  <2>3. CASE CopyForward /\ ~(i < n)
    <3>1. i = n /\ i' = i /\ pc' = "done" /\ mem' = mem /\ ~Backward
      BY <2>3 DEF CopyForward, IInv, CopyInv, Operands, Stop
    <3>2. Written' = Written
      BY <1>2, <1>3, <3>1 DEF Written
    <3>3. QED
      BY <1>2, <1>3, <3>1, <3>2 DEF IInv, CopyInv
  <2>4. CASE CopyBackward /\ i # 0
    <3>1. /\ i \in 1..n /\ n \in Nat /\ Backward /\ fn = "memmove" /\ pc = "loop" /\ pc' = "loop"
          /\ i' = i - 1 /\ mem' = [mem EXCEPT ![p + i - 1] = mem[q + i - 1]]
      BY <2>4 DEF CopyBackward, Backward, IInv, CopyInv, Operands, Stop
    <3>2. p + i - 1 \in Addr /\ q + i - 1 \in Addr /\ p \in Nat /\ q \in Nat
      BY <3>1 DEF IInv, Operands
    <3>3. mem[q + i - 1] = old[q + i - 1]
      <4>1. q + i - 1 \notin Written
        BY <3>1, <3>2 DEF Written, Backward
      <4>2. QED
        BY <3>1, <3>2, <4>1 DEF IInv, CopyInv
    <3>4. \A a \in Addr : a \in Written' <=> a \in Written \/ a = p + i - 1
      <4>1. Written = (p + i)..(p + n - 1) /\ Written' = (p + (i - 1))..(p + n - 1)
        BY <1>2, <1>3, <3>1 DEF Written
      <4>2. QED
        BY <3>1, <3>2, <4>1, SMTT(30)
    <3>5. mem' = [a \in Addr |-> IF a \in Written' THEN old[a - p + q] ELSE old[a]]
      <4>1. mem' = [a \in Addr |-> IF a = p + i - 1 THEN mem[q + i - 1] ELSE mem[a]]
        BY <3>1, Zenon DEF IInv, CopyInv
      <4>2. \A a \in Addr : mem[a] = IF a \in Written THEN old[a - p + q] ELSE old[a]
        BY <3>1 DEF IInv, CopyInv
      <4>3. (p + i - 1) - p + q = q + i - 1
        BY <3>1, <3>2
      <4>4. QED
        BY <3>3, <3>4, <4>1, <4>2, <4>3
    <3>6. i' \in 0..n
      BY <3>1
    <3>7. QED
      BY <1>2, <1>3, <3>1, <3>5, <3>6, Zenon DEF CopyInv
  <2>5. CASE CopyBackward /\ i = 0
    <3>1. i' = i /\ pc' = "done" /\ mem' = mem /\ Backward
      BY <2>5 DEF CopyBackward, Stop
    <3>2. Written' = Written
      BY <1>2, <1>3, <3>1, Zenon DEF Written
    <3>3. QED
      BY <1>2, <1>3, <2>5, <3>1, <3>2 DEF IInv, CopyInv
  <2>6. QED
    BY <2>1, <2>2, <2>3, <2>4, <2>5 DEF Next, memcmp, strlen, strcpy, strcat, strcmp, strncmp, Returned
<1>7. CompareInv'
  <2> SUFFICES ASSUME fn = "memcmp" PROVE CompareInv'
    BY <1>2 DEF CompareInv
  <2> DEFINE Same(m) == \A k \in 0..(m - 1) : old[p + k] = old[q + k]
  <2>0. i \in Nat /\ n \in Nat /\ mem = old /\ Same(i)' = Same(i')
    BY <1>2 DEF IInv, CompareInv, Operands
  <2>1. CASE UNCHANGED vars
    BY <1>2, <2>1 DEF IInv, CompareInv, ComparesRight, vars
  <2>2. CASE memcmp
    <3>1. mem' = old /\ pc = "loop" /\ Same(i) /\ i \in 0..n
      BY <2>0, <2>2, Zenon DEF memcmp, IInv, CompareInv
    <3>2. CASE i < n /\ mem[p + i] = mem[q + i]
      <4>1. i' = i + 1 /\ pc' = "loop"
        BY <2>0, <2>2, <3>1, <3>2 DEF memcmp, On, Stop
      <4>2. \A k \in 0..(i' - 1) : old[p + k] = old[q + k]
        BY <2>0, <3>1, <3>2, <4>1
      <4>3. QED
        BY <1>2, <2>0, <3>1, <3>2, <4>1, <4>2 DEF CompareInv, ComparesRight
    <3>3. CASE i < n /\ mem[p + i] # mem[q + i]
      <4>1. i' = i /\ pc' = "done" /\ result' = IF old[p + i] < old[q + i] THEN -1 ELSE 1
        BY <2>0, <2>2, <3>3 DEF memcmp, On, Stop, Less
      <4>2. p + i \in Addr /\ q + i \in Addr
        BY <2>0, <3>3 DEF IInv, Operands
      <4>3. old[p + i] \in Int /\ old[q + i] \in Int
        <5>1. old[p + i] \in Bytes /\ old[q + i] \in Bytes
          BY <4>2 DEF IInv, Operands, Memory
        <5>2. \A b \in Bytes : b \in 0..255
          BY Zenon
        <5>3. \A b \in Bytes : b \in Int
          BY <5>2
        <5>4. QED
          BY <5>1, <5>3, Zenon
      <4>4. i \in 0..(n - 1) /\ \/ result' = -1 /\ old[p + i] < old[q + i]
                                \/ result' = 1 /\ old[p + i] > old[q + i]
        BY <2>0, <3>3, <4>1, <4>3
      <4>5. QED
        BY <1>2, <3>1, <4>1, <4>4 DEF CompareInv, ComparesRight
    <3>4. CASE i >= n
      <4>1. i' = i /\ pc' = "done" /\ result' = 0 /\ i = n
        BY <2>0, <2>2, <3>1, <3>4 DEF memcmp, On, Stop
      <4>2. QED
        BY <1>2, <3>1, <4>1 DEF CompareInv, ComparesRight
    <3>5. QED
      BY <2>0, <3>2, <3>3, <3>4
  <2>3. QED
    BY <2>1, <2>2 DEF Next, CopyForward, CopyBackward, Backward, strlen, strcpy, strcat, strcmp,
                      strncmp, Returned
<1>8. QED
  BY <1>5, <1>6, <1>7 DEF IInv

\* memmove, memcpy and memset leave the destination with the old contents of the
\* source and nothing else changed, for every memory and every overlap.
THEOREM CopiesAreRight == Spec => []CopiesRight
<1>1. IInv => CopiesRight
  BY StringsAssumption DEF IInv, Operands, CopyInv, CopiesRight, Written, Addr, StringsAssumption
<1>2. QED
  BY InitInv, NextInv, <1>1, PTL DEF Spec
-----------------------------------------------------------------------------
(***************************************************************************)
(* The string functions                                                    *)
(***************************************************************************)
Scanners == {"strlen", "strcat", "strcmp", "strncmp"}
Comparers == {"strcmp", "strncmp"}

\* Where strcpy and strcat write, and how many characters in front of the terminator.
Dest == IF fn = "strcat" THEN StrEnd(old, p) ELSE p
SrcLen == StrLen(old, q)

\* The operands are strings, and the copy fits apart from its source.
StringOperands ==
  /\ fn \in Scanners => IsString(old, p)
  /\ fn \in Comparers \cup {"strcpy", "strcat"} => IsString(old, q)
  /\ fn \in {"strcpy", "strcat"} =>
       Dest + SrcLen < Size /\ (Dest + SrcLen < q \/ q + SrcLen < Dest)

\* A scan has changed nothing and met no terminator before its index, and a comparison
\* no difference.
ScanInv ==
  fn \in {"strlen", "strcmp", "strncmp"} \/ (fn = "strcat" /\ pc = "loop") =>
    /\ mem = old /\ i \in Nat /\ pc # "copy"
    /\ pc = "loop" => \A j \in 0..(i - 1) : old[p + j] # NUL
    /\ pc = "loop" /\ fn \in Comparers => \A j \in 0..(i - 1) : old[p + j] = old[q + j]
    /\ StringsCompareRight
    /\ fn = "strlen" /\ pc = "done" => result = StrLen(old, p)

\* What a copy of m characters leaves.
Copied(m) == [a \in Addr |-> IF a \in Dest..(Dest + m - 1) THEN old[a - Dest + q] ELSE old[a]]

\* i characters are copied; at the end the terminator too.
StrCopyInv ==
  fn = "strcpy" \/ (fn = "strcat" /\ pc # "loop") =>
    /\ i \in 0..SrcLen
    /\ fn = "strcat" => result = Dest
    /\ fn = "strcpy" => pc # "copy"
    /\ mem = IF pc = "done" THEN Copied(SrcLen + 1) ELSE Copied(i)

SInv == StringOperands /\ ScanInv /\ StrCopyInv

\* The end of a string is where its one terminator is.
LEMMA EndOfString ==
  ASSUME NEW m \in Memory, NEW a \in Addr, IsString(m, a)
  PROVE  /\ StrEnd(m, a) \in Addr /\ StrLen(m, a) \in Nat /\ a + StrLen(m, a) = StrEnd(m, a)
         /\ EndsAt(m, a, StrEnd(m, a))
         /\ \A e \in Addr : EndsAt(m, a, e) => e = StrEnd(m, a)
<1> USE StringsAssumption DEF StringsAssumption, Addr
<1>1. StrEnd(m, a) \in Addr /\ EndsAt(m, a, StrEnd(m, a))
  BY DEF IsString, StrEnd
<1>2. StrLen(m, a) \in Nat /\ a + StrLen(m, a) = StrEnd(m, a)
  BY <1>1 DEF StrLen, EndsAt
<1>3. ASSUME NEW e \in Addr, EndsAt(m, a, e) PROVE e = StrEnd(m, a)
  <2> DEFINE s == StrEnd(m, a)
  <2>1. a <= s /\ m[s] = NUL /\ \A x \in a..(s - 1) : m[x] # NUL
    BY <1>1 DEF EndsAt
  <2>2. a <= e /\ m[e] = NUL /\ \A x \in a..(e - 1) : m[x] # NUL
    BY <1>3 DEF EndsAt
  <2>3. s \in Int /\ e \in Int /\ a \in Int
    BY <1>1
  <2> HIDE DEF s
  <2>4. QED
    BY <2>1, <2>2, <2>3 DEF s
<1>4. QED
  BY <1>1, <1>2, <1>3

\* A scan that met no terminator is not past the end of the string.
LEMMA NotPastEnd ==
  ASSUME NEW m \in Memory, NEW a \in Addr, IsString(m, a), NEW k \in Nat,
         \A j \in 0..(k - 1) : m[a + j] # NUL
  PROVE  a + k <= StrEnd(m, a) /\ a + k \in Addr
<1> USE StringsAssumption DEF StringsAssumption, Addr
<1> DEFINE e == StrEnd(m, a)
<1>1. e \in Addr /\ a <= e /\ m[e] = NUL
  BY EndOfString DEF EndsAt
<1>2. ASSUME a + k > e PROVE FALSE
  <2>1. e - a \in 0..(k - 1) /\ a + (e - a) = e
    BY <1>1, <1>2
  <2>2. QED
    BY <1>1, <2>1, Zenon
<1>3. QED
  BY <1>1, <1>2

\* Before its first step a string function has read nothing.
LEMMA InitString == Init => SInv
<1> SUFFICES ASSUME Init PROVE SInv
  OBVIOUS
<1> USE StringsAssumption DEF StringsAssumption
<1>1. /\ mem = old /\ old \in Memory /\ p \in Addr /\ q \in Addr /\ pc = "loop" /\ Callable
      /\ (fn \in Scanners \cup {"strcpy"} => i = 0)
  BY DEF Init, Backward, Scanners
<1>2. StringOperands
  <2>1. fn \in Scanners => IsString(old, p)
    BY <1>1, Zenon DEF Callable, Scanners
  <2>2. fn \in Comparers \cup {"strcpy", "strcat"} => IsString(old, q)
    BY <1>1 DEF Callable, Comparers
  <2>3. CASE fn = "strcpy"
    <3>1. SrcLen \in Nat /\ Dest = p /\ p \in Int /\ q \in Int
      BY <1>1, <2>2, <2>3, EndOfString DEF SrcLen, Dest, Addr
    <3>2. p + SrcLen < Size /\ Apart(p, q, SrcLen + 1, SrcLen + 1)
      BY <1>1, <2>3 DEF Callable, SrcLen
    <3>3. QED
      BY <2>1, <2>2, <2>3, <3>1, <3>2 DEF StringOperands, Apart
  <2>4. CASE fn = "strcat"
    <3>1. /\ SrcLen \in Nat /\ Dest = StrEnd(old, p) /\ p \in Int /\ q \in Int
          /\ Dest \in Int /\ p + StrLen(old, p) = Dest /\ StrLen(old, p) \in Nat
      BY <1>1, <2>1, <2>2, <2>4, EndOfString, SMTT(30) DEF SrcLen, Dest, Addr, Scanners
    <3>2. Dest + SrcLen < Size /\ Apart(p, q, StrLen(old, p) + SrcLen + 1, SrcLen + 1)
      BY <1>1, <2>4, <3>1 DEF Callable, SrcLen
    <3>3. QED
      BY <2>1, <2>2, <2>4, <3>1, <3>2 DEF StringOperands, Apart
  <2>5. QED
    BY <2>1, <2>2, <2>3, <2>4, Zenon DEF StringOperands
<1>3. ScanInv
  BY <1>1 DEF ScanInv, Scanners, StringsCompareRight
<1>4. StrCopyInv
  <2> SUFFICES ASSUME fn = "strcpy" PROVE StrCopyInv
    BY <1>1, Zenon DEF StrCopyInv
  <2>1. SrcLen \in Nat /\ Dest = p /\ p \in Int
    BY <1>1, <1>2, EndOfString DEF StringOperands, SrcLen, Dest, Addr
  <2>2. i = 0
    BY <1>1
  <2>3. Copied(0) = old
    <3>1. \A a \in Addr : a \notin Dest..(Dest + 0 - 1)
      BY <2>1
    <3>2. Copied(0) = [a \in Addr |-> old[a]]
      BY <3>1 DEF Copied
    <3>3. QED
      BY <1>1, <3>2 DEF Memory
  <2>4. QED
    BY <1>1, <2>1, <2>2, <2>3 DEF StrCopyInv
<1>5. QED
  BY <1>2, <1>3, <1>4 DEF SInv

\* Two characters have the same value exactly when they are the same byte.
LEMMA CharsDiffer == \A a, b \in 0..255 : Char(a) - Char(b) = 0 <=> a = b
BY DEF Char

\* strcmp or strncmp at a difference, or at the end of both strings.
LEMMA CompareAt ==
  ASSUME IInv, SInv, fn \in Comparers, pc = "loop", NEW m \in 0..Size, i < m
  PROVE  /\ old[p + i] # old[q + i] => ~SameString(p, q, m)
         /\ old[p + i] = old[q + i] /\ old[p + i] = NUL => SameString(p, q, m)
<1> USE StringsAssumption DEF StringsAssumption, Addr
<1>1. old \in Memory /\ p \in Addr /\ q \in Addr /\ IsString(old, p) /\ IsString(old, q) /\ i \in Nat
  BY DEF IInv, Operands, SInv, StringOperands, ScanInv, Comparers, Scanners
<1>2. \A j \in 0..(i - 1) : old[p + j] # NUL /\ old[p + j] = old[q + j]
  BY DEF SInv, ScanInv, Comparers
<1>3. p + i \in Addr /\ q + i \in Addr
  <2>1. \A j \in 0..(i - 1) : old[q + j] # NUL
    BY <1>2
  <2>2. QED
    BY <1>1, <1>2, <2>1, NotPastEnd, ZenonT(30)
<1>4. ASSUME old[p + i] # old[q + i] PROVE ~SameString(p, q, m)
  <2>1. i \in 0..(m - 1)
    BY <1>1
  <2>2. QED
    BY <1>2, <1>4, <2>1 DEF SameString
<1>5. ASSUME old[p + i] = old[q + i], old[p + i] = NUL PROVE SameString(p, q, m)
  <2> SUFFICES ASSUME NEW k \in 0..(m - 1), \A j \in 0..(k - 1) : old[p + j] # NUL
               PROVE  p + k < Size /\ q + k < Size /\ old[p + k] = old[q + k]
    BY DEF SameString
  <2>1. k <= i
    BY <1>1, <1>5
  <2>2. p + k < Size /\ q + k < Size
    BY <1>1, <1>3, <2>1
  <2>3. old[p + k] = old[q + k]
    <3>1. CASE k = i
      BY <1>5, <3>1, Zenon
    <3>2. CASE k < i
      <4>1. k \in 0..(i - 1)
        BY <1>1, <3>2
      <4>2. QED
        BY <1>2, <4>1
    <3>3. QED
      BY <1>1, <2>1, <3>1, <3>2
  <2>4. QED
    BY <2>2, <2>3
<1>6. QED
  BY <1>4, <1>5, Zenon

\* The index of a comparison stays in the memory, so that strcmp compares within Size.
LEMMA IndexBound ==
  ASSUME IInv, SInv, fn \in Scanners, pc = "loop"
  PROVE  /\ i \in 0..(Size - 1) /\ p + i \in Addr /\ p + i <= StrEnd(old, p)
         /\ fn \in Comparers => q + i \in Addr /\ q + i <= StrEnd(old, q)
<1> USE StringsAssumption DEF StringsAssumption
<1>1. /\ old \in Memory /\ p \in Addr /\ q \in Addr /\ IsString(old, p) /\ i \in Nat
      /\ fn \in Comparers => IsString(old, q)
  BY DEF IInv, Operands, SInv, StringOperands, ScanInv, Comparers, Scanners
<1>2. /\ \A j \in 0..(i - 1) : old[p + j] # NUL
      /\ fn \in Comparers => \A j \in 0..(i - 1) : old[q + j] # NUL
  BY DEF SInv, ScanInv, Comparers, Scanners
<1>3. p + i \in Addr /\ p + i <= StrEnd(old, p)
  BY <1>1, <1>2, NotPastEnd
<1>4. fn \in Comparers => q + i \in Addr /\ q + i <= StrEnd(old, q)
  BY <1>1, <1>2, NotPastEnd, ZenonT(30)
<1>5. QED
  BY <1>1, <1>3, <1>4 DEF Addr

\* A scan that goes on, or a comparison that ends.
LEMMA ScanStep ==
  ASSUME IInv, SInv, call' = call,
         strlen \/ strcmp \/ strncmp \/ (strcat /\ pc = "loop" /\ pc' = "loop")
  PROVE  ScanInv'
<1> USE StringsAssumption DEF StringsAssumption
<1>1. fn' = fn /\ p' = p /\ q' = q /\ n' = n /\ old' = old
  BY ZenonT(30) DEF call
<1>2. /\ pc = "loop" /\ fn \in Scanners /\ mem = old /\ mem' = old /\ i \in Nat
      /\ old \in Memory /\ p \in Addr /\ n \in 0..Size
  BY DEF strlen, strcmp, strncmp, strcat, Scanners, SInv, ScanInv, IInv, Operands
<1>3. /\ \A j \in 0..(i - 1) : old[p + j] # NUL
      /\ fn \in Comparers => \A j \in 0..(i - 1) : old[p + j] = old[q + j]
  BY <1>2 DEF SInv, ScanInv, Scanners, Comparers
<1>4. i \in 0..(Size - 1) /\ p + i \in Addr /\ (fn \in Comparers => q + i \in Addr)
  BY <1>2, IndexBound, Zenon
<1>5. CASE pc' = "loop"
  <2>1. i' = i + 1 /\ old[p + i] # NUL /\ (fn \in Comparers => old[p + i] = old[q + i])
    BY <1>2, <1>5 DEF strlen, strcmp, strncmp, strcat, On, Stop, Comparers, Ended, InCount
  <2>2. \A j \in 0..(i' - 1) : j = i \/ j \in 0..(i - 1)
    BY <1>2, <2>1
  <2>3. QED
    BY <1>1, <1>2, <1>3, <1>5, <2>1, <2>2, SMTT(30) DEF ScanInv, StringsCompareRight
<1>6. CASE pc' = "done"
  <2>1. i' = i
    BY <1>2, <1>6 DEF strlen, strcmp, strncmp, strcat, On, Stop
  <2>2. CASE fn = "strlen"
    <3>1. old[p + i] = NUL /\ result' = i
      BY <1>2, <1>6, <2>2 DEF strlen, strcmp, strncmp, strcat, On, Stop
    <3>2. EndsAt(old, p, p + i)
      <4>1. \A x \in p..(p + i - 1) : old[x] # NUL
        <5> SUFFICES ASSUME NEW x \in p..(p + i - 1) PROVE old[x] # NUL
          OBVIOUS
        <5>1. x - p \in 0..(i - 1) /\ p + (x - p) = x
          BY <1>2 DEF Addr
        <5>2. QED
          BY <1>3, <5>1
      <4>2. QED
        BY <1>2, <3>1, <4>1 DEF EndsAt, Addr
    <3>3. p + i = StrEnd(old, p)
      BY <1>2, <1>4, <2>2, <3>2, EndOfString DEF SInv, StringOperands, Scanners
    <3>4. i = StrLen(old, p)
      BY <1>2, <3>3 DEF StrLen, Addr
    <3>5. QED
      BY <1>1, <1>2, <1>6, <2>1, <2>2, <3>1, <3>4, ZenonT(30) DEF ScanInv, StringsCompareRight, Comparers
  <2>3. CASE fn \in Comparers
    <3> DEFINE m == IF fn = "strcmp" THEN Size ELSE n
    <3>1. old[p + i] \in 0..255 /\ old[q + i] \in 0..255
      <4>1. old[p + i] \in Bytes /\ old[q + i] \in Bytes
        BY <1>2, <1>4, <2>3 DEF Memory
      <4>2. \A b \in Bytes : b \in 0..255
        BY Zenon
      <4>3. QED
        BY <4>1, <4>2, Zenon
    <3>2. m \in 0..Size
      BY <1>2
    <3>3. result' = 0 <=> SameString(p, q, m)
      <4>1. CASE i < m /\ old[p + i] # old[q + i]
        <5>1. result' = Char(old[p + i]) - Char(old[q + i])
          BY <1>2, <2>3, <4>1, Zenon DEF strlen, strcmp, strncmp, strcat, Comparers, InCount
        <5>2. ~SameString(p, q, m)
          BY <1>2, <2>3, <3>2, <4>1, CompareAt
        <5>3. QED
          BY <3>1, <4>1, <5>1, <5>2, CharsDiffer, ZenonT(30)
      <4>2. CASE i < m /\ old[p + i] = old[q + i]
        <5>1. old[p + i] = NUL
          BY <1>2, <1>6, <2>3, <4>2, Zenon DEF strlen, strcmp, strncmp, strcat, Comparers, InCount, On, Ended
        <5>2. fn = "strcmp" => result' = Char(old[p + i]) - Char(old[q + i])
          BY <1>2, <1>6, <2>3, <4>2, <5>1 DEF strlen, strcmp, strncmp, strcat
        <5>3. fn = "strncmp" => result' = 0
          BY <1>2, <1>6, <2>3, <4>2, <5>1, Zenon DEF strlen, strcmp, strncmp, strcat, InCount, On
        <5>4. SameString(p, q, m)
          BY <1>2, <2>3, <3>2, <4>2, <5>1, CompareAt
        <5>5. QED
          BY <2>3, <3>1, <4>2, <5>2, <5>3, <5>4, CharsDiffer, ZenonT(30) DEF Comparers
      <4>3. CASE ~(i < m)
        <5>1. fn = "strncmp" /\ m = n /\ n <= i
          BY <1>2, <1>4, <2>3, <4>3 DEF Comparers
        <5>2. result' = 0
          BY <1>2, <4>3, <5>1, Zenon DEF strlen, strcmp, strncmp, strcat, InCount
        <5>3. SameString(p, q, n)
          <6> SUFFICES ASSUME NEW k \in 0..(n - 1)
                       PROVE  p + k < Size /\ q + k < Size /\ old[p + k] = old[q + k]
            BY DEF SameString
          <6>1. k \in 0..(i - 1) /\ q \in Addr
            BY <1>2, <5>1 DEF IInv, Operands
          <6>2. QED
            BY <1>2, <1>3, <1>4, <2>3, <6>1 DEF Addr
        <5>4. QED
          BY <5>1, <5>2, <5>3
      <4>4. QED
        BY <4>1, <4>2, <4>3, SMTT(30)
    <3>4. StringsCompareRight'
      BY <1>1, <3>3, Zenon DEF StringsCompareRight, SameString
    <3>5. QED
      BY <1>1, <1>2, <1>6, <2>1, <2>3, <3>4 DEF ScanInv, Comparers
  <2>4. CASE fn = "strcat"
    BY <1>6, <2>4, Zenon DEF strlen, strcmp, strncmp, strcat
  <2>5. QED
    BY <1>2, <2>2, <2>3, <2>4, ZenonT(30) DEF Scanners, Comparers
<1>7. QED
  BY <1>2, <1>5, <1>6 DEF strlen, strcmp, strncmp, strcat, On, Stop

\* Dest and SrcLen are addresses and lengths in memory, and depend on the call only.
LEMMA CopyOperands ==
  ASSUME IInv, SInv, fn \in {"strcpy", "strcat"}
  PROVE  /\ Dest \in Addr /\ q \in Addr /\ SrcLen \in Nat /\ Dest + SrcLen < Size
         /\ q + SrcLen \in Addr /\ (Dest + SrcLen < q \/ q + SrcLen < Dest)
         /\ old[q + SrcLen] = NUL /\ \A j \in 0..(SrcLen - 1) : old[q + j] # NUL
<1> USE StringsAssumption DEF StringsAssumption
<1>1. /\ old \in Memory /\ p \in Addr /\ q \in Addr /\ IsString(old, q)
      /\ fn = "strcat" => IsString(old, p)
      /\ Dest + SrcLen < Size /\ (Dest + SrcLen < q \/ q + SrcLen < Dest)
  BY Zenon DEF IInv, Operands, SInv, StringOperands, Scanners
<1>2. SrcLen \in Nat /\ q + SrcLen = StrEnd(old, q) /\ StrEnd(old, q) \in Addr
  BY <1>1, EndOfString DEF SrcLen
<1>3. /\ old[StrEnd(old, q)] = NUL
      /\ \A x \in q..(StrEnd(old, q) - 1) : old[x] # NUL
  BY <1>1, EndOfString DEF EndsAt
<1>4. Dest \in Addr
  BY <1>1, EndOfString DEF Dest
<1>5. ASSUME NEW j \in 0..(SrcLen - 1) PROVE old[q + j] # NUL
  <2>1. q + j \in q..(StrEnd(old, q) - 1)
    BY <1>1, <1>2 DEF Addr
  <2>2. QED
    BY <1>3, <2>1
<1>6. QED
  BY <1>1, <1>2, <1>3, <1>4, <1>5, Zenon

\* One character copied.
LEMMA CopyStep ==
  ASSUME IInv, SInv, call' = call, strcpy \/ (strcat /\ pc = "copy")
  PROVE  StrCopyInv'
<1> USE StringsAssumption DEF StringsAssumption, Addr
<1>1. fn' = fn /\ p' = p /\ q' = q /\ n' = n /\ old' = old
  BY Zenon DEF call
<1>2. Dest' = Dest /\ SrcLen' = SrcLen /\ \A m : Copied(m)' = Copied(m)
  BY <1>1, ZenonT(30) DEF Dest, SrcLen, Copied
<1>3. /\ fn \in {"strcpy", "strcat"} /\ pc # "done" /\ (pc = "copy" <=> fn = "strcat")
      /\ i \in 0..SrcLen /\ mem = Copied(i) /\ CopyString(Dest)
      /\ fn = "strcat" => result = Dest
  BY DEF strcpy, strcat, SInv, StrCopyInv, Dest
<1>4. /\ Dest \in Addr /\ q \in Addr /\ SrcLen \in Nat /\ Dest + SrcLen < Size
      /\ q + SrcLen \in Addr /\ (Dest + SrcLen < q \/ q + SrcLen < Dest)
      /\ old[q + SrcLen] = NUL /\ \A j \in 0..(SrcLen - 1) : old[q + j] # NUL
  BY <1>3, CopyOperands
<1>5. mem[q + i] = old[q + i]
  <2>1. q + i \in Addr /\ q + i \notin Dest..(Dest + i - 1)
    BY <1>3, <1>4
  <2>2. QED
    BY <1>3, <2>1 DEF Copied
<1>6. mem' = Copied(i + 1)
  <2>1. mem' = [a \in Addr |-> IF a = Dest + i THEN old[q + i] ELSE mem[a]]
    BY <1>3, <1>5, ZenonT(30) DEF CopyString, Copied
  <2>2. \A a \in Addr : mem[a] = IF a \in Dest..(Dest + i - 1) THEN old[a - Dest + q] ELSE old[a]
    BY <1>3 DEF Copied
  <2>3. (Dest + i) - Dest + q = q + i
    BY <1>3, <1>4
  <2>4. \A a \in Addr : a \in Dest..(Dest + (i + 1) - 1) <=> a = Dest + i \/ a \in Dest..(Dest + i - 1)
    BY <1>3, <1>4
  <2>5. QED
    BY <2>1, <2>2, <2>3, <2>4 DEF Copied
<1>7. CASE old[q + i] # NUL
  <2>1. i' = i + 1 /\ pc' = pc /\ result' = result
    BY <1>3, <1>5, <1>7 DEF CopyString, On
  <2>2. i' \in 0..SrcLen
    BY <1>3, <1>4, <1>7, <2>1
  <2>3. QED
    BY <1>1, <1>2, <1>3, <1>6, <2>1, <2>2 DEF StrCopyInv
<1>8. CASE old[q + i] = NUL
  <2>1. i' = i /\ pc' = "done" /\ result' = result
    BY <1>3, <1>5, <1>8 DEF CopyString, Stop
  <2>2. i = SrcLen
    BY <1>3, <1>4, <1>8
  <2>3. QED
    BY <1>1, <1>2, <1>3, <1>6, <2>1, <2>2 DEF StrCopyInv
<1>9. QED
  BY <1>7, <1>8

\* strcat finds the end of dst and starts to copy there.
LEMMA CatStep ==
  ASSUME IInv, SInv, call' = call, strcat, pc = "loop", pc' = "copy"
  PROVE  StrCopyInv'
<1> USE StringsAssumption DEF StringsAssumption, Addr
<1>1. fn' = fn /\ p' = p /\ q' = q /\ n' = n /\ old' = old
  BY DEF call
<1>2. Dest' = Dest /\ SrcLen' = SrcLen /\ \A m : Copied(m)' = Copied(m)
  BY <1>1 DEF Dest, SrcLen, Copied
<1>3. fn = "strcat" /\ mem = old /\ mem' = old /\ i' = 0 /\ result' = p + i /\ old[p + i] = NUL
  BY DEF strcat, SInv, ScanInv, On, CatFrom
<1>4. old \in Memory /\ p \in Addr /\ IsString(old, p) /\ i \in Nat /\ p + i \in Addr
  BY <1>3, IndexBound, Zenon DEF IInv, Operands, SInv, StringOperands, ScanInv, Scanners
<1>5. EndsAt(old, p, p + i)
  <2>1. \A x \in p..(p + i - 1) : old[x] # NUL
    <3> SUFFICES ASSUME NEW x \in p..(p + i - 1) PROVE old[x] # NUL
      OBVIOUS
    <3>1. x - p \in 0..(i - 1) /\ p + (x - p) = x
      BY <1>4
    <3>2. QED
      BY <1>3, <3>1 DEF SInv, ScanInv
  <2>2. QED
    BY <1>3, <1>4, <2>1 DEF EndsAt
<1>6. result' = Dest
  BY <1>3, <1>4, <1>5, EndOfString DEF Dest
<1>7. Dest \in Addr /\ SrcLen \in Nat
  BY <1>3, CopyOperands
<1>8. Copied(0) = old
  <2>1. \A a \in Addr : a \notin Dest..(Dest + 0 - 1)
    BY <1>7
  <2>2. Copied(0) = [a \in Addr |-> old[a]]
    BY <2>1 DEF Copied
  <2>3. QED
    BY <1>4, <2>2 DEF Memory
<1>9. QED
  BY <1>1, <1>2, <1>3, <1>6, <1>7, <1>8 DEF StrCopyInv

\* One character read or copied keeps the invariant.
LEMMA NextString == IInv /\ SInv /\ [Next]_vars => SInv'
<1> SUFFICES ASSUME IInv, SInv, [Next]_vars PROVE SInv'
  OBVIOUS
<1>1. call' = call
  BY Zenon DEF Next, vars, CopyForward, CopyBackward, memcmp, strlen, strcpy, strcat, strcmp, strncmp, Returned
<1>2. fn' = fn /\ p' = p /\ q' = q /\ n' = n /\ old' = old
  BY <1>1 DEF call
<1>3. Dest' = Dest /\ SrcLen' = SrcLen
  BY <1>2 DEF Dest, SrcLen
<1>4. StringOperands'
  BY <1>2, <1>3 DEF SInv, StringOperands
<1>5. CASE UNCHANGED vars
  <2>1. mem' = mem /\ i' = i /\ pc' = pc /\ result' = result
    BY <1>5 DEF vars
  <2>2. StringsCompareRight' = StringsCompareRight
    BY <1>2, <2>1, Zenon DEF StringsCompareRight, SameString
  <2>3. ScanInv'
    BY <1>2, <2>1, <2>2, Zenon DEF SInv, ScanInv
  <2>4. StrCopyInv'
    BY <1>2, <1>3, <2>1, Zenon DEF SInv, StrCopyInv, Copied
  <2>5. QED
    BY <1>4, <2>3, <2>4 DEF SInv
<1>6. CASE strlen \/ strcmp \/ strncmp \/ (strcat /\ pc = "loop" /\ pc' = "loop")
  <2>1. ~(fn' = "strcpy" \/ (fn' = "strcat" /\ pc' # "loop"))
    BY <1>2, <1>6, Zenon DEF strlen, strcmp, strncmp, strcat
  <2>2. QED
    BY <1>1, <1>4, <1>6, <2>1, ScanStep, Zenon DEF SInv, StrCopyInv
<1>7. CASE strcpy \/ (strcat /\ pc = "copy")
  <2>1. ~(fn' \in {"strlen", "strcmp", "strncmp"} \/ (fn' = "strcat" /\ pc' = "loop"))
    BY <1>2, <1>7, Zenon DEF strcpy, strcat, CopyString, On, Stop
  <2>2. QED
    BY <1>1, <1>4, <1>7, <2>1, CopyStep, Zenon DEF SInv, ScanInv
<1>8. CASE strcat /\ pc = "loop" /\ pc' = "copy"
  <2>1. ~(fn' \in {"strlen", "strcmp", "strncmp"} \/ (fn' = "strcat" /\ pc' = "loop"))
    BY <1>2, <1>8, Zenon DEF strcat
  <2>2. QED
    BY <1>1, <1>4, <1>8, <2>1, CatStep DEF SInv, ScanInv
<1>9. CASE CopyForward \/ CopyBackward \/ memcmp
  <2>1. fn' \in {"memcpy", "memmove", "memset", "memcmp"}
    BY <1>2, <1>9, ZenonT(30) DEF CopyForward, CopyBackward, Backward, memcmp
  <2>2. QED
    BY <1>4, <2>1, Zenon DEF SInv, ScanInv, StrCopyInv
<1>10. CASE strcat
  BY <1>6, <1>7, <1>8, <1>10 DEF strcat, On
<1>11. QED
  BY <1>5, <1>6, <1>7, <1>9, <1>10 DEF Next, Returned

\* memcmp, strlen, strcmp, strncmp, strcpy and strcat do what string.h promises, for
\* every memory and every string in it, and no loop runs past its string's end.
THEOREM CallsAreRight == Spec => []CallsRight
<1> USE StringsAssumption DEF StringsAssumption
<1>1. ASSUME IInv, SInv PROVE CallsRight
  <2>1. ComparesRight
    BY <1>1 DEF IInv, CompareInv, ComparesRight
  <2>2. StringsCompareRight
    BY <1>1 DEF SInv, ScanInv, StringsCompareRight
  <2>3. StringsCopyRight
    <3> SUFFICES ASSUME pc = "done", fn \in {"strcpy", "strcat"}
                 PROVE  mem = [a \in Addr |-> IF a \in Dest..(Dest + SrcLen)
                                              THEN old[a - Dest + q] ELSE old[a]]
      BY DEF StringsCopyRight, Dest, SrcLen
    <3>1. mem = Copied(SrcLen + 1)
      BY <1>1 DEF SInv, StrCopyInv
    <3>2. Dest + (SrcLen + 1) - 1 = Dest + SrcLen
      BY <1>1, CopyOperands DEF Addr
    <3>3. QED
      BY <3>1, <3>2, Zenon DEF Copied
  <2>4. StaysInString
    <3>1. ASSUME pc = "loop", fn \in Scanners
          PROVE  p + i <= StrEnd(old, p) /\ (fn \in Comparers => q + i <= StrEnd(old, q))
      BY <1>1, <3>1, IndexBound
    <3>2. ASSUME pc # "done", fn = "strcpy" PROVE q + i <= StrEnd(old, q)
      <4>1. i \in 0..SrcLen /\ SrcLen \in Nat /\ q \in Addr
        BY <1>1, <3>2, CopyOperands, Zenon DEF SInv, StrCopyInv
      <4>2. q + SrcLen = StrEnd(old, q)
        BY <1>1, <3>2, EndOfString DEF IInv, Operands, SInv, StringOperands, SrcLen
      <4>3. QED
        BY <4>1, <4>2 DEF Addr
    <3>3. fn = "strlen" /\ pc = "done" => result = StrLen(old, p)
      BY <1>1 DEF SInv, ScanInv
    <3>4. fn \in Comparers => pc # "copy"
      BY <1>1 DEF SInv, ScanInv, Comparers
    <3>5. pc \in {"loop", "copy", "done"}
      BY <1>1 DEF IInv, Operands
    <3>6. QED
      BY <3>1, <3>2, <3>3, <3>4, <3>5 DEF StaysInString, Scanners, Comparers
  <2>5. QED
    BY <2>1, <2>2, <2>3, <2>4, Zenon DEF CallsRight
<1>2. QED
  BY InitInv, NextInv, InitString, NextString, <1>1, PTL DEF Spec
-----------------------------------------------------------------------------
(***************************************************************************)
(* The terminal's cursor stays on the grid and never returns to a cell that*)
(* shows a character.                                                      *)
(***************************************************************************)
\* The grid has cells, and they are numbered by naturals.
LEMMA Grid == Columns \in Nat \ {0} /\ Rows \in Nat \ {0}
BY TerminalAssumption DEF TerminalAssumption, Columns, Rows

\* The part of the state the cursor depends on.
CInv ==
  /\ state \in {"boot", "up", "halted"}
  /\ terminal_row \in 0..(Rows - 1) /\ terminal_column \in 0..(Columns - 1)
  /\ screen.drawn \subseteq (0..(Rows - 1)) \X (0..(Columns - 1)) \X Chars
  /\ CursorAhead

\* The cursor starts in the first cell of a screen without text.
LEMMA CursorInit == TtyInit => CInv
<1> SUFFICES ASSUME TtyInit PROVE CInv
  OBVIOUS
<1>1. screen.drawn = {}
  BY DEF TtyInit
<1>2. QED
  BY <1>1, Grid DEF TtyInit, CInv, CursorAhead

\* Going to the next row keeps the invariant if all that was drawn is before the
\* end of the current one.
LEMMA NextRowInv ==
  ASSUME CInv, NEW s, NextRow(s), UNCHANGED state,
         s.drawn \subseteq (0..(Rows - 1)) \X (0..(Columns - 1)) \X Chars,
         \A cell \in s.drawn : cell[1] <= terminal_row,
         \A a, b \in s.drawn : a[1] = b[1] /\ a[2] = b[2] => a = b
  PROVE  CInv'
<1>1. CASE AtBottom(terminal_row + 1)
  <2>1. terminal_row' = 0 /\ terminal_column' = 0 /\ screen'.drawn = {}
    BY <1>1, Zenon DEF NextRow, clear_screen
  <2>2. QED
    BY <2>1, Grid DEF CInv, CursorAhead
<1>2. CASE ~AtBottom(terminal_row + 1)
  <2>1. terminal_row' = terminal_row + 1 /\ terminal_column' = 0 /\ screen' = s
    BY <1>2, Zenon DEF NextRow
  <2>2. terminal_row' \in 0..(Rows - 1)
    BY <1>2, <2>1, Grid DEF CInv, AtBottom
  <2>3. \A cell \in s.drawn : cell[1] \in Int
    BY SMTT(30)
  <2>4. CursorAhead'
    BY <2>1, <2>3 DEF CursorAhead, Before, CInv
  <2>5. QED
    BY <2>1, <2>2, <2>4, Grid DEF CInv
<1>3. QED
  BY <1>1, <1>2, Zenon

\* Every character keeps the cursor behind all that is drawn.
LEMMA CursorNext == CInv /\ [TtyNext]_tty_vars => CInv'
<1> SUFFICES ASSUME CInv, [TtyNext]_tty_vars PROVE CInv'
  OBVIOUS
<1>0. \A cell \in screen.drawn : cell[1] \in Int /\ cell[2] \in Int
  BY DEF CInv
<1>a. \A cell \in screen.drawn : cell[1] <= terminal_row
  <2>1. \A cell \in screen.drawn : Before(cell)
    BY Zenon DEF CInv, CursorAhead
  <2>2. terminal_row \in Int
    BY DEF CInv
  <2> QED
    BY <1>0, <2>1, <2>2 DEF Before
<1>1. ASSUME NEW m \in 0..1, terminal_initialize(m) PROVE CInv'
  <2>1. state' \in {"up", "halted"} /\ UNCHANGED <<terminal_row, terminal_column>>
    BY <1>1 DEF terminal_initialize
  <2>2. screen'.drawn = {} \/ screen' = screen
    BY <1>1 DEF terminal_initialize, clear_screen
  <2>3. QED
    BY <2>1, <2>2 DEF CInv, CursorAhead, Before
<1>2. ASSUME NEW c \in Chars, terminal_putchar(c) PROVE CInv'
  <2>1. CASE c = NewLine
    <3>1. NextRow(screen) /\ UNCHANGED state
      BY <1>2, <2>1 DEF terminal_putchar
    <3> QED
      BY <3>1, <1>a, NextRowInv, Zenon DEF CInv, CursorAhead
  <2>2. CASE c # NewLine
    <3> DEFINE new == <<terminal_row, terminal_column, c>>
               s == [lit |-> screen.lit \cup draw_char(c, terminal_column * fwidth * font_size,
                                                          terminal_row * fheight * font_size),
                     drawn |-> screen.drawn \cup {new}]
    <3>1. s.drawn = screen.drawn \cup {new}
      OBVIOUS
    <3>2. new \in (0..(Rows - 1)) \X (0..(Columns - 1)) \X Chars
      BY DEF CInv
    <3>3. \A cell \in s.drawn : cell[1] <= terminal_row
      <4>1. new[1] <= terminal_row
        BY DEF CInv
      <4> QED
        BY <3>1, <1>a, <4>1, Zenon
    <3>4. \A cell \in screen.drawn : ~(cell[1] = new[1] /\ cell[2] = new[2])
      BY <1>0, SMTT(30) DEF CInv, CursorAhead, Before
    <3>5. \A a, b \in s.drawn : a[1] = b[1] /\ a[2] = b[2] => a = b
      <4>1. \A a, b \in screen.drawn : a[1] = b[1] /\ a[2] = b[2] => a = b
        BY Zenon DEF CInv, CursorAhead
      <4> QED
        BY <3>1, <3>4, <4>1, ZenonT(30)
    <3>6. CASE AtMargin(terminal_column + 1)
      <4>1. NextRow(s) /\ UNCHANGED state
        BY <1>2, <2>2, <3>6, ZenonT(30) DEF terminal_putchar, PutGlyph
      <4>2. s.drawn \subseteq (0..(Rows - 1)) \X (0..(Columns - 1)) \X Chars
        BY <3>1, <3>2, SMTT(30) DEF CInv
      <4> HIDE DEF s
      <4>3. QED
        BY <3>3, <3>5, <4>1, <4>2, NextRowInv
    <3>7. CASE ~AtMargin(terminal_column + 1)
      <4>1. /\ terminal_column' = terminal_column + 1 /\ terminal_row' = terminal_row
            /\ screen' = s /\ state' = state
        BY <1>2, <2>2, <3>7, ZenonT(30) DEF terminal_putchar, PutGlyph
      <4> HIDE DEF s
      <4>2. terminal_column' \in 0..(Columns - 1)
        BY <3>7, <4>1, Grid DEF CInv, AtMargin
      <4>3. \A cell \in s.drawn : Before(cell)'
        <5>1. \A cell \in screen.drawn : Before(cell)'
          <6>1. \A cell \in screen.drawn : Before(cell)
            BY Zenon DEF CInv, CursorAhead
          <6>2. terminal_column \in Int
            BY DEF CInv
          <6> QED
            BY <6>1, <6>2, <1>0, <4>1 DEF Before
        <5>2. \A cell \in {new} : Before(cell)'
          BY <4>1, SMTT(30) DEF CInv, Before
        <5> QED
          BY <3>1, <5>1, <5>2, Zenon
      <4>4. QED
        <5>1. CursorAhead'
          BY <3>5, <4>1, <4>3, Zenon DEF CursorAhead
        <5>2. s.drawn \subseteq (0..(Rows - 1)) \X (0..(Columns - 1)) \X Chars
          BY <3>1, <3>2, Zenon DEF CInv
        <5> QED
          BY <4>1, <4>2, <5>1, <5>2, Zenon DEF CInv, Rows, Columns
    <3>8. QED
      BY <3>6, <3>7, Zenon
  <2>3. QED
    BY <2>1, <2>2, SMTT(30)
<1>3. CASE UNCHANGED tty_vars
  BY <1>3 DEF tty_vars, CInv, CursorAhead, Before
<1>4. QED
  BY <1>1, <1>2, <1>3 DEF TtyNext, Halted

\* No character is drawn over another, for every framebuffer, font and text.
THEOREM NoOverdraw == TtySpec => []CursorAhead
<1>1. CInv => CursorAhead
  BY DEF CInv
<1>2. QED
  BY CursorInit, CursorNext, <1>1, PTL DEF TtySpec
-----------------------------------------------------------------------------
(***************************************************************************)
(* What the screen shows.  A point of it has one place in the framebuffer, *)
(* and its cell and bit are found by division.                             *)
(***************************************************************************)
\* A number is made up of its quotient and its remainder,
LEMMA Parts ==
  ASSUME NEW a \in Nat, NEW d \in Nat \ {0}
  PROVE  a \div d \in Nat /\ a % d \in 0..(d - 1) /\ a = (a \div d) * d + (a % d)
OBVIOUS

\* which are determined by it.
LEMMA Digits ==
  ASSUME NEW d \in Nat \ {0}, NEW q1 \in Nat, NEW q2 \in Nat, NEW r1 \in 0..(d - 1),
         NEW r2 \in 0..(d - 1), q1 * d + r1 = q2 * d + r2
  PROVE  q1 = q2 /\ r1 = r2
<1>1. ASSUME NEW u \in Nat, NEW v \in Nat, u < v PROVE u * d + d <= v * d
  <2>1. (u + 1) * d <= v * d
    BY <1>1
  <2>2. (u + 1) * d = u * d + d
    OBVIOUS
  <2>3. QED
    BY <2>1, <2>2
<1>2. q1 * d \in Nat /\ q2 * d \in Nat
  OBVIOUS
<1>3. ~(q1 < q2)
  BY <1>1, <1>2
<1>4. ~(q2 < q1)
  BY <1>1, <1>2
<1>5. QED
  BY <1>2, <1>3, <1>4

\* Along a line: a point is in the b-th font pixel of the cell col exactly if its
\* quotients and remainders say so.
Located(x, f, s, col, b) ==
  /\ \A px \in 0..(s - 1) : x = col * f * s + b * s + px
                              => x \div (f * s) = col /\ (x \div s) % f = b
  /\ x \div (f * s) = col /\ (x \div s) % f = b
       => \E px \in 0..(s - 1) : x = col * f * s + b * s + px

\* Every point of a line is found where it lies.
LEMMA Scaled ==
  ASSUME NEW f \in Nat \ {0}, NEW s \in Nat \ {0}, NEW x \in Nat, NEW col \in Nat,
         NEW b \in 0..(f - 1)
  PROVE  Located(x, f, s, col, b)
<1> DEFINE u == x \div s
           r == x % s
           Q == u \div f
           R == u % f
<1>1. u \in Nat /\ r \in 0..(s - 1) /\ x = u * s + r
  BY Parts, Zenon
<1> HIDE DEF u, r
<1>2. Q \in Nat /\ R \in 0..(f - 1) /\ u = Q * f + R
  BY <1>1, Parts, Zenon
<1> HIDE DEF Q, R
<1>3. f * s \in Nat \ {0}
  OBVIOUS
<1>4. R * s + r \in 0..(f * s - 1)
  <2>1. R * s \in Nat /\ (R + 1) * s <= f * s /\ (R + 1) * s = R * s + s
    BY <1>2
  <2>2. QED
    BY <1>1, <1>3, <2>1
<1>5. x = Q * (f * s) + (R * s + r)
  <2>1. (Q * f + R) * s = Q * (f * s) + R * s
    BY <1>2
  <2>2. Q * (f * s) \in Nat /\ R * s \in Nat
    BY <1>2
  <2>3. QED
    BY <1>1, <1>2, <2>1, <2>2
<1>6. x \div (f * s) = Q
  <2> DEFINE d == f * s
             z == x \div d
             m == x % d
             k == R * s + r
  <2>1. d \in Nat \ {0} /\ k \in 0..(d - 1) /\ x = Q * d + k
    BY <1>3, <1>4, <1>5
  <2> HIDE DEF d, k
  <2>2. z \in Nat /\ m \in 0..(d - 1) /\ x = z * d + m
    BY <2>1, Parts, Zenon
  <2> HIDE DEF z, m
  <2>3. z = Q
    BY <1>2, <2>1, <2>2, Digits
  <2>4. QED
    BY <2>3 DEF z, d
<1>7. ASSUME NEW px \in 0..(s - 1), x = col * f * s + b * s + px PROVE Q = col /\ R = b
  <2>1. col * f + b \in Nat /\ x = (col * f + b) * s + px
    <3>1. (col * f + b) * s = col * f * s + b * s
      OBVIOUS
    <3>2. QED
      BY <1>7, <3>1
  <2>2. u = col * f + b
    BY <1>1, <2>1, Digits
  <2>3. QED
    BY <1>2, <2>2, Digits
<1>8. ASSUME Q = col, R = b PROVE x = col * f * s + b * s + r
  <2>1. (Q * f + R) * s = Q * f * s + R * s
    BY <1>2
  <2>2. QED
    BY <1>1, <1>2, <1>8, <2>1
<1>9. QED
  BY <1>1, <1>6, <1>7, <1>8, Zenon DEF Located, Q, R, u

\* A cell ends on the screen: its last point is before the end of the line.
LEMMA CellFits ==
  ASSUME NEW w \in Nat, NEW f \in Nat \ {0}, NEW s \in Nat \ {0}, w \div (f * s) \in Nat \ {0},
         NEW col \in 0..(w \div (f * s) - 1), NEW b \in 0..(f - 1), NEW px \in 0..(s - 1)
  PROVE  col * f * s + b * s + px \in 0..(w - 1)
<1> DEFINE d == f * s
           N == w \div d
<1>1. d \in Nat \ {0} /\ N \in Nat /\ N * d <= w /\ col \in 0..(N - 1)
  <2>1. d \in Nat \ {0}
    OBVIOUS
  <2>2. N \in Nat /\ w % d \in 0..(d - 1) /\ w = N * d + (w % d)
    BY <2>1, Parts, Zenon
  <2> HIDE DEF d, N
  <2>3. N * d \in Nat
    BY <2>1, <2>2
  <2>4. N * d <= w
    BY <2>1, <2>2, <2>3
  <2>5. QED
    BY <2>1, <2>2, <2>4 DEF N, d
<1>2. b * s + px \in 0..(d - 1)
  <2>1. b * s \in Nat /\ (b + 1) * s <= f * s /\ (b + 1) * s = b * s + s
    OBVIOUS
  <2>2. QED
    BY <1>1, <2>1
<1>3. col * f * s = col * d
  OBVIOUS
<1> HIDE DEF d, N
<1>4. col * d \in Nat /\ (col + 1) * d <= N * d /\ (col + 1) * d = col * d + d
  BY <1>1
<1>5. b * s \in Nat
  OBVIOUS
<1>6. QED
  BY <1>1, <1>2, <1>3, <1>4, <1>5

\* Two points of the screen have two places in the framebuffer.
LEMMA PixelIs ==
  ASSUME NEW x1 \in 0..(width - 1), NEW x2 \in 0..(width - 1),
         NEW y1 \in 0..(height - 1), NEW y2 \in 0..(height - 1), putpixel(x1, y1) = putpixel(x2, y2)
  PROVE  x1 = x2 /\ y1 = y2
<1>1. /\ pitch \in Nat \ {0} /\ x1 \in 0..(pitch - 1) /\ x2 \in 0..(pitch - 1)
      /\ y1 \in Nat /\ y2 \in Nat
  BY TerminalAssumption DEF TerminalAssumption
<1>2. y1 * pitch + x1 = y2 * pitch + x2
  BY DEF putpixel
<1>3. QED
  BY <1>1, <1>2, Digits

\* The glyphs lie in their cells.
LEMMA GlyphIs == ASSUME NEW c \in Chars PROVE Glyph(c) \subseteq (0..(fheight - 1)) \X (0..(fwidth - 1))
<1>1. (IF c > 0 /\ c < numglyph THEN c ELSE 0) \in 0..(numglyph - 1)
  BY TerminalAssumption DEF TerminalAssumption
<1>2. QED
  BY <1>1, TerminalAssumption, ZenonT(30) DEF TerminalAssumption, Glyph

Bit(x, y) == <<(y \div font_size) % fheight, (x \div font_size) % fwidth>>
InCell(x, y, row, col) ==
  y \div (fheight * font_size) = row /\ x \div (fwidth * font_size) = col

\* draw_char lights those points of its cell whose bit of the glyph is set, and none of
\* another cell.
LEMMA DrawnIs ==
  ASSUME NEW c \in Chars, NEW x \in 0..(width - 1), NEW y \in 0..(height - 1),
         NEW row \in 0..(Rows - 1), NEW col \in 0..(Columns - 1)
  PROVE  putpixel(x, y) \in draw_char(c, col * fwidth * font_size, row * fheight * font_size)
           <=> InCell(x, y, row, col) /\ Bit(x, y) \in Glyph(c)
<1> DEFINE X(b, px) == col * fwidth * font_size + b * font_size + px
           Y(b, py) == row * fheight * font_size + b * font_size + py
<1>1. /\ width \in Nat /\ height \in Nat /\ fwidth \in Nat \ {0} /\ fheight \in Nat \ {0}
      /\ font_size \in Nat \ {0} /\ x \in Nat /\ y \in Nat /\ row \in Nat /\ col \in Nat
  BY TerminalAssumption, Grid DEF TerminalAssumption
<1>2. ASSUME NEW b \in Glyph(c) PROVE b[1] \in 0..(fheight - 1) /\ b[2] \in 0..(fwidth - 1) /\ b = <<b[1], b[2]>>
  BY <1>2, GlyphIs
<1>3. ASSUME NEW b \in 0..(fwidth - 1), NEW px \in 0..(font_size - 1) PROVE X(b, px) \in 0..(width - 1)
  BY <1>1, Grid, CellFits, Zenon DEF Columns
<1>4. ASSUME NEW b \in 0..(fheight - 1), NEW py \in 0..(font_size - 1) PROVE Y(b, py) \in 0..(height - 1)
  BY <1>1, Grid, CellFits, Zenon DEF Rows
<1>5. ASSUME NEW b \in 0..(fwidth - 1)
      PROVE  /\ \A px \in 0..(font_size - 1) : x = X(b, px) =>
                   x \div (fwidth * font_size) = col /\ (x \div font_size) % fwidth = b
             /\ x \div (fwidth * font_size) = col /\ (x \div font_size) % fwidth = b =>
                   \E px \in 0..(font_size - 1) : x = X(b, px)
  <2>1. Located(x, fwidth, font_size, col, b)
    BY <1>1, Scaled, Zenon
  <2>2. QED
    BY <2>1, Zenon DEF Located
<1>6. ASSUME NEW b \in 0..(fheight - 1)
      PROVE  /\ \A py \in 0..(font_size - 1) : y = Y(b, py) =>
                   y \div (fheight * font_size) = row /\ (y \div font_size) % fheight = b
             /\ y \div (fheight * font_size) = row /\ (y \div font_size) % fheight = b =>
                   \E py \in 0..(font_size - 1) : y = Y(b, py)
  <2>1. Located(y, fheight, font_size, row, b)
    BY <1>1, Scaled, ZenonT(30)
  <2>2. QED
    BY <2>1, Zenon DEF Located
<1>7. putpixel(x, y) \in draw_char(c, col * fwidth * font_size, row * fheight * font_size)
        <=> \E b \in Glyph(c), px \in 0..(font_size - 1), py \in 0..(font_size - 1) :
              putpixel(x, y) = putpixel(X(b[2], px), Y(b[1], py))
  BY DEF draw_char
<1> HIDE DEF X, Y
<1>8. ASSUME NEW b \in Glyph(c), NEW px \in 0..(font_size - 1), NEW py \in 0..(font_size - 1),
             putpixel(x, y) = putpixel(X(b[2], px), Y(b[1], py))
      PROVE  InCell(x, y, row, col) /\ Bit(x, y) = b
  <2>1. X(b[2], px) \in 0..(width - 1) /\ Y(b[1], py) \in 0..(height - 1)
    BY <1>2, <1>3, <1>4, ZenonT(30)
  <2>2. x = X(b[2], px) /\ y = Y(b[1], py)
    BY <1>8, <2>1, PixelIs
  <2>3. InCell(x, y, row, col) /\ (y \div font_size) % fheight = b[1] /\ (x \div font_size) % fwidth = b[2]
    BY <1>2, <1>5, <1>6, <2>2, Zenon DEF InCell
  <2>4. QED
    BY <1>2, <2>3, Zenon DEF Bit
<1>9. ASSUME InCell(x, y, row, col), Bit(x, y) \in Glyph(c)
      PROVE  \E b \in Glyph(c), px \in 0..(font_size - 1), py \in 0..(font_size - 1) :
               putpixel(x, y) = putpixel(X(b[2], px), Y(b[1], py))
  <2> DEFINE b == Bit(x, y)
  <2>1. b[1] = (y \div font_size) % fheight /\ b[2] = (x \div font_size) % fwidth
    BY DEF Bit
  <2>2. b \in Glyph(c) /\ b[1] \in 0..(fheight - 1) /\ b[2] \in 0..(fwidth - 1)
    BY <1>2, <1>9, Zenon
  <2> HIDE DEF b
  <2>3. PICK px \in 0..(font_size - 1) : x = X(b[2], px)
    BY <1>5, <1>9, <2>1, <2>2, Zenon DEF InCell
  <2>4. PICK py \in 0..(font_size - 1) : y = Y(b[1], py)
    BY <1>6, <1>9, <2>1, <2>2, Zenon DEF InCell
  <2>5. QED
    BY <2>2, <2>3, <2>4, Zenon
<1>10. QED
  BY <1>7, <1>8, <1>9, ZenonT(30)

\* What ScreenShowsText says of a screen.
Shown(s) ==
  \A x \in 0..(width - 1), y \in 0..(height - 1) :
    putpixel(x, y) \in s.lit <=> \E cell \in s.drawn : InCell(x, y, cell[1], cell[2]) /\ Bit(x, y) \in Glyph(cell[3])

LEMMA ShownIs == ScreenShowsText <=> (state = "up" => Shown(screen))
BY Zenon DEF ScreenShowsText, Shown, ShowsBit, InCell, Bit

\* The same of the next screen.
LEMMA ShownWillBe == ScreenShowsText' <=> (state' = "up" => Shown(screen'))
BY ZenonT(30) DEF ScreenShowsText, Shown, ShowsBit, InCell, Bit

\* A cleared screen shows no text.
LEMMA ClearShown == ASSUME NEW s PROVE Shown(clear_screen(s))
BY DEF Shown, clear_screen, Screen

\* A character more is drawn and shown.
LEMMA GlyphShown ==
  ASSUME NEW c \in Chars, NEW row \in 0..(Rows - 1), NEW col \in 0..(Columns - 1), Shown(screen)
  PROVE  Shown([lit |-> screen.lit \cup draw_char(c, col * fwidth * font_size, row * fheight * font_size),
                drawn |-> screen.drawn \cup {<<row, col, c>>}])
<1> DEFINE D == draw_char(c, col * fwidth * font_size, row * fheight * font_size)
           s == [lit |-> screen.lit \cup D, drawn |-> screen.drawn \cup {<<row, col, c>>}]
<1>1. SUFFICES ASSUME NEW x \in 0..(width - 1), NEW y \in 0..(height - 1)
               PROVE  putpixel(x, y) \in s.lit <=>
                        \E cell \in s.drawn : InCell(x, y, cell[1], cell[2]) /\ Bit(x, y) \in Glyph(cell[3])
  BY Zenon DEF Shown
<1>2. putpixel(x, y) \in D <=> InCell(x, y, row, col) /\ Bit(x, y) \in Glyph(c)
  BY DrawnIs, ZenonT(30)
<1> HIDE DEF D
<1>3. s.lit = screen.lit \cup D /\ s.drawn = screen.drawn \cup {<<row, col, c>>}
  BY Zenon
<1> HIDE DEF s
<1>4. (<<row, col, c>>)[1] = row /\ (<<row, col, c>>)[2] = col /\ (<<row, col, c>>)[3] = c
  OBVIOUS
<1>5. putpixel(x, y) \in screen.lit <=>
        \E cell \in screen.drawn : InCell(x, y, cell[1], cell[2]) /\ Bit(x, y) \in Glyph(cell[3])
  BY Zenon DEF Shown
<1>6. QED
  BY <1>2, <1>3, <1>4, <1>5, Zenon

\* Every step leaves the text on the screen.
LEMMA ShownNext == CInv /\ ScreenShowsText /\ [TtyNext]_tty_vars => ScreenShowsText'
<1> SUFFICES ASSUME CInv, state = "up" => Shown(screen), [TtyNext]_tty_vars, state' = "up"
             PROVE  Shown(screen')
  BY ShownIs, ShownWillBe, Zenon
<1>1. ASSUME NEW m \in 0..1, terminal_initialize(m) PROVE Shown(screen')
  BY <1>1, ClearShown DEF terminal_initialize
<1>2. ASSUME NEW c \in Chars, terminal_putchar(c) PROVE Shown(screen')
  <2>1. state = "up" /\ terminal_row \in 0..(Rows - 1) /\ terminal_column \in 0..(Columns - 1)
    BY <1>2, Zenon DEF terminal_putchar, CInv
  <2>2. ASSUME NEW s, NextRow(s), Shown(s) PROVE Shown(screen')
    BY <2>2, ClearShown, Zenon DEF NextRow
  <2>3. CASE c = NewLine
    BY <1>2, <2>1, <2>2, <2>3, Zenon DEF terminal_putchar
  <2>4. CASE c # NewLine
    <3> DEFINE s == [lit |-> screen.lit \cup draw_char(c, terminal_column * fwidth * font_size,
                                                          terminal_row * fheight * font_size),
                     drawn |-> screen.drawn \cup {<<terminal_row, terminal_column, c>>}]
    <3>1. Shown(s)
      BY <2>1, GlyphShown, Zenon
    <3>2. NextRow(s) \/ screen' = s
      BY <1>2, <2>4, Zenon DEF terminal_putchar, PutGlyph
    <3> HIDE DEF s
    <3>3. QED
      BY <2>2, <3>1, <3>2, Zenon
  <2>5. QED
    BY <2>3, <2>4
<1>3. CASE UNCHANGED tty_vars
  BY <1>3 DEF tty_vars
<1>4. QED
  BY <1>1, <1>2, <1>3 DEF TtyNext, Halted

\* What the screen shows is the text written since it was last cleared, pixel by pixel,
\* for every framebuffer, pitch, font and scale.
THEOREM TextIsShown == TtySpec => []ScreenShowsText
<1>1. TtyInit => ScreenShowsText
  BY DEF TtyInit, ScreenShowsText
<1>2. QED
  BY CursorInit, CursorNext, ShownNext, <1>1, PTL DEF TtySpec
-----------------------------------------------------------------------------
(***************************************************************************)
(* Blocks of the heap never overlap, not even once the size of the free node*)
(* has wrapped around.  The invariant behind it orders the blocks: each ends*)
(* at or before the free node (Behind).                                    *)
(***************************************************************************)
Behind ==
  /\ head.at \in Nat
  /\ \A b \in blocks : b.at \in Nat /\ b.size \in Nat /\ b.at + b.size <= head.at

InOrder == \A a, b \in blocks : a.at # b.at =>
           a.at + a.size <= b.at - used_block \/ b.at + b.size <= a.at - used_block

HInv == Behind /\ InOrder

USE HeapAssumption DEF HeapAssumption, used_block, heap_node

\* heap_init has handed out nothing.
LEMMA HeapStart == heap_init => HInv
BY DEF heap_init, HInv, Behind, InOrder

\* malloc places the new block where the node was, and the node behind the block.
LEMMA SplitInv ==
  ASSUME HInv, NEW size \in Sizes, Split(size)
  PROVE  HInv'
<1> USE DEF HInv
<1>1. size \in Nat /\ head.at \in Nat /\ head'.at = head.at + 12 + size
  BY Zenon DEF Split, SplitAt, Behind
<1>2. ASSUME NEW b \in blocks'
      PROVE  b \in blocks \/ (b.at = head.at + 8 /\ b.size = size)
  BY DEF Split
<1>3. Behind'
  BY <1>1, <1>2 DEF Behind
<1>4. InOrder'
  <2> SUFFICES ASSUME NEW a \in blocks', NEW b \in blocks', a.at # b.at
               PROVE  a.at + a.size <= b.at - 8 \/ b.at + b.size <= a.at - 8
    BY DEF InOrder
  <2>1. CASE a \in blocks /\ b \in blocks
    BY <2>1, Zenon DEF InOrder
  <2>2. CASE a \notin blocks \/ b \notin blocks
    BY <2>2, <1>1, <1>2 DEF Behind
  <2> QED
    BY <2>1, <2>2, Zenon
<1> QED
  BY <1>3, <1>4, Zenon

\* free marks a block, and moves none.
LEMMA FreeInv ==
  ASSUME HInv, NEW b \in blocks, free(b)
  PROVE  HInv'
<1>1. ASSUME NEW c \in blocks'
      PROVE  \E d \in blocks : c.at = d.at /\ c.size = d.size
  <2>1. CASE c \in blocks
    BY <2>1
  <2>2. CASE c \notin blocks
    <3>1. c = [b EXCEPT !.freed = TRUE]
      BY <2>2, <1>1 DEF free
    <3> QED
      BY <3>1
  <2> QED
    BY <2>1, <2>2
<1>2. head' = head
  BY DEF free
<1>3. Behind'
  BY <1>1, <1>2, Zenon DEF HInv, Behind
<1>4. InOrder'
  <2> SUFFICES ASSUME NEW a \in blocks', NEW c \in blocks', a.at # c.at
               PROVE  a.at + a.size <= c.at - 8 \/ c.at + c.size <= a.at - 8
    BY Zenon DEF InOrder
  <2>1. PICK d \in blocks : a.at = d.at /\ a.size = d.size
    BY <1>1, Zenon
  <2>2. PICK e \in blocks : c.at = e.at /\ c.size = e.size
    BY <1>1
  <2> QED
    BY <2>1, <2>2 DEF HInv, InOrder
<1> QED
  BY <1>3, <1>4 DEF HInv

\* malloc and free keep the invariant, whatever they are called with.
LEMMA HeapStep == ASSUME HInv, [HeapNext]_heap_vars PROVE HInv'
<1>1. ASSUME NEW size \in Sizes, malloc(size) PROVE HInv'
  <2>1. CASE Split(size)
    BY <2>1, SplitInv, Zenon
  <2>2. CASE OutOfMemory(size)
    BY <2>2 DEF OutOfMemory, HInv, Behind, InOrder
  <2> QED
    BY <1>1, <2>1, <2>2 DEF malloc
<1>2. ASSUME NEW b \in blocks, free(b) PROVE HInv'
  BY <1>2, FreeInv, Zenon
<1>3. CASE UNCHANGED heap_vars
  BY <1>3 DEF heap_vars, HInv, Behind, InOrder
<1> QED
  BY <1>1, <1>2, <1>3 DEF HeapNext

\* No two blocks malloc hands out share a byte, headers included, nor does one with the
\* free node, also when the unsigned subtraction of malloc has wrapped around.
THEOREM NeverOverlap == HeapSpec => []BlocksApart
<1>1. HInv => BlocksApart
  <2> SUFFICES ASSUME HInv PROVE BlocksApart
    OBVIOUS
  <2>1. ASSUME NEW a \in blocks, NEW b \in blocks, a.at # b.at
        PROVE  BlockBytes(a) \cap BlockBytes(b) = {}
    BY <2>1 DEF HInv, Behind, InOrder, BlockBytes
  <2>2. ASSUME NEW b \in blocks
        PROVE  BlockBytes(b) \cap NodeBytes = {}
    BY <2>2 DEF HInv, Behind, BlockBytes, NodeBytes
  <2> QED
    BY <2>1, <2>2 DEF BlocksApart
<1> QED
  BY <1>1, HeapStart, HeapStep, PTL DEF HeapSpec
=============================================================================
