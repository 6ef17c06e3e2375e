----------------------------- MODULE MCHardware -----------------------------
(***************************************************************************)
(* Interrupts and the devices behind them: the way of an interrupt through *)
(* boot, the registers of an interrupted program, the descriptor tables,   *)
(* the I/O APIC and the PS/2 controller.  They are modelled apart from     *)
(* each other: a behaviour of this run is a behaviour of one of them,      *)
(* part, and the variables of the others keep their first values.          *)
(***************************************************************************)
EXTENDS Interrupts, Ioapic, TLC

\* Vectors 21 and 29 are raised only with features the kernel does not enable.
MCVectors == 0..255 \ {21, 29}

\* Addresses of the kernel image, 0xffffffff80000000 and up.
MCTss == {<<a, b, c, 128, 255, 255, 255, 255>> : a \in {0, 64}, b \in {0, 255}, c \in {1, 7}}
MCStub(v) == <<(v * 9) % 256, (v * 9) \div 256, 3, 128, 255, 255, 255, 255>>

Apic(a, base) == [type |-> 1, length |-> 12, ioapic_addr |-> a, gsi_base |-> base,
                  irq_src |-> 0, gsi |-> 0, flags |-> {}]
Override(i, gsi, flags) == [type |-> 2, length |-> 10, ioapic_addr |-> 0, gsi_base |-> 0,
                            irq_src |-> i, gsi |-> gsi, flags |-> flags]
Other == [type |-> 0, length |-> 8, ioapic_addr |-> 0, gsi_base |-> 0,
          irq_src |-> 0, gsi |-> 0, flags |-> {}]
Broken == [Other EXCEPT !.length = 0]

\* The wiring a list of overrides describes.
Wire(overrides) ==
  [i \in 0..15 |->
     IF \E n \in 1..Len(overrides) : overrides[n].irq_src = i
     THEN LET o == overrides[CHOOSE n \in 1..Len(overrides) : overrides[n].irq_src = i]
          IN  [gsi |-> o.gsi, low |-> "low" \in o.flags, level |-> "level" \in o.flags]
     ELSE [gsi |-> i, low |-> FALSE, level |-> FALSE]]

\* Overrides of IRQ 0 (always there on PCs), of the keyboard and of a serial port.
OverrideLists ==
  {<<Override(0, 2, {})>>, <<>>}
  \cup {<<Override(0, 2, {}), Override(1, g, fl)>> : g \in {1, 9}, fl \in SUBSET {"low", "level"}}
  \cup {<<Override(3, g, {"low"}), Override(200, 5, {})>> : g \in {3, 12}}

\* Where the tables are: an RSDT, an XSDT, or both.
Pointers == {[revision |-> 0, rsdt |-> <<"FACP", "APIC">>, xsdt |-> <<>>],
             [revision |-> 2, rsdt |-> <<"APIC">>, xsdt |-> <<>>],
             [revision |-> 2, rsdt |-> <<>>, xsdt |-> <<"HPET", "FACP", "APIC">>],
             [revision |-> 2, rsdt |-> <<"FACP">>, xsdt |-> <<"FACP">>]}

Machine(p, entries, o, serves) ==
  [revision |-> p.revision, rsdt |-> p.rsdt, xsdt |-> p.xsdt, madt |-> entries,
   wire |-> Wire(o), serves |-> serves]

One == [a \in {1, 2} |-> IF a = 1 THEN 0 ELSE -1]
Two == [a \in {1, 2} |-> IF a = 1 THEN 0 ELSE 16]

\* One I/O APIC, before or behind the overrides; none; and tables cut short.
OneApic ==
  {Machine(p, <<Other, Apic(1, 0)>> \o o, o, One) : p \in Pointers, o \in OverrideLists}
  \cup {Machine(p, o \o <<Other, Apic(1, 0)>>, o, One) : p \in Pointers, o \in OverrideLists}
  \cup {Machine(p, o \o <<Other>>, o, One) : p \in Pointers, o \in OverrideLists}
  \cup {Machine(p, <<Other, Broken, Apic(1, 0)>>, <<>>, One) : p \in Pointers}

\* Two of them, the one of the ISA lines last or first.
LowLast == {Machine(p, <<Apic(2, 16), Apic(1, 0)>> \o o, o, Two) : p \in Pointers, o \in OverrideLists}
LowFirst == {Machine(p, <<Apic(1, 0), Apic(2, 16)>> \o o, o, Two) : p \in Pointers, o \in OverrideLists}
MCFirmwares == OneApic \cup LowLast \cup LowFirst
-----------------------------------------------------------------------------
VARIABLES part,
          vector, frame_pc, frame_k, regs, stack,                         \* interrupt frame
          table_pc, table_k, tss, gdt, idt, seg,                          \* descriptors
          ps2_pc, cfg, dual, ibuf, obuf, ctl, ps2_dev, lost               \* PS/2

frame_vars == <<vector, frame_pc, frame_k, regs, stack>>
table_vars == <<table_pc, table_k, tss, gdt, idt, seg>>
ps2_vars == <<ps2_pc, cfg, dual, ibuf, obuf, ctl, ps2_dev, lost>>

F == INSTANCE InterruptFrame WITH Vectors <- MCVectors, pc <- frame_pc, k <- frame_k

T == INSTANCE Descriptors WITH Tss <- MCTss, Stub <- MCStub, pc <- table_pc, k <- table_k

\* Two ports, devices that pass their tests and nobody at the keyboard; and one or two
\* ports, devices that may fail, and bytes that arrive unasked.
Quiescent == INSTANCE Ps2 WITH Dual <- {TRUE}, Healthy <- TRUE, MaxTyped <- 0, MaxResend <- 2,
                               pc <- ps2_pc, dev <- ps2_dev
Typing == INSTANCE Ps2 WITH Dual <- {TRUE, FALSE}, Healthy <- FALSE, MaxTyped <- 1, MaxResend <- 1,
                            pc <- ps2_pc, dev <- ps2_dev

NoFrame == vector = 0 /\ frame_pc = 0 /\ frame_k = 0 /\ regs = 0 /\ stack = 0
NoTables == table_pc = 0 /\ table_k = 0 /\ tss = 0 /\ gdt = 0 /\ idt = 0 /\ seg = 0
NoIoapic == fw = (CHOOSE f \in Firmwares : TRUE) /\ IoapicInit
NoPs2 == /\ ps2_pc = 0 /\ cfg = 0 /\ dual = 0 /\ ibuf = 0 /\ obuf = 0 /\ ctl = 0
         /\ ps2_dev = 0 /\ lost = 0
NoIrqs == IrqInit /\ ~lapic.on /\ ~lapic.extint /\ ~dev.irq

MCInit ==
  \/ part = "irq" /\ IrqInit /\ NoFrame /\ NoTables /\ NoIoapic /\ NoPs2
  \/ part = "frame" /\ NoIrqs /\ F!Init /\ NoTables /\ NoIoapic /\ NoPs2
  \/ part = "tables" /\ NoIrqs /\ NoFrame /\ T!Init /\ NoIoapic /\ NoPs2
  \/ part = "ioapic" /\ NoIrqs /\ NoFrame /\ NoTables /\ IoapicInit /\ NoPs2
  \/ part = "ps2" /\ NoIrqs /\ NoFrame /\ NoTables /\ NoIoapic /\ Quiescent!Init
  \/ part = "typing" /\ NoIrqs /\ NoFrame /\ NoTables /\ NoIoapic /\ Typing!Init

MCNext ==
  /\ \/ part = "irq" /\ IrqNext /\ UNCHANGED <<frame_vars, table_vars, io_vars, ps2_vars>>
     \/ part = "frame" /\ F!Next /\ UNCHANGED <<irq_vars, table_vars, io_vars, ps2_vars>>
     \/ part = "tables" /\ T!Next /\ UNCHANGED <<irq_vars, frame_vars, io_vars, ps2_vars>>
     \/ part = "ioapic" /\ IoapicNext /\ UNCHANGED <<irq_vars, frame_vars, table_vars, ps2_vars>>
     \/ part = "ps2" /\ Quiescent!Next
        /\ UNCHANGED <<irq_vars, frame_vars, table_vars, io_vars>>
     \/ part = "typing" /\ Typing!Next
        /\ UNCHANGED <<irq_vars, frame_vars, table_vars, io_vars>>
  /\ UNCHANGED part

Irq == part = "irq"
Ps2 == part = "ps2"

\* The fairness of the modules, each for its own behaviours.
MCSpec ==
  /\ MCInit /\ [][MCNext]_<<part, irq_vars, frame_vars, table_vars, io_vars, ps2_vars>>
  /\ WF_io_vars(part = "ioapic" /\ IoapicNext)
  /\ SF_irq_vars(Irq /\ BootCode) /\ WF_irq_vars(Irq /\ Dispatch) /\ WF_irq_vars(Irq /\ send_eoi)
  /\ \A v \in Vectors : SF_irq_vars(Irq /\ DeliverLapic(v))
  /\ WF_ps2_vars(Ps2 /\ Quiescent!Next)
-----------------------------------------------------------------------------
\* exception_handler finds in each field of registers_t what its name says, and the
\* interrupted code has its registers back behind iretq (interrupts.S, isr.h).
FrameKept == part = "frame" => F!FrameKept

\* Every selector that is loaded names an entry of the right kind, the task register
\* leads to tss_entry and every gate to the stub of its own vector (gdt.c, idt.c).
TablesLead == part = "tables" => T!TablesLead

\* The walk of ioapic_init over the firmware's tables ends, malformed entries included;
\* and with devices present and answering ps2_init and kb_enable_scanning end, with the
\* interrupt and the clock of the keyboard's port on.
DriversComeUp == <>((part = "ioapic" => io_pc = "done") /\ (Ps2 => Quiescent!KeyboardEnabled))

\* No byte that ps2.c writes meets a full input buffer, whatever devices send meanwhile.
NoWriteLost == (Ps2 => Quiescent!NoWriteLost) /\ (part = "typing" => Typing!NoWriteLost)
=============================================================================
