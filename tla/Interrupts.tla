----------------------------- MODULE Interrupts -----------------------------
(***************************************************************************)
(* Interrupts from kernel_main's idt_init to its hcf: what the boot code   *)
(* does to the 8259 PIC, the local APIC and the I/O APIC, step by step,    *)
(* while devices interrupt it, and exception_handler (isr.c).              *)
(*                                                                         *)
(* The three controllers, the timer and the keyboard's controller are      *)
(* external.  The boot loader hands over with interrupts off and every     *)
(* line masked; the PIC still has the vectors of the firmware.             *)
(***************************************************************************)
EXTENDS Integers, Sequences

CONSTANTS ExtInt,      \* LINT0 passes the PIC's interrupts on: the choices of the firmware
          MaxKeys      \* bound: bytes waiting in the keyboard

ASSUME InterruptsAssumption == ExtInt \subseteq BOOLEAN /\ MaxKeys \in Nat

VARIABLES pc,          \* index of the next step of the boot code
          cpu,         \* iflag, vector being handled (0: none), acked, and stuck in "cli; hlt"
          apic_offset, \* whether it is set
          pic,         \* mask and pending lines, and the vector of line 0
          lapic,       \* on, pending vectors irr, vectors in service isr, timer on
          route,       \* vector of the lines routed in the I/O APIC (0: masked)
          dev          \* keyboard: bytes waiting, output buffer full, interrupt on; serial line up

irq_vars == <<pc, cpu, apic_offset, pic, lapic, route, dev>>

Lines == 0..7                  \* of the primary PIC: 0 its timer, 1 keyboard, 4 serial
FirmwareBase == 8

IrqInit ==
  /\ pc = 1 /\ apic_offset = FALSE
  /\ cpu = [iflag |-> FALSE, vector |-> 0, acked |-> FALSE, stuck |-> FALSE]
  /\ pic = [mask |-> Lines, irr |-> {}, base |-> FirmwareBase]
  /\ lapic \in [on : BOOLEAN, extint : ExtInt, irr : {{}}, isr : {{}}, timer : {FALSE}]
  /\ route = [l \in Lines |-> 0]
  /\ dev \in [waiting : {0}, full : {FALSE}, irq : BOOLEAN, serial : {FALSE}]

-----------------------------------------------------------------------------
\* The boot code
Boot == <<"idt_init", "slab_alloc_init", "remap1", "remap2", "disable1",
          "disable2", "apic_offset", "map", "enable", "sti", "apic_start_timer",
          "route1", "route3", "route4", "ps2_init", "hcf">>

Running == cpu.vector = 0 /\ ~cpu.stuck
At(s) == Running /\ Boot[pc] = s
Go == pc' = pc + 1

\* lidt and sti; the second sti is apic_init's.
idt_init ==
  /\ At("idt_init") \/ At("sti")
  /\ cpu' = [cpu EXCEPT !.iflag = TRUE] /\ Go
  /\ UNCHANGED <<apic_offset, pic, lapic, route, dev>>

\* Steps that touch no interrupt controller of the primary lines.
Elsewhere ==
  /\ \E s \in {"slab_alloc_init", "remap2", "disable2", "map"} : At(s)
  /\ Go /\ UNCHANGED <<cpu, apic_offset, pic, lapic, route, dev>>

\* A byte written to the PIC's data port outside its initialization sequence, which
\* remap_irqs does not start, is its mask: 0x20 masks line 5 only.
remap_irqs ==
  /\ At("remap1") /\ pic' = [pic EXCEPT !.mask = {5}] /\ Go
  /\ UNCHANGED <<cpu, apic_offset, lapic, route, dev>>

\* Mutant of Disabled: all lines are unmasked instead.
DisabledNone == {}

\* 0xff
Disabled == Lines

pic_disable ==
  /\ At("disable1") /\ pic' = [pic EXCEPT !.mask = Disabled] /\ Go
  /\ UNCHANGED <<cpu, apic_offset, lapic, route, dev>>

apic_init ==
  /\ \/ At("apic_offset") /\ apic_offset' = TRUE /\ UNCHANGED lapic
     \/ At("enable") /\ lapic' = [lapic EXCEPT !.on = TRUE] /\ UNCHANGED apic_offset
  /\ Go /\ UNCHANGED <<cpu, pic, route, dev>>

TIMER_VECTOR == 48

\* TIMER_VECTOR | (1u << 17): the timer is periodic.
apic_start_timer ==
  /\ At("apic_start_timer") /\ lapic' = [lapic EXCEPT !.timer = TRUE] /\ Go
  /\ UNCHANGED <<cpu, apic_offset, pic, route, dev>>

\* The end of ioapic_init.
ioapic_route ==
  /\ \E r \in {<<"route1", 1, 33>>, <<"route3", 3, 34>>, <<"route4", 4, 35>>} :
       At(r[1]) /\ route' = [route EXCEPT ![r[2]] = r[3]]
  /\ Go /\ UNCHANGED <<cpu, apic_offset, pic, lapic, dev>>

\* ps2_init and kb_enable_scanning: the buffer is emptied, the interrupt enabled.
ps2_init ==
  /\ At("ps2_init") /\ dev' = [dev EXCEPT !.full = FALSE, !.irq = TRUE] /\ Go
  /\ UNCHANGED <<cpu, apic_offset, pic, lapic, route>>

\* for (;;) hlt
hcf == At("hcf") /\ UNCHANGED irq_vars

BootCode ==
  \/ idt_init \/ Elsewhere \/ remap_irqs \/ pic_disable \/ apic_init
  \/ apic_start_timer \/ ioapic_route \/ ps2_init

-----------------------------------------------------------------------------
\* Hardware (external)
Accept(vectors) == lapic' = [lapic EXCEPT !.irr = @ \cup (IF lapic.on THEN vectors \ {0} ELSE {})]

\* An edge on line l, at both controllers; the PIC latches it behind its mask.
Raise(l) == pic' = [pic EXCEPT !.irr = @ \cup {l}] /\ Accept({route[l]})

PitEdge == Raise(0) /\ UNCHANGED <<pc, cpu, apic_offset, route, dev>>

\* The serial port's line stays up: handle_serial does not serve the port.
SerialEdge ==
  /\ ~dev.serial /\ dev' = [dev EXCEPT !.serial = TRUE] /\ Raise(4)
  /\ UNCHANGED <<pc, cpu, apic_offset, route>>

Type ==
  /\ dev.waiting < MaxKeys /\ dev' = [dev EXCEPT !.waiting = @ + 1]
  /\ UNCHANGED <<pc, cpu, apic_offset, pic, lapic, route>>

\* A byte enters the keyboard controller's output buffer.
Arrive ==
  /\ dev.waiting > 0 /\ ~dev.full /\ dev' = [dev EXCEPT !.waiting = @ - 1, !.full = TRUE]
  /\ IF dev.irq THEN Raise(1) ELSE UNCHANGED <<pic, lapic>>
  /\ UNCHANGED <<pc, cpu, apic_offset, route>>

\* A handler is shorter than the timer's period.
TimerExpires ==
  /\ lapic.timer /\ cpu.vector = 0
  /\ lapic' = [lapic EXCEPT !.irr = @ \cup {TIMER_VECTOR}]
  /\ UNCHANGED <<pc, cpu, apic_offset, pic, route, dev>>

\* Interrupt gates (0x8e) clear the interrupt flag.
Enter(v) == cpu' = [cpu EXCEPT !.iflag = FALSE, !.vector = v, !.acked = FALSE]

\* The vector with the highest priority, if it is above those in service.
DeliverLapic(v) ==
  /\ Running /\ cpu.iflag /\ v \in lapic.irr
  /\ \A w \in lapic.irr : w <= v
  /\ \A w \in lapic.isr : w \div 16 < v \div 16
  /\ Enter(v) /\ lapic' = [lapic EXCEPT !.irr = @ \ {v}, !.isr = @ \cup {v}]
  /\ UNCHANGED <<pc, apic_offset, pic, route, dev>>

DeliverPic(l) ==
  /\ Running /\ cpu.iflag /\ lapic.on /\ lapic.extint /\ l \in pic.irr \ pic.mask
  /\ Enter(pic.base + l) /\ pic' = [pic EXCEPT !.irr = @ \ {l}]
  /\ UNCHANGED <<pc, apic_offset, lapic, route, dev>>

DeliverSpurious ==
  /\ Running /\ cpu.iflag /\ lapic.on /\ Enter(255)
  /\ UNCHANGED <<pc, apic_offset, pic, lapic, route, dev>>

-----------------------------------------------------------------------------
\* exception_handler

\* Vectors that are dispatched quietly; any other is dumped, and the processor halts.
Quiet(v) == v \in 32..47 \/ v = TIMER_VECTOR

\* Mutant of ReadsKeyboard: the vector of the serial port is tested.
ReadsKeyboardOld(v) == v = 34

ReadsKeyboard(v) == v = 33

\* handle_keyboard takes the byte; handle_serial does nothing yet.
Dispatch ==
  /\ cpu.vector # 0 /\ ~cpu.stuck /\ ~cpu.acked
  /\ cpu' = IF Quiet(cpu.vector) THEN [cpu EXCEPT !.acked = TRUE] ELSE [cpu EXCEPT !.stuck = TRUE]
  /\ dev' = IF ReadsKeyboard(cpu.vector) THEN [dev EXCEPT !.full = FALSE] ELSE dev
  /\ UNCHANGED <<pc, apic_offset, pic, lapic, route>>

\* Mutant of Acknowledges: the timer's interrupt is not acknowledged.
AcknowledgesIrqs(v) == v # TIMER_VECTOR

Acknowledges(v) == TRUE

\* send_eoi retires the highest vector in service; before apic_init it would write to
\* an address that is not mapped. Then iretq.
send_eoi ==
  /\ cpu.vector # 0 /\ ~cpu.stuck /\ cpu.acked
  /\ IF apic_offset
     THEN /\ cpu' = [cpu EXCEPT !.vector = 0, !.iflag = TRUE, !.acked = FALSE]
          /\ lapic' = [lapic EXCEPT !.isr =
                         {v \in @ : Acknowledges(cpu.vector) => \E w \in lapic.isr : w > v}]
     ELSE cpu' = [cpu EXCEPT !.stuck = TRUE] /\ UNCHANGED lapic
  /\ UNCHANGED <<pc, apic_offset, pic, route, dev>>

Halted == cpu.stuck /\ UNCHANGED irq_vars

Vectors == {33, 34, 35, TIMER_VECTOR}

IrqNext ==
  \/ BootCode \/ hcf \/ PitEdge \/ SerialEdge \/ Type \/ Arrive \/ TimerExpires
  \/ (\E v \in Vectors : DeliverLapic(v)) \/ (\E l \in Lines : DeliverPic(l)) \/ DeliverSpurious
  \/ Dispatch \/ send_eoi \/ Halted

\* The boot code comes on between interrupts, and no pending vector is passed over for ever.
Fairness ==
  /\ SF_irq_vars(BootCode) /\ WF_irq_vars(Dispatch) /\ WF_irq_vars(send_eoi)
  /\ \A v \in Vectors : SF_irq_vars(DeliverLapic(v))

IrqSpec == IrqInit /\ [][IrqNext]_irq_vars /\ Fairness

-----------------------------------------------------------------------------
\* "Hardware IRQs (remapped to 0x20-0x2f): dispatch quietly and return": no interrupt of
\* the timer or of a line the kernel routed ends in the dump and halt meant for exceptions.
\* Only the spurious vector can, and the PIC between the write of remap_irqs and that of
\* pic_disable, however long edges that came while it was masked have been waiting.
HardwareIrqsReturn ==
  cpu.stuck => \/ cpu.vector = 255
               \/ /\ cpu.vector \in FirmwareBase..(FirmwareBase + 7)
                  /\ Boot[pc] \in {"remap2", "disable1"}

\* Every interrupt of the local APIC is acknowledged once, its own vector: none is in
\* service when no handler runs, and only its own while one does.
AcknowledgedOnce ==
  lapic.isr \subseteq {cpu.vector} /\ (cpu.vector \in Vectors => lapic.isr = {cpu.vector})

\* A byte in the keyboard's buffer after boot is read unless the kernel halts: no edge is lost between the
\* unmasking of the line, the enabling of the controller's interrupt and the handlers.
KeysAreRead == (Boot[pc] = "hcf" /\ dev.full) ~> (~dev.full \/ cpu.stuck)
=============================================================================
