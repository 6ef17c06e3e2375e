------------------------------- MODULE Serial -------------------------------
(***************************************************************************)
(* The serial driver, drivers/serial.c, against a 16550 (external) of      *)
(* which the model has the registers the driver uses: their meaning hangs  *)
(* on the divisor latch bit of LCR and the loop bit of MCR.                *)
(***************************************************************************)
EXTENDS Integers, Sequences

CONSTANTS CLOCK_RATE, Bauds,
          Data,        \* bytes that are written and received
          Fifo,        \* bytes the receive buffer holds
          MaxBytes     \* bound: bytes in each direction

VARIABLES pc,          \* index of serial_init's next access; Ready and Faulty behind
          baud,
          uart,        \* ier, lcr, mcr, divisor and the two buffers thr and rbr
          line,        \* bytes sent, number that arrived, and (history) those that were kept, and
                       \* whether one arrived during serial_init
          written, got \* (history) arguments of write_serial, results of read_serial

vars == <<pc, baud, uart, line, written, got>>

\* The driver's arithmetic: 16 bits of the quotient, in two bytes.
Divisor(b) == (CLOCK_RATE \div b) % 65536

\* 0xc7: buffers enabled and cleared.
Fcr == 199

W(offset, value) == [offset |-> offset, value |-> value]

\* The writes of serial_init in front of the test.
Code(b) == <<W(1, 0), W(3, 128), W(0, Divisor(b) % 256), W(1, Divisor(b) \div 256),
             W(3, 3), W(2, Fcr), W(4, 11), W(4, 30), W(0, 174)>>
Test == 10
Last == 11
Ready == 12
Faulty == 13

Init ==
  /\ pc = 1 /\ baud \in Bauds
  /\ uart \in [ier : {5}, lcr : {3}, mcr : {0}, dll : {1}, dlm : {0}, thr : {<<>>},
               rbr : {<<>>} \cup {<<b>> : b \in Data}]      \* as the firmware left it
  /\ line = [out |-> <<>>, in |-> 0, kept |-> <<>>, early |-> FALSE] /\ written = <<>> /\ got = <<>>

-----------------------------------------------------------------------------
\* The chip (external)
Dlab == uart.lcr >= 128
Loop == (uart.mcr \div 16) % 2 = 1

\* What a write to an offset does. Data goes round in loop mode.
Store(w) ==
  CASE w.offset = 0 /\ Dlab -> [uart EXCEPT !.dll = w.value]
    [] w.offset = 1 /\ Dlab -> [uart EXCEPT !.dlm = w.value]
    [] w.offset = 0 /\ ~Dlab /\ Loop -> [uart EXCEPT !.rbr = Append(@, w.value)]
    [] w.offset = 0 /\ ~Dlab /\ ~Loop -> [uart EXCEPT !.thr = <<w.value>>]
    [] w.offset = 1 /\ ~Dlab -> [uart EXCEPT !.ier = w.value]
    [] w.offset = 2 -> [uart EXCEPT !.rbr = IF (w.value \div 2) % 2 = 1 THEN <<>> ELSE @]
    [] w.offset = 3 -> [uart EXCEPT !.lcr = w.value]
    [] w.offset = 4 -> [uart EXCEPT !.mcr = w.value]

\* A read of the data register.
Rbr == IF uart.rbr = <<>> THEN 0 ELSE Head(uart.rbr)
TakeRbr == [uart EXCEPT !.rbr = IF @ = <<>> THEN @ ELSE Tail(@)]

Transmit ==
  /\ uart.thr # <<>> /\ line' = [line EXCEPT !.out = @ \o uart.thr]
  /\ uart' = [uart EXCEPT !.thr = <<>>] /\ UNCHANGED <<pc, baud, written, got>>

\* A byte arrives; it is dropped when the buffer is full, and not heard in loop mode.
Receive ==
  /\ line.in < MaxBytes
  /\ \E b \in Data :
       LET kept == IF Loop \/ Len(uart.rbr) >= Fifo THEN <<>> ELSE <<b>>
       IN  /\ line' = [line EXCEPT !.in = @ + 1, !.kept = @ \o kept,
                                       !.early = @ \/ pc < Ready]
           /\ uart' = [uart EXCEPT !.rbr = @ \o kept]
  /\ UNCHANGED <<pc, baud, written, got>>

-----------------------------------------------------------------------------
\* The driver
write_byte ==
  /\ pc < Test /\ uart' = Store(Code(baud)[pc]) /\ pc' = pc + 1
  /\ UNCHANGED <<baud, line, written, got>>

TestChip ==
  /\ pc = Test /\ pc' = IF Rbr = 174 THEN Last ELSE Faulty
  /\ uart' = TakeRbr
  /\ UNCHANGED <<baud, line, written, got>>

\* MCR for use.
Normal == 15

Operate ==
  /\ pc = Last /\ pc' = Ready /\ uart' = Store(W(4, Normal))
  /\ UNCHANGED <<baud, line, written, got>>

\* Mutant of is_transmit_empty: bit 5 of the line status is not looked at.
transmit_always == TRUE

is_transmit_empty == uart.thr = <<>>

serial_received == uart.rbr # <<>>

write_serial ==
  /\ pc >= Ready /\ is_transmit_empty /\ Len(written) < MaxBytes
  /\ \E b \in Data : uart' = Store(W(0, b)) /\ written' = Append(written, b)
  /\ UNCHANGED <<pc, baud, line, got>>

read_serial ==
  /\ pc >= Ready /\ serial_received /\ Len(got) < MaxBytes
  /\ got' = Append(got, Rbr) /\ uart' = TakeRbr
  /\ UNCHANGED <<pc, baud, line, written>>

Next == Transmit \/ Receive \/ write_byte \/ TestChip \/ Operate \/ write_serial \/ read_serial

Spec == Init /\ [][Next]_vars

-----------------------------------------------------------------------------
\* Bytes leave in the order of the calls of write_serial, none is lost or overwritten,
\* and nothing else leaves, the test byte included.
SentInOrder == pc = Ready => line.out \o uart.thr = written

\* serial_init leaves the chip in the mode that the driver's functions count on: no
\* interrupts, 8N1 with the divisor latch closed, and the rate asked for.
ConfiguredAsAsked ==
  pc = Ready => uart.ier = 0 /\ uart.lcr = 3 /\ ~Loop
                /\ uart.dll + 256 * uart.dlm = CLOCK_RATE \div baud

\* read_serial returns the bytes that arrived, in order, once each: neither the test byte
\* nor a byte from before serial_init; unless one arrived while serial_init was running.
ReadInOrder == pc = Ready /\ ~line.early => got \o uart.rbr = line.kept

\* A chip that works passes the test: "Serial is faulty" is not said of it,
\* unless a byte that arrived during serial_init is read instead of the test byte.
WorkingChipPasses == pc = Faulty => line.early

\* The serial line works as the driver's functions promise.
LineWorks == SentInOrder /\ ReadInOrder /\ ConfiguredAsAsked /\ WorkingChipPasses
=============================================================================
