------------------------------- MODULE MCLibc -------------------------------
(***************************************************************************)
(* What the kernel prints and computes with: the memory and string         *)
(* functions, the heap, printf, the terminal, the serial line and the      *)
(* keyboard.  They share no state, so that a behaviour of this run is a    *)
(* behaviour of one of them, part, and the variables of the others keep    *)
(* their first values.                                                     *)
(***************************************************************************)
EXTENDS Strings, Heap, Terminal, Sequences, MCKeys

\* Three glyphs of 2 x 2 font pixels: solid, a slash and a single dot.
MCGlyphs == [g \in 0..2 |-> CASE g = 0 -> (0..1) \X (0..1)
                              [] g = 1 -> {<<0, 1>>, <<1, 0>>}
                              [] g = 2 -> {<<1, 1>>}]

Unmodified == ""

\* Scaled widths of char, short, int and the 64-bit types.
MCBits == [c \in {"H", "h", Unmodified, "l", "q", "j", "z", "t"} |->
             CASE c = "H" -> 3 [] c = "h" -> 4 [] c = Unmodified -> 5 [] OTHER -> 7]

Value(v) == [v |-> v, s |-> <<>>, f |-> <<0, 0>>]
String(s) == [v |-> 0, s |-> s, f |-> <<0, 0>>]
Float(m, e) == [v |-> 0, s |-> <<>>, f |-> <<m, e>>]

FlagSets == {<<>>, <<"-">>, <<"+">>, <<"#">>, <<" ">>, <<"0">>, <<"#", "0">>}
Lengths == {<<>>, <<"h">>, <<"l">>, <<"l", "l">>, <<"j">>, <<"z">>, <<"t">>}
Values == {0, 9, 15, 29, 100}

\* Every flag, width and length with every integer conversion.
IntegerCases ==
  {<<<<"a", "%">> \o fl \o w \o len \o <<c>>,
     (IF w = <<"*">> THEN <<Value(3)>> ELSE <<>>) \o <<Value(v)>>>>
     : fl \in FlagSets, w \in {<<>>, <<"1", "2">>, <<"*">>}, len \in Lengths,
       c \in {"u", "d", "x", "X", "o", "p"}, v \in Values}

FloatCases ==
  {<<<<"%">> \o fl \o pr[1] \o <<c>>, pr[2] \o <<Float(x[1], x[2])>>>>
     : fl \in {<<>>, <<"#">>, <<"+">>}, pr \in {<<<<".", "2">>, <<>>>>, <<<<".", "*">>, <<Value(1)>>>>,
                                                <<<<"9", ".">>, <<>>>>},
       c \in {"f", "e", "E", "g"}, x \in {<<0, 0>>, <<105, 2>>, <<-996, 2>>, <<1234, 1>>}}

OtherCases ==
  {<<<<"%", "s", "%", "n", "b", "%", "h", "n">>, <<String(<<"u", "w", "u">>), Value(0), Value(0)>>>>,
   <<<<"%", "c", "%", "l", "c">>, <<String(<<"x">>), String(<<"y">>)>>>>,
   <<<<"%", "%", "a", "%", "a", "z">>, <<>>>>,
   <<<<"%", "L", "u", "%", "L", "d", "%", "L", "n", "!">>, <<>>>>}

MCCases == IntegerCases \cup FloatCases \cup OtherCases
-----------------------------------------------------------------------------
VARIABLES part,
          format, list, at, arg, phase, sp, out, chars, stored, last,   \* printf
          step, baud, uart, line, written, got,                         \* serial
          kbd, echo, printed, wire, down, caps                          \* keyboard

printf_vars == <<format, list, at, arg, phase, sp, out, chars, stored, last>>
serial_vars == <<step, baud, uart, line, written, got>>
keyboard_vars == <<kbd, echo, printed, wire, down, caps>>

P == INSTANCE Printf WITH Cases <- MCCases, bits <- MCBits, i <- at

U == INSTANCE Serial WITH CLOCK_RATE <- 115200, Bauds <- {2, 300, 9600, 38400, 115200},
                          Data <- {1, 174}, Fifo <- 2, MaxBytes <- 3, pc <- step

K == INSTANCE Keyboard WITH
       Codes <- MCCodes, normal_keys <- MCNormalKeys, extended_keys <- MCExtendedKeys,
       ExtendedCodes <- {116}, Letters <- {"A"}, LSHIFT <- "LSHIFT", CAPSLOCK <- "CAPSLOCK",
       MaxWire <- 4

NoCall ==
  /\ mem = 0 /\ old = 0 /\ fn = "none" /\ p = 0 /\ q = 0 /\ n = 0 /\ val = 0
  /\ i = 0 /\ pc = "none" /\ result = 0

NoPrintf ==
  /\ format = 0 /\ list = 0 /\ at = 0 /\ arg = 0 /\ phase = "none" /\ sp = 0 /\ out = 0
  /\ chars = 0 /\ stored = 0 /\ last = 0

NoSerial == step = 0 /\ baud = 0 /\ uart = 0 /\ line = 0 /\ written = 0 /\ got = 0

Blank == TtyInit /\ screen.lit = {}

MCInit ==
  /\ heap_init /\ K!Init
  /\ \/ part = "string" /\ Init /\ Blank /\ NoPrintf /\ NoSerial
     \/ part \in {"heap", "keyboard"} /\ NoCall /\ Blank /\ NoPrintf /\ NoSerial
     \/ part = "terminal" /\ NoCall /\ TtyInit /\ NoPrintf /\ NoSerial
     \/ part = "printf" /\ NoCall /\ Blank /\ P!Init /\ NoSerial
     \/ part = "serial" /\ NoCall /\ Blank /\ NoPrintf /\ U!Init

MCNext ==
  /\ \/ part = "string" /\ Next
        /\ UNCHANGED <<heap_vars, tty_vars, printf_vars, serial_vars, keyboard_vars>>
     \/ part = "heap" /\ HeapNext
        /\ UNCHANGED <<vars, tty_vars, printf_vars, serial_vars, keyboard_vars>>
     \/ part = "terminal" /\ TtyNext
        /\ UNCHANGED <<vars, heap_vars, printf_vars, serial_vars, keyboard_vars>>
     \/ part = "printf" /\ P!Next
        /\ UNCHANGED <<vars, heap_vars, tty_vars, serial_vars, keyboard_vars>>
     \/ part = "serial" /\ U!Next
        /\ UNCHANGED <<vars, heap_vars, tty_vars, printf_vars, keyboard_vars>>
     \/ part = "keyboard" /\ K!Next
        /\ UNCHANGED <<vars, heap_vars, tty_vars, printf_vars, serial_vars>>
  /\ UNCHANGED part

\* The keyboard's interrupts are handled.
MCSpec ==
  /\ MCInit /\ [][MCNext]_<<part, vars, heap_vars, tty_vars, printf_vars, serial_vars,
                     keyboard_vars>>
  /\ WF_keyboard_vars(K!handle_keyboard)
-----------------------------------------------------------------------------
Printf == part = "printf"
Serial == part = "serial"

\* The numeral vprintf prints for an integer reads back as the argument's value in the
\* width of its type, without superfluous zeros, and the count it returns is what it
\* printed, without %c and floating numbers.
PrintedRight == Printf => P!PrintedRight

\* vprintf takes exactly the arguments its format calls for, in step with it, and does
\* not read behind the terminator of the format.
ArgumentsInStep == Printf => P!ArgumentsInStep

\* serial_init leaves the chip configured as asked and faults no working one, unless a
\* byte arrives meanwhile; bytes leave in the order of the calls of write_serial, none
\* lost or overwritten, and read_serial returns those that arrive, in order, once each.
LineWorks == Serial => U!LineWorks

\* However far the interrupts lag behind the user, the bytes in flight bring the driver
\* to READY with key_states true of exactly the pressed keys.
KeyStatesCatchUp == K!KeyStatesCatchUp

\* key_down prints a letter in the case the user typed it in.
EchoIsWhatWasTyped == K!EchoIsWhatWasTyped

\* A key that stays down is eventually down in key_states for good, and one that stays up, up.
KeyStatesSettle == K!KeyStatesSettle
=============================================================================
