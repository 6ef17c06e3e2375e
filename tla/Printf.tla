------------------------------- MODULE Printf -------------------------------
(***************************************************************************)
(* vprintf of libc/stdio/printf.c, as a machine that reads one format.     *)
(*                                                                         *)
(* A character is a string of length one and a format a sequence of them;  *)
(* reading behind its end yields NUL.  An argument is a record with an     *)
(* integer v, a string s and a number f, of which the conversion takes the *)
(* field it needs.  A floating number <<m, e>> is m / 10^e, in exact       *)
(* decimal arithmetic.  Integer types have the widths the constant bits    *)
(* gives to length modifiers.  putchar never fails (putchar.c).            *)
(***************************************************************************)
EXTENDS Integers, SequencesExt

CONSTANTS Cases,       \* pairs of a format and the arguments it calls for
          bits         \* width of the type of a length modifier, NUL included

VARIABLES format, list,    \* the format and its arguments
          i,               \* index into format, from 1
          arg,             \* index of the next argument
          phase,           \* the part of the conversion that is being read
          sp,              \* flags, width, precision and length read so far
          out, chars,      \* what was printed, and the count of it that is returned
          stored,          \* what %n stored
          last             \* (history) the last integer conversion: value, base, text

vars == <<format, list, i, arg, phase, sp, out, chars, stored, last>>

NUL == ""
At(k) == IF k <= Len(format) THEN format[k] ELSE NUL
DigitChars == <<"0", "1", "2", "3", "4", "5", "6", "7", "8", "9">>
lower == DigitChars \o <<"a", "b", "c", "d", "e", "f">>
upper == DigitChars \o <<"A", "B", "C", "D", "E", "F">>
DigitVal(c) == CHOOSE n \in 0..9 : DigitChars[n + 1] = c
IsDigit(c) == c \in {DigitChars[n] : n \in 1..10}

NoSpec == [left |-> FALSE, zero |-> FALSE, space |-> FALSE, alt |-> FALSE,
           plus |-> FALSE, width |-> 0, prec |-> 0, length |-> NUL]

Init ==
  /\ \E c \in Cases : format = c[1] /\ list = c[2]
  /\ i = 1 /\ arg = 1 /\ phase = "text" /\ sp = NoSpec
  /\ out = <<>> /\ chars = 0 /\ stored = <<>>
  /\ last = [v |-> 0, base |-> 10, text |-> <<"0">>, type |-> NUL, plain |-> TRUE]

Printing == <<format, list, arg, out, chars, stored, last>>

-----------------------------------------------------------------------------
\* Reading the format.
Text ==
  /\ phase = "text" /\ At(i) \notin {"%", NUL}
  /\ out' = Append(out, At(i)) /\ chars' = chars + 1 /\ i' = i + 1
  /\ UNCHANGED <<format, list, arg, phase, sp, stored, last>>

Percent ==
  /\ phase = "text" /\ At(i) = "%"
  /\ phase' = "flags" /\ i' = i + 1 /\ sp' = NoSpec
  /\ UNCHANGED Printing

FlagNext(c) == i + 1

\* Mutant of AfterStar: the width is read again by the conversion.
AfterStarSame == arg

AfterStar == arg + 1

Flags ==
  /\ phase = "flags"
  /\ LET c == At(i) IN
     IF c \in {"-", "+", "#", " ", "0"}
     THEN /\ sp' = CASE c = "-" -> [sp EXCEPT !.left = TRUE]
                     [] c = "+" -> [sp EXCEPT !.plus = TRUE]
                     [] c = "#" -> [sp EXCEPT !.alt = TRUE]
                     [] c = " " -> [sp EXCEPT !.space = TRUE]
                     [] c = "0" -> [sp EXCEPT !.zero = TRUE]
          /\ i' = FlagNext(c) /\ phase' = phase
     ELSE phase' = "width" /\ UNCHANGED <<i, sp>>
  /\ UNCHANGED Printing

\* A number in digits, or an argument in its place.
Number(field, next) ==
  \/ /\ IsDigit(At(i))
     /\ sp' = [sp EXCEPT ![field] = 10 * @ + DigitVal(At(i))]
     /\ i' = i + 1 /\ UNCHANGED <<phase, arg>>
  \/ /\ At(i) = "*"
     /\ sp' = [sp EXCEPT ![field] = list[arg].v]
     /\ arg' = AfterStar /\ i' = i + 1 /\ phase' = next
  \/ /\ ~IsDigit(At(i)) /\ At(i) # "*"
     /\ phase' = next /\ UNCHANGED <<i, sp, arg>>

Width ==
  /\ phase = "width" /\ Number("width", "point")
  /\ UNCHANGED <<format, list, out, chars, stored, last>>

Point ==
  /\ phase = "point"
  /\ IF At(i) = "." THEN i' = i + 1 /\ phase' = "prec" /\ sp' = sp
     ELSE i' = i /\ phase' = "length" /\ sp' = [sp EXCEPT !.prec = 6]
  /\ UNCHANGED Printing

Precision ==
  /\ phase = "prec" /\ Number("prec", "length")
  /\ UNCHANGED <<format, list, out, chars, stored, last>>

\* Where the specifier is: behind one modifier, or behind ll. Of hh the second
\* letter is not passed over.
AfterLength ==
  IF At(i) \in {"h", "l", "j", "z", "t", "L"}
  THEN IF At(i + 1) = "l" THEN i + 2 ELSE i + 1
  ELSE i

Length ==
  /\ phase = "length"
  /\ sp' = IF AfterLength = i THEN sp
           ELSE [sp EXCEPT !.length = CASE At(i + 1) = "h" -> "H"
                                        [] At(i + 1) = "l" -> "q"
                                        [] OTHER -> At(i)]
  /\ i' = AfterLength /\ phase' = "convert"
  /\ UNCHANGED Printing

-----------------------------------------------------------------------------
\* __int_str.
\* The number of divisions by base until nothing is left, at least one.
DigitCount(v, base) == CHOOSE n \in 1..31 : v < base^n /\ (n > 1 => v >= base^(n - 1))

Digits(v, base, digit) ==
  LET n == DigitCount(v, base) IN [k \in 1..n |-> digit[((v \div base^(n - k)) % base) + 1]]

Sign(neg, plus, space) ==
  IF neg THEN <<"-">> ELSE IF plus THEN <<"+">> ELSE IF space THEN <<" ">> ELSE <<>>

\* The buffer it fills: sign and digits, padded to width behind or in front.
IntStr(v, base, digit, plus, space, width, left, zero, neg) ==
  LET b == Sign(neg, plus, space) \o Digits(v, base, digit)
      n == IF width > Len(b) THEN width - Len(b) ELSE 0
      pad == [k \in 1..n |-> IF zero THEN "0" ELSE " "]
  IN  IF left THEN b \o pad ELSE pad \o b

\* display_string prints the str_length characters of the buffer, which
\* __int_str sets to the number of digits alone.
Cut(buffer, n) == [k \in 1..n |-> IF k <= Len(buffer) THEN buffer[k] ELSE NUL]

-----------------------------------------------------------------------------
\* What a conversion does: text it prints, how much of it is counted, arguments taken.
Done(text, counted, taken) ==
  /\ out' = out \o text /\ chars' = chars + counted /\ arg' = arg + taken
  /\ i' = i + 1 /\ phase' = "text"
  /\ UNCHANGED <<format, list, sp>>

Arg == list[arg]

\* Mutant of Truncated: a value is taken as wide as it is passed.
TruncatedNot(v) == v

\* va_arg, with the unsigned type of the length modifier; and with the signed one.
Truncated(v) == v % 2^bits[sp.length]
Signed(v) ==
  LET u == v % 2^bits[sp.length] IN
  IF sp.length # "z" /\ u >= 2^(bits[sp.length] - 1) THEN u - 2^bits[sp.length] ELSE u

\* The modifiers of the switch statements; for any other nothing is printed or taken.
Known == sp.length \in DOMAIN bits

Counted(prefix, text) == Len(prefix) + Len(text)

\* Print an integer of magnitude v behind the prefix.
Integer(v, base, digit, neg, prefix) ==
  LET text == Cut(IntStr(v, base, digit, sp.plus, sp.space, sp.width, sp.left, sp.zero, neg),
                  DigitCount(v, base))
  IN  /\ Done(prefix \o text, Counted(prefix, text), 1)
      /\ last' = [v |-> Arg.v, base |-> base, text |-> text,
                  type |-> IF At(i) = "p" THEN "z" ELSE sp.length,
                  plain |-> ~neg /\ ~sp.plus /\ ~sp.space /\ sp.width <= Len(text)]
      /\ UNCHANGED stored

\* The cases u, o, p, x and X. %p takes a size_t; # puts 0 or 0x in front.
UnsignedConversion ==
  /\ phase = "convert" /\ At(i) \in {"u", "o", "p", "x", "X"}
  /\ LET c == At(i)
         base == IF c = "u" THEN 10 ELSE IF c = "o" THEN 8 ELSE 16
         digit == IF c = "x" THEN lower ELSE upper
         prefix == IF ~sp.alt THEN <<>>
                   ELSE IF c = "o" THEN <<"0">> ELSE IF c \in {"x", "X"} THEN <<"0", "x">> ELSE <<>>
         v == IF c = "p" THEN Arg.v % 2^bits["z"] ELSE Truncated(Arg.v)
     IN  IF c = "p" \/ Known
         THEN Integer(v, base, digit, FALSE, prefix)
         ELSE Done(prefix, Len(prefix), 0) /\ UNCHANGED <<stored, last>>

\* The cases d and i, whose sign is given to __int_str apart from the magnitude.
SignedConversion ==
  /\ phase = "convert" /\ At(i) \in {"d", "i"}
  /\ IF Known
     THEN LET v == Signed(Arg.v) IN
          Integer(IF v < 0 THEN -v ELSE v, 10, lower, v < 0, <<>>)
     ELSE Done(<<>>, 0, 0) /\ UNCHANGED <<stored, last>>

\* The case c: display_character does not count what it prints.
CharConversion ==
  /\ phase = "convert" /\ At(i) = "c"
  /\ Done(Arg.s, 0, 1) /\ UNCHANGED <<stored, last>>

StringConversion ==
  /\ phase = "convert" /\ At(i) = "s"
  /\ Done(Arg.s, Len(Arg.s), 1) /\ UNCHANGED <<stored, last>>

\* The case n stores the count, cut to the signed type of the length.
CountConversion ==
  /\ phase = "convert" /\ At(i) = "n"
  /\ IF Known THEN stored' = Append(stored, Signed(chars)) /\ Done(<<>>, 0, 1)
     ELSE Done(<<>>, 0, 0) /\ UNCHANGED stored
  /\ UNCHANGED last

\* The number of divisions by ten until floating < 10, for e and E.
Expo(m, e) == CHOOSE x \in 0..9 : m < 10^(e + x + 1) /\ (x > 0 => m >= 10^(e + x))

\* decPlaces: the fraction m / 10^e in units of 10^-prec, with 0.5 added.
Rounded(m, e, prec) == (2 * m * 10^prec + 10^e) \div (2 * 10^e)

\* The cases e, E, f, F, g and G: integer part, point, fraction and exponent.
FloatConversion ==
  /\ phase = "convert" /\ At(i) \in {"e", "E", "f", "F", "g", "G"}
  /\ LET emode == At(i) \in {"e", "E"}
         neg == Arg.f[1] < 0
         m == IF neg THEN -Arg.f[1] ELSE Arg.f[1]
         expo == IF emode /\ ~neg THEN Expo(m, Arg.f[2]) ELSE 0
         e == Arg.f[2] + expo
         point == sp.prec > 0 \/ sp.alt
         room == sp.width - sp.prec - expo - (IF point THEN 1 ELSE 0) - (IF emode THEN 4 ELSE 0)
         whole == m \div 10^e
         dec == Rounded(m % 10^e, e, sp.prec)
         head == Cut(IntStr(whole, 10, lower, sp.plus, sp.space, room, sp.left, sp.zero, neg),
                     DigitCount(whole, 10))
         frac == IF sp.prec = 0 THEN <<>>
                 ELSE LET d == Digits(dec, 10, lower) IN
                      Cut(IF Len(d) > sp.prec THEN SubSeq(d, 1, sp.prec) ELSE d, Len(d))
         tail == IF ~emode THEN <<>>
                 ELSE <<At(i), "+">> \o Cut(IntStr(expo, 10, lower, FALSE, FALSE, 2, FALSE, TRUE, FALSE),
                                            DigitCount(expo, 10))
     IN  Done(head \o (IF point THEN <<".">> ELSE <<>>) \o frac \o tail,
              Len(head) + Len(frac) + Len(tail), 1)
  /\ UNCHANGED <<stored, last>>

\* a, A and every character that is not a specifier.
NoConversion ==
  /\ phase = "convert"
  /\ At(i) \notin {"u", "o", "p", "x", "X", "d", "i", "c", "s", "n", "e", "E", "f", "F", "g", "G"}
  /\ Done(<<>>, 0, 0) /\ UNCHANGED <<stored, last>>

Convert ==
  \/ UnsignedConversion \/ SignedConversion \/ CharConversion \/ StringConversion
  \/ CountConversion \/ FloatConversion \/ NoConversion

\* The end of the format: vprintf returns chars.
Return == phase = "text" /\ At(i) = NUL /\ phase' = "done" /\ UNCHANGED <<i, sp>> /\ UNCHANGED Printing

Finished == phase = "done" /\ UNCHANGED vars

Next == Text \/ Percent \/ Flags \/ Width \/ Point \/ Precision \/ Length \/ Convert \/ Return \/ Finished

Spec == Init /\ [][Next]_vars

-----------------------------------------------------------------------------
\* The value of a numeral.
ValueOf(text, base) ==
  FoldLeft(LAMBDA n, c : n * base + (CHOOSE d \in 0..(base - 1) : c \in {lower[d + 1], upper[d + 1]}),
           0, text)

\* The numeral printed for an integer without sign and padding reads back as the
\* value of the argument, in its type's width, and has no superfluous zero.
NumeralsRight ==
  last.plain =>
    /\ Len(last.text) > 0 /\ (Len(last.text) > 1 => last.text[1] # "0")
    /\ ValueOf(last.text, last.base) = last.v % 2^bits[last.type]

\* Arguments and conversions stay in step: a format that is read to its end has
\* taken exactly the arguments it calls for, widths and precisions included, and
\* vprintf reads its format up to the terminator and no further.
ArgumentsInStep ==
  /\ arg <= Len(list) + 1 /\ i <= Len(format) + 1
  /\ phase = "done" => arg = Len(list) + 1

\* Without %c and floating numbers, the returned count is what was printed.
CountIsPrinted ==
  (\A k \in 1..Len(format) : format[k] \notin {"c", "e", "E", "f", "F", "g", "G"}) =>
    chars = Len(out)

\* What is printed and the count that is returned are those of the format.
PrintedRight == NumeralsRight /\ CountIsPrinted
=============================================================================
