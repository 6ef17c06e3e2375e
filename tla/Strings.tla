------------------------------ MODULE Strings -------------------------------
(***************************************************************************)
(* The memory and string functions of libc/string.  A behaviour is one     *)
(* call on one memory, with a step for each iteration of its loop, so that *)
(* overlapping operands are read as the loop has left them.                *)
(***************************************************************************)
EXTENDS Integers

CONSTANTS Size,        \* memory is the addresses 0..Size - 1
          Bytes        \* the byte values, 0 among them

ASSUME StringsAssumption == Size \in Nat /\ Bytes \subseteq 0..255 /\ 0 \in Bytes

VARIABLES mem,
          fn,          \* the function called
          p, q, n,     \* its operands: first and second pointer, size
          val,         \* the value memset stores
          i,           \* the loop's index
          pc,          \* "loop", "copy" (second loop of strcat) or "done"
          result,      \* the value compared or counted
          old          \* (history) memory at the call

call == <<fn, p, q, n, val, old>>
vars == <<mem, i, pc, result, call>>

Addr == 0..(Size - 1)
Memory == [Addr -> Bytes]
NUL == 0

\* A string starts at a and its terminator is at e.
EndsAt(m, a, e) == a <= e /\ m[e] = NUL /\ \A x \in a..(e - 1) : m[x] # NUL
IsString(m, a) == \E e \in Addr : EndsAt(m, a, e)
StrEnd(m, a) == CHOOSE e \in Addr : EndsAt(m, a, e)
StrLen(m, a) == StrEnd(m, a) - a

Apart(a, b, x, y) == a + x <= b \/ b + y <= a

\* What a caller has to see to, for functions that say restrict or take strings.
Callable ==
  \/ fn = "memmove" /\ p + n <= Size /\ q + n <= Size
  \/ fn = "memcmp" /\ p + n <= Size /\ q + n <= Size
  \/ fn = "memset" /\ p + n <= Size /\ q = p
  \/ fn = "memcpy" /\ p + n <= Size /\ q + n <= Size /\ Apart(p, q, n, n)
  \/ /\ fn = "strcpy" /\ n = 0 /\ IsString(mem, q)
     /\ p + StrLen(mem, q) < Size /\ Apart(p, q, StrLen(mem, q) + 1, StrLen(mem, q) + 1)
  \/ /\ fn = "strcat" /\ n = 0 /\ IsString(mem, p) /\ IsString(mem, q)
     /\ StrEnd(mem, p) + StrLen(mem, q) < Size
     /\ Apart(p, q, StrLen(mem, p) + StrLen(mem, q) + 1, StrLen(mem, q) + 1)
  \/ fn = "strlen" /\ n = 0 /\ IsString(mem, p) /\ q = p
  \/ fn = "strcmp" /\ n = 0 /\ IsString(mem, p) /\ IsString(mem, q)
  \/ fn = "strncmp" /\ IsString(mem, p) /\ IsString(mem, q)

\* Mutant of Backward: always from the first byte, as memcpy.
BackwardNever == FALSE

\* memmove copies from the end unless the destination is below the source.
Backward == fn = "memmove" /\ p >= q

Init ==
  /\ mem \in Memory /\ old = mem
  /\ fn \in {"memmove", "memcpy", "memset", "memcmp", "strlen", "strcpy", "strcat", "strcmp", "strncmp"}
  /\ p \in Addr /\ q \in Addr /\ n \in 0..Size /\ val \in Bytes
  /\ fn # "memset" => val = 0
  /\ Callable
  /\ i = IF Backward THEN n ELSE 0
  /\ pc = "loop" /\ result = 0

Stop == pc' = "done" /\ UNCHANGED i
On == i' = i + 1 /\ UNCHANGED pc

\* memcpy, memmove to a lower address, and memset.
CopyForward ==
  /\ pc = "loop" /\ fn \in {"memcpy", "memmove", "memset"} /\ ~Backward
  /\ \/ i < n /\ On /\ mem' = [mem EXCEPT ![p + i] = IF fn = "memset" THEN val ELSE mem[q + i]]
     \/ i >= n /\ Stop /\ UNCHANGED mem
  /\ UNCHANGED <<result, call>>

\* memmove to the same or a higher address.
CopyBackward ==
  /\ pc = "loop" /\ Backward
  /\ \/ i # 0 /\ i' = i - 1 /\ UNCHANGED pc /\ mem' = [mem EXCEPT ![p + i - 1] = mem[q + i - 1]]
     \/ i = 0 /\ Stop /\ UNCHANGED mem
  /\ UNCHANGED <<result, call>>

\* A char is signed.
Char(b) == IF b > 127 THEN b - 256 ELSE b

Less(a, b) == a < b

memcmp ==
  /\ pc = "loop" /\ fn = "memcmp"
  /\ \/ i < n /\ mem[p + i] = mem[q + i] /\ On /\ UNCHANGED result
     \/ i < n /\ mem[p + i] # mem[q + i] /\ Stop /\ result' = IF Less(mem[p + i], mem[q + i]) THEN -1 ELSE 1
     \/ i >= n /\ Stop /\ result' = 0
  /\ UNCHANGED <<mem, call>>

strlen ==
  /\ pc = "loop" /\ fn = "strlen"
  /\ IF mem[p + i] # NUL THEN On /\ UNCHANGED result ELSE Stop /\ result' = i
  /\ UNCHANGED <<mem, call>>

\* while (*dst++ = *src++), from the address d.
CopyString(d) ==
  /\ mem' = [mem EXCEPT ![d + i] = mem[q + i]]
  /\ IF mem[q + i] # NUL THEN On ELSE Stop
  /\ UNCHANGED result

strcpy == pc = "loop" /\ fn = "strcpy" /\ CopyString(p) /\ UNCHANGED call

CatFrom == p + i

\* strcat walks to the terminator of dst, then copies. result holds where that is;
\* the pointer it returns is behind the new terminator and is used by no caller.
strcat ==
  /\ fn = "strcat"
  /\ \/ pc = "loop" /\ mem[p + i] # NUL /\ On /\ UNCHANGED <<mem, result>>
     \/ pc = "loop" /\ mem[p + i] = NUL /\ pc' = "copy" /\ i' = 0 /\ result' = CatFrom /\ UNCHANGED mem
     \/ pc = "copy" /\ CopyString(result)
  /\ UNCHANGED call

strcmp ==
  /\ pc = "loop" /\ fn = "strcmp"
  /\ IF mem[p + i] # NUL /\ mem[p + i] = mem[q + i] THEN On /\ UNCHANGED result
     ELSE Stop /\ result' = Char(mem[p + i]) - Char(mem[q + i])
  /\ UNCHANGED <<mem, call>>

\* Mutant of InCount: one character too many is compared.
InCountIncluding == i <= n

InCount == i < n

Ended == mem[p + i] = NUL

strncmp ==
  /\ pc = "loop" /\ fn = "strncmp"
  /\ \/ ~InCount /\ Stop /\ result' = 0
     \/ InCount /\ mem[p + i] # mem[q + i] /\ Stop /\ result' = Char(mem[p + i]) - Char(mem[q + i])
     \/ InCount /\ mem[p + i] = mem[q + i] /\ Ended /\ Stop /\ result' = 0
     \/ InCount /\ mem[p + i] = mem[q + i] /\ ~Ended /\ On /\ UNCHANGED result
  /\ UNCHANGED <<mem, call>>

Returned == pc = "done" /\ UNCHANGED vars

Next ==
  \/ CopyForward \/ CopyBackward \/ memcmp \/ strlen \/ strcpy \/ strcat \/ strcmp \/ strncmp
  \/ Returned

Spec == Init /\ [][Next]_vars

-----------------------------------------------------------------------------
\* "memmove copies size bytes from srcptr => dstptr": when memmove, memcpy or memset
\* returns, the destination holds what the source held at the call, even where the
\* two overlap, and the rest of memory is as it was.
CopiesRight ==
  pc = "done" /\ fn \in {"memmove", "memcpy", "memset"} =>
    mem = [a \in Addr |-> IF a \in p..(p + n - 1)
                          THEN IF fn = "memset" THEN val ELSE old[a - p + q]
                          ELSE old[a]]

\* "a < b: -1, a > b: 1, a == b: 0": memcmp orders by the first byte that differs.
ComparesRight ==
  pc = "done" /\ fn = "memcmp" =>
    \/ result = 0 /\ \A k \in 0..(n - 1) : old[p + k] = old[q + k]
    \/ \E k \in 0..(n - 1) :
         /\ \A j \in 0..(k - 1) : old[p + j] = old[q + j]
         /\ \/ result = -1 /\ old[p + k] < old[q + k]
            \/ result = 1 /\ old[p + k] > old[q + k]

\* The strings at a and b agree in their first m characters or up to their end.
SameString(a, b, m) ==
  \A k \in 0..(m - 1) : (\A j \in 0..(k - 1) : old[a + j] # NUL) =>
    a + k < Size /\ b + k < Size /\ old[a + k] = old[b + k]

\* strcmp, and strncmp in at most n characters, return 0 exactly for equal strings.
StringsCompareRight ==
  pc = "done" /\ fn \in {"strcmp", "strncmp"} =>
    (result = 0 <=> SameString(p, q, IF fn = "strcmp" THEN Size ELSE n))

\* strcpy and strcat leave a copy of src, terminator included, at dst or behind
\* what dst held, and touch nothing else.
StringsCopyRight ==
  pc = "done" /\ fn \in {"strcpy", "strcat"} =>
    LET d == IF fn = "strcat" THEN StrEnd(old, p) ELSE p
        len == StrLen(old, q)
    IN  mem = [a \in Addr |-> IF a \in d..(d + len) THEN old[a - d + q] ELSE old[a]]

\* No loop runs past the memory its operands name: a string function has seen no
\* terminator before its index.
StaysInString ==
  /\ pc = "loop" /\ fn \in {"strlen", "strcat", "strcmp", "strncmp"} => p + i <= StrEnd(old, p)
  /\ pc # "done" /\ fn \in {"strcpy", "strcmp", "strncmp"} => q + i <= StrEnd(old, q)
  /\ fn = "strlen" /\ pc = "done" => result = StrLen(old, p)

\* The functions that compare, and those on strings, do what string.h promises of them.
CallsRight == ComparesRight /\ StringsCompareRight /\ StringsCopyRight /\ StaysInString
=============================================================================
