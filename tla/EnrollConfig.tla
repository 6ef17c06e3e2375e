---------------------------- MODULE EnrollConfig ----------------------------
(***************************************************************************)
(* enroll_config of limine-binary/limine.c: the options are taken out of   *)
(* argv in place, the signature is searched in the executable with one     *)
(* index that runs backwards after a failed match, and the checksum behind *)
(* it is replaced.                                                         *)
(***************************************************************************)
EXTENDS Integers, Sequences

CONSTANTS
  Sign,      \* CONFIG_B2SUM_SIGNATURE, with a repeated first character
  HashLen,   \* the 128 characters of a checksum
  Inputs     \* arguments (a text, and the characters of a checksum) and executable

Args == [text : STRING, chars : Seq(Nat)]

ASSUME EnrollAssumption ==
  /\ Sign \in Seq(Nat) /\ Len(Sign) > 0 /\ HashLen \in Nat
  /\ \A x \in Inputs : x[1] \in Seq(Args) /\ x[2] \in Seq(Nat)

VARIABLES
  pc, argv, n,          \* the arguments and the index of the first loop
  reset,
  file, orig,           \* the executable on disk, and as it was (history)
  i, checked_count, checksum_loc,
  given                 \* the arguments as given (history)

vars == <<pc, argv, n, reset, file, orig, i, checked_count, checksum_loc, given>>

min_size == Len(Sign) + HashLen
HexDigits == 0 .. 15

Options == {"--quiet", "--reset"}

NextArg == n

\* The arguments behind it move up.
remove_arg(args, index) == [j \in 1 .. Len(args) - 1 |-> args[IF j < index THEN j ELSE j + 1]]

\* One argument: an option is removed, and the index stays.
ParseArg ==
  /\ pc = "args" /\ n <= Len(argv)
  /\ \/ argv[n].text = "--help" /\ pc' = "success" /\ UNCHANGED <<argv, n, reset>>
     \/ /\ argv[n].text \in Options /\ argv' = remove_arg(argv, n)
        /\ reset' = (reset \/ argv[n].text = "--reset") /\ n' = NextArg /\ UNCHANGED pc
     \/ /\ argv[n].text \notin {"--help", "--quiet", "--reset"} /\ n' = n + 1
        /\ UNCHANGED <<pc, argv, reset>>
  /\ UNCHANGED <<file, orig, i, checked_count, checksum_loc, given>>

ArgsOk ==
  /\ Len(argv) >= IF reset THEN 1 ELSE 2
  /\ ~reset => Len(argv[2].chars) = HashLen /\ \A j \in 1 .. HashLen : argv[2].chars[j] \in HexDigits

\* The checks of the arguments and of the size, fopen, malloc and fread.
Open ==
  /\ pc = "args" /\ n > Len(argv)
  /\ pc' \in IF ArgsOk /\ Len(file) >= min_size THEN {"search", "failure"} ELSE {"failure"}
  /\ UNCHANGED <<argv, n, reset, file, orig, i, checked_count, checksum_loc, given>>

\* Mutant of Restart: the search goes on behind the failed match.
RestartBehind == i + 1

\* i -= checked_count, then the i++ of the loop.
Restart == i - checked_count + 1

InLoop == i < Len(file) - min_size + 1

\* One character; i counts from 0.
Search ==
  /\ pc = "search" /\ InLoop
  /\ \/ /\ file[i + 1] # Sign[checked_count + 1]
        /\ i' = Restart /\ checked_count' = 0 /\ UNCHANGED <<pc, checksum_loc>>
     \/ /\ file[i + 1] = Sign[checked_count + 1]
        /\ checked_count' = checked_count + 1
        /\ IF checked_count + 1 = Len(Sign)
           THEN checksum_loc' = i + 1 /\ pc' = "patch" /\ UNCHANGED i
           ELSE i' = i + 1 /\ UNCHANGED <<pc, checksum_loc>>
  /\ UNCHANGED <<argv, n, reset, file, orig, given>>

NotFound ==
  /\ pc = "search" /\ ~InLoop /\ pc' = "failure"
  /\ UNCHANGED <<argv, n, reset, file, orig, i, checked_count, checksum_loc, given>>

Patched ==
  [j \in DOMAIN file |-> IF j - checksum_loc \in 1 .. HashLen
                         THEN IF reset THEN 0 ELSE argv[2].chars[j - checksum_loc] ELSE file[j]]

\* The whole file is written back; a failing fwrite may have written a part.
Patch ==
  /\ pc = "patch"
  /\ \/ file' = Patched /\ pc' = "success"
     \/ /\ pc' = "failure"
        /\ \E k \in 0 .. Len(file) - 1 : file' = SubSeq(Patched, 1, k) \o SubSeq(file, k + 1, Len(file))
  /\ UNCHANGED <<argv, n, reset, orig, i, checked_count, checksum_loc, given>>

Init ==
  /\ \E x \in Inputs : given = x[1] /\ orig = x[2]
  /\ pc = "args" /\ argv = given /\ n = 1 /\ reset = FALSE /\ file = orig
  /\ i = 0 /\ checked_count = 0 /\ checksum_loc = 0

Next == ParseArg \/ Open \/ Search \/ NotFound \/ Patch

Spec == Init /\ [][Next]_vars /\ WF_vars(Next)
-----------------------------------------------------------------------------
Occurs(p) == p + Len(Sign) <= Len(orig) /\ \A j \in 1 .. Len(Sign) : orig[p + j] = Sign[j]
LastStart == Len(orig) - min_size + 1 - Len(Sign)   \* the last start the loop can complete

\* The options may stand anywhere: what is left of argv is the other arguments
\* in their order (remove_arg, limine.c:39-47).
OptionsRemoved ==
  pc \notin {"args", "success"} \/ checksum_loc # 0 =>
    \E f \in [1 .. Len(argv) -> 1 .. Len(given)] :
      /\ \A j, k \in 1 .. Len(argv) : j < k => f[j] < f[k]
      /\ \A j \in 1 .. Len(argv) : argv[j] = given[f[j]]
      /\ \A k \in 1 .. Len(given) :
           given[k].text \notin Options <=> \E j \in 1 .. Len(argv) : f[j] = k

\* The search finds the first occurrence, also one that begins inside a failed
\* match, and gives up only where the bound of the loop leaves no occurrence
\* (limine.c:1332-1350).
FirstOccurrence ==
  /\ checksum_loc # 0 => /\ Occurs(checksum_loc - Len(Sign))
                         /\ \A p \in 0 .. checksum_loc - Len(Sign) - 1 : ~Occurs(p)
  /\ pc = "search" /\ ~InLoop => \A p \in 0 .. LastStart : ~Occurs(p)

\* Whatever fails, no byte outside the checksum changes; success means that all
\* of the checksum is in place.
OnlyChecksum ==
  /\ \A j \in DOMAIN file : file[j] # orig[j] => j - checksum_loc \in 1 .. HashLen
  /\ pc = "success" /\ checksum_loc # 0 =>
       \A j \in 1 .. HashLen : file[checksum_loc + j] = IF reset THEN 0 ELSE argv[2].chars[j]

\* What enroll_config changes of its arguments and of the executable, and where.
ChecksumPlaced == OptionsRemoved /\ FirstOccurrence /\ OnlyChecksum
=============================================================================
