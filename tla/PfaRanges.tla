----------------------------- MODULE PfaRanges -----------------------------
(***************************************************************************)
(* The multi-frame interface of kernel/arch/x86_64/pfa.c, kalloc_frames    *)
(* and kfree_frames, beside the single-frame interface of Pfa on the same  *)
(* bitmap.                                                                 *)
(*                                                                         *)
(* A word of the bitmap is the set of its one bits.  The masks are built   *)
(* with the widths the code gives them: 1U has the width of a word, ~0UL   *)
(* and ~0ULL twice that, cut to a word on assignment.                      *)
(***************************************************************************)
EXTENDS Pfa

CONSTANTS MaxRun,   \* the longest run of frames a client asks for
          MaxRuns,  \* bound: runs held at a time
          MaxHeld   \* bound: single frames held at a time
ASSUME BoundsAssumption == MaxRun \in Nat \ {0} /\ MaxRuns \in Nat /\ MaxHeld \in Nat

VARIABLE runs     \* [start, frames] of the runs handed out and not freed (the
                  \* clients' view)

rvars == <<mmap, npages, bitmap, pre_frames, pframe, allocate, filling, i, held, runs>>

Run == [start : Frames, frames : 1..MaxRun]

FramesOf(r) == r.start..(r.start + r.frames - 1)

RunFrames == UNION {FramesOf(r) : r \in runs}
-----------------------------------------------------------------------------
WordBits == 0..W-1

Word(bits, k) == {b \in WordBits : k * W + b \in bits}

\* Bits from s_bit up, and bits below e_bit, in a word: ~((1U << s) - 1) and
\* (1U << e) - 1.
FromBit(s_bit) == {b \in WordBits : s_bit <= b}
BelowBit(e_bit) == {b \in WordBits : b < e_bit}

\* Mutant of test_range: the end word is not looked at.
TestRangeSkipsEnd(bits, start, end, s_bit, e_bit) ==
  IF start = end
  THEN Word(bits, start) \cap (FromBit(s_bit) \cap BelowBit(e_bit)) = {}
  ELSE /\ Word(bits, start) \cap FromBit(s_bit) = {}
       /\ \A k \in start+1..end-1 : Word(bits, k) = {}

test_range(bits, start, end, s_bit, e_bit) ==
  IF start = end
  THEN Word(bits, start) \cap (FromBit(s_bit) \cap BelowBit(e_bit)) = {}
  ELSE /\ Word(bits, start) \cap FromBit(s_bit) = {}
       /\ \A k \in start+1..end-1 : Word(bits, k) = {}
       /\ Word(bits, end) \cap BelowBit(e_bit) = {}

\* ~0UL << n and ~0UL >> n, 2W bits wide, and the assignment to a uint32_t.
OnesLeft(n) == n..(2*W - 1)
OnesRight(n) == 0..(2*W - 1 - n)
ToWord(ones) == ones \cap WordBits

\* Mutant of RangeMask: the first word's mask starts one bit late.
RangeMaskSkipsFirst(start, end) ==
  LET start_word == start \div W
      end_word == end \div W
      first == ToWord(OnesLeft((start % W) + 1))
      last == ToWord(OnesRight(W - 1 - (end % W)))
      In(k, bits) == {k * W + b : b \in bits}
  IN  IF start > end THEN {}
      ELSE IF start_word = end_word THEN In(start_word, first \cap last)
      ELSE In(start_word, first)
             \cup ((start_word + 1) * W .. end_word * W - 1)
             \cup In(end_word, last)

\* The bits that set_range and clear_range change, as indices of the bitmap.
RangeMask(start, end) ==
  LET start_word == start \div W
      end_word == end \div W
      first == ToWord(OnesLeft(start % W))
      last == ToWord(OnesRight(W - 1 - (end % W)))
      In(k, bits) == {k * W + b : b \in bits}
  IN  IF start > end THEN {}
      ELSE IF start_word = end_word THEN In(start_word, first \cap last)
      ELSE In(start_word, first)
             \cup ((start_word + 1) * W .. end_word * W - 1)
             \cup In(end_word, last)

\* Writes past the last word of the bitmap change other memory, which Past
\* below lets hold anything.
set_range(start, end) == bitmap' = bitmap \cup (RangeMask(start, end) \cap Tracked)
clear_range(start, end) == bitmap' = bitmap \ RangeMask(start, end)

\* Where kalloc_frames tests a run of n frames: word and bit k, up to the bit
\* (frames - (32 - j)) % 32 of the word frames >> 5 further on.
Tests(bits, k, n) ==
  /\ Word(bits, k \div W) # WordBits
  /\ test_range(bits, k \div W, k \div W + n \div W, k % W, (n + (k % W)) % W)

\* What the words after the bitmap may hold: test_range reads them when a run
\* reaches past the last word.
Past(n) == SUBSET (W * Words .. W * (Words + n \div W) - 1)

\* The first place that passes the test is marked and returned.  With none the
\* call returns NULL and changes nothing.
kalloc_frames(n) ==
  /\ ~filling /\ Cardinality(runs) < MaxRuns
  /\ \E past \in Past(n) :
       LET Fits == {k \in Tracked : Tests(bitmap \cup past, k, n)}
       IN  /\ Fits # {}
           /\ LET s_idx == CHOOSE k \in Fits : \A l \in Fits : k <= l
              IN  /\ set_range(s_idx, s_idx + n)
                  /\ runs' = runs \cup {[start |-> s_idx, frames |-> n]}
  /\ UNCHANGED <<mmap, npages, pre_frames, pframe, allocate, filling, i, held>>

\* A client gives back a run it holds.
kfree_frames(r) ==
  /\ ~filling /\ r \in runs
  /\ clear_range(r.start, r.start + r.frames)
  /\ runs' = runs \ {r}
  /\ UNCHANGED <<mmap, npages, pre_frames, pframe, allocate, filling, i, held>>

RInit == Init /\ runs = {}

RNext == \/ (filling \/ Cardinality(held) < MaxHeld) /\ kalloc_frame /\ UNCHANGED runs
         \/ \E f \in held : kfree_frame(f) /\ UNCHANGED runs
         \/ \E n \in 1..MaxRun : kalloc_frames(n)
         \/ \E r \in runs : kfree_frames(r)

RSpec == RInit /\ [][RNext]_rvars
-----------------------------------------------------------------------------
(***************************************************************************)
(* Properties                                                              *)
(***************************************************************************)
\* A run that kalloc_frames returns is marked in the bitmap to its last frame,
\* so that no later kalloc_frame finds one of its frames.
RunsAreMarked ==
  [][\A r \in runs' \ runs : FramesOf(r) \cap Tracked \subseteq bitmap']_rvars

\* Where the run neither ends with its word nor crosses one more word boundary
\* than frames >> 5, test_range looked at each of its frames: they were clear.
InWordRunsWereClear ==
  [][\A r \in runs' \ runs :
       (r.start % W) + (r.frames % W) < W => FramesOf(r) \cap bitmap = {}]_rvars

\* A run that kalloc_frames returns holds no frame that is already in use.
RunsWereClear ==
  [][\A r \in runs' \ runs : FramesOf(r) \cap bitmap = {}]_rvars
=============================================================================
