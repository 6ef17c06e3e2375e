-------------------------------- MODULE MCPfa --------------------------------
(* Small memory maps for Pfa: bitmap words of 4 bits, batches of 3 frames. *)
EXTENDS Pfa

U(b, n) == [usable |-> TRUE, base |-> b, length |-> n]
R(b, n) == [usable |-> FALSE, base |-> b, length |-> n]

\* Usable memory from page 0, then a hole; the bitmap fits in the first entry.
\* A first entry, with page 0, too short for the bitmap.  Memory ending inside
\* a word, below a reserved entry.  Less memory than one batch.
MCMemMaps == { <<U(0, 5), R(5, 1), U(6, 4)>>,
               <<U(0, 2), R(2, 1), U(3, 6), R(9, 2), U(11, 2)>>,
               <<R(0, 1), U(1, 6), R(7, 4)>>,
               <<U(0, 4)>> }

\* Memory that reaches past what an unsigned int can address (UintPages = 16).
MCLargeMemMaps == { <<U(0, 6), U(7, 11)>> }
=============================================================================
