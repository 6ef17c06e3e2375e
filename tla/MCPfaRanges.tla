----------------------------- MODULE MCPfaRanges -----------------------------
(* One small memory map for PfaRanges: three bitmap words of 3 bits, with *)
(* a reserved page at the end of the second.                              *)
EXTENDS PfaRanges

U(b, n) == [usable |-> TRUE, base |-> b, length |-> n]
R(b, n) == [usable |-> FALSE, base |-> b, length |-> n]

MCMemMaps == { <<U(0, 5), R(5, 1), U(6, 3)>> }
=============================================================================
