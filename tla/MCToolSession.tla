--------------------------- MODULE MCToolSession ---------------------------
(* Instances of ToolSession for TLC.                                       *)
EXTENDS ToolSession, TLC

CONSTANTS c1, c2, c3

CallSymmetry == Permutations(Calls)
=============================================================================
