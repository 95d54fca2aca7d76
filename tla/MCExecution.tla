---------------------------- MODULE MCExecution -----------------------------
(* Small instances of Execution for TLC.                                   *)
EXTENDS Execution

CONSTANTS c1, c2

MCTwo == {c1, c2}
MCFirst == {c1}
MCSecond == {c2}
MCNone == {}
=============================================================================
