------------------------------- MODULE MCTap -------------------------------
(* Every query of the tap tool, on both platforms.                         *)
EXTENDS Tap

AllAsks == {q \in Queries : q.kind \in {"nothing", "native", "coordinate"}
                              => q.strategy = "auto" /\ ~q.indexed}
=============================================================================
