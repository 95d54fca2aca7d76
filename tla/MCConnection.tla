---------------------------- MODULE MCConnection ----------------------------
(* Instances of Connection for TLC. *)
EXTENDS Connection, TLC

CONSTANTS k1, k2, dev

OneDevice == [k \in Keys |-> dev]
OwnDevice == [k \in Keys |-> k]

CallSymmetry == Permutations(Calls)
PairSymmetry == Permutations(Calls) \cup Permutations(Keys)
=============================================================================
