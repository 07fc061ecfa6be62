----------------------------- MODULE MCExecution -----------------------------
(* Small instances of Execution for TLC. *)
EXTENDS Execution, TLC

CONSTANTS i1, i2, i3, capped, open, none

MCCommandLimit == [c \in {capped} |-> 1]
Symmetry == Permutations({i1, i2, i3})
=============================================================================
