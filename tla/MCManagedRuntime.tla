--------------------------- MODULE MCManagedRuntime ---------------------------
(* Small instances of ManagedRuntime for TLC. *)
EXTENDS ManagedRuntime

CONSTANTS s1, s2, t1, t2, t3
=============================================================================
