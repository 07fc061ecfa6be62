------------------------------ MODULE MCResponse ------------------------------
(* Small instances of Response for TLC. *)
EXTENDS Response

CONSTANTS c1, c2
=============================================================================
