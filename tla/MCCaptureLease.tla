--------------------------- MODULE MCCaptureLease ---------------------------
(* TLC instance of CaptureLease. *)
EXTENDS CaptureLease

CONSTANTS p1, p2
=============================================================================
