-------------------------- MODULE MCCaptureIngest --------------------------
(* TLC instance of CaptureIngest. *)
EXTENDS CaptureIngest

CONSTANTS a1, l1, l2
=============================================================================
