-------------------------- MODULE MCDailyDelivery --------------------------
(* TLC instances of DailyDelivery. *)
EXTENDS DailyDelivery

CONSTANTS w1, w2, t1, t2, t3
=============================================================================
