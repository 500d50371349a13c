------------------------ MODULE MCAdjudicationInbox ------------------------
(* TLC instance of AdjudicationInbox. *)
EXTENDS AdjudicationInbox

CONSTANTS i1, m1, w1, p1
=============================================================================
