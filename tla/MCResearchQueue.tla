-------------------------- MODULE MCResearchQueue --------------------------
(***************************************************************************)
(* TLC instances of ResearchQueue.  Threads w1 and w2 pass the same        *)
(* worker_id: a worker that was restarted while its predecessor still runs.*)
(***************************************************************************)
EXTENDS ResearchQueue

CONSTANTS c1, c2, k1, k2, w1, w2

MCChains == {c1, c2}
MCKeys == {k1, k2}
MCThreads == {w1, w2}
SameName == [t \in MCThreads |-> 1]
=============================================================================
