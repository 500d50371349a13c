---------------------------- MODULE DecidedOnce ----------------------------
(***************************************************************************)
(* What the research queue promises about a job, with no leases, clocks or *)
(* chains: it is decided at most once, and announced at most once, and not *)
(* before it is decided.                                                   *)
(***************************************************************************)
EXTENDS Naturals

CONSTANTS
  Jobs,     \* the jobs that may be admitted
  Results   \* how a job may end

VARIABLES
  decided,   \* decided[j]: the results j has been given
  announced  \* announced[j]: how often a result of j was announced

Init ==
  /\ decided = [j \in Jobs |-> {}]
  /\ announced = [j \in Jobs |-> 0]

\* One transaction may decide and announce several jobs.
Decide(j) == decided[j] = {} /\ \E r \in decided'[j] \intersect Results :
                                  decided'[j] = {r}

Announce(j) == announced[j] = 0 /\ announced'[j] = 1 /\ decided'[j] # {}

Next == \A j \in Jobs : /\ Decide(j) \/ decided'[j] = decided[j]
                        /\ Announce(j) \/ announced'[j] = announced[j]

Spec == Init /\ [][Next]_<<decided, announced>>
=============================================================================
