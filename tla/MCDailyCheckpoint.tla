-------------------------- MODULE MCDailyCheckpoint --------------------------
(* Small days for TLC.  The unit of time is left open: only the order of the *)
(* instants matters, and it is that of the real schedule (prepare lead 5 or  *)
(* 10 minutes, window 15, limits 35 and 40 minutes, claims 6 hours).         *)
EXTENDS DailyCheckpoint, TLC

CONSTANTS c1, c2, w1, w2, w3

\* 10:00 and 14:20: the runs of one checkpoint end before the next begins.
Apart == [prepare |-> (c1 :> 0 @@ c2 :> 6), target |-> (c1 :> 1 @@ c2 :> 7)]

\* One checkpoint.
Single == [prepare |-> (c1 :> 0), target |-> (c1 :> 1)]

ApartPrepare == Apart.prepare
ApartTarget  == Apart.target
SinglePrepare == Single.prepare
SingleTarget  == Single.target

\* The schedule of the code, in minutes: daily_workspace_schedule.py for the
\* times, render_daily_workspace_services.py for the limits of the units and
\* semantic_state.py for the life of a claim.
RealTarget == [premarket |-> 560, morning_1000 |-> 600,
               close_1420 |-> 860, postmarket |-> 930]
RealLead   == [premarket |-> 10, morning_1000 |-> 5,
               close_1420 |-> 10, postmarket |-> 5]

Real == INSTANCE DailyCheckpoint WITH
          Checkpoints <- DOMAIN RealTarget, TargetAt <- RealTarget,
          PrepareAt <- [c \in DOMAIN RealTarget |-> RealTarget[c] - RealLead[c]],
          Window <- 15, PrepareLimit <- 35, DeliverLimit <- 40, Ttl <- 360,
          Prompt <- TRUE

\* What the theorems on claims, products and results require of a schedule is
\* so for the code's, and for those of the instances.
ASSUME ScheduleAssumption ==
  /\ Real!ClaimsOutliveRuns /\ Real!CheckpointsApart
  /\ ClaimsOutliveRuns /\ CheckpointsApart

HandSymmetry == Permutations(Workers \ Scheduled)
==============================================================================
