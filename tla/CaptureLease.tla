---------------------------- MODULE CaptureLease ----------------------------
(***************************************************************************)
(* The single lease of the capture runtime.  A run that reconciles the     *)
(* knowledge base and a probe of the page's health each work under it, in  *)
(* processes of their own.  A run renews the lease at its checkpoints, a   *)
(* probe never does; who finds it stale or past its deadline takes it,     *)
(* while the former owner may still be at work.                            *)
(*                                                                         *)
(*   lease   the row of `active_lease`                                     *)
(*   run     status of the rows of `runs`, numbered by `seq`               *)
(*   obs     rows of `health_observations`, in the order of `seq`          *)
(*   open    `health_episodes` that are open                               *)
(*   outbox  rows of `scraper_outbox`, one for each episode to be told     *)
(*   proc    the processes in ZsxqScraperModule.run and .health            *)
(*                                                                         *)
(* Each transaction is one action.  A caller reads its clock some time     *)
(* after its last step and before the transaction gets the write lock.     *)
(***************************************************************************)
EXTENDS Integers, Sequences, FiniteSets

CONSTANTS
  Procs, Nobody,
  StaleAfter,    \* stale_after_seconds of a heartbeat
  RunBudgets,    \* deadline_seconds of a run
  ProbeBudgets,  \* deadline_seconds of a probe
  Outcomes,      \* how a run may end before its deadline
  Lag,           \* bound: how long a caller waits for the write lock
  MaxRuns, MaxObs, MaxTime, MaxFaults   \* bounds

ASSUME LeaseAssumption ==
  /\ Nobody \notin Procs
  /\ Outcomes \subseteq {"succeeded", "no_change", "failed"}
  /\ RunBudgets \union ProbeBudgets \subseteq Nat \ {0}
  /\ {StaleAfter, Lag, MaxRuns, MaxObs, MaxTime, MaxFaults} \subseteq Nat

VARIABLES now, lease, run, obs, open, outbox, proc, faults

health == <<obs, open, outbox>>
vars   == <<now, lease, run, health, proc, faults>>

Runs == 1..MaxRuns
None == 0

PageStates == {"ready", "requires_user", "other"}

\* owner_token is a uuid that only the call that acquired the lease knows:
\* the process stands for it while that call lasts.
LeaseRows == [kind : {"none", "run", "probe"}, run : Runs \union {None},
              owner : Procs \union {Nobody}, beat : Nat, deadline : Nat]
NoLease == [kind |-> "none", run |-> None, owner |-> Nobody, beat |-> 0,
            deadline |-> 0]

Statuses == {"absent", "running", "interrupted", "deadline_exceeded"}
              \union Outcomes

\* episode is the observation that opened the episode a row is linked to.
ObsRows == [state : PageStates, at : Nat, episode : Nat]

\* deadline is that of a run; since is when a call last took a step (0: before
\* its first).
Callers == [pc : {"idle", "working", "probing", "release"},
            run : Runs \union {None}, deadline : Nat, since : Nat]

TypeOK ==
  /\ now \in 0..MaxTime /\ faults \in 0..MaxFaults
  /\ lease \in LeaseRows /\ run \in [Runs -> Statuses]
  /\ obs \in Seq(ObsRows) /\ Len(obs) <= MaxObs
  /\ open \subseteq DOMAIN obs /\ outbox \subseteq DOMAIN obs
  /\ proc \in [Procs -> Callers]
  /\ lease.kind = "run" <=> lease.run # None
  /\ lease.kind = "none" <=> lease.owner = Nobody

Init ==
  /\ now = 0 /\ faults = 0
  /\ lease = NoLease
  /\ run = [r \in Runs |-> "absent"]
  /\ obs = << >> /\ open = {} /\ outbox = {}
  /\ proc = [p \in Procs |->
       [pc |-> "idle", run |-> None, deadline |-> 0, since |-> 0]]

\* What a process may have read from its clock.
Clocks(p) == {t \in proc[p].since..now : now <= t + Lag}

Goto(p, label) ==
  proc' = [proc EXCEPT ![p].pc = label, ![p].since = now]

Return(p) ==
  proc' = [proc EXCEPT ![p] =
    [pc |-> "idle", run |-> None, deadline |-> 0, since |-> 0]]

-----------------------------------------------------------------------------
(* Taking the lease *)

\* Its owner renewed it lately and is within its deadline.
Fresh(t) ==
  /\ lease.kind # "none"
  /\ lease.beat + StaleAfter >= t /\ t < lease.deadline

\* Defect: the lease is taken over, its run is not marked.
ReclaimedNot == run

\* _reclaim_stale_run: the run of a lease that is taken over, unless it was a
\* probe's.
Reclaimed ==
  IF lease.kind = "run"
    THEN [run EXCEPT ![lease.run] = "interrupted"]
    ELSE run

\* Without this _reclaim_stale_run raises, and nothing is written.
Reclaimable == lease.kind = "run" => run[lease.run] = "running"

NextRun == Cardinality({r \in Runs : run[r] # "absent"}) + 1

\* acquire_or_coalesce.  Who finds a fresh lease returns at once: no step.
AcquireRun(p, t, budget) ==
  LET r == NextRun IN
  /\ proc[p].pc = "idle" /\ r \in Runs
  /\ ~Fresh(t) /\ Reclaimable
  /\ run' = [Reclaimed EXCEPT ![r] = "running"]
  /\ lease' = [kind |-> "run", run |-> r, owner |-> p, beat |-> t,
               deadline |-> t + budget]
  /\ proc' = [proc EXCEPT ![p] =
       [pc |-> "working", run |-> r, deadline |-> t + budget, since |-> now]]
  /\ UNCHANGED <<now, health, faults>>

\* acquire_probe_lease: no run of its own.
AcquireProbe(p, t, budget) ==
  /\ proc[p].pc = "idle"
  /\ ~Fresh(t) /\ Reclaimable
  /\ run' = Reclaimed
  /\ lease' = [kind |-> "probe", run |-> None, owner |-> p, beat |-> t,
               deadline |-> t + budget]
  /\ proc' = [proc EXCEPT ![p] =
       [pc |-> "probing", run |-> None, deadline |-> 0, since |-> now]]
  /\ UNCHANGED <<now, health, faults>>

-----------------------------------------------------------------------------
(* A run *)

\* Defect: a run is taken for the owner of whatever run lease there is.
OwnsAnyRun(p) == lease.kind = "run"

\* _owned_deadline_at
OwnsRun(p) == lease.run = proc[p].run /\ lease.owner = p

\* _make_checkpoint and heartbeat.  A fenced owner stops here.
Checkpoint(p, t) ==
  /\ proc[p].pc = "working" /\ t < proc[p].deadline
  /\ \/ /\ OwnsRun(p)
        /\ lease' = [lease EXCEPT !.beat = t] /\ Goto(p, "working")
     \/ /\ ~OwnsRun(p)
        /\ Return(p) /\ UNCHANGED lease
  /\ UNCHANGED <<now, run, health, faults>>

\* Defect: the run is ended, and its lease is left to be released later.
EndRunKeepingLease(p, t, outcome) ==
  /\ proc[p].pc = "working" /\ OwnsRun(p) /\ Return(p)
  /\ run' = [run EXCEPT ![proc[p].run] = outcome]
  /\ UNCHANGED <<now, lease, health, faults>>

\* The adapter returns, fails, or is stopped by a checkpoint at the deadline:
\* _terminal_status, _finalize and finish_run, all with one reading of the
\* clock.  A fenced owner writes nothing.
EndRun(p, t, outcome) ==
  LET status == IF t >= proc[p].deadline THEN "deadline_exceeded" ELSE outcome
  IN
  /\ proc[p].pc = "working" /\ Return(p)
  /\ \/ /\ OwnsRun(p)
        /\ run' = [run EXCEPT ![proc[p].run] = status]
        /\ lease' = NoLease
     \/ /\ ~OwnsRun(p)
        /\ UNCHANGED <<run, lease>>
  /\ UNCHANGED <<now, health, faults>>

-----------------------------------------------------------------------------
(* A probe *)

\* Defect: a probe is taken for the owner of whatever probe lease there is.
OwnsAnyProbe(p) == lease.kind = "probe"

OwnsProbe(p) == lease.kind = "probe" /\ lease.owner = p

\* record_probe_observation: a page that needs the user opens an episode and
\* a row of the outbox, or joins the episode that is open; a ready page closes
\* it; any other state is only observed.  Past the lease nothing is written.
RecordObservation(p, t, state) ==
  LET no      == Len(obs) + 1
      episode == CASE state = "other" -> None
                   [] state # "other" /\ open # {} -> CHOOSE e \in open : TRUE
                   [] state = "requires_user" /\ open = {} -> no
                   [] state = "ready" /\ open = {} -> None
  IN
  /\ proc[p].pc = "probing" /\ Goto(p, "release")
  /\ \/ /\ OwnsProbe(p) /\ t < lease.deadline /\ no <= MaxObs
        /\ obs' = Append(obs, [state |-> state, at |-> t, episode |-> episode])
        /\ open' = CASE state = "ready"         -> {}
                     [] state = "requires_user" -> {episode}
                     [] OTHER                   -> open
        /\ outbox' = IF episode = no THEN outbox \union {no} ELSE outbox
     \/ /\ ~OwnsProbe(p) \/ t >= lease.deadline
        /\ UNCHANGED health
  /\ UNCHANGED <<now, lease, run, faults>>

\* Defect: the lease is marked free, its owner is left in it.
ReleaseProbeKeepingOwner(p) ==
  /\ proc[p].pc \in {"probing", "release"} /\ Return(p)
  /\ lease' = IF OwnsProbe(p) THEN [lease EXCEPT !.kind = "none"] ELSE lease
  /\ UNCHANGED <<now, run, health, faults>>

\* release_probe_lease, also when the page could not be assessed.
ReleaseProbe(p) ==
  /\ proc[p].pc \in {"probing", "release"} /\ Return(p)
  /\ lease' = IF OwnsProbe(p) THEN NoLease ELSE lease
  /\ UNCHANGED <<now, run, health, faults>>

-----------------------------------------------------------------------------

\* The process dies, or a transaction that should end its run fails.
Crash(p) ==
  /\ proc[p].pc # "idle" /\ faults < MaxFaults /\ faults' = faults + 1
  /\ Return(p) /\ UNCHANGED <<now, lease, run, health>>

Tick == /\ now < MaxTime /\ now' = now + 1
        /\ UNCHANGED <<lease, run, health, proc, faults>>

Acquire ==
  \E p \in Procs : \E t \in Clocks(p) :
    \/ \E b \in RunBudgets : AcquireRun(p, t, b)
    \/ \E b \in ProbeBudgets : AcquireProbe(p, t, b)

Work(p) ==
  \/ \E t \in Clocks(p) :
       \/ Checkpoint(p, t)
       \/ \E outcome \in Outcomes : EndRun(p, t, outcome)
       \/ \E state \in PageStates : RecordObservation(p, t, state)
  \/ ReleaseProbe(p) \/ Crash(p)

Next == Acquire \/ (\E p \in Procs : Work(p)) \/ Tick

Spec == Init /\ [][Next]_vars

\* Time passes, triggers keep coming, and a process that works goes on or
\* dies: the adapter's waits are bounded.
FairSpec ==
  Spec /\ WF_vars(Tick) /\ WF_vars(Acquire) /\ \A p \in Procs : WF_vars(Work(p))

-----------------------------------------------------------------------------
(* Properties *)

\* The run that is running is the one that owns the lease, whoever took the
\* lease from whom (acquire_or_coalesce, acquire_probe_lease, finish_run).
RunningIsLeased ==
  {r \in Runs : run[r] = "running"} = {lease.run} \ {None}

\* The row that _health_read takes for the latest observation, by observed_at
\* and seq, is the last one written, although each process read its clock
\* before it waited for the lock; an episode is open exactly when the last
\* page that was ready or needed the user needed the user, and each episode
\* was told once.
HealthIsLatest ==
  LET deciding == {i \in DOMAIN obs : obs[i].state # "other"}
      lastly   == {i \in deciding : \A j \in deciding : j <= i}
  IN
  /\ \A i, j \in DOMAIN obs : i < j => obs[i].at <= obs[j].at
  /\ open = {obs[i].episode : i \in {i \in lastly : obs[i].state = "requires_user"}}
  /\ outbox = {obs[i].episode : i \in DOMAIN obs} \ {None}

\* A run ends once, whoever ends it: an owner that was fenced while it worked
\* changes neither the interrupted run nor the lease of its successor.
RunEndsOnce ==
  [][\A r \in Runs : run[r] \notin {"absent", "running"} =>
       run'[r] = run[r]]_vars

\* A lease that its owner no longer renews is released or taken over: no
\* order of steps and no crash leaves one behind that nobody can take.
LeaseIsFreed ==
  \A b \in 0..MaxTime : b + StaleAfter < MaxTime =>
    (lease # NoLease /\ lease.beat = b ~> lease = NoLease \/ lease.beat # b)

=============================================================================
