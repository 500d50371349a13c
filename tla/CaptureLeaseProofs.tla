------------------------- MODULE CaptureLeaseProofs -------------------------
(***************************************************************************)
(* Proofs about CaptureLease for any number of processes, runs and         *)
(* observations, any budgets, any staleness and any clock lag.  The first  *)
(* invariant is about who owns what: a running run and the lease name each *)
(* other, and runs are numbered without gaps, so that a new one is new.    *)
(* The second is about time: a probe that owns the lease began after every *)
(* observation was made, so what it reads from its clock is not older.     *)
(***************************************************************************)
EXTENDS CaptureLease, FiniteSetTheorems, SequenceTheorems, TLAPS

\* The runs that were started are the first ones.
Numbered == \E k \in Nat : {r \in Runs : run[r] # "absent"} = 1..k

WorkersHaveRuns == \A p \in Procs : proc[p].pc = "working" => proc[p].run # None

LInv == TypeOK /\ Numbered /\ WorkersHaveRuns /\ RunningIsLeased

-----------------------------------------------------------------------------
(* What the steps are built from *)

LEMMA ConstantFacts ==
  /\ MaxRuns \in Nat /\ MaxObs \in Nat /\ MaxTime \in Nat /\ MaxFaults \in Nat
  /\ StaleAfter \in Nat /\ RunBudgets \subseteq Nat /\ ProbeBudgets \subseteq Nat
  /\ Runs = 1..MaxRuns /\ Runs \subseteq Nat /\ None \notin Runs
  BY LeaseAssumption DEF Runs, None

LEMMA ClockFacts ==
  ASSUME TypeOK, NEW p \in Procs, NEW t \in Clocks(p)
  PROVE  t \in Nat /\ t <= now /\ proc[p].since \in Nat /\ proc[p].since <= t
<1>1. now \in Nat /\ proc[p].since \in Nat
  BY ConstantFacts DEF TypeOK, Callers
<1> QED
  BY <1>1 DEF Clocks

LEMMA GotoType ==
  ASSUME TypeOK, NEW p \in Procs, NEW l \in {"idle", "working", "probing", "release"},
         Goto(p, l)
  PROVE  /\ proc' \in [Procs -> Callers]
         /\ proc'[p] = [proc[p] EXCEPT !.pc = l, !.since = now]
         /\ \A q \in Procs : q # p => proc'[q] = proc[q]
<1>1. now \in Nat
  BY ConstantFacts DEF TypeOK
<1> QED
  BY <1>1 DEF TypeOK, Goto, Callers

LEMMA ReturnType ==
  ASSUME TypeOK, NEW p \in Procs, Return(p)
  PROVE  /\ proc' \in [Procs -> Callers] /\ proc'[p].pc = "idle"
         /\ \A q \in Procs : q # p => proc'[q] = proc[q]
  BY DEF TypeOK, Return, Callers

LEMMA ReclaimedFacts ==
  ASSUME LInv, Reclaimable
  PROVE  /\ Reclaimed \in [Runs -> Statuses]
         /\ \A r \in Runs : Reclaimed[r] # "running"
         /\ \A r \in Runs : Reclaimed[r] = "absent" <=> run[r] = "absent"
         /\ \A r \in Runs : run[r] # "running" => Reclaimed[r] = run[r]
<1>1. lease.run \in Runs \union {None} /\ (lease.kind = "run" <=> lease.run # None)
  BY DEF LInv, TypeOK, LeaseRows
<1>2. {r \in Runs : run[r] = "running"} = {lease.run} \ {None}
  BY DEF LInv, RunningIsLeased
<1>3. run \in [Runs -> Statuses] /\ "interrupted" \in Statuses
  BY DEF LInv, TypeOK, Statuses
<1>4. CASE lease.kind = "run"
  BY <1>1, <1>2, <1>3, <1>4 DEF Reclaimed, Reclaimable
<1>5. CASE lease.kind # "run"
  BY <1>1, <1>2, <1>3, <1>5 DEF Reclaimed
<1> QED
  BY <1>4, <1>5

\* The number a new run gets is that of no run before it.
LEMMA NextRunIsNew ==
  ASSUME LInv, NEW k \in Nat, {r \in Runs : run[r] # "absent"} = 1..k
  PROVE  NextRun = k + 1 /\ (NextRun \in Runs => run[NextRun] = "absent")
<1>1. Cardinality(1..k) = k
  BY FS_Interval
<1>2. NextRun = k + 1
  BY <1>1 DEF NextRun
<1>3. k + 1 \notin 1..k
  OBVIOUS
<1> QED
  BY <1>2, <1>3

-----------------------------------------------------------------------------
(* Who owns what *)

LEMMA InitLInv == Init => LInv
<1> SUFFICES ASSUME Init PROVE LInv
  OBVIOUS
<1>1. TypeOK
  BY ConstantFacts DEF Init, TypeOK, LeaseRows, NoLease, Statuses, Callers, ObsRows, None
<1>2. Numbered
  <2>1. {r \in Runs : run[r] # "absent"} = 1..0
    BY DEF Init
  <2> QED
    BY <2>1 DEF Numbered
<1>3. WorkersHaveRuns /\ RunningIsLeased
  BY DEF Init, WorkersHaveRuns, RunningIsLeased, NoLease
<1> QED
  BY <1>1, <1>2, <1>3 DEF LInv

\* The types of the health records, which most steps leave alone.
HealthTypes ==
  /\ obs \in Seq(ObsRows) /\ Len(obs) <= MaxObs
  /\ open \subseteq DOMAIN obs /\ outbox \subseteq DOMAIN obs

LEMMA HealthTypesKept ==
  ASSUME TypeOK, UNCHANGED health
  PROVE  HealthTypes'
  BY DEF TypeOK, health, HealthTypes

\* A step that starts and ends no run, and leaves the run in the lease.
LEMMA SameRunsStep ==
  ASSUME LInv, HealthTypes', now' \in 0..MaxTime, faults' \in 0..MaxFaults,
         run' = run, lease' \in LeaseRows, lease'.run = lease.run,
         lease'.kind = "run" <=> lease'.run # None,
         lease'.kind = "none" <=> lease'.owner = Nobody,
         proc' \in [Procs -> Callers],
         \A p \in Procs : proc'[p].pc = "working" =>
           proc[p].pc = "working" /\ proc'[p].run = proc[p].run
  PROVE  LInv'
<1>1. TypeOK'
  BY DEF LInv, TypeOK, HealthTypes
<1>2. Numbered' /\ WorkersHaveRuns' /\ RunningIsLeased'
  BY DEF LInv, Numbered, WorkersHaveRuns, RunningIsLeased
<1> QED
  BY <1>1, <1>2 DEF LInv

LEMMA AcquireRunStep ==
  ASSUME LInv, NEW p \in Procs, NEW t \in Clocks(p), NEW b \in RunBudgets,
         AcquireRun(p, t, b)
  PROVE  LInv'
<1> DEFINE r == NextRun
<1>1. r \in Runs /\ run[r] = "absent" /\ t \in Nat /\ b \in Nat /\ now \in Nat
  <2>1. PICK k \in Nat : {q \in Runs : run[q] # "absent"} = 1..k
    BY DEF LInv, Numbered
  <2>2. r \in Runs /\ run[r] = "absent"
    BY <2>1, NextRunIsNew DEF AcquireRun
  <2> QED
    BY <2>2, ClockFacts, ConstantFacts DEF LInv, TypeOK
<1>2. run' = [Reclaimed EXCEPT ![r] = "running"] /\ Reclaimable
  BY DEF AcquireRun
<1>3. TypeOK'
  <2>1. run' \in [Runs -> Statuses]
    BY <1>1, <1>2, ReclaimedFacts DEF Statuses
  <2>2. lease' \in LeaseRows /\ lease'.kind = "run" /\ lease'.run = r /\ lease'.owner = p
    BY <1>1 DEF AcquireRun, LeaseRows
  <2>3. proc' \in [Procs -> Callers]
    BY <1>1 DEF AcquireRun, Callers, LInv, TypeOK
  <2>4. HealthTypes'
    BY HealthTypesKept DEF AcquireRun, LInv
  <2>5. lease'.run # None /\ lease'.owner # Nobody
    BY <1>1, <2>2, ConstantFacts, LeaseAssumption
  <2> QED
    BY <2>1, <2>2, <2>3, <2>4, <2>5 DEF AcquireRun, LInv, TypeOK, HealthTypes
<1>4. Numbered'
  <2>1. PICK k \in Nat : {q \in Runs : run[q] # "absent"} = 1..k
    BY DEF LInv, Numbered
  <2>2. r = k + 1
    BY <2>1, NextRunIsNew
  <2>3. {q \in Runs : run'[q] # "absent"} = (1..k) \union {r}
    BY <1>1, <1>2, <2>1, ReclaimedFacts
  <2>4. (1..k) \union {r} = 1..(k + 1)
    BY <2>2
  <2> QED
    BY <2>3, <2>4 DEF Numbered
<1>5. WorkersHaveRuns'
  BY <1>1, ConstantFacts DEF AcquireRun, LInv, TypeOK, WorkersHaveRuns
<1>6. RunningIsLeased'
  <2>1. {q \in Runs : run'[q] = "running"} = {r}
    BY <1>1, <1>2, ReclaimedFacts
  <2>2. lease'.run = r /\ r # None
    BY <1>1, ConstantFacts DEF AcquireRun
  <2> QED
    BY <2>1, <2>2 DEF RunningIsLeased
<1> QED
  BY <1>3, <1>4, <1>5, <1>6 DEF LInv

LEMMA AcquireProbeStep ==
  ASSUME LInv, NEW p \in Procs, NEW t \in Clocks(p), NEW b \in ProbeBudgets,
         AcquireProbe(p, t, b)
  PROVE  LInv'
<1>1. t \in Nat /\ b \in Nat /\ now \in Nat
  BY ClockFacts, ConstantFacts DEF LInv, TypeOK
<1>2. run' = Reclaimed /\ Reclaimable
  BY DEF AcquireProbe
<1>3. TypeOK'
  <2>1. lease' \in LeaseRows /\ lease'.kind = "probe" /\ lease'.run = None
          /\ lease'.owner = p /\ p # Nobody
    BY <1>1, LeaseAssumption DEF AcquireProbe, LeaseRows
  <2>2. proc' \in [Procs -> Callers]
    BY <1>1 DEF AcquireProbe, Callers, LInv, TypeOK
  <2>3. HealthTypes'
    BY HealthTypesKept DEF AcquireProbe, LInv
  <2> QED
    BY <1>2, <2>1, <2>2, <2>3, ReclaimedFacts
       DEF AcquireProbe, LInv, TypeOK, HealthTypes
<1>4. Numbered'
  <2>1. {q \in Runs : run'[q] # "absent"} = {q \in Runs : run[q] # "absent"}
    BY <1>2, ReclaimedFacts
  <2> QED
    BY <2>1 DEF LInv, Numbered
<1>5. WorkersHaveRuns'
  BY DEF AcquireProbe, LInv, TypeOK, WorkersHaveRuns
<1>6. RunningIsLeased'
  <2>1. {q \in Runs : run'[q] = "running"} = {} /\ lease'.run = None
    BY <1>2, ReclaimedFacts DEF AcquireProbe
  <2> QED
    BY <2>1 DEF RunningIsLeased
<1> QED
  BY <1>3, <1>4, <1>5, <1>6 DEF LInv

LEMMA CheckpointStep ==
  ASSUME LInv, NEW p \in Procs, NEW t \in Clocks(p), Checkpoint(p, t)
  PROVE  LInv'
<1>1. HealthTypes' /\ now' \in 0..MaxTime /\ faults' \in 0..MaxFaults
  BY HealthTypesKept DEF Checkpoint, LInv, TypeOK
<1>2. CASE OwnsRun(p)
  <2>1. lease' = [lease EXCEPT !.beat = t] /\ Goto(p, "working") /\ t \in Nat
    BY <1>2, ClockFacts DEF Checkpoint, LInv
  <2>2. /\ lease' \in LeaseRows /\ lease'.run = lease.run
        /\ lease'.kind = lease.kind /\ lease'.owner = lease.owner
    BY <2>1 DEF LInv, TypeOK, LeaseRows
  <2>3. /\ proc' \in [Procs -> Callers] /\ proc'[p].run = proc[p].run
        /\ proc[p].pc = "working" /\ \A q \in Procs : q # p => proc'[q] = proc[q]
    <3>1. TypeOK /\ proc[p] \in Callers /\ proc[p].pc = "working"
      BY DEF Checkpoint, LInv, TypeOK
    <3>2. proc' \in [Procs -> Callers] /\ proc'[p] = [proc[p] EXCEPT !.pc = "working", !.since = now]
            /\ \A q \in Procs : q # p => proc'[q] = proc[q]
      BY <2>1, <3>1, GotoType
    <3> QED
      BY <3>1, <3>2 DEF Callers
  <2> QED
    BY <1>1, <2>2, <2>3, SameRunsStep DEF Checkpoint, LInv, TypeOK
<1>3. CASE ~OwnsRun(p)
  BY <1>1, <1>3, ReturnType, SameRunsStep DEF Checkpoint, LInv, TypeOK
<1> QED
  BY <1>2, <1>3

LEMMA EndRunStep ==
  ASSUME LInv, NEW p \in Procs, NEW t \in Clocks(p), NEW outcome \in Outcomes,
         EndRun(p, t, outcome)
  PROVE  LInv'
<1>1. HealthTypes' /\ now' \in 0..MaxTime /\ faults' \in 0..MaxFaults
  BY HealthTypesKept DEF EndRun, LInv, TypeOK
<1>2. CASE OwnsRun(p)
  <2> DEFINE r == proc[p].run
             status == IF t >= proc[p].deadline THEN "deadline_exceeded" ELSE outcome
  <2>1. r \in Runs /\ lease.run = r
    BY <1>2 DEF EndRun, OwnsRun, LInv, WorkersHaveRuns, TypeOK, Callers
  <2>2. status \in Statuses \ {"absent", "running"}
    BY LeaseAssumption DEF Statuses
  <2>3. run' = [run EXCEPT ![r] = status] /\ lease' = NoLease
    BY <1>2 DEF EndRun
  <2>4. run[r] = "running" /\ \A q \in Runs : q # r => run[q] # "running"
    <3>1. {q \in Runs : run[q] = "running"} = {r}
      BY <2>1, ConstantFacts DEF LInv, RunningIsLeased
    <3> QED
      BY <3>1
  <2> HIDE DEF r, status
  <2>5. run' \in [Runs -> Statuses] /\ run'[r] = status
          /\ \A q \in Runs : q # r => run'[q] = run[q]
    BY <2>1, <2>2, <2>3 DEF LInv, TypeOK
  <2>6. TypeOK'
    BY <1>1, <2>3, <2>5, ReturnType
       DEF EndRun, LInv, TypeOK, HealthTypes, NoLease, LeaseRows
  <2>7. {q \in Runs : run'[q] # "absent"} = {q \in Runs : run[q] # "absent"}
    BY <2>1, <2>2, <2>4, <2>5
  <2>8. Numbered'
    BY <2>7 DEF LInv, Numbered
  <2>9. WorkersHaveRuns'
    BY ReturnType DEF EndRun, LInv, WorkersHaveRuns
  <2>10. RunningIsLeased'
    BY <2>2, <2>3, <2>4, <2>5 DEF RunningIsLeased, NoLease
  <2> QED
    BY <2>6, <2>8, <2>9, <2>10 DEF LInv
<1>3. CASE ~OwnsRun(p)
  BY <1>1, <1>3, ReturnType, SameRunsStep DEF EndRun, LInv, TypeOK
<1> QED
  BY <1>2, <1>3

LEMMA RecordHealthTypes ==
  ASSUME LInv, NEW p \in Procs, NEW t \in Clocks(p), NEW state \in PageStates,
         RecordObservation(p, t, state)
  PROVE  HealthTypes'
<1> DEFINE no == Len(obs) + 1
           episode == CASE state = "other" -> None
                        [] state # "other" /\ open # {} -> CHOOSE e \in open : TRUE
                        [] state = "requires_user" /\ open = {} -> no
                        [] state = "ready" /\ open = {} -> None
           row == [state |-> state, at |-> t, episode |-> episode]
<1>1. CASE UNCHANGED health
  BY <1>1, HealthTypesKept DEF LInv
<1>2. CASE /\ obs' = Append(obs, row) /\ no <= MaxObs
           /\ open' = CASE state = "ready"         -> {}
                        [] state = "requires_user" -> {episode}
                        [] OTHER                   -> open
           /\ outbox' = IF episode = no THEN outbox \union {no} ELSE outbox
  <2>1. /\ obs \in Seq(ObsRows) /\ Len(obs) \in Nat /\ DOMAIN obs = 1..Len(obs)
        /\ open \subseteq DOMAIN obs /\ outbox \subseteq DOMAIN obs /\ t \in Nat
    BY ClockFacts, LenProperties DEF LInv, TypeOK
  <2>2. /\ episode \in 0..no
        /\ state = "requires_user" => episode \in 1..no
    <3>1. CASE open = {}
      BY <2>1, <3>1 DEF PageStates, None
    <3>2. CASE open # {}
      <4>1. (CHOOSE e \in open : TRUE) \in 1..Len(obs)
        BY <2>1, <3>2
      <4> QED
        BY <2>1, <3>2, <4>1 DEF PageStates, None
    <3> QED
      BY <3>1, <3>2
  <2> HIDE DEF episode
  <2>3. row \in ObsRows
    BY <2>1, <2>2 DEF ObsRows
  <2> HIDE DEF row
  <2>4. obs' \in Seq(ObsRows) /\ Len(obs') = no /\ DOMAIN obs' = 1..no
    BY <1>2, <2>1, <2>3, AppendProperties, LenProperties
  <2> QED
    BY <1>2, <2>1, <2>2, <2>4 DEF HealthTypes
<1> QED
  BY <1>1, <1>2 DEF RecordObservation

LEMMA RecordStep ==
  ASSUME LInv, NEW p \in Procs, NEW t \in Clocks(p), NEW state \in PageStates,
         RecordObservation(p, t, state)
  PROVE  LInv'
<1>1. /\ HealthTypes' /\ now' \in 0..MaxTime /\ faults' \in 0..MaxFaults
      /\ run' = run /\ lease' = lease /\ lease \in LeaseRows
  BY RecordHealthTypes DEF RecordObservation, LInv, TypeOK
<1>2. /\ proc' \in [Procs -> Callers] /\ proc'[p].pc = "release"
      /\ \A q \in Procs : q # p => proc'[q] = proc[q]
  BY GotoType DEF RecordObservation, LInv, TypeOK, Callers
<1> QED
  BY <1>1, <1>2, SameRunsStep DEF LInv, TypeOK

LEMMA ReleaseStep ==
  ASSUME LInv, NEW p \in Procs, ReleaseProbe(p)
  PROVE  LInv'
<1>1. HealthTypes' /\ now' \in 0..MaxTime /\ faults' \in 0..MaxFaults /\ run' = run
  BY HealthTypesKept DEF ReleaseProbe, LInv, TypeOK
<1>2. /\ proc' \in [Procs -> Callers] /\ proc'[p].pc = "idle"
      /\ \A q \in Procs : q # p => proc'[q] = proc[q]
  BY ReturnType DEF ReleaseProbe, LInv
<1>3. /\ lease' \in LeaseRows /\ lease'.run = lease.run
      /\ lease'.kind = "run" <=> lease'.run # None
      /\ lease'.kind = "none" <=> lease'.owner = Nobody
  BY DEF ReleaseProbe, OwnsProbe, LInv, TypeOK, LeaseRows, NoLease
<1> QED
  BY <1>1, <1>2, <1>3, SameRunsStep

LEMMA CrashStep ==
  ASSUME LInv, NEW p \in Procs, Crash(p)
  PROVE  LInv'
<1>1. HealthTypes' /\ now' \in 0..MaxTime /\ faults' \in 0..MaxFaults
  BY HealthTypesKept, ConstantFacts DEF Crash, LInv, TypeOK
<1>2. /\ proc' \in [Procs -> Callers] /\ proc'[p].pc = "idle"
      /\ \A q \in Procs : q # p => proc'[q] = proc[q]
  BY ReturnType DEF Crash, LInv
<1> QED
  BY <1>1, <1>2, SameRunsStep DEF Crash, LInv, TypeOK

LEMMA QuietStep ==
  ASSUME LInv, UNCHANGED <<lease, run, health, proc, faults>>, now' \in 0..MaxTime
  PROVE  LInv'
<1>1. HealthTypes'
  BY HealthTypesKept DEF LInv
<1> QED
  BY <1>1, SameRunsStep DEF LInv, TypeOK

LEMMA StepLInv == LInv /\ [Next]_vars => LInv'
<1> SUFFICES ASSUME LInv, [Next]_vars PROVE LInv'
  OBVIOUS
<1>1. CASE UNCHANGED vars
  BY <1>1, QuietStep DEF vars, LInv, TypeOK
<1>2. CASE Tick
  BY <1>2, QuietStep, ConstantFacts DEF Tick, LInv, TypeOK
<1>3. CASE Acquire
  BY <1>3, AcquireRunStep, AcquireProbeStep DEF Acquire
<1>4. ASSUME NEW p \in Procs, Work(p) PROVE LInv'
  BY <1>4, CheckpointStep, EndRunStep, RecordStep, ReleaseStep, CrashStep DEF Work
<1> QED
  BY <1>1, <1>2, <1>3, <1>4 DEF Next

\* The lease and the runs keep naming each other.
THEOREM Inductive == Spec => []LInv
<1>1. Init => LInv
  BY InitLInv
<1>2. LInv /\ [Next]_vars => LInv'
  BY StepLInv
<1> QED
  BY <1>1, <1>2, PTL DEF Spec

\* Lease, runs, health records and processes keep their types.
THEOREM Typing == Spec => []TypeOK
<1>1. LInv => TypeOK
  BY DEF LInv
<1> QED
  BY <1>1, Inductive, PTL

\* Whoever took the lease from whom, the run that is running is the one that
\* owns it (acquire_or_coalesce, acquire_probe_lease, finish_run).
THEOREM RunningRunOwnsLease == Spec => []RunningIsLeased
<1>1. LInv => RunningIsLeased
  BY DEF LInv
<1> QED
  BY <1>1, Inductive, PTL

-----------------------------------------------------------------------------
(* A run ends once *)

LEMMA EndedStays ==
  ASSUME LInv, [Next]_vars, NEW r \in Runs, run[r] \notin {"absent", "running"}
  PROVE  run'[r] = run[r]
<1>1. CASE run' = run
  BY <1>1
<1>2. ASSUME NEW p \in Procs, NEW t \in Clocks(p), NEW b \in RunBudgets, AcquireRun(p, t, b)
      PROVE  run'[r] = run[r]
  <2>1. PICK k \in Nat : {q \in Runs : run[q] # "absent"} = 1..k
    BY DEF LInv, Numbered
  <2>2. NextRun # r /\ Reclaimed[r] = run[r] /\ Reclaimed \in [Runs -> Statuses]
    BY <1>2, <2>1, NextRunIsNew, ReclaimedFacts DEF AcquireRun
  <2> QED
    BY <1>2, <2>2 DEF AcquireRun
<1>3. ASSUME NEW p \in Procs, NEW t \in Clocks(p), NEW b \in ProbeBudgets, AcquireProbe(p, t, b)
      PROVE  run'[r] = run[r]
  BY <1>3, ReclaimedFacts DEF AcquireProbe
<1>4. ASSUME NEW p \in Procs, NEW t \in Clocks(p), NEW outcome \in Outcomes, EndRun(p, t, outcome)
      PROVE  run'[r] = run[r]
  <2>1. CASE OwnsRun(p)
    <3>1. proc[p].run \in Runs /\ lease.run = proc[p].run
      BY <1>4, <2>1 DEF EndRun, OwnsRun, LInv, WorkersHaveRuns, TypeOK, Callers
    <3>2. run[proc[p].run] = "running"
      BY <3>1, ConstantFacts DEF LInv, RunningIsLeased
    <3> QED
      BY <1>4, <2>1, <3>1, <3>2 DEF EndRun, LInv, TypeOK
  <2>2. CASE ~OwnsRun(p)
    BY <1>4, <2>2 DEF EndRun
  <2> QED
    BY <2>1, <2>2
<1> QED
  BY <1>1, <1>2, <1>3, <1>4
     DEF Next, Acquire, Work, Checkpoint, RecordObservation, ReleaseProbe, Crash, Tick, vars

\* An owner that was fenced while it worked changes no run that has ended
\* (_owned_deadline_at, _finish_run, _reclaim_stale_run).
THEOREM NoRunEndsTwice == Spec => RunEndsOnce
<1>1. LInv /\ [Next]_vars =>
        [\A r \in Runs : run[r] \notin {"absent", "running"} => run'[r] = run[r]]_vars
  BY EndedStays
<1> QED
  BY <1>1, Inductive, PTL DEF Spec, RunEndsOnce

-----------------------------------------------------------------------------
(* The health records *)

Deciding == {i \in DOMAIN obs : obs[i].state # "other"}
Lastly   == {i \in Deciding : \A j \in Deciding : j <= i}

InOrder == \A i, j \in DOMAIN obs : i < j => obs[i].at <= obs[j].at
Opened  == open = {obs[i].episode : i \in {i \in Lastly : obs[i].state = "requires_user"}}
Told    == outbox = {obs[i].episode : i \in DOMAIN obs} \ {None}

\* What was observed was observed before now, and before the probe that owns
\* the lease began.
ObsInPast == \A i \in DOMAIN obs : obs[i].at <= now
ProbeIsYounger ==
  \A p \in Procs : (proc[p].pc = "probing" /\ OwnsProbe(p)) =>
    \A i \in DOMAIN obs : obs[i].at <= proc[p].since

HInv == LInv /\ InOrder /\ Opened /\ Told /\ ObsInPast /\ ProbeIsYounger

LEMMA InOrderIsLatest == InOrder /\ Opened /\ Told <=> HealthIsLatest
  BY DEF HealthIsLatest, InOrder, Opened, Told, Lastly, Deciding

LEMMA InitHInv == Init => HInv
<1> SUFFICES ASSUME Init PROVE HInv
  OBVIOUS
<1>1. DOMAIN obs = {} /\ open = {} /\ outbox = {}
  BY DEF Init
<1> QED
  BY <1>1, InitLInv DEF Init, HInv, InOrder, Opened, Told, Lastly, Deciding, ObsInPast, ProbeIsYounger

LEMMA ObsFacts ==
  ASSUME TypeOK
  PROVE  /\ obs \in Seq(ObsRows) /\ Len(obs) \in Nat /\ DOMAIN obs = 1..Len(obs)
         /\ \A i \in DOMAIN obs : obs[i] \in ObsRows /\ obs[i].at \in Nat
         /\ now \in Nat
<1>1. obs \in Seq(ObsRows) /\ Len(obs) \in Nat /\ DOMAIN obs = 1..Len(obs) /\ now \in Nat
  BY LenProperties, ConstantFacts DEF TypeOK
<1>2. \A i \in DOMAIN obs : obs[i] \in ObsRows
  BY <1>1, ElementOfSeq
<1> QED
  BY <1>1, <1>2 DEF ObsRows

\* A step that records nothing, and after which the probe that owns the lease
\* either did so before or begins now.
LEMMA UnrecordedStep ==
  ASSUME HInv, LInv', UNCHANGED health, now' >= now,
         \A p \in Procs : (proc'[p].pc = "probing" /\ OwnsProbe(p)') =>
           \/ proc[p].pc = "probing" /\ OwnsProbe(p) /\ proc'[p].since = proc[p].since
           \/ proc'[p].since = now
  PROVE  HInv'
<1>1. InOrder' /\ Opened' /\ Told'
  BY DEF HInv, InOrder, Opened, Told, Lastly, Deciding, health
<1>2. now' \in Nat /\ now \in Nat /\ \A i \in DOMAIN obs : obs[i].at \in Nat
  BY ObsFacts, ConstantFacts DEF HInv, LInv, TypeOK
<1>3. ObsInPast'
  BY <1>2 DEF HInv, ObsInPast, health
<1>4. ProbeIsYounger'
  BY <1>2 DEF HInv, ProbeIsYounger, ObsInPast, health
<1> QED
  BY <1>1, <1>3, <1>4 DEF HInv

LEMMA GotoNotProbing ==
  ASSUME TypeOK, NEW p \in Procs, NEW l \in {"working", "release"}, Goto(p, l)
  PROVE  \A q \in Procs : proc'[q].pc = "probing" => proc'[q] = proc[q]
<1>1. proc'[p] = [proc[p] EXCEPT !.pc = l, !.since = now] /\ proc[p] \in Callers
        /\ \A q \in Procs : q # p => proc'[q] = proc[q]
  BY GotoType DEF TypeOK
<1> QED
  BY <1>1 DEF Callers

\* One observation more, of the probe that owns the lease.
LEMMA RecordedStep ==
  ASSUME HInv, LInv', NEW p \in Procs, NEW t \in Clocks(p), NEW state \in PageStates,
         RecordObservation(p, t, state), ~UNCHANGED health
  PROVE  HInv'
<1> DEFINE no == Len(obs) + 1
           episode == CASE state = "other" -> None
                        [] state # "other" /\ open # {} -> CHOOSE e \in open : TRUE
                        [] state = "requires_user" /\ open = {} -> no
                        [] state = "ready" /\ open = {} -> None
           row == [state |-> state, at |-> t, episode |-> episode]
<1>1. /\ obs' = Append(obs, row)
      /\ open' = CASE state = "ready"         -> {}
                   [] state = "requires_user" -> {episode}
                   [] OTHER                   -> open
      /\ outbox' = IF episode = no THEN outbox \union {no} ELSE outbox
      /\ proc[p].pc = "probing" /\ Goto(p, "release") /\ now' = now /\ lease' = lease
      /\ OwnsProbe(p)
  BY DEF RecordObservation
<1>2. /\ obs \in Seq(ObsRows) /\ Len(obs) \in Nat /\ DOMAIN obs = 1..Len(obs) /\ now \in Nat
      /\ \A i \in DOMAIN obs : obs[i] \in ObsRows /\ obs[i].at \in Nat
  BY ObsFacts DEF HInv, LInv
<1>3. /\ t \in Nat /\ t <= now /\ proc[p].since \in Nat /\ proc[p].since <= t
  BY ClockFacts DEF HInv, LInv
<1>4. /\ episode \in open \union {None, no}
      /\ state = "other" => episode = None
  <2>1. CASE state = "other"
    BY <2>1
  <2>2. CASE state # "other" /\ open # {}
    <3>1. episode = CHOOSE e \in open : TRUE
      BY <2>2
    <3>2. episode \in open
      BY <2>2, <3>1
    <3> QED
      BY <2>2, <3>2
  <2>3. CASE state # "other" /\ open = {}
    BY <2>3 DEF PageStates, None
  <2> QED
    BY <2>1, <2>2, <2>3
<1> HIDE DEF episode
<1>12. row \in ObsRows
  <2>1. episode \in Nat
    BY <1>2, <1>4 DEF HInv, LInv, TypeOK, None
  <2> QED
    BY <1>3, <2>1 DEF ObsRows
<1>13. row.state = state /\ row.at = t /\ row.episode = episode
  OBVIOUS
<1> HIDE DEF row
<1>5. /\ DOMAIN obs' = 1..no /\ obs'[no] = row
      /\ \A i \in DOMAIN obs : obs'[i] = obs[i]
  BY <1>1, <1>2, <1>12, AppendProperties
<1>6. \A i \in DOMAIN obs : obs[i].at <= t
  <2>1. \A i \in DOMAIN obs : obs[i].at <= proc[p].since
    BY <1>1 DEF HInv, ProbeIsYounger
  <2> QED
    BY <2>1, <1>2, <1>3
<1>7. InOrder'
  <2> SUFFICES ASSUME NEW i \in 1..no, NEW j \in 1..no, i < j
               PROVE  obs'[i].at <= obs'[j].at
    BY <1>5 DEF InOrder
  <2>1. i \in DOMAIN obs /\ (j \in DOMAIN obs \/ j = no)
    BY <1>2
  <2> QED
    BY <2>1, <1>2, <1>5, <1>6, <1>13 DEF HInv, InOrder
<1>8. ObsInPast'
  <2> SUFFICES ASSUME NEW i \in 1..no PROVE obs'[i].at <= now
    BY <1>1, <1>5 DEF ObsInPast
  <2>1. i \in DOMAIN obs \/ i = no
    BY <1>2
  <2> QED
    BY <2>1, <1>3, <1>5, <1>13 DEF HInv, ObsInPast
<1>9. ProbeIsYounger'
  <2>1. \A q \in Procs : proc'[q].pc = "probing" => q # p
    <3>1. proc'[p] = [proc[p] EXCEPT !.pc = "release", !.since = now] /\ proc[p] \in Callers
      BY <1>1, GotoType DEF HInv, LInv, TypeOK
    <3> QED
      BY <3>1 DEF Callers
  <2>2. \A q \in Procs : OwnsProbe(q)' => q = p
    BY <1>1 DEF OwnsProbe
  <2> QED
    BY <2>1, <2>2 DEF ProbeIsYounger
<1>10. Opened'
  <2>1. CASE state = "other"
    <3>1. Deciding' = Deciding /\ Lastly' = Lastly
      BY <1>2, <1>5, <1>13, <2>1 DEF Deciding, Lastly
    <3>2. open' = open /\ Lastly \subseteq DOMAIN obs
      BY <1>1, <2>1 DEF Lastly, Deciding
    <3> QED
      BY <1>5, <3>1, <3>2 DEF HInv, Opened
  <2>2. CASE state # "other"
    <3>1. Deciding' = Deciding \union {no} /\ Deciding \subseteq 1..Len(obs)
      BY <1>2, <1>5, <1>13, <2>2 DEF Deciding
    <3>2. Lastly' = {no}
      <4>1. no \in Deciding' /\ \A j \in Deciding' : j <= no
        BY <1>2, <3>1
      <4>2. \A i \in Deciding' : i # no => ~(no <= i)
        BY <1>2, <3>1
      <4> QED
        BY <4>1, <4>2 DEF Lastly
    <3>3. open' = IF state = "ready" THEN {} ELSE {episode}
      BY <1>1, <2>2 DEF PageStates
    <3>4. {obs'[i].episode : i \in {i \in {no} : obs'[i].state = "requires_user"}}
            = IF state = "ready" THEN {} ELSE {episode}
      BY <1>5, <1>13, <2>2 DEF PageStates
    <3> QED
      BY <3>2, <3>3, <3>4 DEF Opened
  <2> QED
    BY <2>1, <2>2
<1>11. Told'
  <2>1. {obs'[i].episode : i \in DOMAIN obs'} = {obs[i].episode : i \in DOMAIN obs} \union {episode}
    BY <1>2, <1>5, <1>13
  <2>2. open \subseteq outbox
    <3>1. open \subseteq {obs[i].episode : i \in DOMAIN obs} /\ None \notin open
      BY <1>2 DEF HInv, Opened, Lastly, Deciding, LInv, TypeOK, None
    <3> QED
      BY <3>1 DEF HInv, Told
  <2>3. no # None
    BY <1>2 DEF None
  <2> QED
    BY <1>1, <1>4, <2>1, <2>2, <2>3 DEF HInv, Told
<1> QED
  BY <1>7, <1>8, <1>9, <1>10, <1>11 DEF HInv

LEMMA StepHInv == HInv /\ [Next]_vars => HInv'
<1> SUFFICES ASSUME HInv, [Next]_vars PROVE HInv'
  OBVIOUS
<1>1. LInv' /\ LInv /\ TypeOK /\ now \in Nat
  BY StepLInv, ConstantFacts DEF HInv, LInv, TypeOK
<1>2. CASE UNCHANGED vars \/ Tick
  BY <1>1, <1>2, UnrecordedStep DEF Tick, vars, OwnsProbe
<1>3. CASE Acquire
  <2>1. PICK p \in Procs : /\ UNCHANGED <<now, health>>
                           /\ proc'[p].since = now
                           /\ \A q \in Procs : q # p => proc'[q] = proc[q]
                           /\ lease'.owner = p
    BY <1>1, <1>3 DEF Acquire, AcquireRun, AcquireProbe, TypeOK, Callers
  <2> QED
    BY <1>1, <2>1, UnrecordedStep DEF OwnsProbe
<1>4. ASSUME NEW p \in Procs, Work(p) PROVE HInv'
  <2>1. ASSUME NEW t \in Clocks(p), NEW state \in PageStates,
               RecordObservation(p, t, state)
        PROVE  HInv'
    <3>1. CASE ~UNCHANGED health
      BY <1>1, <2>1, <3>1, RecordedStep
    <3>2. CASE UNCHANGED health
      <4>1. \A q \in Procs : proc'[q].pc = "probing" => proc'[q] = proc[q]
        BY <1>1, <2>1, GotoNotProbing DEF RecordObservation
      <4> QED
        BY <1>1, <2>1, <3>2, <4>1, UnrecordedStep DEF RecordObservation, OwnsProbe
    <3> QED
      BY <3>1, <3>2
  <2>2. CASE \/ \E t \in Clocks(p) : Checkpoint(p, t) \/ \E o \in Outcomes : EndRun(p, t, o)
             \/ ReleaseProbe(p) \/ Crash(p)
    <3>1. UNCHANGED <<now, health>>
      BY <2>2 DEF Checkpoint, EndRun, ReleaseProbe, Crash
    <3>2. \A q \in Procs : proc'[q].pc = "probing" => proc'[q] = proc[q]
      <4>1. Goto(p, "working") \/ Return(p)
        BY <2>2 DEF Checkpoint, EndRun, ReleaseProbe, Crash
      <4>2. CASE Goto(p, "working")
        BY <1>1, <4>2, GotoNotProbing
      <4>3. CASE Return(p)
        BY <1>1, <4>3, ReturnType
      <4> QED
        BY <4>1, <4>2, <4>3
    <3>3. \A q \in Procs : OwnsProbe(q)' => OwnsProbe(q)
      BY <1>1, <2>2
         DEF Checkpoint, EndRun, ReleaseProbe, Crash, TypeOK, LeaseRows, NoLease, OwnsProbe
    <3> QED
      BY <1>1, <3>1, <3>2, <3>3, UnrecordedStep
  <2> QED
    BY <1>4, <2>1, <2>2 DEF Work
<1> QED
  BY <1>2, <1>3, <1>4 DEF Next

\* However probes overlap, lose the lease and wait for it, the observation
\* taken for the latest was made last, and what is open and told follows from
\* it (record_probe_observation).
THEOREM HealthIsTrue == Spec => []HealthIsLatest
<1>1. Init => HInv
  BY InitHInv
<1>2. HInv /\ [Next]_vars => HInv'
  BY StepHInv
<1>3. HInv => HealthIsLatest
  BY InOrderIsLatest DEF HInv
<1> QED
  BY <1>1, <1>2, <1>3, PTL DEF Spec
=============================================================================
